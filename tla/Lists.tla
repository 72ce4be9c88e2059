------------------------------- MODULE Lists --------------------------------
(***************************************************************************)
(* Lists that hold a key once, as the caches, buses and tables of the      *)
(* repository keep them beside a map, and sums of sizes; with what the     *)
(* proofs about them have in common.                                       *)
(***************************************************************************)
EXTENDS Integers, Sequences, FiniteSets, Functions, FiniteSetTheorems, FunctionTheorems, TLAPS

(* The members of s that are in D, in their order. *)
Only(s, D) ==
    LET kept[n \in 0..Len(s)] ==
            IF n = 0 THEN <<>>
            ELSE IF s[n] \in D THEN Append(kept[n - 1], s[n]) ELSE kept[n - 1]
    IN  kept[Len(s)]

(* The sizes f of the members of D, together: a set with f[k] elements for *)
(* each k is counted.                                                      *)
Units(f, k) == {k} \X (1..f[k])
SumOver(f, D) == Cardinality(UNION {Units(f, k) : k \in D})

(* A sequence that holds each member of D once and nothing else.           *)
IsListOf(s, D) == s \in Seq(D) /\ Range(s) = D /\ IsInjective(s)

-----------------------------------------------------------------------------
(* Every non-empty set of naturals has a least member: the intervals that  *)
(* end at its members are finite sets, and strict inclusion of finite sets *)
(* is well-founded.                                                        *)
LEMMA Least ==
    ASSUME NEW T, T \subseteq Nat, T # {}
    PROVE  \E x \in T : \A y \in T : x <= y
  <1> DEFINE F == {0..n : n \in T}
             R == StrictSubsetOrdering(Nat)
             S == FiniteSubsetsOf(Nat)
  <1>1. IsWellFoundedOn(R, S)
    BY FS_StrictSubsetOrderingWellFounded
  <1>2. F \subseteq S /\ F # {}
    <2>1. \A n \in T : 0..n \in SUBSET Nat /\ IsFiniteSet(0..n)
      BY FS_Interval
    <2>2. \A n \in T : 0..n \in S
      BY <2>1 DEF FiniteSubsetsOf
    <2> HIDE DEF S
    <2> QED BY <2>2
  <1> HIDE DEF F, R, S
  <1>3. PICK z \in F : \A y \in F : ~ (<<y, z>> \in R)
    BY <1>1, <1>2, WFMin
  <1>4. PICK x \in T : z = 0..x
    BY DEF F
  <1>5. ASSUME NEW y \in T, y < x PROVE FALSE
    <2>1. 0..y \in F /\ 0..y \subseteq z /\ 0..y # z
      BY <1>4, <1>5 DEF F
    <2>2. 0..y \in SUBSET Nat /\ z \in SUBSET Nat
      BY <1>4
    <2>3. <<0..y, z>> \in R
      BY <2>1, <2>2 DEF R, StrictSubsetOrdering
    <2> QED BY <2>1, <2>3, <1>3
  <1>6. \A y \in T : x <= y
    BY <1>5
  <1> QED BY <1>6

(* Every non-empty set of naturals with a bound has a greatest member.     *)
LEMMA Greatest ==
    ASSUME NEW T, NEW m \in Nat, T \subseteq 0..m, T # {}
    PROVE  \E x \in T : \A y \in T : y <= x
  <1> DEFINE U == {n \in 0..m : \A y \in T : y <= n}
  <1>1. U \subseteq Nat /\ m \in U
    OBVIOUS
  <1> HIDE DEF U
  <1>2. PICK x \in U : \A y \in U : x <= y
    BY <1>1, Least
  <1>3. x \in 0..m /\ \A y \in T : y <= x
    BY DEF U
  <1>4. ASSUME x \notin T PROVE FALSE
    <2>1. PICK y \in T : TRUE
      OBVIOUS
    <2>2. y <= x /\ y # x /\ y \in Nat /\ x \in Nat
      BY <1>3, <1>4
    <2>3. x # 0 /\ x - 1 \in 0..m
      BY <1>3, <2>2
    <2>4. \A z \in T : z <= x - 1
      <3> SUFFICES ASSUME NEW z \in T PROVE z <= x - 1
        OBVIOUS
      <3>1. z <= x /\ z # x /\ z \in Nat /\ x \in Nat
        BY <1>3, <1>4
      <3> QED BY <3>1
    <2>5. x - 1 \in U
      BY <2>3, <2>4 DEF U
    <2> QED BY <1>2, <1>3, <2>5
  <1> QED BY <1>3, <1>4

(* Induction up to m, for the members of a set.                            *)
LEMMA InductionUpTo ==
    ASSUME NEW T, NEW m \in Nat, 0 \in T, \A n \in 0..(m - 1) : n \in T => n + 1 \in T
    PROVE  \A n \in 0..m : n \in T
  <1> DEFINE U == (0..m) \ T
  <1> SUFFICES ASSUME U # {} PROVE FALSE
    OBVIOUS
  <1>1. U \subseteq Nat
    OBVIOUS
  <1> HIDE DEF U
  <1>2. PICK x \in U : \A y \in U : x <= y
    BY <1>1, Least
  <1>3. x \in 0..m /\ x \notin T
    BY DEF U
  <1>4. x - 1 \in 0..(m - 1) /\ x - 1 \notin U
    BY <1>1, <1>2, <1>3
  <1>5. x - 1 \in T
    BY <1>4 DEF U
  <1> QED BY <1>3, <1>4, <1>5

-----------------------------------------------------------------------------
(* One more step of Only.                                                  *)
OnlyStep(f, s, D, n) ==
    IF n = 0 THEN <<>> ELSE IF s[n] \in D THEN Append(f[n - 1], s[n]) ELSE f[n - 1]

(* The recursive function of Only exists: it is extended step by step.     *)
LEMMA OnlyExists ==
    ASSUME NEW s, Len(s) \in Nat, NEW D
    PROVE  \E f : f = [n \in 0..Len(s) |-> OnlyStep(f, s, D, n)]
  <1> DEFINE T == {n \in 0..Len(s) : \E f : f = [m \in 0..n |-> OnlyStep(f, s, D, m)]}
  <1>1. Len(s) \in Nat
    OBVIOUS
  <1>2. 0 \in T
    <2> DEFINE f == [m \in 0..0 |-> <<>>]
    <2>1. f = [m \in 0..0 |-> OnlyStep(f, s, D, m)]
      BY DEF OnlyStep
    <2> QED BY <1>1, <2>1
  <1>3. ASSUME NEW n \in 0..(Len(s) - 1), n \in T
        PROVE  n + 1 \in T
    <2>1. PICK f : f = [m \in 0..n |-> OnlyStep(f, s, D, m)]
      BY <1>3
    <2> DEFINE g == [m \in 0..(n + 1) |-> IF m = n + 1 THEN OnlyStep(f, s, D, m) ELSE f[m]]
    <2>2. \A m \in 0..(n + 1) : g[m] = OnlyStep(g, s, D, m)
      <3> SUFFICES ASSUME NEW m \in 0..(n + 1) PROVE g[m] = OnlyStep(g, s, D, m)
        OBVIOUS
      <3>1. m # 0 => m - 1 \in 0..n /\ g[m - 1] = f[m - 1]
        OBVIOUS
      <3>2. OnlyStep(g, s, D, m) = OnlyStep(f, s, D, m)
        BY <3>1 DEF OnlyStep
      <3>3. m # n + 1 => f[m] = OnlyStep(f, s, D, m)
        BY <2>1
      <3>4. g[m] = IF m = n + 1 THEN OnlyStep(f, s, D, m) ELSE f[m]
        OBVIOUS
      <3> QED BY <3>2, <3>3, <3>4
    <2>3. g = [m \in 0..(n + 1) |-> g[m]]
      OBVIOUS
    <2> HIDE DEF g
    <2>4. g = [m \in 0..(n + 1) |-> OnlyStep(g, s, D, m)]
      BY <2>2, <2>3
    <2>5. n + 1 \in 0..Len(s)
      BY <1>1
    <2> QED BY <2>4, <2>5
  <1> HIDE DEF T
  <1>4. Len(s) \in T
    <2>1. \A n \in 0..Len(s) : n \in T
      BY <1>1, <1>2, <1>3, InductionUpTo
    <2> QED BY <1>1, <2>1
  <1> QED BY <1>4 DEF T

LEMMA OnlyIs ==
    ASSUME NEW s, Len(s) \in Nat, NEW D
    PROVE  \E f : /\ \A n \in 0..Len(s) : f[n] = OnlyStep(f, s, D, n)
                  /\ Only(s, D) = f[Len(s)]
  <1> DEFINE f == CHOOSE f : f = [n \in 0..Len(s) |-> OnlyStep(f, s, D, n)]
  <1>1. f = [n \in 0..Len(s) |-> OnlyStep(f, s, D, n)]
    BY OnlyExists
  <1>2. Only(s, D) = f[Len(s)]
    BY DEF Only, OnlyStep
  <1> HIDE DEF f
  <1>3. \A n \in 0..Len(s) : f[n] = OnlyStep(f, s, D, n)
    BY <1>1
  <1> QED BY <1>2, <1>3

-----------------------------------------------------------------------------
(* What a list gives: its length, its members and that they differ.        *)
LEMMA ListFacts ==
    ASSUME NEW s, NEW D, IsListOf(s, D)
    PROVE  /\ s \in Seq(D) /\ Len(s) \in Nat /\ DOMAIN s = 1..Len(s)
           /\ \A i \in 1..Len(s) : s[i] \in D
           /\ \A x \in D : \E i \in 1..Len(s) : s[i] = x
           /\ \A i, j \in 1..Len(s) : s[i] = s[j] => i = j
  <1>1. s \in Seq(D) /\ Len(s) \in Nat /\ DOMAIN s = 1..Len(s)
    BY DEF IsListOf
  <1>2. Range(s) = D
    BY DEF IsListOf
  <1>3. \A x \in D : \E i \in 1..Len(s) : s[i] = x
    BY <1>1, <1>2 DEF Range
  <1>4. \A i, j \in 1..Len(s) : s[i] = s[j] => i = j
    BY <1>1 DEF IsListOf, IsInjective
  <1>5. \A i \in 1..Len(s) : s[i] \in D
    BY <1>1
  <1> QED BY <1>1, <1>3, <1>4, <1>5

LEMMA MakesList ==
    ASSUME NEW s, NEW D, s \in Seq(D),
           \A x \in D : \E i \in 1..Len(s) : s[i] = x,
           \A i, j \in 1..Len(s) : s[i] = s[j] => i = j
    PROVE  IsListOf(s, D)
  <1>1. DOMAIN s = 1..Len(s) /\ \A i \in 1..Len(s) : s[i] \in D
    OBVIOUS
  <1>2. Range(s) = D
    BY <1>1 DEF Range
  <1>3. IsInjective(s)
    BY <1>1 DEF IsInjective
  <1> QED BY <1>2, <1>3 DEF IsListOf

LEMMA NothingListed == IsListOf(<<>>, {})
  BY DEF IsListOf, Range, IsInjective

LEMMA ListCounts ==
    ASSUME NEW s, NEW D, IsListOf(s, D)
    PROVE  IsFiniteSet(D) /\ Len(s) = Cardinality(D)
  <1>1. /\ s \in Seq(D) /\ Len(s) \in Nat
        /\ \A x \in D : \E i \in 1..Len(s) : s[i] = x
        /\ \A i, j \in 1..Len(s) : s[i] = s[j] => i = j
    BY ListFacts
  <1>2. s \in Bijection(1..Len(s), D)
    <2>1. s \in [1..Len(s) -> D]
      BY <1>1
    <2> QED BY <1>1, <2>1, Fun_IsBij DEF Bijection, Injection, Surjection, IsInjective
  <1>3. ExistsBijection(1..Len(s), D)
    BY <1>2 DEF ExistsBijection
  <1>4. IsFiniteSet(1..Len(s)) /\ Cardinality(1..Len(s)) = Len(s)
    <2> DEFINE n == Len(s)
    <2>1. n \in Nat
      BY <1>1
    <2> HIDE DEF n
    <2>2. IsFiniteSet(1..n) /\ Cardinality(1..n) = n
      BY <2>1, FS_Interval
    <2> QED BY <2>2 DEF n
  <1> QED BY <1>3, <1>4, FS_Bijection

(* A new member at the end, or at the front.                               *)
LEMMA AppendLists ==
    ASSUME NEW t, NEW C, IsListOf(t, C), NEW x, x \notin C
    PROVE  IsListOf(Append(t, x), C \cup {x})
  <1> DEFINE u == Append(t, x)
  <1>1. /\ t \in Seq(C) /\ Len(t) \in Nat
        /\ \A i \in 1..Len(t) : t[i] \in C
        /\ \A y \in C : \E i \in 1..Len(t) : t[i] = y
        /\ \A i, j \in 1..Len(t) : t[i] = t[j] => i = j
    BY ListFacts
  <1>2. t \in Seq(C \cup {x})
    BY <1>1
  <1>3. /\ u \in Seq(C \cup {x}) /\ Len(u) = Len(t) + 1
        /\ \A i \in 1..Len(t) : u[i] = t[i]
        /\ u[Len(t) + 1] = x
    BY <1>2
  <1> HIDE DEF u
  <1>4. ASSUME NEW i \in 1..Len(u), NEW j \in 1..Len(u), u[i] = u[j] PROVE i = j
    <2>1. \A m \in 1..Len(u) : m # Len(t) + 1 => m \in 1..Len(t)
      BY <1>1, <1>3
    <2>2. \A m \in 1..Len(u) : m # Len(t) + 1 => u[m] = t[m] /\ t[m] \in C
      BY <1>1, <1>3, <2>1
    <2>3. CASE i = Len(t) + 1 \/ j = Len(t) + 1
      BY <1>3, <1>4, <2>2, <2>3
    <2>4. CASE i # Len(t) + 1 /\ j # Len(t) + 1
      BY <1>1, <1>4, <2>1, <2>2, <2>4
    <2> QED BY <2>3, <2>4
  <1>5. \A y \in C \cup {x} : \E i \in 1..Len(u) : u[i] = y
    <2>1. \A i \in 1..Len(t) : i \in 1..Len(u)
      BY <1>1, <1>3
    <2>2. Len(t) + 1 \in 1..Len(u)
      BY <1>1, <1>3
    <2> QED BY <1>1, <1>3, <2>1, <2>2
  <1>6. IsListOf(u, C \cup {x})
    BY <1>3, <1>4, <1>5, MakesList
  <1> QED BY <1>6 DEF u

LEMMA PrependLists ==
    ASSUME NEW t, NEW C, IsListOf(t, C), NEW x, x \notin C
    PROVE  IsListOf(<<x>> \o t, C \cup {x})
  <1> DEFINE u == <<x>> \o t
  <1>1. /\ t \in Seq(C) /\ Len(t) \in Nat
        /\ \A i \in 1..Len(t) : t[i] \in C
        /\ \A y \in C : \E i \in 1..Len(t) : t[i] = y
        /\ \A i, j \in 1..Len(t) : t[i] = t[j] => i = j
    BY ListFacts
  <1>2. t \in Seq(C \cup {x}) /\ <<x>> \in Seq(C \cup {x}) /\ Len(<<x>>) = 1
    BY <1>1
  <1>3. /\ u \in Seq(C \cup {x}) /\ Len(u) = Len(t) + 1
        /\ u[1] = x
        /\ \A i \in 2..Len(u) : u[i] = t[i - 1]
    BY <1>1, <1>2
  <1> HIDE DEF u
  <1>4. ASSUME NEW i \in 1..Len(u), NEW j \in 1..Len(u), u[i] = u[j] PROVE i = j
    <2>1. \A n \in 1..Len(u) : n # 1 => n \in 2..Len(u) /\ n - 1 \in 1..Len(t) /\ u[n] = t[n - 1]
      BY <1>1, <1>3
    <2>2. ASSUME NEW n \in 1..Len(u), n # 1 PROVE u[n] # x
      <3>1. n - 1 \in 1..Len(t) /\ u[n] = t[n - 1]
        BY <2>1, <2>2
      <3>2. t[n - 1] \in C
        BY <1>1, <3>1
      <3> QED BY <3>1, <3>2
    <2>3. CASE i = 1 \/ j = 1
      BY <1>3, <1>4, <2>2, <2>3
    <2>4. CASE i # 1 /\ j # 1
      <3>1. t[i - 1] = t[j - 1] /\ i - 1 \in 1..Len(t) /\ j - 1 \in 1..Len(t)
        BY <1>4, <2>1, <2>4
      <3>2. i - 1 = j - 1
        BY <1>1, <3>1
      <3>3. i \in Int /\ j \in Int
        OBVIOUS
      <3> QED BY <3>2, <3>3
    <2> QED BY <2>3, <2>4
  <1>5. \A y \in C \cup {x} : \E i \in 1..Len(u) : u[i] = y
    <2> SUFFICES ASSUME NEW y \in C PROVE \E i \in 1..Len(u) : u[i] = y
      BY <1>1, <1>3
    <2>1. PICK i \in 1..Len(t) : t[i] = y
      BY <1>1
    <2>2. i + 1 \in 2..Len(u) /\ i + 1 \in 1..Len(u) /\ (i + 1) - 1 = i
      BY <1>1, <1>3
    <2> QED BY <1>3, <2>1, <2>2
  <1>6. IsListOf(u, C \cup {x})
    BY <1>3, <1>4, <1>5, MakesList
  <1> QED BY <1>6 DEF u

(* The first n members.                                                    *)
LEMMA FirstLists ==
    ASSUME NEW s, NEW D, IsListOf(s, D), NEW n \in 0..Len(s)
    PROVE  IsListOf(SubSeq(s, 1, n), {s[i] : i \in 1..n})
  <1> DEFINE u == SubSeq(s, 1, n)
             C == {s[i] : i \in 1..n}
  <1>1. /\ s \in Seq(D) /\ Len(s) \in Nat
        /\ \A i, j \in 1..Len(s) : s[i] = s[j] => i = j
    BY ListFacts
  <1>2. Len(u) = n /\ \A i \in 1..n : u[i] = s[i] /\ i \in 1..Len(s)
    BY <1>1
  <1>3. u \in Seq(C)
    <2>1. u = [i \in 1..n |-> s[i]]
      BY <1>1
    <2>2. \A i \in 1..n : s[i] \in C
      OBVIOUS
    <2> HIDE DEF C, u
    <2>3. u \in [1..n -> C]
      BY <2>1, <2>2
    <2>4. n \in Nat
      BY <1>1
    <2> QED BY <2>3, <2>4
  <1>4. \A x \in C : \E i \in 1..Len(u) : u[i] = x
    BY <1>2
  <1>5. \A i, j \in 1..Len(u) : u[i] = u[j] => i = j
    BY <1>1, <1>2
  <1> HIDE DEF u, C
  <1>6. IsListOf(u, C)
    BY <1>3, <1>4, <1>5, MakesList
  <1> QED BY <1>6 DEF u, C

(* What Only computes: the members in D, each once if s has each once.     *)
LEMMA OnlyLists ==
    ASSUME NEW s, NEW D, NEW E, IsListOf(s, E)
    PROVE  IsListOf(Only(s, D), E \cap D)
  <1>0. /\ Len(s) \in Nat
        /\ \A i \in 1..Len(s) : s[i] \in E
        /\ \A x \in E : \E i \in 1..Len(s) : s[i] = x
        /\ \A i, j \in 1..Len(s) : s[i] = s[j] => i = j
    BY ListFacts
  <1>1. PICK f : /\ \A n \in 0..Len(s) : f[n] = OnlyStep(f, s, D, n)
                 /\ Only(s, D) = f[Len(s)]
    BY <1>0, OnlyIs
  <1> DEFINE Up(n) == {s[i] : i \in 1..n}
             T == {n \in 0..Len(s) : IsListOf(f[n], Up(n) \cap D)}
  <1>2. 0 \in T
    <2>1. f[0] = <<>>
      BY <1>0, <1>1 DEF OnlyStep
    <2>2. Up(0) \cap D = {}
      OBVIOUS
    <2> HIDE DEF Up
    <2>3. IsListOf(f[0], Up(0) \cap D)
      BY <2>1, <2>2, NothingListed
    <2>4. 0 \in 0..Len(s)
      BY <1>0
    <2> QED BY <2>3, <2>4
  <1>3. ASSUME NEW n \in 0..(Len(s) - 1), n \in T
        PROVE  n + 1 \in T
    <2> DEFINE x == s[n + 1]
    <2>1. n + 1 \in 0..Len(s) /\ n + 1 # 0 /\ n + 1 \in 1..Len(s)
      BY <1>0
    <2>2. f[n + 1] = IF x \in D THEN Append(f[n], x) ELSE f[n]
      BY <1>1, <2>1 DEF OnlyStep
    <2>3. Up(n + 1) = Up(n) \cup {x} /\ x \notin Up(n)
      <3>1. \A i \in 1..n : i \in 1..Len(s) /\ i # n + 1
        BY <1>0
      <3>2. x \notin Up(n)
        BY <1>0, <2>1, <3>1
      <3>3. 1..(n + 1) = (1..n) \cup {n + 1}
        BY <1>0
      <3> QED BY <3>2, <3>3
    <2>4. IsListOf(f[n], Up(n) \cap D)
      BY <1>3
    <2> HIDE DEF Up, x
    <2>5. CASE x \notin D
      <3>1. Up(n + 1) \cap D = Up(n) \cap D /\ f[n + 1] = f[n]
        BY <2>2, <2>3, <2>5
      <3> QED BY <2>1, <2>4, <3>1
    <2>6. CASE x \in D
      <3> DEFINE C == Up(n) \cap D
      <3>1. x \notin C
        BY <2>3
      <3>2. IsListOf(Append(f[n], x), C \cup {x})
        BY <2>4, <3>1, AppendLists
      <3>3. Up(n + 1) \cap D = C \cup {x}
        BY <2>3, <2>6
      <3> QED BY <2>1, <2>2, <2>6, <3>2, <3>3
    <2> QED BY <2>5, <2>6
  <1>4. IsListOf(f[Len(s)], Up(Len(s)) \cap D)
    <2> HIDE DEF T
    <2>1. \A n \in 0..Len(s) : n \in T
      BY <1>0, <1>2, <1>3, InductionUpTo
    <2>2. Len(s) \in T
      BY <1>0, <2>1
    <2> QED BY <2>2 DEF T
  <1>5. Up(Len(s)) = E
    BY <1>0
  <1> QED BY <1>1, <1>4, <1>5

(* The same for a sequence that may hold a member more than once.          *)
LEMMA OnlyKeeps ==
    ASSUME NEW S, NEW s \in Seq(S), NEW D
    PROVE  Only(s, D) \in Seq(S) /\ Range(Only(s, D)) = Range(s) \cap D
  <1>0. Len(s) \in Nat /\ DOMAIN s = 1..Len(s) /\ \A i \in 1..Len(s) : s[i] \in S
    OBVIOUS
  <1>1. PICK f : /\ \A n \in 0..Len(s) : f[n] = OnlyStep(f, s, D, n)
                 /\ Only(s, D) = f[Len(s)]
    BY <1>0, OnlyIs
  <1> DEFINE Up(n) == {s[i] : i \in 1..n}
             T == {n \in 0..Len(s) : f[n] \in Seq(S) /\ Range(f[n]) = Up(n) \cap D}
  <1>2. 0 \in T
    <2>1. f[0] = <<>>
      BY <1>0, <1>1 DEF OnlyStep
    <2>2. Range(<<>>) = {} /\ Up(0) \cap D = {}
      BY DEF Range
    <2>3. 0 \in 0..Len(s) /\ <<>> \in Seq(S)
      BY <1>0
    <2> HIDE DEF Up
    <2>4. f[0] \in Seq(S) /\ Range(f[0]) = Up(0) \cap D
      BY <2>1, <2>2, <2>3, Zenon
    <2> QED BY <2>3, <2>4
  <1>3. ASSUME NEW n \in 0..(Len(s) - 1), n \in T
        PROVE  n + 1 \in T
    <2> DEFINE x == s[n + 1]
    <2>1. n + 1 \in 0..Len(s) /\ n + 1 # 0 /\ n + 1 \in 1..Len(s)
      BY <1>0
    <2>2. f[n + 1] = (IF x \in D THEN Append(f[n], x) ELSE f[n]) /\ x \in S
      BY <1>0, <1>1, <2>1 DEF OnlyStep
    <2>3. Up(n + 1) = Up(n) \cup {x}
      <3>1. 1..(n + 1) = (1..n) \cup {n + 1}
        BY <1>0
      <3> QED BY <3>1
    <2>4. f[n] \in Seq(S) /\ Range(f[n]) = Up(n) \cap D
      BY <1>3
    <2> HIDE DEF Up, x
    <2>5. CASE x \notin D
      BY <2>1, <2>2, <2>3, <2>4, <2>5
    <2>6. CASE x \in D
      <3> DEFINE t == f[n]
                 u == Append(t, x)
      <3>1. t \in Seq(S) /\ Len(t) \in Nat /\ DOMAIN t = 1..Len(t)
        BY <2>4
      <3> HIDE DEF t
      <3>2. u \in Seq(S) /\ Len(u) = Len(t) + 1 /\ DOMAIN u = 1..(Len(t) + 1) /\ u[Len(t) + 1] = x
            /\ \A i \in 1..Len(t) : u[i] = t[i]
        BY <2>2, <3>1
      <3>3. 1..(Len(t) + 1) = (1..Len(t)) \cup {Len(t) + 1}
        BY <3>1
      <3> HIDE DEF u
      <3>4. Range(u) = Range(t) \cup {x}
        BY <3>1, <3>2, <3>3 DEF Range
      <3>5. Up(n + 1) \cap D = (Up(n) \cap D) \cup {x}
        BY <2>3, <2>6
      <3> QED BY <2>1, <2>2, <2>4, <2>6, <3>2, <3>4, <3>5 DEF t, u
    <2> QED BY <2>5, <2>6
  <1>4. f[Len(s)] \in Seq(S) /\ Range(f[Len(s)]) = Up(Len(s)) \cap D
    <2> HIDE DEF T
    <2>1. \A n \in 0..Len(s) : n \in T
      BY <1>0, <1>2, <1>3, InductionUpTo
    <2>2. Len(s) \in T
      BY <1>0, <2>1
    <2> QED BY <2>2 DEF T
  <1>5. Up(Len(s)) = Range(s)
    BY <1>0 DEF Range
  <1> QED BY <1>1, <1>4, <1>5

(* A member leaves, and comes back at the end or at the front.             *)
LEMMA WithoutLists ==
    ASSUME NEW s, NEW D, IsListOf(s, D), NEW S, D \subseteq S, NEW k
    PROVE  /\ IsListOf(Only(s, S \ {k}), D \ {k})
           /\ IsListOf(Append(Only(s, S \ {k}), k), D \cup {k})
           /\ IsListOf(<<k>> \o Only(s, S \ {k}), D \cup {k})
  <1> DEFINE u == Only(s, S \ {k})
  <1>1. IsListOf(u, D \cap (S \ {k}))
    BY OnlyLists
  <1>2. D \cap (S \ {k}) = D \ {k} /\ (D \ {k}) \cup {k} = D \cup {k} /\ k \notin D \ {k}
    OBVIOUS
  <1> HIDE DEF u
  <1>3. IsListOf(u, D \ {k})
    BY <1>1, <1>2
  <1>4. IsListOf(Append(u, k), (D \ {k}) \cup {k}) /\ IsListOf(<<k>> \o u, (D \ {k}) \cup {k})
    BY <1>2, <1>3, AppendLists, PrependLists
  <1>5. IsListOf(Append(u, k), D \cup {k}) /\ IsListOf(<<k>> \o u, D \cup {k})
    BY <1>2, <1>4
  <1> QED BY <1>3, <1>5 DEF u

-----------------------------------------------------------------------------
(* Sizes of the members of a finite set.                                   *)
HasSizes(f, D) == IsFiniteSet(D) /\ \A k \in D : f[k] \in Nat

LEMMA UnitsCount ==
    ASSUME NEW f, NEW k, f[k] \in Nat
    PROVE  IsFiniteSet(Units(f, k)) /\ Cardinality(Units(f, k)) = f[k]
  <1> DEFINE n == f[k]
  <1>1. IsFiniteSet({k}) /\ Cardinality({k}) = 1
    BY FS_Singleton
  <1>2. IsFiniteSet(1..n) /\ Cardinality(1..n) = n
    BY FS_Interval
  <1>3. IsFiniteSet({k} \X (1..n)) /\ Cardinality({k} \X (1..n)) = Cardinality({k}) * Cardinality(1..n)
    BY <1>1, <1>2, FS_Product
  <1>4. Cardinality({k} \X (1..n)) = 1 * n
    BY <1>1, <1>2, <1>3
  <1> QED BY <1>3, <1>4 DEF Units

LEMMA UnitsFinite ==
    ASSUME NEW f, NEW D, HasSizes(f, D)
    PROVE  IsFiniteSet(UNION {Units(f, k) : k \in D}) /\ SumOver(f, D) \in Nat
  <1> DEFINE g == [k \in D |-> Units(f, k)]
             S == {g[k] : k \in D}
  <1>1. IsFiniteSet(S)
    <2>1. g \in Surjection(D, S)
      <3>1. g \in [D -> S]
        OBVIOUS
      <3>2. \A t \in S : \E k \in D : g[k] = t
        OBVIOUS
      <3> QED BY <3>1, <3>2 DEF Surjection
    <2>2. IsFiniteSet(D)
      BY DEF HasSizes
    <2> HIDE DEF S, g
    <2> QED BY <2>1, <2>2, FS_Surjection
  <1>2. ASSUME NEW t \in S PROVE IsFiniteSet(t)
    <2>1. PICK k \in D : t = Units(f, k)
      OBVIOUS
    <2>2. f[k] \in Nat
      BY DEF HasSizes
    <2> QED BY <2>1, <2>2, UnitsCount
  <1>3. IsFiniteSet(UNION S)
    BY <1>1, <1>2, FS_UNION
  <1>4. UNION S = UNION {Units(f, k) : k \in D}
    OBVIOUS
  <1>5. IsFiniteSet(UNION {Units(f, k) : k \in D})
    BY <1>3, <1>4
  <1> QED BY <1>5, FS_CardinalityType DEF SumOver

LEMMA SumOfNone == \A f : SumOver(f, {}) = 0
  <1> SUFFICES ASSUME NEW f PROVE SumOver(f, {}) = 0
    OBVIOUS
  <1>1. UNION {Units(f, k) : k \in {}} = {}
    OBVIOUS
  <1> QED BY <1>1, FS_EmptySet DEF SumOver

LEMMA SumOfOne ==
    ASSUME NEW f, NEW k, f[k] \in Nat
    PROVE  SumOver(f, {k}) = f[k]
  <1>1. UNION {Units(f, j) : j \in {k}} = Units(f, k)
    OBVIOUS
  <1> QED BY <1>1, UnitsCount DEF SumOver

(* The sum depends on the sizes of the members only.                       *)
LEMMA SumOfSame ==
    ASSUME NEW f, NEW g, NEW D, \A k \in D : f[k] = g[k]
    PROVE  SumOver(f, D) = SumOver(g, D)
  <1>1. \A k \in D : Units(f, k) = Units(g, k)
    BY DEF Units
  <1>2. {Units(f, k) : k \in D} = {Units(g, k) : k \in D}
    BY <1>1
  <1> QED BY <1>2 DEF SumOver

LEMMA SumOfParts ==
    ASSUME NEW f, NEW A, NEW B, HasSizes(f, A), HasSizes(f, B), A \cap B = {}
    PROVE  /\ HasSizes(f, A \cup B)
           /\ SumOver(f, A) \in Nat /\ SumOver(f, B) \in Nat
           /\ SumOver(f, A \cup B) = SumOver(f, A) + SumOver(f, B)
  <1> DEFINE X == UNION {Units(f, k) : k \in A}
             Y == UNION {Units(f, k) : k \in B}
             Z == UNION {Units(f, k) : k \in A \cup B}
  <1>1. Z = X \cup Y
    OBVIOUS
  <1>2. X \cap Y = {}
    <2> SUFFICES ASSUME NEW b \in X, b \in Y PROVE FALSE
      OBVIOUS
    <2>1. PICK j \in A : b \in Units(f, j)
      OBVIOUS
    <2>2. PICK k \in B : b \in Units(f, k)
      OBVIOUS
    <2>3. b[1] = j /\ b[1] = k
      BY <2>1, <2>2 DEF Units
    <2> QED BY <2>3
  <1>3. IsFiniteSet(X) /\ IsFiniteSet(Y) /\ SumOver(f, A) \in Nat /\ SumOver(f, B) \in Nat
    BY UnitsFinite
  <1>4. SumOver(f, A) = Cardinality(X) /\ SumOver(f, B) = Cardinality(Y) /\ SumOver(f, A \cup B) = Cardinality(Z)
    BY DEF SumOver
  <1> HIDE DEF X, Y, Z
  <1>5. Cardinality(X \cup Y) = Cardinality(X) + Cardinality(Y) - Cardinality(X \cap Y)
    BY <1>3, FS_Union
  <1>6. Cardinality(X \cap Y) = 0
    BY <1>2, FS_EmptySet
  <1>7. Cardinality(Z) = Cardinality(X) + Cardinality(Y) - 0
    BY <1>1, <1>5, <1>6
  <1> DEFINE x == SumOver(f, A)
             y == SumOver(f, B)
             z == SumOver(f, A \cup B)
  <1>8. x \in Nat /\ y \in Nat /\ z = x + y - 0
    BY <1>3, <1>4, <1>7
  <1> HIDE DEF x, y, z
  <1>9. x \in Nat /\ y \in Nat /\ z = x + y
    BY <1>8
  <1>10. HasSizes(f, A \cup B)
    <2>1. IsFiniteSet(A \cup B)
      BY FS_Union DEF HasSizes
    <2> QED BY <2>1 DEF HasSizes
  <1> QED BY <1>9, <1>10 DEF x, y, z

(* A part of the members, and the rest.                                    *)
LEMMA SumOfRest ==
    ASSUME NEW f, NEW D, HasSizes(f, D), NEW A, A \subseteq D
    PROVE  /\ HasSizes(f, A) /\ HasSizes(f, D \ A)
           /\ SumOver(f, A) \in Nat /\ SumOver(f, D \ A) \in Nat
           /\ SumOver(f, D) = SumOver(f, D \ A) + SumOver(f, A)
  <1>1. HasSizes(f, A) /\ HasSizes(f, D \ A)
    <2>1. IsFiniteSet(A) /\ IsFiniteSet(D \ A)
      BY FS_Subset DEF HasSizes
    <2> QED BY <2>1 DEF HasSizes
  <1>2. (D \ A) \cap A = {} /\ (D \ A) \cup A = D
    OBVIOUS
  <1>3. /\ SumOver(f, D \ A) \in Nat /\ SumOver(f, A) \in Nat
        /\ SumOver(f, (D \ A) \cup A) = SumOver(f, D \ A) + SumOver(f, A)
    BY <1>1, <1>2, SumOfParts
  <1> QED BY <1>1, <1>2, <1>3

LEMMA SumWithout ==
    ASSUME NEW f, NEW D, HasSizes(f, D), NEW k \in D
    PROVE  /\ f[k] \in Nat /\ SumOver(f, D \ {k}) \in Nat
           /\ SumOver(f, D) = SumOver(f, D \ {k}) + f[k]
  <1>1. {k} \subseteq D /\ f[k] \in Nat
    BY DEF HasSizes
  <1>2. SumOver(f, {k}) = f[k]
    BY <1>1, SumOfOne
  <1>3. SumOver(f, D \ {k}) \in Nat /\ SumOver(f, D) = SumOver(f, D \ {k}) + SumOver(f, {k})
    BY <1>1, SumOfRest
  <1> QED BY <1>1, <1>2, <1>3

=============================================================================
