---------------------------- MODULE TopicMatch ----------------------------
(***************************************************************************)
(* InMemoryAmqpBackend::matchTopicPattern (inmemory_amqp_backend.cpp): the *)
(* match of a routing key against the binding key of a topic exchange, one *)
(* turn of the code's loop per step.  Keys are sequences of words, already *)
(* split at the dots; the empty string is the empty sequence.              *)
(***************************************************************************)
EXTENDS Naturals, Sequences

CONSTANTS
    Words,     \* words of routing keys
    MaxWords   \* bound on the words of a pattern or a key

Star == "*"
Hash == "#"

ASSUME WordsAssumption == Star \notin Words /\ Hash \notin Words
ASSUME MaxWordsAssumption == MaxWords \in Nat

VARIABLES
    pattern, key,
    pi, ki,      \* how many words of each are behind the loop
    result       \* "open" until the function returns TRUE or FALSE

args == <<pattern, key>>
topicVars == <<args, pi, ki, result>>

Split(S) == UNION {[1..n -> S] : n \in 0..MaxWords}

TopicInit ==
    /\ pattern \in Split(Words \cup {Star, Hash})
    /\ key \in Split(Words)
    /\ pi = 0 /\ ki = 0
    /\ result = "open"

Return(yes) == result' = (IF yes THEN "yes" ELSE "no") /\ UNCHANGED <<args, pi, ki>>

(* The tests before the loop *)
Trivial == pattern = key \/ pattern = <<>> \/ key = <<>>
Shortcut ==
    /\ result = "open" /\ Trivial
    /\ Return(pattern = key)

InLoop == result = "open" /\ ~Trivial /\ pi < Len(pattern) /\ ki < Len(key)
P == pattern[pi + 1]

HashLast ==
    /\ InLoop /\ P = Hash /\ pi = Len(pattern) - 1
    /\ Return(TRUE)

(* Words of the key that equal the word after '#', from ki on *)
Later == {k \in ki..(Len(key) - 1) : key[k + 1] = pattern[pi + 2]}

(* The inner loop runs to the first of them and both indexes step over it. *)
(* pi steps over '#' alone, so that the word after it is matched again.    *)
HashFind ==
    /\ InLoop /\ P = Hash /\ pi < Len(pattern) - 1
    /\ \E k \in Later :
         /\ \A j \in Later : k <= j
         /\ pi' = pi + 1 /\ ki' = k + 1
    /\ UNCHANGED <<args, result>>

HashMiss ==
    /\ InLoop /\ P = Hash /\ pi < Len(pattern) - 1 /\ Later = {}
    /\ Return(FALSE)

OneWord ==
    /\ InLoop /\ P # Hash /\ (P = Star \/ P = key[ki + 1])
    /\ pi' = pi + 1 /\ ki' = ki + 1
    /\ UNCHANGED <<args, result>>

Mismatch ==
    /\ InLoop /\ P \notin {Hash, Star, key[ki + 1]}
    /\ Return(FALSE)

(* A mistaken AfterLoop: words of the key that are left over do not matter *)
AfterLoopKeyLeft ==
    /\ result = "open" /\ ~Trivial /\ ~InLoop
    /\ LET end == IF pi < Len(pattern) /\ pattern[pi + 1] = Hash THEN pi + 1 ELSE pi
       IN  Return(end = Len(pattern))

(* A trailing '#' that is left over may stand for no word *)
AfterLoop ==
    /\ result = "open" /\ ~Trivial /\ ~InLoop
    /\ LET end == IF pi < Len(pattern) /\ pattern[pi + 1] = Hash THEN pi + 1 ELSE pi
       IN  Return(end = Len(pattern) /\ ki = Len(key))

TopicNext ==
    \/ Shortcut
    \/ HashLast \/ HashFind \/ HashMiss
    \/ OneWord \/ Mismatch
    \/ AfterLoop

-----------------------------------------------------------------------------
(* Reference: '*' stands for one word, '#' for any number of words.  The   *)
(* words of the pattern cover the key from one end to the other: the i-th  *)
(* ends at at[i].                                                          *)
Matches(p, k) ==
    \E at \in [0..Len(p) -> 0..Len(k)] :
        /\ at[0] = 0 /\ at[Len(p)] = Len(k)
        /\ \A i \in 1..Len(p) :
               IF p[i] = Hash THEN at[i - 1] <= at[i]
               ELSE at[i] = at[i - 1] + 1 /\ p[i] \in {Star, k[at[i]]}

(* No message reaches a queue whose binding key does not match: whatever   *)
(* the loop skips, a positive answer is right.                             *)
NoFalseMatch == result = "yes" => Matches(pattern, key)

(* The answer is right in both directions as long as '#' is the last word, *)
(* as in all of the repository's tests, and the key is not empty.          *)
ExactForTrailingHash ==
    (result # "open" /\ key # <<>> /\ \A i \in 1..(Len(pattern) - 1) : pattern[i] # Hash)
        => (result = "yes" <=> Matches(pattern, key))

(* A '#' before another word does not stand for any number of words, as    *)
(* the comment of matchTopicPattern() has it                               *)
(* (inmemory_amqp_backend.cpp:459-461): the loop matches the word after it *)
(* a second time, so that a key passes only if it has that word twice in a *)
(* row.  '#.b' misses 'a.b', and '#.*' and '#.#' match nothing.            *)
EarlyHashNarrows ==
    result = "yes" =>
        \A i \in 1..(Len(pattern) - 1) : pattern[i] = Hash =>
            \E k \in 1..(Len(key) - 1) : key[k] = pattern[i + 1] /\ key[k + 1] = pattern[i + 1]

=============================================================================
