----------------------------- MODULE CacheSpec -----------------------------
(***************************************************************************)
(* What sc::cache::ICache (icache.h) promises of any cache: a key holds    *)
(* the value that was put last or nothing, entries may be lost at any      *)
(* time, and what is removed does not come back by itself.                 *)
(***************************************************************************)
CONSTANTS
    Keys,     \* cache keys
    Values,   \* cache values
    NoValue   \* an empty std::optional<V>

VARIABLES
    cached,  \* what each key holds
    answer   \* per key, what the last call was given to put or found

specVars == <<cached, answer>>

Nothing == [k \in {} |-> NoValue]

(* Keys outside S keep their value or lose it. *)
OthersKeptOrLost(S) == \A k \in Keys \ S : cached'[k] \in {cached[k], NoValue}

SpecInit == cached = [k \in Keys |-> NoValue] /\ answer = Nothing

SpecPut(k, v) ==
    /\ cached' \in [Keys -> Values \union {NoValue}]
    /\ cached'[k] = v /\ OthersKeptOrLost({k})
    /\ answer' = [j \in {k} |-> v]

(* putMany(): room for one entry may cost another one of the same call. *)
SpecPutMany(f) ==
    /\ cached' \in [Keys -> Values \union {NoValue}]
    /\ \A k \in DOMAIN f : cached'[k] \in {f[k], NoValue}
    /\ OthersKeptOrLost(DOMAIN f)
    /\ answer' = f

(* get(), getMany() and contains(): what is found is what is kept. *)
SpecGet(S) ==
    /\ cached' \in [Keys -> Values \union {NoValue}]
    /\ OthersKeptOrLost({})
    /\ answer' = [k \in S |-> cached'[k]]

SpecRemove(k) == cached' = [cached EXCEPT ![k] = NoValue] /\ answer' = Nothing

SpecClear == cached' = [k \in Keys |-> NoValue] /\ answer' = Nothing

SpecNext ==
    \/ \E k \in Keys, v \in Values : SpecPut(k, v)
    \/ \E S \in SUBSET Keys : SpecGet(S) \/ \E f \in [S -> Values] : SpecPutMany(f)
    \/ \E k \in Keys : SpecRemove(k)
    \/ SpecClear

CacheContract == SpecInit /\ [][SpecNext]_specVars

=============================================================================
