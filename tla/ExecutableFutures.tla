------------------------- MODULE ExecutableFutures --------------------------
(***************************************************************************)
(* What the users of the compilation cache rely on, without its threads,   *)
(* files and modes: a table of futures in which a key has at most one      *)
(* future at a time, a future settles once and for all, and a key is only  *)
(* dropped together with a settled future, so that nobody can be left with *)
(* a future the cache has forgotten.                                       *)
(***************************************************************************)
CONSTANTS Keys, Promises, None

VARIABLES table,   \* the future each key has now, or None
          future   \* state of each future

Settled(p) == future[p] \in {"ok", "error"}

Init ==
    /\ table = [k \in Keys |-> None]
    /\ future = [p \in Promises |-> "none"]

\* A key that has no future gets a new one.
Insert(k, p) ==
    /\ table[k] = None /\ future[p] = "none"
    /\ table' = [table EXCEPT ![k] = p]
    /\ future' = [future EXCEPT ![p] = "unset"]

\* The future of a key settles; the key may be dropped with it.
Settle(k, v) ==
    /\ table[k] # None /\ future[table[k]] = "unset"
    /\ future' = [future EXCEPT ![table[k]] = v]
    /\ table' \in {table, [table EXCEPT ![k] = None]}

\* Keys with settled futures are dropped.
Drop(S) ==
    /\ \A k \in S : table[k] # None => Settled(table[k])
    /\ table' = [k \in Keys |-> IF k \in S THEN None ELSE table[k]]
    /\ UNCHANGED future

Next ==
    \/ \E k \in Keys, p \in Promises : Insert(k, p)
    \/ \E k \in Keys, v \in {"ok", "error"} : Settle(k, v)
    \/ \E S \in SUBSET Keys : Drop(S)

Spec == Init /\ [][Next]_<<table, future>>
=============================================================================
