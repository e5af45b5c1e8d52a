----------------------------- MODULE GroupStore -----------------------------
(***************************************************************************)
(* What the parts of a process group share: its ranks and the c10d::Store, *)
(* through which they find each other.  A value that was set stays in the  *)
(* store, nobody deletes a key; a get blocks until the key is there.       *)
(***************************************************************************)
EXTENDS Integers

CONSTANTS NumRanks,   \* size of the process group
          MaxCalls,   \* bound on the operations of a rank
          Absent      \* what the store holds under a key that was not set

\* A group of one rank does not use the store.
ASSUME GroupAssumption == NumRanks \in Nat \ {0, 1} /\ MaxCalls \in Nat

Ranks == 0..(NumRanks - 1)
Operations == 1..MaxCalls
=============================================================================
