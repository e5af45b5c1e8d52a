---------------------------- MODULE BufferFutures ---------------------------
(***************************************************************************)
(* What the users of a device buffer rely on, without queues, worker       *)
(* threads and graphs: a buffer has one promise, which is set once, to the *)
(* result or to an error, and after the worker was shut down no buffer     *)
(* gets a result any more.                                                 *)
(***************************************************************************)
CONSTANT Buffers

VARIABLES outcome,   \* state of the promise of each buffer
          closed     \* the worker was shut down

Init ==
    /\ outcome = [b \in Buffers |-> "none"]
    /\ closed = FALSE

Create(b) ==
    /\ outcome[b] = "none"
    /\ outcome' = [outcome EXCEPT ![b] = "unset"]
    /\ UNCHANGED closed

\* One promise is set to a result, or those of one or several tasks to errors.
Settle(S, v) ==
    /\ \A b \in S : outcome[b] = "unset"
    /\ closed => v = "error"
    /\ outcome' = [b \in Buffers |-> IF b \in S THEN v ELSE outcome[b]]
    /\ UNCHANGED closed

Close ==
    /\ ~closed
    /\ closed' = TRUE
    /\ UNCHANGED outcome

Next ==
    \/ \E b \in Buffers : Create(b)
    \/ \E S \in SUBSET Buffers, v \in {"ok", "error"} : Settle(S, v)
    \/ Close

Spec == Init /\ [][Next]_<<outcome, closed>>
=============================================================================
