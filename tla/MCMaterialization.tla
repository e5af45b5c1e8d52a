------------------------- MODULE MCMaterialization --------------------------
(***************************************************************************)
(* Instances of Materialization.                                           *)
(***************************************************************************)
EXTENDS Materialization

CONSTANTS t1, t2

Alone == [threads |-> {t1}, mode |-> "split", kinds |-> Kinds,
          executables |-> TRUE, closes |-> FALSE, budget |-> 3, failures |-> 0]
Pair == [Alone EXCEPT !.threads = {t1, t2}, !.kinds = {"plain"}, !.budget = 2]

\* One thread that runs ops and compiled models, one whose compilations and
\* executions fail and that shuts the runtime down, one under the aggressive
\* heuristic, two threads that run an op and a compiled model, two that only
\* run ops, and two of which one runs an op while the runtime is shut down.
Supported ==
    {Alone,
     [Alone EXCEPT !.closes = TRUE, !.budget = 2, !.failures = 1],
     [Alone EXCEPT !.mode = "full", !.budget = 2],
     Pair,
     [Pair EXCEPT !.executables = FALSE],
     [Pair EXCEPT !.executables = FALSE, !.kinds = Kinds, !.closes = TRUE,
                  !.budget = 1, !.failures = 1]}

\* One thread with a constant, an op and a collective.
Constant == {[Alone EXCEPT !.executables = FALSE]}
=============================================================================
