--------------------------- MODULE DeviceBuffers ----------------------------
(***************************************************************************)
(* DeviceBufferList: the result of one operator, from its deferred op to   *)
(* the device buffer or the error its promise is set to.                   *)
(*                                                                         *)
(* A buffer is named by its creation index.  The two flags and the promise *)
(* of DeviceBufferList::Data (materialization_pending_, _started_, and     *)
(* materialization_promise_) are one state, because deferred_op() answers  *)
(* null as soon as the pending flag is set and the started flag is set     *)
(* together with the promise:                                              *)
(*    deferred   has a deferred op                                         *)
(*    pending    its op was consumed, the promise is not set               *)
(*    ok, error  the promise is set                                        *)
(* Between the started flag and the promise only GetSharedClient can fail, *)
(* which would leave the promise unset; it does not as long as the client  *)
(* outlives the worker, which the order of their destruction ensures.      *)
(* The promise is set when the execution was launched.  Until the device   *)
(* has finished it the buffer is busy: materialized, but not ready.        *)
(* kind, inputs and lastChild are those of a deferred buffer.  The program  *)
(* keeps constant_ and last_child_index_ after the op was consumed, but    *)
(* only reads them of deferred buffers.                                    *)
(* Placeholders (compiled mode only) and buffers that already exist when   *)
(* they are created are left out; an op has one output.                    *)
(***************************************************************************)
EXTENDS Integers, FiniteSets

CONSTANT MaxBuffers      \* bound on the number of buffers ever created

ASSUME MaxBuffersAssumption == MaxBuffers \in Nat

Buffers == 1..MaxBuffers

\* constant: IsConstantOp.  collective: IsSideEffectingOp, created with
\* OpSplitMode::kSplitBoth.  plain: every other op.
Kinds == {"plain", "constant", "collective"}
Settled == {"ok", "error"}
States == {"unborn", "deferred", "pending"} \cup Settled

VARIABLES
    next,        \* g_creation_index_
    kind,        \* op name, as far as it matters
    inputs,      \* inputs of the deferred op
    state,
    live,        \* buffers with a c10::DataPtr: the ones that are not stale
    lastChild,   \* last_child_index_, 0 for none
    busy         \* buffers the device is still computing

bufferVars == <<next, kind, inputs, state, live, lastChild, busy>>

BuffersTypeOK ==
    /\ next \in 1..(MaxBuffers + 1)
    /\ kind \in [Buffers -> Kinds]
    /\ inputs \in [Buffers -> SUBSET Buffers]
    /\ state \in [Buffers -> States]
    /\ live \subseteq Buffers
    /\ lastChild \in [Buffers -> 0..MaxBuffers]
    /\ busy \subseteq Buffers

BuffersInit ==
    /\ next = 1
    /\ kind = [b \in Buffers |-> "plain"]
    /\ inputs = [b \in Buffers |-> {}]
    /\ state = [b \in Buffers |-> "unborn"]
    /\ live = {}
    /\ lastChild = [b \in Buffers |-> 0]
    /\ busy = {}

IsDeferred(b) == state[b] = "deferred"
IsConstant(b) == kind[b] = "constant"
IsMaterializing(b) == state[b] \in {"pending"} \cup Settled
IsMaterialized(b) == state[b] \in Settled
\* GetReadyFuture is ready: an error, or a buffer the device has computed.
IsReady(b) == IsMaterialized(b) /\ b \notin busy
IsStale(b) == b \notin live

\* Fault: the op and its output each take a creation index.
CreateDeferredTwoIndices(k, ins) ==
    /\ next \in Buffers
    /\ next' = next + 2
    /\ kind' = [kind EXCEPT ![next] = k]
    /\ inputs' = [inputs EXCEPT ![next] = ins]
    /\ state' = [state EXCEPT ![next] = "deferred"]
    /\ UNCHANGED <<lastChild, busy>>

\* The constructor of a deferred buffer takes the next creation index and
\* records itself as the last child of its inputs.
CreateDeferred(k, ins) ==
    /\ next \in Buffers
    /\ next' = next + 1
    /\ kind' = [kind EXCEPT ![next] = k]
    /\ inputs' = [inputs EXCEPT ![next] = ins]
    /\ state' = [state EXCEPT ![next] = "deferred"]
    /\ lastChild' = [b \in Buffers |->
                        IF b \in ins /\ IsDeferred(b) THEN next ELSE lastChild[b]]
    /\ UNCHANGED busy

\* A buffer for the result of an executable is pending from the start.
CreatePending ==
    /\ next \in Buffers
    /\ next' = next + 1
    /\ state' = [state EXCEPT ![next] = "pending"]
    /\ UNCHANGED <<kind, inputs, lastChild, busy>>

\* Buffers S leave the deferred state: their ops, and with them the
\* references to the inputs, go away.  A promise that is set keeps its value
\* (SetMaterializationError and SetMaterializationStarted refuse it).
Become(S, s) ==
    /\ state' = [b \in Buffers |->
                    IF b \in S /\ state[b] \notin Settled THEN s ELSE state[b]]
    /\ kind' = [b \in Buffers |-> IF b \in S THEN "plain" ELSE kind[b]]
    /\ inputs' = [b \in Buffers |-> IF b \in S THEN {} ELSE inputs[b]]
    /\ lastChild' = [b \in Buffers |-> IF b \in S THEN 0 ELSE lastChild[b]]
    /\ busy' = busy \cup {b \in Buffers : b \in S /\ s = "ok" /\ state[b] \notin Settled}
    /\ UNCHANGED next

SetAsPendingMaterialization(S) == Become(S, "pending")
SetAsError(S) == Become(S, "error")
SetAsMaterialized(S) == Become(S, "ok")
=============================================================================
