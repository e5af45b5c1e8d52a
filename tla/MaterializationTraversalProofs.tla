------------------- MODULE MaterializationTraversalProofs -------------------
(***************************************************************************)
(* What the materialize thread does for the calls that wait: the nodes of  *)
(* a task, and the tensors of a stream that is synchronized, are never     *)
(* lost between the events queue and the execution tasks.                  *)
(*                                                                         *)
(* A deferred op that somebody can still reach is recorded: its thread is  *)
(* about to record it, it is in the events queue, in the stretch the       *)
(* materialize thread has taken, or an output of a traversal the thread    *)
(* has yet to build (Tracked).  What PrepareTraversals and the splitting   *)
(* keep of a stretch is the subject of EventsQueueProofs.                  *)
(*                                                                         *)
(* The second part is about the collectives: those of the execution tasks  *)
(* come before those of the plan, which come before those of the queue     *)
(* (EffectsRise), so that they are issued in the order of their dispatch.  *)
(*                                                                         *)
(* The last part is about arguments: with one dispatch thread and split    *)
(* graphs, what a recorded op reads is no longer deferred or is recorded   *)
(* before it (ClosedInv), so no traversal is built on a deferred argument. *)
(***************************************************************************)
EXTENDS MaterializationServedProofs, EventsQueueProofs

(***************************************************************************)
(* What a step does to the graph of deferred ops.                          *)
(***************************************************************************)
graphVars == <<next, kind, inputs, state, lastChild>>

BufferStep ==
    \/ UNCHANGED graphVars
    \/ \E k \in Kinds, ins \in SUBSET live :
          (k = "constant" => ins = {}) /\ CreateDeferred(k, ins)
    \/ CreatePending
    \/ \E S, s : s \in {"pending"} \cup Settled /\ Become(S, s)

LEMMA BufferSteps ==
    ASSUME TypeInv, [Next]_vars
    PROVE  BufferStep
<1> USE DEF bufferVars, workerVars, graphVars, CloserStep
<1>s. {"ok", "error", "pending"} \subseteq {"pending"} \cup Settled
  BY DEF Settled
<1>1. ASSUME NEW t \in Threads, Begin(t) PROVE BufferStep
  <2>1. ASSUME NEW k \in Kinds, NEW ins \in SUBSET Buffers, CreateOp(t, k, ins)
        PROVE  BufferStep
    BY <2>1 DEF CreateOp, BufferStep
  <2>2. CASE ~\E k \in Kinds, ins \in SUBSET Buffers : CreateOp(t, k, ins)
    BY <1>1, <2>2 DEF Begin, DropTensor, ReadTensor, SyncStream, ExecuteModel, BufferStep
  <2> QED BY <2>1, <2>2
<1>2. ASSUME NEW t \in Threads, Continue(t) PROVE BufferStep
  <2>1. CASE CreateOutput(t)
    BY <2>1 DEF CreateOutput, BufferStep
  <2>2. CASE PushExecutable(t)
    BY <1>s, <2>2 DEF PushExecutable, SetAsError, BufferStep
  <2>3. CASE ~CreateOutput(t) /\ ~PushExecutable(t)
    BY <1>2, <2>3
    DEF Continue, RecordOp, DispatchPlain, DispatchRepeated, MakeTensor, Resume,
        AwaitBuffers, BufferStep
  <2> QED BY <2>1, <2>2, <2>3
<1>3. ASSUME MaterializeLoop PROVE BufferStep
  <2>1. CASE BuildTask
    BY <1>s, <2>1 DEF BuildTask, SetAsPendingMaterialization, BufferStep
  <2>2. CASE FailTraversal
    BY <1>s, <2>2 DEF FailTraversal, SetAsError, BufferStep
  <2>3. CASE AnswerTask
    BY <1>s, <2>3 DEF AnswerTask, SetAsError, BufferStep
  <2>4. CASE DequeueMaterializationTask \/ Prepare \/ AbortTraversal \/ PublishTasks
    BY <2>4
    DEF DequeueMaterializationTask, Prepare, AbortTraversal, PublishTasks, BufferStep
  <2> QED BY <1>3, <2>1, <2>2, <2>3, <2>4 DEF MaterializeLoop
<1>4. ASSUME ExecuteLoop PROVE BufferStep
  <2>1. CASE RunTask \/ FailTask
    <3>1. PICK S, s : Settles(S, s)
      BY <2>1, TaskSettles DEF ExType, TypeInv, TypeOK
    <3> QED BY <3>1 DEF Settles, BufferStep
  <2>2. CASE DequeueExecutionTask
    BY <2>2 DEF DequeueExecutionTask, BufferStep
  <2> QED BY <1>4, <2>1, <2>2 DEF ExecuteLoop
<1>5. ASSUME ShutDown \/ ContinueShutDown PROVE BufferStep
  BY <1>s, <1>5
  DEF ShutDown, ContinueShutDown, PushMaterializeSentinel, JoinMaterializeThread,
      FailRemainingMaterializationTasks, PushExecuteSentinel, JoinExecuteThread,
      FailRemainingExecutionTasks, SetAsError, BufferStep
<1>6. CASE UNCHANGED programVars
  BY <1>6 DEF programVars, BufferStep
<1> QED BY <1>1, <1>2, <1>3, <1>4, <1>5, <1>6, RestingStep DEF Next, Rests

\* A buffer that is not deferred has given up its op.
Consumed == \A b \in Buffers : ~IsDeferred(b) => inputs[b] = {} /\ kind[b] = "plain"

\* A deferred buffer keeps its op, and a new one reads live tensors.
GraphStep ==
    /\ \A b \in Buffers : Born(b) => /\ IsDeferred(b)' => IsDeferred(b)
                                     /\ inputs'[b] \subseteq inputs[b]
                                     /\ kind'[b] \in {kind[b], "plain"}
    /\ \A b \in Buffers : Born(b) /\ IsDeferred(b)' =>
          inputs'[b] = inputs[b] /\ kind'[b] = kind[b]
    /\ \A b \in Buffers : ~Born(b) => /\ inputs'[b] \subseteq live
                                      /\ inputs'[b] # {} => b = next
                                      /\ kind'[b] = "constant" => inputs'[b] = {}
    /\ \A b \in Buffers : ~Born(b) /\ Born(b)' => b = next \/ state'[b] # "deferred"

LEMMA GraphSteps ==
    ASSUME TypeInv, Fresh, Consumed, BufferStep
    PROVE  GraphStep /\ Consumed'
<1> USE DEF Born, IsDeferred
<1>0. /\ kind \in [Buffers -> Kinds] /\ inputs \in [Buffers -> SUBSET Buffers]
      /\ state \in [Buffers -> States] /\ next \in Int /\ live \subseteq Buffers
  BY MaxBuffersAssumption DEF TypeInv, TypeOK, BuffersTypeOK
<1>1. CASE UNCHANGED graphVars
  BY <1>1 DEF graphVars, GraphStep, Consumed
<1>2. ASSUME NEW k \in Kinds, NEW ins \in SUBSET live, k = "constant" => ins = {},
             CreateDeferred(k, ins)
      PROVE  GraphStep /\ Consumed'
  <2>1. /\ next \in Buffers /\ ~Born(next)
    BY <1>0, <1>2 DEF CreateDeferred, Fresh
  <2>2. \A b \in Buffers : /\ kind'[b] = IF b = next THEN k ELSE kind[b]
                           /\ inputs'[b] = IF b = next THEN ins ELSE inputs[b]
                           /\ state'[b] = IF b = next THEN "deferred" ELSE state[b]
    BY <1>0, <1>2 DEF CreateDeferred
  <2>3. Consumed'
    BY <2>2 DEF Consumed
  <2>4. GraphStep
    BY <1>2, <2>1, <2>2 DEF GraphStep, Consumed
  <2> QED BY <2>3, <2>4
<1>3. CASE CreatePending
  <2>1. /\ next \in Buffers /\ ~Born(next)
    BY <1>0, <1>3 DEF CreatePending, Fresh
  <2>2. /\ UNCHANGED <<kind, inputs>>
        /\ \A b \in Buffers : state'[b] = IF b = next THEN "pending" ELSE state[b]
    BY <1>0, <1>3 DEF CreatePending
  <2> QED BY <2>1, <2>2 DEF GraphStep, Consumed
<1>4. ASSUME NEW S, NEW s \in {"pending"} \cup Settled, Become(S, s)
      PROVE  GraphStep /\ Consumed'
  <2>1. \A b \in Buffers :
           /\ state'[b] = IF b \in S /\ state[b] \notin Settled THEN s ELSE state[b]
           /\ kind'[b] = IF b \in S THEN "plain" ELSE kind[b]
           /\ inputs'[b] = IF b \in S THEN {} ELSE inputs[b]
    BY <1>4 DEF Become
  <2>2. s # "deferred" /\ "deferred" \notin Settled
    BY <1>4 DEF Settled
  <2>3. Consumed'
    BY <2>1, <2>2 DEF Consumed
  <2>4. GraphStep
    BY <2>1, <2>2 DEF GraphStep, Consumed
  <2> QED BY <2>3, <2>4
<1> QED BY <1>1, <1>2, <1>3, <1>4 DEF BufferStep

(***************************************************************************)
(* What calls refer to.                                                    *)
(***************************************************************************)

\* The buffer a call has created is nobody else's yet.
Private ==
    \A t \in Threads : call[t].out # NoBuffer =>
        /\ call[t].out \notin live
        /\ Unread(call[t].out)
        /\ \A u \in Threads : call[u].out = call[t].out => u = t

\* An op reads buffers that were created before it, and a constant none.
InputsBorn ==
    \A c \in Buffers : /\ \A i \in inputs[c] : Born(i) /\ i < c
                       /\ IsConstant(c) => inputs[c] = {}

\* A call asks for live tensors or, when the heuristic materializes an op, for
\* the buffer it has created.
Known(c, tensors) ==
    /\ c.why \notin {"sync", "heuristic"} => c.nodes \subseteq tensors
    /\ c.why = "heuristic" => c.nodes \subseteq tensors \cup {c.out}
    /\ c.pc = "create" => c.why = "execute"
NodesKnown == \A t \in Threads : Known(call[t], live)

\* What a call that synchronizes has noted.
SyncNodes ==
    \A t \in Threads : call[t].why = "sync" /\ call[t].pc = "wait" =>
        \A b \in call[t].nodes :
            Born(b) /\ ~IsConstant(b) /\ \A u \in Threads : call[u].out # b

Refer == Private /\ InputsBorn /\ NodesKnown /\ SyncNodes

\* Thread t goes on with call c; nodes are not given up while it is used.
MovesTo(t, c) ==
    /\ Go(t, c) /\ call[t].pc # "wait" /\ c \in CallType /\ c.pc # "answered"
    /\ c.out \in {NoBuffer, call[t].out} \/ (c.out = next /\ next \in Buffers)
    /\ live' \subseteq live \cup ({call[t].out} \ {c.out})
    /\ \A b \in live : b \in live' \/ \A u \in Threads : b \notin HeldByCall(call'[u])
    /\ Known(c, live')
    /\ c.why = "sync" /\ c.pc = "wait" => \A b \in c.nodes : b \in live /\ ~IsConstant(b)

\* A call that waits is answered, or none changes.
AnswersAtMost ==
    /\ live' = live
    /\ \A t \in Threads :
          call'[t] = call[t] \/ (/\ call[t].pc = "wait" /\ call'[t].pc = "answered"
                                 /\ call'[t].out = call[t].out
                                 /\ call'[t].why = call[t].why
                                 /\ call[t].why # "sync" => call'[t].nodes = call[t].nodes)

LEMMA InputsBornStep ==
    ASSUME TypeInv, Fresh, Grows, GraphStep, InputsBorn
    PROVE  InputsBorn'
<1>0. /\ inputs \in [Buffers -> SUBSET Buffers] /\ next \in Int /\ live \subseteq Buffers
      /\ Buffers \subseteq Int
  BY MaxBuffersAssumption DEF TypeInv, TypeOK, BuffersTypeOK, Buffers
<1> SUFFICES ASSUME NEW c \in Buffers
             PROVE  /\ \A i \in inputs'[c] : state'[i] # "unborn" /\ i < c
                    /\ kind'[c] = "constant" => inputs'[c] = {}
  BY DEF InputsBorn, Born, IsConstant
<1>1. CASE Born(c)
  BY <1>0, <1>1 DEF GraphStep, InputsBorn, Grows, Born, IsConstant
<1>2. CASE ~Born(c)
  <2>1. /\ inputs'[c] \subseteq live
        /\ kind'[c] = "constant" => inputs'[c] = {}
        /\ inputs'[c] # {} => c = next
    BY <1>2 DEF GraphStep
  <2> SUFFICES ASSUME NEW i \in inputs'[c] PROVE state'[i] # "unborn" /\ i < c
    BY <2>1
  <2>2. i \in Buffers /\ Born(i) /\ c = next
    BY <1>0, <2>1 DEF Fresh
  <2>3. i < next
    BY <1>0, <2>2 DEF Fresh
  <2> QED BY <2>2, <2>3 DEF Grows, Born
<1> QED BY <1>1, <1>2

\* A buffer that does not exist yet, or is not read, is not read by an op
\* unless a new one reads it as a live tensor.
LEMMA UnreadStep ==
    ASSUME TypeInv, GraphStep, NEW b, b \notin live, Unread(b)
    PROVE  \A c \in Buffers : b \notin inputs'[c]
BY DEF Unread, GraphStep

LEMMA UnbornUnread ==
    ASSUME TypeInv, InputsBorn, NEW b, ~Born(b)
    PROVE  Unread(b)
BY DEF Unread, InputsBorn

LEMMA ReferMoves ==
    ASSUME TypeInv, Fresh, Grows, GraphStep, Refer, NEW t \in Threads, NEW c, MovesTo(t, c)
    PROVE  Refer'
<1>0. /\ Private /\ InputsBorn /\ NodesKnown /\ SyncNodes
      /\ live \subseteq Buffers /\ next \in Int /\ Buffers \subseteq Int /\ 0 \notin Buffers
  BY MaxBuffersAssumption DEF Refer, TypeInv, TypeOK, BuffersTypeOK, Buffers
<1>1. \A u \in Threads : call'[u] = IF u = t THEN c ELSE call[u]
  BY DEF MovesTo, Go, TypeInv, CallsType
<1>2. c \in CallType /\ \A u \in Threads : call[u] \in CallType
  BY DEF MovesTo, TypeInv, CallsType
<1>3. InputsBorn'
  BY <1>0, InputsBornStep
<1>4. next \in Buffers => ~Born(next) /\ next \notin live /\ Unread(next)
                          /\ \A u \in Threads : call[u].out # next
  <2>1. next \in Buffers => ~Born(next)
    BY <1>0 DEF Fresh
  <2> QED BY <1>0, <2>1, UnbornUnread DEF Fresh, NoBuffer
<1>5. Private'
  <2> SUFFICES ASSUME NEW u \in Threads, call'[u].out # NoBuffer
               PROVE  /\ call'[u].out \notin live'
                      /\ \A d \in Buffers : call'[u].out \notin inputs'[d]
                      /\ \A v \in Threads : call'[v].out = call'[u].out => v = u
    BY DEF Private, Unread
  <2> DEFINE o == call'[u].out
  <2>1. \/ o = call[u].out
        \/ u = t /\ o = next /\ next \in Buffers
    BY <1>1 DEF MovesTo
  <2>2. o \notin live /\ Unread(o)
    BY <1>0, <1>4, <2>1 DEF Private
  <2>3. \A d \in Buffers : o \notin inputs'[d]
    BY <2>2, UnreadStep
  <2>4. \A v \in Threads : call'[v].out = o => v = u
    BY <1>0, <1>1, <1>4, <2>1 DEF Private, MovesTo
  <2>5. o \notin live'
    <3>1. o = call[t].out => u = t
      BY <1>0, <1>4, <2>1 DEF Private
    <3> QED BY <1>1, <2>2, <3>1 DEF MovesTo
  <2> QED BY <2>3, <2>4, <2>5
<1>6. NodesKnown'
  <2> SUFFICES ASSUME NEW u \in Threads PROVE Known(call'[u], live')
    BY DEF NodesKnown
  <2>1. CASE u = t
    BY <1>1, <2>1 DEF MovesTo
  <2>2. CASE u # t
    <3>1. call'[u] = call[u] /\ Known(call[u], live)
      BY <1>0, <1>1, <2>2 DEF NodesKnown
    <3>2. call[u].why # "sync" => \A b \in call[u].nodes : b \in HeldByCall(call'[u])
      BY <3>1 DEF HeldByCall
    <3> QED BY <3>1, <3>2 DEF MovesTo, Known
  <2> QED BY <2>1, <2>2
<1>7. SyncNodes'
  <2> SUFFICES ASSUME NEW u \in Threads, call'[u].why = "sync", call'[u].pc = "wait",
                      NEW b \in call'[u].nodes
               PROVE  /\ state'[b] # "unborn" /\ kind'[b] # "constant"
                      /\ \A v \in Threads : call'[v].out # b
    BY DEF SyncNodes, Born, IsConstant
  <2>1. b \in Buffers /\ Born(b) /\ ~IsConstant(b) /\ \A v \in Threads : call[v].out # b
    <3>1. CASE u = t
      <4>1. b \in live /\ ~IsConstant(b)
        BY <1>1, <3>1 DEF MovesTo
      <4> QED BY <1>0, <4>1 DEF Fresh, Private, NoBuffer
    <3>2. CASE u # t
      BY <1>0, <1>1, <1>2, <3>2 DEF SyncNodes, CallType
    <3> QED BY <3>1, <3>2
  <2>2. state'[b] # "unborn"
    BY <2>1 DEF Grows, Born
  <2>3. kind'[b] # "constant"
    BY <2>1 DEF GraphStep, IsConstant
  <2>4. \A v \in Threads : call'[v].out # b
    BY <1>0, <1>1, <1>4, <2>1 DEF MovesTo, NoBuffer
  <2> QED BY <2>2, <2>3, <2>4
<1> QED BY <1>3, <1>5, <1>6, <1>7 DEF Refer

LEMMA ReferKept ==
    ASSUME TypeInv, Fresh, Grows, GraphStep, Refer, AnswersAtMost
    PROVE  Refer'
<1>0. /\ Private /\ InputsBorn /\ NodesKnown /\ SyncNodes
      /\ \A t \in Threads : call'[t].out = call[t].out /\ call[t] \in CallType
      /\ live' = live
  BY DEF Refer, AnswersAtMost, TypeInv, CallsType
<1>1. InputsBorn'
  BY <1>0, InputsBornStep
<1>2. Private'
  <2>1. \A t \in Threads : call[t].out # NoBuffer =>
            \A d \in Buffers : call[t].out \notin inputs'[d]
    BY <1>0, UnreadStep DEF Private
  <2> QED BY <1>0, <2>1 DEF Private, Unread
<1>3. NodesKnown'
  BY <1>0 DEF NodesKnown, Known, AnswersAtMost
<1>4. SyncNodes'
  BY <1>0 DEF SyncNodes, AnswersAtMost, CallType, Grows, GraphStep, Born, IsConstant
<1> QED BY <1>1, <1>2, <1>3, <1>4 DEF Refer

(***************************************************************************)
(* The steps of a dispatch thread.                                         *)
(***************************************************************************)
Materializing == {b \in Buffers : IsMaterializing(b)}

\* Task k is the one that call c waits for; done are materializing buffers.
Fits(k, c, done) ==
    \/ /\ k.kind = "nodes" /\ c.why # "sync"
       /\ k.nodes \subseteq c.nodes /\ c.nodes \ k.nodes \subseteq done
    \/ k.kind = "stream" /\ c.why = "sync"

QueueStep(t, c) ==
    \/ matQ' = matQ /\ c.pc # "wait"
    \/ /\ c.pc = "wait"
       /\ \E k \in MatTask :
             matQ' = Append(matQ, k) /\ k.from = t /\ Fits(k, c, Materializing)

RecordStep(t, c) ==
    /\ next \in Buffers /\ state'[next] = "deferred" => c.pc = "record" /\ c.out = next
    /\ IF call[t].pc = "record" THEN RecordDeferredOpCreated(call[t].out)
       ELSE deferredOps' = deferredOps

Dispatches(t, c) ==
    MovesTo(t, c) /\ QueueStep(t, c) /\ RecordStep(t, c) /\ UNCHANGED <<mat, deploy>>

\* Steps that create no buffer.
LEMMA NoRecord ==
    ASSUME TypeInv, Fresh, UNCHANGED <<state, deferredOps>>, NEW t, NEW c, call[t].pc # "record"
    PROVE  RecordStep(t, c)
<1>1. next \in Buffers => state[next] = "unborn"
  BY MaxBuffersAssumption DEF Fresh, Born, Buffers
<1> QED BY <1>1 DEF RecordStep

\* A call ends, or goes on with the same nodes and the same buffer.
LEMMA CallGoesOn ==
    ASSUME TypeInv, Fresh, Refer, NEW t \in Threads, NEW c \in CallType, Go(t, c),
           call[t].pc \notin {"wait", "record"}, c.pc \notin {"wait", "answered"},
           c.out \in {NoBuffer, call[t].out},
           c.nodes = {} \/ /\ c.nodes = call[t].nodes /\ c.why = call[t].why
                           /\ c.out = call[t].out,
           c.pc = "create" => c.why = "execute",
           UNCHANGED <<state, live, deferredOps, mat, deploy, matQ>>
    PROVE  Dispatches(t, c)
<1>1. Known(c, live)
  BY DEF Refer, NodesKnown, Known
<1>2. MovesTo(t, c)
  BY <1>1 DEF MovesTo
<1> QED BY <1>2, NoRecord DEF Dispatches, QueueStep

\* The call asks for its nodes.
LEMMA CallMaterializes ==
    ASSUME TypeInv, Fresh, Refer, NEW t \in Threads, NEW c \in CallType, NEW mode \in Modes,
           NEW pc, pc \notin {"wait", "answered"},
           pc \in CallPCs, pc \in {"record", "dispatch", "tensor", "push"} => c.out \in Buffers,
           Materialize(t, c, mode, pc), call[t].pc \notin {"wait", "record"},
           c.out \in {NoBuffer, call[t].out}, c.why # "sync", Known(c, live),
           c.why = "heuristic" => c.out # NoBuffer, pc = "create" => c.why = "execute",
           UNCHANGED <<state, live, deferredOps, mat, deploy>>
    PROVE  \E d : Dispatches(t, d)
<1> DEFINE D == {b \in c.nodes : IsDeferred(b)}
           task == [kind |-> "nodes", nodes |-> D, mode |-> mode, from |-> t]
           go == [c EXCEPT !.pc = pc]
           wait == [c EXCEPT !.pc = "wait"]
<1>1. Idle \in CallType /\ Idle.pc = "idle" /\ Idle.out = NoBuffer /\ Idle.nodes = {}
      /\ Idle.why = "none"
  BY IdleType DEF Idle
<1>2. /\ go \in CallType /\ go.pc = pc /\ go.out = c.out /\ go.nodes = c.nodes
      /\ go.why = c.why
  BY DEF CallType
<1>3. /\ wait \in CallType /\ wait.pc = "wait" /\ wait.out = c.out /\ wait.nodes = c.nodes
      /\ wait.why = c.why
  BY DEF CallType, CallPCs
<1>4. c.nodes \ D \subseteq Materializing
  <2> SUFFICES ASSUME NEW b \in c.nodes, ~IsDeferred(b) PROVE b \in Materializing
    OBVIOUS
  <2>1. b \in Buffers /\ state[b] \in States /\ state[b] # "unborn"
    BY DEF TypeInv, TypeOK, BuffersTypeOK, Fresh, Born, CallType, CallsType, Known
  <2> QED BY <2>1 DEF Materializing, IsDeferred, IsMaterializing, States
<1>5. task \in MatTask /\ task.from = t /\ Fits(task, wait, Materializing)
  <2>1. task \in MatTask /\ task.from = t /\ task.kind = "nodes" /\ task.nodes = D
    BY DEF MatTask, CallType
  <2> QED BY <2>1, <1>3, <1>4 DEF Fits
<1>6. \/ Go(t, go) /\ UNCHANGED matQ
      \/ Go(t, Idle) /\ UNCHANGED matQ
      \/ Go(t, wait) /\ matQ' = Append(matQ, task)
  BY DEF Materialize, Enqueue
<1>7. \A d : RecordStep(t, d)
  BY NoRecord
<1> HIDE DEF task, go, wait, D
<1>8. CASE Go(t, go) /\ UNCHANGED matQ
  <2>1. MovesTo(t, go)
    BY <1>2, <1>8 DEF MovesTo, Known
  <2> QED BY <2>1, <1>2, <1>7, <1>8 DEF Dispatches, QueueStep
<1>9. CASE Go(t, Idle) /\ UNCHANGED matQ
  <2>1. MovesTo(t, Idle)
    BY <1>1, <1>9 DEF MovesTo, Known
  <2> QED BY <2>1, <1>1, <1>7, <1>9 DEF Dispatches, QueueStep
<1>10. CASE Go(t, wait) /\ matQ' = Append(matQ, task)
  <2>1. MovesTo(t, wait)
    BY <1>3, <1>10 DEF MovesTo, Known
  <2>2. QueueStep(t, wait)
    BY <1>3, <1>5, <1>10 DEF QueueStep
  <2> QED BY <2>1, <2>2, <1>7 DEF Dispatches
<1> QED BY <1>6, <1>8, <1>9, <1>10

LEMMA BeginDispatches ==
    ASSUME TypeInv, Fresh, Refer, NEW t \in Threads, Begin(t)
    PROVE  \E c : Dispatches(t, c)
<1> USE DEF workerVars, bufferVars, queueVars
<1>0. /\ call[t] \in CallType /\ call[t].pc = "idle" /\ live \subseteq Buffers
      /\ call = [call EXCEPT ![t] = call[t]]
  BY DEF Begin, CreateOp, DropTensor, ReadTensor, SyncStream, ExecuteModel, At, TypeInv,
         TypeOK, BuffersTypeOK, CallsType
<1>i. Idle \in CallType /\ Idle.pc = "idle" /\ Idle.out = NoBuffer /\ Idle.nodes = {}
      /\ Idle.why = "none"
  BY IdleType DEF Idle
<1>1. ASSUME NEW k \in Kinds, NEW ins \in SUBSET Buffers, CreateOp(t, k, ins)
      PROVE  \E c : Dispatches(t, c)
  <2> DEFINE c == [Idle EXCEPT !.pc = "record", !.out = next]
  <2>1. next \in Buffers /\ Go(t, c) /\ UNCHANGED <<live, deferredOps, matQ, mat, deploy>>
    BY <1>1 DEF CreateOp, CreateDeferred
  <2>2. /\ c \in CallType /\ c.pc = "record" /\ c.out = next /\ c.nodes = {} /\ c.why = "none"
    BY <2>1 DEF Idle, CallType, CallPCs, Purposes
  <2> HIDE DEF c
  <2>3. MovesTo(t, c)
    BY <1>0, <2>1, <2>2 DEF MovesTo, Known
  <2> QED BY <1>0, <2>1, <2>2, <2>3 DEF Dispatches, QueueStep, RecordStep
<1>2. ASSUME NEW b \in Buffers, DropTensor(t, b)
      PROVE  \E c : Dispatches(t, c)
  <2>1. /\ UNCHANGED <<state, deferredOps, matQ, mat, deploy, call>>
        /\ live' = live \ {b} /\ Go(t, call[t])
        /\ \A u \in Threads : b \notin HeldByCall(call[u])
    BY <1>0, <1>2 DEF DropTensor, Go
  <2>2. Known(call[t], live')
    BY <2>1 DEF Refer, NodesKnown, Known, HeldByCall
  <2>3. MovesTo(t, call[t])
    BY <1>0, <2>1, <2>2 DEF MovesTo
  <2> QED BY <1>0, <2>1, <2>3, NoRecord DEF Dispatches, QueueStep
<1>3. ASSUME NEW b \in Buffers, ReadTensor(t, b)
      PROVE  \E c : Dispatches(t, c)
  <2> DEFINE c == [Idle EXCEPT !.nodes = {b}, !.why = "read"]
  <2>1. /\ c \in CallType /\ c.out = NoBuffer /\ c.nodes = {b} /\ c.why = "read"
        /\ c.pc = "idle"
    BY DEF Idle, CallType, CallPCs, Purposes, NoBuffer
  <2>2. /\ Materialize(t, c, "split", "read") /\ b \in live
        /\ UNCHANGED <<state, live, deferredOps, mat, deploy>>
    BY <1>3 DEF ReadTensor
  <2> HIDE DEF c
  <2>3. Known(c, live)
    BY <2>1, <2>2, <1>0 DEF Known
  <2> QED BY <1>0, <2>1, <2>2, <2>3, CallMaterializes DEF Modes, CallPCs
<1>4. ASSUME SyncStream(t)
      PROVE  \E c : Dispatches(t, c)
  <2> DEFINE c == [Idle EXCEPT !.nodes = {b \in live : ~IsConstant(b)}, !.why = "sync"]
             wait == [c EXCEPT !.pc = "wait"]
             task == [kind |-> "stream", nodes |-> {}, mode |-> "split", from |-> t]
  <2>1. /\ wait \in CallType /\ wait.out = NoBuffer /\ wait.why = "sync" /\ wait.pc = "wait"
        /\ wait.nodes = {b \in live : ~IsConstant(b)}
    BY <1>0 DEF Idle, CallType, CallPCs, Purposes, NoBuffer
  <2>2. task \in MatTask /\ task.from = t /\ task.kind = "stream"
    BY DEF MatTask, Modes
  <2>3. /\ \/ Go(t, Idle) /\ UNCHANGED matQ
           \/ Go(t, wait) /\ matQ' = Append(matQ, task)
        /\ UNCHANGED <<state, live, deferredOps, mat, deploy>>
    BY <1>4 DEF SyncStream, Enqueue
  <2> HIDE DEF wait, task
  <2>4. CASE Go(t, Idle) /\ UNCHANGED matQ
    BY <1>0, <1>i, <2>3, <2>4, CallGoesOn
  <2>5. CASE Go(t, wait) /\ matQ' = Append(matQ, task)
    <3>1. MovesTo(t, wait)
      BY <1>0, <2>1, <2>3, <2>5 DEF MovesTo, Known
    <3>2. QueueStep(t, wait)
      BY <2>1, <2>2, <2>5 DEF QueueStep, Fits
    <3> QED BY <1>0, <2>3, <3>1, <3>2, NoRecord DEF Dispatches
  <2> QED BY <2>3, <2>4, <2>5
<1>5. ASSUME NEW args \in SUBSET Buffers, ExecuteModel(t, args)
      PROVE  \E c : Dispatches(t, c)
  <2> DEFINE c == [Idle EXCEPT !.nodes = args, !.why = "execute"]
  <2>1. /\ c \in CallType /\ c.out = NoBuffer /\ c.nodes = args /\ c.why = "execute"
        /\ c.pc = "idle"
    BY DEF Idle, CallType, CallPCs, Purposes, NoBuffer
  <2>2. /\ Materialize(t, c, "split", "create") /\ args \subseteq live
        /\ UNCHANGED <<state, live, deferredOps, mat, deploy>>
    BY <1>5 DEF ExecuteModel
  <2> HIDE DEF c
  <2>3. Known(c, live)
    BY <2>1, <2>2, <1>0 DEF Known
  <2> QED BY <1>0, <2>1, <2>2, <2>3, CallMaterializes DEF Modes, CallPCs
<1> QED BY <1>1, <1>2, <1>3, <1>4, <1>5 DEF Begin

LEMMA ContinueDispatches ==
    ASSUME TypeInv, Fresh, Refer, NEW t \in Threads, Continue(t)
    PROVE  \E c : Dispatches(t, c)
<1> USE DEF workerVars, bufferVars, queueVars
<1>0. /\ call[t] \in CallType /\ live \subseteq Buffers /\ 0 \notin Buffers
      /\ call = [call EXCEPT ![t] = call[t]]
  BY MaxBuffersAssumption DEF TypeInv, TypeOK, BuffersTypeOK, CallsType, Buffers
<1>i. Idle \in CallType /\ Idle.pc = "idle" /\ Idle.out = NoBuffer /\ Idle.nodes = {}
      /\ Idle.why = "none"
  BY IdleType DEF Idle
<1> DEFINE made == [Idle EXCEPT !.pc = "tensor", !.out = call[t].out]
<1>m. call[t].out \in Buffers =>
          /\ made \in CallType /\ made.pc = "tensor" /\ made.out = call[t].out
          /\ made.nodes = {} /\ made.why = "none"
  BY DEF Idle, CallType, CallPCs, Purposes
<1>g. GoMakeTensor(t) => Go(t, made)
  BY DEF GoMakeTensor
<1> HIDE DEF made
<1>1. CASE RecordOp(t)
  <2> DEFINE c == [call[t] EXCEPT !.pc = "dispatch"]
  <2>1. /\ call[t].pc = "record" /\ Go(t, c) /\ RecordDeferredOpCreated(call[t].out)
        /\ UNCHANGED <<state, live, mat, matQ, deploy>>
    BY <1>1 DEF RecordOp, At, Step
  <2>2. /\ c \in CallType /\ c.pc = "dispatch" /\ c.out = call[t].out
        /\ c.nodes = call[t].nodes /\ c.why = call[t].why
    BY <1>0, <2>1 DEF CallType, CallPCs
  <2> HIDE DEF c
  <2>3. MovesTo(t, c)
    BY <1>0, <2>1, <2>2 DEF MovesTo, Refer, NodesKnown, Known
  <2>4. next \in Buffers => state[next] = "unborn"
    BY MaxBuffersAssumption DEF Fresh, Born, Buffers
  <2> QED BY <2>1, <2>2, <2>3, <2>4 DEF Dispatches, QueueStep, RecordStep
<1>2. CASE DispatchPlain(t)
  <2>1. /\ call[t].pc = "dispatch" /\ call[t].out \in Buffers /\ GoMakeTensor(t)
        /\ UNCHANGED <<state, live, deferredOps, mat, matQ, deploy>>
    BY <1>0, <1>2 DEF DispatchPlain, At, CallType
  <2> QED BY <1>m, <1>g, <2>1, CallGoesOn
<1>3. CASE DispatchRepeated(t)
  <2>1. /\ call[t].pc = "dispatch" /\ call[t].out \in Buffers
        /\ UNCHANGED <<state, live, deferredOps, mat, deploy>>
    BY <1>0, <1>3 DEF DispatchRepeated, At, CallType
  <2>2. CASE IsDeferred(call[t].out)
    <3> DEFINE c == [call[t] EXCEPT !.nodes = {call[t].out}, !.why = "heuristic"]
    <3>1. /\ c \in CallType /\ c.out = call[t].out /\ c.nodes = {call[t].out}
          /\ c.why = "heuristic" /\ c.pc = "dispatch"
      BY <1>0, <2>1 DEF CallType, Purposes
    <3>2. deploy.mode \in Modes
      BY DeploymentsAssumption DEF TypeInv, TypeOK, Deployment, Modes
    <3>3. Materialize(t, c, deploy.mode, "tensor")
      BY <1>3, <2>2 DEF DispatchRepeated
    <3> HIDE DEF c
    <3>4. Known(c, live) /\ c.out # NoBuffer
      BY <1>0, <2>1, <3>1 DEF Known, NoBuffer
    <3> QED BY <2>1, <3>1, <3>2, <3>3, <3>4, CallMaterializes DEF CallPCs
  <2>3. CASE ~IsDeferred(call[t].out)
    <3>1. UNCHANGED <<call, matQ>> /\ Go(t, call[t])
      BY <1>0, <1>3, <2>3 DEF DispatchRepeated, Go
    <3> QED BY <1>0, <2>1, <3>1, CallGoesOn
  <2> QED BY <2>2, <2>3
<1>4. CASE MakeTensor(t)
  <2>1. /\ call[t].pc = "tensor" /\ live' = live \cup {call[t].out} /\ call[t].out # NoBuffer
        /\ Go(t, Idle) /\ UNCHANGED <<state, deferredOps, mat, matQ, deploy>>
    BY <1>0, <1>4 DEF MakeTensor, At, CallType, NoBuffer
  <2>2. MovesTo(t, Idle)
    BY <1>0, <1>i, <2>1 DEF MovesTo, Known
  <2> QED BY <1>i, <2>1, <2>2, NoRecord DEF Dispatches, QueueStep
<1>5. CASE Resume(t)
  <2>1. /\ call[t].pc = "answered"
        /\ UNCHANGED <<state, live, deferredOps, mat, matQ, deploy>>
        /\ \/ Go(t, Idle)
           \/ call[t].why = "heuristic" /\ GoMakeTensor(t)
           \/ \E pc \in {"read", "create", "sync"} :
                 Step(t, pc) /\ (pc = "create" => call[t].why = "execute")
    BY <1>5 DEF Resume, At
  <2>2. CASE Go(t, Idle)
    BY <1>i, <2>1, <2>2, CallGoesOn
  <2>3. CASE call[t].why = "heuristic" /\ GoMakeTensor(t)
    <3>1. call[t].out \in Buffers
      BY <1>0, <2>3 DEF CallType
    <3> QED BY <1>m, <1>g, <2>1, <2>3, <3>1, CallGoesOn
  <2>4. ASSUME NEW pc \in {"read", "create", "sync"}, Step(t, pc),
               pc = "create" => call[t].why = "execute"
        PROVE  \E c : Dispatches(t, c)
    <3> DEFINE c == [call[t] EXCEPT !.pc = pc]
    <3>1. /\ c \in CallType /\ c.pc = pc /\ c.out = call[t].out
          /\ c.nodes = call[t].nodes /\ c.why = call[t].why /\ Go(t, c)
      BY <1>0, <2>4 DEF CallType, CallPCs, Step
    <3> HIDE DEF c
    <3> QED BY <2>1, <2>4, <3>1, CallGoesOn
  <2> QED BY <2>1, <2>2, <2>3, <2>4
<1>6. CASE AwaitBuffers(t)
  BY <1>i, <1>6, CallGoesOn DEF AwaitBuffers, At
<1>7. CASE CreateOutput(t)
  <2> DEFINE c == [call[t] EXCEPT !.pc = "push", !.out = next]
  <2>1. /\ call[t].pc = "create" /\ next \in Buffers
        /\ Go(t, c) \/ Go(t, Idle)
        /\ state' = [state EXCEPT ![next] = "pending"]
        /\ UNCHANGED <<live, deferredOps, mat, matQ, deploy>>
    BY <1>7 DEF CreateOutput, CreatePending, At
  <2>2. \A d : RecordStep(t, d)
    <3>1. state'[next] = "pending"
      BY <2>1 DEF TypeInv, TypeOK, BuffersTypeOK
    <3> QED BY <2>1, <3>1 DEF RecordStep
  <2>3. CASE Go(t, Idle)
    <3>1. MovesTo(t, Idle)
      BY <1>0, <1>i, <2>1, <2>3 DEF MovesTo, Known
    <3> QED BY <1>i, <2>1, <2>2, <3>1 DEF Dispatches, QueueStep
  <2>4. CASE Go(t, c)
    <3>1. /\ c \in CallType /\ c.pc = "push" /\ c.out = next
          /\ c.nodes = call[t].nodes /\ c.why = call[t].why
      BY <1>0, <2>1 DEF CallType, CallPCs
    <3> HIDE DEF c
    <3>2. MovesTo(t, c)
      BY <1>0, <2>1, <2>4, <3>1 DEF MovesTo, Refer, NodesKnown, Known
    <3> QED BY <2>1, <2>2, <3>1, <3>2 DEF Dispatches, QueueStep
  <2> QED BY <2>1, <2>3, <2>4
<1>8. CASE PushExecutable(t)
  <2>1. /\ call[t].pc = "push" /\ call[t].out \in Buffers
        /\ UNCHANGED <<live, deferredOps, mat, matQ, deploy>>
        /\ Go(t, Idle) \/ Go(t, made)
    BY <1>0, <1>8, <1>g DEF PushExecutable, At, CallType
  <2>2. \A d : RecordStep(t, d)
    <3>1. next \in Buffers => state'[next] # "deferred"
      <4>1. next \in Buffers => state[next] = "unborn"
        BY MaxBuffersAssumption DEF Fresh, Born, Buffers
      <4> QED BY <1>8, <4>1 DEF PushExecutable, SetAsError, Become
    <3> QED BY <2>1, <3>1 DEF RecordStep
  <2>3. CASE Go(t, Idle)
    <3>1. MovesTo(t, Idle)
      BY <1>0, <1>i, <2>1, <2>3 DEF MovesTo, Known
    <3> QED BY <1>i, <2>1, <2>2, <3>1 DEF Dispatches, QueueStep
  <2>4. CASE Go(t, made)
    <3>1. MovesTo(t, made)
      BY <1>0, <1>m, <2>1, <2>4 DEF MovesTo, Known
    <3> QED BY <1>m, <2>1, <2>2, <3>1 DEF Dispatches, QueueStep
  <2> QED BY <2>1, <2>3, <2>4
<1> QED BY <1>1, <1>2, <1>3, <1>4, <1>5, <1>6, <1>7, <1>8 DEF Continue

(***************************************************************************)
(* The invariant.                                                          *)
(***************************************************************************)
TasksFit ==
    /\ mat.task.from \in Threads =>
          Fits(mat.task, call[mat.task.from], Materializing)
    /\ \A i \in DOMAIN matQ : matQ[i].from \in Threads =>
          Fits(matQ[i], call[matQ[i].from], Materializing)

PlanTyped == mat.pc = "build" => mat.plan \in Seq(Traversals) /\ mat.plan # <<>>

\* Deferred ops that the program, or another rank, can tell the loss of.
Reached(b) ==
    b \in live \/ (\E t \in Threads : call[t].out = b) \/ kind[b] = "collective"

Recorded(b) ==
    \/ \E t \in Threads : call[t].pc = "record" /\ call[t].out = b
    \/ b \in ToSet(deferredOps)
    \/ mat.pc = "prepare" /\ b \in ToSet(mat.events)
    \/ mat.pc = "build" /\ Cover(mat.plan, b)

Tracked == \A b \in Buffers : IsDeferred(b) /\ ~IsConstant(b) /\ Reached(b) => Recorded(b)

\* What the task of the materialize thread is about.
Asked ==
    IF mat.task.kind = "nodes" THEN mat.task.nodes ELSE call[mat.task.from].nodes \cap live

AskedDone ==
    mat.task.from \in Threads => \A b \in Asked : IsDeferred(b) =>
        \/ mat.pc = "prepare" /\ (\/ b \in ToSet(mat.events)
                                  \/ mat.task.kind = "nodes" /\ IsConstant(b))
        \/ mat.pc = "build" /\ Cover(mat.plan, b)

\* The stream knows the buffers that are in flight, in the worker or on the
\* device.
InFlight == \A b \in Buffers : state[b] = "pending" \/ b \in busy => b \in futures

Tracking ==
    /\ Consumed /\ Refer /\ TasksFit /\ PlanTyped /\ Tracked /\ AskedDone
    /\ AnsweredOkIsPending /\ InFlight

Context == TypeInv /\ Life /\ CallHasTask /\ ServedInv

LEMMA TrackingInit == Init => Tracking
<1> SUFFICES ASSUME Init PROVE Tracking
  OBVIOUS
<1>1. /\ \A t \in Threads : call[t] = Idle
      /\ \A b \in Buffers : state[b] = "unborn" /\ inputs[b] = {} /\ kind[b] = "plain"
      /\ live = {} /\ mat.pc = "idle" /\ mat.task.from = NoThread /\ matQ = <<>>
      /\ busy = {}
  BY DEF Init, BuffersInit, NoTask
<1>2. Idle.out = NoBuffer /\ Idle.why = "none" /\ Idle.nodes = {} /\ Idle.pc = "idle"
  BY DEF Idle
<1>3. Refer
  BY <1>1, <1>2
  DEF Refer, Private, InputsBorn, NodesKnown, Known, SyncNodes, IsConstant
<1>4. TasksFit /\ PlanTyped /\ AskedDone
  BY <1>1, ThreadsAssumption DEF TasksFit, PlanTyped, AskedDone
<1>5. Consumed /\ Tracked /\ AnsweredOkIsPending /\ InFlight
  BY <1>1, <1>2
  DEF Consumed, Tracked, IsDeferred, AnsweredOkIsPending, InFlight
<1> QED BY <1>3, <1>4, <1>5 DEF Tracking

LEMMA MaterializingGrows ==
    ASSUME Grows
    PROVE  Materializing \subseteq Materializing'
BY DEF Grows, Materializing, IsMaterializing

\* The call the materialize thread works for waits.
LEMMA WorksForWaiter ==
    ASSUME Context, Tracking, mat.task.from \in Threads
    PROVE  /\ call[mat.task.from].pc = "wait"
           /\ Fits(mat.task, call[mat.task.from], Materializing)
           /\ \A b \in Asked : b \in Buffers /\ Born(b)
<1>1. call[mat.task.from].pc = "wait"
  BY DEF Context, CallHasTask
<1>2. Fits(mat.task, call[mat.task.from], Materializing)
  BY DEF Tracking, TasksFit
<1>3. \A b \in Asked : b \in Buffers /\ Born(b)
  <2>1. CASE mat.task.kind = "nodes"
    BY <2>1, NodesBorn DEF Context, ServedInv, Asked
  <2>2. CASE mat.task.kind # "nodes"
    <3>1. call[mat.task.from].why = "sync" /\ call[mat.task.from] \in CallType
      BY <1>2, <2>2 DEF Fits, Context, TypeInv, CallsType
    <3> QED BY <1>1, <2>2, <3>1 DEF Asked, Tracking, Refer, SyncNodes, CallType
  <2> QED BY <2>1, <2>2
<1> QED BY <1>1, <1>2, <1>3

\* Whatever other threads do, the work on the task goes on as it was.
LEMMA AskedKept ==
    ASSUME Context, Tracking, GraphStep, UNCHANGED mat,
           mat.task.from \in Threads => call'[mat.task.from] = call[mat.task.from],
           \A b \in live' : b \in live \/ \E u \in Threads : call[u].out = b
    PROVE  AskedDone'
<1> SUFFICES ASSUME mat.task.from \in Threads, NEW b \in Asked', state'[b] = "deferred"
             PROVE  \/ /\ mat.pc = "prepare"
                       /\ \/ b \in ToSet(mat.events)
                          \/ mat.task.kind = "nodes" /\ kind'[b] = "constant"
                    \/ mat.pc = "build" /\ Cover(mat.plan, b)
  BY DEF AskedDone, IsDeferred, IsConstant
<1>1. b \in Asked
  <2>1. CASE mat.task.kind = "nodes"
    BY <2>1 DEF Asked
  <2>2. CASE mat.task.kind # "nodes"
    <3>1. call[mat.task.from].why = "sync" /\ call[mat.task.from].pc = "wait"
      BY <2>2, WorksForWaiter DEF Fits
    <3>2. b \in call[mat.task.from].nodes /\ b \in live'
      BY <2>2 DEF Asked
    <3>3. \A u \in Threads : call[u].out # b
      BY <3>1, <3>2 DEF Tracking, Refer, SyncNodes
    <3> QED BY <2>2, <3>2, <3>3 DEF Asked
  <2> QED BY <2>1, <2>2
<1>2. b \in Buffers /\ Born(b)
  BY <1>1, WorksForWaiter
<1>3. IsDeferred(b) /\ kind'[b] = kind[b]
  BY <1>2 DEF GraphStep, IsDeferred
<1> QED BY <1>1, <1>3 DEF Tracking, AskedDone, IsConstant

\* Tasks of other calls, and the task a call has enqueued.
LEMMA FitMoves ==
    ASSUME Context, Tracking, Grows, NEW t \in Threads, NEW c, Dispatches(t, c)
    PROVE  TasksFit'
<1>0. matQ \in Seq(MatTask) /\ CallHasTask /\ TasksFit
  BY DEF Context, TypeInv, TypeOK, Tracking
<1>1. \A u \in Threads : call'[u] = IF u = t THEN c ELSE call[u]
  BY DEF Dispatches, MovesTo, Go, Context, TypeInv, CallsType
<1>2. Materializing \subseteq Materializing'
  BY MaterializingGrows
<1>3. call[t].pc # "wait" /\ mat' = mat
  BY DEF Dispatches, MovesTo
<1>4. \A k, d : Fits(k, d, Materializing) => Fits(k, d, Materializing')
  BY <1>2 DEF Fits
<1>5. mat.task.from \in Threads => Fits(mat.task, call'[mat.task.from], Materializing')
  BY <1>0, <1>1, <1>3, <1>4 DEF CallHasTask, TasksFit
<1>6. \A i \in DOMAIN matQ : matQ[i].from \in Threads =>
          Fits(matQ[i], call'[matQ[i].from], Materializing')
  BY <1>0, <1>1, <1>3, <1>4 DEF CallHasTask, TasksFit
<1>7. CASE matQ' = matQ
  BY <1>3, <1>5, <1>6, <1>7 DEF TasksFit
<1>8. ASSUME NEW k \in MatTask, matQ' = Append(matQ, k), k.from = t,
             Fits(k, c, Materializing)
      PROVE  TasksFit'
  <2>1. \A i \in DOMAIN matQ' : (i \in DOMAIN matQ /\ matQ'[i] = matQ[i]) \/ matQ'[i] = k
    BY <1>0, <1>8
  <2>2. Fits(k, call'[k.from], Materializing')
    BY <1>1, <1>4, <1>8
  <2> QED BY <1>3, <1>5, <1>6, <2>1, <2>2 DEF TasksFit
<1> QED BY <1>7, <1>8 DEF Dispatches, QueueStep

LEMMA TrackedMoves ==
    ASSUME Context, Tracking, GraphStep, NEW t \in Threads, NEW c, Dispatches(t, c)
    PROVE  Tracked'
<1>1. \A u \in Threads : call'[u] = IF u = t THEN c ELSE call[u]
  BY DEF Dispatches, MovesTo, Go, Context, TypeInv, CallsType
<1>2. mat' = mat /\ MovesTo(t, c) /\ RecordStep(t, c)
  BY DEF Dispatches
<1> SUFFICES ASSUME NEW b \in Buffers, state'[b] = "deferred", kind'[b] # "constant", Reached(b)'
             PROVE  Recorded(b)'
  BY DEF Tracked, IsDeferred, IsConstant
<1>3. CASE ~Born(b)
  <2>1. b = next
    BY <1>3 DEF GraphStep, Born
  <2> QED BY <1>1, <1>2, <2>1 DEF RecordStep, Recorded
<1>4. CASE Born(b)
  <2>1. IsDeferred(b) /\ ~IsConstant(b) /\ kind'[b] = kind[b]
    BY <1>4 DEF GraphStep, IsDeferred, IsConstant
  <2>2. b # next
    BY <1>4, MaxBuffersAssumption DEF Context, ServedInv, Fresh, Buffers
  <2>3. 0 \notin Buffers
    BY DEF Buffers
  <2>4. Reached(b)
    BY <1>1, <1>2, <2>1, <2>2, <2>3 DEF Reached, MovesTo, NoBuffer
  <2>5. Recorded(b)
    BY <2>1, <2>4 DEF Tracking, Tracked
  <2>6. deferredOps \in Seq(Buffers)
    BY DEF Context, TypeInv, TypeOK, QueueTypeOK
  <2>7. /\ ToSet(deferredOps) \subseteq ToSet(deferredOps')
        /\ call[t].pc = "record" /\ call[t].out = b => b \in ToSet(deferredOps')
    <3>1. CASE deferredOps' = deferredOps /\ call[t].pc # "record"
      BY <3>1
    <3>2. CASE call[t].pc = "record"
      <4>1. call[t].out \in Buffers
        BY <3>2 DEF Context, TypeInv, CallsType, CallType
      <4>2. \/ deferredOps' = deferredOps /\ call[t].out # b
            \/ deferredOps' = Append(deferredOps, call[t].out)
        BY <1>2, <2>1, <3>2 DEF RecordStep, RecordDeferredOpCreated
      <4>3. ToSet(Append(deferredOps, call[t].out)) = ToSet(deferredOps) \cup {call[t].out}
        BY <2>6, <4>1, ToSetAppend
      <4> QED BY <4>2, <4>3
    <3> QED BY <1>2, <3>1, <3>2 DEF RecordStep
  <2> QED BY <1>1, <1>2, <2>5, <2>7 DEF Recorded
<1> QED BY <1>3, <1>4

\* A buffer that begins to be pending is recorded on the stream, and the
\* futures that are dropped are ready.
\* Only the task that runs puts work on the device.
LEMMA BecomeBusy ==
    ASSUME NEW S, NEW s, Become(S, s)
    PROVE  \A b \in busy' : b \in busy \/ (s = "ok" /\ b \in S)
BY DEF Become

LEMMA BusyStep ==
    ASSUME TypeInv, ServedInv, [Next]_vars
    PROVE  \A b \in busy' : b \in busy \/ state[b] = "pending"
<1> USE DEF bufferVars, workerVars
<1>1. CASE busy' = busy
  BY <1>1
<1>2. ASSUME NEW S, NEW s, s # "ok", Become(S, s)
      PROVE  \A b \in busy' : b \in busy \/ state[b] = "pending"
  BY <1>2, BecomeBusy
<1>n. "error" # "ok" /\ "pending" # "ok"
  OBVIOUS
<1>3. CASE \E t \in Threads : Begin(t) \/ Continue(t)
  <2>1. PICK t \in Threads : Begin(t) \/ Continue(t)
    BY <1>3
  <2>2. CASE PushExecutable(t)
    BY <1>1, <1>2, <1>n, <2>2 DEF PushExecutable, SetAsError
  <2>3. CASE ~PushExecutable(t)
    BY <1>1, <2>1, <2>3
    DEF Begin, CreateOp, CreateDeferred, DropTensor, ReadTensor, SyncStream, ExecuteModel,
        Continue, RecordOp, DispatchPlain, DispatchRepeated, MakeTensor, Resume, AwaitBuffers,
        CreateOutput, CreatePending
  <2> QED BY <2>2, <2>3
<1>4. CASE MaterializeLoop
  <2>1. CASE BuildTask \/ FailTraversal \/ AnswerTask
    BY <1>1, <1>2, <1>n, <2>1
    DEF BuildTask, FailTraversal, AnswerTask, SetAsError, SetAsPendingMaterialization
  <2>2. CASE ~(BuildTask \/ FailTraversal \/ AnswerTask)
    BY <1>1, <1>4, <2>2
    DEF MaterializeLoop, DequeueMaterializationTask, Prepare, AbortTraversal, PublishTasks
  <2> QED BY <2>1, <2>2
<1>5. CASE ExecuteLoop
  <2>1. CASE DequeueExecutionTask
    BY <1>1, <2>1 DEF DequeueExecutionTask
  <2>2. CASE RunTask \/ FailTask
    <3>1. PICK S, s : Settles(S, s)
      BY <2>2, TaskSettles DEF ExType, TypeInv, TypeOK
    <3>2. \A b \in S : state[b] = "pending"
      BY <3>1 DEF Settles, ServedInv, Served, Pending
    <3>3. Become(S, s)
      BY <3>1 DEF Settles
    <3> QED BY <3>2, <3>3, BecomeBusy
  <2> QED BY <1>5, <2>1, <2>2 DEF ExecuteLoop
<1>6. CASE ShutDown \/ ContinueShutDown
  <2>1. CASE FailRemainingMaterializationTasks
    BY <1>2, <1>n, <2>1 DEF FailRemainingMaterializationTasks, SetAsError
  <2>2. CASE FailRemainingExecutionTasks
    BY <1>2, <1>n, <2>2 DEF FailRemainingExecutionTasks, SetAsError
  <2>3. CASE ~FailRemainingMaterializationTasks /\ ~FailRemainingExecutionTasks
    BY <1>1, <1>6, <2>3
    DEF ShutDown, ContinueShutDown, PushMaterializeSentinel, JoinMaterializeThread,
        PushExecuteSentinel, JoinExecuteThread
  <2> QED BY <2>1, <2>2, <2>3
<1>7. CASE Rests
  BY <1>7 DEF Rests, vars, DeviceFinishes
<1> QED BY <1>3, <1>4, <1>5, <1>6, <1>7 DEF Next, Rests

LEMMA InFlightStep ==
    ASSUME Context, Tracking, Moves, [Next]_vars
    PROVE  InFlight'
<1> USE DEF bufferVars, workerVars, queueVars, CloserStep
<1>0. /\ InFlight /\ Fresh /\ state \in [Buffers -> States]
  BY DEF Context, ServedInv, Tracking, TypeInv, TypeOK, BuffersTypeOK
<1>p. \A b \in Buffers : state[b] = "pending" \/ b \in busy => b \in PruneCompletedFutures
  BY <1>0 DEF InFlight, PruneCompletedFutures, IsReady, IsMaterialized, Settled
<1>b. \A b \in busy' : b \in busy \/ state[b] = "pending"
  BY BusyStep DEF Context
<1>1. CASE BuildTask
  <2>1. /\ futures' = PruneCompletedFutures \cup Outputs
        /\ Become(Outputs, "pending")
    BY <1>1 DEF BuildTask, RecordBackgroundMaterialization, SetAsPendingMaterialization
  <2>2. \A b \in Buffers :
            state'[b] = IF b \in Outputs /\ state[b] \notin Settled THEN "pending" ELSE state[b]
    BY <2>1, BecomeStates DEF Context
  <2> QED BY <1>p, <1>b, <2>1, <2>2 DEF InFlight
<1>2. ASSUME NEW t \in Threads, CreateOutput(t)
      PROVE  InFlight'
  <2>1. /\ futures' = PruneCompletedFutures \cup {next}
        /\ state' = [state EXCEPT ![next] = "pending"]
    BY <1>2 DEF CreateOutput, RecordBackgroundMaterialization, CreatePending
  <2>2. \A b \in Buffers : state'[b] = IF b = next THEN "pending" ELSE state[b]
    BY <1>0, <2>1
  <2> QED BY <1>p, <1>b, <2>1, <2>2 DEF InFlight
<1>3. CASE ~BuildTask /\ ~\E t \in Threads : CreateOutput(t)
  <2>1. \A b \in Buffers : state'[b] = "pending" => state[b] = "pending"
    <3>1. \A b \in Buffers : Born(b) /\ state'[b] = "pending" => state[b] = "pending"
      BY <1>3 DEF Moves
    <3>2. \A b \in Buffers : ~Born(b) => state'[b] # "pending"
      <4>1. ASSUME NEW t \in Threads, Begin(t), NEW b \in Buffers, ~Born(b)
            PROVE  state'[b] # "pending"
        <5>1. \/ state' = state
              \/ state' = [state EXCEPT ![next] = "deferred"]
          BY <4>1 DEF Begin, CreateOp, DropTensor, ReadTensor, SyncStream, ExecuteModel,
                      CreateDeferred
        <5> QED BY <1>0, <4>1, <5>1 DEF Born
      <4>2. ASSUME NEW t \in Threads, Continue(t), ~CreateOutput(t),
                   NEW b \in Buffers, ~Born(b)
            PROVE  state'[b] # "pending"
        <5>1. CASE PushExecutable(t)
          BY <4>2, <5>1 DEF PushExecutable, SetAsError, Become, Born, Settled
        <5>2. CASE ~PushExecutable(t)
          BY <4>2, <5>2 DEF Continue, RecordOp, DispatchPlain, DispatchRepeated, MakeTensor,
                            Resume, AwaitBuffers, Born
        <5> QED BY <5>1, <5>2
      <4>3. ASSUME MaterializeLoop, ~BuildTask, NEW b \in Buffers, ~Born(b)
            PROVE  state'[b] # "pending"
        <5>1. CASE FailTraversal
          BY <4>3, <5>1 DEF FailTraversal, SetAsError, Become, Born, Settled
        <5>2. CASE AnswerTask
          BY <4>3, <5>2 DEF AnswerTask, SetAsError, Become, Born, Settled
        <5>3. CASE ~FailTraversal /\ ~AnswerTask
          BY <4>3, <5>3 DEF MaterializeLoop, DequeueMaterializationTask, Prepare,
                            AbortTraversal, PublishTasks, Born
        <5> QED BY <5>1, <5>2, <5>3
      <4>4. ASSUME ExecuteLoop, NEW b \in Buffers, ~Born(b)
            PROVE  state'[b] # "pending"
        <5>1. CASE RunTask \/ FailTask
          <6>1. PICK S, s : Settles(S, s)
            BY <5>1, TaskSettles DEF ExType, Context, TypeInv, TypeOK
          <6> QED BY <4>4, <6>1 DEF Settles, Become, Born, Settled
        <5>2. CASE DequeueExecutionTask
          BY <4>4, <5>2 DEF DequeueExecutionTask, Born
        <5> QED BY <4>4, <5>1, <5>2 DEF ExecuteLoop
      <4>5. ASSUME ShutDown \/ ContinueShutDown, NEW b \in Buffers, ~Born(b)
            PROVE  state'[b] # "pending"
        BY <4>5 DEF ShutDown, ContinueShutDown, PushMaterializeSentinel,
            JoinMaterializeThread, FailRemainingMaterializationTasks, PushExecuteSentinel,
            JoinExecuteThread, FailRemainingExecutionTasks, SetAsError, Become, Born, Settled
      <4>6. CASE UNCHANGED programVars
        BY <4>6 DEF programVars, Born
      <4> QED BY <1>3, <4>1, <4>2, <4>3, <4>4, <4>5, <4>6, RestingStep DEF Next, Rests
    <3> QED BY <3>1, <3>2
  <2>2. futures' = futures \/ futures' = PruneCompletedFutures
    <3>1. ASSUME NEW t \in Threads, Begin(t) \/ Continue(t)
          PROVE  futures' = futures
      BY <1>3, <3>1
      DEF Begin, CreateOp, DropTensor, ReadTensor, SyncStream, ExecuteModel, Continue,
          RecordOp, DispatchPlain, DispatchRepeated, MakeTensor, Resume, AwaitBuffers,
          PushExecutable
    <3>2. ASSUME MaterializeLoop
          PROVE  futures' = futures \/ futures' = PruneCompletedFutures
      BY <1>3, <3>2
      DEF MaterializeLoop, DequeueMaterializationTask, Prepare, FailTraversal, AnswerTask,
          AbortTraversal, PublishTasks, JoinFutures
    <3>3. ASSUME ExecuteLoop \/ ShutDown \/ ContinueShutDown
          PROVE  futures' = futures
      BY <3>3
      DEF ExecuteLoop, DequeueExecutionTask, RunTask, FailTask, ShutDown, ContinueShutDown,
          PushMaterializeSentinel, JoinMaterializeThread, FailRemainingMaterializationTasks,
          PushExecuteSentinel, JoinExecuteThread, FailRemainingExecutionTasks
    <3>4. CASE UNCHANGED programVars
      BY <3>4 DEF programVars
    <3> QED BY <3>1, <3>2, <3>3, <3>4, RestingStep DEF Next, Rests
  <2> QED BY <1>0, <1>p, <1>b, <2>1, <2>2 DEF InFlight
<1> QED BY <1>1, <1>2, <1>3

LEMMA DispatchTracks ==
    ASSUME Context, Tracking, Moves, GraphStep, Consumed', InFlight',
           NEW t \in Threads, Begin(t) \/ Continue(t)
    PROVE  Tracking'
<1>0. TypeInv /\ Fresh /\ Refer /\ Grows
  BY DEF Context, ServedInv, Tracking, Moves
<1>1. PICK c : Dispatches(t, c)
  BY <1>0, BeginDispatches, ContinueDispatches
<1>2. \A u \in Threads : call'[u] = IF u = t THEN c ELSE call[u]
  BY <1>0, <1>1 DEF Dispatches, MovesTo, Go, TypeInv, CallsType
<1>3. mat' = mat /\ MovesTo(t, c)
  BY <1>1 DEF Dispatches
<1>4. Refer'
  BY <1>0, <1>3, ReferMoves
<1>5. TasksFit' /\ Tracked'
  BY <1>0, <1>1, FitMoves, TrackedMoves
<1>6. PlanTyped'
  BY <1>3 DEF Tracking, PlanTyped
<1>7. AskedDone'
  <2>1. mat.task.from \in Threads => call'[mat.task.from] = call[mat.task.from]
    BY <1>2, <1>3, WorksForWaiter DEF MovesTo
  <2>2. \A b \in live' : b \in live \/ \E u \in Threads : call[u].out = b
    BY <1>3 DEF MovesTo
  <2> QED BY <1>3, <2>1, <2>2, AskedKept
<1>8. AnsweredOkIsPending'
  <2> SUFFICES ASSUME NEW u \in Threads, call'[u].pc = "answered", call'[u].ok,
                      call'[u].why # "sync", NEW b \in call'[u].nodes
               PROVE  IsMaterializing(b)'
    BY DEF AnsweredOkIsPending
  <2>1. call'[u] = call[u] /\ b \in Buffers
    BY <1>0, <1>2, <1>3 DEF MovesTo, TypeInv, CallsType, CallType
  <2>2. IsMaterializing(b)
    BY <2>1 DEF Tracking, AnsweredOkIsPending
  <2> QED BY <1>0, <2>1, <2>2 DEF Grows
<1> QED BY <1>4, <1>5, <1>6, <1>7, <1>8 DEF Tracking

(***************************************************************************)
(* The execute thread and the shutdown.                                    *)
(***************************************************************************)
Aside ==
    /\ UNCHANGED <<live, call, mat, deferredOps, deploy>>
    /\ matQ' = matQ \/ matQ' = <<>> \/ matQ' = Append(matQ, Sentinel)

LEMMA AsideSteps ==
    ASSUME Context, ExecuteLoop \/ ShutDown \/ ContinueShutDown \/ UNCHANGED programVars
    PROVE  Aside
<1> USE DEF bufferVars, workerVars, queueVars, CloserStep
<1>1. CASE ExecuteLoop
  BY <1>1 DEF ExecuteLoop, DequeueExecutionTask, RunTask, FailTask, Aside
<1>2. CASE FailRemainingMaterializationTasks
  <2>1. matQ = <<>> /\ call \in [Threads -> CallType]
    BY <1>2 DEF FailRemainingMaterializationTasks, Context, Life, MatClosing, TypeInv, CallsType
  <2>2. call' = [t \in Threads |-> call[t]]
    BY <1>2, <2>1 DEF FailRemainingMaterializationTasks
  <2>3. call' = call
    BY <2>1, <2>2
  <2> QED BY <1>2, <2>3 DEF FailRemainingMaterializationTasks, Aside
<1>3. CASE ~FailRemainingMaterializationTasks /\ (ShutDown \/ ContinueShutDown)
  BY <1>3
  DEF ShutDown, ContinueShutDown, PushMaterializeSentinel, JoinMaterializeThread,
      PushExecuteSentinel, JoinExecuteThread, FailRemainingExecutionTasks, Aside
<1>4. CASE UNCHANGED programVars
  BY <1>4 DEF programVars, Aside
<1> QED BY <1>1, <1>2, <1>3, <1>4

\* A deferred buffer stays recorded when nothing moves.
LEMMA TrackedKept ==
    ASSUME Tracking, GraphStep, UNCHANGED <<live, call>>,
           \A b \in Buffers : Born(b)' => Born(b),
           \A b \in Buffers : Recorded(b) /\ state'[b] = "deferred" => Recorded(b)'
    PROVE  Tracked'
<1> SUFFICES ASSUME NEW b \in Buffers, state'[b] = "deferred", kind'[b] # "constant", Reached(b)'
             PROVE  Recorded(b)'
  BY DEF Tracked, IsDeferred, IsConstant
<1>1. Born(b)
  BY DEF Born
<1>2. IsDeferred(b) /\ ~IsConstant(b) /\ kind'[b] = kind[b]
  BY <1>1 DEF GraphStep, IsDeferred, IsConstant
<1>3. Reached(b)
  BY <1>2 DEF Reached
<1> QED BY <1>2, <1>3 DEF Tracking, Tracked

LEMMA AsideTracks ==
    ASSUME Context, Tracking, Moves, GraphStep, Consumed', InFlight', Aside,
           \A b \in Buffers : Born(b)' => Born(b)
    PROVE  Tracking'
<1>0. /\ TypeInv /\ Fresh /\ Refer /\ Grows /\ TasksFit /\ matQ \in Seq(MatTask)
      /\ UNCHANGED <<live, call, mat, deferredOps>>
  BY DEF Context, ServedInv, Tracking, Moves, Aside, TypeInv, TypeOK
<1>1. AnswersAtMost
  BY <1>0 DEF AnswersAtMost
<1>2. Refer'
  BY <1>0, <1>1, ReferKept
<1>3. TasksFit'
  <2>1. Materializing \subseteq Materializing'
    BY <1>0, MaterializingGrows
  <2>2. \A k, d : Fits(k, d, Materializing) => Fits(k, d, Materializing')
    BY <2>1 DEF Fits
  <2>3. Sentinel \in MatTask /\ Sentinel.from \notin Threads
    BY ThreadsAssumption DEF Sentinel, NoTask, MatTask, Modes
  <2>4. \A i \in DOMAIN matQ' : (i \in DOMAIN matQ /\ matQ'[i] = matQ[i]) \/ matQ'[i] = Sentinel
    BY <1>0, <2>3 DEF Aside
  <2> QED BY <1>0, <2>2, <2>3, <2>4 DEF TasksFit
<1>4. PlanTyped'
  BY <1>0 DEF Tracking, PlanTyped
<1>5. Tracked'
  BY <1>0, TrackedKept DEF Recorded
<1>6. AskedDone'
  BY <1>0, AskedKept
<1>7. AnsweredOkIsPending'
  BY <1>0 DEF Tracking, AnsweredOkIsPending, Grows, TypeInv, CallsType, CallType
<1> QED BY <1>2, <1>3, <1>4, <1>5, <1>6, <1>7 DEF Tracking

\* The worker and the shutdown create no buffers.
LEMMA NothingBorn ==
    ASSUME Context, MaterializeLoop \/ ExecuteLoop \/ ShutDown \/ ContinueShutDown \/ UNCHANGED programVars
    PROVE  \A b \in Buffers : Born(b)' => Born(b)
<1> USE DEF bufferVars, workerVars, CloserStep
<1>0. TypeInv /\ Served /\ Fresh
  BY DEF Context, ServedInv
<1>1. ASSUME NEW S, NEW s, \A b \in S : Born(b), Become(S, s)
      PROVE  \A b \in Buffers : Born(b)' => Born(b)
  BY <1>0, <1>1, BecomeStates DEF Born
<1>2. CASE UNCHANGED state
  BY <1>2 DEF Born
<1>3. CASE MaterializeLoop
  <2>1. CASE BuildTask \/ FailTraversal
    <3>1. /\ \A b \in Outputs : Born(b)
          /\ Become(Outputs, "pending") \/ Become(Outputs, "error")
      BY <2>1 DEF BuildTask, FailTraversal, SetAsPendingMaterialization, SetAsError, Outputs,
                  IsDeferred, Born
    <3> QED BY <1>1, <3>1
  <2>2. CASE AnswerTask /\ mat.task.kind = "nodes"
    <3> DEFINE S == {b \in mat.task.nodes : mat.err /\ ~IsMaterializing(b)}
    <3>1. Become(S, "error") /\ \A b \in S : Born(b)
      BY <1>0, <2>2 DEF AnswerTask, SetAsError, Fresh
    <3> QED BY <1>1, <3>1
  <2>3. CASE AnswerTask /\ mat.task.kind # "nodes"
    BY <1>2, <2>3 DEF AnswerTask
  <2>4. CASE DequeueMaterializationTask \/ Prepare \/ AbortTraversal \/ PublishTasks
    BY <1>2, <2>4 DEF DequeueMaterializationTask, Prepare, AbortTraversal, PublishTasks
  <2> QED BY <1>3, <2>1, <2>2, <2>3, <2>4 DEF MaterializeLoop
<1>4. CASE ExecuteLoop
  <2>1. CASE RunTask \/ FailTask
    <3>1. PICK S, s : Settles(S, s)
      BY <1>0, <2>1, TaskSettles DEF ExType, TypeInv, TypeOK
    <3>2. Become(S, s) /\ \A b \in S : Born(b)
      BY <1>0, <3>1 DEF Settles, Served, Pending, Born
    <3> QED BY <1>1, <3>2
  <2>2. CASE DequeueExecutionTask
    BY <1>2, <2>2 DEF DequeueExecutionTask
  <2> QED BY <1>4, <2>1, <2>2 DEF ExecuteLoop
<1>5. CASE ShutDown \/ ContinueShutDown
  <2>1. CASE FailRemainingMaterializationTasks
    <3>1. UNION {matQ[i].nodes : i \in DOMAIN matQ} = {}
      BY <2>1 DEF FailRemainingMaterializationTasks, Context, Life, MatClosing
    <3> QED BY <1>1, <2>1, <3>1 DEF FailRemainingMaterializationTasks, SetAsError
  <2>2. CASE FailRemainingExecutionTasks
    <3>1. UNION {execQ[i].outs : i \in DOMAIN execQ} = {}
      BY <2>2 DEF FailRemainingExecutionTasks, Context, Life, ExecClosing
    <3> QED BY <1>1, <2>2, <3>1 DEF FailRemainingExecutionTasks, SetAsError
  <2>3. CASE \/ ShutDown \/ PushMaterializeSentinel \/ JoinMaterializeThread
             \/ PushExecuteSentinel \/ JoinExecuteThread
    BY <1>2, <2>3
    DEF ShutDown, PushMaterializeSentinel, JoinMaterializeThread, PushExecuteSentinel,
        JoinExecuteThread
  <2> QED BY <1>5, <2>1, <2>2, <2>3 DEF ContinueShutDown
<1>6. CASE UNCHANGED programVars
  BY <1>2, <1>6 DEF programVars
<1> QED BY <1>3, <1>4, <1>5, <1>6

(***************************************************************************)
(* The materialize thread.                                                 *)
(***************************************************************************)

\* What every step of the materialize thread keeps while the calls stay.
WorkerKeeps ==
    UNCHANGED <<live, call, deploy>> /\ (\A b \in Buffers : Born(b)' => Born(b))

LEMMA WorkerTracks ==
    ASSUME Context, Tracking, Moves, GraphStep, Consumed', InFlight', WorkerKeeps,
           TasksFit', PlanTyped', Tracked', AskedDone'
    PROVE  Tracking'
<1>1. AnswersAtMost /\ call' = call
  BY DEF AnswersAtMost, WorkerKeeps
<1>2. Refer'
  BY <1>1, ReferKept DEF Context, ServedInv, Tracking, Moves
<1>3. AnsweredOkIsPending'
  BY <1>1 DEF Tracking, AnsweredOkIsPending, Moves, Grows, Context, TypeInv, CallsType, CallType
<1> QED BY <1>2, <1>3 DEF Tracking

LEMMA FitKept ==
    ASSUME Tracking, Grows, UNCHANGED <<call, matQ>>, mat'.task = mat.task
    PROVE  TasksFit'
<1>1. Materializing \subseteq Materializing'
  BY MaterializingGrows
<1>2. \A k, d : Fits(k, d, Materializing) => Fits(k, d, Materializing')
  BY <1>1 DEF Fits
<1> QED BY <1>2 DEF Tracking, TasksFit

\* The events of a task: everything it asks for that is recorded.
LEMMA DequeueTracks ==
    ASSUME Context, Tracking, Moves, GraphStep, Consumed', InFlight', WorkerKeeps,
           DequeueMaterializationTask
    PROVE  Tracking'
<1> USE DEF bufferVars, workerVars, queueVars
<1> DEFINE task == Head(matQ)
           wanted == {b \in task.nodes : IsDeferred(b)}
<1>0. /\ TypeInv /\ QueueTypeOK /\ MatType /\ matQ \in Seq(MatTask) /\ matQ # <<>>
      /\ mat.pc = "idle" /\ UNCHANGED <<kind, inputs, state, live, call>>
      /\ deferredOps \in Seq(Buffers) /\ matQ' = Tail(matQ)
  BY DEF Context, TypeInv, TypeOK, MatType, QueueTypeOK, DequeueMaterializationTask
<1>1. /\ task = matQ[1] /\ 1 \in DOMAIN matQ /\ task \in MatTask
      /\ \A i \in DOMAIN matQ' : i + 1 \in DOMAIN matQ /\ matQ'[i] = matQ[i + 1]
  BY <1>0
<1>2. \A i \in DOMAIN matQ' : matQ'[i].from \in Threads =>
          Fits(matQ'[i], call[matQ'[i].from], Materializing')
  BY <1>0, <1>1 DEF Tracking, TasksFit, Materializing, IsMaterializing
<1>3. mat.task.from \notin Threads
  BY <1>0, ThreadsAssumption DEF Context, Life, Shapes
<1>4. CASE task.kind = "sentinel"
  <2>1. /\ mat' = [mat EXCEPT !.pc = "stopped"] /\ UNCHANGED deferredOps
    BY <1>4 DEF DequeueMaterializationTask
  <2>2. mat'.task = mat.task /\ mat'.pc = "stopped"
    BY <1>0, <2>1 DEF MatType
  <2>3. TasksFit' /\ PlanTyped' /\ AskedDone'
    BY <1>0, <1>2, <1>3, <2>2 DEF TasksFit, PlanTyped, AskedDone
  <2>4. Tracked'
    BY <1>0, <2>1, <2>2, TrackedKept DEF Recorded, WorkerKeeps
  <2> QED BY <2>3, <2>4, WorkerTracks
<1>5. CASE task.kind # "sentinel"
  <2>1. task.from \in Threads
    <3>1. task.from # NoThread
      BY <1>1, <1>5 DEF Context, Life, Shapes
    <3> QED BY <1>1, <3>1 DEF MatTask
  <2>2. Fits(task, call[task.from], Materializing) /\ call[task.from].pc = "wait"
        /\ call[task.from] \in CallType
    BY <1>1, <2>1 DEF Tracking, TasksFit, Context, CallHasTask, TypeInv, CallsType
  <2> DEFINE take == IF task.kind = "stream" THEN TakeAll ELSE TakeUntilNodes(wanted)
             pc == IF task.kind = "nodes" /\ wanted = {} THEN "publish" ELSE "prepare"
  <2>3. /\ mat' = [mat EXCEPT !.pc = pc, !.task = task, !.events = take.taken]
        /\ deferredOps' = take.rest
    BY <1>5 DEF DequeueMaterializationTask
  <2>4. mat'.pc = pc /\ mat'.task = task /\ mat'.events = take.taken
    BY <1>0, <2>3 DEF MatType
  <2>5. /\ ToSet(deferredOps) = ToSet(take.taken) \cup ToSet(deferredOps')
        /\ pc = "publish" => ToSet(take.taken) = {}
        /\ task.kind = "nodes" =>
              \A b \in ToSet(deferredOps) : b \in wanted => b \in ToSet(take.taken)
        /\ task.kind = "stream" => ToSet(take.taken) = ToSet(deferredOps)
    <3>e. ToSet(<<>>) = {}
      BY DEF ToSet
    <3>1. CASE task.kind = "stream"
      BY <2>3, <3>1, <3>e DEF TakeAll
    <3>2. CASE task.kind # "stream"
      <4>1. take = TakeUntilNodes(wanted)
        BY <3>2
      <4> HIDE DEF wanted
      <4>2. LET taken == TakeUntilNodes(wanted).taken
                rest == TakeUntilNodes(wanted).rest
            IN  /\ ToSet(deferredOps) = ToSet(taken) \cup ToSet(rest)
                /\ \A b \in ToSet(deferredOps) : b \in wanted => b \in ToSet(taken)
                /\ wanted \cap ToSet(deferredOps) = {} => taken = <<>>
        BY <1>0, TakenIsPrefix
      <4> QED BY <2>3, <3>2, <3>e, <4>1, <4>2
    <3> QED BY <3>1, <3>2
  <2> HIDE DEF take
  <2>6. PlanTyped'
    BY <2>4 DEF PlanTyped
  <2>7. TasksFit'
    <3>1. Fits(task, call[task.from], Materializing')
      BY <1>0, <2>2 DEF Materializing, IsMaterializing
    <3> QED BY <1>0, <1>2, <2>4, <3>1 DEF TasksFit
  <2>8. Tracked'
    <3>1. ASSUME NEW b \in Buffers, Recorded(b) PROVE Recorded(b)'
      BY <1>0, <2>4, <2>5, <3>1 DEF Recorded
    <3> QED BY <1>0, <3>1, TrackedKept DEF WorkerKeeps
  <2>9. AskedDone'
    <3> SUFFICES ASSUME NEW b \in Asked', IsDeferred(b)
                 PROVE  /\ mat'.pc = "prepare"
                        /\ b \in ToSet(mat'.events) \/ (task.kind = "nodes" /\ IsConstant(b))
      BY <1>0, <2>4 DEF AskedDone, IsDeferred, IsConstant
    <3>1. b \in Asked' => IF task.kind = "nodes" THEN b \in wanted
                          ELSE b \in call[task.from].nodes \cap live
      BY <1>0, <2>4 DEF Asked
    <3>2. b \in call[task.from].nodes /\ b \in Buffers
      BY <2>2, <3>1 DEF Fits, CallType
    <3>3. mat'.pc = "prepare"
      BY <2>4, <3>1
    <3>4. CASE IsConstant(b) /\ task.kind = "nodes"
      BY <3>3, <3>4
    <3>5. CASE ~IsConstant(b) \/ task.kind # "nodes"
      <4>1. ~IsConstant(b) /\ (b \in live \/ b = call[task.from].out)
        <5>1. CASE task.kind = "nodes"
          <6>1. call[task.from].why # "sync" /\ Known(call[task.from], live)
            BY <2>1, <2>2, <5>1 DEF Fits, Tracking, Refer, NodesKnown
          <6> QED BY <3>2, <3>5, <5>1, <6>1 DEF Known
        <5>2. CASE task.kind # "nodes"
          BY <2>1, <2>2, <3>1, <3>2, <5>2 DEF Fits, Tracking, Refer, SyncNodes
        <5> QED BY <5>1, <5>2
      <4>2. Recorded(b)
        BY <2>1, <3>2, <4>1 DEF Reached, Tracking, Tracked
      <4>3. \A t \in Threads : ~(call[t].pc = "record" /\ call[t].out = b)
        <5>1. b # NoBuffer
          BY <3>2 DEF Buffers, NoBuffer
        <5> QED BY <2>1, <2>2, <4>1, <5>1 DEF Tracking, Refer, Private
      <4>4. b \in ToSet(deferredOps)
        BY <1>0, <4>2, <4>3 DEF Recorded
      <4>5. b \in ToSet(take.taken)
        BY <2>2, <2>5, <3>1, <4>4 DEF Fits
      <4> QED BY <2>4, <3>3, <4>5
    <3> QED BY <3>4, <3>5
  <2> QED BY <2>6, <2>7, <2>8, <2>9, WorkerTracks
<1> QED BY <1>4, <1>5

\* Calls and tasks keep their buffers alive.
Refs(q) == UNION {q[i].args \cup q[i].outs : i \in DOMAIN q}

LEMMA HeldBuffers ==
    \A b : b \in Held <=> \/ \E t \in Threads : b \in HeldByCall(call[t])
                          \/ \E i \in DOMAIN matQ : b \in matQ[i].nodes
                          \/ b \in mat.task.nodes
                          \/ b \in Refs(execQ)
                          \/ b \in Refs(<<ex.task>>)
<1> DEFINE A == UNION {HeldByCall(call[t]) : t \in Threads}
           B == UNION {matQ[i].nodes : i \in DOMAIN matQ}
           C == mat.task.nodes
           D == Refs(execQ)
           E == Refs(<<ex.task>>)
<1>1. Held = A \cup B \cup C \cup D \cup E
  BY DEF Held, Refs
<1>2. \A b : b \in A <=> \E t \in Threads : b \in HeldByCall(call[t])
  OBVIOUS
<1>3. \A b : b \in B <=> \E i \in DOMAIN matQ : b \in matQ[i].nodes
  OBVIOUS
<1> SUFFICES \A b : b \in Held <=> b \in A \/ b \in B \/ b \in C \/ b \in D \/ b \in E
  BY <1>2, <1>3, Zenon
<1> HIDE DEF A, B, C, D, E
<1> QED BY <1>1

\* The plan of a task covers what it asks for and what can be reached of its
\* events.
LEMMA PrepareTracks ==
    ASSUME Context, Tracking, Moves, GraphStep, Consumed', InFlight', WorkerKeeps, Prepare
    PROVE  Tracking'
<1> USE DEF bufferVars, workerVars, queueVars
<1> DEFINE T == PrepareTraversals(mat.events, mat.task.nodes, Held)
           plan == Plan(T, mat.task.mode)
<1>0. /\ TypeInv /\ BuffersTypeOK /\ MatType /\ mat.pc = "prepare"
      /\ UNCHANGED <<kind, inputs, state, live, call, deferredOps, matQ>>
      /\ mat.events \in Seq(Buffers) /\ mat.task \in MatTask /\ mat.task.nodes \in SUBSET Buffers
  BY DEF Context, TypeInv, TypeOK, MatType, Prepare, MatTask
<1>1. /\ mat'.plan = plan /\ mat'.task = mat.task
      /\ mat'.pc = IF plan = <<>> THEN "publish" ELSE "build"
  BY <1>0 DEF Prepare, MatType, Plan
<1>2. /\ T \in Seq(Traversals)
      /\ \A d \in DOMAIN T : Whole(T[d])
      /\ \A b \in ToSet(mat.events) :
            b \in Alive(mat.events, Held) /\ IsDeferred(b) /\ Due(b, mat.task.nodes) => Cover(T, b)
      /\ \A b \in WantedConstants(mat.task.nodes) : Cover(T, b)
  BY <1>0, PreparedCovers
<1> HIDE DEF T
<1>3. /\ plan \in Seq(Traversals)
      /\ \A b : Cover(T, b) => Cover(plan, b)
  BY <1>0, <1>2, PlanCovers
<1>4. \A b : Cover(plan, b) => mat'.pc = "build" /\ Cover(mat'.plan, b)
  <2>1. \A b : Cover(plan, b) => plan # <<>>
    BY DEF Cover
  <2> QED BY <1>1, <2>1
<1> HIDE DEF plan
<1>5. \A b \in ToSet(mat.events) :
          /\ b \in Buffers
          /\ IsDeferred(b) /\ (Reached(b) \/ b \in mat.task.nodes) => Cover(plan, b)
  <2> SUFFICES ASSUME NEW b \in ToSet(mat.events)
               PROVE  /\ b \in Buffers
                      /\ IsDeferred(b) /\ (Reached(b) \/ b \in mat.task.nodes) => Cover(plan, b)
    OBVIOUS
  <2>1. b \in Buffers
    BY <1>0 DEF ToSet
  <2>2. ASSUME IsDeferred(b), Reached(b) \/ b \in mat.task.nodes
        PROVE  Cover(plan, b)
    <3> DEFINE roots == live \cup Held
                        \cup {x \in ToSet(mat.events \o deferredOps) : kind[x] = "collective"}
    <3>1. b \in roots
      <4>1. ToSet(mat.events) \subseteq ToSet(mat.events \o deferredOps)
        BY <1>0, ToSetConcat DEF TypeInv, TypeOK, QueueTypeOK
      <4>2. \A t \in Threads : call[t].out = b => b \in Held
        <5>1. b # NoBuffer
          BY <2>1 DEF Buffers, NoBuffer
        <5>2. \A t \in Threads : HeldByCall(call[t]) \subseteq Held
          BY HeldBuffers
        <5> QED BY <5>1, <5>2 DEF HeldByCall
      <4>3. mat.task.nodes \subseteq Held
        BY HeldBuffers
      <4> QED BY <2>2, <4>1, <4>2, <4>3 DEF Reached
    <3>2. b \in Alive(mat.events, Held)
      BY <2>1, <3>1 DEF Alive, ReferredFrom
    <3>3. Due(b, mat.task.nodes)
      <4>1. \A t \in Threads : call[t].out = b => Unread(b)
        <5>1. b # NoBuffer
          BY <2>1 DEF Buffers, NoBuffer
        <5> QED BY <5>1 DEF Tracking, Refer, Private
      <4> QED BY <2>2, <4>1 DEF Due, Taken, Reached
    <3> QED BY <1>2, <1>3, <2>2, <3>2, <3>3
  <2> QED BY <2>1, <2>2
<1>6. PlanTyped'
  BY <1>1, <1>3 DEF PlanTyped
<1>7. TasksFit'
  BY <1>0, <1>1, FitKept DEF Moves
<1>8. Tracked'
  <2> SUFFICES ASSUME NEW b \in Buffers, IsDeferred(b), ~IsConstant(b), Reached(b)
               PROVE  Recorded(b)'
    BY <1>0 DEF Tracked, IsDeferred, IsConstant, Reached
  <2>1. Recorded(b)
    BY DEF Tracking, Tracked
  <2> QED BY <1>0, <1>4, <1>5, <2>1 DEF Recorded
<1>9. AskedDone'
  <2> SUFFICES ASSUME mat.task.from \in Threads, NEW b \in Asked, IsDeferred(b)
               PROVE  mat'.pc = "build" /\ Cover(mat'.plan, b)
    BY <1>0, <1>1 DEF AskedDone, Asked, IsDeferred
  <2>1. b \in ToSet(mat.events) \/ (mat.task.kind = "nodes" /\ IsConstant(b))
    BY <1>0 DEF Tracking, AskedDone
  <2>2. CASE b \in ToSet(mat.events)
    <3>1. b \in mat.task.nodes \/ b \in live
      BY DEF Asked
    <3> QED BY <1>4, <1>5, <2>2, <3>1 DEF Reached
  <2>3. CASE mat.task.kind = "nodes" /\ IsConstant(b)
    BY <1>2, <1>3, <1>4, <2>3 DEF Asked, WantedConstants
  <2> QED BY <2>1, <2>2, <2>3
<1> QED BY <1>6, <1>7, <1>8, <1>9, WorkerTracks

\* The traversal that is built gives its outputs a task, or an error.
LEMMA BuildTracks ==
    ASSUME Context, Tracking, Moves, GraphStep, Consumed', InFlight', WorkerKeeps,
           BuildTask \/ FailTraversal
    PROVE  Tracking'
<1> USE DEF bufferVars, workerVars, queueVars
<1>0. /\ TypeInv /\ MatType /\ mat.pc = "build"
      /\ UNCHANGED <<live, call, deferredOps, matQ>>
      /\ mat.plan \in Seq(Traversals) /\ mat.plan # <<>>
      /\ \E s \in {"pending", "error"} : Become(Outputs, s)
      /\ \A b \in Outputs : IsDeferred(b)
  BY DEF Context, TypeInv, TypeOK, MatType, BuildTask, FailTraversal, Tracking, PlanTyped,
         SetAsPendingMaterialization, SetAsError, Outputs
<1>1. /\ mat'.plan = Tail(mat.plan) /\ mat'.task = mat.task
      /\ mat'.pc = IF Len(mat.plan) = 1 THEN "publish" ELSE "build"
  BY <1>0 DEF BuildTask, FailTraversal, Built, MatType
<1>2. \A b \in Outputs : state'[b] # "deferred"
  BY <1>0 DEF Become, Settled, Outputs, Nodes
<1>3. \A b \in Buffers : Cover(mat.plan, b) =>
          b \in Outputs \/ (mat'.pc = "build" /\ Cover(mat'.plan, b))
  <2> SUFFICES ASSUME NEW b \in Buffers, NEW d \in DOMAIN mat.plan, b \in mat.plan[d].outs,
                      b \in ToSet(mat.plan[d].order)
               PROVE  b \in Outputs \/ (mat'.pc = "build" /\ Cover(mat'.plan, b))
    BY DEF Cover
  <2>1. CASE d = 1
    BY <1>0, <2>1 DEF Outputs, Nodes
  <2>2. CASE d # 1
    <3>1. d - 1 \in DOMAIN Tail(mat.plan) /\ Tail(mat.plan)[d - 1] = mat.plan[d]
          /\ Len(mat.plan) # 1
      BY <1>0, <2>2
    <3> QED BY <1>1, <3>1 DEF Cover
  <2> QED BY <2>1, <2>2
<1>4. PlanTyped'
  <2>1. Tail(mat.plan) \in Seq(Traversals) /\ (Len(mat.plan) # 1 => Tail(mat.plan) # <<>>)
    <3> DEFINE rest == Tail(mat.plan)
    <3>1. rest \in Seq(Traversals) /\ Len(rest) = Len(mat.plan) - 1
      BY <1>0, HeadTailProperties
    <3>2. Len(mat.plan) \in Nat /\ Len(<<>>) = 0
      BY <1>0
    <3> HIDE DEF rest
    <3>3. Len(mat.plan) # 1 => rest # <<>>
      <4>1. rest = <<>> => Len(rest) = 0
        BY <3>2, Zenon
      <4> QED BY <3>1, <3>2, <4>1
    <3> QED BY <3>1, <3>3 DEF rest
  <2> QED BY <1>1, <2>1 DEF PlanTyped
<1>5. TasksFit'
  BY <1>0, <1>1, FitKept DEF Moves
<1>6. Tracked'
  <2>1. ASSUME NEW b \in Buffers, Recorded(b), state'[b] = "deferred"
        PROVE  Recorded(b)'
    BY <1>0, <1>2, <1>3, <2>1 DEF Recorded
  <2> QED BY <1>0, <2>1, TrackedKept DEF WorkerKeeps
<1>7. AskedDone'
  <2> SUFFICES ASSUME mat.task.from \in Threads, NEW b \in Asked, state'[b] = "deferred"
               PROVE  mat'.pc = "build" /\ Cover(mat'.plan, b)
    BY <1>0, <1>1 DEF AskedDone, Asked, IsDeferred
  <2>1. b \in Buffers /\ Born(b)
    BY WorksForWaiter
  <2>2. IsDeferred(b)
    BY <2>1 DEF GraphStep, IsDeferred
  <2>3. Cover(mat.plan, b)
    BY <1>0, <2>2 DEF Tracking, AskedDone
  <2> QED BY <1>2, <1>3, <2>1, <2>3
<1> QED BY <1>4, <1>5, <1>6, <1>7, WorkerTracks

\* A task that is done has none of what it was asked for left.
LEMMA AnswerTracks ==
    ASSUME Context, Tracking, Moves, GraphStep, Consumed', InFlight', AnswerTask,
           \A b \in Buffers : Born(b)' => Born(b)
    PROVE  Tracking'
<1> USE DEF bufferVars, workerVars, queueVars
<1> DEFINE t == mat.task.from
<1>0. /\ TypeInv /\ MatType /\ mat.pc = "answer" /\ Fresh /\ Grows
      /\ UNCHANGED <<live, deferredOps, matQ>> /\ call \in [Threads -> CallType]
  BY DEF Context, TypeInv, TypeOK, MatType, AnswerTask, ServedInv, Moves, CallsType
<1>1. mat'.pc = "idle" /\ mat'.task = NoTask
  BY <1>0 DEF AnswerTask, MatType
<1>2. mat'.task.from \notin Threads
  BY <1>1, ThreadsAssumption DEF NoTask
<1>3. t \in Threads
  BY <1>0 DEF Context, Life, Shapes, TypeInv, TypeOK, MatTask
<1>4. /\ call[t].pc = "wait" /\ Fits(mat.task, call[t], Materializing)
      /\ \A b \in Asked : b \in Buffers /\ Born(b)
  BY <1>3, WorksForWaiter
<1>5. /\ \A u \in Threads \ {t} : call'[u] = call[u]
      /\ call'[t].pc = "answered" /\ call'[t].out = call[t].out /\ call'[t].why = call[t].why
      /\ call'[t].ok => ~mat.err
      /\ mat.task.kind = "nodes" => call'[t].nodes = call[t].nodes
  <2>1. \E ok, nodes : /\ call' = [call EXCEPT ![t].pc = "answered", ![t].ok = ok,
                                               ![t].nodes = nodes]
                       /\ ok = ~mat.err
                       /\ mat.task.kind = "nodes" => nodes = call[t].nodes
    BY DEF AnswerTask, Answer
  <2> QED BY <1>0, <1>3, <2>1 DEF CallType
<1> HIDE DEF t
<1>6. AnswersAtMost
  BY <1>0, <1>4, <1>5 DEF AnswersAtMost, Fits
<1>7. Refer'
  BY <1>0, <1>6, ReferKept DEF Tracking
<1>8. TasksFit'
  <2>1. Materializing \subseteq Materializing'
    BY <1>0, MaterializingGrows
  <2>2. \A k, d : Fits(k, d, Materializing) => Fits(k, d, Materializing')
    BY <2>1 DEF Fits
  <2>3. \A i \in DOMAIN matQ : matQ[i].from \in Threads => matQ[i].from # t
    BY DEF Context, CallHasTask, t
  <2> QED BY <1>0, <1>2, <1>5, <2>2, <2>3 DEF Tracking, TasksFit
<1>9. PlanTyped' /\ AskedDone'
  BY <1>1, <1>2 DEF PlanTyped, AskedDone
<1>10. Tracked'
  <2> SUFFICES ASSUME NEW b \in Buffers, state'[b] = "deferred", kind'[b] # "constant", Reached(b)'
               PROVE  Recorded(b)'
    BY DEF Tracked, IsDeferred, IsConstant
  <2>1. Born(b)
    BY DEF Born
  <2>2. IsDeferred(b) /\ ~IsConstant(b) /\ kind'[b] = kind[b]
    BY <2>1 DEF GraphStep, IsDeferred, IsConstant
  <2>3. Reached(b)
    BY <1>0, <1>5, <2>2 DEF Reached
  <2>4. Recorded(b)
    BY <2>2, <2>3 DEF Tracking, Tracked
  <2> QED BY <1>0, <1>3, <1>4, <1>5, <2>4 DEF Recorded
<1>11. AnsweredOkIsPending'
  <2> SUFFICES ASSUME NEW u \in Threads, call'[u].pc = "answered", call'[u].ok,
                      call'[u].why # "sync", NEW b \in call'[u].nodes
               PROVE  IsMaterializing(b)'
    BY DEF AnsweredOkIsPending
  <2>1. CASE u # t
    <3>1. call'[u] = call[u] /\ b \in Buffers
      BY <1>0, <1>5, <2>1 DEF CallType
    <3>2. IsMaterializing(b)
      BY <3>1 DEF Tracking, AnsweredOkIsPending
    <3> QED BY <1>0, <3>1, <3>2 DEF Grows
  <2>2. CASE u = t
    <3>1. mat.task.kind = "nodes" /\ b \in call[t].nodes /\ b \in Buffers
      BY <1>0, <1>3, <1>4, <1>5, <2>2 DEF Fits, CallType
    <3>2. CASE b \notin mat.task.nodes
      BY <1>0, <1>4, <3>1, <3>2 DEF Fits, Materializing, Grows
    <3>3. CASE b \in mat.task.nodes
      <4>1. ~IsDeferred(b) /\ Born(b)
        BY <1>0, <1>3, <1>4, <3>1, <3>3 DEF Tracking, AskedDone, Asked, t
      <4>2. state[b] \in States
        BY <3>1 DEF Context, TypeInv, TypeOK, BuffersTypeOK
      <4>3. IsMaterializing(b)
        BY <4>1, <4>2 DEF IsMaterializing, IsDeferred, Born, States
      <4> QED BY <1>0, <3>1, <4>3 DEF Grows
    <3> QED BY <3>2, <3>3
  <2> QED BY <2>1, <2>2
<1> QED BY <1>7, <1>8, <1>9, <1>10, <1>11 DEF Tracking

LEMMA OtherWorkTracks ==
    ASSUME Context, Tracking, Moves, GraphStep, Consumed', InFlight', WorkerKeeps,
           AbortTraversal \/ PublishTasks
    PROVE  Tracking'
<1> USE DEF bufferVars, workerVars, queueVars
<1>0. /\ MatType /\ UNCHANGED <<live, call, deferredOps, matQ>>
  BY DEF Context, TypeInv, TypeOK, MatType, AbortTraversal, PublishTasks
<1>1. CASE AbortTraversal
  <2>1. mat' = mat
    BY <1>1 DEF AbortTraversal
  <2>2. Tracked'
    BY <1>0, <2>1, TrackedKept DEF Recorded, WorkerKeeps
  <2>3. TasksFit' /\ PlanTyped' /\ AskedDone'
    BY <1>0, <2>1, FitKept, AskedKept DEF Moves, Tracking, PlanTyped
  <2> QED BY <2>2, <2>3, WorkerTracks
<1>2. CASE PublishTasks
  <2>1. mat.pc = "publish" /\ mat'.pc = "answer" /\ mat'.task = mat.task
        /\ UNCHANGED <<kind, state>>
    BY <1>0, <1>2 DEF PublishTasks, MatType
  <2>2. Tracked'
    BY <1>0, <2>1, TrackedKept DEF Recorded, WorkerKeeps
  <2>3. TasksFit' /\ PlanTyped'
    BY <1>0, <2>1, FitKept DEF Moves, PlanTyped
  <2>4. AskedDone'
    BY <1>0, <2>1 DEF Tracking, AskedDone, Asked, IsDeferred
  <2> QED BY <2>2, <2>3, <2>4, WorkerTracks
<1> QED BY <1>1, <1>2

LEMMA TrackingNext ==
    ASSUME Context, Tracking, [Next]_vars
    PROVE  Tracking'
<1> USE DEF bufferVars, workerVars
<1>0. TypeInv /\ Life /\ ServedInv /\ Fresh /\ Consumed
  BY DEF Context, ServedInv, Tracking
<1>1. Moves
  BY <1>0, StatesMove
<1>2. GraphStep /\ Consumed'
  BY <1>0, BufferSteps, GraphSteps
<1>3. InFlight'
  BY <1>1, InFlightStep
<1>4. ASSUME NEW t \in Threads, Begin(t) \/ Continue(t) PROVE Tracking'
  BY <1>1, <1>2, <1>3, <1>4, DispatchTracks
<1>5. ASSUME ExecuteLoop \/ ShutDown \/ ContinueShutDown \/ UNCHANGED programVars PROVE Tracking'
  BY <1>1, <1>2, <1>3, <1>5, AsideSteps, AsideTracks, NothingBorn
<1>6. ASSUME MaterializeLoop PROVE Tracking'
  <2>1. \A b \in Buffers : Born(b)' => Born(b)
    BY <1>6, NothingBorn
  <2>2. CASE AnswerTask
    BY <1>1, <1>2, <1>3, <2>1, <2>2, AnswerTracks
  <2>3. CASE ~AnswerTask
    <3>1. WorkerKeeps
      BY <1>6, <2>1, <2>3
      DEF MaterializeLoop, DequeueMaterializationTask, Prepare, BuildTask, FailTraversal,
          AbortTraversal, PublishTasks, WorkerKeeps
    <3> QED BY <1>1, <1>2, <1>3, <1>6, <2>3, <3>1, DequeueTracks, PrepareTracks, BuildTracks,
               OtherWorkTracks DEF MaterializeLoop
  <2> QED BY <2>2, <2>3
<1> QED BY <1>4, <1>5, <1>6, RestingStep DEF Next, Rests

LEMMA ContextInvariant == Spec => [](Context /\ Tracking)
<1>1. Init => Context /\ Tracking
  BY TypeInit, LifeInit, CallsInit, ServedInit, TrackingInit DEF Context
<1>2. Context /\ Tracking /\ [Next]_vars => (Context /\ Tracking)'
  BY TypeNext, LifeNext, CallsNext, ServedNext, TrackingNext DEF Context
<1> QED BY <1>1, <1>2, PTL DEF Spec

(***************************************************************************)
(* Theorem: a call that is told that its materialization succeeded finds   *)
(* every one of its nodes pending or set (MaterializeImpl checks it),      *)
(* whatever other threads, earlier tasks and the shutdown did to them.     *)
(***************************************************************************)
THEOREM AnsweredCallsFindTheirNodes == Spec => []AnsweredOkIsPending
<1>1. Context /\ Tracking => AnsweredOkIsPending
  BY DEF Tracking
<1> QED BY <1>1, ContextInvariant, PTL

LEMMA SnapshotStep ==
    ASSUME Context, Tracking, [Next]_vars, NEW t \in Threads,
           call[t].why = "sync", call[t].pc = "wait", call'[t].pc = "answered", call'[t].ok,
           NEW b \in call[t].nodes \cap live
    PROVE  IsReady(b) \/ (IsMaterializing(b) /\ b \in call'[t].nodes)
<1> USE DEF bufferVars, workerVars
<1>0. TypeInv /\ Fresh /\ Refer /\ call \in [Threads -> CallType]
  BY DEF Context, ServedInv, Tracking, TypeInv, CallsType
<1>1. AnswerTask
  <2>1. ASSUME NEW u \in Threads, Begin(u) \/ Continue(u) PROVE FALSE
    <3>1. PICK c : Dispatches(u, c)
      BY <1>0, <2>1, BeginDispatches, ContinueDispatches
    <3> QED BY <1>0, <3>1 DEF Dispatches, MovesTo, Go
  <2>2. ASSUME ExecuteLoop \/ ShutDown \/ ContinueShutDown \/ UNCHANGED programVars PROVE FALSE
    BY <2>2, AsideSteps DEF Aside
  <2>3. ASSUME MaterializeLoop, ~AnswerTask PROVE FALSE
    BY <2>3
    DEF MaterializeLoop, DequeueMaterializationTask, Prepare, BuildTask, FailTraversal,
        AbortTraversal, PublishTasks
  <2> QED BY <2>1, <2>2, <2>3, RestingStep DEF Next, Rests
<1>2. mat.pc = "answer" /\ mat.task.from \in Threads
  BY <1>1 DEF AnswerTask, Context, Life, Shapes, TypeInv, TypeOK, MatTask
<1>3. t = mat.task.from
  BY <1>0, <1>1 DEF AnswerTask, Answer
<1>4. mat.task.kind # "nodes"
  BY <1>2, <1>3, WorksForWaiter DEF Fits
<1>5. ~mat.err /\ call'[t].nodes = JoinFutures
  BY <1>0, <1>1, <1>2, <1>3, <1>4 DEF AnswerTask, Answer, CallType
<1>6. b \in Buffers /\ Born(b) /\ ~IsDeferred(b)
  BY <1>2, <1>3, <1>4, WorksForWaiter DEF Asked, Tracking, AskedDone
<1>7. state[b] \in States
  BY <1>6 DEF Context, TypeInv, TypeOK, BuffersTypeOK
<1>8. state[b] = "pending" \/ state[b] \in Settled
  BY <1>6, <1>7 DEF Born, IsDeferred, States
<1> QED
  BY <1>5, <1>6, <1>8
  DEF IsReady, IsMaterialized, IsMaterializing, Tracking, InFlight, JoinFutures,
      PruneCompletedFutures, Settled

(***************************************************************************)
(* Theorem: when a stream was synchronized, every tensor there was when it *)
(* was called is ready, or in flight, in the worker or on the device, and  *)
(* part of the snapshot that is awaited (EventSnapshot joins the ready     *)
(* futures of the stream).                                                 *)
(***************************************************************************)
THEOREM SynchronizationCoversStream == Spec => SnapshotCoversStream
<1> DEFINE Covers ==
        \A t \in Threads :
          call[t].why = "sync" /\ call[t].pc = "wait" /\ call'[t].pc = "answered" /\ call'[t].ok =>
              \A b \in call[t].nodes \cap live :
                  IsReady(b) \/ (IsMaterializing(b) /\ b \in call'[t].nodes)
<1>1. Context /\ Tracking /\ [Next]_vars => [Covers]_vars
  BY SnapshotStep
<1>2. SnapshotCoversStream <=> [][Covers]_vars
  BY DEF SnapshotCoversStream
<1> HIDE DEF Covers
<1> QED BY <1>1, <1>2, ContextInvariant, PTL DEF Spec

(***************************************************************************)
(* The order of the collectives.                                           *)
(***************************************************************************)
Less(A, B) == \A a \in A, b \in B : a < b
Rising(f) == \A i, j \in DOMAIN f : i < j => Less(f[i], f[j])
All(f) == UNION {f[i] : i \in DOMAIN f}

EffectsIn(q) == UNION {q[i].effects : i \in DOMAIN q}
TasksInOrder(q) == \A i, j \in DOMAIN q : i < j => Less(q[i].effects, q[j].effects)

\* A sequence of tasks holds effects E and is in order.
Holds(q, E) == TasksInOrder(q) /\ EffectsIn(q) = E

LEMMA EffectsAppend ==
    ASSUME NEW q \in Seq(ExecTask), NEW k \in ExecTask, TasksInOrder(q),
           Less(EffectsIn(q), k.effects)
    PROVE  Holds(Append(q, k), EffectsIn(q) \cup k.effects)
<1> DEFINE r == Append(q, k)
           n == Len(q) + 1
<1>1. /\ DOMAIN r = DOMAIN q \cup {n} /\ n \notin DOMAIN q /\ \A i \in DOMAIN q : i < n
      /\ \A i \in DOMAIN q : r[i] = q[i]
      /\ r[n] = k
  OBVIOUS
<1>0. n \in Nat /\ \A i \in DOMAIN q : i \in Nat
  OBVIOUS
<1> HIDE DEF r, n
<1>2. EffectsIn(r) = EffectsIn(q) \cup k.effects
  BY <1>1 DEF EffectsIn
<1>3. TasksInOrder(r)
  <2> SUFFICES ASSUME NEW i \in DOMAIN r, NEW j \in DOMAIN r, i < j
               PROVE  Less(r[i].effects, r[j].effects)
    BY DEF TasksInOrder
  <2>1. i \in DOMAIN q
    BY <1>0, <1>1
  <2>2. CASE j \in DOMAIN q
    BY <1>1, <2>1, <2>2 DEF TasksInOrder
  <2>3. CASE j = n
    <3>1. q[i].effects \subseteq EffectsIn(q)
      BY <2>1 DEF EffectsIn
    <3> QED BY <1>1, <2>1, <2>3, <3>1 DEF Less
  <2> QED BY <1>1, <2>2, <2>3
<1> QED BY <1>2, <1>3 DEF r, Holds

LEMMA EffectsTail ==
    ASSUME NEW q \in Seq(ExecTask), q # <<>>, TasksInOrder(q)
    PROVE  /\ Head(q).effects \subseteq EffectsIn(q) /\ EffectsIn(Tail(q)) \subseteq EffectsIn(q)
           /\ Less(Head(q).effects, EffectsIn(Tail(q)))
           /\ TasksInOrder(Tail(q))
<1> DEFINE r == Tail(q)
<1>1. /\ \A i \in DOMAIN r : i + 1 \in DOMAIN q /\ r[i] = q[i + 1] /\ i \in Nat \ {0}
      /\ 1 \in DOMAIN q /\ Head(q) = q[1]
  OBVIOUS
<1> HIDE DEF r
<1>2. Head(q).effects \subseteq EffectsIn(q)
  BY <1>1 DEF EffectsIn
<1>3. EffectsIn(r) \subseteq EffectsIn(q)
  <2> SUFFICES ASSUME NEW b, NEW i \in DOMAIN r, b \in r[i].effects
               PROVE  b \in EffectsIn(q)
    BY DEF EffectsIn
  <2> QED BY <1>1 DEF EffectsIn
<1>4. Less(Head(q).effects, EffectsIn(r))
  <2> SUFFICES ASSUME NEW a \in Head(q).effects, NEW i \in DOMAIN r, NEW b \in r[i].effects
               PROVE  a < b
    BY DEF Less, EffectsIn
  <2>1. i + 1 \in DOMAIN q /\ 1 < i + 1 /\ b \in q[i + 1].effects /\ a \in q[1].effects
    BY <1>1
  <2> QED BY <1>1, <2>1 DEF TasksInOrder, Less
<1>5. TasksInOrder(r)
  <2> SUFFICES ASSUME NEW i \in DOMAIN r, NEW j \in DOMAIN r, i < j
               PROVE  Less(r[i].effects, r[j].effects)
    BY DEF TasksInOrder
  <2>1. i + 1 < j + 1
    BY <1>1
  <2> QED BY <1>1, <2>1 DEF TasksInOrder
<1> QED BY <1>2, <1>3, <1>4, <1>5 DEF r

LEMMA EffectsConcat ==
    ASSUME NEW q \in Seq(ExecTask), NEW r \in Seq(ExecTask), TasksInOrder(q), TasksInOrder(r),
           Less(EffectsIn(q), EffectsIn(r))
    PROVE  Holds(q \o r, EffectsIn(q) \cup EffectsIn(r))
<1> DEFINE s == q \o r
           n == Len(q)
<1>1. /\ n \in Nat
      /\ \A i \in DOMAIN q : i \in DOMAIN s /\ s[i] = q[i]
      /\ \A i \in DOMAIN r : n + i \in DOMAIN s /\ s[n + i] = r[i]
      /\ \A i \in DOMAIN s : \/ i \in DOMAIN q /\ s[i] = q[i] /\ i \in 1..n
                             \/ i - n \in DOMAIN r /\ s[i] = r[i - n] /\ i \in Nat /\ i > n
  <2>1. /\ s \in Seq(ExecTask)
        /\ Len(s) = Len(q) + Len(r)
        /\ \A i \in 1..(Len(q) + Len(r)) :
              s[i] = IF i <= Len(q) THEN q[i] ELSE r[i - Len(q)]
    BY ConcatProperties
  <2> HIDE DEF s
  <2> QED BY <2>1
<1> HIDE DEF s, n
<1>2. EffectsIn(s) = EffectsIn(q) \cup EffectsIn(r)
  <2>1. ASSUME NEW b \in EffectsIn(s) PROVE b \in EffectsIn(q) \cup EffectsIn(r)
    <3>1. PICK i \in DOMAIN s : b \in s[i].effects
      BY <2>1 DEF EffectsIn
    <3> QED BY <1>1, <3>1 DEF EffectsIn
  <2>2. ASSUME NEW b \in EffectsIn(q) PROVE b \in EffectsIn(s)
    <3>1. PICK i \in DOMAIN q : b \in q[i].effects
      BY <2>2 DEF EffectsIn
    <3> QED BY <1>1, <3>1 DEF EffectsIn
  <2>3. ASSUME NEW b \in EffectsIn(r) PROVE b \in EffectsIn(s)
    <3>1. PICK i \in DOMAIN r : b \in r[i].effects
      BY <2>3 DEF EffectsIn
    <3>2. n + i \in DOMAIN s /\ b \in s[n + i].effects
      BY <1>1, <3>1
    <3> QED BY <3>2 DEF EffectsIn
  <2> QED BY <2>1, <2>2, <2>3
<1>3. TasksInOrder(s)
  <2> SUFFICES ASSUME NEW i \in DOMAIN s, NEW j \in DOMAIN s, i < j,
                      NEW a \in s[i].effects, NEW b \in s[j].effects
               PROVE  a < b
    BY DEF TasksInOrder, Less
  <2>1. CASE i \in DOMAIN q /\ s[i] = q[i] /\ j \in DOMAIN q /\ s[j] = q[j]
    BY <2>1 DEF TasksInOrder, Less
  <2>2. CASE /\ i - n \in DOMAIN r /\ s[i] = r[i - n] /\ i \in Nat
             /\ j - n \in DOMAIN r /\ s[j] = r[j - n] /\ j \in Nat
    <3>1. i - n < j - n
      BY <1>1, <2>2
    <3> QED BY <2>2, <3>1 DEF TasksInOrder, Less
  <2>3. CASE i \in DOMAIN q /\ s[i] = q[i] /\ j - n \in DOMAIN r /\ s[j] = r[j - n]
    <3>1. a \in EffectsIn(q) /\ b \in EffectsIn(r)
      BY <2>3 DEF EffectsIn
    <3> QED BY <3>1 DEF Less
  <2>4. ~(i - n \in DOMAIN r /\ i > n /\ i \in Nat /\ j \in 1..n)
    BY <1>1
  <2> QED BY <1>1, <2>1, <2>2, <2>3, <2>4
<1> QED BY <1>2, <1>3 DEF s, Holds

LEMMA ClimbsConcat ==
    ASSUME NEW s \in Seq(Buffers), NEW r \in Seq(Buffers), Climbs(s \o r)
    PROVE  Climbs(s) /\ Climbs(r) /\ Less(ToSet(s), ToSet(r))
<1> DEFINE q == s \o r
           n == Len(s)
<1>1. /\ q \in Seq(Buffers) /\ Len(q) = n + Len(r)
      /\ \A i \in 1..n + Len(r) : q[i] = IF i <= n THEN s[i] ELSE r[i - n]
  BY ConcatProperties
<1>2. n \in Nat /\ DOMAIN s = 1..n /\ DOMAIN r = 1..Len(r) /\ Len(r) \in Nat
      /\ DOMAIN q = 1..(n + Len(r))
  BY <1>1
<1> HIDE DEF q, n
<1>3. /\ \A i \in DOMAIN s : i \in DOMAIN q /\ q[i] = s[i]
      /\ \A i \in DOMAIN r : n + i \in DOMAIN q /\ q[n + i] = r[i] /\ i > 0 /\ i \in Nat
  BY <1>1, <1>2
<1>4. Climbs(q)
  BY DEF q
<1>5. Climbs(s)
  BY <1>3, <1>4 DEF Climbs
<1>6. Climbs(r)
  <2>1. \A i, j \in DOMAIN r : i < j => n + i < n + j
    BY <1>2, <1>3
  <2> QED BY <1>3, <1>4, <2>1 DEF Climbs
<1>7. Less(ToSet(s), ToSet(r))
  <2> SUFFICES ASSUME NEW i \in DOMAIN s, NEW j \in DOMAIN r PROVE s[i] < r[j]
    BY DEF Less, ToSet
  <2>1. i < n + j
    BY <1>2, <1>3
  <2> QED BY <1>3, <1>4, <2>1 DEF Climbs
<1> QED BY <1>5, <1>6, <1>7

LEMMA ClimbsAppend ==
    ASSUME NEW s \in Seq(Buffers), NEW b \in Buffers, Climbs(s), Less(ToSet(s), {b}),
           ~IsConstant(b)
    PROVE  Climbs(Append(s, b))
<1> DEFINE r == Append(s, b)
           n == Len(s) + 1
<1>1. /\ DOMAIN r = DOMAIN s \cup {n} /\ n \notin DOMAIN s /\ \A i \in DOMAIN s : i < n
      /\ \A i \in DOMAIN s : r[i] = s[i]
      /\ r[n] = b
  OBVIOUS
<1>0. n \in Nat /\ \A i \in DOMAIN s : i \in Nat
  OBVIOUS
<1> HIDE DEF r, n
<1>2. \A i \in DOMAIN s : s[i] \in ToSet(s)
  BY DEF ToSet
<1>3. Climbs(r)
  BY <1>0, <1>1, <1>2 DEF Climbs, Less
<1> QED BY <1>3 DEF r

(***************************************************************************)
(* The invariant: the tasks, the traversals and the events hold the        *)
(* collectives in the order in which a lone thread created them.           *)
(***************************************************************************)
InLine(A, B, C, D, Q) ==
    /\ Less(A, B) /\ Less(A, C) /\ Less(A, D) /\ Less(A, Q)
    /\ Less(B, C) /\ Less(B, D) /\ Less(B, Q)
    /\ Less(C, D) /\ Less(C, Q)
    /\ Less(D, Q)

\* Buffers that were created before the ones that are about to be recorded.
Old(S) ==
    \A x \in S : /\ x \in Buffers /\ Born(x)
                 /\ \A t \in Threads : call[t].pc = "record" => x < call[t].out

EffectsInPlan(p) == UNION {CollectivesOf(p[d].outs) : d \in DOMAIN p}
PlanRises(p) ==
    \A d, e \in DOMAIN p : d < e => Less(CollectivesOf(p[d].outs), CollectivesOf(p[e].outs))
PlanBorn(p) == \A d \in DOMAIN p : \A b \in p[d].outs : b \in Buffers /\ Born(b)

EffectsRise ==
    /\ TasksInOrder(execQ) /\ TasksInOrder(mat.batch) /\ PlanRises(mat.plan) /\ Climbs(Queue)
    /\ InLine(ex.task.effects, EffectsIn(execQ), EffectsIn(mat.batch),
              EffectsInPlan(mat.plan), ToSet(Queue))
    /\ Old(ex.task.effects) /\ Old(EffectsIn(execQ)) /\ Old(EffectsIn(mat.batch))
    /\ Old(EffectsInPlan(mat.plan)) /\ Old(ToSet(Queue))
    /\ PlanBorn(mat.plan)

EffectsInv ==
    /\ mat.pc # "prepare" => mat.events = <<>>
    /\ mat.pc # "build" => mat.plan = <<>>
    /\ Solo => EffectsRise

Ground == Context /\ Context' /\ Tracking /\ Callers /\ Moves /\ GraphStep

\* No thread begins to record a buffer that exists.
RecordsNew ==
    \A t \in Threads : call'[t].pc = "record" =>
        \/ call'[t].out >= next
        \/ call[t].pc = "record" /\ call'[t].out = call[t].out

LEMMA BornBelow ==
    ASSUME Context, NEW x \in Buffers, Born(x)
    PROVE  x < next
BY MaxBuffersAssumption DEF Context, ServedInv, Fresh, TypeInv, TypeOK, BuffersTypeOK, Buffers

StillOld(S) ==
    \A x \in S : /\ x \in Buffers /\ Born(x)'
                 /\ \A t \in Threads : call'[t].pc = "record" => x < call'[t].out

LEMMA OldKept ==
    ASSUME Ground, RecordsNew, NEW S, Old(S)
    PROVE  StillOld(S)
<1> SUFFICES ASSUME NEW x \in S
             PROVE  /\ x \in Buffers /\ Born(x)'
                    /\ \A t \in Threads : call'[t].pc = "record" => x < call'[t].out
  BY DEF StillOld
<1>1. x \in Buffers /\ Born(x) /\ \A t \in Threads : call[t].pc = "record" => x < call[t].out
  BY DEF Old
<1>2. Born(x)'
  BY <1>1 DEF Ground, Moves, Grows
<1>3. x < next /\ x \in Int /\ next \in Int
  <2>1. x < next
    BY <1>1, BornBelow DEF Ground
  <2>2. x \in Int
    BY <1>1 DEF Buffers
  <2>3. next \in Int
    BY MaxBuffersAssumption DEF Ground, Context, TypeInv, TypeOK, BuffersTypeOK
  <2> QED BY <2>1, <2>2, <2>3
<1>4. \A t \in Threads : call'[t].out \in Int
  BY MaxBuffersAssumption DEF Ground, Context, TypeInv, CallsType, CallType, Buffers, NoBuffer
<1> QED BY <1>1, <1>2, <1>3, <1>4 DEF RecordsNew

\* What existed does not become a collective or a constant.
LEMMA KindsKept ==
    ASSUME Ground, NEW S, \A x \in S : x \in Buffers /\ Born(x)
    PROVE  /\ {b \in S : kind'[b] = "collective"} \subseteq CollectivesOf(S)
           /\ \A b \in S : ~IsConstant(b) => kind'[b] # "constant"
BY DEF Ground, GraphStep, CollectivesOf, IsConstant

LEMMA PlanKept ==
    ASSUME Ground, NEW p, PlanBorn(p), PlanRises(p)
    PROVE  /\ \A d, e \in DOMAIN p : d < e =>
                 Less({b \in p[d].outs : kind'[b] = "collective"},
                      {b \in p[e].outs : kind'[b] = "collective"})
           /\ UNION {{b \in p[d].outs : kind'[b] = "collective"} : d \in DOMAIN p}
                 \subseteq EffectsInPlan(p)
           /\ \A d \in DOMAIN p : \A b \in p[d].outs : b \in Buffers /\ Born(b)'
<1>1. \A d \in DOMAIN p :
          {b \in p[d].outs : kind'[b] = "collective"} \subseteq CollectivesOf(p[d].outs)
  BY KindsKept DEF PlanBorn
<1>2. \A d, e \in DOMAIN p : d < e =>
          Less({b \in p[d].outs : kind'[b] = "collective"},
               {b \in p[e].outs : kind'[b] = "collective"})
  BY <1>1 DEF PlanRises, Less
<1>3. UNION {{b \in p[d].outs : kind'[b] = "collective"} : d \in DOMAIN p}
                 \subseteq EffectsInPlan(p)
  <2> SUFFICES ASSUME NEW d \in DOMAIN p, NEW b \in {x \in p[d].outs : kind'[x] = "collective"}
               PROVE  b \in EffectsInPlan(p)
    OBVIOUS
  <2>1. b \in CollectivesOf(p[d].outs)
    BY <1>1
  <2> QED BY <2>1 DEF EffectsInPlan
<1>4. \A d \in DOMAIN p : \A b \in p[d].outs : b \in Buffers /\ Born(b)'
  BY DEF PlanBorn, Ground, Moves, Grows
<1> QED BY <1>2, <1>3, <1>4

LEMMA ClimbsKept ==
    ASSUME Ground, NEW s, Climbs(s), Old(ToSet(s))
    PROVE  /\ \A i, j \in DOMAIN s : i < j => s[i] < s[j]
           /\ \A i \in DOMAIN s : kind'[s[i]] # "constant"
<1>1. \A i \in DOMAIN s : s[i] \in ToSet(s)
  BY DEF ToSet
<1>2. \A b \in ToSet(s) : ~IsConstant(b) => kind'[b] # "constant"
  BY KindsKept DEF Old
<1> QED BY <1>1, <1>2 DEF Climbs

LEMMA InLineSmaller ==
    ASSUME NEW A, NEW B, NEW C, NEW D, NEW Q, InLine(A, B, C, D, Q), NEW E, NEW F, NEW G,
           E \cup F \subseteq A \cup B, Less(E, F), G \subseteq D
    PROVE  InLine(E, F, C, G, Q)
<1>1. \A x \in E \cup F : x \in A \/ x \in B
  OBVIOUS
<1> QED BY <1>1 DEF InLine, Less

\* The execute thread and the dispatch threads add no effects to the queue.
Shrinks ==
    /\ TasksInOrder(execQ')
    /\ Less(ex'.task.effects, EffectsIn(execQ'))
    /\ ex'.task.effects \cup EffectsIn(execQ') \subseteq ex.task.effects \cup EffectsIn(execQ)

\* A step that leaves the materialize thread and the events alone.
LEMMA RiseKept ==
    ASSUME Ground, EffectsRise, RecordsNew, Shrinks, mat'.batch = mat.batch,
           mat'.plan = mat.plan, Queue' = Queue
    PROVE  EffectsRise'
<1> DEFINE A == ex.task.effects
           B == EffectsIn(execQ)
           C == EffectsIn(mat.batch)
           D == EffectsInPlan(mat.plan)
           Q == ToSet(Queue)
           E == ex'.task.effects
           F == EffectsIn(execQ')
           p == mat.plan
           G == UNION {{b \in p[d].outs : kind'[b] = "collective"} : d \in DOMAIN p}
<1>1. /\ InLine(A, B, C, D, Q) /\ Old(A) /\ Old(B) /\ Old(C) /\ Old(D) /\ Old(Q)
      /\ PlanBorn(p) /\ PlanRises(p) /\ Climbs(Queue) /\ TasksInOrder(mat.batch)
  BY DEF EffectsRise
<1>2. Old(E) /\ Old(F)
  BY <1>1 DEF Old, Shrinks
<1>3. G \subseteq D /\ Old(G)
  <2>1. G \subseteq D
    BY <1>1, PlanKept
  <2> QED BY <1>1, <2>1 DEF Old
<1>4. InLine(E, F, C, G, Q)
  <2>1. E \cup F \subseteq A \cup B /\ Less(E, F)
    BY DEF Shrinks
  <2> HIDE DEF A, B, C, D, E, F, G, Q
  <2> QED BY <1>1, <1>3, <2>1, InLineSmaller
<1>5. StillOld(E) /\ StillOld(F) /\ StillOld(C) /\ StillOld(G) /\ StillOld(Q)
  <2> HIDE DEF A, B, C, D, E, F, G, Q
  <2> QED BY <1>1, <1>2, <1>3, OldKept
<1>6. /\ ex'.task.effects = E /\ EffectsIn(execQ)' = F /\ EffectsIn(mat.batch)' = C
      /\ EffectsInPlan(mat.plan)' = G /\ ToSet(Queue)' = Q
  BY DEF EffectsIn, EffectsInPlan, CollectivesOf
<1>7. PlanRises(mat.plan)' /\ PlanBorn(mat.plan)'
  BY <1>1, PlanKept DEF PlanRises, PlanBorn, CollectivesOf
<1>8. Climbs(Queue)'
  BY <1>1, ClimbsKept DEF Climbs, IsConstant
<1>9. TasksInOrder(execQ)' /\ TasksInOrder(mat.batch)'
  BY <1>1 DEF Shrinks
<1> HIDE DEF A, B, C, D, E, F, G, Q
<1>10. /\ InLine(ex.task.effects, EffectsIn(execQ), EffectsIn(mat.batch),
                 EffectsInPlan(mat.plan), ToSet(Queue))'
       /\ Old(ex.task.effects)' /\ Old(EffectsIn(execQ))' /\ Old(EffectsIn(mat.batch))'
       /\ Old(EffectsInPlan(mat.plan))' /\ Old(ToSet(Queue))'
  BY <1>4, <1>5, <1>6 DEF Old, StillOld
<1> QED BY <1>7, <1>8, <1>9, <1>10 DEF EffectsRise

\* What dispatch threads do to the execution tasks and to what is recorded.
LEMMA DispatchWork ==
    ASSUME TypeInv, NEW t \in Threads, Begin(t) \/ Continue(t)
    PROVE  /\ ex' = ex
           /\ \/ execQ' = execQ
              \/ \E k \in ExecTask : execQ' = Append(execQ, k) /\ k.effects = {}
           /\ RecordsNew
<1> USE DEF workerVars, bufferVars
<1>0. /\ call \in [Threads -> CallType] /\ next \in Int
      /\ Idle.pc = "idle" /\ [Idle EXCEPT !.pc = "tensor", !.out = call[t].out].pc = "tensor"
  BY MaxBuffersAssumption DEF TypeInv, CallsType, TypeOK, BuffersTypeOK, Idle
<1>g. ASSUME NEW c, Go(t, c), c.pc # "record" \/ c.out = next
      PROVE  RecordsNew
  <2>1. \A u \in Threads : call'[u] = IF u = t THEN c ELSE call[u]
    BY <1>0, <1>g DEF Go
  <2> QED BY <1>0, <1>g, <2>1 DEF RecordsNew
<1>s. \A pc : [call[t] EXCEPT !.pc = pc].pc = pc
  BY <1>0 DEF CallType
<1>i. Idle \in CallType
  BY IdleType
<1>m. ASSUME NEW c \in CallType, NEW mode, NEW pc, Materialize(t, c, mode, pc), pc # "record"
      PROVE  RecordsNew
  <2>1. PICK d : Go(t, d) /\ d.pc \in {"idle", "wait", pc}
    BY <1>m, MaterializeGoes
  <2> QED BY <1>g, <1>m, <2>1
<1>1. CASE Begin(t)
  <2>1. ex' = ex /\ execQ' = execQ
    BY <1>1 DEF Begin, CreateOp, DropTensor, ReadTensor, SyncStream, ExecuteModel
  <2>2. ASSUME NEW k \in Kinds, NEW ins \in SUBSET Buffers, CreateOp(t, k, ins)
        PROVE  RecordsNew
    <3>1. [Idle EXCEPT !.pc = "record", !.out = next].out = next
      BY DEF Idle
    <3> QED BY <1>g, <2>2, <3>1 DEF CreateOp
  <2>3. ASSUME NEW b \in Buffers, DropTensor(t, b) PROVE RecordsNew
    BY <2>3 DEF DropTensor, RecordsNew
  <2>4. ASSUME NEW b \in Buffers, ReadTensor(t, b) PROVE RecordsNew
    <3>1. [Idle EXCEPT !.nodes = {b}, !.why = "read"] \in CallType
      BY DEF Idle, CallType, CallPCs, Purposes, NoBuffer
    <3> QED BY <1>m, <2>4, <3>1 DEF ReadTensor
  <2>5. ASSUME SyncStream(t) PROVE RecordsNew
    <3> DEFINE c == [Idle EXCEPT !.nodes = {b \in live : ~IsConstant(b)}, !.why = "sync"]
    <3>1. [c EXCEPT !.pc = "wait"].pc = "wait"
      BY DEF Idle
    <3>2. Go(t, Idle) \/ Go(t, [c EXCEPT !.pc = "wait"])
      BY <2>5 DEF SyncStream, Enqueue
    <3> HIDE DEF c
    <3> QED BY <1>0, <1>g, <3>1, <3>2
  <2>6. ASSUME NEW args \in SUBSET Buffers, ExecuteModel(t, args) PROVE RecordsNew
    <3>1. [Idle EXCEPT !.nodes = args, !.why = "execute"] \in CallType
      BY DEF Idle, CallType, CallPCs, Purposes, NoBuffer
    <3> QED BY <1>m, <2>6, <3>1 DEF ExecuteModel
  <2> QED BY <1>1, <2>1, <2>2, <2>3, <2>4, <2>5, <2>6 DEF Begin
<1>2. CASE PushExecutable(t)
  <2> DEFINE k == [kind |-> "task", args |-> call[t].nodes, outs |-> {call[t].out},
                   effects |-> {}, compiled |-> TRUE]
  <2>1. k \in ExecTask /\ k.effects = {}
    BY <1>0, <1>2 DEF ExecTask, PushExecutable, At, CallType
  <2>2. /\ ex' = ex
        /\ execQ' = execQ \/ execQ' = Append(execQ, k)
        /\ Go(t, Idle) \/ Go(t, [Idle EXCEPT !.pc = "tensor", !.out = call[t].out])
    BY <1>2 DEF PushExecutable, GoMakeTensor
  <2> HIDE DEF k
  <2> QED BY <1>0, <1>g, <2>1, <2>2
<1>3. CASE Continue(t) /\ ~PushExecutable(t)
  <2>1. ex' = ex /\ execQ' = execQ
    BY <1>3 DEF Continue, RecordOp, DispatchPlain, DispatchRepeated, MakeTensor, Resume,
                AwaitBuffers, CreateOutput
  <2>2. CASE DispatchRepeated(t)
    <3>1. CASE IsDeferred(call[t].out)
      <4>1. [call[t] EXCEPT !.nodes = {call[t].out}, !.why = "heuristic"] \in CallType
        BY <1>0, <2>2 DEF DispatchRepeated, At, CallType, Purposes
      <4> QED BY <1>m, <2>2, <3>1, <4>1 DEF DispatchRepeated
    <3>2. CASE ~IsDeferred(call[t].out)
      BY <2>1, <2>2, <3>2 DEF DispatchRepeated, RecordsNew
    <3> QED BY <2>1, <3>1, <3>2
  <2>3. CASE Resume(t)
    <3>1. \/ Go(t, Idle) \/ GoMakeTensor(t)
          \/ \E pc \in {"read", "create", "sync"} : Go(t, [call[t] EXCEPT !.pc = pc])
      BY <2>3 DEF Resume, Step
    <3> QED BY <1>0, <1>g, <1>s, <2>1, <3>1 DEF GoMakeTensor
  <2>4. CASE CreateOutput(t)
    <3>1. [call[t] EXCEPT !.pc = "push", !.out = next].pc = "push"
      BY <1>0 DEF CallType
    <3>2. Go(t, Idle) \/ Go(t, [call[t] EXCEPT !.pc = "push", !.out = next])
      BY <2>4 DEF CreateOutput
    <3> QED BY <1>0, <1>g, <2>1, <3>1, <3>2
  <2>5. CASE RecordOp(t) \/ DispatchPlain(t) \/ MakeTensor(t) \/ AwaitBuffers(t)
    BY <1>0, <1>g, <1>s, <2>1, <2>5
    DEF RecordOp, DispatchPlain, MakeTensor, AwaitBuffers, Step, GoMakeTensor
  <2> QED BY <1>3, <2>1, <2>2, <2>3, <2>4, <2>5 DEF Continue
<1> QED BY <1>1, <1>2, <1>3

\* A task without effects at the end of the queue.
LEMMA ShrinkAppend ==
    ASSUME TypeInv, EffectsRise, ex' = ex, NEW k \in ExecTask, k.effects = {},
           execQ' = Append(execQ, k)
    PROVE  Shrinks
<1>1. execQ \in Seq(ExecTask) /\ TasksInOrder(execQ) /\ Less(EffectsIn(execQ), k.effects)
  BY DEF TypeInv, TypeOK, EffectsRise, Less
<1>2. Holds(execQ', EffectsIn(execQ) \cup k.effects)
  BY <1>1, EffectsAppend
<1>3. TasksInOrder(execQ') /\ EffectsIn(execQ') = EffectsIn(execQ)
  BY <1>2 DEF Holds
<1> QED BY <1>3 DEF Shrinks, EffectsRise, InLine

LEMMA ShrinkSame ==
    ASSUME EffectsRise, execQ' = execQ, ex'.task.effects \subseteq ex.task.effects
    PROVE  Shrinks
BY DEF Shrinks, EffectsRise, InLine, Less

LEMMA ShrinkTail ==
    ASSUME TypeInv, EffectsRise, execQ # <<>>, execQ' = Tail(execQ),
           ex'.task = ex.task \/ ex'.task = Head(execQ)
    PROVE  Shrinks
<1>1. execQ \in Seq(ExecTask) /\ TasksInOrder(execQ) /\ Less(ex.task.effects, EffectsIn(execQ))
  BY DEF TypeInv, TypeOK, EffectsRise, InLine
<1>2. /\ Head(execQ).effects \subseteq EffectsIn(execQ)
      /\ EffectsIn(execQ') \subseteq EffectsIn(execQ)
      /\ Less(Head(execQ).effects, EffectsIn(execQ'))
      /\ TasksInOrder(execQ')
  BY <1>1, EffectsTail
<1>3. Less(ex.task.effects, EffectsIn(execQ'))
  BY <1>1, <1>2 DEF Less
<1> QED BY <1>2, <1>3 DEF Shrinks

LEMMA ShrinkEmpty ==
    ASSUME EffectsRise, ex' = ex, execQ' = <<>>
    PROVE  Shrinks
BY DEF Shrinks, TasksInOrder, EffectsIn, Less

LEMMA AsideShrinks ==
    ASSUME TypeInv, EffectsRise, ExecuteLoop \/ ShutDown \/ ContinueShutDown \/ UNCHANGED programVars
    PROVE  Shrinks
<1> USE DEF workerVars, CloserStep
<1>0. ex \in [pc: {"idle", "run", "stopped"}, task: ExecTask] /\ NoExecTask.effects = {}
  BY DEF TypeInv, TypeOK, NoExecTask
<1>1. CASE DequeueExecutionTask
  BY <1>0, <1>1, ShrinkTail DEF DequeueExecutionTask
<1>2. CASE RunTask \/ FailTask
  <2>1. PICK S, s : Settles(S, s)
    BY <1>2, TaskSettles DEF ExType, TypeInv, TypeOK
  <2> QED BY <2>1, ShrinkSame DEF Settles
<1>3. CASE PushExecuteSentinel
  <2>1. ExecSentinel \in ExecTask /\ ExecSentinel.effects = {}
    BY DEF ExecSentinel, NoExecTask, ExecTask
  <2> QED BY <1>3, <2>1, ShrinkAppend DEF PushExecuteSentinel
<1>4. CASE FailRemainingExecutionTasks
  BY <1>4, ShrinkEmpty DEF FailRemainingExecutionTasks
<1>5. CASE \/ ShutDown \/ PushMaterializeSentinel \/ JoinMaterializeThread
           \/ FailRemainingMaterializationTasks \/ JoinExecuteThread
  BY <1>5, ShrinkSame
  DEF ShutDown, PushMaterializeSentinel, JoinMaterializeThread,
      FailRemainingMaterializationTasks, JoinExecuteThread
<1>6. CASE UNCHANGED programVars
  BY <1>6, ShrinkSame DEF programVars
<1> QED BY <1>1, <1>2, <1>3, <1>4, <1>5, <1>6 DEF ExecuteLoop, ContinueShutDown

(***************************************************************************)
(* The steps.                                                              *)
(***************************************************************************)
LEMMA QueueParts ==
    ASSUME TypeInv
    PROVE  /\ mat.events \in Seq(Buffers) /\ deferredOps \in Seq(Buffers)
           /\ Queue \in Seq(Buffers)
           /\ ToSet(Queue) = ToSet(mat.events) \cup ToSet(deferredOps)
           /\ mat.events = <<>> => Queue = deferredOps
<1>1. mat.events \in Seq(Buffers) /\ deferredOps \in Seq(Buffers)
  BY DEF TypeInv, TypeOK, QueueTypeOK
<1>2. mat.events = <<>> => Queue = deferredOps
  BY <1>1, ConcatEmptySeq DEF Queue
<1> QED BY <1>1, <1>2, ToSetConcat, ConcatProperties DEF Queue

LEMMA DispatchRises ==
    ASSUME Ground, EffectsInv, NEW t \in Threads, Begin(t) \/ Continue(t)
    PROVE  EffectsInv'
<1>0. TypeInv /\ TypeInv' /\ Life /\ CallHasTask /\ Fresh /\ Refer /\ Callers /\ Outsiders
  BY DEF Ground, Context, ServedInv, Tracking, Callers
<1>1. PICK c : Dispatches(t, c)
  BY <1>0, BeginDispatches, ContinueDispatches
<1>2. /\ mat' = mat /\ deploy' = deploy /\ RecordStep(t, c)
  BY <1>1 DEF Dispatches
<1>3. /\ ex' = ex /\ RecordsNew
      /\ \/ execQ' = execQ
         \/ \E k \in ExecTask : execQ' = Append(execQ, k) /\ k.effects = {}
  BY <1>0, DispatchWork
<1>4. Solo' = Solo
  BY <1>2 DEF Solo
<1> SUFFICES ASSUME Solo PROVE EffectsRise'
  BY <1>2, <1>4 DEF EffectsInv
<1>5. EffectsRise
  BY DEF EffectsInv
<1>6. Shrinks
  BY <1>0, <1>3, <1>5, ShrinkSame, ShrinkAppend
<1>7. CASE deferredOps' = deferredOps
  BY <1>2, <1>3, <1>5, <1>6, <1>7, RiseKept DEF Queue
<1>8. CASE call[t].pc = "record" /\ deferredOps' # deferredOps
  <2> DEFINE b == call[t].out
  <2>1. /\ deferredOps' = Append(deferredOps, b) /\ ~IsConstant(b) /\ IsDeferred(b)
    BY <1>2, <1>8 DEF RecordStep, RecordDeferredOpCreated
  <2>2. b \in Buffers /\ Born(b) /\ b < next
    <3>1. b \in Buffers /\ Born(b)
      BY <1>0, <1>8, <2>1 DEF TypeInv, CallsType, CallType, IsDeferred, Born
    <3> QED BY <3>1, BornBelow DEF Ground
  <2>3. mat.pc \in {"idle", "stopped"}
    <3>1. t \in deploy.threads /\ ~Waits(t)
      BY <1>0, <1>8 DEF Outsiders, Waits
    <3> QED BY <1>0, <3>1, SoloRest
  <2>4. mat.events = <<>> /\ mat.plan = <<>> /\ mat.batch = <<>>
    BY <1>0, <2>3 DEF EffectsInv, Life, Shapes
  <2>5. Queue = deferredOps /\ Queue' = Append(Queue, b) /\ Queue \in Seq(Buffers)
    <3>1. Queue = deferredOps /\ Queue \in Seq(Buffers)
      BY <1>0, <2>4, QueueParts
    <3>2. mat'.events = <<>> => Queue' = deferredOps'
      BY <1>0, ConcatEmptySeq DEF Queue, TypeInv, TypeOK, QueueTypeOK
    <3> QED BY <1>2, <2>1, <2>4, <3>1, <3>2
  <2>6. Climbs(Queue) /\ Less(ToSet(Queue), {b}) /\ Old(ToSet(Queue))
    BY <1>5, <1>8 DEF EffectsRise, Old, Less
  <2>7. Climbs(Queue') /\ ToSet(Queue') = ToSet(Queue) \cup {b}
    BY <2>1, <2>2, <2>5, <2>6, ClimbsAppend, ToSetAppend
  <2>8. kind' = kind /\ \A u \in Threads : call'[u].pc # "record"
    <3>1. RecordOp(t)
      BY <1>8
      DEF Begin, CreateOp, DropTensor, ReadTensor, SyncStream, ExecuteModel, Continue,
          DispatchPlain, DispatchRepeated, MakeTensor, Resume, AwaitBuffers, CreateOutput,
          PushExecutable, At
    <3>2. \A u \in Threads :
              call'[u] = IF u = t THEN [call[t] EXCEPT !.pc = "dispatch"] ELSE call[u]
      BY <1>0, <3>1 DEF RecordOp, Step, Go, TypeInv, CallsType
    <3>3. [call[t] EXCEPT !.pc = "dispatch"].pc = "dispatch"
      BY <1>0 DEF TypeInv, CallsType, CallType
    <3>4. \A u \in Threads \ {t} : call[u].pc = "idle"
      BY <1>0, <1>8 DEF Solo, Outsiders
    <3> QED BY <3>1, <3>2, <3>3, <3>4 DEF RecordOp, bufferVars
  <2> DEFINE A == ex.task.effects
             B == EffectsIn(execQ)
             Q == ToSet(Queue)
             E == ex'.task.effects
             F == EffectsIn(execQ')
             R == ToSet(Queue')
  <2>9. /\ Less(A, Q) /\ Less(B, Q) /\ Old(A) /\ Old(B)
        /\ Less(E, F) /\ E \cup F \subseteq A \cup B /\ TasksInOrder(execQ')
    BY <1>5, <1>6 DEF EffectsRise, InLine, Shrinks
  <2> HIDE DEF A, B, Q, E, F, R
  <2>10. \A x \in E \cup F : x \in A \/ x \in B
    BY <2>9
  <2>11. \A x \in E \cup F : x < b /\ (\A y \in Q : x < y) /\ x \in Buffers /\ Born(x)
    BY <1>8, <2>9, <2>10 DEF Old, Less
  <2>12. Less(E, R) /\ Less(F, R)
    BY <2>7, <2>11 DEF Less, Q, R
  <2>13. \A x \in E \cup F \cup R : x \in Buffers /\ Born(x)'
    <3>1. \A x \in E \cup F \cup R : x \in Buffers /\ Born(x)
      BY <2>2, <2>6, <2>7, <2>11 DEF Old, R
    <3> QED BY <3>1 DEF Ground, Moves, Grows
  <2>14. StillOld(E) /\ StillOld(F) /\ StillOld(R)
    BY <2>8, <2>13 DEF StillOld
  <2>15. mat'.plan = <<>> /\ mat'.batch = <<>> /\ DOMAIN <<>> = {}
    BY <1>2, <2>4
  <2>16. EffectsInPlan(mat.plan)' = {} /\ EffectsIn(mat.batch)' = {}
    BY <2>15 DEF EffectsInPlan, EffectsIn
  <2>17. PlanRises(mat.plan)' /\ PlanBorn(mat.plan)' /\ TasksInOrder(mat.batch)'
    BY <2>15 DEF PlanRises, PlanBorn, TasksInOrder
  <2>18. Climbs(Queue)'
    BY <2>7, <2>8 DEF Climbs, IsConstant
  <2>19. /\ InLine(ex.task.effects, EffectsIn(execQ), EffectsIn(mat.batch),
                 EffectsInPlan(mat.plan), ToSet(Queue))'
         /\ Old(ex.task.effects)' /\ Old(EffectsIn(execQ))' /\ Old(EffectsIn(mat.batch))'
         /\ Old(EffectsInPlan(mat.plan))' /\ Old(ToSet(Queue))'
    BY <2>9, <2>12, <2>14, <2>16 DEF Old, StillOld, InLine, Less, E, F, R
  <2> QED BY <2>9, <2>17, <2>18, <2>19 DEF EffectsRise
<1> QED BY <1>2, <1>7, <1>8 DEF RecordStep

LEMMA AsideRises ==
    ASSUME Ground, EffectsInv, ExecuteLoop \/ ShutDown \/ ContinueShutDown \/ UNCHANGED programVars
    PROVE  EffectsInv'
<1>1. UNCHANGED <<call, mat, deferredOps, deploy>>
  BY AsideSteps DEF Ground, Aside
<1>2. Solo' = Solo /\ RecordsNew /\ Queue' = Queue
  BY <1>1 DEF Solo, RecordsNew, Queue
<1>3. Solo => EffectsRise'
  <2> SUFFICES ASSUME Solo PROVE EffectsRise'
    OBVIOUS
  <2>1. EffectsRise
    BY DEF EffectsInv
  <2>2. Shrinks
    BY <2>1, AsideShrinks DEF Ground, Context
  <2> QED BY <1>1, <1>2, <2>1, <2>2, RiseKept
<1> QED BY <1>1, <1>2, <1>3 DEF EffectsInv

\* The events of a task are taken from the front of the queue.
LEMMA DequeueEvents ==
    ASSUME Ground, EffectsInv, DequeueMaterializationTask
    PROVE  /\ mat'.plan = mat.plan /\ mat'.batch = mat.batch /\ Queue' = Queue
           /\ mat.pc = "idle" /\ mat.plan = <<>>
           /\ mat'.pc # "prepare" => mat'.events = <<>>
           /\ mat'.pc # "build"
<1> DEFINE task == Head(matQ)
           wanted == {b \in task.nodes : IsDeferred(b)}
           take == IF task.kind = "stream" THEN TakeAll ELSE TakeUntilNodes(wanted)
           pc == IF task.kind = "nodes" /\ wanted = {} THEN "publish" ELSE "prepare"
<1>0. /\ TypeInv /\ QueueTypeOK /\ MatType /\ mat.pc = "idle" /\ matQ \in Seq(MatTask)
      /\ matQ # <<>> /\ deferredOps \in Seq(Buffers)
  BY DEF Ground, Context, TypeInv, TypeOK, QueueTypeOK, MatType, DequeueMaterializationTask
<1>1. mat.events = <<>> /\ mat.plan = <<>> /\ Queue = deferredOps
  BY <1>0, QueueParts DEF EffectsInv
<1>2. /\ mat'.plan = mat.plan /\ mat'.batch = mat.batch /\ Queue' = Queue
      /\ mat'.pc # "prepare" => mat'.events = <<>>
      /\ mat'.pc # "build"
  <2>1. CASE task.kind = "sentinel"
    <3>1. mat' = [mat EXCEPT !.pc = "stopped"] /\ deferredOps' = deferredOps
      BY <2>1 DEF DequeueMaterializationTask
    <3>2. /\ mat'.plan = mat.plan /\ mat'.batch = mat.batch /\ mat'.events = mat.events
          /\ mat'.pc = "stopped"
      BY <1>0, <3>1 DEF MatType
    <3> QED BY <1>1, <3>1, <3>2 DEF Queue
  <2>2. CASE task.kind # "sentinel"
    <3>1. /\ mat' = [mat EXCEPT !.pc = pc, !.task = task, !.events = take.taken]
          /\ deferredOps' = take.rest
      BY <2>2 DEF DequeueMaterializationTask
    <3>2. /\ mat'.plan = mat.plan /\ mat'.batch = mat.batch /\ mat'.events = take.taken
          /\ mat'.pc = pc
      BY <1>0, <3>1 DEF MatType
    <3>3. take.taken \o take.rest = deferredOps /\ (pc = "publish" => take.taken = <<>>)
      <4>1. CASE task.kind = "stream"
        BY <1>0, <4>1, ConcatEmptySeq DEF TakeAll
      <4>2. CASE task.kind # "stream"
        <5>1. take = TakeUntilNodes(wanted)
          BY <4>2
        <5> HIDE DEF wanted
        <5>2. LET taken == TakeUntilNodes(wanted).taken
                  rest == TakeUntilNodes(wanted).rest
              IN  /\ taken \o rest = deferredOps
                  /\ wanted \cap ToSet(deferredOps) = {} => taken = <<>>
          BY <1>0, TakenIsPrefix
        <5> QED BY <5>1, <5>2
      <4> QED BY <4>1, <4>2
    <3>4. pc \in {"publish", "prepare"}
      OBVIOUS
    <3> HIDE DEF take, pc, wanted, task
    <3>5. Queue' = Queue
      BY <1>1, <3>1, <3>2, <3>3 DEF Queue
    <3> QED BY <3>2, <3>3, <3>4, <3>5
  <2> QED BY <2>1, <2>2
<1> QED BY <1>0, <1>1, <1>2

\* Taking events, or nothing, and answering.
LEMMA DequeueRises ==
    ASSUME Ground, EffectsInv, DequeueMaterializationTask
    PROVE  EffectsInv'
<1>1. UNCHANGED <<call, deploy, execQ, ex>>
  BY DEF DequeueMaterializationTask
<1>2. Solo' = Solo /\ RecordsNew
  BY <1>1 DEF Solo, RecordsNew
<1>3. Solo => EffectsRise'
  <2> SUFFICES ASSUME Solo PROVE EffectsRise'
    OBVIOUS
  <2>1. EffectsRise
    BY DEF EffectsInv
  <2> QED BY <1>1, <1>2, <2>1, DequeueEvents, ShrinkSame, RiseKept
<1> QED BY <1>2, <1>3, DequeueEvents DEF EffectsInv

LEMMA AnswerRises ==
    ASSUME Ground, EffectsInv, AbortTraversal \/ AnswerTask
    PROVE  EffectsInv'
<1> USE DEF workerVars, queueVars
<1>0. /\ MatType /\ call \in [Threads -> CallType]
      /\ UNCHANGED <<deploy, deferredOps, execQ, ex>>
  BY DEF Ground, Context, TypeInv, TypeOK, CallsType, MatType, AbortTraversal, AnswerTask
<1>1. /\ mat'.plan = mat.plan /\ mat'.batch = mat.batch /\ mat'.events = mat.events
      /\ mat'.pc = mat.pc \/ (mat.pc = "answer" /\ mat'.pc = "idle")
  BY <1>0 DEF AbortTraversal, AnswerTask, MatType
<1>2. RecordsNew
  <2>1. CASE AbortTraversal
    BY <2>1 DEF AbortTraversal, RecordsNew
  <2>2. CASE AnswerTask
    <3>1. \E t, ok, nodes : Answer(t, ok, nodes)
      BY <2>2 DEF AnswerTask
    <3>2. \A u \in Threads : call'[u] = call[u] \/ call'[u].pc = "answered"
      BY <1>0, <3>1 DEF Answer, CallType
    <3> QED BY <3>2 DEF RecordsNew
  <2> QED BY <2>1, <2>2
<1>3. Solo' = Solo /\ Queue' = Queue
  BY <1>0, <1>1 DEF Solo, Queue
<1>4. Solo => EffectsRise'
  <2> SUFFICES ASSUME Solo PROVE EffectsRise'
    OBVIOUS
  <2>1. EffectsRise
    BY DEF EffectsInv
  <2> QED BY <1>0, <1>1, <1>2, <1>3, <2>1, ShrinkSame, RiseKept
<1> QED BY <1>1, <1>3, <1>4 DEF EffectsInv

\* The tasks that were built join the queue.
LEMMA PublishRises ==
    ASSUME Ground, EffectsInv, PublishTasks
    PROVE  EffectsInv'
<1> USE DEF workerVars, queueVars, bufferVars
<1>0. /\ MatType /\ mat.pc = "publish" /\ execQ \in Seq(ExecTask) /\ mat.batch \in Seq(ExecTask)
      /\ UNCHANGED <<deploy, call, deferredOps, ex, kind, state>> /\ execQ' = execQ \o mat.batch
  BY DEF Ground, Context, TypeInv, TypeOK, MatType, PublishTasks
<1>1. /\ mat'.plan = mat.plan /\ mat'.batch = <<>> /\ mat'.events = mat.events
      /\ mat'.pc = "answer"
  BY <1>0 DEF PublishTasks, MatType
<1>2. Solo' = Solo /\ Queue' = Queue
  BY <1>0, <1>1 DEF Solo, Queue
<1>3. Solo => EffectsRise'
  <2> SUFFICES ASSUME Solo PROVE EffectsRise'
    OBVIOUS
  <2> DEFINE A == ex.task.effects
             B == EffectsIn(execQ)
             C == EffectsIn(mat.batch)
             D == EffectsInPlan(mat.plan)
             Q == ToSet(Queue)
  <2>1. /\ InLine(A, B, C, D, Q) /\ Old(A) /\ Old(B) /\ Old(C) /\ Old(D) /\ Old(Q)
        /\ PlanBorn(mat.plan) /\ PlanRises(mat.plan) /\ Climbs(Queue)
        /\ TasksInOrder(execQ) /\ TasksInOrder(mat.batch)
    BY DEF EffectsInv, EffectsRise
  <2>2. TasksInOrder(execQ') /\ EffectsIn(execQ') = B \cup C
    <3>1. Less(EffectsIn(execQ), EffectsIn(mat.batch))
      BY <2>1 DEF InLine
    <3> QED BY <1>0, <2>1, <3>1, EffectsConcat DEF Holds
  <2>3. TasksInOrder(mat.batch)' /\ EffectsIn(mat.batch)' = {}
    BY <1>1 DEF TasksInOrder, EffectsIn
  <2>4. /\ EffectsInPlan(mat.plan)' = D /\ PlanRises(mat.plan)' /\ PlanBorn(mat.plan)'
        /\ Climbs(Queue)' /\ ToSet(Queue)' = Q /\ ex'.task.effects = A
    BY <1>0, <1>1, <1>2, <2>1
    DEF EffectsInPlan, CollectivesOf, PlanRises, PlanBorn, Climbs, IsConstant, Born
  <2> HIDE DEF A, B, C, D, Q
  <2>5. InLine(A, B \cup C, {}, D, Q) /\ Old(B \cup C)
    BY <2>1 DEF InLine, Less, Old
  <2>6. StillOld(A) /\ StillOld(B \cup C) /\ StillOld({}) /\ StillOld(D) /\ StillOld(Q)
    BY <1>0, <2>1, <2>5 DEF Old, StillOld, Born
  <2>7. /\ InLine(ex.task.effects, EffectsIn(execQ), EffectsIn(mat.batch),
                  EffectsInPlan(mat.plan), ToSet(Queue))'
        /\ Old(ex.task.effects)' /\ Old(EffectsIn(execQ))' /\ Old(EffectsIn(mat.batch))'
        /\ Old(EffectsInPlan(mat.plan))' /\ Old(ToSet(Queue))'
    BY <2>2, <2>3, <2>4, <2>5, <2>6 DEF Old, StillOld
  <2> QED BY <2>2, <2>3, <2>4, <2>7 DEF EffectsRise
<1> QED BY <1>0, <1>1, <1>2, <1>3 DEF EffectsInv

\* A plan without its first traversal.
LEMMA PlanTail ==
    ASSUME NEW p \in Seq(Traversals), p # <<>>, PlanRises(p), PlanBorn(p)
    PROVE  /\ PlanRises(Tail(p)) /\ PlanBorn(Tail(p))
           /\ EffectsInPlan(Tail(p)) \subseteq EffectsInPlan(p)
           /\ CollectivesOf(Head(p).outs) \subseteq EffectsInPlan(p)
           /\ Less(CollectivesOf(Head(p).outs), EffectsInPlan(Tail(p)))
<1> DEFINE r == Tail(p)
<1>1. /\ \A i \in DOMAIN r : i + 1 \in DOMAIN p /\ r[i] = p[i + 1] /\ i \in Nat \ {0}
      /\ 1 \in DOMAIN p /\ Head(p) = p[1]
  OBVIOUS
<1> HIDE DEF r
<1>2. PlanRises(r)
  <2> SUFFICES ASSUME NEW i \in DOMAIN r, NEW j \in DOMAIN r, i < j
               PROVE  Less(CollectivesOf(r[i].outs), CollectivesOf(r[j].outs))
    BY DEF PlanRises
  <2>1. i + 1 < j + 1
    BY <1>1
  <2> QED BY <1>1, <2>1 DEF PlanRises
<1>3. PlanBorn(r)
  BY <1>1 DEF PlanBorn
<1>4. EffectsInPlan(r) \subseteq EffectsInPlan(p)
  <2> SUFFICES ASSUME NEW b, NEW i \in DOMAIN r, b \in CollectivesOf(r[i].outs)
               PROVE  b \in EffectsInPlan(p)
    BY DEF EffectsInPlan
  <2> QED BY <1>1 DEF EffectsInPlan
<1>5. CollectivesOf(Head(p).outs) \subseteq EffectsInPlan(p)
  BY <1>1 DEF EffectsInPlan
<1>6. Less(CollectivesOf(Head(p).outs), EffectsInPlan(r))
  <2> SUFFICES ASSUME NEW a \in CollectivesOf(Head(p).outs), NEW i \in DOMAIN r,
                      NEW b \in CollectivesOf(r[i].outs)
               PROVE  a < b
    BY DEF Less, EffectsInPlan
  <2>1. /\ i + 1 \in DOMAIN p /\ 1 < i + 1 /\ b \in CollectivesOf(p[i + 1].outs)
        /\ a \in CollectivesOf(p[1].outs)
    BY <1>1
  <2> QED BY <1>1, <2>1 DEF PlanRises, Less
<1> QED BY <1>2, <1>3, <1>4, <1>5, <1>6 DEF r

\* The first traversal of the plan becomes the last task, or is given up.
LEMMA BuildRises ==
    ASSUME Ground, EffectsInv, BuildTask \/ FailTraversal
    PROVE  EffectsInv'
<1> USE DEF workerVars, queueVars, bufferVars
<1> DEFINE k == [kind |-> "task", args |-> Arguments, outs |-> Outputs,
                 effects |-> CollectivesOf(Outputs), compiled |-> FALSE]
           p == mat.plan
           r == Tail(p)
<1>0. /\ TypeInv /\ MatType /\ mat.pc = "build" /\ mat.batch \in Seq(ExecTask)
      /\ UNCHANGED <<deploy, call, deferredOps, execQ, ex>>
      /\ p \in Seq(Traversals) /\ p # <<>>
  BY DEF Ground, Context, TypeInv, TypeOK, MatType, BuildTask, FailTraversal, Tracking, PlanTyped
<1>1. /\ mat'.plan = r /\ mat'.events = mat.events
      /\ mat'.pc = IF Len(p) = 1 THEN "publish" ELSE "build"
      /\ mat'.batch = mat.batch \/ mat'.batch = Append(mat.batch, k)
  BY <1>0 DEF BuildTask, FailTraversal, Built, MatType
<1>2. Solo' = Solo /\ Queue' = Queue /\ RecordsNew
  BY <1>0, <1>1 DEF Solo, Queue, RecordsNew
<1>3. mat'.pc # "build" => mat'.plan = <<>>
  <2>1. r \in Seq(Traversals) /\ Len(r) = Len(p) - 1
    BY <1>0, HeadTailProperties
  <2>2. Len(p) = 1 => Len(r) = 0
    BY <2>1
  <2>3. Len(r) = 0 => r = <<>>
    BY <2>1, EmptySeq
  <2> QED BY <1>1, <2>2, <2>3
<1>4. k \in ExecTask /\ k.effects = CollectivesOf(Outputs)
  BY DEF ExecTask, Outputs, Nodes, Arguments, CollectivesOf
<1>5. CollectivesOf(Outputs) \subseteq CollectivesOf(Head(p).outs)
  BY DEF Outputs, CollectivesOf
<1> HIDE DEF k
<1>6. Solo => EffectsRise'
  <2> SUFFICES ASSUME Solo PROVE EffectsRise'
    OBVIOUS
  <2> DEFINE A == ex.task.effects
             B == EffectsIn(execQ)
             C == EffectsIn(mat.batch)
             D == EffectsInPlan(p)
             Q == ToSet(Queue)
             H == EffectsIn(mat'.batch)
             K == EffectsInPlan(r)
             G == UNION {{b \in r[d].outs : kind'[b] = "collective"} : d \in DOMAIN r}
  <2>1. /\ InLine(A, B, C, D, Q) /\ Old(A) /\ Old(B) /\ Old(C) /\ Old(D) /\ Old(Q)
        /\ PlanBorn(p) /\ PlanRises(p) /\ Climbs(Queue)
        /\ TasksInOrder(execQ) /\ TasksInOrder(mat.batch)
    BY DEF EffectsInv, EffectsRise
  <2>2. /\ PlanRises(r) /\ PlanBorn(r) /\ K \subseteq D
        /\ CollectivesOf(Head(p).outs) \subseteq D
        /\ Less(CollectivesOf(Head(p).outs), K)
    BY <1>0, <2>1, PlanTail
  <2>3. G \subseteq K
    BY <2>2, PlanKept
  <2>4. /\ TasksInOrder(mat'.batch)
        /\ H = C \/ H = C \cup CollectivesOf(Outputs)
    <3>1. CASE mat'.batch = mat.batch
      BY <2>1, <3>1
    <3>2. CASE mat'.batch = Append(mat.batch, k)
      <4>1. Less(C, k.effects)
        BY <1>4, <1>5, <2>1, <2>2 DEF InLine, Less
      <4> QED BY <1>0, <1>4, <2>1, <3>2, <4>1, EffectsAppend DEF Holds
    <3> QED BY <1>1, <3>1, <3>2
  <2>5. /\ EffectsInPlan(mat.plan)' = G /\ PlanRises(mat.plan)' /\ PlanBorn(mat.plan)'
    BY <1>1, <2>2, PlanKept DEF EffectsInPlan, CollectivesOf, PlanRises, PlanBorn
  <2>6. Climbs(Queue)'
    BY <1>2, <2>1, ClimbsKept DEF Climbs, IsConstant
  <2>7. /\ ToSet(Queue)' = Q /\ ex'.task.effects = A /\ EffectsIn(execQ)' = B
        /\ EffectsIn(mat.batch)' = H
    BY <1>0, <1>2 DEF EffectsIn
  <2>8. H \subseteq C \cup CollectivesOf(Head(p).outs)
    BY <1>5, <2>4
  <2> DEFINE J == CollectivesOf(Head(p).outs)
  <2> HIDE DEF A, B, C, D, G, H, J, K, Q
  <2>9. J \subseteq D /\ Less(J, K) /\ H \subseteq C \cup J /\ G \subseteq K /\ K \subseteq D
    BY <2>2, <2>3, <2>8 DEF J
  <2>10. \A x \in H : x \in C \/ x \in J
    BY <2>9
  <2>11. \A x \in G : x \in K /\ x \in D
    BY <2>9
  <2>12. \A x \in J : x \in D
    BY <2>9
  <2>13. InLine(A, B, H, G, Q)
    BY <2>1, <2>9, <2>10, <2>11, <2>12 DEF InLine, Less
  <2>14. Old(H) /\ Old(G)
    BY <2>1, <2>10, <2>11, <2>12 DEF Old
  <2>15. StillOld(A) /\ StillOld(B) /\ StillOld(H) /\ StillOld(G) /\ StillOld(Q)
    BY <1>2, <2>1, <2>14, OldKept
  <2>16. /\ InLine(ex.task.effects, EffectsIn(execQ), EffectsIn(mat.batch),
                   EffectsInPlan(mat.plan), ToSet(Queue))'
         /\ Old(ex.task.effects)' /\ Old(EffectsIn(execQ))' /\ Old(EffectsIn(mat.batch))'
         /\ Old(EffectsInPlan(mat.plan))' /\ Old(ToSet(Queue))'
    BY <2>5, <2>7, <2>13, <2>15 DEF Old, StillOld
  <2>17. TasksInOrder(execQ)' /\ TasksInOrder(mat.batch)'
    BY <1>0, <2>1, <2>4
  <2> QED BY <2>5, <2>6, <2>16, <2>17 DEF EffectsRise
<1> QED BY <1>0, <1>1, <1>2, <1>3, <1>6 DEF EffectsInv

\* The plan holds the collectives of the events, in their order.
LEMMA PrepareRises ==
    ASSUME Ground, EffectsInv, Prepare
    PROVE  EffectsInv'
<1> USE DEF workerVars, queueVars, bufferVars
<1> DEFINE T == PrepareTraversals(mat.events, mat.task.nodes, Held)
           plan == Plan(T, mat.task.mode)
           ev == mat.events
<1>0. /\ TypeInv /\ BuffersTypeOK /\ MatType /\ mat.pc = "prepare"
      /\ UNCHANGED <<kind, state, call, deferredOps, execQ, ex, deploy>>
      /\ ev \in Seq(Buffers) /\ deferredOps \in Seq(Buffers)
      /\ mat.task.nodes \in SUBSET Buffers
  BY DEF Ground, Context, TypeInv, TypeOK, QueueTypeOK, MatType, Prepare, MatTask
<1>1. /\ mat'.plan = plan /\ mat'.batch = mat.batch /\ mat'.events = <<>>
      /\ mat'.pc = IF plan = <<>> THEN "publish" ELSE "build"
  BY <1>0 DEF Prepare, MatType, Plan
<1>2. Solo' = Solo /\ Queue' = deferredOps
  BY <1>0, <1>1, ConcatEmptySeq DEF Solo, Queue
<1>3. Solo => EffectsRise'
  <2> SUFFICES ASSUME Solo PROVE EffectsRise'
    OBVIOUS
  <2> DEFINE A == ex.task.effects
             B == EffectsIn(execQ)
             C == EffectsIn(mat.batch)
             Q == ToSet(Queue)
             G == EffectsInPlan(plan)
             R == ToSet(deferredOps)
  <2>1. /\ Less(A, B) /\ Less(A, C) /\ Less(A, Q) /\ Less(B, C) /\ Less(B, Q) /\ Less(C, Q)
        /\ Old(A) /\ Old(B) /\ Old(C) /\ Old(Q)
        /\ Climbs(Queue) /\ TasksInOrder(execQ) /\ TasksInOrder(mat.batch)
    BY DEF EffectsInv, EffectsRise, InLine
  <2>2. Climbs(ev) /\ Climbs(deferredOps) /\ Less(ToSet(ev), R) /\ Q = ToSet(ev) \cup R
    BY <1>0, <2>1, ClimbsConcat, QueueParts DEF Queue
  <2>3. ReadEarlier
    BY DEF Ground, Tracking, Refer, InputsBorn, ReadEarlier
  <2>4. T \in Seq(Traversals) /\ \A d \in DOMAIN T : Whole(T[d])
    BY <1>0, PreparedCovers
  <2>5. Ordered(T) /\ MadeFrom(T, ev)
    BY <1>0, <2>2, <2>3, PreparedInOrder
  <2> HIDE DEF T
  <2>6. /\ plan \in Seq(Traversals) /\ \A d \in DOMAIN plan : Whole(plan[d])
        /\ MadeFrom(plan, ev)
        /\ \A d, e \in DOMAIN plan : d < e => Ahead(plan[d].order, plan[e].order)
    BY <1>0, <2>4, <2>5, PlanCovers, PlanInOrder
  <2> HIDE DEF plan
  <2>7. \A d \in DOMAIN plan : plan[d].outs \subseteq ToSet(plan[d].order)
    BY <2>6 DEF Whole
  <2>8. \A d \in DOMAIN plan : \A b \in CollectivesOf(plan[d].outs) :
            /\ b \in ToSet(plan[d].order) /\ ~IsConstant(b) /\ b \in ToSet(ev)
    BY <2>6, <2>7 DEF CollectivesOf, IsConstant, MadeFrom
  <2>9. PlanRises(plan)
    BY <2>6, <2>8 DEF PlanRises, Less, Ahead
  <2>10. PlanBorn(plan)
    <3>1. \A d \in DOMAIN plan : plan[d] \in Traversals
      BY <2>6
    <3>2. \A d \in DOMAIN plan : plan[d].outs \subseteq Buffers
      BY <3>1 DEF Traversals
    <3>3. \A d \in DOMAIN plan : \A b \in plan[d].outs : IsDeferred(b)
      BY <2>6, <2>7 DEF MadeFrom
    <3> QED BY <3>2, <3>3 DEF PlanBorn, IsDeferred, Born
  <2>11. G \subseteq ToSet(ev)
    <3> SUFFICES ASSUME NEW d \in DOMAIN plan, NEW b \in CollectivesOf(plan[d].outs)
                 PROVE  b \in ToSet(ev)
      BY DEF EffectsInPlan
    <3> QED BY <2>8
  <2>12. /\ EffectsInPlan(mat.plan)' = G /\ PlanRises(mat.plan)' /\ PlanBorn(mat.plan)'
         /\ Climbs(Queue)' /\ ToSet(Queue)' = R /\ ex'.task.effects = A
         /\ EffectsIn(execQ)' = B /\ EffectsIn(mat.batch)' = C
    <3>1. EffectsInPlan(mat.plan)' = G /\ PlanRises(mat.plan)' /\ PlanBorn(mat.plan)'
      BY <1>0, <1>1, <2>9, <2>10 DEF EffectsInPlan, CollectivesOf, PlanRises, PlanBorn, Born
    <3>2. Climbs(Queue)' /\ ToSet(Queue)' = R
      BY <1>0, <1>2, <2>2 DEF Climbs, IsConstant
    <3> QED BY <1>0, <1>1, <3>1, <3>2
  <2> DEFINE V == ToSet(ev)
  <2> HIDE DEF A, B, C, G, Q, R, V
  <2>13. /\ \A x \in G : x \in V /\ x \in Q
         /\ \A x \in R : x \in Q
         /\ Less(V, R)
    BY <2>2, <2>11 DEF V
  <2>14. InLine(A, B, C, G, R) /\ Old(G) /\ Old(R)
    BY <2>1, <2>13 DEF InLine, Less, Old
  <2>15. StillOld(A) /\ StillOld(B) /\ StillOld(C) /\ StillOld(G) /\ StillOld(R)
    BY <1>0, <2>1, <2>14 DEF Old, StillOld, Born
  <2>16. /\ InLine(ex.task.effects, EffectsIn(execQ), EffectsIn(mat.batch),
                   EffectsInPlan(mat.plan), ToSet(Queue))'
         /\ Old(ex.task.effects)' /\ Old(EffectsIn(execQ))' /\ Old(EffectsIn(mat.batch))'
         /\ Old(EffectsInPlan(mat.plan))' /\ Old(ToSet(Queue))'
    BY <2>12, <2>14, <2>15 DEF Old, StillOld
  <2>17. TasksInOrder(execQ)' /\ TasksInOrder(mat.batch)'
    BY <1>0, <1>1, <2>1
  <2> QED BY <2>12, <2>16, <2>17 DEF EffectsRise
<1>4. mat'.pc # "build" => mat'.plan = <<>>
  BY <1>1
<1> QED BY <1>1, <1>2, <1>3, <1>4 DEF EffectsInv

LEMMA EffectsInit == Init => EffectsInv
<1> SUFFICES ASSUME Init PROVE EffectsInv
  OBVIOUS
<1>1. /\ mat.events = <<>> /\ mat.plan = <<>> /\ mat.batch = <<>> /\ execQ = <<>>
      /\ deferredOps = <<>> /\ ex.task.effects = {}
  BY DEF Init, QueueInit, NoExecTask
<1>2. Queue = <<>>
  BY <1>1 DEF Queue
<1>3. ToSet(<<>>) = {} /\ EffectsIn(<<>>) = {} /\ EffectsInPlan(<<>>) = {} /\ TasksInOrder(<<>>)
      /\ PlanRises(<<>>) /\ PlanBorn(<<>>) /\ Climbs(<<>>)
  BY DEF ToSet, EffectsIn, EffectsInPlan, TasksInOrder, PlanRises, PlanBorn, Climbs
<1>4. EffectsRise
  BY <1>1, <1>2, <1>3 DEF EffectsRise, InLine, Less, Old
<1> QED BY <1>1, <1>4 DEF EffectsInv

LEMMA EffectsNext ==
    ASSUME Context, Context', Tracking, Callers, EffectsInv, [Next]_vars
    PROVE  EffectsInv'
<1>1. Moves /\ GraphStep
  <2>1. TypeInv /\ Life /\ ServedInv /\ Fresh /\ Consumed
    BY DEF Context, ServedInv, Tracking
  <2> QED BY <2>1, StatesMove, BufferSteps, GraphSteps
<1>2. Ground
  BY <1>1 DEF Ground
<1> QED
  BY <1>2, DispatchRises, AsideRises, DequeueRises, PrepareRises, BuildRises, PublishRises,
     AnswerRises, RestingStep
  DEF Next, Rests, MaterializeLoop

(***************************************************************************)
(* The parts of Effects.                                                   *)
(***************************************************************************)
LEMMA RisingConcat ==
    ASSUME NEW S, NEW f \in Seq(S), NEW g \in Seq(S), Rising(f), Rising(g), Less(All(f), All(g))
    PROVE  /\ f \o g \in Seq(S) /\ Rising(f \o g) /\ All(f \o g) = All(f) \cup All(g)
<1> DEFINE h == f \o g
           n == Len(f)
<1>1. /\ n \in Nat /\ h \in Seq(S)
      /\ \A i \in DOMAIN f : i \in DOMAIN h /\ h[i] = f[i]
      /\ \A i \in DOMAIN g : n + i \in DOMAIN h /\ h[n + i] = g[i]
      /\ \A i \in DOMAIN h : \/ i \in DOMAIN f /\ h[i] = f[i] /\ i \in 1..n
                             \/ i - n \in DOMAIN g /\ h[i] = g[i - n] /\ i \in Nat /\ i > n
  <2>1. /\ h \in Seq(S)
        /\ Len(h) = Len(f) + Len(g)
        /\ \A i \in 1..(Len(f) + Len(g)) : h[i] = IF i <= Len(f) THEN f[i] ELSE g[i - Len(f)]
    BY ConcatProperties
  <2> HIDE DEF h
  <2> QED BY <2>1
<1> HIDE DEF h, n
<1>2. All(h) = All(f) \cup All(g)
  <2>1. ASSUME NEW b \in All(h) PROVE b \in All(f) \cup All(g)
    <3>1. PICK i \in DOMAIN h : b \in h[i]
      BY <2>1 DEF All
    <3> QED BY <1>1, <3>1 DEF All
  <2>2. ASSUME NEW b \in All(f) PROVE b \in All(h)
    <3>1. PICK i \in DOMAIN f : b \in f[i]
      BY <2>2 DEF All
    <3> QED BY <1>1, <3>1 DEF All
  <2>3. ASSUME NEW b \in All(g) PROVE b \in All(h)
    <3>1. PICK i \in DOMAIN g : b \in g[i]
      BY <2>3 DEF All
    <3>2. n + i \in DOMAIN h /\ b \in h[n + i]
      BY <1>1, <3>1
    <3> QED BY <3>2 DEF All
  <2> QED BY <2>1, <2>2, <2>3
<1>3. Rising(h)
  <2> SUFFICES ASSUME NEW i \in DOMAIN h, NEW j \in DOMAIN h, i < j, NEW a \in h[i], NEW b \in h[j]
               PROVE  a < b
    BY DEF Rising, Less
  <2>1. CASE i \in DOMAIN f /\ h[i] = f[i] /\ j \in DOMAIN f /\ h[j] = f[j]
    BY <2>1 DEF Rising, Less
  <2>2. CASE /\ i - n \in DOMAIN g /\ h[i] = g[i - n] /\ i \in Nat
             /\ j - n \in DOMAIN g /\ h[j] = g[j - n] /\ j \in Nat
    <3>1. i - n < j - n
      BY <1>1, <2>2
    <3> QED BY <2>2, <3>1 DEF Rising, Less
  <2>3. CASE i \in DOMAIN f /\ h[i] = f[i] /\ j - n \in DOMAIN g /\ h[j] = g[j - n]
    <3>1. a \in All(f) /\ b \in All(g)
      BY <2>3 DEF All
    <3> QED BY <3>1 DEF Less
  <2>4. ~(i - n \in DOMAIN g /\ i > n /\ i \in Nat /\ j \in 1..n)
    BY <1>1
  <2> QED BY <1>1, <2>1, <2>2, <2>3, <2>4
<1> QED BY <1>1, <1>2, <1>3 DEF h

LEMMA PipelineInOrder ==
    ASSUME TypeInv, EffectsRise
    PROVE  Holds(Pipeline, ex.task.effects \cup EffectsIn(execQ) \cup EffectsIn(mat.batch))
<1> DEFINE e == <<ex.task>>
           q == e \o execQ
<1>1. ex.task \in ExecTask /\ execQ \in Seq(ExecTask) /\ mat.batch \in Seq(ExecTask)
  BY PipelineParts
<1>2. e \in Seq(ExecTask) /\ TasksInOrder(e) /\ EffectsIn(e) = ex.task.effects
  BY <1>1 DEF TasksInOrder, EffectsIn
<1>3. Pipeline = q \o mat.batch
  BY DEF Pipeline
<1> HIDE DEF e
<1>4. Holds(q, ex.task.effects \cup EffectsIn(execQ)) /\ q \in Seq(ExecTask)
  BY <1>1, <1>2, EffectsConcat, ConcatProperties DEF EffectsRise, InLine
<1> HIDE DEF q
<1>5. Less(EffectsIn(q), EffectsIn(mat.batch))
  BY <1>4 DEF Holds, EffectsRise, InLine, Less
<1> QED BY <1>1, <1>3, <1>4, <1>5, EffectsConcat DEF Holds, EffectsRise

LEMMA EffectsInOrder ==
    ASSUME Context, Tracking, EffectsInv
    PROVE  EffectsKeptInOrder
<1> SUFFICES ASSUME Solo, crashed = "no"
             PROVE  /\ Rising(Effects)
                    /\ \A b \in CollectivesOf(Buffers) :
                          /\ state[b] = "deferred"
                          /\ \A t \in Threads : ~(call[t].pc = "record" /\ call[t].out = b)
                          => \E i \in DOMAIN Effects : b \in Effects[i]
  BY DEF EffectsKeptInOrder, Rising, Less
<1> DEFINE P == [i \in DOMAIN Pipeline |-> Pipeline[i].effects]
           L == [i \in DOMAIN mat.plan |-> CollectivesOf(mat.plan[i].outs)]
           W == [i \in DOMAIN Queue |-> {b \in CollectivesOf({Queue[i]}) : IsDeferred(b)}]
           S == SUBSET Buffers
           A == ex.task.effects
           B == EffectsIn(execQ)
           C == EffectsIn(mat.batch)
           D == EffectsInPlan(mat.plan)
           Q == ToSet(Queue)
<1>0. TypeInv /\ EffectsRise /\ Queue \in Seq(Buffers) /\ Pipeline \in Seq(ExecTask)
      /\ Q = ToSet(mat.events) \cup ToSet(deferredOps)
  BY QueueParts, PipelineParts DEF Context, EffectsInv
<1>1. P \in Seq(S) /\ Rising(P) /\ All(P) = A \cup B \cup C
  <2>1. TasksInOrder(Pipeline) /\ EffectsIn(Pipeline) = A \cup B \cup C
    BY <1>0, PipelineInOrder DEF Holds
  <2>2. \A i \in DOMAIN Pipeline : Pipeline[i].effects \in S
    <3>1. \A i \in DOMAIN Pipeline : Pipeline[i] \in ExecTask
      BY <1>0
    <3> QED BY <3>1 DEF ExecTask
  <2>3. DOMAIN P = 1..Len(Pipeline) /\ Len(Pipeline) \in Nat
    BY <1>0
  <2>4. P \in Seq(S)
    BY <2>2, <2>3
  <2>5. Rising(P) /\ All(P) = EffectsIn(Pipeline)
    BY <2>1 DEF Rising, All, TasksInOrder, EffectsIn
  <2> QED BY <2>1, <2>4, <2>5
<1>2. L \in Seq(S) /\ Rising(L) /\ All(L) = D
  <2>1. mat.plan \in Seq(Traversals)
    <3>1. CASE mat.pc = "build"
      BY <3>1 DEF Tracking, PlanTyped
    <3>2. CASE mat.pc # "build"
      <4>1. mat.plan = <<>>
        BY <3>2 DEF EffectsInv
      <4> QED BY <4>1
    <3> QED BY <3>1, <3>2
  <2>2. \A i \in DOMAIN mat.plan : CollectivesOf(mat.plan[i].outs) \in S
    BY <1>0 DEF EffectsRise, PlanBorn, CollectivesOf
  <2>3. DOMAIN mat.plan = 1..Len(mat.plan) /\ Len(mat.plan) \in Nat
    BY <2>1
  <2>4. L \in Seq(S)
    BY <2>2, <2>3
  <2>5. Rising(L) /\ All(L) = D
    BY <1>0 DEF EffectsRise, Rising, All, PlanRises, EffectsInPlan
  <2> QED BY <2>4, <2>5
<1>3. W \in Seq(S) /\ Rising(W) /\ All(W) = {b \in CollectivesOf(Q) : IsDeferred(b)}
  <2>1. DOMAIN Queue = 1..Len(Queue) /\ Len(Queue) \in Nat
        /\ \A i \in DOMAIN Queue : Queue[i] \in Buffers
    BY <1>0
  <2>2. \A i \in DOMAIN Queue : W[i] \subseteq {Queue[i]}
    BY DEF CollectivesOf
  <2>3. W \in Seq(S)
    <3>1. \A i \in DOMAIN Queue : {b \in CollectivesOf({Queue[i]}) : IsDeferred(b)} \in S
      BY <2>1 DEF CollectivesOf
    <3> QED BY <2>1, <3>1
  <2>4. Rising(W)
    <3>1. \A i, j \in DOMAIN Queue : i < j => Queue[i] < Queue[j]
      BY <1>0 DEF EffectsRise, Climbs
    <3>2. DOMAIN W = DOMAIN Queue
      OBVIOUS
    <3> HIDE DEF W
    <3> QED BY <2>2, <3>1, <3>2 DEF Rising, Less
  <2>5. All(W) = {b \in CollectivesOf(Q) : IsDeferred(b)}
    <3>1. DOMAIN W = DOMAIN Queue
          /\ \A i \in DOMAIN Queue :
                \A b : b \in W[i] <=> b = Queue[i] /\ kind[b] = "collective" /\ IsDeferred(b)
      BY DEF CollectivesOf
    <3>2. \A b : b \in Q <=> \E i \in DOMAIN Queue : b = Queue[i]
      BY DEF ToSet
    <3> HIDE DEF W, Q
    <3>3. \A b : b \in All(W) <=> \E i \in DOMAIN Queue : b \in W[i]
      BY <3>1 DEF All
    <3>4. \A b : b \in {c \in CollectivesOf(Q) : IsDeferred(c)}
                <=> b \in Q /\ kind[b] = "collective" /\ IsDeferred(b)
      BY DEF CollectivesOf
    <3>5. \A b : b \in All(W) <=> b \in {c \in CollectivesOf(Q) : IsDeferred(c)}
      BY <3>1, <3>2, <3>3, <3>4
    <3> QED BY <3>5
  <2> QED BY <2>3, <2>4, <2>5
<1>4. Effects = (P \o L) \o W
  BY DEF Effects
<1>5. InLine(A, B, C, D, Q)
  BY <1>0 DEF EffectsRise
<1>6. All(W) \subseteq Q
  BY <1>3 DEF CollectivesOf
<1> HIDE DEF P, L, W, S, A, B, C, D, Q
<1>7. /\ P \o L \in Seq(S) /\ Rising(P \o L) /\ All(P \o L) = A \cup B \cup C \cup D
  <2>1. Less(All(P), All(L))
    BY <1>1, <1>2, <1>5 DEF InLine, Less
  <2>2. P \o L \in Seq(S) /\ Rising(P \o L) /\ All(P \o L) = All(P) \cup All(L)
    BY <1>1, <1>2, <2>1, RisingConcat, Zenon
  <2> QED BY <1>1, <1>2, <2>2
<1>8. Rising(Effects) /\ All(Effects) = A \cup B \cup C \cup D \cup All(W)
  <2>1. Less(All(P \o L), All(W))
    BY <1>5, <1>6, <1>7 DEF InLine, Less
  <2> DEFINE V == P \o L
  <2>2. V \in Seq(S) /\ Rising(V) /\ Less(All(V), All(W)) /\ W \in Seq(S) /\ Rising(W)
    BY <1>3, <1>7, <2>1
  <2> HIDE DEF V
  <2>3. Rising(V \o W) /\ All(V \o W) = All(V) \cup All(W)
    BY <2>2, RisingConcat, Zenon
  <2> QED BY <1>4, <1>7, <2>3 DEF V
<1>9. ASSUME NEW b \in CollectivesOf(Buffers), state[b] = "deferred",
             \A t \in Threads : ~(call[t].pc = "record" /\ call[t].out = b)
      PROVE  \E i \in DOMAIN Effects : b \in Effects[i]
  <2>1. b \in Buffers /\ kind[b] = "collective" /\ IsDeferred(b) /\ ~IsConstant(b) /\ Reached(b)
    BY <1>9 DEF CollectivesOf, IsDeferred, IsConstant, Reached
  <2>2. Recorded(b)
    BY <2>1 DEF Tracking, Tracked
  <2>3. b \in Q \/ b \in D
    BY <1>0, <1>9, <2>1, <2>2 DEF Recorded, Cover, D, EffectsInPlan, CollectivesOf
  <2>4. b \in All(Effects)
    BY <1>3, <1>8, <2>1, <2>3 DEF CollectivesOf
  <2> QED BY <2>4 DEF All
<1> QED BY <1>8, <1>9

LEMMA EffectsInvariant == Spec => [](Context /\ Tracking /\ Callers /\ EffectsInv)
<1>1. Init => Callers /\ EffectsInv
  BY CallersInit, EffectsInit
<1>2. /\ Context /\ Context' /\ Tracking /\ Callers /\ EffectsInv /\ [Next]_vars
      => Callers' /\ EffectsInv'
  BY CallersNext, EffectsNext DEF Context
<1> QED BY <1>1, <1>2, ContextInvariant, PTL DEF Spec

(***************************************************************************)
(* Theorem: a collective of a thread that dispatches alone is neither lost *)
(* nor issued twice between the events queue and the execute thread, and   *)
(* the collectives keep the order in which they were dispatched (the       *)
(* materialize thread cuts the traversals at them, ProcessEvent).          *)
(***************************************************************************)
THEOREM CollectivesKeepTheirOrder == Spec => []EffectsKeptInOrder
<1>1. Context /\ Tracking /\ Callers /\ EffectsInv => EffectsKeptInOrder
  BY EffectsInOrder
<1> QED BY <1>1, EffectsInvariant, PTL

(***************************************************************************)
(* Nothing that is read is left behind.  The buffers that can be referred  *)
(* to are in a set that is closed under inputs; the events of the queue    *)
(* that are in it read only what is no longer deferred, what is recorded   *)
(* before them or what the plan is about to materialize (QueueClosed).     *)
(***************************************************************************)

\* Only tasks for nodes name nodes, and kSplitGraph is the only mode of a
\* deployment whose heuristic uses it.
PlainTask(k) ==
    /\ k.kind # "nodes" => k.nodes = {}
    /\ deploy.mode = "split" => k.mode = "split"
TasksPlain == PlainTask(mat.task) /\ \A i \in DOMAIN matQ : PlainTask(matQ[i])

\* The op that is recorded next reads live tensors.
RecordReads == \A t \in Threads : call[t].pc = "record" => inputs[call[t].out] \subseteq live

Root(b) ==
    \/ b \in live
    \/ \E t \in Threads : call[t].out = b
    \/ ~IsDeferred(b)
    \/ b \in ToSet(Queue) /\ kind[b] = "collective"
Pends(b) == b \in ToSet(Queue) \/ (mat.pc = "build" /\ Cover(mat.plan, b))
ClosedFor(S) ==
    /\ \A b \in Buffers : Root(b) => b \in S
    /\ \A c \in S : inputs[c] \subseteq S
    /\ \A c \in ToSet(Queue) \cap S : IsDeferred(c) =>
          \A i \in inputs[c] : IsDeferred(i) /\ ~IsConstant(i) => Pends(i)
QueueClosed == \E S \in SUBSET Buffers : ClosedFor(S)

\* A traversal of the plan reads deferred ops that an earlier one outputs.
PlanClosed ==
    \A j \in DOMAIN mat.plan : \A a \in Buffers :
        a \in mat.plan[j].args /\ IsDeferred(a) => CoverBefore(mat.plan, j, a)

SoloSplits == Solo /\ deploy.mode = "split"
ClosedInv ==
    /\ TasksPlain /\ Children
    /\ Solo => RecordReads
    /\ SoloSplits => QueueClosed /\ PlanClosed

\* A step keeps the last child of a deferred op no earlier than its readers.
LEMMA ChildrenStep ==
    ASSUME TypeInv, Fresh, InputsBorn, Children, BufferStep
    PROVE  Children'
<1> USE DEF Born, IsDeferred
<1>0. /\ inputs \in [Buffers -> SUBSET Buffers] /\ lastChild \in [Buffers -> 0..MaxBuffers]
      /\ state \in [Buffers -> States] /\ next \in Int /\ live \subseteq Buffers
      /\ MaxBuffers \in Nat
  BY MaxBuffersAssumption DEF TypeInv, TypeOK, BuffersTypeOK
<1>1. CASE UNCHANGED graphVars
  BY <1>1 DEF graphVars, Children
<1>2. ASSUME NEW k \in Kinds, NEW ins \in SUBSET live, CreateDeferred(k, ins)
      PROVE  Children'
  <2>1. next \in Buffers /\ state[next] = "unborn"
    BY <1>0, <1>2 DEF CreateDeferred, Fresh
  <2>2. \A b \in Buffers :
           /\ inputs'[b] = IF b = next THEN ins ELSE inputs[b]
           /\ state'[b] = IF b = next THEN "deferred" ELSE state[b]
           /\ lastChild'[b] = IF b \in ins /\ state[b] = "deferred" THEN next ELSE lastChild[b]
    BY <1>0, <1>2 DEF CreateDeferred
  <2> SUFFICES ASSUME NEW c \in Buffers, NEW i \in inputs'[c], state'[c] = "deferred",
                      state'[i] = "deferred"
               PROVE  lastChild'[i] >= c
    BY DEF Children
  <2>3. CASE c = next
    <3>1. i \in ins /\ i \in Buffers /\ state[i] # "unborn"
      BY <1>0, <2>1, <2>2, <2>3 DEF Fresh
    <3>2. lastChild'[i] = next
      BY <2>1, <2>2, <3>1
    <3> QED BY <1>0, <2>3, <3>2
  <2>4. CASE c # next
    <3>1. i \in inputs[c] /\ i \in Buffers /\ state[c] = "deferred"
      BY <1>0, <2>2, <2>4
    <3>2. state[i] # "unborn" /\ c < next
      <4>1. c \in Int /\ ~(c >= next)
        BY <1>0, <3>1 DEF Fresh, Buffers
      <4> QED BY <1>0, <3>1, <4>1 DEF InputsBorn
    <3>3. state[i] = "deferred"
      BY <2>1, <2>2, <3>1, <3>2
    <3>4. lastChild[i] >= c
      BY <3>1, <3>3 DEF Children
    <3>5. c \in Int
      BY DEF Buffers
    <3> QED BY <1>0, <2>2, <3>1, <3>2, <3>4, <3>5
  <2> QED BY <2>3, <2>4
<1>3. CASE CreatePending
  <2>1. /\ UNCHANGED <<inputs, lastChild>>
        /\ \A b \in Buffers : state'[b] = "deferred" => state[b] = "deferred"
    BY <1>0, <1>3 DEF CreatePending
  <2> QED BY <1>0, <2>1 DEF Children
<1>4. ASSUME NEW S, NEW s \in {"pending"} \cup Settled, Become(S, s)
      PROVE  Children'
  <2>1. \A b \in Buffers :
           /\ state'[b] = IF b \in S /\ state[b] \notin Settled THEN s ELSE state[b]
           /\ inputs'[b] = IF b \in S THEN {} ELSE inputs[b]
           /\ lastChild'[b] = IF b \in S THEN 0 ELSE lastChild[b]
    BY <1>4 DEF Become
  <2>2. s # "deferred" /\ "deferred" \notin Settled
    BY <1>4 DEF Settled
  <2>3. \A b \in Buffers : state'[b] = "deferred" => state[b] = "deferred" /\ b \notin S
    BY <2>1, <2>2
  <2>4. \A c \in Buffers : inputs'[c] \subseteq Buffers
    BY <1>0, <2>1
  <2> QED BY <2>1, <2>3, <2>4 DEF Children
<1> QED BY <1>1, <1>2, <1>3, <1>4 DEF BufferStep

(***************************************************************************)
(* The tasks.                                                              *)
(***************************************************************************)
PlainQueue ==
    \/ matQ' = matQ
    \/ \E k \in MatTask : PlainTask(k) /\ matQ' = Append(matQ, k)

\* A call of Materialize queues a task for nodes, in the mode it was given.
LEMMA MaterializesPlain ==
    ASSUME NEW t \in Threads, NEW c \in CallType, NEW mode \in Modes,
           deploy.mode = "split" => mode = "split", NEW pc, Materialize(t, c, mode, pc)
    PROVE  PlainQueue
<1> DEFINE D == {b \in c.nodes : IsDeferred(b)}
           task == [kind |-> "nodes", nodes |-> D, mode |-> mode, from |-> t]
<1>1. task \in MatTask /\ PlainTask(task)
  BY DEF CallType, MatTask, PlainTask
<1>2. matQ' = matQ \/ matQ' = Append(matQ, task)
  BY DEF Materialize, Enqueue
<1> HIDE DEF task
<1> QED BY <1>1, <1>2 DEF PlainQueue

\* The dispatch threads queue plain tasks only, and drop tensors in calls of one step.
LEMMA DispatchPlainQueue ==
    ASSUME TypeInv, NEW t \in Threads, Begin(t) \/ Continue(t)
    PROVE  PlainQueue /\ t \in deploy.threads /\ (live' = live \/ call'[t].pc = "idle")
<1> USE DEF workerVars, bufferVars
<1>0. call \in [Threads -> CallType] /\ deploy.mode \in Modes /\ Idle.pc = "idle"
  BY DeploymentsAssumption DEF TypeInv, CallsType, TypeOK, Deployment, Modes, Idle
<1>1. t \in deploy.threads
  BY DEF Begin, CreateOp, DropTensor, ReadTensor, SyncStream, ExecuteModel, Continue, RecordOp,
         DispatchPlain, DispatchRepeated, MakeTensor, Resume, AwaitBuffers, CreateOutput,
         PushExecutable, At
<1>2. CASE Begin(t)
  <2>1. ASSUME NEW k \in Kinds, NEW ins \in SUBSET Buffers, CreateOp(t, k, ins)
        PROVE  PlainQueue /\ live' = live
    BY <2>1 DEF CreateOp, PlainQueue
  <2>2. ASSUME NEW b \in Buffers, DropTensor(t, b) PROVE PlainQueue /\ call'[t].pc = "idle"
    BY <2>2 DEF DropTensor, PlainQueue, At
  <2>3. ASSUME NEW b \in Buffers, ReadTensor(t, b) PROVE PlainQueue /\ live' = live
    <3>1. [Idle EXCEPT !.nodes = {b}, !.why = "read"] \in CallType
      BY DEF Idle, CallType, CallPCs, Purposes, NoBuffer
    <3> QED BY <2>3, <3>1, MaterializesPlain DEF ReadTensor, Modes
  <2>4. ASSUME SyncStream(t) PROVE PlainQueue /\ live' = live
    <3> DEFINE task == [kind |-> "stream", nodes |-> {}, mode |-> "split", from |-> t]
    <3>1. task \in MatTask /\ PlainTask(task)
      BY DEF MatTask, PlainTask, Modes
    <3>2. live' = live /\ (matQ' = matQ \/ matQ' = Append(matQ, task))
      BY <2>4 DEF SyncStream, Enqueue
    <3> HIDE DEF task
    <3> QED BY <3>1, <3>2 DEF PlainQueue
  <2>5. ASSUME NEW args \in SUBSET Buffers, ExecuteModel(t, args) PROVE PlainQueue /\ live' = live
    <3>1. [Idle EXCEPT !.nodes = args, !.why = "execute"] \in CallType
      BY DEF Idle, CallType, CallPCs, Purposes, NoBuffer
    <3> QED BY <2>5, <3>1, MaterializesPlain DEF ExecuteModel, Modes
  <2> QED BY <1>1, <1>2, <2>1, <2>2, <2>3, <2>4, <2>5 DEF Begin
<1>3. CASE DispatchRepeated(t)
  <2>1. CASE IsDeferred(call[t].out)
    <3>1. [call[t] EXCEPT !.nodes = {call[t].out}, !.why = "heuristic"] \in CallType
      BY <1>0, <1>3 DEF DispatchRepeated, At, CallType, Purposes
    <3> QED BY <1>0, <1>1, <1>3, <2>1, <3>1, MaterializesPlain DEF DispatchRepeated
  <2>2. CASE ~IsDeferred(call[t].out)
    BY <1>1, <1>3, <2>2 DEF DispatchRepeated, PlainQueue
  <2> QED BY <2>1, <2>2
<1>4. CASE MakeTensor(t)
  BY <1>0, <1>1, <1>4 DEF MakeTensor, PlainQueue, Go
<1>5. CASE Continue(t) /\ ~DispatchRepeated(t) /\ ~MakeTensor(t)
  BY <1>1, <1>5
  DEF Continue, RecordOp, DispatchPlain, Resume, AwaitBuffers, CreateOutput, PushExecutable,
      PlainQueue
<1> QED BY <1>2, <1>3, <1>4, <1>5

\* Tasks stay plain while the queue is taken from, emptied or given plain ones.
LEMMA PlainKept ==
    ASSUME TypeInv, TasksPlain, deploy' = deploy,
           mat'.task = mat.task \/ PlainTask(mat'.task),
           PlainQueue \/ matQ' = <<>> \/ (matQ # <<>> /\ matQ' = Tail(matQ))
    PROVE  TasksPlain'
<1>1. \A k : PlainTask(k) <=> ((k.kind # "nodes" => k.nodes = {}) /\ (deploy'.mode = "split" => k.mode = "split"))
  BY DEF PlainTask
<1>2. matQ \in Seq(MatTask) /\ \A i \in DOMAIN matQ : PlainTask(matQ[i])
  BY DEF TypeInv, TypeOK, TasksPlain
<1>3. \A i \in DOMAIN matQ' : PlainTask(matQ'[i])
  <2>1. CASE matQ' = matQ \/ matQ' = <<>>
    BY <1>2, <2>1
  <2>2. ASSUME NEW k \in MatTask, PlainTask(k), matQ' = Append(matQ, k)
        PROVE  \A i \in DOMAIN matQ' : PlainTask(matQ'[i])
    <3>1. \A i \in DOMAIN matQ' : matQ'[i] = k \/ (i \in DOMAIN matQ /\ matQ'[i] = matQ[i])
      BY <1>2, <2>2
    <3> QED BY <1>2, <2>2, <3>1
  <2>3. CASE matQ # <<>> /\ matQ' = Tail(matQ)
    <3>1. \A i \in DOMAIN matQ' : i + 1 \in DOMAIN matQ /\ matQ'[i] = matQ[i + 1]
      BY <1>2, <2>3
    <3> QED BY <1>2, <3>1
  <2> QED BY <2>1, <2>2, <2>3 DEF PlainQueue
<1>4. PlainTask(mat'.task)
  BY DEF TasksPlain
<1> QED BY <1>1, <1>3, <1>4 DEF TasksPlain, PlainTask

(***************************************************************************)
(* The steps that take nothing away.                                       *)
(***************************************************************************)

\* Buffers come to be referred to by being created.
RootsGrow ==
    /\ \A b \in live' : b \in live \/ \E t \in Threads : call[t].out = b
    /\ \A t \in Threads : call'[t].out \in Buffers =>
          call'[t].out = next \/ \E u \in Threads : call[u].out = call'[t].out
QueueGrows ==
    \A c \in ToSet(Queue') :
        c \in ToSet(Queue) \/ \E t \in Threads : call[t].pc = "record" /\ call[t].out = c
PendsOn == \A i \in Buffers : Pends(i) /\ state'[i] = "deferred" => Pends(i)'

\* A deferred tensor has been recorded.
LEMMA LivePends ==
    ASSUME Context, Tracking, NEW i \in live, IsDeferred(i), ~IsConstant(i)
    PROVE  Pends(i)
<1>1. i \in Buffers /\ i # NoBuffer
  BY DEF Context, TypeInv, TypeOK, BuffersTypeOK, Buffers, NoBuffer
<1>2. Recorded(i)
  BY <1>1 DEF Tracking, Tracked, Reached
<1>3. \A t \in Threads : call[t].out # i
  BY <1>1 DEF Tracking, Refer, Private
<1>4. ToSet(Queue) = ToSet(mat.events) \cup ToSet(deferredOps)
  BY QueueParts DEF Context
<1> QED BY <1>2, <1>3, <1>4 DEF Recorded, Pends

\* The queue stays closed when roots are not made, it grows by the op that is
\* recorded and what pended still does.
LEMMA ClosedKept ==
    ASSUME Ground, Consumed', Old(ToSet(Queue)), RecordReads, QueueClosed,
           RootsGrow, QueueGrows, PendsOn
    PROVE  QueueClosed'
<1>0. /\ TypeInv /\ Fresh /\ InputsBorn /\ GraphStep /\ Context /\ Tracking
      /\ inputs \in [Buffers -> SUBSET Buffers] /\ live \subseteq Buffers
      /\ \A t \in Threads : call[t] \in CallType
  BY DEF Ground, Context, ServedInv, Tracking, Refer, TypeInv, TypeOK, BuffersTypeOK, CallsType
<1>1. PICK S \in SUBSET Buffers : ClosedFor(S)
  BY DEF QueueClosed
<1>2. /\ \A b \in Buffers : Root(b) => b \in S
      /\ \A c \in S : inputs[c] \subseteq S
      /\ \A c \in ToSet(Queue) : c \in S /\ IsDeferred(c) =>
            \A i \in inputs[c] : IsDeferred(i) /\ ~IsConstant(i) => Pends(i)
  BY <1>1 DEF ClosedFor
<1>3. PICK R : R = S \cup {b \in Buffers : state'[b] # "deferred"}
  OBVIOUS
<1>4. R \in SUBSET Buffers /\ \A c \in R : state'[c] = "deferred" => c \in S
  BY <1>3
<1>5. live \subseteq S /\ (next \in Buffers => next \in S)
  <2>1. next \in Buffers => ~IsDeferred(next)
    BY <1>0, MaxBuffersAssumption DEF Fresh, Born, IsDeferred, Buffers
  <2> QED BY <1>0, <1>2, <2>1 DEF Root
<1>6. \A t \in Threads : call[t].out \in Buffers => call[t].out \in S
  BY <1>2 DEF Root
<1>7. ASSUME NEW c \in ToSet(Queue'), state'[c] = "deferred"
      PROVE  /\ c \in Buffers /\ Born(c) /\ IsDeferred(c)
             /\ inputs'[c] = inputs[c] /\ kind'[c] = kind[c]
  <2>1. c \in Buffers /\ Born(c)
    <3>1. CASE c \in ToSet(Queue)
      BY <3>1 DEF Old
    <3>2. ASSUME NEW t \in Threads, call[t].pc = "record", call[t].out = c
          PROVE  c \in Buffers /\ Born(c)
      <4>1. c \in Buffers
        BY <1>0, <3>2 DEF CallType
      <4>2. c # NoBuffer
        BY <4>1 DEF Buffers, NoBuffer
      <4> QED BY <1>0, <3>2, <4>1, <4>2 DEF Fresh
    <3> QED BY <3>1, <3>2 DEF QueueGrows
  <2> QED BY <1>0, <1>7, <2>1 DEF GraphStep, IsDeferred
<1>8. ASSUME NEW b \in Buffers, Root(b)' PROVE b \in R
  <2>1. CASE state'[b] # "deferred"
    BY <1>3, <2>1
  <2>2. CASE b \in live'
    BY <1>3, <1>5, <1>6, <2>2 DEF RootsGrow
  <2>3. ASSUME NEW t \in Threads, call'[t].out = b PROVE b \in R
    BY <1>3, <1>5, <1>6, <2>3 DEF RootsGrow
  <2>4. CASE b \in ToSet(Queue') /\ kind'[b] = "collective" /\ state'[b] = "deferred"
    <3>1. kind[b] = "collective"
      BY <1>7, <2>4
    <3>2. b \in S
      BY <1>2, <1>6, <2>4, <3>1 DEF Root, QueueGrows
    <3> QED BY <1>3, <3>2
  <2> QED BY <1>8, <2>1, <2>2, <2>3, <2>4 DEF Root, IsDeferred
<1>9. ASSUME NEW c \in R PROVE inputs'[c] \subseteq R
  <2>1. CASE state'[c] # "deferred"
    BY <1>4, <2>1 DEF Consumed, IsDeferred
  <2>2. CASE state'[c] = "deferred" /\ Born(c)
    BY <1>0, <1>2, <1>3, <1>4, <2>2 DEF GraphStep
  <2>3. CASE state'[c] = "deferred" /\ ~Born(c)
    BY <1>0, <1>3, <1>4, <1>5, <2>3 DEF GraphStep
  <2> QED BY <2>1, <2>2, <2>3
<1>10. ASSUME NEW c \in ToSet(Queue'), c \in R, state'[c] = "deferred",
              NEW i \in inputs'[c], state'[i] = "deferred", kind'[i] # "constant"
       PROVE  Pends(i)'
  <2>1. c \in Buffers /\ IsDeferred(c) /\ i \in inputs[c] /\ c \in S
    BY <1>4, <1>7, <1>10
  <2>2. i \in Buffers /\ Born(i)
    BY <1>0, <2>1 DEF InputsBorn
  <2>3. IsDeferred(i) /\ ~IsConstant(i)
    BY <1>0, <1>10, <2>2 DEF GraphStep, IsDeferred, IsConstant
  <2>4. Pends(i)
    <3>1. CASE c \in ToSet(Queue)
      BY <1>2, <2>1, <2>3, <3>1
    <3>2. ASSUME NEW t \in Threads, call[t].pc = "record", call[t].out = c
          PROVE  Pends(i)
      <4>1. i \in live
        BY <2>1, <3>2 DEF RecordReads
      <4> QED BY <1>0, <2>3, <4>1, LivePends
    <3> QED BY <3>1, <3>2 DEF QueueGrows
  <2> QED BY <1>10, <2>2, <2>4 DEF PendsOn
<1>11. ClosedFor(R)'
  <2>1. \A b \in Buffers : Root(b)' => b \in R
    BY <1>8
  <2>2. \A c \in R : inputs'[c] \subseteq R
    BY <1>9
  <2>3. \A c \in ToSet(Queue') \cap R : state'[c] = "deferred" =>
          \A i \in inputs'[c] : state'[i] = "deferred" /\ kind'[i] # "constant" => Pends(i)'
    BY <1>10
  <2> QED BY <2>1, <2>2, <2>3 DEF ClosedFor, IsDeferred, IsConstant
<1> QED BY <1>4, <1>11 DEF QueueClosed

\* Nothing is born while there is a plan.
LEMMA PlanClosedKept ==
    ASSUME GraphStep, PlanClosed, mat'.plan = mat.plan,
           mat.plan = <<>> \/ \A b \in Buffers : Born(b)' => Born(b)
    PROVE  PlanClosed'
<1>1. CASE mat.plan = <<>>
  <2>1. DOMAIN mat'.plan = {}
    BY <1>1
  <2> QED BY <2>1 DEF PlanClosed
<1>2. CASE \A b \in Buffers : Born(b)' => Born(b)
  <2>1. \A b \in Buffers : state'[b] = "deferred" => IsDeferred(b)
    BY <1>2 DEF GraphStep, Born, IsDeferred
  <2> QED BY <2>1 DEF PlanClosed, IsDeferred, CoverBefore
<1> QED BY <1>1, <1>2

\* What holds before and after each step.
Firm == Ground /\ Consumed' /\ Children' /\ EffectsInv /\ ClosedInv

\* A dispatch thread records an op that reads live tensors: they are roots.
LEMMA DispatchCloses ==
    ASSUME Firm, NEW t \in Threads, Begin(t) \/ Continue(t)
    PROVE  ClosedInv'
<1>0. /\ TypeInv /\ TypeInv' /\ Life /\ CallHasTask /\ Fresh /\ Refer /\ Outsiders /\ Context
      /\ GraphStep /\ Ground /\ call \in [Threads -> CallType]
  BY DEF Firm, Ground, Context, ServedInv, Tracking, Callers, TypeInv, CallsType
<1>1. PICK c : Dispatches(t, c)
  BY <1>0, BeginDispatches, ContinueDispatches
<1>2. /\ mat' = mat /\ deploy' = deploy /\ RecordStep(t, c) /\ MovesTo(t, c)
  BY <1>1 DEF Dispatches
<1>3. \A u \in Threads : call'[u] = IF u = t THEN c ELSE call[u]
  BY <1>0, <1>2 DEF MovesTo, Go
<1>4. /\ PlainQueue /\ t \in deploy.threads /\ (live' = live \/ call'[t].pc = "idle")
      /\ RecordsNew
  BY <1>0, DispatchPlainQueue, DispatchWork
<1>5. TasksPlain'
  BY <1>0, <1>2, <1>4, PlainKept DEF Firm, ClosedInv
<1>6. Solo' = Solo /\ SoloSplits' = SoloSplits
  BY <1>2 DEF Solo, SoloSplits
<1>7. Solo => RecordReads'
  <2> SUFFICES ASSUME Solo, NEW u \in Threads, call'[u].pc = "record"
               PROVE  inputs'[call'[u].out] \subseteq live'
    BY DEF RecordReads
  <2>1. u = t
    <3>1. u # t => u \in deploy.threads
      BY <1>0, <1>3 DEF Outsiders
    <3> QED BY <1>4, <3>1 DEF Solo
  <2>2. live' = live /\ call'[t].out >= next
    <3>1. call[t].pc # "record"
      <4> SUFFICES ASSUME call[t].pc = "record" PROVE FALSE
        OBVIOUS
      <4>1. RecordOp(t)
        BY DEF Begin, CreateOp, DropTensor, ReadTensor, SyncStream, ExecuteModel, Continue,
               DispatchPlain, DispatchRepeated, MakeTensor, Resume, AwaitBuffers, CreateOutput,
               PushExecutable, At
      <4>2. call'[t] = [call[t] EXCEPT !.pc = "dispatch"]
        BY <1>0, <4>1 DEF RecordOp, Step, Go
      <4>3. [call[t] EXCEPT !.pc = "dispatch"].pc = "dispatch"
        BY <1>0 DEF CallType
      <4> QED BY <2>1, <4>2, <4>3
    <3> QED BY <1>4, <2>1, <3>1 DEF RecordsNew
  <2>3. call'[t].out \in Buffers
    BY <1>0, <2>1 DEF TypeInv, CallsType, CallType
  <2> QED BY <1>0, <2>1, <2>2, <2>3 DEF Fresh, GraphStep
<1>8. SoloSplits => QueueClosed' /\ PlanClosed'
  <2> SUFFICES ASSUME SoloSplits PROVE QueueClosed' /\ PlanClosed'
    OBVIOUS
  <2>1. /\ QueueClosed /\ PlanClosed /\ RecordReads /\ Old(ToSet(Queue)) /\ Consumed'
    BY DEF Firm, ClosedInv, EffectsInv, EffectsRise, SoloSplits
  <2>2. RootsGrow
    BY <1>2, <1>3 DEF RootsGrow, MovesTo, Buffers, NoBuffer
  <2>3. /\ ToSet(Queue) = ToSet(mat.events) \cup ToSet(deferredOps)
        /\ ToSet(Queue') = ToSet(mat.events) \cup ToSet(deferredOps')
        /\ deferredOps \in Seq(Buffers)
    <3>1. /\ deferredOps \in Seq(Buffers) /\ deferredOps' \in Seq(Buffers)
          /\ mat.events \in Seq(Buffers)
      BY <1>0 DEF TypeInv, TypeOK, QueueTypeOK
    <3> QED BY <1>2, <3>1, ToSetConcat DEF Queue
  <2>4. \/ ToSet(deferredOps') = ToSet(deferredOps)
        \/ call[t].pc = "record" /\ ToSet(deferredOps') = ToSet(deferredOps) \cup {call[t].out}
    <3>1. CASE call[t].pc = "record"
      <4>1. call[t].out \in Buffers
        BY <1>0, <3>1 DEF CallType
      <4>2. ToSet(Append(deferredOps, call[t].out)) = ToSet(deferredOps) \cup {call[t].out}
        BY <2>3, <4>1, ToSetAppend
      <4> QED BY <1>2, <3>1, <4>2 DEF RecordStep, RecordDeferredOpCreated
    <3> QED BY <1>2, <3>1 DEF RecordStep
  <2>5. QueueGrows
    BY <2>3, <2>4 DEF QueueGrows
  <2>6. PendsOn
    BY <1>2, <2>3, <2>4 DEF PendsOn, Pends
  <2>7. QueueClosed'
    BY <1>0, <2>1, <2>2, <2>5, <2>6, ClosedKept
  <2>8. mat.plan = <<>>
    <3>1. ~Waits(t)
      BY <1>2 DEF MovesTo, Waits
    <3>2. mat.pc \in {"idle", "stopped"}
      BY <1>0, <1>4, <3>1, SoloRest DEF SoloSplits
    <3> QED BY <3>2 DEF Firm, EffectsInv
  <2> QED BY <1>0, <1>2, <2>1, <2>7, <2>8, PlanClosedKept
<1> QED BY <1>5, <1>6, <1>7, <1>8 DEF Firm, ClosedInv

\* Steps that leave the calls and the tensors, except for answers.
Stays ==
    /\ live' = live /\ deploy' = deploy
    /\ \A t \in Threads : call'[t].out = call[t].out
                          /\ (call'[t].pc = "record" => call[t].pc = "record")
    /\ \A b \in Buffers : Born(b)' => Born(b)

\* The op a thread is about to record keeps its inputs live.
LEMMA RecordsKept ==
    ASSUME Ground, Stays, RecordReads
    PROVE  RecordReads'
<1> SUFFICES ASSUME NEW t \in Threads, call'[t].pc = "record"
             PROVE  inputs'[call'[t].out] \subseteq live'
  BY DEF RecordReads
<1>1. call[t].pc = "record" /\ call'[t].out = call[t].out /\ live' = live
  BY DEF Stays
<1>2. call[t].out \in Buffers
  BY <1>1 DEF Ground, Context, TypeInv, CallsType, CallType
<1>3. Born(call[t].out)
  <2>1. call[t].out # NoBuffer
    BY <1>2 DEF Buffers, NoBuffer
  <2> QED BY <2>1 DEF Ground, Context, ServedInv, Fresh
<1> QED BY <1>1, <1>2, <1>3 DEF RecordReads, Ground, GraphStep

\* A step that leaves the queue and the calls alone keeps the queue closed.
LEMMA StayCloses ==
    ASSUME Firm, Stays, TasksPlain', Queue' = Queue, SoloSplits => PendsOn,
           SoloSplits => PlanClosed'
    PROVE  ClosedInv'
<1>1. Solo' = Solo /\ SoloSplits' = SoloSplits /\ Ground
  BY DEF Solo, SoloSplits, Stays, Firm
<1>2. Solo => RecordReads'
  BY <1>1, RecordsKept DEF Firm, ClosedInv
<1>3. SoloSplits => QueueClosed'
  <2> SUFFICES ASSUME SoloSplits PROVE QueueClosed'
    OBVIOUS
  <2>1. QueueClosed /\ RecordReads /\ Old(ToSet(Queue)) /\ Consumed'
    BY DEF Firm, ClosedInv, EffectsInv, EffectsRise, SoloSplits
  <2>2. RootsGrow /\ QueueGrows
    BY DEF Stays, RootsGrow, QueueGrows
  <2> QED BY <1>1, <2>1, <2>2, ClosedKept
<1> QED BY <1>1, <1>2, <1>3 DEF Firm, ClosedInv

\* The execute thread and the shutdown only settle buffers.
LEMMA AsideCloses ==
    ASSUME Firm, ExecuteLoop \/ ShutDown \/ ContinueShutDown \/ UNCHANGED programVars
    PROVE  ClosedInv'
<1>1. /\ UNCHANGED <<live, call, mat, deferredOps, deploy>>
      /\ matQ' = matQ \/ matQ' = <<>> \/ matQ' = Append(matQ, Sentinel)
  BY AsideSteps DEF Firm, Ground, Aside
<1>2. \A b \in Buffers : Born(b)' => Born(b)
  BY NothingBorn DEF Firm, Ground
<1>3. Stays /\ Queue' = Queue /\ PendsOn
  BY <1>1, <1>2 DEF Stays, Queue, PendsOn, Pends
<1>4. TasksPlain'
  <2>1. Sentinel \in MatTask /\ PlainTask(Sentinel)
    BY DEF Sentinel, NoTask, MatTask, Modes, PlainTask
  <2>2. PlainQueue \/ matQ' = <<>>
    BY <1>1, <2>1 DEF PlainQueue
  <2> QED BY <1>1, <2>2, PlainKept DEF Firm, Ground, Context, ClosedInv
<1>5. SoloSplits => PlanClosed'
  BY <1>1, <1>2, PlanClosedKept DEF Firm, Ground, ClosedInv
<1> QED BY <1>3, <1>4, <1>5, StayCloses

\* A stretch that is dequeued is still in front of the queue.
LEMMA DequeueCloses ==
    ASSUME Firm, DequeueMaterializationTask
    PROVE  ClosedInv'
<1> USE DEF bufferVars
<1>0. /\ TypeInv /\ MatType /\ matQ \in Seq(MatTask) /\ matQ # <<>> /\ matQ' = Tail(matQ)
      /\ UNCHANGED <<live, call, deploy, state>>
      /\ Ground /\ EffectsInv /\ GraphStep /\ TasksPlain
  BY DEF Firm, Ground, Context, TypeInv, TypeOK, MatType, ClosedInv, DequeueMaterializationTask
<1>1. /\ mat'.plan = mat.plan /\ Queue' = Queue /\ mat.pc = "idle" /\ mat.plan = <<>>
  BY <1>0, DequeueEvents
<1>2. Stays /\ PendsOn
  BY <1>0, <1>1 DEF Stays, PendsOn, Pends, Born
<1>3. TasksPlain'
  <2>1. mat'.task = mat.task \/ mat'.task = Head(matQ)
    BY <1>0 DEF DequeueMaterializationTask, MatType
  <2>2. PlainTask(Head(matQ))
    <3>1. Head(matQ) = matQ[1] /\ 1 \in DOMAIN matQ
      BY <1>0
    <3> QED BY <1>0, <3>1 DEF TasksPlain
  <2> QED BY <1>0, <2>1, <2>2, PlainKept
<1>4. SoloSplits => PlanClosed'
  BY <1>0, <1>1, PlanClosedKept DEF Firm, ClosedInv
<1> QED BY <1>1, <1>2, <1>3, <1>4, StayCloses

\* Publishing, aborting and answering leave the queue and the plan alone.
LEMMA AnswerCloses ==
    ASSUME Firm, PublishTasks \/ AbortTraversal \/ AnswerTask
    PROVE  ClosedInv'
<1> USE DEF bufferVars, workerVars, queueVars
<1>0. /\ TypeInv /\ MatType /\ call \in [Threads -> CallType] /\ UNCHANGED <<live, deploy, deferredOps, matQ>>
      /\ GraphStep /\ TasksPlain
  BY DEF Firm, Ground, Context, TypeInv, TypeOK, CallsType, MatType, ClosedInv, PublishTasks,
         AbortTraversal, AnswerTask
<1>1. /\ mat'.plan = mat.plan /\ mat'.events = mat.events
      /\ mat.pc = "build" => mat'.pc = "build"
      /\ mat'.task = mat.task \/ mat'.task = NoTask
  BY <1>0 DEF PublishTasks, AbortTraversal, AnswerTask, MatType
<1>2. \A b \in Buffers : Born(b)' => Born(b)
  BY NothingBorn DEF Firm, Ground, MaterializeLoop
<1>3. \A t \in Threads : call'[t].out = call[t].out
                         /\ (call'[t].pc = "record" => call[t].pc = "record")
  <2>1. CASE AnswerTask
    <3>1. \E s, ok, nodes : call' = [call EXCEPT ![s].pc = "answered", ![s].ok = ok, ![s].nodes = nodes]
      BY <2>1 DEF AnswerTask, Answer
    <3> QED BY <1>0, <3>1 DEF CallType
  <2>2. CASE PublishTasks \/ AbortTraversal
    BY <2>2 DEF PublishTasks, AbortTraversal
  <2> QED BY <2>1, <2>2
<1>4. Stays /\ Queue' = Queue /\ PendsOn
  BY <1>0, <1>1, <1>2, <1>3 DEF Stays, Queue, PendsOn, Pends
<1>5. TasksPlain'
  <2>1. PlainTask(NoTask)
    BY DEF NoTask, PlainTask
  <2> QED BY <1>0, <1>1, <2>1, PlainKept DEF PlainQueue
<1>6. SoloSplits => PlanClosed'
  BY <1>0, <1>1, <1>2, PlanClosedKept DEF Firm, ClosedInv
<1> QED BY <1>4, <1>5, <1>6, StayCloses

\* The outputs of the first traversal are no longer deferred.
LEMMA BuildCloses ==
    ASSUME Firm, BuildTask \/ FailTraversal
    PROVE  ClosedInv'
<1> USE DEF bufferVars, workerVars, queueVars
<1>0. /\ TypeInv /\ MatType /\ mat.pc = "build" /\ GraphStep
      /\ UNCHANGED <<live, call, deferredOps, matQ, deploy>>
      /\ mat.plan \in Seq(Traversals) /\ mat.plan # <<>>
      /\ \E s \in {"pending", "error"} : Become(Outputs, s)
      /\ \A b \in Outputs : IsDeferred(b)
  BY DEF Firm, Ground, Context, TypeInv, TypeOK, MatType, BuildTask, FailTraversal, Tracking,
         PlanTyped, SetAsPendingMaterialization, SetAsError, Outputs
<1>1. /\ mat'.plan = Tail(mat.plan) /\ mat'.task = mat.task /\ mat'.events = mat.events
      /\ mat'.pc = IF Len(mat.plan) = 1 THEN "publish" ELSE "build"
  BY <1>0 DEF BuildTask, FailTraversal, Built, MatType
<1>2. \A b \in Outputs : state'[b] # "deferred"
  BY <1>0 DEF Become, Settled, Outputs, Nodes
<1>3. \A b \in Buffers : Born(b)' => Born(b)
  BY NothingBorn DEF Firm, Ground, MaterializeLoop
<1>4. /\ Len(mat.plan) \in Nat /\ DOMAIN mat.plan = 1..Len(mat.plan)
      /\ \A d \in DOMAIN mat.plan : d # 1 =>
            /\ d - 1 \in DOMAIN mat'.plan /\ mat'.plan[d - 1] = mat.plan[d]
            /\ Len(mat.plan) # 1
      /\ \A d \in DOMAIN mat'.plan : d + 1 \in DOMAIN mat.plan /\ mat'.plan[d] = mat.plan[d + 1]
                                     /\ d \in Nat
  BY <1>0, <1>1
<1>5. \A b \in Buffers, d \in DOMAIN mat.plan :
          b \in mat.plan[d].outs /\ b \in ToSet(mat.plan[d].order) /\ state'[b] = "deferred" => d # 1
  BY <1>0, <1>2 DEF Outputs, Nodes
<1>6. PendsOn
  <2> SUFFICES ASSUME NEW b \in Buffers, Cover(mat.plan, b), state'[b] = "deferred"
               PROVE  mat'.pc = "build" /\ Cover(mat'.plan, b)
    BY <1>0, <1>1 DEF PendsOn, Pends, Queue
  <2>1. PICK d \in DOMAIN mat.plan : b \in mat.plan[d].outs /\ b \in ToSet(mat.plan[d].order)
    BY DEF Cover
  <2> QED BY <1>1, <1>4, <1>5, <2>1 DEF Cover
<1>7. SoloSplits => PlanClosed'
  <2> SUFFICES ASSUME SoloSplits, NEW j \in DOMAIN mat'.plan, NEW a \in Buffers,
                      a \in mat'.plan[j].args, state'[a] = "deferred"
               PROVE  CoverBefore(mat'.plan, j, a)
    BY DEF PlanClosed, IsDeferred
  <2>1. IsDeferred(a)
    BY <1>0, <1>3 DEF GraphStep, Born, IsDeferred
  <2>2. j + 1 \in DOMAIN mat.plan /\ a \in mat.plan[j + 1].args /\ j \in Nat
    BY <1>4
  <2>3. CoverBefore(mat.plan, j + 1, a)
    BY <2>1, <2>2 DEF Firm, ClosedInv, PlanClosed
  <2>4. PICK l \in 1..j : a \in mat.plan[l].outs /\ a \in ToSet(mat.plan[l].order)
    <3>1. (j + 1) - 1 = j
      BY <2>2
    <3>2. \E l \in 1..((j + 1) - 1) : a \in mat.plan[l].outs /\ a \in ToSet(mat.plan[l].order)
      BY ONLY <2>3, Zenon DEF CoverBefore
    <3> QED BY <3>1, <3>2
  <2>5. l \in DOMAIN mat.plan /\ l # 1
    <3>1. l \in DOMAIN mat.plan
      BY <1>4, <2>2
    <3> QED BY <1>5, <2>4, <3>1
  <2>6. l - 1 \in 1..(j - 1) /\ mat'.plan[l - 1] = mat.plan[l]
    BY <1>4, <2>2, <2>5
  <2> QED BY <2>4, <2>6 DEF CoverBefore
<1>8. Stays /\ Queue' = Queue
  BY <1>0, <1>1, <1>3 DEF Stays, Queue
<1>9. TasksPlain'
  BY <1>0, <1>1, PlainKept DEF PlainQueue, Firm, ClosedInv
<1> QED BY <1>6, <1>7, <1>8, <1>9, StayCloses

(***************************************************************************)
(* The plan.                                                               *)
(***************************************************************************)
LEMMA AliveCloses ==
    ASSUME BuffersTypeOK, NEW ev, NEW held
    PROVE  /\ Alive(ev, held) \in SUBSET Buffers
           /\ \A c \in Alive(ev, held) : inputs[c] \subseteq Alive(ev, held)
           /\ \A b \in Buffers :
                 \/ b \in live \/ b \in held
                 \/ b \in ToSet(ev \o deferredOps) /\ kind[b] = "collective"
                 => b \in Alive(ev, held)
           /\ \A S \in SUBSET Buffers :
                 /\ \A b : \/ b \in live \/ b \in held
                           \/ b \in ToSet(ev \o deferredOps) /\ kind[b] = "collective"
                           => b \in S
                 /\ \A c \in S : inputs[c] \subseteq S
                 => Alive(ev, held) \subseteq S
<1> DEFINE roots == live \cup held \cup {b \in ToSet(ev \o deferredOps) : kind[b] = "collective"}
           closed(S) == roots \subseteq S /\ \A c \in S : inputs[c] \subseteq S
           A == Alive(ev, held)
<1>1. A = {b \in Buffers : \A S \in SUBSET Buffers : closed(S) => b \in S}
  BY DEF Alive, ReferredFrom
<1>2. inputs \in [Buffers -> SUBSET Buffers]
  BY DEF BuffersTypeOK
<1>3. A \in SUBSET Buffers
  BY <1>1
<1>4. \A c \in A : inputs[c] \subseteq A
  <2> SUFFICES ASSUME NEW c \in A, NEW i \in inputs[c] PROVE i \in A
    OBVIOUS
  <2>1. c \in Buffers /\ i \in Buffers
    BY <1>2, <1>3
  <2>2. ASSUME NEW S \in SUBSET Buffers, closed(S) PROVE i \in S
    <3>1. c \in S
      BY <1>1, <2>2
    <3> QED BY <2>2, <3>1
  <2> HIDE DEF closed, A
  <2> QED BY <1>1, <2>1, <2>2
<1>5. \A b \in Buffers : b \in roots => b \in A
  BY <1>1
<1>6. \A S \in SUBSET Buffers : closed(S) => A \subseteq S
  BY <1>1
<1>7. \A b : b \in roots <=> \/ b \in live \/ b \in held
                             \/ b \in ToSet(ev \o deferredOps) /\ kind[b] = "collective"
  OBVIOUS
<1> HIDE DEF roots, A
<1>8. \A S : (\A b : b \in roots => b \in S) => roots \subseteq S
  OBVIOUS
<1> QED BY <1>3, <1>4, <1>5, <1>6, <1>7, <1>8 DEF A

\* A pipeline starts with the running task and goes on with the queued ones.
LEMMA JoinedStart ==
    ASSUME NEW e \in ExecTask, NEW q \in Seq(ExecTask), NEW r \in Seq(ExecTask)
    PROVE  /\ 1 \in DOMAIN Joined(e, q, r) /\ Joined(e, q, r)[1] = e
           /\ \A i \in DOMAIN q : i + 1 \in DOMAIN Joined(e, q, r) /\ Joined(e, q, r)[i + 1] = q[i]
<1> DEFINE p == Joined(e, q, r)
<1>1. /\ p \in Seq(ExecTask) /\ Len(p) = 1 + Len(q) + Len(r)
      /\ \A i \in 1..(1 + Len(q) + Len(r)) :
            p[i] = IF i = 1 THEN e
                   ELSE IF i <= 1 + Len(q) THEN q[i - 1] ELSE r[i - 1 - Len(q)]
  BY JoinedParts
<1> SUFFICES /\ 1 \in DOMAIN p /\ p[1] = e
             /\ \A i \in DOMAIN q : i + 1 \in DOMAIN p /\ p[i + 1] = q[i]
  OBVIOUS
<1> HIDE DEF p
<1>2. Len(q) \in Nat /\ Len(r) \in Nat /\ DOMAIN q = 1..Len(q)
  OBVIOUS
<1>3. DOMAIN p = 1..(1 + Len(q) + Len(r))
  BY <1>1
<1>4. ASSUME NEW i \in DOMAIN q PROVE i + 1 \in DOMAIN p /\ p[i + 1] = q[i]
  <2>1. i + 1 \in 1..(1 + Len(q) + Len(r)) /\ i + 1 # 1 /\ i + 1 <= 1 + Len(q) /\ (i + 1) - 1 = i
    BY <1>2
  <2> QED BY <1>1, <1>3, <2>1
<1>5. 1 \in 1..(1 + Len(q) + Len(r))
  BY <1>2
<1> QED BY <1>1, <1>3, <1>4, <1>5

\* What calls and tasks keep alive.
LEMMA HeldIsRoot ==
    ASSUME Context, Tracking, Queued, Solo, TasksPlain, mat.pc = "prepare", NEW b \in Held
    PROVE  b \in Buffers /\ Root(b)
<1>0. /\ TypeInv /\ Served /\ Shapes /\ Refer /\ TasksFit /\ MatType /\ matQ \in Seq(MatTask)
      /\ \A t \in Threads : call[t] \in CallType
      /\ live \subseteq Buffers
  BY DEF Context, ServedInv, Life, Tracking, TypeInv, TypeOK, BuffersTypeOK, CallsType, MatType
<1>1. ASSUME NEW t \in Threads, b \in HeldByCall(call[t]) PROVE b \in Buffers /\ Root(b)
  <2>1. CASE b = call[t].out /\ b # NoBuffer
    BY <1>0, <2>1 DEF Root, CallType
  <2>2. CASE b \in call[t].nodes /\ call[t].why # "sync"
    <3>1. Known(call[t], live) /\ b \in Buffers
      BY <1>0, <2>2 DEF Refer, NodesKnown, CallType
    <3>2. b \in live \/ b = call[t].out
      BY <2>2, <3>1 DEF Known
    <3> QED BY <3>1, <3>2 DEF Root
  <2>3. HeldByCall(call[t]) \subseteq
           (IF call[t].why = "sync" THEN {} ELSE call[t].nodes) \cup ({call[t].out} \ {NoBuffer})
    BY DEF HeldByCall
  <2> QED BY <1>1, <2>1, <2>2, <2>3
<1>2. ASSUME NEW k \in MatTask, k.from \in Threads, Fits(k, call[k.from], Materializing),
             PlainTask(k), b \in k.nodes
      PROVE  b \in Buffers /\ Root(b)
  <2>1. b \in HeldByCall(call[k.from])
    BY <1>2 DEF Fits, PlainTask, HeldByCall
  <2> QED BY <1>1, <1>2, <2>1
<1>3. ASSUME NEW i \in DOMAIN matQ, b \in matQ[i].nodes PROVE b \in Buffers /\ Root(b)
  <2>1. matQ[i] \in MatTask /\ PlainTask(matQ[i])
    BY <1>0 DEF TasksPlain
  <2>2. matQ[i].kind # "sentinel"
    BY <1>3, <2>1 DEF PlainTask
  <2>3. matQ[i].from \in Threads
    BY <1>0, <2>1, <2>2 DEF Shapes, MatTask
  <2> QED BY <1>0, <1>2, <1>3, <2>1, <2>3 DEF TasksFit
<1>4. ASSUME b \in mat.task.nodes PROVE b \in Buffers /\ Root(b)
  <2>1. mat.task \in MatTask /\ PlainTask(mat.task) /\ mat.task.from \in Threads
    BY <1>0 DEF TasksPlain, MatType, Shapes, MatTask
  <2> QED BY <1>0, <1>2, <1>4, <2>1 DEF TasksFit
<1>5. ASSUME NEW i \in DOMAIN Pipeline, b \in Pipeline[i].args \cup Pipeline[i].outs
      PROVE  b \in Buffers /\ Root(b)
  <2>1. Pipeline[i] \in ExecTask
    BY <1>0, PipelineParts
  <2>2. b \in Buffers
    BY <1>5, <2>1 DEF ExecTask
  <2>3. CASE b \in Pipeline[i].args
    BY <2>2, <2>3 DEF Queued, InOrder, Forward, Ready, Settled, Root, IsDeferred
  <2>4. CASE b \in Pipeline[i].outs
    <3>1. state[b] = "pending"
      BY <1>0, <2>2, <2>4, ServedPipeline DEF PendingHasTask
    <3> QED BY <2>2, <3>1 DEF Root, IsDeferred
  <2> QED BY <1>5, <2>3, <2>4
<1>6. ASSUME b \in Refs(execQ) \/ b \in Refs(<<ex.task>>) PROVE b \in Buffers /\ Root(b)
  <2>1. /\ Pipeline = Joined(ex.task, execQ, mat.batch) /\ ex.task \in ExecTask
        /\ execQ \in Seq(ExecTask) /\ mat.batch \in Seq(ExecTask)
    BY <1>0, PipelineParts
  <2>2. 1 \in DOMAIN Pipeline /\ Pipeline[1] = ex.task
        /\ \A i \in DOMAIN execQ : i + 1 \in DOMAIN Pipeline /\ Pipeline[i + 1] = execQ[i]
    BY <2>1, JoinedStart
  <2>3. CASE b \in Refs(execQ)
    <3>1. PICK i \in DOMAIN execQ : b \in execQ[i].args \cup execQ[i].outs
      BY <2>3 DEF Refs
    <3> QED BY <1>5, <2>2, <3>1
  <2>4. CASE b \in Refs(<<ex.task>>)
    <3>1. b \in ex.task.args \cup ex.task.outs
      <4>1. DOMAIN <<ex.task>> = {1} /\ <<ex.task>>[1] = ex.task
        OBVIOUS
      <4> QED BY <2>4, <4>1 DEF Refs
    <3> QED BY <1>5, <2>2, <3>1
  <2> QED BY <1>6, <2>3, <2>4
<1> QED BY <1>1, <1>3, <1>4, <1>6, HeldBuffers

\* The events that are alive read events that are alive.
LEMMA AliveReads ==
    ASSUME Context, Tracking, Queued, EffectsInv, ClosedInv, SoloSplits, mat.pc = "prepare"
    PROVE  /\ \A c \in ToSet(Queue) : c \in Alive(mat.events, Held) /\ IsDeferred(c) =>
                 \A i \in inputs[c] : IsDeferred(i) /\ ~IsConstant(i) =>
                     i \in Alive(mat.events, Held) /\ i \in ToSet(Queue)
           /\ ClosedOn(mat.events, Alive(mat.events, Held))
           /\ Climbs(mat.events) /\ Less(ToSet(mat.events), ToSet(deferredOps))
<1> DEFINE A == Alive(mat.events, Held)
           ev == mat.events
<1>0. /\ TypeInv /\ BuffersTypeOK /\ Solo /\ QueueClosed /\ TasksPlain /\ InputsBorn
      /\ Climbs(Queue) /\ live \subseteq Buffers
      /\ inputs \in [Buffers -> SUBSET Buffers]
  BY DEF Context, TypeInv, TypeOK, BuffersTypeOK, SoloSplits, ClosedInv, EffectsInv, EffectsRise,
         Tracking, Refer
<1>1. /\ ev \in Seq(Buffers) /\ deferredOps \in Seq(Buffers) /\ Queue \in Seq(Buffers)
      /\ ToSet(Queue) = ToSet(ev) \cup ToSet(deferredOps)
  BY <1>0, QueueParts
<1>2. Climbs(ev) /\ Less(ToSet(ev), ToSet(deferredOps))
  BY <1>0, <1>1, ClimbsConcat DEF Queue
<1>3. PICK S \in SUBSET Buffers : ClosedFor(S)
  BY <1>0 DEF QueueClosed
<1>4. \A b \in ToSet(Queue) : b \in Buffers
  BY <1>1 DEF ToSet
<1>5. A \subseteq S
  <2>1. ASSUME NEW b, \/ b \in live \/ b \in Held
                      \/ b \in ToSet(ev \o deferredOps) /\ kind[b] = "collective"
        PROVE  b \in S
    <3>1. b \in Buffers /\ Root(b)
      BY <1>0, <1>4, <2>1, HeldIsRoot DEF Root, Queue
    <3> QED BY <1>3, <3>1 DEF ClosedFor
  <2>2. \A c \in S : inputs[c] \subseteq S
    BY <1>3 DEF ClosedFor
  <2> QED BY <1>0, <2>1, <2>2, AliveCloses
<1>6. \A c \in A : inputs[c] \subseteq A /\ c \in Buffers
  BY <1>0, AliveCloses
<1> HIDE DEF A
<1>7. ASSUME NEW c \in ToSet(Queue), c \in A, IsDeferred(c),
             NEW i \in inputs[c], IsDeferred(i), ~IsConstant(i)
      PROVE  i \in A /\ i \in ToSet(Queue)
  <2>1. Pends(i)
    BY <1>3, <1>5, <1>7 DEF ClosedFor
  <2> QED BY <1>6, <1>7, <2>1 DEF Pends
<1>8. ClosedOn(ev, A)
  <2> SUFFICES ASSUME NEW k \in DOMAIN ev, ev[k] \in A, IsDeferred(ev[k]),
                      NEW a \in inputs[ev[k]], IsDeferred(a), ~IsConstant(a)
               PROVE  a \in A /\ \E j \in 1..(k - 1) : ev[j] = a
    BY DEF ClosedOn
  <2>1. ev[k] \in ToSet(ev) /\ ev[k] \in Buffers
    BY <1>1 DEF ToSet
  <2>2. a \in A /\ a \in ToSet(Queue) /\ a < ev[k] /\ a \in Buffers
    BY <1>0, <1>1, <1>4, <1>7, <2>1 DEF InputsBorn
  <2>3. a \in Int /\ ev[k] \in Int
    BY <2>1, <2>2 DEF Buffers
  <2>4. a \in ToSet(ev)
    <3>1. a \notin ToSet(deferredOps)
      BY <1>2, <2>1, <2>2, <2>3 DEF Less
    <3> QED BY <1>1, <2>2, <3>1
  <2>5. PICK j \in DOMAIN ev : ev[j] = a
    BY <2>4 DEF ToSet
  <2>6. DOMAIN ev = 1..Len(ev) /\ Len(ev) \in Nat
    BY <1>1
  <2>7. j < k
    <3> SUFFICES ASSUME ~(j < k) PROVE FALSE
      OBVIOUS
    <3>1. j = k \/ k < j
      BY <2>6
    <3>2. k < j => ev[k] < ev[j]
      BY <1>2 DEF Climbs
    <3> QED BY <2>2, <2>3, <2>5, <3>1, <3>2
  <2> QED BY <2>2, <2>5, <2>6, <2>7
<1> QED BY <1>2, <1>7, <1>8 DEF A

\* The plan materializes what the events that are left read.
LEMMA PrepareCloses ==
    ASSUME Firm, Queued, Prepare
    PROVE  ClosedInv'
<1> USE DEF bufferVars, workerVars, queueVars
<1> DEFINE T == PrepareTraversals(mat.events, mat.task.nodes, Held)
           A == Alive(mat.events, Held)
           ev == mat.events
           P == Plan(T, "split")
<1>0. /\ Context /\ Tracking /\ TypeInv /\ BuffersTypeOK /\ MatType /\ mat.pc = "prepare"
      /\ UNCHANGED <<kind, inputs, state, live, call, deferredOps, matQ, deploy>>
      /\ ev \in Seq(Buffers) /\ deferredOps \in Seq(Buffers)
      /\ mat.task.nodes \in SUBSET Buffers /\ EffectsInv /\ ClosedInv
      /\ Ground
  BY DEF Firm, Ground, Context, TypeInv, TypeOK, QueueTypeOK, MatType, Prepare, MatTask
<1>1. /\ mat'.plan = Plan(T, mat.task.mode) /\ mat'.task = mat.task /\ mat'.events = <<>>
      /\ mat'.pc = IF mat'.plan = <<>> THEN "publish" ELSE "build"
  BY <1>0 DEF Prepare, MatType, Plan
<1>2. Solo' = Solo /\ SoloSplits' = SoloSplits /\ Stays /\ Queue' = deferredOps
  BY <1>0, <1>1, ConcatEmptySeq DEF Solo, SoloSplits, Stays, Born, Queue
<1>3. TasksPlain'
  BY <1>0, <1>1, PlainKept DEF PlainQueue, ClosedInv
<1>4. Solo => RecordReads'
  BY <1>0, <1>2, RecordsKept DEF ClosedInv
<1>5. SoloSplits => QueueClosed' /\ PlanClosed'
  <2> SUFFICES ASSUME SoloSplits PROVE QueueClosed' /\ PlanClosed'
    OBVIOUS
  <2>1. mat'.plan = P
    BY <1>0, <1>1 DEF ClosedInv, TasksPlain, PlainTask, SoloSplits
  <2>2. Graph
    BY <1>0 DEF Graph, ClosedInv, ReadEarlier, ConstantsReadNothing, Tracking, Refer, InputsBorn
  <2>3. /\ \A c \in ToSet(Queue) : c \in A /\ IsDeferred(c) =>
              \A i \in inputs[c] : IsDeferred(i) /\ ~IsConstant(i) => i \in A /\ i \in ToSet(Queue)
        /\ ClosedOn(ev, A) /\ Climbs(ev) /\ Less(ToSet(ev), ToSet(deferredOps))
    BY <1>0, AliveReads
  <2>4. /\ Fit(T, ev)
        /\ \A x \in ToSet(ev) : x \in A /\ IsDeferred(x) => \E d \in DOMAIN T : x \in ToSet(T[d].order)
    BY <1>0, <2>2, <2>3, PreparedFits
  <2>5. ToSet(Queue) = ToSet(ev) \cup ToSet(deferredOps) /\ \A b \in ToSet(Queue) : b \in Buffers
    <3>1. Queue \in Seq(Buffers) /\ ToSet(Queue) = ToSet(ev) \cup ToSet(deferredOps)
      BY <1>0, QueueParts
    <3>2. \A b \in ToSet(Queue) : b \in Buffers
      <4> HIDE DEF ev
      <4> QED BY <3>1 DEF ToSet
    <3> QED BY <3>1, <3>2
  <2>6. /\ A \in SUBSET Buffers
        /\ \A c \in A : inputs[c] \subseteq A
        /\ \A b \in Buffers : \/ b \in live \/ b \in Held
                              \/ b \in ToSet(Queue) /\ kind[b] = "collective"
                              => b \in A
    BY <1>0, AliveCloses DEF Queue
  <2> HIDE DEF T, A
  <2>7. PlanClosed'
    <3> SUFFICES ASSUME NEW j \in DOMAIN P, NEW a \in Buffers, a \in P[j].args, IsDeferred(a)
                 PROVE  CoverBefore(P, j, a)
      BY <1>0, <2>1 DEF PlanClosed, IsDeferred
    <3> QED BY <2>2, <2>4, PlanArgs
  <2> DEFINE S == A \cup {b \in Buffers : ~IsDeferred(b)}
  <2>8. ASSUME NEW b \in Buffers, Root(b)' PROVE b \in S
    <3>1. \/ b \in live \/ (\E t \in Threads : call[t].out = b) \/ ~IsDeferred(b)
          \/ b \in ToSet(deferredOps) /\ kind[b] = "collective"
      BY <1>0, <1>2, <2>8 DEF Root, IsDeferred
    <3>2. ASSUME NEW t \in Threads, call[t].out = b PROVE b \in Held
      <4>1. b # NoBuffer
        BY DEF Buffers, NoBuffer
      <4>2. b \in HeldByCall(call[t])
        BY <3>2, <4>1 DEF HeldByCall
      <4> QED BY <4>2, HeldBuffers
    <3> QED BY <2>5, <2>6, <3>1, <3>2
  <2>9. \A c \in S : inputs[c] \subseteq S
    <3>1. \A c \in Buffers : ~IsDeferred(c) => inputs[c] = {}
      BY <1>0 DEF Tracking, Consumed
    <3> QED BY <2>6, <3>1
  <2>10. ASSUME NEW c \in ToSet(deferredOps), c \in S, IsDeferred(c),
                NEW i \in inputs[c], IsDeferred(i), ~IsConstant(i)
         PROVE  i \in ToSet(deferredOps) \/ (mat'.pc = "build" /\ Cover(mat'.plan, i))
    <3>1. c \in A /\ c \in ToSet(Queue) /\ c \in Buffers
      BY <2>5, <2>10
    <3>2. i \in A /\ i \in ToSet(Queue)
      BY <2>3, <2>10, <3>1
    <3>3. CASE i \in ToSet(ev)
      <4>1. PICK d \in DOMAIN T : i \in ToSet(T[d].order)
        BY <2>4, <2>10, <3>2, <3>3
      <4>2. \A x \in ToSet(T[d].order) : ~IsConstant(x) => x < c
        <5>1. MadeFrom(T, ev)
          BY <2>4 DEF Fit
        <5> QED BY <2>3, <2>10, <4>1, <5>1 DEF MadeFrom, Less
      <4>3. Cover(P, i)
        BY <2>2, <2>4, <2>10, <3>1, <4>1, <4>2, PlanGives
      <4>4. P # <<>>
        BY <4>3 DEF Cover
      <4> QED BY <1>1, <2>1, <4>3, <4>4
    <3> QED BY <2>5, <3>2, <3>3
  <2> HIDE DEF S, P
  <2>11. \A b \in Buffers : Root(b)' => b \in S
    BY <2>8
  <2>12. \A c \in ToSet(Queue') \cap S : IsDeferred(c) =>
            \A i \in inputs[c] : IsDeferred(i) /\ ~IsConstant(i) => Pends(i)'
    BY <1>2, <2>10 DEF Pends
  <2>13. S \in SUBSET Buffers
    BY <2>6 DEF S
  <2>14. \E R \in SUBSET Buffers :
            /\ \A b \in Buffers : Root(b)' => b \in R
            /\ \A c \in R : inputs'[c] \subseteq R
            /\ \A c \in ToSet(Queue') \cap R : IsDeferred(c)' =>
                  \A i \in inputs'[c] : IsDeferred(i)' /\ ~IsConstant(i)' => Pends(i)'
    BY <1>0, <2>9, <2>11, <2>12, <2>13 DEF IsDeferred, IsConstant
  <2>15. QueueClosed'
    BY <2>14 DEF QueueClosed, ClosedFor
  <2> QED BY <2>7, <2>15
<1> QED BY <1>2, <1>3, <1>4, <1>5 DEF Firm, ClosedInv

(***************************************************************************)
(* The invariant, and the theorem.                                         *)
(***************************************************************************)
LEMMA ClosedInit == Init => ClosedInv
<1> SUFFICES ASSUME Init PROVE ClosedInv
  OBVIOUS
<1>1. /\ \A t \in Threads : call[t] = Idle
      /\ inputs = [b \in Buffers |-> {}] /\ mat.task = NoTask /\ matQ = <<>>
      /\ mat.events = <<>> /\ mat.plan = <<>> /\ deferredOps = <<>>
  BY DEF Init, BuffersInit, QueueInit
<1>2. Idle.pc = "idle" /\ Queue = <<>> /\ ToSet(<<>>) = {} /\ DOMAIN <<>> = {}
  BY <1>1 DEF Idle, Queue, ToSet
<1>3. TasksPlain /\ Children /\ RecordReads /\ PlanClosed
  BY <1>1, <1>2 DEF TasksPlain, PlainTask, NoTask, Children, RecordReads, PlanClosed
<1>4. ClosedFor(Buffers)
  BY <1>1, <1>2 DEF ClosedFor
<1> QED BY <1>3, <1>4 DEF ClosedInv, QueueClosed

LEMMA ClosedNext ==
    ASSUME Context, Context', Tracking, Callers, EffectsInv, Queued, ClosedInv, [Next]_vars
    PROVE  ClosedInv'
<1>1. TypeInv /\ Life /\ ServedInv /\ Fresh /\ Consumed /\ InputsBorn /\ Children
  BY DEF Context, ServedInv, Tracking, Refer, ClosedInv
<1>2. BufferStep /\ Moves
  BY <1>1, BufferSteps, StatesMove
<1>3. GraphStep /\ Consumed' /\ Children'
  BY <1>1, <1>2, GraphSteps, ChildrenStep
<1>4. Firm
  BY <1>2, <1>3 DEF Firm, Ground
<1> QED BY <1>4, DispatchCloses, AsideCloses, DequeueCloses, PrepareCloses, BuildCloses, AnswerCloses,
           RestingStep
        DEF Next, Rests, MaterializeLoop

\* The argument of a traversal that is about to be built would have to be
\* an output of an earlier one.
LEMMA HeadArguments ==
    ASSUME Context, Tracking, ClosedInv
    PROVE  NoDeferredArgument
<1> SUFFICES ASSUME SoloSplits
             PROVE  /\ mat.pc = "build" =>
                          \A b \in Arguments : IsMaterializing(b) \/ state[b] = "unborn"
                    /\ \A t \in Threads : call[t].pc = "create" =>
                          \A b \in call[t].nodes : IsMaterializing(b)
  BY DEF NoDeferredArgument, SoloSplits
<1>1. ASSUME mat.pc = "build", NEW b \in Arguments
      PROVE  IsMaterializing(b) \/ state[b] = "unborn"
  <2>1. mat.plan \in Seq(Traversals) /\ mat.plan # <<>>
    BY <1>1 DEF Tracking, PlanTyped
  <2>2. 1 \in DOMAIN mat.plan /\ Head(mat.plan) = mat.plan[1]
    BY <2>1
  <2>3. b \in Buffers /\ b \in mat.plan[1].args
    BY <2>2 DEF Arguments
  <2>4. ~CoverBefore(mat.plan, 1, b)
    BY DEF CoverBefore
  <2>5. ~IsDeferred(b)
    BY <2>2, <2>3, <2>4 DEF ClosedInv, PlanClosed
  <2>6. state[b] \in States
    BY <2>3 DEF Context, TypeInv, TypeOK, BuffersTypeOK
  <2> QED BY <2>5, <2>6 DEF IsDeferred, IsMaterializing, States
<1> QED BY <1>1 DEF Context, ServedInv, ArgumentsReady

(***************************************************************************)
(* Theorem: when one thread dispatches and graphs are split, no traversal  *)
(* is built and no executable is called with an argument that is still     *)
(* deferred, whatever was dropped, materialized or failed before: what     *)
(* FromTraversal and FromExecutable would refuse does not occur.           *)
(***************************************************************************)
THEOREM ArgumentsAreNeverDeferred == Spec => []NoDeferredArgument
<1> DEFINE IInv == Context /\ Tracking /\ Callers /\ EffectsInv /\ Queued /\ ClosedInv
<1>1. Init => IInv
  BY TypeInit, LifeInit, CallsInit, ServedInit, TrackingInit, CallersInit, EffectsInit,
     QueuedInit, ClosedInit DEF Context
<1>2. IInv /\ [Next]_vars => IInv'
  <2> SUFFICES ASSUME IInv, [Next]_vars PROVE IInv'
    OBVIOUS
  <2>1. Context' /\ Tracking' /\ Callers' /\ Queued'
    BY TypeNext, LifeNext, CallsNext, ServedNext, TrackingNext, CallersNext, QueuedNext DEF Context
  <2> QED BY <2>1, EffectsNext, ClosedNext
<1>3. IInv => NoDeferredArgument
  BY HeadArguments
<1> QED BY <1>1, <1>2, <1>3, PTL DEF Spec
=============================================================================
