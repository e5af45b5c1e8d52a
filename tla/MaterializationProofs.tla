----------------------- MODULE MaterializationProofs ------------------------
(***************************************************************************)
(* Proofs about Materialization, for any dispatch threads, any deployments *)
(* and any number of buffers.                                              *)
(***************************************************************************)
EXTENDS Materialization, SequenceTheorems, FiniteSetTheorems, TLAPS

\* A call that has created a buffer knows it.
CallType ==
    {c \in [pc: CallPCs, nodes: SUBSET Buffers, out: Buffers \cup {NoBuffer},
            why: Purposes, ok: BOOLEAN] :
        c.pc \in {"record", "dispatch", "tensor", "push"} \/ c.why = "heuristic"
            => c.out \in Buffers}

(***************************************************************************)
(* The parts of the type invariant, and what single operators preserve.    *)
(***************************************************************************)
MatType ==
    /\ mat.pc \in MatPCs /\ mat.task \in MatTask
    /\ mat.events \in Seq(Buffers) /\ mat.batch \in Seq(ExecTask) /\ mat.err \in BOOLEAN
    /\ mat = [pc |-> mat.pc, task |-> mat.task, events |-> mat.events,
              plan |-> mat.plan, batch |-> mat.batch, err |-> mat.err]
ExType == ex \in [pc: {"idle", "run", "stopped"}, task: ExecTask]
CallsType == call \in [Threads -> CallType]
TypeInv == TypeOK /\ CallsType

\* Everything but what the device still computes.
programVars ==
    <<next, kind, inputs, state, live, lastChild, queueVars, deploy, call, workerVars, crashed>>

\* A step of the device, like no step, leaves the program alone.
Rests == UNCHANGED vars \/ \E b \in Buffers : DeviceFinishes(b)

LEMMA RestingStep ==
    ASSUME Rests
    PROVE  UNCHANGED programVars
BY DEF Rests, DeviceFinishes, programVars, vars, bufferVars, queueVars, workerVars

\* The task that runs sets the promises of outputs S to s.
Settles(S, s) ==
    /\ S \subseteq ex.task.outs /\ s \in Settled /\ Become(S, s)
    /\ ex'.task.outs = ex.task.outs \ S
    /\ ex'.task.args \subseteq ex.task.args
    /\ ex'.task.effects \subseteq ex.task.effects
    /\ s = "ok" => ex.pc = "run"
    /\ UNCHANGED <<live, queueVars, deploy, call, matQ, execQ, mat, closer, crashed>>

LEMMA TaskSettles ==
    ASSUME ExType, RunTask \/ FailTask
    PROVE  \E S, s : Settles(S, s)
<1>0. NoExecTask.outs = {} /\ NoExecTask.args = {} /\ NoExecTask.effects = {}
  BY DEF NoExecTask
<1>1. CASE FailTask
  <2>1. Settles(ex.task.outs, "error")
    BY <1>0, <1>1 DEF FailTask, Settles, SetAsError, Settled
  <2> QED BY <2>1
<1>2. CASE RunTask
  <2>1. PICK b \in ex.task.outs :
          /\ SetAsMaterialized({b})
          /\ ex' = IF ex.task.outs = {b} THEN [pc |-> "idle", task |-> NoExecTask]
                   ELSE [ex EXCEPT !.task.outs = @ \ {b}]
    BY <1>2 DEF RunTask
  <2>2. /\ ex'.task.outs = ex.task.outs \ {b}
        /\ ex'.task.args \subseteq ex.task.args
        /\ ex'.task.effects \subseteq ex.task.effects
    BY <1>0, <2>1 DEF ExType, ExecTask
  <2>3. Settles({b}, "ok")
    BY <1>2, <2>1, <2>2 DEF RunTask, Settles, SetAsMaterialized, Settled
  <2> QED BY <2>3
<1> QED BY <1>1, <1>2

\* A thread of a deployment is a dispatch thread.
LEMMA DeployedThread ==
    ASSUME deploy \in Deployments, NEW t, t \in deploy.threads
    PROVE  t \in Threads
BY DeploymentsAssumption DEF Deployment

\* TakeUntilNodes cuts the queue of deferred ops in two.
LEMMA TakenEvents ==
    ASSUME QueueTypeOK, NEW S
    PROVE  /\ TakeUntilNodes(S).taken \in Seq(Buffers)
           /\ TakeUntilNodes(S).rest \in Seq(Buffers)
<1> DEFINE n == Len(deferredOps)
           T == {j \in 1..n : \E k \in j..n : deferredOps[k] \in S}
<1>1. n \in Nat /\ deferredOps \in Seq(Buffers)
  BY DEF QueueTypeOK
<1>2. IsFiniteSet(1..n) /\ Cardinality(1..n) = n
  BY <1>1, FS_Interval
<1>3. Cardinality(T) \in Nat /\ Cardinality(T) <= n
  <2>1. T \subseteq 1..n
    OBVIOUS
  <2> QED BY <2>1, <1>2, FS_Subset, FS_CardinalityType
<1>4. /\ TakeUntilNodes(S).taken = SubSeq(deferredOps, 1, Cardinality(T))
      /\ TakeUntilNodes(S).rest = SubSeq(deferredOps, Cardinality(T) + 1, n)
  BY DEF TakeUntilNodes
<1> HIDE DEF T
<1>5. /\ SubSeq(deferredOps, 1, Cardinality(T)) \in Seq(Buffers)
      /\ SubSeq(deferredOps, Cardinality(T) + 1, n) \in Seq(Buffers)
  BY <1>1, <1>3, SubSeqProperties
<1> QED BY <1>4, <1>5

\* Settling buffers, or making them pending, keeps the types.
LEMMA BecomeType ==
    ASSUME BuffersTypeOK, NEW S, NEW s \in States, Become(S, s), live' = live
    PROVE  BuffersTypeOK'
<1>1. busy' \subseteq Buffers
  BY DEF BuffersTypeOK, Become
<1>2. /\ next' \in 1..(MaxBuffers + 1) /\ live' \subseteq Buffers
      /\ kind' \in [Buffers -> Kinds] /\ inputs' \in [Buffers -> SUBSET Buffers]
      /\ state' \in [Buffers -> States] /\ lastChild' \in [Buffers -> 0..MaxBuffers]
  BY MaxBuffersAssumption DEF BuffersTypeOK, Become, Buffers, Kinds, States
<1> QED BY <1>1, <1>2 DEF BuffersTypeOK

LEMMA CreateType ==
    ASSUME BuffersTypeOK, live' = live, NEW k \in Kinds, NEW ins \in SUBSET Buffers,
           CreateDeferred(k, ins) \/ CreatePending
    PROVE  BuffersTypeOK'
<1>1. CASE CreateDeferred(k, ins)
  BY <1>1, MaxBuffersAssumption DEF BuffersTypeOK, CreateDeferred, Buffers, States, IsDeferred
<1>2. CASE CreatePending
  BY <1>2, MaxBuffersAssumption DEF BuffersTypeOK, CreatePending, Buffers, States
<1> QED BY <1>1, <1>2

LEMMA MatRecord ==
    ASSUME NEW pc \in MatPCs, NEW task \in MatTask, NEW events \in Seq(Buffers), NEW plan,
           NEW batch \in Seq(ExecTask), NEW err \in BOOLEAN,
           mat' = [pc |-> pc, task |-> task, events |-> events, plan |-> plan,
                   batch |-> batch, err |-> err]
    PROVE  MatType'
BY DEF MatType

\* A call that changes keeps its type.
LEMMA GoType ==
    ASSUME CallsType, NEW t \in Threads, NEW c \in CallType, Go(t, c)
    PROVE  CallsType'
BY DEF CallsType, Go

LEMMA IdleType == Idle \in CallType
BY DEF Idle, CallType, CallPCs, Purposes, NoBuffer

LEMMA StepType ==
    ASSUME CallsType, NEW t \in Threads, NEW pc \in CallPCs, Step(t, pc),
           pc \in {"record", "dispatch", "tensor", "push"} => call[t].out \in Buffers
    PROVE  CallsType'
BY DEF CallsType, Step, Go, CallType

LEMMA GoMakeTensorType ==
    ASSUME CallsType, NEW t \in Threads, call[t].out \in Buffers, GoMakeTensor(t)
    PROVE  CallsType'
BY DEF CallsType, GoMakeTensor, Go, CallType, Idle, CallPCs, Purposes

LEMMA EnqueueType ==
    ASSUME CallsType, matQ \in Seq(MatTask), NEW t \in Threads, NEW c \in CallType,
           NEW task \in MatTask, Enqueue(t, c, task)
    PROVE  CallsType' /\ matQ' \in Seq(MatTask)
<1>1. [c EXCEPT !.pc = "wait"] \in CallType
  BY DEF CallType, CallPCs
<1> QED BY <1>1, GoType, IdleType DEF Enqueue

LEMMA MaterializeType ==
    ASSUME CallsType, matQ \in Seq(MatTask), NEW t \in Threads, NEW c \in CallType,
           NEW mode \in Modes, NEW pc \in CallPCs, Materialize(t, c, mode, pc),
           pc \in {"record", "dispatch", "tensor", "push"} => c.out \in Buffers
    PROVE  CallsType' /\ matQ' \in Seq(MatTask)
<1> DEFINE D == {b \in c.nodes : IsDeferred(b)}
           task == [kind |-> "nodes", nodes |-> D, mode |-> mode, from |-> t]
<1>1. task \in MatTask
  BY DEF CallType, MatTask
<1>2. [c EXCEPT !.pc = pc] \in CallType
  BY DEF CallType
<1>3. CASE D = {}
  BY <1>3, <1>2, GoType DEF Materialize
<1>4. CASE D # {}
  <2>1. Enqueue(t, c, task)
    BY <1>4 DEF Materialize
  <2> QED BY <2>1, <1>1, EnqueueType
<1> QED BY <1>3, <1>4

(***************************************************************************)
(* Type correctness.                                                       *)
(***************************************************************************)
LEMMA TypeInit == Init => TypeInv
<1> SUFFICES ASSUME Init PROVE TypeInv
  OBVIOUS
<1>1. BuffersTypeOK
  BY MaxBuffersAssumption DEF Init, BuffersInit, BuffersTypeOK, Kinds, States, Buffers
<1>2. QueueTypeOK
  BY DEF Init, QueueInit, QueueTypeOK
<1>3. CallsType
  BY IdleType DEF Init, CallsType
<1>4. NoTask \in MatTask /\ NoExecTask \in ExecTask
  BY DEF NoTask, MatTask, NoThread, Modes, NoExecTask, ExecTask
<1>5. MatType /\ ExType
  BY <1>4 DEF Init, MatType, ExType, MatPCs
<1>6. failed \in 0..deploy.failures
  BY DeploymentsAssumption DEF Init, Deployment
<1> QED
  BY <1>1, <1>2, <1>3, <1>5, <1>6
  DEF Init, TypeInv, TypeOK, CallsType, CallType, MatType, ExType, CloserPCs

LEMMA TypeBegin ==
    ASSUME TypeInv, NEW t \in Threads, Begin(t)
    PROVE  TypeInv'
<1> USE DEF vars, bufferVars, queueVars, workerVars
<1>0. CallsType /\ matQ \in Seq(MatTask) /\ BuffersTypeOK
  BY DEF TypeInv, TypeOK, CallsType, CallType
<1>1. ASSUME NEW k \in Kinds, NEW ins \in SUBSET Buffers, CreateOp(t, k, ins)
      PROVE  TypeInv'
  <2>1. BuffersTypeOK'
    BY <1>0, <1>1, CreateType DEF CreateOp
  <2>2. next \in Buffers
    BY <1>1 DEF CreateOp, CreateDeferred
  <2>3. [Idle EXCEPT !.pc = "record", !.out = next] \in CallType
    BY <2>2 DEF Idle, CallType, CallPCs, Purposes
  <2>4. CallsType'
    BY <1>0, <1>1, <2>3, GoType DEF CreateOp
  <2> QED
    BY <1>1, <2>1, <2>4 DEF TypeInv, TypeOK, CreateOp, CallsType, CallType, QueueTypeOK
<1>2. ASSUME NEW b \in Buffers, DropTensor(t, b)
      PROVE  TypeInv'
  BY <1>2 DEF TypeInv, TypeOK, CallsType, DropTensor, BuffersTypeOK, QueueTypeOK
<1>3. ASSUME NEW b \in Buffers, ReadTensor(t, b)
      PROVE  TypeInv'
  <2>1. [Idle EXCEPT !.nodes = {b}, !.why = "read"] \in CallType
    BY DEF Idle, CallType, CallPCs, Purposes, NoBuffer
  <2>2. CallsType' /\ matQ' \in Seq(MatTask)
    BY <1>0, <1>3, <2>1, MaterializeType DEF ReadTensor, Modes, CallPCs
  <2> QED
    BY <1>3, <2>2 DEF TypeInv, TypeOK, ReadTensor, CallsType, CallType, BuffersTypeOK, QueueTypeOK
<1>4. ASSUME SyncStream(t)
      PROVE  TypeInv'
  <2>1. [Idle EXCEPT !.nodes = {b \in live : ~IsConstant(b)}, !.why = "sync"] \in CallType
    BY <1>0 DEF Idle, CallType, CallPCs, Purposes, NoBuffer, BuffersTypeOK
  <2>2. [kind |-> "stream", nodes |-> {}, mode |-> "split", from |-> t] \in MatTask
    BY DEF MatTask, Modes
  <2>3. CallsType' /\ matQ' \in Seq(MatTask)
    BY <1>0, <1>4, <2>1, <2>2, EnqueueType DEF SyncStream
  <2> QED
    BY <1>4, <2>3 DEF TypeInv, TypeOK, SyncStream, CallsType, CallType, BuffersTypeOK, QueueTypeOK
<1>5. ASSUME NEW args \in SUBSET Buffers, ExecuteModel(t, args)
      PROVE  TypeInv'
  <2>1. [Idle EXCEPT !.nodes = args, !.why = "execute"] \in CallType
    BY DEF Idle, CallType, CallPCs, Purposes, NoBuffer
  <2>2. CallsType' /\ matQ' \in Seq(MatTask)
    BY <1>0, <1>5, <2>1, MaterializeType DEF ExecuteModel, Modes, CallPCs
  <2> QED
    BY <1>5, <2>2 DEF TypeInv, TypeOK, ExecuteModel, CallsType, CallType, BuffersTypeOK, QueueTypeOK
<1> QED BY <1>1, <1>2, <1>3, <1>4, <1>5 DEF Begin

LEMMA TypeContinue ==
    ASSUME TypeInv, NEW t \in Threads, Continue(t)
    PROVE  TypeInv'
<1> USE DEF vars, bufferVars, queueVars, workerVars
<1>0. /\ CallsType /\ matQ \in Seq(MatTask) /\ BuffersTypeOK /\ call[t] \in CallType
      /\ deploy \in Deployment
  BY DeploymentsAssumption DEF TypeInv, TypeOK, CallsType
<1>1. CASE RecordOp(t)
  <2>1. call[t].out \in Buffers
    BY <1>0, <1>1 DEF RecordOp, CallType, At
  <2>2. CallsType'
    BY <1>0, <1>1, <2>1, StepType DEF RecordOp, CallPCs
  <2>3. deferredOps' \in Seq(Buffers)
    BY <1>1, <2>1 DEF TypeInv, TypeOK, RecordOp, RecordDeferredOpCreated, QueueTypeOK
  <2> QED
    BY <1>1, <2>2, <2>3
    DEF TypeInv, TypeOK, RecordOp, CallsType, CallType, BuffersTypeOK, QueueTypeOK
<1>2. CASE DispatchPlain(t)
  <2>1. CallsType'
    BY <1>0, <1>2, GoMakeTensorType DEF DispatchPlain, CallType, At
  <2> QED
    BY <1>2, <2>1
    DEF TypeInv, TypeOK, DispatchPlain, CallsType, CallType, BuffersTypeOK, QueueTypeOK
<1>3. CASE DispatchRepeated(t)
  <2> DEFINE c == [call[t] EXCEPT !.nodes = {call[t].out}, !.why = "heuristic"]
  <2>1. c \in CallType /\ c.out \in Buffers
    BY <1>0, <1>3 DEF DispatchRepeated, CallType, At, Purposes
  <2>2. deploy.mode \in Modes
    BY <1>0 DEF Deployment, Modes
  <2>3. CallsType' /\ matQ' \in Seq(MatTask)
    <3>1. CASE IsDeferred(call[t].out)
      <4>1. Materialize(t, c, deploy.mode, "tensor")
        BY <1>3, <3>1 DEF DispatchRepeated
      <4> HIDE DEF c
      <4> QED BY <4>1, <1>0, <2>1, <2>2, MaterializeType DEF CallPCs
    <3>2. CASE ~IsDeferred(call[t].out)
      BY <1>0, <1>3, <3>2 DEF DispatchRepeated, CallsType
    <3> QED BY <3>1, <3>2
  <2>4. crashed' \in {"no", "heuristic", "graph_key"}
    BY <1>3 DEF TypeInv, TypeOK, DispatchRepeated
  <2> QED
    BY <1>3, <2>3, <2>4
    DEF TypeInv, TypeOK, DispatchRepeated, CallsType, CallType, BuffersTypeOK, QueueTypeOK
<1>4. CASE MakeTensor(t)
  <2>1. call[t].out \in Buffers
    BY <1>0, <1>4 DEF MakeTensor, CallType, At
  <2>2. CallsType'
    BY <1>0, <1>4, IdleType, GoType DEF MakeTensor
  <2> QED
    BY <1>4, <2>1, <2>2
    DEF TypeInv, TypeOK, MakeTensor, CallsType, CallType, BuffersTypeOK, QueueTypeOK
<1>5. CASE Resume(t)
  <2>1. CASE Go(t, Idle)
    <3>1. CallsType'
      BY <1>0, <2>1, IdleType, GoType
    <3> QED
      BY <1>5, <3>1
      DEF TypeInv, TypeOK, Resume, CallsType, CallType, BuffersTypeOK, QueueTypeOK
  <2>2. CASE call[t].why = "heuristic" /\ GoMakeTensor(t)
    <3>1. CallsType'
      BY <1>0, <2>2, GoMakeTensorType DEF CallType
    <3> QED
      BY <1>5, <3>1
      DEF TypeInv, TypeOK, Resume, CallsType, CallType, BuffersTypeOK, QueueTypeOK
  <2>3. CASE Step(t, "read") \/ Step(t, "create") \/ Step(t, "sync")
    <3>1. CallsType'
      BY <1>0, <2>3, StepType DEF CallPCs
    <3> QED
      BY <1>5, <3>1
      DEF TypeInv, TypeOK, Resume, CallsType, CallType, BuffersTypeOK, QueueTypeOK
  <2> QED BY <1>5, <2>1, <2>2, <2>3 DEF Resume
<1>6. CASE AwaitBuffers(t)
  <2>1. CallsType'
    BY <1>0, <1>6, IdleType, GoType DEF AwaitBuffers
  <2> QED
    BY <1>6, <2>1
    DEF TypeInv, TypeOK, AwaitBuffers, CallsType, CallType, BuffersTypeOK, QueueTypeOK
<1>7. CASE CreateOutput(t)
  <2>1. next \in Buffers
    BY <1>7 DEF CreateOutput, CreatePending
  <2>2. [call[t] EXCEPT !.pc = "push", !.out = next] \in CallType
    BY <1>0, <2>1 DEF CallType, CallPCs
  <2>3. CallsType'
    BY <1>0, <1>7, <2>2, IdleType, GoType DEF CreateOutput
  <2>4. BuffersTypeOK'
    BY <1>0, <1>7, CreateType DEF CreateOutput, Kinds
  <2>5. futures' \subseteq Buffers
    BY <1>7, <2>1 DEF TypeInv, TypeOK, CreateOutput, RecordBackgroundMaterialization,
                      PruneCompletedFutures, QueueTypeOK
  <2> QED
    BY <1>7, <2>3, <2>4, <2>5
    DEF TypeInv, TypeOK, CreateOutput, CallsType, CallType, QueueTypeOK
<1>8. CASE PushExecutable(t)
  <2> DEFINE task == [kind |-> "task", args |-> call[t].nodes, outs |-> {call[t].out},
                      effects |-> {}, compiled |-> TRUE]
  <2>1. call[t].out \in Buffers
    BY <1>0, <1>8 DEF PushExecutable, CallType, At
  <2>2. task \in ExecTask
    BY <1>0, <2>1 DEF ExecTask, CallType
  <2>3. execQ' \in Seq(ExecTask)
    <3>1. execQ' = execQ \/ execQ' = Append(execQ, task)
      BY <1>8 DEF PushExecutable
    <3>2. execQ \in Seq(ExecTask)
      BY DEF TypeInv, TypeOK
    <3> HIDE DEF task
    <3> QED BY <2>2, <3>1, <3>2
  <2>4. CallsType'
    BY <1>0, <1>8, <2>1, IdleType, GoType, GoMakeTensorType DEF PushExecutable
  <2>5. BuffersTypeOK'
    <3>1. CASE ShuttingDown
      BY <1>0, <1>8, <3>1, BecomeType DEF PushExecutable, SetAsError, States, Settled
    <3>2. CASE ~ShuttingDown
      BY <1>0, <1>8, <3>2 DEF PushExecutable, BuffersTypeOK
    <3> QED BY <3>1, <3>2
  <2> QED
    BY <1>8, <2>3, <2>4, <2>5
    DEF TypeInv, TypeOK, PushExecutable, CallsType, CallType, QueueTypeOK
<1> QED
  BY <1>1, <1>2, <1>3, <1>4, <1>5, <1>6, <1>7, <1>8 DEF Continue

LEMMA TypeMaterializeLoop ==
    ASSUME TypeInv, MaterializeLoop
    PROVE  TypeInv'
<1> USE DEF vars, bufferVars, queueVars, workerVars
<1>0. /\ CallsType /\ matQ \in Seq(MatTask) /\ BuffersTypeOK /\ QueueTypeOK /\ MatType
      /\ deploy \in Deployment
  BY DeploymentsAssumption DEF TypeInv, TypeOK, MatType
<1>a. Nodes \subseteq Buffers /\ Outputs \subseteq Buffers /\ Arguments \subseteq Buffers
  BY DEF Nodes, Outputs, Arguments
<1>b. ASSUME MayFail(\E b \in Arguments : state[b] \notin {"pending", "ok"})
      PROVE  failed' \in 0..deploy.failures
  BY <1>b, <1>0 DEF MayFail, TypeInv, TypeOK, Deployment
<1>1. CASE DequeueMaterializationTask
  <2>1. Head(matQ) \in MatTask /\ Tail(matQ) \in Seq(MatTask)
    BY <1>0, <1>1 DEF DequeueMaterializationTask
  <2> DEFINE task == Head(matQ)
             wanted == {b \in task.nodes : IsDeferred(b)}
             take == IF task.kind = "stream" THEN TakeAll ELSE TakeUntilNodes(wanted)
  <2>2. take.taken \in Seq(Buffers) /\ take.rest \in Seq(Buffers)
    BY <1>0, TakenEvents DEF TakeAll, QueueTypeOK
  <2>3. /\ mat' = [mat EXCEPT !.pc = "stopped"] /\ deferredOps' = deferredOps
        \/ /\ \/ mat' = [mat EXCEPT !.pc = "publish", !.task = task, !.events = take.taken]
              \/ mat' = [mat EXCEPT !.pc = "prepare", !.task = task, !.events = take.taken]
           /\ deferredOps' = take.rest
    BY <1>1 DEF DequeueMaterializationTask
  <2> HIDE DEF take
  <2>4. MatType' /\ deferredOps' \in Seq(Buffers)
    BY <1>0, <2>1, <2>2, <2>3 DEF MatType, MatPCs, QueueTypeOK
  <2> QED
    BY <1>1, <2>1, <2>4
    DEF TypeInv, TypeOK, DequeueMaterializationTask, CallsType, MatType, QueueTypeOK,
        BuffersTypeOK
<1>2. CASE Prepare
  <2>1. MatType'
    <3>a. PICK pc \in {"build", "publish"} : \E plan :
             mat' = [mat EXCEPT !.pc = pc, !.plan = plan, !.events = <<>>]
      BY <1>2 DEF Prepare
    <3>1. PICK plan : mat' = [mat EXCEPT !.pc = pc, !.plan = plan, !.events = <<>>]
      BY <3>a
    <3>2. mat' = [pc |-> pc, task |-> mat.task, events |-> <<>>, plan |-> plan,
                  batch |-> mat.batch, err |-> mat.err]
      BY <1>0, <3>1 DEF MatType
    <3> QED BY <1>0, <3>2, MatRecord DEF MatType, MatPCs
  <2> QED
    BY <1>2, <2>1 DEF TypeInv, TypeOK, Prepare, CallsType, MatType, QueueTypeOK, BuffersTypeOK
<1>3. CASE BuildTask
  <2> DEFINE task == [kind |-> "task", args |-> Arguments, outs |-> Outputs,
                      effects |-> CollectivesOf(Outputs), compiled |-> FALSE]
  <2>1. task \in ExecTask
    BY <1>a DEF ExecTask, CollectivesOf
  <2>2. mat' = [Built EXCEPT !.batch = Append(@, task)]
    BY <1>3 DEF BuildTask
  <2> HIDE DEF task
  <2>3. MatType'
    <3>1. mat' = [pc |-> Built.pc, task |-> mat.task, events |-> mat.events,
                  plan |-> Tail(mat.plan), batch |-> Append(mat.batch, task),
                  err |-> mat.err]
      BY <1>0, <2>2 DEF MatType, Built
    <3>2. Built.pc \in MatPCs
      BY <1>0 DEF MatType, Built, MatPCs
    <3>3. Append(mat.batch, task) \in Seq(ExecTask)
      BY <1>0, <2>1 DEF MatType
    <3> QED BY <1>0, <3>1, <3>2, <3>3, MatRecord DEF MatType
  <2>4. BuffersTypeOK'
    BY <1>0, <1>3, BecomeType DEF BuildTask, SetAsPendingMaterialization, States
  <2>5. futures' \subseteq Buffers
    BY <1>0, <1>3, <1>a
    DEF BuildTask, RecordBackgroundMaterialization, PruneCompletedFutures, QueueTypeOK
  <2> QED
    BY <1>3, <2>3, <2>4, <2>5
    DEF TypeInv, TypeOK, BuildTask, CallsType, MatType, QueueTypeOK
<1>4. CASE FailTraversal
  <2>1. MatType'
    BY <1>0, <1>4 DEF FailTraversal, Built, MatType, MatPCs
  <2>2. BuffersTypeOK'
    BY <1>0, <1>4, BecomeType DEF FailTraversal, SetAsError, States, Settled
  <2>3. failed' \in 0..deploy.failures
    BY <1>4, <1>b DEF FailTraversal
  <2> QED
    BY <1>4, <2>1, <2>2, <2>3
    DEF TypeInv, TypeOK, FailTraversal, CallsType, MatType, QueueTypeOK
<1>5. CASE AbortTraversal
  BY <1>5 DEF TypeInv, TypeOK, AbortTraversal, CallsType, BuffersTypeOK, QueueTypeOK
<1>6. CASE PublishTasks
  <2>1. execQ \o mat.batch \in Seq(ExecTask)
    BY <1>0, ConcatProperties DEF TypeInv, TypeOK, MatType
  <2>2. MatType'
    <3>1. mat' = [pc |-> "answer", task |-> mat.task, events |-> mat.events,
                  plan |-> mat.plan, batch |-> <<>>, err |-> mat.err]
      BY <1>0, <1>6 DEF PublishTasks, MatType
    <3> QED BY <1>0, <3>1, MatRecord DEF MatType, MatPCs
  <2> QED
    BY <1>6, <2>1, <2>2
    DEF TypeInv, TypeOK, PublishTasks, CallsType, MatType, BuffersTypeOK, QueueTypeOK
<1>7. CASE AnswerTask
  <2> DEFINE t == mat.task.from
  <2>1. MatType'
    <3>1. NoTask \in MatTask
      BY DEF NoTask, MatTask, Modes
    <3> QED BY <1>0, <1>7, <3>1 DEF AnswerTask, MatType, MatPCs
  <2>2. BuffersTypeOK'
    <3>1. CASE mat.task.kind = "nodes"
      BY <1>0, <1>7, <3>1, BecomeType DEF AnswerTask, SetAsError, States, Settled
    <3>2. CASE mat.task.kind # "nodes"
      BY <1>0, <1>7, <3>2 DEF AnswerTask, BuffersTypeOK
    <3> QED BY <3>1, <3>2
  <2>3. futures' \subseteq Buffers
    BY <1>0, <1>7 DEF AnswerTask, JoinFutures, PruneCompletedFutures, QueueTypeOK
  <2>4. CallsType'
    <3>1. ASSUME NEW ok \in BOOLEAN, NEW nodes, Answer(t, ok, nodes),
                 t \in Threads => nodes \in SUBSET Buffers
          PROVE  CallsType'
      <4>1. CASE t \in Threads
        <5>1. call[t] \in CallType
          BY <1>0, <4>1 DEF CallsType
        <5>2. [call[t] EXCEPT !.pc = "answered", !.ok = ok, !.nodes = nodes] \in CallType
          BY <3>1, <4>1, <5>1 DEF CallType, CallPCs
        <5>3. call' = [call EXCEPT ![t] =
                          [call[t] EXCEPT !.pc = "answered", !.ok = ok, !.nodes = nodes]]
          BY <1>0, <3>1, <4>1, <5>1 DEF Answer, CallsType, CallType
        <5> QED BY <1>0, <4>1, <5>2, <5>3 DEF CallsType
      <4>2. CASE t \notin Threads
        BY <1>0, <3>1, <4>2 DEF CallsType, Answer
      <4> QED BY <4>1, <4>2
    <3>2. (~mat.err) \in BOOLEAN /\ (t \in Threads => call[t].nodes \in SUBSET Buffers)
      BY <1>0 DEF MatType, CallsType, CallType
    <3>3. {} \in SUBSET Buffers /\ JoinFutures \in SUBSET Buffers
      BY <1>0 DEF JoinFutures, PruneCompletedFutures, QueueTypeOK
    <3>4. \/ Answer(t, ~mat.err, call[t].nodes)
          \/ Answer(t, ~mat.err, {})
          \/ Answer(t, ~mat.err, JoinFutures)
      BY <1>7 DEF AnswerTask
    <3> QED BY <3>1, <3>2, <3>3, <3>4
  <2> QED
    BY <1>7, <2>1, <2>2, <2>3, <2>4
    DEF TypeInv, TypeOK, AnswerTask, CallsType, CallType, MatType, QueueTypeOK
<1> QED
  BY <1>1, <1>2, <1>3, <1>4, <1>5, <1>6, <1>7 DEF MaterializeLoop

LEMMA TypeExecuteLoop ==
    ASSUME TypeInv, ExecuteLoop
    PROVE  TypeInv'
<1> USE DEF vars, bufferVars, queueVars, workerVars
<1>0. /\ execQ \in Seq(ExecTask) /\ BuffersTypeOK /\ ExType /\ NoExecTask \in ExecTask
      /\ deploy \in Deployment /\ failed \in 0..deploy.failures
  BY DeploymentsAssumption DEF TypeInv, TypeOK, ExType, NoExecTask, ExecTask
<1>1. CASE DequeueExecutionTask
  <2>1. ExType' /\ execQ' \in Seq(ExecTask)
    BY <1>0, <1>1 DEF DequeueExecutionTask, ExType
  <2> QED
    BY <1>1, <2>1
    DEF TypeInv, TypeOK, DequeueExecutionTask, CallsType, ExType, BuffersTypeOK, QueueTypeOK
<1>2. CASE RunTask
  <2>1. BuffersTypeOK'
    BY <1>0, <1>2, BecomeType DEF RunTask, SetAsMaterialized, States, Settled
  <2>2. ExType'
    BY <1>0, <1>2 DEF RunTask, ExType, ExecTask
  <2> QED
    BY <1>2, <2>1, <2>2 DEF TypeInv, TypeOK, RunTask, CallsType, ExType, QueueTypeOK
<1>3. CASE FailTask
  <2>1. BuffersTypeOK'
    BY <1>0, <1>3, BecomeType DEF FailTask, SetAsError, States, Settled
  <2>2. ExType'
    BY <1>0, <1>3 DEF FailTask, ExType
  <2>3. failed' \in 0..deploy.failures
    BY <1>0, <1>3 DEF FailTask, MayFail, Deployment
  <2> QED
    BY <1>3, <2>1, <2>2, <2>3 DEF TypeInv, TypeOK, FailTask, CallsType, ExType, QueueTypeOK
<1> QED BY <1>1, <1>2, <1>3 DEF ExecuteLoop

LEMMA TypeShutDown ==
    ASSUME TypeInv, ShutDown \/ ContinueShutDown
    PROVE  TypeInv'
<1> USE DEF vars, bufferVars, queueVars, workerVars
<1>0. CallsType /\ BuffersTypeOK
  BY DEF TypeInv, TypeOK
<1>1. CASE ShutDown
  BY <1>1 DEF ShutDown, CloserStep, TypeInv, TypeOK, CallsType, BuffersTypeOK, QueueTypeOK,
              CloserPCs
<1>2. CASE PushMaterializeSentinel
  <2>1. Sentinel \in MatTask
    BY DEF Sentinel, NoTask, MatTask, Modes
  <2> QED
    BY <1>2, <2>1 DEF PushMaterializeSentinel, CloserStep, TypeInv, TypeOK, CallsType,
                      BuffersTypeOK, QueueTypeOK, CloserPCs
<1>3. CASE JoinMaterializeThread
  BY <1>3 DEF JoinMaterializeThread, CloserStep, TypeInv, TypeOK, CallsType, BuffersTypeOK,
              QueueTypeOK, CloserPCs
<1>4. CASE FailRemainingMaterializationTasks
  <2>1. BuffersTypeOK'
    BY <1>0, <1>4, BecomeType
    DEF FailRemainingMaterializationTasks, SetAsError, States, Settled
  <2>2. CallsType'
    <3>1. \A t \in Threads : [call[t] EXCEPT !.pc = "answered", !.ok = FALSE] \in CallType
      BY <1>0 DEF CallsType, CallType, CallPCs
    <3>2. \A t \in Threads : call[t] \in CallType
      BY <1>0 DEF CallsType
    <3> QED BY <1>4, <3>1, <3>2 DEF FailRemainingMaterializationTasks, CallsType
  <2>3. matQ' \in Seq(MatTask)
    <3>1. matQ' = <<>>
      BY <1>4 DEF FailRemainingMaterializationTasks
    <3> QED BY <3>1
  <2>4. /\ UNCHANGED <<live, deferredOps, futures, deploy, execQ, mat, ex, failed, crashed>>
        /\ closer' \in CloserPCs
    BY <1>4 DEF FailRemainingMaterializationTasks, CloserStep, CloserPCs
  <2>5. call' \in [Threads -> [pc: CallPCs, nodes: SUBSET Buffers,
                              out: Buffers \cup {NoBuffer}, why: Purposes, ok: BOOLEAN]]
    BY <2>2 DEF CallsType, CallType
  <2> QED
    BY <2>1, <2>2, <2>3, <2>4, <2>5 DEF TypeInv, TypeOK, QueueTypeOK
<1>5. CASE PushExecuteSentinel
  <2>1. ExecSentinel \in ExecTask
    BY DEF ExecSentinel, NoExecTask, ExecTask
  <2> QED
    BY <1>5, <2>1 DEF PushExecuteSentinel, CloserStep, TypeInv, TypeOK, CallsType,
                      BuffersTypeOK, QueueTypeOK, CloserPCs
<1>6. CASE JoinExecuteThread
  BY <1>6 DEF JoinExecuteThread, CloserStep, TypeInv, TypeOK, CallsType, BuffersTypeOK,
              QueueTypeOK, CloserPCs
<1>7. CASE FailRemainingExecutionTasks
  <2>1. BuffersTypeOK'
    BY <1>0, <1>7, BecomeType DEF FailRemainingExecutionTasks, SetAsError, States, Settled
  <2> QED
    BY <1>7, <2>1 DEF FailRemainingExecutionTasks, CloserStep, TypeInv, TypeOK, CallsType,
                      QueueTypeOK, CloserPCs
<1> QED
  BY <1>1, <1>2, <1>3, <1>4, <1>5, <1>6, <1>7 DEF ContinueShutDown

LEMMA TypeStutter ==
    ASSUME TypeInv, Rests
    PROVE  TypeInv'
<1>1. busy' \subseteq busy
  BY DEF Rests, vars, bufferVars, DeviceFinishes
<1> QED
  BY <1>1, RestingStep
  DEF programVars, queueVars, workerVars, TypeInv, TypeOK, CallsType, BuffersTypeOK, QueueTypeOK

LEMMA TypeNext == TypeInv /\ [Next]_vars => TypeInv'
BY TypeBegin, TypeContinue, TypeMaterializeLoop, TypeExecuteLoop, TypeShutDown, TypeStutter
DEF Next, Rests

\* Buffers, queues, calls and the two worker threads keep their types
\* whatever the dispatch threads, the failures and the shutdown do.
THEOREM MaterializationTypeCorrect == Spec => []TypeOK
<1>1. Init => TypeInv
  BY TypeInit
<1>2. TypeInv /\ [Next]_vars => TypeInv'
  BY TypeNext
<1>3. TypeInv => TypeOK
  BY DEF TypeInv
<1> QED BY <1>1, <1>2, <1>3, PTL DEF Spec

(***************************************************************************)
(* Safety of the worker's queues and promises.  The inductive invariant    *)
(* Life says where the sentinels are while the worker is shut down; a      *)
(* second one says which task each waiting call has.                       *)
(***************************************************************************)

(***************************************************************************)
(* The life of the worker threads.                                         *)
(***************************************************************************)
Shapes ==
    /\ mat.pc \in {"idle", "stopped"} <=> mat.task.from = NoThread
    /\ mat.pc \notin {"build", "publish"} => mat.batch = <<>>
    /\ \A i \in DOMAIN matQ : matQ[i].from = NoThread <=> matQ[i].kind = "sentinel"
    /\ \A i \in DOMAIN mat.batch : mat.batch[i].kind = "task"
    /\ \A i \in DOMAIN execQ : execQ[i].kind = "sentinel" => execQ[i].outs = {}
    /\ ex.pc # "run" => ex.task.outs = {}

NoSentinel(q) == \A i \in DOMAIN q : q[i].kind # "sentinel"
SentinelLast(q) ==
    q # <<>> /\ \A i \in DOMAIN q : q[i].kind = "sentinel" <=> i = Len(q)

\* Nobody pushes behind a sentinel, and a thread stops when it meets one.
MatClosing ==
    /\ closer \in {"open", "push1"} => mat.pc # "stopped" /\ NoSentinel(matQ)
    /\ closer = "join1" => IF mat.pc = "stopped" THEN matQ = <<>> ELSE SentinelLast(matQ)
    /\ closer \in {"fail1", "push2", "join2", "fail2", "down"} =>
          mat.pc = "stopped" /\ matQ = <<>>
ExecClosing ==
    /\ closer \in {"open", "push1", "join1", "fail1", "push2"} =>
          ex.pc # "stopped" /\ NoSentinel(execQ)
    /\ closer = "join2" => IF ex.pc = "stopped" THEN execQ = <<>> ELSE SentinelLast(execQ)
    /\ closer \in {"fail2", "down"} => ex.pc = "stopped" /\ execQ = <<>>

Life == Shapes /\ MatClosing /\ ExecClosing

LEMMA LifeInit == Init => Life
BY ThreadsAssumption
DEF Init, Life, Shapes, MatClosing, ExecClosing, NoSentinel, NoTask, NoExecTask, NoThread

\* Enqueueing a task of a thread leaves the worker's life alone.
LEMMA LifeEnqueue ==
    ASSUME TypeInv, Life, UNCHANGED <<execQ, mat, ex, closer>>,
           \/ UNCHANGED matQ
           \/ /\ ~ShuttingDown
              /\ \E task \in MatTask : /\ matQ' = Append(matQ, task)
                                       /\ task.kind \in {"nodes", "stream"}
                                       /\ task.from \in Threads
    PROVE  Life'
<1>1. CASE UNCHANGED matQ
  BY <1>1 DEF Life, Shapes, MatClosing, ExecClosing, NoSentinel, SentinelLast
<1>2. ASSUME ~ShuttingDown, NEW task \in MatTask, matQ' = Append(matQ, task),
             task.kind \in {"nodes", "stream"}, task.from \in Threads
      PROVE  Life'
  <2>1. /\ matQ \in Seq(MatTask) /\ closer = "open"
    BY <1>2 DEF TypeInv, TypeOK, ShuttingDown
  <2>2. /\ Len(matQ') = Len(matQ) + 1
        /\ \A i \in DOMAIN matQ' : IF i = Len(matQ) + 1 THEN matQ'[i] = task
                                   ELSE i \in DOMAIN matQ /\ matQ'[i] = matQ[i]
    BY <1>2, <2>1
  <2>3. task.from # NoThread
    BY <1>2, ThreadsAssumption
  <2>4. Shapes'
    BY <1>2, <2>2, <2>3 DEF Life, Shapes
  <2>5. MatClosing' /\ ExecClosing'
    BY <1>2, <2>1, <2>2 DEF Life, MatClosing, ExecClosing, NoSentinel
  <2> QED BY <2>4, <2>5 DEF Life
<1> QED BY <1>1, <1>2

\* What a call may do to the queue of materialization tasks.
LEMMA EnqueueCases ==
    ASSUME TypeInv, NEW t \in Threads, NEW c \in CallType, NEW task \in MatTask,
           task.from = t, task.kind \in {"nodes", "stream"}, Enqueue(t, c, task)
    PROVE  \/ UNCHANGED matQ
           \/ /\ ~ShuttingDown
              /\ \E k \in MatTask : /\ matQ' = Append(matQ, k)
                                    /\ k.kind \in {"nodes", "stream"}
                                    /\ k.from \in Threads
BY DEF Enqueue

LEMMA MaterializeCases ==
    ASSUME TypeInv, NEW t \in Threads, NEW c \in CallType, NEW mode \in Modes, NEW pc,
           Materialize(t, c, mode, pc)
    PROVE  \/ UNCHANGED matQ
           \/ /\ ~ShuttingDown
              /\ \E k \in MatTask : /\ matQ' = Append(matQ, k)
                                    /\ k.kind \in {"nodes", "stream"}
                                    /\ k.from \in Threads
<1> DEFINE D == {b \in c.nodes : IsDeferred(b)}
           task == [kind |-> "nodes", nodes |-> D, mode |-> mode, from |-> t]
<1>1. task \in MatTask /\ task.from = t /\ task.kind = "nodes"
  BY DEF CallType, MatTask
<1>2. CASE D = {}
  BY <1>2 DEF Materialize
<1>3. CASE D # {}
  <2>1. Enqueue(t, c, task)
    BY <1>3 DEF Materialize
  <2> HIDE DEF task
  <2> QED BY <2>1, <1>1, EnqueueCases
<1> QED BY <1>2, <1>3

LEMMA LifeBegin ==
    ASSUME TypeInv, Life, NEW t \in Threads, Begin(t)
    PROVE  Life'
<1> USE DEF workerVars
<1>1. ASSUME NEW k \in Kinds, NEW ins \in SUBSET Buffers, CreateOp(t, k, ins)
      PROVE  Life'
  BY <1>1, LifeEnqueue DEF CreateOp
<1>2. ASSUME NEW b \in Buffers, DropTensor(t, b)
      PROVE  Life'
  BY <1>2, LifeEnqueue DEF DropTensor
<1>3. ASSUME NEW b \in Buffers, ReadTensor(t, b)
      PROVE  Life'
  <2>1. [Idle EXCEPT !.nodes = {b}, !.why = "read"] \in CallType
    BY DEF Idle, CallType, CallPCs, Purposes, NoBuffer
  <2> QED BY <1>3, <2>1, MaterializeCases, LifeEnqueue DEF ReadTensor, Modes
<1>4. ASSUME SyncStream(t)
      PROVE  Life'
  <2> DEFINE task == [kind |-> "stream", nodes |-> {}, mode |-> "split", from |-> t]
  <2>1. [Idle EXCEPT !.nodes = {b \in live : ~IsConstant(b)}, !.why = "sync"] \in CallType
    BY DEF TypeInv, TypeOK, Idle, CallType, CallPCs, Purposes, NoBuffer, BuffersTypeOK
  <2>2. task \in MatTask /\ task.from = t /\ task.kind = "stream"
    BY DEF MatTask, Modes
  <2>3. Enqueue(t, [Idle EXCEPT !.nodes = {b \in live : ~IsConstant(b)}, !.why = "sync"], task)
    BY <1>4 DEF SyncStream
  <2> HIDE DEF task
  <2> QED BY <1>4, <2>1, <2>2, <2>3, EnqueueCases, LifeEnqueue DEF SyncStream
<1>5. ASSUME NEW args \in SUBSET Buffers, ExecuteModel(t, args)
      PROVE  Life'
  <2>1. [Idle EXCEPT !.nodes = args, !.why = "execute"] \in CallType
    BY DEF Idle, CallType, CallPCs, Purposes, NoBuffer
  <2> QED BY <1>5, <2>1, MaterializeCases, LifeEnqueue DEF ExecuteModel, Modes
<1> QED BY <1>1, <1>2, <1>3, <1>4, <1>5 DEF Begin

LEMMA LifeContinue ==
    ASSUME TypeInv, Life, NEW t \in Threads, Continue(t)
    PROVE  Life'
<1> USE DEF workerVars
<1>1. CASE RecordOp(t)
  BY <1>1, LifeEnqueue DEF RecordOp
<1>2. CASE DispatchPlain(t)
  BY <1>2, LifeEnqueue DEF DispatchPlain
<1>3. CASE DispatchRepeated(t)
  <2>1. CASE IsDeferred(call[t].out)
    <3> DEFINE c == [call[t] EXCEPT !.nodes = {call[t].out}, !.why = "heuristic"]
    <3>1. c \in CallType
      BY <1>3 DEF DispatchRepeated, TypeInv, CallsType, CallType, At, Purposes
    <3>2. deploy.mode \in Modes
      BY DeploymentsAssumption DEF TypeInv, TypeOK, Deployment, Modes
    <3>3. Materialize(t, c, deploy.mode, "tensor")
      BY <1>3, <2>1 DEF DispatchRepeated
    <3> HIDE DEF c
    <3> QED BY <1>3, <3>1, <3>2, <3>3, MaterializeCases, LifeEnqueue DEF DispatchRepeated
  <2>2. CASE ~IsDeferred(call[t].out)
    BY <1>3, <2>2, LifeEnqueue DEF DispatchRepeated
  <2> QED BY <2>1, <2>2
<1>4. CASE MakeTensor(t)
  BY <1>4, LifeEnqueue DEF MakeTensor
<1>5. CASE Resume(t)
  BY <1>5, LifeEnqueue DEF Resume
<1>6. CASE AwaitBuffers(t)
  BY <1>6, LifeEnqueue DEF AwaitBuffers
<1>7. CASE CreateOutput(t)
  BY <1>7, LifeEnqueue DEF CreateOutput
<1>8. CASE PushExecutable(t)
  <2>1. CASE ShuttingDown
    BY <1>8, <2>1, LifeEnqueue DEF PushExecutable
  <2>2. CASE ~ShuttingDown
    <3> DEFINE task == [kind |-> "task", args |-> call[t].nodes, outs |-> {call[t].out},
                        effects |-> {}, compiled |-> TRUE]
    <3>1. /\ execQ' = Append(execQ, task) /\ task.kind = "task" /\ closer = "open"
          /\ UNCHANGED <<matQ, mat, ex, closer>>
      BY <1>8, <2>2 DEF PushExecutable, ShuttingDown
    <3> HIDE DEF task
    <3>2. execQ \in Seq(ExecTask)
      BY DEF TypeInv, TypeOK
    <3>3. /\ Len(execQ') = Len(execQ) + 1
          /\ \A i \in DOMAIN execQ' : IF i = Len(execQ) + 1 THEN execQ'[i] = task
                                      ELSE i \in DOMAIN execQ /\ execQ'[i] = execQ[i]
      BY <3>1, <3>2
    <3>4. Shapes'
      BY <3>1, <3>3 DEF Life, Shapes
    <3>5. MatClosing' /\ ExecClosing'
      BY <3>1, <3>3 DEF Life, MatClosing, ExecClosing, NoSentinel
    <3> QED BY <3>4, <3>5 DEF Life
  <2> QED BY <2>1, <2>2
<1> QED
  BY <1>1, <1>2, <1>3, <1>4, <1>5, <1>6, <1>7, <1>8 DEF Continue

\* Steps of the materialize thread while it has a task: it does not touch its
\* queue and does not stop.
LEMMA LifeMatWorks ==
    ASSUME TypeInv, Life, UNCHANGED <<matQ, ex, closer>>,
           mat.pc \notin {"idle", "stopped"}, mat'.pc \notin {"stopped"}, Shapes',
           NoSentinel(execQ) => NoSentinel(execQ')
    PROVE  Life'
<1>1. closer \in {"open", "push1", "join1"}
  BY DEF TypeInv, TypeOK, CloserPCs, Life, MatClosing
<1> QED
  BY <1>1 DEF Life, MatClosing, ExecClosing, SentinelLast, NoSentinel

LEMMA LifeMaterializeLoop ==
    ASSUME TypeInv, Life, MaterializeLoop
    PROVE  Life'
<1> USE DEF workerVars
<1>0. matQ \in Seq(MatTask) /\ execQ \in Seq(ExecTask) /\ MatType
  BY DEF TypeInv, TypeOK, MatType
<1>1. CASE DequeueMaterializationTask
  <2>1. /\ matQ # <<>> /\ matQ' = Tail(matQ) /\ mat.pc = "idle"
        /\ UNCHANGED <<execQ, ex, closer>>
    BY <1>1 DEF DequeueMaterializationTask
  <2>2. /\ Len(matQ') = Len(matQ) - 1 /\ Len(matQ) > 0 /\ matQ' \in Seq(MatTask)
        /\ \A i \in DOMAIN matQ' : i + 1 \in DOMAIN matQ /\ matQ'[i] = matQ[i + 1]
        /\ 1 \in DOMAIN matQ /\ Head(matQ) = matQ[1]
    BY <1>0, <2>1
  <2>3. CASE Head(matQ).kind = "sentinel"
    <3>1. mat' = [mat EXCEPT !.pc = "stopped"]
      BY <1>1, <2>3 DEF DequeueMaterializationTask
    <3>2. /\ mat'.pc = "stopped" /\ mat'.task = mat.task /\ mat'.batch = mat.batch
      BY <1>0, <3>1 DEF MatType
    <3>3. closer = "join1" /\ Len(matQ) = 1
      BY <2>1, <2>2, <2>3
      DEF Life, MatClosing, NoSentinel, SentinelLast, TypeInv, TypeOK, CloserPCs
    <3>4. matQ' = <<>>
      BY <2>2, <3>3
    <3>5. Shapes'
      BY <2>1, <3>2, <3>4 DEF Life, Shapes
    <3>6. MatClosing' /\ ExecClosing'
      BY <2>1, <3>2, <3>3, <3>4 DEF Life, MatClosing, ExecClosing, NoSentinel
    <3> QED BY <3>5, <3>6 DEF Life
  <2>4. CASE Head(matQ).kind # "sentinel"
    <3>1. /\ mat'.pc \in {"publish", "prepare"} /\ mat'.task = Head(matQ)
          /\ mat'.batch = mat.batch
      BY <1>0, <1>1, <2>4 DEF DequeueMaterializationTask, MatType
    <3>2. mat.batch = <<>>
      BY <2>1 DEF Life, Shapes
    <3>3. Shapes'
      BY <2>1, <2>2, <2>4, <3>1, <3>2 DEF Life, Shapes
    <3>4. closer \in {"open", "push1", "join1"}
      BY <2>1 DEF TypeInv, TypeOK, CloserPCs, Life, MatClosing
    <3>5. NoSentinel(matQ) => NoSentinel(matQ')
      BY <2>2 DEF NoSentinel
    <3>6. SentinelLast(matQ) => SentinelLast(matQ')
      <4> SUFFICES ASSUME SentinelLast(matQ) PROVE SentinelLast(matQ')
        OBVIOUS
      <4>1. Len(matQ) # 1
        BY <2>2, <2>4 DEF SentinelLast
      <4>2. matQ' # <<>>
        BY <2>2, <4>1
      <4>3. ASSUME NEW i \in DOMAIN matQ'
            PROVE  matQ'[i].kind = "sentinel" <=> i = Len(matQ')
        BY <2>2, <4>3 DEF SentinelLast
      <4> QED BY <4>2, <4>3 DEF SentinelLast
    <3>7. MatClosing'
      BY <2>1, <3>1, <3>4, <3>5, <3>6 DEF Life, MatClosing
    <3>8. ExecClosing'
      BY <2>1 DEF Life, ExecClosing, NoSentinel, SentinelLast
    <3> QED BY <3>3, <3>7, <3>8 DEF Life
  <2> QED BY <2>3, <2>4
<1>2. CASE Prepare
  <2>1. /\ mat.pc = "prepare" /\ mat'.pc \in {"build", "publish"} /\ mat'.task = mat.task
        /\ mat'.batch = mat.batch /\ UNCHANGED <<matQ, execQ, ex, closer>>
    BY <1>0, <1>2 DEF Prepare, MatType
  <2>2. Shapes'
    BY <2>1 DEF Life, Shapes
  <2> QED BY <2>1, <2>2, LifeMatWorks DEF NoSentinel
<1>3. CASE BuildTask
  <2> DEFINE task == [kind |-> "task", args |-> Arguments, outs |-> Outputs,
                      effects |-> CollectivesOf(Outputs), compiled |-> FALSE]
  <2>1. /\ mat' = [Built EXCEPT !.batch = Append(@, task)] /\ task.kind = "task"
        /\ mat.pc = "build" /\ UNCHANGED <<matQ, execQ, ex, closer>>
    BY <1>3 DEF BuildTask
  <2> HIDE DEF task
  <2>2. /\ mat'.pc \in {"build", "publish"} /\ mat'.task = mat.task
        /\ mat'.batch = Append(mat.batch, task) /\ mat.batch \in Seq(ExecTask)
    BY <1>0, <2>1 DEF Built, MatType
  <2>3. \A i \in DOMAIN mat'.batch : mat'.batch[i].kind = "task"
    BY <2>1, <2>2 DEF Life, Shapes
  <2>4. Shapes'
    BY <2>1, <2>2, <2>3 DEF Life, Shapes
  <2> QED BY <2>1, <2>2, <2>4, LifeMatWorks DEF NoSentinel
<1>4. CASE FailTraversal
  <2>1. /\ mat.pc = "build" /\ mat'.pc \in {"build", "publish"} /\ mat'.task = mat.task
        /\ mat'.batch = mat.batch /\ UNCHANGED <<matQ, execQ, ex, closer>>
    BY <1>0, <1>4 DEF FailTraversal, Built, MatType
  <2>2. Shapes'
    BY <2>1 DEF Life, Shapes
  <2> QED BY <2>1, <2>2, LifeMatWorks DEF NoSentinel
<1>5. CASE AbortTraversal
  BY <1>5, LifeEnqueue DEF AbortTraversal
<1>6. CASE PublishTasks
  <2>1. /\ mat.pc = "publish" /\ mat'.pc = "answer" /\ mat'.task = mat.task
        /\ mat'.batch = <<>> /\ execQ' = execQ \o mat.batch /\ UNCHANGED <<matQ, ex, closer>>
    BY <1>0, <1>6 DEF PublishTasks, MatType
  <2>2. \A i \in DOMAIN execQ' :
            \/ i \in DOMAIN execQ /\ execQ'[i] = execQ[i]
            \/ \E j \in DOMAIN mat.batch : execQ'[i] = mat.batch[j]
    <3>1. mat.batch \in Seq(ExecTask)
      BY <1>0 DEF MatType
    <3>2. /\ Len(execQ') = Len(execQ) + Len(mat.batch)
          /\ \A i \in 1..(Len(execQ) + Len(mat.batch)) :
                execQ'[i] = IF i <= Len(execQ) THEN execQ[i] ELSE mat.batch[i - Len(execQ)]
      BY <1>0, <2>1, <3>1, ConcatProperties
    <3>3. execQ' \in Seq(ExecTask)
      BY <1>0, <2>1, <3>1, ConcatProperties
    <3> SUFFICES ASSUME NEW i \in DOMAIN execQ', ~(i \in DOMAIN execQ)
                 PROVE  \E j \in DOMAIN mat.batch : execQ'[i] = mat.batch[j]
      BY <1>0, <3>1, <3>2, <3>3
    <3>4. i - Len(execQ) \in DOMAIN mat.batch /\ execQ'[i] = mat.batch[i - Len(execQ)]
      BY <1>0, <3>1, <3>2, <3>3
    <3> QED BY <3>4
  <2>3. Shapes'
    BY <2>1, <2>2 DEF Life, Shapes
  <2>4. NoSentinel(execQ) => NoSentinel(execQ')
    BY <2>2 DEF NoSentinel, Life, Shapes
  <2> QED BY <2>1, <2>3, <2>4, LifeMatWorks
<1>7. CASE AnswerTask
  <2>1. /\ mat.pc = "answer" /\ mat'.pc = "idle" /\ mat'.task = NoTask
        /\ mat'.batch = mat.batch /\ UNCHANGED <<matQ, execQ, ex, closer>>
    BY <1>0, <1>7 DEF AnswerTask, MatType
  <2>2. Shapes'
    BY <2>1 DEF Life, Shapes, NoTask
  <2> QED BY <2>1, <2>2, LifeMatWorks DEF NoSentinel
<1> QED
  BY <1>1, <1>2, <1>3, <1>4, <1>5, <1>6, <1>7 DEF MaterializeLoop

LEMMA LifeExecuteLoop ==
    ASSUME TypeInv, Life, ExecuteLoop
    PROVE  Life'
<1> USE DEF workerVars
<1>0. execQ \in Seq(ExecTask) /\ ExType
  BY DEF TypeInv, TypeOK, ExType
<1>1. CASE DequeueExecutionTask
  <2>1. /\ execQ # <<>> /\ execQ' = Tail(execQ) /\ ex.pc = "idle"
        /\ UNCHANGED <<matQ, mat, closer>>
    BY <1>1 DEF DequeueExecutionTask
  <2>2. /\ Len(execQ') = Len(execQ) - 1 /\ Len(execQ) > 0 /\ execQ' \in Seq(ExecTask)
        /\ \A i \in DOMAIN execQ' : i + 1 \in DOMAIN execQ /\ execQ'[i] = execQ[i + 1]
        /\ 1 \in DOMAIN execQ /\ Head(execQ) = execQ[1]
    BY <1>0, <2>1
  <2>3. CASE Head(execQ).kind = "sentinel"
    <3>1. ex'.pc = "stopped" /\ ex'.task = ex.task
      BY <1>0, <1>1, <2>3 DEF DequeueExecutionTask, ExType
    <3>2. closer = "join2" /\ Len(execQ) = 1
      BY <2>1, <2>2, <2>3
      DEF Life, ExecClosing, NoSentinel, SentinelLast, TypeInv, TypeOK, CloserPCs
    <3>3. execQ' = <<>>
      BY <2>2, <3>2
    <3>4. Shapes'
      BY <2>1, <3>1, <3>3 DEF Life, Shapes
    <3>5. MatClosing' /\ ExecClosing'
      BY <2>1, <3>1, <3>2, <3>3 DEF Life, MatClosing, ExecClosing, NoSentinel
    <3> QED BY <3>4, <3>5 DEF Life
  <2>4. CASE Head(execQ).kind # "sentinel"
    <3>1. ex'.pc = "run" /\ ex'.task = Head(execQ)
      BY <1>1, <2>4 DEF DequeueExecutionTask
    <3>2. Shapes'
      BY <2>1, <2>2, <3>1 DEF Life, Shapes
    <3>3. closer \notin {"fail2", "down"}
      BY <2>1 DEF Life, ExecClosing
    <3>4. NoSentinel(execQ) => NoSentinel(execQ')
      BY <2>2 DEF NoSentinel
    <3>5. SentinelLast(execQ) => SentinelLast(execQ')
      <4> SUFFICES ASSUME SentinelLast(execQ) PROVE SentinelLast(execQ')
        OBVIOUS
      <4>1. Len(execQ) # 1
        BY <2>2, <2>4 DEF SentinelLast
      <4>2. execQ' # <<>>
        BY <2>2, <4>1
      <4>3. ASSUME NEW i \in DOMAIN execQ'
            PROVE  execQ'[i].kind = "sentinel" <=> i = Len(execQ')
        BY <2>2, <4>3 DEF SentinelLast
      <4> QED BY <4>2, <4>3 DEF SentinelLast
    <3>6. ExecClosing'
      BY <2>1, <3>1, <3>3, <3>4, <3>5 DEF Life, ExecClosing
    <3>7. MatClosing'
      BY <2>1 DEF Life, MatClosing, NoSentinel, SentinelLast
    <3> QED BY <3>2, <3>6, <3>7 DEF Life
  <2> QED BY <2>3, <2>4
<1>2. CASE RunTask \/ FailTask
  <2>1. /\ ex.pc = "run" /\ ex'.pc # "stopped" /\ (ex'.pc # "run" => ex'.task.outs = {})
        /\ UNCHANGED <<matQ, execQ, mat, closer>>
    <3>1. NoExecTask.outs = {} /\ ExType
      BY DEF NoExecTask, ExType, TypeInv, TypeOK
    <3>2. CASE RunTask
      BY <3>1, <3>2 DEF RunTask, ExType
    <3>3. CASE FailTask
      BY <3>1, <3>3 DEF FailTask
    <3> QED BY <1>2, <3>2, <3>3
  <2>2. Shapes'
    BY <2>1 DEF Life, Shapes
  <2>3. MatClosing'
    BY <2>1 DEF Life, MatClosing, NoSentinel, SentinelLast
  <2>4. ExecClosing'
    BY <2>1 DEF Life, ExecClosing, NoSentinel, SentinelLast
  <2> QED BY <2>2, <2>3, <2>4 DEF Life
<1> QED BY <1>1, <1>2 DEF ExecuteLoop

LEMMA LifeShutDown ==
    ASSUME TypeInv, Life, ShutDown \/ ContinueShutDown
    PROVE  Life'
<1> USE DEF workerVars
<1>0. matQ \in Seq(MatTask) /\ execQ \in Seq(ExecTask)
  BY DEF TypeInv, TypeOK
<1>1. CASE ShutDown
  BY <1>1 DEF ShutDown, CloserStep, Life, Shapes, MatClosing, ExecClosing, NoSentinel
<1>2. CASE PushMaterializeSentinel
  <2>1. /\ closer = "push1" /\ closer' = "join1" /\ matQ' = Append(matQ, Sentinel)
        /\ UNCHANGED <<execQ, mat, ex>>
    BY <1>2 DEF PushMaterializeSentinel, CloserStep
  <2>2. Sentinel \in MatTask /\ Sentinel.kind = "sentinel" /\ Sentinel.from = NoThread
    BY DEF Sentinel, NoTask, MatTask, Modes
  <2>3. /\ Len(matQ') = Len(matQ) + 1 /\ matQ' # <<>>
        /\ \A i \in DOMAIN matQ' : IF i = Len(matQ) + 1 THEN matQ'[i] = Sentinel
                                   ELSE i \in DOMAIN matQ /\ matQ'[i] = matQ[i]
    BY <1>0, <2>1, <2>2
  <2>4. Shapes'
    BY <2>1, <2>2, <2>3 DEF Life, Shapes
  <2>5. NoSentinel(matQ) /\ mat.pc # "stopped"
    BY <2>1 DEF Life, MatClosing
  <2>6. SentinelLast(matQ')
    BY <2>2, <2>3, <2>5 DEF NoSentinel, SentinelLast
  <2>7. MatClosing' /\ ExecClosing'
    BY <2>1, <2>5, <2>6 DEF Life, MatClosing, ExecClosing, NoSentinel
  <2> QED BY <2>4, <2>7 DEF Life
<1>3. CASE JoinMaterializeThread
  BY <1>3 DEF JoinMaterializeThread, CloserStep, Life, Shapes, MatClosing, ExecClosing,
              NoSentinel
<1>4. CASE FailRemainingMaterializationTasks
  <2>1. /\ closer = "fail1" /\ closer' = "push2" /\ matQ' = <<>>
        /\ UNCHANGED <<execQ, mat, ex>>
    BY <1>4 DEF FailRemainingMaterializationTasks, CloserStep
  <2> QED BY <2>1 DEF Life, Shapes, MatClosing, ExecClosing, NoSentinel
<1>5. CASE PushExecuteSentinel
  <2>1. /\ closer = "push2" /\ closer' = "join2" /\ execQ' = Append(execQ, ExecSentinel)
        /\ UNCHANGED <<matQ, mat, ex>>
    BY <1>5 DEF PushExecuteSentinel, CloserStep
  <2>2. /\ ExecSentinel \in ExecTask /\ ExecSentinel.kind = "sentinel"
        /\ ExecSentinel.outs = {}
    BY DEF ExecSentinel, NoExecTask, ExecTask
  <2>3. /\ Len(execQ') = Len(execQ) + 1 /\ execQ' # <<>>
        /\ \A i \in DOMAIN execQ' : IF i = Len(execQ) + 1 THEN execQ'[i] = ExecSentinel
                                    ELSE i \in DOMAIN execQ /\ execQ'[i] = execQ[i]
    BY <1>0, <2>1, <2>2
  <2>4. Shapes'
    BY <2>1, <2>2, <2>3 DEF Life, Shapes
  <2>5. NoSentinel(execQ) /\ ex.pc # "stopped"
    BY <2>1 DEF Life, ExecClosing
  <2>6. SentinelLast(execQ')
    BY <2>2, <2>3, <2>5 DEF NoSentinel, SentinelLast
  <2>7. MatClosing' /\ ExecClosing'
    BY <2>1, <2>5, <2>6 DEF Life, MatClosing, ExecClosing
  <2> QED BY <2>4, <2>7 DEF Life
<1>6. CASE JoinExecuteThread
  BY <1>6 DEF JoinExecuteThread, CloserStep, Life, Shapes, MatClosing, ExecClosing
<1>7. CASE FailRemainingExecutionTasks
  <2>1. /\ closer = "fail2" /\ closer' = "down" /\ execQ' = <<>>
        /\ UNCHANGED <<matQ, mat, ex>>
    BY <1>7 DEF FailRemainingExecutionTasks, CloserStep
  <2> QED BY <2>1 DEF Life, Shapes, MatClosing, ExecClosing
<1> QED
  BY <1>1, <1>2, <1>3, <1>4, <1>5, <1>6, <1>7 DEF ContinueShutDown

LEMMA LifeNext == TypeInv /\ Life /\ [Next]_vars => Life'
<1> SUFFICES ASSUME TypeInv, Life, [Next]_vars PROVE Life'
  OBVIOUS
<1>1. CASE UNCHANGED programVars
  BY <1>1, LifeEnqueue DEF programVars, workerVars
<1> QED
  BY <1>1, RestingStep, LifeBegin, LifeContinue, LifeMaterializeLoop, LifeExecuteLoop,
     LifeShutDown
  DEF Next, Rests

\* Shutting the worker down leaves nothing in its queues: whoever enqueues
\* checks the flag under the lock that the sentinel is pushed under, and the
\* materialize thread has published what it built before it stops.
THEOREM ShutdownDrainsQueues == Spec => []QueuesDrained
<1>1. Init => TypeInv /\ Life
  BY TypeInit, LifeInit
<1>2. TypeInv /\ Life /\ [Next]_vars => (TypeInv /\ Life)'
  BY TypeNext, LifeNext
<1>3. Life => QueuesDrained
  BY DEF Life, Shapes, MatClosing, ExecClosing, QueuesDrained
<1> QED BY <1>1, <1>2, <1>3, PTL DEF Spec

(***************************************************************************)
(* Calls and their tasks.                                                  *)
(***************************************************************************)
Waits(t) == call[t].pc = "wait"

LEMMA SameWaiters ==
    ASSUME CallHasTask, UNCHANGED <<matQ, mat>>,
           \A u \in Threads : Waits(u)' <=> Waits(u)
    PROVE  CallHasTask'
BY DEF CallHasTask, Waits

\* A step of a thread that neither waits nor begins to.
LEMMA NotWaiting ==
    ASSUME TypeInv, CallHasTask, NEW t \in Threads, NEW c \in CallType, Go(t, c),
           ~Waits(t), c.pc # "wait", UNCHANGED <<matQ, mat>>
    PROVE  CallHasTask'
<1>1. \A u \in Threads : call'[u] = IF u = t THEN c ELSE call[u]
  BY DEF Go, TypeInv, CallsType
<1>2. \A u \in Threads : Waits(u)' <=> Waits(u)
  BY <1>1 DEF Waits
<1> QED BY <1>2, SameWaiters

LEMMA EnqueueServes ==
    ASSUME TypeInv, CallHasTask, NEW t \in Threads, NEW c \in CallType, ~Waits(t),
           NEW task \in MatTask, task.from = t, Enqueue(t, c, task), UNCHANGED mat
    PROVE  CallHasTask'
<1>1. CASE ShuttingDown
  BY <1>1, NotWaiting, IdleType DEF Enqueue, Idle
<1>2. CASE ~ShuttingDown
  <2>1. matQ' = Append(matQ, task) /\ matQ \in Seq(MatTask)
    BY <1>2 DEF Enqueue, TypeInv, TypeOK
  <2>2. /\ Len(matQ') = Len(matQ) + 1
        /\ DOMAIN matQ' = DOMAIN matQ \cup {Len(matQ) + 1}
        /\ \A i \in DOMAIN matQ : matQ'[i] = matQ[i] /\ i # Len(matQ) + 1
        /\ matQ'[Len(matQ) + 1] = task
    BY <2>1
  <2>3. \A u \in Threads : Waits(u)' <=> (u = t \/ Waits(u))
    <3>1. call' = [call EXCEPT ![t] = [c EXCEPT !.pc = "wait"]]
      BY <1>2 DEF Enqueue, Go
    <3>2. \A u \in Threads : call'[u] = IF u = t THEN [c EXCEPT !.pc = "wait"] ELSE call[u]
      BY <3>1 DEF TypeInv, CallsType
    <3>3. [c EXCEPT !.pc = "wait"].pc = "wait"
      BY DEF CallType
    <3> QED BY <3>2, <3>3 DEF Waits
  <2>4. mat.task.from # t /\ \A i \in DOMAIN matQ : matQ[i].from # t
    BY DEF CallHasTask, Waits
  <2> DEFINE n == Len(matQ) + 1
  <2>5. ASSUME NEW u \in Threads
        PROVE  Waits(u)' <=> mat'.task.from = u \/ \E i \in DOMAIN matQ' : matQ'[i].from = u
    <3>1. CASE u = t
      BY <3>1, <2>2, <2>3
    <3>2. CASE u # t
      BY <3>2, <2>2, <2>3 DEF CallHasTask, Waits
    <3> QED BY <3>1, <3>2
  <2>6. ASSUME NEW i \in DOMAIN matQ', matQ'[i].from \in Threads
        PROVE  /\ matQ'[i].from # mat'.task.from
               /\ \A j \in DOMAIN matQ' : matQ'[i].from = matQ'[j].from => i = j
    <3>1. CASE i \in DOMAIN matQ
      BY <3>1, <2>2, <2>4, <2>6 DEF CallHasTask
    <3>2. CASE i = n
      BY <3>2, <2>2, <2>4
    <3> QED BY <3>1, <3>2, <2>2
  <2> QED BY <2>5, <2>6 DEF CallHasTask, Waits
<1> QED BY <1>1, <1>2

LEMMA MaterializeServes ==
    ASSUME TypeInv, CallHasTask, NEW t \in Threads, NEW c \in CallType, ~Waits(t),
           NEW mode \in Modes, NEW pc \in CallPCs \ {"wait"}, Materialize(t, c, mode, pc),
           pc \in {"record", "dispatch", "tensor", "push"} => c.out \in Buffers,
           UNCHANGED mat
    PROVE  CallHasTask'
<1> DEFINE D == {b \in c.nodes : IsDeferred(b)}
           task == [kind |-> "nodes", nodes |-> D, mode |-> mode, from |-> t]
<1>1. task \in MatTask /\ task.from = t
  BY DEF CallType, MatTask
<1>2. [c EXCEPT !.pc = pc] \in CallType /\ [c EXCEPT !.pc = pc].pc = pc
  BY DEF CallType
<1>3. CASE D = {}
  BY <1>3, <1>2, NotWaiting DEF Materialize
<1>4. CASE D # {}
  <2>1. Enqueue(t, c, task)
    BY <1>4 DEF Materialize
  <2> HIDE DEF task
  <2> QED BY <2>1, <1>1, EnqueueServes
<1> QED BY <1>3, <1>4

LEMMA CallsBegin ==
    ASSUME TypeInv, CallHasTask, NEW t \in Threads, Begin(t)
    PROVE  CallHasTask'
<1> USE DEF workerVars
<1>0. ASSUME At(t, "idle") PROVE ~Waits(t)
  BY <1>0 DEF At, Waits
<1>1. ASSUME NEW k \in Kinds, NEW ins \in SUBSET Buffers, CreateOp(t, k, ins)
      PROVE  CallHasTask'
  <2>1. [Idle EXCEPT !.pc = "record", !.out = next] \in CallType
    BY <1>1 DEF CreateOp, CreateDeferred, Idle, CallType, CallPCs, Purposes
  <2> QED BY <1>0, <1>1, <2>1, NotWaiting DEF CreateOp, Idle
<1>2. ASSUME NEW b \in Buffers, DropTensor(t, b)
      PROVE  CallHasTask'
  BY <1>2, SameWaiters DEF DropTensor, Waits
<1>3. ASSUME NEW b \in Buffers, ReadTensor(t, b)
      PROVE  CallHasTask'
  <2>1. [Idle EXCEPT !.nodes = {b}, !.why = "read"] \in CallType
    BY DEF Idle, CallType, CallPCs, Purposes, NoBuffer
  <2> QED BY <1>0, <1>3, <2>1, MaterializeServes DEF ReadTensor, Modes, CallPCs
<1>4. ASSUME SyncStream(t)
      PROVE  CallHasTask'
  <2> DEFINE task == [kind |-> "stream", nodes |-> {}, mode |-> "split", from |-> t]
             c == [Idle EXCEPT !.nodes = {b \in live : ~IsConstant(b)}, !.why = "sync"]
  <2>1. c \in CallType
    BY DEF TypeInv, TypeOK, Idle, CallType, CallPCs, Purposes, NoBuffer, BuffersTypeOK
  <2>2. task \in MatTask /\ task.from = t
    BY DEF MatTask, Modes
  <2>3. Enqueue(t, c, task) /\ ~Waits(t) /\ UNCHANGED mat
    BY <1>0, <1>4 DEF SyncStream
  <2> HIDE DEF task, c
  <2> QED BY <2>1, <2>2, <2>3, EnqueueServes
<1>5. ASSUME NEW args \in SUBSET Buffers, ExecuteModel(t, args)
      PROVE  CallHasTask'
  <2>1. [Idle EXCEPT !.nodes = args, !.why = "execute"] \in CallType
    BY DEF Idle, CallType, CallPCs, Purposes, NoBuffer
  <2> QED BY <1>0, <1>5, <2>1, MaterializeServes DEF ExecuteModel, Modes, CallPCs
<1> QED BY <1>1, <1>2, <1>3, <1>4, <1>5 DEF Begin

\* A step of a call that is not waiting and only moves on.
LEMMA CallMoves ==
    ASSUME TypeInv, CallHasTask, NEW t \in Threads, ~Waits(t), UNCHANGED <<matQ, mat>>,
           \/ Go(t, Idle)
           \/ GoMakeTensor(t)
           \/ \E pc \in CallPCs \ {"wait"} : Step(t, pc)
           \/ \E b : Go(t, [call[t] EXCEPT !.pc = "push", !.out = b])
    PROVE  CallHasTask'
<1>0. call[t] \in CallType
  BY DEF TypeInv, CallsType
<1>1. \E c : Go(t, c) /\ c.pc # "wait"
  <2>1. CASE Go(t, Idle)
    <3>1. Idle.pc # "wait"
      BY DEF Idle
    <3> QED BY <2>1, <3>1
  <2>2. CASE GoMakeTensor(t)
    <3>1. [Idle EXCEPT !.pc = "tensor", !.out = call[t].out].pc = "tensor"
      BY DEF Idle
    <3> QED BY <2>2, <3>1 DEF GoMakeTensor
  <2>3. ASSUME NEW pc \in CallPCs \ {"wait"}, Step(t, pc)
        PROVE  \E c : Go(t, c) /\ c.pc # "wait"
    <3>1. [call[t] EXCEPT !.pc = pc].pc # "wait"
      BY <1>0 DEF CallType
    <3> QED BY <2>3, <3>1 DEF Step
  <2>4. ASSUME NEW b, Go(t, [call[t] EXCEPT !.pc = "push", !.out = b])
        PROVE  \E c : Go(t, c) /\ c.pc # "wait"
    <3>1. [call[t] EXCEPT !.pc = "push", !.out = b].pc = "push"
      BY <1>0 DEF CallType
    <3> QED BY <2>4, <3>1
  <2> QED BY <2>1, <2>2, <2>3, <2>4
<1>a. PICK c : Go(t, c) /\ c.pc # "wait"
  BY <1>1
<1>2. \A u \in Threads : call'[u] = IF u = t THEN c ELSE call[u]
  BY <1>a DEF Go, TypeInv, CallsType
<1>3. \A u \in Threads : Waits(u)' <=> Waits(u)
  BY <1>a, <1>2 DEF Waits
<1> QED BY <1>3, SameWaiters

LEMMA CallsContinue ==
    ASSUME TypeInv, CallHasTask, NEW t \in Threads, Continue(t)
    PROVE  CallHasTask'
<1> USE DEF workerVars
<1>1. CASE DispatchRepeated(t)
  <2>0. ~Waits(t) /\ UNCHANGED mat
    BY <1>1 DEF DispatchRepeated, At, Waits
  <2>1. CASE IsDeferred(call[t].out)
    <3> DEFINE c == [call[t] EXCEPT !.nodes = {call[t].out}, !.why = "heuristic"]
    <3>1. c \in CallType /\ c.out \in Buffers
      BY <1>1 DEF DispatchRepeated, TypeInv, CallsType, CallType, At, Purposes
    <3>2. deploy.mode \in Modes
      BY DeploymentsAssumption DEF TypeInv, TypeOK, Deployment, Modes
    <3>3. Materialize(t, c, deploy.mode, "tensor")
      BY <1>1, <2>1 DEF DispatchRepeated
    <3> HIDE DEF c
    <3> QED BY <2>0, <3>1, <3>2, <3>3, MaterializeServes DEF CallPCs
  <2>2. CASE ~IsDeferred(call[t].out)
    BY <1>1, <2>2, SameWaiters DEF DispatchRepeated, Waits
  <2> QED BY <2>1, <2>2
<1>2. CASE RecordOp(t)
  BY <1>2, CallMoves DEF RecordOp, At, Waits, CallPCs
<1>3. CASE DispatchPlain(t)
  BY <1>3, CallMoves DEF DispatchPlain, At, Waits
<1>4. CASE MakeTensor(t)
  BY <1>4, CallMoves DEF MakeTensor, At, Waits
<1>5. CASE Resume(t)
  <2>1. ~Waits(t) /\ UNCHANGED <<matQ, mat>>
    BY <1>5 DEF Resume, At, Waits
  <2>2. \/ Go(t, Idle) \/ GoMakeTensor(t)
        \/ Step(t, "read") \/ Step(t, "create") \/ Step(t, "sync")
    BY <1>5 DEF Resume
  <2> QED BY <2>1, <2>2, CallMoves DEF CallPCs
<1>6. CASE AwaitBuffers(t)
  BY <1>6, CallMoves DEF AwaitBuffers, At, Waits
<1>7. CASE CreateOutput(t)
  BY <1>7, CallMoves DEF CreateOutput, At, Waits
<1>8. CASE PushExecutable(t)
  BY <1>8, CallMoves DEF PushExecutable, At, Waits
<1> QED
  BY <1>1, <1>2, <1>3, <1>4, <1>5, <1>6, <1>7, <1>8 DEF Continue

LEMMA CallsMaterializeLoop ==
    ASSUME TypeInv, Life, CallHasTask, MaterializeLoop
    PROVE  CallHasTask'
<1> USE DEF workerVars
<1>0. matQ \in Seq(MatTask) /\ MatType
  BY DEF TypeInv, TypeOK, MatType
<1>1. CASE DequeueMaterializationTask
  <2>1. /\ matQ # <<>> /\ matQ' = Tail(matQ) /\ mat.pc = "idle" /\ UNCHANGED call
    BY <1>1 DEF DequeueMaterializationTask
  <2>2. /\ \A i \in DOMAIN matQ' :
              i + 1 \in DOMAIN matQ /\ matQ'[i] = matQ[i + 1] /\ i \in Nat \ {0}
        /\ \A i \in DOMAIN matQ :
              i = 1 \/ (i - 1 \in DOMAIN matQ' /\ matQ'[i - 1] = matQ[i])
        /\ 1 \in DOMAIN matQ /\ Head(matQ) = matQ[1]
    BY <1>0, <2>1
  <2>3. mat.task.from = NoThread
    BY <2>1 DEF Life, Shapes
  <2>4. mat'.task.from = Head(matQ).from
    <3>1. CASE Head(matQ).kind = "sentinel"
      BY <1>0, <1>1, <2>2, <2>3, <3>1 DEF DequeueMaterializationTask, MatType, Life, Shapes
    <3>2. CASE Head(matQ).kind # "sentinel"
      BY <1>0, <1>1, <3>2 DEF DequeueMaterializationTask, MatType
    <3> QED BY <3>1, <3>2
  <2>5. ASSUME NEW u \in Threads
        PROVE  Waits(u)' <=> mat'.task.from = u \/ \E i \in DOMAIN matQ' : matQ'[i].from = u
    <3>1. Waits(u)' <=> \E i \in DOMAIN matQ : matQ[i].from = u
      BY <2>1, <2>3, ThreadsAssumption DEF CallHasTask, Waits
    <3> QED BY <3>1, <2>2, <2>4
  <2>6. ASSUME NEW i \in DOMAIN matQ', matQ'[i].from \in Threads
        PROVE  /\ matQ'[i].from # mat'.task.from
               /\ \A j \in DOMAIN matQ' : matQ'[i].from = matQ'[j].from => i = j
    BY <2>2, <2>4, <2>6 DEF CallHasTask
  <2> QED BY <2>5, <2>6 DEF CallHasTask, Waits
<1>2. CASE AnswerTask
  <2> DEFINE t == mat.task.from
  <2>1. t \in Threads
    BY <1>0, <1>2 DEF AnswerTask, Life, Shapes, MatType, MatTask
  <2>2. mat'.task.from = NoThread /\ UNCHANGED matQ
    BY <1>0, <1>2 DEF AnswerTask, MatType, NoTask
  <2>3. \A u \in Threads : Waits(u)' <=> u # t /\ Waits(u)
    <3>1. PICK ok, nodes : Answer(t, ok, nodes)
      BY <1>2 DEF AnswerTask
    <3>2. \A u \in Threads : call'[u].pc = IF u = t THEN "answered" ELSE call[u].pc
      BY <3>1, <2>1 DEF Answer, TypeInv, CallsType, CallType
    <3> QED BY <3>2 DEF Waits
  <2>4. \A i \in DOMAIN matQ : matQ[i].from # t
    BY <2>1 DEF CallHasTask
  <2> QED
    BY <2>1, <2>2, <2>3, <2>4, ThreadsAssumption DEF CallHasTask, Waits
<1>3. CASE Prepare \/ BuildTask \/ FailTraversal \/ AbortTraversal \/ PublishTasks
  <2>1. mat'.task = mat.task /\ UNCHANGED <<matQ, call>>
    <3>1. CASE Prepare
      BY <1>0, <3>1 DEF Prepare, MatType
    <3>2. CASE BuildTask
      BY <1>0, <3>2 DEF BuildTask, Built, MatType
    <3>3. CASE FailTraversal
      BY <1>0, <3>3 DEF FailTraversal, Built, MatType
    <3>4. CASE AbortTraversal \/ PublishTasks
      BY <1>0, <3>4 DEF AbortTraversal, PublishTasks, MatType
    <3> QED BY <1>3, <3>1, <3>2, <3>3, <3>4
  <2> QED BY <2>1 DEF CallHasTask
<1> QED BY <1>1, <1>2, <1>3 DEF MaterializeLoop

LEMMA CallsOthers ==
    ASSUME TypeInv, Life, CallHasTask,
           ExecuteLoop \/ ShutDown \/ ContinueShutDown \/ UNCHANGED programVars
    PROVE  CallHasTask'
<1> USE DEF workerVars
<1>1. CASE UNCHANGED <<call, matQ, mat>>
  BY <1>1 DEF CallHasTask
<1>2. CASE PushMaterializeSentinel
  <2>1. matQ' = Append(matQ, Sentinel) /\ matQ \in Seq(MatTask) /\ UNCHANGED <<call, mat>>
    BY <1>2 DEF PushMaterializeSentinel, TypeInv, TypeOK
  <2>2. Sentinel \in MatTask /\ Sentinel.from = NoThread
    BY DEF Sentinel, NoTask, MatTask, Modes
  <2>3. /\ DOMAIN matQ' = DOMAIN matQ \cup {Len(matQ) + 1}
        /\ \A i \in DOMAIN matQ : matQ'[i] = matQ[i]
        /\ matQ'[Len(matQ) + 1] = Sentinel
    BY <2>1, <2>2
  <2> QED BY <2>1, <2>2, <2>3, ThreadsAssumption DEF CallHasTask
<1>3. CASE FailRemainingMaterializationTasks
  <2>1. matQ = <<>> /\ matQ' = <<>> /\ UNCHANGED mat
    BY <1>3 DEF FailRemainingMaterializationTasks, CloserStep, Life, MatClosing
  <2>2. \A u \in Threads : Waits(u)' <=> Waits(u)
    BY <1>3, <2>1 DEF FailRemainingMaterializationTasks, Waits
  <2> QED BY <2>1, <2>2, SameWaiters
<1> QED
  BY <1>1, <1>2, <1>3
  DEF ExecuteLoop, DequeueExecutionTask, RunTask, FailTask, ShutDown, ContinueShutDown,
      JoinMaterializeThread, PushExecuteSentinel, JoinExecuteThread,
      FailRemainingExecutionTasks, programVars

LEMMA CallsNext == TypeInv /\ Life /\ CallHasTask /\ [Next]_vars => CallHasTask'
BY CallsBegin, CallsContinue, CallsMaterializeLoop, CallsOthers, RestingStep DEF Next, Rests

LEMMA CallsInit == Init => CallHasTask
BY ThreadsAssumption DEF Init, CallHasTask, Idle, NoTask

\* A call that waits for the worker has exactly one task in its hands, so its
\* completion promise is set once, by the worker or by the shutdown.
THEOREM CallsAreServed == Spec => []CallHasTask
<1>1. Init => TypeInv /\ Life /\ CallHasTask
  BY TypeInit, LifeInit, CallsInit
<1>2. TypeInv /\ Life /\ CallHasTask /\ [Next]_vars => (TypeInv /\ Life /\ CallHasTask)'
  BY TypeNext, LifeNext, CallsNext
<1> QED BY <1>1, <1>2, PTL DEF Spec
=============================================================================
