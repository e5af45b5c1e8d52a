-------------------------- MODULE Materialization ---------------------------
(***************************************************************************)
(* The eager runtime: dispatch threads that defer ops and ask for their    *)
(* values, and MaterializationWorker, whose materialize thread turns       *)
(* stretches of the events queue into execution tasks and whose execute    *)
(* thread runs them.                                                       *)
(*                                                                         *)
(* A dispatch thread is inside at most one call, call[t]; the future the   *)
(* worker answers is part of the call.  One device with one stream is      *)
(* modelled, so that MaterializeDevice is MaterializeStream.               *)
(***************************************************************************)
EXTENDS EventsQueue

CONSTANTS Threads,      \* dispatch threads
          Deployments   \* how the process is set up, see Deployment

(***************************************************************************)
(* threads:     the dispatch threads the program uses                      *)
(* mode:        MaterializationMode of the repeated ops heuristic, split   *)
(*              in its safe mode and full in its aggressive mode           *)
(* kinds:       the kinds of ops it runs                                   *)
(* executables: compiled models are executed as well                       *)
(* closes:      the program shuts the runtime down at some point           *)
(* budget:      bound on the buffers the program creates                   *)
(* failures:    bound on the compilations and executions that fail         *)
(***************************************************************************)
Deployment ==
    [threads: SUBSET Threads, mode: {"split", "full"}, kinds: SUBSET Kinds,
     executables: BOOLEAN, closes: BOOLEAN, budget: 0..MaxBuffers, failures: Nat]

NoThread == "none"

ASSUME DeploymentsAssumption == Deployments \subseteq Deployment
ASSUME ThreadsAssumption == NoThread \notin Threads

Modes == {"split", "full"}
CallPCs == {"idle", "record", "dispatch", "tensor", "wait", "answered", "read",
            "sync", "create", "push"}
Purposes == {"none", "heuristic", "read", "execute", "sync"}
MatPCs == {"idle", "prepare", "build", "publish", "answer", "stopped"}
CloserPCs == {"open", "push1", "join1", "fail1", "push2", "join2", "fail2", "down"}
NoBuffer == 0

VARIABLES
    deploy,    \* the deployment
    call,      \* the call each dispatch thread is in
    matQ,      \* materialize_tasks_
    execQ,     \* execute_tasks_
    mat,       \* materialize_thread_
    ex,        \* execute_thread_
    failed,    \* how many compilations and executions have failed
    closer,    \* the thread that won the exchange in Shutdown
    crashed    \* the ABSL_CHECK that aborted the process, or "no"

workerVars == <<matQ, execQ, mat, ex, failed, closer>>
vars == <<bufferVars, queueVars, deploy, call, workerVars, crashed>>

Idle == [pc |-> "idle", nodes |-> {}, out |-> NoBuffer, why |-> "none", ok |-> TRUE]

NoTask == [kind |-> "none", nodes |-> {}, mode |-> "split", from |-> NoThread]
Sentinel == [NoTask EXCEPT !.kind = "sentinel"]

MatTask ==
    [kind: {"none", "sentinel", "nodes", "stream"}, nodes: SUBSET Buffers, mode: Modes,
     from: Threads \cup {NoThread}]
ExecTask ==
    [kind: {"none", "task", "sentinel"}, args: SUBSET Buffers, outs: SUBSET Buffers,
     effects: SUBSET Buffers, compiled: BOOLEAN]

NoExecTask == [kind |-> "none", args |-> {}, outs |-> {}, effects |-> {},
               compiled |-> TRUE]
ExecSentinel == [NoExecTask EXCEPT !.kind = "sentinel"]

\* Types of all variables but mat.plan, the traversals under construction.
TypeOK ==
    /\ BuffersTypeOK
    /\ QueueTypeOK
    /\ deploy \in Deployments
    /\ call \in [Threads -> [pc: CallPCs, nodes: SUBSET Buffers,
                             out: Buffers \cup {NoBuffer}, why: Purposes, ok: BOOLEAN]]
    /\ matQ \in Seq(MatTask)
    /\ execQ \in Seq(ExecTask)
    /\ mat.pc \in MatPCs /\ mat.task \in MatTask
    /\ mat.events \in Seq(Buffers) /\ mat.batch \in Seq(ExecTask) /\ mat.err \in BOOLEAN
    /\ mat = [pc |-> mat.pc, task |-> mat.task, events |-> mat.events,
              plan |-> mat.plan, batch |-> mat.batch, err |-> mat.err]
    /\ ex \in [pc: {"idle", "run", "stopped"}, task: ExecTask]
    /\ failed \in 0..deploy.failures
    /\ closer \in CloserPCs
    /\ crashed \in {"no", "heuristic", "graph_key"}

Init ==
    /\ BuffersInit
    /\ QueueInit
    /\ deploy \in Deployments
    /\ call = [t \in Threads |-> Idle]
    /\ matQ = <<>>
    /\ execQ = <<>>
    /\ mat = [pc |-> "idle", task |-> NoTask, events |-> <<>>, plan |-> <<>>,
              batch |-> <<>>, err |-> FALSE]
    /\ ex = [pc |-> "idle", task |-> NoExecTask]
    /\ failed = 0
    /\ closer = "open"
    /\ crashed = "no"

\* shutdown_
ShuttingDown == closer # "open"

At(t, pc) == t \in deploy.threads /\ call[t].pc = pc
Go(t, c) == call' = [call EXCEPT ![t] = c]
Step(t, pc) == Go(t, [call[t] EXCEPT !.pc = pc])
GoMakeTensor(t) == Go(t, [Idle EXCEPT !.pc = "tensor", !.out = call[t].out])

(***************************************************************************)
(* Creating tensors.                                                       *)
(***************************************************************************)

\* The bound: a buffer can be created besides the ones that executables that
\* were called will create.
HasRoom ==
    next + Cardinality({t \in Threads : call[t].why = "execute" /\ call[t].out = NoBuffer})
        <= deploy.budget

\* An op on at most two live tensors; a constant has no inputs.
CreateOp(t, k, ins) ==
    /\ At(t, "idle")
    /\ k \in deploy.kinds /\ HasRoom
    /\ ins \subseteq live /\ Cardinality(ins) <= 2
    /\ k = "constant" => ins = {}
    /\ CreateDeferred(k, ins)
    /\ Go(t, [Idle EXCEPT !.pc = "record", !.out = next])
    /\ UNCHANGED <<live, queueVars, deploy, workerVars, crashed>>

RecordOp(t) ==
    /\ At(t, "record")
    /\ RecordDeferredOpCreated(call[t].out)
    /\ Step(t, "dispatch")
    /\ UNCHANGED <<bufferVars, futures, deploy, workerVars, crashed>>

\* Fault: the shutdown flag is not checked under the lock.
EnqueueUnchecked(t, c, task) ==
    /\ Go(t, [c EXCEPT !.pc = "wait"])
    /\ matQ' = Append(matQ, task)

\* Fault: a call that synchronizes does not wait for the worker.
EnqueueStreamAsync(t, c, task) ==
    /\ Go(t, IF task.kind = "stream" THEN Idle ELSE [c EXCEPT !.pc = "wait"])
    /\ matQ' = Append(matQ, task)

\* EnqueueNodes and EnqueueStream check the shutdown flag and push under
\* materialize_mu_, and so are one step; a cancelled call fails.
Enqueue(t, c, task) ==
    IF ShuttingDown
    THEN /\ Go(t, Idle)
         /\ UNCHANGED matQ
    ELSE /\ Go(t, [c EXCEPT !.pc = "wait"])
         /\ matQ' = Append(matQ, task)

\* MaterializeImpl: nothing is enqueued unless one of the nodes is deferred.
\* The caller goes on at pc once they are pending.
Materialize(t, c, mode, pc) ==
    LET deferred == {b \in c.nodes : IsDeferred(b)}
    IN  IF deferred = {}
        THEN /\ Go(t, [c EXCEPT !.pc = pc])
             /\ UNCHANGED matQ
        ELSE Enqueue(t, c, [kind |-> "nodes", nodes |-> deferred, mode |-> mode,
                            from |-> t])

\* DeferAndFuseDispatch of an op that the heuristic does not look at, or that
\* completes no repeated sequence.
DispatchPlain(t) ==
    /\ At(t, "dispatch")
    /\ GoMakeTensor(t)
    /\ UNCHANGED <<bufferVars, queueVars, deploy, workerVars, crashed>>

\* The op completes a repeated sequence and is materialized.  The heuristic
\* has checked that its op has not been consumed.
DispatchRepeated(t) ==
    /\ At(t, "dispatch")
    /\ IF IsDeferred(call[t].out)
       THEN /\ Materialize(t, [call[t] EXCEPT !.nodes = {call[t].out}, !.why = "heuristic"],
                           deploy.mode, "tensor")
            /\ UNCHANGED crashed
       ELSE /\ crashed' = "heuristic"
            /\ UNCHANGED <<call, matQ>>
    /\ UNCHANGED <<bufferVars, queueVars, deploy, execQ, mat, ex, failed, closer>>

MakeTensor(t) ==
    /\ At(t, "tensor")
    /\ live' = live \cup {call[t].out}
    /\ Go(t, Idle)
    /\ UNCHANGED <<next, kind, inputs, state, lastChild, busy, queueVars, deploy,
                   workerVars, crashed>>

\* The buffers the call of a thread refers to.
HeldByCall(c) ==
    (IF c.why = "sync" THEN {} ELSE c.nodes) \cup ({c.out} \ {NoBuffer})

\* The last tensor that uses buffer b goes away.
DropTensor(t, b) ==
    /\ At(t, "idle")
    /\ b \in live
    /\ \A u \in Threads : b \notin HeldByCall(call[u])
    /\ live' = live \ {b}
    /\ UNCHANGED <<next, kind, inputs, state, lastChild, busy, queueVars, deploy, call,
                   workerVars, crashed>>

(***************************************************************************)
(* Asking for values.                                                      *)
(***************************************************************************)

\* The value of a tensor is needed on the host.
ReadTensor(t, b) ==
    /\ At(t, "idle")
    /\ b \in live
    /\ Materialize(t, [Idle EXCEPT !.nodes = {b}, !.why = "read"], "split", "read")
    /\ UNCHANGED <<bufferVars, queueVars, deploy, execQ, mat, ex, failed, closer, crashed>>

\* MaterializeStream or MaterializeDevice, to synchronize.  Until the answer
\* arrives, nodes only notes which tensors there were when it was called.
SyncStream(t) ==
    /\ At(t, "idle")
    /\ Enqueue(t, [Idle EXCEPT !.nodes = {b \in live : ~IsConstant(b)}, !.why = "sync"],
               [kind |-> "stream", nodes |-> {}, mode |-> "split", from |-> t])
    /\ UNCHANGED <<bufferVars, queueVars, deploy, execQ, mat, ex, failed, closer, crashed>>

\* ExecuteCompiledModel materializes the arguments first.
ExecuteModel(t, args) ==
    /\ At(t, "idle")
    /\ deploy.executables /\ HasRoom
    /\ args \subseteq live /\ Cardinality(args) \in 1..2
    /\ Materialize(t, [Idle EXCEPT !.nodes = args, !.why = "execute"], "split", "create")
    /\ UNCHANGED <<bufferVars, queueVars, deploy, execQ, mat, ex, failed, closer, crashed>>

\* The worker has set the promise; MaterializeImpl checks the nodes.
Resume(t) ==
    /\ At(t, "answered")
    /\ IF ~call[t].ok \/ (call[t].why # "sync" /\ \E b \in call[t].nodes : ~IsMaterializing(b))
       THEN Go(t, Idle)
       ELSE IF call[t].why = "heuristic" THEN GoMakeTensor(t)
       ELSE Step(t, CASE call[t].why = "read" -> "read"
                      [] call[t].why = "execute" -> "create"
                      [] OTHER -> "sync")
    /\ UNCHANGED <<bufferVars, queueVars, deploy, workerVars, crashed>>

\* AwaitBuffer waits for the promise, EventSnapshot::Wait for the device.
AwaitBuffers(t) ==
    /\ \/ At(t, "read") /\ \A b \in call[t].nodes : IsMaterialized(b)
       \/ At(t, "sync") /\ \A b \in call[t].nodes : IsReady(b)
    /\ Go(t, Idle)
    /\ UNCHANGED <<bufferVars, queueVars, deploy, workerVars, crashed>>

\* EnqueueExecutable creates its output and records it on the stream before
\* it builds the task ...
CreateOutput(t) ==
    /\ At(t, "create")
    /\ CreatePending
    /\ RecordBackgroundMaterialization({next})
    /\ Go(t, IF \A b \in call[t].nodes : IsMaterializing(b)
             THEN [call[t] EXCEPT !.pc = "push", !.out = next] ELSE Idle)
    /\ UNCHANGED <<live, deferredOps, deploy, workerVars, crashed>>

\* ... and pushes it under execute_mu_, or fails the output.
PushExecutable(t) ==
    /\ At(t, "push")
    /\ IF ShuttingDown
       THEN /\ SetAsError({call[t].out})
            /\ Go(t, Idle)
            /\ UNCHANGED execQ
       ELSE /\ execQ' = Append(execQ, [kind |-> "task", args |-> call[t].nodes,
                                       outs |-> {call[t].out}, effects |-> {},
                                       compiled |-> TRUE])
            /\ GoMakeTensor(t)
            /\ UNCHANGED <<next, kind, inputs, state, lastChild, busy>>
    /\ UNCHANGED <<live, queueVars, deploy, matQ, mat, ex, failed, closer, crashed>>

(***************************************************************************)
(* The materialize thread.                                                 *)
(***************************************************************************)

\* The buffers that calls, tasks and the execute thread refer to.
Held ==
    LET refs(q) == UNION {q[i].args \cup q[i].outs : i \in DOMAIN q}
        calls == UNION {HeldByCall(call[t]) : t \in Threads}
        queued == UNION {matQ[i].nodes : i \in DOMAIN matQ}
    IN  calls \cup queued \cup mat.task.nodes \cup refs(execQ) \cup refs(<<ex.task>>)

\* Fault: a task whose nodes an earlier task has dealt with is dropped.
DequeueForgetsPromise ==
    /\ mat.pc = "idle" /\ matQ # <<>>
    /\ Head(matQ).kind # "sentinel"
    /\ matQ' = Tail(matQ)
    /\ LET task == Head(matQ)
           take == IF task.kind = "stream" THEN TakeAll ELSE TakeUntilNodes(task.nodes)
       IN  IF task.kind = "nodes" /\ \A b \in task.nodes : ~IsDeferred(b)
           THEN UNCHANGED <<mat, deferredOps>>
           ELSE /\ mat' = [mat EXCEPT !.pc = "prepare", !.task = task, !.events = take.taken]
                /\ deferredOps' = take.rest
    /\ UNCHANGED <<bufferVars, futures, deploy, call, execQ, ex, failed, closer, crashed>>

\* MaterializeLoopStep dequeues a task, ProcessMaterializationTask leaves out
\* the nodes an earlier task has dealt with and takes its events.
DequeueMaterializationTask ==
    /\ mat.pc = "idle" /\ matQ # <<>>
    /\ matQ' = Tail(matQ)
    /\ LET task == Head(matQ)
           wanted == {b \in task.nodes : IsDeferred(b)}
           take == IF task.kind = "stream" THEN TakeAll ELSE TakeUntilNodes(wanted)
       IN  IF task.kind = "sentinel"
           THEN /\ mat' = [mat EXCEPT !.pc = "stopped"]
                /\ UNCHANGED deferredOps
           ELSE /\ mat' = [mat EXCEPT
                              !.pc = IF task.kind = "nodes" /\ wanted = {}
                                     THEN "publish" ELSE "prepare",
                              !.task = task, !.events = take.taken]
                /\ deferredOps' = take.rest
    /\ UNCHANGED <<bufferVars, futures, deploy, call, execQ, ex, failed, closer, crashed>>

\* PrepareTraversals, and the splitting half of ApplySplitMode.
Prepare ==
    /\ mat.pc = "prepare"
    /\ LET traversals == PrepareTraversals(mat.events, mat.task.nodes, Held)
           plan == IF mat.task.mode = "full" THEN traversals
                   ELSE FlattenSeq([i \in DOMAIN traversals |-> SplitTraversal(traversals[i])])
       IN  mat' = [mat EXCEPT !.pc = IF plan = <<>> THEN "publish" ELSE "build",
                              !.plan = plan, !.events = <<>>]
    /\ UNCHANGED <<bufferVars, queueVars, deploy, call, matQ, execQ, ex, failed, closer, crashed>>

\* A step that fails because an argument has failed, or by itself, of which
\* there are only so many.
MayFail(argumentFailed) ==
    IF argumentFailed THEN UNCHANGED failed
    ELSE failed < deploy.failures /\ failed' = failed + 1

\* The nodes, outputs and arguments of the traversal that is built next.
Nodes == {b \in Buffers : b \in ToSet(Head(mat.plan).order)}
Outputs == {b \in Nodes : b \in Head(mat.plan).outs}
Arguments == {b \in Buffers : b \in Head(mat.plan).args}

Built == [mat EXCEPT !.plan = Tail(mat.plan),
                     !.pc = IF Len(mat.plan) = 1 THEN "publish" ELSE "build"]

CollectivesOf(S) == {b \in S : kind[b] = "collective"}

\* ExecutionTask::FromTraversal.  The cache key needs the op of every node.
\* The outputs become pending unless an argument failed or is deferred, or
\* the traversal cannot be lowered.
BuildTask ==
    /\ mat.pc = "build"
    /\ \A b \in Nodes : IsDeferred(b)
    /\ \A b \in Arguments : state[b] \in {"pending", "ok"}
    /\ SetAsPendingMaterialization(Outputs)
    /\ RecordBackgroundMaterialization(Outputs)
    /\ mat' = [Built EXCEPT !.batch =
                 Append(@, [kind |-> "task", args |-> Arguments, outs |-> Outputs,
                            effects |-> CollectivesOf(Outputs), compiled |-> FALSE])]
    /\ UNCHANGED <<live, deferredOps, deploy, call, matQ, execQ, ex, failed, closer, crashed>>

FailTraversal ==
    /\ mat.pc = "build"
    /\ \A b \in Nodes : IsDeferred(b)
    /\ MayFail(\E b \in Arguments : state[b] \notin {"pending", "ok"})
    /\ SetAsError(Outputs)
    /\ mat' = [Built EXCEPT !.err = TRUE]
    /\ UNCHANGED <<live, queueVars, deploy, call, matQ, execQ, ex, closer, crashed>>

\* BuildGraphKey aborts when the op of a node has been consumed.
AbortTraversal ==
    /\ mat.pc = "build"
    /\ \E b \in Nodes : ~IsDeferred(b)
    /\ crashed' = "graph_key"
    /\ UNCHANGED <<bufferVars, queueVars, deploy, call, workerVars>>

\* Fault: the tasks that were built are given up when one of them failed.
PublishTasksUnlessError ==
    /\ mat.pc = "publish"
    /\ execQ' = IF mat.err THEN execQ ELSE execQ \o mat.batch
    /\ mat' = [mat EXCEPT !.pc = "answer", !.batch = <<>>]
    /\ UNCHANGED <<bufferVars, queueVars, deploy, call, matQ, ex, failed, closer, crashed>>

\* Fault: the tasks are pushed in front of the ones that are queued.
PublishTasksInFront ==
    /\ mat.pc = "publish"
    /\ execQ' = Reverse(mat.batch) \o execQ
    /\ mat' = [mat EXCEPT !.pc = "answer", !.batch = <<>>]
    /\ UNCHANGED <<bufferVars, queueVars, deploy, call, matQ, ex, failed, closer, crashed>>

PublishTasks ==
    /\ mat.pc = "publish"
    /\ execQ' = execQ \o mat.batch
    /\ mat' = [mat EXCEPT !.pc = "answer", !.batch = <<>>]
    /\ UNCHANGED <<bufferVars, queueVars, deploy, call, matQ, ex, failed, closer, crashed>>

Answer(t, ok, nodes) ==
    call' = [call EXCEPT ![t].pc = "answered", ![t].ok = ok, ![t].nodes = nodes]

\* The completion promise is set; the snapshot of a stream joins the futures
\* of the work in flight.
AnswerTask ==
    /\ mat.pc = "answer"
    /\ LET t == mat.task.from
       IN  IF mat.task.kind = "nodes"
           THEN /\ SetAsError({b \in mat.task.nodes : mat.err /\ ~IsMaterializing(b)})
                /\ Answer(t, ~mat.err, call[t].nodes)
                /\ UNCHANGED futures
           ELSE /\ Answer(t, ~mat.err, IF mat.err THEN {} ELSE JoinFutures)
                /\ futures' = IF mat.err THEN futures ELSE JoinFutures
                /\ UNCHANGED <<next, kind, inputs, state, lastChild, busy>>
    /\ mat' = [mat EXCEPT !.pc = "idle", !.task = NoTask, !.err = FALSE]
    /\ UNCHANGED <<live, deferredOps, deploy, matQ, execQ, ex, failed, closer, crashed>>

(***************************************************************************)
(* The execute thread.                                                     *)
(***************************************************************************)
DequeueExecutionTask ==
    /\ ex.pc = "idle" /\ execQ # <<>>
    /\ execQ' = Tail(execQ)
    /\ ex' = IF Head(execQ).kind = "sentinel"
             THEN [ex EXCEPT !.pc = "stopped"]
             ELSE [pc |-> "run", task |-> Head(execQ)]
    /\ UNCHANGED <<bufferVars, queueVars, deploy, call, matQ, mat, failed, closer, crashed>>

\* ExecutionTask::Run: the compilation and the arguments are awaited, the
\* execution is launched, and the outputs get their buffers one after the
\* other.  outs are the outputs that still need one ...
RunTask ==
    /\ ex.pc = "run"
    /\ \A b \in ex.task.args : state[b] = "ok"
    /\ \E b \in ex.task.outs :
          /\ SetAsMaterialized({b})
          /\ ex' = IF ex.task.outs = {b} THEN [pc |-> "idle", task |-> NoExecTask]
                   ELSE [ex EXCEPT !.task.outs = @ \ {b}]
    /\ UNCHANGED <<live, queueVars, deploy, call, matQ, execQ, mat, failed, closer, crashed>>

\* GetArgumentBuffers awaits the arguments in order, and returns the error of
\* the first one that has one.
ArgumentFailed(args) ==
    \E b \in args : /\ state[b] \notin {"pending", "ok"}
                    /\ \A a \in args : a < b => state[a] = "ok"

\* ... or the error of the compilation, of an argument, of the execution or of
\* setting another output.
FailTask ==
    /\ ex.pc = "run"
    /\ \/ ArgumentFailed(ex.task.args) /\ UNCHANGED failed
       \/ MayFail(FALSE) /\ (~ex.task.compiled \/ \A b \in ex.task.args : state[b] = "ok")
    /\ SetAsError(ex.task.outs)
    /\ ex' = [pc |-> "idle", task |-> NoExecTask]
    /\ UNCHANGED <<live, queueVars, deploy, call, matQ, execQ, mat, closer, crashed>>

\* The device finishes an execution; the ready future of the buffer is set.
DeviceFinishes(b) ==
    /\ b \in busy
    /\ busy' = busy \ {b}
    /\ UNCHANGED <<next, kind, inputs, state, live, lastChild, queueVars, deploy, call,
                   workerVars, crashed>>

(***************************************************************************)
(* Shutdown.                                                               *)
(***************************************************************************)
CloserStep(from, to) == closer = from /\ closer' = to

ShutDown ==
    /\ deploy.closes
    /\ CloserStep("open", "push1")
    /\ UNCHANGED <<bufferVars, queueVars, deploy, call, matQ, execQ, mat, ex, failed, crashed>>

\* Fault: an idle thread is woken up only.
PushSentinelIfEmpty ==
    /\ CloserStep("push1", "join1")
    /\ matQ' = IF matQ = <<>> THEN <<Sentinel>> ELSE matQ
    /\ UNCHANGED <<bufferVars, queueVars, deploy, call, execQ, mat, ex, failed, crashed>>

PushMaterializeSentinel ==
    /\ CloserStep("push1", "join1")
    /\ matQ' = Append(matQ, Sentinel)
    /\ UNCHANGED <<bufferVars, queueVars, deploy, call, execQ, mat, ex, failed, crashed>>

JoinMaterializeThread ==
    /\ CloserStep("join1", "fail1")
    /\ mat.pc = "stopped"
    /\ UNCHANGED <<bufferVars, queueVars, deploy, call, matQ, execQ, mat, ex, failed, crashed>>

FailRemainingMaterializationTasks ==
    /\ CloserStep("fail1", "push2")
    /\ SetAsError(UNION {matQ[i].nodes : i \in DOMAIN matQ})
    /\ call' = [t \in Threads |->
                  IF \E i \in DOMAIN matQ : matQ[i].from = t
                  THEN [call[t] EXCEPT !.pc = "answered", !.ok = FALSE] ELSE call[t]]
    /\ matQ' = <<>>
    /\ UNCHANGED <<live, queueVars, deploy, execQ, mat, ex, failed, crashed>>

PushExecuteSentinel ==
    /\ CloserStep("push2", "join2")
    /\ execQ' = Append(execQ, ExecSentinel)
    /\ UNCHANGED <<bufferVars, queueVars, deploy, call, matQ, mat, ex, failed, crashed>>

\* Fault: the execute thread is detached.
DetachExecuteThread ==
    /\ CloserStep("join2", "fail2")
    /\ UNCHANGED <<bufferVars, queueVars, deploy, call, matQ, execQ, mat, ex, failed, crashed>>

JoinExecuteThread ==
    /\ CloserStep("join2", "fail2")
    /\ ex.pc = "stopped"
    /\ UNCHANGED <<bufferVars, queueVars, deploy, call, matQ, execQ, mat, ex, failed, crashed>>

FailRemainingExecutionTasks ==
    /\ CloserStep("fail2", "down")
    /\ SetAsError(UNION {execQ[i].outs : i \in DOMAIN execQ})
    /\ execQ' = <<>>
    /\ UNCHANGED <<live, queueVars, deploy, call, matQ, mat, ex, failed, crashed>>

(***************************************************************************)
(* The specification.                                                      *)
(***************************************************************************)
Begin(t) ==
    \/ \E k \in Kinds, ins \in SUBSET Buffers : CreateOp(t, k, ins)
    \/ \E b \in Buffers : DropTensor(t, b)
    \/ \E b \in Buffers : ReadTensor(t, b)
    \/ SyncStream(t)
    \/ \E args \in SUBSET Buffers : ExecuteModel(t, args)

Continue(t) ==
    \/ RecordOp(t)
    \/ DispatchPlain(t)
    \/ DispatchRepeated(t)
    \/ MakeTensor(t)
    \/ Resume(t)
    \/ AwaitBuffers(t)
    \/ CreateOutput(t)
    \/ PushExecutable(t)

MaterializeLoop ==
    \/ DequeueMaterializationTask
    \/ Prepare
    \/ BuildTask
    \/ FailTraversal
    \/ AbortTraversal
    \/ PublishTasks
    \/ AnswerTask

ExecuteLoop ==
    \/ DequeueExecutionTask
    \/ RunTask
    \/ FailTask

ContinueShutDown ==
    \/ PushMaterializeSentinel
    \/ JoinMaterializeThread
    \/ FailRemainingMaterializationTasks
    \/ PushExecuteSentinel
    \/ JoinExecuteThread
    \/ FailRemainingExecutionTasks

\* Nothing happens after an abort.
Next ==
    \/ /\ crashed = "no"
       /\ \/ \E t \in Threads : Begin(t) \/ Continue(t)
          \/ MaterializeLoop
          \/ ExecuteLoop
          \/ \E b \in Buffers : DeviceFinishes(b)
          \/ ShutDown
          \/ ContinueShutDown
    \/ crashed # "no" /\ UNCHANGED vars

Spec == Init /\ [][Next]_vars

\* Threads that are inside a call, the two worker threads, the device and a
\* shutdown that has begun keep running; nobody has to make a call.  The
\* second conjunct is the weak fairness of MaterializeLoop, written out: every
\* step of the materialize thread that does not abort changes mat, and nothing
\* else does.
Fairness ==
    /\ \A t \in Threads : WF_vars(crashed = "no" /\ Continue(t))
    /\ \/ []<>(crashed # "no" \/ mat.pc = "stopped" \/ (mat.pc = "idle" /\ matQ = <<>>))
       \/ []<><<TRUE>>_mat
    /\ WF_vars(crashed = "no" /\ ExecuteLoop)
    /\ WF_vars(crashed = "no" /\ \E b \in Buffers : DeviceFinishes(b))
    /\ WF_vars(crashed = "no" /\ ContinueShutDown)

FairSpec == Spec /\ Fairness

(***************************************************************************)
(* Properties.                                                             *)
(***************************************************************************)
Solo == \E t \in Threads : deploy.threads = {t}

\* Not several threads of which one executes compiled models: a model called
\* by one thread can be queued in front of the task that another thread's
\* call has built its argument with, and waits for it forever.
InOrder == Solo \/ ~deploy.executables

\* The execution tasks in the order in which they run, except for the ones
\* that dispatch threads are about to push.
Pipeline == <<ex.task>> \o execQ \o mat.batch

\* Every buffer that is pending is the output of exactly one task that is
\* queued, running, built or about to be pushed, and the outputs of those
\* tasks are pending: no waiter is left with a promise nobody will set, and
\* no task finds the promise of its output set ("attempted to set
\* materialized buffers after materialization was already started").
PendingHasTask ==
    LET owns(i, b) == i \in DOMAIN Pipeline /\ b \in Pipeline[i].outs
        pushes(t, b) == call[t].pc = "push" /\ call[t].out = b
    IN  /\ \A b \in Buffers : state[b] = "pending" <=>
               (\E i \in DOMAIN Pipeline : owns(i, b)) \/ (\E t \in Threads : pushes(t, b))
        /\ \A b \in Buffers, i, j \in DOMAIN Pipeline :
               owns(i, b) /\ owns(j, b) => i = j
        /\ \A b \in Buffers, t, u \in Threads :
               pushes(t, b) /\ pushes(u, b) => t = u
        /\ \A b \in Buffers, i \in DOMAIN Pipeline, t \in Threads :
               ~(owns(i, b) /\ pushes(t, b))

\* Unless several threads dispatch and one of them executes compiled models,
\* a task waits only for outputs of tasks in front of it, so that the single
\* execute thread never waits for a task behind the one it runs.
NoTaskWaitsBehind ==
    InOrder =>
        \A i \in DOMAIN Pipeline : \A b \in Pipeline[i].args :
            state[b] = "pending" => \E j \in 1..(i - 1) : b \in Pipeline[j].outs

\* With one dispatch thread and kSplitGraph no traversal has a deferred
\* argument when it is built, and no executable gets one (FromTraversal and
\* FromExecutable would refuse them).
NoDeferredArgument ==
    Solo /\ deploy.mode = "split" =>
        /\ mat.pc = "build" =>
               \A b \in Arguments : IsMaterializing(b) \/ state[b] = "unborn"
        /\ \A t \in Threads : call[t].pc = "create" =>
               \A b \in call[t].nodes : IsMaterializing(b)

\* A call that is told that its materialization succeeded finds every one of
\* its nodes pending or set (the TT_RET_CHECK of MaterializeImpl), whatever
\* other threads, earlier tasks and the shutdown did to them.
AnsweredOkIsPending ==
    \A t \in Threads :
        call[t].pc = "answered" /\ call[t].ok /\ call[t].why # "sync" =>
            \A b \in call[t].nodes : IsMaterializing(b)

\* A call that waits for the worker has exactly one task, and every task has
\* a call that waits: each completion promise is set once, by the worker or
\* by the shutdown.
CallHasTask ==
    /\ \A t \in Threads : call[t].pc = "wait" <=>
           mat.task.from = t \/ \E i \in DOMAIN matQ : matQ[i].from = t
    /\ \A i \in DOMAIN matQ : matQ[i].from \in Threads =>
           /\ matQ[i].from # mat.task.from
           /\ \A j \in DOMAIN matQ : matQ[i].from = matQ[j].from => i = j

\* When the worker threads were joined nothing is left in their queues
\* ("materialize_tasks_ should be empty", "execute_tasks_ should be empty").
QueuesDrained ==
    /\ closer = "fail1" => matQ = <<>>
    /\ closer = "fail2" => execQ = <<>> /\ mat.batch = <<>>

\* No thread that dispatches alone fails the check of the heuristic that the
\* op it has just recorded still has its deferred op.
SoloKeepsItsOp == Solo => crashed # "heuristic"

\* Every op of a traversal whose cache key is computed still has its deferred
\* op (the ABSL_CHECK of BuildGraphKey).  It does not hold: see the README.
GraphKeyHasOps == crashed # "graph_key"

\* The events that were taken and the ones that were not.
Queue == mat.events \o deferredOps

\* The collectives that were recorded and have not run, in the order in which
\* they will: those of each task, of each traversal and of each event.
Effects ==
    [i \in DOMAIN Pipeline |-> Pipeline[i].effects]
    \o [i \in DOMAIN mat.plan |-> CollectivesOf(mat.plan[i].outs)]
    \o [i \in DOMAIN Queue |-> {b \in CollectivesOf({Queue[i]}) : IsDeferred(b)}]

\* A collective of a thread that dispatches alone is neither lost, although
\* nothing may refer to its result any more, nor issued twice, and
\* collectives run in program order: other ranks wait for them in that order.
EffectsKeptInOrder ==
    Solo /\ crashed = "no" =>
        /\ \A i, j \in DOMAIN Effects : i < j =>
              \A a \in Effects[i], b \in Effects[j] : a < b
        /\ \A b \in CollectivesOf(Buffers) :
              state[b] = "deferred" /\ (\A t \in Threads : ~(call[t].pc = "record" /\ call[t].out = b))
                  => \E i \in DOMAIN Effects : b \in Effects[i]

\* When a stream was synchronized, every tensor there was when it was called
\* is ready, or in flight, in the worker or on the device, and part of the
\* snapshot that is awaited: waiting for it waits for the work of the stream.
SnapshotCoversStream ==
    [][\A t \in Threads :
          call[t].why = "sync" /\ call[t].pc = "wait" /\ call'[t].pc = "answered" /\ call'[t].ok =>
              \A b \in call[t].nodes \cap live :
                  IsReady(b) \/ (IsMaterializing(b) /\ b \in call'[t].nodes)]_vars

\* What the users of the buffers see of their promises.
Outcome ==
    [b \in Buffers |-> CASE state[b] = "unborn" -> "none"
                         [] state[b] \in {"deferred", "pending"} -> "unset"
                         [] OTHER -> state[b]]
Closed == closer = "down"

Futures == INSTANCE BufferFutures WITH outcome <- Outcome, closed <- Closed

\* The promises of the buffers are set once, and never to a result after the
\* shutdown has returned.
ImplementsBufferFutures == Futures!Spec

\* Unless several threads dispatch and one of them executes compiled models,
\* every buffer that is pending gets its result or an error.  The buffers are
\* finitely many, so there is always a later time at which all of them have.
BuffersSettle ==
    InOrder => []<>(crashed # "no" \/ \A b \in Buffers : state[b] # "pending")

\* Under the same condition every call returns: whoever waits for the worker,
\* for a value or for a snapshot goes on.
CallsReturn ==
    \A t \in Threads :
        InOrder /\ call[t].pc # "idle" ~> (call[t].pc = "idle" \/ crashed # "no")

\* Under the same condition a shutdown that has begun joins both threads and
\* returns.
ShutdownReturns ==
    InOrder /\ closer = "push1" ~> (closer = "down" \/ crashed # "no")
=============================================================================
