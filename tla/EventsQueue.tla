---------------------------- MODULE EventsQueue -----------------------------
(***************************************************************************)
(* The events queue of one stream: the deferred ops in the order in which  *)
(* they were recorded and the futures of the work in flight, and the pure  *)
(* functions that cut a stretch of the queue into traversals, one per      *)
(* executable: PrepareTraversals, and SplitTraversal for kSplitGraph.      *)
(***************************************************************************)
EXTENDS DeviceBuffers, SequencesExt

VARIABLES
    deferredOps,   \* EventsQueue::deferred_ops_
    futures        \* StreamState::futures, named by their buffers

queueVars == <<deferredOps, futures>>

QueueTypeOK ==
    /\ deferredOps \in Seq(Buffers)
    /\ futures \subseteq Buffers

QueueInit ==
    /\ deferredOps = <<>>
    /\ futures = {}

\* Constants are never recorded: they are executed again by each reader.
RecordDeferredOpCreated(b) ==
    deferredOps' = IF IsConstant(b) \/ ~IsDeferred(b)
                   THEN deferredOps ELSE Append(deferredOps, b)

\* A deferred op refers to its inputs.
ReferredFrom(roots) ==
    LET closed(S) == roots \subseteq S /\ \A c \in S : inputs[c] \subseteq S
    IN  {b \in Buffers : \A S \in SUBSET Buffers : closed(S) => b \in S}

\* Fault: every event holds a weak reference, collectives too.
AliveWeak(ev, held) == ReferredFrom(live \cup held)

(***************************************************************************)
(* Weak references.  An event of an op without side effects holds a        *)
(* weak_ptr: it has expired when nothing else refers to the buffer.  held  *)
(* are the buffers somebody outside the queue refers to; an event of a     *)
(* collective, in the queue or in the stretch ev, refers to it.  The       *)
(* program reads the weak_ptr and IsStale event by event; here they are    *)
(* read once for the stretch.                                              *)
(***************************************************************************)
Alive(ev, held) ==
    ReferredFrom(live \cup held
                 \cup {b \in ToSet(ev \o deferredOps) : kind[b] = "collective"})

\* The events up to the last one of a buffer of S, and the rest.
TakeUntilNodes(S) ==
    LET n == Len(deferredOps)
        i == Cardinality({j \in 1..n : \E k \in j..n : deferredOps[k] \in S})
    IN  [taken |-> SubSeq(deferredOps, 1, i),
         rest |-> SubSeq(deferredOps, i + 1, n)]

TakeAll == [taken |-> deferredOps, rest |-> <<>>]

\* Fault: the futures of the promises are kept, not those of the device.
PruneMaterializedFutures == {b \in futures : ~IsMaterialized(b)}

(***************************************************************************)
(* The futures are those of GetReadyFuture.  MarkActive and JoinFutures    *)
(* drop the ones that are ready; MarkActive does so only to avoid growing  *)
(* the vector, which nobody can tell, as a ready future is dropped before  *)
(* every join anyway.  JoinFutures leaves the join of the futures in their *)
(* place, which is ready when all of them are.                             *)
(***************************************************************************)
PruneCompletedFutures == {b \in futures : ~IsReady(b)}
JoinFutures == PruneCompletedFutures
RecordBackgroundMaterialization(S) == futures' = PruneCompletedFutures \cup S

(***************************************************************************)
(* Traversals.  The inputs of an execution order are what its ops read     *)
(* and no earlier op of the order defines.                                 *)
(***************************************************************************)
CreateFromExecutionOrder(order, outs) ==
    [order |-> order,
     outs |-> outs,
     args |-> UNION {inputs[order[i]] \ {order[j] : j \in 1..(i - 1)} :
                        i \in DOMAIN order}]

\* The working memory of PrepareTraversals: the finished traversals, the
\* execution order and defined_node_map (the nodes of each OpUsage).
NoWork == [done |-> <<>>, order |-> <<>>, output |-> {}, used |-> {}, unused |-> {}]

\* Unused nodes become outputs, so that they are executed.
FinishTraversal(w) ==
    LET outs == w.output \cup w.unused
    IN  [NoWork EXCEPT !.done =
            IF w.order = <<>> \/ outs = {} THEN w.done
            ELSE Append(w.done, CreateFromExecutionOrder(w.order, outs))]

\* Inputs that were defined become used, a constant that was not is inserted
\* before its reader, and the node itself is an output when it is wanted or
\* has a live tensor (GetOpUsage).
ProcessDeferredOpEvent(w, b, wanted) ==
    LET read == {i \in inputs[b] : IsDeferred(i)}
        defined == w.output \cup w.used \cup w.unused
        consts == {i \in read \ defined : IsConstant(i)}
        isOutput == b \in wanted \/ ~IsStale(b)
    IN  [w EXCEPT
            !.order = w.order \o SetToSeq(consts) \o <<b>>,
            !.output = IF isOutput THEN @ \cup {b} ELSE @,
            !.used = @ \cup (w.unused \cap read) \cup consts,
            !.unused = (@ \ read) \cup (IF isOutput THEN {} ELSE {b})]

\* A collective is first and last in its execution order.
ProcessEvent(w, b, wanted) ==
    IF kind[b] = "collective"
    THEN FinishTraversal(ProcessDeferredOpEvent(FinishTraversal(w), b, wanted))
    ELSE ProcessDeferredOpEvent(w, b, wanted)

\* The loop over the events; those that have expired or whose op has been
\* consumed are passed over.
ProcessEvents(ev, wanted, alive) ==
    LET scan[i \in 0..Len(ev)] ==
            IF i = 0 THEN NoWork
            ELSE IF ev[i] \in alive /\ IsDeferred(ev[i])
            THEN ProcessEvent(scan[i - 1], ev[i], wanted)
            ELSE scan[i - 1]
    IN  scan[Len(ev)]

\* Fault: constants that are asked for are left out, like all others.
PrepareTraversalsNoConstants(ev, wanted, held) ==
    FinishTraversal(ProcessEvents(ev, wanted, Alive(ev, held))).done

\* Wanted constants are appended to the last traversal.
PrepareTraversals(ev, wanted, held) ==
    LET w == ProcessEvents(ev, wanted, Alive(ev, held))
        consts == {b \in wanted : IsConstant(b) /\ IsDeferred(b)}
        defined == w.output \cup w.used \cup w.unused
    IN  FinishTraversal(
            [w EXCEPT !.order = @ \o SetToSeq(consts \ defined),
                      !.output = @ \cup consts,
                      !.used = @ \ consts]).done

\* Fault: only the outputs are materialized.
SplitAtOutputsOnly(order, required) == required

(***************************************************************************)
(* kSplitGraph.  From the last node back, a node that is read beyond the   *)
(* node that is materialized next is materialized as well; then the order  *)
(* is cut after every such node, each cut with one output.                 *)
(***************************************************************************)
SplitAllMaterializationPoints(order, required) ==
    LET n == Len(order)
        visit[i \in 0..n] ==
            IF i = 0 THEN [at |-> 0, points |-> required]
            ELSE LET b == order[n + 1 - i]
                     acc == visit[i - 1]
                 IN  IF b \in required THEN [acc EXCEPT !.at = b]
                     ELSE IF acc.at # 0 /\ lastChild[b] > acc.at
                     THEN [at |-> b, points |-> acc.points \cup {b}]
                     ELSE acc
    IN  visit[n].points

ApplySplitPoints(order, points) ==
    LET cut[i \in 0..Len(order)] ==
            IF i = 0 THEN [order |-> <<>>, done |-> <<>>]
            ELSE LET b == order[i]
                     w == cut[i - 1]
                 IN  IF b \notin points THEN [w EXCEPT !.order = Append(@, b)]
                     ELSE [order |-> <<>>,
                           done |-> Append(w.done, CreateFromExecutionOrder(
                                                       Append(w.order, b), {b}))]
    IN  cut[Len(order)].done

SplitTraversal(t) ==
    LET points == SplitAllMaterializationPoints(t.order, t.outs)
    IN  IF points = t.outs THEN <<t>> ELSE ApplySplitPoints(t.order, points)
=============================================================================
