---------------------------- MODULE ProcessGroup ----------------------------
(***************************************************************************)
(* The ranks of a process group, each of which runs its own program of     *)
(* collectives, sends, receives and window operations.  The parts of the   *)
(* operations that go through the store are modelled, and the callbacks of *)
(* PJRT; what the devices do with the collectives they are given is not.   *)
(*                                                                         *)
(* A program is a sequence of operations.  The k-th tag of a send or a     *)
(* receive is that of its k-th stripe; plain sends have one stripe.        *)
(***************************************************************************)
EXTENDS UnevenAllToAll, CrossHostTransfer, SequencesExt

CONSTANT Deployments   \* programs, and a bound on the faults that occur

Operation ==
    [op: {"alltoall", "send", "recv"}, single: BOOLEAN, send: Sizes, recv: Sizes,
     peer: Ranks, tags: Seq(0..(MaxTags - 1)), count: 0..MaxTensors, async: BOOLEAN]

ASSUME DeploymentsAssumption ==
    \A d \in Deployments :
        /\ d.program \in [Ranks -> Seq(Operation)] /\ d.faults \in Nat
        /\ \A r \in Ranks : Len(d.program[r]) <= MaxCalls
        /\ \A r \in Ranks : \A n \in DOMAIN d.program[r] :
              d.program[r][n].op # "alltoall" => Len(d.program[r][n].tags) \in Stripes

NoSizes == [p \in Ranks |-> 0]

AllToAll(single, send, recv) ==
    [op |-> "alltoall", single |-> single, send |-> send, recv |-> recv,
     peer |-> 0, tags |-> <<>>, count |-> 0, async |-> FALSE]
Transfer(op, peer, tags, count, async) ==
    [op |-> op, single |-> FALSE, send |-> NoSizes, recv |-> NoSizes,
     peer |-> peer, tags |-> tags, count |-> count, async |-> async]

\* experimental_send and experimental_recv
Send(peer, tag, count, async) == Transfer("send", peer, <<tag>>, count, async)
Recv(peer, tag, count) == Transfer("recv", peer, <<tag>>, count, FALSE)

\* WindowTpu puts a tensor of some size to a peer, or signals one by sending the
\* registered tensor, in stripes that are transfers of their own, and waits for
\* a signal by receiving as many.  A put to the rank's own window is a local DMA
\* and not modelled.
StripeTags(size) == [k \in 1..StripeCount(size) |-> k - 1]
Put(peer, size, async) == Transfer("send", peer, StripeTags(size), 1, async)
Signal(peer, size, async) == Transfer("send", peer, StripeTags(size), 1, async)
WaitSignal(peer, size) == Transfer("recv", peer, StripeTags(size), 1, FALSE)

VARIABLES
    deploy,   \* the deployment: program and faults
    rank,     \* where each rank is
    faults    \* how many faults have occurred

vars == <<allToAllVars, transferVars, deploy, rank, faults>>

\* start: about to begin the operation, or its next stripe
\* fetch: waits for the offsets of the others
\* join:  waits for the sends of the operation
\* raised: an exception has left the program
Steps == {"start", "fetch", "join", "raised"}

TypeOK ==
    /\ AllToAllTypeOK
    /\ TransferTypeOK
    /\ deploy \in Deployments
    /\ rank \in [Ranks -> [pc: 1..(MaxCalls + 1), stripe: 1..MaxTags, step: Steps]]
    /\ faults \in 0..deploy.faults

Init ==
    /\ AllToAllInit
    /\ TransferInit
    /\ deploy \in Deployments
    /\ rank = [r \in Ranks |-> [pc |-> 1, stripe |-> 1, step |-> "start"]]
    /\ faults = 0

Returned(r) == rank[r].pc > Len(deploy.program[r])
Finished(r) == rank[r].step = "raised" \/ Returned(r)
Current(r) == deploy.program[r][rank[r].pc]
At(r, op, step) == ~Finished(r) /\ rank[r].step = step /\ Current(r).op = op

Advance(r) ==
    rank' = [rank EXCEPT ![r] = [pc |-> @.pc + 1, stripe |-> 1, step |-> "start"]]
Raise(r) == rank' = [rank EXCEPT ![r].step = "raised"]

Fault == faults < deploy.faults /\ faults' = faults + 1

(***************************************************************************)
(* all_to_all.                                                             *)
(***************************************************************************)

\* How many of the first n operations of rank r are all_to_all calls.
CallsUpTo(r, n) == Cardinality({m \in 1..n : deploy.program[r][m].op = "alltoall"})

\* How many all_to_all calls rank r has made, the current one included.
CallNumber(r) == CallsUpTo(r, rank[r].pc)

CallAllToAll(r) ==
    /\ At(r, "alltoall", "start")
    /\ IF TakesEvenPath(Current(r))
       THEN IF EvenCallAccepted(Current(r))
            THEN DispatchEven(r, Current(r), CallNumber(r)) /\ Advance(r)
            ELSE Raise(r) /\ UNCHANGED allToAllVars
       ELSE /\ PublishOffsets(r, Current(r), CallNumber(r))
            /\ rank' = [rank EXCEPT ![r].step = "fetch"]
    /\ UNCHANGED <<transferVars, deploy, faults>>

FetchOffsets(r) ==
    /\ At(r, "alltoall", "fetch")
    /\ AllPublished(r)
    /\ IF SizesAgree(r, Current(r))
       THEN DispatchRagged(r, Current(r), CallNumber(r)) /\ Advance(r)
       ELSE Raise(r) /\ UNCHANGED allToAllVars
    /\ UNCHANGED <<transferVars, deploy, faults>>

(***************************************************************************)
(* Transfers.                                                              *)
(***************************************************************************)
Tag(r) == Current(r).tags[rank[r].stripe]
LastStripe(r) == rank[r].stripe = Len(Current(r).tags)

\* After the last stripe a synchronous send waits for its works.
NextStripe(r) ==
    IF ~LastStripe(r) THEN rank' = [rank EXCEPT ![r].stripe = @ + 1]
    ELSE IF Current(r).op = "send" /\ ~Current(r).async
    THEN rank' = [rank EXCEPT ![r].stripe = 1, ![r].step = "join"]
    ELSE Advance(r)

\* CrossHostReceiveBuffers returns when the descriptors are posted.
ReceiveStripe(r) ==
    /\ At(r, "recv", "start")
    /\ PostDescriptors(r, rank[r].pc, rank[r].stripe, Current(r).peer, Tag(r),
                       Current(r).count)
    /\ NextStripe(r)
    /\ UNCHANGED <<work, copied, allToAllVars, deploy, faults>>

\* An operation throws because of a fault, before it has changed anything: ...
Fails(r, op) ==
    /\ At(r, op, "start")
    /\ Fault
    /\ Raise(r)
    /\ UNCHANGED <<transferVars, allToAllVars, deploy>>

\* ... a receive if PJRT or the store fails, ...
ReceiveFails(r) == Fails(r, "recv")

\* ... a send if a tensor of its cannot be materialized; the works of the
\* stripes before it go on without their owner, ...
SendFails(r) == Fails(r, "send")

\* ... and an uneven all_to_all if the store does not take its offsets.
PublishFails(r) == ~Returned(r) /\ ~TakesEvenPath(Current(r)) /\ Fails(r, "alltoall")

OperationFails(r) == ReceiveFails(r) \/ SendFails(r) \/ PublishFails(r)

ThisWork(r) == <<r, rank[r].pc, rank[r].stripe>>

SendStripe(r) ==
    /\ At(r, "send", "start")
    /\ DescriptorsPosted(r, Current(r).peer, Tag(r), Current(r).count)
    /\ StartCopies(ThisWork(r), Current(r).peer, Tag(r), Current(r).count)
    /\ NextStripe(r)
    /\ UNCHANGED <<posted, copied, allToAllVars, deploy, faults>>

\* CompositeWorkTpu waits for its works in turn; TpuWork throws an error.
JoinStripe(r) ==
    /\ At(r, "send", "join")
    /\ work[ThisWork(r)].future \in {"ok", "error"}
    /\ IF work[ThisWork(r)].future = "error" THEN Raise(r)
       ELSE IF LastStripe(r) THEN Advance(r)
       ELSE rank' = [rank EXCEPT ![r].stripe = @ + 1]
    /\ UNCHANGED <<transferVars, allToAllVars, deploy, faults>>

(***************************************************************************)
(* The store.  Its timeout is much longer than what a rank does between    *)
(* two operations: it expires when no rank can go on, or by a fault.       *)
(***************************************************************************)
AwaitsStore(r) ==
    \/ At(r, "alltoall", "fetch") /\ ~AllPublished(r)
    \/ At(r, "send", "start") /\ ~DescriptorsPosted(r, Current(r).peer, Tag(r), Current(r).count)

NobodyMoves == \A r \in Ranks : Finished(r) \/ AwaitsStore(r)

Expires == IF NobodyMoves THEN UNCHANGED faults ELSE Fault

FetchTimesOut(r) ==
    /\ At(r, "alltoall", "fetch") /\ AwaitsStore(r)
    /\ Expires
    /\ Raise(r)
    /\ UNCHANGED <<transferVars, allToAllVars, deploy>>

LookupTimesOut(r) ==
    /\ At(r, "send", "start") /\ AwaitsStore(r)
    /\ Expires
    /\ FailLookup(ThisWork(r), Current(r).count)
    /\ NextStripe(r)
    /\ UNCHANGED <<posted, copied, allToAllVars, deploy>>

(***************************************************************************)
(* The specification.                                                      *)
(***************************************************************************)
RankStep(r) ==
    \/ CallAllToAll(r)
    \/ FetchOffsets(r)
    \/ ReceiveStripe(r)
    \/ SendStripe(r)
    \/ JoinStripe(r)
    \/ FetchTimesOut(r)
    \/ LookupTimesOut(r)

\* A copy may succeed, or fail by a fault.
Callback(w, j) ==
    \/ /\ \/ CopyReturns(w, j, TRUE) /\ UNCHANGED faults
          \/ CopyReturns(w, j, FALSE) /\ Fault
       /\ UNCHANGED <<allToAllVars, deploy, rank>>
    \/ /\ CallbackSettles(w, j)
       /\ UNCHANGED <<allToAllVars, deploy, rank, faults>>

\* Every program has ended and every callback has run.
Ended ==
    /\ \A r \in Ranks : Finished(r)
    /\ \A w \in Works, j \in Tensors : work[w].copies[j] \in {"none", "sent", "failed"}
    /\ UNCHANGED vars

Next ==
    \/ \E r \in Ranks : RankStep(r)
    \/ \E r \in Ranks : OperationFails(r)
    \/ \E w \in Works, j \in Tensors : Callback(w, j)
    \/ Ended

Spec == Init /\ [][Next]_vars

\* Ranks run, PJRT calls back, and the store's timeout expires.
Fairness ==
    /\ \A r \in Ranks : WF_vars(RankStep(r))
    /\ \A w \in Works, j \in Tensors : WF_vars(Callback(w, j))

FairSpec == Spec /\ Fairness

(***************************************************************************)
(* What programs do together.                                              *)
(***************************************************************************)
NumCalls(r) == CallsUpTo(r, Len(deploy.program[r]))

\* Operation n of rank r and operation m of rank s are the same call.
SameCall(r, n, s, m) ==
    /\ n \in DOMAIN deploy.program[r] /\ m \in DOMAIN deploy.program[s]
    /\ deploy.program[r][n].op = "alltoall" /\ deploy.program[s][m].op = "alltoall"
    /\ CallsUpTo(r, n) = CallsUpTo(s, m)

\* The sizes that the ranks give for a call fit together.
CallsMatch ==
    \A s, d \in Ranks :
        /\ NumCalls(s) = NumCalls(d)
        /\ \A n, m \in Operations : SameCall(s, n, d, m) =>
              LET a == deploy.program[s][n]
                  b == deploy.program[d][m]
              IN  /\ b.recv[s] = a.send[d] /\ a.single = b.single
                  /\ Total(a.send) = Total(b.send) /\ Total(a.recv) = Total(b.recv)

\* All ranks take the same path in a call, although each looks at its own
\* sizes only.
PathsAgree ==
    \A r, s \in Ranks : \A n, m \in Operations :
        SameCall(r, n, s, m) =>
            (TakesEvenPath(deploy.program[r][n]) <=> TakesEvenPath(deploy.program[s][m]))

\* The operations and stripes before stripe i of operation n of rank r that
\* send to, or receive from, the same rank under the same tag.
Earlier(r, n, i) ==
    LET program == deploy.program[r]
    IN  {m \in Operations \X Stripes :
            /\ m[1] < n \/ (m[1] = n /\ m[2] < i)
            /\ program[m[1]].op = program[n].op /\ program[m[1]].peer = program[n].peer
            /\ m[2] \in DOMAIN program[m[1]].tags
            /\ program[m[1]].tags[m[2]] = program[n].tags[i]}

\* What rank s sends to rank d, and what d receives from s.
Transfers(r, op, peer) ==
    LET isOne(c) == c.op = op /\ c.peer = peer
        part == SelectSeq(deploy.program[r], isOne)
    IN  [n \in DOMAIN part |-> <<part[n].tags, part[n].count>>]
TransfersMatch == \A s, d \in Ranks : Transfers(s, "send", d) = Transfers(d, "recv", s)

\* The operations that operation o has to wait for: the other ranks' part of an
\* all_to_all, and the receive whose descriptors a send looks up.
Awaits(o) ==
    LET op(q) == deploy.program[q[1]][q[2]]
        nth(q) == Cardinality({n \in 1..q[2] :
                      LET c == deploy.program[q[1]][n]
                      IN  c.op = op(q).op /\ c.peer = op(q).peer})
    IN  {q \in Ranks \X Operations :
            \/ SameCall(o[1], o[2], q[1], q[2])
            \/ /\ q[2] \in DOMAIN deploy.program[q[1]] /\ op(o).op = "send"
               /\ op(q).op = "recv" /\ op(o).peer = q[1] /\ op(q).peer = o[1]
               /\ nth(o) = nth(q)}

\* No rank waits for a rank that waits for it, directly or through others: the
\* operations can be carried out one after the other.
Sequenced ==
    LET all == {o \in Ranks \X Operations : o[2] \in DOMAIN deploy.program[o[1]]}
        reached(S, o) == \A n \in 1..(o[2] - 1) : <<o[1], n>> \in S
        closed(S) == \A o \in all :
                        (\A q \in {o} \cup Awaits(o) : reached(S, q)) => o \in S
    IN  \A S \in SUBSET all : closed(S) => S = all

(***************************************************************************)
(* Properties.                                                             *)
(***************************************************************************)

\* When all ranks have issued the same uneven call, the slices that land on a
\* rank follow each other in rank order and fill its output exactly: no two
\* senders write to the same rows and no row stays unwritten.
SlicesTile ==
    \A n \in Operations :
        (\A r \in Ranks : \E i \in DOMAIN issued[r] :
             issued[r][i].call = n /\ issued[r][i].kind = "ragged")
        => LET its(r) == CHOOSE i \in DOMAIN issued[r] : issued[r][i].call = n
               c == [r \in Ranks |-> issued[r][its(r)]]
           IN  \A d \in Ranks :
                  /\ c[0].to[d] = 0
                  /\ \A s \in Ranks \ {0} : c[s].to[d] = c[s - 1].to[d] + c[s - 1].send[d]
                  /\ c[NumRanks - 1].to[d] + c[NumRanks - 1].send[d] = Total(c[d].recv)

\* The offsets a rank uses in a call were published by its peers in the same
\* call, not left in the store by an earlier one or put there by a later one.
MeetsSameCall ==
    \A r \in Ranks : \A i \in DOMAIN issued[r] :
        \A p \in Ranks : issued[r][i].met[p] = issued[r][i].call

\* When the ranks' calls, sends and receives fit together, do not wait for each
\* other in a ring, and nothing fails, no call throws: in particular nobody
\* waits for a key that never comes.
MatchedCallsSucceed ==
    CallsMatch /\ TransfersMatch /\ faults = 0 /\ Sequenced =>
        \A r \in Ranks : rank[r].step # "raised"

\* When the callbacks of a send have returned, it reports success if all of
\* its tensors were copied and an error if one was not; it never reports
\* success before, whichever callbacks run at the same time.
SendReportsTruth ==
    \A w \in Works :
        LET copies == work[w].copies
            ends == {"none", "sent", "failed"}
            failed == \E j \in Tensors : copies[j] = "failed"
        IN  /\ work[w].future = "ok" =>
                  \A j \in Tensors : copies[j] \in {"none", "sent"}
            /\ (\A j \in Tensors : copies[j] \in ends) /\ (\E j \in Tensors : copies[j] # "none")
               => work[w].future = IF failed THEN "error" ELSE "ok"

\* Unless two of its copies fail, no callback of a send sets a future that is
\* complete, which throws in a thread of PJRT and ends the process.
SettledOnce ==
    \A w \in Works :
        Cardinality({j \in Tensors : work[w].copies[j] \in {"failing", "failed"}}) <= 1
        => ~work[w].again

\* A receive buffer gets the tensor that was sent for it, and no other: the
\* k-th send to a rank under a tag fills the buffers of the k-th receive.
DeliveredToMatch ==
    \A d \in Descriptors : \A m \in copied[d] :
        LET s == m[1]
        IN  /\ copied[d] = {m}
            /\ m[2] = d[4]
            /\ Cardinality(Earlier(s[1], s[2], s[3])) = Cardinality(Earlier(d[1], d[2], d[3]))

\* Every program ends, by returning or by an exception, and every send that
\* was started reports an outcome.
OperationsEnd ==
    /\ \A r \in Ranks : <>Finished(r)
    /\ \A w \in Works : work[w].future = "unset" ~> work[w].future \in {"ok", "error"}
=============================================================================
