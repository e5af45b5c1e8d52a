------------------------- MODULE CollectiveHandshake ------------------------
(***************************************************************************)
(* The handshake of torch.compile regions that contain collectives         *)
(* (distributed/handshake.py, called by compile/split_compiler.py).  Every *)
(* rank runs its own sequence of compiled regions.  Before a region is run *)
(* as one executable the rank asks the coordinator whether all ranks are   *)
(* about to run the same executable at the same collective; if not, the    *)
(* region is split at its collectives.  Ranks may need different numbers   *)
(* of regions for the same collectives, so after a round that failed the   *)
(* coordinator refuses the ranks that lag behind until all have reached    *)
(* the same collective.                                                    *)
(*                                                                         *)
(* Only the global process group handshakes (should_handshake).  A FIFO    *)
(* channel is the log of what was sent and a cursor for each reader: ZMQ   *)
(* delivers sent[r] up to arrived[r], the consensus loop took the requests *)
(* up to taken[r], and rank r read the answers up to read[r].              *)
(***************************************************************************)
EXTENDS Naturals, Sequences, FiniteSets

CONSTANTS
    NumRanks,         \* world size
    Coordinator,      \* the rank that runs _HandshakeServer
    Executables,      \* regions, named by their fingerprints
    NumCollectives,   \* collectives in each region
    Workloads,        \* the sequences of regions the ranks may run
    Stage,            \* handshake stage, "COMPILE" or "DISPATCH"
    WaitsForResults   \* the host reads a region's results before the next one

Ranks == 0..(NumRanks - 1)

ASSUME RanksAssumption == NumRanks \in Nat /\ Coordinator \in Ranks
ASSUME ExecutableAssumption ==
    NumCollectives \in [Executables -> Nat \ {0}]
ASSUME WorkloadAssumption ==
    Workloads \subseteq [Ranks -> Seq(Executables)]
ASSUME StageAssumption ==
    Stage \in {"COMPILE", "DISPATCH"} /\ WaitsForResults \in BOOLEAN

VARIABLES
    program,   \* the regions each rank runs
    next,      \* index of the region each rank runs next
    pc,        \* "ready", or "waiting" in Handshake.submit
    mode,      \* how each rank compiled each region so far
    count,     \* _RANK_COLLECTIVE_COUNTS of each rank
    issued,    \* history: the collectives each rank has issued
    sent,      \* requests of each rank, in order
    arrived,   \* number of them the coordinator put into its request queue
    taken,     \* number of them the consensus loop took from that queue
    answers,   \* replies to each rank, in order
    read,      \* number of them the rank has received
    phase,     \* where the consensus loop is
    todo,      \* ranks whose next request get_from_ranks still awaits
    local,     \* local_count of the current round
    target     \* target_count of the current round

rankVars == <<program, next, pc, mode, count, issued>>
chanVars == <<sent, arrived, taken, answers, read>>
serverVars == <<phase, todo, local, target>>
vars == <<rankVars, chanVars, serverVars>>

Requests == [exe: Executables, before: Nat, num: Nat]
Collectives == [exe: Executables, start: Nat, joint: BOOLEAN]

TypeOK ==
    /\ program \in [Ranks -> Seq(Executables)]
    /\ next \in [Ranks -> Nat \ {0}]
    /\ pc \in [Ranks -> {"ready", "waiting"}]
    /\ mode \in [Ranks -> [Executables -> {"new", "joint", "split"}]]
    /\ count \in [Ranks -> [before: Nat, num: Nat]]
    /\ issued \in [Ranks -> Seq(Collectives)]
    /\ sent \in [Ranks -> Seq(Requests)]
    /\ arrived \in [Ranks -> Nat] /\ taken \in [Ranks -> Nat]
    /\ answers \in [Ranks -> Seq(BOOLEAN)] /\ read \in [Ranks -> Nat]
    /\ \A r \in Ranks :
          /\ read[r] <= Len(answers[r]) /\ Len(answers[r]) <= taken[r]
          /\ taken[r] <= arrived[r] /\ arrived[r] <= Len(sent[r])
    /\ phase \in {"first", "gather", "exhaust"}
    /\ todo \subseteq Ranks
    /\ local \in [Ranks -> Nat] /\ target \in Nat

Init ==
    /\ program \in Workloads
    /\ next = [r \in Ranks |-> 1]
    /\ pc = [r \in Ranks |-> "ready"]
    /\ mode = [r \in Ranks |-> [x \in Executables |-> "new"]]
    /\ count = [r \in Ranks |-> [before |-> 0, num |-> 0]]
    /\ issued = [r \in Ranks |-> <<>>]
    /\ sent = [r \in Ranks |-> <<>>]
    /\ arrived = [r \in Ranks |-> 0] /\ taken = [r \in Ranks |-> 0]
    /\ answers = [r \in Ranks |-> <<>>] /\ read = [r \in Ranks |-> 0]
    /\ phase = "first" /\ todo = {}
    /\ local = [r \in Ranks |-> 0] /\ target = 0

-----------------------------------------------------------------------------
(* A rank's program. *)

Region(r) == program[r][next[r]]

\* The rank gets to its next region.  The host may run ahead of the device,
\* or read what the collectives so far computed, and those complete only when
\* every rank has issued them.
ReachesRegion(r) ==
    /\ pc[r] = "ready" /\ next[r] <= Len(program[r])
    /\ WaitsForResults =>
          \A s \in Ranks : Len(issued[s]) >= Len(issued[r])

\* COMPILE_STAGE: when the region is compiled.  DISPATCH_STAGE: on every call
\* until a recompilation has split the region and dropped recompile_fn.  An
\* executable has a fingerprint; one without would run without a handshake.
NeedsHandshake(r) ==
    IF Stage = "COMPILE" THEN mode[r][Region(r)] = "new"
    ELSE mode[r][Region(r)] # "split"

\* increment_num_collectives_in_graph.
Increment(c, n) == [before |-> c.before + c.num, num |-> n]

\* Running a region issues its collectives, split or in one executable.
Issue(r, joint) ==
    /\ issued' = [issued EXCEPT ![r] =
          @ \o [i \in 1..NumCollectives[Region(r)] |->
                  [exe |-> Region(r), start |-> Len(issued[r]), joint |-> joint]]]
    /\ next' = [next EXCEPT ![r] = @ + 1]

\* _submit_handshake: the counts are updated, then the request is sent.  The
\* coordinator puts its own into the queue.
Submit(r) ==
    LET c == Increment(count[r], NumCollectives[Region(r)]) IN
    /\ ReachesRegion(r) /\ NeedsHandshake(r)
    /\ count' = [count EXCEPT ![r] = c]
    /\ sent' = [sent EXCEPT ![r] = Append(@,
                  [exe |-> Region(r), before |-> c.before, num |-> c.num])]
    /\ arrived' = IF r = Coordinator THEN [arrived EXCEPT ![r] = @ + 1]
                  ELSE arrived
    /\ pc' = [pc EXCEPT ![r] = "waiting"]
    /\ UNCHANGED <<program, next, mode, issued, taken, answers, read, serverVars>>

\* The answer arrives: the region runs as it is, or split.
Receive(r) ==
    LET success == answers[r][read[r] + 1] IN
    /\ pc[r] = "waiting" /\ read[r] < Len(answers[r])
    /\ read' = [read EXCEPT ![r] = @ + 1]
    /\ mode' = [mode EXCEPT ![r][Region(r)] = IF success THEN "joint" ELSE "split"]
    /\ Issue(r, success)
    /\ pc' = [pc EXCEPT ![r] = "ready"]
    /\ UNCHANGED <<program, count, sent, arrived, taken, answers, serverVars>>

\* A region that needs no handshake runs the way it was compiled.
CallDirectly(r) ==
    /\ ReachesRegion(r) /\ ~NeedsHandshake(r)
    /\ Issue(r, mode[r][Region(r)] = "joint")
    /\ UNCHANGED <<program, pc, mode, count, chanVars, serverVars>>

-----------------------------------------------------------------------------
(* The coordinator. *)

\* _listen_loop: put_request for the next request of rank r.
Listen(r) ==
    /\ arrived[r] < Len(sent[r])
    /\ arrived' = [arrived EXCEPT ![r] = @ + 1]
    /\ UNCHANGED <<rankVars, sent, taken, answers, read, serverVars>>

\* The request of rank r that was taken last.
Message(r) == sent[r][taken[r]]

\* Fault: a get that does not wait for a request.
AvailableEarly(r) == taken[r] <= arrived[r]

\* The request queue of rank r is not empty.
Available(r) == taken[r] < arrived[r]

\* get_first_request: from the first queue that is not empty.
GetFirst(r) ==
    /\ phase = "first" /\ Available(r)
    /\ \A s \in Ranks : s < r => ~Available(s)
    /\ taken' = [taken EXCEPT ![r] = @ + 1]
    /\ phase' = "gather" /\ todo' = Ranks \ {r}
    /\ UNCHANGED <<rankVars, sent, arrived, answers, read, local, target>>

\* get_from_ranks: the request of one of the ranks it awaits.
GetFromRank(r) ==
    /\ phase \in {"gather", "exhaust"} /\ r \in todo /\ Available(r)
    /\ taken' = [taken EXCEPT ![r] = @ + 1]
    /\ todo' = todo \ {r}
    /\ UNCHANGED <<rankVars, sent, arrived, answers, read, phase, local, target>>

\* collective_count.
CountAfter(m) == m.before + m.num

\* Fault: fingerprints are not compared.
AllMatchCounts == \A r, s \in Ranks :
    Message(r).before = Message(s).before /\ Message(r).num = Message(s).num

\* The verdict: same fingerprint and same counts.
AllMatch == \A r, s \in Ranks : Message(r) = Message(s)

ReplyToRanks(R, success) ==
    answers' = [r \in Ranks |-> IF r \in R THEN Append(answers[r], success)
                                ELSE answers[r]]

Behind(counts, t) == {r \in Ranks : counts[r] < t}

\* The loop of _exhaust_ranks: as long as somebody is behind, it awaits the
\* next request of each of them.
Exhaust(counts, t) ==
    /\ local' = counts /\ target' = t
    /\ todo' = Behind(counts, t)
    /\ phase' = IF Behind(counts, t) = {} THEN "first" ELSE "exhaust"

IsMax(t, S) == t \in S /\ \A u \in S : u <= t

\* Fault: nobody is exhausted.
DecideOnly ==
    /\ phase = "gather" /\ todo = {}
    /\ ReplyToRanks(Ranks, AllMatch)
    /\ phase' = "first"
    /\ UNCHANGED <<rankVars, sent, arrived, taken, read, todo, local, target>>

\* _consensus_loop has gathered a request of every rank: it answers them all
\* and begins to exhaust those with fewer collectives.
Decide ==
    LET counts == [r \in Ranks |-> CountAfter(Message(r))] IN
    /\ phase = "gather" /\ todo = {}
    /\ ReplyToRanks(Ranks, AllMatch)
    /\ \E t \in {counts[r] : r \in Ranks} :
          /\ IsMax(t, {counts[r] : r \in Ranks})
          /\ Exhaust(counts, t)
    /\ UNCHANGED <<rankVars, sent, arrived, taken, read>>

\* Fault: the target stays where the round left it.
RefuseFixedTarget ==
    LET R == Behind(local, target) IN
    /\ phase = "exhaust" /\ todo = {}
    /\ ReplyToRanks(R, FALSE)
    /\ Exhaust([r \in Ranks |-> IF r \in R THEN CountAfter(Message(r))
                                ELSE local[r]], target)
    /\ UNCHANGED <<rankVars, sent, arrived, taken, read>>

\* _exhaust_ranks has a request of every rank that was behind: it refuses them
\* and raises the target if one of them has overtaken the others.
Refuse ==
    LET R == Behind(local, target)
        counts == [r \in Ranks |-> IF r \in R THEN CountAfter(Message(r))
                                   ELSE local[r]]
        candidates == {target} \cup {counts[r] : r \in R} IN
    /\ phase = "exhaust" /\ todo = {}
    /\ ReplyToRanks(R, FALSE)
    /\ \E t \in candidates : IsMax(t, candidates) /\ Exhaust(counts, t)
    /\ UNCHANGED <<rankVars, sent, arrived, taken, read>>

ServerStep ==
    \/ \E r \in Ranks : GetFirst(r) \/ GetFromRank(r)
    \/ Decide \/ Refuse

RankStep(r) == Submit(r) \/ Receive(r) \/ CallDirectly(r)

Finished(r) == pc[r] = "ready" /\ next[r] > Len(program[r])

Terminated == (\A r \in Ranks : Finished(r)) /\ UNCHANGED vars

Next ==
    \/ \E r \in Ranks : RankStep(r) \/ Listen(r)
    \/ ServerStep
    \/ Terminated

Spec == Init /\ [][Next]_vars

\* Every rank keeps running its program, ZMQ delivers, and the event loop of
\* the coordinator runs its two tasks.
Fairness ==
    /\ \A r \in Ranks : WF_vars(RankStep(r)) /\ WF_vars(Listen(r))
    /\ WF_vars(ServerStep)

FairSpec == Spec /\ Fairness

-----------------------------------------------------------------------------
(* Properties. *)

\* The consensus loop only compares requests that start at the same
\* collective: the exhaustion after every failed round has brought the ranks
\* back in line, however many regions each of them needed.
ComparesSameCollective ==
    phase = "gather" =>
        \A r, s \in Ranks \ todo : Message(r).before = Message(s).before

\* What Handshake.submit returns is true: an answer TRUE to a request means
\* that every rank submitted exactly that request.
AnswersTruthful ==
    \A r, s \in Ranks : \A i \in DOMAIN answers[r] :
        answers[r][i] => \E j \in DOMAIN sent[s] : sent[s][j] = sent[r][i]

\* An executable that contains collectives is launched only where the others
\* launch the same one: if one rank issued its i-th collective from inside a
\* joint executable, no rank issues its i-th collective from anything else.
JointOnAllRanks ==
    \A r, s \in Ranks : \A i \in DOMAIN issued[r] \cap DOMAIN issued[s] :
        issued[r][i].joint => issued[s][i] = issued[r][i]

\* The collectives rank r has counted and issued.
Counted(r) == IF pc[r] = "ready" THEN CountAfter(count[r]) ELSE count[r].before

\* _RANK_COLLECTIVE_COUNTS of every rank agrees with what the rank issued: no
\* region that was split has run again without a handshake.
CountsExact == \A r \in Ranks : Counted(r) = Len(issued[r])

\* The ranks run the same number of collectives in all.
SameCollectives ==
    LET total(p) == LET sum[i \in 0..Len(p)] ==
                            IF i = 0 THEN 0 ELSE sum[i - 1] + NumCollectives[p[i]]
                    IN  sum[Len(p)]
    IN  \A r, s \in Ranks : total(program[r]) = total(program[s])

\* Handshake.submit returns on every rank, if the ranks run the same
\* collectives and their counts stay exact.  A rank that runs a split region
\* again is not counted and may submit less often than the others, whose
\* requests then wait for one that never comes.
HandshakesAnswered ==
    [](CountsExact /\ SameCollectives) =>
        \A r \in Ranks : (pc[r] = "waiting") ~> (pc[r] = "ready")
=============================================================================
