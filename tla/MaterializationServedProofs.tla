-------------------- MODULE MaterializationServedProofs ---------------------
(***************************************************************************)
(* Every pending buffer has exactly one task that will set its promise,    *)
(* and the promises behave as BufferFutures says.                          *)
(*                                                                         *)
(* Served divides the pending buffers into the outputs of the task that    *)
(* runs, of the tasks that are queued, of those that are built and of      *)
(* those that are about to be pushed.  Fresh says that the buffers that    *)
(* will be created next are unborn, and that no tensor, no call and no     *)
(* task knows one of them.                                                 *)
(*                                                                         *)
(* Two more results follow from who can be where at the same time: a lone  *)
(* dispatch thread keeps the op it has just recorded (Callers), and no     *)
(* task waits for one behind it (Queued).                                  *)
(***************************************************************************)
EXTENDS MaterializationProofs

Pending == {b \in Buffers : state[b] = "pending"}
Outs(q) == UNION {q[i].outs : i \in DOMAIN q}
Distinct(q) == \A i, j \in DOMAIN q : i # j => q[i].outs \cap q[j].outs = {}
Pushes(t) == call[t].pc = "push"
Pushed == {call[t].out : t \in {u \in Threads : Pushes(u)}}

OnePusher ==
    \A t, u \in Threads : Pushes(t) /\ Pushes(u) /\ call[t].out = call[u].out => t = u
Apart ==
    /\ ex.task.outs \cap Outs(execQ) = {}
    /\ ex.task.outs \cap Outs(mat.batch) = {}
    /\ ex.task.outs \cap Pushed = {}
    /\ Outs(execQ) \cap Outs(mat.batch) = {}
    /\ Outs(execQ) \cap Pushed = {}
    /\ Outs(mat.batch) \cap Pushed = {}
Served ==
    /\ Pending = ex.task.outs \cup Outs(execQ) \cup Outs(mat.batch) \cup Pushed
    /\ Apart /\ OnePusher /\ Distinct(execQ) /\ Distinct(mat.batch)
Born(b) == state[b] # "unborn"
Fresh ==
    /\ \A b \in Buffers : b >= next => ~Born(b)
    /\ \A b \in live : Born(b)
    /\ \A b \in mat.task.nodes : Born(b)
    /\ \A i \in DOMAIN matQ : \A b \in matQ[i].nodes : Born(b)
    /\ \A t \in Threads : call[t].out # NoBuffer => Born(call[t].out)

\* An executable is created when its arguments have left the deferred state.
ArgumentsReady ==
    \A t \in Threads : call[t].pc = "create" =>
        \A b \in call[t].nodes : IsMaterializing(b)

ServedInv == Served /\ Fresh /\ ArgumentsReady

(***************************************************************************)
(* Sequences of tasks.                                                     *)
(***************************************************************************)
LEMMA OutsAppend ==
    ASSUME NEW q \in Seq(ExecTask), NEW k \in ExecTask
    PROVE  /\ Outs(Append(q, k)) = Outs(q) \cup k.outs
           /\ Distinct(q) /\ k.outs \cap Outs(q) = {} => Distinct(Append(q, k))
<1> DEFINE r == Append(q, k)
           n == Len(q) + 1
<1>1. /\ DOMAIN r = DOMAIN q \cup {n} /\ n \notin DOMAIN q
      /\ \A i \in DOMAIN q : r[i] = q[i]
      /\ r[n] = k
  OBVIOUS
<1> HIDE DEF r, n
<1>2. Outs(r) = Outs(q) \cup k.outs
  BY <1>1 DEF Outs
<1>3. ASSUME Distinct(q), k.outs \cap Outs(q) = {}
      PROVE  Distinct(r)
  <2>1. \A i \in DOMAIN q : q[i].outs \cap k.outs = {}
    BY <1>3 DEF Outs
  <2> QED BY <1>1, <1>3, <2>1 DEF Distinct
<1> QED BY <1>2, <1>3 DEF r

LEMMA OutsTail ==
    ASSUME NEW q \in Seq(ExecTask), q # <<>>, Distinct(q)
    PROVE  /\ Outs(q) = Head(q).outs \cup Outs(Tail(q))
           /\ Head(q).outs \cap Outs(Tail(q)) = {}
           /\ Distinct(Tail(q))
<1> DEFINE r == Tail(q)
<1>1. /\ \A i \in DOMAIN r : i + 1 \in DOMAIN q /\ r[i] = q[i + 1] /\ i \in Nat \ {0}
      /\ \A i \in DOMAIN q : i = 1 \/ (i - 1 \in DOMAIN r /\ r[i - 1] = q[i])
      /\ 1 \in DOMAIN q /\ Head(q) = q[1]
  OBVIOUS
<1> HIDE DEF r
<1>2. Outs(q) = Head(q).outs \cup Outs(r)
  <2>1. ASSUME NEW b \in Outs(q) PROVE b \in Head(q).outs \cup Outs(r)
    <3>1. PICK i \in DOMAIN q : b \in q[i].outs
      BY <2>1 DEF Outs
    <3>2. CASE i = 1
      BY <1>1, <3>1, <3>2
    <3>3. CASE i - 1 \in DOMAIN r /\ r[i - 1] = q[i]
      BY <3>1, <3>3 DEF Outs
    <3> QED BY <1>1, <3>2, <3>3
  <2>2. ASSUME NEW b \in Outs(r) PROVE b \in Outs(q)
    <3>1. PICK i \in DOMAIN r : b \in r[i].outs
      BY <2>2 DEF Outs
    <3> QED BY <1>1, <3>1 DEF Outs
  <2>3. Head(q).outs \subseteq Outs(q)
    BY <1>1 DEF Outs
  <2> QED BY <2>1, <2>2, <2>3
<1>3. ASSUME NEW b \in Head(q).outs, b \in Outs(r) PROVE FALSE
  <2>1. PICK i \in DOMAIN r : b \in r[i].outs
    BY <1>3 DEF Outs
  <2>2. i + 1 \in DOMAIN q /\ i + 1 # 1 /\ b \in q[i + 1].outs /\ b \in q[1].outs
    BY <1>1, <1>3, <2>1
  <2> QED BY <1>1, <2>2 DEF Distinct
<1>4. Distinct(r)
  <2> SUFFICES ASSUME NEW i \in DOMAIN r, NEW j \in DOMAIN r, i # j
               PROVE  r[i].outs \cap r[j].outs = {}
    BY DEF Distinct
  <2>1. i + 1 # j + 1
    BY <1>1
  <2> QED BY <1>1, <2>1 DEF Distinct
<1> QED BY <1>2, <1>3, <1>4 DEF r

LEMMA OutsConcat ==
    ASSUME NEW q \in Seq(ExecTask), NEW r \in Seq(ExecTask), Distinct(q), Distinct(r),
           Outs(q) \cap Outs(r) = {}
    PROVE  Outs(q \o r) = Outs(q) \cup Outs(r) /\ Distinct(q \o r)
<1> DEFINE s == q \o r
           n == Len(q)
<1>1. /\ n \in Nat
      /\ \A i \in DOMAIN q : i \in DOMAIN s /\ s[i] = q[i]
      /\ \A i \in DOMAIN r : n + i \in DOMAIN s /\ s[n + i] = r[i]
      /\ \A i \in DOMAIN s : \/ i \in DOMAIN q /\ s[i] = q[i]
                             \/ i - n \in DOMAIN r /\ s[i] = r[i - n] /\ i \in Nat
  <2>1. /\ s \in Seq(ExecTask)
        /\ Len(s) = Len(q) + Len(r)
        /\ \A i \in 1..(Len(q) + Len(r)) :
              s[i] = IF i <= Len(q) THEN q[i] ELSE r[i - Len(q)]
    BY ConcatProperties
  <2> HIDE DEF s
  <2> QED BY <2>1
<1> HIDE DEF s, n
<1>2. Outs(s) = Outs(q) \cup Outs(r)
  <2>1. ASSUME NEW b \in Outs(s) PROVE b \in Outs(q) \cup Outs(r)
    <3>1. PICK i \in DOMAIN s : b \in s[i].outs
      BY <2>1 DEF Outs
    <3> QED BY <1>1, <3>1 DEF Outs
  <2>2. ASSUME NEW b \in Outs(q) PROVE b \in Outs(s)
    <3>1. PICK i \in DOMAIN q : b \in q[i].outs
      BY <2>2 DEF Outs
    <3> QED BY <1>1, <3>1 DEF Outs
  <2>3. ASSUME NEW b \in Outs(r) PROVE b \in Outs(s)
    <3>1. PICK i \in DOMAIN r : b \in r[i].outs
      BY <2>3 DEF Outs
    <3>2. n + i \in DOMAIN s /\ b \in s[n + i].outs
      BY <1>1, <3>1
    <3> QED BY <3>2 DEF Outs
  <2> QED BY <2>1, <2>2, <2>3
<1>3. Distinct(s)
  <2> SUFFICES ASSUME NEW i \in DOMAIN s, NEW j \in DOMAIN s, i # j,
                      NEW b, b \in s[i].outs, b \in s[j].outs
               PROVE  FALSE
    BY DEF Distinct
  <2>1. CASE i \in DOMAIN q /\ s[i] = q[i] /\ j \in DOMAIN q /\ s[j] = q[j]
    BY <2>1 DEF Distinct
  <2>2. CASE /\ i - n \in DOMAIN r /\ s[i] = r[i - n] /\ i \in Nat
             /\ j - n \in DOMAIN r /\ s[j] = r[j - n] /\ j \in Nat
    <3>1. i - n # j - n
      BY <1>1, <2>2
    <3> QED BY <2>2, <3>1 DEF Distinct
  <2>3. CASE \/ i \in DOMAIN q /\ s[i] = q[i] /\ j - n \in DOMAIN r /\ s[j] = r[j - n]
             \/ j \in DOMAIN q /\ s[j] = q[j] /\ i - n \in DOMAIN r /\ s[i] = r[i - n]
    <3>1. b \in Outs(q) /\ b \in Outs(r)
      BY <2>3 DEF Outs
    <3> QED BY <3>1
  <2> QED BY <1>1, <2>1, <2>2, <2>3
<1> QED BY <1>2, <1>3 DEF s

(***************************************************************************)
(* Buffers.                                                                *)
(***************************************************************************)
LEMMA BecomeStates ==
    ASSUME TypeInv, NEW S, NEW s, Become(S, s)
    PROVE  /\ \A b \in Buffers :
                 state'[b] = IF b \in S /\ state[b] \notin Settled THEN s ELSE state[b]
           /\ next' = next
BY DEF Become

\* What a step may do to the states of the buffers.
Grows ==
    /\ \A b \in Buffers : Born(b) => Born(b)'
    /\ \A b \in Buffers : IsMaterializing(b) => IsMaterializing(b)'

LEMMA SettleStates ==
    ASSUME TypeInv, Fresh, NEW S, \A b \in S : b \in Buffers /\ Born(b),
           NEW s \in Settled, Become(S, s)
    PROVE  /\ Pending' = Pending \ S
           /\ Grows
           /\ \A b \in Buffers : b >= next' => ~Born(b)'
<1>1. /\ \A b \in Buffers :
             state'[b] = IF b \in S /\ state[b] \notin Settled THEN s ELSE state[b]
      /\ next' = next
  BY BecomeStates
<1>2. Pending' = Pending \ S
  BY <1>1 DEF Pending, Settled
<1>3. Grows
  BY <1>1 DEF Grows, Born, IsMaterializing, Settled
<1>4. \A b \in Buffers : b >= next' => ~Born(b)'
  BY <1>1 DEF Fresh, Born
<1> QED BY <1>2, <1>3, <1>4

LEMMA PendStates ==
    ASSUME TypeInv, Fresh, NEW S \in SUBSET Buffers, \A b \in S : IsDeferred(b),
           Become(S, "pending")
    PROVE  /\ Pending' = Pending \cup S /\ Pending \cap S = {}
           /\ Grows
           /\ \A b \in Buffers : b >= next' => ~Born(b)'
<1>1. /\ \A b \in Buffers :
             state'[b] = IF b \in S /\ state[b] \notin Settled THEN "pending" ELSE state[b]
      /\ next' = next
  BY BecomeStates
<1>2. Pending' = Pending \cup S /\ Pending \cap S = {}
  BY <1>1 DEF Pending, Settled, IsDeferred
<1>3. Grows
  BY <1>1 DEF Grows, Born, IsMaterializing, Settled
<1>4. \A b \in Buffers : b >= next' => ~Born(b)'
  BY <1>1 DEF Fresh, Born, IsDeferred
<1> QED BY <1>2, <1>3, <1>4

LEMMA CreateStates ==
    ASSUME TypeInv, Fresh, next \in Buffers, next' = next + 1,
           NEW s \in {"deferred", "pending"}, state' = [state EXCEPT ![next] = s]
    PROVE  /\ Pending' = IF s = "pending" THEN Pending \cup {next} ELSE Pending
           /\ next \notin Pending /\ state'[next] # "unborn"
           /\ Grows
           /\ \A b \in Buffers : b >= next' => ~Born(b)'
<1>0. next \in Int /\ state[next] = "unborn" /\ Buffers \subseteq Int
  BY MaxBuffersAssumption DEF Fresh, Born, Buffers
<1>1. \A b \in Buffers : state'[b] = IF b = next THEN s ELSE state[b]
  BY DEF TypeInv, TypeOK, BuffersTypeOK
<1>2. /\ Pending' = IF s = "pending" THEN Pending \cup {next} ELSE Pending
      /\ next \notin Pending
  BY <1>0, <1>1 DEF Pending
<1>3. Grows /\ state'[next] # "unborn"
  BY <1>0, <1>1 DEF Grows, Born, IsMaterializing, Settled
<1>4. \A b \in Buffers : b >= next' => ~Born(b)'
  BY <1>0, <1>1 DEF Fresh, Born
<1> QED BY <1>2, <1>3, <1>4

LEMMA SameStates ==
    ASSUME Fresh, UNCHANGED <<state, next>>
    PROVE  /\ Pending' = Pending
           /\ Grows
           /\ \A b \in Buffers : b >= next' => ~Born(b)'
<1>1. Pending' = Pending
  BY DEF Pending
<1>2. Grows
  BY DEF Grows, Born, IsMaterializing
<1>3. \A b \in Buffers : b >= next' => ~Born(b)'
  BY DEF Born, Fresh
<1> QED BY <1>1, <1>2, <1>3

(***************************************************************************)
(* Steps that leave the division of the pending buffers alone.             *)
(***************************************************************************)
SamePushers ==
    \A t \in Threads : /\ Pushes(t)' <=> Pushes(t)
                       /\ Pushes(t) => call'[t].out = call[t].out

LEMMA SameServed ==
    ASSUME Served, Pending' = Pending, ex'.task.outs = ex.task.outs, execQ' = execQ,
           mat'.batch = mat.batch, SamePushers
    PROVE  Served'
<1>1. Pushed' = Pushed
  BY DEF Pushed, SamePushers
<1>2. OnePusher'
  BY DEF Served, OnePusher, SamePushers
<1> QED BY <1>1, <1>2 DEF Served, Apart, Outs, Distinct

LEMMA GoSamePushers ==
    ASSUME TypeInv, NEW t \in Threads, NEW c, Go(t, c), ~Pushes(t), c.pc # "push"
    PROVE  /\ SamePushers
           /\ \A u \in Threads : call'[u] = IF u = t THEN c ELSE call[u]
<1>1. \A u \in Threads : call'[u] = IF u = t THEN c ELSE call[u]
  BY DEF Go, TypeInv, CallsType
<1> QED BY <1>1 DEF SamePushers, Pushes

LEMMA SameCalls ==
    ASSUME UNCHANGED call
    PROVE  SamePushers
BY DEF SamePushers, Pushes

LEMMA FreshGrows ==
    ASSUME TypeInv, Fresh, Grows, \A b \in Buffers : b >= next' => ~Born(b)',
           \A b \in live' : b \in live \/ (b \in Buffers /\ Born(b)'),
           \A b \in mat'.task.nodes : b \in Buffers /\ Born(b),
           \A i \in DOMAIN matQ' : \A b \in matQ'[i].nodes : b \in Buffers /\ Born(b),
           \A t \in Threads : call'[t].out \in {NoBuffer, call[t].out}
                              \/ (call'[t].out \in Buffers /\ state'[call'[t].out] # "unborn")
    PROVE  Fresh'
<1>1. \A b \in live' : Born(b)'
  BY DEF TypeInv, TypeOK, BuffersTypeOK, Fresh, Grows
<1>2. \A b \in mat'.task.nodes : Born(b)'
  BY DEF Grows
<1>3. \A i \in DOMAIN matQ' : \A b \in matQ'[i].nodes : Born(b)'
  BY DEF Grows
<1>4. \A t \in Threads : call'[t].out # NoBuffer => state'[call'[t].out] # "unborn"
  BY DEF TypeInv, CallsType, CallType, Fresh, Grows, Born
<1> QED
  BY <1>1, <1>2, <1>3, <1>4 DEF Fresh, Born

LEMMA NodesBorn ==
    ASSUME TypeInv, Fresh
    PROVE  /\ \A b \in mat.task.nodes : b \in Buffers /\ Born(b)
           /\ \A i \in DOMAIN matQ : \A b \in matQ[i].nodes : b \in Buffers /\ Born(b)
<1>1. mat.task \in MatTask /\ matQ \in Seq(MatTask)
  BY DEF TypeInv, TypeOK
<1>2. \A i \in DOMAIN matQ : matQ[i] \in MatTask
  BY <1>1
<1>3. \A k \in MatTask : k.nodes \subseteq Buffers
  BY DEF MatTask
<1> QED BY <1>1, <1>2, <1>3 DEF Fresh

(***************************************************************************)
(* Dispatch threads.                                                       *)
(***************************************************************************)

\* A thread moves on without creating, pushing or settling a buffer.
LEMMA MoveOn ==
    ASSUME TypeInv, ServedInv, NEW t \in Threads, NEW c, Go(t, c), ~Pushes(t),
           c.pc # "push", c.out \in {NoBuffer, call[t].out},
           c.pc = "create" => \A b \in c.nodes : IsMaterializing(b),
           UNCHANGED <<next, state, mat, ex, execQ>>,
           \A b \in live' : b \in live \/ (b \in Buffers /\ Born(b)),
           \/ UNCHANGED matQ
           \/ \E k \in MatTask : /\ matQ' = Append(matQ, k)
                                 /\ \A b \in k.nodes : b \in Buffers /\ Born(b)
    PROVE  ServedInv'
<1>0. matQ \in Seq(MatTask) /\ mat.task \in MatTask /\ Served /\ Fresh /\ ArgumentsReady
  BY DEF TypeInv, TypeOK, ServedInv
<1>1. /\ SamePushers
      /\ \A u \in Threads : call'[u] = IF u = t THEN c ELSE call[u]
  BY GoSamePushers
<1>2. /\ Pending' = Pending /\ Grows
      /\ \A b \in Buffers : b >= next' => ~Born(b)'
  BY <1>0, SameStates
<1>3. Served'
  BY <1>0, <1>1, <1>2, SameServed
<1>4. \A i \in DOMAIN matQ : \A b \in matQ[i].nodes : b \in Buffers /\ Born(b)
  BY <1>0, NodesBorn
<1>5. \A i \in DOMAIN matQ' : \A b \in matQ'[i].nodes : b \in Buffers /\ Born(b)
  <2>1. CASE UNCHANGED matQ
    BY <1>4, <2>1
  <2>2. ASSUME NEW k \in MatTask, matQ' = Append(matQ, k),
               \A b \in k.nodes : b \in Buffers /\ Born(b)
        PROVE  \A i \in DOMAIN matQ' : \A b \in matQ'[i].nodes : b \in Buffers /\ Born(b)
    <3>1. \A i \in DOMAIN matQ' : matQ'[i] = k \/ (i \in DOMAIN matQ /\ matQ'[i] = matQ[i])
      BY <1>0, <2>2
    <3> QED BY <1>4, <2>2, <3>1
  <2> QED BY <2>1, <2>2
<1>6. \A b \in mat'.task.nodes : b \in Buffers /\ Born(b)
  BY <1>0, NodesBorn
<1>7. \A u \in Threads : call'[u].out \in {NoBuffer, call[u].out}
  BY <1>1
<1>8. \A b \in live' : b \in live \/ (b \in Buffers /\ Born(b)')
  BY DEF Born
<1>9. Fresh'
  BY <1>0, <1>2, <1>5, <1>6, <1>7, <1>8, FreshGrows
<1>10. ArgumentsReady'
  BY <1>0, <1>1 DEF ArgumentsReady, IsMaterializing
<1> QED BY <1>3, <1>9, <1>10 DEF ServedInv

LEMMA ServedMaterialize ==
    ASSUME TypeInv, ServedInv, NEW t \in Threads, NEW c \in CallType, NEW mode \in Modes,
           NEW pc, Materialize(t, c, mode, pc), ~Pushes(t), pc # "push",
           c.out \in {NoBuffer, call[t].out},
           \A b \in c.nodes : Born(b),
           UNCHANGED <<next, state, live, mat, ex, execQ>>
    PROVE  ServedInv'
<1> DEFINE D == {b \in c.nodes : IsDeferred(b)}
           task == [kind |-> "nodes", nodes |-> D, mode |-> mode, from |-> t]
<1>0. BuffersTypeOK /\ c.nodes \subseteq Buffers
  BY DEF TypeInv, TypeOK, CallType
<1>1. CASE D = {}
  <2>1. Go(t, [c EXCEPT !.pc = pc]) /\ UNCHANGED matQ
    BY <1>1 DEF Materialize
  <2>2. /\ [c EXCEPT !.pc = pc].pc = pc /\ [c EXCEPT !.pc = pc].out = c.out
        /\ [c EXCEPT !.pc = pc].nodes = c.nodes
    BY DEF CallType
  <2>3. \A b \in c.nodes : IsMaterializing(b)
    BY <1>0, <1>1 DEF IsDeferred, IsMaterializing, Born, BuffersTypeOK, States
  <2> QED BY <2>1, <2>2, <2>3, MoveOn
<1>2. CASE D # {} /\ ShuttingDown
  <2>1. Go(t, Idle) /\ UNCHANGED matQ
    BY <1>2 DEF Materialize, Enqueue
  <2> QED BY <2>1, MoveOn DEF Idle
<1>3. CASE D # {} /\ ~ShuttingDown
  <2>1. Go(t, [c EXCEPT !.pc = "wait"]) /\ matQ' = Append(matQ, task)
    BY <1>3 DEF Materialize, Enqueue
  <2>2. /\ [c EXCEPT !.pc = "wait"].pc = "wait" /\ [c EXCEPT !.pc = "wait"].out = c.out
    BY DEF CallType
  <2>3. task \in MatTask /\ \A b \in task.nodes : b \in Buffers /\ Born(b)
    BY <1>0 DEF MatTask, IsDeferred, Born
  <2> HIDE DEF task
  <2> QED BY <2>1, <2>2, <2>3, MoveOn
<1> QED BY <1>1, <1>2, <1>3

LEMMA ServedBegin ==
    ASSUME TypeInv, ServedInv, NEW t \in Threads, Begin(t)
    PROVE  ServedInv'
<1> USE DEF workerVars, bufferVars
<1>0. /\ Served /\ Fresh /\ ArgumentsReady /\ BuffersTypeOK
      /\ \A b \in live : Born(b)
  BY DEF ServedInv, TypeInv, TypeOK, Fresh
<1>1. ASSUME NEW k \in Kinds, NEW ins \in SUBSET Buffers, CreateOp(t, k, ins)
      PROVE  ServedInv'
  <2> DEFINE c == [Idle EXCEPT !.pc = "record", !.out = next]
  <2>1. /\ next \in Buffers /\ next' = next + 1 /\ state' = [state EXCEPT ![next] = "deferred"]
        /\ Go(t, c) /\ UNCHANGED <<live, matQ, mat, ex, execQ>> /\ ~Pushes(t)
    BY <1>1 DEF CreateOp, CreateDeferred, At, Pushes
  <2>2. c.pc = "record" /\ c.out = next
    BY DEF Idle
  <2> HIDE DEF c
  <2>3. /\ SamePushers
        /\ \A u \in Threads : call'[u] = IF u = t THEN c ELSE call[u]
    BY <2>1, <2>2, GoSamePushers
  <2>4. /\ Pending' = Pending /\ Grows /\ state'[next] # "unborn"
        /\ \A b \in Buffers : b >= next' => ~Born(b)'
    BY <1>0, <2>1, CreateStates
  <2>5. Served'
    BY <1>0, <2>1, <2>3, <2>4, SameServed
  <2>6. /\ \A b \in mat'.task.nodes : b \in Buffers /\ Born(b)
        /\ \A i \in DOMAIN matQ' : \A b \in matQ'[i].nodes : b \in Buffers /\ Born(b)
    BY <1>0, <2>1, NodesBorn
  <2>7. \A u \in Threads : call'[u].out \in {NoBuffer, call[u].out}
                           \/ (call'[u].out \in Buffers /\ state'[call'[u].out] # "unborn")
    BY <2>1, <2>2, <2>3, <2>4
  <2>8. Fresh'
    BY <1>0, <2>1, <2>4, <2>6, <2>7, FreshGrows
  <2>9. ArgumentsReady'
    BY <1>0, <2>2, <2>3, <2>4
    DEF ArgumentsReady, Grows, TypeInv, CallsType, CallType
  <2> QED BY <2>5, <2>8, <2>9 DEF ServedInv
<1>2. ASSUME NEW b \in Buffers, DropTensor(t, b)
      PROVE  ServedInv'
  <2>1. /\ UNCHANGED <<next, state, matQ, mat, ex, execQ, call>> /\ live' \subseteq live
    BY <1>2 DEF DropTensor
  <2>2. Served'
    BY <1>0, <2>1, SameServed, SameStates, SameCalls
  <2>3. Fresh' /\ ArgumentsReady'
    BY <1>0, <2>1 DEF Fresh, ArgumentsReady, Born, IsMaterializing
  <2> QED BY <2>2, <2>3 DEF ServedInv
<1>3. ASSUME NEW b \in Buffers, ReadTensor(t, b)
      PROVE  ServedInv'
  <2> DEFINE c == [Idle EXCEPT !.nodes = {b}, !.why = "read"]
  <2>1. c \in CallType /\ c.out = NoBuffer /\ c.nodes = {b}
    BY DEF Idle, CallType, CallPCs, Purposes, NoBuffer
  <2>2. /\ Materialize(t, c, "split", "read") /\ b \in live /\ ~Pushes(t)
        /\ UNCHANGED <<next, state, live, mat, ex, execQ>>
    BY <1>3 DEF ReadTensor, At, Pushes
  <2> HIDE DEF c
  <2> QED BY <1>0, <2>1, <2>2, ServedMaterialize DEF Modes
<1>4. ASSUME SyncStream(t)
      PROVE  ServedInv'
  <2> DEFINE task == [kind |-> "stream", nodes |-> {}, mode |-> "split", from |-> t]
             c == [Idle EXCEPT !.nodes = {b \in live : ~IsConstant(b)}, !.why = "sync"]
             d == [c EXCEPT !.pc = "wait"]
  <2>1. /\ \/ Go(t, Idle) /\ UNCHANGED matQ
           \/ Go(t, d) /\ matQ' = Append(matQ, task)
        /\ UNCHANGED <<next, state, live, mat, ex, execQ>> /\ ~Pushes(t)
    BY <1>4 DEF SyncStream, Enqueue, At, Pushes
  <2>2. task \in MatTask /\ task.nodes = {}
    BY DEF MatTask, Modes
  <2>3. d.pc = "wait" /\ d.out = NoBuffer /\ Idle.pc = "idle" /\ Idle.out = NoBuffer
    BY DEF Idle
  <2> HIDE DEF task, d
  <2> QED BY <2>1, <2>2, <2>3, MoveOn
<1>5. ASSUME NEW args \in SUBSET Buffers, ExecuteModel(t, args)
      PROVE  ServedInv'
  <2> DEFINE c == [Idle EXCEPT !.nodes = args, !.why = "execute"]
  <2>1. c \in CallType /\ c.out = NoBuffer /\ c.nodes = args
    BY DEF Idle, CallType, CallPCs, Purposes, NoBuffer
  <2>2. /\ Materialize(t, c, "split", "create") /\ args \subseteq live /\ ~Pushes(t)
        /\ UNCHANGED <<next, state, live, mat, ex, execQ>>
    BY <1>5 DEF ExecuteModel, At, Pushes
  <2> HIDE DEF c
  <2> QED BY <1>0, <2>1, <2>2, ServedMaterialize DEF Modes
<1> QED BY <1>1, <1>2, <1>3, <1>4, <1>5 DEF Begin

LEMMA ServedCreateOutput ==
    ASSUME TypeInv, ServedInv, NEW t \in Threads, CreateOutput(t)
    PROVE  ServedInv'
<1> USE DEF workerVars
<1> DEFINE c == [call[t] EXCEPT !.pc = "push", !.out = next]
<1>0. Served /\ Fresh /\ ArgumentsReady
  BY DEF ServedInv
<1>1. /\ next \in Buffers /\ next' = next + 1 /\ state' = [state EXCEPT ![next] = "pending"]
      /\ UNCHANGED <<live, matQ, mat, ex, execQ>> /\ call[t].pc = "create"
  BY DEF CreateOutput, CreatePending, At
<1>2. Go(t, c)
  BY <1>0, <1>1 DEF CreateOutput, ArgumentsReady
<1>3. c.pc = "push" /\ c.out = next
  BY DEF TypeInv, CallsType, CallType
<1> HIDE DEF c
<1>4. \A u \in Threads : call'[u] = IF u = t THEN c ELSE call[u]
  BY <1>2 DEF Go, TypeInv, CallsType
<1>5. /\ Pending' = Pending \cup {next} /\ next \notin Pending
      /\ Grows /\ state'[next] # "unborn"
      /\ \A b \in Buffers : b >= next' => ~Born(b)'
  BY <1>0, <1>1, CreateStates
<1>6. Pushed' = Pushed \cup {next}
  BY <1>1, <1>3, <1>4 DEF Pushed, Pushes
<1>7. OnePusher'
  <2>1. \A u \in Threads : Pushes(u) => call[u].out # next
    BY <1>0, <1>5 DEF Served, Pushed
  <2> QED
    BY <1>0, <1>3, <1>4, <2>1 DEF Served, OnePusher, Pushes
<1>8. Served'
  <2>1. /\ Outs(execQ)' = Outs(execQ) /\ Outs(mat.batch)' = Outs(mat.batch)
        /\ Distinct(execQ)' /\ Distinct(mat.batch)' /\ ex'.task.outs = ex.task.outs
    BY <1>0, <1>1 DEF Served, Outs, Distinct
  <2> QED BY <1>0, <1>5, <1>6, <1>7, <2>1 DEF Served, Apart
<1>9. \A u \in Threads : call'[u].out \in {NoBuffer, call[u].out}
                         \/ (call'[u].out \in Buffers /\ state'[call'[u].out] # "unborn")
  BY <1>1, <1>3, <1>4, <1>5
<1>10. Fresh'
  BY <1>0, <1>1, <1>5, <1>9, NodesBorn, FreshGrows
<1>11. ArgumentsReady'
  BY <1>0, <1>3, <1>4, <1>5 DEF ArgumentsReady, Grows, TypeInv, CallsType, CallType
<1> QED BY <1>8, <1>10, <1>11 DEF ServedInv

LEMMA ServedPushExecutable ==
    ASSUME TypeInv, ServedInv, NEW t \in Threads, PushExecutable(t)
    PROVE  ServedInv'
<1> USE DEF workerVars
<1>0. Served /\ Fresh /\ ArgumentsReady
  BY DEF ServedInv
<1> DEFINE o == call[t].out
<1>1. /\ Pushes(t) /\ o \in Buffers /\ o \in Pushed /\ o \in Pending
      /\ UNCHANGED <<live, matQ, mat, ex>>
  BY <1>0 DEF PushExecutable, At, Pushes, Pushed, Served, TypeInv, CallsType, CallType
<1>2. PICK c : Go(t, c) /\ c.pc \notin {"push", "create"} /\ c.out \in {NoBuffer, o}
  <2>1. Idle.pc = "idle" /\ Idle.out = NoBuffer
    BY DEF Idle
  <2>2. /\ [Idle EXCEPT !.pc = "tensor", !.out = call[t].out].pc = "tensor"
        /\ [Idle EXCEPT !.pc = "tensor", !.out = call[t].out].out = call[t].out
    BY DEF Idle
  <2>3. Go(t, Idle) \/ Go(t, [Idle EXCEPT !.pc = "tensor", !.out = call[t].out])
    BY DEF PushExecutable, GoMakeTensor
  <2> QED BY <2>1, <2>2, <2>3
<1>3. \A u \in Threads : call'[u] = IF u = t THEN c ELSE call[u]
  BY <1>2 DEF Go, TypeInv, CallsType
<1>4. Pushed' = Pushed \ {o}
  <2>1. \A u \in Threads : Pushes(u) /\ u # t => call[u].out # o
    BY <1>0, <1>1 DEF Served, OnePusher
  <2>2. \A u \in Threads : /\ Pushes(u)' <=> Pushes(u) /\ u # t
                           /\ u # t => call'[u].out = call[u].out
    BY <1>2, <1>3 DEF Pushes
  <2> QED BY <2>1, <2>2 DEF Pushed
<1>5. OnePusher'
  BY <1>0, <1>2, <1>3 DEF Served, OnePusher, Pushes
<1>6. \A u \in Threads : call'[u].out \in {NoBuffer, call[u].out}
  BY <1>2, <1>3
<1>7. CASE ShuttingDown
  <2>1. Become({o}, "error") /\ UNCHANGED execQ
    BY <1>7 DEF PushExecutable, SetAsError
  <2>2. /\ Pending' = Pending \ {o} /\ Grows
        /\ \A b \in Buffers : b >= next' => ~Born(b)'
    <3>1. Born(o)
      BY <1>1 DEF Pending, Born
    <3> HIDE DEF o
    <3> QED BY <1>0, <1>1, <2>1, <3>1, SettleStates DEF Settled
  <2>3. Served'
    <3>1. /\ Outs(execQ)' = Outs(execQ) /\ Outs(mat.batch)' = Outs(mat.batch)
          /\ Distinct(execQ)' /\ Distinct(mat.batch)' /\ ex'.task.outs = ex.task.outs
      BY <1>0, <1>1, <2>1 DEF Served, Outs, Distinct
    <3> HIDE DEF o
    <3> QED BY <1>0, <1>1, <1>4, <1>5, <2>2, <3>1 DEF Served, Apart
  <2>4. Fresh'
    BY <1>0, <1>1, <1>6, <2>2, NodesBorn, FreshGrows
  <2>5. ArgumentsReady'
    BY <1>0, <1>2, <1>3, <2>2 DEF ArgumentsReady, Grows, TypeInv, CallsType, CallType
  <2> QED BY <2>3, <2>4, <2>5 DEF ServedInv
<1>8. CASE ~ShuttingDown
  <2> DEFINE task == [kind |-> "task", args |-> call[t].nodes, outs |-> {o},
                      effects |-> {}, compiled |-> TRUE]
  <2>1. execQ' = Append(execQ, task) /\ UNCHANGED <<next, state>>
    BY <1>8 DEF PushExecutable
  <2>2. task \in ExecTask /\ task.outs = {o}
    BY <1>1 DEF ExecTask, TypeInv, CallsType, CallType
  <2> HIDE DEF task
  <2>3. /\ Pending' = Pending /\ Grows
        /\ \A b \in Buffers : b >= next' => ~Born(b)'
    BY <1>0, <2>1, SameStates
  <2>4. Served'
    <3>0. execQ \in Seq(ExecTask) /\ o \notin Outs(execQ)
      BY <1>0, <1>1 DEF TypeInv, TypeOK, Served, Apart
    <3>1. Outs(execQ') = Outs(execQ) \cup {o} /\ Distinct(execQ')
      BY <1>0, <2>1, <2>2, <3>0, OutsAppend DEF Served
    <3>2. /\ Outs(execQ)' = Outs(execQ') /\ Outs(mat.batch)' = Outs(mat.batch)
          /\ Distinct(execQ)' /\ Distinct(mat.batch)' /\ ex'.task.outs = ex.task.outs
      BY <1>0, <1>1, <3>1 DEF Served, Outs, Distinct
    <3> HIDE DEF o
    <3> QED BY <1>0, <1>1, <1>4, <1>5, <2>3, <3>0, <3>1, <3>2 DEF Served, Apart
  <2>5. Fresh'
    BY <1>0, <1>1, <1>6, <2>3, NodesBorn, FreshGrows
  <2>6. ArgumentsReady'
    BY <1>0, <1>2, <1>3, <2>3 DEF ArgumentsReady, Grows, TypeInv, CallsType, CallType
  <2> QED BY <2>4, <2>5, <2>6 DEF ServedInv
<1> QED BY <1>7, <1>8

LEMMA ServedContinue ==
    ASSUME TypeInv, ServedInv, NEW t \in Threads, Continue(t)
    PROVE  ServedInv'
<1> USE DEF workerVars, bufferVars
<1>0. Served /\ Fresh /\ ArgumentsReady /\ call[t] \in CallType
  BY DEF ServedInv, TypeInv, CallsType
<1>a. Idle.pc = "idle" /\ Idle.out = NoBuffer
  BY DEF Idle
<1>b. /\ [Idle EXCEPT !.pc = "tensor", !.out = call[t].out].pc = "tensor"
      /\ [Idle EXCEPT !.pc = "tensor", !.out = call[t].out].out = call[t].out
  BY DEF Idle
<1>c. \A pc : /\ [call[t] EXCEPT !.pc = pc].pc = pc
              /\ [call[t] EXCEPT !.pc = pc].out = call[t].out
              /\ [call[t] EXCEPT !.pc = pc].nodes = call[t].nodes
  BY <1>0 DEF CallType
<1>1. CASE RecordOp(t)
  BY <1>1, <1>c, MoveOn DEF RecordOp, Step, At, Pushes
<1>2. CASE DispatchPlain(t)
  BY <1>2, <1>b, MoveOn DEF DispatchPlain, GoMakeTensor, At, Pushes
<1>3. CASE DispatchRepeated(t)
  <2>0. /\ UNCHANGED <<next, state, live, mat, ex, execQ>> /\ ~Pushes(t)
        /\ call[t].out \in Buffers
    BY <1>0, <1>3 DEF DispatchRepeated, At, Pushes, CallType
  <2>1. CASE IsDeferred(call[t].out)
    <3> DEFINE c == [call[t] EXCEPT !.nodes = {call[t].out}, !.why = "heuristic"]
    <3>1. c \in CallType /\ c.out = call[t].out /\ c.nodes = {call[t].out}
      BY <1>0, <2>0 DEF CallType, Purposes
    <3>2. deploy.mode \in Modes
      BY DeploymentsAssumption DEF TypeInv, TypeOK, Deployment, Modes
    <3>3. Materialize(t, c, deploy.mode, "tensor")
      BY <1>3, <2>1 DEF DispatchRepeated
    <3>4. \A b \in c.nodes : Born(b)
      BY <2>1, <3>1 DEF IsDeferred, Born
    <3> HIDE DEF c
    <3> QED BY <2>0, <3>1, <3>2, <3>3, <3>4, ServedMaterialize
  <2>2. CASE ~IsDeferred(call[t].out)
    <3>1. UNCHANGED <<call, matQ>>
      BY <1>3, <2>2 DEF DispatchRepeated
    <3>2. Served'
      BY <1>0, <2>0, <3>1, SameServed, SameStates, SameCalls
    <3>3. Fresh' /\ ArgumentsReady'
      BY <1>0, <2>0, <3>1 DEF Fresh, ArgumentsReady, Born, IsMaterializing
    <3> QED BY <3>2, <3>3 DEF ServedInv
  <2> QED BY <2>1, <2>2
<1>4. CASE MakeTensor(t)
  <2>1. call[t].out \in Buffers /\ Born(call[t].out)
    BY <1>0, <1>4, MaxBuffersAssumption
    DEF MakeTensor, At, CallType, Fresh, NoBuffer, Buffers
  <2> QED BY <1>4, <1>a, <2>1, MoveOn DEF MakeTensor, At, Pushes
<1>5. CASE Resume(t)
  <2>0. ~Pushes(t) /\ UNCHANGED <<next, state, live, matQ, mat, ex, execQ>>
    BY <1>5 DEF Resume, At, Pushes
  <2>1. CASE Go(t, Idle)
    BY <1>a, <2>0, <2>1, MoveOn
  <2>2. CASE GoMakeTensor(t)
    BY <1>b, <2>0, <2>2, MoveOn DEF GoMakeTensor
  <2>3. CASE Step(t, "read") \/ Step(t, "sync")
    BY <1>c, <2>0, <2>3, MoveOn DEF Step
  <2>4. CASE Step(t, "create") /\ \A b \in call[t].nodes : IsMaterializing(b)
    BY <1>c, <2>0, <2>4, MoveOn DEF Step
  <2> QED BY <1>5, <2>1, <2>2, <2>3, <2>4 DEF Resume
<1>6. CASE AwaitBuffers(t)
  BY <1>6, <1>a, MoveOn DEF AwaitBuffers, At, Pushes
<1> QED
  BY <1>1, <1>2, <1>3, <1>4, <1>5, <1>6, ServedCreateOutput, ServedPushExecutable
  DEF Continue

(***************************************************************************)
(* The worker threads and the shutdown.                                    *)
(***************************************************************************)

\* A step of the materialize thread that leaves the calls as they are, apart
\* from answering one, and the division of the pending buffers as it is.
LEMMA WorkerStep ==
    ASSUME TypeInv, ServedInv, Served', Grows, UNCHANGED live,
           \A b \in Buffers : b >= next' => ~Born(b)',
           \A b \in mat'.task.nodes : b \in Buffers /\ Born(b),
           \A i \in DOMAIN matQ' : \A b \in matQ'[i].nodes : b \in Buffers /\ Born(b),
           \A t \in Threads : /\ call'[t].out = call[t].out
                              /\ call'[t].pc = "create" => call'[t] = call[t]
    PROVE  ServedInv'
<1>1. Fresh'
  BY FreshGrows DEF ServedInv
<1>2. ArgumentsReady'
  BY DEF ServedInv, ArgumentsReady, Grows, TypeInv, CallsType, CallType
<1> QED BY <1>1, <1>2 DEF ServedInv

LEMMA ServedMaterializeLoop ==
    ASSUME TypeInv, Life, CallHasTask, ServedInv, MaterializeLoop
    PROVE  ServedInv'
<1> USE DEF workerVars, bufferVars
<1>0. /\ Served /\ Fresh /\ ArgumentsReady /\ MatType
      /\ matQ \in Seq(MatTask) /\ execQ \in Seq(ExecTask) /\ mat.batch \in Seq(ExecTask)
  BY DEF ServedInv, TypeInv, TypeOK, MatType
<1>n. /\ \A b \in mat.task.nodes : b \in Buffers /\ Born(b)
      /\ \A i \in DOMAIN matQ : \A b \in matQ[i].nodes : b \in Buffers /\ Born(b)
  BY <1>0, NodesBorn
<1>1. CASE DequeueMaterializationTask
  <2>1. /\ matQ # <<>> /\ matQ' = Tail(matQ)
        /\ UNCHANGED <<next, state, live, call, execQ, ex>>
    BY <1>1 DEF DequeueMaterializationTask
  <2>2. mat'.batch = mat.batch /\ mat'.task \in {mat.task, Head(matQ)}
    BY <1>0, <1>1 DEF DequeueMaterializationTask, MatType
  <2>3. /\ \A i \in DOMAIN matQ' : i + 1 \in DOMAIN matQ /\ matQ'[i] = matQ[i + 1]
        /\ 1 \in DOMAIN matQ /\ Head(matQ) = matQ[1]
    BY <1>0, <2>1
  <2>4. /\ Pending' = Pending /\ Grows
        /\ \A b \in Buffers : b >= next' => ~Born(b)'
    BY <1>0, <2>1, SameStates
  <2>5. Served'
    BY <1>0, <2>1, <2>2, <2>4, SameServed, SameCalls
  <2>6. /\ \A b \in mat'.task.nodes : b \in Buffers /\ Born(b)
        /\ \A i \in DOMAIN matQ' : \A b \in matQ'[i].nodes : b \in Buffers /\ Born(b)
    BY <1>n, <2>2, <2>3
  <2> QED BY <2>1, <2>4, <2>5, <2>6, WorkerStep
<1>2. CASE Prepare
  <2>1. /\ mat'.batch = mat.batch /\ mat'.task = mat.task
        /\ UNCHANGED <<next, state, live, call, matQ, execQ, ex>>
    BY <1>0, <1>2 DEF Prepare, MatType
  <2>2. /\ Pending' = Pending /\ Grows
        /\ \A b \in Buffers : b >= next' => ~Born(b)'
    BY <1>0, <2>1, SameStates
  <2>3. Served'
    BY <1>0, <2>1, <2>2, SameServed, SameCalls
  <2> QED BY <1>n, <2>1, <2>2, <2>3, WorkerStep
<1>3. CASE BuildTask
  <2> DEFINE task == [kind |-> "task", args |-> Arguments, outs |-> Outputs,
                      effects |-> CollectivesOf(Outputs), compiled |-> FALSE]
  <2>1. /\ mat' = [Built EXCEPT !.batch = Append(@, task)]
        /\ Become(Outputs, "pending") /\ UNCHANGED <<live, call, matQ, execQ, ex>>
    BY <1>3 DEF BuildTask, SetAsPendingMaterialization
  <2>2. /\ Outputs \in SUBSET Buffers /\ \A b \in Outputs : IsDeferred(b)
    BY <1>3 DEF BuildTask, Outputs, Nodes
  <2>3. task \in ExecTask /\ task.outs = Outputs
    BY <2>2 DEF ExecTask, CollectivesOf, Arguments
  <2> HIDE DEF task
  <2>4. mat'.batch = Append(mat.batch, task) /\ mat'.task = mat.task
    BY <1>0, <2>1 DEF Built, MatType
  <2> DEFINE O == Outputs
  <2>5. /\ Pending' = Pending \cup O /\ Pending \cap O = {} /\ Grows
        /\ \A b \in Buffers : b >= next' => ~Born(b)'
    BY <1>0, <2>1, <2>2, PendStates
  <2> HIDE DEF O
  <2>6. O \cap Outs(mat.batch) = {}
    BY <1>0, <2>5 DEF Served
  <2>7. Outs(mat'.batch) = Outs(mat.batch) \cup O /\ Distinct(mat'.batch)
    BY <1>0, <2>3, <2>4, <2>6, OutsAppend DEF Served, O
  <2>8. /\ Outs(mat.batch)' = Outs(mat'.batch) /\ Distinct(mat.batch)'
        /\ Outs(execQ)' = Outs(execQ) /\ Distinct(execQ)'
        /\ ex'.task.outs = ex.task.outs /\ Pushed' = Pushed /\ OnePusher'
    BY <1>0, <2>1, <2>7 DEF Served, Outs, Distinct, Pushed, OnePusher, Pushes
  <2>9. Served'
    BY <1>0, <2>5, <2>7, <2>8 DEF Served, Apart
  <2> QED BY <1>n, <2>1, <2>4, <2>5, <2>9, WorkerStep
<1>4. CASE FailTraversal
  <2>1. /\ mat'.batch = mat.batch /\ mat'.task = mat.task
        /\ Become(Outputs, "error") /\ UNCHANGED <<live, call, matQ, execQ, ex>>
    BY <1>0, <1>4 DEF FailTraversal, Built, MatType, SetAsError
  <2>2. \A b \in Outputs : b \in Buffers /\ state[b] = "deferred"
    BY <1>4 DEF FailTraversal, Outputs, Nodes, IsDeferred
  <2> DEFINE O == Outputs
  <2>3. /\ Pending' = Pending \ O /\ Grows
        /\ \A b \in Buffers : b >= next' => ~Born(b)'
    <3>1. \A b \in O : b \in Buffers /\ Born(b)
      BY <2>2 DEF Born
    <3>2. Become(O, "error") /\ "error" \in Settled
      BY <2>1 DEF Settled
    <3> HIDE DEF O
    <3> QED BY <1>0, <3>1, <3>2, SettleStates
  <2>4. Pending' = Pending
    BY <2>2, <2>3 DEF Pending
  <2>5. Served'
    BY <1>0, <2>1, <2>4, SameServed, SameCalls
  <2> QED BY <1>n, <2>1, <2>3, <2>5, WorkerStep
<1>5. CASE AbortTraversal
  <2>1. UNCHANGED <<next, state, live, call, matQ, mat, execQ, ex>>
    BY <1>5 DEF AbortTraversal
  <2>2. /\ Pending' = Pending /\ Grows
        /\ \A b \in Buffers : b >= next' => ~Born(b)'
    BY <1>0, <2>1, SameStates
  <2>3. Served'
    BY <1>0, <2>1, <2>2, SameServed, SameCalls
  <2> QED BY <1>n, <2>1, <2>2, <2>3, WorkerStep
<1>6. CASE PublishTasks
  <2>1. /\ mat'.batch = <<>> /\ mat'.task = mat.task /\ execQ' = execQ \o mat.batch
        /\ UNCHANGED <<next, state, live, call, matQ, ex>>
    BY <1>0, <1>6 DEF PublishTasks, MatType
  <2>2. /\ Pending' = Pending /\ Grows
        /\ \A b \in Buffers : b >= next' => ~Born(b)'
    BY <1>0, <2>1, SameStates
  <2>3. Outs(execQ') = Outs(execQ) \cup Outs(mat.batch) /\ Distinct(execQ')
    BY <1>0, <2>1, OutsConcat DEF Served, Apart
  <2>4. /\ Outs(execQ)' = Outs(execQ') /\ Distinct(execQ)'
        /\ ex'.task.outs = ex.task.outs /\ Pushed' = Pushed /\ OnePusher'
    BY <1>0, <2>1, <2>3 DEF Served, Outs, Distinct, Pushed, OnePusher, Pushes
  <2>5. Outs(mat.batch)' = {} /\ Distinct(mat.batch)'
    BY <2>1 DEF Outs, Distinct
  <2>6. Served'
    BY <1>0, <2>2, <2>3, <2>4, <2>5 DEF Served, Apart
  <2> QED BY <1>n, <2>1, <2>2, <2>6, WorkerStep
<1>7. CASE AnswerTask
  <2> DEFINE t == mat.task.from
             S == {b \in mat.task.nodes : mat.err /\ ~IsMaterializing(b)}
  <2>1. /\ mat'.batch = mat.batch /\ mat'.task = NoTask
        /\ UNCHANGED <<live, matQ, execQ, ex>>
    BY <1>0, <1>7 DEF AnswerTask, MatType
  <2>2. t \in Threads
    BY <1>0, <1>7 DEF AnswerTask, Life, Shapes, MatType, MatTask
  <2>3. /\ Pending' = Pending /\ Grows
        /\ \A b \in Buffers : b >= next' => ~Born(b)'
    <3>1. CASE mat.task.kind = "nodes"
      <4>1. Become(S, "error")
        BY <1>7, <3>1 DEF AnswerTask, SetAsError
      <4>2. \A b \in S : b \in Buffers /\ Born(b)
        BY <1>n
      <4>3. S \cap Pending = {}
        BY DEF Pending, IsMaterializing
      <4> HIDE DEF S
      <4> QED BY <1>0, <4>1, <4>2, <4>3, SettleStates DEF Settled
    <3>2. CASE mat.task.kind # "nodes"
      <4>1. UNCHANGED <<next, state>>
        BY <1>7, <3>2 DEF AnswerTask
      <4> QED BY <1>0, <4>1, SameStates
    <3> QED BY <3>1, <3>2
  <2>4. /\ \A u \in Threads : u # t => call'[u] = call[u]
        /\ call'[t].pc = "answered" /\ call'[t].out = call[t].out
    <3>1. PICK ok, nodes : Answer(t, ok, nodes)
      BY <1>7 DEF AnswerTask
    <3> QED BY <2>2, <3>1 DEF Answer, TypeInv, CallsType, CallType
  <2>5. call[t].pc # "push" => SamePushers
    BY <2>4 DEF SamePushers, Pushes
  <2>6. call[t].pc = "wait"
    BY <2>2 DEF CallHasTask
  <2>7. Served'
    BY <1>0, <2>1, <2>3, <2>5, <2>6, SameServed
  <2>8. mat'.task.nodes = {}
    BY <2>1 DEF NoTask
  <2>9. \A u \in Threads : /\ call'[u].out = call[u].out
                           /\ call'[u].pc = "create" => call'[u] = call[u]
    BY <2>4
  <2> HIDE DEF t, S
  <2> QED BY <1>n, <2>1, <2>3, <2>7, <2>8, <2>9, WorkerStep
<1> QED
  BY <1>1, <1>2, <1>3, <1>4, <1>5, <1>6, <1>7 DEF MaterializeLoop

\* The execute thread settles the outputs of the task it runs.
LEMMA ServedSettle ==
    ASSUME TypeInv, ServedInv, NEW S, NEW s, Settles(S, s)
    PROVE  ServedInv'
<1>0. Served /\ Fresh /\ ArgumentsReady
  BY DEF ServedInv
<1>2. /\ S \subseteq ex.task.outs /\ s \in Settled /\ Become(S, s)
      /\ ex'.task.outs = ex.task.outs \ S
      /\ UNCHANGED <<live, call, matQ, mat, execQ>>
  BY DEF Settles
<1>1. \A b \in S : b \in Buffers /\ Born(b) /\ b \in Pending
  BY <1>0, <1>2 DEF Served, Pending, Born
<1>3. /\ Pending' = Pending \ S /\ Grows
      /\ \A b \in Buffers : b >= next' => ~Born(b)'
  BY <1>0, <1>1, <1>2, SettleStates
<1>4. /\ Outs(mat.batch)' = Outs(mat.batch) /\ Distinct(mat.batch)'
      /\ Outs(execQ)' = Outs(execQ) /\ Distinct(execQ)'
      /\ Pushed' = Pushed /\ OnePusher'
  BY <1>0, <1>2 DEF Served, Outs, Distinct, Pushed, OnePusher, Pushes
<1>5. Served'
  BY <1>0, <1>2, <1>3, <1>4 DEF Served, Apart
<1> QED BY <1>0, <1>2, <1>3, <1>5, NodesBorn, WorkerStep

LEMMA ServedExecuteLoop ==
    ASSUME TypeInv, Life, ServedInv, ExecuteLoop
    PROVE  ServedInv'
<1> USE DEF bufferVars
<1>0. Served /\ Fresh /\ ArgumentsReady /\ execQ \in Seq(ExecTask)
  BY DEF ServedInv, TypeInv, TypeOK
<1>1. CASE DequeueExecutionTask
  <2>1. /\ ex.pc = "idle" /\ execQ # <<>> /\ execQ' = Tail(execQ)
        /\ UNCHANGED <<next, state, live, call, matQ, mat>>
    BY <1>1 DEF DequeueExecutionTask
  <2> DEFINE h == Head(execQ).outs
  <2>2. ex.task.outs = {}
    BY <2>1 DEF Life, Shapes
  <2>3. ex'.task.outs = h
    <3>1. CASE Head(execQ).kind = "sentinel"
      <4>1. 1 \in DOMAIN execQ /\ Head(execQ) = execQ[1]
        BY <1>0, <2>1
      <4>2. h = {}
        BY <3>1, <4>1 DEF Life, Shapes
      <4>3. ex' = [ex EXCEPT !.pc = "stopped"] /\ ex \in [pc: {"idle", "run", "stopped"}, task: ExecTask]
        BY <1>1, <3>1 DEF DequeueExecutionTask, TypeInv, TypeOK
      <4> QED BY <2>2, <4>2, <4>3
    <3>2. CASE Head(execQ).kind # "sentinel"
      BY <1>1, <3>2 DEF DequeueExecutionTask
    <3> QED BY <3>1, <3>2
  <2>4. /\ Outs(execQ) = h \cup Outs(execQ') /\ h \cap Outs(execQ') = {}
        /\ Distinct(execQ')
    BY <1>0, <2>1, OutsTail DEF Served
  <2> HIDE DEF h
  <2>5. /\ Pending' = Pending /\ Grows
        /\ \A b \in Buffers : b >= next' => ~Born(b)'
    BY <1>0, <2>1, SameStates
  <2>6. /\ Outs(mat.batch)' = Outs(mat.batch) /\ Distinct(mat.batch)'
        /\ Outs(execQ)' = Outs(execQ') /\ Distinct(execQ)'
        /\ Pushed' = Pushed /\ OnePusher'
    BY <1>0, <2>1, <2>4 DEF Served, Outs, Distinct, Pushed, OnePusher, Pushes
  <2>7. Served'
    BY <1>0, <2>2, <2>3, <2>4, <2>5, <2>6 DEF Served, Apart
  <2> QED BY <1>0, <2>1, <2>5, <2>7, NodesBorn, WorkerStep
<1>2. CASE RunTask \/ FailTask
  BY <1>2, TaskSettles, ServedSettle DEF ExType, TypeInv, TypeOK
<1> QED BY <1>1, <1>2 DEF ExecuteLoop

\* A step that changes none of what ServedInv speaks of.
LEMMA ServedSame ==
    ASSUME TypeInv, ServedInv, UNCHANGED <<next, state, live, call, matQ, mat, execQ, ex>>
    PROVE  ServedInv'
<1>0. Served /\ Fresh
  BY DEF ServedInv
<1>1. /\ Pending' = Pending /\ Grows
      /\ \A b \in Buffers : b >= next' => ~Born(b)'
  BY <1>0, SameStates
<1>2. Served'
  BY <1>0, <1>1, SameServed, SameCalls
<1> QED BY <1>0, <1>1, <1>2, NodesBorn, WorkerStep

LEMMA ServedShutDown ==
    ASSUME TypeInv, Life, ServedInv, ShutDown \/ ContinueShutDown
    PROVE  ServedInv'
<1> USE DEF bufferVars, CloserStep
<1>0. /\ Served /\ Fresh /\ ArgumentsReady
      /\ execQ \in Seq(ExecTask) /\ matQ \in Seq(MatTask)
  BY DEF ServedInv, TypeInv, TypeOK
<1>n. /\ \A b \in mat.task.nodes : b \in Buffers /\ Born(b)
      /\ \A i \in DOMAIN matQ : \A b \in matQ[i].nodes : b \in Buffers /\ Born(b)
  BY <1>0, NodesBorn
<1>e. ASSUME Become({}, "error") PROVE UNCHANGED <<next, state>>
  BY <1>e DEF Become, TypeInv, TypeOK, BuffersTypeOK
<1>1. CASE ShutDown \/ JoinMaterializeThread \/ JoinExecuteThread
  BY <1>1, ServedSame DEF ShutDown, JoinMaterializeThread, JoinExecuteThread
<1>2. CASE PushMaterializeSentinel
  <2>1. /\ matQ' = Append(matQ, Sentinel)
        /\ UNCHANGED <<next, state, live, call, mat, execQ, ex>>
    BY <1>2 DEF PushMaterializeSentinel
  <2>2. /\ Pending' = Pending /\ Grows
        /\ \A b \in Buffers : b >= next' => ~Born(b)'
    BY <1>0, <2>1, SameStates
  <2>3. Served'
    BY <1>0, <2>1, <2>2, SameServed, SameCalls
  <2>4. Sentinel.nodes = {}
    BY DEF Sentinel, NoTask
  <2>5. \A i \in DOMAIN matQ' : matQ'[i] = Sentinel \/ (i \in DOMAIN matQ /\ matQ'[i] = matQ[i])
    BY <1>0, <2>1
  <2>6. \A i \in DOMAIN matQ' : \A b \in matQ'[i].nodes : b \in Buffers /\ Born(b)
    BY <1>n, <2>4, <2>5
  <2> QED BY <1>n, <2>1, <2>2, <2>3, <2>6, WorkerStep
<1>3. CASE FailRemainingMaterializationTasks
  <2>1. matQ = <<>> /\ matQ' = <<>> /\ UNCHANGED <<live, mat, execQ, ex>>
    BY <1>3 DEF FailRemainingMaterializationTasks, Life, MatClosing
  <2>2. UNCHANGED <<next, state>>
    <3>1. UNION {matQ[i].nodes : i \in DOMAIN matQ} = {}
      BY <2>1
    <3> QED BY <1>3, <1>e, <3>1 DEF FailRemainingMaterializationTasks, SetAsError
  <2>3. \A t \in Threads : call'[t] = call[t]
    BY <1>3, <2>1 DEF FailRemainingMaterializationTasks
  <2>4. SamePushers
    BY <2>3 DEF SamePushers, Pushes
  <2>5. /\ Pending' = Pending /\ Grows
        /\ \A b \in Buffers : b >= next' => ~Born(b)'
    BY <1>0, <2>2, SameStates
  <2>6. Served'
    BY <1>0, <2>1, <2>4, <2>5, SameServed
  <2> QED BY <1>n, <2>1, <2>3, <2>5, <2>6, WorkerStep
<1>4. CASE PushExecuteSentinel
  <2>1. /\ execQ' = Append(execQ, ExecSentinel)
        /\ UNCHANGED <<next, state, live, call, matQ, mat, ex>>
    BY <1>4 DEF PushExecuteSentinel
  <2>2. ExecSentinel \in ExecTask /\ ExecSentinel.outs = {}
    BY DEF ExecSentinel, NoExecTask, ExecTask
  <2>3. Outs(execQ') = Outs(execQ) /\ Distinct(execQ')
    BY <1>0, <2>1, <2>2, OutsAppend DEF Served
  <2>4. /\ Pending' = Pending /\ Grows
        /\ \A b \in Buffers : b >= next' => ~Born(b)'
    BY <1>0, <2>1, SameStates
  <2>5. /\ Outs(mat.batch)' = Outs(mat.batch) /\ Distinct(mat.batch)'
        /\ Outs(execQ)' = Outs(execQ') /\ Distinct(execQ)'
        /\ Pushed' = Pushed /\ OnePusher' /\ ex'.task.outs = ex.task.outs
    BY <1>0, <2>1, <2>3 DEF Served, Outs, Distinct, Pushed, OnePusher, Pushes
  <2>6. Served'
    BY <1>0, <2>3, <2>4, <2>5 DEF Served, Apart
  <2> QED BY <1>n, <2>1, <2>4, <2>6, WorkerStep
<1>5. CASE FailRemainingExecutionTasks
  <2>1. execQ = <<>> /\ execQ' = <<>> /\ UNCHANGED <<live, call, matQ, mat, ex>>
    BY <1>5 DEF FailRemainingExecutionTasks, Life, ExecClosing
  <2>2. UNCHANGED <<next, state>>
    <3>1. UNION {execQ[i].outs : i \in DOMAIN execQ} = {}
      BY <2>1
    <3> QED BY <1>5, <1>e, <3>1 DEF FailRemainingExecutionTasks, SetAsError
  <2> QED BY <2>1, <2>2, ServedSame
<1> QED BY <1>1, <1>2, <1>3, <1>4, <1>5 DEF ContinueShutDown

LEMMA ServedInit == Init => ServedInv
<1> SUFFICES ASSUME Init PROVE ServedInv
  OBVIOUS
<1>1. /\ \A b \in Buffers : state[b] = "unborn"
      /\ matQ = <<>> /\ execQ = <<>> /\ mat.batch = <<>> /\ live = {}
      /\ mat.task.nodes = {} /\ ex.task.outs = {}
      /\ \A t \in Threads : call[t].pc = "idle" /\ call[t].out = NoBuffer
  BY DEF Init, BuffersInit, Idle, NoTask, NoExecTask
<1>2. Pending = {} /\ Outs(execQ) = {} /\ Outs(mat.batch) = {} /\ Pushed = {}
  BY <1>1 DEF Pending, Outs, Pushed, Pushes
<1>3. Served
  BY <1>1, <1>2 DEF Served, Apart, OnePusher, Pushes, Distinct
<1> QED BY <1>1, <1>3 DEF ServedInv, Fresh, ArgumentsReady, Born

LEMMA ServedNext ==
    TypeInv /\ Life /\ CallHasTask /\ ServedInv /\ [Next]_vars => ServedInv'
<1> SUFFICES ASSUME TypeInv, Life, CallHasTask, ServedInv, [Next]_vars
             PROVE  ServedInv'
  OBVIOUS
<1>1. CASE UNCHANGED programVars
  BY <1>1, ServedSame DEF programVars, workerVars
<1> QED
  BY <1>1, ServedBegin, ServedContinue, ServedMaterializeLoop, ServedExecuteLoop,
     ServedShutDown, RestingStep DEF Next, Rests

(***************************************************************************)
(* The division, read along the pipeline.                                  *)
(***************************************************************************)
LEMMA ServedPipeline ==
    ASSUME TypeInv, Served
    PROVE  PendingHasTask
<1> DEFINE first == <<ex.task>>
<1>0. /\ ex.task \in ExecTask /\ execQ \in Seq(ExecTask) /\ mat.batch \in Seq(ExecTask)
  BY DEF TypeInv, TypeOK
<1>1. /\ first \in Seq(ExecTask) /\ DOMAIN first = {1} /\ first[1] = ex.task
  BY <1>0
<1>2. Outs(first) = ex.task.outs /\ Distinct(first)
  BY <1>1 DEF Outs, Distinct
<1> HIDE DEF first
<1> DEFINE front == first \o execQ
<1>3. front \in Seq(ExecTask) /\ Outs(front) = ex.task.outs \cup Outs(execQ) /\ Distinct(front)
  BY <1>0, <1>1, <1>2, OutsConcat DEF Served, Apart
<1> HIDE DEF front
<1>4. /\ Outs(front \o mat.batch) = ex.task.outs \cup Outs(execQ) \cup Outs(mat.batch)
      /\ Distinct(front \o mat.batch)
  <2>1. Outs(front) \cap Outs(mat.batch) = {} /\ Distinct(mat.batch)
    BY <1>3 DEF Served, Apart
  <2>2. Outs(front \o mat.batch) = Outs(front) \cup Outs(mat.batch) /\ Distinct(front \o mat.batch)
    BY <1>0, <1>3, <2>1, OutsConcat
  <2> QED BY <1>3, <2>2
<1>5. Pipeline = front \o mat.batch
  BY DEF Pipeline, front, first
<1>6. /\ Pending = Outs(Pipeline) \cup Pushed
      /\ Outs(Pipeline) \cap Pushed = {} /\ Distinct(Pipeline)
  BY <1>4, <1>5 DEF Served, Apart
<1> DEFINE Owned(i, b) == i \in DOMAIN Pipeline /\ b \in Pipeline[i].outs
           Claimed(t, b) == call[t].pc = "push" /\ call[t].out = b
<1>7. \A b : b \in Outs(Pipeline) <=> \E i \in DOMAIN Pipeline : Owned(i, b)
  BY DEF Outs
<1>8. \A b : b \in Pushed <=> \E t \in Threads : Claimed(t, b)
  BY DEF Pushed, Pushes
<1>9. \A b \in Buffers : state[b] = "pending" <=>
          (\E i \in DOMAIN Pipeline : Owned(i, b)) \/ (\E t \in Threads : Claimed(t, b))
  BY <1>6, <1>7, <1>8 DEF Pending
<1>10. \A b \in Buffers, i, j \in DOMAIN Pipeline : Owned(i, b) /\ Owned(j, b) => i = j
  BY <1>6 DEF Distinct
<1>11. \A b \in Buffers, t, u \in Threads : Claimed(t, b) /\ Claimed(u, b) => t = u
  BY DEF Served, OnePusher, Pushes
<1>12. \A b \in Buffers, i \in DOMAIN Pipeline, t \in Threads : ~(Owned(i, b) /\ Claimed(t, b))
  BY <1>6, <1>7, <1>8
<1> QED BY <1>9, <1>10, <1>11, <1>12 DEF PendingHasTask

\* Every pending buffer is the output of exactly one task that is running,
\* queued, built or about to be pushed, for any number of threads, buffers and
\* failures: no promise is forgotten, and none is set a second time.
THEOREM PendingBuffersAreServed == Spec => []PendingHasTask
<1> DEFINE IInv == TypeInv /\ Life /\ CallHasTask /\ ServedInv
<1>1. Init => IInv
  <2> SUFFICES ASSUME Init PROVE CallHasTask
    BY TypeInit, LifeInit, ServedInit
  <2> QED BY ThreadsAssumption DEF Init, CallHasTask, Idle, NoTask
<1>2. IInv /\ [Next]_vars => IInv'
  BY TypeNext, LifeNext, CallsNext, ServedNext
<1>3. IInv => PendingHasTask
  BY ServedPipeline DEF ServedInv
<1> QED BY <1>1, <1>2, <1>3, PTL DEF Spec

(***************************************************************************)
(* The promises behave as BufferFutures says.                              *)
(***************************************************************************)
FuturesStep == [Futures!Next]_<<Outcome, Closed>>

LEMMA OutcomeOf ==
    ASSUME TypeInv, NEW b \in Buffers
    PROVE  Outcome[b] = IF state[b] = "unborn" THEN "none"
                        ELSE IF state[b] \in Settled THEN state[b] ELSE "unset"
BY DEF Outcome, TypeInv, TypeOK, BuffersTypeOK, States, Settled

\* No promise is created or set.
LEMMA FuturesSame ==
    ASSUME TypeInv, TypeInv', \A b \in Buffers : Outcome'[b] = Outcome[b],
           Closed' = Closed
    PROVE  FuturesStep
BY DEF Outcome, FuturesStep

LEMMA FuturesCreate ==
    ASSUME TypeInv, TypeInv', Fresh, next \in Buffers, UNCHANGED closer,
           NEW s \in {"deferred", "pending"}, state' = [state EXCEPT ![next] = s]
    PROVE  FuturesStep
<1>0. state[next] = "unborn"
  BY MaxBuffersAssumption DEF Fresh, Born, Buffers
<1>1. \A b \in Buffers : state'[b] = IF b = next THEN s ELSE state[b]
  BY DEF TypeInv, TypeOK, BuffersTypeOK
<1>2. Outcome' = [Outcome EXCEPT ![next] = "unset"] /\ Outcome[next] = "none"
  BY <1>0, <1>1, OutcomeOf DEF Outcome
<1>3. Futures!Create(next)
  BY <1>2 DEF Futures!Create, Closed
<1> QED BY <1>3 DEF FuturesStep, Futures!Next

LEMMA FuturesSettle ==
    ASSUME TypeInv, TypeInv', NEW S \in SUBSET Buffers,
           \A b \in S : state[b] \in {"deferred", "pending"},
           NEW v \in Settled, Become(S, v), UNCHANGED closer, v = "ok" => ~Closed
    PROVE  FuturesStep
<1>1. \A b \in Buffers : state'[b] = IF b \in S THEN v ELSE state[b]
  BY BecomeStates DEF Settled
<1>2. Outcome' = [b \in Buffers |-> IF b \in S THEN v ELSE Outcome[b]]
  BY <1>1, OutcomeOf DEF Outcome, Settled
<1>3. \A b \in S : Outcome[b] = "unset"
  BY OutcomeOf DEF Settled
<1>4. Futures!Settle(S, v)
  BY <1>2, <1>3 DEF Futures!Settle, Closed, Settled
<1> QED BY <1>4 DEF FuturesStep, Futures!Next, Settled

LEMMA FuturesStutter ==
    ASSUME UNCHANGED <<state, closer>>
    PROVE  FuturesStep
BY DEF FuturesStep, Outcome, Closed

LEMMA FuturesBegin ==
    ASSUME TypeInv, TypeInv', ServedInv, NEW t \in Threads, Begin(t)
    PROVE  FuturesStep
<1>1. ASSUME NEW k \in Kinds, NEW ins \in SUBSET Buffers, CreateOp(t, k, ins)
      PROVE  FuturesStep
  BY <1>1, FuturesCreate DEF CreateOp, CreateDeferred, workerVars, ServedInv
<1>2. CASE ~\E k \in Kinds, ins \in SUBSET Buffers : CreateOp(t, k, ins)
  BY <1>2, FuturesStutter
  DEF Begin, DropTensor, ReadTensor, SyncStream, ExecuteModel, workerVars, bufferVars
<1> QED BY <1>1, <1>2

LEMMA FuturesContinue ==
    ASSUME TypeInv, TypeInv', ServedInv, NEW t \in Threads, Continue(t)
    PROVE  FuturesStep
<1>1. CASE CreateOutput(t)
  BY <1>1, FuturesCreate DEF CreateOutput, CreatePending, workerVars, ServedInv
<1>2. CASE PushExecutable(t)
  <2>1. CASE ShuttingDown
    <3>1. call[t].out \in Pending
      BY <1>2 DEF PushExecutable, At, ServedInv, Served, Pushed, Pushes
    <3>2. Become({call[t].out}, "error") /\ UNCHANGED closer
      BY <1>2, <2>1 DEF PushExecutable, SetAsError
    <3> QED BY <3>1, <3>2, FuturesSettle DEF Pending, Settled
  <2>2. CASE ~ShuttingDown
    BY <1>2, <2>2, FuturesStutter DEF PushExecutable
  <2> QED BY <2>1, <2>2
<1>3. CASE /\ ~CreateOutput(t) /\ ~PushExecutable(t)
  BY <1>3, FuturesStutter
  DEF Continue, RecordOp, DispatchPlain, DispatchRepeated, MakeTensor, Resume,
      AwaitBuffers, workerVars, bufferVars
<1> QED BY <1>1, <1>2, <1>3

LEMMA FuturesMaterializeLoop ==
    ASSUME TypeInv, TypeInv', ServedInv, MaterializeLoop
    PROVE  FuturesStep
<1>1. CASE BuildTask
  <2>1. \A b \in Outputs : b \in Buffers /\ state[b] = "deferred"
    BY <1>1 DEF BuildTask, Outputs, Nodes, IsDeferred
  <2>2. Become(Outputs, "pending") /\ UNCHANGED closer
    BY <1>1 DEF BuildTask, SetAsPendingMaterialization
  <2>3. \A b \in Buffers :
           state'[b] = IF b \in Outputs /\ state[b] \notin Settled THEN "pending" ELSE state[b]
    BY <2>2, BecomeStates
  <2>4. \A b \in Buffers : Outcome'[b] = Outcome[b]
    <3>1. \A b \in Buffers : Outcome'[b] = IF state'[b] = "unborn" THEN "none"
                      ELSE IF state'[b] \in Settled THEN state'[b] ELSE "unset"
      BY DEF Outcome, TypeInv, TypeOK, BuffersTypeOK, States, Settled
    <3> QED BY <2>1, <2>3, <3>1, OutcomeOf DEF Settled
  <2> QED BY <2>2, <2>4, FuturesSame DEF Closed
<1>2. CASE FailTraversal
  <2>1. Outputs \in SUBSET Buffers /\ \A b \in Outputs : state[b] = "deferred"
    BY <1>2 DEF FailTraversal, Outputs, Nodes, IsDeferred
  <2>2. Become(Outputs, "error") /\ UNCHANGED closer
    BY <1>2 DEF FailTraversal, SetAsError
  <2> QED BY <2>1, <2>2, FuturesSettle DEF Settled
<1>3. CASE AnswerTask /\ mat.task.kind = "nodes"
  <2> DEFINE S == {b \in mat.task.nodes : mat.err /\ ~IsMaterializing(b)}
  <2>1. Become(S, "error") /\ UNCHANGED closer
    BY <1>3 DEF AnswerTask, SetAsError
  <2>2. S \in SUBSET Buffers /\ \A b \in S : state[b] \in {"deferred", "pending"}
    BY NodesBorn
    DEF ServedInv, Born, IsMaterializing, TypeInv, TypeOK, BuffersTypeOK, States
  <2> HIDE DEF S
  <2> QED BY <2>1, <2>2, FuturesSettle DEF Settled
<1>4. CASE AnswerTask /\ mat.task.kind # "nodes"
  BY <1>4, FuturesStutter DEF AnswerTask
<1>5. CASE DequeueMaterializationTask \/ Prepare \/ AbortTraversal \/ PublishTasks
  BY <1>5, FuturesStutter
  DEF DequeueMaterializationTask, Prepare, AbortTraversal, PublishTasks, workerVars, bufferVars
<1> QED BY <1>1, <1>2, <1>3, <1>4, <1>5 DEF MaterializeLoop

LEMMA FuturesOthers ==
    ASSUME TypeInv, TypeInv', Life, ServedInv,
           ExecuteLoop \/ ShutDown \/ ContinueShutDown \/ UNCHANGED programVars
    PROVE  FuturesStep
<1> USE DEF bufferVars, CloserStep
<1>0. /\ ex.task.outs \in SUBSET Buffers
      /\ \A b \in ex.task.outs : state[b] \in {"deferred", "pending"}
  BY DEF ServedInv, Served, Pending
<1>1. CASE RunTask \/ FailTask
  <2>1. PICK S, s : Settles(S, s)
    BY <1>1, TaskSettles DEF ExType, TypeInv, TypeOK
  <2>2. /\ S \subseteq ex.task.outs /\ s \in Settled /\ Become(S, s) /\ UNCHANGED closer
        /\ s = "ok" => ex.pc = "run"
    BY <2>1 DEF Settles
  <2>3. s = "ok" => ~Closed
    BY <2>2 DEF Closed, Life, ExecClosing
  <2> QED BY <1>0, <2>2, <2>3, FuturesSettle
<1>e. ASSUME Become({}, "error") PROVE UNCHANGED state
  BY <1>e DEF Become, TypeInv, TypeOK, BuffersTypeOK
<1>3. CASE FailRemainingExecutionTasks
  <2>1. UNION {execQ[i].outs : i \in DOMAIN execQ} = {}
    BY <1>3 DEF FailRemainingExecutionTasks, Life, ExecClosing
  <2>2. UNCHANGED state /\ closer = "fail2" /\ closer' = "down"
    BY <1>3, <1>e, <2>1 DEF FailRemainingExecutionTasks, SetAsError
  <2>3. Futures!Close
    BY <2>2 DEF Futures!Close, Closed, Outcome
  <2> QED BY <2>3 DEF FuturesStep, Futures!Next
<1>4. CASE FailRemainingMaterializationTasks
  <2>1. UNION {matQ[i].nodes : i \in DOMAIN matQ} = {}
    BY <1>4 DEF FailRemainingMaterializationTasks, Life, MatClosing
  <2>2. UNCHANGED state /\ closer = "fail1" /\ closer' = "push2"
    BY <1>4, <1>e, <2>1 DEF FailRemainingMaterializationTasks, SetAsError
  <2> QED BY <2>2 DEF FuturesStep, Closed, Outcome
<1>5. CASE \/ ShutDown \/ PushMaterializeSentinel \/ JoinMaterializeThread
           \/ PushExecuteSentinel \/ JoinExecuteThread
  <2>1. UNCHANGED state /\ closer # "down" /\ closer' # "down"
    BY <1>5 DEF ShutDown, PushMaterializeSentinel, JoinMaterializeThread,
                PushExecuteSentinel, JoinExecuteThread
  <2> QED BY <2>1 DEF FuturesStep, Closed, Outcome
<1>6. CASE DequeueExecutionTask \/ UNCHANGED programVars
  BY <1>6, FuturesStutter DEF DequeueExecutionTask, programVars, workerVars
<1> QED
  BY <1>1, <1>3, <1>4, <1>5, <1>6 DEF ExecuteLoop, ContinueShutDown

\* The runtime implements BufferFutures for any number of threads, buffers and
\* failures: each promise is set once, and after the shutdown has returned no
\* buffer gets a result.
THEOREM RuntimeImplementsBufferFutures == Spec => ImplementsBufferFutures
<1> DEFINE IInv == TypeInv /\ Life /\ CallHasTask /\ ServedInv
<1>1. Init => IInv
  <2> SUFFICES ASSUME Init PROVE CallHasTask
    BY TypeInit, LifeInit, ServedInit
  <2> QED BY ThreadsAssumption DEF Init, CallHasTask, Idle, NoTask
<1>2. IInv /\ [Next]_vars => IInv'
  BY TypeNext, LifeNext, CallsNext, ServedNext
<1>3. Init => Futures!Init
  BY DEF Init, BuffersInit, Futures!Init, Outcome, Closed
<1>4. IInv /\ IInv' /\ [Next]_vars => FuturesStep
  BY FuturesBegin, FuturesContinue, FuturesMaterializeLoop, FuturesOthers, RestingStep
  DEF Next, Rests
<1> QED
  BY <1>1, <1>2, <1>3, <1>4, PTL DEF Spec, ImplementsBufferFutures, Futures!Spec, FuturesStep

(***************************************************************************)
(* What a step does to the states of the buffers.                          *)
(***************************************************************************)

\* Only the materialize thread takes the op of a deferred buffer, and only
\* BuildTask makes a buffer pending that exists already.
Moves ==
    /\ Grows
    /\ mat.pc \notin {"build", "answer"} => \A b \in Buffers : IsDeferred(b) => IsDeferred(b)'
    /\ \A b \in Buffers : state'[b] = "pending" /\ Born(b) /\ state[b] # "pending" =>
          BuildTask /\ IsDeferred(b)

LEMMA SettleMoves ==
    ASSUME TypeInv, NEW S, NEW s \in Settled, Become(S, s),
           mat.pc \in {"build", "answer"} \/ \A b \in S : ~IsDeferred(b)
    PROVE  Moves
<1>1. \A b \in Buffers :
          state'[b] = IF b \in S /\ state[b] \notin Settled THEN s ELSE state[b]
  BY BecomeStates
<1>2. Grows
  BY <1>1 DEF Grows, Born, IsMaterializing, Settled
<1>3. \A b \in Buffers : state'[b] = "pending" => state[b] = "pending"
  BY <1>1 DEF Settled
<1>4. mat.pc \notin {"build", "answer"} => \A b \in Buffers : IsDeferred(b) => IsDeferred(b)'
  BY <1>1 DEF IsDeferred
<1> QED BY <1>2, <1>3, <1>4 DEF Moves

LEMMA CreateMoves ==
    ASSUME TypeInv, Fresh, next \in Buffers, NEW s \in {"deferred", "pending"},
           state' = [state EXCEPT ![next] = s]
    PROVE  Moves
<1>0. state[next] = "unborn"
  BY MaxBuffersAssumption DEF Fresh, Born, Buffers
<1>1. \A b \in Buffers : state'[b] = IF b = next THEN s ELSE state[b]
  BY DEF TypeInv, TypeOK, BuffersTypeOK
<1>2. Grows
  BY <1>0, <1>1 DEF Grows, Born, IsMaterializing, Settled
<1> QED BY <1>0, <1>1, <1>2 DEF Moves, IsDeferred, Born

LEMMA StutterMoves ==
    ASSUME UNCHANGED state
    PROVE  Moves
BY DEF Moves, Grows, Born, IsMaterializing, IsDeferred

LEMMA StatesMove ==
    ASSUME TypeInv, Life, ServedInv, [Next]_vars
    PROVE  Moves
<1> USE DEF bufferVars, workerVars, CloserStep
<1>0. Served /\ Fresh
  BY DEF ServedInv
<1>p. \A b \in ex.task.outs \cup Pushed : b \in Buffers /\ ~IsDeferred(b)
  BY <1>0 DEF Served, Pending, IsDeferred
<1>1. ASSUME NEW t \in Threads, Begin(t) PROVE Moves
  <2>1. ASSUME NEW k \in Kinds, NEW ins \in SUBSET Buffers, CreateOp(t, k, ins)
        PROVE  Moves
    BY <1>0, <2>1, CreateMoves DEF CreateOp, CreateDeferred
  <2>2. CASE ~\E k \in Kinds, ins \in SUBSET Buffers : CreateOp(t, k, ins)
    BY <1>1, <2>2, StutterMoves
    DEF Begin, DropTensor, ReadTensor, SyncStream, ExecuteModel
  <2> QED BY <2>1, <2>2
<1>2. ASSUME NEW t \in Threads, Continue(t) PROVE Moves
  <2>1. CASE CreateOutput(t)
    BY <1>0, <2>1, CreateMoves DEF CreateOutput, CreatePending
  <2>2. CASE PushExecutable(t) /\ ShuttingDown
    <3>1. call[t].out \in Pushed
      BY <2>2 DEF PushExecutable, At, Pushed, Pushes
    <3> QED BY <1>p, <2>2, <3>1, SettleMoves DEF PushExecutable, SetAsError, Settled
  <2>3. CASE PushExecutable(t) /\ ~ShuttingDown
    BY <2>3, StutterMoves DEF PushExecutable
  <2>4. CASE ~CreateOutput(t) /\ ~PushExecutable(t)
    BY <1>2, <2>4, StutterMoves
    DEF Continue, RecordOp, DispatchPlain, DispatchRepeated, MakeTensor, Resume, AwaitBuffers
  <2> QED BY <2>1, <2>2, <2>3, <2>4
<1>3. ASSUME MaterializeLoop PROVE Moves
  <2>1. CASE BuildTask
    <3>1. mat.pc = "build" /\ Become(Outputs, "pending") /\ \A b \in Outputs : IsDeferred(b)
      BY <2>1 DEF BuildTask, SetAsPendingMaterialization, Outputs
    <3>2. \A b \in Buffers : state'[b] =
              IF b \in Outputs /\ state[b] \notin Settled THEN "pending" ELSE state[b]
      BY <3>1, BecomeStates
    <3>3. Grows
      BY <3>2 DEF Grows, Born, IsMaterializing, Settled
    <3> QED BY <2>1, <3>1, <3>2, <3>3 DEF Moves
  <2>2. CASE FailTraversal
    BY <2>2, SettleMoves DEF FailTraversal, SetAsError, Settled
  <2>3. CASE AnswerTask /\ mat.task.kind = "nodes"
    BY <2>3, SettleMoves DEF AnswerTask, SetAsError, Settled
  <2>4. CASE AnswerTask /\ mat.task.kind # "nodes"
    BY <2>4, StutterMoves DEF AnswerTask
  <2>5. CASE DequeueMaterializationTask \/ Prepare \/ AbortTraversal \/ PublishTasks
    BY <2>5, StutterMoves
    DEF DequeueMaterializationTask, Prepare, AbortTraversal, PublishTasks
  <2> QED BY <1>3, <2>1, <2>2, <2>3, <2>4, <2>5 DEF MaterializeLoop
<1>4. ASSUME ExecuteLoop PROVE Moves
  <2>1. CASE RunTask \/ FailTask
    <3>1. PICK S, s : Settles(S, s)
      BY <2>1, TaskSettles DEF ExType, TypeInv, TypeOK
    <3> QED BY <1>p, <3>1, SettleMoves DEF Settles
  <2>3. CASE DequeueExecutionTask
    BY <2>3, StutterMoves DEF DequeueExecutionTask
  <2> QED BY <1>4, <2>1, <2>3 DEF ExecuteLoop
<1>5. ASSUME ShutDown \/ ContinueShutDown PROVE Moves
  <2>1. CASE FailRemainingExecutionTasks
    <3>1. UNION {execQ[i].outs : i \in DOMAIN execQ} = {}
      BY <2>1 DEF FailRemainingExecutionTasks, Life, ExecClosing
    <3> QED BY <2>1, <3>1, SettleMoves DEF FailRemainingExecutionTasks, SetAsError, Settled
  <2>2. CASE FailRemainingMaterializationTasks
    <3>1. UNION {matQ[i].nodes : i \in DOMAIN matQ} = {}
      BY <2>2 DEF FailRemainingMaterializationTasks, Life, MatClosing
    <3> QED BY <2>2, <3>1, SettleMoves
        DEF FailRemainingMaterializationTasks, SetAsError, Settled
  <2>3. CASE \/ ShutDown \/ PushMaterializeSentinel \/ JoinMaterializeThread
             \/ PushExecuteSentinel \/ JoinExecuteThread
    BY <2>3, StutterMoves
    DEF ShutDown, PushMaterializeSentinel, JoinMaterializeThread, PushExecuteSentinel,
        JoinExecuteThread
  <2> QED BY <1>5, <2>1, <2>2, <2>3 DEF ContinueShutDown
<1>6. CASE UNCHANGED programVars
  BY <1>6, StutterMoves DEF programVars
<1> QED BY <1>1, <1>2, <1>3, <1>4, <1>5, <1>6, RestingStep DEF Next, Rests

(***************************************************************************)
(* The calls of the dispatch threads, and the op a lone thread dispatches. *)
(***************************************************************************)

\* Only the threads of the deployment make calls.
Outsiders == \A t \in Threads : t \notin deploy.threads => call[t].pc = "idle"

\* Only a deployment with compiled models has calls that execute one.
Models ==
    \A t \in Threads :
        call[t].pc \in {"create", "push"} \/ call[t].why = "execute" => deploy.executables

\* The arguments of an executable that is about to be pushed.
PushReady ==
    \A t \in Threads : Pushes(t) =>
        \A b \in call[t].nodes : IsMaterializing(b) /\ b # call[t].out

\* The op a lone thread has created and not dispatched yet.
KeepsOp ==
    Solo => \A t \in Threads : call[t].pc \in {"record", "dispatch"} => IsDeferred(call[t].out)

Callers == Outsiders /\ Models /\ PushReady /\ KeepsOp

\* A lone thread that does not wait finds the materialize thread at rest.
LEMMA SoloRest ==
    ASSUME TypeInv, Life, CallHasTask, Outsiders, Solo, NEW t \in Threads,
           t \in deploy.threads, ~Waits(t)
    PROVE  mat.pc \in {"idle", "stopped"}
<1>1. \A u \in Threads : ~Waits(u)
  BY DEF Solo, Outsiders, Waits
<1>2. mat.task.from \notin Threads
  BY <1>1 DEF CallHasTask, Waits
<1>3. mat.task.from = NoThread
  BY <1>2 DEF TypeInv, TypeOK, MatTask
<1> QED BY <1>3 DEF Life, Shapes

\* A thread of the deployment moves on to call c.
LEMMA CallerGoes ==
    ASSUME TypeInv, Life, CallHasTask, Callers, Moves, UNCHANGED deploy,
           NEW t \in Threads, t \in deploy.threads, NEW c, Go(t, c),
           c.pc = "create" \/ c.why = "execute" => deploy.executables,
           c.pc = "push" => /\ call[t].pc = "create"
                            /\ \A b \in c.nodes : b \in Buffers /\ IsMaterializing(b) /\ b # c.out,
           c.pc \in {"record", "dispatch"} =>
               \/ state'[c.out] = "deferred"
               \/ call[t].pc \in {"record", "dispatch"} /\ c.out = call[t].out
    PROVE  Callers'
<1>1. \A u \in Threads : call'[u] = IF u = t THEN c ELSE call[u]
  BY DEF Go, TypeInv, CallsType
<1>2. Outsiders'
  BY <1>1 DEF Callers, Outsiders
<1>3. Models'
  BY <1>1 DEF Callers, Models
<1>4. PushReady'
  BY <1>1 DEF Callers, PushReady, Pushes, Moves, Grows, TypeInv, CallsType, CallType
<1>5. KeepsOp'
  <2> SUFFICES ASSUME Solo', NEW u \in Threads, call'[u].pc \in {"record", "dispatch"}
               PROVE  state'[call'[u].out] = "deferred"
    BY DEF KeepsOp, IsDeferred
  <2>1. Solo
    BY DEF Solo
  <2>2. u = t
    BY <1>1, <2>1 DEF Callers, Outsiders, Solo
  <2>3. CASE state'[c.out] = "deferred"
    BY <1>1, <2>2, <2>3
  <2>4. CASE call[t].pc \in {"record", "dispatch"} /\ c.out = call[t].out
    <3>1. IsDeferred(c.out) /\ c.out \in Buffers
      BY <2>1, <2>4 DEF Callers, KeepsOp, TypeInv, CallsType, CallType
    <3>2. mat.pc \in {"idle", "stopped"}
      BY <2>1, <2>4, SoloRest DEF Callers, Waits
    <3> QED BY <1>1, <2>2, <3>1, <3>2 DEF Moves, IsDeferred
  <2> QED BY <1>1, <2>2, <2>3, <2>4
<1> QED BY <1>2, <1>3, <1>4, <1>5 DEF Callers

\* A step that changes no call, apart from answering one that waits.
LEMMA CallersKept ==
    ASSUME TypeInv, Life, CallHasTask, Callers, Moves, UNCHANGED deploy,
           \A t \in Threads : \/ call'[t] = call[t]
                              \/ /\ Waits(t) /\ call'[t].pc = "answered"
                                 /\ call'[t].why = call[t].why
    PROVE  Callers'
<1>2. Outsiders'
  BY DEF Callers, Outsiders, Waits
<1>3. Models'
  BY DEF Callers, Models
<1>4. PushReady'
  BY DEF Callers, PushReady, Pushes, Moves, Grows, TypeInv, CallsType, CallType
<1>5. KeepsOp'
  <2> SUFFICES ASSUME Solo', NEW u \in Threads, call'[u].pc \in {"record", "dispatch"}
               PROVE  state'[call'[u].out] = "deferred"
    BY DEF KeepsOp, IsDeferred
  <2>1. Solo /\ call'[u] = call[u]
    BY DEF Solo
  <2>2. u \in deploy.threads /\ ~Waits(u)
    BY <2>1 DEF Callers, Outsiders, Waits
  <2>3. IsDeferred(call[u].out) /\ call[u].out \in Buffers
    BY <2>1 DEF Callers, KeepsOp, TypeInv, CallsType, CallType
  <2>4. mat.pc \in {"idle", "stopped"}
    BY <2>1, <2>2, SoloRest DEF Callers
  <2> QED BY <2>1, <2>3, <2>4 DEF Moves, IsDeferred
<1> QED BY <1>2, <1>3, <1>4, <1>5 DEF Callers

\* MaterializeImpl ends the call, makes it wait or lets it go on at pc.
LEMMA MaterializeGoes ==
    ASSUME NEW t \in Threads, NEW c \in CallType, NEW mode, NEW pc,
           Materialize(t, c, mode, pc)
    PROVE  \E d : /\ Go(t, d) /\ d.pc \in {"idle", "wait", pc}
                  /\ d.why \in {"none", c.why}
<1>1. \/ Go(t, Idle)
      \/ Go(t, [c EXCEPT !.pc = pc])
      \/ Go(t, [c EXCEPT !.pc = "wait"])
  BY DEF Materialize, Enqueue
<1>2. Idle.pc = "idle" /\ Idle.why = "none"
  BY DEF Idle
<1>3. \A p : [c EXCEPT !.pc = p].pc = p /\ [c EXCEPT !.pc = p].why = c.why
  BY DEF CallType
<1> QED BY <1>1, <1>2, <1>3

LEMMA CallersBegin ==
    ASSUME TypeInv, Life, CallHasTask, Callers, Moves, NEW t \in Threads, Begin(t)
    PROVE  Callers'
<1> USE DEF workerVars, bufferVars
<1>0. /\ t \in deploy.threads /\ UNCHANGED deploy
      /\ Idle.pc = "idle" /\ Idle.why = "none"
  BY DEF Begin, CreateOp, DropTensor, ReadTensor, SyncStream, ExecuteModel, At, Idle
<1>1. ASSUME NEW k \in Kinds, NEW ins \in SUBSET Buffers, CreateOp(t, k, ins)
      PROVE  Callers'
  <2> DEFINE c == [Idle EXCEPT !.pc = "record", !.out = next]
  <2>1. Go(t, c) /\ c.pc = "record" /\ c.why = "none" /\ c.out = next
    BY <1>1 DEF CreateOp, Idle
  <2>2. state'[c.out] = "deferred"
    BY <1>1, <2>1 DEF CreateOp, CreateDeferred, TypeInv, TypeOK, BuffersTypeOK
  <2> HIDE DEF c
  <2> QED BY <1>0, <2>1, <2>2, CallerGoes
<1>2. ASSUME NEW b \in Buffers, DropTensor(t, b)
      PROVE  Callers'
  BY <1>0, <1>2, CallersKept DEF DropTensor
<1>3. ASSUME NEW b \in Buffers, ReadTensor(t, b)
      PROVE  Callers'
  <2> DEFINE c == [Idle EXCEPT !.nodes = {b}, !.why = "read"]
  <2>1. c \in CallType /\ c.why = "read" /\ Materialize(t, c, "split", "read")
    BY <1>3 DEF ReadTensor, Idle, CallType, CallPCs, Purposes, NoBuffer
  <2> HIDE DEF c
  <2>2. PICK d : Go(t, d) /\ d.pc \in {"idle", "wait", "read"} /\ d.why \in {"none", "read"}
    BY <2>1, MaterializeGoes
  <2> QED BY <1>0, <2>2, CallerGoes
<1>4. ASSUME SyncStream(t)
      PROVE  Callers'
  <2> DEFINE c == [Idle EXCEPT !.nodes = {b \in live : ~IsConstant(b)}, !.why = "sync"]
             d == [c EXCEPT !.pc = "wait"]
  <2>1. (Go(t, Idle) \/ Go(t, d)) /\ d.pc = "wait" /\ d.why = "sync"
    BY <1>4 DEF SyncStream, Enqueue, Idle
  <2> HIDE DEF d
  <2> QED BY <1>0, <2>1, CallerGoes
<1>5. ASSUME NEW args \in SUBSET Buffers, ExecuteModel(t, args)
      PROVE  Callers'
  <2> DEFINE c == [Idle EXCEPT !.nodes = args, !.why = "execute"]
  <2>1. /\ c \in CallType /\ c.why = "execute" /\ Materialize(t, c, "split", "create")
        /\ deploy.executables
    BY <1>5 DEF ExecuteModel, Idle, CallType, CallPCs, Purposes, NoBuffer
  <2> HIDE DEF c
  <2>2. PICK d : Go(t, d) /\ d.pc \in {"idle", "wait", "create"} /\ d.why \in {"none", "execute"}
    BY <2>1, MaterializeGoes
  <2> QED BY <1>0, <2>1, <2>2, CallerGoes
<1> QED BY <1>1, <1>2, <1>3, <1>4, <1>5 DEF Begin

LEMMA CallersContinue ==
    ASSUME TypeInv, Life, CallHasTask, ServedInv, Callers, Moves, NEW t \in Threads,
           Continue(t)
    PROVE  Callers'
<1> USE DEF workerVars, bufferVars
<1>0. /\ t \in deploy.threads /\ UNCHANGED deploy
      /\ Idle.pc = "idle" /\ Idle.why = "none" /\ call[t] \in CallType
      /\ call[t].pc \in {"create", "push"} \/ call[t].why = "execute" => deploy.executables
  BY DEF Continue, RecordOp, DispatchPlain, DispatchRepeated, MakeTensor, Resume,
         AwaitBuffers, CreateOutput, PushExecutable, At, Idle, TypeInv, CallsType,
         Callers, Models
<1>b. /\ [Idle EXCEPT !.pc = "tensor", !.out = call[t].out].pc = "tensor"
      /\ [Idle EXCEPT !.pc = "tensor", !.out = call[t].out].why = "none"
  BY DEF Idle
<1>c. \A pc : /\ [call[t] EXCEPT !.pc = pc].pc = pc
              /\ [call[t] EXCEPT !.pc = pc].why = call[t].why
              /\ [call[t] EXCEPT !.pc = pc].out = call[t].out
  BY <1>0 DEF CallType
<1>i. CASE Go(t, Idle)
  BY <1>0, <1>i, CallerGoes
<1>t. CASE GoMakeTensor(t)
  BY <1>0, <1>b, <1>t, CallerGoes DEF GoMakeTensor
<1>1. CASE RecordOp(t)
  BY <1>0, <1>1, <1>c, CallerGoes DEF RecordOp, Step, At
<1>2. CASE DispatchRepeated(t)
  <2>1. CASE IsDeferred(call[t].out)
    <3> DEFINE c == [call[t] EXCEPT !.nodes = {call[t].out}, !.why = "heuristic"]
    <3>1. c \in CallType /\ c.why = "heuristic" /\ Materialize(t, c, deploy.mode, "tensor")
      BY <1>0, <1>2, <2>1 DEF DispatchRepeated, At, CallType, Purposes
    <3> HIDE DEF c
    <3>2. PICK d : /\ Go(t, d) /\ d.pc \in {"idle", "wait", "tensor"}
                   /\ d.why \in {"none", "heuristic"}
      BY <3>1, MaterializeGoes
    <3> QED BY <1>0, <3>2, CallerGoes
  <2>2. CASE ~IsDeferred(call[t].out)
    BY <1>0, <1>2, <2>2, CallersKept DEF DispatchRepeated
  <2> QED BY <2>1, <2>2
<1>3. CASE Step(t, "read") \/ Step(t, "sync")
  BY <1>0, <1>3, <1>c, CallerGoes DEF Step
<1>4. CASE Step(t, "create") /\ call[t].why = "execute"
  BY <1>0, <1>4, <1>c, CallerGoes DEF Step
<1>5. CASE CreateOutput(t)
  <2> DEFINE c == [call[t] EXCEPT !.pc = "push", !.out = next]
  <2>1. c.pc = "push" /\ c.out = next /\ c.why = call[t].why /\ c.nodes = call[t].nodes
    BY <1>0 DEF CallType
  <2>2. (Go(t, c) /\ \A b \in call[t].nodes : IsMaterializing(b)) \/ Go(t, Idle)
    BY <1>5 DEF CreateOutput
  <2>3. state[next] = "unborn" /\ call[t].pc = "create"
    BY <1>5, MaxBuffersAssumption
    DEF CreateOutput, CreatePending, At, ServedInv, Fresh, Born, Buffers
  <2>4. \A b \in call[t].nodes : b \in Buffers /\ (IsMaterializing(b) => b # next)
    BY <1>0, <2>3 DEF CallType, IsMaterializing, Settled
  <2> HIDE DEF c
  <2> QED BY <1>0, <1>i, <2>1, <2>2, <2>3, <2>4, CallerGoes
<1>6. CASE DispatchPlain(t) \/ MakeTensor(t) \/ AwaitBuffers(t) \/ PushExecutable(t)
  BY <1>6, <1>i, <1>t DEF DispatchPlain, MakeTensor, AwaitBuffers, PushExecutable
<1>7. CASE Resume(t)
  BY <1>7, <1>i, <1>t, <1>3, <1>4 DEF Resume
<1> QED BY <1>1, <1>2, <1>5, <1>6, <1>7 DEF Continue

LEMMA CallersOthers ==
    ASSUME TypeInv, Life, CallHasTask, Callers, Moves,
           MaterializeLoop \/ ExecuteLoop \/ ShutDown \/ ContinueShutDown \/ UNCHANGED programVars
    PROVE  Callers'
<1> USE DEF workerVars, bufferVars
<1>0. UNCHANGED deploy
  BY DEF programVars, MaterializeLoop, DequeueMaterializationTask, Prepare, BuildTask, FailTraversal,
         AbortTraversal, PublishTasks, AnswerTask, ExecuteLoop, DequeueExecutionTask,
         RunTask, FailTask, ShutDown, ContinueShutDown, PushMaterializeSentinel,
         JoinMaterializeThread, FailRemainingMaterializationTasks, PushExecuteSentinel,
         JoinExecuteThread, FailRemainingExecutionTasks
<1>1. CASE AnswerTask
  <2> DEFINE t == mat.task.from
  <2>1. t \in Threads
    BY <1>1 DEF AnswerTask, Life, Shapes, TypeInv, TypeOK, MatTask
  <2>2. PICK ok, nodes : Answer(t, ok, nodes)
    BY <1>1 DEF AnswerTask
  <2>3. /\ \A u \in Threads : u # t => call'[u] = call[u]
        /\ call'[t].pc = "answered" /\ call'[t].why = call[t].why
    BY <2>1, <2>2 DEF Answer, TypeInv, CallsType, CallType
  <2>4. Waits(t)
    BY <2>1 DEF CallHasTask, Waits
  <2> HIDE DEF t
  <2> QED BY <1>0, <2>3, <2>4, CallersKept
<1>2. CASE FailRemainingMaterializationTasks
  <2>1. matQ = <<>>
    BY <1>2 DEF FailRemainingMaterializationTasks, CloserStep, Life, MatClosing
  <2>2. \A t \in Threads : call'[t] = call[t]
    BY <1>2, <2>1 DEF FailRemainingMaterializationTasks
  <2> QED BY <1>0, <2>2, CallersKept
<1>3. CASE UNCHANGED call
  BY <1>0, <1>3, CallersKept
<1> QED
  BY <1>1, <1>2, <1>3
  DEF programVars, MaterializeLoop, DequeueMaterializationTask, Prepare, BuildTask, FailTraversal,
      AbortTraversal, PublishTasks, ExecuteLoop, DequeueExecutionTask, RunTask, FailTask,
      ShutDown, ContinueShutDown, PushMaterializeSentinel, JoinMaterializeThread,
      PushExecuteSentinel, JoinExecuteThread, FailRemainingExecutionTasks

LEMMA CallersNext ==
    TypeInv /\ Life /\ CallHasTask /\ ServedInv /\ Callers /\ [Next]_vars => Callers'
<1> SUFFICES ASSUME TypeInv, Life, CallHasTask, ServedInv, Callers, [Next]_vars
             PROVE  Callers'
  OBVIOUS
<1>1. Moves
  BY StatesMove
<1>2. \/ \E t \in Threads : Begin(t) \/ Continue(t)
      \/ MaterializeLoop \/ ExecuteLoop \/ ShutDown \/ ContinueShutDown \/ UNCHANGED programVars
  BY RestingStep DEF Next, Rests
<1> QED BY <1>1, <1>2, CallersBegin, CallersContinue, CallersOthers

\* No call has begun.
LEMMA CallersInit == Init => Callers
BY DEF Init, Callers, Outsiders, Models, PushReady, KeepsOp, Pushes, Idle

\* A thread that dispatches alone never fails the check of the heuristic: no
\* other thread's task can consume the op between its creation and its
\* dispatch.
THEOREM SoloThreadKeepsItsOp == Spec => []SoloKeepsItsOp
<1> DEFINE IInv == TypeInv /\ Life /\ CallHasTask /\ ServedInv /\ Callers /\ SoloKeepsItsOp
<1>1. Init => IInv
  <2> SUFFICES ASSUME Init PROVE CallHasTask /\ SoloKeepsItsOp
    BY TypeInit, LifeInit, ServedInit, CallersInit
  <2> QED BY ThreadsAssumption DEF Init, CallHasTask, Idle, NoTask, SoloKeepsItsOp
<1>2. TypeInv /\ Callers /\ SoloKeepsItsOp /\ [Next]_vars => SoloKeepsItsOp'
  <2> SUFFICES ASSUME TypeInv, Callers, SoloKeepsItsOp, [Next]_vars, Solo',
                      crashed' = "heuristic"
               PROVE  FALSE
    BY DEF SoloKeepsItsOp
  <2> USE DEF workerVars, bufferVars
  <2>0. UNCHANGED deploy
    BY RestingStep
    DEF Next, Rests, programVars, Begin, CreateOp, DropTensor, ReadTensor, SyncStream, ExecuteModel,
           Continue, RecordOp, DispatchPlain, DispatchRepeated, MakeTensor, Resume,
           AwaitBuffers, CreateOutput, PushExecutable, MaterializeLoop,
           DequeueMaterializationTask, Prepare, BuildTask, FailTraversal, AbortTraversal,
           PublishTasks, AnswerTask, ExecuteLoop, DequeueExecutionTask, RunTask, FailTask,
           ShutDown, ContinueShutDown, PushMaterializeSentinel, JoinMaterializeThread,
           FailRemainingMaterializationTasks, PushExecuteSentinel, JoinExecuteThread,
           FailRemainingExecutionTasks
  <2>1. Solo /\ crashed # "heuristic"
    BY <2>0 DEF Solo, SoloKeepsItsOp
  <2>2. PICK t \in Threads : DispatchRepeated(t) /\ ~IsDeferred(call[t].out)
    BY <2>1, RestingStep
    DEF Next, Rests, programVars, Begin, CreateOp, DropTensor, ReadTensor, SyncStream, ExecuteModel,
        Continue, RecordOp, DispatchPlain, DispatchRepeated, MakeTensor, Resume,
        AwaitBuffers, CreateOutput, PushExecutable, MaterializeLoop,
        DequeueMaterializationTask, Prepare, BuildTask, FailTraversal, AbortTraversal,
        PublishTasks, AnswerTask, ExecuteLoop, DequeueExecutionTask, RunTask, FailTask,
        ShutDown, ContinueShutDown, PushMaterializeSentinel, JoinMaterializeThread,
        FailRemainingMaterializationTasks, PushExecuteSentinel, JoinExecuteThread,
        FailRemainingExecutionTasks
  <2> QED BY <2>1, <2>2 DEF DispatchRepeated, At, Callers, KeepsOp
<1>3. IInv /\ [Next]_vars => IInv'
  BY <1>2, TypeNext, LifeNext, CallsNext, ServedNext, CallersNext
<1> QED BY <1>1, <1>3, PTL DEF Spec

(***************************************************************************)
(* The pipeline: no task waits for one behind it.                          *)
(***************************************************************************)

\* The arguments of each task of q are settled or outputs of earlier tasks,
\* when the buffers have states s.
Ready == {"pending"} \cup Settled
Forward(q, s) ==
    \A i \in DOMAIN q : \A b \in q[i].args :
        /\ s[b] \in Ready
        /\ s[b] = "pending" => \E j \in 1..(i - 1) : b \in q[j].outs

\* No buffer becomes pending that was not.
LEMMA ForwardSame ==
    ASSUME NEW q \in Seq(ExecTask), NEW s, NEW z, Forward(q, s),
           \A b \in Buffers : s[b] \in Ready =>
               z[b] \in Ready /\ (z[b] = "pending" => s[b] = "pending")
    PROVE  Forward(q, z)
<1> SUFFICES ASSUME NEW i \in DOMAIN q, NEW b \in q[i].args
             PROVE  /\ z[b] \in Ready
                    /\ z[b] = "pending" => \E j \in 1..(i - 1) : b \in q[j].outs
  BY DEF Forward
<1>1. b \in Buffers
  <2>1. q[i] \in ExecTask
    OBVIOUS
  <2> QED BY <2>1 DEF ExecTask
<1>2. s[b] \in Ready /\ (s[b] = "pending" => \E j \in 1..(i - 1) : b \in q[j].outs)
  BY DEF Forward
<1> QED BY <1>1, <1>2

\* A task is added whose pending arguments have tasks.
LEMMA ForwardAppend ==
    ASSUME NEW q \in Seq(ExecTask), NEW k \in ExecTask, NEW s, Forward(q, s),
           \A b \in k.args : s[b] \in Ready /\ (s[b] = "pending" => b \in Outs(q))
    PROVE  Forward(Append(q, k), s)
<1> DEFINE r == Append(q, k)
           n == Len(q) + 1
<1>1. /\ DOMAIN r = DOMAIN q \cup {n} /\ n \in Nat /\ DOMAIN q = 1..(n - 1)
      /\ \A i \in DOMAIN q : r[i] = q[i]
      /\ r[n] = k
  OBVIOUS
<1> HIDE DEF r, n
<1> SUFFICES ASSUME NEW i \in DOMAIN r, NEW b \in r[i].args
             PROVE  /\ s[b] \in Ready
                    /\ s[b] = "pending" => \E j \in 1..(i - 1) : b \in r[j].outs
  BY DEF Forward, r
<1>2. CASE i \in DOMAIN q
  <2>1. s[b] \in Ready /\ (s[b] = "pending" => \E j \in 1..(i - 1) : b \in q[j].outs)
    BY <1>1, <1>2 DEF Forward
  <2>2. \A j \in 1..(i - 1) : r[j] = q[j]
    BY <1>1, <1>2
  <2> QED BY <2>1, <2>2
<1>3. CASE i = n
  <2>1. s[b] \in Ready /\ (s[b] = "pending" => b \in Outs(q))
    BY <1>1, <1>3
  <2>2. ASSUME s[b] = "pending" PROVE \E j \in 1..(i - 1) : b \in r[j].outs
    <3>1. PICK j \in DOMAIN q : b \in q[j].outs
      BY <2>1, <2>2 DEF Outs
    <3> QED BY <1>1, <1>3, <3>1
  <2> QED BY <2>1, <2>2
<1> QED BY <1>1, <1>2, <1>3

\* A task that has no outputs leaves the sequence.
LEMMA ForwardDrop ==
    ASSUME NEW q \in Seq(ExecTask), NEW n \in 1..Len(q), NEW s, Forward(q, s),
           q[n].outs = {}, NEW r \in Seq(ExecTask), Len(r) = Len(q) - 1,
           \A i \in 1..Len(r) : r[i] = IF i < n THEN q[i] ELSE q[i + 1]
    PROVE  Forward(r, s)
<1> SUFFICES ASSUME NEW i \in 1..Len(r), NEW b \in r[i].args
             PROVE  /\ s[b] \in Ready
                    /\ s[b] = "pending" => \E j \in 1..(i - 1) : b \in r[j].outs
  BY DEF Forward
<1> DEFINE m == IF i < n THEN i ELSE i + 1
<1>1. m \in DOMAIN q /\ r[i] = q[m] /\ m \in Nat /\ n \in Nat /\ i \in Nat
  OBVIOUS
<1>2. s[b] \in Ready /\ (s[b] = "pending" => \E j \in 1..(m - 1) : b \in q[j].outs)
  BY <1>1 DEF Forward
<1>3. ASSUME s[b] = "pending" PROVE \E j \in 1..(i - 1) : b \in r[j].outs
  <2>1. PICK j \in 1..(m - 1) : b \in q[j].outs
    BY <1>2, <1>3
  <2>2. j # n
    BY <2>1
  <2>3. CASE j < n
    <3>1. j \in 1..(i - 1) /\ r[j] = q[j]
      BY <1>1, <2>3
    <3> QED BY <2>1, <3>1
  <2>4. CASE j > n
    <3>1. j - 1 \in 1..(i - 1) /\ j - 1 \in 1..Len(r) /\ r[j - 1] = q[j]
      BY <1>1, <2>4
    <3> QED BY <2>1, <3>1
  <2>5. j < n \/ j > n
    BY <1>1, <2>2
  <2> QED BY <2>3, <2>4, <2>5
<1> QED BY <1>2, <1>3

\* The task in front goes on or is done: it waits for nothing it did not wait
\* for, and the outputs it no longer owns are settled.
LEMMA ForwardDone ==
    ASSUME NEW q \in Seq(ExecTask), NEW s, Forward(q, s), q # <<>>,
           NEW r \in Seq(ExecTask), Len(r) = Len(q), r[1].args \subseteq q[1].args,
           \A b \in q[1].outs : s[b] = "pending" => b \in r[1].outs,
           \A i \in 2..Len(q) : r[i] = q[i]
    PROVE  Forward(r, s)
<1>0. 1 \in DOMAIN q /\ DOMAIN r = 1..Len(q) /\ DOMAIN q = 1..Len(q)
  OBVIOUS
<1>1. ASSUME NEW i \in 2..Len(q), NEW b \in q[i].args
      PROVE  /\ s[b] \in Ready
             /\ s[b] = "pending" => \E j \in 1..(i - 1) : b \in r[j].outs
  <2>1. s[b] \in Ready /\ (s[b] = "pending" => \E j \in 1..(i - 1) : b \in q[j].outs)
    BY <1>0, <1>1 DEF Forward
  <2>2. ASSUME s[b] = "pending" PROVE \E j \in 1..(i - 1) : b \in r[j].outs
    <3>1. PICK j \in 1..(i - 1) : b \in q[j].outs
      BY <2>1, <2>2
    <3>2. CASE j = 1
      BY <2>2, <3>1, <3>2
    <3>3. CASE j # 1
      <4>1. r[j] = q[j]
        BY <3>3
      <4> QED BY <3>1, <4>1
    <3> QED BY <3>2, <3>3
  <2> QED BY <2>1, <2>2
<1>2. \A b \in r[1].args : s[b] \in Ready /\ s[b] # "pending"
  <2>1. \A b \in q[1].args : s[b] \in Ready /\ s[b] # "pending"
    BY <1>0 DEF Forward
  <2> QED BY <2>1
<1>3. ASSUME NEW i \in DOMAIN r, NEW b \in r[i].args
      PROVE  /\ s[b] \in Ready
             /\ s[b] = "pending" => \E j \in 1..(i - 1) : b \in r[j].outs
  <2>1. CASE i = 1
    BY <1>2, <1>3, <2>1
  <2>2. CASE i # 1
    <3>1. i \in 2..Len(q) /\ b \in q[i].args
      BY <1>0, <1>3, <2>2
    <3> QED BY <1>1, <3>1
  <2> QED BY <2>1, <2>2
<1> QED BY <1>3 DEF Forward

(***************************************************************************)
(* The three parts of the pipeline.                                        *)
(***************************************************************************)
Joined(e, q, r) == <<e>> \o q \o r

LEMMA JoinedParts ==
    ASSUME NEW e \in ExecTask, NEW q \in Seq(ExecTask), NEW r \in Seq(ExecTask)
    PROVE  /\ Joined(e, q, r) \in Seq(ExecTask)
           /\ Len(Joined(e, q, r)) = 1 + Len(q) + Len(r)
           /\ \A i \in 1..(1 + Len(q) + Len(r)) :
                 Joined(e, q, r)[i] = IF i = 1 THEN e
                                      ELSE IF i <= 1 + Len(q) THEN q[i - 1]
                                      ELSE r[i - 1 - Len(q)]
<1> DEFINE f == <<e>>
           g == f \o q
           h == g \o r
<1>0. \A u, v \in Seq(ExecTask) :
          /\ u \o v \in Seq(ExecTask) /\ Len(u \o v) = Len(u) + Len(v)
          /\ \A i \in 1..(Len(u) + Len(v)) :
                (u \o v)[i] = IF i <= Len(u) THEN u[i] ELSE v[i - Len(u)]
  BY ConcatProperties
<1>1. f \in Seq(ExecTask) /\ Len(f) = 1 /\ f[1] = e
  OBVIOUS
<1> HIDE DEF f
<1>2. /\ g \in Seq(ExecTask) /\ Len(g) = 1 + Len(q)
      /\ \A i \in 1..(1 + Len(q)) : g[i] = IF i <= 1 THEN f[i] ELSE q[i - 1]
  <2>1. /\ g \in Seq(ExecTask) /\ Len(g) = Len(f) + Len(q)
        /\ \A i \in 1..(Len(f) + Len(q)) : g[i] = IF i <= Len(f) THEN f[i] ELSE q[i - Len(f)]
    BY <1>0, <1>1
  <2> HIDE DEF g
  <2> QED BY <1>1, <2>1
<1> HIDE DEF g
<1>3. /\ h \in Seq(ExecTask) /\ Len(h) = Len(g) + Len(r)
      /\ \A i \in 1..(Len(g) + Len(r)) : h[i] = IF i <= Len(g) THEN g[i] ELSE r[i - Len(g)]
  BY <1>0, <1>2
<1> HIDE DEF h
<1>4. Len(q) \in Nat /\ Len(r) \in Nat
  OBVIOUS
<1>5. \A i \in 1..(1 + Len(q) + Len(r)) :
          h[i] = IF i = 1 THEN e ELSE IF i <= 1 + Len(q) THEN q[i - 1] ELSE r[i - 1 - Len(q)]
  BY <1>1, <1>2, <1>3, <1>4
<1>6. Joined(e, q, r) = h
  BY DEF Joined, f, g, h
<1> QED BY <1>2, <1>3, <1>5, <1>6

LEMMA TasksAssociate ==
    \A u, v, w \in Seq(ExecTask) : (u \o v) \o w = u \o (v \o w)
<1> DEFINE S == Seq(ExecTask)
<1> SUFFICES ASSUME NEW u \in S, NEW v \in S, NEW w \in S
             PROVE  (u \o v) \o w = u \o (v \o w)
  OBVIOUS
<1> QED BY ConcatAssociative

\* A task joins the end of the queue or of what is built.
LEMMA JoinedAppend ==
    ASSUME NEW e \in ExecTask, NEW q \in Seq(ExecTask), NEW r \in Seq(ExecTask),
           NEW k \in ExecTask
    PROVE  /\ Joined(e, q, Append(r, k)) = Append(Joined(e, q, r), k)
           /\ Joined(e, Append(q, k), <<>>) = Append(Joined(e, q, <<>>), k)
<1>4. \A u, v, w \in Seq(ExecTask) : (u \o v) \o w = u \o (v \o w)
  BY TasksAssociate
<1> DEFINE f == <<e>>
           l == <<k>>
           none == <<>>
<1>1. f \in Seq(ExecTask) /\ l \in Seq(ExecTask) /\ none \in Seq(ExecTask)
  OBVIOUS
<1>2. \A u \in Seq(ExecTask) : Append(u, k) = u \o l
  BY AppendIsConcat
<1> HIDE DEF f, l, none
<1>3. \A u, v \in Seq(ExecTask) : u \o v \in Seq(ExecTask)
  BY ConcatProperties
<1>5. \A u \in Seq(ExecTask) : u \o none = u
  BY ConcatEmptySeq DEF none
<1>6. (f \o q) \o (r \o l) = ((f \o q) \o r) \o l
  <2>1. f \o q \in Seq(ExecTask)
    BY <1>1, <1>3
  <2> QED BY <1>1, <1>4, <2>1, Zenon
<1>7. (f \o (q \o l)) \o none = ((f \o q) \o none) \o l
  <2>1. (f \o (q \o l)) \o none = f \o (q \o l)
    BY <1>1, <1>3, <1>5
  <2>2. (f \o q) \o none = f \o q
    BY <1>1, <1>3, <1>5
  <2>3. f \o (q \o l) = (f \o q) \o l
    BY <1>1, <1>4, Zenon
  <2> QED BY <2>1, <2>2, <2>3
<1>8. Joined(e, q, Append(r, k)) = Append(Joined(e, q, r), k)
  BY <1>1, <1>2, <1>3, <1>6 DEF Joined, f
<1>9. Joined(e, Append(q, k), none) = Append(Joined(e, q, none), k)
  BY <1>1, <1>2, <1>3, <1>7 DEF Joined, f
<1> QED BY <1>8, <1>9 DEF none

\* What was built is published.
LEMMA JoinedPublish ==
    ASSUME NEW e \in ExecTask, NEW q \in Seq(ExecTask), NEW r \in Seq(ExecTask)
    PROVE  Joined(e, q \o r, <<>>) = Joined(e, q, r)
<1>1. \A u, v, w \in Seq(ExecTask) : (u \o v) \o w = u \o (v \o w)
  BY TasksAssociate
<1>2. \A u \in Seq(ExecTask) : u \o <<>> = u
  BY ConcatEmptySeq
<1>3. <<e>> \in Seq(ExecTask) /\ q \o r \in Seq(ExecTask)
  BY ConcatProperties
<1>4. <<e>> \o (q \o r) \in Seq(ExecTask)
  BY <1>3, ConcatProperties
<1> QED BY <1>1, <1>2, <1>3, <1>4 DEF Joined

Queued == InOrder => Forward(Pipeline, state)

LEMMA PipelineParts ==
    ASSUME TypeInv
    PROVE  /\ Pipeline = Joined(ex.task, execQ, mat.batch) /\ Pipeline \in Seq(ExecTask)
           /\ ex.task \in ExecTask /\ execQ \in Seq(ExecTask) /\ mat.batch \in Seq(ExecTask)
<1>1. ex.task \in ExecTask /\ execQ \in Seq(ExecTask) /\ mat.batch \in Seq(ExecTask)
  BY DEF TypeInv, TypeOK
<1> QED BY <1>1, JoinedParts DEF Pipeline, Joined

\* A pending buffer that nobody is about to push has a task in the pipeline.
LEMMA PendingIsOut ==
    ASSUME TypeInv, Served, NEW b \in Buffers, state[b] = "pending", b \notin Pushed
    PROVE  b \in Outs(Pipeline)
<1>1. \/ \E i \in DOMAIN Pipeline : b \in Pipeline[i].outs
      \/ \E t \in Threads : call[t].pc = "push" /\ call[t].out = b
  BY ServedPipeline DEF PendingHasTask
<1> QED BY <1>1 DEF Outs, Pushed, Pushes

\* The states of the buffers move on.
LEMMA ForwardMoves ==
    ASSUME Moves, NEW q \in Seq(ExecTask), Forward(q, state)
    PROVE  Forward(q, state')
<1>1. \A b \in Buffers : state[b] \in Ready =>
          state'[b] \in Ready /\ (state'[b] = "pending" => state[b] = "pending")
  BY DEF Moves, Grows, Born, IsMaterializing, IsDeferred, Ready, Settled
<1> QED BY <1>1, ForwardSame

LEMMA QueuedSame ==
    ASSUME TypeInv, Moves, Queued, UNCHANGED <<deploy, ex, execQ>>, mat'.batch = mat.batch
    PROVE  Queued'
<1>1. Pipeline' = Pipeline /\ InOrder' = InOrder /\ Pipeline \in Seq(ExecTask)
  BY PipelineParts DEF Pipeline, InOrder, Solo
<1>2. Forward(Pipeline, state) => Forward(Pipeline, state')
  BY <1>1, ForwardMoves
<1>3. InOrder' => Forward(Pipeline', state')
  BY <1>1, <1>2 DEF Queued
<1> QED BY <1>3 DEF Queued, Forward

\* A task joins the end of the pipeline.
LEMMA QueuedAppend ==
    ASSUME TypeInv, Moves, Queued, UNCHANGED deploy, NEW k \in ExecTask,
           InOrder => Pipeline' = Append(Pipeline, k),
           InOrder => \A b \in k.args : /\ state'[b] \in Ready
                                        /\ state'[b] = "pending" => b \in Outs(Pipeline)
    PROVE  Queued'
<1>1. InOrder' = InOrder /\ Pipeline \in Seq(ExecTask)
  BY PipelineParts DEF InOrder, Solo
<1>2. Forward(Pipeline, state) => Forward(Pipeline, state')
  BY <1>1, ForwardMoves
<1>3. InOrder => Forward(Append(Pipeline, k), state')
  BY <1>1, <1>2, ForwardAppend DEF Queued
<1>4. InOrder' => Forward(Pipeline', state')
  BY <1>1, <1>3
<1> QED BY <1>4 DEF Queued, Forward

\* An executable is pushed: the thread that pushes it is alone, and nothing
\* is under construction while it runs.
LEMMA QueuedPush ==
    ASSUME TypeInv, Life, CallHasTask, ServedInv, Callers, Moves, Queued,
           NEW t \in Threads, PushExecutable(t), ~ShuttingDown
    PROVE  Queued'
<1> DEFINE k == [kind |-> "task", args |-> call[t].nodes, outs |-> {call[t].out},
                 effects |-> {}, compiled |-> TRUE]
<1>1. /\ execQ' = Append(execQ, k) /\ UNCHANGED <<state, deploy, ex, mat>>
      /\ t \in deploy.threads /\ Pushes(t)
  BY DEF PushExecutable, At, Pushes
<1>2. /\ k \in ExecTask /\ k.args = call[t].nodes /\ call[t].nodes \subseteq Buffers
  BY <1>1 DEF ExecTask, TypeInv, CallsType, CallType, Pushes
<1> HIDE DEF k
<1>3. ASSUME InOrder
      PROVE  /\ Pipeline' = Append(Pipeline, k)
             /\ \A b \in k.args : /\ state'[b] \in Ready
                                  /\ state'[b] = "pending" => b \in Outs(Pipeline)
  <2>1. Solo
    BY <1>1, <1>3 DEF InOrder, Callers, Models, Pushes
  <2>2. mat.pc \in {"idle", "stopped"}
    BY <1>1, <2>1, SoloRest DEF Callers, Waits, Pushes
  <2>3. mat.batch = <<>>
    BY <2>2 DEF Life, Shapes
  <2>4. Pushed = {call[t].out}
    BY <1>1, <2>1 DEF Solo, Callers, Outsiders, Pushed, Pushes
  <2>5. Pipeline' = Joined(ex.task, Append(execQ, k), <<>>)
    BY <1>1, <2>3 DEF Pipeline, Joined
  <2>6. Pipeline' = Append(Pipeline, k)
    <3>1. Joined(ex.task, Append(execQ, k), <<>>) = Append(Joined(ex.task, execQ, <<>>), k)
      BY <1>2, PipelineParts, JoinedAppend
    <3> QED BY <2>3, <2>5, <3>1, PipelineParts
  <2>7. ASSUME NEW b \in k.args
        PROVE  /\ state'[b] \in Ready
               /\ state'[b] = "pending" => b \in Outs(Pipeline)
    <3>1. IsMaterializing(b) /\ b # call[t].out /\ b \in Buffers
      BY <1>1, <1>2 DEF Callers, PushReady
    <3>2. state'[b] \in Ready
      BY <1>1, <3>1 DEF IsMaterializing, Ready
    <3>3. state'[b] = "pending" => b \in Outs(Pipeline)
      BY <1>1, <2>4, <3>1, PendingIsOut DEF ServedInv
    <3> QED BY <3>2, <3>3
  <2> QED BY <2>6, <2>7
<1> QED BY <1>1, <1>2, <1>3, QueuedAppend

\* A task is built: its arguments have tasks, for no executable is about to
\* be pushed.
LEMMA QueuedBuild ==
    ASSUME TypeInv, Life, CallHasTask, ServedInv, Callers, Moves, Queued, BuildTask
    PROVE  Queued'
<1> DEFINE k == [kind |-> "task", args |-> Arguments, outs |-> Outputs,
                 effects |-> CollectivesOf(Outputs), compiled |-> FALSE]
<1>0. MatType
  BY DEF TypeInv, TypeOK, MatType
<1>1. /\ mat' = [Built EXCEPT !.batch = Append(@, k)] /\ UNCHANGED <<deploy, ex, execQ>>
      /\ mat.pc = "build" /\ Become(Outputs, "pending")
      /\ \A b \in Arguments : state[b] \in {"pending", "ok"}
      /\ \A b \in Outputs : IsDeferred(b)
  BY DEF BuildTask, SetAsPendingMaterialization, Outputs
<1>2. k \in ExecTask /\ k.args = Arguments /\ Arguments \subseteq Buffers
  BY DEF ExecTask, CollectivesOf, Arguments, Outputs, Nodes
<1> HIDE DEF k
<1>3. mat'.batch = Append(mat.batch, k)
  BY <1>0, <1>1 DEF Built, MatType
<1>4. Pipeline' = Append(Pipeline, k)
  <2>1. Pipeline' = Joined(ex.task, execQ, Append(mat.batch, k))
    BY <1>1, <1>3 DEF Pipeline, Joined
  <2>2. Joined(ex.task, execQ, Append(mat.batch, k)) = Append(Joined(ex.task, execQ, mat.batch), k)
    BY <1>2, PipelineParts, JoinedAppend
  <2> QED BY <2>1, <2>2, PipelineParts
<1>5. InOrder => Pushed = {}
  <2>1. ASSUME Solo, NEW t \in Threads, Pushes(t) PROVE FALSE
    <3>1. t \in deploy.threads /\ ~Waits(t)
      BY <2>1 DEF Callers, Outsiders, Pushes, Waits
    <3> QED BY <1>1, <2>1, <3>1, SoloRest DEF Callers
  <2>2. ASSUME ~deploy.executables, NEW t \in Threads, Pushes(t) PROVE FALSE
    BY <2>2 DEF Callers, Models, Pushes
  <2> QED BY <2>1, <2>2 DEF InOrder, Pushed
<1>6. ASSUME InOrder, NEW b \in k.args
      PROVE  /\ state'[b] \in Ready
             /\ state'[b] = "pending" => b \in Outs(Pipeline)
  <2>1. b \in Buffers /\ state[b] \in {"pending", "ok"}
    BY <1>1, <1>2
  <2>2. state'[b] \in Ready /\ (state'[b] = "pending" => state[b] = "pending")
    BY <1>1, <2>1, BecomeStates DEF Ready, Settled, IsDeferred
  <2> QED BY <1>5, <1>6, <2>1, <2>2, PendingIsOut DEF ServedInv
<1> QED BY <1>1, <1>2, <1>4, <1>6, QueuedAppend

\* The execute thread takes the task in front of the queue: the task that
\* goes, the old one or a sentinel, has no outputs.
LEMMA JoinedDequeue ==
    ASSUME NEW e \in ExecTask, NEW q \in Seq(ExecTask), NEW r \in Seq(ExecTask), NEW s,
           Forward(Joined(e, q, r), s), q # <<>>, NEW d \in ExecTask,
           \/ e.outs = {} /\ d = Head(q)
           \/ Head(q).outs = {} /\ d = e
    PROVE  Forward(Joined(d, Tail(q), r), s)
<1> DEFINE p == Tail(q)
           n == Len(q)
           m == Len(r)
           u == Joined(e, q, r)
           v == Joined(d, p, r)
<1>1. /\ p \in Seq(ExecTask) /\ Len(p) = n - 1 /\ n \in Nat \ {0} /\ m \in Nat
      /\ Head(q) = q[1] /\ \A i \in 1..(n - 1) : p[i] = q[i + 1]
  OBVIOUS
<1> HIDE DEF p
<1>2. /\ u \in Seq(ExecTask) /\ Len(u) = 1 + Len(q) + Len(r)
      /\ \A i \in 1..(1 + Len(q) + Len(r)) : u[i] = IF i = 1 THEN e
             ELSE IF i <= 1 + Len(q) THEN q[i - 1] ELSE r[i - 1 - Len(q)]
  BY JoinedParts
<1>3. /\ v \in Seq(ExecTask) /\ Len(v) = 1 + Len(p) + Len(r)
      /\ \A i \in 1..(1 + Len(p) + Len(r)) : v[i] = IF i = 1 THEN d
             ELSE IF i <= 1 + Len(p) THEN p[i - 1] ELSE r[i - 1 - Len(p)]
  <2> HIDE DEF n, m, u, v
  <2>1. \A x \in Seq(ExecTask) :
          /\ Joined(d, x, r) \in Seq(ExecTask) /\ Len(Joined(d, x, r)) = 1 + Len(x) + Len(r)
          /\ \A i \in 1..(1 + Len(x) + Len(r)) : Joined(d, x, r)[i] = IF i = 1 THEN d
                ELSE IF i <= 1 + Len(x) THEN x[i - 1] ELSE r[i - 1 - Len(x)]
    BY JoinedParts
  <2> QED BY <1>1, <2>1 DEF v
<1> HIDE DEF n, m, u, v
<1>4. /\ Len(u) = 1 + n + m /\ Len(v) = n + m
      /\ \A i \in 1..(1 + n + m) : u[i] = IF i = 1 THEN e
             ELSE IF i <= 1 + n THEN q[i - 1] ELSE r[i - 1 - n]
      /\ \A i \in 1..(n + m) : v[i] = IF i = 1 THEN d
             ELSE IF i <= n THEN p[i - 1] ELSE r[i - n]
  <2>1. Len(p) = n - 1 /\ Len(q) = n /\ Len(r) = m
    BY <1>1 DEF n, m
  <2>2. Len(u) = 1 + n + m /\ Len(v) = n + m
    BY <1>1, <1>2, <1>3, <2>1
  <2>3. \A i \in 1..(n + m) : v[i] = IF i = 1 THEN d
             ELSE IF i <= n THEN p[i - 1] ELSE r[i - n]
    <3> SUFFICES ASSUME NEW i \in 1..(n + m)
                 PROVE  v[i] = IF i = 1 THEN d ELSE IF i <= n THEN p[i - 1] ELSE r[i - n]
      OBVIOUS
    <3>1. /\ i \in 1..(1 + Len(p) + Len(r)) /\ 1 + Len(p) = n
          /\ i - 1 - Len(p) = i - n
      BY <1>1, <2>1
    <3> QED BY <1>3, <3>1
  <2> QED BY <1>2, <2>1, <2>2, <2>3
<1>5. CASE e.outs = {} /\ d = Head(q)
  <2>1. 1 \in 1..Len(u) /\ u[1] = e
    BY <1>1, <1>4
  <2>2. Len(v) = Len(u) - 1 /\ \A i \in 1..Len(v) : v[i] = IF i < 1 THEN u[i] ELSE u[i + 1]
    <3>1. Len(v) = Len(u) - 1 /\ Len(v) = n + m
      BY <1>1, <1>4
    <3>2. ASSUME NEW i \in 1..(n + m) PROVE v[i] = IF i < 1 THEN u[i] ELSE u[i + 1]
      <4>1. v[1] = d /\ u[1] = e /\ u[2] = q[1]
        BY <1>1, <1>4
      <4>2. CASE i = 1
        BY <1>1, <1>5, <4>1, <4>2
      <4>3. CASE i > 1 /\ i <= n
        <5>1. /\ i - 1 \in 1..(n - 1) /\ (i - 1) + 1 = i /\ i + 1 \in 1..(1 + n + m)
              /\ (i + 1) - 1 = i /\ i + 1 # 1 /\ i + 1 <= 1 + n /\ i # 1
          BY <1>1, <4>3
        <5>2. v[i] = p[i - 1] /\ u[i + 1] = q[i]
          BY <1>4, <4>3, <5>1
        <5>3. p[i - 1] = q[(i - 1) + 1]
          BY <1>1, <5>1
        <5> QED BY <4>3, <5>1, <5>2, <5>3
      <4>4. CASE i > n
        <5>1. /\ i + 1 \in 1..(1 + n + m) /\ (i + 1) - 1 - n = i - n
              /\ i # 1 /\ ~(i <= n) /\ i + 1 # 1 /\ ~(i + 1 <= 1 + n) /\ ~(i < 1)
          BY <1>1, <4>4
        <5>2. v[i] = r[i - n] /\ u[i + 1] = r[(i + 1) - 1 - n]
          BY <1>4, <5>1
        <5> QED BY <5>1, <5>2
      <4> QED BY <1>1, <4>2, <4>3, <4>4
    <3> QED BY <3>1, <3>2
  <2>3. Forward(u, s) => Forward(v, s)
    BY <1>2, <1>3, <1>5, <2>1, <2>2, ForwardDrop
  <2> QED BY <2>3 DEF u, v, p
<1>6. CASE Head(q).outs = {} /\ d = e
  <2>1. 2 \in 1..Len(u) /\ u[2] = Head(q)
    BY <1>1, <1>4
  <2>2. Len(v) = Len(u) - 1 /\ \A i \in 1..Len(v) : v[i] = IF i < 2 THEN u[i] ELSE u[i + 1]
    <3>1. Len(v) = Len(u) - 1 /\ Len(v) = n + m
      BY <1>1, <1>4
    <3>2. ASSUME NEW i \in 1..(n + m) PROVE v[i] = IF i < 2 THEN u[i] ELSE u[i + 1]
      <4>1. v[1] = d /\ u[1] = e /\ u[2] = q[1]
        BY <1>1, <1>4
      <4>2. CASE i = 1
        BY <1>1, <1>6, <4>1, <4>2
      <4>3. CASE i > 1 /\ i <= n
        <5>1. /\ i - 1 \in 1..(n - 1) /\ (i - 1) + 1 = i /\ i + 1 \in 1..(1 + n + m)
              /\ (i + 1) - 1 = i /\ i + 1 # 1 /\ i + 1 <= 1 + n /\ i # 1
          BY <1>1, <4>3
        <5>2. v[i] = p[i - 1] /\ u[i + 1] = q[i]
          BY <1>4, <4>3, <5>1
        <5>3. p[i - 1] = q[(i - 1) + 1]
          BY <1>1, <5>1
        <5> QED BY <4>3, <5>1, <5>2, <5>3
      <4>4. CASE i > n
        <5>1. /\ i + 1 \in 1..(1 + n + m) /\ (i + 1) - 1 - n = i - n
              /\ i # 1 /\ ~(i <= n) /\ i + 1 # 1 /\ ~(i + 1 <= 1 + n) /\ ~(i < 2)
          BY <1>1, <4>4
        <5>2. v[i] = r[i - n] /\ u[i + 1] = r[(i + 1) - 1 - n]
          BY <1>4, <5>1
        <5> QED BY <5>1, <5>2
      <4> QED BY <1>1, <4>2, <4>3, <4>4
    <3> QED BY <3>1, <3>2
  <2>3. Forward(u, s) => Forward(v, s)
    BY <1>2, <1>3, <1>6, <2>1, <2>2, ForwardDrop
  <2> QED BY <2>3 DEF u, v, p
<1> QED BY <1>5, <1>6

\* The task in front is done and its outputs are settled.
LEMMA JoinedDone ==
    ASSUME NEW e \in ExecTask, NEW q \in Seq(ExecTask), NEW r \in Seq(ExecTask), NEW s,
           Forward(Joined(e, q, r), s), NEW d \in ExecTask, d.args \subseteq e.args,
           \A b \in e.outs : s[b] = "pending" => b \in d.outs
    PROVE  Forward(Joined(d, q, r), s)
<1> DEFINE u == Joined(e, q, r)
           v == Joined(d, q, r)
<1>1. /\ u \in Seq(ExecTask) /\ Len(u) = 1 + Len(q) + Len(r)
      /\ \A i \in 1..(1 + Len(q) + Len(r)) : u[i] = IF i = 1 THEN e
             ELSE IF i <= 1 + Len(q) THEN q[i - 1] ELSE r[i - 1 - Len(q)]
  BY JoinedParts
<1>2. /\ v \in Seq(ExecTask) /\ Len(v) = 1 + Len(q) + Len(r)
      /\ \A i \in 1..(1 + Len(q) + Len(r)) : v[i] = IF i = 1 THEN d
             ELSE IF i <= 1 + Len(q) THEN q[i - 1] ELSE r[i - 1 - Len(q)]
  BY JoinedParts
<1>3. Len(q) \in Nat /\ Len(r) \in Nat
  OBVIOUS
<1> HIDE DEF u, v
<1>4. /\ u # <<>> /\ u[1] = e /\ v[1] = d /\ Len(v) = Len(u)
      /\ \A i \in 2..Len(u) : v[i] = u[i]
  BY <1>1, <1>2, <1>3
<1>5. Forward(u, s) => Forward(v, s)
  BY <1>1, <1>2, <1>4, ForwardDone
<1> QED BY <1>5 DEF u, v

LEMMA QueuedDequeue ==
    ASSUME TypeInv, TypeInv', Life, Queued, DequeueExecutionTask
    PROVE  Queued'
<1>0. /\ ex.pc = "idle" /\ execQ # <<>> /\ execQ' = Tail(execQ) /\ mat'.batch = mat.batch
      /\ state' = state /\ deploy' = deploy
  BY DEF DequeueExecutionTask, bufferVars
<1>1. ex'.task \in ExecTask /\ 1 \in DOMAIN execQ /\ Head(execQ) = execQ[1]
  BY <1>0 DEF TypeInv, TypeOK
<1>2. \/ ex.task.outs = {} /\ ex'.task = Head(execQ)
      \/ Head(execQ).outs = {} /\ ex'.task = ex.task
  <2>1. CASE Head(execQ).kind = "sentinel"
    <3>1. ex' = [ex EXCEPT !.pc = "stopped"] /\ ex \in [pc: {"idle", "run", "stopped"}, task: ExecTask]
      BY <2>1 DEF DequeueExecutionTask, TypeInv, TypeOK
    <3> QED BY <1>1, <2>1, <3>1 DEF Life, Shapes
  <2>2. CASE Head(execQ).kind # "sentinel"
    BY <1>0, <2>2 DEF DequeueExecutionTask, Life, Shapes
  <2> QED BY <2>1, <2>2
<1>3. InOrder' = InOrder
  BY <1>0 DEF InOrder, Solo
<1>4. Pipeline' = Joined(ex'.task, Tail(execQ), mat.batch)
  BY <1>0 DEF Pipeline, Joined
<1>5. Forward(Joined(ex.task, execQ, mat.batch), state)
          => Forward(Joined(ex'.task, Tail(execQ), mat.batch), state)
  BY <1>0, <1>1, <1>2, PipelineParts, JoinedDequeue
<1>6. InOrder' => Forward(Pipeline', state')
  BY <1>0, <1>3, <1>4, <1>5, PipelineParts DEF Queued
<1> QED BY <1>6 DEF Queued, Forward

\* The task in front settles its outputs.
LEMMA QueuedSettle ==
    ASSUME TypeInv, TypeInv', Moves, Queued, NEW S, NEW s, Settles(S, s)
    PROVE  Queued'
<1>0. /\ S \subseteq ex.task.outs /\ s \in Settled /\ Become(S, s)
      /\ ex'.task.outs = ex.task.outs \ S /\ ex'.task.args \subseteq ex.task.args
      /\ UNCHANGED <<deploy, mat, execQ>>
  BY DEF Settles
<1>1. ex'.task \in ExecTask /\ ex.task.outs \subseteq Buffers
  BY DEF TypeInv, TypeOK, ExecTask
<1>2. \A b \in ex.task.outs : state'[b] = "pending" => b \in ex'.task.outs
  BY <1>0, <1>1, BecomeStates DEF Settled
<1>3. InOrder' = InOrder
  BY <1>0 DEF InOrder, Solo
<1>4. Pipeline' = Joined(ex'.task, execQ, mat.batch)
  BY <1>0 DEF Pipeline, Joined
<1>5. Forward(Pipeline, state) => Forward(Pipeline, state')
  BY PipelineParts, ForwardMoves, <1>0
<1>6. Forward(Joined(ex.task, execQ, mat.batch), state')
          => Forward(Joined(ex'.task, execQ, mat.batch), state')
  BY <1>0, <1>1, <1>2, PipelineParts, JoinedDone
<1>7. InOrder' => Forward(Pipeline', state')
  BY <1>3, <1>4, <1>5, <1>6, PipelineParts DEF Queued
<1> QED BY <1>7 DEF Queued, Forward

LEMMA QueuedNext ==
    /\ TypeInv /\ TypeInv' /\ Life /\ CallHasTask /\ ServedInv /\ Callers /\ Queued
    /\ [Next]_vars
    => Queued'
<1> SUFFICES ASSUME TypeInv, TypeInv', Life, CallHasTask, ServedInv, Callers, Queued,
                    [Next]_vars
             PROVE  Queued'
  OBVIOUS
<1> USE DEF workerVars, bufferVars, CloserStep
<1>0. Moves /\ MatType
  BY StatesMove DEF TypeInv, TypeOK, MatType
<1>1. ASSUME NEW t \in Threads, Begin(t) PROVE Queued'
  BY <1>0, <1>1, QueuedSame
  DEF Begin, CreateOp, DropTensor, ReadTensor, SyncStream, ExecuteModel
<1>2. ASSUME NEW t \in Threads, Continue(t) PROVE Queued'
  <2>1. CASE PushExecutable(t) /\ ~ShuttingDown
    BY <1>0, <2>1, QueuedPush
  <2>2. CASE PushExecutable(t) /\ ShuttingDown
    BY <1>0, <2>2, QueuedSame DEF PushExecutable
  <2>3. CASE ~PushExecutable(t)
    BY <1>0, <1>2, <2>3, QueuedSame
    DEF Continue, RecordOp, DispatchPlain, DispatchRepeated, MakeTensor, Resume,
        AwaitBuffers, CreateOutput
  <2> QED BY <2>1, <2>2, <2>3
<1>3. ASSUME MaterializeLoop PROVE Queued'
  <2>1. CASE BuildTask
    BY <1>0, <2>1, QueuedBuild
  <2>2. CASE PublishTasks
    <3>1. /\ execQ' = execQ \o mat.batch /\ mat'.batch = <<>>
          /\ UNCHANGED <<deploy, ex, state>>
      BY <1>0, <2>2 DEF PublishTasks, MatType
    <3>2. Pipeline' = Joined(ex.task, execQ \o mat.batch, <<>>)
      BY <3>1 DEF Pipeline, Joined
    <3>3. Joined(ex.task, execQ \o mat.batch, <<>>) = Joined(ex.task, execQ, mat.batch)
      BY PipelineParts, JoinedPublish
    <3>4. Pipeline' = Pipeline /\ InOrder' = InOrder
      BY <3>1, <3>2, <3>3, PipelineParts DEF InOrder, Solo
    <3>5. InOrder' => Forward(Pipeline', state')
      BY <3>1, <3>4 DEF Queued
    <3> QED BY <3>5 DEF Queued, Forward
  <2>3. CASE DequeueMaterializationTask \/ Prepare \/ FailTraversal \/ AbortTraversal \/ AnswerTask
    <3>1. mat'.batch = mat.batch
      BY <1>0, <2>3
      DEF DequeueMaterializationTask, Prepare, FailTraversal, AbortTraversal, AnswerTask,
          Built, MatType
    <3>2. UNCHANGED <<deploy, ex, execQ>>
      BY <2>3
      DEF DequeueMaterializationTask, Prepare, FailTraversal, AbortTraversal, AnswerTask
    <3> QED BY <1>0, <3>1, <3>2, QueuedSame
  <2> QED BY <1>3, <2>1, <2>2, <2>3 DEF MaterializeLoop
<1>4. ASSUME ExecuteLoop PROVE Queued'
  <2>1. CASE RunTask \/ FailTask
    BY <1>0, <2>1, TaskSettles, QueuedSettle DEF ExType, TypeInv, TypeOK
  <2> QED BY <1>0, <1>4, <2>1, QueuedDequeue DEF ExecuteLoop
<1>5. ASSUME ShutDown \/ ContinueShutDown PROVE Queued'
  <2>1. CASE PushExecuteSentinel
    <3>1. mat.batch = <<>>
      BY <2>1 DEF PushExecuteSentinel, Life, MatClosing, Shapes
    <3>2. execQ' = Append(execQ, ExecSentinel) /\ UNCHANGED <<deploy, ex, mat>>
      BY <2>1 DEF PushExecuteSentinel
    <3>3. ExecSentinel \in ExecTask /\ ExecSentinel.args = {}
      BY DEF ExecSentinel, NoExecTask, ExecTask
    <3>4. Pipeline' = Joined(ex.task, Append(execQ, ExecSentinel), <<>>)
      BY <3>1, <3>2 DEF Pipeline, Joined
    <3>5. Joined(ex.task, Append(execQ, ExecSentinel), <<>>)
              = Append(Joined(ex.task, execQ, <<>>), ExecSentinel)
      BY <3>3, PipelineParts, JoinedAppend
    <3>6. Pipeline' = Append(Pipeline, ExecSentinel)
      BY <3>1, <3>4, <3>5, PipelineParts
    <3> QED BY <1>0, <3>2, <3>3, <3>6, QueuedAppend
  <2>2. CASE FailRemainingExecutionTasks
    <3>1. execQ' = execQ
      BY <2>2 DEF FailRemainingExecutionTasks, Life, ExecClosing
    <3> QED BY <1>0, <2>2, <3>1, QueuedSame DEF FailRemainingExecutionTasks
  <2>3. CASE ~PushExecuteSentinel /\ ~FailRemainingExecutionTasks
    BY <1>0, <1>5, <2>3, QueuedSame
    DEF ShutDown, ContinueShutDown, PushMaterializeSentinel, JoinMaterializeThread,
        FailRemainingMaterializationTasks, JoinExecuteThread
  <2> QED BY <2>1, <2>2, <2>3
<1>6. CASE UNCHANGED programVars
  BY <1>0, <1>6, QueuedSame DEF programVars
<1> QED BY <1>1, <1>2, <1>3, <1>4, <1>5, <1>6, RestingStep DEF Next, Rests

\* Before the first step the pipeline holds only the idle execution task, so no
\* task of it waits for one behind it.
LEMMA QueuedInit == Init => Queued
<1> SUFFICES ASSUME Init PROVE Queued
  OBVIOUS
<1>1. ex.task = NoExecTask /\ execQ = <<>> /\ mat.batch = <<>> /\ TypeInv
  BY TypeInit DEF Init
<1>2. Pipeline = <<NoExecTask>>
  <2>1. \A u \in Seq(ExecTask) : u \o <<>> = u
    BY ConcatEmptySeq
  <2>2. <<NoExecTask>> \in Seq(ExecTask)
    BY DEF NoExecTask, ExecTask
  <2> QED BY <1>1, <2>1, <2>2 DEF Pipeline
<1>3. DOMAIN Pipeline = {1} /\ Pipeline[1] = NoExecTask
  BY <1>2
<1> QED BY <1>3 DEF Queued, Forward, NoExecTask

\* Unless several threads dispatch and one of them executes compiled models,
\* the execute thread never waits for a task behind the one it runs, for any
\* number of threads, tasks, failures and shutdowns: BuildTask and
\* PushExecutable only give a task arguments that tasks in front of it own.
THEOREM TasksRunInOrder == Spec => []NoTaskWaitsBehind
<1> DEFINE IInv == TypeInv /\ Life /\ CallHasTask /\ ServedInv /\ Callers /\ Queued
<1>1. Init => IInv
  <2>1. Init => CallHasTask
    BY ThreadsAssumption DEF Init, CallHasTask, Idle, NoTask
  <2> QED BY <2>1, TypeInit, LifeInit, ServedInit, CallersInit, QueuedInit
<1>2. IInv /\ [Next]_vars => IInv'
  BY TypeNext, LifeNext, CallsNext, ServedNext, CallersNext, QueuedNext
<1>3. IInv => NoTaskWaitsBehind
  BY DEF NoTaskWaitsBehind, Queued, InOrder, Forward
<1> QED BY <1>1, <1>2, <1>3, PTL DEF Spec
=============================================================================
