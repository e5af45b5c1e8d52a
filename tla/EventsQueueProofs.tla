------------------------- MODULE EventsQueueProofs --------------------------
(***************************************************************************)
(* Lemmas about the pure functions of EventsQueue, for queues, orders and  *)
(* plans of any length: what is taken from the queue, what the loop over   *)
(* the events has dealt with, where an execution order is cut, that the    *)
(* traversals keep the order of the events, and that what a traversal of a *)
(* split plan reads is an output of an earlier one (Graph, Fit).           *)
(*                                                                         *)
(* The functions are recursive functions over 0..n.  Each gets a lemma     *)
(* that states its recursion equation; what it computes follows by         *)
(* induction over the sets of the indices up to which a fact holds.        *)
(***************************************************************************)
EXTENDS EventsQueue, SequenceTheorems, FiniteSetTheorems, WellFoundedInduction, TLAPS

(***************************************************************************)
(* Induction, with a set in the place of a predicate.                      *)
(***************************************************************************)
LEMMA LeastNatural ==
    ASSUME NEW T \in SUBSET Nat, T # {}
    PROVE  \E n \in T : \A m \in T : n <= m
<1> DEFINE I == {0..n : n \in T}
           R == StrictSubsetOrdering(Nat)
           F == FiniteSubsetsOf(Nat)
<1>1. IsWellFoundedOn(R, F)
  BY FS_StrictSubsetOrderingWellFounded
<1>2. \A n \in Nat : 0..n \in F
  BY FS_Interval DEF FiniteSubsetsOf
<1>3. I \subseteq F /\ I # {}
  BY <1>2
<1>4. PICK x \in I : \A y \in I : <<y, x>> \notin R
  <2> HIDE DEF I, R, F
  <2> QED BY <1>1, <1>3, WFMin
<1>5. PICK n \in T : x = 0..n
  OBVIOUS
<1>6. ASSUME NEW m \in T PROVE n <= m
  <2>1. <<0..m, 0..n>> \notin R
    BY <1>4, <1>5
  <2>2. 0..m \in SUBSET Nat /\ 0..n \in SUBSET Nat
    OBVIOUS
  <2>3. ~(0..m \subseteq 0..n /\ 0..m # 0..n)
    BY <2>1, <2>2 DEF StrictSubsetOrdering
  <2>4. m < n => 0..m \subseteq 0..n /\ n \in 0..n /\ n \notin 0..m
    OBVIOUS
  <2> QED BY <2>3, <2>4
<1> QED BY <1>6

LEMMA UpTo ==
    ASSUME NEW n \in Nat, NEW T, 0 \in T, \A i \in 1..n : i - 1 \in T => i \in T
    PROVE  \A i \in 0..n : i \in T
<1> DEFINE U == {i \in 0..n : i \notin T}
<1>1. SUFFICES ASSUME U # {} PROVE FALSE
  OBVIOUS
<1>2. PICK k \in U : \A m \in U : k <= m
  <2>1. U \in SUBSET Nat
    OBVIOUS
  <2> HIDE DEF U
  <2> QED BY <1>1, <2>1, LeastNatural
<1>3. k # 0 /\ k \in 1..n /\ k - 1 \in 0..n
  OBVIOUS
<1>4. k - 1 \in T
  BY <1>2, <1>3
<1> QED BY <1>3, <1>4

(***************************************************************************)
(* Sequences.                                                              *)
(***************************************************************************)
LEMMA ToSetConcat ==
    ASSUME NEW S, NEW s \in Seq(S), NEW t \in Seq(S)
    PROVE  ToSet(s \o t) = ToSet(s) \cup ToSet(t)
<1>1. /\ s \o t \in Seq(S)
      /\ Len(s \o t) = Len(s) + Len(t)
      /\ \A i \in 1..Len(s) + Len(t) :
            (s \o t)[i] = IF i <= Len(s) THEN s[i] ELSE t[i - Len(s)]
  BY ConcatProperties
<1>2. /\ DOMAIN s = 1..Len(s) /\ DOMAIN t = 1..Len(t) /\ Len(s) \in Nat /\ Len(t) \in Nat
      /\ DOMAIN (s \o t) = 1..(Len(s) + Len(t))
  BY <1>1
<1>3. ASSUME NEW x \in ToSet(s \o t) PROVE x \in ToSet(s) \cup ToSet(t)
  <2>1. PICK i \in 1..(Len(s) + Len(t)) : x = (s \o t)[i]
    BY <1>2 DEF ToSet
  <2>2. CASE i <= Len(s)
    BY <1>1, <1>2, <2>1, <2>2 DEF ToSet
  <2>3. CASE ~(i <= Len(s))
    <3>1. i - Len(s) \in 1..Len(t) /\ x = t[i - Len(s)]
      BY <1>1, <1>2, <2>1, <2>3
    <3> QED BY <3>1, <1>2 DEF ToSet
  <2> QED BY <2>2, <2>3
<1>4. ASSUME NEW x \in ToSet(s) PROVE x \in ToSet(s \o t)
  <2>1. PICK i \in 1..Len(s) : x = s[i]
    BY <1>2 DEF ToSet
  <2>2. i \in 1..(Len(s) + Len(t)) /\ x = (s \o t)[i]
    BY <1>1, <1>2, <2>1
  <2> QED BY <2>2, <1>2 DEF ToSet
<1>5. ASSUME NEW x \in ToSet(t) PROVE x \in ToSet(s \o t)
  <2>1. PICK i \in 1..Len(t) : x = t[i]
    BY <1>2 DEF ToSet
  <2>2. i + Len(s) \in 1..(Len(s) + Len(t)) /\ x = (s \o t)[i + Len(s)]
    BY <1>1, <1>2, <2>1
  <2> QED BY <2>2, <1>2 DEF ToSet
<1> QED BY <1>3, <1>4, <1>5

LEMMA ToSetOne ==
    ASSUME NEW b
    PROVE  ToSet(<<b>>) = {b}
BY DEF ToSet

LEMMA ToSetAppend ==
    ASSUME NEW S, NEW s \in Seq(S), NEW b \in S
    PROVE  ToSet(Append(s, b)) = ToSet(s) \cup {b}
<1>1. /\ Append(s, b) \in Seq(S) /\ Len(Append(s, b)) = Len(s) + 1
      /\ \A i \in 1..Len(s) : Append(s, b)[i] = s[i]
      /\ Append(s, b)[Len(s) + 1] = b
  BY AppendProperties
<1>2. DOMAIN s = 1..Len(s) /\ Len(s) \in Nat /\ DOMAIN Append(s, b) = 1..(Len(s) + 1)
  BY <1>1
<1> QED BY <1>1, <1>2 DEF ToSet

LEMMA ToSetEmpty ==
    ASSUME NEW S, NEW s \in Seq(S)
    PROVE  (s = <<>> <=> ToSet(s) = {}) /\ ToSet(s) \subseteq S
<1>1. DOMAIN s = 1..Len(s) /\ Len(s) \in Nat /\ (s = <<>> <=> Len(s) = 0)
  BY EmptySeq
<1>2. \A i \in 1..Len(s) : s[i] \in S
  BY <1>1
<1>3. Len(s) # 0 => s[1] \in ToSet(s)
  BY <1>1 DEF ToSet
<1>4. Len(s) = 0 => ToSet(s) = {}
  BY <1>1 DEF ToSet
<1>5. ToSet(s) \subseteq S
  BY <1>1, <1>2 DEF ToSet
<1> QED BY <1>1, <1>3, <1>4, <1>5

\* SetToSeq lists every element once.
LEMMA SetToSeqLists ==
    ASSUME NEW S, IsFiniteSet(S)
    PROVE  /\ SetToSeq(S) \in Seq(S)
           /\ ToSet(SetToSeq(S)) = S
           /\ \A i, j \in DOMAIN SetToSeq(S) : SetToSeq(S)[i] = SetToSeq(S)[j] => i = j
<1> DEFINE n == Cardinality(S)
<1>1. n \in Nat
  BY FS_CardinalityType
<1>2. PICK f : f \in Bijection(1..n, S)
  BY FS_CardinalityType DEF ExistsBijection
<1>3. f \in [1..n -> S] /\ IsInjective(f)
  BY <1>2 DEF Bijection, Injection, IsInjective
<1> DEFINE s == SetToSeq(S)
<1>4. s \in [1..n -> S] /\ IsInjective(s)
  BY <1>3 DEF SetToSeq
<1>5. s \in Seq(S) /\ DOMAIN s = 1..n
  BY <1>1, <1>4
<1>6. ToSet(s) = S
  <2> HIDE DEF s
  <2>1. ToSet(s) \subseteq S
    BY <1>4, <1>5 DEF ToSet
  <2>2. s \in Bijection(1..n, ToSet(s))
    BY <1>4, <1>5 DEF ToSet, Bijection, Injection, Surjection, IsInjective
  <2>3. IsFiniteSet(1..n) /\ Cardinality(1..n) = n
    BY <1>1, FS_Interval
  <2>4. Cardinality(ToSet(s)) = n
    BY <2>2, <2>3, FS_Bijection DEF ExistsBijection
  <2> QED BY <2>1, <2>4, FS_Subset
<1> QED BY <1>4, <1>5, <1>6 DEF IsInjective

(***************************************************************************)
(* The recursion equations.                                                *)
(***************************************************************************)
ScanStep(ev, wanted, alive, i, w) ==
    IF ev[i] \in alive /\ IsDeferred(ev[i]) THEN ProcessEvent(w, ev[i], wanted) ELSE w
IsScan(ev, wanted, alive, n, g) ==
    g = [i \in 0..n |-> IF i = 0 THEN NoWork ELSE ScanStep(ev, wanted, alive, i, g[i - 1])]

LEMMA ScanExists ==
    ASSUME NEW ev, NEW wanted, NEW alive, NEW n \in Nat
    PROVE  \E g : IsScan(ev, wanted, alive, n, g)
<1> DEFINE T == {k \in 0..n : \E g : IsScan(ev, wanted, alive, k, g)}
<1>1. 0 \in T
  <2>1. IsScan(ev, wanted, alive, 0, [i \in 0..0 |-> NoWork])
    BY DEF IsScan
  <2> QED BY <2>1
<1>2. ASSUME NEW k \in 1..n, k - 1 \in T PROVE k \in T
  <2>1. PICK g : IsScan(ev, wanted, alive, k - 1, g)
    BY <1>2
  <2> DEFINE h == [i \in 0..k |-> IF i = 0 THEN NoWork
                                  ELSE ScanStep(ev, wanted, alive, i, g[i - 1])]
  <2>2. \A i \in 0..(k - 1) : h[i] = g[i]
    BY <2>1 DEF IsScan
  <2>3. \A i \in 0..k : h[i] = IF i = 0 THEN NoWork
                               ELSE ScanStep(ev, wanted, alive, i, h[i - 1])
    BY <2>2
  <2>4. h = [i \in 0..k |-> h[i]]
    OBVIOUS
  <2>5. IsScan(ev, wanted, alive, k, h)
    <3> HIDE DEF h
    <3> QED BY <2>3, <2>4 DEF IsScan
  <2> QED BY <2>5
<1>3. n \in T
  <2> HIDE DEF T
  <2> QED BY <1>1, <1>2, UpTo
<1> QED BY <1>3

LEMMA ScanSteps ==
    ASSUME NEW ev \in Seq(Buffers), NEW wanted, NEW alive
    PROVE  \E g : /\ g[0] = NoWork
                  /\ \A i \in 1..Len(ev) : g[i] = ScanStep(ev, wanted, alive, i, g[i - 1])
                  /\ ProcessEvents(ev, wanted, alive) = g[Len(ev)]
<1> DEFINE g == CHOOSE s : IsScan(ev, wanted, alive, Len(ev), s)
<1>1. Len(ev) \in Nat
  OBVIOUS
<1>2. IsScan(ev, wanted, alive, Len(ev), g)
  BY <1>1, ScanExists
<1>3. ProcessEvents(ev, wanted, alive) = g[Len(ev)]
  BY DEF ProcessEvents, IsScan, ScanStep
<1> HIDE DEF g
<1>4. \A i \in 0..Len(ev) : g[i] = IF i = 0 THEN NoWork
                                   ELSE ScanStep(ev, wanted, alive, i, g[i - 1])
  BY <1>2 DEF IsScan
<1> QED BY <1>1, <1>3, <1>4

VisitStep(order, required, i, acc) ==
    LET b == order[Len(order) + 1 - i]
    IN  IF b \in required THEN [acc EXCEPT !.at = b]
        ELSE IF acc.at # 0 /\ lastChild[b] > acc.at
        THEN [at |-> b, points |-> acc.points \cup {b}]
        ELSE acc
NoVisit(required) == [at |-> 0, points |-> required]
IsVisit(order, required, n, g) ==
    g = [i \in 0..n |-> IF i = 0 THEN NoVisit(required)
                        ELSE VisitStep(order, required, i, g[i - 1])]

LEMMA VisitExists ==
    ASSUME NEW order, NEW required, NEW n \in Nat
    PROVE  \E g : IsVisit(order, required, n, g)
<1> DEFINE T == {k \in 0..n : \E g : IsVisit(order, required, k, g)}
<1>1. 0 \in T
  <2>1. IsVisit(order, required, 0, [i \in 0..0 |-> NoVisit(required)])
    BY DEF IsVisit
  <2> QED BY <2>1
<1>2. ASSUME NEW k \in 1..n, k - 1 \in T PROVE k \in T
  <2>1. PICK g : IsVisit(order, required, k - 1, g)
    BY <1>2
  <2> DEFINE h == [i \in 0..k |-> IF i = 0 THEN NoVisit(required)
                                  ELSE VisitStep(order, required, i, g[i - 1])]
  <2>2. \A i \in 0..(k - 1) : h[i] = g[i]
    BY <2>1 DEF IsVisit
  <2>3. \A i \in 0..k : h[i] = IF i = 0 THEN NoVisit(required)
                               ELSE VisitStep(order, required, i, h[i - 1])
    BY <2>2
  <2>4. h = [i \in 0..k |-> h[i]]
    OBVIOUS
  <2>5. IsVisit(order, required, k, h)
    <3> HIDE DEF h
    <3> QED BY <2>3, <2>4 DEF IsVisit
  <2> QED BY <2>5
<1>3. n \in T
  <2> HIDE DEF T
  <2> QED BY <1>1, <1>2, UpTo
<1> QED BY <1>3

LEMMA VisitSteps ==
    ASSUME NEW order \in Seq(Buffers), NEW required
    PROVE  \E g : /\ g[0] = NoVisit(required)
                  /\ \A i \in 1..Len(order) : g[i] = VisitStep(order, required, i, g[i - 1])
                  /\ SplitAllMaterializationPoints(order, required) = g[Len(order)].points
<1> DEFINE g == CHOOSE s : IsVisit(order, required, Len(order), s)
<1>1. Len(order) \in Nat
  OBVIOUS
<1>2. IsVisit(order, required, Len(order), g)
  BY <1>1, VisitExists
<1>3. SplitAllMaterializationPoints(order, required) = g[Len(order)].points
  BY DEF SplitAllMaterializationPoints, IsVisit, VisitStep, NoVisit
<1> HIDE DEF g
<1>4. \A i \in 0..Len(order) : g[i] = IF i = 0 THEN NoVisit(required)
                                      ELSE VisitStep(order, required, i, g[i - 1])
  BY <1>2 DEF IsVisit
<1> QED BY <1>1, <1>3, <1>4

CutStep(order, points, i, w) ==
    IF order[i] \notin points THEN [w EXCEPT !.order = Append(@, order[i])]
    ELSE [order |-> <<>>,
          done |-> Append(w.done, CreateFromExecutionOrder(
                                      Append(w.order, order[i]), {order[i]}))]
NoCut == [order |-> <<>>, done |-> <<>>]
IsCut(order, points, n, g) ==
    g = [i \in 0..n |-> IF i = 0 THEN NoCut ELSE CutStep(order, points, i, g[i - 1])]

LEMMA CutExists ==
    ASSUME NEW order, NEW points, NEW n \in Nat
    PROVE  \E g : IsCut(order, points, n, g)
<1> DEFINE T == {k \in 0..n : \E g : IsCut(order, points, k, g)}
<1>1. 0 \in T
  <2>1. IsCut(order, points, 0, [i \in 0..0 |-> NoCut])
    BY DEF IsCut
  <2> QED BY <2>1
<1>2. ASSUME NEW k \in 1..n, k - 1 \in T PROVE k \in T
  <2>1. PICK g : IsCut(order, points, k - 1, g)
    BY <1>2
  <2> DEFINE h == [i \in 0..k |-> IF i = 0 THEN NoCut
                                  ELSE CutStep(order, points, i, g[i - 1])]
  <2>2. \A i \in 0..(k - 1) : h[i] = g[i]
    BY <2>1 DEF IsCut
  <2>3. \A i \in 0..k : h[i] = IF i = 0 THEN NoCut ELSE CutStep(order, points, i, h[i - 1])
    BY <2>2
  <2>4. h = [i \in 0..k |-> h[i]]
    OBVIOUS
  <2>5. IsCut(order, points, k, h)
    <3> HIDE DEF h
    <3> QED BY <2>3, <2>4 DEF IsCut
  <2> QED BY <2>5
<1>3. n \in T
  <2> HIDE DEF T
  <2> QED BY <1>1, <1>2, UpTo
<1> QED BY <1>3

LEMMA CutSteps ==
    ASSUME NEW order \in Seq(Buffers), NEW points
    PROVE  \E g : /\ g[0] = NoCut
                  /\ \A i \in 1..Len(order) : g[i] = CutStep(order, points, i, g[i - 1])
                  /\ ApplySplitPoints(order, points) = g[Len(order)].done
<1> DEFINE g == CHOOSE s : IsCut(order, points, Len(order), s)
<1>1. Len(order) \in Nat
  OBVIOUS
<1>2. IsCut(order, points, Len(order), g)
  BY <1>1, CutExists
<1>3. ApplySplitPoints(order, points) = g[Len(order)].done
  BY DEF ApplySplitPoints, IsCut, CutStep, NoCut
<1> HIDE DEF g
<1>4. \A i \in 0..Len(order) : g[i] = IF i = 0 THEN NoCut ELSE CutStep(order, points, i, g[i - 1])
  BY <1>2 DEF IsCut
<1> QED BY <1>1, <1>3, <1>4

FlatStep(seqs, i, q) == q \o seqs[i]
IsFlat(seqs, n, g) ==
    g = [i \in 1..n |-> IF i = 1 THEN seqs[i] ELSE FlatStep(seqs, i, g[i - 1])]

LEMMA FlatExists ==
    ASSUME NEW seqs, NEW n \in Nat
    PROVE  \E g : IsFlat(seqs, n, g)
<1> DEFINE T == {k \in 0..n : \E g : IsFlat(seqs, k, g)}
<1>1. 0 \in T
  <2>1. IsFlat(seqs, 0, [i \in 1..0 |-> seqs])
    BY DEF IsFlat
  <2> QED BY <2>1
<1>2. ASSUME NEW k \in 1..n, k - 1 \in T PROVE k \in T
  <2>1. PICK g : IsFlat(seqs, k - 1, g)
    BY <1>2
  <2> DEFINE h == [i \in 1..k |-> IF i = 1 THEN seqs[i] ELSE FlatStep(seqs, i, g[i - 1])]
  <2>2. \A i \in 1..(k - 1) : h[i] = g[i]
    BY <2>1 DEF IsFlat
  <2>3. \A i \in 1..k : h[i] = IF i = 1 THEN seqs[i] ELSE FlatStep(seqs, i, h[i - 1])
    BY <2>2
  <2>4. h = [i \in 1..k |-> h[i]]
    OBVIOUS
  <2>5. IsFlat(seqs, k, h)
    <3> HIDE DEF h
    <3> QED BY <2>3, <2>4 DEF IsFlat
  <2> QED BY <2>5
<1>3. n \in T
  <2> HIDE DEF T
  <2> QED BY <1>1, <1>2, UpTo
<1> QED BY <1>3

LEMMA FlatSteps ==
    ASSUME NEW seqs, Len(seqs) \in Nat \ {0}
    PROVE  \E g : /\ g[1] = seqs[1]
                  /\ \A i \in 2..Len(seqs) : g[i] = FlatStep(seqs, i, g[i - 1])
                  /\ FlattenSeq(seqs) = g[Len(seqs)]
<1> DEFINE g == CHOOSE s : IsFlat(seqs, Len(seqs), s)
<1>1. IsFlat(seqs, Len(seqs), g)
  BY FlatExists
<1>2. FlattenSeq(seqs) = g[Len(seqs)]
  BY DEF FlattenSeq, IsFlat, FlatStep
<1> HIDE DEF g
<1>3. \A i \in 1..Len(seqs) : g[i] = IF i = 1 THEN seqs[i] ELSE FlatStep(seqs, i, g[i - 1])
  BY <1>1 DEF IsFlat
<1> QED BY <1>2, <1>3

(***************************************************************************)
(* Traversals.                                                             *)
(***************************************************************************)
Traversals == [order: Seq(Buffers), outs: SUBSET Buffers, args: SUBSET Buffers]
Work == [done: Seq(Traversals), order: Seq(Buffers), output: SUBSET Buffers,
         used: SUBSET Buffers, unused: SUBSET Buffers]

\* Building the traversals of a plan gives b a task.
Cover(plan, b) ==
    \E d \in DOMAIN plan : b \in plan[d].outs /\ b \in ToSet(plan[d].order)

LEMMA CreatedTraversal ==
    ASSUME BuffersTypeOK, NEW order \in Seq(Buffers), NEW outs \in SUBSET Buffers
    PROVE  LET t == CreateFromExecutionOrder(order, outs)
           IN  /\ t \in Traversals /\ t.order = order /\ t.outs = outs
               /\ \A x : x \in t.args <=> \E k \in 1..Len(order) :
                     x \in inputs[order[k]] /\ \A j \in 1..(k - 1) : x # order[j]
<1> DEFINE t == CreateFromExecutionOrder(order, outs)
           A == UNION {inputs[order[i]] \ {order[j] : j \in 1..(i - 1)} : i \in DOMAIN order}
<1>1. DOMAIN order = 1..Len(order) /\ \A i \in 1..Len(order) : order[i] \in Buffers
  OBVIOUS
<1>2. A \subseteq Buffers
  BY <1>1 DEF BuffersTypeOK
<1>3. t = [order |-> order, outs |-> outs, args |-> A]
  BY DEF CreateFromExecutionOrder
<1>4. \A x : x \in A <=> \E k \in 1..Len(order) :
         x \in inputs[order[k]] /\ \A j \in 1..(k - 1) : x # order[j]
  BY <1>1
<1> HIDE DEF A
<1> QED BY <1>2, <1>3, <1>4 DEF Traversals

\* The constants that are inserted before b.
Inserted(w, b) ==
    {i \in inputs[b] : /\ IsDeferred(i) /\ IsConstant(i)
                       /\ i \notin w.output \cup w.used \cup w.unused}

LEMMA BuffersFinite ==
    ASSUME NEW S \in SUBSET Buffers
    PROVE  IsFiniteSet(S)
<1>1. IsFiniteSet(Buffers)
  BY MaxBuffersAssumption, FS_Interval DEF Buffers
<1> QED BY <1>1, FS_Subset

LEMMA ListedBuffers ==
    ASSUME NEW S \in SUBSET Buffers
    PROVE  /\ SetToSeq(S) \in Seq(Buffers)
           /\ ToSet(SetToSeq(S)) = S
           /\ \A i, j \in DOMAIN SetToSeq(S) : SetToSeq(S)[i] = SetToSeq(S)[j] => i = j
<1>1. /\ SetToSeq(S) \in Seq(S) /\ ToSet(SetToSeq(S)) = S
      /\ \A i, j \in DOMAIN SetToSeq(S) : SetToSeq(S)[i] = SetToSeq(S)[j] => i = j
  BY BuffersFinite, SetToSeqLists
<1>2. Seq(S) \subseteq Seq(Buffers)
  OBVIOUS
<1> QED BY <1>1, <1>2

\* What ProcessDeferredOpEvent does to each field.
Taken(b, wanted) == b \in wanted \/ b \in live
ProcessedAs(w, b, wanted, v) ==
    /\ Inserted(w, b) \in SUBSET Buffers
    /\ v \in Work
    /\ v.done = w.done
    /\ v.order = w.order \o SetToSeq(Inserted(w, b)) \o <<b>>
    /\ ToSet(v.order) = ToSet(w.order) \cup Inserted(w, b) \cup {b}
    /\ v.output = w.output \cup (IF Taken(b, wanted) THEN {b} ELSE {})
    /\ v.used = w.used \cup {i \in w.unused : i \in inputs[b] /\ IsDeferred(i)}
                      \cup Inserted(w, b)
    /\ v.unused = {i \in w.unused : ~(i \in inputs[b] /\ IsDeferred(i))}
                      \cup (IF Taken(b, wanted) THEN {} ELSE {b})

LEMMA ProcessedOp ==
    ASSUME BuffersTypeOK, NEW w \in Work, NEW b \in Buffers, NEW wanted
    PROVE  ProcessedAs(w, b, wanted, ProcessDeferredOpEvent(w, b, wanted))
<1> DEFINE v == ProcessDeferredOpEvent(w, b, wanted)
           C == Inserted(w, b)
           isOutput == Taken(b, wanted)
           out == w.output \cup (IF isOutput THEN {b} ELSE {})
           use == w.used \cup {i \in w.unused : i \in inputs[b] /\ IsDeferred(i)} \cup C
           unu == {i \in w.unused : ~(i \in inputs[b] /\ IsDeferred(i))}
                                \cup (IF isOutput THEN {} ELSE {b})
           ord == w.order \o SetToSeq(C) \o <<b>>
<1>1. C \in SUBSET Buffers
  BY DEF Inserted, BuffersTypeOK
<1>2. w = [done |-> w.done, order |-> w.order, output |-> w.output, used |-> w.used,
           unused |-> w.unused]
      /\ w.done \in Seq(Traversals) /\ w.order \in Seq(Buffers) /\ w.output \subseteq Buffers
      /\ w.used \subseteq Buffers /\ w.unused \subseteq Buffers
  BY DEF Work
<1>3. v = [done |-> w.done, order |-> ord, output |-> out, used |-> use, unused |-> unu]
  <2> DEFINE read == {i \in inputs[b] : IsDeferred(i)}
             defined == w.output \cup w.used \cup w.unused
             consts == {i \in read \ defined : IsConstant(i)}
             isOut == b \in wanted \/ ~IsStale(b)
  <2>1. consts = C
    BY DEF Inserted
  <2>2. isOut <=> isOutput
    BY DEF IsStale, Taken
  <2>3. (IF isOut THEN w.output \cup {b} ELSE w.output) = out
    BY <2>2
  <2>4. w.used \cup (w.unused \cap read) \cup consts = use
    BY <2>1
  <2>5. (w.unused \ read) \cup (IF isOut THEN {} ELSE {b}) = unu
    BY <2>2
  <2>6. v = [w EXCEPT
            !.order = w.order \o SetToSeq(consts) \o <<b>>,
            !.output = IF isOut THEN @ \cup {b} ELSE @,
            !.used = @ \cup (w.unused \cap read) \cup consts,
            !.unused = (@ \ read) \cup (IF isOut THEN {} ELSE {b})]
    BY DEF ProcessDeferredOpEvent
  <2> HIDE DEF v, C, out, use, unu, isOut, consts, read
  <2> QED BY <1>2, <2>1, <2>3, <2>4, <2>5, <2>6
<1>4. SetToSeq(C) \in Seq(Buffers) /\ ToSet(SetToSeq(C)) = C
  BY <1>1, ListedBuffers
<1>5. <<b>> \in Seq(Buffers) /\ ToSet(<<b>>) = {b}
  BY ToSetOne
<1>6. w.order \o SetToSeq(C) \in Seq(Buffers) /\ ord \in Seq(Buffers)
  BY <1>2, <1>4, <1>5, ConcatProperties
<1>7. ToSet(ord) = ToSet(w.order) \cup C \cup {b}
  <2>1. ToSet(w.order \o SetToSeq(C)) = ToSet(w.order) \cup C
    BY <1>2, <1>4, ToSetConcat
  <2>2. ToSet(ord) = ToSet(w.order \o SetToSeq(C)) \cup ToSet(<<b>>)
    BY <1>5, <1>6, ToSetConcat
  <2> QED BY <2>1, <2>2, <1>5
<1>8. out \subseteq Buffers /\ use \subseteq Buffers /\ unu \subseteq Buffers
  BY <1>1, <1>2
<1>9. v \in Work
  <2> HIDE DEF v, out, use, unu, ord
  <2> QED BY <1>2, <1>3, <1>6, <1>8 DEF Work
<1>10. v.done = w.done /\ v.order = ord /\ v.output = out /\ v.used = use /\ v.unused = unu
  <2> HIDE DEF ord, use, out, unu, v
  <2> QED BY <1>3
<1> QED BY <1>1, <1>7, <1>9, <1>10 DEF ProcessedAs

(***************************************************************************)
(* The working memory is sound: defined_node_map knows the nodes of the    *)
(* order, and the finished traversals are traversals of their orders.      *)
(***************************************************************************)
Whole(t) ==
    /\ t \in Traversals
    /\ t = CreateFromExecutionOrder(t.order, t.outs)
    /\ t.outs \subseteq ToSet(t.order)
Sound(w) ==
    /\ w \in Work
    /\ ToSet(w.order) = w.output \cup w.used \cup w.unused
    /\ \A d \in DOMAIN w.done : Whole(w.done[d])

LEMMA NoWorkIsSound == Sound(NoWork)
<1>1. NoWork \in Work
  BY DEF NoWork, Work
<1>2. ToSet(<<>>) = {}
  BY DEF ToSet
<1> QED BY <1>1, <1>2 DEF Sound, NoWork

\* What FinishTraversal leaves.
Finishing(w) == w.output \cup w.unused
FinishedAs(w, v) ==
    /\ Sound(v)
    /\ v.order = <<>> /\ v.output = {} /\ v.used = {} /\ v.unused = {}
    /\ Finishing(w) = {} => v.done = w.done
    /\ Finishing(w) # {} => \E t : /\ Whole(t) /\ v.done = Append(w.done, t)
                                   /\ t.order = w.order /\ t.outs = Finishing(w)

LEMMA FinishedWork ==
    ASSUME BuffersTypeOK, NEW w, Sound(w)
    PROVE  FinishedAs(w, FinishTraversal(w))
<1> DEFINE v == FinishTraversal(w)
           outs == w.output \cup w.unused
           t == CreateFromExecutionOrder(w.order, outs)
<1>1. w.done \in Seq(Traversals) /\ w.order \in Seq(Buffers) /\ outs \in SUBSET Buffers
  BY DEF Sound, Work
<1>2. t \in Traversals /\ t.order = w.order /\ t.outs = outs
  BY <1>1, CreatedTraversal
<1>3. outs \subseteq ToSet(w.order)
  BY DEF Sound
<1>4. outs # {} => w.order # <<>>
  BY <1>1, <1>3, ToSetEmpty
<1>5. Whole(t)
  BY <1>2, <1>3 DEF Whole
<1> DEFINE D == IF outs = {} THEN w.done ELSE Append(w.done, t)
<1>6. v = [NoWork EXCEPT !.done = D]
  BY <1>4 DEF FinishTraversal
<1>7. v = [done |-> D, order |-> <<>>, output |-> {}, used |-> {}, unused |-> {}]
  <2> HIDE DEF D
  <2> QED BY <1>6 DEF NoWork
<1>8. D \in Seq(Traversals) /\ \A d \in DOMAIN D : Whole(D[d])
  <2>1. CASE outs = {}
    BY <2>1, <1>1 DEF Sound
  <2>2. CASE outs # {}
    <3>1. /\ D = Append(w.done, t) /\ D \in Seq(Traversals) /\ Len(D) = Len(w.done) + 1
          /\ \A i \in 1..Len(w.done) : D[i] = w.done[i]
          /\ D[Len(w.done) + 1] = t
      BY <2>2, <1>1, <1>2, AppendProperties
    <3>2. DOMAIN D = 1..(Len(w.done) + 1) /\ DOMAIN w.done = 1..Len(w.done) /\ Len(w.done) \in Nat
      BY <3>1, <1>1
    <3> HIDE DEF D, t, outs
    <3> QED BY <3>1, <3>2, <1>5 DEF Sound
  <2> QED BY <2>1, <2>2
<1>9. Sound(v)
  <2>1. ToSet(<<>>) = {} /\ <<>> \in Seq(Buffers)
    BY DEF ToSet
  <2> HIDE DEF v, D
  <2> QED BY <2>1, <1>7, <1>8 DEF Sound, Work
<1>10. v.order = <<>> /\ v.output = {} /\ v.used = {} /\ v.unused = {} /\ v.done = D
  <2> HIDE DEF v, D
  <2> QED BY <1>7
<1> HIDE DEF v, t
<1> QED BY <1>2, <1>5, <1>9, <1>10 DEF FinishedAs, Finishing, v

LEMMA ProcessedIsSound ==
    ASSUME BuffersTypeOK, NEW w, Sound(w), NEW b \in Buffers, NEW wanted
    PROVE  Sound(ProcessDeferredOpEvent(w, b, wanted)) /\ Sound(ProcessEvent(w, b, wanted))
<1>1. ASSUME NEW u, Sound(u) PROVE Sound(ProcessDeferredOpEvent(u, b, wanted))
  <2>1. u \in Work
    BY <1>1 DEF Sound
  <2> DEFINE v == ProcessDeferredOpEvent(u, b, wanted)
  <2>2. ProcessedAs(u, b, wanted, v)
    BY <2>1, ProcessedOp
  <2>3. v.output \cup v.used \cup v.unused
           = u.output \cup u.used \cup u.unused \cup Inserted(u, b) \cup {b}
    <3> HIDE DEF v
    <3> QED BY <2>2 DEF ProcessedAs
  <2>4. Sound(v)
    <3> HIDE DEF v
    <3> QED BY <1>1, <2>2, <2>3 DEF Sound, ProcessedAs
  <2> QED BY <2>4
<1>2. Sound(FinishTraversal(w))
  BY FinishedWork DEF FinishedAs
<1>3. Sound(FinishTraversal(ProcessDeferredOpEvent(FinishTraversal(w), b, wanted)))
  BY <1>1, <1>2, FinishedWork DEF FinishedAs
<1> QED BY <1>1, <1>3 DEF ProcessEvent

\* What was covered stays covered.
LEMMA CoverAppend ==
    ASSUME NEW plan \in Seq(Traversals), NEW t \in Traversals, NEW b
    PROVE  Cover(Append(plan, t), b) <=> Cover(plan, b) \/ (b \in t.outs /\ b \in ToSet(t.order))
<1> DEFINE q == Append(plan, t)
<1>1. /\ q \in Seq(Traversals) /\ Len(q) = Len(plan) + 1
      /\ \A i \in 1..Len(plan) : q[i] = plan[i]
      /\ q[Len(plan) + 1] = t
  BY AppendProperties
<1>2. DOMAIN q = 1..(Len(plan) + 1) /\ DOMAIN plan = 1..Len(plan) /\ Len(plan) \in Nat
  BY <1>1
<1> HIDE DEF q
<1>3. Cover(plan, b) => Cover(q, b)
  BY <1>1, <1>2 DEF Cover
<1>4. b \in t.outs /\ b \in ToSet(t.order) => Cover(q, b)
  BY <1>1, <1>2 DEF Cover
<1>5. ASSUME Cover(q, b) PROVE Cover(plan, b) \/ (b \in t.outs /\ b \in ToSet(t.order))
  <2>1. PICK d \in 1..(Len(plan) + 1) : b \in q[d].outs /\ b \in ToSet(q[d].order)
    BY <1>2, <1>5 DEF Cover
  <2>2. CASE d = Len(plan) + 1
    BY <2>1, <2>2, <1>1
  <2>3. CASE d # Len(plan) + 1
    <3>1. d \in 1..Len(plan)
      BY <2>3, <1>2
    <3> QED BY <3>1, <2>1, <1>1, <1>2 DEF Cover
  <2> QED BY <2>2, <2>3
<1> QED BY <1>3, <1>4, <1>5 DEF q

\* b will be covered when the traversal at work is finished.
Handled(w, b) == b \in w.output \cup w.unused \/ Cover(w.done, b)

LEMMA FinishHandles ==
    ASSUME BuffersTypeOK, NEW w, Sound(w), NEW b, Handled(w, b)
    PROVE  Cover(FinishTraversal(w).done, b)
<1> DEFINE v == FinishTraversal(w)
<1>1. w.done \in Seq(Traversals) /\ Finishing(w) \subseteq ToSet(w.order)
  BY DEF Sound, Work, Finishing
<1>2. FinishedAs(w, v)
  BY FinishedWork
<1> SUFFICES Cover(v.done, b)
  OBVIOUS
<1> HIDE DEF v
<1>3. CASE Finishing(w) = {}
  BY <1>2, <1>3 DEF Handled, FinishedAs, Finishing
<1>4. CASE Finishing(w) # {}
  <2>1. PICK t : Whole(t) /\ v.done = Append(w.done, t) /\ t.order = w.order
                          /\ t.outs = Finishing(w)
    BY <1>2, <1>4 DEF FinishedAs
  <2>2. (b \in t.outs /\ b \in ToSet(t.order)) \/ Cover(w.done, b)
    BY <2>1, <1>1 DEF Handled, Finishing
  <2> QED BY <2>1, <2>2, <1>1, CoverAppend DEF Whole
<1> QED BY <1>3, <1>4

(***************************************************************************)
(* The loop keeps what has to be executed: what is wanted, has a tensor,   *)
(* is a collective, or is read by nobody.                                  *)
(***************************************************************************)
Unread(b) == \A c \in Buffers : b \notin inputs[c]
Kept(w, b) == b \in w.output \/ (b \in w.unused /\ Unread(b)) \/ Cover(w.done, b)
Due(b, wanted) == Taken(b, wanted) \/ kind[b] = "collective" \/ Unread(b)

LEMMA KeptIsHandled ==
    ASSUME NEW w, NEW b, Kept(w, b)
    PROVE  Handled(w, b)
BY DEF Kept, Handled

LEMMA FinishKeeps ==
    ASSUME BuffersTypeOK, NEW w, Sound(w), NEW b, Handled(w, b)
    PROVE  Kept(FinishTraversal(w), b)
BY FinishHandles DEF Kept

LEMMA OpKeeps ==
    ASSUME BuffersTypeOK, NEW w, Sound(w), NEW e \in Buffers, NEW wanted, NEW b
    PROVE  LET v == ProcessDeferredOpEvent(w, e, wanted)
           IN  /\ Kept(w, b) => Kept(v, b)
               /\ b = e => Handled(v, b)
               /\ b = e /\ (Taken(e, wanted) \/ Unread(e)) => Kept(v, b)
<1> DEFINE v == ProcessDeferredOpEvent(w, e, wanted)
<1>1. ProcessedAs(w, e, wanted, v)
  BY ProcessedOp DEF Sound
<1> HIDE DEF v
<1>2. Kept(w, b) => Kept(v, b)
  BY <1>1 DEF ProcessedAs, Kept, Unread
<1>3. b = e => Handled(v, b)
  BY <1>1 DEF ProcessedAs, Handled
<1>4. b = e /\ (Taken(e, wanted) \/ Unread(e)) => Kept(v, b)
  BY <1>1 DEF ProcessedAs, Kept
<1> QED BY <1>2, <1>3, <1>4 DEF v

LEMMA EventKeeps ==
    ASSUME BuffersTypeOK, NEW w, Sound(w), NEW e \in Buffers, NEW wanted, NEW b
    PROVE  /\ Kept(w, b) => Kept(ProcessEvent(w, e, wanted), b)
           /\ b = e /\ Due(e, wanted) => Kept(ProcessEvent(w, e, wanted), b)
<1> DEFINE v == ProcessEvent(w, e, wanted)
           x == FinishTraversal(w)
           y == ProcessDeferredOpEvent(x, e, wanted)
<1>1. CASE kind[e] = "collective"
  <2>1. v = FinishTraversal(y)
    BY <1>1 DEF ProcessEvent
  <2>2. Sound(x) /\ Sound(y)
    BY FinishedWork, ProcessedIsSound DEF FinishedAs
  <2>3. Kept(w, b) => Kept(x, b)
    BY KeptIsHandled, FinishKeeps
  <2>4. /\ Kept(x, b) => Kept(y, b)
        /\ b = e => Handled(y, b)
    <3> HIDE DEF x
    <3> QED BY <2>2, OpKeeps
  <2>5. Handled(y, b) => Kept(FinishTraversal(y), b)
    <3> HIDE DEF y
    <3> QED BY <2>2, FinishKeeps
  <2>6. Kept(y, b) => Handled(y, b)
    <3> HIDE DEF y
    <3> QED BY KeptIsHandled
  <2> HIDE DEF x, y, v
  <2>7. (Kept(w, b) => Kept(v, b)) /\ (b = e => Kept(v, b))
    BY <2>1, <2>3, <2>4, <2>5, <2>6
  <2> QED BY <2>7 DEF v
<1>2. CASE kind[e] # "collective"
  BY <1>2, OpKeeps DEF ProcessEvent, Due
<1> QED BY <1>1, <1>2

LEMMA ScanKeeps ==
    ASSUME BuffersTypeOK, NEW ev \in Seq(Buffers), NEW wanted, NEW alive
    PROVE  LET w == ProcessEvents(ev, wanted, alive)
           IN  /\ Sound(w)
               /\ \A b \in ToSet(ev) :
                     b \in alive /\ IsDeferred(b) /\ Due(b, wanted) => Kept(w, b)
<1>1. PICK g : /\ g[0] = NoWork
               /\ \A i \in 1..Len(ev) : g[i] = ScanStep(ev, wanted, alive, i, g[i - 1])
               /\ ProcessEvents(ev, wanted, alive) = g[Len(ev)]
  BY ScanSteps
<1>2. Len(ev) \in Nat /\ DOMAIN ev = 1..Len(ev) /\ \A i \in 1..Len(ev) : ev[i] \in Buffers
  OBVIOUS
<1> DEFINE Q(b) == b \in alive /\ IsDeferred(b) /\ Due(b, wanted)
           T == {i \in 0..Len(ev) : Sound(g[i]) /\ \A j \in 1..i : Q(ev[j]) => Kept(g[i], ev[j])}
<1>3. 0 \in T
  BY <1>1, <1>2, NoWorkIsSound
<1>4. ASSUME NEW i \in 1..Len(ev), i - 1 \in T PROVE i \in T
  <2>1. Sound(g[i - 1]) /\ \A j \in 1..(i - 1) : Q(ev[j]) => Kept(g[i - 1], ev[j])
    BY <1>4
  <2>2. g[i] = ScanStep(ev, wanted, alive, i, g[i - 1]) /\ ev[i] \in Buffers
    BY <1>1, <1>2
  <2>3. CASE ev[i] \in alive /\ IsDeferred(ev[i])
    <3>1. g[i] = ProcessEvent(g[i - 1], ev[i], wanted)
      BY <2>2, <2>3 DEF ScanStep
    <3>2. Sound(g[i])
      BY <3>1, <2>1, <2>2, ProcessedIsSound
    <3>3. ASSUME NEW j \in 1..i, Q(ev[j]) PROVE Kept(g[i], ev[j])
      <4> DEFINE u == g[i - 1]
                 e == ev[i]
                 b == ev[j]
      <4>0. Sound(u) /\ e \in Buffers
        BY <2>1, <2>2
      <4>00. /\ Kept(u, b) => Kept(ProcessEvent(u, e, wanted), b)
             /\ b = e /\ Due(e, wanted) => Kept(ProcessEvent(u, e, wanted), b)
        <5> HIDE DEF u, e, b
        <5> QED BY <4>0, EventKeeps
      <4>1. /\ Kept(g[i - 1], ev[j]) => Kept(g[i], ev[j])
            /\ ev[j] = ev[i] /\ Due(ev[i], wanted) => Kept(g[i], ev[j])
        BY <3>1, <4>00
      <4>2. CASE j = i
        BY <4>1, <4>2, <3>3
      <4>3. CASE j # i
        <5>1. j \in 1..(i - 1)
          BY <4>3
        <5> QED BY <5>1, <4>1, <3>3, <2>1
      <4> QED BY <4>2, <4>3
    <3> QED BY <3>2, <3>3
  <2>4. CASE ~(ev[i] \in alive /\ IsDeferred(ev[i]))
    <3>1. g[i] = g[i - 1]
      BY <2>2, <2>4 DEF ScanStep
    <3>2. ASSUME NEW j \in 1..i, Q(ev[j]) PROVE Kept(g[i], ev[j])
      <4>1. j \in 1..(i - 1)
        BY <3>2, <2>4
      <4> QED BY <4>1, <3>1, <3>2, <2>1
    <3> QED BY <3>1, <3>2, <2>1
  <2> QED BY <2>3, <2>4
<1>5. Len(ev) \in T
  <2> HIDE DEF T
  <2>1. \A i \in 0..Len(ev) : i \in T
    BY <1>2, <1>3, <1>4, UpTo
  <2> QED BY <1>2, <2>1
<1>6. ASSUME NEW b \in ToSet(ev), Q(b) PROVE Kept(g[Len(ev)], b)
  <2>1. PICK j \in 1..Len(ev) : b = ev[j]
    BY <1>2 DEF ToSet
  <2> QED BY <2>1, <1>5, <1>6
<1> QED BY <1>1, <1>5, <1>6

(***************************************************************************)
(* PrepareTraversals.                                                      *)
(***************************************************************************)
WantedConstants(wanted) == {b \in wanted : IsConstant(b) /\ IsDeferred(b)}
WithConstants(w, wanted) ==
    [w EXCEPT !.order = @ \o SetToSeq(WantedConstants(wanted)
                                         \ (w.output \cup w.used \cup w.unused)),
              !.output = @ \cup WantedConstants(wanted),
              !.used = @ \ WantedConstants(wanted)]

LEMMA PreparedLast ==
    ASSUME NEW ev, NEW wanted, NEW held
    PROVE  PrepareTraversals(ev, wanted, held) =
             FinishTraversal(WithConstants(
                 ProcessEvents(ev, wanted, Alive(ev, held)), wanted)).done
BY DEF PrepareTraversals, WithConstants, WantedConstants

\* What appending the wanted constants does to each field.
AppendedAs(w, wanted, v) ==
    LET C == WantedConstants(wanted)
        N == C \ ToSet(w.order)
    IN  /\ N \in SUBSET Buffers
        /\ v.done = w.done
        /\ v.order = w.order \o SetToSeq(N)
        /\ v.output = w.output \cup C
        /\ v.unused = w.unused
        /\ Sound(v)

LEMMA AppendedConstants ==
    ASSUME BuffersTypeOK, NEW w, Sound(w), NEW wanted \in SUBSET Buffers
    PROVE  AppendedAs(w, wanted, WithConstants(w, wanted))
<1> DEFINE C == WantedConstants(wanted)
           N == C \ ToSet(w.order)
           v == WithConstants(w, wanted)
           ord == w.order \o SetToSeq(N)
<1>1. C \in SUBSET Buffers /\ N \in SUBSET Buffers
  BY DEF WantedConstants
<1>2. /\ w = [done |-> w.done, order |-> w.order, output |-> w.output, used |-> w.used,
              unused |-> w.unused]
      /\ w.done \in Seq(Traversals) /\ w.order \in Seq(Buffers) /\ w.output \subseteq Buffers
      /\ w.used \subseteq Buffers /\ w.unused \subseteq Buffers
      /\ ToSet(w.order) = w.output \cup w.used \cup w.unused
  BY DEF Sound, Work
<1>3. v = [w EXCEPT !.order = @ \o SetToSeq(N), !.output = @ \cup C, !.used = @ \ C]
  BY <1>2 DEF WithConstants
<1>4. v = [done |-> w.done, order |-> ord, output |-> w.output \cup C, used |-> w.used \ C,
           unused |-> w.unused]
  <2> HIDE DEF v, C, N
  <2> QED BY <1>2, <1>3
<1>5. SetToSeq(N) \in Seq(Buffers) /\ ToSet(SetToSeq(N)) = N
  BY <1>1, ListedBuffers
<1>6. ord \in Seq(Buffers) /\ ToSet(ord) = ToSet(w.order) \cup N
  <2>1. ord \in Seq(Buffers)
    BY <1>2, <1>5, ConcatProperties
  <2>2. ToSet(ord) = ToSet(w.order) \cup ToSet(SetToSeq(N))
    <3> HIDE DEF N
    <3> QED BY <1>2, <1>5, ToSetConcat
  <2> QED BY <2>1, <2>2, <1>5
<1>7. Sound(v)
  <2> HIDE DEF v, C, ord
  <2>1. v \in Work
    BY <1>1, <1>2, <1>4, <1>6 DEF Work
  <2>2. ToSet(v.order) = v.output \cup v.used \cup v.unused
    BY <1>2, <1>4, <1>6
  <2>3. v.done = w.done
    BY <1>4
  <2> QED BY <2>1, <2>2, <2>3 DEF Sound
<1>8. v.done = w.done /\ v.order = ord /\ v.output = w.output \cup C /\ v.unused = w.unused
  <2> HIDE DEF v, C, ord
  <2> QED BY <1>4
<1> HIDE DEF v
<1>9. AppendedAs(w, wanted, v)
  BY <1>1, <1>7, <1>8 DEF AppendedAs
<1> QED BY <1>9 DEF v

\* What is due and has not expired gets a traversal, and so do the constants
\* that are asked for.
LEMMA PreparedCovers ==
    ASSUME BuffersTypeOK, NEW ev \in Seq(Buffers), NEW wanted \in SUBSET Buffers, NEW held
    PROVE  /\ PrepareTraversals(ev, wanted, held) \in Seq(Traversals)
           /\ \A d \in DOMAIN PrepareTraversals(ev, wanted, held) :
                 Whole(PrepareTraversals(ev, wanted, held)[d])
           /\ \A b \in ToSet(ev) :
                 b \in Alive(ev, held) /\ IsDeferred(b) /\ Due(b, wanted)
                    => Cover(PrepareTraversals(ev, wanted, held), b)
           /\ \A b \in WantedConstants(wanted) : Cover(PrepareTraversals(ev, wanted, held), b)
<1> DEFINE w == ProcessEvents(ev, wanted, Alive(ev, held))
           v == WithConstants(w, wanted)
           f == FinishTraversal(v)
           T == PrepareTraversals(ev, wanted, held)
<1>1. /\ Sound(w)
      /\ \A b \in ToSet(ev) :
            b \in Alive(ev, held) /\ IsDeferred(b) /\ Due(b, wanted) => Kept(w, b)
  BY ScanKeeps
<1>2. T = f.done
  BY PreparedLast
<1>3. AppendedAs(w, wanted, v)
  <2> HIDE DEF w
  <2> QED BY <1>1, AppendedConstants
<1>4. Sound(v) /\ Sound(f)
  <2>1. Sound(v)
    BY <1>3 DEF AppendedAs
  <2> HIDE DEF v
  <2> QED BY <2>1, FinishedWork DEF FinishedAs
<1>5. ASSUME NEW b, Kept(w, b) \/ b \in WantedConstants(wanted) PROVE Cover(T, b)
  <2>1. Handled(v, b)
    <3> HIDE DEF v, w
    <3> QED BY <1>3, <1>5 DEF AppendedAs, Kept, Handled
  <2>2. Cover(f.done, b)
    <3> HIDE DEF v
    <3> QED BY <2>1, <1>4, FinishHandles
  <2> QED BY <1>2, <2>2
<1>6. T \in Seq(Traversals) /\ \A d \in DOMAIN T : Whole(T[d])
  <2> HIDE DEF f, T
  <2> QED BY <1>2, <1>4 DEF Sound, Work
<1> HIDE DEF w, v, f
<1> QED BY <1>1, <1>5, <1>6

(***************************************************************************)
(* ApplySplitPoints.  Slice: q is order from lo to hi.  A piece ends with  *)
(* its output and begins behind an earlier point, and every point in front *)
(* of it is the output of an earlier piece.                                *)
(***************************************************************************)
Slice(q, order, lo, hi) ==
    /\ q \in Seq(Buffers)
    /\ Len(q) = hi - lo + 1
    /\ \A k \in 1..Len(q) : q[k] = order[lo + k - 1]
CoverBefore(plan, d, b) ==
    \E l \in 1..(d - 1) : b \in plan[l].outs /\ b \in ToSet(plan[l].order)
Piece(order, points, plan, d, lo, hi) ==
    /\ Slice(plan[d].order, order, lo, hi)
    /\ plan[d] = CreateFromExecutionOrder(plan[d].order, {order[hi]})
    /\ plan[d].outs = {order[hi]}
    /\ order[hi] \in points
    /\ lo = 1 \/ order[lo - 1] \in points
    /\ \A p \in 1..(lo - 1) : order[p] \in points => CoverBefore(plan, d, order[p])
InFront(order, plan) ==
    \A d, e \in DOMAIN plan : d < e =>
        \A a \in ToSet(plan[d].order), c \in ToSet(plan[e].order) :
            \E p, q \in DOMAIN order : p < q /\ a = order[p] /\ c = order[q]

\* After i nodes, the last of them that is a point is at s.
CutTo(order, points, i, w, s) ==
    /\ w = [order |-> w.order, done |-> w.done]
    /\ Slice(w.order, order, s + 1, i)
    /\ s = 0 \/ order[s] \in points
    /\ \A p \in (s + 1)..i : order[p] \notin points
    /\ w.done \in Seq(Traversals)
    /\ \A d \in 1..Len(w.done) : \E lo \in 1..s : \E hi \in lo..s :
          Piece(order, points, w.done, d, lo, hi)
    /\ \A p \in 1..s : order[p] \in points => Cover(w.done, order[p])
    /\ \A d \in 1..Len(w.done) : \A a \in ToSet(w.done[d].order) :
          \E p \in 1..s : a = order[p]
    /\ InFront(order, w.done)

LEMMA SliceAppend ==
    ASSUME NEW q, NEW order \in Seq(Buffers), NEW lo \in Nat \ {0}, NEW i \in 1..Len(order),
           lo <= i, Slice(q, order, lo, i - 1)
    PROVE  Slice(Append(q, order[i]), order, lo, i)
<1>1. q \in Seq(Buffers) /\ Len(q) = i - lo /\ order[i] \in Buffers
  BY DEF Slice
<1>2. /\ Append(q, order[i]) \in Seq(Buffers) /\ Len(Append(q, order[i])) = Len(q) + 1
      /\ \A k \in 1..Len(q) : Append(q, order[i])[k] = q[k]
      /\ Append(q, order[i])[Len(q) + 1] = order[i]
  BY <1>1, AppendProperties
<1> DEFINE r == Append(q, order[i])
<1> HIDE DEF r
<1>3. ASSUME NEW k \in 1..Len(r) PROVE r[k] = order[lo + k - 1]
  <2>1. CASE k = Len(q) + 1
    <3>1. lo + k - 1 = i
      BY <1>1, <2>1
    <3> QED BY <1>2, <2>1, <3>1 DEF r
  <2>2. CASE k # Len(q) + 1
    <3>1. k \in 1..Len(q)
      BY <1>1, <1>2, <2>2 DEF r
    <3> QED BY <1>2, <3>1 DEF r, Slice
  <2> QED BY <2>1, <2>2
<1>4. Slice(r, order, lo, i)
  BY <1>1, <1>2, <1>3 DEF Slice, r
<1> QED BY <1>4 DEF r

LEMMA SliceElements ==
    ASSUME NEW q, NEW order \in Seq(Buffers), NEW lo \in Nat \ {0}, NEW hi \in Nat,
           lo <= hi, hi <= Len(order), Slice(q, order, lo, hi)
    PROVE  /\ \A x : x \in ToSet(q) <=> \E p \in lo..hi : x = order[p]
           /\ Len(q) = hi - lo + 1 /\ DOMAIN q = 1..Len(q)
<1>1. q \in Seq(Buffers) /\ Len(q) = hi - lo + 1 /\ DOMAIN q = 1..Len(q)
  BY DEF Slice
<1>2. ASSUME NEW x \in ToSet(q) PROVE \E p \in lo..hi : x = order[p]
  <2>1. PICK k \in 1..Len(q) : x = q[k]
    BY <1>1 DEF ToSet
  <2>2. lo + k - 1 \in lo..hi /\ x = order[lo + k - 1]
    BY <1>1, <2>1 DEF Slice
  <2> QED BY <2>2
<1>3. ASSUME NEW p \in lo..hi PROVE order[p] \in ToSet(q)
  <2>1. p - lo + 1 \in 1..Len(q) /\ lo + (p - lo + 1) - 1 = p
    BY <1>1
  <2>2. q[p - lo + 1] = order[p]
    BY <2>1 DEF Slice
  <2> QED BY <2>1, <2>2, <1>1 DEF ToSet
<1> QED BY <1>1, <1>2, <1>3

\* A node that is no point is added to the piece at work.
LEMMA CutGoesOn ==
    ASSUME NEW order \in Seq(Buffers), NEW points, NEW i \in 1..Len(order), NEW w,
           NEW s \in 0..(i - 1), CutTo(order, points, i - 1, w, s), order[i] \notin points
    PROVE  CutTo(order, points, i, CutStep(order, points, i, w), s)
<1> DEFINE v == CutStep(order, points, i, w)
<1>1. v = [w EXCEPT !.order = Append(@, order[i])]
  BY DEF CutStep
<1>2. v = [order |-> Append(w.order, order[i]), done |-> w.done]
  <2>1. w = [order |-> w.order, done |-> w.done]
    BY DEF CutTo
  <2> HIDE DEF v
  <2> QED BY <1>1, <2>1
<1>3. Slice(v.order, order, s + 1, i)
  <2>1. Slice(w.order, order, s + 1, i - 1)
    BY DEF CutTo
  <2>2. v.order = Append(w.order, order[i])
    <3> HIDE DEF v
    <3> QED BY <1>2
  <2>3. s + 1 \in Nat \ {0} /\ s + 1 <= i
    OBVIOUS
  <2> HIDE DEF v
  <2> QED BY <2>1, <2>2, <2>3, SliceAppend
<1>4. v.done = w.done /\ v = [order |-> v.order, done |-> v.done]
  <2> HIDE DEF v
  <2> QED BY <1>2
<1>5. \A p \in (s + 1)..i : order[p] \notin points
  <2> SUFFICES ASSUME NEW p \in (s + 1)..i PROVE order[p] \notin points
    OBVIOUS
  <2>1. p = i \/ p \in (s + 1)..(i - 1)
    OBVIOUS
  <2> QED BY <2>1 DEF CutTo
<1> SUFFICES CutTo(order, points, i, v, s)
  OBVIOUS
<1> HIDE DEF v
<1> QED BY <1>3, <1>4, <1>5 DEF CutTo

\* A point closes the piece.
LEMMA CutCloses ==
    ASSUME BuffersTypeOK, NEW order \in Seq(Buffers), NEW points, NEW i \in 1..Len(order), NEW w,
           NEW s \in 0..(i - 1), CutTo(order, points, i - 1, w, s), order[i] \in points
    PROVE  CutTo(order, points, i, CutStep(order, points, i, w), i)
<1> DEFINE v == CutStep(order, points, i, w)
           q == Append(w.order, order[i])
           t == CreateFromExecutionOrder(q, {order[i]})
           n == Len(w.done)
           D == Append(w.done, t)
<1>1. v = [order |-> <<>>, done |-> D]
  BY DEF CutStep
<1>2. v.order = <<>> /\ v.done = D /\ v = [order |-> v.order, done |-> v.done]
  <2> HIDE DEF v, D
  <2> QED BY <1>1
<1>3. order[i] \in Buffers /\ s + 1 \in Nat \ {0} /\ s + 1 <= i /\ Slice(w.order, order, s + 1, i - 1)
  BY DEF CutTo
<1>4. Slice(q, order, s + 1, i) /\ q \in Seq(Buffers)
  <2>1. Slice(q, order, s + 1, i)
    BY <1>3, SliceAppend
  <2> QED BY <2>1 DEF Slice
<1>5. t \in Traversals /\ t.order = q /\ t.outs = {order[i]}
  <2> HIDE DEF q
  <2> QED BY <1>3, <1>4, CreatedTraversal
<1>6. w.done \in Seq(Traversals) /\ n \in Nat /\ DOMAIN w.done = 1..n
  BY DEF CutTo
<1>7. /\ D \in Seq(Traversals) /\ Len(D) = n + 1 /\ DOMAIN D = 1..(n + 1)
      /\ \A d \in 1..n : D[d] = w.done[d]
      /\ D[n + 1] = t
  <2> HIDE DEF t
  <2>1. /\ D \in Seq(Traversals) /\ Len(D) = n + 1
        /\ \A d \in 1..n : D[d] = w.done[d]
        /\ D[n + 1] = t
    BY <1>5, <1>6, AppendProperties
  <2> QED BY <2>1
<1>8. \A x : x \in ToSet(q) <=> \E p \in (s + 1)..i : x = order[p]
  <2> DEFINE lo == s + 1
  <2>1. i \in Nat /\ i <= Len(order) /\ lo \in Nat \ {0} /\ lo <= i
    OBVIOUS
  <2>2. Slice(q, order, lo, i)
    BY <1>4
  <2> HIDE DEF q, lo
  <2>3. \A x : x \in ToSet(q) <=> \E p \in lo..i : x = order[p]
    BY <2>1, <2>2, SliceElements
  <2> QED BY <2>3 DEF lo
<1>9. \A b : Cover(D, b) <=> Cover(w.done, b) \/ (b \in t.outs /\ b \in ToSet(t.order))
  <2> HIDE DEF t
  <2> QED BY <1>5, <1>6, CoverAppend
<1>10. t = CreateFromExecutionOrder(t.order, {order[i]})
  BY <1>5
<1> HIDE DEF v, q, t, D, n
<1>11. \A p \in 1..i : order[p] \in points => Cover(D, order[p])
  <2> SUFFICES ASSUME NEW p \in 1..i, order[p] \in points PROVE Cover(D, order[p])
    OBVIOUS
  <2>1. CASE p = i
    BY <2>1, <1>5, <1>8, <1>9
  <2>2. CASE p # i
    <3>1. p \in 1..s \/ p \in (s + 1)..(i - 1)
      BY <2>2
    <3>2. p \in 1..s
      BY <3>1 DEF CutTo
    <3> QED BY <3>2, <1>9 DEF CutTo
  <2> QED BY <2>1, <2>2
<1>12. \A d \in 1..Len(D) : \A a \in ToSet(D[d].order) : \E p \in 1..i : a = order[p]
  <2> SUFFICES ASSUME NEW d \in 1..Len(D), NEW a \in ToSet(D[d].order)
               PROVE  \E p \in 1..i : a = order[p]
    OBVIOUS
  <2>1. CASE d = n + 1
    <3>1. PICK p \in (s + 1)..i : a = order[p]
      BY <2>1, <1>5, <1>7, <1>8
    <3> QED BY <3>1
  <2>2. CASE d # n + 1
    <3>1. d \in 1..n /\ D[d] = w.done[d]
      BY <2>2, <1>6, <1>7
    <3>2. PICK p \in 1..s : a = order[p]
      BY <3>1 DEF CutTo, n
    <3> QED BY <3>2
  <2> QED BY <2>1, <2>2
<1>13. InFront(order, D)
  <2> SUFFICES ASSUME NEW d \in DOMAIN D, NEW e \in DOMAIN D, d < e,
                      NEW a \in ToSet(D[d].order), NEW c \in ToSet(D[e].order)
               PROVE  \E p, r \in DOMAIN order : p < r /\ a = order[p] /\ c = order[r]
    BY DEF InFront
  <2>0. d \in 1..(n + 1) /\ e \in 1..(n + 1)
    BY <1>7
  <2>1. d \in 1..n /\ D[d] = w.done[d] /\ DOMAIN w.done = 1..n
    BY <2>0, <1>6, <1>7 DEF n
  <2>2. CASE e = n + 1
    <3>1. PICK p \in 1..s : a = order[p]
      BY <2>1 DEF CutTo, n
    <3>2. PICK r \in (s + 1)..i : c = order[r]
      BY <2>2, <1>5, <1>7, <1>8
    <3> QED BY <3>1, <3>2
  <2>3. CASE e # n + 1
    <3>1. e \in 1..n /\ D[e] = w.done[e]
      BY <2>0, <2>3, <1>6, <1>7
    <3>2. InFront(order, w.done)
      BY DEF CutTo
    <3>3. /\ d \in DOMAIN w.done /\ e \in DOMAIN w.done
          /\ a \in ToSet(w.done[d].order) /\ c \in ToSet(w.done[e].order)
      BY <2>1, <3>1
    <3>4. \E p, r \in DOMAIN order : p < r /\ a = order[p] /\ c = order[r]
      <4>1. \A aa \in ToSet(w.done[d].order), cc \in ToSet(w.done[e].order) :
              \E p, r \in DOMAIN order : p < r /\ aa = order[p] /\ cc = order[r]
        BY <3>2, <3>3, Zenon DEF InFront
      <4> QED BY <4>1, <3>3
    <3> QED BY <3>4
  <2> QED BY <2>2, <2>3
<1>14. \A d \in 1..Len(D) : \E lo \in 1..i : \E hi \in lo..i : Piece(order, points, D, d, lo, hi)
  <2> SUFFICES ASSUME NEW d \in 1..Len(D)
               PROVE  \E lo \in 1..i : \E hi \in lo..i : Piece(order, points, D, d, lo, hi)
    OBVIOUS
  <2>1. CASE d = n + 1
    <3>1. D[d] = t /\ Slice(D[d].order, order, s + 1, i)
      BY <2>1, <1>4, <1>5, <1>7
    <3>2. s + 1 = 1 \/ order[(s + 1) - 1] \in points
      BY DEF CutTo
    <3>3. ASSUME NEW p \in 1..((s + 1) - 1), order[p] \in points
          PROVE  CoverBefore(D, d, order[p])
      <4>1. PICK l \in 1..n : order[p] \in w.done[l].outs /\ order[p] \in ToSet(w.done[l].order)
        <5>1. Cover(w.done, order[p])
          BY <3>3 DEF CutTo
        <5> QED BY <5>1, <1>6 DEF Cover
      <4>2. l \in 1..(d - 1) /\ D[l] = w.done[l]
        BY <2>1, <1>6, <1>7
      <4> QED BY <4>1, <4>2 DEF CoverBefore
    <3>4. Piece(order, points, D, d, s + 1, i)
      BY <3>1, <3>2, <3>3, <1>5, <1>10 DEF Piece
    <3>5. s + 1 \in 1..i /\ i \in (s + 1)..i
      OBVIOUS
    <3> QED BY <3>4, <3>5
  <2>2. CASE d # n + 1
    <3>1. d \in 1..n /\ D[d] = w.done[d]
      BY <2>2, <1>6, <1>7
    <3>2. PICK lo \in 1..s : \E hi \in lo..s : Piece(order, points, w.done, d, lo, hi)
      BY <3>1 DEF CutTo, n
    <3>3. PICK hi \in lo..s : Piece(order, points, w.done, d, lo, hi)
      BY <3>2
    <3>4. ASSUME NEW p \in 1..(lo - 1), order[p] \in points
          PROVE  CoverBefore(D, d, order[p])
      <4>1. PICK l \in 1..(d - 1) : order[p] \in w.done[l].outs
                                     /\ order[p] \in ToSet(w.done[l].order)
        BY <3>3, <3>4 DEF Piece, CoverBefore
      <4>2. D[l] = w.done[l]
        BY <3>1, <1>6, <1>7
      <4> QED BY <4>1, <4>2 DEF CoverBefore
    <3>5. Piece(order, points, D, d, lo, hi)
      BY <3>1, <3>3, <3>4 DEF Piece
    <3>6. lo \in 1..i /\ hi \in lo..i
      OBVIOUS
    <3> QED BY <3>5, <3>6
  <2> QED BY <2>1, <2>2
<1>15. Slice(<<>>, order, i + 1, i)
  BY DEF Slice
<1>16. CutTo(order, points, i, v, i)
  BY <1>2, <1>7, <1>11, <1>12, <1>13, <1>14, <1>15 DEF CutTo
<1> QED BY <1>16 DEF v

LEMMA CutPieces ==
    ASSUME BuffersTypeOK, NEW order \in Seq(Buffers), NEW points
    PROVE  \E w : \E s \in 0..Len(order) :
              /\ ApplySplitPoints(order, points) = w.done
              /\ CutTo(order, points, Len(order), w, s)
<1>1. PICK g : /\ g[0] = NoCut
               /\ \A i \in 1..Len(order) : g[i] = CutStep(order, points, i, g[i - 1])
               /\ ApplySplitPoints(order, points) = g[Len(order)].done
  BY CutSteps
<1>2. Len(order) \in Nat
  OBVIOUS
<1> DEFINE T == {i \in 0..Len(order) : \E s \in 0..i : CutTo(order, points, i, g[i], s)}
<1>3. 0 \in T
  <2>1. NoCut.order = <<>> /\ NoCut.done = <<>> /\ NoCut = [order |-> <<>>, done |-> <<>>]
    BY DEF NoCut
  <2>2. Slice(<<>>, order, 1, 0)
    BY DEF Slice
  <2>3. CutTo(order, points, 0, NoCut, 0)
    <3>1. <<>> \in Seq(Traversals) /\ Len(<<>>) = 0 /\ DOMAIN <<>> = {}
      OBVIOUS
    <3> QED BY <2>1, <2>2, <3>1 DEF CutTo, InFront
  <2> QED BY <1>1, <1>2, <2>3
<1>4. ASSUME NEW i \in 1..Len(order), i - 1 \in T PROVE i \in T
  <2>1. PICK s \in 0..(i - 1) : CutTo(order, points, i - 1, g[i - 1], s)
    BY <1>4
  <2>2. g[i] = CutStep(order, points, i, g[i - 1])
    BY <1>1
  <2> DEFINE u == g[i - 1]
  <2>3. CASE order[i] \in points
    <3>1. CutTo(order, points, i, CutStep(order, points, i, u), i)
      <4>1. CutTo(order, points, i - 1, u, s)
        BY <2>1
      <4> HIDE DEF u
      <4> QED BY <4>1, <2>3, CutCloses
    <3> QED BY <3>1, <2>2
  <2>4. CASE order[i] \notin points
    <3>1. CutTo(order, points, i, CutStep(order, points, i, u), s)
      <4>1. CutTo(order, points, i - 1, u, s)
        BY <2>1
      <4> HIDE DEF u
      <4> QED BY <4>1, <2>4, CutGoesOn
    <3>2. s \in 0..i
      OBVIOUS
    <3> QED BY <3>1, <3>2, <2>2
  <2> QED BY <2>3, <2>4
<1>5. Len(order) \in T
  <2> HIDE DEF T
  <2>1. \A i \in 0..Len(order) : i \in T
    BY <1>2, <1>3, <1>4, UpTo
  <2> QED BY <1>2, <2>1
<1> QED BY <1>1, <1>5

(***************************************************************************)
(* SplitAllMaterializationPoints.  A node that is no point is not read     *)
(* beyond the next point, if there is one.                                 *)
(***************************************************************************)
Repeats(order) == \E j, k \in DOMAIN order : j < k /\ order[j] = order[k]
NotReadBeyond(order, points, p) ==
    \A m \in DOMAIN order : p < m /\ order[m] \in points =>
        \E r \in (p + 1)..m : order[r] \in points /\ lastChild[order[p]] <= order[r]

\* The nodes from lo to the end have been visited.
VisitedTo(order, required, lo, acc) ==
    /\ acc = [at |-> acc.at, points |-> acc.points]
    /\ required \subseteq acc.points
    /\ acc.points \subseteq required \cup {order[p] : p \in lo..Len(order)}
    /\ acc.at = 0 => \A p \in lo..Len(order) : order[p] \notin acc.points
    /\ acc.at # 0 => \E m \in lo..Len(order) :
          /\ acc.at = order[m] /\ order[m] \in acc.points
          /\ \A p \in lo..(m - 1) : order[p] \notin acc.points
    /\ \A p \in lo..Len(order) : order[p] \in acc.points \/ NotReadBeyond(order, acc.points, p)

LEMMA VisitStepKeeps ==
    ASSUME BuffersTypeOK, NEW order \in Seq(Buffers), ~Repeats(order), NEW required,
           NEW i \in 1..Len(order), NEW acc,
           VisitedTo(order, required, Len(order) + 1 - (i - 1), acc)
    PROVE  VisitedTo(order, required, Len(order) + 1 - i, VisitStep(order, required, i, acc))
<1> DEFINE n == Len(order)
           lo == n + 1 - i
           b == order[lo]
           v == VisitStep(order, required, i, acc)
<1>1. /\ n \in Nat /\ lo \in 1..n /\ DOMAIN order = 1..n /\ n + 1 - (i - 1) = lo + 1
      /\ b \in Buffers /\ b \in Nat /\ b # 0
  BY MaxBuffersAssumption DEF Buffers
<1>2. VisitedTo(order, required, lo + 1, acc)
  BY <1>1
<1>3. \A p \in (lo + 1)..n : order[p] # b
  BY <1>1 DEF Repeats
<1>4. v = IF b \in required THEN [acc EXCEPT !.at = b]
          ELSE IF acc.at # 0 /\ lastChild[b] > acc.at
          THEN [at |-> b, points |-> acc.points \cup {b}]
          ELSE acc
  BY DEF VisitStep
<1>5. \A p \in lo..n : p = lo \/ p \in (lo + 1)..n
  BY <1>1
<1> SUFFICES VisitedTo(order, required, lo, v)
  OBVIOUS
<1> HIDE DEF v, lo, b, n
<1>6. CASE b \in required
  <2>1. v = [at |-> b, points |-> acc.points]
    <3>1. acc = [at |-> acc.at, points |-> acc.points]
      BY <1>2 DEF VisitedTo
    <3> QED BY <3>1, <1>4, <1>6
  <2>2. v.at = b /\ v.points = acc.points
    BY <2>1
  <2>3. b \in acc.points
    BY <1>2, <1>6 DEF VisitedTo
  <2>4. \A p \in lo..n : order[p] \in acc.points \/ NotReadBeyond(order, acc.points, p)
    BY <1>2, <1>5, <2>3 DEF VisitedTo, b, n
  <2>5. acc.points \subseteq required \cup {order[p] : p \in lo..n}
    BY <1>1, <1>2 DEF VisitedTo, n
  <2>6. \E m \in lo..n : /\ b = order[m] /\ order[m] \in acc.points
                         /\ \A p \in lo..(m - 1) : order[p] \notin acc.points
    BY <1>1, <2>3 DEF b
  <2> QED BY <1>1, <1>2, <2>1, <2>2, <2>4, <2>5, <2>6 DEF VisitedTo, n
<1>7. CASE b \notin required /\ acc.at # 0 /\ lastChild[b] > acc.at
  <2>1. v = [at |-> b, points |-> acc.points \cup {b}]
    BY <1>4, <1>7
  <2>2. v.at = b /\ v.points = acc.points \cup {b}
    BY <2>1
  <2>3. \A p \in (lo + 1)..n : order[p] \in v.points <=> order[p] \in acc.points
    BY <1>3, <2>2
  <2>4. ASSUME NEW p \in (lo + 1)..n, order[p] \notin acc.points
        PROVE  NotReadBeyond(order, v.points, p)
    <3>1. NotReadBeyond(order, acc.points, p)
      BY <1>2, <2>4 DEF VisitedTo, n
    <3> SUFFICES ASSUME NEW m \in 1..n, p < m, order[m] \in v.points
                 PROVE  \E r \in (p + 1)..m : order[r] \in v.points
                                              /\ lastChild[order[p]] <= order[r]
      BY <1>1 DEF NotReadBeyond
    <3>2. order[m] \in acc.points
      BY <1>1, <2>3
    <3>3. PICK r \in (p + 1)..m : order[r] \in acc.points /\ lastChild[order[p]] <= order[r]
      BY <1>1, <3>1, <3>2 DEF NotReadBeyond
    <3> QED BY <2>2, <3>3
  <2>5. \A p \in lo..n : order[p] \in v.points \/ NotReadBeyond(order, v.points, p)
    BY <1>5, <2>2, <2>3, <2>4 DEF b
  <2>6. v.points \subseteq required \cup {order[p] : p \in lo..n}
    BY <1>1, <1>2, <2>2 DEF VisitedTo, n, b
  <2>7. \E m \in lo..n : /\ b = order[m] /\ order[m] \in v.points
                         /\ \A p \in lo..(m - 1) : order[p] \notin v.points
    BY <1>1, <2>2 DEF b
  <2> QED BY <1>1, <1>2, <2>1, <2>2, <2>5, <2>6, <2>7 DEF VisitedTo, n
<1>8. CASE b \notin required /\ ~(acc.at # 0 /\ lastChild[b] > acc.at)
  <2>1. v = acc
    BY <1>4, <1>8
  <2>2. b \notin acc.points
    <3> SUFFICES ASSUME b \in acc.points PROVE FALSE
      OBVIOUS
    <3>1. PICK p \in (lo + 1)..n : b = order[p]
      BY <1>2, <1>8 DEF VisitedTo, n
    <3> QED BY <3>1, <1>3
  <2>3. NotReadBeyond(order, acc.points, lo)
    <3> SUFFICES ASSUME NEW m \in 1..n, lo < m, order[m] \in acc.points
                 PROVE  \E r \in (lo + 1)..m : order[r] \in acc.points
                                              /\ lastChild[order[lo]] <= order[r]
      BY <1>1 DEF NotReadBeyond
    <3>1. acc.at # 0
      BY <1>1, <1>2 DEF VisitedTo, n
    <3>2. PICK r \in (lo + 1)..n :
             /\ acc.at = order[r] /\ order[r] \in acc.points
             /\ \A p \in (lo + 1)..(r - 1) : order[p] \notin acc.points
      BY <1>2, <3>1 DEF VisitedTo, n
    <3>3. r <= m
      BY <1>1, <3>2
    <3>4. lastChild[b] <= order[r]
      <4>1. order[r] \in Buffers /\ b \in Buffers
        BY <1>1
      <4>2. lastChild[b] \in 0..MaxBuffers
        BY <4>1, <1>1 DEF BuffersTypeOK
      <4>3. order[r] \in Nat /\ lastChild[b] \in Nat
        BY <4>1, <4>2, MaxBuffersAssumption DEF Buffers
      <4> QED BY <4>3, <3>1, <3>2, <1>8
    <3> QED BY <1>1, <3>2, <3>3, <3>4 DEF b
  <2>4. \A p \in lo..n : order[p] \in acc.points \/ NotReadBeyond(order, acc.points, p)
    BY <1>2, <1>5, <2>3 DEF VisitedTo, n
  <2>5. acc.points \subseteq required \cup {order[p] : p \in lo..n}
    BY <1>1, <1>2 DEF VisitedTo, n
  <2>6. acc.at = 0 => \A p \in lo..n : order[p] \notin acc.points
    BY <1>2, <1>5, <2>2 DEF VisitedTo, n, b
  <2>7. acc.at # 0 => \E m \in lo..n : /\ acc.at = order[m] /\ order[m] \in acc.points
                         /\ \A p \in lo..(m - 1) : order[p] \notin acc.points
    <3> SUFFICES ASSUME acc.at # 0
                 PROVE  \E m \in lo..n : /\ acc.at = order[m] /\ order[m] \in acc.points
                         /\ \A p \in lo..(m - 1) : order[p] \notin acc.points
      OBVIOUS
    <3>1. PICK m \in (lo + 1)..n :
             /\ acc.at = order[m] /\ order[m] \in acc.points
             /\ \A p \in (lo + 1)..(m - 1) : order[p] \notin acc.points
      BY <1>2 DEF VisitedTo, n
    <3>2. \A p \in lo..(m - 1) : p = lo \/ p \in (lo + 1)..(m - 1)
      BY <1>1
    <3>3. \A p \in lo..(m - 1) : order[p] \notin acc.points
      BY <3>1, <3>2, <2>2 DEF b
    <3> QED BY <1>1, <3>1, <3>3
  <2> QED BY <1>2, <2>1, <2>4, <2>5, <2>6, <2>7 DEF VisitedTo, n
<1> QED BY <1>6, <1>7, <1>8

LEMMA SplitPoints ==
    ASSUME BuffersTypeOK, NEW order \in Seq(Buffers), ~Repeats(order), NEW required
    PROVE  LET P == SplitAllMaterializationPoints(order, required)
           IN  \A p \in DOMAIN order : order[p] \in P \/ NotReadBeyond(order, P, p)
<1>1. PICK g : /\ g[0] = NoVisit(required)
               /\ \A i \in 1..Len(order) : g[i] = VisitStep(order, required, i, g[i - 1])
               /\ SplitAllMaterializationPoints(order, required) = g[Len(order)].points
  BY VisitSteps
<1>2. Len(order) \in Nat /\ DOMAIN order = 1..Len(order)
  OBVIOUS
<1>3. \/ required \cap ToSet(order) = {}
      \/ \E m \in DOMAIN order : order[m] \in required
  BY DEF ToSet
<1> DEFINE T == {i \in 0..Len(order) : VisitedTo(order, required, Len(order) + 1 - i, g[i])}
<1>4. 0 \in T
  <2>1. NoVisit(required).at = 0 /\ NoVisit(required).points = required
        /\ NoVisit(required) = [at |-> 0, points |-> required]
    BY DEF NoVisit
  <2>2. \A p \in (Len(order) + 1)..Len(order) : FALSE
    BY <1>2
  <2>3. VisitedTo(order, required, Len(order) + 1, NoVisit(required))
    BY <2>1, <2>2 DEF VisitedTo
  <2> QED BY <1>1, <1>2, <2>3
<1>5. ASSUME NEW i \in 1..Len(order), i - 1 \in T PROVE i \in T
  <2> DEFINE u == g[i - 1]
  <2>1. VisitedTo(order, required, Len(order) + 1 - (i - 1), u)
    BY <1>5
  <2>2. VisitedTo(order, required, Len(order) + 1 - i, VisitStep(order, required, i, u))
    <3> HIDE DEF u
    <3> QED BY <2>1, VisitStepKeeps
  <2> QED BY <1>1, <2>2
<1>6. Len(order) \in T
  <2> HIDE DEF T
  <2>1. \A i \in 0..Len(order) : i \in T
    BY <1>2, <1>4, <1>5, UpTo
  <2> QED BY <1>2, <2>1
<1>7. VisitedTo(order, required, 1, g[Len(order)])
  BY <1>2, <1>6
<1> QED BY <1>1, <1>2, <1>7 DEF VisitedTo

LEMMA RequiredArePoints ==
    ASSUME NEW order \in Seq(Buffers), NEW required
    PROVE  required \subseteq SplitAllMaterializationPoints(order, required)
<1>1. PICK g : /\ g[0] = NoVisit(required)
               /\ \A i \in 1..Len(order) : g[i] = VisitStep(order, required, i, g[i - 1])
               /\ SplitAllMaterializationPoints(order, required) = g[Len(order)].points
  BY VisitSteps
<1>2. Len(order) \in Nat
  OBVIOUS
<1> DEFINE F(acc) == acc = [at |-> acc.at, points |-> acc.points] /\ required \subseteq acc.points
           T == {i \in 0..Len(order) : F(g[i])}
<1>3. 0 \in T
  BY <1>1, <1>2 DEF NoVisit
<1>4. ASSUME NEW i \in 1..Len(order), i - 1 \in T PROVE i \in T
  <2> DEFINE u == g[i - 1]
             v == VisitStep(order, required, i, u)
             b == order[Len(order) + 1 - i]
  <2>1. F(u)
    BY <1>4
  <2>2. \/ v = [u EXCEPT !.at = b]
        \/ v = [at |-> b, points |-> u.points \cup {b}]
        \/ v = u
    BY DEF VisitStep
  <2>3. F(v)
    <3> HIDE DEF u, v, b
    <3>1. CASE v = [u EXCEPT !.at = b]
      <4>1. v = [at |-> b, points |-> u.points]
        BY <2>1, <3>1
      <4> QED BY <2>1, <4>1
    <3>2. CASE v = [at |-> b, points |-> u.points \cup {b}]
      BY <2>1, <3>2
    <3>3. CASE v = u
      BY <2>1, <3>3
    <3> QED BY <2>2, <3>1, <3>2, <3>3
  <2> QED BY <1>1, <2>3
<1>5. Len(order) \in T
  <2> HIDE DEF T
  <2>1. \A i \in 0..Len(order) : i \in T
    BY <1>2, <1>3, <1>4, UpTo
  <2> QED BY <1>2, <2>1
<1> QED BY <1>1, <1>5

(***************************************************************************)
(* SplitTraversal.  Every point is an output of a piece.                   *)
(***************************************************************************)
Points(t) == SplitAllMaterializationPoints(t.order, t.outs)

LEMMA OneCovers ==
    ASSUME NEW t, NEW b, b \in t.outs, b \in ToSet(t.order)
    PROVE  Cover(<<t>>, b)
BY DEF Cover

LEMMA SplitCovers ==
    ASSUME BuffersTypeOK, NEW t, Whole(t)
    PROVE  /\ SplitTraversal(t) \in Seq(Traversals)
           /\ \A d \in DOMAIN SplitTraversal(t) :
                 /\ Whole(SplitTraversal(t)[d])
                 /\ ToSet(SplitTraversal(t)[d].order) \subseteq ToSet(t.order)
           /\ \A b \in ToSet(t.order) : b \in Points(t) => Cover(SplitTraversal(t), b)
           /\ t.outs \subseteq Points(t)
           /\ InFront(t.order, SplitTraversal(t))
<1> DEFINE R == SplitTraversal(t)
<1>1. t \in Traversals /\ t.order \in Seq(Buffers) /\ t.outs \subseteq ToSet(t.order)
  BY DEF Whole, Traversals
<1>2. t.outs \subseteq Points(t)
  BY <1>1, RequiredArePoints DEF Points
<1>3. CASE Points(t) = t.outs
  <2>1. R = <<t>>
    BY <1>3 DEF SplitTraversal, Points
  <2>2. <<t>> \in Seq(Traversals) /\ DOMAIN <<t>> = {1} /\ <<t>>[1] = t
    BY <1>1
  <2>3. InFront(t.order, <<t>>)
    BY <2>2 DEF InFront
  <2>4. \A b \in ToSet(t.order) : b \in Points(t) => Cover(<<t>>, b)
    BY <1>3, OneCovers
  <2> HIDE DEF R
  <2>5. /\ R \in Seq(Traversals)
        /\ \A d \in DOMAIN R : Whole(R[d]) /\ ToSet(R[d].order) \subseteq ToSet(t.order)
        /\ \A b \in ToSet(t.order) : b \in Points(t) => Cover(R, b)
        /\ InFront(t.order, R)
    BY <2>1, <2>2, <2>3, <2>4
  <2> QED BY <2>5, <1>2 DEF R
<1>4. CASE Points(t) # t.outs
  <2> DEFINE n == Len(t.order)
  <2>1. R = ApplySplitPoints(t.order, Points(t))
    BY <1>4 DEF SplitTraversal, Points
  <2>2. PICK w : \E s \in 0..n : ApplySplitPoints(t.order, Points(t)) = w.done
                                  /\ CutTo(t.order, Points(t), n, w, s)
    BY <1>1, CutPieces
  <2>3. PICK s \in 0..n : R = w.done /\ CutTo(t.order, Points(t), n, w, s)
    BY <2>1, <2>2
  <2>4. n \in Nat /\ DOMAIN t.order = 1..n
    BY <1>1
  <2> HIDE DEF R
  <2>5. R \in Seq(Traversals) /\ DOMAIN R = 1..Len(R) /\ InFront(t.order, R)
    BY <2>3 DEF CutTo
  <2>6. ASSUME NEW b \in ToSet(t.order), b \in Points(t) PROVE Cover(R, b)
    <3>1. PICK p \in 1..n : b = t.order[p]
      BY <2>4 DEF ToSet
    <3>2. p \in 1..s \/ p \in (s + 1)..n
      BY <2>4
    <3> QED BY <3>1, <3>2, <2>3, <2>6 DEF CutTo
  <2>7. ASSUME NEW d \in DOMAIN R
        PROVE  Whole(R[d]) /\ ToSet(R[d].order) \subseteq ToSet(t.order)
    <3>1. PICK lo \in 1..s : \E hi \in lo..s : Piece(t.order, Points(t), R, d, lo, hi)
      BY <2>3, <2>5 DEF CutTo
    <3>2. PICK hi \in lo..s : Piece(t.order, Points(t), R, d, lo, hi)
      BY <3>1
    <3> DEFINE o == R[d].order
    <3>3. /\ Slice(o, t.order, lo, hi) /\ R[d] = CreateFromExecutionOrder(o, {t.order[hi]})
          /\ R[d].outs = {t.order[hi]}
      BY <3>2 DEF Piece
    <3>4. lo \in Nat \ {0} /\ hi \in Nat /\ lo <= hi /\ hi <= n
      BY <2>4
    <3>5. \A x : x \in ToSet(o) <=> \E p \in lo..hi : x = t.order[p]
      <4> HIDE DEF o
      <4> QED BY <1>1, <3>3, <3>4, SliceElements
    <3>6. R[d] \in Traversals
      BY <2>5
    <3>7. R[d] = CreateFromExecutionOrder(R[d].order, R[d].outs)
      BY <3>3
    <3>8. R[d].outs \subseteq ToSet(R[d].order)
      BY <3>3, <3>4, <3>5
    <3>9. ToSet(R[d].order) \subseteq ToSet(t.order)
      <4>1. \A p \in lo..hi : t.order[p] \in ToSet(t.order)
        BY <3>4, <2>4 DEF ToSet
      <4> QED BY <4>1, <3>5
    <3> QED BY <3>6, <3>7, <3>8, <3>9 DEF Whole
  <2>8. /\ R \in Seq(Traversals)
        /\ \A d \in DOMAIN R : Whole(R[d]) /\ ToSet(R[d].order) \subseteq ToSet(t.order)
        /\ \A b \in ToSet(t.order) : b \in Points(t) => Cover(R, b)
        /\ InFront(t.order, R)
    BY <2>5, <2>6, <2>7
  <2> QED BY <2>8, <1>2 DEF R
<1> QED BY <1>3, <1>4

(***************************************************************************)
(* FlattenSeq keeps the elements and their order.                          *)
(***************************************************************************)
Precedes(f, l, e, d) == f < e \/ (f = e /\ l < d)
FlatTo(seqs, k, q) ==
    /\ q \in Seq(Traversals)
    /\ \A e \in 1..k : \A d \in DOMAIN seqs[e] : \E j \in DOMAIN q : q[j] = seqs[e][d]
    /\ \A j \in DOMAIN q : \E e \in 1..k : \E d \in DOMAIN seqs[e] :
          /\ q[j] = seqs[e][d]
          /\ \A f \in 1..e : \A l \in DOMAIN seqs[f] :
                Precedes(f, l, e, d) => \E i \in 1..(j - 1) : q[i] = seqs[f][l]
          /\ \A i \in 1..(j - 1) : \E f \in 1..e : \E l \in DOMAIN seqs[f] :
                Precedes(f, l, e, d) /\ q[i] = seqs[f][l]

LEMMA FlatStepKeeps ==
    ASSUME NEW seqs, NEW k \in Nat \ {0}, NEW q, FlatTo(seqs, k - 1, q),
           \A e \in 1..k : seqs[e] \in Seq(Traversals)
    PROVE  FlatTo(seqs, k, q \o seqs[k])
<1> DEFINE s == seqs[k]
           r == q \o s
           n == Len(q)
<1>1. q \in Seq(Traversals) /\ s \in Seq(Traversals)
  BY DEF FlatTo
<1>2. /\ r \in Seq(Traversals) /\ Len(r) = n + Len(s)
      /\ \A j \in 1..(n + Len(s)) : r[j] = IF j <= n THEN q[j] ELSE s[j - n]
  BY <1>1, ConcatProperties
<1>3. /\ n \in Nat /\ Len(s) \in Nat /\ DOMAIN q = 1..n /\ DOMAIN s = 1..Len(s)
      /\ DOMAIN r = 1..(n + Len(s))
  BY <1>1, <1>2
<1>4. \A j \in 1..n : r[j] = q[j] /\ j \in 1..(n + Len(s))
  BY <1>2, <1>3
<1>5. \A d \in 1..Len(s) : r[n + d] = s[d] /\ n + d \in 1..(n + Len(s))
  BY <1>2, <1>3
<1> SUFFICES FlatTo(seqs, k, r)
  OBVIOUS
<1> HIDE DEF r, n
<1>6. ASSUME NEW e \in 1..(k - 1), NEW d \in DOMAIN seqs[e]
      PROVE  \E j \in 1..n : r[j] = seqs[e][d]
  <2>1. PICK j \in 1..n : q[j] = seqs[e][d]
    <3>1. \E j \in DOMAIN q : q[j] = seqs[e][d]
      BY DEF FlatTo
    <3> QED BY <3>1, <1>3
  <2> QED BY <2>1, <1>4
<1>7. ASSUME NEW e \in 1..k, NEW d \in DOMAIN seqs[e]
      PROVE  \E j \in DOMAIN r : r[j] = seqs[e][d]
  <2>1. CASE e = k
    BY <2>1, <1>3, <1>5
  <2>2. CASE e # k
    <3>1. e \in 1..(k - 1)
      BY <2>2
    <3> QED BY <3>1, <1>3, <1>4, <1>6
  <2> QED BY <2>1, <2>2
<1>8. ASSUME NEW j \in DOMAIN r
      PROVE  \E e \in 1..k : \E d \in DOMAIN seqs[e] :
                /\ r[j] = seqs[e][d]
                /\ \A f \in 1..e : \A l \in DOMAIN seqs[f] :
                      Precedes(f, l, e, d) => \E i \in 1..(j - 1) : r[i] = seqs[f][l]
                /\ \A i \in 1..(j - 1) : \E f \in 1..e : \E l \in DOMAIN seqs[f] :
                      Precedes(f, l, e, d) /\ r[i] = seqs[f][l]
  <2>1. CASE j <= n
    <3>1. j \in 1..n /\ j \in DOMAIN q
      BY <1>3, <2>1
    <3>2. PICK e \in 1..(k - 1) : \E d \in DOMAIN seqs[e] :
            /\ q[j] = seqs[e][d]
            /\ \A f \in 1..e : \A l \in DOMAIN seqs[f] :
                  Precedes(f, l, e, d) => \E i \in 1..(j - 1) : q[i] = seqs[f][l]
            /\ \A i \in 1..(j - 1) : \E f \in 1..e : \E l \in DOMAIN seqs[f] :
                  Precedes(f, l, e, d) /\ q[i] = seqs[f][l]
      BY <3>1 DEF FlatTo
    <3>3. \A i \in 1..(j - 1) : r[i] = q[i]
      BY <3>1, <1>3, <1>4
    <3>4. e \in 1..k /\ r[j] = q[j]
      BY <3>1, <1>4
    <3>5. PICK d \in DOMAIN seqs[e] :
            /\ q[j] = seqs[e][d]
            /\ \A f \in 1..e : \A l \in DOMAIN seqs[f] :
                  Precedes(f, l, e, d) => \E i \in 1..(j - 1) : q[i] = seqs[f][l]
            /\ \A i \in 1..(j - 1) : \E f \in 1..e : \E l \in DOMAIN seqs[f] :
                  Precedes(f, l, e, d) /\ q[i] = seqs[f][l]
      BY <3>2
    <3>6. \A f \in 1..e : \A l \in DOMAIN seqs[f] :
             Precedes(f, l, e, d) => \E i \in 1..(j - 1) : r[i] = seqs[f][l]
      BY <3>3, <3>5
    <3>7. \A i \in 1..(j - 1) : \E f \in 1..e : \E l \in DOMAIN seqs[f] :
             Precedes(f, l, e, d) /\ r[i] = seqs[f][l]
      BY <3>3, <3>5
    <3>8. r[j] = seqs[e][d]
      BY <3>4, <3>5
    <3> QED BY <3>4, <3>6, <3>7, <3>8
  <2>2. CASE ~(j <= n)
    <3> DEFINE d == j - n
    <3>1. d \in 1..Len(s) /\ r[j] = s[d] /\ j = n + d /\ k \in 1..k
      BY <1>2, <1>3, <2>2
    <3>2. ASSUME NEW f \in 1..k, NEW l \in DOMAIN seqs[f], Precedes(f, l, k, d)
          PROVE  \E i \in 1..(j - 1) : r[i] = seqs[f][l]
      <4>1. CASE f = k
        <5>1. l \in 1..Len(s) /\ l < d
          BY <4>1, <3>2, <1>3 DEF Precedes
        <5>2. n + l \in 1..(j - 1)
          BY <5>1, <3>1, <1>3
        <5>3. r[n + l] = s[l]
          BY <5>1, <1>5
        <5> QED BY <5>2, <5>3, <4>1
      <4>2. CASE f # k
        <5>1. f \in 1..(k - 1)
          BY <4>2
        <5>2. PICK i \in 1..n : r[i] = seqs[f][l]
          BY <5>1, <1>6
        <5>3. i \in 1..(j - 1)
          BY <3>1, <1>3
        <5> QED BY <5>2, <5>3
      <4> QED BY <4>1, <4>2
    <3>3. ASSUME NEW i \in 1..(j - 1)
          PROVE  \E f \in 1..k : \E l \in DOMAIN seqs[f] :
                    Precedes(f, l, k, d) /\ r[i] = seqs[f][l]
      <4>1. CASE i <= n
        <5>1. i \in DOMAIN q /\ r[i] = q[i]
          BY <4>1, <1>3, <1>4
        <5>2. PICK f \in 1..(k - 1) : \E l \in DOMAIN seqs[f] : q[i] = seqs[f][l]
          BY <5>1 DEF FlatTo
        <5>3. f \in 1..k /\ f < k
          OBVIOUS
        <5> QED BY <5>1, <5>2, <5>3 DEF Precedes
      <4>2. CASE ~(i <= n)
        <5>1. i - n \in 1..Len(s) /\ i - n < d /\ i \in 1..(n + Len(s)) /\ ~(i <= n)
          BY <4>2, <3>1, <1>3
        <5>2. r[i] = s[i - n]
          BY <5>1, <1>2
        <5>3. i - n \in DOMAIN seqs[k] /\ r[i] = seqs[k][i - n] /\ Precedes(k, i - n, k, d)
          BY <5>1, <5>2, <1>3 DEF Precedes
        <5> QED BY <5>3
      <4> QED BY <4>1, <4>2
    <3>4. d \in DOMAIN seqs[k] /\ r[j] = seqs[k][d]
      BY <3>1, <1>3
    <3> HIDE DEF d
    <3> QED BY <3>1, <3>2, <3>3, <3>4
  <2> QED BY <2>1, <2>2
<1> QED BY <1>2, <1>7, <1>8 DEF FlatTo

LEMMA Flattened ==
    ASSUME NEW n \in Nat, NEW seqs \in [1..n -> Seq(Traversals)]
    PROVE  FlatTo(seqs, n, FlattenSeq(seqs))
<1>1. Len(seqs) = n /\ DOMAIN seqs = 1..n
  <2>1. seqs \in Seq(Seq(Traversals))
    OBVIOUS
  <2> QED BY <2>1
<1>2. CASE n = 0
  <2>1. FlattenSeq(seqs) = seqs
    BY <1>1, <1>2 DEF FlattenSeq
  <2>2. seqs \in Seq(Traversals) /\ DOMAIN seqs = {}
    BY <1>1, <1>2
  <2> QED BY <2>1, <2>2, <1>2 DEF FlatTo
<1>3. CASE n # 0
  <2>1. PICK g : /\ g[1] = seqs[1]
                 /\ \A i \in 2..n : g[i] = FlatStep(seqs, i, g[i - 1])
                 /\ FlattenSeq(seqs) = g[n]
    BY <1>1, <1>3, FlatSteps
  <2> DEFINE T == {i \in 0..n : i = 0 \/ FlatTo(seqs, i, g[i])}
  <2>2. 0 \in T
    OBVIOUS
  <2>3. ASSUME NEW i \in 1..n, i - 1 \in T PROVE i \in T
    <3>1. CASE i = 1
      <4> DEFINE q == seqs[1]
      <4>1. q \in Seq(Traversals) /\ g[1] = q /\ DOMAIN q = 1..Len(q) /\ Len(q) \in Nat
        BY <1>3, <2>1
      <4>2. FlatTo(seqs, 1, q)
        <5>1. \A e \in 1..1 : e = 1
          OBVIOUS
        <5>2. \A e \in 1..1 : \A d \in DOMAIN seqs[e] : \E j \in DOMAIN q : q[j] = seqs[e][d]
          BY <5>1
        <5>3. ASSUME NEW j \in DOMAIN q
              PROVE  \E e \in 1..1 : \E d \in DOMAIN seqs[e] :
                        /\ q[j] = seqs[e][d]
                        /\ \A f \in 1..e : \A l \in DOMAIN seqs[f] :
                              Precedes(f, l, e, d) => \E m \in 1..(j - 1) : q[m] = seqs[f][l]
                        /\ \A m \in 1..(j - 1) : \E f \in 1..e : \E l \in DOMAIN seqs[f] :
                              Precedes(f, l, e, d) /\ q[m] = seqs[f][l]
          <6>1. ASSUME NEW f \in 1..1, NEW l \in DOMAIN seqs[f], Precedes(f, l, 1, j)
                PROVE  \E m \in 1..(j - 1) : q[m] = seqs[f][l]
            <7>1. f = 1 /\ l \in 1..(j - 1)
              BY <6>1, <5>1, <4>1 DEF Precedes
            <7> QED BY <7>1
          <6>2. ASSUME NEW m \in 1..(j - 1)
                PROVE  m \in DOMAIN seqs[1] /\ Precedes(1, m, 1, j) /\ q[m] = seqs[1][m]
            BY <4>1 DEF Precedes
          <6>3. 1 \in 1..1 /\ j \in DOMAIN seqs[1] /\ q[j] = seqs[1][j]
            OBVIOUS
          <6> HIDE DEF q
          <6> QED BY <6>1, <6>2, <6>3
        <5> HIDE DEF q
        <5> QED BY <4>1, <5>2, <5>3 DEF FlatTo
      <4> QED BY <3>1, <4>1, <4>2
    <3>2. CASE i # 1
      <4> DEFINE u == g[i - 1]
      <4>1. FlatTo(seqs, i - 1, u) /\ g[i] = u \o seqs[i] /\ i \in Nat \ {0}
        <5>1. i - 1 # 0 /\ i \in 2..n
          BY <3>2
        <5>2. FlatTo(seqs, i - 1, u)
          BY <2>3, <5>1
        <5>3. g[i] = FlatStep(seqs, i, u)
          BY <2>1, <5>1
        <5> QED BY <5>2, <5>3 DEF FlatStep
      <4>2. \A e \in 1..i : seqs[e] \in Seq(Traversals)
        OBVIOUS
      <4>3. FlatTo(seqs, i, u \o seqs[i])
        <5> HIDE DEF u
        <5> QED BY <4>1, <4>2, FlatStepKeeps
      <4>4. FlatTo(seqs, i, g[i])
        <5> HIDE DEF u
        <5> QED BY <4>1, <4>3
      <4> QED BY <4>4
    <3> QED BY <3>1, <3>2
  <2>4. \A i \in 0..n : i \in T
    <3> HIDE DEF T
    <3> QED BY <2>2, <2>3, UpTo
  <2> QED BY <1>3, <2>1, <2>4
<1> QED BY <1>2, <1>3

(***************************************************************************)
(* The plan of a task: its traversals, split unless the mode is full.      *)
(***************************************************************************)
Plan(T, mode) ==
    IF mode = "full" THEN T ELSE FlattenSeq([i \in DOMAIN T |-> SplitTraversal(T[i])])

LEMMA PlanOfSplits ==
    ASSUME BuffersTypeOK, NEW T \in Seq(Traversals), \A d \in DOMAIN T : Whole(T[d])
    PROVE  FlatTo([i \in DOMAIN T |-> SplitTraversal(T[i])], Len(T), Plan(T, "split"))
<1> DEFINE R == [i \in DOMAIN T |-> SplitTraversal(T[i])]
<1>1. Len(T) \in Nat /\ DOMAIN T = 1..Len(T)
  OBVIOUS
<1>2. \A i \in DOMAIN T : SplitTraversal(T[i]) \in Seq(Traversals)
  BY SplitCovers
<1>3. R \in [1..Len(T) -> Seq(Traversals)]
  BY <1>1, <1>2
<1>4. Plan(T, "split") = FlattenSeq(R)
  BY DEF Plan
<1>5. FlatTo(R, Len(T), FlattenSeq(R))
  <2> HIDE DEF R
  <2> QED BY <1>1, <1>3, Flattened
<1> QED BY <1>4, <1>5

LEMMA PlanCovers ==
    ASSUME BuffersTypeOK, NEW T \in Seq(Traversals), \A d \in DOMAIN T : Whole(T[d]), NEW mode
    PROVE  /\ Plan(T, mode) \in Seq(Traversals)
           /\ \A d \in DOMAIN Plan(T, mode) :
                 /\ Whole(Plan(T, mode)[d])
                 /\ \E f \in DOMAIN T : ToSet(Plan(T, mode)[d].order) \subseteq ToSet(T[f].order)
           /\ \A b : Cover(T, b) => Cover(Plan(T, mode), b)
<1>1. CASE mode = "full"
  BY <1>1 DEF Plan
<1>2. CASE mode # "full"
  <2> DEFINE R == [i \in DOMAIN T |-> SplitTraversal(T[i])]
             q == Plan(T, mode)
  <2>1. DOMAIN T = 1..Len(T) /\ Len(T) \in Nat
    OBVIOUS
  <2>2. Plan(T, mode) = Plan(T, "split")
    BY <1>2 DEF Plan
  <2>3. FlatTo(R, Len(T), q)
    BY <2>2, PlanOfSplits
  <2>4. \A i \in DOMAIN T : R[i] = SplitTraversal(T[i])
    OBVIOUS
  <2> HIDE DEF q, R
  <2>5. ASSUME NEW d \in DOMAIN q
        PROVE  Whole(q[d]) /\ \E f \in DOMAIN T : ToSet(q[d].order) \subseteq ToSet(T[f].order)
    <3>0. PICK e \in 1..Len(T) : \E l \in DOMAIN R[e] : q[d] = R[e][l]
      BY <2>3 DEF FlatTo
    <3>1. PICK l \in DOMAIN R[e] : q[d] = R[e][l]
      BY <3>0
    <3>2. Whole(R[e][l]) /\ ToSet(R[e][l].order) \subseteq ToSet(T[e].order)
      BY <2>1, <2>4, SplitCovers
    <3> QED BY <3>1, <3>2, <2>1
  <2>6. ASSUME NEW b, Cover(T, b) PROVE Cover(q, b)
    <3>1. PICK e \in DOMAIN T : b \in T[e].outs /\ b \in ToSet(T[e].order)
      BY <2>6 DEF Cover
    <3>2. Cover(SplitTraversal(T[e]), b)
      BY <3>1, SplitCovers
    <3>3. PICK l \in DOMAIN R[e] : b \in R[e][l].outs /\ b \in ToSet(R[e][l].order)
      BY <3>2, <2>4 DEF Cover
    <3>4. PICK j \in DOMAIN q : q[j] = R[e][l]
      BY <2>1, <2>3 DEF FlatTo
    <3> QED BY <3>3, <3>4 DEF Cover
  <2>7. q \in Seq(Traversals)
    BY <2>3 DEF FlatTo
  <2>8. /\ q \in Seq(Traversals)
        /\ \A d \in DOMAIN q :
              /\ Whole(q[d])
              /\ \E f \in DOMAIN T : ToSet(q[d].order) \subseteq ToSet(T[f].order)
        /\ \A b : Cover(T, b) => Cover(q, b)
    BY <2>5, <2>6, <2>7
  <2> QED BY <2>8 DEF q
<1> QED BY <1>1, <1>2

(***************************************************************************)
(* TakeUntilNodes cuts the queue behind the last event of a wanted node.   *)
(***************************************************************************)
LEMMA TakenAndRest ==
    ASSUME QueueTypeOK, NEW S
    PROVE  \E i \in 0..Len(deferredOps) :
              /\ TakeUntilNodes(S).taken = SubSeq(deferredOps, 1, i)
              /\ TakeUntilNodes(S).rest = SubSeq(deferredOps, i + 1, Len(deferredOps))
              /\ \A k \in 1..Len(deferredOps) : deferredOps[k] \in S => k <= i
              /\ i # 0 => deferredOps[i] \in S
<1> DEFINE n == Len(deferredOps)
           T == {j \in 1..n : \E k \in j..n : deferredOps[k] \in S}
           U == {m \in 0..n : \A k \in 1..n : deferredOps[k] \in S => k <= m}
<1>1. n \in Nat
  BY DEF QueueTypeOK
<1>2. PICK i \in U : \A m \in U : i <= m
  <2>1. U \in SUBSET Nat /\ n \in U
    BY <1>1
  <2> HIDE DEF U
  <2> QED BY <2>1, LeastNatural
<1>3. i \in 0..n /\ \A k \in 1..n : deferredOps[k] \in S => k <= i
  OBVIOUS
<1>4. i # 0 => deferredOps[i] \in S
  <2> SUFFICES ASSUME i # 0, deferredOps[i] \notin S PROVE FALSE
    OBVIOUS
  <2>1. i - 1 \in U
    BY <1>1, <1>3
  <2>2. i <= i - 1
    <3> HIDE DEF U
    <3> QED BY <1>2, <2>1
  <2> QED BY <1>3, <2>2
<1>5. T = 1..i
  <2>1. ASSUME NEW j \in T PROVE j \in 1..i
    <3>1. PICK k \in j..n : deferredOps[k] \in S
      OBVIOUS
    <3>2. k \in 1..n /\ j \in 1..n
      OBVIOUS
    <3> QED BY <1>3, <3>1, <3>2
  <2>2. ASSUME NEW j \in 1..i PROVE j \in T
    BY <1>3, <1>4
  <2> HIDE DEF T
  <2> QED BY <2>1, <2>2
<1>6. Cardinality(1..i) = i
  BY <1>3, <1>1, FS_Interval
<1>7. /\ TakeUntilNodes(S).taken = SubSeq(deferredOps, 1, Cardinality(T))
      /\ TakeUntilNodes(S).rest = SubSeq(deferredOps, Cardinality(T) + 1, n)
  BY DEF TakeUntilNodes
<1> HIDE DEF T, U
<1> QED BY <1>3, <1>4, <1>5, <1>6, <1>7

LEMMA TakenIsPrefix ==
    ASSUME QueueTypeOK, NEW S
    PROVE  LET taken == TakeUntilNodes(S).taken
               rest == TakeUntilNodes(S).rest
           IN  /\ taken \in Seq(Buffers) /\ rest \in Seq(Buffers)
               /\ taken \o rest = deferredOps
               /\ ToSet(deferredOps) = ToSet(taken) \cup ToSet(rest)
               /\ \A b \in ToSet(deferredOps) : b \in S => b \in ToSet(taken)
               /\ S \cap ToSet(deferredOps) = {} => taken = <<>>
<1> DEFINE n == Len(deferredOps)
           taken == TakeUntilNodes(S).taken
           rest == TakeUntilNodes(S).rest
<1>1. deferredOps \in Seq(Buffers) /\ n \in Nat /\ DOMAIN deferredOps = 1..n
  BY DEF QueueTypeOK
<1>2. PICK i \in 0..n :
         /\ taken = SubSeq(deferredOps, 1, i)
         /\ rest = SubSeq(deferredOps, i + 1, n)
         /\ \A k \in 1..n : deferredOps[k] \in S => k <= i
         /\ i # 0 => deferredOps[i] \in S
  BY TakenAndRest
<1>3. \A k \in 1..n : deferredOps[k] \in Buffers
  BY <1>1
<1>4. /\ taken \in Seq(Buffers) /\ Len(taken) = i
      /\ \A k \in 1..i : taken[k] = deferredOps[k]
  <2> DEFINE q == SubSeq(deferredOps, 1, i)
  <2>1. /\ q \in Seq(Buffers) /\ Len(q) = IF 1 <= i THEN i - 1 + 1 ELSE 0
        /\ \A k \in 1..(i - 1 + 1) : q[k] = deferredOps[1 + k - 1]
    BY <1>1, <1>3, SubSeqProperties
  <2> HIDE DEF q
  <2> QED BY <2>1, <1>2 DEF q
<1>5. rest \in Seq(Buffers)
  BY <1>1, <1>2, <1>3, SubSeqProperties
<1>6. taken \o rest = deferredOps
  <2>1. SubSeq(deferredOps, 1, i) \o SubSeq(deferredOps, i + 1, n) = SubSeq(deferredOps, 1, n)
    <3>1. 1 \in 1..(n + 1) /\ i \in (1 - 1)..n /\ n \in i..n
      BY <1>1
    <3> QED BY <1>1, <3>1, ConcatAdjacentSubSeq
  <2>2. SubSeq(deferredOps, 1, n) = deferredOps
    BY <1>1, SubSeqFull
  <2> QED BY <1>2, <2>1, <2>2
<1>7. ToSet(deferredOps) = ToSet(taken) \cup ToSet(rest)
  <2> HIDE DEF taken, rest
  <2> QED BY <1>4, <1>5, <1>6, ToSetConcat
<1>8. ASSUME NEW b \in ToSet(deferredOps), b \in S PROVE b \in ToSet(taken)
  <2>1. PICK k \in 1..n : b = deferredOps[k]
    BY <1>1 DEF ToSet
  <2>2. k \in 1..i /\ taken[k] = b
    BY <1>2, <1>4, <1>8, <2>1
  <2> HIDE DEF taken
  <2>3. k \in DOMAIN taken
    BY <2>2, <1>4
  <2> QED BY <2>2, <2>3 DEF ToSet
<1>9. ASSUME S \cap ToSet(deferredOps) = {} PROVE taken = <<>>
  <2>1. i = 0
    BY <1>1, <1>2, <1>9 DEF ToSet
  <2> HIDE DEF taken
  <2> QED BY <2>1, <1>4, EmptySeq
<1> QED BY <1>4, <1>5, <1>6, <1>7, <1>8, <1>9

(***************************************************************************)
(* The order of the nodes.  In an execution order no node comes twice, and *)
(* what is not a constant has a later creation index than all nodes in     *)
(* front of it, in its own order and in those of earlier traversals.       *)
(***************************************************************************)
Ranked(s) ==
    \A j, k \in DOMAIN s : j < k => s[j] # s[k] /\ (~IsConstant(s[k]) => s[j] < s[k])
Ahead(s, r) == \A a \in ToSet(s), c \in ToSet(r) : ~IsConstant(c) => a < c
Chained(D, s) ==
    /\ Ranked(s)
    /\ \A d \in DOMAIN D : Ranked(D[d].order) /\ Ahead(D[d].order, s)
    /\ \A d, e \in DOMAIN D : d < e => Ahead(D[d].order, D[e].order)
Mentioned(w, x) ==
    x \in ToSet(w.order) \/ \E d \in DOMAIN w.done : x \in ToSet(w.done[d].order)
ReadEarlier == \A c \in Buffers : \A i \in inputs[c] : i < c

LEMMA MentionedBuffer ==
    ASSUME NEW w, Sound(w), NEW x, Mentioned(w, x)
    PROVE  x \in Buffers
<1>1. w.order \in Seq(Buffers) /\ w.done \in Seq(Traversals)
  BY DEF Sound, Work
<1>2. \A d \in DOMAIN w.done : w.done[d] \in Traversals
  BY <1>1
<1>3. \A d \in DOMAIN w.done : w.done[d].order \in Seq(Buffers)
  BY <1>2 DEF Traversals
<1>4. \A q \in Seq(Buffers) : ToSet(q) \subseteq Buffers
  BY DEF ToSet
<1> QED BY <1>1, <1>3, <1>4 DEF Mentioned

LEMMA RankedConcat ==
    ASSUME NEW s \in Seq(Buffers), NEW r \in Seq(Buffers), Ranked(s), Ranked(r),
           Ahead(s, r), ToSet(s) \cap ToSet(r) = {}
    PROVE  Ranked(s \o r)
<1> DEFINE q == s \o r
           n == Len(s)
<1>1. /\ q \in Seq(Buffers) /\ Len(q) = n + Len(r)
      /\ \A i \in 1..n + Len(r) : q[i] = IF i <= n THEN s[i] ELSE r[i - n]
  BY ConcatProperties
<1>2. n \in Nat /\ DOMAIN s = 1..n /\ DOMAIN r = 1..Len(r) /\ Len(r) \in Nat
      /\ DOMAIN q = 1..(n + Len(r))
  BY <1>1
<1> HIDE DEF q, n
<1> SUFFICES ASSUME NEW j \in DOMAIN q, NEW k \in DOMAIN q, j < k
             PROVE  q[j] # q[k] /\ (~IsConstant(q[k]) => q[j] < q[k])
  BY DEF Ranked, q
<1>3. CASE k <= n
  <2>1. j \in DOMAIN s /\ k \in DOMAIN s /\ q[j] = s[j] /\ q[k] = s[k]
    BY <1>1, <1>2, <1>3
  <2> QED BY <2>1 DEF Ranked
<1>4. CASE j <= n /\ ~(k <= n)
  <2>1. j \in DOMAIN s /\ k - n \in DOMAIN r /\ q[j] = s[j] /\ q[k] = r[k - n]
    BY <1>1, <1>2, <1>4
  <2>2. q[j] \in ToSet(s) /\ q[k] \in ToSet(r)
    BY <2>1 DEF ToSet
  <2> QED BY <2>2 DEF Ahead
<1>5. CASE ~(j <= n)
  <2>1. /\ j - n \in DOMAIN r /\ k - n \in DOMAIN r /\ j - n < k - n
        /\ q[j] = r[j - n] /\ q[k] = r[k - n]
    BY <1>1, <1>2, <1>5
  <2> QED BY <2>1 DEF Ranked
<1> QED BY <1>2, <1>3, <1>4, <1>5

LEMMA RankedConstants ==
    ASSUME NEW S \in SUBSET Buffers, \A x \in S : IsConstant(x)
    PROVE  Ranked(SetToSeq(S))
<1> DEFINE q == SetToSeq(S)
<1>1. /\ q \in Seq(Buffers) /\ ToSet(q) = S
      /\ \A i, j \in DOMAIN q : q[i] = q[j] => i = j
  BY ListedBuffers
<1>2. DOMAIN q = 1..Len(q)
  BY <1>1
<1>3. \A i \in DOMAIN q : q[i] \in S
  BY <1>1 DEF ToSet
<1> HIDE DEF q
<1>4. Ranked(q)
  BY <1>1, <1>2, <1>3 DEF Ranked
<1> QED BY <1>4 DEF q

LEMMA ChainedEmpty == Chained(<<>>, <<>>)
BY DEF Chained, Ranked

LEMMA FinishChains ==
    ASSUME BuffersTypeOK, NEW w, Sound(w), Chained(w.done, w.order)
    PROVE  LET v == FinishTraversal(w)
           IN  /\ Chained(v.done, v.order)
               /\ \A x : Mentioned(v, x) => Mentioned(w, x)
<1> DEFINE v == FinishTraversal(w)
<1>1. FinishedAs(w, v)
  BY FinishedWork
<1> HIDE DEF v
<1>2. v.order = <<>> /\ ToSet(v.order) = {} /\ Ranked(v.order)
  <2>1. v.order = <<>>
    BY <1>1 DEF FinishedAs
  <2> QED BY <2>1 DEF ToSet, Ranked
<1>3. w.done \in Seq(Traversals) /\ DOMAIN w.done = 1..Len(w.done) /\ Len(w.done) \in Nat
  BY DEF Sound, Work
<1>4. CASE Finishing(w) = {}
  <2>1. v.done = w.done
    BY <1>1, <1>4 DEF FinishedAs
  <2>2. Chained(v.done, v.order)
    BY <2>1, <1>2 DEF Chained, Ahead
  <2>3. \A x : Mentioned(v, x) => Mentioned(w, x)
    BY <2>1, <1>2 DEF Mentioned
  <2> QED BY <2>2, <2>3 DEF v
<1>5. CASE Finishing(w) # {}
  <2>1. PICK t : Whole(t) /\ v.done = Append(w.done, t) /\ t.order = w.order
    BY <1>1, <1>5 DEF FinishedAs
  <2> DEFINE n == Len(w.done) + 1
             D == v.done
  <2>2. /\ DOMAIN D = DOMAIN w.done \cup {n} /\ n \notin DOMAIN w.done
        /\ \A d \in DOMAIN w.done : D[d] = w.done[d] /\ d < n
        /\ D[n] = t
    BY <2>1, <1>3
  <2>3. n \in Nat
    BY <1>3
  <2> HIDE DEF n, D
  <2>4. \A d \in DOMAIN D : Ranked(D[d].order) /\ Ahead(D[d].order, v.order)
    BY <2>1, <2>2, <1>2 DEF Chained, Ahead
  <2>5. \A d, e \in DOMAIN D : d < e => Ahead(D[d].order, D[e].order)
    <3> SUFFICES ASSUME NEW d \in DOMAIN D, NEW e \in DOMAIN D, d < e
                 PROVE  Ahead(D[d].order, D[e].order)
      OBVIOUS
    <3>1. CASE e \in DOMAIN w.done
      <4>1. d \in DOMAIN w.done
        BY <2>2, <2>3, <1>3, <3>1
      <4> QED BY <4>1, <3>1, <2>2 DEF Chained
    <3>2. CASE e = n
      <4>1. d \in DOMAIN w.done
        BY <2>2, <2>3, <3>2
      <4> QED BY <4>1, <3>2, <2>1, <2>2 DEF Chained
    <3> QED BY <3>1, <3>2, <2>2
  <2>6. Chained(v.done, v.order)
    BY <2>4, <2>5, <1>2 DEF Chained, D
  <2>7. \A x : Mentioned(v, x) => Mentioned(w, x)
    BY <2>1, <2>2, <1>2 DEF Mentioned, D
  <2> QED BY <2>6, <2>7 DEF v
<1> QED BY <1>4, <1>5

\* All nodes mentioned so far have smaller indices than e.
LEMMA OpChains ==
    ASSUME BuffersTypeOK, ReadEarlier, NEW w, Sound(w), Chained(w.done, w.order), NEW wanted,
           NEW e \in Buffers, ~IsConstant(e), \A x : Mentioned(w, x) => x < e
    PROVE  LET v == ProcessDeferredOpEvent(w, e, wanted)
           IN  /\ Chained(v.done, v.order)
               /\ \A x : Mentioned(v, x) =>
                     Mentioned(w, x) \/ x = e \/ (IsConstant(x) /\ IsDeferred(x) /\ x < e)
<1> DEFINE v == ProcessDeferredOpEvent(w, e, wanted)
           C == Inserted(w, e)
           S == SetToSeq(C)
           o == w.order
<1>1. ProcessedAs(w, e, wanted, v)
  BY ProcessedOp DEF Sound
<1>2. /\ C \in SUBSET Buffers /\ v.done = w.done /\ v.order = o \o S \o <<e>>
      /\ ToSet(v.order) = ToSet(o) \cup C \cup {e}
  <2> HIDE DEF v
  <2> QED BY <1>1 DEF ProcessedAs
<1>3. \A x \in C : x < e /\ IsConstant(x) /\ IsDeferred(x) /\ x \notin ToSet(o)
  BY DEF Inserted, ReadEarlier, Sound
<1>4. S \in Seq(Buffers) /\ ToSet(S) = C /\ Ranked(S)
  <2> HIDE DEF C
  <2> QED BY <1>2, <1>3, ListedBuffers, RankedConstants
<1>5. o \in Seq(Buffers) /\ Ranked(o)
  BY DEF Sound, Work, Chained
<1>6. \A x \in ToSet(o) : x < e
  BY DEF Mentioned
<1> HIDE DEF v, C, S, o
<1>7. o \o S \in Seq(Buffers) /\ Ranked(o \o S) /\ ToSet(o \o S) = ToSet(o) \cup C
  <2>1. Ahead(o, S) /\ ToSet(o) \cap ToSet(S) = {}
    BY <1>3, <1>4 DEF Ahead
  <2>2. Ranked(o \o S)
    BY <2>1, <1>4, <1>5, RankedConcat
  <2>3. ToSet(o \o S) = ToSet(o) \cup ToSet(S)
    BY <1>4, <1>5, ToSetConcat
  <2> QED BY <2>2, <2>3, <1>4, <1>5
<1>8. Ranked(v.order)
  <2>1. <<e>> \in Seq(Buffers) /\ ToSet(<<e>>) = {e} /\ Ranked(<<e>>)
    BY ToSetOne DEF Ranked
  <2>2. \A x \in ToSet(o \o S) : x < e
    BY <1>3, <1>6, <1>7
  <2>3. Ahead(o \o S, <<e>>)
    BY <2>1, <2>2 DEF Ahead
  <2>4. ToSet(o \o S) \subseteq Buffers
    BY <1>7 DEF ToSet
  <2>5. e \notin ToSet(o \o S)
    BY <2>2 DEF Buffers
  <2>6. ToSet(o \o S) \cap ToSet(<<e>>) = {}
    BY <2>1, <2>5
  <2> DEFINE q == o \o S
             r == <<e>>
  <2>7. Ranked(q \o r)
    <3>1. q \in Seq(Buffers) /\ r \in Seq(Buffers) /\ Ranked(q) /\ Ranked(r) /\ Ahead(q, r)
          /\ ToSet(q) \cap ToSet(r) = {}
      BY <1>7, <2>1, <2>3, <2>6
    <3> HIDE DEF q, r
    <3> QED BY <3>1, RankedConcat
  <2> QED BY <1>2, <2>7
<1>9. \A d \in DOMAIN v.done : Ranked(v.done[d].order) /\ Ahead(v.done[d].order, v.order)
  <2>1. \A d \in DOMAIN w.done : \A x \in ToSet(w.done[d].order) : x < e
    BY DEF Mentioned
  <2>2. \A d \in DOMAIN w.done : Ahead(w.done[d].order, o)
    BY DEF Chained, o
  <2>3. \A d \in DOMAIN w.done : Ahead(w.done[d].order, v.order)
    BY <2>1, <2>2, <1>2, <1>3 DEF Ahead
  <2> QED BY <2>3, <1>2 DEF Chained
<1>10. Chained(v.done, v.order)
  BY <1>2, <1>8, <1>9 DEF Chained
<1>11. \A x : Mentioned(v, x) =>
         Mentioned(w, x) \/ x = e \/ (IsConstant(x) /\ IsDeferred(x) /\ x < e)
  BY <1>2, <1>3 DEF Mentioned, o
<1> QED BY <1>10, <1>11 DEF v

LEMMA EventChains ==
    ASSUME BuffersTypeOK, ReadEarlier, NEW w, Sound(w), Chained(w.done, w.order), NEW wanted,
           NEW e \in Buffers, ~IsConstant(e), \A x : Mentioned(w, x) => x < e
    PROVE  LET v == ProcessEvent(w, e, wanted)
           IN  /\ Chained(v.done, v.order)
               /\ \A x : Mentioned(v, x) =>
                     Mentioned(w, x) \/ x = e \/ (IsConstant(x) /\ IsDeferred(x) /\ x < e)
<1> DEFINE u == FinishTraversal(w)
           y == ProcessDeferredOpEvent(u, e, wanted)
           z == FinishTraversal(y)
<1>1. CASE kind[e] = "collective"
  <2>1. ProcessEvent(w, e, wanted) = z
    BY <1>1 DEF ProcessEvent
  <2>2. Sound(u) /\ Sound(y)
    BY FinishedWork, ProcessedIsSound DEF FinishedAs
  <2>3. Chained(u.done, u.order) /\ \A x : Mentioned(u, x) => Mentioned(w, x)
    BY FinishChains
  <2>4. /\ Chained(y.done, y.order)
        /\ \A x : Mentioned(y, x) =>
              Mentioned(u, x) \/ x = e \/ (IsConstant(x) /\ IsDeferred(x) /\ x < e)
    <3> HIDE DEF u
    <3>1. \A x : Mentioned(u, x) => x < e
      BY <2>3
    <3> QED BY <2>2, <2>3, <3>1, OpChains
  <2>5. Chained(z.done, z.order) /\ \A x : Mentioned(z, x) => Mentioned(y, x)
    <3> HIDE DEF y
    <3> QED BY <2>2, <2>4, FinishChains
  <2> HIDE DEF u, y, z
  <2> QED BY <2>1, <2>3, <2>4, <2>5
<1>2. CASE kind[e] # "collective"
  BY <1>2, OpChains DEF ProcessEvent
<1> QED BY <1>1, <1>2

\* What the scan has mentioned after i events.
Origin(ev, i, x) ==
    /\ IsDeferred(x)
    /\ \E j \in 1..i : \/ x = ev[j] /\ ~IsConstant(x)
                       \/ IsConstant(x) /\ x < ev[j]
Climbs(ev) ==
    /\ \A i, j \in DOMAIN ev : i < j => ev[i] < ev[j]
    /\ \A i \in DOMAIN ev : ~IsConstant(ev[i])

LEMMA ScanChains ==
    ASSUME BuffersTypeOK, ReadEarlier, NEW ev \in Seq(Buffers), Climbs(ev), NEW wanted, NEW alive
    PROVE  LET w == ProcessEvents(ev, wanted, alive)
           IN  /\ Chained(w.done, w.order)
               /\ \A x : Mentioned(w, x) => Origin(ev, Len(ev), x)
<1>1. PICK g : /\ g[0] = NoWork
               /\ \A i \in 1..Len(ev) : g[i] = ScanStep(ev, wanted, alive, i, g[i - 1])
               /\ ProcessEvents(ev, wanted, alive) = g[Len(ev)]
  BY ScanSteps
<1>2. Len(ev) \in Nat /\ DOMAIN ev = 1..Len(ev) /\ \A i \in 1..Len(ev) : ev[i] \in Buffers
  OBVIOUS
<1> DEFINE T == {i \in 0..Len(ev) : /\ Sound(g[i]) /\ Chained(g[i].done, g[i].order)
                                    /\ \A x : Mentioned(g[i], x) => Origin(ev, i, x)}
<1>3. 0 \in T
  <2>1. NoWork.done = <<>> /\ NoWork.order = <<>> /\ ToSet(<<>>) = {} /\ DOMAIN <<>> = {}
    BY DEF NoWork, ToSet
  <2>2. Chained(g[0].done, g[0].order) /\ \A x : ~Mentioned(g[0], x)
    BY <1>1, <2>1, ChainedEmpty DEF Mentioned
  <2> QED BY <1>1, <1>2, <2>2, NoWorkIsSound
<1>4. ASSUME NEW i \in 1..Len(ev), i - 1 \in T PROVE i \in T
  <2> DEFINE u == g[i - 1]
             e == ev[i]
  <2>1. /\ Sound(u) /\ Chained(u.done, u.order)
        /\ \A x : Mentioned(u, x) => Origin(ev, i - 1, x)
    BY <1>4
  <2>2. g[i] = ScanStep(ev, wanted, alive, i, g[i - 1]) /\ e \in Buffers
    BY <1>1, <1>2
  <2>3. \A x : Origin(ev, i - 1, x) => Origin(ev, i, x)
    <3>1. 1..(i - 1) \subseteq 1..i
      OBVIOUS
    <3> QED BY <3>1 DEF Origin
  <2>4. CASE ev[i] \in alive /\ IsDeferred(ev[i])
    <3>1. g[i] = ProcessEvent(u, e, wanted)
      BY <2>2, <2>4 DEF ScanStep
    <3>2. Sound(g[i])
      BY <3>1, <2>1, <2>2, ProcessedIsSound
    <3>3. ~IsConstant(e)
      BY <1>2 DEF Climbs
    <3>4. ASSUME NEW x, Mentioned(u, x) PROVE x < e
      <4>1. PICK j \in 1..(i - 1) : x = ev[j] \/ x < ev[j]
        BY <2>1, <3>4 DEF Origin
      <4>2. ev[j] < e /\ ev[j] \in Int /\ e \in Int
        BY <1>2 DEF Climbs, Buffers
      <4>3. x \in Buffers
        <5> HIDE DEF u
        <5> QED BY <2>1, <3>4, MentionedBuffer
      <4> QED BY <4>1, <4>2, <4>3 DEF Buffers
    <3>5. /\ Chained(g[i].done, g[i].order)
          /\ \A x : Mentioned(g[i], x) =>
                Mentioned(u, x) \/ x = e \/ (IsConstant(x) /\ IsDeferred(x) /\ x < e)
      <4> HIDE DEF u, e
      <4> QED BY <2>1, <2>2, <3>1, <3>3, <3>4, EventChains
    <3>6. \A x : Mentioned(g[i], x) => Origin(ev, i, x)
      <4>1. \A x : x = e \/ (IsConstant(x) /\ IsDeferred(x) /\ x < e) => Origin(ev, i, x)
        BY <2>4, <3>3 DEF Origin
      <4> QED BY <4>1, <3>5, <2>1, <2>3
    <3> QED BY <3>2, <3>5, <3>6
  <2>5. CASE ~(ev[i] \in alive /\ IsDeferred(ev[i]))
    <3>1. g[i] = u
      BY <2>2, <2>5 DEF ScanStep
    <3>2. \A x : Mentioned(g[i], x) => Origin(ev, i, x)
      BY <3>1, <2>1, <2>3
    <3> QED BY <3>1, <3>2, <2>1
  <2> QED BY <2>4, <2>5
<1>5. Len(ev) \in T
  <2> HIDE DEF T
  <2>1. \A i \in 0..Len(ev) : i \in T
    BY <1>2, <1>3, <1>4, UpTo
  <2> QED BY <1>2, <2>1
<1> QED BY <1>1, <1>5

LEMMA AppendChains ==
    ASSUME BuffersTypeOK, NEW w, Sound(w), Chained(w.done, w.order), NEW wanted \in SUBSET Buffers
    PROVE  LET v == WithConstants(w, wanted)
           IN  /\ Sound(v) /\ Chained(v.done, v.order)
               /\ \A x : Mentioned(v, x) => Mentioned(w, x) \/ x \in WantedConstants(wanted)
<1> DEFINE v == WithConstants(w, wanted)
           N == WantedConstants(wanted) \ ToSet(w.order)
           S == SetToSeq(N)
           o == w.order
<1>1. AppendedAs(w, wanted, v)
  BY AppendedConstants
<1>2. N \in SUBSET Buffers /\ v.done = w.done /\ v.order = o \o S /\ Sound(v)
  <2> HIDE DEF v
  <2> QED BY <1>1 DEF AppendedAs
<1>3. \A x \in N : IsConstant(x) /\ x \in WantedConstants(wanted) /\ x \notin ToSet(o)
  BY DEF WantedConstants
<1>4. S \in Seq(Buffers) /\ ToSet(S) = N /\ Ranked(S)
  <2> HIDE DEF N
  <2> QED BY <1>2, <1>3, ListedBuffers, RankedConstants
<1>5. o \in Seq(Buffers) /\ Ranked(o)
  BY DEF Sound, Work, Chained
<1> HIDE DEF v, N, S
<1>6. Ahead(o, S) /\ ToSet(o) \cap ToSet(S) = {}
  BY <1>3, <1>4 DEF Ahead
<1>7. Ranked(v.order) /\ ToSet(v.order) = ToSet(o) \cup N
  <2> HIDE DEF o
  <2> QED BY <1>2, <1>4, <1>5, <1>6, RankedConcat, ToSetConcat
<1>8. \A d \in DOMAIN w.done : Ranked(w.done[d].order) /\ Ahead(w.done[d].order, v.order)
  <2>1. \A d \in DOMAIN w.done : Ranked(w.done[d].order) /\ Ahead(w.done[d].order, o)
    BY DEF Chained
  <2> QED BY <2>1, <1>3, <1>7 DEF Ahead
<1>9. Chained(v.done, v.order)
  BY <1>2, <1>7, <1>8 DEF Chained
<1>10. \A x : Mentioned(v, x) => Mentioned(w, x) \/ x \in WantedConstants(wanted)
  BY <1>2, <1>3, <1>7 DEF Mentioned
<1> QED BY <1>2, <1>9, <1>10 DEF v

\* The traversals of a plan follow each other.
Ordered(T) ==
    /\ \A d \in DOMAIN T : Ranked(T[d].order)
    /\ \A d, e \in DOMAIN T : d < e => Ahead(T[d].order, T[e].order)
MadeFrom(T, ev) ==
    \A d \in DOMAIN T : \A x \in ToSet(T[d].order) :
        IsDeferred(x) /\ (IsConstant(x) \/ x \in ToSet(ev))

LEMMA PreparedInOrder ==
    ASSUME BuffersTypeOK, ReadEarlier, NEW ev \in Seq(Buffers), Climbs(ev),
           NEW wanted \in SUBSET Buffers, NEW held
    PROVE  /\ Ordered(PrepareTraversals(ev, wanted, held))
           /\ MadeFrom(PrepareTraversals(ev, wanted, held), ev)
<1> DEFINE w == ProcessEvents(ev, wanted, Alive(ev, held))
           v == WithConstants(w, wanted)
           f == FinishTraversal(v)
           T == PrepareTraversals(ev, wanted, held)
<1>1. Sound(w)
  BY ScanKeeps
<1>2. Chained(w.done, w.order) /\ \A x : Mentioned(w, x) => Origin(ev, Len(ev), x)
  BY ScanChains
<1>3. T = f.done
  BY PreparedLast
<1>4. /\ Sound(v) /\ Chained(v.done, v.order)
      /\ \A x : Mentioned(v, x) => Mentioned(w, x) \/ x \in WantedConstants(wanted)
  <2> HIDE DEF w
  <2> QED BY <1>1, <1>2, AppendChains
<1>5. Chained(f.done, f.order) /\ \A x : Mentioned(f, x) => Mentioned(v, x)
  <2> HIDE DEF v
  <2> QED BY <1>4, FinishChains
<1> HIDE DEF w, v, f, T
<1>6. Ordered(T)
  BY <1>3, <1>5 DEF Chained, Ordered
<1>7. ASSUME NEW d \in DOMAIN T, NEW x \in ToSet(T[d].order)
      PROVE  IsDeferred(x) /\ (IsConstant(x) \/ x \in ToSet(ev))
  <2>1. Mentioned(w, x) \/ x \in WantedConstants(wanted)
    BY <1>3, <1>4, <1>5, <1>7 DEF Mentioned
  <2>2. CASE x \in WantedConstants(wanted)
    BY <2>2 DEF WantedConstants
  <2>3. CASE Mentioned(w, x)
    <3>1. Origin(ev, Len(ev), x)
      BY <1>2, <2>3
    <3> QED BY <3>1 DEF Origin, ToSet
  <2> QED BY <2>1, <2>2, <2>3
<1> QED BY <1>6, <1>7 DEF T, MadeFrom

\* Splitting keeps the order.
LEMMA PlanInOrder ==
    ASSUME BuffersTypeOK, NEW T \in Seq(Traversals), \A d \in DOMAIN T : Whole(T[d]),
           Ordered(T), NEW ev, MadeFrom(T, ev), NEW mode
    PROVE  /\ MadeFrom(Plan(T, mode), ev)
           /\ \A d, e \in DOMAIN Plan(T, mode) : d < e =>
                 Ahead(Plan(T, mode)[d].order, Plan(T, mode)[e].order)
<1>1. MadeFrom(Plan(T, mode), ev)
  <2>1. \A d \in DOMAIN Plan(T, mode) :
           \E f \in DOMAIN T : ToSet(Plan(T, mode)[d].order) \subseteq ToSet(T[f].order)
    BY PlanCovers
  <2> QED BY <2>1 DEF MadeFrom
<1>2. CASE mode = "full"
  BY <1>1, <1>2 DEF Plan, Ordered
<1>3. CASE mode # "full"
  <2> DEFINE R == [i \in DOMAIN T |-> SplitTraversal(T[i])]
             q == Plan(T, mode)
  <2>1. DOMAIN T = 1..Len(T) /\ Len(T) \in Nat
    OBVIOUS
  <2>2. FlatTo(R, Len(T), q)
    <3>1. Plan(T, mode) = Plan(T, "split")
      BY <1>3 DEF Plan
    <3> QED BY <3>1, PlanOfSplits
  <2>3. \A i \in DOMAIN T : /\ InFront(T[i].order, R[i])
                            /\ \A d \in DOMAIN R[i] : ToSet(R[i][d].order) \subseteq ToSet(T[i].order)
    <3>1. \A i \in DOMAIN T : R[i] = SplitTraversal(T[i])
      OBVIOUS
    <3> HIDE DEF R
    <3> QED BY <3>1, SplitCovers
  <2> HIDE DEF R, q
  <2>4. ASSUME NEW j \in DOMAIN q, NEW i \in DOMAIN q, i < j
        PROVE  Ahead(q[i].order, q[j].order)
    <3>1. PICK e \in 1..Len(T) : \E d \in DOMAIN R[e] :
             /\ q[j] = R[e][d]
             /\ \A k \in 1..(j - 1) : \E f \in 1..e : \E l \in DOMAIN R[f] :
                   Precedes(f, l, e, d) /\ q[k] = R[f][l]
      BY <2>2 DEF FlatTo
    <3>2. PICK d \in DOMAIN R[e] :
             /\ q[j] = R[e][d]
             /\ \A k \in 1..(j - 1) : \E f \in 1..e : \E l \in DOMAIN R[f] :
                   Precedes(f, l, e, d) /\ q[k] = R[f][l]
      BY <3>1
    <3>3. q \in Seq(Traversals) /\ i \in 1..(j - 1)
      <4>1. q \in Seq(Traversals)
        BY <2>2 DEF FlatTo
      <4> QED BY <4>1, <2>4
    <3>4. PICK f \in 1..e : \E l \in DOMAIN R[f] : Precedes(f, l, e, d) /\ q[i] = R[f][l]
      BY <3>2, <3>3
    <3>5. PICK l \in DOMAIN R[f] : Precedes(f, l, e, d) /\ q[i] = R[f][l]
      BY <3>4
    <3>6. f \in DOMAIN T /\ e \in DOMAIN T
      BY <2>1
    <3>7. CASE f < e
      <4>1. Ahead(T[f].order, T[e].order)
        BY <3>6, <3>7 DEF Ordered
      <4> QED BY <4>1, <3>2, <3>5, <3>6, <2>3 DEF Ahead
    <3>8. CASE f = e /\ l < d
      <4>1. \A a \in ToSet(q[i].order), c \in ToSet(q[j].order) :
               \E m, n \in DOMAIN T[e].order :
                  m < n /\ a = T[e].order[m] /\ c = T[e].order[n]
        <5>1. InFront(T[e].order, R[e]) /\ q[i] = R[e][l] /\ l \in DOMAIN R[e]
          BY <3>5, <3>6, <3>8, <2>3
        <5> DEFINE o == T[e].order
                   r == R[e]
        <5>2. InFront(o, r) /\ q[i] = r[l] /\ q[j] = r[d] /\ l \in DOMAIN r /\ d \in DOMAIN r
          BY <5>1, <3>2
        <5> HIDE DEF o, r
        <5>3. \A a \in ToSet(r[l].order), c \in ToSet(r[d].order) :
                 \E m, n \in DOMAIN o : m < n /\ a = o[m] /\ c = o[n]
          BY <5>2, <3>8 DEF InFront
        <5> QED BY <5>2, <5>3 DEF o
      <4>2. Ranked(T[e].order)
        BY <3>6 DEF Ordered
      <4> QED BY <4>1, <4>2 DEF Ahead, Ranked
    <3> QED BY <3>5, <3>7, <3>8 DEF Precedes
  <2> QED BY <1>1, <2>4 DEF q
<1> QED BY <1>2, <1>3

(***************************************************************************)
(* What is read across a cut.  Every reader of a deferred op is no later   *)
(* than its last child, so the op is materialized when a point between the *)
(* two is older than the reader.                                           *)
(***************************************************************************)
Children ==
    \A c \in Buffers : \A i \in inputs[c] : IsDeferred(c) /\ IsDeferred(i) => lastChild[i] >= c
ConstantsReadNothing == \A c \in Buffers : IsConstant(c) => inputs[c] = {}
Graph == BuffersTypeOK /\ ReadEarlier /\ ConstantsReadNothing /\ Children

LEMMA RankedHasNoRepeats ==
    ASSUME NEW s, Ranked(s)
    PROVE  ~Repeats(s)
BY DEF Ranked, Repeats

LEMMA ReadPoint ==
    ASSUME BuffersTypeOK, NEW o \in Seq(Buffers), Ranked(o), NEW required,
           NEW p \in DOMAIN o, NEW m \in DOMAIN o, p <= m,
           o[m] \in SplitAllMaterializationPoints(o, required),
           NEW c \in Buffers, \A r \in (p + 1)..m : o[r] < c, lastChild[o[p]] >= c
    PROVE  o[p] \in SplitAllMaterializationPoints(o, required)
<1> DEFINE P == SplitAllMaterializationPoints(o, required)
<1>1. o[p] \in P \/ NotReadBeyond(o, P, p)
  BY RankedHasNoRepeats, SplitPoints
<1>2. o[m] \in P
  OBVIOUS
<1> SUFFICES o[p] \in P
  OBVIOUS
<1> HIDE DEF P
<1>3. CASE p < m /\ NotReadBeyond(o, P, p)
  <2>1. PICK r \in (p + 1)..m : lastChild[o[p]] <= o[r]
    BY <1>2, <1>3 DEF NotReadBeyond
  <2>2. o[r] < c /\ o[r] \in Buffers /\ o[p] \in Buffers
    BY <2>1
  <2>3. lastChild[o[p]] \in Int /\ c \in Int /\ o[r] \in Int
    <3>1. lastChild[o[p]] \in 0..MaxBuffers
      BY <2>2 DEF BuffersTypeOK
    <3> QED BY <2>2, <3>1, MaxBuffersAssumption DEF Buffers
  <2> QED BY <2>1, <2>2, <2>3
<1>4. p < m \/ p = m
  <2>1. DOMAIN o = 1..Len(o) /\ Len(o) \in Nat
    OBVIOUS
  <2> QED BY <2>1
<1> QED BY <1>1, <1>2, <1>3, <1>4

LEMMA SplitArgs ==
    ASSUME Graph, NEW t, Whole(t), Ranked(t.order), \A x \in ToSet(t.order) : IsDeferred(x),
           NEW d \in DOMAIN SplitTraversal(t), NEW a \in SplitTraversal(t)[d].args, IsDeferred(a)
    PROVE  a \in t.args \/ CoverBefore(SplitTraversal(t), d, a)
<1> DEFINE o == t.order
           P == SplitAllMaterializationPoints(t.order, t.outs)
<1>0. o \in Seq(Buffers) /\ BuffersTypeOK /\ t = CreateFromExecutionOrder(o, t.outs)
      /\ t.outs \in SUBSET Buffers
  BY DEF Whole, Traversals, Graph
<1>1. CASE P = t.outs
  <2>1. SplitTraversal(t) = <<t>>
    BY <1>1 DEF SplitTraversal
  <2> QED BY <2>1
<1>2. CASE P # t.outs
  <2>1. SplitTraversal(t) = ApplySplitPoints(o, P)
    BY <1>2 DEF SplitTraversal
  <2> HIDE DEF P
  <2>2. PICK w : \E s \in 0..Len(o) :
            ApplySplitPoints(o, P) = w.done /\ CutTo(o, P, Len(o), w, s)
    BY <1>0, CutPieces
  <2>3. PICK s \in 0..Len(o) : ApplySplitPoints(o, P) = w.done /\ CutTo(o, P, Len(o), w, s)
    BY <2>2
  <2>4. d \in 1..Len(w.done) /\ a \in w.done[d].args
    BY <2>1, <2>3 DEF CutTo
  <2>5. PICK lo \in 1..s : \E hi \in lo..s : Piece(o, P, w.done, d, lo, hi)
    BY <2>3, <2>4 DEF CutTo
  <2>6. PICK hi \in lo..s : Piece(o, P, w.done, d, lo, hi)
    BY <2>5
  <2> DEFINE q == w.done[d].order
  <2>7. /\ q \in Seq(Buffers) /\ Len(q) \in Nat /\ Len(q) = hi - lo + 1 /\ \A k \in 1..Len(q) : q[k] = o[lo + k - 1]
        /\ w.done[d] = CreateFromExecutionOrder(q, {o[hi]})
        /\ {o[hi]} \in SUBSET Buffers
    <3>1. hi \in DOMAIN o
      BY <1>0
    <3>2. o[hi] \in Buffers
      BY <1>0, <3>1
    <3>3. /\ q \in Seq(Buffers) /\ Len(q) = hi - lo + 1
          /\ \A k \in 1..Len(q) : q[k] = o[lo + k - 1]
          /\ w.done[d] = CreateFromExecutionOrder(q, {o[hi]})
      BY <2>6 DEF Piece, Slice
    <3>4. Len(q) \in Nat
      <4> HIDE DEF q
      <4> QED BY <3>3
    <3> QED BY <3>2, <3>3, <3>4
  <2>8. PICK k \in 1..Len(q) : a \in inputs[q[k]] /\ \A j \in 1..(k - 1) : a # q[j]
    <3> DEFINE outs == {o[hi]}
    <3>1. q \in Seq(Buffers) /\ outs \in SUBSET Buffers /\ a \in CreateFromExecutionOrder(q, outs).args
      BY <2>4, <2>7
    <3> HIDE DEF q, outs
    <3> QED BY <1>0, <3>1, CreatedTraversal
  <2> DEFINE e == lo + k - 1
             c == o[e]
  <2>9. e \in DOMAIN o /\ c \in Buffers /\ a \in inputs[c] /\ c = q[k] /\ e >= lo
    BY <1>0, <2>7, <2>8
  <2>10. ~IsConstant(c) /\ IsDeferred(c) /\ lastChild[a] >= c /\ a \in Buffers
    <3>1. c \in ToSet(o)
      BY <2>9 DEF ToSet
    <3> QED BY <2>9, <3>1 DEF Graph, ConstantsReadNothing, Children, BuffersTypeOK
  <2>11. CASE \A p \in 1..(e - 1) : a # o[p]
    <3>1. e \in 1..Len(o)
      BY <2>9
    <3>2. a \in inputs[o[e]] /\ \A p \in 1..(e - 1) : a # o[p]
      BY <2>9, <2>11
    <3> HIDE DEF c, e
    <3>3. \A x : (\E k1 \in 1..Len(o) : x \in inputs[o[k1]] /\ \A j \in 1..(k1 - 1) : x # o[j])
                => x \in CreateFromExecutionOrder(o, t.outs).args
      <4> HIDE DEF o
      <4> QED BY <1>0, CreatedTraversal
    <3>4. a \in t.args
      <4>1. \E k1 \in 1..Len(o) : a \in inputs[o[k1]] /\ \A j \in 1..(k1 - 1) : a # o[j]
        BY <3>1, <3>2
      <4>2. a \in CreateFromExecutionOrder(o, t.outs).args
        BY <3>3, <4>1, Zenon
      <4> HIDE DEF o
      <4> QED BY <1>0, <4>2, Zenon
    <3> QED BY <3>4
  <2>12. CASE \E p \in 1..(e - 1) : a = o[p]
    <3>1. PICK p \in 1..(e - 1) : a = o[p]
      BY <2>12
    <3>2. p < lo
      <4> SUFFICES ASSUME p >= lo PROVE FALSE
        OBVIOUS
      <4>1. PICK j \in 1..(k - 1) : lo + j - 1 = p
        <5>1. p - lo + 1 \in 1..(k - 1) /\ lo + (p - lo + 1) - 1 = p
          OBVIOUS
        <5> QED BY <5>1
      <4>2. j \in 1..Len(q)
        BY <2>7, <2>8
      <4>3. q[j] = o[p]
        BY <2>7, <4>1, <4>2
      <4> QED BY <2>8, <3>1, <4>3
    <3>3. p \in DOMAIN o /\ lo - 1 \in DOMAIN o /\ p <= lo - 1 /\ lo - 1 < e /\ lo # 1
      BY <1>0, <2>9, <3>2
    <3>4. o[lo - 1] \in P
      BY <2>6, <3>3 DEF Piece
    <3>5. \A r \in (p + 1)..(lo - 1) : o[r] < c
      <4> SUFFICES ASSUME NEW r \in (p + 1)..(lo - 1) PROVE o[r] < c
        OBVIOUS
      <4>1. r \in DOMAIN o /\ r < e
        BY <1>0, <2>9, <3>3
      <4> QED BY <2>9, <2>10, <4>1 DEF Ranked
    <3> HIDE DEF c, e
    <3>6. o[p] \in P
      BY <1>0, <2>9, <2>10, <3>1, <3>3, <3>4, <3>5, ReadPoint DEF P
    <3>7. CoverBefore(w.done, d, a)
      BY <2>6, <3>1, <3>2, <3>6 DEF Piece
    <3> QED BY <2>1, <2>3, <3>7
  <2> QED BY <2>11, <2>12
<1> QED BY <1>1, <1>2

\* An op of the order is followed by an output, or is one.
Anchored(s, outs) ==
    \A p \in DOMAIN s : ~IsConstant(s[p]) =>
        \E m \in DOMAIN s : p <= m /\ s[m] \in outs /\ ~IsConstant(s[m])

LEMMA ReadLater ==
    ASSUME Graph, NEW t, Whole(t), Ranked(t.order), Anchored(t.order, t.outs),
           NEW c \in Buffers, IsDeferred(c),
           \A x \in ToSet(t.order) : ~IsConstant(x) => x < c,
           NEW a \in ToSet(t.order), a \in inputs[c], IsDeferred(a), ~IsConstant(a)
    PROVE  Cover(SplitTraversal(t), a)
<1> DEFINE o == t.order
<1>0. o \in Seq(Buffers) /\ BuffersTypeOK
  BY DEF Whole, Traversals, Graph
<1>1. PICK p \in DOMAIN o : a = o[p]
  BY DEF ToSet
<1>2. PICK m \in DOMAIN o : p <= m /\ o[m] \in t.outs /\ ~IsConstant(o[m])
  BY <1>1 DEF Anchored
<1>3. o[m] < c
  BY <1>2 DEF ToSet
<1>4. \A r \in (p + 1)..m : o[r] < c
  <2> SUFFICES ASSUME NEW r \in (p + 1)..m PROVE o[r] < c
    OBVIOUS
  <2>1. r \in DOMAIN o /\ (r < m \/ r = m)
    BY <1>0
  <2>2. o[r] \in Buffers /\ o[m] \in Buffers
    BY <1>0, <2>1
  <2>3. o[r] \in Int /\ o[m] \in Int /\ c \in Int
    BY <2>2, MaxBuffersAssumption DEF Buffers
  <2>4. r < m => o[r] < o[m]
    BY <1>2, <2>1 DEF Ranked
  <2> QED BY <1>3, <2>1, <2>3, <2>4
<1>5. lastChild[a] >= c
  <2>1. a \in Buffers
    BY <1>0, <1>1
  <2> QED BY <2>1 DEF Graph, Children
<1>6. t.outs \subseteq Points(t) /\ (a \in Points(t) => Cover(SplitTraversal(t), a))
  BY <1>0, SplitCovers
<1>7. o[m] \in SplitAllMaterializationPoints(o, t.outs)
  BY <1>2, <1>6 DEF Points
<1>8. lastChild[o[p]] >= c
  BY <1>1, <1>5
<1> HIDE DEF o
<1>9. o[p] \in SplitAllMaterializationPoints(o, t.outs)
  <2>1. Ranked(o)
    BY DEF o
  <2> QED BY <1>0, <1>2, <1>4, <1>7, <1>8, <2>1, ReadPoint
<1> QED BY <1>1, <1>6, <1>9 DEF Points, o

\* What a traversal reads and does not execute was executed by an earlier one.
ClosedAt(T, d) ==
    \A a \in T[d].args : IsDeferred(a) =>
        ~IsConstant(a) /\ \E e \in 1..(d - 1) : a \in ToSet(T[e].order)
Fit(T, ev) ==
    /\ T \in Seq(Traversals)
    /\ Ordered(T) /\ MadeFrom(T, ev)
    /\ \A d \in DOMAIN T : Whole(T[d]) /\ Anchored(T[d].order, T[d].outs) /\ ClosedAt(T, d)

\* An op that is read from outside the plan is an output of the plan.
LEMMA PlanGives ==
    ASSUME Graph, NEW T, NEW ev, Fit(T, ev), NEW d \in DOMAIN T,
           NEW c \in Buffers, IsDeferred(c),
           \A x \in ToSet(T[d].order) : ~IsConstant(x) => x < c,
           NEW a \in ToSet(T[d].order), a \in inputs[c], IsDeferred(a), ~IsConstant(a)
    PROVE  /\ Cover(SplitTraversal(T[d]), a)
           /\ Cover(Plan(T, "split"), a)
<1>0. /\ BuffersTypeOK /\ T \in Seq(Traversals) /\ \A e \in DOMAIN T : Whole(T[e])
      /\ Ranked(T[d].order) /\ Anchored(T[d].order, T[d].outs)
  BY DEF Graph, Fit, Ordered
<1>1. Cover(SplitTraversal(T[d]), a)
  BY <1>0, ReadLater
<1> DEFINE seqs == [i \in DOMAIN T |-> SplitTraversal(T[i])]
           P == Plan(T, "split")
<1>2. FlatTo(seqs, Len(T), P)
  BY <1>0, PlanOfSplits
<1>3. seqs[d] = SplitTraversal(T[d]) /\ d \in 1..Len(T)
  BY <1>0
<1> HIDE DEF seqs, P
<1>4. PICK l \in DOMAIN seqs[d] : a \in seqs[d][l].outs /\ a \in ToSet(seqs[d][l].order)
  BY <1>1, <1>3 DEF Cover
<1>5. PICK j \in DOMAIN P : P[j] = seqs[d][l]
  BY <1>2, <1>3, <1>4 DEF FlatTo
<1>6. Cover(P, a)
  BY <1>4, <1>5 DEF Cover
<1> QED BY <1>1, <1>6 DEF P

\* What a traversal of the plan reads is an output of an earlier one.
LEMMA PlanArgs ==
    ASSUME Graph, NEW T, NEW ev, Fit(T, ev), NEW j \in DOMAIN Plan(T, "split"),
           NEW a \in Plan(T, "split")[j].args, IsDeferred(a)
    PROVE  CoverBefore(Plan(T, "split"), j, a)
<1> DEFINE seqs == [i \in DOMAIN T |-> SplitTraversal(T[i])]
           P == Plan(T, "split")
<1>0. /\ BuffersTypeOK /\ T \in Seq(Traversals) /\ \A e \in DOMAIN T : Whole(T[e])
      /\ \A e \in DOMAIN T : seqs[e] = SplitTraversal(T[e])
      /\ DOMAIN T = 1..Len(T)
  BY DEF Graph, Fit
<1>1. FlatTo(seqs, Len(T), P) /\ j \in DOMAIN P /\ a \in P[j].args
  BY <1>0, PlanOfSplits
<1> SUFFICES CoverBefore(P, j, a)
  OBVIOUS
<1> HIDE DEF seqs, P
<1>2. PICK e \in 1..Len(T) : \E d \in DOMAIN seqs[e] :
        /\ P[j] = seqs[e][d]
        /\ \A f \in 1..e : \A l \in DOMAIN seqs[f] :
              Precedes(f, l, e, d) => \E i \in 1..(j - 1) : P[i] = seqs[f][l]
  BY <1>1 DEF FlatTo
<1>3. PICK d \in DOMAIN seqs[e] :
        /\ P[j] = seqs[e][d]
        /\ \A f \in 1..e : \A l \in DOMAIN seqs[f] :
              Precedes(f, l, e, d) => \E i \in 1..(j - 1) : P[i] = seqs[f][l]
  BY <1>2
<1>4. ASSUME NEW f \in 1..e, NEW l \in DOMAIN seqs[f], Precedes(f, l, e, d),
             a \in seqs[f][l].outs, a \in ToSet(seqs[f][l].order)
      PROVE  CoverBefore(P, j, a)
  <2>1. PICK i \in 1..(j - 1) : P[i] = seqs[f][l]
    BY <1>3, <1>4
  <2> QED BY <1>4, <2>1 DEF CoverBefore
<1>5. e \in DOMAIN T /\ seqs[e] = SplitTraversal(T[e]) /\ Whole(T[e]) /\ Ranked(T[e].order)
      /\ (\A x \in ToSet(T[e].order) : IsDeferred(x)) /\ ClosedAt(T, e)
  BY <1>0 DEF Fit, Ordered, MadeFrom
<1>6. a \in T[e].args \/ CoverBefore(seqs[e], d, a)
  BY <1>1, <1>3, <1>5, SplitArgs
<1>7. CASE CoverBefore(seqs[e], d, a)
  <2>1. PICK l \in 1..(d - 1) : a \in seqs[e][l].outs /\ a \in ToSet(seqs[e][l].order)
    BY <1>7 DEF CoverBefore
  <2>2. seqs[e] \in Seq(Traversals)
    BY <1>0, <1>5, SplitCovers
  <2>3. l \in DOMAIN seqs[e] /\ Precedes(e, l, e, d)
    BY <1>3, <2>2 DEF Precedes
  <2> QED BY <1>4, <2>1, <2>3
<1>8. CASE a \in T[e].args
  <2>1. PICK f \in 1..(e - 1) : a \in ToSet(T[f].order)
    BY <1>5, <1>8 DEF ClosedAt
  <2>2. ~IsConstant(a) /\ f \in DOMAIN T /\ f < e
    BY <1>0, <1>5, <1>8 DEF ClosedAt
  <2>3. PICK k \in 1..Len(T[e].order) : a \in inputs[T[e].order[k]]
    <3>1. T[e].order \in Seq(Buffers) /\ T[e].outs \in SUBSET Buffers
          /\ T[e] = CreateFromExecutionOrder(T[e].order, T[e].outs)
      BY <1>5 DEF Whole, Traversals
    <3> QED BY <1>0, <1>8, <3>1, CreatedTraversal
  <2> DEFINE c == T[e].order[k]
  <2>4. c \in ToSet(T[e].order) /\ c \in Buffers
    <3>1. T[e].order \in Seq(Buffers)
      BY <1>5 DEF Whole, Traversals
    <3> QED BY <3>1 DEF ToSet
  <2>5. IsDeferred(c) /\ ~IsConstant(c)
    BY <1>5, <2>3, <2>4 DEF Graph, ConstantsReadNothing
  <2>6. a \in inputs[c]
    BY <2>3
  <2> HIDE DEF c
  <2>7. \A x \in ToSet(T[f].order) : x < c
    BY <1>5, <2>2, <2>4, <2>5 DEF Fit, Ordered, Ahead
  <2>8. Cover(SplitTraversal(T[f]), a)
    BY <2>1, <2>2, <2>4, <2>5, <2>6, <2>7, PlanGives
  <2>9. PICK l \in DOMAIN seqs[f] : a \in seqs[f][l].outs /\ a \in ToSet(seqs[f][l].order)
    BY <1>0, <2>2, <2>8 DEF Cover
  <2>10. f \in 1..e /\ Precedes(f, l, e, d)
    BY <2>2 DEF Precedes
  <2> QED BY <1>4, <2>9, <2>10
<1> QED BY <1>6, <1>7, <1>8

(***************************************************************************)
(* The loop over the events: what an op reads is in front of it, in its    *)
(* own execution order or in a finished traversal.                         *)
(***************************************************************************)
ReadsBack(s, D) ==
    \A k \in DOMAIN s : \A a \in inputs[s[k]] : IsDeferred(a) =>
        \/ \E j \in 1..(k - 1) : a = s[j]
        \/ ~IsConstant(a) /\ \E d \in DOMAIN D : a \in ToSet(D[d].order)
Sealed(w) ==
    /\ Sound(w)
    /\ ReadsBack(w.order, w.done)
    /\ Anchored(w.order, Finishing(w))
    /\ \A d \in DOMAIN w.done :
          Anchored(w.done[d].order, w.done[d].outs) /\ ClosedAt(w.done, d)

LEMMA FinishSeals ==
    ASSUME BuffersTypeOK, NEW w, Sealed(w)
    PROVE  LET v == FinishTraversal(w)
           IN  /\ Sealed(v)
               /\ \A x : Mentioned(w, x) /\ ~IsConstant(x) => Mentioned(v, x)
<1> DEFINE v == FinishTraversal(w)
<1>1. FinishedAs(w, v)
  BY FinishedWork DEF Sealed
<1> HIDE DEF v
<1>2. v.order = <<>> /\ Sound(v) /\ ReadsBack(v.order, v.done) /\ Anchored(v.order, Finishing(v))
  <2>1. v.order = <<>> /\ Sound(v)
    BY <1>1 DEF FinishedAs
  <2> QED BY <2>1 DEF ReadsBack, Anchored
<1>3. /\ w.done \in Seq(Traversals) /\ DOMAIN w.done = 1..Len(w.done) /\ Len(w.done) \in Nat
      /\ w.order \in Seq(Buffers)
  BY DEF Sealed, Sound, Work
<1>4. CASE Finishing(w) = {}
  <2>1. v.done = w.done
    BY <1>1, <1>4 DEF FinishedAs
  <2>2. \A x \in ToSet(w.order) : IsConstant(x)
    BY <1>4 DEF Sealed, Anchored, ToSet
  <2>3. Sealed(v)
    BY <1>2, <2>1 DEF Sealed
  <2>4. \A x : Mentioned(w, x) /\ ~IsConstant(x) => Mentioned(v, x)
    BY <2>1, <2>2 DEF Mentioned
  <2> QED BY <2>3, <2>4 DEF v
<1>5. CASE Finishing(w) # {}
  <2>1. PICK t : /\ Whole(t) /\ v.done = Append(w.done, t) /\ t.order = w.order
                 /\ t.outs = Finishing(w)
    BY <1>1, <1>5 DEF FinishedAs
  <2> DEFINE n == Len(w.done) + 1
             D == v.done
  <2>2. /\ DOMAIN D = DOMAIN w.done \cup {n} /\ n \notin DOMAIN w.done
        /\ \A d \in DOMAIN w.done : D[d] = w.done[d] /\ d < n
        /\ D[n] = t
        /\ 1..(n - 1) = DOMAIN w.done
        /\ \A d \in DOMAIN w.done : 1..(d - 1) \subseteq DOMAIN w.done
    BY <2>1, <1>3
  <2> HIDE DEF n, D
  <2>3. \A d \in DOMAIN D : Anchored(D[d].order, D[d].outs)
    BY <2>1, <2>2 DEF Sealed
  <2>4. ASSUME NEW d \in DOMAIN w.done PROVE ClosedAt(D, d)
    <3>1. ClosedAt(w.done, d) /\ D[d] = w.done[d]
          /\ \A e \in 1..(d - 1) : D[e] = w.done[e]
      BY <2>2, <2>4 DEF Sealed
    <3> QED BY <3>1 DEF ClosedAt
  <2>5. ClosedAt(D, n)
    <3> SUFFICES ASSUME NEW a \in t.args, IsDeferred(a)
                 PROVE  ~IsConstant(a) /\ \E e \in 1..(n - 1) : a \in ToSet(D[e].order)
      BY <2>2 DEF ClosedAt
    <3>1. t = CreateFromExecutionOrder(w.order, t.outs) /\ t.outs \in SUBSET Buffers
      BY <2>1 DEF Whole, Traversals
    <3>2. PICK k \in 1..Len(w.order) :
              a \in inputs[w.order[k]] /\ \A j \in 1..(k - 1) : a # w.order[j]
      BY <1>3, <3>1, CreatedTraversal
    <3>3. k \in DOMAIN w.order
      BY <1>3
    <3>4. ~IsConstant(a) /\ \E d \in DOMAIN w.done : a \in ToSet(w.done[d].order)
      BY <3>2, <3>3 DEF Sealed, ReadsBack
    <3> QED BY <2>2, <3>4
  <2>6. Sealed(v)
    BY <1>2, <2>2, <2>3, <2>4, <2>5 DEF Sealed, D
  <2>7. \A x : Mentioned(w, x) => Mentioned(v, x)
    BY <2>1, <2>2 DEF Mentioned, D
  <2> QED BY <2>6, <2>7 DEF v
<1> QED BY <1>4, <1>5

\* Appending constants, which read nothing, and an op e or nothing.
LEMMA ReadsBackConcat ==
    ASSUME Graph, NEW s \in Seq(Buffers), NEW r \in Seq(Buffers), NEW D, ReadsBack(s, D),
           \A x \in ToSet(r) : IsConstant(x)
    PROVE  ReadsBack(s \o r, D)
<1> DEFINE h == s \o r
<1>1. /\ DOMAIN s = 1..Len(s) /\ DOMAIN r = 1..Len(r) /\ Len(s) \in Nat /\ Len(r) \in Nat
      /\ h \in Seq(Buffers) /\ DOMAIN h = 1..(Len(s) + Len(r))
      /\ \A i \in 1..(Len(s) + Len(r)) : h[i] = IF i <= Len(s) THEN s[i] ELSE r[i - Len(s)]
  BY ConcatProperties
<1> SUFFICES ASSUME NEW k \in DOMAIN h, NEW a \in inputs[h[k]], IsDeferred(a)
             PROVE  \/ \E j \in 1..(k - 1) : a = h[j]
                    \/ ~IsConstant(a) /\ \E d \in DOMAIN D : a \in ToSet(D[d].order)
  BY DEF ReadsBack
<1> HIDE DEF h
<1>2. CASE k <= Len(s)
  <2>1. k \in DOMAIN s /\ h[k] = s[k] /\ \A j \in 1..(k - 1) : h[j] = s[j]
    BY <1>1, <1>2
  <2> QED BY <2>1 DEF ReadsBack
<1>3. CASE k > Len(s)
  <2>1. k - Len(s) \in DOMAIN r /\ h[k] = r[k - Len(s)]
    BY <1>1, <1>3
  <2>2. h[k] \in ToSet(r) /\ h[k] \in Buffers
    BY <1>1, <2>1 DEF ToSet
  <2> QED BY <2>2 DEF Graph, ConstantsReadNothing
<1> QED BY <1>1, <1>2, <1>3

LEMMA ReadsBackAppend ==
    ASSUME NEW s \in Seq(Buffers), NEW e \in Buffers, NEW D, ReadsBack(s, D),
           \A a \in inputs[e] : IsDeferred(a) =>
               \/ a \in ToSet(s)
               \/ ~IsConstant(a) /\ \E d \in DOMAIN D : a \in ToSet(D[d].order)
    PROVE  ReadsBack(Append(s, e), D)
<1> DEFINE h == Append(s, e)
<1>1. /\ DOMAIN s = 1..Len(s) /\ Len(s) \in Nat
      /\ DOMAIN h = 1..(Len(s) + 1) /\ h[Len(s) + 1] = e /\ \A i \in 1..Len(s) : h[i] = s[i]
  OBVIOUS
<1> SUFFICES ASSUME NEW k \in DOMAIN h, NEW a \in inputs[h[k]], IsDeferred(a)
             PROVE  \/ \E j \in 1..(k - 1) : a = h[j]
                    \/ ~IsConstant(a) /\ \E d \in DOMAIN D : a \in ToSet(D[d].order)
  BY DEF ReadsBack
<1> HIDE DEF h
<1>2. CASE k <= Len(s)
  <2>1. k \in DOMAIN s /\ h[k] = s[k] /\ \A j \in 1..(k - 1) : h[j] = s[j]
    BY <1>1, <1>2
  <2> QED BY <2>1 DEF ReadsBack
<1>3. CASE k = Len(s) + 1
  <2>1. h[k] = e /\ 1..(k - 1) = DOMAIN s /\ \A j \in DOMAIN s : h[j] = s[j]
    BY <1>1, <1>3
  <2>2. CASE a \in ToSet(s)
    <3>1. PICK j \in DOMAIN s : a = s[j]
      BY <2>2 DEF ToSet
    <3>2. j \in 1..(k - 1) /\ a = h[j]
      BY <2>1, <3>1
    <3> QED BY <3>2
  <2>3. CASE a \notin ToSet(s)
    BY <2>1, <2>3
  <2> QED BY <2>2, <2>3
<1> QED BY <1>1, <1>2, <1>3

LEMMA OpSeals ==
    ASSUME Graph, NEW w, Sealed(w), NEW e \in Buffers, ~IsConstant(e), NEW wanted,
           \A a \in inputs[e] : IsDeferred(a) /\ ~IsConstant(a) => Mentioned(w, a)
    PROVE  LET v == ProcessDeferredOpEvent(w, e, wanted)
           IN  /\ Sealed(v)
               /\ \A x : Mentioned(w, x) \/ x = e => Mentioned(v, x)
<1> DEFINE v == ProcessDeferredOpEvent(w, e, wanted)
           C == Inserted(w, e)
           S == SetToSeq(C)
           o == w.order
           q == o \o S
<1>1. ProcessedAs(w, e, wanted, v) /\ Sound(v)
  BY ProcessedOp, ProcessedIsSound DEF Sealed, Sound, Graph
<1>2. /\ C \in SUBSET Buffers /\ v.done = w.done /\ v.order = q \o <<e>>
      /\ ToSet(v.order) = ToSet(o) \cup C \cup {e}
      /\ e \in Finishing(v)
  <2> HIDE DEF v
  <2> QED BY <1>1 DEF ProcessedAs, Finishing
<1>3. \A x : x \in C <=> x \in inputs[e] /\ IsDeferred(x) /\ IsConstant(x) /\ x \notin ToSet(o)
  BY DEF Inserted, Sealed, Sound
<1>4. S \in Seq(Buffers) /\ ToSet(S) = C
  <2> HIDE DEF C
  <2> QED BY <1>2, ListedBuffers
<1>5. o \in Seq(Buffers) /\ ReadsBack(o, w.done)
  BY DEF Sealed, Sound, Work
<1> HIDE DEF v, C, S, o
<1>6. q \in Seq(Buffers) /\ ToSet(q) = ToSet(o) \cup C /\ ReadsBack(q, w.done)
  BY <1>3, <1>4, <1>5, ToSetConcat, ReadsBackConcat, ConcatProperties
<1> HIDE DEF q
<1>7. v.order = Append(q, e)
  <2>1. q \o <<e>> = Append(q, e)
    BY <1>6
  <2> QED BY <1>2, <2>1
<1>8. ASSUME NEW a \in inputs[e], IsDeferred(a)
      PROVE  \/ a \in ToSet(q)
             \/ ~IsConstant(a) /\ \E d \in DOMAIN w.done : a \in ToSet(w.done[d].order)
  BY <1>3, <1>6, <1>8 DEF Mentioned, o
<1>9. ReadsBack(v.order, v.done)
  BY <1>2, <1>6, <1>7, <1>8, ReadsBackAppend
<1>10. Anchored(v.order, Finishing(v))
  <2> DEFINE n == Len(q) + 1
  <2>1. n \in DOMAIN v.order /\ v.order[n] = e /\ \A p \in DOMAIN v.order : p <= n
    BY <1>6, <1>7
  <2> HIDE DEF n
  <2> SUFFICES ASSUME NEW p \in DOMAIN v.order
               PROVE  \E m \in DOMAIN v.order :
                         p <= m /\ v.order[m] \in Finishing(v) /\ ~IsConstant(v.order[m])
    BY DEF Anchored
  <2>2. p <= n /\ v.order[n] \in Finishing(v) /\ ~IsConstant(v.order[n])
    BY <1>2, <2>1
  <2> QED BY <2>1, <2>2
<1>11. Sealed(v)
  BY <1>1, <1>2, <1>9, <1>10 DEF Sealed
<1>12. \A x : Mentioned(w, x) \/ x = e => Mentioned(v, x)
  BY <1>2 DEF Mentioned, o
<1> QED BY <1>11, <1>12 DEF v

LEMMA EventSeals ==
    ASSUME Graph, NEW w, Sealed(w), NEW e \in Buffers, ~IsConstant(e), NEW wanted,
           \A a \in inputs[e] : IsDeferred(a) /\ ~IsConstant(a) => Mentioned(w, a)
    PROVE  LET v == ProcessEvent(w, e, wanted)
           IN  /\ Sealed(v)
               /\ \A x : (Mentioned(w, x) \/ x = e) /\ ~IsConstant(x) => Mentioned(v, x)
<1> DEFINE u == FinishTraversal(w)
           y == ProcessDeferredOpEvent(u, e, wanted)
           z == FinishTraversal(y)
<1>0. BuffersTypeOK
  BY DEF Graph
<1>1. CASE kind[e] = "collective"
  <2>1. ProcessEvent(w, e, wanted) = z
    BY <1>1 DEF ProcessEvent
  <2>2. Sealed(u) /\ \A x : Mentioned(w, x) /\ ~IsConstant(x) => Mentioned(u, x)
    BY <1>0, FinishSeals
  <2>3. Sealed(y) /\ \A x : Mentioned(u, x) \/ x = e => Mentioned(y, x)
    <3> HIDE DEF u
    <3>1. \A a \in inputs[e] : IsDeferred(a) /\ ~IsConstant(a) => Mentioned(u, a)
      BY <2>2
    <3> QED BY <2>2, <3>1, OpSeals
  <2>4. Sealed(z) /\ \A x : Mentioned(y, x) /\ ~IsConstant(x) => Mentioned(z, x)
    <3> HIDE DEF y
    <3> QED BY <1>0, <2>3, FinishSeals
  <2> HIDE DEF u, y, z
  <2> QED BY <2>1, <2>2, <2>3, <2>4
<1>2. CASE kind[e] # "collective"
  BY <1>2, OpSeals DEF ProcessEvent
<1> QED BY <1>1, <1>2

\* What the events read has an earlier event, which has not expired.
ClosedOn(ev, alive) ==
    \A k \in DOMAIN ev : ev[k] \in alive /\ IsDeferred(ev[k]) =>
        \A a \in inputs[ev[k]] : IsDeferred(a) /\ ~IsConstant(a) =>
            a \in alive /\ \E j \in 1..(k - 1) : ev[j] = a

LEMMA ScanSeals ==
    ASSUME Graph, NEW ev \in Seq(Buffers), Climbs(ev), NEW wanted, NEW alive, ClosedOn(ev, alive)
    PROVE  LET w == ProcessEvents(ev, wanted, alive)
           IN  /\ Sealed(w)
               /\ \A x \in ToSet(ev) : x \in alive /\ IsDeferred(x) => Mentioned(w, x)
<1>1. PICK g : /\ g[0] = NoWork
               /\ \A i \in 1..Len(ev) : g[i] = ScanStep(ev, wanted, alive, i, g[i - 1])
               /\ ProcessEvents(ev, wanted, alive) = g[Len(ev)]
  BY ScanSteps
<1>2. Len(ev) \in Nat /\ DOMAIN ev = 1..Len(ev) /\ \A i \in 1..Len(ev) : ev[i] \in Buffers
  OBVIOUS
<1> DEFINE T == {i \in 0..Len(ev) :
                    /\ Sealed(g[i])
                    /\ \A j \in 1..i : ev[j] \in alive /\ IsDeferred(ev[j]) =>
                          Mentioned(g[i], ev[j])}
<1>3. 0 \in T
  <2>1. NoWork.done = <<>> /\ NoWork.order = <<>> /\ DOMAIN <<>> = {}
    BY DEF NoWork
  <2>2. Sealed(NoWork)
    BY <2>1, NoWorkIsSound DEF Sealed, ReadsBack, Anchored
  <2> QED BY <1>1, <1>2, <2>2
<1>4. ASSUME NEW i \in 1..Len(ev), i - 1 \in T PROVE i \in T
  <2> DEFINE u == g[i - 1]
             e == ev[i]
  <2>1. /\ Sealed(u)
        /\ \A j \in 1..(i - 1) : ev[j] \in alive /\ IsDeferred(ev[j]) => Mentioned(u, ev[j])
    BY <1>4
  <2>2. g[i] = ScanStep(ev, wanted, alive, i, g[i - 1]) /\ e \in Buffers
    BY <1>1, <1>2
  <2>3. \A j \in 1..i : j \in 1..(i - 1) \/ j = i
    OBVIOUS
  <2>4. CASE ev[i] \in alive /\ IsDeferred(ev[i])
    <3>1. g[i] = ProcessEvent(u, e, wanted)
      BY <2>2, <2>4 DEF ScanStep
    <3>2. ~IsConstant(e) /\ \A j \in 1..i : ~IsConstant(ev[j])
      BY <1>2 DEF Climbs
    <3>3. ASSUME NEW a \in inputs[e], IsDeferred(a), ~IsConstant(a) PROVE Mentioned(u, a)
      <4>1. a \in alive /\ \E j \in 1..(i - 1) : ev[j] = a
        BY <1>2, <2>4, <3>3 DEF ClosedOn
      <4> QED BY <2>1, <3>3, <4>1
    <3>4. /\ Sealed(g[i])
          /\ \A x : (Mentioned(u, x) \/ x = e) /\ ~IsConstant(x) => Mentioned(g[i], x)
      <4> HIDE DEF u, e
      <4> QED BY <2>1, <2>2, <3>1, <3>2, <3>3, EventSeals
    <3>5. \A j \in 1..i : ev[j] \in alive /\ IsDeferred(ev[j]) => Mentioned(g[i], ev[j])
      BY <2>1, <2>3, <3>2, <3>4
    <3> QED BY <3>4, <3>5
  <2>5. CASE ~(ev[i] \in alive /\ IsDeferred(ev[i]))
    <3>1. g[i] = u
      BY <2>2, <2>5 DEF ScanStep
    <3>2. \A j \in 1..i : ev[j] \in alive /\ IsDeferred(ev[j]) => Mentioned(g[i], ev[j])
      BY <2>1, <2>3, <2>5, <3>1
    <3> QED BY <2>1, <3>1, <3>2
  <2> QED BY <2>4, <2>5
<1>5. Len(ev) \in T
  <2> HIDE DEF T
  <2>1. \A i \in 0..Len(ev) : i \in T
    BY <1>2, <1>3, <1>4, UpTo
  <2> QED BY <1>2, <2>1
<1>6. \A x \in ToSet(ev) : \E j \in 1..Len(ev) : x = ev[j]
  BY <1>2 DEF ToSet
<1> QED BY <1>1, <1>5, <1>6

LEMMA AnchoredConcat ==
    ASSUME NEW s \in Seq(Buffers), NEW r \in Seq(Buffers), NEW A, NEW B, A \subseteq B,
           Anchored(s, A), \A x \in ToSet(r) : IsConstant(x)
    PROVE  Anchored(s \o r, B)
<1> DEFINE h == s \o r
<1>1. /\ DOMAIN s = 1..Len(s) /\ DOMAIN r = 1..Len(r) /\ Len(s) \in Nat /\ Len(r) \in Nat
      /\ DOMAIN h = 1..(Len(s) + Len(r))
      /\ \A i \in 1..(Len(s) + Len(r)) : h[i] = IF i <= Len(s) THEN s[i] ELSE r[i - Len(s)]
  BY ConcatProperties
<1> SUFFICES ASSUME NEW p \in DOMAIN h, ~IsConstant(h[p])
             PROVE  \E m \in DOMAIN h : p <= m /\ h[m] \in B /\ ~IsConstant(h[m])
  BY DEF Anchored
<1> HIDE DEF h
<1>2. CASE p <= Len(s)
  <2>1. p \in DOMAIN s /\ h[p] = s[p]
    BY <1>1, <1>2
  <2>2. PICK m \in DOMAIN s : p <= m /\ s[m] \in A /\ ~IsConstant(s[m])
    BY <2>1 DEF Anchored
  <2>3. m \in DOMAIN h /\ h[m] = s[m]
    BY <1>1
  <2> QED BY <2>2, <2>3
<1>3. CASE p > Len(s)
  <2>1. p - Len(s) \in DOMAIN r /\ h[p] = r[p - Len(s)]
    BY <1>1, <1>3
  <2> QED BY <2>1 DEF ToSet
<1> QED BY <1>1, <1>2, <1>3

LEMMA AppendSeals ==
    ASSUME Graph, NEW w, Sealed(w), NEW wanted \in SUBSET Buffers
    PROVE  LET v == WithConstants(w, wanted)
           IN  Sealed(v) /\ \A x : Mentioned(w, x) => Mentioned(v, x)
<1> DEFINE v == WithConstants(w, wanted)
           N == WantedConstants(wanted) \ ToSet(w.order)
           S == SetToSeq(N)
           o == w.order
<1>1. AppendedAs(w, wanted, v)
  BY AppendedConstants DEF Sealed, Graph
<1>2. /\ N \in SUBSET Buffers /\ v.done = w.done /\ v.order = o \o S /\ Sound(v)
      /\ Finishing(w) \subseteq Finishing(v)
  <2> HIDE DEF v
  <2> QED BY <1>1 DEF AppendedAs, Finishing
<1>3. \A x \in N : IsConstant(x)
  BY DEF WantedConstants
<1>4. S \in Seq(Buffers) /\ ToSet(S) = N
  <2> HIDE DEF N
  <2> QED BY <1>2, ListedBuffers
<1>5. o \in Seq(Buffers) /\ ReadsBack(o, w.done) /\ Anchored(o, Finishing(w))
  BY DEF Sealed, Sound, Work
<1> HIDE DEF v, N, S, o
<1>6. ReadsBack(v.order, v.done) /\ Anchored(v.order, Finishing(v))
      /\ ToSet(v.order) = ToSet(o) \cup N
  BY <1>2, <1>3, <1>4, <1>5, ReadsBackConcat, AnchoredConcat, ToSetConcat
<1>7. Sealed(v)
  BY <1>2, <1>6 DEF Sealed
<1>8. \A x : Mentioned(w, x) => Mentioned(v, x)
  BY <1>2, <1>6 DEF Mentioned, o
<1> QED BY <1>7, <1>8 DEF v

\* The traversals of a stretch that reads nothing in front of it.
LEMMA PreparedFits ==
    ASSUME Graph, NEW ev \in Seq(Buffers), Climbs(ev), NEW wanted \in SUBSET Buffers, NEW held,
           ClosedOn(ev, Alive(ev, held))
    PROVE  LET T == PrepareTraversals(ev, wanted, held)
           IN  /\ Fit(T, ev)
               /\ \A x \in ToSet(ev) : x \in Alive(ev, held) /\ IsDeferred(x) =>
                     \E d \in DOMAIN T : x \in ToSet(T[d].order)
<1> DEFINE w == ProcessEvents(ev, wanted, Alive(ev, held))
           v == WithConstants(w, wanted)
           f == FinishTraversal(v)
           T == PrepareTraversals(ev, wanted, held)
<1>0. BuffersTypeOK /\ ReadEarlier
  BY DEF Graph
<1>1. Sealed(w) /\ \A x \in ToSet(ev) : x \in Alive(ev, held) /\ IsDeferred(x) => Mentioned(w, x)
  BY ScanSeals
<1>2. T = f.done
  BY PreparedLast
<1>3. Sealed(v) /\ \A x : Mentioned(w, x) => Mentioned(v, x)
  <2> HIDE DEF w
  <2> QED BY <1>1, AppendSeals
<1>4. Sealed(f) /\ \A x : Mentioned(v, x) /\ ~IsConstant(x) => Mentioned(f, x)
  <2> HIDE DEF v
  <2> QED BY <1>0, <1>3, FinishSeals
<1>5. f.order = <<>>
  <2>1. FinishedAs(v, f)
    <3> HIDE DEF v
    <3> QED BY <1>0, <1>3, FinishedWork DEF Sealed
  <2> QED BY <2>1 DEF FinishedAs
<1>6. Ordered(T) /\ MadeFrom(T, ev)
  BY <1>0, PreparedInOrder
<1> HIDE DEF w, v, f, T
<1>7. Fit(T, ev)
  BY <1>2, <1>4, <1>6 DEF Fit, Sealed, Sound, Work
<1>8. ASSUME NEW x \in ToSet(ev), x \in Alive(ev, held), IsDeferred(x)
      PROVE  \E d \in DOMAIN T : x \in ToSet(T[d].order)
  <2>1. ~IsConstant(x)
    BY <1>8 DEF Climbs, ToSet
  <2>2. Mentioned(f, x)
    BY <1>1, <1>3, <1>4, <1>8, <2>1
  <2>3. x \notin ToSet(<<>>)
    BY DEF ToSet
  <2> QED BY <1>2, <1>5, <2>2, <2>3 DEF Mentioned
<1> QED BY <1>7, <1>8 DEF T
=============================================================================
