--------------------------- MODULE TransferProofs ---------------------------
(***************************************************************************)
(* Proofs about the transfers of ProcessGroup, for any number of ranks,    *)
(* tags and tensors, any programs and any number of failures.              *)
(***************************************************************************)
EXTENDS ProcessGroup, FiniteSetTheorems, TLAPS

\* The copies of a send that were not counted down.
Open(x) == {j \in Tensors : x.copies[j] \in {"flying", "passed", "failing", "failed"}}

\* The counter of an incomplete send is the number of its open copies, and it
\* is not zero; an error leaves the counter too high for a success to be the
\* last.
Consistent(x) ==
    /\ x.future = "none" => \A j \in Tensors : x.copies[j] = "none"
    /\ x.future = "ok" => \A j \in Tensors : x.copies[j] \in {"none", "sent"}
    /\ x.future = "unset" =>
          /\ x.left = Cardinality(Open(x)) /\ Open(x) # {}
          /\ \A j \in Tensors : x.copies[j] # "failed"
    /\ x.future = "error" =>
          /\ Cardinality(Open(x)) <= x.left
          /\ \/ \E j \in Tensors : x.copies[j] = "failed"
             \/ \A j \in Tensors : x.copies[j] = "none"
    /\ x.again => \E j, k \in Tensors :
          j # k /\ {x.copies[j], x.copies[k]} \subseteq {"failing", "failed"}

\* Where the ranks are: a stripe of a send or a receive is one of its stripes.
RankType ==
    /\ deploy \in Deployments
    /\ rank \in [Ranks -> [pc: 1..(MaxCalls + 1), stripe: Stripes, step: Steps]]
    /\ \A r \in Ranks :
          ~Returned(r) /\ Current(r).op # "alltoall" => rank[r].stripe <= Len(Current(r).tags)

PostedType == posted \in [TransferKeys -> Descriptors \cup {Absent}]
WorkType == work \in [Works -> Work]
WorksConsistent == \A w \in Works : Consistent(work[w])

IInv == RankType /\ PostedType /\ WorkType /\ WorksConsistent

(***************************************************************************)
(* What happens to one work.                                               *)
(***************************************************************************)
LEMMA OpenFinite ==
    ASSUME NEW x
    PROVE  IsFiniteSet(Open(x)) /\ Cardinality(Open(x)) \in Nat
<1>1. MaxTensors \in Nat
  BY TransferAssumption
<1>2. IsFiniteSet(Tensors)
  BY <1>1, FS_Interval DEF Tensors
<1>3. Open(x) \in SUBSET Tensors
  BY DEF Open
<1> QED BY <1>2, <1>3, FS_Subset, FS_CardinalityType

\* A callback that has looked at the future.
LEMMA ReturnKeeps ==
    ASSUME NEW x \in Work, Consistent(x), NEW j \in Tensors, NEW ok \in BOOLEAN,
           x.copies[j] = "flying", NEW y,
           y = [x EXCEPT !.copies[j] =
                   IF x.future = "unset" THEN IF ok THEN "passed" ELSE "failing"
                   ELSE IF ok THEN "sent" ELSE "failed"]
    PROVE  y \in Work /\ Consistent(y)
<1>1. /\ x.copies \in [Tensors -> CopyStates] /\ x.future \in Futures
      /\ x.left \in 0..MaxTensors /\ x.again \in BOOLEAN
      /\ x.to \in [Tensors -> Descriptors \cup {Absent}]
  BY DEF Work
<1>2. /\ y.copies = [x.copies EXCEPT ![j] =
                   IF x.future = "unset" THEN IF ok THEN "passed" ELSE "failing"
                   ELSE IF ok THEN "sent" ELSE "failed"]
      /\ y.future = x.future /\ y.left = x.left /\ y.again = x.again /\ y.to = x.to
  BY DEF Work
<1>3. y.copies \in [Tensors -> CopyStates]
  BY <1>1, <1>2 DEF CopyStates
<1>4. y \in Work
  BY <1>1, <1>2, <1>3 DEF Work
<1>5. x.future = "unset" => Open(y) = Open(x)
  BY <1>1, <1>2 DEF Open
<1>6. Cardinality(Open(y)) <= Cardinality(Open(x))
  <2>1. Open(y) \in SUBSET Open(x)
    BY <1>1, <1>2 DEF Open
  <2> QED BY <2>1, OpenFinite, FS_Subset
<1>7. \A k \in Tensors : k # j => y.copies[k] = x.copies[k]
  BY <1>1, <1>2
<1>8. y.copies[j] \in {"passed", "failing", "sent", "failed"}
      /\ (x.future = "unset" => y.copies[j] \in {"passed", "failing"})
  BY <1>1, <1>2
<1>9. x.future \in {"unset", "error"}
  BY <1>1 DEF Consistent, Futures
<1>10. Cardinality(Open(x)) \in Nat /\ Cardinality(Open(y)) \in Nat
  BY OpenFinite
<1>11. y.future = "unset" => y.left = Cardinality(Open(y)) /\ Open(y) # {}
         /\ \A k \in Tensors : y.copies[k] # "failed"
  BY <1>2, <1>5, <1>7, <1>8 DEF Consistent
<1>12. y.future = "error" =>
          /\ Cardinality(Open(y)) <= y.left
          /\ \E k \in Tensors : y.copies[k] = "failed"
  <2> SUFFICES ASSUME y.future = "error"
      PROVE  Cardinality(Open(y)) <= y.left /\ \E k \in Tensors : y.copies[k] = "failed"
    OBVIOUS
  <2>1. Cardinality(Open(y)) <= y.left
    BY <1>1, <1>2, <1>6, <1>10 DEF Consistent
  <2>2. PICK k \in Tensors : x.copies[k] = "failed"
    BY <1>2 DEF Consistent
  <2> QED BY <2>1, <2>2, <1>7
<1>13. y.again => \E k, l \in Tensors :
          k # l /\ {y.copies[k], y.copies[l]} \subseteq {"failing", "failed"}
  BY <1>2, <1>7 DEF Consistent
<1> QED BY <1>2, <1>4, <1>9, <1>11, <1>12, <1>13 DEF Consistent

\* A callback whose copy failed sets the error.
LEMMA FailureKeeps ==
    ASSUME NEW x \in Work, Consistent(x), NEW j \in Tensors, x.copies[j] = "failing", NEW y,
           y = [x EXCEPT !.copies[j] = "failed",
                         !.future = IF x.future = "unset" THEN "error" ELSE x.future,
                         !.again = x.again \/ x.future # "unset"]
    PROVE  y \in Work /\ Consistent(y)
<1>1. /\ x.copies \in [Tensors -> CopyStates] /\ x.future \in Futures
      /\ x.left \in 0..MaxTensors /\ x.again \in BOOLEAN
      /\ x.to \in [Tensors -> Descriptors \cup {Absent}]
  BY DEF Work
<1>2. x.future \in {"unset", "error"}
  BY <1>1 DEF Consistent, Futures
<1>3. /\ y.copies = [x.copies EXCEPT ![j] = "failed"]
      /\ y.future = "error" /\ y.left = x.left /\ y.to = x.to
      /\ y.again = (x.again \/ x.future # "unset")
  BY <1>2 DEF Work
<1>4. y.copies \in [Tensors -> CopyStates]
  BY <1>1, <1>3 DEF CopyStates
<1>5. y \in Work
  <2>1. y.again \in BOOLEAN
    BY <1>3
  <2> QED BY <1>1, <1>3, <1>4, <2>1 DEF Work, Futures
<1>6. Open(y) = Open(x)
  BY <1>1, <1>3 DEF Open
<1>7. y.copies[j] = "failed" /\ \A k \in Tensors : k # j => y.copies[k] = x.copies[k]
  BY <1>1, <1>3
<1>8. Cardinality(Open(x)) \in Nat
  BY OpenFinite
<1>9. Cardinality(Open(y)) <= y.left
  BY <1>1, <1>2, <1>3, <1>6, <1>8 DEF Consistent
<1>10. ASSUME y.again
       PROVE  \E k, l \in Tensors :
                 k # l /\ {y.copies[k], y.copies[l]} \subseteq {"failing", "failed"}
  <2>1. CASE x.again
    <3>1. PICK k, l \in Tensors :
             k # l /\ {x.copies[k], x.copies[l]} \subseteq {"failing", "failed"}
      BY <2>1 DEF Consistent
    <3>2. {y.copies[k], y.copies[l]} \subseteq {"failing", "failed"}
      BY <3>1, <1>7
    <3> QED BY <3>1, <3>2
  <2>2. CASE ~x.again
    <3>1. x.future = "error"
      BY <2>2, <1>2, <1>3, <1>10
    <3>2. PICK k \in Tensors : x.copies[k] = "failed"
      BY <3>1 DEF Consistent
    <3> QED BY <3>2, <1>7
  <2> QED BY <2>1, <2>2
<1> QED BY <1>3, <1>5, <1>7, <1>9, <1>10 DEF Consistent

\* A callback whose copy succeeded counts down, and completes the future if it
\* is the last.
LEMMA SuccessKeeps ==
    ASSUME NEW x \in Work, Consistent(x), NEW j \in Tensors, x.copies[j] = "passed", NEW y,
           y = [x EXCEPT !.copies[j] = "sent", !.left = x.left - 1,
                         !.future = IF x.left = 1 /\ x.future = "unset" THEN "ok" ELSE x.future,
                         !.again = x.again \/ (x.left = 1 /\ x.future # "unset")]
    PROVE  y \in Work /\ Consistent(y)
<1>1. /\ x.copies \in [Tensors -> CopyStates] /\ x.future \in Futures
      /\ x.left \in 0..MaxTensors /\ x.again \in BOOLEAN
      /\ x.to \in [Tensors -> Descriptors \cup {Absent}]
  BY DEF Work
<1>2. x.future \in {"unset", "error"}
  BY <1>1 DEF Consistent, Futures
<1>3. /\ y.copies = [x.copies EXCEPT ![j] = "sent"]
      /\ y.future = (IF x.left = 1 /\ x.future = "unset" THEN "ok" ELSE x.future)
      /\ y.left = x.left - 1 /\ y.to = x.to
      /\ y.again = (x.again \/ (x.left = 1 /\ x.future # "unset"))
  BY DEF Work
<1>4. y.copies \in [Tensors -> CopyStates]
  BY <1>1, <1>3 DEF CopyStates
<1>5. j \in Open(x) /\ Open(y) = Open(x) \ {j}
  BY <1>1, <1>3 DEF Open
<1>6. /\ Cardinality(Open(x)) \in Nat /\ Cardinality(Open(y)) \in Nat
      /\ Cardinality(Open(y)) = Cardinality(Open(x)) - 1
      /\ Cardinality(Open(y)) = 0 <=> Open(y) = {}
  BY <1>5, OpenFinite, FS_RemoveElement, FS_EmptySet
<1>7. \A k \in Tensors : k # j => y.copies[k] = x.copies[k]
  BY <1>1, <1>3
<1>8. y.copies[j] = "sent"
  BY <1>1, <1>3
<1>9. MaxTensors \in Nat
  BY TransferAssumption
<1>10. CASE x.future = "unset"
  <2>1. x.left = Cardinality(Open(x)) /\ \A k \in Tensors : x.copies[k] # "failed"
    BY <1>10 DEF Consistent
  <2>2. x.left >= 1 /\ y.left \in 0..MaxTensors /\ y.left = Cardinality(Open(y))
    BY <2>1, <1>1, <1>3, <1>6, <1>9
  <2>3. y.again = x.again
    BY <1>1, <1>3, <1>10
  <2>4. y \in Work
    BY <2>2, <2>3, <1>1, <1>3, <1>4, <1>10 DEF Work, Futures
  <2>5. y.again => \E k, l \in Tensors :
           k # l /\ {y.copies[k], y.copies[l]} \subseteq {"failing", "failed"}
    <3> SUFFICES ASSUME x.again
        PROVE  \E k, l \in Tensors :
                  k # l /\ {y.copies[k], y.copies[l]} \subseteq {"failing", "failed"}
      BY <2>3
    <3>1. PICK k, l \in Tensors :
             k # l /\ {x.copies[k], x.copies[l]} \subseteq {"failing", "failed"}
      BY DEF Consistent
    <3>2. k # j /\ l # j
      BY <3>1
    <3> QED BY <3>1, <3>2, <1>7
  <2>6. CASE x.left = 1
    <3>1. y.future = "ok" /\ Open(y) = {}
      BY <2>6, <2>2, <1>3, <1>6, <1>10
    <3>2. \A k \in Tensors : y.copies[k] \in {"none", "sent"}
      BY <3>1, <1>4 DEF Open, CopyStates
    <3> QED BY <3>1, <3>2, <2>4, <2>5 DEF Consistent
  <2>7. CASE x.left # 1
    <3>1. y.future = "unset" /\ Open(y) # {}
      BY <2>7, <2>1, <2>2, <1>1, <1>3, <1>6, <1>10
    <3>2. \A k \in Tensors : y.copies[k] # "failed"
      BY <2>1, <1>7, <1>8
    <3> QED BY <3>1, <3>2, <2>2, <2>4, <2>5 DEF Consistent
  <2> QED BY <2>6, <2>7
<1>11. CASE x.future = "error"
  <2>1. PICK k \in Tensors : x.copies[k] = "failed"
    BY <1>11 DEF Consistent
  <2>2. k # j /\ k \in Open(y) /\ y.copies[k] = "failed"
    BY <2>1, <1>7 DEF Open
  <2>3. Cardinality(Open(x)) >= 2 /\ Cardinality(Open(x)) <= x.left
    <3>1. Cardinality(Open(x)) <= x.left
      BY <1>11 DEF Consistent
    <3> QED BY <3>1, <2>2, <1>6
  <2>4. x.left # 1 /\ y.left \in 0..MaxTensors /\ Cardinality(Open(y)) <= y.left
    BY <2>3, <1>1, <1>3, <1>6, <1>9
  <2>5. y.future = "error" /\ y.again = x.again
    BY <2>4, <1>1, <1>3, <1>11
  <2>6. y \in Work
    BY <2>4, <2>5, <1>1, <1>3, <1>4 DEF Work, Futures
  <2>7. y.again => \E m, l \in Tensors :
           m # l /\ {y.copies[m], y.copies[l]} \subseteq {"failing", "failed"}
    <3> SUFFICES ASSUME x.again
        PROVE  \E m, l \in Tensors :
                  m # l /\ {y.copies[m], y.copies[l]} \subseteq {"failing", "failed"}
      BY <2>5
    <3>1. PICK m, l \in Tensors :
             m # l /\ {x.copies[m], x.copies[l]} \subseteq {"failing", "failed"}
      BY DEF Consistent
    <3>2. m # j /\ l # j
      BY <3>1
    <3> QED BY <3>1, <3>2, <1>7
  <2> QED BY <2>2, <2>4, <2>5, <2>6, <2>7 DEF Consistent
<1> QED BY <1>2, <1>10, <1>11

\* A send whose copies start, and one whose lookup fails.
LEMMA StartIsConsistent ==
    ASSUME NEW count \in 0..MaxTensors, NEW to \in [Tensors -> Descriptors \cup {Absent}], NEW y,
           y = [future |-> IF count = 0 THEN "ok" ELSE "unset",
                left |-> count, again |-> FALSE,
                copies |-> [j \in Tensors |-> IF j <= count THEN "flying" ELSE "none"],
                to |-> to]
    PROVE  y \in Work /\ Consistent(y)
<1>1. MaxTensors \in Nat /\ count \in Nat
  BY TransferAssumption
<1>2. y \in Work
  BY <1>1 DEF Work, Futures, CopyStates
<1>3. Open(y) = 1..count
  BY <1>1 DEF Open, Tensors
<1>4. Cardinality(1..count) = count
  BY <1>1, FS_Interval
<1>5. count # 0 => 1 \in 1..count
  BY <1>1
<1>6. count = 0 => \A j \in Tensors : y.copies[j] = "none"
  BY <1>1 DEF Tensors
<1>7. \A j \in Tensors : y.copies[j] # "failed"
  OBVIOUS
<1> QED BY <1>2, <1>3, <1>4, <1>5, <1>6, <1>7 DEF Consistent

LEMMA LookupFailureIsConsistent ==
    ASSUME NEW count \in 0..MaxTensors, NEW y,
           y = [future |-> "error", left |-> count, again |-> FALSE,
                copies |-> [j \in Tensors |-> "none"], to |-> [j \in Tensors |-> Absent]]
    PROVE  y \in Work /\ Consistent(y)
<1>1. MaxTensors \in Nat /\ count \in Nat
  BY TransferAssumption
<1>2. y \in Work
  BY DEF Work, Futures, CopyStates
<1>3. Open(y) = {}
  BY DEF Open
<1>4. Cardinality(Open(y)) = 0
  BY <1>3, FS_EmptySet
<1> QED BY <1>1, <1>2, <1>4 DEF Consistent

(***************************************************************************)
(* Where the ranks go.                                                     *)
(***************************************************************************)

\* What is known of the operation a rank is at.
LEMMA CurrentOperation ==
    ASSUME RankType, NEW r \in Ranks, ~Returned(r)
    PROVE  /\ Current(r) \in Operation /\ rank[r].pc \in Operations
           /\ rank[r].pc + 1 \in 1..(MaxCalls + 1)
           /\ Current(r).op # "alltoall" =>
                 /\ Len(Current(r).tags) \in Stripes
                 /\ rank[r].stripe \in 1..Len(Current(r).tags)
                 /\ Tag(r) \in 0..(MaxTags - 1)
<1>1. /\ deploy.program \in [Ranks -> Seq(Operation)]
      /\ Len(deploy.program[r]) <= MaxCalls
      /\ \A n \in DOMAIN deploy.program[r] :
            deploy.program[r][n].op # "alltoall" => Len(deploy.program[r][n].tags) \in Stripes
  BY DeploymentsAssumption DEF RankType
<1>2. deploy.program[r] \in Seq(Operation)
  BY <1>1
<1>3. MaxCalls \in Nat /\ MaxTags \in Nat /\ Len(deploy.program[r]) \in Nat
  BY <1>2, GroupAssumption, TransferAssumption
<1>4. rank[r].pc \in 1..(MaxCalls + 1) /\ rank[r].stripe \in Stripes
  BY DEF RankType
<1>5. rank[r].pc <= Len(deploy.program[r])
  BY <1>3, <1>4 DEF Returned
<1>6. rank[r].pc \in 1..Len(deploy.program[r])
  BY <1>3, <1>4, <1>5
<1>7. Current(r) \in Operation
  BY <1>2, <1>6 DEF Current
<1>8. rank[r].pc \in Operations /\ rank[r].pc + 1 \in 1..(MaxCalls + 1)
  BY <1>1, <1>3, <1>6 DEF Operations
<1>9. ASSUME Current(r).op # "alltoall"
      PROVE  /\ Len(Current(r).tags) \in Stripes
             /\ rank[r].stripe \in 1..Len(Current(r).tags)
             /\ Tag(r) \in 0..(MaxTags - 1)
  <2>1. Len(Current(r).tags) \in Stripes
    BY <1>1, <1>2, <1>6, <1>9 DEF Current
  <2>2. rank[r].stripe <= Len(Current(r).tags)
    BY <1>9 DEF RankType
  <2>3. rank[r].stripe \in 1..Len(Current(r).tags)
    BY <2>1, <2>2, <1>3, <1>4 DEF Stripes
  <2>4. Current(r).tags \in Seq(0..(MaxTags - 1))
    BY <1>7 DEF Operation
  <2> DEFINE T == 0..(MaxTags - 1)
             ts == Current(r).tags
  <2>5. ts \in Seq(T) /\ rank[r].stripe \in 1..Len(ts)
    BY <2>3, <2>4
  <2>6. Tag(r) = ts[rank[r].stripe]
    BY DEF Tag
  <2> HIDE DEF T, ts
  <2>7. Tag(r) \in T
    BY <2>5, <2>6
  <2> QED BY <2>1, <2>3, <2>7 DEF T
<1> QED BY <1>7, <1>8, <1>9

\* A rank that raises, waits, or comes to its next stripe or operation.
LEMMA RankMoves ==
    ASSUME RankType, NEW r \in Ranks, ~Finished(r), UNCHANGED deploy,
           NEW s \in Steps,
           \/ Advance(r)
           \/ rank' = [rank EXCEPT ![r].step = s]
           \/ rank' = [rank EXCEPT ![r].stripe = 1, ![r].step = s]
           \/ /\ Current(r).op # "alltoall" /\ ~LastStripe(r)
              /\ rank' = [rank EXCEPT ![r].stripe = @ + 1]
    PROVE  RankType'
<1> DEFINE RT == [pc: 1..(MaxCalls + 1), stripe: Stripes, step: Steps]
<1>1. rank \in [Ranks -> RT] /\ rank[r] \in RT /\ MaxTags \in Nat \ {0} /\ MaxCalls \in Nat
  BY GroupAssumption, TransferAssumption DEF RankType
<1>2. 1 \in Stripes /\ "start" \in Steps
  BY <1>1 DEF Stripes, Steps
<1>3. ~Returned(r)
  BY DEF Finished
<1>4. deploy' = deploy /\ deploy' \in Deployments
  BY DEF RankType
<1>5. ASSUME NEW q \in Ranks, rank'[q] = rank[q], ~Returned(q)', Current(q)'.op # "alltoall"
      PROVE  rank'[q].stripe <= Len(Current(q)'.tags)
  <2>1. ~Returned(q) /\ Current(q)' = Current(q)
    BY <1>4, <1>5 DEF Returned, Current
  <2> QED BY <2>1, <1>5 DEF RankType
<1>6. ASSUME NEW x \in RT, rank' = [rank EXCEPT ![r] = x],
             ~Returned(r)' /\ Current(r)'.op # "alltoall" => x.stripe <= Len(Current(r)'.tags)
      PROVE  RankType'
  <2>1. rank' \in [Ranks -> RT] /\ rank'[r] = x
    BY <1>1, <1>6
  <2>2. \A q \in Ranks : q # r => rank'[q] = rank[q]
    BY <1>1, <1>6
  <2>3. \A q \in Ranks : ~Returned(q)' /\ Current(q)'.op # "alltoall"
                          => rank'[q].stripe <= Len(Current(q)'.tags)
    BY <2>1, <2>2, <1>5, <1>6
  <2> QED BY <2>1, <2>3, <1>4 DEF RankType
<1>7. ASSUME NEW x \in RT, rank' = [rank EXCEPT ![r] = x], x.stripe = 1
      PROVE  RankType'
  <2>1. ASSUME ~Returned(r)', Current(r)'.op # "alltoall"
        PROVE  1 <= Len(Current(r)'.tags)
    <3>1. /\ deploy.program[r] \in Seq(Operation)
          /\ \A n \in DOMAIN deploy.program[r] :
               deploy.program[r][n].op # "alltoall" => Len(deploy.program[r][n].tags) \in Stripes
      BY DeploymentsAssumption DEF RankType
    <3>2. rank'[r] = x /\ x.pc \in 1..(MaxCalls + 1)
      BY <1>1, <1>7
    <3>3. x.pc \in 1..Len(deploy.program[r])
      BY <2>1, <3>1, <3>2, <1>1, <1>4 DEF Returned
    <3>4. Len(deploy.program[r][x.pc].tags) \in Stripes
      BY <2>1, <3>1, <3>2, <3>3, <1>4 DEF Current
    <3> QED BY <3>2, <3>4, <1>1, <1>4 DEF Current, Stripes
  <2> QED BY <2>1, <1>6, <1>7
<1>8. CASE Advance(r)
  <2>1. rank[r].pc + 1 \in 1..(MaxCalls + 1)
    BY <1>3, CurrentOperation
  <2> DEFINE x == [pc |-> rank[r].pc + 1, stripe |-> 1, step |-> "start"]
  <2>2. x \in RT /\ x.stripe = 1 /\ rank' = [rank EXCEPT ![r] = x]
    BY <2>1, <1>1, <1>2, <1>8 DEF Advance
  <2> HIDE DEF x
  <2> QED BY <2>2, <1>7
<1>9. CASE rank' = [rank EXCEPT ![r].step = s]
  <2> DEFINE x == [rank[r] EXCEPT !.step = s]
  <2>1. x \in RT /\ x.stripe = rank[r].stripe /\ x.pc = rank[r].pc
        /\ rank' = [rank EXCEPT ![r] = x]
    BY <1>1, <1>9
  <2>2. Current(r)' = Current(r) /\ (Returned(r)' <=> Returned(r))
    BY <2>1, <1>1, <1>4 DEF Current, Returned
  <2>3. ~Returned(r)' /\ Current(r)'.op # "alltoall" => x.stripe <= Len(Current(r)'.tags)
    BY <2>1, <2>2 DEF RankType
  <2> HIDE DEF x
  <2> QED BY <2>1, <2>3, <1>6
<1>10. CASE rank' = [rank EXCEPT ![r].stripe = 1, ![r].step = s]
  <2> DEFINE x == [rank[r] EXCEPT !.stripe = 1, !.step = s]
  <2>1. x \in RT /\ x.stripe = 1 /\ rank' = [rank EXCEPT ![r] = x]
    BY <1>1, <1>2, <1>10
  <2> HIDE DEF x
  <2> QED BY <2>1, <1>7
<1>11. CASE /\ Current(r).op # "alltoall" /\ ~LastStripe(r)
            /\ rank' = [rank EXCEPT ![r].stripe = @ + 1]
  <2>1. Len(Current(r).tags) \in Stripes /\ rank[r].stripe \in 1..Len(Current(r).tags)
    BY <1>3, <1>11, CurrentOperation
  <2>2. rank[r].stripe + 1 \in Stripes /\ rank[r].stripe + 1 <= Len(Current(r).tags)
    BY <2>1, <1>1, <1>11 DEF LastStripe, Stripes
  <2> DEFINE x == [rank[r] EXCEPT !.stripe = rank[r].stripe + 1]
  <2>3. x \in RT /\ x.stripe = rank[r].stripe + 1 /\ x.pc = rank[r].pc
        /\ rank' = [rank EXCEPT ![r] = x]
    BY <2>2, <1>1, <1>11
  <2>4. Current(r)' = Current(r)
    BY <2>3, <1>1, <1>4 DEF Current
  <2>5. x.stripe <= Len(Current(r)'.tags)
    BY <2>2, <2>3, <2>4
  <2> HIDE DEF x
  <2> QED BY <2>3, <2>5, <1>6
<1> QED BY <1>8, <1>9, <1>10, <1>11

\* One work takes a consistent value, the others keep theirs.
LEMMA WorkMoves ==
    ASSUME WorkType, WorksConsistent, NEW w \in Works, NEW y \in Work, Consistent(y),
           work' = [work EXCEPT ![w] = y]
    PROVE  WorkType' /\ WorksConsistent'
<1>1. WorkType'
  BY DEF WorkType
<1>2. \A v \in Works : work'[v] = IF v = w THEN y ELSE work[v]
  BY DEF WorkType
<1>3. WorksConsistent'
  BY <1>2 DEF WorksConsistent
<1> QED BY <1>1, <1>3

(***************************************************************************)
(* The actions.                                                            *)
(***************************************************************************)
LEMMA InitIInv == Init => IInv
<1> SUFFICES ASSUME Init PROVE IInv
  OBVIOUS
<1>1. NoWork \in Work /\ Consistent(NoWork)
  <2>1. MaxTensors \in Nat /\ 0 \in 0..MaxTensors
    BY TransferAssumption
  <2>2. NoWork \in Work
    BY <2>1 DEF NoWork, Work, Futures, CopyStates
  <2>3. NoWork.future = "none" /\ ~NoWork.again /\ \A j \in Tensors : NoWork.copies[j] = "none"
    BY DEF NoWork
  <2> QED BY <2>2, <2>3 DEF Consistent
<1>2. WorkType /\ WorksConsistent
  BY <1>1 DEF Init, TransferInit, WorkType, WorksConsistent
<1>3. PostedType
  BY DEF Init, TransferInit, PostedType
<1>4. RankType
  <2>1. deploy \in Deployments /\ \A r \in Ranks : rank[r] = [pc |-> 1, stripe |-> 1, step |-> "start"]
    BY DEF Init
  <2>2. MaxCalls \in Nat /\ MaxTags \in Nat \ {0}
    BY GroupAssumption, TransferAssumption
  <2>3. rank \in [Ranks -> [pc: 1..(MaxCalls + 1), stripe: Stripes, step: Steps]]
    BY <2>2 DEF Init, Stripes, Steps
  <2>4. ASSUME NEW r \in Ranks, ~Returned(r), Current(r).op # "alltoall"
        PROVE  rank[r].stripe <= Len(Current(r).tags)
    <3>1. /\ deploy.program[r] \in Seq(Operation)
          /\ \A n \in DOMAIN deploy.program[r] :
               deploy.program[r][n].op # "alltoall" => Len(deploy.program[r][n].tags) \in Stripes
      BY <2>1, DeploymentsAssumption
    <3>2. 1 \in 1..Len(deploy.program[r])
      BY <2>1, <2>4, <3>1 DEF Returned
    <3>3. Len(Current(r).tags) \in Stripes
      BY <2>1, <2>4, <3>1, <3>2 DEF Current
    <3> QED BY <2>1, <2>2, <3>3 DEF Stripes
  <2> QED BY <2>1, <2>3, <2>4 DEF RankType
<1> QED BY <1>2, <1>3, <1>4 DEF IInv

\* The next stripe, the wait for the works, or the next operation.
LEMMA NextStripeKeepsType ==
    ASSUME RankType, NEW r \in Ranks, ~Finished(r), UNCHANGED deploy,
           Current(r).op # "alltoall", NextStripe(r)
    PROVE  RankType'
<1>1. "join" \in Steps
  BY DEF Steps
<1>2. CASE ~LastStripe(r)
  BY <1>1, <1>2, RankMoves DEF NextStripe
<1>3. CASE LastStripe(r) /\ Current(r).op = "send" /\ ~Current(r).async
  <2>1. rank' = [rank EXCEPT ![r].stripe = 1, ![r].step = "join"]
    BY <1>3 DEF NextStripe
  <2> QED BY <2>1, <1>1, RankMoves
<1>4. CASE LastStripe(r) /\ ~(Current(r).op = "send" /\ ~Current(r).async)
  <2>1. Advance(r)
    BY <1>4 DEF NextStripe
  <2> QED BY <2>1, <1>1, RankMoves
<1> QED BY <1>2, <1>3, <1>4

\* A receive posts descriptors of its own.
LEMMA ReceiveKeepsPosted ==
    ASSUME RankType, PostedType, NEW r \in Ranks, ReceiveStripe(r)
    PROVE  PostedType'
<1>1. ~Returned(r) /\ Current(r).op # "alltoall"
  BY DEF ReceiveStripe, At, Finished
<1>2. /\ Current(r) \in Operation /\ rank[r].pc \in Operations /\ rank[r].stripe \in Stripes
  BY <1>1, CurrentOperation DEF RankType
<1>3. Current(r).count \in 0..MaxTensors /\ MaxTensors \in Nat
  BY <1>2, TransferAssumption DEF Operation
<1> DEFINE J(k) == {j \in 1..Current(r).count : k = TransferKey(Current(r).peer, r, Tag(r), j)}
           M(k) == CHOOSE j \in J(k) : \A l \in J(k) : l <= j
<1>4. posted' = [k \in TransferKeys |-> IF J(k) = {} THEN posted[k]
                     ELSE <<r, rank[r].pc, rank[r].stripe, M(k)>>]
  BY DEF ReceiveStripe, PostDescriptors
<1>5. ASSUME NEW k, J(k) # {}
      PROVE  M(k) \in Tensors
  <2>1. PICK j \in J(k) : TRUE
    BY <1>5
  <2>2. \A l \in J(k) : l = j
    BY <2>1 DEF TransferKey
  <2>3. j \in Int
    BY <2>1, <1>3
  <2>4. \A l \in J(k) : l <= j
    BY <2>2, <2>3
  <2> HIDE DEF J
  <2>5. M(k) \in J(k)
    BY <2>1, <2>4
  <2> USE DEF J
  <2> QED BY <2>5, <1>3 DEF Tensors
<1> HIDE DEF J, M
<1>6. \A k \in TransferKeys : posted'[k] \in Descriptors \cup {Absent}
  <2> SUFFICES ASSUME NEW k \in TransferKeys PROVE posted'[k] \in Descriptors \cup {Absent}
    OBVIOUS
  <2>1. CASE J(k) = {}
    BY <2>1, <1>4 DEF PostedType
  <2>2. CASE J(k) # {}
    <3>1. posted'[k] = <<r, rank[r].pc, rank[r].stripe, M(k)>>
      BY <2>2, <1>4
    <3> QED BY <3>1, <2>2, <1>2, <1>5 DEF Descriptors
  <2> QED BY <2>1, <2>2
<1> QED BY <1>4, <1>6 DEF PostedType

\* A send gets a work of its own.
LEMMA ThisWorkIsWork ==
    ASSUME RankType, NEW r \in Ranks, ~Returned(r)
    PROVE  ThisWork(r) \in Works
<1>1. rank[r].pc \in Operations /\ rank[r].stripe \in Stripes
  BY CurrentOperation DEF RankType
<1> QED BY <1>1 DEF ThisWork, Works

LEMMA SendKeepsWorks ==
    ASSUME RankType, PostedType, WorkType, WorksConsistent, NEW r \in Ranks, SendStripe(r)
    PROVE  WorkType' /\ WorksConsistent'
<1>1. ~Returned(r) /\ Current(r).op # "alltoall"
  BY DEF SendStripe, At, Finished
<1>2. Current(r) \in Operation /\ Tag(r) \in 0..(MaxTags - 1) /\ ThisWork(r) \in Works
  BY <1>1, CurrentOperation, ThisWorkIsWork
<1>3. Current(r).count \in 0..MaxTensors /\ Current(r).peer \in Ranks
  BY <1>2 DEF Operation
<1> DEFINE key(j) == TransferKey(r, Current(r).peer, Tag(r), j)
           to == [j \in Tensors |-> IF j <= Current(r).count THEN posted[key(j)] ELSE Absent]
           y == [future |-> IF Current(r).count = 0 THEN "ok" ELSE "unset",
                 left |-> Current(r).count, again |-> FALSE,
                 copies |-> [j \in Tensors |-> IF j <= Current(r).count THEN "flying" ELSE "none"],
                 to |-> to]
<1>4. ThisWork(r)[1] = r
  BY DEF ThisWork
<1>5. work' = [work EXCEPT ![ThisWork(r)] = y]
  BY <1>4 DEF SendStripe, StartCopies
<1>6. to \in [Tensors -> Descriptors \cup {Absent}]
  <2>1. \A j \in Tensors : key(j) \in TransferKeys
    BY <1>2, <1>3 DEF TransferKey, TransferKeys
  <2>2. \A j \in Tensors : posted[key(j)] \in Descriptors \cup {Absent}
    BY <2>1 DEF PostedType
  <2> HIDE DEF key
  <2> QED BY <2>2
<1> HIDE DEF to
<1>7. y \in Work /\ Consistent(y)
  BY <1>3, <1>6, StartIsConsistent
<1> HIDE DEF y
<1> QED BY <1>2, <1>5, <1>7, WorkMoves

LEMMA LookupTimeoutKeepsWorks ==
    ASSUME RankType, WorkType, WorksConsistent, NEW r \in Ranks, LookupTimesOut(r)
    PROVE  WorkType' /\ WorksConsistent'
<1>1. ~Returned(r) /\ Current(r).op # "alltoall"
  BY DEF LookupTimesOut, At, Finished
<1>2. Current(r) \in Operation /\ ThisWork(r) \in Works
  BY <1>1, CurrentOperation, ThisWorkIsWork
<1>3. Current(r).count \in 0..MaxTensors
  BY <1>2 DEF Operation
<1> DEFINE y == [future |-> "error", left |-> Current(r).count, again |-> FALSE,
                 copies |-> [j \in Tensors |-> "none"], to |-> [j \in Tensors |-> Absent]]
<1>4. [NoWork EXCEPT !.future = "error", !.left = Current(r).count] = y
  <2>1. ASSUME NEW c, NEW x, x = [NoWork EXCEPT !.future = "error", !.left = c]
        PROVE  x = [future |-> "error", left |-> c, again |-> FALSE,
                    copies |-> [j \in Tensors |-> "none"], to |-> [j \in Tensors |-> Absent]]
    BY <2>1 DEF NoWork
  <2> QED BY <2>1
<1>5. work' = [work EXCEPT ![ThisWork(r)] = y]
  BY <1>4 DEF LookupTimesOut, FailLookup
<1>6. y \in Work /\ Consistent(y)
  BY <1>3, LookupFailureIsConsistent
<1> HIDE DEF y
<1> QED BY <1>2, <1>5, <1>6, WorkMoves

LEMMA CallbackKeepsWorks ==
    ASSUME WorkType, WorksConsistent, NEW w \in Works, NEW j \in Tensors, Callback(w, j)
    PROVE  WorkType' /\ WorksConsistent'
<1> DEFINE x == work[w]
<1>1. x \in Work /\ Consistent(x)
  BY DEF WorkType, WorksConsistent
<1>2. CASE \E ok \in BOOLEAN : CopyReturns(w, j, ok)
  <2>1. PICK ok \in BOOLEAN : CopyReturns(w, j, ok)
    BY <1>2
  <2> DEFINE y == [x EXCEPT !.copies[j] =
                      IF x.future = "unset" THEN IF ok THEN "passed" ELSE "failing"
                      ELSE IF ok THEN "sent" ELSE "failed"]
  <2>2. x.copies[j] = "flying" /\ work' = [work EXCEPT ![w] = y]
    BY <2>1 DEF CopyReturns, WorkType
  <2>3. y \in Work /\ Consistent(y)
    BY <2>2, <1>1, ReturnKeeps
  <2> HIDE DEF y
  <2> QED BY <2>2, <2>3, WorkMoves
<1>3. CASE CallbackSettles(w, j) /\ x.copies[j] = "failing"
  <2> DEFINE y == [x EXCEPT !.copies[j] = "failed",
                            !.future = IF x.future = "unset" THEN "error" ELSE x.future,
                            !.again = x.again \/ x.future # "unset"]
  <2>1. work' = [work EXCEPT ![w] = y]
    BY <1>1, <1>3 DEF CallbackSettles, WorkType, Work
  <2>2. y \in Work /\ Consistent(y)
    BY <1>1, <1>3, FailureKeeps
  <2> HIDE DEF y
  <2> QED BY <2>1, <2>2, WorkMoves
<1>4. CASE CallbackSettles(w, j) /\ x.copies[j] = "passed"
  <2> DEFINE y == [x EXCEPT !.copies[j] = "sent", !.left = x.left - 1,
                            !.future = IF x.left = 1 /\ x.future = "unset" THEN "ok" ELSE x.future,
                            !.again = x.again \/ (x.left = 1 /\ x.future # "unset")]
  <2>1. work' = [work EXCEPT ![w] = y]
    BY <1>1, <1>4 DEF CallbackSettles, WorkType, Work
  <2>2. y \in Work /\ Consistent(y)
    BY <1>1, <1>4, SuccessKeeps
  <2> HIDE DEF y
  <2> QED BY <2>1, <2>2, WorkMoves
<1> QED BY <1>2, <1>3, <1>4 DEF Callback, CallbackSettles

\* What the invariant says of the posted descriptors and the works.
StoreInv == PostedType /\ WorkType /\ WorksConsistent

LEMMA StoreUnchanged ==
    ASSUME StoreInv, UNCHANGED <<posted, work>>
    PROVE  StoreInv'
<1>1. PostedType' /\ WorkType'
  BY DEF StoreInv, PostedType, WorkType
<1>2. WorksConsistent'
  BY DEF StoreInv, WorksConsistent
<1> QED BY <1>1, <1>2 DEF StoreInv

LEMMA RankUnchanged ==
    ASSUME RankType, UNCHANGED <<deploy, rank>>
    PROVE  RankType'
BY DEF RankType, Returned, Current

\* The part of each action that is about where the rank is.
LEMMA RankStepKeepsType ==
    ASSUME RankType, NEW r \in Ranks, RankStep(r) \/ OperationFails(r)
    PROVE  RankType'
<1>0. {"start", "fetch", "join", "raised"} \subseteq Steps
  BY DEF Steps
<1>1. ASSUME ~Finished(r), UNCHANGED deploy, Raise(r) PROVE RankType'
  BY <1>0, <1>1, RankMoves DEF Raise
<1>2. ASSUME ~Finished(r), UNCHANGED deploy, Advance(r) PROVE RankType'
  BY <1>0, <1>2, RankMoves
<1>3. CASE CallAllToAll(r)
  <2>1. /\ ~Finished(r) /\ UNCHANGED deploy
        /\ Advance(r) \/ Raise(r) \/ rank' = [rank EXCEPT ![r].step = "fetch"]
    BY <1>3 DEF CallAllToAll, At
  <2> QED BY <2>1, <1>0, <1>1, <1>2, RankMoves
<1>4. CASE FetchOffsets(r)
  <2>1. ~Finished(r) /\ UNCHANGED deploy /\ (Advance(r) \/ Raise(r))
    BY <1>4 DEF FetchOffsets, At
  <2> QED BY <2>1, <1>1, <1>2
<1>5. CASE ReceiveStripe(r)
  <2>1. ~Finished(r) /\ UNCHANGED deploy /\ Current(r).op # "alltoall" /\ NextStripe(r)
    BY <1>5 DEF ReceiveStripe, At
  <2> QED BY <2>1, NextStripeKeepsType
<1>6. CASE SendStripe(r)
  <2>1. ~Finished(r) /\ UNCHANGED deploy /\ Current(r).op # "alltoall" /\ NextStripe(r)
    BY <1>6 DEF SendStripe, At
  <2> QED BY <2>1, NextStripeKeepsType
<1>7. CASE JoinStripe(r)
  <2>1. /\ ~Finished(r) /\ UNCHANGED deploy /\ Current(r).op # "alltoall"
        /\ \/ Raise(r) \/ Advance(r)
           \/ ~LastStripe(r) /\ rank' = [rank EXCEPT ![r].stripe = @ + 1]
    BY <1>7 DEF JoinStripe, At
  <2>2. CASE ~LastStripe(r) /\ rank' = [rank EXCEPT ![r].stripe = @ + 1]
    BY <2>1, <2>2, <1>0, RankMoves
  <2> QED BY <2>1, <2>2, <1>1, <1>2
<1>8. CASE FetchTimesOut(r)
  <2>1. ~Finished(r) /\ UNCHANGED deploy /\ Raise(r)
    BY <1>8 DEF FetchTimesOut, At
  <2> QED BY <2>1, <1>1
<1>9. CASE LookupTimesOut(r)
  <2>1. ~Finished(r) /\ UNCHANGED deploy /\ Current(r).op # "alltoall" /\ NextStripe(r)
    BY <1>9 DEF LookupTimesOut, At
  <2> QED BY <2>1, NextStripeKeepsType
<1>10. CASE OperationFails(r)
  <2>1. ~Finished(r) /\ UNCHANGED deploy /\ Raise(r)
    BY <1>10 DEF OperationFails, ReceiveFails,
         SendFails, PublishFails, Fails, At
  <2> QED BY <2>1, <1>1
<1> QED BY <1>3, <1>4, <1>5, <1>6, <1>7, <1>8, <1>9, <1>10 DEF RankStep

\* The part of each action that is about the store and the works.
LEMMA RankStepKeepsStore ==
    ASSUME RankType, StoreInv, NEW r \in Ranks, RankStep(r) \/ OperationFails(r)
    PROVE  StoreInv'
<1>1. CASE CallAllToAll(r) \/ FetchOffsets(r) \/ JoinStripe(r) \/ FetchTimesOut(r)
           \/ OperationFails(r)
  <2>1. UNCHANGED <<posted, work>>
    BY <1>1 DEF CallAllToAll, FetchOffsets, JoinStripe, FetchTimesOut, OperationFails, ReceiveFails,
         SendFails, PublishFails, Fails, transferVars
  <2> QED BY <2>1, StoreUnchanged
<1>2. CASE ReceiveStripe(r)
  <2>1. PostedType'
    BY <1>2, ReceiveKeepsPosted DEF StoreInv
  <2>2. UNCHANGED work
    BY <1>2 DEF ReceiveStripe
  <2>3. WorkType' /\ WorksConsistent'
    BY <2>2 DEF StoreInv, WorkType, WorksConsistent
  <2> QED BY <2>1, <2>3 DEF StoreInv
<1>3. CASE SendStripe(r)
  <2>1. WorkType' /\ WorksConsistent'
    BY <1>3, SendKeepsWorks DEF StoreInv
  <2>2. PostedType'
    BY <1>3 DEF SendStripe, StoreInv, PostedType
  <2> QED BY <2>1, <2>2 DEF StoreInv
<1>4. CASE LookupTimesOut(r)
  <2>1. WorkType' /\ WorksConsistent'
    BY <1>4, LookupTimeoutKeepsWorks DEF StoreInv
  <2>2. PostedType'
    BY <1>4 DEF LookupTimesOut, StoreInv, PostedType
  <2> QED BY <2>1, <2>2 DEF StoreInv
<1> QED BY <1>1, <1>2, <1>3, <1>4 DEF RankStep

LEMMA StepIInv == IInv /\ [Next]_vars => IInv'
<1> SUFFICES ASSUME IInv, [Next]_vars PROVE IInv'
  OBVIOUS
<1>0. RankType /\ StoreInv
  BY DEF IInv, StoreInv
<1>1. ASSUME NEW r \in Ranks, RankStep(r) \/ OperationFails(r)
      PROVE  RankType' /\ StoreInv'
  BY <1>0, <1>1, RankStepKeepsType, RankStepKeepsStore
<1>2. ASSUME NEW w \in Works, NEW j \in Tensors, Callback(w, j)
      PROVE  RankType' /\ StoreInv'
  <2>1. WorkType' /\ WorksConsistent'
    BY <1>0, <1>2, CallbackKeepsWorks DEF StoreInv
  <2>2. UNCHANGED <<posted, deploy, rank>>
    BY <1>2 DEF Callback, CopyReturns, CallbackSettles
  <2>3. PostedType'
    BY <2>2, <1>0 DEF StoreInv, PostedType
  <2>4. RankType'
    BY <2>2, <1>0, RankUnchanged
  <2> QED BY <2>1, <2>3, <2>4 DEF StoreInv
<1>3. CASE UNCHANGED vars
  <2>1. UNCHANGED <<posted, work, deploy, rank>>
    BY <1>3 DEF vars, transferVars
  <2> QED BY <2>1, <1>0, StoreUnchanged, RankUnchanged DEF StoreInv, IInv
<1>4. CASE Ended
  BY <1>3, <1>4 DEF Ended
<1> QED BY <1>1, <1>2, <1>3, <1>4 DEF Next, StoreInv, IInv

(***************************************************************************)
(* The theorems.                                                           *)
(***************************************************************************)

\* Unless two copies of a send fail, no callback of CrossHostSendBuffers sets
\* a future that is complete: the check of completed() need not be atomic with
\* what follows it.
THEOREM SendsSettleOnce == Spec => []SettledOnce
<1>1. IInv => SettledOnce
  <2> SUFFICES ASSUME IInv, NEW w \in Works, work[w].again
      PROVE  ~(Cardinality({j \in Tensors : work[w].copies[j] \in {"failing", "failed"}}) <= 1)
    BY DEF SettledOnce
  <2> DEFINE F == {j \in Tensors : work[w].copies[j] \in {"failing", "failed"}}
  <2>1. PICK j, k \in Tensors :
           j # k /\ {work[w].copies[j], work[w].copies[k]} \subseteq {"failing", "failed"}
    BY DEF IInv, WorksConsistent, Consistent
  <2>2. j \in F /\ k \in F \ {j}
    BY <2>1
  <2>3. IsFiniteSet(F)
    <3>1. IsFiniteSet(Tensors)
      BY TransferAssumption, FS_Interval DEF Tensors
    <3>2. F \in SUBSET Tensors
      OBVIOUS
    <3> QED BY <3>1, <3>2, FS_Subset
  <2> HIDE DEF F
  <2>4. /\ Cardinality(F) \in Nat /\ Cardinality(F \ {j}) = Cardinality(F) - 1
        /\ Cardinality(F \ {j}) \in Nat /\ Cardinality(F \ {j}) # 0
    BY <2>2, <2>3, FS_RemoveElement, FS_CardinalityType, FS_EmptySet
  <2>5. ~(Cardinality(F) <= 1)
    BY <2>4
  <2> QED BY <2>5 DEF F
<1> QED BY <1>1, InitIInv, StepIInv, PTL DEF Spec

\* However its callbacks interleave, a send reports success if all of its
\* tensors were copied, an error if one was not, and neither too early.
THEOREM SendsReportTruth == Spec => []SendReportsTruth
<1>1. IInv => SendReportsTruth
  <2> SUFFICES ASSUME IInv, NEW w \in Works
      PROVE  LET copies == work[w].copies
                 ends == {"none", "sent", "failed"}
                 failed == \E j \in Tensors : copies[j] = "failed"
             IN  /\ work[w].future = "ok" =>
                       \A j \in Tensors : copies[j] \in {"none", "sent"}
                 /\ (\A j \in Tensors : copies[j] \in ends)
                    /\ (\E j \in Tensors : copies[j] # "none")
                    => work[w].future = IF failed THEN "error" ELSE "ok"
    BY DEF SendReportsTruth
  <2>1. work[w] \in Work /\ Consistent(work[w])
    BY DEF IInv, WorkType, WorksConsistent
  <2>2. work[w].future \in Futures
    BY <2>1 DEF Work
  <2>3. work[w].future = "ok" => \A j \in Tensors : work[w].copies[j] \in {"none", "sent"}
    BY <2>1 DEF Consistent
  <2>4. ASSUME \A j \in Tensors : work[w].copies[j] \in {"none", "sent", "failed"},
               NEW i \in Tensors, work[w].copies[i] # "none"
        PROVE  work[w].future = IF \E j \in Tensors : work[w].copies[j] = "failed"
                                THEN "error" ELSE "ok"
    <3>1. work[w].future # "none"
      BY <2>1, <2>4 DEF Consistent
    <3>2. work[w].future # "unset"
      <4> SUFFICES ASSUME work[w].future = "unset" PROVE FALSE
        OBVIOUS
      <4>1. Open(work[w]) # {} /\ \A j \in Tensors : work[w].copies[j] # "failed"
        BY <2>1 DEF Consistent
      <4> QED BY <4>1, <2>4 DEF Open
    <3>3. work[w].future = "ok" => ~\E j \in Tensors : work[w].copies[j] = "failed"
      BY <2>3
    <3>4. work[w].future = "error" => \E j \in Tensors : work[w].copies[j] = "failed"
      BY <2>1, <2>4 DEF Consistent
    <3> QED BY <3>1, <3>2, <3>3, <3>4, <2>2 DEF Futures
  <2> QED BY <2>3, <2>4
<1> QED BY <1>1, InitIInv, StepIInv, PTL DEF Spec

\* The deployment stays the same.
LEMMA DeployKept ==
    ASSUME [Next]_vars
    PROVE  UNCHANGED deploy
BY DEF Next, RankStep, CallAllToAll, FetchOffsets, ReceiveStripe, SendStripe, JoinStripe,
       FetchTimesOut, LookupTimesOut, OperationFails, ReceiveFails,
         SendFails, PublishFails, Fails, Callback, Ended, vars

\* The copies that reached each buffer.
CopiedType == copied \in [Descriptors -> SUBSET (Works \X Tensors)]

LEMMA StepCopied ==
    ASSUME CopiedType, [Next]_vars
    PROVE  CopiedType'
<1>1. ASSUME NEW w \in Works, NEW j \in Tensors, Callback(w, j) PROVE CopiedType'
  <2>1. \/ UNCHANGED copied
        \/ copied' = [copied EXCEPT ![work[w].to[j]] = @ \cup {<<w, j>>}]
    BY <1>1 DEF Callback, CopyReturns, CallbackSettles
  <2>2. {<<w, j>>} \in SUBSET (Works \X Tensors)
    OBVIOUS
  <2> QED BY <2>1, <2>2 DEF CopiedType
<1>2. ASSUME UNCHANGED copied PROVE CopiedType'
  BY <1>2 DEF CopiedType
<1>3. UNCHANGED copied \/ \E w \in Works, j \in Tensors : Callback(w, j)
  BY DEF Next, RankStep, CallAllToAll, FetchOffsets, ReceiveStripe, SendStripe, JoinStripe,
         FetchTimesOut, LookupTimesOut, OperationFails, ReceiveFails,
         SendFails, PublishFails, Fails, Ended, vars, transferVars
<1> QED BY <1>1, <1>2, <1>3

(***************************************************************************)
(* What is copied where.                                                   *)
(***************************************************************************)

\* The operation of a send <<r, n, i>> or of a descriptor <<r, n, i, j>>.
OperationOf(x) == deploy.program[x[1]][x[2]]

IsStripe(x, op) ==
    /\ x[2] \in DOMAIN deploy.program[x[1]] /\ OperationOf(x).op = op
    /\ x[3] \in DOMAIN OperationOf(x).tags

\* The key under which a send looks for its j-th buffer, and that under which
\* a descriptor is posted.
SendKey(w, j) == TransferKey(w[1], OperationOf(w).peer, OperationOf(w).tags[w[3]], j)
ReceiveKey(d) == TransferKey(OperationOf(d).peer, d[1], OperationOf(d).tags[d[3]], d[4])

Fits(w, j, d) ==
    IsStripe(w, "send") /\ IsStripe(d, "recv") /\ ReceiveKey(d) = SendKey(w, j)

PostedFits ==
    \A k \in TransferKeys :
        posted[k] # Absent => IsStripe(posted[k], "recv") /\ ReceiveKey(posted[k]) = k
CopiesFit ==
    \A w \in Works, j \in Tensors :
        work[w].copies[j] # "none" => Fits(w, j, work[w].to[j])
CopiedFit == \A d \in Descriptors : \A m \in copied[d] : Fits(m[1], m[2], d)

FitInv == PostedFits /\ CopiesFit /\ CopiedFit

LEMMA FitsKept ==
    ASSUME UNCHANGED deploy
    PROVE  /\ \A w, j, d : Fits(w, j, d)' <=> Fits(w, j, d)
           /\ \A x, op : IsStripe(x, op)' <=> IsStripe(x, op)
           /\ \A d : ReceiveKey(d)' = ReceiveKey(d)
BY DEF Fits, IsStripe, OperationOf, SendKey, ReceiveKey

\* The stripe a rank is at.
LEMMA CurrentStripe ==
    ASSUME RankType, NEW r \in Ranks, ~Returned(r), Current(r).op # "alltoall"
    PROVE  /\ rank[r].pc \in DOMAIN deploy.program[r] /\ Current(r).peer \in Ranks
           /\ rank[r].stripe \in DOMAIN Current(r).tags /\ Tag(r) \in 0..(MaxTags - 1)
<1>1. deploy.program[r] \in Seq(Operation)
  BY DeploymentsAssumption DEF RankType
<1>2. rank[r].pc \in 1..(MaxCalls + 1) /\ MaxCalls \in Nat /\ Len(deploy.program[r]) \in Nat
  BY <1>1, GroupAssumption DEF RankType
<1>3. rank[r].pc \in DOMAIN deploy.program[r]
  BY <1>1, <1>2 DEF Returned
<1>4. /\ Current(r) \in Operation /\ rank[r].stripe \in 1..Len(Current(r).tags)
      /\ Tag(r) \in 0..(MaxTags - 1)
  BY CurrentOperation
<1>5. Current(r).tags \in Seq(0..(MaxTags - 1)) /\ Current(r).peer \in Ranks
  BY <1>4 DEF Operation
<1>6. DOMAIN Current(r).tags = 1..Len(Current(r).tags)
  <2> DEFINE T == 0..(MaxTags - 1)
  <2> HIDE DEF T
  <2> QED BY <1>5 DEF T
<1> QED BY <1>3, <1>4, <1>5, <1>6

LEMMA ReceiveFits ==
    ASSUME RankType, PostedFits, NEW r \in Ranks, ReceiveStripe(r)
    PROVE  PostedFits'
<1>1. ~Returned(r) /\ Current(r).op = "recv" /\ UNCHANGED deploy
  BY DEF ReceiveStripe, At, Finished
<1> DEFINE J(k) == {j \in 1..Current(r).count : k = TransferKey(Current(r).peer, r, Tag(r), j)}
           M(k) == CHOOSE j \in J(k) : \A l \in J(k) : l <= j
<1>2. posted' = [k \in TransferKeys |-> IF J(k) = {} THEN posted[k]
                     ELSE <<r, rank[r].pc, rank[r].stripe, M(k)>>]
  BY DEF ReceiveStripe, PostDescriptors
<1>3. ASSUME NEW k, J(k) # {}
      PROVE  k = TransferKey(Current(r).peer, r, Tag(r), M(k))
  <2>1. PICK j \in J(k) : TRUE
    BY <1>3
  <2>2. \A l \in J(k) : l = j
    BY <2>1 DEF TransferKey
  <2>3. j \in Int
    OBVIOUS
  <2>4. \A l \in J(k) : l <= j
    BY <2>2, <2>3
  <2> HIDE DEF J
  <2>5. M(k) \in J(k)
    BY <2>1, <2>4
  <2> USE DEF J
  <2> QED BY <2>5
<1> HIDE DEF J, M
<1> SUFFICES ASSUME NEW k \in TransferKeys, posted'[k] # Absent
    PROVE  IsStripe(posted[k], "recv")' /\ ReceiveKey(posted[k])' = k
  BY DEF PostedFits
<1>4. CASE J(k) = {}
  <2>1. posted'[k] = posted[k]
    BY <1>2, <1>4
  <2> QED BY <2>1, <1>1, FitsKept DEF PostedFits
<1>5. CASE J(k) # {}
  <2> DEFINE d == <<r, rank[r].pc, rank[r].stripe, M(k)>>
  <2>1. posted'[k] = d
    BY <1>2, <1>5
  <2>2. d[1] = r /\ d[2] = rank[r].pc /\ d[3] = rank[r].stripe /\ d[4] = M(k)
    OBVIOUS
  <2>3. OperationOf(d) = Current(r)
    BY <2>2 DEF OperationOf, Current
  <2>4. IsStripe(d, "recv") /\ ReceiveKey(d) = k
    BY <2>2, <2>3, <1>1, <1>3, <1>5, CurrentStripe DEF IsStripe, ReceiveKey, Tag
  <2> HIDE DEF d
  <2> QED BY <2>1, <2>4, <1>1, FitsKept
<1> QED BY <1>4, <1>5

LEMMA SendFits ==
    ASSUME RankType, WorkType, PostedFits, CopiesFit, NEW r \in Ranks, SendStripe(r)
    PROVE  CopiesFit'
<1>1. ~Returned(r) /\ Current(r).op = "send" /\ UNCHANGED deploy
  BY DEF SendStripe, At, Finished
<1> DEFINE v == ThisWork(r)
           key(j) == TransferKey(r, Current(r).peer, Tag(r), j)
           y == [future |-> IF Current(r).count = 0 THEN "ok" ELSE "unset",
                 left |-> Current(r).count, again |-> FALSE,
                 copies |-> [j \in Tensors |-> IF j <= Current(r).count THEN "flying" ELSE "none"],
                 to |-> [j \in Tensors |->
                            IF j <= Current(r).count THEN posted[key(j)] ELSE Absent]]
<1>2. v \in Works /\ v[1] = r /\ v[2] = rank[r].pc /\ v[3] = rank[r].stripe
  BY <1>1, ThisWorkIsWork DEF ThisWork
<1>3. work' = [work EXCEPT ![v] = y]
  BY <1>2 DEF SendStripe, StartCopies
<1>4. OperationOf(v) = Current(r)
  BY <1>2 DEF OperationOf, Current
<1>5. IsStripe(v, "send") /\ \A j : SendKey(v, j) = key(j)
  BY <1>1, <1>2, <1>4, CurrentStripe DEF IsStripe, SendKey, Tag
<1>6. ASSUME NEW j \in Tensors, y.copies[j] # "none" PROVE Fits(v, j, y.to[j])
  <2>1. j <= Current(r).count /\ y.to[j] = posted[key(j)]
    BY <1>6
  <2>2. j \in 1..Current(r).count
    <3>1. Current(r) \in Operation
      BY <1>1, CurrentOperation
    <3>2. Current(r).count \in Nat /\ j \in Nat /\ j >= 1
      BY <3>1, TransferAssumption DEF Operation, Tensors
    <3> QED BY <3>2, <2>1
  <2>3. posted[key(j)] # Absent
    BY <2>2 DEF SendStripe, DescriptorsPosted
  <2>4. key(j) \in TransferKeys
    BY <1>1, CurrentStripe DEF TransferKey, TransferKeys
  <2> HIDE DEF y, key, v
  <2> QED BY <2>1, <2>3, <2>4, <1>5 DEF PostedFits, Fits
<1>7. \A w \in Works : work'[w] = IF w = v THEN y ELSE work[w]
  BY <1>2, <1>3 DEF WorkType
<1> HIDE DEF v, y
<1> SUFFICES ASSUME NEW w \in Works, NEW j \in Tensors, work'[w].copies[j] # "none"
    PROVE  Fits(w, j, work[w].to[j])'
  BY DEF CopiesFit
<1>8. Fits(w, j, work'[w].to[j])
  BY <1>6, <1>7 DEF CopiesFit
<1> QED BY <1>8, <1>1, FitsKept

LEMMA LookupTimeoutFits ==
    ASSUME RankType, WorkType, CopiesFit, NEW r \in Ranks, LookupTimesOut(r)
    PROVE  CopiesFit'
<1>1. ~Returned(r) /\ UNCHANGED deploy
  BY DEF LookupTimesOut, At, Finished
<1> DEFINE y == [NoWork EXCEPT !.future = "error", !.left = Current(r).count]
<1>2. work' = [work EXCEPT ![ThisWork(r)] = y]
  BY DEF LookupTimesOut, FailLookup
<1>3. \A j \in Tensors : y.copies[j] = "none"
  BY DEF NoWork
<1>4. \A w \in Works : work'[w] = IF w = ThisWork(r) THEN y ELSE work[w]
  BY <1>1, <1>2, ThisWorkIsWork DEF WorkType
<1> HIDE DEF y
<1> SUFFICES ASSUME NEW w \in Works, NEW j \in Tensors, work'[w].copies[j] # "none"
    PROVE  Fits(w, j, work[w].to[j])'
  BY DEF CopiesFit
<1>5. Fits(w, j, work'[w].to[j])
  BY <1>3, <1>4 DEF CopiesFit
<1> QED BY <1>5, <1>1, FitsKept

\* A callback leaves the buffers of the send alone, and adds the copy to the
\* one it was for.
LEMMA CallbackFits ==
    ASSUME WorkType, CopiedType, CopiesFit, CopiedFit, NEW v \in Works, NEW i \in Tensors,
           Callback(v, i)
    PROVE  CopiesFit' /\ CopiedFit'
<1>1. UNCHANGED deploy
  BY DEF Callback
<1>2. work \in [Works -> Work] /\ work[v] \in Work
  BY DEF WorkType
<1>3. work[v].copies \in [Tensors -> CopyStates] /\ work[v].copies[i] # "none"
  BY <1>2 DEF Callback, CopyReturns, CallbackSettles, Work
<1>4. /\ \A w \in Works \ {v} : work'[w] = work[w]
      /\ work'[v].to = work[v].to
      /\ \A j \in Tensors \ {i} : work'[v].copies[j] = work[v].copies[j]
  <2>1. CASE \E ok \in BOOLEAN : CopyReturns(v, i, ok)
    BY <2>1, <1>2, <1>3 DEF CopyReturns, Work
  <2>2. CASE CallbackSettles(v, i)
    BY <2>2, <1>2, <1>3 DEF CallbackSettles, Work
  <2> QED BY <2>1, <2>2 DEF Callback
<1>5. ASSUME NEW w \in Works, NEW j \in Tensors, work'[w].copies[j] # "none"
      PROVE  work'[w].to[j] = work[w].to[j] /\ Fits(w, j, work[w].to[j])
  BY <1>3, <1>4, <1>5 DEF CopiesFit
<1>6. CopiesFit'
  <2> SUFFICES ASSUME NEW w \in Works, NEW j \in Tensors, work'[w].copies[j] # "none"
      PROVE  Fits(w, j, work[w].to[j])'
    BY DEF CopiesFit
  <2>1. Fits(w, j, work'[w].to[j])
    BY <1>5
  <2> QED BY <2>1, <1>1, FitsKept
<1>7. ASSUME NEW d \in Descriptors, NEW m \in copied'[d] PROVE Fits(m[1], m[2], d)
  <2>1. m \in copied[d] \/ (m = <<v, i>> /\ d = work[v].to[i])
    <3>1. \/ UNCHANGED copied
          \/ copied' = [copied EXCEPT ![work[v].to[i]] = @ \cup {<<v, i>>}]
      BY DEF Callback, CopyReturns, CallbackSettles
    <3> QED BY <3>1, <1>7 DEF CopiedType
  <2>2. Fits(v, i, work[v].to[i])
    BY <1>3 DEF CopiesFit
  <2> QED BY <2>1, <2>2 DEF CopiedFit
<1>8. CopiedFit'
  BY <1>1, <1>7, FitsKept DEF CopiedFit
<1> QED BY <1>6, <1>8

LEMMA FitUnchanged ==
    ASSUME UNCHANGED deploy
    PROVE  /\ PostedFits /\ UNCHANGED posted => PostedFits'
           /\ CopiesFit /\ UNCHANGED work => CopiesFit'
           /\ CopiedFit /\ UNCHANGED copied => CopiedFit'
BY FitsKept DEF PostedFits, CopiesFit, CopiedFit

LEMMA StepFitInv == IInv /\ CopiedType /\ FitInv /\ [Next]_vars => FitInv'
<1> SUFFICES ASSUME IInv, CopiedType, FitInv, [Next]_vars PROVE FitInv'
  OBVIOUS
<1>0. RankType /\ WorkType /\ PostedFits /\ CopiesFit /\ CopiedFit /\ UNCHANGED deploy
  BY DeployKept DEF IInv, FitInv
<1>1. ASSUME UNCHANGED <<posted, work, copied>> PROVE FitInv'
  BY <1>0, <1>1, FitUnchanged DEF FitInv
<1>2. ASSUME NEW r \in Ranks, ReceiveStripe(r) PROVE FitInv'
  BY <1>0, <1>2, ReceiveFits, FitUnchanged DEF FitInv, ReceiveStripe
<1>3. ASSUME NEW r \in Ranks, SendStripe(r) PROVE FitInv'
  BY <1>0, <1>3, SendFits, FitUnchanged DEF FitInv, SendStripe
<1>4. ASSUME NEW r \in Ranks, LookupTimesOut(r) PROVE FitInv'
  BY <1>0, <1>4, LookupTimeoutFits, FitUnchanged DEF FitInv, LookupTimesOut
<1>5. ASSUME NEW w \in Works, NEW j \in Tensors, Callback(w, j) PROVE FitInv'
  <2>1. UNCHANGED posted
    BY <1>5 DEF Callback, CopyReturns, CallbackSettles
  <2> QED BY <2>1, <1>0, <1>5, CallbackFits, FitUnchanged DEF FitInv
<1>6. \/ UNCHANGED <<posted, work, copied>>
      \/ \E r \in Ranks : ReceiveStripe(r) \/ SendStripe(r) \/ LookupTimesOut(r)
      \/ \E w \in Works, j \in Tensors : Callback(w, j)
  BY DEF Next, RankStep, CallAllToAll, FetchOffsets, JoinStripe, FetchTimesOut, OperationFails, ReceiveFails,
         SendFails, PublishFails, Fails,
         Ended, vars, transferVars
<1> QED BY <1>1, <1>2, <1>3, <1>4, <1>5, <1>6

\* No two stripes that a rank sends to, or receives from, a peer have the same
\* tag.
TagsDistinct ==
    \A r \in Ranks : \A n, m \in DOMAIN deploy.program[r] :
        LET a == deploy.program[r][n]
            b == deploy.program[r][m]
        IN  a.op = b.op /\ a.op # "alltoall" /\ a.peer = b.peer =>
               \A i \in DOMAIN a.tags, j \in DOMAIN b.tags :
                   a.tags[i] = b.tags[j] => n = m /\ i = j

LEMMA NoneEarlier ==
    ASSUME RankType, TagsDistinct, NEW x, x[1] \in Ranks, NEW op \in {"send", "recv"},
           IsStripe(x, op)
    PROVE  Earlier(x[1], x[2], x[3]) = {}
<1> DEFINE program == deploy.program[x[1]]
<1>1. program \in Seq(Operation) /\ x[2] \in DOMAIN program /\ program[x[2]].op = op
      /\ x[3] \in DOMAIN program[x[2]].tags
  BY DeploymentsAssumption DEF RankType, IsStripe, OperationOf
<1>2. x[2] \in 1..Len(program) /\ Len(program) \in Nat
  BY <1>1
<1>3. program[x[2]] \in Operation
  BY <1>1
<1>4. DOMAIN program[x[2]].tags = 1..Len(program[x[2]].tags) /\ Len(program[x[2]].tags) \in Nat
  <2> DEFINE T == 0..(MaxTags - 1)
             ts == program[x[2]].tags
  <2>1. ts \in Seq(T)
    BY <1>3 DEF Operation
  <2> HIDE DEF T, ts
  <2>2. DOMAIN ts = 1..Len(ts) /\ Len(ts) \in Nat
    BY <2>1
  <2> QED BY <2>2 DEF ts
<1> SUFFICES ASSUME NEW m \in Earlier(x[1], x[2], x[3]) PROVE FALSE
  OBVIOUS
<1>5. /\ m[1] \in Operations /\ m[2] \in Stripes
      /\ m[1] < x[2] \/ (m[1] = x[2] /\ m[2] < x[3])
      /\ program[m[1]].op = op /\ program[m[1]].peer = program[x[2]].peer
      /\ m[2] \in DOMAIN program[m[1]].tags
      /\ program[m[1]].tags[m[2]] = program[x[2]].tags[x[3]]
  BY <1>1 DEF Earlier
<1>6. m[1] \in DOMAIN program
  BY <1>1, <1>2, <1>5, GroupAssumption DEF Operations
<1>7. m[1] = x[2] /\ m[2] = x[3]
  <2> DEFINE a == program[m[1]]
             b == program[x[2]]
  <2>1. a.op = b.op /\ a.op # "alltoall" /\ a.peer = b.peer =>
           \A i \in DOMAIN a.tags, j \in DOMAIN b.tags :
               a.tags[i] = b.tags[j] => m[1] = x[2] /\ i = j
    BY <1>1, <1>6, Zenon DEF TagsDistinct
  <2>2. a.op = b.op /\ a.op # "alltoall" /\ a.peer = b.peer /\ m[2] \in DOMAIN a.tags
        /\ x[3] \in DOMAIN b.tags /\ a.tags[m[2]] = b.tags[x[3]]
    BY <1>1, <1>5
  <2> HIDE DEF a, b, program
  <2> QED BY <2>1, <2>2, Zenon
<1>8. x[2] \in Int /\ x[3] \in Int
  BY <1>1, <1>2, <1>4
<1> QED BY <1>5, <1>7, <1>8

\* If no tag is used twice between two ranks, every receive buffer gets the one
\* tensor that was sent for it, whatever is sent, received, copied and timed
\* out meanwhile.
THEOREM DeliveriesMatch == Spec => [](TagsDistinct => DeliveredToMatch)
<1>1. Init => CopiedType /\ FitInv
  <2> SUFFICES ASSUME Init PROVE CopiedType /\ FitInv
    OBVIOUS
  <2>1. CopiedType /\ PostedFits /\ CopiedFit
    BY DEF Init, TransferInit, CopiedType, PostedFits, CopiedFit
  <2>2. CopiesFit
    <3>1. \A j \in Tensors : NoWork.copies[j] = "none"
      BY DEF NoWork
    <3> QED BY <3>1 DEF Init, TransferInit, CopiesFit
  <2> QED BY <2>1, <2>2 DEF FitInv
<1>2. IInv /\ CopiedType /\ FitInv => (TagsDistinct => DeliveredToMatch)
  <2> SUFFICES ASSUME IInv, CopiedType, FitInv, TagsDistinct, NEW d \in Descriptors,
                      NEW m \in copied[d]
      PROVE  /\ copied[d] = {m} /\ m[2] = d[4]
             /\ Cardinality(Earlier(m[1][1], m[1][2], m[1][3])) =
                   Cardinality(Earlier(d[1], d[2], d[3]))
    BY DEF DeliveredToMatch
  <2>1. RankType /\ d[1] \in Ranks
    BY DEF IInv, Descriptors
  <2>2. ASSUME NEW x \in copied[d]
        PROVE  /\ x[1] \in Works /\ x = <<x[1], x[2]>> /\ x[1][1] \in Ranks
               /\ x[1] = <<x[1][1], x[1][2], x[1][3]>>
               /\ Fits(x[1], x[2], d)
    <3>1. x \in Works \X Tensors
      BY <2>2 DEF CopiedType
    <3>2. x[1] \in Works /\ x = <<x[1], x[2]>>
      BY <3>1
    <3>3. x[1][1] \in Ranks /\ x[1] = <<x[1][1], x[1][2], x[1][3]>>
      BY <3>2 DEF Works
    <3> QED BY <3>2, <3>3, <2>2 DEF FitInv, CopiedFit
  <2>3. m[2] = d[4]
    BY <2>2 DEF Fits, SendKey, ReceiveKey, TransferKey
  <2>4. ASSUME NEW x \in copied[d] PROVE x = m
    <3>1. /\ x[2] = m[2] /\ x[1][1] = m[1][1]
          /\ OperationOf(x[1]).peer = OperationOf(m[1]).peer
          /\ OperationOf(x[1]).tags[x[1][3]] = OperationOf(m[1]).tags[m[1][3]]
      BY <2>2, <2>4 DEF Fits, SendKey, ReceiveKey, TransferKey
    <3>2. IsStripe(x[1], "send") /\ IsStripe(m[1], "send")
      BY <2>2, <2>4 DEF Fits
    <3>3. x[1][2] = m[1][2] /\ x[1][3] = m[1][3]
      <4> DEFINE r == m[1][1]
                 n == x[1][2]
                 o == m[1][2]
                 i == x[1][3]
                 l == m[1][3]
                 program == deploy.program[r]
      <4>1. /\ r \in Ranks /\ n \in DOMAIN program /\ o \in DOMAIN program
            /\ program[n].op = "send" /\ program[o].op = "send"
            /\ program[n].peer = program[o].peer
            /\ i \in DOMAIN program[n].tags /\ l \in DOMAIN program[o].tags
            /\ program[n].tags[i] = program[o].tags[l]
        BY <3>1, <3>2, <2>2 DEF IsStripe, OperationOf
      <4> HIDE DEF r, n, o, i, l
      <4>2. n = o /\ i = l
        BY <4>1 DEF TagsDistinct
      <4> QED BY <4>2 DEF n, o, i, l
    <3>4. x[1] = m[1]
      BY <3>1, <3>3, <2>2, <2>4
    <3> QED BY <3>1, <3>4, <2>2, <2>4
  <2>5. Earlier(m[1][1], m[1][2], m[1][3]) = {}
    BY <2>1, <2>2, NoneEarlier DEF Fits
  <2>6. Earlier(d[1], d[2], d[3]) = {}
    BY <2>1, <2>2, NoneEarlier DEF Fits
  <2> QED BY <2>3, <2>4, <2>5, <2>6
<1>3. CopiedType /\ [Next]_vars => CopiedType'
  BY StepCopied
<1> QED BY <1>1, <1>2, <1>3, InitIInv, StepIInv, StepFitInv, PTL DEF Spec
=============================================================================
