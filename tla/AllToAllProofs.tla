--------------------------- MODULE AllToAllProofs ---------------------------
(***************************************************************************)
(* Proofs about all_to_all in ProcessGroup, for any number of ranks, any   *)
(* sizes and any programs.                                                 *)
(***************************************************************************)
EXTENDS TransferProofs, WellFoundedInduction

(***************************************************************************)
(* Induction over the natural numbers, in the form of the least element of *)
(* a set, and the recursion equation of PrefixSum that it gives.           *)
(***************************************************************************)
LEMMA LeastNatural ==
    ASSUME NEW T \in SUBSET Nat, T # {}
    PROVE  \E n \in T : \A m \in T : n <= m
<1> DEFINE I == {0..n : n \in T}
           R == StrictSubsetOrdering(Nat)
           F == FiniteSubsetsOf(Nat)
<1>1. IsWellFoundedOn(R, F)
  BY FS_StrictSubsetOrderingWellFounded
<1>2. \A n \in Nat : 0..n \in F
  BY FS_Interval DEF FiniteSubsetsOf
<1>3. I \subseteq F /\ I # {}
  BY <1>2
<1>4. PICK x \in I : \A y \in I : <<y, x>> \notin R
  <2> HIDE DEF I, R, F
  <2> QED BY <1>1, <1>3, WFMin
<1>5. PICK n \in T : x = 0..n
  OBVIOUS
<1>6. ASSUME NEW m \in T PROVE n <= m
  <2>1. <<0..m, 0..n>> \notin R
    BY <1>4, <1>5
  <2>2. 0..m \in SUBSET Nat /\ 0..n \in SUBSET Nat
    OBVIOUS
  <2>3. ~(0..m \subseteq 0..n /\ 0..m # 0..n)
    BY <2>1, <2>2 DEF StrictSubsetOrdering
  <2>4. m < n => 0..m \subseteq 0..n /\ n \in 0..n /\ n \notin 0..m
    OBVIOUS
  <2> QED BY <2>3, <2>4
<1> QED BY <1>6

\* The first n steps of the loop that computes the sums.
RunningSum(sizes, n, g) ==
    g = [i \in 0..n |-> IF i = 0 THEN 0 ELSE g[i - 1] + sizes[i - 1]]

LEMMA RunningSumExists ==
    ASSUME NEW sizes, NEW n \in Nat
    PROVE  \E g : RunningSum(sizes, n, g)
<1> DEFINE T == {k \in Nat : ~\E g : RunningSum(sizes, k, g)}
<1>1. SUFFICES ASSUME T # {} PROVE FALSE
  OBVIOUS
<1>2. PICK k \in T : \A m \in T : k <= m
  <2>1. T \in SUBSET Nat
    OBVIOUS
  <2> HIDE DEF T
  <2> QED BY <1>1, <2>1, LeastNatural
<1>3. k # 0
  <2>1. RunningSum(sizes, 0, [i \in 0..0 |-> 0])
    BY DEF RunningSum
  <2> QED BY <2>1
<1>4. PICK g : RunningSum(sizes, k - 1, g)
  BY <1>2, <1>3
<1> DEFINE h == [i \in 0..k |-> IF i = 0 THEN 0 ELSE g[i - 1] + sizes[i - 1]]
<1>5. \A i \in 0..(k - 1) : h[i] = g[i]
  BY <1>4 DEF RunningSum
<1>6. \A i \in 0..k : h[i] = IF i = 0 THEN 0 ELSE h[i - 1] + sizes[i - 1]
  BY <1>3, <1>5
<1>7. RunningSum(sizes, k, h)
  <2>1. h = [i \in 0..k |-> h[i]]
    OBVIOUS
  <2> HIDE DEF h
  <2> QED BY <2>1, <1>6 DEF RunningSum
<1> QED BY <1>7

LEMMA RunningSumsAgree ==
    ASSUME NEW sizes, NEW n \in Nat, NEW m \in Nat, n <= m,
           NEW g, NEW h, RunningSum(sizes, n, g), RunningSum(sizes, m, h)
    PROVE  g[n] = h[n]
<1> DEFINE T == {k \in 0..n : g[k] # h[k]}
<1>1. SUFFICES ASSUME T # {} PROVE FALSE
  OBVIOUS
<1>2. PICK k \in T : \A l \in T : k <= l
  <2>1. T \in SUBSET Nat
    OBVIOUS
  <2> HIDE DEF T
  <2> QED BY <1>1, <2>1, LeastNatural
<1>3. k \in 0..n /\ k \in 0..m
  OBVIOUS
<1>4. /\ g[k] = IF k = 0 THEN 0 ELSE g[k - 1] + sizes[k - 1]
      /\ h[k] = IF k = 0 THEN 0 ELSE h[k - 1] + sizes[k - 1]
  BY <1>3 DEF RunningSum
<1>5. k # 0 => g[k - 1] = h[k - 1]
  BY <1>2
<1> QED BY <1>4, <1>5

LEMMA PrefixSumSteps ==
    ASSUME NEW sizes
    PROVE  /\ PrefixSum(sizes, 0) = 0
           /\ \A n \in Nat : PrefixSum(sizes, n + 1) = PrefixSum(sizes, n) + sizes[n]
<1> DEFINE running(n) == CHOOSE g : RunningSum(sizes, n, g)
           f == [i \in Nat |-> running(i)[i]]
           IsSum(s) == s = [i \in Nat |-> IF i = 0 THEN 0 ELSE s[i - 1] + sizes[i - 1]]
<1>1. \A n \in Nat : RunningSum(sizes, n, running(n))
  BY RunningSumExists
<1>2. \A n \in Nat : running(n)[n] = IF n = 0 THEN 0 ELSE running(n)[n - 1] + sizes[n - 1]
  <2> HIDE DEF running
  <2> QED BY <1>1 DEF RunningSum
<1>3. \A n \in Nat : n # 0 => running(n)[n - 1] = running(n - 1)[n - 1]
  <2> SUFFICES ASSUME NEW n \in Nat, n # 0 PROVE running(n)[n - 1] = running(n - 1)[n - 1]
    OBVIOUS
  <2>1. n - 1 \in Nat /\ n - 1 <= n
    OBVIOUS
  <2>2. RunningSum(sizes, n, running(n)) /\ RunningSum(sizes, n - 1, running(n - 1))
    BY <1>1, <2>1
  <2> HIDE DEF running
  <2> QED BY <2>1, <2>2, RunningSumsAgree
<1>4. IsSum(f)
  <2> HIDE DEF running
  <2>1. \A i \in Nat : f[i] = IF i = 0 THEN 0 ELSE f[i - 1] + sizes[i - 1]
    BY <1>2, <1>3
  <2> QED BY <2>1
<1> DEFINE s == CHOOSE s : IsSum(s)
<1>5. IsSum(s)
  <2> HIDE DEF f, IsSum
  <2> QED BY <1>4
<1>6. \A n \in Nat : PrefixSum(sizes, n) = s[n]
  BY DEF PrefixSum
<1> HIDE DEF s
<1>7. \A n \in Nat : s[n] = IF n = 0 THEN 0 ELSE s[n - 1] + sizes[n - 1]
  BY <1>5
<1> HIDE DEF IsSum
<1> QED BY <1>6, <1>7

Program(r) == deploy.program[r]

\* Operation n of rank r is its k-th all_to_all.
IsCall(r, n, k) ==
    /\ n \in 1..Len(Program(r)) /\ Program(r)[n].op = "alltoall"
    /\ CallsUpTo(r, n) = k

PayloadOf(c, k) ==
    [offsets |-> LocalOutputOffsets(c), recv |-> c.recv, input |-> Total(c.send),
     output |-> Total(c.recv), call |-> k]

\* Collective i of rank r was built from what the ranks published under q.
Exchanged(r, i, q) ==
    /\ \A p \in Ranks :
          /\ q < sequence[p]
          /\ issued[r][i].met[p] = published[q][p].call
          /\ issued[r][i].to[p] = published[q][p].offsets[r]
          /\ issued[r][i].send[p] = published[q][p].recv[r]
    /\ published[q][r].call = i /\ published[q][r].recv = issued[r][i].recv

\* The log of rank r: one collective for each of its calls so far.
LogInv(r) ==
    /\ Len(issued[r]) = CallsUpTo(r, rank[r].pc - 1)
    /\ \A i \in 1..Len(issued[r]) :
          /\ issued[r][i].call = i
          /\ \E n \in 1..(rank[r].pc - 1) :
                /\ IsCall(r, n, i)
                /\ issued[r][i].kind = IF TakesEvenPath(Program(r)[n]) THEN "even" ELSE "ragged"
          /\ issued[r][i].kind = "even" => \A p \in Ranks : issued[r][i].met[p] = i
          /\ issued[r][i].kind = "ragged" => \E q \in 0..MaxCalls : Exchanged(r, i, q)

\* Rank r published its k-th call, which is uneven and among its first n
\* operations, under q.
PublishedCall(r, q, k, last) ==
    \E n \in 1..last :
        /\ IsCall(r, n, k) /\ ~TakesEvenPath(Program(r)[n])
        /\ published[q][r] = PayloadOf(Program(r)[n], k)

\* How many calls rank r has published before it issues their collectives.
Ahead(r) == IF rank[r].step \in {"fetch", "raised"} THEN 1 ELSE 0

\* What rank r has published: its uneven calls in order, the last one before
\* the collective is issued.
PublishedInv(r) ==
    /\ sequence[r] <= Len(issued[r]) + Ahead(r)
    /\ \A q \in 0..MaxCalls :
          IF q < sequence[r]
          THEN \E k \in 1..(Len(issued[r]) + Ahead(r)) : PublishedCall(r, q, k, rank[r].pc)
          ELSE published[q][r] = Absent
    /\ \A q, x \in 0..MaxCalls :
          q < x /\ x < sequence[r] => published[q][r].call < published[x][r].call
    /\ rank[r].step = "fetch" =>
          /\ ~Returned(r) /\ Current(r).op = "alltoall" /\ ~TakesEvenPath(Current(r))
          /\ sequence[r] > 0 /\ published[sequence[r] - 1][r].call = Len(issued[r]) + 1

\* Ranks that take the same paths publish the same calls under a number.
SameNumbers ==
    PathsAgree =>
        \A r, p \in Ranks : \A q \in 0..MaxCalls :
            q < sequence[r] /\ q < sequence[p] => published[q][r].call = published[q][p].call

AllToAllInv ==
    /\ AllToAllTypeOK
    /\ \A r \in Ranks : LogInv(r) /\ PublishedInv(r)
    /\ SameNumbers

(***************************************************************************)
(* The operators.                                                          *)
(***************************************************************************)

\* A sum of n sizes is a number, and at most n times the largest size.
LEMMA PrefixSumBounded ==
    ASSUME NEW sizes \in Sizes, NEW n \in 0..NumRanks
    PROVE  PrefixSum(sizes, n) \in 0..(n * MaxSize)
<1> DEFINE P(k) == PrefixSum(sizes, k) \in 0..(k * MaxSize)
           T == {k \in 0..NumRanks : ~P(k)}
<1>1. NumRanks \in Nat /\ MaxSize \in Nat
  BY GroupAssumption, SizesAssumption
<1>2. SUFFICES ASSUME T # {} PROVE FALSE
  OBVIOUS
<1>3. PICK k \in T : \A m \in T : k <= m
  <2>1. T \in SUBSET Nat
    BY <1>1
  <2> HIDE DEF T
  <2> QED BY <1>2, <2>1, LeastNatural
<1>4. k \in 0..NumRanks /\ ~P(k) /\ k \in Nat
  BY <1>1
<1>5. k # 0
  <2>1. P(0)
    BY <1>1, PrefixSumSteps
  <2> QED BY <2>1, <1>4
<1>6. k - 1 \in 0..NumRanks /\ k - 1 \in Nat /\ k - 1 \in Ranks
  BY <1>1, <1>4, <1>5 DEF Ranks
<1>7. P(k - 1)
  BY <1>3, <1>4, <1>6
<1>8. PrefixSum(sizes, k) = PrefixSum(sizes, k - 1) + sizes[k - 1]
  <2>1. PrefixSum(sizes, (k - 1) + 1) = PrefixSum(sizes, k - 1) + sizes[k - 1]
    BY <1>6, PrefixSumSteps
  <2>2. (k - 1) + 1 = k
    BY <1>4
  <2> QED BY <2>1, <2>2
<1>9. sizes[k - 1] \in 0..MaxSize
  BY <1>6 DEF Sizes
<1>10. (k - 1) * MaxSize + MaxSize = k * MaxSize /\ (k - 1) * MaxSize \in Nat
  BY <1>1, <1>4, <1>6
<1> HIDE DEF T
<1>11. ASSUME NEW x \in Int, NEW y \in Int, NEW a, NEW z \in Nat, a \in 0..x, z <= MaxSize,
              x + MaxSize = y
       PROVE  a + z \in 0..y
  BY <1>1, <1>11
<1>12. k * MaxSize \in Int /\ sizes[k - 1] \in Nat /\ sizes[k - 1] <= MaxSize
  BY <1>1, <1>4, <1>9
<1>13. PrefixSum(sizes, k - 1) + sizes[k - 1] \in 0..(k * MaxSize)
  BY <1>7, <1>10, <1>11, <1>12
<1> QED BY <1>4, <1>8, <1>13

LEMMA PayloadType ==
    ASSUME NEW c \in Operation, NEW k \in 1..MaxCalls
    PROVE  PayloadOf(c, k) \in Payload
<1>1. NumRanks \in Nat /\ MaxSize \in Nat
  BY GroupAssumption, SizesAssumption
<1>2. c.send \in Sizes /\ c.recv \in Sizes
  BY DEF Operation
<1>3. ASSUME NEW sizes \in Sizes, NEW n \in 0..NumRanks
      PROVE  PrefixSum(sizes, n) \in Offsets
  <2>1. PrefixSum(sizes, n) \in 0..(n * MaxSize)
    BY PrefixSumBounded
  <2>2. n * MaxSize <= NumRanks * MaxSize /\ n * MaxSize \in Nat /\ NumRanks * MaxSize \in Nat
    <3>1. n \in Nat /\ NumRanks - n \in Nat
      BY <1>1
    <3>2. (NumRanks - n) * MaxSize \in Nat /\ n * MaxSize \in Nat /\ NumRanks * MaxSize \in Nat
      BY <1>1, <3>1
    <3>3. (NumRanks - n) * MaxSize + n * MaxSize = NumRanks * MaxSize
      BY <1>1, <3>1
    <3> QED BY <3>2, <3>3
  <2> QED BY <2>1, <2>2 DEF Offsets
<1>4. Total(c.send) \in Offsets /\ Total(c.recv) \in Offsets
  BY <1>1, <1>2, <1>3 DEF Total
<1>5. \A p \in Ranks : PrefixSum(c.recv, p) \in Offsets
  BY <1>1, <1>2, <1>3 DEF Ranks
<1>6. LocalOutputOffsets(c) \in [Ranks -> Offsets]
  BY <1>5 DEF LocalOutputOffsets
<1> QED BY <1>2, <1>4, <1>6 DEF Payload, PayloadOf

\* Counting calls.
LEMMA CallsCounted ==
    ASSUME NEW r
    PROVE  /\ CallsUpTo(r, 0) = 0
           /\ \A n \in Nat : CallsUpTo(r, n) \in 0..n
           /\ \A n \in Nat : CallsUpTo(r, n + 1) =
                 CallsUpTo(r, n) + (IF Program(r)[n + 1].op = "alltoall" THEN 1 ELSE 0)
<1> DEFINE C(n) == {m \in 1..n : Program(r)[m].op = "alltoall"}
<1>1. \A n : CallsUpTo(r, n) = Cardinality(C(n))
  BY DEF CallsUpTo, Program
<1>2. ASSUME NEW n \in Nat
      PROVE  IsFiniteSet(C(n)) /\ Cardinality(C(n)) \in 0..n
  <2>1. IsFiniteSet(1..n) /\ Cardinality(1..n) = n
    BY FS_Interval
  <2>2. C(n) \in SUBSET (1..n)
    OBVIOUS
  <2> HIDE DEF C
  <2> QED BY <2>1, <2>2, FS_Subset, FS_CardinalityType
<1>3. ASSUME NEW n \in Nat
      PROVE  Cardinality(C(n + 1)) =
                Cardinality(C(n)) + (IF Program(r)[n + 1].op = "alltoall" THEN 1 ELSE 0)
  <2>1. n + 1 \notin C(n)
    OBVIOUS
  <2>2. C(n + 1) = IF Program(r)[n + 1].op = "alltoall" THEN C(n) \cup {n + 1} ELSE C(n)
    OBVIOUS
  <2>3. IsFiniteSet(C(n)) /\ Cardinality(C(n)) \in Nat
    BY <1>2, FS_CardinalityType
  <2> HIDE DEF C
  <2>4. Cardinality(C(n) \cup {n + 1}) = Cardinality(C(n)) + 1
    BY <2>1, <2>3, FS_AddElement
  <2> QED BY <2>2, <2>3, <2>4
<1>4. Cardinality(C(0)) = 0
  <2>1. C(0) = {}
    OBVIOUS
  <2> HIDE DEF C
  <2> QED BY <2>1, FS_EmptySet
<1> HIDE DEF C
<1> QED BY <1>1, <1>2, <1>3, <1>4

\* The operations of a program, and the types of where a rank is in it.
LEMMA ProgramType ==
    ASSUME RankType, NEW r \in Ranks
    PROVE  /\ Program(r) \in Seq(Operation) /\ Len(Program(r)) \in 0..MaxCalls
           /\ rank[r].pc \in 1..(MaxCalls + 1) /\ rank[r].step \in Steps
           /\ MaxCalls \in Nat
<1>1. deploy \in Deployments
  BY DEF RankType
<1>2. Program(r) \in Seq(Operation) /\ Len(Program(r)) <= MaxCalls
  BY <1>1, DeploymentsAssumption DEF Program
<1>3. Len(Program(r)) \in Nat /\ MaxCalls \in Nat
  BY <1>2, GroupAssumption
<1>4. rank[r].pc \in 1..(MaxCalls + 1) /\ rank[r].step \in Steps
  BY DEF RankType
<1> QED BY <1>2, <1>3, <1>4

(***************************************************************************)
(* What a step leaves alone.                                               *)
(***************************************************************************)

\* The store only grows.
StoreGrows ==
    \A p \in Ranks : \A q \in 0..MaxCalls :
        q < sequence[p] => q < sequence'[p] /\ published'[q][p] = published[q][p]

LEMMA DeployedCalls ==
    ASSUME UNCHANGED deploy
    PROVE  /\ \A r : Program(r)' = Program(r)
           /\ \A r, n : CallsUpTo(r, n)' = CallsUpTo(r, n)
           /\ \A r, n, k : IsCall(r, n, k)' <=> IsCall(r, n, k)
           /\ PathsAgree' <=> PathsAgree
<1>1. \A r : Program(r)' = Program(r)
  BY DEF Program
<1>2. \A r, n : CallsUpTo(r, n)' = CallsUpTo(r, n)
  BY DEF CallsUpTo
<1>3. \A r, n, k : IsCall(r, n, k)' <=> IsCall(r, n, k)
  BY <1>1, <1>2 DEF IsCall
<1>4. PathsAgree' <=> PathsAgree
  BY <1>2 DEF PathsAgree, SameCall
<1> QED BY <1>1, <1>2, <1>3, <1>4

\* The log of a rank that issues nothing.
LEMMA LogKept ==
    ASSUME RankType, NEW r \in Ranks, LogInv(r), StoreGrows, UNCHANGED deploy,
           issued'[r] = issued[r], rank'[r].pc \in Nat, rank[r].pc <= rank'[r].pc,
           CallsUpTo(r, rank'[r].pc - 1) = CallsUpTo(r, rank[r].pc - 1)
    PROVE  LogInv(r)'
<1>1. Len(issued'[r]) = (CallsUpTo(r, rank[r].pc - 1))'
  <2>1. CallsUpTo(r, rank[r].pc - 1) = Len(issued[r])
    BY DEF LogInv
  <2>2. (CallsUpTo(r, rank[r].pc - 1))' = CallsUpTo(r, rank'[r].pc - 1)
    BY DEF CallsUpTo
  <2> QED BY <2>1, <2>2
<1>2. ASSUME NEW i \in 1..Len(issued[r])
      PROVE  /\ issued[r][i].call = i
             /\ \E n \in 1..(rank'[r].pc - 1) :
                   /\ IsCall(r, n, i)'
                   /\ issued[r][i].kind =
                         IF TakesEvenPath(Program(r)'[n]) THEN "even" ELSE "ragged"
             /\ issued[r][i].kind = "even" => \A p \in Ranks : issued[r][i].met[p] = i
             /\ issued[r][i].kind = "ragged" => \E q \in 0..MaxCalls : Exchanged(r, i, q)'
  <2>1. PICK n \in 1..(rank[r].pc - 1) :
           /\ IsCall(r, n, i)
           /\ issued[r][i].kind = IF TakesEvenPath(Program(r)[n]) THEN "even" ELSE "ragged"
    BY DEF LogInv
  <2>2. n \in 1..(rank'[r].pc - 1)
    BY ProgramType
  <2>3. IsCall(r, n, i)' /\ Program(r)' = Program(r)
    BY <2>1, DeployedCalls
  <2>4. ASSUME NEW q \in 0..MaxCalls, Exchanged(r, i, q)
        PROVE  Exchanged(r, i, q)'
    BY <2>4 DEF Exchanged, StoreGrows
  <2> QED BY <2>1, <2>2, <2>3, <2>4 DEF LogInv
<1> QED BY <1>1, <1>2 DEF LogInv

\* What is known of a published call.
LEMMA PublishedCallType ==
    ASSUME RankType, NEW r \in Ranks, NEW q, NEW k, NEW last, PublishedCall(r, q, k, last)
    PROVE  /\ k \in 1..MaxCalls /\ published[q][r] \in Payload /\ published[q][r].call = k
           /\ published[q][r] # Absent
<1>1. PICK n \in 1..last :
         /\ IsCall(r, n, k) /\ published[q][r] = PayloadOf(Program(r)[n], k)
  BY DEF PublishedCall
<1>2. /\ Program(r) \in Seq(Operation) /\ Len(Program(r)) \in 0..MaxCalls
      /\ MaxCalls \in Nat /\ n \in 1..Len(Program(r))
  BY <1>1, ProgramType DEF IsCall
<1>3. Program(r)[n] \in Operation
  BY <1>2
<1>4. k \in 1..MaxCalls
  <2>1. n - 1 \in Nat /\ n = (n - 1) + 1 /\ n <= MaxCalls
    BY <1>2
  <2>2. CallsUpTo(r, n) = CallsUpTo(r, n - 1) + 1 /\ CallsUpTo(r, n - 1) \in 0..(n - 1)
    BY <2>1, <1>1, CallsCounted DEF IsCall
  <2> QED BY <2>1, <2>2, <1>1, <1>2 DEF IsCall
<1>5. PayloadOf(Program(r)[n], k) \in Payload
  BY <1>3, <1>4, PayloadType
<1> QED BY <1>1, <1>4, <1>5, AbsentAssumption DEF PayloadOf

\* What was published stays so.
LEMMA PublishedCallKept ==
    ASSUME NEW r, NEW q, NEW k, NEW last \in Int, NEW next \in Int, PublishedCall(r, q, k, last),
           last <= next, UNCHANGED deploy, published'[q][r] = published[q][r]
    PROVE  PublishedCall(r, q, k, next)'
<1>1. PICK n \in 1..last :
         /\ IsCall(r, n, k) /\ ~TakesEvenPath(Program(r)[n])
         /\ published[q][r] = PayloadOf(Program(r)[n], k)
  BY DEF PublishedCall
<1>2. n \in 1..next /\ IsCall(r, n, k)' /\ Program(r)' = Program(r)
  BY <1>1, DeployedCalls
<1> QED BY <1>1, <1>2 DEF PublishedCall

\* What a rank that publishes and issues nothing has published.
LEMMA PublishedKept ==
    ASSUME RankType, NEW r \in Ranks, PublishedInv(r), UNCHANGED deploy,
           issued'[r] = issued[r], sequence'[r] = sequence[r],
           \A q \in 0..MaxCalls : published'[q][r] = published[q][r],
           issued[r] \in Seq(Collective), sequence[r] \in 0..MaxCalls,
           rank'[r].pc \in Nat, rank[r].pc <= rank'[r].pc,
           rank[r].step \in {"fetch", "raised"} => rank'[r].step \in {"fetch", "raised"},
           rank'[r].step = "fetch" => rank'[r] = rank[r]
    PROVE  PublishedInv(r)'
<1>0. /\ Ahead(r) <= Ahead(r)' /\ Ahead(r) \in Nat /\ Ahead(r)' \in Nat
      /\ Len(issued[r]) \in Nat /\ rank[r].pc \in Int
  BY ProgramType DEF Ahead
<1>1. sequence'[r] <= Len(issued'[r]) + Ahead(r)'
  BY <1>0 DEF PublishedInv
<1>2. ASSUME NEW q \in 0..MaxCalls
      PROVE  IF q < sequence'[r]
             THEN \E k \in 1..(Len(issued'[r]) + Ahead(r)') : PublishedCall(r, q, k, rank[r].pc)'
             ELSE published'[q][r] = Absent
  <2>1. CASE q < sequence[r]
    <3>1. PICK k \in 1..(Len(issued[r]) + Ahead(r)) : PublishedCall(r, q, k, rank[r].pc)
      BY <2>1 DEF PublishedInv
    <3>2. PublishedCall(r, q, k, rank[r].pc)'
      BY <3>1, <1>0, PublishedCallKept
    <3>3. k \in 1..(Len(issued'[r]) + Ahead(r)')
      BY <1>0
    <3> QED BY <2>1, <3>2, <3>3
  <2>2. CASE ~(q < sequence[r])
    BY <2>2 DEF PublishedInv
  <2> QED BY <2>1, <2>2
<1>3. \A q, x \in 0..MaxCalls :
         q < x /\ x < sequence'[r] => published'[q][r].call < published'[x][r].call
  BY DEF PublishedInv
<1>4. rank'[r].step = "fetch" =>
         /\ ~Returned(r)' /\ Current(r)'.op = "alltoall" /\ ~TakesEvenPath(Current(r)')
         /\ sequence'[r] > 0 /\ published'[sequence'[r] - 1][r].call = Len(issued'[r]) + 1
  <2> SUFFICES ASSUME rank'[r].step = "fetch"
      PROVE  /\ ~Returned(r)' /\ Current(r)'.op = "alltoall" /\ ~TakesEvenPath(Current(r)')
             /\ sequence'[r] > 0 /\ published'[sequence'[r] - 1][r].call = Len(issued'[r]) + 1
    OBVIOUS
  <2>1. rank'[r] = rank[r] /\ rank[r].step = "fetch"
    OBVIOUS
  <2>2. /\ ~Returned(r) /\ Current(r).op = "alltoall" /\ ~TakesEvenPath(Current(r))
        /\ sequence[r] > 0 /\ published[sequence[r] - 1][r].call = Len(issued[r]) + 1
    BY <2>1 DEF PublishedInv
  <2>3. Current(r)' = Current(r) /\ (Returned(r)' <=> Returned(r))
    BY <2>1 DEF Current, Returned
  <2>4. sequence[r] - 1 \in 0..MaxCalls
    BY <2>2, ProgramType
  <2> QED BY <2>2, <2>3, <2>4
<1> QED BY <1>1, <1>2, <1>3, <1>4 DEF PublishedInv

(***************************************************************************)
(* The steps of a rank.                                                    *)
(***************************************************************************)

\* Only rank r moves, and only its part of the store changes.
OnlyMoves(r) ==
    /\ UNCHANGED deploy
    /\ \A p \in Ranks \ {r} :
          /\ rank'[p] = rank[p] /\ issued'[p] = issued[p] /\ sequence'[p] = sequence[p]
          /\ \A q \in 0..MaxCalls : published'[q][p] = published[q][p]

LEMMA OthersKept ==
    ASSUME RankType, AllToAllInv, NEW r \in Ranks, OnlyMoves(r), StoreGrows,
           NEW p \in Ranks \ {r}
    PROVE  LogInv(p)' /\ PublishedInv(p)'
<1>1. LogInv(p) /\ PublishedInv(p) /\ AllToAllTypeOK
  BY DEF AllToAllInv
<1>2. /\ UNCHANGED deploy /\ rank'[p] = rank[p] /\ issued'[p] = issued[p]
      /\ sequence'[p] = sequence[p] /\ \A q \in 0..MaxCalls : published'[q][p] = published[q][p]
  BY DEF OnlyMoves
<1>3. rank[p].pc \in Nat /\ issued[p] \in Seq(Collective) /\ sequence[p] \in 0..MaxCalls
  BY <1>1, ProgramType DEF AllToAllTypeOK
<1>4. LogInv(p)'
  BY <1>1, <1>2, <1>3, LogKept
<1>5. PublishedInv(p)'
  BY <1>1, <1>2, <1>3, PublishedKept
<1> QED BY <1>4, <1>5

\* The number of a call is one more than that of the collectives before it.
LEMMA CurrentCall ==
    ASSUME RankType, NEW r \in Ranks, LogInv(r), issued[r] \in Seq(Collective),
           ~Returned(r), Current(r).op = "alltoall"
    PROVE  /\ CallNumber(r) = Len(issued[r]) + 1 /\ CallNumber(r) \in 1..MaxCalls
           /\ IsCall(r, rank[r].pc, Len(issued[r]) + 1) /\ Program(r)[rank[r].pc] = Current(r)
           /\ Current(r) \in Operation
<1> DEFINE n == rank[r].pc
<1>1. /\ Program(r) \in Seq(Operation) /\ Len(Program(r)) \in 0..MaxCalls
      /\ n \in 1..(MaxCalls + 1) /\ MaxCalls \in Nat
  BY ProgramType
<1>2. Program(r)[n] = Current(r) /\ n \in 1..Len(Program(r))
  <2>1. n <= Len(Program(r))
    BY <1>1 DEF Returned, Program
  <2> QED BY <1>1, <2>1 DEF Current, Program
<1>3. n - 1 \in Nat /\ n = (n - 1) + 1 /\ Len(issued[r]) \in Nat
  BY <1>1
<1>4. Len(issued[r]) = CallsUpTo(r, n - 1)
  BY DEF LogInv
<1>5. CallsUpTo(r, n) = CallsUpTo(r, n - 1) + 1 /\ CallsUpTo(r, n - 1) \in 0..(n - 1)
  BY <1>2, <1>3, CallsCounted
<1>6. CallNumber(r) = CallsUpTo(r, n)
  BY DEF CallNumber
<1>7. CallNumber(r) = Len(issued[r]) + 1
  BY <1>4, <1>5, <1>6
<1>8. CallNumber(r) \in 1..MaxCalls
  <2>1. Len(issued[r]) <= n - 1 /\ n <= MaxCalls
    BY <1>1, <1>2, <1>4, <1>5
  <2> QED BY <1>1, <1>3, <1>7, <2>1
<1>9. IsCall(r, n, Len(issued[r]) + 1)
  BY <1>2, <1>6, <1>7, <1>8 DEF IsCall
<1>10. Current(r) \in Operation
  BY CurrentOperation
<1> QED BY <1>2, <1>7, <1>8, <1>9, <1>10

\* The log of a rank that issues a collective.
LEMMA LogAppended ==
    ASSUME RankType, NEW r \in Ranks, LogInv(r), StoreGrows, UNCHANGED deploy,
           issued[r] \in Seq(Collective), ~Returned(r), Current(r).op = "alltoall",
           rank'[r].pc = rank[r].pc + 1, NEW c \in Collective, issued'[r] = Append(issued[r], c),
           c.call = Len(issued[r]) + 1,
           c.kind = IF TakesEvenPath(Current(r)) THEN "even" ELSE "ragged",
           c.kind = "even" => \A p \in Ranks : c.met[p] = c.call,
           c.kind = "ragged" => \E q \in 0..MaxCalls : Exchanged(r, c.call, q)'
    PROVE  LogInv(r)'
<1> DEFINE L == Len(issued[r])
           n == rank[r].pc
<1>1. /\ L \in Nat /\ Len(issued'[r]) = L + 1 /\ issued'[r][L + 1] = c
      /\ \A i \in 1..L : issued'[r][i] = issued[r][i]
  OBVIOUS
<1>2. n \in Nat /\ rank'[r].pc - 1 = n
  BY ProgramType
<1>3. IsCall(r, n, L + 1) /\ Program(r)[n] = Current(r) /\ n \in 1..n
  <2>1. n \in 1..(MaxCalls + 1) /\ MaxCalls \in Nat
    BY ProgramType
  <2> QED BY <2>1, CurrentCall
<1>4. Len(issued'[r]) = (CallsUpTo(r, rank[r].pc - 1))'
  <2>1. (CallsUpTo(r, rank[r].pc - 1))' = CallsUpTo(r, rank'[r].pc - 1)
    BY DEF CallsUpTo
  <2> QED BY <2>1, <1>1, <1>2, <1>3 DEF IsCall
<1>5. ASSUME NEW i \in 1..(L + 1)
      PROVE  /\ issued'[r][i].call = i
             /\ \E m \in 1..n :
                   /\ IsCall(r, m, i)'
                   /\ issued'[r][i].kind =
                         IF TakesEvenPath(Program(r)'[m]) THEN "even" ELSE "ragged"
             /\ issued'[r][i].kind = "even" => \A p \in Ranks : issued'[r][i].met[p] = i
             /\ issued'[r][i].kind = "ragged" => \E q \in 0..MaxCalls : Exchanged(r, i, q)'
  <2>0. Program(r)' = Program(r) /\ \A m, k : IsCall(r, m, k)' <=> IsCall(r, m, k)
    BY DeployedCalls
  <2>1. CASE i = L + 1
    BY <2>0, <2>1, <1>1, <1>3
  <2>2. CASE i # L + 1
    <3>1. i \in 1..L /\ issued'[r][i] = issued[r][i]
      BY <2>2, <1>1
    <3>2. PICK m \in 1..(rank[r].pc - 1) :
             /\ IsCall(r, m, i)
             /\ issued[r][i].kind = IF TakesEvenPath(Program(r)[m]) THEN "even" ELSE "ragged"
      BY <3>1 DEF LogInv
    <3>3. m \in 1..n
      BY <1>2
    <3>4. ASSUME NEW q \in 0..MaxCalls, Exchanged(r, i, q)
          PROVE  Exchanged(r, i, q)'
      BY <3>1, <3>4 DEF Exchanged, StoreGrows
    <3> QED BY <2>0, <3>1, <3>2, <3>3, <3>4 DEF LogInv
  <2> QED BY <2>1, <2>2
<1> HIDE DEF L, n
<1> QED BY <1>1, <1>2, <1>4, <1>5 DEF LogInv, n

\* What a rank that issues a collective has published.
LEMMA PublishedIssued ==
    ASSUME RankType, NEW r \in Ranks, PublishedInv(r), UNCHANGED deploy,
           issued[r] \in Seq(Collective), sequence[r] \in 0..MaxCalls,
           NEW c, issued'[r] = Append(issued[r], c), sequence'[r] = sequence[r],
           \A q \in 0..MaxCalls : published'[q][r] = published[q][r],
           rank'[r].pc = rank[r].pc + 1, rank'[r].step = "start"
    PROVE  PublishedInv(r)'
<1>0. /\ Ahead(r) \in {0, 1} /\ Ahead(r)' = 0
      /\ Len(issued[r]) \in Nat /\ Len(issued'[r]) = Len(issued[r]) + 1
      /\ rank[r].pc \in Int /\ rank'[r].pc \in Int /\ rank[r].pc <= rank'[r].pc
  BY ProgramType DEF Ahead
<1>1. sequence'[r] <= Len(issued'[r]) + Ahead(r)'
  BY <1>0 DEF PublishedInv
<1>2. ASSUME NEW q \in 0..MaxCalls
      PROVE  IF q < sequence'[r]
             THEN \E k \in 1..(Len(issued'[r]) + Ahead(r)') : PublishedCall(r, q, k, rank[r].pc)'
             ELSE published'[q][r] = Absent
  <2>1. CASE q < sequence[r]
    <3>1. PICK k \in 1..(Len(issued[r]) + Ahead(r)) : PublishedCall(r, q, k, rank[r].pc)
      BY <2>1 DEF PublishedInv
    <3>2. PublishedCall(r, q, k, rank[r].pc)'
      BY <3>1, <1>0, PublishedCallKept
    <3>3. k \in 1..(Len(issued'[r]) + Ahead(r)')
      BY <1>0
    <3> QED BY <2>1, <3>2, <3>3
  <2>2. CASE ~(q < sequence[r])
    BY <2>2 DEF PublishedInv
  <2> QED BY <2>1, <2>2
<1>3. \A q, x \in 0..MaxCalls :
         q < x /\ x < sequence'[r] => published'[q][r].call < published'[x][r].call
  BY DEF PublishedInv
<1> QED BY <1>1, <1>2, <1>3 DEF PublishedInv

\* The agreement on numbers is kept by a step that publishes nothing.
LEMMA NumbersKept ==
    ASSUME SameNumbers, UNCHANGED <<deploy, sequence, published>>
    PROVE  SameNumbers'
BY DeployedCalls DEF SameNumbers

\* The calls of a rank have different numbers.
LEMMA CallsDiffer ==
    ASSUME RankType, NEW r \in Ranks, NEW n, NEW m, NEW k, IsCall(r, n, k), IsCall(r, m, k)
    PROVE  n = m
<1> DEFINE C(i) == {x \in 1..i : deploy.program[r][x].op = "alltoall"}
<1>1. n \in Nat \ {0} /\ m \in Nat \ {0}
  BY ProgramType DEF IsCall
<1>2. ASSUME NEW i \in Nat, NEW j \in Nat, i < j, IsCall(r, i, k), IsCall(r, j, k), i # 0
      PROVE  FALSE
  <2>1. C(i) \in SUBSET C(j) /\ j \in C(j) /\ j \notin C(i)
    BY <1>2 DEF IsCall, Program
  <2>2. IsFiniteSet(C(j))
    <3>1. IsFiniteSet(1..j) /\ C(j) \in SUBSET (1..j)
      BY FS_Interval
    <3> QED BY <3>1, FS_Subset
  <2>3. Cardinality(C(i)) = k /\ Cardinality(C(j)) = k
    BY <1>2 DEF IsCall, CallsUpTo
  <2> HIDE DEF C
  <2>4. C(i) = C(j)
    BY <2>1, <2>2, <2>3, FS_Subset
  <2> QED BY <2>1, <2>4
<1> QED BY <1>1, <1>2

\* A rank raises, or goes on in an operation that is no all_to_all.
LEMMA QuietRank ==
    ASSUME RankType, AllToAllInv, NEW r \in Ranks, UNCHANGED <<sequence, published, issued, deploy>>,
           \/ Raise(r)
           \/ /\ ~Returned(r) /\ Current(r).op # "alltoall" /\ rank[r].step \in {"start", "join"}
              /\ \/ Advance(r)
                 \/ rank' = [rank EXCEPT ![r].stripe = @ + 1]
                 \/ rank' = [rank EXCEPT ![r].stripe = 1, ![r].step = "join"]
    PROVE  AllToAllInv'
<1>0. /\ rank \in [Ranks -> [pc: 1..(MaxCalls + 1), stripe: Stripes, step: Steps]]
      /\ AllToAllTypeOK /\ SameNumbers /\ LogInv(r) /\ PublishedInv(r)
  BY DEF RankType, AllToAllInv
<1>1. AllToAllTypeOK'
  BY <1>0 DEF AllToAllTypeOK
<1>2. StoreGrows /\ OnlyMoves(r)
  <2>1. \A p \in Ranks \ {r} : rank'[p] = rank[p]
    BY <1>0 DEF Raise, Advance
  <2> QED BY <2>1 DEF StoreGrows, OnlyMoves
<1>3. SameNumbers'
  BY <1>0, NumbersKept
<1>4. /\ rank[r].pc \in Nat /\ issued[r] \in Seq(Collective) /\ sequence[r] \in 0..MaxCalls
      /\ MaxCalls \in Nat
  BY <1>0, ProgramType DEF AllToAllTypeOK
<1>5. CASE rank'[r].pc = rank[r].pc /\ rank'[r].step \in {"raised", rank[r].step, "join"}
           /\ (rank'[r].step = "raised" \/ rank[r].step \in {"start", "join"})
  <2>1. rank'[r].step # "fetch"
    BY <1>5
  <2>2. LogInv(r)'
    BY <1>0, <1>2, <1>4, <1>5, LogKept
  <2>3. PublishedInv(r)'
    BY <1>0, <1>2, <1>4, <1>5, <2>1, PublishedKept
  <2> QED BY <1>1, <1>2, <1>3, <2>2, <2>3, OthersKept DEF AllToAllInv
<1>6. CASE /\ ~Returned(r) /\ Current(r).op # "alltoall" /\ rank[r].step \in {"start", "join"}
           /\ Advance(r)
  <2>1. rank'[r].pc = rank[r].pc + 1 /\ rank'[r].step = "start"
    BY <1>0, <1>6 DEF Advance
  <2>2. CallsUpTo(r, rank'[r].pc - 1) = CallsUpTo(r, rank[r].pc - 1)
    <3>1. rank[r].pc - 1 \in Nat /\ (rank[r].pc - 1) + 1 = rank[r].pc
      BY <1>0, <1>4
    <3>2. Program(r)[rank[r].pc].op # "alltoall"
      BY <1>6 DEF Current, Program
    <3>3. /\ CallsUpTo(r, rank[r].pc) = CallsUpTo(r, rank[r].pc - 1) + 0
          /\ CallsUpTo(r, rank[r].pc - 1) \in 0..(rank[r].pc - 1)
      BY <3>1, <3>2, CallsCounted
    <3>4. CallsUpTo(r, rank[r].pc - 1) \in Int
      BY <3>3
    <3>5. rank'[r].pc - 1 = rank[r].pc
      BY <2>1, <1>4
    <3> QED BY <3>3, <3>4, <3>5
  <2>3. LogInv(r)'
    BY <1>0, <1>2, <1>4, <2>1, <2>2, LogKept
  <2>4. PublishedInv(r)'
    BY <1>0, <1>2, <1>4, <1>6, <2>1, PublishedKept
  <2> QED BY <1>1, <1>2, <1>3, <2>3, <2>4, OthersKept DEF AllToAllInv
<1>7. Raise(r) => rank'[r].pc = rank[r].pc /\ rank'[r].step = "raised"
  BY <1>0 DEF Raise
<1>8. rank' = [rank EXCEPT ![r].stripe = @ + 1]
      => rank'[r].pc = rank[r].pc /\ rank'[r].step = rank[r].step
  BY <1>0
<1>9. rank' = [rank EXCEPT ![r].stripe = 1, ![r].step = "join"]
      => rank'[r].pc = rank[r].pc /\ rank'[r].step = "join"
  BY <1>0
<1> QED BY <1>5, <1>6, <1>7, <1>8, <1>9

\* A call whose slices are equal is dispatched at once.
LEMMA EvenStep ==
    ASSUME RankType, AllToAllInv, NEW r \in Ranks, At(r, "alltoall", "start"),
           TakesEvenPath(Current(r)), DispatchEven(r, Current(r), CallNumber(r)),
           Advance(r), UNCHANGED deploy
    PROVE  AllToAllInv'
<1>0. /\ rank \in [Ranks -> [pc: 1..(MaxCalls + 1), stripe: Stripes, step: Steps]]
      /\ AllToAllTypeOK /\ SameNumbers /\ LogInv(r) /\ PublishedInv(r)
      /\ ~Returned(r) /\ Current(r).op = "alltoall"
  BY DEF RankType, AllToAllInv, At, Finished
<1>1. /\ issued \in [Ranks -> Seq(Collective)] /\ issued[r] \in Seq(Collective)
      /\ sequence[r] \in 0..MaxCalls
  BY <1>0 DEF AllToAllTypeOK
<1> DEFINE k == Len(issued[r]) + 1
           c == [kind |-> "even", call |-> k, send |-> Current(r).send, recv |-> Current(r).recv,
                 to |-> [p \in Ranks |-> 0], met |-> [p \in Ranks |-> k]]
<1>2. CallNumber(r) = k /\ k \in 1..MaxCalls /\ Current(r) \in Operation
  BY <1>0, <1>1, CurrentCall
<1>3. c \in Collective
  <2>1. 0 \in Offsets
    <3>1. NumRanks * MaxSize \in Nat
      BY GroupAssumption, SizesAssumption
    <3> QED BY <3>1 DEF Offsets
  <2>2. Current(r).send \in Sizes /\ Current(r).recv \in Sizes
    BY <1>2 DEF Operation
  <2> HIDE DEF k
  <2> QED BY <2>1, <2>2, <1>2 DEF Collective
<1>4. issued' = [issued EXCEPT ![r] = Append(issued[r], c)] /\ UNCHANGED <<sequence, published>>
  BY <1>2 DEF DispatchEven
<1>5. c.kind = "even" /\ c.call = k /\ \A p \in Ranks : c.met[p] = c.call
  OBVIOUS
<1> HIDE DEF c
<1>6. issued'[r] = Append(issued[r], c) /\ \A p \in Ranks \ {r} : issued'[p] = issued[p]
  BY <1>1, <1>4
<1>7. AllToAllTypeOK'
  BY <1>0, <1>1, <1>3, <1>4 DEF AllToAllTypeOK
<1>8. /\ rank'[r].pc = rank[r].pc + 1 /\ rank'[r].step = "start"
      /\ \A p \in Ranks \ {r} : rank'[p] = rank[p]
  BY <1>0 DEF Advance
<1>9. StoreGrows /\ OnlyMoves(r)
  BY <1>4, <1>6, <1>8 DEF StoreGrows, OnlyMoves
<1>10. LogInv(r)'
  BY <1>0, <1>1, <1>3, <1>5, <1>6, <1>8, <1>9, LogAppended
<1>11. PublishedInv(r)'
  BY <1>0, <1>1, <1>4, <1>6, <1>8, PublishedIssued
<1>12. SameNumbers'
  BY <1>0, <1>4, NumbersKept
<1> QED BY <1>7, <1>9, <1>10, <1>11, <1>12, OthersKept DEF AllToAllInv

\* Calls that all_to_all numbers alike on two ranks take the same path.
LEMMA PathOfCall ==
    ASSUME RankType, PathsAgree, NEW r \in Ranks, NEW p \in Ranks, NEW n, NEW m, NEW k,
           IsCall(r, n, k), IsCall(p, m, k)
    PROVE  TakesEvenPath(Program(r)[n]) <=> TakesEvenPath(Program(p)[m])
<1>1. /\ Program(r) \in Seq(Operation) /\ Len(Program(r)) \in 0..MaxCalls
      /\ Program(p) \in Seq(Operation) /\ Len(Program(p)) \in 0..MaxCalls /\ MaxCalls \in Nat
  BY ProgramType
<1>2. /\ n \in DOMAIN Program(r) /\ m \in DOMAIN Program(p)
      /\ n \in Operations /\ m \in Operations
  BY <1>1 DEF IsCall, Operations
<1>3. SameCall(r, n, p, m)
  BY <1>2 DEF SameCall, IsCall, Program
<1> QED BY <1>2, <1>3 DEF PathsAgree, Program

\* The next uneven call of rank r has the number that a peer gave the call it
\* published under the next sequence number of r.
LEMMA NextNumber ==
    ASSUME RankType, AllToAllInv, PathsAgree, NEW r \in Ranks, NEW p \in Ranks,
           At(r, "alltoall", "start"), ~TakesEvenPath(Current(r)), sequence[r] < sequence[p]
    PROVE  published[sequence[r]][p].call = Len(issued[r]) + 1
<1> DEFINE L == Len(issued[r])
           s == sequence[r]
           m == published[s][p].call
<1>0. /\ AllToAllTypeOK /\ SameNumbers
      /\ LogInv(r) /\ PublishedInv(r) /\ LogInv(p) /\ PublishedInv(p)
      /\ ~Returned(r) /\ Current(r).op = "alltoall" /\ rank[r].step = "start"
  BY DEF AllToAllInv, At, Finished
<1>1. /\ issued[r] \in Seq(Collective) /\ issued[p] \in Seq(Collective)
      /\ sequence[r] \in 0..MaxCalls /\ sequence[p] \in 0..MaxCalls /\ MaxCalls \in Nat
      /\ L \in Nat /\ Len(issued[p]) \in Nat /\ s \in 0..MaxCalls
  BY <1>0, GroupAssumption DEF AllToAllTypeOK
<1>2. IsCall(r, rank[r].pc, L + 1) /\ Program(r)[rank[r].pc] = Current(r)
  BY <1>0, <1>1, CurrentCall
<1>3. PICK k \in 1..(Len(issued[p]) + Ahead(p)) : PublishedCall(p, s, k, rank[p].pc)
  BY <1>0, <1>1 DEF PublishedInv
<1>4. k = m /\ k \in Nat /\ Ahead(p) \in {0, 1}
  BY <1>3, <1>1, PublishedCallType DEF Ahead
<1>5. PICK n : IsCall(p, n, k) /\ ~TakesEvenPath(Program(p)[n])
  BY <1>3 DEF PublishedCall
<1>6. ASSUME k < L + 1 PROVE FALSE
  <2>1. k \in 1..Len(issued[r])
    BY <1>1, <1>3, <1>4, <1>6
  <2>2. PICK o \in 1..(rank[r].pc - 1) :
           /\ IsCall(r, o, k)
           /\ issued[r][k].kind = IF TakesEvenPath(Program(r)[o]) THEN "even" ELSE "ragged"
    BY <2>1, <1>0 DEF LogInv
  <2>3. issued[r][k].kind = "ragged"
    BY <2>2, <1>5, PathOfCall
  <2>4. PICK q \in 0..MaxCalls : Exchanged(r, k, q)
    BY <2>1, <2>3, <1>0 DEF LogInv
  <2>5. q < sequence[r] /\ q < sequence[p] /\ published[q][r].call = k
    BY <2>4 DEF Exchanged
  <2>6. published[q][p].call = k
    BY <2>5, <1>0 DEF SameNumbers
  <2>7. published[q][p].call < published[s][p].call
    BY <2>5, <1>0, <1>1 DEF PublishedInv
  <2> QED BY <2>6, <2>7, <1>4
<1>7. ASSUME k > L + 1 PROVE FALSE
  <2>1. L + 1 \in 1..Len(issued[p])
    BY <1>1, <1>3, <1>4, <1>7
  <2>2. PICK o \in 1..(rank[p].pc - 1) :
           /\ IsCall(p, o, L + 1)
           /\ issued[p][L + 1].kind = IF TakesEvenPath(Program(p)[o]) THEN "even" ELSE "ragged"
    BY <2>1, <1>0 DEF LogInv
  <2>3. issued[p][L + 1].kind = "ragged"
    BY <2>2, <1>2, PathOfCall
  <2>4. PICK q \in 0..MaxCalls : Exchanged(p, L + 1, q)
    BY <2>1, <2>3, <1>0 DEF LogInv
  <2>5. q < sequence[r] /\ q < sequence[p] /\ published[q][p].call = L + 1
    BY <2>4 DEF Exchanged
  <2>6. published[q][r].call = L + 1
    BY <2>5, <1>0 DEF SameNumbers
  <2>7. PICK j \in 1..(L + Ahead(r)) : PublishedCall(r, q, j, rank[r].pc)
    BY <2>5, <1>0 DEF PublishedInv
  <2>8. Ahead(r) = 0
    BY <1>0 DEF Ahead
  <2>9. published[q][r].call = j
    BY <2>7, PublishedCallType
  <2> QED BY <2>6, <2>7, <2>8, <2>9, <1>1
<1> QED BY <1>1, <1>4, <1>6, <1>7

\* A call with slices of different sizes publishes its offsets.
LEMMA PublishStep ==
    ASSUME RankType, AllToAllInv, NEW r \in Ranks, At(r, "alltoall", "start"),
           ~TakesEvenPath(Current(r)), PublishOffsets(r, Current(r), CallNumber(r)),
           rank' = [rank EXCEPT ![r].step = "fetch"], UNCHANGED deploy
    PROVE  AllToAllInv'
<1>0. /\ rank \in [Ranks -> [pc: 1..(MaxCalls + 1), stripe: Stripes, step: Steps]]
      /\ AllToAllTypeOK /\ SameNumbers /\ LogInv(r) /\ PublishedInv(r)
      /\ ~Returned(r) /\ Current(r).op = "alltoall" /\ rank[r].step = "start"
  BY DEF RankType, AllToAllInv, At, Finished
<1> DEFINE L == Len(issued[r])
           s == sequence[r]
           y == PayloadOf(Current(r), L + 1)
<1>1. /\ issued[r] \in Seq(Collective) /\ s \in 0..MaxCalls /\ MaxCalls \in Nat /\ L \in Nat
      /\ sequence \in [Ranks -> 0..MaxCalls]
      /\ published \in [0..MaxCalls -> [Ranks -> Payload \cup {Absent}]]
  BY <1>0, GroupAssumption DEF AllToAllTypeOK
<1>2. /\ CallNumber(r) = L + 1 /\ L + 1 \in 1..MaxCalls /\ Current(r) \in Operation
      /\ IsCall(r, rank[r].pc, L + 1) /\ Program(r)[rank[r].pc] = Current(r)
  BY <1>0, <1>1, CurrentCall
<1>3. s <= L /\ s + 1 \in 0..MaxCalls /\ Ahead(r) = 0
  <2>1. Ahead(r) = 0
    BY <1>0 DEF Ahead
  <2> QED BY <2>1, <1>0, <1>1, <1>2 DEF PublishedInv
<1>4. y \in Payload /\ y.call = L + 1
  BY <1>2, PayloadType DEF PayloadOf
<1>5. /\ published' = [published EXCEPT ![s][r] = y] /\ sequence' = [sequence EXCEPT ![r] = s + 1]
      /\ UNCHANGED issued
  BY <1>2 DEF PublishOffsets, PayloadOf
<1> HIDE DEF y
<1>6. /\ published'[s][r] = y /\ sequence'[r] = s + 1
      /\ \A p \in Ranks \ {r} : sequence'[p] = sequence[p]
      /\ \A q \in 0..MaxCalls : \A p \in Ranks :
            q # s \/ p # r => published'[q][p] = published[q][p]
  BY <1>1, <1>5
<1>7. /\ rank'[r].step = "fetch" /\ rank'[r].pc = rank[r].pc
      /\ \A p \in Ranks \ {r} : rank'[p] = rank[p]
  BY <1>0
<1>8. AllToAllTypeOK'
  BY <1>0, <1>1, <1>3, <1>4, <1>5 DEF AllToAllTypeOK
<1>9. StoreGrows /\ OnlyMoves(r)
  BY <1>1, <1>5, <1>6, <1>7 DEF StoreGrows, OnlyMoves
<1>10. LogInv(r)'
  <2>1. rank'[r].pc \in Nat /\ rank[r].pc <= rank'[r].pc /\ issued'[r] = issued[r]
    BY <1>5, <1>7, ProgramType
  <2> QED BY <2>1, <1>0, <1>7, <1>9, LogKept
<1>11. PublishedInv(r)'
  <2>0. Ahead(r)' = 1 /\ rank[r].pc \in Int /\ rank[r].pc \in 1..rank[r].pc
    BY <1>7, ProgramType DEF Ahead
  <2>1. sequence'[r] <= Len(issued'[r]) + Ahead(r)'
    BY <2>0, <1>1, <1>3, <1>5, <1>6
  <2>2. ASSUME NEW q \in 0..MaxCalls
        PROVE  /\ IF q < sequence'[r]
                  THEN \E k \in 1..(Len(issued'[r]) + Ahead(r)') :
                          PublishedCall(r, q, k, rank[r].pc)'
                  ELSE published'[q][r] = Absent
               /\ q < s => published'[q][r].call <= L /\ published'[q][r].call \in Int
    <3>1. CASE q < s
      <4>1. PICK k \in 1..(L + Ahead(r)) : PublishedCall(r, q, k, rank[r].pc)
        BY <3>1, <1>0 DEF PublishedInv
      <4>2. published'[q][r] = published[q][r]
        BY <3>1, <1>1, <1>6
      <4>3. PublishedCall(r, q, k, rank[r].pc)'
        BY <4>1, <4>2, <2>0, <1>7, PublishedCallKept
      <4>4. k \in 1..(Len(issued'[r]) + Ahead(r)') /\ k <= L /\ k \in Int
        BY <2>0, <1>1, <1>3, <1>5
      <4>5. published'[q][r].call = k
        BY <4>1, <4>2, PublishedCallType
      <4>6. q < sequence'[r]
        BY <3>1, <1>1, <1>6
      <4> QED BY <4>3, <4>4, <4>5, <4>6
    <3>2. CASE q = s
      <4>1. L + 1 \in 1..(Len(issued'[r]) + Ahead(r)') /\ q < sequence'[r]
        BY <3>2, <2>0, <1>1, <1>5, <1>6
      <4>2. PublishedCall(r, q, L + 1, rank[r].pc)'
        <5>1. IsCall(r, rank[r].pc, L + 1)' /\ Program(r)' = Program(r)
          <6>1. \A n, k : IsCall(r, n, k)' <=> IsCall(r, n, k)
            BY DeployedCalls
          <6>2. IsCall(r, rank'[r].pc, Len(issued'[r]) + 1)
            BY <1>2, <1>5, <1>7
          <6> QED BY <6>1, <6>2, DeployedCalls
        <5>2. published'[q][r] = PayloadOf(Program(r)[rank[r].pc], L + 1)
          BY <3>2, <1>2, <1>6 DEF y
        <5> QED BY <5>1, <5>2, <2>0, <1>2, <1>5, <1>7 DEF PublishedCall
      <4> QED BY <4>1, <4>2, <3>2, <1>1, <1>5
    <3>3. CASE q > s
      <4>1. ~(q < s) /\ ~(q < sequence'[r]) /\ q # s
        BY <3>3, <1>1, <1>6
      <4> QED BY <4>1, <1>0, <1>6 DEF PublishedInv
    <3> QED BY <3>1, <3>2, <3>3, <1>1
  <2>3. ASSUME NEW q \in 0..MaxCalls, NEW x \in 0..MaxCalls, q < x, x < sequence'[r]
        PROVE  published'[q][r].call < published'[x][r].call
    <3>1. q < s /\ x <= s
      BY <2>3, <1>1, <1>6
    <3>2. CASE x = s
      BY <3>1, <3>2, <2>2, <1>1, <1>4, <1>6
    <3>3. CASE x # s
      <4>1. x < sequence[r] /\ q # s
        BY <3>1, <3>3, <1>1
      <4>2. published[q][r].call < published[x][r].call
        BY <4>1, <2>3, <1>0 DEF PublishedInv
      <4> QED BY <4>1, <4>2, <3>3, <1>6
    <3> QED BY <3>2, <3>3
  <2>4. /\ ~Returned(r)' /\ Current(r)'.op = "alltoall" /\ ~TakesEvenPath(Current(r)')
        /\ sequence'[r] > 0 /\ published'[sequence'[r] - 1][r].call = Len(issued'[r]) + 1
    <3>1. Current(r)' = Current(r) /\ (Returned(r)' <=> Returned(r))
      BY <1>7 DEF Current, Returned
    <3>2. sequence'[r] > 0 /\ sequence'[r] - 1 = s
      <4>1. sequence'[r] = s + 1 /\ s \in Nat
        BY <1>1, <1>6
      <4> HIDE DEF s
      <4> QED BY <4>1
    <3> QED BY <3>1, <3>2, <1>0, <1>4, <1>5, <1>6
  <2> QED BY <2>1, <2>2, <2>3, <2>4 DEF PublishedInv
<1>12. SameNumbers'
  <2> SUFFICES ASSUME PathsAgree', NEW o \in Ranks, NEW p \in Ranks, NEW q \in 0..MaxCalls,
                      q < sequence'[o], q < sequence'[p]
      PROVE  published'[q][o].call = published'[q][p].call
    BY DEF SameNumbers
  <2>1. PathsAgree
    BY DeployedCalls
  <2>2. ASSUME NEW x \in Ranks \ {r}, s < sequence[x] PROVE published'[s][x].call = L + 1
    BY <2>1, <2>2, <1>1, <1>6, NextNumber
  <2>3. \A x \in Ranks : q < sequence'[x] /\ ~(x = r /\ q = s)
           => q < sequence[x] /\ published'[q][x] = published[q][x]
    BY <1>1, <1>6
  <2>4. CASE q = s
    <3>1. \A x \in Ranks : q < sequence'[x] => published'[q][x].call = L + 1
      BY <2>2, <2>4, <1>4, <1>6
    <3> QED BY <3>1
  <2>5. CASE q # s
    BY <2>1, <2>3, <2>5, <1>0 DEF SameNumbers
  <2> QED BY <2>4, <2>5
<1> QED BY <1>8, <1>9, <1>10, <1>11, <1>12, OthersKept DEF AllToAllInv

\* The collective of an uneven call is built from what all ranks published.
LEMMA RaggedStep ==
    ASSUME RankType, AllToAllInv, NEW r \in Ranks, At(r, "alltoall", "fetch"),
           AllPublished(r), SizesAgree(r, Current(r)),
           DispatchRagged(r, Current(r), CallNumber(r)), Advance(r), UNCHANGED deploy
    PROVE  AllToAllInv'
<1>0. /\ rank \in [Ranks -> [pc: 1..(MaxCalls + 1), stripe: Stripes, step: Steps]]
      /\ AllToAllTypeOK /\ SameNumbers /\ LogInv(r) /\ PublishedInv(r)
      /\ ~Returned(r) /\ Current(r).op = "alltoall" /\ rank[r].step = "fetch"
  BY DEF RankType, AllToAllInv, At, Finished
<1> DEFINE k == Len(issued[r]) + 1
           s == sequence[r] - 1
           a == published[s]
           c == [kind |-> "ragged", call |-> k, send |-> Current(r).send, recv |-> Current(r).recv,
                 to |-> [p \in Ranks |-> a[p].offsets[r]], met |-> [p \in Ranks |-> a[p].call]]
<1>1. /\ issued \in [Ranks -> Seq(Collective)] /\ issued[r] \in Seq(Collective)
      /\ sequence[r] \in 0..MaxCalls /\ k \in Nat
      /\ \A p \in Ranks : sequence[p] \in 0..MaxCalls
  BY <1>0 DEF AllToAllTypeOK
<1>2. /\ CallNumber(r) = k /\ k \in 1..MaxCalls /\ Current(r) \in Operation
      /\ IsCall(r, rank[r].pc, k) /\ Program(r)[rank[r].pc] = Current(r)
  BY <1>0, <1>1, CurrentCall
<1>3. ~TakesEvenPath(Current(r)) /\ sequence[r] > 0 /\ a[r].call = k
  BY <1>0 DEF PublishedInv
<1>4. s \in 0..MaxCalls /\ s < sequence[r]
  BY <1>1, <1>3, GroupAssumption
<1>5. ASSUME NEW p \in Ranks
      PROVE  a[p] \in Payload /\ s < sequence[p] /\ a[p].recv[r] = Current(r).send[p]
  <2>1. a[p] # Absent /\ a[p].recv[r] = Current(r).send[p]
    BY DEF AllPublished, SizesAgree, Peers
  <2>2. PublishedInv(p)
    BY DEF AllToAllInv
  <2>3. s < sequence[p]
    BY <2>1, <2>2, <1>4 DEF PublishedInv
  <2>4. a[p] \in Payload
    BY <2>1, <1>0, <1>4 DEF AllToAllTypeOK
  <2> QED BY <2>1, <2>3, <2>4
<1>6. a[r].recv = Current(r).recv
  <2>1. PICK j \in 1..(Len(issued[r]) + Ahead(r)) : PublishedCall(r, s, j, rank[r].pc)
    BY <1>0, <1>4 DEF PublishedInv
  <2>2. j = k
    BY <2>1, <1>3, PublishedCallType
  <2>3. PICK n \in 1..rank[r].pc : IsCall(r, n, k) /\ a[r] = PayloadOf(Program(r)[n], k)
    BY <2>1, <2>2 DEF PublishedCall
  <2>4. n = rank[r].pc
    BY <2>3, <1>2, CallsDiffer
  <2> QED BY <2>3, <2>4, <1>2 DEF PayloadOf
<1> HIDE DEF s, k
<1>7. c \in Collective
  <2>1. Current(r).send \in Sizes /\ Current(r).recv \in Sizes
    BY <1>2 DEF Operation
  <2>2. \A p \in Ranks : a[p].offsets[r] \in Offsets /\ a[p].call \in 1..MaxCalls
    BY <1>5 DEF Payload
  <2> HIDE DEF a
  <2> QED BY <2>1, <2>2, <1>2 DEF Collective
<1>8. issued' = [issued EXCEPT ![r] = Append(issued[r], c)] /\ UNCHANGED <<sequence, published>>
  BY <1>2 DEF DispatchRagged, Peers, s
<1>9. /\ c.kind = "ragged" /\ c.call = k /\ c.send = Current(r).send /\ c.recv = Current(r).recv
      /\ \A p \in Ranks : c.to[p] = a[p].offsets[r] /\ c.met[p] = a[p].call
  OBVIOUS
<1> HIDE DEF c
<1>10. issued'[r] = Append(issued[r], c) /\ \A p \in Ranks \ {r} : issued'[p] = issued[p]
  BY <1>1, <1>8
<1>11. AllToAllTypeOK'
  BY <1>0, <1>1, <1>7, <1>8 DEF AllToAllTypeOK
<1>12. /\ rank'[r].pc = rank[r].pc + 1 /\ rank'[r].step = "start"
       /\ \A p \in Ranks \ {r} : rank'[p] = rank[p]
  BY <1>0 DEF Advance
<1>13. StoreGrows /\ OnlyMoves(r)
  BY <1>8, <1>10, <1>12 DEF StoreGrows, OnlyMoves
<1>14. ASSUME NEW i, NEW q, i = c.call, q = s PROVE Exchanged(r, i, q)'
  <2>1. issued'[r][i] = c
    BY <1>1, <1>9, <1>10, <1>14 DEF k
  <2>2. sequence' = sequence /\ published'[q] = a
    BY <1>8, <1>14
  <2> QED BY <2>1, <2>2, <1>3, <1>5, <1>6, <1>9, <1>14 DEF Exchanged
<1>15. LogInv(r)'
  BY <1>0, <1>1, <1>3, <1>4, <1>7, <1>9, <1>10, <1>12, <1>13, <1>14, LogAppended DEF k
<1>16. PublishedInv(r)'
  BY <1>0, <1>1, <1>8, <1>10, <1>12, PublishedIssued
<1>17. SameNumbers'
  BY <1>0, <1>8, NumbersKept
<1> QED BY <1>11, <1>13, <1>15, <1>16, <1>17, OthersKept DEF AllToAllInv

LEMMA InitAllToAllInv == Init => AllToAllInv
<1> SUFFICES ASSUME Init PROVE AllToAllInv
  OBVIOUS
<1>1. AllToAllInit /\ MaxCalls \in Nat
  BY GroupAssumption DEF Init
<1>2. AllToAllTypeOK
  BY <1>1 DEF AllToAllInit, AllToAllTypeOK
<1>3. ASSUME NEW r \in Ranks
      PROVE  LogInv(r) /\ PublishedInv(r) /\ sequence[r] = 0
  <2>1. /\ issued[r] = <<>> /\ sequence[r] = 0 /\ rank[r].pc - 1 = 0 /\ rank[r].step = "start"
        /\ \A q \in 0..MaxCalls : published[q][r] = Absent
    BY <1>1 DEF Init, AllToAllInit
  <2>2. CallsUpTo(r, rank[r].pc - 1) = 0
    BY <2>1, CallsCounted
  <2>3. LogInv(r)
    BY <2>1, <2>2 DEF LogInv
  <2>4. PublishedInv(r)
    BY <2>1 DEF PublishedInv, Ahead
  <2> QED BY <2>1, <2>3, <2>4
<1>4. SameNumbers
  BY <1>3 DEF SameNumbers
<1> QED BY <1>2, <1>3, <1>4 DEF AllToAllInv

\* A step that leaves the ranks and the all_to_all calls alone.
LEMMA AllToAllUnchanged ==
    ASSUME RankType, AllToAllInv, UNCHANGED <<sequence, published, issued, deploy, rank>>
    PROVE  AllToAllInv'
<1>1. StoreGrows /\ SameNumbers' /\ AllToAllTypeOK'
  BY NumbersKept DEF StoreGrows, AllToAllInv, AllToAllTypeOK
<1>2. ASSUME NEW r \in Ranks PROVE LogInv(r)' /\ PublishedInv(r)'
  <2>1. /\ LogInv(r) /\ PublishedInv(r) /\ rank[r].pc \in Nat
        /\ issued[r] \in Seq(Collective) /\ sequence[r] \in 0..MaxCalls
    BY ProgramType DEF AllToAllInv, AllToAllTypeOK
  <2> QED BY <2>1, <1>1, LogKept, PublishedKept
<1> QED BY <1>1, <1>2 DEF AllToAllInv

LEMMA RankStepKeepsAllToAll ==
    ASSUME RankType, AllToAllInv, NEW r \in Ranks, RankStep(r) \/ OperationFails(r)
    PROVE  AllToAllInv'
<1>1. CASE CallAllToAll(r)
  <2>1. At(r, "alltoall", "start") /\ UNCHANGED deploy
    BY <1>1 DEF CallAllToAll
  <2>2. CASE TakesEvenPath(Current(r)) /\ EvenCallAccepted(Current(r))
    BY <1>1, <2>1, <2>2, EvenStep DEF CallAllToAll
  <2>3. CASE TakesEvenPath(Current(r)) /\ ~EvenCallAccepted(Current(r))
    BY <1>1, <2>1, <2>3, QuietRank DEF CallAllToAll, allToAllVars
  <2>4. CASE ~TakesEvenPath(Current(r))
    BY <1>1, <2>1, <2>4, PublishStep DEF CallAllToAll
  <2> QED BY <2>2, <2>3, <2>4
<1>2. CASE FetchOffsets(r)
  <2>1. At(r, "alltoall", "fetch") /\ AllPublished(r) /\ UNCHANGED deploy
    BY <1>2 DEF FetchOffsets
  <2>2. CASE SizesAgree(r, Current(r))
    BY <1>2, <2>1, <2>2, RaggedStep DEF FetchOffsets
  <2>3. CASE ~SizesAgree(r, Current(r))
    BY <1>2, <2>1, <2>3, QuietRank DEF FetchOffsets, allToAllVars
  <2> QED BY <2>2, <2>3
<1>3. CASE ReceiveStripe(r) \/ SendStripe(r) \/ LookupTimesOut(r)
  <2>1. /\ ~Returned(r) /\ Current(r).op # "alltoall" /\ rank[r].step = "start"
        /\ UNCHANGED <<sequence, published, issued, deploy>> /\ NextStripe(r)
    BY <1>3 DEF ReceiveStripe, SendStripe, LookupTimesOut, At, Finished, allToAllVars
  <2>2. \/ Advance(r)
        \/ rank' = [rank EXCEPT ![r].stripe = @ + 1]
        \/ rank' = [rank EXCEPT ![r].stripe = 1, ![r].step = "join"]
    BY <2>1 DEF NextStripe
  <2> QED BY <2>1, <2>2, QuietRank
<1>4. CASE JoinStripe(r)
  <2>1. /\ ~Returned(r) /\ Current(r).op # "alltoall" /\ rank[r].step = "join"
        /\ UNCHANGED <<sequence, published, issued, deploy>>
    BY <1>4 DEF JoinStripe, At, Finished, allToAllVars
  <2>2. Raise(r) \/ Advance(r) \/ rank' = [rank EXCEPT ![r].stripe = @ + 1]
    BY <1>4 DEF JoinStripe
  <2> QED BY <2>1, <2>2, QuietRank
<1>5. CASE FetchTimesOut(r) \/ OperationFails(r)
  BY <1>5, QuietRank DEF FetchTimesOut, OperationFails, ReceiveFails,
         SendFails, PublishFails, Fails, allToAllVars
<1> QED BY <1>1, <1>2, <1>3, <1>4, <1>5 DEF RankStep

LEMMA StepAllToAllInv == IInv /\ AllToAllInv /\ [Next]_vars => AllToAllInv'
<1> SUFFICES ASSUME IInv, AllToAllInv, [Next]_vars PROVE AllToAllInv'
  OBVIOUS
<1>0. RankType
  BY DEF IInv
<1>1. ASSUME NEW r \in Ranks, RankStep(r) \/ OperationFails(r) PROVE AllToAllInv'
  BY <1>0, <1>1, RankStepKeepsAllToAll
<1>2. ASSUME NEW w \in Works, NEW j \in Tensors, Callback(w, j) PROVE AllToAllInv'
  BY <1>0, <1>2, AllToAllUnchanged DEF Callback, allToAllVars
<1>3. CASE UNCHANGED vars
  BY <1>0, <1>3, AllToAllUnchanged DEF vars, allToAllVars
<1>4. CASE Ended
  BY <1>3, <1>4 DEF Ended
<1> QED BY <1>1, <1>2, <1>3, <1>4 DEF Next

\* Faults are counted, up to the bound of the deployment.
FaultsBounded == faults \in 0..deploy.faults

LEMMA StepFaults ==
    ASSUME deploy \in Deployments, FaultsBounded, [Next]_vars
    PROVE  FaultsBounded' /\ faults <= faults'
<1>1. UNCHANGED faults \/ Fault
  BY DEF Next, RankStep, CallAllToAll, FetchOffsets, ReceiveStripe, SendStripe, JoinStripe,
         FetchTimesOut, LookupTimesOut, OperationFails, ReceiveFails,
         SendFails, PublishFails, Fails, Expires, Callback, Ended, vars
<1>2. deploy' = deploy /\ deploy.faults \in Nat
  BY DeployKept, DeploymentsAssumption
<1> QED BY <1>1, <1>2 DEF Fault, FaultsBounded

(***************************************************************************)
(* The theorems.                                                           *)
(***************************************************************************)

\* The variables of the process group keep their types: in particular the
\* sequence number of the uneven calls stays within the calls of a program,
\* and what is read from the store by then is a payload.
THEOREM ProcessGroupTypeCorrect == Spec => []TypeOK
<1>1. Init => FaultsBounded /\ CopiedType
  <2> SUFFICES ASSUME Init PROVE FaultsBounded /\ CopiedType
    OBVIOUS
  <2>1. faults = 0 /\ deploy.faults \in Nat
    BY DeploymentsAssumption DEF Init
  <2>2. CopiedType
    BY DEF Init, TransferInit, CopiedType
  <2> QED BY <2>1, <2>2 DEF FaultsBounded
<1>2. IInv /\ FaultsBounded /\ CopiedType /\ [Next]_vars => FaultsBounded' /\ CopiedType'
  BY StepFaults, StepCopied DEF IInv, RankType
<1>3. IInv /\ AllToAllInv /\ FaultsBounded /\ CopiedType => TypeOK
  BY DEF IInv, RankType, PostedType, WorkType, AllToAllInv, FaultsBounded, CopiedType,
         TypeOK, TransferTypeOK, Stripes
<1> QED BY <1>1, <1>2, <1>3, InitIInv, StepIInv, InitAllToAllInv, StepAllToAllInv, PTL DEF Spec

\* If all ranks take the same path in every all_to_all, the offsets a rank
\* reads under its sequence number are those of the same call of its peers,
\* however far the ranks are apart.
THEOREM OffsetsOfSameCall == Spec => [](PathsAgree => MeetsSameCall)
<1>1. AllToAllInv => (PathsAgree => MeetsSameCall)
  <2> SUFFICES ASSUME AllToAllInv, PathsAgree, NEW r \in Ranks, NEW i \in DOMAIN issued[r],
                      NEW p \in Ranks
      PROVE  issued[r][i].met[p] = issued[r][i].call
    BY DEF MeetsSameCall
  <2>1. issued[r] \in Seq(Collective) /\ LogInv(r) /\ SameNumbers
    BY DEF AllToAllInv, AllToAllTypeOK
  <2>2. i \in 1..Len(issued[r]) /\ issued[r][i] \in Collective
    BY <2>1
  <2>3. issued[r][i].call = i /\ issued[r][i].kind \in {"even", "ragged"}
    BY <2>1, <2>2 DEF LogInv, Collective
  <2>4. CASE issued[r][i].kind = "even"
    BY <2>1, <2>2, <2>3, <2>4 DEF LogInv
  <2>5. CASE issued[r][i].kind = "ragged"
    <3>1. PICK q \in 0..MaxCalls : Exchanged(r, i, q)
      BY <2>1, <2>2, <2>5 DEF LogInv
    <3>2. /\ q < sequence[p] /\ q < sequence[r]
          /\ issued[r][i].met[p] = published[q][p].call /\ published[q][r].call = i
      BY <3>1 DEF Exchanged
    <3>3. published[q][p].call = published[q][r].call
      BY <3>2, <2>1 DEF SameNumbers
    <3> QED BY <3>2, <3>3, <2>3
  <2> QED BY <2>3, <2>4, <2>5
<1> QED BY <1>1, InitIInv, StepIInv, InitAllToAllInv, StepAllToAllInv, PTL DEF Spec

\* The offsets at which the slices of call n land on rank d are the running
\* sums of the sizes that d receives.
LEMMA SlicesOfCall ==
    ASSUME RankType, AllToAllInv, PathsAgree, NEW n \in Operations, NEW d \in Ranks,
           \A r \in Ranks : n \in 1..Len(issued[r]) /\ issued[r][n].kind = "ragged"
    PROVE  \A r \in Ranks :
              /\ issued[r][n].to[d] = PrefixSum(issued[d][n].recv, r)
              /\ issued[r][n].send[d] = issued[d][n].recv[r]
<1>0. SameNumbers /\ LogInv(d) /\ PublishedInv(d)
  BY DEF AllToAllInv
<1>1. PICK q \in 0..MaxCalls : Exchanged(d, n, q)
  BY <1>0 DEF LogInv
<1>2. q < sequence[d] /\ published[q][d].call = n /\ published[q][d].recv = issued[d][n].recv
  BY <1>1 DEF Exchanged
<1>3. \A r \in Ranks : published[q][d].offsets[r] = PrefixSum(published[q][d].recv, r)
  <2>1. PICK k : PublishedCall(d, q, k, rank[d].pc)
    BY <1>0, <1>2 DEF PublishedInv
  <2>2. PICK m : published[q][d] = PayloadOf(Program(d)[m], k)
    BY <2>1 DEF PublishedCall
  <2> QED BY <2>2 DEF PayloadOf, LocalOutputOffsets
<1>4. ASSUME NEW r \in Ranks
      PROVE  /\ issued[r][n].to[d] = published[q][d].offsets[r]
             /\ issued[r][n].send[d] = published[q][d].recv[r]
  <2>1. LogInv(r)
    BY DEF AllToAllInv
  <2>2. PICK x \in 0..MaxCalls : Exchanged(r, n, x)
    BY <2>1 DEF LogInv
  <2>3. /\ x < sequence[d] /\ x < sequence[r] /\ published[x][r].call = n
        /\ issued[r][n].to[d] = published[x][d].offsets[r]
        /\ issued[r][n].send[d] = published[x][d].recv[r]
    BY <2>2 DEF Exchanged
  <2>4. published[x][d].call = n
    BY <2>3, <1>0 DEF SameNumbers
  <2>5. n \in Int /\ x \in Int /\ q \in Int
    BY GroupAssumption DEF Operations
  <2>6. ~(x < q) /\ ~(q < x)
    BY <2>3, <2>4, <2>5, <1>0, <1>2 DEF PublishedInv
  <2>7. x = q
    BY <2>5, <2>6
  <2> QED BY <2>3, <2>7
<1> QED BY <1>2, <1>3, <1>4

\* If all ranks take the same path in every all_to_all, the slices of an uneven
\* call fill the output of each rank without a gap or an overlap, for any
\* number of ranks and any sizes.
THEOREM SlicesFillOutputs == Spec => [](PathsAgree => SlicesTile)
<1>1. IInv /\ AllToAllInv => (PathsAgree => SlicesTile)
  <2> SUFFICES ASSUME IInv, AllToAllInv, PathsAgree, NEW n \in Operations,
                      \A r \in Ranks : \E i \in DOMAIN issued[r] :
                          issued[r][i].call = n /\ issued[r][i].kind = "ragged"
      PROVE  LET its(r) == CHOOSE i \in DOMAIN issued[r] : issued[r][i].call = n
                 c == [r \in Ranks |-> issued[r][its(r)]]
             IN  \A d \in Ranks :
                    /\ c[0].to[d] = 0
                    /\ \A s \in Ranks \ {0} : c[s].to[d] = c[s - 1].to[d] + c[s - 1].send[d]
                    /\ c[NumRanks - 1].to[d] + c[NumRanks - 1].send[d] = Total(c[d].recv)
    BY DEF SlicesTile
  <2> DEFINE its(r) == CHOOSE i \in DOMAIN issued[r] : issued[r][i].call = n
             c == [r \in Ranks |-> issued[r][its(r)]]
  <2>1. ASSUME NEW r \in Ranks
        PROVE  its(r) = n /\ n \in 1..Len(issued[r]) /\ issued[r][n].kind = "ragged"
    <3>1. issued[r] \in Seq(Collective) /\ LogInv(r)
      BY DEF AllToAllInv, AllToAllTypeOK
    <3>2. DOMAIN issued[r] = 1..Len(issued[r])
      BY <3>1
    <3>3. \A i \in DOMAIN issued[r] : issued[r][i].call = i
      BY <3>1, <3>2 DEF LogInv
    <3>4. n \in DOMAIN issued[r] /\ issued[r][n].kind = "ragged"
      BY <3>3
    <3> QED BY <3>2, <3>3, <3>4
  <2>2. \A r \in Ranks : c[r] = issued[r][n]
    BY <2>1
  <2> HIDE DEF c
  <2> SUFFICES ASSUME NEW d \in Ranks
      PROVE  /\ c[0].to[d] = 0
             /\ \A s \in Ranks \ {0} : c[s].to[d] = c[s - 1].to[d] + c[s - 1].send[d]
             /\ c[NumRanks - 1].to[d] + c[NumRanks - 1].send[d] = Total(c[d].recv)
    BY DEF c
  <2> DEFINE recv == issued[d][n].recv
  <2>3. \A r \in Ranks : c[r].to[d] = PrefixSum(recv, r) /\ c[r].send[d] = recv[r]
    BY <2>1, <2>2, SlicesOfCall DEF IInv
  <2> HIDE DEF recv
  <2>4. /\ PrefixSum(recv, 0) = 0
        /\ \A r \in Nat : PrefixSum(recv, r + 1) = PrefixSum(recv, r) + recv[r]
    BY PrefixSumSteps
  <2>5. /\ NumRanks \in Nat \ {0, 1} /\ 0 \in Ranks /\ NumRanks - 1 \in Ranks
        /\ \A s \in Ranks \ {0} : s - 1 \in Ranks /\ s - 1 \in Nat /\ (s - 1) + 1 = s
        /\ NumRanks - 1 \in Nat /\ (NumRanks - 1) + 1 = NumRanks
    BY GroupAssumption DEF Ranks
  <2>6. c[0].to[d] = 0
    BY <2>3, <2>4, <2>5
  <2>7. ASSUME NEW s \in Ranks \ {0}
        PROVE  c[s].to[d] = c[s - 1].to[d] + c[s - 1].send[d]
    <3>1. PrefixSum(recv, (s - 1) + 1) = PrefixSum(recv, s - 1) + recv[s - 1]
      BY <2>4, <2>5
    <3> QED BY <3>1, <2>3, <2>5
  <2>8. c[NumRanks - 1].to[d] + c[NumRanks - 1].send[d] = Total(c[d].recv)
    <3>1. PrefixSum(recv, (NumRanks - 1) + 1) = PrefixSum(recv, NumRanks - 1) + recv[NumRanks - 1]
      BY <2>4, <2>5
    <3>2. Total(c[d].recv) = PrefixSum(recv, NumRanks)
      BY <2>2 DEF Total, recv
    <3> QED BY <3>1, <3>2, <2>3, <2>5
  <2> QED BY <2>6, <2>7, <2>8
<1> QED BY <1>1, InitIInv, StepIInv, InitAllToAllInv, StepAllToAllInv, PTL DEF Spec

(***************************************************************************)
(* Programs of all_to_all calls end without an exception.                  *)
(***************************************************************************)

\* The ranks call nothing but all_to_all.
OnlyAllToAll == \A r \in Ranks : \A n \in DOMAIN Program(r) : Program(r)[n].op = "alltoall"

\* A rank goes no further than the end of its program.
WithinProgram == \A r \in Ranks : rank[r].pc <= Len(Program(r)) + 1

NoneRaised == \A r \in Ranks : rank[r].step # "raised"

LEMMA StepWithinProgram ==
    ASSUME RankType, WithinProgram, [Next]_vars
    PROVE  WithinProgram'
<1>0. /\ rank \in [Ranks -> [pc: 1..(MaxCalls + 1), stripe: Stripes, step: Steps]]
      /\ \A r \in Ranks : Len(Program(r)) \in Nat /\ Program(r)' = Program(r)
  <2>1. \A r \in Ranks : Len(Program(r)) \in Nat
    BY ProgramType
  <2> QED BY <2>1, DeployKept DEF RankType, Program
<1>1. ASSUME NEW r \in Ranks, rank[r].pc <= Len(Program(r)),
             rank'[r].pc \in {rank[r].pc, rank[r].pc + 1},
             \A p \in Ranks \ {r} : rank'[p] = rank[p]
      PROVE  WithinProgram'
  BY <1>0, <1>1 DEF WithinProgram
<1>2. ASSUME NEW r \in Ranks, RankStep(r) \/ OperationFails(r) PROVE WithinProgram'
  <2>1. ~Returned(r)
    BY <1>2 DEF RankStep, CallAllToAll, FetchOffsets, ReceiveStripe, SendStripe, JoinStripe,
                FetchTimesOut, LookupTimesOut, OperationFails, ReceiveFails,
         SendFails, PublishFails, Fails, At, Finished
  <2>2. rank[r].pc <= Len(Program(r))
    BY <2>1, <1>0 DEF Returned, Program
  <2>3. \/ Advance(r) \/ Raise(r) \/ rank' = [rank EXCEPT ![r].step = "fetch"]
        \/ rank' = [rank EXCEPT ![r].stripe = @ + 1]
        \/ rank' = [rank EXCEPT ![r].stripe = 1, ![r].step = "join"]
    BY <1>2 DEF RankStep, CallAllToAll, FetchOffsets, ReceiveStripe, SendStripe, JoinStripe,
                FetchTimesOut, LookupTimesOut, OperationFails, ReceiveFails,
         SendFails, PublishFails, Fails, NextStripe
  <2>4. /\ rank'[r].pc \in {rank[r].pc, rank[r].pc + 1}
        /\ \A p \in Ranks \ {r} : rank'[p] = rank[p]
    BY <2>3, <1>0 DEF Advance, Raise
  <2> QED BY <2>2, <2>4, <1>1
<1>3. CASE UNCHANGED rank
  BY <1>0, <1>3 DEF WithinProgram
<1>4. UNCHANGED rank \/ \E r \in Ranks : RankStep(r) \/ OperationFails(r)
  BY DEF Next, Callback, Ended, vars
<1> QED BY <1>2, <1>3, <1>4

\* An even call is accepted, for it sends what it receives.
LEMMA EvenAccepted ==
    ASSUME RankType, CallsMatch, NEW r \in Ranks, ~Returned(r), Current(r).op = "alltoall",
           TakesEvenPath(Current(r))
    PROVE  EvenCallAccepted(Current(r))
<1> DEFINE c == Current(r)
<1>1. c \in Operation /\ rank[r].pc \in Operations
  BY CurrentOperation
<1>2. SameCall(r, rank[r].pc, r, rank[r].pc)
  <2>1. Program(r) \in Seq(Operation) /\ rank[r].pc \in 1..(MaxCalls + 1) /\ MaxCalls \in Nat
    BY ProgramType
  <2>2. rank[r].pc \in DOMAIN Program(r)
    BY <2>1 DEF Returned, Program
  <2> QED BY <2>2 DEF SameCall, Program, Current
<1>3. c.recv[r] = c.send[r]
  BY <1>1, <1>2 DEF CallsMatch, Current
<1>4. c.send \in Sizes /\ c.recv \in Sizes
  BY <1>1 DEF Operation
<1>5. \A p \in Ranks : c.send[p] = c.send[r] /\ c.recv[p] = c.recv[r]
  BY DEF TakesEvenPath, IsEqualSplits
<1>6. c.send = c.recv
  BY <1>3, <1>4, <1>5 DEF Sizes
<1> QED BY <1>6 DEF EvenCallAccepted

\* What the peers published fits to the call.
LEMMA SizesDoAgree ==
    ASSUME RankType, AllToAllInv, PathsAgree, CallsMatch, NEW r \in Ranks,
           At(r, "alltoall", "fetch"), AllPublished(r)
    PROVE  SizesAgree(r, Current(r))
<1>0. /\ AllToAllTypeOK /\ SameNumbers /\ LogInv(r) /\ PublishedInv(r)
      /\ ~Returned(r) /\ Current(r).op = "alltoall" /\ rank[r].step = "fetch"
  BY DEF AllToAllInv, At, Finished
<1> DEFINE k == Len(issued[r]) + 1
           s == sequence[r] - 1
<1>1. issued[r] \in Seq(Collective) /\ sequence[r] \in 0..MaxCalls /\ MaxCalls \in Nat
  BY <1>0, GroupAssumption DEF AllToAllTypeOK
<1>2. IsCall(r, rank[r].pc, k) /\ Program(r)[rank[r].pc] = Current(r)
  BY <1>0, <1>1, CurrentCall
<1>3. sequence[r] > 0 /\ published[s][r].call = k
  BY <1>0 DEF PublishedInv
<1>4. s \in 0..MaxCalls /\ s < sequence[r]
  BY <1>1, <1>3
<1>5. ASSUME NEW p \in Ranks
      PROVE  /\ Peers(r)[p].input = Total(Current(r).send)
             /\ Peers(r)[p].output = Total(Current(r).recv)
             /\ Peers(r)[p].recv[r] = Current(r).send[p]
  <2>1. PublishedInv(p) /\ published[s][p] # Absent
    BY DEF AllToAllInv, AllPublished, Peers
  <2>2. s < sequence[p]
    BY <2>1, <1>4 DEF PublishedInv
  <2>3. PICK j : PublishedCall(p, s, j, rank[p].pc)
    BY <2>1, <2>2, <1>4 DEF PublishedInv
  <2>4. j = k
    <3>1. published[s][p].call = k
      BY <2>2, <1>0, <1>3, <1>4 DEF SameNumbers
    <3> QED BY <3>1, <2>3, PublishedCallType
  <2>5. PICK m : IsCall(p, m, k) /\ published[s][p] = PayloadOf(Program(p)[m], k)
    BY <2>3, <2>4 DEF PublishedCall
  <2>6. /\ m \in Operations /\ rank[r].pc \in Operations /\ SameCall(r, rank[r].pc, p, m)
        /\ m \in Nat
    <3>1. /\ Program(p) \in Seq(Operation) /\ Len(Program(p)) \in 0..MaxCalls
          /\ Program(r) \in Seq(Operation) /\ Len(Program(r)) \in 0..MaxCalls
      BY ProgramType
    <3> QED BY <3>1, <2>5, <1>1, <1>2 DEF IsCall, SameCall, Operations, Program
  <2>7. /\ Program(p)[m].recv[r] = Current(r).send[p]
        /\ Total(Current(r).send) = Total(Program(p)[m].send)
        /\ Total(Current(r).recv) = Total(Program(p)[m].recv)
    <3>1. /\ Program(p)[m].recv[r] = Program(r)[rank[r].pc].send[p]
          /\ Total(Program(r)[rank[r].pc].send) = Total(Program(p)[m].send)
          /\ Total(Program(r)[rank[r].pc].recv) = Total(Program(p)[m].recv)
      <4> DEFINE a == deploy.program[r][rank[r].pc]
                 b == deploy.program[p][m]
      <4>1. b.recv[r] = a.send[p] /\ Total(a.send) = Total(b.send) /\ Total(a.recv) = Total(b.recv)
        <5>1. \A i, l \in Operations : SameCall(r, i, p, l) =>
                 /\ deploy.program[p][l].recv[r] = deploy.program[r][i].send[p]
                 /\ Total(deploy.program[r][i].send) = Total(deploy.program[p][l].send)
                 /\ Total(deploy.program[r][i].recv) = Total(deploy.program[p][l].recv)
          BY DEF CallsMatch
        <5> QED BY <5>1, <2>6
      <4>2. a = Program(r)[rank[r].pc] /\ b = Program(p)[m]
        BY DEF Program
      <4> QED BY <4>1, <4>2, Zenon
    <3> QED BY <3>1, <1>2
  <2> QED BY <2>5, <2>7 DEF Peers, PayloadOf
<1> QED BY <1>5 DEF SizesAgree

\* How many collectives a rank issues.
LEMMA CallsLeft ==
    ASSUME RankType, AllToAllInv, WithinProgram, NEW r \in Ranks
    PROVE  /\ Returned(r) => Len(issued[r]) = NumCalls(r)
           /\ ~Returned(r) /\ Current(r).op = "alltoall" => Len(issued[r]) < NumCalls(r)
<1>0. LogInv(r) /\ issued[r] \in Seq(Collective)
  BY DEF AllToAllInv, AllToAllTypeOK
<1>1. /\ Program(r) \in Seq(Operation) /\ Len(Program(r)) \in Nat
      /\ rank[r].pc \in 1..(MaxCalls + 1) /\ MaxCalls \in Nat
  BY ProgramType
<1>2. ASSUME Returned(r) PROVE Len(issued[r]) = NumCalls(r)
  <2>1. rank[r].pc - 1 = Len(Program(r))
    BY <1>1, <1>2 DEF Returned, WithinProgram, Program
  <2> QED BY <2>1, <1>0 DEF LogInv, NumCalls, Program
<1>3. ASSUME ~Returned(r), Current(r).op = "alltoall" PROVE Len(issued[r]) < NumCalls(r)
  <2> DEFINE n == rank[r].pc
             L == Len(Program(r))
             C(i) == {x \in 1..i : deploy.program[r][x].op = "alltoall"}
  <2>1. IsCall(r, n, Len(issued[r]) + 1)
    BY <1>0, <1>3, CurrentCall
  <2>2. n \in 1..L
    BY <2>1 DEF IsCall
  <2>3. C(n) \in SUBSET C(L) /\ C(L) \in SUBSET (1..L)
    <3>1. L \in Nat /\ n \in Nat /\ n <= L
      BY <1>1, <2>2
    <3> HIDE DEF n, L
    <3> QED BY <3>1
  <2>4. IsFiniteSet(1..L)
    BY <1>1, FS_Interval
  <2>5. Cardinality(C(n)) = Len(issued[r]) + 1 /\ Cardinality(C(L)) = NumCalls(r)
    BY <2>1 DEF IsCall, CallsUpTo, NumCalls, Program
  <2> HIDE DEF C
  <2>6. IsFiniteSet(C(L))
    BY <2>3, <2>4, FS_Subset
  <2>7. Cardinality(C(n)) <= Cardinality(C(L)) /\ Cardinality(C(L)) \in Nat
    BY <2>3, <2>6, FS_Subset, FS_CardinalityType
  <2> QED BY <2>5, <2>7, <1>0
<1> QED BY <1>2, <1>3

\* A rank that waits for the offsets of a call, and its number.
LEMMA WaitingRank ==
    ASSUME RankType, AllToAllInv, NEW r \in Ranks, At(r, "alltoall", "fetch")
    PROVE  /\ LogInv(r) /\ PublishedInv(r) /\ issued[r] \in Seq(Collective)
           /\ sequence[r] \in 1..MaxCalls /\ sequence[r] - 1 \in 0..MaxCalls
           /\ published[sequence[r] - 1][r].call = Len(issued[r]) + 1
           /\ ~TakesEvenPath(Current(r)) /\ Program(r)[rank[r].pc] = Current(r)
           /\ IsCall(r, rank[r].pc, Len(issued[r]) + 1)
<1>0. /\ LogInv(r) /\ PublishedInv(r) /\ issued[r] \in Seq(Collective)
      /\ sequence[r] \in 0..MaxCalls /\ MaxCalls \in Nat
      /\ ~Returned(r) /\ Current(r).op = "alltoall" /\ rank[r].step = "fetch"
  BY GroupAssumption DEF AllToAllInv, AllToAllTypeOK, At, Finished
<1>1. /\ ~TakesEvenPath(Current(r)) /\ sequence[r] > 0
      /\ published[sequence[r] - 1][r].call = Len(issued[r]) + 1
  BY <1>0 DEF PublishedInv
<1>2. IsCall(r, rank[r].pc, Len(issued[r]) + 1) /\ Program(r)[rank[r].pc] = Current(r)
  BY <1>0, CurrentCall
<1> QED BY <1>0, <1>1, <1>2

\* A rank that is no further than the one whose key is missing has already
\* published it.
LEMMA KeyIsMissing ==
    ASSUME RankType, AllToAllInv, PathsAgree, NEW t \in Ranks, NEW p \in Ranks,
           At(t, "alltoall", "fetch"), published[sequence[t] - 1][p] = Absent
    PROVE  /\ Len(issued[p]) <= Len(issued[t])
           /\ At(p, "alltoall", "fetch") => Len(issued[p]) # Len(issued[t])
<1> DEFINE k == Len(issued[t]) + 1
           s == sequence[t] - 1
<1>0. /\ SameNumbers /\ LogInv(p) /\ PublishedInv(p) /\ issued[p] \in Seq(Collective)
      /\ sequence[p] \in 0..MaxCalls /\ MaxCalls \in Nat
  BY GroupAssumption DEF AllToAllInv, AllToAllTypeOK
<1>1. /\ PublishedInv(t) /\ sequence[t] \in 1..MaxCalls /\ s \in 0..MaxCalls /\ k \in Nat
      /\ published[s][t].call = k /\ ~TakesEvenPath(Current(t))
      /\ Program(t)[rank[t].pc] = Current(t) /\ IsCall(t, rank[t].pc, k)
  BY WaitingRank
<1>2. sequence[p] <= s
  <2> SUFFICES ASSUME s < sequence[p] PROVE FALSE
    BY <1>0, <1>1
  <2>1. PICK j : PublishedCall(p, s, j, rank[p].pc)
    BY <1>0, <1>1 DEF PublishedInv
  <2> QED BY <2>1, PublishedCallType
<1>3. ASSUME NEW q \in 0..MaxCalls, q < sequence[p], published[q][p].call = k PROVE FALSE
  <2>1. q < s /\ s < sequence[t] /\ q < sequence[t]
    BY <1>0, <1>1, <1>2, <1>3
  <2>2. published[q][t].call = k
    BY <2>1, <1>0, <1>3 DEF SameNumbers
  <2>3. published[q][t].call < published[s][t].call
    BY <2>1, <1>1 DEF PublishedInv
  <2> QED BY <2>2, <2>3, <1>1
<1>4. ASSUME k <= Len(issued[p]) PROVE FALSE
  <2>1. k \in 1..Len(issued[p])
    BY <1>0, <1>1, <1>4
  <2>2. PICK o \in 1..(rank[p].pc - 1) :
           /\ IsCall(p, o, k)
           /\ issued[p][k].kind = IF TakesEvenPath(Program(p)[o]) THEN "even" ELSE "ragged"
    BY <2>1, <1>0 DEF LogInv
  <2>3. issued[p][k].kind = "ragged"
    BY <2>2, <1>1, PathOfCall
  <2>4. PICK q \in 0..MaxCalls : Exchanged(p, k, q)
    BY <2>1, <2>3, <1>0 DEF LogInv
  <2>5. q < sequence[p] /\ published[q][p].call = k
    BY <2>4 DEF Exchanged
  <2> QED BY <2>5, <1>3
<1>5. ASSUME At(p, "alltoall", "fetch"), Len(issued[p]) = Len(issued[t]) PROVE FALSE
  <2>1. /\ sequence[p] \in 1..MaxCalls /\ sequence[p] - 1 \in 0..MaxCalls
        /\ published[sequence[p] - 1][p].call = k
    BY <1>5, WaitingRank
  <2>2. sequence[p] - 1 < sequence[p]
    BY <2>1
  <2> QED BY <2>1, <2>2, <1>3
<1>6. Len(issued[p]) \in Nat /\ Len(issued[t]) \in Int
  BY <1>0, <1>1
<1> QED BY <1>1, <1>4, <1>5, <1>6

\* While a rank waits for offsets, some rank can go on: the one that has
\* issued least waits for nobody.
LEMMA SomebodyMoves ==
    ASSUME RankType, AllToAllInv, WithinProgram, PathsAgree, CallsMatch, OnlyAllToAll, NoneRaised,
           NEW r \in Ranks, At(r, "alltoall", "fetch")
    PROVE  ~NobodyMoves
<1> SUFFICES ASSUME NobodyMoves PROVE FALSE
  OBVIOUS
<1> DEFINE T == {Len(issued[p]) : p \in Ranks}
<1>0. \A p \in Ranks : Len(issued[p]) \in Nat
  <2>1. \A p \in Ranks : issued[p] \in Seq(Collective)
    BY DEF AllToAllInv, AllToAllTypeOK
  <2> QED BY <2>1
<1>1. PICK l \in T : \A m \in T : l <= m
  <2>1. T \in SUBSET Nat /\ T # {}
    BY <1>0
  <2> HIDE DEF T
  <2> QED BY <2>1, LeastNatural
<1>2. PICK t \in Ranks : \A p \in Ranks : Len(issued[t]) <= Len(issued[p])
  BY <1>1
<1> HIDE DEF T
<1>3. ASSUME NEW p \in Ranks
      PROVE  \/ Returned(p)
             \/ At(p, "alltoall", "fetch") /\ ~AllPublished(p)
  <2>1. Finished(p) \/ AwaitsStore(p)
    BY DEF NobodyMoves
  <2>2. ASSUME At(p, "send", "start") PROVE FALSE
    <3>1. ~Returned(p) /\ Current(p).op = "send"
      BY <2>2 DEF At, Finished
    <3>2. /\ Program(p) \in Seq(Operation) /\ rank[p].pc \in 1..(MaxCalls + 1)
          /\ MaxCalls \in Nat
      BY ProgramType
    <3>3. rank[p].pc \in DOMAIN Program(p)
      BY <3>1, <3>2 DEF Returned, Program
    <3> QED BY <3>1, <3>3 DEF OnlyAllToAll, Current, Program
  <2> QED BY <2>1, <2>2 DEF AwaitsStore, Finished, NoneRaised
<1>4. ASSUME NEW p \in Ranks, Len(issued[p]) <= Len(issued[r])
      PROVE  At(p, "alltoall", "fetch") /\ ~AllPublished(p)
  <2>1. Len(issued[r]) < NumCalls(r)
    BY CallsLeft DEF At, Finished
  <2>2. NumCalls(p) = NumCalls(r)
    BY DEF CallsMatch
  <2>3. ~Returned(p)
    <3> SUFFICES ASSUME Returned(p) PROVE FALSE
      OBVIOUS
    <3>1. Len(issued[p]) = NumCalls(p)
      BY CallsLeft
    <3> QED BY <3>1, <2>1, <2>2, <1>0, <1>4
  <2> QED BY <2>3, <1>3
<1>5. At(t, "alltoall", "fetch") /\ ~AllPublished(t)
  BY <1>2, <1>4
<1>6. PICK p \in Ranks : published[sequence[t] - 1][p] = Absent
  BY <1>5 DEF AllPublished, Peers
<1>7. /\ Len(issued[p]) <= Len(issued[t])
      /\ At(p, "alltoall", "fetch") => Len(issued[p]) # Len(issued[t])
  BY <1>5, <1>6, KeyIsMissing
<1>8. Len(issued[p]) <= Len(issued[r]) /\ Len(issued[p]) = Len(issued[t])
  BY <1>0, <1>2, <1>7
<1> QED BY <1>4, <1>7, <1>8

SafePrograms == OnlyAllToAll /\ PathsAgree /\ CallsMatch

\* Without a fault no rank of matching programs raises.
LEMMA StepNoneRaised ==
    ASSUME RankType, AllToAllInv, WithinProgram, FaultsBounded, SafePrograms, NoneRaised,
           [Next]_vars, faults' = 0
    PROVE  NoneRaised'
<1>0. /\ rank \in [Ranks -> [pc: 1..(MaxCalls + 1), stripe: Stripes, step: Steps]]
      /\ deploy \in Deployments
  BY DEF RankType
<1>1. faults = 0
  <2>1. faults <= faults' /\ deploy.faults \in Nat
    BY <1>0, StepFaults, DeploymentsAssumption
  <2> QED BY <2>1 DEF FaultsBounded
<1>2. ~Fault
  BY <1>1 DEF Fault
<1>3. ASSUME NEW r \in Ranks,
             rank'[r].step # "raised", \A p \in Ranks \ {r} : rank'[p] = rank[p]
      PROVE  NoneRaised'
  BY <1>3 DEF NoneRaised
<1>4. ASSUME NEW r \in Ranks, Advance(r) \/ rank' = [rank EXCEPT ![r].step = "fetch"]
      PROVE  NoneRaised'
  <2>1. rank'[r].step # "raised" /\ \A p \in Ranks \ {r} : rank'[p] = rank[p]
    BY <1>0, <1>4 DEF Advance
  <2> QED BY <2>1, <1>3
<1>5. ASSUME NEW r \in Ranks, At(r, "send", "start") \/ At(r, "recv", "start") \/ At(r, "send", "join")
      PROVE  FALSE
  <2>1. ~Returned(r) /\ Current(r).op # "alltoall"
    BY <1>5 DEF At, Finished
  <2>2. Program(r) \in Seq(Operation) /\ rank[r].pc \in 1..(MaxCalls + 1) /\ MaxCalls \in Nat
    BY ProgramType
  <2>3. rank[r].pc \in DOMAIN Program(r)
    BY <2>1, <2>2 DEF Returned, Program
  <2> QED BY <2>1, <2>3 DEF SafePrograms, OnlyAllToAll, Current, Program
<1>6. ASSUME NEW r \in Ranks, RankStep(r) PROVE NoneRaised'
  <2>1. CASE CallAllToAll(r)
    <3>1. ~Returned(r) /\ Current(r).op = "alltoall"
      BY <2>1 DEF CallAllToAll, At, Finished
    <3>2. TakesEvenPath(Current(r)) => EvenCallAccepted(Current(r))
      BY <3>1, EvenAccepted DEF SafePrograms
    <3> QED BY <2>1, <3>2, <1>4 DEF CallAllToAll
  <2>2. CASE FetchOffsets(r)
    <3>1. At(r, "alltoall", "fetch") /\ AllPublished(r)
      BY <2>2 DEF FetchOffsets
    <3>2. SizesAgree(r, Current(r))
      BY <3>1, SizesDoAgree DEF SafePrograms
    <3> QED BY <2>2, <3>2, <1>4 DEF FetchOffsets
  <2>3. CASE FetchTimesOut(r)
    <3>1. At(r, "alltoall", "fetch") /\ NobodyMoves
      BY <2>3, <1>2 DEF FetchTimesOut, Expires
    <3> QED BY <3>1, SomebodyMoves DEF SafePrograms
  <2>4. CASE ReceiveStripe(r) \/ SendStripe(r) \/ JoinStripe(r) \/ LookupTimesOut(r)
    BY <2>4, <1>5 DEF ReceiveStripe, SendStripe, JoinStripe, LookupTimesOut
  <2> QED BY <2>1, <2>2, <2>3, <2>4, <1>6 DEF RankStep
<1>7. ASSUME NEW r \in Ranks, OperationFails(r) PROVE NoneRaised'
  BY <1>2, <1>7 DEF OperationFails, ReceiveFails,
         SendFails, PublishFails, Fails
<1>8. CASE UNCHANGED rank
  BY <1>8 DEF NoneRaised
<1>9. \/ UNCHANGED rank \/ \E r \in Ranks : RankStep(r) \/ OperationFails(r)
  BY DEF Next, Callback, Ended, vars
<1> QED BY <1>6, <1>7, <1>8, <1>9

\* Programs of all_to_all calls whose sizes fit together, and in which all
\* ranks take the same path, raise no exception unless something fails: no
\* check of sizes refuses them and no rank waits for a key that never comes.
THEOREM MatchedAllToAllSucceeds == Spec => [](OnlyAllToAll /\ PathsAgree => MatchedCallsSucceed)
<1> DEFINE Safe == SafePrograms /\ faults = 0 => NoneRaised
           Inv == WithinProgram /\ FaultsBounded /\ Safe
<1>1. Init => Inv
  <2> SUFFICES ASSUME Init PROVE Inv
    OBVIOUS
  <2>1. /\ \A r \in Ranks : rank[r].pc = 1 /\ rank[r].step = "start"
        /\ deploy \in Deployments /\ faults = 0
    BY DEF Init
  <2>2. deploy.faults \in Nat /\ \A r \in Ranks : Program(r) \in Seq(Operation)
    BY <2>1, DeploymentsAssumption DEF Program
  <2>3. \A r \in Ranks : Len(Program(r)) \in Nat
    BY <2>2
  <2>4. WithinProgram
    BY <2>1, <2>3 DEF WithinProgram
  <2> QED BY <2>1, <2>2, <2>4 DEF FaultsBounded, NoneRaised
<1>2. IInv /\ AllToAllInv /\ Inv /\ [Next]_vars => Inv'
  <2> SUFFICES ASSUME IInv, AllToAllInv, Inv, [Next]_vars PROVE Inv'
    OBVIOUS
  <2>1. RankType /\ deploy \in Deployments /\ UNCHANGED deploy
    BY DeployKept DEF IInv, RankType
  <2>2. WithinProgram' /\ FaultsBounded' /\ faults <= faults'
    BY <2>1, StepWithinProgram, StepFaults
  <2>3. SafePrograms' <=> SafePrograms
    <3>1. OnlyAllToAll' <=> OnlyAllToAll
      BY <2>1 DEF OnlyAllToAll, Program
    <3>2. CallsMatch' <=> CallsMatch
      BY <2>1 DEF CallsMatch, NumCalls, SameCall, CallsUpTo
    <3> QED BY <2>1, <3>1, <3>2, DeployedCalls DEF SafePrograms
  <2>4. faults' = 0 => faults = 0
    <3>1. deploy.faults \in Nat
      BY <2>1, DeploymentsAssumption
    <3> QED BY <3>1, <2>2 DEF FaultsBounded
  <2>5. ASSUME SafePrograms', faults' = 0 PROVE NoneRaised'
    BY <2>1, <2>3, <2>4, <2>5, StepNoneRaised
  <2> QED BY <2>2, <2>5
<1>3. Inv => (OnlyAllToAll /\ PathsAgree => MatchedCallsSucceed)
  BY DEF SafePrograms, MatchedCallsSucceed, NoneRaised
<1> HIDE DEF Inv
<1> QED BY <1>1, <1>2, <1>3, InitIInv, StepIInv, InitAllToAllInv, StepAllToAllInv, PTL DEF Spec
=============================================================================
