--------------------------- MODULE HandshakeProofs --------------------------
(***************************************************************************)
(* Proofs about CollectiveHandshake, for any number of ranks, any regions  *)
(* and any workloads.                                                      *)
(*                                                                         *)
(* Why requests of one round start at the same collective: the requests of *)
(* a rank are contiguous (each starts where the one before it ended), and  *)
(* whenever the consensus loop is between rounds the last request it took  *)
(* of every rank ended at target.  Served says how far the loop is on the  *)
(* way back to such a state, Contiguous is about the requests.             *)
(***************************************************************************)
EXTENDS CollectiveHandshake, SequenceTheorems, TLAPS

\* Where the n-th request of rank r ends.
End(r, n) == IF n = 0 THEN 0 ELSE CountAfter(sent[r][n])

\* A rank that waits for an answer is at a region of its program.
InProgram == \A r \in Ranks : pc[r] = "waiting" => next[r] <= Len(program[r])

Contiguous ==
    \A r \in Ranks :
        /\ \A i \in 1..Len(sent[r]) : sent[r][i].before = End(r, i - 1)
        /\ CountAfter(count[r]) = End(r, Len(sent[r]))

\* Rank r owes the loop a request / the loop owes rank r an answer, and what
\* it took of r before ended at n.
Idle(r, n) == Len(answers[r]) = taken[r] /\ End(r, taken[r]) = n
Held(r, n) == /\ taken[r] > 0
              /\ Len(answers[r]) = taken[r] - 1
              /\ End(r, taken[r] - 1) = n

Served ==
    /\ phase = "first" => \A r \in Ranks : Idle(r, target)
    /\ phase = "gather" =>
          \A r \in Ranks : IF r \in todo THEN Idle(r, target) ELSE Held(r, target)
    /\ phase = "exhaust" =>
          \A r \in Ranks :
              /\ local[r] <= target
              /\ r \in todo => local[r] < target
              /\ IF r \in Behind(local, target) \ todo THEN Held(r, local[r])
                 ELSE Idle(r, local[r])

Inv == TypeOK /\ InProgram /\ Contiguous /\ Served

-----------------------------------------------------------------------------
(* The pieces of a step. *)

\* The cursors of a rank's channels are in order.
LEMMA Cursors ==
    ASSUME TypeOK, NEW s \in Ranks
    PROVE  /\ taken[s] \in Nat /\ arrived[s] \in Nat /\ read[s] \in Nat
           /\ Len(sent[s]) \in Nat /\ Len(answers[s]) \in Nat
           /\ taken[s] <= arrived[s] /\ arrived[s] <= Len(sent[s])
           /\ read[s] <= Len(answers[s]) /\ Len(answers[s]) <= taken[s]
           /\ taken[s] \in 0..Len(sent[s])
  <1>1. taken[s] \in Nat /\ arrived[s] \in Nat /\ read[s] \in Nat
    BY DEF TypeOK
  <1>2. Len(sent[s]) \in Nat /\ Len(answers[s]) \in Nat
    BY DEF TypeOK
  <1>3. /\ taken[s] <= arrived[s] /\ arrived[s] <= Len(sent[s])
        /\ read[s] <= Len(answers[s]) /\ Len(answers[s]) <= taken[s]
    BY DEF TypeOK
  <1> QED BY <1>1, <1>2, <1>3

LEMMA InitInv == Init => Inv
  <1> SUFFICES ASSUME Init PROVE Inv
    OBVIOUS
  <1> USE DEF Init
  <1>1. program \in [Ranks -> Seq(Executables)]
    BY WorkloadAssumption
  <1>2. TypeOK
    BY <1>1 DEF TypeOK, Requests, Collectives
  <1>3. InProgram
    BY DEF InProgram
  <1>4. Contiguous
    BY DEF Contiguous, End, CountAfter
  <1>5. Served
    BY DEF Served, Idle, End
  <1> QED BY <1>2, <1>3, <1>4, <1>5 DEF Inv

\* Running a region keeps the history and the program counter well typed.
LEMMA IssueType ==
    ASSUME TypeOK, NEW r \in Ranks, NEW joint \in BOOLEAN,
           next[r] <= Len(program[r]), Issue(r, joint)
    PROVE  /\ Region(r) \in Executables
           /\ issued' \in [Ranks -> Seq(Collectives)]
           /\ next' \in [Ranks -> Nat \ {0}]
  <1> DEFINE x == Region(r)
             batch == [i \in 1..NumCollectives[x] |->
                  [exe |-> x, start |-> Len(issued[r]), joint |-> joint]]
  <1>1. program[r] \in Seq(Executables) /\ next[r] \in 1..Len(program[r])
    BY DEF TypeOK
  <1>2. x \in Executables
    BY <1>1 DEF Region
  <1>3. NumCollectives[x] \in Nat
    BY <1>2, ExecutableAssumption
  <1>4. issued[r] \in Seq(Collectives) /\ Len(issued[r]) \in Nat
    BY DEF TypeOK
  <1>5. [exe |-> x, start |-> Len(issued[r]), joint |-> joint] \in Collectives
    BY <1>2, <1>4 DEF Collectives
  <1>6. batch \in Seq(Collectives)
    BY <1>3, <1>5
  <1>7. issued[r] \o batch \in Seq(Collectives)
    BY <1>4, <1>6
  <1>8. issued' = [issued EXCEPT ![r] = issued[r] \o batch]
    BY DEF Issue
  <1>9. issued' \in [Ranks -> Seq(Collectives)]
    <2> HIDE DEF batch
    <2> QED BY <1>7, <1>8 DEF TypeOK
  <1>10. next' \in [Ranks -> Nat \ {0}]
    BY DEF Issue, TypeOK
  <1> QED BY <1>2, <1>9, <1>10

\* A new request continues where the last one ended; no earlier one changes.
LEMMA SubmitInv ==
    ASSUME Inv, NEW r \in Ranks, Submit(r)
    PROVE  Inv'
  <1> DEFINE x == Region(r)
             c == Increment(count[r], NumCollectives[x])
             m == [exe |-> x, before |-> c.before, num |-> c.num]
  <1> USE DEF Inv
  <1>1. /\ pc[r] = "ready" /\ next[r] <= Len(program[r])
        /\ count' = [count EXCEPT ![r] = c]
        /\ sent' = [sent EXCEPT ![r] = Append(sent[r], m)]
        /\ arrived' = IF r = Coordinator THEN [arrived EXCEPT ![r] = @ + 1]
                      ELSE arrived
        /\ pc' = [pc EXCEPT ![r] = "waiting"]
        /\ UNCHANGED <<program, next, mode, issued, taken, answers, read,
                       phase, todo, local, target>>
    BY DEF Submit, ReachesRegion, serverVars
  <1>2. program[r] \in Seq(Executables) /\ next[r] \in 1..Len(program[r])
    BY <1>1 DEF TypeOK
  <1>3. x \in Executables
    BY <1>2 DEF Region
  <1>4. NumCollectives[x] \in Nat
    BY <1>3, ExecutableAssumption
  <1>5. /\ count[r] \in [before: Nat, num: Nat]
        /\ c \in [before: Nat, num: Nat]
        /\ c.before = CountAfter(count[r])
    BY <1>4 DEF TypeOK, Increment, CountAfter
  <1>6. m \in Requests /\ m.before = c.before /\ CountAfter(m) = CountAfter(c)
    BY <1>3, <1>5 DEF Requests, CountAfter
  <1> HIDE DEF x, c, m
  <1>7. \A s \in Ranks :
           /\ sent[s] \in Seq(Requests) /\ sent'[s] \in Seq(Requests)
           /\ Len(sent[s]) \in Nat
           /\ Len(sent'[s]) = IF s = r THEN Len(sent[s]) + 1 ELSE Len(sent[s])
           /\ \A n \in 1..Len(sent[s]) : sent'[s][n] = sent[s][n]
           /\ s = r => sent'[s][Len(sent[s]) + 1] = m
    <2>1. sent[r] \in Seq(Requests) /\ sent \in [Ranks -> Seq(Requests)]
      BY DEF TypeOK
    <2>2. /\ Append(sent[r], m) \in Seq(Requests)
          /\ Len(Append(sent[r], m)) = Len(sent[r]) + 1
          /\ \A n \in 1..Len(sent[r]) : Append(sent[r], m)[n] = sent[r][n]
          /\ Append(sent[r], m)[Len(sent[r]) + 1] = m
      BY <1>6, <2>1, AppendProperties
    <2>3. /\ sent'[r] = Append(sent[r], m)
          /\ \A s \in Ranks : s # r => sent'[s] = sent[s]
      BY <1>1, <2>1
    <2>4. \A s \in Ranks : sent[s] \in Seq(Requests) /\ Len(sent[s]) \in Nat
      BY <2>1
    <2> SUFFICES ASSUME NEW s \in Ranks
                 PROVE  /\ sent[s] \in Seq(Requests) /\ sent'[s] \in Seq(Requests)
                        /\ Len(sent[s]) \in Nat
                        /\ Len(sent'[s]) = IF s = r THEN Len(sent[s]) + 1
                                           ELSE Len(sent[s])
                        /\ \A n \in 1..Len(sent[s]) : sent'[s][n] = sent[s][n]
                        /\ s = r => sent'[s][Len(sent[s]) + 1] = m
      OBVIOUS
    <2>5. CASE s = r
      BY <2>2, <2>3, <2>4, <2>5
    <2>6. CASE s # r
      BY <2>3, <2>4, <2>6
    <2> QED BY <2>5, <2>6
  <1>8. \A s \in Ranks : \A n \in 0..Len(sent[s]) : End(s, n)' = End(s, n)
    BY <1>1, <1>7 DEF End, CountAfter
  <1>9. TypeOK'
    <2>1. count' \in [Ranks -> [before: Nat, num: Nat]]
      BY <1>1, <1>5 DEF TypeOK
    <2>2. sent' \in [Ranks -> Seq(Requests)]
      <3>1. sent' = [s \in Ranks |-> sent'[s]]
        BY <1>1 DEF TypeOK
      <3> QED BY <1>7, <3>1
    <2>3. pc' \in [Ranks -> {"ready", "waiting"}]
      BY <1>1 DEF TypeOK
    <2>4. /\ arrived' \in [Ranks -> Nat]
          /\ \A s \in Ranks : taken[s] <= arrived'[s] /\ arrived'[s] <= Len(sent'[s])
      <3>1. arrived \in [Ranks -> Nat]
        BY DEF TypeOK
      <3>2. \A s \in Ranks : arrived'[s] = IF s = r /\ r = Coordinator
                                            THEN arrived[s] + 1 ELSE arrived[s]
        BY <1>1, <3>1
      <3>3. arrived' \in [Ranks -> Nat]
        BY <1>1, <3>1
      <3>4. \A s \in Ranks :
               /\ taken[s] \in Nat /\ arrived[s] \in Nat /\ Len(sent[s]) \in Nat
               /\ taken[s] <= arrived[s] /\ arrived[s] <= Len(sent[s])
        BY Cursors
      <3>5. \A s \in Ranks : /\ taken[s] <= arrived'[s]
                             /\ arrived'[s] <= Len(sent'[s])
        BY <1>7, <3>2, <3>4
      <3> QED BY <3>3, <3>5
    <2> QED BY <1>1, <2>1, <2>2, <2>3, <2>4 DEF TypeOK
  <1>10. InProgram'
    BY <1>1 DEF InProgram, TypeOK
  <1>11. Contiguous'
    <2> SUFFICES ASSUME NEW s \in Ranks
                 PROVE  /\ \A i \in 1..Len(sent'[s]) :
                              sent'[s][i].before = End(s, i - 1)'
                        /\ CountAfter(count'[s]) = End(s, Len(sent[s]))'
      BY DEF Contiguous, CountAfter
    <2>1. \A i \in 1..Len(sent[s]) : i - 1 \in 0..Len(sent[s])
      BY <1>7
    <2>2. \A i \in 1..Len(sent[s]) : sent'[s][i].before = End(s, i - 1)'
      BY <2>1, <1>7, <1>8 DEF Contiguous
    <2>3. CASE s = r
      <3>1. End(s, Len(sent[s]))' = CountAfter(m)
        BY <1>7, <2>3 DEF End, CountAfter
      <3>2. CountAfter(count'[s]) = CountAfter(m)
        BY <1>1, <1>6, <2>3 DEF TypeOK
      <3>3. PICK n \in Nat : n = Len(sent[s])
        BY <1>7
      <3>4. m.before = End(s, n)
        BY <1>5, <1>6, <2>3, <3>3 DEF Contiguous
      <3>5. m.before = End(s, n)'
        BY <3>3, <3>4, <1>8
      <3>6. sent'[s][n + 1].before = End(s, (n + 1) - 1)'
        BY <3>3, <3>5, <1>7, <2>3
      <3>7. \A i \in 1..Len(sent'[s]) : i \in 1..Len(sent[s]) \/ i = n + 1
        BY <3>3, <1>7, <2>3
      <3> QED BY <2>2, <3>1, <3>2, <3>6, <3>7
    <2>4. CASE s # r
      BY <1>1, <1>7, <1>8, <2>2, <2>4 DEF Contiguous, CountAfter
    <2> QED BY <2>3, <2>4
  <1>12. Served'
    <2>1. \A s \in Ranks : taken[s] \in 0..Len(sent[s]) /\ taken[s] \in Nat
      BY Cursors
    <2>2. \A s \in Ranks : End(s, taken[s])' = End(s, taken[s])
      BY <1>1, <1>8, <2>1
    <2>3. \A s \in Ranks : taken[s] > 0 => End(s, taken[s] - 1)' = End(s, taken[s] - 1)
      BY <1>1, <1>7, <1>8, <2>1
    <2> QED BY <1>1, <2>1, <2>2, <2>3 DEF Served, Idle, Held, Behind
  <1> QED BY <1>9, <1>10, <1>11, <1>12

\* A step that leaves sent and count alone leaves every End where it was.
LEMMA SameEnds ==
    ASSUME Contiguous, UNCHANGED <<sent, count>>
    PROVE  /\ \A r \in Ranks, n \in Nat : End(r, n)' = End(r, n)
           /\ Contiguous'
  BY DEF Contiguous, End, CountAfter

LEMMA ReceiveInv ==
    ASSUME Inv, NEW r \in Ranks, Receive(r)
    PROVE  Inv'
  <1> DEFINE success == answers[r][read[r] + 1]
  <1> USE DEF Inv
  <1>1. /\ pc[r] = "waiting" /\ read[r] < Len(answers[r])
        /\ read' = [read EXCEPT ![r] = @ + 1]
        /\ mode' = [mode EXCEPT ![r][Region(r)] = IF success THEN "joint"
                                                  ELSE "split"]
        /\ Issue(r, success)
        /\ pc' = [pc EXCEPT ![r] = "ready"]
        /\ UNCHANGED <<program, count, sent, arrived, taken, answers,
                       phase, todo, local, target>>
    BY DEF Receive, serverVars
  <1>2. success \in BOOLEAN
    <2>1. read[r] \in Nat /\ Len(answers[r]) \in Nat
      BY Cursors
    <2>2. answers[r] \in Seq(BOOLEAN) /\ read[r] + 1 \in 1..Len(answers[r])
      BY <1>1, <2>1 DEF TypeOK
    <2> QED BY <2>2
  <1>3. /\ Region(r) \in Executables
        /\ issued' \in [Ranks -> Seq(Collectives)]
        /\ next' \in [Ranks -> Nat \ {0}]
    <2>1. next[r] <= Len(program[r])
      BY <1>1 DEF InProgram
    <2> QED BY <1>1, <1>2, <2>1, IssueType
  <1> HIDE DEF success
  <1>4. TypeOK'
    <2>1. mode' \in [Ranks -> [Executables -> {"new", "joint", "split"}]]
      BY <1>1, <1>3 DEF TypeOK
    <2>2. pc' \in [Ranks -> {"ready", "waiting"}]
      BY <1>1 DEF TypeOK
    <2>3. read' \in [Ranks -> Nat] /\ \A s \in Ranks : read'[s] <= Len(answers[s])
      <3>1. read \in [Ranks -> Nat]
        BY DEF TypeOK
      <3>2. \A s \in Ranks : read'[s] = IF s = r THEN read[s] + 1 ELSE read[s]
        BY <1>1, <3>1
      <3>3. read' \in [Ranks -> Nat]
        BY <1>1, <3>1
      <3>4. \A s \in Ranks : read[s] \in Nat /\ Len(answers[s]) \in Nat
                             /\ read[s] <= Len(answers[s])
        BY Cursors
      <3> QED BY <1>1, <3>2, <3>3, <3>4
    <2> QED BY <1>1, <1>3, <2>1, <2>2, <2>3 DEF TypeOK
  <1>5. InProgram'
    <2>1. \A s \in Ranks : s # r => pc'[s] = pc[s] /\ next'[s] = next[s]
      BY <1>1 DEF Issue, TypeOK
    <2>2. pc'[r] = "ready"
      BY <1>1 DEF TypeOK
    <2> QED BY <1>1, <2>1, <2>2 DEF InProgram
  <1>6. Contiguous' /\ \A s \in Ranks, n \in Nat : End(s, n)' = End(s, n)
    BY <1>1, SameEnds
  <1>7. Served'
    BY <1>1 DEF Served, Idle, Held, Behind, End, CountAfter
  <1> QED BY <1>4, <1>5, <1>6, <1>7

LEMMA CallDirectlyInv ==
    ASSUME Inv, NEW r \in Ranks, CallDirectly(r)
    PROVE  Inv'
  <1> DEFINE joint == mode[r][Region(r)] = "joint"
  <1> USE DEF Inv
  <1>1. /\ pc[r] = "ready" /\ next[r] <= Len(program[r])
        /\ Issue(r, joint)
        /\ UNCHANGED <<program, pc, mode, count, sent, arrived, taken, answers,
                       read, phase, todo, local, target>>
    BY DEF CallDirectly, ReachesRegion, chanVars, serverVars
  <1>2. joint \in BOOLEAN
    OBVIOUS
  <1>3. /\ issued' \in [Ranks -> Seq(Collectives)]
        /\ next' \in [Ranks -> Nat \ {0}]
    BY <1>1, <1>2, IssueType
  <1> HIDE DEF joint
  <1>4. TypeOK'
    BY <1>1, <1>3 DEF TypeOK
  <1>5. InProgram'
    <2>1. \A s \in Ranks : s # r => next'[s] = next[s]
      BY <1>1 DEF Issue, TypeOK
    <2> QED BY <1>1, <2>1 DEF InProgram
  <1>6. Contiguous'
    BY <1>1, SameEnds
  <1>7. Served'
    BY <1>1 DEF Served, Idle, Held, Behind, End, CountAfter
  <1> QED BY <1>4, <1>5, <1>6, <1>7

LEMMA ListenInv ==
    ASSUME Inv, NEW r \in Ranks, Listen(r)
    PROVE  Inv'
  <1> USE DEF Inv
  <1>1. /\ arrived[r] < Len(sent[r])
        /\ arrived' = [arrived EXCEPT ![r] = @ + 1]
        /\ UNCHANGED <<program, next, pc, mode, count, issued, sent, taken,
                       answers, read, phase, todo, local, target>>
    BY DEF Listen, rankVars, serverVars
  <1>2. TypeOK'
    <2>1. arrived \in [Ranks -> Nat]
      BY DEF TypeOK
    <2>2. \A s \in Ranks : arrived'[s] = IF s = r THEN arrived[s] + 1 ELSE arrived[s]
      BY <1>1, <2>1
    <2>3. arrived' \in [Ranks -> Nat]
      BY <1>1, <2>1
    <2>4. \A s \in Ranks :
             /\ taken[s] \in Nat /\ arrived[s] \in Nat /\ Len(sent[s]) \in Nat
             /\ taken[s] <= arrived[s] /\ arrived[s] <= Len(sent[s])
      BY Cursors
    <2>5. \A s \in Ranks : taken[s] <= arrived'[s] /\ arrived'[s] <= Len(sent[s])
      BY <1>1, <2>2, <2>4
    <2> QED BY <1>1, <2>3, <2>5 DEF TypeOK
  <1>3. InProgram'
    BY <1>1 DEF InProgram
  <1>4. Contiguous'
    BY <1>1, SameEnds
  <1>5. Served'
    BY <1>1 DEF Served, Idle, Held, Behind, End, CountAfter
  <1> QED BY <1>2, <1>3, <1>4, <1>5

-----------------------------------------------------------------------------
(* The steps of the consensus loop. *)

\* Taking a request turns a rank that owes one into one that is owed an answer.
LEMMA TakeRequest ==
    ASSUME Inv, NEW r \in Ranks, Available(r),
           taken' = [taken EXCEPT ![r] = @ + 1],
           UNCHANGED <<sent, arrived, answers, count>>
    PROVE  /\ taken' \in [Ranks -> Nat]
           /\ \A s \in Ranks : Len(answers[s]) <= taken'[s] /\ taken'[s] <= arrived[s]
           /\ \A n : Idle(r, n) => Held(r, n)'
           /\ \A s \in Ranks : \A n : s # r => /\ Idle(s, n)' <=> Idle(s, n)
                                               /\ Held(s, n)' <=> Held(s, n)
  <1> USE DEF Inv
  <1>1. taken \in [Ranks -> Nat]
    BY DEF TypeOK
  <1>2. \A s \in Ranks : taken'[s] = IF s = r THEN taken[s] + 1 ELSE taken[s]
    BY <1>1
  <1>3. taken' \in [Ranks -> Nat]
    BY <1>1
  <1>4. \A s \in Ranks :
           /\ taken[s] \in Nat /\ arrived[s] \in Nat /\ Len(answers[s]) \in Nat
           /\ taken[s] <= arrived[s] /\ Len(answers[s]) <= taken[s]
    BY Cursors
  <1>5. taken[r] < arrived[r]
    BY DEF Available
  <1>6. \A s \in Ranks : Len(answers[s]) <= taken'[s] /\ taken'[s] <= arrived[s]
    BY <1>2, <1>4, <1>5
  <1>7. \A s \in Ranks, n \in Nat : End(s, n)' = End(s, n)
    BY SameEnds
  <1>8. taken'[r] - 1 = taken[r] /\ taken'[r] > 0 /\ taken[r] \in Nat
    BY <1>2, <1>4
  <1>9. \A n : Idle(r, n) => Held(r, n)'
    BY <1>7, <1>8 DEF Idle, Held, End, CountAfter
  <1>10. ASSUME NEW s \in Ranks, NEW n, s # r
         PROVE  (Idle(s, n)' <=> Idle(s, n)) /\ (Held(s, n)' <=> Held(s, n))
    BY <1>2, <1>10 DEF Idle, Held, End, CountAfter
  <1> QED BY <1>3, <1>6, <1>9, <1>10

LEMMA GetFirstInv ==
    ASSUME Inv, NEW r \in Ranks, GetFirst(r)
    PROVE  Inv'
  <1> USE DEF Inv
  <1>1. /\ phase = "first" /\ Available(r)
        /\ taken' = [taken EXCEPT ![r] = @ + 1]
        /\ phase' = "gather" /\ todo' = Ranks \ {r}
        /\ UNCHANGED <<program, next, pc, mode, count, issued, sent, arrived,
                       answers, read, local, target>>
    BY DEF GetFirst, rankVars
  <1>2. /\ taken' \in [Ranks -> Nat]
        /\ \A s \in Ranks : Len(answers[s]) <= taken'[s] /\ taken'[s] <= arrived[s]
        /\ Idle(r, target) => Held(r, target)'
        /\ \A s \in Ranks : s # r => (Idle(s, target)' <=> Idle(s, target))
    BY <1>1, TakeRequest
  <1>3. TypeOK'
    BY <1>1, <1>2 DEF TypeOK
  <1>4. InProgram' /\ Contiguous'
    BY <1>1, SameEnds DEF InProgram
  <1>5. \A s \in Ranks : Idle(s, target)
    BY <1>1 DEF Served
  <1>6. Served'
    BY <1>1, <1>2, <1>5 DEF Served
  <1> QED BY <1>3, <1>4, <1>6

LEMMA GetFromRankInv ==
    ASSUME Inv, NEW r \in Ranks, GetFromRank(r)
    PROVE  Inv'
  <1> USE DEF Inv
  <1>1. /\ phase \in {"gather", "exhaust"} /\ r \in todo /\ Available(r)
        /\ taken' = [taken EXCEPT ![r] = @ + 1]
        /\ todo' = todo \ {r}
        /\ UNCHANGED <<program, next, pc, mode, count, issued, sent, arrived,
                       answers, read, phase, local, target>>
    BY DEF GetFromRank, rankVars
  <1>2. /\ taken' \in [Ranks -> Nat]
        /\ \A s \in Ranks : Len(answers[s]) <= taken'[s] /\ taken'[s] <= arrived[s]
        /\ \A n : Idle(r, n) => Held(r, n)'
        /\ \A s \in Ranks : \A n : s # r => /\ Idle(s, n)' <=> Idle(s, n)
                                            /\ Held(s, n)' <=> Held(s, n)
    BY <1>1, TakeRequest
  <1>3. TypeOK'
    BY <1>1, <1>2 DEF TypeOK
  <1>4. InProgram' /\ Contiguous'
    BY <1>1, SameEnds DEF InProgram
  <1>5. ASSUME phase = "gather" PROVE Served'
    <2>1. \A s \in Ranks : IF s \in todo THEN Idle(s, target) ELSE Held(s, target)
      BY <1>5 DEF Served
    <2>2. ASSUME NEW s \in Ranks
          PROVE  IF s \in todo' THEN Idle(s, target)' ELSE Held(s, target)'
      BY <1>1, <1>2, <2>1
    <2>3. \A s \in Ranks : IF s \in todo' THEN Idle(s, target)' ELSE Held(s, target)'
      BY <2>2
    <2> QED BY <1>1, <1>5, <2>3 DEF Served
  <1>6. ASSUME phase = "exhaust" PROVE Served'
    <2>1. \A s \in Ranks :
             /\ local[s] <= target
             /\ s \in todo => local[s] < target
             /\ IF s \in Behind(local, target) \ todo THEN Held(s, local[s])
                ELSE Idle(s, local[s])
      BY <1>6 DEF Served
    <2>2. r \in Behind(local, target)
      BY <1>1, <2>1 DEF Behind
    <2>3. Behind(local, target)' = Behind(local, target)
      BY <1>1 DEF Behind
    <2>4. ASSUME NEW s \in Ranks
          PROVE  IF s \in Behind(local, target) \ todo' THEN Held(s, local[s])'
                 ELSE Idle(s, local[s])'
      <3>1. CASE s = r
        <4>1. Idle(r, local[r])
          BY <1>1, <2>1
        <4>2. Held(r, local[r])'
          BY <1>1, <1>2, <4>1 DEF Held
        <4> QED BY <1>1, <2>2, <3>1, <4>2
      <3>2. CASE s # r
        BY <1>1, <1>2, <2>1, <3>2 DEF Held, Idle
      <3> QED BY <3>1, <3>2
    <2>5. \A s \in Ranks :
             /\ local'[s] <= target'
             /\ s \in todo' => local'[s] < target'
             /\ IF s \in Behind(local, target)' \ todo' THEN Held(s, local[s])'
                ELSE Idle(s, local[s])'
      BY <1>1, <2>1, <2>3, <2>4
    <2> QED BY <1>1, <1>6, <2>5 DEF Served
  <1>7. Served'
    BY <1>1, <1>5, <1>6
  <1> QED BY <1>3, <1>4, <1>7

\* The loop goes on exhausting, or is between rounds with everybody at t.
LEMMA ExhaustServed ==
    ASSUME NEW counts \in [Ranks -> Nat], NEW t \in Nat, Exhaust(counts, t),
           \A r \in Ranks : counts[r] <= t,
           \A r \in Ranks : /\ Len(answers'[r]) = taken'[r]
                            /\ End(r, taken[r])' = counts[r]
    PROVE  /\ phase' \in {"first", "exhaust"} /\ todo' \subseteq Ranks
           /\ local' \in [Ranks -> Nat] /\ target' \in Nat
           /\ Served'
  <1>1. /\ local' = counts /\ target' = t
        /\ todo' = Behind(counts, t)
        /\ phase' = IF Behind(counts, t) = {} THEN "first" ELSE "exhaust"
    BY DEF Exhaust
  <1>3. CASE Behind(counts, t) = {}
    <2>1. \A r \in Ranks : counts[r] = t
      BY <1>3 DEF Behind
    <2>2. \A r \in Ranks : Idle(r, target)'
      BY <1>1, <2>1 DEF Idle
    <2> QED BY <1>1, <1>3, <2>2 DEF Served, Behind
  <1>4. CASE Behind(counts, t) # {}
    <2>1. Behind(local, target)' = todo'
      BY <1>1 DEF Behind
    <2>2. \A r \in Ranks : r \in todo' => counts[r] < t
      BY <1>1 DEF Behind
    <2>3. \A r \in Ranks : Idle(r, local[r])'
      BY <1>1 DEF Idle
    <2> QED BY <1>1, <1>4, <2>1, <2>2, <2>3 DEF Served, Behind
  <1> QED BY <1>3, <1>4

\* Answering the ranks in R adds one answer to each of them.
LEMMA Replying ==
    ASSUME TypeOK, NEW R \in SUBSET Ranks, NEW success \in BOOLEAN,
           ReplyToRanks(R, success)
    PROVE  /\ answers' \in [Ranks -> Seq(BOOLEAN)]
           /\ \A r \in Ranks :
                 /\ Len(answers'[r]) = IF r \in R THEN Len(answers[r]) + 1
                                       ELSE Len(answers[r])
                 /\ \A i \in DOMAIN answers[r] :
                       i \in DOMAIN answers'[r] /\ answers'[r][i] = answers[r][i]
                 /\ \A i \in DOMAIN answers'[r] \ DOMAIN answers[r] :
                       /\ i = Len(answers[r]) + 1 /\ r \in R
                       /\ answers'[r][i] = success
  <1>1. answers \in [Ranks -> Seq(BOOLEAN)]
    BY DEF TypeOK
  <1>2. answers' = [r \in Ranks |-> IF r \in R THEN Append(answers[r], success)
                                    ELSE answers[r]]
    BY DEF ReplyToRanks
  <1>3. \A r \in Ranks :
           /\ Append(answers[r], success) \in Seq(BOOLEAN)
           /\ Len(Append(answers[r], success)) = Len(answers[r]) + 1
           /\ \A i \in 1..Len(answers[r]) :
                 Append(answers[r], success)[i] = answers[r][i]
           /\ Append(answers[r], success)[Len(answers[r]) + 1] = success
    BY <1>1, AppendProperties
  <1>4. answers' \in [Ranks -> Seq(BOOLEAN)]
    BY <1>1, <1>2, <1>3
  <1>5. ASSUME NEW r \in Ranks
        PROVE  /\ Len(answers'[r]) = IF r \in R THEN Len(answers[r]) + 1
                                     ELSE Len(answers[r])
               /\ \A i \in DOMAIN answers[r] :
                     i \in DOMAIN answers'[r] /\ answers'[r][i] = answers[r][i]
               /\ \A i \in DOMAIN answers'[r] \ DOMAIN answers[r] :
                     /\ i = Len(answers[r]) + 1 /\ r \in R
                     /\ answers'[r][i] = success
    <2>1. /\ Len(answers[r]) \in Nat /\ DOMAIN answers[r] = 1..Len(answers[r])
          /\ DOMAIN answers'[r] = 1..Len(answers'[r])
      BY <1>1, <1>4
    <2>2. CASE r \in R
      <3>1. answers'[r] = Append(answers[r], success)
        BY <1>2, <2>2
      <3> QED BY <1>3, <2>1, <2>2, <3>1
    <2>3. CASE r \notin R
      <3>1. answers'[r] = answers[r]
        BY <1>2, <2>3
      <3> QED BY <2>1, <2>3, <3>1
    <2> QED BY <2>2, <2>3
  <1> QED BY <1>4, <1>5

\* What the loop answers keeps the invariant, whoever it answers: the ranks in
\* R were owed an answer, the others were not.
LEMMA AnswerInv ==
    ASSUME Inv, NEW R \in SUBSET Ranks, NEW success \in BOOLEAN,
           ReplyToRanks(R, success),
           NEW counts \in [Ranks -> Nat], NEW t \in Nat, Exhaust(counts, t),
           \A r \in Ranks : counts[r] <= t,
           \A r \in R : taken[r] > 0 /\ Len(answers[r]) = taken[r] - 1,
           \A r \in Ranks \ R : Len(answers[r]) = taken[r],
           \A r \in Ranks : End(r, taken[r]) = counts[r],
           UNCHANGED <<rankVars, sent, arrived, taken, read>>
    PROVE  Inv'
  <1> USE DEF Inv
  <1>1. UNCHANGED <<program, next, pc, mode, count, issued, sent, arrived, taken,
                    read>>
    BY DEF rankVars
  <1>2. /\ answers' \in [Ranks -> Seq(BOOLEAN)]
        /\ \A r \in Ranks : Len(answers'[r]) = IF r \in R THEN Len(answers[r]) + 1
                                               ELSE Len(answers[r])
    BY Replying
  <1>3. \A r \in Ranks :
           /\ taken[r] \in Nat /\ Len(answers[r]) \in Nat /\ read[r] \in Nat
           /\ read[r] <= Len(answers[r])
    BY Cursors
  <1>4. \A r \in Ranks : Len(answers'[r]) = taken[r]
    <2> SUFFICES ASSUME NEW r \in Ranks PROVE Len(answers'[r]) = taken[r]
      OBVIOUS
    <2>1. CASE r \in R
      <3>1. Len(answers[r]) = taken[r] - 1 /\ Len(answers'[r]) = Len(answers[r]) + 1
        BY <1>2, <2>1
      <3> QED BY <1>3, <3>1
    <2>2. CASE r \notin R
      BY <1>2, <2>2
    <2> QED BY <2>1, <2>2
  <1>5. \A r \in Ranks : read[r] <= Len(answers'[r]) /\ Len(answers'[r]) <= taken[r]
    BY <1>2, <1>3, <1>4
  <1>6. \A r \in Ranks : End(r, taken[r])' = counts[r]
    BY <1>1 DEF End, CountAfter
  <1>7. /\ phase' \in {"first", "exhaust"} /\ todo' \subseteq Ranks
        /\ local' \in [Ranks -> Nat] /\ target' \in Nat
        /\ Served'
    BY <1>1, <1>4, <1>6, ExhaustServed
  <1>8. TypeOK'
    BY <1>1, <1>2, <1>5, <1>7 DEF TypeOK
  <1>9. InProgram' /\ Contiguous'
    BY <1>1, SameEnds DEF InProgram
  <1> QED BY <1>7, <1>8, <1>9

\* The request taken last is one that was sent, and it ends where End says.
LEMMA MessageSent ==
    ASSUME TypeOK, NEW r \in Ranks, taken[r] > 0
    PROVE  /\ taken[r] \in 1..Len(sent[r])
           /\ Message(r) \in Requests
           /\ CountAfter(Message(r)) = End(r, taken[r])
           /\ CountAfter(Message(r)) \in Nat
  <1>1. taken[r] \in 1..Len(sent[r]) /\ taken[r] # 0
    BY Cursors
  <1>2. sent[r] \in Seq(Requests)
    BY DEF TypeOK
  <1>3. sent[r][taken[r]] \in Requests
    BY <1>1, <1>2
  <1> QED BY <1>1, <1>3 DEF Message, CountAfter, End, Requests

LEMMA DecideInv ==
    ASSUME Inv, Decide
    PROVE  Inv'
  <1> DEFINE counts == [r \in Ranks |-> CountAfter(Message(r))]
  <1> USE DEF Inv
  <1>1. /\ phase = "gather" /\ todo = {}
        /\ ReplyToRanks(Ranks, AllMatch)
        /\ UNCHANGED <<rankVars, sent, arrived, taken, read>>
    BY DEF Decide
  <1>2. PICK t \in {counts[r] : r \in Ranks} :
           IsMax(t, {counts[r] : r \in Ranks}) /\ Exhaust(counts, t)
    BY DEF Decide
  <1>3. \A r \in Ranks : Held(r, target)
    BY <1>1 DEF Served
  <1>4. \A r \in Ranks : taken[r] > 0 /\ Len(answers[r]) = taken[r] - 1
    BY <1>3 DEF Held
  <1>5. \A r \in Ranks : counts[r] \in Nat /\ counts[r] = End(r, taken[r])
    BY <1>4, MessageSent
  <1>6. counts \in [Ranks -> Nat]
    BY <1>5
  <1>7. AllMatch \in BOOLEAN
    BY DEF AllMatch
  <1> HIDE DEF counts
  <1>8. t \in Nat /\ \A r \in Ranks : counts[r] <= t
    BY <1>2, <1>5 DEF IsMax
  <1> QED BY <1>1, <1>2, <1>4, <1>5, <1>6, <1>7, <1>8, AnswerInv

LEMMA RefuseInv ==
    ASSUME Inv, Refuse
    PROVE  Inv'
  <1> DEFINE R == Behind(local, target)
             counts == [r \in Ranks |-> IF r \in R THEN CountAfter(Message(r))
                                        ELSE local[r]]
             candidates == {target} \cup {counts[r] : r \in R}
  <1> USE DEF Inv
  <1>1. /\ phase = "exhaust" /\ todo = {}
        /\ ReplyToRanks(R, FALSE)
        /\ UNCHANGED <<rankVars, sent, arrived, taken, read>>
    BY DEF Refuse
  <1>2. PICK t \in candidates : IsMax(t, candidates) /\ Exhaust(counts, t)
    BY DEF Refuse
  <1>3. \A r \in Ranks :
           /\ local[r] <= target
           /\ IF r \in R THEN Held(r, local[r]) ELSE Idle(r, local[r])
    BY <1>1 DEF Served
  <1>4. R \in SUBSET Ranks
    BY DEF Behind
  <1>5. /\ \A r \in R : taken[r] > 0 /\ Len(answers[r]) = taken[r] - 1
        /\ \A r \in Ranks \ R :
              Len(answers[r]) = taken[r] /\ End(r, taken[r]) = local[r]
    BY <1>3, <1>4 DEF Held, Idle
  <1>6. \A r \in Ranks : counts[r] \in Nat /\ counts[r] = End(r, taken[r])
    <2>1. \A r \in R : CountAfter(Message(r)) = End(r, taken[r])
                       /\ CountAfter(Message(r)) \in Nat
      BY <1>4, <1>5, MessageSent
    <2>2. local \in [Ranks -> Nat]
      BY DEF TypeOK
    <2> HIDE DEF R
    <2> QED BY <1>4, <1>5, <2>1, <2>2
  <1>7. counts \in [Ranks -> Nat]
    <2>1. counts = [r \in Ranks |-> counts[r]]
      OBVIOUS
    <2> QED BY <1>6, <2>1
  <1>8. \A r \in Ranks \ R : counts[r] = local[r]
    OBVIOUS
  <1>9. target \in Nat
    BY DEF TypeOK
  <1> HIDE DEF counts, R
  <1>10. t \in Nat
    BY <1>2, <1>4, <1>6, <1>9
  <1>11. target <= t /\ \A r \in R : counts[r] <= t
    BY <1>2 DEF IsMax
  <1>12. \A r \in Ranks : counts[r] <= t
    BY <1>3, <1>6, <1>8, <1>9, <1>10, <1>11
  <1>13. FALSE \in BOOLEAN
    OBVIOUS
  <1> QED BY <1>1, <1>2, <1>4, <1>5, <1>6, <1>7, <1>10, <1>12, <1>13, AnswerInv

-----------------------------------------------------------------------------
(* The theorems. *)

LEMMA NextInv ==
    ASSUME Inv, [Next]_vars
    PROVE  Inv'
  <1>1. CASE \E r \in Ranks : RankStep(r) \/ Listen(r)
    BY <1>1, SubmitInv, ReceiveInv, CallDirectlyInv, ListenInv DEF RankStep
  <1>2. CASE ServerStep
    BY <1>2, GetFirstInv, GetFromRankInv, DecideInv, RefuseInv DEF ServerStep
  <1>3. CASE UNCHANGED vars
    <2>1. UNCHANGED <<program, next, pc, mode, count, issued, sent, arrived, taken,
                      answers, read, phase, todo, local, target>>
      BY <1>3 DEF vars, rankVars, chanVars, serverVars
    <2>2. TypeOK'
      BY <2>1 DEF Inv, TypeOK
    <2>3. InProgram' /\ Contiguous'
      BY <2>1, SameEnds DEF Inv, InProgram
    <2>4. Served'
      BY <2>1 DEF Inv, Served, Idle, Held, Behind, End, CountAfter
    <2> QED BY <2>2, <2>3, <2>4 DEF Inv
  <1> QED BY <1>1, <1>2, <1>3 DEF Next, Terminated

LEMMA SpecInv == Spec => []Inv
  BY InitInv, NextInv, PTL DEF Spec

\* The handshake is well typed, and every cursor stays within its channel: no
\* rank is answered more often than it asked, and no request is taken before
\* it arrived (put_request, get_from_ranks, _reply_to_rank).
THEOREM HandshakeTypeCorrect == Spec => []TypeOK
  <1>1. Inv => TypeOK
    BY DEF Inv
  <1> QED BY <1>1, SpecInv, PTL

\* For any number of ranks and however their programs cut the collectives into
\* regions, _consensus_loop compares only requests that start at the same
\* collective: _exhaust_ranks has brought the ranks back in line.
THEOREM RoundsAreAligned == Spec => []ComparesSameCollective
  <1>1. ASSUME Inv PROVE ComparesSameCollective
    <2> USE <1>1 DEF Inv
    <2> SUFFICES ASSUME phase = "gather", NEW r \in Ranks \ todo
                 PROVE  Message(r).before = target
      BY DEF ComparesSameCollective
    <2>1. Held(r, target)
      BY DEF Served
    <2>2. taken[r] \in 1..Len(sent[r])
      BY <2>1, MessageSent DEF Held
    <2> QED BY <2>1, <2>2 DEF Contiguous, Held, Message
  <1> QED BY <1>1, SpecInv, PTL

\* What Handshake.submit returns is true on every rank: whoever is told TRUE,
\* all ranks submitted exactly the request that answer is for.
THEOREM SubmitIsTruthful == Spec => []AnswersTruthful
  <1>1. Init => AnswersTruthful
    BY DEF Init, AnswersTruthful
  <1>2. ASSUME Inv, AnswersTruthful, [Next]_vars
        PROVE  AnswersTruthful'
    <2> USE <1>2 DEF Inv
    <2>1. ASSUME UNCHANGED answers,
                 \A s \in Ranks : \A j \in DOMAIN sent[s] :
                     j \in DOMAIN sent'[s] /\ sent'[s][j] = sent[s][j]
          PROVE  AnswersTruthful'
      <3> SUFFICES ASSUME NEW r \in Ranks, NEW s \in Ranks,
                          NEW i \in DOMAIN answers[r], answers[r][i]
                   PROVE  \E j \in DOMAIN sent'[s] : sent'[s][j] = sent'[r][i]
        BY <2>1 DEF AnswersTruthful
      <3>1. PICK j \in DOMAIN sent[s] : sent[s][j] = sent[r][i]
        BY DEF AnswersTruthful
      <3>2. i \in DOMAIN sent[r]
        <4>1. answers[r] \in Seq(BOOLEAN) /\ sent[r] \in Seq(Requests)
          BY DEF TypeOK
        <4> QED BY <4>1, Cursors
      <3> QED BY <2>1, <3>1, <3>2
    <2>2. ASSUME NEW r \in Ranks, Submit(r) PROVE AnswersTruthful'
      <3>1. PICK m : sent' = [sent EXCEPT ![r] = Append(sent[r], m)]
        BY <2>2 DEF Submit
      <3>2. ASSUME NEW s \in Ranks, NEW j \in DOMAIN sent[s]
            PROVE  j \in DOMAIN sent'[s] /\ sent'[s][j] = sent[s][j]
        BY <3>1 DEF TypeOK
      <3> QED BY <2>1, <2>2, <3>2 DEF Submit
    <2>3. ASSUME NEW R \in SUBSET Ranks, NEW success \in BOOLEAN,
                 ReplyToRanks(R, success), UNCHANGED sent,
                 \A r \in R : taken[r] > 0 /\ Len(answers[r]) = taken[r] - 1,
                 success => \A r, s \in Ranks : taken[s] > 0 /\ Message(r) = Message(s)
          PROVE  AnswersTruthful'
      <3> SUFFICES ASSUME NEW r \in Ranks, NEW s \in Ranks,
                          NEW i \in DOMAIN answers'[r], answers'[r][i]
                   PROVE  \E j \in DOMAIN sent[s] : sent[s][j] = sent[r][i]
        BY <2>3 DEF AnswersTruthful
      <3>1. CASE i \in DOMAIN answers[r]
        <4>1. answers[r][i]
          BY <2>3, <3>1, Replying
        <4> QED BY <3>1, <4>1 DEF AnswersTruthful
      <3>2. CASE i \notin DOMAIN answers[r]
        <4>1. i = Len(answers[r]) + 1 /\ r \in R /\ success
          <5>1. \A k \in DOMAIN answers'[r] \ DOMAIN answers[r] :
                   k = Len(answers[r]) + 1 /\ r \in R /\ answers'[r][k] = success
            BY <2>3, Replying
          <5>2. i \in DOMAIN answers'[r] \ DOMAIN answers[r] /\ answers'[r][i]
            BY <3>2
          <5> QED BY <5>1, <5>2, Zenon
        <4>2. i = taken[r]
          BY <2>3, <4>1, Cursors
        <4>3. taken[s] \in 1..Len(sent[s]) /\ Message(r) = Message(s)
          BY <2>3, <4>1, MessageSent
        <4>4. DOMAIN sent[s] = 1..Len(sent[s])
          BY DEF TypeOK
        <4> QED BY <4>2, <4>3, <4>4 DEF Message
      <3> QED BY <3>1, <3>2
    <2>4. CASE Decide
      <3>1. \A r \in Ranks : taken[r] > 0 /\ Len(answers[r]) = taken[r] - 1
        BY <2>4 DEF Decide, Served, Held
      <3>2. AllMatch \in BOOLEAN /\ (AllMatch => \A r, s \in Ranks : Message(r) = Message(s))
        BY DEF AllMatch
      <3> QED BY <2>3, <2>4, <3>1, <3>2 DEF Decide
    <2>5. CASE Refuse
      <3>1. Behind(local, target) \in SUBSET Ranks
        BY DEF Behind
      <3>2. \A r \in Behind(local, target) :
               taken[r] > 0 /\ Len(answers[r]) = taken[r] - 1
        BY <2>5, <3>1 DEF Refuse, Served, Held
      <3> QED BY <2>3, <2>5, <3>1, <3>2 DEF Refuse
    <2>6. CASE \E r \in Ranks : Receive(r) \/ CallDirectly(r) \/ Listen(r)
                                \/ GetFirst(r) \/ GetFromRank(r)
      BY <2>1, <2>6 DEF Receive, CallDirectly, Listen, GetFirst, GetFromRank, chanVars
    <2>7. CASE UNCHANGED vars
      BY <2>1, <2>7 DEF vars, chanVars
    <2> QED BY <1>2, <2>2, <2>4, <2>5, <2>6, <2>7
            DEF Next, RankStep, ServerStep, Terminated
  <1> QED BY <1>1, <1>2, SpecInv, PTL DEF Spec

-----------------------------------------------------------------------------
(* Joint executables meet.                                                 *)
(*                                                                         *)
(* The consensus loop knows the collectives of a rank by the counts in its *)
(* requests only.  As long as those are exact every collective a rank has  *)
(* issued lies in one of its answered requests, at the place the request   *)
(* gives, and carries that request's answer.  A region that was split and  *)
(* runs again without a handshake is not counted.                          *)

CountsLow == \A r \in Ranks : Counted(r) <= Len(issued[r])

\* The request a rank waits for is its last one and about its next region; all
\* the others have been answered.
Asked ==
    \A r \in Ranks :
        /\ pc[r] = "ready" => read[r] = Len(sent[r])
        /\ pc[r] = "waiting" =>
              LET m == sent[r][Len(sent[r])] IN
              /\ read[r] + 1 = Len(sent[r])
              /\ m.exe = Region(r) /\ m.before = count[r].before
              /\ m.num = count[r].num /\ m.num = NumCollectives[Region(r)]

\* The requests of a rank are about disjoint ranges of collectives.
Ordered ==
    \A r \in Ranks : \A i, j \in 1..Len(sent[r]) :
        i < j => CountAfter(sent[r][i]) <= sent[r][j].before

\* TRUE is the answer to the same request on every rank.
JointAnswers ==
    \A r, s \in Ranks : \A i \in 1..Len(answers[r]) :
        answers[r][i] => \E j \in 1..Len(answers[s]) :
                             sent[s][j] = sent[r][i] /\ answers[s][j]

\* The i-th collective of rank r belongs to its n-th request.
BelongsTo(r, i, n) ==
    /\ sent[r][n].before < i /\ i <= CountAfter(sent[r][n])
    /\ issued[r][i] = [exe |-> sent[r][n].exe, start |-> sent[r][n].before,
                       joint |-> answers[r][n]]

IssuedAnswered ==
    \A r \in Ranks : \A i \in 1..Len(issued[r]) :
        \E n \in 1..read[r] : BelongsTo(r, i, n)

JointInv ==
    /\ CountsLow /\ Asked /\ Ordered /\ JointAnswers
    /\ CountsExact => IssuedAnswered

\* Running a region adds its collectives to the rank's history.
LEMMA IssueAdds ==
    ASSUME TypeOK, NEW r \in Ranks, NEW joint \in BOOLEAN,
           next[r] <= Len(program[r]), Issue(r, joint)
    PROVE  /\ Region(r) \in Executables /\ NumCollectives[Region(r)] \in Nat \ {0}
           /\ Len(issued[r]) \in Nat
           /\ Len(issued'[r]) = Len(issued[r]) + NumCollectives[Region(r)]
           /\ \A i \in 1..Len(issued[r]) : issued'[r][i] = issued[r][i]
           /\ \A i \in (Len(issued[r]) + 1)..Len(issued'[r]) :
                 issued'[r][i] = [exe |-> Region(r), start |-> Len(issued[r]),
                                  joint |-> joint]
           /\ \A s \in Ranks : s # r => issued'[s] = issued[s] /\ next'[s] = next[s]
           /\ next'[r] = next[r] + 1
  <1> DEFINE x == Region(r)
             batch == [i \in 1..NumCollectives[x] |->
                  [exe |-> x, start |-> Len(issued[r]), joint |-> joint]]
  <1>1. x \in Executables
    BY IssueType
  <1>2. NumCollectives[x] \in Nat \ {0}
    BY <1>1, ExecutableAssumption
  <1>3. issued[r] \in Seq(Collectives) /\ Len(issued[r]) \in Nat
    BY DEF TypeOK
  <1>4. [exe |-> x, start |-> Len(issued[r]), joint |-> joint] \in Collectives
    BY <1>1, <1>3 DEF Collectives
  <1>5. batch \in Seq(Collectives) /\ Len(batch) = NumCollectives[x]
    BY <1>2, <1>4
  <1>6. /\ issued'[r] = issued[r] \o batch
        /\ \A s \in Ranks : s # r => issued'[s] = issued[s] /\ next'[s] = next[s]
        /\ next'[r] = next[r] + 1
    BY DEF Issue, TypeOK
  <1>7. Len(issued'[r]) = Len(issued[r]) + NumCollectives[x]
    <2>1. \A u, v \in Seq(Collectives) : Len(u \o v) = Len(u) + Len(v)
      BY ConcatProperties
    <2>2. Len(issued[r] \o batch) = Len(issued[r]) + Len(batch)
      <3> HIDE DEF batch
      <3> QED BY <1>3, <1>5, <2>1, Zenon
    <2> HIDE DEF batch, x
    <2> QED BY <1>5, <1>6, <2>2
  <1>8. \A i \in 1..Len(issued[r]) : issued'[r][i] = issued[r][i]
    <2> HIDE DEF batch
    <2> QED BY <1>3, <1>5, <1>6
  <1>9. ASSUME NEW i \in (Len(issued[r]) + 1)..Len(issued'[r])
        PROVE  issued'[r][i] = [exe |-> x, start |-> Len(issued[r]),
                                joint |-> joint]
    <2>1. /\ i - Len(issued[r]) \in 1..NumCollectives[x]
          /\ i \in 1..(Len(issued[r]) + Len(batch)) /\ i > Len(issued[r])
      BY <1>2, <1>3, <1>5, <1>7
    <2>2. issued'[r][i] = batch[i - Len(issued[r])]
      <3> HIDE DEF batch
      <3> QED BY <1>3, <1>5, <1>6, <2>1
    <2> QED BY <2>1, <2>2
  <1> QED BY <1>1, <1>2, <1>3, <1>6, <1>7, <1>8, <1>9

\* Nobody asks and nobody answers.
LEMMA JointAnswersKept ==
    ASSUME JointAnswers, sent' = sent, answers' = answers
    PROVE  JointAnswers'
  BY DEF JointAnswers

\* Before the first step.
LEMMA InitJoint == Init => JointInv
  <1> SUFFICES ASSUME Init PROVE JointInv
    OBVIOUS
  <1>1. CountsLow /\ Asked
    BY DEF Init, CountsLow, Counted, Asked, CountAfter
  <1>2. Ordered /\ JointAnswers /\ IssuedAnswered
    BY DEF Init, Ordered, JointAnswers, IssuedAnswered
  <1> QED BY <1>1, <1>2 DEF JointInv

\* A step that leaves the requests, the answers and the ranks alone.
LEMMA ServerJoint ==
    ASSUME JointInv, UNCHANGED <<rankVars, sent, answers, read>>
    PROVE  JointInv'
  <1>1. UNCHANGED <<program, next, pc, mode, count, issued, sent, answers, read>>
    BY DEF rankVars
  <1>2. CountsLow' /\ (CountsExact' => CountsExact)
    BY <1>1 DEF JointInv, CountsLow, CountsExact, Counted, CountAfter
  <1>3. Asked'
    BY <1>1 DEF JointInv, Asked, Region
  <1>4. Ordered' /\ JointAnswers' /\ (IssuedAnswered => IssuedAnswered')
    BY <1>1 DEF JointInv, Ordered, JointAnswers, IssuedAnswered, BelongsTo,
                CountAfter
  <1> QED BY <1>2, <1>3, <1>4 DEF JointInv

\* An answer to requests that all agree, or FALSE to whomever.
LEMMA AnswerJoint ==
    ASSUME Inv, JointInv, NEW R \in SUBSET Ranks, NEW success \in BOOLEAN,
           ReplyToRanks(R, success), UNCHANGED <<rankVars, sent, read>>,
           \A r \in R : taken[r] > 0 /\ Len(answers[r]) = taken[r] - 1,
           success => R = Ranks /\ \A r, s \in Ranks : Message(r) = Message(s)
    PROVE  JointInv'
  <1> USE DEF Inv
  <1>1. UNCHANGED <<program, next, pc, mode, count, issued, sent, read>>
    BY DEF rankVars
  <1>2. CountsLow' /\ (CountsExact' => CountsExact)
    BY <1>1 DEF JointInv, CountsLow, CountsExact, Counted, CountAfter
  <1>3. Asked' /\ Ordered'
    BY <1>1 DEF JointInv, Asked, Region, Ordered, CountAfter
  <1>4. ASSUME NEW r \in Ranks
        PROVE  /\ Len(answers[r]) \in Nat /\ Len(answers'[r]) \in Nat
               /\ Len(answers'[r]) = IF r \in R THEN Len(answers[r]) + 1
                                     ELSE Len(answers[r])
               /\ \A i \in 1..Len(answers[r]) : answers'[r][i] = answers[r][i]
               /\ r \in R => /\ answers'[r][Len(answers'[r])] = success
                             /\ Len(answers'[r]) = taken[r]
                             /\ Len(answers'[r]) \in 1..Len(answers'[r])
    <2>0. answers[r] \in Seq(BOOLEAN) /\ answers'[r] \in Seq(BOOLEAN)
      <3>1. answers' \in [Ranks -> Seq(BOOLEAN)]
        BY Replying
      <3> QED BY <3>1 DEF TypeOK
    <2>1. /\ Len(answers'[r]) = IF r \in R THEN Len(answers[r]) + 1
                                ELSE Len(answers[r])
          /\ \A i \in DOMAIN answers[r] :
                i \in DOMAIN answers'[r] /\ answers'[r][i] = answers[r][i]
          /\ \A i \in DOMAIN answers'[r] \ DOMAIN answers[r] :
                /\ i = Len(answers[r]) + 1 /\ r \in R
                /\ answers'[r][i] = success
      <3>1. TypeOK
        BY DEF Inv
      <3>2. Len(answers'[r]) = IF r \in R THEN Len(answers[r]) + 1
                               ELSE Len(answers[r])
        BY <3>1, Replying
      <3>3. \A i \in DOMAIN answers[r] :
               i \in DOMAIN answers'[r] /\ answers'[r][i] = answers[r][i]
        BY <3>1, Replying
      <3>4. \A i \in DOMAIN answers'[r] \ DOMAIN answers[r] :
               /\ i = Len(answers[r]) + 1 /\ r \in R
               /\ answers'[r][i] = success
        BY <3>1, Replying
      <3> QED BY <3>2, <3>3, <3>4, Zenon
    <2>2. /\ Len(answers[r]) \in Nat /\ Len(answers'[r]) \in Nat
          /\ DOMAIN answers[r] = 1..Len(answers[r])
          /\ DOMAIN answers'[r] = 1..Len(answers'[r])
      BY <2>0
    <2>3. ASSUME r \in R
          PROVE  /\ answers'[r][Len(answers'[r])] = success
                 /\ Len(answers'[r]) = taken[r]
                 /\ Len(answers'[r]) \in 1..Len(answers'[r])
      <3>1. Len(answers'[r]) = Len(answers[r]) + 1 /\ taken[r] \in Nat
        BY <2>1, <2>3, Cursors
      <3>2. /\ Len(answers'[r]) = taken[r]
            /\ Len(answers'[r]) \in 1..Len(answers'[r])
            /\ Len(answers'[r]) \notin 1..Len(answers[r])
        BY <2>2, <2>3, <3>1
      <3> QED BY <2>1, <2>2, <3>2
    <2> QED BY <2>1, <2>2, <2>3
  <1>5. JointAnswers'
    <2> SUFFICES ASSUME NEW r \in Ranks, NEW s \in Ranks,
                        NEW i \in 1..Len(answers'[r]), answers'[r][i]
                 PROVE  \E j \in 1..Len(answers'[s]) :
                            sent[s][j] = sent[r][i] /\ answers'[s][j]
      BY <1>1 DEF JointAnswers
    <2>1. CASE i \in 1..Len(answers[r])
      <3>1. answers[r][i]
        BY <1>4, <2>1
      <3>2. PICK j \in 1..Len(answers[s]) : sent[s][j] = sent[r][i] /\ answers[s][j]
        <4>1. JointAnswers
          BY DEF JointInv
        <4>2. answers[r][i] => \E j \in 1..Len(answers[s]) :
                                   sent[s][j] = sent[r][i] /\ answers[s][j]
          BY <2>1, <4>1 DEF JointAnswers
        <4> QED BY <3>1, <4>2
      <3>3. j \in 1..Len(answers'[s]) /\ answers'[s][j] = answers[s][j]
        BY <1>4
      <3> QED BY <3>2, <3>3
    <2>2. CASE i \notin 1..Len(answers[r])
      <3>1. r \in R /\ i = Len(answers'[r])
        BY <1>4, <2>2
      <3>2. success /\ i = taken[r]
        BY <1>4, <3>1
      <3>3. s \in R /\ Message(s) = Message(r)
        BY <3>2
      <3>4. /\ taken[s] \in 1..Len(answers'[s])
            /\ answers'[s][taken[s]] = success
        BY <1>4, <3>3
      <3> QED BY <3>2, <3>3, <3>4 DEF Message
    <2> QED BY <2>1, <2>2
  <1>6. ASSUME IssuedAnswered PROVE IssuedAnswered'
    <2> SUFFICES ASSUME NEW r \in Ranks, NEW i \in 1..Len(issued[r])
                 PROVE  \E n \in 1..read[r] : BelongsTo(r, i, n)'
      BY <1>1 DEF IssuedAnswered
    <2>1. PICK n \in 1..read[r] : BelongsTo(r, i, n)
      BY <1>6 DEF IssuedAnswered
    <2>2. n \in 1..Len(answers[r])
      BY Cursors
    <2>3. answers'[r][n] = answers[r][n]
      BY <1>4, <2>2
    <2> QED BY <1>1, <2>1, <2>3 DEF BelongsTo, CountAfter
  <1> QED BY <1>2, <1>3, <1>5, <1>6 DEF JointInv

\* A new request is about the collectives after those that were counted.
LEMMA SubmitJoint ==
    ASSUME Inv, JointInv, NEW r \in Ranks, Submit(r)
    PROVE  JointInv' /\ (CountsExact => CountsExact')
  <1> DEFINE x == Region(r)
             c == Increment(count[r], NumCollectives[x])
             m == [exe |-> x, before |-> c.before, num |-> c.num]
             n == Len(sent[r])
  <1> USE DEF Inv
  <1>1. /\ pc[r] = "ready" /\ next[r] <= Len(program[r])
        /\ count' = [count EXCEPT ![r] = c]
        /\ sent' = [sent EXCEPT ![r] = Append(sent[r], m)]
        /\ pc' = [pc EXCEPT ![r] = "waiting"]
        /\ UNCHANGED <<program, next, mode, issued, answers, read>>
    BY DEF Submit, ReachesRegion
  <1>2. x \in Executables
    <2>1. program[r] \in Seq(Executables) /\ next[r] \in 1..Len(program[r])
      BY <1>1 DEF TypeOK
    <2> QED BY <2>1 DEF Region
  <1>3. NumCollectives[x] \in Nat
    BY <1>2, ExecutableAssumption
  <1>4. /\ count[r] \in [before: Nat, num: Nat] /\ c \in [before: Nat, num: Nat]
        /\ c.before = CountAfter(count[r]) /\ c.num = NumCollectives[x]
    BY <1>3 DEF TypeOK, Increment, CountAfter
  <1>5. /\ m \in Requests /\ m.exe = x /\ m.before = c.before /\ m.num = c.num
        /\ m.num = NumCollectives[x]
    BY <1>2, <1>4 DEF Requests
  <1>6. /\ pc'[r] = "waiting" /\ count'[r] = c /\ sent'[r] = Append(sent[r], m)
        /\ \A s \in Ranks : s # r => /\ pc'[s] = pc[s] /\ count'[s] = count[s]
                                     /\ sent'[s] = sent[s]
    BY <1>1 DEF TypeOK
  <1> HIDE DEF c, m
  <1>7. sent[r] \in Seq(Requests) /\ n \in Nat
    BY DEF TypeOK
  <1>8. /\ Len(sent'[r]) = n + 1 /\ sent'[r][n + 1] = m
        /\ \A i \in 1..n : sent'[r][i] = sent[r][i]
    <2>1. /\ Len(Append(sent[r], m)) = Len(sent[r]) + 1
          /\ \A i \in 1..Len(sent[r]) : Append(sent[r], m)[i] = sent[r][i]
          /\ Append(sent[r], m)[Len(sent[r]) + 1] = m
      BY <1>5, <1>7, AppendProperties
    <2> QED BY <1>6, <2>1
  <1>9. m.before = End(r, n)
    BY <1>4, <1>5 DEF Contiguous
  <1> HIDE DEF n, x
  <1>10. \A s \in Ranks : Counted(s)' = Counted(s)
    BY <1>1, <1>4, <1>6 DEF Counted, CountAfter
  <1>11. CountsLow' /\ (CountsExact' <=> CountsExact)
    BY <1>1, <1>10 DEF JointInv, CountsLow, CountsExact
  <1>12. Asked'
    <2> SUFFICES ASSUME NEW s \in Ranks
                 PROVE  /\ pc'[s] = "ready" => read'[s] = Len(sent'[s])
                        /\ pc'[s] = "waiting" =>
                              LET q == sent'[s][Len(sent'[s])] IN
                              /\ read'[s] + 1 = Len(sent'[s])
                              /\ q.exe = Region(s)' /\ q.before = count'[s].before
                              /\ q.num = count'[s].num
                              /\ q.num = NumCollectives[Region(s)']
      BY DEF Asked
    <2>1. Region(s)' = Region(s)
      BY <1>1 DEF Region
    <2>2. CASE s = r
      <3>1. read[r] = n
        BY <1>1 DEF JointInv, Asked, n
      <3>2. sent'[s][Len(sent'[s])] = m
        BY <1>8, <2>2
      <3>3. pc'[s] = "waiting" /\ count'[s] = c /\ Region(s)' = x
        BY <1>6, <2>1, <2>2 DEF x
      <3>4. read'[s] + 1 = Len(sent'[s])
        BY <1>1, <1>8, <2>2, <3>1
      <3> QED BY <1>5, <3>2, <3>3, <3>4
    <2>3. CASE s # r
      BY <1>1, <1>6, <2>1, <2>3 DEF JointInv, Asked
    <2> QED BY <2>2, <2>3
  <1>13. Ordered'
    <2> SUFFICES ASSUME NEW s \in Ranks, NEW i \in 1..Len(sent'[s]),
                        NEW j \in 1..Len(sent'[s]), i < j
                 PROVE  CountAfter(sent'[s][i]) <= sent'[s][j].before
      BY DEF Ordered, CountAfter
    <2>1. CASE s # r
      BY <1>6, <2>1 DEF JointInv, Ordered
    <2>2. CASE s = r /\ j \in 1..n
      <3>1. i \in 1..n
        BY <1>7, <1>8, <2>2
      <3> QED BY <1>8, <2>2, <3>1 DEF JointInv, Ordered, n
    <2>3. CASE s = r /\ j \notin 1..n
      <3>1. j = n + 1 /\ i \in 1..n /\ n # 0 /\ n \in 1..n
        BY <1>7, <1>8, <2>3
      <3>2. End(r, n) = CountAfter(sent[r][n])
        BY <3>1 DEF End
      <3>3. sent[r][i] \in Requests /\ sent[r][n] \in Requests
        BY <1>7, <3>1 DEF n
      <3>4. i = n \/ CountAfter(sent[r][i]) <= sent[r][n].before
        BY <1>7, <3>1 DEF JointInv, Ordered, n
      <3>5. CountAfter(sent[r][i]) <= CountAfter(sent[r][n])
        BY <3>3, <3>4 DEF CountAfter, Requests
      <3> QED BY <1>8, <1>9, <2>3, <3>1, <3>2, <3>5
    <2> QED BY <2>1, <2>2, <2>3
  <1>14. \A s \in Ranks : \A i \in 1..Len(answers[s]) : sent'[s][i] = sent[s][i]
    <2> SUFFICES ASSUME NEW s \in Ranks, NEW i \in 1..Len(answers[s])
                 PROVE  sent'[s][i] = sent[s][i]
      OBVIOUS
    <2>1. i \in 1..Len(sent[s])
      BY Cursors
    <2> QED BY <1>6, <1>8, <2>1 DEF n
  <1>15. JointAnswers'
    <2> SUFFICES ASSUME NEW u \in Ranks, NEW s \in Ranks,
                        NEW i \in 1..Len(answers'[u]), answers'[u][i]
                 PROVE  \E j \in 1..Len(answers'[s]) :
                            sent'[s][j] = sent'[u][i] /\ answers'[s][j]
      BY DEF JointAnswers
    <2>0. answers' = answers /\ i \in 1..Len(answers[u]) /\ answers[u][i]
      BY <1>1
    <2>1. answers[u][i] => \E j \in 1..Len(answers[s]) :
                               sent[s][j] = sent[u][i] /\ answers[s][j]
      BY <2>0 DEF JointInv, JointAnswers
    <2>2. PICK j \in 1..Len(answers[s]) : sent[s][j] = sent[u][i] /\ answers[s][j]
      BY <2>0, <2>1
    <2>3. sent'[s][j] = sent[s][j] /\ sent'[u][i] = sent[u][i]
      BY <1>14, <2>0
    <2> QED BY <2>0, <2>2, <2>3
  <1>16. ASSUME IssuedAnswered PROVE IssuedAnswered'
    <2> SUFFICES ASSUME NEW s \in Ranks, NEW i \in 1..Len(issued[s])
                 PROVE  \E k \in 1..read[s] : BelongsTo(s, i, k)'
      BY <1>1 DEF IssuedAnswered
    <2>1. PICK k \in 1..read[s] : BelongsTo(s, i, k)
      BY <1>16 DEF IssuedAnswered
    <2>2. k \in 1..Len(answers[s])
      BY Cursors
    <2>3. sent'[s][k] = sent[s][k]
      BY <1>14, <2>2
    <2> QED BY <1>1, <2>1, <2>3 DEF BelongsTo, CountAfter
  <1> QED BY <1>11, <1>12, <1>13, <1>15, <1>16 DEF JointInv

\* The region's collectives belong to the request that was answered.
LEMMA ReceiveJoint ==
    ASSUME Inv, JointInv, NEW r \in Ranks, Receive(r)
    PROVE  JointInv' /\ (CountsExact => CountsExact')
  <1> DEFINE n == read[r] + 1
             success == answers[r][n]
             x == Region(r)
             m == sent[r][n]
  <1> USE DEF Inv
  <1>1. /\ pc[r] = "waiting" /\ read[r] < Len(answers[r])
        /\ read' = [read EXCEPT ![r] = @ + 1]
        /\ Issue(r, success)
        /\ pc' = [pc EXCEPT ![r] = "ready"]
        /\ UNCHANGED <<program, count, sent, answers>>
    BY DEF Receive
  <1>2. /\ read[r] \in Nat /\ Len(answers[r]) \in Nat
        /\ n \in 1..Len(answers[r]) /\ n \in 1..Len(sent[r]) /\ Len(sent[r]) \in Nat
        /\ Len(answers[r]) <= Len(sent[r])
    BY <1>1, Cursors
  <1>3. success \in BOOLEAN
    <2>1. answers[r] \in Seq(BOOLEAN)
      BY DEF TypeOK
    <2> QED BY <1>2, <2>1
  <1>4. /\ n = Len(sent[r])
        /\ m.exe = x /\ m.before = count[r].before /\ m.num = count[r].num
        /\ m.num = NumCollectives[x]
    BY <1>1, <1>2 DEF JointInv, Asked
  <1>5. m \in Requests
    BY <1>2 DEF TypeOK
  <1>6. count[r].before \in Nat /\ count[r].num \in Nat
    BY DEF TypeOK
  <1>7. /\ NumCollectives[x] \in Nat \ {0} /\ Len(issued[r]) \in Nat
        /\ Len(issued'[r]) = Len(issued[r]) + NumCollectives[x]
        /\ \A i \in 1..Len(issued[r]) : issued'[r][i] = issued[r][i]
        /\ \A i \in (Len(issued[r]) + 1)..Len(issued'[r]) :
              issued'[r][i] = [exe |-> x, start |-> Len(issued[r]),
                               joint |-> success]
        /\ \A s \in Ranks : s # r => issued'[s] = issued[s] /\ next'[s] = next[s]
    <2>1. next[r] <= Len(program[r])
      BY <1>1 DEF InProgram
    <2> HIDE DEF success
    <2> QED BY <1>1, <1>3, <2>1, IssueAdds
  <1>8. /\ pc'[r] = "ready" /\ read'[r] = n
        /\ \A s \in Ranks : s # r => pc'[s] = pc[s] /\ read'[s] = read[s]
    BY <1>1 DEF TypeOK
  <1> HIDE DEF n, success, x, m
  <1>9. /\ Counted(r) = count[r].before
        /\ Counted(r)' = count[r].before + NumCollectives[x]
        /\ \A s \in Ranks : s # r => Counted(s)' = Counted(s)
    BY <1>1, <1>4, <1>8 DEF Counted, CountAfter
  <1>10. CountsLow'
    <2> SUFFICES ASSUME NEW s \in Ranks PROVE Counted(s)' <= Len(issued'[s])
      BY DEF CountsLow
    <2>1. Counted(s) <= Len(issued[s])
      BY DEF JointInv, CountsLow
    <2>2. CASE s = r
      BY <1>6, <1>7, <1>9, <2>1, <2>2
    <2>3. CASE s # r
      BY <1>7, <1>9, <2>1, <2>3
    <2> QED BY <2>2, <2>3
  <1>11. ASSUME CountsExact' PROVE CountsExact
    <2> SUFFICES ASSUME NEW s \in Ranks PROVE Counted(s) = Len(issued[s])
      BY DEF CountsExact
    <2>1. Counted(s)' = Len(issued'[s])
      BY <1>11 DEF CountsExact
    <2>2. CASE s = r
      BY <1>6, <1>7, <1>9, <2>1, <2>2
    <2>3. CASE s # r
      BY <1>7, <1>9, <2>1, <2>3
    <2> QED BY <2>2, <2>3
  <1>15. ASSUME CountsExact PROVE CountsExact'
    <2> SUFFICES ASSUME NEW s \in Ranks PROVE Counted(s)' = Len(issued'[s])
      BY DEF CountsExact
    <2>1. Counted(s) = Len(issued[s])
      BY <1>15 DEF CountsExact
    <2>2. CASE s = r
      BY <1>6, <1>7, <1>9, <2>1, <2>2
    <2>3. CASE s # r
      BY <1>7, <1>9, <2>1, <2>3
    <2> QED BY <2>2, <2>3
  <1>12. Asked'
    <2> SUFFICES ASSUME NEW s \in Ranks
                 PROVE  /\ pc'[s] = "ready" => read'[s] = Len(sent'[s])
                        /\ pc'[s] = "waiting" =>
                              LET q == sent'[s][Len(sent'[s])] IN
                              /\ read'[s] + 1 = Len(sent'[s])
                              /\ q.exe = Region(s)' /\ q.before = count'[s].before
                              /\ q.num = count'[s].num
                              /\ q.num = NumCollectives[Region(s)']
      BY DEF Asked
    <2>1. CASE s = r
      BY <1>1, <1>4, <1>8, <2>1
    <2>2. CASE s # r
      <3>1. Region(s)' = Region(s)
        BY <1>1, <1>7, <2>2 DEF Region
      <3> QED BY <1>1, <1>8, <2>2, <3>1 DEF JointInv, Asked
    <2> QED BY <2>1, <2>2
  <1>13. Ordered' /\ JointAnswers'
    <2>1. Ordered' /\ sent' = sent /\ answers' = answers
      BY <1>1 DEF JointInv, Ordered, CountAfter
    <2>2. JointAnswers
      BY DEF JointInv
    <2> QED BY <2>1, <2>2, JointAnswersKept
  <1>14. ASSUME CountsExact, IssuedAnswered PROVE IssuedAnswered'
    <2> SUFFICES ASSUME NEW s \in Ranks, NEW i \in 1..Len(issued'[s])
                 PROVE  \E k \in 1..read'[s] : BelongsTo(s, i, k)'
      BY DEF IssuedAnswered
    <2>1. CASE s # r
      <3>1. PICK k \in 1..read[s] : BelongsTo(s, i, k)
        BY <1>7, <1>14, <2>1 DEF IssuedAnswered
      <3>2. BelongsTo(s, i, k)'
        BY <1>1, <1>7, <2>1, <3>1 DEF BelongsTo, CountAfter
      <3> QED BY <1>8, <2>1, <3>1, <3>2
    <2>2. CASE s = r /\ i \in 1..Len(issued[r])
      <3>1. PICK k \in 1..read[s] : BelongsTo(s, i, k)
        BY <1>14, <2>2 DEF IssuedAnswered
      <3>2. issued'[s][i] = issued[s][i]
        BY <1>7, <2>2
      <3>3. BelongsTo(s, i, k)'
        BY <1>1, <3>1, <3>2 DEF BelongsTo, CountAfter
      <3>4. k \in 1..read'[s]
        BY <1>2, <1>8, <2>2, <3>1 DEF n
      <3> QED BY <3>3, <3>4
    <2>3. CASE s = r /\ i \notin 1..Len(issued[r])
      <3>1. i \in (Len(issued[r]) + 1)..Len(issued'[r])
        BY <1>7, <2>3
      <3>2. Len(issued[r]) = m.before
        BY <1>4, <1>9, <1>14 DEF CountsExact
      <3>3. issued'[r][i] = [exe |-> m.exe, start |-> m.before,
                             joint |-> answers[r][n]]
        BY <1>4, <1>7, <3>1, <3>2 DEF success
      <3>4. m.before < i /\ i <= CountAfter(m)
        BY <1>4, <1>7, <3>1, <3>2 DEF CountAfter
      <3>5. PICK k \in Nat : k = n
        BY <1>2
      <3>6. BelongsTo(r, i, k)'
        BY <1>1, <3>3, <3>4, <3>5 DEF BelongsTo, CountAfter, m
      <3>7. k \in 1..read'[r]
        BY <1>2, <1>8, <3>5
      <3> QED BY <2>3, <3>6, <3>7
    <2> QED BY <2>1, <2>2, <2>3
  <1> QED BY <1>10, <1>11, <1>12, <1>13, <1>14, <1>15 DEF JointInv

\* Collectives that are not counted are never made up for.
LEMMA CallDirectlyJoint ==
    ASSUME Inv, JointInv, NEW r \in Ranks, CallDirectly(r)
    PROVE  JointInv' /\ ~CountsExact'
  <1> DEFINE joint == mode[r][Region(r)] = "joint"
  <1> USE DEF Inv
  <1>1. /\ pc[r] = "ready" /\ next[r] <= Len(program[r])
        /\ Issue(r, joint)
        /\ UNCHANGED <<program, pc, mode, count, sent, answers, read>>
    BY DEF CallDirectly, ReachesRegion, chanVars
  <1>2. joint \in BOOLEAN
    OBVIOUS
  <1> HIDE DEF joint
  <1>3. /\ NumCollectives[Region(r)] \in Nat \ {0} /\ Len(issued[r]) \in Nat
        /\ Len(issued'[r]) = Len(issued[r]) + NumCollectives[Region(r)]
        /\ \A s \in Ranks : s # r => issued'[s] = issued[s] /\ next'[s] = next[s]
    BY <1>1, <1>2, IssueAdds
  <1>4. \A s \in Ranks : Counted(s)' = Counted(s)
    BY <1>1 DEF Counted, CountAfter
  <1>5. \A s \in Ranks : Counted(s) <= Len(issued[s])
    BY DEF JointInv, CountsLow
  <1>6. Counted(r) \in Nat
    BY <1>1 DEF Counted, CountAfter, TypeOK
  <1>7. Counted(r)' < Len(issued'[r])
    BY <1>3, <1>4, <1>5, <1>6
  <1>8. CountsLow' /\ ~CountsExact'
    <2>1. ASSUME NEW s \in Ranks PROVE Counted(s)' <= Len(issued'[s])
      <3>1. CASE s = r
        BY <1>3, <1>4, <1>6, <1>7, <3>1
      <3>2. CASE s # r
        BY <1>3, <1>4, <1>5, <3>2
      <3> QED BY <3>1, <3>2
    <2>2. Counted(r)' # Len(issued'[r])
      BY <1>3, <1>4, <1>6, <1>7
    <2> QED BY <2>1, <2>2 DEF CountsLow, CountsExact
  <1>9. Asked'
    <2> SUFFICES ASSUME NEW s \in Ranks
                 PROVE  /\ pc'[s] = "ready" => read'[s] = Len(sent'[s])
                        /\ pc'[s] = "waiting" =>
                              LET q == sent'[s][Len(sent'[s])] IN
                              /\ read'[s] + 1 = Len(sent'[s])
                              /\ q.exe = Region(s)' /\ q.before = count'[s].before
                              /\ q.num = count'[s].num
                              /\ q.num = NumCollectives[Region(s)']
      BY DEF Asked
    <2>1. CASE s = r
      BY <1>1, <2>1 DEF JointInv, Asked
    <2>2. CASE s # r
      <3>1. Region(s)' = Region(s)
        BY <1>1, <1>3, <2>2 DEF Region
      <3> QED BY <1>1, <2>2, <3>1 DEF JointInv, Asked
    <2> QED BY <2>1, <2>2
  <1>10. Ordered' /\ JointAnswers'
    <2>1. Ordered' /\ sent' = sent /\ answers' = answers
      BY <1>1 DEF JointInv, Ordered, CountAfter
    <2>2. JointAnswers
      BY DEF JointInv
    <2> QED BY <2>1, <2>2, JointAnswersKept
  <1> QED BY <1>8, <1>9, <1>10 DEF JointInv

LEMMA NextJoint ==
    ASSUME Inv, JointInv, [Next]_vars
    PROVE  JointInv'
  <1>1. CASE \E r \in Ranks : RankStep(r)
    BY <1>1, SubmitJoint, ReceiveJoint, CallDirectlyJoint DEF RankStep
  <1>2. CASE \E r \in Ranks : Listen(r) \/ GetFirst(r) \/ GetFromRank(r)
    BY <1>2, ServerJoint DEF Listen, GetFirst, GetFromRank
  <1>3. CASE Decide
    <2>1. \A r \in Ranks : taken[r] > 0 /\ Len(answers[r]) = taken[r] - 1
      BY <1>3 DEF Inv, Decide, Served, Held
    <2>2. /\ AllMatch \in BOOLEAN
          /\ AllMatch => \A r, s \in Ranks : Message(r) = Message(s)
      BY DEF AllMatch
    <2> QED BY <1>3, <2>1, <2>2, AnswerJoint DEF Decide
  <1>4. CASE Refuse
    <2>1. Behind(local, target) \in SUBSET Ranks
      BY DEF Behind
    <2>2. \A r \in Behind(local, target) :
             taken[r] > 0 /\ Len(answers[r]) = taken[r] - 1
      BY <1>4, <2>1 DEF Inv, Refuse, Served, Held
    <2> QED BY <1>4, <2>1, <2>2, AnswerJoint DEF Refuse
  <1>5. CASE UNCHANGED vars
    BY <1>5, ServerJoint DEF vars, chanVars
  <1> QED BY <1>1, <1>2, <1>3, <1>4, <1>5 DEF Next, ServerStep, Terminated

\* For any number of ranks and any workloads, as long as the counts each rank
\* keeps in _RANK_COLLECTIVE_COUNTS agree with the collectives it issued, an
\* executable with collectives is launched only where all ranks launch it.
\* The counts fall behind when a region that was split runs again without a
\* handshake; JointOnAllRanks can then fail.
THEOREM JointExecutablesMeet == Spec => [](CountsExact => JointOnAllRanks)
  <1>1. ASSUME Inv, JointInv, CountsExact PROVE JointOnAllRanks
    <2> USE <1>1 DEF Inv
    <2> SUFFICES ASSUME NEW r \in Ranks, NEW s \in Ranks,
                        NEW i \in DOMAIN issued[r] \cap DOMAIN issued[s],
                        issued[r][i].joint
                 PROVE  issued[s][i] = issued[r][i]
      BY DEF JointOnAllRanks
    <2>0. /\ \A q \in Ranks : DOMAIN issued[q] = 1..Len(issued[q])
          /\ \A q \in Ranks : \A l \in 1..Len(sent[q]) : sent[q][l] \in Requests
          /\ \A q \in Ranks : \A l \in 1..Len(answers[q]) : answers[q][l] \in BOOLEAN
      <3>1. /\ issued \in [Ranks -> Seq(Collectives)]
            /\ sent \in [Ranks -> Seq(Requests)]
            /\ answers \in [Ranks -> Seq(BOOLEAN)]
        BY DEF TypeOK
      <3> QED BY <3>1
    <2>1. i \in 1..Len(issued[r]) /\ i \in 1..Len(issued[s])
      BY <2>0
    <2>2. PICK n \in 1..read[r] : BelongsTo(r, i, n)
      BY <2>1 DEF JointInv, IssuedAnswered
    <2>3. PICK k \in 1..read[s] : BelongsTo(s, i, k)
      BY <2>1 DEF JointInv, IssuedAnswered
    <2>4. /\ n \in 1..Len(answers[r]) /\ k \in 1..Len(answers[s])
          /\ k \in 1..Len(sent[s])
      BY Cursors
    <2>5. answers[r][n]
      BY <2>2 DEF BelongsTo
    <2>6. PICK j \in 1..Len(answers[s]) : sent[s][j] = sent[r][n] /\ answers[s][j]
      <3>1. answers[r][n] => \E j \in 1..Len(answers[s]) :
                                 sent[s][j] = sent[r][n] /\ answers[s][j]
        BY <2>4 DEF JointInv, JointAnswers
      <3> QED BY <2>5, <3>1
    <2>7. j \in 1..Len(sent[s])
      BY Cursors
    <2>8. k = j
      <3>1. /\ sent[s][k].before < i /\ i <= CountAfter(sent[s][k])
            /\ sent[s][j].before < i /\ i <= CountAfter(sent[s][j])
        BY <2>2, <2>3, <2>6 DEF BelongsTo
      <3>2. /\ CountAfter(sent[s][k]) \in Nat /\ sent[s][k].before \in Nat
            /\ CountAfter(sent[s][j]) \in Nat /\ sent[s][j].before \in Nat
        <4>1. sent[s][k] \in Requests /\ sent[s][j] \in Requests
          BY <2>0, <2>4, <2>7
        <4> QED BY <4>1 DEF Requests, CountAfter
      <3>3. /\ k < j => CountAfter(sent[s][k]) <= sent[s][j].before
            /\ j < k => CountAfter(sent[s][j]) <= sent[s][k].before
        BY <2>4, <2>7 DEF JointInv, Ordered
      <3> QED BY <2>1, <2>4, <2>7, <3>1, <3>2, <3>3
    <2>9. answers[s][k] = answers[r][n]
      <3>1. /\ answers[s][k] \in BOOLEAN /\ answers[r][n] \in BOOLEAN
            /\ answers[s][k]
        BY <2>0, <2>4, <2>6, <2>8
      <3> QED BY <2>5, <3>1
    <2> QED BY <2>2, <2>3, <2>6, <2>8, <2>9 DEF BelongsTo
  <1> QED BY <1>1, InitJoint, NextJoint, SpecInv, PTL DEF Spec

-----------------------------------------------------------------------------
(* When the counts are exact. *)

\* No rank runs a region twice.
RegionsDistinct ==
    \A r \in Ranks : \A i, j \in 1..Len(program[r]) :
        program[r][i] = program[r][j] => i = j

\* The ranks handshake at every dispatch and have agreed so far.
NobodySplit ==
    Stage = "DISPATCH" /\ \A r \in Ranks, x \in Executables : mode[r][x] # "split"

FreshAhead ==
    \A r \in Ranks : \A i \in 1..Len(program[r]) :
        next[r] <= i => mode[r][program[r][i]] = "new"

\* The region a rank waits for was not split when it asked.
AskedUnsplit ==
    Stage = "DISPATCH" =>
        \A r \in Ranks : pc[r] = "waiting" => mode[r][Region(r)] # "split"

ExactInv ==
    /\ RegionsDistinct \/ NobodySplit => CountsExact
    /\ RegionsDistinct => FreshAhead
    /\ AskedUnsplit

\* A step that leaves the ranks alone.
LEMMA ServerExact ==
    ASSUME ExactInv, UNCHANGED rankVars
    PROVE  ExactInv'
  <1>1. UNCHANGED <<program, next, pc, mode, count, issued>>
    BY DEF rankVars
  <1>2. CountsExact => CountsExact'
    BY <1>1 DEF CountsExact, Counted, CountAfter
  <1>3. /\ RegionsDistinct' <=> RegionsDistinct
        /\ NobodySplit' <=> NobodySplit
        /\ FreshAhead => FreshAhead'
        /\ AskedUnsplit'
    BY <1>1 DEF ExactInv, RegionsDistinct, NobodySplit, FreshAhead, AskedUnsplit,
                Region
  <1> QED BY <1>2, <1>3 DEF ExactInv

LEMMA ReceiveExact ==
    ASSUME Inv, JointInv, ExactInv, NEW r \in Ranks, Receive(r)
    PROVE  ExactInv'
  <1> USE DEF Inv
  <1>1. /\ pc[r] = "waiting" /\ program' = program
        /\ next' = [next EXCEPT ![r] = @ + 1]
        /\ pc' = [pc EXCEPT ![r] = "ready"]
    BY DEF Receive, Issue
  <1>2. PICK v \in {"joint", "split"} :
           mode' = [mode EXCEPT ![r][Region(r)] = v]
    BY DEF Receive
  <1>3. next[r] \in 1..Len(program[r]) /\ Region(r) \in Executables
    <2>1. program[r] \in Seq(Executables) /\ next[r] \in 1..Len(program[r])
      BY <1>1 DEF TypeOK, InProgram
    <2> QED BY <2>1 DEF Region
  <1>4. /\ mode'[r][Region(r)] = v
        /\ \A s \in Ranks, x \in Executables :
              s # r \/ x # Region(r) => mode'[s][x] = mode[s][x]
    BY <1>2, <1>3 DEF TypeOK
  <1>5. /\ next'[r] = next[r] + 1 /\ next[r] \in Nat /\ pc'[r] = "ready"
        /\ \A s \in Ranks : s # r => next'[s] = next[s] /\ pc'[s] = pc[s]
    BY <1>1 DEF TypeOK
  <1>6. RegionsDistinct' <=> RegionsDistinct
    BY <1>1 DEF RegionsDistinct
  <1>7. ASSUME NobodySplit' PROVE NobodySplit
    <2> SUFFICES ASSUME NEW s \in Ranks, NEW x \in Executables
                 PROVE  mode[s][x] # "split"
      BY <1>7 DEF NobodySplit
    <2>1. Stage = "DISPATCH" /\ mode'[s][x] # "split"
      BY <1>7 DEF NobodySplit
    <2>2. CASE s = r /\ x = Region(r)
      BY <1>1, <2>1, <2>2 DEF ExactInv, AskedUnsplit
    <2>3. CASE s # r \/ x # Region(r)
      BY <1>4, <2>1, <2>3
    <2> QED BY <2>2, <2>3
  <1>8. ASSUME RegionsDistinct, FreshAhead PROVE FreshAhead'
    <2> SUFFICES ASSUME NEW s \in Ranks, NEW i \in 1..Len(program[s]), next'[s] <= i
                 PROVE  mode'[s][program[s][i]] = "new"
      BY <1>1 DEF FreshAhead
    <2>1. program[s][i] \in Executables
      <3>1. program[s] \in Seq(Executables)
        BY DEF TypeOK
      <3> QED BY <3>1
    <2>2. CASE s = r
      <3>1. next[r] <= i /\ i # next[r]
        BY <1>5, <2>2
      <3>2. program[r][i] # Region(r)
        BY <1>3, <1>8, <2>2, <3>1 DEF RegionsDistinct, Region
      <3>3. mode[r][program[r][i]] = "new"
        BY <1>8, <2>2, <3>1 DEF FreshAhead
      <3> QED BY <1>4, <2>1, <2>2, <3>2, <3>3
    <2>3. CASE s # r
      <3>1. mode[s][program[s][i]] = "new"
        BY <1>5, <1>8, <2>3 DEF FreshAhead
      <3> QED BY <1>4, <2>1, <2>3, <3>1
    <2> QED BY <2>2, <2>3
  <1>9. AskedUnsplit'
    <2> SUFFICES ASSUME Stage = "DISPATCH", NEW s \in Ranks, pc'[s] = "waiting"
                 PROVE  mode'[s][Region(s)'] # "split"
      BY DEF AskedUnsplit
    <2>1. s # r /\ pc[s] = "waiting" /\ next'[s] = next[s]
      BY <1>5
    <2>2. Region(s)' = Region(s) /\ mode'[s] = mode[s]
      BY <1>1, <1>2, <2>1 DEF Region, TypeOK
    <2> QED BY <2>1, <2>2 DEF ExactInv, AskedUnsplit
  <1>10. CountsExact => CountsExact'
    BY ReceiveJoint
  <1> QED BY <1>6, <1>7, <1>8, <1>9, <1>10 DEF ExactInv

\* The counts a rank sends are exact in two cases: no rank runs a region twice,
\* or the ranks handshake at every dispatch and no region has been split yet
\* (so a loop over one region that all ranks compiled alike is covered).
THEOREM HandshakesKeepCount ==
    Spec => [](RegionsDistinct \/ NobodySplit => CountsExact)
  <1>1. Init => ExactInv
    <2> SUFFICES ASSUME Init PROVE ExactInv
      OBVIOUS
    <2>1. CountsExact /\ AskedUnsplit
      BY DEF Init, CountsExact, Counted, CountAfter, AskedUnsplit
    <2>2. program \in [Ranks -> Seq(Executables)]
      BY WorkloadAssumption DEF Init
    <2>3. ASSUME NEW r \in Ranks, NEW i \in 1..Len(program[r])
          PROVE  mode[r][program[r][i]] = "new"
      <3>1. program[r] \in Seq(Executables)
        BY <2>2
      <3>2. program[r][i] \in Executables
        BY <3>1
      <3> QED BY <3>2 DEF Init
    <2> QED BY <2>1, <2>3 DEF ExactInv, FreshAhead
  <1>2. ASSUME Inv, JointInv, ExactInv, [Next]_vars
        PROVE  ExactInv'
    <2>1. ASSUME NEW r \in Ranks, Submit(r) PROVE ExactInv'
      <3>1. /\ UNCHANGED <<program, next, mode>>
            /\ pc' = [pc EXCEPT ![r] = "waiting"]
            /\ NeedsHandshake(r)
        BY <2>1 DEF Submit
      <3>2. CountsExact => CountsExact'
        BY <1>2, <2>1, SubmitJoint
      <3>3. /\ RegionsDistinct' <=> RegionsDistinct
            /\ NobodySplit' <=> NobodySplit
            /\ FreshAhead => FreshAhead'
        BY <3>1 DEF RegionsDistinct, NobodySplit, FreshAhead
      <3>4. ASSUME Stage = "DISPATCH", NEW s \in Ranks, pc'[s] = "waiting"
            PROVE  mode'[s][Region(s)'] # "split"
        <4>1. Region(s)' = Region(s) /\ mode' = mode
          BY <3>1 DEF Region
        <4>2. CASE s = r
          BY <3>1, <3>4, <4>1, <4>2 DEF NeedsHandshake
        <4>3. CASE s # r
          <5>1. pc[s] = "waiting"
            BY <1>2, <3>1, <3>4, <4>3 DEF Inv, TypeOK
          <5> QED BY <1>2, <3>4, <4>1, <5>1 DEF ExactInv, AskedUnsplit
        <4> QED BY <4>2, <4>3
      <3>5. AskedUnsplit'
        BY <3>4 DEF AskedUnsplit
      <3> QED BY <1>2, <3>2, <3>3, <3>5 DEF ExactInv
    <2>2. ASSUME NEW r \in Ranks, CallDirectly(r) PROVE ExactInv'
      <3>1. /\ UNCHANGED <<program, pc, mode>> /\ pc[r] = "ready"
            /\ next[r] <= Len(program[r]) /\ ~NeedsHandshake(r)
            /\ next' = [next EXCEPT ![r] = @ + 1]
        BY <2>2 DEF CallDirectly, ReachesRegion, Issue
      <3>2. next[r] \in 1..Len(program[r]) /\ Region(r) \in Executables
        <4>1. program[r] \in Seq(Executables) /\ next[r] \in 1..Len(program[r])
          BY <1>2, <3>1 DEF Inv, TypeOK
        <4> QED BY <4>1 DEF Region
      <3>3. ~RegionsDistinct
        <4> SUFFICES ASSUME RegionsDistinct PROVE FALSE
          OBVIOUS
        <4>1. mode[r][Region(r)] = "new"
          BY <1>2, <3>2 DEF ExactInv, FreshAhead, Region
        <4> QED BY <3>1, <4>1, StageAssumption DEF NeedsHandshake
      <3>4. ~NobodySplit
        BY <3>1, <3>2 DEF NobodySplit, NeedsHandshake
      <3>5. ~RegionsDistinct' /\ ~NobodySplit'
        BY <3>1, <3>3, <3>4 DEF RegionsDistinct, NobodySplit
      <3>6. AskedUnsplit'
        <4> SUFFICES ASSUME Stage = "DISPATCH", NEW s \in Ranks, pc'[s] = "waiting"
                     PROVE  mode'[s][Region(s)'] # "split"
          BY DEF AskedUnsplit
        <4>1. s # r /\ pc[s] = "waiting"
          BY <3>1
        <4>2. Region(s)' = Region(s) /\ mode' = mode
          BY <1>2, <3>1, <4>1 DEF Region, Inv, TypeOK
        <4> QED BY <1>2, <4>1, <4>2 DEF ExactInv, AskedUnsplit
      <3> QED BY <3>5, <3>6 DEF ExactInv
    <2>3. ASSUME NEW r \in Ranks, Receive(r) PROVE ExactInv'
      BY <1>2, <2>3, ReceiveExact
    <2>4. CASE UNCHANGED rankVars
      BY <1>2, <2>4, ServerExact
    <2>5. CASE \E r \in Ranks : Listen(r)
      BY <2>4, <2>5 DEF Listen
    <2>6. CASE ServerStep
      BY <2>4, <2>6 DEF ServerStep, GetFirst, GetFromRank, Decide, Refuse
    <2>7. CASE UNCHANGED vars
      BY <2>4, <2>7 DEF vars
    <2> QED BY <1>2, <2>1, <2>2, <2>3, <2>5, <2>6, <2>7
            DEF Next, RankStep, Terminated
  <1>3. ExactInv => (RegionsDistinct \/ NobodySplit => CountsExact)
    BY DEF ExactInv
  <1> QED BY <1>1, <1>2, <1>3, InitJoint, NextJoint, SpecInv, PTL DEF Spec
=============================================================================
