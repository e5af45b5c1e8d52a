--------------------------- MODULE UnevenAllToAll ---------------------------
(***************************************************************************)
(* all_to_all and all_to_all_single of a process group.  A call whose      *)
(* slices have different sizes needs to know where its slices land on the  *)
(* other ranks: every rank publishes the offsets of its output in the      *)
(* store, under a sequence number that counts such calls, and reads those  *)
(* of the others.                                                          *)
(*                                                                         *)
(* A call is a record: single tells all_to_all_single from all_to_all,     *)
(* send and recv are the sizes of the slices along dimension 0.  Sizes are *)
(* given for every rank and add up to the size of the tensor, as           *)
(* ValidateSplitSizesForAllToAllSingle demands.                            *)
(***************************************************************************)
EXTENDS GroupStore, Sequences, FiniteSets

CONSTANT MaxSize      \* bound on the sizes of slices

ASSUME SizesAssumption == MaxSize \in Nat

Sizes == [Ranks -> 0..MaxSize]

VARIABLES
    sequence,   \* alltoall_seq_ of each rank
    published,  \* the values of the store under alltoall_offsets:<seq>:<rank>
    issued      \* the collectives each rank has dispatched to its device

allToAllVars == <<sequence, published, issued>>

\* The running sum of the sizes of the first n ranks.
PrefixSum(sizes, n) ==
    LET sum[i \in Nat] == IF i = 0 THEN 0 ELSE sum[i - 1] + sizes[i - 1]
    IN  sum[n]
Total(sizes) == PrefixSum(sizes, NumRanks)

Offsets == 0..(NumRanks * MaxSize)
Payload == [offsets: [Ranks -> Offsets], recv: Sizes, input: Offsets, output: Offsets,
            call: 1..MaxCalls]
\* What the store answers for a key that was not set is no payload.
ASSUME AbsentAssumption == Absent \notin Payload

Collective == [kind: {"even", "ragged"}, call: 1..MaxCalls, send: Sizes, recv: Sizes,
               to: [Ranks -> Offsets], met: [Ranks -> 1..MaxCalls]]

AllToAllTypeOK ==
    /\ sequence \in [Ranks -> 0..MaxCalls]
    /\ published \in [0..MaxCalls -> [Ranks -> Payload \cup {Absent}]]
    /\ issued \in [Ranks -> Seq(Collective)]

AllToAllInit ==
    /\ sequence = [r \in Ranks |-> 0]
    /\ published = [s \in 0..MaxCalls |-> [r \in Ranks |-> Absent]]
    /\ issued = [r \in Ranks |-> <<>>]

IsEqualSplits(sizes) == \A p, q \in Ranks : sizes[p] = sizes[q]

\* Each rank looks at its own sizes.  IsUniformAllToAll compares all shapes,
\* all_to_all_single checks input and output apart.
TakesEvenPath(c) ==
    /\ IsEqualSplits(c.send) /\ IsEqualSplits(c.recv)
    /\ c.single \/ c.send = c.recv

\* AllToAllBaseEqualSplits refuses an input and an output of different shape.
EvenCallAccepted(c) == Total(c.send) = Total(c.recv)

\* The n-th call of rank r is dispatched without asking the others.
DispatchEven(r, c, n) ==
    /\ issued' = [issued EXCEPT ![r] = Append(@,
           [kind |-> "even", call |-> n, send |-> c.send, recv |-> c.recv,
            to |-> [p \in Ranks |-> 0], met |-> [p \in Ranks |-> n]])]
    /\ UNCHANGED <<sequence, published>>

\* Where the slices of the others land in the output of this rank.
LocalOutputOffsets(c) == [p \in Ranks |-> PrefixSum(c.recv, p)]

\* Fault: the offsets of a later call replace those of an earlier one.
PublishOffsetsOnce(r, c, n) ==
    /\ published' = [published EXCEPT ![0][r] =
           [offsets |-> LocalOutputOffsets(c), recv |-> c.recv, input |-> Total(c.send),
            output |-> Total(c.recv), call |-> n]]
    /\ sequence' = [sequence EXCEPT ![r] = 1]
    /\ UNCHANGED issued

\* SynchronizeOutputOffsets: the payload of this rank is published first.
PublishOffsets(r, c, n) ==
    /\ published' = [published EXCEPT ![sequence[r]][r] =
           [offsets |-> LocalOutputOffsets(c), recv |-> c.recv, input |-> Total(c.send),
            output |-> Total(c.recv), call |-> n]]
    /\ sequence' = [sequence EXCEPT ![r] = @ + 1]
    /\ UNCHANGED issued

\* multiGet returns once all ranks have published under the number r took.
Peers(r) == published[sequence[r] - 1]
AllPublished(r) == \A p \in Ranks : Peers(r)[p] # Absent

\* Fault: the size a peer expects from itself is compared.
SizesAgreeOwnSlot(r, c) ==
    \A p \in Ranks :
        /\ Peers(r)[p].input = Total(c.send)
        /\ Peers(r)[p].output = Total(c.recv)
        /\ Peers(r)[p].recv[p] = c.send[p]

\* Capacities are symmetric, and every rank expects what this rank sends.
SizesAgree(r, c) ==
    \A p \in Ranks :
        /\ Peers(r)[p].input = Total(c.send)
        /\ Peers(r)[p].output = Total(c.recv)
        /\ Peers(r)[p].recv[r] = c.send[p]

\* Fault: the offsets of this rank's own output are used on its peers.
DispatchRaggedLocalOffsets(r, c, n) ==
    /\ issued' = [issued EXCEPT ![r] = Append(@,
           [kind |-> "ragged", call |-> n, send |-> c.send, recv |-> c.recv,
            to |-> LocalOutputOffsets(c), met |-> [p \in Ranks |-> Peers(r)[p].call]])]
    /\ UNCHANGED <<sequence, published>>

DispatchRagged(r, c, n) ==
    /\ issued' = [issued EXCEPT ![r] = Append(@,
           [kind |-> "ragged", call |-> n, send |-> c.send, recv |-> c.recv,
            to |-> [p \in Ranks |-> Peers(r)[p].offsets[r]],
            met |-> [p \in Ranks |-> Peers(r)[p].call]])]
    /\ UNCHANGED <<sequence, published>>
=============================================================================
