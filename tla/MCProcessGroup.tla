--------------------------- MODULE MCProcessGroup ---------------------------
EXTENDS ProcessGroup

Uniform(n) == [p \in Ranks |-> n]
Deploy(program, bound) == [program |-> program, faults |-> bound]

\* The programs in which rank s sends m[s][d] rows to rank d.
Exchange(single, m) ==
    [r \in Ranks |-> <<AllToAll(single, m[r], [s \in Ranks |-> m[s][r]])>>]
Matrices(sizes) == [Ranks -> [Ranks -> sizes]]

Agreed(program) ==
    \A r, s \in Ranks : \A n \in DOMAIN program[r] :
        TakesEvenPath(program[r][n]) <=> TakesEvenPath(program[s][n])

SingleCalls ==
    {Deploy(p, 0) : p \in {q \in {Exchange(TRUE, m) : m \in Matrices({1, 2})} : Agreed(q)}}

\* One rank more than the others is sent two rows by each rank.
Shifted(k) == [s \in Ranks |-> [d \in Ranks |-> IF d = (s + k) % NumRanks THEN 2 ELSE 1]]
Even == [s \in Ranks |-> Uniform(1)]

\* Two calls, of which both, one or none is uneven.
TwoCalls ==
    {Deploy([r \in Ranks |-> Exchange(a, m)[r] \o Exchange(~a, n)[r]], 1) :
        a \in BOOLEAN, m \in {Shifted(0), Shifted(1), Even}, n \in {Shifted(2), Even}}

\* Rank r expects another size from rank s.
Misfits ==
    LET fit == Exchange(TRUE, Shifted(1))
    IN  {Deploy([fit EXCEPT ![r] = <<[fit[r][1] EXCEPT !.recv[s] = 0]>>], 0) :
            r \in Ranks, s \in Ranks}

\* run_send_recv, with two tensors: a rank sends to the next one, then
\* receives from the one before it.
Chain(async) ==
    [r \in Ranks |->
        (IF r < NumRanks - 1 THEN <<Send(r + 1, 0, 2, async)>> ELSE <<>>)
        \o (IF r > 0 THEN <<Recv(r - 1, 0, 2)>> ELSE <<>>)]

\* Every rank sends to the next one first, and waits for it in the store.
Ring(async) ==
    [r \in Ranks |-> <<Send((r + 1) % NumRanks, 0, 1, async),
                       Recv((r + NumRanks - 1) % NumRanks, 0, 1)>>]

\* A tensor of three chunks is put in two stripes, and two are sent back.
Windows ==
    [r \in Ranks |->
        CASE r = 0 -> <<Put(1, 3 * StripeChunk, TRUE), Recv(1, 0, 2)>>
          [] r = 1 -> <<WaitSignal(0, 3 * StripeChunk), Send(0, 0, 2, FALSE)>>
          [] OTHER -> <<>>]

\* A signal in two stripes to a rank whose window has the given size.
Signals(size) ==
    [r \in Ranks |->
        CASE r = 0 -> <<WaitSignal(2, size)>>
          [] r = 2 -> <<Signal(0, 2 * StripeChunk, FALSE)>>
          [] OTHER -> <<>>]

Supported ==
    SingleCalls \cup TwoCalls \cup Misfits
    \cup {Deploy(Chain(a), 2) : a \in BOOLEAN} \cup {Deploy(Windows, 2)}
    \cup {Deploy(Ring(a), 1) : a \in BOOLEAN}
    \cup {Deploy(Signals(n * StripeChunk), 1) : n \in 1..2}

\* The slices of rank 0 are all equal, those of the others are not.
OneEvenRank ==
    LET m == <<<<1, 1, 1>>, <<1, 0, 2>>, <<1, 2, 0>>>>
    IN  {Deploy(Exchange(TRUE, [s \in Ranks |-> [d \in Ranks |-> m[s + 1][d + 1]]]), 0)}

\* The same tag is used for two tensors, one after the other.
TagReused ==
    {Deploy([r \in Ranks |->
        CASE r = 0 -> <<Send(1, 0, 1, TRUE), Send(1, 0, 1, TRUE)>>
          [] r = 1 -> <<Recv(0, 0, 1), Recv(0, 0, 1)>>
          [] OTHER -> <<>>], 0)}
=============================================================================
