------------------------ MODULE MCCollectiveHandshake -----------------------
(***************************************************************************)
(* Instances of CollectiveHandshake.  The digit in the name of a region is *)
(* the number of its collectives.                                          *)
(***************************************************************************)
EXTENDS CollectiveHandshake, TLC

CONSTANTS a1, b1, c1, d2, e2, f3, g1

MCExecutables == {a1, b1, c1, d2, e2, f3, g1}
MCNumCollectives ==
    [x \in MCExecutables |-> CASE x \in {a1, b1, c1, g1} -> 1
                               [] x \in {d2, e2} -> 2
                               [] x = f3 -> 3]

\* Three collectives, cut into regions in different ways, and a region that is
\* the same on all ranks; no region twice.
Cuts == {<<a1, b1, c1, g1>>, <<a1, d2, g1>>, <<d2, c1, g1>>, <<e2, c1, g1>>,
         <<f3, g1>>}

\* Any cut on any rank, or two collectives in a loop over one region or in two
\* regions: a rank whose loop was split falls behind in its counts.
MixedWorkloads ==
    [Ranks -> Cuts] \cup [Ranks -> {<<a1, a1>>, <<b1, b1>>, <<b1, c1>>}]

\* Ranks that have one, two and three collectives in their first regions.
Staircase == {(0 :> <<a1, b1, c1>>) @@ (1 :> <<d2, c1>>) @@ (2 :> <<f3>>)}
=============================================================================
