------------------------- MODULE MCCompilationCache -------------------------
(***************************************************************************)
(* Instances of CompilationCache.  Static requests: k1 and k2.  Dynamic    *)
(* requests: d is annotated with bounds whose middle key is m, s has       *)
(* static shapes that m accepts; both need the adapter kernels pad and     *)
(* slc.                                                                    *)
(***************************************************************************)
EXTENDS CompilationCache

CONSTANTS k1, k2, d, s, m, pad, slc

StaticRequest(k) == [key |-> k, middle |-> None, adapters |-> TRUE]

StaticRequests == {StaticRequest(k1), StaticRequest(k2)}
OneRequest == {StaticRequest(k1)}
DynamicRequests == {[key |-> d, middle |-> m, adapters |-> TRUE], StaticRequest(s)}

MCCompatible == {<<m, d>>, <<m, s>>}
MCAdapterKey ==
    [a \in {"pad", "slice"} \X Keys \X Keys |->
        IF m \notin Keys THEN CHOOSE k \in Keys : TRUE
        ELSE IF a[1] = "pad" THEN pad ELSE slc]
=============================================================================
