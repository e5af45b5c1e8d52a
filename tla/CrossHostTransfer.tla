------------------------- MODULE CrossHostTransfer --------------------------
(***************************************************************************)
(* Sending tensors to another rank.  The receiver creates its buffers and  *)
(* posts their descriptors in the store, under keys made of the two        *)
(* devices, the tag and the index of the tensor; the sender waits for the  *)
(* descriptors and copies its buffers to them.  PJRT calls back for each   *)
(* copy on a thread of its own; the callbacks settle one future together.  *)
(*                                                                         *)
(* A work <<r, n, i>> is the i-th send of the n-th operation of rank r,    *)
(* and a descriptor <<r, n, i, j>> is the buffer that rank r created for   *)
(* tensor j in the i-th receive of its n-th operation.                     *)
(***************************************************************************)
EXTENDS GroupStore

CONSTANTS MaxTags,      \* bound on tags, and on the stripes of a window
          MaxTensors,   \* bound on the tensors of a send
          StripeChunk   \* g_window_stripe_chunk_mb

ASSUME TransferAssumption ==
    MaxTags \in Nat \ {0} /\ MaxTensors \in Nat \ {0} /\ StripeChunk \in Nat \ {0}

Stripes == 1..MaxTags
Tensors == 1..MaxTensors
Works == Ranks \X Operations \X Stripes
Descriptors == Ranks \X Operations \X Stripes \X Tensors

VARIABLES
    posted,     \* the descriptors in the store, by transfer key
    work,       \* the future of each send, and what its callbacks have seen
    copied      \* which copies reached each receive buffer

transferVars == <<posted, work, copied>>

\* none       CopyToRemoteDevice was not called
\* flying     its callback has not run
\* passed     the callback found the future incomplete, and the copy is fine
\* failing    the same, and the copy failed
\* sent, failed  the callback has returned
CopyStates == {"none", "flying", "passed", "failing", "sent", "failed"}
Futures == {"none", "unset", "ok", "error"}

\* again: a callback has set a future that was complete.
Work == [future: Futures, left: 0..MaxTensors, again: BOOLEAN,
         copies: [Tensors -> CopyStates], to: [Tensors -> Descriptors \cup {Absent}]]

NoWork == [future |-> "none", left |-> 0, again |-> FALSE,
           copies |-> [j \in Tensors |-> "none"], to |-> [j \in Tensors |-> Absent]]

TransferKeys == Ranks \X Ranks \X (0..(MaxTags - 1)) \X Tensors

\* Fault: the index of the tensor is not part of the key.
TransferKeyOfFirst(src, dst, tag, j) == <<src, dst, tag, 1>>

\* GetCrossHostTransferKey
TransferKey(src, dst, tag, j) == <<src, dst, tag, j>>

TransferTypeOK ==
    /\ posted \in [TransferKeys -> Descriptors \cup {Absent}]
    /\ work \in [Works -> Work]
    /\ copied \in [Descriptors -> SUBSET (Works \X Tensors)]

TransferInit ==
    /\ posted = [k \in TransferKeys |-> Absent]
    /\ work = [w \in Works |-> NoWork]
    /\ copied = [d \in Descriptors |-> {}]

\* PyComputeWindowStripeCount, with at most MaxTags stripes.
StripeCount(size) ==
    IF size <= 0 THEN 1
    ELSE LET desired == size \div StripeChunk
         IN  IF desired < 1 THEN 1 ELSE IF desired > MaxTags THEN MaxTags ELSE desired

(***************************************************************************)
(* CrossHostReceiveBuffers.                                                *)
(***************************************************************************)

\* The notifier posts the descriptors of count buffers and the caller waits
\* for it.  A later receive with the same keys replaces them.
PostDescriptors(r, n, i, src, tag, count) ==
    posted' = [k \in TransferKeys |->
                  LET J == {j \in 1..count : k = TransferKey(src, r, tag, j)}
                  IN  IF J = {} THEN posted[k]
                      ELSE <<r, n, i, CHOOSE j \in J : \A l \in J : l <= j>>]

(***************************************************************************)
(* CrossHostSendBuffers.                                                   *)
(***************************************************************************)
DescriptorsPosted(r, dst, tag, count) ==
    \A j \in 1..count : posted[TransferKey(r, dst, tag, j)] # Absent

\* Fault: the counter of the copies is not set to their number.
StartCopiesUncounted(w, dst, tag, count) ==
    work' = [work EXCEPT ![w] =
        [future |-> IF count = 0 THEN "ok" ELSE "unset",
         left |-> 0, again |-> FALSE,
         copies |-> [j \in Tensors |-> IF j <= count THEN "flying" ELSE "none"],
         to |-> [j \in Tensors |-> IF j <= count THEN posted[TransferKey(w[1], dst, tag, j)]
                                   ELSE Absent]]]

\* The copies start, one for each descriptor.
StartCopies(w, dst, tag, count) ==
    work' = [work EXCEPT ![w] =
        [future |-> IF count = 0 THEN "ok" ELSE "unset",
         left |-> count, again |-> FALSE,
         copies |-> [j \in Tensors |-> IF j <= count THEN "flying" ELSE "none"],
         to |-> [j \in Tensors |-> IF j <= count THEN posted[TransferKey(w[1], dst, tag, j)]
                                   ELSE Absent]]]

\* Fault: the exception of the store is swallowed.
SwallowLookupError(w, count) ==
    work' = [work EXCEPT ![w] = [NoWork EXCEPT !.future = "unset", !.left = count]]

\* multiGet throws: the future gets the error and there is nothing to copy.
FailLookup(w, count) ==
    work' = [work EXCEPT ![w] = [NoWork EXCEPT !.future = "error", !.left = count]]

\* PJRT calls back: the callback of tensor j looks at the future ...
CopyReturns(w, j, ok) ==
    /\ work[w].copies[j] = "flying"
    /\ work' = [work EXCEPT ![w].copies[j] =
                   IF work[w].future = "unset" THEN IF ok THEN "passed" ELSE "failing"
                   ELSE IF ok THEN "sent" ELSE "failed"]
    /\ copied' = IF ok THEN [copied EXCEPT ![work[w].to[j]] = @ \cup {<<w, j>>}] ELSE copied
    /\ UNCHANGED posted

\* Fault: every callback counts down.
CallbackSettlesAlways(w, j) ==
    LET last == work[w].left = 1
    IN  /\ work[w].copies[j] \in {"passed", "failing"}
        /\ work' = [work EXCEPT
               ![w].copies[j] = IF @ = "passed" THEN "sent" ELSE "failed",
               ![w].left = IF @ > 0 THEN @ - 1 ELSE @,
               ![w].future = IF @ # "unset" THEN @
                             ELSE IF work[w].copies[j] = "failing" THEN "error"
                             ELSE IF last THEN "ok" ELSE @,
               ![w].again = @ \/ (last /\ work[w].future # "unset")]
        /\ UNCHANGED <<posted, copied>>

\* Fault: the first success completes the future.
CallbackSettlesFirst(w, j) ==
    /\ work[w].copies[j] \in {"passed", "failing"}
    /\ work' = [work EXCEPT
           ![w].copies[j] = IF @ = "passed" THEN "sent" ELSE "failed",
           ![w].future = IF @ # "unset" THEN @
                         ELSE IF work[w].copies[j] = "failing" THEN "error" ELSE "ok"]
    /\ UNCHANGED <<posted, copied>>

\* ... and then settles it: by the error of its copy, or as the last of the
\* copies that succeeded.  setError and markCompleted both throw if the
\* future is complete; the exception leaves a callback of PJRT and ends the
\* process.  The model notes it in `again` and goes on, for SettledOnce to see.
CallbackSettles(w, j) ==
    /\ \/ /\ work[w].copies[j] = "failing"
          /\ work' = [work EXCEPT ![w].copies[j] = "failed",
                                  ![w].future = IF @ = "unset" THEN "error" ELSE @,
                                  ![w].again = @ \/ work[w].future # "unset"]
       \/ LET last == work[w].left = 1
          IN  /\ work[w].copies[j] = "passed"
              /\ work' = [work EXCEPT ![w].copies[j] = "sent", ![w].left = @ - 1,
                                      ![w].future = IF last /\ @ = "unset" THEN "ok" ELSE @,
                                      ![w].again = @ \/ (last /\ work[w].future # "unset")]
    /\ UNCHANGED <<posted, copied>>
=============================================================================
