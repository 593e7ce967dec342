---------------------------- MODULE BundleUpload ----------------------------
(***************************************************************************)
(* encryptAndUploadBundle and what it calls (bundle_upload.go): a bundle   *)
(* is encrypted into a file and stored under its key by one conditional    *)
(* PUT or, when it is large, by a multipart upload.  Several helpers store *)
(* the same key at once: retries of one push (the same tip) and pushes of  *)
(* other tips that share the range.  Responses get lost, the SDK sends     *)
(* again, contexts are canceled, helpers die.                              *)
(*                                                                         *)
(* A ciphertext is abstracted to its uploader and its length, in units of  *)
(* part size.                                                              *)
(***************************************************************************)
EXTENDS StreamBundle, PartSize, Sequences

CONSTANTS
    Tips,       \* push tips, recorded in the object's metadata
    Sizes,      \* ciphertext sizes
    None        \* no object, no upload

Ciphertexts == [by : Jobs, tip : Tips, length : Nat]

\* A ciphertext begins with its header: it is never empty.
ASSUME UploadAssumption ==
    /\ Sizes \subseteq Nat \ {0}
    /\ None \notin Ciphertexts /\ None \notin [by : Jobs, tip : Tips]
    /\ None \notin Seq(Nat)

VARIABLES
    object,     \* the object under the key, or None
    uploads,    \* [Jobs -> the parts of the open multipart upload, or None]
    late,       \* requests in flight whose sender has stopped waiting
    step,       \* [Jobs -> where encryptAndUploadBundle is]
    pushTip,    \* [Jobs -> the tip it was called with]
    size,       \* [Jobs -> the size of its ciphertext]
    part,       \* [Jobs -> the part size, while it uploads parts]
    accepted,   \* the jobs about to return success, once the upload is cleaned up
    reported    \* the jobs whose error tells of an upload that may be left over

uploadVars == <<object, uploads, late, step, pushTip, size, part, accepted, reported>>
bundleVars == <<streamVars, uploadVars>>

Steps == {"stream", "close", "put", "create", "parts", "complete", "head", "abort"}
Returned == {"ok", "failed", "crashed"}

Ciphertext(j, length) == [by |-> j, tip |-> pushTip[j], length |-> length]

\* The offset that uploaded parts reach.
Uploaded(parts) ==
    LET reached[n \in 0..Len(parts)] == IF n = 0 THEN 0 ELSE reached[n - 1] + parts[n]
    IN  reached[Len(parts)]

BundleTypeOK ==
    /\ StreamTypeOK
    /\ object \in Ciphertexts \cup {None}
    /\ uploads \in [Jobs -> Seq(Nat \ {0}) \cup {None}]
    /\ late \subseteq [kind : {"put", "complete"}, by : Jobs]
    /\ step \in [Jobs -> {"idle"} \cup Steps \cup Returned]
    /\ pushTip \in [Jobs -> Tips]
    /\ size \in [Jobs -> Sizes]
    /\ part \in [Jobs -> Nat]
    /\ accepted \subseteq Jobs
    /\ reported \subseteq Jobs

BundleInit ==
    /\ StreamInit
    /\ object = None
    /\ uploads = [j \in Jobs |-> None]
    /\ late = {}
    /\ step = [j \in Jobs |-> "idle"]
    /\ pushTip \in [Jobs -> Tips]
    /\ size \in [Jobs -> Sizes]
    /\ part = [j \in Jobs |-> 0]
    /\ accepted = {}
    /\ reported = {}

Go(j, s) == step' = [step EXCEPT ![j] = s]
Fails(j) == Go(j, "failed")

----------------------------------------------------------------------------
(* S3.                                                                     *)

\* If-None-Match: *
Store(j, length) == object' = IF object = None THEN Ciphertext(j, length) ELSE object

\* A completion needs the upload it names; the object appears and the upload
\* is gone, or the condition fails and the upload stays.
CompleteUpload(j) ==
    IF uploads[j] # None /\ object = None
    THEN /\ Store(j, Uploaded(uploads[j]))
         /\ uploads' = [uploads EXCEPT ![j] = None]
    ELSE UNCHANGED <<object, uploads>>

----------------------------------------------------------------------------
(* One call of encryptAndUploadBundle.                                     *)

Begin(j) ==
    /\ step[j] = "idle"
    /\ Go(j, "stream")
    /\ UNCHANGED <<streamVars, object, uploads, late, pushTip, size, part, accepted, reported>>

Stream(j) ==
    /\ step[j] = "stream"
    /\ StreamBegin(j) \/ CodecEnds(j) \/ StreamJudges(j) \/ CallbackStarts(j) \/ CallbackRuns(j)
    /\ UNCHANGED uploadVars

StreamWaits(j) ==
    /\ step[j] = "stream"
    /\ StreamBlocks(j) \/ StreamUnblocks(j)
    /\ UNCHANGED uploadVars

StreamReturns(j) ==
    /\ step[j] = "stream"
    /\ StreamJoins(j)
    /\ Go(j, IF codec[j] = "returned" THEN "close" ELSE "failed")
    /\ UNCHANGED <<canceled, codec, closed, whole, object, uploads, late, pushTip, size, part,
                   accepted, reported>>

\* Closing both files fails if the callback closed them after all; then the
\* ciphertext is opened again and its size decides.
CloseFiles(j) ==
    /\ step[j] = "close"
    /\ IF j \in closed THEN Fails(j)
       ELSE Go(j, IF size[j] > bundleUploadPartSize THEN "create" ELSE "put")
    /\ UNCHANGED <<streamVars, object, uploads, late, pushTip, size, part, accepted, reported>>

\* PutObject: an answer, or an answer lost after which the SDK sends again.
PutObject(j) ==
    /\ step[j] = "put" /\ j \notin canceled
    /\ Store(j, size[j])
    /\ \/ Go(j, IF object = None THEN "ok" ELSE "head")
       \/ UNCHANGED step
    /\ UNCHANGED <<streamVars, uploads, late, pushTip, size, part, accepted, reported>>

\* No answer at all: the request may arrive later, or never.
PutUnknown(j) ==
    /\ step[j] = "put"
    /\ late' \in {late, late \cup {[kind |-> "put", by |-> j]}}
    /\ Fails(j)
    /\ UNCHANGED <<streamVars, object, uploads, pushTip, size, part, accepted, reported>>

CreateMultipartUpload(j) ==
    /\ step[j] = "create" /\ j \notin canceled
    /\ IF multipartBundlePartSize(size[j]) = TooLarge
       THEN Fails(j) /\ UNCHANGED <<uploads, part>>
       ELSE /\ uploads' = [uploads EXCEPT ![j] = <<>>]
            /\ part' = [part EXCEPT ![j] = multipartBundlePartSize(size[j])]
            /\ Go(j, "parts")
    /\ UNCHANGED <<streamVars, object, late, pushTip, size, accepted, reported>>

\* Without an upload ID nothing can be aborted; the error says so.
CreateUnknown(j) ==
    /\ step[j] = "create"
    /\ uploads' \in {uploads, [uploads EXCEPT ![j] = <<>>]}
    /\ reported' = reported \cup {j}
    /\ Fails(j)
    /\ UNCHANGED <<streamVars, object, late, pushTip, size, part, accepted>>

\* Mutant: offset <= size.
UploadPartEmptyTail(j) ==
    LET length == size[j] - Uploaded(uploads[j]) IN
    /\ step[j] = "parts" /\ j \notin canceled
    /\ uploads' = [uploads EXCEPT ![j] = Append(@, IF length < part[j] THEN length ELSE part[j])]
    /\ IF length < part[j] THEN Go(j, "complete") ELSE UNCHANGED step
    /\ UNCHANGED <<streamVars, object, late, pushTip, size, part, accepted, reported>>

\* One part after the other, each at the offset the ones before it reached.
UploadPart(j) ==
    LET length == size[j] - Uploaded(uploads[j]) IN
    /\ step[j] = "parts" /\ j \notin canceled
    /\ uploads' = [uploads EXCEPT ![j] = Append(@, IF length < part[j] THEN length ELSE part[j])]
    /\ IF length <= part[j] THEN Go(j, "complete") ELSE UNCHANGED step
    /\ UNCHANGED <<streamVars, object, late, pushTip, size, part, accepted, reported>>

\* Answered, refused by the condition, or sent again after a lost answer, when
\* the upload may be gone.
CompleteMultipartUpload(j) ==
    /\ step[j] = "complete" /\ j \notin canceled
    /\ CompleteUpload(j)
    /\ \/ /\ uploads[j] # None /\ object = None
          /\ Go(j, "ok")
       \/ /\ uploads[j] # None /\ object = None
          /\ UNCHANGED step
       \/ /\ object # None
          /\ Go(j, "head")
       \/ /\ uploads[j] = None
          /\ Go(j, "abort")
    /\ UNCHANGED <<streamVars, late, pushTip, size, part, accepted, reported>>

CompleteUnknown(j) ==
    /\ step[j] = "complete"
    /\ late' \in {late, late \cup {[kind |-> "complete", by |-> j]}}
    /\ Go(j, "abort")
    /\ UNCHANGED <<streamVars, object, uploads, pushTip, size, part, accepted, reported>>

\* A part, or any request before it, failed or was canceled.
PartFails(j) ==
    /\ step[j] = "parts"
    /\ Go(j, "abort")
    /\ UNCHANGED <<streamVars, object, uploads, late, pushTip, size, part, accepted, reported>>

\* The deferred abort follows a multipart upload only.
AfterResult(j) == IF size[j] > bundleUploadPartSize THEN "abort" ELSE "failed"

\* Mutant: what is there already is good enough.
bundleUploadResultAny(j) ==
    /\ step[j] = "head" /\ j \notin canceled
    /\ IF size[j] > bundleUploadPartSize
       THEN Go(j, "abort") /\ accepted' = accepted \cup {j}
       ELSE Go(j, "ok") /\ UNCHANGED accepted
    /\ UNCHANGED <<streamVars, object, uploads, late, pushTip, size, part, reported>>

\* After a failed condition, the stored object is taken if this push stored it.
bundleUploadResult(j) ==
    /\ step[j] = "head" /\ j \notin canceled
    /\ IF object = None \/ object.tip # pushTip[j] \/ object.length = 0
       THEN Go(j, AfterResult(j)) /\ UNCHANGED accepted
       ELSE IF size[j] > bundleUploadPartSize
       THEN Go(j, "abort") /\ accepted' = accepted \cup {j}
       ELSE Go(j, "ok") /\ UNCHANGED accepted
    /\ UNCHANGED <<streamVars, object, uploads, late, pushTip, size, part, reported>>

HeadFails(j) ==
    /\ step[j] = "head"
    /\ Go(j, AfterResult(j))
    /\ UNCHANGED <<streamVars, object, uploads, late, pushTip, size, part, accepted, reported>>

\* Mutant: the abort is sent under the push's context.
AbortUnderContext(j) ==
    /\ step[j] = "abort"
    /\ uploads' = [uploads EXCEPT ![j] = IF j \in canceled THEN @ ELSE None]
    /\ Go(j, IF j \in accepted THEN "ok" ELSE "failed")
    /\ UNCHANGED <<streamVars, object, late, pushTip, size, part, accepted, reported>>

\* The deferred abort has a context of its own; that the upload is gone is fine.
AbortMultipartUpload(j) ==
    /\ step[j] = "abort"
    /\ uploads' = [uploads EXCEPT ![j] = None]
    /\ Go(j, IF j \in accepted THEN "ok" ELSE "failed")
    /\ UNCHANGED <<streamVars, object, late, pushTip, size, part, accepted, reported>>

\* An abort that fails, or was not answered, fails the upload whatever it did.
AbortFails(j) ==
    /\ step[j] = "abort"
    /\ uploads' \in {uploads, [uploads EXCEPT ![j] = None]}
    /\ reported' = reported \cup {j}
    /\ Fails(j)
    /\ UNCHANGED <<streamVars, object, late, pushTip, size, part, accepted>>

----------------------------------------------------------------------------
(* Around it.                                                              *)

Canceled(j) ==
    /\ step[j] \in Steps
    /\ Cancel(j)
    /\ UNCHANGED uploadVars

\* The helper dies; the request it was waiting for may still arrive.
Crash(j) ==
    /\ step[j] \in Steps
    /\ Go(j, "crashed")
    /\ \/ UNCHANGED late
       \/ /\ step[j] \in {"put", "complete"}
          /\ late' = late \cup {[kind |-> step[j], by |-> j]}
    /\ UNCHANGED <<streamVars, object, uploads, pushTip, size, part, accepted, reported>>

Land ==
    /\ \E r \in late :
          /\ late' = late \ {r}
          /\ \/ r.kind = "put" /\ Store(r.by, size[r.by]) /\ UNCHANGED uploads
             \/ r.kind = "complete" /\ CompleteUpload(r.by)
    /\ UNCHANGED <<streamVars, step, pushTip, size, part, accepted, reported>>

BundleNext ==
    \/ \E j \in Jobs :
          \/ Begin(j) \/ Stream(j) \/ StreamWaits(j) \/ StreamReturns(j)
          \/ CloseFiles(j) \/ PutObject(j) \/ PutUnknown(j)
          \/ CreateMultipartUpload(j) \/ CreateUnknown(j)
          \/ UploadPart(j) \/ PartFails(j)
          \/ CompleteMultipartUpload(j) \/ CompleteUnknown(j)
          \/ bundleUploadResult(j) \/ HeadFails(j)
          \/ AbortMultipartUpload(j) \/ AbortFails(j)
          \/ Canceled(j) \/ Crash(j)
    \/ Land

\* After a cancellation every request returns, and the abort has a timeout;
\* a blocked read or write is not assumed to come back.
GivesUp(j) ==
    /\ j \in canceled
    /\ \/ Stream(j) \/ StreamReturns(j) \/ CloseFiles(j)
       \/ PutUnknown(j) \/ CreateUnknown(j) \/ PartFails(j) \/ CompleteUnknown(j) \/ HeadFails(j)
       \/ AbortMultipartUpload(j) \/ AbortFails(j)

BundleSpec ==
    /\ BundleInit /\ [][BundleNext]_bundleVars
    /\ \A j \in Jobs : WF_bundleVars(GivesUp(j))

----------------------------------------------------------------------------
(* Properties.                                                             *)

(***************************************************************************)
(* All these uploads together keep the promise of StoredBundle: one whole  *)
(* ciphertext per key, whatever is lost, late, aborted or sent twice, and  *)
(* success only for pushes of its tip (uploadBundle, bundleUploadResult).  *)
(***************************************************************************)
StoredWhole == object # None /\ object.by \in whole /\ object.length = size[object.by]
Promise == INSTANCE StoredBundle WITH
    Callers <- Jobs, Nothing <- None, tip <- pushTip,
    stored <- IF StoredWhole THEN [by |-> object.by, tip |-> object.tip] ELSE None,
    acknowledged <- {j \in Jobs : step[j] = "ok"}
RefinesStoredBundle == Promise!Spec

(***************************************************************************)
(* A multipart upload is left behind only by a helper that died or that    *)
(* said so in its error: every other end, a canceled one included, aborted *)
(* or completed it (the deferred abort of multipartUploadBundle).          *)
(***************************************************************************)
LeftoversAreReported ==
    \A j \in Jobs :
        step[j] \in {"ok", "failed"} /\ uploads[j] # None => j \in reported

(***************************************************************************)
(* Whatever the size, S3 never sees more parts than it takes, a part that  *)
(* is too large, or a short part before the last (multipartBundlePartSize  *)
(* and the loop over the offsets).                                         *)
(***************************************************************************)
PartsWithinLimits ==
    \A j \in Jobs : uploads[j] # None =>
        /\ Len(uploads[j]) <= maxUploadParts
        /\ \A i \in DOMAIN uploads[j] :
              /\ uploads[j][i] <= maxUploadPartSize
              /\ i < Len(uploads[j]) => uploads[j][i] >= bundleUploadPartSize

(***************************************************************************)
(* Once streamBundle has returned, no callback of its cancellation is      *)
(* still going to close the files its caller goes on to use (stop, done).  *)
(***************************************************************************)
CallbackJoined ==
    \A j \in Jobs :
        step[j] \notin {"idle", "stream", "crashed"} => callback[j] \notin {"armed", "running"}

(***************************************************************************)
(* A canceled push gets out of the upload, even out of an encryption that  *)
(* waits for a stream nobody serves (the AfterFunc of streamBundle, the    *)
(* contexts of the requests, the timeout of the abort).                    *)
(***************************************************************************)
CancellationEndsUpload ==
    \A j \in Jobs : j \in canceled ~> step[j] \in Returned
=============================================================================
