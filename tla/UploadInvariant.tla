-------------------------- MODULE UploadInvariant ---------------------------
(***************************************************************************)
(* Why the uploads of one key are safe together: what is true of each of   *)
(* them at each of its steps, of the requests it has left in flight and of *)
(* the object.  UploadInv is inductive.                                    *)
(***************************************************************************)
EXTENDS BundleUpload

\* Only a codec that wrote everything is followed by a request.
WholeOK(j) ==
    /\ codec[j] \in {"ok", "returned"} => j \in whole
    /\ step[j] \notin {"idle", "stream", "failed", "crashed"} => j \in whole

\* What fits into one PUT never has parts, and nothing has any before its
\* upload is created.
RouteOK(j) ==
    /\ step[j] = "put" => size[j] <= bundleUploadPartSize
    /\ step[j] \in {"create", "parts", "complete", "abort"} => size[j] > bundleUploadPartSize
    /\ step[j] \in {"idle", "stream", "close", "put", "create"} \/ size[j] <= bundleUploadPartSize
         => uploads[j] = None

\* Full parts, and at most one shorter one, which reaches the end.
PartsOK(j) ==
    LET parts == uploads[j] IN
    parts # None /\ parts # <<>> =>
        /\ part[j] = multipartBundlePartSize(size[j]) /\ part[j] # TooLarge
        /\ \A i \in DOMAIN parts : parts[i] <= part[j] /\ (i < Len(parts) => parts[i] = part[j])
        /\ part[j] * (Len(parts) - 1) < size[j]

\* While parts are sent, all of them are full and something is left to send.
OffsetOK(j) ==
    LET parts == uploads[j] IN
    step[j] = "parts" =>
        /\ parts # None
        /\ part[j] = multipartBundlePartSize(size[j]) /\ part[j] # TooLarge
        /\ \A i \in DOMAIN parts : parts[i] = part[j]
        /\ Uploaded(parts) = part[j] * Len(parts) /\ Uploaded(parts) < size[j]

\* The open upload of j, if any, has all of its ciphertext.
Complete(j) == uploads[j] # None => Uploaded(uploads[j]) = size[j]

\* A request that outlives its sender is one the sender had reached.
LateOK ==
    \A r \in late :
        /\ r.by \in whole
        /\ r.kind = "complete" => step[r.by] \in {"abort"} \cup Returned /\ Complete(r.by)

ObjectOK == object # None => StoredWhole /\ object.tip = pushTip[object.by]

AcceptedOK == \A j \in accepted : object # None /\ object.tip = pushTip[j]

(***************************************************************************)
(* The inductive invariant of concurrent uploads of one key: parts are     *)
(* full up to the offset reached, a completion in flight or late has the   *)
(* whole ciphertext, and the object is whole and of its uploader's tip     *)
(* (multipartUploadBundle, bundleUploadResult, streamBundle).              *)
(***************************************************************************)
UploadInv ==
    /\ BundleTypeOK
    /\ \A j \in Jobs :
          /\ WholeOK(j) /\ RouteOK(j) /\ PartsOK(j) /\ OffsetOK(j)
          /\ step[j] = "complete" => Complete(j)
    /\ LateOK
    /\ ObjectOK
    /\ AcceptedOK
    /\ LeftoversAreReported
    /\ CallbackJoined
=============================================================================
