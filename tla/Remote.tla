------------------------------- MODULE Remote -------------------------------
(***************************************************************************)
(* The whole remote: pushes (Push) and readers (Fetch) over one DynamoDB   *)
(* table and one S3 namespace.                                             *)
(***************************************************************************)
EXTENDS Push, Fetch

remoteAll == <<vars, readerVars>>

RemoteInit == Init /\ FetchInit

RemoteNext ==
    \/ PushNext /\ UNCHANGED readerVars
    \/ FetchNext /\ UNCHANGED vars

RemoteSpec == RemoteInit /\ [][RemoteNext]_remoteAll

\* One type invariant for the composed system.
RemoteAllTypeOK == TypeOK /\ FetchTypeOK

(***************************************************************************)
(* No push, at whatever point it is interrupted, makes a reader fail on    *)
(* the data: a read never sees its pointer vanish or its branch change,    *)
(* never meets a missing or replaced bundle or a missing prerequisite, and *)
(* never ends with holes in the history, even when the manifest it follows *)
(* has been superseded and deleted since (readPublishedMetadata,           *)
(* fetchManifest, recoverRepository).                                      *)
(***************************************************************************)
ReadsAreSound ==
    \A c \in Readers :
        rpc[c] \notin {"lostPointer", "branchChanged", "missingBundle", "incomplete"}

(***************************************************************************)
(* The reader gives up only when that many publications really overtook    *)
(* it: each failed attempt of readPublishedMetadata costs the writers one  *)
(* complete publication.                                                   *)
(***************************************************************************)
ExhaustionMeansChurn ==
    \A c \in Readers :
        rpc[c] = "exhausted" => Len(published[from[c]]) - since[c] >= maximumAttempts

(***************************************************************************)
(* Git asks fetch for the tip that list printed; whatever was published in *)
(* between, the fetched history contains it (list, then fetch).            *)
(***************************************************************************)
FetchedContainsListed ==
    \A c \in Readers :
        rpc[c] = "fetched" /\ command[c] = "fetch" => promised[c] \in have[c]

(***************************************************************************)
(* Listing the recovery candidates is not disturbed by a push that         *)
(* supersedes a manifest meanwhile: "a disappearing superseded manifest is *)
(* harmless" (the comment on namespaceManifests).                          *)
(***************************************************************************)
SupersededIsHarmless == \A c \in Readers : rpc[c] # "scanFailed"
=============================================================================
