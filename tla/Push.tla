-------------------------------- MODULE Push --------------------------------
(***************************************************************************)
(* push() in main.go and everything it calls, one action per remote        *)
(* request.  A helper is one invocation: it takes the repository's lease,  *)
(* reads the published manifest, adopts or resumes bundles, uploads the    *)
(* missing ranges, stores a manifest, commits the pointer under the lease  *)
(* and deletes the manifest it superseded.  Any number of invocations, by  *)
(* any users, run at once; each may fail, be cancelled, stall past its     *)
(* lease, crash, or never learn what became of a request.                  *)
(***************************************************************************)
EXTENDS RemoteState

CONSTANTS
    Faults,         \* which of FaultKinds may happen in this instance
    LegacyRepos     \* repositories that start out with a legacy bundle list

FaultKinds == {"error", "crash", "lapse", "unknown"}

ASSUME PushAssumption == Faults \subseteq FaultKinds /\ LegacyRepos \subseteq Repos

VARIABLES
    pc,         \* [Helpers -> where the invocation is]
    repo,       \* [Helpers -> the repository it pushes to]
    wants,      \* [Helpers -> the branch it pushes]
    tip,        \* [Helpers -> the local commit, once resolved]
    old,        \* [Helpers -> the pointer Lock returned, oldBundlesS3Key]
    chain,      \* [Helpers -> the bundles collected so far]
    listed,     \* [Helpers -> manifest keys adoptBundles has yet to visit]
    completed,  \* [Helpers -> the ranges listPushBundles found]
    todo        \* [Helpers -> createRange calls still to be made]

jobVars == <<repo, wants, tip>>
workVars == <<old, chain, listed, completed, todo>>
vars == <<remoteVars, pc, jobVars, workVars>>

\* Steps that run under the lease context.
Leased == {"read", "adoptList", "adopt", "validate", "list", "resume", "build",
           "record", "manifest", "commit"}
\* The deferred Release: after a failure, after a bundle or chain failed its
\* validation, and after a push that had nothing to do.
Releasing == {"abandon", "broken", "finish"}
Ended == {"ok", "noop", "failed"}

\* createRange's arguments: a base and the boundaries up to the range's tip.
Ranges == [base : Hashes, commits : Seq(Commits) \ {<<>>}]

PushTypeOK ==
    /\ pc \in [Helpers -> {"idle", "lock", "delete"} \cup Leased \cup Releasing \cup Ended]
    /\ repo \in [Helpers -> Repos \cup {None}]
    /\ wants \in [Helpers -> Branches \cup {None}]
    /\ tip \in [Helpers -> Commits \cup {None}]
    /\ old \in [Helpers -> ManifestKeys \cup {None}]
    /\ chain \in [Helpers -> Seq(BundleRefs)]
    /\ listed \in [Helpers -> SUBSET ManifestKeys]
    /\ completed \in [Helpers -> SUBSET BundleRefs]
    /\ todo \in [Helpers -> Seq(Ranges)]

\* One type invariant for the services and the helpers.
TypeOK == RemoteTypeOK /\ PushTypeOK

(***************************************************************************)
(* A repository is empty, or still published by a bundle list of an older  *)
(* helper version: ranges only, under keys without a push tip, encrypted   *)
(* to the policy committed at its tip.                                     *)
(***************************************************************************)
LegacyObject(r, c) ==
    [key |-> [scope |-> r, base |-> Zero, end |-> c], etag |-> r,
     keys |-> Recipients(c), push |-> None]
LegacyList(r, c, b) ==
    [repo |-> r, branch |-> b, tip |-> c, legacy |-> TRUE,
     chain |-> <<[key |-> LegacyObject(r, c).key, etag |-> None, keys |-> {}]>>]

Init ==
    /\ \E c \in [LegacyRepos -> {d \in Commits : Recipients(d) # {}}],
          b \in [LegacyRepos -> Branches] :
          /\ pointer = [r \in Repos |-> IF r \in LegacyRepos THEN r ELSE None]
          /\ branch = [r \in Repos |-> IF r \in LegacyRepos THEN b[r] ELSE None]
          /\ manifests = [k \in ManifestKeys |->
                IF k \in LegacyRepos THEN LegacyList(k, c[k], b[k]) ELSE NoManifest]
          /\ objects = {LegacyObject(r, c[r]) : r \in LegacyRepos}
    /\ published = [r \in Repos |-> IF r \in LegacyRepos THEN <<r>> ELSE <<>>]
    /\ owner = [r \in Repos |-> None]
    /\ lapsed = [r \in Repos |-> FALSE]
    /\ versioning = FALSE
    /\ lateCommits = {} /\ lateDeletes = {} /\ lateManifests = {} /\ lateBundles = {}
    /\ pc = [h \in Helpers |-> "idle"]
    /\ repo = [h \in Helpers |-> None]
    /\ wants = [h \in Helpers |-> None]
    /\ tip = [h \in Helpers |-> None]
    /\ old = [h \in Helpers |-> None]
    /\ chain = [h \in Helpers |-> <<>>]
    /\ listed = [h \in Helpers |-> {}]
    /\ completed = [h \in Helpers |-> {}]
    /\ todo = [h \in Helpers |-> <<>>]

Goto(h, s) == pc' = [pc EXCEPT ![h] = s]

\* The process is gone and its memory with it; what it was asked to push is
\* remembered for the pushes that reported success.
Exit(h, outcome) ==
    /\ Goto(h, outcome)
    /\ IF outcome = "failed"
       THEN /\ repo' = [repo EXCEPT ![h] = None]
            /\ wants' = [wants EXCEPT ![h] = None]
            /\ tip' = [tip EXCEPT ![h] = None]
       ELSE UNCHANGED jobVars
    /\ old' = [old EXCEPT ![h] = None]
    /\ chain' = [chain EXCEPT ![h] = <<>>]
    /\ listed' = [listed EXCEPT ![h] = {}]
    /\ completed' = [completed EXCEPT ![h] = {}]
    /\ todo' = [todo EXCEPT ![h] = <<>>]

----------------------------------------------------------------------------
(* Taking the lease.                                                       *)

\* Argument checks, then ensureBucketVersioning, before any lease.
Start(h) ==
    /\ pc[h] = "idle"
    /\ \E r \in Repos, b \in Branches :
          /\ repo' = [repo EXCEPT ![h] = r]
          /\ wants' = [wants EXCEPT ![h] = b]
    /\ versioning' = TRUE
    /\ Goto(h, "lock")
    /\ UNCHANGED <<itemVars, manifests, objects, lateVars, published, tip, workVars>>

\* dynamolock.Lock returns the item's payload with the lease; a remote keeps
\* one branch.
Lock(h) ==
    LET r == repo[h] IN
    /\ pc[h] = "lock"
    /\ Acquirable(r)
    /\ owner' = [owner EXCEPT ![r] = h]
    /\ lapsed' = [lapsed EXCEPT ![r] = FALSE]
    /\ old' = [old EXCEPT ![h] = pointer[r]]
    /\ Goto(h, IF branch[r] \in {None, wants[h]} THEN "read" ELSE "abandon")
    /\ UNCHANGED <<pointer, branch, s3Vars, lateVars, published, jobVars,
                   chain, listed, completed, todo>>

\* The lease is held: the push fails at once, without waiting.
LockHeld(h) ==
    /\ pc[h] = "lock"
    /\ ~Acquirable(repo[h])
    /\ Exit(h, "failed")
    /\ UNCHANGED remoteVars

----------------------------------------------------------------------------
(* Reading the published snapshot and deciding what to do.                 *)

\* getManifest finds the pointer's object, and the manifest names this branch.
Readable(h) ==
    old[h] # None => Exists(old[h]) /\ manifests[old[h]].branch = wants[h]

\* Mutant: a missing manifest is read again until it appears.
ReadMissingRetries(h) == pc[h] = "read" /\ ~Readable(h) /\ UNCHANGED vars

\* Under the lease a missing manifest is an error, never retried.
ReadMissing(h) ==
    /\ pc[h] = "read"
    /\ ~Readable(h)
    /\ Goto(h, "abandon")
    /\ UNCHANGED <<remoteVars, jobVars, workVars>>

\* Mutant: only the recipients are checked.
PushableDiverged(h, t) ==
    /\ Recipients(t) # {}
    /\ old[h] # None => KeyChainTransition(manifests[old[h]].tip, t)
\* Mutant: a tip without a policy is pushed too.
PushableUnencrypted(h, t) ==
    old[h] # None => gitBranchContains(t, manifests[old[h]].tip)

\* The fast-forward and recipient checks of push(); the tip must supply a policy.
Pushable(h, t) ==
    /\ Recipients(t) # {}
    /\ old[h] # None =>
          /\ gitBranchContains(t, manifests[old[h]].tip)
          /\ KeyChainTransition(manifests[old[h]].tip, t)

UpToDate(h, t) ==
    /\ old[h] # None
    /\ manifests[old[h]].tip = t
    /\ ~manifests[old[h]].legacy

\* The branch's commit is resolved here, once, after the lease was taken.
Read(h) ==
    /\ pc[h] = "read"
    /\ Readable(h)
    /\ \E t \in Commits :
          /\ tip' = [tip EXCEPT ![h] = t]
          /\ chain' = [chain EXCEPT ![h] =
                IF old[h] = None THEN <<>> ELSE manifests[old[h]].chain]
          /\ Goto(h, CASE ~Pushable(h, t) -> "abandon"
                       [] Pushable(h, t) /\ UpToDate(h, t) -> "finish"
                       [] Pushable(h, t) /\ ~UpToDate(h, t) ->
                            IF old[h] = None THEN "adoptList"
                            ELSE IF manifests[old[h]].legacy THEN "validate"
                            ELSE "list")
    /\ UNCHANGED <<remoteVars, repo, wants, old, listed, completed, todo>>

\* Bundles that already reach the tip leave nothing to upload.
AfterBase(h, bundles) == IF ChainEnd(bundles) = tip[h] THEN "manifest" ELSE "list"

\* Mutant: the inspected chain is promoted with its incomplete descriptors.
ValidateLegacyBare(h) ==
    /\ pc[h] = "validate"
    /\ Goto(h, IF ChainInspects(objects, chain[h]) THEN AfterBase(h, chain[h]) ELSE "broken")
    /\ UNCHANGED <<remoteVars, jobVars, workVars>>

\* A legacy chain is inspected and its descriptors completed before promotion.
ValidateLegacy(h) ==
    /\ pc[h] = "validate"
    /\ IF ChainInspects(objects, chain[h])
       THEN /\ chain' = [chain EXCEPT ![h] = CheckedChain(objects, @)]
            /\ Goto(h, AfterBase(h, chain[h]))
       ELSE Goto(h, "broken") /\ UNCHANGED chain
    /\ UNCHANGED <<remoteVars, jobVars, old, listed, completed, todo>>

----------------------------------------------------------------------------
(* adoptBundles: an empty destination looks for a prefix to build on.      *)

namespaceManifests(h) ==
    /\ pc[h] = "adoptList"
    /\ listed' = [listed EXCEPT ![h] = {k \in ManifestKeys : Exists(k)}]
    /\ Goto(h, "adopt")
    /\ UNCHANGED <<remoteVars, jobVars, old, chain, completed, todo>>

\* Surviving history of this very repository that the push would not extend.
Conflicts(h, m) ==
    /\ m.repo = repo[h]
    /\ \/ ~gitBranchContains(tip[h], m.tip)
       \/ ~m.legacy /\ m.branch # wants[h]

Closer(h, candidate) ==
    /\ candidate # <<>>
    /\ \/ chain[h] = <<>>
       \/ CommitsBeyond(ChainEnd(candidate), tip[h])
             < CommitsBeyond(ChainEnd(chain[h]), tip[h])

\* One GET per listed key, in UUID order, that is in any order.  A manifest
\* superseded since the listing is skipped; nothing else is.
Adopt(h) ==
    /\ pc[h] = "adopt"
    /\ \E k \in listed[h] :
          /\ listed' = [listed EXCEPT ![h] = @ \ {k}]
          /\ IF ~Exists(k)
             THEN UNCHANGED <<pc, chain>>
             ELSE IF Conflicts(h, manifests[k])
             THEN Goto(h, "abandon") /\ UNCHANGED chain
             ELSE \E shared \in Shared(manifests[k].chain, tip[h]) :
                  IF ~ChainInspects(objects, shared)
                  THEN Goto(h, "broken") /\ UNCHANGED chain
                  ELSE \E candidate \in Compatible(CheckedChain(objects, shared), tip[h]) :
                       /\ chain' = IF Closer(h, candidate)
                                   THEN [chain EXCEPT ![h] = candidate] ELSE chain
                       /\ UNCHANGED pc
    /\ UNCHANGED <<remoteVars, jobVars, old, completed, todo>>

AdoptDone(h) ==
    /\ pc[h] = "adopt"
    /\ listed[h] = {}
    /\ Goto(h, AfterBase(h, chain[h]))
    /\ UNCHANGED <<remoteVars, jobVars, workVars>>

----------------------------------------------------------------------------
(* Resuming an earlier attempt of the same push, and uploading the rest.   *)

\* One listing of the push tip's prefix; descriptors expect this push's keys.
listPushBundles(h) ==
    /\ pc[h] = "list"
    /\ completed' = [completed EXCEPT ![h] =
          {[key |-> o.key, etag |-> o.etag, keys |-> Recipients(tip[h])] :
              o \in {o \in objects : o.key.scope = tip[h]}}]
    /\ Goto(h, "resume")
    /\ UNCHANGED <<remoteVars, jobVars, old, chain, listed, todo>>

AfterRanges(rest) == IF rest = <<>> THEN "manifest" ELSE "build"

\* createRange calls that remain once the chain reaches base.
RemainingRanges(base, t) ==
    IF base = t THEN {<<>>}
    ELSE {<<[base |-> base, commits |-> c]>> : c \in pushBundleCommits(base, t)}

inspectPushPrefix(h) ==
    /\ pc[h] = "resume"
    /\ \E commits \in pushBundleCommits(ChainEnd(chain[h]), tip[h]) :
       \E resumed \in completedPushPrefix(ChainEnd(chain[h]), commits, completed[h]) :
          IF \A i \in DOMAIN resumed : Inspects(objects, resumed[i], tip[h])
          THEN LET bundles == chain[h] \o CheckedChain(objects, resumed) IN
               \E ranges \in RemainingRanges(ChainEnd(bundles), tip[h]) :
                  /\ chain' = [chain EXCEPT ![h] = bundles]
                  /\ todo' = [todo EXCEPT ![h] = ranges]
                  /\ Goto(h, AfterRanges(ranges))
          ELSE Goto(h, "broken") /\ UNCHANGED <<chain, todo>>
    /\ UNCHANGED <<remoteVars, jobVars, old, listed, completed>>

\* The object createRange would produce for the range on top of the stack.
NextKey(h) ==
    bundleKey(tip[h], Head(todo[h]).base, Last(Head(todo[h]).commits))
NextObject(h) ==
    [key |-> NextKey(h), etag |-> h, keys |-> Recipients(tip[h]), push |-> tip[h]]
Found(h) == {r \in completed[h] : r.key = NextKey(h)}

\* record: a fresh HEAD and envelope check, then the bundle joins the chain.
RecordRef(h, ref) ==
    IF Inspects(objects, ref, tip[h])
    THEN /\ chain' = [chain EXCEPT ![h] = Append(@, Checked(objects, ref))]
         /\ todo' = [todo EXCEPT ![h] = Tail(@)]
         /\ Goto(h, AfterRanges(Tail(todo[h])))
    ELSE Goto(h, "broken") /\ UNCHANGED <<chain, todo>>

\* A listed leftover that a newly planned range happens to match.
Reuse(h) ==
    /\ pc[h] = "build"
    /\ \E ref \in Found(h) : RecordRef(h, ref)
    /\ UNCHANGED <<remoteVars, jobVars, old, listed, completed>>

\* Mutant: the left half stops one boundary short.
splitRangeShort(h) ==
    LET r == Head(todo[h])
        middle == Len(r.commits) \div 2
        left  == [base |-> r.base, commits |-> SubSeq(r.commits, 1, middle - 1)]
        right == [base |-> r.commits[middle],
                  commits |-> SubSeq(r.commits, middle + 1, Len(r.commits))]
    IN
    /\ pc[h] = "build"
    /\ Found(h) = {}
    /\ Len(r.commits) > 1
    /\ todo' = [todo EXCEPT ![h] = <<left, right>> \o Tail(@)]
    /\ UNCHANGED <<remoteVars, pc, jobVars, old, chain, listed, completed>>

\* Over the size target, by estimate or by the packed file: halve the range.
splitRange(h) ==
    LET r == Head(todo[h])
        middle == Len(r.commits) \div 2
        left  == [base |-> r.base, commits |-> SubSeq(r.commits, 1, middle)]
        right == [base |-> r.commits[middle],
                  commits |-> SubSeq(r.commits, middle + 1, Len(r.commits))]
    IN
    /\ pc[h] = "build"
    /\ Found(h) = {}
    /\ Len(r.commits) > 1
    /\ todo' = [todo EXCEPT ![h] = <<left, right>> \o Tail(@)]
    /\ UNCHANGED <<remoteVars, pc, jobVars, old, chain, listed, completed>>

\* encryptAndUploadBundle: a conditional PUT; an existing object is accepted
\* if the same push tip wrote it (bundleUploadResult).
Upload(h) ==
    /\ pc[h] = "build"
    /\ Found(h) = {}
    /\ PutIfAbsent(NextObject(h))
    /\ Goto(h, IF \A o \in StoredAt(objects, NextKey(h)) : o.push = tip[h]
               THEN "record" ELSE "broken")
    /\ UNCHANGED <<itemVars, manifests, versioning, lateVars, published, jobVars, workVars>>

UploadUnknown(h) ==
    /\ "unknown" \in Faults
    /\ pc[h] = "build"
    /\ Found(h) = {}
    /\ lateBundles' = lateBundles \cup {NextObject(h)}
    /\ Goto(h, "abandon")
    /\ UNCHANGED <<itemVars, s3Vars, lateCommits, lateDeletes, lateManifests,
                   published, jobVars, workVars>>

Record(h) ==
    /\ pc[h] = "record"
    /\ RecordRef(h, [key |-> NextKey(h), etag |-> None, keys |-> Recipients(tip[h])])
    /\ UNCHANGED <<remoteVars, jobVars, old, listed, completed>>

----------------------------------------------------------------------------
(* Publication.                                                            *)

NewManifest(h) ==
    [repo |-> repo[h], branch |-> wants[h], tip |-> tip[h], chain |-> chain[h],
     legacy |-> FALSE]

putManifest(h) ==
    /\ pc[h] = "manifest"
    /\ IF validate(NewManifest(h))
       THEN /\ manifests' = [manifests EXCEPT ![h] = NewManifest(h)]
            /\ Goto(h, "commit")
       ELSE Goto(h, "broken") /\ UNCHANGED manifests
    /\ UNCHANGED <<itemVars, objects, versioning, lateVars, published, jobVars, workVars>>

putManifestUnknown(h) ==
    /\ "unknown" \in Faults
    /\ pc[h] = "manifest"
    /\ validate(NewManifest(h))
    /\ lateManifests' = lateManifests \cup {[by |-> h, body |-> NewManifest(h)]}
    /\ Goto(h, "abandon")
    /\ UNCHANGED <<itemVars, s3Vars, lateCommits, lateDeletes, lateBundles,
                   published, jobVars, workVars>>

Commit(h) ==
    /\ pc[h] = "commit"
    /\ CommitItem(h, repo[h], wants[h])
    /\ IF old[h] = None
       THEN Exit(h, "ok")
       ELSE Goto(h, "delete") /\ UNCHANGED <<jobVars, workVars>>
    /\ UNCHANGED <<s3Vars, lateVars>>

\* Somebody took the lease over: the owner condition fails.
CommitRejected(h) ==
    /\ pc[h] = "commit"
    /\ owner[repo[h]] # h
    /\ Goto(h, "abandon")
    /\ UNCHANGED <<remoteVars, jobVars, workVars>>

\* Mutant: an uncertain commit is followed by the deletion.
CommitUnknownDeletes(h) ==
    /\ "unknown" \in Faults
    /\ pc[h] = "commit"
    /\ lateCommits' = lateCommits \cup {[by |-> h, repo |-> repo[h], branch |-> wants[h]]}
    /\ Goto(h, IF old[h] = None THEN "abandon" ELSE "delete")
    /\ UNCHANGED <<itemVars, s3Vars, lateDeletes, lateManifests, lateBundles,
                   published, jobVars, workVars>>

\* The outcome of the write is unknown: no second write, no deletion.
CommitUnknown(h) ==
    /\ "unknown" \in Faults
    /\ pc[h] = "commit"
    /\ lateCommits' = lateCommits \cup {[by |-> h, repo |-> repo[h], branch |-> wants[h]]}
    /\ Goto(h, "abandon")
    /\ UNCHANGED <<itemVars, s3Vars, lateDeletes, lateManifests, lateBundles,
                   published, jobVars, workVars>>

DeleteOld(h) ==
    /\ pc[h] = "delete"
    /\ manifests' = [manifests EXCEPT ![old[h]] = NoManifest]
    /\ Exit(h, "ok")
    /\ UNCHANGED <<itemVars, objects, versioning, lateVars, published>>

\* The push is published but reported as failed.
DeleteUnknown(h) ==
    /\ "unknown" \in Faults
    /\ pc[h] = "delete"
    /\ lateDeletes' = lateDeletes \cup {old[h]}
    /\ Exit(h, "failed")
    /\ UNCHANGED <<itemVars, s3Vars, lateCommits, lateManifests, lateBundles,
                   published>>

----------------------------------------------------------------------------
(* Failure and the deferred release.                                       *)

Outcome(h) == IF pc[h] = "finish" THEN "noop" ELSE "failed"

\* Mutant: a push that failed removes the manifest it stored.
ReleaseCleansUp(h) ==
    /\ pc[h] \in Releasing
    /\ ReleaseItem(h, repo[h])
    /\ manifests' = [manifests EXCEPT ![h] = NoManifest]
    /\ Exit(h, Outcome(h))
    /\ UNCHANGED <<objects, versioning, lateVars>>

Release(h) ==
    /\ pc[h] \in Releasing
    /\ ReleaseItem(h, repo[h])
    /\ Exit(h, Outcome(h))
    /\ UNCHANGED <<s3Vars, lateVars>>

\* The bounded release request fails: the lease stays until it lapses.
ReleaseFails(h) ==
    /\ "error" \in Faults
    /\ pc[h] \in Releasing
    /\ Exit(h, "failed")
    /\ UNCHANGED remoteVars

\* Any request or Git command fails without effect, or a signal cancels it.
Abort(h) ==
    /\ "error" \in Faults
    /\ \/ pc[h] \in Leased /\ Goto(h, "abandon") /\ UNCHANGED <<jobVars, workVars>>
       \/ pc[h] \in {"lock", "delete"} /\ Exit(h, "failed")
    /\ UNCHANGED remoteVars

\* A renewal fails and the lease context is cancelled.
LeaseLost(h) ==
    /\ pc[h] \in Leased
    /\ owner[repo[h]] # h \/ lapsed[repo[h]]
    /\ Goto(h, "abandon")
    /\ UNCHANGED <<remoteVars, jobVars, workVars>>

\* The heartbeat: conditional on the owner token, not on the deadline.
Renew(h) ==
    /\ pc[h] \in Leased
    /\ owner[repo[h]] = h
    /\ lapsed[repo[h]]
    /\ lapsed' = [lapsed EXCEPT ![repo[h]] = FALSE]
    /\ UNCHANGED <<pointer, branch, owner, s3Vars, lateVars, published, pc,
                   jobVars, workVars>>

Crash(h) ==
    /\ "crash" \in Faults
    /\ pc[h] \notin {"idle"} \cup Ended
    /\ Exit(h, "failed")
    /\ UNCHANGED remoteVars

\* HeartbeatMaxAge passes: surely once the owner is gone, possibly while it
\* is stalled.
Lapse(r) ==
    /\ owner[r] # None
    /\ ~lapsed[r]
    /\ "lapse" \in Faults \/ pc[owner[r]] \in Ended
    /\ lapsed' = [lapsed EXCEPT ![r] = TRUE]
    /\ UNCHANGED <<pointer, branch, owner, s3Vars, lateVars, published, pc,
                   jobVars, workVars>>

----------------------------------------------------------------------------

\* What a running helper does next, when nothing goes wrong with it.
Step(h) ==
    \/ Lock(h) \/ LockHeld(h) \/ ReadMissing(h) \/ Read(h) \/ ValidateLegacy(h)
    \/ namespaceManifests(h) \/ Adopt(h) \/ AdoptDone(h)
    \/ listPushBundles(h) \/ inspectPushPrefix(h)
    \/ Reuse(h) \/ splitRange(h) \/ Upload(h) \/ Record(h)
    \/ putManifest(h) \/ Commit(h) \/ CommitRejected(h) \/ DeleteOld(h) \/ Release(h)

\* What may happen to it instead.
Fault(h) ==
    \/ UploadUnknown(h) \/ putManifestUnknown(h) \/ CommitUnknown(h) \/ DeleteUnknown(h)
    \/ ReleaseFails(h) \/ Abort(h) \/ LeaseLost(h) \/ Renew(h) \/ Crash(h)

PushNext ==
    \/ \E h \in Helpers : Start(h) \/ Step(h) \/ Fault(h)
    \/ \E r \in Repos : Lapse(r)
    \/ Land /\ UNCHANGED <<pc, jobVars, workVars>>

Spec == Init /\ [][PushNext]_vars

(***************************************************************************)
(* A process that has not crashed keeps running, and the clock keeps       *)
(* moving: an abandoned lease reaches its maximum age.                     *)
(***************************************************************************)
Fairness ==
    /\ \A h \in Helpers : WF_vars(Step(h))
    /\ \A r \in Repos : WF_vars(Lapse(r) /\ pc[owner[r]] \in Ended)

LiveSpec == Spec /\ Fairness

----------------------------------------------------------------------------
(* What makes publication correct.                                         *)

PublishedTip(r) == IF pointer[r] = None THEN Zero ELSE manifests[pointer[r]].tip
Acknowledged(r) == {tip[h] : h \in {g \in Helpers : pc[g] \in {"ok", "noop"} /\ repo[g] = r}}

(***************************************************************************)
(* The published pointer always names a stored manifest of that repository *)
(* and branch, whatever was interrupted, superseded or still in flight     *)
(* (lease.Commit, then DeleteObject of oldBundlesS3Key).                   *)
(***************************************************************************)
PointerResolves ==
    \A r \in Repos : pointer[r] # None =>
        /\ Exists(pointer[r])
        /\ manifests[pointer[r]].repo = r
        /\ manifests[pointer[r]].branch = branch[r]

(***************************************************************************)
(* Every manifest anyone can read, published or left by an uncertain push, *)
(* is a complete snapshot: a valid chain along ancestry whose bundles are  *)
(* stored with the recorded identity and recipients (putManifest,          *)
(* uploadBundle, inspectPush).                                             *)
(***************************************************************************)
SnapshotsComplete ==
    \A k \in ManifestKeys : Exists(k) =>
        /\ validate(manifests[k])
        /\ ChainInspects(objects, manifests[k].chain)

(***************************************************************************)
(* A push never finds a bundle it relies on missing, replaced, written by  *)
(* another push or encrypted to other recipients, and never assembles an   *)
(* invalid manifest: sibling repositories and retries sharing bundle keys  *)
(* do not disturb each other (bundleUploadResult, record, adoptBundles).   *)
(***************************************************************************)
ValidationNeverFails == \A h \in Helpers : pc[h] # "broken"

(***************************************************************************)
(* Whatever a push reported as done stays in the published history, in the *)
(* face of takeovers, stalled holders and commits that land late (push()'s *)
(* "ok" line and its up-to-date answer).                                   *)
(***************************************************************************)
NoLostPush ==
    \A r \in Repos : \A c \in Acknowledged(r) :
        pointer[r] # None /\ gitBranchContains(PublishedTip(r), c)

(***************************************************************************)
(* A manifest disappears only once another one has replaced it as its      *)
(* repository's pointer, and only from a versioned bucket.  Candidates of  *)
(* unacknowledged pushes, and both candidates of an ambiguous commit, stay *)
(* (DeleteObject of oldBundlesS3Key, ensureBucketVersioning).              *)
(***************************************************************************)
DeletesOnlySuperseded ==
    [][\A k \in ManifestKeys : Exists(k) /\ ~Exists(k)' =>
          /\ versioning
          /\ \E r \in Repos : /\ k \in ToSet(published[r])
                              /\ pointer[r] # k]_vars

(***************************************************************************)
(* The first push to an empty repository publishes only bundles that every *)
(* recipient of its tip can decrypt, and nobody else, however much of the  *)
(* namespace it adopts (adoptBundles, compatibleRecipients).               *)
(***************************************************************************)
FirstPublicationReadable ==
    \A r \in Repos \ LegacyRepos : published[r] # <<>> =>
        LET m == manifests[Head(published[r])] IN
        Exists(Head(published[r])) =>
            \A i \in DOMAIN m.chain : compatibleRecipients(m.chain[i].keys, m.tip)

Abstract == INSTANCE PublishedBranch WITH
    head  <- [r \in Repos |-> PublishedTip(r)],
    acked <- [r \in Repos |-> Acknowledged(r)]

(***************************************************************************)
(* The remote implements PublishedBranch: the published tip of a           *)
(* repository only moves to a commit that contains it, and acknowledgement *)
(* never precedes publication (the ancestry check of push(), decided       *)
(* before the uploads, against the conditional commit after them).         *)
(***************************************************************************)
RefinesPublishedBranch == Abstract!Spec

(***************************************************************************)
(* Every push ends, whatever other pushes do: no step waits for a lease,   *)
(* and splitting and adoption run out (push(), createRange).               *)
(***************************************************************************)
PushesEnd == \A h \in Helpers : pc[h] = "lock" ~> pc[h] \in Ended

(***************************************************************************)
(* A repository is never locked for good: a lease is released, committed   *)
(* or, after a crash or a failed release, left to lapse (deferred Release, *)
(* HeartbeatMaxAge).                                                       *)
(***************************************************************************)
LeaseComesBack == \A r \in Repos : owner[r] # None ~> Acquirable(r)
=============================================================================
