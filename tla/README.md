# Verification of git-remote-aws

A TLA+ model of git-remote-aws: encrypted Git hosting in S3, coordinated by
DynamoDB. TLC checks it on small instances; TLAPS proves its central safety
properties, and those of several parts, for every instance. All paths below are relative to the repository.

1. [The system](#1-the-system)
2. [The model](#2-the-model)
3. [What TLC checks](#3-what-tlc-checks)
4. [What is proved](#4-what-is-proved)
5. [What the work found](#5-what-the-work-found)
6. [What is not modelled](#6-what-is-not-modelled)
7. [Plan](#7-plan)

## 1. The system

A *remote* is a repository of a namespace, with one branch and no force pushes.
Helper processes started by Git on many machines share two services and nothing
else:

- **DynamoDB** holds one item per repository: the published *pointer* (the S3 key of
  a manifest) and branch, and in the same item the go-dynamolock *lease*.
- **S3** holds encrypted Git bundles, shared by the repositories of a namespace, and
  one *manifest* per publication: the tip and the chain of bundles that builds it.

A push takes the lease, reads the published manifest, decides whether its commit is a
fast-forward, finds or uploads the bundles it needs, stores a new manifest under a
fresh UUID, and publishes it by one conditional write that also ends the lease. Then
it deletes the manifest it superseded. Readers take no lease.

| Part | Source | State | Operations | Depends on |
|---|---|---|---|---|
| Push | `main.go` | the invocation's progress | `push`, deferred `Release` | all below |
| Manifests, chains, adoption | `manifest.go` | S3 manifests | `getManifest`, `putManifest`, `validate`, `adoptBundles`, `inspect` | S3, Git |
| Resuming | `bundle_resume.go` | S3 bundles under a push tip | `listPushBundles`, `completedPushPrefix`, `inspectPushPrefix` | S3, Git |
| Splitting | `bundle_split.go` | ranges to build, a pinned ref | `pushBundleCommits`, `createRange`, size estimates | Git, disk |
| Upload | `bundle_upload.go` | one object, a multipart upload | `uploadBundle`, `bundleUploadResult` | S3 |
| Recipient policy | `push_policy.go`, `manifest.go` | `.publickeys` at each commit | `compatibleRecipients`, transition and worktree checks | Git, libsodium |
| Reading | `main.go` | the listed tip | `list`, `fetch`, `readPublishedMetadata`, `fetchManifest` | DynamoDB, S3 |
| Recovery | `recovery.go` | nothing | listing candidates, restoring one | S3 |
| Validation and its cache | `validation_cache.go` | a memo, local files with checksums | `inspect`, `inspectPush`, `load`, `store` | S3, disk |
| Versioning | `bucket_versioning.go` | the bucket's flag | preflight of every push | S3 |
| Migration | `migration.go` | old and new item formats, a backup file | `runMigration` | DynamoDB, S3 |
| Keys | `keygen.go` | key files | generation, rotation | disk |
| Set-up | `aws.go` | bucket, table | `ensure` | AWS |
| Helper loop | `main.go` | stdin, signals | dispatch, cancellation | Git |
| Encryption stream | `bundle_crypto.go` | a pipe | encrypt, decrypt | libsodium |
| Git commands | `git_command.go` | | subprocess construction | Git |

### What is hard here

- **Uncertain requests.** A commit, a PUT or a DELETE whose response is lost may have
  happened, may happen later, or never. The code neither repeats an uncertain commit
  nor cleans up after it.
- **Leases that run out.** A stalled holder is not told: it goes on reading,
  uploading and even committing after somebody else took the lease, published and
  deleted the manifest it had read.
- **Steps outside the lease.** The superseded manifest is deleted after the commit
  has ended the lease, while other pushes and readers run.
- **Shared bundles.** Pushes of the same tip to sibling repositories, and retries of
  one push, write the same bundle keys; adoption builds on other repositories'
  manifests while those are superseded and deleted.
- **Decisions used later.** The tip is resolved and the ancestry checked once, many
  requests before the commit that relies on them.
- **Readers without locks.** A read goes item, manifest, bundles; a publication may
  come between any two of them, and Git's `list` and `fetch` are separate commands.
- **Work inside one process.** Goroutines that validate bundles, an `AfterFunc` that
  closes files, a reader that blocks on Git's pipe: each races a cancellation.
- **Files and refs shared with other programs.** Key files, backups, the validation
  cache and the pinned Git ref may change at any moment.
- **Processes that vanish.** Between any two requests a helper may crash, and its
  manifest candidate, its bundles and its lease stay behind.

`PROJECT.json` lists these as hazards, each at its line, with the properties that
cover it or the reason why none does.

### What makes each part correct

| Part | Correct means |
|---|---|
| Push | the pointer always resolves; an acknowledged commit is never lost; the branch only moves forward; every push ends; no repository stays locked |
| Manifests, adoption, resuming | every stored manifest is a complete snapshot; nobody ever relies on a bundle that is missing, foreign or undecryptable |
| Splitting | the packed ranges are the missing history and each bundle holds the end it is named for; a ref that is not the helper's is never removed |
| Reading, recovery | no push makes a read fail on the data or come back incomplete; giving up means it was really overtaken; what was listed is fetched |
| Validation, its cache | what is learnt about a bundle is true of one object; the error returned is one that happened; every operation ends |
| Upload | one whole ciphertext per key, success only for the push's own tip, nothing left over in silence, no cancelled upload that hangs |
| Migration | reported success is true; a record is converted with the payload it has at that moment; the originals survive in a backup |
| Keys | after a crash no public key lacks its secret; no generation is discarded; success is durable |
| Set-up | no push into a bucket that is not versioned; a bucket of others keeps its configuration; a bucket left half made has a maker that did not go on |
| Helper loop | no line that comes with or after a signal is acted upon; a signal ends even a silent conversation |

## 2. The model

```
GitHistory           commits, ancestry, first-parent lines, recipient policy (constants)
  Snapshots          bundles, manifests, chains: pure operators
    RemoteState      DynamoDB item + lease, S3 objects, requests in flight
      Push           push(), one action per remote request     -> PublishedBranch
        PushInvariant       the inductive invariant
          PushProofs        types, publication, the abstract branch, deletions (TLAPS)
            SnapshotProofs  complete snapshots, first publications (TLAPS)
      Fetch          list, fetch, --recover
        Remote       Push and Fetch over one remote
          ReaderInvariant   the inductive invariant, with Push's
            ReaderProofs    (TLAPS, on top of SnapshotProofs)
    Packing          boundary search, splitting, the pinned ref
      PackingProofs         (TLAPS)
PublishedBranch      what a remote promises (abstract)
Validation           what a bundle object really is: pool, chain, cache
  ValidationProofs          (TLAPS)
StreamBundle         streamBundle and its AfterFunc callback
PartSize             part sizes of multipart uploads
  BundleUpload       both of these: PUT, multipart upload, abort  -> StoredBundle
    UploadInvariant         the inductive invariant
      UploadProofs          (TLAPS)
StoredBundle         what an upload promises its push (abstract)
BucketSetup          bucket, settings, table, the versioning preflight
  HelperLoop         reader, select, dispatch, signals
    HelperProofs            (TLAPS)
Migration, Keygen    the two administrative commands
  Commands           main's choice between them
    CommandInvariant        the inductive invariants
      CommandProofs         (TLAPS)
Histories            commit graphs and policies for TLC
MC*                  TLC instances
```

**GitHistory.** Git's answers as constants: `Ancestry[c]` is what `c` reaches,
`FirstParents[c]` is `rev-list --first-parent --reverse c`, `Policy[c]` gives the
generation each recipient chain has at `c`. `gitBranchContains`, `pushBundleCommits`,
`compatibleRecipients` and `KeyChainTransition` are the functions of those names.

**Snapshots.** `bundleKey`, `validate` (`manifest.validate`), `Inspects` (one `inspect`
or `inspectPush`: fresh HEAD, ETag, push-tip metadata, recipients), `ChainInspects`
(`bundleValidation.chain`), `completedPushPrefix`, and the two prefixes adoption takes
of a chain. Operators with several acceptable results return the set of them; the
actions pick with `\E`.

**RemoteState.** The item is `pointer`, `branch`, `owner`, `lapsed`; S3 is `manifests`,
`objects`, `versioning`. A request whose outcome its sender never learns moves to one
of the `late*` sets with the payload it carries, and lands later under its own
condition (owner token for a commit, `If-None-Match` for a PUT), or never.
`published[r]` is a history variable: the keys the pointer has held.

**Push.** `pc[h]` walks through `push()`:

| `pc` | in the code | actions |
|---|---|---|
| idle | argument checks, `ensureBucketVersioning` | `Start` |
| lock | `dynamolock.Lock`, the one-branch check | `Lock`, `LockHeld` |
| read | `getManifest`, resolving the tip, fast-forward and recipient checks, up-to-date answer | `Read`, `ReadMissing` |
| validate | validation of a legacy chain before its promotion | `ValidateLegacy` |
| adoptList, adopt | `adoptBundles` | `namespaceManifests`, `Adopt`, `AdoptDone` |
| list, resume | `uploadPushBundles`: listing, prefix, its validation | `listPushBundles`, `inspectPushPrefix` |
| build, record | `createRange`, `encryptAndUploadBundle`, `record` | `Reuse`, `splitRange`, `Upload`, `UploadUnknown`, `Record` |
| manifest | `putManifest` | `putManifest`, `putManifestUnknown` |
| commit | `lease.Commit` | `Commit`, `CommitRejected`, `CommitUnknown` |
| delete | `DeleteObject` of `oldBundlesS3Key` | `DeleteOld`, `DeleteUnknown` |
| abandon, broken, finish | the deferred, bounded `Release` | `Release`, `ReleaseFails` |
| any | failed request or Git command, signal; failed heartbeat; heartbeat; crash | `Abort`, `LeaseLost`, `Renew`, `Crash` |

`broken` is kept apart from `abandon` so that "a validation failed on the data" can be
told from ordinary failures. `Lapse` is the clock.

**Fetch.** A reader issues `list`, then `fetch`, as Git does; each runs
`readPublishedMetadata` (`ReadMeta`, `ManifestMissing` with its bounded attempts).
`FetchFound`, `GetBundle`, `FetchDone` are `fetchManifest`. `RecoverList`, `RecoverScan`
and `Recover` are the two `--recover` commands with the operator's choice between them.

**Packing.** One push's way from a base to a tip. `Search` is one probe of
`pushBundleCommits`, with the code's `low` and `high`; `SearchEnds` keeps the suffix. `step`
then walks through `createRange` for the head of `todo`: reuse or split by estimate (`TakeRange`), or
`createPinnedPushBundle` with `Pin`, `Bundle`, the guarded removal (`Prepare`,
`CheckType`, `Commit`: the steps of Git's ref transaction), then the check of the packed
head and the split by size (`Finish`). `ForeignWrite` is every other Git process, which may write the ref
whenever the transaction does not hold its lock. What `Push` takes from
`pushBundleCommits` in one step is thereby justified.

**Validation.** One helper runs operation after operation: `StartPrefix` is
`inspectPushPrefix` with its goroutines, its feeder and its cancellable context;
`StartChain` is `bundleValidation.chain`, of which `FollowChain` is the loop's own checks
(continuity, then `gitBranchContains`) and `InspectNext` is `inspect` with its memo
`inspected`; it has no goroutines and no context of its own, so it ends with the error it
meets (`ReturnChain`) where the pool ends with its context's cause (`ReturnPool`). Both run
`inspectPush`, one action per request: `HeadAndLoad` (HEAD and the cache file),
`ReadCount` and `ReadRecipients` (the conditional range reads), `RequestFails`. An object
is what its ETag stands for; an administrator replaces and deletes objects between any
two requests (`Administrate`), and the cache outlives the operations (`CacheMiss` is a
file that was lost or fails its checksum). `cause` is `context.Cause` of whichever context
the operation works under, `err` what the chain's loop has met.

**StreamBundle, PartSize, BundleUpload, StoredBundle.** `encryptAndUploadBundle` of
several helpers that store one key. `StreamBundle` has the codec, the `AfterFunc`
callback, `stop` and the wait for `done`. `BundleUpload` adds the conditional PUT, the
multipart protocol with the parts `multipartBundlePartSize` chooses, the deferred abort
under its own context, and `bundleUploadResult`. Requests whose sender stopped waiting
land later or never; the SDK may send one again. `StoredBundle` is the promise: the first
complete ciphertext stays, and success means that it belongs to a push of the caller's
tip.

**BucketSetup, HelperLoop.** `ensureResources` of several helpers that share a bucket:
probe, creation, the six settings of `configureNewBucket` in order, the table and its
waiter. `maker` is whose creation made the bucket: a helper's, somebody else's before the
helpers started (`Found`) or since (`Others`, by `OthersMakeBucket`); `given` is what the
others had configured, everything or nothing, the latter being what an earlier helper may
leave. `repeats` is the region: in us-east-1 creating one's own bucket again succeeds, so
a helper can be told that it made a bucket it did not make, and then configures it
(`NINA.md` tells operators to serialize setup for this reason). `Kill` ends a helper
anywhere. Then `gitHelper`: the reader goroutine offers lines over an unbuffered channel,
the main goroutine selects between a line and the cancelled context and checks the
context again, `helperCommand` dispatches after its alias check, and a push starts with
`ensureBucketVersioning`.

**Migration, Keygen, Commands.** `Migration` has operators' runs of
`--migrate-dynamolock` (snapshot, plan, backup with its sync, one conditional update per
record, the strong read after an ambiguous one, the final verification), beside old and
new helpers nobody stopped, late writes and power losses. `Keygen` has runs of
`--keygen`: directory locks in order, the absence checks, temporary files, `link` or
`rename`, the directory syncs; `survives` is the set of what a power loss may leave of
each file. `Commands` is `main`: a behaviour is one of the two.

**PublishedBranch.** The promise: per repository a head that only moves to a commit
containing it, and acknowledgements the head always contains. `Push` implements it
with `head` as the tip of the pointed manifest and `acked` as the commits of the
helpers that reported success; checked as `RefinesPublishedBranch`.

### Decisions a reader should know

- **A helper is one push invocation.** A retry, a restart after a crash or a later
  push by the same person is another member of `Helpers`. Invocations read nothing of
  each other's memory, so this loses nothing and bounds the instance.
- **UUIDs and ciphertexts have owners.** `putManifest` draws a fresh UUID, once per
  push, so a manifest key is the helper that drew it. Encryption is randomised, so an
  ETag is the helper that uploaded. The list an older version left is keyed by its
  repository.
- **Sizes are nondeterministic.** Any range longer than one boundary may be split or
  built, which covers every size, estimate and setting.
- **A `LIST` is one step.** Multi-page listings that see a mix of states are not
  modelled.
- **Late acquisitions.** A lock or release request that lands after its sender gave up
  has the effect of a crash right after `Lock`, or of `Lapse`; they have no set of
  their own.
- **Retries inside the SDK.** A conditional PUT that the SDK repeats after it had
  succeeded gets a precondition failure. For bundles that is the existing-object
  path of `Upload`; for a manifest the push fails with its candidate stored, which is
  `putManifestUnknown` with the manifest landing at once.
- **Renewal and commit depend on the owner token, not the deadline.** That is how the
  push code and its tests (`lease_push_test.go`) use go-dynamolock, which is not part
  of this repository. A holder whose lease ran out may therefore still commit if
  nobody took over. `Lapse` while the owner is alive is a stalled process.
- **After a successful commit the deferred release does nothing**: the owner token is
  gone from the item. `Release` appears only where the lease may still be held.
- **Local failures** (worktree policy checks, disk, Git, encryption) have the same
  effect as a failed request at that point: `Abort`.
- **Readers' own failures are left out.** A reader writes nothing, so only what the
  remote can do to a read matters. `fetch` insists on a pointer and on the branch that
  `list` saw; both checks are part of `ReadMeta`.
- **One object format.** SHA-1 and SHA-256 repositories are not mixed.
- **Cancellation in Packing, Validation and uploads** may come at every step, from a signal, a lost
  lease or an error next door; where a step fails because of it, the model gives it
  the outcome the code gives it. In `Validation` these differ: a request of the pool gets a
  plain cancellation that the pool's cause hides, one of a chain returns it, and a chain
  that is cancelled before it asks Git panics that Git did not run (`GitFailed`).
- **A half-made bucket serves others.** A helper that finds a bucket takes it as it is. What
  its maker left undone is told only by that maker's error, and by nobody if it was
  killed; a push enables versioning, and nothing else is ever repaired. The code means
  it so ("never converge its existing configuration", `aws.go:99`), and
  `OnlyMakersConfigure` states what is left to rely on.
- **The administrator acts in `Validation` only.** `Push` assumes that nobody but
  helpers writes to the bucket, which is what makes `ValidationNeverFails` meaningful;
  `Validation` shows what the checks behind it are worth when that is not so.
- **A ciphertext's length is in units of part size**, so that a few units meet every
  boundary of `multipartBundlePartSize`; the proof about it has no such restriction.

## 3. What TLC checks

Every instance sets `CHECK_DEADLOCK FALSE`: helpers, readers and commands are single
invocations, and when all have ended the system really stops.

| Run | Instance | Properties | Shows |
|---|---|---|---|
| `push_faults` | 2 pushes, 1 repository, fork of 4 commits one of which drops its recipient policy, 2 branch names, all faults | `TypeOK` `PointerResolves` `SnapshotsComplete` `ValidationNeverFails` `NoLostPush` `DeletesOnlySuperseded` `RefinesPublishedBranch` | the two-party races of publication under every combination of failed, late and lost requests, lapses and crashes |
| `push_three` | 3 pushes, 1 repository, fork; errors, crashes, uncertain requests | `PushInv` | the inductive invariant of the proofs; three-party races |
| `namespace` | 3 pushes, 2 repositories (one a legacy list), merge of 4 commits, rotating recipients, crashes | `SnapshotsComplete` `ValidationNeverFails` `FirstPublicationReadable` | adoption, resumption, sharing and promotion |
| `readers_churn` | 1 reader, 4 pushes, line of 4 commits, no faults | `ExhaustionMeansChurn` | a reader overtaken up to four times |
| `readers_faults` | 1 reader, 2 pushes, legacy list, fork, all faults | `RemoteInv` `ReadsAreSound` `FetchedContainsListed` | reads and recoveries against interrupted pushes; the inductive invariant of the proofs |
| `push_liveness` | 2 pushes, 2 repositories (one a legacy list), line of 2 commits, all faults, fairness | `PushesEnd` `LeaseComesBack` | nothing waits for ever |
| `packing` | every base and tip of 6 commits with a merge, 2 foreign writes | `SearchFindsBoundaries` `PackedRangesCover` `ForeignRefsSurvive` | the search over a line that side history joins, splits in every order, a ref that others write |
| `validation` | 3 bundles, 2 goroutines, 2 operations, chains of 2, 1 administrative change, fairness | `ValidationTypeOK` `ChecksAreTrue` `FirstErrorReported` `OperationsReturn` | pool and chain over one cache, against replaced objects, failing requests and cancellation |
| `bundle_upload` | 2 uploads of one key, 1 or 2 tips, sizes 1, 4, 5, 7 in parts of 2 or 3, at most 2 parts, fairness | `UploadInv` `LeftoversAreReported` `PartsWithinLimits` `CallbackJoined` `RefinesStoredBundle` `CancellationEndsUpload` | PUT and multipart uploads against each other, lost and repeated requests, cancellation, crashes |
| `helper` | 2 helpers, 1 bucket that is there or not, others who make it, both kinds of region, 2 and 0 lines, kills, fairness | `OnlyMakersConfigure` `LateLinesAreRefused` `SignalEndsHelper` | half made buckets, several creators, failing probes, a signal at every moment |
| `admin` | 2 migrations of 2 records, or 2 key generations on 2 crossed pairs | `CommandsInv` `OriginalsBackedUp` `SuccessMeansMigrated` `PublicHasSecret` `SuccessIsDurable` `CarriesPayload` `ChainsOnlyGrow` | reruns, concurrent runs, helpers still running, late writes, kills and power losses |
| `recovery_listing` | 1 recovery, 2 pushes, no faults | `SupersededIsHarmless` (violated) | section 5 |

### The properties

- `PointerResolves`: the pointer names a stored manifest of its repository and branch.
  A late deletion, a late commit or a cleanup in the wrong place breaks it.
- `SnapshotsComplete`: every manifest in S3, including those no pointer names, is valid
  and all its bundles are there with the recorded identity and recipients.
- `ValidationNeverFails`: no push ever meets a bundle missing, replaced, of another
  push tip or with other recipients. The code has an error path for each; in a remote
  written only by these helpers none of them is reachable.
- `NoLostPush`: an acknowledged commit stays contained in the published tip.
- `DeletesOnlySuperseded`: a step property; a manifest disappears only after another
  replaced it as the pointer, and only from a versioned bucket.
- `FirstPublicationReadable`: adoption never publishes a bundle some recipient of the
  new tip cannot decrypt, nor one encrypted to somebody else.
- `RefinesPublishedBranch`: forward-only, and acknowledged only once published.
- `ReadsAreSound`, `ExhaustionMeansChurn`, `FetchedContainsListed`: for readers. The
  second says that each failed attempt costs the writers a whole publication.
- `PushesEnd`, `LeaseComesBack`: liveness.
- `SearchFindsBoundaries`: the binary search returns the suffix that containment of the
  base defines, also for a base that only a merge brings into the line.
- `PackedRangesCover`: what a push uploaded or reused follows from base to tip, and each
  bundle contains the commit it is named and encrypted for, although others may have moved
  the ref that Git packed.
- `ForeignRefsSurvive`: a step property; the helper creates the ref only where none is
  and removes it only while it directly names the pinned commit.
- `ChecksAreTrue`: recipients, identity and push tip that a validation returns belong to
  one object that existed while it ran; cache files never say anything else.
- `FirstErrorReported`: the pool returns the complete list, the error of a reference that
  failed by itself or its caller's cancellation, never an error that a sibling's
  cancellation caused. A chain returns the complete list, the one reference that failed, or,
  when none did, its cancellation or Git's failure to run. No goroutine is left.
- `LeftoversAreReported`: an upload is left open only by a dead helper or with an error that
  says so. `PartsWithinLimits`: S3 sees no part list it would refuse. `CallbackJoined`: no
  callback closes files after `streamBundle` returned. `RefinesStoredBundle`: the promise
  to the push.
- `OnlyMakersConfigure`: a bucket that somebody else made gets nothing but a push's
  versioning, except by a helper that us-east-1 told that it had made it; a bucket of the
  helpers lacks a setting only while its maker configures it or after that maker failed or
  was killed; a push runs only under versioning. It does not say that a helper
  refuses a half-made bucket: it does not.
- `LateLinesAreRefused`: nothing that arrives with or after a signal is acted upon.
- `CarriesPayload`: a record leaves the old format only unheld and with the payload it has
  at that moment. `OriginalsBackedUp`, `SuccessMeansMigrated`: the operator's promises.
- `PublicHasSecret`: over everything a power loss may leave. `ChainsOnlyGrow`: no run
  replaces what it has not read. `SuccessIsDurable`.
- `OperationsReturn`, `CancellationEndsUpload`, `SignalEndsHelper`: liveness of the parts.
- `PushInv`, `RemoteInv`, `UploadInv`, `CommandsInv`: the inductive invariants of section 4,
  which include the type invariants of their modules.

Every property has a mutant of the code that breaks it, in `PROJECT.json`; the mutated
operators stand before the ones they change and are marked `Mutant:`.

### Bounds

Every bound is a constant of a `.cfg`.

- *Commits.* The fork has what fast-forward checks tell apart: a common ancestor, two
  diverging children. Lines of up to three boundaries give splits into halves of
  unequal length and partial prefixes to resume. The merge adds side history joining
  the first-parent line.
- *Helpers.* Two exhibit every pairwise race, with all faults at once; the third adds
  a push that builds on what the first two left. Four pushes are one more than
  `maximumAttempts`, so a reader can be exhausted and can also survive.
- *Repositories.* Two share a namespace; nothing couples more than two at a time
  except through the set of stored bundles and manifests.
- *Branches.* Two names, in `push_faults`, for the one-branch rule.
- *Packing.* Six commits with a side line give ranges that split three times and a base in
  side history; `MaxWrites` 2 lets a foreign ref be made and changed again.
- *Validation.* Three bundles for two goroutines leave the feeder without a receiver;
  `MaxChain` 2 names a bundle twice, or two that do or do not follow one another (`Chained`
  keeps those keys to two, `Begins` and `Ends` give them ranges); `MaxOperations` 2
  uses the first one's cache; `MaxChanges` 1 comes between any two requests.
- *Uploads.* Parts of 2 to 3 units, two of them, stand for 64 MiB, 5 GiB and 10,000. The
  sizes are one PUT, equal parts, parts that had to grow, and too large.
- *Helper loop.* `MaxLines` bounds Git's lines: two for one helper, so that a signal falls
  between them, and none for the other, which races it in the set-up and is silent
  afterwards. `RepeatAnswers` covers both answers to creating one's own bucket.
- *Commands.* `Busy` and `Unstopped` limit who may still write to which record; `Initial` has
  every kind of record, mixed and unknown ones included. The two pairs of key files cross
  their directories, which is what the lock order is for.
- *Other counters.* There are none to cap: requests in flight, attempts and publications are
  bounded by the invocations.

Helpers are interchangeable, so the safety runs use symmetry over them. Commits are
not (they have ancestry), and no run that checks liveness uses symmetry.

### Fairness

In `Push`, `Fairness` asks for two things. A running helper's `Step` is weakly fair: a live process
goes on, because every request in the code has a bounded context and no step waits for
another helper (`Lock` fails at once when the lease is held). And an ended owner's
`Lapse` is weakly fair: DynamoDB's clock moves and a dead process sends no heartbeat.
Faults are never fair, late requests may never land, and nothing forces a live holder's
lease to lapse.

In `Validation`, the feeder, the return, the chain's loop (`Walks`), every goroutine of the
pool and every request of `inspectPush` are weakly fair: Go schedules what can run, and the SDK bounds its attempts.
In `HelperLoop`, the main goroutine, the reader when it can go on (`Runs`) and every
request or wait of the set-up (`SetsUpHelper`) are; Git is not, so the reader may block
for ever. In `BundleUpload`, only `GivesUp` is: under a cancelled context a step that the
cancellation can end does end, and the abort has its own timeout. A codec that waits for a
stream nobody serves is never made to go on by fairness; only the callback wakes it.

## 4. What is proved

| Module | Theorems |
|---|---|
| `PushProofs` | `TypeCorrect` (`[]TypeOK`), `PointersResolve`, `NothingLost` (`[]NoLostPush`), `Refinement` (`RefinesPublishedBranch`), `OnlySupersededDeleted` (`DeletesOnlySuperseded`) |
| `SnapshotProofs` | `PushInvariance` (`[]PushInv`), `SnapshotsAreComplete` (`[]SnapshotsComplete`), `ValidationHolds` (`[]ValidationNeverFails`), `FirstReadable` (`[]FirstPublicationReadable`) |
| `ReaderProofs` | `RemoteInvariance` (`[]RemoteInv`), `RemoteTypeCorrect`, `SoundReads` (`[]ReadsAreSound`), `ListedIsFetched` (`[]FetchedContainsListed`), `OnlyChurnExhausts` (`[]ExhaustionMeansChurn`) |
| `UploadProofs` | `UploadInvariance` (`[]UploadInv`), `UploadTypeCorrect`, `StoresWhole` (`RefinesStoredBundle`), `LeftoversReported`, `PartsAlwaysFit` (`[]PartsWithinLimits`), `CallbacksJoined`, `EveryPartFits` (the parts of every size fit S3's limits, or none would) |
| `CommandProofs` | `CommandInvariance` (`[]CommandsInv`), `CommandTypeCorrect`, `OriginalsSaved`, `TruthfulSuccess` (`[]SuccessMeansMigrated`), `PayloadsCarried` (`CarriesPayload`), `SecretsFirst` (`[]PublicHasSecret`), `DurableSuccess` (`[]SuccessIsDurable`), `OnlyGrowth` (`ChainsOnlyGrow`) |
| `PackingProofs` | `SearchCorrect`, `PackingCovers`, `ForeignRefsKept` |
| `ValidationProofs` | `ValidationTyped`, `ChecksTrue`, `ErrorsReported` |
| `HelperProofs` | `MakersConfigure` (`[]OnlyMakersConfigure`), `LateLinesRefused` |

Every safety invariant, action property and refinement that a run checks is proved, each
for the specification of its module and every value of the constants.

**Assumptions.** The named ones of the modules; TLC evaluates them in the runs.

- *History.* Ancestry is reflexive, transitive and antisymmetric (`HistoryAssumption`); a
  first-parent line ends at its commit, and its later commits properly contain the earlier
  ones (`FirstParentAssumption`); a policy names finitely many chains and generations count
  from 1 (`PolicyAssumption`). A commit may have no policy: `Pushable` refuses it, and
  `ValidationNeverFails` needs that.
- *Names.* The kinds of names do not overlap (`SnapshotsAssumption`); the switches of the
  instance (`PushAssumption`); readers make at least one attempt (`FetchAssumption`).
- *Uploads.* A ciphertext is never empty, absence is not a value (`UploadAssumption`); at
  least as many bytes in a usual part as parts in an upload (`PartSizeAssumption`), which
  `EveryPartFits` needs: rounding up by one byte per part must be enough.
- *Commands.* The records of the table are functions from attributes to values, and which
  helpers may still run (`MigrationAssumption`); two different key pairs have no file in
  common, and names do not overlap (`KeygenAssumption`). Two invocations may name the same
  pair, or pairs whose directories cross.
- *Validation.* Finitely many bundles (`KeysAssumption`), the caller is no worker
  (`GoroutinesAssumption`), errors and absence are not values (`CausesAssumption`,
  `AbsenceAssumption`, `DescriptorAssumption`).
- *Set-up.* Those who may have made the bucket have different names (`MakersAssumption`).

**Type correctness** is not only bookkeeping here: it needs that boundaries are
sequences of commits, that halving a range never yields an empty one, that `todo` is
nonempty whenever its head is used, and that a tip is resolved wherever it is used
(`JobInv`, proved with it).

**The inductive invariant.** `PointerResolves` and `NoLostPush` do not follow from
themselves: a stalled push that will commit, or a deletion still in flight, can break
them in a later step. `PublicationInv`, the first part of `PushInv`, says what prevents that:

1. *A key is published once* (`KeyInv`, `OwnKeys`). Before its commit, a helper's key has
   been in no pointer; keys of different repositories differ. So a key that was
   superseded never becomes the pointer again, and deleting it, however late, is safe.
2. *A candidate outlives its commit* (`Candidate`, `LateCommitOK`, `LateManifestOK`). A
   helper about to commit, or a commit in flight, has its manifest stored. Nothing
   deletes it, because deletions only name superseded keys.
3. *Whoever owns the lease has seen the current pointer* (`FreshUnderLease`). Only a
   commit moves the pointer and it clears the owner; `Lock` sets the owner together with
   `old`. So the commit condition on the owner token implies that the ancestry checked
   long before is ancestry of what is published now. The same is kept for a commit in
   flight whose sender has given up.
4. *What was read is still contained* (`Forward`). Even without the lease, what a helper
   read and still finds is contained in the published tip; this is what makes the
   up-to-date answer of a stalled push truthful, and with it every acknowledgement.

The proof divides the steps into those that move no pointer and delete only superseded
manifests (`QuietStep`, with `LocalStep`, `WalkStep`, `EndStep` for helpers' own steps) and
the two that publish, `Commit` and `LandCommit`, which share `PublishStep`.

**Refinement and deletion.** Given `PublicationInv`, a step that moves no pointer and stores
safely keeps every head (`HeadsKept`); it is a stutter (`Stutter`) unless its helper starts
to report, and then `Forward` makes it `Acknowledge` (`AckStep`). The two publishing steps
are `Advance` (`AdvanceStep`), because `Publishes` includes the ancestry that item 3 kept
true. Deletions name superseded keys by items 1 and 2; that the bucket is versioned by
then is a small invariant of its own, `VersionInv`.

**Snapshots** (`SnapshotInv`, the second part). Objects are only ever added, and each one is
what its key says (`Faithful`): written by a push of the tip in its key, to the recipients of
that tip. So a descriptor that was inspected once passes every later inspection
(`InspectsGrows` and its kin), wherever the chain was adopted from. What is left to upload
continues the chain assembled so far, up to the tip (`Joined`), and every range rises along
ancestry (`Sound`): adoption, resumption, splitting and recording each keep that. Then no
check of the code's own data can fail (`WorkInv` has `pc # "broken"`), and what `putManifest`
writes is complete. That the ends of a chain contain one another (`Ascending`) is what
excludes two bundles with one end.

**First publications** (`FirstInv`, the third part). While nothing is published, a chain holds
only bundles the recipients of the tip, and nobody else, can decrypt; under the lease,
`FreshUnderLease` makes "nothing was read" mean "nothing is published".

**Readers** (`RemoteInv`). What the item has been (`HistoryOf`): the pointer is the last key
published, and every published manifest still stored is contained in the current one. A push
only makes that history longer (`Later`), so what a reader saw stays a state of it (`SeenOK`),
the tip that `list` promised stays contained in whatever `fetch` finds (`PromiseOK`), each lost
manifest costs one publication (`ChurnOK`), and the bundles it is about to download still
inspect, by monotonicity (`WantedOK`). Readers write nothing, so the pushes' invariant is not
theirs to disturb.

**Uploads of one key** (`UploadInv`). A request is only made for what the codec wrote in full
(`WholeOK`); the parts sent are full ones up to the offset reached (`OffsetOK`, over
`Uploaded`, a sum whose recursion is handled by well-founded induction); so a completion, in
time or late (`LateOK`), stores the whole ciphertext, and nothing replaces an object. A step
of one upload leaves the others alone (`Advances`, `JobAdvances`), late requests included,
which are steps of their senders. The refinement of `StoredBundle` then follows step by step
(`StoresStep`), and `PartsWithinLimits` from `EveryPartFits` and one product (`FewParts`).

**Migration** (`MigrationInv`). What an invocation read of a record bounds what can come of it
(`StillBounds`): the record is never removed, and no helper adds attributes that the snapshot
did not show and the migration does not know. With the condition of `migrationUpdate`, an update planned
from a stale snapshot applies only to a record with the same payload, so it carries it.
Every update, and every one in flight, has its record in a synced backup (`RequestsOK`,
`BackupOK`). With the old helpers stopped, `MigratedOK` accumulates what was found migrated.

**Key generation** (`KeygenInv`). Who holds both directory locks is alone with its files
(`LocksOK`, `Alone`); from the read to the last sync, what it publishes is what it read,
extended (`MadeOK`); the secret is the only thing a power loss can leave before the public
file is replaced (`PublishedOK`). A power loss ends every run, and `survives` is all it may leave.

**The boundary search** (`SearchInv`). Between `low` and `high` lies the boundary: what was
probed just below does not contain the base, what was probed just above does. Containment
is monotone along a first-parent line because ancestry is transitive and the line runs
along it, so these two neighbours are enough. **The ranges** (`RangeInv`, `ConsumedInv`):
what is consumed ends where `todo` begins, `todo` joins up to the tip, splitting replaces a
range by two that meet, and the check of the packed head makes the bundle's head its name's.
**The ref** (`RefInv`): while the transaction holds the lock, the ref is what it verified.

**Validations** (`ValidationInv`). A HEAD's answer stays true of the identity it named
(`HeadInv`, `SeenInv`), reads bound to that identity give its recipients, so cache, memo and
result slots stay true (`CacheTrue`, `MemoInv`, `CheckedInv`) whatever an administrator does. For the
errors: the pool's context is cancelled exactly when a reference failed or the caller cancelled
(`PoolInv`), a chain stops at the first thing that goes wrong (`ChainInv`), and until then
every index handed out is answered or in somebody's hands (`ProgressInv`), so a pool that
has joined without a cause, and a chain without an error, have the complete list.

**Set-up and dispatch** (`SetupInv`, `LoopInv`). Nothing is ever unset, and the requests of
`configureNewBucket` that succeeded are a prefix of its order, so a creator past them has
them all (`SetupOf`). A bucket that was found is never asked to be created, because only a
404 authorizes that, and one that others made since has a creator only where the region
repeats creations (`MakerInv`); configuring needs having been told so. The reader exists
only after the set-up; a push runs only after the preflight.

**Part sizes** (`EveryPartFits`). The quotient, rounded up when the full parts do not reach
the end, is enough because the rest is less than one byte per part. A size is refused only
when no legal parts could hold it.

**Only model-checked:** liveness (`PushesEnd`, `LeaseComesBack`, `CancellationEndsUpload`,
`OperationsReturn`, `SignalEndsHelper`), which needs fairness and `ENABLED`, beyond the
prover. `SupersededIsHarmless` is violated (section 5). Induction theorems that take an
operator cannot be instantiated; where induction over numbers is needed, a set of naturals
without a least element is shown empty (`SetInduction`, `NatLessThanWellFounded`). No module
declares a recursive operator.

## 5. What the work found

`SupersededIsHarmless` is violated. The comment on the listing of a namespace's manifests
(`manifest.go:390`) says that a disappearing superseded manifest is harmless. Adoption
indeed skips one. The recovery listing does not: when a push supersedes and deletes a
manifest between the `LIST` and its `GET`, the command ends with that `NoSuchKey` and
prints no further candidates. Nothing is lost and running it again succeeds.

## 6. What is not modelled

- Formats: JSON and legacy manifest text, URL and key parsing, envelope bytes, digests.
- The shortest-path search of `completedPushPrefix`: `Snapshots` has the set of its possible
  results.
- Listings of several pages in `Push` and `Fetch`; the pages of the migration's scan are
  modelled.
- The worktree checks of `push_policy.go`, which only read and refuse: they are one of the
  local errors (`Abort`).
- A table that is not active yet: requests to it only fail.
- `git_command.go`, a wrapper that builds commands: Git's answers are `GitHistory`'s
  constants, and a cancelled command is taken to end (`Setpgid`, `WaitDelay`).
- Administrative changes to S3 or DynamoDB outside `Validation` and `Migration`, and disk
  or network limits.
- go-dynamolock, S3, DynamoDB, Git and libsodium themselves: they appear as the
  operations of them this code uses, marked `external` in the map.

## 7. Plan

The models of the plan are done, in this order: `GitHistory`, `Snapshots`, `RemoteState`,
`Push`, `PublishedBranch`, `Fetch`, `Remote`; `Migration`, `Keygen`, `Commands`;
`StreamBundle`, `PartSize`, `BundleUpload`, `StoredBundle`; `Validation`; `Packing`;
`BucketSetup`, `HelperLoop`; and the proofs of section 4.

What could still be added:

1. A proof that the result set `completedPushPrefix` is what the shortest-path search of
   `bundle_resume.go` computes, with that search modelled as steps.
2. Listings of several pages in `Push` and `Fetch`, where a `LIST` sees a mix of states.
