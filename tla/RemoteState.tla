---------------------------- MODULE RemoteState -----------------------------
(***************************************************************************)
(* The two services helpers share.  DynamoDB holds one item per            *)
(* repository: the published pointer and branch, and the go-dynamolock     *)
(* lease in the same item.  S3 holds bundle objects and manifests.  A      *)
(* request whose client stopped waiting (timeout, lost response, crash)    *)
(* may still reach its service later, or never; such requests are kept in  *)
(* the late* variables with the payload they carry.                        *)
(***************************************************************************)
EXTENDS Snapshots

VARIABLES
    pointer,        \* [Repos -> ManifestKeys or None], RepoMeta.BundlesS3Key
    branch,         \* [Repos -> Branches or None], RepoMeta.Branch
    owner,          \* [Repos -> Helpers or None], the item's owner token
    lapsed,         \* [Repos -> BOOLEAN], the lease passed its HeartbeatMaxAge
    manifests,      \* [ManifestKeys -> manifest or NoManifest]
    objects,        \* the set of stored bundle objects
    versioning,     \* S3 bucket versioning is enabled
    lateCommits,    \* lease commits in flight
    lateDeletes,    \* manifest deletions in flight
    lateManifests,  \* manifest PUTs in flight
    lateBundles,    \* bundle PUTs in flight
    published       \* history: the keys each pointer has held, oldest first

itemVars == <<pointer, branch, owner, lapsed>>
s3Vars   == <<manifests, objects, versioning>>
lateVars == <<lateCommits, lateDeletes, lateManifests, lateBundles>>
remoteVars == <<itemVars, s3Vars, lateVars, published>>

RemoteTypeOK ==
    /\ pointer \in [Repos -> ManifestKeys \cup {None}]
    /\ branch \in [Repos -> Branches \cup {None}]
    /\ owner \in [Repos -> Helpers \cup {None}]
    /\ lapsed \in [Repos -> BOOLEAN]
    /\ manifests \in [ManifestKeys -> Manifests \cup {NoManifest}]
    /\ objects \subseteq Objects
    /\ versioning \in BOOLEAN
    /\ lateCommits \subseteq [by : Helpers, repo : Repos, branch : Branches]
    /\ lateDeletes \subseteq ManifestKeys
    /\ lateManifests \subseteq [by : Helpers, body : Manifests]
    /\ lateBundles \subseteq Objects
    /\ published \in [Repos -> Seq(ManifestKeys)]

----------------------------------------------------------------------------
(* S3.                                                                     *)

\* Mutant: an unconditional PUT.
PutIfAbsentOverwrites(o) == objects' = {p \in objects : p.key # o.key} \cup {o}

\* A conditional PUT (If-None-Match: *) of a bundle never replaces an object.
PutIfAbsent(o) ==
    objects' = IF StoredAt(objects, o.key) = {} THEN objects \cup {o} ELSE objects

Exists(k) == manifests[k] # NoManifest

----------------------------------------------------------------------------
(* The lease (go-dynamolock), as the push code uses it.                    *)

\* Mutant: an expired lease is never taken over.
AcquirableUnlessOwned(r) == owner[r] = None

\* Lock's conditional update: the item is free, or its lease has run out.
Acquirable(r) == owner[r] = None \/ lapsed[r]

\* Mutant: the commit does not check the owner token.
CommitItemUnguarded(h, r, b) ==
    /\ pointer' = [pointer EXCEPT ![r] = h]
    /\ branch' = [branch EXCEPT ![r] = b]
    /\ owner' = [owner EXCEPT ![r] = None]
    /\ lapsed' = [lapsed EXCEPT ![r] = FALSE]
    /\ published' = [published EXCEPT ![r] = Append(@, h)]

\* Lease.Commit: one conditional update on the owner token that writes the
\* payload and ends the lease.
CommitItem(h, r, b) ==
    /\ owner[r] = h
    /\ pointer' = [pointer EXCEPT ![r] = h]
    /\ branch' = [branch EXCEPT ![r] = b]
    /\ owner' = [owner EXCEPT ![r] = None]
    /\ lapsed' = [lapsed EXCEPT ![r] = FALSE]
    /\ published' = [published EXCEPT ![r] = Append(@, h)]

\* Lease.Release: conditional on the owner token, never writes the payload.
ReleaseItem(h, r) ==
    /\ owner' = IF owner[r] = h THEN [owner EXCEPT ![r] = None] ELSE owner
    /\ lapsed' = IF owner[r] = h THEN [lapsed EXCEPT ![r] = FALSE] ELSE lapsed
    /\ UNCHANGED <<pointer, branch, published>>

----------------------------------------------------------------------------
(* Late requests reaching their service.  Each keeps its condition.        *)

LandCommit ==
    /\ \E c \in lateCommits :
          /\ CommitItem(c.by, c.repo, c.branch)
          /\ lateCommits' = lateCommits \ {c}
    /\ UNCHANGED <<s3Vars, lateDeletes, lateManifests, lateBundles>>

LandDelete ==
    /\ \E k \in lateDeletes :
          /\ manifests' = [manifests EXCEPT ![k] = NoManifest]
          /\ lateDeletes' = lateDeletes \ {k}
    /\ UNCHANGED <<itemVars, objects, versioning, lateCommits, lateManifests,
                   lateBundles, published>>

LandManifest ==
    /\ \E m \in lateManifests :
          /\ ~Exists(m.by)
          /\ manifests' = [manifests EXCEPT ![m.by] = m.body]
          /\ lateManifests' = lateManifests \ {m}
    /\ UNCHANGED <<itemVars, objects, versioning, lateCommits, lateDeletes,
                   lateBundles, published>>

LandBundle ==
    /\ \E o \in lateBundles :
          /\ PutIfAbsent(o)
          /\ lateBundles' = lateBundles \ {o}
    /\ UNCHANGED <<itemVars, manifests, versioning, lateCommits, lateDeletes,
                   lateManifests, published>>

Land == LandCommit \/ LandDelete \/ LandManifest \/ LandBundle
=============================================================================
