--------------------------- MODULE PushInvariant ----------------------------
(***************************************************************************)
(* The inductive invariant behind Push's safety properties.  TLC checks it *)
(* on the small instances; PushProofs proves its first part for all, and   *)
(* SnapshotProofs the rest.                                                *)
(***************************************************************************)
EXTENDS Push

\* The manifest keys a repository's pointer has held.
Keys(r) == ToSet(published[r])
Unpublished(k) == \A r \in Repos : k \notin Keys(r)
Superseded(k) == \E r \in Repos : k \in Keys(r) /\ pointer[r] # k

\* Helpers that may still issue their one commit.
BeforeCommit == {"idle", "lock"} \cup Leased

\* Helpers that have given up on whatever request they lost sight of.
GivenUp == {"abandon", "failed"}

\* Helpers that have resolved the commit they push.
Resolved == (Leased \ {"read"}) \cup {"finish", "delete", "ok", "noop"}

\* What a helper knows about its own job at each step.
JobInv ==
    \A h \in Helpers :
        /\ pc[h] \notin {"idle", "failed"} => repo[h] \in Repos /\ wants[h] \in Branches
        /\ pc[h] \in Resolved => tip[h] \in Commits
        /\ pc[h] \in {"build", "record"} => todo[h] # <<>>
        /\ pc[h] = "delete" => old[h] # None

\* A manifest key is published in one repository only.
KeyInv ==
    /\ \A r \in Repos : pointer[r] # None => pointer[r] \in Keys(r)
    /\ \A r, s \in Repos : \A k \in Keys(r) : k \in Keys(s) => r = s

\* A helper publishes its key at most once, and deletes a key that was
\* published before and is not any more.
OwnKeys(h) ==
    /\ pc[h] \in BeforeCommit => Unpublished(h)
    /\ pc[h] \in {"idle", "lock"} => old[h] = None
    /\ old[h] # None => repo[h] \in Repos /\ old[h] \in Keys(repo[h])
    /\ pc[h] = "delete" => pointer[repo[h]] # old[h]

\* The manifest a helper is about to publish is stored.
Candidate(h) ==
    pc[h] = "commit" =>
        /\ Exists(h)
        /\ manifests[h].repo = repo[h]
        /\ manifests[h].branch = wants[h]
        /\ manifests[h].tip = tip[h]

\* While a helper owns the lease, what it read is what is published, and what
\* it would publish is a fast-forward of it.
FreshUnderLease(h) ==
    pc[h] \in Leased /\ owner[repo[h]] = h =>
        /\ old[h] = pointer[repo[h]]
        /\ branch[repo[h]] \in {None, wants[h]}
        /\ pc[h] \in Resolved /\ old[h] # None =>
              gitBranchContains(tip[h], manifests[old[h]].tip)

\* What a helper read, even under a lease it has lost, is still contained in
\* what is published now, and so is every commit it reports as pushed.
Forward(h) ==
    /\ pc[h] \in Leased /\ old[h] # None /\ Exists(old[h]) =>
          /\ pointer[repo[h]] # None
          /\ gitBranchContains(manifests[pointer[repo[h]]].tip, manifests[old[h]].tip)
    /\ pc[h] \in {"finish", "delete", "ok", "noop"} =>
          /\ pointer[repo[h]] # None
          /\ gitBranchContains(manifests[pointer[repo[h]]].tip, tip[h])

HelperInv(h) == OwnKeys(h) /\ Candidate(h) /\ FreshUnderLease(h) /\ Forward(h)

\* A commit in flight would still publish a stored fast-forward, and is the
\* only one of a helper that has given up.
LateCommitOK(c) ==
    /\ pc[c.by] \in GivenUp
    /\ Unpublished(c.by)
    /\ Exists(c.by)
    /\ manifests[c.by].repo = c.repo
    /\ manifests[c.by].branch = c.branch
    /\ owner[c.repo] = c.by =>
          /\ branch[c.repo] \in {None, c.branch}
          /\ pointer[c.repo] # None =>
                gitBranchContains(manifests[c.by].tip, manifests[pointer[c.repo]].tip)
    /\ \A d \in lateCommits : c.by = d.by => c = d

\* A manifest in flight cannot replace one a commit relies on.
LateManifestOK(m) ==
    /\ pc[m.by] \in GivenUp
    /\ Unpublished(m.by)
    /\ \A c \in lateCommits : c.by # m.by

LateInv ==
    /\ \A c \in lateCommits : LateCommitOK(c)
    /\ \A m \in lateManifests : LateManifestOK(m)
    /\ \A k \in lateDeletes : Superseded(k)

(***************************************************************************)
(* Publication is safe because a key is published once, a candidate        *)
(* outlives its commit request, and whoever owns the lease has seen the    *)
(* current pointer (Lock, Commit, DeleteObject).                           *)
(***************************************************************************)
PublicationInv ==
    /\ TypeOK /\ JobInv /\ KeyInv /\ LateInv /\ PointerResolves
    /\ \A h \in Helpers : HelperInv(h)

----------------------------------------------------------------------------
(* Bundles, manifests and the chains a push assembles.                     *)

\* An object under a push's prefix was written by a push of that very tip.
Faithful(o) ==
    /\ o.keys # {}
    /\ o.key.scope \in Commits =>
          o.push = o.key.scope /\ o.keys = Recipients(o.key.scope)

\* Every end contains all ends before it, so none can come twice.
Ascending(ch) ==
    \A i, j \in DOMAIN ch : i <= j => gitBranchContains(ch[j].key.end, ch[i].key.end)

Intact(ch) == Continuous(ch) /\ Ascending(ch) /\ ChainInspects(objects, ch)
Pinned(ch) == \A i \in DOMAIN ch : ch[i].etag # None /\ ch[i].keys # {}

\* Whoever reads the manifest finds every bundle, now and later.
Complete(m) == validate(m) /\ Ascending(m.chain) /\ ChainInspects(objects, m.chain)

StoreInv ==
    /\ \A o \in objects \cup lateBundles : Faithful(o)
    /\ \A k \in ManifestKeys : Exists(k) => Complete(manifests[k])
    /\ \A m \in lateManifests : Complete(m.body)

\* The commits of a range rise, all of them properly beyond its base.
Sound(r) ==
    /\ Rising(r.commits)
    /\ r.base # Zero => \A i \in DOMAIN r.commits : Beyond(r.base, r.commits[i])

\* Ranges that lead from base to t, one after the other.
Leads(ranges, base, t) ==
    /\ \A i \in DOMAIN ranges :
          /\ Sound(ranges[i])
          /\ ranges[i].base = IF i = 1 THEN base ELSE Last(ranges[i-1].commits)
    /\ Last(Last(ranges).commits) = t

\* The ranges left to upload lead from the end of the chain to the tip.
Joined(h) == Leads(todo[h], ChainEnd(chain[h]), tip[h])

\* What createRange's record expects to find.
NextRef(h) == [key |-> NextKey(h), etag |-> None, keys |-> Recipients(tip[h])]

Assembling == Leased \ {"read", "validate"}

WorkInv(h) ==
    /\ pc[h] # "broken"
    /\ pc[h] \in Leased \ {"read"} => Intact(chain[h]) /\ Recipients(tip[h]) # {}
    /\ pc[h] \in Assembling => Pinned(chain[h])
    /\ pc[h] \in {"resume", "build", "record"} =>
          \A r \in completed[h] : r.key.scope = tip[h] /\ Inspects(objects, r, tip[h])
    /\ pc[h] \in {"build", "record"} => Joined(h)
    /\ pc[h] = "record" => Inspects(objects, NextRef(h), tip[h])
    /\ pc[h] = "manifest" => ChainEnd(chain[h]) = tip[h]

(***************************************************************************)
(* No push ever fails on a bundle because objects are only ever added,     *)
(* each one is what its key says, and the ranges still to be uploaded      *)
(* continue the chain assembled so far (bundleUploadResult, record).       *)
(***************************************************************************)
SnapshotInv == StoreInv /\ \A h \in Helpers : WorkInv(h)

----------------------------------------------------------------------------
(* First publications.                                                     *)

Decryptable(ch, t) == \A i \in DOMAIN ch : compatibleRecipients(ch[i].keys, t)
ForRecipients(m) == Decryptable(m.chain, m.tip)

FirstHelper(h) ==
    /\ pc[h] = "validate" => old[h] # None
    /\ pc[h] \in Assembling /\ old[h] = None => Decryptable(chain[h], tip[h])
    /\ pc[h] = "commit" /\ old[h] = None => ForRecipients(manifests[h])

FirstCommit(c) ==
    owner[c.repo] = c.by /\ pointer[c.repo] = None => ForRecipients(manifests[c.by])

FirstInv ==
    /\ \A h \in Helpers : FirstHelper(h)
    /\ \A c \in lateCommits : FirstCommit(c)

(***************************************************************************)
(* The inductive invariant of the push protocol: publication, the          *)
(* snapshots it publishes, and who can decrypt a first one (push()).       *)
(***************************************************************************)
PushInv == PublicationInv /\ SnapshotInv /\ FirstInv /\ FirstPublicationReadable
=============================================================================
