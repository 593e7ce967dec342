---------------------------- MODULE ReaderProofs ----------------------------
(***************************************************************************)
(* Reads are sound against any number of pushes, readers and faults.       *)
(* RemoteInv is shown inductive in two halves: a push keeps it because the *)
(* item's history only grows (Later), and a read because what it takes     *)
(* from the item and the manifest is a state of that history.              *)
(***************************************************************************)
EXTENDS ReaderInvariant, SnapshotProofs

----------------------------------------------------------------------------
(* What a push may do to the history of the item.                          *)

LEMMA PushSteps ==
    ASSUME PublicationInv, [PushNext]_vars
    PROVE  \/ SamePointers /\ SafeStore
           \/ \E h \in Helpers, r \in Repos, b \in Branches : Publishes(h, r, b)
<1>0. TypeOK'
  BY TypeNext DEF PublicationInv
<1>1. CASE UNCHANGED <<pointer, branch, published, manifests>>
  BY <1>1, SameStore DEF SamePointers
<1>2. CASE UNCHANGED vars \/ \E r \in Repos : Lapse(r)
  BY <1>1, <1>2 DEF Lapse, vars, remoteVars, itemVars, s3Vars
<1>3. CASE Land
  <2>1. CASE LandCommit
    <3>1. PICK c \in lateCommits : CommitItem(c.by, c.repo, c.branch)
      BY <2>1 DEF LandCommit
    <3>2. LateCommitOK(c) /\ c.by \in Helpers /\ c.repo \in Repos /\ c.branch \in Branches
      BY DEF PublicationInv, LateInv, TypeOK, RemoteTypeOK
    <3>3. Publishes(c.by, c.repo, c.branch)
      BY <2>1, <3>1, <3>2 DEF LandCommit, Publishes, LateCommitOK, CommitItem, s3Vars
    <3>. QED  BY <3>2, <3>3
  <2>2. CASE LandDelete \/ LandManifest \/ LandBundle
    <3>1. SamePointers
      BY <2>2 DEF LandDelete, LandManifest, LandBundle, SamePointers, itemVars
    <3>2. CASE LandDelete
      BY <3>1, <3>2 DEF LandDelete, SafeStore, PublicationInv, LateInv, TypeOK, RemoteTypeOK
    <3>3. CASE LandManifest
      BY <3>1, <3>3 DEF LandManifest, SafeStore, PublicationInv, LateInv, LateManifestOK, TypeOK,
         RemoteTypeOK
    <3>4. CASE LandBundle
      BY <3>1, <3>4 DEF LandBundle, SafeStore
    <3>. QED  BY <2>2, <3>2, <3>3, <3>4
  <2>. QED  BY <1>3, <2>1, <2>2 DEF Land
<1>4. ASSUME NEW h \in Helpers, Start(h) \/ Step(h) \/ Fault(h)
      PROVE  \/ SamePointers /\ SafeStore
             \/ \E g \in Helpers, r \in Repos, b \in Branches : Publishes(g, r, b)
  <2>1. CASE putManifest(h)
    <3>1. Unpublished(h)
      BY <2>1 DEF putManifest, PublicationInv, HelperInv, OwnKeys, BeforeCommit, Leased
    <3>. QED  BY <2>1, <3>1 DEF putManifest, SamePointers, SafeStore, itemVars, PublicationInv,
              TypeOK, RemoteTypeOK
  <2>2. CASE DeleteOld(h)
    <3>1. pc[h] = "delete" /\ repo[h] \in Repos /\ old[h] # None
      BY <2>2 DEF DeleteOld, PublicationInv, JobInv
    <3>2. Superseded(old[h])
      BY <3>1 DEF PublicationInv, HelperInv, OwnKeys, Superseded
    <3>. QED  BY <2>2, <3>2 DEF DeleteOld, SamePointers, SafeStore, itemVars, PublicationInv,
              TypeOK, RemoteTypeOK
  <2>3. CASE Commit(h)
    <3>1. pc[h] = "commit" /\ owner[repo[h]] = h
      BY <2>3 DEF Commit, CommitItem
    <3>2. repo[h] \in Repos /\ wants[h] \in Branches /\ HelperInv(h) /\ pc[h] \in Leased
          /\ pc[h] \in Resolved /\ pc[h] \in BeforeCommit
      BY <3>1 DEF PublicationInv, JobInv, Leased, Resolved, BeforeCommit
    <3>3. Publishes(h, repo[h], wants[h])
      BY <2>3, <3>1, <3>2 DEF Commit, Publishes, HelperInv, OwnKeys, Candidate,
         FreshUnderLease, s3Vars
    <3>. QED  BY <3>2, <3>3
  <2>4. CASE ~putManifest(h) /\ ~DeleteOld(h) /\ ~Commit(h)
    <3>1. UNCHANGED <<pointer, branch, published, manifests>>
      BY <1>4, <2>4 DEF Start, Step, Fault, Lock, LockHeld, ReadMissing, Read, ValidateLegacy,
         namespaceManifests, Adopt, AdoptDone, listPushBundles, inspectPushPrefix, Reuse,
         splitRange, Upload, Record, CommitRejected, Release, ReleaseItem,
         UploadUnknown, putManifestUnknown, CommitUnknown, DeleteUnknown, ReleaseFails, Abort,
         LeaseLost, Renew, Crash, remoteVars, itemVars, s3Vars
    <3>. QED  BY <1>1, <3>1
  <2>. QED  BY <2>1, <2>2, <2>3, <2>4
<1>. QED  BY <1>2, <1>3, <1>4 DEF PushNext

\* Bundles are only ever added.
LEMMA ObjectsGrow ==
    ASSUME [PushNext]_vars
    PROVE  objects \subseteq objects'
<1>1. CASE UNCHANGED objects
  BY <1>1
<1>2. CASE UNCHANGED vars \/ \E r \in Repos : Lapse(r)
  BY <1>1, <1>2 DEF Lapse, vars, remoteVars, s3Vars
<1>3. CASE Land
  BY <1>1, <1>3, PutFacts DEF Land, LandCommit, LandDelete, LandManifest, LandBundle, s3Vars
<1>4. ASSUME NEW h \in Helpers, Start(h) \/ Step(h) \/ Fault(h)
      PROVE  objects \subseteq objects'
  <2>1. CASE Upload(h)
    BY <2>1, PutFacts DEF Upload
  <2>2. CASE ~Upload(h)
    <3>1. UNCHANGED objects
      BY <1>4, <2>2 DEF Start, Step, Fault, Lock, LockHeld, ReadMissing, Read, ValidateLegacy,
         namespaceManifests, Adopt, AdoptDone, listPushBundles, inspectPushPrefix, Reuse,
         splitRange, Record, putManifest, Commit, CommitRejected, DeleteOld, Release,
         UploadUnknown, putManifestUnknown, CommitUnknown, DeleteUnknown, ReleaseFails, Abort,
         LeaseLost, Renew, Crash, remoteVars, s3Vars
    <3>. QED  BY <3>1
  <2>. QED  BY <2>1, <2>2
<1>. QED  BY <1>2, <1>3, <1>4 DEF PushNext

\* The history of r's item has only been added to.
Later(r) ==
    /\ pointer[r] # None => pointer'[r] # None /\ branch'[r] = branch[r]
    /\ Len(published[r]) <= Len(published'[r])
    /\ \A i \in DOMAIN published[r] :
          i \in DOMAIN published'[r] /\ published'[r][i] = published[r][i]
    /\ \A k \in Keys(r) : k \in Keys(r)' /\ (Exists(k)' => Exists(k) /\ manifests'[k] = manifests[k])
    /\ \A d : pointer[r] # None /\ gitBranchContains(PublishedTip(r), d) =>
          gitBranchContains(PublishedTip(r)', d)

LEMMA HistoryKept ==
    ASSUME PublicationInv, SamePointers, SafeStore, NEW r \in Repos, HistoryOf(r)
    PROVE  Later(r) /\ HistoryOf(r)'
<1>1. pointer'[r] = pointer[r] /\ branch'[r] = branch[r] /\ published'[r] = published[r]
  BY DEF SamePointers
<1>2. Keys(r)' = Keys(r) /\ Keys(r) \subseteq ManifestKeys
  <2>1. published[r] \in Seq(ManifestKeys)
    BY DEF PublicationInv, TypeOK, RemoteTypeOK
  <2>2. Keys(r) \subseteq ManifestKeys
    BY <2>1 DEF Keys, ToSet
  <2>. QED  BY <2>2, SamePublished
<1>3. PublishedTip(r)' = PublishedTip(r)
  BY <1>1, PointerKept DEF PublishedTip
<1>4. \A k \in Keys(r) : Exists(k)' => Exists(k) /\ manifests'[k] = manifests[k]
  <2>1. \A k \in Keys(r) : ~Unpublished(k)
    BY DEF Unpublished
  <2>. QED  BY <1>2, <2>1 DEF SafeStore, Exists, NoManifest
<1>5. published[r] \in Seq(ManifestKeys)
  BY DEF PublicationInv, TypeOK, RemoteTypeOK
<1>6. Later(r)
  BY <1>1, <1>2, <1>3, <1>4, <1>5 DEF Later, gitBranchContains
<1>7. HistoryOf(r)'
  BY <1>1, <1>2, <1>3, <1>4 DEF HistoryOf, gitBranchContains
<1>. QED  BY <1>6, <1>7

LEMMA HistoryPublished ==
    ASSUME PublicationInv, NEW h \in Helpers, NEW q \in Repos, NEW b \in Branches,
           Publishes(h, q, b), NEW r \in Repos, HistoryOf(r)
    PROVE  Later(r) /\ HistoryOf(r)'
<1>1. /\ published[r] \in Seq(ManifestKeys) /\ published'[r] = IF r = q THEN Append(published[r], h) ELSE published[r]
      /\ manifests' = manifests
  BY DEF Publishes, CommitItem, PublicationInv, TypeOK, RemoteTypeOK
<1>2. /\ pointer'[r] = IF r = q THEN h ELSE pointer[r]
      /\ branch'[r] = IF r = q THEN b ELSE branch[r]
      /\ Keys(r)' = IF r = q THEN Keys(r) \union {h} ELSE Keys(r)
  BY PublishKeys
<1>3. h # None /\ b # None /\ h \in ManifestKeys
  BY SnapshotsAssumption DEF ManifestKeys
<1>4. /\ Len(published[r]) <= Len(published'[r])
      /\ \A i \in DOMAIN published[r] :
            i \in DOMAIN published'[r] /\ published'[r][i] = published[r][i]
      /\ r = q => published'[r] # <<>> /\ Last(published'[r]) = h
  <2>1. CASE r = q
    <3>1. published'[r] = Append(published[r], h)
      BY <1>1, <2>1
    <3>. QED  BY <1>1, <1>3, <3>1 DEF Last
  <2>2. CASE r # q
    BY <1>1, <2>2
  <2>. QED  BY <2>1, <2>2
<1>5. \A d : pointer[r] # None /\ gitBranchContains(PublishedTip(r), d) =>
          gitBranchContains(PublishedTip(r)', d)
  <2>. SUFFICES ASSUME NEW d, pointer[r] # None, gitBranchContains(manifests[pointer[r]].tip, d)
                PROVE  pointer'[r] # None /\ gitBranchContains(manifests'[pointer'[r]].tip, d)
    BY DEF PublishedTip, gitBranchContains
  <2>. QED  BY PublishForward
<1>6. pointer[r] # None => branch'[r] = branch[r]
  <2>1. r = q /\ pointer[r] # None => branch[r] = b
    BY DEF Publishes, HistoryOf
  <2>. QED  BY <1>2, <2>1
<1>7. Later(r)
  BY <1>1, <1>2, <1>3, <1>4, <1>5, <1>6 DEF Later, Exists, NoManifest
<1>8. HistoryOf(r)'
  <2>1. CASE r # q
    BY <1>1, <1>2, <2>1 DEF HistoryOf, PublishedTip, Exists, NoManifest, gitBranchContains
  <2>2. CASE r = q
    <3>1. ASSUME NEW k \in Keys(r)', Exists(k)'
          PROVE  gitBranchContains(PublishedTip(r)', manifests'[k].tip)
      <4>1. CASE k = h
        <5>1. manifests[h].tip \in Commits
          BY <1>3 DEF Publishes, Exists, PublicationInv, TypeOK, RemoteTypeOK, Manifests
        <5>. QED  BY <1>1, <1>2, <1>3, <2>2, <4>1, <5>1, HistoryAssumption
                  DEF PublishedTip, gitBranchContains
      <4>2. CASE k \in Keys(r)
        BY <1>1, <1>5, <3>1, <4>2 DEF HistoryOf, Exists, NoManifest
      <4>. QED  BY <1>2, <2>2, <3>1, <4>1, <4>2
    <3>. QED  BY <1>2, <1>3, <1>4, <2>2, <3>1 DEF HistoryOf, gitBranchContains
  <2>. QED  BY <2>1, <2>2
<1>. QED  BY <1>7, <1>8

LEMMA HistoryStep ==
    ASSUME PublicationInv, [PushNext]_vars, \A r \in Repos : HistoryOf(r)
    PROVE  \A r \in Repos : Later(r) /\ HistoryOf(r)'
BY PushSteps, HistoryKept, HistoryPublished

----------------------------------------------------------------------------
(* Readers that do not move.                                               *)

SameReader(c) ==
    /\ rpc'[c] = rpc[c] /\ command'[c] = command[c] /\ from'[c] = from[c]
    /\ mine'[c] = mine[c] /\ attempt'[c] = attempt[c] /\ seen'[c] = seen[c]
    /\ promised'[c] = promised[c] /\ since'[c] = since[c] /\ target'[c] = target[c]
    /\ wanted'[c] = wanted[c] /\ have'[c] = have[c] /\ listing'[c] = listing[c]

\* What a reader knows stays true while the history and the objects grow.
LEMMA ReaderKept ==
    ASSUME RemoteTypeOK, RemoteTypeOK', FetchTypeOK, objects \subseteq objects',
           \A r \in Repos : Later(r),
           NEW c \in Readers, ReaderInv(c), SameReader(c)
    PROVE  ReaderInv(c)'
<1>1. ASSUME NEW r \in Repos, r = from[c], SeenOK(c)
      PROVE  SeenOK(c)'
  <2>1. from'[c] = r /\ seen'[c] = seen[c]
    BY <1>1 DEF SameReader
  <2>2. Later(r)
    OBVIOUS
  <2>. QED  BY <1>1, <2>1, <2>2 DEF Later, SeenOK, Keys
<1>2. ASSUME NEW r \in Repos, r = from[c]
      PROVE  ChurnOK(c)'
  <2>1. /\ from'[c] = r /\ seen'[c] = seen[c] /\ since'[c] = since[c]
        /\ rpc'[c] = rpc[c] /\ attempt'[c] = attempt[c]
    BY <1>2 DEF SameReader
  <2>2. /\ Len(published[r]) \in Nat /\ Len(published'[r]) \in Nat /\ since[c] \in Nat
        /\ attempt[c] \in Int /\ maximumAttempts \in Int
    BY FetchAssumption DEF RemoteTypeOK, FetchTypeOK
  <2>3. Len(published[r]) <= Len(published'[r])
        /\ \A i \in DOMAIN published[r] :
              i \in DOMAIN published'[r] /\ published'[r][i] = published[r][i]
    BY DEF Later
  <2>4. rpc[c] = "meta" => Len(published'[r]) - since[c] >= attempt[c] - 1
    BY <1>2, <2>2, <2>3 DEF ReaderInv, ChurnOK
  <2>5. rpc[c] = "manifest" =>
          \E i \in DOMAIN published'[r] :
              published'[r][i] = seen[c].key /\ i - since[c] >= attempt[c] - 1
    BY <1>2, <2>3 DEF ReaderInv, ChurnOK
  <2>6. rpc[c] = "exhausted" => Len(published'[r]) - since[c] >= maximumAttempts
    BY <1>2, <2>2, <2>3 DEF ReaderInv, ChurnOK
  <2>. QED  BY <2>1, <2>4, <2>5, <2>6 DEF ChurnOK
<1>3. ASSUME NEW r \in Repos, r = from[c]
      PROVE  PromiseOK(c)'
  <2>1. /\ from'[c] = r /\ seen'[c] = seen[c] /\ rpc'[c] = rpc[c] /\ command'[c] = command[c]
        /\ promised'[c] = promised[c] /\ target'[c] = target[c] /\ have'[c] = have[c]
    BY <1>3 DEF SameReader
  <2>2. ASSUME rpc[c] = "listed" \/ (rpc[c] \in {"meta", "manifest"} /\ command[c] = "fetch")
        PROVE  gitBranchContains(PublishedTip(r)', promised[c])
    <3>1. SeenOK(c) /\ gitBranchContains(PublishedTip(r), promised[c])
      BY <1>3, <2>2 DEF ReaderInv, PromiseOK, Expects
    <3>. QED  BY <1>3, <3>1 DEF SeenOK, Later
  <2>3. ASSUME rpc[c] = "manifest", command[c] = "fetch", manifests'[seen[c].key] # NoManifest
        PROVE  gitBranchContains(manifests'[seen[c].key].tip, promised[c])
    <3>1. SeenOK(c)
      BY <2>3 DEF ReaderInv
    <3>2. Exists(seen[c].key) /\ manifests'[seen[c].key] = manifests[seen[c].key]
      BY <1>3, <2>3, <3>1 DEF SeenOK, Later, Exists, NoManifest
    <3>. QED  BY <2>3, <3>2 DEF ReaderInv, PromiseOK
  <2>. QED  BY <2>1, <2>2, <2>3 DEF PromiseOK, ReaderInv, PublishedTip, gitBranchContains,
            Exists, NoManifest
<1>4. WantedOK(c) => WantedOK(c)'
  <2>1. \A ref, t : Inspects(objects, ref, t) => Inspects(objects', ref, t)
    BY InspectsGrows
  <2>. QED  BY <2>1 DEF WantedOK, SameReader, ChainEnd
<1>5. CASE rpc[c] = "idle"
  BY <1>4, <1>5 DEF ReaderInv, SameReader, ChurnOK, PromiseOK, Expects, SeenOK, WantedOK
<1>6. CASE rpc[c] # "idle"
  <2>1. PICK r \in Repos : r = from[c]
    BY <1>6 DEF ReaderInv
  <2>. QED  BY <1>1, <1>2, <1>3, <1>4, <2>1, <1>6 DEF ReaderInv, SameReader, Expects, Reaches
<1>. QED  BY <1>5, <1>6

LEMMA NothingLater ==
    ASSUME RemoteTypeOK, UNCHANGED vars
    PROVE  \A r \in Repos : Later(r)
<1>. SUFFICES ASSUME NEW r \in Repos PROVE Later(r)
  OBVIOUS
<1>1. /\ pointer' = pointer /\ branch' = branch /\ published' = published
      /\ manifests' = manifests
  BY DEF vars, remoteVars, itemVars, s3Vars
<1>2. published[r] \in Seq(ManifestKeys)
  BY DEF RemoteTypeOK
<1>. QED  BY <1>1, <1>2 DEF Later, Keys, Exists, NoManifest, PublishedTip, gitBranchContains

----------------------------------------------------------------------------
(* The bundles a fetch asks for.                                           *)

LEMMA LastKnown ==
    ASSUME NEW s \in Seq(BundleRefs), NEW local
    PROVE  \E n \in 0..Len(s) :
              /\ BundlesToFetch(s, local) = SubSeq(s, n + 1, Len(s))
              /\ n # 0 => s[n].key.end \in Reaches(local)
              /\ n = 0 => \A i \in DOMAIN s : s[i].key.end \notin Reaches(local)
<1>. DEFINE known == {i \in DOMAIN s : s[i].key.end \in Reaches(local)}
            top == CHOOSE i \in known : \A j \in known : j <= i
<1>1. CASE known = {}
  <2>1. BundlesToFetch(s, local) = SubSeq(s, 0 + 1, Len(s))
    BY <1>1 DEF BundlesToFetch
  <2>2. 0 \in 0..Len(s)
    OBVIOUS
  <2>. QED  BY <1>1, <2>1, <2>2
<1>2. CASE known # {}
  <2>. DEFINE gaps == {Len(s) - i : i \in known}
  <2>1. known \subseteq 1..Len(s) /\ Len(s) \in Nat
    OBVIOUS
  <2>2. gaps \subseteq Nat /\ gaps # {}
    BY <1>2, <2>1
  <2>3. PICK g \in gaps : \A h \in gaps : g <= h
    BY <2>2, LeastNatural
  <2>4. PICK m \in known : g = Len(s) - m
    OBVIOUS
  <2>5. ASSUME NEW j \in known PROVE j <= m
    <3>1. Len(s) - j \in gaps
      OBVIOUS
    <3>2. g <= Len(s) - j
      BY <2>3, <3>1
    <3>. QED  BY <2>1, <2>4, <3>2
  <2>6. top \in known /\ \A j \in known : j <= top
    BY <2>5
  <2>7. BundlesToFetch(s, local) = SubSeq(s, top + 1, Len(s))
    BY <1>2 DEF BundlesToFetch
  <2>. HIDE DEF top
  <2>8. top \in 0..Len(s) /\ top # 0
    BY <2>1, <2>6
  <2>9. s[top].key.end \in Reaches(local)
    BY <2>6
  <2>. QED  BY <2>7, <2>8, <2>9
<1>. QED  BY <1>1, <1>2

\* What FetchManifest sets out to download completes what the clone has.
LEMMA WantedChain ==
    ASSUME NEW m \in Manifests, Complete(m), NEW local, NEW clone, Reaches(local) \subseteq clone
    PROVE  LET w == BundlesToFetch(m.chain, local) IN
           /\ w \in Seq(BundleRefs)
           /\ \A i \in DOMAIN w :
                 /\ Inspects(objects, w[i], None)
                 /\ IF i = 1 THEN w[i].key.base \in clone \union {Zero}
                             ELSE w[i].key.base = w[i-1].key.end
           /\ IF w = <<>> THEN m.tip \in clone ELSE ChainEnd(w) = m.tip
<1>. DEFINE s == m.chain
            w == BundlesToFetch(s, local)
<1>1. s \in Seq(BundleRefs) /\ s # <<>> /\ Len(s) \in Nat
  BY DEF Manifests, Complete, validate
<1>2. /\ \A i \in DOMAIN s : Inspects(objects, s[i], None)
      /\ \A i \in DOMAIN s : s[i].key.base = IF i = 1 THEN Zero ELSE s[i-1].key.end
      /\ m.tip = s[Len(s)].key.end
  BY <1>1 DEF Complete, validate, Continuous, ChainInspects, ChainEnd, Last
<1>3. PICK n \in 0..Len(s) : /\ w = SubSeq(s, n + 1, Len(s))
                             /\ n # 0 => s[n].key.end \in Reaches(local)
  BY <1>1, LastKnown
<1>. HIDE DEF s, w
<1>4. /\ w \in Seq(BundleRefs) /\ Len(w) = Len(s) - n
      /\ \A i \in 1..(Len(s) - n) : w[i] = s[n + i]
  BY <1>1, <1>3
<1>5. ASSUME NEW i \in DOMAIN w
      PROVE  /\ Inspects(objects, w[i], None)
             /\ IF i = 1 THEN w[i].key.base \in clone \union {Zero}
                         ELSE w[i].key.base = w[i-1].key.end
  <2>1. i \in 1..(Len(s) - n) /\ n + i \in DOMAIN s /\ w[i] = s[n + i]
    BY <1>1, <1>4
  <2>2. CASE i = 1
    BY <1>1, <1>2, <1>3, <2>1, <2>2
  <2>3. CASE i # 1
    <3>1. i - 1 \in 1..(Len(s) - n) /\ n + (i - 1) = n + i - 1 /\ n + i # 1
      BY <1>1, <2>1, <2>3
    <3>2. w[i-1] = s[n + i - 1]
      BY <1>4, <3>1
    <3>. QED  BY <1>2, <2>1, <2>3, <3>1, <3>2
  <2>. QED  BY <2>2, <2>3
<1>6. CASE w = <<>>
  <2>1. n = Len(s) /\ n # 0
    BY <1>1, <1>4, <1>6
  <2>. QED  BY <1>2, <1>3, <1>4, <1>5, <1>6, <2>1 DEF s, w
<1>7. CASE w # <<>>
  <2>1. Len(w) # 0 /\ Len(w) \in 1..(Len(s) - n) /\ n + Len(w) = Len(s)
    BY <1>1, <1>4, <1>7
  <2>2. ChainEnd(w) = m.tip
    BY <1>2, <1>4, <1>7, <2>1 DEF ChainEnd, Last
  <2>. QED  BY <1>4, <1>5, <1>7, <2>2 DEF s, w
<1>. QED  BY <1>6, <1>7

----------------------------------------------------------------------------
(* The readers' own steps.                                                 *)

\* What the steps below may use.
World == PushInv /\ FetchTypeOK /\ \A r \in Repos : HistoryOf(r)

\* A manifest that exists can be fetched.
LEMMA StoredManifest ==
    ASSUME World, NEW k \in ManifestKeys, Exists(k)
    PROVE  manifests[k] \in Manifests /\ Complete(manifests[k]) /\ manifests[k].tip \in Commits
<1>1. manifests[k] \in Manifests
  BY DEF World, PushInv, PublicationInv, TypeOK, RemoteTypeOK, Exists
<1>. QED  BY <1>1 DEF World, PushInv, SnapshotInv, StoreInv, Manifests

LEMMA OthersSame ==
    ASSUME FetchTypeOK, NEW c \in Readers, List(c) \/ RecoverList(c) \/ ReadStep(c),
           NEW d \in Readers, d # c
    PROVE  SameReader(d)
<1>1. CASE List(c) \/ RecoverList(c)
  BY <1>1 DEF List, RecoverList, GoRead, SameReader, FetchTypeOK
<1>2. CASE ReadMeta(c)
  BY <1>2 DEF ReadMeta, GoRead, SameReader, FetchTypeOK
<1>3. CASE ManifestMissing(c) \/ ListDone(c)
  BY <1>3 DEF ManifestMissing, ListDone, GoRead, SameReader, FetchTypeOK
<1>4. CASE Fetch(c) \/ FetchFound(c)
  BY <1>4 DEF Fetch, FetchFound, FetchManifest, GoRead, SameReader, FetchTypeOK
<1>5. CASE GetBundle(c) \/ FetchDone(c)
  BY <1>5 DEF GetBundle, FetchDone, GoRead, SameReader, FetchTypeOK
<1>6. CASE RecoverScan(c) \/ Recover(c)
  BY <1>6 DEF RecoverScan, Recover, FetchManifest, GoRead, SameReader, FetchTypeOK
<1>. QED  BY <1>1, <1>2, <1>3, <1>4, <1>5, <1>6 DEF ReadStep

\* A clone with the whole history of a commit.
LEMMA ReachesClosed ==
    ASSUME NEW t \in Hashes
    PROVE  /\ Reaches(t) \subseteq Commits
           /\ \A d \in Reaches(t) : Ancestry[d] \subseteq Reaches(t)
BY HistoryAssumption DEF Reaches, Hashes

LEMMA ReadBegins ==
    ASSUME World, UNCHANGED vars, NEW c \in Readers, ReaderInv(c), List(c) \/ RecoverList(c)
    PROVE  FetchTypeOK' /\ ReaderInv(c)'
<1>1. CASE List(c)
  <2>1. PICK r \in Repos, t \in Hashes :
           /\ from' = [from EXCEPT ![c] = r]
           /\ mine' = [mine EXCEPT ![c] = t]
           /\ have' = [have EXCEPT ![c] = Reaches(t)]
           /\ since' = [since EXCEPT ![c] = Len(published[r])]
    BY <1>1 DEF List
  <2>2. /\ rpc' = [rpc EXCEPT ![c] = "meta"] /\ command' = [command EXCEPT ![c] = "list"]
        /\ UNCHANGED <<attempt, seen, promised, target, wanted, listing>>
        /\ rpc[c] = "idle"
    BY <1>1 DEF List, GoRead
  <2>3. Len(published[r]) \in Nat /\ published' = published
    BY DEF World, PushInv, PublicationInv, TypeOK, RemoteTypeOK, vars, remoteVars
  <2>4. FetchTypeOK'
    BY <2>1, <2>2, <2>3, ReachesClosed DEF World, FetchTypeOK
  <2>5. /\ rpc'[c] = "meta" /\ command'[c] = "list" /\ from'[c] = r /\ mine'[c] = t
        /\ have'[c] = Reaches(t) /\ since'[c] = Len(published[r]) /\ attempt'[c] = 1
    BY <2>1, <2>2 DEF World, FetchTypeOK, ReaderInv
  <2>6. ChurnOK(c)'
    BY <2>3, <2>5 DEF ChurnOK
  <2>7. PromiseOK(c)' /\ ~Expects(c)'
    BY <2>5 DEF PromiseOK, Expects
  <2>. QED  BY <2>4, <2>5, <2>6, <2>7, ReachesClosed DEF ReaderInv, Reaches
<1>2. CASE RecoverList(c)
  <2>1. PICK r \in Repos : /\ from' = [from EXCEPT ![c] = r]
                           /\ listing' = [listing EXCEPT ![c] =
                                 {k \in Helpers : Exists(k) /\ manifests[k].repo = r}]
    BY <1>2 DEF RecoverList
  <2>2. /\ rpc' = [rpc EXCEPT ![c] = "scan"] /\ command' = [command EXCEPT ![c] = "recover"]
        /\ UNCHANGED <<mine, attempt, seen, promised, since, target, wanted, have>>
        /\ rpc[c] = "idle"
    BY <1>2 DEF RecoverList, GoRead
  <2>3. FetchTypeOK'
    BY <2>1, <2>2 DEF World, FetchTypeOK
  <2>4. /\ rpc'[c] = "scan" /\ command'[c] = "recover" /\ from'[c] = r
        /\ have'[c] = have[c] /\ seen'[c] = seen[c]
    BY <2>1, <2>2 DEF World, FetchTypeOK
  <2>5. ChurnOK(c)' /\ PromiseOK(c)'
    BY <2>4 DEF ChurnOK, PromiseOK
  <2>. QED  BY <2>2, <2>3, <2>4, <2>5 DEF ReaderInv
<1>. QED  BY <1>1, <1>2

\* What a strongly consistent read of the item returns.
LEMMA ItemRead ==
    ASSUME World, UNCHANGED vars, NEW c \in Readers, ReaderInv(c), ReadMeta(c)
    PROVE  FetchTypeOK' /\ ReaderInv(c)'
<1>. DEFINE key == pointer[from[c]]
<1>1. PICK r \in Repos : r = from[c]
  BY DEF ReadMeta, ReaderInv
<1>2. /\ rpc[c] = "meta" /\ command[c] # "recover"
      /\ seen' = [seen EXCEPT ![c] = [key |-> key, branch |-> branch[from[c]]]]
      /\ UNCHANGED <<command, from, mine, attempt, promised, since, target, wanted, have, listing>>
  BY DEF ReadMeta, ReaderInv
<1>3. /\ pointer' = pointer /\ branch' = branch /\ published' = published
      /\ manifests' = manifests
  BY DEF vars, remoteVars, itemVars, s3Vars
<1>4. Expects(c) => key # None /\ branch[from[c]] = seen[c].branch
  BY <1>2 DEF ReaderInv, SeenOK
<1>5. \/ GoRead(c, "empty")
      \/ GoRead(c, "manifest") /\ key # None
  BY <1>4 DEF ReadMeta, Expects
<1>6. key \in ManifestKeys \union {None} /\ branch[from[c]] \in Branches \union {None}
  BY <1>1 DEF World, PushInv, PublicationInv, TypeOK, RemoteTypeOK
<1>7. FetchTypeOK'
  BY <1>2, <1>5, <1>6 DEF World, FetchTypeOK, GoRead, ReadEnds
<1>8. CASE GoRead(c, "empty")
  <2>1. rpc'[c] = "empty" /\ from'[c] = r /\ have'[c] = have[c]
    BY <1>1, <1>2, <1>8 DEF GoRead, World, FetchTypeOK
  <2>2. ChurnOK(c)' /\ PromiseOK(c)'
    BY <2>1 DEF ChurnOK, PromiseOK
  <2>. QED  BY <1>7, <2>1, <2>2 DEF ReaderInv
<1>9. CASE GoRead(c, "manifest") /\ key # None
  <2>1. /\ rpc'[c] = "manifest" /\ from'[c] = r /\ have'[c] = have[c] /\ mine'[c] = mine[c]
        /\ command'[c] = command[c] /\ promised'[c] = promised[c] /\ attempt'[c] = attempt[c]
        /\ seen'[c] = [key |-> pointer[r], branch |-> branch[r]] /\ since'[c] = since[c]
    BY <1>1, <1>2, <1>9 DEF GoRead, World, FetchTypeOK
  <2>2. pointer[r] \in Keys(r) /\ pointer[r] # None
    BY <1>1, <1>9 DEF World, PushInv, PublicationInv, KeyInv
  <2>3. SeenOK(c)'
    BY <1>3, <2>1, <2>2 DEF SeenOK, Keys
  <2>4. ChurnOK(c)'
    <3>1. published[r] \in Seq(ManifestKeys) /\ since[c] \in Nat /\ attempt[c] \in Int
      BY DEF World, PushInv, PublicationInv, TypeOK, RemoteTypeOK, FetchTypeOK
    <3>2. published[r] # <<>> /\ pointer[r] = published[r][Len(published[r])]
      BY <2>2 DEF World, HistoryOf, Last
    <3>3. Len(published[r]) \in DOMAIN published[r]
      BY <3>1, <3>2
    <3>4. Len(published[r]) - since[c] >= attempt[c] - 1
      BY <1>1, <1>2 DEF ReaderInv, ChurnOK
    <3>. QED  BY <1>3, <2>1, <3>2, <3>3, <3>4 DEF ChurnOK
  <2>5. PromiseOK(c)'
    <3>1. command[c] = "fetch" => gitBranchContains(PublishedTip(r), promised[c])
      BY <1>1, <1>2 DEF ReaderInv, PromiseOK
    <3>2. PublishedTip(r) = manifests[pointer[r]].tip
      BY <2>2 DEF PublishedTip
    <3>. QED  BY <1>3, <2>1, <3>1, <3>2 DEF PromiseOK, PublishedTip, gitBranchContains
  <2>6. Reaches(mine[c])' \subseteq have'[c] /\ \A d \in have'[c] : Ancestry[d] \subseteq have'[c]
    BY <1>2, <2>1 DEF ReaderInv, Reaches
  <2>. QED  BY <1>2, <1>7, <2>1, <2>3, <2>4, <2>5, <2>6 DEF ReaderInv
<1>. QED  BY <1>5, <1>8, <1>9

\* The manifest that was seen has been superseded and deleted since.
LEMMA Overtaken ==
    ASSUME World, UNCHANGED vars, NEW c \in Readers, ReaderInv(c), ManifestMissing(c)
    PROVE  FetchTypeOK' /\ ReaderInv(c)'
<1>1. PICK r \in Repos : r = from[c]
  BY DEF ManifestMissing, ReaderInv
<1>2. /\ rpc[c] = "manifest" /\ command[c] # "recover" /\ SeenOK(c) /\ ~Exists(seen[c].key)
      /\ UNCHANGED <<command, from, mine, seen, promised, since, target, wanted, have, listing>>
  BY DEF ManifestMissing, ReaderInv
<1>3. /\ pointer' = pointer /\ branch' = branch /\ published' = published
      /\ manifests' = manifests
  BY DEF vars, remoteVars, itemVars, s3Vars
<1>4. /\ published[r] \in Seq(ManifestKeys) /\ since[c] \in Nat
      /\ attempt[c] \in 1..maximumAttempts /\ maximumAttempts \in Nat
  BY FetchAssumption DEF World, PushInv, PublicationInv, TypeOK, RemoteTypeOK, FetchTypeOK
<1>5. Len(published[r]) - since[c] >= attempt[c]
  <2>1. PICK i \in DOMAIN published[r] :
           published[r][i] = seen[c].key /\ i - since[c] >= attempt[c] - 1
    BY <1>1, <1>2 DEF ReaderInv, ChurnOK
  <2>2. pointer[r] # None /\ Exists(pointer[r])
    BY <1>1, <1>2 DEF SeenOK, World, PushInv, PublicationInv, PointerResolves
  <2>3. pointer[r] = published[r][Len(published[r])]
    BY <2>2 DEF World, HistoryOf, Last
  <2>4. i # Len(published[r])
    BY <1>2, <2>1, <2>2, <2>3
  <2>. QED  BY <1>4, <2>1, <2>4
<1>6. /\ from'[c] = r /\ have'[c] = have[c] /\ mine'[c] = mine[c] /\ seen'[c] = seen[c]
      /\ command'[c] = command[c] /\ promised'[c] = promised[c] /\ since'[c] = since[c]
  BY <1>1, <1>2
<1>7. CASE attempt[c] = maximumAttempts
  <2>1. GoRead(c, "exhausted") /\ UNCHANGED attempt
    BY <1>7 DEF ManifestMissing
  <2>2. rpc'[c] = "exhausted"
    BY <2>1 DEF GoRead, World, FetchTypeOK
  <2>3. FetchTypeOK'
    BY <1>2, <2>1 DEF World, FetchTypeOK, GoRead, ReadEnds
  <2>4. ChurnOK(c)' /\ PromiseOK(c)'
    BY <1>3, <1>4, <1>5, <1>6, <1>7, <2>2 DEF ChurnOK, PromiseOK
  <2>. QED  BY <1>6, <2>2, <2>3, <2>4 DEF ReaderInv
<1>8. CASE attempt[c] # maximumAttempts
  <2>1. GoRead(c, "meta") /\ attempt' = [attempt EXCEPT ![c] = @ + 1]
    BY <1>8 DEF ManifestMissing
  <2>2. rpc'[c] = "meta" /\ attempt'[c] = attempt[c] + 1
    BY <2>1 DEF GoRead, World, FetchTypeOK
  <2>3. FetchTypeOK'
    <3>1. attempt[c] + 1 \in 1..maximumAttempts
      BY <1>4, <1>8
    <3>2. attempt' \in [Readers -> 1..maximumAttempts]
      BY <2>1, <3>1 DEF World, FetchTypeOK
    <3>3. rpc' \in [Readers -> {"idle", "meta", "manifest", "listed", "scan", "get"} \cup ReadEnds]
      BY <2>1 DEF GoRead, World, FetchTypeOK
    <3>. QED  BY <1>2, <3>2, <3>3 DEF World, FetchTypeOK
  <2>4. ChurnOK(c)'
    <3>1. Len(published[r]) - since[c] >= (attempt[c] + 1) - 1
      BY <1>4, <1>5
    <3>. QED  BY <1>3, <1>6, <2>2, <3>1 DEF ChurnOK
  <2>5. PromiseOK(c)'
    <3>1. command[c] = "fetch" => gitBranchContains(PublishedTip(r), promised[c])
      BY <1>1, <1>2 DEF ReaderInv, PromiseOK
    <3>. QED  BY <1>3, <1>6, <2>2, <3>1 DEF PromiseOK, PublishedTip
  <2>6. SeenOK(c)'
    BY <1>1, <1>2, <1>3, <1>6 DEF SeenOK, Keys
  <2>. QED  BY <1>2, <1>6, <2>2, <2>3, <2>4, <2>5, <2>6 DEF ReaderInv, Reaches
<1>. QED  BY <1>7, <1>8

\* A manifest of the history that is still stored is contained in the tip.
LEMMA SeenManifest ==
    ASSUME World, NEW c \in Readers, NEW r \in Repos, r = from[c], SeenOK(c),
           Exists(seen[c].key)
    PROVE  LET m == manifests[seen[c].key] IN
           /\ seen[c].key \in ManifestKeys
           /\ m \in Manifests /\ Complete(m) /\ m.tip \in Commits
           /\ gitBranchContains(PublishedTip(r), m.tip)
<1>1. seen[c].key \in Keys(r) /\ published[r] \in Seq(ManifestKeys)
  BY DEF SeenOK, World, PushInv, PublicationInv, TypeOK, RemoteTypeOK
<1>2. seen[c].key \in ManifestKeys
  BY <1>1 DEF Keys, ToSet
<1>. QED  BY <1>1, <1>2, StoredManifest DEF World, HistoryOf

LEMMA ListStep ==
    ASSUME World, UNCHANGED vars, NEW c \in Readers, ReaderInv(c), ListDone(c)
    PROVE  FetchTypeOK' /\ ReaderInv(c)'
<1>1. PICK r \in Repos : r = from[c]
  BY DEF ListDone, ReaderInv
<1>2. /\ rpc[c] = "manifest" /\ command[c] = "list" /\ SeenOK(c) /\ Exists(seen[c].key)
      /\ promised' = [promised EXCEPT ![c] = manifests[seen[c].key].tip]
      /\ rpc' = [rpc EXCEPT ![c] = "listed"]
      /\ UNCHANGED <<command, from, mine, attempt, seen, since, target, wanted, have, listing>>
  BY DEF ListDone, ReaderInv, GoRead
<1>3. /\ pointer' = pointer /\ branch' = branch /\ published' = published
      /\ manifests' = manifests
  BY DEF vars, remoteVars, itemVars, s3Vars
<1>4. /\ manifests[seen[c].key].tip \in Commits
      /\ gitBranchContains(PublishedTip(r), manifests[seen[c].key].tip)
  BY <1>1, <1>2, SeenManifest
<1>5. FetchTypeOK'
  BY <1>2, <1>4 DEF World, FetchTypeOK, Hashes
<1>6. /\ from'[c] = r /\ have'[c] = have[c] /\ mine'[c] = mine[c] /\ seen'[c] = seen[c]
      /\ command'[c] = "list" /\ promised'[c] = manifests[seen[c].key].tip
      /\ rpc'[c] = "listed"
  BY <1>1, <1>2 DEF World, FetchTypeOK
<1>7. ChurnOK(c)' /\ PromiseOK(c)'
  BY <1>3, <1>4, <1>6 DEF ChurnOK, PromiseOK, PublishedTip
<1>8. SeenOK(c)'
  BY <1>1, <1>2, <1>3, <1>6 DEF SeenOK, Keys
<1>9. Reaches(mine[c])' \subseteq have'[c]
  BY <1>2, <1>6 DEF ReaderInv, Reaches
<1>. QED  BY <1>5, <1>6, <1>7, <1>8, <1>9 DEF ReaderInv

LEMMA FetchBegins ==
    ASSUME World, UNCHANGED vars, NEW c \in Readers, ReaderInv(c), Fetch(c)
    PROVE  FetchTypeOK' /\ ReaderInv(c)'
<1>1. PICK r \in Repos : r = from[c]
  BY DEF Fetch, ReaderInv
<1>2. /\ rpc[c] = "listed" /\ SeenOK(c)
      /\ command' = [command EXCEPT ![c] = "fetch"]
      /\ attempt' = [attempt EXCEPT ![c] = 1]
      /\ since' = [since EXCEPT ![c] = Len(published[r])]
      /\ rpc' = [rpc EXCEPT ![c] = "meta"]
      /\ UNCHANGED <<from, mine, seen, promised, target, wanted, have, listing>>
  BY <1>1 DEF Fetch, ReaderInv, GoRead
<1>3. /\ pointer' = pointer /\ branch' = branch /\ published' = published
      /\ manifests' = manifests
  BY DEF vars, remoteVars, itemVars, s3Vars
<1>4. Len(published[r]) \in Nat /\ 1 \in 1..maximumAttempts
  BY FetchAssumption DEF World, PushInv, PublicationInv, TypeOK, RemoteTypeOK
<1>5. FetchTypeOK'
  <2>1. attempt' \in [Readers -> 1..maximumAttempts]
    BY <1>2, <1>4 DEF World, FetchTypeOK
  <2>. QED  BY <1>2, <1>4, <2>1 DEF World, FetchTypeOK
<1>6. /\ from'[c] = r /\ have'[c] = have[c] /\ mine'[c] = mine[c] /\ seen'[c] = seen[c]
      /\ command'[c] = "fetch" /\ promised'[c] = promised[c] /\ rpc'[c] = "meta"
      /\ attempt'[c] = 1 /\ since'[c] = Len(published[r])
  BY <1>1, <1>2 DEF World, FetchTypeOK
<1>7. ChurnOK(c)'
  BY <1>3, <1>4, <1>6 DEF ChurnOK
<1>8. PromiseOK(c)'
  <2>1. gitBranchContains(PublishedTip(r), promised[c])
    BY <1>1, <1>2 DEF ReaderInv, PromiseOK
  <2>. QED  BY <1>3, <1>6, <2>1 DEF PromiseOK, PublishedTip
<1>9. SeenOK(c)'
  BY <1>1, <1>2, <1>3, <1>6 DEF SeenOK, Keys
<1>10. Reaches(mine[c])' \subseteq have'[c] /\ \A d \in have'[c] : Ancestry[d] \subseteq have'[c]
  BY <1>2, <1>6 DEF ReaderInv, Reaches
<1>. QED  BY <1>5, <1>6, <1>7, <1>8, <1>9, <1>10 DEF ReaderInv

\* A manifest is chosen and the missing bundles are worked out.
LEMMA GetBegins ==
    ASSUME World, UNCHANGED vars, NEW c \in Readers, ReaderInv(c),
           NEW m \in Manifests, Complete(m), NEW local, Reaches(local) \subseteq have[c],
           FetchManifest(c, m, local), from[c] \in Repos,
           command[c] = "fetch" => gitBranchContains(m.tip, promised[c]),
           UNCHANGED <<command, from, mine, attempt, seen, promised, since, have, listing>>
    PROVE  FetchTypeOK' /\ ReaderInv(c)'
<1>. DEFINE w == BundlesToFetch(m.chain, local)
<1>1. /\ w \in Seq(BundleRefs)
      /\ \A i \in DOMAIN w :
            /\ Inspects(objects, w[i], None)
            /\ IF i = 1 THEN w[i].key.base \in have[c] \union {Zero}
                        ELSE w[i].key.base = w[i-1].key.end
      /\ IF w = <<>> THEN m.tip \in have[c] ELSE ChainEnd(w) = m.tip
  BY WantedChain
<1>2. /\ target' = [target EXCEPT ![c] = m.tip] /\ wanted' = [wanted EXCEPT ![c] = w]
      /\ rpc' = [rpc EXCEPT ![c] = "get"]
  BY DEF FetchManifest, GoRead
<1>. HIDE DEF w
<1>3. m.tip \in Commits
  BY DEF Manifests
<1>4. FetchTypeOK'
  BY <1>1, <1>2, <1>3 DEF World, FetchTypeOK, Hashes
<1>5. /\ rpc'[c] = "get" /\ target'[c] = m.tip /\ wanted'[c] = w /\ have'[c] = have[c]
      /\ command'[c] = command[c] /\ promised'[c] = promised[c] /\ from'[c] = from[c]
  BY <1>2 DEF World, FetchTypeOK
<1>6. objects' = objects
  BY DEF vars, remoteVars, s3Vars
<1>7. WantedOK(c)'
  BY <1>1, <1>3, <1>5, <1>6 DEF WantedOK, ChainEnd
<1>8. ChurnOK(c)' /\ PromiseOK(c)'
  BY <1>5 DEF ChurnOK, PromiseOK
<1>9. \A d \in have'[c] : Ancestry[d] \subseteq have'[c]
  BY <1>5 DEF ReaderInv
<1>. QED  BY <1>4, <1>5, <1>7, <1>8, <1>9 DEF ReaderInv

LEMMA FoundStep ==
    ASSUME World, UNCHANGED vars, NEW c \in Readers, ReaderInv(c), FetchFound(c)
    PROVE  FetchTypeOK' /\ ReaderInv(c)'
<1>1. PICK r \in Repos : r = from[c]
  BY DEF FetchFound, ReaderInv
<1>2. /\ SeenOK(c) /\ Exists(seen[c].key) /\ Reaches(mine[c]) \subseteq have[c]
      /\ gitBranchContains(manifests[seen[c].key].tip, promised[c])
  BY DEF FetchFound, ReaderInv, PromiseOK
<1>3. manifests[seen[c].key] \in Manifests /\ Complete(manifests[seen[c].key])
  BY <1>1, <1>2, SeenManifest
<1>. QED  BY <1>1, <1>2, <1>3, GetBegins DEF FetchFound

\* Every download finds its object and everything the bundle builds on.
LEMMA Download ==
    ASSUME World, UNCHANGED vars, NEW c \in Readers, ReaderInv(c), GetBundle(c)
    PROVE  FetchTypeOK' /\ ReaderInv(c)'
<1>. DEFINE w == wanted[c]
            ref == Head(w)
<1>1. /\ rpc[c] = "get" /\ WantedOK(c) /\ w \in Seq(BundleRefs) /\ w # <<>>
      /\ have[c] \subseteq Commits
      /\ UNCHANGED <<command, from, mine, attempt, seen, promised, since, target, listing>>
  BY DEF GetBundle, ReaderInv, World, FetchTypeOK
<1>2. /\ ref = w[1] /\ ref \in BundleRefs /\ 1 \in DOMAIN w
      /\ Tail(w) \in Seq(BundleRefs) /\ Len(Tail(w)) = Len(w) - 1 /\ Len(w) \in Nat
      /\ \A i \in 1..Len(Tail(w)) : Tail(w)[i] = w[i+1]
  BY <1>1
<1>3. ref.key.end \in Commits
  BY <1>2 DEF BundleRefs, BundleKeys
<1>4. \E o \in StoredAt(objects, ref.key) : ref.etag \in {None, o.etag}
  BY <1>1, <1>2 DEF WantedOK, Inspects
<1>5. ref.key.base \in have[c] \union {Zero}
  BY <1>1, <1>2 DEF WantedOK
<1>6. /\ have' = [have EXCEPT ![c] = @ \union Ancestry[ref.key.end]]
      /\ wanted' = [wanted EXCEPT ![c] = Tail(@)]
      /\ UNCHANGED rpc
  BY <1>4, <1>5 DEF GetBundle
<1>. HIDE DEF ref
<1>7. Ancestry[ref.key.end] \subseteq Commits /\ ref.key.end \in Ancestry[ref.key.end]
      /\ \A d \in Ancestry[ref.key.end] : Ancestry[d] \subseteq Ancestry[ref.key.end]
  BY <1>3, HistoryAssumption
<1>8. FetchTypeOK'
  BY <1>1, <1>2, <1>6, <1>7 DEF World, FetchTypeOK
<1>9. /\ rpc'[c] = "get" /\ target'[c] = target[c] /\ wanted'[c] = Tail(w)
      /\ have'[c] = have[c] \union Ancestry[ref.key.end]
      /\ command'[c] = command[c] /\ promised'[c] = promised[c] /\ from'[c] = from[c]
  BY <1>1, <1>6 DEF World, FetchTypeOK
<1>10. objects' = objects
  BY DEF vars, remoteVars, s3Vars
<1>11. ASSUME NEW i \in DOMAIN Tail(w)
       PROVE  /\ Inspects(objects, Tail(w)[i], None)
              /\ IF i = 1 THEN Tail(w)[i].key.base \in have'[c] \union {Zero}
                          ELSE Tail(w)[i].key.base = Tail(w)[i-1].key.end
  <2>1. i \in 1..Len(Tail(w)) /\ i + 1 \in DOMAIN w /\ i + 1 # 1 /\ (i + 1) - 1 = i
    BY <1>2
  <2>2. Inspects(objects, w[i+1], None) /\ w[i+1].key.base = w[i].key.end
    BY <1>1, <2>1 DEF WantedOK
  <2>3. CASE i = 1
    BY <1>2, <1>7, <1>9, <2>1, <2>2, <2>3
  <2>4. CASE i # 1
    <3>1. i - 1 \in 1..Len(Tail(w)) /\ (i - 1) + 1 = i
      BY <1>2, <2>1, <2>4
    <3>. QED  BY <1>2, <2>1, <2>2, <2>4, <3>1
  <2>. QED  BY <2>3, <2>4
<1>12. IF Tail(w) = <<>> THEN target[c] \in have'[c] ELSE ChainEnd(Tail(w)) = target[c]
  <2>1. target[c] = w[Len(w)].key.end
    BY <1>1 DEF WantedOK, ChainEnd, Last
  <2>2. CASE Tail(w) = <<>>
    <3>1. Len(Tail(w)) = 0
      BY <2>2, Len(<<>>) = 0, Zenon
    <3>2. Len(w) = 1
      BY <1>2, <3>1
    <3>. QED  BY <1>2, <1>7, <1>9, <2>1, <2>2, <3>2
  <2>3. CASE Tail(w) # <<>>
    <3>1. Len(Tail(w)) \in 1..Len(Tail(w)) /\ Len(Tail(w)) + 1 = Len(w)
      BY <1>2, <2>3
    <3>2. Last(Tail(w)) = w[Len(w)]
      BY <1>2, <3>1 DEF Last
    <3>. QED  BY <2>1, <2>3, <3>2 DEF ChainEnd
  <2>. QED  BY <2>2, <2>3
<1>. HIDE DEF w
<1>13. WantedOK(c)'
  <2>1. target'[c] \in Commits
    BY <1>1, <1>9 DEF WantedOK
  <2>. QED  BY <1>9, <1>10, <1>11, <1>12, <2>1 DEF WantedOK, ChainEnd
<1>14. ChurnOK(c)' /\ PromiseOK(c)'
  BY <1>1, <1>9 DEF ReaderInv, ChurnOK, PromiseOK
<1>15. \A d \in have'[c] : Ancestry[d] \subseteq have'[c]
  BY <1>7, <1>9 DEF ReaderInv
<1>16. from'[c] \in Repos
  BY <1>1, <1>9 DEF ReaderInv
<1>. QED  BY <1>8, <1>9, <1>13, <1>14, <1>15, <1>16 DEF ReaderInv

\* The closing walk over the history finds nothing missing.
LEMMA FetchEnds ==
    ASSUME World, UNCHANGED vars, NEW c \in Readers, ReaderInv(c), FetchDone(c)
    PROVE  FetchTypeOK' /\ ReaderInv(c)'
<1>1. /\ rpc[c] = "get" /\ WantedOK(c) /\ wanted[c] = <<>> /\ from[c] \in Repos
      /\ UNCHANGED <<command, from, mine, attempt, seen, promised, since, target,
                     wanted, have, listing>>
  BY DEF FetchDone, ReaderInv
<1>2. target[c] \in have[c]
  BY <1>1 DEF WantedOK
<1>3. rpc' = [rpc EXCEPT ![c] = "fetched"]
  BY <1>2 DEF FetchDone, GoRead
<1>4. FetchTypeOK'
  BY <1>1, <1>3 DEF World, FetchTypeOK, ReadEnds
<1>5. rpc'[c] = "fetched"
  BY <1>3 DEF World, FetchTypeOK
<1>6. command[c] = "fetch" => promised[c] \in have[c]
  BY <1>1, <1>2 DEF ReaderInv, PromiseOK, gitBranchContains
<1>7. ChurnOK(c)' /\ PromiseOK(c)'
  BY <1>1, <1>5, <1>6 DEF ChurnOK, PromiseOK
<1>. QED  BY <1>1, <1>4, <1>5, <1>7 DEF ReaderInv

LEMMA ScanStep ==
    ASSUME World, UNCHANGED vars, NEW c \in Readers, ReaderInv(c), RecoverScan(c)
    PROVE  FetchTypeOK' /\ ReaderInv(c)'
<1>1. /\ rpc[c] = "scan" /\ command[c] = "recover" /\ from[c] \in Repos
      /\ seen[c].key \in Helpers \union {None}
      /\ UNCHANGED <<command, from, mine, attempt, promised, since, target, wanted, have>>
  BY DEF RecoverScan, ReaderInv
<1>2. PICK k \in listing[c] :
         /\ listing' = [listing EXCEPT ![c] = @ \ {k}]
         /\ IF Exists(k)
            THEN \E pick \in {k, seen[c].key} :
                    /\ seen' = [seen EXCEPT ![c].key = pick]
                    /\ UNCHANGED rpc
            ELSE GoRead(c, "scanFailed") /\ UNCHANGED seen
  BY DEF RecoverScan
<1>3. k \in Helpers /\ listing[c] \in SUBSET Helpers
  BY DEF World, FetchTypeOK
<1>4. CASE Exists(k)
  <2>1. PICK pick \in {k, seen[c].key} : seen' = [seen EXCEPT ![c].key = pick] /\ UNCHANGED rpc
    BY <1>2, <1>4
  <2>2. pick \in Helpers \union {None}
    BY <1>1, <1>3
  <2>3. FetchTypeOK'
    <3>1. seen[c] \in [key : ManifestKeys \cup {None}, branch : Branches \cup {None}]
      BY DEF World, FetchTypeOK
    <3>2. [seen[c] EXCEPT !.key = pick]
             \in [key : ManifestKeys \cup {None}, branch : Branches \cup {None}]
      BY <2>2, <3>1 DEF ManifestKeys
    <3>3. seen' = [seen EXCEPT ![c] = [seen[c] EXCEPT !.key = pick]]
      BY <2>1
    <3>4. seen' \in [Readers -> [key : ManifestKeys \cup {None}, branch : Branches \cup {None}]]
      BY <3>2, <3>3 DEF World, FetchTypeOK
    <3>5. listing' \in [Readers -> SUBSET Helpers]
      BY <1>2, <1>3 DEF World, FetchTypeOK
    <3>. QED  BY <1>1, <2>1, <3>4, <3>5 DEF World, FetchTypeOK
  <2>4. rpc'[c] = "scan" /\ seen'[c].key = pick
    BY <1>1, <2>1 DEF World, FetchTypeOK
  <2>5. ChurnOK(c)' /\ PromiseOK(c)'
    BY <2>4 DEF ChurnOK, PromiseOK
  <2>. QED  BY <1>1, <2>2, <2>3, <2>4, <2>5 DEF ReaderInv
<1>5. CASE ~Exists(k)
  <2>1. rpc' = [rpc EXCEPT ![c] = "scanFailed"] /\ UNCHANGED seen
    BY <1>2, <1>5 DEF GoRead
  <2>2. FetchTypeOK'
    BY <1>1, <1>2, <1>3, <2>1 DEF World, FetchTypeOK, ReadEnds
  <2>3. rpc'[c] = "scanFailed"
    BY <2>1 DEF World, FetchTypeOK
  <2>4. ChurnOK(c)' /\ PromiseOK(c)'
    BY <2>3 DEF ChurnOK, PromiseOK
  <2>. QED  BY <1>1, <2>2, <2>3, <2>4 DEF ReaderInv
<1>. QED  BY <1>4, <1>5

LEMMA RecoverStep ==
    ASSUME World, UNCHANGED vars, NEW c \in Readers, ReaderInv(c), Recover(c)
    PROVE  FetchTypeOK' /\ ReaderInv(c)'
<1>1. /\ rpc[c] = "scan" /\ command[c] = "recover" /\ from[c] \in Repos
      /\ seen[c].key \in Helpers \union {None}
      /\ UNCHANGED <<command, from, mine, attempt, seen, promised, since, have, listing>>
  BY DEF Recover, ReaderInv
<1>2. ASSUME NEW s \in {"empty", "gone"}, GoRead(c, s), UNCHANGED <<target, wanted>>
      PROVE  FetchTypeOK' /\ ReaderInv(c)'
  <2>1. FetchTypeOK'
    BY <1>1, <1>2 DEF World, FetchTypeOK, GoRead, ReadEnds
  <2>2. rpc'[c] = s
    BY <1>2 DEF World, FetchTypeOK, GoRead
  <2>3. ChurnOK(c)' /\ PromiseOK(c)'
    BY <2>2 DEF ChurnOK, PromiseOK
  <2>. QED  BY <1>1, <2>1, <2>2, <2>3 DEF ReaderInv
<1>3. ASSUME Exists(seen[c].key), seen[c].key # None,
             FetchManifest(c, manifests[seen[c].key], Zero)
      PROVE  FetchTypeOK' /\ ReaderInv(c)'
  <2>1. seen[c].key \in ManifestKeys
    BY <1>1, <1>3 DEF ManifestKeys
  <2>2. Reaches(Zero) \subseteq have[c]
    BY DEF Reaches
  <2>. QED  BY <1>1, <1>3, <2>1, <2>2, StoredManifest, GetBegins
<1>. QED  BY <1>2, <1>3 DEF Recover

----------------------------------------------------------------------------
(* The whole remote.                                                       *)

LEMMA RemoteInitInv == RemoteInit => RemoteInv
<1>. SUFFICES ASSUME RemoteInit PROVE RemoteInv
  OBVIOUS
<1>1. PushInv
  BY InvInit, SnapInit, FirstInit DEF PushInv, RemoteInit
<1>2. FetchTypeOK
  <2>1. 1 \in 1..maximumAttempts
    BY FetchAssumption
  <2>. QED  BY <2>1 DEF RemoteInit, FetchInit, FetchTypeOK, Hashes
<1>3. ASSUME NEW r \in Repos PROVE HistoryOf(r)
  <2>1. CASE r \in LegacyRepos
    <3>1. /\ pointer[r] = r /\ branch[r] \in Branches /\ published[r] = <<r>>
      BY <2>1 DEF RemoteInit, Init
    <3>2. Keys(r) = {r} /\ Last(published[r]) = r /\ r # None
      BY <3>1, SnapshotsAssumption DEF Keys, ToSet, Last
    <3>3. Exists(r) /\ PublishedTip(r) = manifests[r].tip /\ manifests[r].tip \in Commits
      <4>1. Exists(r)
        BY <3>1, <3>2, <1>1 DEF PushInv, PublicationInv, PointerResolves
      <4>2. manifests[r].tip \in Commits
        BY <4>1, <1>1 DEF PushInv, PublicationInv, TypeOK, RemoteTypeOK, Exists, ManifestKeys, Manifests
      <4>. QED  BY <3>1, <3>2, <4>1, <4>2 DEF PublishedTip
    <3>4. gitBranchContains(PublishedTip(r), manifests[r].tip)
      BY <3>3, HistoryAssumption DEF gitBranchContains
    <3>. QED  BY <3>1, <3>2, <3>4, SnapshotsAssumption DEF HistoryOf
  <2>2. CASE r \notin LegacyRepos
    <3>1. published[r] = <<>> /\ pointer[r] = None
      BY <2>2 DEF RemoteInit, Init
    <3>. QED  BY <3>1 DEF HistoryOf, Keys, ToSet
  <2>. QED  BY <2>1, <2>2
<1>4. ASSUME NEW c \in Readers PROVE ReaderInv(c)
  BY DEF RemoteInit, FetchInit, ReaderInv, ChurnOK, PromiseOK
<1>. QED  BY <1>1, <1>2, <1>3, <1>4 DEF RemoteInv

LEMMA RemoteNextInv == RemoteInv /\ [RemoteNext]_remoteAll => RemoteInv'
<1>. SUFFICES ASSUME RemoteInv, [RemoteNext]_remoteAll PROVE RemoteInv'
  OBVIOUS
<1>1. [PushNext]_vars
  BY DEF RemoteNext, remoteAll
<1>2. PushInv' /\ RemoteTypeOK /\ RemoteTypeOK'
  <2>1. PublicationInv' /\ SnapshotInv'
    BY <1>1, InvNext, SnapNext DEF RemoteInv, PushInv, PublicationInv
  <2>2. FirstInv' /\ FirstPublicationReadable'
    BY <1>1, FirstNext DEF RemoteInv, PushInv, Known
  <2>. QED  BY <2>1, <2>2 DEF RemoteInv, PushInv, PublicationInv, TypeOK
<1>3. \A r \in Repos : Later(r) /\ HistoryOf(r)'
  BY <1>1, HistoryStep DEF RemoteInv, PushInv
<1>4. objects \subseteq objects'
  BY <1>1, ObjectsGrow
<1>5. CASE UNCHANGED readerVars
  <2>1. \A c \in Readers : SameReader(c)
    BY <1>5 DEF readerVars, SameReader
  <2>2. FetchTypeOK'
    BY <1>5 DEF RemoteInv, FetchTypeOK, readerVars
  <2>3. \A c \in Readers : ReaderInv(c)'
    BY <1>2, <1>3, <1>4, <2>1, ReaderKept DEF RemoteInv
  <2>. QED  BY <1>2, <1>3, <2>2, <2>3 DEF RemoteInv
<1>6. CASE FetchNext /\ UNCHANGED vars
  <2>1. PICK c \in Readers : List(c) \/ RecoverList(c) \/ ReadStep(c)
    BY <1>6 DEF FetchNext
  <2>2. World /\ ReaderInv(c)
    BY DEF RemoteInv, World
  <2>3. FetchTypeOK' /\ ReaderInv(c)'
    BY <1>6, <2>1, <2>2, ReadBegins, ItemRead, Overtaken, ListStep, FetchBegins, FoundStep,
       Download, FetchEnds, ScanStep, RecoverStep DEF ReadStep
  <2>4. ASSUME NEW d \in Readers, d # c PROVE ReaderInv(d)'
    <3>1. SameReader(d)
      BY <2>1, <2>4, OthersSame DEF RemoteInv
    <3>. QED  BY <1>2, <1>3, <1>4, <3>1, ReaderKept DEF RemoteInv
  <2>. QED  BY <1>2, <1>3, <2>3, <2>4 DEF RemoteInv
<1>. QED  BY <1>5, <1>6 DEF RemoteNext, remoteAll

\* RemoteInv holds of every behaviour: pushes and reads together, under every
\* combination of faults (list, fetch and recoverRepository against push()).
THEOREM RemoteInvariance == RemoteSpec => []RemoteInv
BY RemoteInitInv, RemoteNextInv, PTL DEF RemoteSpec

\* The composed system is type correct.
THEOREM RemoteTypeCorrect == RemoteSpec => []RemoteAllTypeOK
<1>1. RemoteInv => RemoteAllTypeOK
  BY DEF RemoteInv, PushInv, PublicationInv, RemoteAllTypeOK
<1>. QED  BY <1>1, RemoteInvariance, PTL

\* No read fails on what a push did or left undone (readPublishedMetadata,
\* fetchManifest, recoverRepository).
THEOREM SoundReads == RemoteSpec => []ReadsAreSound
<1>1. RemoteInv => ReadsAreSound
  BY DEF RemoteInv, ReaderInv, ReadsAreSound
<1>. QED  BY <1>1, RemoteInvariance, PTL

\* A fetch brings at least the tip that was listed (list, then fetch).
THEOREM ListedIsFetched == RemoteSpec => []FetchedContainsListed
<1>1. RemoteInv => FetchedContainsListed
  BY DEF RemoteInv, ReaderInv, PromiseOK, FetchedContainsListed
<1>. QED  BY <1>1, RemoteInvariance, PTL

\* A read that gives up was overtaken by that many publications
\* (readPublishedMetadata's attempts).
THEOREM OnlyChurnExhausts == RemoteSpec => []ExhaustionMeansChurn
<1>1. RemoteInv => ExhaustionMeansChurn
  BY DEF RemoteInv, ReaderInv, ChurnOK, ExhaustionMeansChurn
<1>. QED  BY <1>1, RemoteInvariance, PTL
=============================================================================
