----------------------------- MODULE PushProofs -----------------------------
(***************************************************************************)
(* Type correctness of Push and the safety of publication, for any sets of *)
(* repositories, helpers, branches and commits, any history and any        *)
(* combination of faults.  The first part has the types, and the lemmas    *)
(* about operators that every proof about Push shares; in the second,      *)
(* PublicationInv is shown inductive: QuietStep treats every step that     *)
(* leaves the pointers alone, PublishStep the two that move one.  From it  *)
(* follow that Push implements PublishedBranch, and that only superseded   *)
(* manifests are deleted.                                                  *)
(***************************************************************************)
EXTENDS PushInvariant, SequenceTheorems, TLAPS

----------------------------------------------------------------------------
(* Types of the operators the actions are built from.                      *)

\* A fresh HEAD yields a descriptor (Inspects guarantees the object exists).
LEMMA CheckedType ==
    ASSUME NEW objs \in SUBSET Objects, NEW ref \in BundleRefs, NEW t,
           Inspects(objs, ref, t)
    PROVE  Checked(objs, ref) \in BundleRefs
<1>1. StoredAt(objs, ref.key) # {} /\ StoredAt(objs, ref.key) \subseteq Objects
  BY DEF Inspects, StoredAt
<1>2. \A o \in Objects : o.etag \in ETags /\ o.keys \in SUBSET KeyIds
  BY DEF Objects
<1>3. ref.key \in BundleKeys
  BY DEF BundleRefs
<1>. QED  BY <1>1, <1>2, <1>3 DEF Checked, BundleRefs

\* A chain of checked descriptors is a chain of descriptors.
LEMMA CheckedChainType ==
    ASSUME NEW objs \in SUBSET Objects, NEW s \in Seq(BundleRefs),
           \A i \in DOMAIN s : \E t : Inspects(objs, s[i], t)
    PROVE  CheckedChain(objs, s) \in Seq(BundleRefs)
<1>1. \A i \in 1..Len(s) : s[i] \in BundleRefs
  OBVIOUS
<1>2. \A i \in 1..Len(s) : Checked(objs, s[i]) \in BundleRefs
  BY <1>1, CheckedType
<1>3. DOMAIN s = 1..Len(s) /\ Len(s) \in Nat
  OBVIOUS
<1>4. CheckedChain(objs, s) \in [1..Len(s) -> BundleRefs]
  BY <1>2, <1>3 DEF CheckedChain
<1>. QED  BY <1>3, <1>4, SeqDef

LEMMA ChainEndType ==
    ASSUME NEW s \in Seq(BundleRefs)
    PROVE  ChainEnd(s) \in Hashes
<1>1. CASE s = <<>>
  BY <1>1 DEF ChainEnd, Hashes
<1>2. CASE s # <<>>
  <2>1. Len(s) \in 1..Len(s)
    BY <1>2
  <2>2. Last(s) \in BundleRefs
    BY <2>1 DEF Last
  <2>3. Last(s).key \in BundleKeys
    BY <2>2 DEF BundleRefs
  <2>. QED  BY <1>2, <2>3 DEF ChainEnd, Hashes, BundleKeys
<1>. QED  BY <1>1, <1>2

LEMMA RecipientsType ==
    ASSUME NEW t \in Commits
    PROVE  Recipients(t) \in SUBSET KeyIds
BY PolicyAssumption DEF Recipients, KeyIds

\* Prefixes of a chain of descriptors are chains of descriptors.
LEMMA PrefixTypes ==
    ASSUME NEW s \in Seq(BundleRefs), NEW t
    PROVE  /\ Shared(s, t) \subseteq Seq(BundleRefs)
           /\ Compatible(s, t) \subseteq Seq(BundleRefs)
<1>1. \A n \in 0..Len(s) : SubSeq(s, 1, n) \in Seq(BundleRefs)
  BY SubSeqProperties
<1>. QED  BY <1>1 DEF Shared, Compatible, PrefixWhile

\* Bundle boundaries are never empty.
LEMMA BoundaryType ==
    ASSUME NEW base, NEW t \in Commits, NEW c \in pushBundleCommits(base, t)
    PROVE  c \in Seq(Commits) \ {<<>>}
<1>. DEFINE line == FirstParents[t]
<1>1. line \in Seq(Commits) /\ line # <<>>
  BY FirstParentAssumption
<1>2. \A n \in 1..Len(line) :
         SubSeq(line, n, Len(line)) \in Seq(Commits) /\ SubSeq(line, n, Len(line)) # <<>>
  <2>. TAKE n \in 1..Len(line)
  <2>. DEFINE s == SubSeq(line, n, Len(line))
  <2>1. /\ Len(line) \in Nat /\ n \in Nat /\ n <= Len(line) /\ n >= 1
        /\ \A i \in n..Len(line) : line[i] \in Commits
    BY <1>1
  <2>2. s \in Seq(Commits) /\ Len(s) = IF n <= Len(line) THEN Len(line) - n + 1 ELSE 0
    <3>. HIDE DEF line
    <3>. QED  BY <2>1, SubSeqProperties
  <2>3. Len(s) # 0
    BY <2>1, <2>2
  <2>. QED  BY <2>2, <2>3
<1>3. CASE base = Zero
  BY <1>1, <1>3 DEF pushBundleCommits
<1>4. CASE base # Zero
  <2>1. PICK n \in 1..Len(line) : c = SubSeq(line, n, Len(line))
    BY <1>4 DEF pushBundleCommits
  <2>. QED  BY <2>1, <1>2
<1>. QED  BY <1>3, <1>4

LEMMA ResumedType ==
    ASSUME NEW base, NEW commits, NEW found \in SUBSET BundleRefs,
           NEW s \in completedPushPrefix(base, commits, found)
    PROVE  s \in Seq(BundleRefs)
<1>. DEFINE edges == ForwardEdges(base, commits, found)
<1>1. edges \subseteq BundleRefs
  BY DEF ForwardEdges
<1>2. s \in UNION {[1..m -> edges] : m \in 0..Cardinality(edges)}
  BY DEF completedPushPrefix, CompletedChains, BoundedSeq, SeqOf
<1>3. PICK m \in 0..Cardinality(edges) : s \in [1..m -> edges]
  BY <1>2
<1>. QED  BY <1>1, <1>3, SeqDef

LEMMA NoManifestIsNone == NoManifest \notin Manifests
BY SnapshotsAssumption DEF NoManifest, Manifests

----------------------------------------------------------------------------
(* Type correctness.                                                       *)

Places == {"idle", "lock", "delete"} \cup Leased \cup Releasing \cup Ended

\* Moving one helper's program counter.
LEMMA GotoType ==
    ASSUME PushTypeOK, NEW h \in Helpers, NEW s \in Places, Goto(h, s)
    PROVE  /\ pc' \in [Helpers -> Places]
           /\ pc'[h] = s
           /\ \A g \in Helpers : g # h => pc'[g] = pc[g]
BY DEF PushTypeOK, Goto, Places

\* The end of an invocation forgets its work, and a failure its job too.
LEMMA ExitTypes ==
    ASSUME TypeOK, JobInv, NEW h \in Helpers, NEW outcome \in Ended,
           Exit(h, outcome),
           outcome # "failed" => pc[h] # "idle" /\ pc[h] \in Resolved
    PROVE  PushTypeOK' /\ JobInv'
<1>1. outcome \in Places
  BY DEF Places, Ended
<1>2. Goto(h, outcome)
  BY DEF Exit
<1>3. PushTypeOK'
  <2>1. pc' \in [Helpers -> Places]
    BY <1>1, <1>2, GotoType DEF TypeOK
  <2>2. /\ repo' \in [Helpers -> Repos \cup {None}]
        /\ wants' \in [Helpers -> Branches \cup {None}]
        /\ tip' \in [Helpers -> Commits \cup {None}]
    BY DEF Exit, TypeOK, PushTypeOK, jobVars
  <2>3. /\ old' \in [Helpers -> ManifestKeys \cup {None}]
        /\ chain' \in [Helpers -> Seq(BundleRefs)]
        /\ listed' \in [Helpers -> SUBSET ManifestKeys]
        /\ completed' \in [Helpers -> SUBSET BundleRefs]
        /\ todo' \in [Helpers -> Seq(Ranges)]
    BY DEF Exit, TypeOK, PushTypeOK
  <2>. QED  BY <2>1, <2>2, <2>3 DEF PushTypeOK, Places
<1>4. JobInv'
  <2>. SUFFICES ASSUME NEW g \in Helpers
                PROVE  /\ pc'[g] \notin {"idle", "failed"} =>
                             repo'[g] \in Repos /\ wants'[g] \in Branches
                       /\ pc'[g] \in Resolved => tip'[g] \in Commits
                       /\ pc'[g] \in {"build", "record"} => todo'[g] # <<>>
                       /\ pc'[g] = "delete" => old'[g] # None
    BY DEF JobInv
  <2>1. CASE g # h
    BY <2>1, <1>1, <1>2, GotoType DEF Exit, TypeOK, PushTypeOK, JobInv, jobVars
  <2>2. CASE g = h
    BY <2>2, <1>1, <1>2, GotoType DEF Exit, TypeOK, PushTypeOK, JobInv, jobVars,
       Ended, Resolved, Leased
  <2>. QED  BY <2>1, <2>2
<1>. QED  BY <1>3, <1>4

\* A step that moves one running helper, knowing what its next place needs.
LEMMA MoveJob ==
    ASSUME TypeOK, JobInv, NEW h \in Helpers, NEW s \in Places, Goto(h, s),
           pc[h] \notin {"idle", "failed"}, UNCHANGED <<repo, wants>>,
           \A g \in Helpers : g # h => /\ tip'[g] = tip[g]
                                       /\ todo'[g] = todo[g]
                                       /\ old'[g] = old[g],
           s \in Resolved => tip'[h] \in Commits,
           s \in {"build", "record"} => todo'[h] # <<>>,
           s = "delete" => old'[h] # None
    PROVE  JobInv'
<1>1. /\ pc'[h] = s
      /\ \A g \in Helpers : g # h => pc'[g] = pc[g]
  BY GotoType DEF TypeOK
<1>. QED  BY <1>1 DEF JobInv

\* Lock and start: the helper's own job, and the lease.
LEMMA TypeLock ==
    ASSUME TypeOK, JobInv, NEW h \in Helpers, Start(h) \/ Lock(h) \/ LockHeld(h)
    PROVE  TypeOK' /\ JobInv'
<1>1. CASE Start(h)
  <2>1. RemoteTypeOK'
    BY <1>1 DEF Start, TypeOK, RemoteTypeOK, itemVars, lateVars
  <2>2. "lock" \in Places /\ Goto(h, "lock")
    BY <1>1 DEF Start, Places
  <2>3. pc' \in [Helpers -> Places]
    BY <2>2, GotoType DEF TypeOK
  <2>4. PushTypeOK'
    BY <1>1, <2>3 DEF Start, TypeOK, PushTypeOK, workVars, Places
  <2>5. JobInv'
    BY <1>1, <2>2, GotoType DEF Start, TypeOK, PushTypeOK, workVars, JobInv, Resolved,
       Leased
  <2>. QED  BY <2>1, <2>4, <2>5 DEF TypeOK
<1>2. CASE Lock(h)
  <2>0. repo[h] \in Repos
    BY <1>2 DEF Lock, JobInv
  <2>1. RemoteTypeOK'
    BY <1>2, <2>0 DEF Lock, TypeOK, RemoteTypeOK, s3Vars, lateVars
  <2>2. PICK s \in {"read", "abandon"} : Goto(h, s)
    BY <1>2 DEF Lock
  <2>3. s \in Places
    BY DEF Places, Leased, Releasing
  <2>4. pc' \in [Helpers -> Places]
    BY <2>2, <2>3, GotoType DEF TypeOK
  <2>5. PushTypeOK'
    BY <1>2, <2>0, <2>4 DEF Lock, TypeOK, PushTypeOK, RemoteTypeOK, jobVars, Places
  <2>6. JobInv'
    BY <1>2, <2>2, <2>3, MoveJob DEF Lock, TypeOK, PushTypeOK, jobVars, Resolved, Leased
  <2>. QED  BY <2>1, <2>5, <2>6 DEF TypeOK
<1>3. CASE LockHeld(h)
  <2>1. PushTypeOK' /\ JobInv'
    BY <1>3, ExitTypes DEF LockHeld, Ended
  <2>. QED  BY <1>3, <2>1 DEF LockHeld, TypeOK, RemoteTypeOK, remoteVars, itemVars,
       s3Vars, lateVars
<1>. QED  BY <1>1, <1>2, <1>3

LEMMA RemoteSame ==
    ASSUME TypeOK, UNCHANGED remoteVars
    PROVE  RemoteTypeOK'
BY DEF TypeOK, RemoteTypeOK, remoteVars, itemVars, s3Vars, lateVars

\* A step that only moves a helper from one place under the lease to another.
LEMMA TypeMove ==
    ASSUME TypeOK, JobInv, NEW h \in Helpers, pc[h] \in Leased,
           NEW s \in Places, Goto(h, s), UNCHANGED <<jobVars, workVars>>,
           s \in Resolved => tip[h] \in Commits,
           s \in {"build", "record"} => todo[h] # <<>>,
           s = "delete" => old[h] # None
    PROVE  PushTypeOK' /\ JobInv'
<1>1. pc' \in [Helpers -> Places]
  BY GotoType DEF TypeOK
<1>2. PushTypeOK'
  BY <1>1 DEF TypeOK, PushTypeOK, jobVars, workVars, Places
<1>3. JobInv'
  <2>1. pc[h] \notin {"idle", "failed"}
    BY DEF Leased
  <2>. QED  BY <2>1, MoveJob DEF jobVars, workVars
<1>. QED  BY <1>2, <1>3

LEMMA AbandonPlaces ==
    {"abandon", "broken"} \subseteq Places \ (Resolved \cup {"build", "record", "delete"})
BY DEF Places, Releasing, Resolved, Leased

LEMMA TypeAbandon ==
    ASSUME TypeOK, JobInv, NEW h \in Helpers, pc[h] \in Leased,
           Goto(h, "abandon") \/ Goto(h, "broken"), UNCHANGED <<jobVars, workVars>>
    PROVE  PushTypeOK' /\ JobInv'
<1>1. CASE Goto(h, "abandon")
  BY <1>1, TypeMove, AbandonPlaces
<1>2. CASE Goto(h, "broken")
  BY <1>2, TypeMove, AbandonPlaces
<1>. QED  BY <1>1, <1>2

\* Reading the published snapshot.
LEMMA TypeRead ==
    ASSUME TypeOK, JobInv, NEW h \in Helpers, Read(h)
    PROVE  TypeOK' /\ JobInv'
<1>1. RemoteTypeOK'
  BY RemoteSame DEF Read
<1>2. PICK s \in {"abandon", "finish", "adoptList", "validate", "list"} : Goto(h, s)
  BY DEF Read
<1>3. s \in Places /\ s \notin {"build", "record", "delete"}
  BY DEF Places, Leased, Releasing
<1>4. pc' \in [Helpers -> Places]
  BY <1>2, <1>3, GotoType DEF TypeOK
<1>5. PICK t \in Commits :
        /\ tip' = [tip EXCEPT ![h] = t]
        /\ chain' = [chain EXCEPT ![h] =
              IF old[h] = None THEN <<>> ELSE manifests[old[h]].chain]
  BY DEF Read
<1>6. old[h] # None => manifests[old[h]].chain \in Seq(BundleRefs)
  <2>1. old[h] # None => old[h] \in ManifestKeys /\ manifests[old[h]] # NoManifest
    BY DEF Read, Readable, Exists, TypeOK, PushTypeOK
  <2>2. old[h] # None => manifests[old[h]] \in Manifests
    BY <2>1 DEF TypeOK, RemoteTypeOK
  <2>. QED  BY <2>2 DEF Manifests
<1>7. tip' \in [Helpers -> Commits \cup {None}]
  BY <1>5 DEF TypeOK, PushTypeOK
<1>8. chain' \in [Helpers -> Seq(BundleRefs)]
  BY <1>5, <1>6 DEF TypeOK, PushTypeOK
<1>9. PushTypeOK'
  BY <1>4, <1>7, <1>8 DEF Read, TypeOK, PushTypeOK, Places
<1>10. JobInv'
  BY <1>2, <1>3, <1>5, MoveJob DEF Read, TypeOK, PushTypeOK
<1>. QED  BY <1>1, <1>9, <1>10 DEF TypeOK

\* Validating a legacy list, and adopting bundles of the namespace.
LEMMA TypeAdopt ==
    ASSUME TypeOK, JobInv, NEW h \in Helpers,
           ValidateLegacy(h) \/ namespaceManifests(h) \/ Adopt(h) \/ AdoptDone(h)
    PROVE  TypeOK' /\ JobInv'
<1>1. RemoteTypeOK'
  BY RemoteSame DEF ValidateLegacy, namespaceManifests, Adopt, AdoptDone
<1>2. /\ pc[h] \in {"validate", "adoptList", "adopt"}
      /\ tip[h] \in Commits /\ pc[h] \in Leased
      /\ UNCHANGED <<jobVars, old, completed, todo>>
  BY DEF ValidateLegacy, namespaceManifests, Adopt, AdoptDone, JobInv, Resolved, Leased,
     jobVars, workVars
<1>3. \E s \in {"broken", "manifest", "list", "adopt", "abandon"} : Goto(h, s)
  <2>1. CASE ValidateLegacy(h)
    BY <2>1 DEF ValidateLegacy, AfterBase
  <2>2. CASE namespaceManifests(h)
    BY <2>2 DEF namespaceManifests
  <2>3. CASE Adopt(h)
    BY <2>3 DEF Adopt, Goto, TypeOK, PushTypeOK
  <2>4. CASE AdoptDone(h)
    BY <2>4 DEF AdoptDone, AfterBase
  <2>. QED  BY <2>1, <2>2, <2>3, <2>4
<1>4. PICK s \in {"broken", "manifest", "list", "adopt", "abandon"} : Goto(h, s)
  BY <1>3
<1>5. s \in Places /\ s \notin {"build", "record", "delete"}
  BY DEF Places, Leased, Releasing
<1>6. pc' \in [Helpers -> Places]
  BY <1>4, <1>5, GotoType DEF TypeOK
<1>7. JobInv'
  BY <1>2, <1>4, <1>5, MoveJob DEF jobVars, Leased
<1>8. listed' \in [Helpers -> SUBSET ManifestKeys]
  BY DEF ValidateLegacy, namespaceManifests, Adopt, AdoptDone, TypeOK, PushTypeOK, workVars
<1>9. chain' \in [Helpers -> Seq(BundleRefs)]
  <2>1. CASE ValidateLegacy(h)
    <3>1. chain[h] \in Seq(BundleRefs)
      BY DEF TypeOK, PushTypeOK
    <3>2. ChainInspects(objects, chain[h]) =>
             CheckedChain(objects, chain[h]) \in Seq(BundleRefs)
      BY <3>1, CheckedChainType DEF ChainInspects, TypeOK, RemoteTypeOK
    <3>. QED  BY <2>1, <3>2 DEF ValidateLegacy, TypeOK, PushTypeOK
  <2>2. CASE namespaceManifests(h) \/ AdoptDone(h)
    BY <2>2 DEF namespaceManifests, AdoptDone, TypeOK, PushTypeOK, workVars
  <2>3. CASE Adopt(h)
    <3>1. \A k \in ManifestKeys : Exists(k) => manifests[k].chain \in Seq(BundleRefs)
      BY DEF Exists, TypeOK, RemoteTypeOK, Manifests
    <3>2. \A q \in Seq(BundleRefs) : ChainInspects(objects, q) =>
             CheckedChain(objects, q) \in Seq(BundleRefs)
      BY CheckedChainType DEF ChainInspects, TypeOK, RemoteTypeOK
    <3>3. \/ UNCHANGED chain
          \/ \E k \in listed[h] : Exists(k) /\
               \E shared \in Shared(manifests[k].chain, tip[h]) :
                 /\ ChainInspects(objects, shared)
                 /\ \E candidate \in Compatible(CheckedChain(objects, shared), tip[h]) :
                      chain' = [chain EXCEPT ![h] = candidate]
      BY <2>3 DEF Adopt
    <3>4. CASE UNCHANGED chain
      BY <3>4 DEF TypeOK, PushTypeOK
    <3>5. CASE ~UNCHANGED chain
      <4>1. PICK k \in listed[h] : Exists(k) /\
               \E shared \in Shared(manifests[k].chain, tip[h]) :
                 /\ ChainInspects(objects, shared)
                 /\ \E candidate \in Compatible(CheckedChain(objects, shared), tip[h]) :
                      chain' = [chain EXCEPT ![h] = candidate]
        BY <3>3, <3>5
      <4>2. manifests[k].chain \in Seq(BundleRefs)
        BY <4>1, <3>1 DEF TypeOK, PushTypeOK
      <4>3. PICK shared \in Shared(manifests[k].chain, tip[h]) :
                 /\ ChainInspects(objects, shared)
                 /\ \E candidate \in Compatible(CheckedChain(objects, shared), tip[h]) :
                      chain' = [chain EXCEPT ![h] = candidate]
        BY <4>1
      <4>4. CheckedChain(objects, shared) \in Seq(BundleRefs)
        BY <4>2, <4>3, <3>2, PrefixTypes
      <4>5. PICK candidate \in Compatible(CheckedChain(objects, shared), tip[h]) :
                      chain' = [chain EXCEPT ![h] = candidate]
        BY <4>3
      <4>6. candidate \in Seq(BundleRefs)
        BY <4>4, PrefixTypes
      <4>. QED  BY <4>5, <4>6 DEF TypeOK, PushTypeOK
    <3>. QED  BY <3>4, <3>5
  <2>. QED  BY <2>1, <2>2, <2>3
<1>10. PushTypeOK'
  BY <1>2, <1>6, <1>8, <1>9 DEF TypeOK, PushTypeOK, jobVars, Places
<1>. QED  BY <1>1, <1>7, <1>10 DEF TypeOK

\* Listing what an earlier attempt uploaded.
LEMMA TypeListing ==
    ASSUME TypeOK, JobInv, NEW h \in Helpers, listPushBundles(h)
    PROVE  TypeOK' /\ JobInv'
<1>1. RemoteTypeOK'
  BY RemoteSame DEF listPushBundles
<1>2. tip[h] \in Commits
  BY DEF listPushBundles, JobInv, Resolved, Leased
<1>3. {[key |-> o.key, etag |-> o.etag, keys |-> Recipients(tip[h])] :
          o \in {o \in objects : o.key.scope = tip[h]}} \subseteq BundleRefs
  BY <1>2, RecipientsType DEF TypeOK, RemoteTypeOK, Objects, BundleRefs
<1>4. completed' \in [Helpers -> SUBSET BundleRefs]
  BY <1>3 DEF listPushBundles, TypeOK, PushTypeOK
<1>5. "resume" \in Places /\ Goto(h, "resume")
  BY DEF listPushBundles, Places, Leased
<1>6. pc' \in [Helpers -> Places]
  BY <1>5, GotoType DEF TypeOK
<1>7. PushTypeOK'
  BY <1>4, <1>6 DEF listPushBundles, TypeOK, PushTypeOK, jobVars, Places
<1>8. JobInv'
  BY <1>2, <1>5, MoveJob DEF listPushBundles, jobVars
<1>. QED  BY <1>1, <1>7, <1>8 DEF TypeOK

\* createRange arguments are a base and a non-empty line of commits.
LEMMA RangesType ==
    ASSUME NEW base \in Hashes, NEW t \in Commits, NEW q \in RemainingRanges(base, t)
    PROVE  q \in Seq(Ranges)
<1>1. CASE base = t
  BY <1>1 DEF RemainingRanges
<1>2. CASE base # t
  <2>1. PICK c \in pushBundleCommits(base, t) : q = <<[base |-> base, commits |-> c]>>
    BY <1>2 DEF RemainingRanges
  <2>2. [base |-> base, commits |-> c] \in Ranges
    BY BoundaryType DEF Ranges
  <2>. QED  BY <2>1, <2>2
<1>. QED  BY <1>1, <1>2

\* Resuming from completed ranges.
LEMMA TypeResume ==
    ASSUME TypeOK, JobInv, NEW h \in Helpers, inspectPushPrefix(h)
    PROVE  TypeOK' /\ JobInv'
<1>1. RemoteTypeOK'
  BY RemoteSame DEF inspectPushPrefix
<1>2. tip[h] \in Commits /\ pc[h] \in Leased
  BY DEF inspectPushPrefix, JobInv, Resolved, Leased
<1>3. UNCHANGED <<jobVars, old, listed, completed>>
  BY DEF inspectPushPrefix
<1>4. chain[h] \in Seq(BundleRefs) /\ completed[h] \in SUBSET BundleRefs
  BY DEF TypeOK, PushTypeOK
<1>5. PICK commits \in pushBundleCommits(ChainEnd(chain[h]), tip[h]) :
      \E resumed \in completedPushPrefix(ChainEnd(chain[h]), commits, completed[h]) :
          IF \A i \in DOMAIN resumed : Inspects(objects, resumed[i], tip[h])
          THEN \E ranges \in RemainingRanges(
                   ChainEnd(chain[h] \o CheckedChain(objects, resumed)), tip[h]) :
                  /\ chain' = [chain EXCEPT ![h] = chain[h] \o CheckedChain(objects, resumed)]
                  /\ todo' = [todo EXCEPT ![h] = ranges]
                  /\ Goto(h, AfterRanges(ranges))
          ELSE Goto(h, "broken") /\ UNCHANGED <<chain, todo>>
  BY DEF inspectPushPrefix
<1>6. PICK resumed \in completedPushPrefix(ChainEnd(chain[h]), commits, completed[h]) :
          IF \A i \in DOMAIN resumed : Inspects(objects, resumed[i], tip[h])
          THEN \E ranges \in RemainingRanges(
                   ChainEnd(chain[h] \o CheckedChain(objects, resumed)), tip[h]) :
                  /\ chain' = [chain EXCEPT ![h] = chain[h] \o CheckedChain(objects, resumed)]
                  /\ todo' = [todo EXCEPT ![h] = ranges]
                  /\ Goto(h, AfterRanges(ranges))
          ELSE Goto(h, "broken") /\ UNCHANGED <<chain, todo>>
  BY <1>5
<1>7. CASE ~\A i \in DOMAIN resumed : Inspects(objects, resumed[i], tip[h])
  <2>1. UNCHANGED <<jobVars, workVars>> /\ Goto(h, "broken")
    BY <1>3, <1>6, <1>7 DEF workVars
  <2>. QED  BY <1>1, <1>2, <2>1, TypeAbandon DEF TypeOK
<1>8. CASE \A i \in DOMAIN resumed : Inspects(objects, resumed[i], tip[h])
  <2>. DEFINE bundles == chain[h] \o CheckedChain(objects, resumed)
  <2>1. resumed \in Seq(BundleRefs)
    BY <1>4, ResumedType
  <2>2. CheckedChain(objects, resumed) \in Seq(BundleRefs)
    BY <1>8, <2>1, CheckedChainType DEF TypeOK, RemoteTypeOK
  <2>3. bundles \in Seq(BundleRefs)
    BY <1>4, <2>2
  <2>4. PICK ranges \in RemainingRanges(ChainEnd(bundles), tip[h]) :
                  /\ chain' = [chain EXCEPT ![h] = bundles]
                  /\ todo' = [todo EXCEPT ![h] = ranges]
                  /\ Goto(h, AfterRanges(ranges))
    BY <1>6, <1>8
  <2>. HIDE DEF bundles
  <2>5. ranges \in Seq(Ranges)
    BY <1>2, <2>3, ChainEndType, RangesType
  <2>6. chain' \in [Helpers -> Seq(BundleRefs)] /\ todo' \in [Helpers -> Seq(Ranges)]
    BY <2>3, <2>4, <2>5 DEF TypeOK, PushTypeOK
  <2>7. /\ AfterRanges(ranges) \in Places \ {"record", "delete"}
        /\ AfterRanges(ranges) = "build" => ranges # <<>>
    BY DEF AfterRanges, Places, Leased
  <2>8. pc' \in [Helpers -> Places]
    BY <2>4, <2>7, GotoType DEF TypeOK
  <2>9. PushTypeOK'
    BY <1>3, <2>6, <2>8 DEF TypeOK, PushTypeOK, jobVars, Places
  <2>10. JobInv'
    <3>1. todo'[h] = ranges /\ \A g \in Helpers : g # h => todo'[g] = todo[g]
      BY <2>4 DEF TypeOK, PushTypeOK
    <3>2. pc[h] \notin {"idle", "failed"} /\ UNCHANGED <<repo, wants, tip, old>>
      BY <1>2, <1>3 DEF Leased, jobVars
    <3>. QED  BY <1>2, <2>4, <2>7, <3>1, <3>2, MoveJob
  <2>. QED  BY <1>1, <2>9, <2>10 DEF TypeOK
<1>. QED  BY <1>7, <1>8

\* The descriptor and the object of the range a helper is about to upload.
LEMMA NextType ==
    ASSUME TypeOK, JobInv, NEW h \in Helpers, pc[h] \in {"build", "record"}
    PROVE  /\ tip[h] \in Commits
           /\ todo[h] \in Seq(Ranges) /\ todo[h] # <<>>
           /\ Head(todo[h]) \in Ranges /\ Tail(todo[h]) \in Seq(Ranges)
           /\ NextKey(h) \in BundleKeys
           /\ NextObject(h) \in Objects
<1>1. tip[h] \in Commits /\ todo[h] # <<>> /\ todo[h] \in Seq(Ranges)
  BY DEF TypeOK, PushTypeOK, JobInv, Resolved, Leased
<1>2. Head(todo[h]) \in Ranges /\ Tail(todo[h]) \in Seq(Ranges)
  BY <1>1
<1>3. /\ Head(todo[h]).base \in Hashes
      /\ Head(todo[h]).commits \in Seq(Commits) /\ Head(todo[h]).commits # <<>>
  BY <1>2 DEF Ranges
<1>4. Last(Head(todo[h]).commits) \in Commits
  <2>1. Len(Head(todo[h]).commits) \in 1..Len(Head(todo[h]).commits)
    BY <1>3
  <2>. QED  BY <1>3, <2>1 DEF Last
<1>5. NextKey(h) \in BundleKeys
  BY <1>1, <1>3, <1>4 DEF NextKey, bundleKey, BundleKeys
<1>6. NextObject(h) \in Objects
  BY <1>1, <1>5, RecipientsType DEF NextObject, Objects, ETags
<1>. QED  BY <1>1, <1>2, <1>5, <1>6

\* A bundle joins the chain.
LEMMA TypeRecord ==
    ASSUME TypeOK, JobInv, NEW h \in Helpers, Reuse(h) \/ Record(h)
    PROVE  TypeOK' /\ JobInv'
<1>1. RemoteTypeOK'
  BY RemoteSame DEF Reuse, Record
<1>2. UNCHANGED <<jobVars, old, listed, completed>>
  BY DEF Reuse, Record
<1>3. pc[h] \in {"build", "record"} /\ pc[h] \in Leased
  BY DEF Reuse, Record, Leased
<1>4. \E ref \in BundleRefs : RecordRef(h, ref)
  <2>1. CASE Reuse(h)
    BY <2>1 DEF Reuse, Found, TypeOK, PushTypeOK
  <2>2. CASE Record(h)
    <3>1. [key |-> NextKey(h), etag |-> None, keys |-> Recipients(tip[h])] \in BundleRefs
      BY <1>3, NextType, RecipientsType DEF BundleRefs
    <3>. QED  BY <2>2, <3>1 DEF Record
  <2>. QED  BY <2>1, <2>2
<1>5. PICK ref \in BundleRefs : RecordRef(h, ref)
  BY <1>4
<1>6. CASE ~Inspects(objects, ref, tip[h])
  <2>1. UNCHANGED <<jobVars, workVars>> /\ Goto(h, "broken")
    BY <1>2, <1>5, <1>6 DEF workVars, RecordRef
  <2>. QED  BY <1>1, <1>3, <2>1, TypeAbandon DEF TypeOK
<1>7. CASE Inspects(objects, ref, tip[h])
  <2>1. Checked(objects, ref) \in BundleRefs
    BY <1>7, CheckedType DEF TypeOK, RemoteTypeOK
  <2>2. Append(chain[h], Checked(objects, ref)) \in Seq(BundleRefs)
    BY <2>1 DEF TypeOK, PushTypeOK
  <2>3. Tail(todo[h]) \in Seq(Ranges)
    BY <1>3, NextType
  <2>4. /\ chain' = [chain EXCEPT ![h] = Append(chain[h], Checked(objects, ref))]
        /\ todo' = [todo EXCEPT ![h] = Tail(todo[h])]
        /\ Goto(h, AfterRanges(Tail(todo[h])))
    BY <1>5, <1>7 DEF RecordRef
  <2>5. chain' \in [Helpers -> Seq(BundleRefs)] /\ todo' \in [Helpers -> Seq(Ranges)]
    BY <2>2, <2>3, <2>4 DEF TypeOK, PushTypeOK
  <2>6. /\ AfterRanges(Tail(todo[h])) \in Places \ {"record", "delete"}
        /\ AfterRanges(Tail(todo[h])) = "build" => Tail(todo[h]) # <<>>
    BY DEF AfterRanges, Places, Leased
  <2>7. pc' \in [Helpers -> Places]
    BY <2>4, <2>6, GotoType DEF TypeOK
  <2>8. PushTypeOK'
    BY <1>2, <2>5, <2>7 DEF TypeOK, PushTypeOK, jobVars, Places
  <2>9. JobInv'
    <3>1. todo'[h] = Tail(todo[h]) /\ \A g \in Helpers : g # h => todo'[g] = todo[g]
      BY <2>4 DEF TypeOK, PushTypeOK
    <3>2. pc[h] \notin {"idle", "failed"} /\ UNCHANGED <<repo, wants, tip, old>>
      BY <1>2, <1>3 DEF jobVars
    <3>3. tip[h] \in Commits
      BY <1>3, NextType
    <3>. QED  BY <2>4, <2>6, <3>1, <3>2, <3>3, MoveJob
  <2>. QED  BY <1>1, <2>8, <2>9 DEF TypeOK
<1>. QED  BY <1>6, <1>7

\* The middle of a line of two or more commits leaves two non-empty halves.
LEMMA HalvesType ==
    ASSUME NEW c \in Seq(Commits), Len(c) > 1
    PROVE  /\ SubSeq(c, 1, Len(c) \div 2) \in Seq(Commits) \ {<<>>}
           /\ SubSeq(c, (Len(c) \div 2) + 1, Len(c)) \in Seq(Commits) \ {<<>>}
           /\ c[Len(c) \div 2] \in Commits
<1>1. PICK n \in Nat : n = Len(c)
  OBVIOUS
<1>2. PICK m \in Int : m = n \div 2
  OBVIOUS
<1>3. 1 <= m /\ m + 1 <= n
  BY <1>1, <1>2
<1>4. \A i \in 1..n : c[i] \in Commits
  BY <1>1
<1>5. SubSeq(c, 1, m) \in Seq(Commits) /\ Len(SubSeq(c, 1, m)) = m
  <2>1. \A i \in 1..m : c[i] \in Commits
    BY <1>3, <1>4
  <2>. QED  BY <1>3, <2>1, SubSeqProperties
<1>6. SubSeq(c, m + 1, n) \in Seq(Commits) /\ Len(SubSeq(c, m + 1, n)) = n - m
  <2>1. \A i \in (m + 1)..n : c[i] \in Commits
    BY <1>3, <1>4
  <2>2. m + 1 \in Int
    OBVIOUS
  <2>. QED  BY <1>3, <2>1, <2>2, SubSeqProperties
<1>. QED  BY <1>1, <1>2, <1>3, <1>4, <1>5, <1>6

\* Halving a range keeps both halves non-empty.
LEMMA TypeSplit ==
    ASSUME TypeOK, JobInv, NEW h \in Helpers, splitRange(h)
    PROVE  TypeOK' /\ JobInv'
<1>. DEFINE r == Head(todo[h])
            n == Len(r.commits)
            middle == n \div 2
            left  == [base |-> r.base, commits |-> SubSeq(r.commits, 1, middle)]
            right == [base |-> r.commits[middle],
                      commits |-> SubSeq(r.commits, middle + 1, n)]
            halves == <<left, right>> \o Tail(todo[h])
<1>1. RemoteTypeOK' /\ UNCHANGED <<pc, jobVars, old, chain, listed, completed>>
  BY RemoteSame DEF splitRange
<1>2. r \in Ranges /\ Tail(todo[h]) \in Seq(Ranges) /\ n > 1
  BY NextType DEF splitRange
<1>3. r.base \in Hashes /\ r.commits \in Seq(Commits)
  BY <1>2 DEF Ranges
<1>4. /\ SubSeq(r.commits, 1, middle) \in Seq(Commits) \ {<<>>}
      /\ SubSeq(r.commits, middle + 1, n) \in Seq(Commits) \ {<<>>}
      /\ r.commits[middle] \in Commits
  <2>. HIDE DEF r
  <2>. QED  BY <1>2, <1>3, HalvesType
<1>5. left \in Ranges
  BY <1>3, <1>4 DEF Ranges
<1>6. right \in Ranges
  BY <1>4 DEF Ranges, Hashes
<1>7. todo' = [todo EXCEPT ![h] = halves]
  BY DEF splitRange
<1>. HIDE DEF left, right
<1>8. halves \in Seq(Ranges) /\ halves # <<>>
  <2>1. <<left, right>> \in Seq(Ranges) /\ Len(<<left, right>>) = 2
    BY <1>5, <1>6
  <2>. HIDE DEF r
  <2>2. halves \in Seq(Ranges) /\ Len(halves) = 2 + Len(Tail(todo[h]))
    BY <1>2, <2>1, ConcatProperties
  <2>. QED  BY <1>2, <2>2
<1>. HIDE DEF halves
<1>9. todo' \in [Helpers -> Seq(Ranges)]
  BY <1>7, <1>8 DEF TypeOK, PushTypeOK
<1>10. PushTypeOK'
  BY <1>1, <1>9 DEF TypeOK, PushTypeOK, jobVars
<1>11. JobInv'
  <2>1. todo'[h] = halves /\ \A g \in Helpers : g # h => todo'[g] = todo[g]
    BY <1>7 DEF TypeOK, PushTypeOK
  <2>. QED  BY <1>1, <1>8, <2>1 DEF JobInv, jobVars
<1>. QED  BY <1>1, <1>10, <1>11 DEF TypeOK

\* Storing a bundle, or losing sight of the request.
LEMMA TypeUpload ==
    ASSUME TypeOK, JobInv, NEW h \in Helpers, Upload(h) \/ UploadUnknown(h)
    PROVE  TypeOK' /\ JobInv'
<1>1. pc[h] = "build" /\ pc[h] \in Leased /\ UNCHANGED <<jobVars, workVars>>
  BY DEF Upload, UploadUnknown, Leased
<1>2. NextObject(h) \in Objects /\ tip[h] \in Commits /\ todo[h] # <<>>
  BY <1>1, NextType
<1>3. RemoteTypeOK'
  BY <1>2 DEF Upload, UploadUnknown, PutIfAbsent, TypeOK, RemoteTypeOK, itemVars, s3Vars,
     lateVars
<1>4. PICK s \in {"record", "broken", "abandon"} : Goto(h, s)
  BY DEF Upload, UploadUnknown
<1>5. s \in Places
  BY DEF Places, Leased, Releasing
<1>. QED  BY <1>1, <1>2, <1>3, <1>4, <1>5, TypeMove DEF TypeOK

\* Storing a manifest, or losing sight of the request.
LEMMA TypeManifest ==
    ASSUME TypeOK, JobInv, NEW h \in Helpers, putManifest(h) \/ putManifestUnknown(h)
    PROVE  TypeOK' /\ JobInv'
<1>1. pc[h] = "manifest" /\ pc[h] \in Leased /\ UNCHANGED <<jobVars, workVars>>
  BY DEF putManifest, putManifestUnknown, Leased
<1>2. repo[h] \in Repos /\ wants[h] \in Branches /\ tip[h] \in Commits
  BY <1>1 DEF JobInv, Resolved, Leased
<1>3. NewManifest(h) \in Manifests
  BY <1>2 DEF NewManifest, Manifests, TypeOK, PushTypeOK
<1>4. RemoteTypeOK'
  <2>1. manifests' \in [ManifestKeys -> Manifests \cup {NoManifest}]
    BY <1>3 DEF putManifest, putManifestUnknown, TypeOK, RemoteTypeOK, s3Vars, ManifestKeys
  <2>2. lateManifests' \subseteq [by : Helpers, body : Manifests]
    BY <1>3 DEF putManifest, putManifestUnknown, TypeOK, RemoteTypeOK, lateVars
  <2>. QED  BY <2>1, <2>2 DEF putManifest, putManifestUnknown, TypeOK, RemoteTypeOK,
       itemVars, s3Vars, lateVars
<1>5. PICK s \in {"commit", "broken", "abandon"} : Goto(h, s)
  BY DEF putManifest, putManifestUnknown
<1>6. s \in Places
  BY DEF Places, Leased, Releasing
<1>. QED  BY <1>1, <1>2, <1>4, <1>5, <1>6, TypeMove DEF TypeOK

\* The conditional update that publishes keeps the item's types.
LEMMA CommitItemType ==
    ASSUME TypeOK, NEW h \in Helpers, NEW r \in Repos, NEW b \in Branches,
           CommitItem(h, r, b)
    PROVE  /\ pointer' \in [Repos -> ManifestKeys \cup {None}]
           /\ branch' \in [Repos -> Branches \cup {None}]
           /\ owner' \in [Repos -> Helpers \cup {None}]
           /\ lapsed' \in [Repos -> BOOLEAN]
           /\ published' \in [Repos -> Seq(ManifestKeys)]
<1>1. Append(published[r], h) \in Seq(ManifestKeys)
  BY DEF TypeOK, RemoteTypeOK, ManifestKeys
<1>. QED  BY <1>1 DEF CommitItem, TypeOK, RemoteTypeOK, ManifestKeys

LEMMA TypeCommit ==
    ASSUME TypeOK, JobInv, NEW h \in Helpers,
           Commit(h) \/ CommitRejected(h) \/ CommitUnknown(h)
    PROVE  TypeOK' /\ JobInv'
<1>1. pc[h] = "commit" /\ pc[h] \in Leased
  BY DEF Commit, CommitRejected, CommitUnknown, Leased
<1>2. repo[h] \in Repos /\ wants[h] \in Branches /\ tip[h] \in Commits
  BY <1>1 DEF JobInv, Resolved, Leased
<1>3. CASE Commit(h)
  <2>1. RemoteTypeOK'
    BY <1>2, <1>3, CommitItemType DEF Commit, TypeOK, RemoteTypeOK, s3Vars, lateVars
  <2>2. CASE old[h] = None
    <3>1. Exit(h, "ok") /\ "ok" \in Ended /\ pc[h] \in Resolved
      BY <1>1, <1>3, <2>2 DEF Commit, Ended, Resolved, Leased
    <3>2. PushTypeOK' /\ JobInv'
      BY <1>1, <3>1, ExitTypes
    <3>. QED  BY <2>1, <3>2 DEF TypeOK
  <2>3. CASE old[h] # None
    <3>1. Goto(h, "delete") /\ "delete" \in Places /\ UNCHANGED <<jobVars, workVars>>
      BY <1>3, <2>3 DEF Commit, Places
    <3>. QED  BY <1>1, <1>2, <2>1, <2>3, <3>1, TypeMove DEF TypeOK
  <2>. QED  BY <2>2, <2>3
<1>4. CASE CommitRejected(h)
  BY <1>1, <1>4, RemoteSame, TypeAbandon DEF CommitRejected, TypeOK
<1>5. CASE CommitUnknown(h)
  <2>1. RemoteTypeOK'
    BY <1>2, <1>5 DEF CommitUnknown, TypeOK, RemoteTypeOK, itemVars, s3Vars
  <2>. QED  BY <1>1, <1>5, <2>1, TypeAbandon DEF CommitUnknown, TypeOK
<1>. QED  BY <1>3, <1>4, <1>5

\* Deleting the superseded manifest.
LEMMA TypeDelete ==
    ASSUME TypeOK, JobInv, NEW h \in Helpers, DeleteOld(h) \/ DeleteUnknown(h)
    PROVE  TypeOK' /\ JobInv'
<1>1. pc[h] = "delete" /\ pc[h] \in Resolved /\ old[h] \in ManifestKeys
  BY DEF DeleteOld, DeleteUnknown, Resolved, JobInv, TypeOK, PushTypeOK
<1>2. RemoteTypeOK'
  BY <1>1 DEF DeleteOld, DeleteUnknown, TypeOK, RemoteTypeOK, itemVars, s3Vars, lateVars
<1>3. PICK outcome \in Ended : Exit(h, outcome)
  BY DEF DeleteOld, DeleteUnknown, Ended
<1>. QED  BY <1>1, <1>2, <1>3, ExitTypes DEF TypeOK

\* The deferred release, and failures.
LEMMA TypeRelease ==
    ASSUME TypeOK, JobInv, NEW h \in Helpers,
           Release(h) \/ ReleaseFails(h) \/ Crash(h)
    PROVE  TypeOK' /\ JobInv'
<1>1. RemoteTypeOK'
  BY RemoteSame DEF Release, ReleaseFails, Crash, ReleaseItem, TypeOK, RemoteTypeOK,
     s3Vars, lateVars
<1>2. PICK outcome \in Ended :
         /\ Exit(h, outcome)
         /\ outcome # "failed" => pc[h] = "finish"
  BY DEF Release, ReleaseFails, Crash, Outcome, Ended
<1>3. outcome # "failed" => pc[h] # "idle" /\ pc[h] \in Resolved
  BY <1>2 DEF Resolved
<1>. QED  BY <1>1, <1>2, <1>3, ExitTypes DEF TypeOK

LEMMA TypeFailure ==
    ASSUME TypeOK, JobInv, NEW h \in Helpers,
           ReadMissing(h) \/ Abort(h) \/ LeaseLost(h) \/ Renew(h)
    PROVE  TypeOK' /\ JobInv'
<1>1. CASE ReadMissing(h) \/ LeaseLost(h)
  BY <1>1, RemoteSame, TypeAbandon DEF ReadMissing, LeaseLost, TypeOK, Leased
<1>2. CASE Abort(h)
  <2>1. RemoteTypeOK'
    BY <1>2, RemoteSame DEF Abort
  <2>2. CASE pc[h] \in Leased /\ Goto(h, "abandon") /\ UNCHANGED <<jobVars, workVars>>
    BY <2>1, <2>2, TypeAbandon DEF TypeOK
  <2>3. CASE Exit(h, "failed")
    BY <2>1, <2>3, ExitTypes DEF TypeOK, Ended
  <2>. QED  BY <1>2, <2>2, <2>3 DEF Abort
<1>3. CASE Renew(h)
  BY <1>3 DEF Renew, TypeOK, RemoteTypeOK, PushTypeOK, JobInv, s3Vars, lateVars, jobVars,
     workVars
<1>. QED  BY <1>1, <1>2, <1>3

\* Leases lapsing and late requests landing.
LEMMA TypeServices ==
    ASSUME TypeOK, JobInv,
           \/ \E r \in Repos : Lapse(r)
           \/ Land /\ UNCHANGED <<pc, jobVars, workVars>>
    PROVE  TypeOK' /\ JobInv'
<1>1. UNCHANGED <<pc, jobVars, workVars>>
  BY DEF Lapse
<1>2. PushTypeOK' /\ JobInv'
  BY <1>1 DEF TypeOK, PushTypeOK, JobInv, jobVars, workVars
<1>3. CASE \E r \in Repos : Lapse(r)
  BY <1>2, <1>3 DEF Lapse, TypeOK, RemoteTypeOK, s3Vars, lateVars
<1>4. CASE LandCommit
  <2>1. PICK c \in lateCommits : CommitItem(c.by, c.repo, c.branch)
    BY <1>4 DEF LandCommit
  <2>2. c.by \in Helpers /\ c.repo \in Repos /\ c.branch \in Branches
    BY DEF TypeOK, RemoteTypeOK
  <2>3. RemoteTypeOK'
    BY <1>4, <2>1, <2>2, CommitItemType DEF LandCommit, TypeOK, RemoteTypeOK, s3Vars
  <2>. QED  BY <1>2, <2>3 DEF TypeOK
<1>5. CASE LandDelete
  <2>1. manifests' \in [ManifestKeys -> Manifests \cup {NoManifest}]
    BY <1>5 DEF LandDelete, TypeOK, RemoteTypeOK
  <2>. QED  BY <1>2, <1>5, <2>1 DEF LandDelete, TypeOK, RemoteTypeOK, itemVars
<1>6. CASE LandManifest
  <2>1. manifests' \in [ManifestKeys -> Manifests \cup {NoManifest}]
    BY <1>6 DEF LandManifest, TypeOK, RemoteTypeOK
  <2>. QED  BY <1>2, <1>6, <2>1 DEF LandManifest, TypeOK, RemoteTypeOK, itemVars
<1>7. CASE LandBundle
  BY <1>2, <1>7 DEF LandBundle, PutIfAbsent, TypeOK, RemoteTypeOK, itemVars
<1>. QED  BY <1>3, <1>4, <1>5, <1>6, <1>7 DEF Land

LEMMA TypeInit == Init => TypeOK /\ JobInv
<1>. SUFFICES ASSUME Init PROVE TypeOK /\ JobInv
  OBVIOUS
<1>1. PICK c \in [LegacyRepos -> Commits], b \in [LegacyRepos -> Branches] :
          /\ pointer = [r \in Repos |-> IF r \in LegacyRepos THEN r ELSE None]
          /\ branch = [r \in Repos |-> IF r \in LegacyRepos THEN b[r] ELSE None]
          /\ manifests = [k \in ManifestKeys |->
                IF k \in LegacyRepos THEN LegacyList(k, c[k], b[k]) ELSE NoManifest]
          /\ objects = {LegacyObject(r, c[r]) : r \in LegacyRepos}
  BY DEF Init
<1>2. \A r \in LegacyRepos : r \in Repos /\ c[r] \in Commits /\ b[r] \in Branches
  BY PushAssumption
<1>3. \A r \in LegacyRepos : LegacyObject(r, c[r]) \in Objects
  BY <1>2, RecipientsType DEF LegacyObject, Objects, BundleKeys, ETags, Hashes
<1>4. \A r \in LegacyRepos : LegacyList(r, c[r], b[r]) \in Manifests
  <2>. TAKE r \in LegacyRepos
  <2>1. [key |-> LegacyObject(r, c[r]).key, etag |-> None, keys |-> {}] \in BundleRefs
    BY <1>3 DEF BundleRefs, Objects
  <2>. QED  BY <1>2, <2>1 DEF LegacyList, Manifests
<1>5. RemoteTypeOK
  <2>1. manifests \in [ManifestKeys -> Manifests \cup {NoManifest}] /\ objects \subseteq Objects
    BY <1>1, <1>3, <1>4
  <2>2. /\ pointer \in [Repos -> ManifestKeys \cup {None}]
        /\ branch \in [Repos -> Branches \cup {None}]
    BY <1>1, <1>2 DEF ManifestKeys
  <2>3. published \in [Repos -> Seq(ManifestKeys)]
    <3>1. \A r \in Repos : <<r>> \in Seq(ManifestKeys) /\ <<>> \in Seq(ManifestKeys)
      BY DEF ManifestKeys
    <3>. QED  BY <3>1 DEF Init
  <2>. QED  BY <2>1, <2>2, <2>3 DEF Init, RemoteTypeOK
<1>6. PushTypeOK /\ JobInv
  BY DEF Init, PushTypeOK, JobInv, Resolved, Leased
<1>. QED  BY <1>5, <1>6 DEF TypeOK

LEMMA TypeNext == TypeOK /\ JobInv /\ [PushNext]_vars => TypeOK' /\ JobInv'
<1>. SUFFICES ASSUME TypeOK, JobInv, [PushNext]_vars
              PROVE  TypeOK' /\ JobInv'
  OBVIOUS
<1>1. CASE UNCHANGED vars
  BY <1>1 DEF TypeOK, RemoteTypeOK, PushTypeOK, JobInv, vars, remoteVars, itemVars, s3Vars,
     lateVars, jobVars, workVars
<1>2. ASSUME NEW h \in Helpers, Start(h) \/ Step(h) \/ Fault(h)
      PROVE  TypeOK' /\ JobInv'
  BY <1>2, TypeLock, TypeRead, TypeAdopt, TypeListing, TypeResume, TypeRecord, TypeSplit,
     TypeUpload, TypeManifest, TypeCommit, TypeDelete, TypeRelease, TypeFailure
     DEF Step, Fault
<1>. QED  BY <1>1, <1>2, TypeServices DEF PushNext

(***************************************************************************)
(* Every reachable state is well typed: in particular no push hands git or *)
(* a service an unresolved commit, an empty range or a missing repository, *)
(* since JobInv is part of the induction (push(), createRange).            *)
(***************************************************************************)
THEOREM TypeCorrect == Spec => []TypeOK
<1>1. Spec => [](TypeOK /\ JobInv)
  BY TypeInit, TypeNext, PTL DEF Spec
<1>. QED  BY <1>1, PTL

----------------------------------------------------------------------------
(* Publication.                                                            *)

\* Nothing about helper g itself changed.
SameHelper(g) ==
    /\ pc'[g] = pc[g] /\ repo'[g] = repo[g] /\ wants'[g] = wants[g]
    /\ tip'[g] = tip[g] /\ old'[g] = old[g]

SamePointers == UNCHANGED <<pointer, branch, published>>

\* Stored manifests keep their content; only an unpublished key is written
\* and only a superseded one is deleted.
SafeStore ==
    \A k \in ManifestKeys :
        \/ manifests'[k] = manifests[k]
        \/ Unpublished(k)
        \/ Superseded(k) /\ manifests'[k] = NoManifest

\* No helper outside movers gains a lease.
SafeLease(movers) ==
    \A r \in Repos : \A g \in Helpers \ movers : owner'[r] = g => owner[r] = g

LEMMA SamePublished ==
    ASSUME SamePointers
    PROVE  /\ \A r \in Repos : Keys(r)' = Keys(r)
           /\ \A k : Unpublished(k)' <=> Unpublished(k)
           /\ \A k : Superseded(k)' <=> Superseded(k)
BY DEF SamePointers, Keys, Unpublished, Superseded, ToSet

\* The manifest a pointer names is untouched by a safe store.
LEMMA PointerKept ==
    ASSUME PublicationInv, SamePointers, SafeStore, NEW r \in Repos, pointer[r] # None
    PROVE  /\ pointer[r] \in ManifestKeys
           /\ manifests'[pointer[r]] = manifests[pointer[r]]
<1>1. pointer[r] \in ManifestKeys
  BY DEF PublicationInv, TypeOK, RemoteTypeOK
<1>2. pointer[r] \in Keys(r) /\ ~Unpublished(pointer[r])
  BY DEF PublicationInv, KeyInv, Unpublished
<1>3. ~Superseded(pointer[r])
  BY <1>2 DEF PublicationInv, KeyInv, Superseded
<1>. QED  BY <1>1, <1>2, <1>3 DEF SafeStore

\* A step that moves no pointer and stores safely preserves the invariant if
\* the helpers that moved, and the requests in flight, are accounted for.
LEMMA QuietStep ==
    ASSUME PublicationInv, TypeOK', JobInv', SamePointers, SafeStore,
           NEW movers \in SUBSET Helpers, SafeLease(movers),
           \A g \in Helpers \ movers : SameHelper(g),
           \A g \in Helpers \ movers : pc[g] = "commit" => manifests'[g] = manifests[g],
           LateInv',
           \A g \in movers : HelperInv(g)'
    PROVE  PublicationInv'
<1>1. KeyInv'
  BY SamePublished DEF PublicationInv, KeyInv, SamePointers
<1>2. PointerResolves'
  <2>. SUFFICES ASSUME NEW r \in Repos, pointer'[r] # None
                PROVE  /\ manifests'[pointer'[r]] # NoManifest'
                       /\ manifests'[pointer'[r]].repo = r
                       /\ manifests'[pointer'[r]].branch = branch'[r]
    BY DEF PointerResolves, Exists
  <2>1. pointer'[r] = pointer[r] /\ branch'[r] = branch[r]
    BY DEF SamePointers
  <2>. QED  BY <2>1, PointerKept DEF PublicationInv, PointerResolves, Exists, NoManifest
<1>3. ASSUME NEW g \in Helpers \ movers PROVE HelperInv(g)'
  <2>. USE <1>3
  <2>0. SameHelper(g) /\ HelperInv(g) /\ g \in Helpers
    BY DEF PublicationInv
  <2>1. OwnKeys(g)'
    BY <2>0, SamePublished DEF SameHelper, HelperInv, OwnKeys, SamePointers
  <2>2. Candidate(g)'
    BY <2>0 DEF SameHelper, HelperInv, Candidate, Exists, NoManifest
  <2>3. ASSUME pc[g] \in Leased, old[g] # None
        PROVE  /\ old[g] \in ManifestKeys
               /\ manifests'[old[g]] = manifests[old[g]] \/ manifests'[old[g]] = NoManifest
    <3>1. old[g] \in ManifestKeys
      BY <2>0, <2>3 DEF PublicationInv, TypeOK, PushTypeOK
    <3>2. ~Unpublished(old[g])
      BY <2>0, <2>3 DEF HelperInv, OwnKeys, Unpublished
    <3>. QED  BY <3>1, <3>2 DEF SafeStore
  <2>4. repo[g] \in Repos \/ pc[g] \in {"idle", "failed"}
    BY DEF PublicationInv, JobInv
  <2>5. FreshUnderLease(g)'
    <3>. SUFFICES ASSUME pc[g] \in Leased, owner'[repo[g]] = g
                  PROVE  /\ old[g] = pointer[repo[g]]
                         /\ branch[repo[g]] \in {None, wants[g]}
                         /\ pc[g] \in Resolved /\ old[g] # None =>
                               gitBranchContains(tip[g], manifests'[old[g]].tip)
      BY <2>0 DEF FreshUnderLease, SameHelper, SamePointers, gitBranchContains
    <3>1. repo[g] \in Repos
      BY <2>4 DEF Leased
    <3>2. owner[repo[g]] = g
      BY <3>1 DEF SafeLease
    <3>3. old[g] = pointer[repo[g]]
      BY <2>0, <3>2 DEF HelperInv, FreshUnderLease
    <3>4. old[g] # None => manifests'[old[g]] = manifests[old[g]]
      BY <3>1, <3>3, PointerKept
    <3>. QED  BY <2>0, <3>2, <3>3, <3>4 DEF HelperInv, FreshUnderLease
  <2>6. Forward(g)'
    <3>1. repo[g] \in Repos /\ pointer[repo[g]] # None =>
             manifests'[pointer[repo[g]]] = manifests[pointer[repo[g]]]
      BY PointerKept
    <3>2. CASE pc[g] \in Leased
      <4>1. repo[g] \in Repos
        BY <2>4, <3>2 DEF Leased
      <4>2. pc[g] \notin {"finish", "delete", "ok", "noop"}
        BY <3>2 DEF Leased
      <4>. QED  BY <2>0, <2>3, <3>1, <3>2, <4>1, <4>2 DEF SameHelper, SamePointers,
                HelperInv, Forward, Exists, NoManifest, gitBranchContains
    <3>3. CASE pc[g] \in {"finish", "delete", "ok", "noop"}
      <4>1. repo[g] \in Repos /\ pc[g] \notin Leased
        BY <2>4, <3>3 DEF Leased
      <4>. QED  BY <2>0, <3>1, <3>3, <4>1 DEF SameHelper, SamePointers,
                HelperInv, Forward, gitBranchContains
    <3>. QED  BY <2>0, <3>2, <3>3 DEF SameHelper, Forward
  <2>. QED  BY <2>1, <2>2, <2>5, <2>6 DEF HelperInv
<1>. QED  BY <1>1, <1>2, <1>3 DEF PublicationInv

\* Requests in flight are undisturbed by a step that does not send, land or
\* depend on one.
LEMMA LateKept ==
    ASSUME PublicationInv, SamePointers, SafeStore,
           lateCommits' \subseteq lateCommits, lateManifests' \subseteq lateManifests,
           \A k \in lateDeletes' : Superseded(k),
           \A g \in Helpers : pc[g] \in GivenUp => pc'[g] \in GivenUp,
           \A r \in Repos : \A g \in Helpers :
               pc[g] \in GivenUp /\ owner'[r] = g => owner[r] = g,
           \A c \in lateCommits' : manifests'[c.by] = manifests[c.by]
    PROVE  LateInv'
<1>1. ASSUME NEW c \in lateCommits' PROVE LateCommitOK(c)'
  <2>1. LateCommitOK(c) /\ c \in lateCommits /\ c.by \in Helpers /\ c.repo \in Repos
    BY <1>1 DEF PublicationInv, LateInv, TypeOK, RemoteTypeOK
  <2>2. pointer[c.repo] # None =>
            manifests'[pointer[c.repo]] = manifests[pointer[c.repo]]
    BY <2>1, PointerKept
  <2>3. manifests'[c.by] = manifests[c.by]
    BY <1>1
  <2>4. owner'[c.repo] = c.by => owner[c.repo] = c.by
    BY <2>1 DEF LateCommitOK
  <2>5. Unpublished(c.by)'
    BY <2>1, SamePublished DEF LateCommitOK
  <2>6. pc'[c.by] \in GivenUp
    BY <2>1 DEF LateCommitOK
  <2>. QED  BY <2>1, <2>2, <2>3, <2>4, <2>5, <2>6 DEF LateCommitOK, SamePointers, Exists,
            NoManifest, gitBranchContains
<1>2. ASSUME NEW m \in lateManifests' PROVE LateManifestOK(m)'
  <2>1. LateManifestOK(m) /\ m.by \in Helpers
    BY <1>2 DEF PublicationInv, LateInv, TypeOK, RemoteTypeOK
  <2>2. Unpublished(m.by)'
    BY <2>1, SamePublished DEF LateManifestOK
  <2>. QED  BY <2>1, <2>2 DEF LateManifestOK
<1>3. \A k \in lateDeletes' : Superseded(k)'
  BY SamePublished
<1>. QED  BY <1>1, <1>2, <1>3 DEF LateInv

LEMMA SameStore ==
    ASSUME UNCHANGED manifests
    PROVE  SafeStore
BY DEF SafeStore

\* A step that moves one helper and touches no manifest or request in flight.
LEMMA LocalStep ==
    ASSUME PublicationInv, TypeOK', JobInv', SamePointers,
           UNCHANGED <<manifests, lateCommits, lateManifests>>,
           \A k \in lateDeletes' : Superseded(k),
           NEW h \in Helpers,
           \A g \in Helpers \ {h} : SameHelper(g),
           \A r \in Repos : \A g \in Helpers :
               owner'[r] = g => owner[r] = g \/ (g = h /\ pc[h] \notin GivenUp),
           pc[h] \in GivenUp => pc'[h] \in GivenUp,
           HelperInv(h)'
    PROVE  PublicationInv'
<1>1. SafeStore
  BY SameStore
<1>2. \A g \in Helpers : pc[g] \in GivenUp => pc'[g] \in GivenUp
  BY DEF SameHelper
<1>3. LateInv'
  BY <1>1, <1>2, LateKept
<1>4. SafeLease({h})
  BY DEF SafeLease
<1>. QED  BY <1>1, <1>3, <1>4, QuietStep

PubSame == UNCHANGED <<pointer, branch, published, owner, manifests,
                       lateCommits, lateDeletes, lateManifests>>

LEMMA LateDeletesKept ==
    ASSUME PublicationInv, UNCHANGED lateDeletes
    PROVE  \A k \in lateDeletes' : Superseded(k)
BY DEF PublicationInv, LateInv

\* Steps under the lease, up to the commit: reading, adopting, resuming,
\* uploading, and giving up.
LEMMA WalkStep ==
    ASSUME PublicationInv, TypeOK', JobInv', PubSame, UNCHANGED <<jobVars, old>>,
           NEW h \in Helpers, pc[h] \in Leased, NEW s, Goto(h, s),
           s \in (Leased \ {"read", "commit"}) \cup {"abandon", "broken"},
           s \in Leased => pc[h] \in Resolved
    PROVE  PublicationInv'
<1>1. pc'[h] = s /\ \A g \in Helpers \ {h} : pc'[g] = pc[g]
  BY DEF Goto, PublicationInv, TypeOK, PushTypeOK
<1>2. \A g \in Helpers \ {h} : SameHelper(g)
  BY <1>1 DEF SameHelper, jobVars
<1>3. HelperInv(h)
  BY DEF PublicationInv
<1>4. SamePointers
  BY DEF PubSame, SamePointers
<1>5. OwnKeys(h)'
  <2>1. pc[h] \in BeforeCommit /\ s \notin {"delete", "idle", "lock"}
    BY DEF BeforeCommit, Leased
  <2>. QED  BY <1>1, <1>3, <1>4, <2>1, SamePublished DEF HelperInv, OwnKeys, jobVars
<1>6. Candidate(h)'
  <2>1. s # "commit"
    OBVIOUS
  <2>. QED  BY <1>1, <2>1 DEF Candidate
<1>7. FreshUnderLease(h)'
  BY <1>1, <1>3 DEF HelperInv, FreshUnderLease, PubSame, jobVars, gitBranchContains
<1>8. Forward(h)'
  <2>1. s \notin {"finish", "delete", "ok", "noop"}
    BY DEF Leased
  <2>. QED  BY <1>1, <1>3, <2>1 DEF HelperInv, Forward, PubSame, jobVars, Exists, NoManifest,
            gitBranchContains
<1>9. pc[h] \notin GivenUp
  BY DEF GivenUp, Leased
<1>10. HelperInv(h)'
  BY <1>5, <1>6, <1>7, <1>8 DEF HelperInv
<1>11. UNCHANGED <<manifests, lateCommits, lateManifests, lateDeletes, owner>>
  BY DEF PubSame
<1>. QED  BY <1>2, <1>4, <1>9, <1>10, <1>11, LocalStep, LateDeletesKept

\* What an ended helper still promises: its pushed commit, if it reported one.
LEMMA ExitInv ==
    ASSUME PublicationInv, SamePointers, SafeStore, NEW h \in Helpers,
           NEW outcome \in Ended, Exit(h, outcome),
           outcome # "failed" => pc[h] \in {"finish", "delete"}
    PROVE  /\ HelperInv(h)'
           /\ pc'[h] = outcome
           /\ \A g \in Helpers \ {h} : SameHelper(g)
<1>1. /\ pc'[h] = outcome /\ old'[h] = None
      /\ outcome # "failed" => repo'[h] = repo[h] /\ tip'[h] = tip[h]
  BY DEF Exit, Goto, PublicationInv, TypeOK, PushTypeOK, jobVars
<1>2. \A g \in Helpers \ {h} : SameHelper(g)
  BY DEF Exit, Goto, SameHelper, PublicationInv, TypeOK, PushTypeOK, jobVars
<1>3. OwnKeys(h)' /\ Candidate(h)' /\ FreshUnderLease(h)'
  <2>1. outcome \notin BeforeCommit \cup Leased \cup {"delete", "commit"}
    BY DEF Ended, BeforeCommit, Leased
  <2>. QED  BY <1>1, <2>1 DEF OwnKeys, Candidate, FreshUnderLease
<1>4. Forward(h)'
  <2>1. outcome \notin Leased
    BY DEF Ended, Leased
  <2>2. CASE outcome = "failed"
    BY <1>1, <2>1, <2>2 DEF Forward
  <2>3. CASE outcome # "failed"
    <3>1. pc[h] \in {"finish", "delete"} /\ repo[h] \in Repos
      BY <2>3 DEF PublicationInv, JobInv
    <3>2. /\ pointer[repo[h]] # None
          /\ gitBranchContains(manifests[pointer[repo[h]]].tip, tip[h])
      BY <3>1 DEF PublicationInv, HelperInv, Forward
    <3>3. manifests'[pointer[repo[h]]] = manifests[pointer[repo[h]]]
      BY <3>1, <3>2, PointerKept
    <3>. QED  BY <1>1, <2>1, <2>3, <3>2, <3>3 DEF Forward, SamePointers, gitBranchContains
  <2>. QED  BY <2>2, <2>3
<1>. QED  BY <1>1, <1>2, <1>3, <1>4 DEF HelperInv

\* Steps that end an invocation without touching the published state: a held
\* lease, a failure, a crash, and the release, successful or not.
LEMMA EndStep ==
    ASSUME PublicationInv, TypeOK', JobInv', NEW h \in Helpers, NEW outcome \in Ended,
           Exit(h, outcome), SamePointers,
           UNCHANGED <<manifests, lateCommits, lateManifests>>,
           \A k \in lateDeletes' : Superseded(k),
           \A r \in Repos : owner'[r] \in {owner[r], None},
           outcome # "failed" => pc[h] \in {"finish", "delete"}
    PROVE  PublicationInv'
<1>1. SafeStore
  BY SameStore
<1>2. /\ HelperInv(h)' /\ pc'[h] = outcome
      /\ \A g \in Helpers \ {h} : SameHelper(g)
  BY <1>1, ExitInv
<1>3. pc[h] \in GivenUp => pc'[h] \in GivenUp
  BY <1>2 DEF GivenUp
<1>4. \A r \in Repos : \A g \in Helpers : owner'[r] = g => owner[r] = g
  BY SnapshotsAssumption
<1>. QED  BY <1>2, <1>3, <1>4, LocalStep

LEMMA InvStart ==
    ASSUME PublicationInv, TypeOK', JobInv', NEW h \in Helpers, Start(h)
    PROVE  PublicationInv'
<1>1. /\ pc[h] = "idle" /\ pc'[h] = "lock" /\ old'[h] = old[h]
      /\ repo'[h] \in Repos
  BY DEF Start, Goto, workVars, PublicationInv, TypeOK, PushTypeOK
<1>2. \A g \in Helpers \ {h} : SameHelper(g)
  BY DEF Start, Goto, workVars, SameHelper, PublicationInv, TypeOK, PushTypeOK
<1>3. SamePointers /\ UNCHANGED <<manifests, lateCommits, lateManifests, lateDeletes, owner>>
  BY DEF Start, itemVars, lateVars, SamePointers
<1>4. Unpublished(h) /\ old[h] = None
  BY <1>1 DEF PublicationInv, HelperInv, OwnKeys, BeforeCommit
<1>5. HelperInv(h)'
  <2>1. "lock" \notin Leased /\ "idle" \notin GivenUp
    BY DEF Leased, GivenUp
  <2>. QED  BY <1>1, <1>3, <1>4, <2>1, SamePublished DEF HelperInv, OwnKeys, Candidate,
            FreshUnderLease, Forward
<1>6. pc[h] \notin GivenUp
  BY <1>1 DEF GivenUp
<1>. QED  BY <1>2, <1>3, <1>5, <1>6, LocalStep, LateDeletesKept

\* Lock reads the pointer in the very request that takes the lease.
LEMMA InvLock ==
    ASSUME PublicationInv, TypeOK', JobInv', NEW h \in Helpers, Lock(h)
    PROVE  PublicationInv'
<1>1. pc[h] = "lock" /\ repo[h] \in Repos
  BY DEF Lock, PublicationInv, JobInv
<1>2. /\ old'[h] = pointer[repo[h]] /\ UNCHANGED <<repo, wants, tip>>
      /\ pc'[h] = IF branch[repo[h]] \in {None, wants[h]} THEN "read" ELSE "abandon"
  BY DEF Lock, Goto, jobVars, PublicationInv, TypeOK, PushTypeOK
<1>3. \A g \in Helpers \ {h} : SameHelper(g)
  BY DEF Lock, Goto, jobVars, SameHelper, PublicationInv, TypeOK, PushTypeOK
<1>4. SamePointers /\ UNCHANGED <<manifests, lateCommits, lateManifests, lateDeletes>>
  BY DEF Lock, s3Vars, lateVars, SamePointers
<1>5. \A r \in Repos : \A g \in Helpers : owner'[r] = g => owner[r] = g \/ g = h
  BY <1>1 DEF Lock, PublicationInv, TypeOK, RemoteTypeOK
<1>6. pc[h] \notin GivenUp
  BY <1>1 DEF GivenUp
<1>7. OwnKeys(h)'
  <2>1. Unpublished(h)
    BY <1>1 DEF PublicationInv, HelperInv, OwnKeys, BeforeCommit
  <2>2. pointer[repo[h]] # None => pointer[repo[h]] \in Keys(repo[h])
    BY <1>1 DEF PublicationInv, KeyInv
  <2>. QED  BY <1>1, <1>2, <1>4, <2>1, <2>2, SamePublished DEF OwnKeys
<1>8. Candidate(h)'
  BY <1>2 DEF Candidate
<1>9. FreshUnderLease(h)'
  <2>1. pc'[h] \notin Resolved /\ "abandon" \notin Leased
    BY <1>2 DEF Resolved, Leased
  <2>. QED  BY <1>2, <1>4, <2>1 DEF FreshUnderLease, SamePointers
<1>10. Forward(h)'
  <2>1. pointer[repo[h]] # None /\ Exists(pointer[repo[h]]) =>
           manifests[pointer[repo[h]]].tip \in Commits
    BY <1>1 DEF PublicationInv, TypeOK, RemoteTypeOK, Manifests, Exists
  <2>2. pc'[h] \notin {"finish", "delete", "ok", "noop"}
    BY <1>2
  <2>. QED  BY <1>2, <1>4, <2>1, <2>2, HistoryAssumption DEF Forward, SamePointers, Exists,
            NoManifest, gitBranchContains
<1>11. HelperInv(h)'
  BY <1>7, <1>8, <1>9, <1>10 DEF HelperInv
<1>. QED  BY <1>3, <1>4, <1>5, <1>6, <1>11, LocalStep, LateDeletesKept

\* The fast-forward check, made once, against the snapshot the lease protects.
LEMMA InvRead ==
    ASSUME PublicationInv, TypeOK', JobInv', NEW h \in Helpers, Read(h)
    PROVE  PublicationInv'
<1>1. pc[h] = "read" /\ repo[h] \in Repos /\ UNCHANGED <<repo, wants, old>>
  BY DEF Read, PublicationInv, JobInv
<1>2. PubSame
  BY DEF Read, PubSame, remoteVars, itemVars, s3Vars, lateVars
<1>3. PICK t \in Commits :
        /\ tip' = [tip EXCEPT ![h] = t]
        /\ Goto(h, CASE ~Pushable(h, t) -> "abandon"
                     [] Pushable(h, t) /\ UpToDate(h, t) -> "finish"
                     [] Pushable(h, t) /\ ~UpToDate(h, t) ->
                          IF old[h] = None THEN "adoptList"
                          ELSE IF manifests[old[h]].legacy THEN "validate"
                          ELSE "list")
  BY DEF Read
<1>4. tip'[h] = t /\ \A g \in Helpers \ {h} : tip'[g] = tip[g] /\ pc'[g] = pc[g]
  BY <1>3 DEF Goto, PublicationInv, TypeOK, PushTypeOK
<1>5. \/ pc'[h] = "abandon"
      \/ pc'[h] = "finish" /\ UpToDate(h, t)
      \/ pc'[h] \in {"adoptList", "validate", "list"} /\ Pushable(h, t)
  <2>1. \/ Goto(h, "abandon")
        \/ Goto(h, "finish") /\ UpToDate(h, t)
        \/ /\ Pushable(h, t)
           /\ Goto(h, "adoptList") \/ Goto(h, "validate") \/ Goto(h, "list")
    BY <1>3
  <2>. QED  BY <2>1 DEF Goto, PublicationInv, TypeOK, PushTypeOK
<1>6. \A g \in Helpers \ {h} : SameHelper(g)
  BY <1>1, <1>4 DEF SameHelper
<1>7. HelperInv(h) /\ SamePointers
  BY <1>2 DEF PublicationInv, PubSame, SamePointers
<1>8. OwnKeys(h)'
  <2>1. pc[h] \in BeforeCommit
    BY <1>1 DEF BeforeCommit, Leased
  <2>. QED  BY <1>1, <1>5, <1>7, <2>1, SamePublished DEF HelperInv, OwnKeys
<1>9. Candidate(h)'
  BY <1>5 DEF Candidate
<1>10. FreshUnderLease(h)'
  <2>1. pc'[h] \in Leased => Pushable(h, t)
    BY <1>5 DEF Leased
  <2>2. pc[h] \in Leased
    BY <1>1 DEF Leased
  <2>. QED  BY <1>1, <1>2, <1>4, <1>7, <2>1, <2>2 DEF HelperInv, FreshUnderLease, PubSame,
            Pushable, gitBranchContains
<1>11. Forward(h)'
  <2>1. pc'[h] = "finish" =>
           old[h] # None /\ Exists(old[h]) /\ manifests[old[h]].tip = t
    BY <1>5 DEF UpToDate, Read, Readable
  <2>2. pc[h] \in Leased /\ pc'[h] \notin {"delete", "ok", "noop"}
    BY <1>1, <1>5 DEF Leased
  <2>. QED  BY <1>1, <1>2, <1>4, <1>7, <2>1, <2>2 DEF HelperInv, Forward, PubSame, Exists,
            NoManifest, gitBranchContains
<1>12. HelperInv(h)'
  BY <1>8, <1>9, <1>10, <1>11 DEF HelperInv
<1>13. pc[h] \notin GivenUp
  BY <1>1 DEF GivenUp
<1>14. UNCHANGED <<manifests, lateCommits, lateManifests, lateDeletes, owner>>
  BY <1>2 DEF PubSame
<1>. QED  BY <1>6, <1>7, <1>12, <1>13, <1>14, LocalStep, LateDeletesKept

\* Everything between the read and the manifest, and every way to give up.
LEMMA InvWalk ==
    ASSUME PublicationInv, TypeOK', JobInv', NEW h \in Helpers,
           \/ ReadMissing(h) \/ ValidateLegacy(h) \/ namespaceManifests(h) \/ Adopt(h)
           \/ AdoptDone(h) \/ listPushBundles(h) \/ inspectPushPrefix(h) \/ Reuse(h)
           \/ splitRange(h) \/ Upload(h) \/ UploadUnknown(h) \/ Record(h)
           \/ CommitRejected(h) \/ LeaseLost(h)
    PROVE  PublicationInv'
<1>1. /\ PubSame /\ UNCHANGED <<jobVars, old>>
      /\ pc[h] \in Leased
  BY DEF ReadMissing, ValidateLegacy, namespaceManifests, Adopt, AdoptDone, listPushBundles,
     inspectPushPrefix, Reuse, splitRange, Upload, UploadUnknown, Record, CommitRejected,
     LeaseLost, PubSame, remoteVars, itemVars, s3Vars, lateVars, workVars, Leased
<1>2. \/ \E s \in {"abandon", "broken"} : Goto(h, s)
      \/ /\ pc[h] # "read"
         /\ \E s \in {"adopt", "list", "resume", "build", "record", "manifest"} : Goto(h, s)
  <2>1. CASE ReadMissing(h) \/ UploadUnknown(h) \/ CommitRejected(h) \/ LeaseLost(h)
    BY <2>1 DEF ReadMissing, UploadUnknown, CommitRejected, LeaseLost
  <2>2. CASE ValidateLegacy(h) \/ namespaceManifests(h) \/ AdoptDone(h)
    BY <2>2 DEF ValidateLegacy, namespaceManifests, AdoptDone, AfterBase
  <2>3. CASE Adopt(h)
    BY <2>3 DEF Adopt, Goto, PublicationInv, TypeOK, PushTypeOK
  <2>4. CASE listPushBundles(h) \/ Upload(h)
    BY <2>4 DEF listPushBundles, Upload
  <2>5. CASE inspectPushPrefix(h)
    BY <2>5 DEF inspectPushPrefix, AfterRanges
  <2>6. CASE Reuse(h) \/ Record(h)
    BY <2>6 DEF Reuse, Record, RecordRef, AfterRanges
  <2>7. CASE splitRange(h)
    BY <2>7 DEF splitRange, Goto, PublicationInv, TypeOK, PushTypeOK
  <2>. QED  BY <2>1, <2>2, <2>3, <2>4, <2>5, <2>6, <2>7
<1>3. PICK s : /\ Goto(h, s)
               /\ s \in (Leased \ {"read", "commit"}) \cup {"abandon", "broken"}
               /\ s \in Leased => pc[h] # "read"
  BY <1>2 DEF Leased
<1>4. s \in Leased => pc[h] \in Resolved
  BY <1>1, <1>3 DEF Resolved
<1>. QED  BY <1>1, <1>3, <1>4, WalkStep

\* Invocations that end without publishing.
LEMMA InvEnd ==
    ASSUME PublicationInv, TypeOK', JobInv', NEW h \in Helpers,
           \/ LockHeld(h) \/ Release(h) \/ ReleaseFails(h) \/ Crash(h) \/ Abort(h)
           \/ DeleteUnknown(h)
    PROVE  PublicationInv'
<1>1. CASE Abort(h) /\ pc[h] \in Leased
  <2>1. Goto(h, "abandon") /\ UNCHANGED <<jobVars, old>>
    BY <1>1 DEF Abort, workVars, Leased
  <2>2. PubSame
    BY <1>1 DEF Abort, PubSame, remoteVars, itemVars, s3Vars, lateVars
  <2>3. "abandon" \notin Leased
    BY DEF Leased
  <2>. QED  BY <1>1, <2>1, <2>2, <2>3, WalkStep
<1>2. CASE ~(Abort(h) /\ pc[h] \in Leased)
  <2>1. PICK outcome \in Ended :
           /\ Exit(h, outcome)
           /\ outcome # "failed" => pc[h] \in {"finish", "delete"}
    BY <1>2 DEF LockHeld, Release, ReleaseFails, Crash, Abort, DeleteUnknown, Outcome, Ended
  <2>2. SamePointers /\ UNCHANGED <<manifests, lateCommits, lateManifests>>
    BY DEF LockHeld, Release, ReleaseFails, Crash, Abort, DeleteUnknown, ReleaseItem,
       SamePointers, remoteVars, itemVars, s3Vars, lateVars
  <2>3. \A r \in Repos : owner'[r] \in {owner[r], None}
    BY DEF LockHeld, Release, ReleaseFails, Crash, Abort, DeleteUnknown, ReleaseItem,
       remoteVars, itemVars, PublicationInv, TypeOK, RemoteTypeOK
  <2>4. \A k \in lateDeletes' : Superseded(k)
    <3>1. CASE UNCHANGED lateDeletes
      BY <3>1, LateDeletesKept
    <3>2. CASE DeleteUnknown(h)
      <4>1. pc[h] = "delete" /\ repo[h] \in Repos /\ old[h] # None
        BY <3>2 DEF DeleteUnknown, PublicationInv, JobInv
      <4>2. Superseded(old[h])
        BY <4>1 DEF PublicationInv, HelperInv, OwnKeys, Superseded
      <4>. QED  BY <3>2, <4>2 DEF DeleteUnknown, PublicationInv, LateInv
    <3>. QED  BY <3>1, <3>2 DEF LockHeld, Release, ReleaseFails, Crash, Abort, remoteVars,
              lateVars
  <2>. QED  BY <2>1, <2>2, <2>3, <2>4, EndStep
<1>. QED  BY <1>1, <1>2

\* The superseded manifest goes; whoever read it under a lost lease is told.
LEMMA InvDelete ==
    ASSUME PublicationInv, TypeOK', JobInv', NEW h \in Helpers, DeleteOld(h)
    PROVE  PublicationInv'
<1>1. pc[h] = "delete" /\ repo[h] \in Repos /\ old[h] # None /\ old[h] \in ManifestKeys
  BY DEF DeleteOld, PublicationInv, JobInv, TypeOK, PushTypeOK
<1>2. Superseded(old[h])
  BY <1>1 DEF PublicationInv, HelperInv, OwnKeys, Superseded
<1>3. /\ manifests'[old[h]] = NoManifest
      /\ \A k \in ManifestKeys : k # old[h] => manifests'[k] = manifests[k]
  BY <1>1 DEF DeleteOld, PublicationInv, TypeOK, RemoteTypeOK
<1>4. SafeStore /\ SamePointers
  BY <1>2, <1>3 DEF SafeStore, SamePointers, DeleteOld, itemVars
<1>5. UNCHANGED <<lateCommits, lateManifests, lateDeletes, owner>>
  BY DEF DeleteOld, itemVars, lateVars
<1>6. /\ HelperInv(h)' /\ pc'[h] = "ok"
      /\ \A g \in Helpers \ {h} : SameHelper(g)
  BY <1>1, <1>4, ExitInv DEF DeleteOld, Ended
<1>7. \A g \in Helpers : Unpublished(g) => manifests'[g] = manifests[g]
  BY <1>2, <1>3 DEF Unpublished, Superseded, ManifestKeys
<1>8. LateInv'
  <2>1. \A g \in Helpers : pc[g] \in GivenUp => pc'[g] \in GivenUp
    BY <1>1, <1>6 DEF SameHelper, GivenUp
  <2>2. \A c \in lateCommits' : manifests'[c.by] = manifests[c.by]
    BY <1>5, <1>7 DEF PublicationInv, LateInv, LateCommitOK, TypeOK, RemoteTypeOK
  <2>. QED  BY <1>4, <1>5, <2>1, <2>2, LateKept, LateDeletesKept
<1>9. \A g \in Helpers \ {h} : pc[g] = "commit" => manifests'[g] = manifests[g]
  BY <1>7 DEF PublicationInv, HelperInv, OwnKeys, BeforeCommit, Leased
<1>10. SafeLease({h})
  BY <1>5 DEF SafeLease
<1>. QED  BY <1>4, <1>6, <1>8, <1>9, <1>10, QuietStep

\* Storing the candidate under a key nobody has published or will rely on.
LEMMA InvManifest ==
    ASSUME PublicationInv, TypeOK', JobInv', NEW h \in Helpers, putManifest(h)
    PROVE  PublicationInv'
<1>1. /\ pc[h] = "manifest" /\ pc[h] \in Leased /\ pc[h] \in Resolved
      /\ UNCHANGED <<repo, wants, tip, old>>
  BY DEF putManifest, Leased, Resolved, jobVars, workVars
<1>2. SamePointers /\ UNCHANGED <<lateCommits, lateManifests, lateDeletes, owner>>
  BY DEF putManifest, SamePointers, itemVars, lateVars
<1>3. CASE ~validate(NewManifest(h))
  <2>1. Goto(h, "broken") /\ PubSame /\ UNCHANGED <<jobVars, old>>
    BY <1>1, <1>2, <1>3 DEF putManifest, PubSame, SamePointers, jobVars
  <2>2. "broken" \notin Leased
    BY DEF Leased
  <2>. QED  BY <1>1, <2>1, <2>2, WalkStep
<1>4. CASE validate(NewManifest(h))
  <2>1. /\ manifests'[h] = NewManifest(h)
        /\ \A k \in ManifestKeys : k # h => manifests'[k] = manifests[k]
    BY <1>4 DEF putManifest, PublicationInv, TypeOK, RemoteTypeOK, ManifestKeys
  <2>2. pc'[h] = "commit" /\ \A g \in Helpers \ {h} : SameHelper(g)
    BY <1>1, <1>4 DEF putManifest, Goto, SameHelper, PublicationInv, TypeOK, PushTypeOK
  <2>3. HelperInv(h) /\ Unpublished(h)
    BY <1>1 DEF PublicationInv, HelperInv, OwnKeys, BeforeCommit
  <2>4. SafeStore
    BY <2>1, <2>3 DEF SafeStore
  <2>5. /\ \A r \in Repos : pointer[r] # None =>
               manifests'[pointer[r]] = manifests[pointer[r]]
        /\ old[h] # None => manifests'[old[h]] = manifests[old[h]]
    <3>1. old[h] # None => old[h] \in ManifestKeys /\ old[h] # h
      BY <2>3 DEF PublicationInv, TypeOK, PushTypeOK, HelperInv, OwnKeys, Unpublished
    <3>. QED  BY <1>2, <2>1, <2>4, <3>1, PointerKept
  <2>6. OwnKeys(h)'
    BY <1>1, <1>2, <2>2, <2>3, SamePublished DEF HelperInv, OwnKeys
  <2>7. Candidate(h)'
    <3>1. /\ NewManifest(h).repo = repo[h] /\ NewManifest(h).branch = wants[h]
          /\ NewManifest(h).tip = tip[h]
      BY DEF NewManifest
    <3>2. NewManifest(h) # NoManifest
      <4>1. tip[h] # None /\ NoManifest.tip = None
        BY <1>1, SnapshotsAssumption DEF PublicationInv, JobInv, NoManifest
      <4>. QED  BY <3>1, <4>1
    <3>. QED  BY <1>1, <2>1, <3>1, <3>2 DEF Candidate, Exists, NoManifest
  <2>8. FreshUnderLease(h)'
    BY <1>1, <1>2, <2>2, <2>3, <2>5 DEF HelperInv, FreshUnderLease, SamePointers,
       gitBranchContains
  <2>9. Forward(h)'
    <3>1. repo[h] \in Repos
      BY <1>1 DEF PublicationInv, JobInv
    <3>. QED  BY <1>1, <1>2, <2>2, <2>3, <2>5, <3>1 DEF HelperInv, Forward, SamePointers,
              Exists, NoManifest, gitBranchContains
  <2>10. HelperInv(h)'
    BY <2>6, <2>7, <2>8, <2>9 DEF HelperInv
  <2>11. LateInv'
    <3>1. pc[h] \notin GivenUp
      BY <1>1 DEF GivenUp
    <3>2. \A g \in Helpers : pc[g] \in GivenUp => pc'[g] \in GivenUp
      BY <2>2, <3>1 DEF SameHelper
    <3>3. \A c \in lateCommits : c.by # h /\ c.by \in ManifestKeys
      BY <3>1 DEF PublicationInv, LateInv, LateCommitOK, TypeOK, RemoteTypeOK, ManifestKeys
    <3>. QED  BY <1>2, <2>1, <2>4, <3>2, <3>3, LateKept, LateDeletesKept
  <2>12. \A g \in Helpers \ {h} : pc[g] = "commit" => manifests'[g] = manifests[g]
    BY <2>1 DEF ManifestKeys
  <2>13. SafeLease({h})
    BY <1>2 DEF SafeLease
  <2>. QED  BY <1>2, <2>2, <2>4, <2>10, <2>11, <2>12, <2>13, QuietStep
<1>. QED  BY <1>3, <1>4

\* A helper that gives up on a request: what it leaves in flight.
LEMMA GiveUpStep ==
    ASSUME PublicationInv, TypeOK', JobInv', NEW h \in Helpers, pc[h] \in Leased,
           Goto(h, "abandon"), UNCHANGED <<jobVars, old>>,
           SamePointers, UNCHANGED <<manifests, owner>>, LateInv'
    PROVE  PublicationInv'
<1>1. pc'[h] = "abandon" /\ \A g \in Helpers \ {h} : SameHelper(g)
  BY DEF Goto, SameHelper, jobVars, PublicationInv, TypeOK, PushTypeOK
<1>2. HelperInv(h)'
  <2>1. "abandon" \notin Leased \cup BeforeCommit
    BY DEF Leased, BeforeCommit
  <2>. QED  BY <1>1, <2>1, SamePublished DEF PublicationInv, HelperInv, OwnKeys, Candidate,
            FreshUnderLease, Forward, jobVars
<1>3. SafeLease({h}) /\ SafeStore
  BY SameStore DEF SafeLease
<1>. QED  BY <1>1, <1>2, <1>3, QuietStep

\* A manifest request of unknown outcome.
LEMMA InvManifestUnknown ==
    ASSUME PublicationInv, TypeOK', JobInv', NEW h \in Helpers, putManifestUnknown(h)
    PROVE  PublicationInv'
<1>1. /\ pc[h] = "manifest" /\ pc[h] \in Leased /\ UNCHANGED <<jobVars, old>>
      /\ Goto(h, "abandon")
      /\ SamePointers /\ UNCHANGED <<manifests, owner, lateCommits, lateDeletes>>
      /\ lateManifests' = lateManifests \cup {[by |-> h, body |-> NewManifest(h)]}
  BY DEF putManifestUnknown, Leased, workVars, SamePointers, itemVars, s3Vars
<1>2. pc'[h] = "abandon" /\ \A g \in Helpers \ {h} : pc'[g] = pc[g]
  BY <1>1 DEF Goto, PublicationInv, TypeOK, PushTypeOK
<1>3. \A c \in lateCommits : c.by \in Helpers \ {h} /\ LateCommitOK(c)
  BY <1>1 DEF PublicationInv, LateInv, LateCommitOK, GivenUp, TypeOK, RemoteTypeOK
<1>4. \A c \in lateCommits : LateCommitOK(c)'
  BY <1>1, <1>2, <1>3, SamePublished DEF LateCommitOK, SamePointers, Exists, NoManifest,
     gitBranchContains
<1>5. ASSUME NEW m \in lateManifests' PROVE LateManifestOK(m)'
  <2>1. CASE m \in lateManifests
    BY <1>1, <1>2, <2>1, SamePublished DEF PublicationInv, LateInv, LateManifestOK, GivenUp, TypeOK,
       RemoteTypeOK
  <2>2. CASE m.by = h
    <3>1. Unpublished(h)
      BY <1>1 DEF PublicationInv, HelperInv, OwnKeys, BeforeCommit
    <3>. QED  BY <1>1, <1>2, <1>3, <2>2, <3>1, SamePublished DEF LateManifestOK, GivenUp
  <2>. QED  BY <1>1, <1>5, <2>1, <2>2
<1>6. LateInv'
  BY <1>1, <1>4, <1>5, SamePublished DEF PublicationInv, LateInv
<1>. QED  BY <1>1, <1>6, GiveUpStep

\* A commit of unknown outcome: the candidate stays for it to publish.
LEMMA InvCommitUnknown ==
    ASSUME PublicationInv, TypeOK', JobInv', NEW h \in Helpers, CommitUnknown(h)
    PROVE  PublicationInv'
<1>. DEFINE late == [by |-> h, repo |-> repo[h], branch |-> wants[h]]
<1>1. /\ pc[h] = "commit" /\ pc[h] \in Leased /\ UNCHANGED <<jobVars, old>>
      /\ Goto(h, "abandon")
      /\ SamePointers /\ UNCHANGED <<manifests, owner, lateManifests, lateDeletes>>
      /\ lateCommits' = lateCommits \cup {late}
  BY DEF CommitUnknown, Leased, workVars, SamePointers, itemVars, s3Vars
<1>2. pc'[h] = "abandon" /\ \A g \in Helpers \ {h} : pc'[g] = pc[g]
  BY <1>1 DEF Goto, PublicationInv, TypeOK, PushTypeOK
<1>3. \A c \in lateCommits : c.by \in Helpers \ {h} /\ LateCommitOK(c)
  BY <1>1 DEF PublicationInv, LateInv, LateCommitOK, GivenUp, TypeOK, RemoteTypeOK
<1>4. \A m \in lateManifests : m.by \in Helpers \ {h} /\ LateManifestOK(m)
  BY <1>1 DEF PublicationInv, LateInv, LateManifestOK, GivenUp, TypeOK, RemoteTypeOK
<1>5. \A c \in lateCommits : LateCommitOK(c)'
  BY <1>1, <1>2, <1>3, SamePublished DEF LateCommitOK, SamePointers, Exists, NoManifest,
     gitBranchContains
<1>6. LateCommitOK(late)'
  <2>1. HelperInv(h) /\ Unpublished(h)
    BY <1>1 DEF PublicationInv, HelperInv, OwnKeys, BeforeCommit
  <2>2. pc[h] \in Resolved
    BY <1>1 DEF Resolved, Leased
  <2>3. owner[repo[h]] = h =>
          /\ branch[repo[h]] \in {None, wants[h]}
          /\ pointer[repo[h]] # None =>
                gitBranchContains(manifests[h].tip, manifests[pointer[repo[h]]].tip)
    BY <1>1, <2>1, <2>2 DEF HelperInv, FreshUnderLease, Candidate
  <2>4. Exists(h) /\ manifests[h].repo = repo[h] /\ manifests[h].branch = wants[h]
    BY <1>1, <2>1 DEF HelperInv, Candidate
  <2>5. Unpublished(h)'
    BY <1>1, <2>1, SamePublished
  <2>6. \A d \in lateCommits' : d.by = h => d = late
    BY <1>1, <1>3
  <2>7. /\ repo'[h] = repo[h] /\ wants'[h] = wants[h]
        /\ late.by = h /\ late.repo = repo[h] /\ late.branch = wants[h]
    BY <1>1 DEF jobVars
  <2>. QED  BY <1>1, <1>2, <2>3, <2>4, <2>5, <2>6, <2>7 DEF LateCommitOK, SamePointers, Exists,
            NoManifest, gitBranchContains, GivenUp
<1>7. \A m \in lateManifests : LateManifestOK(m)'
  BY <1>1, <1>2, <1>4, SamePublished DEF LateManifestOK
<1>8. LateInv'
  <2>1. \A c \in lateCommits' : LateCommitOK(c)'
    <3>1. late' = late
      BY <1>1 DEF jobVars
    <3>. QED  BY <1>1, <1>5, <1>6, <3>1
  <2>. QED  BY <1>1, <1>7, <2>1, SamePublished DEF PublicationInv, LateInv
<1>. QED  BY <1>1, <1>8, GiveUpStep

\* Heartbeats, lapsing leases and bundles do not enter the invariant.
LEMMA InvIdle ==
    ASSUME PublicationInv, TypeOK', JobInv', PubSame, UNCHANGED <<pc, jobVars, old>>
    PROVE  PublicationInv'
<1>1. \A g \in Helpers : SameHelper(g)
  BY DEF SameHelper, jobVars
<1>2. SamePointers /\ SafeStore /\ SafeLease({})
  BY SameStore DEF PubSame, SamePointers, SafeLease
<1>3. LateInv'
  BY <1>2, LateKept, LateDeletesKept DEF PubSame
<1>4. \A g \in Helpers : pc[g] = "commit" => manifests'[g] = manifests[g]
  BY DEF PubSame
<1>. QED  BY <1>1, <1>2, <1>3, <1>4, QuietStep

\* A deletion that lands late.
LEMMA InvLandDelete ==
    ASSUME PublicationInv, TypeOK', JobInv', LandDelete, UNCHANGED <<pc, jobVars, workVars>>
    PROVE  PublicationInv'
<1>1. PICK k \in lateDeletes :
        /\ manifests' = [manifests EXCEPT ![k] = NoManifest]
        /\ lateDeletes' = lateDeletes \ {k}
  BY DEF LandDelete
<1>2. Superseded(k) /\ k \in ManifestKeys
  BY DEF PublicationInv, LateInv, TypeOK, RemoteTypeOK
<1>3. /\ manifests'[k] = NoManifest
      /\ \A j \in ManifestKeys : j # k => manifests'[j] = manifests[j]
  BY <1>1, <1>2 DEF PublicationInv, TypeOK, RemoteTypeOK
<1>4. SafeStore /\ SamePointers /\ UNCHANGED <<lateCommits, lateManifests, owner>>
  BY <1>2, <1>3 DEF SafeStore, SamePointers, LandDelete, itemVars
<1>5. \A g \in Helpers : SameHelper(g)
  BY DEF SameHelper, jobVars, workVars
<1>6. \A g \in Helpers : Unpublished(g) => manifests'[g] = manifests[g]
  BY <1>2, <1>3 DEF Unpublished, Superseded, ManifestKeys
<1>7. LateInv'
  <2>1. \A c \in lateCommits' : manifests'[c.by] = manifests[c.by]
    BY <1>4, <1>6 DEF PublicationInv, LateInv, LateCommitOK, TypeOK, RemoteTypeOK
  <2>2. \A j \in lateDeletes' : Superseded(j)
    BY <1>1 DEF PublicationInv, LateInv
  <2>. QED  BY <1>4, <2>1, <2>2, LateKept
<1>8. \A g \in Helpers : pc[g] = "commit" => manifests'[g] = manifests[g]
  BY <1>6 DEF PublicationInv, HelperInv, OwnKeys, BeforeCommit, Leased
<1>9. SafeLease({})
  BY <1>4 DEF SafeLease
<1>. QED  BY <1>4, <1>5, <1>7, <1>8, <1>9, QuietStep

\* A manifest that lands late, under the key of a helper that gave up on it.
LEMMA InvLandManifest ==
    ASSUME PublicationInv, TypeOK', JobInv', LandManifest, UNCHANGED <<pc, jobVars, workVars>>
    PROVE  PublicationInv'
<1>1. PICK m \in lateManifests :
        /\ manifests' = [manifests EXCEPT ![m.by] = m.body]
        /\ lateManifests' = lateManifests \ {m}
  BY DEF LandManifest
<1>2. LateManifestOK(m) /\ m.by \in Helpers
  BY DEF PublicationInv, LateInv, TypeOK, RemoteTypeOK
<1>3. \A j \in ManifestKeys : j # m.by => manifests'[j] = manifests[j]
  BY <1>1 DEF PublicationInv, TypeOK, RemoteTypeOK
<1>4. SamePointers /\ UNCHANGED <<lateCommits, lateDeletes, owner>>
  BY DEF SamePointers, LandManifest, itemVars
<1>5. SafeStore
  BY <1>2, <1>3 DEF SafeStore, LateManifestOK
<1>6. \A g \in Helpers : SameHelper(g)
  BY DEF SameHelper, jobVars, workVars
<1>7. LateInv'
  <2>1. \A c \in lateCommits : manifests'[c.by] = manifests[c.by]
    BY <1>2, <1>3 DEF LateManifestOK, ManifestKeys, PublicationInv, TypeOK, RemoteTypeOK
  <2>. QED  BY <1>1, <1>4, <1>5, <2>1, LateKept, LateDeletesKept
<1>8. \A g \in Helpers : pc[g] = "commit" => manifests'[g] = manifests[g]
  BY <1>2, <1>3 DEF LateManifestOK, GivenUp, ManifestKeys
<1>9. SafeLease({})
  BY <1>4 DEF SafeLease
<1>. QED  BY <1>4, <1>5, <1>6, <1>7, <1>8, <1>9, QuietStep

----------------------------------------------------------------------------
(* Moving a pointer.                                                       *)

LEMMA AppendSet ==
    ASSUME NEW S, NEW q \in Seq(S), NEW e \in S
    PROVE  ToSet(Append(q, e)) = ToSet(q) \cup {e}
<1>1. /\ DOMAIN q = 1..Len(q) /\ Len(q) \in Nat
      /\ DOMAIN Append(q, e) = 1..(Len(q) + 1)
      /\ Append(q, e)[Len(q) + 1] = e
      /\ \A i \in 1..Len(q) : Append(q, e)[i] = q[i]
  OBVIOUS
<1>2. ToSet(Append(q, e)) = {Append(q, e)[i] : i \in 1..(Len(q) + 1)}
  BY <1>1 DEF ToSet
<1>3. ToSet(q) = {q[i] : i \in 1..Len(q)}
  BY <1>1 DEF ToSet
<1>4. 1..(Len(q) + 1) = (1..Len(q)) \cup {Len(q) + 1}
  BY <1>1
<1>. QED  BY <1>1, <1>2, <1>3, <1>4

\* A request that publishes, with what the invariant says of its candidate.
Publishes(h, r, b) ==
    /\ CommitItem(h, r, b)
    /\ Unpublished(h)
    /\ Exists(h) /\ manifests[h].repo = r /\ manifests[h].branch = b
    /\ branch[r] \in {None, b}
    /\ pointer[r] # None => gitBranchContains(manifests[h].tip, manifests[pointer[r]].tip)
    /\ UNCHANGED manifests

\* The published keys grow by the helper's own, in its repository only.
LEMMA PublishKeys ==
    ASSUME PublicationInv, NEW h \in Helpers, NEW r \in Repos, NEW b \in Branches,
           Publishes(h, r, b)
    PROVE  /\ pointer'[r] = h /\ branch'[r] = b /\ owner'[r] = None
           /\ Keys(r)' = Keys(r) \cup {h}
           /\ \A s \in Repos \ {r} : /\ Keys(s)' = Keys(s) /\ pointer'[s] = pointer[s]
                                    /\ branch'[s] = branch[s] /\ owner'[s] = owner[s]
           /\ \A k : k # h => (Unpublished(k)' <=> Unpublished(k))
           /\ \A k : Superseded(k) => Superseded(k)'
<1>1. /\ pointer'[r] = h /\ branch'[r] = b /\ owner'[r] = None
      /\ published'[r] = Append(published[r], h)
      /\ published[r] \in Seq(ManifestKeys)
      /\ \A s \in Repos \ {r} : /\ published'[s] = published[s] /\ pointer'[s] = pointer[s]
                               /\ branch'[s] = branch[s] /\ owner'[s] = owner[s]
  BY DEF Publishes, CommitItem, PublicationInv, TypeOK, RemoteTypeOK
<1>2. Keys(r)' = Keys(r) \cup {h}
  BY <1>1, AppendSet DEF Keys, ManifestKeys
<1>3. \A s \in Repos \ {r} : Keys(s)' = Keys(s)
  BY <1>1 DEF Keys
<1>4. \A k : k # h => (Unpublished(k)' <=> Unpublished(k))
  BY <1>2, <1>3 DEF Unpublished
<1>5. ASSUME NEW k, Superseded(k) PROVE Superseded(k)'
  <2>1. PICK s \in Repos : k \in Keys(s) /\ pointer[s] # k
    BY <1>5 DEF Superseded
  <2>2. k # h
    BY <2>1 DEF Publishes, Unpublished
  <2>3. k \in Keys(s)' /\ pointer'[s] # k
    BY <1>1, <1>2, <1>3, <2>1, <2>2
  <2>. QED  BY <2>3 DEF Superseded
<1>. QED  BY <1>1, <1>2, <1>3, <1>4, <1>5

\* Published tips only grow: what the pointer contained, it still contains.
LEMMA PublishForward ==
    ASSUME PublicationInv, NEW h \in Helpers, NEW r \in Repos, NEW b \in Branches,
           Publishes(h, r, b), NEW s \in Repos, NEW c, pointer[s] # None,
           gitBranchContains(manifests[pointer[s]].tip, c)
    PROVE  /\ pointer'[s] # None
           /\ gitBranchContains(manifests'[pointer'[s]].tip, c)
<1>1. manifests' = manifests
  BY DEF Publishes
<1>2. CASE s # r
  BY <1>1, <1>2, PublishKeys
<1>3. CASE s = r
  <2>1. manifests[h].tip \in Commits /\ manifests[pointer[r]].tip \in Commits
    <3>1. Exists(h) /\ Exists(pointer[r]) /\ h \in ManifestKeys /\ pointer[r] \in ManifestKeys
      BY <1>3 DEF Publishes, PublicationInv, PointerResolves, TypeOK, RemoteTypeOK, ManifestKeys
    <3>. QED  BY <3>1 DEF Exists, PublicationInv, TypeOK, RemoteTypeOK, Manifests
  <2>2. gitBranchContains(manifests[h].tip, manifests[pointer[r]].tip)
    BY <1>3 DEF Publishes
  <2>3. c \in Ancestry[manifests[h].tip]
    BY <1>3, <2>1, <2>2, HistoryAssumption DEF gitBranchContains
  <2>. QED  BY <1>1, <1>3, <2>3, PublishKeys, SnapshotsAssumption DEF gitBranchContains
<1>. QED  BY <1>2, <1>3

\* A publication preserves the invariant if the publisher is accounted for
\* and no other request of the publisher is in flight.
LEMMA PublishStep ==
    ASSUME PublicationInv, TypeOK', JobInv', NEW h \in Helpers, NEW r \in Repos, NEW b \in Branches,
           Publishes(h, r, b), HelperInv(h)',
           \A g \in Helpers \ {h} : SameHelper(g),
           lateCommits' = {c \in lateCommits : c.by # h},
           \A m \in lateManifests : m.by # h,
           UNCHANGED <<lateManifests, lateDeletes>>
    PROVE  PublicationInv'
<1>0. manifests' = manifests /\ Unpublished(h) /\ None \notin Helpers
  BY SnapshotsAssumption DEF Publishes
<1>1. KeyInv'
  BY <1>0, PublishKeys DEF PublicationInv, KeyInv, Unpublished
<1>2. PointerResolves'
  <2>. SUFFICES ASSUME NEW s \in Repos, pointer'[s] # None
                PROVE  /\ manifests'[pointer'[s]] # NoManifest'
                       /\ manifests'[pointer'[s]].repo = s
                       /\ manifests'[pointer'[s]].branch = branch'[s]
    BY DEF PointerResolves, Exists
  <2>. QED  BY <1>0, PublishKeys DEF PublicationInv, PointerResolves, Exists, NoManifest, Publishes
<1>3. ASSUME NEW g \in Helpers, g # h PROVE HelperInv(g)'
  <2>0. SameHelper(g) /\ HelperInv(g)
    BY <1>3 DEF PublicationInv
  <2>1. OwnKeys(g)'
    <3>1. pc[g] \in BeforeCommit => Unpublished(g)'
      BY <1>3, <2>0, PublishKeys DEF HelperInv, OwnKeys
    <3>2. (old[g] # None => repo[g] \in Repos /\ old[g] \in Keys(repo[g]))'
      <4>1. \A s \in Repos : Keys(s) \subseteq Keys(s)'
        BY PublishKeys
      <4>. QED  BY <2>0, <4>1 DEF SameHelper, HelperInv, OwnKeys
    <3>3. pc[g] = "delete" => pointer'[repo[g]] # old[g]
      <4>. SUFFICES ASSUME pc[g] = "delete" PROVE pointer'[repo[g]] # old[g]
        OBVIOUS
      <4>1. old[g] # None /\ repo[g] \in Repos /\ old[g] \in Keys(repo[g])
            /\ pointer[repo[g]] # old[g]
        BY <2>0 DEF PublicationInv, JobInv, HelperInv, OwnKeys
      <4>2. old[g] # h
        BY <1>0, <4>1 DEF Unpublished
      <4>. QED  BY <4>1, <4>2, PublishKeys
    <3>. QED  BY <2>0, <3>1, <3>2, <3>3 DEF SameHelper, OwnKeys, HelperInv
  <2>2. Candidate(g)'
    BY <1>0, <2>0 DEF SameHelper, HelperInv, Candidate, Exists, NoManifest
  <2>3. pc[g] \notin {"idle", "failed"} => repo[g] \in Repos
    BY DEF PublicationInv, JobInv
  <2>4. FreshUnderLease(g)'
    <3>. SUFFICES ASSUME pc[g] \in Leased, owner'[repo[g]] = g
                  PROVE  /\ old[g] = pointer'[repo[g]]
                         /\ branch'[repo[g]] \in {None, wants[g]}
                         /\ pc[g] \in Resolved /\ old[g] # None =>
                               gitBranchContains(tip[g], manifests[old[g]].tip)
      BY <1>0, <2>0 DEF FreshUnderLease, SameHelper, gitBranchContains
    <3>1. repo[g] \in Repos
      BY <2>3 DEF Leased
    <3>2. repo[g] # r
      BY <1>0, PublishKeys
    <3>. QED  BY <2>0, <3>1, <3>2, PublishKeys DEF HelperInv, FreshUnderLease
  <2>5. Forward(g)'
    <3>1. pc[g] \in Leased /\ old[g] # None /\ Exists(old[g]) =>
            /\ pointer'[repo[g]] # None
            /\ gitBranchContains(manifests'[pointer'[repo[g]]].tip, manifests[old[g]].tip)
      BY <2>0, <2>3, PublishForward DEF HelperInv, Forward, Leased
    <3>2. pc[g] \in {"finish", "delete", "ok", "noop"} =>
            /\ pointer'[repo[g]] # None
            /\ gitBranchContains(manifests'[pointer'[repo[g]]].tip, tip[g])
      BY <2>0, <2>3, PublishForward DEF HelperInv, Forward
    <3>. QED  BY <1>0, <2>0, <3>1, <3>2 DEF SameHelper, Forward, Exists, NoManifest,
              gitBranchContains
  <2>. QED  BY <2>1, <2>2, <2>4, <2>5 DEF HelperInv
<1>4. ASSUME NEW c \in lateCommits' PROVE LateCommitOK(c)'
  <2>1. c \in lateCommits /\ c.by # h /\ LateCommitOK(c) /\ c.by \in Helpers /\ c.repo \in Repos
    BY <1>4 DEF PublicationInv, LateInv, TypeOK, RemoteTypeOK
  <2>2. Unpublished(c.by)' /\ pc'[c.by] \in GivenUp
    BY <2>1, PublishKeys DEF LateCommitOK, SameHelper
  <2>3. owner'[c.repo] = c.by => c.repo # r
    BY <1>0, <2>1, PublishKeys
  <2>. QED  BY <1>0, <2>1, <2>2, <2>3, PublishKeys DEF LateCommitOK, Exists, NoManifest,
            gitBranchContains
<1>5. ASSUME NEW m \in lateManifests PROVE LateManifestOK(m)'
  <2>1. LateManifestOK(m) /\ m.by # h /\ m.by \in Helpers
    BY <1>5 DEF PublicationInv, LateInv, TypeOK, RemoteTypeOK
  <2>. QED  BY <2>1, PublishKeys DEF LateManifestOK, SameHelper
<1>6. LateInv'
  BY <1>4, <1>5, PublishKeys DEF PublicationInv, LateInv
<1>. QED  BY <1>1, <1>2, <1>3, <1>6 DEF PublicationInv

LEMMA InvCommit ==
    ASSUME PublicationInv, TypeOK', JobInv', NEW h \in Helpers, Commit(h)
    PROVE  PublicationInv'
<1>. DEFINE r == repo[h]
            b == wants[h]
<1>1. /\ pc[h] = "commit" /\ pc[h] \in Leased /\ pc[h] \in Resolved
      /\ pc[h] \in BeforeCommit /\ pc[h] \notin GivenUp
      /\ owner[r] = h
  BY DEF Commit, CommitItem, Leased, Resolved, BeforeCommit, GivenUp
<1>2. r \in Repos /\ b \in Branches /\ HelperInv(h)
  BY <1>1 DEF PublicationInv, JobInv
<1>3. Publishes(h, r, b)
  BY <1>1, <1>2 DEF Commit, Publishes, HelperInv, OwnKeys, Candidate, FreshUnderLease, s3Vars
<1>4. UNCHANGED <<repo, tip>> /\ \A g \in Helpers \ {h} : SameHelper(g)
  BY DEF Commit, Exit, Goto, SameHelper, jobVars, workVars, PublicationInv, TypeOK, PushTypeOK
<1>5. \/ pc'[h] = "ok" /\ old'[h] = None
      \/ pc'[h] = "delete" /\ old'[h] = old[h] /\ old[h] # None
  BY DEF Commit, Exit, Goto, workVars, PublicationInv, TypeOK, PushTypeOK
<1>6. OwnKeys(h)'
  <2>1. pc'[h] \notin BeforeCommit
    BY <1>5 DEF BeforeCommit, Leased
  <2>2. old[h] # None => old[h] \in Keys(r) /\ old[h] # h
    BY <1>1, <1>2 DEF HelperInv, OwnKeys, Unpublished
  <2>3. (old[h] # None => repo[h] \in Repos /\ old[h] \in Keys(repo[h]))'
    <3>1. \A s \in Repos : Keys(s) \subseteq Keys(s)'
      BY <1>2, <1>3, PublishKeys
    <3>. QED  BY <1>2, <1>4, <1>5, <2>2, <3>1
  <2>4. pc'[h] = "delete" => pointer'[repo'[h]] # old'[h]
    BY <1>2, <1>3, <1>4, <1>5, <2>2, PublishKeys
  <2>. QED  BY <1>5, <2>1, <2>3, <2>4 DEF OwnKeys
<1>7. Candidate(h)' /\ FreshUnderLease(h)'
  <2>1. pc'[h] \notin Leased \cup {"commit"}
    BY <1>5 DEF Leased
  <2>. QED  BY <2>1 DEF Candidate, FreshUnderLease
<1>8. Forward(h)'
  <2>1. pc'[h] \notin Leased
    BY <1>5 DEF Leased
  <2>2. pointer'[r] = h /\ h # None /\ manifests'[h].tip = tip[h]
    BY <1>1, <1>2, <1>3, PublishKeys, SnapshotsAssumption DEF HelperInv, Candidate, Publishes
  <2>3. tip[h] \in Ancestry[tip[h]]
    BY <1>1, HistoryAssumption DEF PublicationInv, JobInv
  <2>. QED  BY <1>4, <2>1, <2>2, <2>3 DEF Forward, gitBranchContains
<1>9. HelperInv(h)'
  BY <1>6, <1>7, <1>8 DEF HelperInv
<1>10. /\ \A c \in lateCommits : c.by # h
       /\ \A m \in lateManifests : m.by # h
  BY <1>1 DEF PublicationInv, LateInv, LateCommitOK, LateManifestOK
<1>11. UNCHANGED lateVars
  BY DEF Commit
<1>. HIDE DEF r, b
<1>. QED  BY <1>2, <1>3, <1>4, <1>9, <1>10, <1>11, PublishStep DEF lateVars

\* A commit that lands late, its helper long gone.
LEMMA InvLandCommit ==
    ASSUME PublicationInv, TypeOK', JobInv', LandCommit, UNCHANGED <<pc, jobVars, workVars>>
    PROVE  PublicationInv'
<1>1. PICK c \in lateCommits :
        CommitItem(c.by, c.repo, c.branch) /\ lateCommits' = lateCommits \ {c}
  BY DEF LandCommit
<1>2. LateCommitOK(c) /\ c.by \in Helpers /\ c.repo \in Repos /\ c.branch \in Branches
  BY DEF PublicationInv, LateInv, TypeOK, RemoteTypeOK
<1>. DEFINE h == c.by
<1>3. Publishes(h, c.repo, c.branch)
  BY <1>1, <1>2 DEF LandCommit, Publishes, LateCommitOK, CommitItem, s3Vars
<1>4. \A g \in Helpers : SameHelper(g)
  BY DEF SameHelper, jobVars, workVars
<1>5. HelperInv(h)'
  <2>1. HelperInv(h) /\ pc[h] \in GivenUp
    BY <1>2 DEF PublicationInv, LateCommitOK
  <2>2. pc[h] \notin BeforeCommit \cup Leased \cup {"delete", "commit", "finish", "ok", "noop"}
    BY <2>1 DEF GivenUp, BeforeCommit, Leased
  <2>3. pc[h] \notin {"idle", "lock"}
    BY <2>1 DEF GivenUp
  <2>4. UNCHANGED <<pc, repo, old>>
    BY DEF jobVars, workVars
  <2>5. (old[h] # None => repo[h] \in Repos /\ old[h] \in Keys(repo[h]))'
    <3>1. \A s \in Repos : Keys(s) \subseteq Keys(s)'
      BY <1>2, <1>3, PublishKeys
    <3>2. h' = h
      OBVIOUS
    <3>. QED  BY <2>1, <2>4, <3>1, <3>2 DEF HelperInv, OwnKeys
  <2>6. OwnKeys(h)'
    BY <2>2, <2>3, <2>4, <2>5 DEF OwnKeys
  <2>. QED  BY <2>2, <2>4, <2>6 DEF HelperInv, Candidate, FreshUnderLease, Forward
<1>6. \A d \in lateCommits : d.by = h <=> d = c
  BY <1>2 DEF LateCommitOK
<1>7. /\ lateCommits' = {d \in lateCommits : d.by # h}
      /\ UNCHANGED <<lateManifests, lateDeletes>>
      /\ \A m \in lateManifests : m.by # h
  BY <1>1, <1>6 DEF LandCommit, PublicationInv, LateInv, LateManifestOK
<1>. HIDE DEF h
<1>8. h \in Helpers /\ \A g \in Helpers \ {h} : SameHelper(g)
  BY <1>2, <1>4 DEF h
<1>. QED  BY <1>2, <1>3, <1>5, <1>7, <1>8, PublishStep

----------------------------------------------------------------------------
(* The invariant is inductive.                                             *)

LEMMA InvInit == Init => PublicationInv
<1>. SUFFICES ASSUME Init PROVE PublicationInv
  OBVIOUS
<1>1. TypeOK /\ JobInv
  BY TypeInit
<1>2. \A r \in Repos : Keys(r) = IF r \in LegacyRepos THEN {r} ELSE {}
  BY DEF Init, Keys, ToSet
<1>3. PICK c \in [LegacyRepos -> Commits], b \in [LegacyRepos -> Branches] :
          /\ pointer = [r \in Repos |-> IF r \in LegacyRepos THEN r ELSE None]
          /\ branch = [r \in Repos |-> IF r \in LegacyRepos THEN b[r] ELSE None]
          /\ manifests = [k \in ManifestKeys |->
                IF k \in LegacyRepos THEN LegacyList(k, c[k], b[k]) ELSE NoManifest]
  BY DEF Init
<1>4. KeyInv
  BY <1>2, <1>3 DEF KeyInv
<1>5. LateInv
  BY DEF Init, LateInv
<1>6. PointerResolves
  <2>. SUFFICES ASSUME NEW r \in Repos, pointer[r] # None
                PROVE  /\ manifests[pointer[r]] # NoManifest
                       /\ manifests[pointer[r]].repo = r
                       /\ manifests[pointer[r]].branch = branch[r]
    BY DEF PointerResolves, Exists
  <2>1. r \in LegacyRepos /\ pointer[r] = r /\ branch[r] = b[r] /\ r \in ManifestKeys
    BY <1>3 DEF ManifestKeys
  <2>2. manifests[r] = LegacyList(r, c[r], b[r])
    BY <1>3, <2>1
  <2>3. /\ LegacyList(r, c[r], b[r]).repo = r /\ LegacyList(r, c[r], b[r]).branch = b[r]
        /\ LegacyList(r, c[r], b[r]).tip = c[r]
    BY DEF LegacyList
  <2>4. c[r] # None /\ NoManifest.tip = None
    BY <2>1, SnapshotsAssumption DEF NoManifest
  <2>5. LegacyList(r, c[r], b[r]) # NoManifest
    BY <2>3, <2>4
  <2>. QED  BY <2>1, <2>2, <2>3, <2>5
<1>7. ASSUME NEW h \in Helpers PROVE HelperInv(h)
  <2>1. pc[h] = "idle" /\ old[h] = None
    BY DEF Init
  <2>2. Unpublished(h)
    BY <1>2, SnapshotsAssumption DEF Unpublished
  <2>. QED  BY <2>1, <2>2 DEF HelperInv, OwnKeys, Candidate, FreshUnderLease, Forward, Leased
<1>. QED  BY <1>1, <1>4, <1>5, <1>6, <1>7 DEF PublicationInv

LEMMA InvNext == PublicationInv /\ [PushNext]_vars => PublicationInv'
<1>. SUFFICES ASSUME PublicationInv, [PushNext]_vars PROVE PublicationInv'
  OBVIOUS
<1>1. TypeOK' /\ JobInv'
  BY TypeNext DEF PublicationInv
<1>2. CASE UNCHANGED vars
  BY <1>1, <1>2, InvIdle DEF vars, remoteVars, itemVars, s3Vars, lateVars, workVars, PubSame
<1>3. ASSUME NEW h \in Helpers, Start(h) \/ Step(h) \/ Fault(h) PROVE PublicationInv'
  <2>1. CASE Renew(h)
    BY <1>1, <2>1, InvIdle DEF Renew, s3Vars, lateVars, workVars, PubSame
  <2>. QED  BY <1>1, <1>3, <2>1, InvStart, InvLock, InvRead, InvWalk, InvEnd, InvDelete,
            InvManifest, InvManifestUnknown, InvCommitUnknown, InvCommit DEF Step, Fault
<1>4. CASE \E r \in Repos : Lapse(r)
  BY <1>1, <1>4, InvIdle DEF Lapse, s3Vars, lateVars, workVars, PubSame
<1>5. CASE Land /\ UNCHANGED <<pc, jobVars, workVars>>
  <2>1. CASE LandBundle
    BY <1>1, <1>5, <2>1, InvIdle DEF LandBundle, itemVars, workVars, PubSame
  <2>. QED  BY <1>1, <1>5, <2>1, InvLandCommit, InvLandDelete, InvLandManifest DEF Land
<1>. QED  BY <1>2, <1>3, <1>4, <1>5 DEF PushNext

(***************************************************************************)
(* PublicationInv holds of every behaviour, under every combination of     *)
(* faults (Lock, Commit and DeleteObject of push()).                       *)
(***************************************************************************)
THEOREM PublicationInvariance == Spec => []PublicationInv
BY InvInit, InvNext, PTL DEF Spec

(***************************************************************************)
(* A published pointer always resolves, whatever fails (lease.Commit, then *)
(* DeleteObject of oldBundlesS3Key).                                       *)
(***************************************************************************)
THEOREM PointersResolve == Spec => []PointerResolves
<1>1. PublicationInv => PointerResolves
  BY DEF PublicationInv
<1>. QED  BY <1>1, PublicationInvariance, PTL

(***************************************************************************)
(* Commits reported as pushed stay published ("ok" and the up-to-date      *)
(* answer of push()).                                                      *)
(***************************************************************************)
THEOREM NothingLost == Spec => []NoLostPush
<1>1. PublicationInv => NoLostPush
  BY DEF PublicationInv, HelperInv, Forward, NoLostPush, Acknowledged, PublishedTip
<1>. QED  BY <1>1, PublicationInvariance, PTL

----------------------------------------------------------------------------
(* Push implements PublishedBranch: a step that moves no pointer keeps     *)
(* every head, and the two that move one advance a head.                   *)

Reported == {"ok", "noop"}

Heads == [r \in Repos |-> PublishedTip(r)]
Acks == [r \in Repos |-> Acknowledged(r)]

LEMMA AbstractHeads ==
    UNCHANGED Abstract!vars <=> UNCHANGED <<Heads, Acks>>
BY DEF Abstract!vars, Heads, Acks

LEMMA PublishedTipType ==
    ASSUME PublicationInv, NEW r \in Repos
    PROVE  /\ PublishedTip(r) \in Commits \cup {Zero}
           /\ pointer[r] # None => PublishedTip(r) \in Commits /\ PublishedTip(r) # Zero
<1>1. CASE pointer[r] # None
  <2>1. Exists(pointer[r]) /\ pointer[r] \in ManifestKeys
    BY <1>1 DEF PublicationInv, PointerResolves, TypeOK, RemoteTypeOK
  <2>2. manifests[pointer[r]].tip \in Commits
    BY <2>1 DEF Exists, PublicationInv, TypeOK, RemoteTypeOK, Manifests
  <2>. QED  BY <1>1, <2>2, HistoryAssumption DEF PublishedTip
<1>2. CASE pointer[r] = None
  BY <1>2 DEF PublishedTip
<1>. QED  BY <1>1, <1>2

LEMMA HeadsKept ==
    ASSUME PublicationInv, SamePointers, SafeStore
    PROVE  Heads' = Heads
<1>1. ASSUME NEW r \in Repos PROVE PublishedTip(r)' = PublishedTip(r)
  BY <1>1, PointerKept DEF PublishedTip, SamePointers
<1>. QED  BY <1>1 DEF Heads

\* Acknowledgements change only when a helper begins to report one.
Unreported ==
    \A g \in Helpers : \/ SameHelper(g)
                       \/ pc[g] \notin Reported /\ pc'[g] \notin Reported

LEMMA AcksKept ==
    ASSUME Unreported
    PROVE  Acks' = Acks
<1>1. ASSUME NEW r \in Repos PROVE Acknowledged(r)' = Acknowledged(r)
  <2>1. Acknowledged(r)' = {tip'[h] : h \in {g \in Helpers : pc'[g] \in Reported /\ repo'[g] = r}}
    BY DEF Acknowledged, Reported
  <2>2. Acknowledged(r) = {tip[h] : h \in {g \in Helpers : pc[g] \in Reported /\ repo[g] = r}}
    BY DEF Acknowledged, Reported
  <2>. QED  BY <2>1, <2>2 DEF SameHelper, Unreported
<1>. QED  BY <1>1 DEF Acks

LEMMA AcksGrow ==
    ASSUME NEW h \in Helpers, \A g \in Helpers \ {h} : SameHelper(g),
           pc[h] \notin Reported, pc'[h] \in Reported, repo[h] \in Repos,
           repo'[h] = repo[h], tip'[h] = tip[h]
    PROVE  Acks' = [Acks EXCEPT ![repo[h]] = @ \cup {tip[h]}]
<1>1. ASSUME NEW r \in Repos
      PROVE  Acknowledged(r)' = IF r = repo[h] THEN Acknowledged(r) \cup {tip[h]}
                                ELSE Acknowledged(r)
  <2>1. Acknowledged(r)' = {tip'[k] : k \in {g \in Helpers : pc'[g] \in Reported /\ repo'[g] = r}}
    BY DEF Acknowledged, Reported
  <2>2. Acknowledged(r) = {tip[k] : k \in {g \in Helpers : pc[g] \in Reported /\ repo[g] = r}}
    BY DEF Acknowledged, Reported
  <2>. QED  BY <2>1, <2>2 DEF SameHelper
<1>. QED  BY <1>1 DEF Acks

\* Nothing a user can see happens.
LEMMA Stutter ==
    ASSUME PublicationInv, SamePointers, SafeStore, Unreported
    PROVE  UNCHANGED Abstract!vars
<1>1. Heads' = Heads
  BY HeadsKept
<1>2. Acks' = Acks
  BY AcksKept
<1>. QED  BY <1>1, <1>2, AbstractHeads

\* A push is reported once its commit is published.
LEMMA AckStep ==
    ASSUME PublicationInv, TypeOK', SamePointers, SafeStore, NEW h \in Helpers,
           pc[h] \in {"finish", "delete"},
           NEW outcome \in Reported, Exit(h, outcome)
    PROVE  Abstract!Next
<1>1. repo[h] \in Repos /\ tip[h] \in Commits
  BY DEF PublicationInv, JobInv, Resolved
<1>2. /\ pc'[h] \in Reported /\ pc[h] \notin Reported
      /\ repo'[h] = repo[h] /\ tip'[h] = tip[h]
      /\ \A g \in Helpers \ {h} : SameHelper(g)
  BY DEF Exit, Goto, SameHelper, Reported, jobVars, PublicationInv, TypeOK, PushTypeOK
<1>3. Heads' = Heads
  BY HeadsKept
<1>4. Acks' = [Acks EXCEPT ![repo[h]] = @ \cup {tip[h]}]
  BY <1>1, <1>2, AcksGrow
<1>5. PublishedTip(repo[h]) # Zero /\ tip[h] \in Ancestry[PublishedTip(repo[h])]
  BY <1>1, PublishedTipType DEF PublicationInv, HelperInv, Forward, PublishedTip, gitBranchContains
<1>6. Abstract!Acknowledge(repo[h], tip[h])
  BY <1>1, <1>3, <1>4, <1>5 DEF Abstract!Acknowledge, Abstract!Contained, Heads, Acks
<1>. QED  BY <1>1, <1>6 DEF Abstract!Next

\* A commit publishes a commit that contains the published one; its helper
\* reports it at once, later or never.
LEMMA AdvanceStep ==
    ASSUME PublicationInv, NEW h \in Helpers, NEW r \in Repos, NEW b \in Branches,
           Publishes(h, r, b),
           \/ Acks' = Acks
           \/ Acks' = [Acks EXCEPT ![r] = @ \cup {manifests[h].tip}]
    PROVE  Abstract!Next
<1>. DEFINE c == manifests[h].tip
<1>1. c \in Commits
  BY DEF Publishes, PublicationInv, TypeOK, RemoteTypeOK, Manifests, Exists, ManifestKeys
<1>2. Heads[r] = Zero \/ Abstract!Contained(Heads[r], c)
  <2>1. CASE pointer[r] = None
    BY <2>1 DEF Heads, PublishedTip
  <2>2. CASE pointer[r] # None
    BY <1>1, <2>2, HistoryAssumption DEF Heads, PublishedTip, Publishes, gitBranchContains,
       Abstract!Contained
  <2>. QED  BY <2>1, <2>2
<1>3. Heads' = [Heads EXCEPT ![r] = c]
  <2>1. /\ manifests' = manifests /\ pointer'[r] = h /\ h # None
        /\ \A s \in Repos \ {r} : pointer'[s] = pointer[s]
    BY PublishKeys, SnapshotsAssumption DEF Publishes
  <2>2. ASSUME NEW s \in Repos
        PROVE  PublishedTip(s)' = IF s = r THEN c ELSE PublishedTip(s)
    BY <2>1 DEF PublishedTip
  <2>. QED  BY <2>2 DEF Heads
<1>4. Abstract!Advance(r, c)
  BY <1>2, <1>3 DEF Abstract!Advance, Heads, Acks
<1>. QED  BY <1>1, <1>4 DEF Abstract!Next

----------------------------------------------------------------------------
(* Every step of Push is a step of the branch, or none.                    *)

LEMMA WalkStutter ==
    ASSUME PublicationInv, TypeOK', NEW h \in Helpers,
           \/ ReadMissing(h) \/ ValidateLegacy(h) \/ namespaceManifests(h) \/ Adopt(h)
           \/ AdoptDone(h) \/ listPushBundles(h) \/ inspectPushPrefix(h) \/ Reuse(h)
           \/ splitRange(h) \/ Upload(h) \/ UploadUnknown(h) \/ Record(h)
           \/ CommitRejected(h) \/ LeaseLost(h) \/ putManifestUnknown(h)
           \/ CommitUnknown(h) \/ Start(h) \/ Lock(h) \/ Read(h)
    PROVE  UNCHANGED Abstract!vars
<1>1. SamePointers /\ UNCHANGED manifests
  BY DEF ReadMissing, ValidateLegacy, namespaceManifests, Adopt, AdoptDone, listPushBundles,
     inspectPushPrefix, Reuse, splitRange, Upload, UploadUnknown, Record, CommitRejected,
     LeaseLost, putManifestUnknown, CommitUnknown, Start, Lock, Read,
     SamePointers, remoteVars, itemVars, s3Vars
<1>2. pc[h] \notin Reported /\ pc'[h] \notin Reported
  <2>1. pc[h] \notin Reported
    BY DEF ReadMissing, ValidateLegacy, namespaceManifests, Adopt, AdoptDone, listPushBundles,
       inspectPushPrefix, Reuse, splitRange, Upload, UploadUnknown, Record, CommitRejected,
       LeaseLost, putManifestUnknown, CommitUnknown, Start, Lock, Read, Leased, Reported
  <2>2. \E s \in {"abandon", "broken", "finish", "lock"} \cup Leased : pc'[h] = s
    <3>1. CASE ReadMissing(h) \/ UploadUnknown(h) \/ CommitRejected(h) \/ LeaseLost(h)
               \/ putManifestUnknown(h) \/ CommitUnknown(h) \/ Start(h) \/ Lock(h)
      BY <3>1 DEF ReadMissing, UploadUnknown, CommitRejected, LeaseLost, putManifestUnknown,
         CommitUnknown, Start, Lock, Goto, Leased, PublicationInv, TypeOK, PushTypeOK
    <3>2. CASE ValidateLegacy(h) \/ namespaceManifests(h) \/ Adopt(h) \/ AdoptDone(h)
      BY <3>2 DEF ValidateLegacy, namespaceManifests, Adopt, AdoptDone, AfterBase, Goto,
         Leased, PublicationInv, TypeOK, PushTypeOK
    <3>3. CASE listPushBundles(h) \/ inspectPushPrefix(h) \/ Upload(h)
      BY <3>3 DEF listPushBundles, inspectPushPrefix, Upload, AfterRanges, Goto, Leased,
         PublicationInv, TypeOK, PushTypeOK
    <3>4. CASE Reuse(h) \/ Record(h) \/ splitRange(h)
      BY <3>4 DEF Reuse, Record, RecordRef, splitRange, AfterRanges, Goto, Leased,
         PublicationInv, TypeOK, PushTypeOK
    <3>5. CASE Read(h)
      <4>1. \E s \in {"abandon", "finish", "adoptList", "validate", "list"} : Goto(h, s)
        BY <3>5 DEF Read
      <4>. QED  BY <4>1 DEF Goto, Leased, PublicationInv, TypeOK, PushTypeOK
    <3>. QED  BY <3>1, <3>2, <3>3, <3>4, <3>5
  <2>. QED  BY <2>1, <2>2 DEF Reported, Leased
<1>3. \A g \in Helpers \ {h} : SameHelper(g)
  <2>1. \A g \in Helpers \ {h} : pc'[g] = pc[g]
    BY DEF ReadMissing, ValidateLegacy, namespaceManifests, Adopt, AdoptDone, listPushBundles,
       inspectPushPrefix, Reuse, splitRange, Upload, UploadUnknown, Record, RecordRef,
       CommitRejected, LeaseLost, putManifestUnknown, CommitUnknown, Start, Lock, Read,
       Goto, PublicationInv, TypeOK, PushTypeOK
  <2>2. \A g \in Helpers \ {h} : /\ repo'[g] = repo[g] /\ wants'[g] = wants[g]
                                 /\ tip'[g] = tip[g] /\ old'[g] = old[g]
    BY DEF ReadMissing, ValidateLegacy, namespaceManifests, Adopt, AdoptDone, listPushBundles,
       inspectPushPrefix, Reuse, splitRange, Upload, UploadUnknown, Record,
       CommitRejected, LeaseLost, putManifestUnknown, CommitUnknown, Start, Lock, Read,
       jobVars, workVars, PublicationInv, TypeOK, PushTypeOK
  <2>. QED  BY <2>1, <2>2 DEF SameHelper
<1>4. SafeStore
  BY <1>1, SameStore
<1>. QED  BY <1>1, <1>2, <1>3, <1>4, Stutter DEF Unreported

\* Invocations that end without reporting a commit, and heartbeats.
LEMMA EndStutter ==
    ASSUME PublicationInv, TypeOK', NEW h \in Helpers,
           \/ LockHeld(h) \/ ReleaseFails(h) \/ Crash(h) \/ Abort(h) \/ DeleteUnknown(h)
           \/ Release(h) /\ pc[h] # "finish"
    PROVE  UNCHANGED Abstract!vars
<1>1. SamePointers /\ UNCHANGED manifests
  BY DEF LockHeld, Release, ReleaseFails, Crash, Abort, DeleteUnknown, ReleaseItem,
     SamePointers, remoteVars, itemVars, s3Vars
<1>2. pc[h] \notin Reported
  BY DEF LockHeld, Release, ReleaseFails, Crash, Abort, DeleteUnknown, Leased, Releasing,
     Ended, Reported
<1>3. \/ Exit(h, "failed")
      \/ Goto(h, "abandon") /\ UNCHANGED <<jobVars, workVars>>
  BY DEF LockHeld, Release, Outcome, ReleaseFails, Crash, Abort, DeleteUnknown
<1>4. /\ pc'[h] \notin Reported
      /\ \A g \in Helpers \ {h} : SameHelper(g)
  BY <1>3 DEF Exit, Goto, jobVars, workVars, SameHelper, Reported, PublicationInv, TypeOK, PushTypeOK
<1>5. SafeStore
  BY <1>1, SameStore
<1>. QED  BY <1>1, <1>2, <1>4, <1>5, Stutter DEF Unreported

\* Storing a candidate, in time or late, and every other late request but one.
LEMMA StoreStutter ==
    ASSUME PublicationInv, TypeOK',
           \/ \E h \in Helpers : putManifest(h)
           \/ /\ LandDelete \/ LandManifest \/ LandBundle
              /\ UNCHANGED <<pc, jobVars, workVars>>
    PROVE  UNCHANGED Abstract!vars
<1>1. CASE \E h \in Helpers : putManifest(h)
  <2>1. PICK h \in Helpers : putManifest(h)
    BY <1>1
  <2>2. pc[h] = "manifest" /\ pc'[h] \in {"commit", "broken"}
    BY <2>1 DEF putManifest, Goto, PublicationInv, TypeOK, PushTypeOK
  <2>3. Unpublished(h)
    BY <2>2 DEF PublicationInv, HelperInv, OwnKeys, BeforeCommit, Leased
  <2>4. SamePointers /\ SafeStore
    BY <2>1, <2>3 DEF putManifest, SamePointers, SafeStore, itemVars, PublicationInv, TypeOK,
       RemoteTypeOK
  <2>5. \A g \in Helpers \ {h} : SameHelper(g)
    BY <2>1 DEF putManifest, Goto, jobVars, workVars, SameHelper, PublicationInv, TypeOK, PushTypeOK
  <2>. QED  BY <2>2, <2>4, <2>5, Stutter DEF Reported, Unreported
<1>2. CASE /\ LandDelete \/ LandManifest \/ LandBundle
           /\ UNCHANGED <<pc, jobVars, workVars>>
  <2>1. SamePointers
    BY <1>2 DEF LandDelete, LandManifest, LandBundle, SamePointers, itemVars
  <2>2. SafeStore
    <3>1. CASE LandDelete
      BY <3>1 DEF LandDelete, SafeStore, PublicationInv, LateInv, TypeOK, RemoteTypeOK
    <3>2. CASE LandManifest
      BY <3>2 DEF LandManifest, SafeStore, PublicationInv, LateInv, LateManifestOK, TypeOK,
         RemoteTypeOK
    <3>3. CASE LandBundle
      BY <3>3 DEF LandBundle, SafeStore
    <3>. QED  BY <1>2, <3>1, <3>2, <3>3
  <2>3. \A g \in Helpers : SameHelper(g)
    BY <1>2 DEF SameHelper, jobVars, workVars
  <2>. QED  BY <2>1, <2>2, <2>3, Stutter DEF Unreported
<1>. QED  BY <1>1, <1>2

\* The pushes that report a commit they did not publish in this step.
LEMMA ReportStep ==
    ASSUME PublicationInv, TypeOK', NEW h \in Helpers,
           DeleteOld(h) \/ (Release(h) /\ pc[h] = "finish")
    PROVE  Abstract!Next
<1>1. CASE DeleteOld(h)
  <2>1. pc[h] = "delete" /\ repo[h] \in Repos /\ old[h] # None
    BY <1>1 DEF DeleteOld, PublicationInv, JobInv
  <2>2. Superseded(old[h])
    BY <2>1 DEF PublicationInv, HelperInv, OwnKeys, Superseded
  <2>3. SamePointers /\ SafeStore
    BY <1>1, <2>2 DEF DeleteOld, SamePointers, SafeStore, itemVars, PublicationInv, TypeOK,
       RemoteTypeOK
  <2>. QED  BY <1>1, <2>1, <2>3, AckStep DEF DeleteOld, Reported
<1>2. CASE Release(h) /\ pc[h] = "finish"
  <2>1. SamePointers /\ SafeStore
    BY <1>2, SameStore DEF Release, ReleaseItem, SamePointers, s3Vars
  <2>. QED  BY <1>2, <2>1, AckStep DEF Release, Outcome, Reported
<1>. QED  BY <1>1, <1>2

LEMMA CommitAdvances ==
    ASSUME PublicationInv, TypeOK', NEW h \in Helpers, Commit(h)
    PROVE  Abstract!Next
<1>1. pc[h] = "commit" /\ owner[repo[h]] = h
  BY DEF Commit, CommitItem
<1>2. repo[h] \in Repos /\ wants[h] \in Branches /\ HelperInv(h) /\ pc[h] \in Leased
      /\ pc[h] \in Resolved /\ pc[h] \in BeforeCommit
  BY <1>1 DEF PublicationInv, JobInv, Leased, Resolved, BeforeCommit
<1>3. Publishes(h, repo[h], wants[h])
  BY <1>1, <1>2 DEF Commit, Publishes, HelperInv, OwnKeys, Candidate, FreshUnderLease, s3Vars
<1>4. /\ repo'[h] = repo[h] /\ tip'[h] = tip[h]
      /\ \A g \in Helpers \ {h} : SameHelper(g)
      /\ pc'[h] \in {"ok", "delete"}
  BY DEF Commit, Exit, Goto, SameHelper, jobVars, workVars, PublicationInv, TypeOK, PushTypeOK
<1>5. manifests[h].tip = tip[h] /\ pc[h] \notin Reported
  BY <1>1, <1>2 DEF HelperInv, Candidate, Reported
<1>6. CASE pc'[h] = "ok"
  BY <1>2, <1>3, <1>4, <1>5, <1>6, AcksGrow, AdvanceStep DEF Reported
<1>7. CASE pc'[h] = "delete"
  BY <1>2, <1>3, <1>4, <1>5, <1>7, AcksKept, AdvanceStep DEF Reported, Unreported
<1>. QED  BY <1>4, <1>6, <1>7

LEMMA LandCommitAdvances ==
    ASSUME PublicationInv, TypeOK', LandCommit, UNCHANGED <<pc, jobVars, workVars>>
    PROVE  Abstract!Next
<1>1. PICK c \in lateCommits : CommitItem(c.by, c.repo, c.branch)
  BY DEF LandCommit
<1>2. LateCommitOK(c) /\ c.by \in Helpers /\ c.repo \in Repos /\ c.branch \in Branches
  BY DEF PublicationInv, LateInv, TypeOK, RemoteTypeOK
<1>3. Publishes(c.by, c.repo, c.branch)
  BY <1>1, <1>2 DEF LandCommit, Publishes, LateCommitOK, CommitItem, s3Vars
<1>4. \A g \in Helpers : SameHelper(g)
  BY DEF SameHelper, jobVars, workVars
<1>5. Acks' = Acks
  BY <1>4, AcksKept DEF Unreported
<1>. QED  BY <1>2, <1>3, <1>5, AdvanceStep

LEMMA InitRefines == Init => Abstract!Init
<1>. SUFFICES ASSUME Init PROVE Abstract!Init
  OBVIOUS
<1>1. PublicationInv
  BY InvInit
<1>2. Heads \in [Repos -> Commits \cup {Zero}]
  BY <1>1, PublishedTipType DEF Heads
<1>3. Acks = [r \in Repos |-> {}]
  BY DEF Init, Acks, Acknowledged
<1>. QED  BY <1>2, <1>3 DEF Abstract!Init, Heads, Acks

LEMMA NextRefines ==
    PublicationInv /\ PublicationInv' /\ [PushNext]_vars => [Abstract!Next]_(Abstract!vars)
<1>. SUFFICES ASSUME PublicationInv, PublicationInv', [PushNext]_vars
              PROVE  Abstract!Next \/ UNCHANGED Abstract!vars
  OBVIOUS
<1>0. TypeOK'
  BY DEF PublicationInv
<1>1. CASE UNCHANGED <<pointer, branch, published, manifests, pc, jobVars, workVars>>
  <2>1. SamePointers /\ SafeStore /\ \A g \in Helpers : SameHelper(g)
    BY <1>1, SameStore DEF SamePointers, SameHelper, jobVars, workVars
  <2>. QED  BY <2>1, Stutter DEF Unreported
<1>2. CASE UNCHANGED vars \/ \E r \in Repos : Lapse(r)
  BY <1>1, <1>2 DEF Lapse, vars, remoteVars, itemVars, s3Vars
<1>3. ASSUME NEW h \in Helpers, Start(h) \/ Step(h) \/ Fault(h)
      PROVE  Abstract!Next \/ UNCHANGED Abstract!vars
  <2>1. CASE Renew(h)
    BY <1>1, <2>1 DEF Renew, s3Vars
  <2>. QED  BY <1>0, <1>3, <2>1, WalkStutter, EndStutter, StoreStutter, ReportStep,
            CommitAdvances DEF Step, Fault
<1>4. CASE Land /\ UNCHANGED <<pc, jobVars, workVars>>
  BY <1>0, <1>4, StoreStutter, LandCommitAdvances DEF Land
<1>. QED  BY <1>2, <1>3, <1>4 DEF PushNext

(***************************************************************************)
(* The remote implements the published branch: the branch only moves       *)
(* forward, and a push is reported only once it is contained (the checks   *)
(* of push() against the conditional commit after them).                   *)
(***************************************************************************)
THEOREM Refinement == Spec => RefinesPublishedBranch
BY InitRefines, NextRefines, PublicationInvariance, PTL
   DEF Spec, RefinesPublishedBranch, Abstract!Spec

----------------------------------------------------------------------------
(* Deletion.                                                               *)

\* Nobody takes a lease before the bucket keeps versions, and nothing turns
\* that off.
VersionInv ==
    /\ \A h \in Helpers : pc[h] # "idle" => versioning
    /\ lateDeletes # {} => versioning

LEMMA VersionNext ==
    PublicationInv /\ VersionInv /\ [PushNext]_vars => VersionInv'
<1>. SUFFICES ASSUME PublicationInv, VersionInv, [PushNext]_vars PROVE VersionInv'
  OBVIOUS
<1>1. CASE UNCHANGED <<versioning, pc>> /\ lateDeletes' \subseteq lateDeletes
  BY <1>1 DEF VersionInv
<1>2. CASE UNCHANGED vars \/ \E r \in Repos : Lapse(r)
  BY <1>1, <1>2 DEF Lapse, vars, remoteVars, s3Vars, lateVars
<1>3. CASE Land /\ UNCHANGED <<pc, jobVars, workVars>>
  BY <1>1, <1>3 DEF Land, LandCommit, LandDelete, LandManifest, LandBundle, s3Vars
<1>4. ASSUME NEW h \in Helpers, Start(h) PROVE VersionInv'
  BY <1>4 DEF Start, VersionInv
<1>5. ASSUME NEW h \in Helpers, Step(h) \/ Fault(h) PROVE VersionInv'
  <2>1. pc[h] # "idle"
    BY <1>5 DEF Step, Fault, Lock, LockHeld, ReadMissing, Read, ValidateLegacy,
       namespaceManifests, Adopt, AdoptDone, listPushBundles, inspectPushPrefix, Reuse,
       splitRange, Upload, Record, putManifest, Commit, CommitRejected, DeleteOld, Release,
       UploadUnknown, putManifestUnknown, CommitUnknown, DeleteUnknown, ReleaseFails, Abort,
       LeaseLost, Renew, Crash, Leased, Releasing
  <2>2. UNCHANGED versioning
    BY <1>5 DEF Step, Fault, Lock, LockHeld, ReadMissing, Read, ValidateLegacy,
       namespaceManifests, Adopt, AdoptDone, listPushBundles, inspectPushPrefix, Reuse,
       splitRange, Upload, Record, putManifest, Commit, CommitRejected, DeleteOld, Release,
       UploadUnknown, putManifestUnknown, CommitUnknown, DeleteUnknown, ReleaseFails, Abort,
       LeaseLost, Renew, Crash, remoteVars, s3Vars
  <2>. QED  BY <2>1, <2>2 DEF VersionInv
<1>. QED  BY <1>2, <1>3, <1>4, <1>5 DEF PushNext

\* The two steps that remove a manifest name a superseded key.
LEMMA DeletionStep ==
    ASSUME PublicationInv, PublicationInv', VersionInv, [PushNext]_vars,
           NEW k \in ManifestKeys, Exists(k), ~Exists(k)'
    PROVE  versioning /\ Superseded(k)
<1>1. CASE UNCHANGED manifests
  BY <1>1 DEF Exists, NoManifest
<1>2. CASE UNCHANGED vars \/ \E r \in Repos : Lapse(r)
  BY <1>1, <1>2 DEF Lapse, vars, remoteVars, s3Vars
<1>3. CASE Land
  <2>1. CASE LandCommit \/ LandBundle
    BY <1>1, <2>1 DEF LandCommit, LandBundle, s3Vars
  <2>2. CASE LandManifest
    <3>1. PICK m \in lateManifests : manifests' = [manifests EXCEPT ![m.by] = m.body] /\ ~Exists(m.by)
      BY <2>2 DEF LandManifest
    <3>2. k # m.by
      BY <3>1
    <3>. QED  BY <1>1, <3>1, <3>2 DEF Exists, NoManifest, PublicationInv, TypeOK, RemoteTypeOK
  <2>3. CASE LandDelete
    <3>1. k \in lateDeletes
      BY <2>3 DEF LandDelete, Exists, NoManifest, PublicationInv, TypeOK, RemoteTypeOK
    <3>. QED  BY <3>1 DEF VersionInv, PublicationInv, LateInv
  <2>. QED  BY <1>3, <2>1, <2>2, <2>3 DEF Land
<1>4. ASSUME NEW h \in Helpers, Start(h) \/ Step(h) \/ Fault(h)
      PROVE  versioning /\ Superseded(k)
  <2>1. CASE putManifest(h)
    <3>1. NewManifest(h) # NoManifest
      BY <2>1, SnapshotsAssumption DEF putManifest, NewManifest, NoManifest, PublicationInv, JobInv,
         Resolved, Leased
    <3>. QED  BY <2>1, <3>1 DEF putManifest, Exists, NoManifest, PublicationInv, TypeOK, RemoteTypeOK
  <2>2. CASE DeleteOld(h)
    <3>1. pc[h] = "delete" /\ k = old[h]
      BY <2>2 DEF DeleteOld, Exists, NoManifest, PublicationInv, TypeOK, RemoteTypeOK
    <3>2. repo[h] \in Repos /\ old[h] # None
      BY <3>1 DEF PublicationInv, JobInv
    <3>. QED  BY <3>1, <3>2 DEF VersionInv, PublicationInv, HelperInv, OwnKeys, Superseded
  <2>3. CASE ~putManifest(h) /\ ~DeleteOld(h)
    <3>1. UNCHANGED manifests
      BY <1>4, <2>3 DEF Start, Step, Fault, Lock, LockHeld, ReadMissing, Read, ValidateLegacy,
         namespaceManifests, Adopt, AdoptDone, listPushBundles, inspectPushPrefix, Reuse,
         splitRange, Upload, Record, Commit, CommitRejected, Release,
         UploadUnknown, putManifestUnknown, CommitUnknown, DeleteUnknown, ReleaseFails, Abort,
         LeaseLost, Renew, Crash, remoteVars, s3Vars
    <3>. QED  BY <1>1, <3>1
  <2>. QED  BY <2>1, <2>2, <2>3
<1>. QED  BY <1>2, <1>3, <1>4 DEF PushNext

(***************************************************************************)
(* Only superseded manifests are deleted, and only from a versioned bucket *)
(* (DeleteObject of oldBundlesS3Key, ensureBucketVersioning).              *)
(***************************************************************************)
THEOREM OnlySupersededDeleted == Spec => DeletesOnlySuperseded
<1>1. Init => VersionInv
  BY DEF Init, VersionInv
<1>2. PublicationInv /\ PublicationInv' /\ VersionInv /\ [PushNext]_vars =>
        [\A k \in ManifestKeys : Exists(k) /\ ~Exists(k)' =>
            /\ versioning
            /\ \E r \in Repos : /\ k \in ToSet(published[r])
                                /\ pointer[r] # k]_vars
  BY DeletionStep DEF Superseded, Keys
<1>. QED  BY <1>1, <1>2, VersionNext, PublicationInvariance, PTL DEF Spec, DeletesOnlySuperseded
=============================================================================
