----------------------------- MODULE Snapshots ------------------------------
(***************************************************************************)
(* Bundles and manifests of one namespace (manifest.go): the keys objects  *)
(* live under, the descriptors a manifest records for them, the validity   *)
(* of a bundle chain, and what discovery and validation conclude from a    *)
(* set of stored objects.  Pure data: the state is in RemoteState.         *)
(***************************************************************************)
EXTENDS GitHistory

CONSTANTS
    Repos,      \* the repositories of the namespace
    Helpers,    \* push invocations: each is one run of push()
    Branches,   \* literal branch names
    None        \* absence: no pointer, branch, owner, ETag or push tip

ASSUME SnapshotsAssumption ==
    /\ Helpers \cap Repos = {}
    /\ Commits \cap Repos = {}
    /\ None \notin Helpers \cup Repos \cup Branches \cup Commits

(***************************************************************************)
(* putManifest draws a fresh UUID, once per push, so the push names its    *)
(* own manifest key.  A repository may also start with one legacy list,    *)
(* bundles_TIP, which the repository names.                                *)
(***************************************************************************)
ManifestKeys == Helpers \cup Repos

\* Encryption is randomised: each upload is a ciphertext of its own, and its
\* ETag is identified by who uploaded it.
ETags == Helpers \cup Repos

\* NAMESPACE/.remote-aws-v2/bundles/PUSH_TIP/BASE..END, or the legacy
\* NAMESPACE[/REPO]/BASE..END.
BundleKeys == [scope : Commits \cup Repos, base : Hashes, end : Commits]
bundleKey(tip, base, end) == [scope |-> tip, base |-> base, end |-> end]

\* A stored bundle: identity, recipients in its envelope, push-tip metadata.
Objects == [key : BundleKeys, etag : ETags, keys : SUBSET KeyIds,
            push : Commits \cup {None}]

\* bundleRef: what a manifest records.  Legacy lists know only the range.
BundleRefs == [key : BundleKeys, etag : ETags \cup {None}, keys : SUBSET KeyIds]

Manifests == [repo : Repos, branch : Branches \cup {None}, tip : Commits,
              chain : Seq(BundleRefs), legacy : BOOLEAN]
NoManifest == [tip |-> None]

ChainEnd(chain) == IF chain = <<>> THEN Zero ELSE Last(chain).key.end

(***************************************************************************)
(* manifest.validate: continuous from the zero base to the tip, no end     *)
(* seen twice, every v2 descriptor pinned to an ETag and recipients.       *)
(***************************************************************************)
Continuous(chain) ==
    /\ \A i \in DOMAIN chain :
          /\ chain[i].key.base = IF i = 1 THEN Zero ELSE chain[i-1].key.end
          /\ chain[i].key.base # chain[i].key.end
    /\ \A i, j \in DOMAIN chain : chain[i].key.end = chain[j].key.end => i = j

validate(m) ==
    /\ m.chain # <<>>
    /\ Continuous(m.chain)
    /\ ChainEnd(m.chain) = m.tip
    /\ ~m.legacy => \A i \in DOMAIN m.chain :
                        m.chain[i].etag # None /\ m.chain[i].keys # {}

\* HEAD object: the stored object under a key, as a set of at most one.
StoredAt(objects, key) == {o \in objects : o.key = key}

(***************************************************************************)
(* inspect / inspectPush: a fresh HEAD must find the object with the       *)
(* recorded ETag and, for a push's own ranges, the push tip; the envelope  *)
(* must name the expected recipients.  Unknown fields are not compared.    *)
(***************************************************************************)
Inspects(objects, ref, pushTip) ==
    \E o \in StoredAt(objects, ref.key) :
        /\ ref.etag \in {None, o.etag}
        /\ pushTip \in {None, o.push}
        /\ ref.keys \in {{}, o.keys}

\* The checked descriptor carries the identity and recipients just observed.
Checked(objects, ref) ==
    LET o == CHOOSE o \in StoredAt(objects, ref.key) : TRUE
    IN  [key |-> ref.key, etag |-> o.etag, keys |-> o.keys]

CheckedChain(objects, chain) ==
    [i \in DOMAIN chain |-> Checked(objects, chain[i])]

\* bundleValidation.chain: ancestry between consecutive ends, every object intact.
ChainInspects(objects, chain) ==
    /\ \A i \in DOMAIN chain : Inspects(objects, chain[i], None)
    /\ \A i \in 2..Len(chain) :
          gitBranchContains(chain[i].key.end, chain[i].key.base)

\* The prefixes of a chain that end before the first element Test rejects:
\* one, the result of a binary search or of a scan.
PrefixWhile(chain, Test(_)) ==
    {SubSeq(chain, 1, n) : n \in {i \in 0..Len(chain) :
                                    /\ \A j \in 1..i : Test(chain[j])
                                    /\ i < Len(chain) => ~Test(chain[i+1])}}

\* adoptBundles, for one snapshot: the part of it the pushed tip contains, and
\* of that the part encrypted to the pushed tip's recipients.
Shared(chain, tip) == PrefixWhile(chain, LAMBDA b : gitBranchContains(tip, b.key.end))
\* Mutant: the whole shared prefix is adopted, whoever can decrypt it.
CompatibleAny(chain, tip) == {chain}

Compatible(chain, tip) == PrefixWhile(chain, LAMBDA b : compatibleRecipients(b.keys, tip))

(***************************************************************************)
(* completedPushPrefix: chains of completed ranges that start at base and  *)
(* run forward along the push's boundaries; the furthest end wins, then    *)
(* the fewest bundles.  Remaining ties go to hash order, here any.         *)
(***************************************************************************)
Position(base, commits, c) ==
    IF c = base THEN 0 ELSE SelectInSeq(commits, LAMBDA d : d = c)

ForwardEdges(base, commits, completed) ==
    {r \in completed :
        /\ {r.key.base, r.key.end} \subseteq ToSet(commits) \cup {base}
        /\ Position(base, commits, r.key.base) < Position(base, commits, r.key.end)}

CompletedChains(base, commits, completed) ==
    LET edges == ForwardEdges(base, commits, completed)
    IN  {s \in BoundedSeq(edges, Cardinality(edges)) :
            \A i \in DOMAIN s :
                s[i].key.base = IF i = 1 THEN base ELSE s[i-1].key.end}

completedPushPrefix(base, commits, completed) ==
    LET chains == CompletedChains(base, commits, completed)
        End(s) == IF s = <<>> THEN 0 ELSE Position(base, commits, Last(s).key.end)
    IN  {s \in chains : \A u \in chains :
            \/ End(u) < End(s)
            \/ End(u) = End(s) /\ Len(s) <= Len(u)}
=============================================================================
