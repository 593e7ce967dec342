------------------------------- MODULE Fetch --------------------------------
(***************************************************************************)
(* The readers: list and fetch (main.go), as Git issues them one after the *)
(* other, and --recover (recovery.go).  Readers take no lease and write    *)
(* nothing; they read the item and then S3, while pushes go on.  A reader  *)
(* that stops or fails on its own affects nobody, so only what the remote  *)
(* state can do to a read is modelled.                                     *)
(***************************************************************************)
EXTENDS RemoteState

CONSTANTS
    Readers,            \* clones, pulls and recoveries
    maximumAttempts     \* readPublishedMetadata's bound

ASSUME FetchAssumption == maximumAttempts \in Nat \ {0}

VARIABLES
    rpc,        \* [Readers -> where the reader is]
    command,    \* [Readers -> "list", "fetch" or "recover"]
    from,       \* [Readers -> the repository read]
    mine,       \* [Readers -> the local branch's commit, or Zero]
    attempt,    \* [Readers -> the attempt readPublishedMetadata is at]
    seen,       \* [Readers -> the item's pointer and branch as last read]
    promised,   \* [Readers -> the tip list printed]
    since,      \* history: publications before the current command began
    target,     \* [Readers -> the tip of the manifest being fetched]
    wanted,     \* [Readers -> bundles still to download]
    have,       \* [Readers -> commits whose objects are all in the clone]
    listing     \* [Readers -> manifests a recovery listing has yet to read]

readerVars == <<rpc, command, from, mine, attempt, seen, promised, since,
                target, wanted, have, listing>>

\* How a read can end.
ReadEnds == {"empty", "fetched", "exhausted", "lostPointer", "branchChanged",
             "missingBundle", "incomplete", "gone", "scanFailed"}

FetchTypeOK ==
    /\ rpc \in [Readers -> {"idle", "meta", "manifest", "listed", "scan", "get"}
                              \cup ReadEnds]
    /\ command \in [Readers -> {"list", "fetch", "recover"}]
    /\ from \in [Readers -> Repos \cup {None}]
    /\ mine \in [Readers -> Hashes]
    /\ attempt \in [Readers -> 1..maximumAttempts]
    /\ seen \in [Readers -> [key : ManifestKeys \cup {None}, branch : Branches \cup {None}]]
    /\ promised \in [Readers -> Hashes]
    /\ since \in [Readers -> Nat]
    /\ target \in [Readers -> Hashes]
    /\ wanted \in [Readers -> Seq(BundleRefs)]
    /\ have \in [Readers -> SUBSET Commits]
    /\ listing \in [Readers -> SUBSET Helpers]

FetchInit ==
    /\ rpc = [c \in Readers |-> "idle"]
    /\ command = [c \in Readers |-> "list"]
    /\ from = [c \in Readers |-> None]
    /\ mine = [c \in Readers |-> Zero]
    /\ attempt = [c \in Readers |-> 1]
    /\ seen = [c \in Readers |-> [key |-> None, branch |-> None]]
    /\ promised = [c \in Readers |-> Zero]
    /\ since = [c \in Readers |-> 0]
    /\ target = [c \in Readers |-> Zero]
    /\ wanted = [c \in Readers |-> <<>>]
    /\ have = [c \in Readers |-> {}]
    /\ listing = [c \in Readers |-> {}]

GoRead(c, s) == rpc' = [rpc EXCEPT ![c] = s]

Reaches(tip) == IF tip = Zero THEN {} ELSE Ancestry[tip]

----------------------------------------------------------------------------
(* readPublishedMetadata.                                                  *)

List(c) ==
    /\ rpc[c] = "idle"
    /\ \E r \in Repos, t \in Hashes :
          /\ from' = [from EXCEPT ![c] = r]
          /\ mine' = [mine EXCEPT ![c] = t]
          /\ have' = [have EXCEPT ![c] = Reaches(t)]
          /\ since' = [since EXCEPT ![c] = Len(published[r])]
    /\ command' = [command EXCEPT ![c] = "list"]
    /\ GoRead(c, "meta")
    /\ UNCHANGED <<attempt, seen, promised, target, wanted, listing>>

\* Mutant: rediscovery looks for the manifest it already missed.
ReadMetaStale(c) ==
    LET key == IF attempt[c] > 1 THEN seen[c].key ELSE pointer[from[c]] IN
    /\ rpc[c] = "meta"
    /\ seen' = [seen EXCEPT ![c] = [key |-> key, branch |-> branch[from[c]]]]
    /\ GoRead(c, IF key # None THEN "manifest"
                 ELSE IF command[c] = "list" THEN "empty" ELSE "lostPointer")
    /\ UNCHANGED <<command, from, mine, attempt, promised, since, target, wanted, have, listing>>

\* A strongly consistent read of the item.  Once a pointer has been seen, by
\* an earlier attempt or by the list that led to this fetch, it must still be
\* there and the branch must be the same.
ReadMeta(c) ==
    LET key == pointer[from[c]]
        known == attempt[c] > 1 \/ command[c] = "fetch"
    IN
    /\ rpc[c] = "meta"
    /\ seen' = [seen EXCEPT ![c] = [key |-> key, branch |-> branch[from[c]]]]
    /\ GoRead(c, CASE known /\ key = None -> "lostPointer"
                   [] known /\ key # None /\ branch[from[c]] # seen[c].branch -> "branchChanged"
                   [] ~known /\ key = None -> "empty"
                   [] OTHER -> "manifest")
    /\ UNCHANGED <<command, from, mine, attempt, promised, since, target, wanted, have, listing>>

\* Only the absence of this very object permits another attempt.
ManifestMissing(c) ==
    /\ rpc[c] = "manifest"
    /\ ~Exists(seen[c].key)
    /\ IF attempt[c] = maximumAttempts
       THEN GoRead(c, "exhausted") /\ UNCHANGED attempt
       ELSE GoRead(c, "meta") /\ attempt' = [attempt EXCEPT ![c] = @ + 1]
    /\ UNCHANGED <<command, from, mine, seen, promised, since, target, wanted, have, listing>>

ListDone(c) ==
    /\ rpc[c] = "manifest"
    /\ command[c] = "list"
    /\ Exists(seen[c].key)
    /\ promised' = [promised EXCEPT ![c] = manifests[seen[c].key].tip]
    /\ GoRead(c, "listed")
    /\ UNCHANGED <<command, from, mine, attempt, seen, since, target, wanted, have, listing>>

----------------------------------------------------------------------------
(* fetch: a new discovery, then the bundles the local branch lacks.        *)

\* Git asks for the listed ref in a later command of the same session.
Fetch(c) ==
    /\ rpc[c] = "listed"
    /\ command' = [command EXCEPT ![c] = "fetch"]
    /\ attempt' = [attempt EXCEPT ![c] = 1]
    /\ since' = [since EXCEPT ![c] = Len(published[from[c]])]
    /\ GoRead(c, "meta")
    /\ UNCHANGED <<from, mine, seen, promised, target, wanted, have, listing>>

\* fetchManifest walks back from the newest bundle to one whose end the local
\* branch contains.
BundlesToFetch(bundles, local) ==
    LET known == {i \in DOMAIN bundles : bundles[i].key.end \in Reaches(local)}
        from0 == IF known = {} THEN 0 ELSE CHOOSE i \in known : \A j \in known : j <= i
    IN  SubSeq(bundles, from0 + 1, Len(bundles))

FetchManifest(c, m, local) ==
    /\ target' = [target EXCEPT ![c] = m.tip]
    /\ wanted' = [wanted EXCEPT ![c] = BundlesToFetch(m.chain, local)]
    /\ GoRead(c, "get")

FetchFound(c) ==
    /\ rpc[c] = "manifest"
    /\ command[c] = "fetch"
    /\ Exists(seen[c].key)
    /\ FetchManifest(c, manifests[seen[c].key], mine[c])
    /\ UNCHANGED <<command, from, mine, attempt, seen, promised, since, have, listing>>

\* GET pinned to the recorded ETag, then git bundle unbundle, which needs the
\* bundle's prerequisite.
GetBundle(c) ==
    LET ref == Head(wanted[c])
        intact == \E o \in StoredAt(objects, ref.key) : ref.etag \in {None, o.etag}
        ready  == ref.key.base \in have[c] \cup {Zero}
    IN
    /\ rpc[c] = "get"
    /\ wanted[c] # <<>>
    /\ IF intact /\ ready
       THEN /\ have' = [have EXCEPT ![c] = @ \cup Ancestry[ref.key.end]]
            /\ wanted' = [wanted EXCEPT ![c] = Tail(@)]
            /\ UNCHANGED rpc
       ELSE /\ GoRead(c, IF intact THEN "incomplete" ELSE "missingBundle")
            /\ UNCHANGED <<have, wanted>>
    /\ UNCHANGED <<command, from, mine, attempt, seen, promised, since, target, listing>>

\* rev-list --objects --missing=error over the selected tip.
FetchDone(c) ==
    /\ rpc[c] = "get"
    /\ wanted[c] = <<>>
    /\ GoRead(c, IF target[c] \in have[c] THEN "fetched" ELSE "incomplete")
    /\ UNCHANGED <<command, from, mine, attempt, seen, promised, since, target,
                   wanted, have, listing>>

----------------------------------------------------------------------------
(* recoverRepository: a first command lists the v2 manifests of a          *)
(* repository and reads each of them; the operator picks one, and a second *)
(* command has it fetched into a new checkout.                             *)

RecoverList(c) ==
    /\ rpc[c] = "idle"
    /\ \E r \in Repos :
          /\ from' = [from EXCEPT ![c] = r]
          /\ listing' = [listing EXCEPT ![c] =
                {k \in Helpers : Exists(k) /\ manifests[k].repo = r}]
    /\ command' = [command EXCEPT ![c] = "recover"]
    /\ GoRead(c, "scan")
    /\ UNCHANGED <<mine, attempt, seen, promised, since, target, wanted, have>>

\* One GET per listed manifest; any error, absence included, ends the
\* command.  The operator may settle on the line just printed.
RecoverScan(c) ==
    /\ rpc[c] = "scan"
    /\ \E k \in listing[c] :
          /\ listing' = [listing EXCEPT ![c] = @ \ {k}]
          /\ IF Exists(k)
             THEN \E pick \in {k, seen[c].key} :
                     /\ seen' = [seen EXCEPT ![c].key = pick]
                     /\ UNCHANGED rpc
             ELSE GoRead(c, "scanFailed") /\ UNCHANGED seen
    /\ UNCHANGED <<command, from, mine, attempt, promised, since, target, wanted, have>>

\* The second command starts from the chosen key and nothing local.
Recover(c) ==
    /\ rpc[c] = "scan"
    /\ listing[c] = {}
    /\ IF seen[c].key = None
       THEN GoRead(c, "empty") /\ UNCHANGED <<target, wanted>>
       ELSE IF Exists(seen[c].key)
       THEN FetchManifest(c, manifests[seen[c].key], Zero)
       ELSE GoRead(c, "gone") /\ UNCHANGED <<target, wanted>>
    /\ UNCHANGED <<command, from, mine, attempt, seen, promised, since, have, listing>>

----------------------------------------------------------------------------

ReadStep(c) ==
    \/ ReadMeta(c) \/ ManifestMissing(c) \/ ListDone(c) \/ Fetch(c)
    \/ FetchFound(c) \/ GetBundle(c) \/ FetchDone(c)
    \/ RecoverScan(c) \/ Recover(c)

FetchNext == \E c \in Readers : List(c) \/ RecoverList(c) \/ ReadStep(c)
=============================================================================
