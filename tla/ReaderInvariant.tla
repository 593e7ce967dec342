-------------------------- MODULE ReaderInvariant --------------------------
(***************************************************************************)
(* The inductive invariant behind the readers' safety properties.  TLC     *)
(* checks it on the small instances; ReaderProofs proves it for all.       *)
(***************************************************************************)
EXTENDS Remote, PushInvariant

(***************************************************************************)
(* What the history of one repository's item looks like: the pointer is    *)
(* the last key published, it is never cleared, and the manifests that     *)
(* were published before it, as far as they are still stored, are          *)
(* contained in the one it names.                                          *)
(***************************************************************************)
HistoryOf(r) ==
    /\ IF published[r] = <<>> THEN pointer[r] = None ELSE pointer[r] = Last(published[r])
    /\ pointer[r] # None => branch[r] # None
    /\ \A k \in Keys(r) : Exists(k) =>
          /\ pointer[r] # None
          /\ gitBranchContains(PublishedTip(r), manifests[k].tip)

\* readPublishedMetadata expects the pointer it has seen before.
Expects(c) == attempt[c] > 1 \/ command[c] = "fetch"

\* The item a read has seen is an earlier state of the item.
SeenOK(c) ==
    /\ pointer[from[c]] # None
    /\ seen[c].key \in Keys(from[c])
    /\ seen[c].branch = branch[from[c]]

\* Each failed attempt was overtaken by one publication.
ChurnOK(c) ==
    LET n == Len(published[from[c]]) - since[c] IN
    /\ rpc[c] = "meta" => n >= attempt[c] - 1
    /\ rpc[c] = "manifest" =>
          \E i \in DOMAIN published[from[c]] :
              /\ published[from[c]][i] = seen[c].key
              /\ i - since[c] >= attempt[c] - 1
    /\ rpc[c] = "exhausted" => n >= maximumAttempts

\* The tip that was listed is contained in whatever the fetch may find.
PromiseOK(c) ==
    /\ rpc[c] = "listed" \/ (rpc[c] \in {"meta", "manifest"} /\ command[c] = "fetch") =>
          gitBranchContains(PublishedTip(from[c]), promised[c])
    /\ rpc[c] = "manifest" /\ command[c] = "fetch" /\ Exists(seen[c].key) =>
          gitBranchContains(manifests[seen[c].key].tip, promised[c])
    /\ rpc[c] = "get" /\ command[c] = "fetch" =>
          gitBranchContains(target[c], promised[c])
    /\ rpc[c] = "fetched" /\ command[c] = "fetch" => promised[c] \in have[c]

\* The bundles still to download are stored, each one follows what the clone
\* has by then, and the last one brings the tip.
WantedOK(c) ==
    /\ target[c] \in Commits
    /\ \A i \in DOMAIN wanted[c] :
          /\ Inspects(objects, wanted[c][i], None)
          /\ IF i = 1 THEN wanted[c][i].key.base \in have[c] \cup {Zero}
                      ELSE wanted[c][i].key.base = wanted[c][i-1].key.end
    /\ IF wanted[c] = <<>> THEN target[c] \in have[c] ELSE ChainEnd(wanted[c]) = target[c]

ReaderInv(c) ==
    /\ rpc[c] \notin {"lostPointer", "branchChanged", "missingBundle", "incomplete"}
    /\ rpc[c] # "idle" => from[c] \in Repos
    /\ rpc[c] = "idle" => attempt[c] = 1 /\ seen[c].key = None
    /\ rpc[c] \in {"meta", "manifest", "listed"} => command[c] # "recover"
    /\ rpc[c] = "listed" => command[c] = "list"
    /\ rpc[c] = "scan" => command[c] = "recover" /\ seen[c].key \in Helpers \cup {None}
    /\ rpc[c] \in {"manifest", "listed"} \/ (rpc[c] = "meta" /\ Expects(c)) => SeenOK(c)
    /\ rpc[c] \in {"meta", "manifest", "listed"} => Reaches(mine[c]) \subseteq have[c]
    /\ \A d \in have[c] : Ancestry[d] \subseteq have[c]
    /\ ChurnOK(c) /\ PromiseOK(c)
    /\ rpc[c] = "get" => WantedOK(c)

(***************************************************************************)
(* A read never fails on the remote because what it saw of the item stays  *)
(* true of the item's history, every publication contains the earlier      *)
(* ones, and bundles outlive the manifests that name them.                 *)
(***************************************************************************)
RemoteInv ==
    /\ PushInv /\ FetchTypeOK
    /\ \A r \in Repos : HistoryOf(r)
    /\ \A c \in Readers : ReaderInv(c)
=============================================================================
