------------------------------ MODULE Packing -------------------------------
(***************************************************************************)
(* Packing the missing history of one push into bundles (bundle_split.go   *)
(* and createPushBundle): pushBundleCommits searches the first boundary    *)
(* that contains the published base, createRange packs a range or splits   *)
(* it in two, and createPinnedPushBundle pins the end of each range with a *)
(* private ref that a guarded transaction removes again.                   *)
(*                                                                         *)
(* Other Git processes may write that ref at any moment at which the       *)
(* transaction does not hold its lock.                                     *)
(***************************************************************************)
EXTENDS GitHistory

CONSTANT MaxWrites  \* bound: writes of other Git processes to the ref

VARIABLES
    base, tip,      \* what the push has to pack: base..tip
    commits,        \* the boundaries: the rev-list, then the part that is kept
    low, high,      \* the binary search
    step,           \* where the push is
    todo,           \* the ranges that createRange has still to pack, in order
    ref,            \* refs/git-remote-aws/UUID of the current range
    locked,         \* the transaction holds the ref's lock
    packed,         \* the head of the bundle file, Zero when there is none
    consumed,       \* the ranges packed and uploaded, or reused, in order
    canceled,       \* the push's context
    writes

packingVars == <<base, tip, commits, low, high, step, todo, ref, locked, packed,
                 consumed, canceled, writes>>
searchVars == <<commits, low, high>>
planVars == <<base, tip, commits, low, high>>

\* A ref names a commit, itself or through another ref.
Direct(c) == [at |-> c, symbolic |-> FALSE]
Absent == [at |-> Zero, symbolic |-> FALSE]
Refs == {Absent} \union [at : Commits, symbolic : BOOLEAN]

\* removePinnedPushRef runs in these steps.
Cleanup == {"cleanup", "prepared", "checked"}

Current == Head(todo)
End == Last(Current.commits)

\* git rev-list --first-parent --reverse from..to drops what from contains, which
\* is the bottom of the line.
RevList(from, to) ==
    LET line == FirstParents[to]
    IN  IF from = Zero
        THEN {line}
        ELSE {SubSeq(line, n, Len(line)) :
                 n \in {i \in 1..Len(line) :
                          i..Len(line) = {j \in 1..Len(line) : line[j] \notin Ancestry[from]}}}

PackingInit ==
    /\ tip \in Commits
    /\ base \in (Ancestry[tip] \ {tip}) \union {Zero}
    /\ commits \in RevList(base, tip)
    /\ low = 0 /\ high = Len(commits)
    /\ step = "search"
    /\ todo = <<>> /\ ref = Absent /\ locked = FALSE /\ packed = Zero
    /\ consumed = <<>> /\ canceled = FALSE /\ writes = 0

Fails(v) == step' = "failed" /\ locked' = FALSE /\ UNCHANGED v

-----------------------------------------------------------------------------
(* pushBundleCommits                                                       *)

\* The common linear case first; sequences count from 1.
Middle == IF low = 0 THEN 0 ELSE low + (high - low) \div 2

\* git merge-base --is-ancestor base commits[middle], which may fail.
Search ==
    /\ step = "search" /\ base # Zero /\ low < high
    /\ \/ Fails(<<low, high>>)
       \/ /\ ~canceled
          /\ IF gitBranchContains(commits[Middle + 1], base)
             THEN high' = Middle /\ UNCHANGED low
             ELSE low' = Middle + 1 /\ UNCHANGED high
          /\ UNCHANGED <<step, locked>>
    /\ UNCHANGED <<base, tip, commits, todo, ref, packed, consumed, canceled, writes>>

\* Mutant: the suffix begins one commit late.
KeptLate == SubSeq(commits, low + 2, Len(commits))
Kept == SubSeq(commits, low + 1, Len(commits))

SearchEnds ==
    /\ step = "search"
    /\ base = Zero \/ low = high
    /\ IF base # Zero /\ low = Len(commits)
       THEN Fails(<<commits, todo>>)
       ELSE /\ commits' = IF base = Zero THEN commits ELSE Kept
            /\ todo' = <<[base |-> base, commits |-> commits']>>
            /\ step' = "range"
            /\ UNCHANGED locked
    /\ UNCHANGED <<base, tip, low, high, ref, packed, consumed, canceled, writes>>

-----------------------------------------------------------------------------
(* createRange                                                             *)

\* splitRange: two halves that meet at a boundary.
Halves(r) ==
    LET middle == Len(r.commits) \div 2
    IN  <<[base |-> r.base, commits |-> SubSeq(r.commits, 1, middle)],
          [base |-> r.commits[middle],
           commits |-> SubSeq(r.commits, middle + 1, Len(r.commits))]>>

Splits == Len(Current.commits) > 1 /\ todo' = Halves(Current) \o Tail(todo) /\ step' = "range"

Consumes(head) ==
    /\ consumed' = Append(consumed, [base |-> Current.base, end |-> End, head |-> head])
    /\ todo' = Tail(todo)
    /\ step' = IF Len(todo) = 1 THEN "ok" ELSE "range"

\* A range that an earlier attempt completed is reused (its inspection is part
\* of Validation, and may fail); a range whose estimate exceeds the target is
\* split before it is packed.  The next one to be packed gets a ref of its own.
TakeRange ==
    /\ step = "range"
    /\ IF canceled THEN Fails(<<todo, consumed>>)
       ELSE /\ \/ Consumes(End)
               \/ Splits /\ UNCHANGED consumed
               \/ step' \in {"pin", "failed"} /\ UNCHANGED <<todo, consumed>>
            /\ UNCHANGED locked
    /\ ref' = Absent
    /\ packed' = Zero
    /\ UNCHANGED <<planVars, canceled, writes>>

\* update-ref creates the ref if it is absent and tells so; or nobody knows
\* whether it did, and then the ref is not the push's to remove.
Pin ==
    /\ step = "pin"
    /\ \/ /\ ref = Absent /\ ~canceled
          /\ ref' = Direct(End) /\ step' = "pack" /\ UNCHANGED locked
       \/ /\ ref' \in {ref, IF ref = Absent THEN Direct(End) ELSE ref}
          /\ Fails(<<>>)
    /\ UNCHANGED <<planVars, todo, packed, consumed, canceled, writes>>

\* git bundle create base..ref: what the ref names now, if that is anything new.
Bundle ==
    /\ step = "pack"
    /\ packed' \in {Zero, IF canceled \/ ref = Absent \/
                             (Current.base # Zero /\ ref.at \in Ancestry[Current.base])
                          THEN Zero ELSE ref.at}
    /\ step' = "cleanup"
    /\ UNCHANGED <<planVars, todo, ref, locked, consumed, canceled, writes>>

-----------------------------------------------------------------------------
(* removePinnedPushRef, under a context of its own                         *)

\* Mutant: the ref is looked at without the lock that prepare takes.
LocksNothing == UNCHANGED locked
Locks == locked' = TRUE

\* start; delete and prepare: the lock is taken and the old object id verified,
\* through a symbolic ref as well.
Prepare ==
    /\ step = "cleanup"
    /\ IF ref # Absent /\ ref.at = End
       THEN step' = "prepared" /\ Locks
       ELSE Fails(<<>>)
    /\ UNCHANGED <<planVars, todo, ref, packed, consumed, canceled, writes>>

\* git symbolic-ref --quiet
CheckType ==
    /\ step = "prepared"
    /\ IF ref.symbolic
       THEN Fails(<<>>)
       ELSE step' = "checked" /\ UNCHANGED locked
    /\ UNCHANGED <<planVars, todo, ref, packed, consumed, canceled, writes>>

\* createPushBundle: exactly one head, the planned one.
\* Mutant: whatever the ref named when Git packed it.
HeadIsAny == packed # Zero
HeadIsPlanned == packed = End

\* commit; then createPushBundle's own error, which the cleanup does not hide.
Commit ==
    /\ step = "checked"
    /\ ref' = Absent
    /\ locked' = FALSE
    /\ step' = IF HeadIsPlanned THEN "stat" ELSE "failed"
    /\ UNCHANGED <<planVars, todo, packed, consumed, canceled, writes>>

\* Five seconds: closing stdin aborts the transaction, or it was committed.
CleanupFails ==
    /\ step \in Cleanup
    /\ ref' \in {ref, IF step = "checked" THEN Absent ELSE ref}
    /\ Fails(<<>>)
    /\ UNCHANGED <<planVars, todo, packed, consumed, canceled, writes>>

\* The file is larger than the target, or is encrypted, uploaded and recorded.
\* An increment of one commit is uploaded whatever its size.
Finish ==
    /\ step = "stat"
    /\ \/ Splits /\ UNCHANGED <<consumed, locked>>
       \/ Consumes(packed) /\ UNCHANGED locked
       \/ Fails(<<todo, consumed>>)
    /\ UNCHANGED <<planVars, ref, packed, canceled, writes>>

-----------------------------------------------------------------------------
Cancel ==
    /\ step \notin {"ok", "failed"} /\ ~canceled
    /\ canceled' = TRUE
    /\ UNCHANGED <<planVars, step, todo, ref, locked, packed, consumed, writes>>

\* Another Git process deletes, moves or replaces the ref.
ForeignWrite ==
    /\ step \in Cleanup \union {"pin", "pack"}
    /\ ~locked
    /\ writes < MaxWrites
    /\ writes' = writes + 1
    /\ ref' \in Refs \ {ref}
    /\ UNCHANGED <<planVars, step, todo, locked, packed, consumed, canceled>>

PackingNext ==
    \/ Search \/ SearchEnds \/ TakeRange \/ Pin \/ Bundle
    \/ Prepare \/ CheckType \/ Commit \/ CleanupFails \/ Finish
    \/ Cancel \/ ForeignWrite

PackingSpec == PackingInit /\ [][PackingNext]_packingVars

-----------------------------------------------------------------------------
(* Properties                                                              *)

\* The binary search finds the boundaries that pushBundleCommits promises, also
\* when the base joined the line from side history: the suffix of the
\* first-parent line that contains the base.
SearchFindsBoundaries ==
    step \notin {"search", "failed"} => commits \in pushBundleCommits(base, tip)

\* A pack run that succeeds has uploaded or reused exactly the missing history:
\* the ranges follow one another from the base to the tip, and each bundle holds
\* the end that its name and its recipients were chosen for, although other
\* processes may have moved the ref that Git packed.  createRange, createPushBundle.
PackedRangesCover ==
    step = "ok" =>
        /\ consumed # <<>>
        /\ consumed[1].base = base
        /\ Last(consumed).end = tip
        /\ \A i \in DOMAIN consumed :
            /\ consumed[i].head = consumed[i].end
            /\ i > 1 => consumed[i].base = consumed[i-1].end

\* The push itself creates the ref only where there is none, and removes it only
\* while it is a direct ref to the pinned commit: never a ref that another
\* process has pointed elsewhere or made symbolic, whatever the order of the
\* transaction's steps and the other's.  createPinnedPushBundle, removePinnedPushRef.
ForeignRefsSurvive ==
    [][(writes' = writes /\ ref' # ref /\ step \in Cleanup \union {"pin"}) =>
          Direct(End) \in {ref, ref'} /\ Absent \in {ref, ref'}]_packingVars
=============================================================================
