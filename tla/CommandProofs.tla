--------------------------- MODULE CommandProofs ----------------------------
(***************************************************************************)
(* Safety of the administrative commands for any records, operators,       *)
(* helpers that were not stopped, key files, directories and invocations,  *)
(* and any combination of faults.  CommandsInv is shown inductive: for the *)
(* migration, a step that others take leaves everything true of an         *)
(* invocation (OperatorKept), because what was read of a record bounds it  *)
(* for good; for key generation, because whoever holds both directories is *)
(* alone with its files (Alone, RunKept).                                  *)
(***************************************************************************)
EXTENDS CommandInvariant, WellFoundedInduction, TLAPS

----------------------------------------------------------------------------
(* Natural numbers.                                                        *)

LEMMA LeastNatural ==
    ASSUME NEW S, S \subseteq Nat, S # {}
    PROVE  \E m \in S : \A n \in S : m <= n
<1>. DEFINE R == OpToRel(<, Nat)
<1>1. IsWellFoundedOn(R, Nat)
  BY NatLessThanWellFounded, Zenon
<1>2. \A m, n \in Nat : <<m, n>> \in R <=> m < n
  BY DEF OpToRel
<1>. HIDE DEF R
<1>3. PICK m \in S : \A n \in S : ~(<<n, m>> \in R)
  BY <1>1, WFMin
<1>4. \A n \in S : n \in Nat /\ m \in Nat /\ ~(n < m)
  BY <1>2, <1>3
<1>. QED  BY <1>4

----------------------------------------------------------------------------
(* Records.                                                                *)

LEMMA NoAttributes == DOMAIN <<>> = {}
OBVIOUS

\* A converted record has only an envelope, and nothing of the old format.
LEMMA ConvertedRecord ==
    ASSUME NEW old
    PROVE  /\ ~Legacy(migratedRepoItem(old))
           /\ Legacy(old) => DOMAIN migratedRepoItem(old) \subseteq {"data"}
           /\ Legacy(old) <=> migratedRepoItem(old) # old
BY NoAttributes DEF migratedRepoItem, Legacy, legacyRepoFields

\* A record the condition accepts is the record that was read.
LEMMA FencedRecord ==
    ASSUME NEW current, NEW old, IsRecord(current), IsRecord(old),
           Legacy(old), ~Refused(old), Fences(current, old),
           Foreign(current) \subseteq Foreign(old)
    PROVE  current = old /\ DOMAIN old \subseteq legacyRepoFields /\ ~Held(old)
<1>1. DOMAIN old \subseteq legacyRepoFields /\ ~Held(old)
  BY DEF Refused
<1>2. Foreign(old) = {} /\ "owner_token" \notin DOMAIN old
  BY <1>1 DEF Foreign, legacyRepoFields
<1>3. DOMAIN current \subseteq legacyRepoFields
  BY <1>2 DEF Foreign, Fences
<1>4. DOMAIN current = DOMAIN old /\ \A a \in DOMAIN old : current[a] = old[a]
  BY <1>1, <1>3 DEF Fences
<1>5. [a \in DOMAIN current |-> current[a]] = [a \in DOMAIN old |-> old[a]]
  BY <1>4
<1>. QED  BY <1>1, <1>5 DEF IsRecord

\* What an update makes of the record it was planned for.
LEMMA UpdatedRecord ==
    ASSUME NEW old, Legacy(old), DOMAIN old \subseteq legacyRepoFields
    PROVE  LET new == Updated(old, migratedRepoItem(old)) IN
           /\ IsRecord(new) /\ new # NoItem
           /\ Foreign(new) = {} /\ ~Legacy(new)
           /\ Payload(new) = Payload(old)
<1>. DEFINE after == migratedRepoItem(old)
            new == Updated(old, after)
            kept == DOMAIN old \cap PayloadFields
<1>1. DOMAIN after \subseteq {"data"} /\ ~Legacy(after)
  BY ConvertedRecord
<1>2. DOMAIN new = DOMAIN after /\ IsRecord(new)
  BY <1>1 DEF Updated, legacyRepoFields, IsRecord
<1>3. Foreign(new) = {} /\ ~Legacy(new)
  BY <1>1, <1>2 DEF Foreign, Legacy
<1>4. new # NoItem
  BY <1>1, <1>2 DEF NoItem
<1>5. "data" \notin DOMAIN old /\ Payload(old) = Restrict(old, kept)
  BY DEF legacyRepoFields, Payload
<1>6. Payload(new) = Payload(old)
  <2>1. CASE kept = {}
    <3>1. after = <<>> /\ DOMAIN new = {}
      BY <1>2, <2>1, NoAttributes DEF migratedRepoItem
    <3>2. Payload(new) = Restrict(new, {})
      BY <3>1 DEF Payload
    <3>3. Restrict(new, {}) = Restrict(old, {})
      BY DEF Restrict
    <3>. QED  BY <1>5, <2>1, <3>2, <3>3
  <2>2. CASE kept # {}
    <3>1. after = [a \in {"data"} |-> Restrict(old, kept)]
      BY <2>2 DEF migratedRepoItem
    <3>2. DOMAIN new = {"data"} /\ new["data"] = Restrict(old, kept)
      BY <1>2, <3>1 DEF Updated
    <3>. QED  BY <1>5, <3>2 DEF Payload
  <2>. QED  BY <2>1, <2>2
<1>. QED  BY <1>2, <1>3, <1>4, <1>6

----------------------------------------------------------------------------
(* Steps of the table.                                                     *)

\* What every step leaves true of a record.
ItemsKept ==
    /\ DOMAIN items' = Ids
    /\ \A i \in Ids :
          /\ IsRecord(items'[i])
          /\ items[i] # NoItem =>
                items'[i] # NoItem /\ Foreign(items'[i]) \subseteq Foreign(items[i])
          /\ "old" \notin running /\ ~Legacy(items[i]) => ~Legacy(items'[i])

PayloadCarried ==
    \A i \in Ids :
        items[i] # NoItem /\ Legacy(items[i]) /\ ~Legacy(items'[i])
          => ~Held(items[i]) /\ Payload(items'[i]) = Payload(items[i])

LEMMA ItemsUntouched ==
    ASSUME StoresOK, UNCHANGED items
    PROVE  ItemsKept /\ PayloadCarried
BY DEF StoresOK, ItemsKept, PayloadCarried

\* An update that was planned from what was read, whenever it is executed.
LEMMA UpdateApplied ==
    ASSUME StoresOK, NEW i \in Ids, NEW old, StillBounds(i, old),
           Legacy(old), ~Refused(old), ApplyUpdate(i, old)
    PROVE  /\ ItemsKept
           /\ PayloadCarried
           /\ replaced' \subseteq replaced \cup {[id |-> i, item |-> old]}
<1>1. CASE ~Fences(items[i], old)
  <2>1. UNCHANGED items /\ replaced' = replaced
    BY <1>1 DEF ApplyUpdate
  <2>. QED  BY <2>1, ItemsUntouched
<1>2. CASE Fences(items[i], old)
  <2>. DEFINE new == Updated(old, migratedRepoItem(old))
  <2>1. items[i] = old /\ DOMAIN old \subseteq legacyRepoFields /\ ~Held(old)
    BY <1>2, FencedRecord DEF StoresOK, StillBounds
  <2>2. /\ items' = [items EXCEPT ![i] = new]
        /\ replaced' = replaced \cup {[id |-> i, item |-> old]}
    BY <1>2, <2>1 DEF ApplyUpdate
  <2>3. /\ IsRecord(new) /\ new # NoItem
        /\ Foreign(new) = {} /\ ~Legacy(new)
        /\ Payload(new) = Payload(old)
    BY <2>1, UpdatedRecord
  <2>. HIDE DEF new
  <2>4. items'[i] = new /\ DOMAIN items' = Ids /\ \A j \in Ids \ {i} : items'[j] = items[j]
    BY <2>2 DEF StoresOK
  <2>5. ItemsKept
    BY <2>3, <2>4 DEF ItemsKept, StoresOK
  <2>6. PayloadCarried
    BY <2>1, <2>3, <2>4 DEF PayloadCarried
  <2>. QED  BY <2>2, <2>5, <2>6
<1>. QED  BY <1>1, <1>2

\* Helpers write their own attributes; only old ones make a record legacy.
LEMMA HelperWrites ==
    ASSUME StoresOK, NEW i \in Ids, Helper(i)
    PROVE  ItemsKept /\ PayloadCarried
<1>. DEFINE new == items'[i]
            own == legacyRepoFields \cup {"data", "owner_token"}
<1>1. /\ items' = [items EXCEPT ![i] = new]
      /\ IsRecord(new)
      /\ items[i] # NoItem => DOMAIN new \subseteq DOMAIN items[i] \cup own
      /\ DOMAIN new \cap own # {}
      /\ Legacy(items[i]) /\ items[i] # NoItem => Legacy(new)
      /\ "old" \notin running /\ ~Legacy(items[i]) => ~Legacy(new)
  <2>1. CASE OldLock(i)
    <3>. DEFINE lock1 == [uid |-> "held", unix |-> "now"]
    <3>1. items' = [items EXCEPT ![i] = SetAll(Record(i), lock1)] /\ "old" \in running
      BY <2>1 DEF OldLock
    <3>2. new = SetAll(Record(i), lock1)
      BY <3>1 DEF StoresOK
    <3>3. DOMAIN new = DOMAIN Record(i) \cup {"uid", "unix"} /\ IsRecord(new)
      BY <3>2 DEF SetAll, IsRecord
    <3>4. items[i] # NoItem => Record(i) = items[i]
      BY DEF Record
    <3>. QED  BY <3>1, <3>2, <3>3, <3>4 DEF Legacy, legacyRepoFields
  <2>2. CASE OldPush(i)
    <3>1. PICK v \in Values : items' = [items EXCEPT ![i] =
              SetAll(items[i], [branch |-> v, bundles |-> v, uid |-> "", unix |-> "0"])]
      BY <2>2 DEF OldPush
    <3>2. new = SetAll(items[i], [branch |-> v, bundles |-> v, uid |-> "", unix |-> "0"])
      BY <3>1 DEF StoresOK
    <3>3. DOMAIN new = DOMAIN items[i] \cup {"branch", "bundles", "uid", "unix"} /\ IsRecord(new)
      BY <3>2 DEF SetAll, IsRecord
    <3>4. "old" \in running
      BY <2>2 DEF OldPush
    <3>. QED  BY <3>1, <3>2, <3>3, <3>4 DEF Legacy, legacyRepoFields
  <2>3. CASE NewLock(i)
    <3>1. items' = [items EXCEPT ![i] = SetAll(Record(i), [owner_token |-> "held"])]
      BY <2>3 DEF NewLock
    <3>2. new = SetAll(Record(i), [owner_token |-> "held"])
      BY <3>1 DEF StoresOK
    <3>3. DOMAIN new = DOMAIN Record(i) \cup {"owner_token"} /\ IsRecord(new)
      BY <3>2 DEF SetAll, IsRecord
    <3>4. CASE items[i] # NoItem
      BY <3>1, <3>2, <3>3, <3>4 DEF Legacy, legacyRepoFields, Record
    <3>5. CASE items[i] = NoItem
      <4>1. DOMAIN Record(i) = {}
        BY <3>5, NoAttributes DEF Record
      <4>. QED  BY <3>1, <3>2, <3>3, <3>5, <4>1 DEF Legacy, legacyRepoFields
    <3>. QED  BY <3>4, <3>5
  <2>4. CASE NewPush(i)
    <3>1. PICK v \in Values : items' = [items EXCEPT ![i] =
              Restrict(SetAll(items[i], [data |-> [branch |-> v, bundles |-> v]]),
                       (DOMAIN items[i] \cup {"data"}) \ {"owner_token"})]
      BY <2>4 DEF NewPush
    <3>2. new = Restrict(SetAll(items[i], [data |-> [branch |-> v, bundles |-> v]]),
                         (DOMAIN items[i] \cup {"data"}) \ {"owner_token"})
      BY <3>1 DEF StoresOK
    <3>3. DOMAIN new = (DOMAIN items[i] \cup {"data"}) \ {"owner_token"} /\ IsRecord(new)
      BY <3>2 DEF Restrict, IsRecord
    <3>. QED  BY <3>1, <3>2, <3>3 DEF Legacy, legacyRepoFields
  <2>. QED  BY <2>1, <2>2, <2>3, <2>4 DEF Helper
<1>2. DOMAIN items' = Ids /\ \A j \in Ids \ {i} : items'[j] = items[j]
  BY <1>1 DEF StoresOK
<1>3. new # NoItem
  BY <1>1 DEF NoItem, legacyRepoFields
<1>4. ItemsKept
  BY <1>1, <1>2, <1>3 DEF ItemsKept, Foreign, StoresOK
<1>5. PayloadCarried
  BY <1>1, <1>2 DEF PayloadCarried
<1>. QED  BY <1>4, <1>5

----------------------------------------------------------------------------
(* Steps of an invocation.                                                 *)

\* Invocation p took no part in the step.
Idle(p) ==
    /\ pc'[p] = pc[p] /\ input'[p] = input[p]
    /\ before'[p] = before[p] /\ left'[p] = left[p]

\* The files on the disk stay as they are; what is saved stays saved.
FilesKept ==
    \A f \in Backups : files[f] # NoItem =>
        /\ files'[f] # NoItem /\ files'[f].items = files[f].items
        /\ files[f].durable => files'[f].durable

SavedKept ==
    \A f \in Backups : files[f] # NoItem /\ files[f].durable =>
        files'[f] # NoItem /\ files'[f].durable /\ files'[f].items = files[f].items

LEMMA BoundsKept ==
    ASSUME ItemsKept, NEW i \in Ids, NEW old, StillBounds(i, old)
    PROVE  StillBounds(i, old)'
BY DEF ItemsKept, StillBounds

\* A step that others take leaves everything true of p.
LEMMA OperatorKept ==
    ASSUME MigrationTypeOK, NEW p \in Operators, OperatorOK(p), Idle(p),
           ItemsKept, FilesKept, running' = running
    PROVE  OperatorOK(p)'
<1>1. /\ input[p].backup \in Backups /\ input[p].ids \subseteq Ids
      /\ DOMAIN before[p] \subseteq input[p].ids
  BY DEF MigrationTypeOK
<1>2. \A i \in DOMAIN before[p] :
        /\ IsRecord(before[p][i])
        /\ items'[i] # NoItem /\ Foreign(items'[i]) \subseteq Foreign(before[p][i])
  BY <1>1 DEF OperatorOK, StillBounds, ItemsKept
<1>3. PlannedOK(p)'
  BY DEF OperatorOK, Idle, PlannedOK, Changed
<1>4. BackupOK(p)'
  BY <1>1 DEF OperatorOK, Idle, BackupOK, FilesKept
<1>5. MigratedOK(p)'
  BY <1>1 DEF OperatorOK, Idle, MigratedOK, ItemsKept
<1>6. (\A i \in DOMAIN before[p] : StillBounds(i, before[p][i]))'
  BY <1>2 DEF Idle, StillBounds
<1>. QED  BY <1>3, <1>4, <1>5, <1>6 DEF OperatorOK, Idle

\* An invocation that failed has nothing to keep.
LEMMA FailedOperator ==
    ASSUME NEW p \in Operators, pc'[p] = "failed", DOMAIN before'[p] = {}
    PROVE  OperatorOK(p)'
BY DEF OperatorOK, PlannedOK, BackupOK, MigratedOK

LEMMA RequestsKept ==
    ASSUME MigrationTypeOK, RequestsOK, ItemsKept, SavedKept, requests' \subseteq requests
    PROVE  RequestsOK'
<1>1. SUFFICES ASSUME NEW r \in requests'
               PROVE  StillBounds(r.id, r.before)' /\ \E f \in Backups : Saved(f, r.id, r.before)'
  BY DEF RequestsOK
<1>2. r.id \in Ids /\ StillBounds(r.id, r.before)
  BY DEF MigrationTypeOK, RequestsOK
<1>3. PICK f \in Backups : Saved(f, r.id, r.before)
  BY DEF RequestsOK
<1>. QED  BY <1>2, <1>3, BoundsKept DEF Saved, SavedKept

LEMMA OriginalsKept ==
    ASSUME OriginalsBackedUp, SavedKept, replaced' \subseteq replaced
    PROVE  OriginalsBackedUp'
BY DEF OriginalsBackedUp, SavedKept

LEMMA OriginalsAdded ==
    ASSUME OriginalsBackedUp, SavedKept, NEW i, NEW old, NEW f \in Backups, Saved(f, i, old),
           replaced' \subseteq replaced \cup {[id |-> i, item |-> old]}
    PROVE  OriginalsBackedUp'
BY DEF OriginalsBackedUp, SavedKept, Saved

\* What ends an invocation.
LEMMA Ended ==
    ASSUME MigrationTypeOK, StoresOK, NEW o \in Operators,
           NEW outcome \in {"ended", "verified", "failed"}, End(o, outcome)
    PROVE  /\ pc'[o] = outcome /\ DOMAIN before'[o] = {} /\ left'[o] = {}
           /\ outcome # "failed" => input' = input
           /\ \A p \in Operators \ {o} : Idle(p)
           /\ DOMAIN before' = Operators
           /\ pc' \in [Operators -> Active \cup {"idle", "ended", "verified", "failed"}]
           /\ input' \in [Operators -> [apply : BOOLEAN, exact : BOOLEAN,
                                        ids : SUBSET Ids, backup : Backups]]
           /\ left' \in [Operators -> SUBSET Ids]
<1>1. pc' \in [Operators -> Active \cup {"idle", "ended", "verified", "failed"}]
  BY DEF End, Goto, MigrationTypeOK
<1>2. left' \in [Operators -> SUBSET Ids] /\ left'[o] = {} /\ pc'[o] = outcome
  BY DEF End, Goto, MigrationTypeOK
<1>3. DOMAIN before' = Operators /\ DOMAIN before'[o] = {}
  BY NoAttributes DEF End, StoresOK
<1>4. CASE outcome # "failed"
  BY <1>1, <1>2, <1>3, <1>4 DEF End, Goto, Idle, MigrationTypeOK, StoresOK
<1>5. CASE outcome = "failed"
  <2>1. input' = [input EXCEPT ![o].ids = {}, ![o].apply = FALSE]
    BY <1>5 DEF End
  <2>2. \A p \in Operators \ {o} : input'[p] = input[p]
    BY <2>1 DEF MigrationTypeOK
  <2>3. input' \in [Operators -> [apply : BOOLEAN, exact : BOOLEAN,
                                  ids : SUBSET Ids, backup : Backups]]
    <3>. DEFINE Inputs == [apply : BOOLEAN, exact : BOOLEAN, ids : SUBSET Ids, backup : Backups]
                none == [input[o] EXCEPT !.ids = {}, !.apply = FALSE]
    <3>1. input \in [Operators -> Inputs]
      BY DEF MigrationTypeOK
    <3>2. none \in Inputs
      <4>1. input[o] \in Inputs
        BY <3>1
      <4>. QED  BY <4>1
    <3>3. input' = [input EXCEPT ![o] = none]
      BY <2>1, <3>1
    <3>. HIDE DEF Inputs, none
    <3>4. input' \in [Operators -> Inputs]
      BY <3>1, <3>2, <3>3
    <3>. QED  BY <3>4 DEF Inputs
  <2>4. \A p \in Operators \ {o} : pc'[p] = pc[p] /\ before'[p] = before[p] /\ left'[p] = left[p]
    <3>1. /\ pc' = [pc EXCEPT ![o] = outcome] /\ before' = [before EXCEPT ![o] = <<>>]
          /\ left' = [left EXCEPT ![o] = {}]
      BY DEF End, Goto
    <3>2. DOMAIN pc = Operators /\ DOMAIN before = Operators /\ DOMAIN left = Operators
      BY DEF MigrationTypeOK, StoresOK
    <3>. QED  BY <3>1, <3>2
  <2>. QED  BY <1>1, <1>2, <1>3, <1>5, <2>2, <2>3, <2>4 DEF Idle
<1>. QED  BY <1>4, <1>5

\* Everything but what the acting invocation has to show for itself.
LEMMA OneOperator ==
    ASSUME MigrationInv, NEW o \in Operators,
           \A p \in Operators \ {o} : Idle(p),
           ItemsKept, FilesKept, running' = running,
           MigrationTypeOK', StoresOK', RequestsOK', OriginalsBackedUp', OperatorOK(o)'
    PROVE  MigrationInv'
<1>1. \A p \in Operators \ {o} : OperatorOK(p)'
  BY OperatorKept DEF MigrationInv
<1>. QED  BY <1>1 DEF MigrationInv

\* A step that touches nothing outside the invocation.
LEMMA WorldUntouched ==
    ASSUME MigrationInv, UNCHANGED world
    PROVE  /\ ItemsKept /\ FilesKept /\ SavedKept /\ PayloadCarried /\ running' = running
           /\ DOMAIN before' = Operators => StoresOK'
           /\ RequestsOK' /\ OriginalsBackedUp'
<1>1. /\ ItemsKept /\ FilesKept /\ SavedKept /\ PayloadCarried
      /\ running' = running /\ requests' = requests /\ replaced' = replaced
  BY ItemsUntouched DEF MigrationInv, world, FilesKept, SavedKept
<1>2. DOMAIN before' = Operators => StoresOK'
  BY DEF MigrationInv, world, StoresOK
<1>. QED  BY <1>1, <1>2, RequestsKept, OriginalsKept DEF MigrationInv

\* The types, when one invocation moves.
LEMMA TypesKept ==
    ASSUME MigrationTypeOK, NEW o \in Operators, \A p \in Operators \ {o} : Idle(p),
           \A r \in requests' : r.id \in Ids /\ ~Refused(r.before) /\ Legacy(r.before),
           pc' \in [Operators -> Active \cup {"idle", "ended", "verified", "failed"}],
           input' \in [Operators -> [apply : BOOLEAN, exact : BOOLEAN,
                                    ids : SUBSET Ids, backup : Backups]],
           left' \in [Operators -> SUBSET Ids],
           running' = running,
           DOMAIN before'[o] \subseteq input'[o].ids,
           pc'[o] \in {"update", "check"} => left'[o] \subseteq Changed(before'[o])
    PROVE  MigrationTypeOK'
<1>1. \A p \in Operators : DOMAIN before'[p] \subseteq input'[p].ids
                         /\ (pc'[p] \in {"update", "check"} => left'[p] \subseteq Changed(before'[p]))
  BY DEF MigrationTypeOK, Idle
<1>. QED  BY <1>1 DEF MigrationTypeOK

\* An end that is no success, for any reason.
LEMMA FailedRun ==
    ASSUME MigrationInv, NEW o \in Operators, End(o, "failed"),
           ItemsKept, FilesKept, running' = running, requests' = requests,
           DOMAIN before' = Operators => StoresOK', RequestsOK', OriginalsBackedUp'
    PROVE  MigrationInv'
<1>1. /\ pc'[o] = "failed" /\ DOMAIN before'[o] = {} /\ left'[o] = {}
      /\ \A p \in Operators \ {o} : Idle(p)
      /\ DOMAIN before' = Operators
      /\ pc' \in [Operators -> Active \cup {"idle", "ended", "verified", "failed"}]
      /\ input' \in [Operators -> [apply : BOOLEAN, exact : BOOLEAN,
                                    ids : SUBSET Ids, backup : Backups]]
      /\ left' \in [Operators -> SUBSET Ids]
  BY Ended DEF MigrationInv
<1>2. MigrationTypeOK'
  BY <1>1, TypesKept DEF MigrationInv, MigrationTypeOK
<1>3. OperatorOK(o)'
  BY <1>1, FailedOperator
<1>. QED  BY <1>1, <1>2, <1>3, OneOperator

\* Which record is next.
LEMMA NextIsPlanned ==
    ASSUME MigrationInv, NEW o \in Operators, pc[o] \in {"update", "check"}
    PROVE  /\ NextId(o) \in left[o] /\ NextId(o) \in Ids /\ NextId(o) \in DOMAIN before[o]
           /\ LET old == before[o][NextId(o)]
              IN  /\ Legacy(old) /\ ~Refused(old) /\ StillBounds(NextId(o), old)
                  /\ Saved(input[o].backup, NextId(o), old) /\ input[o].backup \in Backups
<1>1. /\ left[o] # {} /\ left[o] \subseteq Ids /\ left[o] \subseteq Changed(before[o])
      /\ OperatorOK(o) /\ input[o].backup \in Backups
  BY DEF MigrationInv, MigrationTypeOK, OperatorOK
<1>2. PICK m \in left[o] : \A n \in left[o] : m <= n
  BY <1>1, LeastNatural, MigrationAssumption
<1>3. NextId(o) \in left[o]
  BY <1>2 DEF NextId
<1>4. NextId(o) \in DOMAIN before[o] /\ Legacy(before[o][NextId(o)])
  BY <1>1, <1>3, ConvertedRecord DEF Changed
<1>. QED  BY <1>1, <1>3, <1>4 DEF OperatorOK, PlannedOK, BackupOK, Saved

\* The next record is done, or is to be looked at again.
LEMMA NextRecord ==
    ASSUME MigrationInv, NEW o \in Operators, pc[o] \in {"update", "check"},
           NEW i \in left[o],
           \/ Goto(o, "check") /\ UNCHANGED left
           \/ Done(o, i),
           UNCHANGED <<input, before, running>>, ItemsKept, FilesKept,
           \A r \in requests' : r.id \in Ids /\ ~Refused(r.before) /\ Legacy(r.before),
           StoresOK', RequestsOK', OriginalsBackedUp'
    PROVE  MigrationInv'
<1>1. OperatorOK(o) /\ MigrationTypeOK /\ left[o] \subseteq Changed(before[o]) /\ StoresOK
  BY DEF MigrationInv, MigrationTypeOK
<1>2. /\ \A p \in Operators \ {o} : Idle(p)
      /\ pc' \in [Operators -> Active \cup {"idle", "ended", "verified", "failed"}]
      /\ left' \in [Operators -> SUBSET Ids]
  BY <1>1 DEF Goto, Done, Idle, MigrationTypeOK, Active
<1>3. \/ pc'[o] \in {"update", "check"} /\ left'[o] # {} /\ left'[o] \subseteq left[o]
      \/ pc'[o] = "verify" /\ left'[o] = input[o].ids
  BY <1>1 DEF Goto, Done, MigrationTypeOK
<1>4. MigrationTypeOK'
  BY <1>1, <1>2, <1>3, TypesKept DEF MigrationTypeOK
<1>5. input[o].backup \in Backups /\ DOMAIN before[o] \subseteq Ids
  BY <1>1 DEF MigrationTypeOK
<1>6. \A j \in DOMAIN before[o] :
        /\ IsRecord(before[o][j])
        /\ items'[j] # NoItem /\ Foreign(items'[j]) \subseteq Foreign(before[o][j])
  BY <1>1, <1>5 DEF OperatorOK, StillBounds, ItemsKept
<1>7. (\A j \in DOMAIN before[o] : StillBounds(j, before[o][j]))'
  BY <1>6 DEF StillBounds
<1>8. PlannedOK(o)' /\ BackupOK(o)'
  BY <1>1, <1>3, <1>5 DEF OperatorOK, PlannedOK, BackupOK, FilesKept, Changed
<1>9. MigratedOK(o)'
  BY <1>3 DEF MigratedOK
<1>10. OperatorOK(o)'
  BY <1>3, <1>7, <1>8, <1>9 DEF OperatorOK
<1>. QED  BY <1>2, <1>4, <1>10, OneOperator

LEMMA BeginStep ==
    ASSUME MigrationInv, NEW o \in Operators, Begin(o)
    PROVE  MigrationInv' /\ PayloadCarried
<1>1. UNCHANGED world /\ UNCHANGED before /\ pc[o] = "idle" /\ pc' = [pc EXCEPT ![o] = "snapshot"]
  BY DEF Begin, Goto
<1>2. PICK apply \in BOOLEAN, f \in Backups, ids \in {Ids} \cup {{i} : i \in Ids} :
          /\ input' = [input EXCEPT ![o] =
                [apply |-> apply, exact |-> ids # Ids, ids |-> ids, backup |-> f]]
          /\ left' = [left EXCEPT ![o] = ids]
  BY DEF Begin
<1>3. /\ input'[o].ids = left'[o] /\ pc'[o] = "snapshot"
      /\ \A p \in Operators \ {o} : Idle(p)
      /\ pc' \in [Operators -> Active \cup {"idle", "ended", "verified", "failed"}]
      /\ input' \in [Operators -> [apply : BOOLEAN, exact : BOOLEAN,
                                    ids : SUBSET Ids, backup : Backups]]
      /\ left' \in [Operators -> SUBSET Ids]
  <2>1. ids \in SUBSET Ids
    BY <1>2
  <2>. QED  BY <1>1, <1>2, <2>1 DEF MigrationInv, MigrationTypeOK, Idle, Active
<1>4. DOMAIN before'[o] = {} /\ DOMAIN before' = Operators
  BY <1>1 DEF MigrationInv, OperatorOK, StoresOK
<1>5. MigrationTypeOK'
  BY <1>1, <1>3, <1>4, TypesKept DEF MigrationInv, MigrationTypeOK, world
<1>6. OperatorOK(o)'
  BY <1>3, <1>4 DEF OperatorOK, PlannedOK, BackupOK, MigratedOK
<1>. QED  BY <1>1, <1>3, <1>4, <1>5, <1>6, WorldUntouched, OneOperator

LEMMA SnapshotStep ==
    ASSUME MigrationInv, NEW o \in Operators, readMigrationSnapshot(o)
    PROVE  MigrationInv' /\ PayloadCarried
<1>1. UNCHANGED world /\ pc[o] = "snapshot" /\ OperatorOK(o) /\ MigrationTypeOK /\ StoresOK
  BY DEF readMigrationSnapshot, MigrationInv
<1>2. PICK i \in left[o] :
          IF items[i] = NoItem /\ input[o].exact
          THEN End(o, "failed")
          ELSE /\ UNCHANGED input
               /\ left' = [left EXCEPT ![o] = @ \ {i}]
               /\ before' = IF items[i] = NoItem THEN before
                            ELSE [before EXCEPT ![o] =
                                    [j \in DOMAIN @ \cup {i} |-> IF j = i THEN items[i] ELSE @[j]]]
               /\ Goto(o, IF left[o] = {i} THEN "plan" ELSE "snapshot")
  BY DEF readMigrationSnapshot
<1>3. CASE items[i] = NoItem /\ input[o].exact
  BY <1>1, <1>2, <1>3, WorldUntouched, FailedRun DEF world
<1>4. CASE ~(items[i] = NoItem /\ input[o].exact)
  <2>1. /\ UNCHANGED input /\ left' = [left EXCEPT ![o] = @ \ {i}]
        /\ pc' = [pc EXCEPT ![o] = IF left[o] = {i} THEN "plan" ELSE "snapshot"]
    BY <1>2, <1>4 DEF Goto
  <2>2. before' = IF items[i] = NoItem THEN before
                  ELSE [before EXCEPT ![o] =
                         [j \in DOMAIN @ \cup {i} |-> IF j = i THEN items[i] ELSE @[j]]]
    BY <1>2, <1>4
  <2>3. i \in Ids /\ i \in input[o].ids /\ left[o] \subseteq input[o].ids
    BY <1>1 DEF OperatorOK, MigrationTypeOK
  <2>4. /\ DOMAIN before' = Operators
        /\ DOMAIN before'[o] = IF items[i] = NoItem THEN DOMAIN before[o] ELSE DOMAIN before[o] \cup {i}
        /\ items[i] # NoItem => before'[o][i] = items[i]
        /\ \A j \in DOMAIN before[o] : items[i] = NoItem \/ j # i => before'[o][j] = before[o][j]
        /\ \A p \in Operators \ {o} : before'[p] = before[p]
    BY <1>1, <2>2 DEF StoresOK
  <2>5. /\ left'[o] = left[o] \ {i} /\ left' \in [Operators -> SUBSET Ids]
        /\ pc'[o] = IF left[o] = {i} THEN "plan" ELSE "snapshot"
        /\ pc' \in [Operators -> Active \cup {"idle", "ended", "verified", "failed"}]
        /\ \A p \in Operators \ {o} : Idle(p)
    BY <1>1, <2>1, <2>4 DEF MigrationTypeOK, Active, Idle
  <2>6. MigrationTypeOK'
    BY <1>1, <2>1, <2>3, <2>4, <2>5, TypesKept DEF MigrationTypeOK, world
  <2>7. \A j \in DOMAIN before'[o] :
          /\ IsRecord(before'[o][j])
          /\ items[j] # NoItem /\ Foreign(items[j]) \subseteq Foreign(before'[o][j])
    BY <1>1, <2>3, <2>4 DEF OperatorOK, StillBounds, StoresOK
  <2>8. (\A j \in DOMAIN before[o] : StillBounds(j, before[o][j]))'
    BY <1>1, <2>7 DEF StillBounds, world
  <2>9. MigratedOK(o)'
    <3>1. ~Legacy(NoItem)
      BY DEF Legacy, NoItem, legacyRepoFields
    <3>2. ASSUME "old" \notin running, NEW j \in input[o].ids \ left'[o],
                 j \in DOMAIN before'[o] => ~Legacy(before'[o][j])
          PROVE  ~Legacy(items[j])
      <4>1. CASE j = i
        BY <2>4, <3>1, <3>2, <4>1
      <4>2. CASE j # i
        BY <1>1, <2>4, <2>5, <3>2, <4>2 DEF OperatorOK, MigratedOK
      <4>. QED  BY <4>1, <4>2
    <3>. QED  BY <1>1, <2>1, <2>5, <3>2 DEF MigratedOK, world
  <2>10. OperatorOK(o)'
    BY <2>1, <2>3, <2>5, <2>8, <2>9 DEF OperatorOK, PlannedOK, BackupOK
  <2>. QED  BY <1>1, <2>4, <2>5, <2>6, <2>10, WorldUntouched, OneOperator
<1>. QED  BY <1>3, <1>4, <1>1, WorldUntouched

LEMMA PlanStep ==
    ASSUME MigrationInv, NEW o \in Operators, Plan(o)
    PROVE  MigrationInv' /\ PayloadCarried
<1>1. UNCHANGED world /\ pc[o] = "plan" /\ OperatorOK(o) /\ MigrationTypeOK /\ StoresOK
  BY DEF Plan, MigrationInv
<1>2. CASE \E i \in DOMAIN before[o] : Refused(before[o][i])
  <2>1. End(o, "failed")
    BY <1>2, Zenon DEF Plan
  <2>. QED  BY <1>1, <2>1, WorldUntouched, FailedRun DEF world
<1>3. CASE \A i \in DOMAIN before[o] : ~Refused(before[o][i])
  <2>1. IF input[o].apply /\ Changed(before[o]) # {}
        THEN Goto(o, "backup") /\ UNCHANGED <<input, before, left>>
        ELSE End(o, "ended")
    BY <1>3, Zenon DEF Plan
  <2>2. CASE input[o].apply /\ Changed(before[o]) # {}
    <3>1. pc' = [pc EXCEPT ![o] = "backup"] /\ UNCHANGED <<input, before, left>>
      BY <2>1, <2>2 DEF Goto
    <3>2. /\ pc'[o] = "backup" /\ \A p \in Operators \ {o} : Idle(p)
          /\ pc' \in [Operators -> Active \cup {"idle", "ended", "verified", "failed"}]
      BY <1>1, <3>1 DEF MigrationTypeOK, Active, Idle
    <3>3. MigrationTypeOK'
      BY <1>1, <3>1, <3>2, TypesKept DEF MigrationTypeOK, world
    <3>4. (\A j \in DOMAIN before[o] : StillBounds(j, before[o][j]))'
      BY <1>1, <3>1 DEF OperatorOK, StillBounds, world
    <3>5. OperatorOK(o)'
      BY <1>3, <2>2, <3>1, <3>2, <3>4 DEF OperatorOK, PlannedOK, BackupOK, MigratedOK, Changed
    <3>. QED  BY <1>1, <3>1, <3>2, <3>3, <3>5, WorldUntouched, OneOperator DEF StoresOK
  <2>3. CASE ~(input[o].apply /\ Changed(before[o]) # {})
    <3>1. End(o, "ended")
      BY <2>1, <2>3
    <3>2. /\ pc'[o] = "ended" /\ DOMAIN before'[o] = {} /\ input' = input
          /\ \A p \in Operators \ {o} : Idle(p)
          /\ DOMAIN before' = Operators
          /\ pc' \in [Operators -> Active \cup {"idle", "ended", "verified", "failed"}]
          /\ left' \in [Operators -> SUBSET Ids]
      BY <1>1, <3>1, Ended
    <3>3. MigrationTypeOK'
      BY <1>1, <3>2, TypesKept DEF MigrationTypeOK, world
    <3>4. ASSUME "old" \notin running, input[o].apply, NEW i \in input[o].ids
          PROVE  ~Legacy(items[i])
      <4>1. Changed(before[o]) = {}
        BY <2>3, <3>4
      <4>2. i \in DOMAIN before[o] => ~Legacy(before[o][i])
        BY <4>1, ConvertedRecord DEF Changed
      <4>. QED  BY <1>1, <3>4, <4>2 DEF OperatorOK, MigratedOK
    <3>5. MigratedOK(o)'
      BY <1>1, <3>2, <3>4 DEF MigratedOK, world
    <3>6. OperatorOK(o)'
      BY <3>2, <3>5 DEF OperatorOK, PlannedOK, BackupOK
    <3>. QED  BY <1>1, <3>2, <3>3, <3>6, WorldUntouched, OneOperator
  <2>. QED  BY <2>2, <2>3
<1>. QED  BY <1>1, <1>2, <1>3, WorldUntouched

\* The backup is begun in a file of its own, or completed by its sync.
LEMMA BackupStep ==
    ASSUME MigrationInv, NEW o \in Operators, SaveBackup(o) \/ SyncBackup(o)
    PROVE  MigrationInv' /\ PayloadCarried
<1>. DEFINE f == input[o].backup
<1>1. OperatorOK(o) /\ MigrationTypeOK /\ StoresOK /\ RequestsOK /\ OriginalsBackedUp
  BY DEF MigrationInv
<1>2. f \in Backups
  BY <1>1 DEF MigrationTypeOK
<1>3. UNCHANGED <<items, requests, running, replaced>> /\ pc[o] \in {"backup", "sync"}
  BY DEF SaveBackup, SyncBackup
<1>4. ItemsKept /\ PayloadCarried
  BY <1>1, <1>3, ItemsUntouched
<1>5. CASE SaveBackup(o) /\ files[f] # NoItem
  <2>1. End(o, "failed") /\ UNCHANGED world
    BY <1>3, <1>5 DEF SaveBackup, world
  <2>. QED  BY <1>3, <1>4, <2>1, WorldUntouched, FailedRun
<1>6. ASSUME FilesKept, UNCHANGED <<input, before>>,
             pc'[o] = (IF pc[o] = "backup" THEN "sync" ELSE "update"),
             left'[o] = (IF pc[o] = "backup" THEN left[o] ELSE Changed(before[o])),
             \A p \in Operators \ {o} : Idle(p),
             pc' \in [Operators -> Active \cup {"idle", "ended", "verified", "failed"}],
             left' \in [Operators -> SUBSET Ids],
             StoresOK', files'[f].items = before[o], files'[f] # NoItem,
             pc[o] = "sync" => files'[f].durable
      PROVE  MigrationInv'
  <2>1. SavedKept
    BY <1>6 DEF FilesKept, SavedKept
  <2>2. RequestsOK' /\ OriginalsBackedUp'
    BY <1>1, <1>3, <1>4, <2>1, RequestsKept, OriginalsKept
  <2>3. MigrationTypeOK'
    BY <1>1, <1>3, <1>6, TypesKept DEF MigrationTypeOK
  <2>4. (\A j \in DOMAIN before[o] : StillBounds(j, before[o][j]))'
    BY <1>1, <1>3, <1>6 DEF OperatorOK, StillBounds
  <2>5. PlannedOK(o)' /\ BackupOK(o)' /\ MigratedOK(o)'
    BY <1>1, <1>3, <1>6 DEF OperatorOK, PlannedOK, BackupOK, MigratedOK, Changed
  <2>6. OperatorOK(o)'
    BY <1>1, <1>3, <1>6, <2>4, <2>5 DEF OperatorOK, PlannedOK, Changed
  <2>. QED  BY <1>3, <1>4, <1>6, <2>2, <2>3, <2>6, OneOperator
<1>7. CASE SaveBackup(o) /\ files[f] = NoItem
  <2>. DEFINE file == [items |-> before[o], durable |-> FALSE]
  <2>1. /\ pc[o] = "backup" /\ files' = [files EXCEPT ![f] = file]
        /\ pc' = [pc EXCEPT ![o] = "sync"] /\ UNCHANGED <<input, before, left>>
    BY <1>7 DEF SaveBackup, Goto
  <2>2. /\ IsRecord(file) /\ DOMAIN file = {"items", "durable"} /\ file # NoItem
        /\ file.items = before[o] /\ file.durable \in BOOLEAN
    <3>1. DOMAIN file = {"items", "durable"} /\ DOMAIN NoItem = {"NoItem"}
      BY DEF NoItem
    <3>2. IsRecord(file)
      BY DEF IsRecord
    <3>. QED  BY <3>1, <3>2
  <2>. HIDE DEF file
  <2>3. files'[f] = file /\ DOMAIN files' = Backups /\ \A g \in Backups \ {f} : files'[g] = files[g]
    BY <1>1, <1>2, <2>1 DEF StoresOK
  <2>4. FilesKept
    BY <1>7, <2>3 DEF FilesKept
  <2>5. StoresOK'
    BY <1>1, <1>3, <2>1, <2>2, <2>3 DEF StoresOK
  <2>6. /\ pc'[o] = "sync" /\ \A p \in Operators \ {o} : Idle(p)
        /\ pc' \in [Operators -> Active \cup {"idle", "ended", "verified", "failed"}]
        /\ left' \in [Operators -> SUBSET Ids] /\ left'[o] = left[o]
    BY <1>1, <2>1 DEF MigrationTypeOK, Active, Idle
  <2>. QED  BY <1>4, <1>6, <2>1, <2>2, <2>3, <2>4, <2>5, <2>6
<1>8. CASE SyncBackup(o)
  <2>1. /\ pc[o] = "sync" /\ files' = [files EXCEPT ![f].durable = TRUE]
        /\ left' = [left EXCEPT ![o] = Changed(before[o])]
        /\ pc' = [pc EXCEPT ![o] = "update"] /\ UNCHANGED <<input, before>>
    BY <1>8 DEF SyncBackup, Goto
  <2>2. /\ files[f] # NoItem /\ files[f].items = before[o]
        /\ IsRecord(files[f]) /\ DOMAIN files[f] = {"items", "durable"}
    BY <1>1, <1>2, <2>1 DEF OperatorOK, BackupOK, StoresOK
  <2>3. /\ files'[f] = [files[f] EXCEPT !.durable = TRUE] /\ DOMAIN files' = Backups
        /\ \A g \in Backups \ {f} : files'[g] = files[g]
    BY <1>1, <1>2, <2>1 DEF StoresOK
  <2>4. /\ DOMAIN files'[f] = {"items", "durable"} /\ IsRecord(files'[f])
        /\ files'[f].items = files[f].items /\ files'[f].durable = TRUE
    BY <2>2, <2>3 DEF IsRecord
  <2>5. files'[f] # NoItem
    BY <2>4 DEF NoItem
  <2>6. FilesKept
    BY <2>3, <2>4, <2>5 DEF FilesKept
  <2>7. StoresOK'
    BY <1>1, <1>3, <2>1, <2>3, <2>4 DEF StoresOK
  <2>8. Changed(before[o]) \in SUBSET Ids
    BY <1>1 DEF Changed, MigrationTypeOK
  <2>9. /\ pc'[o] = "update" /\ \A p \in Operators \ {o} : Idle(p)
        /\ pc' \in [Operators -> Active \cup {"idle", "ended", "verified", "failed"}]
        /\ left' \in [Operators -> SUBSET Ids] /\ left'[o] = Changed(before[o])
    BY <1>1, <2>1, <2>8 DEF MigrationTypeOK, Active, Idle
  <2>. QED  BY <1>4, <1>6, <2>1, <2>2, <2>4, <2>5, <2>6, <2>7, <2>9
<1>. QED  BY <1>5, <1>7, <1>8

LEMMA UpdateStep ==
    ASSUME MigrationInv, NEW o \in Operators, Update(o)
    PROVE  MigrationInv' /\ PayloadCarried
<1>. DEFINE i == NextId(o)
            old == before[o][i]
<1>1. pc[o] = "update" /\ UNCHANGED <<requests, files, running>> /\ ApplyUpdate(i, old)
  BY DEF Update
<1>2. /\ i \in left[o] /\ i \in Ids
      /\ Legacy(old) /\ ~Refused(old) /\ StillBounds(i, old)
      /\ Saved(input[o].backup, i, old) /\ input[o].backup \in Backups
  BY <1>1, NextIsPlanned
<1>3. \/ Goto(o, "check") /\ UNCHANGED <<input, before, left>>
      \/ Done(o, i) /\ UNCHANGED <<input, before>>
      \/ End(o, "failed")
  BY Zenon DEF Update
<1>. HIDE DEF i, old
<1>4. ItemsKept /\ PayloadCarried /\ replaced' \subseteq replaced \cup {[id |-> i, item |-> old]}
  BY <1>1, <1>2, UpdateApplied DEF MigrationInv
<1>5. FilesKept /\ SavedKept
  BY <1>1 DEF FilesKept, SavedKept
<1>6. OriginalsBackedUp'
  BY <1>2, <1>4, <1>5, OriginalsAdded DEF MigrationInv
<1>7. RequestsOK'
  BY <1>1, <1>4, <1>5, RequestsKept DEF MigrationInv
<1>8. DOMAIN before' = Operators => StoresOK'
  BY <1>1, <1>4 DEF MigrationInv, StoresOK, ItemsKept
<1>9. CASE End(o, "failed")
  BY <1>1, <1>4, <1>5, <1>6, <1>7, <1>8, <1>9, FailedRun
<1>10. CASE ~End(o, "failed")
  <2>1. StoresOK'
    BY <1>3, <1>8, <1>10 DEF MigrationInv, StoresOK
  <2>2. \A r \in requests' : r.id \in Ids /\ ~Refused(r.before) /\ Legacy(r.before)
    BY <1>1 DEF MigrationInv, MigrationTypeOK
  <2>. QED  BY <1>1, <1>2, <1>3, <1>4, <1>5, <1>6, <1>7, <1>10, <2>1, <2>2, NextRecord
<1>. QED  BY <1>9, <1>10

LEMMA UpdateUnknownStep ==
    ASSUME MigrationInv, NEW o \in Operators, UpdateUnknown(o)
    PROVE  MigrationInv' /\ PayloadCarried
<1>. DEFINE i == NextId(o)
            r == [id |-> i, before |-> before[o][i]]
<1>1. /\ pc[o] = "update" /\ requests' = requests \cup {r} /\ Goto(o, "check")
      /\ UNCHANGED <<items, files, running, replaced, input, before, left>>
  BY DEF UpdateUnknown
<1>2. /\ i \in left[o] /\ i \in Ids
      /\ Legacy(r.before) /\ ~Refused(r.before) /\ StillBounds(r.id, r.before)
      /\ Saved(input[o].backup, r.id, r.before) /\ input[o].backup \in Backups
  BY <1>1, NextIsPlanned
<1>3. ItemsKept /\ PayloadCarried /\ FilesKept /\ SavedKept
  BY <1>1, ItemsUntouched DEF MigrationInv, FilesKept, SavedKept
<1>4. StoresOK' /\ OriginalsBackedUp'
  BY <1>1, <1>3, OriginalsKept DEF MigrationInv, StoresOK
<1>5. RequestsOK'
  <2>1. \A q \in requests' : StillBounds(q.id, q.before) /\ \E f \in Backups : Saved(f, q.id, q.before)
    BY <1>1, <1>2 DEF MigrationInv, RequestsOK
  <2>. QED  BY <1>1, <2>1 DEF RequestsOK, StillBounds, Saved
<1>6. \A q \in requests' : q.id \in Ids /\ ~Refused(q.before) /\ Legacy(q.before)
  BY <1>1, <1>2 DEF MigrationInv, MigrationTypeOK
<1>. QED  BY <1>1, <1>2, <1>3, <1>4, <1>5, <1>6, NextRecord

LEMMA ReconcileStep ==
    ASSUME MigrationInv, NEW o \in Operators, Reconcile(o)
    PROVE  MigrationInv' /\ PayloadCarried
<1>. DEFINE i == NextId(o)
<1>1. pc[o] = "check" /\ UNCHANGED world
  BY DEF Reconcile
<1>2. \/ Done(o, i) /\ UNCHANGED <<input, before>>
      \/ End(o, "failed")
  BY DEF Reconcile
<1>3. i \in left[o]
  BY <1>1, NextIsPlanned
<1>. HIDE DEF i
<1>4. /\ ItemsKept /\ FilesKept /\ PayloadCarried /\ running' = running
      /\ DOMAIN before' = Operators => StoresOK'
      /\ RequestsOK' /\ OriginalsBackedUp' /\ requests' = requests
  BY <1>1, WorldUntouched DEF world
<1>5. CASE End(o, "failed")
  BY <1>4, <1>5, FailedRun
<1>6. CASE Done(o, i) /\ UNCHANGED <<input, before>>
  <2>1. StoresOK'
    BY <1>4, <1>6 DEF MigrationInv, StoresOK
  <2>2. \A r \in requests' : r.id \in Ids /\ ~Refused(r.before) /\ Legacy(r.before)
    BY <1>4 DEF MigrationInv, MigrationTypeOK
  <2>. QED  BY <1>1, <1>3, <1>4, <1>6, <2>1, <2>2, NextRecord
<1>. QED  BY <1>2, <1>4, <1>5, <1>6

LEMMA VerifyStep ==
    ASSUME MigrationInv, NEW o \in Operators, Verify(o)
    PROVE  MigrationInv' /\ PayloadCarried
<1>1. pc[o] = "verify" /\ UNCHANGED world /\ OperatorOK(o) /\ MigrationTypeOK /\ StoresOK
  BY DEF Verify, MigrationInv
<1>2. PICK i \in left[o] :
        \/ End(o, "failed")
        \/ /\ items[i] = IF i \in DOMAIN before[o] THEN migratedRepoItem(before[o][i]) ELSE NoItem
           /\ IF left[o] = {i} THEN End(o, "verified")
              ELSE left' = [left EXCEPT ![o] = @ \ {i}] /\ UNCHANGED <<pc, input, before>>
  BY Zenon DEF Verify
<1>3. CASE End(o, "failed")
  BY <1>1, <1>3, WorldUntouched, FailedRun DEF world
<1>4. CASE ~End(o, "failed")
  <2>1. ~Legacy(items[i])
    <3>1. ~Legacy(NoItem)
      BY DEF Legacy, NoItem, legacyRepoFields
    <3>. QED  BY <1>2, <1>4, <3>1, ConvertedRecord
  <2>2. "old" \notin running => \A j \in input[o].ids \ (left[o] \ {i}) : ~Legacy(items[j])
    BY <1>1, <2>1 DEF OperatorOK, MigratedOK
  <2>3. CASE left[o] = {i}
    <3>1. End(o, "verified")
      BY <1>2, <1>4, <2>3
    <3>2. /\ pc'[o] = "verified" /\ DOMAIN before'[o] = {} /\ input' = input
          /\ \A p \in Operators \ {o} : Idle(p)
          /\ DOMAIN before' = Operators
          /\ pc' \in [Operators -> Active \cup {"idle", "ended", "verified", "failed"}]
          /\ left' \in [Operators -> SUBSET Ids]
      BY <1>1, <3>1, Ended
    <3>3. MigrationTypeOK'
      BY <1>1, <3>2, TypesKept DEF MigrationTypeOK, world
    <3>4. MigratedOK(o)'
      BY <1>1, <2>2, <2>3, <3>2 DEF MigratedOK, world
    <3>5. OperatorOK(o)'
      BY <3>2, <3>4 DEF OperatorOK, PlannedOK, BackupOK
    <3>. QED  BY <1>1, <3>2, <3>3, <3>5, WorldUntouched, OneOperator
  <2>4. CASE left[o] # {i}
    <3>1. left' = [left EXCEPT ![o] = @ \ {i}] /\ UNCHANGED <<pc, input, before>>
      BY <1>2, <1>4, <2>4
    <3>2. /\ left'[o] = left[o] \ {i} /\ left' \in [Operators -> SUBSET Ids]
          /\ \A p \in Operators \ {o} : Idle(p)
      BY <1>1, <3>1 DEF MigrationTypeOK, Idle
    <3>3. MigrationTypeOK'
      BY <1>1, <3>1, <3>2, TypesKept DEF MigrationTypeOK, world
    <3>4. MigratedOK(o)'
      BY <1>1, <2>2, <3>1, <3>2 DEF MigratedOK, world
    <3>5. (\A j \in DOMAIN before[o] : StillBounds(j, before[o][j]))'
      BY <1>1, <3>1 DEF OperatorOK, StillBounds, world
    <3>6. OperatorOK(o)'
      BY <1>1, <3>1, <3>4, <3>5 DEF OperatorOK, PlannedOK, BackupOK
    <3>. QED  BY <1>1, <3>1, <3>2, <3>3, <3>6, WorldUntouched, OneOperator DEF StoresOK
  <2>. QED  BY <2>3, <2>4
<1>. QED  BY <1>1, <1>3, <1>4, WorldUntouched

\* What happens around the invocations.
LEMMA AroundStep ==
    ASSUME MigrationInv, LandUpdate \/ \E i \in Busy : Helper(i)
    PROVE  MigrationInv' /\ PayloadCarried
<1>1. /\ UNCHANGED <<files, running, pc, input, before, left>> /\ requests' \subseteq requests
      /\ \A p \in Operators : Idle(p)
      /\ FilesKept /\ SavedKept
  BY DEF LandUpdate, Helper, Idle, FilesKept, SavedKept
<1>2. MigrationTypeOK'
  BY <1>1 DEF MigrationInv, MigrationTypeOK, Changed
<1>3. ItemsKept /\ PayloadCarried /\ OriginalsBackedUp'
  <2>1. CASE LandUpdate
    <3>1. PICK r \in requests : ApplyUpdate(r.id, r.before)
      BY <2>1 DEF LandUpdate
    <3>2. /\ r.id \in Ids /\ ~Refused(r.before) /\ Legacy(r.before)
          /\ StillBounds(r.id, r.before)
      BY DEF MigrationInv, MigrationTypeOK, RequestsOK
    <3>3. PICK f \in Backups : Saved(f, r.id, r.before)
      BY DEF MigrationInv, RequestsOK
    <3>. DEFINE i == r.id
                old == r.before
    <3>. HIDE DEF i, old
    <3>4. i = r.id /\ old = r.before
      BY DEF i, old
    <3>5. ItemsKept /\ PayloadCarried /\ replaced' \subseteq replaced \cup {[id |-> i, item |-> old]}
      BY <3>1, <3>2, <3>4, UpdateApplied DEF MigrationInv
    <3>. QED  BY <1>1, <3>3, <3>4, <3>5, OriginalsAdded DEF MigrationInv
  <2>2. ASSUME NEW i \in Busy, Helper(i) PROVE ItemsKept /\ PayloadCarried /\ OriginalsBackedUp'
    <3>1. i \in Ids /\ replaced' = replaced
      BY <2>2, MigrationAssumption DEF Helper
    <3>. QED  BY <1>1, <2>2, <3>1, HelperWrites, OriginalsKept DEF MigrationInv
  <2>. QED  BY <2>1, <2>2
<1>4. StoresOK' /\ RequestsOK'
  BY <1>1, <1>3, RequestsKept DEF MigrationInv, StoresOK, ItemsKept
<1>5. \A p \in Operators : OperatorOK(p)'
  BY <1>1, <1>3, OperatorKept DEF MigrationInv
<1>. QED  BY <1>2, <1>3, <1>4, <1>5 DEF MigrationInv

LEMMA PowerLossStep ==
    ASSUME MigrationInv, PowerLoss
    PROVE  MigrationInv' /\ PayloadCarried
<1>1. /\ files' = [f \in Backups |-> IF files[f] # NoItem /\ ~files[f].durable THEN NoItem ELSE files[f]]
      /\ pc' = [o \in Operators |-> IF pc[o] \in Active THEN "failed" ELSE pc[o]]
      /\ before' = [o \in Operators |-> <<>>] /\ left' = [o \in Operators |-> {}]
      /\ UNCHANGED <<items, requests, running, replaced, input>>
  BY DEF PowerLoss
<1>2. MigrationTypeOK /\ StoresOK
  BY DEF MigrationInv
<1>3. SavedKept
  BY <1>1 DEF SavedKept
<1>4. /\ DOMAIN before' = Operators /\ \A p \in Operators : DOMAIN before'[p] = {} /\ left'[p] = {}
      /\ left' \in [Operators -> SUBSET Ids]
  BY <1>1, NoAttributes
<1>5. /\ pc' \in [Operators -> Active \cup {"idle", "ended", "verified", "failed"}]
      /\ \A p \in Operators : pc'[p] \notin Active /\ pc'[p] \in {pc[p], "failed"}
  BY <1>1, <1>2 DEF MigrationTypeOK, Active
<1>6. MigrationTypeOK'
  <2>1. \A p \in Operators : pc'[p] \notin {"update", "check"}
    BY <1>5 DEF Active
  <2>. QED  BY <1>1, <1>2, <1>4, <1>5, <2>1 DEF MigrationTypeOK
<1>7. StoresOK'
  BY <1>1, <1>2, <1>4 DEF StoresOK
<1>8. ItemsKept /\ PayloadCarried
  BY <1>1, <1>2, ItemsUntouched
<1>9. RequestsOK' /\ OriginalsBackedUp'
  BY <1>1, <1>3, <1>8, RequestsKept, OriginalsKept DEF MigrationInv
<1>10. ASSUME NEW p \in Operators PROVE OperatorOK(p)'
  <2>1. pc'[p] \notin {"snapshot", "plan", "backup", "sync", "update", "check", "verify"}
    BY <1>5 DEF Active
  <2>2. MigratedOK(p)'
    BY <1>1, <1>5, <2>1 DEF MigrationInv, OperatorOK, MigratedOK
  <2>. QED  BY <1>4, <2>1, <2>2 DEF OperatorOK, PlannedOK, BackupOK
<1>. QED  BY <1>6, <1>7, <1>8, <1>9, <1>10 DEF MigrationInv

LEMMA MigrationInitially ==
    ASSUME MigrationInit PROVE MigrationInv
<1>1. /\ items \in [Ids -> UNION {Initial[i] : i \in Ids}]
      /\ \A i \in Ids : items[i] \in Initial[i]
      /\ running \in Unstopped /\ requests = {} /\ replaced = {}
      /\ files = [f \in Backups |-> NoItem]
      /\ pc = [o \in Operators |-> "idle"]
      /\ before = [o \in Operators |-> <<>>] /\ left = [o \in Operators |-> {}]
  BY DEF MigrationInit
<1>2. PICK f \in Backups : input = [o \in Operators |->
          [apply |-> FALSE, exact |-> FALSE, ids |-> {}, backup |-> f]]
  BY DEF MigrationInit
<1>3. \A o \in Operators : pc[o] = "idle" /\ DOMAIN before[o] = {} /\ left[o] = {}
  BY <1>1, NoAttributes
<1>4. MigrationTypeOK
  <2>1. input \in [Operators -> [apply : BOOLEAN, exact : BOOLEAN, ids : SUBSET Ids, backup : Backups]]
    BY <1>2
  <2>2. pc \in [Operators -> Active \cup {"idle", "ended", "verified", "failed"}]
        /\ left \in [Operators -> SUBSET Ids]
    BY <1>1
  <2>3. running \subseteq {"old", "new"}
    BY <1>1, MigrationAssumption
  <2>. QED  BY <1>1, <1>3, <2>1, <2>2, <2>3 DEF MigrationTypeOK
<1>5. StoresOK
  BY <1>1, MigrationAssumption DEF StoresOK, IsRecord
<1>6. \A o \in Operators : OperatorOK(o)
  BY <1>3 DEF OperatorOK, PlannedOK, BackupOK, MigratedOK
<1>. QED  BY <1>1, <1>4, <1>5, <1>6 DEF MigrationInv, RequestsOK, OriginalsBackedUp

LEMMA MigrationStep ==
    ASSUME MigrationInv, MigrationNext PROVE MigrationInv' /\ PayloadCarried
<1>1. ASSUME NEW o \in Operators, Fail(o) PROVE MigrationInv' /\ PayloadCarried
  BY <1>1, WorldUntouched, FailedRun DEF Fail, world
<1>. QED  BY <1>1, BeginStep, SnapshotStep, PlanStep, BackupStep, UpdateStep, UpdateUnknownStep,
            ReconcileStep, VerifyStep, AroundStep, PowerLossStep DEF MigrationNext

----------------------------------------------------------------------------
(* Chains.                                                                 *)

LEMMA PrefixSelf ==
    ASSUME NEW s \in Chains
    PROVE  IsPrefix(s, s)
BY DEF IsPrefix, Chains

LEMMA PrefixAppend ==
    ASSUME NEW s \in Chains, NEW t \in Chains, NEW r \in Runs, IsPrefix(s, t)
    PROVE  IsPrefix(s, Append(t, r))
<1>. DEFINE n == Len(s)
<1>1. n \in Nat /\ Len(t) \in Nat /\ n <= Len(t) /\ SubSeq(s, 1, n) = SubSeq(t, 1, n)
  BY DEF IsPrefix, Chains
<1>2. t \in Seq(Runs \cup {Old, Other}) /\ r \in Runs \cup {Old, Other}
  BY DEF Chains
<1>3. Len(Append(t, r)) = Len(t) + 1 /\ Append(t, r) \in Seq(Runs \cup {Old, Other})
  BY <1>2
<1>4. \A i \in 1..n : Append(t, r)[i] = t[i]
  BY <1>1, <1>2
<1>5. SubSeq(Append(t, r), 1, n) = SubSeq(t, 1, n)
  BY <1>1, <1>2, <1>3, <1>4
<1>. QED  BY <1>1, <1>3, <1>5 DEF IsPrefix

\* An extended chain is neither a missing file nor another program's.
LEMMA ExtendedChain ==
    ASSUME NEW s \in Chains, NEW r \in Runs
    PROVE  /\ Append(s, r) \in Chains
           /\ Drawn(Append(s, r))
           /\ IsPrefix(s, Append(s, r))
<1>1. Append(s, r) \in Chains /\ Len(s) \in Nat
  BY DEF Chains
<1>2. Append(s, r) # Absent
  BY <1>1, KeygenAssumption
<1>3. ASSUME Append(s, r) = <<Other>> PROVE FALSE
  <2>1. Len(Append(s, r)) = Len(s) + 1 /\ Append(s, r)[Len(s) + 1] = r
    BY DEF Chains
  <2>2. Len(<<Other>>) = 1 /\ <<Other>>[1] = Other
    OBVIOUS
  <2>3. Len(s) + 1 = 1
    BY <1>3, <2>1, <2>2
  <2>4. r = Other
    BY <1>3, <2>1, <2>2, <2>3
  <2>. QED  BY <2>4, KeygenAssumption
<1>. QED  BY <1>1, <1>2, <1>3, PrefixSelf, PrefixAppend DEF Drawn

LEMMA FirstGeneration ==
    ASSUME NEW r \in Runs
    PROVE  <<r>> \in Chains /\ Append(<<>>, r) = <<r>> /\ Drawn(<<r>>)
<1>1. <<>> \in Chains /\ Append(<<>>, r) = <<r>>
  BY DEF Chains
<1>. QED  BY <1>1, ExtendedChain

----------------------------------------------------------------------------
(* Key generation.                                                         *)

Files(r) == {pair[r].public, pair[r].secret}

RunOK(r) == LocksOK(r) /\ MadeOK(r) /\ PublishedOK(r)

LEMMA KeygenInitially ==
    ASSUME KeygenInit PROVE KeygenInv
<1>1. \A p \in Paths : entry[p] \in {<<Old>>, Absent} /\ survives[p] = {entry[p]}
  BY DEF KeygenInit
<1>2. <<Old>> \in Chains /\ <<>> \in Chains
  BY DEF Chains
<1>3. KeygenTypeOK
  <2>1. DOMAIN entry = Paths /\ entry = [p \in Paths |-> entry[p]]
    BY DEF KeygenInit
  <2>2. entry \in [Paths -> Chains \cup {Absent}]
    BY <1>1, <1>2, <2>1
  <2>3. survives \in [Paths -> SUBSET (Chains \cup {Absent})]
    BY <2>2 DEF KeygenInit
  <2>4. lock \in [Dirs -> Runs \cup {Nobody}] /\ pair \in [Runs -> Pairs]
    BY DEF KeygenInit
  <2>5. at \in [Runs -> Working \cup {"idle", "ok", "failed"}] /\ fresh \in [Runs -> BOOLEAN]
    BY DEF KeygenInit
  <2>6. made \in [Runs -> Chains]
    BY <1>2 DEF KeygenInit
  <2>. QED  BY <1>1, <2>2, <2>3, <2>4, <2>5, <2>6 DEF KeygenTypeOK
<1>4. \A r \in Runs : at[r] = "idle"
  BY DEF KeygenInit
<1>5. \A r \in Runs : RunOK(r)
  BY <1>4 DEF RunOK, LocksOK, MadeOK, PublishedOK, Publishing
<1>6. PublicHasSecret
  <2>1. SUFFICES ASSUME NEW q \in Pairs,
                        NEW v \in survives[q.public], NEW w \in survives[q.secret], Drawn(v)
                 PROVE  Drawn(w) /\ IsPrefix(v, w)
    BY DEF PublicHasSecret
  <2>2. q.public \in Paths /\ q.secret \in Paths
    BY KeygenAssumption
  <2>3. PICK existing \in SUBSET Pairs :
          entry = [p \in Paths |-> IF \E x \in existing : p \in {x.public, x.secret}
                                   THEN <<Old>> ELSE Absent]
    BY DEF KeygenInit
  <2>4. v = entry[q.public] /\ w = entry[q.secret]
    BY <1>1, <2>2
  <2>5. v = <<Old>>
    BY <1>1, <2>1, <2>2, <2>4 DEF Drawn
  <2>6. <<Old>> # Absent
    BY <1>2, KeygenAssumption
  <2>7. PICK x \in existing : q.public \in {x.public, x.secret}
    BY <2>2, <2>3, <2>4, <2>5, <2>6
  <2>8. x = q
    BY <2>3, <2>7, KeygenAssumption
  <2>9. w = <<Old>>
    BY <2>2, <2>3, <2>4, <2>7, <2>8
  <2>. QED  BY <1>2, <2>1, <2>5, <2>9, PrefixSelf
<1>7. SuccessIsDurable
  BY <1>4 DEF SuccessIsDurable
<1>. QED  BY <1>3, <1>5, <1>6, <1>7 DEF KeygenInv, RunOK

LEMMA KeygenTypes ==
    ASSUME KeygenTypeOK, \A r \in Runs : RunOK(r), KeygenNext
    PROVE  KeygenTypeOK'
<1>. USE DEF KeygenTypeOK
<1>1. \A r \in Runs : pair[r].public \in Paths /\ pair[r].secret \in Paths /\ Target(r) \in Paths
  BY KeygenAssumption DEF Target
<1>2. \A r \in Runs, s \in Working \cup {"idle", "ok", "failed"} : Enter(r, s)
        => at' \in [Runs -> Working \cup {"idle", "ok", "failed"}]
  BY DEF Enter
<1>3. \A r \in Runs, s \in {"ok", "failed"} : Return(r, s)
        => /\ at' \in [Runs -> Working \cup {"idle", "ok", "failed"}]
           /\ lock' \in [Dirs -> Runs \cup {Nobody}]
  BY <1>2 DEF Return
<1>4. CASE \E r \in Runs : StartKeygen(r) \/ KeygenFails(r)
  BY <1>2, <1>3, <1>4 DEF StartKeygen, KeygenFails, Working, disk
<1>5. ASSUME NEW r \in Runs, LockDir(r) PROVE KeygenTypeOK'
  <2>1. PICK d \in KeyDirs(r) :
          IF lock[d] # Nobody THEN Return(r, "failed")
             ELSE /\ lock' = [lock EXCEPT ![d] = r]
                  /\ Enter(r, IF \A e \in KeyDirs(r) \ {d} : lock[e] = r THEN "stat" ELSE "lock")
    BY <1>5 DEF LockDir
  <2>2. lock' \in [Dirs -> Runs \cup {Nobody}]
    BY <2>1, <1>3
  <2>3. at' \in [Runs -> Working \cup {"idle", "ok", "failed"}]
    BY <2>1, <1>2, <1>3 DEF Working
  <2>. QED  BY <2>2, <2>3, <1>5 DEF LockDir, disk
<1>6. ASSUME NEW r \in Runs, Stat(r) PROVE KeygenTypeOK'
  <2>1. fresh' \in [Runs -> BOOLEAN] /\ UNCHANGED <<entry, survives, pair, made>>
    BY <1>6 DEF Stat, disk
  <2>2. at' \in [Runs -> Working \cup {"idle", "ok", "failed"}] /\ lock' \in [Dirs -> Runs \cup {Nobody}]
    BY <1>6, <1>2, <1>3 DEF Stat, Working
  <2>. QED  BY <2>1, <2>2
<1>7. ASSUME NEW r \in Runs, RotateKeyChain(r) PROVE KeygenTypeOK'
  <2>1. \A c \in Chains : Append(c, r) \in Chains
    BY ExtendedChain
  <2>2. UNCHANGED <<entry, survives, pair, fresh>>
    BY <1>7 DEF RotateKeyChain, disk
  <2>3. at' \in [Runs -> Working \cup {"idle", "ok", "failed"}] /\ lock' \in [Dirs -> Runs \cup {Nobody}]
    BY <1>7, <1>2, <1>3 DEF RotateKeyChain, Working, Publishing
  <2>4. made' \in [Runs -> Chains]
    <3>1. <<>> \in Chains
      BY DEF Chains
    <3>2. CASE fresh[r]
      BY <1>7, <2>1, <3>1, <3>2 DEF RotateKeyChain, Return
    <3>3. CASE ~fresh[r]
      <4>1. entry[pair[r].secret] \in Chains \cup {Absent}
        BY <1>1
      <4>2. entry[pair[r].secret] # Absent
        BY <3>3, <1>7 DEF RunOK, MadeOK, RotateKeyChain
      <4>. QED  BY <1>7, <2>1, <3>3, <4>1, <4>2 DEF RotateKeyChain, Return
    <3>. QED  BY <3>2, <3>3
  <2>. QED  BY <2>2, <2>3, <2>4
<1>8. ASSUME NEW r \in Runs, LinkOrRename(r) PROVE KeygenTypeOK'
  BY <1>8, <1>1, <1>2, <1>3 DEF LinkOrRename, Working, Publishing, disk
<1>9. ASSUME NEW r \in Runs, SyncDir(r) PROVE KeygenTypeOK'
  BY <1>9, <1>1, <1>2, <1>3 DEF SyncDir, Working, Publishing
<1>10. CASE Appears
  <2>1. <<Other>> \in Chains
    BY DEF Chains
  <2>. QED  BY <1>10, <2>1 DEF Appears
<1>11. CASE KeygenPowerLoss
  BY <1>11 DEF KeygenPowerLoss
<1>. QED  BY <1>4, <1>5, <1>6, <1>7, <1>8, <1>9, <1>10, <1>11 DEF KeygenNext, Keygen

\* A step that takes no lock away from s and replaces none of the files s
\* has found leaves everything true of s.
LEMMA RunKept ==
    ASSUME KeygenTypeOK, NEW s \in Runs, RunOK(s),
           at'[s] = at[s], pair'[s] = pair[s], fresh'[s] = fresh[s], made'[s] = made[s],
           \A d \in Dirs : lock[d] = s => lock'[d] = s,
           at[s] \in {"read"} \cup Publishing =>
              \A p \in Files(s) : entry[p] # Absent =>
                 entry'[p] = entry[p] /\ survives'[p] \in {survives[p], {entry[p]}}
    PROVE  RunOK(s)'
<1>. DEFINE public == pair[s].public
            secret == pair[s].secret
<1>1. public \in Paths /\ secret \in Paths /\ Files(s) = {public, secret}
  BY KeygenAssumption DEF KeygenTypeOK, Files
<1>2. KeyDirs(s)' = KeyDirs(s) /\ KeyDirs(s) \subseteq Dirs
  BY <1>1, KeygenAssumption DEF KeyDirs
<1>3. LocksOK(s)'
  BY <1>2 DEF RunOK, LocksOK
<1>4. made[s] \in Chains /\ made[s] # Absent
  BY KeygenAssumption DEF KeygenTypeOK
<1>5. entry[public] \in survives[public] /\ entry[secret] \in survives[secret]
  BY <1>1 DEF KeygenTypeOK
<1>6. MadeOK(s)'
  BY <1>1 DEF RunOK, MadeOK, Publishing
<1>7. PublishedOK(s)'
  <2>1. ASSUME at[s] = "syncSecret" PROVE entry'[secret] = made[s]
    BY <2>1, <1>1, <1>4 DEF RunOK, PublishedOK, Publishing
  <2>2. ASSUME at[s] \in {"public", "syncPublic"} PROVE survives'[secret] = {made[s]}
    <3>1. survives[secret] = {made[s]} /\ entry[secret] = made[s]
      BY <2>2, <1>5 DEF RunOK, PublishedOK
    <3>. QED  BY <2>2, <3>1, <1>1, <1>4 DEF Publishing
  <2>3. ASSUME at[s] = "syncPublic" PROVE entry'[public] = made[s]
    BY <2>3, <1>1, <1>4 DEF RunOK, PublishedOK, Publishing
  <2>. QED  BY <2>1, <2>2, <2>3 DEF PublishedOK
<1>. QED  BY <1>3, <1>6, <1>7 DEF RunOK

\* Two invocations that hold their directories have no file in common.
LEMMA Alone ==
    ASSUME KeygenTypeOK, NEW r \in Runs, NEW s \in Runs, r # s, LocksOK(r), LocksOK(s),
           at[r] \in {"stat", "read"} \cup Publishing, at[s] \in {"stat", "read"} \cup Publishing
    PROVE  Files(r) \cap Files(s) = {}
<1>1. pair[r] \in Pairs /\ pair[s] \in Pairs
  BY DEF KeygenTypeOK
<1>2. CASE pair[r] = pair[s]
  <2>1. DirOf[pair[r].public] \in KeyDirs(r) /\ DirOf[pair[r].public] \in KeyDirs(s)
    BY <1>2 DEF KeyDirs
  <2>. QED  BY <2>1 DEF LocksOK
<1>3. CASE pair[r] # pair[s]
  BY <1>1, <1>3, KeygenAssumption DEF Files
<1>. QED  BY <1>2, <1>3

\* A return takes no lock from anybody else.
LEMMA ReturnFrame ==
    ASSUME KeygenTypeOK, NEW r \in Runs, NEW outcome \in {"ok", "failed"}, Return(r, outcome)
    PROVE  /\ at'[r] = outcome
           /\ \A s \in Runs \ {r} : at'[s] = at[s] /\ \A d \in Dirs : lock[d] = s => lock'[d] = s
BY DEF Return, Enter, KeygenTypeOK

\* What an invocation that ended has to keep.
LEMMA EndedRun ==
    ASSUME NEW s \in Runs, at[s] \in {"idle", "lock", "ok", "failed"}
    PROVE  RunOK(s)
BY DEF RunOK, LocksOK, MadeOK, PublishedOK, Publishing

\* Steps that leave the files alone.
LEMMA FilesUntouched ==
    ASSUME KeygenTypeOK, \A s \in Runs : RunOK(s), NEW r \in Runs,
           StartKeygen(r) \/ LockDir(r) \/ Stat(r) \/ RotateKeyChain(r) \/ KeygenFails(r)
    PROVE  /\ UNCHANGED <<entry, survives, pair>>
           /\ \A s \in Runs \ {r} : at'[s] = at[s] /\ made'[s] = made[s]
           /\ at'[r] # "ok"
           /\ \A s \in Runs : RunOK(s)'
<1>1. UNCHANGED <<entry, survives, pair>>
  BY DEF StartKeygen, LockDir, Stat, RotateKeyChain, KeygenFails, disk
<1>2. \A d \in KeyDirs(r) : d \in Dirs
  BY KeygenAssumption DEF KeyDirs, KeygenTypeOK
<1>3. \A s \in Runs \ {r} : fresh'[s] = fresh[s] /\ made'[s] = made[s]
  BY DEF StartKeygen, LockDir, Stat, RotateKeyChain, KeygenFails, KeygenTypeOK
<1>4. \A s \in Runs \ {r} : at'[s] = at[s] /\ \A d \in Dirs : lock[d] = s => lock'[d] = s
  <2>1. CASE StartKeygen(r) \/ KeygenFails(r)
    BY <2>1, ReturnFrame DEF StartKeygen, KeygenFails, Enter, KeygenTypeOK
  <2>2. CASE LockDir(r)
    BY <2>2, <1>2, ReturnFrame, KeygenAssumption DEF LockDir, Enter, KeygenTypeOK
  <2>3. CASE Stat(r) \/ RotateKeyChain(r)
    BY <2>3, ReturnFrame DEF Stat, RotateKeyChain, Enter, KeygenTypeOK
  <2>. QED  BY <2>1, <2>2, <2>3
<1>5. \A s \in Runs \ {r} : RunOK(s)'
  BY <1>1, <1>3, <1>4, RunKept, Zenon
<1>6. RunOK(r)' /\ at'[r] # "ok"
  <2>. DEFINE public == pair[r].public
              secret == pair[r].secret
  <2>1. CASE StartKeygen(r) \/ KeygenFails(r)
    <3>1. at'[r] \in {"lock", "failed"}
      BY <2>1, ReturnFrame DEF StartKeygen, KeygenFails, Enter, KeygenTypeOK
    <3>. QED  BY <3>1 DEF RunOK, LocksOK, MadeOK, PublishedOK, Publishing
  <2>2. CASE LockDir(r)
    <3>1. PICK d \in KeyDirs(r) :
            IF lock[d] # Nobody THEN Return(r, "failed")
               ELSE /\ lock' = [lock EXCEPT ![d] = r]
                    /\ Enter(r, IF \A e \in KeyDirs(r) \ {d} : lock[e] = r THEN "stat" ELSE "lock")
      BY <2>2 DEF LockDir
    <3>2. at'[r] \in {"stat", "lock", "failed"}
      BY <3>1, ReturnFrame DEF Enter, KeygenTypeOK
    <3>3. ASSUME at'[r] = "stat" PROVE \A e \in KeyDirs(r) : lock'[e] = r
      <4>1. lock[d] = Nobody /\ \A e \in KeyDirs(r) \ {d} : lock[e] = r
        BY <3>1, <3>3, ReturnFrame DEF Enter, KeygenTypeOK
      <4>. QED  BY <3>1, <4>1, <1>2 DEF KeygenTypeOK
    <3>4. KeyDirs(r)' = KeyDirs(r)
      BY <1>1 DEF KeyDirs
    <3>. QED  BY <3>2, <3>3, <3>4 DEF RunOK, LocksOK, MadeOK, PublishedOK, Publishing
  <2>3. CASE Stat(r)
    <3>1. CASE at'[r] = "failed"
      BY <3>1 DEF RunOK, LocksOK, MadeOK, PublishedOK, Publishing
    <3>2. CASE at'[r] # "failed"
      <4>. DEFINE absent == {p \in {public, secret} : entry[p] = Absent}
      <4>1. /\ fresh' = [fresh EXCEPT ![r] = absent # {}]
            /\ at' = [at EXCEPT ![r] = "read"] /\ lock' = lock
        BY <2>3, <3>2, ReturnFrame DEF Stat, Enter
      <4>2. at'[r] = "read" /\ fresh'[r] = (absent # {})
        BY <4>1 DEF KeygenTypeOK
      <4>3. at[r] = "stat" /\ KeyDirs(r)' = KeyDirs(r)
        BY <2>3, <1>1 DEF Stat, KeyDirs
      <4>. QED  BY <1>1, <4>1, <4>2, <4>3 DEF RunOK, LocksOK, MadeOK, PublishedOK, Publishing
    <3>. QED  BY <3>1, <3>2, <2>3, ReturnFrame DEF Stat, Enter, KeygenTypeOK
  <2>4. CASE RotateKeyChain(r)
    <3>1. CASE at'[r] = "failed"
      BY <3>1 DEF RunOK, LocksOK, MadeOK, PublishedOK, Publishing
    <3>2. CASE at'[r] # "failed"
      <4>1. /\ fresh[r] \/ entry[public] = entry[secret]
            /\ made' = [made EXCEPT ![r] = Append(IF fresh[r] THEN <<>> ELSE entry[secret], r)]
            /\ at' = [at EXCEPT ![r] = "secret"] /\ lock' = lock
        BY <2>4, <3>2, ReturnFrame DEF RotateKeyChain, Enter
      <4>2. at'[r] = "secret" /\ made'[r] = Append(IF fresh[r] THEN <<>> ELSE entry[secret], r)
        BY <4>1 DEF KeygenTypeOK
      <4>3. at[r] = "read" /\ KeyDirs(r)' = KeyDirs(r) /\ fresh' = fresh
        BY <2>4, <1>1 DEF RotateKeyChain, KeyDirs
      <4>4. LocksOK(r)'
        BY <4>1, <4>2, <4>3 DEF RunOK, LocksOK
      <4>5. MadeOK(r)'
        BY <1>1, <4>1, <4>2, <4>3, FirstGeneration DEF RunOK, MadeOK
      <4>6. PublishedOK(r)'
        BY <4>2 DEF PublishedOK
      <4>. QED  BY <4>2, <4>4, <4>5, <4>6 DEF RunOK
    <3>3. at'[r] \in {"failed", "secret"}
      BY <2>4, ReturnFrame DEF RotateKeyChain, Enter, KeygenTypeOK
    <3>. QED  BY <3>1, <3>2, <3>3
  <2>. QED  BY <2>1, <2>2, <2>3, <2>4
<1>. QED  BY <1>1, <1>3, <1>4, <1>5, <1>6

\* A chain is published: of the files, only the target changed.
LEMMA Published ==
    ASSUME KeygenTypeOK, PublicHasSecret, \A s \in Runs : RunOK(s),
           NEW r \in Runs, LinkOrRename(r), at'[r] # "failed"
    PROVE  /\ entry' = [entry EXCEPT ![Target(r)] = made[r]]
           /\ survives' = [survives EXCEPT ![Target(r)] = @ \cup {made[r]}]
           /\ at' = [at EXCEPT ![r] = IF at[r] = "secret" THEN "syncSecret" ELSE "syncPublic"]
           /\ UNCHANGED <<lock, pair, fresh, made>>
           /\ \A s \in Runs : RunOK(s)'
           /\ PublicHasSecret'
<1>. DEFINE public == pair[r].public
            secret == pair[r].secret
<1>1. /\ ~(fresh[r] /\ entry[Target(r)] # Absent)
      /\ entry' = [entry EXCEPT ![Target(r)] = made[r]]
      /\ survives' = [survives EXCEPT ![Target(r)] = @ \cup {made[r]}]
      /\ at' = [at EXCEPT ![r] = IF at[r] = "secret" THEN "syncSecret" ELSE "syncPublic"]
      /\ UNCHANGED <<lock, pair, fresh, made>>
  BY ReturnFrame DEF LinkOrRename, Enter
<1>2. at[r] \in {"secret", "public"} /\ RunOK(r)
  BY DEF LinkOrRename
<1>3. /\ public \in Paths /\ secret \in Paths /\ public # secret /\ pair[r] \in Pairs
      /\ Target(r) = IF at[r] = "secret" THEN secret ELSE public
  BY <1>2, KeygenAssumption DEF KeygenTypeOK, Target
<1>4. at'[r] = IF at[r] = "secret" THEN "syncSecret" ELSE "syncPublic"
  BY <1>1 DEF KeygenTypeOK
<1>5. \A s \in Runs \ {r} : RunOK(s)'
  <2>1. SUFFICES ASSUME NEW s \in Runs \ {r} PROVE RunOK(s)'
    OBVIOUS
  <2>2. at'[s] = at[s]
    BY <1>1 DEF KeygenTypeOK
  <2>3. ASSUME at[s] \in {"read"} \cup Publishing, NEW p \in Files(s)
        PROVE  entry'[p] = entry[p] /\ survives'[p] = survives[p]
    <3>1. Files(r) \cap Files(s) = {}
      BY <1>2, <2>3, Alone DEF RunOK, Publishing
    <3>2. Target(r) \in Files(r)
      BY <1>3 DEF Files
    <3>3. pair[s] \in Pairs /\ p \in Paths
      BY KeygenAssumption DEF Files, KeygenTypeOK
    <3>4. p # Target(r)
      BY <3>1, <3>2
    <3>. QED  BY <1>1, <3>3, <3>4 DEF KeygenTypeOK
  <2>. QED  BY <1>1, <2>2, <2>3, RunKept
<1>6. RunOK(r)'
  <2>1. LocksOK(r)'
    BY <1>1, <1>2 DEF RunOK, LocksOK, KeyDirs, Publishing
  <2>2. CASE at[r] = "secret"
    <3>1. entry'[secret] = made[r] /\ entry'[public] = entry[public] /\ made[r] # Absent
      BY <1>1, <1>3, <2>2, KeygenAssumption DEF KeygenTypeOK
    <3>. QED  BY <1>1, <1>2, <1>4, <2>1, <2>2, <3>1 DEF RunOK, MadeOK, PublishedOK, Publishing
  <2>3. CASE at[r] = "public"
    <3>1. /\ entry'[public] = made[r] /\ entry'[secret] = entry[secret] /\ made[r] # Absent
          /\ survives'[secret] = survives[secret]
      BY <1>1, <1>3, <2>3, KeygenAssumption DEF KeygenTypeOK
    <3>. QED  BY <1>1, <1>2, <1>4, <2>1, <2>3, <3>1 DEF RunOK, MadeOK, PublishedOK, Publishing
  <2>. QED  BY <1>2, <2>2, <2>3
<1>7. Drawn(made[r])
  <2>1. CASE fresh[r]
    BY <1>2, <2>1, FirstGeneration DEF RunOK, MadeOK, Publishing
  <2>2. CASE ~fresh[r]
    <3>1. entry[public] \in Chains /\ made[r] = Append(entry[public], r)
      BY <1>2, <1>3, <2>2 DEF RunOK, MadeOK, Publishing, KeygenTypeOK
    <3>. QED  BY <3>1, ExtendedChain
  <2>. QED  BY <2>1, <2>2
<1>8. PublicHasSecret'
  <2>1. SUFFICES ASSUME NEW q \in Pairs, NEW v \in survives'[q.public],
                        NEW w \in survives'[q.secret], Drawn(v)
                 PROVE  Drawn(w) /\ IsPrefix(v, w)
    BY DEF PublicHasSecret
  <2>2. q.public \in Paths /\ q.secret \in Paths /\ q.public # q.secret
    BY KeygenAssumption
  <2>3. CASE q # pair[r]
    <3>1. Target(r) \notin {q.public, q.secret}
      BY <1>3, <2>3, KeygenAssumption
    <3>2. v \in survives[q.public] /\ w \in survives[q.secret]
      BY <1>1, <2>2, <3>1 DEF KeygenTypeOK
    <3>. QED  BY <2>1, <3>2 DEF PublicHasSecret
  <2>4. CASE q = pair[r] /\ at[r] = "public"
    <3>1. survives'[secret] = {made[r]} /\ survives[secret] = {made[r]}
      BY <1>1, <1>2, <1>3, <2>4 DEF RunOK, PublishedOK, KeygenTypeOK
    <3>2. w = made[r]
      BY <2>4, <3>1
    <3>3. v \in survives[public] \cup {made[r]}
      BY <1>1, <1>3, <2>4 DEF KeygenTypeOK
    <3>4. CASE v = made[r]
      BY <1>7, <3>2, <3>4, PrefixSelf DEF KeygenTypeOK
    <3>5. CASE v # made[r]
      BY <1>3, <2>1, <3>1, <3>2, <3>3, <3>5 DEF PublicHasSecret
    <3>. QED  BY <3>4, <3>5
  <2>5. CASE q = pair[r] /\ at[r] = "secret"
    <3>1. v \in survives[public] /\ w \in survives[secret] \cup {made[r]}
      BY <1>1, <1>3, <2>5 DEF KeygenTypeOK
    <3>2. entry[secret] \in survives[secret]
      BY <1>3 DEF KeygenTypeOK
    <3>3. Drawn(entry[secret]) /\ IsPrefix(v, entry[secret])
      BY <1>3, <2>1, <3>1, <3>2 DEF PublicHasSecret
    <3>4. ~fresh[r]
      BY <1>1, <1>3, <2>5, <3>3 DEF Drawn
    <3>5. made[r] = Append(entry[secret], r)
      BY <1>2, <2>5, <3>4 DEF RunOK, MadeOK
    <3>6. v \in Chains /\ entry[secret] \in Chains
      BY <1>3, <2>1, <3>1, <3>3 DEF Drawn, KeygenTypeOK
    <3>7. IsPrefix(v, made[r])
      BY <3>3, <3>5, <3>6, PrefixAppend
    <3>. QED  BY <1>3, <1>7, <2>1, <3>1, <3>7 DEF PublicHasSecret
  <2>. QED  BY <1>2, <2>3, <2>4, <2>5
<1>. QED  BY <1>1, <1>5, <1>6, <1>8

\* A directory is synced: what may be left of a file only shrinks.
LEMMA Synced ==
    ASSUME KeygenTypeOK, \A s \in Runs : RunOK(s), NEW r \in Runs, SyncDir(r)
    PROVE  /\ UNCHANGED <<entry, pair, made>>
           /\ \A p \in Paths : survives'[p] \in {survives[p], {entry[p]}}
           /\ \A s \in Runs : RunOK(s)'
           /\ \A s \in Runs \ {r} : at'[s] = at[s]
           /\ at'[r] = "ok" => \A p \in Files(r) : survives'[p] = {made[r]}
<1>. DEFINE public == pair[r].public
            secret == pair[r].secret
<1>1. /\ UNCHANGED <<entry, pair, made, fresh>>
      /\ survives' = [p \in Paths |-> IF DirOf[p] = DirOf[Target(r)] THEN {entry[p]} ELSE survives[p]]
      /\ at[r] \in {"syncSecret", "syncPublic"} /\ RunOK(r)
  BY DEF SyncDir
<1>2. \A p \in Paths : survives'[p] \in {survives[p], {entry[p]}}
  BY <1>1
<1>3. /\ public \in Paths /\ secret \in Paths /\ public # secret
      /\ Target(r) = IF at[r] = "syncSecret" THEN secret ELSE public
  BY <1>1, KeygenAssumption DEF KeygenTypeOK, Target
<1>4. survives'[Target(r)] = {entry[Target(r)]}
  BY <1>1, <1>3
<1>5. \A s \in Runs \ {r} : at'[s] = at[s] /\ \A d \in Dirs : lock[d] = s => lock'[d] = s
  BY ReturnFrame DEF SyncDir, Enter, KeygenTypeOK
<1>6. \A s \in Runs \ {r} : RunOK(s)'
  <2>1. \A s \in Runs : \A p \in Files(s) : p \in Paths
    BY KeygenAssumption DEF Files, KeygenTypeOK
  <2>. QED  BY <1>1, <1>2, <1>5, <2>1, RunKept
<1>7. CASE at[r] = "syncSecret"
  <2>1. at'[r] = "public" /\ UNCHANGED lock
    BY <1>7 DEF SyncDir, Enter, KeygenTypeOK
  <2>2. survives'[secret] = {made[r]}
    BY <1>1, <1>3, <1>4, <1>7 DEF RunOK, PublishedOK
  <2>3. RunOK(r)'
    BY <1>1, <1>7, <2>1, <2>2 DEF RunOK, LocksOK, MadeOK, PublishedOK, KeyDirs, Publishing
  <2>. QED  BY <1>1, <1>2, <1>5, <1>6, <2>1, <2>3
<1>8. CASE at[r] = "syncPublic"
  <2>1. at'[r] = "ok"
    BY <1>8, ReturnFrame DEF SyncDir
  <2>2. RunOK(r)'
    BY <2>1 DEF RunOK, LocksOK, MadeOK, PublishedOK, Publishing
  <2>3. survives'[public] = {made[r]}
    BY <1>1, <1>3, <1>4, <1>8 DEF RunOK, PublishedOK
  <2>4. entry[secret] \in survives[secret] /\ survives[secret] = {made[r]}
    BY <1>1, <1>3, <1>8 DEF RunOK, PublishedOK, KeygenTypeOK
  <2>5. survives'[secret] = {made[r]}
    BY <1>2, <1>3, <2>4
  <2>. QED  BY <1>1, <1>2, <1>5, <1>6, <2>2, <2>3, <2>5 DEF Files
<1>. QED  BY <1>1, <1>7, <1>8

\* What may be left of a file, one that was not there aside, was there before
\* or extends what was.
LEMMA SuccessKept ==
    ASSUME KeygenTypeOK, SuccessIsDurable, NEW s \in Runs, at[s] = "ok",
           UNCHANGED <<pair, made>>,
           \A p \in Files(s) : \A v \in survives'[p] :
              \/ v \in survives[p]
              \/ entry[p] = Absent
              \/ \E r \in Runs : v = Append(entry[p], r)
    PROVE  \A p \in Files(s) : \A v \in survives'[p] : v # Absent /\ IsPrefix(made[s], v)
<1>1. SUFFICES ASSUME NEW p \in Files(s), NEW v \in survives'[p]
               PROVE  v # Absent /\ IsPrefix(made[s], v)
  OBVIOUS
<1>2. p \in Paths
  BY KeygenAssumption DEF Files, KeygenTypeOK
<1>3. entry[p] \in survives[p] /\ entry[p] \in Chains \cup {Absent} /\ made[s] \in Chains
  BY <1>2 DEF KeygenTypeOK
<1>4. entry[p] # Absent /\ IsPrefix(made[s], entry[p])
  BY <1>3 DEF SuccessIsDurable, Files
<1>5. CASE v \in survives[p]
  BY <1>5 DEF SuccessIsDurable, Files
<1>6. CASE \E r \in Runs : v = Append(entry[p], r)
  BY <1>3, <1>4, <1>6, PrefixAppend, ExtendedChain DEF Drawn
<1>. QED  BY <1>1, <1>4, <1>5, <1>6

LEMMA KeygenStep ==
    ASSUME KeygenInv, KeygenNext PROVE KeygenInv'
<1>1. KeygenTypeOK /\ PublicHasSecret /\ SuccessIsDurable /\ \A s \in Runs : RunOK(s)
  BY DEF KeygenInv, RunOK
<1>2. KeygenTypeOK'
  BY <1>1, KeygenTypes
<1>3. \A s \in Runs : \A p \in Files(s) : p \in Paths
  BY <1>1, KeygenAssumption DEF KeygenTypeOK, Files
\* What a power loss may leave only shrinks.
<1>4. ASSUME \A p \in Paths : survives'[p] \subseteq survives[p] PROVE PublicHasSecret'
  <2>1. \A q \in Pairs : q.public \in Paths /\ q.secret \in Paths
    BY KeygenAssumption
  <2>. QED  BY <1>1, <1>4, <2>1 DEF PublicHasSecret
<1>5. ASSUME NEW r \in Runs,
             StartKeygen(r) \/ LockDir(r) \/ Stat(r) \/ RotateKeyChain(r) \/ KeygenFails(r)
      PROVE  KeygenInv'
  <2>1. /\ UNCHANGED <<entry, survives, pair>>
        /\ \A s \in Runs \ {r} : at'[s] = at[s] /\ made'[s] = made[s]
        /\ at'[r] # "ok"
        /\ \A s \in Runs : RunOK(s)'
    BY <1>1, <1>5, FilesUntouched
  <2>2. PublicHasSecret'
    BY <1>4, <2>1
  <2>3. SuccessIsDurable'
    BY <1>1, <2>1 DEF SuccessIsDurable
  <2>. QED  BY <1>2, <2>1, <2>2, <2>3 DEF KeygenInv, RunOK
<1>6. ASSUME NEW r \in Runs, LinkOrRename(r) PROVE KeygenInv'
  <2>1. CASE at'[r] = "failed"
    <3>1. UNCHANGED <<entry, survives, pair, fresh, made>> /\ Return(r, "failed")
      BY <1>6, <2>1, <1>1 DEF LinkOrRename, Enter, disk, KeygenTypeOK
    <3>2. \A s \in Runs \ {r} : RunOK(s)'
      BY <1>1, <3>1, ReturnFrame, RunKept
    <3>3. RunOK(r)'
      BY <2>1 DEF RunOK, LocksOK, MadeOK, PublishedOK, Publishing
    <3>4. PublicHasSecret'
      BY <1>4, <3>1
    <3>5. SuccessIsDurable'
      BY <1>1, <2>1, <3>1, ReturnFrame DEF SuccessIsDurable
    <3>. QED  BY <1>2, <3>2, <3>3, <3>4, <3>5 DEF KeygenInv, RunOK
  <2>2. CASE at'[r] # "failed"
    <3>1. /\ entry' = [entry EXCEPT ![Target(r)] = made[r]]
          /\ survives' = [survives EXCEPT ![Target(r)] = @ \cup {made[r]}]
          /\ at' = [at EXCEPT ![r] = IF at[r] = "secret" THEN "syncSecret" ELSE "syncPublic"]
          /\ UNCHANGED <<lock, pair, fresh, made>>
          /\ \A s \in Runs : RunOK(s)'
          /\ PublicHasSecret'
      BY <1>1, <1>6, <2>2, Published
    <3>2. fresh[r] => entry[Target(r)] = Absent
      BY <1>6, <2>2, ReturnFrame, <1>1 DEF LinkOrRename
    <3>3. ~fresh[r] => made[r] = Append(entry[Target(r)], r)
      BY <1>1, <1>6 DEF LinkOrRename, RunOK, MadeOK, Target, Publishing
    <3>4. \A p \in Paths : \A v \in survives'[p] :
              v \in survives[p] \/ (p = Target(r) /\ v = made[r])
      BY <3>1, <1>1 DEF KeygenTypeOK
    <3>5. \A s \in Runs : at'[s] = "ok" => at[s] = "ok"
      BY <3>1, <1>1 DEF KeygenTypeOK
    <3>6. ASSUME NEW s \in Runs, at'[s] = "ok"
          PROVE  \A p \in Files(s) : \A v \in survives'[p] : v # Absent /\ IsPrefix(made[s], v)
      <4>1. \A p \in Files(s) : \A v \in survives'[p] :
              \/ v \in survives[p]
              \/ entry[p] = Absent
              \/ \E t \in Runs : v = Append(entry[p], t)
        BY <1>3, <3>2, <3>3, <3>4
      <4>. QED  BY <1>1, <3>1, <3>5, <3>6, <4>1, SuccessKept
    <3>7. SuccessIsDurable'
      BY <3>1, <3>6 DEF SuccessIsDurable, Files
    <3>. QED  BY <1>2, <3>1, <3>7 DEF KeygenInv, RunOK
  <2>. QED  BY <2>1, <2>2
<1>7. ASSUME NEW r \in Runs, SyncDir(r) PROVE KeygenInv'
  <2>1. /\ UNCHANGED <<entry, pair, made>>
        /\ \A p \in Paths : survives'[p] \in {survives[p], {entry[p]}}
        /\ \A s \in Runs : RunOK(s)'
        /\ \A s \in Runs \ {r} : at'[s] = at[s]
        /\ at'[r] = "ok" => \A p \in Files(r) : survives'[p] = {made[r]}
    BY <1>1, <1>7, Synced
  <2>2. \A p \in Paths : survives'[p] \subseteq survives[p]
    BY <1>1, <2>1 DEF KeygenTypeOK
  <2>3. PublicHasSecret'
    BY <1>4, <2>2
  <2>4. ASSUME NEW s \in Runs, at'[s] = "ok"
        PROVE  \A p \in Files(s) : \A v \in survives'[p] : v # Absent /\ IsPrefix(made[s], v)
    <3>1. CASE s = r
      BY <1>1, <2>1, <2>4, <3>1, PrefixSelf, KeygenAssumption DEF KeygenTypeOK
    <3>2. CASE s # r
      BY <1>1, <1>3, <2>1, <2>2, <2>4, <3>2 DEF SuccessIsDurable, Files
    <3>. QED  BY <3>1, <3>2
  <2>5. SuccessIsDurable'
    BY <2>1, <2>4 DEF SuccessIsDurable, Files
  <2>. QED  BY <1>2, <2>1, <2>3, <2>5 DEF KeygenInv, RunOK
<1>8. CASE Appears
  <2>1. PICK p \in Paths :
          /\ entry[p] = Absent
          /\ entry' = [entry EXCEPT ![p] = <<Other>>]
          /\ survives' = [survives EXCEPT ![p] = @ \cup {<<Other>>}]
    BY <1>8 DEF Appears
  <2>2. UNCHANGED <<lock, at, pair, fresh, made>>
    BY <1>8 DEF Appears
  <2>3. \A x \in Paths : x # p => entry'[x] = entry[x] /\ survives'[x] = survives[x]
    BY <1>1, <2>1 DEF KeygenTypeOK
  <2>4. survives'[p] = survives[p] \cup {<<Other>>} /\ Absent \in survives[p]
    BY <1>1, <2>1 DEF KeygenTypeOK
  <2>5. \A s \in Runs : RunOK(s)'
    <3>1. \A x \in Paths : entry[x] # Absent => entry'[x] = entry[x] /\ survives'[x] = survives[x]
      BY <2>1, <2>3
    <3>. QED  BY <1>1, <1>3, <2>2, <3>1, RunKept
  <2>6. PublicHasSecret'
    <3>1. SUFFICES ASSUME NEW q \in Pairs, NEW v \in survives'[q.public],
                          NEW w \in survives'[q.secret], Drawn(v)
                   PROVE  Drawn(w) /\ IsPrefix(v, w)
      BY DEF PublicHasSecret
    <3>2. q.public \in Paths /\ q.secret \in Paths
      BY KeygenAssumption
    <3>3. v \in survives[q.public]
      BY <2>3, <2>4, <3>1, <3>2 DEF Drawn
    <3>4. \A u \in survives[q.secret] : Drawn(u) /\ IsPrefix(v, u)
      BY <1>1, <3>1, <3>3 DEF PublicHasSecret
    <3>5. q.secret # p
      BY <2>4, <3>4 DEF Drawn
    <3>. QED  BY <2>3, <3>2, <3>4, <3>5
  <2>7. ASSUME NEW s \in Runs, at'[s] = "ok"
        PROVE  \A x \in Files(s) : \A v \in survives'[x] : v # Absent /\ IsPrefix(made[s], v)
    <3>1. \A x \in Files(s) : \A v \in survives'[x] : v \in survives[x] \/ entry[x] = Absent
      BY <1>3, <2>1, <2>3
    <3>. QED  BY <1>1, <2>2, <2>7, <3>1, SuccessKept
  <2>8. SuccessIsDurable'
    BY <2>2, <2>7 DEF SuccessIsDurable, Files
  <2>. QED  BY <1>2, <2>5, <2>6, <2>8 DEF KeygenInv, RunOK
<1>9. CASE KeygenPowerLoss
  <2>1. UNCHANGED <<pair, fresh, made>> /\ \A p \in Paths : survives'[p] = {entry'[p]} /\ entry'[p] \in survives[p]
    BY <1>9 DEF KeygenPowerLoss
  <2>2. \A s \in Runs : at'[s] \in {"idle", "ok", "failed"} /\ (at'[s] = "ok" => at[s] = "ok")
    BY <1>1, <1>9 DEF KeygenPowerLoss, KeygenTypeOK
  <2>3. \A s \in Runs : RunOK(s)'
    BY <2>2 DEF RunOK, LocksOK, MadeOK, PublishedOK, Publishing
  <2>4. PublicHasSecret'
    BY <1>4, <2>1
  <2>5. SuccessIsDurable'
    BY <1>1, <1>3, <2>1, <2>2 DEF SuccessIsDurable, Files
  <2>. QED  BY <1>2, <2>3, <2>4, <2>5 DEF KeygenInv, RunOK
<1>. QED  BY <1>5, <1>6, <1>7, <1>8, <1>9 DEF KeygenNext, Keygen

\* A published chain is new in its place or extends what was there.
LEMMA ChainsGrow ==
    ASSUME KeygenInv, KeygenNext, NEW p \in Paths, entry'[p] # entry[p], entry[p] # Absent
    PROVE  \/ entry'[p] # Absent /\ IsPrefix(entry[p], entry'[p])
           \/ KeygenPowerLoss
<1>1. KeygenTypeOK /\ PublicHasSecret /\ \A s \in Runs : RunOK(s)
  BY DEF KeygenInv, RunOK
<1>2. ASSUME NEW r \in Runs, Keygen(r) PROVE entry'[p] # Absent /\ IsPrefix(entry[p], entry'[p])
  <2>1. LinkOrRename(r)
    BY <1>1, <1>2, FilesUntouched DEF Keygen, SyncDir
  <2>2. at'[r] # "failed"
    BY <1>1, <2>1 DEF LinkOrRename, Enter, disk, KeygenTypeOK
  <2>3. entry' = [entry EXCEPT ![Target(r)] = made[r]]
    BY <1>1, <2>1, <2>2, Published
  <2>4. p = Target(r) /\ entry'[p] = made[r]
    BY <1>1, <2>3 DEF KeygenTypeOK
  <2>5. ~fresh[r]
    BY <1>1, <2>1, <2>2, <2>4, ReturnFrame DEF LinkOrRename
  <2>6. made[r] = Append(entry[p], r)
    BY <1>1, <2>1, <2>4, <2>5 DEF LinkOrRename, RunOK, MadeOK, Target, Publishing
  <2>7. entry[p] \in Chains
    BY <1>1 DEF KeygenTypeOK
  <2>. QED  BY <2>4, <2>6, <2>7, ExtendedChain DEF Drawn
<1>3. CASE Appears
  <2>1. PICK q \in Paths : entry[q] = Absent /\ entry' = [entry EXCEPT ![q] = <<Other>>]
    BY <1>3 DEF Appears
  <2>. QED  BY <1>1, <2>1 DEF KeygenTypeOK
<1>. QED  BY <1>2, <1>3 DEF KeygenNext

----------------------------------------------------------------------------
(* Both commands.                                                          *)

LEMMA CommandsStep ==
    ASSUME CommandsInv, [CommandsNext]_commandVars
    PROVE  /\ CommandsInv'
           /\ UNCHANGED migrationVars \/ MigrationNext
           /\ UNCHANGED keygenVars \/ KeygenNext
<1>1. ASSUME UNCHANGED migrationVars PROVE MigrationInv'
  <2>1. OriginalsBackedUp' /\ StoresOK' /\ RequestsOK' /\ MigrationTypeOK'
    <3>1. /\ items' = items /\ requests' = requests /\ files' = files /\ pc' = pc /\ input' = input
          /\ before' = before /\ left' = left /\ running' = running /\ replaced' = replaced
      BY <1>1 DEF migrationVars
    <3>2. OriginalsBackedUp /\ StoresOK /\ RequestsOK /\ MigrationTypeOK
      BY DEF CommandsInv, MigrationInv
    <3>3. OriginalsBackedUp'
      BY <3>1, <3>2, Zenon DEF OriginalsBackedUp
    <3>4. StoresOK'
      BY <3>1, <3>2, Zenon DEF StoresOK
    <3>5. RequestsOK'
      BY <3>1, <3>2, Zenon DEF RequestsOK, StillBounds, Saved
    <3>6. MigrationTypeOK'
      BY <3>1, <3>2, Zenon DEF MigrationTypeOK
    <3>. QED  BY <3>3, <3>4, <3>5, <3>6
  <2>2. /\ \A p \in Operators : Idle(p)
        /\ ItemsKept /\ FilesKept /\ running' = running
    BY <1>1, ItemsUntouched DEF migrationVars, CommandsInv, MigrationInv, Idle, FilesKept
  <2>. QED  BY <2>1, <2>2, OperatorKept DEF CommandsInv, MigrationInv
<1>2. ASSUME UNCHANGED keygenVars PROVE KeygenInv'
  <2>1. KeygenTypeOK' /\ PublicHasSecret' /\ SuccessIsDurable'
    BY <1>2 DEF keygenVars, CommandsInv, KeygenInv, KeygenTypeOK, PublicHasSecret, SuccessIsDurable
  <2>2. \A r \in Runs : LocksOK(r)' /\ MadeOK(r)' /\ PublishedOK(r)'
    BY <1>2 DEF keygenVars, CommandsInv, KeygenInv, LocksOK, MadeOK, PublishedOK, KeyDirs
  <2>. QED  BY <2>1, <2>2 DEF KeygenInv
<1>3. CASE UNCHANGED commandVars
  BY <1>1, <1>2, <1>3 DEF commandVars, CommandsInv
<1>4. CASE MigrationNext /\ UNCHANGED keygenVars
  BY <1>2, <1>4, MigrationStep DEF CommandsInv
<1>5. CASE KeygenNext /\ UNCHANGED migrationVars
  BY <1>1, <1>5, KeygenStep DEF CommandsInv
<1>. QED  BY <1>3, <1>4, <1>5 DEF CommandsNext

(***************************************************************************)
(* CommandsInv holds throughout, for any records and key files and any     *)
(* number of runs of either command (migration.go, keygen.go).             *)
(***************************************************************************)
THEOREM CommandInvariance == CommandsSpec => []CommandsInv
<1>1. CommandsInit => CommandsInv
  BY MigrationInitially, KeygenInitially DEF CommandsInit, CommandsInv
<1>2. CommandsInv /\ [CommandsNext]_commandVars => CommandsInv'
  BY CommandsStep
<1>. QED  BY <1>1, <1>2, PTL DEF CommandsSpec

(***************************************************************************)
(* The state of both commands is well typed: an update is only planned for *)
(* a legacy record that nobody holds.                                      *)
(***************************************************************************)
THEOREM CommandTypeCorrect == CommandsSpec => []CommandsTypeOK
<1>1. CommandsInv => CommandsTypeOK
  BY DEF CommandsInv, MigrationInv, KeygenInv, CommandsTypeOK
<1>. QED  BY <1>1, CommandInvariance, PTL

(***************************************************************************)
(* Every record the migration ever replaced is in a durable backup, as it  *)
(* was (saveMigrationBackup, before the first conditional update).         *)
(***************************************************************************)
THEOREM OriginalsSaved == CommandsSpec => []OriginalsBackedUp
<1>1. CommandsInv => OriginalsBackedUp
  BY DEF CommandsInv, MigrationInv
<1>. QED  BY <1>1, CommandInvariance, PTL

(***************************************************************************)
(* A migration that reports success tells the truth, as long as the old    *)
(* helpers stay stopped (runDynamoMigration's final verification).         *)
(***************************************************************************)
THEOREM TruthfulSuccess == CommandsSpec => []SuccessMeansMigrated
<1>1. CommandsInv => SuccessMeansMigrated
  BY DEF CommandsInv, MigrationInv, OperatorOK, MigratedOK, SuccessMeansMigrated
<1>. QED  BY <1>1, CommandInvariance, PTL

(***************************************************************************)
(* A record leaves the old format only while nobody holds it, with its     *)
(* payload, however stale the snapshot (migrationUpdate's condition).      *)
(***************************************************************************)
THEOREM PayloadsCarried == CommandsSpec => CarriesPayload
<1>1. CommandsInv /\ [CommandsNext]_commandVars
        => [\A i \in Ids :
              items[i] # NoItem /\ Legacy(items[i]) /\ ~Legacy(items'[i])
                => ~Held(items[i]) /\ Payload(items'[i]) = Payload(items[i])]_migrationVars
  BY CommandsStep, MigrationStep DEF PayloadCarried, CommandsInv
<1>. QED  BY <1>1, CommandInvariance, PTL DEF CommandsSpec, CarriesPayload

(***************************************************************************)
(* No public chain a reader may find names a generation whose secret is    *)
(* not kept beside it, whatever fails (rotateKeyFiles).                    *)
(***************************************************************************)
THEOREM SecretsFirst == CommandsSpec => []PublicHasSecret
<1>1. CommandsInv => PublicHasSecret
  BY DEF CommandsInv, KeygenInv
<1>. QED  BY <1>1, CommandInvariance, PTL

(***************************************************************************)
(* A generation whose invocation reported success survives any power loss, *)
(* in both files (publishKeyFile's directory sync).                        *)
(***************************************************************************)
THEOREM DurableSuccess == CommandsSpec => []SuccessIsDurable
<1>1. CommandsInv => SuccessIsDurable
  BY DEF CommandsInv, KeygenInv
<1>. QED  BY <1>1, CommandInvariance, PTL

(***************************************************************************)
(* Key files only grow: nothing but a power loss replaces a chain by one   *)
(* that does not extend it (the directory locks, publishKeyFile's link).   *)
(***************************************************************************)
THEOREM OnlyGrowth == CommandsSpec => ChainsOnlyGrow
<1>1. CommandsInv /\ [CommandsNext]_commandVars
        => [\A p \in Paths :
              entry'[p] # entry[p] /\ entry[p] # Absent
                => \/ entry'[p] # Absent /\ IsPrefix(entry[p], entry'[p])
                   \/ KeygenPowerLoss]_keygenVars
  BY CommandsStep, ChainsGrow DEF CommandsInv
<1>. QED  BY <1>1, CommandInvariance, PTL DEF CommandsSpec, ChainsOnlyGrow
=============================================================================
