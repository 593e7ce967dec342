-------------------------- MODULE CommandInvariant --------------------------
(***************************************************************************)
(* Why the two administrative commands are safe: what is true of a run of  *)
(* either at each of its steps.  CommandsInv is inductive; each property   *)
(* of Migration and Keygen is one of its parts or follows from it.         *)
(***************************************************************************)
EXTENDS Commands

IsRecord(x) == x = [a \in DOMAIN x |-> x[a]]

\* Attributes that no helper and no migration writes.
Foreign(item) == DOMAIN item \ (legacyRepoFields \cup {"data", "owner_token"})

\* A backup holds record i as old, and no power loss takes it.
Saved(f, i, old) ==
    /\ files[f] # NoItem /\ files[f].durable
    /\ i \in DOMAIN files[f].items /\ files[f].items[i] = old

\* What was read of record i still bounds what can be written to it: the
\* record is there, with no attribute the reader did not see and could not name.
StillBounds(i, old) ==
    /\ IsRecord(old)
    /\ items[i] # NoItem /\ Foreign(items[i]) \subseteq Foreign(old)

StoresOK ==
    /\ DOMAIN items = Ids /\ \A i \in Ids : IsRecord(items[i])
    /\ DOMAIN before = Operators
    /\ DOMAIN files = Backups
    /\ \A f \in Backups :
          files[f] # NoItem =>
             /\ IsRecord(files[f]) /\ DOMAIN files[f] = {"items", "durable"}
             /\ files[f].durable \in BOOLEAN

\* An update in flight was planned from a record that is saved.
RequestsOK ==
    \A r \in requests : StillBounds(r.id, r.before) /\ \E f \in Backups : Saved(f, r.id, r.before)

\* The planned conversions: nothing refused, and something to do.
PlannedOK(o) ==
    pc[o] \in {"backup", "sync", "update", "check"} =>
       /\ \A i \in DOMAIN before[o] : ~Refused(before[o][i])
       /\ Changed(before[o]) # {}

\* The backup is the snapshot, and is synced before the first update.
BackupOK(o) ==
    pc[o] \in {"sync", "update", "check"} =>
       /\ files[input[o].backup] # NoItem
       /\ files[input[o].backup].items = before[o]
       /\ pc[o] # "sync" => files[input[o].backup].durable

\* While the old helpers stay stopped, what was found migrated stays so.
MigratedOK(o) ==
    "old" \notin running =>
       /\ pc[o] \in {"snapshot", "plan"} =>
             \A i \in input[o].ids \ left[o] :
                (i \in DOMAIN before[o] => ~Legacy(before[o][i])) => ~Legacy(items[i])
       /\ pc[o] = "verify" => \A i \in input[o].ids \ left[o] : ~Legacy(items[i])
       /\ pc[o] \in {"verified", "ended"} /\ input[o].apply =>
             \A i \in input[o].ids : ~Legacy(items[i])

OperatorOK(o) ==
    /\ pc[o] = "idle" => DOMAIN before[o] = {}
    /\ pc[o] = "snapshot" => left[o] \subseteq input[o].ids
    /\ pc[o] = "plan" => left[o] = {}
    /\ pc[o] \in {"update", "check"} => left[o] # {}
    /\ \A i \in DOMAIN before[o] : StillBounds(i, before[o][i])
    /\ PlannedOK(o)
    /\ BackupOK(o)
    /\ MigratedOK(o)

MigrationInv ==
    /\ MigrationTypeOK
    /\ StoresOK
    /\ RequestsOK
    /\ \A o \in Operators : OperatorOK(o)
    /\ OriginalsBackedUp

----------------------------------------------------------------------------

\* An invocation that holds both of its directories is alone with its files.
LocksOK(r) ==
    at[r] \in {"stat", "read"} \cup Publishing => \A d \in KeyDirs(r) : lock[d] = r

\* The chain it extends is the one it read.
MadeOK(r) ==
    LET public == pair[r].public
        secret == pair[r].secret
    IN /\ at[r] \in {"read"} \cup Publishing /\ ~fresh[r] =>
             entry[public] # Absent /\ entry[secret] # Absent
       /\ at[r] \in Publishing /\ fresh[r] => made[r] = <<r>>
       /\ at[r] = "secret" /\ ~fresh[r] => entry[public] = entry[secret]
       /\ at[r] \in {"secret", "syncSecret", "public"} /\ ~fresh[r] =>
             made[r] = Append(entry[public], r)

\* What it has published is there, and the secret is durable before the
\* public file names it.
PublishedOK(r) ==
    LET public == pair[r].public
        secret == pair[r].secret
    IN /\ at[r] = "syncSecret" => entry[secret] = made[r]
       /\ at[r] \in {"public", "syncPublic"} => survives[secret] = {made[r]}
       /\ at[r] = "syncPublic" => entry[public] = made[r]

KeygenInv ==
    /\ KeygenTypeOK
    /\ \A r \in Runs : LocksOK(r) /\ MadeOK(r) /\ PublishedOK(r)
    /\ PublicHasSecret
    /\ SuccessIsDurable

(***************************************************************************)
(* The inductive invariant of both commands: what a run of the migration   *)
(* has read still bounds every record, its backup precedes its updates,    *)
(* and what it found migrated stays so; a key generation is alone with its *)
(* files and publishes the chain it read, extended, secret first           *)
(* (migration.go, keygen.go).                                              *)
(***************************************************************************)
CommandsInv == MigrationInv /\ KeygenInv
=============================================================================
