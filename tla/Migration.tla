----------------------------- MODULE Migration ------------------------------
(***************************************************************************)
(* --migrate-dynamolock (migration.go): the one-off command that moves a   *)
(* table's records from the format of old helpers (branch, bundles and a   *)
(* lock in uid and unix) into the data envelope of go-dynamolock.  The     *)
(* operator is told to stop every writer first; here old and new helpers   *)
(* may go on all the same, two operators may run at once, a rerun may      *)
(* follow a run that stopped anywhere, and writes may land late.           *)
(***************************************************************************)
EXTENDS Naturals, FiniteSets, Functions

CONSTANTS
    Ids,        \* the records of the bucket, numbered in the order of their names
    Operators,  \* invocations of the command
    Values,     \* branch names and manifest keys, the empty string included
    Backups,    \* backup file names the operators give
    Initial,    \* [Ids -> what the record may be at the start]
    Unstopped,  \* bound: which kinds of helpers may still run, "old", "new" or both
    Busy        \* bound: the records that helpers may still be writing to

\* A record maps the attributes it has to values.
ASSUME MigrationAssumption ==
    /\ Ids \subseteq Nat
    /\ \A i \in Ids : \A x \in Initial[i] : x = [a \in DOMAIN x |-> x[a]]
    /\ Busy \subseteq Ids
    /\ Unstopped \subseteq SUBSET {"old", "new"}

VARIABLES
    items,      \* [Ids -> record or NoItem]
    requests,   \* updates in flight: their response was lost
    files,      \* [Backups -> the saved records and whether they are durable, or NoItem]
    pc,         \* [Operators -> where the invocation is]
    input,      \* [Operators -> the flags]
    before,     \* [Operators -> the snapshot: a function on the ids it found]
    left,       \* [Operators -> ids the current loop has yet to visit]
    running,    \* helpers nobody stopped: "old", "new", both or none
    replaced    \* history: the records updates replaced, as they were

migrationVars == <<items, requests, files, pc, input, before, left, running, replaced>>

\* A record or a file that is not there.
NoItem == [NoItem |-> TRUE]

legacyRepoFields == {"branch", "bundles", "uid", "unix"}
PayloadFields == {"branch", "bundles"}

\* Attributes of one helper version only, or of both.
Legacy(item) == DOMAIN item \cap legacyRepoFields # {}

\* An uncleared lock of an old helper, or a lease of a new one.
Held(item) ==
    \/ "uid" \in DOMAIN item /\ item["uid"] # ""
    \/ "unix" \in DOMAIN item /\ item["unix"] # "0"
    \/ "owner_token" \in DOMAIN item

\* Records migratedRepoItem leaves to the operator.
Refused(item) ==
    \/ ~(DOMAIN item \subseteq IF Legacy(item) THEN legacyRepoFields ELSE {"data"})
    \/ Held(item)

Payload(item) ==
    IF "data" \in DOMAIN item THEN item["data"]
    ELSE Restrict(item, DOMAIN item \cap PayloadFields)

\* The record as the new helpers expect it; a payload that is absent stays absent.
migratedRepoItem(item) ==
    IF ~Legacy(item) THEN item
    ELSE IF DOMAIN item \cap PayloadFields = {} THEN <<>>
    ELSE [a \in {"data"} |-> Restrict(item, DOMAIN item \cap PayloadFields)]

Changed(snapshot) == {i \in DOMAIN snapshot : migratedRepoItem(snapshot[i]) # snapshot[i]}

Active == {"snapshot", "plan", "backup", "sync", "update", "check", "verify"}

MigrationTypeOK ==
    /\ \A r \in requests : r.id \in Ids /\ ~Refused(r.before) /\ Legacy(r.before)
    /\ pc \in [Operators -> Active \cup {"idle", "ended", "verified", "failed"}]
    /\ input \in [Operators -> [apply : BOOLEAN, exact : BOOLEAN,
                                ids : SUBSET Ids, backup : Backups]]
    /\ left \in [Operators -> SUBSET Ids]
    /\ \A o \in Operators :
          /\ DOMAIN before[o] \subseteq input[o].ids
          /\ pc[o] \in {"update", "check"} => left[o] \subseteq Changed(before[o])
    /\ running \subseteq {"old", "new"}

MigrationInit ==
    /\ items \in [Ids -> UNION {Initial[i] : i \in Ids}]
    /\ \A i \in Ids : items[i] \in Initial[i]
    /\ running \in Unstopped
    /\ requests = {} /\ replaced = {}
    /\ files = [f \in Backups |-> NoItem]
    /\ pc = [o \in Operators |-> "idle"]
    /\ \E f \in Backups : input = [o \in Operators |->
          [apply |-> FALSE, exact |-> FALSE, ids |-> {}, backup |-> f]]
    /\ before = [o \in Operators |-> <<>>]
    /\ left = [o \in Operators |-> {}]

Goto(o, s) == pc' = [pc EXCEPT ![o] = s]

\* The end of an invocation; what it was asked is remembered of a success.
End(o, outcome) ==
    /\ Goto(o, outcome)
    /\ input' = IF outcome = "failed" THEN [input EXCEPT ![o].ids = {}, ![o].apply = FALSE] ELSE input
    /\ before' = [before EXCEPT ![o] = <<>>]
    /\ left' = [left EXCEPT ![o] = {}]

world == <<items, requests, files, running, replaced>>

----------------------------------------------------------------------------
(* One invocation.                                                         *)

\* The flags: a whole bucket, or one record with --id.  The checks of the
\* account, the table and its TTL can only fail.
Begin(o) ==
    /\ pc[o] = "idle"
    /\ \E apply \in BOOLEAN, f \in Backups, ids \in {Ids} \cup {{i} : i \in Ids} :
          /\ input' = [input EXCEPT ![o] =
                [apply |-> apply, exact |-> ids # Ids, ids |-> ids, backup |-> f]]
          /\ left' = [left EXCEPT ![o] = ids]
    /\ Goto(o, "snapshot")
    /\ UNCHANGED <<world, before>>

\* The records of a scan arrive page by page, each read consistently; --id
\* reads one record, which must exist.
readMigrationSnapshot(o) ==
    /\ pc[o] = "snapshot"
    /\ \E i \in left[o] :
          IF items[i] = NoItem /\ input[o].exact
          THEN End(o, "failed")
          ELSE /\ UNCHANGED input
               /\ left' = [left EXCEPT ![o] = @ \ {i}]
               /\ before' = IF items[i] = NoItem THEN before
                            ELSE [before EXCEPT ![o] =
                                    [j \in DOMAIN @ \cup {i} |-> IF j = i THEN items[i] ELSE @[j]]]
               /\ Goto(o, IF left[o] = {i} THEN "plan" ELSE "snapshot")
    /\ UNCHANGED world

\* Mutant: records that would be refused are skipped.
PlanSkips(o) ==
    /\ pc[o] = "plan"
    /\ IF input[o].apply /\ \E i \in Changed(before[o]) : ~Refused(before[o][i])
       THEN Goto(o, "backup") /\ UNCHANGED <<input, before, left>>
       ELSE End(o, "ended")
    /\ UNCHANGED world

\* Every record is converted in memory first; one refusal ends the run.
Plan(o) ==
    /\ pc[o] = "plan"
    /\ CASE \E i \in DOMAIN before[o] : Refused(before[o][i]) -> End(o, "failed")
         [] \A i \in DOMAIN before[o] : ~Refused(before[o][i]) ->
              IF input[o].apply /\ Changed(before[o]) # {}
              THEN Goto(o, "backup") /\ UNCHANGED <<input, before, left>>
              ELSE End(o, "ended")
    /\ UNCHANGED world

\* Mutant: the file is truncated when it exists.
SaveBackupOverwrites(o) ==
    /\ pc[o] = "backup"
    /\ files' = [files EXCEPT ![input[o].backup] = [items |-> before[o], durable |-> FALSE]]
    /\ Goto(o, "sync")
    /\ UNCHANGED <<items, requests, running, replaced, input, before, left>>

\* saveMigrationBackup: O_EXCL, all selected records as they were.
SaveBackup(o) ==
    /\ pc[o] = "backup"
    /\ IF files[input[o].backup] # NoItem
       THEN End(o, "failed") /\ UNCHANGED files
       ELSE /\ files' = [files EXCEPT ![input[o].backup] =
                            [items |-> before[o], durable |-> FALSE]]
            /\ Goto(o, "sync") /\ UNCHANGED <<input, before, left>>
    /\ UNCHANGED <<items, requests, running, replaced>>

\* Mutant: the update loop runs over every selected record.
SyncBackupAll(o) ==
    /\ pc[o] = "sync"
    /\ files' = [files EXCEPT ![input[o].backup].durable = TRUE]
    /\ left' = [left EXCEPT ![o] = input[o].ids]
    /\ Goto(o, "update")
    /\ UNCHANGED <<items, requests, running, replaced, input, before>>

\* The file and its directory are synced and read back before the first write.
SyncBackup(o) ==
    /\ pc[o] = "sync"
    /\ files' = [files EXCEPT ![input[o].backup].durable = TRUE]
    /\ left' = [left EXCEPT ![o] = Changed(before[o])]
    /\ Goto(o, "update")
    /\ UNCHANGED <<items, requests, running, replaced, input, before>>

\* Mutant: the condition names only what an old helper writes.
FencesLegacyOnly(current, old) ==
    /\ current # NoItem
    /\ "data" \notin DOMAIN current
    /\ \A a \in legacyRepoFields :
          IF a \in DOMAIN old
          THEN a \in DOMAIN current /\ current[a] = old[a]
          ELSE a \notin DOMAIN current

\* The condition of migrationUpdate: the record is what the snapshot saw,
\* and no new helper has written to it.
Fences(current, old) ==
    /\ current # NoItem
    /\ "data" \notin DOMAIN current
    /\ \A a \in legacyRepoFields \cup {"owner_token"} :
          IF a \in DOMAIN old
          THEN a \in DOMAIN current /\ current[a] = old[a]
          ELSE a \notin DOMAIN current

\* Its effect: SET data, REMOVE the old attributes, leave the others alone.
Updated(current, after) ==
    [a \in (DOMAIN current \ legacyRepoFields) \cup DOMAIN after |->
        IF a \in DOMAIN after THEN after[a] ELSE current[a]]

\* DynamoDB executes the update of record i, read as old.
ApplyUpdate(i, old) ==
    IF Fences(items[i], old)
    THEN /\ items' = [items EXCEPT ![i] = Updated(@, migratedRepoItem(old))]
         /\ replaced' = replaced \cup {[id |-> i, item |-> items[i]]}
    ELSE UNCHANGED <<items, replaced>>

NextId(o) == CHOOSE i \in left[o] : \A j \in left[o] : i <= j

\* One record is done; after the last one, the whole selection is read again.
Done(o, i) ==
    IF left[o] = {i}
    THEN Goto(o, "verify") /\ left' = [left EXCEPT ![o] = input[o].ids]
    ELSE Goto(o, "update") /\ left' = [left EXCEPT ![o] = @ \ {i}]

\* A write that was answered: a rejection is an error like any other, and an
\* accepted write must have returned the record that was planned.
Update(o) ==
    /\ pc[o] = "update"
    /\ LET i == NextId(o)
           old == before[o][i]
       IN /\ ApplyUpdate(i, old)
          /\ CASE ~Fences(items[i], old) ->
                    Goto(o, "check") /\ UNCHANGED <<input, before, left>>
               [] Fences(items[i], old) ->
                    IF Updated(items[i], migratedRepoItem(old)) = migratedRepoItem(old)
                    THEN Done(o, i) /\ UNCHANGED <<input, before>>
                    ELSE End(o, "failed")
    /\ UNCHANGED <<requests, files, running>>

\* A write whose response was lost is never sent again.
UpdateUnknown(o) ==
    /\ pc[o] = "update"
    /\ requests' = requests \cup {[id |-> NextId(o), before |-> before[o][NextId(o)]]}
    /\ Goto(o, "check")
    /\ UNCHANGED <<items, files, running, replaced, input, before, left>>

\* It is reconciled by a strong read.
Reconcile(o) ==
    /\ pc[o] = "check"
    /\ LET i == NextId(o) IN
          IF items[i] = migratedRepoItem(before[o][i])
          THEN Done(o, i) /\ UNCHANGED <<input, before>>
          ELSE End(o, "failed")
    /\ UNCHANGED world

Verify(o) ==
    /\ pc[o] = "verify"
    /\ \E i \in left[o] :
          CASE items[i] # (IF i \in DOMAIN before[o] THEN migratedRepoItem(before[o][i]) ELSE NoItem) ->
                 End(o, "failed")
            [] OTHER ->
                 IF left[o] = {i} THEN End(o, "verified")
                 ELSE left' = [left EXCEPT ![o] = @ \ {i}] /\ UNCHANGED <<pc, input, before>>
    /\ UNCHANGED world

\* A failed check or read, a signal, a closed output, or the end of the process.
Fail(o) ==
    /\ pc[o] \in Active
    /\ End(o, "failed")
    /\ UNCHANGED world

----------------------------------------------------------------------------
(* Around it.                                                              *)

\* The update of a lost response arrives.
LandUpdate ==
    /\ \E r \in requests :
          /\ requests' = requests \ {r}
          /\ ApplyUpdate(r.id, r.before)
    /\ UNCHANGED <<files, running, pc, input, before, left>>

\* The operators' machine loses power: what was not synced is gone.
PowerLoss ==
    /\ \E o \in Operators : pc[o] \in Active
    /\ files' = [f \in Backups |->
          IF files[f] # NoItem /\ ~files[f].durable THEN NoItem ELSE files[f]]
    /\ pc' = [o \in Operators |-> IF pc[o] \in Active THEN "failed" ELSE pc[o]]
    /\ before' = [o \in Operators |-> <<>>]
    /\ left' = [o \in Operators |-> {}]
    /\ UNCHANGED <<items, requests, running, replaced, input>>

SetAll(item, f) == [a \in DOMAIN item \cup DOMAIN f |-> IF a \in DOMAIN f THEN f[a] ELSE item[a]]
Record(i) == IF items[i] = NoItem THEN <<>> ELSE items[i]

\* An old helper takes its lock and, still holding it, publishes.
OldLock(i) ==
    /\ "old" \in running
    /\ "uid" \in DOMAIN Record(i) => Record(i)["uid"] = ""
    /\ items' = [items EXCEPT ![i] = SetAll(Record(i), [uid |-> "held", unix |-> "now"])]
OldPush(i) ==
    /\ "old" \in running
    /\ items[i] # NoItem /\ "uid" \in DOMAIN items[i] /\ items[i]["uid"] = "held"
    /\ \E v \in Values : items' = [items EXCEPT ![i] =
          SetAll(@, [branch |-> v, bundles |-> v, uid |-> "", unix |-> "0"])]

\* A new helper takes its lease and publishes under it.
NewLock(i) ==
    /\ "new" \in running
    /\ "owner_token" \notin DOMAIN Record(i)
    /\ items' = [items EXCEPT ![i] = SetAll(Record(i), [owner_token |-> "held"])]
NewPush(i) ==
    /\ "new" \in running
    /\ items[i] # NoItem /\ "owner_token" \in DOMAIN items[i]
    /\ \E v \in Values : items' = [items EXCEPT ![i] =
          Restrict(SetAll(@, [data |-> [branch |-> v, bundles |-> v]]),
                   (DOMAIN @ \cup {"data"}) \ {"owner_token"})]

Helper(i) ==
    /\ OldLock(i) \/ OldPush(i) \/ NewLock(i) \/ NewPush(i)
    /\ UNCHANGED <<requests, files, pc, input, before, left, running, replaced>>

MigrationNext ==
    \/ \E o \in Operators :
          \/ Begin(o) \/ readMigrationSnapshot(o) \/ Plan(o)
          \/ SaveBackup(o) \/ SyncBackup(o)
          \/ Update(o) \/ UpdateUnknown(o) \/ Reconcile(o)
          \/ Verify(o) \/ Fail(o)
    \/ LandUpdate
    \/ PowerLoss
    \/ \E i \in Busy : Helper(i)

MigrationSpec == MigrationInit /\ [][MigrationNext]_migrationVars

----------------------------------------------------------------------------
(* Properties.                                                             *)

(***************************************************************************)
(* Whoever writes meanwhile, a record leaves the old format only while     *)
(* nobody holds it, with exactly the payload it has at that moment         *)
(* (migrationUpdate's condition, on a snapshot that may be long stale).    *)
(***************************************************************************)
CarriesPayload ==
    [][\A i \in Ids :
          items[i] # NoItem /\ Legacy(items[i]) /\ ~Legacy(items'[i])
            => ~Held(items[i]) /\ Payload(items'[i]) = Payload(items[i])]_migrationVars

(***************************************************************************)
(* Every record the command ever replaced is in a backup that survives a   *)
(* power loss, as it was just before it was replaced; no rerun and no      *)
(* second operator destroys it (saveMigrationBackup before the first       *)
(* write).                                                                 *)
(***************************************************************************)
OriginalsBackedUp ==
    \A r \in replaced : \E f \in Backups :
        /\ files[f] # NoItem /\ files[f].durable
        /\ r.id \in DOMAIN files[f].items /\ files[f].items[r.id] = r.item

(***************************************************************************)
(* A run that reports success, verified or with nothing left to migrate,   *)
(* tells the truth of every record it selected as long as the old helpers  *)
(* stay stopped: none is left in the old format, nothing is mixed.         *)
(***************************************************************************)
SuccessMeansMigrated ==
    \A o \in Operators :
        (pc[o] \in {"verified", "ended"} /\ input[o].apply /\ "old" \notin running)
          => \A i \in input[o].ids : items[i] # NoItem => ~Legacy(items[i])
=============================================================================
