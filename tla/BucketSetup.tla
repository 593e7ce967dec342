---------------------------- MODULE BucketSetup -----------------------------
(***************************************************************************)
(* The bucket and the table a helper needs (aws.go, bucket_versioning.go). *)
(* With ensure=y a helper creates what is missing; a bucket it created it  *)
(* also configures, one request after the other.  Whatever existed already *)
(* is used as it is, except that a push enables versioning.  Others may    *)
(* make the bucket at the same time, with settings of their own.           *)
(***************************************************************************)
EXTENDS Naturals, Sequences, SequencesExt

CONSTANTS
    Helpers,            \* helper processes that share the bucket and the table
    RepeatAnswers,      \* whether creating one's own bucket again succeeds: TRUE
                        \* for us-east-1, FALSE for BucketAlreadyOwnedByYou
    Nobody,             \* no bucket yet
    Found, Others       \* whose bucket it is, besides a helper's: it was there
                        \* before every helper, or somebody else made it since

ASSUME MakersAssumption ==
    /\ Nobody \notin Helpers /\ Found \notin Helpers /\ Others \notin Helpers
    /\ Nobody # Found /\ Nobody # Others /\ Found # Others

VARIABLES
    maker,      \* whose creation made the bucket
    settings,   \* what has been configured on it
    given,      \* history: the settings of a bucket that no helper made
    repeats,    \* the region's member of RepeatAnswers
    table,      \* "absent", "creating" or "active"
    ensure,     \* [Helpers -> the environment variable ensure=y]
    setup,      \* [Helpers -> the step of ensureResources]
    put,        \* [Helpers -> how many requests of configureNewBucket succeeded]
    creators    \* history: the helpers whose CreateBucket succeeded

regionVars == <<given, repeats, ensure>>
setupVars == <<maker, settings, given, repeats, table, ensure, setup, put, creators>>

\* configureNewBucket, which waits for the bucket's existence first.
SetupOrder == <<"exists", "access", "encryption", "policy", "tagging", "versioning">>
Settings == ToSet(SetupOrder)

\* The settings of a bucket made by others: none, as an earlier helper may leave
\* them, or all.
Inherited == {{}, Settings}
Exists == maker # Nobody

SetupInit ==
    /\ maker \in {Nobody, Found}
    /\ settings \in IF Exists THEN Inherited ELSE {{}}
    /\ given = settings
    /\ repeats \in RepeatAnswers
    /\ table \in {"absent", "active"}
    /\ ensure \in [Helpers -> BOOLEAN]
    /\ setup = [h \in Helpers |-> "bucket"]
    /\ put = [h \in Helpers |-> 0]
    /\ creators = {}

SetsUp(h, step) == setup' = [setup EXCEPT ![h] = step]

\* Mutant: whatever HeadBucket fails with counts as absence.
AuthorizesAnyError(answer) == answer # "exists"
\* Only the exact 404 authorizes creation.
Authorizes(answer) == answer = "missing"

\* bucketExists, the first part of ensureBucket.
ProbeBucket(h) ==
    /\ setup[h] = "bucket"
    /\ \E answer \in {IF Exists THEN "exists" ELSE "missing", "error"} :
        SetsUp(h, IF answer = "exists" THEN "table"
                  ELSE IF Authorizes(answer) /\ ensure[h] THEN "create" ELSE "failed")
    /\ UNCHANGED <<maker, settings, regionVars, table, put, creators>>

\* CreateBucket without retries.  A bucket that the account owns already is left
\* alone, unless the region answers a repeated creation with success.
CreateBucket(h) ==
    /\ setup[h] = "create"
    /\ maker' = IF Exists THEN maker ELSE h
    /\ IF ~Exists \/ repeats
       THEN SetsUp(h, "configure") /\ creators' = creators \union {h}
       ELSE SetsUp(h, "table") /\ UNCHANGED creators
    /\ UNCHANGED <<settings, regionVars, table, put>>

\* The response is lost, or the request is: no reason to go on.
CreateUnknown(h) ==
    /\ setup[h] = "create"
    /\ maker' \in {maker, IF Exists THEN maker ELSE h}
    /\ SetsUp(h, "failed")
    /\ UNCHANGED <<settings, regionVars, table, put, creators>>

ConfigureNewBucket(h) ==
    /\ setup[h] = "configure"
    /\ settings' = settings \union {SetupOrder[put[h] + 1]}
    /\ put' = [put EXCEPT ![h] = @ + 1]
    /\ SetsUp(h, IF put[h] + 1 = Len(SetupOrder) THEN "table" ELSE "configure")
    /\ UNCHANGED <<maker, regionVars, table, creators>>

\* A request of configureNewBucket fails, applied or not.
ConfigureFails(h) ==
    /\ setup[h] = "configure"
    /\ settings' \in {settings, settings \union {SetupOrder[put[h] + 1]}}
    /\ SetsUp(h, "failed")
    /\ UNCHANGED <<maker, regionVars, table, put, creators>>

\* ensureTable: a table that exists is used, in whatever state it is.
DescribeTable(h) ==
    /\ setup[h] = "table"
    /\ SetsUp(h, IF table # "absent" THEN "ready"
                 ELSE IF ensure[h] THEN "createTable" ELSE "failed")
    /\ UNCHANGED <<maker, settings, regionVars, table, put, creators>>

\* A table that another creator is making (ResourceInUse) is waited for as well.
CreateTable(h) ==
    /\ setup[h] = "createTable"
    /\ table' = IF table = "absent" THEN "creating" ELSE table
    /\ SetsUp(h, "waitTable")
    /\ UNCHANGED <<maker, settings, regionVars, put, creators>>

WaitForTable(h) ==
    /\ setup[h] = "waitTable"
    /\ table = "active"
    /\ SetsUp(h, "ready")
    /\ UNCHANGED <<maker, settings, regionVars, table, put, creators>>

\* A request fails, or five minutes pass.
SetupFails(h) ==
    /\ setup[h] \in {"table", "createTable", "waitTable"}
    /\ SetsUp(h, "failed")
    /\ table' \in IF setup[h] = "createTable" /\ table = "absent"
                  THEN {"absent", "creating"} ELSE {table}
    /\ UNCHANGED <<maker, settings, regionVars, put, creators>>

TableBecomesActive ==
    /\ table = "creating"
    /\ table' = "active"
    /\ UNCHANGED <<maker, settings, regionVars, setup, put, creators>>

\* Somebody else makes the bucket.
OthersMakeBucket ==
    /\ ~Exists
    /\ maker' = Others
    /\ settings' \in Inherited
    /\ given' = settings'
    /\ UNCHANGED <<repeats, table, ensure, setup, put, creators>>

SetupStep(h) ==
    \/ ProbeBucket(h) \/ CreateBucket(h) \/ CreateUnknown(h)
    \/ ConfigureNewBucket(h) \/ ConfigureFails(h)
    \/ DescribeTable(h) \/ CreateTable(h) \/ WaitForTable(h) \/ SetupFails(h)

-----------------------------------------------------------------------------
(* bucket_versioning.go: the preflight of every push.                      *)

\* GetBucketVersioning, and PutBucketVersioning where it is not enabled.
EnableVersioning ==
    /\ settings' = settings \union {"versioning"}
    /\ UNCHANGED <<maker, regionVars, table, setup, put, creators>>
=============================================================================
