------------------------------ MODULE Commands ------------------------------
(***************************************************************************)
(* main() dispatches on its first argument; the administrative commands    *)
(* that change state are --migrate-dynamolock and --keygen.  They share    *)
(* nothing: a behaviour is one of the two.                                 *)
(***************************************************************************)
EXTENDS Migration, Keygen

VARIABLE argument   \* os.Args[1]

commandVars == <<migrationVars, keygenVars, argument>>

CommandsInit ==
    /\ argument \in {"--migrate-dynamolock", "--keygen"}
    /\ MigrationInit
    /\ KeygenInit
    \* What the other command would find does not matter.
    /\ argument = "--keygen" => 
          items = [i \in Ids |-> CHOOSE x \in Initial[i] : TRUE] /\ running = {}
    /\ argument = "--migrate-dynamolock" => 
          (\A p \in Paths : entry[p] = Absent) /\ (\A r, s \in Runs : pair[r] = pair[s])

CommandsNext ==
    /\ UNCHANGED argument
    /\ \/ argument = "--migrate-dynamolock" /\ MigrationNext /\ UNCHANGED keygenVars
       \/ argument = "--keygen" /\ KeygenNext /\ UNCHANGED migrationVars

CommandsSpec == CommandsInit /\ [][CommandsNext]_commandVars

\* One type invariant for both commands.
CommandsTypeOK == MigrationTypeOK /\ KeygenTypeOK
=============================================================================
