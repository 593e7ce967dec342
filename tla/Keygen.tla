------------------------------- MODULE Keygen -------------------------------
(***************************************************************************)
(* --keygen with key files (keygen.go): creating a personal key pair or    *)
(* adding a generation to it.  Invocations may run at once, on one pair or *)
(* on pairs whose files lie in each other's directories; any may fail or   *)
(* be killed at any point, the machine may lose power, and another program *)
(* may put a file where there was none.                                    *)
(*                                                                         *)
(* A key file holds one chain of generations; a generation is named by the *)
(* invocation that drew it.                                                *)
(***************************************************************************)
EXTENDS Naturals, Sequences, SequencesExt, FiniteSets

CONSTANTS
    Runs,       \* invocations
    Dirs,       \* directories, numbered in the order of their names
    Paths,      \* key files
    DirOf,      \* [Paths -> Dirs]
    Pairs,      \* the file pairs invocations may be given
    Old,        \* the generation of a pair that exists from the start
    Other,      \* what another program's file holds
    Nobody,     \* no lock holder
    Absent      \* no file

Chains == Seq(Runs \cup {Old, Other})

\* A file belongs to one pair.
ASSUME KeygenAssumption ==
    /\ Dirs \subseteq Nat
    /\ DirOf \in [Paths -> Dirs]
    /\ Pairs \subseteq {p \in [public : Paths, secret : Paths] : p.public # p.secret}
    /\ \A p, q \in Pairs : p # q =>
          {p.public, p.secret} \cap {q.public, q.secret} = {}
    /\ Old \notin Runs /\ Other \notin Runs /\ Other # Old
    /\ Nobody \notin Runs /\ Absent \notin Chains

VARIABLES
    entry,      \* [Paths -> the chain a reader finds, or Absent]
    survives,   \* [Paths -> what a power loss may leave: the last synced entry and all since]
    lock,       \* [Dirs -> the invocation holding the directory's flock, or Nobody]
    at,         \* [Runs -> where the invocation is]
    pair,       \* [Runs -> its files]
    fresh,      \* [Runs -> both files were absent]
    made        \* [Runs -> the extended chain, once read]

keygenVars == <<entry, survives, lock, at, pair, fresh, made>>

Publishing == {"secret", "syncSecret", "public", "syncPublic"}
Working == {"lock", "stat", "read"} \cup Publishing

KeygenTypeOK ==
    /\ entry \in [Paths -> Chains \cup {Absent}]
    /\ survives \in [Paths -> SUBSET (Chains \cup {Absent})]
    /\ \A p \in Paths : entry[p] \in survives[p]
    /\ lock \in [Dirs -> Runs \cup {Nobody}]
    /\ at \in [Runs -> Working \cup {"idle", "ok", "failed"}]
    /\ pair \in [Runs -> Pairs]
    /\ fresh \in [Runs -> BOOLEAN]
    /\ made \in [Runs -> Chains]

\* A pair exists already, or neither of its files does.
KeygenInit ==
    /\ \E existing \in SUBSET Pairs :
          entry = [p \in Paths |-> IF \E q \in existing : p \in {q.public, q.secret}
                                   THEN <<Old>> ELSE Absent]
    /\ survives = [p \in Paths |-> {entry[p]}]
    /\ lock = [d \in Dirs |-> Nobody]
    /\ at = [r \in Runs |-> "idle"]
    /\ pair \in [Runs -> Pairs]
    /\ fresh = [r \in Runs |-> FALSE]
    /\ made = [r \in Runs |-> <<>>]

Enter(r, s) == at' = [at EXCEPT ![r] = s]
disk == <<entry, survives>>

\* Returning closes the lock files; so does the end of the process.
Return(r, outcome) ==
    /\ Enter(r, outcome)
    /\ lock' = [d \in Dirs |-> IF lock[d] = r THEN Nobody ELSE lock[d]]

KeyDirs(r) == {DirOf[pair[r].public], DirOf[pair[r].secret]}

----------------------------------------------------------------------------
(* One invocation.                                                         *)

StartKeygen(r) ==
    /\ at[r] = "idle"
    /\ Enter(r, "lock")
    /\ UNCHANGED <<disk, lock, pair, fresh, made>>

\* Mutant: nobody looks at what flock returned.
LockDirIgnored(r) ==
    /\ at[r] = "lock"
    /\ Enter(r, "stat")
    /\ UNCHANGED <<disk, lock, pair, fresh, made>>

\* The directories in order of their names, without waiting for a holder.
LockDir(r) ==
    /\ at[r] = "lock"
    /\ \E d \in KeyDirs(r) :
          /\ lock[d] # r
          /\ \A e \in KeyDirs(r) : e < d => lock[e] = r
          /\ IF lock[d] # Nobody THEN Return(r, "failed")
             ELSE /\ lock' = [lock EXCEPT ![d] = r]
                  /\ Enter(r, IF \A e \in KeyDirs(r) \ {d} : lock[e] = r THEN "stat" ELSE "lock")
    /\ UNCHANGED <<disk, pair, fresh, made>>

\* Both present or both absent; the operator reconciles anything else.
Stat(r) ==
    LET absent == {p \in {pair[r].public, pair[r].secret} : entry[p] = Absent} IN
    /\ at[r] = "stat"
    /\ IF Cardinality(absent) = 1
       THEN Return(r, "failed") /\ UNCHANGED fresh
       ELSE /\ fresh' = [fresh EXCEPT ![r] = absent # {}]
            /\ Enter(r, "read") /\ UNCHANGED lock
    /\ UNCHANGED <<disk, pair, made>>

\* libsodium.RotateKeyChain adds a generation to a matching pair of chains.
RotateKeyChain(r) ==
    LET chain == IF fresh[r] THEN <<>> ELSE entry[pair[r].secret] IN
    /\ at[r] = "read"
    /\ IF fresh[r] \/ entry[pair[r].public] = entry[pair[r].secret]
       THEN /\ made' = [made EXCEPT ![r] = Append(chain, r)]
            /\ Enter(r, "secret") /\ UNCHANGED lock
       ELSE Return(r, "failed") /\ UNCHANGED made
    /\ UNCHANGED <<disk, pair, fresh>>

\* Mutant: the public file is published first.
TargetPublicFirst(r) ==
    IF at[r] \in {"secret", "syncSecret"} THEN pair[r].public ELSE pair[r].secret

\* The file publishKeyFile is working on: the secret, then the public one.
Target(r) == IF at[r] \in {"secret", "syncSecret"} THEN pair[r].secret ELSE pair[r].public

\* A synced temporary file is linked to a name nobody else has taken, or
\* renamed over the chain it extends.
LinkOrRename(r) ==
    /\ at[r] \in {"secret", "public"}
    /\ IF fresh[r] /\ entry[Target(r)] # Absent
       THEN Return(r, "failed") /\ UNCHANGED disk
       ELSE /\ entry' = [entry EXCEPT ![Target(r)] = made[r]]
            /\ survives' = [survives EXCEPT ![Target(r)] = @ \cup {made[r]}]
            /\ Enter(r, IF at[r] = "secret" THEN "syncSecret" ELSE "syncPublic")
            /\ UNCHANGED lock
    /\ UNCHANGED <<pair, fresh, made>>

\* Mutant: the directory is never synced.
SyncDirSkipped(r) ==
    /\ at[r] \in {"syncSecret", "syncPublic"}
    /\ IF at[r] = "syncSecret" THEN Enter(r, "public") /\ UNCHANGED lock ELSE Return(r, "ok")
    /\ UNCHANGED <<disk, pair, fresh, made>>

\* The directory is synced, with every entry in it; first the secret, then
\* the public file.
SyncDir(r) ==
    /\ at[r] \in {"syncSecret", "syncPublic"}
    /\ survives' = [p \in Paths |-> IF DirOf[p] = DirOf[Target(r)] THEN {entry[p]} ELSE survives[p]]
    /\ IF at[r] = "syncSecret" THEN Enter(r, "public") /\ UNCHANGED lock ELSE Return(r, "ok")
    /\ UNCHANGED <<entry, pair, fresh, made>>

\* Any call fails, or the process is killed.
KeygenFails(r) ==
    /\ at[r] \in Working
    /\ Return(r, "failed")
    /\ UNCHANGED <<disk, pair, fresh, made>>

----------------------------------------------------------------------------
(* Around it.                                                              *)

\* The directories are the operator's; still, a file may appear where there was none.
Appears ==
    /\ \E p \in Paths :
          /\ entry[p] = Absent
          /\ entry' = [entry EXCEPT ![p] = <<Other>>]
          /\ survives' = [survives EXCEPT ![p] = @ \cup {<<Other>>}]
    /\ UNCHANGED <<lock, at, pair, fresh, made>>

KeygenPowerLoss ==
    /\ \E r \in Runs : at[r] \in Working
    /\ entry' \in [Paths -> UNION {survives[p] : p \in Paths}]
    /\ \A p \in Paths : entry'[p] \in survives[p]
    /\ survives' = [p \in Paths |-> {entry'[p]}]
    /\ lock' = [d \in Dirs |-> Nobody]
    /\ at' = [r \in Runs |-> IF at[r] \in Working THEN "failed" ELSE at[r]]
    /\ UNCHANGED <<pair, fresh, made>>

Keygen(r) ==
    \/ StartKeygen(r) \/ LockDir(r) \/ Stat(r) \/ RotateKeyChain(r)
    \/ LinkOrRename(r) \/ SyncDir(r) \/ KeygenFails(r)

KeygenNext ==
    \/ \E r \in Runs : Keygen(r)
    \/ Appears
    \/ KeygenPowerLoss

KeygenSpec == KeygenInit /\ [][KeygenNext]_keygenVars

----------------------------------------------------------------------------
(* Properties.                                                             *)

Drawn(chain) == chain # Absent /\ chain # <<Other>>

(***************************************************************************)
(* Whatever fails, whoever else runs and whenever the power goes, a public *)
(* chain that a reader may find never names a generation whose secret is   *)
(* not kept in the secret file beside it (rotateKeyFiles publishes the     *)
(* secret, and syncs it, before the public file).                          *)
(***************************************************************************)
PublicHasSecret ==
    \A q \in Pairs : \A v \in survives[q.public], w \in survives[q.secret] :
        Drawn(v) => Drawn(w) /\ IsPrefix(v, w)

(***************************************************************************)
(* A key file is only ever replaced by a chain that extends it: no         *)
(* invocation discards the generation of a concurrent one, and none        *)
(* overwrites a file that appeared after it looked (the directory locks    *)
(* and the link of publishKeyFile).                                        *)
(***************************************************************************)
ChainsOnlyGrow ==
    [][\A p \in Paths :
          entry'[p] # entry[p] /\ entry[p] # Absent
            => \/ entry'[p] # Absent /\ IsPrefix(entry[p], entry'[p])
               \/ KeygenPowerLoss]_keygenVars

(***************************************************************************)
(* An invocation that reported success is durable: no power loss takes its *)
(* generation out of either file (the directory sync of publishKeyFile).   *)
(***************************************************************************)
SuccessIsDurable ==
    \A r \in Runs : at[r] = "ok" =>
        \A p \in {pair[r].public, pair[r].secret} :
            \A v \in survives[p] : v # Absent /\ IsPrefix(made[r], v)
=============================================================================
