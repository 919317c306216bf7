-------------------------------- MODULE Migrate -------------------------------
(***************************************************************************)
(* database.Migrate, run by any number of "dropcrate migrate" processes    *)
(* against one database, at once or one after the other.  Each brings the  *)
(* migration files built into its binary, loads the set of those recorded  *)
(* in schema_migrations, and applies and records the others in name order. *)
(*                                                                         *)
(* MySQL commits DDL on its own, so applying and recording are two steps.  *)
(* Applying a file again does no harm, as with the one there is (CREATE    *)
(* TABLE IF NOT EXISTS).                                                   *)
(***************************************************************************)
EXTENDS Integers

CONSTANTS
    Versions,      \* the file names, numbered in their order
    Migrators,     \* the processes
    Files,         \* Files[m]: the files built into m's binary
    MaxMishaps     \* bound: faults, lost replies and crashes

ASSUME MigrateAssumption ==
    /\ Versions \subseteq Nat \ {0}
    /\ Files \in [Migrators -> SUBSET Versions]
    /\ MaxMishaps \in Nat

VARIABLES
    created,       \* table schema_migrations exists
    recorded,      \* its rows
    times,         \* times[v]: how often v was applied; 2 is twice or more
    pc,            \* pc[m]: the next statement of m
    applied,       \* applied[m]: the rows m has loaded
    name,          \* name[m]: the file m is at, 0 before the first
    overlap,       \* history: two migrators were at work at once
    mishaps        \* history: how many mishaps there were

database == <<created, recorded, times>>
local    == <<applied, name>>

vars == <<database, pc, local, overlap, mishaps>>

Init ==
    /\ created = FALSE
    /\ recorded = {}
    /\ times = [v \in Versions |-> 0]
    /\ pc = [m \in Migrators |-> "idle"]
    /\ applied = [m \in Migrators |-> {}]
    /\ name = [m \in Migrators |-> 0]
    /\ overlap = FALSE
    /\ mishaps = 0

(* Not running: never started or killed, ended with an error, or done. *)
Stopped(m) == pc[m] \in {"idle", "failed", "done"}

Goto(m, at) == pc' = [pc EXCEPT ![m] = at]

(* The statement has its effect and m learns of it, or an error ends m.     *)
Works == UNCHANGED mishaps

Mishap == mishaps < MaxMishaps /\ mishaps' = mishaps + 1

Breaks(m) == Mishap /\ Goto(m, "failed") /\ UNCHANGED local

(* "dropcrate migrate" is run, again or for the first time. *)
Start(m) ==
    /\ Stopped(m)
    /\ Goto(m, "create")
    /\ applied' = [applied EXCEPT ![m] = {}]
    /\ name' = [name EXCEPT ![m] = 0]
    /\ overlap' = (overlap \/ \E o \in Migrators \ {m} : ~Stopped(o))
    /\ UNCHANGED <<database, mishaps>>

(* Mutant: CREATE TABLE without IF NOT EXISTS. *)
CreateAnew(m) ==
    /\ pc[m] = "create"
    /\ \/ ~created /\ Works /\ created' = TRUE /\ Goto(m, "load") /\ UNCHANGED local
       \/ created /\ Works /\ Goto(m, "failed") /\ UNCHANGED <<created, local>>
       \/ Breaks(m) /\ created' \in {created, TRUE}
    /\ UNCHANGED <<recorded, times, overlap>>

Create(m) ==
    /\ pc[m] = "create"
    /\ \/ Works /\ created' = TRUE /\ Goto(m, "load") /\ UNCHANGED local
       \/ Breaks(m) /\ created' \in {created, TRUE}
    /\ UNCHANGED <<recorded, times, overlap>>

(* Mutant: the files are taken in any order. *)
GoOnUnsorted(m, rows, from) ==
    LET pending == (Files[m] \ rows) \ {from} IN
    /\ applied' = [applied EXCEPT ![m] = rows \cup {from}]
    /\ \/ pending = {} /\ Goto(m, "done") /\ UNCHANGED name
       \/ \E v \in pending : name' = [name EXCEPT ![m] = v] /\ Goto(m, "apply")

(* Mutant: the loop runs one past the last file. *)
GoOnPastTheEnd(m, rows, from) ==
    LET pending == {v \in Files[m] \ rows : v > from} IN
    /\ applied' = [applied EXCEPT ![m] = rows]
    /\ Goto(m, "apply")
    /\ \/ pending = {} /\ name' = [name EXCEPT ![m] = from + 1]
       \/ \E v \in pending :
            /\ \A w \in pending : v <= w
            /\ name' = [name EXCEPT ![m] = v]

(* The loop goes on behind the file from, skipping the recorded ones. *)
GoOn(m, rows, from) ==
    LET pending == {v \in Files[m] \ rows : v > from} IN
    /\ applied' = [applied EXCEPT ![m] = rows]
    /\ \/ pending = {} /\ Goto(m, "done") /\ UNCHANGED name
       \/ \E v \in pending :
            /\ \A w \in pending : v <= w
            /\ name' = [name EXCEPT ![m] = v]
            /\ Goto(m, "apply")

(* Mutant: the applied set comes back empty. *)
LoadNothing(m) ==
    /\ pc[m] = "load"
    /\ \/ Works /\ GoOn(m, {}, 0)
       \/ Breaks(m)
    /\ UNCHANGED <<database, overlap>>

Load(m) ==
    /\ pc[m] = "load"
    /\ \/ Works /\ GoOn(m, recorded, 0)
       \/ Breaks(m)
    /\ UNCHANGED <<database, overlap>>

(* Mutant: the error of the migration is overlooked. *)
ApplyIgnoringError(m) ==
    LET v == name[m] IN
    /\ pc[m] = "apply"
    /\ \/ Works /\ times' = [times EXCEPT ![v] = IF @ < 2 THEN @ + 1 ELSE @]
       \/ Mishap /\ UNCHANGED times
    /\ Goto(m, "record")
    /\ UNCHANGED <<created, recorded, local, overlap>>

Apply(m) ==
    LET run == times' = [times EXCEPT ![name[m]] = IF @ < 2 THEN @ + 1 ELSE @] IN
    /\ pc[m] = "apply"
    /\ \/ Works /\ run /\ Goto(m, "record") /\ UNCHANGED local
       \/ Breaks(m) /\ (run \/ UNCHANGED times)
    /\ UNCHANGED <<created, recorded, overlap>>

(* Mutant: the error of the INSERT is overlooked. *)
RecordIgnoringError(m) ==
    /\ pc[m] = "record"
    /\ \/ Works /\ recorded' = recorded \cup {name[m]}
       \/ Mishap /\ UNCHANGED recorded
    /\ GoOn(m, applied[m], name[m])
    /\ UNCHANGED <<created, times, overlap>>

(* The version is the primary key: who comes second fails. *)
Record(m) ==
    LET insert == recorded' = recorded \cup {name[m]} IN
    /\ pc[m] = "record"
    /\ \/ name[m] \notin recorded /\ Works /\ insert /\ GoOn(m, applied[m], name[m])
       \/ name[m] \in recorded /\ Works /\ Goto(m, "failed") /\ UNCHANGED <<recorded, local>>
       \/ Breaks(m) /\ (insert \/ UNCHANGED recorded)
    /\ UNCHANGED <<created, times, overlap>>

Crash(m) ==
    /\ ~Stopped(m)
    /\ Mishap
    /\ Goto(m, "idle")
    /\ UNCHANGED <<database, local, overlap>>

Step(m) == Create(m) \/ Load(m) \/ Apply(m) \/ Record(m)

Next == \E m \in Migrators : Start(m) \/ Step(m) \/ Crash(m)

Spec == Init /\ [][Next]_vars

(* A process that runs goes on, and whoever runs migrations tries again     *)
(* until it is done.                                                        *)
Fairness == \A m \in Migrators : WF_vars(Step(m)) /\ WF_vars(pc[m] # "done" /\ Start(m))

FairSpec == Spec /\ Fairness

(***************************************************************************)
(* Properties.                                                             *)
(***************************************************************************)
TypeOK ==
    /\ created \in BOOLEAN
    /\ recorded \subseteq Versions
    /\ times \in [Versions -> 0 .. 2]
    /\ pc \in [Migrators -> {"idle", "failed", "done", "create", "load", "apply", "record"}]
    /\ applied \in [Migrators -> SUBSET Versions]
    /\ name \in [Migrators -> Versions \cup {0}]
    /\ overlap \in BOOLEAN
    /\ mishaps \in Nat

(* A file that is recorded, and will be skipped from then on, was applied:  *)
(* no crash, lost reply or second migrator gets a file recorded that never  *)
(* ran.                                                                     *)
RecordedIsApplied == \A v \in recorded : times[v] > 0

(* A migrator that ends without an error leaves all its files applied and   *)
(* recorded, although it loaded the recorded ones only once, at its start.  *)
SuccessMeansComplete ==
    \A m \in Migrators : pc[m] = "done" => \A v \in Files[m] : v \in recorded /\ times[v] > 0

(* A file is applied only after the files named before it in the same       *)
(* binary, also when some of these were left to another migrator.           *)
AppliedInOrder ==
    \A m \in Migrators :
        pc[m] = "apply" => \A v \in Files[m] : v < name[m] => times[v] > 0

(* "already-applied files are skipped": a file is applied a second time     *)
(* only after a mishap or by a migrator that ran beside another one.        *)
SkippedUnlessDisturbed ==
    mishaps = 0 /\ ~overlap => \A v \in Versions : times[v] < 2

(* "It is safe to run repeatedly": after any mishaps the schema gets        *)
(* complete.                                                                *)
Converges == \A m \in Migrators : <>[](Files[m] \subseteq recorded)
===============================================================================
