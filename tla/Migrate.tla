------------------------------- MODULE Migrate -------------------------------
(***************************************************************************)
(* The migrations of the evidence database (internal/evidence/store), which *)
(* every command of rmm-evidence applies before anything else.             *)
(*                                                                         *)
(* The version of the schema is read once; each migration then has a       *)
(* transaction of its own, and none tests whether it was applied: what     *)
(* stops a second one is that its tables exist.  A command that fails      *)
(* leaves those it has committed, and the next command goes on from there. *)
(***************************************************************************)
EXTENDS Naturals, Sequences, FiniteSetsExt

CONSTANTS
    Commands,       \* processes of rmm-evidence
    Latest          \* the number of migrations: 7

ASSUME MigrateAssumption == Latest \in Nat \ {0}

VARIABLES
    applied,    \* schema_migrations, in the order of the commits
    next        \* command -> the migration it is at; 0: none

migrateVars == <<applied, next>>

SchemaVersion == Max({0} \cup {applied[i] : i \in DOMAIN applied})

(* The database of a release that had fewer migrations, or a new one. *)
MigrateInit ==
    /\ \E n \in 0..Latest : applied = [i \in 1..n |-> i]
    /\ next = [p \in Commands |-> 0]

(* A command that finds nothing to apply is Ready at once. *)
OpenDB(p) ==
    /\ next[p] = 0
    /\ SchemaVersion < Latest
    /\ next' = [next EXCEPT ![p] = SchemaVersion + 1]
    /\ UNCHANGED applied

(* Mutant: a migration can be applied again. *)
ApplyAgain(p) ==
    /\ next[p] \in 1..Latest
    /\ applied' = Append(applied, next[p])
    /\ next' = [next EXCEPT ![p] = @ + 1]

Apply(p) ==
    /\ next[p] \in 1..Latest
    /\ \A i \in DOMAIN applied : applied[i] # next[p]
    /\ applied' = Append(applied, next[p])
    /\ next' = [next EXCEPT ![p] = @ + 1]

(* The tables exist, the lock is not to be had, the disk fails, or the     *)
(* process is killed.                                                      *)
MigrateFails(p) ==
    /\ next[p] > 0
    /\ next' = [next EXCEPT ![p] = 0]
    /\ UNCHANGED applied

(* Migrate has returned without an error. *)
Ready(p) == next[p] > Latest \/ (next[p] = 0 /\ SchemaVersion = Latest)
=============================================================================
