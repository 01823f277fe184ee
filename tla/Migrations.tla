----------------------------- MODULE Migrations -----------------------------
(***************************************************************************)
(* Several processes that start against one database and bring its schema  *)
(* up to date (pkg/sql/migration.go).  While a process builds its          *)
(* dependencies, each storage calls MustRegister for its own migrations    *)
(* (internal/pkg/cmd/sqlmigration.go); a call that fails ends the process. *)
(*                                                                         *)
(* Execute adds the migration that creates the table of migrations, sorts, *)
(* takes a session lock, reads which migrations are recorded and performs  *)
(* the others in turn, each in a transaction with its record.  The         *)
(* transactions run on the connection that holds the lock.                 *)
(*                                                                         *)
(* A migration is its ID, a number; 0 creates the table.  No two sources   *)
(* of the repository use the same ID.  Who calls MustRegister, and when,   *)
(* is left open here; Deployment says it.                                  *)
(***************************************************************************)
EXTENDS Integers, FiniteSets, Sequences, FiniteSetsExt

CONSTANTS
    Processes,  \* the processes that start
    Sources,    \* what MustRegister is called with: sets of IDs
    MaxFaults,  \* bound on crashes, failed queries and lost connections
    Nobody      \* "the lock is free", "no migration"

TableDDL == 0
IDs == {TableDDL} \union UNION Sources

ASSUME SourcesAssumption == \A ids \in Sources : ids \subseteq Nat \ {TableDDL}
ASSUME FiniteAssumption == IsFiniteSet(IDs) /\ MaxFaults \in Nat
ASSUME NobodyAssumption == Nobody \notin Processes \union IDs

VARIABLES
    pc,        \* pc[p]: where the process is
    calls,     \* calls[p]: what it has called MustRegister with, the last call last
    todo,      \* todo[p]: migrations the call has not come to yet
    known,     \* known[p]: performedMigrationIDs, read under the lock
    current,   \* current[p]: the migration of the open transaction
    effect,    \* effect[p]: what its queries have done in the transaction
    lock,      \* who holds the session lock
    records,   \* committed rows of the table migration
    applied,   \* the order in which migrations took effect
    faults     \* how many faults there were

procVars == <<pc, calls, todo, known, current, effect>>
dbVars   == <<lock, records, applied>>
vars == <<procVars, dbVars, faults>>

PcStates == {"off", "idle", "wait", "locked", "loop", "tx", "record", "commit"}

TypeOK ==
    /\ pc \in [Processes -> PcStates]
    /\ calls \in [Processes -> Seq(Sources)]
    /\ todo \in [Processes -> SUBSET IDs] /\ known \in [Processes -> SUBSET IDs]
    /\ current \in [Processes -> IDs \union {Nobody}] /\ effect \in [Processes -> Seq(IDs)]
    /\ lock \in Processes \union {Nobody}
    /\ records \subseteq IDs /\ applied \in Seq(IDs)
    /\ faults \in Nat

Init ==
    /\ pc = [p \in Processes |-> "off"]
    /\ calls = [p \in Processes |-> <<>>]
    /\ todo = [p \in Processes |-> {}] /\ known = [p \in Processes |-> {}]
    /\ current = [p \in Processes |-> Nobody] /\ effect = [p \in Processes |-> <<>>]
    /\ lock = Nobody
    /\ records = {} /\ applied = <<>>
    /\ faults = 0

Applied == {applied[k] : k \in DOMAIN applied}

Goto(p, state) == pc' = [pc EXCEPT ![p] = state]

-----------------------------------------------------------------------------
(* NewDatabase answers a ping.                                             *)
Start(p) ==
    /\ pc[p] = "off"
    /\ Goto(p, "idle")
    /\ UNCHANGED <<calls, todo, known, current, effect, dbVars, faults>>

(* A storage registers its migrations, and Execute collects them.          *)
MustRegister(p, ids) ==
    /\ pc[p] = "idle"
    /\ calls' = [calls EXCEPT ![p] = Append(@, ids)]
    /\ todo' = [todo EXCEPT ![p] = ids \union {TableDDL}]
    /\ Goto(p, "wait")
    /\ UNCHANGED <<known, current, effect, dbVars, faults>>

(* Faulty variant: Execute without the session lock.                       *)
TakeLockNever(p) ==
    /\ pc[p] = "wait"
    /\ Goto(p, "locked")
    /\ UNCHANGED <<calls, todo, known, current, effect, dbVars, faults>>

(* Execute waits for the lock.                                             *)
TakeLock(p) ==
    /\ pc[p] = "wait" /\ lock = Nobody
    /\ lock' = p
    /\ Goto(p, "locked")
    /\ UNCHANGED <<calls, todo, known, current, effect, records, applied, faults>>

(* Without the table nothing has been performed.                           *)
GetPerformedMigrationIDs(p) ==
    /\ pc[p] = "locked"
    /\ known' = [known EXCEPT ![p] = IF TableDDL \in Applied THEN records ELSE {}]
    /\ Goto(p, "loop")
    /\ UNCHANGED <<calls, todo, current, effect, dbVars, faults>>

(* The migrations come in the order of their IDs.                          *)
Pick(p, m) == m \in todo[p] /\ \A k \in todo[p] : m <= k

(* What is recorded is skipped.                                            *)
Skip(p) ==
    /\ pc[p] = "loop"
    /\ \E m \in todo[p] \intersect known[p] :
        Pick(p, m) /\ todo' = [todo EXCEPT ![p] = @ \ {m}]
    /\ UNCHANGED <<pc, calls, known, current, effect, dbVars, faults>>

(* Begin, on the connection of the lock.                                   *)
BeginMigration(p) ==
    /\ pc[p] = "loop"
    /\ \E m \in todo[p] \ known[p] :
        Pick(p, m) /\ current' = [current EXCEPT ![p] = m]
    /\ Goto(p, "tx")
    /\ UNCHANGED <<calls, todo, known, effect, dbVars, faults>>

(* Faulty variant: the queries run outside the transaction.                *)
RunQueriesAtOnce(p) ==
    /\ pc[p] = "tx"
    /\ applied' = Append(applied, current[p])
    /\ Goto(p, "record")
    /\ UNCHANGED <<calls, todo, known, current, effect, lock, records, faults>>

(* The queries of the migration, one after the other.                      *)
RunQueries(p) ==
    /\ pc[p] = "tx"
    /\ effect' = [effect EXCEPT ![p] = <<current[p]>>]
    /\ Goto(p, "record")
    /\ UNCHANGED <<calls, todo, known, current, dbVars, faults>>

(* The process is over: its connection is closed, which releases the lock  *)
(* and rolls back the transaction.                                         *)
Exit(p) ==
    /\ Goto(p, "off")
    /\ todo' = [todo EXCEPT ![p] = {}]
    /\ known' = [known EXCEPT ![p] = {}]
    /\ current' = [current EXCEPT ![p] = Nobody]
    /\ effect' = [effect EXCEPT ![p] = <<>>]
    /\ calls' = [calls EXCEPT ![p] = <<>>]
    /\ lock' = IF lock = p THEN Nobody ELSE lock
    /\ UNCHANGED <<records, applied>>

(* The row of a migration that another transaction has inserted and not    *)
(* committed makes the insert wait.                                        *)
RowLocked(p) == \E q \in Processes \ {p} : pc[q] = "commit" /\ current[q] = current[p]

CanRecord(p) ==
    /\ TableDDL \in Applied \union {current[p]}
    /\ current[p] \notin records

(* The insert of the record.  Without the table, or with a duplicate key,  *)
(* Execute fails and MustRegister panics.                                  *)
CreateMigrationRecord(p) ==
    /\ pc[p] = "record" /\ ~RowLocked(p)
    /\ IF CanRecord(p)
       THEN Goto(p, "commit") /\ UNCHANGED <<calls, todo, known, current, effect, dbVars>>
       ELSE Exit(p)
    /\ UNCHANGED faults

CommitMigration(p) ==
    /\ pc[p] = "commit"
    /\ records' = records \union {current[p]}
    /\ applied' = applied \o effect[p]
    /\ effect' = [effect EXCEPT ![p] = <<>>]
    /\ todo' = [todo EXCEPT ![p] = @ \ {current[p]}]
    /\ current' = [current EXCEPT ![p] = Nobody]
    /\ Goto(p, "loop")
    /\ UNCHANGED <<calls, known, lock, faults>>

(* Faulty variant: a call that succeeded keeps the lock.                   *)
ReleaseNever(p) ==
    /\ pc[p] = "loop" /\ todo[p] = {}
    /\ Goto(p, "idle")
    /\ UNCHANGED <<calls, todo, known, current, effect, dbVars, faults>>

(* The lock is released, and MustRegister returns.                         *)
Release(p) ==
    /\ pc[p] = "loop" /\ todo[p] = {}
    /\ lock' = IF lock = p THEN Nobody ELSE lock
    /\ Goto(p, "idle")
    /\ UNCHANGED <<calls, todo, known, current, effect, records, applied, faults>>

(* A query fails, the connection is lost, or the process crashes.          *)
Fault(p) ==
    /\ pc[p] # "off"
    /\ faults < MaxFaults /\ faults' = faults + 1
    /\ Exit(p)

-----------------------------------------------------------------------------
(* The steps of Execute.                                                   *)
Execute(p) ==
    \/ TakeLock(p) \/ GetPerformedMigrationIDs(p) \/ Skip(p) \/ BeginMigration(p)
    \/ RunQueries(p) \/ CreateMigrationRecord(p) \/ CommitMigration(p) \/ Release(p)

Next ==
    \E p \in Processes :
        Start(p) \/ (\E ids \in Sources : MustRegister(p, ids)) \/ Execute(p) \/ Fault(p)

Spec == Init /\ [][Next]_vars

-----------------------------------------------------------------------------
(* A migration takes effect once, whichever processes perform it and       *)
(* wherever they crash: the record is written in the same transaction.  It *)
(* runs on a schema that has every earlier one of its call, the table of   *)
(* migrations to begin with.                                               *)
AppliedOnceInOrder ==
    /\ \A j, k \in DOMAIN applied : applied[j] = applied[k] => j = k
    /\ \A p \in Processes :
        pc[p] \in {"tx", "record", "commit"} =>
            \A m \in calls[p][Len(calls[p])] \union {TableDDL} :
                m < current[p] => m \in Applied
=============================================================================
