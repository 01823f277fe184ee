---------------------------- MODULE Deployment ------------------------------
(***************************************************************************)
(* A process of the repository, from its main to its exit, next to other   *)
(* processes that start, migrate and crash on the same database.           *)
(*                                                                         *)
(* Of the observed process every part of ServiceRun is seen: the loader    *)
(* that builds a storage calls MustRegister and waits for it, an Execute   *)
(* that fails panics the provider, and a process that closes its database  *)
(* or is killed leaves the session of Migrations.  Of the others only the  *)
(* migrations are: each registers its storages in a fixed order, then      *)
(* runs, and is started again when it has ended.                           *)
(***************************************************************************)
EXTENDS Migrations

CONSTANTS
    Observed,     \* the process that is seen in full
    CallsOf,      \* CallsOf[p]: what another process registers, in order
    MaxRequests,  \* bound: requests in flight at its HTTP server
    None

ASSUME DeploymentAssumption ==
    /\ Observed \in Processes /\ DOMAIN CallsOf = Processes \ {Observed}
    /\ \A p \in DOMAIN CallsOf : CallsOf[p] \in Seq(Sources)
    /\ MaxRequests \in Nat
    /\ None \notin {"completed", "failed", "timeout"} /\ None \notin {0, 1}

VARIABLES program, phase, loader, stack, db, job, first, cancelled, inflight, left,
          signalled, exit

R == INSTANCE ServiceRun

Others == Processes \ {Observed}
observedVars == <<program, phase, loader, stack, db, job, first, cancelled, inflight, left,
                  signalled, exit>>
system == <<vars, observedVars>>

(* The migrations of each table, numbered in the order of their names.     *)
IdempotencyKeyMigrations == {1}
MessageStorageMigrations == {2}
UserMigrations == {3}
UserProfileMigrations == {5}

TableMigrations ==
    [idk |-> IdempotencyKeyMigrations, message |-> MessageStorageMigrations,
     user |-> UserMigrations, profile |-> UserProfileMigrations]

ASSUME TablesAssumption == \A t \in DOMAIN TableMigrations : TableMigrations[t] \in Sources

SystemInit == Init /\ R!Init

-----------------------------------------------------------------------------
(* The observed process starts.                                            *)

Top == stack[Len(stack)]

(* The provider on top of the stack has what it loads.                     *)
AtProvider == phase = "starting" /\ stack # <<>> /\ R!Wanted = {}

Registered(n) ==
    \E k \in DOMAIN calls[Observed] : calls[Observed][k] = TableMigrations[R!Migrates[n]]

LoadPart == R!Load /\ UNCHANGED vars

(* The provider of the database has connected.                             *)
BuildDatabase ==
    /\ AtProvider /\ Top = "db"
    /\ R!Build /\ Start(Observed)

(* The provider of a storage registers its migrations ...                  *)
RegisterStorage ==
    /\ AtProvider /\ R!Registers(Top) /\ ~Registered(Top)
    /\ MustRegister(Observed, TableMigrations[R!Migrates[Top]])
    /\ UNCHANGED observedVars

(* ... which runs until it returns or panics.                              *)
ExecuteForStorage ==
    /\ Execute(Observed)
    /\ IF pc'[Observed] = "off" THEN R!ProviderPanics ELSE UNCHANGED observedVars

(* A provider returns; that of a storage after its MustRegister.           *)
BuildPart ==
    /\ AtProvider /\ Top # "db"
    /\ R!Registers(Top) => pc[Observed] = "idle" /\ Registered(Top)
    /\ R!Build
    /\ UNCHANGED vars

RunJobs == R!Run /\ UNCHANGED vars

(* A query of Execute fails or its connection is lost ...                  *)
ExecuteFails ==
    /\ pc[Observed] \notin {"off", "idle"}
    /\ R!ProviderPanics /\ Fault(Observed)

(* ... or a provider fails that does not migrate.                          *)
PartFails ==
    /\ AtProvider /\ ~R!Registers(Top)
    /\ R!BuildPanics
    /\ UNCHANGED <<procVars, dbVars>>

(* The session of a process that is over.                                  *)
Disconnect ==
    /\ IF pc[Observed] = "off" THEN UNCHANGED <<procVars, dbVars>> ELSE Exit(Observed)
    /\ UNCHANGED faults

ObservedStart ==
    \/ LoadPart \/ BuildDatabase \/ RegisterStorage \/ ExecuteForStorage \/ BuildPart \/ RunJobs

-----------------------------------------------------------------------------
KillObserved == R!Killed /\ Disconnect

RunObserved == R!RunStep /\ UNCHANGED <<procVars, dbVars>>

CloseObserved == R!Close /\ Disconnect

(* A storage of another process registers its migrations.                  *)
RegisterNext(p) ==
    /\ Len(calls[p]) < Len(CallsOf[p])
    /\ MustRegister(p, CallsOf[p][Len(calls[p]) + 1])

OtherStep(p) == (Start(p) \/ RegisterNext(p) \/ Execute(p)) /\ UNCHANGED observedVars

OtherFault(p) == Fault(p) /\ UNCHANGED observedVars

SystemNext ==
    \/ ObservedStart \/ ExecuteFails \/ PartFails \/ KillObserved \/ RunObserved \/ CloseObserved
    \/ \E p \in Others : OtherStep(p) \/ OtherFault(p)

(* The fairness of ServiceRun for the observed process; the others run and *)
(* are started again when they have ended.                                 *)
SystemSpec ==
    /\ SystemInit /\ [][SystemNext]_system
    /\ WF_system(ObservedStart) /\ R!RunFairness /\ WF_system(CloseObserved)
    /\ \A p \in Others : WF_system(OtherStep(p))

-----------------------------------------------------------------------------
(* Processes that start at the same time do not get into each other's way: *)
(* Execute ends early with a crash, a failing query or a lost connection,  *)
(* never with a duplicate key or a missing table (migration.go, Execute).  *)
OnlyFaultsEndAStart ==
    [][\A p \in Processes :
        pc[p] \notin {"off", "idle"} /\ pc'[p] = "off" =>
            faults' > faults \/ (p = Observed /\ signalled')]_system

(***************************************************************************)
(* Every start ends, whoever crashed with the lock of the migrations: the  *)
(* observed process gets to run or exits, as no provider waits for itself, *)
(* and every other process is up with its schema in the end.               *)
(***************************************************************************)
EveryStartEnds ==
    /\ <>(phase # "starting")
    /\ \A p \in Others : <>[](pc[p] = "idle" /\ calls[p] = CallsOf[p])

(***************************************************************************)
(* A program takes no request or message before every table it uses is     *)
(* migrated, whatever main happens to load first and whoever performs the  *)
(* migrations: nothing but the wiring of the lazy containers sees to it.   *)
(***************************************************************************)
ReadyWhenRunning ==
    phase = "running" =>
        /\ db = "open"
        /\ \A t \in R!Tables[program] : TableMigrations[t] \subseteq Applied \intersect records

(***************************************************************************)
(* A process exits in good order.  The database is closed last: when no    *)
(* job runs, and no request is left but those that outlived the shutdown   *)
(* timeout or a listener that failed (server.go, Listener; group.go,       *)
(* Wait).  It is closed before the exit, also when a provider or a job     *)
(* panicked main; only a process killed while it starts leaves it          *)
(* (container.go, Close).  And the status is that of the first job to end: *)
(* neither a shutdown that timed out nor a listener that finds its channel *)
(* closed makes a stop look like a failure (run.go, Run; group.go, Do).    *)
(***************************************************************************)
ExitIsOrderly ==
    /\ db = "closed" =>
           /\ \A j \in R!AllJobs : job[j] \in {"none", "ended"}
           /\ inflight = 0 \/ left # None
    /\ phase = "exited" /\ exit # None =>
           /\ db # "open"
           /\ exit = 1 => faults > 0
           /\ exit = 0 => first = "completed"

(***************************************************************************)
(* A signal, and the end of any job, ends the process, whatever requests   *)
(* are in flight and however long they take, unless the worker of the      *)
(* storage consumer never returns.                                         *)
(***************************************************************************)
StopStops ==
    (signalled \/ first # None) ~> (phase = "exited" \/ [](job["consumer"] = "running"))
=============================================================================
