----------------------------- MODULE ServiceRun -----------------------------
(***************************************************************************)
(* The life of a process: the lazily loaded containers that main builds,   *)
(* the jobs it runs in a group, and the way it stops.                      *)
(*                                                                         *)
(* main loads the parts it needs; a part is built when it is first loaded, *)
(* after the parts its provider loads, and a provider that fails panics    *)
(* through all that are being built up to the deferred Close of main.      *)
(* Then Run starts the jobs.  The first one to end, for whatever reason,   *)
(* makes the group cancel the context of the others; when all have ended   *)
(* the database is closed and the process exits.                           *)
(*                                                                         *)
(* What the migrations do when a storage is built is the subject of        *)
(* Migrations; Deployment puts the two together.                           *)
(***************************************************************************)
EXTENDS Integers, Sequences, FiniteSets, SequencesExt

CONSTANTS
    MaxRequests,  \* bound: requests in flight at the HTTP server
    MaxFaults,    \* bound: things that fail
    None

(***************************************************************************)
(* The wiring: for every part, what its provider loads, in order.          *)
(***************************************************************************)

\* Parts that load nothing and cannot fail, such as the clock and the converters, are
\* left out.
BaseDeps == [
    logger |-> <<>>, metrics |-> <<>>, auth |-> <<>>, db |-> <<>>,
    observer |-> <<"logger">>]

InfrastructureDeps == [
    migrations |-> <<"db", "logger">>,
    msgStorage |-> <<"migrations", "db">>,
    idkStorage |-> <<"migrations", "db">>,
    httpServer |-> <<"observer", "metrics", "logger", "auth">>,
    httpClients |-> <<"observer", "metrics", "logger">>,
    busListener |-> <<"storageConsumers", "observer", "metrics", "logger">>,
    storageConsumers |-> <<"msgStorage", "metrics", "logger">>,
    busProducer |-> <<"msgStorage", "observer", "metrics", "logger">>,
    idkService |-> <<"idkStorage">>,
    eventDispatcher |-> <<"busProducer">>]

UserDeps == [
    userEvents |-> <<"eventDispatcher">>,
    authService |-> <<"userRepo">>,
    userService |-> <<"userRepo", "db">>]

UserSQLDeps == [
    userSQL |-> <<"migrations">>,
    userRepo |-> <<"userSQL", "db", "userEvents">>]

ProfileDeps == [
    remoteUsers |-> <<"httpClients">>,
    profileService |-> <<"remoteUsers", "profileRepo", "idkService", "db">>,
    profileHandlers |-> <<"profileService">>]

ProfileSQLDeps == [
    profileSQL |-> <<"migrations">>,
    profileRepo |-> <<"profileSQL", "db">>]

\* Every part is in one container.
Parts ==
    DOMAIN BaseDeps \cup DOMAIN InfrastructureDeps \cup DOMAIN UserDeps \cup DOMAIN UserSQLDeps
    \cup DOMAIN ProfileDeps \cup DOMAIN ProfileSQLDeps

Deps == [n \in Parts |->
    CASE n \in DOMAIN BaseDeps -> BaseDeps[n]
      [] n \in DOMAIN InfrastructureDeps -> InfrastructureDeps[n]
      [] n \in DOMAIN UserDeps -> UserDeps[n]
      [] n \in DOMAIN UserSQLDeps -> UserSQLDeps[n]
      [] n \in DOMAIN ProfileDeps -> ProfileDeps[n]
      [] n \in DOMAIN ProfileSQLDeps -> ProfileSQLDeps[n]]

\* Faulty variant: the storage of messages does not load the migrations.
AsksUnmigrated(n) == IF n = "msgStorage" THEN <<"db">> ELSE Deps[n]

Asks(n) == Deps[n]

\* The tables whose migrations a provider runs with MustRegister.
Migrates == [msgStorage |-> "message", idkStorage |-> "idk", userSQL |-> "user",
             profileSQL |-> "profile"]

\* Providers that panic: a missing variable, no database, a failed migration or a
\* message type or handler that cannot be registered.
Fallible == {"db", "httpServer", "remoteUsers", "userEvents", "profileHandlers"} \cup DOMAIN Migrates

\* Whether the part is a storage whose provider calls MustRegister.
Registers(n) == n \in DOMAIN Migrates /\ Contains(Asks(n), "migrations")

Programs == {"user-service", "user-profile-service", "message-handler-worker", "idk-cleaner-task"}

\* What main loads, in order, before it runs the jobs.
MainLoads == [p \in Programs |->
    CASE p = "user-service" -> <<"httpServer", "authService", "userService", "logger">>
      [] p = "user-profile-service" -> <<"httpServer", "profileService", "logger">>
      [] p = "message-handler-worker" ->
            <<"busListener", "profileHandlers", "storageConsumers", "logger">>
      [] p = "idk-cleaner-task" -> <<"logger", "idkService">>]

Jobs == [p \in Programs |->
    CASE p \in {"user-service", "user-profile-service"} -> {"signal", "http"}
      [] p = "message-handler-worker" -> {"signal", "consumer", "listener", "process"}
      [] p = "idk-cleaner-task" -> {"signal", "clean"}]

\* The tables the statements of a program read and write once it runs.
Tables == [p \in Programs |->
    CASE p = "user-service" -> {"user", "message"}
      [] p = "user-profile-service" -> {"profile", "idk"}
      [] p = "message-handler-worker" -> {"message", "profile", "idk"}
      [] p = "idk-cleaner-task" -> {"idk"}]

VARIABLES
    program,
    phase,      \* "starting", "running", "closing" or "exited"
    loader,     \* of every part: "new", "loaded" or "panicked"
    stack,      \* the parts being built, the last one on top
    db,         \* "none", "open" or "closed"
    job,        \* of every job: "none", "running", "stopping" or "ended"
    first,      \* errChan: the outcome of the job that ended first
    cancelled,  \* the context of the group
    inflight,   \* requests in flight at the HTTP server
    left,       \* why Listener left some of them: None, "timeout" or "failed"
    signalled,
    exit,       \* the exit status
    faults

start == <<loader, stack>>
group == <<job, first, cancelled>>
http == <<inflight, left>>
vars == <<program, phase, start, db, group, http, signalled, exit, faults>>

AllJobs == UNION {Jobs[p] : p \in Programs}

Init ==
    /\ program \in Programs
    /\ phase = "starting"
    /\ loader = [n \in Parts |-> "new"]
    /\ stack = <<>>
    /\ db = "none"
    /\ job = [j \in AllJobs |-> "none"]
    /\ first = None
    /\ cancelled = FALSE
    /\ inflight = 0 /\ left = None
    /\ signalled = FALSE
    /\ exit = None
    /\ faults = 0

Fault == faults < MaxFaults /\ faults' = faults + 1

(***************************************************************************)
(* Start.                                                                  *)
(***************************************************************************)

\* What the provider on top of the stack, or main, asks for, in order ...
Asked == IF stack = <<>> THEN MainLoads[program] ELSE Asks(Last(stack))

\* ... and which of it is not loaded yet: the first of these is loaded next.
Wanted == {k \in 1 .. Len(Asked) : loader[Asked[k]] # "loaded"}

\* Load of a part that is not there runs its provider, once.
Load ==
    /\ phase = "starting"
    /\ \E k \in Wanted :
        /\ \A j \in Wanted : k <= j
        /\ ~Contains(stack, Asked[k])
        /\ stack' = Append(stack, Asked[k])
    /\ UNCHANGED <<program, phase, loader, db, group, http, signalled, exit, faults>>

\* The provider on top of the stack has what it asked for and returns its part.
Build ==
    /\ phase = "starting" /\ stack # <<>> /\ Wanted = {}
    /\ LET n == Last(stack)
       IN  /\ loader' = [loader EXCEPT ![n] = "loaded"]
           /\ db' = IF n = "db" THEN "open" ELSE db
    /\ stack' = Front(stack)
    /\ UNCHANGED <<program, phase, group, http, signalled, exit, faults>>

\* It panics instead, through every Load below it, into the deferred Close of main.
ProviderPanics ==
    /\ phase = "starting" /\ stack # <<>> /\ Wanted = {} /\ Last(stack) \in Fallible
    /\ loader' = [n \in Parts |-> IF Contains(stack, n) THEN "panicked" ELSE loader[n]]
    /\ stack' = <<>>
    /\ phase' = "closing" /\ exit' = 1
    /\ UNCHANGED <<program, db, group, http, signalled>>

BuildPanics == Fault /\ ProviderPanics

\* Run: all jobs of the program are given to the group.
Run ==
    /\ phase = "starting" /\ stack = <<>> /\ Wanted = {}
    /\ phase' = "running"
    /\ job' = [j \in AllJobs |-> IF j \in Jobs[program] THEN "running" ELSE "none"]
    /\ UNCHANGED <<program, start, db, first, cancelled, http, signalled, exit, faults>>

(***************************************************************************)
(* The group.                                                              *)
(***************************************************************************)

\* Faulty variant: the outcome of the last job is kept.
KeepLast(outcome) == outcome

\* The send to errChan, which holds one: only the first outcome is kept.
KeepFirst(outcome) == IF first = None THEN outcome ELSE first

\* Job j returns, and Run's adapter has made "completed" of nil and of the context's own
\* error.
End(j, outcome) ==
    /\ job' = [job EXCEPT ![j] = "ended"]
    /\ first' = KeepFirst(outcome)
    /\ UNCHANGED cancelled

\* Faulty variant: nobody cancels the context.
CancelNever == FALSE /\ UNCHANGED vars

\* The job whose outcome was kept cancels the context of the group.
Cancel ==
    /\ first # None /\ ~cancelled
    /\ cancelled' = TRUE
    /\ UNCHANGED <<program, phase, start, db, job, first, http, signalled, exit, faults>>

Signal ==
    /\ phase = "running" /\ ~signalled
    /\ signalled' = TRUE
    /\ UNCHANGED <<program, phase, start, db, group, http, exit, faults>>

\* TermSignalAwaiter
SignalEnds ==
    /\ job["signal"] = "running" /\ (signalled \/ cancelled)
    /\ End("signal", "completed")
    /\ UNCHANGED <<program, phase, start, db, http, signalled, exit, faults>>

\* The consumer's worker and the periodical job return the context's error.
WorkerEnds(j) ==
    /\ cancelled
    /\ job[j] = "running" /\ End(j, "completed")
    /\ UNCHANGED <<program, phase, start, db, http, signalled, exit, faults>>

\* The listener returns nil when it sees the end of the context, and an error when it
\* sees first that the consumer has closed its channel.
ListenerEnds ==
    /\ cancelled /\ job["listener"] = "running"
    /\ \/ End("listener", "completed")
       \/ job["consumer"] = "ended" /\ End("listener", "failed")
    /\ UNCHANGED <<program, phase, start, db, http, signalled, exit, faults>>

\* DeleteOutdated is done, or cut short by the context.
CleanEnds ==
    /\ job["clean"] = "running" /\ End("clean", "completed")
    /\ UNCHANGED <<program, phase, start, db, http, signalled, exit, faults>>

\* A job fails of itself: the clean-up's statement fails, the queue of a listener refuses
\* a message.
JobFails ==
    /\ Fault
    /\ \E j \in {"clean", "listener"} : job[j] = "running" /\ End(j, "failed")
    /\ UNCHANGED <<program, phase, start, db, http, signalled, exit>>

(***************************************************************************)
(* The HTTP server.                                                        *)
(***************************************************************************)

Arrive ==
    /\ job["http"] = "running" /\ inflight < MaxRequests
    /\ inflight' = inflight + 1
    /\ UNCHANGED <<program, phase, start, db, group, left, signalled, exit, faults>>

Answer ==
    /\ inflight > 0 /\ phase # "exited"
    /\ inflight' = inflight - 1
    /\ UNCHANGED <<program, phase, start, db, group, left, signalled, exit, faults>>

\* ListenAndServe fails, and Listener returns without a Shutdown.
ListenFails ==
    /\ job["http"] = "running" /\ Fault
    /\ left' = "failed"
    /\ End("http", "failed")
    /\ UNCHANGED <<program, phase, start, db, inflight, signalled, exit>>

\* Listener sees the end of its context and calls Shutdown: no new requests.
ShutdownStarts ==
    /\ job["http"] = "running" /\ cancelled
    /\ job' = [job EXCEPT !["http"] = "stopping"]
    /\ UNCHANGED <<program, phase, start, db, first, cancelled, http, signalled, exit, faults>>

ShutdownEnds ==
    /\ job["http"] = "stopping" /\ inflight = 0
    /\ End("http", "completed")
    /\ UNCHANGED <<program, phase, start, db, http, signalled, exit, faults>>

\* The shutdown timeout: Shutdown returns while requests are still being handled.
ShutdownTimesOut ==
    /\ job["http"] = "stopping" /\ inflight > 0
    /\ left' = "timeout"
    /\ End("http", "failed")
    /\ UNCHANGED <<program, phase, start, db, inflight, signalled, exit, faults>>

(***************************************************************************)
(* The end.                                                                *)
(***************************************************************************)

\* Wait returns when every job has; a kept error is a panic of MustRun.
Wait ==
    /\ phase = "running" /\ \A j \in Jobs[program] : job[j] = "ended"
    /\ phase' = "closing"
    /\ exit' = IF first = "failed" THEN 1 ELSE 0
    /\ cancelled' = TRUE
    /\ UNCHANGED <<program, start, db, job, first, http, signalled, faults>>

\* The deferred Close of main: the database is closed if it was loaded, also after a
\* panic, whose os.Exit is deferred.
Close ==
    /\ phase = "closing"
    /\ db' = IF loader["db"] = "loaded" THEN "closed" ELSE db
    /\ phase' = "exited"
    /\ UNCHANGED <<program, start, group, http, signalled, exit, faults>>

\* A signal before TermSignalAwaiter listens ends the process at once.
Killed ==
    /\ phase = "starting"
    /\ phase' = "exited" /\ signalled' = TRUE
    /\ UNCHANGED <<program, start, db, group, http, exit, faults>>

StartStep == Load \/ Build \/ BuildPanics \/ Run
RunStep ==
    \/ Signal \/ Cancel \/ SignalEnds \/ WorkerEnds("consumer") \/ WorkerEnds("process")
    \/ ListenerEnds \/ CleanEnds \/ JobFails \/ ListenFails \/ Arrive \/ Answer
    \/ ShutdownStarts \/ ShutdownEnds \/ ShutdownTimesOut \/ Wait

Next == StartStep \/ Killed \/ RunStep \/ Close

(***************************************************************************)
(* Fairness: the process takes its steps, a job that is told to stop       *)
(* returns, and the timer of Shutdown fires.  A request need not end, and  *)
(* neither need the consumer's worker (MessagePipeline, ShutdownCompletes).*)
(***************************************************************************)
RunFairness ==
    /\ WF_vars(Cancel) /\ WF_vars(SignalEnds) /\ WF_vars(WorkerEnds("process")) /\ WF_vars(ListenerEnds)
    /\ WF_vars(CleanEnds) /\ WF_vars(ShutdownStarts) /\ WF_vars(ShutdownEnds \/ ShutdownTimesOut)
    /\ WF_vars(Wait)

Spec == Init /\ [][Next]_vars /\ WF_vars(StartStep) /\ RunFairness /\ WF_vars(Close)

-----------------------------------------------------------------------------
TypeOK ==
    /\ phase \in {"starting", "running", "closing", "exited"}
    /\ \A n \in Parts : loader[n] \in {"new", "loaded", "panicked"}
    /\ Range(stack) \subseteq Parts
    /\ db \in {"none", "open", "closed"}
    /\ \A j \in AllJobs : job[j] \in {"none", "running", "stopping", "ended"}
    /\ first \in {None, "completed", "failed"} /\ exit \in {None, 0, 1}
    /\ inflight \in 0 .. MaxRequests /\ faults \in 0 .. MaxFaults
=============================================================================
