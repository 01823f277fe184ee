# go-service-template in TLA+

This directory holds TLA+ specifications of go-service-template: of its
concurrent core, of the services around it and of the processes they run in; TLC
configurations that check them on small instances, and TLAPS proofs of the most
important properties for every instance.
Paths below are relative to the repository's root.

## The system

Four kinds of processes share one PostgreSQL database: `user-service` and
`user-profile-service` (HTTP), `message-handler-worker`, of which several
replicas may run, and `idk-cleaner-task`, which runs once and ends. No service touches
the tables of another; a service writes *messages* into the table `message_storage` in
the transaction that changes its own tables, and workers move them on.

| Component | State | Operations | Talks to |
|---|---|---|---|
| storage consumer (`pkg/message/storageconsumer.go`) | `processChan`, `messagesCh`, `processingMessages`, `processedCount`, a condition variable | `Process`, `Worker`, `Ack` | storage (lock, find, delete), listener (unbuffered channel, `Ack`) |
| message listener (`pkg/message/listener.go`) | a `WaitGroup`; one goroutine per message | `consumerWorker`, `processMessage`, `acknowledgeMessage` | consumer, acknowledge queue, worker pool, handlers |
| acknowledge queues (`pkg/message/listenerqueue.go`) | token channel, map or slice of messages, mutex | `AddProcessing`, `AcknowledgeResult` | listener, broker |
| worker pool and groups (`pkg/worker`) | counter, condition variable; `WaitGroup`, error channel | `Do`, `Wait` | listener, job runner |
| job runner (`pkg/cmd/run.go`, `term.go`) | one group and its context | `Run` | all long-running jobs |
| outbox (`pkg/message/outbox.go`) | `processChan` | `Process`, `Worker` | storage, broker |
| message storage and locks (`pkg/sql/messagestorage.go`, `lock.go`) | a table, session level advisory locks | `Store`, `Find`, `Delete`, `Lock` | PostgreSQL |
| transactions (`pkg/sql/transaction.go`) | the transaction or connection in the context | `WithinContext`, `LockUpdate` | PostgreSQL |
| migrations (`pkg/sql/migration.go`) | a table of performed migrations | `Execute` | PostgreSQL |
| idempotency keys (`pkg/idk`, `pkg/sql/idempotencykey.go`) | a table of keys | `Insert`, `DeleteOutdated` | handlers, cleaner task |
| message bus (`pkg/message/bus*.go`, `event.go`, `task.go`) | registration maps | `Register`, `Produce`, `Schedule`, `RegisterHandlers` | services, storage, broker, listener |
| user service, authentication (`internal/user`) | table `user`, sessions (tokens in cookies, without a signature) | register, delete, authenticate, verify | transactions, message bus |
| user profile service (`internal/userprofile`) | table `user_profile` | get, update, handle a deleted user | user service (HTTP), message bus, idempotency keys |
| HTTP server and client (`pkg/http`) | a request and its answer, what the middlewares record of it | `ServeHTTP` with its middlewares, `Send`, `Listener` | handlers, user service |
| containers, lazy loader (`internal/pkg/cmd`, `pkg/lazy`) | singletons that are loaded once | `Load`, `Close` | everything that `main` builds |
| logging, metrics, environment, string helpers | - | - | - |

### What is hard

* Every message is touched by four goroutines (the consumer's `Worker`, the
  `consumerWorker`, the goroutine of the message, the handlers on the pool), by
  two mutexes, two condition variables and two channels, and by other replicas
  through the advisory lock and the table.
* The send on the channel and the entry in the processing set are two steps; so
  are the test of `processedCount` and the enlisting on the condition variable.
* A lock lives in a database session that may end without the replica knowing.
* Handlers finish out of order; acknowledgements and commits fail halfway and
  are retried; a crash may come between any two steps.
* Cancellation reaches every goroutine at a different time.
* Calls of `WithinContext` nest, also across packages that know nothing of each other;
  the handlers of a batch share one database connection.
* The listener's queue knows messages by their pointers and every send makes a new one, so
  only the storage consumer keeps a message from being handled twice at once.
* A session token stays valid while the account changes; the check of a request and the
  request itself are not atomic.
* The answer of a request is decided by a handler, a deferred writer and a
  stack of middlewares, each of which may fail or panic.
* Which tables a program migrates follows from which parts its `main` happens to load.

`PROJECT.json` lists the hazards line by line, with the properties that cover
each of them and a note where a property admits what the code really does.

### What correct means

* message pipeline: at-least-once, at most one healthy consumer per message and one
  goroutine per replica, redelivery only because of a fault, bounded processing, progress, shutdown;
* outbox: at-least-once, order, duplicates only because of a fault, progress,
  shutdown;
* pool and groups: the limit, the barrier, no lost error, no lost wake-up;
* commit offset queue: nothing skipped, no step back, progress;
* deletion of a user: one event per deletion, one effect per event, no profile left
  behind;
* transactions: all or nothing whatever the nesting, locks held to the end, deadlock only
  by nested locking, a call that is repeated succeeds;
* migrations: once, in order, before the program runs, without starts disturbing each
  other;
* message bus: a call reaches all topics or none, a repeated insert is absorbed, no
  message is early, what was sent is handled;
* sessions and accounts: a deleted user is locked out in bounded time, an active one is
  not, concurrent registrations end well, a login leads to the data of its owner only;
* requests: a failure is never a success, "not found" is never made of a failure, what
  is logged is what was sent;
* processes: run on a migrated database, close it last, exit with the right status, end.

## Modules

| Module | What it is |
|---|---|
| `AtLeastOnce` | abstract: submitted messages are delivered before they are forgotten |
| `MessagePipeline` | storage consumer + listener + ack queue + job runner, several replicas, one topic |
| `MessagePipelineProofs` | its proofs |
| `Outbox` | the outbox worker, several replicas |
| `OutboxProofs` | its proofs |
| `HandlerPool` | the handlers of several messages, their groups and the shared pool |
| `CommitOffsetQueue` | listener + commit offset queue + broker |
| `ListenerProofs` | proofs about `HandlerPool` and `CommitOffsetQueue` |
| `UserDeletion` | Delete of the user service, the event it publishes, and the profile service with its idempotency keys |
| `Transactions` | `WithinContext`: nesting, named locks, commit, rollback, panics, the connection of a batch |
| `TransactionsProofs` | its proofs |
| `Migrations` | the start-up migrations of several processes |
| `MessageBus` | registration, fan-out to topics, subscription |
| `MessageBusProofs` | its proofs |
| `Sessions` | accounts, log-in, verification and renewal of sessions, permissions |
| `SessionsProofs` | its proofs |
| `Requests` | a request through middlewares, handler and writer, and the call between the services |
| `ProfileServiceProofs` | proofs about `Requests` and `UserDeletion` |
| `ServiceRun` | a process from `main` to its exit: containers, jobs, shutdown |
| `Deployment` | `ServiceRun` and `Migrations` composed: one process in full, next to others that migrate the same database |
| `DeploymentProofs` | proofs about `Migrations`, and about `Deployment` on top of them |
| `MC_*` | instances for TLC: model values and symmetry |

Operators that begin with *Faulty variant* in their comment are not part of a
specification: they are the plausible mistakes that `PROJECT.json` substitutes
for an action to show that a property depends on it.

### MessagePipeline

One topic; all replicas of `message-handler-worker`. A message is its rank in the
order of `scheduled_at`, its payload is reduced to whether the listener can handle
it (`Unhandled`: it cannot be decoded or has no handler).

| Variable | Code |
|---|---|
| `rows`, `stored` | due rows of `message_storage`; ghost: everything ever stored |
| `handled` | ghost: how often the handlers of a message all returned nil |
| `lock`, `session` | the topic's advisory lock; the connection it was taken on |
| `proc` | the context of `Run`: live, cancelled, no process |
| `signal`, `worker`, `batch`, `sent`, `outcome` | `processChan`, and where `Worker` and `consumeStorageMessagesBatch` are |
| `processing` | `processingMessages` (and `processedCount`, its size) |
| `listener`, `tokens`, `queue` | `consumerWorker`, `processingTokens`, `processingQueue` |
| `task` | the goroutine `processMessage` of every message |

Steps are cut where another goroutine can see the difference: `Deliver` is the
rendezvous on the channel with what the listener does at once (`AddProcessing` and
the start of the goroutine); `AddToProcessing` follows it; `DeleteRow`,
`RemoveFromProcessing` and `ReturnToken` are the three parts of an
acknowledgement. An entry of the queue and its goroutine are named by their message,
although the code's map is keyed by the pointer that each send makes: `AddProcessing` refuses
only for lack of room (`Accepts`), its test "already in queue" never fires. A second
copy of a message would be a second entry in the code, which these names could not tell
from the first; `OneCopyPerReplica` says that none is ever sent. Loops that change nothing (a handler that fails and is
retried, a `Lock` that fails and is retried) are not steps. `DeleteRowUnconfirmed`
is a deletion whose answer is lost. Under a cancelled context a call that has
not begun fails (no connection is given out), one that has begun may end either
way.

Faults are a termination signal (`Cancel`), the end of the lock's session
(`LoseSession`) and a crash; `MaxFaults` bounds them. A process that is down is
restarted.

### Outbox

The same storage and lock, but the lock of the whole storage; a batch is produced
and deleted row by row. `Produce` and `Delete` can fail with or without effect. The
deferred `err = releaseLock()` overwrites the error of the batch, which `ReleaseLock`
keeps: after a failure the loop goes on at once unless the release itself
failed. `late` is a ghost: rows that were committed after one with a later
`scheduled_at`.

### HandlerPool

`processMessage` from the point where the handlers are known: a group per round,
`Do` for every handler, `Wait`, then the acknowledgement or the next round. The
pool's counter and the list of its condition variable are explicit, and so are the
goroutines that have finished a job but not yet left the counter (`releasing`)
or not yet called `Signal` (`signalling`). The context of a group is cancelled by the
first error, but the listener hands the message's context to the handlers, so the
others go on.

### CommitOffsetQueue

The other queue of `listenerqueue.go`. No broker in the repository uses it yet; the
broker is external and modelled by the interface `CommitOffsetStrategy`: offsets
are delivered in order, a new consumer starts behind the committed offset, a commit
that returns an error may have happened. `AcknowledgeResult` holds the mutex over
the commit and is one step. `queue` and `processed` are the slice and its flags.

### UserDeletion

Calls of `userService.Delete`, updates of profiles, and runs of `HandleUserDeleted`, each
cut at its SQL statements and HTTP calls. Transactions are read committed: what a
transaction has written is held in the state of its process (`delete`, `handler`) and
becomes visible in `CommitDelete` or `CommitHandler`; a row it has locked, written or
inserted makes others wait (`rowLock`, `ProfileLocked`, `HoldsKey`). A rollback is the
process leaving without that step. An event is named by the call that created it. The
pipeline between the services is reduced to what `AtLeastOnce` leaves of it:
`DeliverEvent` may hand an event that is not acknowledged to any idle handler, also
while another one works on it. `DeleteOutdated` removes any key, as a key that is
older than a day may belong to an event that is still redelivered; `expired`
remembers it. `stale` is a ghost: the profile was stored after the deletion.

### Transactions

`stack[c]` is the nesting of `WithinContext` calls of a goroutine; a frame says which
transaction it runs in, whether it began it (`own`, the negation of `hasParentTx`) and
which named locks it still asks for. A call with the same instance in its context is
`CallNested`, any other is `CallBegin`. Locks are taken in the order of their keys
(`NextLock`), one statement each; `DeadlockDetected` is the database's own detector. What
a transaction has written becomes `visible` in `Commit`; `CommitUnknown` is a COMMIT whose
answer is lost. `ReturnError` is the deferred rollback. `Panic` is not: the deferred function
tests `err != nil`, which a panic leaves nil, so the transaction stays open with its locks
until the context of the request ends (`EndContext`).

A `Workload` says who calls, with which instances and locks, and how often things may go
wrong; `load` is chosen at the start, so one run covers several uses of the package.

`load.sharing` are the handlers of a batch: their context carries the connection of the topic
lock. A second BEGIN there is refused and makes the driver give up the connection
(`batchBad`); so does a COMMIT without an answer, and a panic leaves a transaction on it that
nobody ends before the service stops. From then on every handler of the batch fails, which
is what `CallsSucceed` says with `Broken`. (`Ack` deletes the row through the pool, not
through that connection, and is not affected.)

### Migrations

`MustRegister` is called with the migrations of one storage, and `calls[p]` remembers with
what; each call is an `Execute`: lock, read the records, and a transaction per migration
with its record. `effect` is what an open transaction has done. `applied` is the order in
which migrations took effect. The lock and the transactions live on one connection, so a
lost connection or a crash ends both (`Exit`); `MustRegister` panics on every error.
Migration 0 creates the table of records itself. The module leaves open who calls when.

### MessageBus

`registerImpl` fills `producers` and `messageTopics` pair by pair in the order of a map and
leaves what it has done when a later pair is refused. `Produce` looks all types up before
it sends; `Send` is one turn of the inner loop. `TopicCount` keeps what the code does: a type
that occurs k times in a call has each of its topics k times, and `Insert`, with its
`on conflict do nothing`, absorbs the repetitions. Rows of a call in a transaction wait in
`buffer`. `Consume` is the pipeline in one step, for due rows of a topic with a listener.

### Sessions

A client has a cookie and at most one request. `Register` to `RegisterStore` is a registration
under `updateUsersLock`; `Authenticate` and `Login`, `Verify` and `Renew` are the look-up of an
account and the token made of it; `forward` is a request on its way from the gateway to a
handler. Time is a clock; `MaxLatency` bounds how long a request takes, which nothing in
the code does but every deployment has (the gateway's timeout); `SessionEnds` counts with it. The
gateway is external: it is modelled from the comment and the answers of
`VerifyAuthenticationHandler`. A token is its user and its two times; a hash is the
password.

The tokens are base64 of JSON. The comment at `tokengenerator.go:13` calls the generator a fake
example implementation and asks for JWT in a real application: nothing is signed, and `Decode`
takes whatever can be read and is not past its own `validTill`. So `Valid` looks at nothing else,
and `Present` lets a client send a token it did not get by logging in (`OtherTokens`). The
service then answers it as the user that the token names, for as long as the token says.
`SessionEnds`, `ActiveStaysIn` and the second part of `DataToOwner` therefore speak of sessions
that began with a login (`LoggedIn`: the ghost `as` has the credentials); they say that the code
around the generator is right, and would hold of all sessions if only the service could make tokens. The first
part of `DataToOwner` is about every token.

### Requests

A request at a server ("outer") and, for a route of the profile service, the call it makes to the
user service ("inner"), both through the same steps: `Require` (authentication
middlewares), `Reject`, `HandleUser` or `HandleProfile` (the handlers and their services), `Write`
(`responseWriter.Write`), `MapErrors`, `Persist` and `Record`. `code` and `body` are what will be
written, `metaCode`, `metaErr` and `metaPanic` what the middlewares see. `WorldChanges` are other
requests about the same user; `seen` remembers what they did.

### ServiceRun

`Deps` is the wiring of the containers: for every part what its provider loads, in order, in one
operator per container. `Load`, `Build` and `BuildPanics` walk it as the lazy loader does. `Run`
starts the jobs; `first` is the error channel of the group, which holds one outcome;
`Cancel` is what the job whose outcome was kept does next. `ListenerEnds` may fail at a normal stop,
because the consumer closes its channel, but then it is not the first to end and does not
decide the exit status. `ShutdownTimesOut` leaves requests behind (`left`), and the process
still exits with 0.

### Deployment

The observed process is in the state of `ServiceRun` and is one of the processes of
`Migrations`; `faults` is shared. Where the two meet, an action is a step of both: the
provider of the database connects (`BuildDatabase`); the provider of a storage calls
`MustRegister` when it has loaded the migrations (`RegisterStorage`) and returns only when
the call has (`BuildPart`); an `Execute` that fails, by a fault or by what it finds in the
database, is a panic of the provider (`ExecuteForStorage`, `ExecuteFails`); closing the
database or being killed ends the session (`Disconnect`). So the order in which a program
migrates is not an input: it comes from the wiring. The other processes are seen in their
migrations only, register in a fixed order and are started again.

## What TLC checks

| Run | Instance | Properties |
|---|---|---|
| `pipeline_safety` | 2 replicas, 2 messages (one `Unhandled`), batch 2, 2 tokens, 1 fault; about 1.1M states | `SoleConsumer`, `RedeliveryNeedsFault`, `TokensConserved`, `OneCopyPerReplica`, refinement `DeliversAtLeastOnce` |
| `pipeline_drain` | 2 replicas, 1 message, 1 fault, with fairness | `DrainsUnlessWedged` |
| `pipeline_shutdown` | 1 replica, 1 message, 1 fault, with fairness | `ShutdownCompletes` - **violated** |
| `outbox` | 2 replicas, 3 messages, batch 2, 1 fault, with fairness; 110000 states | `DuplicateNeedsFault`, `FirstSendsInOrder`, refinement `DeliversAtLeastOnce`, `OutboxProgresses`, no deadlock |
| `handler_pool` | 3 messages, one with 2 handlers, 2 workers, 1 failure, with fairness; 173000 states | `PoolLimit`, `AckNeedsWholeRound`, `EveryMessageEnds` |
| `commit_offset_queue` | 5 messages, queue of 3, 2 faults, with fairness | `CommittedIsHandled`, `CommitsForward`, `EverythingIsCommitted` |
| `user_deletion` | 2 users, 2 deletions, 1 update at a time, 2 handlers, 1 failure, with fairness; 210000 states | `OneEventPerDeletion`, `ProfileGoesWithUser`, `EffectOnce`, `EventsAreHandled` |
| `transactions` | four workloads: calls 3 deep of 2 instances; 2 goroutines with shared and exclusive locks of 2 keys; callers that retry after a panic; 2 handlers on one connection; with fairness; 271000 states | `AllOrNothing`, `LockCoversTransaction`, `CycleNeedsNesting`, `CallsSucceed` |
| `deployment` | all four programs next to a replica one release ahead, 5 migrations, 2 requests in flight, 2 faults, with fairness; 137000 states | `AppliedOnceInOrder`, `OnlyFaultsEndAStart`, `EveryStartEnds`, `ReadyWhenRunning`, `ExitIsOrderly`, `StopStops` |
| `message_bus` | 2 topics, 4 types (one blank, two of one name), 3 messages, 1 caller, 1 fault, with fairness; 117000 states | `CompleteOrNothing`, `ConsumedOnce`, `SentIsHandled` |
| `sessions` | 2 clients, one also an admin and one also a service, 2 users, 2 spellings of a login, renewal 1, life 2, latency 1, clock to 3, 1 fault, one client with tokens from elsewhere; 4.3M states | `SessionEnds`, `ActiveStaysIn`, `OnlyFaultsFail`, `DataToOwner` |
| `requests` | every route, principal and input, no error mapping or two overlapping ones, 2 faults; 970000 states | `FailureIsTold`, `NotFoundIsTrue`, `RecordedIsSent` |

*Bounds.* Two replicas are enough for every conflict over the lock; the properties
speak of pairs. A batch of two and two tokens let messages of one batch overlap,
finish out of order and be left in the middle; a third message in the outbox
gives a second batch. One fault in the pipeline already reaches every wedged state;
instances with two faults or three messages were checked while the model was
written, with the same result. Three messages, one with two handlers, are four jobs on
two workers, the least with two sleepers and two leaving workers. Five offsets over a
queue of three let the queue fill, shift and fill again. Two deletions, two handlers
and two users are the pairs that can meet on a row, a key or not at all. Calls three deep
of two instances are the least in which a transaction is entered again below another one;
two goroutines and two keys are the least for a cycle. In `deployment` the other process
has a migration that the observed one does not know, and shares two tables with some
programs and none with others; the lock, the records and the order concern pairs of
processes. Three messages, two of one type, give a call with a repeated type and one with
two types. A clock to 3 is longer than a token's life (2) and than the bound of `SessionEnds`
(renewal 1, latency 1 twice); that bound is tight, a smaller one is violated in this
instance. The tokens from elsewhere are one for each account, dated so late that they stay
fresh; dates that make the service look the account up and renew the token were checked
with shorter times. The other sets of `Requests` and `ServiceRun` are those of the code.

Larger instances were checked while the models were written, with the same result: three
processes in `deployment`, two messages with two handlers in `handler_pool`, two faults in
`outbox` and `user_deletion`, two callers in `message_bus`, a renewal interval of 2 in a life
of 4 up to time 7 in `sessions` without tokens from elsewhere. The safety theorems below do not depend on any bound.

Symmetry is used in `pipeline_safety` and `sessions`, which check invariants and action
properties only.

*Deadlock.* It is checked in `outbox`. The pipeline really may stop (a wedged Worker of
each replica stops everything), a consumer with nothing to consume waits in
`commit_offset_queue`, and the goroutines, requests, calls and processes of the other
modules come to their end, which their liveness properties say.

*Fairness.* A goroutine that can run does run (the Go scheduler); the ticker ticks
(`PeriodicalJob`, one second); the database answers in the end, and a lock that is
freed again and again is granted in the end (PostgreSQL queues the waiters:
strong fairness of `AcquireLock`); `Find`, which is retried by the backoff without
limit, succeeds in the end (strong fairness); the supervisor restarts a process. A handler
succeeds in the end only while the connection it works on is intact, because the
context of a message carries the lock's connection. In `HandlerPool` handlers
return, and those that give up are finitely many: with a handler that fails
forever its goroutine may take the free place again and again. In `UserDeletion` a handler
goes on, and an event that is not acknowledged is delivered again and again (strong
fairness of `DeliverEvent`), which is what the pipeline gives while it is not wedged.
Nothing is assumed of producers or faults.

In `Transactions` goroutines run, a function returns after finitely many calls, the context of
a request ends, and one that retries is not undone forever by others (strong fairness of the
end of an outermost call); errors and panics are finitely many by their bounds. In
`Deployment` the other processes run and are started again. In `MessageBus` registration ends, calls
return, time passes and listeners consume. In `ServiceRun`, and so for the observed process of
`Deployment`, the process takes its steps, jobs
that are told to stop return and the timer of `Shutdown` fires; a request need not end, and no
fairness is assumed of the consumer's worker, which may be stuck as the next section says:
`StopStops` is stated with that exception. `Sessions` and `Requests` state no liveness.

### Findings

`pipeline_shutdown`: the group's documentation promises that jobs which get the
group's context are processed fail-fast (`pkg/worker/group.go:44`), and `Run` does
pass it. But the storage consumer's `Worker` waits for its batch in
`c.allProcessed.Wait()` without regard to the context. When a replica is cancelled in
mid-batch, the goroutines of the messages return and leave their ids in the
processing set, nobody signals, `Worker` never returns and neither does `Run`.

`pipeline_drain` names the other ways in which a Worker gets stuck, as the disjuncts of
`Wedged`: a message acknowledged before `addToProcessing` added it stays in the
processing set; a `Signal` between the test of `processedCount` and the `Wait` is
lost; the connection on which the handlers of the batch work is gone. In these states
the replica keeps the topic's lock and the topic is not consumed by anybody
until the process is restarted. The run shows that there are no others.

## What is proved

Safety, for every number of replicas, processes, clients, messages and handlers, every
batch size, queue capacity, depth of nesting, time interval and number of faults. The
assumptions are the `ASSUME`s of the modules, which TLC evaluates in every run; they say that
the bounds are natural numbers, that special values such as `None` and `Nobody` differ from
ordinary ones, for `Deployment`, which tables a program and a process may name, for `MessageBus`,
that a registration names topics and types of the system and a call no message twice (every event
and task has an id of its own), for `Transactions`, that the goroutines are finitely many, and for
`Requests`, that an error mapping gives an error the code of a failure or none.

Two modules of proofs extend two components each, which share nothing but the library modules. For
that, `CommitOffsetQueue` and `UserDeletion` have names of their own for what is otherwise `Init`,
`Next`, `Spec` and so on (`QueueSpec`, `DeletionSpec`).

| Theorem | Statement |
|---|---|
| `MessagePipelineProofs!TypeCorrect` | `Spec => []TypeOK` |
| `MessagePipelineProofs!NothingIsLost` | `Spec => []NoLoss` |
| `MessagePipelineProofs!ConsumersExclude` | `Spec => []SoleConsumer` |
| `MessagePipelineProofs!TokenConservation` | `Spec => []TokensConserved` |
| `MessagePipelineProofs!NoSecondCopy` | `Spec => []OneCopyPerReplica` |
| `MessagePipelineProofs!ImplementsAtLeastOnce` | `Spec => DeliversAtLeastOnce` |
| `MessagePipelineProofs!RedeliveriesNeedFaults` | `Spec => []RedeliveryNeedsFault` |
| `OutboxProofs!SendsAreOrdered` | `Spec => []FirstSendsInOrder` |
| `OutboxProofs!ImplementsAtLeastOnce` | `Spec => DeliversAtLeastOnce` |
| `OutboxProofs!DuplicatesNeedFaults` | `Spec => []DuplicateNeedsFault` |
| `ListenerProofs!PoolIsLimited` | `Spec => []PoolLimit` |
| `ListenerProofs!AckIsEarned` | `Spec => []AckNeedsWholeRound` |
| `ListenerProofs!WakeUpsAreEnough` | `Spec => []NoLostWakeUp` |
| `ListenerProofs!QueueHasRoom` | a message is received only while the queue has room |
| `ListenerProofs!NothingIsSkipped` | `QueueSpec => []CommittedIsHandled` |
| `ListenerProofs!CommitsGoForward` | `QueueSpec => CommitsForward` (an action property) |
| `ProfileServiceProofs!OneEvent` | `DeletionSpec => []OneEventPerDeletion` |
| `ProfileServiceProofs!ProfileGoes` | `DeletionSpec => []ProfileGoesWithUser` |
| `ProfileServiceProofs!EffectIsOnce` | `DeletionSpec => []EffectOnce` |
| `TransactionsProofs!TransactionsAreAtomic` | `Spec => []AllOrNothing` |
| `TransactionsProofs!LocksLastAsLong` | `Spec => []LockCoversTransaction` |
| `TransactionsProofs!SortedLocksDoNotDeadlock` | `Spec => []CycleNeedsNesting` |
| `MessageBusProofs!CallsAreWhole` | `Spec => []CompleteOrNothing` |
| `MessageBusProofs!RepetitionsAreAbsorbed` | `Spec => []ConsumedOnce` |
| `ProfileServiceProofs!FailuresAreTold` | `Spec => []FailureIsTold` |
| `ProfileServiceProofs!RecordsAreTrue` | `Spec => []RecordedIsSent` |
| `ProfileServiceProofs!NotFoundIsNeverMadeUp` | `Spec => []NotFoundIsTrue`, if no mapping gives 404 to another error than "not found" |
| `DeploymentProofs!MigrationsOnce` | `Spec => []AppliedOnceInOrder` (`Migrations` alone) |
| `DeploymentProofs!DeploymentMigratesOnce` | `SystemSpec => []AppliedOnceInOrder` |
| `DeploymentProofs!StartsEndByFaults` | `SystemSpec => OnlyFaultsEndAStart` (an action property) |
| `DeploymentProofs!RunsOnItsSchema` | `SystemSpec => []ReadyWhenRunning` |
| `DeploymentProofs!ExitsInOrder` | `SystemSpec => []ExitIsOrderly` |
| `SessionsProofs!RegistrationsOnlyFailByFaults` | `Spec => []OnlyFaultsFail` |
| `SessionsProofs!ReadsAreTheOwners` | `Spec => []DataToOwner` |
| `SessionsProofs!DeletedUsersAreLetInNoLonger` | `Spec => []SessionEnds` |
| `SessionsProofs!ActiveClientsStayIn` | `Spec => ActiveStaysIn` (an action property) |

The arguments:

*Message pipeline.*

* `NoLoss` is not inductive: a goroutine may be about to delete a row. `HandledInv`
  adds that a goroutine which acknowledges a message has handled it or cannot.
* `SoleConsumer` rests on `OwnershipInv`: the replica that holds the lock has a live
  session for it (`LockIsSession`), a batch in delivery has a session
  (`BatchHasSession`), every running goroutine belongs to the batch that is being
  delivered and is in the processing set or is the message just sent
  (`TaskIsTracked`, `ProgressWithinBatch`), and a process that is down has none of
  it (`DownIsIdle`). So two owners of a message would be two holders of the lock.
* `TokensConserved` and `OneCopyPerReplica` rest on `QueueInv`: the queue is
  exactly the set of messages with a goroutine (`QueueIsTasks`), a message whose row
  is deleted does not come back (`DeletedStaysDeleted`), and what is still to be sent
  has no goroutine (`BatchIsFresh`).
* `RedeliveryNeedsFault` is a matter of accounts. `RunsArePaid` counts, for a message,
  the runs of its handlers that were made and those that may still be made: one for each
  replica that has it in its batch or is handling it, one if its row can be found by the next
  holder of the lock (`Open`), and one for each cancelled replica that may still give back
  its lock in the middle of a batch. The sum is never more than the faults and one. Every step
  moves a unit from one account to another or pays with a fault; the last account is there
  because a cancellation is a fault long before the release that it makes harmful. The
  set of replicas need not be finite: only finitely many can be in an account.

*Outbox.* A row disappears only in the deletion of a produced message, which is `Forget` of
`AtLeastOnce`. `FirstSendsInOrder` needs that a deleted row was sent (`DeletedWasSent`), that
the row about to be deleted was sent (`DeletesWhatItSent`) and that a batch is always a prefix
of what was not yet sent (`BatchIsPrefix`). `DuplicateNeedsFault` has the accounts of the
pipeline (`CopiesArePaid`), with a cancelled context that may make one `Delete` fail.

*Handler pool.* `PoolInv` says that the pool's counter is the number of jobs that have entered and
not left (`PoolCounts`) and the `WaitGroup`'s that of a group's jobs (`WaitGroupCounts`), and that
a group that has passed its `Wait` has no job (`RoundIsOver`). For `AckNeedsWholeRound`, `AckInv`
adds that a round without a recorded error has only ended well (`EndedIsOk`, `WaitsForAll`).
`NoLostWakeUp` is safety that the liveness of the pool rests on; it needs that the free places
are covered by wake-ups on their way (`WakeUpsCoverPlaces`), which is not obvious because `Do`
takes a place without regard to sleepers.

*Commit offset queue.* `QueueInv`: tokens and queue add up, the queue holds consecutive
offsets that follow the committed one or a commit whose answer was lost. `CommitInv` adds
what the flags say about the handlers. The step that needs a lemma about data is the first
unprocessed element of the slice: `LeastNat`, from the library's well-founded induction.

*Deletion of a user.* `DeleteInv`: the lock of the row covers the test and the commit
(`LockCoversTest`), and every event is of a deletion (`EventsAreDeletions`); `ProfileInv`: an event
that was handled has left no profile but a stale one (`HandledIsClean`); `EffectInv`: a key is held
by one open transaction or committed (`KeyIsExclusive`), and a run that was committed has left its
key (`RunLeavesKey`).

*Transactions.* `TransactionInv`: the calls of a goroutine are in transactions it has begun and not
ended, and the owner of a transaction is its outermost call (`CallsRun`); the outcome says what is
visible (`OutcomeTells`); open transactions hold locks that do not conflict (`LocksApart`). A step
touches only the transactions of its own goroutine, which is what makes the proof short. The
proof needs that a call is at depth 1 or more, which `Workload` now says. For `CycleNeedsNesting`,
`AskInv` counts the calls that asked for locks in a transaction: where there was one, all that the
transaction holds comes before all that it still asks for. In a circle of goroutines that asked
once each, the lock with the greatest key that one of them waits for would be held by another,
which itself waits for a greater one (`GreatestKey`). There is a greatest because the goroutines
are finitely many; an infinite chain of waiters is no circle.

*Message bus.* `BusInv` follows the loop of `scheduleImpl`. `MessageIsOnItsWay` says of each message
of a call and each topic how often it has come into the storage so far (`Count`: consumed, or still
there), by where the loop is: not at all before its turn or before the commit of a transaction, at
most once per round of its topics during its turn, at least once after it, there or in the buffer of
the transaction. The rest is what makes this inductive: topics are registered once
(`TopicsRegistered`), no two calls have a message in common (`CallsApart`), a key has one row
(`StorageIsInOrder`). The rounds of a repeated type are `(j - 1) % n`, whose few facts are lemmas
(`Rounds`).

*Requests.* `RequestInv` is a statement about each request (`Fits`): nothing is known of the answer
before the handler has returned; from the mappings on the recorded code is the one that will be
sent; a failure has a code of 400 or more and no body, wherever it came from. `TruthInv` says that
what a request, the call to the user service and the client have concluded of the user was so at
some moment (`seen`). Both are kept by three kinds of steps, those that return from a handler
(`Returned`), those that work on the answer (`Answers`) and those that change the user, with a
lemma for each kind, so that an action needs only to be shown to be of one of them. The theorem
about 404 has the hypothesis `MappingsKeepNotFound`: a mapping is a parameter of the server, and
one from another error to 404 would make the answer untrue. The servers of the two services have no
mapping.

*Migrations and deployment.* `MigrationInv`: who is between the lock and its release holds the lock
(`WorksUnderLock`), what it has still to do is what is not recorded (`TodoIsLeft`), what it is doing
is the least of that (`CurrentIsLeast`), the calls it has returned from are done (`CallsAreDone`), and
the records are true (`RecordsAreTrue`). It is inductive for any caller of `MustRegister`; every step
of `Deployment` is one of `Migrations` or leaves its variables alone, which carries it over. `WiringInv`
adds that a part which is loaded is migrated (`LoadedIsReady`): with the wiring of the containers,
that is `ReadyWhenRunning`. For the exit, `JobsInv` says what is running in each phase and which
outcome was the first, and `CloseInv` what is known of the database while providers run.

*Sessions.* `SessionInv` is an invariant of each client: what its request knows at each step
(`RequestIsSound`), that the insert under the lock is the first of its login (`LockCoversInsert`),
that all it asks and was told is about the user its cookie names, who is the one it logged in as if
it did (`OwnerIsKnown`), and when its tokens and answers were made (`TokensAreDated`,
`AnswersAreDated`). Of a token from elsewhere (`Present`) it says nothing but the type. The last two give the
bounds: a token is made at most one latency after the look-up, hence after the deletion, a
request is let in within a renewal interval of it and takes one more latency.

Every inductive invariant was checked with TLC before it was proved.

`TypeOK`, `NoLoss`, `QueueHasRoom` and `NoLostWakeUp` are stated by theorems only: the first is what
the other proofs rest on, the second is implied by the refinement that `pipeline_safety` checks, the
last two are safety parts of `EverythingIsCommitted` and `EveryMessageEnds`.

Some definitions of the models have the form they have for the provers' sake: the wiring `Deps` of
`ServiceRun` is a `CASE` and not a merge of functions, and `Wanted` is told by what was asked for
(`Asked`) and not by a filtered sequence; `AsksTwice` of `Transactions` compares pairs of calls and
does not sum over the stack.

*Only model-checked* are the liveness properties (`DrainsUnlessWedged`, `OutboxProgresses`,
`EveryMessageEnds`, `EverythingIsCommitted`, `EventsAreHandled`, `CallsSucceed`,
`EveryStartEnds`, `StopStops`, `SentIsHandled`), because liveness under fairness is out of the
prover's reach.

Every invariant and every other action property of the passing runs is stated by a theorem.

## Not modelled

* Times, except in `Sessions` and `MessageBus`: `scheduled_at` is an order, a row is
  stored when it becomes due; backoff intervals are unbounded but finite. The backoff
  objects are shared by the goroutines of a listener without a lock; that can only disturb
  the intervals.
* The closing of the response in the call between the services: it is a `defer` directly
  after the call.
* The content of messages, requests, tokens and passwords; hooks and middlewares for
  logging and metrics, except what they read of a request (`RecordedIsSent`).
* Several topics of the pipeline: their consumers share nothing but the job runner.
* Lock names stand for themselves: two names whose hashes collide would exclude each other.
* Code without a caller in the repository: `ackNackQueue.Nack`, `Pool.Wait`,
  `InsertString` of the idempotency keys, `GetByIDs` and its filter of permissions, the
  in-process dispatcher of `pkg/event`, `NewBusProducer` over a broker, the response code
  mappings of the HTTP client (of two, the second would return nil in place of the error of
  the first, `pkg/http/client.go:265`), CORS, forms, multipart bodies and query parameters.
* Environment, string helpers and observability, which keep no state worth a property.

## Plan

1. *Done:* `AtLeastOnce`, `MessagePipeline`, `Outbox` with proofs; `HandlerPool`,
   `CommitOffsetQueue`, `UserDeletion`.
2. *Done:* `Transactions`, `Migrations`, `MessageBus`, `Sessions` (which took in what was planned
   as `UserAccounts`), `Requests`, `ServiceRun`, and `Deployment` that composes two of them.
3. *Done:* proofs about `Migrations` and `Deployment`, `CommitOffsetQueue`, `HandlerPool`,
   `Transactions`, `Sessions`, `UserDeletion`, and the accounts of redelivery in the pipeline and of
   duplicates in the outbox.
4. *Done:* proofs about `MessageBus` and `Requests`, and of `CycleNeedsNesting`. With them every
   safety property of the passing runs is proved.
5. Left: the code that has no caller yet (see above), when it gets one; in particular a broker for
   the commit offset queue, whose interface alone is modelled.
