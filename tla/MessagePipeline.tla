--------------------------- MODULE MessagePipeline ---------------------------
(***************************************************************************)
(* One topic of the message storage, consumed by several replicas of       *)
(* message-handler-worker.  Every replica runs                             *)
(*                                                                         *)
(*   - the storage consumer's Worker (pkg/message/storageconsumer.go): it  *)
(*     takes the topic's advisory lock, finds a batch of rows, hands them  *)
(*     over one by one on an unbuffered channel and waits on a condition   *)
(*     variable until all of them are acknowledged;                        *)
(*   - the Listener's consumerWorker (pkg/message/listener.go) with its    *)
(*     acknowledge queue (pkg/message/listenerqueue.go): a message is      *)
(*     received against a processing token and handled by a goroutine of   *)
(*     its own, which deletes the row, then removes the message from the   *)
(*     consumer's processing set, then returns the token;                  *)
(*   - the jobs of cmd.Run (pkg/cmd/run.go): a termination signal or any   *)
(*     returned job cancels the context of all of them.                    *)
(*                                                                         *)
(* A message is its rank in the order of scheduled_at.  Steps that touch   *)
(* state other goroutines touch are separate actions; in particular the    *)
(* send on the channel and addToProcessing, and the test of processedCount *)
(* and the enlisting in the condition variable, are two steps each.        *)
(***************************************************************************)
EXTENDS Integers, FiniteSets

CONSTANTS
    Replicas,       \* the processes of message-handler-worker
    Messages,       \* the messages of the topic, by rank of scheduled_at
    Unhandled,      \* those the listener cannot decode or has no handler for
    BatchSize,      \* ConsumingBatchSize
    MaxProcessed,   \* MaxProcessedMessages, the capacity of the queue
    MaxFaults,      \* bound on cancellations, crashes and lost sessions
    Nobody          \* "no replica holds the lock"

ASSUME MessagesAssumption == Messages \subseteq Nat \ {0} /\ IsFiniteSet(Messages)
ASSUME UnhandledAssumption == Unhandled \subseteq Messages
ASSUME BoundsAssumption == BatchSize \in Nat \ {0} /\ MaxProcessed \in Nat \ {0} /\ MaxFaults \in Nat
ASSUME NobodyAssumption == Nobody \notin Replicas

NoMessage == 0

VARIABLES
    rows,        \* the due rows of the table message_storage
    stored,      \* every message ever stored
    handled,     \* how often the handlers of a message all returned nil
    lock,        \* the holder of the topic's session level advisory lock
    session,     \* session[r]: the connection on which r took the lock
    proc,        \* proc[r]: the context is live, cancelled, or no process
    signal,      \* signal[r]: processChan holds an element
    worker,      \* worker[r]: where the storage consumer's Worker is
    batch,       \* batch[r]: the found messages that are still to be sent
    sent,        \* sent[r]: the message sent but not yet in processing[r]
    outcome,     \* outcome[r]: what consumeStorageMessagesBatch will return
    processing,  \* processing[r]: the map processingMessages
    listener,    \* listener[r]: where the consumerWorker is
    tokens,      \* tokens[r]: the elements of the channel processingTokens
    queue,       \* queue[r]: the map processingQueue
    task,        \* task[r][m]: where the goroutine of message m is
    faults       \* how many faults the environment has injected

storageVars  == <<rows, stored, handled>>
lockVars     == <<lock, session>>
workerVars   == <<signal, worker, batch, sent, outcome>>
listenerVars == <<listener, tokens, queue, task>>
vars == <<storageVars, lockVars, proc, workerVars, processing, listenerVars, faults>>

-----------------------------------------------------------------------------
ProcStates     == {"run", "stop", "down"}
SessionStates  == {"none", "held", "lost"}
WorkerStates   == {"idle", "lock", "find", "send", "add", "check", "enlist",
                   "wait", "release", "done"}
ListenerStates == {"token", "receive", "exit", "done"}
TaskStates     == {"none", "handle", "ack", "remove", "token", "left"}
Outcomes       == {"all", "more", "error"}

(***************************************************************************)
(* The goroutine of the message has started and will still acknowledge it. *)
(***************************************************************************)
InProgress == {"handle", "ack", "remove"}

(***************************************************************************)
(* The storage consumer's Worker is between finding a batch and the end of *)
(* the wait for its acknowledgements.                                      *)
(***************************************************************************)
Delivering == {"send", "add", "check", "enlist", "wait"}

TypeOK ==
    /\ rows \subseteq stored
    /\ stored \subseteq Messages
    /\ handled \in [Messages -> Nat]
    /\ lock \in Replicas \union {Nobody}
    /\ session \in [Replicas -> SessionStates]
    /\ proc \in [Replicas -> ProcStates]
    /\ signal \in [Replicas -> BOOLEAN]
    /\ worker \in [Replicas -> WorkerStates]
    /\ batch \in [Replicas -> SUBSET Messages]
    /\ sent \in [Replicas -> Messages \union {NoMessage}]
    /\ outcome \in [Replicas -> Outcomes]
    /\ processing \in [Replicas -> SUBSET Messages]
    /\ listener \in [Replicas -> ListenerStates]
    /\ tokens \in [Replicas -> Nat]
    /\ queue \in [Replicas -> SUBSET Messages]
    /\ task \in [Replicas -> [Messages -> TaskStates]]
    /\ faults \in Nat

NoTask == [m \in Messages |-> "none"]

Init ==
    /\ rows = {} /\ stored = {}
    /\ handled = [m \in Messages |-> 0]
    /\ lock = Nobody
    /\ session = [r \in Replicas |-> "none"]
    /\ proc = [r \in Replicas |-> "run"]
    /\ signal = [r \in Replicas |-> TRUE]
    /\ worker = [r \in Replicas |-> "idle"]
    /\ batch = [r \in Replicas |-> {}]
    /\ sent = [r \in Replicas |-> NoMessage]
    /\ outcome = [r \in Replicas |-> "all"]
    /\ processing = [r \in Replicas |-> {}]
    /\ listener = [r \in Replicas |-> "token"]
    /\ tokens = [r \in Replicas |-> MaxProcessed]
    /\ queue = [r \in Replicas |-> {}]
    /\ task = [r \in Replicas |-> NoTask]
    /\ faults = 0

-----------------------------------------------------------------------------
(***************************************************************************)
(* The storage.                                                            *)
(***************************************************************************)

(***************************************************************************)
(* A producer's transaction commits a row and the row becomes due.  Ids    *)
(* are fresh UUIDs and a second insert of a row does nothing, so a message *)
(* is stored once.                                                         *)
(***************************************************************************)
Store(m) ==
    /\ m \notin stored
    /\ stored' = stored \union {m}
    /\ rows' = rows \union {m}
    /\ UNCHANGED <<handled, lockVars, proc, workerVars, processing, listenerVars, faults>>

(***************************************************************************)
(* What Find may return from the given rows: the first BatchSize of them   *)
(* in the order of scheduled_at, or all of them when there are fewer.      *)
(***************************************************************************)
Batches(found) ==
    {b \in SUBSET found :
        /\ \A m \in b, n \in found \ b : m < n
        /\ \/ Cardinality(b) = BatchSize
           \/ b = found /\ Cardinality(b) < BatchSize}

-----------------------------------------------------------------------------
(***************************************************************************)
(* The storage consumer's Worker.                                          *)
(***************************************************************************)

(* The periodical job calls Process: a non-blocking send on processChan.   *)
Process(r) ==
    /\ proc[r] = "run"
    /\ ~signal[r]
    /\ signal' = [signal EXCEPT ![r] = TRUE]
    /\ UNCHANGED <<storageVars, lockVars, proc, worker, batch, sent, outcome,
                   processing, listenerVars, faults>>

(***************************************************************************)
(* Worker receives from processChan and calls consumeStorageMessages.  A   *)
(* cancelled context makes its first call, Lock, fail for good.            *)
(***************************************************************************)
WorkerBegin(r) ==
    /\ proc[r] # "down"
    /\ worker[r] = "idle"
    /\ signal[r]
    /\ signal' = [signal EXCEPT ![r] = FALSE]
    /\ worker' = [worker EXCEPT ![r] = IF proc[r] = "run" THEN "lock" ELSE "idle"]
    /\ UNCHANGED <<storageVars, lockVars, proc, batch, sent, outcome,
                   processing, listenerVars, faults>>

(* Worker finds its context cancelled, closes messagesCh and returns.      *)
WorkerReturn(r) ==
    /\ proc[r] = "stop"
    /\ worker[r] = "idle"
    /\ worker' = [worker EXCEPT ![r] = "done"]
    /\ UNCHANGED <<storageVars, lockVars, proc, signal, batch, sent, outcome,
                   processing, listenerVars, faults>>

(* storage.Lock returns: the session of a fresh connection has the lock.   *)
AcquireLock(r) ==
    /\ worker[r] = "lock"
    /\ lock = Nobody
    /\ lock' = r
    /\ session' = [session EXCEPT ![r] = "held"]
    /\ worker' = [worker EXCEPT ![r] = "find"]
    /\ UNCHANGED <<storageVars, proc, signal, batch, sent, outcome,
                   processing, listenerVars, faults>>

(***************************************************************************)
(* storage.Lock fails.  While the context is live backoff.Retry repeats    *)
(* the call, which changes nothing; once it is cancelled the retry gives   *)
(* up and consumeStorageMessages returns.                                  *)
(***************************************************************************)
AbandonLock(r) ==
    /\ worker[r] = "lock"
    /\ proc[r] = "stop"
    /\ worker' = [worker EXCEPT ![r] = "idle"]
    /\ UNCHANGED <<storageVars, lockVars, proc, signal, batch, sent, outcome,
                   processing, listenerVars, faults>>

(* storage.Find over the lock's connection, without the processing ids.    *)
Find(r) ==
    /\ worker[r] = "find"
    /\ session[r] = "held"
    /\ \E b \in Batches(rows \ processing[r]) :
          /\ batch' = [batch EXCEPT ![r] = b]
          /\ worker' = [worker EXCEPT ![r] = IF b = {} THEN "release" ELSE "send"]
          /\ outcome' = [outcome EXCEPT ![r] =
                            IF Cardinality(b) < BatchSize THEN "all" ELSE "more"]
    /\ UNCHANGED <<storageVars, lockVars, proc, signal, sent, processing, listenerVars, faults>>

FindError(r) ==
    /\ worker[r] = "find"
    /\ worker' = [worker EXCEPT ![r] = "release"]
    /\ outcome' = [outcome EXCEPT ![r] = "error"]
    /\ UNCHANGED <<storageVars, lockVars, proc, signal, batch, sent,
                   processing, listenerVars, faults>>

(***************************************************************************)
(* AddProcessing refuses a message when the queue is full.  Its other test *)
(* ("already in queue") never fires: the keys of the map are pointers and  *)
(* every send makes a new ConsumerMessage, so a second copy of a message   *)
(* would be a second entry with a goroutine of its own.  The model names   *)
(* entries and goroutines by their messages, which loses nothing as long   *)
(* as no second copy is sent (OneCopyPerReplica).                          *)
(***************************************************************************)
Accepts(r) == Cardinality(queue[r]) # MaxProcessed

(***************************************************************************)
(* The rendezvous on messagesCh: the Worker sends the next message of the  *)
(* batch and the consumerWorker receives it, adds it to its queue and      *)
(* starts the goroutine.  A message it cannot handle goes to the           *)
(* acknowledgement at once.  A refusal makes the consumerWorker return.    *)
(***************************************************************************)
Deliver(r) ==
    /\ worker[r] = "send"
    /\ listener[r] = "receive"
    /\ \E m \in batch[r] :
          /\ \A n \in batch[r] : m <= n
          /\ batch' = [batch EXCEPT ![r] = @ \ {m}]
          /\ sent' = [sent EXCEPT ![r] = m]
          /\ IF Accepts(r)
             THEN /\ queue' = [queue EXCEPT ![r] = @ \union {m}]
                  /\ task' = [task EXCEPT ![r][m] = IF m \in Unhandled THEN "ack" ELSE "handle"]
                  /\ listener' = [listener EXCEPT ![r] = "token"]
             ELSE /\ listener' = [listener EXCEPT ![r] = "exit"]
                  /\ UNCHANGED <<queue, task>>
    /\ worker' = [worker EXCEPT ![r] = "add"]
    /\ UNCHANGED <<storageVars, lockVars, proc, signal, outcome, processing, tokens, faults>>

(* addToProcessing, after the send.                                        *)
AddToProcessing(r) ==
    /\ worker[r] = "add"
    /\ processing' = [processing EXCEPT ![r] = @ \union {sent[r]}]
    /\ sent' = [sent EXCEPT ![r] = NoMessage]
    /\ worker' = [worker EXCEPT ![r] = IF batch[r] = {} THEN "check" ELSE "send"]
    /\ UNCHANGED <<storageVars, lockVars, proc, signal, batch, outcome, listenerVars, faults>>

(* The select picks ctx.Done(): the rest of the batch is given up.         *)
AbandonBatch(r) ==
    /\ worker[r] = "send"
    /\ proc[r] = "stop"
    /\ batch' = [batch EXCEPT ![r] = {}]
    /\ worker' = [worker EXCEPT ![r] = "release"]
    /\ outcome' = [outcome EXCEPT ![r] = "error"]
    /\ UNCHANGED <<storageVars, lockVars, proc, signal, sent, processing, listenerVars, faults>>

(* Faulty variant: the batch does not wait for its acknowledgements.       *)
CheckProcessedNoWait(r) ==
    /\ worker[r] = "check"
    /\ worker' = [worker EXCEPT ![r] = "release"]
    /\ UNCHANGED <<storageVars, lockVars, proc, signal, batch, sent, outcome,
                   processing, listenerVars, faults>>

(* The loop condition processedCount != 0 is evaluated ...                 *)
CheckProcessed(r) ==
    /\ worker[r] = "check"
    /\ worker' = [worker EXCEPT ![r] = IF processing[r] = {} THEN "release" ELSE "enlist"]
    /\ UNCHANGED <<storageVars, lockVars, proc, signal, batch, sent, outcome,
                   processing, listenerVars, faults>>

(* ... and Wait enlists the goroutine for the next Signal.                 *)
EnlistWaiter(r) ==
    /\ worker[r] = "enlist"
    /\ worker' = [worker EXCEPT ![r] = "wait"]
    /\ UNCHANGED <<storageVars, lockVars, proc, signal, batch, sent, outcome,
                   processing, listenerVars, faults>>

(***************************************************************************)
(* Where consumeStorageMessages goes on when a batch returned result: the  *)
(* end, the next batch or a retry; under a cancelled context the Lock of   *)
(* the next batch fails and a retry is not made.                           *)
(***************************************************************************)
AfterBatch(r, result) == IF result # "all" /\ proc[r] = "run" THEN "lock" ELSE "idle"

(* Faulty variant: a failed batch returns without releasing the lock.      *)
ReleaseLockUnlessError(r) ==
    /\ worker[r] = "release"
    /\ lock' = IF lock = r /\ outcome[r] # "error" THEN Nobody ELSE lock
    /\ session' = [session EXCEPT ![r] = "none"]
    /\ worker' = [worker EXCEPT ![r] = AfterBatch(r, outcome[r])]
    /\ outcome' = [outcome EXCEPT ![r] = "all"]
    /\ UNCHANGED <<storageVars, proc, signal, batch, sent, processing, listenerVars, faults>>

(***************************************************************************)
(* The deferred releaseLock: pg_advisory_unlock or, when the call fails,   *)
(* the end of the session frees the lock; a failure also turns the result  *)
(* of the batch into an error.                                             *)
(***************************************************************************)
ReleaseLock(r) ==
    /\ worker[r] = "release"
    /\ lock' = IF lock = r THEN Nobody ELSE lock
    /\ session' = [session EXCEPT ![r] = "none"]
    /\ \E result \in (IF session[r] = "held" THEN {outcome[r], "error"} ELSE {"error"}) :
          worker' = [worker EXCEPT ![r] = AfterBatch(r, result)]
    /\ outcome' = [outcome EXCEPT ![r] = "all"]
    /\ UNCHANGED <<storageVars, proc, signal, batch, sent, processing, listenerVars, faults>>

-----------------------------------------------------------------------------
(***************************************************************************)
(* The listener's consumerWorker.                                          *)
(***************************************************************************)

(* A processing token is taken.                                            *)
TakeToken(r) ==
    /\ proc[r] # "down"
    /\ listener[r] = "token"
    /\ tokens[r] > 0
    /\ tokens' = [tokens EXCEPT ![r] = @ - 1]
    /\ listener' = [listener EXCEPT ![r] = "receive"]
    /\ UNCHANGED <<storageVars, lockVars, proc, workerVars, processing, queue, task, faults>>

(* The context is cancelled or the messages channel is closed.             *)
ListenerStop(r) ==
    /\ \/ listener[r] \in {"token", "receive"} /\ proc[r] = "stop"
       \/ listener[r] = "receive" /\ worker[r] = "done"
    /\ listener' = [listener EXCEPT ![r] = "exit"]
    /\ UNCHANGED <<storageVars, lockVars, proc, workerVars, processing, tokens, queue, task, faults>>

(***************************************************************************)
(* wg.Wait is over and the job returns, which cancels the group's context. *)
(***************************************************************************)
ListenerReturn(r) ==
    /\ listener[r] = "exit"
    /\ \A m \in Messages : task[r][m] \in {"none", "left"}
    /\ listener' = [listener EXCEPT ![r] = "done"]
    /\ proc' = [proc EXCEPT ![r] = "stop"]
    /\ UNCHANGED <<storageVars, lockVars, workerVars, processing, tokens, queue, task, faults>>

-----------------------------------------------------------------------------
(***************************************************************************)
(* The goroutine processMessage of message m.                              *)
(***************************************************************************)

(* Faulty variant: the error of the handlers is dropped.                   *)
HandleIgnoringError(r, m) ==
    /\ task[r][m] = "handle"
    /\ task' = [task EXCEPT ![r][m] = "ack"]
    /\ UNCHANGED <<storageVars, lockVars, proc, workerVars, processing,
                   listener, tokens, queue, faults>>

(***************************************************************************)
(* All handlers return nil.  A handler that fails is retried without limit *)
(* while the context is live, which changes nothing here.                  *)
(***************************************************************************)
Handle(r, m) ==
    /\ task[r][m] = "handle"
    /\ handled' = [handled EXCEPT ![m] = @ + 1]
    /\ task' = [task EXCEPT ![r][m] = "ack"]
    /\ UNCHANGED <<rows, stored, lockVars, proc, workerVars, processing,
                   listener, tokens, queue, faults>>

(***************************************************************************)
(* Handlers or the acknowledgement fail with the context cancelled: the    *)
(* goroutine returns and leaves the message in queue and processing set.   *)
(***************************************************************************)
Leave(r, m) ==
    /\ proc[r] = "stop"
    /\ task[r][m] \in {"handle", "ack"}
    /\ task' = [task EXCEPT ![r][m] = "left"]
    /\ UNCHANGED <<storageVars, lockVars, proc, workerVars, processing,
                   listener, tokens, queue, faults>>

(* Faulty variant: the error of storage.Delete is dropped.                 *)
DeleteRowIgnoringError(r, m) ==
    /\ task[r][m] = "ack"
    /\ rows' \in {rows, rows \ {m}}
    /\ task' = [task EXCEPT ![r][m] = "remove"]
    /\ UNCHANGED <<stored, handled, lockVars, proc, workerVars, processing,
                   listener, tokens, queue, faults>>

(* Ack: storage.Delete succeeds.                                           *)
DeleteRow(r, m) ==
    /\ task[r][m] = "ack"
    /\ rows' = rows \ {m}
    /\ task' = [task EXCEPT ![r][m] = "remove"]
    /\ UNCHANGED <<stored, handled, lockVars, proc, workerVars, processing,
                   listener, tokens, queue, faults>>

(* Ack: the row is deleted but the caller gets an error and will retry.    *)
DeleteRowUnconfirmed(r, m) ==
    /\ task[r][m] = "ack"
    /\ m \in rows
    /\ rows' = rows \ {m}
    /\ UNCHANGED <<stored, handled, lockVars, proc, workerVars, processing, listenerVars, faults>>

(***************************************************************************)
(* Ack: removeFromProcessing.  When nothing is left it signals, which      *)
(* wakes the Worker only if it is already enlisted.                        *)
(***************************************************************************)
RemoveFromProcessing(r, m) ==
    /\ task[r][m] = "remove"
    /\ processing' = [processing EXCEPT ![r] = @ \ {m}]
    /\ worker' = [worker EXCEPT ![r] =
                    IF @ = "wait" /\ processing[r] \ {m} = {} THEN "check" ELSE @]
    /\ task' = [task EXCEPT ![r][m] = "token"]
    /\ UNCHANGED <<storageVars, lockVars, proc, signal, batch, sent, outcome,
                   listener, tokens, queue, faults>>

(* Faulty variant: the message stays in the map processingQueue.           *)
ReturnTokenOnly(r, m) ==
    /\ task[r][m] = "token"
    /\ tokens' = [tokens EXCEPT ![r] = @ + 1]
    /\ task' = [task EXCEPT ![r][m] = "none"]
    /\ UNCHANGED <<storageVars, lockVars, proc, workerVars, processing, listener, queue, faults>>

(* AcknowledgeResult: the queue forgets the message and issues a token.    *)
ReturnToken(r, m) ==
    /\ task[r][m] = "token"
    /\ queue' = [queue EXCEPT ![r] = @ \ {m}]
    /\ tokens' = [tokens EXCEPT ![r] = @ + 1]
    /\ task' = [task EXCEPT ![r][m] = "none"]
    /\ UNCHANGED <<storageVars, lockVars, proc, workerVars, processing, listener, faults>>

-----------------------------------------------------------------------------
(***************************************************************************)
(* The process and its faults.                                             *)
(***************************************************************************)
Fault == faults < MaxFaults /\ faults' = faults + 1

(* A termination signal: TermSignalAwaiter returns, the context is done.   *)
Cancel(r) ==
    /\ proc[r] = "run"
    /\ Fault
    /\ proc' = [proc EXCEPT ![r] = "stop"]
    /\ UNCHANGED <<storageVars, lockVars, workerVars, processing, listenerVars>>

(* The lock's connection is lost: the server frees the lock, nobody else   *)
(* is told.                                                                *)
LoseSession(r) ==
    /\ session[r] = "held"
    /\ Fault
    /\ session' = [session EXCEPT ![r] = "lost"]
    /\ lock' = IF lock = r THEN Nobody ELSE lock
    /\ UNCHANGED <<storageVars, proc, workerVars, processing, listenerVars>>

(* The process is gone with everything it kept in memory.                  *)
Vanish(r) ==
    /\ proc' = [proc EXCEPT ![r] = "down"]
    /\ lock' = IF lock = r THEN Nobody ELSE lock
    /\ session' = [session EXCEPT ![r] = "none"]
    /\ signal' = [signal EXCEPT ![r] = TRUE]
    /\ worker' = [worker EXCEPT ![r] = "idle"]
    /\ batch' = [batch EXCEPT ![r] = {}]
    /\ sent' = [sent EXCEPT ![r] = NoMessage]
    /\ outcome' = [outcome EXCEPT ![r] = "all"]
    /\ processing' = [processing EXCEPT ![r] = {}]
    /\ listener' = [listener EXCEPT ![r] = "token"]
    /\ tokens' = [tokens EXCEPT ![r] = MaxProcessed]
    /\ queue' = [queue EXCEPT ![r] = {}]
    /\ task' = [task EXCEPT ![r] = NoTask]
    /\ UNCHANGED storageVars

Crash(r) ==
    /\ proc[r] # "down"
    /\ Fault
    /\ Vanish(r)

(* Run returns: every job has returned.                                    *)
Exit(r) ==
    /\ proc[r] = "stop"
    /\ worker[r] = "done"
    /\ listener[r] = "done"
    /\ Vanish(r)
    /\ UNCHANGED faults

(* The supervisor starts the process again.                                *)
Restart(r) ==
    /\ proc[r] = "down"
    /\ proc' = [proc EXCEPT ![r] = "run"]
    /\ UNCHANGED <<storageVars, lockVars, workerVars, processing, listenerVars, faults>>

-----------------------------------------------------------------------------
WorkerStep(r) ==
    \/ WorkerBegin(r) \/ WorkerReturn(r) \/ AcquireLock(r) \/ AbandonLock(r)
    \/ Find(r) \/ FindError(r) \/ Deliver(r) \/ AddToProcessing(r) \/ AbandonBatch(r)
    \/ CheckProcessed(r) \/ EnlistWaiter(r) \/ ReleaseLock(r)

ListenerStep(r) == TakeToken(r) \/ ListenerStop(r) \/ ListenerReturn(r)

TaskStep(r, m) ==
    \/ Handle(r, m) \/ Leave(r, m) \/ DeleteRow(r, m) \/ DeleteRowUnconfirmed(r, m)
    \/ RemoveFromProcessing(r, m) \/ ReturnToken(r, m)

ProcessStep(r) ==
    Process(r) \/ Cancel(r) \/ LoseSession(r) \/ Crash(r) \/ Exit(r) \/ Restart(r)

Next ==
    \/ \E m \in Messages : Store(m)
    \/ \E r \in Replicas :
          \/ WorkerStep(r) \/ ListenerStep(r) \/ ProcessStep(r)
          \/ \E m \in Messages : TaskStep(r, m)

Spec == Init /\ [][Next]_vars

(***************************************************************************)
(* Goroutines that can run do run, the ticker ticks, the database answers  *)
(* a Find and grants a free lock in the end, the supervisor restarts a     *)
(* process that is down.  A handler that works on the lock's connection    *)
(* (the message's context carries it) succeeds in the end only while that  *)
(* connection is intact.  Nothing is assumed of Store and of the faults.   *)
(***************************************************************************)
Fairness ==
    \A r \in Replicas :
        /\ WF_vars(WorkerBegin(r) \/ WorkerReturn(r)) /\ SF_vars(AcquireLock(r))
        /\ WF_vars(AbandonLock(r)) /\ SF_vars(Find(r)) /\ WF_vars(Find(r) \/ FindError(r))
        /\ WF_vars(Deliver(r)) /\ WF_vars(AddToProcessing(r)) /\ WF_vars(AbandonBatch(r))
        /\ WF_vars(CheckProcessed(r) \/ EnlistWaiter(r)) /\ WF_vars(ReleaseLock(r))
        /\ WF_vars(ListenerStep(r))
        /\ WF_vars(Process(r)) /\ WF_vars(Exit(r)) /\ WF_vars(Restart(r))
        /\ \A m \in Messages :
              /\ WF_vars(session[r] # "lost" /\ Handle(r, m)) /\ WF_vars(Leave(r, m))
              /\ WF_vars(DeleteRow(r, m)) /\ WF_vars(RemoveFromProcessing(r, m))
              /\ WF_vars(ReturnToken(r, m))

FairSpec == Spec /\ Fairness

-----------------------------------------------------------------------------
(***************************************************************************)
(* Properties.                                                             *)
(***************************************************************************)

(***************************************************************************)
(* At-least-once: a row leaves the storage only after all handlers of its  *)
(* message succeeded, or when the listener cannot handle the message at    *)
(* all.  Neither a crash between the steps of an acknowledgement, nor an   *)
(* unconfirmed deletion, nor a shutdown loses a message.                   *)
(***************************************************************************)
NoLoss == \A m \in stored \ rows : m \in Unhandled \/ handled[m] > 0

(***************************************************************************)
(* The pipeline implements at-least-once delivery: the rows are the        *)
(* pending messages, a successful run of the handlers is a delivery, and   *)
(* every step of every replica is a step of that specification or none.    *)
(***************************************************************************)
Abstract == INSTANCE AtLeastOnce WITH
    Message <- Messages, Droppable <- Unhandled,
    submitted <- stored, pending <- rows, delivered <- handled

DeliversAtLeastOnce == Abstract!Spec

(***************************************************************************)
(* The replica works on message m, and neither its context was cancelled   *)
(* nor the session it took the lock on was lost.                           *)
(***************************************************************************)
Owns(r, m) == task[r][m] \in {"handle", "ack"} /\ proc[r] = "run" /\ session[r] # "lost"

(***************************************************************************)
(* The topic lock does its work: two replicas never process the same       *)
(* message at once, unless one of them is shutting down (it releases the   *)
(* lock in mid-batch) or has lost its database session.                    *)
(***************************************************************************)
SoleConsumer ==
    \A r, s \in Replicas, m \in Messages : Owns(r, m) /\ Owns(s, m) => r = s

(***************************************************************************)
(* A message is handled again only because of a fault: every successful    *)
(* run of its handlers beyond the first is paid for by a cancellation, a   *)
(* crash or a lost session, never by a retry of the acknowledgement or by  *)
(* two consumers of the same topic.                                        *)
(***************************************************************************)
RedeliveryNeedsFault == \A m \in Messages : handled[m] <= 1 + faults

(***************************************************************************)
(* The queue's tokens are conserved: as long as the consumerWorker runs,   *)
(* the tokens in the channel, the one it holds and those of the messages   *)
(* in the queue are MaxProcessed together, so no more messages than that   *)
(* are processed at once, AddProcessing never finds the queue full (which  *)
(* would end the process) and returning a token never blocks.              *)
(***************************************************************************)
TokensConserved ==
    \A r \in Replicas :
        IF listener[r] \in {"token", "receive"}
        THEN tokens[r] + Cardinality(queue[r]) + (IF listener[r] = "receive" THEN 1 ELSE 0)
                = MaxProcessed
        ELSE tokens[r] + Cardinality(queue[r]) <= MaxProcessed

(***************************************************************************)
(* A replica never handles a message in two goroutines at once: what its   *)
(* Worker is about to send is not in the listener's queue, although the    *)
(* queue, keyed by pointers, would take a second copy.  The excluded ids,  *)
(* the wait for the batch and the deletion of the row before the id leaves *)
(* the processing set keep it away together.                               *)
(***************************************************************************)
OneCopyPerReplica ==
    \A r \in Replicas : batch[r] \intersect queue[r] = {}

(***************************************************************************)
(* The Worker of replica r delivers a batch it can no longer finish: it    *)
(* waits for acknowledgements nobody will send (a message added after it   *)
(* was acknowledged, a Signal sent before the wait, goroutines that left   *)
(* on cancellation), or the connection its handlers work on is lost.       *)
(***************************************************************************)
Wedged(r) ==
    \/ worker[r] = "wait" /\ \A m \in processing[r] : task[r][m] \notin InProgress
    \/ worker[r] \in Delivering /\ session[r] = "lost"

(***************************************************************************)
(* Every due message is acknowledged in the end, whatever the faults,      *)
(* unless some replica's Worker is wedged.                                 *)
(***************************************************************************)
DrainsUnlessWedged ==
    \A m \in Messages : m \in rows ~> (m \notin rows \/ \E r \in Replicas : Wedged(r))

(***************************************************************************)
(* Shutdown: when the context of the jobs is cancelled they all return and *)
(* Run returns, as the fail-fast group of cmd.Run promises.                *)
(***************************************************************************)
ShutdownCompletes == \A r \in Replicas : proc[r] = "stop" ~> proc[r] = "down"

=============================================================================
