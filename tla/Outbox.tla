------------------------------- MODULE Outbox -------------------------------
(***************************************************************************)
(* The transactional outbox (pkg/message/outbox.go): a Worker in every     *)
(* replica takes the lock of the whole message storage, finds a batch of   *)
(* rows, and for each of them calls the broker's Produce and deletes the   *)
(* row.  The deferred release of the lock overwrites the error of the      *)
(* batch, so only a failed Lock or release reaches the backoff; any other  *)
(* failure makes the loop take the lock again at once.                     *)
(*                                                                         *)
(* A message is its rank in the order of scheduled_at.                     *)
(***************************************************************************)
EXTENDS Integers, FiniteSets

CONSTANTS
    Replicas,    \* the processes that run the outbox
    Messages,    \* the messages, by rank of scheduled_at
    BatchSize,   \* OutboxImpl.BatchSize
    MaxFaults,   \* bound on failed calls, cancellations, crashes, lost sessions
    Nobody       \* "no replica holds the lock"

ASSUME MessagesAssumption == Messages \subseteq Nat /\ IsFiniteSet(Messages)
ASSUME BoundsAssumption == BatchSize \in Nat \ {0} /\ MaxFaults \in Nat
ASSUME NobodyAssumption == Nobody \notin Replicas

VARIABLES
    rows,      \* the due rows of message_storage
    stored,    \* every message ever stored
    late,      \* those stored after a message with a later scheduled_at
    sent,      \* sent[m]: how often the broker has taken m
    lock,      \* the holder of the storage's advisory lock
    session,   \* session[r]: r's dedicated connection is intact
    proc,      \* proc[r]: the context is live, cancelled, or no process
    signal,    \* signal[r]: processChan holds an element
    worker,    \* worker[r]: where the Worker is
    batch,     \* batch[r]: the found messages not yet deleted
    outcome,   \* outcome[r]: allProcessed, as processBatch will return it
    faults     \* how many faults have happened

storageVars == <<rows, stored, late>>
workerVars  == <<signal, worker, batch, outcome>>
vars == <<storageVars, sent, lock, session, proc, workerVars, faults>>

WorkerStates == {"idle", "call", "lock", "find", "produce", "delete", "release", "done"}

TypeOK ==
    /\ rows \subseteq stored /\ late \subseteq stored /\ stored \subseteq Messages
    /\ sent \in [Messages -> Nat]
    /\ lock \in Replicas \union {Nobody}
    /\ session \in [Replicas -> BOOLEAN]
    /\ proc \in [Replicas -> {"run", "stop", "down"}]
    /\ signal \in [Replicas -> BOOLEAN]
    /\ worker \in [Replicas -> WorkerStates]
    /\ batch \in [Replicas -> SUBSET Messages]
    /\ outcome \in [Replicas -> {"all", "more"}]
    /\ faults \in Nat

Init ==
    /\ rows = {} /\ stored = {} /\ late = {}
    /\ sent = [m \in Messages |-> 0]
    /\ lock = Nobody
    /\ session = [r \in Replicas |-> FALSE]
    /\ proc = [r \in Replicas |-> "run"]
    /\ signal = [r \in Replicas |-> TRUE]
    /\ worker = [r \in Replicas |-> "idle"]
    /\ batch = [r \in Replicas |-> {}]
    /\ outcome = [r \in Replicas |-> "all"]
    /\ faults = 0

Fault == faults < MaxFaults /\ faults' = faults + 1

Goto(r, state) == worker' = [worker EXCEPT ![r] = state]

(* The deferred release follows; whatever failed, the next batch is due.   *)
BatchFails(r) ==
    /\ Goto(r, "release")
    /\ batch' = [batch EXCEPT ![r] = {}]
    /\ outcome' = [outcome EXCEPT ![r] = "more"]

-----------------------------------------------------------------------------
(* A producer's transaction commits a row, perhaps after one with a later  *)
(* scheduled_at.                                                           *)
Store(m) ==
    /\ m \notin stored
    /\ stored' = stored \union {m}
    /\ rows' = rows \union {m}
    /\ late' = IF \E n \in stored : n > m THEN late \union {m} ELSE late
    /\ UNCHANGED <<sent, lock, session, proc, workerVars, faults>>

(* Process, a non-blocking send on processChan.                            *)
Process(r) ==
    /\ proc[r] = "run" /\ ~signal[r]
    /\ signal' = [signal EXCEPT ![r] = TRUE]
    /\ UNCHANGED <<storageVars, sent, lock, session, proc, worker, batch, outcome, faults>>

(* Worker receives from processChan and calls process.                     *)
WorkerBegin(r) ==
    /\ proc[r] # "down" /\ worker[r] = "idle" /\ signal[r]
    /\ signal' = [signal EXCEPT ![r] = FALSE]
    /\ Goto(r, "call")
    /\ UNCHANGED <<storageVars, sent, lock, session, proc, batch, outcome, faults>>

WorkerReturn(r) ==
    /\ proc[r] = "stop" /\ worker[r] = "idle"
    /\ Goto(r, "done")
    /\ UNCHANGED <<storageVars, sent, lock, session, proc, signal, batch, outcome, faults>>

(* Faulty variant: the retries of storage.Lock do not end with the context.*)
CallLockForever(r) ==
    /\ worker[r] = "call"
    /\ Goto(r, IF proc[r] = "run" THEN "lock" ELSE "call")
    /\ UNCHANGED <<storageVars, sent, lock, session, proc, signal, batch, outcome, faults>>

(* storage.Lock asks for a connection, which a cancelled context refuses   *)
(* and which ends the retries; then it waits for the advisory lock.        *)
CallLock(r) ==
    /\ worker[r] = "call"
    /\ Goto(r, IF proc[r] = "run" THEN "lock" ELSE "idle")
    /\ UNCHANGED <<storageVars, sent, lock, session, proc, signal, batch, outcome, faults>>

AcquireLock(r) ==
    /\ worker[r] = "lock" /\ lock = Nobody
    /\ lock' = r
    /\ session' = [session EXCEPT ![r] = TRUE]
    /\ Goto(r, "find")
    /\ UNCHANGED <<storageVars, sent, proc, signal, batch, outcome, faults>>

(* The wait for the lock ends with the context.                            *)
AbandonLock(r) ==
    /\ worker[r] = "lock" /\ proc[r] = "stop"
    /\ Goto(r, "idle")
    /\ UNCHANGED <<storageVars, sent, lock, session, proc, signal, batch, outcome, faults>>

(* What Find may return: the first BatchSize rows by scheduled_at.         *)
Batches ==
    {b \in SUBSET rows :
        /\ \A m \in b, n \in rows \ b : m < n
        /\ \/ Cardinality(b) = BatchSize
           \/ b = rows /\ Cardinality(b) < BatchSize}

(* Faulty variant: any rows may come first.                                *)
FindUnordered(r) ==
    /\ worker[r] = "find" /\ session[r]
    /\ \E b \in {c \in SUBSET rows : Cardinality(c) <= BatchSize} :
          /\ batch' = [batch EXCEPT ![r] = b]
          /\ Goto(r, IF b = {} THEN "release" ELSE "produce")
          /\ outcome' = [outcome EXCEPT ![r] = IF Cardinality(b) < BatchSize THEN "all" ELSE "more"]
    /\ UNCHANGED <<storageVars, sent, lock, session, proc, signal, faults>>

(* storage.Find: a short batch is the last one.                            *)
Find(r) ==
    /\ worker[r] = "find" /\ session[r]
    /\ \E b \in Batches :
          /\ batch' = [batch EXCEPT ![r] = b]
          /\ Goto(r, IF b = {} THEN "release" ELSE "produce")
          /\ outcome' = [outcome EXCEPT ![r] = IF Cardinality(b) < BatchSize THEN "all" ELSE "more"]
    /\ UNCHANGED <<storageVars, sent, lock, session, proc, signal, faults>>

(* Find fails: by itself, or because its connection or context is gone.    *)
FindError(r) ==
    /\ worker[r] = "find"
    /\ IF session[r] /\ proc[r] = "run" THEN Fault ELSE UNCHANGED faults
    /\ BatchFails(r)
    /\ UNCHANGED <<storageVars, sent, lock, session, proc, signal>>

(* The next message of the batch.                                          *)
IsFirst(r, m) == m \in batch[r] /\ \A n \in batch[r] : m <= n

(* Faulty variant: the row is deleted before the broker has the message.   *)
ProduceAfterDelete(r) ==
    /\ worker[r] = "produce"
    /\ \E m \in Messages : IsFirst(r, m) /\ rows' = rows \ {m}
    /\ Goto(r, "delete")
    /\ UNCHANGED <<stored, late, sent, lock, session, proc, signal, batch, outcome, faults>>

(* producer.Produce returns nil.                                           *)
Produce(r) ==
    /\ worker[r] = "produce"
    /\ \E m \in Messages : IsFirst(r, m) /\ sent' = [sent EXCEPT ![m] = @ + 1]
    /\ Goto(r, "delete")
    /\ UNCHANGED <<storageVars, lock, session, proc, signal, batch, outcome, faults>>

(* It returns an error; the broker may have taken the message all the same.*)
ProduceError(r) ==
    /\ worker[r] = "produce"
    /\ \E m \in Messages : IsFirst(r, m) /\ sent' \in {sent, [sent EXCEPT ![m] = @ + 1]}
    /\ IF proc[r] = "run" \/ sent' # sent THEN Fault ELSE UNCHANGED faults
    /\ BatchFails(r)
    /\ UNCHANGED <<storageVars, lock, session, proc, signal>>

(* Faulty variant: the error of Delete is dropped.                         *)
DeleteIgnoringError(r) ==
    /\ worker[r] = "delete" /\ session[r]
    /\ \E m \in Messages :
          /\ IsFirst(r, m)
          /\ rows' \in {rows, rows \ {m}}
          /\ batch' = [batch EXCEPT ![r] = @ \ {m}]
          /\ Goto(r, IF batch[r] = {m} THEN "release" ELSE "produce")
    /\ UNCHANGED <<stored, late, sent, lock, session, proc, signal, outcome, faults>>

(* storage.Delete, over the lock's connection.                             *)
Delete(r) ==
    /\ worker[r] = "delete" /\ session[r]
    /\ \E m \in Messages :
          /\ IsFirst(r, m)
          /\ rows' = rows \ {m}
          /\ batch' = [batch EXCEPT ![r] = @ \ {m}]
          /\ Goto(r, IF batch[r] = {m} THEN "release" ELSE "produce")
    /\ UNCHANGED <<stored, late, sent, lock, session, proc, signal, outcome, faults>>

(* It fails; with the connection intact the row may be deleted or not.     *)
DeleteError(r) ==
    /\ worker[r] = "delete"
    /\ \E m \in Messages : IsFirst(r, m) /\ rows' \in {rows} \union (IF session[r] THEN {rows \ {m}} ELSE {})
    /\ IF session[r] /\ proc[r] = "run" THEN Fault ELSE UNCHANGED faults
    /\ BatchFails(r)
    /\ UNCHANGED <<stored, late, sent, lock, session, proc, signal>>

(* releaseLock frees the lock, by the call or by the end of the session.   *)
(* Without an error the loop goes on unless all rows were processed; with  *)
(* one the backoff calls it again, or gives up under a cancelled context.  *)
ReleaseLock(r) ==
    /\ worker[r] = "release"
    /\ lock' = IF lock = r THEN Nobody ELSE lock
    /\ session' = [session EXCEPT ![r] = FALSE]
    /\ \/ session[r] /\ Goto(r, IF outcome[r] = "all" THEN "idle" ELSE "call") /\ UNCHANGED faults
       \/ /\ Goto(r, IF proc[r] = "run" THEN "call" ELSE "idle")
          /\ IF session[r] /\ proc[r] = "run" THEN Fault ELSE UNCHANGED faults
    /\ outcome' = [outcome EXCEPT ![r] = "all"]
    /\ UNCHANGED <<storageVars, sent, proc, signal, batch>>

-----------------------------------------------------------------------------
Cancel(r) ==
    /\ proc[r] = "run" /\ Fault
    /\ proc' = [proc EXCEPT ![r] = "stop"]
    /\ UNCHANGED <<storageVars, sent, lock, session, workerVars>>

(* The server ends the session and frees its lock.                         *)
LoseSession(r) ==
    /\ session[r] /\ Fault
    /\ session' = [session EXCEPT ![r] = FALSE]
    /\ lock' = IF lock = r THEN Nobody ELSE lock
    /\ UNCHANGED <<storageVars, sent, proc, workerVars>>

Vanish(r) ==
    /\ proc' = [proc EXCEPT ![r] = "down"]
    /\ lock' = IF lock = r THEN Nobody ELSE lock
    /\ session' = [session EXCEPT ![r] = FALSE]
    /\ signal' = [signal EXCEPT ![r] = TRUE]
    /\ Goto(r, "idle")
    /\ batch' = [batch EXCEPT ![r] = {}]
    /\ outcome' = [outcome EXCEPT ![r] = "all"]
    /\ UNCHANGED <<storageVars, sent>>

Crash(r) == proc[r] # "down" /\ Fault /\ Vanish(r)

(* The Worker has returned, and with it the process.                       *)
Exit(r) == proc[r] = "stop" /\ worker[r] = "done" /\ Vanish(r) /\ UNCHANGED faults

Restart(r) ==
    /\ proc[r] = "down"
    /\ proc' = [proc EXCEPT ![r] = "run"]
    /\ UNCHANGED <<storageVars, sent, lock, session, workerVars, faults>>

WorkerStep(r) ==
    \/ WorkerBegin(r) \/ WorkerReturn(r) \/ CallLock(r) \/ AcquireLock(r) \/ AbandonLock(r)
    \/ Find(r) \/ FindError(r) \/ Produce(r) \/ ProduceError(r) \/ Delete(r) \/ DeleteError(r)
    \/ ReleaseLock(r)

Next ==
    \/ \E m \in Messages : Store(m)
    \/ \E r \in Replicas :
          \/ WorkerStep(r) \/ Process(r)
          \/ Cancel(r) \/ LoseSession(r) \/ Crash(r) \/ Exit(r) \/ Restart(r)

Spec == Init /\ [][Next]_vars

(***************************************************************************)
(* The Worker's goroutine runs, a lock that is freed again and again is    *)
(* granted in the end, Process is called again (the outbox is meant to be  *)
(* driven by a ticker or a commit hook), the process is restarted.         *)
(***************************************************************************)
Fairness ==
    \A r \in Replicas :
        /\ WF_vars(WorkerStep(r)) /\ SF_vars(AcquireLock(r))
        /\ WF_vars(Process(r)) /\ WF_vars(Exit(r)) /\ WF_vars(Restart(r))

FairSpec == Spec /\ Fairness

-----------------------------------------------------------------------------
(***************************************************************************)
(* The outbox implements at-least-once delivery to the broker: a row is    *)
(* deleted only after Produce succeeded for it, whichever call of whichever*)
(* replica fails in between.                                               *)
(***************************************************************************)
Abstract == INSTANCE AtLeastOnce WITH
    Message <- Messages, Droppable <- {},
    submitted <- stored, pending <- rows, delivered <- sent

DeliversAtLeastOnce == Abstract!Spec

(***************************************************************************)
(* A message reaches the broker again only because of a fault: every copy  *)
(* beyond the first is paid for by a failed call, a lost session, a        *)
(* cancellation or a crash.  Replicas that compete for the lock, batches   *)
(* and repeated calls of Process never duplicate a message.                *)
(***************************************************************************)
DuplicateNeedsFault == \A m \in Messages : sent[m] <= 1 + faults

(***************************************************************************)
(* Messages reach the broker for the first time in the order of their      *)
(* scheduled_at, even across batches, failures and replicas; only a row    *)
(* that was committed late can be overtaken.                               *)
(***************************************************************************)
FirstSendsInOrder ==
    \A m, n \in Messages :
        n < m /\ sent[m] > 0 /\ n \in stored \ late => sent[n] > 0

(***************************************************************************)
(* Errors that the deferred release hides from the retry do not stop the   *)
(* outbox, nor keep it running: every stored message is sent and deleted   *)
(* in the end, and a cancelled Worker returns, as the cancelled context    *)
(* makes the next Lock fail and that error is not hidden.                  *)
(***************************************************************************)
OutboxProgresses ==
    /\ \A m \in Messages : m \in rows ~> m \notin rows
    /\ \A r \in Replicas : proc[r] = "stop" ~> proc[r] = "down"
=============================================================================
