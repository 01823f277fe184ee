----------------------- MODULE MessagePipelineProofs -----------------------
(***************************************************************************)
(* Proofs about MessagePipeline for every number of replicas and messages, *)
(* every batch size and queue capacity, and any number of faults.          *)
(***************************************************************************)
EXTENDS MessagePipeline, FiniteSetTheorems, TLAPS

-----------------------------------------------------------------------------
(***************************************************************************)
(* The parts of the inductive invariants.                                  *)
(***************************************************************************)

(* The Worker adds the message it has just sent.                           *)
AddsWhatWasSent ==
    \A r \in Replicas : worker[r] = "add" => sent[r] \in Messages

TypeInv == TypeOK /\ AddsWhatWasSent

(* A message on its way to or past the acknowledgement was handled.        *)
AcknowledgedWasHandled ==
    \A r \in Replicas, m \in Messages :
        task[r][m] \in {"ack", "remove", "token"} => m \in Unhandled \/ handled[m] > 0

HandledInv == NoLoss /\ AcknowledgedWasHandled

(* The lock is held exactly by the replica whose session is intact.        *)
LockIsSession ==
    \A r \in Replicas : session[r] = "held" <=> lock = r

(* A batch is found, delivered and ended on a session taken for it.        *)
BatchHasSession ==
    \A r \in Replicas :
        worker[r] \in Delivering \union {"find", "release"} => session[r] # "none"

(* A process that is down has no goroutines.                               *)
DownIsIdle ==
    \A r \in Replicas :
        proc[r] = "down" => worker[r] = "idle" /\ \A m \in Messages : task[r][m] = "none"

(* A message whose goroutine started and has not removed it from the       *)
(* processing set is in that set, or is the one the Worker is adding.      *)
TaskIsTracked ==
    \A r \in Replicas, m \in Messages :
        task[r][m] \in InProgress \union {"left"} =>
            m \in processing[r] \/ (worker[r] = "add" /\ sent[r] = m)

(* With a live context, messages are in progress only while the Worker is  *)
(* delivering a batch or waits for its end.                                *)
ProgressWithinBatch ==
    \A r \in Replicas, m \in Messages :
        proc[r] = "run" /\ task[r][m] \in InProgress => worker[r] \in Delivering

OwnershipInv ==
    /\ LockIsSession /\ BatchHasSession /\ DownIsIdle
    /\ TaskIsTracked /\ ProgressWithinBatch

(* A message has a goroutine exactly while it is in the queue.             *)
QueueIsTasks ==
    \A r \in Replicas : queue[r] = {m \in Messages : task[r][m] # "none"}

(* A goroutine past the deletion has deleted its row for good, and nothing *)
(* is delivered that was never stored.                                     *)
DeletedStaysDeleted ==
    \A r \in Replicas :
        /\ batch[r] \subseteq stored
        /\ \A m \in Messages : task[r][m] # "none" => m \in stored
        /\ \A m \in Messages : task[r][m] \in {"remove", "token"} => m \notin rows

(* The unsent part of a batch has no goroutine yet.                        *)
BatchIsFresh ==
    \A r \in Replicas : \A m \in batch[r] : worker[r] \in {"send", "add"} /\ task[r][m] = "none"

QueueInv ==
    /\ QueueIsTasks /\ DeletedStaysDeleted
    /\ BatchIsFresh /\ TokensConserved

-----------------------------------------------------------------------------
(***************************************************************************)
(* What the hand-over of message m does to the batch and to the listener.  *)
(***************************************************************************)
DeliverEffect(r, m) ==
    /\ batch' = [batch EXCEPT ![r] = @ \ {m}]
    /\ sent' = [sent EXCEPT ![r] = m]
    /\ \/ /\ Accepts(r)
          /\ queue' = [queue EXCEPT ![r] = @ \union {m}]
          /\ task' = [task EXCEPT ![r][m] = IF m \in Unhandled THEN "ack" ELSE "handle"]
          /\ listener' = [listener EXCEPT ![r] = "token"]
       \/ /\ ~Accepts(r)
          /\ listener' = [listener EXCEPT ![r] = "exit"]
          /\ UNCHANGED <<queue, task>>

LEMMA DeliverHasEffect ==
    ASSUME NEW r \in Replicas, Deliver(r)
    PROVE  \E m \in batch[r] : DeliverEffect(r, m)
  BY DEF Deliver, DeliverEffect

(* Only the goroutine of the handed over message starts.                   *)
LEMMA DeliverStartsOne ==
    ASSUME TypeInv, NEW r \in Replicas, NEW m \in batch[r], DeliverEffect(r, m)
    PROVE  \A q \in Replicas, n \in Messages :
              \/ task'[q][n] = task[q][n]
              \/ /\ q = r /\ n = m
                 /\ task'[q][n] = IF m \in Unhandled THEN "ack" ELSE "handle"
<1>1. CASE UNCHANGED task
  BY <1>1
<1>2. CASE task' = [task EXCEPT ![r][m] = IF m \in Unhandled THEN "ack" ELSE "handle"]
  BY <1>2 DEF TypeInv, TypeOK
<1> QED
  BY <1>1, <1>2 DEF DeliverEffect

(***************************************************************************)
(* The steps of a replica that start, move and end no goroutine.           *)
(***************************************************************************)
QuietStep(r) ==
    \/ WorkerBegin(r) \/ WorkerReturn(r) \/ AcquireLock(r) \/ AbandonLock(r)
    \/ Find(r) \/ FindError(r) \/ AddToProcessing(r) \/ AbandonBatch(r)
    \/ CheckProcessed(r) \/ EnlistWaiter(r) \/ ReleaseLock(r)
    \/ TakeToken(r) \/ ListenerStop(r) \/ ListenerReturn(r)
    \/ Process(r) \/ Cancel(r) \/ LoseSession(r) \/ Restart(r)

LEMMA QuietStepLeavesTasks ==
    ASSUME NEW r \in Replicas, QuietStep(r)
    PROVE  UNCHANGED <<rows, stored, handled, queue, task>>
  BY DEF QuietStep, WorkerBegin, WorkerReturn, AcquireLock, AbandonLock, Find, FindError,
         AddToProcessing, AbandonBatch, CheckProcessed, EnlistWaiter, ReleaseLock, TakeToken,
         ListenerStop, ListenerReturn, Process, Cancel, LoseSession, Restart,
         storageVars, listenerVars

LEMMA NextSteps ==
    ASSUME Next
    PROVE  \/ \E m \in Messages : Store(m)
           \/ \E r \in Replicas : QuietStep(r) \/ Deliver(r) \/ Crash(r) \/ Exit(r)
           \/ \E r \in Replicas, m \in Messages : TaskStep(r, m)
  BY DEF Next, WorkerStep, ListenerStep, ProcessStep, QuietStep

LEMMA TypeInvariant == Spec => []TypeInv
<1> USE MessagesAssumption, UnhandledAssumption, BoundsAssumption, NobodyAssumption
<1>1. Init => TypeInv
  BY DEF Init, TypeInv, AddsWhatWasSent, TypeOK, ProcStates, SessionStates, WorkerStates, ListenerStates, TaskStates,
         Outcomes, NoTask, NoMessage
<1>2. TypeInv /\ [Next]_vars => TypeInv'
  <2> SUFFICES ASSUME TypeInv, [Next]_vars
               PROVE  TypeInv'
    OBVIOUS
  <2> USE DEF TypeInv, AddsWhatWasSent, TypeOK, ProcStates, SessionStates, WorkerStates, ListenerStates, TaskStates,
              Outcomes, storageVars, lockVars, workerVars, listenerVars
  <2>1. CASE UNCHANGED vars
    BY <2>1 DEF vars
  <2>2. ASSUME NEW m \in Messages, Store(m)
        PROVE  TypeInv'
    BY <2>2 DEF Store
  <2>3. ASSUME NEW r \in Replicas, WorkerBegin(r)
        PROVE  TypeInv'
    BY <2>3 DEF WorkerBegin
  <2>4. ASSUME NEW r \in Replicas, WorkerReturn(r)
        PROVE  TypeInv'
    BY <2>4 DEF WorkerReturn
  <2>5. ASSUME NEW r \in Replicas, AcquireLock(r)
        PROVE  TypeInv'
    BY <2>5 DEF AcquireLock
  <2>6. ASSUME NEW r \in Replicas, AbandonLock(r)
        PROVE  TypeInv'
    BY <2>6 DEF AbandonLock
  <2>7. ASSUME NEW r \in Replicas, Find(r)
        PROVE  TypeInv'
    BY <2>7 DEF Find, Batches
  <2>8. ASSUME NEW r \in Replicas, FindError(r)
        PROVE  TypeInv'
    BY <2>8 DEF FindError
  <2>9. ASSUME NEW r \in Replicas, Deliver(r)
        PROVE  TypeInv'
    <3>1. PICK m \in batch[r] : DeliverEffect(r, m)
      BY <2>9, DeliverHasEffect
    <3>2. /\ worker' = [worker EXCEPT ![r] = "add"]
          /\ UNCHANGED <<rows, stored, handled, lock, session, proc, signal, outcome,
                         processing, tokens, faults>>
      BY <2>9 DEF Deliver
    <3>3. m \in Messages
      OBVIOUS
    <3>4. /\ batch' \in [Replicas -> SUBSET Messages]
          /\ sent' \in [Replicas -> Messages \union {NoMessage}]
      BY <3>1, <3>3 DEF DeliverEffect
    <3>7. queue' \in [Replicas -> SUBSET Messages]
      BY <3>1, <3>3 DEF DeliverEffect
    <3>8. listener' \in [Replicas -> ListenerStates]
      BY <3>1 DEF DeliverEffect
    <3>5. task' \in [Replicas -> [Messages -> TaskStates]]
      <4>1. (IF m \in Unhandled THEN "ack" ELSE "handle") \in TaskStates
        OBVIOUS
      <4>2. CASE UNCHANGED task
        BY <4>2
      <4>3. CASE task' = [task EXCEPT ![r][m] = IF m \in Unhandled THEN "ack" ELSE "handle"]
        BY <4>1, <4>3, <3>3
      <4> QED
        BY <3>1, <4>2, <4>3 DEF DeliverEffect
    <3>6. AddsWhatWasSent'
      BY <3>1, <3>2, <3>3 DEF DeliverEffect
    <3> QED
      BY <3>2, <3>4, <3>7, <3>8, <3>5, <3>6
  <2>10. ASSUME NEW r \in Replicas, AddToProcessing(r)
        PROVE  TypeInv'
    BY <2>10 DEF AddToProcessing, NoMessage
  <2>11. ASSUME NEW r \in Replicas, AbandonBatch(r)
        PROVE  TypeInv'
    BY <2>11 DEF AbandonBatch
  <2>12. ASSUME NEW r \in Replicas, CheckProcessed(r)
        PROVE  TypeInv'
    BY <2>12 DEF CheckProcessed
  <2>13. ASSUME NEW r \in Replicas, EnlistWaiter(r)
        PROVE  TypeInv'
    BY <2>13 DEF EnlistWaiter
  <2>14. ASSUME NEW r \in Replicas, ReleaseLock(r)
        PROVE  TypeInv'
    BY <2>14 DEF ReleaseLock, AfterBatch
  <2>15. ASSUME NEW r \in Replicas, TakeToken(r)
        PROVE  TypeInv'
    BY <2>15 DEF TakeToken
  <2>16. ASSUME NEW r \in Replicas, ListenerStop(r)
        PROVE  TypeInv'
    BY <2>16 DEF ListenerStop
  <2>17. ASSUME NEW r \in Replicas, ListenerReturn(r)
        PROVE  TypeInv'
    BY <2>17 DEF ListenerReturn
  <2>18. ASSUME NEW r \in Replicas, Process(r)
        PROVE  TypeInv'
    BY <2>18 DEF Process
  <2>19. ASSUME NEW r \in Replicas, Cancel(r)
        PROVE  TypeInv'
    BY <2>19 DEF Cancel, Fault
  <2>20. ASSUME NEW r \in Replicas, LoseSession(r)
        PROVE  TypeInv'
    BY <2>20 DEF LoseSession, Fault
  <2>21. ASSUME NEW r \in Replicas, Crash(r)
        PROVE  TypeInv'
    BY <2>21 DEF Crash, Vanish, Fault, NoTask, NoMessage
  <2>22. ASSUME NEW r \in Replicas, Exit(r)
        PROVE  TypeInv'
    BY <2>22 DEF Exit, Vanish, NoTask, NoMessage
  <2>23. ASSUME NEW r \in Replicas, Restart(r)
        PROVE  TypeInv'
    BY <2>23 DEF Restart
  <2>24. ASSUME NEW r \in Replicas, NEW m \in Messages, Handle(r, m)
        PROVE  TypeInv'
    BY <2>24 DEF Handle
  <2>25. ASSUME NEW r \in Replicas, NEW m \in Messages, Leave(r, m)
        PROVE  TypeInv'
    BY <2>25 DEF Leave
  <2>26. ASSUME NEW r \in Replicas, NEW m \in Messages, DeleteRow(r, m)
        PROVE  TypeInv'
    BY <2>26 DEF DeleteRow
  <2>27. ASSUME NEW r \in Replicas, NEW m \in Messages, DeleteRowUnconfirmed(r, m)
        PROVE  TypeInv'
    BY <2>27 DEF DeleteRowUnconfirmed
  <2>28. ASSUME NEW r \in Replicas, NEW m \in Messages, RemoveFromProcessing(r, m)
        PROVE  TypeInv'
    BY <2>28 DEF RemoveFromProcessing
  <2>29. ASSUME NEW r \in Replicas, NEW m \in Messages, ReturnToken(r, m)
        PROVE  TypeInv'
    BY <2>29 DEF ReturnToken
  <2> QED
    BY <2>1, <2>2, <2>3, <2>4, <2>5, <2>6, <2>7, <2>8, <2>9, <2>10, <2>11, <2>12, <2>13, <2>14, <2>15, <2>16, <2>17, <2>18, <2>19, <2>20, <2>21, <2>22, <2>23, <2>24, <2>25, <2>26, <2>27, <2>28, <2>29
       DEF Next, WorkerStep, ListenerStep, ProcessStep, TaskStep
<1> QED
  BY <1>1, <1>2, PTL DEF Spec

(***************************************************************************)
(* Type correctness of the pipeline, whatever the replicas, the producers  *)
(* and the faults do.                                                      *)
(***************************************************************************)
THEOREM TypeCorrect == Spec => []TypeOK
  BY TypeInvariant, PTL DEF TypeInv

LEMMA HandledInvariant == Spec => []HandledInv
<1>1. Init => HandledInv
  BY DEF Init, HandledInv, NoLoss, AcknowledgedWasHandled, NoTask
<1>2. TypeInv /\ HandledInv /\ [Next]_vars => HandledInv'
  <2> SUFFICES ASSUME TypeInv, HandledInv, [Next]_vars
               PROVE  HandledInv'
    OBVIOUS
  <2> USE DEF TypeInv, TypeOK, HandledInv, NoLoss, AcknowledgedWasHandled, TaskStates
  <2>1. CASE UNCHANGED <<rows, stored, handled, task>>
    BY <2>1
  <2>2. ASSUME NEW m \in Messages, Store(m)
        PROVE  HandledInv'
    BY <2>2 DEF Store, listenerVars
  <2>3. ASSUME NEW r \in Replicas, Deliver(r)
        PROVE  HandledInv'
    <3>1. PICK m \in batch[r] : DeliverEffect(r, m)
      BY <2>3, DeliverHasEffect
    <3>2. UNCHANGED <<rows, stored, handled>>
      BY <2>3 DEF Deliver, storageVars
    <3>3. ASSUME NEW q \in Replicas, NEW n \in Messages,
                 task'[q][n] \in {"ack", "remove", "token"}
          PROVE  n \in Unhandled \/ task[q][n] \in {"ack", "remove", "token"}
      <4>1. \/ task'[q][n] = task[q][n]
            \/ q = r /\ n = m /\ task'[q][n] = IF m \in Unhandled THEN "ack" ELSE "handle"
        BY <3>1, DeliverStartsOne
      <4> QED
        BY <3>3, <4>1
    <3> QED
      BY <3>2, <3>3
  <2>4. ASSUME NEW r \in Replicas, Vanish(r)
        PROVE  HandledInv'
    BY <2>4 DEF Vanish, storageVars, NoTask
  <2>5. ASSUME NEW r \in Replicas, NEW m \in Messages, Handle(r, m)
        PROVE  HandledInv'
    BY <2>5 DEF Handle
  <2>6. ASSUME NEW r \in Replicas, NEW m \in Messages, Leave(r, m)
        PROVE  HandledInv'
    BY <2>6 DEF Leave, storageVars
  <2>7. ASSUME NEW r \in Replicas, NEW m \in Messages, DeleteRow(r, m)
        PROVE  HandledInv'
    BY <2>7 DEF DeleteRow
  <2>8. ASSUME NEW r \in Replicas, NEW m \in Messages, DeleteRowUnconfirmed(r, m)
        PROVE  HandledInv'
    BY <2>8 DEF DeleteRowUnconfirmed, listenerVars
  <2>9. ASSUME NEW r \in Replicas, NEW m \in Messages, RemoveFromProcessing(r, m)
        PROVE  HandledInv'
    BY <2>9 DEF RemoveFromProcessing, storageVars
  <2>10. ASSUME NEW r \in Replicas, NEW m \in Messages, ReturnToken(r, m)
        PROVE  HandledInv'
    BY <2>10 DEF ReturnToken, storageVars
  <2>11. ASSUME NEW r \in Replicas, QuietStep(r)
         PROVE  UNCHANGED <<rows, stored, handled, task>>
    BY <2>11, QuietStepLeavesTasks
  <2> QED
    BY <2>1, <2>2, <2>3, <2>4, <2>5, <2>6, <2>7, <2>8, <2>9, <2>10, <2>11, NextSteps
       DEF vars, storageVars, listenerVars, Crash, Exit, TaskStep
<1> QED
  BY <1>1, <1>2, TypeInvariant, PTL DEF Spec

(***************************************************************************)
(* No message is lost: a row leaves message_storage only after all         *)
(* handlers of its message succeeded (or when it has none), in spite of    *)
(* crashes, shutdowns, lost sessions and unconfirmed deletions.            *)
(***************************************************************************)
THEOREM NothingIsLost == Spec => []NoLoss
  BY HandledInvariant, PTL DEF HandledInv

LEMMA OwnershipStep == TypeInv /\ TypeInv' /\ OwnershipInv /\ [Next]_vars => OwnershipInv'
<1> SUFFICES ASSUME TypeInv, TypeInv', OwnershipInv, [Next]_vars
             PROVE  OwnershipInv'
  OBVIOUS
<1> USE NobodyAssumption
    DEF TypeInv, TypeOK, OwnershipInv, LockIsSession, BatchHasSession, DownIsIdle, TaskIsTracked,
        ProgressWithinBatch, Delivering, InProgress, storageVars, lockVars, workerVars, listenerVars
<1>1. CASE UNCHANGED vars
  BY <1>1 DEF vars
<1>2. ASSUME NEW m \in Messages, Store(m)
      PROVE  OwnershipInv'
  BY <1>2 DEF Store
<1>3. ASSUME NEW r \in Replicas, WorkerBegin(r)
      PROVE  OwnershipInv'
  BY <1>3 DEF WorkerBegin
<1>4. ASSUME NEW r \in Replicas, WorkerReturn(r)
      PROVE  OwnershipInv'
  BY <1>4 DEF WorkerReturn
<1>5. ASSUME NEW r \in Replicas, AcquireLock(r)
      PROVE  OwnershipInv'
  BY <1>5 DEF AcquireLock
<1>6. ASSUME NEW r \in Replicas, AbandonLock(r)
      PROVE  OwnershipInv'
  BY <1>6 DEF AbandonLock
<1>7. ASSUME NEW r \in Replicas, Find(r)
      PROVE  OwnershipInv'
  BY <1>7 DEF Find
<1>8. ASSUME NEW r \in Replicas, FindError(r)
      PROVE  OwnershipInv'
  BY <1>8 DEF FindError
<1>9. ASSUME NEW r \in Replicas, Deliver(r)
      PROVE  OwnershipInv'
  <2>1. PICK m \in batch[r] : DeliverEffect(r, m)
    BY <1>9, DeliverHasEffect
  <2>2. /\ worker[r] = "send" /\ worker' = [worker EXCEPT ![r] = "add"]
        /\ sent' = [sent EXCEPT ![r] = m]
        /\ UNCHANGED <<lock, session, proc, processing>>
    BY <1>9, <2>1 DEF Deliver, DeliverEffect
  <2>3. \A q \in Replicas, n \in Messages : task'[q][n] = task[q][n] \/ (q = r /\ n = m)
    BY <2>1, DeliverStartsOne
  <2>4. proc[r] # "down"
    BY <2>2 DEF DownIsIdle
  <2>5. DownIsIdle' /\ TaskIsTracked'
    BY <2>2, <2>3, <2>4
  <2> QED
    BY <2>2, <2>3, <2>5
<1>10. ASSUME NEW r \in Replicas, AddToProcessing(r)
      PROVE  OwnershipInv'
  BY <1>10 DEF AddToProcessing, NoMessage, AddsWhatWasSent
<1>11. ASSUME NEW r \in Replicas, AbandonBatch(r)
      PROVE  OwnershipInv'
  BY <1>11 DEF AbandonBatch
<1>12. ASSUME NEW r \in Replicas, CheckProcessed(r)
      PROVE  OwnershipInv'
  BY <1>12 DEF CheckProcessed
<1>13. ASSUME NEW r \in Replicas, EnlistWaiter(r)
      PROVE  OwnershipInv'
  BY <1>13 DEF EnlistWaiter
<1>14. ASSUME NEW r \in Replicas, ReleaseLock(r)
      PROVE  OwnershipInv'
  BY <1>14 DEF ReleaseLock, AfterBatch
<1>15. ASSUME NEW r \in Replicas, TakeToken(r)
      PROVE  OwnershipInv'
  BY <1>15 DEF TakeToken
<1>16. ASSUME NEW r \in Replicas, ListenerStop(r)
      PROVE  OwnershipInv'
  BY <1>16 DEF ListenerStop
<1>17. ASSUME NEW r \in Replicas, ListenerReturn(r)
      PROVE  OwnershipInv'
  BY <1>17 DEF ListenerReturn
<1>18. ASSUME NEW r \in Replicas, Process(r)
      PROVE  OwnershipInv'
  BY <1>18 DEF Process
<1>19. ASSUME NEW r \in Replicas, Cancel(r)
      PROVE  OwnershipInv'
  BY <1>19 DEF Cancel
<1>20. ASSUME NEW r \in Replicas, LoseSession(r)
      PROVE  OwnershipInv'
  BY <1>20 DEF LoseSession
<1>21. ASSUME NEW r \in Replicas, Crash(r)
      PROVE  OwnershipInv'
  BY <1>21 DEF Crash, Vanish, NoTask, NoMessage
<1>22. ASSUME NEW r \in Replicas, Exit(r)
      PROVE  OwnershipInv'
  BY <1>22 DEF Exit, Vanish, NoTask, NoMessage
<1>23. ASSUME NEW r \in Replicas, Restart(r)
      PROVE  OwnershipInv'
  BY <1>23 DEF Restart
<1>24. ASSUME NEW r \in Replicas, NEW m \in Messages, Handle(r, m)
      PROVE  OwnershipInv'
  BY <1>24 DEF Handle
<1>25. ASSUME NEW r \in Replicas, NEW m \in Messages, Leave(r, m)
      PROVE  OwnershipInv'
  BY <1>25 DEF Leave
<1>26. ASSUME NEW r \in Replicas, NEW m \in Messages, DeleteRow(r, m)
      PROVE  OwnershipInv'
  BY <1>26 DEF DeleteRow
<1>27. ASSUME NEW r \in Replicas, NEW m \in Messages, DeleteRowUnconfirmed(r, m)
      PROVE  OwnershipInv'
  BY <1>27 DEF DeleteRowUnconfirmed
<1>28. ASSUME NEW r \in Replicas, NEW m \in Messages, RemoveFromProcessing(r, m)
      PROVE  OwnershipInv'
  BY <1>28 DEF RemoveFromProcessing
<1>29. ASSUME NEW r \in Replicas, NEW m \in Messages, ReturnToken(r, m)
      PROVE  OwnershipInv'
  BY <1>29 DEF ReturnToken
<1> QED
  BY <1>1, <1>2, <1>3, <1>4, <1>5, <1>6, <1>7, <1>8, <1>9, <1>10, <1>11, <1>12, <1>13, <1>14, <1>15, <1>16, <1>17, <1>18, <1>19, <1>20, <1>21, <1>22, <1>23, <1>24, <1>25, <1>26, <1>27, <1>28, <1>29
     DEF Next, WorkerStep, ListenerStep, ProcessStep, TaskStep

LEMMA OwnershipInvariant == Spec => []OwnershipInv
<1>1. Init => OwnershipInv
  BY NobodyAssumption
     DEF Init, OwnershipInv, LockIsSession, BatchHasSession, DownIsIdle, TaskIsTracked,
         ProgressWithinBatch, Delivering, InProgress, NoTask
<1> QED
  BY <1>1, OwnershipStep, TypeInvariant, PTL DEF Spec

(***************************************************************************)
(* The topic's advisory lock keeps two replicas from processing the same   *)
(* message at the same time, as long as neither is shutting down nor has   *)
(* lost the database session on which it took the lock.                    *)
(***************************************************************************)
THEOREM ConsumersExclude == Spec => []SoleConsumer
<1>1. TypeInv /\ OwnershipInv => SoleConsumer
  <2> SUFFICES ASSUME TypeInv, OwnershipInv,
                      NEW r \in Replicas, NEW m \in Messages, Owns(r, m)
               PROVE  lock = r
    BY DEF SoleConsumer
  <2>1. worker[r] \in Delivering
    BY DEF OwnershipInv, ProgressWithinBatch, Owns, InProgress
  <2>2. session[r] = "held"
    BY <2>1 DEF OwnershipInv, BatchHasSession, Owns, TypeInv, TypeOK, SessionStates
  <2> QED
    BY <2>2 DEF OwnershipInv, LockIsSession
<1> QED
  BY <1>1, OwnershipInvariant, TypeInvariant, PTL

-----------------------------------------------------------------------------
LEMMA QueueIsFinite ==
    ASSUME TypeInv
    PROVE  \A r \in Replicas : IsFiniteSet(queue[r]) /\ Cardinality(queue[r]) \in Nat
  BY MessagesAssumption, FS_Subset, FS_CardinalityType DEF TypeInv, TypeOK

(***************************************************************************)
(* A token returned for a message taken off the queue keeps their sum;     *)
(* held is the token in the hand of the consumerWorker.                    *)
(***************************************************************************)
LEMMA TokenForMessage ==
  ASSUME NEW t \in Nat, NEW c \in Nat, NEW d \in Nat, NEW held \in Nat, NEW n \in Nat, d + 1 = c
  PROVE  /\ t + c + held = n => (t + 1) + d + held = n
         /\ t + c <= n => (t + 1) + d <= n
OBVIOUS

LEMMA RemoveOne ==
    ASSUME NEW S, IsFiniteSet(S), NEW x \in S
    PROVE  Cardinality(S \ {x}) + 1 = Cardinality(S)
<1>1. Cardinality(S \ {x}) = Cardinality(S) - 1
  BY FS_RemoveElement, Zenon
<1>2. Cardinality(S) \in Nat
  BY FS_CardinalityType
<1> QED
  BY <1>1, <1>2

LEMMA QueueStep == TypeInv /\ OwnershipInv /\ QueueInv /\ [Next]_vars => QueueInv'
<1> SUFFICES ASSUME TypeInv, OwnershipInv, QueueInv, [Next]_vars
             PROVE  QueueInv'
  OBVIOUS
<1> USE MessagesAssumption, BoundsAssumption
    DEF TypeInv, TypeOK, QueueInv, QueueIsTasks, DeletedStaysDeleted, BatchIsFresh, TokensConserved,
        storageVars, lockVars, workerVars, listenerVars
<1>1. CASE UNCHANGED vars
  BY <1>1 DEF vars
<1>2. ASSUME NEW m \in Messages, Store(m)
      PROVE  QueueInv'
  BY <1>2 DEF Store
<1>3. ASSUME NEW r \in Replicas, WorkerBegin(r)
      PROVE  QueueInv'
  BY <1>3 DEF WorkerBegin
<1>4. ASSUME NEW r \in Replicas, WorkerReturn(r)
      PROVE  QueueInv'
  BY <1>4 DEF WorkerReturn
<1>5. ASSUME NEW r \in Replicas, AcquireLock(r)
      PROVE  QueueInv'
  BY <1>5 DEF AcquireLock
<1>6. ASSUME NEW r \in Replicas, AbandonLock(r)
      PROVE  QueueInv'
  BY <1>6 DEF AbandonLock
<1>7. ASSUME NEW r \in Replicas, Find(r)
      PROVE  QueueInv'
  <2>1. PICK b \in Batches(rows \ processing[r]) :
           /\ batch' = [batch EXCEPT ![r] = b]
           /\ worker' = [worker EXCEPT ![r] = IF b = {} THEN "release" ELSE "send"]
    BY <1>7 DEF Find
  <2>2. /\ worker[r] = "find"
        /\ UNCHANGED <<rows, stored, queue, task, tokens, listener>>
    BY <1>7 DEF Find
  <2>3. b \subseteq rows \ processing[r]
    BY DEF Batches
  <2>4. ASSUME NEW m \in b
        PROVE  task[r][m] = "none"
    <3>1. m \in Messages /\ m \in rows /\ m \notin processing[r]
      BY <2>3
    <3>2. task[r][m] \in TaskStates /\ task[r][m] \notin {"remove", "token"}
      BY <3>1
    <3>3. TaskIsTracked
      BY DEF OwnershipInv
    <3>4. task[r][m] \notin InProgress \union {"left"}
      BY <2>2, <3>1, <3>3 DEF TaskIsTracked
    <3> QED
      BY <3>2, <3>4, Zenon DEF InProgress, TaskStates
  <2>5. batch'[r] = b /\ \A q \in Replicas \ {r} : batch'[q] = batch[q] /\ worker'[q] = worker[q]
    BY <2>1
  <2>6. b # {} => worker'[r] = "send"
    BY <2>1
  <2>7. DeletedStaysDeleted'
    BY <2>2, <2>3, <2>5
  <2>8. ASSUME NEW q \in Replicas, NEW m \in batch'[q]
        PROVE  worker'[q] \in {"send", "add"} /\ task'[q][m] = "none"
    <3>1. CASE q = r
      BY <2>2, <2>4, <2>5, <2>6, <3>1
    <3>2. CASE q # r
      <4>1. batch'[q] = batch[q] /\ worker'[q] = worker[q] /\ task'[q] = task[q]
        BY <2>2, <2>5, <3>2
      <4>2. m \in batch[q]
        BY <4>1
      <4>3. BatchIsFresh
        OBVIOUS
      <4> QED
        BY <4>1, <4>2, <4>3
    <3> QED
      BY <3>1, <3>2
  <2> QED
    BY <2>2, <2>7, <2>8
<1>8. ASSUME NEW r \in Replicas, FindError(r)
      PROVE  QueueInv'
  BY <1>8 DEF FindError
<1>9. ASSUME NEW r \in Replicas, Deliver(r)
      PROVE  QueueInv'
  <2>1. PICK m \in batch[r] : DeliverEffect(r, m)
    BY <1>9, DeliverHasEffect
  <2>2. /\ worker[r] = "send" /\ worker' = [worker EXCEPT ![r] = "add"]
        /\ listener[r] = "receive"
        /\ UNCHANGED <<rows, stored, tokens>>
    BY <1>9 DEF Deliver
  <2>3. m \in Messages /\ m \notin queue[r] /\ task[r][m] = "none"
    BY DEF TypeInv
  <2>4. Cardinality(queue[r]) # MaxProcessed
    BY <2>2, QueueIsFinite
  <2>5. /\ batch' = [batch EXCEPT ![r] = @ \ {m}]
        /\ queue' = [queue EXCEPT ![r] = @ \union {m}]
        /\ task' = [task EXCEPT ![r][m] = IF m \in Unhandled THEN "ack" ELSE "handle"]
        /\ listener' = [listener EXCEPT ![r] = "token"]
    BY <2>1, <2>3, <2>4 DEF DeliverEffect, Accepts
  <2>6. Cardinality(queue[r] \union {m}) = Cardinality(queue[r]) + 1
    BY <2>3, QueueIsFinite, FS_AddElement
  <2>7. TokensConserved'
    BY <2>2, <2>5, <2>6, QueueIsFinite
  <2>8. QueueIsTasks'
    BY <2>3, <2>5
  <2>9. DeletedStaysDeleted'
    BY <2>2, <2>3, <2>5
  <2>10. BatchIsFresh'
    BY <2>2, <2>3, <2>5
  <2> QED
    BY <2>7, <2>8, <2>9, <2>10
<1>10. ASSUME NEW r \in Replicas, AddToProcessing(r)
      PROVE  QueueInv'
  BY <1>10 DEF AddToProcessing
<1>11. ASSUME NEW r \in Replicas, AbandonBatch(r)
      PROVE  QueueInv'
  BY <1>11 DEF AbandonBatch
<1>12. ASSUME NEW r \in Replicas, CheckProcessed(r)
      PROVE  QueueInv'
  BY <1>12 DEF CheckProcessed
<1>13. ASSUME NEW r \in Replicas, EnlistWaiter(r)
      PROVE  QueueInv'
  BY <1>13 DEF EnlistWaiter
<1>14. ASSUME NEW r \in Replicas, ReleaseLock(r)
      PROVE  QueueInv'
  BY <1>14 DEF ReleaseLock, AfterBatch
<1>15. ASSUME NEW r \in Replicas, TakeToken(r)
      PROVE  QueueInv'
  BY <1>15, QueueIsFinite DEF TakeToken
<1>16. ASSUME NEW r \in Replicas, ListenerStop(r)
      PROVE  QueueInv'
  BY <1>16, QueueIsFinite DEF ListenerStop
<1>17. ASSUME NEW r \in Replicas, ListenerReturn(r)
      PROVE  QueueInv'
  BY <1>17 DEF ListenerReturn
<1>18. ASSUME NEW r \in Replicas, Process(r)
      PROVE  QueueInv'
  BY <1>18 DEF Process
<1>19. ASSUME NEW r \in Replicas, Cancel(r)
      PROVE  QueueInv'
  BY <1>19 DEF Cancel
<1>20. ASSUME NEW r \in Replicas, LoseSession(r)
      PROVE  QueueInv'
  BY <1>20 DEF LoseSession
<1>21. ASSUME NEW r \in Replicas, Crash(r)
      PROVE  QueueInv'
  BY <1>21, FS_EmptySet DEF Crash, Vanish, NoTask
<1>22. ASSUME NEW r \in Replicas, Exit(r)
      PROVE  QueueInv'
  BY <1>22, FS_EmptySet DEF Exit, Vanish, NoTask
<1>23. ASSUME NEW r \in Replicas, Restart(r)
      PROVE  QueueInv'
  BY <1>23 DEF Restart
<1>24. ASSUME NEW r \in Replicas, NEW m \in Messages, Handle(r, m)
      PROVE  QueueInv'
  BY <1>24 DEF Handle
<1>25. ASSUME NEW r \in Replicas, NEW m \in Messages, Leave(r, m)
      PROVE  QueueInv'
  BY <1>25 DEF Leave
<1>26. ASSUME NEW r \in Replicas, NEW m \in Messages, DeleteRow(r, m)
      PROVE  QueueInv'
  BY <1>26 DEF DeleteRow
<1>27. ASSUME NEW r \in Replicas, NEW m \in Messages, DeleteRowUnconfirmed(r, m)
      PROVE  QueueInv'
  BY <1>27 DEF DeleteRowUnconfirmed
<1>28. ASSUME NEW r \in Replicas, NEW m \in Messages, RemoveFromProcessing(r, m)
      PROVE  QueueInv'
  BY <1>28 DEF RemoveFromProcessing
<1>29. ASSUME NEW r \in Replicas, NEW m \in Messages, ReturnToken(r, m)
      PROVE  QueueInv'
  <2>1. /\ task[r][m] = "token"
        /\ queue' = [queue EXCEPT ![r] = @ \ {m}]
        /\ tokens' = [tokens EXCEPT ![r] = @ + 1]
        /\ task' = [task EXCEPT ![r][m] = "none"]
        /\ UNCHANGED <<rows, stored, batch, worker, listener>>
    BY <1>29 DEF ReturnToken
  <2>2. m \in queue[r] /\ IsFiniteSet(queue[r])
    BY <2>1, QueueIsFinite
  <2>3. Cardinality(queue'[r]) + 1 = Cardinality(queue[r]) /\ Cardinality(queue'[r]) \in Nat
    <3>1. queue'[r] = queue[r] \ {m}
      BY <2>1
    <3>2. IsFiniteSet(queue'[r])
      BY <2>2, <3>1, FS_Subset
    <3> QED
      BY <2>2, <3>1, <3>2, RemoveOne, FS_CardinalityType
  <2>4. ASSUME NEW q \in Replicas
        PROVE  IF listener'[q] \in {"token", "receive"}
               THEN tokens'[q] + Cardinality(queue'[q]) + (IF listener'[q] = "receive" THEN 1 ELSE 0)
                       = MaxProcessed
               ELSE tokens'[q] + Cardinality(queue'[q]) <= MaxProcessed
    <3>1. CASE q = r
      <4>1. tokens'[r] = tokens[r] + 1 /\ listener'[r] = listener[r]
        BY <2>1
      <4>2. /\ tokens[r] \in Nat /\ MaxProcessed \in Nat
            /\ IF listener[r] \in {"token", "receive"}
               THEN tokens[r] + Cardinality(queue[r]) + (IF listener[r] = "receive" THEN 1 ELSE 0)
                       = MaxProcessed
               ELSE tokens[r] + Cardinality(queue[r]) <= MaxProcessed
        OBVIOUS
      <4>3. Cardinality(queue[r]) \in Nat
        BY <2>2, FS_CardinalityType
      <4> DEFINE held == IF listener[r] = "receive" THEN 1 ELSE 0
      <4>4. held \in Nat
        OBVIOUS
      <4> HIDE DEF held
      <4>5. /\ tokens[r] + Cardinality(queue[r]) + held = MaxProcessed
               => (tokens[r] + 1) + Cardinality(queue'[r]) + held = MaxProcessed
            /\ tokens[r] + Cardinality(queue[r]) <= MaxProcessed
               => (tokens[r] + 1) + Cardinality(queue'[r]) <= MaxProcessed
        BY <2>3, <4>2, <4>3, <4>4, TokenForMessage, Zenon
      <4> QED
        BY <3>1, <4>1, <4>2, <4>5, Zenon DEF held
    <3>2. CASE q # r
      <4>1. tokens'[q] = tokens[q] /\ listener'[q] = listener[q] /\ queue'[q] = queue[q]
        BY <2>1, <3>2
      <4> QED
        BY <4>1
    <3> QED
      BY <3>1, <3>2
  <2>5. QueueIsTasks' /\ DeletedStaysDeleted' /\ BatchIsFresh'
    BY <2>1
  <2> QED
    BY <2>4, <2>5
<1> QED
  BY <1>1, <1>2, <1>3, <1>4, <1>5, <1>6, <1>7, <1>8, <1>9, <1>10, <1>11, <1>12, <1>13, <1>14, <1>15, <1>16, <1>17, <1>18, <1>19, <1>20, <1>21, <1>22, <1>23, <1>24, <1>25, <1>26, <1>27, <1>28, <1>29
     DEF Next, WorkerStep, ListenerStep, ProcessStep, TaskStep

LEMMA QueueInvariant == Spec => []QueueInv
<1>1. Init => QueueInv
  BY BoundsAssumption, FS_EmptySet
     DEF Init, QueueInv, QueueIsTasks, DeletedStaysDeleted, BatchIsFresh, TokensConserved, NoTask
<1> QED
  BY <1>1, QueueStep, TypeInvariant, OwnershipInvariant, PTL DEF Spec

(***************************************************************************)
(* The processing tokens are conserved, so at most MaxProcessedMessages    *)
(* messages are processed at once and giving a token back never blocks     *)
(* while the queue's mutex is held.                                        *)
(***************************************************************************)
THEOREM TokenConservation == Spec => []TokensConserved
  BY QueueInvariant, PTL DEF QueueInv

(***************************************************************************)
(* A replica never has two goroutines for one message: a message whose     *)
(* goroutine was started is not found again before its row is deleted and  *)
(* its entry is gone, not even after a shutdown has left it behind.        *)
(* Nothing in AddProcessing would refuse the second copy.                  *)
(***************************************************************************)
THEOREM NoSecondCopy == Spec => []OneCopyPerReplica
<1>1. QueueInv => OneCopyPerReplica
  BY DEF QueueInv, QueueIsTasks, BatchIsFresh, OneCopyPerReplica
<1> QED
  BY <1>1, QueueInvariant, PTL

-----------------------------------------------------------------------------
(***************************************************************************)
(* The listener over the storage consumer implements at-least-once         *)
(* delivery: of all its steps only the commit of a row, the success of the *)
(* handlers and the deletion of the row are visible to a producer, and     *)
(* they happen in an order the promise allows.                             *)
(***************************************************************************)
THEOREM ImplementsAtLeastOnce == Spec => DeliversAtLeastOnce
<1>1. Init => Abstract!Init
  BY DEF Init, Abstract!Init
<1>2. TypeInv /\ HandledInv /\ QueueInv /\ [Next]_vars => [Abstract!Next]_(Abstract!vars)
  <2> SUFFICES ASSUME TypeInv, HandledInv, QueueInv, [Next]_vars
               PROVE  Abstract!Next \/ UNCHANGED <<stored, rows, handled>>
    BY DEF Abstract!vars
  <2> USE DEF storageVars, listenerVars
  <2>1. CASE UNCHANGED vars
    BY <2>1 DEF vars
  <2>2. ASSUME NEW m \in Messages, Store(m)
        PROVE  Abstract!Next
    BY <2>2 DEF Store, Abstract!Next, Abstract!Submit
  <2>3. ASSUME NEW r \in Replicas, QuietStep(r) \/ Deliver(r) \/ Crash(r) \/ Exit(r)
        PROVE  UNCHANGED <<stored, rows, handled>>
    BY <2>3, QuietStepLeavesTasks DEF Deliver, Crash, Exit, Vanish
  <2>4. ASSUME NEW r \in Replicas, NEW m \in Messages, Handle(r, m)
        PROVE  Abstract!Deliver(m)
    BY <2>4 DEF Handle, Abstract!Deliver, QueueInv, DeletedStaysDeleted
  <2>5. ASSUME NEW r \in Replicas, NEW m \in Messages,
               DeleteRow(r, m) \/ DeleteRowUnconfirmed(r, m)
        PROVE  Abstract!Forget(m) \/ UNCHANGED <<stored, rows, handled>>
    <3>1. task[r][m] = "ack" /\ rows' = rows \ {m} /\ UNCHANGED <<stored, handled>>
      BY <2>5 DEF DeleteRow, DeleteRowUnconfirmed
    <3>2. m \in Unhandled \/ handled[m] > 0
      BY <3>1 DEF HandledInv, AcknowledgedWasHandled
    <3> QED
      BY <3>1, <3>2 DEF Abstract!Forget
  <2>6. ASSUME NEW r \in Replicas, NEW m \in Messages,
               Leave(r, m) \/ RemoveFromProcessing(r, m) \/ ReturnToken(r, m)
        PROVE  UNCHANGED <<stored, rows, handled>>
    BY <2>6 DEF Leave, RemoveFromProcessing, ReturnToken
  <2> QED
    BY <2>1, <2>2, <2>3, <2>4, <2>5, <2>6, NextSteps DEF TaskStep, Abstract!Next
<1> QED
  BY <1>1, <1>2, TypeInvariant, HandledInvariant, QueueInvariant, PTL
     DEF Spec, DeliversAtLeastOnce, Abstract!Spec

-----------------------------------------------------------------------------
(***************************************************************************)
(* Redelivery.  Every run of a message's handlers that was made or may     *)
(* still be made is paid for by the first one or by a fault: one for each  *)
(* replica that has the message in its batch or handles it, one if the row *)
(* can be found by the next holder of the lock, and one for each cancelled *)
(* replica that may still give its lock back in the middle of a batch.     *)
(***************************************************************************)
InBatch == Delivering \union {"find", "release"}

Due(r, m) == m \in batch[r] \/ task[r][m] = "handle"
Guards(r, m) == session[r] = "held" /\ (m \in batch[r] \/ task[r][m] \in {"handle", "ack", "left"})
Open(m) == (m \in rows \/ m \notin stored) /\ \A r \in Replicas : ~Guards(r, m)
Stops(r) == proc[r] = "stop" /\ worker[r] \in InBatch \union {"lock"}

DueTo(m) == {r \in Replicas : Due(r, m)}
Stopping == {r \in Replicas : Stops(r)}
One(P) == IF P THEN 1 ELSE 0

RunsArePaid(m) ==
    /\ IsFiniteSet(DueTo(m)) /\ IsFiniteSet(Stopping)
    /\ handled[m] + Cardinality(DueTo(m)) + One(Open(m)) + Cardinality(Stopping) <= 1 + faults

(* The lock is held only within a batch, and only a cancelled process      *)
(* winds up its jobs or leaves messages behind.                            *)
WindsUpInOrder(r) ==
    /\ session[r] = "held" => worker[r] \in InBatch
    /\ listener[r] \in {"exit", "done"} => proc[r] = "stop"
    /\ worker[r] = "done" => proc[r] = "stop"
    /\ proc[r] = "down" => listener[r] = "token"
    /\ \A m \in Messages : task[r][m] = "left" => proc[r] = "stop"

PipelineInv == TypeInv /\ OwnershipInv /\ QueueInv
RedeliveryInv == PipelineInv /\ (\A r \in Replicas : WindsUpInOrder(r)) /\ \A m \in Messages : RunsArePaid(m)

LEMMA OneChanges ==
    ASSUME NEW S, NEW T, NEW x, IsFiniteSet(S), T \ {x} = S \ {x}
    PROVE  /\ IsFiniteSet(T) /\ Cardinality(S) \in Nat /\ Cardinality(T) \in Nat
           /\ Cardinality(T) - One(x \in T) = Cardinality(S) - One(x \in S)
<1>1. IsFiniteSet(S \ {x}) /\ Cardinality(S \ {x}) = IF x \in S THEN Cardinality(S) - 1 ELSE Cardinality(S)
  BY FS_RemoveElement
<1> DEFINE U == T \ {x}
<1>2. IsFiniteSet(U) /\ x \notin U /\ Cardinality(U) = Cardinality(S \ {x})
  BY <1>1
<1>3. T = IF x \in T THEN U \cup {x} ELSE U
  OBVIOUS
<1> HIDE DEF U
<1>4. IsFiniteSet(U \cup {x}) /\ Cardinality(U \cup {x}) = Cardinality(U) + 1
  BY <1>2, FS_AddElement
<1>5. IsFiniteSet(T) /\ Cardinality(T) = IF x \in T THEN Cardinality(U) + 1 ELSE Cardinality(U)
  <2>1. CASE x \in T
    BY <1>3, <1>4, <2>1
  <2>2. CASE x \notin T
    BY <1>2, <1>3, <2>2
  <2> QED
    BY <2>1, <2>2
<1>6. Cardinality(S) \in Nat /\ Cardinality(T) \in Nat /\ Cardinality(U) \in Nat
  BY <1>2, <1>5, FS_CardinalityType
<1> QED
  BY <1>1, <1>2, <1>5, <1>6 DEF One

Others(r) ==
    \A q \in Replicas : q # r => UNCHANGED <<worker[q], batch[q], task[q], proc[q], session[q]>>

(* A step of one replica is paid for if what it may add for this message   *)
(* is not more than the faults it costs.                                   *)
LEMMA StepIsPaid ==
    ASSUME RedeliveryInv, TypeInv', NEW r \in Replicas, NEW m \in Messages, Others(r),
           handled'[m] + One(Due(r, m)') + One(Open(m)') + One(Stops(r)') + faults
               <= handled[m] + One(Due(r, m)) + One(Open(m)) + One(Stops(r)) + faults'
    PROVE  RunsArePaid(m)'
<1>1. /\ IsFiniteSet(DueTo(m)) /\ IsFiniteSet(Stopping)
      /\ handled[m] + Cardinality(DueTo(m)) + One(Open(m)) + Cardinality(Stopping) <= 1 + faults
  BY DEF RedeliveryInv, RunsArePaid
<1>2. DueTo(m)' \ {r} = DueTo(m) \ {r}
  BY DEF DueTo, Due, Others
<1>3. Stopping' \ {r} = Stopping \ {r}
  BY DEF Stopping, Stops, Others
<1>4. /\ IsFiniteSet(DueTo(m)') /\ Cardinality(DueTo(m)) \in Nat /\ Cardinality(DueTo(m)') \in Nat
      /\ Cardinality(DueTo(m)') - One(r \in DueTo(m)') = Cardinality(DueTo(m)) - One(r \in DueTo(m))
  BY <1>1, <1>2, OneChanges
<1>5. /\ IsFiniteSet(Stopping') /\ Cardinality(Stopping) \in Nat /\ Cardinality(Stopping') \in Nat
      /\ Cardinality(Stopping') - One(r \in Stopping') = Cardinality(Stopping) - One(r \in Stopping)
  BY <1>1, <1>3, OneChanges
<1>6. /\ One(r \in DueTo(m)') = One(Due(r, m)') /\ One(r \in DueTo(m)) = One(Due(r, m))
      /\ One(r \in Stopping') = One(Stops(r)') /\ One(r \in Stopping) = One(Stops(r))
  BY DEF DueTo, Stopping, Due, Stops, One
<1>7. /\ handled[m] \in Nat /\ handled'[m] \in Nat /\ faults \in Nat /\ faults' \in Nat
      /\ One(Due(r, m)) \in Nat /\ One(Due(r, m)') \in Nat /\ One(Stops(r)) \in Nat /\ One(Stops(r)') \in Nat
      /\ One(Open(m)) \in Nat /\ One(Open(m)') \in Nat
  BY DEF RedeliveryInv, PipelineInv, TypeInv, TypeOK, One
<1>8. handled'[m] + Cardinality(DueTo(m)') + One(Open(m)') + Cardinality(Stopping') <= 1 + faults'
  BY <1>1, <1>4, <1>5, <1>6, <1>7
<1> QED
  BY <1>4, <1>5, <1>8 DEF RunsArePaid

(* A step that makes no message due: a row can be found again only instead *)
(* of being due, or for a fault, or when a cancelled replica has given the *)
(* lock back.                                                              *)
LEMMA NothingDue ==
    ASSUME RedeliveryInv, TypeInv', NEW r \in Replicas, NEW m \in Messages, Others(r),
           handled'[m] = handled[m], faults <= faults', Due(r, m)' => Due(r, m),
           Open(m)' => \/ Open(m) \/ faults' = faults + 1
                       \/ Due(r, m) /\ ~Due(r, m)'
                       \/ Stops(r) /\ ~Stops(r)',
           Stops(r)' => Stops(r) \/ (faults' = faults + 1 /\ (Open(m)' => Open(m)))
    PROVE  RunsArePaid(m)'
<1>1. handled[m] \in Nat /\ faults \in Nat /\ faults' \in Nat
  BY DEF RedeliveryInv, PipelineInv, TypeInv, TypeOK
<1>2. /\ One(Due(r, m)) \in Nat /\ One(Due(r, m)') \in Nat /\ One(Stops(r)) \in Nat /\ One(Stops(r)') \in Nat
      /\ One(Open(m)) \in Nat /\ One(Open(m)') \in Nat
  BY DEF One
<1>3. One(Due(r, m)') + One(Open(m)') + One(Stops(r)') + faults
          <= One(Due(r, m)) + One(Open(m)) + One(Stops(r)) + faults'
  <2>1. One(Due(r, m)') <= One(Due(r, m))
    BY DEF One
  <2>2. CASE Stops(r)' /\ ~Stops(r)
    <3>1. faults' = faults + 1 /\ One(Stops(r)') = 1 /\ One(Stops(r)) = 0
      BY <2>2 DEF One
    <3>2. One(Open(m)') <= One(Open(m))
      BY <2>2 DEF One
    <3> QED
      BY <1>1, <1>2, <2>1, <3>1, <3>2
  <2>3. CASE ~(Stops(r)' /\ ~Stops(r))
    <3>1. One(Stops(r)') <= One(Stops(r))
      BY <2>3 DEF One
    <3>2. CASE Open(m)' /\ ~Open(m)
      <4>1. One(Open(m)') = 1 /\ One(Open(m)) = 0
        BY <3>2 DEF One
      <4>2. \/ faults' = faults + 1
            \/ One(Due(r, m)') = 0 /\ One(Due(r, m)) = 1
            \/ One(Stops(r)') = 0 /\ One(Stops(r)) = 1
        BY <3>2 DEF One
      <4> QED
        BY <1>1, <1>2, <2>1, <3>1, <4>1, <4>2
    <3>3. CASE ~(Open(m)' /\ ~Open(m))
      <4>1. One(Open(m)') <= One(Open(m))
        BY <3>3 DEF One
      <4> QED
        BY <1>1, <1>2, <2>1, <3>1, <4>1
    <3> QED
      BY <3>2, <3>3
  <2> QED
    BY <2>2, <2>3
<1>4. handled'[m] + One(Due(r, m)') + One(Open(m)') + One(Stops(r)') + faults
          <= handled[m] + One(Due(r, m)) + One(Open(m)) + One(Stops(r)) + faults'
  BY <1>1, <1>2, <1>3
<1> QED
  BY <1>4, StepIsPaid

LEMMA OpenKept ==
    ASSUME NEW r \in Replicas, NEW m \in Messages, Others(r), rows' \subseteq rows, stored' = stored
    PROVE  Open(m)' => Open(m) \/ (Guards(r, m) /\ ~Guards(r, m)')
  BY DEF Open, Guards, Others

(* The hand-over is always accepted, so the consumerWorker goes on.        *)
LEMMA DeliverIsAccepted ==
    ASSUME PipelineInv, NEW r \in Replicas, Deliver(r)
    PROVE  \E m \in batch[r] :
              /\ m \in Messages /\ task[r][m] = "none" /\ worker[r] = "send"
              /\ batch' = [batch EXCEPT ![r] = @ \ {m}]
              /\ task' = [task EXCEPT ![r][m] = IF m \in Unhandled THEN "ack" ELSE "handle"]
              /\ listener' = [listener EXCEPT ![r] = "token"]
              /\ worker' = [worker EXCEPT ![r] = "add"]
              /\ UNCHANGED <<rows, stored, handled, session, lock, proc, faults>>
<1>1. PICK m \in batch[r] : DeliverEffect(r, m)
  BY DeliverHasEffect
<1>2. m \in Messages /\ task[r][m] = "none"
  BY DEF PipelineInv, TypeInv, TypeOK, QueueInv, BatchIsFresh
<1>3. listener[r] = "receive" /\ worker[r] = "send" /\ worker' = [worker EXCEPT ![r] = "add"]
      /\ UNCHANGED <<rows, stored, handled, session, lock, proc, faults>>
  BY DEF Deliver, storageVars, lockVars
<1>4. Accepts(r)
  <2>1. tokens[r] + Cardinality(queue[r]) + 1 = MaxProcessed
    BY <1>3 DEF PipelineInv, QueueInv, TokensConserved
  <2>2. tokens[r] \in Nat /\ Cardinality(queue[r]) \in Nat
    BY QueueIsFinite DEF PipelineInv, TypeInv, TypeOK
  <2> QED
    BY <2>1, <2>2, BoundsAssumption DEF Accepts
<1> QED
  BY <1>1, <1>2, <1>3, <1>4 DEF DeliverEffect

LEMMA WindUpStep ==
    ASSUME RedeliveryInv, TypeInv', [Next]_vars
    PROVE  \A r \in Replicas : WindsUpInOrder(r)'
<1>0. TypeOK /\ OwnershipInv /\ \A r \in Replicas : WindsUpInOrder(r)
  BY DEF RedeliveryInv, PipelineInv, TypeInv
<1> USE <1>0 DEF TypeOK, WindsUpInOrder, InBatch, Delivering, storageVars, lockVars, workerVars, listenerVars
<1>1. CASE UNCHANGED vars \/ \E m \in Messages : Store(m)
  BY <1>1 DEF vars, Store
<1>2. ASSUME NEW r \in Replicas, Deliver(r)
      PROVE  \A q \in Replicas : WindsUpInOrder(q)'
  <2>1. PICK m \in batch[r] :
              /\ m \in Messages /\ worker[r] = "send"
              /\ task' = [task EXCEPT ![r][m] = IF m \in Unhandled THEN "ack" ELSE "handle"]
              /\ listener' = [listener EXCEPT ![r] = "token"]
              /\ worker' = [worker EXCEPT ![r] = "add"]
              /\ UNCHANGED <<session, proc>>
    BY <1>2, DeliverIsAccepted DEF RedeliveryInv
  <2>2. \A q \in Replicas, n \in Messages : task'[q][n] = "left" => task[q][n] = "left"
    BY <2>1
  <2> QED
    BY <2>1, <2>2
<1>3. ASSUME NEW r \in Replicas, Vanish(r)
      PROVE  \A q \in Replicas : WindsUpInOrder(q)'
  BY <1>3 DEF Vanish, NoTask
<1>4. ASSUME NEW r \in Replicas, WorkerBegin(r) \/ WorkerReturn(r) \/ AcquireLock(r) \/ AbandonLock(r)
      PROVE  \A q \in Replicas : WindsUpInOrder(q)'
  BY <1>4 DEF WorkerBegin, WorkerReturn, AcquireLock, AbandonLock, OwnershipInv, LockIsSession
<1>5. ASSUME NEW r \in Replicas, Find(r) \/ FindError(r) \/ AddToProcessing(r) \/ AbandonBatch(r)
      PROVE  \A q \in Replicas : WindsUpInOrder(q)'
  BY <1>5 DEF Find, FindError, AddToProcessing, AbandonBatch
<1>6. ASSUME NEW r \in Replicas, CheckProcessed(r) \/ EnlistWaiter(r) \/ ReleaseLock(r)
      PROVE  \A q \in Replicas : WindsUpInOrder(q)'
  BY <1>6 DEF CheckProcessed, EnlistWaiter, ReleaseLock, AfterBatch
<1>7. ASSUME NEW r \in Replicas, TakeToken(r) \/ ListenerStop(r) \/ ListenerReturn(r)
      PROVE  \A q \in Replicas : WindsUpInOrder(q)'
  BY <1>7 DEF TakeToken, ListenerStop, ListenerReturn
<1>8. ASSUME NEW r \in Replicas, Process(r) \/ Cancel(r) \/ LoseSession(r) \/ Restart(r)
      PROVE  \A q \in Replicas : WindsUpInOrder(q)'
  BY <1>8 DEF Process, Cancel, LoseSession, Restart
<1>9. ASSUME NEW r \in Replicas, NEW m \in Messages, TaskStep(r, m)
      PROVE  \A q \in Replicas : WindsUpInOrder(q)'
  <2>1. CASE Handle(r, m)
    BY <2>1 DEF Handle
  <2>4. CASE Leave(r, m)
    BY <2>4 DEF Leave
  <2>2. CASE DeleteRow(r, m) \/ DeleteRowUnconfirmed(r, m) \/ ReturnToken(r, m)
    BY <2>2 DEF DeleteRow, DeleteRowUnconfirmed, ReturnToken
  <2>3. CASE RemoveFromProcessing(r, m)
    BY <2>3 DEF RemoveFromProcessing
  <2> QED
    BY <1>9, <2>1, <2>2, <2>3, <2>4 DEF TaskStep
<1> QED
  BY <1>1, <1>2, <1>3, <1>4, <1>5, <1>6, <1>7, <1>8, <1>9, NextSteps DEF QuietStep, Crash, Exit

(* The steps that change neither a batch nor a goroutine.                  *)
LEMMA QuietIsPaid ==
    ASSUME RedeliveryInv, TypeInv', NEW r \in Replicas, NEW m \in Messages, QuietStep(r), ~Find(r), ~AbandonBatch(r)
    PROVE  RunsArePaid(m)'
<1>0. TypeOK /\ OwnershipInv /\ WindsUpInOrder(r) /\ BatchIsFresh
  BY DEF RedeliveryInv, PipelineInv, TypeInv, QueueInv
<1>1. UNCHANGED <<rows, stored, handled, task>>
  BY QuietStepLeavesTasks
<1>2. faults' = faults \/ faults' = faults + 1
  BY DEF QuietStep, WorkerBegin, WorkerReturn, AcquireLock, AbandonLock, FindError,
         AddToProcessing, CheckProcessed, EnlistWaiter, ReleaseLock, TakeToken,
         ListenerStop, ListenerReturn, Process, Cancel, LoseSession, Restart, Fault
<1>3. UNCHANGED batch
  BY DEF QuietStep, WorkerBegin, WorkerReturn, AcquireLock, AbandonLock, FindError,
         AddToProcessing, CheckProcessed, EnlistWaiter, ReleaseLock, TakeToken,
         ListenerStop, ListenerReturn, Process, Cancel, LoseSession, Restart, workerVars
<1>4. Others(r)
  <2>1. \A q \in Replicas : q # r => UNCHANGED <<worker[q], proc[q], session[q]>>
    BY <1>0 DEF QuietStep, WorkerBegin, WorkerReturn, AcquireLock, AbandonLock, FindError,
         AddToProcessing, CheckProcessed, EnlistWaiter, ReleaseLock, TakeToken,
         ListenerStop, ListenerReturn, Process, Cancel, LoseSession, Restart, workerVars, lockVars, TypeOK
  <2> QED
    BY <1>1, <1>3, <2>1 DEF Others
<1>5. Due(r, m)' <=> Due(r, m)
  BY <1>1, <1>3 DEF Due
<1>6. Open(m)' => Open(m) \/ (Guards(r, m) /\ ~Guards(r, m)')
  BY <1>1, <1>4, OpenKept
<1>7. Guards(r, m) /\ ~Guards(r, m)' => session[r] = "held" /\ session'[r] # "held"
  BY <1>1, <1>3 DEF Guards
<1>8. faults <= faults'
  BY <1>0, <1>2 DEF TypeOK
<1>9. CASE ReleaseLock(r)
  <2>1. worker[r] = "release" /\ proc'[r] = proc[r] /\ (proc[r] # "run" => worker'[r] = "idle")
        /\ worker'[r] \in {"lock", "idle"}
    BY <1>0, <1>9 DEF ReleaseLock, AfterBatch, TypeOK
  <2>2. proc[r] = "run" => ~Guards(r, m)
    BY <1>0, <2>1 DEF OwnershipInv, ProgressWithinBatch, InProgress, Delivering, WindsUpInOrder, BatchIsFresh, Guards
  <2>3. proc[r] \in {"run", "stop"}
    BY <1>0, <2>1 DEF OwnershipInv, DownIsIdle, TypeOK, ProcStates
  <2>4. proc[r] = "stop" => Stops(r) /\ ~Stops(r)'
    BY <2>1 DEF Stops, InBatch, Delivering
  <2>5. Stops(r)' => Stops(r)
    BY <2>1, <2>3 DEF Stops, InBatch, Delivering
  <2>6. handled'[m] = handled[m]
    BY <1>1
  <2> QED
    BY <1>4, <1>5, <1>6, <1>8, <2>2, <2>3, <2>4, <2>5, <2>6, NothingDue
<1>10. CASE Cancel(r) \/ LoseSession(r)
  <2>1. faults' = faults + 1
    BY <1>10 DEF Cancel, LoseSession, Fault
  <2>2. Cancel(r) => session'[r] = session[r]
    BY DEF Cancel, lockVars
  <2>3. LoseSession(r) => (Stops(r)' <=> Stops(r))
    BY DEF LoseSession, workerVars, Stops
  <2>4. handled'[m] = handled[m]
    BY <1>1
  <2>5. Stops(r)' => Stops(r) \/ (faults' = faults + 1 /\ (Open(m)' => Open(m)))
    BY <1>6, <1>7, <1>10, <2>1, <2>2, <2>3
  <2> QED
    BY <1>4, <1>5, <1>8, <2>1, <2>4, <2>5, NothingDue
<1>11. CASE ~(ReleaseLock(r) \/ Cancel(r) \/ LoseSession(r))
  <2>1. session[r] = "held" => session'[r] = "held"
    BY <1>0, <1>11 DEF QuietStep, WorkerBegin, WorkerReturn, AcquireLock, AbandonLock, FindError,
         AddToProcessing, CheckProcessed, EnlistWaiter, TakeToken,
         ListenerStop, ListenerReturn, Process, Restart, lockVars, TypeOK
  <2>2. Stops(r)' => Stops(r)
    <3>1. CASE WorkerBegin(r) \/ WorkerReturn(r) \/ AcquireLock(r) \/ AbandonLock(r) \/ FindError(r)
      BY <1>0, <3>1 DEF WorkerBegin, WorkerReturn, AcquireLock, AbandonLock, FindError, Stops, InBatch, Delivering, TypeOK
    <3>2. CASE AddToProcessing(r) \/ CheckProcessed(r) \/ EnlistWaiter(r)
      BY <1>0, <3>2 DEF AddToProcessing, CheckProcessed, EnlistWaiter, Stops, InBatch, Delivering, TypeOK
    <3>3. CASE TakeToken(r) \/ ListenerStop(r) \/ ListenerReturn(r) \/ Process(r) \/ Restart(r)
      BY <1>0, <3>3 DEF TakeToken, ListenerStop, ListenerReturn, Process, Restart, Stops, WindsUpInOrder, workerVars, TypeOK
    <3> QED
      BY <1>11, <3>1, <3>2, <3>3 DEF QuietStep
  <2>3. handled'[m] = handled[m]
    BY <1>1
  <2> QED
    BY <1>4, <1>5, <1>6, <1>7, <1>8, <2>1, <2>2, <2>3, NothingDue
<1> QED
  BY <1>9, <1>10, <1>11

LEMMA AbandonIsPaid ==
    ASSUME RedeliveryInv, TypeInv', NEW r \in Replicas, NEW m \in Messages, AbandonBatch(r)
    PROVE  RunsArePaid(m)'
<1>0. TypeOK /\ BatchIsFresh
  BY DEF RedeliveryInv, PipelineInv, TypeInv, QueueInv
<1>1. /\ batch'[r] = {} /\ worker[r] = "send" /\ worker'[r] = "release"
      /\ UNCHANGED <<rows, stored, handled, session, proc, task, faults>> /\ Others(r)
  BY <1>0 DEF AbandonBatch, storageVars, lockVars, listenerVars, TypeOK, Others
<1>2. m \in batch[r] => task[r][m] = "none"
  BY <1>0 DEF BatchIsFresh
<1>3. Open(m)' => Open(m) \/ (Guards(r, m) /\ ~Guards(r, m)')
  BY <1>1, OpenKept
<1>4. Guards(r, m) /\ ~Guards(r, m)' => Due(r, m) /\ ~Due(r, m)'
  BY <1>1, <1>2 DEF Guards, Due
<1>5. (Due(r, m)' => Due(r, m)) /\ (Stops(r)' => Stops(r))
  BY <1>1 DEF Due, Stops, InBatch, Delivering
<1>6. handled'[m] = handled[m] /\ faults <= faults'
  BY <1>0, <1>1 DEF TypeOK
<1> QED
  BY <1>1, <1>3, <1>4, <1>5, <1>6, NothingDue

LEMMA VanishIsPaid ==
    ASSUME RedeliveryInv, TypeInv', NEW r \in Replicas, NEW m \in Messages, Crash(r) \/ Exit(r)
    PROVE  RunsArePaid(m)'
<1>0. TypeOK /\ WindsUpInOrder(r)
  BY DEF RedeliveryInv, PipelineInv, TypeInv
<1>1. /\ batch'[r] = {} /\ task'[r] = NoTask /\ worker'[r] = "idle"
      /\ UNCHANGED <<rows, stored, handled>> /\ Others(r)
  BY <1>0 DEF Crash, Exit, Vanish, storageVars, TypeOK, Others
<1>2. ~Due(r, m)' /\ ~Stops(r)'
  BY <1>1 DEF Due, Stops, InBatch, Delivering, NoTask
<1>3. Open(m)' => Open(m) \/ (Guards(r, m) /\ ~Guards(r, m)')
  BY <1>1, OpenKept
<1>4. faults' = faults + 1 \/ (faults' = faults /\ ~Guards(r, m))
  BY <1>0 DEF Crash, Exit, Fault, WindsUpInOrder, InBatch, Delivering, Guards
<1>5. handled'[m] = handled[m] /\ faults <= faults'
  BY <1>0, <1>1, <1>4 DEF TypeOK
<1> QED
  BY <1>1, <1>2, <1>3, <1>4, <1>5, NothingDue

LEMMA DeliverIsPaid ==
    ASSUME RedeliveryInv, TypeInv', NEW r \in Replicas, NEW m \in Messages, Deliver(r)
    PROVE  RunsArePaid(m)'
<1>0. TypeOK /\ PipelineInv
  BY DEF RedeliveryInv, PipelineInv, TypeInv
<1>1. PICK n \in batch[r] :
              /\ n \in Messages /\ task[r][n] = "none" /\ worker[r] = "send"
              /\ batch' = [batch EXCEPT ![r] = @ \ {n}]
              /\ task' = [task EXCEPT ![r][n] = IF n \in Unhandled THEN "ack" ELSE "handle"]
              /\ worker' = [worker EXCEPT ![r] = "add"]
              /\ UNCHANGED <<rows, stored, handled, session, proc, faults>>
  BY <1>0, DeliverIsAccepted
<1>2. /\ batch'[r] = batch[r] \ {n} /\ worker'[r] = "add" /\ Others(r)
      /\ m # n => task'[r][m] = task[r][m]
      /\ task'[r][n] \in {"ack", "handle"}
  BY <1>0, <1>1 DEF TypeOK, Others
<1>3. Due(r, m)' => Due(r, m)
  BY <1>1, <1>2 DEF Due
<1>4. Guards(r, m) => Guards(r, m)'
  BY <1>1, <1>2 DEF Guards
<1>5. Open(m)' => Open(m)
  BY <1>1, <1>2, <1>4, OpenKept
<1>6. Stops(r)' => Stops(r)
  BY <1>1 DEF Stops, InBatch, Delivering
<1>7. handled'[m] = handled[m] /\ faults <= faults'
  BY <1>0, <1>1 DEF TypeOK
<1> QED
  BY <1>2, <1>3, <1>5, <1>6, <1>7, NothingDue

(* A row that is found was open: nobody else holds the lock, and what the  *)
(* replica itself still works on is in its processing set.                 *)
LEMMA FindIsPaid ==
    ASSUME RedeliveryInv, TypeInv', NEW r \in Replicas, NEW m \in Messages, Find(r)
    PROVE  RunsArePaid(m)'
<1>0. TypeOK /\ OwnershipInv /\ BatchIsFresh
  BY DEF RedeliveryInv, PipelineInv, TypeInv, QueueInv
<1>1. PICK b \in Batches(rows \ processing[r]) : batch' = [batch EXCEPT ![r] = b]
  BY DEF Find
<1>2. /\ worker[r] = "find" /\ session[r] = "held" /\ worker'[r] \in {"release", "send"}
      /\ UNCHANGED <<rows, stored, handled, session, proc, task, faults>>
      /\ batch'[r] = b /\ b \subseteq rows \ processing[r] /\ Others(r)
  BY <1>0, <1>1 DEF Find, Batches, storageVars, lockVars, listenerVars, TypeOK, Others
<1>3. batch[r] = {}
  BY <1>0, <1>2 DEF BatchIsFresh
<1>4. \A q \in Replicas : q # r => session[q] # "held"
  BY <1>0, <1>2 DEF OwnershipInv, LockIsSession
<1>5. m \in b => task[r][m] \notin {"handle", "ack", "left"}
  BY <1>0, <1>2 DEF OwnershipInv, TaskIsTracked, InProgress
<1>6. CASE m \in b
  <2>1. Open(m) /\ ~Open(m)'
    BY <1>2, <1>3, <1>4, <1>5, <1>6 DEF Open, Guards
  <2>2. ~Due(r, m) /\ Due(r, m)'
    BY <1>2, <1>3, <1>5, <1>6 DEF Due
  <2>3. Stops(r)' => Stops(r)
    BY <1>2 DEF Stops, InBatch, Delivering
  <2>4. /\ One(Open(m)) = 1 /\ One(Open(m)') = 0 /\ One(Due(r, m)) = 0 /\ One(Due(r, m)') = 1
        /\ One(Stops(r)') <= One(Stops(r)) /\ One(Stops(r)) \in Nat /\ One(Stops(r)') \in Nat
    BY <2>1, <2>2, <2>3 DEF One
  <2>5. handled'[m] = handled[m] /\ handled[m] \in Nat /\ faults' = faults /\ faults \in Nat
    BY <1>0, <1>2 DEF TypeOK
  <2>6. handled'[m] + One(Due(r, m)') + One(Open(m)') + One(Stops(r)') + faults
            <= handled[m] + One(Due(r, m)) + One(Open(m)) + One(Stops(r)) + faults'
    BY <2>4, <2>5
  <2> QED
    BY <1>2, <2>6, StepIsPaid
<1>7. CASE m \notin b
  <2>1. (Due(r, m)' => Due(r, m)) /\ (Guards(r, m) => Guards(r, m)')
    BY <1>2, <1>3, <1>7 DEF Due, Guards
  <2>2. Open(m)' => Open(m)
    BY <1>2, <2>1, OpenKept
  <2>3. Stops(r)' => Stops(r)
    BY <1>2 DEF Stops, InBatch, Delivering
  <2>4. handled'[m] = handled[m] /\ faults <= faults'
    BY <1>0, <1>2 DEF TypeOK
  <2> QED
    BY <1>2, <2>1, <2>2, <2>3, <2>4, NothingDue
<1> QED
  BY <1>6, <1>7

LEMMA HandleIsPaid ==
    ASSUME RedeliveryInv, TypeInv', NEW r \in Replicas, NEW m \in Messages, NEW n \in Messages, Handle(r, n)
    PROVE  RunsArePaid(m)'
<1>0. TypeOK /\ BatchIsFresh
  BY DEF RedeliveryInv, PipelineInv, TypeInv, QueueInv
<1>1. /\ task[r][n] = "handle" /\ task'[r][n] = "ack" /\ Others(r)
      /\ m # n => task'[r][m] = task[r][m] /\ handled'[m] = handled[m]
      /\ handled'[n] = handled[n] + 1
      /\ UNCHANGED <<rows, stored, session, worker, batch, proc, faults>>
  BY <1>0 DEF Handle, TypeOK, lockVars, workerVars, Others
<1>2. Guards(r, m) => Guards(r, m)'
  BY <1>1 DEF Guards
<1>3. Open(m)' => Open(m)
  BY <1>1, <1>2, OpenKept
<1>4. Stops(r)' <=> Stops(r)
  BY <1>1 DEF Stops
<1>5. handled'[m] + One(Due(r, m)') <= handled[m] + One(Due(r, m))
  <2>1. CASE m = n
    <3>1. m \notin batch[r]
      BY <1>0, <1>1, <2>1 DEF BatchIsFresh
    <3>2. Due(r, m) /\ ~Due(r, m)' /\ handled'[m] = handled[m] + 1 /\ handled[m] \in Nat
      BY <1>0, <1>1, <2>1, <3>1 DEF Due, TypeOK
    <3> QED
      BY <3>2 DEF One
  <2>2. CASE m # n
    <3>1. (Due(r, m)' <=> Due(r, m)) /\ handled'[m] = handled[m] /\ handled[m] \in Nat
      BY <1>0, <1>1, <2>2 DEF Due, TypeOK
    <3> QED
      BY <3>1 DEF One
  <2> QED
    BY <2>1, <2>2
<1>6. /\ One(Open(m)') <= One(Open(m)) /\ One(Stops(r)') = One(Stops(r))
      /\ One(Open(m)) \in Nat /\ One(Open(m)') \in Nat /\ One(Stops(r)) \in Nat
      /\ One(Due(r, m)) \in Nat /\ One(Due(r, m)') \in Nat
  BY <1>3, <1>4 DEF One
<1>7. handled[m] \in Nat /\ handled'[m] \in Nat /\ faults \in Nat /\ faults' = faults
  BY <1>0, <1>1 DEF TypeInv, TypeOK
<1>8. handled'[m] + One(Due(r, m)') + One(Open(m)') + One(Stops(r)') + faults
          <= handled[m] + One(Due(r, m)) + One(Open(m)) + One(Stops(r)) + faults'
  BY <1>5, <1>6, <1>7
<1> QED
  BY <1>1, <1>8, StepIsPaid

LEMMA TaskIsPaid ==
    ASSUME RedeliveryInv, TypeInv', NEW r \in Replicas, NEW m \in Messages, NEW n \in Messages,
           Leave(r, n) \/ DeleteRow(r, n) \/ DeleteRowUnconfirmed(r, n) \/ RemoveFromProcessing(r, n) \/ ReturnToken(r, n)
    PROVE  RunsArePaid(m)'
<1>0. TypeOK /\ DeletedStaysDeleted
  BY DEF RedeliveryInv, PipelineInv, TypeInv, QueueInv
<1> USE DEF TypeOK, storageVars, lockVars, workerVars, listenerVars
<1>1. /\ stored' = stored /\ handled' = handled /\ session' = session /\ batch' = batch /\ proc' = proc /\ faults' = faults
      /\ rows' \subseteq rows
  BY <1>0 DEF Leave, DeleteRow, DeleteRowUnconfirmed, RemoveFromProcessing, ReturnToken
<1>2. \A q \in Replicas : q # r => UNCHANGED <<worker[q], task[q]>>
  BY <1>0 DEF Leave, DeleteRow, DeleteRowUnconfirmed, RemoveFromProcessing, ReturnToken
<1>3. Others(r)
  BY <1>1, <1>2 DEF Others
<1>4. Stops(r)' => Stops(r)
  BY <1>0, <1>1 DEF Leave, DeleteRow, DeleteRowUnconfirmed, RemoveFromProcessing, ReturnToken, Stops, InBatch, Delivering
<1>5. m # n => task'[r][m] = task[r][m]
  BY <1>0 DEF Leave, DeleteRow, DeleteRowUnconfirmed, RemoveFromProcessing, ReturnToken
<1>6. task'[r][n] # "handle" \/ task'[r][n] = task[r][n]
  BY <1>0 DEF Leave, DeleteRow, DeleteRowUnconfirmed, RemoveFromProcessing, ReturnToken
<1>7. Due(r, m)' => Due(r, m)
  BY <1>1, <1>5, <1>6 DEF Due
<1>8. Open(m)' => Open(m)
  <2>1. CASE m # n
    <3>1. Guards(r, m) => Guards(r, m)'
      BY <1>1, <1>5, <2>1 DEF Guards
    <3> QED
      BY <1>1, <1>3, <3>1, OpenKept
  <2>2. CASE m = n /\ (DeleteRow(r, n) \/ DeleteRowUnconfirmed(r, n))
    <3>1. m \notin rows' /\ m \in stored'
      BY <1>0, <1>1, <2>2 DEF DeleteRow, DeleteRowUnconfirmed, DeletedStaysDeleted
    <3> QED
      BY <3>1 DEF Open
  <2>3. CASE m = n /\ (Leave(r, n) \/ RemoveFromProcessing(r, n) \/ ReturnToken(r, n))
    <3>1. Guards(r, m) => Guards(r, m)'
      BY <1>0, <1>1, <2>3 DEF Leave, RemoveFromProcessing, ReturnToken, Guards
    <3> QED
      BY <1>1, <1>3, <3>1, OpenKept
  <2> QED
    BY <2>1, <2>2, <2>3
<1>9. handled'[m] = handled[m] /\ faults <= faults'
  BY <1>0, <1>1
<1> QED
  BY <1>3, <1>4, <1>7, <1>8, <1>9, NothingDue

LEMMA PaymentStep ==
    ASSUME RedeliveryInv, TypeInv', [Next]_vars, NEW m \in Messages
    PROVE  RunsArePaid(m)'
<1>1. CASE UNCHANGED vars \/ \E n \in Messages : Store(n)
  <2>1. UNCHANGED <<handled, session, proc, worker, batch, task, faults>>
    BY <1>1 DEF vars, storageVars, lockVars, workerVars, listenerVars, Store
  <2>2. (m \in rows \/ m \notin stored)' <=> (m \in rows \/ m \notin stored)
    BY <1>1 DEF vars, storageVars, Store
  <2>3. /\ DueTo(m)' = DueTo(m) /\ Stopping' = Stopping /\ One(Open(m)') = One(Open(m))
        /\ handled'[m] = handled[m] /\ faults' = faults
    BY <2>1, <2>2 DEF DueTo, Due, Stopping, Stops, One, Open, Guards
  <2>4. RunsArePaid(m)
    BY DEF RedeliveryInv
  <2> QED
    BY <2>3, <2>4 DEF RunsArePaid
<1>2. ASSUME NEW r \in Replicas, QuietStep(r) \/ Deliver(r) \/ Crash(r) \/ Exit(r)
      PROVE  RunsArePaid(m)'
  BY <1>2, QuietIsPaid, FindIsPaid, AbandonIsPaid, DeliverIsPaid, VanishIsPaid
<1>3. ASSUME NEW r \in Replicas, NEW n \in Messages, TaskStep(r, n)
      PROVE  RunsArePaid(m)'
  BY <1>3, HandleIsPaid, TaskIsPaid DEF TaskStep
<1> QED
  BY <1>1, <1>2, <1>3, NextSteps

(***************************************************************************)
(* The handlers of a message succeed at most once more than faults happen, *)
(* for any number of replicas: a retried acknowledgement, a second batch   *)
(* or a competing consumer of storageconsumer.go never runs them again;    *)
(* only a cancellation, a crash or a lost session does, and each once.     *)
(***************************************************************************)
THEOREM RedeliveriesNeedFaults == Spec => []RedeliveryNeedsFault
<1>1. ASSUME Init, PipelineInv PROVE RedeliveryInv
  <2>1. ASSUME NEW m \in Messages PROVE RunsArePaid(m)
    <3>1. DueTo(m) = {} /\ Stopping = {} /\ handled[m] = 0 /\ faults = 0
      BY <1>1 DEF Init, DueTo, Due, Stopping, Stops, NoTask
    <3>2. One(Open(m)) \in {0, 1}
      BY DEF One
    <3> QED
      BY <3>1, <3>2, FS_EmptySet DEF RunsArePaid
  <2>2. \A r \in Replicas : WindsUpInOrder(r)
    BY <1>1 DEF Init, WindsUpInOrder, NoTask
  <2> QED
    BY <1>1, <2>1, <2>2 DEF RedeliveryInv
<1>2. ASSUME RedeliveryInv, PipelineInv', [Next]_vars PROVE RedeliveryInv'
  <2>1. TypeInv'
    BY <1>2 DEF PipelineInv
  <2> QED
    BY <1>2, <2>1, WindUpStep, PaymentStep DEF RedeliveryInv
<1>3. RedeliveryInv => RedeliveryNeedsFault
  <2> SUFFICES ASSUME RedeliveryInv, NEW m \in Messages PROVE handled[m] <= 1 + faults
    BY DEF RedeliveryNeedsFault
  <2>1. /\ IsFiniteSet(DueTo(m)) /\ IsFiniteSet(Stopping)
        /\ handled[m] + Cardinality(DueTo(m)) + One(Open(m)) + Cardinality(Stopping) <= 1 + faults
    BY DEF RedeliveryInv, RunsArePaid
  <2>2. Cardinality(DueTo(m)) \in Nat /\ Cardinality(Stopping) \in Nat
    BY <2>1, FS_CardinalityType
  <2>3. One(Open(m)) \in Nat /\ handled[m] \in Nat /\ faults \in Nat
    BY DEF One, RedeliveryInv, PipelineInv, TypeInv, TypeOK
  <2> QED
    BY <2>1, <2>2, <2>3
<1>4. Spec => []PipelineInv
  BY TypeInvariant, OwnershipInvariant, QueueInvariant, PTL DEF PipelineInv
<1> QED
  BY <1>1, <1>2, <1>3, <1>4, PTL DEF Spec
=============================================================================
