---------------------------- MODULE OutboxProofs ----------------------------
(***************************************************************************)
(* Proofs about Outbox for every number of replicas and messages, every    *)
(* batch size and any number of faults.                                    *)
(***************************************************************************)
EXTENDS Outbox, FiniteSetTheorems, TLAPS

(* What was deleted was sent, and what is being sent was stored.           *)
DeletedWasSent ==
    /\ \A m \in stored \ rows : sent[m] > 0
    /\ \A m \in Messages : sent[m] > 0 => m \in stored
    /\ \A r \in Replicas : batch[r] \subseteq stored

(* The Worker deletes the message it has just sent.                        *)
DeletesWhatItSent ==
    \A r \in Replicas, m \in Messages : worker[r] = "delete" /\ IsFirst(r, m) => sent[m] > 0

(* Whatever comes before a message of a batch is in the batch as well, was *)
(* sent, or was committed late.                                            *)
BatchIsPrefix ==
    \A r \in Replicas : \A m \in batch[r], n \in stored \ late :
        n < m => n \in batch[r] \/ sent[n] > 0

SendInv == TypeOK /\ DeletedWasSent /\ DeletesWhatItSent /\ BatchIsPrefix /\ FirstSendsInOrder

-----------------------------------------------------------------------------
(* The steps that touch neither the storage, nor a batch, nor the broker.  *)
QuietStep(r) ==
    \/ Process(r) \/ WorkerBegin(r) \/ WorkerReturn(r) \/ CallLock(r) \/ AcquireLock(r)
    \/ AbandonLock(r) \/ ReleaseLock(r) \/ Cancel(r) \/ LoseSession(r) \/ Restart(r)

(* The steps that end a batch early: an error, or the end of the process.  *)
BatchEnd(r) ==
    FindError(r) \/ ProduceError(r) \/ DeleteError(r) \/ Crash(r) \/ Exit(r)

LEMMA NextSteps ==
    ASSUME Next
    PROVE  \/ \E m \in Messages : Store(m)
           \/ \E r \in Replicas : \/ QuietStep(r) \/ BatchEnd(r)
                                  \/ Find(r) \/ Produce(r) \/ Delete(r)
  BY DEF Next, WorkerStep, QuietStep, BatchEnd

LEMMA QuietStepEffect ==
    ASSUME TypeOK, NEW r \in Replicas, QuietStep(r)
    PROVE  /\ UNCHANGED <<rows, stored, late, sent, batch>>
           /\ \A q \in Replicas : worker'[q] = "delete" => worker[q] = "delete"
  BY DEF QuietStep, Process, WorkerBegin, WorkerReturn, CallLock, AcquireLock, AbandonLock,
         ReleaseLock, Cancel, LoseSession, Restart, Goto, TypeOK, storageVars, workerVars

LEMMA TypeStep == TypeOK /\ [Next]_vars => TypeOK'
<1> SUFFICES ASSUME TypeOK, [Next]_vars
             PROVE  TypeOK'
  OBVIOUS
<1> USE DEF TypeOK, WorkerStates, Goto, storageVars, workerVars, Fault
<1>1. CASE UNCHANGED vars
  BY <1>1 DEF vars
<1>2. ASSUME NEW m \in Messages, Store(m)
      PROVE  TypeOK'
  BY <1>2 DEF Store
<1>3. ASSUME NEW r \in Replicas, QuietStep(r)
      PROVE  TypeOK'
  <2>1. CASE Process(r) \/ WorkerBegin(r)
    BY <2>1 DEF Process, WorkerBegin
  <2>2. CASE WorkerReturn(r) \/ CallLock(r) \/ AbandonLock(r)
    BY <2>2 DEF WorkerReturn, CallLock, AbandonLock
  <2>3. CASE AcquireLock(r)
    BY <2>3 DEF AcquireLock
  <2>4. CASE ReleaseLock(r)
    BY <2>4 DEF ReleaseLock
  <2>5. CASE Cancel(r) \/ Restart(r)
    BY <2>5 DEF Cancel, Restart
  <2>6. CASE LoseSession(r)
    BY <2>6 DEF LoseSession
  <2> QED
    BY <1>3, <2>1, <2>2, <2>3, <2>4, <2>5, <2>6 DEF QuietStep
<1>4. ASSUME NEW r \in Replicas, FindError(r)
      PROVE  TypeOK'
  BY <1>4 DEF FindError, BatchFails
<1>5. ASSUME NEW r \in Replicas, ProduceError(r)
      PROVE  TypeOK'
  BY <1>5 DEF ProduceError, BatchFails
<1>6. ASSUME NEW r \in Replicas, DeleteError(r)
      PROVE  TypeOK'
  BY <1>6 DEF DeleteError, BatchFails
<1>7. ASSUME NEW r \in Replicas, Crash(r) \/ Exit(r)
      PROVE  TypeOK'
  <2>1. Vanish(r) /\ faults' \in Nat
    BY <1>7 DEF Crash, Exit
  <2> QED
    BY <2>1 DEF Vanish
<1>8. ASSUME NEW r \in Replicas, Find(r)
      PROVE  TypeOK'
  BY <1>8 DEF Find, Batches
<1>9. ASSUME NEW r \in Replicas, Produce(r)
      PROVE  TypeOK'
  BY <1>9 DEF Produce
<1>10. ASSUME NEW r \in Replicas, Delete(r)
      PROVE  TypeOK'
  BY <1>10 DEF Delete
<1> QED
  BY <1>1, <1>2, <1>3, <1>4, <1>5, <1>6, <1>7, <1>8, <1>9, <1>10, NextSteps DEF BatchEnd

-----------------------------------------------------------------------------
LEMMA SendStep == SendInv /\ [Next]_vars => SendInv'
<1> SUFFICES ASSUME SendInv, [Next]_vars
             PROVE  SendInv'
  OBVIOUS
<1>0. TypeOK /\ TypeOK'
  BY TypeStep DEF SendInv
<1> USE <1>0, MessagesAssumption
    DEF SendInv, DeletedWasSent, DeletesWhatItSent, BatchIsPrefix, FirstSendsInOrder, IsFirst
<1>1. CASE UNCHANGED vars
  BY <1>1 DEF vars, storageVars, workerVars
<1>2. ASSUME NEW m \in Messages, Store(m)
      PROVE  SendInv'
  <2>1. /\ m \notin stored /\ stored' = stored \union {m} /\ rows' = rows \union {m}
        /\ late \subseteq late'
        /\ (\E n \in stored : n > m) => m \in late'
        /\ UNCHANGED <<sent, batch, worker>>
    BY <1>2 DEF Store, workerVars
  <2>2. \A n \in Messages : sent[n] > 0 => n \in stored
    OBVIOUS
  <2>3. DeletedWasSent' /\ DeletesWhatItSent'
    BY <2>1
  <2>4. BatchIsPrefix'
    BY <2>1 DEF TypeOK
  <2>5. FirstSendsInOrder'
    BY <2>1, <2>2 DEF TypeOK
  <2> QED
    BY <2>3, <2>4, <2>5
<1>3. ASSUME NEW r \in Replicas, QuietStep(r)
      PROVE  SendInv'
  BY <1>3, QuietStepEffect
<1>4. ASSUME NEW r \in Replicas, FindError(r)
      PROVE  SendInv'
  BY <1>4 DEF FindError, BatchFails, Goto, storageVars, TypeOK
<1>5. ASSUME NEW r \in Replicas, ProduceError(r)
      PROVE  SendInv'
  BY <1>5 DEF ProduceError, BatchFails, Goto, storageVars, TypeOK
<1>6. ASSUME NEW r \in Replicas, DeleteError(r)
      PROVE  SendInv'
  BY <1>6 DEF DeleteError, BatchFails, Goto, TypeOK
<1>7. ASSUME NEW r \in Replicas, Crash(r) \/ Exit(r)
      PROVE  SendInv'
  BY <1>7 DEF Crash, Exit, Vanish, Goto, storageVars, TypeOK
<1>8. ASSUME NEW r \in Replicas, Find(r)
      PROVE  SendInv'
  <2>1. PICK b \in Batches : batch' = [batch EXCEPT ![r] = b]
    BY <1>8 DEF Find
  <2>2. /\ b \subseteq rows /\ \A m \in b, n \in rows \ b : m < n
        /\ UNCHANGED <<rows, stored, late, sent>>
    BY <1>8 DEF Find, Batches, storageVars
  <2>3. \A q \in Replicas : worker'[q] = "delete" => q # r /\ worker[q] = "delete"
    BY <1>8 DEF Find, Goto, TypeOK
  <2>4. batch'[r] = b /\ \A q \in Replicas \ {r} : batch'[q] = batch[q]
    BY <2>1 DEF TypeOK
  <2>5. DeletedWasSent' /\ DeletesWhatItSent'
    BY <2>2, <2>3, <2>4 DEF TypeOK
  <2>6. ASSUME NEW m \in b, NEW n \in stored \ late, n < m
        PROVE  n \in b \/ sent[n] > 0
    BY <2>2, <2>6 DEF TypeOK
  <2>7. BatchIsPrefix'
    BY <2>2, <2>4, <2>6
  <2> QED
    BY <2>2, <2>5, <2>7
<1>9. ASSUME NEW r \in Replicas, Produce(r)
      PROVE  SendInv'
  BY <1>9 DEF Produce, Goto, storageVars, TypeOK
<1>10. ASSUME NEW r \in Replicas, Delete(r)
      PROVE  SendInv'
  BY <1>10 DEF Delete, Goto, TypeOK
<1> QED
  BY <1>1, <1>2, <1>3, <1>4, <1>5, <1>6, <1>7, <1>8, <1>9, <1>10, NextSteps DEF BatchEnd

LEMMA SendInvariant == Spec => []SendInv
<1>1. Init => SendInv
  BY BoundsAssumption
     DEF Init, SendInv, TypeOK, WorkerStates, DeletedWasSent, DeletesWhatItSent, BatchIsPrefix,
         FirstSendsInOrder, IsFirst
<1> QED
  BY <1>1, SendStep, PTL DEF Spec

(***************************************************************************)
(* First sends are in the order of scheduled_at: no failure, retry, batch  *)
(* border or change of the replica that holds the lock lets a message      *)
(* overtake one that was committed in time.                                *)
(***************************************************************************)
THEOREM SendsAreOrdered == Spec => []FirstSendsInOrder
  BY SendInvariant, PTL DEF SendInv

(***************************************************************************)
(* The outbox implements at-least-once delivery: a row is deleted only     *)
(* after the broker has taken its message, although every call may fail    *)
(* with or without effect and the session, hence the lock, may be lost.    *)
(***************************************************************************)
THEOREM ImplementsAtLeastOnce == Spec => DeliversAtLeastOnce
<1>1. Init => Abstract!Init
  BY DEF Init, Abstract!Init
<1>2. SendInv /\ [Next]_vars => [Abstract!Next]_(Abstract!vars)
  <2> SUFFICES ASSUME SendInv, [Next]_vars
               PROVE  Abstract!Next \/ UNCHANGED <<stored, rows, sent>>
    BY DEF Abstract!vars
  <2>1. CASE UNCHANGED vars
    BY <2>1 DEF vars, storageVars
  <2>2. ASSUME NEW m \in Messages, Store(m)
        PROVE  Abstract!Next
    BY <2>2 DEF Store, Abstract!Next, Abstract!Submit
  <2>3. ASSUME NEW r \in Replicas,
               QuietStep(r) \/ Find(r) \/ FindError(r) \/ Crash(r) \/ Exit(r)
        PROVE  UNCHANGED <<stored, rows, sent>>
    BY <2>3, QuietStepEffect DEF Find, FindError, Crash, Exit, Vanish, storageVars, SendInv
  <2>4. ASSUME NEW r \in Replicas, Produce(r) \/ ProduceError(r)
        PROVE  Abstract!Next \/ UNCHANGED <<stored, rows, sent>>
    BY <2>4 DEF Produce, ProduceError, IsFirst, storageVars, SendInv, DeletedWasSent,
                Abstract!Next, Abstract!Deliver
  <2>5. ASSUME NEW r \in Replicas, Delete(r) \/ DeleteError(r)
        PROVE  Abstract!Next \/ UNCHANGED <<stored, rows, sent>>
    <3>1. PICK m \in Messages : IsFirst(r, m) /\ rows' \in {rows, rows \ {m}}
      BY <2>5 DEF Delete, DeleteError
    <3>2. worker[r] = "delete" /\ UNCHANGED <<stored, sent>>
      BY <2>5 DEF Delete, DeleteError
    <3>3. sent[m] > 0
      BY <3>1, <3>2 DEF SendInv, DeletesWhatItSent
    <3> QED
      BY <3>1, <3>2, <3>3 DEF Abstract!Next, Abstract!Forget
  <2> QED
    BY <2>1, <2>2, <2>3, <2>4, <2>5, NextSteps DEF BatchEnd
<1> QED
  BY <1>1, <1>2, SendInvariant, PTL DEF Spec, DeliversAtLeastOnce, Abstract!Spec

-----------------------------------------------------------------------------
(***************************************************************************)
(* Copies.  Every copy of a message that was sent or may still be sent is  *)
(* paid for by the first send or by a fault: one for each replica whose    *)
(* batch has the message to be sent, one if the row can be found by the    *)
(* next holder of the lock, and one for each replica whose cancelled       *)
(* context may still make a Delete fail for free.                          *)
(***************************************************************************)
Sends(r, m) == m \in batch[r] /\ ~(worker[r] = "delete" /\ IsFirst(r, m))
Open(m) == (m \in rows \/ m \notin stored) /\ \A r \in Replicas : session[r] => m \notin batch[r]
Stops(r) == proc[r] = "stop" /\ worker[r] \in {"lock", "find", "produce", "delete"}

Senders(m) == {r \in Replicas : Sends(r, m)}
Stopping == {r \in Replicas : Stops(r)}
One(P) == IF P THEN 1 ELSE 0

CopiesArePaid(m) ==
    /\ IsFiniteSet(Senders(m)) /\ IsFiniteSet(Stopping)
    /\ sent[m] + Cardinality(Senders(m)) + One(Open(m)) + Cardinality(Stopping) <= 1 + faults

(* A batch is only there while it is worked on, by a process, and a        *)
(* session holds the lock.                                                 *)
BatchIsWorkedOn(r) ==
    /\ batch[r] # {} => worker[r] \in {"produce", "delete"}
    /\ proc[r] = "down" => worker[r] = "idle"
SessionHasLock(r) == session[r] => lock = r

CopyInv ==
    /\ TypeOK
    /\ \A r \in Replicas : BatchIsWorkedOn(r) /\ SessionHasLock(r)
    /\ \A m \in Messages : (sent[m] > 0 \/ \E r \in Replicas : m \in batch[r]) => m \in stored
    /\ \A m \in Messages : CopiesArePaid(m)

LEMMA OneChanges ==
    ASSUME NEW S, NEW T, NEW x, IsFiniteSet(S), T \ {x} = S \ {x}
    PROVE  /\ IsFiniteSet(T) /\ Cardinality(S) \in Nat /\ Cardinality(T) \in Nat
           /\ Cardinality(T) - One(x \in T) = Cardinality(S) - One(x \in S)
<1>1. IsFiniteSet(S \ {x}) /\ Cardinality(S \ {x}) = IF x \in S THEN Cardinality(S) - 1 ELSE Cardinality(S)
  BY FS_RemoveElement
<1> DEFINE U == T \ {x}
<1>2. IsFiniteSet(U) /\ x \notin U /\ Cardinality(U) = Cardinality(S \ {x})
  BY <1>1
<1>3. T = IF x \in T THEN U \cup {x} ELSE U
  OBVIOUS
<1> HIDE DEF U
<1>4. IsFiniteSet(U \cup {x}) /\ Cardinality(U \cup {x}) = Cardinality(U) + 1
  BY <1>2, FS_AddElement
<1>5. IsFiniteSet(T) /\ Cardinality(T) = IF x \in T THEN Cardinality(U) + 1 ELSE Cardinality(U)
  <2>1. CASE x \in T
    BY <1>3, <1>4, <2>1
  <2>2. CASE x \notin T
    BY <1>2, <1>3, <2>2
  <2> QED
    BY <2>1, <2>2
<1>6. Cardinality(S) \in Nat /\ Cardinality(T) \in Nat /\ Cardinality(U) \in Nat
  BY <1>2, <1>5, FS_CardinalityType
<1> QED
  BY <1>1, <1>2, <1>5, <1>6 DEF One

(* A step of one replica is paid for if what it may add for this message   *)
(* is not more than the faults it costs.                                   *)
LEMMA StepIsPaid ==
    ASSUME CopyInv, TypeOK', NEW r \in Replicas, NEW m \in Messages,
           \A q \in Replicas : q # r => UNCHANGED <<worker[q], batch[q], proc[q]>>,
           sent'[m] + One(Sends(r, m)') + One(Open(m)') + One(Stops(r)') + faults
               <= sent[m] + One(Sends(r, m)) + One(Open(m)) + One(Stops(r)) + faults'
    PROVE  CopiesArePaid(m)'
<1>1. /\ IsFiniteSet(Senders(m)) /\ IsFiniteSet(Stopping)
      /\ sent[m] + Cardinality(Senders(m)) + One(Open(m)) + Cardinality(Stopping) <= 1 + faults
  BY DEF CopyInv, CopiesArePaid
<1>2. Senders(m)' \ {r} = Senders(m) \ {r}
  BY DEF Senders, Sends, IsFirst
<1>3. Stopping' \ {r} = Stopping \ {r}
  BY DEF Stopping, Stops
<1>4. /\ IsFiniteSet(Senders(m)') /\ Cardinality(Senders(m)) \in Nat /\ Cardinality(Senders(m)') \in Nat
      /\ Cardinality(Senders(m)') - One(r \in Senders(m)') = Cardinality(Senders(m)) - One(r \in Senders(m))
  BY <1>1, <1>2, OneChanges
<1>5. /\ IsFiniteSet(Stopping') /\ Cardinality(Stopping) \in Nat /\ Cardinality(Stopping') \in Nat
      /\ Cardinality(Stopping') - One(r \in Stopping') = Cardinality(Stopping) - One(r \in Stopping)
  BY <1>1, <1>3, OneChanges
<1>6. /\ One(r \in Senders(m)') = One(Sends(r, m)') /\ One(r \in Senders(m)) = One(Sends(r, m))
      /\ One(r \in Stopping') = One(Stops(r)') /\ One(r \in Stopping) = One(Stops(r))
  BY DEF Senders, Stopping, Sends, Stops, One
<1>7. /\ sent[m] \in Nat /\ sent'[m] \in Nat /\ faults \in Nat /\ faults' \in Nat
      /\ One(Sends(r, m)) \in Nat /\ One(Sends(r, m)') \in Nat /\ One(Stops(r)) \in Nat /\ One(Stops(r)') \in Nat
      /\ One(Open(m)) \in Nat /\ One(Open(m)') \in Nat
  BY DEF CopyInv, TypeOK, One
<1>8. sent'[m] + Cardinality(Senders(m)') + One(Open(m)') + Cardinality(Stopping') <= 1 + faults'
  BY <1>1, <1>4, <1>5, <1>6, <1>7
<1> QED
  BY <1>4, <1>5, <1>8 DEF CopiesArePaid

(* A step of one replica that leaves its batch alone and keeps its session *)
(* or has nothing in the batch.                                            *)
LEMMA KeepingStep ==
    ASSUME CopyInv, TypeOK', NEW r \in Replicas, UNCHANGED <<rows, stored, sent, batch>>,
           \A q \in Replicas : q # r => UNCHANGED <<worker[q], proc[q], session[q]>>,
           worker'[r] = worker[r] \/ (batch[r] = {} /\ worker'[r] # "delete" /\ worker[r] # "delete"),
           session'[r] = session[r] \/ batch[r] = {} \/ faults' = faults + 1,
           Stops(r)' => Stops(r) \/ faults' = faults + 1,
           session'[r] = session[r] \/ ~Stops(r)' \/ Stops(r), faults <= faults'
    PROVE  \A m \in Messages : CopiesArePaid(m)'
<1> SUFFICES ASSUME NEW m \in Messages
             PROVE  CopiesArePaid(m)'
  OBVIOUS
<1>1. faults \in Nat /\ faults' \in Nat /\ sent[m] \in Nat
  BY DEF CopyInv, TypeOK
<1>2. Sends(r, m)' = Sends(r, m)
  BY DEF Sends, IsFirst
<1>3. Open(m)' => Open(m) \/ (session'[r] # session[r] /\ faults' = faults + 1)
  BY DEF Open
<1>4. One(Open(m)') + One(Stops(r)') + faults <= One(Open(m)) + One(Stops(r)) + faults'
  <2>1. CASE Open(m)' /\ ~Open(m)
    <3>1. session'[r] # session[r] /\ faults' = faults + 1
      BY <1>3, <2>1
    <3>2. Stops(r)' => Stops(r)
      BY <3>1
    <3>3. One(Open(m)') = 1 /\ One(Open(m)) = 0
      BY <2>1 DEF One
    <3>4. One(Stops(r)') <= One(Stops(r)) /\ One(Stops(r)) \in Nat /\ One(Stops(r)') \in Nat
      BY <3>2 DEF One
    <3> QED
      BY <1>1, <3>1, <3>3, <3>4
  <2>2. CASE ~(Open(m)' /\ ~Open(m))
    <3>1. One(Open(m)') <= One(Open(m)) /\ One(Open(m)) \in Nat /\ One(Open(m)') \in Nat
      BY <2>2 DEF One
    <3>2. One(Stops(r)') + faults <= One(Stops(r)) + faults' /\ One(Stops(r)) \in Nat /\ One(Stops(r)') \in Nat
      BY <1>1 DEF One
    <3> QED
      BY <1>1, <3>1, <3>2
  <2> QED
    BY <2>1, <2>2
<1>5. One(Sends(r, m)) \in Nat /\ One(Open(m)) \in Nat /\ One(Open(m)') \in Nat
      /\ One(Stops(r)) \in Nat /\ One(Stops(r)') \in Nat
  BY DEF One
<1>6. sent'[m] + One(Sends(r, m)') + One(Open(m)') + One(Stops(r)') + faults
          <= sent[m] + One(Sends(r, m)) + One(Open(m)) + One(Stops(r)) + faults'
  BY <1>1, <1>2, <1>4, <1>5
<1> QED
  BY <1>6, StepIsPaid

LEMMA QuietIsPaid ==
    ASSUME CopyInv, TypeOK', NEW r \in Replicas, QuietStep(r)
    PROVE  \A m \in Messages : CopiesArePaid(m)'
<1>1. TypeOK /\ BatchIsWorkedOn(r)
  BY DEF CopyInv
<1>2. UNCHANGED <<rows, stored, sent, batch>>
  BY <1>1, QuietStepEffect
<1>3. faults' = faults \/ faults' = faults + 1
  BY DEF QuietStep, Process, WorkerBegin, WorkerReturn, CallLock, AcquireLock, AbandonLock,
         ReleaseLock, Cancel, LoseSession, Restart, Fault
<1>4. \A q \in Replicas : q # r => UNCHANGED <<worker[q], proc[q], session[q]>>
  BY <1>1 DEF QuietStep, Process, WorkerBegin, WorkerReturn, CallLock, AcquireLock, AbandonLock,
         ReleaseLock, Cancel, LoseSession, Restart, Goto, workerVars, TypeOK
<1>5. worker'[r] = worker[r] \/ (batch[r] = {} /\ worker'[r] # "delete" /\ worker[r] # "delete")
  BY <1>1 DEF QuietStep, Process, WorkerBegin, WorkerReturn, CallLock, AcquireLock, AbandonLock,
         ReleaseLock, Cancel, LoseSession, Restart, Goto, workerVars, TypeOK, BatchIsWorkedOn
<1>6. /\ session'[r] = session[r] \/ batch[r] = {} \/ faults' = faults + 1
      /\ Stops(r)' => Stops(r) \/ faults' = faults + 1
      /\ session'[r] = session[r] \/ ~Stops(r)' \/ Stops(r)
  <2>1. CASE Process(r) \/ WorkerBegin(r) \/ WorkerReturn(r) \/ CallLock(r) \/ AbandonLock(r) \/ Restart(r)
    BY <1>1, <2>1 DEF Process, WorkerBegin, WorkerReturn, CallLock, AbandonLock, Restart, Goto, workerVars,
       TypeOK, Stops
  <2>2. CASE AcquireLock(r) \/ ReleaseLock(r)
    BY <1>1, <2>2 DEF AcquireLock, ReleaseLock, Goto, TypeOK, Stops, BatchIsWorkedOn
  <2>3. CASE Cancel(r) \/ LoseSession(r)
    BY <1>1, <2>3 DEF Cancel, LoseSession, Fault, workerVars, TypeOK, Stops
  <2> QED
    BY <2>1, <2>2, <2>3 DEF QuietStep
<1>7. faults <= faults'
  BY <1>1, <1>3 DEF TypeOK
<1> QED
  BY <1>2, <1>4, <1>5, <1>6, <1>7, KeepingStep

(* A batch that ends early gives the rows back: what was to be sent is not *)
(* sent any more, and the message that was sent costs a fault.             *)
LEMMA EndingStep ==
    ASSUME CopyInv, TypeOK', NEW r \in Replicas, NEW m \in Messages, stored' = stored, rows' \subseteq rows,
           \A q \in Replicas : q # r => UNCHANGED <<worker[q], batch[q], proc[q], session[q]>>,
           batch'[r] = {}, worker'[r] \in {"release", "idle"}, faults <= faults',
           m \in batch[r] /\ ~Sends(r, m) /\ session[r] => Stops(r) \/ faults' = faults + 1,
           sent'[m] = sent[m] \/ (sent'[m] = sent[m] + 1 /\ Sends(r, m) /\ faults' = faults + 1)
    PROVE  CopiesArePaid(m)'
<1>1. faults \in Nat /\ faults' \in Nat /\ sent[m] \in Nat
  BY DEF CopyInv, TypeOK
<1>2. ~Sends(r, m)' /\ ~Stops(r)'
  BY DEF Sends, Stops
<1>3. Open(m)' => Open(m) \/ (m \in batch[r] /\ session[r])
  BY DEF Open
<1>4. One(Sends(r, m)) \in Nat /\ One(Open(m)) \in Nat /\ One(Open(m)') \in Nat /\ One(Open(m)') <= 1
      /\ One(Stops(r)) \in Nat /\ One(Stops(r)') = 0 /\ One(Sends(r, m)') = 0
  BY <1>2 DEF One
<1>5. CASE sent'[m] = sent[m] + 1 /\ Sends(r, m) /\ faults' = faults + 1
  <2>1. One(Sends(r, m)) = 1
    BY <1>5 DEF One
  <2>2. sent'[m] + One(Sends(r, m)') + One(Open(m)') + One(Stops(r)') + faults
            <= sent[m] + One(Sends(r, m)) + One(Open(m)) + One(Stops(r)) + faults'
    <3>1. sent'[m] + 0 + One(Open(m)') + 0 + faults <= sent[m] + 1 + One(Open(m)) + One(Stops(r)) + faults'
      BY <1>1, <1>4, <1>5
    <3> QED
      BY <1>4, <2>1, <3>1
  <2> QED
    BY <2>2, StepIsPaid
<1>6. CASE sent'[m] = sent[m]
  <2>1. One(Open(m)') + faults <= One(Sends(r, m)) + One(Open(m)) + One(Stops(r)) + faults'
    <3>1. CASE Open(m)' /\ ~Open(m)
      <4>1. Sends(r, m) \/ Stops(r) \/ faults' = faults + 1
        BY <1>3, <3>1
      <4>2. One(Sends(r, m)) = 1 \/ One(Stops(r)) = 1 \/ faults' = faults + 1
        BY <4>1 DEF One
      <4> QED
        BY <1>1, <1>4, <4>2
    <3>2. CASE ~(Open(m)' /\ ~Open(m))
      <4>1. One(Open(m)') <= One(Open(m))
        BY <3>2 DEF One
      <4> QED
        BY <1>1, <1>4, <4>1
    <3> QED
      BY <3>1, <3>2
  <2> QED
    BY <1>1, <1>4, <1>6, <2>1, StepIsPaid
<1> QED
  BY <1>5, <1>6

LEMMA EndIsPaid ==
    ASSUME CopyInv, TypeOK', NEW r \in Replicas, NEW m \in Messages, BatchEnd(r)
    PROVE  CopiesArePaid(m)'
<1>1. TypeOK /\ BatchIsWorkedOn(r)
  BY DEF CopyInv
<1>2. faults' = faults \/ faults' = faults + 1
  BY DEF BatchEnd, FindError, ProduceError, DeleteError, Crash, Exit, Fault
<1>3. faults <= faults'
  BY <1>1, <1>2 DEF TypeOK
<1>4. /\ stored' = stored /\ rows' \subseteq rows
      /\ \A q \in Replicas : q # r => UNCHANGED <<worker[q], batch[q], proc[q], session[q]>>
      /\ batch'[r] = {} /\ worker'[r] \in {"release", "idle"}
  BY <1>1 DEF BatchEnd, FindError, ProduceError, DeleteError, Crash, Exit, Vanish, BatchFails, Goto, storageVars, TypeOK
<1>5. CASE FindError(r)
  <2>1. batch[r] = {} /\ sent' = sent
    BY <1>1, <1>5 DEF FindError, BatchIsWorkedOn
  <2> QED
    BY <1>3, <1>4, <2>1, EndingStep
<1>6. CASE ProduceError(r)
  <2>1. m \in batch[r] => Sends(r, m)
    BY <1>6 DEF ProduceError, Sends
  <2>2. sent'[m] = sent[m] \/ (sent'[m] = sent[m] + 1 /\ m \in batch[r] /\ faults' = faults + 1)
    BY <1>1, <1>6 DEF ProduceError, IsFirst, Fault, TypeOK
  <2> QED
    BY <1>3, <1>4, <2>1, <2>2, EndingStep
<1>7. CASE DeleteError(r)
  <2>1. worker[r] = "delete" /\ sent' = sent /\ proc[r] # "down"
    BY <1>1, <1>7 DEF DeleteError, BatchIsWorkedOn
  <2>2. session[r] => Stops(r) \/ faults' = faults + 1
    BY <1>1, <1>7, <2>1 DEF DeleteError, Stops, Fault, TypeOK
  <2> QED
    BY <1>3, <1>4, <2>1, <2>2, EndingStep
<1>8. CASE Crash(r)
  <2>1. sent' = sent /\ faults' = faults + 1
    BY <1>8 DEF Crash, Vanish, Fault
  <2> QED
    BY <1>3, <1>4, <2>1, EndingStep
<1>9. CASE Exit(r)
  <2>1. batch[r] = {} /\ sent' = sent
    BY <1>1, <1>9 DEF Exit, Vanish, BatchIsWorkedOn
  <2> QED
    BY <1>3, <1>4, <2>1, EndingStep
<1> QED
  BY <1>5, <1>6, <1>7, <1>8, <1>9 DEF BatchEnd

LEMMA FindIsPaid ==
    ASSUME CopyInv, TypeOK', NEW r \in Replicas, NEW m \in Messages, Find(r)
    PROVE  CopiesArePaid(m)'
<1>1. TypeOK /\ BatchIsWorkedOn(r) /\ \A q \in Replicas : SessionHasLock(q)
  BY DEF CopyInv
<1>2. PICK b \in Batches : batch' = [batch EXCEPT ![r] = b]
  BY DEF Find
<1>3. /\ worker[r] = "find" /\ session[r] /\ batch[r] = {}
      /\ worker'[r] \in {"release", "produce"} /\ batch'[r] = b /\ b \subseteq rows
      /\ UNCHANGED <<rows, stored, sent, session, proc, faults>>
      /\ \A q \in Replicas : q # r => UNCHANGED <<worker[q], batch[q]>>
  BY <1>1, <1>2 DEF Find, Goto, storageVars, TypeOK, BatchIsWorkedOn, Batches
<1>4. \A q \in Replicas : q # r => ~session[q]
  BY <1>1, <1>3 DEF SessionHasLock
<1>5. Stops(r)' => Stops(r)
  BY <1>3 DEF Stops
<1>6. ~Sends(r, m) /\ (Sends(r, m)' <=> m \in b)
  BY <1>3 DEF Sends
<1>7. (Open(m)' <=> Open(m) /\ m \notin b) /\ (m \in b => Open(m))
  BY <1>3, <1>4 DEF Open
<1>8. One(Sends(r, m)') + One(Open(m)') <= One(Sends(r, m)) + One(Open(m))
  BY <1>6, <1>7 DEF One
<1>9. One(Stops(r)') <= One(Stops(r))
  BY <1>5 DEF One
<1>10. /\ sent'[m] = sent[m] /\ faults' = faults /\ sent[m] \in Nat /\ faults \in Nat
       /\ One(Sends(r, m)) \in Nat /\ One(Open(m)) \in Nat /\ One(Stops(r)) \in Nat
       /\ One(Sends(r, m)') \in Nat /\ One(Open(m)') \in Nat /\ One(Stops(r)') \in Nat
  BY <1>1, <1>3 DEF TypeOK, One
<1>11. sent'[m] + One(Sends(r, m)') + One(Open(m)') + One(Stops(r)') + faults
           <= sent[m] + One(Sends(r, m)) + One(Open(m)) + One(Stops(r)) + faults'
  BY <1>8, <1>9, <1>10
<1> QED
  BY <1>3, <1>11, StepIsPaid

LEMMA ProduceIsPaid ==
    ASSUME CopyInv, TypeOK', NEW r \in Replicas, NEW m \in Messages, Produce(r)
    PROVE  CopiesArePaid(m)'
<1>1. TypeOK
  BY DEF CopyInv
<1>2. PICK n \in Messages : IsFirst(r, n) /\ sent' = [sent EXCEPT ![n] = @ + 1]
  BY DEF Produce
<1>3. /\ worker[r] = "produce" /\ worker'[r] = "delete"
      /\ UNCHANGED <<rows, stored, batch, session, proc, faults>>
      /\ \A q \in Replicas : q # r => UNCHANGED worker[q]
  BY <1>1 DEF Produce, Goto, storageVars, TypeOK
<1>4. IsFirst(r, m) <=> m = n
  BY <1>1, <1>2, MessagesAssumption DEF IsFirst, TypeOK
<1>5. IsFirst(r, m)' <=> IsFirst(r, m)
  BY <1>3 DEF IsFirst
<1>6. sent'[m] + One(Sends(r, m)') <= sent[m] + One(Sends(r, m))
  <2>1. CASE m = n
    <3>1. sent'[m] = sent[m] + 1 /\ Sends(r, m) /\ ~Sends(r, m)' /\ sent[m] \in Nat
      BY <1>1, <1>2, <1>3, <1>4, <1>5, <2>1 DEF Sends, IsFirst, TypeOK
    <3> QED
      BY <3>1 DEF One
  <2>2. CASE m # n
    <3>1. sent'[m] = sent[m] /\ sent[m] \in Nat /\ (Sends(r, m)' <=> Sends(r, m))
      BY <1>1, <1>2, <1>3, <1>4, <1>5, <2>2 DEF Sends, TypeOK
    <3> QED
      BY <3>1 DEF One
  <2> QED
    BY <2>1, <2>2
<1>7. One(Open(m)') = One(Open(m)) /\ One(Stops(r)') = One(Stops(r))
  BY <1>3 DEF One, Open, Stops
<1>8. /\ faults' = faults /\ sent[m] \in Nat /\ sent'[m] \in Nat /\ faults \in Nat
      /\ One(Sends(r, m)) \in Nat /\ One(Open(m)) \in Nat /\ One(Stops(r)) \in Nat /\ One(Sends(r, m)') \in Nat
  BY <1>1, <1>3 DEF TypeOK, One
<1>9. sent'[m] + One(Sends(r, m)') + One(Open(m)') + One(Stops(r)') + faults
           <= sent[m] + One(Sends(r, m)) + One(Open(m)) + One(Stops(r)) + faults'
  BY <1>6, <1>7, <1>8
<1> QED
  BY <1>3, <1>9, StepIsPaid

LEMMA DeleteIsPaid ==
    ASSUME CopyInv, TypeOK', NEW r \in Replicas, NEW m \in Messages, Delete(r)
    PROVE  CopiesArePaid(m)'
<1>1. TypeOK /\ (m \in batch[r] => m \in stored)
  BY DEF CopyInv
<1>2. PICK n \in Messages : /\ IsFirst(r, n) /\ rows' = rows \ {n} /\ batch' = [batch EXCEPT ![r] = @ \ {n}]
  BY DEF Delete
<1>3. /\ worker[r] = "delete" /\ worker'[r] \in {"release", "produce"} /\ session[r]
      /\ batch'[r] = batch[r] \ {n}
      /\ UNCHANGED <<stored, sent, session, proc, faults>>
      /\ \A q \in Replicas : q # r => UNCHANGED <<worker[q], batch[q]>>
  BY <1>1, <1>2 DEF Delete, Goto, TypeOK
<1>4. IsFirst(r, m) <=> m = n
  BY <1>1, <1>2, MessagesAssumption DEF IsFirst, TypeOK
<1>5. Sends(r, m)' => Sends(r, m)
  BY <1>3, <1>4 DEF Sends
<1>6. Open(m)' => Open(m)
  BY <1>1, <1>2, <1>3 DEF Open, IsFirst
<1>7. Stops(r)' => Stops(r)
  BY <1>3 DEF Stops
<1>8. One(Sends(r, m)') <= One(Sends(r, m)) /\ One(Open(m)') <= One(Open(m)) /\ One(Stops(r)') <= One(Stops(r))
  BY <1>5, <1>6, <1>7 DEF One
<1>9. /\ sent'[m] = sent[m] /\ faults' = faults /\ sent[m] \in Nat /\ faults \in Nat
      /\ One(Sends(r, m)) \in Nat /\ One(Open(m)) \in Nat /\ One(Stops(r)) \in Nat
      /\ One(Sends(r, m)') \in Nat /\ One(Open(m)') \in Nat /\ One(Stops(r)') \in Nat
  BY <1>1, <1>3 DEF TypeOK, One
<1>10. sent'[m] + One(Sends(r, m)') + One(Open(m)') + One(Stops(r)') + faults
           <= sent[m] + One(Sends(r, m)) + One(Open(m)) + One(Stops(r)) + faults'
  BY <1>8, <1>9
<1> QED
  BY <1>3, <1>10, StepIsPaid

LEMMA CopyStep == CopyInv /\ [Next]_vars => CopyInv'
<1> SUFFICES ASSUME CopyInv, [Next]_vars
             PROVE  CopyInv'
  OBVIOUS
<1>0. TypeOK /\ TypeOK'
  BY TypeStep DEF CopyInv
<1>1. \A r \in Replicas : BatchIsWorkedOn(r) /\ SessionHasLock(r)
  BY DEF CopyInv
<1>2. \A m \in Messages : (sent[m] > 0 \/ \E r \in Replicas : m \in batch[r]) => m \in stored
  BY DEF CopyInv
<1>3. ASSUME UNCHANGED vars \/ \E m \in Messages : Store(m)
      PROVE  CopyInv'
  <2>1. UNCHANGED <<sent, lock, session, proc, worker, batch, faults>> /\ stored \subseteq stored'
    BY <1>3 DEF vars, storageVars, workerVars, Store
  <2>2. \A r \in Replicas : BatchIsWorkedOn(r)' /\ SessionHasLock(r)'
    BY <1>1, <2>1 DEF BatchIsWorkedOn, SessionHasLock
  <2>3. ASSUME NEW m \in Messages PROVE CopiesArePaid(m)'
    <3>1. (m \in rows \/ m \notin stored)' <=> (m \in rows \/ m \notin stored)
      BY <1>3 DEF vars, storageVars, Store
    <3>2. /\ Senders(m)' = Senders(m) /\ Stopping' = Stopping /\ One(Open(m)') = One(Open(m))
          /\ sent'[m] = sent[m] /\ faults' = faults
      BY <2>1, <3>1 DEF Senders, Sends, IsFirst, Stopping, Stops, One, Open
    <3>3. CopiesArePaid(m)
      BY DEF CopyInv
    <3> QED
      BY <3>2, <3>3 DEF CopiesArePaid
  <2> QED
    BY <1>0, <1>2, <2>1, <2>2, <2>3 DEF CopyInv
<1>4. ASSUME NEW r \in Replicas, QuietStep(r) \/ BatchEnd(r) \/ Find(r) \/ Produce(r) \/ Delete(r)
      PROVE  CopyInv'
  <2>1. \A m \in Messages : CopiesArePaid(m)'
    BY <1>0, <1>4, QuietIsPaid, EndIsPaid, FindIsPaid, ProduceIsPaid, DeleteIsPaid
  <2>2. \A m \in Messages : (sent'[m] > 0 \/ \E q \in Replicas : m \in batch'[q]) => m \in stored'
    <3>1. CASE QuietStep(r)
      BY <1>0, <1>2, <3>1, QuietStepEffect
    <3>2. CASE BatchEnd(r)
      BY <1>0, <1>2, <3>2 DEF BatchEnd, FindError, ProduceError, DeleteError, Crash, Exit, Vanish, BatchFails,
         IsFirst, storageVars, TypeOK
    <3>3. CASE Find(r)
      BY <1>0, <1>2, <3>3 DEF Find, Batches, storageVars, TypeOK
    <3>4. CASE Produce(r)
      BY <1>0, <1>2, <3>4 DEF Produce, IsFirst, storageVars, TypeOK
    <3>5. CASE Delete(r)
      BY <1>0, <1>2, <3>5 DEF Delete, TypeOK
    <3> QED
      BY <1>4, <3>1, <3>2, <3>3, <3>4, <3>5
  <2>3. \A q \in Replicas : SessionHasLock(q)'
    <3>1. CASE QuietStep(r)
      BY <1>0, <1>1, <3>1, NobodyAssumption
      DEF QuietStep, Process, WorkerBegin, WorkerReturn, CallLock, AcquireLock, AbandonLock,
          ReleaseLock, Cancel, LoseSession, Restart, TypeOK, SessionHasLock
    <3>2. CASE BatchEnd(r)
      BY <1>0, <1>1, <3>2 DEF BatchEnd, FindError, ProduceError, DeleteError, Crash, Exit, Vanish,
         TypeOK, SessionHasLock
    <3>3. CASE Find(r) \/ Produce(r) \/ Delete(r)
      BY <1>1, <3>3 DEF Find, Produce, Delete, SessionHasLock
    <3> QED
      BY <1>4, <3>1, <3>2, <3>3
  <2>4. \A q \in Replicas : BatchIsWorkedOn(q)'
    <3>1. CASE QuietStep(r)
      <4>1. UNCHANGED batch
        BY <1>0, <3>1, QuietStepEffect
      <4>2. CASE Process(r) \/ WorkerBegin(r) \/ WorkerReturn(r) \/ LoseSession(r)
        BY <1>0, <1>1, <4>1, <4>2 DEF Process, WorkerBegin, WorkerReturn, LoseSession, Goto, workerVars,
           TypeOK, BatchIsWorkedOn
      <4>3. CASE CallLock(r) \/ AcquireLock(r) \/ AbandonLock(r) \/ ReleaseLock(r)
        BY <1>0, <1>1, <4>1, <4>3 DEF CallLock, AcquireLock, AbandonLock, ReleaseLock, Goto, TypeOK, BatchIsWorkedOn
      <4>4. CASE Cancel(r) \/ Restart(r)
        BY <1>0, <1>1, <4>1, <4>4 DEF Cancel, Restart, workerVars, TypeOK, BatchIsWorkedOn
      <4> QED
        BY <3>1, <4>2, <4>3, <4>4 DEF QuietStep
    <3>2. CASE BatchEnd(r)
      BY <1>0, <1>1, <3>2 DEF BatchEnd, FindError, ProduceError, DeleteError, Crash, Exit, Vanish, BatchFails, Goto,
         TypeOK, BatchIsWorkedOn
    <3>3. CASE Find(r) \/ Produce(r)
      BY <1>0, <1>1, <3>3 DEF Find, Produce, Goto, TypeOK, BatchIsWorkedOn
    <3>4. CASE Delete(r)
      <4>1. PICK n \in Messages : /\ IsFirst(r, n) /\ batch' = [batch EXCEPT ![r] = @ \ {n}]
                                  /\ Goto(r, IF batch[r] = {n} THEN "release" ELSE "produce")
        BY <3>4 DEF Delete
      <4> QED
        BY <1>0, <1>1, <3>4, <4>1 DEF Delete, IsFirst, Goto, TypeOK, BatchIsWorkedOn
    <3> QED
      BY <1>4, <3>1, <3>2, <3>3, <3>4
  <2> QED
    BY <1>0, <2>1, <2>2, <2>3, <2>4 DEF CopyInv
<1> QED
  BY <1>3, <1>4, NextSteps

(***************************************************************************)
(* No more copies of a message reach the broker than faults happen and one *)
(* more, for any number of replicas: those that compete for the lock find  *)
(* each row once, and a session that is lost in the middle of processBatch *)
(* of outbox.go is one fault, however much of its batch is sent again.     *)
(***************************************************************************)
THEOREM DuplicatesNeedFaults == Spec => []DuplicateNeedsFault
<1>1. Init => CopyInv
  <2> SUFFICES ASSUME Init PROVE CopyInv
    OBVIOUS
  <2>1. TypeOK
    BY BoundsAssumption DEF Init, TypeOK, WorkerStates
  <2>2. ASSUME NEW m \in Messages PROVE CopiesArePaid(m)
    <3>1. Senders(m) = {} /\ Stopping = {} /\ sent[m] = 0 /\ faults = 0
      BY DEF Init, Senders, Sends, Stopping, Stops
    <3>2. One(Open(m)) \in {0, 1}
      BY DEF One
    <3> QED
      BY <3>1, <3>2, FS_EmptySet DEF CopiesArePaid
  <2> QED
    BY <2>1, <2>2 DEF CopyInv, Init, BatchIsWorkedOn, SessionHasLock
<1>2. CopyInv => DuplicateNeedsFault
  <2> SUFFICES ASSUME CopyInv, NEW m \in Messages PROVE sent[m] <= 1 + faults
    BY DEF DuplicateNeedsFault
  <2>1. /\ IsFiniteSet(Senders(m)) /\ IsFiniteSet(Stopping)
        /\ sent[m] + Cardinality(Senders(m)) + One(Open(m)) + Cardinality(Stopping) <= 1 + faults
    BY DEF CopyInv, CopiesArePaid
  <2>2. Cardinality(Senders(m)) \in Nat /\ Cardinality(Stopping) \in Nat
    BY <2>1, FS_CardinalityType
  <2>3. One(Open(m)) \in Nat /\ sent[m] \in Nat /\ faults \in Nat
    BY DEF One, CopyInv, TypeOK
  <2> QED
    BY <2>1, <2>2, <2>3
<1> QED
  BY <1>1, <1>2, CopyStep, PTL DEF Spec
=============================================================================
