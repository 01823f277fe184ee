-------------------------- MODULE CommitOffsetQueue --------------------------
(***************************************************************************)
(* A listener with the commit offset queue (pkg/message/listenerqueue.go): *)
(* messages of a partition are handled concurrently and may be done out of *)
(* order, but the broker keeps one offset, up to which everything counts   *)
(* as consumed.  The queue therefore commits the last message of the       *)
(* longest processed prefix.  After a crash or a restart the broker goes   *)
(* on behind the committed offset.                                         *)
(*                                                                         *)
(* AcknowledgeResult holds the queue's mutex while it calls CommitOffset,  *)
(* so it is one step.  The broker is external: it delivers the offsets in  *)
(* order, and a commit that returns an error may or may not have happened. *)
(***************************************************************************)
EXTENDS Integers, FiniteSets, Sequences

CONSTANTS
    MaxOffset,   \* bound on the messages published
    Unhandled,   \* offsets of messages that are acknowledged unhandled
    MaxSize,     \* the capacity of the queue
    MaxFaults    \* bound on failed commits, cancellations and crashes

Offsets == 1 .. MaxOffset

ASSUME QueueBoundsAssumption == MaxOffset \in Nat /\ MaxSize \in Nat \ {0} /\ MaxFaults \in Nat
ASSUME UnhandledAssumption == Unhandled \subseteq Offsets

VARIABLES
    published,  \* the last offset of the partition
    committed,  \* the offset the broker keeps for the consumer
    handled,    \* the offsets whose handlers have succeeded at some time
    proc,       \* the context is live, cancelled, or no process
    position,   \* the last offset the consumer has received
    listener,   \* where the consumerWorker is
    tokens,     \* the elements of processingTokens
    queue,      \* processingQueue: the offsets in the order of arrival
    processed,  \* the offsets in the queue whose Processed flag is set
    task,       \* task[o]: where the goroutine of message o is
    faults      \* how many faults have happened

brokerVars == <<published, committed, handled>>
queueVars  == <<tokens, queue, processed>>
consumerVars == <<brokerVars, proc, position, listener, queueVars, task, faults>>

QueueTypeOK ==
    /\ published \in 0 .. MaxOffset
    /\ committed \in 0 .. published
    /\ handled \subseteq Offsets
    /\ proc \in {"run", "stop", "down"}
    /\ position \in 0 .. published
    /\ listener \in {"token", "receive", "exit"}
    /\ tokens \in 0 .. MaxSize
    /\ queue \in Seq(Offsets) /\ Len(queue) <= MaxSize
    /\ processed \subseteq Offsets
    /\ task \in [Offsets -> {"none", "handle", "ack", "left"}]
    /\ faults \in Nat

NoTask == [o \in Offsets |-> "none"]

QueueInit ==
    /\ published = 0 /\ committed = 0 /\ handled = {}
    /\ proc = "run" /\ position = 0
    /\ listener = "token" /\ tokens = MaxSize /\ queue = <<>> /\ processed = {}
    /\ task = NoTask
    /\ faults = 0

Fault == faults < MaxFaults /\ faults' = faults + 1

-----------------------------------------------------------------------------
Publish ==
    /\ published < MaxOffset
    /\ published' = published + 1
    /\ UNCHANGED <<committed, handled, proc, position, listener, queueVars, task, faults>>

(* The consumerWorker takes a processing token ...                         *)
TakeToken ==
    /\ proc # "down" /\ listener = "token" /\ tokens > 0
    /\ tokens' = tokens - 1
    /\ listener' = "receive"
    /\ UNCHANGED <<brokerVars, proc, position, queue, processed, task, faults>>

(* ... and receives the next message.  AddProcessing refuses it when the   *)
(* queue is full; otherwise a goroutine is started for it, which goes to   *)
(* the acknowledgement at once when nobody can handle the message.         *)
AddProcessing ==
    /\ proc # "down" /\ listener = "receive" /\ position < published
    /\ position' = position + 1
    /\ IF Len(queue) = MaxSize
       THEN listener' = "exit" /\ UNCHANGED <<queue, task>>
       ELSE /\ queue' = Append(queue, position + 1)
            /\ task' = [task EXCEPT ![position + 1] =
                           IF position + 1 \in Unhandled THEN "ack" ELSE "handle"]
            /\ listener' = "token"
    /\ UNCHANGED <<brokerVars, proc, tokens, processed, faults>>

(* The handlers succeed; they are retried as long as they fail.            *)
Handle(o) ==
    /\ task[o] = "handle"
    /\ handled' = handled \union {o}
    /\ task' = [task EXCEPT ![o] = "ack"]
    /\ UNCHANGED <<published, committed, proc, position, listener, queueVars, faults>>

-----------------------------------------------------------------------------
(* The Processed flags with that of o set, if o is still in the queue.     *)
Marked(o) == IF \E i \in DOMAIN queue : queue[i] = o THEN processed \union {o} ELSE processed

(* Faulty variant: the last processed message, whatever is before it.      *)
LastProcessedAnywhere(flags) ==
    CHOOSE n \in 0 .. Len(queue) :
        /\ n > 0 => queue[n] \in flags
        /\ \A i \in 1 .. Len(queue) : i > n => queue[i] \notin flags

(* The length of the longest processed prefix.                             *)
LastProcessed(flags) ==
    CHOOSE n \in 0 .. Len(queue) :
        /\ \A i \in 1 .. n : queue[i] \in flags
        /\ n < Len(queue) => queue[n + 1] \notin flags

(* Nothing can be committed yet.                                           *)
AcknowledgeLater(o) ==
    /\ task[o] = "ack" /\ LastProcessed(Marked(o)) = 0
    /\ processed' = Marked(o)
    /\ task' = [task EXCEPT ![o] = "none"]
    /\ UNCHANGED <<brokerVars, proc, position, listener, tokens, queue, faults>>

(* Faulty variant: the offset of the acknowledged message is committed.    *)
AcknowledgeOwnOffset(o) ==
    LET n == LastProcessed(Marked(o))
    IN  /\ task[o] = "ack" /\ n > 0
        /\ committed' = o
        /\ processed' = Marked(o) \ {queue[i] : i \in 1 .. n}
        /\ queue' = SubSeq(queue, n + 1, Len(queue))
        /\ tokens' = tokens + n
        /\ task' = [task EXCEPT ![o] = "none"]
        /\ UNCHANGED <<published, handled, proc, position, listener, faults>>

(* The prefix is committed, taken off the queue and paid for with tokens.  *)
Acknowledge(o) ==
    LET n == LastProcessed(Marked(o))
    IN  /\ task[o] = "ack" /\ n > 0
        /\ committed' = queue[n]
        /\ processed' = Marked(o) \ {queue[i] : i \in 1 .. n}
        /\ queue' = SubSeq(queue, n + 1, Len(queue))
        /\ tokens' = tokens + n
        /\ task' = [task EXCEPT ![o] = "none"]
        /\ UNCHANGED <<published, handled, proc, position, listener, faults>>

(* Faulty variant: the error of CommitOffset is dropped.                   *)
AcknowledgeErrorDropped(o) ==
    LET n == LastProcessed(Marked(o))
    IN  /\ task[o] = "ack" /\ n > 0
        /\ committed' \in {committed, queue[n]}
        /\ processed' = Marked(o)
        /\ IF proc = "run" THEN Fault ELSE UNCHANGED faults
        /\ task' = [task EXCEPT ![o] = "none"]
        /\ UNCHANGED <<published, handled, proc, position, listener, tokens, queue>>

(* CommitOffset returns an error: the flag stays set, the rest is left as  *)
(* it was and the acknowledgement is retried.                              *)
AcknowledgeError(o) ==
    LET n == LastProcessed(Marked(o))
    IN  /\ task[o] = "ack" /\ n > 0
        /\ committed' \in {committed, queue[n]}
        /\ processed' = Marked(o)
        /\ IF proc = "run" THEN Fault ELSE UNCHANGED faults
        /\ UNCHANGED <<published, handled, proc, position, listener, tokens, queue, task>>

(* Handlers or the acknowledgement give up under a cancelled context.      *)
LeaveTask(o) ==
    /\ proc = "stop" /\ task[o] \in {"handle", "ack"}
    /\ task' = [task EXCEPT ![o] = "left"]
    /\ UNCHANGED <<brokerVars, proc, position, listener, queueVars, faults>>

-----------------------------------------------------------------------------
CancelConsumer ==
    /\ proc = "run" /\ Fault
    /\ proc' = "stop"
    /\ UNCHANGED <<brokerVars, position, listener, queueVars, task>>

(* The consumerWorker finds its context cancelled and closes the consumer. *)
ListenerStop ==
    /\ proc = "stop" /\ listener # "exit"
    /\ listener' = "exit"
    /\ UNCHANGED <<brokerVars, proc, position, queueVars, task, faults>>

Vanish ==
    /\ proc' = "down"
    /\ listener' = "token" /\ tokens' = MaxSize /\ queue' = <<>> /\ processed' = {}
    /\ task' = NoTask
    /\ UNCHANGED <<brokerVars, position>>

Crash == proc # "down" /\ Fault /\ Vanish

(* The consumerWorker has waited for the goroutines and returned.          *)
Exit ==
    /\ proc # "down" /\ listener = "exit"
    /\ \A o \in Offsets : task[o] \in {"none", "left"}
    /\ Vanish
    /\ UNCHANGED faults

(* A new consumer goes on behind the committed offset.                     *)
Restart ==
    /\ proc = "down"
    /\ proc' = "run"
    /\ position' = committed
    /\ UNCHANGED <<brokerVars, listener, queueVars, task, faults>>

TaskStep(o) ==
    Handle(o) \/ AcknowledgeLater(o) \/ Acknowledge(o) \/ AcknowledgeError(o) \/ LeaveTask(o)

ListenerStep == TakeToken \/ AddProcessing \/ ListenerStop \/ Exit

QueueNext ==
    \/ Publish \/ ListenerStep \/ CancelConsumer \/ Crash \/ Restart
    \/ \E o \in Offsets : TaskStep(o)

QueueSpec == QueueInit /\ [][QueueNext]_consumerVars

(***************************************************************************)
(* Goroutines that can run do run, the broker delivers what was published, *)
(* a commit that is retried succeeds in the end, the process is restarted. *)
(***************************************************************************)
QueueFairness ==
    /\ WF_consumerVars(ListenerStep) /\ WF_consumerVars(Restart)
    /\ \A o \in Offsets : WF_consumerVars(TaskStep(o))

FairQueueSpec == QueueSpec /\ QueueFairness

-----------------------------------------------------------------------------
(***************************************************************************)
(* No message is skipped: everything up to the committed offset has been   *)
(* handled (or cannot be), although handlers finish out of order, commits  *)
(* fail halfway and the consumer is restarted from the committed offset.   *)
(***************************************************************************)
CommittedIsHandled == \A o \in 1 .. committed : o \in handled \union Unhandled

(***************************************************************************)
(* The committed offset never goes back, although an acknowledgement that  *)
(* failed is repeated after later messages were committed.                 *)
(***************************************************************************)
CommitsForward == [][committed' >= committed]_consumerVars

(***************************************************************************)
(* Every published message is committed in the end, in spite of failed     *)
(* commits, cancellations and crashes: no token of the queue gets lost.    *)
(***************************************************************************)
EverythingIsCommitted == \A o \in Offsets : published >= o ~> committed >= o
=============================================================================
