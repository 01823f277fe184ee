----------------------------- MODULE HandlerPool -----------------------------
(***************************************************************************)
(* The handlers of several messages on one worker pool.  Every message has *)
(* a goroutine processMessage (pkg/message/listener.go) that starts its    *)
(* handlers in a group (pkg/worker/group.go), waits for the group and      *)
(* acknowledges the message, or starts all the handlers over when one of   *)
(* them failed.  The groups share a pool (pkg/worker/pool.go) that limits  *)
(* the number of jobs with a counter and a condition variable.             *)
(*                                                                         *)
(* The critical sections of the pool's mutex are steps; the decrement of   *)
(* the counter and the Signal after it are two.  Cond.Wait enlists the     *)
(* goroutine before it unlocks, so the test of the counter and the         *)
(* enlisting are one.                                                      *)
(***************************************************************************)
EXTENDS Integers, FiniteSets, Sequences

CONSTANTS
    Groups,       \* the messages that are processed at the same time
    HandlersOf,   \* HandlersOf[g]: the handlers of a message, in the order of their Do
    MaxWorkers,   \* the limit of the pool, 0 for none
    MaxFailures,  \* bound on handlers whose retry gives up
    NoError       \* "errChan is empty"

Handlers == UNION {HandlersOf[g] : g \in Groups}

ASSUME HandlersAssumption ==
    \A g \in Groups : HandlersOf[g] \subseteq Nat /\ IsFiniteSet(HandlersOf[g]) /\ HandlersOf[g] # {}
ASSUME GroupsAssumption == IsFiniteSet(Groups)
ASSUME BoundsAssumption == MaxWorkers \in Nat /\ MaxFailures \in Nat
ASSUME NoErrorAssumption == NoError \notin Handlers

VARIABLES
    ctx,         \* the listener's context: "run" or "stop"
    pc,          \* pc[g]: where the goroutine processMessage is
    job,         \* job[g][h]: where the job of a handler is in this round
    ok,          \* ok[g]: the handlers that returned nil in this round
    wg,          \* wg[g]: the group's WaitGroup
    errChan,     \* errChan[g]: the error in the group's channel, by its handler
    current,     \* the pool's currentWorkers
    releasing,   \* workers that have run their job and still count
    signalling,  \* workers that no longer count and will call Signal
    sleepers,    \* the condition variable's list, first come first served
    failures     \* how many handlers have given up

groupVars == <<ok, wg, errChan>>
poolVars  == <<current, releasing, signalling, sleepers>>
vars == <<ctx, pc, job, groupVars, poolVars, failures>>

PcStates  == {"loop", "do", "asleep", "awake", "wait", "acked", "left"}
JobStates == {"none", "run", "report", "ended"}

Running == {p \in Groups \X Handlers : job[p[1]][p[2]] \in {"run", "report"}}

TypeOK ==
    /\ ctx \in {"run", "stop"}
    /\ pc \in [Groups -> PcStates]
    /\ job \in [Groups -> [Handlers -> JobStates]]
    /\ ok \in [Groups -> SUBSET Handlers]
    /\ wg \in [Groups -> Nat]
    /\ errChan \in [Groups -> Handlers \union {NoError}]
    /\ current \in Nat /\ releasing \in Nat /\ signalling \in Nat
    /\ sleepers \in Seq(Groups)
    /\ failures \in Nat

NoJob == [h \in Handlers |-> "none"]

Init ==
    /\ ctx = "run"
    /\ pc = [g \in Groups |-> "loop"]
    /\ job = [g \in Groups |-> NoJob]
    /\ ok = [g \in Groups |-> {}]
    /\ wg = [g \in Groups |-> 0]
    /\ errChan = [g \in Groups |-> NoError]
    /\ current = 0 /\ releasing = 0 /\ signalling = 0
    /\ sleepers = <<>>
    /\ failures = 0

-----------------------------------------------------------------------------
(* The goroutine finds its context live and creates a group.  The jobs of  *)
(* an earlier round may still have to leave the pool.                      *)
WithinGroup(g) ==
    /\ pc[g] = "loop" /\ ctx = "run"
    /\ pc' = [pc EXCEPT ![g] = "do"]
    /\ job' = [job EXCEPT ![g] = NoJob]
    /\ ok' = [ok EXCEPT ![g] = {}]
    /\ wg' = [wg EXCEPT ![g] = 0]
    /\ errChan' = [errChan EXCEPT ![g] = NoError]
    /\ UNCHANGED <<ctx, poolVars, failures>>

(* The goroutine finds its context cancelled and returns.                  *)
Leave(g) ==
    /\ pc[g] = "loop" /\ ctx = "stop"
    /\ pc' = [pc EXCEPT ![g] = "left"]
    /\ UNCHANGED <<ctx, job, groupVars, poolVars, failures>>

(* Do starts the handlers in their order.                                  *)
IsNext(g, h) == job[g][h] = "none" /\ \A i \in HandlersOf[g] : i < h => job[g][i] # "none"

IsLast(g, h) == \A i \in HandlersOf[g] : i <= h

PoolFull == MaxWorkers > 0 /\ current >= MaxWorkers

(* The pool takes the job: it counts, and a goroutine runs it.             *)
StartJob(g) ==
    \E h \in HandlersOf[g] :
        /\ IsNext(g, h)
        /\ job' = [job EXCEPT ![g][h] = "run"]
        /\ pc' = [pc EXCEPT ![g] = IF IsLast(g, h) THEN "wait" ELSE "do"]
        /\ current' = IF MaxWorkers > 0 THEN current + 1 ELSE current
        /\ UNCHANGED sleepers

(* Every worker is busy: Wait.                                             *)
Sleep(g) ==
    /\ pc' = [pc EXCEPT ![g] = "asleep"]
    /\ sleepers' = Append(sleepers, g)
    /\ UNCHANGED <<job, current>>

(* group.Do: wg.Add, then pool.Do up to the start of the job or a Wait.    *)
Do(g) ==
    /\ pc[g] = "do"
    /\ wg' = [wg EXCEPT ![g] = @ + 1]
    /\ IF PoolFull THEN Sleep(g) ELSE StartJob(g)
    /\ UNCHANGED <<ctx, ok, errChan, releasing, signalling, failures>>

(* Faulty variant: pool.Do tests the counter with if, not for.             *)
ResumeUnchecked(g) ==
    /\ pc[g] = "awake"
    /\ StartJob(g)
    /\ UNCHANGED <<ctx, groupVars, releasing, signalling, failures>>

(* Wait returns, with the mutex, and the counter is tested again.          *)
Resume(g) ==
    /\ pc[g] = "awake"
    /\ IF PoolFull THEN Sleep(g) ELSE StartJob(g)
    /\ UNCHANGED <<ctx, groupVars, releasing, signalling, failures>>

-----------------------------------------------------------------------------
(* The handler returns nil.                                                *)
Succeed(g, h) ==
    /\ job[g][h] = "run"
    /\ job' = [job EXCEPT ![g][h] = "report"]
    /\ ok' = [ok EXCEPT ![g] = @ \union {h}]
    /\ UNCHANGED <<ctx, pc, wg, errChan, poolVars, failures>>

(* Faulty variant: handleErr drops the error.                              *)
FailSilently(g, h) ==
    /\ job[g][h] = "run"
    /\ IF ctx = "run" THEN failures < MaxFailures /\ failures' = failures + 1 ELSE UNCHANGED failures
    /\ job' = [job EXCEPT ![g][h] = "report"]
    /\ UNCHANGED <<ctx, pc, groupVars, poolVars>>

(***************************************************************************)
(* The retry of a handler gives up: it is limited, or the context is       *)
(* cancelled.  handleErr keeps the first error.  The group's context is    *)
(* cancelled with it, but the handlers run under the message's.            *)
(***************************************************************************)
Fail(g, h) ==
    /\ job[g][h] = "run"
    /\ IF ctx = "run" THEN failures < MaxFailures /\ failures' = failures + 1 ELSE UNCHANGED failures
    /\ job' = [job EXCEPT ![g][h] = "report"]
    /\ errChan' = [errChan EXCEPT ![g] = IF @ = NoError THEN h ELSE @]
    /\ UNCHANGED <<ctx, pc, ok, wg, poolVars>>

(* The job calls wg.Done and is over; the worker has to leave the pool.    *)
Finish(g, h) ==
    /\ job[g][h] = "report"
    /\ job' = [job EXCEPT ![g][h] = "ended"]
    /\ wg' = [wg EXCEPT ![g] = @ - 1]
    /\ releasing' = IF MaxWorkers > 0 THEN releasing + 1 ELSE releasing
    /\ UNCHANGED <<ctx, pc, ok, errChan, current, signalling, sleepers, failures>>

(* Faulty variant: Signal is called only by a worker of a full pool.       *)
ReleaseSignalWhenFull ==
    /\ releasing > 0
    /\ releasing' = releasing - 1
    /\ current' = current - 1
    /\ signalling' = IF PoolFull THEN signalling + 1 ELSE signalling
    /\ UNCHANGED <<ctx, pc, job, groupVars, sleepers, failures>>

(* A worker takes itself off the counter ...                               *)
Release ==
    /\ releasing > 0
    /\ releasing' = releasing - 1
    /\ current' = current - 1
    /\ signalling' = signalling + 1
    /\ UNCHANGED <<ctx, pc, job, groupVars, sleepers, failures>>

(* ... and, after it unlocked the mutex, wakes the first sleeper.          *)
Signal ==
    /\ signalling > 0
    /\ signalling' = signalling - 1
    /\ IF sleepers = <<>>
       THEN UNCHANGED <<pc, sleepers>>
       ELSE /\ pc' = [pc EXCEPT ![Head(sleepers)] = "awake"]
            /\ sleepers' = Tail(sleepers)
    /\ UNCHANGED <<ctx, job, groupVars, current, releasing, failures>>

-----------------------------------------------------------------------------
(***************************************************************************)
(* group.Wait returns.  Without an error the message is acknowledged; with *)
(* one, which the queue cannot pass on, or when a cancelled context ends   *)
(* the retry of the acknowledgement, the loop begins again.                *)
(***************************************************************************)
Wait(g) ==
    /\ pc[g] = "wait" /\ wg[g] = 0
    /\ \/ errChan[g] = NoError /\ pc' = [pc EXCEPT ![g] = "acked"]
       \/ (errChan[g] # NoError \/ ctx = "stop") /\ pc' = [pc EXCEPT ![g] = "loop"]
    /\ UNCHANGED <<ctx, job, groupVars, poolVars, failures>>

Cancel ==
    /\ ctx = "run"
    /\ ctx' = "stop"
    /\ UNCHANGED <<pc, job, groupVars, poolVars, failures>>

(* Everything has returned: nothing is left to do.                         *)
Terminated ==
    /\ \A g \in Groups : pc[g] \in {"acked", "left"}
    /\ ctx = "stop" /\ releasing = 0 /\ signalling = 0
    /\ UNCHANGED vars

GroupStep(g) == WithinGroup(g) \/ Leave(g) \/ Do(g) \/ Resume(g) \/ Wait(g)

JobStep(g, h) == Succeed(g, h) \/ Fail(g, h) \/ Finish(g, h)

Next ==
    \/ \E g \in Groups : GroupStep(g) \/ \E h \in HandlersOf[g] : JobStep(g, h)
    \/ Release \/ Signal \/ Cancel \/ Terminated

Spec == Init /\ [][Next]_vars

(***************************************************************************)
(* Goroutines that can run do run, and handlers return.                    *)
(***************************************************************************)
Fairness ==
    /\ \A g \in Groups : WF_vars(GroupStep(g)) /\ \A h \in HandlersOf[g] : WF_vars(JobStep(g, h))
    /\ WF_vars(Release) /\ WF_vars(Signal)

FairSpec == Spec /\ Fairness

-----------------------------------------------------------------------------
(***************************************************************************)
(* The pool never runs more jobs than MaxWorkers, although a goroutine     *)
(* that was woken for a free place can find it taken by another Do that    *)
(* came between the decrement and the Signal.                              *)
(***************************************************************************)
PoolLimit == MaxWorkers > 0 => Cardinality(Running) <= MaxWorkers

(***************************************************************************)
(* A message is acknowledged only when every one of its handlers returned  *)
(* nil in the same round, whatever failed or succeeded before, and rounds  *)
(* do not overlap: when its goroutine has left the group's Wait (to start  *)
(* the handlers over, to acknowledge or to return) none of its handlers is *)
(* running.                                                                *)
(***************************************************************************)
AckNeedsWholeRound ==
    \A g \in Groups :
        /\ pc[g] = "acked" => ok[g] = HandlersOf[g]
        /\ pc[g] \in {"loop", "acked", "left"} =>
               \A h \in HandlersOf[g] : job[g][h] \in {"none", "ended"}

(***************************************************************************)
(* Every message is acknowledged in the end, or its goroutine returns after*)
(* a cancellation: no goroutine sleeps forever while the pool has room.    *)
(***************************************************************************)
EveryMessageEnds == \A g \in Groups : <>(pc[g] \in {"acked", "left"})
=============================================================================
