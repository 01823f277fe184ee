--------------------------- MODULE ListenerProofs ---------------------------
(***************************************************************************)
(* Proofs about the two parts of a listener: HandlerPool, for every number *)
(* of messages and handlers, every limit of the pool and any number of     *)
(* failing handlers; and CommitOffsetQueue, the queue of the messages that *)
(* are handled, for every number of messages, every capacity of the queue  *)
(* and any number of faults.                                               *)
(***************************************************************************)
EXTENDS HandlerPool, CommitOffsetQueue, FiniteSetTheorems, SequenceTheorems, WellFoundedInduction,
        TLAPS

(* The jobs of a group that its WaitGroup waits for.                       *)
Active(g) == {h \in HandlersOf[g] : job[g][h] \in {"run", "report"}}

(* The goroutine is inside Do and has added the job to the WaitGroup.      *)
InDo(g) == pc[g] \in {"asleep", "awake"}

Awake == {g \in Groups : pc[g] = "awake"}

(* Only the handlers of the message have jobs, and only they succeed.      *)
JobsAreHandlers ==
    \A g \in Groups :
        /\ ok[g] \subseteq HandlersOf[g]
        /\ \A h \in Handlers : job[g][h] # "none" => h \in HandlersOf[g]

(* The list of the condition variable has the goroutines that are asleep,  *)
(* each of them once.                                                      *)
SleepersAreAsleep ==
    /\ \A i \in 1 .. Len(sleepers) : pc[sleepers[i]] = "asleep"
    /\ \A i, j \in 1 .. Len(sleepers) : sleepers[i] = sleepers[j] => i = j

(* The WaitGroup counts the jobs that are not over, and the one in Do.     *)
WaitGroupCounts ==
    \A g \in Groups : wg[g] = Cardinality(Active(g)) + (IF InDo(g) THEN 1 ELSE 0)

(* The pool counts the jobs that run and the workers that have to leave.   *)
PoolCounts ==
    /\ IsFiniteSet(Running)
    /\ MaxWorkers > 0 => current = Cardinality(Running) + releasing /\ current <= MaxWorkers
    /\ MaxWorkers = 0 => current = 0 /\ releasing = 0

(* Outside a round no job of the group runs.                               *)
RoundIsOver ==
    \A g \in Groups : pc[g] \in {"loop", "acked", "left"} => Active(g) = {}

PoolInv ==
    /\ TypeOK /\ JobsAreHandlers /\ SleepersAreAsleep
    /\ WaitGroupCounts /\ PoolCounts /\ RoundIsOver

(* A handler that is through has succeeded, unless the group has an error. *)
EndedIsOk ==
    \A g \in Groups : \A h \in HandlersOf[g] :
        job[g][h] \in {"report", "ended"} => h \in ok[g] \/ errChan[g] # NoError

(* The group waits when the job of its last handler has been started.      *)
WaitsForAll ==
    \A g \in Groups : pc[g] = "wait" => \A h \in HandlersOf[g] : job[g][h] # "none"

AckInv == PoolInv /\ EndedIsOk /\ WaitsForAll /\ AckNeedsWholeRound

(* Places that are free, or will be, are matched by wake-ups on their way. *)
WakeUpsCoverPlaces ==
    MaxWorkers > 0 /\ sleepers # <<>> => current + signalling + Cardinality(Awake) >= MaxWorkers

WakeInv == PoolInv /\ WakeUpsCoverPlaces

-----------------------------------------------------------------------------
(***************************************************************************)
(* The sets of jobs.                                                       *)
(***************************************************************************)
LEMMA HandlersFinite ==
    ASSUME NEW g \in Groups
    PROVE  HandlersOf[g] \subseteq Handlers /\ IsFiniteSet(HandlersOf[g]) /\ HandlersOf[g] \subseteq Nat
  BY HandlersAssumption DEF Handlers

LEMMA ActiveFinite ==
    ASSUME NEW g \in Groups
    PROVE  IsFiniteSet(Active(g)) /\ Cardinality(Active(g)) \in Nat
<1>1. Active(g) \in SUBSET HandlersOf[g]
  BY DEF Active
<1> QED
  BY <1>1, HandlersFinite, FS_Subset, FS_CardinalityType

(* One job goes from one state to another.                                 *)
Moves(g, h, from, to) == job[g][h] = from /\ job' = [job EXCEPT ![g][h] = to]

LEMMA MovesOne ==
    ASSUME TypeOK, NEW g \in Groups, NEW h \in HandlersOf[g], NEW from, NEW to \in JobStates,
           Moves(g, h, from, to)
    PROVE  /\ job' \in [Groups -> [Handlers -> JobStates]]
           /\ job'[g][h] = to
           /\ \A k \in Groups, i \in Handlers : <<k, i>> # <<g, h>> => job'[k][i] = job[k][i]
<1>1. h \in Handlers
  BY HandlersFinite
<1> QED
  BY <1>1 DEF Moves, TypeOK

LEMMA JobStarts ==
    ASSUME TypeOK, IsFiniteSet(Running), NEW g \in Groups, NEW h \in HandlersOf[g],
           Moves(g, h, "none", "run")
    PROVE  /\ IsFiniteSet(Running') /\ Cardinality(Running') = Cardinality(Running) + 1
           /\ Cardinality(Active(g)') = Cardinality(Active(g)) + 1
           /\ \A k \in Groups \ {g} : Active(k)' = Active(k)
<1>1. /\ job'[g][h] = "run" /\ job[g][h] = "none" /\ h \in Handlers
      /\ \A k \in Groups, i \in Handlers : <<k, i>> # <<g, h>> => job'[k][i] = job[k][i]
  BY MovesOne, HandlersFinite DEF JobStates, Moves
<1>2. Running' = Running \union {<<g, h>>} /\ <<g, h>> \notin Running
  BY <1>1 DEF Running
<1>3. Active(g)' = Active(g) \union {h} /\ h \notin Active(g)
  BY <1>1, HandlersFinite DEF Active
<1>4. \A k \in Groups \ {g} : Active(k)' = Active(k)
  BY <1>1, HandlersFinite DEF Active
<1>5. Cardinality(Running') = Cardinality(Running) + 1 /\ IsFiniteSet(Running')
  BY <1>2, FS_AddElement
<1>6. Cardinality(Active(g)') = Cardinality(Active(g)) + 1
  BY <1>3, ActiveFinite, FS_AddElement
<1> QED
  BY <1>4, <1>5, <1>6

LEMMA JobReports ==
    ASSUME TypeOK, NEW g \in Groups, NEW h \in HandlersOf[g], Moves(g, h, "run", "report")
    PROVE  Running' = Running /\ \A k \in Groups : Active(k)' = Active(k)
<1>1. /\ job'[g][h] = "report" /\ job[g][h] = "run" /\ h \in Handlers
      /\ \A k \in Groups, i \in Handlers : <<k, i>> # <<g, h>> => job'[k][i] = job[k][i]
  BY MovesOne, HandlersFinite DEF JobStates, Moves
<1>2. Running' = Running
  BY <1>1 DEF Running
<1>3. \A k \in Groups : Active(k)' = Active(k)
  BY <1>1, HandlersFinite DEF Active
<1> QED
  BY <1>2, <1>3

LEMMA JobEnds ==
    ASSUME TypeOK, IsFiniteSet(Running), NEW g \in Groups, NEW h \in HandlersOf[g],
           Moves(g, h, "report", "ended")
    PROVE  /\ IsFiniteSet(Running') /\ Cardinality(Running') = Cardinality(Running) - 1
           /\ Cardinality(Active(g)') = Cardinality(Active(g)) - 1
           /\ Cardinality(Active(g)) > 0
           /\ \A k \in Groups \ {g} : Active(k)' = Active(k)
           /\ Active(g)' \subseteq Active(g)
<1>1. /\ job'[g][h] = "ended" /\ job[g][h] = "report" /\ h \in Handlers
      /\ \A k \in Groups, i \in Handlers : <<k, i>> # <<g, h>> => job'[k][i] = job[k][i]
  BY MovesOne, HandlersFinite DEF JobStates, Moves
<1>2. Running' = Running \ {<<g, h>>} /\ <<g, h>> \in Running
  BY <1>1 DEF Running
<1>3. Active(g)' = Active(g) \ {h} /\ h \in Active(g)
  BY <1>1, HandlersFinite DEF Active
<1>4. \A k \in Groups \ {g} : Active(k)' = Active(k)
  BY <1>1, HandlersFinite DEF Active
<1>5. Cardinality(Running') = Cardinality(Running) - 1 /\ IsFiniteSet(Running')
  BY <1>2, FS_RemoveElement
<1>6. Cardinality(Active(g)') = Cardinality(Active(g)) - 1
  BY <1>3, ActiveFinite, FS_RemoveElement
<1>7. Cardinality(Active(g)) > 0
  BY <1>3, ActiveFinite, FS_EmptySet
<1> QED
  BY <1>3, <1>4, <1>5, <1>6, <1>7

-----------------------------------------------------------------------------
(***************************************************************************)
(* The counters of the pool and of the groups.                             *)
(***************************************************************************)

(* The steps by name.                                                      *)
LEMMA NextSteps ==
    ASSUME Next, NEW Q,
           ASSUME NEW g \in Groups, WithinGroup(g) PROVE Q,
           ASSUME NEW g \in Groups, Leave(g) PROVE Q,
           ASSUME NEW g \in Groups, Do(g), PoolFull PROVE Q,
           ASSUME NEW g \in Groups, Do(g), ~PoolFull PROVE Q,
           ASSUME NEW g \in Groups, Resume(g), PoolFull PROVE Q,
           ASSUME NEW g \in Groups, Resume(g), ~PoolFull PROVE Q,
           ASSUME NEW g \in Groups, Wait(g) PROVE Q,
           ASSUME NEW g \in Groups, NEW h \in HandlersOf[g], Succeed(g, h) PROVE Q,
           ASSUME NEW g \in Groups, NEW h \in HandlersOf[g], Fail(g, h) PROVE Q,
           ASSUME NEW g \in Groups, NEW h \in HandlersOf[g], Finish(g, h) PROVE Q,
           ASSUME Release PROVE Q,
           ASSUME Signal PROVE Q,
           ASSUME Cancel PROVE Q,
           ASSUME Terminated PROVE Q
    PROVE  Q
<1>1. CASE \E g \in Groups : GroupStep(g)
  BY <1>1 DEF GroupStep
<1>2. CASE \E g \in Groups : \E h \in HandlersOf[g] : JobStep(g, h)
  BY <1>2 DEF JobStep
<1>3. CASE Release \/ Signal \/ Cancel \/ Terminated
  BY <1>3
<1> QED
  BY <1>1, <1>2, <1>3 DEF Next

(* The types of the variables a started job changes.                       *)
LEMMA StartJobMoves ==
    ASSUME TypeOK, NEW g \in Groups, StartJob(g)
    PROVE  \E h \in HandlersOf[g] :
              /\ Moves(g, h, "none", "run") /\ IsNext(g, h)
              /\ pc' = [pc EXCEPT ![g] = IF IsLast(g, h) THEN "wait" ELSE "do"]
              /\ current' = IF MaxWorkers > 0 THEN current + 1 ELSE current
              /\ sleepers' = sleepers
  BY DEF StartJob, Moves, IsNext

LEMMA PoolTypes == PoolInv /\ [Next]_vars => TypeOK'
<1> SUFFICES ASSUME PoolInv, [Next]_vars PROVE TypeOK'
  OBVIOUS
<1>0. TypeOK
  BY DEF PoolInv
<1>1. ASSUME NEW g \in Groups, WithinGroup(g) PROVE TypeOK'
  BY <1>0, <1>1 DEF TypeOK, WithinGroup, PcStates, JobStates, NoJob, poolVars
<1>2. ASSUME NEW g \in Groups, Leave(g) PROVE TypeOK'
  BY <1>0, <1>2 DEF TypeOK, Leave, PcStates, poolVars, groupVars
<1>3. ASSUME NEW g \in Groups, Do(g), PoolFull PROVE TypeOK'
  <2>1. /\ pc' = [pc EXCEPT ![g] = "asleep"] /\ wg' = [wg EXCEPT ![g] = @ + 1]
        /\ UNCHANGED <<ctx, job, current, ok, errChan, releasing, signalling, failures>>
    BY <1>3 DEF Do, Sleep
  <2>2. sleepers' \in Seq(Groups)
    <3>1. sleepers' = Append(sleepers, g) /\ sleepers \in Seq(Groups)
      BY <1>0, <1>3 DEF TypeOK, Do, Sleep
    <3> QED
      BY <3>1, AppendProperties
  <2> QED
    BY <1>0, <2>1, <2>2 DEF TypeOK, PcStates
<1>4. ASSUME NEW g \in Groups, Do(g), ~PoolFull PROVE TypeOK'
  <2>1. PICK h \in HandlersOf[g] :
            /\ Moves(g, h, "none", "run") /\ IsNext(g, h)
            /\ pc' = [pc EXCEPT ![g] = IF IsLast(g, h) THEN "wait" ELSE "do"]
            /\ current' = IF MaxWorkers > 0 THEN current + 1 ELSE current
            /\ sleepers' = sleepers
    BY <1>0, <1>4, StartJobMoves DEF Do
  <2>2. job' \in [Groups -> [Handlers -> JobStates]]
    BY <1>0, <2>1, MovesOne DEF JobStates
  <2>3. /\ wg' = [wg EXCEPT ![g] = @ + 1]
        /\ UNCHANGED <<ctx, ok, errChan, releasing, signalling, failures>>
    BY <1>4 DEF Do
  <2>4. pc' \in [Groups -> PcStates] /\ current' \in Nat
    BY <1>0, <2>1 DEF TypeOK, PcStates
  <2> QED
    BY <1>0, <2>1, <2>2, <2>3, <2>4 DEF TypeOK
<1>5. ASSUME NEW g \in Groups, Resume(g), PoolFull PROVE TypeOK'
  <2>1. /\ pc' = [pc EXCEPT ![g] = "asleep"]
        /\ UNCHANGED <<ctx, job, current, wg, ok, errChan, releasing, signalling, failures>>
    BY <1>5 DEF Resume, Sleep, groupVars
  <2>2. sleepers' \in Seq(Groups)
    <3>1. sleepers' = Append(sleepers, g) /\ sleepers \in Seq(Groups)
      BY <1>0, <1>5 DEF TypeOK, Resume, Sleep
    <3> QED
      BY <3>1, AppendProperties
  <2> QED
    BY <1>0, <2>1, <2>2 DEF TypeOK, PcStates
<1>6. ASSUME NEW g \in Groups, Resume(g), ~PoolFull PROVE TypeOK'
  <2>1. PICK h \in HandlersOf[g] :
            /\ Moves(g, h, "none", "run") /\ IsNext(g, h)
            /\ pc' = [pc EXCEPT ![g] = IF IsLast(g, h) THEN "wait" ELSE "do"]
            /\ current' = IF MaxWorkers > 0 THEN current + 1 ELSE current
            /\ sleepers' = sleepers
    BY <1>0, <1>6, StartJobMoves DEF Resume
  <2>2. job' \in [Groups -> [Handlers -> JobStates]]
    BY <1>0, <2>1, MovesOne DEF JobStates
  <2>3. UNCHANGED <<ctx, wg, ok, errChan, releasing, signalling, failures>>
    BY <1>6 DEF Resume, groupVars
  <2>4. pc' \in [Groups -> PcStates] /\ current' \in Nat
    BY <1>0, <2>1 DEF TypeOK, PcStates
  <2> QED
    BY <1>0, <2>1, <2>2, <2>3, <2>4 DEF TypeOK
<1>7. ASSUME NEW g \in Groups, Wait(g) PROVE TypeOK'
  BY <1>0, <1>7 DEF TypeOK, Wait, PcStates, poolVars, groupVars
<1>8. ASSUME NEW g \in Groups, NEW h \in HandlersOf[g], Succeed(g, h) PROVE TypeOK'
  <2>1. job' \in [Groups -> [Handlers -> JobStates]] /\ h \in Handlers
    BY <1>0, <1>8, MovesOne, HandlersFinite DEF JobStates, Moves, Succeed
  <2> QED
    BY <1>0, <1>8, <2>1 DEF TypeOK, Succeed, poolVars
<1>9. ASSUME NEW g \in Groups, NEW h \in HandlersOf[g], Fail(g, h) PROVE TypeOK'
  <2>1. job' \in [Groups -> [Handlers -> JobStates]] /\ h \in Handlers
    BY <1>0, <1>9, MovesOne, HandlersFinite DEF JobStates, Moves, Fail
  <2> QED
    BY <1>0, <1>9, <2>1 DEF TypeOK, Fail, poolVars
<1>10. ASSUME NEW g \in Groups, NEW h \in HandlersOf[g], Finish(g, h) PROVE TypeOK'
  <2>1. job' \in [Groups -> [Handlers -> JobStates]] /\ Cardinality(Active(g)) > 0
    BY <1>0, <1>10, MovesOne, JobEnds DEF JobStates, Moves, Finish, PoolInv, PoolCounts
  <2>2. wg[g] - 1 \in Nat
    <3>1. wg[g] \in Nat /\ wg[g] = Cardinality(Active(g)) + (IF InDo(g) THEN 1 ELSE 0)
      BY <1>0 DEF PoolInv, WaitGroupCounts, TypeOK
    <3> QED
      BY <2>1, <3>1, ActiveFinite
  <2> QED
    BY <1>0, <1>10, <2>1, <2>2 DEF TypeOK, Finish
<1>11. ASSUME Release PROVE TypeOK'
  <2>1. current - 1 \in Nat
    BY <1>0, <1>11, FS_CardinalityType, BoundsAssumption DEF TypeOK, PoolInv, PoolCounts, Release
  <2> QED
    BY <1>0, <1>11, <2>1 DEF TypeOK, Release, groupVars
<1>12. ASSUME Signal PROVE TypeOK'
  <2>1. sleepers # <<>> => Head(sleepers) \in Groups /\ Tail(sleepers) \in Seq(Groups)
    BY <1>0 DEF TypeOK
  <2>2. pc' \in [Groups -> PcStates] /\ sleepers' \in Seq(Groups)
    BY <1>0, <1>12, <2>1 DEF TypeOK, Signal, PcStates
  <2>3. signalling' \in Nat /\ UNCHANGED <<ctx, job, ok, wg, errChan, current, releasing, failures>>
    BY <1>0, <1>12 DEF TypeOK, Signal, groupVars
  <2> QED
    BY <1>0, <2>2, <2>3 DEF TypeOK
<1>13. ASSUME Cancel PROVE TypeOK'
  BY <1>0, <1>13 DEF TypeOK, Cancel, groupVars, poolVars
<1>14. ASSUME Terminated PROVE TypeOK'
  BY <1>0, <1>14 DEF TypeOK, Terminated, vars, groupVars, poolVars
<1>15. CASE UNCHANGED vars
  BY <1>0, <1>15 DEF TypeOK, vars, groupVars, poolVars
<1>16. CASE Next
  BY <1>16, <1>1, <1>2, <1>3, <1>4, <1>5, <1>6, <1>7, <1>8, <1>9, <1>10, <1>11, <1>12,
     <1>13, <1>14, NextSteps
<1> QED
  BY <1>15, <1>16

(* Steps of a goroutine that leave its place in the list alone.            *)
LEMMA SleepersStay ==
    ASSUME SleepersAreAsleep, TypeOK, sleepers' = sleepers,
           \A k \in Groups : pc[k] = "asleep" => pc'[k] = "asleep"
    PROVE  SleepersAreAsleep'
<1>1. \A i \in 1 .. Len(sleepers) : sleepers[i] \in Groups
  BY DEF TypeOK
<1> QED
  BY <1>1 DEF SleepersAreAsleep

LEMMA SleeperComes ==
    ASSUME SleepersAreAsleep, TypeOK, NEW g \in Groups, pc[g] # "asleep", Sleep(g)
    PROVE  SleepersAreAsleep'
<1>1. /\ Len(sleepers') = Len(sleepers) + 1 /\ sleepers'[Len(sleepers) + 1] = g
      /\ \A i \in 1 .. Len(sleepers) : sleepers'[i] = sleepers[i]
  <2>1. sleepers' = Append(sleepers, g) /\ sleepers \in Seq(Groups)
    BY DEF TypeOK, Sleep
  <2> QED
    BY <2>1, AppendProperties
<1>2. Len(sleepers) \in Nat /\ \A i \in 1 .. Len(sleepers) : sleepers[i] \in Groups
  BY DEF TypeOK
<1>3. pc'[g] = "asleep" /\ \A k \in Groups : k # g => pc'[k] = pc[k]
  BY DEF TypeOK, Sleep
<1>4. ASSUME NEW i \in 1 .. Len(sleepers) PROVE sleepers[i] # g
  BY <1>4 DEF SleepersAreAsleep
<1>5. ASSUME NEW i \in 1 .. Len(sleepers') PROVE pc'[sleepers'[i]] = "asleep"
  <2>1. CASE i = Len(sleepers) + 1
    BY <2>1, <1>1, <1>3
  <2>2. CASE i \in 1 .. Len(sleepers)
    BY <2>2, <1>1, <1>2, <1>3, <1>4 DEF SleepersAreAsleep
  <2> QED
    BY <1>1, <1>2, <2>1, <2>2
<1>6. ASSUME NEW i \in 1 .. Len(sleepers'), NEW j \in 1 .. Len(sleepers'),
             sleepers'[i] = sleepers'[j]
      PROVE  i = j
  <2>1. i = Len(sleepers) + 1 \/ i \in 1 .. Len(sleepers)
    BY <1>1, <1>2
  <2>2. j = Len(sleepers) + 1 \/ j \in 1 .. Len(sleepers)
    BY <1>1, <1>2
  <2> QED
    BY <2>1, <2>2, <1>1, <1>2, <1>4, <1>6 DEF SleepersAreAsleep
<1> QED
  BY <1>5, <1>6 DEF SleepersAreAsleep

LEMMA SleeperGoes ==
    ASSUME SleepersAreAsleep, TypeOK, Signal
    PROVE  SleepersAreAsleep'
<1>1. CASE sleepers = <<>>
  BY <1>1, SleepersStay DEF Signal
<1>2. CASE sleepers # <<>>
  <2>1. /\ sleepers \in Seq(Groups) /\ sleepers' = Tail(sleepers)
        /\ pc' = [pc EXCEPT ![Head(sleepers)] = "awake"]
    BY <1>2 DEF TypeOK, Signal
  <2>2. /\ Head(sleepers) = sleepers[1] /\ Len(sleepers') = Len(sleepers) - 1
        /\ \A i \in 1 .. Len(sleepers') : sleepers'[i] = sleepers[i + 1]
        /\ Len(sleepers) \in Nat /\ Len(sleepers) > 0
    BY <1>2, <2>1, HeadTailProperties, LenProperties, EmptySeq
  <2>3. \A i \in 1 .. Len(sleepers) : sleepers[i] \in Groups
    BY <2>1
  <2>4. ASSUME NEW i \in 1 .. Len(sleepers') PROVE pc'[sleepers'[i]] = "asleep"
    <3>1. i + 1 \in 1 .. Len(sleepers) /\ 1 \in 1 .. Len(sleepers) /\ sleepers'[i] = sleepers[i + 1]
      BY <2>2
    <3>2. sleepers[i + 1] # sleepers[1] /\ pc[sleepers[i + 1]] = "asleep"
      BY <2>2, <3>1 DEF SleepersAreAsleep
    <3> QED
      BY <2>1, <2>2, <2>3, <3>1, <3>2 DEF TypeOK
  <2>5. ASSUME NEW i \in 1 .. Len(sleepers'), NEW j \in 1 .. Len(sleepers'),
               sleepers'[i] = sleepers'[j]
        PROVE  i = j
    <3>1. i + 1 \in 1 .. Len(sleepers) /\ j + 1 \in 1 .. Len(sleepers)
          /\ sleepers[i + 1] = sleepers[j + 1]
      BY <2>2, <2>5
    <3> QED
      BY <2>2, <3>1 DEF SleepersAreAsleep
  <2> QED
    BY <2>4, <2>5 DEF SleepersAreAsleep
<1> QED
  BY <1>1, <1>2

(* Every goroutine in the list is asleep after a step.                     *)
LEMMA SleepersStep == PoolInv /\ [Next]_vars => SleepersAreAsleep'
<1> SUFFICES ASSUME PoolInv, [Next]_vars PROVE SleepersAreAsleep'
  OBVIOUS
<1>0. TypeOK /\ SleepersAreAsleep /\ pc \in [Groups -> PcStates]
  BY DEF PoolInv, TypeOK
<1>1. ASSUME NEW g \in Groups, WithinGroup(g) PROVE SleepersAreAsleep'
  BY <1>0, <1>1, SleepersStay DEF WithinGroup, poolVars
<1>2. ASSUME NEW g \in Groups, Leave(g) PROVE SleepersAreAsleep'
  BY <1>0, <1>2, SleepersStay DEF Leave, poolVars
<1>3. ASSUME NEW g \in Groups, Do(g), PoolFull PROVE SleepersAreAsleep'
  BY <1>0, <1>3, SleeperComes DEF Do
<1>4. ASSUME NEW g \in Groups, Do(g), ~PoolFull PROVE SleepersAreAsleep'
  BY <1>0, <1>4, SleepersStay DEF Do, StartJob
<1>5. ASSUME NEW g \in Groups, Resume(g), PoolFull PROVE SleepersAreAsleep'
  BY <1>0, <1>5, SleeperComes DEF Resume
<1>6. ASSUME NEW g \in Groups, Resume(g), ~PoolFull PROVE SleepersAreAsleep'
  BY <1>0, <1>6, SleepersStay DEF Resume, StartJob
<1>7. ASSUME NEW g \in Groups, Wait(g) PROVE SleepersAreAsleep'
  BY <1>0, <1>7, SleepersStay DEF Wait, poolVars
<1>8. ASSUME NEW g \in Groups, NEW h \in HandlersOf[g], Succeed(g, h) PROVE SleepersAreAsleep'
  BY <1>0, <1>8, SleepersStay DEF Succeed, poolVars
<1>9. ASSUME NEW g \in Groups, NEW h \in HandlersOf[g], Fail(g, h) PROVE SleepersAreAsleep'
  BY <1>0, <1>9, SleepersStay DEF Fail, poolVars
<1>10. ASSUME NEW g \in Groups, NEW h \in HandlersOf[g], Finish(g, h) PROVE SleepersAreAsleep'
  BY <1>0, <1>10, SleepersStay DEF Finish
<1>11. ASSUME Release PROVE SleepersAreAsleep'
  BY <1>0, <1>11, SleepersStay DEF Release
<1>12. ASSUME Signal PROVE SleepersAreAsleep'
  BY <1>0, <1>12, SleeperGoes
<1>13. ASSUME Cancel PROVE SleepersAreAsleep'
  BY <1>0, <1>13, SleepersStay DEF Cancel, poolVars
<1>14. ASSUME Terminated PROVE SleepersAreAsleep'
  BY <1>0, <1>14, SleepersStay DEF Terminated, vars, poolVars
<1>15. CASE UNCHANGED vars
  BY <1>0, <1>15, SleepersStay DEF vars, poolVars
<1>16. CASE Next
  BY <1>16, <1>1, <1>2, <1>3, <1>4, <1>5, <1>6, <1>7, <1>8, <1>9, <1>10, <1>11, <1>12,
     <1>13, <1>14, NextSteps
<1> QED
  BY <1>15, <1>16

(* Only handlers of the message have jobs after a step.                    *)
LEMMA HandlersStep == PoolInv /\ [Next]_vars => JobsAreHandlers'
<1> SUFFICES ASSUME PoolInv, [Next]_vars PROVE JobsAreHandlers'
  OBVIOUS
<1>0. TypeOK /\ JobsAreHandlers
  BY DEF PoolInv
<1>1. ASSUME ok' = ok, job' = job PROVE JobsAreHandlers'
  BY <1>0, <1>1 DEF JobsAreHandlers
<1>2. ASSUME NEW g \in Groups, WithinGroup(g) PROVE JobsAreHandlers'
  BY <1>0, <1>2 DEF JobsAreHandlers, WithinGroup, NoJob, TypeOK
<1>3. ASSUME NEW g \in Groups, StartJob(g), ok' = ok PROVE JobsAreHandlers'
  <2>1. PICK h \in HandlersOf[g] : Moves(g, h, "none", "run")
    BY <1>0, <1>3, StartJobMoves
  <2> QED
    BY <1>0, <1>3, <2>1, MovesOne DEF JobsAreHandlers, JobStates
<1>4. ASSUME NEW g \in Groups, NEW h \in HandlersOf[g], Succeed(g, h) PROVE JobsAreHandlers'
  <2>1. Moves(g, h, "run", "report") /\ ok' = [ok EXCEPT ![g] = @ \union {h}]
    BY <1>4 DEF Moves, Succeed
  <2>2. \A k \in Groups : ok'[k] \subseteq HandlersOf[k]
    BY <1>0, <2>1 DEF JobsAreHandlers, TypeOK
  <2> QED
    BY <1>0, <2>1, <2>2, MovesOne DEF JobsAreHandlers, JobStates
<1>5. ASSUME NEW g \in Groups, NEW h \in HandlersOf[g], Fail(g, h) \/ Finish(g, h)
      PROVE  JobsAreHandlers'
  <2>1. ok' = ok /\ (Moves(g, h, "run", "report") \/ Moves(g, h, "report", "ended"))
    BY <1>5 DEF Moves, Fail, Finish
  <2> QED
    BY <1>0, <2>1, MovesOne DEF JobsAreHandlers, JobStates
<1>6. CASE UNCHANGED vars
  BY <1>1, <1>6 DEF vars, groupVars
<1>7. CASE Next
  <2>1. ASSUME NEW g \in Groups, Leave(g) \/ Wait(g) PROVE JobsAreHandlers'
    BY <1>1, <2>1 DEF Leave, Wait, groupVars
  <2>2. ASSUME NEW g \in Groups, Do(g) \/ Resume(g) PROVE JobsAreHandlers'
    BY <1>1, <1>3, <2>2 DEF Do, Resume, Sleep, groupVars
  <2>3. ASSUME Release \/ Signal \/ Cancel \/ Terminated PROVE JobsAreHandlers'
    BY <1>1, <2>3 DEF Release, Signal, Cancel, Terminated, vars, groupVars
  <2> QED
    BY <1>2, <1>4, <1>5, <1>7, <2>1, <2>2, <2>3, NextSteps
<1> QED
  BY <1>6, <1>7

(* What the counters count.                                                *)
Counts == WaitGroupCounts /\ PoolCounts /\ RoundIsOver

(* Steps that change neither a counter nor what it counts.                 *)
LEMMA CountsStay ==
    ASSUME Counts, Running' = Running, wg' = wg, current' = current, releasing' = releasing,
           \A k \in Groups :
               /\ Active(k)' = Active(k) /\ InDo(k)' = InDo(k)
               /\ pc'[k] \in {"loop", "acked", "left"} =>
                      pc[k] \in {"loop", "acked", "left"} \/ Active(k) = {}
    PROVE  Counts'
<1>1. WaitGroupCounts'
  BY DEF Counts, WaitGroupCounts
<1>2. PoolCounts'
  BY DEF Counts, PoolCounts
<1>3. RoundIsOver'
  BY DEF Counts, RoundIsOver
<1> QED
  BY <1>1, <1>2, <1>3 DEF Counts

LEMMA JobsStay ==
    ASSUME job' = job
    PROVE  Running' = Running /\ \A k \in Groups : Active(k)' = Active(k)
  BY DEF Running, Active

(* A new round begins with no job.                                         *)
LEMMA CountsWithinGroup ==
    ASSUME PoolInv, NEW g \in Groups, WithinGroup(g)
    PROVE  Counts'
<1>0. /\ TypeOK /\ Counts /\ JobsAreHandlers /\ pc[g] = "loop"
      /\ pc' = [pc EXCEPT ![g] = "do"] /\ job' = [job EXCEPT ![g] = NoJob]
      /\ wg' = [wg EXCEPT ![g] = 0] /\ current' = current /\ releasing' = releasing
  BY DEF PoolInv, Counts, WithinGroup, poolVars
<1>1. Active(g) = {}
  BY <1>0 DEF Counts, RoundIsOver
<1>2. \A k \in Groups \ {g} : job'[k] = job[k] /\ wg'[k] = wg[k] /\ pc'[k] = pc[k]
  BY <1>0 DEF TypeOK
<1>3. job'[g] = NoJob /\ wg'[g] = 0 /\ pc'[g] = "do"
  BY <1>0 DEF TypeOK
<1>4. \A h \in Handlers : job[g][h] \notin {"run", "report"} /\ job'[g][h] = "none"
  BY <1>0, <1>1, <1>3 DEF JobsAreHandlers, Active, NoJob
<1>5. Running' = Running
  BY <1>2, <1>4 DEF Running
<1>6. Active(g)' = {} /\ \A k \in Groups \ {g} : Active(k)' = Active(k)
  BY <1>2, <1>4, HandlersFinite DEF Active
<1>7. WaitGroupCounts'
  BY <1>0, <1>2, <1>3, <1>6, FS_EmptySet DEF Counts, WaitGroupCounts, InDo
<1>8. PoolCounts'
  BY <1>0, <1>5 DEF Counts, PoolCounts
<1>9. RoundIsOver'
  BY <1>0, <1>2, <1>6 DEF Counts, RoundIsOver
<1> QED
  BY <1>7, <1>8, <1>9 DEF Counts

(* A job is started: it counts in the pool, and in the group, where it did *)
(* already if its goroutine has slept.                                     *)
LEMMA CountsStartJob ==
    ASSUME PoolInv, NEW g \in Groups, StartJob(g), ~PoolFull, releasing' = releasing,
           \A k \in Groups \ {g} : wg'[k] = wg[k],
           ~InDo(g) => wg'[g] = wg[g] + 1,
           InDo(g) => wg'[g] = wg[g]
    PROVE  Counts'
<1>0. TypeOK /\ Counts
  BY DEF PoolInv, Counts
<1>1. PICK h \in HandlersOf[g] :
          /\ Moves(g, h, "none", "run") /\ IsNext(g, h)
          /\ pc' = [pc EXCEPT ![g] = IF IsLast(g, h) THEN "wait" ELSE "do"]
          /\ current' = IF MaxWorkers > 0 THEN current + 1 ELSE current
          /\ sleepers' = sleepers
  BY <1>0, StartJobMoves
<1>2. /\ IsFiniteSet(Running') /\ Cardinality(Running') = Cardinality(Running) + 1
      /\ Cardinality(Active(g)') = Cardinality(Active(g)) + 1
      /\ \A k \in Groups \ {g} : Active(k)' = Active(k)
  BY <1>0, <1>1, JobStarts DEF Counts, PoolCounts
<1>3. pc'[g] \in {"wait", "do"} /\ \A k \in Groups \ {g} : pc'[k] = pc[k]
  BY <1>0, <1>1 DEF TypeOK
<1>4. WaitGroupCounts'
  <2>1. wg[g] \in Nat /\ Cardinality(Active(g)) \in Nat
    BY <1>0, ActiveFinite DEF TypeOK
  <2>2. ~InDo(g)' /\ \A k \in Groups \ {g} : InDo(k)' = InDo(k)
    BY <1>3 DEF InDo
  <2>3. wg'[g] = Cardinality(Active(g)')
    BY <1>0, <1>2, <2>1 DEF Counts, WaitGroupCounts
  <2>4. \A k \in Groups \ {g} : wg'[k] = Cardinality(Active(k)') + (IF InDo(k)' THEN 1 ELSE 0)
    BY <1>0, <1>2, <2>2 DEF Counts, WaitGroupCounts
  <2>5. Cardinality(Active(g)') \in Nat
    BY <1>2, <2>1
  <2> QED
    BY <2>2, <2>3, <2>4, <2>5 DEF WaitGroupCounts
<1>5. PoolCounts'
  <2>1. current \in Nat /\ releasing \in Nat /\ Cardinality(Running) \in Nat /\ MaxWorkers \in Nat
    BY <1>0, FS_CardinalityType, BoundsAssumption DEF TypeOK, Counts, PoolCounts
  <2> QED
    BY <1>0, <1>1, <1>2, <2>1 DEF Counts, PoolCounts, PoolFull
<1>6. RoundIsOver'
  BY <1>0, <1>2, <1>3 DEF Counts, RoundIsOver
<1> QED
  BY <1>4, <1>5, <1>6 DEF Counts

(* A job ends: the group has one less to wait for, and its worker counts   *)
(* in the pool until it leaves.                                            *)
LEMMA CountsFinish ==
    ASSUME PoolInv, NEW g \in Groups, NEW h \in HandlersOf[g], Finish(g, h)
    PROVE  Counts'
<1>0. TypeOK /\ Counts /\ Moves(g, h, "report", "ended") /\ pc' = pc /\ current' = current
  BY DEF PoolInv, Counts, Finish, Moves
<1>1. /\ IsFiniteSet(Running') /\ Cardinality(Running') = Cardinality(Running) - 1
      /\ Cardinality(Active(g)') = Cardinality(Active(g)) - 1
      /\ Cardinality(Active(g)) > 0
      /\ \A k \in Groups \ {g} : Active(k)' = Active(k)
      /\ Active(g)' \subseteq Active(g)
  BY <1>0, JobEnds DEF Counts, PoolCounts
<1>2. wg'[g] = wg[g] - 1 /\ \A k \in Groups \ {g} : wg'[k] = wg[k]
  BY <1>0 DEF Finish, TypeOK
<1>3. WaitGroupCounts'
  <2>1. wg[g] \in Nat /\ Cardinality(Active(g)) \in Nat
    BY <1>0, ActiveFinite DEF TypeOK
  <2>2. wg'[g] = Cardinality(Active(g)') + (IF InDo(g) THEN 1 ELSE 0)
    BY <1>0, <1>1, <1>2, <2>1 DEF Counts, WaitGroupCounts
  <2>3. \A k \in Groups : InDo(k)' = InDo(k)
    BY <1>0 DEF InDo
  <2> QED
    BY <1>0, <1>1, <1>2, <2>2, <2>3 DEF Counts, WaitGroupCounts
<1>4. PoolCounts'
  <2>1. current \in Nat /\ releasing \in Nat /\ Cardinality(Running) \in Nat /\ MaxWorkers \in Nat
    BY <1>0, FS_CardinalityType, BoundsAssumption DEF TypeOK, Counts, PoolCounts
  <2>2. releasing' = IF MaxWorkers > 0 THEN releasing + 1 ELSE releasing
    BY DEF Finish
  <2> QED
    BY <1>0, <1>1, <2>1, <2>2 DEF Counts, PoolCounts
<1>5. RoundIsOver'
  BY <1>0, <1>1 DEF Counts, RoundIsOver
<1> QED
  BY <1>3, <1>4, <1>5 DEF Counts

LEMMA CountsStep == PoolInv /\ [Next]_vars => Counts'
<1> SUFFICES ASSUME PoolInv, [Next]_vars PROVE Counts'
  OBVIOUS
<1>0. TypeOK /\ Counts /\ pc \in [Groups -> PcStates] /\ wg \in [Groups -> Nat]
  BY DEF PoolInv, Counts, TypeOK
<1>1. ASSUME UNCHANGED <<pc, job, wg, current, releasing>> PROVE Counts'
  BY <1>0, <1>1, CountsStay, JobsStay DEF InDo
<1>2. ASSUME NEW g \in Groups, Leave(g) PROVE Counts'
  <2>1. UNCHANGED <<job, wg, current, releasing>> /\ pc' = [pc EXCEPT ![g] = "left"] /\ pc[g] = "loop"
    BY <1>2 DEF Leave, groupVars, poolVars
  <2> QED
    BY <1>0, <2>1, CountsStay, JobsStay DEF InDo
<1>3. ASSUME NEW g \in Groups, Do(g), PoolFull PROVE Counts'
  <2>1. /\ UNCHANGED <<job, current, releasing>> /\ pc[g] = "do"
        /\ pc' = [pc EXCEPT ![g] = "asleep"] /\ wg' = [wg EXCEPT ![g] = @ + 1]
    BY <1>3 DEF Do, Sleep
  <2>2. ~InDo(g) /\ InDo(g)' /\ \A k \in Groups \ {g} : InDo(k)' = InDo(k) /\ pc'[k] = pc[k]
    BY <1>0, <2>1 DEF InDo
  <2>3. WaitGroupCounts'
    BY <1>0, <2>1, <2>2, JobsStay, ActiveFinite DEF Counts, WaitGroupCounts
  <2>4. PoolCounts' /\ RoundIsOver'
    BY <1>0, <2>1, <2>2, JobsStay DEF Counts, PoolCounts, RoundIsOver
  <2> QED
    BY <2>3, <2>4 DEF Counts
<1>4. ASSUME NEW g \in Groups, Do(g), ~PoolFull PROVE Counts'
  <2>1. StartJob(g) /\ releasing' = releasing /\ ~InDo(g) /\ wg' = [wg EXCEPT ![g] = @ + 1]
    BY <1>4 DEF Do, InDo
  <2>2. wg'[g] = wg[g] + 1 /\ \A k \in Groups \ {g} : wg'[k] = wg[k]
    BY <1>0, <2>1
  <2> QED
    BY <1>4, <2>1, <2>2, CountsStartJob
<1>5. ASSUME NEW g \in Groups, Resume(g), PoolFull PROVE Counts'
  <2>1. /\ UNCHANGED <<job, wg, current, releasing>> /\ pc[g] = "awake"
        /\ pc' = [pc EXCEPT ![g] = "asleep"]
    BY <1>5 DEF Resume, Sleep, groupVars
  <2> QED
    BY <1>0, <2>1, CountsStay, JobsStay DEF InDo
<1>6. ASSUME NEW g \in Groups, Resume(g), ~PoolFull PROVE Counts'
  <2>1. StartJob(g) /\ releasing' = releasing /\ InDo(g) /\ wg' = wg
    BY <1>6 DEF Resume, InDo, groupVars
  <2> QED
    BY <1>6, <2>1, CountsStartJob
<1>7. ASSUME NEW g \in Groups, Wait(g) PROVE Counts'
  <2>1. /\ UNCHANGED <<job, wg, current, releasing>> /\ pc[g] = "wait" /\ wg[g] = 0
        /\ pc' = [pc EXCEPT ![g] = "acked"] \/ pc' = [pc EXCEPT ![g] = "loop"]
    BY <1>7 DEF Wait, groupVars, poolVars
  <2>2. Active(g) = {}
    BY <1>0, <2>1, ActiveFinite, FS_EmptySet DEF Counts, WaitGroupCounts, InDo
  <2> QED
    BY <1>0, <2>1, <2>2, CountsStay, JobsStay DEF InDo
<1>8. ASSUME NEW g \in Groups, NEW h \in HandlersOf[g], Succeed(g, h) \/ Fail(g, h) PROVE Counts'
  <2>1. Moves(g, h, "run", "report") /\ UNCHANGED <<pc, wg, current, releasing>>
    BY <1>8 DEF Succeed, Fail, Moves, poolVars
  <2> QED
    BY <1>0, <2>1, CountsStay, JobReports DEF InDo
<1>9. ASSUME Release PROVE Counts'
  <2>1. /\ UNCHANGED <<pc, job, wg>> /\ releasing > 0
        /\ releasing' = releasing - 1 /\ current' = current - 1
    BY <1>9 DEF Release, groupVars
  <2>2. Running' = Running /\ \A k \in Groups : Active(k)' = Active(k)
    BY <2>1, JobsStay
  <2>3. current \in Nat /\ releasing \in Nat /\ Cardinality(Running) \in Nat /\ MaxWorkers \in Nat
    BY <1>0, FS_CardinalityType, BoundsAssumption DEF TypeOK, Counts, PoolCounts
  <2>4. PoolCounts'
    BY <1>0, <2>1, <2>2, <2>3 DEF Counts, PoolCounts
  <2>5. WaitGroupCounts' /\ RoundIsOver'
    BY <1>0, <2>1, <2>2 DEF Counts, WaitGroupCounts, RoundIsOver, InDo
  <2> QED
    BY <2>4, <2>5 DEF Counts
<1>10. ASSUME Signal PROVE Counts'
  <2>1. UNCHANGED <<job, wg, current, releasing>>
    BY <1>10 DEF Signal, groupVars
  <2>2. CASE sleepers = <<>>
    BY <1>1, <1>10, <2>1, <2>2 DEF Signal
  <2>3. CASE sleepers # <<>>
    <3>1. Head(sleepers) \in Groups /\ pc[Head(sleepers)] = "asleep"
      BY <1>0, <2>3 DEF TypeOK, PoolInv, SleepersAreAsleep
    <3>2. pc' = [pc EXCEPT ![Head(sleepers)] = "awake"]
      BY <1>10, <2>3 DEF Signal
    <3> QED
      BY <1>0, <2>1, <3>1, <3>2, CountsStay, JobsStay DEF InDo
  <2> QED
    BY <2>2, <2>3
<1>11. ASSUME Cancel \/ Terminated PROVE Counts'
  BY <1>1, <1>11 DEF Cancel, Terminated, vars, groupVars, poolVars
<1>12. CASE UNCHANGED vars
  BY <1>1, <1>12 DEF vars, groupVars, poolVars
<1>13. CASE Next
  BY <1>13, <1>2, <1>3, <1>4, <1>5, <1>6, <1>7, <1>8, <1>9, <1>10, <1>11, CountsWithinGroup,
     CountsFinish, NextSteps
<1> QED
  BY <1>12, <1>13

LEMMA PoolInitInv == Init => PoolInv
<1> SUFFICES ASSUME Init PROVE PoolInv
  OBVIOUS
<1>1. TypeOK
  BY DEF Init, TypeOK, PcStates, JobStates, NoJob
<1>2. Running = {} /\ \A g \in Groups : Active(g) = {}
  BY HandlersFinite DEF Init, Running, Active, NoJob
<1>3. JobsAreHandlers /\ SleepersAreAsleep
  BY DEF Init, JobsAreHandlers, SleepersAreAsleep, NoJob
<1>4. WaitGroupCounts
  <2> SUFFICES ASSUME NEW g \in Groups
               PROVE  wg[g] = Cardinality(Active(g)) + (IF InDo(g) THEN 1 ELSE 0)
    BY DEF WaitGroupCounts
  <2>1. wg[g] = 0 /\ ~InDo(g) /\ Cardinality(Active(g)) = 0
    BY <1>2, FS_EmptySet DEF Init, InDo
  <2> QED
    BY <2>1
<1>5. PoolCounts
  BY <1>2, FS_EmptySet, BoundsAssumption DEF Init, PoolCounts
<1>6. RoundIsOver
  BY <1>2 DEF RoundIsOver
<1> QED
  BY <1>1, <1>3, <1>4, <1>5, <1>6 DEF PoolInv

LEMMA PoolInvariant == Spec => []PoolInv
<1>1. PoolInv /\ [Next]_vars => PoolInv'
  BY PoolTypes, SleepersStep, HandlersStep, CountsStep DEF PoolInv, Counts
<1> QED
  BY <1>1, PoolInitInv, PTL DEF Spec

(***************************************************************************)
(* pool.Do: with a limit, at most MaxWorkers jobs run at a time, however   *)
(* Do, Signal and the decrement of currentWorkers interleave.              *)
(***************************************************************************)
THEOREM PoolIsLimited == Spec => []PoolLimit
<1>1. PoolInv => PoolLimit
  <2> SUFFICES ASSUME PoolInv, MaxWorkers > 0 PROVE Cardinality(Running) <= MaxWorkers
    BY DEF PoolLimit
  <2>1. /\ Cardinality(Running) \in Nat /\ releasing \in Nat /\ MaxWorkers \in Nat
        /\ current = Cardinality(Running) + releasing /\ current <= MaxWorkers
    BY FS_CardinalityType, BoundsAssumption DEF PoolInv, PoolCounts, TypeOK
  <2> QED
    BY <2>1
<1> QED
  BY <1>1, PoolInvariant, PTL

-----------------------------------------------------------------------------
(***************************************************************************)
(* Rounds.                                                                 *)
(***************************************************************************)

(* The error of a group stays, and an ended handler has succeeded or left  *)
(* one.                                                                    *)
LEMMA EndedStep == AckInv /\ [Next]_vars => EndedIsOk'
<1> SUFFICES ASSUME AckInv, [Next]_vars PROVE EndedIsOk'
  OBVIOUS
<1>0. TypeOK /\ EndedIsOk
  BY DEF AckInv, PoolInv
<1>1. ASSUME UNCHANGED <<job, ok, errChan>> PROVE EndedIsOk'
  BY <1>0, <1>1 DEF EndedIsOk
<1>2. ASSUME NEW g \in Groups, WithinGroup(g) PROVE EndedIsOk'
  <2>1. /\ job' = [job EXCEPT ![g] = NoJob] /\ ok' = [ok EXCEPT ![g] = {}]
        /\ errChan' = [errChan EXCEPT ![g] = NoError]
    BY <1>2 DEF WithinGroup
  <2>2. job'[g] = NoJob /\ \A k \in Groups \ {g} :
            job'[k] = job[k] /\ ok'[k] = ok[k] /\ errChan'[k] = errChan[k]
    BY <1>0, <2>1 DEF TypeOK
  <2> QED
    BY <1>0, <2>2, HandlersFinite DEF EndedIsOk, NoJob
<1>3. ASSUME NEW g \in Groups, StartJob(g), UNCHANGED <<ok, errChan>> PROVE EndedIsOk'
  <2>1. PICK h \in HandlersOf[g] : Moves(g, h, "none", "run")
    BY <1>0, <1>3, StartJobMoves
  <2>2. /\ job'[g][h] = "run"
        /\ \A k \in Groups, i \in Handlers : <<k, i>> # <<g, h>> => job'[k][i] = job[k][i]
    BY <1>0, <2>1, MovesOne DEF JobStates
  <2> QED
    BY <1>0, <1>3, <2>2, HandlersFinite DEF EndedIsOk
<1>4. ASSUME NEW g \in Groups, NEW h \in HandlersOf[g], Succeed(g, h) PROVE EndedIsOk'
  <2>1. /\ Moves(g, h, "run", "report") /\ errChan' = errChan
        /\ ok' = [ok EXCEPT ![g] = @ \union {h}]
    BY <1>4 DEF Moves, Succeed
  <2>2. \A k \in Groups, i \in Handlers : <<k, i>> # <<g, h>> => job'[k][i] = job[k][i]
    BY <1>0, <2>1, MovesOne DEF JobStates
  <2>3. h \in ok'[g] /\ \A k \in Groups : ok[k] \subseteq ok'[k]
    BY <1>0, <2>1 DEF TypeOK
  <2> QED
    BY <1>0, <2>1, <2>2, <2>3, HandlersFinite DEF EndedIsOk
<1>5. ASSUME NEW g \in Groups, NEW h \in HandlersOf[g], Fail(g, h) PROVE EndedIsOk'
  <2>1. /\ Moves(g, h, "run", "report") /\ ok' = ok
        /\ errChan' = [errChan EXCEPT ![g] = IF @ = NoError THEN h ELSE @]
    BY <1>5 DEF Moves, Fail
  <2>2. \A k \in Groups, i \in Handlers : <<k, i>> # <<g, h>> => job'[k][i] = job[k][i]
    BY <1>0, <2>1, MovesOne DEF JobStates
  <2>3. h # NoError
    BY HandlersFinite, NoErrorAssumption
  <2>4. errChan'[g] # NoError /\ \A k \in Groups : errChan[k] # NoError => errChan'[k] # NoError
    BY <1>0, <2>1, <2>3 DEF TypeOK
  <2> QED
    BY <1>0, <2>1, <2>2, <2>4, HandlersFinite DEF EndedIsOk
<1>6. ASSUME NEW g \in Groups, NEW h \in HandlersOf[g], Finish(g, h) PROVE EndedIsOk'
  <2>1. Moves(g, h, "report", "ended") /\ UNCHANGED <<ok, errChan>>
    BY <1>6 DEF Moves, Finish
  <2>2. \A k \in Groups, i \in Handlers : <<k, i>> # <<g, h>> => job'[k][i] = job[k][i]
    BY <1>0, <2>1, MovesOne DEF JobStates
  <2>3. h \in ok[g] \/ errChan[g] # NoError
    BY <1>0, <2>1 DEF EndedIsOk, Moves
  <2> QED
    BY <1>0, <2>1, <2>2, <2>3, HandlersFinite DEF EndedIsOk
<1>7. CASE UNCHANGED vars
  BY <1>1, <1>7 DEF vars, groupVars
<1>8. CASE Next
  <2>1. ASSUME NEW g \in Groups, Leave(g) \/ Wait(g) PROVE EndedIsOk'
    BY <1>1, <2>1 DEF Leave, Wait, groupVars
  <2>2. ASSUME NEW g \in Groups, Do(g) \/ Resume(g) PROVE EndedIsOk'
    BY <1>1, <1>3, <2>2 DEF Do, Resume, Sleep, groupVars
  <2>3. ASSUME Release \/ Signal \/ Cancel \/ Terminated PROVE EndedIsOk'
    BY <1>1, <2>3 DEF Release, Signal, Cancel, Terminated, vars, groupVars
  <2> QED
    BY <1>2, <1>4, <1>5, <1>6, <1>8, <2>1, <2>2, <2>3, NextSteps
<1> QED
  BY <1>7, <1>8

(* A group that waits has started the jobs of all its handlers.            *)
LEMMA WaitsStep == AckInv /\ [Next]_vars => WaitsForAll'
<1> SUFFICES ASSUME AckInv, [Next]_vars PROVE WaitsForAll'
  OBVIOUS
<1>0. TypeOK /\ WaitsForAll
  BY DEF AckInv, PoolInv
<1>1. ASSUME job' = job, \A k \in Groups : pc'[k] = "wait" => pc[k] = "wait" PROVE WaitsForAll'
  BY <1>0, <1>1 DEF WaitsForAll
<1>2. ASSUME NEW g \in Groups, WithinGroup(g) PROVE WaitsForAll'
  <2>1. pc' = [pc EXCEPT ![g] = "do"] /\ job' = [job EXCEPT ![g] = NoJob]
    BY <1>2 DEF WithinGroup
  <2>2. pc'[g] = "do" /\ \A k \in Groups \ {g} : job'[k] = job[k] /\ pc'[k] = pc[k]
    BY <1>0, <2>1 DEF TypeOK
  <2> QED
    BY <1>0, <2>2 DEF WaitsForAll
<1>3. ASSUME NEW g \in Groups, StartJob(g) PROVE WaitsForAll'
  <2>1. PICK h \in HandlersOf[g] :
            /\ Moves(g, h, "none", "run") /\ IsNext(g, h)
            /\ pc' = [pc EXCEPT ![g] = IF IsLast(g, h) THEN "wait" ELSE "do"]
    BY <1>0, <1>3, StartJobMoves
  <2>2. /\ job'[g][h] = "run"
        /\ \A k \in Groups, i \in Handlers : <<k, i>> # <<g, h>> => job'[k][i] = job[k][i]
    BY <1>0, <2>1, MovesOne DEF JobStates
  <2>3. \A k \in Groups \ {g} : pc'[k] = pc[k]
    BY <1>0, <2>1 DEF TypeOK
  <2>4. pc'[g] = "wait" => IsLast(g, h)
    BY <1>0, <2>1 DEF TypeOK
  <2>5. ASSUME IsLast(g, h), NEW i \in HandlersOf[g] PROVE job'[g][i] # "none"
    <3>1. i \in Nat /\ h \in Nat /\ (i < h \/ i = h) /\ i \in Handlers
      BY <2>5, HandlersFinite DEF IsLast
    <3>2. i < h => job[g][i] # "none"
      BY <2>1 DEF IsNext
    <3> QED
      BY <2>2, <3>1, <3>2
  <2>6. ASSUME NEW k \in Groups, k # g, pc'[k] = "wait", NEW i \in HandlersOf[k]
        PROVE  job'[k][i] # "none"
    BY <1>0, <2>2, <2>3, <2>6, HandlersFinite DEF WaitsForAll
  <2> QED
    BY <2>4, <2>5, <2>6 DEF WaitsForAll
<1>4. ASSUME NEW g \in Groups, NEW h \in HandlersOf[g], JobStep(g, h) PROVE WaitsForAll'
  <2>1. pc' = pc /\ (Moves(g, h, "run", "report") \/ Moves(g, h, "report", "ended"))
    BY <1>4 DEF JobStep, Succeed, Fail, Finish, Moves
  <2>2. /\ job'[g][h] # "none"
        /\ \A k \in Groups, i \in Handlers : <<k, i>> # <<g, h>> => job'[k][i] = job[k][i]
    BY <1>0, <2>1, MovesOne DEF JobStates
  <2> QED
    BY <1>0, <2>1, <2>2, HandlersFinite DEF WaitsForAll
<1>5. CASE UNCHANGED vars
  BY <1>1, <1>5 DEF vars
<1>6. CASE Next
  <2>0. pc \in [Groups -> PcStates]
    BY <1>0 DEF TypeOK
  <2>1. ASSUME NEW g \in Groups, Leave(g) \/ Wait(g) PROVE WaitsForAll'
    BY <1>1, <2>0, <2>1 DEF Leave, Wait
  <2>2. ASSUME NEW g \in Groups, Do(g) \/ Resume(g) PROVE WaitsForAll'
    <3>1. CASE Sleep(g)
      BY <1>1, <2>0, <3>1 DEF Sleep
    <3> QED
      BY <1>3, <2>2, <3>1 DEF Do, Resume
  <2>3. ASSUME Release \/ Cancel \/ Terminated PROVE WaitsForAll'
    BY <1>1, <2>3 DEF Release, Cancel, Terminated, vars
  <2>4. ASSUME Signal PROVE WaitsForAll'
    BY <1>1, <2>0, <2>4 DEF Signal
  <2> QED
    BY <1>2, <1>4, <1>6, <2>1, <2>2, <2>3, <2>4, NextSteps DEF JobStep
<1> QED
  BY <1>5, <1>6

(* What has been acknowledged had a round in which every handler succeeded.*)
AckedIsOk == \A g \in Groups : pc[g] = "acked" => ok[g] = HandlersOf[g]

LEMMA AckedStep == AckInv /\ [Next]_vars => AckedIsOk'
<1> SUFFICES ASSUME AckInv, [Next]_vars, NEW k \in Groups, pc'[k] = "acked"
             PROVE  ok'[k] = HandlersOf[k]
  BY DEF AckedIsOk
<1>0. /\ TypeOK /\ pc \in [Groups -> PcStates] /\ ok \in [Groups -> SUBSET Handlers]
      /\ pc[k] = "acked" => ok[k] = HandlersOf[k]
  BY DEF AckInv, PoolInv, TypeOK, AckNeedsWholeRound
<1>1. ASSUME ok' = ok, pc[k] = "acked" PROVE ok'[k] = HandlersOf[k]
  BY <1>0, <1>1
<1>2. ASSUME NEW g \in Groups, WithinGroup(g) PROVE ok'[k] = HandlersOf[k]
  BY <1>0, <1>2 DEF WithinGroup
<1>3. ASSUME NEW g \in Groups, Leave(g) PROVE ok'[k] = HandlersOf[k]
  BY <1>0, <1>3 DEF Leave, groupVars
<1>4. ASSUME NEW g \in Groups, Do(g) \/ Resume(g) PROVE ok'[k] = HandlersOf[k]
  BY <1>0, <1>4 DEF Do, Resume, Sleep, StartJob, groupVars
<1>5. ASSUME NEW g \in Groups, Wait(g) PROVE ok'[k] = HandlersOf[k]
  <2>1. CASE k # g \/ pc'[g] # "acked"
    BY <1>0, <1>5, <2>1 DEF Wait, groupVars
  <2>2. CASE k = g /\ pc'[g] = "acked"
    <3>1. pc[g] = "wait" /\ wg[g] = 0 /\ errChan[g] = NoError /\ ok' = ok
      BY <1>0, <1>5, <2>2 DEF Wait, groupVars
    <3>2. Active(g) = {}
      BY <3>1, ActiveFinite, FS_EmptySet DEF AckInv, PoolInv, WaitGroupCounts, InDo
    <3>3. ASSUME NEW h \in HandlersOf[g] PROVE h \in ok[g]
      <4>1. job[g][h] \in JobStates /\ job[g][h] # "none"
        BY <1>0, <3>1, HandlersFinite DEF TypeOK, AckInv, WaitsForAll
      <4>2. job[g][h] \in {"report", "ended"}
        BY <3>2, <4>1 DEF Active, JobStates
      <4> QED
        BY <3>1, <4>2 DEF AckInv, EndedIsOk
    <3> QED
      BY <2>2, <3>1, <3>3 DEF AckInv, PoolInv, JobsAreHandlers
  <2> QED
    BY <2>1, <2>2
<1>6. ASSUME NEW g \in Groups, NEW h \in HandlersOf[g], Succeed(g, h) PROVE ok'[k] = HandlersOf[k]
  <2>1. pc' = pc /\ ok' = [ok EXCEPT ![g] = @ \union {h}]
    BY <1>6 DEF Succeed
  <2> QED
    BY <1>0, <2>1
<1>7. ASSUME NEW g \in Groups, NEW h \in HandlersOf[g], Fail(g, h) \/ Finish(g, h)
      PROVE  ok'[k] = HandlersOf[k]
  BY <1>0, <1>7 DEF Fail, Finish
<1>8. ASSUME Release \/ Cancel \/ Terminated PROVE ok'[k] = HandlersOf[k]
  BY <1>0, <1>8 DEF Release, Cancel, Terminated, vars, groupVars
<1>9. ASSUME Signal PROVE ok'[k] = HandlersOf[k]
  BY <1>0, <1>9 DEF Signal, groupVars
<1>10. CASE UNCHANGED vars
  BY <1>0, <1>10 DEF vars, groupVars
<1>11. CASE Next
  BY <1>11, <1>2, <1>3, <1>4, <1>5, <1>6, <1>7, <1>8, <1>9, NextSteps
<1> QED
  BY <1>10, <1>11

(***************************************************************************)
(* processMessage: a message is acknowledged only when every handler of it *)
(* returned nil in one and the same round, and no handler of an earlier    *)
(* round still runs when the handlers are started over.                    *)
(***************************************************************************)
THEOREM AckIsEarned == Spec => []AckNeedsWholeRound
<1>1. TypeOK /\ RoundIsOver /\ AckedIsOk => AckNeedsWholeRound
  <2> SUFFICES ASSUME TypeOK, RoundIsOver, AckedIsOk, NEW g \in Groups,
                      pc[g] \in {"loop", "acked", "left"}, NEW h \in HandlersOf[g]
               PROVE  job[g][h] \in {"none", "ended"}
    BY DEF AckNeedsWholeRound, AckedIsOk
  <2>1. job[g][h] \in JobStates /\ Active(g) = {}
    BY HandlersFinite DEF TypeOK, RoundIsOver
  <2> QED
    BY <2>1 DEF Active, JobStates
<1>2. Init => EndedIsOk /\ WaitsForAll /\ AckedIsOk
  BY HandlersFinite DEF Init, EndedIsOk, WaitsForAll, AckedIsOk, NoJob
<1>3. PoolInv /\ EndedIsOk /\ WaitsForAll /\ AckedIsOk <=> AckInv
  BY <1>1 DEF PoolInv, AckInv, AckNeedsWholeRound, AckedIsOk
<1>4. AckInv /\ PoolInv' /\ [Next]_vars => AckInv'
  <2>1. PoolInv' /\ EndedIsOk' /\ WaitsForAll' /\ AckedIsOk' => AckInv'
    BY <1>3, PTL
  <2> QED
    BY <2>1, EndedStep, WaitsStep, AckedStep
<1>5. AckInv => AckNeedsWholeRound
  BY DEF AckInv
<1> QED
  BY <1>2, <1>3, <1>4, <1>5, PoolInvariant, PTL DEF Spec

-----------------------------------------------------------------------------
(***************************************************************************)
(* Wake-ups.                                                               *)
(***************************************************************************)
LEMMA AwakeFinite == IsFiniteSet(Awake) /\ Cardinality(Awake) \in Nat
<1>1. Awake \in SUBSET Groups
  BY DEF Awake
<1> QED
  BY <1>1, GroupsAssumption, FS_Subset, FS_CardinalityType

(* A goroutine that was awake and is not any more.                         *)
LEMMA OneLessAwake ==
    ASSUME NEW g \in Groups, pc[g] = "awake", pc'[g] # "awake",
           \A k \in Groups \ {g} : pc'[k] = pc[k]
    PROVE  Cardinality(Awake') = Cardinality(Awake) - 1
<1>1. Awake' = Awake \ {g} /\ g \in Awake
  BY DEF Awake
<1> QED
  BY <1>1, AwakeFinite, FS_RemoveElement

LEMMA OneMoreAwake ==
    ASSUME NEW g \in Groups, pc[g] # "awake", pc'[g] = "awake",
           \A k \in Groups \ {g} : pc'[k] = pc[k]
    PROVE  Cardinality(Awake') = Cardinality(Awake) + 1
<1>1. Awake' = Awake \union {g} /\ g \notin Awake
  BY DEF Awake
<1> QED
  BY <1>1, AwakeFinite, FS_AddElement

LEMMA WakeStep == WakeInv /\ [Next]_vars => WakeUpsCoverPlaces'
<1> SUFFICES ASSUME WakeInv, [Next]_vars, MaxWorkers > 0, sleepers' # <<>>
             PROVE  current' + signalling' + Cardinality(Awake') >= MaxWorkers
  BY DEF WakeUpsCoverPlaces
<1> DEFINE Covered == current' + signalling' + Cardinality(Awake') >= MaxWorkers
<1>0. /\ TypeOK /\ pc \in [Groups -> PcStates] /\ MaxWorkers \in Nat
      /\ current \in Nat /\ signalling \in Nat /\ Cardinality(Awake) \in Nat
      /\ sleepers # <<>> => current + signalling + Cardinality(Awake) >= MaxWorkers
  BY AwakeFinite, BoundsAssumption DEF WakeInv, WakeUpsCoverPlaces, PoolInv, TypeOK
<1>1. ASSUME UNCHANGED <<current, signalling, sleepers>>,
             \A k \in Groups : pc'[k] = "awake" <=> pc[k] = "awake"
      PROVE  Covered
  <2>1. Awake' = Awake
    BY <1>1 DEF Awake
  <2> QED
    BY <1>0, <1>1, <2>1
<1>2. ASSUME NEW g \in Groups, WithinGroup(g) \/ Leave(g) \/ Wait(g) PROVE Covered
  <2>1. /\ UNCHANGED <<current, signalling, sleepers>> /\ pc[g] # "awake"
        /\ \E s \in {"do", "left", "acked", "loop"} : pc' = [pc EXCEPT ![g] = s]
    BY <1>2 DEF WithinGroup, Leave, Wait, poolVars
  <2> QED
    BY <1>0, <1>1, <2>1
<1>3. ASSUME NEW g \in Groups, Do(g) \/ Resume(g), PoolFull PROVE Covered
  <2>1. current >= MaxWorkers /\ current' = current /\ signalling' = signalling
    BY <1>3 DEF Do, Resume, Sleep, PoolFull
  <2>2. Cardinality(Awake') \in Nat
    <3>1. Awake' \in SUBSET Groups
      BY DEF Awake
    <3> QED
      BY <3>1, GroupsAssumption, FS_Subset, FS_CardinalityType
  <2> QED
    BY <1>0, <2>1, <2>2
<1>4. ASSUME NEW g \in Groups, Do(g) \/ Resume(g), ~PoolFull PROVE Covered
  <2>1. StartJob(g) /\ signalling' = signalling
    BY <1>4 DEF Do, Resume
  <2>2. /\ current' = current + 1 /\ sleepers' = sleepers
        /\ \E s \in {"wait", "do"} : pc' = [pc EXCEPT ![g] = s]
    BY <2>1 DEF StartJob
  <2>3. CASE pc[g] = "awake"
    <3>1. Cardinality(Awake') = Cardinality(Awake) - 1
      BY <1>0, <2>2, <2>3, OneLessAwake
    <3> QED
      BY <1>0, <2>1, <2>2, <3>1
  <2>4. CASE pc[g] # "awake"
    <3>1. Awake' = Awake
      BY <1>0, <2>2, <2>4 DEF Awake
    <3> QED
      BY <1>0, <2>1, <2>2, <3>1
  <2> QED
    BY <2>3, <2>4
<1>5. ASSUME NEW g \in Groups, NEW h \in HandlersOf[g], JobStep(g, h) PROVE Covered
  BY <1>1, <1>5 DEF JobStep, Succeed, Fail, Finish, poolVars
<1>6. ASSUME Release PROVE Covered
  <2>1. current' = current - 1 /\ signalling' = signalling + 1 /\ sleepers' = sleepers /\ pc' = pc
    BY <1>6 DEF Release
  <2>2. Awake' = Awake
    BY <2>1 DEF Awake
  <2> QED
    BY <1>0, <2>1, <2>2
<1>7. ASSUME Signal PROVE Covered
  <2>1. sleepers # <<>>
    BY <1>7 DEF Signal
  <2>2. /\ signalling' = signalling - 1 /\ current' = current
        /\ pc' = [pc EXCEPT ![Head(sleepers)] = "awake"]
    BY <1>7, <2>1 DEF Signal
  <2>3. Head(sleepers) \in Groups /\ pc[Head(sleepers)] = "asleep"
    BY <1>0, <2>1 DEF TypeOK, WakeInv, PoolInv, SleepersAreAsleep
  <2>4. Cardinality(Awake') = Cardinality(Awake) + 1
    BY <1>0, <2>2, <2>3, OneMoreAwake
  <2> QED
    BY <1>0, <2>1, <2>2, <2>4
<1>8. ASSUME Cancel \/ Terminated PROVE Covered
  BY <1>1, <1>8 DEF Cancel, Terminated, vars, poolVars
<1>9. CASE UNCHANGED vars
  BY <1>1, <1>9 DEF vars, poolVars
<1>10. CASE Next
  BY <1>10, <1>2, <1>3, <1>4, <1>5, <1>6, <1>7, <1>8, NextSteps DEF JobStep
<1> QED
  BY <1>9, <1>10

(* A goroutine sleeps although the pool has room only while a Signal is on *)
(* its way, or one that it has woken has not tested the counter yet.       *)
NoLostWakeUp ==
    MaxWorkers > 0 /\ sleepers # <<>> =>
        PoolFull \/ signalling > 0 \/ \E g \in Groups : pc[g] = "awake"

(***************************************************************************)
(* pool.Do: the Signal that comes after the unlock, and goes to one        *)
(* sleeper, is enough.  No wake-up is lost, so no goroutine sleeps while   *)
(* the pool has room and nobody is going to wake it.                       *)
(***************************************************************************)
THEOREM WakeUpsAreEnough == Spec => []NoLostWakeUp
<1>1. Init => WakeUpsCoverPlaces
  BY DEF Init, WakeUpsCoverPlaces
<1>2. WakeInv /\ PoolInv' /\ [Next]_vars => WakeInv'
  BY WakeStep DEF WakeInv
<1>3. WakeInv => NoLostWakeUp
  <2> SUFFICES ASSUME WakeInv, MaxWorkers > 0, sleepers # <<>>, ~PoolFull, ~(signalling > 0)
               PROVE  \E g \in Groups : pc[g] = "awake"
    BY DEF NoLostWakeUp
  <2>1. /\ MaxWorkers \in Nat /\ current \in Nat /\ signalling = 0 /\ current < MaxWorkers
        /\ current + signalling + Cardinality(Awake) >= MaxWorkers
    BY BoundsAssumption DEF WakeInv, WakeUpsCoverPlaces, PoolInv, TypeOK, PoolFull
  <2>2. Awake # {}
    BY <2>1, AwakeFinite, FS_EmptySet
  <2> QED
    BY <2>2 DEF Awake
<1>4. PoolInv /\ WakeUpsCoverPlaces <=> WakeInv
  BY DEF WakeInv
<1> QED
  BY <1>1, <1>2, <1>3, <1>4, PoolInvariant, PTL DEF Spec

-----------------------------------------------------------------------------
(***************************************************************************)
(* The commit offset queue.                                                *)
(***************************************************************************)

(* Every element of the queue has cost a token, and so has the message     *)
(* that is being waited for.                                               *)
TokensCover ==
    /\ tokens + Len(queue) <= MaxSize
    /\ listener = "receive" => tokens + Len(queue) < MaxSize

(* The numbers of a sequence follow each other.                            *)
Interval(q) == \A i \in 1 .. Len(q) : q[i] = q[1] + i - 1

(* The offsets in the queue follow each other and have been received.      *)
QueueIsInterval ==
    /\ Interval(queue)
    /\ \A i \in 1 .. Len(queue) : queue[i] <= position

(* The queue begins right behind the committed offset, or before it when   *)
(* a commit took effect and returned an error, and ends with the message   *)
(* that was received last.                                                 *)
QueueMeetsCommitted ==
    /\ queue # <<>> => queue[1] <= committed + 1 /\ committed <= queue[Len(queue)]
    /\ proc # "down" /\ listener # "exit" =>
           position = IF queue = <<>> THEN committed ELSE queue[Len(queue)]
    /\ proc = "down" => queue = <<>> /\ listener = "token"

QueueInv == QueueTypeOK /\ TokensCover /\ QueueIsInterval /\ QueueMeetsCommitted

(* What is acknowledged or flagged as processed has been handled.          *)
FlaggedIsHandled ==
    /\ processed \subseteq handled \union Unhandled
    /\ \A o \in Offsets : task[o] = "ack" => o \in handled \union Unhandled

(* A commit that took effect leaves no unprocessed message before it.      *)
CommittedIsFlagged == \A i \in 1 .. Len(queue) : queue[i] <= committed => queue[i] \in processed

CommitInv == QueueInv /\ FlaggedIsHandled /\ CommittedIsFlagged /\ CommittedIsHandled

-----------------------------------------------------------------------------
(***************************************************************************)
(* Intervals.                                                              *)
(***************************************************************************)
LEMMA IntervalAppend ==
    ASSUME NEW S \in SUBSET Int, NEW q \in Seq(S), NEW o \in S, Interval(q),
           q # <<>> => o = q[Len(q)] + 1
    PROVE  /\ Append(q, o) \in Seq(S) /\ Len(Append(q, o)) = Len(q) + 1
           /\ Append(q, o)[1] = IF q = <<>> THEN o ELSE q[1]
           /\ Append(q, o)[Len(q) + 1] = o
           /\ \A i \in 1 .. Len(q) : Append(q, o)[i] = q[i]
           /\ Interval(Append(q, o))
<1> DEFINE a == Append(q, o)
<1>1. /\ a \in Seq(S) /\ Len(a) = Len(q) + 1 /\ a[Len(q) + 1] = o
      /\ \A i \in 1 .. Len(q) : a[i] = q[i]
  BY AppendProperties
<1>2. Len(q) \in Nat /\ (q = <<>> <=> Len(q) = 0) /\ \A i \in 1 .. Len(q) : q[i] \in Int
  BY EmptySeq, LenProperties, ElementOfSeq
<1> HIDE DEF a
<1>3. CASE Len(q) = 0
  BY <1>1, <1>2, <1>3 DEF Interval, a
<1>4. CASE Len(q) > 0
  <2>1. a[1] = q[1] /\ q[1] \in Int /\ o = q[1] + Len(q)
    BY <1>1, <1>2, <1>4 DEF Interval
  <2>2. ASSUME NEW i \in 1 .. Len(a)
        PROVE  a[i] = a[1] + i - 1
    <3>1. CASE i = Len(q) + 1
      BY <1>1, <1>2, <2>1, <3>1
    <3>2. CASE i \in 1 .. Len(q)
      <4>1. a[i] = q[i] /\ q[i] = q[1] + i - 1
        BY <1>1, <3>2 DEF Interval
      <4> QED
        BY <2>1, <4>1
    <3> QED
      BY <1>1, <1>2, <3>1, <3>2
  <2> QED
    BY <1>1, <1>2, <1>4, <2>1, <2>2 DEF Interval, a
<1> QED
  BY <1>2, <1>3, <1>4

LEMMA IntervalSuffix ==
    ASSUME NEW S \in SUBSET Int, NEW q \in Seq(S), NEW n \in 1 .. Len(q), Interval(q)
    PROVE  LET r == SubSeq(q, n + 1, Len(q))
           IN  /\ r \in Seq(S) /\ Len(r) = Len(q) - n
               /\ \A i \in 1 .. Len(r) : r[i] = q[n + i]
               /\ r # <<>> => r[1] = q[n] + 1 /\ r[Len(r)] = q[Len(q)]
               /\ Interval(r)
<1> DEFINE r == SubSeq(q, n + 1, Len(q))
<1>1. Len(q) \in Nat /\ \A i \in 1 .. Len(q) : q[i] \in S
  BY LenProperties, ElementOfSeq
<1>2. /\ r \in Seq(S)
      /\ Len(r) = IF n + 1 <= Len(q) THEN Len(q) - (n + 1) + 1 ELSE 0
      /\ \A i \in 1 .. Len(q) - (n + 1) + 1 : r[i] = q[(n + 1) + i - 1]
  <2>1. \A i \in (n + 1) .. Len(q) : q[i] \in S
    BY <1>1
  <2> QED
    BY <1>1, <2>1, SubSeqProperties
<1> HIDE DEF r
<1>3. Len(r) = Len(q) - n /\ \A i \in 1 .. Len(r) : r[i] = q[n + i]
  BY <1>1, <1>2
<1>4. \A i \in 1 .. Len(q) : q[i] \in Int /\ q[i] = q[1] + i - 1
  BY <1>1 DEF Interval
<1>5. ASSUME NEW i \in 1 .. Len(r)
      PROVE  r[i] = q[1] + n + i - 1
  <2>1. n + i \in 1 .. Len(q) /\ r[i] = q[n + i]
    BY <1>1, <1>3
  <2>2. q[n + i] = q[1] + (n + i) - 1 /\ q[1] \in Int
    BY <1>1, <1>4, <2>1
  <2> QED
    BY <2>1, <2>2
<1>6. Interval(r)
  BY <1>1, <1>3, <1>4, <1>5 DEF Interval
<1>7. r # <<>> => Len(r) > 0
  BY <1>2, EmptySeq
<1>8. ASSUME r # <<>>
      PROVE  r[1] = q[n] + 1 /\ r[Len(r)] = q[Len(q)]
  <2>1. 1 \in 1 .. Len(r) /\ Len(r) \in 1 .. Len(r) /\ Len(q) \in 1 .. Len(q) /\ 1 \in 1 .. Len(q)
    BY <1>1, <1>3, <1>7, <1>8
  <2>2. q[1] \in Int /\ q[n] = q[1] + n - 1
    BY <1>4, <2>1
  <2>3. r[1] = q[1] + n + 1 - 1
    BY <1>5, <2>1
  <2>4. r[Len(r)] = q[n + Len(r)] /\ n + Len(r) = Len(q)
    BY <1>1, <1>3, <2>1
  <2> QED
    BY <2>2, <2>3, <2>4
<1> QED
  BY <1>2, <1>3, <1>6, <1>8 DEF r

-----------------------------------------------------------------------------
(***************************************************************************)
(* The longest processed prefix.                                           *)
(***************************************************************************)
LEMMA LeastNat ==
    ASSUME NEW T \in SUBSET Nat, T # {}
    PROVE  \E x \in T : \A y \in T : x <= y
<1>1. PICK x \in T : \A y \in T : ~(<<y, x>> \in OpToRel(<, Nat))
  BY NatLessThanWellFounded, WFMin
<1>2. \A y \in T : ~(y < x)
  BY <1>1 DEF OpToRel
<1> QED
  BY <1>2

IsLastProcessed(n, flags) ==
    /\ \A i \in 1 .. n : queue[i] \in flags
    /\ n < Len(queue) => queue[n + 1] \notin flags

LEMMA LastProcessedExists ==
    ASSUME QueueTypeOK, NEW flags
    PROVE  LastProcessed(flags) \in 0 .. Len(queue) /\ IsLastProcessed(LastProcessed(flags), flags)
<1>1. Len(queue) \in Nat
  BY DEF QueueTypeOK
<1>2. \E n \in 0 .. Len(queue) : IsLastProcessed(n, flags)
  <2> DEFINE rest == {i \in 1 .. Len(queue) : queue[i] \notin flags}
  <2>1. CASE rest = {}
    BY <1>1, <2>1 DEF IsLastProcessed
  <2>2. CASE rest # {}
    <3>1. PICK k \in rest : \A i \in rest : k <= i
      <4>1. rest \in SUBSET Nat
        BY <1>1
      <4> HIDE DEF rest
      <4> QED
        BY <2>2, <4>1, LeastNat
    <3>2. k - 1 \in 0 .. Len(queue) /\ IsLastProcessed(k - 1, flags)
      BY <1>1, <3>1 DEF IsLastProcessed
    <3> QED
      BY <3>2
  <2> QED
    BY <2>1, <2>2
<1> QED
  BY <1>2 DEF LastProcessed, IsLastProcessed

(* What an acknowledgement that has something to commit knows of it.       *)
LEMMA CommitPoint ==
    ASSUME QueueInv, NEW o \in Offsets, LastProcessed(Marked(o)) > 0
    PROVE  LET n == LastProcessed(Marked(o))
           IN  /\ n \in 1 .. Len(queue) /\ queue[n] \in Offsets /\ queue[n] <= position
               /\ \A i \in 1 .. n : queue[i] \in Marked(o)
               /\ n < Len(queue) => queue[n + 1] \notin Marked(o)
<1>1. QueueTypeOK
  BY DEF QueueInv
<1>2. LET n == LastProcessed(Marked(o)) IN n \in 1 .. Len(queue) /\ IsLastProcessed(n, Marked(o))
  BY <1>1, LastProcessedExists DEF QueueTypeOK
<1> QED
  BY <1>1, <1>2, LenProperties, ElementOfSeq
     DEF IsLastProcessed, QueueInv, QueueIsInterval, QueueTypeOK

LEMMA MarkedAdds ==
    ASSUME NEW o \in Offsets
    PROVE  processed \subseteq Marked(o) /\ Marked(o) \subseteq processed \union {o}
  BY DEF Marked

-----------------------------------------------------------------------------
(* The steps that neither change the queue nor commit.                     *)
QuietStep ==
    \/ Publish \/ TakeToken \/ ListenerStop \/ CancelConsumer
    \/ \E o \in Offsets : Handle(o) \/ AcknowledgeLater(o) \/ LeaveTask(o)

LEMMA QueueSteps ==
    ASSUME QueueNext
    PROVE  \/ QuietStep \/ AddProcessing \/ Crash \/ Exit \/ Restart
           \/ \E o \in Offsets : Acknowledge(o) \/ AcknowledgeError(o)
  BY DEF QueueNext, ListenerStep, TaskStep, QuietStep

LEMMA QueueStepInv == QueueInv /\ [QueueNext]_consumerVars => QueueInv'
<1> SUFFICES ASSUME QueueInv, [QueueNext]_consumerVars
             PROVE  QueueInv'
  OBVIOUS
<1>0. QueueTypeOK /\ Len(queue) \in Nat
  BY LenProperties DEF QueueInv, QueueTypeOK
<1> USE QueueBoundsAssumption, UnhandledAssumption, <1>0
<1>1. CASE UNCHANGED consumerVars
  BY <1>1 DEF consumerVars, brokerVars, queueVars, QueueInv, QueueTypeOK, TokensCover,
              QueueIsInterval, QueueMeetsCommitted
<1>2. CASE QuietStep
  <2>1. QueueTypeOK'
    <3> USE DEF QueueTypeOK, brokerVars, queueVars, Fault
    <3>1. CASE Publish
      BY <3>1 DEF Publish
    <3>2. CASE TakeToken
      BY <3>2 DEF TakeToken
    <3>3. CASE ListenerStop
      BY <3>3 DEF ListenerStop
    <3>6. CASE CancelConsumer
      BY <3>6 DEF CancelConsumer
    <3>4. ASSUME NEW o \in Offsets, Handle(o) \/ LeaveTask(o)
          PROVE  QueueTypeOK'
      BY <3>4 DEF Handle, LeaveTask
    <3>5. ASSUME NEW o \in Offsets, AcknowledgeLater(o)
          PROVE  QueueTypeOK'
      BY <3>5, MarkedAdds DEF AcknowledgeLater
    <3> QED
      BY <1>2, <3>1, <3>2, <3>3, <3>4, <3>5, <3>6 DEF QuietStep
  <2>2. /\ UNCHANGED <<queue, position, committed>>
        /\ proc' = "down" <=> proc = "down"
        /\ listener' # "exit" => listener # "exit"
        /\ proc = "down" => UNCHANGED listener
    BY <1>2 DEF QuietStep, Publish, TakeToken, ListenerStop, CancelConsumer, Handle, AcknowledgeLater,
                LeaveTask, brokerVars, queueVars
  <2>3. TokensCover'
    BY <1>2 DEF QuietStep, Publish, TakeToken, ListenerStop, CancelConsumer, Handle, AcknowledgeLater,
                LeaveTask, brokerVars, queueVars, TokensCover, QueueInv, QueueTypeOK
  <2> QED
    BY <2>1, <2>2, <2>3 DEF QueueInv, QueueIsInterval, QueueMeetsCommitted
<1>3. CASE AddProcessing
  <2> DEFINE o == position + 1
  <2>1. Len(queue) < MaxSize
    BY <1>3 DEF AddProcessing, QueueInv, TokensCover, QueueTypeOK
  <2>2. o \in Offsets /\ o <= published
    <3>1. position < published
      BY <1>3 DEF AddProcessing
    <3> QED
      BY <3>1 DEF QueueTypeOK, Offsets
  <2>3. /\ queue' = Append(queue, o) /\ position' = o /\ listener' = "token"
        /\ proc # "down" /\ listener = "receive"
        /\ task' = [task EXCEPT ![o] = IF o \in Unhandled THEN "ack" ELSE "handle"]
        /\ UNCHANGED <<published, committed, handled, proc, tokens, processed, faults>>
    BY <1>3, <2>1 DEF AddProcessing, brokerVars
  <2>4. position = IF queue = <<>> THEN committed ELSE queue[Len(queue)]
    BY <2>3 DEF QueueInv, QueueMeetsCommitted
  <2>5. /\ queue' \in Seq(Offsets) /\ Len(queue') = Len(queue) + 1
        /\ queue'[1] = IF queue = <<>> THEN o ELSE queue[1]
        /\ queue'[Len(queue) + 1] = o
        /\ \A i \in 1 .. Len(queue) : queue'[i] = queue[i]
        /\ Interval(queue')
    <3>1. Offsets \in SUBSET Int /\ queue \in Seq(Offsets)
      BY DEF QueueTypeOK, Offsets
    <3>2. Interval(queue)
      BY DEF QueueInv, QueueIsInterval
    <3>3. queue # <<>> => o = queue[Len(queue)] + 1
      BY <2>4
    <3> HIDE DEF o
    <3> QED
      BY <2>2, <2>3, <3>1, <3>2, <3>3, IntervalAppend
  <2> HIDE DEF o
  <2>6. o = position + 1 /\ position \in Int /\ committed \in Int
    BY DEF o, QueueTypeOK
  <2>7. QueueTypeOK'
    <3>1. position' \in 0 .. published'
      BY <2>2, <2>3, <2>6 DEF QueueTypeOK
    <3>2. task' \in [Offsets -> {"none", "handle", "ack", "left"}]
      BY <2>2, <2>3 DEF QueueTypeOK
    <3>3. Len(queue') <= MaxSize
      BY <2>1, <2>5
    <3> QED
      BY <2>3, <2>5, <3>1, <3>2, <3>3 DEF QueueTypeOK
  <2>8. TokensCover'
    BY <2>3, <2>5 DEF QueueTypeOK, QueueInv, TokensCover
  <2>9. QueueIsInterval'
    <3>1. \A i \in 1 .. Len(queue) : queue[i] \in Int /\ queue[i] <= position
      BY ElementOfSeq DEF QueueInv, QueueIsInterval, QueueTypeOK, Offsets
    <3>2. \A i \in 1 .. Len(queue) + 1 : queue'[i] <= o
      BY <2>5, <2>6, <3>1
    <3> QED
      BY <2>3, <2>5, <3>2 DEF QueueIsInterval
  <2>10. QueueMeetsCommitted'
    <3>1. queue' # <<>>
      BY <2>3, AppendProperties, <2>2 DEF QueueTypeOK
    <3>2. committed <= position
      BY <2>4, <2>6 DEF QueueInv, QueueMeetsCommitted
    <3> QED
      BY <2>3, <2>4, <2>5, <2>6, <3>1, <3>2 DEF QueueInv, QueueMeetsCommitted
  <2> QED
    BY <2>7, <2>8, <2>9, <2>10 DEF QueueInv
<1>4. CASE Crash \/ Exit
  <2>1. Vanish /\ faults' \in Nat
    BY <1>4 DEF Crash, Exit, Fault, QueueTypeOK
  <2>2. queue' = <<>> /\ Len(queue') = 0
    BY <2>1 DEF Vanish
  <2>3. QueueTypeOK'
    BY <2>1, <2>2 DEF Vanish, NoTask, QueueTypeOK, brokerVars
  <2> QED
    BY <2>1, <2>2, <2>3
       DEF Vanish, QueueInv, TokensCover, QueueIsInterval, Interval, QueueMeetsCommitted, brokerVars
<1>5. CASE Restart
  BY <1>5 DEF Restart, QueueInv, QueueTypeOK, TokensCover, QueueIsInterval, Interval,
              QueueMeetsCommitted, brokerVars, queueVars
<1>6. ASSUME NEW o \in Offsets, Acknowledge(o)
      PROVE  QueueInv'
  <2> DEFINE n == LastProcessed(Marked(o))
  <2>1. n \in 1 .. Len(queue) /\ queue[n] \in Offsets /\ queue[n] <= position
    BY <1>6, CommitPoint DEF Acknowledge
  <2> HIDE DEF n
  <2>0. queue' = SubSeq(queue, n + 1, Len(queue))
    BY <1>6 DEF Acknowledge, n
  <2>2. /\ committed' = queue[n]
        /\ tokens' = tokens + n /\ task' = [task EXCEPT ![o] = "none"]
        /\ processed' \subseteq Marked(o)
        /\ UNCHANGED <<published, handled, proc, position, listener, faults>>
    BY <1>6 DEF Acknowledge, n
  <2>3. /\ queue' \in Seq(Offsets) /\ Len(queue') = Len(queue) - n
        /\ \A i \in 1 .. Len(queue') : queue'[i] = queue[n + i]
        /\ queue' # <<>> => queue'[1] = queue[n] + 1 /\ queue'[Len(queue')] = queue[Len(queue)]
        /\ Interval(queue')
    <3>1. Offsets \in SUBSET Int /\ queue \in Seq(Offsets)
      BY DEF QueueTypeOK, Offsets
    <3>2. Interval(queue)
      BY DEF QueueInv, QueueIsInterval
    <3> QED
      BY <2>0, <2>1, <3>1, <3>2, IntervalSuffix
  <2>4. QueueTypeOK' /\ TokensCover'
    <3>1. processed' \subseteq Offsets
      BY <2>2, MarkedAdds DEF QueueTypeOK
    <3>2. tokens' \in 0 .. MaxSize /\ TokensCover'
      <4>1. tokens \in Nat /\ tokens + Len(queue) <= MaxSize
        BY DEF QueueTypeOK, QueueInv, TokensCover
      <4>2. tokens' + Len(queue') = tokens + Len(queue)
        BY <2>1, <2>2, <2>3, <4>1
      <4>3. tokens' \in 0 .. MaxSize
        BY <2>1, <2>2, <4>1
      <4> QED
        BY <2>2, <4>2, <4>3 DEF QueueInv, TokensCover
    <3>3. committed' \in 0 .. published' /\ Len(queue') <= MaxSize
      <4>1. published \in Nat /\ position \in 0 .. published /\ Len(queue) <= MaxSize
        BY QueueBoundsAssumption DEF QueueTypeOK
      <4>2. queue[n] \in Nat
        BY <2>1 DEF Offsets
      <4>3. queue[n] \in 0 .. published
        BY <2>1, <4>1, <4>2
      <4>4. committed' \in 0 .. published'
        BY <2>2, <4>3
      <4>5. Len(queue') <= MaxSize
        <5>1. Len(queue) \in Nat /\ MaxSize \in Nat /\ n \in Nat
          BY <2>1, QueueBoundsAssumption DEF QueueTypeOK
        <5>2. Len(queue') = Len(queue) - n
          BY <2>3
        <5> QED
          BY <4>1, <5>1, <5>2
      <4> QED
        BY <4>4, <4>5
    <3> QED
      BY <2>2, <2>3, <3>1, <3>2, <3>3 DEF QueueTypeOK
  <2>5. QueueIsInterval'
    <3>1. \A i \in 1 .. Len(queue') : n + i \in 1 .. Len(queue)
      BY <2>1, <2>3
    <3> QED
      BY <2>2, <2>3, <3>1 DEF QueueInv, QueueIsInterval
  <2>6. QueueMeetsCommitted'
    <3>1. queue # <<>>
      BY <2>1
    <3>2. queue' = <<>> => n = Len(queue)
      BY <2>1, <2>3
    <3>3. queue[n] \in Int /\ queue[Len(queue)] \in Int /\ queue[n] <= queue[Len(queue)]
      <4>1. queue[1] \in Int /\ queue[n] = queue[1] + n - 1
            /\ queue[Len(queue)] = queue[1] + Len(queue) - 1
        BY <2>1, ElementOfSeq DEF QueueInv, QueueIsInterval, Interval, QueueTypeOK, Offsets
      <4> QED
        BY <2>1, <4>1
    <3>4. queue' # <<>> => queue'[1] <= committed' + 1 /\ committed' <= queue'[Len(queue')]
      BY <2>2, <2>3, <3>3
    <3>5. proc' # "down" /\ listener' # "exit" =>
             position' = IF queue' = <<>> THEN committed' ELSE queue'[Len(queue')]
      BY <2>2, <2>3, <3>1, <3>2 DEF QueueInv, QueueMeetsCommitted
    <3>6. proc' # "down"
      BY <2>2, <3>1 DEF QueueInv, QueueMeetsCommitted
    <3> QED
      BY <3>4, <3>5, <3>6 DEF QueueMeetsCommitted
  <2> QED
    BY <2>4, <2>5, <2>6 DEF QueueInv
<1>7. ASSUME NEW o \in Offsets, AcknowledgeError(o)
      PROVE  QueueInv'
  <2> DEFINE n == LastProcessed(Marked(o))
  <2>1. n \in 1 .. Len(queue) /\ queue[n] \in Offsets /\ queue[n] <= position
    BY <1>7, CommitPoint DEF AcknowledgeError
  <2> HIDE DEF n
  <2>2. /\ committed' \in {committed, queue[n]} /\ processed' = Marked(o)
        /\ UNCHANGED <<published, handled, proc, position, listener, tokens, queue, task>>
    BY <1>7 DEF AcknowledgeError, n
  <2>3. faults' \in Nat
    BY <1>7 DEF AcknowledgeError, Fault, QueueTypeOK
  <2>4. QueueTypeOK'
    <3>1. processed' \subseteq Offsets
      BY <2>2, MarkedAdds DEF QueueTypeOK
    <3>2. committed' \in 0 .. published'
      BY <2>1, <2>2 DEF QueueTypeOK, Offsets
    <3> QED
      BY <2>2, <2>3, <3>1, <3>2 DEF QueueTypeOK
  <2>5. queue # <<>> /\ queue[1] <= queue[n] /\ queue[n] <= queue[Len(queue)]
    <3>1. queue[1] \in Int /\ queue[n] = queue[1] + n - 1
          /\ queue[Len(queue)] = queue[1] + Len(queue) - 1
      BY <2>1, ElementOfSeq DEF QueueInv, QueueIsInterval, Interval, QueueTypeOK, Offsets
    <3> QED
      BY <2>1, <3>1
  <2>6. QueueMeetsCommitted'
    <3>1. queue[1] \in Int /\ queue[n] \in Int
      BY <2>1, ElementOfSeq DEF QueueTypeOK, Offsets
    <3> QED
      BY <2>2, <2>5, <3>1 DEF QueueInv, QueueMeetsCommitted
  <2> QED
    BY <2>2, <2>4, <2>6 DEF QueueInv, TokensCover, QueueIsInterval
<1> QED
  BY <1>1, <1>2, <1>3, <1>4, <1>5, <1>6, <1>7, QueueSteps

LEMMA QueueInvariant == QueueSpec => []QueueInv
<1>1. QueueInit => QueueInv
  BY QueueBoundsAssumption DEF QueueInit, QueueInv, QueueTypeOK, NoTask, TokensCover,
                               QueueIsInterval, Interval, QueueMeetsCommitted
<1> QED
  BY <1>1, QueueStepInv, PTL DEF QueueSpec

(***************************************************************************)
(* AddProcessing never refuses a message: the token the consumerWorker     *)
(* took before it received the message has kept a place in the queue.      *)
(***************************************************************************)
THEOREM QueueHasRoom == QueueSpec => [](listener = "receive" => Len(queue) < MaxSize)
<1>1. QueueInv => (listener = "receive" => Len(queue) < MaxSize)
  BY QueueBoundsAssumption, LenProperties DEF QueueInv, QueueTypeOK, TokensCover
<1> QED
  BY <1>1, QueueInvariant, PTL

-----------------------------------------------------------------------------
(* What is committed next was handled, and does not go back.               *)
LEMMA CommitCovers ==
    ASSUME CommitInv, NEW o \in Offsets, task[o] = "ack", LastProcessed(Marked(o)) > 0
    PROVE  LET c == queue[LastProcessed(Marked(o))]
           IN  /\ \A k \in 1 .. c : k \in handled \union Unhandled
               /\ committed <= c
               /\ \A i \in 1 .. Len(queue) : queue[i] <= c => queue[i] \in Marked(o)
<1> DEFINE n == LastProcessed(Marked(o))
<1>1. /\ n \in 1 .. Len(queue) /\ queue[n] \in Offsets
      /\ \A i \in 1 .. n : queue[i] \in Marked(o)
      /\ n < Len(queue) => queue[n + 1] \notin Marked(o)
  BY CommitPoint DEF CommitInv
<1> HIDE DEF n
<1>2. /\ QueueTypeOK /\ Len(queue) \in Nat /\ committed \in Nat
      /\ \A i \in 1 .. Len(queue) : queue[i] \in Int
  <2>1. QueueTypeOK
    BY DEF CommitInv, QueueInv
  <2>2. queue \in Seq(Offsets) /\ committed \in Nat /\ Offsets \subseteq Int
    BY <2>1, QueueBoundsAssumption DEF QueueTypeOK, Offsets
  <2> QED
    BY <2>1, <2>2, LenProperties, ElementOfSeq
<1>3. queue[1] \in Int /\ \A i \in 1 .. Len(queue) : queue[i] = queue[1] + i - 1
  BY <1>1, <1>2 DEF CommitInv, QueueInv, QueueIsInterval, Interval
<1>4. queue # <<>>
  BY <1>1, <1>2
<1>5. queue[1] <= committed + 1 /\ committed <= queue[Len(queue)]
  BY <1>4 DEF CommitInv, QueueInv, QueueMeetsCommitted
<1>6. Marked(o) \subseteq handled \union Unhandled
  BY MarkedAdds DEF CommitInv, FlaggedIsHandled
<1>7. ASSUME NEW k \in 1 .. queue[n]
      PROVE  k \in handled \union Unhandled
  <2>1. CASE k < queue[1]
    <3>1. k \in 1 .. committed
      BY <1>1, <1>2, <1>3, <1>5, <2>1 DEF Offsets
    <3> QED
      BY <3>1 DEF CommitInv, CommittedIsHandled
  <2>2. CASE k >= queue[1]
    <3> DEFINE i == k - queue[1] + 1
    <3>1. queue[n] = queue[1] + n - 1
      BY <1>1, <1>3
    <3>2. i \in 1 .. n
      BY <1>1, <1>2, <1>3, <2>2, <3>1
    <3>3. i \in 1 .. Len(queue) /\ queue[i] = queue[1] + i - 1
      BY <1>1, <1>2, <1>3, <3>2
    <3>4. queue[i] = k
      BY <1>3, <3>3
    <3> QED
      BY <1>1, <1>6, <3>2, <3>4
  <2> QED
    BY <1>1, <1>3, <2>1, <2>2 DEF Offsets
<1>8. committed <= queue[n]
  <2>1. CASE n = Len(queue)
    BY <1>5, <2>1
  <2>2. CASE n < Len(queue)
    <3>1. n + 1 \in 1 .. Len(queue)
      BY <1>1, <1>2, <2>2
    <3>2. queue[n + 1] > committed
      BY <1>1, <1>2, <2>2, <3>1, MarkedAdds DEF CommitInv, CommittedIsFlagged
    <3>3. queue[n + 1] = queue[1] + (n + 1) - 1 /\ queue[n] = queue[1] + n - 1
      BY <1>1, <1>3, <3>1
    <3> QED
      BY <1>1, <1>2, <1>3, <3>2, <3>3
  <2> QED
    BY <1>1, <1>2, <2>1, <2>2
<1>9. ASSUME NEW i \in 1 .. Len(queue), queue[i] <= queue[n]
      PROVE  queue[i] \in Marked(o)
  <2>1. queue[i] = queue[1] + i - 1 /\ queue[n] = queue[1] + n - 1
    BY <1>1, <1>3
  <2>2. i \in 1 .. n
    BY <1>1, <1>2, <1>3, <1>9, <2>1
  <2> QED
    BY <1>1, <2>2
<1> QED
  BY <1>7, <1>8, <1>9 DEF n

LEMMA CommitStepInv == CommitInv /\ [QueueNext]_consumerVars => CommitInv' /\ committed' >= committed
<1> SUFFICES ASSUME CommitInv, [QueueNext]_consumerVars
             PROVE  CommitInv' /\ committed' >= committed
  OBVIOUS
<1>0. QueueInv /\ QueueInv' /\ QueueTypeOK /\ QueueTypeOK' /\ committed \in Int
  BY QueueStepInv DEF CommitInv, QueueInv, QueueTypeOK
<1>1. CASE UNCHANGED consumerVars
  BY <1>0, <1>1 DEF consumerVars, brokerVars, queueVars, CommitInv, FlaggedIsHandled,
                    CommittedIsFlagged, CommittedIsHandled
<1>2. CASE QuietStep
  <2>1. /\ UNCHANGED <<queue, committed>> /\ processed \subseteq processed'
        /\ handled \subseteq handled'
        /\ \A o \in Offsets : task'[o] = "ack" => task[o] = "ack" \/ o \in handled'
        /\ \A o \in processed' \ processed : o \in Offsets /\ task[o] = "ack"
    BY <1>0, <1>2, MarkedAdds DEF QuietStep, Publish, TakeToken, ListenerStop, CancelConsumer,
                                  Handle, AcknowledgeLater, LeaveTask, brokerVars, queueVars,
                                  QueueTypeOK
  <2> QED
    BY <1>0, <2>1 DEF CommitInv, FlaggedIsHandled, CommittedIsFlagged, CommittedIsHandled
<1>3. CASE AddProcessing
  <2>1. Len(queue) \in Nat /\ position \in Nat /\ position + 1 \in Offsets
    <3>1. position < published
      BY <1>3 DEF AddProcessing
    <3>2. Len(queue) \in Nat
      BY <1>0, LenProperties DEF QueueTypeOK
    <3> QED
      BY <1>0, <3>1, <3>2, QueueBoundsAssumption DEF QueueTypeOK, Offsets
  <2>2. Len(queue) < MaxSize
    BY <1>0, <1>3, <2>1, QueueBoundsAssumption DEF AddProcessing, QueueInv, TokensCover, QueueTypeOK
  <2>3. /\ queue' = Append(queue, position + 1)
        /\ task' = [task EXCEPT ![position + 1] =
                       IF position + 1 \in Unhandled THEN "ack" ELSE "handle"]
        /\ UNCHANGED <<committed, handled, processed>> /\ proc # "down" /\ listener # "exit"
    BY <1>3, <2>2 DEF AddProcessing, brokerVars
  <2>4. /\ Len(queue') = Len(queue) + 1 /\ queue'[Len(queue) + 1] = position + 1
        /\ \A i \in 1 .. Len(queue) : queue'[i] = queue[i]
    BY <1>0, <2>1, <2>3, AppendProperties DEF QueueTypeOK
  <2>5. committed <= position
    BY <1>0, <2>1, <2>3 DEF QueueInv, QueueMeetsCommitted
  <2>6. CommittedIsFlagged'
    <3> SUFFICES ASSUME NEW i \in 1 .. Len(queue) + 1, queue'[i] <= committed
                 PROVE  queue'[i] \in processed
      BY <2>3, <2>4 DEF CommittedIsFlagged
    <3>1. i # Len(queue) + 1
      BY <1>0, <2>1, <2>4, <2>5
    <3>2. i \in 1 .. Len(queue)
      BY <2>1, <3>1
    <3> QED
      BY <2>4, <3>2 DEF CommitInv, CommittedIsFlagged
  <2>7. FlaggedIsHandled'
    BY <1>0, <2>1, <2>3 DEF CommitInv, FlaggedIsHandled, QueueTypeOK
  <2> QED
    BY <1>0, <2>3, <2>6, <2>7 DEF CommitInv, CommittedIsHandled
<1>4. CASE Crash \/ Exit
  <2>1. /\ queue' = <<>> /\ Len(queue') = 0 /\ processed' = {} /\ task' = NoTask
        /\ UNCHANGED <<committed, handled>>
    BY <1>4 DEF Crash, Exit, Vanish, brokerVars
  <2> QED
    BY <1>0, <2>1
       DEF CommitInv, FlaggedIsHandled, CommittedIsFlagged, CommittedIsHandled, NoTask
<1>5. CASE Restart
  BY <1>0, <1>5 DEF Restart, CommitInv, FlaggedIsHandled, CommittedIsFlagged, CommittedIsHandled,
                    brokerVars, queueVars
<1>6. ASSUME NEW o \in Offsets, Acknowledge(o)
      PROVE  CommitInv' /\ committed' >= committed
  <2> DEFINE n == LastProcessed(Marked(o))
  <2>1. /\ \A k \in 1 .. queue[n] : k \in handled \union Unhandled
        /\ committed <= queue[n]
    BY <1>6, CommitCovers DEF Acknowledge
  <2>2. n \in 1 .. Len(queue)
    BY <1>0, <1>6, CommitPoint DEF Acknowledge
  <2>3. /\ committed' = queue[n] /\ processed' \subseteq Marked(o)
        /\ task' = [task EXCEPT ![o] = "none"] /\ task[o] = "ack" /\ UNCHANGED handled
    BY <1>6 DEF Acknowledge
  <2>4. \A i \in 1 .. Len(queue') : queue'[i] > committed'
    <3>1. queue' = SubSeq(queue, n + 1, Len(queue))
      BY <1>6 DEF Acknowledge
    <3>2. Offsets \in SUBSET Int /\ queue \in Seq(Offsets) /\ queue' \in Seq(Offsets)
      BY <1>0 DEF QueueTypeOK, Offsets
    <3>3. Interval(queue) /\ Interval(queue')
      BY <1>0 DEF QueueInv, QueueIsInterval
    <3> HIDE DEF n
    <3>4. queue' # <<>> => queue'[1] = queue[n] + 1
      BY <2>2, <3>1, <3>2, <3>3, IntervalSuffix
    <3>5. queue[n] \in Int
      BY <2>2, <3>2, ElementOfSeq
    <3> SUFFICES ASSUME NEW i \in 1 .. Len(queue')
                 PROVE  queue'[i] > queue[n]
      BY <2>3
    <3>6. queue' # <<>>
      OBVIOUS
    <3>7. queue'[i] = queue'[1] + i - 1
      BY <3>3 DEF Interval
    <3> QED
      BY <3>4, <3>5, <3>6, <3>7
  <2>5. CommittedIsFlagged'
    <3> SUFFICES ASSUME NEW i \in 1 .. Len(queue'), queue'[i] <= committed'
                 PROVE  FALSE
      BY DEF CommittedIsFlagged
    <3>1. queue' \in Seq(Offsets) /\ committed' \in Int /\ Offsets \subseteq Int
      BY <1>0 DEF QueueTypeOK, Offsets
    <3>2. queue'[i] \in Int
      BY <3>1, ElementOfSeq
    <3> QED
      BY <2>4, <3>1, <3>2
  <2>6. FlaggedIsHandled'
    BY <1>0, <2>3, MarkedAdds DEF CommitInv, FlaggedIsHandled, QueueTypeOK
  <2> HIDE DEF n
  <2>7. CommittedIsHandled'
    BY <2>1, <2>3 DEF CommittedIsHandled
  <2>8. committed' >= committed
    <3>1. committed' \in Int
      BY <1>0 DEF QueueTypeOK
    <3> QED
      BY <1>0, <2>1, <2>3, <3>1
  <2> QED
    BY <1>0, <2>5, <2>6, <2>7, <2>8 DEF CommitInv
<1>7. ASSUME NEW o \in Offsets, AcknowledgeError(o)
      PROVE  CommitInv' /\ committed' >= committed
  <2> DEFINE n == LastProcessed(Marked(o))
  <2>1. /\ \A k \in 1 .. queue[n] : k \in handled \union Unhandled
        /\ committed <= queue[n]
        /\ \A i \in 1 .. Len(queue) : queue[i] <= queue[n] => queue[i] \in Marked(o)
    BY <1>7, CommitCovers DEF AcknowledgeError
  <2>2. /\ committed' \in {committed, queue[n]} /\ processed' = Marked(o) /\ task[o] = "ack"
        /\ UNCHANGED <<queue, task, handled>>
    BY <1>7 DEF AcknowledgeError
  <2> HIDE DEF n
  <2>3. CommittedIsHandled' /\ committed' >= committed
    <3>1. committed' \in Int
      BY <1>0 DEF QueueTypeOK
    <3> QED
      BY <1>0, <2>1, <2>2, <3>1 DEF CommitInv, CommittedIsHandled
  <2>4. FlaggedIsHandled'
    BY <2>2, MarkedAdds DEF CommitInv, FlaggedIsHandled
  <2>5. CommittedIsFlagged'
    BY <2>1, <2>2, MarkedAdds DEF CommitInv, CommittedIsFlagged
  <2> QED
    BY <1>0, <2>3, <2>4, <2>5 DEF CommitInv
<1> QED
  BY <1>1, <1>2, <1>3, <1>4, <1>5, <1>6, <1>7, QueueSteps

LEMMA CommitInvariant == QueueSpec => []CommitInv
<1>1. QueueInit => FlaggedIsHandled /\ CommittedIsFlagged /\ CommittedIsHandled
  BY DEF QueueInit, FlaggedIsHandled, CommittedIsFlagged, CommittedIsHandled, NoTask
<1>2. QueueInv /\ FlaggedIsHandled /\ CommittedIsFlagged /\ CommittedIsHandled => CommitInv
  BY DEF CommitInv
<1> QED
  BY <1>1, <1>2, QueueInvariant, CommitStepInv, PTL DEF QueueSpec

(***************************************************************************)
(* No message is skipped: all the messages up to the committed offset have *)
(* been handled, although handlers finish out of order, commits fail with  *)
(* or without effect and consumers are restarted at the committed offset.  *)
(***************************************************************************)
THEOREM NothingIsSkipped == QueueSpec => []CommittedIsHandled
  BY CommitInvariant, PTL DEF CommitInv

(***************************************************************************)
(* The committed offset never goes back, even when an acknowledgement      *)
(* whose commit had taken effect is repeated.                              *)
(***************************************************************************)
THEOREM CommitsGoForward == QueueSpec => CommitsForward
<1>1. CommitInv /\ [QueueNext]_consumerVars => [committed' >= committed]_consumerVars
  BY CommitStepInv
<1> QED
  BY <1>1, CommitInvariant, PTL DEF QueueSpec, CommitsForward
=============================================================================
