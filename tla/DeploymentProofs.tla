-------------------------- MODULE DeploymentProofs --------------------------
(***************************************************************************)
(* Proofs about Migrations, for every number of processes and migrations   *)
(* and any number of crashes, and about Deployment, which puts a process   *)
(* of the repository next to them.                                         *)
(***************************************************************************)
EXTENDS Deployment, SequenceTheorems, TLAPS

(***************************************************************************)
(* The steps of Migrations but for the count of the faults, which the      *)
(* deployment also uses for faults of its own.                             *)
(***************************************************************************)
ProcessStep(p) ==
    Start(p) \/ (\E ids \in Sources : MustRegister(p, ids)) \/ Execute(p) \/ Exit(p)

DatabaseStep == (\E p \in Processes : ProcessStep(p)) \/ UNCHANGED <<procVars, dbVars>>

Working == {"locked", "loop", "tx", "record", "commit"}

InTransaction == {"tx", "record", "commit"}

LastCall(p) == calls[p][Len(calls[p])] \union {TableDDL}

Types ==
    /\ pc \in [Processes -> PcStates]
    /\ calls \in [Processes -> Seq(Sources)]
    /\ todo \in [Processes -> SUBSET IDs] /\ known \in [Processes -> SUBSET IDs]
    /\ current \in [Processes -> IDs \union {Nobody}] /\ effect \in [Processes -> Seq(IDs)]
    /\ lock \in Processes \union {Nobody}
    /\ records \subseteq IDs /\ applied \in Seq(IDs)

(* The records tell which migrations took effect, each of them once, the   *)
(* table of the records first.                                             *)
RecordsAreTrue ==
    /\ records = Applied
    /\ \A j, k \in 1 .. Len(applied) : applied[j] = applied[k] => j = k
    /\ records # {} => TableDDL \in records

(* Execute works under the session lock.                                   *)
WorksUnderLock(p) == pc[p] \in Working => lock = p

(* What a call has not come to yet has all of the call that has not taken  *)
(* effect, and the process knows what of it is recorded.                   *)
TodoIsLeft(p) ==
    /\ pc[p] \in Working \union {"wait"} => LastCall(p) \subseteq todo[p] \union Applied
    /\ pc[p] \in Working \ {"locked"} =>
           known[p] \subseteq records /\ todo[p] \intersect records \subseteq known[p]

(* The open transaction is that of the least migration to do.              *)
CurrentIsLeast(p) ==
    /\ pc[p] \in InTransaction =>
           /\ current[p] \in todo[p] /\ current[p] \notin records
           /\ \A m \in todo[p] : current[p] <= m
    /\ pc[p] \in {"record", "commit"} => effect[p] = <<current[p]>>

(* Calls that have returned have done their migrations.                    *)
CallsAreDone(p) ==
    /\ pc[p] = "off" => calls[p] = <<>>
    /\ pc[p] \in Working \union {"wait"} => calls[p] # <<>>
    /\ \A k \in 1 .. Len(calls[p]) :
           k < Len(calls[p]) \/ pc[p] = "idle" => calls[p][k] \subseteq Applied

ProcessInv(p) == WorksUnderLock(p) /\ TodoIsLeft(p) /\ CurrentIsLeast(p) /\ CallsAreDone(p)

MigrationInv == Types /\ RecordsAreTrue /\ \A p \in Processes : ProcessInv(p)

-----------------------------------------------------------------------------
(***************************************************************************)
(* Migrations.                                                             *)
(***************************************************************************)
LEMMA NumberedIDs == IDs \subseteq Nat /\ TableDDL \in IDs /\ \A ids \in Sources : ids \subseteq IDs
<1>1. ASSUME NEW m \in IDs PROVE m \in Nat
  BY SourcesAssumption DEF IDs, TableDDL
<1>2. TableDDL \in IDs
  BY DEF IDs
<1>3. \A ids \in Sources : ids \subseteq IDs
  BY DEF IDs
<1> QED
  BY <1>1, <1>2, <1>3

(* The steps of a process by name.                                         *)
LEMMA ProcessSteps ==
    ASSUME NEW p \in Processes, ProcessStep(p), NEW Q,
           Start(p) => Q,
           ASSUME NEW ids \in Sources, MustRegister(p, ids) PROVE Q,
           TakeLock(p) => Q, GetPerformedMigrationIDs(p) => Q, Skip(p) => Q,
           BeginMigration(p) => Q, RunQueries(p) => Q,
           CreateMigrationRecord(p) /\ CanRecord(p) => Q,
           CommitMigration(p) => Q, Release(p) => Q, Exit(p) => Q
    PROVE  Q
  BY DEF ProcessStep, Execute, CreateMigrationRecord

(* The commit adds a migration to the schema and to the records.           *)
LEMMA CommitAdds ==
    ASSUME MigrationInv, NEW p \in Processes, CommitMigration(p)
    PROVE  /\ Applied' = Applied \union {current[p]} /\ records' = records \union {current[p]}
           /\ RecordsAreTrue'
           /\ applied' \in Seq(IDs) /\ current[p] \in IDs /\ current[p] \notin records
<1>1. /\ pc[p] = "commit" /\ ProcessInv(p) /\ Types /\ RecordsAreTrue
      /\ records' = records \union {current[p]} /\ applied' = applied \o effect[p]
  BY DEF CommitMigration, MigrationInv
<1>2. /\ current[p] \in IDs /\ current[p] \notin records /\ effect[p] = <<current[p]>>
      /\ current[p] \in todo[p] /\ \A m \in todo[p] : current[p] <= m
  BY <1>1 DEF ProcessInv, CurrentIsLeast, InTransaction, Types
<1> DEFINE m == current[p]
<1>3. applied \in Seq(IDs) /\ m \in IDs /\ applied' = Append(applied, m)
  <2>1. applied' = applied \o <<m>> /\ applied \in Seq(IDs)
    BY <1>1, <1>2 DEF Types
  <2> QED
    BY <1>2, <2>1
<1>4. /\ applied' \in Seq(IDs) /\ Len(applied') = Len(applied) + 1
      /\ applied'[Len(applied) + 1] = m /\ \A k \in 1 .. Len(applied) : applied'[k] = applied[k]
      /\ Len(applied) \in Nat
  <2> HIDE DEF m
  <2> QED
    BY <1>3, AppendProperties, LenProperties
<1>5. Applied = {applied[k] : k \in 1 .. Len(applied)} /\ Applied' = {applied'[k] : k \in 1 .. Len(applied')}
  BY <1>3, <1>4, LenProperties DEF Applied
<1>6. Applied' = Applied \union {m}
  <2> HIDE DEF m
  <2> QED
    BY <1>4, <1>5
<1>7. \A k \in 1 .. Len(applied) : applied[k] # m
  BY <1>1, <1>2, <1>5 DEF RecordsAreTrue
<1>8. ASSUME NEW j \in 1 .. Len(applied'), NEW k \in 1 .. Len(applied'), applied'[j] = applied'[k]
      PROVE  j = k
  <2> HIDE DEF m
  <2>1. (j \in 1 .. Len(applied) \/ j = Len(applied) + 1) /\ (k \in 1 .. Len(applied) \/ k = Len(applied) + 1)
    BY <1>4
  <2> QED
    BY <2>1, <1>1, <1>4, <1>7, <1>8 DEF RecordsAreTrue
<1>9. TableDDL \in records'
  <2>1. CASE m = TableDDL
    BY <1>1, <2>1
  <2>2. CASE m # TableDDL
    <3>1. TableDDL \notin todo[p]
      <4>1. m \in Nat /\ m # 0 /\ \A k \in todo[p] : m <= k
        BY <1>2, <2>2, NumberedIDs DEF TableDDL
      <4> HIDE DEF m
      <4>2. 0 \notin todo[p]
        BY <4>1
      <4> QED
        BY <4>2 DEF TableDDL
    <3>2. TableDDL \in todo[p] \union Applied
      BY <1>1 DEF ProcessInv, TodoIsLeft, LastCall, Working
    <3> QED
      BY <1>1, <3>1, <3>2 DEF RecordsAreTrue
  <2> QED
    BY <2>1, <2>2
<1>10. RecordsAreTrue'
  BY <1>1, <1>6, <1>8, <1>9 DEF RecordsAreTrue
<1> QED
  BY <1>1, <1>2, <1>4, <1>6, <1>10

(* What a step leaves of the schema and the records.                       *)
LEMMA SchemaGrows ==
    ASSUME MigrationInv, NEW p \in Processes, ProcessStep(p)
    PROVE  /\ Applied \subseteq Applied' /\ RecordsAreTrue'
           /\ records' = records \/ (records' = records \union {current[p]} /\ pc[p] = "commit")
<1>1. CASE CommitMigration(p)
  BY <1>1, CommitAdds DEF CommitMigration
<1>2. CASE applied' = applied /\ records' = records
  BY <1>2 DEF MigrationInv, RecordsAreTrue, Applied
<1> QED
  BY <1>1, <1>2 DEF ProcessStep, Execute, Start, MustRegister, TakeLock, GetPerformedMigrationIDs,
     Skip, BeginMigration, RunQueries, CreateMigrationRecord, Release, Exit, dbVars

LEMMA MigrationTypes ==
    ASSUME MigrationInv, NEW p \in Processes, ProcessStep(p)
    PROVE  Types'
<1>0. Types
  BY DEF MigrationInv
<1> USE DEF Types, PcStates, Goto
<1>1. Start(p) => Types'
  BY <1>0 DEF Start, dbVars
<1>2. ASSUME NEW ids \in Sources, MustRegister(p, ids) PROVE Types'
  <2>1. ids \union {TableDDL} \in SUBSET IDs
    BY NumberedIDs
  <2>2. Append(calls[p], ids) \in Seq(Sources)
    BY <1>0, AppendProperties
  <2> QED
    BY <1>0, <1>2, <2>1, <2>2 DEF MustRegister, dbVars
<1>3. TakeLock(p) => Types'
  BY <1>0 DEF TakeLock
<1>4. GetPerformedMigrationIDs(p) => Types'
  BY <1>0 DEF GetPerformedMigrationIDs, dbVars
<1>5. Skip(p) => Types'
  BY <1>0 DEF Skip, dbVars
<1>6. BeginMigration(p) => Types'
  BY <1>0 DEF BeginMigration, dbVars
<1>7. RunQueries(p) => Types'
  <2> SUFFICES ASSUME RunQueries(p) PROVE Types'
    OBVIOUS
  <2>1. current[p] \in IDs
    BY <1>0, NobodyAssumption DEF MigrationInv, ProcessInv, CurrentIsLeast, InTransaction, RunQueries
  <2>2. <<current[p]>> \in Seq(IDs)
    BY <2>1
  <2> QED
    BY <1>0, <2>2 DEF RunQueries, dbVars
<1>8. CreateMigrationRecord(p) /\ CanRecord(p) => Types'
  BY <1>0 DEF CreateMigrationRecord, dbVars
<1>9. CommitMigration(p) => Types'
  <2> SUFFICES ASSUME CommitMigration(p) PROVE Types'
    OBVIOUS
  <2>1. applied' \in Seq(IDs) /\ records' \subseteq IDs
    BY <1>0, CommitAdds
  <2> QED
    BY <1>0, <2>1 DEF CommitMigration
<1>10. Release(p) => Types'
  BY <1>0 DEF Release
<1>11. Exit(p) => Types'
  BY <1>0 DEF Exit
<1> QED
  BY <1>1, <1>2, <1>3, <1>4, <1>5, <1>6, <1>7, <1>8, <1>9, <1>10, <1>11, ProcessSteps

(* A step changes what belongs to its process, and the lock only when it   *)
(* is free or the process's own.                                           *)
LEMMA StepIsLocal ==
    ASSUME Types, NEW p \in Processes, ProcessStep(p), NEW q \in Processes, q # p
    PROVE  /\ pc'[q] = pc[q] /\ calls'[q] = calls[q] /\ todo'[q] = todo[q] /\ known'[q] = known[q]
           /\ current'[q] = current[q] /\ effect'[q] = effect[q]
           /\ lock' = lock \/ lock \in {p, Nobody}
<1> DEFINE Local ==
        /\ pc'[q] = pc[q] /\ calls'[q] = calls[q] /\ todo'[q] = todo[q] /\ known'[q] = known[q]
        /\ current'[q] = current[q] /\ effect'[q] = effect[q]
        /\ lock' = lock \/ lock \in {p, Nobody}
<1> USE DEF Types, Goto
<1>1. Start(p) \/ TakeLock(p) \/ GetPerformedMigrationIDs(p) => Local
  BY DEF Start, TakeLock, GetPerformedMigrationIDs, dbVars
<1>2. ASSUME NEW ids \in Sources, MustRegister(p, ids) PROVE Local
  BY <1>2 DEF MustRegister, dbVars
<1>3. Skip(p) \/ BeginMigration(p) \/ RunQueries(p) => Local
  BY DEF Skip, BeginMigration, RunQueries, dbVars
<1>4. (CreateMigrationRecord(p) /\ CanRecord(p)) \/ CommitMigration(p) => Local
  BY DEF CreateMigrationRecord, CommitMigration, dbVars
<1>5. Release(p) \/ Exit(p) => Local
  BY DEF Release, Exit
<1> QED
  BY <1>1, <1>2, <1>3, <1>4, <1>5, ProcessSteps

(* The other processes: the schema only grows, and not while they work.    *)
LEMMA OtherProcess ==
    ASSUME MigrationInv, NEW p \in Processes, ProcessStep(p), NEW q \in Processes, q # p
    PROVE  ProcessInv(q)'
<1>1. /\ pc'[q] = pc[q] /\ calls'[q] = calls[q] /\ todo'[q] = todo[q] /\ known'[q] = known[q]
      /\ current'[q] = current[q] /\ effect'[q] = effect[q]
      /\ lock' = lock \/ lock \in {p, Nobody}
  BY StepIsLocal DEF MigrationInv
<1>2. ProcessInv(p) /\ ProcessInv(q)
  BY DEF MigrationInv
<1>3. Applied \subseteq Applied' /\ (records' = records \/ pc[p] = "commit")
  BY SchemaGrows
<1>4. pc[q] \in Working => lock = q /\ lock' = q /\ records' = records
  BY <1>1, <1>2, <1>3, NobodyAssumption DEF ProcessInv, WorksUnderLock, Working
<1>5. WorksUnderLock(q)'
  BY <1>1, <1>4 DEF WorksUnderLock
<1>6. TodoIsLeft(q)'
  BY <1>1, <1>2, <1>3, <1>4 DEF ProcessInv, TodoIsLeft, LastCall
<1>7. CurrentIsLeast(q)'
  <2>1. InTransaction \subseteq Working
    BY DEF InTransaction, Working
  <2> QED
    BY <1>1, <1>2, <1>4, <2>1 DEF ProcessInv, CurrentIsLeast
<1>8. CallsAreDone(q)'
  BY <1>1, <1>2, <1>3 DEF ProcessInv, CallsAreDone
<1> QED
  BY <1>5, <1>6, <1>7, <1>8 DEF ProcessInv

(* The process that takes the step.                                        *)
LEMMA OwnProcess ==
    ASSUME MigrationInv, NEW p \in Processes, ProcessStep(p)
    PROVE  ProcessInv(p)'
<1>0. Types /\ RecordsAreTrue /\ ProcessInv(p) /\ IDs \subseteq Nat
  BY NumberedIDs DEF MigrationInv
<1>1. Start(p) => ProcessInv(p)'
  <2> SUFFICES ASSUME Start(p) PROVE ProcessInv(p)'
    OBVIOUS
  <2>1. pc'[p] = "idle" /\ pc[p] = "off" /\ calls' = calls
    BY <1>0 DEF Start, Goto, Types
  <2>2. calls'[p] = <<>> /\ Len(calls'[p]) = 0
    BY <1>0, <2>1 DEF ProcessInv, CallsAreDone
  <2> QED
    BY <2>1, <2>2 DEF ProcessInv, WorksUnderLock, TodoIsLeft, CurrentIsLeast, CallsAreDone, Working,
       InTransaction
<1>2. ASSUME NEW ids \in Sources, MustRegister(p, ids) PROVE ProcessInv(p)'
  <2>1. /\ pc'[p] = "wait" /\ pc[p] = "idle" /\ calls'[p] = Append(calls[p], ids)
        /\ todo'[p] = ids \union {TableDDL} /\ applied' = applied
    BY <1>0, <1>2 DEF MustRegister, Goto, Types, dbVars
  <2>2. /\ Len(calls'[p]) = Len(calls[p]) + 1 /\ calls'[p][Len(calls[p]) + 1] = ids
        /\ \A k \in 1 .. Len(calls[p]) : calls'[p][k] = calls[p][k]
        /\ calls'[p] # <<>> /\ Len(calls[p]) \in Nat
    <3>1. calls[p] \in Seq(Sources)
      BY <1>0 DEF Types
    <3> QED
      BY <2>1, <3>1, AppendProperties, LenProperties
  <2>3. LastCall(p)' = ids \union {TableDDL}
    BY <2>2 DEF LastCall
  <2>4. Applied' = Applied
    BY <2>1 DEF Applied
  <2>5. ASSUME NEW k \in 1 .. Len(calls'[p]), k < Len(calls'[p]) PROVE calls'[p][k] \subseteq Applied'
    <3>1. k \in 1 .. Len(calls[p])
      BY <2>2, <2>5
    <3>2. calls[p][k] \subseteq Applied
      BY <1>0, <2>1, <3>1 DEF ProcessInv, CallsAreDone
    <3> QED
      BY <2>2, <2>4, <3>1, <3>2
  <2>6. CallsAreDone(p)'
    BY <2>1, <2>2, <2>5 DEF CallsAreDone
  <2>7. TodoIsLeft(p)'
    BY <2>1, <2>3 DEF TodoIsLeft, Working
  <2> QED
    BY <2>1, <2>6, <2>7 DEF ProcessInv, WorksUnderLock, CurrentIsLeast, Working, InTransaction
<1>3. ASSUME pc[p] \in Working \union {"wait"}, pc'[p] \in Working, calls' = calls, Applied \subseteq Applied'
      PROVE  CallsAreDone(p)'
  BY <1>0, <1>3 DEF ProcessInv, CallsAreDone, Working
<1>4. TakeLock(p) => ProcessInv(p)'
  <2> SUFFICES ASSUME TakeLock(p) PROVE ProcessInv(p)'
    OBVIOUS
  <2>1. pc'[p] = "locked" /\ pc[p] = "wait" /\ lock' = p /\ UNCHANGED <<calls, todo, known, applied, records>>
    BY <1>0 DEF TakeLock, Goto, Types
  <2>2. Applied' = Applied
    BY <2>1 DEF Applied
  <2> QED
    BY <1>0, <1>3, <2>1, <2>2 DEF ProcessInv, WorksUnderLock, TodoIsLeft, CurrentIsLeast, LastCall, Working,
       InTransaction
<1>5. GetPerformedMigrationIDs(p) => ProcessInv(p)'
  <2> SUFFICES ASSUME GetPerformedMigrationIDs(p) PROVE ProcessInv(p)'
    OBVIOUS
  <2>1. /\ pc'[p] = "loop" /\ pc[p] = "locked" /\ UNCHANGED <<calls, todo, lock, applied, records>>
        /\ known'[p] = IF TableDDL \in Applied THEN records ELSE {}
    BY <1>0 DEF GetPerformedMigrationIDs, Goto, Types, dbVars
  <2>2. Applied' = Applied
    BY <2>1 DEF Applied
  <2>3. known'[p] = records
    BY <1>0, <2>1 DEF RecordsAreTrue
  <2> QED
    BY <1>0, <1>3, <2>1, <2>2, <2>3 DEF ProcessInv, WorksUnderLock, TodoIsLeft, CurrentIsLeast, LastCall,
       Working, InTransaction
<1>6. Skip(p) => ProcessInv(p)'
  <2> SUFFICES ASSUME Skip(p) PROVE ProcessInv(p)'
    OBVIOUS
  <2>1. PICK m \in todo[p] \intersect known[p] : todo' = [todo EXCEPT ![p] = @ \ {m}]
    BY DEF Skip
  <2>2. /\ pc' = pc /\ pc[p] = "loop" /\ UNCHANGED <<calls, known, lock, applied, records>>
        /\ todo'[p] = todo[p] \ {m}
    BY <1>0, <2>1 DEF Skip, Types, dbVars
  <2>3. Applied' = Applied
    BY <2>2 DEF Applied
  <2>4. m \in Applied
    BY <1>0, <2>1, <2>2 DEF ProcessInv, TodoIsLeft, RecordsAreTrue, Working
  <2> QED
    BY <1>0, <1>3, <2>2, <2>3, <2>4 DEF ProcessInv, WorksUnderLock, TodoIsLeft, CurrentIsLeast, LastCall,
       Working, InTransaction
<1>7. BeginMigration(p) => ProcessInv(p)'
  <2> SUFFICES ASSUME BeginMigration(p) PROVE ProcessInv(p)'
    OBVIOUS
  <2>1. PICK m \in todo[p] \ known[p] : Pick(p, m) /\ current' = [current EXCEPT ![p] = m]
    BY DEF BeginMigration
  <2>2. /\ pc'[p] = "tx" /\ pc[p] = "loop" /\ UNCHANGED <<calls, todo, known, lock, applied, records>>
        /\ current'[p] = m
    BY <1>0, <2>1 DEF BeginMigration, Goto, Types, dbVars
  <2>3. Applied' = Applied
    BY <2>2 DEF Applied
  <2>4. m \notin records /\ m \in todo[p] /\ \A k \in todo[p] : m <= k
    BY <1>0, <2>1, <2>2 DEF ProcessInv, TodoIsLeft, Pick, Working
  <2> QED
    BY <1>0, <1>3, <2>2, <2>3, <2>4 DEF ProcessInv, WorksUnderLock, TodoIsLeft, CurrentIsLeast, LastCall,
       Working, InTransaction
<1>8. RunQueries(p) => ProcessInv(p)'
  <2> SUFFICES ASSUME RunQueries(p) PROVE ProcessInv(p)'
    OBVIOUS
  <2>1. /\ pc'[p] = "record" /\ pc[p] = "tx" /\ effect'[p] = <<current[p]>>
        /\ UNCHANGED <<calls, todo, known, current, lock, applied, records>>
    BY <1>0 DEF RunQueries, Goto, Types, dbVars
  <2>2. Applied' = Applied
    BY <2>1 DEF Applied
  <2> QED
    BY <1>0, <1>3, <2>1, <2>2 DEF ProcessInv, WorksUnderLock, TodoIsLeft, CurrentIsLeast, LastCall, Working,
       InTransaction
<1>9. CreateMigrationRecord(p) /\ CanRecord(p) => ProcessInv(p)'
  <2> SUFFICES ASSUME CreateMigrationRecord(p), CanRecord(p) PROVE ProcessInv(p)'
    OBVIOUS
  <2>1. /\ pc'[p] = "commit" /\ pc[p] = "record"
        /\ UNCHANGED <<calls, todo, known, current, effect, lock, applied, records>>
    BY <1>0 DEF CreateMigrationRecord, Goto, Types, dbVars
  <2>2. Applied' = Applied
    BY <2>1 DEF Applied
  <2> QED
    BY <1>0, <1>3, <2>1, <2>2 DEF ProcessInv, WorksUnderLock, TodoIsLeft, CurrentIsLeast, LastCall, Working,
       InTransaction
<1>10. CommitMigration(p) => ProcessInv(p)'
  <2> SUFFICES ASSUME CommitMigration(p) PROVE ProcessInv(p)'
    OBVIOUS
  <2>1. /\ pc'[p] = "loop" /\ pc[p] = "commit" /\ UNCHANGED <<calls, known, lock>>
        /\ todo'[p] = todo[p] \ {current[p]}
    BY <1>0 DEF CommitMigration, Goto, Types
  <2>2. /\ Applied' = Applied \union {current[p]} /\ records' = records \union {current[p]}
        /\ known[p] \subseteq records /\ todo[p] \intersect records \subseteq known[p]
        /\ LastCall(p)' = LastCall(p) /\ LastCall(p) \subseteq todo[p] \union Applied
    BY <1>0, <2>1, CommitAdds DEF ProcessInv, TodoIsLeft, LastCall, Working
  <2>3. TodoIsLeft(p)'
    BY <2>1, <2>2 DEF TodoIsLeft
  <2>4. CallsAreDone(p)'
    BY <1>3, <2>1, <2>2 DEF Working
  <2> QED
    BY <1>0, <2>1, <2>3, <2>4 DEF ProcessInv, WorksUnderLock, CurrentIsLeast, Working, InTransaction
<1>11. Release(p) => ProcessInv(p)'
  <2> SUFFICES ASSUME Release(p) PROVE ProcessInv(p)'
    OBVIOUS
  <2>1. pc'[p] = "idle" /\ pc[p] = "loop" /\ todo[p] = {} /\ UNCHANGED <<calls, applied>>
    BY <1>0 DEF Release, Goto, Types
  <2>2. Applied' = Applied
    BY <2>1 DEF Applied
  <2>3. calls[p][Len(calls[p])] \subseteq Applied
    BY <1>0, <2>1 DEF ProcessInv, TodoIsLeft, LastCall, Working
  <2>4. Len(calls[p]) \in Nat
    BY <1>0, LenProperties DEF Types
  <2>5. ASSUME NEW k \in 1 .. Len(calls[p]) PROVE calls[p][k] \subseteq Applied
    <3>1. k < Len(calls[p]) \/ k = Len(calls[p])
      BY <2>4
    <3> QED
      BY <1>0, <2>3, <3>1 DEF ProcessInv, CallsAreDone
  <2>6. CallsAreDone(p)'
    BY <2>1, <2>2, <2>5 DEF CallsAreDone, Working
  <2> QED
    BY <2>1, <2>6 DEF ProcessInv, WorksUnderLock, TodoIsLeft, CurrentIsLeast, Working, InTransaction
<1>12. Exit(p) => ProcessInv(p)'
  <2> SUFFICES ASSUME Exit(p) PROVE ProcessInv(p)'
    OBVIOUS
  <2>1. pc'[p] = "off" /\ calls'[p] = <<>>
    BY <1>0 DEF Exit, Goto, Types
  <2>2. Len(calls'[p]) = 0
    BY <2>1
  <2> QED
    BY <2>1, <2>2 DEF ProcessInv, WorksUnderLock, TodoIsLeft, CurrentIsLeast, CallsAreDone, Working,
       InTransaction
<1> QED
  BY <1>1, <1>2, <1>4, <1>5, <1>6, <1>7, <1>8, <1>9, <1>10, <1>11, <1>12, ProcessSteps

LEMMA MigrationStepInv == MigrationInv /\ DatabaseStep => MigrationInv'
<1> SUFFICES ASSUME MigrationInv, DatabaseStep PROVE MigrationInv'
  OBVIOUS
<1>1. ASSUME NEW p \in Processes, ProcessStep(p) PROVE MigrationInv'
  <2>1. \A q \in Processes : ProcessInv(q)'
    BY <1>1, OwnProcess, OtherProcess
  <2> QED
    BY <1>1, <2>1, MigrationTypes, SchemaGrows DEF MigrationInv
<1>2. CASE UNCHANGED <<procVars, dbVars>>
  BY <1>2 DEF procVars, dbVars, MigrationInv, Types, RecordsAreTrue, ProcessInv, WorksUnderLock, TodoIsLeft,
     CurrentIsLeast, CallsAreDone, LastCall, Applied
<1> QED
  BY <1>1, <1>2 DEF DatabaseStep

LEMMA MigrationInitInv == Init => MigrationInv
<1> SUFFICES ASSUME Init PROVE MigrationInv
  OBVIOUS
<1>1. Types
  BY DEF Init, Types, PcStates
<1>2. RecordsAreTrue
  BY DEF Init, RecordsAreTrue, Applied
<1>3. ASSUME NEW p \in Processes PROVE ProcessInv(p)
  <2>1. pc[p] = "off" /\ calls[p] = <<>> /\ Len(calls[p]) = 0
    BY DEF Init
  <2> QED
    BY <2>1 DEF ProcessInv, WorksUnderLock, TodoIsLeft, CurrentIsLeast, CallsAreDone, Working, InTransaction
<1> QED
  BY <1>1, <1>2, <1>3 DEF MigrationInv

LEMMA MigrationInvIsEnough == MigrationInv => AppliedOnceInOrder
<1> SUFFICES ASSUME MigrationInv PROVE AppliedOnceInOrder
  OBVIOUS
<1>1. DOMAIN applied = 1 .. Len(applied)
  BY LenProperties DEF MigrationInv, Types
<1>2. \A j, k \in DOMAIN applied : applied[j] = applied[k] => j = k
  BY <1>1 DEF MigrationInv, RecordsAreTrue
<1>3. ASSUME NEW p \in Processes, pc[p] \in {"tx", "record", "commit"},
             NEW m \in calls[p][Len(calls[p])] \union {TableDDL}, m < current[p]
      PROVE  m \in Applied
  <2>1. /\ m \in todo[p] \union Applied /\ current[p] \in todo[p] /\ todo[p] \subseteq Nat
        /\ \A k \in todo[p] : current[p] <= k
    BY <1>3, NumberedIDs DEF MigrationInv, Types, ProcessInv, TodoIsLeft, CurrentIsLeast, LastCall, Working,
       InTransaction
  <2> QED
    BY <1>3, <2>1
<1> QED
  BY <1>2, <1>3 DEF AppliedOnceInOrder

(***************************************************************************)
(* Execute: whichever processes start, register migrations and crash, a    *)
(* migration takes effect once, and on a schema that has every earlier one *)
(* of its call.                                                            *)
(***************************************************************************)
THEOREM MigrationsOnce == Spec => []AppliedOnceInOrder
<1>1. [Next]_vars => DatabaseStep
  BY DEF Next, vars, DatabaseStep, ProcessStep, Fault
<1> QED
  BY <1>1, MigrationInitInv, MigrationStepInv, MigrationInvIsEnough, PTL DEF Spec

-----------------------------------------------------------------------------
(***************************************************************************)
(* A process of the repository among the others.                           *)
(***************************************************************************)

(* The steps of a process that runs leave what it has loaded alone.        *)
LEMMA RunStepKeeps ==
    ASSUME R!RunStep
    PROVE  /\ UNCHANGED <<program, loader, stack, db>>
           /\ phase' = phase \/ (phase = "running" /\ phase' = "closing")
           /\ faults' = faults \/ faults' = faults + 1
<1> USE DEF R!start, R!group, R!http, R!End, R!Fault
<1>1. CASE R!Signal \/ R!Cancel \/ R!SignalEnds \/ R!WorkerEnds("consumer") \/ R!WorkerEnds("process")
  BY <1>1 DEF R!Signal, R!Cancel, R!SignalEnds, R!WorkerEnds
<1>2. CASE R!ListenerEnds \/ R!CleanEnds \/ R!JobFails \/ R!ListenFails \/ R!Arrive \/ R!Answer
  BY <1>2 DEF R!ListenerEnds, R!CleanEnds, R!JobFails, R!ListenFails, R!Arrive, R!Answer
<1>3. CASE R!ShutdownStarts \/ R!ShutdownEnds \/ R!ShutdownTimesOut \/ R!Wait
  BY <1>3 DEF R!ShutdownStarts, R!ShutdownEnds, R!ShutdownTimesOut, R!Wait
<1> QED
  BY <1>1, <1>2, <1>3 DEF R!RunStep

LEMMA TablesAreSources ==
    ASSUME NEW n, R!Registers(n)
    PROVE  n \in DOMAIN R!Migrates /\ TableMigrations[R!Migrates[n]] \in Sources
  BY TablesAssumption DEF R!Registers, R!Migrates, TableMigrations

LEMMA DisconnectIsExit ==
    ASSUME MigrationInv, Disconnect
    PROVE  /\ DatabaseStep /\ pc'[Observed] = "off"
           /\ \A q \in Others : pc'[q] = pc[q]
<1>1. Observed \in Processes
  BY DeploymentAssumption
<1>2. CASE pc[Observed] = "off" /\ UNCHANGED <<procVars, dbVars>>
  BY <1>2 DEF DatabaseStep, procVars
<1>3. CASE Exit(Observed)
  BY <1>1, <1>3 DEF DatabaseStep, ProcessStep, Exit, Goto, MigrationInv, Types, Others
<1> QED
  BY <1>2, <1>3 DEF Disconnect

(* For the database a deployment is a number of processes as in Migrations.*)
LEMMA SystemStepsDatabase ==
    ASSUME MigrationInv, [SystemNext]_system
    PROVE  DatabaseStep
<1>0. Observed \in Processes /\ Others \subseteq Processes
  BY DeploymentAssumption DEF Others
<1>1. ASSUME UNCHANGED vars \/ UNCHANGED <<procVars, dbVars>> PROVE DatabaseStep
  BY <1>1 DEF vars, DatabaseStep
<1>2. CASE LoadPart \/ BuildPart \/ RunJobs \/ PartFails \/ RunObserved \/ UNCHANGED system
  BY <1>1, <1>2 DEF LoadPart, BuildPart, RunJobs, PartFails, RunObserved, system
<1>3. CASE BuildDatabase
  BY <1>0, <1>3 DEF BuildDatabase, DatabaseStep, ProcessStep
<1>4. CASE RegisterStorage
  BY <1>0, <1>4, TablesAreSources DEF RegisterStorage, DatabaseStep, ProcessStep
<1>5. CASE ExecuteForStorage
  BY <1>0, <1>5 DEF ExecuteForStorage, DatabaseStep, ProcessStep
<1>6. CASE ExecuteFails
  BY <1>0, <1>6 DEF ExecuteFails, Fault, DatabaseStep, ProcessStep
<1>7. CASE KillObserved \/ CloseObserved
  BY <1>7, DisconnectIsExit DEF KillObserved, CloseObserved
<1>8. ASSUME NEW p \in Others, OtherStep(p) \/ OtherFault(p) PROVE DatabaseStep
  <2>1. ASSUME RegisterNext(p) PROVE \E ids \in Sources : MustRegister(p, ids)
    <3>1. calls[p] \in Seq(Sources) /\ CallsOf[p] \in Seq(Sources) /\ Len(calls[p]) < Len(CallsOf[p])
      BY <1>0, <2>1, DeploymentAssumption DEF RegisterNext, MigrationInv, Types, Others
    <3>2. CallsOf[p][Len(calls[p]) + 1] \in Sources
      BY <3>1
    <3> QED
      BY <2>1, <3>2 DEF RegisterNext
  <2> QED
    BY <1>0, <1>8, <2>1 DEF OtherStep, OtherFault, Fault, DatabaseStep, ProcessStep
<1> QED
  BY <1>2, <1>3, <1>4, <1>5, <1>6, <1>7, <1>8 DEF SystemNext, ObservedStart

LEMMA SystemMigrations == SystemSpec => []MigrationInv
<1>1. SystemInit => MigrationInv
  BY MigrationInitInv DEF SystemInit
<1>2. MigrationInv /\ [SystemNext]_system => MigrationInv'
  BY SystemStepsDatabase, MigrationStepInv
<1> QED
  BY <1>1, <1>2, PTL DEF SystemSpec

(***************************************************************************)
(* The same among the programs of the repository, which register their     *)
(* migrations one storage after the other, when the containers load them.  *)
(***************************************************************************)
THEOREM DeploymentMigratesOnce == SystemSpec => []AppliedOnceInOrder
  BY SystemMigrations, MigrationInvIsEnough, PTL

-----------------------------------------------------------------------------
(***************************************************************************)
(* Starts that end early.                                                  *)
(***************************************************************************)

(* Execute itself finds the table of the migrations, and never the record  *)
(* of the one it performs.                                                 *)
LEMMA ExecuteGoesOn ==
    ASSUME MigrationInv, NEW p \in Processes, Execute(p)
    PROVE  pc[p] \notin {"off", "idle"} /\ pc'[p] # "off"
<1>0. Types /\ RecordsAreTrue /\ ProcessInv(p)
  BY DEF MigrationInv
<1>1. CASE CreateMigrationRecord(p)
  <2>1. pc[p] = "record"
    BY <1>1 DEF CreateMigrationRecord
  <2>2. /\ current[p] \in todo[p] /\ current[p] \notin records /\ todo[p] \subseteq Nat
        /\ \A m \in todo[p] : current[p] <= m
        /\ TableDDL \in todo[p] \union Applied
    BY <1>0, <2>1, NumberedIDs DEF Types, ProcessInv, CurrentIsLeast, TodoIsLeft, LastCall, Working,
       InTransaction
  <2>3. TableDDL \in Applied \union {current[p]}
    BY <2>2 DEF TableDDL
  <2>4. CanRecord(p)
    BY <2>2, <2>3 DEF CanRecord
  <2> QED
    BY <1>0, <1>1, <2>1, <2>4 DEF CreateMigrationRecord, Goto, Types
<1>2. CASE TakeLock(p) \/ GetPerformedMigrationIDs(p) \/ Skip(p) \/ BeginMigration(p)
  BY <1>0, <1>2 DEF TakeLock, GetPerformedMigrationIDs, Skip, BeginMigration, Goto, Types
<1>3. CASE RunQueries(p) \/ CommitMigration(p) \/ Release(p)
  BY <1>0, <1>3 DEF RunQueries, CommitMigration, Release, Goto, Types
<1> QED
  BY <1>1, <1>2, <1>3 DEF Execute

(* The observed process migrates only while the provider of a storage is   *)
(* at the end of what it loads.                                            *)
MigratesInProvider ==
    pc[Observed] \notin {"off", "idle"} =>
        phase = "starting" /\ stack # <<>> /\ R!Wanted = {} /\ R!Registers(Top)

StartInv == MigrationInv /\ faults \in Nat /\ MigratesInProvider

LEMMA ObservedStays ==
    ASSUME UNCHANGED <<program, loader, stack>>
    PROVE  R!Wanted' = R!Wanted /\ Top' = Top
  BY DEF R!Wanted, R!Asked, Top

LEMMA FaultsAreCounted ==
    ASSUME faults \in Nat, [SystemNext]_system
    PROVE  faults' \in Nat
<1>1. ASSUME faults' = faults \/ faults' = faults + 1 PROVE faults' \in Nat
  BY <1>1
<1>2. ASSUME NEW p, Start(p) \/ Execute(p) \/ Fault(p) \/ RegisterNext(p) PROVE faults' \in Nat
  BY <1>1, <1>2 DEF Start, Execute, Fault, RegisterNext, MustRegister, TakeLock, GetPerformedMigrationIDs, Skip,
     BeginMigration, RunQueries, CreateMigrationRecord, CommitMigration, Release
<1>3. CASE ObservedStart
  BY <1>1, <1>2, <1>3 DEF ObservedStart, LoadPart, BuildDatabase, RegisterStorage, ExecuteForStorage, BuildPart,
     RunJobs, MustRegister, vars
<1>4. CASE ExecuteFails \/ PartFails
  BY <1>1, <1>2, <1>4 DEF ExecuteFails, PartFails, R!BuildPanics, R!Fault
<1>5. CASE KillObserved \/ CloseObserved
  BY <1>1, <1>5 DEF KillObserved, CloseObserved, Disconnect
<1>6. CASE RunObserved
  BY <1>1, <1>6, RunStepKeeps DEF RunObserved
<1>7. ASSUME NEW p \in Others, OtherStep(p) \/ OtherFault(p) PROVE faults' \in Nat
  BY <1>2, <1>7 DEF OtherStep, OtherFault
<1>8. CASE UNCHANGED system
  BY <1>8 DEF system, vars
<1> QED
  BY <1>3, <1>4, <1>5, <1>6, <1>7, <1>8 DEF SystemNext

LEMMA ProviderStep ==
    ASSUME StartInv, [SystemNext]_system
    PROVE  MigratesInProvider'
<1>0. /\ MigrationInv /\ MigratesInProvider /\ pc \in [Processes -> PcStates] /\ Observed \in Processes
      /\ Types
  BY DeploymentAssumption DEF StartInv, MigrationInv, Types
<1>1. ASSUME pc'[Observed] \in {"off", "idle"} PROVE MigratesInProvider'
  BY <1>1 DEF MigratesInProvider
<1>2. ASSUME pc'[Observed] = pc[Observed], UNCHANGED <<program, loader, stack>>,
             phase' = phase \/ phase = "running"
      PROVE  MigratesInProvider'
  BY <1>0, <1>2, ObservedStays DEF MigratesInProvider
<1>3. CASE LoadPart
  <2>1. R!Wanted # {} /\ pc' = pc
    BY <1>3 DEF LoadPart, R!Load, vars, procVars
  <2> QED
    BY <1>0, <1>1, <2>1 DEF MigratesInProvider
<1>4. CASE BuildDatabase
  BY <1>0, <1>1, <1>4 DEF BuildDatabase, Start, Goto
<1>5. CASE RegisterStorage
  <2>1. /\ phase' = "starting" /\ stack' # <<>> /\ R!Wanted = {} /\ R!Registers(Top)
        /\ UNCHANGED <<program, loader, stack>>
    BY <1>5 DEF RegisterStorage, AtProvider, observedVars
  <2> QED
    BY <2>1, ObservedStays DEF MigratesInProvider
<1>6. CASE ExecuteForStorage
  <2>1. pc[Observed] \notin {"off", "idle"} /\ pc'[Observed] # "off"
    BY <1>0, <1>6, ExecuteGoesOn DEF ExecuteForStorage
  <2>2. UNCHANGED <<program, loader, stack, phase>>
    BY <1>6, <2>1 DEF ExecuteForStorage, observedVars
  <2> QED
    BY <1>0, <2>1, <2>2, ObservedStays DEF MigratesInProvider
<1>7. CASE BuildPart
  BY <1>0, <1>1, <1>7 DEF BuildPart, MigratesInProvider, vars, procVars
<1>8. CASE RunJobs
  BY <1>0, <1>1, <1>8 DEF RunJobs, R!Run, MigratesInProvider, vars, procVars
<1>9. CASE ExecuteFails
  BY <1>0, <1>1, <1>9 DEF ExecuteFails, Fault, Exit, Goto
<1>10. CASE PartFails
  BY <1>0, <1>1, <1>10 DEF PartFails, MigratesInProvider, procVars
<1>11. CASE KillObserved \/ CloseObserved
  BY <1>0, <1>1, <1>11, DisconnectIsExit DEF KillObserved, CloseObserved
<1>12. CASE RunObserved
  BY <1>2, <1>12, RunStepKeeps DEF RunObserved, procVars
<1>13. ASSUME NEW p \in Others, OtherStep(p) \/ OtherFault(p) PROVE MigratesInProvider'
  <2>1. p \in Processes /\ p # Observed /\ UNCHANGED <<program, loader, stack, phase>>
    BY <1>13 DEF Others, OtherStep, OtherFault, observedVars
  <2>2. pc'[Observed] = pc[Observed]
    BY <1>0, <1>13, <2>1, StepIsLocal, SystemStepsDatabase DEF OtherStep, OtherFault, ProcessStep, Fault,
       RegisterNext, MustRegister, Goto
  <2> QED
    BY <1>2, <2>1, <2>2
<1>14. CASE UNCHANGED system
  BY <1>2, <1>14 DEF system, vars, procVars, observedVars
<1> QED
  BY <1>3, <1>4, <1>5, <1>6, <1>7, <1>8, <1>9, <1>10, <1>11, <1>12, <1>13, <1>14 DEF SystemNext, ObservedStart

LEMMA StartInvariant == SystemSpec => []StartInv
<1>1. SystemInit => faults \in Nat /\ MigratesInProvider
  BY DeploymentAssumption DEF SystemInit, Init, MigratesInProvider
<1>2. StartInv /\ MigrationInv' /\ [SystemNext]_system => StartInv'
  BY FaultsAreCounted, ProviderStep DEF StartInv
<1>3. MigrationInv /\ faults \in Nat /\ MigratesInProvider <=> StartInv
  BY DEF StartInv
<1> QED
  BY <1>1, <1>2, <1>3, SystemMigrations, PTL DEF SystemSpec

(***************************************************************************)
(* Processes that start together do not make each other fail: a start that *)
(* ends in Execute ends with a fault or, for the observed process, with a  *)
(* signal.                                                                 *)
(***************************************************************************)
THEOREM StartsEndByFaults == SystemSpec => OnlyFaultsEndAStart
<1> DEFINE Explained ==
        \A p \in Processes :
            pc[p] \notin {"off", "idle"} /\ pc'[p] = "off" =>
                faults' > faults \/ (p = Observed /\ signalled')
<1>1. StartInv /\ [SystemNext]_system => Explained
  <2> SUFFICES ASSUME StartInv, [SystemNext]_system, NEW p \in Processes,
                      pc[p] \notin {"off", "idle"}, pc'[p] = "off"
               PROVE  faults' > faults \/ (p = Observed /\ signalled')
    OBVIOUS
  <2>0. MigrationInv /\ Types /\ faults \in Nat /\ Observed \in Processes /\ Others = Processes \ {Observed}
    BY DeploymentAssumption DEF StartInv, MigrationInv, Others
  <2>1. ASSUME NEW q \in Processes, Fault(q) PROVE faults' > faults
    BY <2>0, <2>1 DEF Fault
  <2>2. ASSUME NEW q \in Processes, Execute(q) PROVE FALSE
    <3>1. CASE q = p
      BY <2>0, <2>2, <3>1, ExecuteGoesOn
    <3>2. CASE q # p
      BY <2>0, <2>2, <3>2, StepIsLocal DEF ProcessStep
    <3> QED
      BY <3>1, <3>2
  <2>3. ASSUME NEW q \in Processes, Start(q) PROVE FALSE
    BY <2>0, <2>3 DEF Start, Goto, Types
  <2>4. ASSUME NEW q \in Processes, NEW ids, MustRegister(q, ids) PROVE FALSE
    BY <2>0, <2>4 DEF MustRegister, Goto, Types
  <2>5. ASSUME pc' = pc PROVE FALSE
    BY <2>5
  <2>6. CASE ObservedStart
    BY <2>0, <2>2, <2>3, <2>4, <2>5, <2>6 DEF ObservedStart, LoadPart, BuildDatabase, RegisterStorage,
       ExecuteForStorage, BuildPart, RunJobs, vars, procVars
  <2>7. CASE ExecuteFails
    BY <2>0, <2>1, <2>7 DEF ExecuteFails
  <2>8. CASE PartFails \/ RunObserved \/ UNCHANGED system
    BY <2>5, <2>8 DEF PartFails, RunObserved, system, vars, procVars
  <2>9. CASE KillObserved
    <3>1. signalled' /\ \A q \in Others : pc'[q] = pc[q]
      BY <2>0, <2>9, DisconnectIsExit DEF KillObserved, R!Killed
    <3> QED
      BY <2>0, <3>1
  <2>10. CASE CloseObserved
    <3>1. phase = "closing" /\ \A q \in Others : pc'[q] = pc[q]
      BY <2>0, <2>10, DisconnectIsExit DEF CloseObserved, R!Close
    <3>2. pc[Observed] \in {"off", "idle"}
      BY <3>1 DEF StartInv, MigratesInProvider
    <3> QED
      BY <2>0, <3>1, <3>2
  <2>11. ASSUME NEW q \in Others, OtherStep(q) \/ OtherFault(q)
         PROVE  faults' > faults
    BY <2>0, <2>1, <2>2, <2>3, <2>4, <2>11 DEF OtherStep, OtherFault, RegisterNext
  <2> QED
    BY <2>6, <2>7, <2>8, <2>9, <2>10, <2>11 DEF SystemNext
<1> HIDE DEF Explained
<1>2. SystemSpec => [][Explained]_system
  BY <1>1, StartInvariant, PTL DEF SystemSpec
<1> QED
  BY <1>2 DEF OnlyFaultsEndAStart, Explained

-----------------------------------------------------------------------------
(***************************************************************************)
(* The wiring of the containers.                                           *)
(***************************************************************************)
IsLoaded(n) == n \in R!Parts /\ loader[n] = "loaded"

(* What a part that is loaded has loaded itself, and what its provider has *)
(* seen to.                                                                *)
LoadedIsReady ==
    \A n \in R!Parts : loader[n] = "loaded" =>
        /\ \A k \in 1 .. Len(R!Asks(n)) : loader[R!Asks(n)[k]] = "loaded"
        /\ R!Registers(n) => TableMigrations[R!Migrates[n]] \subseteq Applied
        /\ n = "db" => db = "open"

WiringInv ==
    /\ loader \in [R!Parts -> {"new", "loaded", "panicked"}] /\ program \in R!Programs
    /\ phase \in {"starting", "running"} => LoadedIsReady
    /\ phase = "running" =>
           \A k \in 1 .. Len(R!MainLoads[program]) : loader[R!MainLoads[program][k]] = "loaded"

(* A provider asks only for parts of the containers.                       *)
LEMMA PartsAskForParts ==
    ASSUME NEW n \in R!Parts, NEW k \in 1 .. Len(R!Asks(n))
    PROVE  R!Asks(n)[k] \in R!Parts
<1> USE DEF R!Asks, R!Deps, R!Parts, R!BaseDeps, R!InfrastructureDeps, R!UserDeps, R!UserSQLDeps,
            R!ProfileDeps, R!ProfileSQLDeps
<1>1. CASE n \in DOMAIN R!BaseDeps
  BY <1>1, SMTT(60)
<1>2. CASE n \in DOMAIN R!InfrastructureDeps
  BY <1>2, SMTT(60)
<1>3. CASE n \in DOMAIN R!UserDeps \union DOMAIN R!UserSQLDeps
  BY <1>3
<1>4. CASE n \in DOMAIN R!ProfileDeps
  <2>1. n \in {"remoteUsers", "profileService", "profileHandlers"}
    BY <1>4
  <2>2. CASE n = "profileService"
    BY <2>2
  <2>3. CASE n \in {"remoteUsers", "profileHandlers"}
    BY <2>3
  <2> QED
    BY <2>1, <2>2, <2>3
<1>5. CASE n \in DOMAIN R!ProfileSQLDeps
  BY <1>5
<1> QED
  BY <1>1, <1>2, <1>3, <1>4, <1>5

LEMMA MainAsksForParts ==
    ASSUME NEW p \in R!Programs, NEW k \in 1 .. Len(R!MainLoads[p])
    PROVE  R!MainLoads[p][k] \in R!Parts
  BY DEF R!MainLoads, R!Programs, R!Parts, R!BaseDeps, R!InfrastructureDeps, R!UserDeps, R!UserSQLDeps,
         R!ProfileDeps, R!ProfileSQLDeps

(* A provider that returns has loaded what it asks for, and the provider   *)
(* of a storage has migrated it.                                           *)
LEMMA BuildIsReady ==
    ASSUME StartInv, WiringInv, BuildDatabase \/ BuildPart
    PROVE  WiringInv'
<1>1. /\ phase = "starting" /\ stack # <<>> /\ R!Wanted = {} /\ phase' = phase
      /\ loader' = [loader EXCEPT ![Top] = "loaded"] /\ db' = IF Top = "db" THEN "open" ELSE db
      /\ program' = program
  BY DEF BuildDatabase, BuildPart, R!Build, Top, R!Last
<1>2. LoadedIsReady /\ loader \in [R!Parts -> {"new", "loaded", "panicked"}]
  BY <1>1 DEF WiringInv
<1>3. loader' \in [R!Parts -> {"new", "loaded", "panicked"}]
  BY <1>1, <1>2
<1>4. \A k \in 1 .. Len(R!Asks(Top)) : loader[R!Asks(Top)[k]] = "loaded"
  BY <1>1 DEF R!Wanted, R!Asked, Top, R!Last
<1>5. Applied' = Applied
  BY DEF BuildDatabase, BuildPart, Start, vars, dbVars, Applied
<1>6. ASSUME R!Registers(Top) PROVE TableMigrations[R!Migrates[Top]] \subseteq Applied
  <2>1. Top \in DOMAIN R!Migrates
    BY <1>6 DEF R!Registers
  <2>2. Top # "db"
    BY <2>1 DEF R!Migrates
  <2>3. pc[Observed] = "idle" /\ Registered(Top)
    BY <1>6, <2>2 DEF BuildDatabase, BuildPart
  <2>4. calls[Observed] \in Seq(Sources) /\ CallsAreDone(Observed)
    BY DeploymentAssumption DEF StartInv, MigrationInv, Types, ProcessInv
  <2>5. PICK k \in DOMAIN calls[Observed] : calls[Observed][k] = TableMigrations[R!Migrates[Top]]
    BY <2>3 DEF Registered
  <2>6. k \in 1 .. Len(calls[Observed])
    BY <2>4, <2>5, LenProperties
  <2> QED
    BY <2>3, <2>4, <2>5, <2>6 DEF CallsAreDone
<1>7. ASSUME NEW n \in R!Parts, loader'[n] = "loaded"
      PROVE  /\ \A k \in 1 .. Len(R!Asks(n)) : loader'[R!Asks(n)[k]] = "loaded"
             /\ R!Registers(n) => TableMigrations[R!Migrates[n]] \subseteq Applied'
             /\ n = "db" => db' = "open"
  <2>1. n = Top \/ loader[n] = "loaded"
    BY <1>1, <1>2, <1>7
  <2>2. \A k \in 1 .. Len(R!Asks(n)) : loader[R!Asks(n)[k]] = "loaded" /\ R!Asks(n)[k] \in R!Parts
    BY <1>2, <1>4, <2>1, PartsAskForParts DEF LoadedIsReady
  <2>3. \A k \in 1 .. Len(R!Asks(n)) : loader'[R!Asks(n)[k]] = "loaded"
    BY <1>1, <1>2, <2>2
  <2>4. R!Registers(n) => TableMigrations[R!Migrates[n]] \subseteq Applied'
    BY <1>2, <1>5, <1>6, <2>1 DEF LoadedIsReady
  <2>5. n = "db" => db' = "open"
    BY <1>1, <1>2, <2>1 DEF LoadedIsReady
  <2> QED
    BY <2>3, <2>4, <2>5
<1>8. LoadedIsReady'
  BY <1>7 DEF LoadedIsReady, R!Registers, R!Asks
<1> QED
  BY <1>1, <1>3, <1>8 DEF WiringInv

LEMMA WiringStep ==
    ASSUME StartInv, WiringInv, [SystemNext]_system
    PROVE  WiringInv'
<1>0. /\ MigrationInv /\ Observed \in Processes /\ Others \subseteq Processes
      /\ loader \in [R!Parts -> {"new", "loaded", "panicked"}]
  BY DeploymentAssumption DEF StartInv, WiringInv, Others
<1>1. Applied \subseteq Applied'
  BY <1>0, SystemStepsDatabase, SchemaGrows DEF DatabaseStep, dbVars, Applied
<1>2. ASSUME UNCHANGED <<program, loader, db>>,
             phase' = phase \/ phase' \notin {"starting", "running"}
      PROVE  WiringInv'
  <2>1. LoadedIsReady => LoadedIsReady'
    BY <1>1, <1>2 DEF LoadedIsReady, R!Registers, R!Asks
  <2> QED
    BY <1>2, <2>1 DEF WiringInv
<1>3. ASSUME loader' \in [R!Parts -> {"new", "loaded", "panicked"}], program' = program,
             phase' \notin {"starting", "running"}
      PROVE  WiringInv'
  BY <1>3 DEF WiringInv
<1>4. CASE LoadPart
  BY <1>2, <1>4 DEF LoadPart, R!Load
<1>5. CASE BuildDatabase \/ BuildPart
  BY <1>5, BuildIsReady
<1>6. CASE RegisterStorage
  BY <1>2, <1>6 DEF RegisterStorage, observedVars
<1>7. CASE ExecuteForStorage
  <2>1. UNCHANGED observedVars
    BY <1>0, <1>7, ExecuteGoesOn DEF ExecuteForStorage
  <2> QED
    BY <1>2, <2>1 DEF observedVars
<1>8. CASE RunJobs
  <2>1. /\ phase = "starting" /\ stack = <<>> /\ R!Wanted = {} /\ phase' = "running"
        /\ UNCHANGED <<program, loader, db>> /\ Applied' = Applied
    BY <1>8 DEF RunJobs, R!Run, R!start, vars, dbVars, Applied
  <2>2. \A k \in 1 .. Len(R!MainLoads[program]) : loader[R!MainLoads[program][k]] = "loaded"
    BY <2>1 DEF R!Wanted, R!Asked
  <2>3. LoadedIsReady'
    BY <2>1 DEF WiringInv, LoadedIsReady, R!Registers, R!Asks
  <2> QED
    BY <1>0, <2>1, <2>2, <2>3 DEF WiringInv
<1>9. CASE ExecuteFails \/ PartFails
  <2>1. /\ phase' = "closing" /\ program' = program
        /\ loader' = [n \in R!Parts |-> IF R!Contains(stack, n) THEN "panicked" ELSE loader[n]]
    BY <1>9 DEF ExecuteFails, PartFails, R!BuildPanics, R!ProviderPanics
  <2> QED
    BY <1>0, <1>3, <2>1
<1>10. CASE KillObserved \/ CloseObserved
  BY <1>0, <1>3, <1>10 DEF KillObserved, CloseObserved, R!Killed, R!Close, R!start
<1>11. CASE RunObserved
  BY <1>2, <1>11, RunStepKeeps DEF RunObserved
<1>12. ASSUME NEW p \in Others, OtherStep(p) \/ OtherFault(p) PROVE WiringInv'
  BY <1>2, <1>12 DEF OtherStep, OtherFault, observedVars
<1>13. CASE UNCHANGED system
  BY <1>2, <1>13 DEF system, observedVars
<1> QED
  BY <1>4, <1>5, <1>6, <1>7, <1>8, <1>9, <1>10, <1>11, <1>12, <1>13 DEF SystemNext, ObservedStart

(* The paths from what the mains load to the storages.                     *)
AsksFor(n, m) == \E k \in 1 .. Len(R!Asks(n)) : R!Asks(n)[k] = m

LEMMA Wires ==
    /\ AsksFor("userService", "userRepo") /\ AsksFor("userService", "db")
    /\ AsksFor("userRepo", "userSQL") /\ AsksFor("userRepo", "userEvents")
    /\ AsksFor("userEvents", "eventDispatcher")
    /\ AsksFor("eventDispatcher", "busProducer")
    /\ AsksFor("busProducer", "msgStorage")
    /\ AsksFor("storageConsumers", "msgStorage")
    /\ AsksFor("profileHandlers", "profileService")
    /\ AsksFor("profileService", "profileRepo") /\ AsksFor("profileService", "idkService") /\ AsksFor("profileService", "db")
    /\ AsksFor("profileRepo", "profileSQL")
    /\ AsksFor("idkService", "idkStorage")
    /\ AsksFor("idkStorage", "db") /\ AsksFor("idkStorage", "migrations")
    /\ AsksFor("msgStorage", "migrations")
    /\ AsksFor("userSQL", "migrations")
    /\ AsksFor("profileSQL", "migrations")
<1>1. AsksFor("userService", "userRepo") /\ AsksFor("userService", "db")
  <2>1. R!Asks("userService") = <<"userRepo", "db">>
    BY DEF R!Asks, R!Deps, R!Parts, R!BaseDeps, R!InfrastructureDeps, R!UserDeps, R!UserSQLDeps, R!ProfileDeps,
       R!ProfileSQLDeps
  <2> QED
    BY <2>1 DEF AsksFor
<1>2. AsksFor("userRepo", "userSQL") /\ AsksFor("userRepo", "userEvents")
  <2>1. R!Asks("userRepo") = <<"userSQL", "db", "userEvents">>
    BY DEF R!Asks, R!Deps, R!Parts, R!BaseDeps, R!InfrastructureDeps, R!UserDeps, R!UserSQLDeps, R!ProfileDeps,
       R!ProfileSQLDeps
  <2> QED
    BY <2>1 DEF AsksFor
<1>3. AsksFor("userEvents", "eventDispatcher")
  <2>1. R!Asks("userEvents") = <<"eventDispatcher">>
    BY DEF R!Asks, R!Deps, R!Parts, R!BaseDeps, R!InfrastructureDeps, R!UserDeps, R!UserSQLDeps, R!ProfileDeps,
       R!ProfileSQLDeps
  <2> QED
    BY <2>1 DEF AsksFor
<1>4. AsksFor("eventDispatcher", "busProducer")
  <2>1. R!Asks("eventDispatcher") = <<"busProducer">>
    BY DEF R!Asks, R!Deps, R!Parts, R!BaseDeps, R!InfrastructureDeps, R!UserDeps, R!UserSQLDeps, R!ProfileDeps,
       R!ProfileSQLDeps
  <2> QED
    BY <2>1 DEF AsksFor
<1>5. AsksFor("busProducer", "msgStorage")
  <2>1. R!Asks("busProducer") = <<"msgStorage", "observer", "metrics", "logger">>
    BY DEF R!Asks, R!Deps, R!Parts, R!BaseDeps, R!InfrastructureDeps, R!UserDeps, R!UserSQLDeps, R!ProfileDeps,
       R!ProfileSQLDeps
  <2> QED
    BY <2>1 DEF AsksFor
<1>6. AsksFor("storageConsumers", "msgStorage")
  <2>1. R!Asks("storageConsumers") = <<"msgStorage", "metrics", "logger">>
    BY DEF R!Asks, R!Deps, R!Parts, R!BaseDeps, R!InfrastructureDeps, R!UserDeps, R!UserSQLDeps, R!ProfileDeps,
       R!ProfileSQLDeps
  <2> QED
    BY <2>1 DEF AsksFor
<1>7. AsksFor("profileHandlers", "profileService")
  <2>1. R!Asks("profileHandlers") = <<"profileService">>
    BY DEF R!Asks, R!Deps, R!Parts, R!BaseDeps, R!InfrastructureDeps, R!UserDeps, R!UserSQLDeps, R!ProfileDeps,
       R!ProfileSQLDeps
  <2> QED
    BY <2>1 DEF AsksFor
<1>8. AsksFor("profileService", "profileRepo") /\ AsksFor("profileService", "idkService") /\ AsksFor("profileService", "db")
  <2>1. R!Asks("profileService") = <<"remoteUsers", "profileRepo", "idkService", "db">>
    BY DEF R!Asks, R!Deps, R!Parts, R!BaseDeps, R!InfrastructureDeps, R!UserDeps, R!UserSQLDeps, R!ProfileDeps,
       R!ProfileSQLDeps
  <2> QED
    BY <2>1 DEF AsksFor
<1>9. AsksFor("profileRepo", "profileSQL")
  <2>1. R!Asks("profileRepo") = <<"profileSQL", "db">>
    BY DEF R!Asks, R!Deps, R!Parts, R!BaseDeps, R!InfrastructureDeps, R!UserDeps, R!UserSQLDeps, R!ProfileDeps,
       R!ProfileSQLDeps
  <2> QED
    BY <2>1 DEF AsksFor
<1>10. AsksFor("idkService", "idkStorage")
  <2>1. R!Asks("idkService") = <<"idkStorage">>
    BY DEF R!Asks, R!Deps, R!Parts, R!BaseDeps, R!InfrastructureDeps, R!UserDeps, R!UserSQLDeps, R!ProfileDeps,
       R!ProfileSQLDeps
  <2> QED
    BY <2>1 DEF AsksFor
<1>11. AsksFor("idkStorage", "db") /\ AsksFor("idkStorage", "migrations")
  <2>1. R!Asks("idkStorage") = <<"migrations", "db">>
    BY DEF R!Asks, R!Deps, R!Parts, R!BaseDeps, R!InfrastructureDeps, R!UserDeps, R!UserSQLDeps, R!ProfileDeps,
       R!ProfileSQLDeps
  <2> QED
    BY <2>1 DEF AsksFor
<1>12. AsksFor("msgStorage", "migrations")
  <2>1. R!Asks("msgStorage") = <<"migrations", "db">>
    BY DEF R!Asks, R!Deps, R!Parts, R!BaseDeps, R!InfrastructureDeps, R!UserDeps, R!UserSQLDeps, R!ProfileDeps,
       R!ProfileSQLDeps
  <2> QED
    BY <2>1 DEF AsksFor
<1>13. AsksFor("userSQL", "migrations")
  <2>1. R!Asks("userSQL") = <<"migrations">>
    BY DEF R!Asks, R!Deps, R!Parts, R!BaseDeps, R!InfrastructureDeps, R!UserDeps, R!UserSQLDeps, R!ProfileDeps,
       R!ProfileSQLDeps
  <2> QED
    BY <2>1 DEF AsksFor
<1>14. AsksFor("profileSQL", "migrations")
  <2>1. R!Asks("profileSQL") = <<"migrations">>
    BY DEF R!Asks, R!Deps, R!Parts, R!BaseDeps, R!InfrastructureDeps, R!UserDeps, R!UserSQLDeps, R!ProfileDeps,
       R!ProfileSQLDeps
  <2> QED
    BY <2>1 DEF AsksFor
<1> QED
  BY <1>1, <1>2, <1>3, <1>4, <1>5, <1>6, <1>7, <1>8, <1>9, <1>10, <1>11, <1>12, <1>13, <1>14

LEMMA Storages ==
    /\ R!Registers("msgStorage") /\ R!Registers("idkStorage")
    /\ R!Registers("userSQL") /\ R!Registers("profileSQL")
    /\ R!Migrates["msgStorage"] = "message" /\ R!Migrates["idkStorage"] = "idk"
    /\ R!Migrates["userSQL"] = "user" /\ R!Migrates["profileSQL"] = "profile"
<1>1. ASSUME NEW n \in DOMAIN R!Migrates, AsksFor(n, "migrations") PROVE R!Registers(n)
  BY <1>1 DEF AsksFor, R!Registers, R!Contains
<1>2. DOMAIN R!Migrates = {"msgStorage", "idkStorage", "userSQL", "profileSQL"}
  BY DEF R!Migrates
<1>3. /\ R!Migrates["msgStorage"] = "message" /\ R!Migrates["idkStorage"] = "idk"
      /\ R!Migrates["userSQL"] = "user" /\ R!Migrates["profileSQL"] = "profile"
  BY DEF R!Migrates
<1> QED
  BY <1>1, <1>2, <1>3, Wires

LEMMA WhatAPartLoads ==
    ASSUME WiringInv, phase = "running", NEW n, NEW m, IsLoaded(n), AsksFor(n, m)
    PROVE  IsLoaded(m)
  BY PartsAskForParts DEF WiringInv, LoadedIsReady, IsLoaded, AsksFor

LEMMA RunningIsReady == WiringInv /\ MigrationInv => ReadyWhenRunning
<1> SUFFICES ASSUME WiringInv, MigrationInv, phase = "running"
             PROVE  /\ db = "open"
                    /\ \A t \in R!Tables[program] : TableMigrations[t] \subseteq Applied \intersect records
  BY DEF ReadyWhenRunning
<1>1. ASSUME NEW n, IsLoaded(n), R!Registers(n)
      PROVE  TableMigrations[R!Migrates[n]] \subseteq Applied \intersect records
  BY <1>1 DEF WiringInv, LoadedIsReady, IsLoaded, MigrationInv, RecordsAreTrue
<1>2. IsLoaded("db") => db = "open"
  BY DEF WiringInv, LoadedIsReady, IsLoaded
<1>3. IsLoaded("msgStorage") => TableMigrations["message"] \subseteq Applied \intersect records
  BY <1>1, Storages
<1>4. IsLoaded("idkStorage") => /\ TableMigrations["idk"] \subseteq Applied \intersect records
                               /\ IsLoaded("db")
  BY <1>1, Storages, WhatAPartLoads, Wires
<1>5. IsLoaded("idkService") => IsLoaded("idkStorage")
  BY WhatAPartLoads, Wires
<1>6. IsLoaded("userService") =>
          /\ IsLoaded("msgStorage") /\ IsLoaded("db")
          /\ TableMigrations["user"] \subseteq Applied \intersect records
  <2> SUFFICES ASSUME IsLoaded("userService")
               PROVE  /\ IsLoaded("msgStorage") /\ IsLoaded("db")
                      /\ TableMigrations["user"] \subseteq Applied \intersect records
    OBVIOUS
  <2>1. IsLoaded("userRepo") /\ IsLoaded("db")
    BY WhatAPartLoads, Wires
  <2>2. IsLoaded("userSQL") /\ IsLoaded("userEvents")
    BY <2>1, WhatAPartLoads, Wires
  <2>3. IsLoaded("eventDispatcher")
    BY <2>2, WhatAPartLoads, Wires
  <2>4. IsLoaded("busProducer")
    BY <2>3, WhatAPartLoads, Wires
  <2>5. IsLoaded("msgStorage")
    BY <2>4, WhatAPartLoads, Wires
  <2> QED
    BY <1>1, <2>1, <2>2, <2>5, Storages
<1>7. IsLoaded("profileService") =>
          /\ IsLoaded("idkService") /\ IsLoaded("db")
          /\ TableMigrations["profile"] \subseteq Applied \intersect records
  <2> SUFFICES ASSUME IsLoaded("profileService")
               PROVE  /\ IsLoaded("idkService") /\ IsLoaded("db")
                      /\ TableMigrations["profile"] \subseteq Applied \intersect records
    OBVIOUS
  <2>1. IsLoaded("profileRepo") /\ IsLoaded("idkService") /\ IsLoaded("db")
    BY WhatAPartLoads, Wires
  <2>2. IsLoaded("profileSQL")
    BY <2>1, WhatAPartLoads, Wires
  <2> QED
    BY <1>1, <2>1, <2>2, Storages
<1>8. \A k \in 1 .. Len(R!MainLoads[program]) : IsLoaded(R!MainLoads[program][k])
  BY MainAsksForParts DEF WiringInv, IsLoaded
<1>9. CASE program = "user-service"
  <2>1. IsLoaded("userService")
    BY <1>8, <1>9 DEF R!MainLoads, R!Programs
  <2>2. R!Tables[program] = {"user", "message"}
    BY <1>9 DEF R!Tables, R!Programs
  <2> QED
    BY <1>2, <1>3, <1>6, <2>1, <2>2
<1>10. CASE program = "user-profile-service"
  <2>1. IsLoaded("profileService")
    BY <1>8, <1>10 DEF R!MainLoads, R!Programs
  <2>2. R!Tables[program] = {"profile", "idk"}
    BY <1>10 DEF R!Tables, R!Programs
  <2> QED
    BY <1>2, <1>4, <1>5, <1>7, <2>1, <2>2
<1>11. CASE program = "message-handler-worker"
  <2>1. IsLoaded("profileHandlers") /\ IsLoaded("storageConsumers")
    BY <1>8, <1>11 DEF R!MainLoads, R!Programs
  <2>2. IsLoaded("profileService") /\ IsLoaded("msgStorage")
    BY <2>1, WhatAPartLoads, Wires
  <2>3. R!Tables[program] = {"message", "profile", "idk"}
    BY <1>11 DEF R!Tables, R!Programs
  <2> QED
    BY <1>2, <1>3, <1>4, <1>5, <1>7, <2>2, <2>3
<1>12. CASE program = "idk-cleaner-task"
  <2>1. IsLoaded("idkService")
    BY <1>8, <1>12 DEF R!MainLoads, R!Programs
  <2>2. R!Tables[program] = {"idk"}
    BY <1>12 DEF R!Tables, R!Programs
  <2> QED
    BY <1>2, <1>4, <1>5, <2>1, <2>2
<1> QED
  BY <1>9, <1>10, <1>11, <1>12 DEF WiringInv, R!Programs

(***************************************************************************)
(* The providers of the containers: a program that runs has an open        *)
(* database and the migrations of every table it uses, whatever else its   *)
(* main has loaded and in which order.                                     *)
(***************************************************************************)
THEOREM RunsOnItsSchema == SystemSpec => []ReadyWhenRunning
<1>1. SystemInit => WiringInv
  BY DEF SystemInit, R!Init, WiringInv, LoadedIsReady
<1>2. StartInv /\ WiringInv /\ [SystemNext]_system => WiringInv'
  BY WiringStep
<1>3. StartInv => MigrationInv
  BY DEF StartInv
<1> QED
  BY <1>1, <1>2, <1>3, StartInvariant, RunningIsReady, PTL DEF SystemSpec

-----------------------------------------------------------------------------
(***************************************************************************)
(* The way a process stops.                                                *)
(***************************************************************************)

(* The jobs run while the process does, and only those of the program.     *)
JobsInPhase ==
    /\ phase \in {"starting", "running", "closing", "exited"}
    /\ job \in [R!AllJobs -> {"none", "running", "stopping", "ended"}]
    /\ \A j \in R!AllJobs :
           /\ phase = "starting" \/ j \notin R!Jobs[program] => job[j] = "none"
           /\ phase \in {"closing", "exited"} => job[j] \in {"none", "ended"}

(* The first outcome is there when a job has ended or the context is       *)
(* cancelled, and is an error only after a fault: errors of a listener or  *)
(* a shutdown that are only due to the stop come later.                    *)
FirstOutcome ==
    /\ first \in {None, "completed", "failed"}
    /\ first = "failed" => faults > 0
    /\ cancelled => first # None
    /\ \A j \in R!AllJobs : job[j] = "ended" => first # None
    /\ job["http"] = "stopping" => cancelled

RequestsAreServed == job["http"] \in {"none", "ended"} => inflight = 0 \/ left # None

(* The status is set when the jobs are over or a provider panics.          *)
StatusIsTrue ==
    /\ exit \in {None, 0, 1}
    /\ phase \in {"starting", "running"} => exit = None
    /\ exit = 1 => faults > 0
    /\ exit = 0 => first = "completed"

JobsInv == JobsInPhase /\ FirstOutcome /\ RequestsAreServed /\ StatusIsTrue

(* A job ends, with an outcome.                                            *)
LEMMA JobEnds ==
    ASSUME JobsInv, faults \in Nat, NEW j \in R!AllJobs, job[j] \in {"running", "stopping"},
           NEW outcome \in {"completed", "failed"}, R!End(j, outcome),
           outcome = "failed" => first # None \/ faults' > faults,
           faults' = faults \/ faults' = faults + 1,
           UNCHANGED <<program, phase, inflight, exit>>,
           IF j = "http" THEN inflight = 0 \/ left' # None ELSE left' = left
    PROVE  JobsInv'
<1>1. phase = "running" /\ j \in R!Jobs[program] /\ exit = None
  BY DEF JobsInv, JobsInPhase, StatusIsTrue
<1>2. /\ job' = [job EXCEPT ![j] = "ended"] /\ cancelled' = cancelled
      /\ first' = IF first = None THEN outcome ELSE first
  BY DEF R!End, R!KeepFirst
<1>3. job \in [R!AllJobs -> {"none", "running", "stopping", "ended"}]
  BY DEF JobsInv, JobsInPhase
<1>4. JobsInPhase'
  BY <1>1, <1>2, <1>3 DEF JobsInv, JobsInPhase
<1>5. first' # None /\ first' \in {"completed", "failed"}
  BY <1>2, DeploymentAssumption DEF JobsInv, FirstOutcome
<1>6. first' = "failed" => faults' > 0
  BY <1>2 DEF JobsInv, FirstOutcome
<1>7. job'["http"] = "stopping" => cancelled'
  BY <1>2, <1>3 DEF JobsInv, FirstOutcome
<1>8. FirstOutcome'
  BY <1>5, <1>6, <1>7 DEF FirstOutcome
<1>9. RequestsAreServed'
  BY <1>2, <1>3 DEF JobsInv, RequestsAreServed
<1>10. StatusIsTrue'
  BY <1>1, DeploymentAssumption DEF StatusIsTrue
<1> QED
  BY <1>4, <1>8, <1>9, <1>10 DEF JobsInv

LEMMA JobNames == {"signal", "http", "consumer", "listener", "process", "clean"} \subseteq R!AllJobs
  BY DEF R!AllJobs, R!Jobs, R!Programs

(* The steps of the jobs and of the group.                                 *)
LEMMA JobsRunStep ==
    ASSUME JobsInv, faults \in Nat, program \in R!Programs, R!RunStep
    PROVE  JobsInv'
<1>0. /\ job \in [R!AllJobs -> {"none", "running", "stopping", "ended"}]
      /\ first \in {None, "completed", "failed"}
      /\ cancelled => first # None
      /\ job["http"] = "stopping" => cancelled
  BY DEF JobsInv, JobsInPhase, FirstOutcome
<1> USE DEF R!start, R!group, R!http
<1>1. ASSUME UNCHANGED <<program, phase, job, first, cancelled, inflight, left, exit, faults>> PROVE JobsInv'
  BY <1>1 DEF JobsInv, JobsInPhase, FirstOutcome, RequestsAreServed, StatusIsTrue
<1>2. CASE R!Signal
  BY <1>1, <1>2 DEF R!Signal
<1>3. CASE R!Cancel
  BY <1>3 DEF R!Cancel, JobsInv, JobsInPhase, FirstOutcome, RequestsAreServed, StatusIsTrue
<1>4. CASE R!SignalEnds
  BY <1>4, JobEnds, JobNames DEF R!SignalEnds
<1>5. CASE R!WorkerEnds("consumer")
  BY <1>5, JobEnds, JobNames DEF R!WorkerEnds
<1>6. CASE R!WorkerEnds("process")
  BY <1>6, JobEnds, JobNames DEF R!WorkerEnds
<1>7. CASE R!ListenerEnds
  BY <1>0, <1>7, JobEnds, JobNames DEF R!ListenerEnds
<1>8. CASE R!CleanEnds
  BY <1>8, JobEnds, JobNames DEF R!CleanEnds
<1>9. CASE R!JobFails
  <2>1. PICK j \in {"clean", "listener"} : job[j] = "running" /\ R!End(j, "failed")
    BY <1>9 DEF R!JobFails
  <2>2. faults' = faults + 1 /\ faults' > faults /\ UNCHANGED <<program, phase, inflight, left, exit>>
    BY <1>9 DEF R!JobFails, R!Fault
  <2> QED
    BY <2>1, <2>2, JobEnds, JobNames
<1>10. CASE R!ListenFails
  <2>1. /\ job["http"] = "running" /\ R!End("http", "failed") /\ left' = "failed" /\ faults' = faults + 1
        /\ UNCHANGED <<program, phase, inflight, exit>>
    BY <1>10 DEF R!ListenFails, R!Fault
  <2>2. left' # None /\ faults' > faults
    BY <2>1, DeploymentAssumption
  <2> QED
    BY <2>1, <2>2, JobEnds, JobNames
<1>11. CASE R!Arrive
  BY <1>11 DEF R!Arrive, JobsInv, JobsInPhase, FirstOutcome, RequestsAreServed, StatusIsTrue
<1>12. CASE R!Answer
  BY <1>12 DEF R!Answer, JobsInv, JobsInPhase, FirstOutcome, RequestsAreServed, StatusIsTrue
<1>13. CASE R!ShutdownStarts
  <2>1. /\ job["http"] = "running" /\ cancelled /\ job' = [job EXCEPT !["http"] = "stopping"]
        /\ UNCHANGED <<program, phase, first, cancelled, inflight, left, exit, faults>>
    BY <1>13 DEF R!ShutdownStarts
  <2>2. job'["http"] = "stopping" /\ \A j \in R!AllJobs : j # "http" => job'[j] = job[j]
    BY <1>0, <2>1, JobNames
  <2>3. phase = "running" /\ "http" \in R!Jobs[program]
    BY <2>1, JobNames DEF JobsInv, JobsInPhase
  <2>4. JobsInPhase'
    BY <1>0, <2>1, <2>2, <2>3 DEF JobsInv, JobsInPhase
  <2>5. FirstOutcome'
    BY <2>1, <2>2 DEF JobsInv, FirstOutcome
  <2>6. RequestsAreServed' /\ StatusIsTrue'
    BY <2>1, <2>2 DEF JobsInv, RequestsAreServed, StatusIsTrue
  <2> QED
    BY <2>4, <2>5, <2>6 DEF JobsInv
<1>14. CASE R!ShutdownEnds
  BY <1>14, JobEnds, JobNames DEF R!ShutdownEnds
<1>15. CASE R!ShutdownTimesOut
  <2>1. /\ job["http"] = "stopping" /\ R!End("http", "failed") /\ left' = "timeout"
        /\ UNCHANGED <<program, phase, inflight, exit, faults>>
    BY <1>15 DEF R!ShutdownTimesOut
  <2>2. left' # None /\ first # None
    BY <1>0, <2>1, DeploymentAssumption
  <2> QED
    BY <2>1, <2>2, JobEnds, JobNames
<1>16. CASE R!Wait
  <2>1. /\ phase = "running" /\ \A j \in R!Jobs[program] : job[j] = "ended"
        /\ phase' = "closing" /\ exit' = (IF first = "failed" THEN 1 ELSE 0) /\ cancelled' = TRUE
        /\ UNCHANGED <<program, job, first, inflight, left, faults>>
    BY <1>16 DEF R!Wait
  <2>2. "signal" \in R!Jobs[program]
    BY DEF R!Jobs, R!Programs
  <2>3. first \in {"completed", "failed"}
    BY <2>1, <2>2, JobNames DEF JobsInv, FirstOutcome
  <2>4. JobsInPhase'
    BY <2>1 DEF JobsInv, JobsInPhase
  <2>5. FirstOutcome'
    BY <2>1, <2>3, DeploymentAssumption DEF JobsInv, FirstOutcome
  <2>6. RequestsAreServed'
    BY <2>1 DEF JobsInv, RequestsAreServed
  <2>7. StatusIsTrue'
    BY <2>1, <2>3 DEF JobsInv, FirstOutcome, StatusIsTrue
  <2> QED
    BY <2>4, <2>5, <2>6, <2>7 DEF JobsInv
<1> QED
  BY <1>2, <1>3, <1>4, <1>5, <1>6, <1>7, <1>8, <1>9, <1>10, <1>11, <1>12, <1>13, <1>14, <1>15, <1>16
  DEF R!RunStep

LEMMA JobsStep ==
    ASSUME StartInv, JobsInv, program \in R!Programs, [SystemNext]_system
    PROVE  JobsInv'
<1>0. MigrationInv /\ faults \in Nat /\ Observed \in Processes
  BY DeploymentAssumption DEF StartInv
<1>1. ASSUME UNCHANGED <<program, phase, job, first, cancelled, inflight, left, exit>>, faults' >= faults
      PROVE  JobsInv'
  <2>1. faults' > 0 \/ ~(faults > 0)
    BY <1>0, <1>1, FaultsAreCounted
  <2> QED
    BY <1>1, <2>1 DEF JobsInv, JobsInPhase, FirstOutcome, RequestsAreServed, StatusIsTrue
<1>2. CASE LoadPart \/ BuildDatabase \/ BuildPart
  <2>1. UNCHANGED <<program, phase, job, first, cancelled, inflight, left, exit, faults>>
    BY <1>2 DEF LoadPart, BuildDatabase, BuildPart, R!Load, R!Build, R!group, R!http
  <2> QED
    BY <1>0, <1>1, <2>1
<1>3. CASE RegisterStorage
  BY <1>0, <1>1, <1>3 DEF RegisterStorage, MustRegister, observedVars
<1>4. CASE ExecuteForStorage
  <2>1. UNCHANGED observedVars
    BY <1>0, <1>4, ExecuteGoesOn DEF ExecuteForStorage
  <2>2. faults' = faults
    BY <1>4 DEF ExecuteForStorage, Execute, TakeLock, GetPerformedMigrationIDs, Skip, BeginMigration, RunQueries,
       CreateMigrationRecord, CommitMigration, Release
  <2> QED
    BY <1>0, <1>1, <2>1, <2>2 DEF observedVars
<1>5. CASE RunJobs
  <2>1. /\ phase = "starting" /\ phase' = "running"
        /\ job' = [j \in R!AllJobs |-> IF j \in R!Jobs[program] THEN "running" ELSE "none"]
        /\ UNCHANGED <<program, first, cancelled, inflight, left, exit, faults>>
    BY <1>5 DEF RunJobs, R!Run, R!http
  <2>2. job["http"] = "none"
    BY <2>1, JobNames DEF JobsInv, JobsInPhase
  <2>3. JobsInPhase'
    BY <2>1 DEF JobsInPhase
  <2>4. FirstOutcome'
    BY <2>1, JobNames DEF JobsInv, FirstOutcome
  <2>5. RequestsAreServed' /\ StatusIsTrue'
    BY <2>1, <2>2, DeploymentAssumption DEF JobsInv, RequestsAreServed, StatusIsTrue
  <2> QED
    BY <2>3, <2>4, <2>5 DEF JobsInv
<1>6. CASE ExecuteFails \/ PartFails
  <2>1. /\ phase = "starting" /\ phase' = "closing" /\ exit' = 1 /\ faults' = faults + 1
        /\ UNCHANGED <<program, job, first, cancelled, inflight, left>>
    BY <1>6 DEF ExecuteFails, PartFails, R!ProviderPanics, R!BuildPanics, Fault, R!Fault, R!group, R!http
  <2>2. faults' > 0
    BY <1>0, <2>1
  <2>3. JobsInPhase'
    BY <2>1 DEF JobsInv, JobsInPhase
  <2>4. FirstOutcome' /\ RequestsAreServed' /\ StatusIsTrue'
    BY <2>1, <2>2 DEF JobsInv, FirstOutcome, RequestsAreServed, StatusIsTrue
  <2> QED
    BY <2>3, <2>4 DEF JobsInv
<1>7. CASE KillObserved \/ CloseObserved
  <2>1. /\ phase' = "exited" /\ phase \in {"starting", "closing"}
        /\ UNCHANGED <<program, job, first, cancelled, inflight, left, exit, faults>>
    BY <1>7 DEF KillObserved, CloseObserved, R!Killed, R!Close, R!group, R!http
  <2>2. JobsInPhase'
    BY <2>1 DEF JobsInv, JobsInPhase
  <2>3. FirstOutcome' /\ RequestsAreServed' /\ StatusIsTrue'
    BY <2>1 DEF JobsInv, FirstOutcome, RequestsAreServed, StatusIsTrue
  <2> QED
    BY <2>2, <2>3 DEF JobsInv
<1>8. CASE RunObserved
  BY <1>0, <1>8, JobsRunStep DEF RunObserved
<1>9. ASSUME NEW p \in Others, OtherStep(p) \/ OtherFault(p) PROVE JobsInv'
  <2>1. faults' = faults \/ faults' = faults + 1
    BY <1>9 DEF OtherStep, OtherFault, Start, RegisterNext, MustRegister, Fault, Execute, TakeLock,
       GetPerformedMigrationIDs, Skip, BeginMigration, RunQueries, CreateMigrationRecord, CommitMigration, Release
  <2> QED
    BY <1>0, <1>1, <1>9, <2>1 DEF OtherStep, OtherFault, observedVars
<1>10. CASE UNCHANGED system
  BY <1>0, <1>1, <1>10 DEF system, vars, observedVars
<1> QED
  BY <1>2, <1>3, <1>4, <1>5, <1>6, <1>7, <1>8, <1>9, <1>10 DEF SystemNext, ObservedStart

(* The parts that are being built are different and not loaded, so that a  *)
(* panic does not make the container forget an open database.              *)
StackIsNew ==
    /\ stack \in Seq(R!Parts)
    /\ \A i \in 1 .. Len(stack) : loader[stack[i]] # "loaded"
    /\ \A i, j \in 1 .. Len(stack) : stack[i] = stack[j] => i = j

DatabaseIsKnown ==
    /\ db = "open" => loader["db"] = "loaded"
    /\ db = "closed" => phase = "exited"
    /\ phase = "exited" /\ exit # None => db # "open"

CloseInv == WiringInv /\ JobsInv /\ StackIsNew /\ DatabaseIsKnown

LEMMA LoadIsNew ==
    ASSUME CloseInv, R!Load
    PROVE  StackIsNew' /\ DatabaseIsKnown'
<1>1. PICK k \in R!Wanted : ~R!Contains(stack, R!Asked[k]) /\ stack' = Append(stack, R!Asked[k])
  BY DEF R!Load
<1>2. stack \in Seq(R!Parts) /\ program \in R!Programs /\ loader[R!Asked[k]] # "loaded" /\ k \in 1 .. Len(R!Asked)
  BY DEF CloseInv, StackIsNew, WiringInv, R!Wanted
<1>3. R!Asked[k] \in R!Parts
  <2>1. CASE stack = <<>>
    BY <1>2, <2>1, MainAsksForParts DEF R!Asked
  <2>2. CASE stack # <<>>
    <3>1. R!Last(stack) \in R!Parts
      BY <1>2, <2>2 DEF R!Last
    <3> QED
      BY <1>2, <2>2, <3>1, PartsAskForParts DEF R!Asked
  <2> QED
    BY <2>1, <2>2
<1> DEFINE n == R!Asked[k]
<1>4. \A i \in 1 .. Len(stack) : stack[i] # n
  BY <1>1 DEF R!Contains
<1>5. stack' = Append(stack, n) /\ n \in R!Parts /\ loader[n] # "loaded"
  BY <1>1, <1>2, <1>3
<1> HIDE DEF n
<1>6. /\ stack' \in Seq(R!Parts) /\ Len(stack') = Len(stack) + 1 /\ stack'[Len(stack) + 1] = n
      /\ \A i \in 1 .. Len(stack) : stack'[i] = stack[i]
      /\ Len(stack) \in Nat
  BY <1>2, <1>5, AppendProperties, LenProperties
<1>7. UNCHANGED <<loader, db, phase, exit>>
  BY DEF R!Load
<1>8. ASSUME NEW i \in 1 .. Len(stack') PROVE loader'[stack'[i]] # "loaded"
  <2>1. i \in 1 .. Len(stack) \/ i = Len(stack) + 1
    BY <1>6
  <2> QED
    BY <1>5, <1>6, <1>7, <2>1 DEF CloseInv, StackIsNew
<1>9. ASSUME NEW i \in 1 .. Len(stack'), NEW j \in 1 .. Len(stack'), stack'[i] = stack'[j] PROVE i = j
  <2>1. (i \in 1 .. Len(stack) \/ i = Len(stack) + 1) /\ (j \in 1 .. Len(stack) \/ j = Len(stack) + 1)
    BY <1>6
  <2> QED
    BY <1>4, <1>6, <1>9, <2>1 DEF CloseInv, StackIsNew
<1> QED
  BY <1>6, <1>7, <1>8, <1>9 DEF CloseInv, StackIsNew, DatabaseIsKnown

LEMMA BuildIsNew ==
    ASSUME CloseInv, R!Build
    PROVE  StackIsNew' /\ DatabaseIsKnown'
<1>1. /\ phase = "starting" /\ stack # <<>> /\ stack' = SubSeq(stack, 1, Len(stack) - 1)
      /\ loader' = [loader EXCEPT ![stack[Len(stack)]] = "loaded"]
      /\ db' = IF stack[Len(stack)] = "db" THEN "open" ELSE db
      /\ UNCHANGED <<phase, exit>>
  BY DEF R!Build, R!Last, R!Front
<1>2. stack \in Seq(R!Parts) /\ loader \in [R!Parts -> {"new", "loaded", "panicked"}]
  BY DEF CloseInv, StackIsNew, WiringInv
<1>3. Len(stack) \in Nat /\ Len(stack) > 0 /\ stack[Len(stack)] \in R!Parts
  BY <1>1, <1>2, LenProperties, EmptySeq
<1>4. /\ stack' \in Seq(R!Parts) /\ Len(stack') = Len(stack) - 1
      /\ \A i \in 1 .. Len(stack') : stack'[i] = stack[i]
  <2>1. stack' = SubSeq(stack, 1, Len(stack) - 1)
    BY <1>1
  <2>2. Len(stack) - 1 \in Nat /\ \A i \in 1 .. Len(stack) - 1 : i \in 1 .. Len(stack)
    BY <1>3
  <2> DEFINE m == Len(stack) - 1
  <2>4. m \in Nat /\ m \in Int /\ \A i \in 1 .. m : stack[i] \in R!Parts
    BY <1>2, <2>2
  <2> HIDE DEF m
  <2>5. /\ SubSeq(stack, 1, m) \in Seq(R!Parts)
        /\ Len(SubSeq(stack, 1, m)) = IF 1 <= m THEN m - 1 + 1 ELSE 0
        /\ \A i \in 1 .. m - 1 + 1 : SubSeq(stack, 1, m)[i] = stack[1 + i - 1]
    BY <2>4, SubSeqProperties
  <2>6. /\ (IF 1 <= m THEN m - 1 + 1 ELSE 0) = m
        /\ \A i \in 1 .. m : i \in 1 .. m - 1 + 1 /\ 1 + i - 1 = i
    BY <2>4
  <2>7. /\ SubSeq(stack, 1, m) \in Seq(R!Parts)
        /\ Len(SubSeq(stack, 1, m)) = m
        /\ \A i \in 1 .. m : SubSeq(stack, 1, m)[i] = stack[i]
    BY <2>5, <2>6
  <2>3. /\ SubSeq(stack, 1, Len(stack) - 1) \in Seq(R!Parts)
        /\ Len(SubSeq(stack, 1, Len(stack) - 1)) = Len(stack) - 1
        /\ \A i \in 1 .. Len(stack) - 1 : SubSeq(stack, 1, Len(stack) - 1)[i] = stack[i]
    BY <2>7 DEF m
  <2> QED
    BY <2>1, <2>3
<1>5. ASSUME NEW i \in 1 .. Len(stack') PROVE loader'[stack'[i]] # "loaded"
  <2>1. i \in 1 .. Len(stack) /\ i # Len(stack) /\ Len(stack) \in 1 .. Len(stack) /\ stack'[i] = stack[i]
    BY <1>3, <1>4
  <2>2. stack[i] # stack[Len(stack)] /\ loader[stack[i]] # "loaded" /\ stack[i] \in R!Parts
    BY <1>2, <2>1 DEF CloseInv, StackIsNew
  <2>3. loader' = [loader EXCEPT ![stack[Len(stack)]] = "loaded"]
    BY <1>1
  <2> QED
    BY <1>2, <2>1, <2>2, <2>3
<1>6. ASSUME NEW i \in 1 .. Len(stack'), NEW j \in 1 .. Len(stack'), stack'[i] = stack'[j] PROVE i = j
  <2>1. i \in 1 .. Len(stack) /\ j \in 1 .. Len(stack) /\ stack[i] = stack[j]
    BY <1>3, <1>4, <1>6
  <2> QED
    BY <2>1 DEF CloseInv, StackIsNew
<1>7. DatabaseIsKnown'
  <2>1. /\ loader' = [loader EXCEPT ![stack[Len(stack)]] = "loaded"] /\ phase' = "starting"
        /\ db' = IF stack[Len(stack)] = "db" THEN "open" ELSE db
    BY <1>1
  <2>2. db' = "open" => loader'["db"] = "loaded"
    <3>1. "db" \in R!Parts
      BY DEF R!Parts, R!BaseDeps
    <3> QED
      BY <1>2, <1>3, <2>1, <3>1 DEF CloseInv, DatabaseIsKnown
  <2>3. db' # "closed"
    BY <1>1, <2>1 DEF CloseInv, DatabaseIsKnown
  <2> QED
    BY <2>1, <2>2, <2>3 DEF DatabaseIsKnown
<1> QED
  BY <1>4, <1>5, <1>6, <1>7 DEF StackIsNew

(* The panic of a provider: the parts on the stack are not there, and the  *)
(* database is not one of them once it is open.                            *)
LEMMA PanicKeepsDatabase ==
    ASSUME CloseInv, R!ProviderPanics
    PROVE  StackIsNew' /\ DatabaseIsKnown'
<1>1. /\ loader' = [n \in R!Parts |-> IF R!Contains(stack, n) THEN "panicked" ELSE loader[n]]
      /\ stack' = <<>> /\ phase = "starting" /\ phase' = "closing" /\ db' = db
  BY DEF R!ProviderPanics
<1>2. StackIsNew'
  BY <1>1 DEF StackIsNew
<1>3. "db" \in R!Parts
  BY DEF R!Parts, R!BaseDeps
<1>4. db = "open" => ~R!Contains(stack, "db") /\ loader["db"] = "loaded"
  BY DEF CloseInv, StackIsNew, DatabaseIsKnown, R!Contains
<1> QED
  BY <1>1, <1>2, <1>3, <1>4 DEF CloseInv, DatabaseIsKnown

LEMMA CloseStep ==
    ASSUME StartInv, CloseInv, [SystemNext]_system
    PROVE  StackIsNew' /\ DatabaseIsKnown'
<1>0. MigrationInv /\ Observed \in Processes
  BY DeploymentAssumption DEF StartInv
<1>1. ASSUME UNCHANGED <<loader, stack, db, phase, exit>> PROVE StackIsNew' /\ DatabaseIsKnown'
  BY <1>1 DEF CloseInv, StackIsNew, DatabaseIsKnown
<1>2. ASSUME UNCHANGED <<loader, stack, db>>, phase # "exited", phase' # "exited"
      PROVE  StackIsNew' /\ DatabaseIsKnown'
  BY <1>2 DEF CloseInv, StackIsNew, DatabaseIsKnown
<1>3. CASE LoadPart
  BY <1>3, LoadIsNew DEF LoadPart
<1>4. CASE BuildDatabase \/ BuildPart
  BY <1>4, BuildIsNew DEF BuildDatabase, BuildPart
<1>5. CASE RegisterStorage
  BY <1>1, <1>5 DEF RegisterStorage, observedVars
<1>6. CASE ExecuteForStorage
  <2>1. UNCHANGED observedVars
    BY <1>0, <1>6, ExecuteGoesOn DEF ExecuteForStorage
  <2> QED
    BY <1>1, <2>1 DEF observedVars
<1>7. CASE RunJobs
  BY <1>2, <1>7 DEF RunJobs, R!Run, R!start
<1>8. CASE ExecuteFails \/ PartFails
  BY <1>8, PanicKeepsDatabase DEF ExecuteFails, PartFails, R!BuildPanics
<1>9. CASE KillObserved
  <2>1. phase = "starting" /\ phase' = "exited" /\ UNCHANGED <<loader, stack, db, exit>>
    BY <1>9 DEF KillObserved, R!Killed, R!start
  <2>2. exit = None
    BY <2>1 DEF CloseInv, JobsInv, StatusIsTrue
  <2> QED
    BY <2>1, <2>2 DEF CloseInv, StackIsNew, DatabaseIsKnown
<1>10. CASE CloseObserved
  <2>1. /\ phase = "closing" /\ phase' = "exited" /\ UNCHANGED <<loader, stack, exit>>
        /\ db' = IF loader["db"] = "loaded" THEN "closed" ELSE db
    BY <1>10 DEF CloseObserved, R!Close, R!start
  <2> QED
    BY <2>1 DEF CloseInv, StackIsNew, DatabaseIsKnown
<1>11. CASE RunObserved
  <2>1. CASE R!Wait
    BY <1>2, <2>1 DEF R!Wait, R!start
  <2>2. CASE ~R!Wait
    BY <1>1, <1>11, <2>2 DEF RunObserved, R!RunStep, R!start, R!Signal, R!Cancel, R!SignalEnds, R!WorkerEnds,
       R!ListenerEnds, R!CleanEnds, R!JobFails, R!ListenFails, R!Arrive, R!Answer, R!ShutdownStarts,
       R!ShutdownEnds, R!ShutdownTimesOut
  <2> QED
    BY <2>1, <2>2
<1>12. ASSUME NEW p \in Others, OtherStep(p) \/ OtherFault(p) PROVE StackIsNew' /\ DatabaseIsKnown'
  BY <1>1, <1>12 DEF OtherStep, OtherFault, observedVars
<1>13. CASE UNCHANGED system
  BY <1>1, <1>13 DEF system, observedVars
<1> QED
  BY <1>3, <1>4, <1>5, <1>6, <1>7, <1>8, <1>9, <1>10, <1>11, <1>12, <1>13 DEF SystemNext, ObservedStart

(***************************************************************************)
(* MustRun and Close of the containers: the database is closed when the    *)
(* jobs are over and before the process exits with a status, and the       *)
(* status is that of the first job to end, for any number of requests,     *)
(* faults and other processes.                                             *)
(***************************************************************************)
THEOREM ExitsInOrder == SystemSpec => []ExitIsOrderly
<1>1. SystemInit => CloseInv
  <2> SUFFICES ASSUME SystemInit PROVE CloseInv
    OBVIOUS
  <2>1. WiringInv
    BY DEF SystemInit, R!Init, WiringInv, LoadedIsReady
  <2>2. JobsInPhase
    BY DEF SystemInit, R!Init, JobsInPhase
  <2>3. FirstOutcome
    BY JobNames, DeploymentAssumption DEF SystemInit, R!Init, FirstOutcome
  <2>4. RequestsAreServed /\ StatusIsTrue
    BY DeploymentAssumption DEF SystemInit, R!Init, RequestsAreServed, StatusIsTrue
  <2>5. StackIsNew /\ DatabaseIsKnown
    BY DEF SystemInit, R!Init, StackIsNew, DatabaseIsKnown
  <2> QED
    BY <2>1, <2>2, <2>3, <2>4, <2>5 DEF CloseInv, JobsInv
<1>2. StartInv /\ CloseInv /\ [SystemNext]_system => CloseInv'
  <2> SUFFICES ASSUME StartInv, CloseInv, [SystemNext]_system PROVE CloseInv'
    OBVIOUS
  <2>1. WiringInv /\ JobsInv /\ program \in R!Programs
    BY DEF CloseInv, WiringInv
  <2> QED
    BY <2>1, WiringStep, JobsStep, CloseStep DEF CloseInv
<1>3. CloseInv => ExitIsOrderly
  BY JobNames DEF CloseInv, JobsInv, JobsInPhase, RequestsAreServed, StatusIsTrue, DatabaseIsKnown, ExitIsOrderly
<1> QED
  BY <1>1, <1>2, <1>3, StartInvariant, PTL DEF SystemSpec
=============================================================================
