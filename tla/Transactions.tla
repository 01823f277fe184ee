---------------------------- MODULE Transactions ----------------------------
(***************************************************************************)
(* Calls of transaction.WithinContext (pkg/sql/transaction.go) by several  *)
(* goroutines.  A call begins a transaction, unless its context carries    *)
(* one of the same instance, takes its named locks in the order of their   *)
(* keys, runs its function and commits.  The function may execute          *)
(* statements, call WithinContext again, return or panic.                  *)
(*                                                                         *)
(* The context of a message handler also carries the connection that holds *)
(* the topic lock; the handlers of a batch share it.  The driver refuses a *)
(* BEGIN on a connection that is inside a transaction, and then every      *)
(* later statement on that connection.                                     *)
(*                                                                         *)
(* A transaction is named by the goroutine that began it and a number.     *)
(***************************************************************************)
EXTENDS Integers, FiniteSets, Sequences, FiniteSetsExt

CONSTANTS
    Callers,    \* goroutines
    Instances,  \* names given to NewTransaction
    Workloads,  \* what the callers may be about to do
    MaxDepth,   \* bound on nested calls
    MaxTx,      \* bound on the transactions of a caller
    None        \* "no transaction"

Keys  == Nat
Lock  == [key : Keys, shared : BOOLEAN]
TxIds == Callers \X (1..MaxTx)

(* A workload: who calls, which of them have the batch's connection in     *)
(* their context, the instances and lists of locks (as sets) they call     *)
(* with, and bounds on nested calls, transactions, errors and panics.      *)
Workload == [callers : SUBSET Callers, sharing : SUBSET Callers,
             instances : SUBSET Instances, locks : SUBSET SUBSET Lock,
             depth : 1..MaxDepth, txs : 0..MaxTx, errors : Nat, panics : Nat]

ASSUME BoundsAssumption == MaxDepth \in Nat /\ MaxTx \in Nat /\ IsFiniteSet(Callers)
ASSUME WorkloadsAssumption == Workloads \subseteq Workload
(* No call of the repository names a key twice.                            *)
ASSUME LocksAssumption ==
    \A w \in Workloads : \A L \in w.locks :
        IsFiniteSet(L) /\ \A l, m \in L : l.key = m.key => l = m
ASSUME NoneAssumption == None \notin TxIds

VARIABLES
    load,      \* the workload, which does not change
    stack,     \* stack[c]: the calls the goroutine is in, the innermost last
    begun,     \* begun[c]: how many transactions it has begun
    open,      \* transactions the database has open
    failed,    \* open transactions in which a statement failed
    held,      \* held[t]: advisory locks of the transaction
    taken,     \* taken[t]: all the locks it was ever given
    asks,      \* asks[t]: calls that asked for locks in it, 2 for more
    wrote,     \* wrote[t]: statements executed in it, by the depth of the call
    visible,   \* <<t, depth>> of the writes that are committed
    outcome,   \* outcome[t]: what the call that began t has returned
    notified,  \* notified[t]: calls of onCommit
    done,      \* done[c]: the outermost call has returned nil
    batchTx,   \* the transaction on the batch's connection
    batchBad,  \* the driver has given up the batch's connection
    errors, panics

askVars   == <<taken, asks>>
dbVars    == <<open, failed, held, wrote, visible>>
batchVars == <<batchTx, batchBad>>
boundVars == <<errors, panics>>
vars == <<load, stack, begun, askVars, dbVars, outcome, notified, done, batchVars, boundVars>>

Frame == [inst : Instances, tx : TxIds, own : BOOLEAN, todo : SUBSET Lock]

TypeOK ==
    /\ load \in Workloads
    /\ stack \in [Callers -> Seq(Frame)]
    /\ begun \in [Callers -> 0..MaxTx]
    /\ failed \subseteq open /\ open \subseteq TxIds
    /\ held \in [TxIds -> SUBSET Lock] /\ taken \in [TxIds -> SUBSET Lock]
    /\ asks \in [TxIds -> 0..2]
    /\ wrote \in [TxIds -> SUBSET (1..MaxDepth)]
    /\ visible \subseteq TxIds \X (1..MaxDepth)
    /\ outcome \in [TxIds -> {"none", "running", "nil", "error", "unknown", "panic"}]
    /\ notified \in [TxIds -> Nat]
    /\ done \in [Callers -> BOOLEAN]
    /\ batchTx \in TxIds \union {None} /\ batchBad \in BOOLEAN
    /\ errors \in 0..load.errors /\ panics \in 0..load.panics

Init ==
    /\ load \in Workloads
    /\ stack = [c \in Callers |-> <<>>]
    /\ begun = [c \in Callers |-> 0]
    /\ open = {} /\ failed = {}
    /\ held = [t \in TxIds |-> {}] /\ taken = [t \in TxIds |-> {}]
    /\ asks = [t \in TxIds |-> 0]
    /\ wrote = [t \in TxIds |-> {}]
    /\ visible = {}
    /\ outcome = [t \in TxIds |-> "none"]
    /\ notified = [t \in TxIds |-> 0]
    /\ done = [c \in Callers |-> FALSE]
    /\ batchTx = None /\ batchBad = FALSE
    /\ errors = 0 /\ panics = 0

Depth(c) == Len(stack[c])
Top(c)   == stack[c][Depth(c)]
Pop(c)   == stack' = [stack EXCEPT ![c] = SubSeq(@, 1, Depth(c) - 1)]
Push(c, frame) == stack' = [stack EXCEPT ![c] = Append(@, frame)]

InBody(c) == Depth(c) > 0 /\ Top(c).todo = {}

(* The connection of the caller's statements no longer works.              *)
Broken(c) == c \in load.sharing /\ batchBad

(* A goroutine that returned an error calls again: a handler is retried.   *)
MayCall(c) == (Depth(c) = 0 /\ ~done[c]) \/ (InBody(c) /\ Depth(c) < load.depth)

(* Faulty variant: the context's transaction is not looked for.            *)
NoParentTx(c, i) == FALSE

HasParentTx(c, i) == Depth(c) > 0 /\ Top(c).inst = i

-----------------------------------------------------------------------------
(* The context carries a transaction of the instance: no other is begun.   *)
CallNested(c, i, L) ==
    /\ MayCall(c) /\ HasParentTx(c, i)
    /\ Push(c, [inst |-> i, tx |-> Top(c).tx, own |-> FALSE, todo |-> L])
    /\ asks' = [asks EXCEPT ![Top(c).tx] = IF L = {} THEN @ ELSE Min({2, @ + 1})]
    /\ UNCHANGED <<load, begun, taken, dbVars, outcome, notified, done, batchVars, boundVars>>

(* BEGIN succeeds: on a connection of the pool, or on that of the context  *)
(* while nobody else has a transaction on it.                              *)
CanBegin(c) == c \in load.sharing => batchTx = None /\ ~batchBad

CallBegin(c, i, L) ==
    LET t == <<c, begun[c] + 1>>
    IN  /\ MayCall(c) /\ ~HasParentTx(c, i)
        /\ begun[c] < load.txs
        /\ CanBegin(c)
        /\ begun' = [begun EXCEPT ![c] = @ + 1]
        /\ open' = open \union {t}
        /\ outcome' = [outcome EXCEPT ![t] = "running"]
        /\ batchTx' = IF c \in load.sharing THEN t ELSE batchTx
        /\ Push(c, [inst |-> i, tx |-> t, own |-> TRUE, todo |-> L])
        /\ asks' = [asks EXCEPT ![t] = IF L = {} THEN 0 ELSE 1]
        /\ UNCHANGED <<load, failed, held, taken, wrote, visible, notified, done, batchBad, boundVars>>

(* BEGIN on a connection that is inside a transaction: the call returns an *)
(* error and the driver gives up the connection.                           *)
CallRefused(c, i) ==
    /\ c \in load.sharing /\ batchTx # None /\ ~batchBad
    /\ MayCall(c) /\ ~HasParentTx(c, i)
    /\ batchBad' = TRUE
    /\ UNCHANGED <<load, stack, begun, askVars, dbVars, outcome, notified, done, batchTx, boundVars>>

-----------------------------------------------------------------------------
Conflict(l, m) == l.key = m.key /\ ~(l.shared /\ m.shared)

Blockers(t, l) == {u \in open \ {t} : \E m \in held[u] : Conflict(l, m)}

(* Faulty variant: the locks are taken in the order they were passed in.   *)
AnyLock(todo, l) == l \in todo

NextLock(todo, l) == l \in todo /\ \A m \in todo : l.key <= m.key

(* The next statement of the call asks for the lock l.                     *)
Waits(c, l) ==
    /\ NextLock(Top(c).todo, l)
    /\ ~Broken(c) /\ Top(c).tx \notin failed

(* pg_advisory_xact_lock returns.                                          *)
TakeLock(c) ==
    /\ Depth(c) > 0
    /\ \E l \in Top(c).todo :
        /\ Waits(c, l)
        /\ Blockers(Top(c).tx, l) = {}
        /\ held' = [held EXCEPT ![Top(c).tx] = @ \union {l}]
        /\ taken' = [taken EXCEPT ![Top(c).tx] = @ \union {l}]
        /\ stack' = [stack EXCEPT ![c][Depth(c)].todo = @ \ {l}]
        /\ UNCHANGED <<load, begun, asks, open, failed, wrote, visible, outcome, notified, done, batchVars, boundVars>>

(***************************************************************************)
(* A cycle of sessions that wait for each other: the database lets the     *)
(* statement of one of them fail.                                          *)
(***************************************************************************)
WaitsForOneOf(c, txs) ==
    Depth(c) > 0 /\ \E l \in Top(c).todo : Waits(c, l) /\ Blockers(Top(c).tx, l) \intersect txs # {}

DeadlockDetected(c) ==
    /\ \E S \in SUBSET Callers :
        /\ c \in S
        /\ \A d \in S : WaitsForOneOf(d, {Top(e).tx : e \in {f \in S : Depth(f) > 0}})
    /\ failed' = failed \union {Top(c).tx}
    /\ UNCHANGED <<load, stack, begun, askVars, open, held, wrote, visible, outcome, notified, done, batchVars, boundVars>>

-----------------------------------------------------------------------------
(* The transaction is over for the database: its locks are released.       *)
End(txs) ==
    /\ open' = open \ txs
    /\ failed' = failed \ txs
    /\ held' = [t \in TxIds |-> IF t \in txs THEN {} ELSE held[t]]
    /\ batchTx' = IF batchTx \in txs THEN None ELSE batchTx

(* A statement of the function runs in the transaction of its context.     *)
Exec(c) ==
    /\ InBody(c) /\ ~Broken(c) /\ Top(c).tx \notin failed
    /\ Depth(c) \notin wrote[Top(c).tx]
    /\ wrote' = [wrote EXCEPT ![Top(c).tx] = @ \union {Depth(c)}]
    /\ UNCHANGED <<load, stack, begun, askVars, open, failed, held, visible, outcome, notified, done, batchVars, boundVars>>

(* A statement fails: the database accepts no other in this transaction.   *)
ExecFails(c) ==
    /\ InBody(c) /\ ~Broken(c) /\ Top(c).tx \notin failed
    /\ errors < load.errors /\ errors' = errors + 1
    /\ failed' = failed \union {Top(c).tx}
    /\ UNCHANGED <<load, stack, begun, askVars, open, held, wrote, visible, outcome, notified, done, batchVars, panics>>

(* Faulty variant: a call with a parent commits, too.                      *)
ReturnNestedCommits(c) ==
    /\ InBody(c) /\ ~Top(c).own
    /\ Pop(c)
    /\ visible' = visible \union {<<Top(c).tx, d>> : d \in wrote[Top(c).tx]}
    /\ UNCHANGED <<load, begun, askVars, open, failed, held, wrote, outcome, notified, done, batchVars, boundVars>>

(* Faulty variant: locks are released when a nested call returns.          *)
ReturnNestedUnlocks(c) ==
    /\ InBody(c) /\ ~Top(c).own
    /\ Pop(c)
    /\ held' = [held EXCEPT ![Top(c).tx] = {}]
    /\ UNCHANGED <<load, begun, askVars, open, failed, wrote, visible, outcome, notified, done, batchVars, boundVars>>

(* The function of a nested call returns nil: the transaction goes on.     *)
ReturnNested(c) ==
    /\ InBody(c) /\ ~Top(c).own
    /\ Pop(c)
    /\ UNCHANGED <<load, begun, askVars, dbVars, outcome, notified, done, batchVars, boundVars>>

(* The function of the call that began the transaction returns nil.        *)
Commit(c) ==
    LET t == Top(c).tx
    IN  /\ InBody(c) /\ Top(c).own
        /\ ~Broken(c) /\ t \notin failed
        /\ Pop(c)
        /\ End({t})
        /\ visible' = visible \union {<<t, d>> : d \in wrote[t]}
        /\ outcome' = [outcome EXCEPT ![t] = "nil"]
        /\ notified' = [notified EXCEPT ![t] = @ + 1]
        /\ done' = [done EXCEPT ![c] = Depth(c) = 1]
        /\ UNCHANGED <<load, begun, askVars, wrote, batchBad, boundVars>>

(* The answer to COMMIT is lost: the call returns an error, the writes may *)
(* be there.                                                               *)
CommitUnknown(c) ==
    LET t == Top(c).tx
    IN  /\ InBody(c) /\ Top(c).own
        /\ ~Broken(c) /\ t \notin failed
        /\ errors < load.errors /\ errors' = errors + 1
        /\ Pop(c)
        /\ End({t})
        /\ visible' \in {visible, visible \union {<<t, d>> : d \in wrote[t]}}
        /\ outcome' = [outcome EXCEPT ![t] = "unknown"]
        /\ batchBad' = (batchBad \/ c \in load.sharing)
        /\ UNCHANGED <<load, begun, askVars, wrote, notified, done, panics>>

(***************************************************************************)
(* The call returns an error: of the function, of a lock, or of a commit   *)
(* the database turns into a rollback.  The call that began the            *)
(* transaction rolls it back; the caller of a nested one may go on.        *)
(***************************************************************************)
ReturnError(c) ==
    /\ Depth(c) > 0
    /\ \/ (Broken(c) \/ Top(c).tx \in failed) /\ UNCHANGED errors
       \/ InBody(c) /\ errors < load.errors /\ errors' = errors + 1
    /\ Pop(c)
    /\ IF Top(c).own
       THEN /\ End({Top(c).tx})
            /\ outcome' = [outcome EXCEPT ![Top(c).tx] = "error"]
       ELSE UNCHANGED <<open, failed, held, batchTx, outcome>>
    /\ UNCHANGED <<load, begun, askVars, wrote, visible, notified, done, batchBad, panics>>

Owned(c) == {stack[c][d].tx : d \in {e \in 1..Depth(c) : stack[c][e].own}}

(* The function panics: err is nil in every deferred function, so that     *)
(* nothing is rolled back.  The goroutine recovers above the calls.        *)
Panic(c) ==
    /\ InBody(c)
    /\ panics < load.panics /\ panics' = panics + 1
    /\ stack' = [stack EXCEPT ![c] = <<>>]
    /\ outcome' = [t \in TxIds |-> IF t \in Owned(c) THEN "panic" ELSE outcome[t]]
    /\ UNCHANGED <<load, begun, askVars, dbVars, notified, done, batchVars, errors>>

Abandoned(c) == {t \in open : t[1] = c /\ outcome[t] = "panic"}

(* The context of a request ends with it, and database/sql rolls back what *)
(* was begun under it.  The context of a message ends with the service.    *)
EndContext(c) ==
    /\ c \notin load.sharing
    /\ Abandoned(c) # {}
    /\ End(Abandoned(c))
    /\ UNCHANGED <<load, stack, begun, askVars, wrote, visible, outcome, notified, done, batchBad, boundVars>>

-----------------------------------------------------------------------------
Call(c) ==
    \E i \in load.instances :
        CallRefused(c, i) \/ \E L \in load.locks : CallNested(c, i, L) \/ CallBegin(c, i, L)

Step(c) ==
    \/ Call(c) \/ TakeLock(c) \/ DeadlockDetected(c)
    \/ Exec(c) \/ ExecFails(c) \/ ReturnNested(c) \/ Commit(c) \/ CommitUnknown(c) \/ ReturnError(c)
    \/ Panic(c) \/ EndContext(c)

Next == \E c \in load.callers : Step(c)

Spec == Init /\ [][Next]_vars

(***************************************************************************)
(* Goroutines that can run do run; a function returns after finitely many  *)
(* calls; the context of a request ends.                                   *)
(***************************************************************************)
Fairness ==
    \A c \in Callers :
        /\ WF_vars(Step(c) /\ (Depth(c) = 0 \/ ~InBody(c)))
        /\ WF_vars(ReturnNested(c) \/ Commit(c) \/ ReturnError(c))
        /\ SF_vars((Commit(c) \/ ReturnError(c)) /\ Depth(c) = 1)
        /\ WF_vars(EndContext(c))

FairSpec == Spec /\ Fairness

-----------------------------------------------------------------------------
(***************************************************************************)
(* A transaction is one unit however many calls took part in it: what they *)
(* wrote is visible when the call that began it has returned nil, and not  *)
(* before; after an error or a panic nothing of it is ever visible, unless *)
(* the answer to COMMIT was lost.  Only a panic leaves it open, and        *)
(* onCommit, which starts the outbox, is called once and when its writes   *)
(* can be read.                                                            *)
(***************************************************************************)
AllOrNothing ==
    \A t \in TxIds :
        LET seen == {d \in 1..MaxDepth : <<t, d>> \in visible}
        IN  /\ outcome[t] = "nil" => seen = wrote[t]
            /\ outcome[t] = "unknown" => seen \in {{}, wrote[t]}
            /\ outcome[t] \in {"none", "running", "error", "panic"} => seen = {}
            /\ t \in open => outcome[t] \in {"running", "panic"}
            /\ notified[t] > 0 => notified[t] = 1 /\ seen = wrote[t]

(* A named lock lasts as long as the transaction, not as the call that     *)
(* asked for it: until the transaction of a nested call that has returned  *)
(* is over, no other is given a lock that conflicts with the call's.       *)
LockCoversTransaction ==
    \A t, u \in open : t # u => \A l \in taken[t], m \in taken[u] : ~Conflict(l, m)

(* Two calls of the goroutine asked for locks: in one of the transactions  *)
(* it is in, or in two of them.                                            *)
AsksTwice(c) ==
    \E j, k \in 1..Depth(c) :
        LET t == stack[c][j].tx
            u == stack[c][k].tx
        IN  IF t = u THEN asks[t] > 1 ELSE asks[t] > 0 /\ asks[u] > 0

(* Calls wait for each other only when one of them has asked for locks in  *)
(* two calls on one stack of transactions: the sorted order keeps callers  *)
(* that ask for all their locks at once from a deadlock.                   *)
CycleNeedsNesting ==
    \A S \in (SUBSET Callers) \ {{}} :
        (\A c \in S : WaitsForOneOf(c, UNION {{stack[d][k].tx : k \in 1..Depth(d)} : d \in S}))
        => \E c \in S : AsksTwice(c)

(***************************************************************************)
(* Every caller gets its transaction through, whatever failed before and   *)
(* whoever left a lock behind, unless the connection it shares was given   *)
(* up: then the call fails as often as it is repeated.  The last disjunct  *)
(* is the bound: it is reached by callers that are the victims of          *)
(* deadlocks or that begin transactions inside transactions.               *)
(***************************************************************************)
CallsSucceed ==
    \A c \in Callers :
        <>(c \notin load.callers \/ done[c] \/ Broken(c) \/ begun[c] = load.txs)
=============================================================================
