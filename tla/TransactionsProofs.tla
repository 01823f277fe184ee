------------------------- MODULE TransactionsProofs -------------------------
(***************************************************************************)
(* Proofs about the transactions of pkg/sql/transaction.go.  The invariant *)
(* says which transactions the calls of a goroutine are in, and of every   *)
(* transaction what its outcome tells of its writes and locks.  A call     *)
(* touches only transactions of its own goroutine.  For the deadlocks,     *)
(* AskInv says how often locks were asked for in a transaction, and that   *)
(* one in which they were asked for once holds only locks that come before *)
(* the one it waits for.                                                   *)
(***************************************************************************)
EXTENDS Transactions, SequenceTheorems, FiniteSetTheorems, TLAPS

(* What the proofs need of the types.                                      *)
Types ==
    /\ load \in Workloads
    /\ stack \in [Callers -> Seq(Frame)]
    /\ begun \in [Callers -> Nat]
    /\ open \subseteq TxIds
    /\ held \in [TxIds -> SUBSET Lock] /\ taken \in [TxIds -> SUBSET Lock]
    /\ wrote \in [TxIds -> SUBSET (1..MaxDepth)]
    /\ outcome \in [TxIds -> {"none", "running", "nil", "error", "unknown", "panic"}]
    /\ notified \in [TxIds -> Nat]

(* The calls of a goroutine are in running transactions that it has begun. *)
(* The call that began a transaction is the outermost of those in it, so   *)
(* that nobody is left in a transaction that is over.                      *)
CallsRun(c) ==
    /\ Len(stack[c]) <= load.depth
    /\ \A d \in 1..Len(stack[c]) :
           /\ stack[c][d].tx \in open /\ outcome[stack[c][d].tx] = "running"
           /\ stack[c][d].tx[1] = c /\ stack[c][d].tx[2] <= begun[c]
    /\ \A d, e \in 1..Len(stack[c]) :
           d < e /\ stack[c][e].own => stack[c][d].tx # stack[c][e].tx

Seen(t) == {d \in 1..MaxDepth : <<t, d>> \in visible}

(* The outcome of a transaction tells what is visible of it; while it is   *)
(* open it holds every lock it was given.                                  *)
OutcomeTells(t) ==
    /\ t[2] > begun[t[1]] => outcome[t] = "none" /\ held[t] = {} /\ taken[t] = {}
    /\ t \in open => outcome[t] \in {"running", "panic"} /\ held[t] = taken[t]
    /\ notified[t] = IF outcome[t] = "nil" THEN 1 ELSE 0
    /\ outcome[t] = "nil" => Seen(t) = wrote[t]
    /\ outcome[t] = "unknown" => Seen(t) \in {{}, wrote[t]}
    /\ outcome[t] \in {"none", "running", "error", "panic"} => Seen(t) = {}

LocksApart ==
    \A t, u \in open : t # u => \A l \in held[t], m \in held[u] : ~Conflict(l, m)

TransactionInv ==
    /\ Types
    /\ \A c \in Callers : CallsRun(c)
    /\ \A t \in TxIds : OutcomeTells(t)
    /\ LocksApart

-----------------------------------------------------------------------------
LEMMA WorkloadOf ==
    ASSUME Types
    PROVE  /\ load.callers \subseteq Callers /\ load.instances \subseteq Instances
           /\ load.locks \subseteq SUBSET Lock
           /\ load.depth \in 1..MaxDepth /\ load.txs \in 0..MaxTx
  BY WorkloadsAssumption DEF Types, Workload

(* The innermost call.                                                     *)
LEMMA Innermost ==
    ASSUME TransactionInv, NEW c \in Callers, Depth(c) > 0
    PROVE  /\ Depth(c) \in 1..Len(stack[c]) /\ Depth(c) \in 1..MaxDepth /\ Depth(c) = Len(stack[c])
           /\ Top(c) \in Frame /\ Top(c) = stack[c][Depth(c)]
           /\ Top(c).tx \in open /\ Top(c).tx \in TxIds /\ Top(c).tx[1] = c /\ Top(c).tx[2] <= begun[c]
           /\ outcome[Top(c).tx] = "running"
<1>1. stack[c] \in Seq(Frame) /\ Len(stack[c]) \in Nat
  BY DEF TransactionInv, Types
<1>2. Depth(c) \in 1..Len(stack[c])
  BY <1>1 DEF Depth
<1>3. Top(c) = stack[c][Depth(c)] /\ Top(c) \in Frame
  BY <1>1, <1>2 DEF Top
<1>4. Depth(c) <= load.depth /\ load.depth \in 1..MaxDepth
  BY WorkloadOf DEF TransactionInv, CallsRun, Depth
<1>5. MaxDepth \in Nat
  BY BoundsAssumption
<1>6. CallsRun(c) /\ open \subseteq TxIds
  BY DEF TransactionInv, Types
<1> QED
  BY <1>2, <1>3, <1>4, <1>5, <1>6 DEF CallsRun, Depth

LEMMA Popped ==
    ASSUME stack \in [Callers -> Seq(Frame)], NEW c \in Callers, Depth(c) > 0, Pop(c)
    PROVE  /\ stack' \in [Callers -> Seq(Frame)]
           /\ Len(stack'[c]) = Len(stack[c]) - 1
           /\ \A d \in 1..Len(stack'[c]) : stack'[c][d] = stack[c][d]
           /\ \A e \in Callers : e # c => stack'[e] = stack[e]
<1> DEFINE s == stack[c]
<1> DEFINE m == Len(s) - 1
<1>1. s \in Seq(Frame) /\ Len(s) \in Nat /\ Len(s) > 0
  BY DEF Depth
<1>2. stack' = [stack EXCEPT ![c] = SubSeq(s, 1, m)]
  BY DEF Pop, Depth
<1> HIDE DEF s
<1>3. m \in Nat /\ m \in Int /\ \A i \in 1..m : s[i] \in Frame
  BY <1>1
<1> HIDE DEF m
<1>4. /\ SubSeq(s, 1, m) \in Seq(Frame)
      /\ Len(SubSeq(s, 1, m)) = IF 1 <= m THEN m - 1 + 1 ELSE 0
      /\ \A i \in 1 .. m - 1 + 1 : SubSeq(s, 1, m)[i] = s[1 + i - 1]
  BY <1>3, SubSeqProperties
<1>5. /\ (IF 1 <= m THEN m - 1 + 1 ELSE 0) = m
      /\ \A i \in 1..m : i \in 1 .. m - 1 + 1 /\ 1 + i - 1 = i
  BY <1>3
<1> DEFINE r == SubSeq(s, 1, m)
<1>6. r \in Seq(Frame) /\ Len(r) = m /\ \A i \in 1..m : r[i] = s[i]
  BY <1>4, <1>5
<1>7. stack' = [stack EXCEPT ![c] = r]
  BY <1>2
<1> HIDE DEF r
<1>8. stack'[c] = r /\ stack' \in [Callers -> Seq(Frame)] /\ \A e \in Callers : e # c => stack'[e] = stack[e]
  BY <1>6, <1>7
<1> QED
  BY <1>6, <1>8 DEF m, s

LEMMA Pushed ==
    ASSUME stack \in [Callers -> Seq(Frame)], NEW c \in Callers, NEW f \in Frame, Push(c, f)
    PROVE  /\ stack' \in [Callers -> Seq(Frame)]
           /\ Len(stack'[c]) = Len(stack[c]) + 1
           /\ \A d \in 1..Len(stack[c]) : stack'[c][d] = stack[c][d]
           /\ stack'[c][Len(stack[c]) + 1] = f
           /\ \A e \in Callers : e # c => stack'[e] = stack[e]
<1> DEFINE s == stack[c]
<1> DEFINE r == Append(s, f)
<1>1. s \in Seq(Frame)
  OBVIOUS
<1>2. stack' = [stack EXCEPT ![c] = r]
  BY DEF Push
<1> HIDE DEF s
<1>3. /\ r \in Seq(Frame) /\ Len(r) = Len(s) + 1
      /\ \A i \in 1..Len(s) : r[i] = s[i]
      /\ r[Len(s) + 1] = f
  BY <1>1, AppendProperties
<1> HIDE DEF r
<1>4. stack'[c] = r /\ stack' \in [Callers -> Seq(Frame)] /\ \A e \in Callers : e # c => stack'[e] = stack[e]
  BY <1>2, <1>3
<1> QED
  BY <1>3, <1>4 DEF s

(* The calls of the goroutine that takes a step, unless it makes another.  *)
LEMMA OwnCalls ==
    ASSUME NEW c \in Callers, CallsRun(c), load' = load, begun' = begun,
           load.depth \in Nat, Len(stack[c]) \in Nat, Len(stack'[c]) \in Nat, Len(stack'[c]) <= Len(stack[c]),
           \A d \in 1..Len(stack'[c]) :
               /\ stack'[c][d].tx = stack[c][d].tx /\ stack'[c][d].own = stack[c][d].own
               /\ stack[c][d].tx \in open' /\ outcome'[stack[c][d].tx] = "running"
    PROVE  CallsRun(c)'
<1>1. Len(stack'[c]) <= load.depth /\ \A d \in 1..Len(stack'[c]) : d \in 1..Len(stack[c])
  BY DEF CallsRun
<1>2. ASSUME NEW d \in 1..Len(stack'[c])
      PROVE  /\ stack'[c][d].tx \in open' /\ outcome'[stack'[c][d].tx] = "running"
             /\ stack'[c][d].tx[1] = c /\ stack'[c][d].tx[2] <= begun'[c]
  <2>1. stack[c][d].tx[1] = c /\ stack[c][d].tx[2] <= begun[c]
    BY <1>1 DEF CallsRun
  <2>2. stack'[c][d].tx = stack[c][d].tx /\ stack[c][d].tx \in open' /\ outcome'[stack[c][d].tx] = "running"
    OBVIOUS
  <2> QED
    BY <2>1, <2>2
<1>3. ASSUME NEW d \in 1..Len(stack'[c]), NEW e \in 1..Len(stack'[c]), d < e, stack'[c][e].own
      PROVE  stack'[c][d].tx # stack'[c][e].tx
  <2>1. stack[c][e].own => stack[c][d].tx # stack[c][e].tx
    BY <1>1, <1>3 DEF CallsRun
  <2>2. /\ stack'[c][d].tx = stack[c][d].tx /\ stack'[c][e].tx = stack[c][e].tx
        /\ stack'[c][e].own = stack[c][e].own
    OBVIOUS
  <2> QED
    BY <1>3, <2>1, <2>2
<1>4. Len(stack'[c]) <= load'.depth
  BY <1>1
<1> QED
  BY <1>2, <1>3, <1>4 DEF CallsRun

(* A step of c touches only transactions that c has begun.                 *)
OthersKept(c) ==
    /\ \A e \in Callers : e # c => stack'[e] = stack[e] /\ begun'[e] = begun[e]
    /\ \A t \in TxIds : t[1] # c =>
           /\ t \in open' <=> t \in open
           /\ outcome'[t] = outcome[t] /\ held'[t] = held[t] /\ taken'[t] = taken[t]
           /\ wrote'[t] = wrote[t] /\ notified'[t] = notified[t] /\ Seen(t)' = Seen(t)

LEMMA OtherCalls ==
    ASSUME TransactionInv, NEW c \in Callers, load' = load, OthersKept(c), NEW e \in Callers, e # c
    PROVE  CallsRun(e)'
<1>1. CallsRun(e) /\ open \subseteq TxIds
  BY DEF TransactionInv, Types
<1>2. ASSUME NEW d \in 1..Len(stack[e])
      PROVE  stack[e][d].tx \in open' /\ outcome'[stack[e][d].tx] = "running"
  BY <1>1 DEF CallsRun, OthersKept
<1> QED
  BY <1>1, <1>2 DEF CallsRun, OthersKept

LEMMA OtherOutcomes ==
    ASSUME TransactionInv, NEW c \in Callers, OthersKept(c), NEW t \in TxIds, t[1] # c
    PROVE  OutcomeTells(t)'
<1>1. t[1] \in Callers
  BY DEF TxIds
<1>2. OutcomeTells(t)
  BY DEF TransactionInv
<1>3. /\ t \in open' <=> t \in open
      /\ outcome'[t] = outcome[t] /\ held'[t] = held[t] /\ taken'[t] = taken[t]
      /\ wrote'[t] = wrote[t] /\ notified'[t] = notified[t] /\ Seen(t)' = Seen(t)
      /\ begun'[t[1]] = begun[t[1]]
  BY <1>1 DEF OthersKept
<1> QED
  BY <1>2, <1>3 DEF OutcomeTells

(* No lock is given, and a new transaction has none.                       *)
LEMMA NoLockGiven ==
    ASSUME LocksApart, \A t \in open' : held'[t] \subseteq held[t] /\ (t \in open \/ held[t] = {})
    PROVE  LocksApart'
  BY DEF LocksApart, Conflict

(* A step keeps the invariant when it keeps what it touches.               *)
LEMMA StepOf ==
    ASSUME TransactionInv, NEW c \in Callers, load' = load, OthersKept(c), Types', CallsRun(c)',
           LocksApart', \A t \in TxIds : t[1] = c => OutcomeTells(t)'
    PROVE  TransactionInv'
<1>1. \A e \in Callers : CallsRun(e)'
  BY OtherCalls
<1>2. \A t \in TxIds : OutcomeTells(t)'
  BY OtherOutcomes
<1>3. (\A e \in Callers : CallsRun(e))' /\ (\A t \in TxIds : OutcomeTells(t))'
  BY <1>1, <1>2
<1> QED
  BY <1>3 DEF TransactionInv

-----------------------------------------------------------------------------
(* A call is refused, a statement fails, or a nested call returns.         *)
LEMMA QuietStep ==
    ASSUME TransactionInv, NEW c \in Callers,
           UNCHANGED <<load, begun, open, outcome, held, taken, wrote, notified, visible>>,
           stack' = stack \/ (Depth(c) > 0 /\ Pop(c))
    PROVE  TransactionInv'
<1>1. stack \in [Callers -> Seq(Frame)] /\ CallsRun(c) /\ load.depth \in Nat
  BY WorkloadOf DEF TransactionInv, Types
<1>2. Len(stack[c]) \in Nat
  BY <1>1
<1>3. /\ stack' \in [Callers -> Seq(Frame)]
      /\ Len(stack'[c]) <= Len(stack[c]) /\ Len(stack'[c]) \in Nat
      /\ \A d \in 1..Len(stack'[c]) : stack'[c][d] = stack[c][d] /\ d \in 1..Len(stack[c])
      /\ \A e \in Callers : e # c => stack'[e] = stack[e]
  <2>1. CASE stack' = stack
    BY <1>1, <1>2, <2>1
  <2>2. CASE Depth(c) > 0 /\ Pop(c)
    <3>1. /\ stack' \in [Callers -> Seq(Frame)] /\ Len(stack'[c]) = Len(stack[c]) - 1
          /\ \A d \in 1..Len(stack'[c]) : stack'[c][d] = stack[c][d]
          /\ \A e \in Callers : e # c => stack'[e] = stack[e]
      BY <1>1, <2>2, Popped
    <3>2. Len(stack'[c]) \in Nat
      BY <3>1
    <3> QED
      BY <1>2, <3>1, <3>2
  <2> QED
    BY <2>1, <2>2
<1>4. CallsRun(c)'
  <2>1. ASSUME NEW d \in 1..Len(stack'[c])
        PROVE  /\ stack'[c][d].tx = stack[c][d].tx /\ stack'[c][d].own = stack[c][d].own
               /\ stack[c][d].tx \in open' /\ outcome'[stack[c][d].tx] = "running"
    BY <1>1, <1>3 DEF CallsRun
  <2> QED
    BY <1>1, <1>2, <1>3, <2>1, OwnCalls
<1>5. \A t \in TxIds : Seen(t)' = Seen(t)
  BY DEF Seen
<1>6. OthersKept(c)
  BY <1>3, <1>5 DEF OthersKept
<1>7. Types'
  BY <1>3 DEF TransactionInv, Types
<1>8. LocksApart'
  BY NoLockGiven DEF TransactionInv
<1>9. \A t \in TxIds : OutcomeTells(t)'
  BY <1>5 DEF TransactionInv, OutcomeTells
<1> QED
  BY <1>4, <1>6, <1>7, <1>8, <1>9, StepOf

(* The goroutine makes another call, in its transaction or in a new one.   *)
LEMMA PushedCalls ==
    ASSUME TransactionInv, NEW c \in Callers, NEW f \in Frame, Push(c, f), MayCall(c), load' = load,
           begun'[c] \in Nat, begun[c] <= begun'[c], \A t \in open : t \in open' /\ outcome'[t] = outcome[t],
           f.tx \in open', outcome'[f.tx] = "running", f.tx[1] = c, f.tx[2] <= begun'[c], f.tx[2] \in Nat,
           f.own => \A d \in 1..Len(stack[c]) : stack[c][d].tx # f.tx
    PROVE  CallsRun(c)'
<1>1. /\ stack \in [Callers -> Seq(Frame)] /\ CallsRun(c) /\ load.depth \in Nat /\ load.depth >= 1
      /\ open \subseteq TxIds /\ begun[c] \in Nat
  BY WorkloadOf DEF TransactionInv, Types
<1>2. Len(stack[c]) \in Nat
  BY <1>1
<1>3. /\ Len(stack'[c]) = Len(stack[c]) + 1
      /\ \A d \in 1..Len(stack[c]) : stack'[c][d] = stack[c][d]
      /\ stack'[c][Len(stack[c]) + 1] = f
  BY <1>1, Pushed
<1>4. Len(stack'[c]) <= load'.depth
  BY <1>1, <1>2, <1>3 DEF MayCall, InBody, Depth
<1>5. \A d \in 1..Len(stack'[c]) : d \in 1..Len(stack[c]) \/ d = Len(stack[c]) + 1
  BY <1>2, <1>3
<1>6. ASSUME NEW d \in 1..Len(stack'[c])
      PROVE  /\ stack'[c][d].tx \in open' /\ outcome'[stack'[c][d].tx] = "running"
             /\ stack'[c][d].tx[1] = c /\ stack'[c][d].tx[2] <= begun'[c]
  <2>1. CASE d \in 1..Len(stack[c])
    <3>1. /\ stack[c][d].tx \in open /\ outcome[stack[c][d].tx] = "running"
          /\ stack[c][d].tx[1] = c /\ stack[c][d].tx[2] <= begun[c]
      BY <1>1, <2>1 DEF CallsRun
    <3>2. stack[c][d].tx[2] \in Nat
      BY <1>1, <3>1 DEF TxIds
    <3>3. stack[c][d].tx[2] <= begun'[c]
      BY <1>1, <3>1, <3>2
    <3> QED
      BY <1>3, <2>1, <3>1, <3>3
  <2>2. CASE d = Len(stack[c]) + 1
    BY <1>3, <2>2
  <2> QED
    BY <1>5, <2>1, <2>2
<1>7. ASSUME NEW d \in 1..Len(stack'[c]), NEW e \in 1..Len(stack'[c]), d < e, stack'[c][e].own
      PROVE  stack'[c][d].tx # stack'[c][e].tx
  <2>1. d \in 1..Len(stack[c]) /\ stack'[c][d] = stack[c][d]
    BY <1>2, <1>3, <1>5, <1>7
  <2>2. CASE e \in 1..Len(stack[c])
    BY <1>1, <1>3, <1>7, <2>1, <2>2 DEF CallsRun
  <2>3. CASE e = Len(stack[c]) + 1
    BY <1>3, <1>7, <2>1, <2>3
  <2> QED
    BY <1>5, <2>2, <2>3
<1> QED
  BY <1>4, <1>6, <1>7 DEF CallsRun

LEMMA CallNestedStep ==
    ASSUME TransactionInv, NEW c \in Callers, NEW i \in Instances, NEW L \in SUBSET Lock, CallNested(c, i, L)
    PROVE  TransactionInv'
<1> DEFINE f == [inst |-> i, tx |-> Top(c).tx, own |-> FALSE, todo |-> L]
<1>1. /\ MayCall(c) /\ Depth(c) > 0 /\ Push(c, f)
      /\ UNCHANGED <<load, begun, open, outcome, held, taken, wrote, notified, visible>>
  BY DEF CallNested, HasParentTx, dbVars
<1>2. Top(c).tx \in open /\ Top(c).tx \in TxIds /\ Top(c).tx[1] = c /\ Top(c).tx[2] <= begun[c]
      /\ outcome[Top(c).tx] = "running"
  BY <1>1, Innermost
<1>3. f \in Frame /\ f.tx = Top(c).tx /\ f.own = FALSE
  BY <1>2 DEF Frame
<1> HIDE DEF f
<1>4. stack \in [Callers -> Seq(Frame)] /\ begun[c] \in Nat /\ f.tx[2] \in Nat
  BY <1>2, <1>3 DEF TransactionInv, Types, TxIds
<1>5. CallsRun(c)'
  BY <1>1, <1>2, <1>3, <1>4, PushedCalls
<1>6. stack' \in [Callers -> Seq(Frame)] /\ \A e \in Callers : e # c => stack'[e] = stack[e]
  BY <1>1, <1>3, <1>4, Pushed
<1>7. \A t \in TxIds : Seen(t)' = Seen(t)
  BY <1>1 DEF Seen
<1>8. OthersKept(c)
  BY <1>1, <1>6, <1>7 DEF OthersKept
<1>9. Types'
  BY <1>1, <1>6 DEF TransactionInv, Types
<1>10. LocksApart'
  BY <1>1, NoLockGiven DEF TransactionInv
<1>11. \A t \in TxIds : OutcomeTells(t)'
  BY <1>1, <1>7 DEF TransactionInv, OutcomeTells
<1> QED
  BY <1>1, <1>5, <1>8, <1>9, <1>10, <1>11, StepOf

LEMMA CallBeginStep ==
    ASSUME TransactionInv, NEW c \in Callers, NEW i \in Instances, NEW L \in SUBSET Lock, CallBegin(c, i, L)
    PROVE  TransactionInv'
<1>0. begun[c] \in Nat /\ begun[c] + 1 \in 1..MaxTx
  <2>1. begun[c] \in Nat /\ load.txs \in 0..MaxTx /\ MaxTx \in Nat
    BY WorkloadOf, BoundsAssumption DEF TransactionInv, Types
  <2> QED
    BY <2>1 DEF CallBegin
<1>t. PICK t \in TxIds : t = <<c, begun[c] + 1>>
  BY <1>0 DEF TxIds
<1> DEFINE f == [inst |-> i, tx |-> t, own |-> TRUE, todo |-> L]
<1>1. /\ MayCall(c) /\ begun[c] < load.txs /\ Push(c, f)
      /\ begun' = [begun EXCEPT ![c] = begun[c] + 1]
      /\ open' = open \union {t} /\ outcome' = [outcome EXCEPT ![t] = "running"]
      /\ UNCHANGED <<load, held, taken, wrote, notified, visible>>
  BY <1>t DEF CallBegin
<1>2. /\ stack \in [Callers -> Seq(Frame)] /\ begun \in [Callers -> Nat] /\ CallsRun(c)
      /\ open \subseteq TxIds /\ load.txs \in 0..MaxTx /\ MaxTx \in Nat
      /\ outcome \in [TxIds -> {"none", "running", "nil", "error", "unknown", "panic"}]
  BY WorkloadOf, BoundsAssumption DEF TransactionInv, Types
<1>3. begun[c] + 1 \in 1..MaxTx /\ begun[c] \in Nat
  BY <1>1, <1>2
<1>4. t \in TxIds /\ t[1] = c /\ t[2] = begun[c] + 1
  BY <1>t
<1>5. f \in Frame /\ f.tx = t /\ f.own = TRUE
  BY <1>4 DEF Frame
<1>6. begun'[c] = begun[c] + 1 /\ \A e \in Callers : e # c => begun'[e] = begun[e]
  BY <1>1, <1>2
<1> HIDE DEF f
<1>7. t[2] > begun[t[1]] /\ OutcomeTells(t)
  BY <1>3, <1>4 DEF TransactionInv
<1>8. /\ outcome[t] = "none" /\ held[t] = {} /\ taken[t] = {} /\ notified[t] = 0 /\ Seen(t) = {} /\ t \notin open
  BY <1>7 DEF OutcomeTells
<1>9. outcome'[t] = "running" /\ \A u \in TxIds : u # t => outcome'[u] = outcome[u]
  BY <1>1, <1>2, <1>4
<1>10. \A d \in 1..Len(stack[c]) : stack[c][d].tx # t
  BY <1>2, <1>8 DEF CallsRun
<1>11. \A u \in open : u \in open' /\ outcome'[u] = outcome[u]
  BY <1>1, <1>2, <1>8, <1>9
<1>12. CallsRun(c)'
  <2>1. f.tx \in open' /\ outcome'[f.tx] = "running" /\ f.tx[1] = c /\ f.tx[2] = begun[c] + 1
    BY <1>1, <1>4, <1>5, <1>9
  <2>2. begun'[c] \in Nat /\ begun[c] <= begun'[c] /\ f.tx[2] <= begun'[c] /\ f.tx[2] \in Nat
    BY <1>3, <1>6, <2>1
  <2> QED
    BY <1>1, <1>5, <1>10, <1>11, <2>1, <2>2, PushedCalls
<1>13. stack' \in [Callers -> Seq(Frame)] /\ \A e \in Callers : e # c => stack'[e] = stack[e]
  BY <1>1, <1>2, <1>5, Pushed
<1>14. \A u \in TxIds : Seen(u)' = Seen(u)
  BY <1>1 DEF Seen
<1>15. OthersKept(c)
  BY <1>1, <1>4, <1>6, <1>9, <1>13, <1>14 DEF OthersKept
<1>16. Types'
  <2>1. begun' \in [Callers -> Nat] /\ open' \subseteq TxIds
    BY <1>1, <1>2, <1>3, <1>4
  <2>2. outcome' \in [TxIds -> {"none", "running", "nil", "error", "unknown", "panic"}]
    BY <1>1, <1>2
  <2> QED
    BY <1>1, <1>13, <2>1, <2>2 DEF TransactionInv, Types
<1>17. LocksApart'
  BY <1>1, <1>8, NoLockGiven DEF TransactionInv
<1>18. ASSUME NEW u \in TxIds, u[1] = c PROVE OutcomeTells(u)'
  <2>1. CASE u = t
    <3>1. ~(t[2] > begun'[t[1]])
      BY <1>3, <1>4, <1>6
    <3>2. outcome'[t] = "running" /\ held'[t] = {} /\ taken'[t] = {} /\ notified'[t] = 0 /\ Seen(t)' = {}
      BY <1>1, <1>4, <1>8, <1>9, <1>14
    <3> QED
      BY <2>1, <3>1, <3>2 DEF OutcomeTells
  <2>2. CASE u # t
    <3>1. OutcomeTells(u) /\ u[2] \in Nat
      BY DEF TransactionInv, TxIds
    <3>2. u[2] > begun'[u[1]] => u[2] > begun[u[1]]
      BY <1>3, <1>6, <1>18, <3>1
    <3>3. /\ u \in open' <=> u \in open
          /\ outcome'[u] = outcome[u] /\ Seen(u)' = Seen(u)
          /\ UNCHANGED <<held, taken, notified, wrote>>
      BY <1>1, <1>9, <1>14, <2>2
    <3> QED
      BY <3>1, <3>2, <3>3 DEF OutcomeTells
  <2> QED
    BY <2>1, <2>2
<1> QED
  BY <1>1, <1>12, <1>15, <1>16, <1>17, <1>18, StepOf

(* A lock is given: nobody else holds one that conflicts with it.          *)
LEMMA TakeLockStep ==
    ASSUME TransactionInv, NEW c \in Callers, TakeLock(c)
    PROVE  TransactionInv'
<1>0. Depth(c) > 0
  BY DEF TakeLock
<1>1. /\ Depth(c) \in 1..Len(stack[c]) /\ Top(c) \in Frame /\ Top(c) = stack[c][Depth(c)]
      /\ Top(c).tx \in open /\ Top(c).tx \in TxIds /\ Top(c).tx[1] = c /\ outcome[Top(c).tx] = "running"
  BY <1>0, Innermost
<1>2. PICK l \in Top(c).todo :
        /\ Blockers(Top(c).tx, l) = {}
        /\ held' = [held EXCEPT ![Top(c).tx] = @ \union {l}]
        /\ taken' = [taken EXCEPT ![Top(c).tx] = @ \union {l}]
        /\ stack' = [stack EXCEPT ![c][Depth(c)].todo = @ \ {l}]
        /\ UNCHANGED <<load, begun, open, wrote, visible, outcome, notified>>
  BY DEF TakeLock
<1>3. PICK t \in TxIds : t = Top(c).tx
  BY <1>1
<1>4. l \in Lock
  BY <1>1, <1>2 DEF Frame
<1>5. /\ stack \in [Callers -> Seq(Frame)] /\ CallsRun(c) /\ load.depth \in Nat /\ open \subseteq TxIds
      /\ held \in [TxIds -> SUBSET Lock] /\ taken \in [TxIds -> SUBSET Lock]
  BY WorkloadOf DEF TransactionInv, Types
<1>6. /\ held' \in [TxIds -> SUBSET Lock] /\ taken' \in [TxIds -> SUBSET Lock]
      /\ held'[t] = held[t] \union {l} /\ taken'[t] = taken[t] \union {l}
      /\ \A u \in TxIds : u # t => held'[u] = held[u] /\ taken'[u] = taken[u]
  BY <1>2, <1>3, <1>4, <1>5
<1> DEFINE s == stack[c]
<1> DEFINE n == Depth(c)
<1> DEFINE g == [s[n] EXCEPT !.todo = @ \ {l}]
<1> DEFINE r == [s EXCEPT ![n] = g]
<1>7. s \in Seq(Frame) /\ n \in 1..Len(s) /\ Len(s) \in Nat /\ s[n] \in Frame
  BY <1>1, <1>5
<1>8. g \in Frame /\ g.tx = s[n].tx /\ g.own = s[n].own
  BY <1>7 DEF Frame
<1>9. stack' = [stack EXCEPT ![c] = r]
  BY <1>2
<1> HIDE DEF s, n, g
<1>10. r \in Seq(Frame) /\ Len(r) = Len(s) /\ \A j \in 1..Len(s) : r[j] = IF j = n THEN g ELSE s[j]
  BY <1>7, <1>8, ExceptSeq
<1> HIDE DEF r
<1>11. stack'[c] = r /\ stack' \in [Callers -> Seq(Frame)] /\ \A e \in Callers : e # c => stack'[e] = stack[e]
  BY <1>5, <1>9, <1>10
<1>12. CallsRun(c)'
  <2>1. Len(stack'[c]) = Len(stack[c]) /\ Len(stack[c]) \in Nat
    BY <1>7, <1>10, <1>11 DEF s
  <2>2. ASSUME NEW d \in 1..Len(stack'[c])
        PROVE  stack'[c][d].tx = stack[c][d].tx /\ stack'[c][d].own = stack[c][d].own
    <3>1. d \in 1..Len(s)
      BY <2>1 DEF s
    <3>2. r[d].tx = s[d].tx /\ r[d].own = s[d].own
      BY <1>8, <1>10, <3>1
    <3> QED
      BY <1>11, <3>2 DEF s
  <2>3. ASSUME NEW d \in 1..Len(stack'[c])
        PROVE  stack[c][d].tx \in open' /\ outcome'[stack[c][d].tx] = "running"
    BY <1>2, <1>5, <2>1 DEF CallsRun
  <2>4. Len(stack'[c]) \in Nat /\ Len(stack'[c]) <= Len(stack[c])
    BY <2>1
  <2> QED
    BY <1>2, <1>5, <2>1, <2>2, <2>3, <2>4, OwnCalls
<1>13. \A u \in TxIds : Seen(u)' = Seen(u)
  BY <1>2 DEF Seen
<1>14. OthersKept(c)
  <2>1. t[1] = c
    BY <1>1, <1>3
  <2> QED
    BY <1>2, <1>6, <1>11, <1>13, <2>1 DEF OthersKept
<1>15. Types'
  BY <1>2, <1>6, <1>11 DEF TransactionInv, Types
<1>16. \A u \in open : u # t => \A m \in held[u] : ~Conflict(l, m)
  BY <1>2, <1>3 DEF Blockers
<1>17. LocksApart'
  <2>1. ASSUME NEW u \in open, NEW v \in open, u # v, NEW m \in held'[u], NEW k \in held'[v]
        PROVE  ~Conflict(m, k)
    <3>1. CASE m \in held[u] /\ k \in held[v]
      BY <2>1, <3>1 DEF TransactionInv, LocksApart
    <3>2. CASE u = t /\ m = l
      <4>1. v # t /\ k \in held[v]
        BY <1>5, <1>6, <2>1, <3>2
      <4> QED
        BY <1>16, <3>2, <4>1
    <3>3. CASE v = t /\ k = l
      <4>1. u # t /\ m \in held[u]
        BY <1>5, <1>6, <2>1, <3>3
      <4> QED
        BY <1>16, <3>3, <4>1 DEF Conflict
    <3> QED
      BY <1>5, <1>6, <2>1, <3>1, <3>2, <3>3
  <2> QED
    BY <1>2, <2>1 DEF LocksApart, Conflict
<1>18. ASSUME NEW u \in TxIds PROVE OutcomeTells(u)'
  <2>1. OutcomeTells(u)
    BY DEF TransactionInv
  <2>2. UNCHANGED <<begun, open, outcome, notified, wrote>> /\ Seen(u)' = Seen(u)
    BY <1>2, <1>13
  <2>3. CASE u # t
    BY <1>6, <2>1, <2>2, <2>3 DEF OutcomeTells
  <2>4. CASE u = t
    <3>1. outcome[u] = "running" /\ held'[u] = held[u] \union {l} /\ taken'[u] = taken[u] \union {l}
      BY <1>1, <1>3, <1>6, <2>4
    <3> QED
      BY <2>1, <2>2, <3>1 DEF OutcomeTells
  <2> QED
    BY <2>3, <2>4
<1>19. load' = load
  BY <1>2
<1> QED
  BY <1>12, <1>14, <1>15, <1>17, <1>18, <1>19, StepOf

(* A statement writes in a transaction that is running.                    *)
LEMMA ExecStep ==
    ASSUME TransactionInv, NEW c \in Callers, Exec(c)
    PROVE  TransactionInv'
<1>1. /\ Depth(c) > 0 /\ wrote' = [wrote EXCEPT ![Top(c).tx] = @ \union {Depth(c)}]
      /\ UNCHANGED <<load, stack, begun, open, outcome, held, taken, visible, notified>>
  BY DEF Exec, InBody, askVars
<1>2. Depth(c) \in 1..MaxDepth /\ Top(c).tx \in TxIds /\ Top(c).tx[1] = c /\ outcome[Top(c).tx] = "running"
  BY <1>1, Innermost
<1>3. PICK t \in TxIds : t = Top(c).tx
  BY <1>2
<1>4. wrote \in [TxIds -> SUBSET (1..MaxDepth)]
  BY DEF TransactionInv, Types
<1>5. wrote' \in [TxIds -> SUBSET (1..MaxDepth)] /\ \A u \in TxIds : u # t => wrote'[u] = wrote[u]
  BY <1>1, <1>2, <1>3, <1>4
<1>6. \A u \in TxIds : Seen(u)' = Seen(u)
  BY <1>1 DEF Seen
<1>7. OthersKept(c)
  BY <1>1, <1>2, <1>3, <1>5, <1>6 DEF OthersKept
<1>8. Types'
  BY <1>1, <1>5 DEF TransactionInv, Types
<1>9. CallsRun(c)'
  BY <1>1 DEF TransactionInv, CallsRun
<1>10. LocksApart'
  BY <1>1, NoLockGiven DEF TransactionInv
<1>11. ASSUME NEW u \in TxIds PROVE OutcomeTells(u)'
  <2>1. OutcomeTells(u) /\ UNCHANGED <<begun, open, outcome, held, taken, notified>> /\ Seen(u)' = Seen(u)
    BY <1>1, <1>6 DEF TransactionInv
  <2>2. outcome[u] = "running" \/ wrote'[u] = wrote[u]
    BY <1>2, <1>3, <1>5
  <2> QED
    BY <2>1, <2>2 DEF OutcomeTells
<1>12. load' = load
  BY <1>1
<1> QED
  BY <1>7, <1>8, <1>9, <1>10, <1>11, <1>12, StepOf

(* The call that began the transaction returns: with o, and the writes of  *)
(* the transaction visible or not.                                         *)
LEMMA OwnerReturns ==
    ASSUME TransactionInv, NEW c \in Callers, Depth(c) > 0, Top(c).own, Pop(c),
           NEW o \in {"nil", "unknown", "error"}, NEW t \in TxIds, t = Top(c).tx,
           End({t}), outcome' = [outcome EXCEPT ![t] = o], UNCHANGED <<load, begun, taken, wrote>>,
           \/ visible' = visible /\ o # "nil"
           \/ visible' = visible \union {<<t, d>> : d \in wrote[t]} /\ o # "error",
           notified' = IF o = "nil" THEN [notified EXCEPT ![t] = @ + 1] ELSE notified
    PROVE  TransactionInv'
<1>1. /\ Depth(c) \in 1..Len(stack[c]) /\ Top(c) = stack[c][Depth(c)] /\ Depth(c) = Len(stack[c])
      /\ t \in open /\ t[1] = c /\ outcome[t] = "running" /\ t[2] <= begun[c]
  BY Innermost
<1>2. /\ stack \in [Callers -> Seq(Frame)] /\ CallsRun(c) /\ load.depth \in Nat
      /\ open \subseteq TxIds /\ held \in [TxIds -> SUBSET Lock]
      /\ wrote \in [TxIds -> SUBSET (1..MaxDepth)] /\ notified \in [TxIds -> Nat]
      /\ outcome \in [TxIds -> {"none", "running", "nil", "error", "unknown", "panic"}]
  BY WorkloadOf DEF TransactionInv, Types
<1>3. Len(stack[c]) \in Nat
  BY <1>2
<1>4. /\ stack' \in [Callers -> Seq(Frame)] /\ Len(stack'[c]) = Len(stack[c]) - 1
      /\ \A d \in 1..Len(stack'[c]) : stack'[c][d] = stack[c][d]
      /\ \A e \in Callers : e # c => stack'[e] = stack[e]
  BY <1>2, Popped
<1>5. /\ outcome' \in [TxIds -> {"none", "running", "nil", "error", "unknown", "panic"}]
      /\ outcome'[t] = o /\ \A u \in TxIds : u # t => outcome'[u] = outcome[u]
  BY <1>2
<1>6. /\ open' = open \ {t} /\ held' \in [TxIds -> SUBSET Lock]
      /\ \A u \in TxIds : u # t => held'[u] = held[u]
  BY <1>2 DEF End
<1>7. CallsRun(c)'
  <2>1. ASSUME NEW d \in 1..Len(stack'[c])
        PROVE  /\ stack'[c][d].tx = stack[c][d].tx /\ stack'[c][d].own = stack[c][d].own
               /\ stack[c][d].tx \in open' /\ outcome'[stack[c][d].tx] = "running"
    <3>1. d \in 1..Len(stack[c]) /\ d < Depth(c)
      BY <1>1, <1>3, <1>4
    <3>2. stack[c][d].tx # t /\ stack[c][d].tx \in open /\ outcome[stack[c][d].tx] = "running"
      BY <1>1, <1>2, <3>1 DEF CallsRun
    <3> QED
      BY <1>2, <1>4, <1>5, <1>6, <3>2
  <2>2. Len(stack'[c]) \in Nat /\ Len(stack'[c]) <= Len(stack[c])
    BY <1>1, <1>3, <1>4
  <2> QED
    BY <1>2, <1>3, <2>1, <2>2, OwnCalls
<1>8. \A u \in TxIds : u # t => Seen(u)' = Seen(u)
  BY DEF Seen
<1>9. Seen(t) = {} /\ notified[t] = 0
  BY <1>1 DEF TransactionInv, OutcomeTells
<1>10. \/ Seen(t)' = {} /\ o # "nil"
       \/ Seen(t)' = wrote[t] /\ o # "error"
  <2>1. CASE visible' = visible /\ o # "nil"
    BY <1>9, <2>1 DEF Seen
  <2>2. CASE visible' = visible \union {<<t, d>> : d \in wrote[t]} /\ o # "error"
    <3>1. \A d \in 1..MaxDepth : <<t, d>> \in visible' <=> d \in wrote[t]
      BY <1>9, <2>2 DEF Seen
    <3>2. Seen(t)' = {d \in 1..MaxDepth : <<t, d>> \in visible'}
      BY DEF Seen
    <3>3. wrote[t] \subseteq 1..MaxDepth
      BY <1>2
    <3> QED
      BY <2>2, <3>1, <3>2, <3>3
  <2> QED
    BY <2>1, <2>2
<1>11. /\ notified' \in [TxIds -> Nat] /\ notified'[t] = IF o = "nil" THEN 1 ELSE 0
       /\ \A u \in TxIds : u # t => notified'[u] = notified[u]
  <2>1. CASE o = "nil"
    BY <1>2, <1>9, <2>1
  <2>2. CASE o # "nil"
    BY <1>2, <1>9, <2>2
  <2> QED
    BY <2>1, <2>2
<1>12. OthersKept(c)
  BY <1>1, <1>4, <1>5, <1>6, <1>8, <1>11 DEF OthersKept
<1>13. Types'
  <2>1. open' \subseteq TxIds
    BY <1>2, <1>6
  <2> QED
    BY <1>4, <1>5, <1>6, <1>11, <2>1 DEF TransactionInv, Types
<1>14. LocksApart'
  <2>1. \A u \in open' : held'[u] \subseteq held[u] /\ u \in open
    BY <1>2, <1>6
  <2> QED
    BY <2>1, NoLockGiven DEF TransactionInv
<1>15. ASSUME NEW u \in TxIds PROVE OutcomeTells(u)'
  <2>1. CASE u # t
    <3>1. OutcomeTells(u)
      BY DEF TransactionInv
    <3>2. /\ u \in open' <=> u \in open
          /\ outcome'[u] = outcome[u] /\ held'[u] = held[u] /\ notified'[u] = notified[u] /\ Seen(u)' = Seen(u)
          /\ UNCHANGED <<begun, taken, wrote>>
      BY <1>5, <1>6, <1>8, <1>11, <2>1
    <3> QED
      BY <3>1, <3>2 DEF OutcomeTells
  <2>2. CASE u = t
    <3>1. ~(t[2] > begun[t[1]])
      <4>1. t[2] \in Nat /\ begun[c] \in Nat
        BY DEF TransactionInv, Types, TxIds
      <4> QED
        BY <1>1, <4>1
    <3>2. /\ ~(u[2] > begun'[u[1]]) /\ u \notin open' /\ outcome'[u] = o
          /\ notified'[u] = IF o = "nil" THEN 1 ELSE 0
          /\ wrote'[u] = wrote[u]
          /\ (Seen(u)' = {} /\ o # "nil") \/ (Seen(u)' = wrote[u] /\ o # "error")
      BY <1>5, <1>6, <1>10, <1>11, <2>2, <3>1
    <3> QED
      BY <3>2 DEF OutcomeTells
  <2> QED
    BY <2>1, <2>2
<1> QED
  BY <1>7, <1>12, <1>13, <1>14, <1>15, StepOf

LEMMA ReturnStep ==
    ASSUME TransactionInv, NEW c \in Callers, Commit(c) \/ CommitUnknown(c) \/ ReturnError(c)
    PROVE  TransactionInv'
<1>0. Depth(c) > 0
  BY DEF Commit, CommitUnknown, ReturnError, InBody
<1>1. PICK t \in TxIds : t = Top(c).tx
  BY <1>0, Innermost
<1>2. CASE Commit(c)
  BY <1>0, <1>1, <1>2, OwnerReturns DEF Commit, askVars
<1>3. CASE CommitUnknown(c)
  BY <1>0, <1>1, <1>3, OwnerReturns DEF CommitUnknown, askVars
<1>4. CASE ReturnError(c) /\ Top(c).own
  BY <1>0, <1>1, <1>4, OwnerReturns DEF ReturnError, askVars
<1>5. CASE ReturnError(c) /\ ~Top(c).own
  BY <1>0, <1>5, QuietStep DEF ReturnError, askVars
<1> QED
  BY <1>2, <1>3, <1>4, <1>5

(* A panic leaves the transactions of the goroutine open.                  *)
LEMMA PanicStep ==
    ASSUME TransactionInv, NEW c \in Callers, Panic(c)
    PROVE  TransactionInv'
<1>1. /\ stack' = [stack EXCEPT ![c] = <<>>]
      /\ outcome' = [t \in TxIds |-> IF t \in Owned(c) THEN "panic" ELSE outcome[t]]
      /\ UNCHANGED <<load, begun, open, held, taken, wrote, visible, notified>>
  BY DEF Panic, askVars, dbVars
<1>2. /\ stack \in [Callers -> Seq(Frame)] /\ CallsRun(c) /\ load.depth \in Nat
      /\ outcome \in [TxIds -> {"none", "running", "nil", "error", "unknown", "panic"}]
  BY WorkloadOf DEF TransactionInv, Types
<1>3. \A t \in Owned(c) : t \in open /\ outcome[t] = "running" /\ t[1] = c
  BY <1>2 DEF Owned, CallsRun, Depth
<1>4. /\ stack' \in [Callers -> Seq(Frame)] /\ stack'[c] = <<>>
      /\ \A e \in Callers : e # c => stack'[e] = stack[e]
  <2>1. <<>> \in Seq(Frame)
    BY EmptySeq
  <2> QED
    BY <1>1, <1>2, <2>1
<1>5. outcome' \in [TxIds -> {"none", "running", "nil", "error", "unknown", "panic"}]
  BY <1>1, <1>2
<1>6. \A u \in TxIds : Seen(u)' = Seen(u)
  BY <1>1 DEF Seen
<1>7. \A u \in TxIds : outcome'[u] = outcome[u] \/ (outcome'[u] = "panic" /\ outcome[u] = "running" /\ u[1] = c)
  BY <1>1, <1>3
<1>8. CallsRun(c)'
  <2>1. Len(stack'[c]) = 0
    BY <1>4, EmptySeq
  <2> QED
    BY <1>1, <1>2, <2>1 DEF CallsRun
<1>9. OthersKept(c)
  BY <1>1, <1>4, <1>6, <1>7 DEF OthersKept
<1>10. Types'
  BY <1>1, <1>4, <1>5 DEF TransactionInv, Types
<1>11. LocksApart'
  BY <1>1, NoLockGiven DEF TransactionInv
<1>12. ASSUME NEW u \in TxIds PROVE OutcomeTells(u)'
  <2>1. OutcomeTells(u) /\ UNCHANGED <<begun, open, held, taken, wrote, notified>> /\ Seen(u)' = Seen(u)
    BY <1>1, <1>6 DEF TransactionInv
  <2> QED
    BY <1>7, <2>1 DEF OutcomeTells
<1> QED
  BY <1>1, <1>8, <1>9, <1>10, <1>11, <1>12, StepOf

(* The end of a context rolls back what a panic has left open.             *)
LEMMA EndContextStep ==
    ASSUME TransactionInv, NEW c \in Callers, EndContext(c)
    PROVE  TransactionInv'
<1>1. /\ End(Abandoned(c))
      /\ UNCHANGED <<load, stack, begun, taken, wrote, visible, outcome, notified>>
  BY DEF EndContext, askVars
<1>2. /\ CallsRun(c) /\ open \subseteq TxIds /\ held \in [TxIds -> SUBSET Lock]
  BY DEF TransactionInv, Types
<1>3. \A t \in Abandoned(c) : t \in open /\ outcome[t] = "panic" /\ t[1] = c
  BY DEF Abandoned
<1>4. /\ open' = open \ Abandoned(c) /\ held' \in [TxIds -> SUBSET Lock]
      /\ \A u \in TxIds : held'[u] = IF u \in Abandoned(c) THEN {} ELSE held[u]
  BY <1>1, <1>2 DEF End
<1>5. \A u \in TxIds : Seen(u)' = Seen(u)
  BY <1>1 DEF Seen
<1>6. CallsRun(c)'
  <2>1. \A d \in 1..Len(stack[c]) : stack[c][d].tx \in open'
    BY <1>2, <1>3, <1>4 DEF CallsRun
  <2> QED
    BY <1>1, <1>2, <2>1 DEF CallsRun
<1>7. OthersKept(c)
  BY <1>1, <1>3, <1>4, <1>5 DEF OthersKept
<1>8. Types'
  <2>1. open' \subseteq TxIds
    BY <1>2, <1>4
  <2> QED
    BY <1>1, <1>4, <2>1 DEF TransactionInv, Types
<1>9. LocksApart'
  <2>1. \A u \in open' : held'[u] \subseteq held[u] /\ u \in open
    BY <1>2, <1>4
  <2> QED
    BY <2>1, NoLockGiven DEF TransactionInv
<1>10. ASSUME NEW u \in TxIds PROVE OutcomeTells(u)'
  <2>1. OutcomeTells(u) /\ UNCHANGED <<begun, outcome, taken, wrote, notified>> /\ Seen(u)' = Seen(u)
    BY <1>1, <1>5 DEF TransactionInv
  <2>2. (u \in open' => u \in open /\ held'[u] = held[u]) /\ (held[u] = {} => held'[u] = {})
    BY <1>4
  <2> QED
    BY <2>1, <2>2 DEF OutcomeTells
<1> QED
  BY <1>1, <1>6, <1>7, <1>8, <1>9, <1>10, StepOf

-----------------------------------------------------------------------------
LEMMA InitInv ==
    ASSUME Init
    PROVE  TransactionInv
<1>1. Types
  <2>1. <<>> \in Seq(Frame)
    BY EmptySeq
  <2> QED
    BY <2>1 DEF Init, Types
<1>2. ASSUME NEW c \in Callers PROVE CallsRun(c)
  <2>1. Len(stack[c]) = 0 /\ load.depth \in 1..MaxDepth
    BY <1>1, WorkloadOf, EmptySeq DEF Init
  <2> QED
    BY <2>1 DEF CallsRun
<1>3. ASSUME NEW t \in TxIds PROVE OutcomeTells(t)
  BY DEF Init, OutcomeTells, Seen
<1> QED
  BY <1>1, <1>2, <1>3 DEF TransactionInv, LocksApart, Init

LEMMA NextInv ==
    ASSUME TransactionInv, [Next]_vars
    PROVE  TransactionInv'
<1>1. load.callers \subseteq Callers /\ load.instances \subseteq Instances /\ load.locks \subseteq SUBSET Lock
  BY WorkloadOf DEF TransactionInv
<1>2. CASE UNCHANGED vars
  <2>1. /\ UNCHANGED <<load, begun, open, outcome, held, taken, wrote, notified, visible>>
        /\ stack' = stack
    BY <1>2 DEF vars, askVars, dbVars
  <2>2. \A t \in TxIds : Seen(t)' = Seen(t)
    BY <2>1 DEF Seen
  <2>3. \A t \in TxIds : OutcomeTells(t)'
    BY <2>1, <2>2 DEF TransactionInv, OutcomeTells
  <2>4. Types' /\ LocksApart' /\ \A c \in Callers : CallsRun(c)'
    BY <2>1 DEF TransactionInv, Types, LocksApart, CallsRun, Conflict
  <2> QED
    BY <2>3, <2>4 DEF TransactionInv
<1>3. CASE Next
  <2>1. PICK c \in Callers : Step(c)
    BY <1>1, <1>3 DEF Next
  <2>2. CASE Call(c)
    <3>1. PICK i \in Instances :
            CallRefused(c, i) \/ \E L \in SUBSET Lock : CallNested(c, i, L) \/ CallBegin(c, i, L)
      BY <1>1, <2>2 DEF Call
    <3>2. CASE CallRefused(c, i)
      BY <3>2, QuietStep DEF CallRefused, askVars, dbVars
    <3>3. CASE \E L \in SUBSET Lock : CallNested(c, i, L) \/ CallBegin(c, i, L)
      BY <3>3, CallNestedStep, CallBeginStep
    <3> QED
      BY <3>1, <3>2, <3>3
  <2>3. CASE TakeLock(c)
    BY <2>3, TakeLockStep
  <2>4. CASE DeadlockDetected(c)
    BY <2>4, QuietStep DEF DeadlockDetected, askVars
  <2>5. CASE Exec(c)
    BY <2>5, ExecStep
  <2>6. CASE ExecFails(c)
    BY <2>6, QuietStep DEF ExecFails, askVars
  <2>7. CASE ReturnNested(c)
    BY <2>7, QuietStep DEF ReturnNested, InBody, askVars, dbVars
  <2>8. CASE Commit(c) \/ CommitUnknown(c) \/ ReturnError(c)
    BY <2>8, ReturnStep
  <2>9. CASE Panic(c)
    BY <2>9, PanicStep
  <2>10. CASE EndContext(c)
    BY <2>10, EndContextStep
  <2> QED
    BY <2>1, <2>2, <2>3, <2>4, <2>5, <2>6, <2>7, <2>8, <2>9, <2>10 DEF Step
<1> QED
  BY <1>2, <1>3

(***************************************************************************)
(* WithinContext: what the calls in a transaction have written is visible  *)
(* together and only when the outermost returns nil, for any goroutines,   *)
(* nesting, locks, errors and panics.                                      *)
(***************************************************************************)
THEOREM TransactionsAreAtomic == Spec => []AllOrNothing
<1>1. TransactionInv => AllOrNothing
  <2> SUFFICES ASSUME TransactionInv, NEW t \in TxIds
               PROVE  /\ outcome[t] = "nil" => Seen(t) = wrote[t]
                      /\ outcome[t] = "unknown" => Seen(t) \in {{}, wrote[t]}
                      /\ outcome[t] \in {"none", "running", "error", "panic"} => Seen(t) = {}
                      /\ t \in open => outcome[t] \in {"running", "panic"}
                      /\ notified[t] > 0 => notified[t] = 1 /\ Seen(t) = wrote[t]
    BY DEF AllOrNothing, Seen
  <2>1. OutcomeTells(t)
    BY DEF TransactionInv
  <2> QED
    BY <2>1 DEF OutcomeTells
<1> QED
  BY <1>1, InitInv, NextInv, PTL DEF Spec

(***************************************************************************)
(* lock: two transactions that are open at a time were never given locks   *)
(* that conflict, also when the call that asked for one has returned.      *)
(***************************************************************************)
THEOREM LocksLastAsLong == Spec => []LockCoversTransaction
<1>1. TransactionInv => LockCoversTransaction
  <2> SUFFICES ASSUME TransactionInv, NEW t \in open, NEW u \in open, t # u,
                      NEW l \in taken[t], NEW m \in taken[u]
               PROVE  ~Conflict(l, m)
    BY DEF LockCoversTransaction
  <2>1. held[t] = taken[t] /\ held[u] = taken[u]
    BY DEF TransactionInv, Types, OutcomeTells
  <2> QED
    BY <2>1 DEF TransactionInv, LocksApart
<1> QED
  BY <1>1, InitInv, NextInv, PTL DEF Spec

-----------------------------------------------------------------------------
(***************************************************************************)
(* Waiting for locks.  A transaction in which one call asked for locks     *)
(* gets them in the order of their keys: what it holds comes before what   *)
(* the call still waits for.                                               *)
(***************************************************************************)

FrameInOrder(f) ==
    /\ \A l, m \in f.todo : l.key = m.key => l = m
    /\ f.todo # {} => asks[f.tx] >= 1
    /\ asks[f.tx] = 1 => \A l \in held[f.tx], m \in f.todo : l.key < m.key

(* Only the innermost call of a goroutine waits.                           *)
CallsAsk(c) ==
    \A d \in 1..Len(stack[c]) :
        /\ FrameInOrder(stack[c][d])
        /\ d < Len(stack[c]) => stack[c][d].todo = {}

AskInv ==
    /\ asks \in [TxIds -> 0..2]
    /\ \A t \in TxIds : held[t] # {} => asks[t] >= 1
    /\ \A c \in Callers : CallsAsk(c)

LEMMA FramesOf ==
    ASSUME Types, NEW c \in Callers, NEW d \in 1..Len(stack[c])
    PROVE  /\ stack[c][d] \in Frame /\ stack[c][d].tx \in TxIds /\ stack[c][d].todo \subseteq Lock
<1>1. stack[c] \in Seq(Frame)
  BY DEF Types
<1>2. stack[c][d] \in Frame
  BY <1>1
<1> QED
  BY <1>2 DEF Frame

(* A step that asks for nothing and gives nothing.                         *)
LEMMA AskKept ==
    ASSUME Types, AskInv, asks' = asks, \A t \in TxIds : held'[t] \subseteq held[t],
           \A c \in Callers :
               /\ Len(stack[c]) \in Nat /\ Len(stack'[c]) \in Nat /\ Len(stack'[c]) <= Len(stack[c])
               /\ \A d \in 1..Len(stack'[c]) : stack'[c][d] = stack[c][d]
    PROVE  AskInv'
<1>1. ASSUME NEW c \in Callers, NEW d \in 1..Len(stack'[c])
      PROVE  FrameInOrder(stack[c][d])' /\ (d < Len(stack'[c]) => stack'[c][d].todo = {})
  <2>1. d \in 1..Len(stack[c]) /\ stack'[c][d] = stack[c][d] /\ (d < Len(stack'[c]) => d < Len(stack[c]))
    OBVIOUS
  <2>2. FrameInOrder(stack[c][d]) /\ (d < Len(stack[c]) => stack[c][d].todo = {})
    BY <2>1 DEF AskInv, CallsAsk
  <2>3. stack[c][d].tx \in TxIds
    BY <2>1, FramesOf
  <2> QED
    BY <2>1, <2>2, <2>3 DEF FrameInOrder
<1>2. \A c \in Callers : CallsAsk(c)'
  BY <1>1 DEF CallsAsk
<1>3. \A t \in TxIds : held'[t] # {} => asks'[t] >= 1
  BY DEF AskInv
<1> QED
  BY <1>2, <1>3 DEF AskInv

LEMMA CappedSum ==
    ASSUME NEW n \in 0..2
    PROVE  /\ Min({2, n + 1}) \in 1..2
           /\ Min({2, n + 1}) = 1 => n = 0
<1>1. \E x \in {2, n + 1} : \A y \in {2, n + 1} : x <= y
  OBVIOUS
<1>2. Min({2, n + 1}) \in {2, n + 1} /\ \A y \in {2, n + 1} : Min({2, n + 1}) <= y
  BY <1>1 DEF Min
<1> QED
  BY <1>2

(* The goroutine makes a call that asks for locks in the transaction t.    *)
LEMMA PushedAsks ==
    ASSUME TransactionInv, AskInv, NEW c \in Callers, NEW f \in Frame, Push(c, f), MayCall(c),
           \A l, m \in f.todo : l.key = m.key => l = m,
           NEW t \in TxIds, t = f.tx, t[1] = c, held' = held,
           asks' \in [TxIds -> 0..2], \A u \in TxIds : u # t => asks'[u] = asks[u],
           held[t] # {} => asks'[t] >= 1,
           f.todo # {} => asks'[t] >= 1,
           f.todo # {} /\ asks'[t] = 1 => held[t] = {}
    PROVE  AskInv'
<1>0. Types /\ \A e \in Callers : CallsRun(e) /\ Len(stack[e]) \in Nat
  BY DEF TransactionInv, Types
<1>1. /\ Len(stack'[c]) = Len(stack[c]) + 1
      /\ \A d \in 1..Len(stack[c]) : stack'[c][d] = stack[c][d]
      /\ stack'[c][Len(stack[c]) + 1] = f
      /\ \A e \in Callers : e # c => stack'[e] = stack[e]
  BY <1>0, Pushed DEF Types
<1>2. ASSUME NEW d \in 1..Len(stack[c])
      PROVE  stack[c][d].todo = {}
  BY <1>0 DEF MayCall, InBody, Depth, Top, AskInv, CallsAsk
<1>3. CallsAsk(c)'
  <2>1. ASSUME NEW d \in 1..Len(stack'[c])
        PROVE  FrameInOrder(stack[c][d])' /\ (d < Len(stack'[c]) => stack'[c][d].todo = {})
    <3>1. CASE d \in 1..Len(stack[c])
      <4>1. stack'[c][d] = stack[c][d] /\ stack'[c][d].todo = {}
        BY <1>1, <1>2, <3>1
      <4> QED
        BY <4>1 DEF FrameInOrder
    <3>2. CASE d = Len(stack[c]) + 1
      <4>1. stack'[c][d] = f /\ ~(d < Len(stack'[c]))
        BY <1>0, <1>1, <3>2
      <4> QED
        BY <4>1 DEF FrameInOrder
    <3> QED
      BY <1>0, <1>1, <3>1, <3>2
  <2> QED
    BY <2>1 DEF CallsAsk
<1>4. ASSUME NEW e \in Callers, e # c PROVE CallsAsk(e)'
  <2>1. stack'[e] = stack[e]
    BY <1>1, <1>4
  <2>2. ASSUME NEW d \in 1..Len(stack[e])
        PROVE  FrameInOrder(stack[e][d])' /\ (d < Len(stack[e]) => stack[e][d].todo = {})
    <3>1. stack[e][d].tx \in TxIds /\ stack[e][d].tx[1] = e
      BY <1>0, FramesOf DEF CallsRun
    <3>2. asks'[stack[e][d].tx] = asks[stack[e][d].tx] /\ stack'[e][d] = stack[e][d]
      BY <1>4, <2>1, <3>1
    <3>3. FrameInOrder(stack[e][d]) /\ (d < Len(stack[e]) => stack[e][d].todo = {})
      BY DEF AskInv, CallsAsk
    <3> QED
      BY <3>2, <3>3 DEF FrameInOrder
  <2> QED
    BY <2>1, <2>2 DEF CallsAsk
<1>5. \A u \in TxIds : held'[u] # {} => asks'[u] >= 1
  BY DEF AskInv
<1>6. \A e \in Callers : CallsAsk(e)'
  BY <1>3, <1>4
<1> QED
  BY <1>5, <1>6 DEF AskInv

LEMMA CallNestedAsks ==
    ASSUME TransactionInv, AskInv, NEW c \in Callers, NEW i \in Instances, NEW L \in load.locks,
           CallNested(c, i, L)
    PROVE  AskInv'
<1>0. Depth(c) > 0
  BY DEF CallNested, HasParentTx
<1>2. PICK t \in TxIds : t = Top(c).tx /\ t[1] = c
  BY <1>0, Innermost
<1> DEFINE f == [inst |-> i, tx |-> t, own |-> FALSE, todo |-> L]
<1>1. /\ MayCall(c) /\ Push(c, f) /\ held' = held
      /\ asks' = [asks EXCEPT ![t] = IF L = {} THEN @ ELSE Min({2, @ + 1})]
  BY <1>2 DEF CallNested, dbVars
<1>3. L \in SUBSET Lock /\ \A l, m \in L : l.key = m.key => l = m
  BY WorkloadOf, LocksAssumption DEF TransactionInv, Types
<1>4. f \in Frame /\ f.tx = t /\ f.todo = L
  BY <1>2, <1>3 DEF Frame
<1> HIDE DEF f
<1>5. asks \in [TxIds -> 0..2] /\ asks[t] \in 0..2 /\ (held[t] # {} => asks[t] >= 1)
  BY DEF AskInv
<1> DEFINE n == IF L = {} THEN asks[t] ELSE Min({2, asks[t] + 1})
<1>6. /\ n \in 0..2
      /\ L = {} => n = asks[t]
      /\ L # {} => n >= 1
      /\ L # {} /\ n = 1 => asks[t] = 0
  <2>1. CASE L = {}
    BY <1>5, <2>1
  <2>2. CASE L # {}
    <3>1. n = Min({2, asks[t] + 1})
      BY <2>2
    <3>2. n \in 1..2 /\ (n = 1 => asks[t] = 0)
      BY <1>5, <3>1, CappedSum
    <3> QED
      BY <2>2, <3>2
  <2> QED
    BY <2>1, <2>2
<1>7. asks' = [asks EXCEPT ![t] = n]
  BY <1>1, <1>2
<1> HIDE DEF n
<1>8. asks' \in [TxIds -> 0..2] /\ asks'[t] = n /\ \A u \in TxIds : u # t => asks'[u] = asks[u]
  BY <1>5, <1>6, <1>7
<1>9. /\ held[t] # {} => asks'[t] >= 1
      /\ f.todo # {} => asks'[t] >= 1
      /\ f.todo # {} /\ asks'[t] = 1 => held[t] = {}
  BY <1>4, <1>5, <1>6, <1>8
<1> QED
  BY <1>1, <1>2, <1>3, <1>4, <1>8, <1>9, PushedAsks

LEMMA CallBeginAsks ==
    ASSUME TransactionInv, AskInv, NEW c \in Callers, NEW i \in Instances, NEW L \in load.locks,
           CallBegin(c, i, L)
    PROVE  AskInv'
<1>1. begun[c] \in Nat /\ begun[c] < load.txs /\ load.txs \in 0..MaxTx /\ MaxTx \in Nat
  BY WorkloadOf, BoundsAssumption DEF TransactionInv, Types, CallBegin
<1>2. PICK t \in TxIds : t = <<c, begun[c] + 1>>
  <2>1. begun[c] + 1 \in 1..MaxTx
    BY <1>1
  <2> QED
    BY <2>1 DEF TxIds
<1> DEFINE f == [inst |-> i, tx |-> t, own |-> TRUE, todo |-> L]
<1>3. /\ MayCall(c) /\ Push(c, f) /\ held' = held
      /\ asks' = [asks EXCEPT ![t] = IF L = {} THEN 0 ELSE 1]
  BY <1>2 DEF CallBegin
<1>4. L \in SUBSET Lock /\ \A l, m \in L : l.key = m.key => l = m
  BY WorkloadOf, LocksAssumption DEF TransactionInv, Types
<1>5. f \in Frame /\ f.tx = t /\ f.todo = L
  BY <1>4 DEF Frame
<1> HIDE DEF f
<1>6. t[1] = c /\ t[2] = begun[c] + 1
  BY <1>2
<1>7. held[t] = {}
  BY <1>1, <1>6 DEF TransactionInv, OutcomeTells
<1>8. asks' \in [TxIds -> 0..2] /\ \A u \in TxIds : u # t => asks'[u] = asks[u]
  BY <1>3 DEF AskInv
<1>9. L # {} => asks'[t] = 1
  BY <1>3 DEF AskInv
<1> QED
  BY <1>3, <1>4, <1>5, <1>6, <1>7, <1>8, <1>9, PushedAsks

LEMMA TakeLockAsks ==
    ASSUME TransactionInv, AskInv, NEW c \in Callers, TakeLock(c)
    PROVE  AskInv'
<1>0. Depth(c) > 0 /\ asks' = asks
  BY DEF TakeLock
<1>1. /\ Depth(c) \in 1..Len(stack[c]) /\ Top(c) \in Frame /\ Top(c) = stack[c][Depth(c)]
      /\ Depth(c) = Len(stack[c]) /\ Top(c).tx \in TxIds /\ Top(c).tx[1] = c
  BY <1>0, Innermost
<1>2. PICK l \in Top(c).todo :
        /\ NextLock(Top(c).todo, l)
        /\ held' = [held EXCEPT ![Top(c).tx] = @ \union {l}]
        /\ stack' = [stack EXCEPT ![c][Depth(c)].todo = @ \ {l}]
  BY DEF TakeLock, Waits
<1>3. PICK t \in TxIds : t = Top(c).tx
  BY <1>1
<1>4. /\ stack \in [Callers -> Seq(Frame)] /\ held \in [TxIds -> SUBSET Lock]
      /\ \A e \in Callers : CallsRun(e) /\ CallsAsk(e)
  BY DEF TransactionInv, Types, AskInv
<1>5. held'[t] = held[t] \union {l} /\ \A u \in TxIds : u # t => held'[u] = held[u]
  BY <1>2, <1>3, <1>4
<1>6. PICK n \in Nat : n = Depth(c)
  BY <1>1
<1>7. PICK s \in Seq(Frame) : s = stack[c]
  BY <1>4
<1> DEFINE g == [s[n] EXCEPT !.todo = @ \ {l}]
<1> DEFINE r == [s EXCEPT ![n] = g]
<1>8. n \in 1..Len(s) /\ n = Len(s) /\ Len(s) \in Nat /\ s[n] \in Frame /\ s[n] = Top(c)
  BY <1>1, <1>6, <1>7
<1>9. g \in Frame /\ g.tx = t /\ g.todo = Top(c).todo \ {l}
  BY <1>3, <1>8 DEF Frame
<1>10. stack' = [stack EXCEPT ![c] = r]
  BY <1>2, <1>6, <1>7
<1>a. FrameInOrder(s[n]) /\ \A j \in 1..Len(s) : j < Len(s) => s[j].todo = {}
  BY <1>4, <1>7, <1>8 DEF CallsAsk
<1> HIDE DEF g
<1>b. r \in Seq(Frame) /\ Len(r) = Len(s) /\ \A j \in 1..Len(s) : r[j] = IF j = n THEN g ELSE s[j]
  BY <1>8, <1>9, ExceptSeq
<1> HIDE DEF r
<1>11. stack'[c] = r /\ \A e \in Callers : e # c => stack'[e] = stack[e]
  BY <1>4, <1>10
<1>12. asks[t] >= 1 /\ \A m \in Top(c).todo \ {l} : l.key < m.key
  <2>1. l \in Lock /\ Top(c).todo \subseteq Lock
    BY <1>1, <1>2 DEF Frame
  <2>2. \A m \in Top(c).todo : l.key <= m.key /\ (l.key = m.key => l = m)
    BY <1>2, <1>8, <1>a DEF NextLock, FrameInOrder
  <2>3. asks[t] >= 1
    BY <1>2, <1>3, <1>8, <1>a DEF FrameInOrder
  <2>4. \A m \in Lock : m.key \in Nat
    BY DEF Lock, Keys
  <2> QED
    BY <2>1, <2>2, <2>3, <2>4
<1>13. FrameInOrder(g)'
  <2>1. ASSUME NEW k \in held'[t], NEW m \in g.todo, asks[t] = 1 PROVE k.key < m.key
    BY <1>3, <1>5, <1>8, <1>9, <1>a, <1>12, <2>1 DEF FrameInOrder
  <2>2. \A k, m \in g.todo : k.key = m.key => k = m
    BY <1>8, <1>9, <1>a DEF FrameInOrder
  <2> QED
    BY <1>0, <1>9, <1>12, <2>1, <2>2 DEF FrameInOrder
<1>14. CallsAsk(c)'
  <2>1. ASSUME NEW d \in 1..Len(r)
        PROVE  FrameInOrder(r[d])' /\ (d < Len(r) => r[d].todo = {})
    <3>1. CASE d = n
      <4>1. r[d] = g /\ ~(d < Len(r))
        BY <1>8, <1>b, <3>1
      <4> QED
        BY <1>13, <4>1
    <3>2. CASE d # n
      <4>1. r[d] = s[d] /\ s[d].todo = {}
        BY <1>8, <1>a, <1>b, <3>2
      <4> QED
        BY <4>1 DEF FrameInOrder
    <3> QED
      BY <3>1, <3>2
  <2>2. \A d \in 1..Len(r) : FrameInOrder(r[d])' /\ (d < Len(r) => r[d].todo = {})
    BY <2>1
  <2> QED
    BY <1>11, <2>2 DEF CallsAsk
<1>15. ASSUME NEW e \in Callers, e # c PROVE CallsAsk(e)'
  <2>1. stack'[e] = stack[e]
    BY <1>11, <1>15
  <2>2. ASSUME NEW d \in 1..Len(stack[e])
        PROVE  FrameInOrder(stack[e][d])' /\ (d < Len(stack[e]) => stack[e][d].todo = {})
    <3>1. stack[e][d].tx \in TxIds /\ stack[e][d].tx[1] = e
      BY <1>4, FramesOf DEF CallsRun, TransactionInv
    <3>2. held'[stack[e][d].tx] = held[stack[e][d].tx] /\ stack'[e][d] = stack[e][d]
      BY <1>1, <1>3, <1>5, <1>15, <2>1, <3>1
    <3>3. FrameInOrder(stack[e][d]) /\ (d < Len(stack[e]) => stack[e][d].todo = {})
      BY <1>4 DEF CallsAsk
    <3> QED
      BY <1>0, <3>2, <3>3 DEF FrameInOrder
  <2> QED
    BY <2>1, <2>2 DEF CallsAsk
<1>16. \A u \in TxIds : held'[u] # {} => asks'[u] >= 1
  BY <1>0, <1>5, <1>12 DEF AskInv
<1>17. \A e \in Callers : CallsAsk(e)'
  BY <1>14, <1>15
<1> QED
  BY <1>0, <1>16, <1>17 DEF AskInv

(* A step that neither calls nor takes a lock.                             *)
LEMMA OtherAsks ==
    ASSUME TransactionInv, AskInv, NEW c \in Callers, asks' = asks,
           UNCHANGED held \/ \E txs : End(txs),
           stack' = stack \/ (Depth(c) > 0 /\ Pop(c)) \/ stack' = [stack EXCEPT ![c] = <<>>]
    PROVE  AskInv'
<1>1. Types /\ stack \in [Callers -> Seq(Frame)] /\ held \in [TxIds -> SUBSET Lock]
  BY DEF TransactionInv, Types
<1>2. \A t \in TxIds : held'[t] \subseteq held[t]
  BY <1>1 DEF End
<1>3. \A e \in Callers : Len(stack[e]) \in Nat
  BY <1>1
<1>4. ASSUME NEW e \in Callers
      PROVE  /\ Len(stack[e]) \in Nat /\ Len(stack'[e]) \in Nat /\ Len(stack'[e]) <= Len(stack[e])
             /\ \A d \in 1..Len(stack'[e]) : stack'[e][d] = stack[e][d]
  <2>1. CASE stack' = stack
    BY <1>3, <2>1
  <2>2. CASE Depth(c) > 0 /\ Pop(c)
    <3>1. /\ stack' \in [Callers -> Seq(Frame)] /\ Len(stack'[c]) = Len(stack[c]) - 1
          /\ \A d \in 1..Len(stack'[c]) : stack'[c][d] = stack[c][d]
          /\ \A x \in Callers : x # c => stack'[x] = stack[x]
      BY <1>1, <2>2, Popped
    <3>2. Len(stack'[c]) \in Nat
      BY <3>1
    <3> QED
      BY <1>3, <3>1, <3>2
  <2>3. CASE stack' = [stack EXCEPT ![c] = <<>>]
    <3>1. stack'[c] = <<>> /\ \A x \in Callers : x # c => stack'[x] = stack[x]
      BY <1>1, <2>3
    <3>2. CASE e = c
      <4>1. Len(stack'[e]) = 0
        BY <3>1, <3>2, EmptySeq
      <4> QED
        BY <1>3, <4>1
    <3>3. CASE e # c
      BY <1>3, <3>1, <3>3
    <3> QED
      BY <3>2, <3>3
  <2> QED
    BY <2>1, <2>2, <2>3
<1> QED
  BY <1>1, <1>2, <1>4, AskKept

LEMMA InitAsks ==
    ASSUME Init
    PROVE  AskInv
<1>1. \A c \in Callers : Len(stack[c]) = 0
  BY EmptySeq DEF Init
<1> QED
  BY <1>1 DEF Init, AskInv, CallsAsk

LEMMA NextAsks ==
    ASSUME TransactionInv, AskInv, [Next]_vars
    PROVE  AskInv'
<1>1. load.callers \subseteq Callers /\ load.instances \subseteq Instances
  BY WorkloadOf DEF TransactionInv
<1>2. CASE UNCHANGED vars
  <2>1. UNCHANGED <<asks, held, stack>>
    BY <1>2 DEF vars, askVars, dbVars
  <2> QED
    BY <2>1 DEF AskInv, CallsAsk, FrameInOrder
<1>3. CASE Next
  <2>1. PICK c \in Callers : Step(c)
    BY <1>1, <1>3 DEF Next
  <2>2. CASE Call(c)
    <3>1. PICK i \in Instances :
            CallRefused(c, i) \/ \E L \in load.locks : CallNested(c, i, L) \/ CallBegin(c, i, L)
      BY <1>1, <2>2 DEF Call
    <3>2. CASE CallRefused(c, i)
      BY <3>2, OtherAsks DEF CallRefused, askVars, dbVars
    <3>3. CASE \E L \in load.locks : CallNested(c, i, L) \/ CallBegin(c, i, L)
      BY <3>3, CallNestedAsks, CallBeginAsks
    <3> QED
      BY <3>1, <3>2, <3>3
  <2>3. CASE TakeLock(c)
    BY <2>3, TakeLockAsks
  <2>4. CASE DeadlockDetected(c)
    BY <2>4, OtherAsks DEF DeadlockDetected, askVars
  <2>5. CASE Exec(c) \/ ExecFails(c)
    BY <2>5, OtherAsks DEF Exec, ExecFails, askVars
  <2>6. CASE ReturnNested(c)
    BY <2>6, OtherAsks DEF ReturnNested, InBody, askVars, dbVars
  <2>7. CASE Commit(c) \/ CommitUnknown(c)
    <3>1. asks' = asks /\ Depth(c) > 0 /\ Pop(c) /\ End({Top(c).tx})
      BY <2>7 DEF Commit, CommitUnknown, InBody, askVars
    <3> QED
      BY <3>1, OtherAsks
  <2>8. CASE ReturnError(c)
    <3>1. asks' = asks /\ Depth(c) > 0 /\ Pop(c) /\ (UNCHANGED held \/ End({Top(c).tx}))
      BY <2>8 DEF ReturnError, askVars
    <3> QED
      BY <3>1, OtherAsks
  <2>9. CASE Panic(c)
    BY <2>9, OtherAsks DEF Panic, askVars, dbVars
  <2>10. CASE EndContext(c)
    <3>1. asks' = asks /\ stack' = stack /\ End(Abandoned(c))
      BY <2>10 DEF EndContext, askVars
    <3> QED
      BY <3>1, OtherAsks
  <2> QED
    BY <2>1, <2>2, <2>3, <2>4, <2>5, <2>6, <2>7, <2>8, <2>9, <2>10 DEF Step
<1> QED
  BY <1>2, <1>3

(* Of finitely many waiting callers, one waits for a greatest key.         *)
LEMMA GreatestKey ==
    ASSUME NEW S, IsFiniteSet(S), S # {}, NEW key \in [S -> Nat]
    PROVE  \E c \in S : \A d \in S : key[d] <= key[c]
<1> DEFINE Ascends(T) == \A c \in T : \E d \in T : key[c] < key[d]
           A == {T \in SUBSET S : T # {} /\ Ascends(T)}
<1>1. SUFFICES ASSUME A # {} PROVE FALSE
  <2>1. S \notin A
    BY <1>1
  <2> QED
    BY <2>1
<1>2. IsWellFoundedOn(StrictSubsetOrdering(S), SUBSET S)
  BY FS_StrictSubsetOrderingWellFounded, FS_FiniteSubsetsOfFinite
<1>3. PICK T \in A : \A U \in A : ~(<<U, T>> \in StrictSubsetOrdering(S))
  <2>1. A \subseteq SUBSET S
    OBVIOUS
  <2> HIDE DEF A
  <2> QED
    BY <1>1, <1>2, <2>1, WFMin
<1>4. PICK c \in T : TRUE
  OBVIOUS
<1> DEFINE U == {d \in T : key[c] < key[d]}
<1>5. U # {} /\ U \subseteq T /\ c \notin U
  OBVIOUS
<1>6. Ascends(U)
  OBVIOUS
<1>7. U \in A /\ <<U, T>> \in StrictSubsetOrdering(S)
  BY <1>4, <1>5, <1>6 DEF StrictSubsetOrdering
<1> QED
  BY <1>3, <1>7

(* A caller that asked for locks once, for a call that waits, holds no     *)
(* locks but those of the innermost transaction.                           *)
LEMMA OneAsker ==
    ASSUME TransactionInv, AskInv, NEW c \in Callers, Depth(c) > 0, Top(c).todo # {}, ~AsksTwice(c)
    PROVE  /\ asks[Top(c).tx] = 1
           /\ \A k \in 1..Depth(c) : held[stack[c][k].tx] # {} => stack[c][k].tx = Top(c).tx
<1>1. /\ Depth(c) \in 1..Depth(c) /\ Depth(c) = Len(stack[c]) /\ Top(c) = stack[c][Depth(c)]
      /\ Top(c).tx \in TxIds
  BY Innermost
<1>2. asks[Top(c).tx] >= 1 /\ asks[Top(c).tx] \in 0..2
  BY <1>1 DEF AskInv, CallsAsk, FrameInOrder
<1>3. ~(asks[Top(c).tx] > 1)
  BY <1>1 DEF AsksTwice
<1>4. ASSUME NEW k \in 1..Depth(c), held[stack[c][k].tx] # {}
      PROVE  stack[c][k].tx = Top(c).tx
  <2>1. stack[c][k].tx \in TxIds
    BY <1>1, FramesOf DEF TransactionInv
  <2>2. asks[stack[c][k].tx] >= 1 /\ asks[stack[c][k].tx] \in 0..2
    BY <1>4, <2>1 DEF AskInv
  <2> QED
    BY <1>1, <1>2, <2>2 DEF AsksTwice
<1> QED
  BY <1>2, <1>3, <1>4

(***************************************************************************)
(* lock: callers that ask for their locks in one call each never wait for  *)
(* each other in a circle, for any number of goroutines, locks and nested  *)
(* calls: the key a caller waits for is held by one that waits for a       *)
(* greater key.                                                            *)
(***************************************************************************)
THEOREM SortedLocksDoNotDeadlock == Spec => []CycleNeedsNesting
<1>1. ASSUME TransactionInv, AskInv PROVE CycleNeedsNesting
  <2> SUFFICES ASSUME NEW S \in (SUBSET Callers) \ {{}},
                      \A c \in S : WaitsForOneOf(c, UNION {{stack[d][k].tx : k \in 1..Depth(d)} : d \in S}),
                      \A c \in S : ~AsksTwice(c)
               PROVE  FALSE
    BY DEF CycleNeedsNesting
  <2>1. ASSUME NEW c \in S
        PROVE  /\ Depth(c) > 0 /\ Top(c).todo # {} /\ Top(c).todo \subseteq Lock
               /\ \E l \in Top(c).todo : /\ NextLock(Top(c).todo, l)
                                         /\ \E d \in S : \E m \in held[Top(d).tx] : l.key = m.key
    <3>1. PICK l \in Top(c).todo :
            /\ Depth(c) > 0 /\ NextLock(Top(c).todo, l)
            /\ Blockers(Top(c).tx, l) \intersect UNION {{stack[d][k].tx : k \in 1..Depth(d)} : d \in S} # {}
      BY DEF WaitsForOneOf, Waits
    <3>a. PICK d \in S : \E k \in 1..Depth(d) : stack[d][k].tx \in Blockers(Top(c).tx, l)
      BY <3>1
    <3>2. PICK k \in 1..Depth(d) : stack[d][k].tx \in Blockers(Top(c).tx, l)
      BY <3>a
    <3>3. PICK m \in held[stack[d][k].tx] : l.key = m.key
      BY <3>2 DEF Blockers, Conflict
    <3>4. Depth(d) > 0 /\ Top(d).todo # {}
      BY DEF WaitsForOneOf
    <3>5. stack[d][k].tx = Top(d).tx
      BY <1>1, <3>3, <3>4, OneAsker
    <3>6. Top(c).todo \subseteq Lock
      BY <1>1, <3>1, Innermost DEF Frame
    <3> QED
      BY <3>1, <3>3, <3>5, <3>6
  <2> DEFINE key == [c \in S |-> CHOOSE n \in Nat :
                         \E l \in Top(c).todo : NextLock(Top(c).todo, l) /\ n = l.key]
  <2>2. ASSUME NEW c \in S
        PROVE  key[c] \in Nat /\ \E l \in Top(c).todo : NextLock(Top(c).todo, l) /\ key[c] = l.key
    <3>1. PICK l \in Top(c).todo : NextLock(Top(c).todo, l)
      BY <2>1
    <3>2. l.key \in Nat
      BY <2>1 DEF Lock, Keys
    <3>3. \E n \in Nat : \E x \in Top(c).todo : NextLock(Top(c).todo, x) /\ n = x.key
      BY <3>1, <3>2
    <3> QED
      BY <3>3
  <2>3. key \in [S -> Nat]
    BY <2>2
  <2>4. IsFiniteSet(S) /\ S # {}
    BY BoundsAssumption, FS_Subset
  <2> HIDE DEF key
  <2>5. PICK c \in S : \A d \in S : key[d] <= key[c]
    BY <2>3, <2>4, GreatestKey
  <2>a. PICK l \in Top(c).todo, d \in S :
          NextLock(Top(c).todo, l) /\ \E m \in held[Top(d).tx] : l.key = m.key
    BY <2>1
  <2>6. PICK m \in held[Top(d).tx] : NextLock(Top(c).todo, l) /\ l.key = m.key
    BY <2>a
  <2>7. PICK x \in Top(c).todo : NextLock(Top(c).todo, x) /\ key[c] = x.key
    BY <2>2
  <2>8. key[c] = l.key
    <3>1. l.key \in Nat /\ x.key \in Nat /\ l.key <= x.key /\ x.key <= l.key
      BY <2>1, <2>6, <2>7 DEF NextLock, Lock, Keys
    <3> QED
      BY <2>7, <3>1
  <2>9. PICK y \in Top(d).todo : NextLock(Top(d).todo, y) /\ key[d] = y.key
    BY <2>2
  <2>10. m.key < y.key
    <3>1. Depth(d) > 0 /\ Top(d).todo # {} /\ d \in Callers
      BY <2>1
    <3>2. asks[Top(d).tx] = 1
      BY <1>1, <3>1, OneAsker
    <3>3. Depth(d) \in 1..Len(stack[d]) /\ Top(d) = stack[d][Depth(d)]
      BY <1>1, <3>1, Innermost
    <3>4. FrameInOrder(Top(d))
      BY <1>1, <3>1, <3>3 DEF AskInv, CallsAsk
    <3> QED
      BY <3>2, <3>4 DEF FrameInOrder
  <2>11. key[c] < key[d] /\ key[c] \in Nat /\ key[d] \in Nat
    BY <2>3, <2>6, <2>8, <2>9, <2>10
  <2> QED
    BY <2>5, <2>11
<1> QED
  BY <1>1, InitInv, NextInv, InitAsks, NextAsks, PTL DEF Spec
=============================================================================
