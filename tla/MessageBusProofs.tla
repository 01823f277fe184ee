-------------------------- MODULE MessageBusProofs --------------------------
(***************************************************************************)
(* Proofs about MessageBus for any number of callers, messages, types and  *)
(* topics, every length of a call and any number of faults.                *)
(*                                                                         *)
(* The invariant says how far every message of a call has come in every    *)
(* topic: which of its rows are in the storage, in the buffer of the       *)
(* transaction or consumed, as a function of the position of the loop of   *)
(* scheduleImpl.  A row that is inserted again is absorbed only as long as *)
(* the first one is there, which is why a message may be consumed once per *)
(* repetition of its type when the call has no transaction.                *)
(***************************************************************************)
EXTENDS MessageBus, FiniteSetTheorems, SequenceTheorems, TLAPS

(* The topics of a type are the ones it is registered for, each once.      *)
TopicsRegistered ==
    \A g \in Types :
        /\ \A t \in Topics :
               <<t, g>> \in producers
                   <=> \E p \in 1 .. Len(messageTopics[g]) : messageTopics[g][p] = t
        /\ \A p, q \in 1 .. Len(messageTopics[g]) : messageTopics[g][p] = messageTopics[g][q] => p = q

Present(m, t) == \E r \in rows : r.msg = m /\ r.topic = t
Buffered(c, m, t) == \E r \in buffer[c] : r.msg = m /\ r.topic = t

(* How often the message has come into the storage: a row is consumed or   *)
(* still there.                                                            *)
Count(m, t) == delivered[m][t] + IF Present(m, t) THEN 1 ELSE 0

Msg(c, k) == call[c].msgs[k]
TopicsAt(c, k) == messageTopics[TypeOf[Msg(c, k)]]
Repeats(c, k) == Cardinality(Occurrences(call[c].msgs, TypeOf[Msg(c, k)]))

OneRowPerKey(set) == \A r, s \in set : r.msg = s.msg /\ r.topic = s.topic => r = s

(* A call comes after the registration, and its loop is inside its bounds. *)
CallIsInOrder(c) ==
    LET ms == call[c].msgs
    IN  /\ call[c].state = "idle" => ms = <<>>
        /\ call[c].state # "idle" => toRegister = {}
        /\ call[c].state \in {"send", "nil"} => TypesKnown(ms)
        /\ \A j, k \in 1 .. Len(ms) : ms[j] = ms[k] => j = k
        /\ call[c].state = "send" =>
               /\ call[c].i >= 1
               /\ call[c].i <= Len(ms) =>
                      call[c].j \in 1 .. Repeats(c, call[c].i) * Len(TopicsAt(c, call[c].i))
        /\ \A r \in buffer[c] :
               /\ call[c].state = "send" /\ call[c].inTx /\ call[c].at <= r.at
               /\ \E k \in 1 .. Len(ms) : ms[k] = r.msg
        /\ OneRowPerKey(buffer[c])

CallsApart ==
    \A c, d \in Callers : c # d =>
        \A j \in 1 .. Len(call[c].msgs), k \in 1 .. Len(call[d].msgs) : call[c].msgs[j] # call[d].msgs[k]

StorageIsInOrder ==
    /\ OneRowPerKey(rows)
    /\ \A m \in Messages, t \in Topics : Count(m, t) > 0 => Sent(m)

(* A call of which nothing may be in the storage.                          *)
Silent(c) ==
    \/ call[c].state = "send" /\ call[c].inTx
    \/ call[c].state = "error" /\ (call[c].inTx \/ ~TypesKnown(call[c].msgs))

(* How far message k of the call has come in the topic t.                  *)
MessageIsOnItsWay(c, k, t) ==
    LET m == Msg(c, k)
        topics == TopicsAt(c, k)
        n == Count(m, t)
        sending == call[c].state = "send"
    IN  /\ n <= IF call[c].inTx THEN 1 ELSE Repeats(c, k)
        /\ Silent(c) \/ (sending /\ k > call[c].i) => n = 0
        /\ sending /\ k = call[c].i /\ n > 0 =>
               \E p \in 1 .. Len(topics) : topics[p] = t /\ p + (n - 1) * Len(topics) < call[c].j
        /\ t \in TopicsOf(m) /\ (call[c].state = "nil" \/ (sending /\ k < call[c].i))
               => n > 0 \/ (sending /\ Buffered(c, m, t))
        /\ sending /\ k = call[c].i =>
               \A p \in 1 .. Len(topics) : p < call[c].j /\ topics[p] = t => n > 0 \/ Buffered(c, m, t)
        /\ \A r \in rows : r.msg = m => call[c].at <= r.at
        /\ delivered[m][t] > 0 => call[c].at <= clock

BusInv ==
    /\ TypeOK /\ TopicsRegistered /\ CallsApart /\ StorageIsInOrder
    /\ \A c \in Callers : CallIsInOrder(c)
    /\ \A c \in Callers : \A k \in 1 .. Len(call[c].msgs) : \A t \in Topics : MessageIsOnItsWay(c, k, t)

-----------------------------------------------------------------------------
LEMMA CountIsNat ==
    ASSUME TypeOK, NEW m \in Messages, NEW t \in Topics
    PROVE  /\ delivered[m][t] \in Nat /\ Count(m, t) \in Nat
           /\ Reached(m, t) <=> Count(m, t) > 0
           /\ Present(m, t) => Count(m, t) = delivered[m][t] + 1
           /\ ~Present(m, t) => Count(m, t) = delivered[m][t]
<1>1. delivered[m][t] \in Nat
  BY DEF TypeOK
<1> QED
  BY <1>1 DEF Count, Present, Reached

LEMMA CallTypes ==
    ASSUME TypeOK, NEW c \in Callers
    PROVE  /\ call[c].state \in {"idle", "send", "nil", "error"} /\ call[c].msgs \in Seq(Messages)
           /\ call[c].i \in Nat /\ call[c].j \in Nat /\ call[c].inTx \in BOOLEAN
           /\ call[c].at \in Now .. MaxTime
           /\ Len(call[c].msgs) \in Nat /\ DOMAIN call[c].msgs = 1 .. Len(call[c].msgs)
           /\ \A k \in 1 .. Len(call[c].msgs) :
                  /\ Msg(c, k) \in Messages /\ TypeOf[Msg(c, k)] \in Types
                  /\ TopicsAt(c, k) \in Seq(Topics) /\ Len(TopicsAt(c, k)) \in Nat
                  /\ DOMAIN TopicsAt(c, k) = 1 .. Len(TopicsAt(c, k))
<1>1. call[c] \in [state : {"idle", "send", "nil", "error"}, msgs : Seq(Messages),
                   i : Nat, j : Nat, inTx : BOOLEAN, at : Now .. MaxTime]
  BY DEF TypeOK
<1>2. /\ call[c].msgs \in Seq(Messages)
      /\ Len(call[c].msgs) \in Nat /\ DOMAIN call[c].msgs = 1 .. Len(call[c].msgs)
  BY <1>1
<1>3. ASSUME NEW k \in 1 .. Len(call[c].msgs)
      PROVE  /\ Msg(c, k) \in Messages /\ TypeOf[Msg(c, k)] \in Types
             /\ TopicsAt(c, k) \in Seq(Topics) /\ Len(TopicsAt(c, k)) \in Nat
             /\ DOMAIN TopicsAt(c, k) = 1 .. Len(TopicsAt(c, k))
  <2>1. Msg(c, k) \in Messages
    BY <1>2 DEF Msg
  <2>2. TypeOf[Msg(c, k)] \in Types
    BY <2>1, TypesAssumption
  <2>3. TopicsAt(c, k) \in Seq(Topics)
    BY <2>2 DEF TopicsAt, TypeOK
  <2> QED
    BY <2>1, <2>2, <2>3
<1> QED
  BY <1>1, <1>2, <1>3

LEMMA OccurrencesPositive ==
    ASSUME NEW ms \in Seq(Messages), NEW k \in 1 .. Len(ms)
    PROVE  /\ Cardinality(Occurrences(ms, TypeOf[ms[k]])) \in Nat
           /\ Cardinality(Occurrences(ms, TypeOf[ms[k]])) >= 1
<1> DEFINE S == Occurrences(ms, TypeOf[ms[k]])
<1>1. S \subseteq 1 .. Len(ms) /\ k \in S /\ 1 \in Int /\ Len(ms) \in Int
  BY DEF Occurrences
<1>2. IsFiniteSet(1 .. Len(ms))
  BY <1>1, FS_Interval
<1>3. IsFiniteSet(S)
  BY <1>1, <1>2, FS_Subset
<1>4. Cardinality(S) \in Nat /\ Cardinality(S) # 0
  BY <1>1, <1>3, FS_CardinalityType, FS_EmptySet
<1> QED
  BY <1>4

LEMMA RepeatsPositive ==
    ASSUME TypeOK, NEW c \in Callers, NEW k \in 1 .. Len(call[c].msgs)
    PROVE  Repeats(c, k) \in Nat /\ Repeats(c, k) >= 1
  BY CallTypes, OccurrencesPositive DEF Repeats, Msg

LEMMA ProductPositive ==
    ASSUME NEW a \in Nat, NEW b \in Nat, a >= 1, b >= 1
    PROVE  a * b \in Nat /\ a * b >= b
  OBVIOUS

LEMMA CountSame ==
    ASSUME NEW m, NEW t, delivered'[m][t] = delivered[m][t],
           \A r \in rows \union rows' : r.msg = m /\ r.topic = t => (r \in rows' <=> r \in rows)
    PROVE  Count(m, t)' = Count(m, t)
<1>1. Present(m, t)' <=> Present(m, t)
  BY DEF Present
<1> QED
  BY <1>1 DEF Count

(* A message of a call that a step leaves alone.                           *)
LEMMA MessageKept ==
    ASSUME NEW c \in Callers, NEW k, NEW t, MessageIsOnItsWay(c, k, t),
           call'[c] = call[c], buffer'[c] = buffer[c], UNCHANGED <<producers, messageTopics>>,
           Count(Msg(c, k), t)' = Count(Msg(c, k), t),
           \A r \in rows' : r.msg = Msg(c, k) => call[c].at <= r.at,
           delivered'[Msg(c, k)][t] > 0 => call[c].at <= clock'
    PROVE  MessageIsOnItsWay(c, k, t)'
<1>1. /\ Msg(c, k)' = Msg(c, k) /\ TopicsAt(c, k)' = TopicsAt(c, k) /\ Repeats(c, k)' = Repeats(c, k)
      /\ Silent(c)' = Silent(c) /\ TopicsOf(Msg(c, k))' = TopicsOf(Msg(c, k))
      /\ Buffered(c, Msg(c, k), t)' = Buffered(c, Msg(c, k), t)
  BY DEF Msg, TopicsAt, Repeats, Silent, TypesKnown, TopicsOf, Buffered, Occurrences
<1> QED
  BY <1>1 DEF MessageIsOnItsWay

LEMMA CallKept ==
    ASSUME NEW c \in Callers, CallIsInOrder(c), call'[c] = call[c], buffer'[c] = buffer[c],
           UNCHANGED messageTopics, toRegister' \subseteq toRegister
    PROVE  CallIsInOrder(c)'
  BY DEF CallIsInOrder, TypesKnown, Repeats, Occurrences, TopicsAt, Msg, OneRowPerKey
-----------------------------------------------------------------------------
LEMMA Rounds ==
    ASSUME NEW a \in Nat, NEW n \in Nat, n >= 1
    PROVE  /\ a % n \in 0 .. n - 1
           /\ \E q \in Nat : a = q * n + (a % n)
           /\ a < n => a % n = a
<1>1. a % n \in 0 .. n - 1
  OBVIOUS
<1>2. \E q \in Nat : a = q * n + (a % n)
  <2>1. a \div n \in Nat
    OBVIOUS
  <2>2. a = (a \div n) * n + (a % n)
    OBVIOUS
  <2> QED
    BY <2>1, <2>2
<1>3. a < n => a % n = a
  OBVIOUS
<1> QED
  BY <1>1, <1>2, <1>3

(* The row of the next produce.                                            *)
NextRow(c) ==
    [msg |-> Msg(c, call[c].i), topic |-> TopicAt(TypeOf[Msg(c, call[c].i)], call[c].j),
     at |-> ScheduledAt(c)]

(* The next topic is one of the type; the loop comes to it once in every   *)
(* round over the topics.                                                  *)
LEMMA NextRowIsInOrder ==
    ASSUME BusInv, NEW c \in Callers, call[c].state = "send", call[c].i <= Len(call[c].msgs)
    PROVE  /\ call[c].i \in 1 .. Len(call[c].msgs) /\ NextRow(c) \in Row
           /\ call[c].at <= ScheduledAt(c)
           /\ Len(TopicsAt(c, call[c].i)) >= 1
           /\ \E p \in 1 .. Len(TopicsAt(c, call[c].i)), q \in Nat :
                  /\ TopicsAt(c, call[c].i)[p] = NextRow(c).topic
                  /\ call[c].j = p + q * Len(TopicsAt(c, call[c].i))
                  /\ call[c].j <= Len(TopicsAt(c, call[c].i)) => p = call[c].j
<1> DEFINE k == call[c].i
           topics == TopicsAt(c, k)
           n == Len(topics)
           j == call[c].j
           p == ((j - 1) % n) + 1
<1>1. TypeOK /\ CallIsInOrder(c)
  BY DEF BusInv
<1>2. k \in 1 .. Len(call[c].msgs) /\ j \in Nat /\ j >= 1
  BY <1>1, CallTypes DEF CallIsInOrder
<1>3. Msg(c, k) \in Messages /\ topics \in Seq(Topics) /\ n \in Nat /\ k \in DOMAIN call[c].msgs
  BY <1>1, <1>2, CallTypes
<1>4. topics # <<>>
  BY <1>1, <1>2, <1>3 DEF CallIsInOrder, TypesKnown, TopicsAt, Msg
<1>5. n >= 1
  BY <1>3, <1>4
<1> HIDE DEF topics, n, k, j
<1>6. p \in 1 .. n /\ (\E q \in Nat : j - 1 = q * n + ((j - 1) % n)) /\ (j <= n => p = j)
  <2>1. j - 1 \in Nat
    BY <1>2
  <2>2. /\ (j - 1) % n \in 0 .. n - 1 /\ \E q \in Nat : j - 1 = q * n + ((j - 1) % n)
        /\ j - 1 < n => (j - 1) % n = j - 1
    BY <1>3, <1>5, <2>1, Rounds
  <2> DEFINE x == (j - 1) % n
  <2> HIDE DEF x
  <2>3. x \in 0 .. n - 1 /\ (j - 1 < n => x = j - 1) /\ \E q \in Nat : j - 1 = q * n + x
    BY <2>2 DEF x
  <2>4. x + 1 \in 1 .. n /\ (j <= n => x + 1 = j)
    BY <1>2, <1>3, <2>3
  <2> QED
    BY <2>2, <2>4 DEF x
<1>7. PICK q \in Nat : j - 1 = q * n + ((j - 1) % n)
  BY <1>6
<1>8. j = p + q * n
  <2> DEFINE x == (j - 1) % n
             y == q * n
  <2>1. j - 1 \in Nat
    BY <1>2
  <2>2. /\ (j - 1) % n \in 0 .. n - 1 /\ \E r \in Nat : j - 1 = r * n + ((j - 1) % n)
        /\ j - 1 < n => (j - 1) % n = j - 1
    BY <1>3, <1>5, <2>1, Rounds
  <2>3. y \in Int
    BY <1>3
  <2> HIDE DEF x, y
  <2>4. x \in 0 .. n - 1
    BY <2>2 DEF x
  <2>5. j - 1 = y + x
    BY <1>7 DEF x, y
  <2>6. j = (x + 1) + y
    BY <1>2, <1>3, <2>5, <2>3, <2>4
  <2> QED
    BY <2>6 DEF x, y
<1>9. NextRow(c).topic = topics[p]
  BY DEF NextRow, TopicAt, topics, n, j, k, TopicsAt
<1>10. topics[p] \in Topics
  BY <1>3, <1>6 DEF n
<1>11. ScheduledAt(c) \in 0 .. MaxTime /\ call[c].at <= ScheduledAt(c)
  BY <1>1, CallTypes, BoundsAssumption DEF ScheduledAt, TypeOK, Now
<1>12. NextRow(c) \in Row
  BY <1>3, <1>9, <1>10, <1>11 DEF NextRow, Row, k
<1> QED
  BY <1>2, <1>5, <1>6, <1>8, <1>9, <1>11, <1>12 DEF k, topics, n, j

LEMMA InsertType ==
    ASSUME NEW set \in SUBSET Row, NEW row \in Row, NEW others
    PROVE  /\ Insert(set, row, others) \in SUBSET Row
           /\ Insert(set, row, others) \in {set, set \union {row}}
  BY DEF Insert

LEMMA SendIs ==
    ASSUME NEW c \in Callers, Send(c)
    PROVE  /\ call[c].state = "send" /\ call[c].i <= Len(call[c].msgs)
           /\ Store(c, NextRow(c))
           /\ call' = IF call[c].j < Repeats(c, call[c].i) * Len(TopicsAt(c, call[c].i))
                      THEN [call EXCEPT ![c].j = @ + 1]
                      ELSE [call EXCEPT ![c].i = @ + 1, ![c].j = 1]
           /\ UNCHANGED <<registerVars, listenVars, consumeVars, clock, faults>>
  BY DEF Send, NextRow, Repeats, TopicsAt, Msg, TopicCount

CallRecord == [state : {"idle", "send", "nil", "error"}, msgs : Seq(Messages),
               i : Nat, j : Nat, inTx : BOOLEAN, at : Now .. MaxTime]

LEMMA TypesKept ==
    ASSUME BusInv, Next
    PROVE  TypeOK'
<1> USE DEF registerVars, listenVars, consumeVars
<1>0. TypeOK
  BY DEF BusInv
<1>1. ASSUME NEW pair \in toRegister, RegisterImpl(pair[1], pair[2])
      PROVE  TypeOK'
  <2>1. pair[1] \in Topics /\ pair[2] \in Types /\ pair = <<pair[1], pair[2]>>
    BY <1>0 DEF TypeOK
  <2>2. Append(messageTopics[pair[2]], pair[1]) \in Seq(Topics)
    BY <1>0, <2>1 DEF TypeOK
  <2> QED
    BY <1>0, <1>1, <2>1, <2>2 DEF RegisterImpl, AppendTopic, TypeOK
<1>2. ASSUME NEW pair \in toSubscribe, RegisterTopicHandlers(pair[1], pair[2])
      PROVE  TypeOK'
  BY <1>0, <1>2 DEF RegisterTopicHandlers, TypeOK
<1>3. ASSUME NEW c \in Callers, Send(c)
      PROVE  TypeOK'
  <2>1. NextRow(c) \in Row
    BY <1>3, SendIs, NextRowIsInOrder
  <2>2. rows' \subseteq Row /\ buffer' \in [Callers -> SUBSET Row]
    <3>1. /\ Insert(rows, NextRow(c), {}) \in SUBSET Row
          /\ Insert(buffer[c], NextRow(c), rows) \in SUBSET Row
      BY <1>0, <2>1, InsertType DEF TypeOK
    <3> QED
      BY <1>0, <1>3, <3>1, SendIs DEF Store, TypeOK
  <2>3. call' \in [Callers -> [state : {"idle", "send", "nil", "error"}, msgs : Seq(Messages),
                               i : Nat, j : Nat, inTx : BOOLEAN, at : Now .. MaxTime]]
    <3>1. call[c] \in CallRecord /\ call \in [Callers -> CallRecord]
      BY <1>0 DEF TypeOK, CallRecord
    <3>5. call[c].j + 1 \in Nat /\ call[c].i + 1 \in Nat
      BY <1>0, CallTypes
    <3>2. [call[c] EXCEPT !.j = @ + 1] \in CallRecord
      BY <3>1, <3>5 DEF CallRecord
    <3>4. [call[c] EXCEPT !.i = @ + 1, !.j = 1] \in CallRecord
      <4>1. [call[c] EXCEPT !.i = @ + 1] \in CallRecord
        BY <3>1, <3>5 DEF CallRecord
      <4>2. [[call[c] EXCEPT !.i = @ + 1] EXCEPT !.j = 1] \in CallRecord
        BY <4>1 DEF CallRecord
      <4> QED
        BY <3>1, <4>2 DEF CallRecord
    <3>3. \/ call' = [call EXCEPT ![c] = [call[c] EXCEPT !.j = @ + 1]]
          \/ call' = [call EXCEPT ![c] = [call[c] EXCEPT !.i = @ + 1, !.j = 1]]
      BY <1>3, <3>1, SendIs
    <3> QED
      BY <3>1, <3>2, <3>3, <3>4 DEF CallRecord
  <2> QED
    BY <1>0, <1>3, <2>2, <2>3, SendIs DEF TypeOK
<1>4. ASSUME NEW c \in Callers, Return(c)
      PROVE  TypeOK'
  BY <1>0, <1>4 DEF Return, TypeOK
<1>5. ASSUME NEW c \in Callers, SendFails(c)
      PROVE  TypeOK'
  <2>1. faults' \in 0 .. MaxFaults
    BY <1>0, <1>5, BoundsAssumption DEF SendFails, TypeOK
  <2>2. call' \in [Callers -> CallRecord]
    <3>1. call[c] \in CallRecord /\ call \in [Callers -> CallRecord]
      BY <1>0 DEF TypeOK, CallRecord
    <3>2. [call[c] EXCEPT !.state = "error"] \in CallRecord
      BY <3>1 DEF CallRecord
    <3>3. call' = [call EXCEPT ![c] = [call[c] EXCEPT !.state = "error"]]
      BY <1>5, <3>1 DEF SendFails
    <3> QED
      BY <3>1, <3>2, <3>3
  <2> QED
    BY <1>0, <1>5, <2>1, <2>2 DEF SendFails, TypeOK, CallRecord
<1>6. ASSUME NEW c \in Callers, NEW ms \in CallMessages, NEW inTx \in BOOLEAN,
             NEW at \in Now .. MaxTime, Produce(c, ms, inTx, at)
      PROVE  TypeOK'
  BY <1>0, <1>6, ListsAssumption DEF Produce, TypeOK
<1>7. ASSUME NEW r \in rows, Consume(r)
      PROVE  TypeOK'
  <2>1. r.msg \in Messages /\ r.topic \in Topics
    BY <1>0 DEF TypeOK, Row
  <2>2. delivered' \in [Messages -> [Topics -> Nat]]
    BY <1>0, <1>7, <2>1 DEF Consume, TypeOK
  <2> QED
    BY <1>0, <1>7, <2>1, <2>2 DEF Consume, TypeOK
<1>8. CASE Tick
  BY <1>0, <1>8, BoundsAssumption DEF Tick, TypeOK
<1>9. 0 .. MaxTime \subseteq Now .. MaxTime /\ Now \in Now .. MaxTime
  BY BoundsAssumption DEF Now
<1> QED
  BY <1>1, <1>2, <1>3, <1>4, <1>5, <1>6, <1>7, <1>8, <1>9 DEF Next, Step, Dispatch, Schedule
-----------------------------------------------------------------------------
(* A call of Register: nothing has been produced yet.                      *)
LEMMA RegisterStep ==
    ASSUME BusInv, TypeOK', NEW pair \in toRegister, RegisterImpl(pair[1], pair[2])
    PROVE  BusInv'
<1> DEFINE t0 == pair[1]
           g0 == pair[2]
<1>1. TypeOK /\ pair = <<t0, g0>> /\ t0 \in Topics /\ g0 \in Types
  BY DEF BusInv, TypeOK
<1>2. UNCHANGED <<call, buffer, rows, delivered, clock>>
  BY DEF RegisterImpl, consumeVars
<1>3. \A c \in Callers : call[c].state = "idle" /\ call[c].msgs = <<>> /\ buffer[c] = {}
  <2> SUFFICES ASSUME NEW c \in Callers
               PROVE  call[c].state = "idle" /\ call[c].msgs = <<>> /\ buffer[c] = {}
    OBVIOUS
  <2>1. CallIsInOrder(c) /\ toRegister # {}
    BY DEF BusInv
  <2> QED
    BY <2>1 DEF CallIsInOrder
<1>4. TopicsRegistered'
  <2>1. CASE UNCHANGED <<producers, messageTopics>>
    BY <2>1 DEF BusInv, TopicsRegistered
  <2>2. CASE /\ TypeName[g0] \notin TopicMessages(t0)
             /\ producers' = producers \union {<<t0, g0>>} /\ AppendTopic(g0, t0)
    <3>1. <<t0, g0>> \notin producers
      BY <1>1, <2>2 DEF TopicMessages
    <3> SUFFICES ASSUME NEW g \in Types
                 PROVE  /\ \A t \in Topics :
                               <<t, g>> \in producers'
                                   <=> \E p \in 1 .. Len(messageTopics'[g]) : messageTopics'[g][p] = t
                        /\ \A p, q \in 1 .. Len(messageTopics'[g]) :
                               messageTopics'[g][p] = messageTopics'[g][q] => p = q
      BY DEF TopicsRegistered
    <3>2. /\ \A t \in Topics :
                 <<t, g>> \in producers
                     <=> \E p \in 1 .. Len(messageTopics[g]) : messageTopics[g][p] = t
          /\ \A p, q \in 1 .. Len(messageTopics[g]) : messageTopics[g][p] = messageTopics[g][q] => p = q
      BY DEF BusInv, TopicsRegistered
    <3>3. messageTopics[g] \in Seq(Topics)
      BY <1>1 DEF TypeOK
    <3>4. CASE g # g0
      <4>1. /\ messageTopics'[g] = messageTopics[g]
            /\ \A t \in Topics : <<t, g>> \in producers' <=> <<t, g>> \in producers
        BY <1>1, <2>2, <3>4 DEF AppendTopic, TypeOK
      <4> QED
        BY <3>2, <4>1
    <3>5. CASE g = g0
      <4>1. messageTopics'[g] = Append(messageTopics[g], t0)
        BY <1>1, <2>2, <3>5 DEF AppendTopic, TypeOK
      <4> DEFINE n == Len(messageTopics[g])
      <4>2. /\ n \in Nat /\ Len(messageTopics'[g]) = n + 1 /\ messageTopics'[g][n + 1] = t0
            /\ \A p \in 1 .. n : messageTopics'[g][p] = messageTopics[g][p]
        BY <1>1, <3>3, <4>1
      <4>3. \A p \in 1 .. n : messageTopics[g][p] # t0
        BY <1>1, <3>1, <3>2, <3>5
      <4>4. \A t \in Topics : <<t, g>> \in producers' <=> (<<t, g>> \in producers \/ t = t0)
        BY <1>1, <2>2, <3>5
      <4> HIDE DEF n
      <4>5. 1 .. n + 1 = (1 .. n) \union {n + 1}
        BY <4>2
      <4>6. \A p, q \in 1 .. n + 1 : messageTopics'[g][p] = messageTopics'[g][q] => p = q
        BY <3>2, <4>2, <4>3, <4>5 DEF n
      <4>7. \A t \in Topics : <<t, g>> \in producers' <=> \E p \in 1 .. n + 1 : messageTopics'[g][p] = t
        BY <3>2, <4>2, <4>4, <4>5 DEF n
      <4> QED
        BY <4>2, <4>6, <4>7
    <3> QED
      BY <3>4, <3>5
  <2> QED
    BY <2>1, <2>2 DEF RegisterImpl
<1>5. StorageIsInOrder' /\ CallsApart'
  BY <1>2 DEF BusInv, StorageIsInOrder, OneRowPerKey, Count, Present, Sent, CallsApart
<1>6. \A c \in Callers : CallIsInOrder(c)'
  BY <1>2, <1>3 DEF CallIsInOrder, OneRowPerKey
<1>7. \A c \in Callers : 1 .. Len(call'[c].msgs) = {}
  BY <1>2, <1>3
<1> QED
  BY <1>4, <1>5, <1>6, <1>7 DEF BusInv

(* Steps that change nothing of the messages, and time passing.            *)
LEMMA QuietStep ==
    ASSUME BusInv, TypeOK', UNCHANGED <<registerVars, call, buffer, rows, delivered>>, clock <= clock'
    PROVE  BusInv'
<1> USE DEF registerVars
<1>1. TopicsRegistered' /\ CallsApart' /\ StorageIsInOrder'
  BY DEF BusInv, TopicsRegistered, CallsApart, StorageIsInOrder, OneRowPerKey, Count, Present, Sent
<1>2. ASSUME NEW c \in Callers
      PROVE  CallIsInOrder(c)'
  BY CallKept DEF BusInv
<1>3. ASSUME NEW c \in Callers, NEW k \in 1 .. Len(call[c].msgs), NEW t \in Topics
      PROVE  MessageIsOnItsWay(c, k, t)'
  <2>1. MessageIsOnItsWay(c, k, t) /\ TypeOK
    BY DEF BusInv
  <2>2. Count(Msg(c, k), t)' = Count(Msg(c, k), t)
    BY DEF Count, Present, Msg
  <2>3. \A r \in rows : r.msg = Msg(c, k) => call[c].at <= r.at
    BY <2>1 DEF MessageIsOnItsWay
  <2>4. delivered[Msg(c, k)][t] > 0 => call[c].at <= clock
    BY <2>1 DEF MessageIsOnItsWay
  <2>5. clock \in Int /\ clock' \in Int /\ call[c].at \in Int
    BY <2>1, CallTypes, BoundsAssumption DEF TypeOK, Now
  <2> QED
    BY <2>1, <2>2, <2>3, <2>4, <2>5, MessageKept
<1> QED
  BY <1>1, <1>2, <1>3 DEF BusInv

(* A new call: nothing of its messages is in the storage.                  *)
LEMMA ProduceStep ==
    ASSUME BusInv, TypeOK', NEW c \in Callers, NEW ms \in CallMessages, NEW inTx \in BOOLEAN,
           NEW at \in Now .. MaxTime, Produce(c, ms, inTx, at)
    PROVE  BusInv'
<1> USE DEF registerVars, consumeVars
<1>1. /\ TypeOK /\ CallIsInOrder(c) /\ call[c].state = "idle" /\ call[c].msgs = <<>> /\ toRegister = {}
      /\ \A k \in DOMAIN ms : ~Sent(ms[k])
      /\ UNCHANGED <<toRegister, producers, messageTopics, buffer, rows, delivered, clock>>
  BY DEF BusInv, Produce, CallIsInOrder
<1>2. /\ call'[c] = [state |-> IF TypesKnown(ms) THEN "send" ELSE "error",
                     msgs |-> ms, i |-> 1, j |-> 1, inTx |-> inTx, at |-> at]
      /\ \A d \in Callers : d # c => call'[d] = call[d]
  BY <1>1 DEF Produce, TypeOK
<1>3. /\ ms \in Seq(Messages) /\ Len(ms) \in Nat /\ DOMAIN ms = 1 .. Len(ms)
      /\ \A j, k \in 1 .. Len(ms) : ms[j] = ms[k] => j = k
  BY ListsAssumption
<1>4. buffer[c] = {}
  BY <1>1 DEF CallIsInOrder
<1>5. \A m : Sent(m) => Sent(m)'
  BY <1>1, <1>2 DEF Sent
<1>6. TopicsRegistered'
  BY <1>1 DEF BusInv, TopicsRegistered
<1>7. CallsApart'
  <2>1. ASSUME NEW d \in Callers, d # c, NEW j \in 1 .. Len(ms), NEW k \in 1 .. Len(call[d].msgs)
        PROVE  ms[j] # call[d].msgs[k]
    BY <1>1, <1>3, <2>1, CallTypes DEF Sent
  <2> QED
    BY <1>2, <2>1 DEF BusInv, CallsApart
<1>8. StorageIsInOrder'
  <2>1. \A m \in Messages, t \in Topics : Count(m, t)' = Count(m, t)
    BY <1>1 DEF Count, Present
  <2> QED
    BY <1>1, <1>5, <2>1 DEF BusInv, StorageIsInOrder, OneRowPerKey
<1>9. ASSUME NEW d \in Callers
      PROVE  CallIsInOrder(d)'
  <2>1. CASE d # c
    BY <1>1, <1>2, <2>1, CallKept DEF BusInv
  <2>2. CASE d = c
    <3>1. call'[c].state = "send" => TypesKnown(ms)' /\ TypesKnown(ms)
      BY <1>1, <1>2 DEF TypesKnown
    <3>2. call'[c].state = "send" /\ 1 <= Len(ms)
              => 1 \in 1 .. Repeats(c, 1)' * Len(TopicsAt(c, 1)')
      <4> SUFFICES ASSUME TypesKnown(ms), 1 <= Len(ms)
                   PROVE  1 \in 1 .. Repeats(c, 1)' * Len(TopicsAt(c, 1)')
        BY <3>1
      <4>1. TopicsAt(c, 1)' = messageTopics[TypeOf[ms[1]]]
        BY <1>1, <1>2 DEF TopicsAt, Msg
      <4>2. messageTopics[TypeOf[ms[1]]] # <<>> /\ messageTopics[TypeOf[ms[1]]] \in Seq(Topics)
        <5>1. 1 \in DOMAIN ms /\ ms[1] \in Messages
          BY <1>3
        <5>2. messageTopics[TypeOf[ms[1]]] # <<>>
          BY <5>1 DEF TypesKnown
        <5>3. TypeOf[ms[1]] \in Types
          BY <5>1, TypesAssumption
        <5> QED
          BY <1>1, <5>2, <5>3 DEF TypeOK
      <4>3. Len(TopicsAt(c, 1)') \in Nat /\ Len(TopicsAt(c, 1)') >= 1
        BY <4>1, <4>2
      <4>4. Repeats(c, 1)' \in Nat /\ Repeats(c, 1)' >= 1
        BY <1>2, <1>3, OccurrencesPositive DEF Repeats, Msg
      <4>5. Repeats(c, 1)' * Len(TopicsAt(c, 1)') >= 1 /\ Repeats(c, 1)' * Len(TopicsAt(c, 1)') \in Nat
        BY <4>3, <4>4, ProductPositive
      <4> QED
        BY <4>5
    <3> QED
      BY <1>1, <1>2, <1>3, <1>4, <2>2, <3>1, <3>2 DEF CallIsInOrder, OneRowPerKey
  <2> QED
    BY <2>1, <2>2
<1>10. ASSUME NEW d \in Callers, NEW k \in 1 .. Len(call'[d].msgs), NEW t \in Topics
       PROVE  MessageIsOnItsWay(d, k, t)'
  <2>1. CASE d # c
    <3>1. MessageIsOnItsWay(d, k, t) /\ call'[d] = call[d]
      BY <1>2, <2>1 DEF BusInv
    <3>2. Count(Msg(d, k), t)' = Count(Msg(d, k), t)
      BY <1>1, <3>1 DEF Count, Present, Msg
    <3>3. /\ \A r \in rows : r.msg = Msg(d, k) => call[d].at <= r.at
          /\ delivered[Msg(d, k)][t] > 0 => call[d].at <= clock
      BY <3>1 DEF MessageIsOnItsWay
    <3> QED
      BY <1>1, <3>1, <3>2, <3>3, MessageKept
  <2>2. CASE d = c
    <3>1. Msg(c, k)' = ms[k] /\ ms[k] \in Messages /\ ~Sent(ms[k])
      BY <1>1, <1>2, <1>3, <2>2 DEF Msg
    <3>2. Count(ms[k], t) = 0 /\ delivered[ms[k]][t] = 0 /\ ~Present(ms[k], t)
      BY <1>1, <3>1, CountIsNat DEF BusInv, StorageIsInOrder
    <3>3. \A r \in rows : r.msg # ms[k]
      <4> SUFFICES ASSUME NEW r \in rows, r.msg = ms[k]
                   PROVE  FALSE
        OBVIOUS
      <4>1. r.topic \in Topics /\ Present(ms[k], r.topic)
        BY <1>1 DEF TypeOK, Row, Present
      <4>2. Count(ms[k], r.topic) > 0
        BY <1>1, <3>1, <4>1, CountIsNat
      <4> QED
        BY <3>1, <4>1, <4>2 DEF BusInv, StorageIsInOrder
    <3>4. Count(Msg(c, k), t)' = 0
      BY <1>1, <3>1, <3>2 DEF Count, Present
    <3>5. Repeats(c, k)' \in Nat /\ Repeats(c, k)' >= 1
      BY <1>2, <1>3, <2>2, OccurrencesPositive DEF Repeats, Msg
    <3> QED
      BY <1>1, <1>2, <1>3, <2>2, <3>1, <3>2, <3>3, <3>4, <3>5, SMTT(60) DEF MessageIsOnItsWay
  <2> QED
    BY <2>1, <2>2
<1> QED
  BY <1>6, <1>7, <1>8, <1>9, <1>10 DEF BusInv
-----------------------------------------------------------------------------
(* The n + 1st insert of a topic comes a round after the nth.              *)
LEMMA NextRound ==
    ASSUME NEW p \in Nat, NEW q \in Nat, NEW n \in Nat, NEW len \in Nat, len >= 1,
           n > 0 => p + (n - 1) * len < p + q * len
    PROVE  p + n * len <= p + q * len
<1>1. n <= q
  <2> SUFFICES ASSUME q < n
               PROVE  FALSE
    OBVIOUS
  <2>1. q <= n - 1 /\ n - 1 \in Nat
    OBVIOUS
  <2>2. q * len <= (n - 1) * len
    BY <2>1
  <2>3. q * len \in Nat /\ (n - 1) * len \in Nat /\ n > 0
    BY <2>1
  <2> QED
    BY <2>2, <2>3
<1>2. n * len <= q * len
  BY <1>1
<1>3. n * len \in Nat /\ q * len \in Nat
  OBVIOUS
<1> QED
  BY <1>2, <1>3

(* As many rounds as there are messages of the type.                       *)
LEMMA LastRound ==
    ASSUME NEW p \in Nat, NEW n \in Nat, NEW len \in Nat, NEW repeats \in Nat, p >= 1, n > 0,
           p + (n - 1) * len <= repeats * len
    PROVE  n <= repeats
<1> SUFFICES ASSUME repeats < n
             PROVE  FALSE
  OBVIOUS
<1>1. repeats <= n - 1 /\ n - 1 \in Nat
  OBVIOUS
<1>2. repeats * len <= (n - 1) * len
  BY <1>1
<1>3. repeats * len \in Nat /\ (n - 1) * len \in Nat
  BY <1>1
<1> QED
  BY <1>2, <1>3

LEMMA InsertKeepsKeys ==
    ASSUME NEW set, NEW row, NEW others, OneRowPerKey(set)
    PROVE  OneRowPerKey(Insert(set, row, others))
  BY DEF OneRowPerKey, Insert

(* What a produce does to the storage and to the transaction.              *)
LEMMA SendEffect ==
    ASSUME BusInv, TypeOK', NEW c \in Callers, Send(c), NEW row, row = NextRow(c)
    PROVE  /\ \A m \in Messages, t \in Topics :
                  m # row.msg \/ t # row.topic \/ call[c].inTx => Count(m, t)' = Count(m, t)
           /\ Count(row.msg, row.topic)' \in {Count(row.msg, row.topic), Count(row.msg, row.topic) + 1}
           /\ Count(row.msg, row.topic)' > 0 \/ Buffered(c, row.msg, row.topic)'
           /\ \A m \in Messages, t \in Topics : Buffered(c, m, t) => Buffered(c, m, t)'
           /\ \A d \in Callers : d # c => buffer'[d] = buffer[d]
           /\ \A r \in rows' : r \in rows \/ r = row
           /\ \A r \in buffer'[c] : r \in buffer[c] \/ (r = row /\ call[c].inTx)
           /\ OneRowPerKey(rows') /\ OneRowPerKey(buffer'[c])
<1>1. TypeOK /\ CallIsInOrder(c) /\ OneRowPerKey(rows) /\ OneRowPerKey(buffer[c])
  BY DEF BusInv, CallIsInOrder, StorageIsInOrder
<1>2. row \in Row /\ row.msg \in Messages /\ row.topic \in Topics
  BY SendIs, NextRowIsInOrder DEF Row
<1>3. Store(c, row) /\ UNCHANGED delivered
  BY SendIs DEF consumeVars
<1>4. CASE call[c].inTx
  <2>1. UNCHANGED rows /\ buffer' = [buffer EXCEPT ![c] = Insert(@, row, rows)]
    BY <1>3, <1>4 DEF Store
  <2>2. buffer'[c] = Insert(buffer[c], row, rows) /\ \A d \in Callers : d # c => buffer'[d] = buffer[d]
    BY <1>1, <2>1 DEF TypeOK
  <2>3. \A m \in Messages, t \in Topics : Count(m, t)' = Count(m, t)
    BY <1>3, <2>1, CountSame
  <2>4. Buffered(c, row.msg, row.topic)' \/ Present(row.msg, row.topic)
    BY <2>2 DEF Insert, Buffered, Present
  <2>5. Count(row.msg, row.topic)' > 0 \/ Buffered(c, row.msg, row.topic)'
    BY <1>1, <1>2, <2>3, <2>4, CountIsNat
  <2>6. OneRowPerKey(buffer'[c])
    BY <1>1, <2>2, InsertKeepsKeys
  <2>7. /\ \A m \in Messages, t \in Topics : Buffered(c, m, t) => Buffered(c, m, t)'
        /\ \A r \in buffer'[c] : r \in buffer[c] \/ r = row
    BY <2>2 DEF Buffered, Insert
  <2>8. Count(row.msg, row.topic)' = Count(row.msg, row.topic)
    BY <1>2, <2>3
  <2> QED
    BY <1>1, <1>4, <2>1, <2>2, <2>3, <2>5, <2>6, <2>7, <2>8
<1>5. CASE ~call[c].inTx
  <2>1. UNCHANGED buffer /\ rows' = Insert(rows, row, {})
    BY <1>3, <1>5 DEF Store
  <2>2. OneRowPerKey(rows')
    BY <1>1, <2>1, InsertKeepsKeys
  <2>3. \A r \in rows \union rows' : r # row => (r \in rows' <=> r \in rows)
    BY <2>1 DEF Insert
  <2>4. ASSUME NEW m \in Messages, NEW t \in Topics, m # row.msg \/ t # row.topic
        PROVE  Count(m, t)' = Count(m, t)
    <3>1. delivered'[m][t] = delivered[m][t]
      BY <1>3
    <3>2. \A r \in rows \union rows' : r.msg = m /\ r.topic = t => (r \in rows' <=> r \in rows)
      BY <2>3, <2>4
    <3> QED
      BY <3>1, <3>2, CountSame
  <2>5. Present(row.msg, row.topic)'
    BY <2>1 DEF Insert, Present
  <2>6. delivered[row.msg][row.topic] \in Nat
    BY <1>1, <1>2, CountIsNat
  <2>7. Count(row.msg, row.topic)' = delivered[row.msg][row.topic] + 1
    BY <1>3, <2>5 DEF Count
  <2>8. Count(row.msg, row.topic) \in {delivered[row.msg][row.topic], delivered[row.msg][row.topic] + 1}
    BY <2>6 DEF Count
  <2>9. /\ Count(row.msg, row.topic)' \in {Count(row.msg, row.topic), Count(row.msg, row.topic) + 1}
        /\ Count(row.msg, row.topic)' > 0
    BY <2>6, <2>7, <2>8
  <2>10. \A m \in Messages, t \in Topics : Buffered(c, m, t) => Buffered(c, m, t)'
    BY <2>1 DEF Buffered
  <2> QED
    BY <1>1, <1>5, <2>1, <2>2, <2>3, <2>4, <2>9, <2>10
<1> QED
  BY <1>4, <1>5
LEMMA SendStep ==
    ASSUME BusInv, TypeOK', NEW c \in Callers, Send(c)
    PROVE  BusInv'
<1>1. /\ TypeOK /\ CallIsInOrder(c) /\ call[c].state = "send" /\ call[c].i \in 1 .. Len(call[c].msgs)
      /\ UNCHANGED <<toRegister, producers, messageTopics, delivered, clock>>
  BY SendIs, NextRowIsInOrder DEF BusInv, registerVars, consumeVars
<1>0. PICK k0 \in 1 .. Len(call[c].msgs) : k0 = call[c].i
  BY <1>1
<1> USE <1>0
<1> DEFINE topics == TopicsAt(c, k0)
           len == Len(topics)
<1>2. PICK row \in Row : row = NextRow(c)
  BY <1>1, NextRowIsInOrder
<1>3. PICK p0 \in 1 .. len, q0 \in Nat :
          topics[p0] = row.topic /\ call[c].j = p0 + q0 * len /\ (call[c].j <= len => p0 = call[c].j)
  <2>1. \E p \in 1 .. Len(TopicsAt(c, call[c].i)), q \in Nat :
            /\ TopicsAt(c, call[c].i)[p] = NextRow(c).topic
            /\ call[c].j = p + q * Len(TopicsAt(c, call[c].i))
            /\ call[c].j <= Len(TopicsAt(c, call[c].i)) => p = call[c].j
    BY SendIs, NextRowIsInOrder
  <2> QED
    BY <1>2, <2>1
<1>4. row.msg = Msg(c, k0) /\ row.msg \in Messages /\ row.topic \in Topics /\ call[c].at <= row.at
  BY <1>1, <1>2, NextRowIsInOrder DEF NextRow, Row
<1>5. /\ len \in Nat /\ len >= 1 /\ Repeats(c, k0) \in Nat /\ Repeats(c, k0) >= 1
      /\ call[c].j \in 1 .. Repeats(c, k0) * len
      /\ Repeats(c, k0) * len \in Nat /\ Repeats(c, k0) * len >= len
  <2>1. len \in Nat /\ len >= 1 /\ Repeats(c, k0) \in Nat /\ Repeats(c, k0) >= 1
    BY <1>1, NextRowIsInOrder, CallTypes, RepeatsPositive
  <2>2. call[c].j \in 1 .. Repeats(c, k0) * len
    BY <1>1 DEF CallIsInOrder
  <2> QED
    BY <2>1, <2>2, ProductPositive
<1>6. /\ call'[c].state = call[c].state /\ call'[c].msgs = call[c].msgs
      /\ call'[c].inTx = call[c].inTx /\ call'[c].at = call[c].at
      /\ \/ call'[c].i = k0 /\ call'[c].j = call[c].j + 1 /\ call[c].j < Repeats(c, k0) * len
         \/ call'[c].i = k0 + 1 /\ call'[c].j = 1 /\ call[c].j = Repeats(c, k0) * len
      /\ \A d \in Callers : d # c => call'[d] = call[d]
  <2>1. call \in [Callers -> CallRecord] /\ call[c] \in CallRecord
    BY <1>1 DEF TypeOK, CallRecord
  <2>2. CASE call[c].j < Repeats(c, k0) * len
    <3>1. call' = [call EXCEPT ![c].j = @ + 1]
      BY <2>2, SendIs
    <3> QED
      BY <2>1, <2>2, <3>1 DEF CallRecord
  <2>3. CASE ~(call[c].j < Repeats(c, k0) * len)
    <3>1. call[c].j = Repeats(c, k0) * len
      BY <1>5, <2>3
    <3>2. call' = [call EXCEPT ![c].i = @ + 1, ![c].j = 1]
      BY <2>3, SendIs
    <3> QED
      BY <2>1, <3>1, <3>2 DEF CallRecord
  <2> QED
    BY <2>2, <2>3
<1>7. /\ \A m \in Messages, t \in Topics :
             m # row.msg \/ t # row.topic \/ call[c].inTx => Count(m, t)' = Count(m, t)
      /\ Count(row.msg, row.topic)' \in {Count(row.msg, row.topic), Count(row.msg, row.topic) + 1}
      /\ Count(row.msg, row.topic)' > 0 \/ Buffered(c, row.msg, row.topic)'
      /\ \A m \in Messages, t \in Topics : Buffered(c, m, t) => Buffered(c, m, t)'
      /\ \A d \in Callers : d # c => buffer'[d] = buffer[d]
      /\ \A r \in rows' : r \in rows \/ r = row
      /\ \A r \in buffer'[c] : r \in buffer[c] \/ (r = row /\ call[c].inTx)
      /\ OneRowPerKey(rows') /\ OneRowPerKey(buffer'[c])
  BY <1>2, SendEffect
<1> HIDE DEF topics, len
<1>8. \A d \in Callers : call'[d].msgs = call[d].msgs
  BY <1>6
<1>9. TopicsRegistered' /\ CallsApart'
  <2>1. TopicsRegistered'
    BY <1>1 DEF BusInv, TopicsRegistered
  <2>2. CallsApart
    BY DEF BusInv
  <2>3. CallsApart'
    BY <1>8, <2>2 DEF CallsApart
  <2> QED
    BY <2>1, <2>3
<1>10. StorageIsInOrder'
  <2>1. \A m : Sent(m)' <=> Sent(m)
    BY <1>8 DEF Sent
  <2>2. Sent(row.msg)
    BY <1>1, <1>4, CallTypes DEF Sent, Msg
  <2> QED
    BY <1>7, <2>1, <2>2 DEF BusInv, StorageIsInOrder
<1>11. ASSUME NEW d \in Callers
       PROVE  CallIsInOrder(d)'
  <2>1. CASE d # c
    BY <1>1, <1>6, <1>7, <2>1, CallKept DEF BusInv
  <2>2. CASE d = c
    <3> DEFINE ms == call[c].msgs
    <3>1. /\ ms \in Seq(Messages) /\ Len(ms) \in Nat /\ TypesKnown(ms) /\ toRegister = {}
          /\ \A j, k \in 1 .. Len(ms) : ms[j] = ms[k] => j = k
      BY <1>1, CallTypes DEF CallIsInOrder
    <3>2. TypesKnown(call[c].msgs)' /\ call'[c].msgs = ms /\ call'[c].state = "send" /\ toRegister' = {}
      BY <1>1, <1>6, <3>1 DEF TypesKnown
    <3>3. \A k : Repeats(c, k)' = Repeats(c, k) /\ TopicsAt(c, k)' = TopicsAt(c, k)
      BY <1>1, <1>6 DEF Repeats, TopicsAt, Msg, Occurrences
    <3>4. call'[c].i >= 1
      BY <1>1, <1>6
    <3>5. call'[c].i <= Len(ms)
              => call'[c].j \in 1 .. Repeats(c, call'[c].i) * Len(TopicsAt(c, call'[c].i))
      <4>1. CASE call'[c].i = k0
        BY <1>5, <1>6, <4>1, <1>1 DEF topics, len
      <4>2. CASE call'[c].i = k0 + 1 /\ call'[c].j = 1 /\ k0 + 1 <= Len(ms)
        <5>1. k0 + 1 \in 1 .. Len(ms)
          BY <1>1, <3>1, <4>2
        <5>2. /\ Repeats(c, k0 + 1) \in Nat /\ Repeats(c, k0 + 1) >= 1
              /\ TopicsAt(c, k0 + 1) \in Seq(Topics) /\ k0 + 1 \in DOMAIN ms
          BY <1>1, <5>1, RepeatsPositive, CallTypes
        <5>3. TopicsAt(c, k0 + 1) # <<>>
          BY <3>1, <5>2 DEF TypesKnown, TopicsAt, Msg
        <5>4. Len(TopicsAt(c, k0 + 1)) \in Nat /\ Len(TopicsAt(c, k0 + 1)) >= 1
          BY <5>2, <5>3
        <5>5. /\ Repeats(c, k0 + 1) * Len(TopicsAt(c, k0 + 1)) \in Nat
              /\ Repeats(c, k0 + 1) * Len(TopicsAt(c, k0 + 1)) >= 1
          BY <5>2, <5>4, ProductPositive
        <5> QED
          BY <4>2, <5>5
      <4> QED
        BY <1>6, <4>1, <4>2
    <3>6. \A r \in buffer'[c] : call[c].inTx /\ call[c].at <= r.at /\ \E k \in 1 .. Len(ms) : ms[k] = r.msg
      BY <1>1, <1>4, <1>7 DEF CallIsInOrder, Msg
    <3>7. /\ Repeats(c, call[c].i)' = Repeats(c, call'[c].i)
          /\ TopicsAt(c, call[c].i)' = TopicsAt(c, call'[c].i)
      BY <1>1, <1>6 DEF Repeats, TopicsAt, Msg, Occurrences
    <3> QED
      BY <1>6, <1>7, <2>2, <3>1, <3>2, <3>4, <3>5, <3>6, <3>7 DEF CallIsInOrder
  <2> QED
    BY <2>1, <2>2
<1>12. ASSUME NEW d \in Callers, NEW k \in 1 .. Len(call[d].msgs), NEW t \in Topics,
              d # c \/ k # k0
       PROVE  MessageIsOnItsWay(d, k, t)'
  <2>1. MessageIsOnItsWay(d, k, t) /\ Msg(d, k) \in Messages
    BY <1>1, CallTypes DEF BusInv
  <2>2. Msg(d, k) # row.msg
    BY <1>1, <1>4, <1>12 DEF BusInv, CallsApart, CallIsInOrder, Msg
  <2>3. Msg(d, k)' = Msg(d, k) /\ Count(Msg(d, k), t)' = Count(Msg(d, k), t)
    <3>1. Msg(d, k)' = Msg(d, k)
      BY <1>8 DEF Msg
    <3>2. ASSUME NEW m \in Messages, m = Msg(d, k)
          PROVE  Count(m, t)' = Count(m, t)
      BY <1>7, <2>2, <3>2
    <3>3. PICK m \in Messages : m = Msg(d, k)
      BY <2>1
    <3> QED
      BY <3>1, <3>2, <3>3 DEF Count, Present
  <2>4. /\ \A r \in rows' : r.msg = Msg(d, k) => call[d].at <= r.at
        /\ delivered'[Msg(d, k)][t] > 0 => call[d].at <= clock'
    BY <1>1, <1>7, <2>1, <2>2 DEF MessageIsOnItsWay
  <2>5. CASE d # c
    BY <1>1, <1>6, <1>7, <2>1, <2>3, <2>4, <2>5, MessageKept
  <2>6. CASE d = c
    <3> DEFINE m == Msg(c, k)
               n == Count(m, t)
    <3>1. /\ TopicsAt(c, k)' = TopicsAt(c, k) /\ Repeats(c, k)' = Repeats(c, k)
          /\ Silent(c)' = Silent(c) /\ TopicsOf(Msg(c, k))' = TopicsOf(Msg(c, k))
      BY <1>1, <1>6 DEF TopicsAt, Msg, Repeats, Occurrences, Silent, TypesKnown, TopicsOf
    <3>2. Buffered(c, Msg(c, k), t) => Buffered(c, Msg(c, k), t)'
      <4>1. PICK x \in Messages : x = Msg(c, k)
        BY <2>1, <2>6
      <4> QED
        BY <1>7, <2>3, <2>6, <4>1 DEF Buffered
    <3>3. k # k0 /\ k \in Nat /\ k0 \in Nat
      BY <1>1, <1>12, <2>6
    <3>4. k > call'[c].i => k > call[c].i
      BY <1>6, <3>3
    <3>5. k < call'[c].i => k < call[c].i
      BY <1>6, <3>3
    <3>6. k = call'[c].i => k > call[c].i /\ call'[c].j = 1
      BY <1>6, <3>3
    <3>7. n \in Nat
      BY <1>1, <2>1, <2>6, CountIsNat
    <3>8. call[c].state = "send" /\ k > call[c].i => n = 0
      BY <2>1, <2>6 DEF MessageIsOnItsWay
    <3>9. n <= IF call[c].inTx THEN 1 ELSE Repeats(c, k)
      BY <2>1, <2>6 DEF MessageIsOnItsWay
    <3>10. Silent(c) => n = 0
      BY <2>1, <2>6 DEF MessageIsOnItsWay
    <3>11. t \in TopicsOf(m) /\ call[c].state = "send" /\ k < call[c].i => n > 0 \/ Buffered(c, m, t)
      BY <2>1, <2>6 DEF MessageIsOnItsWay
    <3>12. \A p \in 1 .. Len(TopicsAt(c, k)) : ~(p < 1)
      OBVIOUS
    <3>13. /\ n = Count(Msg(c, k), t)' /\ call'[c].state = "send"
           /\ call'[c].inTx = call[c].inTx /\ call'[c].at = call[c].at
      BY <1>1, <1>6, <2>3, <2>6
    <3> HIDE DEF n, m
    <3>14. (t \in TopicsOf(Msg(c, k)))' /\ k < call'[c].i => n > 0 \/ Buffered(c, Msg(c, k), t)'
      BY <1>1, <3>1, <3>2, <3>5, <3>11 DEF m
    <3>15. (k = call'[c].i => n = 0 /\ call'[c].j = 1) /\ (k > call'[c].i => n = 0)
      BY <1>1, <3>4, <3>6, <3>8
    <3> QED
      BY <2>3, <2>4, <2>6, <3>1, <3>7, <3>9, <3>10, <3>12, <3>13, <3>14, <3>15 DEF MessageIsOnItsWay
  <2> QED
    BY <2>5, <2>6
<1>13. ASSUME NEW t \in Topics
       PROVE  MessageIsOnItsWay(c, k0, t)'
  <2> DEFINE m == row.msg
             n == Count(m, t)
             n1 == Count(m, t)'
             j == call[c].j
  <2>1. /\ MessageIsOnItsWay(c, k0, t) /\ m = Msg(c, k0) /\ m \in Messages /\ k0 \in Nat /\ j \in Nat
        /\ call[c].state = "send" /\ call[c].i = k0
    BY <1>1, <1>4, CallTypes DEF BusInv
  <2>2. /\ n <= IF call[c].inTx THEN 1 ELSE Repeats(c, k0)
        /\ Silent(c) => n = 0
        /\ n > 0 => \E p \in 1 .. len : topics[p] = t /\ p + (n - 1) * len < j
        /\ \A p \in 1 .. len : p < j /\ topics[p] = t => n > 0 \/ Buffered(c, m, t)
        /\ \A r \in rows : r.msg = m => call[c].at <= r.at
        /\ delivered[m][t] > 0 => call[c].at <= clock
    BY <2>1 DEF MessageIsOnItsWay, len, topics
  <2>3. n \in Nat
    BY <1>1, <2>1, CountIsNat
  <2>4. /\ t # row.topic \/ call[c].inTx => n1 = n
        /\ n1 \in {n, n + 1} \/ t # row.topic
        /\ t = row.topic => n1 > 0 \/ Buffered(c, m, t)'
        /\ Buffered(c, m, t) => Buffered(c, m, t)'
    BY <1>7, <2>1
  <2> HIDE DEF n, n1, m, j
  <2>5. n1 \in Nat /\ n1 \in {n, n + 1}
    BY <2>3, <2>4
  <2>6. \A p, q \in 1 .. len : topics[p] = topics[q] => p = q
    BY <1>1, <2>1, CallTypes DEF BusInv, TopicsRegistered, topics, len, TopicsAt
  <2>7. n1 = n + 1 => t = row.topic /\ ~call[c].inTx
    BY <2>3, <2>4
  <2>8. n1 > 0 => \E p \in 1 .. len : topics[p] = t /\ p + (n1 - 1) * len <= j
    <3>1. CASE n1 = n /\ n > 0
      <4>1. PICK p \in 1 .. len : topics[p] = t /\ p + (n - 1) * len < j
        BY <2>2, <3>1
      <4>2. p + (n - 1) * len <= j
        <5>1. (n - 1) * len \in Int
          BY <1>5, <2>3
        <5> QED
          BY <2>1, <4>1, <5>1
      <4> QED
        BY <3>1, <4>1, <4>2
    <3>2. CASE n1 = n + 1
      <4>1. topics[p0] = t /\ j = p0 + q0 * len
        BY <1>3, <2>7, <3>2 DEF j
      <4>2. n > 0 => p0 + (n - 1) * len < p0 + q0 * len
        BY <2>2, <2>6, <4>1
      <4>3. p0 + n * len <= p0 + q0 * len
        BY <1>5, <2>3, <4>2, NextRound
      <4>4. n1 - 1 = n
        BY <2>3, <3>2
      <4> QED
        BY <4>1, <4>3, <4>4
    <3> QED
      BY <2>3, <2>5, <3>1, <3>2
  <2>9. n1 <= IF call[c].inTx THEN 1 ELSE Repeats(c, k0)
    <3>1. CASE n1 = n
      BY <2>2, <3>1
    <3>2. CASE n1 = n + 1
      <4>1. n1 > 0 /\ ~call[c].inTx
        BY <2>3, <2>7, <3>2
      <4>2. PICK p \in 1 .. len : p + (n1 - 1) * len <= j
        BY <2>8, <4>1
      <4>3. (n1 - 1) * len \in Int
        BY <1>5, <2>5
      <4>4. j <= Repeats(c, k0) * len
        BY <1>5 DEF j
      <4>5. p + (n1 - 1) * len <= Repeats(c, k0) * len
        BY <1>5, <2>1, <4>2, <4>3, <4>4
      <4>6. n1 <= Repeats(c, k0)
        BY <1>5, <2>5, <4>1, <4>5, LastRound
      <4> QED
        BY <4>1, <4>6
    <3> QED
      BY <2>5, <3>1, <3>2
  <2>10. Silent(c) => n1 = 0
    BY <2>1, <2>2, <2>4 DEF Silent
  <2>11. ASSUME NEW p \in 1 .. len, p <= j, topics[p] = t
         PROVE  n1 > 0 \/ Buffered(c, m, t)'
    <3>1. CASE p < j
      BY <2>2, <2>3, <2>4, <2>5, <2>11, <3>1
    <3>2. CASE p = j
      <4>1. p0 = p
        BY <1>3, <1>5, <3>2 DEF j
      <4>2. t = row.topic
        BY <1>3, <2>11, <4>1
      <4> QED
        BY <2>4, <4>2
    <3> QED
      BY <1>5, <2>1, <2>11, <3>1, <3>2
  <2>12. call'[c].i = k0 + 1 /\ t \in TopicsOf(m) => n1 > 0 \/ Buffered(c, m, t)'
    <3> SUFFICES ASSUME call'[c].i = k0 + 1, t \in TopicsOf(m)
                 PROVE  n1 > 0 \/ Buffered(c, m, t)'
      OBVIOUS
    <3>1. j = Repeats(c, k0) * len
      BY <1>6, <2>1 DEF j
    <3>2. PICK p \in 1 .. len : topics[p] = t
      BY <1>1, <2>1, CallTypes DEF BusInv, TopicsRegistered, TopicsOf, topics, len, TopicsAt
    <3>3. p <= j
      BY <1>5, <3>1
    <3> QED
      BY <2>11, <3>2, <3>3
  <2>13. /\ Msg(c, k0)' = m /\ TopicsAt(c, k0)' = topics /\ Repeats(c, k0)' = Repeats(c, k0)
         /\ Silent(c)' = Silent(c) /\ TopicsOf(m)' = TopicsOf(m)
    BY <1>1, <1>6, <2>1
       DEF Msg, TopicsAt, topics, Repeats, Occurrences, Silent, TypesKnown, TopicsOf, m
  <2>14. /\ Count(Msg(c, k0), t)' = n1 /\ Buffered(c, Msg(c, k0), t)' = Buffered(c, m, t)'
         /\ delivered'[Msg(c, k0)'][t] = delivered[m][t] /\ TopicsOf(Msg(c, k0))' = TopicsOf(m)
    BY <1>1, <2>13 DEF Count, Present, Buffered, n1, TopicsOf, m
  <2>15. \A r \in rows' : r.msg = m => call[c].at <= r.at
    BY <1>4, <1>7, <2>2
  <2>16. /\ call'[c].state = "send" /\ call'[c].inTx = call[c].inTx /\ call'[c].at = call[c].at
         /\ ~(k0 > call'[c].i)
         /\ k0 < call'[c].i => call'[c].i = k0 + 1
         /\ k0 = call'[c].i => call'[c].j = j + 1
    BY <1>6, <2>1 DEF j
  <2>17. \A p \in 1 .. len :
             /\ p < j + 1 <=> p <= j
             /\ (p + (n1 - 1) * len < j + 1 <=> p + (n1 - 1) * len <= j)
    <3>1. (n1 - 1) * len \in Int
      BY <1>5, <2>5
    <3> QED
      BY <1>5, <2>1, <3>1
  <2>18. k0 = call'[c].i /\ n1 > 0 =>
             \E p \in 1 .. len : topics[p] = t /\ p + (n1 - 1) * len < call'[c].j
    BY <2>8, <2>16, <2>17
  <2>19. k0 = call'[c].i =>
             \A p \in 1 .. len : p < call'[c].j /\ topics[p] = t => n1 > 0 \/ Buffered(c, m, t)'
    BY <2>11, <2>16, <2>17
  <2> QED
    BY <1>1, <2>2, <2>9, <2>10, <2>12, <2>13, <2>14, <2>15, <2>16, <2>18, <2>19
       DEF MessageIsOnItsWay, len
<1> QED
  BY <1>8, <1>9, <1>10, <1>11, <1>12, <1>13 DEF BusInv

-----------------------------------------------------------------------------
(* The call has failed: what a transaction had inserted is gone.           *)
LEMMA SendFailsStep ==
    ASSUME BusInv, TypeOK', NEW c \in Callers, SendFails(c)
    PROVE  BusInv'
<1>1. /\ TypeOK /\ CallIsInOrder(c) /\ call[c].state = "send"
      /\ UNCHANGED <<toRegister, producers, messageTopics, rows, delivered, clock>>
  BY DEF BusInv, SendFails, registerVars, consumeVars
<1>2. /\ call'[c].state = "error" /\ call'[c].msgs = call[c].msgs
      /\ call'[c].inTx = call[c].inTx /\ call'[c].at = call[c].at
      /\ \A d \in Callers : d # c => call'[d] = call[d]
      /\ buffer'[c] = {} /\ \A d \in Callers : d # c => buffer'[d] = buffer[d]
  <2>1. call \in [Callers -> CallRecord] /\ call[c] \in CallRecord
    BY <1>1 DEF TypeOK, CallRecord
  <2>2. buffer \in [Callers -> SUBSET Row]
    BY <1>1 DEF TypeOK
  <2> QED
    BY <2>1, <2>2 DEF SendFails, CallRecord
<1>3. \A d \in Callers : call'[d].msgs = call[d].msgs
  BY <1>2
<1>4. \A m \in Messages, t \in Topics : Count(m, t)' = Count(m, t)
  BY <1>1 DEF Count, Present
<1>5. TopicsRegistered' /\ CallsApart' /\ StorageIsInOrder'
  <2>1. TopicsRegistered /\ CallsApart /\ StorageIsInOrder
    BY DEF BusInv
  <2>2. TopicsRegistered'
    BY <1>1, <2>1 DEF TopicsRegistered
  <2>3. CallsApart'
    BY <1>3, <2>1 DEF CallsApart
  <2>4. \A m : Sent(m)' <=> Sent(m)
    BY <1>3 DEF Sent
  <2> QED
    BY <1>1, <1>4, <2>1, <2>2, <2>3, <2>4 DEF StorageIsInOrder, OneRowPerKey
<1>6. ASSUME NEW d \in Callers
      PROVE  CallIsInOrder(d)'
  <2>1. CASE d # c
    BY <1>1, <1>2, <2>1, CallKept DEF BusInv
  <2>2. CASE d = c
    BY <1>1, <1>2, <2>2 DEF CallIsInOrder, OneRowPerKey
  <2> QED
    BY <2>1, <2>2
<1>7. ASSUME NEW d \in Callers, NEW k \in 1 .. Len(call[d].msgs), NEW t \in Topics
      PROVE  MessageIsOnItsWay(d, k, t)'
  <2>1. MessageIsOnItsWay(d, k, t) /\ Msg(d, k) \in Messages /\ Msg(d, k)' = Msg(d, k)
    BY <1>1, <1>3, CallTypes DEF BusInv, Msg
  <2>2. Count(Msg(d, k), t)' = Count(Msg(d, k), t)
    BY <1>1, <2>1 DEF Count, Present
  <2>3. /\ \A r \in rows : r.msg = Msg(d, k) => call[d].at <= r.at
        /\ delivered[Msg(d, k)][t] > 0 => call[d].at <= clock
    BY <2>1 DEF MessageIsOnItsWay
  <2>4. CASE d # c
    BY <1>1, <1>2, <2>1, <2>2, <2>3, <2>4, MessageKept
  <2>5. CASE d = c
    <3>1. Silent(c)' => Silent(c)
      BY <1>1, <1>2 DEF Silent, TypesKnown, CallIsInOrder
    <3>2. Repeats(c, k)' = Repeats(c, k)
      BY <1>2 DEF Repeats, Occurrences, Msg
    <3>3. /\ Count(Msg(c, k), t) <= IF call[c].inTx THEN 1 ELSE Repeats(c, k)
          /\ Silent(c) => Count(Msg(c, k), t) = 0
      BY <2>1, <2>5 DEF MessageIsOnItsWay
    <3> QED
      BY <1>1, <1>2, <2>1, <2>2, <2>3, <2>5, <3>1, <3>2, <3>3 DEF MessageIsOnItsWay
  <2> QED
    BY <2>4, <2>5
<1> QED
  BY <1>3, <1>5, <1>6, <1>7 DEF BusInv

(* The call returns nil: the rows of a transaction appear together.        *)
LEMMA ReturnStep ==
    ASSUME BusInv, TypeOK', NEW c \in Callers, Return(c)
    PROVE  BusInv'
<1>1. /\ TypeOK /\ CallIsInOrder(c) /\ call[c].state = "send" /\ call[c].i > Len(call[c].msgs)
      /\ rows' = rows \union buffer[c]
      /\ UNCHANGED <<toRegister, producers, messageTopics, delivered, clock>>
  BY DEF BusInv, Return, registerVars, consumeVars
<1>2. /\ call'[c].state = "nil" /\ call'[c].msgs = call[c].msgs
      /\ call'[c].inTx = call[c].inTx /\ call'[c].at = call[c].at
      /\ \A d \in Callers : d # c => call'[d] = call[d]
      /\ buffer'[c] = {} /\ \A d \in Callers : d # c => buffer'[d] = buffer[d]
  <2>1. call \in [Callers -> CallRecord] /\ call[c] \in CallRecord
    BY <1>1 DEF TypeOK, CallRecord
  <2>2. buffer \in [Callers -> SUBSET Row]
    BY <1>1 DEF TypeOK
  <2> QED
    BY <2>1, <2>2 DEF Return, CallRecord
<1>3. \A d \in Callers : call'[d].msgs = call[d].msgs
  BY <1>2
(* What it has inserted is its own, and none of it was in the storage.     *)
<1>4. ASSUME NEW r \in buffer[c]
      PROVE  /\ call[c].inTx /\ call[c].at <= r.at /\ r.msg \in Messages /\ r.topic \in Topics
             /\ Sent(r.msg) /\ (\E k \in 1 .. Len(call[c].msgs) : Msg(c, k) = r.msg)
             /\ Count(r.msg, r.topic) = 0 /\ ~Present(r.msg, r.topic)
  <2>1. r.msg \in Messages /\ r.topic \in Topics
    BY <1>1 DEF TypeOK, Row
  <2>2. PICK k \in 1 .. Len(call[c].msgs) : call[c].msgs[k] = r.msg
    BY <1>1 DEF CallIsInOrder
  <2>3. call[c].inTx /\ call[c].at <= r.at
    BY <1>1 DEF CallIsInOrder
  <2>4. MessageIsOnItsWay(c, k, r.topic) /\ Msg(c, k) = r.msg
    BY <2>1, <2>2 DEF BusInv, Msg
  <2>5. Count(r.msg, r.topic) = 0
    BY <1>1, <2>3, <2>4 DEF MessageIsOnItsWay, Silent
  <2>6. ~Present(r.msg, r.topic)
    BY <1>1, <2>1, <2>5, CountIsNat
  <2>7. Sent(r.msg)
    BY <1>1, <2>2, CallTypes DEF Sent
  <2> QED
    BY <2>1, <2>3, <2>4, <2>5, <2>6, <2>7
<1>5. \A m \in Messages, t \in Topics : ~Buffered(c, m, t) => Count(m, t)' = Count(m, t)
  <2>1. ASSUME NEW m \in Messages, NEW t \in Topics, ~Buffered(c, m, t)
        PROVE  Count(m, t)' = Count(m, t)
    <3>1. \A r \in rows \union rows' : r.msg = m /\ r.topic = t => (r \in rows' <=> r \in rows)
      BY <1>1, <2>1 DEF Buffered
    <3> QED
      BY <1>1, <3>1, CountSame
  <2> QED
    BY <2>1
<1>6. \A m \in Messages, t \in Topics :
          Buffered(c, m, t) => Count(m, t)' = 1 /\ Count(m, t) = 0 /\ Sent(m) /\ call[c].inTx
  <2>1. ASSUME NEW m \in Messages, NEW t \in Topics, Buffered(c, m, t)
        PROVE  Count(m, t)' = 1 /\ Count(m, t) = 0 /\ Sent(m) /\ call[c].inTx
    <3>1. PICK r \in buffer[c] : r.msg = m /\ r.topic = t
      BY <2>1 DEF Buffered
    <3>2. Present(m, t)'
      BY <1>1, <3>1 DEF Present
    <3>3. Count(m, t) = 0 /\ delivered[m][t] = 0
      BY <1>1, <1>4, <3>1, CountIsNat
    <3>4. Count(m, t)' = 1
      BY <1>1, <3>2, <3>3 DEF Count
    <3> QED
      BY <1>4, <3>1, <3>3, <3>4
  <2> QED
    BY <2>1
<1>7. OneRowPerKey(rows')
  <2>1. OneRowPerKey(rows) /\ OneRowPerKey(buffer[c])
    BY <1>1 DEF BusInv, StorageIsInOrder, CallIsInOrder
  <2>2. \A r \in buffer[c], s \in rows : ~(r.msg = s.msg /\ r.topic = s.topic)
    BY <1>4 DEF Present
  <2> QED
    BY <1>1, <2>1, <2>2 DEF OneRowPerKey
<1>8. TopicsRegistered' /\ CallsApart' /\ StorageIsInOrder'
  <2>1. TopicsRegistered /\ CallsApart /\ StorageIsInOrder
    BY DEF BusInv
  <2>2. TopicsRegistered'
    BY <1>1, <2>1 DEF TopicsRegistered
  <2>3. CallsApart'
    BY <1>3, <2>1 DEF CallsApart
  <2>4. \A m : Sent(m)' <=> Sent(m)
    BY <1>3 DEF Sent
  <2> QED
    BY <1>5, <1>6, <1>7, <2>1, <2>2, <2>3, <2>4 DEF StorageIsInOrder
<1>9. ASSUME NEW d \in Callers
      PROVE  CallIsInOrder(d)'
  <2>1. CASE d # c
    BY <1>1, <1>2, <2>1, CallKept DEF BusInv
  <2>2. CASE d = c
    BY <1>1, <1>2, <2>2 DEF CallIsInOrder, OneRowPerKey, TypesKnown
  <2> QED
    BY <2>1, <2>2
<1>10. ASSUME NEW d \in Callers, NEW k \in 1 .. Len(call[d].msgs), NEW t \in Topics
       PROVE  MessageIsOnItsWay(d, k, t)'
  <2>1. MessageIsOnItsWay(d, k, t) /\ Msg(d, k) \in Messages /\ Msg(d, k)' = Msg(d, k)
    BY <1>1, <1>3, CallTypes DEF BusInv, Msg
  <2>2. PICK m \in Messages : m = Msg(d, k)
    BY <2>1
  <2>3. Count(Msg(d, k), t)' = Count(m, t)'
    BY <2>1, <2>2 DEF Count, Present
  <2>4. /\ \A r \in rows : r.msg = m => call[d].at <= r.at
        /\ delivered[m][t] > 0 => call[d].at <= clock
    BY <2>1, <2>2 DEF MessageIsOnItsWay
  <2>5. CASE d # c
    <3>1. \A r \in buffer[c] : r.msg # m
      <4> SUFFICES ASSUME NEW r \in buffer[c], r.msg = m
                   PROVE  FALSE
        OBVIOUS
      <4>1. PICK l \in 1 .. Len(call[c].msgs) : Msg(c, l) = m
        BY <1>4
      <4> QED
        BY <2>2, <2>5, <4>1 DEF BusInv, CallsApart, Msg
    <3>2. Count(m, t)' = Count(m, t)
      BY <1>5, <3>1 DEF Buffered
    <3>3. \A r \in rows' : r.msg = m => call[d].at <= r.at
      BY <1>1, <2>4, <3>1
    <3> QED
      BY <1>1, <1>2, <2>1, <2>2, <2>3, <2>4, <2>5, <3>2, <3>3, MessageKept
  <2>6. CASE d = c
    <3>1. /\ Repeats(c, k)' = Repeats(c, k) /\ TopicsOf(Msg(c, k))' = TopicsOf(m)
      BY <1>1, <1>2, <2>1, <2>2, <2>6 DEF Repeats, Occurrences, Msg, TopicsOf
    <3>2. /\ Count(m, t) <= IF call[c].inTx THEN 1 ELSE Repeats(c, k)
          /\ t \in TopicsOf(m) /\ k < call[c].i => Count(m, t) > 0 \/ Buffered(c, m, t)
      BY <1>1, <2>1, <2>2, <2>6 DEF MessageIsOnItsWay
    <3>3. k < call[c].i
      BY <1>1, <2>6, CallTypes
    <3>4. Count(m, t)' <= IF call[c].inTx THEN 1 ELSE Repeats(c, k)
      BY <1>5, <1>6, <3>2
    <3>5. t \in TopicsOf(m) => Count(m, t)' > 0
      BY <1>5, <1>6, <3>2, <3>3
    <3>6. \A r \in rows' : r.msg = m => call[c].at <= r.at
      BY <1>1, <1>4, <2>4, <2>6
    <3>7. ~Silent(c)'
      BY <1>2 DEF Silent
    <3> QED
      BY <1>1, <1>2, <2>1, <2>2, <2>3, <2>4, <2>6, <3>1, <3>4, <3>5, <3>6, <3>7 DEF MessageIsOnItsWay
  <2> QED
    BY <2>5, <2>6
<1> QED
  BY <1>3, <1>8, <1>9, <1>10 DEF BusInv

(* A row is consumed: it has come into the storage as often as before.     *)
LEMMA ConsumeStep ==
    ASSUME BusInv, TypeOK', NEW r \in rows, Consume(r)
    PROVE  BusInv'
<1>1. /\ TypeOK /\ r.at <= clock /\ rows' = rows \ {r}
      /\ delivered' = [delivered EXCEPT ![r.msg][r.topic] = @ + 1]
      /\ UNCHANGED <<toRegister, producers, messageTopics, call, buffer, clock>>
  BY DEF BusInv, Consume, registerVars
<1>2. r.msg \in Messages /\ r.topic \in Topics /\ r.at \in 0 .. MaxTime
  BY <1>1 DEF TypeOK, Row
<1>3. /\ delivered'[r.msg][r.topic] = delivered[r.msg][r.topic] + 1
      /\ \A m \in Messages, t \in Topics :
             m # r.msg \/ t # r.topic => delivered'[m][t] = delivered[m][t]
  BY <1>1, <1>2 DEF TypeOK
<1>4. OneRowPerKey(rows) /\ OneRowPerKey(rows')
  BY <1>1 DEF BusInv, StorageIsInOrder, OneRowPerKey
<1>5. ASSUME NEW m \in Messages, NEW t \in Topics
      PROVE  Count(m, t)' = Count(m, t)
  <2>1. CASE m # r.msg \/ t # r.topic
    BY <1>1, <1>3, <2>1, CountSame
  <2>2. CASE m = r.msg /\ t = r.topic
    <3>1. Present(m, t) /\ ~Present(m, t)'
      BY <1>1, <1>4, <2>2 DEF Present, OneRowPerKey
    <3>2. delivered[m][t] \in Nat /\ delivered'[m][t] = delivered[m][t] + 1
      BY <1>1, <1>2, <1>3, <2>2, CountIsNat
    <3> QED
      BY <3>1, <3>2 DEF Count
  <2> QED
    BY <2>1, <2>2
<1>6. TopicsRegistered' /\ CallsApart' /\ StorageIsInOrder'
  <2>1. TopicsRegistered /\ CallsApart /\ StorageIsInOrder
    BY DEF BusInv
  <2>2. TopicsRegistered' /\ CallsApart'
    BY <1>1, <2>1 DEF TopicsRegistered, CallsApart
  <2>3. \A m : Sent(m)' <=> Sent(m)
    BY <1>1 DEF Sent
  <2> QED
    BY <1>4, <1>5, <2>1, <2>2, <2>3 DEF StorageIsInOrder
<1>7. ASSUME NEW c \in Callers
      PROVE  CallIsInOrder(c)'
  BY <1>1, CallKept DEF BusInv
<1>8. ASSUME NEW c \in Callers, NEW k \in 1 .. Len(call[c].msgs), NEW t \in Topics
      PROVE  MessageIsOnItsWay(c, k, t)'
  <2>1. MessageIsOnItsWay(c, k, t) /\ Msg(c, k) \in Messages /\ Msg(c, k)' = Msg(c, k)
    BY <1>1, CallTypes DEF BusInv, Msg
  <2>2. PICK m \in Messages : m = Msg(c, k)
    BY <2>1
  <2>3. Count(Msg(c, k), t)' = Count(Msg(c, k), t)
    <3>1. Count(Msg(c, k), t)' = Count(m, t)' /\ Count(Msg(c, k), t) = Count(m, t)
      BY <2>1, <2>2 DEF Count, Present
    <3> QED
      BY <1>5, <3>1
  <2>4. /\ \A s \in rows : s.msg = m => call[c].at <= s.at
        /\ delivered[m][t] > 0 => call[c].at <= clock
    BY <2>1, <2>2 DEF MessageIsOnItsWay
  <2>5. call[c].at \in Int /\ clock \in Int
    BY <1>1, CallTypes, BoundsAssumption DEF TypeOK, Now
  <2>6. delivered'[m][t] > 0 => call[c].at <= clock
    <3>1. CASE m = r.msg
      BY <1>1, <1>2, <2>4, <2>5, <3>1, BoundsAssumption
    <3>2. CASE m # r.msg
      BY <1>3, <2>4, <3>2
    <3> QED
      BY <3>1, <3>2
  <2> QED
    BY <1>1, <2>1, <2>2, <2>3, <2>4, <2>6, MessageKept
<1> QED
  BY <1>1, <1>6, <1>7, <1>8 DEF BusInv

-----------------------------------------------------------------------------
LEMMA InitBusInv ==
    ASSUME Init
    PROVE  BusInv
<1>1. Idle \in CallRecord
  BY BoundsAssumption DEF Idle, CallRecord, Now
<1>2. toRegister \subseteq Topics \X Types
  BY RegistrationsAssumption DEF Init
<1>3. TypeOK
  BY <1>1, <1>2, BoundsAssumption DEF Init, TypeOK, CallRecord
<1>4. \A c \in Callers : call[c].state = "idle" /\ call[c].msgs = <<>> /\ buffer[c] = {}
  BY DEF Init, Idle
<1>5. TopicsRegistered
  BY DEF Init, TopicsRegistered
<1>6. StorageIsInOrder
  BY DEF Init, StorageIsInOrder, OneRowPerKey, Count, Present
<1>7. CallsApart /\ \A c \in Callers : CallIsInOrder(c) /\ 1 .. Len(call[c].msgs) = {}
  BY <1>4 DEF CallsApart, CallIsInOrder, OneRowPerKey
<1> QED
  BY <1>3, <1>5, <1>6, <1>7 DEF BusInv

LEMMA NextBusInv ==
    ASSUME BusInv, [Next]_vars
    PROVE  BusInv'
<1>1. CASE UNCHANGED vars
  <2>1. TypeOK' /\ clock <= clock' /\ UNCHANGED <<registerVars, call, buffer, rows, delivered>>
    BY <1>1 DEF BusInv, TypeOK, vars, registerVars, consumeVars
  <2> QED
    BY <2>1, QuietStep
<1>2. CASE Next
  <2>1. TypeOK /\ TypeOK'
    BY <1>2, TypesKept DEF BusInv
  <2>2. ASSUME NEW pair \in toSubscribe, RegisterTopicHandlers(pair[1], pair[2])
        PROVE  BusInv'
    BY <2>1, <2>2, QuietStep DEF RegisterTopicHandlers, consumeVars, TypeOK
  <2>3. CASE Tick
    BY <2>1, <2>3, QuietStep DEF Tick, consumeVars, TypeOK
  <2>4. 0 .. MaxTime \subseteq Now .. MaxTime /\ Now \in Now .. MaxTime
    BY BoundsAssumption DEF Now
  <2>5. ASSUME NEW c \in Callers, NEW ms \in CallMessages, NEW inTx \in BOOLEAN,
               Dispatch(c, ms, inTx) \/ \E at \in 0 .. MaxTime : Schedule(c, ms, inTx, at)
        PROVE  BusInv'
    BY <2>1, <2>4, <2>5, ProduceStep DEF Dispatch, Schedule
  <2> QED
    BY <1>2, <2>1, <2>2, <2>3, <2>5, RegisterStep, SendStep, ReturnStep, SendFailsStep, ConsumeStep
       DEF Next, Step
<1> QED
  BY <1>1, <1>2

LEMMA BusInvariant == Spec => []BusInv
  BY InitBusInv, NextBusInv, PTL DEF Spec

(* A call that returned nil has reached every topic of its messages; one   *)
(* that failed has reached none, if it had a transaction or an unknown     *)
(* type (scheduleImpl in busproducer.go).                                  *)
THEOREM CallsAreWhole == Spec => []CompleteOrNothing
<1>1. BusInv => CompleteOrNothing
  <2> SUFFICES ASSUME BusInv, NEW c \in Callers, NEW k \in DOMAIN call[c].msgs
               PROVE  /\ call[c].state = "nil" => \A t \in TopicsOf(Msg(c, k)) : Reached(Msg(c, k), t)
                      /\ call[c].state = "error" /\ (call[c].inTx \/ ~TypesKnown(call[c].msgs))
                             => \A t \in Topics : ~Reached(Msg(c, k), t)
    BY DEF CompleteOrNothing, Msg
  <2>1. TypeOK /\ k \in 1 .. Len(call[c].msgs) /\ Msg(c, k) \in Messages
    BY CallTypes DEF BusInv
  <2>2. \A t \in Topics : MessageIsOnItsWay(c, k, t) /\ (Reached(Msg(c, k), t) <=> Count(Msg(c, k), t) > 0)
    BY <2>1, CountIsNat DEF BusInv
  <2>3. ASSUME NEW t \in Topics
        PROVE  /\ call[c].state = "nil" /\ t \in TopicsOf(Msg(c, k)) => Count(Msg(c, k), t) > 0
               /\ Silent(c) => ~(Count(Msg(c, k), t) > 0)
    <3>1. MessageIsOnItsWay(c, k, t)
      BY <2>2
    <3>2. call[c].state = "nil" /\ t \in TopicsOf(Msg(c, k)) => Count(Msg(c, k), t) > 0
      BY <3>1 DEF MessageIsOnItsWay
    <3>3. Silent(c) => Count(Msg(c, k), t) = 0
      BY <3>1 DEF MessageIsOnItsWay
    <3> QED
      BY <3>2, <3>3
  <2>4. TopicsOf(Msg(c, k)) \subseteq Topics
    BY DEF TopicsOf
  <2> QED
    BY <2>2, <2>3, <2>4 DEF Silent
<1> QED
  BY <1>1, BusInvariant, PTL

(* A message is consumed once in a topic if its call had a transaction,    *)
(* and otherwise at most as often as its type occurs in the call, never    *)
(* before its time.                                                        *)
THEOREM RepetitionsAreAbsorbed == Spec => []ConsumedOnce
<1>1. BusInv => ConsumedOnce
  <2> SUFFICES ASSUME BusInv, NEW c \in Callers, NEW k \in DOMAIN call[c].msgs, NEW t \in Topics
               PROVE  /\ delivered[Msg(c, k)][t] <= IF call[c].inTx THEN 1 ELSE Repeats(c, k)
                      /\ delivered[Msg(c, k)][t] > 0 => call[c].at <= clock
    BY DEF ConsumedOnce, Msg, Repeats
  <2>1. TypeOK /\ k \in 1 .. Len(call[c].msgs) /\ Msg(c, k) \in Messages
    BY CallTypes DEF BusInv
  <2>2. MessageIsOnItsWay(c, k, t)
    BY <2>1 DEF BusInv
  <2>3. /\ delivered[Msg(c, k)][t] \in Nat /\ Repeats(c, k) \in Nat
        /\ Count(Msg(c, k), t) \in {delivered[Msg(c, k)][t], delivered[Msg(c, k)][t] + 1}
    BY <2>1, CountIsNat, RepeatsPositive
  <2>4. Count(Msg(c, k), t) <= IF call[c].inTx THEN 1 ELSE Repeats(c, k)
    BY <2>2 DEF MessageIsOnItsWay
  <2>5. delivered[Msg(c, k)][t] <= Count(Msg(c, k), t)
    BY <2>3
  <2> QED
    BY <2>2, <2>3, <2>4, <2>5 DEF MessageIsOnItsWay
<1> QED
  BY <1>1, BusInvariant, PTL

=============================================================================
