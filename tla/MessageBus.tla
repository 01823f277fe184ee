----------------------------- MODULE MessageBus -----------------------------
(***************************************************************************)
(* The message bus: registration of message types and of handlers by       *)
(* topic, and the production of messages (pkg/message/busproducer.go,      *)
(* buslistener.go, event.go, task.go, serializer.go) into the message      *)
(* storage.  A call of Produce or Schedule sends each of its messages to   *)
(* every topic of the message's type, inside the caller's transaction or   *)
(* outside of any.  The pipeline from the storage to the handlers is one   *)
(* step here; MessagePipeline has its details.                             *)
(*                                                                         *)
(* messageTopics is filled once per message of a call, so that a type      *)
(* which occurs k times has each of its topics k times: every message of   *)
(* it is stored k times, and the primary key of the storage has to absorb  *)
(* the repetitions.                                                        *)
(***************************************************************************)
EXTENDS Integers, FiniteSets, Sequences

CONSTANTS
    Topics, Types,   \* topics, Go types of messages
    TypeName,        \* TypeName[g]: what Type() of the Go type returns
    Messages,        \* messages, by their ids
    TypeOf,          \* TypeOf[m]: the Go type of the message
    Registrations,   \* what the producer's Register may be called with
    Handlers,        \* Handlers[t]: type names with a handler, per topic
    Subscriptions,   \* what RegisterHandlers may be called with
    CallMessages,    \* the argument lists of Produce and Schedule
    Callers,         \* goroutines that produce
    MaxTime,         \* bound on the clock
    MaxFaults        \* bound on failing statements

ASSUME TypesAssumption == TypeOf \in [Messages -> Types] /\ DOMAIN TypeName = Types
ASSUME RegistrationsAssumption == Registrations \subseteq SUBSET (Topics \X Types)
(* Every event and task is made with an id of its own.                     *)
ASSUME ListsAssumption ==
    /\ CallMessages \subseteq Seq(Messages)
    /\ \A ms \in CallMessages : \A j, k \in DOMAIN ms : ms[j] = ms[k] => j = k
ASSUME BoundsAssumption == MaxTime \in Nat /\ MaxFaults \in Nat

Blank == ""

(* The at of Produce, a nil pointer.                                       *)
Now == -1

VARIABLES
    toRegister,     \* <<topic, type>> pairs the Register call has yet to come to
    producers,      \* the keys of producers: <<topic, type>> pairs
    messageTopics,  \* messageTopics[g]: topics of a Go type
    toSubscribe,    \* <<subscriber, topic>> pairs RegisterHandlers has yet to come to
    listeners,      \* the <<subscriber, topic>> pairs that have a listener
    call,           \* call[c]: the call of Produce the goroutine is in
    buffer,         \* buffer[c]: rows its transaction has inserted
    rows,           \* committed rows of message_storage
    delivered,      \* delivered[m][t]: how often a row of the message was consumed
    handled,        \* <<m, t>> given to a handler
    clock, faults

registerVars == <<toRegister, producers, messageTopics>>
listenVars   == <<toSubscribe, listeners>>
consumeVars  == <<delivered, handled>>
vars == <<registerVars, listenVars, call, buffer, rows, consumeVars, clock, faults>>

Row == [msg : Messages, topic : Topics, at : 0..MaxTime]

Idle == [state |-> "idle", msgs |-> <<>>, i |-> 1, j |-> 1, inTx |-> FALSE, at |-> 0]

TypeOK ==
    /\ toRegister \subseteq Topics \X Types /\ producers \subseteq Topics \X Types
    /\ messageTopics \in [Types -> Seq(Topics)]
    /\ call \in [Callers -> [state : {"idle", "send", "nil", "error"}, msgs : Seq(Messages),
                             i : Nat, j : Nat, inTx : BOOLEAN, at : Now..MaxTime]]
    /\ buffer \in [Callers -> SUBSET Row] /\ rows \subseteq Row
    /\ delivered \in [Messages -> [Topics -> Nat]]
    /\ handled \subseteq Messages \X Topics
    /\ clock \in 0..MaxTime /\ faults \in 0..MaxFaults

Init ==
    /\ toRegister \in Registrations
    /\ producers = {}
    /\ messageTopics = [g \in Types |-> <<>>]
    /\ toSubscribe \in Subscriptions
    /\ listeners = {}
    /\ call = [c \in Callers |-> Idle]
    /\ buffer = [c \in Callers |-> {}] /\ rows = {}
    /\ delivered = [m \in Messages |-> [t \in Topics |-> 0]] /\ handled = {}
    /\ clock = 0 /\ faults = 0

-----------------------------------------------------------------------------
(* Faulty variant: the topics of a type are assigned, not appended.        *)
SetTopic(g, t) == messageTopics' = [messageTopics EXCEPT ![g] = <<t>>]

AppendTopic(g, t) == messageTopics' = [messageTopics EXCEPT ![g] = Append(@, t)]

(* topicMessages: the type names the topic may carry.                      *)
TopicMessages(t) == {TypeName[g] : g \in {h \in Types : <<t, h>> \in producers}}

(* registerImpl, for the pairs of one Register call in the order of a map. *)
(* A blank or known type name ends the call; what came before it stays.    *)
RegisterImpl(t, g) ==
    /\ <<t, g>> \in toRegister
    /\ IF TypeName[g] \in TopicMessages(t) \union {Blank}
       THEN toRegister' = {} /\ UNCHANGED <<producers, messageTopics>>
       ELSE /\ toRegister' = toRegister \ {<<t, g>>}
            /\ producers' = producers \union {<<t, g>>}
            /\ AppendTopic(g, t)
    /\ UNCHANGED <<listenVars, call, buffer, rows, consumeVars, clock, faults>>

(* Faulty variant: the listener of a subscriber is kept by its name alone. *)
RegisterTopicHandlersByName(s, t) ==
    /\ <<s, t>> \in toSubscribe
    /\ IF \E l \in listeners : l[2] = t
       THEN toSubscribe' = {} /\ listeners' = {}
       ELSE /\ toSubscribe' = toSubscribe \ {<<s, t>>}
            /\ listeners' = {l \in listeners : l[1] # s} \union {<<s, t>>}
    /\ UNCHANGED <<registerVars, call, buffer, rows, consumeVars, clock, faults>>

(* registerTopicHandlers; the storage's consumers allow one for a topic.   *)
(* A refusal makes the worker panic, and no listener runs.                 *)
RegisterTopicHandlers(s, t) ==
    /\ <<s, t>> \in toSubscribe
    /\ IF \E l \in listeners : l[2] = t
       THEN toSubscribe' = {} /\ listeners' = {}
       ELSE /\ toSubscribe' = toSubscribe \ {<<s, t>>}
            /\ listeners' = listeners \union {<<s, t>>}
    /\ UNCHANGED <<registerVars, call, buffer, rows, consumeVars, clock, faults>>

-----------------------------------------------------------------------------
(* The messages of the call that have the type g.                          *)
Occurrences(ms, g) == {k \in DOMAIN ms : TypeOf[ms[k]] = g}

(* messageTopics of scheduleImpl: the topics of the type, repeated.        *)
TopicCount(ms, g) == Cardinality(Occurrences(ms, g)) * Len(messageTopics[g])
TopicAt(g, j) == messageTopics[g][((j - 1) % Len(messageTopics[g])) + 1]

TypesKnown(ms) == \A k \in DOMAIN ms : messageTopics[TypeOf[ms[k]]] # <<>>

Sent(m) == \E c \in Callers : \E k \in DOMAIN call[c].msgs : call[c].msgs[k] = m

(* scheduleImpl up to the first produce: an unknown type ends the call.    *)
Produce(c, ms, inTx, at) ==
    /\ toRegister = {} /\ call[c].state = "idle"
    /\ \A k \in DOMAIN ms : ~Sent(ms[k])
    /\ call' = [call EXCEPT ![c] = [state |-> IF TypesKnown(ms) THEN "send" ELSE "error",
                                    msgs |-> ms, i |-> 1, j |-> 1, inTx |-> inTx, at |-> at]]
    /\ UNCHANGED <<registerVars, listenVars, buffer, rows, consumeVars, clock, faults>>

(* Dispatch of events.                                                     *)
Dispatch(c, events, inTx) == Produce(c, events, inTx, Now)

(* Schedule of tasks.                                                      *)
Schedule(c, tasks, inTx, at) == Produce(c, tasks, inTx, at)

(* Faulty variant: scheduled_at is part of the primary key.                *)
InsertAlways(set, row, others) == set \union {row}

(* on conflict (id, topic) do nothing.                                     *)
Insert(set, row, others) ==
    IF \E r \in set \union others : r.msg = row.msg /\ r.topic = row.topic THEN set ELSE set \union {row}

ScheduledAt(c) == IF call[c].at = Now THEN clock ELSE call[c].at

Store(c, row) ==
    IF call[c].inTx
    THEN buffer' = [buffer EXCEPT ![c] = Insert(@, row, rows)] /\ UNCHANGED rows
    ELSE rows' = Insert(rows, row, {}) /\ UNCHANGED buffer

(* One produce of the inner loop, serialization included.                  *)
Send(c) ==
    LET m == call[c].msgs[call[c].i]
        g == TypeOf[m]
        row == [msg |-> m, topic |-> TopicAt(g, call[c].j), at |-> ScheduledAt(c)]
    IN  /\ call[c].state = "send" /\ call[c].i <= Len(call[c].msgs)
        /\ Store(c, row)
        /\ call' = IF call[c].j < TopicCount(call[c].msgs, g)
                   THEN [call EXCEPT ![c].j = @ + 1]
                   ELSE [call EXCEPT ![c].i = @ + 1, ![c].j = 1]
        /\ UNCHANGED <<registerVars, listenVars, consumeVars, clock, faults>>

(* A produce fails: the call returns the error, a transaction around it is *)
(* rolled back.                                                            *)
SendFails(c) ==
    /\ call[c].state = "send"
    /\ faults < MaxFaults /\ faults' = faults + 1
    /\ call' = [call EXCEPT ![c].state = "error"]
    /\ buffer' = [buffer EXCEPT ![c] = {}]
    /\ UNCHANGED <<registerVars, listenVars, rows, consumeVars, clock>>

(* The call returns nil; the transaction around it commits.                *)
Return(c) ==
    /\ call[c].state = "send" /\ call[c].i > Len(call[c].msgs)
    /\ call' = [call EXCEPT ![c].state = "nil"]
    /\ rows' = rows \union buffer[c]
    /\ buffer' = [buffer EXCEPT ![c] = {}]
    /\ UNCHANGED <<registerVars, listenVars, consumeVars, clock, faults>>

-----------------------------------------------------------------------------
(* The listener of the topic has a deserializer and handlers for the type. *)
Deserializable(r) == TypeName[TypeOf[r.msg]] \in Handlers[r.topic]

(* A listener consumes a due row.  A message of an unknown type is         *)
(* acknowledged all the same.                                              *)
Consume(r) ==
    /\ toSubscribe = {} /\ \E l \in listeners : l[2] = r.topic
    /\ r \in rows /\ r.at <= clock
    /\ rows' = rows \ {r}
    /\ delivered' = [delivered EXCEPT ![r.msg][r.topic] = @ + 1]
    /\ handled' = IF Deserializable(r)
                  THEN handled \union {<<r.msg, r.topic>>} ELSE handled
    /\ UNCHANGED <<registerVars, listenVars, call, buffer, clock, faults>>

Tick ==
    /\ clock < MaxTime
    /\ clock' = clock + 1
    /\ UNCHANGED <<registerVars, listenVars, call, buffer, rows, consumeVars, faults>>

Step(c) == Send(c) \/ Return(c)

Next ==
    \/ \E p \in toRegister : RegisterImpl(p[1], p[2])
    \/ \E p \in toSubscribe : RegisterTopicHandlers(p[1], p[2])
    \/ \E c \in Callers :
        \/ Step(c) \/ SendFails(c)
        \/ \E ms \in CallMessages, inTx \in BOOLEAN :
            Dispatch(c, ms, inTx) \/ \E at \in 0..MaxTime : Schedule(c, ms, inTx, at)
    \/ \E r \in rows : Consume(r)
    \/ Tick

Spec == Init /\ [][Next]_vars

(* Registration ends, calls return, time passes and listeners consume.     *)
Fairness ==
    /\ WF_vars(\E p \in toRegister : RegisterImpl(p[1], p[2]))
    /\ WF_vars(\E p \in toSubscribe : RegisterTopicHandlers(p[1], p[2]))
    /\ \A c \in Callers : WF_vars(Step(c))
    /\ WF_vars(\E r \in rows : Consume(r))
    /\ WF_vars(Tick)

FairSpec == Spec /\ Fairness

-----------------------------------------------------------------------------
TopicsOf(m) == {t \in Topics : <<t, TypeOf[m]>> \in producers}

Reached(m, t) == delivered[m][t] > 0 \/ \E r \in rows : r.msg = m /\ r.topic = t

(* A call that returned nil has reached every topic of each of its         *)
(* messages.  One that failed has reached none, if it ran in a transaction *)
(* or had a message of an unknown type: the types are looked up before     *)
(* anything is sent.                                                       *)
CompleteOrNothing ==
    \A c \in Callers : \A k \in DOMAIN call[c].msgs :
        LET m == call[c].msgs[k]
        IN  /\ call[c].state = "nil" => \A t \in TopicsOf(m) : Reached(m, t)
            /\ call[c].state = "error" /\ (call[c].inTx \/ ~TypesKnown(call[c].msgs))
               => \A t \in Topics : ~Reached(m, t)

(* A message of a call in a transaction is consumed once in a topic,       *)
(* although it is inserted once for every message of its type in the call. *)
(* Outside a transaction a listener may consume it between two of these    *)
(* inserts, so that it comes as often as its type in the call, not more.   *)
(* No handler sees a scheduled message before its time.                    *)
ConsumedOnce ==
    \A c \in Callers : \A k \in DOMAIN call[c].msgs :
        LET m == call[c].msgs[k]
        IN  \A t \in Topics :
                /\ delivered[m][t] <= IF call[c].inTx THEN 1
                                      ELSE Cardinality(Occurrences(call[c].msgs, TypeOf[m]))
                /\ delivered[m][t] > 0 => call[c].at <= clock

(* What a call that returned nil has sent comes to the handlers of every   *)
(* topic of its type, unless the registration of the handlers failed and   *)
(* there is no worker.                                                     *)
SentIsHandled ==
    \A c \in Callers : \A m \in Messages : \A t \in Topics :
        (/\ call[c].state = "nil" /\ (\E k \in DOMAIN call[c].msgs : call[c].msgs[k] = m)
         /\ t \in TopicsOf(m) /\ TypeName[TypeOf[m]] \in Handlers[t])
            ~> (<<m, t>> \in handled \/ (toSubscribe = {} /\ listeners = {}))
=============================================================================
