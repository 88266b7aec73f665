------------------------------ MODULE PublishPath ------------------------------
(***************************************************************************)
(* How a call becomes a timer in Redis: broker.publish, a publisher object *)
(* (of the broker or of a router), a handler's return value published by   *)
(* the decorator, and the cancellations that address what was published.   *)
(*                                                                         *)
(* A full topic is a prefix followed by a topic; what matters of that      *)
(* concatenation is which pairs give one key, so FullTopic is a constant.  *)
(* gen_cor_id never repeats: `Generated` is a pool it draws from.          *)
(*                                                                         *)
(* Any of it may run inside `async with TestTimersBroker`, which swaps the *)
(* producer and the Redis client: a publication is then recorded and given *)
(* to the subscribers at once, and nothing reaches Redis.                  *)
(***************************************************************************)
EXTENDS TimerStore, Sequences

CONSTANTS
    Prefix, BrokerPrefix,  \* prefixes of the broker and of its routers
    Topic, EmptyTopic,     \* topics as users write them
    FullTopic,             \* <<prefix, topic>> -> Redis key
    Publisher,             \* publisher objects: [prefix, topic]
    Subscribers,           \* broker.subscribers, the routers' among them, in order
    Blank,                 \* the timer_id ""
    Generated,             \* the ids gen_cor_id makes
    Delay,                 \* the values of activate_in; 0 is its default
    AwareTime, Naive,      \* the values of activate_at; None is its default
    MaxTime                \* bound of the model

Publication == Payload
Endpoint    == [prefix : Prefix, topic : Topic]
UserId      == TimerId \ (Generated \cup {Blank})
Key         == {FullTopic[a] : a \in Prefix \X Topic}

\* What a publication was sent with.
Shipment    == [at : Endpoint, id : TimerId, activation : Int]

ASSUME PublishAssumption ==
    /\ None \notin Shipment
    /\ BrokerPrefix \in Prefix /\ EmptyTopic \in Topic
    /\ DOMAIN FullTopic = Prefix \X Topic
    /\ Publisher \subseteq Endpoint /\ Subscribers \in Seq(Endpoint)
    /\ Blank \in TimerId /\ Generated \subseteq TimerId \ {Blank}
    /\ Delay \subseteq Int /\ AwareTime \subseteq Int
    /\ MaxTime \in Nat

VARIABLES
    now,    \* the wall clock
    stores, \* key -> the topic's timers
    testing, \* inside the `async with` of a TestTimersBroker ...
    records, \* ... and its scheduled_timers, which outlive it
    \* history
    handled, \* publication -> the subscribers (or the mock) a test ran with it
    tested, \* publications of a test
    sent,   \* publication -> the endpoint, id and time it was sent with, or None
    undone, \* publications their user cancelled or overwrote by id
    answers \* publications that are a handler's return value

testVars == <<testing, records, handled, tested>>
vars == <<now, stores, sent, undone, answers, testVars>>

ScheduledTimer == [p : Publication, topic : Key, timer_id : TimerId, activate_at : Int]

\* The fake subscriber of a publisher nobody listens to: the mock's place among
\* the indices of Subscribers.
Mock == 0

\* The range of the variables; every activation is a point in time, because
\* resolve_activate_at refused the calls that have none.
TypeOK ==
    /\ now \in Nat
    /\ stores \in [Key -> Store]
    /\ sent \in [Publication -> Shipment \cup {None}]
    /\ undone \subseteq Publication /\ answers \subseteq Publication
    /\ testing \in BOOLEAN /\ records \in Seq(ScheduledTimer)
    /\ handled \in [Publication -> SUBSET (DOMAIN Subscribers \cup {Mock})]
    /\ tested \subseteq Publication

Init ==
    /\ now = 0
    /\ stores = [k \in Key |-> EmptyStore]
    /\ sent = [p \in Publication |-> None]
    /\ undone = {} /\ answers = {}
    /\ testing = FALSE /\ records = <<>>
    /\ handled = [p \in Publication |-> {}] /\ tested = {}

KeyOf(e) == FullTopic[<<e.prefix, e.topic>>]
OnBroker(topic) == [prefix |-> BrokerPrefix, topic |-> topic]

\* _require_topic; publisher objects do not call it.
RequireTopic(topic) == topic # EmptyTopic

\* Endpoints of one key share its timers: the broker takes full topics, so it reaches
\* every router's, and so does a router whose prefix and topic happen to join to the
\* same full topic.
SameTarget(e, f) == KeyOf(e) = KeyOf(f)

\* The timers a user names by an endpoint and an id.
Named(e, id) ==
    {p \in Publication \ tested :
        sent[p] # None /\ sent[p].id = id /\ SameTarget(e, sent[p].at)}

\* Faulty: the client keeps talking to Redis in a test.
NotPatched == FALSE

\* _patch_broker: the store of every endpoint goes through the connection's client,
\* which is a mock in a test.  It finds nothing and changes nothing.
Patched == testing

Client(key) == IF Patched THEN EmptyStore ELSE stores[key]

Write(key, s) == stores' = IF Patched THEN stores ELSE [stores EXCEPT ![key] = s]

Undo(ps) == undone' = IF testing THEN undone ELSE undone \cup ps

\* Faulty: a naive activate_at is not refused.
ResolveUnchecked(in, at) == IF at = None THEN now + in ELSE at

\* resolve_activate_at; None is a ValueError.
Resolve(in, at) ==
    IF at = None THEN now + in
    ELSE IF in # 0 \/ at = Naive THEN None ELSE at

\* `timer_id or gen_cor_id()`
ResolveId(id) ==
    IF id # Blank THEN {id}
    ELSE Generated \ {sent[p].id : p \in {q \in Publication : sent[q] # None}}

\* The producer: encode, then schedule under the command's destination.
Ship(p, key, id, activation) ==
    /\ ~testing
    /\ Write(key, Schedule(stores[key], id, p, activation))
    /\ UNCHANGED testVars

\* The subscribers whose full topic is the key.
Own(key) == {i \in DOMAIN Subscribers : KeyOf(Subscribers[i]) = key}

ServedKeys == {KeyOf(Subscribers[i]) : i \in DOMAIN Subscribers}

\* Faulty: "the latter omits every router's".
FakeKeysOfOwn ==
    {KeyOf(e) : e \in Publisher} \
        {KeyOf(Subscribers[i]) : i \in {j \in DOMAIN Subscribers :
                                          Subscribers[j].prefix = BrokerPrefix}}

\* create_publisher_fake_subscriber: a mock listens where nobody does.
FakeKeys == {KeyOf(e) : e \in Publisher} \ ServedKeys

Listeners(key) == Own(key) \cup (IF key \in FakeKeys THEN {Mock} ELSE {})

\* FakeTimersProducer.publish awaits them one after the other; one that raises is the last.
Runs(key) ==
    IF Listeners(key) = {} THEN {{}}
    ELSE {{i \in Listeners(key) : i <= last} : last \in Listeners(key)}

\* _patch_producer, in a test: record, then deliver before publish() returns.
FakeShip(p, key, id, activation) ==
    /\ testing
    /\ records' = Append(records, [p |-> p, topic |-> key, timer_id |-> id,
                                   activate_at |-> activation])
    /\ \E ran \in Runs(key) : handled' = [handled EXCEPT ![p] = ran]
    /\ tested' = tested \cup {p}
    /\ UNCHANGED <<stores, testing>>

Produce(p, e, key, id, activation) ==
    /\ sent[p] = None
    /\ sent' = [sent EXCEPT ![p] = [at |-> e, id |-> id, activation |-> activation]]
    /\ Ship(p, key, id, activation) \/ FakeShip(p, key, id, activation)
    /\ UNCHANGED now

PublishTo(p, e, key, id, in, at) ==
    /\ Resolve(in, at) # None
    /\ \E timer_id \in ResolveId(id) :
         /\ Produce(p, e, key, timer_id, Resolve(in, at))
         /\ Undo(Named(e, timer_id))
    /\ UNCHANGED answers

BrokerPublish(p, topic, id, in, at) ==
    /\ RequireTopic(topic)
    /\ PublishTo(p, OnBroker(topic), KeyOf(OnBroker(topic)), id, in, at)

\* A publisher object's own publish.
PublisherPublish(p, e, id, in, at) == PublishTo(p, e, KeyOf(e), id, in, at)

\* TimerPublishCommand.from_cmd keeps no id and no time of the response.
FromCmd == [timer_id |-> Blank, activate_at |-> now]

\* @publisher on a handler.
PublishResponse(p, e) ==
    /\ Produce(p, e, KeyOf(e), FromCmd.timer_id, FromCmd.activate_at)
    /\ answers' = answers \cup {p}
    /\ UNCHANGED undone

\* The producer's cancel; the fake producer's does nothing.
CancelAt(key, e, id) ==
    /\ Write(key, Remove(stores[key], id))
    /\ Undo(Named(e, id))
    /\ UNCHANGED <<now, sent, answers, testVars>>

\* Faulty: the score alone is removed.
CancelScore(topic, id) ==
    /\ RequireTopic(topic)
    /\ LET e == OnBroker(topic) IN
         /\ Write(KeyOf(e), [timeline |-> [stores[KeyOf(e)].timeline EXCEPT ![id] = None],
                             payloads |-> stores[KeyOf(e)].payloads])
         /\ Undo(Named(e, id))
    /\ UNCHANGED <<now, sent, answers, testVars>>

BrokerCancel(topic, id) ==
    /\ RequireTopic(topic)
    /\ CancelAt(KeyOf(OnBroker(topic)), OnBroker(topic), id)

PublisherCancel(e, id) == CancelAt(KeyOf(e), e, id)

BrokerCancelAll(topic) ==
    LET e == OnBroker(topic) IN
    /\ RequireTopic(topic)
    /\ Write(KeyOf(e), CancelAll(stores[KeyOf(e)]))
    /\ Undo(UNION {Named(e, id) : id \in TimerId})
    /\ UNCHANGED <<now, sent, answers, testVars>>

\* The inspection of the broker, and of a publisher object, which lists its own key.
HasPending(topic, id) == IsPending(Client(KeyOf(OnBroker(topic))), id)

GetPendingTimers(topic, before) == Pending(Client(KeyOf(OnBroker(topic))), before)

\* Faulty: the router's prefix is forgotten.
FetchUnprefixed(e, dt) == Pending(Client(KeyOf(OnBroker(e.topic))), dt)

FetchRedisTimers(e, dt) == Pending(Client(KeyOf(e)), dt)

\* One TestTimersBroker is entered, left and entered again: its list goes on.
EnterTest ==
    /\ ~testing /\ testing' = TRUE
    /\ UNCHANGED <<now, stores, sent, undone, answers, records, handled, tested>>

ExitTest ==
    /\ testing /\ testing' = FALSE
    /\ UNCHANGED <<now, stores, sent, undone, answers, records, handled, tested>>

Tick == now < MaxTime /\ now' = now + 1 /\ UNCHANGED <<stores, sent, undone, answers, testVars>>

CallerId == UserId \cup {Blank}

Next ==
    \/ \E p \in Publication, id \in CallerId, in \in Delay,
          at \in AwareTime \cup {Naive, None} :
         \/ \E topic \in Topic : BrokerPublish(p, topic, id, in, at)
         \/ \E e \in Publisher : PublisherPublish(p, e, id, in, at)
    \/ \E p \in Publication, e \in Publisher : PublishResponse(p, e)
    \/ \E id \in TimerId :
         \/ \E topic \in Topic : BrokerCancel(topic, id)
         \/ \E e \in Publisher : PublisherCancel(e, id)
    \/ \E topic \in Topic : BrokerCancelAll(topic)
    \/ EnterTest \/ ExitTest
    \/ Tick

Spec == Init /\ [][Next]_vars
-------------------------------------------------------------------------------
(* Properties *)

\* p is in Redis under the key of the endpoint it was sent to, due when asked.
InPlace(p) ==
    LET s == stores[KeyOf(sent[p].at)] IN
    /\ s.payloads[sent[p].id] = p
    /\ s.timeline[sent[p].id] = sent[p].activation

Live(p) == sent[p] # None /\ p \notin undone \cup tested

\* What publish() accepted stays scheduled, at the time asked for and where the
\* endpoint's subscriber looks, until a call for the same key cancels it or publishes
\* its id again: other ids, generated ones too, other keys and tests do not touch it.
\* That call may come from another router, if its prefix and topic join to that key.
PublishedStays == \A p \in Publication \ answers : Live(p) => InPlace(p)

\* What a user cancelled or overwrote, through whichever endpoint names it, is gone
\* for good from every key.
UndoneIsGone ==
    \A p \in undone, k \in Key, id \in TimerId : stores[k].payloads[id] # p

\* The ids an inspection of a key owes its caller: what was sent there, is neither
\* cancelled nor overwritten, and asked to fire by `before`.
Expected(key, before) ==
    IF testing THEN {} ELSE {sent[p].id : p \in {q \in Publication \ answers :
        Live(q) /\ KeyOf(sent[q].at) = key /\ (before # None => sent[q].activation <= before)}}

\* "returns all timers on this publisher's topic that are due by dt" (publisher.md): the
\* inspections list these and no others, whichever of the endpoints that share a key,
\* of one router or of two, the timers were sent, cancelled or overwritten through.  In
\* a test they list nothing ("never any pending timers"), whatever Redis holds.
InspectionAgrees ==
    /\ \A topic \in Topic \ {EmptyTopic}, id \in TimerId \ {Blank} :
         HasPending(topic, id) <=> id \in Expected(KeyOf(OnBroker(topic)), None)
    /\ \A before \in 0 .. MaxTime \cup AwareTime :
         /\ \A topic \in Topic \ {EmptyTopic} :
              GetPendingTimers(topic, before) \ {Blank} = Expected(KeyOf(OnBroker(topic)), before)
         /\ \A e \in Publisher :
              FetchRedisTimers(e, before) \ {Blank} = Expected(KeyOf(e), before)

Record(p) == [p |-> p, topic |-> KeyOf(sent[p].at), timer_id |-> sent[p].id,
              activate_at |-> sent[p].activation]

\* "Records every publish() call" (testing.md): scheduled_timers has each publication of
\* a test once, with the topic, id and time production would have used, whoever made the
\* call; it ran the subscribers of its topic in order, a router's too, and a mock only
\* where there is none; and nothing of it is in Redis, nor anything else in the list.
TestsTell ==
    /\ \A p \in tested :
         LET own == Own(KeyOf(sent[p].at)) IN
         /\ \E i \in DOMAIN records :
              /\ records[i] = Record(p)
              /\ \A j \in DOMAIN records : records[j].p = p => j = i
         /\ handled[p] \subseteq own \cup {Mock}
         /\ own # {} => Mock \notin handled[p] /\ handled[p] # {}
         /\ \A i \in handled[p], j \in own : j < i => j \in handled[p]
         /\ \A k \in Key, id \in TimerId : stores[k].payloads[id] # p
    /\ \A i \in DOMAIN records : records[i].p \in tested

\* basic.md: "If you don't provide one, a UUID is generated automatically": the
\* return values of handlers, published with no id, do not overwrite each other.
ResponsesStay == \A p \in answers : Live(p) => InPlace(p)
===============================================================================
