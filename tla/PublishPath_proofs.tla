--------------------------- MODULE PublishPath_proofs ---------------------------
(* Publications, cancellations and tests, for any topics, routers and subscribers. *)
EXTENDS PublishPath, TimerStore_proofs, TLAPS

\* A timer in Redis is filed under what it was sent with, and is nobody's past.
Filed ==
    \A k \in Key, i \in TimerId :
        LET p == stores[k].payloads[i] IN
        /\ p = None <=> stores[k].timeline[i] = None
        /\ p # None => /\ sent[p] # None /\ p \notin undone /\ p \notin tested
                       /\ KeyOf(sent[p].at) = k /\ sent[p].id = i
                       /\ stores[k].timeline[i] = sent[p].activation

\* What the histories say of each other: only the decorator sends the id "".
Histories ==
    /\ \A p \in undone \cup tested \cup answers : sent[p] # None
    /\ \A p \in Publication : sent[p] # None => (p \in answers <=> sent[p].id = Blank)

\* What a test leaves behind, Redis aside.
Recorded ==
    /\ \A i \in DOMAIN records : /\ records[i].p \in tested
                                 /\ records[i] = Record(records[i].p)
    /\ \A p \in tested : \E i \in DOMAIN records : records[i].p = p
    /\ \A i, j \in DOMAIN records : records[i].p = records[j].p => i = j
    /\ \A p \in tested : handled[p] \in Runs(KeyOf(sent[p].at))

IInv == TypeOK /\ Filed /\ Histories /\ Recorded

-------------------------------------------------------------------------------
(* The four kinds of step, whoever takes them. *)

\* The histories of a call that is accepted: a caller's own id undoes what it
\* overwrites, the decorator's "" undoes nothing.
Accepted(p, id, overwritten) ==
    \/ id # Blank /\ answers' = answers /\ undone' = undone \cup overwritten
    \/ id = Blank /\ answers' = answers \cup {p} /\ undone' = undone

Shipped(p, e, id, at) ==
    /\ sent[p] = None /\ ~testing
    /\ stores' = [stores EXCEPT ![KeyOf(e)] = Schedule(stores[KeyOf(e)], id, p, at)]
    /\ sent' = [sent EXCEPT ![p] = [at |-> e, id |-> id, activation |-> at]]
    /\ UNCHANGED <<now, testVars>>
    /\ Accepted(p, id, Named(e, id))

FakeShipped(p, e, id, at) ==
    /\ sent[p] = None /\ FakeShip(p, KeyOf(e), id, at)
    /\ sent' = [sent EXCEPT ![p] = [at |-> e, id |-> id, activation |-> at]]
    /\ UNCHANGED now
    /\ Accepted(p, id, {})

\* The publications that reached a key.
SentTo(k) == {q \in Publication \ tested : sent[q] # None /\ KeyOf(sent[q].at) = k}

\* A removal at one key, which leaves t there, and the publications U it undoes.
Removed(k, t, U) ==
    /\ \A i \in TimerId : \/ t.timeline[i] = None /\ t.payloads[i] = None
                          \/ /\ t.timeline[i] = stores[k].timeline[i]
                             /\ t.payloads[i] = stores[k].payloads[i]
    /\ \A q \in U : /\ sent[q] # None /\ KeyOf(sent[q].at) = k
                    /\ t.payloads[sent[q].id] = None
    /\ \A q \in SentTo(k) : t.payloads[sent[q].id] # stores[k].payloads[sent[q].id] => q \in U
    /\ stores' = [stores EXCEPT ![k] = t] /\ undone' = undone \cup U
    /\ UNCHANGED <<now, sent, answers, testVars>>

\* The clock, entering and leaving a test, and whatever a test's mock client swallows.
Untouched ==
    /\ UNCHANGED <<stores, sent, undone, answers, records, handled, tested>>
    /\ now' \in Nat /\ testing' \in BOOLEAN

LEMMA KeyType == \A e \in Endpoint : KeyOf(e) \in Key
BY DEF Endpoint, KeyOf, Key

LEMMA OnBrokerType == \A topic \in Topic : OnBroker(topic) \in Endpoint
BY PublishAssumption DEF OnBroker, Endpoint

LEMMA NoneIsNoShipment == None \notin Publication
BY NoneAssumption DEF Publication

LEMMA InitInv == Init => IInv
<1> SUFFICES ASSUME Init PROVE IInv
  OBVIOUS
<1>1. EmptyStore \in Store
  BY DEF EmptyStore, Store, Score
<1>2. TypeOK
  <2>1. <<>> \in Seq(ScheduledTimer)
    OBVIOUS
  <2>2. stores \in [Key -> Store] /\ sent \in [Publication -> Shipment \cup {None}]
    BY <1>1 DEF Init
  <2>3. handled \in [Publication -> SUBSET (DOMAIN Subscribers \cup {Mock})]
    BY DEF Init
  <2> QED BY <2>1, <2>2, <2>3 DEF Init, TypeOK
<1>3. Filed
  BY DEF Init, Filed, EmptyStore
<1>4. Histories /\ Recorded
  BY DEF Init, Histories, Recorded
<1> QED BY <1>2, <1>3, <1>4 DEF IInv

\* The subscribers a test runs are listeners of the key.
LEMMA RunsType == \A k \in Key : \A ran \in Runs(k) : ran \in SUBSET (DOMAIN Subscribers \cup {Mock})
BY DEF Runs, Listeners, Own

\* schedule, for the caller's own id or the decorator's "".
LEMMA ShipStep ==
    ASSUME IInv, NEW p \in Publication, NEW e \in Endpoint, NEW id \in TimerId, NEW at \in Int,
           Shipped(p, e, id, at)
    PROVE  IInv'
<1> DEFINE k == KeyOf(e)
           s == stores[k]
           t == Schedule(s, id, p, at)
           ship == [at |-> e, id |-> id, activation |-> at]
<1> USE DEF Shipped, Accepted
<1>1. k \in Key /\ s \in Store /\ t \in Store
  BY KeyType, StoreTypes DEF IInv, TypeOK, Publication
<1>2. ship \in Shipment /\ ship # None /\ p # None
  <2>1. ship \in Shipment
    BY DEF Shipment
  <2> QED BY <2>1, PublishAssumption, NoneIsNoShipment
<1>3. /\ t.timeline[id] = at /\ t.payloads[id] = p
      /\ \A i \in TimerId \ {id} : t.timeline[i] = s.timeline[i] /\ t.payloads[i] = s.payloads[i]
  BY <1>1, ScheduleEffect DEF Publication
<1>4. at # None
  BY NoneAssumption
<1>5. p \notin undone /\ p \notin tested /\ p \notin answers
  BY DEF IInv, Histories
<1>6. /\ stores' = [stores EXCEPT ![k] = t] /\ sent' = [sent EXCEPT ![p] = ship]
      /\ undone' \subseteq undone \cup Named(e, id)
  OBVIOUS
<1>7. Named(e, id) \subseteq Publication
  BY DEF Named
<1> HIDE DEF t, ship
<1>a. TypeOK'
  <2>1. stores' \in [Key -> Store] /\ sent' \in [Publication -> Shipment \cup {None}]
    BY <1>1, <1>2, <1>6 DEF IInv, TypeOK
  <2>2. undone' \subseteq Publication /\ answers' \subseteq Publication
    BY <1>6, <1>7 DEF IInv, TypeOK
  <2> QED BY <2>1, <2>2 DEF IInv, TypeOK, testVars
<1>b. Filed'
  <2> SUFFICES ASSUME NEW l \in Key, NEW i \in TimerId
               PROVE  LET q == stores'[l].payloads[i] IN
                      /\ q = None <=> stores'[l].timeline[i] = None
                      /\ q # None => /\ sent'[q] # None /\ q \notin undone' /\ q \notin tested'
                                     /\ KeyOf(sent'[q].at) = l /\ sent'[q].id = i
                                     /\ stores'[l].timeline[i] = sent'[q].activation
    BY DEF Filed, KeyOf
  <2>1. CASE l = k /\ i = id
    <3>1. stores'[l].payloads[i] = p /\ stores'[l].timeline[i] = at /\ sent'[p] = ship
      BY <2>1, <1>1, <1>3, <1>6 DEF IInv, TypeOK
    <3>2. p \notin Named(e, id)
      BY DEF Named
    <3>3. ship.at = e /\ ship.id = id /\ ship.activation = at
      BY DEF ship
    <3> QED BY <3>1, <3>2, <3>3, <2>1, <1>2, <1>4, <1>5, <1>6 DEF testVars
  <2>2. CASE ~(l = k /\ i = id)
    <3> DEFINE q == stores[l].payloads[i]
    <3>1. stores'[l].payloads[i] = q /\ stores'[l].timeline[i] = stores[l].timeline[i]
      BY <2>2, <1>1, <1>3, <1>6 DEF IInv, TypeOK
    <3>2. q \in Publication \cup {None}
      BY DEF IInv, TypeOK, Store, Publication
    <3>3. /\ q = None <=> stores[l].timeline[i] = None
          /\ q # None => /\ sent[q] # None /\ q \notin undone /\ q \notin tested
                         /\ KeyOf(sent[q].at) = l /\ sent[q].id = i
                         /\ stores[l].timeline[i] = sent[q].activation
      BY DEF IInv, Filed
    <3>4. q # None => sent'[q] = sent[q]
      BY <3>2, <3>3, <1>6 DEF IInv, TypeOK
    <3>5. q # None => q \notin Named(e, id)
      BY <3>3, <2>2 DEF Named, SameTarget
    <3> QED BY <3>1, <3>3, <3>4, <3>5, <1>6 DEF testVars
  <2> QED BY <2>1, <2>2
<1>c. Histories'
  <2>1. \A q \in Publication : sent'[q] = IF q = p THEN ship ELSE sent[q]
    BY <1>6 DEF IInv, TypeOK
  <2>2. ship.id = id
    BY DEF ship
  <2>3. \A q \in Named(e, id) : sent[q] # None
    BY DEF Named
  <2>4. undone \cup tested \cup answers \subseteq Publication
    BY DEF IInv, TypeOK
  <2>5. \A q \in undone' \cup tested' \cup answers' : sent'[q] # None
    BY <2>1, <2>3, <2>4, <1>2, <1>6, <1>7 DEF IInv, Histories, testVars
  <2>6. \A q \in Publication : sent'[q] # None => (q \in answers' <=> sent'[q].id = Blank)
    BY <2>1, <2>2, <1>5 DEF IInv, Histories
  <2> QED BY <2>5, <2>6 DEF Histories
<1>d. Recorded'
  <2>1. \A q \in tested : sent'[q] = sent[q]
    BY <1>5, <1>6 DEF IInv, TypeOK
  <2>3. UNCHANGED <<records, tested, handled>>
    BY DEF testVars
  <2>4. \A q \in tested : handled[q] \in Runs(KeyOf(sent'[q].at))
    BY <2>1 DEF IInv, Recorded
  <2>5. \A i \in DOMAIN records :
          records[i].p \in tested /\ records[i] = Record(records[i].p)
    BY DEF IInv, Recorded
  <2>6. \A i \in DOMAIN records : sent'[records[i].p] = sent[records[i].p]
    BY <2>1, <2>5
  <2>7. \A i \in DOMAIN records :
          records[i] = [p |-> records[i].p, topic |-> KeyOf(sent'[records[i].p].at),
                        timer_id |-> sent'[records[i].p].id,
                        activate_at |-> sent'[records[i].p].activation]
    BY <2>5, <2>6 DEF Record
  <2> QED BY <2>3, <2>4, <2>5, <2>7 DEF IInv, Recorded, Record
<1> QED BY <1>a, <1>b, <1>c, <1>d DEF IInv

\* The fake producer, in a test.
LEMMA FakeShipStep ==
    ASSUME IInv, NEW p \in Publication, NEW e \in Endpoint, NEW id \in TimerId, NEW at \in Int,
           FakeShipped(p, e, id, at)
    PROVE  IInv'
<1> DEFINE k == KeyOf(e)
           ship == [at |-> e, id |-> id, activation |-> at]
           rec == [p |-> p, topic |-> k, timer_id |-> id, activate_at |-> at]
<1> USE DEF FakeShipped, Accepted
<1>1. k \in Key /\ rec \in ScheduledTimer
  BY KeyType DEF ScheduledTimer
<1>2. ship \in Shipment /\ ship # None
  <2>1. ship \in Shipment
    BY DEF Shipment
  <2> QED BY <2>1, PublishAssumption
<1>3. /\ ship.at = e /\ ship.id = id /\ ship.activation = at
      /\ rec.p = p /\ rec = [p |-> p, topic |-> KeyOf(ship.at), timer_id |-> ship.id,
                             activate_at |-> ship.activation]
  OBVIOUS
<1>4. /\ testing /\ records' = Append(records, rec) /\ tested' = tested \cup {p}
      /\ UNCHANGED <<stores, testing>> /\ sent' = [sent EXCEPT ![p] = ship]
  BY DEF FakeShip
<1>5. PICK ran \in Runs(k) : handled' = [handled EXCEPT ![p] = ran]
  BY DEF FakeShip
<1>6. p \notin undone /\ p \notin tested /\ p \notin answers
  BY DEF IInv, Histories
<1>7. \A q \in Publication : sent'[q] = IF q = p THEN ship ELSE sent[q]
  BY <1>4 DEF IInv, TypeOK
<1>8. tested \subseteq Publication /\ records \in Seq(ScheduledTimer)
  BY DEF IInv, TypeOK
<1> HIDE DEF ship, rec
<1>a. TypeOK'
  <2>1. sent' \in [Publication -> Shipment \cup {None}] /\ records' \in Seq(ScheduledTimer)
    BY <1>1, <1>2, <1>4, <1>8 DEF IInv, TypeOK
  <2>2. handled' \in [Publication -> SUBSET (DOMAIN Subscribers \cup {Mock})]
    <3>1. ran \in SUBSET (DOMAIN Subscribers \cup {Mock})
      BY <1>1, <1>5, RunsType
    <3> QED BY <3>1, <1>5 DEF IInv, TypeOK
  <2>3. tested' \subseteq Publication /\ answers' \subseteq Publication
    BY <1>4 DEF IInv, TypeOK
  <2> QED BY <2>1, <2>2, <2>3, <1>4 DEF IInv, TypeOK
<1>b. Filed'
  <2> SUFFICES ASSUME NEW l \in Key, NEW i \in TimerId
               PROVE  LET q == stores[l].payloads[i] IN
                      /\ q = None <=> stores[l].timeline[i] = None
                      /\ q # None => /\ sent'[q] # None /\ q \notin undone /\ q \notin tested'
                                     /\ KeyOf(sent'[q].at) = l /\ sent'[q].id = i
                                     /\ stores[l].timeline[i] = sent'[q].activation
    BY <1>4 DEF Filed
  <2> DEFINE q == stores[l].payloads[i]
  <2>1. q \in Publication \cup {None}
    BY DEF IInv, TypeOK, Store, Publication
  <2>2. /\ q = None <=> stores[l].timeline[i] = None
        /\ q # None => /\ sent[q] # None /\ q \notin undone /\ q \notin tested
                       /\ KeyOf(sent[q].at) = l /\ sent[q].id = i
                       /\ stores[l].timeline[i] = sent[q].activation
    BY DEF IInv, Filed
  <2>3. q # None => sent'[q] = sent[q] /\ q # p
    BY <2>1, <2>2, <1>7
  <2> QED BY <2>2, <2>3, <1>4
<1>c. Histories'
  <2>1. undone \cup tested \cup answers \subseteq Publication
    BY DEF IInv, TypeOK
  <2>2. \A q \in undone' \cup tested' \cup answers' : sent'[q] # None
    BY <2>1, <1>2, <1>4, <1>7 DEF IInv, Histories
  <2>3. \A q \in Publication : sent'[q] # None => (q \in answers' <=> sent'[q].id = Blank)
    BY <1>3, <1>6, <1>7 DEF IInv, Histories
  <2> QED BY <2>2, <2>3 DEF Histories
<1>d. Recorded'
  <2>1. \A q \in tested : sent'[q] = sent[q]
    BY <1>6, <1>7, <1>8
  <2>2. \A i \in DOMAIN records : records'[i] = records[i]
    BY <1>4, <1>8
  <2>3. DOMAIN records' = DOMAIN records \cup {Len(records) + 1}
    BY <1>4, <1>8
  <2>4. records'[Len(records) + 1] = rec
    BY <1>1, <1>4, <1>8
  <2>5. \A i \in DOMAIN records : records[i].p \in tested /\ records[i] = Record(records[i].p)
    BY DEF IInv, Recorded
  <2>6. \A i \in DOMAIN records' :
          /\ records'[i].p \in tested'
          /\ records'[i] = [p |-> records'[i].p, topic |-> KeyOf(sent'[records'[i].p].at),
                            timer_id |-> sent'[records'[i].p].id,
                            activate_at |-> sent'[records'[i].p].activation]
    <3> SUFFICES ASSUME NEW i \in DOMAIN records'
                 PROVE  /\ records'[i].p \in tested'
                        /\ records'[i] = [p |-> records'[i].p,
                              topic |-> KeyOf(sent'[records'[i].p].at),
                              timer_id |-> sent'[records'[i].p].id,
                              activate_at |-> sent'[records'[i].p].activation]
      OBVIOUS
    <3>1. CASE i = Len(records) + 1
      BY <3>1, <2>4, <1>3, <1>4, <1>7
    <3>2. CASE i \in DOMAIN records
      BY <3>2, <2>1, <2>2, <2>5, <1>4 DEF Record
    <3> QED BY <3>1, <3>2, <2>3
  <2>7. \A q \in tested' : \E i \in DOMAIN records' : records'[i].p = q
    BY <2>2, <2>3, <2>4, <1>3, <1>4 DEF IInv, Recorded
  <2>8. \A i, j \in DOMAIN records' : records'[i].p = records'[j].p => i = j
    BY <2>2, <2>3, <2>4, <2>5, <1>3, <1>6 DEF IInv, Recorded
  <2>9. \A q \in tested' : handled'[q] \in Runs(KeyOf(sent'[q].at))
    <3> SUFFICES ASSUME NEW q \in tested'
                 PROVE  handled'[q] \in Runs(KeyOf(sent'[q].at))
      OBVIOUS
    <3>0. handled \in [Publication -> SUBSET (DOMAIN Subscribers \cup {Mock})]
      BY DEF IInv, TypeOK
    <3>1. CASE q = p
      BY <3>0, <3>1, <1>3, <1>5, <1>7
    <3>2. CASE q \in tested
      BY <3>0, <3>2, <2>1, <1>5, <1>6, <1>8 DEF IInv, Recorded
    <3> QED BY <3>1, <3>2, <1>4
  <2> QED BY <2>6, <2>7, <2>8, <2>9 DEF Recorded, Record
<1> QED BY <1>a, <1>b, <1>c, <1>d DEF IInv

\* A removal at one key, and the publications that its user thereby undoes.
LEMMA RemovalStep ==
    ASSUME IInv, NEW k \in Key, NEW t \in Store, NEW U \in SUBSET (Publication \ tested),
           Removed(k, t, U)
    PROVE  IInv'
<1> USE DEF Removed
<1>1. TypeOK'
  BY DEF IInv, TypeOK, testVars
<1>2. Filed'
  <2> SUFFICES ASSUME NEW l \in Key, NEW i \in TimerId
               PROVE  LET q == stores'[l].payloads[i] IN
                      /\ q = None <=> stores'[l].timeline[i] = None
                      /\ q # None => /\ sent[q] # None /\ q \notin undone' /\ q \notin tested
                                     /\ KeyOf(sent[q].at) = l /\ sent[q].id = i
                                     /\ stores'[l].timeline[i] = sent[q].activation
    BY DEF Filed, testVars
  <2> DEFINE q == stores[l].payloads[i]
  <2>1. /\ q = None <=> stores[l].timeline[i] = None
        /\ q # None => /\ sent[q] # None /\ q \notin undone /\ q \notin tested
                       /\ KeyOf(sent[q].at) = l /\ sent[q].id = i
                       /\ stores[l].timeline[i] = sent[q].activation
    BY DEF IInv, Filed
  <2>2. stores'[l] = IF l = k THEN t ELSE stores[l]
    BY DEF IInv, TypeOK
  <2>3. CASE stores'[l].payloads[i] = None /\ stores'[l].timeline[i] = None
    BY <2>3
  <2>4. CASE /\ stores'[l].payloads[i] = q /\ stores'[l].timeline[i] = stores[l].timeline[i]
             /\ q # None
    <3>1. q \notin U
      BY <2>1, <2>2, <2>4
    <3> QED BY <3>1, <2>1, <2>4
  <2> QED BY <2>1, <2>2, <2>3, <2>4
<1>3. Histories'
  BY DEF IInv, Histories, testVars
<1>4. Recorded'
  BY DEF IInv, Recorded, Record, testVars
<1> QED BY <1>1, <1>2, <1>3, <1>4 DEF IInv

LEMMA OtherStep ==
    ASSUME IInv, Untouched
    PROVE  IInv'
BY DEF Untouched, IInv, TypeOK, Filed, Histories, Recorded, Record
-------------------------------------------------------------------------------
(* Every step of the code is of one of those kinds. *)

Kinds ==
    \/ \E p \in Publication, e \in Endpoint, id \in TimerId, at \in Int :
         Shipped(p, e, id, at) \/ FakeShipped(p, e, id, at)
    \/ \E k \in Key, t \in Store, U \in SUBSET (Publication \ tested) : Removed(k, t, U)
    \/ Untouched

LEMMA ProduceKinds ==
    ASSUME IInv, NEW p \in Publication, NEW e \in Endpoint, NEW id \in TimerId, NEW at \in Int,
           Produce(p, e, KeyOf(e), id, at),
           \/ id # Blank /\ Undo(Named(e, id)) /\ answers' = answers
           \/ id = Blank /\ undone' = undone /\ answers' = answers \cup {p}
    PROVE  Kinds
<1>0. /\ sent[p] = None /\ UNCHANGED now
      /\ sent' = [sent EXCEPT ![p] = [at |-> e, id |-> id, activation |-> at]]
  BY DEF Produce
<1>1. CASE Ship(p, KeyOf(e), id, at)
  <2>1. ~testing /\ UNCHANGED testVars
    BY <1>1 DEF Ship
  <2>2. stores' = [stores EXCEPT ![KeyOf(e)] = Schedule(stores[KeyOf(e)], id, p, at)]
    BY <1>1, <2>1 DEF Ship, Write, Patched
  <2>3. Accepted(p, id, Named(e, id))
    BY <2>1 DEF Accepted, Undo
  <2>4. Shipped(p, e, id, at)
    BY <1>0, <2>1, <2>2, <2>3 DEF Shipped
  <2> QED BY <2>4 DEF Kinds
<1>2. CASE FakeShip(p, KeyOf(e), id, at)
  <2>1. testing
    BY <1>2 DEF FakeShip
  <2>2. Accepted(p, id, {})
    BY <2>1 DEF Accepted, Undo
  <2>3. FakeShipped(p, e, id, at)
    BY <1>0, <1>2, <2>2 DEF FakeShipped
  <2> QED BY <2>3 DEF Kinds
<1> QED BY <1>1, <1>2 DEF Produce

LEMMA PublishKinds ==
    ASSUME IInv, NEW p \in Publication, NEW e \in Endpoint, NEW id \in CallerId,
           NEW in \in Delay, NEW at \in AwareTime \cup {Naive, None},
           PublishTo(p, e, KeyOf(e), id, in, at)
    PROVE  Kinds
<1>1. Resolve(in, at) \in Int
  BY PublishAssumption DEF PublishTo, Resolve, IInv, TypeOK
<1>2. PICK timer_id \in ResolveId(id) :
        /\ Produce(p, e, KeyOf(e), timer_id, Resolve(in, at))
        /\ Undo(Named(e, timer_id)) /\ answers' = answers
  BY DEF PublishTo
<1>3. timer_id \in TimerId /\ timer_id # Blank
  BY PublishAssumption DEF ResolveId, CallerId, UserId
<1> QED BY <1>1, <1>2, <1>3, ProduceKinds

LEMMA ResponseKinds ==
    ASSUME IInv, NEW p \in Publication, NEW e \in Endpoint, PublishResponse(p, e)
    PROVE  Kinds
<1>1. /\ Produce(p, e, KeyOf(e), Blank, now)
      /\ undone' = undone /\ answers' = answers \cup {p}
  BY DEF PublishResponse, FromCmd
<1>2. Blank \in TimerId /\ now \in Int
  BY PublishAssumption DEF IInv, TypeOK
<1> QED BY <1>1, <1>2, ProduceKinds

LEMMA CancelKinds ==
    ASSUME IInv, NEW e \in Endpoint, NEW id \in TimerId, CancelAt(KeyOf(e), e, id)
    PROVE  Kinds
<1> DEFINE k == KeyOf(e)
           t == Remove(stores[k], id)
           U == Named(e, id)
<1>0. UNCHANGED <<now, sent, answers, testVars>>
  BY DEF CancelAt
<1>1. k \in Key /\ stores[k] \in Store
  BY KeyType DEF IInv, TypeOK
<1>2. CASE testing
  <2>1. Untouched
    BY <1>0, <1>2 DEF CancelAt, Write, Undo, Patched, Untouched, testVars, IInv, TypeOK
  <2> QED BY <2>1 DEF Kinds
<1>3. CASE ~testing
  <2>1. stores' = [stores EXCEPT ![k] = t] /\ undone' = undone \cup U
    BY <1>3 DEF CancelAt, Write, Undo, Patched
  <2>2. /\ t \in Store /\ t.timeline[id] = None /\ t.payloads[id] = None
        /\ \A i \in TimerId \ {id} : /\ t.timeline[i] = stores[k].timeline[i]
                                     /\ t.payloads[i] = stores[k].payloads[i]
    BY <1>1, StoreTypes, RemoveEffect
  <2>3. U \in SUBSET (Publication \ tested)
    BY DEF Named
  <2>4. \A q \in U : sent[q] # None /\ KeyOf(sent[q].at) = k /\ sent[q].id = id
    BY DEF Named, SameTarget
  <2>5. ASSUME NEW q \in Publication \ tested, sent[q] # None,
               KeyOf(sent[q].at) = k, sent[q].id = id
        PROVE  q \in U
    BY <2>5 DEF Named, SameTarget
  <2>6. \A q \in Publication : sent[q] # None => sent[q].id \in TimerId
    BY DEF IInv, TypeOK, Shipment
  <2> HIDE DEF t, U, k
  <2>7. Removed(k, t, U)
    <3>1. \A q \in SentTo(k) :
             t.payloads[sent[q].id] # stores[k].payloads[sent[q].id] => q \in U
      BY <2>2, <2>5, <2>6 DEF SentTo
    <3>2. \A q \in U : /\ sent[q] # None /\ KeyOf(sent[q].at) = k
                      /\ t.payloads[sent[q].id] = None
      BY <2>2, <2>4
    <3> QED BY <1>0, <2>1, <2>2, <3>1, <3>2 DEF Removed
  <2> QED BY <1>1, <2>2, <2>3, <2>7 DEF Kinds, k
<1> QED BY <1>2, <1>3

LEMMA CancelAllKinds ==
    ASSUME IInv, NEW topic \in Topic, BrokerCancelAll(topic)
    PROVE  Kinds
<1> DEFINE e == OnBroker(topic)
           k == KeyOf(e)
           t == EmptyStore
           U == UNION {Named(e, id) : id \in TimerId}
<1>0. UNCHANGED <<now, sent, answers, testVars>>
  BY DEF BrokerCancelAll
<1>1. e \in Endpoint /\ k \in Key /\ stores[k] \in Store
  BY KeyType, OnBrokerType DEF IInv, TypeOK
<1>2. CASE testing
  <2>1. Untouched
    BY <1>0, <1>2 DEF BrokerCancelAll, Write, Undo, Patched, Untouched, testVars, IInv, TypeOK
  <2> QED BY <2>1 DEF Kinds
<1>3. CASE ~testing
  <2>1. stores' = [stores EXCEPT ![k] = t] /\ undone' = undone \cup U
    BY <1>3 DEF BrokerCancelAll, Write, Undo, Patched, CancelAll
  <2>2. /\ t \in Store
        /\ \A i \in TimerId : t.timeline[i] = None /\ t.payloads[i] = None
    <3>1. t \in Store
      BY <1>1, StoreTypes, PublishAssumption
    <3> QED BY <3>1 DEF EmptyStore
  <2>3. U \in SUBSET (Publication \ tested)
    BY DEF Named
  <2>4. \A q \in U : sent[q] # None /\ KeyOf(sent[q].at) = k
    BY DEF Named, SameTarget
  <2>5. \A q \in Publication : sent[q] # None => sent[q].id \in TimerId
    BY DEF IInv, TypeOK, Shipment
  <2>6. ASSUME NEW q \in Publication \ tested, sent[q] # None, KeyOf(sent[q].at) = k
        PROVE  q \in U
    <3>1. q \in Named(e, sent[q].id)
      BY <2>6 DEF Named, SameTarget
    <3> QED BY <3>1, <2>5, <2>6
  <2> HIDE DEF t, U, k
  <2>7. Removed(k, t, U)
    <3>1. \A q \in SentTo(k) :
             t.payloads[sent[q].id] # stores[k].payloads[sent[q].id] => q \in U
      BY <2>6 DEF SentTo
    <3>2. \A q \in U : /\ sent[q] # None /\ KeyOf(sent[q].at) = k
                      /\ t.payloads[sent[q].id] = None
      BY <2>2, <2>3, <2>4, <2>5
    <3> QED BY <1>0, <2>1, <2>2, <3>1, <3>2 DEF Removed
  <2> QED BY <1>1, <2>2, <2>3, <2>7 DEF Kinds
<1> QED BY <1>2, <1>3

LEMMA NextKinds ==
    ASSUME IInv, [Next]_vars
    PROVE  Kinds
<1>0. Publisher \subseteq Endpoint
  BY PublishAssumption
<1>1. CASE \E p \in Publication, id \in CallerId, in \in Delay,
              at \in AwareTime \cup {Naive, None} :
             \/ \E topic \in Topic : BrokerPublish(p, topic, id, in, at)
             \/ \E e \in Publisher : PublisherPublish(p, e, id, in, at)
  <2>1. PICK p \in Publication, id \in CallerId, in \in Delay,
             at \in AwareTime \cup {Naive, None} :
             \E e \in Endpoint : PublishTo(p, e, KeyOf(e), id, in, at)
    BY <1>0, <1>1, OnBrokerType DEF BrokerPublish, PublisherPublish
  <2> QED BY <2>1, PublishKinds
<1>2. CASE \E p \in Publication, e \in Publisher : PublishResponse(p, e)
  BY <1>0, <1>2, ResponseKinds
<1>3. CASE \E id \in TimerId : \/ \E topic \in Topic : BrokerCancel(topic, id)
                              \/ \E e \in Publisher : PublisherCancel(e, id)
  <2>1. PICK id \in TimerId : \E e \in Endpoint : CancelAt(KeyOf(e), e, id)
    BY <1>0, <1>3, OnBrokerType DEF BrokerCancel, PublisherCancel
  <2> QED BY <2>1, CancelKinds
<1>4. CASE \E topic \in Topic : BrokerCancelAll(topic)
  BY <1>4, CancelAllKinds
<1>5. CASE EnterTest \/ ExitTest \/ Tick \/ UNCHANGED vars
  <2>0. now \in Nat /\ testing \in BOOLEAN
    BY DEF IInv, TypeOK
  <2>1. Untouched
    <3>1. CASE EnterTest
      BY <3>1, <2>0 DEF EnterTest, Untouched
    <3>2. CASE ExitTest
      BY <3>2, <2>0 DEF ExitTest, Untouched
    <3>3. CASE Tick
      BY <3>3, <2>0 DEF Tick, testVars, Untouched
    <3>4. CASE UNCHANGED vars
      BY <3>4, <2>0 DEF vars, testVars, Untouched
    <3> QED BY <3>1, <3>2, <3>3, <3>4, <1>5
  <2> QED BY <2>1 DEF Kinds
<1> QED BY <1>1, <1>2, <1>3, <1>4, <1>5 DEF Next

LEMMA StepInv == IInv /\ [Next]_vars => IInv'
BY NextKinds, ShipStep, FakeShipStep, RemovalStep, OtherStep DEF Kinds

LEMMA InvHolds == Spec => []IInv
BY InitInv, StepInv, PTL DEF Spec

\* Type correctness: every timer a user sees scheduled has an id and a point in time.
THEOREM PublishTypes == Spec => []TypeOK
BY InvHolds, PTL DEF IInv

\* A cancelled or overwritten publication is in Redis under no key.
THEOREM CancelledIsGone == Spec => []UndoneIsGone
<1>1. IInv => UndoneIsGone
  <2> SUFFICES ASSUME IInv, NEW p \in undone, NEW k \in Key, NEW id \in TimerId,
                      stores[k].payloads[id] = p
               PROVE  FALSE
    BY DEF UndoneIsGone
  <2>1. p # None
    BY NoneIsNoShipment DEF IInv, TypeOK
  <2> QED BY <2>1 DEF IInv, Filed
<1> QED BY <1>1, InvHolds, PTL

\* Which subscribers a test runs: the topic's own, in order, and the mock only alone.
LEMMA RunsEffect ==
    ASSUME NEW k \in Key, NEW ran \in Runs(k)
    PROVE  /\ ran \subseteq Own(k) \cup {Mock}
           /\ Own(k) # {} => Mock \notin ran /\ ran # {}
           /\ \A i \in ran, j \in Own(k) : j < i => j \in ran
<1>1. DOMAIN Subscribers \subseteq Nat \ {0}
  BY PublishAssumption
<1>2. Own(k) # {} => k \in ServedKeys
  BY DEF ServedKeys, Own
<1>3. Listeners(k) = Own(k) \cup (IF k \in FakeKeys THEN {Mock} ELSE {})
  BY DEF Listeners
<1>4. Own(k) # {} => Listeners(k) = Own(k) /\ Mock \notin Own(k)
  BY <1>1, <1>2, <1>3 DEF FakeKeys, Mock, Own
<1>5. Listeners(k) \subseteq Int
  BY <1>1, <1>3 DEF Mock, Own
<1>6. CASE Listeners(k) = {}
  BY <1>3, <1>6 DEF Runs
<1>7. CASE Listeners(k) # {}
  <2>1. PICK last \in Listeners(k) : ran = {i \in Listeners(k) : i <= last}
    BY <1>7 DEF Runs
  <2>2. last \in ran
    BY <2>1, <1>5
  <2>3. \A i \in ran, j \in Own(k) : j < i => j \in ran
    BY <2>1, <1>3, <1>5
  <2> QED BY <2>1, <2>2, <2>3, <1>3, <1>4
<1> QED BY <1>6, <1>7

\* scheduled_timers, the handlers and Redis after a test.
THEOREM TestsAreTold == Spec => []TestsTell
<1>1. IInv => TestsTell
  <2> SUFFICES ASSUME IInv PROVE TestsTell
    OBVIOUS
  <2>1. ASSUME NEW p \in tested
        PROVE  LET own == Own(KeyOf(sent[p].at)) IN
               /\ \E i \in DOMAIN records :
                    /\ records[i] = Record(p)
                    /\ \A j \in DOMAIN records : records[j].p = p => j = i
               /\ handled[p] \subseteq own \cup {Mock}
               /\ own # {} => Mock \notin handled[p] /\ handled[p] # {}
               /\ \A i \in handled[p], j \in own : j < i => j \in handled[p]
               /\ \A k \in Key, id \in TimerId : stores[k].payloads[id] # p
    <3>1. p \in Publication /\ p # None /\ sent[p] \in Shipment
      BY NoneIsNoShipment DEF IInv, TypeOK, Histories
    <3>2. KeyOf(sent[p].at) \in Key /\ handled[p] \in Runs(KeyOf(sent[p].at))
      BY <3>1, KeyType DEF Shipment, IInv, Recorded
    <3>3. \E i \in DOMAIN records :
             /\ records[i] = Record(p)
             /\ \A j \in DOMAIN records : records[j].p = p => j = i
      BY DEF IInv, Recorded
    <3>4. \A k \in Key, id \in TimerId : stores[k].payloads[id] # p
      BY <3>1 DEF IInv, Filed
    <3> HIDE DEF IInv
    <3> QED BY <3>2, <3>3, <3>4, RunsEffect
  <2>2. \A i \in DOMAIN records : records[i].p \in tested
    BY DEF IInv, Recorded
  <2> QED BY <2>1, <2>2 DEF TestsTell
<1> QED BY <1>1, InvHolds, PTL

\* What a call overwrites or removes, its user named by the key and the id.
LEMMA StaysStep ==
    ASSUME IInv, PublishedStays, [Next]_vars
    PROVE  PublishedStays'
<1> SUFFICES ASSUME NEW p \in Publication, p \notin answers', sent'[p] # None,
                    p \notin undone' \cup tested'
             PROVE  /\ stores'[KeyOf(sent'[p].at)].payloads[sent'[p].id] = p
                    /\ stores'[KeyOf(sent'[p].at)].timeline[sent'[p].id] = sent'[p].activation
  BY DEF PublishedStays, Live, InPlace, KeyOf
<1>0. /\ stores \in [Key -> Store] /\ sent \in [Publication -> Shipment \cup {None}]
      /\ None \notin Shipment
  BY PublishAssumption DEF IInv, TypeOK
<1>a. ASSUME sent[p] # None, p \notin undone \cup tested \cup answers
      PROVE  /\ stores[KeyOf(sent[p].at)].payloads[sent[p].id] = p
             /\ stores[KeyOf(sent[p].at)].timeline[sent[p].id] = sent[p].activation
             /\ sent[p].at \in Endpoint /\ sent[p].id \in TimerId \ {Blank}
             /\ KeyOf(sent[p].at) \in Key
  BY <1>0, <1>a, KeyType DEF PublishedStays, Live, InPlace, IInv, Histories, Shipment
<1>1. ASSUME NEW q \in Publication, NEW e \in Endpoint, NEW id \in TimerId, NEW at \in Int,
             Shipped(q, e, id, at)
      PROVE  /\ stores'[KeyOf(sent'[p].at)].payloads[sent'[p].id] = p
             /\ stores'[KeyOf(sent'[p].at)].timeline[sent'[p].id] = sent'[p].activation
  <2> DEFINE k == KeyOf(e)
             t == Schedule(stores[k], id, q, at)
  <2>1. k \in Key /\ stores[k] \in Store
    BY <1>0, KeyType
  <2>2. /\ t.timeline[id] = at /\ t.payloads[id] = q
        /\ \A i \in TimerId \ {id} : /\ t.timeline[i] = stores[k].timeline[i]
                                     /\ t.payloads[i] = stores[k].payloads[i]
    BY <2>1, ScheduleEffect DEF Publication
  <2>3. stores' = [stores EXCEPT ![k] = t]
    BY <1>1 DEF Shipped
  <2>4. sent' = [sent EXCEPT ![q] = [at |-> e, id |-> id, activation |-> at]]
    BY <1>1 DEF Shipped
  <2> HIDE DEF t
  <2>5. CASE p = q
    <3>1. sent'[p] = [at |-> e, id |-> id, activation |-> at]
      BY <2>4, <2>5, <1>0
    <3> QED BY <3>1, <2>1, <2>2, <2>3, <2>5, <1>0
  <2>6. CASE p # q
    <3>1. sent'[p] = sent[p] /\ sent[p] # None
      BY <2>4, <2>6, <1>0
    <3>2. p \notin undone \cup tested \cup answers
      BY <1>1 DEF Shipped, Accepted, testVars
    <3>3. ~(KeyOf(sent[p].at) = k /\ sent[p].id = id)
      <4> SUFFICES ASSUME KeyOf(sent[p].at) = k, sent[p].id = id PROVE FALSE
        OBVIOUS
      <4>1. p \in Named(e, id)
        BY <3>1, <3>2 DEF Named, SameTarget
      <4> QED BY <4>1, <3>1, <3>2, <1>1, <1>a DEF Shipped, Accepted
    <3> QED BY <3>1, <3>2, <3>3, <1>a, <2>1, <2>2, <2>3, <1>0
  <2> QED BY <2>5, <2>6
<1>2. ASSUME NEW q \in Publication, NEW e \in Endpoint, NEW id \in TimerId, NEW at \in Int,
             FakeShipped(q, e, id, at)
      PROVE  /\ stores'[KeyOf(sent'[p].at)].payloads[sent'[p].id] = p
             /\ stores'[KeyOf(sent'[p].at)].timeline[sent'[p].id] = sent'[p].activation
  <2>1. p # q /\ stores' = stores /\ p \notin undone \cup tested \cup answers
    BY <1>2 DEF FakeShipped, FakeShip, Accepted
  <2>2. sent'[p] = sent[p]
    BY <2>1, <1>0, <1>2 DEF FakeShipped
  <2> QED BY <2>1, <2>2, <1>a
<1>3. ASSUME NEW k \in Key, NEW t \in Store, NEW U \in SUBSET (Publication \ tested),
             Removed(k, t, U)
      PROVE  /\ stores'[KeyOf(sent'[p].at)].payloads[sent'[p].id] = p
             /\ stores'[KeyOf(sent'[p].at)].timeline[sent'[p].id] = sent'[p].activation
  <2>1. /\ sent' = sent /\ p \notin U /\ p \notin undone \cup tested \cup answers
        /\ stores' = [stores EXCEPT ![k] = t]
    BY <1>3 DEF Removed, testVars
  <2>2. p # None
    BY NoneIsNoShipment
  <2>3. KeyOf(sent[p].at) = k => t.payloads[sent[p].id] = stores[k].payloads[sent[p].id]
    BY <2>1, <1>3 DEF Removed, SentTo
  <2>4. KeyOf(sent[p].at) = k => t.timeline[sent[p].id] = stores[k].timeline[sent[p].id]
    BY <2>1, <2>2, <2>3, <1>3, <1>a DEF Removed
  <2> QED BY <2>1, <2>3, <2>4, <1>0, <1>a
<1>4. CASE Untouched
  BY <1>4, <1>a DEF Untouched
<1> QED BY <1>1, <1>2, <1>3, <1>4, NextKinds DEF Kinds

\* Accepted publications stay where they were sent, whatever keys the prefixes and the
\* topics join to, until a call for the same key cancels them or publishes their id.
THEOREM PublicationsStay == Spec => []PublishedStays
<1>1. Init => PublishedStays
  BY DEF Init, PublishedStays, Live
<1>2. IInv /\ PublishedStays /\ [Next]_vars => PublishedStays'
  BY StaysStep
<1> QED BY <1>1, <1>2, InvHolds, PTL DEF Spec

\* What is pending at a key outside a test, by id and by time.
LEMMA PendingIsExpected ==
    ASSUME IInv, PublishedStays, ~testing, NEW k \in Key, NEW i \in TimerId, i # Blank,
           NEW before \in Int \cup {None}
    PROVE  i \in Pending(stores[k], before) <=> i \in Expected(k, before)
<1> DEFINE q == stores[k].payloads[i]
<1>0. q \in Publication \cup {None}
  BY DEF IInv, TypeOK, Store, Publication
<1>1. ASSUME i \in Pending(stores[k], before)
      PROVE  i \in Expected(k, before)
  <2>1. stores[k].timeline[i] # None
    BY <1>1 DEF Pending, IsPending
  <2>2. before # None => stores[k].timeline[i] <= before
    BY <1>1 DEF Pending
  <2>3. /\ q \in Publication /\ sent[q] # None /\ q \notin undone /\ q \notin tested
        /\ KeyOf(sent[q].at) = k /\ sent[q].id = i
        /\ stores[k].timeline[i] = sent[q].activation
    BY <2>1, <1>0 DEF IInv, Filed
  <2>4. q \notin answers
    BY <2>3 DEF IInv, Histories
  <2> HIDE DEF q
  <2> QED BY <2>2, <2>3, <2>4 DEF Expected, Live
<1>2. ASSUME i \in Expected(k, before)
      PROVE  i \in Pending(stores[k], before)
  <2>1. PICK p \in Publication \ answers :
          /\ Live(p) /\ KeyOf(sent[p].at) = k /\ sent[p].id = i
          /\ before # None => sent[p].activation <= before
    BY <1>2 DEF Expected
  <2>2. stores[k].payloads[i] = p /\ stores[k].timeline[i] = sent[p].activation
    BY <2>1 DEF PublishedStays, InPlace
  <2>3. p # None
    BY NoneIsNoShipment
  <2>4. stores[k].timeline[i] # None
    BY <2>2, <2>3 DEF IInv, Filed
  <2> QED BY <2>1, <2>2, <2>4 DEF Pending, IsPending
<1> QED BY <1>1, <1>2

\* Inspections list what was sent to their key, and in a test nothing.
THEOREM InspectionsAgree == Spec => []InspectionAgrees
<1>1. ASSUME IInv, PublishedStays
      PROVE  InspectionAgrees
  <2>0. /\ \A topic \in Topic : KeyOf(OnBroker(topic)) \in Key
        /\ \A e \in Publisher : KeyOf(e) \in Key
    BY KeyType, OnBrokerType, PublishAssumption
  <2>1. ASSUME NEW k \in Key, NEW before \in Int \cup {None}
        PROVE  Pending(Client(k), before) \ {Blank} = Expected(k, before)
    <3>1. Expected(k, before) \subseteq TimerId \ {Blank}
      BY <1>1 DEF Expected, Live, IInv, TypeOK, Shipment, Histories
    <3>2. CASE testing
      <4>1. Client(k) = EmptyStore
        BY <3>2 DEF Client, Patched
      <4>2. Pending(EmptyStore, before) = {}
        BY DEF Pending, IsPending, EmptyStore
      <4> QED BY <4>1, <4>2, <3>2 DEF Expected
    <3>3. CASE ~testing
      <4>1. Client(k) = stores[k]
        BY <3>3 DEF Client, Patched
      <4>2. Pending(stores[k], before) \subseteq TimerId
        BY DEF Pending
      <4>3. \A i \in TimerId \ {Blank} :
              i \in Pending(stores[k], before) <=> i \in Expected(k, before)
        BY <1>1, <3>3, PendingIsExpected
      <4> QED BY <4>1, <4>2, <4>3, <3>1
    <3> QED BY <3>2, <3>3
  <2>2. \A k \in Key, id \in TimerId \ {Blank} :
          IsPending(Client(k), id) <=> id \in Expected(k, None)
    <3>1. \A k \in Key, id \in TimerId : IsPending(Client(k), id) <=> id \in Pending(Client(k), None)
      BY DEF Pending
    <3> QED BY <3>1, <2>1
  <2>3. 0 .. MaxTime \cup AwareTime \subseteq Int
    BY PublishAssumption
  <2> QED BY <2>0, <2>1, <2>2, <2>3
        DEF InspectionAgrees, HasPending, GetPendingTimers, FetchRedisTimers
<1>2. IInv /\ PublishedStays => InspectionAgrees
  BY <1>1
<1> QED BY <1>2, InvHolds, PublicationsStay, PTL
================================================================================
