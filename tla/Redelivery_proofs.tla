--------------------------- MODULE Redelivery_proofs ---------------------------
(* What holds at any time of a timer that is claimed again and again, for any lease,
   any workers and any payloads; that it is claimed again is liveness, and TLC's. *)
EXTENDS Redelivery, TimerStore_proofs

LEMMA Constants ==
    /\ Timer \in TimerId /\ LeaseTtl \in Int /\ 0 \in Past
    /\ Past \subseteq Int /\ ActivateIn \subseteq Int
    /\ Idle \in [pc : Phase, now : Past, got : Payload \cup {None}] /\ Idle.pc = "idle"
BY RedeliveryAssumption DEF Past, Idle, Phase

\* A clock reading, or a score, a second later.
LEMMA OlderTypes ==
    /\ \A n \in Past : Older(n) \in Past
    /\ \A n \in Score : Older(n) \in Score
BY RedeliveryAssumption, NoneAssumption DEF Older, Past, Score

\* A task that moves on keeps its range.
LEMMA EnterTypes ==
    ASSUME TypeOK, NEW t \in Task, NEW phase \in Phase, Enter(t, phase),
           phase \in {"running", "removing"} => task[t].got # None
    PROVE  /\ task' \in [Task -> [pc : Phase, now : Past, got : Payload \cup {None}]]
           /\ \A u \in Task : task'[u].pc \in {"running", "removing"} => task'[u].got # None
BY DEF TypeOK, Enter, Become

LEMMA BecomeTypes ==
    ASSUME TypeOK, NEW t \in Task,
           NEW state \in [pc : Phase \ {"running", "removing"}, now : Past, got : Payload \cup {None}],
           Become(t, state)
    PROVE  /\ task' \in [Task -> [pc : Phase, now : Past, got : Payload \cup {None}]]
           /\ \A u \in Task : task'[u].pc \in {"running", "removing"} => task'[u].got # None
BY DEF TypeOK, Become

LEMMA TypeStep ==
    ASSUME TypeOK, [Next]_vars
    PROVE  TypeOK'
<1> DEFINE TaskOK == /\ task \in [Task -> [pc : Phase, now : Past, got : Payload \cup {None}]]
                     /\ \A t \in Task : task[t].pc \in {"running", "removing"} => task[t].got # None
<1>0. TaskOK /\ store \in Store /\ late \subseteq Command
      /\ published \in BOOLEAN /\ verdict \in {"none", "settled", "cancelled"}
  BY DEF TypeOK
<1>1. ASSUME NEW p \in Payload, NEW in \in ActivateIn, Publish(p, in)
      PROVE  TypeOK'
  <2>1. store' \in Store
    BY <1>0, <1>1, Constants, StoreTypes DEF Publish
  <2> QED BY <1>1, <2>1 DEF Publish, TypeOK
<1>2. CASE CancelTimer
  <2>1. store' \in Store
    BY <1>0, <1>2, Constants, StoreTypes DEF CancelTimer
  <2> QED BY <1>2, <2>1 DEF CancelTimer, TypeOK
<1>3. ASSUME NEW t \in Task, TaskNext(t)
      PROVE  TypeOK'
  <2>0. \A state \in {Idle, [pc |-> "claiming", now |-> 0, got |-> None]} :
          state \in [pc : Phase \ {"running", "removing"}, now : Past, got : Payload \cup {None}]
    BY Constants DEF Idle, Phase
  <2>1. CASE Fetch(t)
    <3>1. TaskOK'
      BY <2>1, EnterTypes DEF Fetch, Phase
    <3> QED BY <3>1, <2>1, <1>0 DEF Fetch, history, TypeOK
  <2>2. CASE SendClaim(t)
    <3>1. TaskOK'
      BY <2>0, <2>2, BecomeTypes DEF SendClaim
    <3> QED BY <3>1, <2>2, <1>0 DEF SendClaim, history, TypeOK
  <2>3. CASE ServeClaim(t)
    <3>1. task[t].now \in Int
      BY <1>0, Constants
    <3>2. store' \in Store
      BY <2>3, <3>1, <1>0, Constants, StoreTypes DEF ServeClaim
    <3>3. ClaimReply(store, Timer, task[t].now) \in Payload \cup {None}
      BY <3>1, <1>0, Constants, ClaimReplyType
    <3>4. [pc |-> "answered", now |-> 0, got |-> ClaimReply(store, Timer, task[t].now)]
            \in [pc : Phase \ {"running", "removing"}, now : Past, got : Payload \cup {None}]
      BY <3>3, Constants DEF Phase
    <3>5. TaskOK'
      BY <2>3, <3>4, BecomeTypes DEF ServeClaim
    <3> QED BY <3>2, <3>5, <2>3, <1>0 DEF ServeClaim, history, TypeOK
  <2>4. CASE Contested(t) \/ Nack(t)
    <3>1. TaskOK'
      BY <2>0, <2>4, BecomeTypes DEF Contested, Nack
    <3> QED BY <3>1, <2>4, <1>0 DEF Contested, Nack, history, TypeOK
  <2>5. CASE Deliver(t)
    <3>1. TaskOK'
      BY <2>5, EnterTypes, NoneAssumption DEF Deliver, Phase
    <3> QED BY <3>1, <2>5, <1>0 DEF Deliver, history, TypeOK
  <2>6. CASE Discard(t) \/ Finish(t)
    <3>1. Settle(t) /\ task[t].got # None
      BY <2>6, <1>0, NoneAssumption DEF Discard, Finish, Corrupt, At
    <3>2. TaskOK'
      BY <3>1, EnterTypes DEF Settle, Phase
    <3> QED BY <3>1, <3>2, <1>0 DEF Settle, TypeOK
  <2>7. CASE ServeRemove(t)
    <3>1. TaskOK'
      BY <2>0, <2>7, BecomeTypes DEF ServeRemove
    <3>2. store' \in Store
      BY <2>7, <1>0, Constants, StoreTypes DEF ServeRemove
    <3> QED BY <3>1, <3>2, <2>7, <1>0 DEF ServeRemove, history, TypeOK
  <2>8. CASE GiveUp(t)
    <3>1. TaskOK'
      BY <2>0, <2>8, BecomeTypes DEF GiveUp
    <3>2. /\ [op |-> "claim", now |-> task[t].now] \in Command
          /\ [op |-> "remove", now |-> 0] \in Command
      BY <1>0 DEF Command
    <3>3. late' \subseteq Command
      BY <2>8, <3>2, <1>0 DEF GiveUp
    <3> QED BY <3>1, <3>3, <2>8, <1>0 DEF GiveUp, history, TypeOK
  <2> QED BY <1>3, <2>1, <2>2, <2>3, <2>4, <2>5, <2>6, <2>7, <2>8 DEF TaskNext
<1>4. ASSUME NEW c \in late, LateCommand(c)
      PROVE  TypeOK'
  <2>1. c.now \in Int
    BY <1>0, Constants DEF Command
  <2>2. store' \in Store
    BY <2>1, <1>0, <1>4, Constants, StoreTypes DEF LateCommand
  <2> QED BY <2>2, <1>0, <1>4 DEF LateCommand, history, TypeOK
<1>5. CASE Tick
  <2>1. store' \in Store
    BY <1>0, <1>5, OlderTypes DEF Tick, Store
  <2>2. TaskOK'
    BY <1>0, <1>5, OlderTypes DEF Tick
  <2>3. \A c \in Command : c.op = "claim" => [c EXCEPT !.now = Older(@)] \in Command
    BY OlderTypes DEF Command
  <2>4. late' \subseteq Command
    BY <1>0, <1>5, <2>3 DEF Tick
  <2> QED BY <2>1, <2>2, <2>4, <1>0, <1>5 DEF Tick, history, TypeOK
<1>6. CASE UNCHANGED vars
  BY <1>6 DEF vars, history, TypeOK
<1> QED BY <1>1, <1>2, <1>3, <1>4, <1>5, <1>6 DEF Next

\* Type correctness; in particular no handler is ever given nil.
THEOREM RedeliveryTypes == Spec => []TypeOK
<1>1. Init => TypeOK
  <2> SUFFICES ASSUME Init PROVE TypeOK
    OBVIOUS
  <2>1. EmptyStore \in Store
    BY Constants, StoreTypes DEF EmptyStore, Store, Score
  <2> QED BY <2>1, Constants DEF Init, TypeOK
<1>2. TypeOK /\ [Next]_vars => TypeOK'
  BY TypeStep
<1> QED BY <1>1, <1>2, PTL DEF Spec

\* The two formats and their damaged and foreign lookalikes, read by Parse.
LEMMA ParseEffect ==
    ASSUME NEW p \in Data
    PROVE  /\ Parse(p) = "ValueError" <=> p = Damaged
           /\ Parse(p) = "body" <=> p \in {Binary, Legacy}
           /\ Parse(p) \in {"body", "raw", "ValueError"}
BY DEF Data, Parse, ParseV1, Bytes, Binary, Legacy, Damaged, NotJson, Foreign, Plain

\* Timers of every version reach their handler; only damaged ones are discarded.
THEOREM EveryVersionIsHandled == Spec => ReadableIsHandled
<1>1. ASSUME TypeOK, [Next]_vars, NEW t \in Task, At(t, "answered")
      PROVE  /\ task'[t].pc = "running" =>
                  Parse(task[t].got) = IF task[t].got \in {Binary, Legacy} THEN "body" ELSE "raw"
             /\ task'[t].pc = "removing" => task[t].got = Damaged
  <2>0. task \in [Task -> [pc : Phase, now : Past, got : Payload \cup {None}]]
    BY <1>1 DEF TypeOK
  <2>1. CASE Deliver(t)
    <3>1. task[t].got \in Data /\ Parse(task[t].got) # "ValueError" /\ task'[t].pc = "running"
      BY <2>0, <2>1, RedeliveryAssumption DEF Deliver, Corrupt, Enter, Become
    <3> QED BY <3>1, ParseEffect
  <2>2. CASE Discard(t)
    <3>1. task[t].got \in Data /\ Parse(task[t].got) = "ValueError" /\ task'[t].pc = "removing"
      BY <2>0, <2>2, RedeliveryAssumption DEF Discard, Settle, Corrupt, Enter, Become
    <3> QED BY <3>1, ParseEffect
  <2>3. CASE Contested(t) \/ GiveUp(t)
    <3>1. task'[t].pc = "idle"
      BY <2>0, <2>3 DEF Contested, GiveUp, Become, Idle
    <3> QED BY <3>1
  <2>4. ASSUME NEW u \in Task \ {t}, TaskNext(u)
        PROVE  task'[t] = task[t]
    BY <2>0, <2>4 DEF TaskNext, Fetch, SendClaim, ServeClaim, Contested, Deliver, Discard, Settle,
                      Finish, Nack, ServeRemove, GiveUp, Enter, Become
  <2>5. CASE TaskNext(t)
    BY <2>1, <2>2, <2>3, <2>5, <1>1
       DEF TaskNext, At, Fetch, SendClaim, ServeClaim, Finish, Nack, ServeRemove
  <2>6. CASE task'[t].pc = task[t].pc
    BY <2>6, <1>1 DEF At
  <2>7. CASE Tick
    BY <2>0, <2>6, <2>7 DEF Tick, At
  <2>8. CASE \/ \E p \in Payload, in \in ActivateIn : Publish(p, in)
             \/ CancelTimer
             \/ \E c \in late : LateCommand(c)
             \/ UNCHANGED vars
    BY <2>6, <2>8 DEF Publish, CancelTimer, LateCommand, vars
  <2> QED BY <1>1, <2>4, <2>5, <2>6, <2>7, <2>8 DEF Next
<1>2. TypeOK /\ [Next]_vars =>
        [\A t \in Task : At(t, "answered") =>
           /\ task'[t].pc = "running" =>
                Parse(task[t].got) = IF task[t].got \in {Binary, Legacy} THEN "body" ELSE "raw"
           /\ task'[t].pc = "removing" => task[t].got = Damaged]_vars
  BY <1>1
<1> QED BY <1>2, RedeliveryTypes, PTL DEF Spec, ReadableIsHandled
-------------------------------------------------------------------------------
(* The safety that redelivery rests on *)

\* A timer nobody settled or cancelled is in Redis, with its payload, ...
UnsettledIsPending ==
    Unsettled => store.timeline[Timer] # None /\ store.payloads[Timer] # None

\* ... because every commit, in a task or late, was sent for a verdict; and it is due
\* within its activation time or one lease: no claim hides it for longer, however late
\* it is run.
CommitsHaveVerdicts ==
    (\E t \in Task : At(t, "removing")) \/ (\E c \in late : c.op = "remove") => verdict # "none"

WaitIsBounded ==
    store.timeline[Timer] # None =>
        \/ store.timeline[Timer] <= LeaseTtl
        \/ \E in \in ActivateIn : store.timeline[Timer] <= in

RedeliveryInv == TypeOK /\ UnsettledIsPending /\ CommitsHaveVerdicts /\ WaitIsBounded

\* What a claim, in time or late, does to the timer.
LEMMA ClaimOnTimer ==
    ASSUME store \in Store, NEW now \in Past, store' = Claim(store, Timer, now, LeaseTtl)
    PROVE  /\ store'.payloads = store.payloads
           /\ store.timeline[Timer] # None /\ store.payloads[Timer] # None =>
                  store'.timeline[Timer] # None
           /\ store.timeline[Timer] = None => store'.timeline[Timer] = None
           /\ store'.timeline[Timer] \in {store.timeline[Timer], None} \/ store'.timeline[Timer] <= LeaseTtl
<1>1. now \in Int /\ now <= 0 /\ now + LeaseTtl \in Int /\ now + LeaseTtl <= LeaseTtl
  BY RedeliveryAssumption DEF Past
<1>2. CASE ~IsDue(store, Timer, now)
  BY <1>1, <1>2, Constants, ClaimEffect
<1>3. CASE Claimable(store, Timer, now)
  <2>1. store'.timeline[Timer] = now + LeaseTtl /\ store'.payloads = store.payloads
    BY <1>1, <1>3, Constants, ClaimEffect
  <2>2. store.timeline[Timer] # None
    BY <1>3 DEF Claimable, IsDue, IsPending
  <2> QED BY <1>1, <2>1, <2>2, NoneAssumption
<1>4. CASE IsDue(store, Timer, now) /\ store.payloads[Timer] = None
  BY <1>1, <1>4, Constants, ClaimEffect
<1> QED BY <1>2, <1>3, <1>4 DEF Claimable

LEMMA RedeliveryStep ==
    ASSUME RedeliveryInv, [Next]_vars
    PROVE  RedeliveryInv'
<1> USE DEF RedeliveryInv
<1>0. /\ TypeOK' /\ TypeOK
      /\ store \in Store /\ task \in [Task -> [pc : Phase, now : Past, got : Payload \cup {None}]]
      /\ late \subseteq Command
  BY TypeStep DEF TypeOK
<1> USE DEF UnsettledIsPending, CommitsHaveVerdicts, WaitIsBounded, Unsettled
<1>1. ASSUME NEW p \in Payload, NEW in \in ActivateIn, Publish(p, in)
      PROVE  RedeliveryInv'
  <2>1. store'.timeline[Timer] = in /\ store'.payloads[Timer] = p /\ in \in Int
    BY <1>0, <1>1, Constants, ScheduleEffect DEF Publish
  <2>2. in # None /\ p # None /\ in <= in
    BY <2>1, NoneAssumption
  <2> QED BY <1>0, <1>1, <2>1, <2>2 DEF Publish, At
<1>2. ASSUME store' = Remove(store, Timer), verdict' # "none",
             UNCHANGED published
      PROVE  UnsettledIsPending' /\ CommitsHaveVerdicts' /\ WaitIsBounded'
  BY <1>0, <1>2, Constants, RemoveEffect
<1>3. ASSUME NEW now \in Past, store' = Claim(store, Timer, now, LeaseTtl), UNCHANGED history,
             \A t \in Task : At(t, "removing")' => At(t, "removing"),
             late' \subseteq late
      PROVE  RedeliveryInv'
  <2>1. UnsettledIsPending' /\ WaitIsBounded'
    BY <1>0, <1>3, ClaimOnTimer DEF history
  <2>2. CommitsHaveVerdicts'
    BY <1>3 DEF history
  <2> QED BY <1>0, <2>1, <2>2
<1>4. ASSUME store' = store, published' = published, verdict # "none" => verdict' # "none",
             CommitsHaveVerdicts'
      PROVE  RedeliveryInv'
  BY <1>0, <1>4
<1>5. ASSUME NEW t \in Task, TaskNext(t)
      PROVE  RedeliveryInv'
  <2>1. \A u \in Task \ {t} : At(u, "removing")' <=> At(u, "removing")
    BY <1>0, <1>5 DEF TaskNext, Fetch, SendClaim, ServeClaim, Contested, Deliver, Discard, Settle,
                      Finish, Nack, ServeRemove, GiveUp, Enter, Become, At
  <2>2. CASE Fetch(t) \/ SendClaim(t) \/ Contested(t) \/ Deliver(t) \/ Nack(t)
    <3>1. ~At(t, "removing")'
      BY <1>0, <2>2 DEF Fetch, SendClaim, Contested, Deliver, Nack, Enter, Become, At, Idle
    <3>2. UNCHANGED <<store, late, history>>
      BY <2>2 DEF Fetch, SendClaim, Contested, Deliver, Nack
    <3> QED BY <1>4, <2>1, <3>1, <3>2 DEF history
  <2>3. CASE ServeClaim(t)
    <3>1. ~At(t, "removing")' /\ task[t].now \in Past
      BY <1>0, <2>3 DEF ServeClaim, Become, At
    <3>2. /\ store' = Claim(store, Timer, task[t].now, LeaseTtl) /\ UNCHANGED history
          /\ late' \subseteq late
      BY <2>3 DEF ServeClaim
    <3> QED BY <1>3, <2>1, <3>1, <3>2
  <2>4. CASE Discard(t) \/ Finish(t)
    <3>1. store' = store /\ published' = published /\ verdict' # "none"
      BY <2>4 DEF Discard, Finish, Settle
    <3> QED BY <1>4, <3>1
  <2>5. CASE ServeRemove(t)
    <3>1. store' = Remove(store, Timer) /\ UNCHANGED history /\ verdict # "none"
      BY <2>5 DEF ServeRemove
    <3> QED BY <1>0, <1>2, <3>1 DEF history
  <2>6. CASE GiveUp(t)
    <3>1. store' = store /\ UNCHANGED history /\ ~At(t, "removing")'
      BY <1>0, <2>6 DEF GiveUp, Become, At, Idle
    <3>2. late' = late \/ At(t, "removing")
          \/ (\A c \in late' : c.op = "remove" => c \in late)
      BY <2>6 DEF GiveUp, At
    <3>3. CommitsHaveVerdicts'
      BY <2>1, <3>1, <3>2 DEF history
    <3> QED BY <1>4, <3>1, <3>3 DEF history
  <2> QED BY <1>5, <2>2, <2>3, <2>4, <2>5, <2>6 DEF TaskNext
<1>6. ASSUME NEW c \in late, LateCommand(c)
      PROVE  RedeliveryInv'
  <2>1. /\ c \in Command /\ UNCHANGED <<task, history>> /\ late' \subseteq late
        /\ store' = IF c.op = "claim" THEN Claim(store, Timer, c.now, LeaseTtl)
                                      ELSE Remove(store, Timer)
    BY <1>0, <1>6 DEF LateCommand
  <2>2. CASE c.op = "claim"
    <3>1. c.now \in Past
      BY <2>1, <2>2 DEF Command
    <3> QED BY <1>3, <2>1, <2>2, <3>1 DEF At
  <2>3. CASE c.op # "claim"
    <3>1. c.op = "remove"
      BY <2>1, <2>3 DEF Command
    <3> QED BY <1>0, <1>2, <2>1, <3>1 DEF history
  <2> QED BY <2>2, <2>3
<1>7. CASE CancelTimer
  BY <1>0, <1>2, <1>7 DEF CancelTimer
<1>8. CASE Tick
  <2>1. store'.timeline[Timer] = Older(store.timeline[Timer]) /\ store'.payloads = store.payloads
    BY <1>8, Constants DEF Tick
  <2>2. UnsettledIsPending'
    <3>1. store.timeline[Timer] \in Score
      BY <1>0, Constants DEF Store
    <3>2. store.timeline[Timer] # None => store'.timeline[Timer] # None
      BY <2>1, <3>1, NoneAssumption, RedeliveryAssumption DEF Older, Score
    <3> QED BY <1>8, <2>1, <3>2 DEF Tick, history
  <2>3. WaitIsBounded'
    <3>1. store.timeline[Timer] \in Score
      BY <1>0, Constants DEF Store
    <3>2. store'.timeline[Timer] # None =>
             /\ store.timeline[Timer] # None /\ store.timeline[Timer] \in Int
             /\ store'.timeline[Timer] \in Int
             /\ store'.timeline[Timer] <= store.timeline[Timer]
      BY <2>1, <3>1, NoneAssumption, RedeliveryAssumption DEF Older, Score
    <3>3. LeaseTtl \in Int /\ ActivateIn \subseteq Int
      BY Constants
    <3> QED BY <3>2, <3>3
  <2>4. CommitsHaveVerdicts'
    <3>1. \A t \in Task : At(t, "removing")' => At(t, "removing")
      BY <1>0, <1>8 DEF Tick, At
    <3>2. \A c \in late' : c.op = "remove" => \E d \in late : d.op = "remove"
      BY <1>0, <1>8 DEF Tick, Command
    <3> QED BY <1>8, <3>1, <3>2 DEF Tick, history
  <2> QED BY <1>0, <2>2, <2>3, <2>4
<1>9. CASE UNCHANGED vars
  <2>1. UNCHANGED <<store, task, late, published, verdict>>
    BY <1>9 DEF vars, history
  <2> QED BY <1>0, <2>1 DEF At
<1> QED BY <1>1, <1>5, <1>6, <1>7, <1>8, <1>9 DEF Next

\* A timer nobody settled or cancelled stays in Redis with its payload, and is due again
\* within its activation time or one lease, whatever crashes, raises, is lost or late.
THEOREM NothingIsLost == Spec => [](UnsettledIsPending /\ WaitIsBounded)
<1>1. Init => RedeliveryInv
  <2> SUFFICES ASSUME Init PROVE RedeliveryInv
    OBVIOUS
  <2>1. EmptyStore \in Store
    BY Constants, StoreTypes DEF EmptyStore, Store, Score
  <2>2. TypeOK
    BY <2>1, Constants DEF Init, TypeOK
  <2> QED BY <2>2, Constants DEF Init, RedeliveryInv, UnsettledIsPending, CommitsHaveVerdicts,
                      WaitIsBounded, Unsettled, EmptyStore, At, Idle
<1>2. RedeliveryInv /\ [Next]_vars => RedeliveryInv'
  BY RedeliveryStep
<1>3. RedeliveryInv => UnsettledIsPending /\ WaitIsBounded
  BY DEF RedeliveryInv
<1> QED BY <1>1, <1>2, <1>3, PTL DEF Spec

\* Once published, what is out of Redis stays out: no late claim, and no commit, brings a
\* timer back.
THEOREM GoneStaysGone ==
    Spec => [][published /\ ~IsPending(store, Timer) => ~IsPending(store, Timer)']_vars
<1>1. ASSUME TypeOK, [Next]_vars, published, ~IsPending(store, Timer)
      PROVE  ~IsPending(store, Timer)'
  <2>0. store \in Store /\ late \subseteq Command /\ store.timeline[Timer] = None
        /\ task \in [Task -> [pc : Phase, now : Past, got : Payload \cup {None}]]
    BY <1>1 DEF TypeOK, IsPending
  <2>1. CASE store' = store
    BY <1>1, <2>1 DEF IsPending
  <2>2. CASE store' = Remove(store, Timer)
    BY <2>0, <2>2, Constants, RemoveEffect DEF IsPending
  <2>3. ASSUME NEW now \in Past, store' = Claim(store, Timer, now, LeaseTtl)
        PROVE  ~IsPending(store, Timer)'
    BY <2>0, <2>3, ClaimOnTimer DEF IsPending
  <2>4. CASE Tick
    BY <2>0, <2>4, Constants DEF Tick, Older, IsPending
  <2>5. ASSUME NEW t \in Task, TaskNext(t)
        PROVE  store' = store \/ store' = Remove(store, Timer)
               \/ \E now \in Past : store' = Claim(store, Timer, now, LeaseTtl)
    BY <2>0, <2>5 DEF TaskNext, Fetch, SendClaim, ServeClaim, Contested, Deliver, Discard, Settle,
                      Finish, Nack, ServeRemove, GiveUp
  <2>6. ASSUME NEW c \in late, LateCommand(c)
        PROVE  store' = Remove(store, Timer)
               \/ \E now \in Past : store' = Claim(store, Timer, now, LeaseTtl)
    BY <2>0, <2>6 DEF LateCommand, Command
  <2>7. ~(\E p \in Payload, in \in ActivateIn : Publish(p, in))
    BY <1>1 DEF Publish
  <2>8. CASE CancelTimer \/ UNCHANGED vars
    BY <2>1, <2>2, <2>8 DEF CancelTimer, vars
  <2> QED BY <1>1, <2>1, <2>2, <2>3, <2>4, <2>5, <2>6, <2>7, <2>8 DEF Next
<1>2. TypeOK /\ [Next]_vars =>
        [published /\ ~IsPending(store, Timer) => ~IsPending(store, Timer)']_vars
  BY <1>1
<1> QED BY <1>2, RedeliveryTypes, PTL DEF Spec
===============================================================================
