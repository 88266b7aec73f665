----------------------- MODULE SubscriberLifecycle_proofs -----------------------
(* Starts and stops, for any number of subscribers and handlers. *)
EXTENDS SubscriberLifecycle, TLAPS

\* A failed start leaves nothing of its own behind because start() awaits the poll task,
\* and a poll task that is done has no handler left.
FailedIsDone == \A s \in Sub : phase[s] = "failed" => poller[s] = "done"

IInv == LifecycleInv /\ FailedIsDone

LEMMA FailedLeavesNothing == IInv => FailedStartIsClean
<1> SUFFICES ASSUME IInv,
                    NEW k \in DOMAIN Subscribers, phase[Subscribers[k]] = "failed",
                    NEW j \in DOMAIN Subscribers, j >= k
             PROVE  /\ poller[Subscribers[j]] \in {"none", "done"}
                    /\ handlers[Subscribers[j]] = 0
  BY DEF FailedStartIsClean
<1>1. Subscribers[j] \in Sub /\ Subscribers[k] \in Sub
  BY DEF Sub
<1>2. j \in Nat /\ k \in Nat
  BY LifecycleAssumption
<1>3. CASE j = k
  BY <1>1, <1>3 DEF IInv, LifecycleInv, RunningMeansOpen, FailedIsDone
<1>4. CASE j > k
  <2>1. phase[Subscribers[j]] = "new"
    BY <1>4 DEF IInv, LifecycleInv, StartsInOrder
  <2> QED BY <1>1, <2>1 DEF IInv, LifecycleInv, RunningMeansOpen
<1> QED BY <1>2, <1>3, <1>4

LEMMA InitInv == Init => IInv
<1> SUFFICES ASSUME Init PROVE IInv
  OBVIOUS
<1>1. TypeOK /\ RunningMeansOpen /\ FailedIsDone
  BY LifecycleAssumption DEF Init, TypeOK, RunningMeansOpen, FailedIsDone
<1>2. StartsInOrder
  BY DEF Init, StartsInOrder, Sub
<1> QED BY <1>1, <1>2 DEF IInv, LifecycleInv

LEMMA StartStep ==
    ASSUME IInv, NEW k \in DOMAIN Subscribers, Start(k)
    PROVE  IInv'
<1> DEFINE s == Subscribers[k]
<1>1. s \in Sub
  BY DEF Sub
<1> HIDE DEF s
<1>2. /\ phase[s] = "new" /\ running' = [running EXCEPT ![s] = TRUE]
      /\ UNCHANGED <<stopping, signal, handlers, broker>>
      /\ \/ /\ s \in Handling /\ phase' = [phase EXCEPT ![s] = "waiting"]
            /\ poller' = [poller EXCEPT ![s] = "pinging"]
         \/ s \notin Handling /\ phase' = [phase EXCEPT ![s] = "started"] /\ poller' = poller
  BY DEF Start, s, To, PollerTo, Running
<1>3. TypeOK'
  BY <1>1, <1>2 DEF IInv, LifecycleInv, TypeOK
<1>4. RunningMeansOpen'
  BY <1>1, <1>2 DEF IInv, LifecycleInv, TypeOK, RunningMeansOpen
<1>5. FailedIsDone'
  BY <1>1, <1>2 DEF IInv, LifecycleInv, TypeOK, FailedIsDone
<1>6. StartsInOrder'
  <2> SUFFICES ASSUME NEW i \in DOMAIN Subscribers, NEW j \in DOMAIN Subscribers, i < j,
                      phase'[Subscribers[j]] # "new"
               PROVE  phase'[Subscribers[i]] = "started"
    BY DEF StartsInOrder
  <2>1. /\ \A q \in Sub \ {s} : phase'[q] = phase[q]
        /\ Subscribers[i] \in Sub /\ Subscribers[j] \in Sub
        /\ i \in 1 .. j - 1
    BY <1>2, LifecycleAssumption DEF Sub, IInv, LifecycleInv, TypeOK
  <2>2. CASE j = k
    <3>1. phase[Subscribers[i]] = "started"
      BY <2>1, <2>2 DEF Start
    <3> QED BY <1>2, <2>1, <3>1
  <2>3. CASE j # k
    <3>1. Subscribers[j] # s
      BY <2>3, LifecycleAssumption DEF s
    <3>2. phase[Subscribers[i]] = "started"
      BY <2>1, <3>1 DEF IInv, LifecycleInv, StartsInOrder
    <3> QED BY <1>2, <2>1, <3>2
  <2> QED BY <2>2, <2>3
<1> QED BY <1>3, <1>4, <1>5, <1>6 DEF IInv, LifecycleInv

\* A subscriber's own steps do not start it, and leave it started once it is.
LEMMA OrderStep ==
    ASSUME TypeOK, StartsInOrder, NEW s \in Sub, SubNext(s)
    PROVE  StartsInOrder'
<1>1. /\ \A q \in Sub \ {s} : phase'[q] = phase[q]
      /\ phase'[s] = "new" <=> phase[s] = "new"
      /\ phase[s] = "started" => phase'[s] = "started"
  BY DEF TypeOK, SubNext, To, PollerTo, StartReturns, StartTimesOut, StopInStart, StartFails,
         PingReturns, FetchReturns, Wake, HandlerEnds, PollerEnds, PollerDies, Stop, StopReturns
<1>2. \A k \in DOMAIN Subscribers : Subscribers[k] \in Sub
  BY DEF Sub
<1> QED BY <1>1, <1>2 DEF StartsInOrder

\* A subscriber's own steps change nothing of the others.
LEMMA SubStep ==
    ASSUME IInv, NEW s \in Sub, SubNext(s)
    PROVE  IInv'
<1> DEFINE Parts == RunningMeansOpen /\ FailedIsDone
<1>0. TypeOK /\ RunningMeansOpen /\ FailedIsDone /\ StartsInOrder'
  BY OrderStep DEF IInv, LifecycleInv
<1> USE <1>0, LifecycleAssumption 
           DEF To, PollerTo, StoppingTo, Running, LoopTop, Cancel, SuperStop
<1>1. CASE StartReturns(s)
  <2>1. TypeOK'
    BY <1>1 DEF StartReturns, TypeOK
  <2>2. Parts'
    BY <1>1 DEF StartReturns, TypeOK, RunningMeansOpen, FailedIsDone
  <2> QED BY <2>1, <2>2 DEF IInv, LifecycleInv
<1>2. CASE StartTimesOut(s)
  <2>1. TypeOK'
    BY <1>2 DEF StartTimesOut, TypeOK
  <2>2. Parts'
    BY <1>2 DEF StartTimesOut, TypeOK, RunningMeansOpen, FailedIsDone
  <2> QED BY <2>1, <2>2 DEF IInv, LifecycleInv
<1>3. CASE StopInStart(s)
  <2>1. TypeOK'
    BY <1>3 DEF StopInStart, TypeOK
  <2>2. Parts'
    BY <1>3 DEF StopInStart, TypeOK, RunningMeansOpen, FailedIsDone
  <2> QED BY <2>1, <2>2 DEF IInv, LifecycleInv
<1>4. CASE StartFails(s)
  <2>1. TypeOK'
    BY <1>4 DEF StartFails, TypeOK
  <2>2. Parts'
    BY <1>4 DEF StartFails, TypeOK, RunningMeansOpen, FailedIsDone
  <2> QED BY <2>1, <2>2 DEF IInv, LifecycleInv
<1>5. CASE PingReturns(s)
  <2>1. TypeOK'
    BY <1>5 DEF PingReturns, TypeOK
  <2>2. Parts'
    BY <1>5 DEF PingReturns, TypeOK, RunningMeansOpen, FailedIsDone
  <2> QED BY <2>1, <2>2 DEF IInv, LifecycleInv
<1>6. CASE FetchReturns(s)
  <2>1. TypeOK'
    BY <1>6 DEF FetchReturns, TypeOK
  <2>2. Parts'
    BY <1>6 DEF FetchReturns, TypeOK, RunningMeansOpen, FailedIsDone
  <2> QED BY <2>1, <2>2 DEF IInv, LifecycleInv
<1>7. CASE Wake(s)
  <2>1. TypeOK'
    BY <1>7 DEF Wake, TypeOK
  <2>2. Parts'
    BY <1>7 DEF Wake, TypeOK, RunningMeansOpen, FailedIsDone
  <2> QED BY <2>1, <2>2 DEF IInv, LifecycleInv
<1>8. CASE HandlerEnds(s)
  <2>1. TypeOK'
    BY <1>8 DEF HandlerEnds, TypeOK
  <2>2. Parts'
    BY <1>8 DEF HandlerEnds, TypeOK, RunningMeansOpen, FailedIsDone
  <2> QED BY <2>1, <2>2 DEF IInv, LifecycleInv
<1>9. CASE PollerEnds(s)
  <2>1. TypeOK'
    BY <1>9 DEF PollerEnds, TypeOK
  <2>2. Parts'
    BY <1>9 DEF PollerEnds, TypeOK, RunningMeansOpen, FailedIsDone
  <2> QED BY <2>1, <2>2 DEF IInv, LifecycleInv
<1>10. CASE PollerDies(s)
  <2>1. TypeOK'
    BY <1>10 DEF PollerDies, TypeOK
  <2>2. Parts'
    BY <1>10 DEF PollerDies, TypeOK, RunningMeansOpen, FailedIsDone
  <2> QED BY <2>1, <2>2 DEF IInv, LifecycleInv
<1>11. CASE Stop(s)
  <2>1. TypeOK'
    BY <1>11 DEF Stop, TypeOK
  <2>2. Parts'
    BY <1>11 DEF Stop, TypeOK, RunningMeansOpen, FailedIsDone
  <2> QED BY <2>1, <2>2 DEF IInv, LifecycleInv
<1>12. CASE StopReturns(s)
  <2>1. TypeOK'
    BY <1>12 DEF StopReturns, TypeOK
  <2>2. Parts'
    BY <1>12 DEF StopReturns, TypeOK, RunningMeansOpen, FailedIsDone
  <2> QED BY <2>1, <2>2 DEF IInv, LifecycleInv
<1> QED BY <1>1, <1>2, <1>3, <1>4, <1>5, <1>6, <1>7, <1>8, <1>9, <1>10, <1>11, <1>12 DEF SubNext

LEMMA InvPreserved ==
    ASSUME IInv, [Next]_vars
    PROVE  IInv'
<1>1. CASE UNCHANGED subVars /\ broker' \in {"starting", "started", "failed"}
  BY <1>1 DEF IInv, LifecycleInv, TypeOK, RunningMeansOpen, StartsInOrder, FailedIsDone, subVars
<1>2. CASE BrokerStarted \/ BrokerFails \/ UNCHANGED vars
  BY <1>1, <1>2 DEF BrokerStarted, BrokerFails, vars, IInv, LifecycleInv, TypeOK
<1> QED BY <1>2, StartStep, SubStep DEF Next

\* How start(), stop() and the poll task of every subscriber stand to one another.
THEOREM LifecycleInvariant == Spec => []LifecycleInv
<1>1. IInv /\ [Next]_vars => IInv'
  BY InvPreserved
<1>2. IInv => LifecycleInv
  BY DEF IInv
<1> QED BY InitInv, <1>1, <1>2, PTL DEF Spec

\* A start() that failed leaves no poll task and no handler of its own or of the
\* subscribers after it, for any number of them and whatever graceful_timeout cuts short.
THEOREM FailedStartsAreClean == Spec => []FailedStartIsClean
<1>1. IInv /\ [Next]_vars => IInv'
  BY InvPreserved
<1> QED BY InitInv, <1>1, FailedLeavesNothing, PTL DEF Spec
-------------------------------------------------------------------------------
(* Liveness.  ENABLED is beyond the provers: the weak fairness of FairSpec is spelled *)
(* out with the guards of its actions in its place.                                  *)

\* What FairSpec says of one subscriber; its handlers end.
Runs(s) ==
    /\ []<>(phase[s] # "waiting") \/ []<><<StartReturns(s) \/ StartTimesOut(s)>>_vars
    /\ []<>(phase[s] # "cleaning") \/ []<><<StopInStart(s)>>_vars
    /\ []<>~(phase[s] = "joining" /\ poller[s] = "done") \/ []<><<StartFails(s)>>_vars
    /\ []<>(poller[s] # "fetching") \/ []<><<FetchReturns(s)>>_vars
    /\ []<>(poller[s] # "sleeping") \/ []<><<Wake(s)>>_vars
    /\ \/ []<>~(poller[s] = "cancelling" \/ (poller[s] = "draining" /\ handlers[s] = 0))
       \/ []<><<PollerEnds(s)>>_vars
    /\ poller[s] = "draining" ~> poller[s] # "draining" \/ handlers[s] = 0

RunningSpec == Spec /\ \A s \in Sub : Runs(s)

\* super().stop() has let go: `running` stays false, and only another stop() may still
\* cancel the poll task.
LetGo(s) == phase[s] \in {"joining", "failed"} \/ stopping[s] = "stopped"

\* Only a subscriber with a handler waits for its signal, and a poll task that was let go
\* is past its first ping: that one is cancelled, as no handler is in flight yet.
PollerLetGo(s) ==
    /\ phase[s] \in {"waiting", "cleaning", "joining", "failed"} => s \in Handling
    /\ LetGo(s) => poller[s] # "pinging"

PollersLetGo == \A s \in Sub : PollerLetGo(s)

LEMMA PollerLetGoInit == Init => PollersLetGo
BY DEF Init, PollersLetGo, PollerLetGo, LetGo

Kept(s) ==
    /\ phase'[s] = phase[s] /\ stopping'[s] = stopping[s]
    /\ poller'[s] = poller[s] /\ handlers'[s] = handlers[s]

\* A subscriber's own steps touch nothing of another's.
LEMMA OnlyItself ==
    ASSUME TypeOK, NEW q \in Sub, SubNext(q), NEW s \in Sub, s # q
    PROVE  Kept(s)
<1> USE DEF To, PollerTo, StoppingTo
<1>1. phase'[s] = phase[s]
  BY DEF TypeOK, SubNext, StartReturns, StartTimesOut, StopInStart, StartFails,
         PingReturns, FetchReturns, Wake, HandlerEnds, PollerEnds, PollerDies, Stop, StopReturns
<1>2. poller'[s] = poller[s]
  BY DEF TypeOK, SubNext, StartReturns, StartTimesOut, StopInStart, StartFails, LoopTop, Cancel,
         SuperStop, PingReturns, FetchReturns, Wake, HandlerEnds, PollerEnds, PollerDies, Stop,
         StopReturns
<1>3. handlers'[s] = handlers[s]
  BY DEF TypeOK, SubNext, StartReturns, StartTimesOut, StopInStart, StartFails,
         PingReturns, FetchReturns, Wake, HandlerEnds, PollerEnds, PollerDies, Stop, StopReturns
<1>4. stopping'[s] = stopping[s]
  BY DEF TypeOK, SubNext, StartReturns, StartTimesOut, StopInStart, StartFails,
         PingReturns, FetchReturns, Wake, HandlerEnds, PollerEnds, PollerDies, Stop, StopReturns
<1> QED BY <1>1, <1>2, <1>3, <1>4 DEF Kept

\* Nor do the broker's, and a start only what is new.
LEMMA OthersStep ==
    ASSUME TypeOK, NEW s \in Sub, phase[s] # "new",
           \/ \E k \in DOMAIN Subscribers : Start(k)
           \/ \E q \in Sub \ {s} : SubNext(q)
           \/ BrokerStarted \/ BrokerFails \/ UNCHANGED vars
    PROVE  Kept(s)
<1>1. ASSUME NEW k \in DOMAIN Subscribers, Start(k)
      PROVE  Kept(s)
  <2>1. phase[Subscribers[k]] = "new" /\ Subscribers[k] # s
    BY <1>1 DEF Start
  <2> QED BY <1>1, <2>1 DEF TypeOK, Start, To, PollerTo, Kept
<1>2. CASE BrokerStarted \/ BrokerFails \/ UNCHANGED vars
  BY <1>2 DEF BrokerStarted, BrokerFails, vars, subVars, Kept
<1> QED BY <1>1, <1>2, OnlyItself

\* What a stop(), start()'s own or another, does to the poll task when it returns.
Lets(s) ==
    \/ poller[s] \notin {"none", "done"} /\ poller'[s] = "cancelling"
    \/ poller[s] \in {"none", "done"} /\ poller'[s] = poller[s]
    \/ handlers[s] > 0 /\ poller'[s] = poller[s]

\* A step of its own, as it matters to a poll task that was let go.
LEMMA OwnStep ==
    ASSUME TypeOK, NEW s \in Sub, SubNext(s)
    PROVE  \/ /\ UNCHANGED <<phase[s], stopping[s], poller[s]>>
              /\ handlers'[s] = handlers[s] \/ handlers[s] > 0
           \/ /\ UNCHANGED <<stopping[s], poller[s], handlers[s]>>
              /\ \/ phase[s] = "waiting" /\ phase'[s] \in {"started", "cleaning"}
                 \/ phase[s] = "joining" /\ phase'[s] = "failed"
           \/ /\ UNCHANGED <<phase[s], poller[s], handlers[s]>>
              /\ phase[s] # "new" /\ stopping[s] = "none" /\ stopping'[s] = "closing"
           \/ /\ UNCHANGED handlers[s] /\ Lets(s)
              /\ \/ /\ phase[s] = "cleaning" /\ phase'[s] = "joining"
                    /\ UNCHANGED stopping[s]
                 \/ /\ stopping[s] = "closing" /\ stopping'[s] = "stopped"
                    /\ UNCHANGED phase[s]
           \/ /\ UNCHANGED <<phase[s], stopping[s]>>
              /\ \/ poller[s] \in {"pinging", "sleeping"} /\ running[s] /\ poller'[s] = "fetching"
                 \/ poller[s] \in {"pinging", "sleeping"} /\ ~running[s] /\ poller'[s] = "draining"
                 \/ poller[s] = "fetching" /\ poller'[s] \in {"sleeping", "done"}
                 \/ poller[s] \in {"sleeping", "draining", "cancelling"} /\ poller'[s] = "done"
<1> USE DEF TypeOK, To, PollerTo, StoppingTo
<1>0. ASSUME SuperStop(s) PROVE Lets(s)
  <2>1. CASE poller[s] \in {"none", "done"}
    BY <1>0, <2>1 DEF SuperStop, Cancel, Lets
  <2>2. CASE poller[s] \notin {"none", "done"}
    BY <1>0, <2>2 DEF SuperStop, Cancel, Lets
  <2> QED BY <2>1, <2>2
<1>1. CASE StartReturns(s) \/ StartTimesOut(s) \/ StartFails(s)
  BY <1>1 DEF StartReturns, StartTimesOut, StartFails
<1>2. CASE StopInStart(s)
  <2>1. /\ SuperStop(s) /\ phase[s] = "cleaning" /\ phase'[s] = "joining"
        /\ UNCHANGED <<stopping[s], handlers[s]>>
    BY <1>2 DEF StopInStart
  <2> QED BY <1>0, <2>1
<1>3. CASE StopReturns(s)
  <2>1. /\ SuperStop(s) /\ stopping[s] = "closing" /\ stopping'[s] = "stopped"
        /\ UNCHANGED <<phase[s], handlers[s]>>
    BY <1>3 DEF StopReturns
  <2> QED BY <1>0, <2>1
<1>4. CASE PingReturns(s)
  BY <1>4 DEF PingReturns, LoopTop
<1>5. CASE FetchReturns(s)
  BY <1>5 DEF FetchReturns
<1>6. CASE Wake(s)
  BY <1>6 DEF Wake, LoopTop
<1>7. CASE HandlerEnds(s)
  BY <1>7 DEF HandlerEnds
<1>8. CASE PollerEnds(s) \/ PollerDies(s)
  BY <1>8 DEF PollerEnds, PollerDies
<1>9. CASE Stop(s)
  BY <1>9 DEF Stop
<1> QED BY <1>1, <1>2, <1>3, <1>4, <1>5, <1>6, <1>7, <1>8, <1>9 DEF SubNext

\* What a step may do to a subscriber: a start of it, a step of its own, or nothing.
LEMMA WhoseStep ==
    ASSUME TypeOK, [Next]_vars, NEW s \in Sub, phase[s] # "new"
    PROVE  SubNext(s) \/ Kept(s)
BY OthersStep DEF Next

LEMMA PollerLetGoStep ==
    ASSUME IInv, PollersLetGo, [Next]_vars
    PROVE  PollersLetGo'
<1> SUFFICES ASSUME NEW s \in Sub PROVE PollerLetGo(s)'
  BY DEF PollersLetGo
<1> USE DEF PollersLetGo, PollerLetGo, LetGo
<1>0. TypeOK /\ RunningMeansOpen
  BY DEF IInv, LifecycleInv
<1>1. /\ poller[s] = "pinging" => handlers[s] = 0
      /\ handlers[s] \in Nat
  BY <1>0 DEF TypeOK, RunningMeansOpen
<1>2. CASE phase[s] # "new"
  <2>1. CASE SubNext(s)
    BY <1>0, <1>1, <2>1, OwnStep DEF Lets
  <2>2. CASE Kept(s)
    BY <2>2 DEF Kept
  <2> QED BY <1>0, <1>2, <2>1, <2>2, WhoseStep
<1>3. CASE phase[s] = "new"
  <2>0. stopping[s] = "none"
    BY <1>0, <1>3 DEF RunningMeansOpen
  <2>1. ASSUME NEW k \in DOMAIN Subscribers, Start(k) PROVE PollerLetGo(s)'
    BY <1>0, <1>3, <2>0, <2>1 DEF TypeOK, Start, To
  <2>2. ASSUME NEW q \in Sub, SubNext(q) PROVE PollerLetGo(s)'
    <3>1. CASE q = s
      BY <1>0, <1>3, <2>0, <2>2, <3>1, OwnStep
    <3>2. CASE q # s
      BY <1>0, <1>3, <2>2, <3>2, OnlyItself DEF Kept
    <3> QED BY <3>1, <3>2
  <2>3. CASE BrokerStarted \/ BrokerFails \/ UNCHANGED vars
    BY <1>3, <2>3 DEF BrokerStarted, BrokerFails, vars, subVars
  <2> QED BY <2>1, <2>2, <2>3 DEF Next
<1> QED BY <1>2, <1>3

\* The life of a poll task that was let go, step by step.
LetGoAdvances(s) ==
    LetGo(s) =>
        /\ LetGo(s)'
        /\ poller[s] = "fetching" =>
               poller'[s] \in {"fetching", "sleeping", "cancelling", "done"}
        /\ poller[s] = "sleeping" =>
               poller'[s] \in {"sleeping", "draining", "cancelling", "done"}
        /\ poller[s] = "draining" => poller'[s] \in {"draining", "cancelling", "done"}
        /\ poller[s] = "draining" /\ handlers[s] = 0 =>
               \/ poller'[s] = "draining" /\ handlers'[s] = 0
               \/ poller'[s] \in {"cancelling", "done"}
        /\ poller[s] = "cancelling" => poller'[s] \in {"cancelling", "done"}
        /\ poller[s] = "none" => poller'[s] = "none"
        /\ poller[s] = "done" => poller'[s] = "done"

LEMMA LetGoStep ==
    ASSUME NEW s \in Sub, IInv, PollerLetGo(s), [Next]_vars
    PROVE  LetGoAdvances(s)
<1> SUFFICES ASSUME LetGo(s) PROVE LetGoAdvances(s)
  BY DEF LetGoAdvances
<1> USE DEF LetGo
<1>1. /\ TypeOK /\ ~running[s] /\ poller[s] # "pinging" /\ phase[s] # "new"
      /\ poller[s] \in {"none", "done"} => handlers[s] = 0
  BY DEF IInv, LifecycleInv, RunningMeansOpen, PollerLetGo
<1>2. CASE SubNext(s)
  <2>1. LetGo(s)'
    BY <1>1, <1>2, OwnStep
  <2>2. handlers[s] \in Nat
    BY <1>1 DEF TypeOK
  <2>3. \/ poller'[s] = poller[s] /\ (handlers'[s] = handlers[s] \/ handlers[s] > 0)
        \/ poller'[s] = "cancelling" /\ poller[s] \notin {"none", "done"}
        \/ poller[s] = "fetching" /\ poller'[s] \in {"sleeping", "done"}
        \/ poller[s] = "sleeping" /\ poller'[s] \in {"draining", "done"}
        \/ poller[s] \in {"draining", "cancelling"} /\ poller'[s] = "done"
    BY <1>1, <1>2, OwnStep DEF Lets
  <2> HIDE DEF LetGo
  <2> QED BY <2>1, <2>2, <2>3 DEF LetGoAdvances
<1>3. CASE Kept(s)
  BY <1>3 DEF Kept, LetGoAdvances
<1> QED BY <1>1, <1>2, <1>3, WhoseStep

LEMMA ReachablePollers == Spec => [](IInv /\ PollersLetGo)
<1>1. IInv /\ [Next]_vars => IInv'
  BY InvPreserved
<1>2. IInv /\ PollersLetGo /\ [Next]_vars => PollersLetGo'
  BY PollerLetGoStep
<1> QED BY InitInv, PollerLetGoInit, <1>1, <1>2, PTL DEF Spec

PhaseIs(s, p) == phase[s] = p
PollerIs(s, p) == poller[s] = p
Drained(s) == poller[s] = "draining" /\ handlers[s] = 0
Over(s) == poller[s] \in {"none", "done"}

\* A poll task that was let go ends, cancelled or not, for any number of its handlers.
LEMMA LetGoEnds ==
    ASSUME NEW s \in Sub
    PROVE  Spec /\ Runs(s) => (LetGo(s) ~> Over(s))
<1> DEFINE R == IInv /\ PollerLetGo(s)
<1>1. Spec => []R
  <2>1. IInv /\ PollersLetGo => R
    BY DEF PollersLetGo
  <2> QED BY <2>1, ReachablePollers, PTL
<1>2. R /\ [Next]_vars /\ LetGo(s) =>
          /\ LetGo(s)'
          /\ PollerIs(s, "fetching") => \/ PollerIs(s, "fetching")' \/ PollerIs(s, "sleeping")'
                                        \/ PollerIs(s, "cancelling")' \/ Over(s)'
          /\ PollerIs(s, "sleeping") => \/ PollerIs(s, "sleeping")' \/ PollerIs(s, "draining")'
                                        \/ PollerIs(s, "cancelling")' \/ Over(s)'
          /\ PollerIs(s, "draining") => \/ PollerIs(s, "draining")'
                                        \/ PollerIs(s, "cancelling")' \/ Over(s)'
          /\ Drained(s) => Drained(s)' \/ PollerIs(s, "cancelling")' \/ Over(s)'
          /\ PollerIs(s, "cancelling") => PollerIs(s, "cancelling")' \/ Over(s)'
  BY LetGoStep DEF LetGoAdvances, PollerIs, Drained, Over
<1>3. R /\ LetGo(s) => \/ PollerIs(s, "fetching") \/ PollerIs(s, "sleeping")
                       \/ PollerIs(s, "draining") \/ PollerIs(s, "cancelling") \/ Over(s)
  BY DEF IInv, LifecycleInv, TypeOK, PollerLetGo, PollerIs, Over
<1>4. R /\ <<FetchReturns(s)>>_vars => ~PollerIs(s, "fetching")'
  BY DEF IInv, LifecycleInv, TypeOK, FetchReturns, PollerTo, PollerIs
<1>5. R /\ LetGo(s) /\ <<Wake(s)>>_vars => ~PollerIs(s, "sleeping")'
  BY DEF IInv, LifecycleInv, TypeOK, Wake, LoopTop, PollerTo, PollerIs
<1>6. R /\ <<PollerEnds(s)>>_vars => Over(s)'
  BY DEF IInv, LifecycleInv, TypeOK, PollerEnds, PollerTo, Over
<1>7. /\ poller[s] # "fetching" <=> ~PollerIs(s, "fetching")
      /\ poller[s] # "sleeping" <=> ~PollerIs(s, "sleeping")
      /\ poller[s] # "draining" <=> ~PollerIs(s, "draining")
      /\ poller[s] = "draining" <=> PollerIs(s, "draining")
      /\ Drained(s) <=> PollerIs(s, "draining") /\ handlers[s] = 0
      /\ ~(poller[s] = "cancelling" \/ (poller[s] = "draining" /\ handlers[s] = 0))
           <=> ~(PollerIs(s, "cancelling") \/ Drained(s))
  BY DEF PollerIs, Drained
<1> HIDE DEF R
<1> QED BY <1>1, <1>2, <1>3, <1>4, <1>5, <1>6, <1>7, PTL DEF Spec, Runs

\* A stopped subscriber's poll task ends, though stop() did not wait for it and may not
\* even have cancelled it.
THEOREM StoppedPollersEnd == RunningSpec => StoppedPollerEnds
<1>1. ASSUME NEW s \in Sub
      PROVE  Spec /\ Runs(s) => (stopping[s] = "stopped" ~> poller[s] \in {"none", "done"})
  <2>1. stopping[s] = "stopped" => LetGo(s)
    BY DEF LetGo
  <2>2. Over(s) => poller[s] \in {"none", "done"}
    BY DEF Over
  <2>3. Spec /\ Runs(s) => (LetGo(s) ~> Over(s))
    BY LetGoEnds
  <2> QED BY <2>1, <2>2, <2>3, PTL
<1> QED BY <1>1 DEF RunningSpec, StoppedPollerEnds

\* start() returns or raises: it does not hang on the poll task it awaits after a timeout,
\* even if Redis never answers the ping and the task could not be cancelled in time.
THEOREM StartsSettle ==
    RunningSpec => \A s \in Sub : phase[s] = "waiting" ~> phase[s] \in {"started", "failed"}
<1>1. ASSUME NEW s \in Sub
      PROVE  Spec /\ Runs(s) => (phase[s] = "waiting" ~> phase[s] \in {"started", "failed"})
  <2> DEFINE R == IInv /\ PollerLetGo(s)
             Settled == phase[s] \in {"started", "failed"}
  <2>1. Spec => []R
    <3>1. IInv /\ PollersLetGo => R
      BY DEF PollersLetGo
    <3> QED BY <3>1, ReachablePollers, PTL
  <2>2. R /\ [Next]_vars =>
            /\ PhaseIs(s, "waiting") => PhaseIs(s, "waiting")' \/ PhaseIs(s, "cleaning")' \/ Settled'
            /\ PhaseIs(s, "cleaning") => PhaseIs(s, "cleaning")' \/ PhaseIs(s, "joining")'
            /\ PhaseIs(s, "joining") => PhaseIs(s, "joining")' \/ Settled'
    <3> SUFFICES ASSUME R, [Next]_vars,
                        phase[s] \in {"waiting", "cleaning", "joining"}
                 PROVE  \/ phase'[s] = phase[s]
                        \/ phase[s] = "waiting" /\ phase'[s] \in {"cleaning", "started"}
                        \/ phase[s] = "cleaning" /\ phase'[s] = "joining"
                        \/ phase[s] = "joining" /\ phase'[s] = "failed"
      BY DEF PhaseIs
    <3>1. TypeOK
      BY DEF IInv, LifecycleInv
    <3>2. CASE SubNext(s)
      BY <3>1, <3>2, OwnStep
    <3> QED BY <3>1, <3>2, WhoseStep DEF Kept
  <2>3. R /\ PhaseIs(s, "joining") => LetGo(s) /\ (Over(s) <=> PollerIs(s, "done"))
    BY DEF IInv, LifecycleInv, RunningMeansOpen, PollerLetGo, PhaseIs, LetGo, Over, PollerIs
  <2>4. R /\ <<StartReturns(s) \/ StartTimesOut(s)>>_vars => ~PhaseIs(s, "waiting")'
    BY DEF IInv, LifecycleInv, TypeOK, StartReturns, StartTimesOut, To, PhaseIs
  <2>5. R /\ <<StopInStart(s)>>_vars => PhaseIs(s, "joining")'
    BY DEF IInv, LifecycleInv, TypeOK, StopInStart, To, PhaseIs
  <2>6. R /\ <<StartFails(s)>>_vars => Settled'
    BY DEF IInv, LifecycleInv, TypeOK, StartFails, To
  <2>7. R /\ [Next]_vars /\ LetGo(s) /\ Over(s) => Over(s)'
    BY LetGoStep DEF LetGoAdvances, Over
  <2>8. /\ phase[s] # "waiting" <=> ~PhaseIs(s, "waiting")
        /\ phase[s] = "waiting" <=> PhaseIs(s, "waiting")
        /\ phase[s] # "cleaning" <=> ~PhaseIs(s, "cleaning")
        /\ ~(phase[s] = "joining" /\ poller[s] = "done")
             <=> ~(PhaseIs(s, "joining") /\ PollerIs(s, "done"))
    BY DEF PhaseIs, PollerIs
  <2>9. Spec /\ Runs(s) => (LetGo(s) ~> Over(s))
    BY LetGoEnds
  <2> HIDE DEF R
  <2> QED BY <2>1, <2>2, <2>3, <2>4, <2>5, <2>6, <2>7, <2>8, <2>9, PTL DEF Spec, Runs
<1> QED BY <1>1 DEF RunningSpec
===============================================================================
