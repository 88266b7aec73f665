------------------------- MODULE TimerDelivery_proofs -------------------------
(* The proofs about TimerDelivery, for every set of timers, publications,     *)
(* workers and tasks and every value of the time constants.                   *)
EXTENDS TimerDelivery, TimerStore_proofs

\* The server's side of a claim keeps the types of what it changes.
LEMMA RunClaimTypes ==
    ASSUME TypeOK, NEW id \in TimerId, NEW now \in Int, RunClaim(id, now)
    PROVE  store' \in Store /\ lastClaim' \in [Pub -> Score]
  BY StoreTypes, ClaimReplyType, ConstantAssumption
     DEF TypeOK, RunClaim, Score, Pub

\* Abandoned tasks end; what they leave in flight are commands.
LEMMA AbandonTypes ==
    ASSUME TypeOK, NEW S \in SUBSET Task, Abandon(S)
    PROVE  TypeOK'
<1>1. \A t \in Task : InFlight(t) \subseteq Command
  BY DEF TypeOK, InFlight, At, TaskState, Idle, Command, Phase
<1>2. task' \in [Task -> TaskState]
  BY DEF TypeOK, Abandon, TaskState
<1>3. late' \subseteq Command
  BY <1>1 DEF TypeOK, Abandon
<1> QED BY <1>2, <1>3 DEF TypeOK, Abandon, history

\* Types are preserved: every value a handler stores is one the code can hold.
LEMMA TypeStep == TypeOK /\ [Next]_vars => TypeOK'
<1> SUFFICES ASSUME TypeOK, [Next]_vars PROVE TypeOK'
  OBVIOUS
<1> USE DEF TypeOK, Pub
<1>1. ASSUME NEW p \in Pub, NEW at \in ActivateAt, Publish(p, at) PROVE TypeOK'
  <2>1. IdOf[p] \in TimerId /\ at \in Int
    BY ConstantAssumption
  <2>2. store.payloads[IdOf[p]] \in Pub \cup {None}
    BY <2>1 DEF Store
  <2>3. store' \in Store
    BY <1>1, <2>1, StoreTypes DEF Publish
  <2>4. activation' \in [Pub -> Score]
    BY <1>1, <2>1 DEF Publish, Score
  <2> QED BY <1>1, <2>2, <2>3, <2>4 DEF Publish
<1>2. ASSUME NEW id \in TimerId, CancelTimer(id) PROVE TypeOK'
  <2>1. store.payloads[id] \in Pub \cup {None}
    BY DEF Store
  <2> QED BY <1>2, <2>1, StoreTypes DEF CancelTimer
<1>3. CASE CancelAllTimers
  <2>1. store' \in Store
    BY <1>3 DEF CancelAllTimers, CancelAll, EmptyStore, Store, Score
  <2> QED BY <1>3, <2>1 DEF CancelAllTimers
<1>4. CASE EvictPayloads
  <2>1. store' \in Store
    BY <1>4 DEF EvictPayloads, EmptyStore, Store
  <2> QED BY <1>4, <2>1 DEF EvictPayloads
<1>5. ASSUME NEW t \in Task, NEW id \in TimerId, Fetch(t, id) PROVE TypeOK'
  BY <1>5 DEF Fetch, Become, TaskState, Idle, history
<1>6. ASSUME NEW t \in Task, SendClaim(t) PROVE TypeOK'
  <2>1. WallClock(t) \in Int
    BY ConstantAssumption DEF WallClock
  <2>2. task' \in [Task -> TaskState]
    BY <1>6, <2>1 DEF SendClaim, Enter, Become, At, TaskState, Idle
  <2> QED BY <1>6, <2>2 DEF SendClaim, history
<1>7. ASSUME NEW t \in Task, ServeClaim(t) PROVE TypeOK'
  <2> DEFINE id == task[t].id  now == task[t].now
  <2>1. id \in TimerId /\ now \in Int
    BY <1>7 DEF ServeClaim, At, TaskState, Idle
  <2>2. ClaimReply(store, id, now) \in Payload \cup {None}
    BY <2>1, ClaimReplyType
  <2>3. task' \in [Task -> TaskState]
    BY <1>7, <2>2 DEF ServeClaim, Enter, Become, At, TaskState, Idle
  <2>4. store' \in Store /\ lastClaim' \in [Pub -> Score]
    BY <1>7, <2>1, RunClaimTypes DEF ServeClaim
  <2> QED BY <1>7, <2>3, <2>4 DEF ServeClaim
<1>8. ASSUME NEW t \in Task, Contested(t) \/ Nack(t) PROVE TypeOK'
  BY <1>8 DEF Contested, Nack, End, Become, history, TaskState
<1>9. ASSUME NEW t \in Task, Deliver(t) PROVE TypeOK'
  <2>1. task' \in [Task -> TaskState]
    BY <1>9 DEF Deliver, Enter, Become, At, TaskState, Idle
  <2> QED BY <1>9, <2>1 DEF Deliver, history
<1>10. ASSUME NEW t \in Task, Discard(t) \/ Finish(t) PROVE TypeOK'
  <2>1. task[t].got \in Pub
    BY <1>10, ConstantAssumption DEF Discard, Finish, At, TaskState, Idle
  <2>2. task' \in [Task -> TaskState]
    BY <1>10, <2>1 DEF Discard, Finish, Settle, Enter, Become, At, TaskState, Idle
  <2> QED BY <1>10, <2>1, <2>2 DEF Discard, Finish, Settle
<1>11. ASSUME NEW t \in Task, ServeRemove(t) PROVE TypeOK'
  <2>1. task[t].id \in TimerId
    BY <1>11 DEF ServeRemove, At, TaskState, Idle
  <2> QED BY <1>11, <2>1, StoreTypes DEF ServeRemove, End, Become, history, TaskState
<1>12. ASSUME NEW S \in SUBSET Task, Abandon(S) PROVE TypeOK'
  BY <1>12, AbandonTypes
<1>13. ASSUME NEW c \in late, LateClaim(c) PROVE TypeOK'
  <2>1. c.id \in TimerId /\ c.now \in Int
    BY <1>13 DEF LateClaim, Command
  <2>2. store' \in Store /\ lastClaim' \in [Pub -> Score]
    BY <1>13, <2>1, RunClaimTypes DEF LateClaim
  <2> QED BY <1>13, <2>2 DEF LateClaim
<1>14. ASSUME NEW c \in late, LateRemove(c) PROVE TypeOK'
  <2>1. c.id \in TimerId
    BY <1>14 DEF LateRemove, Command
  <2> QED BY <1>14, <2>1, StoreTypes DEF LateRemove, history
<1>15. CASE Tick
  BY <1>15 DEF Tick, history
<1>16. CASE UNCHANGED vars
  BY <1>16 DEF vars, history
<1> QED
  BY <1>1, <1>2, <1>3, <1>4, <1>5, <1>6, <1>7, <1>8, <1>9, <1>10, <1>11, <1>12,
     <1>13, <1>14, <1>15, <1>16 DEF Next, TaskNext, GiveUp, Crash

\* Type correctness of every reachable state.
THEOREM TypeCorrect == Spec => []TypeOK
<1>1. Init => TypeOK
  BY DEF Init, TypeOK, EmptyStore, Store, Score, TaskState
<1>2. TypeOK /\ [Next]_vars => TypeOK'
  BY TypeStep
<1> QED BY <1>1, <1>2, PTL DEF Spec

-------------------------------------------------------------------------------
(* What a step may do to the store, whoever takes it. *)

StoreUntouched ==
    /\ UNCHANGED <<store, activation, lastClaim, withdrawn, evicted>>
    /\ settled \subseteq settled'

\* The server runs a claim ...
ClaimRuns(id, now) ==
    /\ RunClaim(id, now)
    /\ UNCHANGED <<activation, settled, withdrawn, evicted>>

\* ... or a commit, which is sent only for an id that was settled.
CommitRuns(id) ==
    /\ \E q \in settled : IdOf[q] = id
    /\ store' = Remove(store, id)
    /\ UNCHANGED <<activation, lastClaim, settled, withdrawn, evicted>>

\* Every step, seen from the store: one of the users' operations, an eviction, the run
\* of a claim or of a commit that was asked for (by a task, or late), or no change.
LEMMA StoreSteps ==
    ASSUME TypeOK, TaskConsistent, LateConsistent, [Next]_vars
    PROVE  \/ \E p \in Pub, at \in ActivateAt : Publish(p, at)
           \/ \E id \in TimerId : CancelTimer(id)
           \/ CancelAllTimers
           \/ EvictPayloads
           \/ \E id \in TimerId, now \in Int : ClaimRuns(id, now)
           \/ \E id \in TimerId : CommitRuns(id)
           \/ StoreUntouched
<1>1. ASSUME NEW t \in Task, ServeClaim(t)
      PROVE  \E id \in TimerId, now \in Int : ClaimRuns(id, now)
  <2>1. task[t].id \in TimerId /\ task[t].now \in Int
    BY <1>1 DEF ServeClaim, At, TypeOK, TaskState, Idle
  <2> QED BY <1>1, <2>1 DEF ServeClaim, ClaimRuns
<1>2. ASSUME NEW c \in late, LateClaim(c)
      PROVE  \E id \in TimerId, now \in Int : ClaimRuns(id, now)
  <2>1. c.id \in TimerId /\ c.now \in Int
    BY <1>2 DEF LateClaim, TypeOK, Command
  <2> QED BY <1>2, <2>1 DEF LateClaim, ClaimRuns
<1>3. ASSUME NEW t \in Task, ServeRemove(t)
      PROVE  \E id \in TimerId : CommitRuns(id)
  <2>1. task[t].id \in TimerId /\ task[t].got \in Pub
    BY <1>3 DEF ServeRemove, At, TypeOK, TaskState, Idle
  <2>2. task[t].got \in settled /\ IdOf[task[t].got] = task[t].id
    BY <1>3, <2>1, NoneAssumption DEF ServeRemove, At, TaskConsistent, Pub
  <2> QED BY <1>3, <2>1, <2>2 DEF ServeRemove, CommitRuns, history
<1>4. ASSUME NEW c \in late, LateRemove(c)
      PROVE  \E id \in TimerId : CommitRuns(id)
  <2>1. c.id \in TimerId
    BY <1>4 DEF LateRemove, TypeOK, Command
  <2>2. \E q \in settled : IdOf[q] = c.id
    BY <1>4 DEF LateRemove, LateConsistent
  <2> QED BY <1>4, <2>1, <2>2 DEF LateRemove, CommitRuns, history
<1>5. ASSUME NEW t \in Task, TaskNext(t), ~ServeClaim(t), ~ServeRemove(t)
      PROVE  StoreUntouched
  BY <1>5 DEF TaskNext, Fetch, SendClaim, Contested, Deliver, Discard, Finish, Settle,
              Nack, GiveUp, Abandon, StoreUntouched, history
<1>6. ASSUME NEW w \in Worker, Crash(w) PROVE StoreUntouched
  BY <1>6 DEF Crash, Abandon, StoreUntouched, history
<1>7. CASE Tick
  BY <1>7 DEF Tick, StoreUntouched, history
<1>8. CASE UNCHANGED vars
  BY <1>8 DEF vars, StoreUntouched, history
<1> QED BY <1>1, <1>2, <1>3, <1>4, <1>5, <1>6, <1>7, <1>8 DEF Next

StoreInv == KeysCoupled /\ ScoreIsLeaseEnd /\ StoreConsistent

\* The publication a successful claim leases, and why its history allows it.
LEMMA ClaimedPublication ==
    ASSUME TypeOK, StoreInv, NEW id \in TimerId, NEW now \in Int,
           Claimable(store, id, now)
    PROVE  /\ store.payloads[id] \in Pub
           /\ IdOf[store.payloads[id]] = id
           /\ Stored(store.payloads[id])
           /\ activation[store.payloads[id]] \in Int
           /\ activation[store.payloads[id]] <= now
           /\ lastClaim[store.payloads[id]] # None =>
                /\ lastClaim[store.payloads[id]] \in Int
                /\ lastClaim[store.payloads[id]] + LeaseTtl <= now
<1> DEFINE p == store.payloads[id]
<1>1. p \in Pub /\ IdOf[p] = id /\ Stored(p)
  BY ClaimReplyType DEF TypeOK, StoreInv, StoreConsistent, Stored, Pub, Claimable
<1>2. store.timeline[id] \in Int /\ store.timeline[id] <= now
  BY ClaimReplyType DEF TypeOK
<1>3. activation[p] \in Int /\ lastClaim[p] \in Int \cup {None}
  BY <1>1 DEF TypeOK, StoreInv, StoreConsistent, Score
<1>4. store.timeline[id] = IF lastClaim[p] = None THEN activation[p]
                                                  ELSE lastClaim[p] + LeaseTtl
  BY <1>1 DEF StoreInv, ScoreIsLeaseEnd
<1>5. lastClaim[p] # None => activation[p] <= lastClaim[p]
  BY <1>1 DEF StoreInv, StoreConsistent
<1> QED BY <1>1, <1>2, <1>3, <1>4, <1>5, ConstantAssumption

\* The store's invariant survives every step.
LEMMA StoreInvStep ==
    ASSUME TypeOK, TaskConsistent, LateConsistent, StoreInv, [Next]_vars
    PROVE  StoreInv'
<1> USE DEF TypeOK, Pub
<1>1. ASSUME NEW p \in Pub, NEW at \in ActivateAt, Publish(p, at) PROVE StoreInv'
  <2> DEFINE i == IdOf[p]
  <2>1. i \in TimerId /\ at \in Int /\ activation[p] = None /\ lastClaim[p] = None
    BY <1>1, ConstantAssumption DEF Publish, StoreInv, StoreConsistent
  <2>2. /\ store'.timeline[i] = at /\ store'.payloads[i] = p
        /\ \A j \in TimerId \ {i} : /\ store'.timeline[j] = store.timeline[j]
                                    /\ store'.payloads[j] = store.payloads[j]
    BY <1>1, <2>1, ScheduleEffect DEF Publish
  <2>3. UNCHANGED <<lastClaim, evicted>> /\ activation' = [activation EXCEPT ![p] = at]
    BY <1>1 DEF Publish
  <2>4. \A q \in Pub \ {p} : Stored(q)' => Stored(q) /\ IdOf[q] # i
    BY <2>2, ConstantAssumption DEF Stored
  <2>5. KeysCoupled'
    BY <2>1, <2>2, <2>3, NoneAssumption DEF StoreInv, KeysCoupled
  <2>6. ScoreIsLeaseEnd'
    BY <2>1, <2>2, <2>3, <2>4, ConstantAssumption, NoneAssumption
       DEF StoreInv, ScoreIsLeaseEnd
  <2>7. StoreConsistent'
    BY <2>1, <2>2, <2>3, <2>4, NoneAssumption DEF StoreInv, StoreConsistent
  <2> QED BY <2>5, <2>6, <2>7 DEF StoreInv
<1>2. ASSUME NEW id \in TimerId, store' = Remove(store, id),
             UNCHANGED <<activation, lastClaim, evicted>>
      PROVE  StoreInv'
  <2>1. /\ store'.timeline[id] = None /\ store'.payloads[id] = None
        /\ \A j \in TimerId \ {id} : /\ store'.timeline[j] = store.timeline[j]
                                     /\ store'.payloads[j] = store.payloads[j]
    BY <1>2, RemoveEffect
  <2>2. \A q \in Pub : Stored(q)' => Stored(q) /\ IdOf[q] # id
    BY <2>1, ConstantAssumption, NoneAssumption DEF Stored
  <2>3. KeysCoupled'
    BY <1>2, <2>1 DEF StoreInv, KeysCoupled
  <2>4. ScoreIsLeaseEnd'
    BY <1>2, <2>1, <2>2, ConstantAssumption DEF StoreInv, ScoreIsLeaseEnd
  <2>5. StoreConsistent'
    BY <1>2, <2>1, <2>2 DEF StoreInv, StoreConsistent
  <2> QED BY <2>3, <2>4, <2>5 DEF StoreInv
<1>3. CASE CancelAllTimers
  <2>1. UNCHANGED <<activation, lastClaim>> /\ store' = EmptyStore
    BY <1>3 DEF CancelAllTimers, CancelAll
  <2>2. \A q \in Pub : ~Stored(q)'
    BY <2>1, ConstantAssumption, NoneAssumption DEF Stored, EmptyStore
  <2> QED BY <2>1, <2>2, ConstantAssumption
          DEF StoreInv, KeysCoupled, ScoreIsLeaseEnd, StoreConsistent, EmptyStore
<1>4. CASE EvictPayloads
  <2>1. UNCHANGED <<activation, lastClaim>> /\ store'.timeline = store.timeline
    BY <1>4 DEF EvictPayloads
  <2>2. store'.payloads = [i \in TimerId |-> None]
    BY <1>4 DEF EvictPayloads, EmptyStore
  <2>3. \A q \in Pub : ~Stored(q)'
    BY <2>2, ConstantAssumption, NoneAssumption DEF Stored
  <2>4. KeysCoupled'
    <3>1. SUFFICES ASSUME NEW i \in TimerId, store.timeline[i] # None PROVE evicted' # {}
      BY <2>1, <2>2 DEF KeysCoupled
    <3>2. CASE store.payloads[i] = None
      BY <1>4, <3>1, <3>2 DEF StoreInv, KeysCoupled, EvictPayloads
    <3>3. CASE store.payloads[i] # None
      <4>1. store.payloads[i] \in Pub /\ IdOf[store.payloads[i]] = i
        BY <3>3 DEF Store, StoreInv, StoreConsistent
      <4>2. store.payloads[i] \in {p \in Pub : Stored(p)}
        BY <4>1 DEF Stored
      <4> QED BY <1>4, <4>2 DEF EvictPayloads
    <3> QED BY <3>2, <3>3
  <2> QED BY <2>1, <2>2, <2>3, <2>4 DEF StoreInv, ScoreIsLeaseEnd, StoreConsistent
<1>5. ASSUME NEW id \in TimerId, NEW now \in Int, ClaimRuns(id, now) PROVE StoreInv'
  <2>1. UNCHANGED <<activation, evicted>> /\ store'.payloads = store.payloads
    BY <1>5, ClaimEffect, ConstantAssumption DEF ClaimRuns, RunClaim
  <2>2. \A q \in Pub : Stored(q)' <=> Stored(q)
    BY <2>1 DEF Stored
  <2>3. \A j \in TimerId \ {id} : store'.timeline[j] = store.timeline[j]
    BY <1>5, ClaimEffect, ConstantAssumption DEF ClaimRuns, RunClaim
  <2>4. CASE Claimable(store, id, now)
    <3> DEFINE p == store.payloads[id]
    <3>1. /\ p \in Pub /\ IdOf[p] = id /\ activation[p] \in Int /\ activation[p] <= now
      BY <2>4, ClaimedPublication
    <3>2. store'.timeline[id] = now + LeaseTtl /\ lastClaim' = [lastClaim EXCEPT ![p] = now]
      BY <1>5, <2>4, ClaimEffect, ConstantAssumption DEF ClaimRuns, RunClaim
    <3>3. \A q \in Pub \ {p} : Stored(q) => IdOf[q] # id
      BY DEF Stored
    <3>4. KeysCoupled'
      BY <2>1, <2>3, <2>4, <3>2, NoneAssumption, ConstantAssumption
         DEF StoreInv, KeysCoupled, Claimable
    <3>5. ScoreIsLeaseEnd'
      BY <2>1, <2>2, <2>3, <3>1, <3>2, <3>3, NoneAssumption, ConstantAssumption
         DEF StoreInv, ScoreIsLeaseEnd
    <3>6. StoreConsistent'
      BY <2>1, <2>2, <3>1, <3>2, NoneAssumption DEF StoreInv, StoreConsistent
    <3> QED BY <3>4, <3>5, <3>6 DEF StoreInv
  <2>5. CASE ~Claimable(store, id, now)
    <3>1. lastClaim' = lastClaim
      BY <1>5, <2>5 DEF ClaimRuns, RunClaim
    <3>2. \/ store' = store
          \/ store.payloads[id] = None /\ store'.timeline[id] = None
      BY <1>5, <2>5, ClaimEffect, ConstantAssumption DEF ClaimRuns, RunClaim, Claimable
    <3>3. KeysCoupled'
      BY <2>1, <2>3, <3>2 DEF StoreInv, KeysCoupled
    <3>4. \A q \in Pub : Stored(q) => store'.timeline[IdOf[q]] = store.timeline[IdOf[q]]
      BY <2>3, <3>2, NoneAssumption, ConstantAssumption DEF Stored
    <3>5. ScoreIsLeaseEnd'
      BY <2>1, <2>2, <3>1, <3>4 DEF StoreInv, ScoreIsLeaseEnd
    <3>6. StoreConsistent'
      BY <2>1, <2>2, <3>1 DEF StoreInv, StoreConsistent
    <3> QED BY <3>3, <3>5, <3>6 DEF StoreInv
  <2> QED BY <2>4, <2>5
<1>6. CASE StoreUntouched
  BY <1>6 DEF StoreUntouched, StoreInv, KeysCoupled, ScoreIsLeaseEnd, StoreConsistent, Stored
<1> QED BY <1>1, <1>2, <1>3, <1>4, <1>5, <1>6, StoreSteps DEF CancelTimer, CommitRuns

-------------------------------------------------------------------------------
(* What a step may do to a task. *)

\* History only grows: an activation time is set once, the last claim moves
\* forward, a settled publication stays settled, time passes.
LEMMA HistoryGrows ==
    ASSUME TypeOK, TaskConsistent, LateConsistent, StoreInv, [Next]_vars
    PROVE  /\ clock <= clock'
           /\ settled \subseteq settled'
           /\ \A p \in Pub : activation[p] # None => activation'[p] = activation[p]
           /\ \A p \in Pub : lastClaim[p] # None =>
                /\ lastClaim'[p] # None
                /\ lastClaim[p] <= lastClaim'[p]
<1>1. clock' = clock \/ clock' = clock + 1
  BY DEF Next, Publish, CancelTimer, CancelAllTimers, EvictPayloads, TaskNext, Fetch,
         SendClaim, ServeClaim, Contested, Deliver, Discard, Finish, Settle, Nack,
         ServeRemove, GiveUp, Crash, Abandon, LateClaim, LateRemove, Tick, vars
<1>2. ASSUME NEW p \in Pub, NEW at \in ActivateAt, Publish(p, at)
      PROVE  /\ UNCHANGED <<settled, lastClaim>> /\ activation[p] = None
             /\ activation' = [activation EXCEPT ![p] = at]
  BY <1>2 DEF Publish
<1>3. ASSUME NEW id \in TimerId, NEW now \in Int, ClaimRuns(id, now)
      PROVE  \A p \in Pub : lastClaim[p] # None =>
                /\ lastClaim'[p] # None
                /\ lastClaim[p] <= lastClaim'[p]
  <2>1. CASE Claimable(store, id, now)
    <3>1. lastClaim' = [lastClaim EXCEPT ![store.payloads[id]] = now]
      BY <1>3, <2>1 DEF ClaimRuns, RunClaim
    <3> QED BY <2>1, <3>1, ClaimedPublication, NoneAssumption, ConstantAssumption
            DEF TypeOK, Score
  <2>2. CASE ~Claimable(store, id, now)
    BY <1>3, <2>2 DEF ClaimRuns, RunClaim, TypeOK, Score
  <2> QED BY <2>1, <2>2
<1>4. \A p \in Pub : lastClaim[p] # None => lastClaim[p] \in Int
  BY DEF TypeOK, Score
<1>5. /\ settled \subseteq settled'
      /\ \A p \in Pub : activation[p] # None => activation'[p] = activation[p]
      /\ \A p \in Pub : lastClaim[p] # None =>
                /\ lastClaim'[p] # None
                /\ lastClaim[p] <= lastClaim'[p]
  BY <1>2, <1>3, <1>4, StoreSteps
     DEF CancelTimer, CancelAllTimers, EvictPayloads, ClaimRuns, CommitRuns,
         StoreUntouched, TypeOK
<1> QED BY <1>1, <1>5 DEF TypeOK

\* What one task's step makes of it, in the terms its invariants are stated in.
TaskMoves(t) ==
    LET old == task[t]  new == task'[t] IN
    \/ new = old /\ (clock' = clock \/ (clock' = clock + 1 /\ Deadline(t)))
    \/ new = Idle
    \/ new.pc = "fetched" /\ new.got = None
    \/ /\ clock' = clock /\ new.pc = "claiming" /\ new.got = None
       /\ new.since = clock /\ new.now = WallClock(t)
    \/ /\ clock' = clock /\ old.pc = "claiming" /\ new.pc = "answered"
       /\ ServeClaim(t)
    \/ /\ clock' = clock /\ old.pc = "answered" /\ new.pc = "running" /\ new.since = clock
       /\ new.id = old.id /\ new.now = old.now /\ new.got = old.got
    \/ /\ clock' = clock /\ new.pc = "removing" /\ old.got # None
       /\ new.id = old.id /\ new.now = old.now /\ new.got = old.got
       /\ old.pc \in {"answered", "running"}
       /\ old.got \in settled'

\* Every step, seen from one task of _claim_and_consume: what it may become and keep.
LEMMA TaskSteps ==
    ASSUME TypeOK, [Next]_vars, NEW t \in Task
    PROVE  TaskMoves(t)
<1> USE DEF TypeOK, TaskMoves
<1>1. ASSUME NEW u \in Task, NEW id \in TimerId, Fetch(u, id) PROVE TaskMoves(t)
  BY <1>1 DEF Fetch, Become
<1>2. ASSUME NEW u \in Task, SendClaim(u) PROVE TaskMoves(t)
  BY <1>2 DEF SendClaim, Enter, Become
<1>3. ASSUME NEW u \in Task, ServeClaim(u) PROVE TaskMoves(t)
  BY <1>3 DEF ServeClaim, At, Enter, Become
<1>4. ASSUME NEW u \in Task, Contested(u) \/ Nack(u) \/ ServeRemove(u) PROVE TaskMoves(t)
  BY <1>4 DEF Contested, Nack, ServeRemove, End, Become
<1>5. ASSUME NEW u \in Task, Deliver(u) PROVE TaskMoves(t)
  BY <1>5 DEF Deliver, At, Enter, Become
<1>6. ASSUME NEW u \in Task, Discard(u) \/ Finish(u) PROVE TaskMoves(t)
  <2>1. task[u].got # None /\ task[u].pc \in {"answered", "running"}
    BY <1>6, NoneAssumption, ConstantAssumption
       DEF Discard, Finish, At, TaskState, Idle, Pub
  <2> QED BY <1>6, <2>1 DEF Discard, Finish, Settle, Enter, Become
<1>7. ASSUME NEW S \in SUBSET Task, Abandon(S) PROVE TaskMoves(t)
  BY <1>7 DEF Abandon
<1>8. CASE UNCHANGED <<task, clock>>
  BY <1>8
<1>9. CASE Tick
  BY <1>9 DEF Tick
<1> QED
  BY <1>1, <1>2, <1>3, <1>4, <1>5, <1>6, <1>7, <1>8, <1>9
     DEF Next, TaskNext, GiveUp, Crash, Publish, CancelTimer, CancelAllTimers,
         EvictPayloads, LateClaim, LateRemove, vars

\* What a claim that answers a task says of the publication it leased.
LEMMA ServeClaimEffect ==
    ASSUME TypeOK, StoreInv, NEW t \in Task, ServeClaim(t)
    PROVE  LET new == task'[t] IN
           /\ new.pc = "answered"
           /\ new.id = task[t].id /\ new.now = task[t].now /\ new.since = task[t].since
           /\ new.id \in TimerId /\ new.now \in Int
           /\ \A u \in Task \ {t} : task'[u] = task[u]
           /\ new.got # None =>
                /\ new.got \in Pub /\ IdOf[new.got] = new.id
                /\ activation[new.got] \in Int /\ activation[new.got] <= new.now
                /\ lastClaim'[new.got] = new.now
                /\ lastClaim[new.got] # None =>
                     /\ lastClaim[new.got] \in Int
                     /\ lastClaim[new.got] + LeaseTtl <= new.now
<1> DEFINE id == task[t].id  now == task[t].now  p == store.payloads[id]
<1>1. id \in TimerId /\ now \in Int
  BY DEF ServeClaim, At, TypeOK, TaskState, Idle
<1>2. /\ task'[t].pc = "answered" /\ task'[t].id = id /\ task'[t].now = now
      /\ task'[t].since = task[t].since
      /\ task'[t].got = ClaimReply(store, id, now)
      /\ \A u \in Task \ {t} : task'[u] = task[u]
  BY DEF ServeClaim, Enter, Become, TypeOK
<1>3. CASE Claimable(store, id, now)
  <2>1. lastClaim' = [lastClaim EXCEPT ![p] = now] /\ task'[t].got = p
    BY <1>2, <1>3 DEF ServeClaim, RunClaim, ClaimReply
  <2> QED BY <1>1, <1>2, <1>3, <2>1, ClaimedPublication DEF TypeOK
<1>4. CASE ~Claimable(store, id, now)
  BY <1>1, <1>2, <1>4 DEF ClaimReply
<1> QED BY <1>3, <1>4

\* A step keeps what a task's payload says of the publication it holds.
LEMMA TaskConsistentStep ==
    ASSUME TypeOK, TaskConsistent, LateConsistent, StoreInv, [Next]_vars
    PROVE  TaskConsistent'
<1> SUFFICES ASSUME NEW t \in Task
             PROVE  LET new == task'[t] IN
                    /\ new.pc = "removing" => new.got \in settled'
                    /\ new.got # None =>
                         /\ IdOf[new.got] = new.id
                         /\ activation'[new.got] # None
                         /\ activation'[new.got] <= new.now
                         /\ lastClaim'[new.got] # None
                         /\ new.now <= lastClaim'[new.got]
  BY DEF TaskConsistent, At
<1> DEFINE old == task[t]  new == task'[t]
<1>1. old.got # None => old.got \in Pub /\ old.now \in Int
  BY NoneAssumption DEF TypeOK, TaskState, Idle, Pub
<1>2. TypeOK'
  BY TypeStep
<1>3. ASSUME new.got = old.got, new.id = old.id, new.now = old.now, new.got # None
      PROVE  /\ IdOf[new.got] = new.id
             /\ activation'[new.got] # None
             /\ activation'[new.got] <= new.now
             /\ lastClaim'[new.got] # None
             /\ new.now <= lastClaim'[new.got]
  <2>1. lastClaim[old.got] \in Int /\ lastClaim'[old.got] \in Int \cup {None}
    BY <1>1, <1>2, <1>3 DEF TypeOK, TaskConsistent, Score
  <2> QED BY <1>1, <1>3, <2>1, HistoryGrows DEF TaskConsistent
<1>4. CASE new = old
  BY <1>3, <1>4, HistoryGrows DEF TaskConsistent, At
<1>5. CASE new = Idle \/ (new.pc \in {"fetched", "claiming"} /\ new.got = None)
  BY <1>5 DEF Idle
<1>6. CASE new.pc = "answered" /\ ServeClaim(t)
  BY <1>6, ServeClaimEffect, HistoryGrows, NoneAssumption DEF ServeClaim
<1>7. CASE /\ new.pc = "running"
           /\ new.id = old.id /\ new.now = old.now /\ new.got = old.got
  BY <1>3, <1>7
<1>8. CASE /\ new.pc = "removing" /\ old.got # None
           /\ new.id = old.id /\ new.now = old.now /\ new.got = old.got
           /\ old.got \in settled'
  BY <1>3, <1>8
<1> QED BY <1>4, <1>5, <1>6, <1>7, <1>8, TaskSteps DEF TaskMoves

\* A commit becomes late only when its client gave up, and its client had settled.
LEMMA LateConsistentStep ==
    ASSUME TypeOK, TaskConsistent, LateConsistent, StoreInv, [Next]_vars
    PROVE  LateConsistent'
<1>1. settled \subseteq settled'
  BY HistoryGrows
<1>2. ASSUME late' \subseteq late PROVE LateConsistent'
  BY <1>1, <1>2 DEF LateConsistent
<1>3. ASSUME NEW S \in SUBSET Task, Abandon(S) PROVE LateConsistent'
  <2>1. ASSUME NEW t \in Task, NEW c \in InFlight(t), c.op = "remove"
        PROVE  \E q \in settled : IdOf[q] = c.id
    <3>1. At(t, "removing") /\ c.id = task[t].id
      BY <2>1 DEF InFlight, At
    <3>2. task[t].got \in Pub
      BY <3>1 DEF At, TypeOK, TaskState, Idle
    <3> QED BY <3>1, <3>2, NoneAssumption DEF TaskConsistent, Pub
  <2>2. \A c \in late' : c \in late \/ \E t \in Task : c \in InFlight(t)
    BY <1>3 DEF Abandon
  <2> QED BY <1>1, <2>1, <2>2 DEF LateConsistent
<1> QED
  BY <1>2, <1>3
     DEF Next, TaskNext, Publish, CancelTimer, CancelAllTimers, EvictPayloads, Fetch,
         SendClaim, ServeClaim, Contested, Deliver, Discard, Finish, Settle, Nack,
         ServeRemove, GiveUp, Crash, LateClaim, LateRemove, Tick, vars

\* A step takes a timer out of Redis only for the reasons OnlySettledIdsVanish lists.
LEMMA OnlySettledStep ==
    ASSUME TypeOK, TaskConsistent, LateConsistent, StoreInv, OnlySettledIdsVanish, [Next]_vars
    PROVE  OnlySettledIdsVanish'
<1> USE DEF TypeOK, Pub
<1>1. settled \subseteq settled'
  BY HistoryGrows
<1>2. \A p \in Pub : IdSettled(p) => IdSettled(p)'
  BY <1>1 DEF IdSettled
<1>3. ASSUME NEW p \in Pub, NEW at \in ActivateAt, Publish(p, at) PROVE OnlySettledIdsVanish'
  <2>1. IdOf[p] \in TimerId /\ at \in Int
    BY ConstantAssumption
  <2>2. /\ store'.payloads[IdOf[p]] = p
        /\ \A j \in TimerId \ {IdOf[p]} : store'.payloads[j] = store.payloads[j]
    BY <1>3, <2>1, ScheduleEffect DEF Publish
  <2>3. \A q \in Pub : Stored(q) => Stored(q)' \/ q \in withdrawn'
    BY <1>3, <2>2, NoneAssumption, ConstantAssumption DEF Stored, Publish
  <2>4. Stored(p)'
    BY <2>2 DEF Stored
  <2> QED BY <1>2, <1>3, <2>3, <2>4 DEF OnlySettledIdsVanish, Publish
<1>4. ASSUME NEW id \in TimerId, CancelTimer(id) PROVE OnlySettledIdsVanish'
  <2>1. \A q \in Pub : Stored(q) => Stored(q)' \/ q \in withdrawn'
    BY <1>4, RemoveEffect, NoneAssumption, ConstantAssumption DEF Stored, CancelTimer
  <2> QED BY <1>2, <1>4, <2>1 DEF OnlySettledIdsVanish, CancelTimer
<1>5. CASE CancelAllTimers
  BY <1>2, <1>5 DEF OnlySettledIdsVanish, CancelAllTimers
<1>6. CASE EvictPayloads
  BY <1>2, <1>6 DEF OnlySettledIdsVanish, EvictPayloads
<1>7. ASSUME NEW id \in TimerId, NEW now \in Int, ClaimRuns(id, now)
      PROVE  OnlySettledIdsVanish'
  <2>1. store'.payloads = store.payloads
    BY <1>7, ClaimEffect, ConstantAssumption DEF ClaimRuns, RunClaim
  <2> QED BY <1>2, <1>7, <2>1 DEF OnlySettledIdsVanish, ClaimRuns, Stored
<1>8. ASSUME NEW id \in TimerId, CommitRuns(id) PROVE OnlySettledIdsVanish'
  <2>1. \A q \in Pub : Stored(q) => Stored(q)' \/ IdSettled(q)
    BY <1>8, RemoveEffect, ConstantAssumption DEF Stored, CommitRuns, IdSettled
  <2> QED BY <1>2, <1>8, <2>1 DEF OnlySettledIdsVanish, CommitRuns
<1>9. CASE StoreUntouched
  BY <1>2, <1>9 DEF OnlySettledIdsVanish, StoreUntouched, Stored
<1> QED BY <1>3, <1>4, <1>5, <1>6, <1>7, <1>8, <1>9, StoreSteps

\* Time never passes a deadline (fail_after, HandlerMax) that is still to be acted on.
LEMMA ClockConsistentStep ==
    ASSUME TypeOK, StoreInv, ClockConsistent, [Next]_vars,
           clock <= clock'
    PROVE  ClockConsistent'
<1> SUFFICES ASSUME NEW t \in Task
             PROVE  LET new == task'[t]  skew == Skew[WorkerOf[t]] IN
                    /\ new.pc \in Phase \ {"fetched"} => new.now <= clock' + skew
                    /\ new.pc \in {"claiming", "answered"} =>
                         /\ clock' <= new.since + CommandTimeout
                         /\ new.now = new.since + skew
                    /\ new.pc = "running" =>
                         /\ clock' <= new.now - skew + CommandTimeout + HandlerMax
                         /\ clock' <= new.since + HandlerMax
                         /\ new.since <= new.now - skew + CommandTimeout
  BY DEF ClockConsistent, WallClock, At
<1> DEFINE old == task[t]  new == task'[t]  skew == Skew[WorkerOf[t]]
<1>1. skew \in Int /\ clock \in Int /\ clock' \in Int
  BY TypeStep, ConstantAssumption DEF TypeOK
<1>2. /\ old.pc \in Phase => old.now \in Int /\ old.since \in Int
      /\ old.pc \in Phase \ {"fetched"} => old.now <= clock + skew
      /\ old.pc \in {"claiming", "answered"} =>
           /\ clock <= old.since + CommandTimeout
           /\ old.now = old.since + skew
      /\ old.pc = "running" =>
           /\ clock <= old.now - skew + CommandTimeout + HandlerMax
           /\ clock <= old.since + HandlerMax
           /\ old.since <= old.now - skew + CommandTimeout
  BY DEF TypeOK, TaskState, Idle, Phase, ClockConsistent, WallClock, At
<1>3. CASE new = old /\ (clock' = clock \/ (clock' = clock + 1 /\ Deadline(t)))
  <2>1. old.pc \in {"claiming", "answered"} => clock' <= old.since + CommandTimeout
    BY <1>1, <1>2, <1>3, ConstantAssumption DEF Deadline, Phase
  <2>2. old.pc = "running" => clock' <= old.since + HandlerMax
    BY <1>1, <1>2, <1>3, ConstantAssumption DEF Deadline, At, Phase
  <2> QED BY <1>1, <1>2, <1>3, <2>1, <2>2, ConstantAssumption DEF Phase
<1>4. CASE new = Idle \/ (new.pc = "fetched" /\ new.got = None)
  BY <1>4 DEF Idle, Phase
<1>5. CASE /\ clock' = clock /\ new.pc = "claiming"
           /\ new.since = clock /\ new.now = WallClock(t)
  BY <1>1, <1>5, ConstantAssumption DEF WallClock
<1>6. CASE clock' = clock /\ old.pc = "claiming" /\ new.pc = "answered" /\ ServeClaim(t)
  BY <1>1, <1>2, <1>6, ServeClaimEffect DEF Phase
<1>7. CASE /\ clock' = clock /\ old.pc = "answered" /\ new.pc = "running"
           /\ new.since = clock /\ new.now = old.now
  BY <1>1, <1>2, <1>7, ConstantAssumption DEF Phase
<1>8. CASE /\ clock' = clock /\ new.pc = "removing" /\ new.now = old.now
           /\ old.pc \in {"answered", "running"}
  BY <1>1, <1>2, <1>8 DEF Phase
<1> QED BY <1>3, <1>4, <1>5, <1>6, <1>7, <1>8, TaskSteps DEF TaskMoves

\* A claim leases a publication lease_ttl after the last one, so that two tasks that
\* hold the same publication stay a lease apart.
LEMMA HoldersApartStep ==
    ASSUME TypeOK, TaskConsistent, StoreInv, HoldersApart, [Next]_vars
    PROVE  HoldersApart'
<1> DEFINE Apart(a, b) == a.now + LeaseTtl <= b.now \/ b.now + LeaseTtl <= a.now
<1>1. ASSUME NEW t \in Task, ~ServeClaim(t), task'[t].got # None
      PROVE  task'[t].got = task[t].got /\ task'[t].now = task[t].now
  BY <1>1, TaskSteps DEF TaskMoves, Idle
<1>2. ASSUME NEW t \in Task, NEW u \in Task, t # u, ServeClaim(t),
             task'[t].got # None, task'[u].got = task'[t].got
      PROVE  Apart(task'[t], task'[u])
  <2>1. task'[u] = task[u]
    BY <1>2, ServeClaimEffect
  <2>2. task[u].now \in Int /\ lastClaim[task[u].got] # None
           /\ task[u].now <= lastClaim[task[u].got]
    BY <1>2, <2>1 DEF TypeOK, TaskState, Idle, TaskConsistent
  <2>3. /\ task'[t].now \in Int
        /\ lastClaim[task[u].got] \in Int
        /\ lastClaim[task[u].got] + LeaseTtl <= task'[t].now
    BY <1>2, <2>1, <2>2, ServeClaimEffect
  <2> QED BY <2>1, <2>2, <2>3, ConstantAssumption
<1>3. ASSUME NEW t \in Task, NEW u \in Task, t # u,
             task'[t].got # None, task'[t].got = task'[u].got
      PROVE  Apart(task'[t], task'[u])
  <2>1. CASE ServeClaim(t)
    BY <1>2, <1>3, <2>1
  <2>2. CASE ServeClaim(u)
    BY <1>2, <1>3, <2>2
  <2>3. CASE ~ServeClaim(t) /\ ~ServeClaim(u)
    BY <1>1, <1>3, <2>3 DEF HoldersApart
  <2> QED BY <2>1, <2>2, <2>3
<1> QED BY <1>3 DEF HoldersApart

-------------------------------------------------------------------------------
(* The theorems *)

\* The invariant of the delivery protocol holds of every topic: any number of ids,
\* workers and tasks, any lease, timeouts, clock skews, evictions and late commands.
THEOREM DeliveryInvariant == Spec => []DeliveryInv
<1>1. Init => DeliveryInv
  <2> SUFFICES ASSUME Init PROVE DeliveryInv
    OBVIOUS
  <2>1. TypeOK
    BY DEF Init, TypeOK, EmptyStore, Store, Score, TaskState
  <2>2. \A p \in Pub : ~Stored(p)
    BY NoneAssumption, ConstantAssumption DEF Init, Stored, EmptyStore, Pub
  <2>3. KeysCoupled /\ ScoreIsLeaseEnd /\ OnlySettledIdsVanish /\ StoreConsistent
    BY <2>2 DEF Init, KeysCoupled, ScoreIsLeaseEnd, OnlySettledIdsVanish,
                StoreConsistent, EmptyStore
  <2>4. TaskConsistent /\ LateConsistent /\ ClockConsistent /\ HoldersApart
    BY DEF Init, Idle, Phase, At, TaskConsistent, LateConsistent, ClockConsistent,
           HoldersApart
  <2> QED BY <2>1, <2>3, <2>4 DEF DeliveryInv
<1>2. DeliveryInv /\ [Next]_vars => DeliveryInv'
  <2> SUFFICES ASSUME DeliveryInv, [Next]_vars PROVE DeliveryInv'
    OBVIOUS
  <2>1. TypeOK /\ StoreInv /\ TaskConsistent /\ LateConsistent
    BY DEF DeliveryInv, StoreInv
  <2>2. clock <= clock'
    BY <2>1, HistoryGrows
  <2>3. ClockConsistent'
    BY <2>1, <2>2, ClockConsistentStep DEF DeliveryInv
  <2>4. HoldersApart'
    BY <2>1, HoldersApartStep DEF DeliveryInv
  <2>5. OnlySettledIdsVanish'
    BY <2>1, OnlySettledStep DEF DeliveryInv
  <2> QED BY <2>1, <2>3, <2>4, <2>5, TypeStep, StoreInvStep, TaskConsistentStep,
             LateConsistentStep DEF DeliveryInv, StoreInv
<1> QED BY <1>1, <1>2, PTL DEF Spec

\* Whatever is lost, delayed or crashes, and whichever ids are reused, a payload
\* is never stranded without a score.
THEOREM KeysStayCoupled == Spec => []KeysCoupled
<1>1. DeliveryInv => KeysCoupled
  BY DEF DeliveryInv
<1> QED BY <1>1, DeliveryInvariant, PTL

\* A timer vanishes only when it is withdrawn or evicted, or when a timer of its
\* id was settled.
THEOREM VanishingExplained == Spec => []OnlySettledIdsVanish
<1>1. DeliveryInv => OnlySettledIdsVanish
  BY DEF DeliveryInv
<1> QED BY <1>1, DeliveryInvariant, PTL

\* With every id published once, no timer is lost.
THEOREM NoLossWithUniqueIds ==
    ASSUME UniqueIds
    PROVE  Spec => []NoTimerLost
<1>1. DeliveryInv => NoTimerLost
  BY DEF UniqueIds, DeliveryInv, TypeOK, OnlySettledIdsVanish, IdSettled, NoTimerLost
<1> QED BY <1>1, DeliveryInvariant, PTL

\* No handler runs before its time.
THEOREM NotEarly == Spec => []NeverEarly
<1>1. DeliveryInv => NeverEarly
  <2> SUFFICES ASSUME DeliveryInv, NEW t \in Task, At(t, "running")
               PROVE  /\ activation[task[t].got] # None
                      /\ activation[task[t].got] <= WallClock(t)
    BY DEF NeverEarly
  <2>1. task[t].got \in Pub /\ task[t].now \in Int /\ WallClock(t) \in Int
    BY ConstantAssumption
       DEF DeliveryInv, TypeOK, TaskState, Idle, At, WallClock
  <2>2. task[t].now <= WallClock(t)
    BY DEF DeliveryInv, ClockConsistent, At, Phase
  <2>3. activation[task[t].got] # None /\ activation[task[t].got] <= task[t].now
    BY <2>1, NoneAssumption DEF DeliveryInv, TaskConsistent, Pub
  <2> QED BY <2>1, <2>2, <2>3 DEF DeliveryInv, TypeOK, Score
<1> QED BY <1>1, DeliveryInvariant, PTL

\* When the lease covers a delivery, no two handlers run for one publication.
THEOREM LeaseExcludes ==
    ASSUME LeaseCoversHandler
    PROVE  Spec => []Exclusive
<1>1. DeliveryInv => Exclusive
  <2> SUFFICES ASSUME DeliveryInv, NEW t \in Task, NEW u \in Task, t # u,
                      At(t, "running"), At(u, "running"), task[t].got = task[u].got
               PROVE  FALSE
    BY DEF Exclusive
  <2> DEFINE s(x) == Skew[WorkerOf[x]]
  <2>1. ASSUME NEW x \in Task, At(x, "running")
        PROVE  /\ task[x].got # None /\ task[x].now \in Int /\ s(x) \in Int
               /\ clock <= task[x].now - s(x) + CommandTimeout + HandlerMax
               /\ task[x].now <= clock + s(x)
    BY <2>1, NoneAssumption, ConstantAssumption
       DEF DeliveryInv, TypeOK, TaskState, Idle, At, ClockConsistent, WallClock, Phase, Pub
  <2>2. clock \in Int /\ WorkerOf[t] \in Worker /\ WorkerOf[u] \in Worker
    BY ConstantAssumption DEF DeliveryInv, TypeOK
  <2>3. \/ task[t].now + LeaseTtl <= task[u].now
        \/ task[u].now + LeaseTtl <= task[t].now
    BY <2>1 DEF DeliveryInv, HoldersApart
  <2>4. /\ CommandTimeout + HandlerMax + s(t) - s(u) < LeaseTtl
        /\ CommandTimeout + HandlerMax + s(u) - s(t) < LeaseTtl
    BY <2>2 DEF LeaseCoversHandler
  <2> HIDE DEF s
  <2> QED BY <2>1, <2>2, <2>3, <2>4, ConstantAssumption
<1> QED BY <1>1, DeliveryInvariant, PTL

\* ... and while its handler runs a timer is due on nobody's clock.
THEOREM RunningIsHidden ==
    ASSUME LeaseCoversHandler
    PROVE  Spec => []HiddenWhileRunning
<1>1. DeliveryInv => HiddenWhileRunning
  <2> SUFFICES ASSUME DeliveryInv, NEW t \in Task, NEW w \in Worker, At(t, "running"),
                      Stored(task[t].got)
               PROVE  task[t].id \in Pending(store, None) \ Pending(store, clock + Skew[w])
    BY DEF HiddenWhileRunning
  <2> DEFINE p == task[t].got  s == Skew[WorkerOf[t]]
  <2>1. p \in Pub /\ task[t].now \in Int /\ s \in Int /\ Skew[w] \in Int /\ clock \in Int
    BY ConstantAssumption DEF DeliveryInv, TypeOK, TaskState, Idle, At
  <2>2. IdOf[p] = task[t].id /\ lastClaim[p] \in Int /\ task[t].now <= lastClaim[p]
    BY <2>1, NoneAssumption DEF DeliveryInv, TypeOK, TaskConsistent, Pub, Score
  <2>3. store.timeline[task[t].id] = lastClaim[p] + LeaseTtl
    BY <2>1, <2>2, NoneAssumption DEF DeliveryInv, ScoreIsLeaseEnd
  <2>4. clock <= task[t].now - s + CommandTimeout + HandlerMax
    BY DEF DeliveryInv, ClockConsistent
  <2>5. CommandTimeout + HandlerMax + Skew[w] - s < LeaseTtl
    BY ConstantAssumption DEF LeaseCoversHandler
  <2>6. ~(lastClaim[p] + LeaseTtl <= clock + Skew[w])
    <3> HIDE DEF p, s
    <3> QED BY <2>1, <2>2, <2>4, <2>5, ConstantAssumption
  <2>7. task[t].id \in TimerId /\ store.timeline[task[t].id] # None
    BY <2>1, <2>2, <2>3, ConstantAssumption, NoneAssumption DEF Pub
  <2>8. task[t].id \in Pending(store, None)
    BY <2>7 DEF Pending, IsPending
  <2>9. task[t].id \notin Pending(store, clock + Skew[w])
    BY <2>1, <2>3, <2>6, NoneAssumption DEF Pending
  <2> QED BY <2>8, <2>9
<1> QED BY <1>1, DeliveryInvariant, PTL

\* Two leases of a publication are lease_ttl apart; the first is not early.
THEOREM LeasesApart == Spec => ClaimsApart
<1>1. ASSUME DeliveryInv, [Next]_vars
      PROVE  \A p \in Pub : lastClaim'[p] # lastClaim[p] =>
               /\ lastClaim'[p] >= activation[p]
               /\ lastClaim[p] # None => lastClaim'[p] >= lastClaim[p] + LeaseTtl
  <2>1. TypeOK /\ StoreInv /\ TaskConsistent /\ LateConsistent
    BY <1>1 DEF DeliveryInv, StoreInv
  <2>2. ASSUME NEW id \in TimerId, NEW now \in Int, ClaimRuns(id, now),
               NEW p \in Pub, lastClaim'[p] # lastClaim[p]
        PROVE  /\ lastClaim'[p] >= activation[p]
               /\ lastClaim[p] # None => lastClaim'[p] >= lastClaim[p] + LeaseTtl
    <3>1. Claimable(store, id, now)
      BY <2>2 DEF ClaimRuns, RunClaim
    <3>2. p = store.payloads[id] /\ lastClaim'[p] = now
      BY <2>1, <2>2, <3>1 DEF ClaimRuns, RunClaim, TypeOK
    <3> QED BY <2>1, <3>1, <3>2, ClaimedPublication, ConstantAssumption
  <2> QED BY <1>1, <2>1, <2>2, StoreSteps
          DEF Publish, CancelTimer, CancelAllTimers, EvictPayloads, CommitRuns,
              StoreUntouched
<1> QED BY <1>1, DeliveryInvariant, PTL DEF Spec, ClaimsApart

\* Nothing brings a timer back that has left Redis.
THEOREM GoneStaysGone == Spec => GoneForGood
<1>1. ASSUME DeliveryInv, [Next]_vars
      PROVE  \A p \in Pub : activation[p] # None /\ ~Stored(p) => ~Stored(p)'
  <2>1. TypeOK /\ StoreInv /\ TaskConsistent /\ LateConsistent
    BY <1>1 DEF DeliveryInv, StoreInv
  <2>2. ASSUME NEW q \in Pub, NEW at \in ActivateAt, Publish(q, at),
               NEW p \in Pub, p # q, ~Stored(p)
        PROVE  ~Stored(p)'
    <3>1. store \in Store /\ q \in Payload /\ at \in Int
             /\ IdOf[p] \in TimerId /\ IdOf[q] \in TimerId
      BY <2>1, ConstantAssumption DEF TypeOK, Pub
    <3>2. /\ store'.payloads[IdOf[q]] = q
          /\ \A j \in TimerId \ {IdOf[q]} : store'.payloads[j] = store.payloads[j]
      BY <2>2, <3>1, ScheduleEffect DEF Publish
    <3> QED BY <2>2, <3>1, <3>2 DEF Stored
  <2>3. ASSUME NEW id \in TimerId, store' = Remove(store, id), NEW p \in Pub, ~Stored(p)
        PROVE  ~Stored(p)'
    BY <2>1, <2>3, RemoveEffect, NoneAssumption, ConstantAssumption DEF Stored, TypeOK, Pub
  <2>4. ASSUME store'.payloads = EmptyStore.payloads, NEW p \in Pub
        PROVE  ~Stored(p)'
    BY <2>4, NoneAssumption, ConstantAssumption DEF Stored, EmptyStore, Pub
  <2>5. ASSUME NEW id \in TimerId, NEW now \in Int, ClaimRuns(id, now)
        PROVE  store'.payloads = store.payloads
    BY <2>1, <2>5, ClaimEffect, ConstantAssumption DEF ClaimRuns, RunClaim, TypeOK
  <2>6. ASSUME NEW p \in Pub, activation[p] # None, ~Stored(p),
               NEW q \in Pub, NEW at \in ActivateAt, Publish(q, at)
        PROVE  ~Stored(p)'
    BY <2>2, <2>6 DEF Publish
  <2> QED BY <1>1, <2>1, <2>3, <2>4, <2>5, <2>6, StoreSteps
          DEF CancelTimer, CancelAllTimers, CancelAll, EvictPayloads, CommitRuns,
              StoreUntouched, Stored
<1> QED BY <1>1, DeliveryInvariant, PTL DEF Spec, GoneForGood

-------------------------------------------------------------------------------
(* The refinement *)

\* A removal under an id takes at most the one publication of that id.
LEMMA RemoveUnderUniqueId ==
    ASSUME UniqueIds, TypeOK, NEW id \in TimerId, store' = Remove(store, id)
    PROVE  /\ \A p \in Pub : Stored(p)' <=> Stored(p) /\ IdOf[p] # id
           /\ \A q \in Pub : IdOf[q] = id =>
                {p \in Pub : Stored(p)'} = {p \in Pub : Stored(p)} \ {q}
           /\ (\A q \in Pub : IdOf[q] # id) =>
                {p \in Pub : Stored(p)'} = {p \in Pub : Stored(p)}
<1>1. \A p \in Pub : p # None
  BY NoneAssumption DEF Pub
<1>2. \A p \in Pub : Stored(p)' <=> Stored(p) /\ IdOf[p] # id
  BY <1>1, RemoveEffect, ConstantAssumption DEF Stored, TypeOK
<1> QED BY <1>2 DEF UniqueIds

\* With an id per publication the protocol does what TimerPromise says: every step of
\* the store, the workers and the late commands is a step of the promise, or none.
THEOREM Refinement ==
    ASSUME UniqueIds
    PROVE  Spec => KeepsPromise
<1> DEFINE P == {p \in Pub : activation[p] # None}
           S == {p \in Pub : Stored(p)}
           L == {p \in Pub : lastClaim[p] # None}
           B == withdrawn \cup evicted
<1>1. Init => Promise!Init
  <2> SUFFICES ASSUME Init PROVE Promise!Init
    OBVIOUS
  <2>1. \A p \in Pub : ~Stored(p)
    BY NoneAssumption, ConstantAssumption DEF Init, Stored, EmptyStore, Pub
  <2> QED BY <2>1 DEF Init, Promise!Init
<1>2. DeliveryInv /\ [Next]_vars => [Promise!Next]_(Promise!vars)
  <2> SUFFICES ASSUME DeliveryInv, [Next]_vars
               PROVE  Promise!Next \/ UNCHANGED Promise!vars
    OBVIOUS
  <2>1. TypeOK /\ StoreInv /\ TaskConsistent /\ LateConsistent
    BY DEF DeliveryInv, StoreInv
  <2>2. ASSUME NEW p \in Pub, NEW at \in ActivateAt, Publish(p, at)
        PROVE  Promise!Publish(p)
    <3>1. store \in Store /\ at \in Int /\ at # None /\ \A q \in Pub : IdOf[q] \in TimerId
      BY <2>1, NoneAssumption, ConstantAssumption DEF TypeOK
    <3>2. /\ store'.payloads[IdOf[p]] = p
          /\ \A j \in TimerId \ {IdOf[p]} : store'.payloads[j] = store.payloads[j]
      BY <2>2, <3>1, ScheduleEffect DEF Publish, Pub
    <3>3. S' = S \cup {p}
      BY <3>1, <3>2 DEF Stored, UniqueIds
    <3>4. p \notin P /\ P' = P \cup {p}
      BY <2>1, <2>2, <3>1 DEF Publish, TypeOK
    <3>5. L' = L /\ settled' = settled
      BY <2>2 DEF Publish
    <3>6. store.payloads[IdOf[p]] = None
      <4>1. store.payloads[IdOf[p]] \in Pub \cup {None}
        BY <3>1 DEF Store, Pub
      <4>2. ~Stored(p)
        BY <2>1, <2>2 DEF StoreInv, StoreConsistent, Publish
      <4> QED BY <2>1, <3>1, <4>1, <4>2 DEF StoreInv, StoreConsistent, UniqueIds, Stored
    <3>7. B' = B
      BY <2>2, <3>6 DEF Publish
    <3> QED BY <3>3, <3>4, <3>5, <3>7 DEF Promise!Publish
  <2>3. ASSUME NEW id \in TimerId, CancelTimer(id)
        PROVE  \E Q \in SUBSET S : Promise!TakeBack(Q)
    <3> DEFINE Q == {store.payloads[id]} \ {None}
    <3>1. store.payloads[id] \in Pub \cup {None}
      BY <2>1 DEF TypeOK, Store, Pub
    <3>2. Q \in SUBSET S /\ \A p \in S : IdOf[p] = id <=> p \in Q
      BY <2>1, <3>1, NoneAssumption DEF StoreInv, StoreConsistent, Stored, Pub
    <3>3. S' = S \ Q
      BY <2>1, <2>3, <3>2, RemoveUnderUniqueId DEF CancelTimer
    <3>4. P' = P /\ L' = L /\ settled' = settled /\ B' = B \cup Q
      BY <2>3 DEF CancelTimer
    <3> QED BY <3>2, <3>3, <3>4 DEF Promise!TakeBack
  <2>4. ASSUME CancelAllTimers \/ EvictPayloads
        PROVE  Promise!TakeBack(S)
    <3>1. store'.payloads = [i \in TimerId |-> None]
      BY <2>4 DEF CancelAllTimers, CancelAll, EvictPayloads, EmptyStore
    <3>2. S' = {}
      BY <3>1, NoneAssumption, ConstantAssumption DEF Stored, Pub
    <3>3. P' = P /\ L' = L /\ settled' = settled /\ B' = B \cup S
      BY <2>4 DEF CancelAllTimers, EvictPayloads
    <3> QED BY <3>2, <3>3 DEF Promise!TakeBack
  <2>5. ASSUME NEW id \in TimerId, NEW now \in Int, ClaimRuns(id, now)
        PROVE  \/ UNCHANGED <<P, S, L, settled, B>>
               \/ \E p \in Pub : Promise!Lease(p)
    <3>1. S' = S /\ P' = P /\ settled' = settled /\ B' = B
      BY <2>1, <2>5, ClaimEffect, ConstantAssumption
         DEF ClaimRuns, RunClaim, Stored, TypeOK
    <3>2. CASE Claimable(store, id, now)
      <4> DEFINE p == store.payloads[id]
      <4>1. p \in Pub /\ p \in S
        BY <2>1, <3>2, ClaimedPublication
      <4>2. L' = L \cup {p}
        <5>1. lastClaim' = [lastClaim EXCEPT ![p] = now] /\ now # None
          BY <2>5, <3>2, NoneAssumption DEF ClaimRuns, RunClaim
        <5> QED BY <2>1, <4>1, <5>1 DEF TypeOK
      <4> QED BY <3>1, <4>1, <4>2 DEF Promise!Lease
    <3>3. CASE ~Claimable(store, id, now)
      BY <2>5, <3>1, <3>3 DEF ClaimRuns, RunClaim
    <3> QED BY <3>2, <3>3
  <2>6. ASSUME NEW id \in TimerId, CommitRuns(id)
        PROVE  \E p \in Pub : Promise!Retire(p)
    <3>1. PICK q \in settled : IdOf[q] = id
      BY <2>6 DEF CommitRuns
    <3>2. q \in Pub /\ S' = S \ {q}
      BY <2>1, <2>6, <3>1, RemoveUnderUniqueId DEF CommitRuns, TypeOK
    <3>3. P' = P /\ L' = L /\ settled' = settled /\ B' = B
      BY <2>6 DEF CommitRuns
    <3> QED BY <3>1, <3>2, <3>3 DEF Promise!Retire
  <2>7. ASSUME StoreUntouched
        PROVE  \/ UNCHANGED <<P, S, L, settled, B>>
               \/ \E p \in Pub : Promise!Settle(p)
    <3>1. S' = S /\ P' = P /\ L' = L /\ B' = B
      BY <2>7 DEF StoreUntouched, Stored
    <3>2. ASSUME settled' # settled
          PROVE  \E p \in L : settled' = settled \cup {p}
      <4>1. PICK t \in Task : Discard(t) \/ Finish(t)
        BY <3>2 DEF Next, Publish, CancelTimer, CancelAllTimers, EvictPayloads, TaskNext,
           Fetch, SendClaim, ServeClaim, Contested, Deliver, Nack, ServeRemove, GiveUp,
           Crash, Abandon, LateClaim, LateRemove, Tick, vars, history
      <4>2. task[t].got \in Pub /\ settled' = settled \cup {task[t].got}
        BY <2>1, <4>1, ConstantAssumption
           DEF Discard, Finish, Settle, At, TypeOK, TaskState, Idle
      <4>3. task[t].got \in L
        BY <2>1, <4>2, NoneAssumption DEF TaskConsistent, Pub
      <4> QED BY <4>2, <4>3
    <3>3. CASE settled' = settled
      BY <3>1, <3>3
    <3>4. CASE settled' # settled
      BY <3>1, <3>2, <3>4 DEF Promise!Settle
    <3> QED BY <3>3, <3>4
  <2>8. S \subseteq Pub
    OBVIOUS
  <2> QED BY <2>1, <2>2, <2>3, <2>4, <2>5, <2>6, <2>7, StoreSteps
          DEF Promise!Next, Promise!vars
<1> QED BY <1>1, <1>2, DeliveryInvariant, PTL DEF Spec, KeepsPromise, Promise!Spec
===============================================================================
