---------------------------- MODULE TimerDelivery ----------------------------
(***************************************************************************)
(* Delivery of the timers of one topic: publishers and cancellers on one   *)
(* side, the _claim_and_consume tasks of several workers on the other, and *)
(* the Redis store between them.                                           *)
(*                                                                         *)
(* A publication is one call of broker.publish; it stores its own payload, *)
(* so the payload identifies the publication, and IdOf gives the timer_id  *)
(* it was published under.  Several publications may share an id: the      *)
(* later one overwrites the earlier.                                       *)
(*                                                                         *)
(* A command leaves its client and reaches the server as two events.  The  *)
(* client waits at most CommandTimeout (anyio.fail_after); a command whose *)
(* client gave up, or died, may still reach the server: it is then `late`. *)
(* Each worker reads its own wall clock, Skew seconds off the true time.   *)
(***************************************************************************)
EXTENDS TimerStore

CONSTANTS
    IdOf,            \* publication -> timer_id
    Corrupt,         \* the publications whose payload cannot be parsed
    Worker, Task,    \* worker processes and their consume tasks
    WorkerOf,        \* task -> worker
    Skew,            \* worker -> offset of its clock
    LeaseTtl, CommandTimeout,   \* TimerSub.lease_ttl, .effective_command_timeout
    HandlerMax,      \* the longest a handler runs
    ActivateAt,      \* the activation times publishers use
    Evictable,       \* TRUE: Redis may evict the payloads hash
    MaxTime, MaxLate \* bounds of the model: clock and late commands

Pub == Payload

ASSUME ConstantAssumption ==
    /\ IdOf \in [Pub -> TimerId]
    /\ Corrupt \subseteq Pub
    /\ WorkerOf \in [Task -> Worker]
    /\ Skew \in [Worker -> Int]
    /\ LeaseTtl \in Nat /\ CommandTimeout \in Nat /\ HandlerMax \in Nat
    /\ CommandTimeout > 0 /\ CommandTimeout <= LeaseTtl
    /\ ActivateAt \subseteq Int
    /\ Evictable \in BOOLEAN
    /\ MaxTime \in Nat /\ MaxLate \in Nat

VARIABLES
    clock,      \* true time
    store,      \* the topic's two Redis keys
    task,       \* task -> its state in _claim_and_consume: the phase `pc`, the timer
                \* `id` it was started with, the `now` it claims with, the true time
                \* its current wait or handler began, the payload the claim returned
    late,       \* commands in flight whose client no longer waits
    \* history
    activation, \* publication -> its activation time, once published
    lastClaim,  \* publication -> `now` of the last claim that leased it
    settled,    \* publications a delivery of which was acked, rejected, discarded
    withdrawn,  \* publications cancelled or overwritten
    evicted     \* publications whose payload Redis evicted

history  == <<activation, lastClaim, settled, withdrawn, evicted>>
vars     == <<clock, store, task, late, history>>

Phase == {"fetched", "claiming", "answered", "running", "removing"}

Idle == [pc |-> "idle", id |-> None, now |-> 0, since |-> 0, got |-> None]

\* A task has a payload only once its claim is answered, and a handler always.
TaskState ==
    {Idle}
    \cup [pc : {"fetched", "claiming"}, id : TimerId, now : Int, since : Nat, got : {None}]
    \cup [pc : {"answered"}, id : TimerId, now : Int, since : Nat, got : Pub \cup {None}]
    \cup [pc : {"running", "removing"}, id : TimerId, now : Int, since : Nat, got : Pub]

Command == [op : {"claim"}, id : TimerId, now : Int]
             \cup [op : {"remove"}, id : TimerId]

\* The range of the variables: a store, a task and a command are always well formed;
\* in particular no task reaches its handler without a payload (the nil test after
\* the claim in _claim_and_consume).
TypeOK ==
    /\ clock \in Nat
    /\ store \in Store
    /\ task \in [Task -> TaskState]
    /\ late \subseteq Command
    /\ activation \in [Pub -> Score]
    /\ lastClaim \in [Pub -> Score]
    /\ settled \subseteq Pub /\ withdrawn \subseteq Pub /\ evicted \subseteq Pub

Init ==
    /\ clock = 0
    /\ store = EmptyStore
    /\ task = [t \in Task |-> Idle]
    /\ late = {}
    /\ activation = [p \in Pub |-> None]
    /\ lastClaim = [p \in Pub |-> None]
    /\ settled = {} /\ withdrawn = {} /\ evicted = {}

\* time.time() as the worker of task t reads it.
WallClock(t) == clock + Skew[WorkerOf[t]]

Stored(p) == store.payloads[IdOf[p]] = p

-------------------------------------------------------------------------------
(* Publishers, cancellers and Redis itself *)

\* broker.publish: one transaction overwrites score and payload.
Publish(p, at) ==
    /\ activation[p] = None
    /\ store' = Schedule(store, IdOf[p], p, at)
    /\ activation' = [activation EXCEPT ![p] = at]
    /\ withdrawn' = withdrawn \cup ({store.payloads[IdOf[p]]} \ {None})
    /\ UNCHANGED <<clock, task, late, lastClaim, settled, evicted>>

\* broker.cancel_timer: the commit script, whatever the timer is doing.
CancelTimer(id) ==
    /\ store' = Remove(store, id)
    /\ withdrawn' = withdrawn \cup ({store.payloads[id]} \ {None})
    /\ UNCHANGED <<clock, task, late, activation, lastClaim, settled, evicted>>

\* broker.cancel_all.
CancelAllTimers ==
    /\ store' = CancelAll(store)
    /\ withdrawn' = withdrawn \cup {p \in Pub : Stored(p)}
    /\ UNCHANGED <<clock, task, late, activation, lastClaim, settled, evicted>>

\* Redis evicts the payloads hash and keeps the timeline: the orphans the claim
\* script cleans up.
EvictPayloads ==
    /\ Evictable
    /\ evicted' = evicted \cup {p \in Pub : Stored(p)}
    /\ store' = [timeline |-> store.timeline, payloads |-> EmptyStore.payloads]
    /\ UNCHANGED <<clock, task, late, activation, lastClaim, settled, withdrawn>>

-------------------------------------------------------------------------------
(* A consume task.  The poll loop's fetch starts it with an id that was due;  *)
(* the fetch is a hint only, every later step looks at the store again.       *)

At(t, phase) == task[t].pc = phase

Become(t, state) == task' = [task EXCEPT ![t] = state]

\* The same timer, in another phase.
Enter(t, phase, now, since, got) ==
    Become(t, [pc |-> phase, id |-> task[t].id, now |-> now, since |-> since, got |-> got])

End(t) == Become(t, Idle)

Fetch(t, id) ==
    /\ At(t, "idle")
    /\ IsDue(store, id, WallClock(t))
    /\ Become(t, [pc |-> "fetched", id |-> id, now |-> 0, since |-> 0, got |-> None])
    /\ UNCHANGED <<clock, store, late, history>>

\* The limiter admits the task: it reads the clock and sends its claim.
SendClaim(t) ==
    /\ At(t, "fetched")
    /\ Enter(t, "claiming", WallClock(t), clock, None)
    /\ UNCHANGED <<clock, store, late, history>>

\* The server runs a claim: the store, and the history of the publication leased.
RunClaim(id, now) ==
    /\ store' = Claim(store, id, now, LeaseTtl)
    /\ lastClaim' = IF Claimable(store, id, now)
                    THEN [lastClaim EXCEPT ![store.payloads[id]] = now]
                    ELSE lastClaim

ServeClaim(t) ==
    /\ At(t, "claiming")
    /\ RunClaim(task[t].id, task[t].now)
    /\ Enter(t, "answered", task[t].now, task[t].since,
             ClaimReply(store, task[t].id, task[t].now))
    /\ UNCHANGED <<clock, late, activation, settled, withdrawn, evicted>>

\* Faulty: a contested task tidies up the id it lost.
ContestedRemoves(t) ==
    /\ At(t, "answered") /\ task[t].got = None
    /\ store' = Remove(store, task[t].id)
    /\ End(t)
    /\ UNCHANGED <<clock, late, history>>

\* nil: contested, the task ends.
Contested(t) ==
    /\ At(t, "answered") /\ task[t].got = None
    /\ End(t)
    /\ UNCHANGED <<clock, store, late, history>>

\* Faulty: nil is not told from a payload.
DeliverNil(t) ==
    /\ At(t, "answered") /\ task[t].got \notin Corrupt
    /\ Enter(t, "running", task[t].now, clock, task[t].got)
    /\ UNCHANGED <<clock, store, late, history>>

\* The payload arrives: the handler starts ...
Deliver(t) ==
    /\ At(t, "answered") /\ task[t].got \in Pub \ Corrupt
    /\ Enter(t, "running", task[t].now, clock, task[t].got)
    /\ UNCHANGED <<clock, store, late, history>>

\* A verdict that removes the timer: the commit script is sent for the id.
Settle(t) ==
    /\ Enter(t, "removing", task[t].now, clock, task[t].got)
    /\ settled' = settled \cup {task[t].got}
    /\ UNCHANGED <<clock, store, late, activation, lastClaim, withdrawn, evicted>>

\* ... or decode() finds it unparsable and has the timer removed instead.
Discard(t) == At(t, "answered") /\ task[t].got \in Corrupt /\ Settle(t)

\* The handler succeeds (ack) or raises RejectMessage (reject).
Finish(t) == At(t, "running") /\ Settle(t)

\* Faulty: nack removes the timer; nack stores it again.
NackRemoves(t) ==
    /\ At(t, "running")
    /\ store' = Remove(store, task[t].id)
    /\ End(t)
    /\ UNCHANGED <<clock, late, history>>

NackReschedules(t) ==
    /\ At(t, "running")
    /\ store' = Schedule(store, task[t].id, task[t].got, task[t].now)
    /\ End(t)
    /\ UNCHANGED <<clock, late, history>>

\* The handler raises anything else, or is cancelled: nack() leaves Redis alone.
Nack(t) ==
    /\ At(t, "running")
    /\ End(t)
    /\ UNCHANGED <<clock, store, late, history>>

\* The commit script runs for the task; its reply, if it comes, only ends the task.
ServeRemove(t) ==
    /\ At(t, "removing")
    /\ store' = Remove(store, task[t].id)
    /\ End(t)
    /\ UNCHANGED <<clock, late, history>>

\* The command a task has sent and the server has not run.
InFlight(t) ==
    CASE At(t, "claiming") -> {[op |-> "claim", id |-> task[t].id, now |-> task[t].now]}
      [] At(t, "removing") -> {[op |-> "remove", id |-> task[t].id]}
      [] OTHER -> {}

\* Tasks end without a word; what they had sent may still arrive.
Abandon(tasks) ==
    /\ task' = [t \in Task |-> IF t \in tasks THEN Idle ELSE task[t]]
    /\ \E C \in SUBSET UNION {InFlight(t) : t \in tasks} :
         /\ Cardinality(late \cup C) <= MaxLate
         /\ late' = late \cup C
    /\ UNCHANGED <<clock, store, history>>

\* fail_after fires, the connection breaks, or the subscriber is stopping and
\* consume() returns at once.
GiveUp(t) ==
    /\ task[t].pc \in {"fetched", "claiming", "answered", "removing"}
    /\ Abandon({t})

\* A worker dies with all its tasks.
Crash(w) ==
    /\ \E t \in Task : WorkerOf[t] = w /\ ~At(t, "idle")
    /\ Abandon({t \in Task : WorkerOf[t] = w})

\* A late command reaches the server; nobody reads the reply.
LateClaim(c) ==
    /\ c.op = "claim"
    /\ late' = late \ {c}
    /\ RunClaim(c.id, c.now)
    /\ UNCHANGED <<clock, task, activation, settled, withdrawn, evicted>>

LateRemove(c) ==
    /\ c.op = "remove"
    /\ late' = late \ {c}
    /\ store' = Remove(store, c.id)
    /\ UNCHANGED <<clock, task, history>>

-------------------------------------------------------------------------------
\* A wait is over when its timeout is, a handler within HandlerMax: time does
\* not pass a deadline that is still to be acted on.
Deadline(t) ==
    /\ task[t].pc \in {"claiming", "answered", "removing"} =>
           clock < task[t].since + CommandTimeout
    /\ At(t, "running") => clock < task[t].since + HandlerMax

Tick ==
    /\ clock < MaxTime
    /\ \A t \in Task : Deadline(t)
    /\ clock' = clock + 1
    /\ UNCHANGED <<store, task, late, history>>

TaskNext(t) ==
    \/ \E id \in TimerId : Fetch(t, id)
    \/ SendClaim(t)
    \/ ServeClaim(t)
    \/ Contested(t)
    \/ Deliver(t)
    \/ Discard(t)
    \/ Finish(t)
    \/ Nack(t)
    \/ ServeRemove(t)
    \/ GiveUp(t)

Next ==
    \/ \E p \in Pub, at \in ActivateAt : Publish(p, at)
    \/ \E id \in TimerId : CancelTimer(id)
    \/ CancelAllTimers
    \/ EvictPayloads
    \/ \E t \in Task : TaskNext(t)
    \/ \E w \in Worker : Crash(w)
    \/ \E c \in late : LateClaim(c) \/ LateRemove(c)
    \/ Tick

Spec == Init /\ [][Next]_vars
-------------------------------------------------------------------------------
(* Properties *)

\* The publications p whose id a delivery was acked, rejected or discarded under.
IdSettled(p) == \E q \in settled : IdOf[q] = IdOf[p]

\* How-it-works: "no timer is lost".  A published timer stays in Redis until its
\* own delivery is acked, rejected or found corrupt, or its user takes it back
\* (or Redis evicts it).
NoTimerLost ==
    \A p \in Pub : activation[p] # None =>
        Stored(p) \/ p \in settled \cup withdrawn \cup evicted

\* The weaker promise that survives the reuse of ids: a commit is sent by id,
\* with no check of whose payload is there, so a timer may also vanish because
\* an earlier one of the same id was settled, but for no other reason.
OnlySettledIdsVanish ==
    \A p \in Pub : activation[p] # None =>
        Stored(p) \/ p \in withdrawn \cup evicted \/ IdSettled(p)

\* The timeline and the hash agree: a payload always has a score, so that no
\* payload is stranded, and a score without a payload is due to an eviction only.
KeysCoupled ==
    \A i \in TimerId :
        /\ store.payloads[i] # None => store.timeline[i] # None
        /\ store.timeline[i] # None /\ store.payloads[i] = None => evicted # {}

\* What the score of a stored timer means: its activation time until it is first
\* claimed, and then the end of the latest lease, whatever late or repeated
\* claims reached the server in between.
ScoreIsLeaseEnd ==
    \A p \in Pub : Stored(p) =>
        /\ activation[p] # None
        /\ store.timeline[IdOf[p]] =
             IF lastClaim[p] = None THEN activation[p] ELSE lastClaim[p] + LeaseTtl

\* No handler runs before its timer's activation time on its worker's clock, not
\* even one fetched before the timer was republished for later.
NeverEarly ==
    \A t \in Task : At(t, "running") =>
        activation[task[t].got] # None /\ activation[task[t].got] <= WallClock(t)

\* A lease outlasts a delivery: the handler's time, the time the claim's answer
\* may take, and the difference between any two clocks fit in lease_ttl.
LeaseCoversHandler ==
    \A v, w \in Worker : CommandTimeout + HandlerMax + Skew[v] - Skew[w] < LeaseTtl

\* "The lease ensures each due timer is processed by exactly one worker at a
\* time": no two tasks run a handler for the same publication (the claim script;
\* guaranteed under LeaseCoversHandler).
Exclusive ==
    \A t, u \in Task :
        At(t, "running") /\ At(u, "running") /\ task[t].got = task[u].got => t = u

\* "Timers currently being processed ... appear in the default (before=None) result
\* but are excluded when before is the current wall time" (store.pending, and so does
\* the fetch exclude them), on any worker's clock (under LeaseCoversHandler).
HiddenWhileRunning ==
    \A t \in Task, w \in Worker : At(t, "running") /\ Stored(task[t].got) =>
        task[t].id \in Pending(store, None) \ Pending(store, clock + Skew[w])

\* Two leases of one publication are at least lease_ttl apart on the clocks of
\* the workers that took them, so that lease_ttl bounds the retry rate from
\* below (subscriber.md), and none is taken before the activation time.
ClaimsApart ==
    [][\A p \in Pub : lastClaim'[p] # lastClaim[p] =>
         /\ lastClaim'[p] >= activation[p]
         /\ lastClaim[p] # None => lastClaim'[p] >= lastClaim[p] + LeaseTtl]_vars

\* A timer that left Redis never comes back: no late claim, commit or eviction
\* resurrects a committed or cancelled publication.
GoneForGood ==
    [][\A p \in Pub : activation[p] # None /\ ~Stored(p) => ~Stored(p)']_vars

-------------------------------------------------------------------------------
(* The inductive invariants behind those properties *)

\* What is in Redis was published under the id it is found at, and nothing is
\* known of a publication before it is published.
StoreConsistent ==
    /\ \A i \in TimerId : store.payloads[i] # None => IdOf[store.payloads[i]] = i
    /\ \A p \in Pub : activation[p] = None => ~Stored(p) /\ lastClaim[p] = None
    /\ \A p \in Pub : lastClaim[p] # None => activation[p] <= lastClaim[p]

\* A task that holds a payload holds one published under its id, leased at the
\* `now` it sent or re-leased since.
TaskConsistent ==
    \A t \in Task :
        /\ At(t, "removing") => task[t].got \in settled
        /\ task[t].got # None =>
             /\ IdOf[task[t].got] = task[t].id
             /\ activation[task[t].got] # None
             /\ activation[task[t].got] <= task[t].now
             /\ lastClaim[task[t].got] # None
             /\ task[t].now <= lastClaim[task[t].got]

\* A commit still under way is for an id one delivery of which was settled.
LateConsistent ==
    \A c \in late : c.op = "remove" => \E q \in settled : IdOf[q] = c.id

\* The `now` of a claim was read on the worker's clock, in the past, ...
ClockConsistent ==
    \A t \in Task :
        /\ task[t].pc \in Phase \ {"fetched"} => task[t].now <= WallClock(t)
\* ... and no wait or handler has outlived its deadline.
        /\ task[t].pc \in {"claiming", "answered"} =>
             clock <= task[t].since + CommandTimeout
                /\ task[t].now = task[t].since + Skew[WorkerOf[t]]
        /\ At(t, "running") =>
             clock <= task[t].now - Skew[WorkerOf[t]] + CommandTimeout + HandlerMax
                /\ clock <= task[t].since + HandlerMax
                /\ task[t].since <= task[t].now - Skew[WorkerOf[t]] + CommandTimeout

\* Two tasks that hold the same publication leased it lease_ttl apart.
HoldersApart ==
    \A t, u \in Task :
        t # u /\ task[t].got # None /\ task[t].got = task[u].got =>
            \/ task[t].now + LeaseTtl <= task[u].now
            \/ task[u].now + LeaseTtl <= task[t].now

\* All of it together, and the parts need each other: what a delivery in the hands of
\* a worker (_claim_and_consume) and the two Redis keys (store.py) may say of one
\* another, whatever commands are late.
DeliveryInv ==
    /\ TypeOK /\ KeysCoupled /\ ScoreIsLeaseEnd /\ OnlySettledIdsVanish
    /\ StoreConsistent /\ TaskConsistent /\ LateConsistent
    /\ ClockConsistent /\ HoldersApart

-------------------------------------------------------------------------------
(* The promise the protocol implements *)

\* Every publication has an id of its own, as generated ids are.
UniqueIds == \A p, q \in Pub : IdOf[p] = IdOf[q] => p = q

Promise == INSTANCE TimerPromise
    WITH published <- {p \in Pub : activation[p] # None},
         pending   <- {p \in Pub : Stored(p)},
         leased    <- {p \in Pub : lastClaim[p] # None},
         takenBack <- withdrawn \cup evicted

\* With every id published once, whatever is lost, late, repeated or crashes, the
\* store, the workers and the commands between them do what TimerPromise says.
KeepsPromise == Promise!Spec

===============================================================================
