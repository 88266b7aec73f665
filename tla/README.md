# Specifications of faststream-redis-timers

TLA+ specifications of the library in `faststream_redis_timers/`, checked with TLC on small
instances and, where it says so, proved with TLAPS for every instance. `PROJECT.json` lists the
runs, the source lines each definition stands for, the faulty variants each property is tried
against, the hazards and the findings.

    tlc -workers 2 -config MCTimerDelivery_SharedId.cfg MCTimerDelivery.tla
    tlapm TimerDelivery_proofs.tla

## 1. The system and its parts

A timer is a payload stored under `(topic, timer_id)` with an activation time. Publishers put it
into Redis; a subscriber polls for due timers, leases each by pushing its score forward, runs the
handler, and removes the timer when the handler succeeds.

| part | state it keeps | operations | talks to |
|---|---|---|---|
| `store.py` `TimerStore` | per topic: a sorted set id → score and a hash id → payload; the server's script cache | `schedule`, `due`, `claim` (Lua), `remove` (Lua), `pending`, `is_pending`, `cancel_all` | Redis; called by all others |
| `subscriber/usecase.py` tasks | per task: the id it is for, its phase, the payload | `_claim_and_consume` | store, limiter, handler, message |
| `subscriber/usecase.py` loop | `running`, the limiter, the task group | `_consume`, `_get_msgs` | store, schedule, tasks |
| `subscriber/schedule.py` | two counters | `delay_after_fetch`, `delay_after_error` | called by the loop |
| `message.py`, `parser.py` | `committed` | `decode`, `ack`, `nack`, `reject`, `_remove`, `_discard_corrupt` | store; called by the handler and FastStream's middleware |
| `broker.py`, `response.py`, `publisher/*` | none of their own | `publish`, `cancel_timer`, `cancel_all`, inspection, decorated publishers | store |
| `subscriber/usecase.py`, `broker.py` lifecycle | `running`, the start signal, the poll task | `start`, `stop`, broker `start`, `ping` | FastStream's task mixin |
| `router.py`, `registrator.py`, factories | prefixes, endpoint objects | registration | run once |
| `envelope.py` | none | `parse` (two formats) | parser |
| `testing.py` | `scheduled_timers`, the patched producer and client | `TestTimersBroker`, `FakeTimersProducer` | replaces producer and client; calls the subscribers |

What is hard here:

* **several workers, one store, no lock**: the score is both the schedule and the lease, and every
  worker judges it by its own clock;
* **commands outlive their callers**: `fail_after` abandons a claim or a commit, and the server may
  run it later;
* **commits by id**: nothing ties a commit to the payload that was delivered;
* **one thread**: poll loop, handlers and claims share an event loop, and the loop's count of free
  tokens is taken before the tasks it spawned have run;
* **scripts by hash**: EVALSHA may meet a server that lost the script between any two commands;
* **two worlds**: a `TestTimersBroker` patches the producer and the client of one broker, and all paths
  to Redis have to go through one of them;
* **formats that outlive versions**: Redis holds payloads of 0.x and of this version side by side;
* **await in the middle**: `ack()` tests `committed`, awaits, then sets it; `start()` races its own
  timeout; `stop()` may be cut short.

What makes each part correct, in one line each: a timer is never lost, resurrected, run early or
run twice under one lease (delivery); the loop neither starves a timer nor spawns without bound
nor holds the thread (loop); delays are capped and remember the right streaks (schedule); a status
says what happened in Redis (message); what was accepted stays where its subscriber looks (publish
path); a test records what production would store and touches no Redis (test broker); every
payload a version wrote is read (envelope); nothing polls after a failed start or a stop (lifecycle).

## 2. Modules

| module | models | checked by |
|---|---|---|
| `TimerStore` | one topic's two keys and each operation on them, as operators on a record | through its users |
| `TimerDelivery` (over `TimerStore`) | workers' tasks, users, time, timeouts, crashes, late commands | `MCTimerDelivery_*` |
| `TimerPromise` | the at-least-once promise with no Redis in it | as `KeepsPromise` of `TimerDelivery` |
| `Envelope` | how a payload is told to be of the current format, of 0.x, damaged or foreign, as operators | through `Redelivery` |
| `Redelivery` (over `TimerStore`, `Envelope`) | the liveness of delivery: one timer of any format, in a time that does not end | `MCRedelivery` |
| `PollLoop` | the loop, the fetch, the limiter and the tasks, await by await | `MCPollLoop_*` |
| `PollSchedule` | the backoff | `MCPollSchedule` |
| `TimerMessage` | verdicts on one delivery, over an atomic commit | as `KeepsVerdicts` of `ScriptedMessage` |
| `ScriptedMessage` (over `TimerMessage`) | the commit as `_eval_cached` sends it | `MCTimerMessage` |
| `PublishPath` (over `TimerStore`) | from a call to a key, an id and a score, in production or in a `TestTimersBroker` | `MCPublishPath_*` |
| `SubscriberLifecycle` | start, stop, poll task, ping | `MCSubscriberLifecycle_*` |
| `TimerStore_proofs`, `TimerDelivery_proofs`, `TimerMessage_proofs`, `PollSchedule_proofs`, `PollLoop_proofs`, `SubscriberLifecycle_proofs`, `PublishPath_proofs`, `Redelivery_proofs` | theorems of the module they extend | TLAPS |

Definitions whose comment begins with "Faulty:" are not part of a specification: each is a
plausible bug, used to show that a property notices it.

### TimerStore, TimerDelivery

`store` is a record of two functions, `timeline` (scores) and `payloads`, total over the ids, with
`None` for an absent member. A MULTI block and a Lua script run atomically in Redis, so each
operation of `store.py` is one operator. `Publish`, `CancelTimer`, `CancelAllTimers` are
`broker.publish`, `cancel_timer`, `cancel_all`.

A *publication* is one call of `publish`; payloads identify publications, and `IdOf` says under
which id each is published, so that ids may be shared. `task[t]` walks through
`_claim_and_consume`: `fetched` (the poll loop spawned it, `Fetch`), `claiming` (clock read, claim
sent, `SendClaim`), `answered` (the script ran, `ServeClaim`), then `Contested`, or `running`
(`Deliver`), and `removing` (`Finish`, `Discard`: the commit is sent) or the end (`Nack`). Client and
server are separate steps, so anything can happen between sending a command and its execution.
`GiveUp` is `fail_after`, a broken connection or a task cancelled by `stop()`; `Crash` ends all tasks
of a worker. Both leave the commands in flight in `late`, to run at any later time or never.
`EvictPayloads` is Redis dropping the hash and not the set, the case the claim script's
`if not payload` is for.

Time is an integer clock; worker `w` reads it `Skew[w]` off. It does not pass a deadline
(`Deadline`): `fail_after` fires in time, and handlers are assumed to end within `HandlerMax`, which
only the properties stated "under `LeaseCoversHandler`" depend on.

### Redelivery, Envelope

The same life of a task, cut down to one timer and stripped of the integer clock: the present is
always 0 and `Tick` moves every score and every clock reading one second into the past, down to
`-Horizon`. That keeps the states finite while time goes on for ever, which liveness needs.
`Horizon >= LeaseTtl` makes the floor sound: a claim that old pushes the score to at most 0, and
replaces only scores that are over too, so how much older it is decides nothing.

`Envelope` describes a payload by what its readers look at: the identity header of FastStream's format, a
first byte `{`, whether the JSON is a dict, and its `b`. `Data` names the six kinds there are. `Parse` is
`TimerMessageFormat.parse`; a payload is `Corrupt` when it raises `ValueError`. `Plain` and `Foreign` bytes are
handed over as they are.

### PollLoop, PollSchedule

A step of `PollLoop` is what runs between two awaits. `loop = "top"` means the poll loop has the
thread; tasks move only while it is at an await. `Free` is the code's `free`, which does not count
`spawned` tasks. The limiter is a FIFO (`Release` hands the token on). Time is only what is due, in
score order, and what is not; a server does one of three things to a timer, `Postpone`, `Insert` among the
due ones or `Drop` it. `Insert` is at any place: `resolve_activate_at` lets an `activate_at` in the past
through, whose score sorts in front of what has been due for longer, and clocks differ. `store.due` awaits once for the range query and once more for each id
of the reply that is not UTF-8 (`healing`, `Heal`); `batch` is what is left of the reply meanwhile, and
`FetchFails` loses it all, whether or not the server ran the removal in flight. `PollSchedule` has the
delays in detail; `PollLoop` only asks whether one is zero.

### TimerMessage, ScriptedMessage

One message, the handler's coroutines and the middleware. A verdict is split where the code awaits:
`SendCommit`, `ServeCommit`, `CommitReply`; `CommitFails` leaves a late commit. `committed` changes only
as `super().ack()` changes it. The middleware gives one verdict after the handler, as NACK_ON_ERROR
says.

In `ScriptedMessage` the same commit takes two to four commands: `eval` says which of them is on its way for a
call, `cached` whether the server has the script. `Hit`, `Miss`, `Load`, `MissAgain` are its answers, `Return`
what the caller makes of the last one; `Flush` and `LoadedByOthers` may come between any two. Each action
is one of `TimerMessage`'s or leaves its variables alone, so the property `KeepsVerdicts` is `TimerMessage`'s `Spec`.

### PublishPath

Keys are `FullTopic[<<prefix, topic>>]`, a constant: what the properties tell apart is which pairs of
prefix and topic give one key. The runs take the code's concatenation (`MCPublishPath`'s `Concatenation`) for it, on
prefixes and topics of a broker and two routers some of which join to one key. `Resolve`, `ResolveId`, `FromCmd` are `resolve_activate_at`,
`timer_id or gen_cor_id()`, `from_cmd`. `HasPending`, `GetPendingTimers` and `FetchRedisTimers` are the
inspections of the broker and of a publisher object; `InspectionAgrees` compares them with `Expected`,
which is computed from the history of calls and never from the store.

Endpoints of one key share its timers (`SameTarget`), and the properties say so: what was accepted at
a key leaves it only by a call for that key. Section 3 has what this means for routers.

Inside `async with TestTimersBroker(...)` (`testing`, `EnterTest`, `ExitTest`) every action runs with the fake producer
(`FakeShip`) and the mocked client (`Client`, `Write`): the publication is recorded, and the subscribers of its key run
before `publish()` returns, one after the other until one raises (`Runs`), a mock if a publisher's key has none
(`FakeKeys`). `records` survives the block, as `scheduled_timers` does. Only one broker is
modelled.

### SubscriberLifecycle

`phase` is where a subscriber's `start()` is, `stopping` where a `stop()` from outside is, `poller` where its
poll task is. `Stop` may come at any time after `start()` was called, also while that waits for its signal
or cleans up after its timeout; on a subscriber that is new it changes nothing. `SuperStop` is what
FastStream's `stop()` has done when `move_on_after(graceful_timeout)` lets go of it. A cancelled fetch
sets the start signal in its `finally`; a cancelled first ping leaves it unset, and a `start()` that still
waits then times out. The broker goes on to the next subscriber once `start()` has returned, whatever
was stopped meanwhile.

## 3. What the runs show

Passing runs:

* `delivery_shared_id` - two workers with clocks a second apart, one id published twice, each time
  for now or for a second later (so that a timer can be fetched, and be published again for later before its
  claim runs), one late command, a lease just longer than claim answer + handler + skew. The inductive invariant
  `DeliveryInv`; `OnlySettledIdsVanish`, `NeverEarly`, `Exclusive`, `HiddenWhileRunning`,
  `ClaimsApart`, `GoneForGood`.
* `delivery_own_ids` - one worker with two tasks, two ids, a corrupt payload, evictions, crashes:
  `TypeOK`, `NoTimerLost`, `KeysCoupled`, and the refinement `KeepsPromise`.
* `redelivery` - one timer, two tasks, two late commands: `Redelivered` (a timer that nobody settled or
  cancelled gets a handler again), `EventuallyGone` (it does not stay in Redis for ever), `TypeOK` (no
  handler is given nil), `ReadableIsHandled` (a handler gets the body of whatever a version of the package
  wrote; only a damaged envelope of 0.x is discarded).
* `poll_fair` - two timers, an id that is not UTF-8 and two tokens under a fair event loop.
  `BoundedTasks`: a stale `free` costs at most `max_concurrent` extra tasks, however often the loop
  turns; `FetchFits`, `TypeOK` (no fetch with a limit below one). `LoopAlive` and
  `BackPressureEnds` hold even if Redis never answers; `DueIsServed` if it answers often enough, and
  publications for the past do not overtake the timer for ever.
* `poll_schedule` - `CountersAreStreaks`, `SleepsAreCapped`, `OnlyWorkSkipsSleep`, `TypeOK`.
* `publish_routers` - a broker and two routers, `"a"` and `"ab"`, whose topics `"bx"` and `"x"` are one key;
  tests entered and left at any time: `PublishedStays`, `UndoneIsGone`, `InspectionAgrees`,
  `TypeOK`, and `TestsTell` (`scheduled_timers` is what production would have stored, the subscribers
  of the topic have run, a mock only where there is none, and Redis has not noticed).
* `message_verdicts` - scripts flushed and loaded at any time: `SettledIsRemoved`, `RepublishedIsSpared`,
  `ScriptedInv` (`MessageInv` and the agreement of each call with its command), the refinement
  `KeepsVerdicts`, and `CallsEnd` (a call that Redis answers ends, however often the script is flushed).
* `lifecycle_fair` - three subscribers, one of them without a handler, started in sequence by the
  broker, stopped at any time after their `start()` was called: `FailedStartIsClean`, `LifecycleInv`, `StartSettles`, `StoppedPollerEnds`.

Runs that find a violation, each of a sentence the repository says of itself (`PROJECT.json`,
"findings", quotes them):

* `delivery_late_commit` - a commit removes a timer published again under its id (`NoTimerLost`);
* `poll_zero_interval` - `polling_interval=0` makes a saturated loop keep the thread for ever;
* `publish_responses` - published return values share the id `""`;
* `lifecycle_ping` - `ping()` overlooks the poll tasks of routers.

**Routers may collide.** `docs/usage/router.md:35` says of services on one Redis: "give each its own `TimersRouter`
prefix and they will never collide on keys". The prefix is joined to the topic with no separator
(`publisher/config.py:18`, `subscriber/config.py:19-21`), so a router `"a"` with the topic `"bx"` and a router `"ab"`
with the topic `"x"` have one key: each runs, cancels, overwrites and lists the timers of the other. The
models take this from the code: `publish_routers` has such a pair, and `PublishedStays`, `UndoneIsGone` and
`InspectionAgrees` are stated by key, which is what the code keeps; stated by router they would be false.
Prefixes that end in a character no topic begins with, as the `"my-service:"` of that page, stay apart.

Four things the models show that contradict no promise of the repository, and are therefore only
noted here:

* `LeaseCoversHandler`, the condition of `Exclusive` and `HiddenWhileRunning`, needs a lease longer than
  the claim's answer *and* the handler. The default `command_timeout` is the whole lease
  (`schemas.py:33`), counted from after the clock reading (`usecase.py:157`), so with defaults no handler
  time is covered in the worst case: a claim answered at the last moment starts its handler on a lease
  that is over. Setting `command_timeout` well below `lease_ttl` restores the condition.
* When a subscriber fails to start, `broker.start()` raises and leaves those started before it polling
  until the caller stops the broker (`broker.py:189`).
* A fetch asks for the lowest scores, as many as there are free tokens, and a publication for the past
  (`response.py:12-13`) has a lower score than what has been due for longer. As long as such publications keep
  coming, a due timer may wait for ever: `DueIsServed` excludes that by a premise, and is violated without it.
* A `stop()` while `start()` waits for its first ping cancels the ping, so nothing sets the signal: `start()` then
  waits out its timeout and raises `TimeoutError` (`usecase.py:86`).

### Bounds, and why they are enough

* *Two publications, two tasks, at most two workers*: every property of delivery is about at most two
  of each (two handlers of one publication, a timer and the one that overwrote it). One id in
  `delivery_shared_id`, since ids interact only through sharing one (`IdsAreIndependent`), and two activation
  times. Publications with the same id are symmetric there.
* `MaxTime` covers a claim, a whole lease and the claim after it; `MaxLate = 1`: one late command,
  repeated as often as the run likes. The proofs have none of these bounds.
* `Redelivery`: two tasks, one to overtake the other; two late commands, a claim and a commit at once;
  a lease of two seconds, so that a claim can be late and still be within it.
* `PollLoop`: two timers against two tokens, each of which may be spawned, waiting and held at once, so
  that a batch, a queue and a stale count coexist; the third id is the one that is not UTF-8, and takes
  a place in a reply that the limit would have given to a timer.
* `PollSchedule`: the exponent is capped at 12 instead of 30 and streaks at 14, past both caps.
* `Redelivery` has a payload of each kind of `Envelope` but one: `Plain` is read as `Foreign` is.
* `PublishPath`: two publications are enough for one to disturb the other; two subscribers of one topic, so
  that the second may be missed when the first raises; both are a router's. Of the three publishers two
  belong to the routers that meet in one key, and one has a topic nobody subscribes to. The broker's own
  calls take full topics, and reach that key too.
* `TimerMessage`, `ScriptedMessage`: two coroutines and the middleware, one late commit; the cache is
  flushed any number of times.
* `SubscriberLifecycle`: three subscribers, so that a failure, or a stop, has some before and some after it.

`CHECK_DEADLOCK FALSE` stands where the model can run out: of publications and time, or of
subscribers to stop.

### Fairness

* `PollLoop`: sleeps and handlers end and commands are answered or time out (weak fairness of the
  loop's actions). A task can only move while the loop has yielded, which comes and goes; asyncio
  runs every ready task before it returns to one, so the tasks of a timer get strong fairness.
  `RedisAnswers` (strong fairness of a successful fetch, removal and claim) is a premise of
  `DueIsServed` alone, and so is that a timer is overtaken (`Overtaken`) finitely often only: what users publish
  for the past is not the code's to restrain. Handlers that never return are excluded: with `max_concurrent` of them a
  subscriber does stop.
* `Redelivery`: `Progress` says that time goes on, that some worker keeps polling, and that every task
  moves on or ends - by its answer, by `fail_after`, by its handler, or with its worker. What a network
  or a handler may do is not fairness of the code, so it is a premise of the properties:
  `ClaimsAnswered` (not every claim that could succeed is lost) and, for `EventuallyGone`,
  `HandlersSucceed` (not every handler raises, not every commit is lost). Without them both properties
  are false of any system.
* `ScriptedMessage`: `RedisAnswers`, that each command is answered and its answer taken (weak fairness), is
  all `CallsEnd` needs. The flushes are not restrained: it is the code's two attempts that end a call.
* `SubscriberLifecycle`: timeouts fire, a fetch ends within `command_timeout`, handlers end, a
  cancelled task ends. There is none for the first ping: it has no timeout of its own.

## 4. What is proved

From the assumptions on the constants named in each module, for any number of ids, publications,
workers, tasks, coroutines, any clock skew, lease, timeouts:

* `TimerStore_proofs`: the effect of each operation on its own id and on the others (lemmas);
  `ClaimPushesForward`: a claim never makes a timer due earlier; `SecondClaimMisses`: of two claims of
  one timer less than a lease apart the second gets nil; `LateClaimFindsNothing`: a commit and a claim
  leave the same store in either order; `IdsAreIndependent`: claims and commits of different ids commute.
* `TimerDelivery_proofs`: `[]DeliveryInv` and from it `KeysCoupled`, `OnlySettledIdsVanish`,
  `NeverEarly`, `ClaimsApart`, `GoneForGood`; under `LeaseCoversHandler`, `Exclusive` and
  `HiddenWhileRunning`; under `UniqueIds`, `NoTimerLost` and the refinement `KeepsPromise`.
* `TimerMessage_proofs`: `[]MessageInv`, `SettledIsRemoved`, `RepublishedIsSpared`; that `ScriptedSpec` implements
  `Spec` (`KeepsVerdicts`), and through that the same for scripts, with `[]ScriptedInv`. `TwoAttemptsAtMost`: the
  commands of a call only go forward; from it `AnsweredCallsEnd`, the liveness property `CallsEnd`.
* `PublishPath_proofs`: `TypeOK`, `PublishedStays`, `UndoneIsGone`, `InspectionAgrees` and `TestsTell`, for any
  prefixes, topics, publishers and subscribers, and whatever keys prefixes and topics join to.
* `Redelivery_proofs`: `TypeOK` and `ReadableIsHandled`, for any lease, horizon and number of tasks; and
  the safety half of redelivery, `NothingIsLost` (a timer nobody settled or cancelled is in Redis with its
  payload, due again within its activation time or one lease) and `GoneStaysGone`.
* `PollSchedule_proofs`: all four invariants. That the two periods the code fixes, `MaxErrorDelay` (30 s)
  and `Second`, are positive is assumed; `polling_interval` and its cap may be zero.
* `PollLoop_proofs`: `[]LoopInv`, and with it `TypeOK`, `BoundedTasks` and `FetchFits`, for any number of ids, bad
  ids and tokens; `TimersOnce` (a timer is due at most once, and never also leased);
  `PollingSparesTimers` (a fetch and its removals touch only ids that are not UTF-8); and
  `SaturatedLoopYields`: with a positive `polling_interval` the loop never keeps the thread, so the zero of
  the run `poll_zero_interval` is the only way to violate `YieldsWhenSaturated`.
* `SubscriberLifecycle_proofs`: `[]LifecycleInv` and `FailedStartIsClean`, for any number of subscribers
  and handlers, each registered once; and two liveness properties, `StoppedPollerEnds`
  (`StoppedPollersEnd`) and the first half of `StartSettles` (`StartsSettle`).

**The argument for delivery.** None of the properties is inductive. `Exclusive` needs to know that
two tasks holding one publication took leases `LeaseTtl` apart (`HoldersApart`), which needs to know
what a score means: activation time before the first claim, and end of the last lease after it
(`ScoreIsLeaseEnd`). That survives late claims because a claim with an old `now` finds the score
beyond it. Then `ClockConsistent` bounds how long after its `now` a handler can still run: the answer
takes at most `CommandTimeout`, the handler `HandlerMax`; with the difference of two clocks this must
fit in the lease, which is `LeaseCoversHandler` - the condition behind the documentation's "set to 3-5×
the P99 handler runtime". `NeverEarly` uses that a payload in a task's hands was leased at a `now` past
its activation (`TaskConsistent`), even when the id was published again since the fetch.
`OnlySettledIdsVanish` needs that every commit, in a task or late, is for an id one delivery of which
was settled (`LateConsistent`); with `UniqueIds` that delivery was the timer's own. The proof looks
at each step twice: as what it does to the store (`StoreSteps`) and as what it does to one task
(`TaskSteps`), so that each part of the invariant is shown against a few shapes of step.

**The argument for a message.** `OneAtATime`: as long as no commit went unanswered and no two verdicts
overlapped, at most one call is awaited, on a message that has no status yet; so when a republished
timer is to be spared, there is no commit left that could reach it.

A script adds commands, and no effect: of the commands of one call only an EVALSHA that hits changes the
timer, and after a hit the call is served (`EvalFollowsCall`). So each step is a step of `TimerMessage` or
none, and the invariant is inherited rather than proved again.

**Liveness.** `ENABLED` is out of the prover's reach, and with it WF and SF. Where a liveness theorem is
proved, its premise is the same fairness with the guard of the action in place of `ENABLED`
(`Answered`, `Turns`, `Runs`): "the guard fails infinitely often, or the step is taken infinitely often". On
the instances of the runs TLC finds guard and `ENABLED` the same in every reachable state, except for
`Turns` where the interval is zero, which its theorem excludes. Each argument is a ladder: an action
property says that a step leaves the rung or goes up (`StagesAdvance`, `LetGoAdvances`), and fairness that
no rung is kept. `RunningSpec` also has the premise that the handlers a poll task drains come to an end;
counting them down to zero would be an induction over data.

**The argument for the publish path.** Every step is one of four kinds: something is shipped, something is
shipped in a test, something is removed from one key, or the store is left alone. The invariant says that
what is under an id in a key was sent there under that id (`Filed`), and that the histories agree with it
(`Histories`, `Recorded`). Both are by key: a call takes effect on whatever was sent to the key its endpoint
joins to, and the history of what was undone has every publication to that key, so no premise on the
names of routers and topics is needed.

**The argument for the loop.** The bounds need each other. A fetch asks for
`max_concurrent` less what is held and queued; what it spawns is counted only once started, so the
bound on all tasks is an induction over "fetch sent" and "reply dispatched", with the limit of the
fetch in flight added to the tasks there are (`FetchFits`). What they need of anyio's limiter is that no
task waits while a token is free (`NoIdleToken`): it is a conjunct of `LoopInv`, and no property of this code
by itself. The removals need that the reply still holds an id that is
not UTF-8, and that taking one away shortens it; a lemma about the first such place (a least element
of a nonempty set of naturals) gives both.

**The argument for the lifecycle.** `running` is true exactly while `start()` has neither timed out nor a
`stop()` been called (`RunningMeansOpen`). `start()` awaits the poll task before it raises, and a poll task
that is done has no handler left; so a failed start is clean, even if
`graceful_timeout` had cut `super().stop()` short. Nor does any subscriber after it poll, for the broker
starts them in order (`StartsInOrder`), which an induction over one step needs to be told. Once `super().stop()`
has let go, `running` stays false and the poll task can only go from its fetch or sleep to draining to its
end, or be cancelled by another `stop()`; it is never in its first ping, which has no timeout, because that one is cancelled (`PollersLetGo`).

**The argument for the backoff.** `PowerOfTwo` is a function, so what is said of it for all exponents
needs an induction; said as "the set of exponents for which it holds is all of Nat", that is one use of the
well-foundedness of the naturals (`SetInduction`). That the powers are positive naturals, and products of
positive naturals are positive, is all that `TypeOK` and `OnlyWorkSkipsSleep` need.

**The argument for redelivery.** Only `Remove` takes a timer away: each is sent for a verdict or a cancellation
(`CommitsHaveVerdicts`); a claim of a timer with a payload leaves it pending, no further off than a lease, as
its `now` is not in the future.

Only model-checked, as each needs an induction over data inside temporal logic (a distance that
shrinks: seconds until a timer is due, places in a queue, subscribers still to start), which the provers do not
have: `Redelivered`, `EventuallyGone`, `LoopAlive` (but for the half that `SaturatedLoopYields` has),
`BackPressureEnds`, `DueIsServed`, and the broker's half of `StartSettles`.

## 5. Not modelled, and why

The bytes of a body, and what FastStream's format does with them; AsyncAPI documents, log formatting,
construction of brokers, routers and endpoints: no timer depends on their state. The warning about
duplicate subscribers of a topic: it changes nothing, and what two of them do is what two workers do.
Redis persistence and replication: a failover that loses writes loses timers, whatever this code does.
FastStream, anyio and redis-py are not in the repository; what is modelled of them is what the code
relies on, marked external.

Two hazards have no property, because no doc, comment or test says what is owed: an inspection that
meets an id that is not UTF-8 (`store.py:165`), and a subscriber that is started again while the poll task of its
first life drains (`subscriber/usecase.py:111`), which then polls twice. Of the subscribers that a failed
`broker.start()` leaves polling (`broker.py:189`), `FailedStartIsClean` says only that they were started before
the one that failed.

## 6. Plan

Done, in this order: `TimerStore`, `TimerDelivery` with `TimerPromise` and their proofs, `PollLoop`,
`PollSchedule` with proofs, `PublishPath`, `TimerMessage` with proofs, `SubscriberLifecycle`,
`Redelivery`, the removals and the inspections, `PollLoop_proofs`, `SubscriberLifecycle_proofs`; then the
test broker in `PublishPath`, `ScriptedMessage`, `Envelope`, `PublishPath_proofs`, `Redelivery_proofs`; then
the theorems of `PollSchedule`, of claims and commits that meet (`TimerStore_proofs`), the safety half of
redelivery, and the liveness of calls, poll tasks and the saturated loop.

Next:

1. Composition: the loop of `PollLoop` over the store of `TimerDelivery`, by showing that the tasks of
   the one are tasks of the other.
2. A subscriber started again, in `SubscriberLifecycle`: how long its two poll tasks overlap.
3. Claims by script: `ScriptedMessage` has the commit alone; a claim with its fallback differs in what
   `now` it carries, and `TimerDelivery` has that as a claim answered late.
