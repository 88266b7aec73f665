------------------------- MODULE SubscriberLifecycle -------------------------
(***************************************************************************)
(* Starting, stopping and pinging: TimersSubscriber.start and .stop, the   *)
(* poll task they spawn and cancel, and the broker that starts its         *)
(* subscribers one after another.  stop() may be called at any time after  *)
(* start() was, also while that still waits for its signal, or cleans up.  *)
(*                                                                         *)
(* FastStream's part is modelled from its use: super().stop() clears       *)
(* `running`, waits for the handlers in flight, then cancels the poll task *)
(* without waiting for it; graceful_timeout may cut it short anywhere.     *)
(***************************************************************************)
EXTENDS Integers, Sequences

CONSTANTS
    Subscribers,  \* the broker's subscribers, in the order it starts them
    Own,          \* those registered on the broker itself, not on a router
    Handling,     \* those with a handler: the others have no poll task
    MaxHandlers   \* TimerSub.max_concurrent

ASSUME LifecycleAssumption ==
    /\ Subscribers \in Seq(STRING) /\ Own \subseteq STRING /\ Handling \subseteq STRING
    /\ \A j, k \in DOMAIN Subscribers : Subscribers[j] = Subscribers[k] => j = k
    /\ MaxHandlers \in Nat \ {0}

Sub == {Subscribers[k] : k \in DOMAIN Subscribers}

VARIABLES
    phase,    \* subscriber -> where its start() is
    stopping, \* subscriber -> where a stop() called from outside is
    running,  \* subscriber -> SubscriberUsecase.running
    signal,   \* subscriber -> start_signal is set
    poller,   \* subscriber -> its _consume task
    handlers, \* subscriber -> the tasks in the poll task's group
    broker    \* the broker's own start

subVars == <<phase, stopping, running, signal, poller, handlers>>
vars == <<subVars, broker>>

\* The range of the variables.
TypeOK ==
    /\ phase \in [Sub -> {"new", "waiting", "cleaning", "joining", "started", "failed"}]
    /\ stopping \in [Sub -> {"none", "closing", "stopped"}]
    /\ running \in [Sub -> BOOLEAN] /\ signal \in [Sub -> BOOLEAN]
    /\ poller \in [Sub -> {"none", "pinging", "fetching", "sleeping", "draining",
                           "cancelling", "done"}]
    /\ handlers \in [Sub -> 0 .. MaxHandlers]
    /\ broker \in {"starting", "started", "failed"}

Init ==
    /\ phase = [s \in Sub |-> "new"] /\ stopping = [s \in Sub |-> "none"]
    /\ running = [s \in Sub |-> FALSE] /\ signal = [s \in Sub |-> FALSE]
    /\ poller = [s \in Sub |-> "none"] /\ handlers = [s \in Sub |-> 0]
    /\ broker = "starting"

To(s, new) == phase' = [phase EXCEPT ![s] = new]
StoppingTo(s, new) == stopping' = [stopping EXCEPT ![s] = new]
PollerTo(s, new) == poller' = [poller EXCEPT ![s] = new]
Running(s, on) == running' = [running EXCEPT ![s] = on]

-------------------------------------------------------------------------------
(* start() *)

\* The next subscriber, once start() of those before it has returned, whatever was
\* stopped meanwhile.
Start(k) ==
    LET s == Subscribers[k] IN
    /\ broker = "starting" /\ phase[s] = "new"
    /\ \A j \in 1 .. k - 1 : phase[Subscribers[j]] = "started"
    /\ Running(s, TRUE)
    /\ \/ s \in Handling /\ To(s, "waiting") /\ PollerTo(s, "pinging")
       \/ s \notin Handling /\ To(s, "started") /\ UNCHANGED poller
    /\ UNCHANGED <<stopping, signal, handlers, broker>>

StartReturns(s) ==
    /\ phase[s] = "waiting" /\ signal[s]
    /\ To(s, "started")
    /\ UNCHANGED <<stopping, running, signal, poller, handlers, broker>>

\* Faulty: the poll task is cancelled by nobody.
StartTimesOutStillRunning(s) ==
    /\ phase[s] = "waiting"
    /\ To(s, "cleaning")
    /\ UNCHANGED <<stopping, running, signal, poller, handlers, broker>>

\* fail_after(start_timeout), even if the signal comes at that moment: self.stop().
StartTimesOut(s) ==
    /\ phase[s] = "waiting"
    /\ To(s, "cleaning") /\ Running(s, FALSE)
    /\ UNCHANGED <<stopping, signal, poller, handlers, broker>>

\* The `finally` of a fetch that is cancelled sets the signal; a first ping that is
\* cancelled leaves it unset.
Cancel(s) ==
    /\ PollerTo(s, IF poller[s] \in {"none", "done"} THEN poller[s] ELSE "cancelling")
    /\ signal' = [signal EXCEPT ![s] = @ \/ poller[s] = "fetching"]

\* Faulty: the poll task is never cancelled.
SuperStopOnly(s) == UNCHANGED <<poller, signal>>

\* What super().stop() has done when stop() returns: all of it, unless handlers were
\* in flight and graceful_timeout came first.
SuperStop(s) ==
    \/ Cancel(s)
    \/ handlers[s] > 0 /\ UNCHANGED <<poller, signal>>

StopInStart(s) ==
    /\ phase[s] = "cleaning"
    /\ SuperStop(s) /\ To(s, "joining")
    /\ UNCHANGED <<stopping, running, handlers, broker>>

\* Faulty: start() raises without awaiting the poll task.
StartFailsAtOnce(s) ==
    /\ phase[s] = "joining"
    /\ To(s, "failed")
    /\ UNCHANGED <<stopping, running, signal, poller, handlers, broker>>

\* `await consume_task`, then the TimeoutError is raised.
StartFails(s) ==
    /\ phase[s] = "joining" /\ poller[s] = "done"
    /\ To(s, "failed")
    /\ UNCHANGED <<stopping, running, signal, poller, handlers, broker>>

\* broker.start() returns, or raises what a subscriber's start() raised.
BrokerStarted ==
    /\ broker = "starting" /\ \A s \in Sub : phase[s] = "started"
    /\ broker' = "started" /\ UNCHANGED subVars

BrokerFails ==
    /\ broker = "starting" /\ \E s \in Sub : phase[s] = "failed"
    /\ broker' = "failed" /\ UNCHANGED subVars

-------------------------------------------------------------------------------
(* The poll task *)

\* The `while self.running` test.
LoopTop(s) == PollerTo(s, IF running[s] THEN "fetching" ELSE "draining")

\* Redis answers the first ping, with or without joy; it may never answer.
PingReturns(s) ==
    /\ poller[s] = "pinging"
    /\ LoopTop(s)
    /\ \E ok \in BOOLEAN : signal' = [signal EXCEPT ![s] = @ \/ ok]
    /\ UNCHANGED <<phase, stopping, running, handlers, broker>>

\* A fetch ends, within command_timeout; `finally` sets the signal.
FetchReturns(s) ==
    /\ poller[s] = "fetching"
    /\ PollerTo(s, "sleeping")
    /\ signal' = [signal EXCEPT ![s] = TRUE]
    /\ \E n \in handlers[s] .. MaxHandlers : handlers' = [handlers EXCEPT ![s] = n]
    /\ UNCHANGED <<phase, stopping, running, broker>>

\* Faulty: while True.
WakeForever(s) ==
    /\ poller[s] = "sleeping"
    /\ PollerTo(s, "fetching")
    /\ UNCHANGED <<phase, stopping, running, signal, handlers, broker>>

\* The delay, if any, is over.
Wake(s) ==
    /\ poller[s] = "sleeping"
    /\ LoopTop(s)
    /\ UNCHANGED <<phase, stopping, running, signal, handlers, broker>>

HandlerEnds(s) ==
    /\ handlers[s] > 0
    /\ handlers' = [handlers EXCEPT ![s] = @ - 1]
    /\ UNCHANGED <<phase, stopping, running, signal, poller, broker>>

\* The task group is left when its last task has ended; a cancelled one ends them.
PollerEnds(s) ==
    /\ \/ poller[s] = "draining" /\ handlers[s] = 0
       \/ poller[s] = "cancelling"
    /\ PollerTo(s, "done") /\ handlers' = [handlers EXCEPT ![s] = 0]
    /\ UNCHANGED <<phase, stopping, running, signal, broker>>

\* The poll task dies of what `except Exception` does not catch, in itself or in a task of
\* its group; in a fetch, `finally` sets the signal first.
PollerDies(s) ==
    /\ poller[s] \in {"fetching", "sleeping", "draining"}
    /\ PollerTo(s, "done") /\ handlers' = [handlers EXCEPT ![s] = 0]
    /\ signal' = [signal EXCEPT ![s] = @ \/ poller[s] = "fetching"]
    /\ UNCHANGED <<phase, stopping, running, broker>>

-------------------------------------------------------------------------------
(* stop(), called by the user or by the broker's own stop *)

\* start() may still be waiting.  On a subscriber that is new, it changes nothing.
Stop(s) ==
    /\ phase[s] # "new" /\ stopping[s] = "none"
    /\ StoppingTo(s, "closing") /\ Running(s, FALSE)
    /\ UNCHANGED <<phase, signal, poller, handlers, broker>>

StopReturns(s) ==
    /\ stopping[s] = "closing"
    /\ SuperStop(s) /\ StoppingTo(s, "stopped")
    /\ UNCHANGED <<phase, running, handlers, broker>>

SubNext(s) ==
    \/ StartReturns(s) \/ StartTimesOut(s) \/ StopInStart(s) \/ StartFails(s)
    \/ PingReturns(s) \/ FetchReturns(s) \/ Wake(s) \/ HandlerEnds(s)
    \/ PollerEnds(s) \/ PollerDies(s)
    \/ Stop(s) \/ StopReturns(s)

Next ==
    \/ \E k \in DOMAIN Subscribers : Start(k)
    \/ \E s \in Sub : SubNext(s)
    \/ BrokerStarted \/ BrokerFails

Spec == Init /\ [][Next]_vars

\* The event loop runs what is ready, timeouts fire, fetches and handlers end; Redis
\* owes no answer to the first ping.
Fairness ==
    /\ WF_vars(BrokerStarted) /\ WF_vars(BrokerFails)
    /\ \A k \in DOMAIN Subscribers : WF_vars(Start(k))
    /\ \A s \in Sub :
         /\ WF_vars(StartReturns(s) \/ StartTimesOut(s))
         /\ WF_vars(StopInStart(s)) /\ WF_vars(StartFails(s)) /\ WF_vars(StopReturns(s))
         /\ WF_vars(FetchReturns(s)) /\ WF_vars(Wake(s)) /\ WF_vars(PollerEnds(s))
         /\ WF_vars(HandlerEnds(s))

FairSpec == Spec /\ Fairness
-------------------------------------------------------------------------------
(* Properties *)

\* `running` is true exactly from start() to stop(), or to the timeout of start(),
\* and start() returns only for a signal of the subscriber's own poll task.
RunningMeansOpen ==
    \A s \in Sub :
        /\ running[s] <=> phase[s] \in {"waiting", "started"} /\ stopping[s] = "none"
        /\ poller[s] = "none" <=> phase[s] = "new" \/ s \notin Handling
        /\ poller[s] \in {"none", "pinging", "done"} => handlers[s] = 0
        /\ phase[s] = "started" /\ s \in Handling => signal[s]
        /\ phase[s] = "new" => stopping[s] = "none"

\* The broker starts one subscriber after another, and the next only if none failed,
\* whatever was stopped meanwhile.
StartsInOrder ==
    \A j, k \in DOMAIN Subscribers :
        j < k /\ phase[Subscribers[k]] # "new" => phase[Subscribers[j]] = "started"

\* How start(), stop() and the poll task of a subscriber (usecase.py) stand to one
\* another, and to the other subscribers (broker.py), at any time.
LifecycleInv == TypeOK /\ RunningMeansOpen /\ StartsInOrder

\* "A failed start leaves no orphaned task holding a Redis connection", neither its own
\* nor one of a subscriber after it: what is left polling was started before it.
FailedStartIsClean ==
    \A k \in DOMAIN Subscribers :
        phase[Subscribers[k]] = "failed" =>
            \A j \in DOMAIN Subscribers :
                j >= k => poller[Subscribers[j]] \in {"none", "done"} /\ handlers[Subscribers[j]] = 0

\* start() always returns or raises, even if Redis never answers the ping ("which
\* otherwise deadlocks teardown") and whoever calls stop() meanwhile; and so does the
\* broker's, which goes on to the next subscriber also when one was stopped.
StartSettles ==
    /\ \A s \in Sub : phase[s] = "waiting" ~> phase[s] \in {"started", "failed"}
    /\ broker = "starting" ~> broker # "starting"

\* A stopped subscriber's poll task ends, though stop() did not wait for it and may
\* not even have cancelled it.
StoppedPollerEnds == \A s \in Sub : stopping[s] = "stopped" ~> poller[s] \in {"none", "done"}

\* broker.ping() on a Redis that answers: the poll tasks of `_subscribers`, which a
\* stop() that ran to its end has cleared.
BrokerPing ==
    \A s \in Sub \cap Own :
        phase[s] \in {"waiting", "cleaning", "started"} /\ stopping[s] # "stopped" =>
            poller[s] # "done"

\* "test_broker_ping_dead_task_returns_false": ping is true only if no subscriber
\* that was started, and not stopped, has a dead poll task.
PingSeesDeadPollers ==
    BrokerPing =>
        \A s \in Sub : phase[s] = "started" /\ stopping[s] = "none" => poller[s] # "done"
===============================================================================
