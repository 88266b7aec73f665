------------------------------ MODULE Redelivery ------------------------------
(***************************************************************************)
(* "The lease eventually expires and another worker re-claims the timer":  *)
(* one timer and the workers that keep polling for it, in a time that does *)
(* not end.                                                                *)
(*                                                                         *)
(* Time is relative: the present is always 0, and a tick moves every score *)
(* and every clock reading one second into the past.  What is Horizon in   *)
(* the past moves no further: as Horizon is at least LeaseTtl, a claim so  *)
(* old can only replace a score that is over by one that is over too.      *)
(***************************************************************************)
EXTENDS TimerStore, Envelope

CONSTANTS
    Timer,       \* the timer's id
    Task,        \* consume tasks, each of a worker of its own
    LeaseTtl,    \* TimerSub.lease_ttl
    ActivateIn,  \* seconds from the publication to the activation
    Horizon,     \* bound of the model: how far back the past is told apart
    MaxLate      \* bound of the model: commands in flight without a client

ASSUME RedeliveryAssumption ==
    /\ TimerId = {Timer} /\ Payload \subseteq Data
    /\ LeaseTtl \in Nat \ {0} /\ ActivateIn \subseteq Nat
    /\ Horizon \in Nat /\ Horizon >= LeaseTtl
    /\ MaxLate \in Nat

VARIABLES
    store,     \* the topic's two keys
    task,      \* task -> its phase, the `now` of its claim, the payload it got
    late,      \* commands in flight whose client gave up
    \* history
    published, \* the timer was published
    verdict    \* "none"; "settled": acked, rejected or discarded; "cancelled"

history == <<published, verdict>>
vars == <<store, task, late, history>>

Idle == [pc |-> "idle", now |-> 0, got |-> None]
Past == -Horizon .. 0

Phase == {"idle", "fetched", "claiming", "answered", "running", "removing"}
Command == [op : {"claim"}, now : Past] \cup [op : {"remove"}, now : {0}]

\* The range of the variables; no handler is given nil, however claims and late claims
\* interleave with the removal of the timer.
TypeOK ==
    /\ store \in Store
    /\ task \in [Task -> [pc : Phase, now : Past, got : Payload \cup {None}]]
    /\ late \subseteq Command
    /\ published \in BOOLEAN /\ verdict \in {"none", "settled", "cancelled"}
    /\ \A t \in Task : task[t].pc \in {"running", "removing"} => task[t].got # None

Init ==
    /\ store = EmptyStore
    /\ task = [t \in Task |-> Idle]
    /\ late = {}
    /\ published = FALSE /\ verdict = "none"

\* parse_message: the payloads that decode() will discard.
Corrupt == {p \in Payload : Parse(p) = "ValueError"}

At(t, phase) == task[t].pc = phase
Become(t, state) == task' = [task EXCEPT ![t] = state]
Enter(t, phase) == Become(t, [task[t] EXCEPT !.pc = phase])

-------------------------------------------------------------------------------
\* broker.publish, broker.cancel_timer
Publish(p, in) ==
    /\ ~published
    /\ store' = Schedule(store, Timer, p, in)
    /\ published' = TRUE
    /\ UNCHANGED <<task, late, verdict>>

CancelTimer ==
    /\ published /\ verdict = "none"
    /\ store' = Remove(store, Timer)
    /\ verdict' = "cancelled"
    /\ UNCHANGED <<task, late, published>>

\* The poll loop of t's worker fetches the timer.
Fetch(t) ==
    /\ At(t, "idle") /\ IsDue(store, Timer, 0)
    /\ Enter(t, "fetched")
    /\ UNCHANGED <<store, late, history>>

SendClaim(t) ==
    /\ At(t, "fetched")
    /\ Become(t, [pc |-> "claiming", now |-> 0, got |-> None])
    /\ UNCHANGED <<store, late, history>>

ServeClaim(t) ==
    /\ At(t, "claiming")
    /\ store' = Claim(store, Timer, task[t].now, LeaseTtl)
    /\ Become(t, [pc |-> "answered", now |-> 0, got |-> ClaimReply(store, Timer, task[t].now)])
    /\ UNCHANGED <<late, history>>

\* nil
Contested(t) ==
    /\ At(t, "answered") /\ task[t].got = None
    /\ Become(t, Idle)
    /\ UNCHANGED <<store, late, history>>

\* Faulty: nil is not told from a payload.
DeliverNil(t) ==
    /\ At(t, "answered") /\ task[t].got \notin Corrupt
    /\ Enter(t, "running")
    /\ UNCHANGED <<store, late, history>>

Deliver(t) ==
    /\ At(t, "answered") /\ task[t].got \in Payload \ Corrupt
    /\ Enter(t, "running")
    /\ UNCHANGED <<store, late, history>>

\* The commit is sent.
Settle(t) ==
    /\ Enter(t, "removing")
    /\ verdict' = IF verdict = "none" THEN "settled" ELSE verdict
    /\ UNCHANGED <<store, late, published>>

\* Faulty: the error is raised and the timer left to its lease, for ever.
DiscardNothing(t) ==
    /\ At(t, "answered") /\ task[t].got \in Corrupt
    /\ Become(t, Idle)
    /\ UNCHANGED <<store, late, history>>

\* decode() has the timer removed, and raises.
Discard(t) == At(t, "answered") /\ task[t].got \in Corrupt /\ Settle(t)

\* The handler succeeds, or rejects.
Finish(t) == At(t, "running") /\ Settle(t)

\* The handler raised: nothing but the lease brings the timer back.
Nack(t) ==
    /\ At(t, "running")
    /\ Become(t, Idle)
    /\ UNCHANGED <<store, late, history>>

ServeRemove(t) ==
    /\ At(t, "removing")
    /\ store' = Remove(store, Timer)
    /\ Become(t, Idle)
    /\ UNCHANGED <<late, history>>

\* fail_after, a broken connection, stop(), or the end of the worker: the task is no
\* more; a command it had sent may still arrive.
GiveUp(t) ==
    /\ ~At(t, "idle")
    /\ Become(t, Idle)
    /\ \/ UNCHANGED late
       \/ /\ task[t].pc \in {"claiming", "removing"}
          /\ late' = late \cup {IF At(t, "claiming")
                                THEN [op |-> "claim", now |-> task[t].now]
                                ELSE [op |-> "remove", now |-> 0]}
          /\ Cardinality(late') <= MaxLate
    /\ UNCHANGED <<store, history>>

LateCommand(c) ==
    /\ late' = late \ {c}
    /\ store' = IF c.op = "claim" THEN Claim(store, Timer, c.now, LeaseTtl)
                                  ELSE Remove(store, Timer)
    /\ UNCHANGED <<task, history>>

\* One second later.
Older(n) == IF n = None \/ n = -Horizon THEN n ELSE n - 1
Tick ==
    /\ store' = [timeline |-> [i \in TimerId |-> Older(store.timeline[i])],
                 payloads |-> store.payloads]
    /\ task' = [t \in Task |-> IF At(t, "claiming") THEN [task[t] EXCEPT !.now = Older(@)]
                               ELSE task[t]]
    /\ late' = {IF c.op = "claim" THEN [c EXCEPT !.now = Older(@)] ELSE c : c \in late}
    /\ UNCHANGED history

TaskNext(t) ==
    \/ Fetch(t) \/ SendClaim(t) \/ ServeClaim(t) \/ Contested(t) \/ Deliver(t)
    \/ Discard(t) \/ Finish(t) \/ Nack(t) \/ ServeRemove(t) \/ GiveUp(t)

Next ==
    \/ \E p \in Payload, in \in ActivateIn : Publish(p, in)
    \/ CancelTimer
    \/ \E t \in Task : TaskNext(t)
    \/ \E c \in late : LateCommand(c)
    \/ Tick

Spec == Init /\ [][Next]_vars

\* Time goes on, some worker keeps polling, and every task moves on or ends: it is
\* answered, fail_after fires, its handler returns or raises, or its worker dies.
Progress ==
    /\ WF_vars(Tick)
    /\ WF_vars(\E t \in Task : Fetch(t))
    /\ \A t \in Task : WF_vars(TaskNext(t) /\ ~At(t, "idle"))

FairSpec == Spec /\ Progress

\* What goes wrong does not go wrong every time: not every worker dies before its claim
\* is sent, and not every claim that could succeed is lost, late, or lost with its worker.
ClaimsAnswered ==
    /\ SF_vars(\E t \in Task : SendClaim(t))
    /\ SF_vars(\E t \in Task : ServeClaim(t) /\ Claimable(store, Timer, task[t].now))
    /\ SF_vars(\E t \in Task : Deliver(t) \/ Discard(t))

\* Not every handler fails, and not every commit is lost.
HandlersSucceed == SF_vars(\E t \in Task : Finish(t)) /\ SF_vars(\E t \in Task : ServeRemove(t))
-------------------------------------------------------------------------------
(* Properties *)

Unsettled == published /\ verdict = "none"

\* "If the worker dies mid-handler, the lease expires and the timer is re-delivered":
\* as long as no delivery was settled and the user did not cancel, a handler runs
\* again and again, whatever crashes, raises, is abandoned or arrives late, if only
\* Redis answers often enough.
Redelivered ==
    ClaimsAnswered => (Unsettled ~> ~Unsettled \/ \E t \in Task : At(t, "running"))

\* A timer does not stay in Redis for ever: some delivery succeeds and its commit
\* takes the timer away, also after commits that were lost.
EventuallyGone ==
    ClaimsAnswered /\ HandlersSucceed => (IsPending(store, Timer) ~> ~IsPending(store, Timer))

\* "Timers persisted by older versions continue to fire after upgrade" (envelope.py): a
\* worker hands its handler the body of whatever a version of this package wrote, the
\* bytes themselves if none did, and discards only a timer of a version 0.x whose body
\* is damaged, which no version could ever read.
ReadableIsHandled ==
    [][\A t \in Task : At(t, "answered") =>
         /\ task'[t].pc = "running" =>
              Parse(task[t].got) = IF task[t].got \in {Binary, Legacy} THEN "body" ELSE "raw"
         /\ task'[t].pc = "removing" => task[t].got = Damaged]_vars
===============================================================================
