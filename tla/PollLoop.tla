------------------------------- MODULE PollLoop -------------------------------
(***************************************************************************)
(* The poll loop of one subscriber (TimersSubscriber._consume, _get_msgs)  *)
(* and the tasks it spawns, on one asyncio event loop, at the granularity  *)
(* of its awaits: a step is what runs between two of them.                 *)
(*                                                                         *)
(* anyio's CapacityLimiter is modelled from its use: a token is granted in *)
(* FIFO order, and the release of one hands it to the first waiter.        *)
(*                                                                         *)
(* Time is abstracted to what it decides: a timer is due, in the order of  *)
(* the scores, or scheduled or leased for later; Base and the delays of    *)
(* PollSchedule matter here only as zero (no await) or more.               *)
(***************************************************************************)
EXTENDS Integers, SequencesExt

CONSTANTS
    TimerId,        \* the timer ids of the topic
    Undecodable,    \* members that another client wrote and that are not UTF-8
    MaxConcurrent,  \* TimerSub.max_concurrent, the limiter's total_tokens
    Base            \* TimerSub.polling_interval

ASSUME LoopAssumption ==
    /\ Undecodable \subseteq TimerId
    /\ MaxConcurrent \in Nat \ {0} /\ Base \in Nat

Decodable == TimerId \ Undecodable

VARIABLES
    due,      \* the due timers, lowest score first
    later,    \* the timers whose score is in the future
    loop,     \* "top": running code; "fetching", "healing", "sleeping": at that await
    asked,    \* the limit sent with the last fetch
    batch,    \* when healing: the rest of the reply
    spawned,  \* tasks not started yet, by the timer each is for, oldest first
    waiting,  \* tasks queued at the limiter, oldest first
    held      \* tasks with a token: their timers and what they await

store == <<due, later>>
tasks == <<spawned, waiting, held>>
vars  == <<store, loop, asked, batch, tasks>>

Holder == [id : Decodable, pc : {"claiming", "handling"}]

\* The range of the variables; `asked` in particular is a limit Redis accepts, since
\* _get_msgs returns before the fetch when no token is free, and no task is for an id
\* that cannot be decoded.
TypeOK ==
    /\ due \in Seq(TimerId)
    /\ later \subseteq TimerId
    /\ loop \in {"top", "fetching", "healing", "sleeping"}
    /\ asked \in Nat
    /\ batch \in Seq(TimerId)
    /\ spawned \in Seq(Decodable)
    /\ waiting \in Seq(Decodable)
    /\ held \in Seq(Holder)

Init ==
    /\ due = <<>> /\ later = {}
    /\ loop = "top" /\ asked = 0 /\ batch = <<>>
    /\ spawned = <<>> /\ waiting = <<>> /\ held = <<>>

IsDue(id) == \E k \in DOMAIN due : due[k] = id
IsLater(id) == id \in later
Without(id) == RemoveFirst(due, id)

\* The three things the server does to the score of a timer: it is pushed into the
\* future, set to one in the past, which may lie before, between or behind those of the
\* timers already due, or removed.
Postpone(id) == due' = Without(id) /\ later' = later \cup {id}
Insert(id) ==
    /\ \E k \in 1 .. Len(Without(id)) + 1 : due' = InsertAt(Without(id), k, id)
    /\ later' = later \ {id}
Drop(id) == due' = Without(id) /\ later' = later \ {id}

\* Faulty: one more than there are tokens.
FreeAndOne == MaxConcurrent + 1 - Len(held) - Len(waiting)

\* `free` of _get_msgs: a task that has not started counts nowhere.
Free == MaxConcurrent - Len(held) - Len(waiting)

\* The event loop has one thread: while the poll loop runs, no task does.
Yielded == loop # "top"

\* Faulty: no pause.
NoPause == loop' = "top"

\* `if delay: await anyio.sleep(delay)`, for a delay that is zero when Base is.
Pause == loop' = IF Base = 0 THEN "top" ELSE "sleeping"

-------------------------------------------------------------------------------
(* The loop *)

\* _get_msgs returns -1 without an await.
BackPressured ==
    /\ loop = "top" /\ Free <= 0
    /\ Pause
    /\ UNCHANGED <<store, asked, batch, tasks>>

\* Faulty: fetches with no free token.
SendFetchAlways ==
    /\ loop = "top"
    /\ loop' = "fetching" /\ asked' = Free
    /\ UNCHANGED <<store, batch, tasks>>

SendFetch ==
    /\ loop = "top" /\ Free > 0
    /\ loop' = "fetching" /\ asked' = Free
    /\ UNCHANGED <<store, batch, tasks>>

\* A result of store.due.  None: back off.  Else start_soon for each, and on to the
\* next _get_msgs with no await: the loop keeps the thread.
Dispatch(ids) ==
    /\ spawned' = ids /\ batch' = <<>>
    /\ IF ids = <<>> THEN Pause ELSE loop' = "top"

\* The place of the first id that is not UTF-8, or 0.
Foreign(ids) == SelectInSeq(ids, LAMBDA id : id \in Undecodable)

\* Faulty: all that is due.
FetchUnlimited ==
    /\ loop = "fetching" /\ spawned = <<>>
    /\ Dispatch(due)
    /\ UNCHANGED <<store, asked, waiting, held>>

\* The reply to the range query.  It takes a round trip, in which the tasks spawned
\* earlier have had their first run.
FetchReply ==
    LET reply == SubSeq(due, 1, IF asked < Len(due) THEN asked ELSE Len(due)) IN
    /\ loop = "fetching" /\ spawned = <<>>
    /\ IF Foreign(reply) = 0 THEN Dispatch(reply)
       ELSE loop' = "healing" /\ batch' = reply /\ UNCHANGED spawned
    /\ UNCHANGED <<store, asked, waiting, held>>

\* Faulty: an id that is not UTF-8 is left out of the result, and left in Redis.
Skip ==
    /\ loop = "healing"
    /\ Dispatch(SelectSeq(batch, LAMBDA id : id \in Decodable))
    /\ UNCHANGED <<store, asked, waiting, held>>

\* The first id that is not UTF-8 is removed from Redis, a round trip for each; then the
\* others are the result.
Heal ==
    LET rest == RemoveAt(batch, Foreign(batch)) IN
    /\ loop = "healing"
    /\ Drop(batch[Foreign(batch)])
    /\ IF Foreign(rest) = 0 THEN Dispatch(rest)
       ELSE batch' = rest /\ UNCHANGED <<loop, spawned>>
    /\ UNCHANGED <<asked, waiting, held>>

\* fail_after, or any error of the fetch or of a removal, which the server may have run:
\* the result is lost; delay_after_error, never zero.
FetchFails ==
    /\ loop \in {"fetching", "healing"}
    /\ UNCHANGED store \/ (loop = "healing" /\ Drop(batch[Foreign(batch)]))
    /\ loop' = "sleeping" /\ batch' = <<>>
    /\ UNCHANGED <<asked, tasks>>

\* A sleep ends after the tasks that were ready when it began have run.
Wake ==
    /\ loop = "sleeping" /\ spawned = <<>>
    /\ loop' = "top"
    /\ UNCHANGED <<store, asked, batch, tasks>>

-------------------------------------------------------------------------------
(* The tasks *)

Claiming(id) == [id |-> id, pc |-> "claiming"]

\* A task's first run: `async with limiter`.
Start ==
    /\ Yielded /\ spawned # <<>>
    /\ spawned' = Tail(spawned)
    /\ IF waiting = <<>> /\ Len(held) < MaxConcurrent
       THEN held' = Append(held, Claiming(Head(spawned))) /\ UNCHANGED waiting
       ELSE waiting' = Append(waiting, Head(spawned)) /\ UNCHANGED held
    /\ UNCHANGED <<store, loop, asked, batch>>

\* The k-th holder leaves the limiter; the first waiter gets its token.
Release(k) ==
    IF waiting = <<>>
    THEN held' = RemoveAt(held, k) /\ UNCHANGED waiting
    ELSE /\ held' = Append(RemoveAt(held, k), Claiming(Head(waiting)))
         /\ waiting' = Tail(waiting)

InPhase(k, phase) == Yielded /\ held[k].pc = phase

\* The claim leases the timer and the handler starts.
Claim(k) ==
    /\ InPhase(k, "claiming") /\ IsDue(held[k].id)
    /\ Postpone(held[k].id)
    /\ held' = [held EXCEPT ![k].pc = "handling"]
    /\ UNCHANGED <<loop, asked, batch, spawned, waiting>>

\* nil: the timer was fetched twice, claimed elsewhere, or is gone.
Contested(k) ==
    /\ InPhase(k, "claiming") /\ ~IsDue(held[k].id)
    /\ Release(k)
    /\ UNCHANGED <<store, loop, asked, batch, spawned>>

\* Faulty: a claim that failed is sent again, under the same token.
ClaimRetried(k) ==
    /\ InPhase(k, "claiming") /\ IsDue(held[k].id)
    /\ Postpone(held[k].id)
    /\ UNCHANGED <<loop, asked, batch, tasks>>

\* fail_after, or any error of the claim; the server may have run it.
ClaimFails(k) ==
    /\ InPhase(k, "claiming")
    /\ UNCHANGED store \/ (IsDue(held[k].id) /\ Postpone(held[k].id))
    /\ Release(k)
    /\ UNCHANGED <<loop, asked, batch, spawned>>

\* consume() returns: the timer committed (whoever holds its lease now), or left.
Handled(k) ==
    /\ InPhase(k, "handling")
    /\ UNCHANGED store \/ Drop(held[k].id)
    /\ Release(k)
    /\ UNCHANGED <<loop, asked, batch, spawned>>

-------------------------------------------------------------------------------
(* The world *)

\* A publication of a new timer or over an old one: into the future, or due at once,
\* for no delay or for an activate_at in the past, and then at the place of its score,
\* in front of timers that have been due for longer.  An id that is not UTF-8 comes
\* from another client.
Publish(id) ==
    /\ Postpone(id) \/ Insert(id)
    /\ UNCHANGED <<loop, asked, batch, tasks>>

CancelTimer(id) ==
    /\ IsDue(id) \/ IsLater(id)
    /\ Drop(id)
    /\ UNCHANGED <<loop, asked, batch, tasks>>

\* Its activation time comes, or its lease runs out.  It need not be the last of those
\* due: this worker's clock may have been set back or forth in between.
BecomeDue(id) ==
    /\ IsLater(id)
    /\ Insert(id)
    /\ UNCHANGED <<loop, asked, batch, tasks>>

\* Another worker claims it; its clock is less than a lease behind.
ClaimedElsewhere(id) ==
    /\ id \in Decodable /\ IsDue(id)
    /\ Postpone(id)
    /\ UNCHANGED <<loop, asked, batch, tasks>>

World(id) == Publish(id) \/ CancelTimer(id) \/ BecomeDue(id) \/ ClaimedElsewhere(id)

HolderNext(k) == Claim(k) \/ Contested(k) \/ ClaimFails(k) \/ Handled(k)

Next ==
    \/ BackPressured \/ SendFetch \/ FetchReply \/ Heal \/ FetchFails \/ Wake \/ Start
    \/ \E k \in DOMAIN held : HolderNext(k)
    \/ \E id \in TimerId : World(id)

Spec == Init /\ [][Next]_vars

\* A task of timer id takes a step A.
TaskOf(id, A(_)) == \E k \in DOMAIN held : held[k].id = id /\ A(k)

\* What a silent Redis cannot prevent: sleeps end, handlers end, and fail_after ends
\* every command, answered or not.  A task can move only while the poll loop has
\* yielded, but the event loop runs every ready task before it comes back to one,
\* which is strong fairness; of two tasks for one timer either may be the one to go on.
Scheduling ==
    /\ WF_vars(BackPressured) /\ WF_vars(SendFetch) /\ WF_vars(Wake) /\ WF_vars(Start)
    /\ WF_vars(FetchReply \/ Heal \/ FetchFails)
    /\ \A id \in Decodable : SF_vars(TaskOf(id, HolderNext))

\* Redis answers often enough: not every fetch and not every claim fails.
RedisAnswers ==
    /\ SF_vars(FetchReply) /\ SF_vars(Heal)
    /\ \A id \in Decodable : SF_vars(TaskOf(id, Claim))

FairSpec == Spec /\ Scheduling

-------------------------------------------------------------------------------
(* Properties *)

\* max_concurrent bounds the handlers that run, but not the tasks: a fetch is
\* sent before the tasks of the one before have started, and counts them nowhere.
\* They are at most twice max_concurrent, however often the loop turns.
BoundedTasks ==
    /\ Len(held) <= MaxConcurrent
    /\ Len(spawned) + Len(waiting) + Len(held) <= 2 * MaxConcurrent

\* The fetch in flight, too, fits in that bound, and what is left of its reply.
FetchFits ==
    /\ Len(spawned) <= MaxConcurrent
    /\ loop \in {"fetching", "healing"} =>
         /\ asked \in 1 .. MaxConcurrent
         /\ Len(batch) <= asked
         /\ asked + Len(spawned) + Len(waiting) + Len(held) <= 2 * MaxConcurrent
    /\ IF loop = "healing" THEN spawned = <<>> /\ Foreign(batch) # 0 ELSE batch = <<>>

\* What the bounds need of the limiter: it lets a task wait only when no token is free.
NoIdleToken == waiting # <<>> => Len(held) = MaxConcurrent

\* The inductive invariant: the bounds need each other, and the limiter's part.
LoopInv == TypeOK /\ BoundedTasks /\ FetchFits /\ NoIdleToken

\* "back-pressure - yield briefly" (schedule.py): a saturated loop gives the thread
\* back to the tasks that hold the tokens.
YieldsWhenSaturated == loop = "top" /\ Free <= 0 ~> loop # "top"

\* The loop never keeps the thread for good, and never stops polling.
LoopAlive == []<>(loop = "top") /\ []<>(loop # "top")

\* Back-pressure ends even if Redis stops answering (command_timeout).
BackPressureEnds == Free <= 0 ~> Free > 0

\* The due timers with a lower score than id's, and a step that gives it new ones.
Ahead(id) == {due[j] : j \in {i \in DOMAIN due : \E k \in DOMAIN due : i < k /\ due[k] = id}}
Overtaken(id) == IsDue(id) /\ IsDue(id)' /\ ~(Ahead(id)' \subseteq Ahead(id))

\* If Redis answers often enough, a due timer does not stay due: whatever handlers do
\* with the others, and however many become due behind it, it is fetched and claimed,
\* cancelled or rescheduled; an id that is not UTF-8 is removed, and keeps the others
\* from being served no longer than that.  This takes that publications for the past
\* (resolve_activate_at lets them through) do not overtake the timer for ever: a fetch
\* asks for the lowest scores, as many as there are free tokens.
DueIsServed ==
    RedisAnswers =>
        \A id \in TimerId : <>[][~Overtaken(id)]_vars => (IsDue(id) ~> ~IsDue(id))
===============================================================================
