----------------------------- MODULE TimerMessage -----------------------------
(***************************************************************************)
(* The verdict on one delivery (message.py): ack, nack and reject called   *)
(* by the coroutines of a handler that took the message, then by           *)
(* FastStream's acknowledgement middleware, all on one message object,     *)
(* and the commit script they send.                                        *)
(*                                                                         *)
(* ack and reject test `committed`, wait for the commit, and only then set *)
(* it: another coroutine may run in between.  The timer's id may be        *)
(* published again at any time, by the handler too (a recurring timer).    *)
(*                                                                         *)
(* Here the commit script is one command that the server runs or not;      *)
(* ScriptedMessage has the commands that _eval_cached makes of it.         *)
(***************************************************************************)
EXTENDS Integers

CONSTANTS
    Coroutine,   \* the handler's coroutines
    Middleware,  \* the acknowledgement middleware
    MaxLate      \* bound of the model: commits in flight whose client gave up

ASSUME MessageAssumption == Middleware \notin Coroutine /\ MaxLate \in Nat

Caller  == Coroutine \cup {Middleware}
Verdict == {"ack", "nack", "reject"}
Status(verdict) ==
    CASE verdict = "ack" -> "acked" [] verdict = "nack" -> "nacked" [] OTHER -> "rejected"

VARIABLES
    stored,    \* what Redis has under the id: the "delivered" timer, the "republished", "nothing"
    committed, \* StreamMessage.committed, or "unset"
    call,      \* caller -> the call it awaits: its verdict, and where its commit is
    handler,   \* "running", or how it ended
    verdictDue,\* the middleware has its verdict still to give
    late,      \* commits in flight whose client gave up
    \* history
    asked,     \* some caller acked or rejected
    orderly,   \* so far every commit was answered, and none overlapped another call
    spared     \* the timer was republished after the message was acked or rejected

vars == <<stored, committed, call, handler, verdictDue, late, asked, orderly, spared>>

NoCall == [verdict |-> "none", commit |-> "none"]
Awaited == {NoCall} \cup [verdict : {"ack", "reject"}, commit : {"sent", "served"}]

\* The range of the variables: `committed` has a status of FastStream or none.
TypeOK ==
    /\ stored \in {"delivered", "republished", "nothing"}
    /\ committed \in {"unset", "acked", "nacked", "rejected"}
    /\ call \in [Caller -> Awaited]
    /\ handler \in {"running", "returned", "raised", "rejected"}
    /\ verdictDue \in BOOLEAN
    /\ late \in 0 .. MaxLate
    /\ asked \in BOOLEAN /\ orderly \in BOOLEAN /\ spared \in BOOLEAN

Init ==
    /\ stored = "delivered" /\ committed = "unset"
    /\ call = [c \in Caller |-> NoCall]
    /\ handler = "running" /\ verdictDue = TRUE
    /\ late = 0
    /\ asked = FALSE /\ orderly = TRUE /\ spared = FALSE

Settled == committed \in {"acked", "rejected"}

\* super().ack(), .nack(), .reject(): the first status stays.
MarkedAs(verdict) == IF committed = "unset" THEN Status(verdict) ELSE committed

Alone(c) == \A d \in Caller \ {c} : call[d] = NoCall

\* Who may call, and with which verdict: NACK_ON_ERROR for the middleware.
MayCall(c, verdict) ==
    /\ call[c] = NoCall
    /\ IF c \in Coroutine THEN TRUE
       ELSE /\ verdictDue
            /\ verdict = CASE handler = "returned" -> "ack"
                           [] handler = "raised" -> "nack"
                           [] handler = "rejected" -> "reject"
                           [] OTHER -> "none"

Given(c) == verdictDue' = (verdictDue /\ c # Middleware)

\* Faulty: the commit is sent whatever `committed` says; the status is set first.
SendCommitAlways(c, verdict) ==
    /\ MayCall(c, verdict) /\ verdict # "nack"
    /\ call' = [call EXCEPT ![c] = [verdict |-> verdict, commit |-> "sent"]]
    /\ Given(c)
    /\ asked' = TRUE /\ orderly' = (orderly /\ Alone(c))
    /\ UNCHANGED <<stored, committed, handler, late, spared>>

MarkThenCommit(c, verdict) ==
    /\ MayCall(c, verdict) /\ verdict # "nack" /\ committed = "unset"
    /\ call' = [call EXCEPT ![c] = [verdict |-> verdict, commit |-> "sent"]]
    /\ committed' = Status(verdict)
    /\ Given(c)
    /\ asked' = TRUE /\ orderly' = (orderly /\ Alone(c))
    /\ UNCHANGED <<stored, handler, late, spared>>

\* ack() or reject() of a message with no status: the commit is sent.
SendCommit(c, verdict) ==
    /\ MayCall(c, verdict) /\ verdict # "nack" /\ committed = "unset"
    /\ call' = [call EXCEPT ![c] = [verdict |-> verdict, commit |-> "sent"]]
    /\ Given(c)
    /\ asked' = TRUE /\ orderly' = (orderly /\ Alone(c))
    /\ UNCHANGED <<stored, committed, handler, late, spared>>

\* Faulty: nack removes the timer.
MarkOnlyRemoving(c, verdict) ==
    /\ MayCall(c, verdict) /\ (verdict = "nack" \/ committed # "unset")
    /\ committed' = MarkedAs(verdict)
    /\ stored' = IF committed = "unset" THEN "nothing" ELSE stored
    /\ Given(c)
    /\ orderly' = (orderly /\ Alone(c))
    /\ UNCHANGED <<call, handler, late, asked, spared>>

\* nack(), or a verdict on a message that has one: no await, Redis is left alone.
MarkOnly(c, verdict) ==
    /\ MayCall(c, verdict) /\ (verdict = "nack" \/ committed # "unset")
    /\ committed' = MarkedAs(verdict)
    /\ Given(c)
    /\ orderly' = (orderly /\ Alone(c))
    /\ UNCHANGED <<stored, call, handler, late, asked, spared>>

ServeCommit(c) ==
    /\ call[c].commit = "sent"
    /\ stored' = "nothing"
    /\ call' = [call EXCEPT ![c] = [verdict |-> @.verdict, commit |-> "served"]]
    /\ UNCHANGED <<committed, handler, verdictDue, late, asked, orderly, spared>>

\* The reply: super().ack() runs.
CommitReply(c) ==
    /\ call[c].commit = "served"
    /\ committed' = MarkedAs(call[c].verdict)
    /\ call' = [call EXCEPT ![c] = NoCall]
    /\ UNCHANGED <<stored, handler, verdictDue, late, asked, orderly, spared>>

\* fail_after or a connection error: the call raises and sets no status; a commit
\* the server has not run may still arrive.
CommitFails(c) ==
    /\ call[c] # NoCall
    /\ call' = [call EXCEPT ![c] = NoCall]
    /\ \/ UNCHANGED late
       \/ call[c].commit = "sent" /\ late < MaxLate /\ late' = late + 1
    /\ orderly' = FALSE
    /\ UNCHANGED <<stored, committed, handler, verdictDue, asked, spared>>

LateCommit ==
    /\ late > 0
    /\ late' = late - 1 /\ stored' = "nothing"
    /\ UNCHANGED <<committed, call, handler, verdictDue, asked, orderly, spared>>

\* A command the server never runs, or runs to no effect.
LateLost ==
    /\ late > 0 /\ late' = late - 1
    /\ UNCHANGED <<stored, committed, call, handler, verdictDue, asked, orderly, spared>>

\* The handler ends; a coroutine it left behind may go on.
HandlerEnds(outcome) ==
    /\ handler = "running"
    /\ \E c \in Coroutine : call[c] = NoCall
    /\ handler' = outcome
    /\ UNCHANGED <<stored, committed, call, verdictDue, late, asked, orderly, spared>>

\* broker.publish under the same id.
Republish ==
    /\ stored' = "republished"
    /\ spared' = (spared \/ (Settled /\ \A c \in Caller : call[c] = NoCall))
    /\ UNCHANGED <<committed, call, handler, verdictDue, late, asked, orderly>>

Next ==
    \/ \E c \in Caller :
         \/ \E verdict \in Verdict : SendCommit(c, verdict) \/ MarkOnly(c, verdict)
         \/ ServeCommit(c) \/ CommitReply(c) \/ CommitFails(c)
    \/ LateCommit \/ LateLost
    \/ \E outcome \in {"returned", "raised", "rejected"} : HandlerEnds(outcome)
    \/ Republish

Spec == Init /\ [][Next]_vars
-------------------------------------------------------------------------------
(* Properties *)

\* A message that says acked or rejected is no longer in Redis: the status is set
\* after the commit, whatever verdicts other coroutines give meanwhile.
SettledIsRemoved == Settled => stored # "delivered"

\* The timer a handler republishes after its ack() survives the middleware's own
\* ack of the same message, which must not commit again, as long as no commit went
\* unanswered and no two verdicts overlapped.
RepublishedIsSpared == spared /\ orderly => stored = "republished"
-------------------------------------------------------------------------------
(* The inductive invariant behind them *)

\* A commit that was served, or led to a status, removed the delivered timer.
CommitsRemove ==
    Settled \/ (\E c \in Caller : call[c].commit = "served") => stored # "delivered"

\* Until somebody asks, nothing is under way and nothing removed.
NothingUnasked ==
    ~asked => /\ ~Settled /\ late = 0 /\ stored # "nothing"
              /\ \A c \in Caller : call[c] = NoCall

\* In an orderly history at most one call is awaited, on a message with no status
\* yet, and no commit is left behind: none can reach a republished timer.
OneAtATime ==
    orderly => /\ late = 0
               /\ \A c \in Caller : call[c] # NoCall => committed = "unset" /\ Alone(c)
               /\ spared => committed # "unset" /\ stored = "republished"

\* The middleware waits for the handler, and gives one verdict.
MiddlewareLast ==
    /\ call[Middleware] # NoCall => ~verdictDue
    /\ ~verdictDue => handler # "running"

\* What holds of a message, its verdicts and the timer behind it (message.py) at any
\* time; the parts need each other.
MessageInv == TypeOK /\ CommitsRemove /\ NothingUnasked /\ OneAtATime /\ MiddlewareLast
===============================================================================
