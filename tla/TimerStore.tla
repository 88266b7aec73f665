------------------------------ MODULE TimerStore ------------------------------
(***************************************************************************)
(* The Redis timer protocol of store.py for one topic, as pure operators   *)
(* on the value of its two keys: the sorted set (timer id -> score) and    *)
(* the hash (timer id -> payload).  Redis runs a MULTI block and a Lua     *)
(* script atomically, so each operator is one indivisible change.          *)
(*                                                                         *)
(* A store is a record of two total functions; None stands for an absent   *)
(* member or field.  Scores and clock readings are integers (seconds).     *)
(***************************************************************************)
EXTENDS Integers, FiniteSets

CONSTANTS
    TimerId,    \* the timer ids of the topic
    Payload,    \* the payloads a timer may carry
    None        \* "nil": no score, no payload, no reply

ASSUME NoneAssumption == None \notin Int /\ None \notin Payload

Score == Int \cup {None}

Store == [timeline : [TimerId -> Score],
          payloads : [TimerId -> Payload \cup {None}]]

EmptyStore == [timeline |-> [i \in TimerId |-> None],
               payloads |-> [i \in TimerId |-> None]]

\* is_pending: the id is still in the timeline.
IsPending(s, id) == s.timeline[id] # None

\* pending(before): every id, or those whose score is at most `before`.
Pending(s, before) ==
    {i \in TimerId : IsPending(s, i)
                        /\ (before # None => s.timeline[i] <= before)}

\* Faulty: ZADD with NX keeps the score of the timer that is overwritten.
ScheduleKeepingScore(s, id, p, at) ==
    [timeline |-> [s.timeline EXCEPT ![id] = IF @ = None THEN at ELSE @],
     payloads |-> [s.payloads EXCEPT ![id] = p]]

\* schedule: ZADD and HSET in one transaction; both overwrite.
Schedule(s, id, p, at) ==
    [timeline |-> [s.timeline EXCEPT ![id] = at],
     payloads |-> [s.payloads EXCEPT ![id] = p]]

\* The condition under which a member is fetched and leased.
IsDue(s, id, now) == IsPending(s, id) /\ s.timeline[id] <= now

\* Faulty: the claim script does not look at the score.
ClaimableEarly(s, id, now) == IsPending(s, id) /\ s.payloads[id] # None

\* The claim script leases a due member that has a payload ...
Claimable(s, id, now) == IsDue(s, id, now) /\ s.payloads[id] # None

ClaimReply(s, id, now) == IF Claimable(s, id, now) THEN s.payloads[id] ELSE None

\* Faulty: the timer is taken off the timeline and the hash when it is claimed.
ClaimByPopping(s, id, now, lease) ==
    IF ~IsDue(s, id, now) THEN s
    ELSE [timeline |-> [s.timeline EXCEPT ![id] = None],
          payloads |-> [s.payloads EXCEPT ![id] = None]]

\* Faulty: the lease is a second short, or missing.
ClaimForLess(s, id, now, lease) ==
    IF ~IsDue(s, id, now) THEN s
    ELSE [s EXCEPT !.timeline[id] = IF s.payloads[id] = None THEN None ELSE now + lease - 1]

ClaimWithoutLease(s, id, now, lease) ==
    IF ~IsDue(s, id, now) THEN s
    ELSE [s EXCEPT !.timeline[id] = IF s.payloads[id] = None THEN None ELSE now]

\* ... by pushing its score to the caller's `now` plus the lease; a due member
\* without a payload (an orphan) is dropped; anything else is left alone.
Claim(s, id, now, lease) ==
    IF Claimable(s, id, now)
    THEN [s EXCEPT !.timeline[id] = now + lease]
    ELSE IF IsDue(s, id, now) THEN [s EXCEPT !.timeline[id] = None] ELSE s

\* Faulty: ZREM without HDEL.
RemoveScoreOnly(s, id) ==
    [timeline |-> [s.timeline EXCEPT ![id] = None], payloads |-> s.payloads]

\* The commit script: ZREM and HDEL, whatever is stored under the id.
Remove(s, id) ==
    [timeline |-> [s.timeline EXCEPT ![id] = None],
     payloads |-> [s.payloads EXCEPT ![id] = None]]

\* cancel_all: both keys unlinked in one transaction.
CancelAll(s) == EmptyStore
===============================================================================
