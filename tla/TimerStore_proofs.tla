--------------------------- MODULE TimerStore_proofs ---------------------------
(* Lemmas about the store's operators, used by every proof about delivery. *)
EXTENDS TimerStore, TLAPS

\* Every operation of store.py takes a store to a store.
LEMMA StoreTypes ==
    ASSUME NEW s \in Store, NEW id \in TimerId
    PROVE  /\ EmptyStore \in Store
           /\ \A p \in Payload, at \in Int : Schedule(s, id, p, at) \in Store
           /\ \A now \in Int, lease \in Int : Claim(s, id, now, lease) \in Store
           /\ Remove(s, id) \in Store
  BY DEF Store, Score, EmptyStore, Schedule, Claim, Claimable, IsDue, IsPending, Remove

\* The claim script: what it leaves under its own id and under every other one.
LEMMA ClaimEffect ==
    ASSUME NEW s \in Store, NEW id \in TimerId, NEW now \in Int, NEW lease \in Int
    PROVE  /\ Claim(s, id, now, lease).payloads = s.payloads
           /\ \A i \in TimerId \ {id} :
                Claim(s, id, now, lease).timeline[i] = s.timeline[i]
           /\ ~IsDue(s, id, now) => Claim(s, id, now, lease) = s
           /\ Claimable(s, id, now) => Claim(s, id, now, lease).timeline[id] = now + lease
           /\ IsDue(s, id, now) /\ s.payloads[id] = None =>
                Claim(s, id, now, lease).timeline[id] = None
  BY DEF Store, Claim, IsDue, Claimable

\* A claim never makes a timer due earlier: with a lease that is not negative,
\* it can only push a score forward.  Late and repeated claims are harmless
\* for this reason.
THEOREM ClaimPushesForward ==
    ASSUME NEW s \in Store, NEW id \in TimerId, NEW now \in Int, NEW lease \in Nat,
           NEW i \in TimerId,
           Claim(s, id, now, lease).timeline[i] # None
    PROVE  /\ s.timeline[i] # None
           /\ s.timeline[i] <= Claim(s, id, now, lease).timeline[i]
  BY NoneAssumption DEF Store, Score, Claim, Claimable, IsDue, IsPending

\* The commit script touches its own id only, and leaves nothing there.
LEMMA RemoveEffect ==
    ASSUME NEW s \in Store, NEW id \in TimerId
    PROVE  /\ Remove(s, id).timeline[id] = None /\ Remove(s, id).payloads[id] = None
           /\ \A i \in TimerId \ {id} :
                /\ Remove(s, id).timeline[i] = s.timeline[i]
                /\ Remove(s, id).payloads[i] = s.payloads[i]
  BY DEF Store, Remove

\* schedule overwrites the score and the payload of its own id, and of no other.
LEMMA ScheduleEffect ==
    ASSUME NEW s \in Store, NEW id \in TimerId, NEW p \in Payload, NEW at \in Int
    PROVE  /\ Schedule(s, id, p, at).timeline[id] = at
           /\ Schedule(s, id, p, at).payloads[id] = p
           /\ \A i \in TimerId \ {id} :
                /\ Schedule(s, id, p, at).timeline[i] = s.timeline[i]
                /\ Schedule(s, id, p, at).payloads[i] = s.payloads[i]
  BY DEF Store, Schedule

\* No reply of the claim script for a timer that is not due, and then a payload.
LEMMA ClaimReplyType ==
    ASSUME NEW s \in Store, NEW id \in TimerId, NEW now \in Int
    PROVE  /\ ClaimReply(s, id, now) \in Payload \cup {None}
           /\ ClaimReply(s, id, now) # None <=> Claimable(s, id, now)
           /\ Claimable(s, id, now) => /\ ClaimReply(s, id, now) = s.payloads[id]
                                       /\ s.payloads[id] \in Payload
                                       /\ s.timeline[id] \in Int
                                       /\ s.timeline[id] <= now
  BY DEF Store, Score, ClaimReply, Claimable, IsDue, IsPending

\* Two workers race for one timer: whichever claim Redis runs first, the other
\* gets nil if its `now` lies less than a lease after the first one's.  This is
\* the whole of the mutual exclusion that the claim script provides.
THEOREM SecondClaimMisses ==
    ASSUME NEW s \in Store, NEW id \in TimerId,
           NEW now \in Int, NEW later \in Int, NEW lease \in Int,
           Claimable(s, id, now), later < now + lease
    PROVE  /\ ClaimReply(Claim(s, id, now, lease), id, later) = None
           /\ Claim(Claim(s, id, now, lease), id, later, lease) = Claim(s, id, now, lease)
<1> DEFINE c == Claim(s, id, now, lease)
<1>1. c \in Store
  BY StoreTypes
<1>2. c.timeline[id] = now + lease
  BY ClaimEffect
<1>3. ~IsDue(c, id, later)
  BY <1>2 DEF IsDue
<1> QED
  BY <1>1, <1>3, ClaimEffect DEF ClaimReply, Claimable

\* An abandoned commit may be run after a commit that was sent again for the
\* same delivery: the second removal changes nothing.
LEMMA RemoveTwice ==
    ASSUME NEW s \in Store, NEW id \in TimerId
    PROVE  Remove(Remove(s, id), id) = Remove(s, id)
  BY DEF Store, Remove

\* A commit that comes after a claim undoes it entirely, and a claim that comes
\* after the commit finds nothing to lease: neither order leaves half a timer.
THEOREM LateClaimFindsNothing ==
    ASSUME NEW s \in Store, NEW id \in TimerId, NEW now \in Int, NEW lease \in Int
    PROVE  /\ Remove(Claim(s, id, now, lease), id) = Remove(s, id)
           /\ Claim(Remove(s, id), id, now, lease) = Remove(s, id)
           /\ ClaimReply(Remove(s, id), id, now) = None
<1>1. Remove(Claim(s, id, now, lease), id) = Remove(s, id)
  BY DEF Store, Remove, Claim
<1>2. ~IsPending(Remove(s, id), id)
  BY RemoveEffect DEF IsPending
<1> QED
  BY <1>1, <1>2 DEF Claim, ClaimReply, Claimable, IsDue

\* What the claim and the commit do to one id neither depends on another id nor
\* touches it, so commands on different ids may be run in either order.
THEOREM IdsAreIndependent ==
    ASSUME NEW s \in Store, NEW id \in TimerId, NEW other \in TimerId, id # other,
           NEW now \in Int, NEW later \in Int, NEW lease \in Int
    PROVE  /\ Remove(Remove(s, id), other) = Remove(Remove(s, other), id)
           /\ Remove(Claim(s, id, now, lease), other) = Claim(Remove(s, other), id, now, lease)
           /\ Claim(Claim(s, id, now, lease), other, later, lease)
                = Claim(Claim(s, other, later, lease), id, now, lease)
           /\ ClaimReply(Claim(s, id, now, lease), other, later) = ClaimReply(s, other, later)
           /\ ClaimReply(Remove(s, id), other, later) = ClaimReply(s, other, later)
<1>1. Remove(Remove(s, id), other) = Remove(Remove(s, other), id)
  BY DEF Store, Remove
<1>2. Remove(Claim(s, id, now, lease), other) = Claim(Remove(s, other), id, now, lease)
  BY DEF Store, Remove, Claim, Claimable, IsDue, IsPending
<1>3. Claim(Claim(s, id, now, lease), other, later, lease)
        = Claim(Claim(s, other, later, lease), id, now, lease)
  <2> DEFINE first == Claim(s, id, now, lease)
             second == Claim(s, other, later, lease)
             one == Claim(first, other, later, lease)
             two == Claim(second, id, now, lease)
  <2>1. first \in Store /\ second \in Store
    BY StoreTypes
  <2>2. /\ IsDue(first, other, later) <=> IsDue(s, other, later)
        /\ Claimable(first, other, later) <=> Claimable(s, other, later)
        /\ IsDue(second, id, now) <=> IsDue(s, id, now)
        /\ Claimable(second, id, now) <=> Claimable(s, id, now)
    BY ClaimEffect DEF Claimable, IsDue, IsPending
  <2>3. one.timeline[other] = second.timeline[other]
    BY <2>1, <2>2, ClaimEffect DEF Claim, Store
  <2>4. two.timeline[id] = first.timeline[id]
    BY <2>1, <2>2, ClaimEffect DEF Claim, Store
  <2>5. \A i \in TimerId : one.timeline[i] = two.timeline[i]
    BY <2>1, <2>3, <2>4, ClaimEffect
  <2>6. one.payloads = two.payloads
    BY <2>1, ClaimEffect
  <2>7. one \in Store /\ two \in Store
    BY <2>1, StoreTypes
  <2> HIDE DEF one, two
  <2>8. one = two
    BY <2>5, <2>6, <2>7 DEF Store
  <2> QED BY <2>8 DEF one, two
<1>4. ClaimReply(Claim(s, id, now, lease), other, later) = ClaimReply(s, other, later)
  BY ClaimEffect DEF ClaimReply, Claimable, IsDue, IsPending
<1>5. ClaimReply(Remove(s, id), other, later) = ClaimReply(s, other, later)
  BY RemoveEffect DEF ClaimReply, Claimable, IsDue, IsPending
<1> QED
  BY <1>1, <1>2, <1>3, <1>4, <1>5
===============================================================================
