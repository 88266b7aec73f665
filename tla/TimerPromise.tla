------------------------------ MODULE TimerPromise ------------------------------
(***************************************************************************)
(* What the library promises about a timer (how-it-works.md, "At-least-    *)
(* once delivery"), with no Redis, no clock, no worker and no message: a   *)
(* published timer stays pending until its user takes it back, or until    *)
(* one of its own deliveries, which a lease on the pending timer must      *)
(* precede, has been settled (acked, rejected, or discarded as corrupt).   *)
(***************************************************************************)
CONSTANT Pub    \* the publications

VARIABLES
    published,  \* those that were published
    pending,    \* those a worker may still be given
    leased,     \* those a worker was given at least once
    settled,    \* those a delivery of which was settled
    takenBack   \* those cancelled by the user, or evicted

vars == <<published, pending, leased, settled, takenBack>>

Init == published = {} /\ pending = {} /\ leased = {} /\ settled = {} /\ takenBack = {}

Publish(p) ==
    /\ p \notin published
    /\ published' = published \cup {p}
    /\ pending' = pending \cup {p}
    /\ UNCHANGED <<leased, settled, takenBack>>

\* The user cancels pending timers (or Redis evicts them).
TakeBack(P) ==
    /\ pending' = pending \ P
    /\ takenBack' = takenBack \cup P
    /\ UNCHANGED <<published, leased, settled>>

Lease(p) ==
    /\ p \in pending
    /\ leased' = leased \cup {p}
    /\ UNCHANGED <<published, pending, settled, takenBack>>

Settle(p) ==
    /\ p \in leased
    /\ settled' = settled \cup {p}
    /\ UNCHANGED <<published, pending, leased, takenBack>>

\* Only a settled timer is retired.
Retire(p) ==
    /\ p \in settled
    /\ pending' = pending \ {p}
    /\ UNCHANGED <<published, leased, settled, takenBack>>

Next ==
    \/ \E p \in Pub : Publish(p) \/ Lease(p) \/ Settle(p) \/ Retire(p)
    \/ \E P \in SUBSET pending : TakeBack(P)

Spec == Init /\ [][Next]_vars
===============================================================================
