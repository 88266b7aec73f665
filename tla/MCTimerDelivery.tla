--------------------------- MODULE MCTimerDelivery ---------------------------
(* Small instances of TimerDelivery for TLC. *)
EXTENDS TimerDelivery, TLC

CONSTANTS i1, i2, p1, p2, w1, w2, t1, t2

\* Two publications of one id: the second overwrites the first.
SharedId == p1 :> i1 @@ p2 :> i1
\* Two publications of two ids.
OwnIds == p1 :> i1 @@ p2 :> i2

\* One worker with two tasks, or two workers with clocks a second apart.
OneWorker == t1 :> w1 @@ t2 :> w1
TwoWorkers == t1 :> w1 @@ t2 :> w2
InStep == w1 :> 0
FastClock == w1 :> 0 @@ w2 :> 1

\* The tasks of one worker are interchangeable.
TaskSymmetry == Permutations({t1, t2})
\* So are two publications of one id, when neither payload is corrupt.
PublicationSymmetry == Permutations({p1, p2})
===============================================================================
