----------------------------- MODULE PollSchedule -----------------------------
(***************************************************************************)
(* The backoff of the poll loop (schedule.py): two counters, advanced by   *)
(* the outcome of each turn of _consume, and the sleep that follows.       *)
(*                                                                         *)
(* Delays are integers, in a unit of which Unit make a second, so that the *)
(* jitter 0.5 .. 1.5 is a number of halves: Jitter holds the numerators of *)
(* its values over JitterUnit.  The floats of the code are exact here.     *)
(***************************************************************************)
EXTENDS Integers

CONSTANTS
    Base,          \* polling_interval
    MaxIdle,       \* max_polling_interval
    MaxErrorDelay, \* _MAX_ERROR_DELAY, in the same unit
    Second,        \* one second, the first error delay, in the same unit
    MaxExponent,   \* _MAX_EXPONENT
    Jitter, JitterUnit,
    MaxStreak      \* bound of the model: the length of a streak

ASSUME ScheduleAssumption ==
    /\ Base \in Nat /\ MaxIdle \in Nat
    /\ MaxErrorDelay \in Nat \ {0} /\ Second \in Nat \ {0}
    /\ MaxExponent \in Nat \ {0}
    /\ Jitter \subseteq Nat \ {0} /\ JitterUnit \in Nat \ {0}
    /\ MaxStreak \in Nat

VARIABLES
    idle_count, error_attempt,  \* the two counters
    delay,      \* the sleep the last turn asked for, times JitterUnit
    turn,       \* the outcome of the last turn
    \* history
    empties,    \* fetches that found nothing since one last found something
    failures    \* turns that raised since one last did not

vars == <<idle_count, error_attempt, delay, turn, empties, failures>>

Capped(n, cap) == IF n <= cap THEN n ELSE cap

Outcome == {"none", "busy", "idle", "saturated", "error"}

\* The range of the variables: the counters stay within _MAX_EXPONENT, so that
\* 2 ** (count - 1) of the backoff stays a number a float can hold.
TypeOK ==
    /\ idle_count \in 0 .. MaxExponent
    /\ error_attempt \in 0 .. MaxExponent
    /\ delay \in Nat
    /\ turn \in Outcome
    /\ empties \in Nat /\ failures \in Nat

Init ==
    /\ idle_count = 0 /\ error_attempt = 0
    /\ delay = 0 /\ turn = "none"
    /\ empties = 0 /\ failures = 0

\* 2 ** n
PowerOfTwo[n \in Nat] == IF n = 0 THEN 1 ELSE 2 * PowerOfTwo[n - 1]

\* base * 2 ** (count - 1) * jitter, capped.
Backoff(base, count, jitter, cap) == Capped(base * PowerOfTwo[count - 1] * jitter, cap * JitterUnit)

\* delay_after_fetch(count > 0): due timers were found.
Busy ==
    /\ error_attempt' = 0 /\ idle_count' = 0
    /\ delay' = 0 /\ turn' = "busy"
    /\ empties' = 0 /\ failures' = 0

\* Faulty: the exponent is not capped; the cap comes before the jitter.
IdleUncapped(j) ==
    /\ empties < MaxStreak
    /\ error_attempt' = 0 /\ idle_count' = idle_count + 1
    /\ delay' = Backoff(Base, idle_count', j, MaxIdle) /\ turn' = "idle"
    /\ empties' = empties + 1 /\ failures' = 0

IdleJitterLast(j) ==
    /\ empties < MaxStreak
    /\ error_attempt' = 0 /\ idle_count' = Capped(idle_count + 1, MaxExponent)
    /\ delay' = Capped(Base * PowerOfTwo[idle_count' - 1], MaxIdle) * j /\ turn' = "idle"
    /\ empties' = empties + 1 /\ failures' = 0

\* delay_after_fetch(0): nothing is due.
IdleTurn(j) ==
    /\ empties < MaxStreak
    /\ error_attempt' = 0 /\ idle_count' = Capped(idle_count + 1, MaxExponent)
    /\ delay' = Backoff(Base, idle_count', j, MaxIdle) /\ turn' = "idle"
    /\ empties' = empties + 1 /\ failures' = 0

\* Faulty: back-pressure counts as idleness; asks for no sleep.
SaturatedAsIdle ==
    /\ error_attempt' = 0 /\ idle_count' = Capped(idle_count + 1, MaxExponent)
    /\ delay' = Base * JitterUnit /\ turn' = "saturated"
    /\ failures' = 0
    /\ UNCHANGED empties

SaturatedSpins ==
    /\ error_attempt' = 0
    /\ delay' = 0 /\ turn' = "saturated"
    /\ failures' = 0
    /\ UNCHANGED <<idle_count, empties>>

\* delay_after_fetch(-1): back-pressure.
Saturated ==
    /\ error_attempt' = 0
    /\ delay' = Base * JitterUnit /\ turn' = "saturated"
    /\ failures' = 0
    /\ UNCHANGED <<idle_count, empties>>

\* delay_after_error: the fetch raised.
Error(j) ==
    /\ failures < MaxStreak
    /\ error_attempt' = Capped(error_attempt + 1, MaxExponent)
    /\ delay' = Backoff(Second, error_attempt', j, MaxErrorDelay) /\ turn' = "error"
    /\ failures' = failures + 1
    /\ UNCHANGED <<idle_count, empties>>

Next ==
    \/ Busy
    \/ Saturated
    \/ \E j \in Jitter : IdleTurn(j) \/ Error(j)

Spec == Init /\ [][Next]_vars
-------------------------------------------------------------------------------
(* Properties *)

\* The counters remember exactly the streaks they are for: empty fetches since the
\* last one that found work, whatever back-pressure and errors came in between, and
\* consecutive errors.
CountersAreStreaks ==
    /\ idle_count = Capped(empties, MaxExponent)
    /\ error_attempt = Capped(failures, MaxExponent)

\* subscriber.md: "worst-case delivery latency ... is max_polling_interval": no
\* idle sleep is longer, jitter included, and no sleep after an error is longer
\* than 30 s.
SleepsAreCapped ==
    /\ turn = "idle" => delay <= MaxIdle * JitterUnit
    /\ turn = "error" => delay <= MaxErrorDelay * JitterUnit

\* A turn that asks for no sleep found work, unless polling_interval or the cap on
\* the idle sleep is zero: otherwise the loop would not yield to its tasks.
OnlyWorkSkipsSleep ==
    Base > 0 /\ MaxIdle > 0 /\ turn \in {"idle", "saturated", "error"} => delay > 0
===============================================================================
