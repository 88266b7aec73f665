-------------------------- MODULE PollSchedule_proofs --------------------------
(* What the backoff guarantees for every configuration and every jitter. *)
EXTENDS PollSchedule, TLAPS, WellFoundedInduction

-------------------------------------------------------------------------------
(* Powers of two *)

\* Induction over the naturals, for what can be said as membership in a set.
LEMMA SetInduction ==
    ASSUME NEW S, 0 \in S, \A n \in Nat : n \in S => n + 1 \in S
    PROVE  Nat \subseteq S
<1> DEFINE Less == {ss \in Nat \X Nat : ss[1] < ss[2]}
           Rest == Nat \ S
<1>1. IsWellFoundedOn(Less, Nat)
  BY NatLessThanWellFounded, Zenon DEF OpToRel
<1> SUFFICES ASSUME Rest # {} PROVE FALSE
  OBVIOUS
<1> HIDE DEF Less
<1>2. PICK m \in Rest : \A y \in Rest : ~(<<y, m>> \in Less)
  BY <1>1, WFMin
<1>3. m \in Nat \ {0} /\ m - 1 \in Nat
  BY SMT DEF Rest
<1>4. m - 1 \in Rest
  <2>1. (m - 1) + 1 = m
    BY <1>3
  <2> QED BY <1>3, <2>1
<1>5. <<m - 1, m>> \in Less
  BY <1>3 DEF Less
<1> QED BY <1>2, <1>4, <1>5

\* Doubling from 1, up to n.
Doubles(g, n) == g[0] = 1 /\ \A k \in 1 .. n : g[k] = 2 * g[k - 1]

LEMMA DoublesExist == \A n \in Nat : \E g : Doubles(g, n)
<1> DEFINE S == {n \in Nat : \E g : Doubles(g, n)}
<1>1. 0 \in S
  <2>1. Doubles([k \in {0} |-> 1], 0)
    BY DEF Doubles
  <2> QED BY <2>1
<1>2. ASSUME NEW n \in Nat, n \in S
      PROVE  n + 1 \in S
  <2>1. PICK g : Doubles(g, n)
    BY <1>2
  <2> DEFINE h == [k \in 0 .. n + 1 |-> IF k = n + 1 THEN 2 * g[n] ELSE g[k]]
  <2>2. Doubles(h, n + 1)
    BY <2>1 DEF Doubles
  <2> QED BY <2>2
<1> HIDE DEF S
<1>3. Nat \subseteq S
  BY <1>1, <1>2, SetInduction
<1> QED BY <1>3 DEF S

LEMMA DoublesAgree ==
    ASSUME NEW g, NEW h, NEW m \in Nat, NEW n \in Nat, Doubles(g, m), Doubles(h, n)
    PROVE  \A k \in Nat : k <= m /\ k <= n => g[k] = h[k]
<1> DEFINE S == {k \in Nat : k <= m /\ k <= n => g[k] = h[k]}
<1>1. 0 \in S
  BY DEF Doubles
<1>2. ASSUME NEW k \in Nat, k \in S
      PROVE  k + 1 \in S
  <2>1. k + 1 <= m /\ k + 1 <= n => k + 1 \in 1 .. m /\ k + 1 \in 1 .. n /\ (k + 1) - 1 = k
    OBVIOUS
  <2> QED BY <1>2, <2>1 DEF Doubles
<1> HIDE DEF S
<1>3. Nat \subseteq S
  BY <1>1, <1>2, SetInduction
<1> QED BY <1>3 DEF S

\* The recursive definition defines what it says.
LEMMA PowerOfTwoDef ==
    PowerOfTwo = [n \in Nat |-> IF n = 0 THEN 1 ELSE 2 * PowerOfTwo[n - 1]]
<1> DEFINE G(n) == CHOOSE g : Doubles(g, n)
           f == [n \in Nat |-> G(n)[n]]
<1>1. \A n \in Nat : Doubles(G(n), n)
  BY DoublesExist
<1> HIDE DEF G
<1>2. f[0] = 1
  BY <1>1 DEF Doubles
<1>3. ASSUME NEW n \in Nat \ {0}
      PROVE  f[n] = 2 * f[n - 1]
  <2>1. n - 1 \in Nat /\ n \in 1 .. n
    OBVIOUS
  <2>2. G(n)[n] = 2 * G(n)[n - 1]
    BY <1>1, <2>1 DEF Doubles
  <2>3. G(n)[n - 1] = G(n - 1)[n - 1]
    BY <1>1, <2>1, DoublesAgree
  <2> QED BY <2>1, <2>2, <2>3
<1>4. f = [n \in Nat |-> IF n = 0 THEN 1 ELSE 2 * f[n - 1]]
  BY <1>2, <1>3
<1> HIDE DEF f
<1>5. \E ff : ff = [n \in Nat |-> IF n = 0 THEN 1 ELSE 2 * ff[n - 1]]
  BY <1>4
<1> QED BY <1>5, Zenon DEF PowerOfTwo

LEMMA PowersArePositive == \A n \in Nat : PowerOfTwo[n] \in Nat \ {0}
<1> DEFINE S == {n \in Nat : PowerOfTwo[n] \in Nat \ {0}}
<1>1. 0 \in S
  BY PowerOfTwoDef
<1>2. ASSUME NEW n \in Nat, n \in S
      PROVE  n + 1 \in S
  <2>1. PowerOfTwo[n + 1] = 2 * PowerOfTwo[n]
    <3>1. n + 1 \in Nat /\ n + 1 # 0 /\ (n + 1) - 1 = n
      OBVIOUS
    <3> QED BY <3>1, PowerOfTwoDef
  <2> QED BY <1>2, <2>1
<1> HIDE DEF S
<1>3. Nat \subseteq S
  BY <1>1, <1>2, SetInduction
<1> QED BY <1>3 DEF S

-------------------------------------------------------------------------------
(* The schedule *)

\* The range of the history: streaks are counted.
Streaks == empties \in Nat /\ failures \in Nat

\* The counters of the schedule are its streaks, however long a streak gets and
\* whatever turns interleave with it.
THEOREM CountersTrackStreaks == Spec => []CountersAreStreaks
<1> DEFINE Inv == Streaks /\ CountersAreStreaks
<1>1. Init => Inv
  BY ScheduleAssumption DEF Init, Streaks, CountersAreStreaks, Capped
<1>2. Inv /\ [Next]_vars => Inv'
  <2> SUFFICES ASSUME Inv, [Next]_vars PROVE Inv'
    OBVIOUS
  <2> USE ScheduleAssumption DEF Streaks, CountersAreStreaks, Capped
  <2>1. CASE Busy
    BY <2>1 DEF Busy
  <2>2. CASE Saturated
    BY <2>2 DEF Saturated
  <2>3. ASSUME NEW j \in Jitter, IdleTurn(j) PROVE Inv'
    BY <2>3 DEF IdleTurn
  <2>4. ASSUME NEW j \in Jitter, Error(j) PROVE Inv'
    BY <2>4 DEF Error
  <2>5. CASE UNCHANGED vars
    BY <2>5 DEF vars
  <2> QED BY <2>1, <2>2, <2>3, <2>4, <2>5 DEF Next
<1> QED BY <1>1, <1>2, PTL DEF Spec

\* What min() returns is at most the cap.
LEMMA CappedIsCapped ==
    ASSUME NEW n, NEW cap \in Int
    PROVE  Capped(n, cap) <= cap
BY DEF Capped

\* No idle sleep is longer than max_polling_interval, and no sleep after an error
\* longer than 30 s, for every interval, cap, exponent and jitter.
THEOREM SleepsStayCapped == Spec => []SleepsAreCapped
<1>1. Init => SleepsAreCapped
  BY DEF Init, SleepsAreCapped
<1>2. SleepsAreCapped /\ [Next]_vars => SleepsAreCapped'
  <2> SUFFICES ASSUME SleepsAreCapped, [Next]_vars PROVE SleepsAreCapped'
    OBVIOUS
  <2>1. MaxIdle * JitterUnit \in Int /\ MaxErrorDelay * JitterUnit \in Int
    BY ScheduleAssumption
  <2>2. CASE Busy
    BY <2>2 DEF Busy, SleepsAreCapped
  <2>3. CASE Saturated
    BY <2>3 DEF Saturated, SleepsAreCapped
  <2>4. ASSUME NEW j \in Jitter, IdleTurn(j) PROVE SleepsAreCapped'
    BY <2>1, <2>4, CappedIsCapped DEF IdleTurn, SleepsAreCapped, Backoff
  <2>5. ASSUME NEW j \in Jitter, Error(j) PROVE SleepsAreCapped'
    BY <2>1, <2>5, CappedIsCapped DEF Error, SleepsAreCapped, Backoff
  <2>6. CASE UNCHANGED vars
    BY <2>6 DEF vars, SleepsAreCapped
  <2> QED BY <2>2, <2>3, <2>4, <2>5, <2>6 DEF Next
<1> QED BY <1>1, <1>2, PTL DEF Spec

\* A capped product of positive factors is positive.
LEMMA BackoffIsPositive ==
    ASSUME NEW base \in Nat, NEW count \in Nat \ {0}, NEW jitter \in Jitter, NEW cap \in Nat
    PROVE  /\ Backoff(base, count, jitter, cap) \in Nat
           /\ base > 0 /\ cap > 0 => Backoff(base, count, jitter, cap) > 0
<1> DEFINE power == PowerOfTwo[count - 1]
<1>1. power \in Nat \ {0} /\ jitter \in Nat \ {0} /\ JitterUnit \in Nat \ {0}
  BY PowersArePositive, ScheduleAssumption
<1>2. Backoff(base, count, jitter, cap) = Capped(base * power * jitter, cap * JitterUnit)
  BY DEF Backoff
<1> HIDE DEF power
<1>3. /\ base * power \in Nat
      /\ base > 0 => base * power \in Nat \ {0}
  BY <1>1
<1>4. /\ base * power * jitter \in Nat /\ cap * JitterUnit \in Nat
      /\ base > 0 => base * power * jitter > 0
      /\ cap > 0 => cap * JitterUnit > 0
  BY <1>1, <1>3
<1> QED BY <1>2, <1>4 DEF Capped

\* The counters stay within _MAX_EXPONENT and every delay is a number, for every
\* configuration and every sequence of turns.
THEOREM ScheduleTypes == Spec => []TypeOK
<1>1. Init => TypeOK
  BY ScheduleAssumption DEF Init, TypeOK, Outcome
<1>2. TypeOK /\ [Next]_vars => TypeOK'
  <2> SUFFICES ASSUME TypeOK, [Next]_vars PROVE TypeOK'
    OBVIOUS
  <2> USE ScheduleAssumption DEF TypeOK, Outcome
  <2>1. CASE Busy
    BY <2>1 DEF Busy
  <2>2. CASE Saturated
    <3>1. Base * JitterUnit \in Nat
      OBVIOUS
    <3> QED BY <2>2, <3>1 DEF Saturated
  <2>3. ASSUME NEW j \in Jitter, IdleTurn(j) PROVE TypeOK'
    <3>1. idle_count' \in 1 .. MaxExponent
      BY <2>3 DEF IdleTurn, Capped
    <3>2. delay' \in Nat
      BY <2>3, <3>1, BackoffIsPositive DEF IdleTurn
    <3> QED BY <2>3, <3>1, <3>2 DEF IdleTurn
  <2>4. ASSUME NEW j \in Jitter, Error(j) PROVE TypeOK'
    <3>1. error_attempt' \in 1 .. MaxExponent /\ error_attempt' \in Nat \ {0}
      BY <2>4 DEF Error, Capped
    <3>2. Second \in Nat /\ MaxErrorDelay \in Nat
      OBVIOUS
    <3>3. Backoff(Second, error_attempt', j, MaxErrorDelay) \in Nat
      BY <3>1, <3>2, BackoffIsPositive
    <3>4. delay' \in Nat
      BY <2>4, <3>3 DEF Error
    <3> QED BY <2>4, <3>1, <3>4 DEF Error
  <2>5. CASE UNCHANGED vars
    BY <2>5 DEF vars
  <2> QED BY <2>1, <2>2, <2>3, <2>4, <2>5 DEF Next
<1> QED BY <1>1, <1>2, PTL DEF Spec

\* No sleep is skipped, however small the jitter and however long the streak, unless
\* work was found or the configuration asks for no sleep.
THEOREM TurnsYield == Spec => []OnlyWorkSkipsSleep
<1>1. Init => OnlyWorkSkipsSleep
  BY DEF Init, OnlyWorkSkipsSleep
<1>2. TypeOK /\ OnlyWorkSkipsSleep /\ [Next]_vars => OnlyWorkSkipsSleep'
  <2> SUFFICES ASSUME TypeOK, OnlyWorkSkipsSleep, [Next]_vars PROVE OnlyWorkSkipsSleep'
    OBVIOUS
  <2> USE ScheduleAssumption DEF TypeOK
  <2>1. CASE Busy
    BY <2>1 DEF Busy, OnlyWorkSkipsSleep
  <2>2. CASE Saturated
    <3>1. Base > 0 => Base * JitterUnit > 0
      OBVIOUS
    <3> QED BY <2>2, <3>1 DEF Saturated, OnlyWorkSkipsSleep
  <2>3. ASSUME NEW j \in Jitter, IdleTurn(j) PROVE OnlyWorkSkipsSleep'
    <3>1. idle_count' \in Nat \ {0}
      BY <2>3 DEF IdleTurn, Capped
    <3>2. Base > 0 /\ MaxIdle > 0 => delay' > 0
      BY <2>3, <3>1, BackoffIsPositive DEF IdleTurn
    <3> QED BY <3>2 DEF OnlyWorkSkipsSleep
  <2>4. ASSUME NEW j \in Jitter, Error(j) PROVE OnlyWorkSkipsSleep'
    <3>1. error_attempt' \in Nat \ {0}
      BY <2>4 DEF Error, Capped
    <3>2. Second \in Nat \ {0} /\ MaxErrorDelay \in Nat \ {0}
      OBVIOUS
    <3>3. Backoff(Second, error_attempt', j, MaxErrorDelay) > 0
      BY <3>1, <3>2, BackoffIsPositive
    <3>4. delay' > 0
      BY <2>4, <3>3 DEF Error
    <3> QED BY <3>4 DEF OnlyWorkSkipsSleep
  <2>5. CASE UNCHANGED vars
    BY <2>5 DEF vars, OnlyWorkSkipsSleep
  <2> QED BY <2>1, <2>2, <2>3, <2>4, <2>5 DEF Next
<1> QED BY <1>1, <1>2, ScheduleTypes, PTL DEF Spec
===============================================================================
