---------------------------- MODULE PollLoop_proofs ----------------------------
(* The bounds of the poll loop, for any number of timers, tokens and bad ids. *)
EXTENDS PollLoop, TLAPS, SequenceTheorems, WellFoundedInduction

-------------------------------------------------------------------------------
(* Sequences *)

\* A nonempty set of naturals has a least element.
LEMMA MinFact ==
    ASSUME NEW I, I \subseteq Nat, I # {}
    PROVE  Min(I) \in I
<1> DEFINE Less == {ss \in Nat \X Nat : ss[1] < ss[2]}
<1>1. IsWellFoundedOn(Less, Nat)
  BY NatLessThanWellFounded, Zenon DEF OpToRel
<1> HIDE DEF Less
<1>2. PICK m \in I : \A y \in I : ~(<<y, m>> \in Less)
  BY <1>1, WFMin
<1>3. ASSUME NEW y \in I
      PROVE  m <= y
  <2>1. y \in Nat /\ m \in Nat
    OBVIOUS
  <2>2. <<y, m>> \notin Less
    BY <1>2
  <2>3. ~(y < m)
    BY <2>1, <2>2 DEF Less
  <2> QED BY <2>1, <2>3
<1> QED BY <1>3 DEF Min

\* RemoveAt leaves out one element and keeps the others.
LEMMA RemoveAtFact ==
    ASSUME NEW S, NEW s \in Seq(S), NEW i \in 1 .. Len(s)
    PROVE  /\ RemoveAt(s, i) \in Seq(S)
           /\ Len(RemoveAt(s, i)) = Len(s) - 1
<1> DEFINE a == SubSeq(s, 1, i - 1)
           b == SubSeq(s, i + 1, Len(s))
<1>1. a \in Seq(S) /\ Len(a) = i - 1
  BY SubSeqProperties
<1>2. b \in Seq(S) /\ Len(b) = Len(s) - i
  BY SubSeqProperties
<1>3. RemoveAt(s, i) = a \o b
  BY DEF RemoveAt
<1> HIDE DEF a, b
<1>4. a \o b \in Seq(S) /\ Len(a \o b) = Len(a) + Len(b)
  BY <1>1, <1>2, ConcatProperties
<1> QED BY <1>1, <1>2, <1>3, <1>4

\* ... in their order.
LEMMA RemoveAtElements ==
    ASSUME NEW S, NEW s \in Seq(S), NEW i \in 1 .. Len(s), NEW k \in 1 .. Len(s) - 1
    PROVE  RemoveAt(s, i)[k] = IF k < i THEN s[k] ELSE s[k + 1]
<1> DEFINE a == SubSeq(s, 1, i - 1)
           b == SubSeq(s, i + 1, Len(s))
<1>0. Len(s) \in Nat
  BY LenProperties
<1>1. a \in Seq(S) /\ Len(a) = i - 1 /\ (\A j \in 1 .. i - 1 : a[j] = s[j])
  BY <1>0, SubSeqProperties
<1>2. b \in Seq(S) /\ Len(b) = Len(s) - i /\ (\A j \in 1 .. Len(s) - i : b[j] = s[j + i])
  BY <1>0, SubSeqProperties
<1>3. RemoveAt(s, i) = a \o b
  BY DEF RemoveAt
<1> HIDE DEF a, b
<1>4. \A j \in 1 .. Len(a) + Len(b) : (a \o b)[j] = IF j <= Len(a) THEN a[j] ELSE b[j - Len(a)]
  BY <1>1, <1>2, ConcatProperties
<1>5. k \in 1 .. Len(a) + Len(b)
  BY <1>0, <1>1, <1>2
<1>6. CASE k < i
  BY <1>0, <1>1, <1>3, <1>4, <1>5, <1>6
<1>7. CASE ~(k < i)
  <2>1. ~(k <= Len(a)) /\ k - Len(a) \in 1 .. Len(s) - i /\ (k - Len(a)) + i = k + 1
    BY <1>0, <1>1, <1>7
  <2> QED BY <1>2, <1>3, <1>4, <1>5, <1>7, <2>1
<1> QED BY <1>6, <1>7

\* InsertAt adds one element and keeps the order of the others.
LEMMA InsertAtFact ==
    ASSUME NEW S, NEW s \in Seq(S), NEW e \in S, NEW i \in 1 .. Len(s) + 1
    PROVE  /\ InsertAt(s, i, e) \in Seq(S)
           /\ Len(InsertAt(s, i, e)) = Len(s) + 1
           /\ \A k \in 1 .. Len(s) + 1 :
                InsertAt(s, i, e)[k] = IF k < i THEN s[k] ELSE IF k = i THEN e ELSE s[k - 1]
<1> DEFINE a == SubSeq(s, 1, i - 1)
           b == SubSeq(s, i, Len(s))
           c == a \o <<e>>
<1>0. Len(s) \in Nat
  BY LenProperties
<1>1. a \in Seq(S) /\ Len(a) = i - 1 /\ (\A j \in 1 .. i - 1 : a[j] = s[j])
  BY <1>0, SubSeqProperties
<1>2. b \in Seq(S) /\ Len(b) = Len(s) - i + 1 /\ (\A j \in 1 .. Len(s) - i + 1 : b[j] = s[j + i - 1])
  <2>1. CASE i <= Len(s)
    BY <1>0, <2>1, SubSeqProperties
  <2>2. CASE i = Len(s) + 1
    BY <1>0, <2>2, SubSeqProperties
  <2> QED BY <1>0, <2>1, <2>2
<1>3. InsertAt(s, i, e) = c \o b
  BY DEF InsertAt
<1> HIDE DEF a, b
<1>4. c \in Seq(S) /\ Len(c) = i /\ (\A j \in 1 .. i : c[j] = IF j < i THEN a[j] ELSE e)
  BY <1>0, <1>1, ConcatProperties
<1> HIDE DEF c
<1>5. c \o b \in Seq(S) /\ Len(c \o b) = Len(s) + 1
  <2>1. c \o b \in Seq(S) /\ Len(c \o b) = Len(c) + Len(b)
    BY <1>2, <1>4, ConcatProperties
  <2> QED BY <1>0, <1>2, <1>4, <2>1
<1>6. ASSUME NEW k \in 1 .. Len(s) + 1
      PROVE  (c \o b)[k] = IF k < i THEN s[k] ELSE IF k = i THEN e ELSE s[k - 1]
  <2>1. (c \o b)[k] = IF k <= i THEN c[k] ELSE b[k - i]
    BY <1>0, <1>2, <1>4, ConcatProperties
  <2>2. CASE k <= i
    BY <1>0, <1>1, <1>4, <2>1, <2>2
  <2>3. CASE k > i
    <3>1. k - i \in 1 .. Len(s) - i + 1 /\ (k - i) + i - 1 = k - 1 /\ ~(k <= i)
      BY <1>0, <2>3
    <3> QED BY <1>2, <2>1, <2>3, <3>1
  <2>4. k <= i \/ k > i
    BY <1>0
  <2> QED BY <2>2, <2>3, <2>4
<1> QED BY <1>3, <1>5, <1>6

\* Foreign finds an id that is not UTF-8 if there is one.
LEMMA ForeignFact ==
    ASSUME NEW s \in Seq(TimerId)
    PROVE  /\ Foreign(s) \in 0 .. Len(s)
           /\ Foreign(s) = 0 => s \in Seq(Decodable)
           /\ Foreign(s) # 0 => s[Foreign(s)] \in Undecodable
<1> DEFINE I == {k \in 1 .. Len(s) : s[k] \in Undecodable}
<1>1. Foreign(s) = IF I # {} THEN Min(I) ELSE 0
  BY DEF Foreign, SelectInSeq
<1>2. /\ I \subseteq 1 .. Len(s) /\ I \subseteq Nat
      /\ I = {} => s \in Seq(Decodable)
  BY DEF Decodable
<1> HIDE DEF I
<1>3. I # {} => Min(I) \in I
  BY <1>2, MinFact
<1>4. CASE I = {}
  BY <1>1, <1>2, <1>4
<1>5. CASE I # {}
  <2>1. Foreign(s) \in I
    BY <1>1, <1>3, <1>5
  <2>2. s[Foreign(s)] \in Undecodable
    BY <2>1 DEF I
  <2>3. Foreign(s) \in 1 .. Len(s)
    BY <1>2, <2>1
  <2> QED BY <2>2, <2>3
<1> QED BY <1>4, <1>5

\* Without takes an id out of the due timers.
LEMMA WithoutFact ==
    ASSUME due \in Seq(TimerId), NEW id
    PROVE  Without(id) \in Seq(TimerId)
<1> DEFINE I == {k \in 1 .. Len(due) : due[k] = id}
           p == SelectInSeq(due, LAMBDA v : v = id)
<1>1. p = IF I # {} THEN Min(I) ELSE 0
  BY DEF SelectInSeq
<1>2. Without(id) = IF I # {} THEN RemoveAt(due, p) ELSE due
  BY DEF Without, RemoveFirst
<1>3. I \subseteq 1 .. Len(due) /\ I \subseteq Nat
  OBVIOUS
<1> HIDE DEF I, p
<1>4. I # {} => Min(I) \in I
  BY <1>3, MinFact
<1>5. I # {} => RemoveAt(due, p) \in Seq(TimerId)
  BY <1>1, <1>3, <1>4, RemoveAtFact
<1> QED BY <1>2, <1>5

\* ... the first of its places, and no other id.
LEMMA WithoutKeeps ==
    ASSUME due \in Seq(TimerId), NEW id, NEW other, other # id
    PROVE  (\E k \in DOMAIN Without(id) : Without(id)[k] = other) <=> IsDue(other)
<1> DEFINE I == {k \in 1 .. Len(due) : due[k] = id}
           p == SelectInSeq(due, LAMBDA v : v = id)
           w == RemoveAt(due, p)
<1>1. p = IF I # {} THEN Min(I) ELSE 0
  BY DEF SelectInSeq
<1>2. Without(id) = IF I # {} THEN w ELSE due
  BY DEF Without, RemoveFirst
<1>3. I \subseteq Nat /\ Len(due) \in Nat
  BY LenProperties
<1>4. CASE I = {}
  BY <1>2, <1>4 DEF IsDue
<1>5. CASE I # {}
  <2>1. p \in 1 .. Len(due) /\ due[p] = id
    <3>1. p = Min(I)
      BY <1>1, <1>5
    <3> HIDE DEF p, I
    <3>2. p \in I
      BY <1>3, <1>5, <3>1, MinFact
    <3> QED BY <3>2 DEF I
  <2> HIDE DEF p, I
  <2>2. Without(id) = w
    BY <1>2, <1>5
  <2>3. w \in Seq(TimerId) /\ Len(w) = Len(due) - 1
    BY <2>1, RemoveAtFact
  <2>4. \A k \in 1 .. Len(due) - 1 : w[k] = IF k < p THEN due[k] ELSE due[k + 1]
    BY <2>1, RemoveAtElements
  <2> HIDE DEF w
  <2>5. DOMAIN w = 1 .. Len(due) - 1 /\ DOMAIN due = 1 .. Len(due)
    BY <2>3
  <2>6. ASSUME NEW k \in DOMAIN w, w[k] = other
        PROVE  IsDue(other)
    BY <1>3, <2>4, <2>5, <2>6 DEF IsDue
  <2>7. ASSUME NEW k \in DOMAIN due, due[k] = other
        PROVE  \E j \in DOMAIN w : w[j] = other
    <3>1. CASE k < p
      <4>1. k \in 1 .. Len(due) - 1
        BY <1>3, <2>1, <2>5, <3>1
      <4> QED BY <2>4, <2>5, <2>7, <3>1, <4>1
    <3>2. CASE k > p
      <4>1. k - 1 \in 1 .. Len(due) - 1 /\ ~(k - 1 < p) /\ (k - 1) + 1 = k
        BY <1>3, <2>1, <2>5, <3>2
      <4> QED BY <2>4, <2>5, <2>7, <4>1
    <3>3. k # p
      BY <2>1, <2>7
    <3> QED BY <1>3, <2>1, <2>5, <3>1, <3>2, <3>3
  <2> QED BY <2>2, <2>6, <2>7 DEF IsDue
<1> QED BY <1>4, <1>5

\* Of a sorted set, it leaves one without the id.
Once(ids) == \A j, k \in DOMAIN ids : ids[j] = ids[k] => j = k

LEMMA WithoutOnce ==
    ASSUME due \in Seq(TimerId), Once(due), NEW id
    PROVE  Once(Without(id)) /\ \A k \in DOMAIN Without(id) : Without(id)[k] # id
<1> DEFINE I == {k \in 1 .. Len(due) : due[k] = id}
           p == SelectInSeq(due, LAMBDA v : v = id)
           w == RemoveAt(due, p)
<1>1. p = IF I # {} THEN Min(I) ELSE 0
  BY DEF SelectInSeq
<1>2. Without(id) = IF I # {} THEN w ELSE due
  BY DEF Without, RemoveFirst
<1>3. I \subseteq Nat /\ Len(due) \in Nat
  BY LenProperties
<1>4. CASE I = {}
  <2>1. Without(id) = due
    BY <1>2, <1>4
  <2>2. \A k \in DOMAIN due : due[k] # id
    BY <1>4
  <2> QED BY <2>1, <2>2
<1>5. CASE I # {}
  <2>1. p \in 1 .. Len(due) /\ due[p] = id
    <3>1. p = Min(I)
      BY <1>1, <1>5
    <3> HIDE DEF p, I
    <3>2. p \in I
      BY <1>3, <1>5, <3>1, MinFact
    <3> QED BY <3>2 DEF I
  <2> HIDE DEF p, I
  <2>2. Without(id) = w
    BY <1>2, <1>5
  <2>3. w \in Seq(TimerId) /\ Len(w) = Len(due) - 1
    BY <2>1, RemoveAtFact
  <2>4. \A k \in 1 .. Len(due) - 1 : w[k] = IF k < p THEN due[k] ELSE due[k + 1]
    BY <2>1, RemoveAtElements
  <2> HIDE DEF w
  <2>5. DOMAIN w = 1 .. Len(due) - 1 /\ DOMAIN due = 1 .. Len(due)
    BY <2>3
  <2>6. ASSUME NEW k \in DOMAIN w
        PROVE  \E j \in DOMAIN due : /\ w[k] = due[j] /\ j # p
                                     /\ j = IF k < p THEN k ELSE k + 1
    BY <1>3, <2>1, <2>4, <2>5
  <2>7. Once(w)
    <3> SUFFICES ASSUME NEW j \in DOMAIN w, NEW k \in DOMAIN w, w[j] = w[k] PROVE j = k
      BY DEF Once
    <3>1. (IF j < p THEN j ELSE j + 1) = (IF k < p THEN k ELSE k + 1)
      BY <2>6 DEF Once
    <3> QED BY <1>3, <2>1, <2>5, <3>1
  <2>8. \A k \in DOMAIN w : w[k] # id
    BY <2>1, <2>5, <2>6 DEF Once
  <2> QED BY <2>2, <2>7, <2>8
<1> QED BY <1>4, <1>5

-------------------------------------------------------------------------------
(* The inductive invariant *)

LEMMA InitInv == Init => LoopInv
BY LoopAssumption DEF Init, LoopInv, TypeOK, BoundedTasks, FetchFits, NoIdleToken

\* What Dispatch makes of a result that fits.
LEMMA DispatchFact ==
    ASSUME NEW ids \in Seq(Decodable), Dispatch(ids)
    PROVE  /\ spawned' = ids /\ batch' = <<>>
           /\ loop' \in {"top", "sleeping"}
BY DEF Dispatch, Pause

\* A step that leaves the tasks and the fetch alone.
LEMMA WorldStep ==
    ASSUME LoopInv, NEW id \in TimerId, World(id)
    PROVE  LoopInv'
<1>0. due \in Seq(TimerId) /\ Without(id) \in Seq(TimerId) /\ later \subseteq TimerId
  BY WithoutFact DEF LoopInv, TypeOK
<1>1. due' \in Seq(TimerId) /\ later' \subseteq TimerId
  <2>1. CASE Postpone(id) \/ Drop(id)
    BY <1>0, <2>1 DEF Postpone, Drop
  <2>2. CASE Insert(id)
    <3>1. PICK k \in 1 .. Len(Without(id)) + 1 : due' = InsertAt(Without(id), k, id)
      BY <2>2 DEF Insert
    <3>2. InsertAt(Without(id), k, id) \in Seq(TimerId)
      BY <1>0, InsertAtFact
    <3>3. later' \subseteq TimerId
      BY <1>0, <2>2 DEF Insert
    <3> QED BY <3>1, <3>2, <3>3
  <2> QED BY <2>1, <2>2 DEF World, Publish, CancelTimer, BecomeDue, ClaimedElsewhere
<1>2. UNCHANGED <<loop, asked, batch, tasks>>
  BY DEF World, Publish, CancelTimer, BecomeDue, ClaimedElsewhere
<1>3. Foreign(batch)' = Foreign(batch)
  BY <1>2
<1> QED BY <1>1, <1>2, <1>3 DEF LoopInv, TypeOK, BoundedTasks, FetchFits, NoIdleToken, tasks

\* A step of the tasks: none is added, and the limiter is in order.
LEMMA TaskStep ==
    ASSUME LoopInv,
           due' \in Seq(TimerId), later' \subseteq TimerId,
           spawned' \in Seq(Decodable), waiting' \in Seq(Decodable), held' \in Seq(Holder),
           Len(spawned') <= Len(spawned), spawned = <<>> => spawned' = <<>>,
           Len(spawned') + Len(waiting') + Len(held') <= Len(spawned) + Len(waiting) + Len(held),
           Len(held') <= MaxConcurrent,
           waiting' # <<>> => Len(held') = MaxConcurrent,
           UNCHANGED <<loop, asked, batch>>
    PROVE  LoopInv'
<1>1. Foreign(batch)' = Foreign(batch)
  OBVIOUS
<1>2. TypeOK'
  BY DEF LoopInv, TypeOK
<1>3. /\ Len(spawned) \in Nat /\ Len(waiting) \in Nat /\ Len(held) \in Nat
      /\ Len(spawned') \in Nat /\ Len(waiting') \in Nat /\ Len(held') \in Nat
  BY LenProperties DEF LoopInv, TypeOK
<1>4. BoundedTasks' /\ NoIdleToken'
  BY <1>3, LoopAssumption DEF LoopInv, BoundedTasks, NoIdleToken
<1>5. FetchFits'
  <2>1. Len(spawned') <= MaxConcurrent
    BY <1>3, LoopAssumption DEF LoopInv, FetchFits
  <2>2. ASSUME loop \in {"fetching", "healing"}
        PROVE  asked' + Len(spawned') + Len(waiting') + Len(held') <= 2 * MaxConcurrent
    <3>1. asked \in Nat /\ asked' = asked
      BY DEF LoopInv, TypeOK
    <3>2. asked + Len(spawned) + Len(waiting) + Len(held) <= 2 * MaxConcurrent
      BY <2>2 DEF LoopInv, FetchFits
    <3> QED BY <1>3, <3>1, <3>2, LoopAssumption
  <2> QED BY <1>1, <2>1, <2>2 DEF LoopInv, FetchFits
<1> QED BY <1>2, <1>4, <1>5 DEF LoopInv

\* A token given back goes to the first task that waits for one.
LEMMA ReleaseFact ==
    ASSUME LoopInv, NEW k \in DOMAIN held, Release(k)
    PROVE  /\ held' \in Seq(Holder) /\ waiting' \in Seq(Decodable)
           /\ Len(waiting') + Len(held') <= Len(waiting) + Len(held)
           /\ Len(held') <= MaxConcurrent
           /\ waiting' # <<>> => Len(held') = MaxConcurrent
<1> DEFINE rest == RemoveAt(held, k)
<1>1. held \in Seq(Holder) /\ waiting \in Seq(Decodable) /\ k \in 1 .. Len(held)
  BY DEF LoopInv, TypeOK
<1>2. rest \in Seq(Holder) /\ Len(rest) = Len(held) - 1
  BY <1>1, RemoveAtFact
<1>3. Len(held) <= MaxConcurrent /\ (waiting # <<>> => Len(held) = MaxConcurrent)
  BY DEF LoopInv, BoundedTasks, NoIdleToken
<1>4. Len(held) \in Nat /\ Len(waiting) \in Nat
  BY <1>1, LenProperties
<1> HIDE DEF rest
<1>5. CASE waiting = <<>>
  <2>1. held' = rest /\ waiting' = waiting
    BY <1>5 DEF Release, rest
  <2> QED BY <1>1, <1>2, <1>3, <1>4, <1>5, <2>1, LoopAssumption
<1>6. CASE waiting # <<>>
  <2>1. held' = Append(rest, Claiming(Head(waiting))) /\ waiting' = Tail(waiting)
    BY <1>6 DEF Release, rest
  <2>2. Head(waiting) \in Decodable /\ waiting' \in Seq(Decodable) /\ Len(waiting') = Len(waiting) - 1
    BY <1>1, <1>6, <2>1, HeadTailProperties
  <2>3. Claiming(Head(waiting)) \in Holder
    BY <2>2 DEF Claiming, Holder
  <2>4. held' \in Seq(Holder) /\ Len(held') = Len(held)
    BY <1>2, <1>4, <2>1, <2>3, AppendProperties
  <2> QED BY <1>3, <1>4, <2>2, <2>4, LoopAssumption
<1> QED BY <1>5, <1>6

\* The tasks' own steps.
LEMMA HolderStep ==
    ASSUME LoopInv, NEW k \in DOMAIN held, HolderNext(k)
    PROVE  LoopInv'
<1>1. /\ due \in Seq(TimerId) /\ later \subseteq TimerId
      /\ spawned \in Seq(Decodable) /\ waiting \in Seq(Decodable) /\ held \in Seq(Holder)
  BY DEF LoopInv, TypeOK
<1>2. held[k] \in Holder /\ held[k].id \in TimerId
  <2>1. held[k] \in Holder
    BY <1>1, ElementOfSeq
  <2> QED BY <2>1 DEF Holder, Decodable
<1>3. Without(held[k].id) \in Seq(TimerId)
  BY <1>1, WithoutFact
<1>4. /\ Len(spawned) \in Nat /\ Len(waiting) \in Nat /\ Len(held) \in Nat
  BY <1>1, LenProperties
<1>5. CASE Claim(k)
  <2> DEFINE h == [held[k] EXCEPT !.pc = "handling"]
  <2>1. held' = [held EXCEPT ![k] = h]
    BY <1>5 DEF Claim
  <2>2. h \in Holder
    BY <1>2 DEF Holder
  <2> HIDE DEF h
  <2>3. held' \in Seq(Holder) /\ Len(held') = Len(held)
    BY <1>1, <2>1, <2>2, ExceptSeq
  <2>4. due' \in Seq(TimerId) /\ later' \subseteq TimerId
    BY <1>1, <1>2, <1>3, <1>5 DEF Claim, Postpone
  <2>5. UNCHANGED <<loop, asked, batch, spawned, waiting>>
    BY <1>5 DEF Claim
  <2>6. Len(held) <= MaxConcurrent /\ (waiting # <<>> => Len(held) = MaxConcurrent)
    BY DEF LoopInv, BoundedTasks, NoIdleToken
  <2> QED BY <1>1, <1>4, <2>3, <2>4, <2>5, <2>6, TaskStep
<1>6. CASE Contested(k) \/ ClaimFails(k) \/ Handled(k)
  <2>1. Release(k) /\ UNCHANGED <<loop, asked, batch, spawned>>
    BY <1>6 DEF Contested, ClaimFails, Handled
  <2>2. due' \in Seq(TimerId) /\ later' \subseteq TimerId
    BY <1>1, <1>2, <1>3, <1>6 DEF Contested, ClaimFails, Handled, Postpone, Drop, store
  <2>3. /\ held' \in Seq(Holder) /\ waiting' \in Seq(Decodable)
        /\ Len(waiting') + Len(held') <= Len(waiting) + Len(held)
        /\ Len(held') <= MaxConcurrent
        /\ waiting' # <<>> => Len(held') = MaxConcurrent
    BY <2>1, ReleaseFact
  <2>4. Len(waiting') \in Nat /\ Len(held') \in Nat
    BY <2>3, LenProperties
  <2> QED BY <1>1, <1>4, <2>1, <2>2, <2>3, <2>4, TaskStep
<1> QED BY <1>5, <1>6 DEF HolderNext

\* The loop's own steps.
LEMMA LoopStep ==
    ASSUME LoopInv, BackPressured \/ SendFetch \/ FetchReply \/ Heal \/ FetchFails \/ Wake
    PROVE  LoopInv'
<1>1. /\ due \in Seq(TimerId) /\ later \subseteq TimerId /\ asked \in Nat /\ batch \in Seq(TimerId)
      /\ spawned \in Seq(Decodable) /\ waiting \in Seq(Decodable) /\ held \in Seq(Holder)
      /\ loop \in {"top", "fetching", "healing", "sleeping"}
  BY DEF LoopInv, TypeOK
<1>2. Len(spawned) \in Nat /\ Len(waiting) \in Nat /\ Len(held) \in Nat /\ MaxConcurrent \in Nat
  BY <1>1, LenProperties, LoopAssumption
<1>3. /\ Len(spawned) <= MaxConcurrent /\ Len(held) <= MaxConcurrent
      /\ Len(spawned) + Len(waiting) + Len(held) <= 2 * MaxConcurrent
      /\ waiting # <<>> => Len(held) = MaxConcurrent
  BY DEF LoopInv, FetchFits, BoundedTasks, NoIdleToken
<1>4. CASE BackPressured \/ Wake
  <2>1. UNCHANGED <<store, asked, batch, tasks>> /\ loop' \in {"top", "sleeping"}
    BY <1>4 DEF BackPressured, Wake, Pause
  <2>2. batch = <<>>
    BY <1>4 DEF BackPressured, Wake, LoopInv, FetchFits
  <2> QED BY <1>1, <1>3, <2>1, <2>2
          DEF LoopInv, TypeOK, BoundedTasks, FetchFits, NoIdleToken, store, tasks
<1>5. CASE SendFetch
  <2>1. /\ Free > 0 /\ asked' = Free /\ loop' = "fetching" /\ UNCHANGED <<store, batch, tasks>>
    BY <1>5 DEF SendFetch
  <2>2. /\ asked' \in 1 .. MaxConcurrent
        /\ asked' + Len(spawned) + Len(waiting) + Len(held) <= 2 * MaxConcurrent
    BY <1>2, <1>3, <2>1 DEF Free
  <2>3. batch = <<>>
    BY <1>5 DEF SendFetch, LoopInv, FetchFits
  <2> QED BY <1>1, <1>3, <2>1, <2>2, <2>3
          DEF LoopInv, TypeOK, BoundedTasks, FetchFits, NoIdleToken, store, tasks
<1>6. CASE FetchFails
  <2>1. due' \in Seq(TimerId) /\ later' \subseteq TimerId
    <3>1. CASE UNCHANGED store
      BY <1>1, <3>1 DEF store
    <3>2. CASE Drop(batch[Foreign(batch)])
      BY <1>1, <3>2, WithoutFact DEF Drop
    <3> QED BY <1>6, <3>1, <3>2 DEF FetchFails
  <2>2. loop' = "sleeping" /\ batch' = <<>> /\ UNCHANGED <<asked, tasks>>
    BY <1>6 DEF FetchFails
  <2> QED BY <1>1, <1>3, <2>1, <2>2
          DEF LoopInv, TypeOK, BoundedTasks, FetchFits, NoIdleToken, tasks
<1>7. ASSUME loop \in {"fetching", "healing"}
      PROVE  /\ asked \in 1 .. MaxConcurrent /\ Len(batch) <= asked
             /\ asked + Len(spawned) + Len(waiting) + Len(held) <= 2 * MaxConcurrent
  BY <1>7 DEF LoopInv, FetchFits
<1>8. ASSUME NEW ids \in Seq(Decodable), Len(ids) <= asked, Dispatch(ids), spawned = <<>>,
             loop \in {"fetching", "healing"},
             due' \in Seq(TimerId), later' \subseteq TimerId, UNCHANGED <<asked, waiting, held>>
      PROVE  LoopInv'
  <2>1. spawned' = ids /\ batch' = <<>> /\ loop' \in {"top", "sleeping"}
    BY <1>8, DispatchFact
  <2>2. TypeOK'
    BY <1>1, <1>8, <2>1 DEF TypeOK
  <2>3. Len(ids) \in Nat /\ Len(spawned) = 0
    BY <1>8, LenProperties
  <2>4. BoundedTasks' /\ NoIdleToken'
    BY <1>2, <1>3, <1>7, <1>8, <2>1, <2>3 DEF BoundedTasks, NoIdleToken
  <2>5. FetchFits'
    BY <1>2, <1>7, <1>8, <2>1, <2>3 DEF FetchFits
  <2> QED BY <2>2, <2>4, <2>5 DEF LoopInv
<1>9. ASSUME NEW ids \in Seq(TimerId), Len(ids) <= asked, Foreign(ids) # 0, spawned = <<>>,
             loop \in {"fetching", "healing"}, loop' = "healing", batch' = ids,
             due' \in Seq(TimerId), later' \subseteq TimerId,
             UNCHANGED <<asked, spawned, waiting, held>>
      PROVE  LoopInv'
  <2>1. Foreign(batch)' = Foreign(ids)
    BY <1>9
  <2>2. TypeOK' /\ BoundedTasks' /\ NoIdleToken'
    BY <1>1, <1>2, <1>3, <1>9 DEF TypeOK, BoundedTasks, NoIdleToken
  <2>3. FetchFits'
    BY <1>3, <1>7, <1>9, <2>1 DEF FetchFits
  <2> QED BY <2>2, <2>3 DEF LoopInv
<1>10. CASE FetchReply
  <2> DEFINE n == IF asked < Len(due) THEN asked ELSE Len(due)
             reply == SubSeq(due, 1, n)
  <2>1. n \in Nat /\ n <= asked /\ n <= Len(due)
    BY <1>1, LenProperties
  <2>2. reply \in Seq(TimerId) /\ Len(reply) <= asked
    <3>1. \A i \in 1 .. n : due[i] \in TimerId
      BY <1>1, <2>1, ElementOfSeq
    <3>2. reply \in Seq(TimerId) /\ Len(reply) = IF 1 <= n THEN n ELSE 0
      BY <2>1, <3>1, SubSeqProperties
    <3> QED BY <1>1, <2>1, <3>2
  <2>3. /\ loop = "fetching" /\ spawned = <<>> /\ UNCHANGED <<store, asked, waiting, held>>
        /\ IF Foreign(reply) = 0 THEN Dispatch(reply)
           ELSE loop' = "healing" /\ batch' = reply /\ UNCHANGED spawned
    BY <1>10 DEF FetchReply
  <2>4. due' \in Seq(TimerId) /\ later' \subseteq TimerId
    BY <1>1, <2>3 DEF store
  <2> HIDE DEF reply
  <2>5. CASE Foreign(reply) = 0
    <3>1. reply \in Seq(Decodable)
      BY <2>2, <2>5, ForeignFact
    <3> QED BY <1>8, <2>2, <2>3, <2>4, <2>5, <3>1
  <2>6. CASE Foreign(reply) # 0
    BY <1>9, <2>2, <2>3, <2>4, <2>6
  <2> QED BY <2>5, <2>6
<1>11. CASE Heal
  <2> DEFINE k == Foreign(batch)
             rest == RemoveAt(batch, k)
  <2>1. /\ loop = "healing" /\ Drop(batch[k]) /\ UNCHANGED <<asked, waiting, held>>
        /\ IF Foreign(rest) = 0 THEN Dispatch(rest)
           ELSE batch' = rest /\ UNCHANGED <<loop, spawned>>
    BY <1>11 DEF Heal
  <2>2. spawned = <<>> /\ k # 0
    BY <2>1 DEF LoopInv, FetchFits
  <2>3. k \in 1 .. Len(batch)
    BY <1>1, <2>2, ForeignFact
  <2>4. rest \in Seq(TimerId) /\ Len(rest) = Len(batch) - 1
    BY <1>1, <2>3, RemoveAtFact
  <2>5. Len(rest) <= asked
    BY <1>1, <1>7, <2>1, <2>4, LenProperties
  <2>6. due' \in Seq(TimerId) /\ later' \subseteq TimerId
    BY <1>1, <2>1, WithoutFact DEF Drop
  <2> HIDE DEF rest
  <2>7. CASE Foreign(rest) = 0
    <3>1. rest \in Seq(Decodable)
      BY <2>4, <2>7, ForeignFact
    <3> QED BY <1>8, <2>1, <2>2, <2>5, <2>6, <2>7, <3>1
  <2>8. CASE Foreign(rest) # 0
    BY <1>9, <2>1, <2>2, <2>4, <2>5, <2>6, <2>8
  <2> QED BY <2>7, <2>8
<1> QED BY <1>4, <1>5, <1>6, <1>10, <1>11

\* A spawned task's first run.
LEMMA StartStep ==
    ASSUME LoopInv, Start
    PROVE  LoopInv'
<1>1. /\ due \in Seq(TimerId) /\ later \subseteq TimerId
      /\ spawned \in Seq(Decodable) /\ waiting \in Seq(Decodable) /\ held \in Seq(Holder)
  BY DEF LoopInv, TypeOK
<1>2. spawned # <<>> /\ spawned' = Tail(spawned) /\ UNCHANGED <<store, loop, asked, batch>>
  BY DEF Start
<1>3. /\ Head(spawned) \in Decodable /\ spawned' \in Seq(Decodable)
      /\ Len(spawned') = Len(spawned) - 1
  BY <1>1, <1>2, HeadTailProperties
<1>4. /\ Len(spawned) \in Nat /\ Len(waiting) \in Nat /\ Len(held) \in Nat /\ MaxConcurrent \in Nat
      /\ Len(held) <= MaxConcurrent /\ (waiting # <<>> => Len(held) = MaxConcurrent)
  BY <1>1, LenProperties, LoopAssumption DEF LoopInv, BoundedTasks, NoIdleToken
<1>5. due' \in Seq(TimerId) /\ later' \subseteq TimerId
  BY <1>1, <1>2 DEF store
<1>6. CASE waiting = <<>> /\ Len(held) < MaxConcurrent
  <2>1. held' = Append(held, Claiming(Head(spawned))) /\ waiting' = waiting
    BY <1>6 DEF Start
  <2>2. Claiming(Head(spawned)) \in Holder
    BY <1>3 DEF Claiming, Holder
  <2>3. held' \in Seq(Holder) /\ Len(held') = Len(held) + 1
    BY <1>1, <2>1, <2>2, AppendProperties
  <2> QED BY <1>1, <1>2, <1>3, <1>4, <1>5, <1>6, <2>1, <2>3, TaskStep
<1>7. CASE ~(waiting = <<>> /\ Len(held) < MaxConcurrent)
  <2>1. waiting' = Append(waiting, Head(spawned)) /\ held' = held
    BY <1>7 DEF Start
  <2>2. waiting' \in Seq(Decodable) /\ Len(waiting') = Len(waiting) + 1
    BY <1>1, <1>3, <2>1, AppendProperties
  <2>3. Len(held) = MaxConcurrent
    BY <1>4, <1>7
  <2> QED BY <1>1, <1>2, <1>3, <1>4, <1>5, <2>1, <2>2, <2>3, TaskStep
<1> QED BY <1>6, <1>7

LEMMA InvPreserved ==
    ASSUME LoopInv, [Next]_vars
    PROVE  LoopInv'
<1>1. CASE UNCHANGED vars
  <2>1. UNCHANGED <<due, later, loop, asked, batch, spawned, waiting, held>>
    BY <1>1 DEF vars, store, tasks
  <2>2. Foreign(batch)' = Foreign(batch)
    BY <2>1
  <2> QED BY <2>1, <2>2 DEF LoopInv, TypeOK, BoundedTasks, FetchFits, NoIdleToken
<1> QED BY <1>1, LoopStep, StartStep, HolderStep, WorldStep DEF Next

-------------------------------------------------------------------------------
(* Theorems *)

\* The bounds of the poll loop hold together, for every number of timers and tokens.
THEOREM LoopInvariant == Spec => []LoopInv
<1>1. LoopInv /\ [Next]_vars => LoopInv'
  BY InvPreserved
<1> QED BY InitInv, <1>1, PTL DEF Spec

\* No fetch asks for a limit below one, and no task is for an id that is not UTF-8.
THEOREM TypeCorrect == Spec => []TypeOK
<1>1. LoopInv => TypeOK
  BY DEF LoopInv
<1> QED BY LoopInvariant, <1>1, PTL

\* max_concurrent bounds the handlers, and twice max_concurrent all tasks of a subscriber.
THEOREM TasksAreBounded == Spec => []BoundedTasks
<1>1. LoopInv => BoundedTasks
  BY DEF LoopInv
<1> QED BY LoopInvariant, <1>1, PTL

\* A fetch, and what is left of its reply while bad ids are removed, fits in that bound.
THEOREM FetchesFit == Spec => []FetchFits
<1>1. LoopInv => FetchFits
  BY DEF LoopInv
<1> QED BY LoopInvariant, <1>1, PTL

-------------------------------------------------------------------------------
(* What the subscriber does to the timers *)

\* A timer is in Redis once: due or for later (a sorted set has a member once).
OncePerTimer == Once(due) /\ \A k \in DOMAIN due : due[k] \notin later

LEMMA StoreStep ==
    ASSUME LoopInv, [Next]_vars
    PROVE  \/ UNCHANGED store
           \/ \E id \in TimerId : Drop(id) \/ Postpone(id) \/ Insert(id)
<1> USE DEF store
<1>1. \A k \in DOMAIN held : held[k].id \in TimerId
  <2> SUFFICES ASSUME NEW k \in DOMAIN held PROVE held[k].id \in TimerId
    OBVIOUS
  <2>1. held[k] \in Holder
    BY ElementOfSeq DEF LoopInv, TypeOK
  <2> QED BY <2>1 DEF Holder, Decodable
<1>2. loop = "healing" => batch[Foreign(batch)] \in TimerId
  <2>1. loop = "healing" => Foreign(batch) # 0 /\ batch \in Seq(TimerId)
    BY DEF LoopInv, TypeOK, FetchFits
  <2>2. loop = "healing" => batch[Foreign(batch)] \in Undecodable
    BY <2>1, ForeignFact
  <2> QED BY <2>2, LoopAssumption
<1>3. CASE BackPressured \/ SendFetch \/ FetchReply \/ Wake \/ Start \/ UNCHANGED vars
  BY <1>3 DEF BackPressured, SendFetch, FetchReply, Wake, Start, vars
<1>4. CASE Heal \/ FetchFails
  BY <1>2, <1>4 DEF Heal, FetchFails
<1>5. ASSUME NEW k \in DOMAIN held, HolderNext(k)
      PROVE  UNCHANGED store \/ \E id \in TimerId : Drop(id) \/ Postpone(id)
  BY <1>1, <1>5 DEF HolderNext, Claim, Contested, ClaimFails, Handled
<1>6. ASSUME NEW id \in TimerId, World(id)
      PROVE  Drop(id) \/ Postpone(id) \/ Insert(id)
  BY <1>6 DEF World, Publish, CancelTimer, BecomeDue, ClaimedElsewhere
<1> QED BY <1>3, <1>4, <1>5, <1>6 DEF Next

\* No timer is ever due twice, or due and leased: whoever claims it takes it from
\* every other task that was spawned for it.
THEOREM TimersOnce == Spec => []OncePerTimer
<1>1. Init => OncePerTimer
  BY DEF Init, OncePerTimer, Once
<1>2. LoopInv /\ OncePerTimer /\ [Next]_vars => OncePerTimer'
  <2> SUFFICES ASSUME LoopInv, OncePerTimer, [Next]_vars PROVE OncePerTimer'
    OBVIOUS
  <2>1. due \in Seq(TimerId)
    BY DEF LoopInv, TypeOK
  <2>2. CASE UNCHANGED store
    BY <2>2 DEF OncePerTimer, Once, store
  <2>3. ASSUME NEW id \in TimerId
        PROVE  /\ Without(id) \in Seq(TimerId) /\ Once(Without(id))
               /\ \A k \in DOMAIN Without(id) : Without(id)[k] # id /\ Without(id)[k] \notin later
    <3>1. Once(Without(id)) /\ \A k \in DOMAIN Without(id) : Without(id)[k] # id
      BY <2>1, WithoutOnce DEF OncePerTimer
    <3>2. ASSUME NEW k \in DOMAIN Without(id) PROVE Without(id)[k] \notin later
      <4>1. IsDue(Without(id)[k])
        BY <2>1, <3>1, WithoutKeeps
      <4> QED BY <4>1 DEF OncePerTimer, IsDue
    <3> QED BY <2>1, <3>1, <3>2, WithoutFact
  <2>4. ASSUME NEW id \in TimerId, Drop(id) \/ Postpone(id) PROVE OncePerTimer'
    <3>1. due' = Without(id) /\ (\A x : x # id => (x \in later' <=> x \in later))
      BY <2>4 DEF Drop, Postpone
    <3>2. Once(due') /\ \A k \in DOMAIN due' : due'[k] \notin later'
      BY <2>3, <3>1
    <3> QED BY <3>2 DEF OncePerTimer, Once
  <2>5. ASSUME NEW id \in TimerId, Insert(id) PROVE OncePerTimer'
    <3> DEFINE w == Without(id)
    <3>1. PICK i \in 1 .. Len(w) + 1 : due' = InsertAt(w, i, id)
      BY <2>5 DEF Insert
    <3>2. later' = later \ {id}
      BY <2>5 DEF Insert
    <3>3. w \in Seq(TimerId) /\ Once(w) /\ \A k \in DOMAIN w : w[k] # id /\ w[k] \notin later
      BY <2>3
    <3> HIDE DEF w
    <3>4. /\ due' \in Seq(TimerId) /\ Len(due') = Len(w) + 1
          /\ \A k \in 1 .. Len(w) + 1 :
                due'[k] = IF k < i THEN w[k] ELSE IF k = i THEN id ELSE w[k - 1]
      <4>1. /\ InsertAt(w, i, id) \in Seq(TimerId) /\ Len(InsertAt(w, i, id)) = Len(w) + 1
            /\ \A k \in 1 .. Len(w) + 1 : InsertAt(w, i, id)[k]
                    = IF k < i THEN w[k] ELSE IF k = i THEN id ELSE w[k - 1]
        BY <3>3, InsertAtFact
      <4> QED BY <3>1, <4>1
    <3>5. Len(w) \in Nat /\ DOMAIN w = 1 .. Len(w) /\ DOMAIN due' = 1 .. Len(w) + 1
      BY <3>3, <3>4, LenProperties
    <3>6. ASSUME NEW k \in DOMAIN due', k # i
          PROVE  \E j \in DOMAIN w : due'[k] = w[j] /\ j = IF k < i THEN k ELSE k - 1
      <4>1. CASE k < i
        BY <3>4, <3>5, <4>1
      <4>2. CASE k > i
        BY <3>4, <3>5, <4>2
      <4> QED BY <3>5, <3>6, <4>1, <4>2
    <3>7. due'[i] = id
      BY <3>4
    <3>8. \A k \in DOMAIN due' : due'[k] \notin later'
      BY <3>2, <3>3, <3>6, <3>7
    <3>9. ASSUME NEW j \in DOMAIN due', NEW k \in DOMAIN due', due'[j] = due'[k]
          PROVE  j = k
      <4>1. CASE j = i \/ k = i
        BY <3>3, <3>6, <3>7, <3>9, <4>1
      <4>2. CASE j # i /\ k # i
        <5>1. (IF j < i THEN j ELSE j - 1) = (IF k < i THEN k ELSE k - 1)
          BY <3>3, <3>6, <3>9, <4>2 DEF Once
        <5> QED BY <3>5, <4>2, <5>1
      <4> QED BY <4>1, <4>2
    <3> QED BY <3>8, <3>9 DEF OncePerTimer, Once
  <2> QED BY <2>2, <2>4, <2>5, StoreStep
<1> QED BY <1>1, <1>2, LoopInvariant, PTL DEF Spec

\* Polling costs no timer: of the ids in Redis, a fetch and its removals touch only those
\* that are not UTF-8, also when they fail half way; and what a removal removes is gone.
PollingSpares ==
    /\ FetchReply \/ Heal \/ FetchFails =>
           \A id \in Decodable : (IsDue(id)' <=> IsDue(id)) /\ (IsLater(id)' <=> IsLater(id))
    /\ Heal => \E bad \in Undecodable : /\ bad = batch[Foreign(batch)]
                                        /\ ~IsDue(bad)' /\ ~IsLater(bad)'

THEOREM PollingSparesTimers == Spec => [][PollingSpares]_vars
<1>1. ASSUME LoopInv, OncePerTimer, FetchReply \/ Heal \/ FetchFails, NEW id \in Decodable
      PROVE  (IsDue(id)' <=> IsDue(id)) /\ (IsLater(id)' <=> IsLater(id))
  <2>1. CASE UNCHANGED store
    BY <2>1 DEF store, IsDue, IsLater
  <2>2. CASE loop = "healing" /\ Drop(batch[Foreign(batch)])
    <3> DEFINE bad == batch[Foreign(batch)]
    <3>1. Foreign(batch) # 0 /\ batch \in Seq(TimerId) /\ due \in Seq(TimerId)
      BY <1>1, <2>2 DEF LoopInv, TypeOK, FetchFits
    <3>2. bad \in Undecodable /\ id # bad
      BY <3>1, ForeignFact DEF Decodable
    <3>3. due' = Without(bad) /\ later' = later \ {bad}
      BY <2>2 DEF Drop
    <3> HIDE DEF bad
    <3>4. (\E k \in DOMAIN Without(bad) : Without(bad)[k] = id) <=> IsDue(id)
      BY <3>1, <3>2, WithoutKeeps
    <3> QED BY <3>2, <3>3, <3>4 DEF IsDue, IsLater
  <2> QED BY <1>1, <2>1, <2>2 DEF FetchReply, Heal, FetchFails
<1>2. ASSUME LoopInv, OncePerTimer, Heal
      PROVE  \E bad \in Undecodable : bad = batch[Foreign(batch)] /\ ~IsDue(bad)' /\ ~IsLater(bad)'
  <2>1. /\ Foreign(batch) # 0 /\ batch \in Seq(TimerId) /\ due \in Seq(TimerId)
        /\ Drop(batch[Foreign(batch)])
    BY <1>2 DEF Heal, LoopInv, TypeOK, FetchFits
  <2>2. PICK bad \in Undecodable : bad = batch[Foreign(batch)]
    BY <2>1, ForeignFact
  <2>3. due' = Without(bad) /\ later' = later \ {bad}
    BY <2>1, <2>2 DEF Drop
  <2>4. \A k \in DOMAIN Without(bad) : Without(bad)[k] # bad
    BY <1>2, <2>1, WithoutOnce DEF OncePerTimer
  <2>5. ~IsDue(bad)' /\ ~IsLater(bad)'
    BY <2>3, <2>4 DEF IsDue, IsLater
  <2> QED BY <2>2, <2>5
<1>3. LoopInv /\ OncePerTimer /\ [Next]_vars => [PollingSpares]_vars
  BY <1>1, <1>2 DEF PollingSpares
<1> QED BY <1>3, LoopInvariant, TimersOnce, PTL DEF Spec
-------------------------------------------------------------------------------
(* Liveness.  ENABLED is beyond the provers: the weak fairness of the two steps from  *)
(* the top of the loop is spelled out with their guards in its place, which are what  *)
(* ENABLED comes to when polling_interval is not zero.                                *)

Turns ==
    /\ []<>~(loop = "top" /\ Free <= 0) \/ []<><<BackPressured>>_vars
    /\ []<>~(loop = "top" /\ Free > 0) \/ []<><<SendFetch>>_vars

AtTop == loop = "top"
Saturated == loop = "top" /\ Free <= 0
Fetches == loop = "top" /\ Free > 0

\* "back-pressure - yield briefly": a saturated loop gives the thread back, and the loop
\* never keeps it, whatever it has spawned before, unless polling_interval is zero.
THEOREM SaturatedLoopYields ==
    ASSUME Base # 0
    PROVE  Spec /\ Turns => YieldsWhenSaturated /\ []<>(loop # "top")
<1>1. LoopInv => (AtTop <=> Saturated \/ Fetches)
  <2> SUFFICES ASSUME LoopInv PROVE Free \in Int
    BY DEF AtTop, Saturated, Fetches
  <2>1. Len(held) \in Nat /\ Len(waiting) \in Nat /\ MaxConcurrent \in Nat
    BY LenProperties, LoopAssumption DEF LoopInv, TypeOK
  <2> QED BY <2>1 DEF Free
<1>2. LoopInv /\ [Next]_vars =>
          /\ Saturated => Saturated' \/ ~AtTop'
          /\ Fetches => Fetches' \/ ~AtTop'
  <2> SUFFICES ASSUME LoopInv, [Next]_vars, loop = "top"
               PROVE  loop' # "top" \/ (loop' = "top" /\ UNCHANGED <<held, waiting>>)
    BY DEF Saturated, Fetches, AtTop, Free
  <2>1. CASE BackPressured \/ SendFetch
    BY <2>1 DEF BackPressured, SendFetch, tasks
  <2>2. CASE \E id \in TimerId : World(id)
    BY <2>2 DEF World, Publish, CancelTimer, BecomeDue, ClaimedElsewhere, tasks
  <2>3. CASE UNCHANGED vars
    BY <2>3 DEF vars, tasks
  <2>4. ~(FetchReply \/ Heal \/ FetchFails \/ Wake \/ Start \/ \E k \in DOMAIN held : HolderNext(k))
    BY DEF FetchReply, Heal, FetchFails, Wake, Start, HolderNext, Claim, Contested, ClaimFails,
           Handled, InPhase, Yielded
  <2> QED BY <2>1, <2>2, <2>3, <2>4 DEF Next
<1>3. <<BackPressured>>_vars => ~AtTop'
  BY DEF BackPressured, Pause, AtTop
<1>4. <<SendFetch>>_vars => ~AtTop'
  BY DEF SendFetch, AtTop
<1>5. /\ ~(loop = "top" /\ Free <= 0) <=> ~Saturated
      /\ ~(loop = "top" /\ Free > 0) <=> ~Fetches
      /\ loop = "top" /\ Free <= 0 => AtTop
      /\ loop # "top" <=> ~AtTop
  BY DEF Saturated, Fetches, AtTop
<1> QED BY <1>1, <1>2, <1>3, <1>4, <1>5, LoopInvariant, PTL DEF Spec, Turns, YieldsWhenSaturated
===============================================================================
