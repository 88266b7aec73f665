-------------------------- MODULE TimerMessage_proofs --------------------------
(* The verdicts on a delivery, for any number of coroutines and late commits. *)
EXTENDS ScriptedMessage, TLAPS

\* What a caller awaits is one of three things.
LEMMA CallTypes ==
    ASSUME TypeOK, NEW c \in Caller
    PROVE  /\ call[c] = NoCall <=> call[c].commit = "none"
           /\ call[c] # NoCall <=> call[c].commit \in {"sent", "served"}
           /\ call[c] # NoCall => call[c].verdict \in {"ack", "reject"}
BY DEF TypeOK, Awaited, NoCall

\* The range of the variables is kept by every step.
LEMMA TypePreserved ==
    ASSUME TypeOK, [Next]_vars
    PROVE  TypeOK'
<1> USE MessageAssumption DEF TypeOK, Awaited, NoCall, Caller
<1>1. ASSUME NEW c \in Caller, NEW verdict \in Verdict, SendCommit(c, verdict)
      PROVE  TypeOK'
  BY <1>1 DEF SendCommit, Given, Verdict
<1>2. ASSUME NEW c \in Caller, NEW verdict \in Verdict, MarkOnly(c, verdict)
      PROVE  TypeOK'
  BY <1>2 DEF MarkOnly, Given, MarkedAs, Status
<1>3. ASSUME NEW c \in Caller, ServeCommit(c)
      PROVE  TypeOK'
  BY <1>3 DEF ServeCommit
<1>4. ASSUME NEW c \in Caller, CommitReply(c)
      PROVE  TypeOK'
  BY <1>4 DEF CommitReply, MarkedAs, Status
<1>5. ASSUME NEW c \in Caller, CommitFails(c)
      PROVE  TypeOK'
  <2>1. late' \in 0 .. MaxLate
    BY <1>5 DEF CommitFails
  <2>2. call' \in [Caller -> Awaited]
    BY <1>5 DEF CommitFails
  <2> QED BY <1>5, <2>1, <2>2 DEF CommitFails
<1>6. CASE LateCommit \/ LateLost
  BY <1>6 DEF LateCommit, LateLost
<1>7. ASSUME NEW outcome \in {"returned", "raised", "rejected"}, HandlerEnds(outcome)
      PROVE  TypeOK'
  BY <1>7 DEF HandlerEnds
<1>8. CASE Republish
  BY <1>8 DEF Republish
<1>9. CASE UNCHANGED vars
  BY <1>9 DEF vars
<1> QED BY <1>1, <1>2, <1>3, <1>4, <1>5, <1>6, <1>7, <1>8, <1>9 DEF Next

\* Each part of the invariant is kept; the parts need each other.
LEMMA InvPreserved ==
    ASSUME MessageInv, [Next]_vars
    PROVE  MessageInv'
<1>0. TypeOK'
  BY TypePreserved DEF MessageInv
<1> USE MessageAssumption
        DEF CommitsRemove, NothingUnasked, OneAtATime, MiddlewareLast, Settled, Alone
<1> DEFINE Parts == CommitsRemove /\ NothingUnasked /\ OneAtATime /\ MiddlewareLast
<1>1. ASSUME NEW c \in Caller, NEW verdict \in Verdict, SendCommit(c, verdict)
      PROVE  Parts'
  <2>1. /\ committed = "unset" /\ committed' = "unset" /\ stored' = stored /\ late' = late
        /\ call[c] = NoCall /\ call' = [call EXCEPT ![c] = [verdict |-> verdict, commit |-> "sent"]]
        /\ asked' /\ spared' = spared /\ handler' = handler
    BY <1>1 DEF SendCommit, MayCall
  <2>2. call \in [Caller -> Awaited]
    BY DEF MessageInv, TypeOK
  <2>3. CommitsRemove'
    BY <2>1, <2>2 DEF MessageInv
  <2>4. NothingUnasked'
    BY <2>1
  <2>5. OneAtATime'
    <3>1. SUFFICES ASSUME orderly' PROVE OneAtATime'
      OBVIOUS
    <3>2. orderly /\ \A d \in Caller \ {c} : call[d] = NoCall
      BY <1>1, <3>1 DEF SendCommit
    <3> QED BY <2>1, <2>2, <3>2 DEF MessageInv
  <2>6. MiddlewareLast'
    <3>1. CASE c = Middleware
      <4>1. handler # "running" /\ ~verdictDue'
        BY <1>1, <3>1 DEF SendCommit, MayCall, Given, Verdict
      <4> QED BY <2>1, <4>1
    <3>2. CASE c # Middleware
      <4>1. verdictDue' <=> verdictDue
        BY <1>1, <3>2 DEF SendCommit, Given
      <4>2. call'[Middleware] = call[Middleware]
        BY <2>1, <2>2, <3>2
      <4> QED BY <2>1, <4>1, <4>2 DEF MessageInv
    <3> QED BY <3>1, <3>2
  <2> QED BY <2>3, <2>4, <2>5, <2>6
<1>2. ASSUME NEW c \in Caller, NEW verdict \in Verdict, MarkOnly(c, verdict)
      PROVE  Parts'
  <2>1. /\ UNCHANGED <<stored, call, handler, late, asked, spared>>
        /\ committed' = MarkedAs(verdict)
        /\ verdict = "nack" \/ committed # "unset"
    BY <1>2 DEF MarkOnly
  <2>2. Settled' <=> Settled
    BY <2>1 DEF MarkedAs, Status
  <2>3. committed' # "unset"
    BY <2>1 DEF MarkedAs, Status
  <2>4. CommitsRemove' /\ NothingUnasked'
    BY <2>1, <2>2 DEF MessageInv
  <2>5. OneAtATime'
    <3>1. SUFFICES ASSUME orderly' PROVE OneAtATime'
      OBVIOUS
    <3>2. orderly /\ call[c] = NoCall /\ \A d \in Caller \ {c} : call[d] = NoCall
      BY <1>2, <3>1 DEF MarkOnly, MayCall
    <3> QED BY <2>1, <2>3, <3>2 DEF MessageInv
  <2>6. MiddlewareLast'
    <3>1. CASE c = Middleware
      <4>1. handler # "running" /\ ~verdictDue'
        BY <1>2, <3>1 DEF MarkOnly, MayCall, Given, Verdict
      <4> QED BY <2>1, <4>1
    <3>2. CASE c # Middleware
      <4>1. verdictDue' <=> verdictDue
        BY <1>2, <3>2 DEF MarkOnly, Given
      <4>2. call'[Middleware] = call[Middleware]
        BY <2>1, <3>2
      <4> QED BY <2>1, <4>1, <4>2 DEF MessageInv
    <3> QED BY <3>1, <3>2
  <2> QED BY <2>4, <2>5, <2>6
<1>3. ASSUME NEW c \in Caller, ServeCommit(c)
      PROVE  Parts'
  BY <1>3, CallTypes DEF MessageInv, TypeOK, ServeCommit, Caller, NoCall
<1>4. ASSUME NEW c \in Caller, CommitReply(c)
      PROVE  Parts'
  BY <1>4, CallTypes DEF MessageInv, TypeOK, CommitReply, MarkedAs, Status, Caller, NoCall
<1>5. ASSUME NEW c \in Caller, CommitFails(c)
      PROVE  Parts'
  BY <1>5, CallTypes DEF MessageInv, TypeOK, CommitFails, Caller, NoCall
<1>6. ASSUME LateCommit \/ LateLost PROVE Parts'
  <2>1. late # 0 /\ UNCHANGED <<committed, call, handler, verdictDue, asked, orderly, spared>>
        /\ stored' \in {stored, "nothing"} /\ late' = late - 1
    BY <1>6 DEF MessageInv, TypeOK, LateCommit, LateLost
  <2> QED BY <2>1 DEF MessageInv, TypeOK
<1>7. ASSUME NEW outcome \in {"returned", "raised", "rejected"}, HandlerEnds(outcome)
      PROVE  Parts'
  BY <1>7 DEF MessageInv, TypeOK, HandlerEnds
<1>8. ASSUME Republish PROVE Parts'
  BY <1>8 DEF MessageInv, TypeOK, Republish
<1>9. ASSUME UNCHANGED vars PROVE Parts'
  <2>1. CommitsRemove' /\ NothingUnasked' /\ MiddlewareLast'
    BY <1>9 DEF MessageInv, vars
  <2>2. OneAtATime'
    BY <1>9 DEF MessageInv, vars
  <2> QED BY <2>1, <2>2
<1> QED BY <1>0, <1>1, <1>2, <1>3, <1>4, <1>5, <1>6, <1>7, <1>8, <1>9 DEF Next, MessageInv

\* The invariant of a message's verdicts.
THEOREM MessageInvariant == Spec => []MessageInv
<1>1. Init => MessageInv
  <2> SUFFICES ASSUME Init PROVE MessageInv
    OBVIOUS
  <2>1. TypeOK
    <3>1. call \in [Caller -> Awaited]
      BY DEF Init, Awaited
    <3>2. late \in 0 .. MaxLate
      BY MessageAssumption DEF Init
    <3> QED BY <3>1, <3>2 DEF Init, TypeOK
  <2>2. CommitsRemove /\ NothingUnasked /\ MiddlewareLast
    BY DEF Init, CommitsRemove, NothingUnasked, MiddlewareLast, Settled, NoCall, Caller
  <2>3. OneAtATime
    BY DEF Init, OneAtATime
  <2> QED BY <2>1, <2>2, <2>3 DEF MessageInv
<1>2. MessageInv /\ [Next]_vars => MessageInv'
  BY InvPreserved
<1> QED BY <1>1, <1>2, PTL DEF Spec

\* A message that says acked or rejected is out of Redis.
THEOREM SettledMeansRemoved == Spec => []SettledIsRemoved
<1>1. MessageInv => SettledIsRemoved
  BY DEF MessageInv, CommitsRemove, SettledIsRemoved
<1> QED BY <1>1, MessageInvariant, PTL

\* The middleware's ack spares the timer republished after the handler's own.
THEOREM RepublishedSurvives == Spec => []RepublishedIsSpared
<1>1. MessageInv => RepublishedIsSpared
  BY DEF MessageInv, OneAtATime, RepublishedIsSpared
<1> QED BY <1>1, MessageInvariant, PTL
-------------------------------------------------------------------------------
(* The commands of _eval_cached: a refinement, so that all of the above carries over. *)

\* Each step of the scripted message is a step of TimerMessage, or none of its.
LEMMA ScriptedStep ==
    ASSUME [ScriptedNext]_scriptedVars
    PROVE  [Next]_vars
<1>1. ASSUME NEW c \in Caller, NEW verdict \in Verdict, SendScript(c, verdict)
      PROVE  Next
  BY <1>1 DEF SendScript, Next
<1>2. ASSUME NEW c \in Caller, NEW verdict \in Verdict, MarkOnly(c, verdict)
      PROVE  Next
  BY <1>2 DEF Next
<1>3. ASSUME NEW c \in Caller, Serve(c)
      PROVE  [Next]_vars
  <2>1. CASE Hit(c)
    BY <2>1 DEF Hit, Next
  <2>2. CASE Miss(c) \/ Load(c) \/ MissAgain(c)
    BY <2>2 DEF Miss, Load, MissAgain
  <2> QED BY <1>3, <2>1, <2>2 DEF Serve
<1>4. ASSUME NEW c \in Caller, Return(c) \/ GiveUp(c)
      PROVE  Next
  BY <1>4 DEF Return, GiveUp, Next
<1>5. CASE LateEval
  BY <1>5 DEF LateEval, Next
<1>6. ASSUME NEW outcome \in {"returned", "raised", "rejected"}, HandlerEnds(outcome)
      PROVE  Next
  BY <1>6 DEF Next
<1>7. CASE Republish
  BY <1>7 DEF Next
<1>8. CASE UNCHANGED vars
  BY <1>8
<1> QED BY <1>1, <1>2, <1>3, <1>4, <1>5, <1>6, <1>7, <1>8 DEF ScriptedNext, scriptedVars

\* A commit through the script cache is the commit of one command.
THEOREM ScriptsKeepVerdicts == ScriptedSpec => KeepsVerdicts
<1>1. ScriptedInit => Init
  BY DEF ScriptedInit
<1>2. [ScriptedNext]_scriptedVars => [Next]_vars
  BY ScriptedStep
<1> QED BY <1>1, <1>2, PTL DEF ScriptedSpec, KeepsVerdicts, Spec

\* The commands of _eval_cached and the calls they serve stay together.
LEMMA EvalFollowsStep ==
    ASSUME MessageInv, EvalFollowsCall, [ScriptedNext]_scriptedVars
    PROVE  EvalFollowsCall'
<1> USE DEF EvalTo, OnItsWay, Stage
<1>0. /\ call \in [Caller -> Awaited] /\ eval \in [Caller -> Stage] /\ cached \in BOOLEAN
      /\ \A c \in Caller : /\ call[c].commit = "none" <=> eval[c] = "none"
                           /\ call[c].commit = "sent" <=> eval[c] \in OnItsWay
      /\ \A c \in Caller : call[c].commit \in {"none", "sent", "served"}
  BY DEF MessageInv, TypeOK, EvalFollowsCall, Awaited, NoCall
<1>1. ASSUME NEW c \in Caller, NEW verdict \in Verdict, SendScript(c, verdict)
      PROVE  EvalFollowsCall'
  <2>1. /\ call' = [call EXCEPT ![c] = [verdict |-> verdict, commit |-> "sent"]]
        /\ eval' = [eval EXCEPT ![c] = "evalsha"] /\ cached' = cached
    BY <1>1 DEF SendScript, SendCommit
  <2> QED BY <1>0, <2>1 DEF EvalFollowsCall
<1>2. ASSUME NEW c \in Caller, Hit(c)
      PROVE  EvalFollowsCall'
  <2>1. /\ call' = [call EXCEPT ![c] = [verdict |-> @.verdict, commit |-> "served"]]
        /\ eval' = [eval EXCEPT ![c] = "ran"] /\ cached' = cached
    BY <1>2 DEF Hit, ServeCommit
  <2> QED BY <1>0, <2>1 DEF EvalFollowsCall
<1>3. ASSUME NEW c \in Caller, Miss(c) \/ Load(c) \/ MissAgain(c)
      PROVE  EvalFollowsCall'
  <2>1. /\ call' = call /\ cached' \in BOOLEAN
        /\ \E stage \in OnItsWay : eval' = [eval EXCEPT ![c] = stage]
        /\ eval[c] \in OnItsWay
    BY <1>0, <1>3 DEF Miss, Load, MissAgain, vars
  <2> QED BY <1>0, <2>1 DEF EvalFollowsCall
<1>4. ASSUME NEW c \in Caller, Return(c) \/ GiveUp(c)
      PROVE  EvalFollowsCall'
  <2>1. /\ call' = [call EXCEPT ![c] = NoCall]
        /\ eval' = [eval EXCEPT ![c] = "none"] /\ cached' = cached
    BY <1>4 DEF Return, GiveUp, CommitReply, CommitFails
  <2>2. NoCall.commit = "none"
    BY DEF NoCall
  <2> QED BY <1>0, <2>1, <2>2 DEF EvalFollowsCall
<1>5. CASE call' = call /\ eval' = eval /\ cached' \in BOOLEAN
  BY <1>0, <1>5 DEF EvalFollowsCall
<1>6. ASSUME NEW c \in Caller, NEW verdict \in Verdict, MarkOnly(c, verdict), UNCHANGED scriptVars
      PROVE  EvalFollowsCall'
  BY <1>0, <1>5, <1>6 DEF MarkOnly, scriptVars
<1>7. ASSUME NEW outcome \in {"returned", "raised", "rejected"}, HandlerEnds(outcome),
             UNCHANGED scriptVars
      PROVE  EvalFollowsCall'
  BY <1>0, <1>5, <1>7 DEF HandlerEnds, scriptVars
<1>8. CASE (LateEval \/ Republish) /\ UNCHANGED scriptVars
  BY <1>0, <1>5, <1>8 DEF LateEval, LateCommit, LateLost, Republish, scriptVars
<1>9. CASE (Flush \/ LoadedByOthers) /\ UNCHANGED <<vars, eval>>
  BY <1>0, <1>5, <1>9 DEF Flush, LoadedByOthers, vars
<1>10. CASE UNCHANGED scriptedVars
  BY <1>0, <1>5, <1>10 DEF scriptedVars, vars, scriptVars
<1> QED BY <1>1, <1>2, <1>3, <1>4, <1>6, <1>7, <1>8, <1>9, <1>10 DEF ScriptedNext, Serve

\* The invariant of a message, its verdicts and their scripts.
THEOREM ScriptedInvariant == ScriptedSpec => []ScriptedInv
<1>1. ScriptedInit => EvalFollowsCall
  BY DEF ScriptedInit, Init, EvalFollowsCall, NoCall, Stage, OnItsWay
<1>2. MessageInv /\ EvalFollowsCall /\ [ScriptedNext]_scriptedVars => EvalFollowsCall'
  BY EvalFollowsStep
<1>3. ScriptedSpec => []MessageInv
  BY ScriptsKeepVerdicts, MessageInvariant DEF KeepsVerdicts
<1>4. ScriptedSpec => []EvalFollowsCall
  BY <1>1, <1>2, <1>3, PTL DEF ScriptedSpec
<1>5. MessageInv /\ EvalFollowsCall => ScriptedInv
  BY DEF ScriptedInv
<1> QED BY <1>3, <1>4, <1>5, PTL

\* Through the script cache too, what says acked or rejected is out of Redis, and the
\* timer republished after an orderly ack is spared.
THEOREM ScriptedVerdicts == ScriptedSpec => [](SettledIsRemoved /\ RepublishedIsSpared)
BY ScriptsKeepVerdicts, SettledMeansRemoved, RepublishedSurvives, PTL DEF KeepsVerdicts
-------------------------------------------------------------------------------
(* Every call ends.  ENABLED is beyond the provers: the weak fairness of RedisAnswers *)
(* is spelled out with the guards of Serve and Return in its place.                  *)

Answered(c) ==
    /\ []<>(eval[c] \notin {"evalsha", "load", "again"}) \/ []<><<Serve(c)>>_scriptedVars
    /\ []<>(eval[c] \notin {"ran", "refused"}) \/ []<><<Return(c)>>_scriptedVars

AllAnsweredSpec == ScriptedSpec /\ \A c \in Caller : Answered(c)

At(c, stage) == eval[c] = stage

\* The command of _eval_cached is on its way, or its last answer is.
AtServer(c) == At(c, "evalsha") \/ At(c, "load") \/ At(c, "again")
AtReturn(c) == At(c, "ran") \/ At(c, "refused")

\* A step leaves the stage of a caller alone, moves it forward, or ends the call: no
\* step sends an earlier command again.
StagesAdvance(c) ==
    /\ At(c, "evalsha") => At(c, "evalsha")' \/ At(c, "load")' \/ At(c, "ran")' \/ At(c, "none")'
    /\ At(c, "load") => At(c, "load")' \/ At(c, "again")' \/ At(c, "none")'
    /\ At(c, "again") => At(c, "again")' \/ At(c, "ran")' \/ At(c, "refused")' \/ At(c, "none")'
    /\ At(c, "ran") => At(c, "ran")' \/ At(c, "none")'
    /\ At(c, "refused") => At(c, "refused")' \/ At(c, "none")'

LEMMA StageStep ==
    ASSUME ScriptedInv, [ScriptedNext]_scriptedVars, NEW c \in Caller
    PROVE  StagesAdvance(c)
<1> USE DEF EvalTo, StagesAdvance, At
<1>0. /\ eval \in [Caller -> Stage]
      /\ call[c].commit = "none" <=> eval[c] = "none"
  BY DEF ScriptedInv, EvalFollowsCall
<1>1. ASSUME NEW d \in Caller, NEW verdict \in Verdict, SendScript(d, verdict)
      PROVE  StagesAdvance(c)
  <2>1. call[d].commit = "none" /\ eval[d] = "none"
    BY <1>1 DEF SendScript, SendCommit, MayCall, NoCall, ScriptedInv, EvalFollowsCall
  <2> QED BY <1>0, <1>1, <2>1 DEF SendScript
<1>2. ASSUME NEW d \in Caller, Serve(d)
      PROVE  StagesAdvance(c)
  BY <1>0, <1>2 DEF Serve, Hit, Miss, Load, MissAgain
<1>3. ASSUME NEW d \in Caller, Return(d) \/ GiveUp(d)
      PROVE  StagesAdvance(c)
  BY <1>0, <1>3 DEF Return, GiveUp
<1>4. CASE UNCHANGED eval
  BY <1>4
<1> QED
  BY <1>1, <1>2, <1>3, <1>4 DEF ScriptedNext, scriptedVars, scriptVars

\* Two attempts at most: between a call's first command and its end, the commands of
\* _eval_cached go forward only, whatever happens to the script cache meanwhile.
THEOREM TwoAttemptsAtMost == ScriptedSpec => [][\A c \in Caller : StagesAdvance(c)]_scriptedVars
<1>1. ScriptedInv /\ [ScriptedNext]_scriptedVars => \A c \in Caller : StagesAdvance(c)
  BY StageStep
<1> QED BY <1>1, ScriptedInvariant, PTL DEF ScriptedSpec

\* What Redis does for a caller moves it on.
LEMMA ServeMoves ==
    ASSUME ScriptedInv, NEW c \in Caller, Serve(c)
    PROVE  /\ At(c, "evalsha") => ~At(c, "evalsha")'
           /\ At(c, "load") => ~At(c, "load")'
           /\ At(c, "again") => ~At(c, "again")'
<1>1. eval \in [Caller -> Stage]
  BY DEF ScriptedInv, EvalFollowsCall
<1> QED BY <1>1 DEF Serve, Hit, Miss, Load, MissAgain, EvalTo, At

LEMMA ReturnMoves ==
    ASSUME ScriptedInv, NEW c \in Caller, Return(c)
    PROVE  At(c, "none")'
<1>1. eval \in [Caller -> Stage]
  BY DEF ScriptedInv, EvalFollowsCall
<1> QED BY <1>1 DEF Return, EvalTo, At

\* A call is awaited exactly while a command or its answer is on its way.
LEMMA CallsHaveStages ==
    ASSUME ScriptedInv, NEW c \in Caller
    PROVE  /\ call[c] # NoCall <=> AtServer(c) \/ AtReturn(c)
           /\ At(c, "none") <=> call[c] = NoCall
<1>1. eval[c] \in Stage /\ (call[c].commit = "none" <=> eval[c] = "none")
  BY DEF ScriptedInv, EvalFollowsCall
<1>2. call[c] = NoCall <=> call[c].commit = "none"
  BY CallTypes DEF ScriptedInv, MessageInv
<1> QED BY <1>1, <1>2 DEF AtServer, AtReturn, At, Stage, OnItsWay

\* A call of one caller ends, whatever the others and the script cache do.
LEMMA AnsweredCallEnds ==
    ASSUME NEW c \in Caller
    PROVE  ScriptedSpec /\ Answered(c) => (call[c] # NoCall ~> call[c] = NoCall)
<1>1. ScriptedInv /\ [ScriptedNext]_scriptedVars => StagesAdvance(c)
  BY StageStep
<1>2. ScriptedInv /\ <<Serve(c)>>_scriptedVars =>
           /\ At(c, "evalsha") => ~At(c, "evalsha")'
           /\ At(c, "load") => ~At(c, "load")'
           /\ At(c, "again") => ~At(c, "again")'
  BY ServeMoves
<1>3. ScriptedInv /\ <<Return(c)>>_scriptedVars => At(c, "none")'
  BY ReturnMoves
<1>4. At(c, "none") => ~AtReturn(c)
  BY DEF At, AtReturn
<1>5. /\ eval[c] \notin {"evalsha", "load", "again"} <=> ~AtServer(c)
      /\ eval[c] \notin {"ran", "refused"} <=> ~AtReturn(c)
  BY DEF AtServer, AtReturn, At
<1>6. ScriptedInv => /\ call[c] # NoCall <=> AtServer(c) \/ AtReturn(c)
                     /\ At(c, "none") <=> call[c] = NoCall
  BY CallsHaveStages
<1> QED
  BY <1>1, <1>2, <1>3, <1>4, <1>5, <1>6, ScriptedInvariant, PTL
     DEF ScriptedSpec, Answered, StagesAdvance, AtServer, AtReturn

\* However often the script is flushed, an ack or a reject that Redis answers ends,
\* for any number of coroutines.
THEOREM AnsweredCallsEnd == AllAnsweredSpec => CallsEnd
<1>1. ASSUME NEW c \in Caller
      PROVE  ScriptedSpec /\ Answered(c) => (call[c] # NoCall ~> call[c] = NoCall)
  BY AnsweredCallEnds
<1> QED BY <1>1 DEF AllAnsweredSpec, CallsEnd
===============================================================================
