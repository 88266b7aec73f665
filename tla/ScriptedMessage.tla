---------------------------- MODULE ScriptedMessage ----------------------------
(***************************************************************************)
(* The commit of TimerMessage as _eval_cached sends it: EVALSHA; if Redis  *)
(* answers NOSCRIPT, SCRIPT LOAD and EVALSHA again, once.  Each is a       *)
(* command of its own, so that between two of them the server may lose the *)
(* script (SCRIPT FLUSH, a failover to a primary that never saw it), other *)
(* clients may load it, and fail_after may strike.                         *)
(*                                                                         *)
(* Every action is one of TimerMessage's, or leaves its variables alone.   *)
(***************************************************************************)
EXTENDS TimerMessage

VARIABLES
    cached, \* the server knows the commit script
    eval    \* caller -> the command of _eval_cached that is on its way

scriptVars == <<cached, eval>>
scriptedVars == <<vars, scriptVars>>

\* "refused" and "ran" are the two last answers on their way back.
OnItsWay == {"evalsha", "load", "again", "refused"}
Stage    == OnItsWay \cup {"none", "ran"}

EvalTo(c, stage) == eval' = [eval EXCEPT ![c] = stage]

ScriptedInit ==
    /\ Init
    /\ cached \in BOOLEAN /\ eval = [c \in Caller |-> "none"]

SendScript(c, verdict) == SendCommit(c, verdict) /\ EvalTo(c, "evalsha") /\ UNCHANGED cached

\* The server runs the script it knows.
Hit(c) ==
    /\ eval[c] \in {"evalsha", "again"} /\ cached
    /\ ServeCommit(c) /\ EvalTo(c, "ran")
    /\ UNCHANGED cached

\* NOSCRIPT, to which _eval_cached answers with SCRIPT LOAD.
Miss(c) ==
    /\ eval[c] = "evalsha" /\ ~cached
    /\ EvalTo(c, "load")
    /\ UNCHANGED <<vars, cached>>

Load(c) ==
    /\ eval[c] = "load"
    /\ cached' = TRUE /\ EvalTo(c, "again")
    /\ UNCHANGED vars

\* Faulty: a second NOSCRIPT is taken for the script's empty reply.
MissSwallowed(c) ==
    /\ eval[c] = "again" /\ ~cached
    /\ EvalTo(c, "ran") /\ call' = [call EXCEPT ![c] = [verdict |-> @.verdict, commit |-> "served"]]
    /\ UNCHANGED <<stored, committed, handler, verdictDue, late, asked, orderly, spared, cached>>

\* Faulty: load and try again for as long as it takes.
MissLoops(c) ==
    /\ eval[c] = "again" /\ ~cached
    /\ EvalTo(c, "load")
    /\ UNCHANGED <<vars, cached>>

\* NOSCRIPT again: there is no third attempt.
MissAgain(c) ==
    /\ eval[c] = "again" /\ ~cached
    /\ EvalTo(c, "refused")
    /\ UNCHANGED <<vars, cached>>

\* The reply, or the NoScriptError that ends the call.
Return(c) ==
    /\ EvalTo(c, "none") /\ UNCHANGED cached
    /\ \/ eval[c] = "ran" /\ CommitReply(c)
       \/ eval[c] = "refused" /\ CommitFails(c) /\ late' = late

\* fail_after or a connection error; only an EVALSHA on its way may run later.
GiveUp(c) ==
    /\ CommitFails(c)
    /\ eval[c] \notin {"evalsha", "again"} => late' = late
    /\ EvalTo(c, "none")
    /\ UNCHANGED cached

\* An EVALSHA whose client gave up: nobody answers its NOSCRIPT.
LateEval == IF cached THEN LateCommit ELSE LateLost

\* A flush or a failover, and the SCRIPT LOAD of others.
Flush == cached' = FALSE
LoadedByOthers == cached' = TRUE

Serve(c) == Hit(c) \/ Miss(c) \/ Load(c) \/ MissAgain(c)

ScriptedNext ==
    \/ \E c \in Caller :
         \/ \E verdict \in Verdict : \/ SendScript(c, verdict)
                                     \/ MarkOnly(c, verdict) /\ UNCHANGED scriptVars
         \/ Serve(c) \/ Return(c) \/ GiveUp(c)
    \/ LateEval /\ UNCHANGED scriptVars
    \/ \E outcome \in {"returned", "raised", "rejected"} :
         HandlerEnds(outcome) /\ UNCHANGED scriptVars
    \/ Republish /\ UNCHANGED scriptVars
    \/ (Flush \/ LoadedByOthers) /\ UNCHANGED <<vars, eval>>

ScriptedSpec == ScriptedInit /\ [][ScriptedNext]_scriptedVars

\* Redis answers every command, whatever it answers; no timeout need help.
RedisAnswers == \A c \in Caller : WF_scriptedVars(Serve(c)) /\ WF_scriptedVars(Return(c))

FairScriptedSpec == ScriptedSpec /\ RedisAnswers
-------------------------------------------------------------------------------
(* Properties *)

\* The command of _eval_cached and the commit it stands for go together: none is on
\* its way for a call that gave up, and no call waits for a command nobody sent.
EvalFollowsCall ==
    /\ cached \in BOOLEAN /\ eval \in [Caller -> Stage]
    /\ \A c \in Caller : /\ call[c].commit = "none" <=> eval[c] = "none"
                         /\ call[c].commit = "sent" <=> eval[c] \in OnItsWay

\* The invariant of a message, its verdicts and their scripts (message.py, store.py).
ScriptedInv == MessageInv /\ EvalFollowsCall

\* "Removes a timer ... atomically": whatever happens to the script cache between the
\* commands of _eval_cached, a commit is run at most once, is answered only if it was
\* run, and otherwise fails, as a single command would.
KeepsVerdicts == Spec

\* However often the script is flushed, an ack or a reject that Redis answers ends,
\* after two attempts at most.
CallsEnd == \A c \in Caller : call[c] # NoCall ~> call[c] = NoCall
===============================================================================
