---------------------------- MODULE MCTimerMessage ----------------------------
(* Small instances of ScriptedMessage for TLC.  No symmetry: CallsEnd is a liveness
   property. *)
EXTENDS ScriptedMessage
===============================================================================
