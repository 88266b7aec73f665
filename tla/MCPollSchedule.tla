---------------------------- MODULE MCPollSchedule ----------------------------
(* An instance of PollSchedule for TLC: the defaults of the code, in units of *)
(* 50 ms; jitter 0.5, 1.0, 1.5.                                               *)
EXTENDS PollSchedule
===============================================================================
