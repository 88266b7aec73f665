---------------------------- MODULE MCPublishPath ----------------------------
(* Small instances of PublishPath for TLC. *)
EXTENDS PublishPath, TLC

\* f"{prefix}{topic}": a broker without a prefix, and two routers whose prefixes are "a"
\* and "ab".  "abx" is a full topic of all three.
Concatenation == [pair \in Prefix \X Topic |-> pair[1] \o pair[2]]

\* Two subscribers of one topic (the factory only warns), both of a router.
RouterSubscribers == <<[prefix |-> "ab", topic |-> "x"], [prefix |-> "ab", topic |-> "x"]>>

\* A publisher of the broker that nobody listens to, and two of the routers that meet.
RouterPublishers ==
    {[prefix |-> "", topic |-> "x"], [prefix |-> "a", topic |-> "bx"],
     [prefix |-> "ab", topic |-> "x"]}
===============================================================================
