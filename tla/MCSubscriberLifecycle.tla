------------------------ MODULE MCSubscriberLifecycle ------------------------
(* Small instances of SubscriberLifecycle for TLC. *)
EXTENDS SubscriberLifecycle

TwoSubscribers == <<"first", "second">>
ThreeSubscribers == <<"first", "third", "second">>
===============================================================================
