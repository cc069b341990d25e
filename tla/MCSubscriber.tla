---------------------------- MODULE MCSubscriber ----------------------------
(* Instances of Subscriber for TLC. *)
EXTENDS Subscriber
=============================================================================
