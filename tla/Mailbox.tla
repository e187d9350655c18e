------------------------------ MODULE Mailbox ------------------------------
(***************************************************************************)
(* What an application of this repository expects of platform_poll: every  *)
(* message its peer has put into the receive ring reaches the endpoint     *)
(* callback exactly once, in order, and without a further message having   *)
(* to arrive first.  Messages are numbered, so two counters are the state. *)
(***************************************************************************)
EXTENDS Naturals

CONSTANT MaxMsgs      \* messages the peer puts altogether

VARIABLES put, got    \* messages put by the peer, messages dispatched

Init == put = 0 /\ got = 0

Put == put < MaxMsgs /\ put' = put + 1 /\ UNCHANGED got

Deliver == got < put /\ got' = got + 1 /\ UNCHANGED put

Next == Put \/ Deliver

Safety == Init /\ [][Next]_<<put, got>>

Spec == Safety /\ WF_<<put, got>>(Deliver)
=============================================================================
