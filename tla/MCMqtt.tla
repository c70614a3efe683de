------------------------------- MODULE MCMqtt -------------------------------
(* Mqtt with few ids, descriptors and messages. *)
EXTENDS Mqtt, TLC

TwoFds == {1, 2}
=============================================================================
