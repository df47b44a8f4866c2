-------------------------- MODULE MCChannelRetirement --------------------------
(* DataChannels with two channels and one message, for TLC. *)
EXTENDS DataChannels

MCChannelBudgets == {[incoming |-> 2, messages |-> 1, routes |-> 0]}
===============================================================================
