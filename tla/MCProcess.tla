----------------------------- MODULE MCProcess -----------------------------
(* An instance of Process for TLC: two keyboards, two keys of one button and *)
(* events that are not accepted.                                             *)
EXTENDS Process

MCDevices == {"kbd1", "kbd2"}
MCTyped == {"DOWN"}
=============================================================================
