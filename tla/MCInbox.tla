------------------------------ MODULE MCInbox -------------------------------
(* Instances of Inbox for TLC.                                             *)
EXTENDS Inbox

CONSTANTS tell, text1, alarm, work
=============================================================================
