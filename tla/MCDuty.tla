------------------------------- MODULE MCDuty -------------------------------
(***************************************************************************)
(* What the company has to keep going (module Duty) for TLC: a catalog of  *)
(* two paid models and a free one; the floor of the ladder and the         *)
(* heartbeat's model are not on it.                                        *)
(***************************************************************************)
EXTENDS Duty

MCPaid == <<"opus", "grok">>
MCFree == <<"glm">>
MCReserve == [m \in {"opus", "grok", "glm", Floor, Heart} |-> IF m \in {"glm", Heart} THEN 0 ELSE 1]
=============================================================================
