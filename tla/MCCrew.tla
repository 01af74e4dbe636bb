------------------------------- MODULE MCCrew -------------------------------
(* Instances of Crew for TLC.                                              *)
EXTENDS Crew, TLC

CONSTANTS ada, bob, cyd, o1, opus, glm

MCNames      == {ada, bob}
Solo         == {ada}
Trio         == {ada, bob, cyd}
MCObjectives == {o1}
MCDenied     == {glm}
Symmetry     == Permutations(MCNames)

(* No guard reads a history, and none reads whether a run manages except   *)
(* in the turn that found it out, or the objective of a run that has no    *)
(* handle: two states that differ only there have the same control, and    *)
(* the properties of a run with this view name none of these.  Nor does    *)
(* anything read the count of restarts but its bound, which is out of      *)
(* reach: a run with this view has a crash wherever one may fall.          *)
Control ==
    <<[n \in Names |-> [row[n] EXCEPT !.hist = {}]], owner, running,
      [r \in RunIds |-> [run[r] EXCEPT
          !.hist = {}, !.manages = @ /\ run[r].pc \in {"chat", "waiting"},
          !.objective = IF r \in pending THEN @ ELSE NoObj]],
      pending, firing, phase>>

(* Bound: no shutdown begins. *)
NoShutdown == phase = "up"

OneSeat == {opus}
NoSwap  == [m \in OneSeat |-> {}]

\* A seat and one the company has since denied.
TwoSeats == {opus, glm}
NoPeers  == [m \in TwoSeats |-> {}]

(* Bound: a settled company. Two managers and a worker, bob owns o1, only  *)
(* the worker is dispatched on it, and a manager's own report is not       *)
(* waiting.                                                                *)
Settled ==
    /\ phase = "up"
    /\ \A n \in Trio : row[n].active /\ (row[n].manager <=> n # cyd)
    /\ owner = [o \in MCObjectives |-> bob]
    /\ \A r \in RunIds : run[r].objective = o1 => run[r].agent = cyd
    /\ \A r \in pending : ~Live(r) => run[r].agent = cyd
=============================================================================
