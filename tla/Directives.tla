----------------------------- MODULE Directives -----------------------------
(***************************************************************************)
(* What `khan tell` promises the founder: a directive, once sent, stands   *)
(* until a model has had it in front of it, and is done only after that.   *)
(* Crashes, restarts and the disposal of transcripts are invisible here.   *)
(* Inbox implements this.                                                  *)
(***************************************************************************)
CONSTANT Tells

VARIABLE stage

Init == stage = [t \in Tells |-> "unsent"]

Send(t) ==
    /\ stage[t] = "unsent"
    /\ stage' = [stage EXCEPT ![t] = "standing"]

\* One call of the model hears every directive of its context.
Hear(heard) ==
    /\ heard # {} /\ \A t \in heard : stage[t] = "standing"
    /\ stage' = [t \in Tells |-> IF t \in heard THEN "heard" ELSE stage[t]]

Done(t) ==
    /\ stage[t] = "heard"
    /\ stage' = [stage EXCEPT ![t] = "done"]

Next ==
    \/ \E t \in Tells : Send(t) \/ Done(t)
    \/ \E heard \in SUBSET Tells : Hear(heard)

Fairness == \A t \in Tells : WF_stage(\E heard \in SUBSET Tells : t \in heard /\ Hear(heard))

(* What never happens, and with fairness what happens in the end.          *)
Kept == Init /\ [][Next]_stage
Spec == Kept /\ Fairness
=============================================================================
