-------------------------------- MODULE Duty --------------------------------
(***************************************************************************)
(* What the company has to keep going, composed: the routines and their    *)
(* runner, one call of a model, and the seat of the CEO with its fuel      *)
(* gauge.  The parts share no state; as in Office a behaviour is one of    *)
(* one part, and the fairness of a part is asked for in its behaviours.    *)
(***************************************************************************)
EXTENDS Naturals, Sequences, Functions

CONSTANTS
    Names, Agents, NoOne, MaxRestarts,
    Speakers, FreeModels, PaidModels, Ladder,
    Attempts, Rungs, Strikes, MaxCeiling, FreeCap,
    Floor, Heart, Reserve, Threshold, Full

VARIABLES
    part,
    rows, batch, pc, cur, employed, task, carry, elsewhere, told, dropped, restarts,
    talk, cooling, freeUsed, strikes, benched,
    tank, gauge, fresh, lowAlert, heard, broke, resting, dear, ep

Routines  == INSTANCE Routines
ModelCall == INSTANCE ModelCall WITH SeatLadder <- Range(Ladder)
Seat      == INSTANCE Seat WITH FreeSeats <- FreeModels, benched <- resting

ASSUME DutyAssumption ==
    Routines!RoutinesAssumption /\ ModelCall!CallAssumption /\ Seat!SeatAssumption

Idle(p) == part # p

Init ==
    /\ part \in {"routines", "call", "seat"}
    /\ Routines!Init /\ ModelCall!Init
    /\ Seat!Init /\ (Idle("seat") => tank = 0)

R == <<rows, batch, pc, cur, employed, task, carry, elsewhere, told, dropped, restarts>>
C == <<talk, cooling, freeUsed, strikes, benched>>
S == <<tank, gauge, fresh, lowAlert, heard, broke, resting, dear, ep>>
vars == <<part, R, C, S>>

Of(p) == part = p /\ UNCHANGED part
RoutinesStep(A) == Of("routines") /\ A /\ UNCHANGED <<C, S>>
CallStep(A)     == Of("call") /\ A /\ UNCHANGED <<R, S>>
SeatStep(A)     == Of("seat") /\ A /\ UNCHANGED <<R, C>>

Next ==
    \/ RoutinesStep(Routines!Next)
    \/ CallStep(ModelCall!Next)
    \/ SeatStep(Seat!Next)

(* The fairness of ModelCall and Seat, each where it moves.  That of the   *)
(* routines is asked for in Routines, on its own.                          *)
Fairness ==
    /\ \A s \in Speakers : WF_vars(CallStep(ModelCall!Enter(s) \/ ModelCall!Reply(s)))
    /\ WF_vars(SeatStep(Seat!Turn)) /\ WF_vars(SeatStep(Seat!ThrottleEnds))
    /\ SF_vars(SeatStep(Seat!ReadTank))

Spec == Init /\ [][Next]_vars /\ Fairness

TypeOK ==
    CASE part = "routines" -> Routines!TypeOK
      [] part = "call"     -> ModelCall!TypeOK
      [] part = "seat"     -> Seat!TypeOK

(* What each property says of the code stands with its definition.         *)
(* A failed routine is handed on, to its owner or to the CEO.              *)
AlertHandedOn == Routines!AlertHandedOn

(* What one call can cost is bounded, model by model.                      *)
BillBounded == ModelCall!BillBounded

(* Every call of a model comes back.                                       *)
CallEnds == ModelCall!CallEnds

(* Every dip of the tank below the floor is announced.                     *)
DipAnnounced == Seat!DipAnnounced

(* A refilled company leaves the emergency seat.                           *)
RefillRestores == Seat!RefillRestores
=============================================================================
