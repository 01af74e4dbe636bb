--------------------------------- MODULE Seat ---------------------------------
(***************************************************************************)
(* Which model the CEO thinks on (agent.rs: SeatState, check_fuel,         *)
(* pick_ceo_model, emergency_seat, bench_seat, and the places of the       *)
(* episode loop that choose, keep or replace ceo_model), with the fuel     *)
(* gauge and its alerts.  How far apart quiet heartbeats are is left out,  *)
(* and so is the alert check_disk files before the tank is looked at (it   *)
(* touches nothing here; an alert is one more row of module Inbox).        *)
(*                                                                         *)
(* The provider is external: the tank, the prices, and how a call on the   *)
(* seat ends (module ModelCall says what one call does).  Amounts are a    *)
(* few levels; the burn rate and the refill arithmetic are left out, and   *)
(* what drains into an episode is module Inbox's: here only that something *)
(* did.  Timers (the 300 s poll throttle, the hour between low-fuel        *)
(* alerts, the 15 minutes of a bench) run out by actions of their own.     *)
(***************************************************************************)
EXTENDS Integers, Sequences, FiniteSets, FiniteSetsExt, Functions

CONSTANTS
  Ladder,        \* cfg.ceo_models, best first
  Floor,         \* cfg.ceo_model
  Heart,         \* cfg.heartbeat_model
  FreeSeats,     \* free_model_ids
  Threshold,     \* fuel_low_micros, as a level of the tank
  Full,          \* bound: the tank holds 0..Full
  Reserve        \* (provider) what a call on a model must find in the tank

Seats == Range(Ladder) \cup {Floor, Heart} \cup Range(FreeSeats)

SeatAssumption ==
  /\ Ladder \in Seq(Range(Ladder)) /\ FreeSeats \in Seq(Range(FreeSeats))
  /\ {Threshold, Full} \subseteq Nat /\ Threshold > 0
  /\ Reserve \in [Seats -> 0..Threshold]
  /\ Heart \notin Range(Ladder) \cup {Floor} \cup Range(FreeSeats)

VARIABLES
  tank,       \* (provider) the balance
  gauge,      \* the last reading, or Unread before the first poll
  fresh,      \* polled less than 300 s ago
  lowAlert,       \* the last low-fuel alert: "never" (since the tank was full), "recent", "old"
  heard,      \* an alert was filed since the last reading at or above the floor
  broke, benched,
  dear,       \* rungs whose cached price is above the ceilings
  ep          \* the episode in flight

vars == <<tank, gauge, fresh, lowAlert, heard, broke, benched, dear, ep>>
fuel == <<gauge, fresh, lowAlert, heard>>

Unread == -1
Low == gauge # Unread /\ gauge < Threshold
NoEpisode == [pc |-> "closed", seat |-> Floor]

-----------------------------------------------------------------------------
(* Choosing a seat.                                                        *)

Fits(m, bench) == m \notin bench /\ m \notin dear

\* The first rung that is not benched and not too dear; the floor when none is.
TopRung(bench) ==
  LET fit == {i \in DOMAIN Ladder : Fits(Ladder[i], bench)}
  IN  IF fit = {} THEN Floor ELSE Ladder[Min(fit)]

\* pick_ceo_model.
Pick(bench) == IF broke \/ Low THEN Floor ELSE TopRung(bench)

\* emergency_seat: the floor, or - when the floor itself bounced - a free model.
EmergencySeat(failed) ==
  IF failed # Floor THEN Floor ELSE IF FreeSeats = <<>> THEN Floor ELSE Head(FreeSeats)

-----------------------------------------------------------------------------
(* An episode.                                                             *)

\* Quiet: a heartbeat with nothing queued, no directive open and a team at work.
Open(quiet) ==
  /\ ep.pc = "closed"
  /\ ep' = [pc |-> "top", seat |-> IF quiet THEN Heart ELSE Pick(benched)]
  /\ UNCHANGED <<tank, fuel, broke, benched, dear>>

\* check_fuel when it does not get a reading: polled too recently, no key, the
\* endpoint down.
NoReading ==
  /\ ep.pc = "top"
  /\ ep' = [ep EXCEPT !.pc = "drain"]
  /\ UNCHANGED <<tank, fuel, broke, benched, dear>>

\* Fault: the hourly throttle of the alert is not reset by a full tank.
ReadingNoReset ==
  /\ gauge' = tank /\ fresh' = TRUE
  /\ IF tank >= Threshold
     THEN UNCHANGED lowAlert /\ heard' = FALSE /\ broke' = FALSE
     ELSE /\ lowAlert' = "recent"
          /\ heard' = (heard \/ lowAlert # "recent")
          /\ UNCHANGED broke

\* Fault: the throttle is looked at before the all-clear.
ReadingThrottled ==
  /\ gauge' = tank /\ fresh' = TRUE
  /\ IF tank >= Threshold
     THEN lowAlert' = "never" /\ heard' = FALSE /\ broke' = (broke /\ lowAlert = "never")
     ELSE /\ lowAlert' = "recent"
          /\ heard' = (heard \/ lowAlert # "recent")
          /\ UNCHANGED broke

\* check_fuel with a reading: the gauge, then either all clear - which alone
\* ends the emergency - or an alert, at most one an hour.
Reading ==
  /\ gauge' = tank /\ fresh' = TRUE
  /\ IF tank >= Threshold
     THEN lowAlert' = "never" /\ heard' = FALSE /\ broke' = FALSE
     ELSE /\ lowAlert' = "recent"
          /\ heard' = (heard \/ lowAlert # "recent")
          /\ UNCHANGED broke

ReadTank ==
  /\ ep.pc = "top" /\ ~fresh
  /\ Reading
  /\ ep' = [ep EXCEPT !.pc = "drain"]
  /\ UNCHANGED <<tank, benched, dear>>

\* A quiet heartbeat stops being quiet the moment real work drains in.
Drain(something) ==
  /\ ep.pc = "drain"
  /\ ep' = [pc |-> "ask",
             seat |-> IF something /\ ep.seat = Heart THEN Pick(benched) ELSE ep.seat]
  /\ UNCHANGED <<tank, fuel, broke, benched, dear>>

Answer ==
  /\ ep.pc = "ask"
  /\ tank >= Reserve[ep.seat]
  /\ ep' = [ep EXCEPT !.pc = "top"]
  /\ UNCHANGED <<tank, fuel, broke, benched, dear>>

\* 402 on the seat and on every rung behind it: the tank, not the model.
Bounce ==
  /\ ep.pc = "ask"
  /\ tank < Reserve[ep.seat]
  /\ broke' = TRUE
  /\ ep' = [ep EXCEPT !.pc = "top", !.seat = EmergencySeat(ep.seat)]
  /\ UNCHANGED <<tank, fuel, benched, dear>>

\* Any other failure that is not a truncation: bench the seat, unless it is the
\* floor, and slide down.
Fail ==
  /\ ep.pc = "ask"
  /\ IF ep.seat # Floor
     THEN /\ benched' = benched \cup {ep.seat}
          /\ ep' = [ep EXCEPT !.pc = "top", !.seat = Pick(benched')]
     ELSE UNCHANGED benched /\ ep' = [ep EXCEPT !.pc = "top"]
  /\ UNCHANGED <<tank, fuel, broke, dear>>

Truncated ==
  /\ ep.pc = "ask"
  /\ ep' = [ep EXCEPT !.pc = "top"]
  /\ UNCHANGED <<tank, fuel, broke, benched, dear>>

\* finish_episode, a cut-off or the stop flag.
Close ==
  /\ ep.pc \in {"top", "drain", "ask"}
  /\ ep' = NoEpisode
  /\ UNCHANGED <<tank, fuel, broke, benched, dear>>

-----------------------------------------------------------------------------
(* Around it.                                                              *)

\* The process dies and boots: the seat's state was in memory.
Reboot ==
  /\ gauge' = Unread /\ fresh' = FALSE /\ lowAlert' = "never" /\ heard' = FALSE
  /\ broke' = FALSE /\ benched' = {} /\ dear' = {} /\ ep' = NoEpisode
  /\ UNCHANGED tank

ThrottleEnds == fresh /\ fresh' = FALSE
  /\ UNCHANGED <<tank, gauge, lowAlert, heard, broke, benched, dear, ep>>
HourPasses == lowAlert = "recent" /\ lowAlert' = "old"
  /\ UNCHANGED <<tank, gauge, fresh, heard, broke, benched, dear, ep>>
BenchEnds(m) == m \in benched /\ benched' = benched \ {m}
  /\ UNCHANGED <<tank, fuel, broke, dear, ep>>

\* record_stall at the third strike (module ModelCall), reported by any agent.
StallBench(m) ==
  /\ m \notin benched /\ \E r \in Range(Ladder) \ {m} : r \notin benched
  /\ benched' = benched \cup {m}
  /\ UNCHANGED <<tank, fuel, broke, dear, ep>>

\* refresh_seat_prices finds other prices.
Reprice(m) ==
  /\ dear' = IF m \in dear THEN dear \ {m} ELSE dear \cup {m}
  /\ UNCHANGED <<tank, fuel, broke, benched, ep>>

Spend  == tank > 0 /\ tank' = tank - 1
  /\ UNCHANGED <<fuel, broke, benched, dear, ep>>
Refill == tank < Full /\ tank' \in (tank + 1)..Full
  /\ UNCHANGED <<fuel, broke, benched, dear, ep>>

Init ==
  /\ tank \in 0..Full
  /\ gauge = Unread /\ fresh = FALSE /\ lowAlert = "never" /\ heard = FALSE
  /\ broke = FALSE /\ benched = {} /\ dear = {}
  /\ ep = NoEpisode

Turn ==
  \/ \E quiet \in BOOLEAN : Open(quiet)
  \/ NoReading \/ ReadTank
  \/ \E something \in BOOLEAN : Drain(something)
  \/ Answer
  \/ Bounce \/ Fail \/ Truncated

Next ==
  \/ Turn \/ Close \/ Reboot
  \/ ThrottleEnds \/ HourPasses
  \/ \E m \in Range(Ladder) : BenchEnds(m) \/ StallBench(m) \/ Reprice(m)
  \/ BenchEnds(Heart) \/ \E f \in Range(FreeSeats) : BenchEnds(f)
  \/ Spend \/ Refill

\* The loop never stands still: heartbeats open episodes, calls return, the
\* throttle runs out; and the account endpoint is not down for ever, so a loop
\* that comes by often enough gets a reading.
Fairness ==
  /\ WF_vars(Turn) /\ WF_vars(ThrottleEnds)
  /\ SF_vars(ReadTank)

Spec == Init /\ [][Next]_vars /\ Fairness

-----------------------------------------------------------------------------
(* Properties.                                                             *)

TypeOK ==
  /\ tank \in 0..Full /\ gauge \in 0..Full \cup {Unread}
  /\ fresh \in BOOLEAN /\ lowAlert \in {"never", "recent", "old"} /\ heard \in BOOLEAN
  /\ broke \in BOOLEAN /\ benched \subseteq Seats /\ dear \subseteq Range(Ladder)
  /\ ep \in [pc: {"closed", "top", "drain", "ask"}, seat: Seats]

\* Every dip below the floor is announced: when the gauge reads low, an alert
\* was filed since it last read at or above the floor - a refill and a second
\* dip within the hour included.
DipAnnounced == Low => heard

\* The emergency ends: once the tank stays at or above the floor, the company
\* does not stay on the emergency seat.
RefillRestores == <>[](tank >= Threshold) => <>[](~broke)

=============================================================================
