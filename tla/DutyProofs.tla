------------------------------ MODULE DutyProofs ------------------------------
(***************************************************************************)
(* What module Duty promises, for any catalog, ladder and crew: the shape  *)
(* of its variables, and what its parts keep - a low tank is announced, a  *)
(* failed routine is handed on, what a call of a model costs is bounded.    *)
(* The parts share no variable, so the proofs are about the parts, and a   *)
(* step of the whole is a step of one part and a stutter of the others.    *)
(***************************************************************************)
EXTENDS Duty, FiniteSetTheorems, WellFoundedInduction, TLAPS

LEMMA PartSteps ==
  ASSUME [Next]_vars
  PROVE  /\ [Routines!Next]_(Routines!routineVars)
         /\ [ModelCall!Next]_(ModelCall!vars)
         /\ [Seat!Next]_(Seat!vars)
<1>1. CASE RoutinesStep(Routines!Next)
  BY <1>1 DEF RoutinesStep, C, S, ModelCall!vars, Seat!vars
<1>2. CASE CallStep(ModelCall!Next)
  BY <1>2 DEF CallStep, R, S, Routines!routineVars, Seat!vars
<1>3. CASE SeatStep(Seat!Next)
  BY <1>3 DEF SeatStep, R, C, Routines!routineVars, ModelCall!vars
<1>4. CASE UNCHANGED vars
  BY <1>4 DEF vars, R, C, S, Routines!routineVars, ModelCall!vars, Seat!vars
<1> QED  BY <1>1, <1>2, <1>3, <1>4 DEF Next

LEMMA PartInits == Init => Routines!Init /\ ModelCall!Init /\ Seat!Init
  BY DEF Init

(* A set of natural numbers that is not empty has a smallest element.      *)
LEMMA NatMin ==
  ASSUME NEW T, T \subseteq Nat, T # {}
  PROVE  \E x \in T : \A y \in T : x <= y
<1>1. IsWellFoundedOn(OpToRel(<, Nat), Nat)
  BY NatLessThanWellFounded
<1>2. PICK x \in T : \A y \in T : ~(<<y, x>> \in OpToRel(<, Nat))
  BY <1>1, WFMin
<1>3. \A y \in T : ~(y < x)
  BY <1>2 DEF OpToRel
<1> QED  BY <1>3

-----------------------------------------------------------------------------
(* The seat of the CEO.                                                    *)

LEMMA TopRungIsSeat == ASSUME NEW b PROVE Seat!TopRung(b) \in Seat!Seats
<1> DEFINE fit == {i \in DOMAIN Ladder : Seat!Fits(Ladder[i], b)}
<1>1. CASE fit = {}
  BY <1>1 DEF Seat!TopRung, Seat!Seats
<1>2. CASE fit # {}
  <2>1. fit \subseteq Nat /\ fit \subseteq DOMAIN Ladder
    BY DutyAssumption DEF DutyAssumption, Seat!SeatAssumption
  <2>2. Seat!Min(fit) \in DOMAIN Ladder
    BY <1>2, <2>1, NatMin DEF Seat!Min
  <2> QED  BY <1>2, <2>2 DEF Seat!TopRung, Seat!Seats, Seat!Range
<1> QED  BY <1>1, <1>2

LEMMA PickIsSeat == ASSUME NEW b PROVE Seat!Pick(b) \in Seat!Seats
  BY TopRungIsSeat DEF Seat!Pick, Seat!Seats

LEMMA EmergencyIsSeat == ASSUME NEW m PROVE Seat!EmergencySeat(m) \in Seat!Seats
<1>1. FreeModels # <<>> => Head(FreeModels) \in Seat!Range(FreeModels)
  BY DutyAssumption DEF DutyAssumption, Seat!SeatAssumption, Seat!Range
<1> QED  BY <1>1 DEF Seat!EmergencySeat, Seat!Seats

(* An alert that the throttle still remembers was heard: the throttle is   *)
(* what could swallow the next one.                                        *)
SeatInv == Seat!TypeOK /\ Seat!DipAnnounced /\ (lowAlert # "never" => heard)

LEMMA Levels == Threshold \in Nat /\ Full \in Nat /\ Threshold > 0
  BY DutyAssumption DEF DutyAssumption, Seat!SeatAssumption

LEMMA NoEpisodeType ==
  Seat!NoEpisode \in [pc: {"closed", "top", "drain", "ask"}, seat: Seat!Seats]
  BY DEF Seat!NoEpisode, Seat!Seats

LEMMA SeatInit == Seat!Init => SeatInv
<1> SUFFICES ASSUME Seat!Init PROVE SeatInv
  OBVIOUS
<1>2. Seat!TypeOK
  BY NoEpisodeType, Levels DEF Seat!Init, Seat!TypeOK
<1>1. Seat!DipAnnounced /\ lowAlert = "never"
  BY DEF Seat!Init, Seat!DipAnnounced, Seat!Low
<1> QED  BY <1>1, <1>2 DEF SeatInv

LEMMA SeatStays == ASSUME SeatInv, [Seat!Next]_(Seat!vars) PROVE SeatInv'
<1> USE Levels DEF SeatInv, Seat!TypeOK, Seat!DipAnnounced, Seat!Low, Seat!Unread, Seat!fuel
<1>1. ASSUME NEW quiet \in BOOLEAN, Seat!Open(quiet) PROVE SeatInv'
  BY <1>1, PickIsSeat DEF Seat!Open, Seat!Seats
<1>2. CASE Seat!NoReading
  BY <1>2 DEF Seat!NoReading
<1>3. CASE Seat!ReadTank
  <2>1. /\ gauge' = tank /\ fresh' = TRUE /\ UNCHANGED <<tank, resting, dear>>
        /\ ep' = [ep EXCEPT !.pc = "drain"]
    BY <1>3 DEF Seat!ReadTank, Seat!Reading
  <2>2. CASE tank >= Threshold
    <3>1. lowAlert' = "never" /\ heard' = FALSE /\ broke' = FALSE
      BY <1>3, <2>2 DEF Seat!ReadTank, Seat!Reading
    <3>2. Seat!TypeOK'
      BY <2>1, <3>1
    <3>3. ~Seat!Low'
      BY <2>1, <2>2
    <3> QED  BY <3>1, <3>2, <3>3
  <2>3. CASE tank < Threshold
    <3>1. heard' = (heard \/ lowAlert # "recent") /\ lowAlert' = "recent" /\ broke' = broke
      BY <1>3, <2>3 DEF Seat!ReadTank, Seat!Reading
    <3>2. heard' = TRUE
      BY <3>1
    <3> QED  BY <2>1, <3>1, <3>2
  <2> QED  BY <2>2, <2>3
<1>4. ASSUME NEW something \in BOOLEAN, Seat!Drain(something) PROVE SeatInv'
  BY <1>4, PickIsSeat DEF Seat!Drain
<1>5. CASE Seat!Answer \/ Seat!Truncated
  BY <1>5 DEF Seat!Answer, Seat!Truncated
<1>6. CASE Seat!Bounce
  BY <1>6, EmergencyIsSeat DEF Seat!Bounce
<1>7. CASE Seat!Fail
  BY <1>7, PickIsSeat DEF Seat!Fail
<1>8. CASE Seat!Close \/ Seat!Reboot
  BY <1>8, NoEpisodeType DEF Seat!Close, Seat!Reboot
<1>9. CASE Seat!ThrottleEnds \/ Seat!HourPasses
  BY <1>9 DEF Seat!ThrottleEnds, Seat!HourPasses
<1>10. ASSUME NEW m \in Seat!Seats, Seat!BenchEnds(m) PROVE SeatInv'
  BY <1>10 DEF Seat!BenchEnds
<1>11. ASSUME NEW m \in Seat!Range(Ladder), Seat!StallBench(m) \/ Seat!Reprice(m) PROVE SeatInv'
  BY <1>11 DEF Seat!StallBench, Seat!Reprice, Seat!Seats
<1>12. CASE Seat!Spend \/ Seat!Refill
  BY <1>12 DEF Seat!Spend, Seat!Refill
<1>13. CASE UNCHANGED Seat!vars
  BY <1>13 DEF Seat!vars
<1> QED
  BY <1>1, <1>2, <1>3, <1>4, <1>5, <1>6, <1>7, <1>8, <1>9, <1>10, <1>11, <1>12, <1>13
     DEF Seat!Next, Seat!Turn, Seat!Seats

LEMMA SeatHolds == Spec => []SeatInv
  BY PartInits, PartSteps, SeatInit, SeatStays, PTL DEF Spec

(* Every dip of the tank below the floor is announced: a reading that is   *)
(* low finds an alert filed since the last reading that was not, whatever  *)
(* the hourly throttle, refills and reboots did in between (check_fuel).   *)
THEOREM DipAnnouncedHolds == Spec => []DipAnnounced
<1>1. SeatInv => DipAnnounced
  BY DEF SeatInv, DipAnnounced
<1> QED  BY <1>1, SeatHolds, PTL

-----------------------------------------------------------------------------
(* The routines.                                                           *)

RoutinesInv == Routines!TypeOK /\ Routines!AlertHandedOn

(* The three parts of the type invariant: the table and its runner, the    *)
(* agents and their tasks, and what became of the alerts.                  *)
RunnerOK ==
  /\ rows \in [Names -> Routines!Rows]
  /\ DOMAIN batch \subseteq Names /\ \A n \in DOMAIN batch : batch[n] \in Routines!Snap
  /\ pc \in {"asleep", "next", "running", "alerting"}
  /\ pc = "asleep" => DOMAIN batch = {}
  /\ IF pc \in {"running", "alerting"} THEN cur \in DOMAIN batch ELSE cur = NoOne
  /\ restarts \in 0 .. MaxRestarts

StaffOK ==
  /\ task \in [Agents -> {"none", "spawned", "working", "over"}]
  /\ carry \in [Agents -> Names \cup {NoOne}]
  /\ \A a \in Agents : carry[a] # NoOne => task[a] \in {"spawned", "over"}
  /\ Routines!inflight \subseteq employed /\ employed \subseteq Agents /\ elsewhere \subseteq Agents

AlertsOK == told \subseteq Names /\ dropped \subseteq Names

LEMMA TypeParts == Routines!TypeOK <=> RunnerOK /\ StaffOK /\ AlertsOK
  BY DEF Routines!TypeOK, RunnerOK, StaffOK, AlertsOK

LEMMA TypePartsNext == Routines!TypeOK' <=> RunnerOK' /\ StaffOK' /\ AlertsOK'
  BY DEF Routines!TypeOK, RunnerOK, StaffOK, AlertsOK

(* An alert that is out of the runner's hands.                             *)
Handed(n) == n \in told \/ n \in dropped \/ \E a \in Agents : carry[a] = n

LEMMA Crew == NoOne \notin Agents /\ NoOne \notin Names /\ MaxRestarts \in Nat
  BY DutyAssumption DEF DutyAssumption, Routines!RoutinesAssumption

LEMMA RowShapes ==
  /\ Routines!Gone \in Routines!Rows /\ ~Routines!Gone.on
  /\ Routines!New \in Routines!Rows /\ Routines!New.due /\ Routines!New.agent = NoOne
  /\ Routines!New.status = "clear"
  BY DEF Routines!Gone, Routines!New, Routines!Rows

LEMMA RoutinesInit == Routines!Init => RoutinesInv
<1> SUFFICES ASSUME Routines!Init PROVE RoutinesInv
  OBVIOUS
<1>1. Routines!TypeOK
  BY RowShapes, Crew DEF Routines!Init, Routines!TypeOK, Routines!None, Routines!inflight
<1>2. Routines!AlertHandedOn
  BY RowShapes DEF Routines!Init, Routines!AlertHandedOn, Routines!Shell
<1> QED  BY <1>1, <1>2 DEF RoutinesInv

(* A row that changes hands: nothing about its last run changes.           *)
LEMMA Rewritten ==
  ASSUME RoutinesInv, NEW n \in Names, NEW r \in Routines!Rows,
         rows' = [rows EXCEPT ![n] = r],
         r.status = "clear" \/ (rows[n].on /\ r.status = rows[n].status /\ r.due = rows[n].due
                                /\ (r.agent = NoOne => rows[n].agent = NoOne))
            \/ r.due \/ r.agent # NoOne,
         UNCHANGED <<batch, pc, cur, employed, task, carry, elsewhere, told, dropped, restarts>>
  PROVE  RoutinesInv'
<1>1. Routines!TypeOK'
  BY DEF RoutinesInv, Routines!TypeOK, Routines!inflight
<1>2. ASSUME NEW m \in Names, Routines!Shell(m)', rows'[m].status = "ALERT"
      PROVE  Handed(m) \/ rows'[m].due \/ (pc = "alerting" /\ cur = m)
  BY <1>2 DEF RoutinesInv, Routines!TypeOK, Routines!AlertHandedOn, Routines!Shell, Handed
<1> QED  BY <1>1, <1>2 DEF RoutinesInv, Routines!AlertHandedOn, Handed

(* Steps of the tasks.  An alert that is handed on stays so.               *)
LEMMA HandedOn ==
  ASSUME RoutinesInv, RunnerOK', StaffOK', AlertsOK', UNCHANGED <<rows, batch, pc, cur>>,
         \A n \in Names : Handed(n) => Handed(n)'
  PROVE  RoutinesInv'
<1>1. ASSUME NEW m \in Names, Routines!Shell(m)', rows'[m].status = "ALERT"
      PROVE  Handed(m)' \/ rows'[m].due \/ (pc' = "alerting" /\ cur' = m)
  BY <1>1 DEF RoutinesInv, Routines!AlertHandedOn, Routines!Shell, Handed
<1> QED  BY <1>1, TypePartsNext DEF RoutinesInv, Routines!AlertHandedOn, Handed

(* A dispatch: a task that nobody had, with the alert it was given.        *)
LEMMA DispatchKeeps ==
  ASSUME StaffOK, NEW a \in Agents \cup {NoOne}, NEW n \in Names \cup {NoOne},
         Routines!Dispatched(a, n), UNCHANGED <<employed, elsewhere>>
  PROVE  /\ StaffOK'
         /\ \A m \in Names : (\E b \in Agents : carry[b] = m) => (\E b \in Agents : carry'[b] = m)
         /\ Routines!Free(a) => a \in Agents /\ carry'[a] = n
<1>1. CASE Routines!Free(a)
  <2>1. a \in Agents /\ a \in employed /\ task[a] = "none"
    BY <1>1 DEF Routines!Free, Routines!inflight, StaffOK
  <2>2. task' = [task EXCEPT ![a] = "spawned"] /\ carry' = [carry EXCEPT ![a] = n]
    BY <1>1 DEF Routines!Dispatched
  <2>3. StaffOK'
    BY <2>1, <2>2 DEF StaffOK, Routines!inflight
  <2>4. carry[a] = NoOne
    BY <2>1 DEF StaffOK
  <2>5. \A b \in Agents : carry[b] # NoOne => carry'[b] = carry[b]
    BY <2>1, <2>2, <2>4 DEF StaffOK
  <2>6. carry'[a] = n
    BY <2>1, <2>2 DEF StaffOK
  <2> QED  BY <2>1, <2>3, <2>5, <2>6, Crew
<1>2. CASE ~Routines!Free(a)
  BY <1>2 DEF Routines!Dispatched, StaffOK, Routines!inflight
<1> QED  BY <1>1, <1>2

(* Begin, the end of a task, its report and its cancelling.                *)
LEMMA TaskKeeps ==
  ASSUME RoutinesInv, NEW a \in Agents,
         \/ Routines!Begin(a) \/ Routines!Refused(a) \/ Routines!Finish(a) \/ Routines!Report(a)
         \/ Routines!Engage(a) \/ Routines!Delegate(a) \/ Routines!Release(a)
         \/ Routines!Hire(a) \/ Routines!Fire(a)
  PROVE  RoutinesInv'
<1> USE DEF Routines!Quiet, Routines!Runner, Routines!Tasks
<1>1. RunnerOK /\ StaffOK /\ AlertsOK
  BY TypeParts DEF RoutinesInv
<1>2. UNCHANGED <<rows, batch, pc, cur, restarts>>
  BY DEF Routines!Begin, Routines!Refused, Routines!Finish, Routines!Report, Routines!Engage,
     Routines!Delegate, Routines!Release, Routines!Hire, Routines!Fire
<1>3. RunnerOK'
  BY <1>1, <1>2 DEF RunnerOK
<1>4. CASE Routines!Begin(a) \/ Routines!Report(a) \/ Routines!Fire(a)
  <2>1. /\ task' \in [Agents -> {"none", "working"} \cup {task[b] : b \in Agents}]
        /\ \A b \in Agents : b # a => task'[b] = task[b]
        /\ (task'[a] = "working" /\ task[a] = "spawned") \/ task'[a] = "none"
        /\ carry' = [carry EXCEPT ![a] = NoOne]
        /\ \/ UNCHANGED employed
           \/ employed' = employed \ {a} /\ task'[a] = "none"
        /\ elsewhere' \in {elsewhere, elsewhere \cup {a}}
        /\ \/ told' = told \cup ({carry[a]} \cap Names) /\ UNCHANGED dropped
           \/ dropped' = dropped \cup ({carry[a]} \cap Names) /\ UNCHANGED told
    BY <1>1, <1>4 DEF Routines!Begin, Routines!Report, Routines!Fire, Routines!Heard,
       Routines!Unread, StaffOK
  <2>2. StaffOK'
    <3>1. task' \in [Agents -> {"none", "spawned", "working", "over"}]
      BY <1>1, <2>1 DEF StaffOK
    <3>2. carry' \in [Agents -> Names \cup {NoOne}]
          /\ \A b \in Agents : carry'[b] # NoOne => b # a /\ carry'[b] = carry[b]
      BY <1>1, <2>1 DEF StaffOK
    <3>3. Routines!inflight' \subseteq employed'
      BY <1>1, <2>1 DEF StaffOK, Routines!inflight
    <3> QED  BY <1>1, <2>1, <3>1, <3>2, <3>3 DEF StaffOK
  <2>3. AlertsOK'
    BY <1>1, <2>1 DEF AlertsOK
  <2>4. ASSUME NEW n \in Names, Handed(n) PROVE Handed(n)'
    <3>1. CASE n \in told \/ n \in dropped
      BY <2>1, <3>1 DEF Handed
    <3>2. CASE \E b \in Agents : carry[b] = n
      <4>1. PICK b \in Agents : carry[b] = n
        BY <3>2
      <4>2. CASE b = a
        BY <2>1, <4>1, <4>2 DEF Handed
      <4>3. CASE b # a
        BY <1>1, <2>1, <4>1, <4>3 DEF Handed, StaffOK
      <4> QED  BY <4>2, <4>3
    <3> QED  BY <2>4, <3>1, <3>2 DEF Handed
  <2> QED  BY <1>2, <1>3, <2>2, <2>3, <2>4, HandedOn
<1>5. CASE Routines!Refused(a) \/ Routines!Finish(a)
  <2>1. /\ task' = [task EXCEPT ![a] = "over"] /\ task[a] \in {"spawned", "working"}
        /\ UNCHANGED <<employed, carry, elsewhere, told, dropped>>
    BY <1>5 DEF Routines!Refused, Routines!Finish
  <2>2. StaffOK' /\ AlertsOK'
    BY <1>1, <2>1 DEF StaffOK, AlertsOK, Routines!inflight
  <2> QED  BY <1>2, <1>3, <2>1, <2>2, HandedOn DEF Handed
<1>6. CASE Routines!Engage(a)
  <2>1. /\ task' = [task EXCEPT ![a] = "spawned"] /\ a \in employed /\ task[a] = "none"
        /\ UNCHANGED <<employed, carry, elsewhere, told, dropped>>
    BY <1>6 DEF Routines!Engage, Routines!Free, Routines!inflight
  <2>2. StaffOK' /\ AlertsOK'
    BY <1>1, <2>1 DEF StaffOK, AlertsOK, Routines!inflight
  <2> QED  BY <1>2, <1>3, <2>1, <2>2, HandedOn DEF Handed
<1>7. CASE Routines!Delegate(a) \/ Routines!Release(a) \/ Routines!Hire(a)
  <2>1. /\ UNCHANGED <<task, carry, told, dropped>>
        /\ elsewhere' \subseteq elsewhere \cup {a} /\ employed' \in {employed, employed \cup {a}}
    BY <1>7 DEF Routines!Delegate, Routines!Release, Routines!Hire
  <2>2. StaffOK' /\ AlertsOK'
    BY <1>1, <2>1 DEF StaffOK, AlertsOK, Routines!inflight
  <2> QED  BY <1>2, <1>3, <2>1, <2>2, HandedOn DEF Handed
<1> QED  BY <1>4, <1>5, <1>6, <1>7

(* Steps of the runner: the rows it marks.                                 *)
LEMMA MarkedRows ==
  ASSUME Routines!TypeOK, NEW n \in Names, NEW status \in {"clear", "ALERT"},
         rows' = Routines!Marked(n, status)
  PROVE  /\ rows' \in [Names -> Routines!Rows]
         /\ \A m \in Names : m # n => rows'[m] = rows[m]
         /\ Routines!Shell(n)' => rows'[n].status = status
<1>1. rows[n] \in Routines!Rows
  BY DEF Routines!TypeOK
<1>2. [rows[n] EXCEPT !.due = FALSE, !.status = status] \in Routines!Rows
  BY <1>1 DEF Routines!Rows
<1>3. rows' = [rows EXCEPT ![n] = IF rows[n].on
                  THEN [rows[n] EXCEPT !.due = FALSE, !.status = status] ELSE rows[n]]
  BY DEF Routines!Marked
<1> QED  BY <1>1, <1>2, <1>3 DEF Routines!TypeOK, Routines!Shell, Routines!Rows

LEMMA BatchShrinks ==
  ASSUME Routines!TypeOK, NEW n \in DOMAIN batch, batch' = Routines!Without(n)
  PROVE  DOMAIN batch' \subseteq Names /\ \A m \in DOMAIN batch' : batch'[m] \in Routines!Snap
  BY DEF Routines!TypeOK, Routines!Without

LEMMA ReviewKeeps ==
  ASSUME RoutinesInv, NEW n \in Names, Routines!Review(n) PROVE RoutinesInv'
<1> DEFINE a      == batch[n].agent
           status == IF a \in employed THEN "clear" ELSE "ALERT"
<1>1. /\ n \in DOMAIN batch /\ a \in Agents \cup {NoOne} /\ pc = "next"
      /\ Routines!Dispatched(a, NoOne)
      /\ told' = (IF a \in employed THEN told ELSE told \cup {n})
      /\ rows' = Routines!Marked(n, status) /\ batch' = Routines!Without(n)
      /\ UNCHANGED <<pc, cur, employed, elsewhere, dropped, restarts>>
  BY DEF Routines!Review, RoutinesInv, Routines!TypeOK, Routines!Snap
<1>6. RunnerOK /\ StaffOK /\ AlertsOK
  BY TypeParts DEF RoutinesInv
<1>2. status \in {"clear", "ALERT"} /\ (status = "ALERT" => n \in told')
  BY <1>1
<1>3. /\ rows' \in [Names -> Routines!Rows]
      /\ \A m \in Names : m # n => rows'[m] = rows[m]
      /\ Routines!Shell(n)' => rows'[n].status = status
  BY <1>1, <1>2, MarkedRows DEF RoutinesInv
<1>7. /\ StaffOK'
      /\ \A m \in Names : (\E b \in Agents : carry[b] = m) => (\E b \in Agents : carry'[b] = m)
  BY <1>1, <1>6, DispatchKeeps
<1>4. RunnerOK' /\ AlertsOK'
  BY <1>1, <1>3, <1>6, BatchShrinks DEF RoutinesInv, RunnerOK, AlertsOK
<1>8. \A m \in Names : Handed(m) => Handed(m)'
  BY <1>1, <1>7 DEF Handed
<1>5. ASSUME NEW m \in Names, Routines!Shell(m)', rows'[m].status = "ALERT"
      PROVE  Handed(m)' \/ rows'[m].due
  <2>1. CASE m = n
    BY <1>2, <1>3, <1>5, <2>1 DEF Handed
  <2>2. CASE m # n
    <3>1. Routines!Shell(m) /\ rows[m].status = "ALERT" /\ rows'[m] = rows[m]
      BY <1>3, <1>5, <2>2 DEF Routines!Shell
    <3>2. Handed(m) \/ rows[m].due
      BY <1>1, <3>1 DEF RoutinesInv, Routines!AlertHandedOn, Handed
    <3> QED  BY <1>8, <3>1, <3>2
  <2> QED  BY <2>1, <2>2
<1> QED  BY <1>4, <1>5, <1>7, TypePartsNext DEF RoutinesInv, Routines!AlertHandedOn, Handed

(* The run of a routine ends: its last alert is forgotten, no other.       *)
LEMMA ForgetKeeps ==
  ASSUME StaffOK, AlertsOK, NEW n, Routines!Forget(n), UNCHANGED <<employed, task, elsewhere>>
  PROVE  /\ StaffOK' /\ AlertsOK'
         /\ \A m \in Names : m # n /\ Handed(m) => Handed(m)'
<1>1. /\ told' = told \ {n} /\ dropped' = dropped \ {n}
      /\ carry' = [a \in Agents |-> IF carry[a] = n THEN NoOne ELSE carry[a]]
  BY DEF Routines!Forget
<1>2. StaffOK' /\ AlertsOK'
  BY <1>1 DEF StaffOK, AlertsOK, Routines!inflight
<1>3. ASSUME NEW m \in Names, m # n, Handed(m) PROVE Handed(m)'
  BY <1>1, <1>3 DEF Handed
<1> QED  BY <1>2, <1>3

LEMMA ShellKeeps ==
  ASSUME RoutinesInv, Routines!ShellOk \/ Routines!ShellFails PROVE RoutinesInv'
<1>1. cur \in DOMAIN batch /\ cur \in Names /\ RunnerOK /\ StaffOK /\ AlertsOK
  BY TypeParts DEF RoutinesInv, RunnerOK, Routines!ShellOk, Routines!ShellFails
<1> PICK n \in Names : n = cur
  BY <1>1
<1> PICK status \in {"clear", "ALERT"} :
       status = IF Routines!ShellOk THEN "clear" ELSE "ALERT"
  OBVIOUS
<1>2. /\ rows' = Routines!Marked(n, status) /\ Routines!Forget(n) /\ pc = "running"
      /\ UNCHANGED <<employed, task, elsewhere, restarts>>
      /\ \/ status = "clear" /\ pc' = "next" /\ cur' = NoOne /\ batch' = Routines!Without(n)
         \/ pc' = "alerting" /\ cur' = n /\ UNCHANGED batch
  BY DEF Routines!ShellOk, Routines!ShellFails
<1>3. /\ rows' \in [Names -> Routines!Rows]
      /\ \A m \in Names : m # n => rows'[m] = rows[m]
      /\ Routines!Shell(n)' => rows'[n].status = status
  BY <1>2, MarkedRows DEF RoutinesInv
<1>4. StaffOK' /\ AlertsOK' /\ \A m \in Names : m # n /\ Handed(m) => Handed(m)'
  BY <1>1, <1>2, ForgetKeeps
<1>5. RunnerOK'
  BY <1>1, <1>2, <1>3, BatchShrinks DEF RoutinesInv, RunnerOK
<1>6. ASSUME NEW m \in Names, Routines!Shell(m)', rows'[m].status = "ALERT"
      PROVE  Handed(m)' \/ rows'[m].due \/ (pc' = "alerting" /\ cur' = m)
  <2>1. CASE m = n
    BY <1>2, <1>3, <1>6, <2>1
  <2>2. CASE m # n
    <3>1. Routines!Shell(m) /\ rows[m].status = "ALERT" /\ rows'[m] = rows[m]
      BY <1>3, <1>6, <2>2 DEF Routines!Shell
    <3>2. Handed(m) \/ rows[m].due
      BY <1>2, <3>1 DEF RoutinesInv, Routines!AlertHandedOn, Handed
    <3> QED  BY <1>4, <2>2, <3>1, <3>2
  <2> QED  BY <2>1, <2>2
<1> QED  BY <1>4, <1>5, <1>6, TypePartsNext DEF RoutinesInv, Routines!AlertHandedOn, Handed

LEMMA TellKeeps == ASSUME RoutinesInv, Routines!Tell PROVE RoutinesInv'
<1> DEFINE owner == batch[cur].owner
<1>4. RunnerOK /\ StaffOK /\ AlertsOK
  BY TypeParts DEF RoutinesInv
<1>1. /\ cur \in DOMAIN batch /\ cur \in Names /\ pc = "alerting"
      /\ owner \in Agents \cup {NoOne}
      /\ Routines!Dispatched(owner, cur)
      /\ told' = (IF Routines!Free(owner) THEN told ELSE told \cup {cur})
      /\ batch' = Routines!Without(cur) /\ pc' = "next" /\ cur' = NoOne
      /\ UNCHANGED <<rows, employed, elsewhere, dropped, restarts>>
  BY <1>4 DEF RunnerOK, Routines!Snap, Routines!Tell
<1> PICK n \in Names : n = cur
  BY <1>1
<1>2. /\ StaffOK'
      /\ \A m \in Names : (\E b \in Agents : carry[b] = m) => (\E b \in Agents : carry'[b] = m)
      /\ Routines!Free(owner) => owner \in Agents /\ carry'[owner] = n
  <2> HIDE DEF owner
  <2> QED  BY <1>1, <1>4, DispatchKeeps
<1>3. RunnerOK' /\ AlertsOK'
  BY <1>1, <1>4, BatchShrinks DEF RoutinesInv, RunnerOK, AlertsOK
<1>5. \A m \in Names : Handed(m) => Handed(m)'
  BY <1>1, <1>2 DEF Handed
<1>6. Handed(n)'
  BY <1>1, <1>2 DEF Handed
<1>7. ASSUME NEW m \in Names, Routines!Shell(m)', rows'[m].status = "ALERT"
      PROVE  Handed(m)' \/ rows'[m].due
  BY <1>1, <1>5, <1>6, <1>7 DEF RoutinesInv, Routines!AlertHandedOn, Routines!Shell, Handed
<1> QED  BY <1>2, <1>3, <1>7, TypePartsNext DEF RoutinesInv, Routines!AlertHandedOn, Handed

LEMMA RestartKeeps == ASSUME RoutinesInv, Routines!Restart PROVE RoutinesInv'
<1>1. /\ batch' = Routines!None /\ pc' = "asleep" /\ cur' = NoOne /\ elsewhere' = {}
      /\ task' = [a \in Agents |-> "none"] /\ carry' = [a \in Agents |-> NoOne]
      /\ restarts' = restarts + 1 /\ restarts < MaxRestarts /\ UNCHANGED <<employed, told, dropped>>
      /\ rows' = [n \in Names |-> IF Routines!Shell(n) THEN [rows[n] EXCEPT !.due = TRUE]
                                  ELSE rows[n]]
  BY DEF Routines!Restart, Routines!Ended, Routines!Alerts
<1>5. RunnerOK /\ StaffOK /\ AlertsOK
  BY TypeParts DEF RoutinesInv
<1>2. ASSUME NEW n \in Names
      PROVE  /\ rows'[n] \in Routines!Rows
             /\ Routines!Shell(n)' => rows'[n].due
  <2>1. rows[n] \in Routines!Rows
    BY <1>5 DEF RunnerOK
  <2>2. CASE Routines!Shell(n)
    BY <1>1, <2>1, <2>2 DEF Routines!Rows
  <2>3. CASE ~Routines!Shell(n)
    BY <1>1, <2>1, <2>3 DEF Routines!Shell
  <2> QED  BY <2>2, <2>3
<1>3. rows' \in [Names -> Routines!Rows]
  BY <1>1, <1>2
<1>4. RunnerOK'
  BY <1>1, <1>3, <1>5, Crew DEF RunnerOK, Routines!None
<1>6. StaffOK' /\ AlertsOK'
  BY <1>1, <1>5 DEF StaffOK, AlertsOK, Routines!inflight
<1> QED  BY <1>2, <1>4, <1>6, TypePartsNext DEF RoutinesInv, Routines!AlertHandedOn

LEMMA RoutinesStays ==
  ASSUME RoutinesInv, [Routines!Next]_(Routines!routineVars) PROVE RoutinesInv'
<1> USE DEF Routines!Staff, Routines!Runner, Routines!Tasks, Routines!Alerts
<1>10. RunnerOK /\ StaffOK /\ AlertsOK
  BY TypeParts DEF RoutinesInv
<1>1. ASSUME NEW n \in Names, NEW a \in Agents \cup {NoOne},
             Routines!AddRoutine(n, a) \/ Routines!OwnRoutine(n, a)
      PROVE  RoutinesInv'
  <2> DEFINE base == IF rows[n].on THEN rows[n] ELSE Routines!New
             r    == [base EXCEPT !.owner = a]
  <2>1. base \in Routines!Rows
    BY RowShapes DEF RoutinesInv, Routines!TypeOK
  <2>2. /\ r \in Routines!Rows /\ r.status = base.status /\ r.due = base.due
        /\ r.agent = base.agent
    BY <2>1 DEF Routines!Rows
  <2>3. rows' = [rows EXCEPT ![n] = r]
    BY <1>1 DEF Routines!AddRoutine, Routines!OwnRoutine
  <2>4. UNCHANGED <<batch, pc, cur, employed, task, carry, elsewhere, told, dropped, restarts>>
    BY <1>1 DEF Routines!AddRoutine, Routines!OwnRoutine
  <2>5. r.status = "clear" \/ (rows[n].on /\ r.status = rows[n].status /\ r.due = rows[n].due
                                /\ (r.agent = NoOne => rows[n].agent = NoOne))
    BY <2>2, RowShapes
  <2> HIDE DEF r
  <2> QED  BY <2>2, <2>3, <2>4, <2>5, Rewritten
<1>2. ASSUME NEW n \in Names, NEW a \in Agents, Routines!AddReview(n, a) PROVE RoutinesInv'
  <2> DEFINE base == IF rows[n].on THEN rows[n] ELSE Routines!New
             r    == [base EXCEPT !.agent = a]
  <2>1. base \in Routines!Rows
    BY RowShapes DEF RoutinesInv, Routines!TypeOK
  <2>2. r \in Routines!Rows /\ r.agent # NoOne
    BY <2>1, DutyAssumption DEF Routines!Rows, DutyAssumption, Routines!RoutinesAssumption
  <2>3. rows' = [rows EXCEPT ![n] = r]
        /\ UNCHANGED <<batch, pc, cur, employed, task, carry, elsewhere, told, dropped, restarts>>
    BY <1>2 DEF Routines!AddReview
  <2> HIDE DEF r
  <2> QED  BY <2>2, <2>3, Rewritten
<1>3. ASSUME NEW n \in Names, Routines!RemoveRoutine(n) PROVE RoutinesInv'
  <2>1. /\ rows' = [rows EXCEPT ![n] = Routines!Gone] /\ Routines!Forget(n)
        /\ UNCHANGED <<batch, pc, cur, employed, task, elsewhere, restarts>>
    BY <1>3 DEF Routines!RemoveRoutine
  <2>2. StaffOK' /\ AlertsOK' /\ \A m \in Names : m # n /\ Handed(m) => Handed(m)'
    BY <1>10, <2>1, ForgetKeeps
  <2>3. RunnerOK' /\ ~Routines!Shell(n)'
        /\ \A m \in Names : m # n => rows'[m] = rows[m]
    BY <1>10, <2>1, RowShapes DEF RunnerOK, Routines!Shell
  <2>4. ASSUME NEW m \in Names, Routines!Shell(m)', rows'[m].status = "ALERT"
        PROVE  Handed(m)' \/ rows'[m].due \/ (pc' = "alerting" /\ cur' = m)
    <3>1. m # n /\ rows'[m] = rows[m] /\ Routines!Shell(m)
      BY <2>3, <2>4 DEF Routines!Shell
    <3>2. Handed(m) \/ rows[m].due \/ (pc = "alerting" /\ cur = m)
      BY <2>4, <3>1 DEF RoutinesInv, Routines!AlertHandedOn, Handed
    <3> QED  BY <2>1, <2>2, <3>1, <3>2
  <2> QED  BY <2>2, <2>3, <2>4, TypePartsNext DEF RoutinesInv, Routines!AlertHandedOn, Handed
<1>4. ASSUME NEW n \in Names, Routines!Elapse(n) PROVE RoutinesInv'
  <2> DEFINE r == [rows[n] EXCEPT !.due = TRUE]
  <2>1. r \in Routines!Rows /\ r.due
    BY DEF Routines!Rows, RoutinesInv, Routines!TypeOK
  <2>2. rows' = [rows EXCEPT ![n] = r]
        /\ UNCHANGED <<batch, pc, cur, employed, task, carry, elsewhere, told, dropped, restarts>>
    BY <1>4 DEF Routines!Elapse
  <2> HIDE DEF r
  <2> QED  BY <2>1, <2>2, Rewritten
<1>5. CASE Routines!Wake \/ Routines!Sleep \/ (\E n \in Names : Routines!StartShell(n))
  <2>1. /\ UNCHANGED <<rows, employed, task, carry, elsewhere, told, dropped, restarts>>
        /\ pc # "alerting"
    BY <1>5 DEF Routines!Wake, Routines!Sleep, Routines!StartShell
  <2>2. RunnerOK'
    BY <1>5, <1>10 DEF Routines!Wake, Routines!Sleep, Routines!StartShell, RunnerOK,
       Routines!Due, Routines!Rows, Routines!Snap
  <2>3. StaffOK' /\ AlertsOK'
    BY <1>10, <2>1 DEF StaffOK, AlertsOK, Routines!inflight
  <2> QED
    BY <2>1, <2>2, <2>3, TypePartsNext DEF RoutinesInv, Routines!AlertHandedOn, Routines!Shell
<1>9. CASE UNCHANGED Routines!routineVars
  BY <1>9 DEF Routines!routineVars, RoutinesInv, Routines!TypeOK, Routines!AlertHandedOn,
     Routines!Shell, Routines!inflight
<1> QED
  BY <1>1, <1>2, <1>3, <1>4, <1>5, <1>9, ReviewKeeps, ShellKeeps, TellKeeps, TaskKeeps,
     RestartKeeps DEF Routines!Next, Routines!Tick

LEMMA RoutinesHolds == Spec => []RoutinesInv
  BY PartInits, PartSteps, RoutinesInit, RoutinesStays, PTL DEF Spec

(* No alert is lost on its way: what a shell routine's failed run left in  *)
(* the table was heard, by its owner in a run that began or by the CEO, or *)
(* a task still brings it, turned away or not, or it is about to be handed *)
(* on, or the routine is due again, or it went with the task of an owner   *)
(* who was fired - wherever a crash fell, whoever ran the owner meanwhile  *)
(* and whoever removed, re-owned or re-made the routine (routines::serve). *)
THEOREM AlertHandedOnHolds == Spec => []AlertHandedOn
<1>1. RoutinesInv => AlertHandedOn
  BY DEF RoutinesInv, AlertHandedOn
<1> QED  BY <1>1, RoutinesHolds, PTL

-----------------------------------------------------------------------------
(* One call of a model.                                                    *)

LEMMA Bounds ==
  /\ Attempts \in Nat \ {0} /\ Rungs \in Nat \ {0} /\ Strikes \in Nat \ {0}
  /\ MaxCeiling \in Nat \ {0} /\ FreeCap \in Nat \ {0}
  /\ Range(Ladder) \subseteq ModelCall!Models
  BY DutyAssumption DEF DutyAssumption, ModelCall!CallAssumption

(* Behind a rung of a ladder only models stand.                            *)
LEMMA LadderIsOfModels ==
  ASSUME NEW m \in ModelCall!Models
  PROVE  /\ ModelCall!LadderOf(m) \in Seq(ModelCall!Models)
         /\ ModelCall!RungCount(m) \in 0 .. Rungs
         /\ ModelCall!RungCount(m) <= Len(ModelCall!LadderOf(m))
<1>1. /\ FreeModels \in Seq(ModelCall!Range(FreeModels))
      /\ PaidModels \in Seq(ModelCall!Range(PaidModels))
  BY DutyAssumption DEF DutyAssumption, ModelCall!CallAssumption
<1>2. FreeModels \in Seq(ModelCall!Models) /\ PaidModels \in Seq(ModelCall!Models)
  BY <1>1 DEF ModelCall!Models
<1>3. ModelCall!LadderOf(m) \in Seq(ModelCall!Models)
  BY <1>2 DEF ModelCall!LadderOf
<1>4. Len(ModelCall!LadderOf(m)) \in Nat
  BY <1>3
<1> QED  BY <1>3, <1>4, Bounds DEF ModelCall!RungCount

(* The places of the ladder a call has been to, its primary aside.         *)
Tried(m, r) == {i \in 1..r : ModelCall!LadderOf(m)[i] # m}

LEMMA TriedIsFinite ==
  ASSUME NEW m, NEW r \in Nat
  PROVE  IsFiniteSet(Tried(m, r)) /\ Cardinality(Tried(m, r)) \in Nat
<1>1. IsFiniteSet(1 .. r) /\ Tried(m, r) \subseteq 1 .. r
  BY FS_Interval DEF Tried
<1> QED  BY <1>1, FS_Subset, FS_CardinalityType

LEMMA ModelsTriedIs ==
  ASSUME NEW t PROVE ModelCall!ModelsTried(t) = 1 + Cardinality(Tried(t.want, t.rung))
  BY DEF ModelCall!ModelsTried, ModelCall!Cardinality, Cardinality, Tried

(* The next rung is a place the call has not been to.                      *)
LEMMA NextRung ==
  ASSUME NEW m \in ModelCall!Models, NEW r \in Nat, ModelCall!RungsBehind(m, r) # {}
  PROVE  LET n == ModelCall!Min(ModelCall!RungsBehind(m, r))
         IN  /\ n \in 1 .. Rungs /\ ModelCall!LadderOf(m)[n] \in ModelCall!Models
             /\ Cardinality(Tried(m, n)) >= Cardinality(Tried(m, r)) + 1
<1> DEFINE left == ModelCall!RungsBehind(m, r)
           n    == ModelCall!Min(left)
<1>1. left \subseteq Nat
  BY LadderIsOfModels, Bounds DEF ModelCall!RungsBehind
<1>2. n \in left
  BY <1>1, NatMin DEF ModelCall!Min
<1>3. n \in r + 1 .. ModelCall!RungCount(m) /\ ModelCall!LadderOf(m)[n] # m /\ n \in Nat
  BY <1>1, <1>2 DEF ModelCall!RungsBehind
<1> HIDE DEF n, left
<1>4. n \in 1 .. Rungs /\ n \in DOMAIN ModelCall!LadderOf(m)
  BY <1>3, LadderIsOfModels, Bounds
<1>5. ModelCall!LadderOf(m)[n] \in ModelCall!Models
  BY <1>4, LadderIsOfModels
<1>6. Tried(m, r) \cup {n} \subseteq Tried(m, n) /\ n \notin Tried(m, r)
  BY <1>3 DEF Tried
<1>7. Cardinality(Tried(m, r) \cup {n}) = Cardinality(Tried(m, r)) + 1
  BY <1>6, TriedIsFinite, FS_AddElement
<1>8. Cardinality(Tried(m, r) \cup {n}) <= Cardinality(Tried(m, n))
  BY <1>3, <1>6, TriedIsFinite, FS_Subset
<1>9. QED
  BY <1>4, <1>5, <1>7, <1>8, <1>3, TriedIsFinite DEF n, left

(* The models a call has left behind, and what it paid for so far.         *)
Left(t)  == Cardinality(Tried(t.want, t.rung))
Spent(t) == t.bought + t.cut

(* While a model is asked the code knows of nothing it sold: what it knows *)
(* was bought, was bought from models the call has left.  And no request   *)
(* paid for more than one fill: at most Attempts at each model left, and   *)
(* at the one that is asked those before the request that is out.          *)
CallOk(t) ==
  /\ t \in ModelCall!Calls
  /\ t.pc # "silent" => /\ {t.want, t.now} \subseteq ModelCall!Models
                        /\ t.bought <= Left(t)
                        /\ Spent(t) <= Attempts * Left(t) + (IF t.pc = "wait" THEN t.sent - 1 ELSE 0)
  /\ t.pc = "wait" => t.sent > 0

(* The same when that request is answered, if only by a bill.              *)
Replied(t) ==
  /\ t \in ModelCall!Calls /\ {t.want, t.now} \subseteq ModelCall!Models
  /\ t.pc = "wait" /\ t.bought <= Left(t) /\ Spent(t) <= Attempts * Left(t) + t.sent

LEMMA LeftIsNat == ASSUME NEW t \in ModelCall!Calls PROVE Left(t) \in Nat /\ Spent(t) \in Nat
  BY TriedIsFinite, Bounds DEF Left, Spent, ModelCall!Calls

LEMMA BillSteps ==
  ASSUME NEW n \in Nat
  PROVE  /\ Attempts * n \in Nat /\ Attempts * (n + 1) = Attempts * n + Attempts
         /\ \A m \in Nat : m >= n => Attempts * m >= Attempts * n
<1> USE Bounds
<1>1. ASSUME NEW m \in Nat, m >= n PROVE Attempts * m >= Attempts * n
  <2>1. PICK d \in Nat : m = n + d
    BY <1>1
  <2>2. Attempts * m = Attempts * n + Attempts * d /\ Attempts * d \in Nat
    BY <2>1
  <2> QED  BY <2>2
<1> QED  BY <1>1

CallInv == ModelCall!TypeOK /\ \A s \in Speakers : CallOk(talk[s])

LEMMA SilentOk == CallOk(ModelCall!Silent)
  BY Bounds DEF CallOk, ModelCall!Silent, ModelCall!Calls

LEMMA CallInit == ModelCall!Init => CallInv
  BY SilentOk, Bounds DEF ModelCall!Init, CallInv, ModelCall!TypeOK, CallOk

(* A step that sets one call and leaves the shared records in their types. *)
LEMMA CallSet ==
  ASSUME CallInv, NEW s \in Speakers, NEW t, CallOk(t), talk' = [talk EXCEPT ![s] = t],
         cooling' \subseteq ModelCall!Models, freeUsed' \in 0 .. FreeCap,
         benched' \subseteq ModelCall!Models, strikes' \in [ModelCall!Models -> 0 .. Strikes]
  PROVE  CallInv'
  BY DEF CallInv, ModelCall!TypeOK, CallOk

LEMMA StallTypes ==
  ASSUME CallInv, NEW m \in ModelCall!Models, ModelCall!RecordStall(m) \/ ModelCall!NoStall
  PROVE  benched' \subseteq ModelCall!Models /\ strikes' \in [ModelCall!Models -> 0 .. Strikes]
<1>1. strikes[m] \in 0 .. Strikes
  BY DEF CallInv, ModelCall!TypeOK
<1>2. CASE ModelCall!RecordStall(m)
  BY <1>1, <1>2, Bounds DEF CallInv, ModelCall!TypeOK, ModelCall!RecordStall
<1>3. CASE ModelCall!NoStall
  BY <1>3 DEF CallInv, ModelCall!TypeOK, ModelCall!NoStall
<1> QED  BY <1>2, <1>3

(* A call that leaves its model may know of one answer it bought there,    *)
(* and paid at most for its attempts.                                      *)
LEMMA GoneKeeps ==
  ASSUME CallInv, NEW s \in Speakers, NEW t \in ModelCall!Calls, t.want \in ModelCall!Models,
         t.bought <= Left(t) + 1, Spent(t) <= Attempts * (Left(t) + 1),
         NEW st \in BOOLEAN, NEW tr \in BOOLEAN, NEW sl \in BOOLEAN,
         ModelCall!Gone(s, t, st, tr, sl),
         cooling' \subseteq ModelCall!Models, freeUsed' \in 0 .. FreeCap
  PROVE  CallInv'
<1> DEFINE left == ModelCall!RungsBehind(t.want, t.rung)
           n    == ModelCall!Min(left)
           next == ModelCall!AskRung(t, n)
<1>1. t.rung \in Nat /\ t.bought \in Nat /\ Left(t) \in Nat /\ Spent(t) \in Nat
  BY Bounds, LeftIsNat DEF ModelCall!Calls
<1>2. left # {} => CallOk(next)
  <2> SUFFICES ASSUME left # {} PROVE CallOk(next)
    OBVIOUS
  <2>1. /\ n \in 1 .. Rungs /\ ModelCall!LadderOf(t.want)[n] \in ModelCall!Models
        /\ Cardinality(Tried(t.want, n)) >= Left(t) + 1
    BY <1>1, NextRung DEF Left
  <2> HIDE DEF n, left
  <2> DEFINE q == ModelCall!LadderOf(t.want)[n]
  <2>2. /\ "enter" \in {"silent", "enter", "wait"} /\ q \in ModelCall!Models \cup {"none"}
        /\ n \in 0 .. Rungs /\ 0 \in 0 .. Attempts /\ MaxCeiling \in 1 .. MaxCeiling
    BY <2>1, Bounds
  <2> HIDE DEF q
  <2>4. next = [t EXCEPT !.pc = "enter", !.now = q, !.rung = n, !.sent = 0,
                         !.ceiling = MaxCeiling, !.shrunk = FALSE]
    BY DEF q, ModelCall!AskRung
  <2>5. /\ next \in ModelCall!Calls /\ next.want = t.want /\ next.now = q /\ next.rung = n
        /\ next.bought = t.bought /\ next.cut = t.cut /\ next.pc = "enter"
    BY <2>2, <2>4 DEF ModelCall!Calls, ModelCall!NoModel
  <2>3. Left(next) >= Left(t) + 1 /\ Left(next) \in Nat /\ Spent(next) = Spent(t)
    BY <2>1, <2>5, LeftIsNat DEF Left, Spent
  <2>7. t.bought <= Left(next)
    BY <1>1, <2>3
  <2>8. Spent(t) <= Attempts * Left(next)
    <3>1. Attempts * Left(next) >= Attempts * (Left(t) + 1)
      BY <1>1, <2>3, BillSteps
    <3> QED  BY <1>1, <2>3, <3>1, BillSteps
  <2>6. q \in ModelCall!Models
    BY <2>1 DEF q
  <2> HIDE DEF next
  <2>9. Attempts * Left(next) + 0 = Attempts * Left(next)
    BY <2>3, BillSteps
  <2> QED  BY <2>3, <2>5, <2>6, <2>7, <2>8, <2>9 DEF CallOk
<1>3. ModelCall!RecordStall(t.want) \/ ModelCall!NoStall
  BY DEF ModelCall!Gone
<1>4. \/ talk' = [talk EXCEPT ![s] = ModelCall!Silent]
      \/ left # {} /\ talk' = [talk EXCEPT ![s] = next]
  BY DEF ModelCall!Gone
<1> HIDE DEF next, left
<1> QED  BY <1>2, <1>3, <1>4, SilentOk, StallTypes, CallSet

(* A model that is given up after a reply, one generation known or not.    *)
LEMMA RepliedGone ==
  ASSUME NEW t, Replied(t)
  PROVE  /\ t.bought <= Left(t) + 1 /\ Spent(t) <= Attempts * (Left(t) + 1)
         /\ t.sent <= Attempts
<1>1. t.sent \in 0 .. Attempts /\ t.bought \in Nat /\ Left(t) \in Nat /\ Spent(t) \in Nat
  BY LeftIsNat DEF Replied, ModelCall!Calls
<1>2. Attempts * (Left(t) + 1) = Attempts * Left(t) + Attempts /\ Attempts * Left(t) \in Nat
  BY <1>1, BillSteps
<1> QED  BY <1>1, <1>2, Bounds DEF Replied

LEMMA AgainKeeps ==
  ASSUME CallInv, NEW s \in Speakers, NEW t, Replied(t), NEW slow \in BOOLEAN,
         ModelCall!Again(s, t, slow), UNCHANGED <<cooling, freeUsed>>
  PROVE  CallInv'
<1>1. t \in ModelCall!Calls /\ t.want \in ModelCall!Models /\ t.sent \in Nat
      /\ Left(t) \in Nat /\ Spent(t) \in Nat /\ Attempts * Left(t) \in Nat
  BY Bounds, LeftIsNat, BillSteps DEF Replied, ModelCall!Calls
<1>2. cooling' \subseteq ModelCall!Models /\ freeUsed' \in 0 .. FreeCap
  BY DEF CallInv, ModelCall!TypeOK
<1>3. CASE t.sent < Attempts
  <2> DEFINE u == [t EXCEPT !.sent = @ + 1]
  <2>1. CallOk(u)
    <3>1. /\ u \in ModelCall!Calls /\ u.want = t.want /\ u.now = t.now /\ u.rung = t.rung
          /\ u.bought = t.bought /\ u.cut = t.cut /\ u.pc = "wait" /\ u.sent = t.sent + 1
      BY <1>1, <1>3, Bounds DEF Replied, ModelCall!Calls
    <3>2. Left(u) = Left(t) /\ Spent(u) = Spent(t)
      BY <3>1 DEF Left, Spent
    <3> HIDE DEF u
    <3>3. u.sent - 1 = t.sent /\ u.sent > 0
      BY <1>1, <3>1
    <3> QED  BY <3>1, <3>2, <3>3 DEF CallOk, Replied
  <2>2. talk' = [talk EXCEPT ![s] = u] /\ ModelCall!NoStall
    BY <1>3 DEF ModelCall!Again
  <2>3. benched' \subseteq ModelCall!Models /\ strikes' \in [ModelCall!Models -> 0 .. Strikes]
    BY <1>1, <2>2, StallTypes
  <2> HIDE DEF u
  <2> QED  BY <1>2, <2>1, <2>2, <2>3, CallSet
<1>4. CASE ~(t.sent < Attempts)
  <2>1. ModelCall!Gone(s, t, FALSE, FALSE, slow)
    BY <1>4 DEF ModelCall!Again
  <2> QED  BY <1>1, <1>2, <2>1, RepliedGone, GoneKeeps
<1> QED  BY <1>3, <1>4

LEMMA EnterKeeps == ASSUME CallInv, NEW s \in Speakers, ModelCall!Enter(s) PROVE CallInv'
<1> DEFINE t == talk[s]
<1>1. t.pc = "enter"
  BY DEF ModelCall!Enter, ModelCall!EnterParked, ModelCall!EnterCapped, ModelCall!EnterSend
<1>2. /\ t \in ModelCall!Calls /\ t.want \in ModelCall!Models /\ t.bought \in Nat
      /\ t.bought <= Left(t) /\ t.now \in ModelCall!Models \cup {"none"}
      /\ Left(t) \in Nat /\ Spent(t) \in Nat /\ Spent(t) <= Attempts * Left(t)
  <2>1. CallOk(t) /\ t \in ModelCall!Calls /\ Left(t) \in Nat /\ Spent(t) \in Nat
    BY LeftIsNat DEF CallInv, CallOk
  <2>2. Attempts * Left(t) \in Nat
    BY <2>1, BillSteps
  <2> QED  BY <1>1, <2>1, <2>2, Bounds DEF CallOk, ModelCall!Calls, ModelCall!NoModel
<1>3. t.bought <= Left(t) + 1 /\ Spent(t) <= Attempts * (Left(t) + 1)
  <2>1. Attempts * (Left(t) + 1) >= Attempts * Left(t) /\ Attempts * Left(t) \in Nat
    BY <1>2, BillSteps
  <2> QED  BY <1>2, <2>1, BillSteps
<1>4. CASE ModelCall!EnterParked(s)
  BY <1>2, <1>3, <1>4, GoneKeeps DEF ModelCall!EnterParked, CallInv, ModelCall!TypeOK
<1>5. CASE ModelCall!EnterCapped(s)
  <2>1. t.now \in ModelCall!Models
    BY <1>5 DEF ModelCall!EnterCapped, ModelCall!Models
  <2>2. cooling' \subseteq ModelCall!Models /\ freeUsed' \in 0 .. FreeCap
    BY <1>5, <2>1 DEF ModelCall!EnterCapped, ModelCall!Park, CallInv, ModelCall!TypeOK
  <2>3. ModelCall!Gone(s, t, FALSE, FALSE, FALSE)
    BY <1>5 DEF ModelCall!EnterCapped
  <2> QED  BY <1>2, <1>3, <2>2, <2>3, GoneKeeps
<1>6. CASE ModelCall!EnterSend(s)
  <2> DEFINE u == [t EXCEPT !.pc = "wait", !.sent = 1]
  <2>1. /\ u \in ModelCall!Calls /\ u.want = t.want /\ u.now = t.now /\ u.rung = t.rung
        /\ u.bought = t.bought /\ u.cut = t.cut /\ u.pc = "wait" /\ u.sent = 1
    <3>1. "wait" \in {"silent", "enter", "wait"} /\ 1 \in 0 .. Attempts
      BY Bounds
    <3> QED  BY <1>2, <3>1 DEF ModelCall!Calls
  <2>5. CallOk(u)
    <3>1. Left(u) = Left(t) /\ Spent(u) = Spent(t)
      BY <2>1 DEF Left, Spent
    <3>2. {t.want, t.now} \subseteq ModelCall!Models
      BY <1>1 DEF CallInv, CallOk
    <3>3. Attempts * Left(t) + (u.sent - 1) = Attempts * Left(t)
      BY <1>2, <2>1, BillSteps
    <3> HIDE DEF u
    <3> QED  BY <1>2, <2>1, <3>1, <3>2, <3>3 DEF CallOk
  <2>2. talk' = [talk EXCEPT ![s] = u] /\ UNCHANGED <<cooling, strikes, benched>>
    BY <1>6 DEF ModelCall!EnterSend, CallInv, ModelCall!TypeOK
  <2>3. freeUsed' \in 0 .. FreeCap
    BY <1>6, Bounds DEF ModelCall!EnterSend, CallInv, ModelCall!TypeOK
  <2>4. /\ cooling' \subseteq ModelCall!Models /\ benched' \subseteq ModelCall!Models
        /\ strikes' \in [ModelCall!Models -> 0 .. Strikes]
    BY <2>2 DEF CallInv, ModelCall!TypeOK
  <2> HIDE DEF u
  <2> QED  BY <2>2, <2>3, <2>4, <2>5, CallSet
<1> QED  BY <1>4, <1>5, <1>6 DEF ModelCall!Enter

LEMMA ReplyKeeps == ASSUME CallInv, NEW s \in Speakers, ModelCall!Reply(s) PROVE CallInv'
<1> DEFINE t == talk[s]
<1>1. t.pc = "wait"
  BY DEF ModelCall!Reply, ModelCall!Hiccup, ModelCall!CutShort, ModelCall!RateLimited,
     ModelCall!Smaller, ModelCall!UpstreamTimeout, ModelCall!Truncated, ModelCall!Answered,
     ModelCall!Declined
<1>2. /\ t \in ModelCall!Calls /\ {t.want, t.now} \subseteq ModelCall!Models
      /\ {t.bought, t.cut, t.sent, Left(t), Spent(t), Attempts * Left(t)} \subseteq Nat
      /\ t.bought <= Left(t) /\ t.sent > 0 /\ t.sent <= Attempts
      /\ Spent(t) <= Attempts * Left(t) + t.sent - 1
      /\ cooling \subseteq ModelCall!Models /\ freeUsed \in 0 .. FreeCap
  <2>1. CallOk(t) /\ t \in ModelCall!Calls /\ Left(t) \in Nat /\ Spent(t) \in Nat
    BY LeftIsNat DEF CallInv, CallOk
  <2>2. Attempts * Left(t) \in Nat
    BY <2>1, BillSteps
  <2>3. {t.bought, t.cut, t.sent} \subseteq Nat /\ t.sent <= Attempts
    BY <2>1, Bounds DEF ModelCall!Calls
  <2> QED  BY <1>1, <2>1, <2>2, <2>3 DEF CallInv, CallOk, ModelCall!TypeOK
<1>12. Replied(t)
  BY <1>1, <1>2 DEF Replied
<1>3. t.bought <= Left(t) + 1 /\ Spent(t) <= Attempts * (Left(t) + 1)
  BY <1>12, RepliedGone
<1>4. LET u == ModelCall!Bought(t)
      IN  /\ u \in ModelCall!Calls /\ u.want = t.want
          /\ u.bought <= Left(u) + 1 /\ Spent(u) <= Attempts * (Left(u) + 1)
  <2> DEFINE u == ModelCall!Bought(t)
  <2>1. /\ u \in ModelCall!Calls /\ u.want = t.want /\ u.rung = t.rung
        /\ u.bought = t.bought + 1 /\ u.cut = t.cut
    BY <1>2 DEF ModelCall!Bought, ModelCall!Calls
  <2> HIDE DEF u
  <2>2. Left(u) = Left(t) /\ Spent(u) = Spent(t) + 1
    BY <1>2, <2>1 DEF Left, Spent
  <2>3. Attempts * (Left(t) + 1) = Attempts * Left(t) + Attempts
    BY <1>2, BillSteps
  <2> QED  BY <1>2, <2>1, <2>2, <2>3, Bounds DEF u
<1>5. ASSUME NEW slow \in BOOLEAN, ModelCall!Hiccup(s, slow) PROVE CallInv'
  BY <1>12, <1>5, AgainKeeps DEF ModelCall!Hiccup
<1>13. ASSUME NEW slow \in BOOLEAN, ModelCall!CutShort(s, slow) PROVE CallInv'
  <2> DEFINE u == ModelCall!Cut(t)
  <2>1. /\ u \in ModelCall!Calls /\ u.want = t.want /\ u.now = t.now /\ u.rung = t.rung
        /\ u.pc = t.pc /\ u.sent = t.sent /\ u.bought = t.bought /\ u.cut = t.cut + 1
    BY <1>2 DEF ModelCall!Cut, ModelCall!Calls
  <2>2. ModelCall!Again(s, u, slow) /\ UNCHANGED <<cooling, freeUsed>>
    BY <1>13 DEF ModelCall!CutShort
  <2> HIDE DEF u
  <2>3. Left(u) = Left(t) /\ Spent(u) = Spent(t) + 1
    BY <1>2, <2>1 DEF Left, Spent
  <2>4. Replied(u)
    BY <1>1, <1>2, <2>1, <2>3 DEF Replied
  <2> QED  BY <2>2, <2>4, AgainKeeps
<1>6. ASSUME NEW slow \in BOOLEAN, ModelCall!RateLimited(s, slow) PROVE CallInv'
  <2>1. cooling' \subseteq ModelCall!Models /\ UNCHANGED freeUsed
    BY <1>2, <1>6 DEF ModelCall!RateLimited, ModelCall!Park
  <2>2. ModelCall!Gone(s, t, FALSE, FALSE, slow)
    BY <1>6 DEF ModelCall!RateLimited
  <2> QED  BY <1>2, <1>3, <2>1, <2>2, GoneKeeps
<1>7. ASSUME NEW fit \in 1 .. MaxCeiling, NEW slow \in BOOLEAN, ModelCall!Smaller(s, fit, slow)
      PROVE  CallInv'
  <2> DEFINE u == [t EXCEPT !.ceiling = fit, !.shrunk = TRUE]
  <2>1. Replied(u)
    BY <1>12, <1>7 DEF Replied, Left, Spent, ModelCall!Calls
  <2>2. ModelCall!Again(s, u, slow) /\ UNCHANGED <<cooling, freeUsed>>
    BY <1>7 DEF ModelCall!Smaller
  <2> HIDE DEF u
  <2> QED  BY <2>1, <2>2, AgainKeeps
<1>8. CASE ModelCall!UpstreamTimeout(s)
  BY <1>2, <1>4, <1>8, GoneKeeps DEF ModelCall!UpstreamTimeout
<1>9. CASE ModelCall!Truncated(s)
  BY <1>2, <1>4, <1>9, GoneKeeps DEF ModelCall!Truncated
<1>10. CASE ModelCall!Answered(s)
  BY <1>2, <1>10, SilentOk, CallSet DEF ModelCall!Answered, CallInv, ModelCall!TypeOK
<1>11. ASSUME NEW stalled \in BOOLEAN, NEW slow \in BOOLEAN, ModelCall!Declined(s, stalled, slow)
       PROVE  CallInv'
  BY <1>1, <1>2, <1>3, <1>11, GoneKeeps DEF ModelCall!Declined
<1> QED  BY <1>5, <1>6, <1>7, <1>8, <1>9, <1>10, <1>11, <1>13 DEF ModelCall!Reply

LEMMA CallStays == ASSUME CallInv, [ModelCall!Next]_(ModelCall!vars) PROVE CallInv'
<1>1. ASSUME NEW s \in Speakers, NEW m \in ModelCall!Models, ModelCall!Speak(s, m) PROVE CallInv'
  <2> DEFINE t == [ModelCall!Silent EXCEPT !.pc = "enter", !.want = m, !.now = m]
  <2>1. /\ t \in ModelCall!Calls /\ t.bought = 0 /\ t.cut = 0 /\ t.pc = "enter"
        /\ t.want = m /\ t.now = m /\ t.rung = 0
    <3>1. 0 \in 0 .. Rungs /\ 0 \in 0 .. Attempts /\ MaxCeiling \in 1 .. MaxCeiling
      BY Bounds
    <3> QED  BY <3>1 DEF ModelCall!Silent, ModelCall!Calls
  <2>2. Left(t) \in Nat /\ Attempts * Left(t) \in Nat /\ Spent(t) = 0
    BY <2>1, LeftIsNat, BillSteps DEF Spent
  <2>3. talk' = [talk EXCEPT ![s] = t] /\ UNCHANGED <<cooling, freeUsed, strikes, benched>>
    BY <1>1 DEF ModelCall!Speak
  <2> HIDE DEF t
  <2>4. CallOk(t)
    BY <2>1, <2>2 DEF CallOk
  <2>5. /\ cooling' \subseteq ModelCall!Models /\ benched' \subseteq ModelCall!Models
        /\ strikes' \in [ModelCall!Models -> 0 .. Strikes] /\ freeUsed' \in 0 .. FreeCap
    BY <2>3 DEF CallInv, ModelCall!TypeOK
  <2> QED  BY <2>3, <2>4, <2>5, CallSet
<1>2. ASSUME NEW m \in ModelCall!Models, ModelCall!AgeOut(m) PROVE CallInv'
  BY <1>2, Bounds DEF ModelCall!AgeOut, CallInv, ModelCall!TypeOK
<1>3. ASSUME NEW m \in ModelCall!Models,
             ModelCall!CoolOff(m) \/ ModelCall!Unbench(m) \/ ModelCall!ParkedElsewhere(m)
      PROVE  CallInv'
  BY <1>3 DEF ModelCall!CoolOff, ModelCall!Unbench, ModelCall!ParkedElsewhere, ModelCall!Park,
     CallInv, ModelCall!TypeOK
<1>4. ASSUME NEW m \in ModelCall!Models, ModelCall!StalledElsewhere(m) PROVE CallInv'
  BY <1>4, StallTypes DEF ModelCall!StalledElsewhere, CallInv, ModelCall!TypeOK
<1>5. CASE ModelCall!NewWindow \/ ModelCall!CountedElsewhere
  BY <1>5, Bounds DEF ModelCall!NewWindow, ModelCall!CountedElsewhere, CallInv, ModelCall!TypeOK
<1>6. CASE UNCHANGED ModelCall!vars
  BY <1>6 DEF ModelCall!vars, CallInv, ModelCall!TypeOK
<1> QED
  BY <1>1, <1>2, <1>3, <1>4, <1>5, <1>6, EnterKeeps, ReplyKeeps DEF ModelCall!Next

LEMMA CallHolds == Spec => []CallInv
  BY PartInits, PartSteps, CallInit, CallStays, PTL DEF Spec

(* What a call can cost: a generation the code knows to be bought is the   *)
(* last of its model, and with the fills that are cut and bought again the *)
(* bill is at most Attempts for each model asked, whatever the gateway     *)
(* answers and whichever models stand on the ladder (llm::chat_capped,     *)
(* chat_fb_capped).                                                        *)
THEOREM BillBoundedHolds == Spec => []BillBounded
<1>1. CallInv => BillBounded
  <2> SUFFICES ASSUME CallInv, NEW s \in Speakers, ModelCall!Open(s)
               PROVE  /\ talk[s].bought <= ModelCall!ModelsTried(talk[s])
                      /\ talk[s].bought + talk[s].cut <= Attempts * ModelCall!ModelsTried(talk[s])
    BY DEF BillBounded, ModelCall!BillBounded
  <2> DEFINE t == talk[s]
  <2>1. CallOk(t) /\ t.pc # "silent" /\ t \in ModelCall!Calls
    BY DEF CallInv, CallOk, ModelCall!Open
  <2>2. Left(t) \in Nat /\ Spent(t) \in Nat /\ t.bought \in Nat /\ t.sent \in 0 .. Attempts
    BY <2>1, LeftIsNat, Bounds DEF ModelCall!Calls
  <2>3. ModelCall!ModelsTried(t) = Left(t) + 1
    BY <2>2, ModelsTriedIs DEF Left
  <2>4. Attempts * (Left(t) + 1) = Attempts * Left(t) + Attempts /\ Attempts * Left(t) \in Nat
    BY <2>2, BillSteps
  <2>5. t.bought <= Left(t) /\ Spent(t) <= Attempts * Left(t) + Attempts
    BY <2>1, <2>2, <2>4, Bounds DEF CallOk
  <2>6. t.bought <= ModelCall!ModelsTried(t)
    BY <2>2, <2>3, <2>5
  <2>7. Spent(t) <= Attempts * ModelCall!ModelsTried(t)
    BY <2>3, <2>4, <2>5
  <2> QED  BY <2>6, <2>7 DEF Spent
<1> QED  BY <1>1, CallHolds, PTL

-----------------------------------------------------------------------------
(* The whole keeps its shape: in every behaviour the part that moves keeps *)
(* the types of its variables.                                             *)
THEOREM TypeOKHolds == Spec => []TypeOK
<1>1. part \in {"routines", "call", "seat"} /\ RoutinesInv /\ CallInv /\ SeatInv => TypeOK
  BY DEF TypeOK, RoutinesInv, CallInv, SeatInv
<1>2. Init => part \in {"routines", "call", "seat"}
  BY DEF Init
<1>3. part \in {"routines", "call", "seat"} /\ [Next]_vars
      => (part \in {"routines", "call", "seat"})'
  BY DEF Next, RoutinesStep, CallStep, SeatStep, Of, vars
<1>4. Spec => [](part \in {"routines", "call", "seat"})
  BY <1>2, <1>3, PTL DEF Spec
<1> QED  BY <1>1, <1>4, RoutinesHolds, CallHolds, SeatHolds, PTL
=============================================================================
