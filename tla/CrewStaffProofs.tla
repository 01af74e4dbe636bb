-------------------------- MODULE CrewStaffProofs ---------------------------
(* More proofs about Crew: handles, crews, fires and seats.                *)
EXTENDS CrewProofs

(* What a step of one run leaves alone: the other runs, the handles, the   *)
(* owners, and who the run is and belongs to.                              *)
LEMMA RunStepFrame ==
    ASSUME TypeInv, NEW r \in RunIds, RunStep(r)
    PROVE  /\ Live(r)
           /\ \A q \in RunIds \ {r} : run'[q] = run[q]
           /\ owner' = owner /\ pending' = pending /\ firing' = firing
           /\ r \in pending \/ run'[r].pc # "done" => run'[r].agent = run[r].agent
           /\ run'[r].pc # "done" => /\ run'[r].parent = run[r].parent
                                     /\ run'[r].task = run[r].task
           /\ run'[r].pc \notin {"none", "start", "waiting"}
           /\ run[r].pc = "waiting" => Resume(r)
<1> USE DEF TypeInv, TypeOK, Live, Ended
<1>0. run[r] \in Runs
  OBVIOUS
<1>1. CASE Load(r)
  <2> DEFINE a   == row[run[r].agent]
             rec == [run[r] EXCEPT !.pc = "loaded", !.hist = a.hist, !.model = a.model]
  <2>1. rec.pc = "loaded" /\ rec.agent = run[r].agent
        /\ rec.parent = run[r].parent /\ rec.task = run[r].task
    BY <1>0 DEF Runs
  <2>2. run' = [run EXCEPT ![r] = IF a.active THEN rec ELSE Over(r)]
    BY <1>1 DEF Load
  <2> HIDE DEF rec, a
  <2>3. run'[r] = rec \/ run'[r] = Over(r)
    BY <2>2
  <2>4. QED
    BY <1>1, <2>1, <2>2, <2>3, OverType DEF Load
<1>2. CASE Claim(r)
  BY <1>0, <1>2 DEF Claim, Runs
<1>3. CASE Refused(r)
  BY <1>3, OverType DEF Refused
<1>4. CASE Seat(r)
  <2>1. PICK m \in Models, pc \in {"turn", "saving", "final"} :
              run' = [run EXCEPT ![r].pc = pc, ![r].model = m]
    BY <1>0, <1>4, Consts DEF Seat, cheaper_peer, Runs
  <2>2. /\ run'[r].pc = pc /\ run'[r].agent = run[r].agent
        /\ run'[r].parent = run[r].parent /\ run'[r].task = run[r].task
    BY <1>0, <2>1 DEF Runs
  <2>3. \A q \in RunIds \ {r} : run'[q] = run[q]
    BY <2>1
  <2>4. QED
    BY <1>4, <2>2, <2>3 DEF Seat, cheaper_peer
<1>5. CASE Interrupted(r)
  BY <1>0, <1>5 DEF Interrupted, Runs
<1>6. CASE SeesFired(r)
  BY <1>0, <1>6 DEF SeesFired, Runs
<1>7. CASE TakeTurn(r)
  BY <1>0, <1>7 DEF TakeTurn, Runs
<1>8. CASE NextTurn(r)
  <2>1. PICK pc \in {"turn", "saving", "final"} : run' = [run EXCEPT ![r].pc = pc]
    BY <1>8 DEF NextTurn
  <2>2. QED
    BY <1>0, <1>8, <2>1 DEF NextTurn, Runs
<1>9. CASE Finish(r)
  BY <1>0, <1>9 DEF Finish, Runs
<1>10. CASE Save(r)
  BY <1>0, <1>10 DEF Save, Runs
<1>11. CASE Release(r)
  BY <1>11, OverType DEF Release
<1>12. CASE Resume(r)
  BY <1>0, <1>12 DEF Resume, Runs
<1>13. QED
  BY <1>1, <1>2, <1>3, <1>4, <1>5, <1>6, <1>7, <1>8, <1>9, <1>10, <1>11, <1>12 DEF RunStep

(* What the end of a fire does to a run: an abort, or the disposal of its  *)
(* record.                                                                 *)
LEMMA FireFrame ==
    ASSUME TypeInv, FireEnds, NEW r \in RunIds
    PROVE  /\ pending' = {p \in pending : run[p].agent # firing}
           /\ r \in pending' => run'[r] = run[r]
           /\ Live(r) => /\ run'[r].pc = run[r].pc /\ run'[r].agent = run[r].agent
                         /\ run'[r].parent = run[r].parent /\ run'[r].task = run[r].task
                         /\ run'[r].model = run[r].model
           /\ ~Live(r) => run'[r].pc \in Ended
<1> USE DEF TypeInv, TypeOK, Live, Ended
<1>0. run[r] \in Runs
  OBVIOUS
<1>1. CASE r \notin pending \ pending'
  BY <1>1 DEF FireEnds
<1>2. CASE r \in pending \ pending' /\ Live(r)
  <2>1. run'[r] = [run[r] EXCEPT !.aborted = TRUE]
    BY <1>2 DEF FireEnds
  <2>2. QED
    BY <1>0, <1>2, <2>1 DEF Runs, FireEnds
<1>3. CASE r \in pending \ pending' /\ ~Live(r)
  BY <1>3, SpentType DEF FireEnds
<1>4. QED
  BY <1>1, <1>2, <1>3

-----------------------------------------------------------------------------
(* Who holds the work on an objective.                                     *)

(* A record only stops being active in a fire: no run deactivates one.     *)
LEMMA RunStepKeepsActive ==
    ASSUME TypeInv, NEW r \in RunIds, RunStep(r), NEW n \in Names
    PROVE  row[n].active => row'[n].active
<1> USE DEF TypeInv, TypeOK
<1>0. run[r] \in Runs
  OBVIOUS
<1>1. CASE Seat(r) \/ Save(r)
  <2>0. run[r].agent \in Names
    BY <1>1 DEF Seat, cheaper_peer, Save, Live, Ended
  <2>1. \/ row' = row
        \/ \E m \in Models, h \in SUBSET RunIds : row' = SavedRow(run[r].agent, m, h)
    BY <1>0, <1>1, Consts DEF Seat, cheaper_peer, Save, Runs
  <2>2. QED
    BY <2>0, <2>1, SavedType
<1>2. CASE ~Seat(r) /\ ~Save(r)
  BY <1>2 DEF RunStep, Load, Claim, Refused, Interrupted, SeesFired, TakeTurn,
              NextTurn, Finish, Release, Resume
<1>3. QED
  BY <1>1, <1>2

\* Enough for a step: nobody but the name being fired stops being active,
\* and a handle with an objective that stays keeps its run's agent.
LEMMA HandsFrame ==
    ASSUME TypeInv, DeadHoldNoReports,
           \A n \in Names : row[n].active => row'[n].active \/ n = firing',
           \A r \in pending' : run'[r].objective # NoObj =>
               \/ r \in pending /\ run[r].objective # NoObj
                  /\ run'[r].agent = run[r].agent
                  /\ (run[r].agent = firing => run[r].agent = firing')
               \/ run'[r].agent \in Names /\ row'[run'[r].agent].active
    PROVE  DeadHoldNoReports'
BY DEF DeadHoldNoReports, TypeInv, TypeOK

LEMMA HandsRunStep ==
    ASSUME TypeInv, DeadHoldNoReports, NEW r \in RunIds, RunStep(r)
    PROVE  DeadHoldNoReports'
<1> USE DEF TypeInv, TypeOK
<1>0. run[r] \in Runs
  OBVIOUS
<1>1. /\ \A q \in RunIds \ {r} : run'[q] = run[q]
      /\ pending' = pending /\ firing' = firing
      /\ r \in pending => run'[r].agent = run[r].agent
  BY RunStepFrame
<1>2. run'[r].objective # NoObj => run[r].objective # NoObj
  <2>1. CASE Load(r)
    <3> DEFINE a   == row[run[r].agent]
               rec == [run[r] EXCEPT !.pc = "loaded", !.hist = a.hist, !.model = a.model]
    <3>1. run'[r] = rec \/ run'[r] = Over(r)
      BY <2>1 DEF Load
    <3>2. rec.objective = run[r].objective
      BY <1>0 DEF Runs
    <3> HIDE DEF rec
    <3>3. QED
      BY <3>1, <3>2 DEF Over, Spent, IdleRun
  <2>2. CASE Refused(r) \/ Release(r)
    BY <2>2 DEF Refused, Release, Over, Spent, IdleRun
  <2>3. CASE Seat(r)
    BY <1>0, <2>3 DEF Seat, cheaper_peer, Runs
  <2>4. CASE NextTurn(r)
    BY <1>0, <2>4 DEF NextTurn, Runs
  <2>5. CASE TakeTurn(r) \/ Finish(r) \/ Save(r) \/ Resume(r)
    BY <1>0, <2>5 DEF TakeTurn, Finish, Save, Resume, Runs
  <2>6. CASE Claim(r) \/ Interrupted(r) \/ SeesFired(r)
    BY <1>0, <2>6 DEF Claim, Interrupted, SeesFired, Runs
  <2>7. QED
    BY <2>1, <2>2, <2>3, <2>4, <2>5, <2>6 DEF RunStep
<1>3. QED
  BY <1>1, <1>2, RunStepKeepsActive, HandsFrame

LEMMA HandsStaffing ==
    ASSUME TypeInv, DeadHoldNoReports, Staffing
    PROVE  DeadHoldNoReports'
<1> USE DEF TypeInv, TypeOK
<1>1. ASSUME NEW n \in Names, NEW m \in Models, NEW b \in BOOLEAN, HireAs(n, m, b)
      PROVE  DeadHoldNoReports'
  BY <1>1 DEF HireAs, DeadHoldNoReports
<1>2. ASSUME NEW n \in Names, Fire(n)
      PROVE  DeadHoldNoReports'
  <2>1. firing = NoOne /\ firing' = n /\ run' = run /\ pending' = pending
    BY <1>2 DEF Fire, CEOFree
  <2>2. \A x \in Names : x # n => row'[x] = row[x]
    BY <1>2 DEF Fire
  <2>3. \A r \in pending : run[r].agent \in Names
    OBVIOUS
  <2>4. QED
    BY <2>1, <2>2, <2>3, Consts DEF DeadHoldNoReports
<1>3. CASE FireEnds
  <2>1. pending' = {p \in pending : run[p].agent # firing} /\ row' = row
    BY <1>3 DEF FireEnds
  <2>2. \A r \in pending' : run'[r] = run[r]
    BY <1>3, <2>1 DEF FireEnds
  <2>3. QED
    BY <2>1, <2>2 DEF DeadHoldNoReports
<1>4. ASSUME NEW o \in Objectives, NEW n \in Names \cup {NoOne}, AssignOwner(o, n)
      PROVE  DeadHoldNoReports'
  BY <1>4 DEF AssignOwner, DeadHoldNoReports
<1>5. QED
  BY <1>1, <1>2, <1>3, <1>4 DEF Staffing, CeoHire, ManagerHire

LEMMA HandsOthers ==
    ASSUME TypeInv, DeadHoldNoReports, Delegation \/ Background
    PROVE  DeadHoldNoReports'
<1> USE DEF TypeInv, TypeOK
<1>1. CASE Delegation
  <2>1. PICK team \in SUBSET RunIds : \E f \in [team -> Names] :
           CeoDelegate(team, f) \/ \E r \in RunIds : ManagerDelegate(r, team, f)
    BY <1>1 DEF Delegation
  <2>2. PICK f \in [team -> Names] :
           CeoDelegate(team, f) \/ \E r \in RunIds : ManagerDelegate(r, team, f)
    BY <2>1
  <2>3. /\ pending' = pending /\ row' = row /\ firing' = firing
        /\ \A p \in pending : p \notin team
    BY <2>1, <2>2 DEF CeoDelegate, ManagerDelegate, Team
  <2>4. \A p \in pending : /\ run'[p].agent = run[p].agent
                            /\ run'[p].objective = run[p].objective
    BY <2>1, <2>2, <2>3 DEF CeoDelegate, ManagerDelegate, Runs
  <2>5. QED
    BY <2>3, <2>4 DEF DeadHoldNoReports
<1>2. ASSUME NEW r \in RunIds, NEW n \in Names, NEW o \in Objectives \cup {NoObj},
             row[n].active, Spawn(r, n, o), pending' = pending \cup {r},
             UNCHANGED <<row, firing>>
      PROVE  DeadHoldNoReports'
  <2>1. run'[r].agent = n
    BY <1>2, StartedType DEF Spawn
  <2>2. \A p \in RunIds \ {r} : run'[p] = run[p]
    BY <1>2 DEF Spawn
  <2>3. QED
    BY <1>2, <2>1, <2>2 DEF DeadHoldNoReports
<1>3. ASSUME NEW t \in RunIds, Cancel(t)
      PROVE  DeadHoldNoReports'
  <2>1. \A q \in RunIds : run'[q] = run[q] \/ run'[q] = Over(q)
    BY <1>3 DEF Cancel
  <2>2. \A q \in pending : /\ run'[q].agent = run[q].agent
                            /\ run'[q].objective = run[q].objective
    BY <2>1, SpentType DEF Over, Runs
  <2>3. UNCHANGED <<row, pending, firing>>
    BY <1>3 DEF Cancel
  <2>4. QED
    BY <2>2, <2>3 DEF DeadHoldNoReports
<1>4. ASSUME NEW r \in RunIds, HarvestToCeo(r) \/ Bank(r)
      PROVE  DeadHoldNoReports'
  <2>1. /\ pending' = pending \ {r} /\ UNCHANGED <<row, firing>>
        /\ \A q \in RunIds \ {r} : run'[q] = run[q]
    BY <1>4 DEF HarvestToCeo, Bank
  <2>2. QED
    BY <2>1 DEF DeadHoldNoReports
<1>5. ASSUME NEW r \in RunIds, NEW q \in RunIds, HarvestToOwner(r, q)
      PROVE  DeadHoldNoReports'
  <2>1. PICK n \in RoutedTo(r, pending \ {r}) :
           run' = [run EXCEPT ![r] = Spent, ![q] = Started(q, n, q, q, run[r].objective)]
    BY <1>5 DEF HarvestToOwner
  <2>2. n \in Names /\ row[n].active /\ run[r].objective \in Objectives \cup {NoObj}
    BY <2>1 DEF RoutedTo, Runs
  <2>3. run'[q].agent = n
    BY <2>1, <2>2, StartedType
  <2>4. /\ pending' = (pending \ {r}) \cup {q} /\ UNCHANGED <<row, firing>>
        /\ \A p \in RunIds \ {r, q} : run'[p] = run[p]
    BY <1>5, <2>1 DEF HarvestToOwner
  <2>5. QED
    BY <2>2, <2>3, <2>4 DEF DeadHoldNoReports
<1>6. CASE Background
  BY <1>2, <1>3, <1>4, <1>5, <1>6 DEF Background, Dispatch, DispatchReview
<1>7. QED
  BY <1>1, <1>6

LEMMA HandsNext == TypeInv /\ DeadHoldNoReports /\ [Next]_vars => DeadHoldNoReports'
<1> SUFFICES ASSUME TypeInv, DeadHoldNoReports, [Next]_vars PROVE DeadHoldNoReports'
  OBVIOUS
<1>1. CASE Stop \/ CeoExits \/ Restart \/ UNCHANGED vars
  BY <1>1 DEF Stop, CeoExits, Restart, vars, DeadHoldNoReports
<1>2. QED
  BY <1>1, HandsRunStep, HandsStaffing, HandsOthers DEF Next

LEMMA HandsInit == Init => DeadHoldNoReports
BY DEF Init, DeadHoldNoReports

(* A dead owner never swallows a report: whatever hires, fires, write-     *)
(* backs, crashes and dead owners in the store, what runs in the           *)
(* background on an objective is run by somebody employed, or by the one   *)
(* name that a fire is about to take out of pending.                       *)
THEOREM DeadHoldNoReportsHolds == Spec => []DeadHoldNoReports
BY HandsInit, HandsNext, TypeCorrect, PTL DEF Spec

-----------------------------------------------------------------------------
(* Handles.                                                                *)

LEMMA HandleNext == TypeInv /\ OneHandlePerAgent /\ [Next]_vars => OneHandlePerAgent'
<1> SUFFICES ASSUME TypeInv, OneHandlePerAgent, [Next]_vars PROVE OneHandlePerAgent'
  OBVIOUS
<1> USE DEF OneHandlePerAgent, TypeInv, TypeOK
\* Enough: the handles that stay keep their agent.
<1>0. ASSUME pending' \subseteq pending,
             \A p \in pending' : run'[p].agent = run[p].agent
      PROVE  OneHandlePerAgent'
  BY <1>0
<1>1. ASSUME NEW r \in RunIds, RunStep(r)
      PROVE  OneHandlePerAgent'
  BY <1>0, <1>1, RunStepFrame
<1>2. CASE Staffing
  <2>1. CASE FireEnds
    <3>1. pending' \subseteq pending
      BY <2>1 DEF FireEnds
    <3>2. \A p \in pending' : run'[p] = run[p]
      BY <2>1, <3>1 DEF FireEnds
    <3>3. QED
      BY <1>0, <3>1, <3>2
  <2>2. CASE ~FireEnds
    <3>1. pending' = pending /\ run' = run
      BY <1>2, <2>2 DEF Staffing, CeoHire, ManagerHire, HireAs, Fire, AssignOwner
    <3>2. QED
      BY <3>1
  <2>3. QED
    BY <2>1, <2>2
<1>3. CASE Delegation
  <2>1. PICK team \in SUBSET RunIds : \E f \in [team -> Names] :
           CeoDelegate(team, f) \/ \E r \in RunIds : ManagerDelegate(r, team, f)
    BY <1>3 DEF Delegation
  <2>2. PICK f \in [team -> Names] :
           CeoDelegate(team, f) \/ \E r \in RunIds : ManagerDelegate(r, team, f)
    BY <2>1
  <2>3. pending' = pending /\ \A p \in pending : p \notin team
    BY <2>1, <2>2 DEF CeoDelegate, ManagerDelegate, Team
  <2>4. \A p \in pending : run'[p].agent = run[p].agent
    BY <2>1, <2>2, <2>3 DEF CeoDelegate, ManagerDelegate, Runs
  <2>5. QED
    BY <1>0, <2>3, <2>4
<1>4. CASE Background
  <2>1. ASSUME NEW r \in RunIds, NEW n \in Names, NEW o \in Objectives \cup {NoObj},
               ~InFlight(n), Spawn(r, n, o), pending' = pending \cup {r}
        PROVE  OneHandlePerAgent'
    <3>1. run'[r].agent = n
      BY <2>1, StartedType DEF Spawn
    <3>2. \A p \in RunIds \ {r} : run'[p] = run[p]
      BY <2>1 DEF Spawn
    <3>3. QED
      BY <2>1, <3>1, <3>2 DEF InFlight
  <2>2. ASSUME NEW t \in RunIds, Cancel(t)
        PROVE  OneHandlePerAgent'
    BY <1>0, <2>2, OverType DEF Cancel
  <2>3. ASSUME NEW r \in RunIds, HarvestToCeo(r) \/ Bank(r)
        PROVE  OneHandlePerAgent'
    BY <1>0, <2>3 DEF HarvestToCeo, Bank
  <2>4. ASSUME NEW r \in RunIds, NEW q \in RunIds, HarvestToOwner(r, q)
        PROVE  OneHandlePerAgent'
    <3>1. PICK n \in RoutedTo(r, pending \ {r}) :
             run' = [run EXCEPT ![r] = Spent, ![q] = Started(q, n, q, q, run[r].objective)]
      BY <2>4 DEF HarvestToOwner
    <3>2. run'[q].agent = n /\ n \in Names
      BY <3>1, StartedType DEF RoutedTo, Runs
    <3>3. \A p \in RunIds \ {r, q} : run'[p] = run[p]
      BY <3>1
    <3>4. \A p \in pending \ {r} : run[p].agent # n
      BY <3>1 DEF RoutedTo
    <3>5. pending' = (pending \ {r}) \cup {q}
      BY <2>4 DEF HarvestToOwner
    <3>6. q # r
      BY <2>4 DEF HarvestToOwner, Fresh
    <3>7. QED
      BY <3>2, <3>3, <3>4, <3>5, <3>6
  <2>5. CASE \E r \in RunIds, n \in Names, o \in Objectives \cup {NoObj} : Dispatch(r, n, o)
    BY <2>1, <2>5 DEF Dispatch
  <2>6. CASE \E r \in RunIds, n \in Names : DispatchReview(r, n)
    BY <2>1, <2>6 DEF DispatchReview
  <2>7. QED
    BY <1>4, <2>2, <2>3, <2>4, <2>5, <2>6 DEF Background
<1>5. CASE Stop \/ CeoExits \/ Restart \/ UNCHANGED vars
  BY <1>0, <1>5 DEF Stop, CeoExits, Restart, vars
<1>6. QED
  BY <1>1, <1>2, <1>3, <1>4, <1>5 DEF Next

LEMMA HandleInit == Init => OneHandlePerAgent
BY DEF Init, OneHandlePerAgent

(* dispatch, dispatch_review and harvest_dispatches never leave two        *)
(* background handles under one name.                                      *)
THEOREM OneHandleHolds == Spec => []OneHandlePerAgent
BY HandleInit, HandleNext, TypeCorrect, PTL DEF Spec

-----------------------------------------------------------------------------
(* Crews.  A delegated run lives in the task of the run that waits for it, *)
(* which is why an abort takes both or neither.                            *)
CrewInv ==
    \A r \in RunIds :
        Live(r) /\ run[r].parent \notin {r, CEO} =>
            /\ run[run[r].parent].pc = "waiting"
            /\ run[run[r].parent].task = run[r].task

LEMMA CrewImplies == CrewInv => CrewNeverOutlivesManager
BY DEF CrewInv, CrewNeverOutlivesManager

(* Enough for a step: every run that is live afterwards and waited for was *)
(* live before with the same caller and task, or was just delegated; and   *)
(* whoever was waiting for a run that is still live is still waiting.      *)
LEMMA CrewFrame ==
    ASSUME TypeInv, CrewInv,
           \A r \in RunIds : Live(r)' /\ run'[r].parent \notin {r, CEO} =>
               /\ Live(r) /\ run'[r].parent = run[r].parent /\ run'[r].task = run[r].task
               /\ run'[run[r].parent].pc = "waiting"
               /\ run'[run[r].parent].task = run[run[r].parent].task
    PROVE  CrewInv'
BY DEF CrewInv

LEMMA CrewRunStep ==
    ASSUME TypeInv, CrewInv, NEW r \in RunIds, RunStep(r)
    PROVE  CrewInv'
<1> USE DEF TypeInv, TypeOK
<1>1. /\ Live(r)
      /\ \A q \in RunIds \ {r} : run'[q] = run[q]
      /\ run'[r].pc # "done" => run'[r].parent = run[r].parent /\ run'[r].task = run[r].task
      /\ run[r].pc = "waiting" => Resume(r)
  BY RunStepFrame
<1>2. ASSUME NEW q \in RunIds, Live(q)', run'[q].parent \notin {q, CEO}
      PROVE  /\ Live(q) /\ run'[q].parent = run[q].parent /\ run'[q].task = run[q].task
             /\ run'[run[q].parent].pc = "waiting"
             /\ run'[run[q].parent].task = run[run[q].parent].task
  <2>1. Live(q) /\ run'[q].parent = run[q].parent /\ run'[q].task = run[q].task
    BY <1>1, <1>2 DEF Live, Ended
  <2>2. run[run[q].parent].pc = "waiting" /\ run[q].parent \in RunIds
    BY <1>2, <2>1 DEF CrewInv, Runs
  <2>3. run[q].parent # r
    <3>1. SUFFICES ASSUME run[q].parent = r PROVE FALSE
      OBVIOUS
    <3>2. Resume(r) /\ q \in Crew(r)
      BY <1>1, <1>2, <2>1, <2>2, <3>1 DEF Crew
    <3>3. QED
      BY <2>1, <3>2 DEF Resume
  <2>4. QED
    BY <1>1, <2>1, <2>2, <2>3
<1>3. QED
  BY <1>2, CrewFrame

LEMMA CrewDelegation ==
    ASSUME TypeInv, CrewInv, Delegation
    PROVE  CrewInv'
<1> USE DEF TypeInv, TypeOK
<1>1. PICK team \in SUBSET RunIds : \E f \in [team -> Names] :
         CeoDelegate(team, f) \/ \E r \in RunIds : ManagerDelegate(r, team, f)
  BY DEF Delegation
<1>2. PICK f \in [team -> Names] :
         CeoDelegate(team, f) \/ \E r \in RunIds : ManagerDelegate(r, team, f)
  BY <1>1
<1>3. \A q \in team : run[q].pc = "none"
  BY <1>2 DEF CeoDelegate, ManagerDelegate, Team
\* Nobody waits for, or is, a run of the team before it starts.
<1>4. ASSUME NEW q \in RunIds, Live(q), run[q].parent \notin {q, CEO}
      PROVE  /\ run[q].parent \in RunIds \ team /\ q \notin team
             /\ run[run[q].parent].pc = "waiting"
             /\ run[run[q].parent].task = run[q].task
  BY <1>3, <1>4 DEF CrewInv, Live, Ended, Runs
<1>5. CASE CeoDelegate(team, f)
  <2>1. \A q \in team : run'[q].parent = CEO
    BY <1>1, <1>5 DEF CeoDelegate, Started, IdleRun
  <2>2. \A q \in RunIds \ team : run'[q] = run[q]
    BY <1>5 DEF CeoDelegate
  <2>3. QED
    BY <1>4, <2>1, <2>2 DEF CrewInv, Live
<1>6. ASSUME NEW r \in RunIds, ManagerDelegate(r, team, f)
      PROVE  CrewInv'
  <2>1. run[r].pc = "chat" /\ r \notin team
    BY <1>3, <1>6 DEF ManagerDelegate, ManagerActing
  <2>2. \A q \in team : run'[q].parent = r /\ run'[q].task = run[r].task
    BY <1>1, <1>6 DEF ManagerDelegate, Started, IdleRun
  <2>3. \A q \in RunIds \ (team \cup {r}) : run'[q] = run[q]
    BY <1>6 DEF ManagerDelegate
  <2>4. /\ run'[r].pc = "waiting" /\ run'[r].task = run[r].task
        /\ run'[r].parent = run[r].parent
    BY <1>6, <2>1 DEF ManagerDelegate, Runs
  <2>5. Live(r)
    BY <2>1 DEF Live, Ended
  <2>6. ASSUME NEW q \in RunIds \ team, Live(q)', run'[q].parent \notin {q, CEO}
        PROVE  /\ run'[run'[q].parent].pc = "waiting"
               /\ run'[run'[q].parent].task = run'[q].task
    <3>1. Live(q) /\ run'[q].parent = run[q].parent /\ run'[q].task = run[q].task
      BY <2>3, <2>4, <2>5, <2>6 DEF Live
    <3>2. /\ run[q].parent \in RunIds \ team
          /\ run[run[q].parent].pc = "waiting" /\ run[run[q].parent].task = run[q].task
      BY <1>4, <2>6, <3>1
    <3>3. run[q].parent # r
      BY <2>1, <3>2
    <3>4. QED
      BY <2>3, <3>1, <3>2, <3>3
  <2>7. QED
    BY <2>2, <2>4, <2>6 DEF CrewInv
<1>7. QED
  BY <1>2, <1>5, <1>6

LEMMA CrewBackground ==
    ASSUME TypeInv, CrewInv, Background
    PROVE  CrewInv'
<1> USE DEF TypeInv, TypeOK
\* A run that is waiting is not disturbed by one that is not live.
<1>1. ASSUME NEW r \in RunIds, ~Live(r), run' = [run EXCEPT ![r] = Spent]
      PROVE  CrewInv'
  BY <1>1, SpentType DEF CrewInv, Live, Ended, Runs
<1>2. ASSUME NEW r \in RunIds, NEW n \in Names, NEW o \in Objectives \cup {NoObj},
             Spawn(r, n, o)
      PROVE  CrewInv'
  <2>1. run'[r].parent = r /\ run[r].pc = "none"
    BY <1>2, StartedType DEF Spawn, Fresh
  <2>2. \A q \in RunIds \ {r} : run'[q] = run[q]
    BY <1>2 DEF Spawn
  <2>3. QED
    BY <2>1, <2>2 DEF CrewInv, Live, Runs
<1>3. ASSUME NEW t \in RunIds, Cancel(t)
      PROVE  CrewInv'
  <2>1. \A q \in Members(t) : run'[q].pc = "done"
    BY <1>3, OverType DEF Cancel, Members
  <2>2. \A q \in RunIds \ Members(t) : run'[q] = run[q]
    BY <1>3 DEF Cancel
  <2>3. ASSUME NEW q \in RunIds, Live(q)', run'[q].parent \notin {q, CEO}
        PROVE  /\ Live(q) /\ run'[q].parent = run[q].parent /\ run'[q].task = run[q].task
               /\ run'[run[q].parent].pc = "waiting"
               /\ run'[run[q].parent].task = run[run[q].parent].task
    <3>1. q \notin Members(t) /\ run'[q] = run[q] /\ Live(q)
      BY <2>1, <2>2, <2>3 DEF Live, Ended
    <3>2. /\ run[q].parent \in RunIds /\ run[run[q].parent].pc = "waiting"
          /\ run[run[q].parent].task = run[q].task
      BY <2>3, <3>1 DEF CrewInv, Runs
    <3>3. run[q].parent \notin Members(t)
      BY <3>1, <3>2 DEF Members
    <3>4. QED
      BY <2>2, <3>1, <3>2, <3>3
  <2>4. QED
    BY <2>3, CrewFrame
<1>4. ASSUME NEW r \in RunIds, HarvestToCeo(r) \/ Bank(r)
      PROVE  CrewInv'
  <2>1. \/ run' = run
        \/ ~Live(r) /\ run' = [run EXCEPT ![r] = Spent]
    BY <1>4 DEF HarvestToCeo, Bank
  <2>2. QED
    BY <1>1, <2>1 DEF CrewInv, Live
<1>5. ASSUME NEW r \in RunIds, NEW q \in RunIds, HarvestToOwner(r, q)
      PROVE  CrewInv'
  <2>1. PICK n \in RoutedTo(r, pending \ {r}) :
           run' = [run EXCEPT ![r] = Spent, ![q] = Started(q, n, q, q, run[r].objective)]
    BY <1>5 DEF HarvestToOwner
  <2>2. run'[q].parent = q /\ run[q].pc = "none" /\ ~Live(r)
    BY <1>5, <2>1, StartedType DEF HarvestToOwner, Fresh, RoutedTo, Runs
  <2>3. \A p \in RunIds \ {q, r} : run'[p] = run[p]
    BY <2>1
  <2>4. q # r
    BY <1>5 DEF HarvestToOwner, Fresh
  <2>5. run'[r].pc = "done"
    BY <2>1, <2>4, SpentType
  <2>6. QED
    BY <2>2, <2>3, <2>5 DEF CrewInv, Live, Ended, Runs
<1>6. CASE \E r \in RunIds, n \in Names, o \in Objectives \cup {NoObj} : Dispatch(r, n, o)
  BY <1>2, <1>6 DEF Dispatch
<1>7. CASE \E r \in RunIds, n \in Names : DispatchReview(r, n)
  BY <1>2, <1>7 DEF DispatchReview
<1>8. QED
  BY <1>3, <1>4, <1>5, <1>6, <1>7 DEF Background

LEMMA CrewNext == TypeInv /\ CrewInv /\ [Next]_vars => CrewInv'
<1> SUFFICES ASSUME TypeInv, CrewInv, [Next]_vars PROVE CrewInv'
  OBVIOUS
<1>1. CASE Staffing
  <2>1. CASE FireEnds
    <3>1. \A r \in RunIds : Live(r) => /\ run'[r].pc = run[r].pc
                                       /\ run'[r].parent = run[r].parent
                                       /\ run'[r].task = run[r].task
      BY <2>1, FireFrame
    <3>2. \A r \in RunIds : ~Live(r) => ~Live(r)'
      BY <2>1, FireFrame DEF Live
    <3>3. \A r \in RunIds : run[r].pc = "waiting" => Live(r)
      BY DEF Live, Ended
    <3>4. \A r \in RunIds : run[r].parent \in {CEO} \cup RunIds
      BY DEF TypeInv, TypeOK, Runs
    <3>5. QED
      BY <3>1, <3>2, <3>3, <3>4 DEF CrewInv
  <2>2. QED
    BY <1>1, <2>1 DEF Staffing, CeoHire, ManagerHire, HireAs, Fire, AssignOwner, CrewInv, Live
<1>2. CASE Restart
  <2>1. \A r \in RunIds : run'[r].pc \in Ended
    BY <1>2, SpentType DEF Restart, Ended
  <2>2. QED
    BY <2>1 DEF CrewInv, Live
<1>3. CASE Stop \/ CeoExits \/ UNCHANGED vars
  BY <1>3 DEF Stop, CeoExits, vars, CrewInv, Live
<1>4. QED
  BY <1>1, <1>2, <1>3, CrewRunStep, CrewDelegation, CrewBackground DEF Next

LEMMA CrewInit == Init => CrewInv
BY DEF Init, CrewInv, IdleRun, Live, Ended

(* A delegated run never outlives the run that waits for it: not when the  *)
(* manager finishes, not when a fire aborts it, not across a restart.      *)
THEOREM CrewNeverOutlivesHolds == Spec => []CrewNeverOutlivesManager
<1>1. Spec => []CrewInv
  BY CrewInit, CrewNext, TypeCorrect, PTL DEF Spec
<1>2. QED
  BY <1>1, CrewImplies, PTL

-----------------------------------------------------------------------------
(* Seats.  A record that is off the denied seats stays off them, so a run  *)
(* that loaded an allowed seat finds one whenever it looks again.          *)
Settling == {"loaded", "claimed"}

SeatInv ==
    \A r \in RunIds : Live(r) /\ run[r].pc # "start" =>
        /\ run[r].model \notin Denied => row[run[r].agent].model \notin Denied
        /\ run[r].pc \notin Settling => run[r].model \notin Denied

LEMMA SeatImplies == SeatInv => ChatsOnAllowedSeat
BY DEF SeatInv, ChatsOnAllowedSeat, Settling, Live, Ended

(* Enough for a step: no record goes to a denied seat, and a run that is   *)
(* past its load afterwards was so before, with the same agent and seat.   *)
RowsKept == \A n \in Names : row[n].model \notin Denied => row'[n].model \notin Denied

RunKept(r) ==
    Live(r)' /\ run'[r].pc # "start" =>
        /\ Live(r) /\ run[r].pc # "start"
        /\ run'[r].agent = run[r].agent /\ run'[r].model = run[r].model
        /\ run[r].pc \in Settling => run'[r].pc \in Settling

LEMMA SeatFrame ==
    ASSUME TypeInv, SeatInv, RowsKept, \A r \in RunIds : RunKept(r)
    PROVE  SeatInv'
BY DEF SeatInv, RowsKept, RunKept, TypeInv, TypeOK

LEMMA SeatRunStep ==
    ASSUME TypeInv, SeatInv, NEW r \in RunIds, RunStep(r)
    PROVE  SeatInv'
<1> USE DEF TypeInv, TypeOK
<1>1. /\ run[r] \in Runs /\ Live(r) /\ run[r].agent \in Names
      /\ \A q \in RunIds \ {r} : run'[q] = run[q]
      /\ run'[r].pc # "done" => run'[r].agent = run[r].agent
  BY RunStepFrame
\* It remains to look at the row and at r itself.
<1>2. ASSUME RowsKept,
             Live(r)' => /\ run'[r].model \notin Denied => row'[run[r].agent].model \notin Denied
                         /\ run'[r].pc \notin Settling => run'[r].model \notin Denied
      PROVE  SeatInv'
  <2>1. ASSUME NEW q \in RunIds \ {r}, Live(q)', run'[q].pc # "start"
        PROVE  /\ run'[q].model \notin Denied => row'[run'[q].agent].model \notin Denied
               /\ run'[q].pc \notin Settling => run'[q].model \notin Denied
    BY <1>1, <1>2, <2>1 DEF SeatInv, RowsKept, Live
  <2>2. Live(r)' => run'[r].agent = run[r].agent
    BY <1>1 DEF Live, Ended
  <2>3. QED
    BY <1>2, <2>1, <2>2 DEF SeatInv
<1>3. CASE Load(r)
  <2> DEFINE a   == row[run[r].agent]
             rec == [run[r] EXCEPT !.pc = "loaded", !.hist = a.hist, !.model = a.model]
  <2>1. rec.pc = "loaded" /\ rec.model = a.model
    BY <1>1 DEF Runs
  <2>2. run'[r] = rec \/ run'[r] = Over(r)
    BY <1>3 DEF Load
  <2>3. row' = row
    BY <1>3 DEF Load
  <2> HIDE DEF rec
  <2>4. QED
    BY <1>2, <2>1, <2>2, <2>3, OverType DEF Live, Ended, Settling, RowsKept
<1>4. CASE Claim(r)
  <2>1. /\ row' = row /\ run[r].pc = "loaded" /\ run'[r].pc = "claimed"
        /\ run'[r].model = run[r].model
    BY <1>1, <1>4 DEF Claim, Runs
  <2>2. QED
    BY <1>1, <1>2, <2>1 DEF SeatInv, Settling, RowsKept
<1>5. CASE Seat(r)
  <2> DEFINE home == IF run[r].model \in Denied THEN Floor ELSE run[r].model
  <2>1. run[r].pc = "claimed" /\ home \in Models \ Denied
    BY <1>1, <1>5, Consts DEF Seat, cheaper_peer, Runs
  <2>2. PICK m \in {home} \cup PeersOf[home] : run'[r].model = m
    BY <1>1, <1>5 DEF Seat, cheaper_peer, Runs
  <2>3. m \notin Denied
    BY <2>1, <2>2, Consts
  <2>4. row' = IF run[r].model \in Denied
               THEN SavedRow(run[r].agent, Floor, run[r].hist) ELSE row
    BY <1>5 DEF Seat, cheaper_peer
  <2>5. RowsKept /\ row'[run[r].agent].model \notin Denied
    <3>1. run[r].hist \in SUBSET RunIds /\ Floor \in Models \ Denied
      BY <1>1, Consts DEF Runs
    <3>2. CASE run[r].model \in Denied
      BY <1>1, <2>4, <3>1, <3>2, SavedType DEF RowsKept
    <3>3. CASE run[r].model \notin Denied
      BY <1>1, <2>1, <2>4, <3>3 DEF RowsKept, SeatInv
    <3>4. QED
      BY <3>2, <3>3
  <2>6. QED
    BY <1>2, <2>2, <2>3, <2>5
<1>6. CASE TakeTurn(r)
  <2>1. run[r].pc = "turn" /\ row' = row /\ run'[r].model = row[run[r].agent].model
    BY <1>1, <1>6 DEF TakeTurn, Runs
  <2>2. row[run[r].agent].model \notin Denied
    BY <1>1, <2>1 DEF SeatInv, Settling
  <2>3. QED
    BY <1>2, <2>1, <2>2 DEF RowsKept
<1>7. CASE Save(r)
  <2>1. /\ run[r].pc = "saving" /\ run'[r].model = run[r].model
        /\ row' = SavedRow(run[r].agent, run[r].model, run[r].hist \cup {r})
    BY <1>1, <1>7 DEF Save, Runs
  <2>2. run[r].model \in Models \ Denied /\ run[r].hist \cup {r} \in SUBSET RunIds
    BY <1>1, <2>1 DEF SeatInv, Settling, Runs
  <2>3. RowsKept /\ row'[run[r].agent].model \notin Denied
    BY <1>1, <2>1, <2>2, SavedType DEF RowsKept
  <2>4. QED
    BY <1>2, <2>1, <2>2, <2>3
<1>8. CASE Refused(r) \/ Release(r)
  <2>1. row' = row /\ run'[r].pc = "done"
    BY <1>8, OverType DEF Refused, Release
  <2>2. QED
    BY <1>2, <2>1 DEF RowsKept, Live, Ended
<1>9. CASE Interrupted(r) \/ SeesFired(r) \/ NextTurn(r) \/ Finish(r) \/ Resume(r)
  <2>1. row' = row /\ run'[r].model = run[r].model
    BY <1>1, <1>9 DEF Interrupted, SeesFired, NextTurn, Finish, Resume, Runs
  <2>2. run[r].pc \in {"turn", "chat", "final", "waiting"}
    BY <1>9 DEF Interrupted, SeesFired, NextTurn, Finish, Resume
  <2>3. QED
    BY <1>1, <1>2, <2>1, <2>2 DEF SeatInv, Settling, RowsKept
<1>10. QED
  BY <1>3, <1>4, <1>5, <1>6, <1>7, <1>8, <1>9 DEF RunStep

LEMMA SeatOthers ==
    ASSUME TypeInv, SeatInv,
           Staffing \/ Delegation \/ Background \/ Stop \/ CeoExits \/ Restart \/ UNCHANGED vars
    PROVE  SeatInv'
<1> USE DEF TypeInv, TypeOK
<1>0. ASSUME row' = row, \A r \in RunIds : RunKept(r)
      PROVE  SeatInv'
  BY <1>0, SeatFrame DEF RowsKept
\* Enough for one run: as it was, over, or not begun.
<1>1. ASSUME NEW r \in RunIds, run'[r] = run[r] \/ run'[r].pc \in {"none", "done", "start"}
      PROVE  RunKept(r)
  BY <1>1 DEF RunKept, Live, Ended
<1>2. CASE Staffing
  <2>1. ASSUME NEW n \in Names, NEW m \in Models, NEW b \in BOOLEAN, HireAs(n, m, b)
        PROVE  SeatInv'
    <3>1. RowsKept
      BY <2>1 DEF HireAs, RowsKept
    <3>2. \A r \in RunIds : RunKept(r)
      BY <1>1, <2>1 DEF HireAs
    <3>3. QED
      BY <3>1, <3>2, SeatFrame
  <2>2. ASSUME NEW n \in Names, Fire(n)
        PROVE  SeatInv'
    <3>1. RowsKept
      BY <2>2 DEF Fire, RowsKept, Rows
    <3>2. \A r \in RunIds : RunKept(r)
      BY <1>1, <2>2 DEF Fire
    <3>3. QED
      BY <3>1, <3>2, SeatFrame
  <2>5. CASE FireEnds
    <3>1. ASSUME NEW r \in RunIds PROVE RunKept(r)
      BY <2>5, FireFrame DEF RunKept, Live
    <3>2. row' = row
      BY <2>5 DEF FireEnds
    <3>3. QED
      BY <1>0, <3>1, <3>2
  <2>3. ASSUME NEW o \in Objectives, NEW n \in Names \cup {NoOne}, AssignOwner(o, n)
        PROVE  SeatInv'
    BY <1>0, <1>1, <2>3 DEF AssignOwner
  <2>4. QED
    BY <1>2, <2>1, <2>2, <2>3, <2>5 DEF Staffing, CeoHire, ManagerHire
<1>3. CASE Delegation
  <2>1. PICK team \in SUBSET RunIds : \E f \in [team -> Names] :
           CeoDelegate(team, f) \/ \E r \in RunIds : ManagerDelegate(r, team, f)
    BY <1>3 DEF Delegation
  <2>2. PICK f \in [team -> Names] :
           CeoDelegate(team, f) \/ \E r \in RunIds : ManagerDelegate(r, team, f)
    BY <2>1
  <2>3. \A q \in team : run'[q].pc = "start"
    BY <2>1, <2>2 DEF CeoDelegate, ManagerDelegate, Started, IdleRun
  <2>4. ASSUME NEW q \in RunIds \ team
        PROVE  RunKept(q)
    <3>1. run[q] \in Runs
      OBVIOUS
    <3>2. \/ run'[q] = run[q]
          \/ run[q].pc = "chat" /\ run'[q] = [run[q] EXCEPT !.pc = "waiting"]
      BY <2>2 DEF CeoDelegate, ManagerDelegate, ManagerActing
    <3>3. QED
      BY <1>1, <3>1, <3>2 DEF RunKept, Runs, Live, Ended, Settling
  <2>5. row' = row
    BY <2>2 DEF CeoDelegate, ManagerDelegate
  <2>6. QED
    BY <1>0, <1>1, <2>3, <2>4, <2>5
<1>4. CASE Background
  <2>1. ASSUME NEW r \in RunIds, NEW n \in Names, NEW o \in Objectives \cup {NoObj},
               Spawn(r, n, o), row' = row
        PROVE  SeatInv'
    BY <1>0, <1>1, <2>1 DEF Spawn, Started, IdleRun
  <2>2. ASSUME NEW t \in RunIds, Cancel(t)
        PROVE  SeatInv'
    BY <1>0, <1>1, <2>2, OverType DEF Cancel
  <2>3. ASSUME NEW r \in RunIds, HarvestToCeo(r) \/ Bank(r)
        PROVE  SeatInv'
    BY <1>0, <1>1, <2>3, SpentType DEF HarvestToCeo, Bank
  <2>4. ASSUME NEW r \in RunIds, NEW q \in RunIds, HarvestToOwner(r, q)
        PROVE  SeatInv'
    BY <1>0, <1>1, <2>4, SpentType DEF HarvestToOwner, Started, IdleRun
  <2>5. CASE \E r \in RunIds, n \in Names, o \in Objectives \cup {NoObj} : Dispatch(r, n, o)
    BY <2>1, <2>5 DEF Dispatch
  <2>6. CASE \E r \in RunIds, n \in Names : DispatchReview(r, n)
    BY <2>1, <2>6 DEF DispatchReview
  <2>7. QED
    BY <1>4, <2>2, <2>3, <2>4, <2>5, <2>6 DEF Background
<1>5. CASE Restart
  BY <1>0, <1>1, <1>5, SpentType DEF Restart
<1>6. CASE Stop \/ CeoExits \/ UNCHANGED vars
  BY <1>0, <1>1, <1>6 DEF Stop, CeoExits, vars
<1>7. QED
  BY <1>2, <1>3, <1>4, <1>5, <1>6

LEMMA SeatInit == Init => SeatInv
BY DEF Init, SeatInv, IdleRun, Live, Ended

(* Whatever mix of re-hires, stale loads and write-backs, somebody hired   *)
(* before their seat was denied is not seated on it at a model call.       *)
THEOREM AllowedSeatHolds == Spec => []ChatsOnAllowedSeat
<1>1. TypeInv /\ SeatInv /\ [Next]_vars => SeatInv'
  BY SeatRunStep, SeatOthers DEF Next
<1>2. Spec => []SeatInv
  BY <1>1, SeatInit, TypeCorrect, PTL DEF Spec
<1>3. QED
  BY <1>2, SeatImplies, PTL
=============================================================================
