----------------------------- MODULE CrewProofs -----------------------------
(* Proofs about Crew, for every value of its constants.                    *)
EXTENDS Crew, TLAPS

LEMMA Consts ==
    /\ Floor \in Models \ Denied
    /\ Denied \subseteq Models
    /\ \A m \in Models : PeersOf[m] \subseteq Models \ Denied
    /\ MaxTurns \in Nat /\ MaxRuns \in Nat /\ MaxRestarts \in Nat
    /\ NoOne \notin Names
BY SeatsAssumption, SizesAssumption, NobodyAssumption
   DEF SeatsAssumption, SizesAssumption, NobodyAssumption

(* A run starts with no turn taken and has one left at the loop head.      *)
TurnsLeft ==
    \A r \in RunIds : /\ run[r].pc \in {"start", "loaded", "claimed"} => run[r].turns = 0
                      /\ run[r].pc = "turn" => run[r].turns < MaxTurns

TypeInv == TypeOK /\ TurnsLeft

LEMMA SpentType ==
    /\ IdleRun \in Runs /\ IdleRun.pc = "none"
    /\ Spent \in Runs /\ Spent.pc = "done"
<1>1. 0 \in 0 .. MaxTurns
  BY Consts
<1>2. IdleRun \in Runs
  BY <1>1, Consts DEF IdleRun, Runs, Points, CEO
<1>3. QED
  BY <1>2 DEF Spent, IdleRun, Runs, Points

LEMMA OverType ==
    ASSUME TypeOK, NEW r \in RunIds
    PROVE  /\ Over(r) \in Runs
           /\ Over(r).pc = "done"
           /\ r \in pending => Over(r).agent = run[r].agent
BY SpentType DEF Over, TypeOK, Runs, Spent, IdleRun

LEMMA StartedType ==
    ASSUME NEW q \in RunIds, NEW n \in Names, NEW p \in {CEO} \cup RunIds,
           NEW t \in {CEO} \cup RunIds, NEW o \in Objectives \cup {NoObj}
    PROVE  /\ Started(q, n, p, t, o) \in Runs
           /\ Started(q, n, p, t, o).pc = "start"
           /\ Started(q, n, p, t, o).agent = n
           /\ Started(q, n, p, t, o).parent = p
           /\ Started(q, n, p, t, o).task = t
           /\ Started(q, n, p, t, o).turns = 0
BY SpentType DEF Started, Runs, IdleRun, Points

LEMMA SavedType ==
    ASSUME TypeOK, NEW n \in Names, NEW m \in Models, NEW h \in SUBSET RunIds
    PROVE  /\ SavedRow(n, m, h) \in [Names -> Rows]
           /\ \A x \in Names : x # n => SavedRow(n, m, h)[x] = row[x]
           /\ SavedRow(n, m, h)[n].active
           /\ SavedRow(n, m, h)[n].model = m
<1>1. row[n] \in Rows
  BY DEF TypeOK
<1> DEFINE new == [row[n] EXCEPT !.active = TRUE, !.model = m, !.hist = h]
<1>2. new \in Rows /\ new.active /\ new.model = m
  BY <1>1 DEF Rows
<1>3. SavedRow(n, m, h) = [row EXCEPT ![n] = new]
  BY <1>1 DEF SavedRow, TypeOK, Rows
<1>4. QED
  BY <1>2, <1>3 DEF TypeOK

LEMMA TypeInit == Init => TypeInv
BY Consts, SpentType DEF Init, TypeInv, TypeOK, TurnsLeft, Rows, IdleRun, Live, Ended

LEMMA MovedType ==
    ASSUME TypeInv, NEW r \in RunIds, Live(r), NEW rec \in Runs,
           rec.agent = run[r].agent,
           rec.pc \notin {"none", "start", "loaded", "claimed", "turn"},
           run' = [run EXCEPT ![r] = rec], row' \in [Names -> Rows],
           UNCHANGED <<owner, running, pending, firing, phase, restarts>>
    PROVE  TypeInv'
<1>1. run' \in [RunIds -> Runs] /\ run'[r] = rec
  BY DEF TypeInv, TypeOK
<1>2. \A q \in RunIds \ {r} : run'[q] = run[q]
  BY DEF TypeInv, TypeOK
<1>3. QED
  BY <1>1, <1>2 DEF TypeInv, TypeOK, TurnsLeft, Live, Ended

LEMMA TypeStep ==
    ASSUME TypeInv, NEW r \in RunIds, RunStep(r)
    PROVE  TypeInv'
<1> USE DEF TypeInv, TypeOK, TurnsLeft, Live, Ended
<1>1. CASE Load(r)
  <2> DEFINE a   == row[run[r].agent]
             rec == [run[r] EXCEPT !.pc = "loaded", !.hist = a.hist, !.model = a.model]
  <2>1. run[r] \in Runs /\ a \in Rows
    BY <1>1 DEF Load
  <2>2. rec \in Runs /\ rec.pc = "loaded" /\ rec.agent = run[r].agent
    BY <2>1 DEF Runs, Rows, Points
  <2>3. run' = [run EXCEPT ![r] = IF a.active THEN rec ELSE Over(r)]
    BY <1>1 DEF Load
  <2> HIDE DEF rec, a
  <2>4. QED
    BY <1>1, <2>2, <2>3, OverType DEF Load
<1>2. CASE Claim(r)
  BY <1>2 DEF Claim, Runs, Points
<1>3. CASE Refused(r)
  BY <1>3, OverType DEF Refused
<1>4. CASE Seat(r)
  <2>1. PICK m \in Models, pc \in {"turn", "saving", "final"} :
              /\ run' = [run EXCEPT ![r].pc = pc, ![r].model = m]
              /\ pc = "turn" => 0 < MaxTurns
    BY <1>4, Consts DEF Seat, cheaper_peer, Runs
  <2>2. row' \in [Names -> Rows]
    BY <1>4, Consts DEF Seat, cheaper_peer, SavedRow, Runs, Rows
  <2> DEFINE rec == [run[r] EXCEPT !.pc = pc, !.model = m]
  <2>a. run[r] \in Runs /\ pc \in Points
    BY <2>1 DEF Points
  <2>b. rec \in Runs
    BY <2>a, <2>1 DEF Runs
  <2>c. run' = [run EXCEPT ![r] = rec]
    BY <2>1
  <2>3. run' \in [RunIds -> Runs]
    BY <2>b, <2>c
  <2>4. run'[r].pc = pc /\ run'[r].agent = run[r].agent /\ run'[r].turns = 0
    BY <1>4, <2>1 DEF Seat, cheaper_peer, Runs
  <2>5. \A q \in RunIds \ {r} : run'[q] = run[q]
    BY <2>1
  <2>6. QED
    BY <1>4, <2>1, <2>2, <2>3, <2>4, <2>5 DEF Seat, cheaper_peer
<1>5. CASE Interrupted(r)
  BY <1>5 DEF Interrupted, Runs, Points
<1>6. CASE SeesFired(r)
  BY <1>6 DEF SeesFired, Runs, Points
<1>7. CASE TakeTurn(r)
  <2> DEFINE a   == row[run[r].agent]
             rec == [run[r] EXCEPT !.pc = "chat", !.turns = run[r].turns + 1,
                                   !.model = a.model, !.manages = a.manager]
  <2>1. /\ run[r] \in Runs /\ run[r].pc = "turn" /\ Live(r) /\ run[r].agent \in Names
        /\ run' = [run EXCEPT ![r] = rec]
        /\ UNCHANGED <<row, owner, running, pending, firing, phase, restarts>>
    BY <1>7 DEF TakeTurn
  <2>2. a.model \in Models /\ a.manager \in BOOLEAN
    BY <2>1 DEF Rows
  <2>3. run[r].turns + 1 \in 0 .. MaxTurns
    BY <2>1, Consts DEF Runs
  <2>4. rec \in Runs /\ rec.agent = run[r].agent /\ rec.pc = "chat"
    <3> HIDE DEF a
    <3>1. QED
      BY <2>1, <2>2, <2>3 DEF Runs, Points
  <2>5. QED
    <3> HIDE DEF rec
    <3>1. QED
      BY <2>1, <2>4, MovedType
<1>8. CASE NextTurn(r)
  <2>1. PICK pc \in {"turn", "saving", "final"} :
              /\ run' = [run EXCEPT ![r].pc = pc]
              /\ pc = "turn" => run[r].turns < MaxTurns
    BY <1>8 DEF NextTurn
  <2>2. QED
    BY <1>8, <2>1 DEF NextTurn, Runs, Points
<1>9. CASE Finish(r)
  BY <1>9 DEF Finish, Runs, Points
<1>10. CASE Save(r)
  <2>1. row' \in [Names -> Rows]
    <3>1. run[r] \in Runs /\ run[r].hist \cup {r} \in SUBSET RunIds /\ run[r].model \in Models
      BY DEF Runs
    <3>2. QED
      BY <1>10, <3>1, SavedType DEF Save
  <2> DEFINE rec == [run[r] EXCEPT !.pc = "releasing"]
  <2>2. Live(r) /\ run' = [run EXCEPT ![r] = rec]
        /\ UNCHANGED <<owner, running, pending, firing, phase, restarts>>
    BY <1>10 DEF Save
  <2>3. rec \in Runs /\ rec.agent = run[r].agent /\ rec.pc = "releasing"
    BY DEF Runs, Points
  <2>4. QED
    <3> HIDE DEF rec
    <3>1. QED
      BY <2>1, <2>2, <2>3, MovedType
<1>11. CASE Release(r)
  BY <1>11, OverType DEF Release
<1>12. CASE Resume(r)
  BY <1>12 DEF Resume, Runs, Points
<1>13. QED
  BY <1>1, <1>2, <1>3, <1>4, <1>5, <1>6, <1>7, <1>8, <1>9, <1>10, <1>11, <1>12 DEF RunStep

LEMMA TypeStaffing ==
    ASSUME TypeInv, Staffing
    PROVE  TypeInv'
<1> USE DEF TypeInv, TypeOK, TurnsLeft, Live, Ended
<1>1. ASSUME NEW n \in Names, NEW m \in Models, NEW b \in BOOLEAN, HireAs(n, m, b)
      PROVE  TypeInv'
  BY <1>1 DEF HireAs, Rows
<1>2. CASE FireEnds
  <2>1. owner' \in [Objectives -> Names \cup {NoOne}]
    BY <1>2 DEF FireEnds, Disowned
  <2>2. pending' \subseteq pending
    BY <1>2 DEF FireEnds
  <2>3. \A r \in RunIds : /\ run'[r] \in Runs
                          /\ \/ run'[r] = run[r]
                             \/ run'[r].pc = run[r].pc /\ run'[r].agent = run[r].agent
                                /\ run'[r].turns = run[r].turns
                             \/ run'[r] = Spent /\ r \notin pending'
    <3> TAKE r \in RunIds
    <3>1. CASE r \notin pending \ pending'
      BY <1>2, <3>1 DEF FireEnds
    <3>2. CASE r \in pending \ pending' /\ run[r].pc \in Ended
      BY <1>2, <3>2, SpentType DEF FireEnds
    <3>3. CASE r \in pending \ pending' /\ run[r].pc \notin Ended
      <4>1. run'[r] = [run[r] EXCEPT !.aborted = TRUE]
        BY <1>2, <3>3 DEF FireEnds
      <4>2. run[r] \in Runs
        OBVIOUS
      <4>3. QED
        BY <4>1, <4>2 DEF Runs
    <3>4. QED
      BY <3>1, <3>2, <3>3
  <2>4. run' \in [RunIds -> Runs]
    BY <1>2, <2>3 DEF FireEnds
  <2>5. QED
    BY <1>2, <2>1, <2>2, <2>3, <2>4, SpentType DEF FireEnds
<1>3. ASSUME NEW o \in Objectives, NEW n \in Names \cup {NoOne}, AssignOwner(o, n)
      PROVE  TypeInv'
  BY <1>3 DEF AssignOwner
<1>4. ASSUME NEW n \in Names, Fire(n)
      PROVE  TypeInv'
  BY <1>4 DEF Fire, Rows
<1>5. QED
  BY <1>1, <1>2, <1>3, <1>4 DEF Staffing, CeoHire, ManagerHire

LEMMA TypeDelegation ==
    ASSUME TypeInv, Delegation
    PROVE  TypeInv'
<1> USE DEF TypeInv, TypeOK, TurnsLeft, Live, Ended
<1>0. PICK team \in SUBSET RunIds : \E f \in [team -> Names] :
         CeoDelegate(team, f) \/ \E r \in RunIds : ManagerDelegate(r, team, f)
  BY DEF Delegation
<1>1. PICK f \in [team -> Names] :
         CeoDelegate(team, f) \/ \E r \in RunIds : ManagerDelegate(r, team, f)
  BY <1>0
<1>2. CASE CeoDelegate(team, f)
  <2>1. \A q \in team : Started(q, f[q], CEO, CEO, NoObj) \in Runs
    BY StartedType
  <2>2. run' \in [RunIds -> Runs]
    BY <1>2, <2>1 DEF CeoDelegate
  <2>3. \A q \in team : /\ run'[q].pc = "start" /\ run'[q].turns = 0
                        /\ run'[q].agent \in Names
    <3> TAKE q \in team
    <3>1. run'[q] = Started(q, f[q], CEO, CEO, NoObj)
      BY <1>0, <1>2 DEF CeoDelegate
    <3>2. /\ q \in RunIds /\ f[q] \in Names
          /\ CEO \in {CEO} \cup RunIds /\ NoObj \in Objectives \cup {NoObj}
      BY <1>0, <1>1
    <3> HIDE DEF TypeInv, TypeOK, TurnsLeft, Live, Ended
    <3>3. /\ Started(q, f[q], CEO, CEO, NoObj).pc = "start"
          /\ Started(q, f[q], CEO, CEO, NoObj).turns = 0
          /\ Started(q, f[q], CEO, CEO, NoObj).agent = f[q]
      BY DEF Started, IdleRun
    <3>4. QED
      BY <3>1, <3>2, <3>3
  <2>4. \A q \in RunIds \ team : run'[q] = run[q]
    BY <1>2 DEF CeoDelegate
  <2>5. QED
    BY <1>2, <2>2, <2>3, <2>4 DEF CeoDelegate
<1>3. ASSUME NEW r \in RunIds, ManagerDelegate(r, team, f)
      PROVE  TypeInv'
  <2>1. \A q \in team : Started(q, f[q], r, run[r].task, NoObj) \in Runs
    BY StartedType DEF Runs
  <2>2. [run[r] EXCEPT !.pc = "waiting"] \in Runs
    BY DEF Runs, Points
  <2>3. run' \in [RunIds -> Runs]
    BY <1>3, <2>1, <2>2 DEF ManagerDelegate
  <2>4. \A q \in team : /\ run'[q].pc = "start" /\ run'[q].turns = 0
                        /\ run'[q].agent \in Names
    <3> TAKE q \in team
    <3>1. run'[q] = Started(q, f[q], r, run[r].task, NoObj)
      BY <1>3 DEF ManagerDelegate
    <3>2. /\ q \in RunIds /\ f[q] \in Names /\ NoObj \in Objectives \cup {NoObj}
          /\ run[r].task \in {CEO} \cup RunIds /\ r \in {CEO} \cup RunIds
      BY <1>0, <1>1 DEF Runs
    <3> HIDE DEF TypeInv, TypeOK, TurnsLeft, Live, Ended
    <3>3. QED
      BY <3>1, <3>2, StartedType
  <2>5. \A q \in RunIds \ team : q # r => run'[q] = run[q]
    BY <1>3 DEF ManagerDelegate
  <2>6. r \notin team => /\ run'[r].pc = "waiting" /\ run'[r].agent = run[r].agent
    BY <1>3, <2>2 DEF ManagerDelegate, Runs
  <2>7. run[r].agent \in Names
    BY <1>3 DEF ManagerDelegate, ManagerActing
  <2>8. QED
    BY <1>3, <2>3, <2>4, <2>5, <2>6, <2>7 DEF ManagerDelegate
<1>4. QED
  BY <1>1, <1>2, <1>3

LEMMA TypeBackground ==
    ASSUME TypeInv, Background
    PROVE  TypeInv'
<1> USE DEF TypeInv, TypeOK, TurnsLeft, Live, Ended
<1>1. ASSUME NEW r \in RunIds, NEW n \in Names, NEW o \in Objectives \cup {NoObj},
             Spawn(r, n, o), pending' = pending \cup {r},
             UNCHANGED <<row, owner, running, firing, phase, restarts>>
      PROVE  TypeInv'
  <2>1. Started(r, n, r, r, o) \in Runs
    BY StartedType
  <2>2. QED
    BY <1>1, <2>1, StartedType DEF Spawn
<1>2. ASSUME NEW t \in RunIds, Cancel(t)
      PROVE  TypeInv'
  <2>1. \A q \in RunIds : \/ run'[q] = run[q]
                          \/ run'[q] = Over(q)
    BY <1>2 DEF Cancel
  <2>2. \A q \in RunIds : run'[q] \in Runs
    BY <2>1, OverType
  <2>3. run' \in [RunIds -> Runs]
    BY <1>2, <2>2 DEF Cancel
  <2>4. QED
    BY <1>2, <2>1, <2>3, OverType DEF Cancel
<1>3. ASSUME NEW r \in RunIds, HarvestToCeo(r)
      PROVE  TypeInv'
  BY <1>3, SpentType DEF HarvestToCeo
<1>4. ASSUME NEW r \in RunIds, Bank(r)
      PROVE  TypeInv'
  BY <1>4, SpentType DEF Bank
<1>5. ASSUME NEW r \in RunIds, NEW q \in RunIds, HarvestToOwner(r, q)
      PROVE  TypeInv'
  <2>1. PICK n \in RoutedTo(r, pending \ {r}) :
           run' = [run EXCEPT ![r] = Spent, ![q] = Started(q, n, q, q, run[r].objective)]
    BY <1>5 DEF HarvestToOwner
  <2>2. n \in Names /\ run[r].objective \in Objectives \cup {NoObj}
    BY <2>1 DEF RoutedTo, Runs
  <2>3. Started(q, n, q, q, run[r].objective) \in Runs
    BY <2>2, StartedType
  <2>4. q # r
    BY <1>5 DEF HarvestToOwner, Fresh
  <2>5. run' \in [RunIds -> Runs]
    BY <2>1, <2>3, SpentType
  <2>6. /\ run'[q].pc = "start" /\ run'[q].turns = 0 /\ run'[q].agent \in Names
    BY <2>1, <2>2, <2>4, StartedType
  <2>7. run'[r] = Spent /\ \A p \in RunIds \ {r, q} : run'[p] = run[p]
    BY <2>1, <2>4
  <2>8. r \notin pending' /\ pending' \subseteq pending \cup {q}
    BY <1>5, <2>4 DEF HarvestToOwner
  <2>9. QED
    BY <1>5, <2>4, <2>5, <2>6, <2>7, <2>8, SpentType DEF HarvestToOwner
<1>6. CASE \E r \in RunIds, n \in Names, o \in Objectives \cup {NoObj} : Dispatch(r, n, o)
  BY <1>1, <1>6 DEF Dispatch
<1>7. CASE \E r \in RunIds, n \in Names : DispatchReview(r, n)
  BY <1>1, <1>7 DEF DispatchReview
<1>8. QED
  BY <1>2, <1>3, <1>4, <1>5, <1>6, <1>7 DEF Background

LEMMA TypeNext == TypeInv /\ [Next]_vars => TypeInv'
<1> SUFFICES ASSUME TypeInv, [Next]_vars PROVE TypeInv'
  OBVIOUS
<1>1. CASE Stop
  BY <1>1 DEF Stop, TypeInv, TypeOK, TurnsLeft, Live
<1>2. CASE CeoExits
  BY <1>2 DEF CeoExits, TypeInv, TypeOK, TurnsLeft, Live
<1>3. CASE Restart
  <2>1. run' \in [RunIds -> Runs]
    BY <1>3, SpentType DEF Restart
  <2>2. \A r \in RunIds : run'[r] = IdleRun \/ run'[r] = Spent
    BY <1>3 DEF Restart
  <2>3. QED
    BY <1>3, <2>1, <2>2, SpentType, Consts
       DEF Restart, TypeInv, TypeOK, TurnsLeft, Live, Ended
<1>4. CASE UNCHANGED vars
  BY <1>4 DEF vars, TypeInv, TypeOK, TurnsLeft, Live
<1>5. QED
  BY <1>1, <1>2, <1>3, <1>4, TypeStep, TypeStaffing, TypeDelegation, TypeBackground DEF Next

(* Every variable keeps its shape, and no run takes more turns than the    *)
(* iteration cap of run_employee allows.                                   *)
THEOREM TypeCorrect == Spec => []TypeInv
BY TypeInit, TypeNext, PTL DEF Spec

(* The type invariant of Crew: every variable keeps its shape in every     *)
(* reachable state, and a live or pending run always runs somebody.        *)
THEOREM TypeOKHolds == Spec => []TypeOK
BY TypeCorrect, PTL DEF TypeInv

-----------------------------------------------------------------------------
(* One body, one task.  The claims are what make it inductive: a run       *)
(* inside the claim has its employee in running.                           *)
ClaimsHeld == \A r \in RunIds : Holding(r) => run[r].agent \in running

BodyInv == ClaimsHeld /\ OneBody

(* Steps other than Claim, Release and Restart leave the claims alone and  *)
(* bring no run into one.                                                  *)
Quiet ==
    /\ running' = running
    /\ \A r \in RunIds : run'[r].pc \in InClaim =>
                          Holding(r) /\ run'[r].agent = run[r].agent

LEMMA QuietKeeps == BodyInv /\ Quiet => BodyInv'
BY DEF BodyInv, Quiet, ClaimsHeld, OneBody, Holding

LEMMA RunStepQuiet ==
    ASSUME TypeInv, NEW r \in RunIds, RunStep(r)
    PROVE  Quiet \/ Claim(r) \/ Release(r)
<1> SUFFICES ASSUME ~Claim(r), ~Release(r) PROVE Quiet
  OBVIOUS
<1> USE DEF Quiet, TypeInv, TypeOK, Holding, InClaim
<1>0. run[r] \in Runs
  OBVIOUS
<1>1. CASE Load(r)
  <2>1. run'[r].pc \in {"loaded", "done"}
    BY <1>0, <1>1, OverType DEF Load, Runs
  <2>2. \A q \in RunIds \ {r} : run'[q] = run[q]
    BY <1>1 DEF Load
  <2>3. QED
    BY <1>1, <2>1, <2>2 DEF Load
<1>2. CASE Refused(r)
  BY <1>2, OverType DEF Refused
<1>3. CASE Seat(r)
  <2>1. run'[r].agent = run[r].agent /\ run[r].pc = "claimed"
    BY <1>0, <1>3 DEF Seat, cheaper_peer, Runs
  <2>2. \A q \in RunIds \ {r} : run'[q] = run[q]
    BY <1>3 DEF Seat, cheaper_peer
  <2>3. QED
    BY <1>3, <2>1, <2>2 DEF Seat, cheaper_peer
<1>4. CASE Interrupted(r)
  BY <1>4 DEF Interrupted, Runs
<1>5. CASE SeesFired(r)
  BY <1>5 DEF SeesFired, Runs
<1>6. CASE TakeTurn(r)
  BY <1>6 DEF TakeTurn, Runs
<1>7. CASE NextTurn(r)
  <2>1. run'[r].agent = run[r].agent /\ run[r].pc = "chat"
    BY <1>0, <1>7 DEF NextTurn, Runs
  <2>2. \A q \in RunIds \ {r} : run'[q] = run[q]
    BY <1>7 DEF NextTurn
  <2>3. QED
    BY <1>7, <2>1, <2>2 DEF NextTurn
<1>8. CASE Finish(r)
  BY <1>8 DEF Finish, Runs
<1>9. CASE Save(r)
  BY <1>9 DEF Save, Runs
<1>10. CASE Resume(r)
  BY <1>10 DEF Resume, Runs
<1>11. QED
  BY <1>1, <1>2, <1>3, <1>4, <1>5, <1>6, <1>7, <1>8, <1>9, <1>10 DEF RunStep

LEMMA OthersQuiet ==
    ASSUME TypeInv, Staffing \/ Delegation \/ Background \/ Stop \/ CeoExits
    PROVE  Quiet
<1> USE DEF Quiet, TypeInv, TypeOK, Holding, InClaim
<1>1. CASE Staffing
  <2>1. CASE FireEnds
    <3>1. \A r \in RunIds : \/ run'[r] = run[r]
                            \/ run'[r] = [run[r] EXCEPT !.aborted = TRUE]
                            \/ run'[r] = Spent
      BY <2>1 DEF FireEnds
    <3>2. \A r \in RunIds : run[r] \in Runs
      OBVIOUS
    <3>3. \A r \in RunIds : run'[r].pc \in InClaim =>
             run[r].pc \in InClaim /\ run'[r].agent = run[r].agent
      <4> TAKE r \in RunIds
      <4>1. CASE run'[r] = [run[r] EXCEPT !.aborted = TRUE]
        BY <3>2, <4>1 DEF Runs
      <4>2. CASE run'[r] = Spent
        BY <4>2, SpentType
      <4>3. QED
        BY <3>1, <4>1, <4>2
    <3>4. QED
      BY <2>1, <3>3 DEF FireEnds
  <2>2. QED
    BY <1>1, <2>1 DEF Staffing, CeoHire, ManagerHire, HireAs, Fire, AssignOwner
<1>2. CASE Delegation
  <2>1. PICK team \in SUBSET RunIds : \E f \in [team -> Names] :
           CeoDelegate(team, f) \/ \E r \in RunIds : ManagerDelegate(r, team, f)
    BY <1>2 DEF Delegation
  <2>2. PICK f \in [team -> Names] :
           CeoDelegate(team, f) \/ \E r \in RunIds : ManagerDelegate(r, team, f)
    BY <2>1
  <2>3. CASE CeoDelegate(team, f)
    <3>1. \A q \in team : run'[q].pc = "start"
      BY <2>1, <2>3 DEF CeoDelegate, Started, IdleRun
    <3>2. \A q \in RunIds \ team : run'[q] = run[q]
      BY <2>3 DEF CeoDelegate
    <3>3. QED
      BY <2>3, <3>1, <3>2 DEF CeoDelegate
  <2>4. ASSUME NEW r \in RunIds, ManagerDelegate(r, team, f)
        PROVE  Quiet
    <3>1. \A q \in team : run'[q].pc = "start"
      BY <2>1, <2>4 DEF ManagerDelegate, Started, IdleRun
    <3>2. \A q \in RunIds \ team : run'[q] = run[q] \/ (q = r /\ run'[q].agent = run[q].agent)
      BY <2>4 DEF ManagerDelegate, Runs
    <3>3. Holding(r)
      BY <2>4 DEF ManagerDelegate, ManagerActing
    <3>4. QED
      BY <2>4, <3>1, <3>2, <3>3 DEF ManagerDelegate
  <2>5. QED
    BY <2>2, <2>3, <2>4
<1>3. CASE Background
  <2>1. ASSUME NEW r \in RunIds, NEW n \in Names, NEW o \in Objectives \cup {NoObj},
               Spawn(r, n, o), running' = running
        PROVE  Quiet
    BY <2>1 DEF Spawn, Started, IdleRun
  <2>2. ASSUME NEW t \in RunIds, Cancel(t)
        PROVE  Quiet
    BY <2>2, OverType DEF Cancel
  <2>3. ASSUME NEW r \in RunIds, HarvestToCeo(r)
        PROVE  Quiet
    BY <2>3, SpentType DEF HarvestToCeo
  <2>4. ASSUME NEW r \in RunIds, Bank(r)
        PROVE  Quiet
    BY <2>4, SpentType DEF Bank
  <2>5. ASSUME NEW r \in RunIds, NEW q \in RunIds, HarvestToOwner(r, q)
        PROVE  Quiet
    BY <2>5, SpentType DEF HarvestToOwner, Started, IdleRun
  <2>6. CASE \E r \in RunIds, n \in Names, o \in Objectives \cup {NoObj} : Dispatch(r, n, o)
    BY <2>1, <2>6 DEF Dispatch
  <2>7. CASE \E r \in RunIds, n \in Names : DispatchReview(r, n)
    BY <2>1, <2>7 DEF DispatchReview
  <2>8. QED
    BY <1>3, <2>2, <2>3, <2>4, <2>5, <2>6, <2>7 DEF Background
<1>4. CASE Stop \/ CeoExits
  BY <1>4 DEF Stop, CeoExits
<1>5. QED
  BY <1>1, <1>2, <1>3, <1>4

LEMMA BodyNext == TypeInv /\ BodyInv /\ [Next]_vars => BodyInv'
<1> SUFFICES ASSUME TypeInv, BodyInv, [Next]_vars PROVE BodyInv'
  OBVIOUS
<1> USE DEF BodyInv, ClaimsHeld, OneBody, Holding, InClaim
<1>1. ASSUME NEW r \in RunIds, Claim(r)
      PROVE  BodyInv'
  <2>1. /\ run[r].agent \notin running /\ run'[r].agent = run[r].agent
        /\ running' = running \cup {run[r].agent}
        /\ \A q \in RunIds \ {r} : run'[q] = run[q]
    BY <1>1 DEF Claim, TypeInv, TypeOK, Runs
  <2>2. \A q \in RunIds \ {r} : Holding(q) => run[q].agent # run[r].agent
    BY <2>1
  <2>3. QED
    BY <2>1, <2>2
<1>2. ASSUME NEW r \in RunIds, Release(r)
      PROVE  BodyInv'
  <2>1. /\ Holding(r) /\ run'[r].pc = "done"
        /\ running' = running \ {run[r].agent}
        /\ \A q \in RunIds \ {r} : run'[q] = run[q]
    BY <1>2, OverType DEF Release, TypeInv, TypeOK
  <2>2. QED
    BY <2>1
<1>3. CASE Restart
  BY <1>3, SpentType DEF Restart
<1>4. CASE UNCHANGED vars
  BY <1>4 DEF vars
<1>5. CASE Quiet
  BY <1>5, QuietKeeps
<1>6. QED
  BY <1>1, <1>2, <1>3, <1>4, <1>5, RunStepQuiet, OthersQuiet DEF Next

LEMMA BodyInit == Init => BodyInv
BY DEF Init, BodyInv, ClaimsHeld, OneBody, Holding, InClaim, IdleRun

(* Whatever started them, no two runs of one employee are inside the       *)
(* one-body claim of run_employee at the same time.                        *)
THEOREM OneBodyHolds == Spec => []OneBody
<1>1. Spec => []BodyInv
  BY BodyInit, BodyNext, TypeCorrect, PTL DEF Spec
<1>2. QED
  BY <1>1, PTL DEF BodyInv

=============================================================================
