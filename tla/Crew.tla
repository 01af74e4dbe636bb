-------------------------------- MODULE Crew --------------------------------
(***************************************************************************)
(* The crew: employee runs, the one-body claim, background dispatches and  *)
(* report routing of khan's Orchestrator (src/src/agent.rs), over the      *)
(* agents table of the SQLite store (src/src/state.rs).                    *)
(*                                                                         *)
(* Every call of run_employee is a run.  A run started by dispatch,        *)
(* dispatch_review or harvest_dispatches is the root of a tokio task of    *)
(* its own; a run started by delegate or delegate_parallel lives in the    *)
(* task of its caller, so aborting a task drops every run inside it.       *)
(* Runs of different tasks interleave at every step; within one task       *)
(* control moves between runs only at an await (a model call, or a manager *)
(* waiting for its crew), which is what Alone and AtAwait say.             *)
(***************************************************************************)
EXTENDS Integers, FiniteSets

CONSTANTS
    Names,        \* employee names the company uses
    Objectives,   \* active objectives on the board
    NoOne,        \* an objective's empty owner
    NoObj,        \* the tag of company upkeep (objective 0)
    Models,       \* model slugs
    Denied,       \* seat_denylist
    Floor,        \* cfg.ceo_model, the seat a denied one moves to
    PeersOf,      \* cfg.peers_of, as a function of the model
    Ceiling,      \* MAX_EMPLOYEES
    MaxTurns,     \* cfg.employee_max_iters
    MaxRuns,      \* bound: calls of run_employee in a behaviour
    MaxRestarts   \* bound: process restarts in a behaviour

\* Config::load refuses a denied ceo_model; peers_of leaves denied seats out.
ASSUME SeatsAssumption ==
    /\ Denied \subseteq Models
    /\ Floor \in Models \ Denied
    /\ PeersOf \in [Models -> SUBSET (Models \ Denied)]

ASSUME SizesAssumption ==
    /\ MaxRuns \in Nat
    /\ MaxTurns \in Nat
    /\ MaxRestarts \in Nat
    /\ Ceiling \in Nat

ASSUME NobodyAssumption == NoOne \notin Names /\ NoObj \notin Objectives

VARIABLES
    row,        \* the agents table: one row per name
    owner,      \* objectives.owner
    running,    \* Orchestrator.running: the one-body claims
    run,        \* the calls of run_employee, as futures with their locals
    pending,    \* Orchestrator.pending: runs whose handle the CEO holds
    firing,     \* the name a fire call of the CEO is in the middle of
    phase,      \* "up", "stopping" once the stop flag is set, "exiting" once
                \* the CEO has left its loop
    restarts    \* restarts so far, bounded by MaxRestarts

vars == <<row, owner, running, run, pending, firing, phase, restarts>>

RunIds == 1 .. MaxRuns
CEO == 0    \* the CEO's own task, and the caller of its inline delegates

-----------------------------------------------------------------------------
(* Where a run is.  chat and final are the awaits on the model, waiting is *)
(* a manager's await on its crew; the other live points are synchronous    *)
(* code between two awaits.                                                *)
Points == {"none", "start", "loaded", "claimed", "turn", "chat", "waiting",
           "final", "saving", "releasing", "done"}
Ended   == {"none", "done"}
MidStep == {"loaded", "claimed", "turn", "saving", "releasing"}
InClaim == {"claimed", "turn", "chat", "waiting", "final", "saving", "releasing"}

Rows == [active: BOOLEAN, manager: BOOLEAN, model: Models, hist: SUBSET RunIds]

(* hist is a history, as the set of runs whose turns it holds.             *)
Runs == [pc: Points, agent: Names \cup {NoOne}, objective: Objectives \cup {NoObj},
         parent: {CEO} \cup RunIds, task: {CEO} \cup RunIds,
         hist: SUBSET RunIds, model: Models,
         manages: BOOLEAN, turns: 0 .. MaxTurns, aborted: BOOLEAN]

Live(r)    == run[r].pc \notin Ended
Holding(r) == run[r].pc \in InClaim
Crew(r)    == {q \in RunIds : q # r /\ run[q].parent = r}
Members(t) == {q \in RunIds : run[q].task = t /\ Live(q)}

(* A task is at an await when none of its runs is between two of them; a   *)
(* delegated run is first polled in the same step of its task that makes   *)
(* it, a spawned one waits for the scheduler.                              *)
AtAwait(t) ==
    \A q \in Members(t) : /\ run[q].pc \notin MidStep
                          /\ run[q].pc = "start" => run[q].parent = q

(* No other run of r's task is in the middle of a synchronous stretch.     *)
Alone(r) == \A q \in Members(run[r].task) \ {r} : run[q].pc \notin MidStep

(* The CEO is one sequential loop: while it awaits an inline delegate, or  *)
(* is inside a fire, it calls no other tool and harvests nothing.          *)
CEOFree == phase # "exiting" /\ Members(CEO) = {} /\ firing = NoOne
stop    == phase # "up"

Headcount == Cardinality({n \in Names : row[n].active})

-----------------------------------------------------------------------------
IdleRun ==
    [pc |-> "none", agent |-> NoOne, objective |-> NoObj, parent |-> CEO,
     task |-> CEO, hist |-> {}, model |-> Floor, manages |-> FALSE,
     turns |-> 0, aborted |-> FALSE]

(* A process start over a store that earlier runs filled: any roster, some *)
(* of it hired before a seat was denied, objectives of people a crash      *)
(* interrupted the firing of, nothing in memory.                           *)
Init ==
    /\ row \in [Names -> [active: BOOLEAN, manager: BOOLEAN, model: Models, hist: {{}}]]
    /\ owner \in [Objectives -> Names \cup {NoOne}]
    /\ running = {}
    /\ run = [r \in RunIds |-> IdleRun]
    /\ pending = {}
    /\ firing = NoOne
    /\ phase = "up"
    /\ restarts = 0

Fresh(r) == run[r].pc = "none" /\ \A q \in 1 .. r - 1 : run[q].pc # "none"

(* A run is over, by its return or because its future was dropped: of its  *)
(* record, what a pending entry still names stays until the entry goes.    *)
Spent   == [IdleRun EXCEPT !.pc = "done"]
Over(r) == IF r \in pending
           THEN [Spent EXCEPT !.agent = run[r].agent, !.objective = run[r].objective]
           ELSE Spent

-----------------------------------------------------------------------------
(* run_employee.                                                           *)

(* load_agent: the row is read before the claim is taken.                  *)
Load(r) ==
    /\ run[r].pc = "start" /\ Alone(r)
    /\ LET a == row[run[r].agent]
       IN run' = [run EXCEPT ![r] =
            IF a.active THEN [@ EXCEPT !.pc = "loaded", !.hist = a.hist, !.model = a.model]
                        ELSE Over(r)]
    /\ UNCHANGED <<row, owner, running, pending, firing, phase, restarts>>

\* Seeded fault: the claim is recorded but not tested.
ClaimUntested(r) ==
    /\ run[r].pc = "loaded" /\ Alone(r)
    /\ running' = running \cup {run[r].agent}
    /\ run' = [run EXCEPT ![r].pc = "claimed"]
    /\ UNCHANGED <<row, owner, pending, firing, phase, restarts>>

Claim(r) ==
    /\ run[r].pc = "loaded" /\ Alone(r)
    /\ run[r].agent \notin running
    /\ running' = running \cup {run[r].agent}
    /\ run' = [run EXCEPT ![r].pc = "claimed"]
    /\ UNCHANGED <<row, owner, pending, firing, phase, restarts>>

\* Seeded fault: a second run waits for the claim.
RefusedWaits(r) ==
    /\ run[r].pc = "loaded" /\ Alone(r)
    /\ run[r].agent \in running
    /\ UNCHANGED vars

(* The claim is a try-lock: a second run ends with an error report.        *)
Refused(r) ==
    /\ run[r].pc = "loaded" /\ Alone(r)
    /\ run[r].agent \in running
    /\ run' = [run EXCEPT ![r] = Over(r)]
    /\ UNCHANGED <<row, owner, running, pending, firing, phase, restarts>>

(* save_agent: an upsert that always sets active and leaves manager alone. *)
SavedRow(n, m, h) == [row EXCEPT ![n].active = TRUE, ![n].model = m, ![n].hist = h]

(* The seat a run may get for its home seat: home, or one of its peers,    *)
(* whichever is the cheapest by realized price, or due for a sample.       *)
cheaper_peer(home) == {home} \cup PeersOf[home]

\* Seeded fault: the run moves off the denied seat, the record does not.
SeatUnsaved(r) ==
    /\ run[r].pc = "claimed" /\ Alone(r)
    /\ LET home == IF run[r].model \in Denied THEN Floor ELSE run[r].model
       IN \E m \in cheaper_peer(home) :
             run' = [run EXCEPT ![r].pc = IF MaxTurns > 0 THEN "turn"
                                          ELSE IF stop THEN "saving" ELSE "final",
                                ![r].model = m]
    /\ UNCHANGED <<row, owner, running, pending, firing, phase, restarts>>

(* Re-home off a denied seat, then pick the home seat or a peer of it.     *)
Seat(r) ==
    /\ run[r].pc = "claimed" /\ Alone(r)
    /\ LET denied == run[r].model \in Denied
           home   == IF denied THEN Floor ELSE run[r].model
       IN /\ row' = IF denied THEN SavedRow(run[r].agent, Floor, run[r].hist) ELSE row
          /\ \E m \in cheaper_peer(home) :
                run' = [run EXCEPT ![r].pc = IF MaxTurns > 0 THEN "turn"
                                             ELSE IF stop THEN "saving" ELSE "final",
                                   ![r].model = m]
    /\ UNCHANGED <<owner, running, pending, firing, phase, restarts>>

(* The head of the turn loop: stop first, then the live record.            *)
Interrupted(r) ==
    /\ run[r].pc = "turn" /\ Alone(r)
    /\ stop
    /\ run' = [run EXCEPT ![r].pc = "saving"]
    /\ UNCHANGED <<row, owner, running, pending, firing, phase, restarts>>

SeesFired(r) ==
    /\ run[r].pc = "turn" /\ Alone(r)
    /\ ~stop /\ ~row[run[r].agent].active
    /\ run' = [run EXCEPT ![r].pc = "releasing"]
    /\ UNCHANGED <<row, owner, running, pending, firing, phase, restarts>>

TakeTurn(r) ==
    /\ run[r].pc = "turn" /\ Alone(r)
    /\ ~stop /\ row[run[r].agent].active
    /\ run' = [run EXCEPT ![r].pc = "chat", ![r].turns = @ + 1,
                          ![r].model = row[run[r].agent].model,
                          ![r].manages = row[run[r].agent].manager]
    /\ UNCHANGED <<row, owner, running, pending, firing, phase, restarts>>

\* Seeded fault: one turn too many.
NextTurnOver(r) ==
    /\ run[r].pc = "chat" /\ Alone(r)
    /\ run' = [run EXCEPT ![r].pc = IF run[r].turns <= MaxTurns THEN "turn"
                                    ELSE IF stop THEN "saving" ELSE "final"]
    /\ UNCHANGED <<row, owner, running, pending, firing, phase, restarts>>

(* The answer was another tool call, nothing, or an overrun: go round, or, *)
(* at the iteration cap, demand the report in one final call.              *)
NextTurn(r) ==
    /\ run[r].pc = "chat" /\ Alone(r)
    /\ run' = [run EXCEPT ![r].pc = IF run[r].turns < MaxTurns THEN "turn"
                                    ELSE IF stop THEN "saving" ELSE "final"]
    /\ UNCHANGED <<row, owner, running, pending, firing, phase, restarts>>

(* finish, a prose answer, a failed call, or the final turn's answer.      *)
Finish(r) ==
    /\ run[r].pc \in {"chat", "final"} /\ Alone(r)
    /\ run' = [run EXCEPT ![r].pc = "saving"]
    /\ UNCHANGED <<row, owner, running, pending, firing, phase, restarts>>

Save(r) ==
    /\ run[r].pc = "saving" /\ Alone(r)
    /\ row' = SavedRow(run[r].agent, run[r].model, run[r].hist \cup {r})
    /\ run' = [run EXCEPT ![r].pc = "releasing"]
    /\ UNCHANGED <<owner, running, pending, firing, phase, restarts>>

Release(r) ==
    /\ run[r].pc = "releasing" /\ Alone(r)
    /\ running' = running \ {run[r].agent}
    /\ run' = [run EXCEPT ![r] = Over(r)]
    /\ UNCHANGED <<row, owner, pending, firing, phase, restarts>>

-----------------------------------------------------------------------------
(* The staffing tools of ceo_tool.  A manager calls them between two turns *)
(* of its run, the CEO whenever it is not inside an inline delegate.       *)

ManagerActing(r) == run[r].pc = "chat" /\ run[r].manages /\ Alone(r)

(* Re-hiring an active name is a re-home and passes the ceiling.           *)
HireAs(n, m, manager) ==
    /\ m \notin Denied
    /\ row[n].active \/ Headcount < Ceiling
    /\ row' = [row EXCEPT ![n] = [active |-> TRUE, manager |-> manager,
                                  model |-> m, hist |-> {}]]
    /\ UNCHANGED <<owner, running, run, pending, firing, phase, restarts>>

CeoHire(n, m, manager) == CEOFree /\ HireAs(n, m, manager)
ManagerHire(r, n, m)   == ManagerActing(r) /\ HireAs(n, m, FALSE)

(* The CEO may not run a manager to completion inline.                     *)
blocking_manager_run(n) == row[n].active /\ row[n].manager

(* Runs agents inline, one for each q in team, and waits for all of them:  *)
(* delegate is a team of one, delegate_parallel a team of any size.        *)
Started(q, n, parent, task, o) ==
    [IdleRun EXCEPT !.pc = "start", !.agent = n, !.parent = parent, !.task = task, !.objective = o]

Team(team) ==
    /\ team # {}
    /\ \A q \in team : run[q].pc = "none"
    /\ \A q \in team : \A p \in 1 .. q - 1 : run[p].pc # "none" \/ p \in team

CeoDelegate(team, f) ==
    /\ CEOFree /\ Team(team)
    /\ \A q \in team : ~blocking_manager_run(f[q])
    /\ run' = [q \in RunIds |-> IF q \in team THEN Started(q, f[q], CEO, CEO, NoObj)
                                              ELSE run[q]]
    /\ UNCHANGED <<row, owner, running, pending, firing, phase, restarts>>

\* Seeded fault: the crew is spawned, not awaited inside the manager's task.
ManagerSpawns(r, team, f) ==
    /\ ManagerActing(r) /\ Team(team)
    /\ run' = [q \in RunIds |->
                 IF q \in team THEN Started(q, f[q], r, q, NoObj)
                 ELSE IF q = r THEN [run[q] EXCEPT !.pc = "waiting"]
                 ELSE run[q]]
    /\ UNCHANGED <<row, owner, running, pending, firing, phase, restarts>>

ManagerDelegate(r, team, f) ==
    /\ ManagerActing(r) /\ Team(team)
    /\ run' = [q \in RunIds |->
                 IF q \in team THEN Started(q, f[q], r, run[r].task, NoObj)
                 ELSE IF q = r THEN [run[q] EXCEPT !.pc = "waiting"]
                 ELSE run[q]]
    /\ UNCHANGED <<row, owner, running, pending, firing, phase, restarts>>

Resume(r) ==
    /\ run[r].pc = "waiting" /\ Alone(r)
    /\ \A q \in Crew(r) : ~Live(q)
    /\ run' = [run EXCEPT ![r].pc = "chat"]
    /\ UNCHANGED <<row, owner, running, pending, firing, phase, restarts>>

-----------------------------------------------------------------------------
(* Background tasks.                                                       *)

InFlight(n) == \E p \in pending : run[p].agent = n

Spawn(r, n, o) ==
    /\ Fresh(r)
    /\ run' = [run EXCEPT ![r] = Started(r, n, r, r, o)]

Dispatch(r, n, o) ==
    /\ CEOFree
    /\ row[n].active /\ ~InFlight(n)
    /\ Spawn(r, n, o)
    /\ pending' = pending \cup {r}
    /\ UNCHANGED <<row, owner, running, firing, phase, restarts>>

\* Seeded fault: a review starts whatever the agent has in flight.
ReviewAnyway(r, n) ==
    /\ phase # "exiting"
    /\ row[n].active
    /\ Spawn(r, n, NoObj)
    /\ pending' = pending \cup {r}
    /\ UNCHANGED <<row, owner, running, firing, phase, restarts>>

(* The routines runner is a task of its own: it does not wait for the CEO, *)
(* except for the lock on pending, which the exit of run_ceo keeps.        *)
DispatchReview(r, n) ==
    /\ phase # "exiting"
    /\ row[n].active /\ ~InFlight(n)
    /\ Spawn(r, n, NoObj)
    /\ pending' = pending \cup {r}
    /\ UNCHANGED <<row, owner, running, firing, phase, restarts>>

(* fire is two writes to the store and a third step on pending.  First the *)
(* record.                                                                 *)
Fire(n) ==
    /\ CEOFree
    /\ row' = [row EXCEPT ![n].active = FALSE]
    /\ firing' = n
    /\ UNCHANGED <<owner, running, run, pending, phase, restarts>>

Disowned == [o \in Objectives |-> IF owner[o] = firing THEN NoOne ELSE owner[o]]

\* Seeded fault: a fire leaves the background task to the name.
FireKeepsTask ==
    /\ firing # NoOne
    /\ owner' = Disowned
    /\ firing' = NoOne
    /\ UNCHANGED <<row, running, run, pending, phase, restarts>>

(* Then the objectives, and the background task of that name.  A run of    *)
(* theirs inside another manager's task is not touched.  (One step: only   *)
(* the CEO, who is inside this fire, reads or writes an owner.)            *)
FireEnds ==
    /\ firing # NoOne
    /\ owner' = Disowned
    /\ pending' = {p \in pending : run[p].agent # firing}
    /\ run' = [r \in RunIds |->
                 IF r \notin pending \ pending' THEN run[r]
                 ELSE IF Live(r) THEN [run[r] EXCEPT !.aborted = TRUE]
                 ELSE Spent]
    /\ firing' = NoOne
    /\ UNCHANGED <<row, running, phase, restarts>>

(* The abort lands at an await: the task's runs are dropped where they     *)
(* stand, and nothing after that await runs, the release of the claim      *)
(* included.                                                               *)
Cancel(t) ==
    /\ run[t].aborted /\ Live(t) /\ AtAwait(t)
    /\ run' = [q \in RunIds |-> IF q \in Members(t) THEN Over(q) ELSE run[q]]
    /\ UNCHANGED <<row, owner, running, pending, firing, phase, restarts>>

(* assign_owner, through the objectives tool.                              *)
AssignOwner(o, n) ==
    /\ CEOFree
    /\ n # NoOne => row[n].active /\ row[n].manager
    /\ owner' = [owner EXCEPT ![o] = n]
    /\ UNCHANGED <<row, running, run, pending, firing, phase, restarts>>

(* harvest_dispatches, one finished handle at a time.                      *)
RoutedTo(r, rest) ==
    {n \in Names : /\ run[r].objective # NoObj
                   /\ owner[run[r].objective] = n
                   /\ n # run[r].agent
                   /\ row[n].active /\ row[n].manager
                   /\ \A p \in rest : run[p].agent # n}

\* Seeded fault: finished is read off the claims, not off the handle.
HarvestIdle(r) ==
    /\ CEOFree
    /\ r \in pending /\ ~Live(r) /\ run[r].agent \notin running
    /\ RoutedTo(r, pending \ {r}) = {}
    /\ pending' = pending \ {r}
    /\ run' = [run EXCEPT ![r] = Spent]
    /\ UNCHANGED <<row, owner, running, firing, phase, restarts>>

HarvestToCeo(r) ==
    /\ CEOFree
    /\ r \in pending /\ ~Live(r)
    /\ RoutedTo(r, pending \ {r}) = {}
    /\ pending' = pending \ {r}
    /\ run' = [run EXCEPT ![r] = Spent]
    /\ UNCHANGED <<row, owner, running, firing, phase, restarts>>

HarvestToOwner(r, q) ==
    /\ CEOFree
    /\ r \in pending /\ ~Live(r)
    /\ Fresh(q)
    /\ \E n \in RoutedTo(r, pending \ {r}) :
          run' = [run EXCEPT ![r] = Spent, ![q] = Started(q, n, q, q, run[r].objective)]
    /\ pending' = (pending \ {r}) \cup {q}
    /\ UNCHANGED <<row, owner, running, firing, phase, restarts>>

-----------------------------------------------------------------------------
(* Shutdown and restart.                                                   *)

Stop ==
    /\ phase = "up"
    /\ phase' = "stopping"
    /\ UNCHANGED <<row, owner, running, run, pending, firing, restarts>>

CeoExits ==
    /\ phase = "stopping" /\ CEOFree
    /\ phase' = "exiting"
    /\ UNCHANGED <<row, owner, running, run, pending, firing, restarts>>

(* The exit of run_ceo drains pending: a handle is awaited for at most 30s *)
(* and then let go, which detaches its task.                               *)
Bank(r) ==
    /\ phase = "exiting"
    /\ r \in pending
    /\ pending' = pending \ {r}
    /\ run' = [run EXCEPT ![r] = IF Live(r) THEN @ ELSE Spent]
    /\ UNCHANGED <<row, owner, running, firing, phase, restarts>>

(* The process ends, by exit or by a crash, and starts again: the store is *)
(* kept, everything in memory is gone.                                     *)
Restart ==
    /\ restarts < MaxRestarts
    /\ restarts' = restarts + 1
    /\ running' = {} /\ pending' = {} /\ firing' = NoOne /\ phase' = "up"
    /\ run' = [r \in RunIds |-> IF run[r].pc = "none" THEN IdleRun ELSE Spent]
    /\ UNCHANGED <<row, owner>>

-----------------------------------------------------------------------------
RunStep(r) ==
    \/ Load(r) \/ Claim(r) \/ Refused(r) \/ Seat(r)
    \/ Interrupted(r) \/ SeesFired(r) \/ TakeTurn(r)
    \/ NextTurn(r) \/ Finish(r) \/ Save(r) \/ Release(r) \/ Resume(r)

Staffing ==
    \/ \E n \in Names, m \in Models, b \in BOOLEAN : CeoHire(n, m, b)
    \/ \E r \in RunIds, n \in Names, m \in Models : ManagerHire(r, n, m)
    \/ \E n \in Names : Fire(n)
    \/ FireEnds
    \/ \E o \in Objectives, n \in Names \cup {NoOne} : AssignOwner(o, n)

Delegation ==
    \E team \in SUBSET RunIds : \E f \in [team -> Names] :
        \/ CeoDelegate(team, f)
        \/ \E r \in RunIds : ManagerDelegate(r, team, f)

Background ==
    \/ \E r \in RunIds, n \in Names, o \in Objectives \cup {NoObj} : Dispatch(r, n, o)
    \/ \E r \in RunIds, n \in Names : DispatchReview(r, n)
    \/ \E r \in RunIds : Cancel(r) \/ HarvestToCeo(r) \/ Bank(r)
    \/ \E r, q \in RunIds : HarvestToOwner(r, q)

Next ==
    \/ \E r \in RunIds : RunStep(r)
    \/ Staffing
    \/ Delegation
    \/ Background
    \/ Stop
    \/ CeoExits
    \/ Restart

Spec == Init /\ [][Next]_vars

(* tokio polls every ready task, a model call returns or times out, a fire *)
(* waits for nothing but the lock on pending, and the CEO's loop harvests  *)
(* at the head of every turn and drains at exit.                           *)
Fairness ==
    /\ \A r \in RunIds : WF_vars(RunStep(r))
    /\ \A r \in RunIds : WF_vars(Cancel(r))
    /\ WF_vars(FireEnds)
    /\ WF_vars(CeoExits)
    /\ \A r \in RunIds :
          WF_vars(HarvestToCeo(r) \/ (\E q \in RunIds : HarvestToOwner(r, q)) \/ Bank(r))

FairSpec == Spec /\ Fairness
-----------------------------------------------------------------------------
(* Properties.                                                             *)

(* Every variable keeps its shape; a live run runs somebody, and a handle  *)
(* belongs to a run that was started.                                      *)
TypeOK ==
    /\ row \in [Names -> Rows]
    /\ owner \in [Objectives -> Names \cup {NoOne}]
    /\ running \subseteq Names
    /\ run \in [RunIds -> Runs]
    /\ pending \subseteq RunIds
    /\ firing \in Names \cup {NoOne}
    /\ phase \in {"up", "stopping", "exiting"}
    /\ restarts \in 0 .. MaxRestarts
    /\ \A r \in RunIds : Live(r) \/ r \in pending => run[r].agent \in Names
    /\ \A r \in pending : run[r].pc # "none"

(* One body, one task: whatever paths started them (dispatch, delegate,    *)
(* delegate_parallel, reviews), no two runs of one employee are inside the *)
(* claim at the same time, so no two of them write the same saved history. *)
OneBody ==
    \A r, q \in RunIds :
        Holding(r) /\ Holding(q) /\ run[r].agent = run[q].agent => r = q

(* dispatch, dispatch_review and harvest_dispatches never leave two        *)
(* background handles under one name, so fire's retain and team_status see *)
(* the one task an employee has in the background.                         *)
OneHandlePerAgent ==
    \A p, q \in pending : run[p].agent = run[q].agent => p = q

(* A manager blocks while its crew runs, so no delegated run outlives the  *)
(* run that started it: not when the manager finishes, not when a fire     *)
(* aborts it, not across a restart.                                        *)
CrewNeverOutlivesManager ==
    \A r \in RunIds : Live(r) /\ run[r].parent \notin {r, CEO}
                          => run[run[r].parent].pc = "waiting"

(* A dead owner never swallows a report: what was dispatched on an         *)
(* objective, or routed to its owner, is in the hands of somebody employed *)
(* until the CEO has the report, whatever fires, hires, crashes and dead   *)
(* owners came before.  Only the fire that is under way holds an exception.*)
DeadHoldNoReports ==
    \A r \in pending :
        run[r].objective # NoObj => \/ row[run[r].agent].active
                                   \/ run[r].agent = firing

(* Mechanical re-homing works: an employee hired before their seat was     *)
(* denied is not seated on it at a model call, through any mix of          *)
(* re-hires, stale loads and write-backs.                                  *)
ChatsOnAllowedSeat ==
    \A r \in RunIds : run[r].pc \in {"chat", "final"} => run[r].model \notin Denied

(* A claim is released at the end of the run: whoever is claimed has a run *)
(* that will release them.  (A fire that aborts the run breaks this.)      *)
ClaimHasHolder ==
    \A n \in running : \E r \in RunIds : Holding(r) /\ run[r].agent = n

(* A fired employee's task does not write back: the only step that makes a *)
(* fired name active is a hire, which starts it on an empty history.       *)
FiredStaysFired ==
    [][\A n \in Names : ~row[n].active /\ row'[n].active => row'[n].hist = {}]_vars

(* No turn is lost from a saved history, except when a hire resets it.     *)
HistoryKept ==
    [][\A n \in Names : row[n].hist \subseteq row'[n].hist \/ row'[n].hist = {}]_vars

(* Reports route only to an owner who is not already mid-task: the run     *)
(* that a routed report starts finds its owner unclaimed.                  *)
RoutesOnlyToIdleOwner ==
    [][\A r, q \in RunIds : HarvestToOwner(r, q) => run'[q].agent \notin running]_vars

(* Nobody waits on everybody: every run, whatever it delegates and         *)
(* whomever it collides with, ends (the claim is a try-lock).              *)
EveryRunEnds == \A r \in RunIds : Live(r) ~> ~Live(r)

(* Every report has somewhere to go: a background handle is harvested,     *)
(* banked or fired away (RunsSpent: the model has no run left to route     *)
(* the report to its owner).                                               *)
RunsSpent == \A r \in RunIds : run[r].pc # "none"
EveryReportHarvested ==
    \A r \in RunIds : r \in pending ~> (r \notin pending \/ RunsSpent)
=============================================================================
