------------------------------ MODULE Routines ------------------------------
(***************************************************************************)
(* Scheduled checks: the routines table, the CEO's tools over it, and the  *)
(* runner of src/src/routines.rs, one loop that takes a snapshot of what   *)
(* is due and works through it.  The command of a shell routine is an      *)
(* await of minutes in which the CEO may re-own, replace or remove the     *)
(* routine, fire its owner, or the process may end.                        *)
(* An agent's background task is here as far as it carries an alert: put   *)
(* into pending, let in at the claim or turned away, over, reported.  The  *)
(* rest of a run is Crew's business, and what becomes of a row of          *)
(* routine_alerts is Inbox's.                                              *)
(***************************************************************************)
EXTENDS Integers, FiniteSets

CONSTANTS
    Names,    \* routine names
    Agents,
    NoOne,    \* an empty owner or agent, or no routine
    MaxRestarts  \* bound

RoutinesAssumption ==
    NoOne \notin Agents /\ NoOne \notin Names /\ MaxRestarts \in Nat

VARIABLES
    rows,      \* the routines table
    batch,     \* what is left of the runner's snapshot
    pc,        \* the runner: "asleep", "next", "running", "alerting"
    cur,       \* the shell routine it is at
    employed,
    task,      \* the background task of each agent
    carry,     \* the routine whose last alert that task brings, unread so far
    elsewhere, \* agents claimed (running) by a run that is not their task:
               \* one that a manager or the CEO delegated, or one aborted
    told,      \* history: routines whose last failure was heard, by a run of
               \* the owner that began, from routine_alerts or in a report
    dropped,   \* history: those whose last alert went with a cancelled task
    restarts
routineVars == <<rows, batch, pc, cur, employed, task, carry, elsewhere, told, dropped, restarts>>

(* on is that the row exists; due is that last_run is 0 or the interval    *)
(* has gone by.                                                            *)
Rows == [on: BOOLEAN, agent: Agents \cup {NoOne}, owner: Agents \cup {NoOne},
         due: BOOLEAN, status: {"clear", "ALERT"}]
Snap == [agent: Agents \cup {NoOne}, owner: Agents \cup {NoOne}]
Gone == [on |-> FALSE, agent |-> NoOne, owner |-> NoOne, due |-> FALSE, status |-> "clear"]
New  == [Gone EXCEPT !.on = TRUE, !.due = TRUE]

Shell(n) == rows[n].on /\ rows[n].agent = NoOne
Due(n)   == rows[n].on /\ rows[n].due
None     == [n \in {} |-> Gone]

Init ==
    /\ rows = [n \in Names |-> Gone]
    /\ batch = None /\ pc = "asleep" /\ cur = NoOne
    /\ employed = Agents /\ elsewhere = {}
    /\ task = [a \in Agents |-> "none"] /\ carry = [a \in Agents |-> NoOne]
    /\ told = {} /\ dropped = {}
    /\ restarts = 0

Runner == <<batch, pc, cur>>
Alerts == <<told, dropped>>
Tasks  == <<task, carry, elsewhere>>
Staff  == <<employed, Tasks>>
inflight == {a \in Agents : task[a] # "none"}

-----------------------------------------------------------------------------
(* The CEO's tools.                                                        *)

(* add_routine: an upsert that sets the owner and keeps the rest of a row  *)
(* that is there, its agent, its clock and its status included.            *)
AddRoutine(n, owner) ==
    /\ owner # NoOne => owner \in employed
    /\ rows' = [rows EXCEPT ![n] = [(IF @.on THEN @ ELSE New) EXCEPT !.owner = owner]]
    /\ UNCHANGED <<Runner, Staff, Alerts, restarts>>

AddReview(n, agent) ==
    /\ agent \in employed
    /\ rows' = [rows EXCEPT ![n] = [(IF @.on THEN @ ELSE New) EXCEPT !.agent = agent]]
    /\ UNCHANGED <<Runner, Staff, Alerts, restarts>>

OwnRoutine(n, owner) ==
    /\ owner # NoOne => owner \in employed
    /\ rows[n].on
    /\ rows' = [rows EXCEPT ![n].owner = owner]
    /\ UNCHANGED <<Runner, Staff, Alerts, restarts>>

(* Only the last run of a routine is followed.                             *)
Forget(n) ==
    /\ told' = told \ {n} /\ dropped' = dropped \ {n}
    /\ carry' = [a \in Agents |-> IF carry[a] = n THEN NoOne ELSE carry[a]]

RemoveRoutine(n) ==
    /\ rows[n].on
    /\ rows' = [rows EXCEPT ![n] = Gone]
    /\ Forget(n)
    /\ UNCHANGED <<Runner, employed, task, elsewhere, restarts>>

-----------------------------------------------------------------------------
(* The runner.                                                             *)

Elapse(n) ==
    /\ rows[n].on /\ ~rows[n].due
    /\ rows' = [rows EXCEPT ![n].due = TRUE]
    /\ UNCHANGED <<Runner, Staff, Alerts, restarts>>

(* A tick: the rows that are due, as they are now.  Their order among      *)
(* themselves is left open.                                                *)
Wake ==
    /\ pc = "asleep"
    /\ \E n \in Names : Due(n)
    /\ batch' = [n \in {m \in Names : Due(m)} |->
                    [agent |-> rows[n].agent, owner |-> rows[n].owner]]
    /\ pc' = "next"
    /\ UNCHANGED <<rows, cur, Staff, Alerts, restarts>>

Without(n) == [m \in DOMAIN batch \ {n} |-> batch[m]]

Sleep ==
    /\ pc = "next" /\ DOMAIN batch = {}
    /\ pc' = "asleep"
    /\ UNCHANGED <<rows, batch, cur, Staff, Alerts, restarts>>

(* mark_routine_run: nothing if the row is gone.                           *)
Marked(n, status) ==
    [rows EXCEPT ![n] = IF @.on THEN [@ EXCEPT !.due = FALSE, !.status = status] ELSE @]

(* dispatch_review: refused for a name not employed, false for one with a  *)
(* task in pending.  The claim is not looked at.                           *)
Free(a) == a \in employed \ inflight

(* The task that dispatch_review spawns, with the alert of n or with none. *)
Dispatched(a, n) ==
    IF Free(a) THEN task' = [task EXCEPT ![a] = "spawned"] /\ carry' = [carry EXCEPT ![a] = n]
               ELSE UNCHANGED <<task, carry>>

(* A review: dispatch, skip, or alert that there is nobody to dispatch.    *)
Review(n) ==
    /\ pc = "next" /\ n \in DOMAIN batch /\ batch[n].agent # NoOne
    /\ LET a == batch[n].agent
       IN /\ Dispatched(a, NoOne)
          /\ told' = IF a \in employed THEN told ELSE told \cup {n}
          /\ rows' = Marked(n, IF a \in employed THEN "clear" ELSE "ALERT")
    /\ batch' = Without(n)
    /\ UNCHANGED <<pc, cur, employed, elsewhere, dropped, restarts>>

StartShell(n) ==
    /\ pc = "next" /\ n \in DOMAIN batch /\ batch[n].agent = NoOne
    /\ cur' = n
    /\ pc' = "running"
    /\ UNCHANGED <<rows, batch, Staff, Alerts, restarts>>

(* The command ends, or its timeout ends it.  The clock and the status are *)
(* written first.                                                          *)
ShellOk ==
    /\ pc = "running"
    /\ rows' = Marked(cur, "clear")
    /\ Forget(cur)
    /\ batch' = Without(cur) /\ pc' = "next" /\ cur' = NoOne
    /\ UNCHANGED <<employed, task, elsewhere, restarts>>

ShellFails ==
    /\ pc = "running"
    /\ rows' = Marked(cur, "ALERT")
    /\ Forget(cur)
    /\ pc' = "alerting"
    /\ UNCHANGED <<batch, cur, employed, task, elsewhere, restarts>>

\* Seeded fault: a busy owner counts as told.
TellBusy ==
    /\ pc = "alerting"
    /\ LET owner == batch[cur].owner
       IN /\ Dispatched(owner, cur)
          /\ told' = IF owner \in employed THEN told ELSE told \cup {cur}
    /\ batch' = Without(cur) /\ pc' = "next" /\ cur' = NoOne
    /\ UNCHANGED <<rows, employed, elsewhere, dropped, restarts>>

\* Seeded fault: the runner goes back to sleep after an alert.
TellAndSleep ==
    /\ pc = "alerting"
    /\ LET owner == batch[cur].owner
       IN /\ Dispatched(owner, cur)
          /\ told' = IF Free(owner) THEN told ELSE told \cup {cur}
    /\ batch' = None /\ pc' = "asleep" /\ cur' = NoOne
    /\ UNCHANGED <<rows, employed, elsewhere, dropped, restarts>>

(* The owner is dispatched with the alert, or else it goes to the CEO      *)
(* (add_routine_alert).                                                    *)
Tell ==
    /\ pc = "alerting"
    /\ LET owner == batch[cur].owner
       IN /\ Dispatched(owner, cur)
          /\ told' = IF Free(owner) THEN told ELSE told \cup {cur}
    /\ batch' = Without(cur) /\ pc' = "next" /\ cur' = NoOne
    /\ UNCHANGED <<rows, employed, elsewhere, dropped, restarts>>

-----------------------------------------------------------------------------
(* The background task of an agent, other runs of it, and the end of a     *)
(* process.                                                                *)
Quiet == UNCHANGED <<rows, Runner, dropped, restarts>>
Heard(a) == told \cup ({carry[a]} \cap Names)
Unread(a) == [carry EXCEPT ![a] = NoOne]

(* The spawned task claims the agent and reads what it was sent.           *)
Begin(a) ==
    /\ task[a] = "spawned" /\ a \notin elsewhere
    /\ task' = [task EXCEPT ![a] = "working"]
    /\ told' = Heard(a) /\ carry' = Unread(a)
    /\ UNCHANGED <<employed, elsewhere>> /\ Quiet

(* Another run holds the claim: the task is over, with a refusal for its   *)
(* report.                                                                 *)
Refused(a) ==
    /\ task[a] = "spawned" /\ a \in elsewhere
    /\ task' = [task EXCEPT ![a] = "over"]
    /\ UNCHANGED <<employed, carry, elsewhere, told>> /\ Quiet

Finish(a) ==
    /\ task[a] = "working"
    /\ task' = [task EXCEPT ![a] = "over"]
    /\ UNCHANGED <<employed, carry, elsewhere, told>> /\ Quiet

\* Seeded fault: a task turned away leaves no report.
ReportUnread(a) ==
    /\ task[a] = "over"
    /\ task' = [task EXCEPT ![a] = "none"]
    /\ carry' = Unread(a)
    /\ UNCHANGED <<employed, elsewhere, told>> /\ Quiet

(* The CEO's harvest: what it hears of a task turned away is the refusal   *)
(* and a glimpse of the task, its first 240 characters.                    *)
Report(a) ==
    /\ task[a] = "over"
    /\ task' = [task EXCEPT ![a] = "none"]
    /\ told' = Heard(a) /\ carry' = Unread(a)
    /\ UNCHANGED <<employed, elsewhere>> /\ Quiet

(* Another way into work: the CEO's dispatch, the routing of a report.     *)
Engage(a) ==
    /\ Free(a) /\ task' = [task EXCEPT ![a] = "spawned"]
    /\ UNCHANGED <<employed, carry, elsewhere, told>> /\ Quiet

(* A run of it inside another's, and its end.  An aborted run may never    *)
(* let go of its claim; that here it may is the wider choice.              *)
Delegate(a) ==
    /\ a \in employed /\ task[a] # "working" /\ a \notin elsewhere
    /\ elsewhere' = elsewhere \cup {a}
    /\ UNCHANGED <<employed, task, carry, told>> /\ Quiet

Release(a) ==
    /\ a \in elsewhere /\ elsewhere' = elsewhere \ {a}
    /\ UNCHANGED <<employed, task, carry, told>> /\ Quiet

Hire(a) ==
    /\ a \notin employed /\ employed' = employed \cup {a}
    /\ UNCHANGED <<Tasks, told>> /\ Quiet

\* Seeded fault: the run of a fired agent goes on.
FireOnly(a) ==
    /\ a \in employed /\ employed' = employed \ {a}
    /\ UNCHANGED <<Tasks, told>> /\ Quiet

(* Its task is cancelled, with the alert it had not read; the claim stays. *)
(* The writes in between are in Crew: nobody but the CEO takes from        *)
(* pending, so a task that gets on meanwhile goes the same way.            *)
Fire(a) ==
    /\ a \in employed /\ employed' = employed \ {a}
    /\ task' = [task EXCEPT ![a] = "none"]
    /\ elsewhere' = IF task[a] = "working" THEN elsewhere \cup {a} ELSE elsewhere
    /\ dropped' = dropped \cup ({carry[a]} \cap Names) /\ carry' = Unread(a)
    /\ UNCHANGED <<rows, Runner, told, restarts>>

Ended ==
    /\ batch' = None /\ pc' = "asleep" /\ cur' = NoOne
    /\ task' = [a \in Agents |-> "none"] /\ carry' = [a \in Agents |-> NoOne]
    /\ elsewhere' = {}

\* Seeded fault: a start leaves the clocks alone.
RestartOnly ==
    /\ restarts < MaxRestarts /\ restarts' = restarts + 1
    /\ Ended
    /\ UNCHANGED <<rows, employed, Alerts>>

(* A crash at any point and the next start, which makes every shell        *)
(* routine due (reset_routine_clocks).                                     *)
Restart ==
    /\ restarts < MaxRestarts /\ restarts' = restarts + 1
    /\ Ended
    /\ rows' = [n \in Names |-> IF Shell(n) THEN [rows[n] EXCEPT !.due = TRUE] ELSE rows[n]]
    /\ UNCHANGED <<employed, Alerts>>

Tick ==
    \/ Wake \/ Sleep \/ ShellOk \/ ShellFails \/ Tell
    \/ \E n \in Names : Review(n) \/ StartShell(n)

Next ==
    \/ \E n \in Names, a \in Agents \cup {NoOne} : AddRoutine(n, a) \/ OwnRoutine(n, a)
    \/ \E n \in Names, a \in Agents : AddReview(n, a)
    \/ \E n \in Names : RemoveRoutine(n) \/ Elapse(n)
    \/ Tick
    \/ \E a \in Agents :
        \/ Hire(a) \/ Fire(a) \/ Engage(a) \/ Delegate(a) \/ Release(a)
        \/ Begin(a) \/ Refused(a) \/ Finish(a) \/ Report(a)
    \/ Restart

(* The runner goes on: a command ends within its timeout.                  *)
Fairness == WF_routineVars(Tick)
Spec == Init /\ [][Next]_routineVars /\ Fairness

-----------------------------------------------------------------------------
TypeOK ==
    /\ rows \in [Names -> Rows]
    /\ DOMAIN batch \subseteq Names /\ \A n \in DOMAIN batch : batch[n] \in Snap
    /\ pc \in {"asleep", "next", "running", "alerting"}
    /\ pc = "asleep" => DOMAIN batch = {}
    /\ IF pc \in {"running", "alerting"} THEN cur \in DOMAIN batch ELSE cur = NoOne
    /\ task \in [Agents -> {"none", "spawned", "working", "over"}]
    /\ carry \in [Agents -> Names \cup {NoOne}]
    /\ \A a \in Agents : carry[a] # NoOne => task[a] \in {"spawned", "over"}
    /\ inflight \subseteq employed /\ employed \subseteq Agents /\ elsewhere \subseteq Agents
    /\ told \subseteq Names /\ dropped \subseteq Names
    /\ restarts \in 0 .. MaxRestarts

(* An alert is never lost on its way: when the table says that the last    *)
(* run of a shell routine failed, its owner took the failure up in a run,  *)
(* or it went to the CEO, as an alert or as the report of a task turned    *)
(* away, or a task still brings it, or the runner is about to hand it on,  *)
(* or the routine runs again at once, for a crash between the two.  What   *)
(* may take it along is the cancelling of the task that brings it, when    *)
(* the CEO fires the owner.  (A task turned away makes it weaker than what *)
(* a comment says, that the alert of a busy owner falls back to the CEO's  *)
(* inbox: dispatch_review has answered before the claim refuses.)          *)
AlertHandedOn ==
    \A n \in Names : Shell(n) /\ rows[n].status = "ALERT" =>
        \/ n \in told \/ n \in dropped
        \/ \E a \in Agents : carry[a] = n
        \/ rows[n].due
        \/ pc = "alerting" /\ cur = n

(* A routine that is due gets its turn, however many others fail, hang or  *)
(* are replaced before it.                                                 *)
EveryDueRuns == \A n \in Names : Due(n) ~> ~Due(n)
=============================================================================
