# khan: verification project

khan is a single Rust binary that runs a company of language-model employees. A
CEO loop wakes on events, staffs a team, dispatches work to background tasks and
keeps everything that must last in one SQLite file. This directory holds TLA+
models of the parts of it where order, concurrency and crashes decide whether it
is correct, the TLC instances that check them, and TLAPS proofs about them.

Paths below are relative to the repository root `src/`; the program itself is in
`src/src/*.rs`.

## Inventory

| Component | State | Operations | Interacts with |
|---|---|---|---|
| **Crew** (`agent.rs` `run_employee`, `ceo_tool`, `harvest_dispatches`; `state.rs` agents) | `agents` rows (active, manager, model, history), `objectives.owner`, `running` (one-body claims), `pending` (background handles), the locals of every run | hire, fire, delegate, delegate_parallel, dispatch, dispatch_review, assign_owner, harvest, shutdown | the CEO loop calls the tools; managers call a subset from inside their own runs; the routines runner dispatches from a task of its own |
| **CEO episode loop and inbox** (`agent.rs` `run_ceo`, `wait_for_event`; `state.rs` messages, routine_alerts, episodes, kv) | queued founder messages, alerts, `episode_scratch`, the last episode note; transcript, `empty_wake`, step counters in memory | compose, wait, drain, call, close, bank at shutdown | founder line, routines and gauges write its queues; Crew's reports are harvested into its transcript |
| **Founder line** (`main.rs` `tell`, `telegram.rs`) | `messages`, `telegram_offset`, `telegram_chat`, `telegram_brief` | tell, long poll, queue, ack_founder, message_founder, compact_telegram | the inbox |
| **Objective board and admission** (`state.rs` objectives; `agent.rs` `admit_dispatch_limit`, `recommit_fault`) | objectives with status, blockers, review date, recommits; dispatch records | add, update, complete, drop, block; admit a dispatch; newly_ready | Crew's dispatch and delegate; the brief |
| **CEO seat and fuel** (`agent.rs` `pick_ceo_model`, `check_fuel`, `emergency_seat`, `bench_seat`, `record_stall`) | benched seats, prices, `broke`, the fuel gauge | pick, bench, stall, go broke, recover | model calls; alerts |
| **Model calls** (`llm.rs`, `chat_fb_capped`) | none that lasts; retries and the fallback ladder | one call | every run |
| **X client** (`tools/x.rs`) | budget ledger, reply ledger, seen set, OAuth tokens | read, post, top up, refresh, stream of mentions | all employees at once; alerts |
| **Routines** (`routines.rs`) | routine rows: interval, last run, status | run due, mark, alert, dispatch a review | Crew's dispatch_review, the inbox |
| **Versioned registries** (`state.rs`, `prompts.rs`, `tools/custom.rs`, `tools/skills.rs`) | versions of prompts, tools and skills | seed, append, roll back, read | hire, runs |
| **Memory, ratings, compaction** (`agent.rs`, `state.rs`) | memories, ratings, run log | remember, recall, rate, compact | runs, brief |
| **Work tools** (`tools/*.rs`), **viewer**, **configuration** | none that lasts in the process | one call each | runs |

What is hard in it:

* *Concurrency.* Every background run is a tokio task on a multi-threaded
  runtime; a manager's crew is a tree of futures inside one task. Four paths
  start runs, from the CEO's task, from managers and from the routines runner.
  They share three structures that are not one: the `agents` row, `running` and
  `pending`.
* *Cancellation.* `fire` aborts a task. A future dropped at an await runs nothing
  of what follows it, the release of a claim included.
* *Crashes.* The platform kills the process. Transcripts are disposable by
  design, so what an episode has taken out of a queue must be somewhere else
  before it is needed again.
* *Waiting.* The idle loop may sleep only when there is nothing to do, and must
  sleep when there is nothing to do.

What makes each component correct is stated under Properties. In a line each: one
body per employee and no report left behind (Crew); nothing the founder says is
lost (inbox, conversation); circling and sliding are cut off (admission, board); a
broke company reaches a seat it can pay and comes back (seat); what a call can buy
is bounded and every call returns (model calls); the X ledger mirrors the bill
and its checks fail by one step of each concurrent caller at most (X client); a
routine's alert reaches somebody (routines); nothing is forgotten by a compaction
(transcripts); what the company wrote itself outlives every build (registries).

## Modules

| Module | Role |
|---|---|
| `Crew` | employee runs, claims, staffing, background tasks, report routing |
| `MCCrew` | instances, view and bounds of `Crew` for TLC |
| `CrewProofs`, `CrewStaffProofs` | proofs about `Crew` |
| `Directives` | what `khan tell` promises, in one variable |
| `Inbox` | the CEO's inbox and episode loop; implements `Directives` |
| `MCInbox` | instances of `Inbox` |
| `InboxProofs`, `PromiseProofs` | proofs about `Inbox`: its invariants; that it keeps `Directives` |
| `FounderChat` | the Telegram conversation and its brief |
| `Admission` | `admit_dispatch_limit` and the table of dispatches |
| `Board` | objectives, blockers, review dates and their budget |
| `XLedger` | budget, answered tweets, billed resources, top-ups |
| `XToken` | the rotation of the X refresh token |
| `Transcript` | the history of an employee: pushes, pictures, compaction |
| `Registry` | versions of prompts and skills, and the seeder of each build |
| `Scripts` | custom tools and the file their calls share |
| `Routines` | routines, their runner, and the CEO's tools over them |
| `ModelCall` | one call of a model: requests, retries, ladder |
| `Seat` | the CEO's seat, the fuel gauge, the bench |
| `Office` | composes the records of the company: `Admission`, `Board`, `XLedger`, `XToken`, `Transcript`, `Registry`, `Scripts`, `FounderChat` |
| `MCOffice` | an instance of `Office` |
| `WorkProofs`, `LedgerProofs`, `RecordsProofs` | proofs about `Office`: admission and board; X; what is kept in texts |
| `Duty` | composes what must go on: `Routines`, `ModelCall`, `Seat` |
| `MCDuty` | an instance of `Duty` |
| `MCRoutines` | `Routines` alone, with the fairness of its runner |
| `DutyProofs` | proofs about `Duty` |

Where a module needs what another one is about, it takes it as a choice: `Crew`
lets admission refuse any dispatch, `Seat` lets a call end in any way `ModelCall`
allows, `Routines` has of a background task what carries an alert and lets people be
hired, fired, engaged and delegated to at any time. The parts
of `Office` and of `Duty` share no variable, so their states would only multiply; a
behaviour of either is one of one part, chosen in the initial state.

### Crew

A *run* is one call of `run_employee`, kept as a record with its locals: program
point, agent, the task it lives in, the run that called it, the loaded history,
the seat, and whether its task has been aborted. `task` is the run itself for a
spawned run (dispatch, review, routed report), the caller's for a delegated one,
and 0 for the CEO's inline delegates.

*Interleaving.* Runs of different tasks interleave at every step: load, claim,
seat, head of a turn, answer, save and release are steps of their own, because a
multi-threaded runtime may switch between any two of them. Inside one task only
one run is between awaits at a time (`Alone`), and an abort lands only at an await
of the whole task (`AtAwait`), which is what tokio promises. The CEO is one
sequential loop: while it awaits an inline delegate it does nothing else
(`CEOFree`).

| Action | Code |
|---|---|
| `Load`, `Claim`/`Refused`, `Seat` | `load_agent`; `running.insert`; re-homing and the peer seat |
| `Interrupted`, `SeesFired`, `TakeTurn` | the head of the turn loop: the stop flag, then the live record |
| `NextTurn`, `Finish` | the answer of a call: go on, be told to report at the cap, or end |
| `Save`, `Release` | `save_agent` unless the fired flag is set; `running.remove` |
| `CeoHire`, `ManagerHire`, `AssignOwner` | the tools of `ceo_tool` |
| `Fire`, `FireEnds` | `fire`: the record first, then the objectives of that name and its background task; runs go on and a crash may fall between the two |
| `CeoDelegate`, `ManagerDelegate`, `Resume` | `delegate` and `delegate_parallel`: a team of runs inside the caller's task, and the join |
| `Dispatch`, `DispatchReview` | `tokio::spawn` and the push onto `pending` |
| `Cancel` | where an abort drops the task |
| `HarvestToCeo`, `HarvestToOwner` | `harvest_dispatches`, with the owner filter as `RoutedTo` |
| `Stop`, `CeoExits`, `Bank`, `Restart` | the signal, the end of `run_ceo`, its 30-second drain, a new process over the same store |

Abstractions. A history is the set of runs whose turns it holds. A model call is
the time a run spends at "chat" or "final". Names, seats and objectives are
values; the price comparison behind `cheaper_peer` is a choice among the peers.
The board's admission rules may refuse any dispatch, which is the same as not
calling it. `hire` and `dispatch_review` are one step each: `hire` counts before it
inserts, so the ceiling may be passed by as many hires as run at once, which is
listed with the hazards; `dispatch_review` looks the employee up just before it takes
the lock under which it reads `pending` and pushes. `fire` is in two steps, with `firing` for the name between them:
`clear_objective_owner` and the abort may share a step because only the CEO, who is
inside this fire, reads or writes an owner. The initial states include objectives
whose owner is not employed, which is what a crash between the two leaves. The
history compaction a turn may start with is part of its call.

### Inbox

The store (`messages`, `alerts`, `scratch`, `note`, `offset`), Telegram's own
queue (`phone`), the CEO's loop (`pc`, `context`, `drained`, `steps`, `quiet`,
`first`, `emptyWake`), the background tasks by their reports (`task`), the
Telegram poller, and the stop flag. `context` is the transcript as the set of
items in it and the way each came in; `shown` is a history variable: what has been
in front of a call that answered.

| Action | Code |
|---|---|
| `Tell`, `Text`, `Poll`, `QueueText`, `SaveOffset`, `Raise`, `Report` | `khan tell`, the founder's phone, `telegram::serve`, `add_routine_alert`, the end of a background task |
| `Open` | `wait_for_event` returns; the brief, the last note and the scratch make the transcript; the scratch is cleared |
| `Interrupt`, `Overtime`, `Capped`, `Turn` | the head of a turn: stop, wall clock, alerts drained, step cap, reports harvested, messages marked delivered |
| `Bank` | one drained message into the scratch and the transcript; the await of `compact_telegram` lies before it |
| `Answered`, `Failed`, `Ack`, `DispatchTask`, `EndTurn` | the call and its tools; `EndTurn` is finish_episode, another turn, or quiescence |
| `Cutoff`, `Close` | the last call of an episode that was cut off; note, scratch, empty wake |
| `Stop`, `Exit`, `Crash`, `Boot` | shutdown with its banking of late reports, the end of a process at any point, the next start |

Abstractions. A note carries the reports a shutdown banked in it and nothing else:
what the model writes into a note is its own affair. The count of observation-only
turns behind quiescence is left to the model, so `EndTurn` allows it whenever
nothing new is waiting. The wall clock may run out at any turn but the first (it
is counted in minutes, the awaits before the first turn in seconds). A step of
`Turn` joins the drain of alerts, the harvest and the draining of messages: no
await lies between them, and each is its own statement on the store, so a crash
between two of them loses no more than one right after all of them. A report here
is that of a task the CEO dispatched; reports routed to owners are Crew's business.

### FounderChat

The rows of `telegram_chat` (`chat`), what `telegram_brief` covers (`summary`) and
`compact_telegram` in progress (`fold`). Between `StartFold`, `SaveBrief` and
`DeleteOld` lie a model call and a second statement, during which the
poller adds rows (`FounderWrites`; the CEO's own `CeoWrites` waits for the fold, being
the same loop) and a crash may fall. A brief covers what
its writer was given.

### Admission and Board

`Admission` keeps the dispatches (`log`), the kind of each objective and the last
look of an ops lane. A task is a sequence of words; `classify_task`,
`named_objective`, `task_shape` and `consecutive_checks` are operators on it. `Ask`
is `admit_dispatch_limit`, which only reads; `Record` writes the row in a later
step, so callers overlap. The CEO and the managers (whose `delegate` names its
objective in the text) ask concurrently.

`Board` keeps each objective's status, blockers and review date, `recommits`, and
what a call announced (`freed`). `Add`, `Reblock`, `Redate` and `Close` are the
verbs of the `objectives` tool; `Redate` writes the blockers before
`recommit_fault` has its say, as the code does. `Rate` gives the budget back.
`pushes` is a history variable, the moves to a later date since then.

### XLedger and XToken

`XLedger` gives every call of `x_post`, `x_read`, `x_topup` and the stream a
program point of its own, with a step between each check, the request, X's answer
and what is recorded. X's side (`posts`, `billed`, `billedToday`) is there to
compare the ledger with. An event of the stream is billed as X pushes it (`Deliver`,
which puts it into `pushed`) and recorded when the stream's task has taken it from the
connection (`SurfaceEvent`); a broken stream, midnight or a crash may come in between.
Answers may be lost, and the process may die with answers waiting, events pushed, or
one of the two writes that record an answer done (`HalfRecorded`). `x_topup_credit` is
one statement and one step. `exact` is a history variable: nothing that X billed has
been lost or recorded on a later day. Amounts are small units with the ratios left to CONSTANTS.
`XToken` is `access_token` alone: read the candidates, exchange, store; X kills a
refresh token as it accepts it. It is apart because it needs other actors at other
steps, and because the ledger does not depend on which token was used.

### Transcript

The messages of one employee by role, turn and weight; `brief` is the set of turns
the brief covers. `StartTask`, `Compact`, `Answer`, `Nudge`, `Result`, `Final` and
`EndRun` follow `run_employee`; `split_point` and `compact_threshold` are the
operators of that name, the latter over the windows of the models a run may be
seated on. The role of a picture also says what became of it: `build_request`
sends the newest only, to a seat with vision, and saving drops images: one that a
request had carried becomes "words", one that none had "unsent". `shown` and
`unread` are history variables. Weight stands for characters.

### Registry and Scripts

`Registry` has the versions of the employees' prompts and of one shipped skill.
`get_prompt` is the newest version that is a prompt; the initial states hold the
pointers an older build let in. `Boot` is a new build with another shipped text.
`Scripts` is one custom tool: calls read the newest version, write
`.tools/<name>`, and start the interpreter on it, three steps with other calls,
`create_tool`, a rollback or a restart in between.

### Routines

The table, the runner's snapshot (`batch`), its place (`pc`, `cur`), who is employed,
and of each agent the background task as far as it carries an alert. The command of
a shell routine is an await, during which the CEO may replace, re-own or remove the
routine or fire its owner. `task[a]` is where the task of a stands ("spawned" until
it has come to the claim, "working", "over" until it is harvested), `carry[a]` the
routine whose alert is in it, unread; `elsewhere` has the agents whose claim is held
by a run that is not in `pending`, a delegated one or one whose abort has leaked it.
`Tell` is `dispatch_review`, which looks at `pending` only and answers as soon as the
task is spawned (`Free`, `Dispatched`; as in Crew the look-up of the employee and the
push are one step), or `add_routine_alert`. The task then begins (`Begin`), or is turned away
(`Refused`) and its refusal harvested (`Report`), or goes with a fire (`Fire`).
`told` and `dropped` are history variables: the last failure was heard by a run or by
the CEO, or went with a cancelled task. A routine is due or not; `Elapse` lets its
interval pass. `Restart` includes `reset_routine_clocks`.

### ModelCall

`talk[s]` is one call of a speaker: the model it is at, the requests sent, the
ceiling, the rungs left. `Enter` is what stands before a request (cooldown, free
quota), `Reply` each thing the gateway may answer: an error of the send, 429, a
smaller `retry_max_tokens`, an upstream timeout, a refusal, a stream cut off or
whole. The cooldown map, the free count and the strikes are shared. `bought` and
`cut` are history variables. `bought` counts generations the code takes for paid (an
answer, a truncation, an upstream timeout). `cut` counts those it does not: `CutShort`
is a stream that breaks after reasoning or inside a tool call, and the client's own
540 seconds over a fill that had begun; what was generated is billed, and the same
model is asked again. `Hiccup` is an error that no generation stands behind.

### Seat

The provider's tank and the company's picture of it (`gauge`, `broke`, `benched`,
`dear`), and the episode as far as it has to do with the seat: pick, poll, drain,
ask, answer. `ReadTank` is `check_fuel` with a reading, `NoReading` without one;
`Bounce` is a 402 on the seat and its rungs; `Fail` benches. Timers run out by
actions of their own. The tank may be spent and refilled at any time.

### Seeded faults

Next to an action there may be a second definition marked "Seeded fault": the
same action with a plausible bug in it. No specification uses it. It is there to
be put in the place of the action, to see that the property of that name fails.

## Runs

| Run | Instance | Checks |
|---|---|---|
| `crew_safety` | 2 names, 3 runs, 1 objective that may start with a dead owner, 1 turn, ceiling 2, any number of crashes | `TypeOK`, `OneBody`, `OneHandlePerAgent`, `CrewNeverOutlivesManager`, `DeadHoldNoReports` |
| `crew_live` | 1 name, 3 runs, a seat and a denied seat, shutdown and 1 restart | `ChatsOnAllowedSeat`, `EveryRunEnds`, `EveryReportHarvested` |
| `crew_claims`, `crew_fired`, `crew_history` | 2 names, 2 runs | each one property that fails, see Findings |
| `crew_routes` | 2 managers, 1 worker, 4 runs, 1 owned objective | `RoutesOnlyToIdleOwner`, fails |
| `inbox_safety` | a directive, a Telegram text, an alert; 2 steps, 1 heartbeat, 1 failure, 2 shutdowns or crashes | `TypeOK`, `HeldUntilHeard`, `TextsNotDropped`, `TextsNotReplayed` |
| `inbox_live` | a directive, an alert, a report, the same bounds, with fairness | `DirectivesKept`, `InputDrained`, `InputHeard`, `ReportHeard`, `ComesToRest` |
| `inbox_lost` | 1 Telegram text, 2 restarts | `FounderHeard`, fails |
| `office` | every part of `Office`, see below | `TypeOK`, `RepeatsBounded`, `ChecksBounded`, `PushesBounded`, `UnblockAnnounced`, `RepliesBounded`, `CreditsBounded`, `OverspendBounded`, `LedgerMirrorsBill`, `ChainAlive`, `NothingForgotten`, `OrphansBehindPictures`, `SentAsWritten`, `PromptStands`, `OwnSkillStands`, `StaleOnlyByOverlap` |
| `duty` | every part of `Duty`; fairness of its calls and its seat | `TypeOK`, `AlertHandedOn`, `BillBounded`, `DipAnnounced`, `CallEnds`, `RefillRestores` |
| `routines_live` | `Routines` alone, with fairness: 2 names, 1 employee, 1 restart | `EveryDueRuns` |

*Why the bounds are enough.* Three runs and two names are the least at which two
paths collide on one employee while a third run (a manager's delegate, a routed
report) is under way; every violation found needs no more than four. One turn
reaches every point of a run, the final call at the cap included. The ceiling on
hires never binds with two names, and no property is about it. In Crew a restart
forgets everything but the rows, so `crew_safety` can afford a crash at every state
it reaches (the view leaves the count out, and its bound is never met), and
`crew_live` has one. In Inbox one is not enough: what a shutdown banks is read
by the next process, which may be stopped again before its model has been asked, so
the inbox runs have two.

`office` has 1.7 million distinct states. Its bounds, part by part. *Admission*: the
CEO and one manager, three tasks (a build, a check with and one without an
objective), limits of 2 and 1, four rows: enough to pass each limit by one in a
race and be stopped after. Of the kinds of objectives two are used, `explore`
(which reclassifies builds) and `ops` (which has the daily look); admission treats
the other three as it does `explore` without that reclassification. *Board*: two
objectives that may block each other, one hour step, dates up to 3, one recommit.
`Landing` is 0 hours: which dates are refused without a note shifts, no rule is
lost. *Ledger*: two employees and the stream, one tweet, one transfer, one midnight,
one lost answer; every constant of money is 1, so that a balance is passed by the
first race. *Token*: three callers, one lost answer; the six tokens are reused once
nobody has them, so no bound on rotations. *Transcript*: four messages that open a
turn, two calls a turn, messages of weight 1 or 2 against a tail of 3 and thresholds
of 4 and 5: two compactions, one over a brief, and pictures of one turn and of two.
*Registry*: three versions of a name. *Scripts*: two callers, three saves. *Chat*:
seven exchanges of which two stay: two folds and a third under way.

`duty` has one speaker, whose call meets every sequence of answers (three requests to
a model and three rungs, a ceiling that may shrink once, over a catalog of three
models, while the others may park a model, count a free request or record a stall
between any two of its steps, as `ParkedElsewhere`, `CountedElsewhere` and
`StalledElsewhere`); the code sends four requests, the fourth takes the same branches
as the third, and the proof of `BillBounded` is for any number. Its routines are one
name, a shell routine or a review, two employees and a restart: an owner who is free,
has a task, or is in another's run when the alert comes, and one who is made the owner
meanwhile. A tank of three levels. `routines_live` has two names, because there the
question is whether one routine can keep the runner from another.

*Reductions.* `crew_safety` and `crew_routes` use the view `Control`, which hides
what neither a guard nor a property of these runs will read again: histories,
whether a run manages once it is past its tools, the objective of a run with no
handle, and how often the process has started. The two names are interchangeable in `crew_safety` (`SYMMETRY`; its
properties are invariants). `NoShutdown` keeps the runs about staffing in a
process that is up or has crashed; shutdown is checked in `crew_live`.
`Settled` starts `crew_routes` in a company where the roster no longer changes.

*Deadlock.* A bounded number of runs, messages and restarts comes to an end:
`crew_live`, the inbox runs, `office`, `duty` and `routines_live` may end in a state
where nothing more is to happen (or where one part has used up its bound), which is
rest, not deadlock, so these say `CHECK_DEADLOCK FALSE`. Where hires stay
possible (the other Crew runs) deadlock is checked.

*Fairness.* Crew: a run that can step does so (tokio polls every ready task, and a
model call answers or times out), an abort lands, the CEO harvests at the head of
every turn and drains at exit. The CEO is not obliged to dispatch, hire or fire.
Inbox: the CEO's loop, the poller and background tasks go on; the platform starts
a process that has ended. No heartbeat, message, alert, signal or crash is
obliged to come, so `InputDrained` cannot lean on a heartbeat.
`Routines` (in its own run; `Duty` asks nothing of it): the runner's loop goes on, and
a command ends because it has a timeout.
`ModelCall`: a speaker's call goes on, because the client waits 540 seconds for a
request at most. `Seat`: the loop goes on and the poll throttle runs out (weak
fairness); the endpoint of the gauge may be down again and again but not for good,
so of the readings that are possible over and over one succeeds (strong fairness).
Nothing obliges the tank to be refilled.

`inbox_live` sends no Telegram text: a text is one more row of the same queue, and
`inbox_safety` covers the way into it.

## Properties

Crew. `OneBody`: two runs of one employee are never inside the claim together.
`OneHandlePerAgent`: the background list has one entry per name.
`CrewNeverOutlivesManager`: a delegated run has a caller that is waiting for it,
through fires and aborts. `DeadHoldNoReports`: a background run that is on an
objective is in the hands of somebody employed, or of the name whose fire is under
way, over any owners that earlier crashes left dead; so its report gets back.
`ChatsOnAllowedSeat`: nobody is seated on a denied seat when they call a model.
`EveryRunEnds`, `EveryReportHarvested`: no run waits for ever, no report stays in
`pending`.

Inbox. `DirectivesKept`: `Inbox` implements `Directives` under the mapping
`stage`; a directive that was sent stands until a model has had it in front of it,
whatever crashes come in between, is heard in the end, and is closed only after
that. `HeldUntilHeard`: a Telegram text no model has had in front of it is in the
queue, in the hands of the drain, in the scratch or in the transcript; what it can be
lost to is a process that ends while the drain has it or while a replay of it waits
for its first call, and an episode that ends with failed calls or a stop.
`TextsNotDropped`, `TextsNotReplayed`: the Telegram offset drops nothing, over any
restarts, and within one process queues nothing twice. `InputDrained`: the
idle wait does not sleep over an input. `InputHeard`: what is drained reaches a
call of the same episode, the cut-off call included, when no call fails and
nothing stops the process. `ReportHeard`: a report that is in is read, from the
shutdown note if need be; not if a call fails, the process is killed, or a second
stop ends the episode that has the note before its model was asked. `ComesToRest`: the empty wake is single-shot.

Founder's conversation and transcripts. `NothingForgotten`: every turn, and every
exchange with the founder, stands as it was written or is covered by its brief, in
every interleaving of a fold with new rows and crashes. `OrphansBehindPictures`: a
tool result has lost the turn it answers only behind a picture. `SentAsWritten`:
what a model never reads word by word is longer than the tail, or a picture that
another one of its own turn followed, or one at which its run was saved before any
answer came, images dropped.

Admission and board. `RepeatsBounded`, `ChecksBounded`: the limits hold up to one
task for each other caller that read the table at the same time. `PushesBounded`: a
review date moves later at most `MaxRecommits` times between rated builds.
`UnblockAnnounced`: the step that frees an objective announces it.

X. `RepliesBounded`, `CreditsBounded`, `OverspendBounded`: how far the three
read-then-act checks can be passed by concurrent callers, and no further, over
midnights, crashes and lost answers. `LedgerMirrorsBill`: when every answer and every
event is recorded, none lost and none recorded on a later day, the ledger says what X
billed. `ChainAlive`: a refresh token X accepts is
stored, or in the hands of somebody about to store it.

Registries and custom tools. `PromptStands`: every run gets the text of a prompt.
`OwnSkillStands`: no build ships over what the company wrote. `StaleOnlyByOverlap`: a
call runs another script than it read only beside another call of the tool.

Duty. `AlertHandedOn`: an alert in the table was heard by a run of the owner or by the
CEO, is on its way in a task or in the runner's hands, belongs to a routine that is
due again, or went with a fire. `EveryDueRuns`: a due routine gets its turn.
`BillBounded`: a generation the code knows it bought is the last of its model in a
call, and with those it takes for nothing there are no more than the attempts at each
model asked. `CallEnds`: every call returns. `DipAnnounced`: a gauge that reads low
has been announced since it last read full. `RefillRestores`: a company that stays
refilled leaves the emergency seat.

## Findings

Where the code does not do what one of its comments or its README says. The first
five are violations TLC finds of the property that states the comment:

1. *A claim leaks* (`crew_claims`). `fire` drops the run's future; `running.remove`
   is never reached, and the name is refused until the process restarts.
2. *A fired employee is written back* (`crew_fired`). The fired flag is looked at
   at the head of a turn only: the last call of a dispatched run is under way when
   `fire` writes the record, and the run saves before the abort lands.
3. *A history is overwritten* (`crew_history`). `load_agent` comes before the
   claim.
4. *A report is routed to a busy owner* (`crew_routes`). The filter looks at
   `pending`, not at `running`; the routed run is refused and the report is lost.
5. *A Telegram message is eaten* (`inbox_lost`). Rows are marked delivered before
   they are banked in the scratch.

The others are the exceptions that a property which holds has to name; each is
reached in the run that checks it, and without the exception TLC finds it violated:

6. *A dead owner* (`crew_safety`, `DeadHoldNoReports`). A crash between the two writes
   of `fire` leaves objectives with a name that is not employed, where the comment says
   they go back to the CEO (`agent.rs:1692`). Reports do; ownership does not, and a
   manager hired under that name has it.
7. *A replay* (`inbox_safety`, `TextsNotReplayed`, which stops at the first restart). A
   process that ends inside a batch queues the first updates of the batch again
   (`telegram.rs:12` says a deploy must not).
8. *An alert that falls back to nobody's inbox* (`duty`, `AlertHandedOn`).
   `dispatch_review` has answered `Ok(true)` when the claim turns the task away because
   the owner is in another's run; `routine_alerts` gets no row (`routines.rs:65`). The
   CEO hears the refusal with a glimpse of the task, or nothing, if it fires the owner
   first.
9. *An answer bought twice* (`duty`, `BillBounded`). A stream cut after reasoning or
   inside a tool call was billed, and the same model is asked again, although
   "output that reached us is paid for" (`llm.rs:428`).
10. *Two answers under one tweet* (`office`, `RepliesBounded`). The reply ledger is
    read before the awaited post and written after it (`x.rs:544`: "One tweet, one
    answer").
11. *A transfer credited twice* (`office`, `CreditsBounded`). The ledger is searched
    before the awaited query of the chain (`x.rs:632`: "one tx, one credit").
12. *Orphaned tool results* (`office`, `OrphansBehindPictures`). `split_point` steps off
    results, but not off a picture, which stands between two of them
    (`agent.rs:409-412`).
13. *A picture no model sees* (`office`, `SentAsWritten`). Of two pictures in one turn
    only the newest is sent; the comment takes every earlier one for seen
    (`llm.rs:388`).

14. *A company skill shipped over* (`office`, `OwnSkillStands`). The seeder knows its
    versions by a reason that begins with "seeded", which an author may write too
    (`skills.rs:28`: what the company wrote "is never overridden").

One more was met while modelling the action `Seat` of `Crew` and has no run of its own: the peer
that `cheaper_peer` chooses on the way into a run (`agent.rs:1168`) is put back to the
home seat by the re-read of the record at the head of its first turn
(`agent.rs:1249`), so no call goes to it, whatever `README.md:235` says.

### What the properties allow on purpose

These are things the code does that the statements above make room for, or that lie
outside the runs. They are for whoever changes the code next.

* *Board.* `objectives(update)` has written title, plan, note and blockers when the
  review date is refused; an `add` refused for its owner or kind leaves a row with
  no review date; `add` does not test the horizon. Blockers may form a cycle.
  Closing an objective twice announces its dependants again. Any score resets the
  recommits, a bad one too.
* *Admission.* `dispatch` on an ops lane records its row before it refuses the second
  look of the day. `delegate_parallel` is not admitted at all. Checks are counted in
  the newest 20 rows.
* *Routines.* `add_routine` over a review keeps the `agent` column, so the command
  never runs (`state.rs:1418`). An owner who is fired before the task with an alert has
  begun takes it along. The runner works through a snapshot that may be stale.
* *X.* The stream never looks at the balance, and one read may debit ten times what
  was tested. Two first fetches of the own user id are both debited. An answer lost
  after a post leaves no reply on record. A process that dies between X's answer and
  the write of the new token needs a new seed.
* *Model calls.* The free quota is charged once for up to four requests; the cooldown
  is looked at once. The ladder takes three rungs before it leaves out the primary.
* *Shutdown.* Reports banked by a shutdown are in the newest note only. A second stop
  before the next episode's model has been asked replaces it.
* *Seat.* A threshold of 0 switches off the reading that clears `broke`. The quiet
  heartbeat's model does not heed `broke`. After a failure a seat is benched whether
  or not another is left.
* *Registries.* A rollback to a seeded version and the retirement of a shipped skill
  are undone by the next start. A re-hire under an old name gets the old prompt.
* *Conversation.* The CEO reads the brief and the newest 30 exchanges, while the brief
  covers only what was folded, and a fold starts at 800 000 characters and keeps 40:
  exchanges in between are stored but not read.

## Proofs

Every invariant that a passing run checks is proved for all values of the constants
that satisfy the assumptions of its module, and so are the action property
`UnblockAnnounced` and the safety half of the refinement `DirectivesKept`.

`CrewProofs` proves, for every set of names, objectives, seats and every value of
the bounds, from the assumptions `SeatsAssumption` (the denied seats are models,
the floor seat is not denied, peers are not denied: what `Config::load` and
`peers_of` establish), `SizesAssumption` and `NobodyAssumption`:

* `TypeOKHolds`: `Spec => []TypeOK`. The invariant is not inductive by itself: an
  action that counts a turn needs that a run at the head of a turn has turns left.
  `TypeInv` adds that (`TurnsLeft`), and `TypeCorrect` proves it, with one lemma
  for each group of actions of `Next`.
* `OneBodyHolds`: `Spec => []OneBody`. `OneBody` says nothing of `running`, so a
  claim could succeed beside a run that is inside it. `BodyInv` adds
  `ClaimsHeld`: the employee of a run inside the claim is in `running`. The
  converse is false (finding 1) and is not needed. All steps but `Claim`,
  `Release` and `Restart` are *quiet*: they leave `running` alone and bring no run
  inside the claim that was outside; one lemma covers them. `Release` is where the
  argument is tight: it takes the name out of `running`, which is safe because
  `OneBody` says that no other run holds it.

`CrewStaffProofs` goes on from `TypeCorrect` to the other invariants of `Crew`:

* `DeadHoldNoReportsHolds`: inductive over the types (`HandsFrame`), for any owners,
  dead ones included. The steps to argue about are `Fire`, which deactivates a name
  whose background task still stands, so `firing` names it until `FireEnds` has taken
  the task; `Save`, whose stale copy can only bring somebody back; a harvest, whose
  filter asks whether the owner is employed; and a crash, which forgets the handles.
* `OneHandleHolds`: `OneHandlePerAgent` is inductive too. Each way onto the list
  has its own reason: `Dispatch` and `DispatchReview` look at `pending` first, a
  harvest takes the finished handle off and routes to a name that is not on it.
* `CrewNeverOutlivesHolds`: that the caller waits is not enough, because an abort
  ends a whole task. `CrewInv` adds that a delegated run is in the task of its
  caller, so that whatever ends the caller ends the crew with it.
* `AllowedSeatHolds`: a run takes its seat from the record, once when it loads and
  again at every turn, and saves its copy back. `SeatInv` ties the two: past the
  re-homing a run is on an allowed seat, and while a run that loaded an allowed
  seat is alive, its employee's record is off the denied seats too. Neither half
  is inductive alone, since `TakeTurn` reads the record and `Save` writes it.

`InboxProofs` does the same for `Inbox`, with no assumption beyond those of the
module:

* `TypeOKHolds`: a turn is counted before the cap is looked at, and a restart when
  the process is up again; `TypeInv` says where each count stands within its bound,
  that drained ids are rows of `messages`, and that the poller is between the two
  ends of the phone's queue. One lemma per group of variables covers all actions.
* `HeldUntilHeardHolds`, an action property. Which step can let go of a message depends
  on where it is, so `HeldInv` says how the places go together: what a live episode
  drained is in the scratch (`Banked`), between episodes the transcript is empty
  (`AtRest`), the scratch of an episode is in its transcript (`Carried`), a transcript
  has been in front of the model once a call has answered and at every undisturbed
  close (`Asked`), and a text gets into a transcript by the drain or the scratch (`Ways`).
* `TextsNotDroppedHolds`: the saved offset alone says nothing of what the poller has
  in hand. `PolledInv`: every update the poller is past has its row, and the offset,
  to which a restart goes back, is never ahead of the poller.
* `TextsNotReplayedHolds`: `QueuedOnceInv` says that in the first process the rows of
  texts are updates the poller is past, and that updates are different.

`PromiseProofs` proves the safety half of the refinement: `DirectivesAreKept` is
`Spec => Promise!Kept`, the initial states and the steps of `Inbox` are those of
`Directives` under the mapping `stage`. Its invariant `HearInv` says that a directive
has one row, that nothing knows of one before it is sent, that an open one is in the
transcript of a live episode or drained, and that tools are called on an answer to
all of the transcript. The last two make `Ack` a step of `Directives`. The theorem
assumes `Cardinality(Tells) <= ShowMax`: a brief spells out the ten newest open
directives, and with more of them the CEO may close an older one by its id without
having read it, which the abstract specification forbids. The fairness half is
checked by `inbox_live`.

The proofs about `Office` rest on `OfficeAssumption`, the assumptions of its parts: the
thresholds of compaction are ordered as the code's constants are (`KEEP_RECENT` below
`COMPACT_FLOOR` below `COMPACT_AT`), a post and a read cost something, a pointer is
not a prompt, the shipped texts are not the company's, and the sizes are numbers.
Those about `Duty` rest on `DutyAssumption`. A behaviour of the whole is a behaviour of
each part (`PartSteps`, `Parts`), which carries what is proved of a part over to the
whole; `TypeOKHolds` then follows from the types of the parts.

`WorkProofs`, the admission and the board:

* `UnblockAnnouncedHolds` needs of the types only `ObjType`; an objective that loses
  its last open blocker loses it to the `Close` of that blocker, and then `NewlyReady`
  finds it (`FreedByClosing`).
* `PushesBoundedHolds`: the property is about a history variable; `BudgetInv` says that
  the counter in kv is the same number, and stays within the cap when there is one.
* `RepeatsBoundedHolds`: `RepeatInv` is the property for every shape, in the table or
  not; a caller that records turns from one that asks into a row, and one that asks
  anew has counted the rows first. Time only takes rows out of the day.
* `ChecksBoundedHolds`: `consecutive_checks` looks at a window of the newest rows back
  to the last build. The proof restates it as a set (`Circling`) and shows that
  a new row, of whatever class, adds at most itself to it.

`LedgerProofs`, the X client:

* `ChainAliveHolds`. A caller that stores its token overwrites one X may accept.
  `HeldIsFresh` says why that is safe: what a caller holds is accepted by X, nobody else
  has it and no exchange under way can spend it.
* `CreditsBoundedHolds`, `RepliesBoundedHolds`: while nothing is on record each agent
  may be on its way to the same transfer or tweet; once something is, nobody new sets
  out. `CreditInv` and `ReplyInv` count those on their way.
* `OverspendBoundedHolds`: `Owed` keeps account of what each call under way may still
  debit: the dearest call, less the look-up of the own id once that is done. A call
  begins on a balance that is not empty, so the sum moves by a call at a time.
* `LedgerMirrorsBillHolds`: `Tally` is the balance between the two books while calls are
  under way: they differ by the tweets billed today and not seen, by the posts whose
  answers are pending, and by d debits against b bills for the own id. `Booked` says
  that each tweet in the difference is in the hands of a pending read or still in what
  the stream was pushed.

`RecordsProofs`, what is kept in texts:

* `NothingForgottenHolds`, `OrphansBehindPicturesHolds`, `SentAsWrittenHolds` come from one
  invariant, `Story`, whose parts are about a history of any length. `Ordered`: the turns of
  its messages only grow. `Answered`: a tool result stands behind something else of its
  turn with no word of the user in between. Together they make the split harmless: what
  stands at the split is of the turn of a result behind it or the result has lost
  nothing. `Briefed`: each turn is in the brief or there. `Viewed`: what was sent never ends
  between two tool results, and pictures not sent are of the newest turn. From
  the first of these follows that the tail that `split_point` cuts off holds no more
  than the model was sent, unless more than Keep was unsent (`UnsentIsLong`, which needs that
  a shorter tail weighs less, `WeightShrinks`). `Dropped` says what became of a picture that
  was saved unsent; it is kept by an answer because, when an answer comes, the words of a
  user stand between such a picture and it (`Resumed`, `FateJoined`). `build_request` and `Saved` only tell pictures
  apart (`Retold`), so each action is a chain of lemmas about one appended message
  (`SoundJoined`, `ViewedJoined`) or about the shortened history (`SoundShortened`).
* The founder's half of `NothingForgotten` is `ChatKeptHolds`. A fold deletes by the largest
  id it read. `FoldInv` says that this deletes only what it read, because later rows
  have larger ids, and that nobody else writes the brief meanwhile.
* `PromptStandsHolds`: `Based`, the first row of a base is a prompt and no rollback takes
  it. `OwnSkillStandsHolds`: `OwnInv` ties the history variable to the newest row.
* `StaleOnlyByOverlapHolds`. `ApartInv`: of two calls under way each knows of the other, so
  one that knows of none finds in the file what it wrote.

`DutyProofs`:

* `DipAnnouncedHolds`: the throttle is what could swallow an alert. `SeatInv` adds that an
  alert the throttle still remembers was heard in this dip.
* `AlertHandedOnHolds`: inductive over the types (`RoutinesInv`). The steps to argue about
  are those that replace, re-own or remove a routine while its command runs, and those
  of the task that carries the alert: it is put down only by a run that begins, a
  harvest, a fire or the end of the process, after which the clocks are reset.
* `BillBoundedHolds`: `CallInv` bounds what was bought by the places of the ladder the call
  has left (`Tried`), so the model at hand has sold nothing yet, and what was bought and
  cut by `Attempts` for each of those and the requests sent to the one at hand.

Where a set of numbers needs a least or a greatest element the proofs take the least
counterexample (`Least`, from the well-foundedness of the naturals).

Only model-checked: all liveness, the fairness half of `DirectivesKept` included,
because it rests on fairness and ENABLED, which the prover does not handle. Induction
over data is out of reach too: what a recursive function computes is not proved, and
none of the theorems needs it.

## Not modelled

* Prompt texts, formatting, logging, the public viewer, the command line and the
  parsing of the configuration. What `Config` guarantees is an assumption of the
  module that uses it.
* The heartbeat's backoff, `check_disk` and the arithmetic of the burn rate: one
  alert or one line of a brief each, which nothing else reads.
* X's subscriptions and the app-only token: no state of the program.
* Memories and rating statistics: rows that are appended and searched.
* Shell, files, SQL, web, images, gh and credits: input and output of one call.
* Most of `main.rs` is tests; they were read, as were the comments, for what the
  properties should say.
* A ceiling of forty employees, and more than ten directives in a brief, are beyond
  the instances; the second is an assumption of the theorem that needs it.

## Plan

The parts of the program that keep state over a concurrent step are modelled. What
would add most from here:

1. Lemmas that relate the operators proved about to their code-like definitions for
   every input, where the models define them by choice (`split_point`, `get_prompt`,
   `consecutive_checks`): that each is the one the code's loop stops at.
2. The refinement of a budget that `XLedger` should keep if callers did not overlap, as
   an abstract specification beside the bounds proved.
3. A composition of `Admission` with the `Dispatch` of `Crew`, if rules ever come to
   depend on who is running.
