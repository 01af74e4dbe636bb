------------------------------- MODULE Inbox --------------------------------
(***************************************************************************)
(* The CEO's inbox: how founder messages (`khan tell` and Telegram), alerts *)
(* and the reports of background tasks reach a model call, through the     *)
(* episode loop of run_ceo (src/src/agent.rs) over the messages,           *)
(* routine_alerts, episodes and kv tables of the store (src/src/state.rs). *)
(*                                                                         *)
(* An episode is composed from the store, drains the queues at the head of *)
(* every turn into a transcript held in memory, and throws the transcript  *)
(* away at its end.  A crash may fall between any two steps.               *)
(***************************************************************************)
EXTENDS Integers, Sequences, FiniteSets

CONSTANTS
    Tells,         \* directives sent with `khan tell`
    Texts,         \* founder messages sent on Telegram
    Alerts,        \* occurrences of an alert
    Reports,       \* background tasks and their reports
    ShowMax,       \* SHOW: open directives a brief spells out
    MaxSteps,      \* cfg.episode_max_steps
    QuietSteps,    \* cfg.quiet_heartbeat_max_steps
    MaxBeats,      \* bound: heartbeats in a behaviour
    MaxFailures,   \* bound: model calls of the CEO that fail
    MaxRestarts    \* bound: process restarts

\* Each comes through a table or a channel of its own.
ASSUME InboxKinds ==
    /\ Tells \cap Texts = {} /\ Alerts \cap Reports = {}
    /\ (Tells \cup Texts) \cap (Alerts \cup Reports) = {}

ASSUME InboxSizes ==
    /\ ShowMax \in Nat /\ MaxSteps \in Nat /\ QuietSteps \in Nat
    /\ MaxBeats \in Nat /\ MaxFailures \in Nat /\ MaxRestarts \in Nat

VARIABLES
    \* kept by the store
    messages,   \* the messages table, oldest first
    alerts,     \* routine_alerts with delivered = 0
    scratch,    \* kv episode_scratch
    note,       \* late reports carried by the last episode note
    offset,     \* kv telegram_offset
    \* kept by Telegram
    phone,      \* the updates of the founder's chat, oldest first
    \* in memory
    pc,         \* where run_ceo is; "down" when there is no process
    context,    \* the episode's transcript
    drained,    \* the ids drain_messages returned whose messages are not in context yet
    steps,      \* turns of this episode
    quiet,      \* the episode is a quiet heartbeat
    first,      \* first_episode
    emptyWake,  \* empty_wake
    task,       \* Orchestrator.pending, by report
    poller,     \* telegram::serve: its offset and the end of its batch
    stop,       \* the stop flag
    \* history and bounds
    shown,      \* what has been in front of a model call that answered
    raised,     \* alerts raised so far
    crashed,    \* the process has died without its shutdown
    beats, failures, restarts

store  == <<messages, alerts, scratch, note, offset>>
ceo    == <<pc, context, drained, steps, quiet, first, emptyWake>>
bounds == <<raised, crashed, beats, failures, restarts>>
vars   == <<store, phone, ceo, task, poller, stop, shown, bounds>>

Founder == Tells \cup Texts
Items   == Founder \cup Alerts \cup Reports
Via     == {"brief", "note", "scratch", "drain"}

Up == pc # "down"

Queued       == {i \in DOMAIN messages : ~messages[i].delivered}
PendingInput == Queued # {} \/ alerts # {}                \* has_pending_input

\* open_directives, and the newest ShowMax of them that a brief spells out.
OpenDirectives ==
    {i \in DOMAIN messages :
        messages[i].delivered /\ ~messages[i].acked /\ messages[i].msg \in Tells}
Brief == {i \in OpenDirectives : Cardinality({j \in OpenDirectives : j > i}) < ShowMax}

InFlight == {r \in Reports : task[r] \in {"running", "finished"}}
Finished == {r \in Reports : task[r] = "finished"}

As(via, items) == {[item |-> x, via |-> via] : x \in items}
InContext      == {e.item : e \in context}
WorkArrived    == \E e \in context : e.via = "drain"

Row(m) == [msg |-> m, delivered |-> FALSE, acked |-> FALSE]

-----------------------------------------------------------------------------
Init ==
    /\ messages = <<>> /\ alerts = {} /\ scratch = {} /\ note = {} /\ offset = 1
    /\ phone = <<>>
    /\ pc = "wait" /\ context = {} /\ drained = {} /\ steps = 0 /\ quiet = FALSE
    /\ first = TRUE /\ emptyWake = TRUE
    /\ task = [r \in Reports |-> "unsent"]
    /\ poller = [next |-> 1, upto |-> 0]
    /\ stop = FALSE
    /\ shown = {} /\ raised = {} /\ crashed = FALSE
    /\ beats = 0 /\ failures = 0 /\ restarts = 0

-----------------------------------------------------------------------------
(* The senders.                                                            *)

(* `khan tell` is a process of its own that only needs the database.       *)
Tell(t) ==
    /\ \A i \in DOMAIN messages : messages[i].msg # t
    /\ messages' = Append(messages, Row(t))
    /\ UNCHANGED <<alerts, scratch, note, offset, phone, ceo, task, poller, stop, shown, bounds>>

Text(x) ==
    /\ \A i \in DOMAIN phone : phone[i] # x
    /\ phone' = Append(phone, x)
    /\ UNCHANGED <<store, ceo, task, poller, stop, shown, bounds>>

(* telegram::serve: a long poll returns every update from the offset on,   *)
(* each is queued, and the offset is saved once the batch is through.      *)
\* Seeded fault: the offset is saved before the batch is queued.
PollSaving ==
    /\ Up /\ poller.next > poller.upto /\ offset = poller.next
    /\ Len(phone) >= poller.next
    /\ poller' = [poller EXCEPT !.upto = Len(phone)]
    /\ offset' = Len(phone) + 1
    /\ UNCHANGED <<messages, alerts, scratch, note, phone, ceo, task, stop, shown, bounds>>

Poll ==
    /\ Up /\ poller.next > poller.upto /\ offset = poller.next
    /\ Len(phone) >= poller.next
    /\ poller' = [poller EXCEPT !.upto = Len(phone)]
    /\ UNCHANGED <<store, phone, ceo, task, stop, shown, bounds>>

QueueText ==
    /\ Up /\ poller.next <= poller.upto
    /\ messages' = Append(messages, Row(phone[poller.next]))
    /\ poller' = [poller EXCEPT !.next = @ + 1]
    /\ UNCHANGED <<alerts, scratch, note, offset, phone, ceo, task, stop, shown, bounds>>

\* Seeded fault: the offset is the last update's id, not one past it.
SaveLast ==
    /\ Up /\ poller.next > poller.upto /\ offset # poller.next
    /\ offset' = poller.next - 1
    /\ poller' = [poller EXCEPT !.next = @ - 1, !.upto = @ - 1]
    /\ UNCHANGED <<messages, alerts, scratch, note, phone, ceo, task, stop, shown, bounds>>

SaveOffset ==
    /\ Up /\ poller.next > poller.upto /\ offset # poller.next
    /\ offset' = poller.next
    /\ UNCHANGED <<messages, alerts, scratch, note, phone, ceo, task, poller, stop, shown, bounds>>

(* add_routine_alert, from the routines runner, the X stream or the gauges. *)
Raise(a) ==
    /\ Up /\ a \notin raised
    /\ alerts' = alerts \cup {a}
    /\ raised' = raised \cup {a}
    /\ UNCHANGED <<messages, scratch, note, offset, phone, ceo, task, poller, stop, shown,
                   crashed, beats, failures, restarts>>

Report(r) ==
    /\ Up /\ task[r] = "running"
    /\ task' = [task EXCEPT ![r] = "finished"]
    /\ UNCHANGED <<store, phone, ceo, poller, stop, shown, bounds>>

-----------------------------------------------------------------------------
(* Between episodes.                                                       *)

\* Seeded fault: the idle wait looks at founder messages only.
OpenDeaf(beat) ==
    /\ pc = "wait" /\ ~stop
    /\ beat => beats < MaxBeats
    /\ first \/ beat \/ Queued # {} \/ Finished # {} \/ (emptyWake /\ InFlight = {})
    /\ pc' = "head"
    /\ context' = As("brief", {messages[i].msg : i \in Brief})
                  \cup As("note", note) \cup As("scratch", scratch)
    /\ scratch' = {}
    /\ steps' = 0 /\ first' = FALSE
    /\ quiet' = (beat /\ ~PendingInput /\ OpenDirectives = {} /\ InFlight # {} /\ Finished = {})
    /\ beats' = IF beat THEN beats + 1 ELSE beats
    /\ UNCHANGED <<messages, alerts, note, offset, phone, drained, emptyWake, task, poller, stop,
                   shown, raised, crashed, failures, restarts>>

(* What ends the idle wait without a heartbeat: an input, a finished task, *)
(* or nobody at work while the empty wake is armed.                        *)
Event == PendingInput \/ Finished # {} \/ (emptyWake /\ InFlight = {})

(* wait_for_event returns - a heartbeat may also fall due just after it -  *)
(* or the first episode needs no event; the brief is composed from the     *)
(* store and the scratch is moved into it.                                 *)
Open(beat) ==
    /\ pc = "wait" /\ ~stop
    /\ beat => beats < MaxBeats
    /\ first \/ beat \/ Event
    /\ pc' = "head"
    /\ context' = As("brief", {messages[i].msg : i \in Brief})
                  \cup As("note", note) \cup As("scratch", scratch)
    /\ scratch' = {}
    /\ steps' = 0 /\ first' = FALSE
    /\ quiet' = (beat /\ ~PendingInput /\ OpenDirectives = {} /\ InFlight # {} /\ Finished = {})
    /\ beats' = IF beat THEN beats + 1 ELSE beats
    /\ UNCHANGED <<messages, alerts, note, offset, phone, drained, emptyWake, task, poller, stop,
                   shown, raised, crashed, failures, restarts>>

-----------------------------------------------------------------------------
(* The head of a turn.                                                     *)

(* A stop ends the episode; so does its wall clock, with a last call (the  *)
(* clock allows for minutes, the awaits before the first turn for seconds).*)
Interrupt ==
    /\ pc = "head" /\ stop
    /\ pc' = "close"
    /\ UNCHANGED <<store, phone, context, drained, steps, quiet, first, emptyWake, task, poller,
                   stop, shown, bounds>>

Overtime ==
    /\ pc = "head" /\ ~stop /\ steps > 0
    /\ pc' = "cutoff"
    /\ UNCHANGED <<store, phone, context, drained, steps, quiet, first, emptyWake, task, poller,
                   stop, shown, bounds>>

StepCap(worked) == IF quiet /\ ~worked /\ QuietSteps < MaxSteps THEN QuietSteps ELSE MaxSteps

\* Seeded fault: the step cap ends the episode without a last call.
CappedSilent ==
    /\ pc = "head" /\ ~stop
    /\ steps + 1 > StepCap(WorkArrived \/ alerts # {})
    /\ pc' = "close"
    /\ steps' = steps + 1
    /\ context' = context \cup As("drain", alerts)
    /\ alerts' = {}
    /\ UNCHANGED <<messages, scratch, note, offset, phone, drained, quiet, first, emptyWake,
                   task, poller, stop, shown, bounds>>

(* The alerts are drained before the step cap is looked at.                *)
Capped ==
    /\ pc = "head" /\ ~stop
    /\ steps + 1 > StepCap(WorkArrived \/ alerts # {})
    /\ pc' = "cutoff"
    /\ steps' = steps + 1
    /\ context' = context \cup As("drain", alerts)
    /\ alerts' = {}
    /\ UNCHANGED <<messages, scratch, note, offset, phone, drained, quiet, first, emptyWake,
                   task, poller, stop, shown, bounds>>

\* Seeded fault: the step cap is off by one.
TurnOver ==
    /\ pc = "head" /\ ~stop
    /\ steps <= StepCap(WorkArrived \/ alerts # {}) + 1
    /\ steps' = steps + 1
    /\ context' = context \cup As("drain", alerts \cup Finished)
    /\ alerts' = {}
    /\ task' = [r \in Reports |-> IF r \in Finished THEN "delivered" ELSE task[r]]
    /\ drained' = Queued
    /\ messages' = [i \in DOMAIN messages |-> [messages[i] EXCEPT !.delivered = TRUE]]
    /\ pc' = IF Queued = {} THEN "ask" ELSE "bank"
    /\ UNCHANGED <<scratch, note, offset, phone, quiet, first, emptyWake, poller, stop, shown, bounds>>

(* Alerts, harvested reports and founder messages leave their queues for   *)
(* the transcript; the messages are marked delivered all at once.          *)
Turn ==
    /\ pc = "head" /\ ~stop
    /\ steps + 1 <= StepCap(WorkArrived \/ alerts # {})
    /\ steps' = steps + 1
    /\ context' = context \cup As("drain", alerts \cup Finished)
    /\ alerts' = {}
    /\ task' = [r \in Reports |-> IF r \in Finished THEN "delivered" ELSE task[r]]
    /\ drained' = Queued
    /\ messages' = [i \in DOMAIN messages |-> [messages[i] EXCEPT !.delivered = TRUE]]
    /\ pc' = IF Queued = {} THEN "ask" ELSE "bank"
    /\ UNCHANGED <<scratch, note, offset, phone, quiet, first, emptyWake, poller, stop, shown, bounds>>

(* Drained rows are taken in the order of their ids.                       *)
Oldest == CHOOSE i \in drained : \A j \in drained : i <= j

\* Seeded fault: the scratch holds the last message only.
BankLast ==
    /\ pc = "bank"
    /\ scratch' = {messages[Oldest].msg}
    /\ context' = context \cup As("drain", {messages[Oldest].msg})
    /\ drained' = drained \ {Oldest}
    /\ pc' = IF drained = {Oldest} THEN "ask" ELSE "bank"
    /\ UNCHANGED <<messages, alerts, note, offset, phone, steps, quiet, first, emptyWake, task,
                   poller, stop, shown, bounds>>

(* One drained message after another is banked in the scratch and shown;   *)
(* the compaction of the Telegram chat is awaited in between.              *)
Bank ==
    /\ pc = "bank"
    /\ scratch' = scratch \cup {messages[Oldest].msg}
    /\ context' = context \cup As("drain", {messages[Oldest].msg})
    /\ drained' = drained \ {Oldest}
    /\ pc' = IF drained = {Oldest} THEN "ask" ELSE "bank"
    /\ UNCHANGED <<messages, alerts, note, offset, phone, steps, quiet, first, emptyWake, task,
                   poller, stop, shown, bounds>>

-----------------------------------------------------------------------------
(* The model.                                                              *)

Answered ==
    /\ pc = "ask"
    /\ pc' = "act"
    /\ shown' = shown \cup InContext
    /\ UNCHANGED <<store, phone, context, drained, steps, quiet, first, emptyWake, task, poller,
                   stop, bounds>>

(* The call and its fallbacks failed: the next turn tries again.           *)
Failed ==
    /\ pc = "ask" /\ failures < MaxFailures
    /\ pc' = "head"
    /\ failures' = failures + 1
    /\ UNCHANGED <<store, phone, context, drained, steps, quiet, first, emptyWake, task, poller,
                   stop, shown, raised, crashed, beats, restarts>>

\* Seeded fault: an ack does not ask whether the row was delivered.
AckAny(i) ==
    /\ pc = "act"
    /\ i \in DOMAIN messages /\ ~messages[i].acked
    /\ messages' = [messages EXCEPT ![i].acked = TRUE]
    /\ UNCHANGED <<alerts, scratch, note, offset, phone, ceo, task, poller, stop, shown, bounds>>

(* ack_founder, with whatever id the model passes.                         *)
Ack(i) ==
    /\ pc = "act"
    /\ i \in DOMAIN messages /\ messages[i].delivered /\ ~messages[i].acked
    /\ messages' = [messages EXCEPT ![i].acked = TRUE]
    /\ UNCHANGED <<alerts, scratch, note, offset, phone, ceo, task, poller, stop, shown, bounds>>

DispatchTask(r) ==
    /\ pc = "act" /\ task[r] = "unsent"
    /\ task' = [task EXCEPT ![r] = "running"]
    /\ UNCHANGED <<store, phone, ceo, poller, stop, shown, bounds>>

(* finish_episode; another turn; or quiescence: turns that only looked and *)
(* nothing new waiting (the count of such turns is left to the model).     *)
EndTurn ==
    /\ pc = "act"
    /\ \/ pc' \in {"close", "head"}
       \/ pc' = "cutoff" /\ Finished = {} /\ ~PendingInput
    /\ UNCHANGED <<store, phone, context, drained, steps, quiet, first, emptyWake, task, poller,
                   stop, shown, bounds>>

(* An episode that was cut off gets one last call for its note.            *)
Cutoff ==
    /\ pc = "cutoff"
    /\ pc' = "close"
    /\ \/ ~stop /\ shown' = shown \cup InContext /\ UNCHANGED failures
       \/ ~stop /\ failures < MaxFailures /\ failures' = failures + 1 /\ UNCHANGED shown
       \/ stop /\ UNCHANGED <<shown, failures>>
    /\ UNCHANGED <<store, phone, context, drained, steps, quiet, first, emptyWake, task, poller,
                   stop, raised, crashed, beats, restarts>>

\* Seeded fault: the empty wake is always armed.
CloseArmed ==
    /\ pc = "close"
    /\ pc' = "wait"
    /\ emptyWake' = TRUE
    /\ scratch' = {} /\ note' = {} /\ context' = {} /\ steps' = 0 /\ quiet' = FALSE
    /\ UNCHANGED <<messages, alerts, offset, phone, drained, first, task, poller, stop, shown, bounds>>

(* The note replaces the one before it, the scratch is cleared, and the    *)
(* empty wake is armed only while work is in flight.                       *)
Close ==
    /\ pc = "close"
    /\ pc' = "wait"
    /\ emptyWake' = (InFlight # {})
    /\ scratch' = {} /\ note' = {} /\ context' = {} /\ steps' = 0 /\ quiet' = FALSE
    /\ UNCHANGED <<messages, alerts, offset, phone, drained, first, task, poller, stop, shown, bounds>>

-----------------------------------------------------------------------------
(* The process.                                                            *)

Stop ==
    /\ Up /\ ~stop /\ restarts < MaxRestarts
    /\ stop' = TRUE
    /\ UNCHANGED <<store, phone, ceo, task, poller, shown, bounds>>

Memory ==
    /\ pc' = "down" /\ context' = {} /\ drained' = {} /\ steps' = 0 /\ quiet' = FALSE
    /\ first' = TRUE /\ emptyWake' = TRUE /\ stop' = FALSE
    /\ task' = [r \in Reports |-> IF r \in InFlight THEN "delivered" ELSE task[r]]
    /\ poller' = [next |-> offset, upto |-> offset - 1]

\* Seeded fault: the late reports are not written down.
ExitUnbanked ==
    /\ pc = "wait" /\ stop
    /\ Memory
    /\ UNCHANGED <<store, phone, shown, bounds>>

(* The loop is left: reports that are in, or come in within 30 seconds,    *)
(* are banked as an episode note of their own.                             *)
Exit ==
    /\ pc = "wait" /\ stop
    /\ \E late \in SUBSET (InFlight \ Finished) :
          note' = IF Finished \cup late = {} THEN note ELSE Finished \cup late
    /\ Memory
    /\ UNCHANGED <<messages, alerts, scratch, offset, phone, shown, bounds>>

Crash ==
    /\ Up /\ restarts < MaxRestarts
    /\ crashed' = TRUE
    /\ Memory
    /\ UNCHANGED <<store, phone, shown, raised, beats, failures, restarts>>

Boot ==
    /\ ~Up
    /\ pc' = "wait"
    /\ restarts' = restarts + 1
    /\ UNCHANGED <<store, phone, context, drained, steps, quiet, first, emptyWake, task, poller,
                   stop, shown, raised, crashed, beats, failures>>

-----------------------------------------------------------------------------
Senders ==
    \/ \E t \in Tells : Tell(t)
    \/ \E x \in Texts : Text(x)
    \/ \E a \in Alerts : Raise(a)

Poller == Poll \/ QueueText \/ SaveOffset

Episode ==
    \/ \E beat \in BOOLEAN : Open(beat)
    \/ Interrupt \/ Overtime \/ Capped \/ Turn \/ Bank
    \/ Answered \/ Failed \/ EndTurn \/ Cutoff \/ Close
    \/ Exit \/ Boot
    \/ \E i \in DOMAIN messages : Ack(i)
    \/ \E r \in Reports : DispatchTask(r)

Next ==
    \/ Senders
    \/ Poller
    \/ Episode
    \/ \E r \in Reports : Report(r)
    \/ Stop
    \/ Crash

Spec == Init /\ [][Next]_vars

(* tokio polls every ready task, a model call answers or fails, and the    *)
(* platform starts the process again when it has ended.  Nothing obliges a *)
(* heartbeat, a founder, an alert, a signal or a crash to come.            *)
Unprompted == \E beat \in {FALSE} : Open(beat)
CeoStep ==
    \/ Unprompted
    \/ Interrupt \/ Overtime \/ Capped \/ Turn \/ Bank
    \/ Answered \/ Failed \/ EndTurn \/ Cutoff \/ Close \/ Exit \/ Boot

Fairness ==
    /\ WF_vars(CeoStep)
    /\ WF_vars(Poller)
    /\ \A r \in Reports : WF_vars(Report(r))

FairSpec == Spec /\ Fairness
-----------------------------------------------------------------------------
(* Properties.                                                             *)

(* Every variable keeps its shape, and an episode asks at most its cap of  *)
(* turns.                                                                  *)
TypeOK ==
    /\ messages \in Seq([msg : Founder, delivered : BOOLEAN, acked : BOOLEAN])
    /\ alerts \subseteq Alerts /\ raised \subseteq Alerts
    /\ scratch \subseteq Founder /\ note \subseteq Reports /\ shown \subseteq Items
    /\ phone \in Seq(Texts) /\ offset \in 1 .. Len(phone) + 1
    /\ pc \in {"down", "wait", "head", "bank", "ask", "act", "cutoff", "close"}
    /\ context \subseteq [item : Items, via : Via]
    /\ drained \subseteq DOMAIN messages /\ (pc = "bank" <=> drained # {})
    /\ steps \in 0 .. MaxSteps + 1 /\ (pc \in {"ask", "act"} => steps <= MaxSteps)
    /\ {quiet, first, emptyWake, stop, crashed} \subseteq BOOLEAN
    /\ task \in [Reports -> {"unsent", "running", "finished", "delivered"}]
    /\ poller \in [next : 1 .. Len(phone) + 1, upto : 0 .. Len(phone)]
    /\ beats \in 0 .. MaxBeats /\ failures \in 0 .. MaxFailures /\ restarts \in 0 .. MaxRestarts

(* `khan tell` keeps its promise whatever crashes, stops and failed calls  *)
(* come in between: the stage of a directive, as the founder sees it.      *)
Sent(t)  == \E i \in DOMAIN messages : messages[i].msg = t
Acked(t) == \E i \in DOMAIN messages : messages[i].msg = t /\ messages[i].acked
stage ==
    [t \in Tells |-> CASE ~Sent(t)                                -> "unsent"
                       [] Sent(t) /\ ~Acked(t) /\ t \notin shown -> "standing"
                       [] Sent(t) /\ ~Acked(t) /\ t \in shown    -> "heard"
                       [] Acked(t)                               -> "done"]
Promise == INSTANCE Directives WITH stage <- stage
DirectivesKept == Promise!Spec

(* A founder message is somewhere as long as the model has not had it in   *)
(* front of it: in the queue, in the hands of the drain, in the scratch or *)
(* in the transcript.  What it may be lost to is a crash while it is in    *)
(* the drain's hands, or while a replay of it waits for its first call     *)
(* (the scratch has been cleared), and the end of an episode in which      *)
(* every call failed or that a stop cut off.  Nothing else: a message that *)
(* an episode has banked outlives its crash.                               *)
InHand      == {messages[i].msg : i \in drained}
Held(m)     == \/ m \in shown \cup scratch \cup InContext \cup InHand
               \/ \E i \in Queued : messages[i].msg = m
Replayed(m) == [item |-> m, via |-> "scratch"] \in context
HeldUntilHeard ==
    [][\A m \in Texts : Held(m) /\ ~Held(m)' =>
          \/ pc' = "down" /\ (m \in InHand \/ Replayed(m))
          \/ pc = "close" /\ (stop \/ failures > 0)]_vars

(* The Telegram offset never passes an update that was not queued: no      *)
(* founder message is dropped on the way in, wherever a restart falls.     *)
TextsNotDropped ==
    \A k \in 1 .. offset - 1 : \E i \in DOMAIN messages : messages[i].msg = phone[k]

(* The saved offset replays no founder message: an update has one row.  A  *)
(* process that ends inside a batch breaks this, since the offset still    *)
(* stands before the batch.                                                *)
QueuedOnce ==
    \A i, j \in DOMAIN messages :
        messages[i].msg \in Texts /\ messages[i].msg = messages[j].msg => i = j

(* Within one process the poller itself queues no update twice.            *)
TextsNotReplayed == restarts = 0 => QueuedOnce

(* The wait between episodes never sleeps over an input, and an episode    *)
(* never ends over one: what is queued is drained, with no heartbeat to    *)
(* help.                                                                   *)
InputDrained ==
    /\ \A a \in Alerts : a \in alerts ~> a \notin alerts
    /\ \A m \in Founder : (\E i \in Queued : messages[i].msg = m)
                             ~> (\A i \in Queued : messages[i].msg # m)

(* What an episode drains does not wait for the next one: it is in front   *)
(* of a call of the model, the last one of a cut-off episode included, if  *)
(* that call does not fail and nothing stops the process.                  *)
Undisturbed == failures = 0 /\ restarts = 0 /\ ~crashed /\ ~stop
InputHeard ==
    /\ \A a \in Alerts : a \in alerts ~> (a \in shown \/ ~Undisturbed)
    /\ \A m \in Founder : Sent(m) ~> (m \in shown \/ ~Undisturbed)

(* A report that is in is read: by the episode that harvests it or, after  *)
(* a shutdown, from the note that banked it.  Excepted are a crash, a call *)
(* that failed, and a report that a later stop finds in the transcript of  *)
(* an episode whose model has not been asked: the note of that episode     *)
(* replaces the one that banked the report.                                *)
CutShort(r) == pc = "close" /\ stop /\ r \in InContext /\ r \notin shown
ReportHeard ==
    \A r \in Reports :
        task[r] = "finished" ~> (r \in shown \/ crashed \/ failures > 0 \/ CutShort(r))

(* The empty wake is single-shot: a company to which nothing happens comes *)
(* to rest, and is not re-opened episode after episode.                    *)
ComesToRest == <>[](pc = "wait")

(* The scratch replays founder messages instead of eating them: a drained  *)
(* one has been in front of the model, or can still get there, if only     *)
(* because Telegram will send it again.                                    *)
FounderHeard ==
    \A i \in DOMAIN messages :
        messages[i].delivered =>
            \/ messages[i].msg \in shown \cup scratch \cup InContext
            \/ i \in drained
            \/ i \in OpenDirectives
            \/ \E k \in offset .. Len(phone) : phone[k] = messages[i].msg
=============================================================================
