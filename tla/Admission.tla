------------------------------ MODULE Admission ------------------------------
(***************************************************************************)
(* What may be sent to work: the rules of admit_dispatch_limit             *)
(* (src/src/agent.rs) over the dispatches table, and the daily look of an  *)
(* ops lane.  The CEO asks from its episode, managers ask from tasks of    *)
(* their own (delegate), and the rules are read and the row is written in  *)
(* separate statements: two callers may both read before either writes.    *)
(*                                                                         *)
(* A task is the sequence of its words.  Objective 0 is company upkeep,    *)
(* and an absent objective counts as 0.                                    *)
(***************************************************************************)
EXTENDS Integers, Sequences, FiniteSets

CONSTANTS
    Objectives,    \* board ids, positive
    CEO, Managers, \* who asks
    Kinds,         \* categories: profit, growth, infra, explore, ops, or ""
    Tasks,         \* the tasks they ask for, as sequences of words
    CheckWords, BuildWords, IdeaWords,
    ObjOf,         \* the objective a word mentions, 0 for none
    ShapeWords,    \* words in a shape: 6
    RepeatLimit,   \* REPEAT_SHAPE_LIMIT
    CheckLimit,    \* max_consecutive_checks, 0 for no limit
    CheckWindow,   \* rows consecutive_checks looks at: 20
    Day,           \* 24 hours
    MaxTime, MaxLog  \* bounds: time, and rows in a behaviour

Askers == {CEO} \cup Managers

AdmissionAssumption ==
    /\ Objectives \subseteq Nat \ {0}
    /\ CEO \notin Managers /\ IsFiniteSet(Managers)
    /\ \A t \in Tasks : t \in Seq(DOMAIN ObjOf)
    /\ ObjOf \in [DOMAIN ObjOf -> Objectives \cup {0}]
    /\ ShapeWords \in Nat /\ RepeatLimit \in Nat \ {0} /\ CheckLimit \in Nat
    /\ CheckWindow \in Nat \ {0} /\ Day \in Nat \ {0}
    /\ MaxTime \in Nat /\ MaxLog \in Nat

VARIABLES
    kind,   \* objectives.kind
    log,    \* the dispatches table, oldest first
    look,   \* ops_dispatch:{o}, the time of an ops lane's last look
    ask,    \* what a caller was admitted for and has not recorded yet
    now
admVars == <<kind, log, look, ask, now>>

-----------------------------------------------------------------------------
\* The first place where a word of S stands in a task, if there is one.
First(task, S) ==
    {i \in DOMAIN task : task[i] \in S /\ \A j \in 1 .. i - 1 : task[j] \notin S}

classify_task(task) ==
    IF \E b \in First(task, BuildWords) : \A c \in First(task, CheckWords) : b <= c
    THEN "build"
    ELSE IF First(task, CheckWords) # {} THEN "check" ELSE "other"

Words == DOMAIN ObjOf
named_objective(task) ==
    LET mention == First(task, {w \in Words : ObjOf[w] # 0})
    IN IF mention = {} THEN 0 ELSE ObjOf[task[CHOOSE i \in mention : TRUE]]

names_revenue_idea(task) == \E i \in DOMAIN task : task[i] \in IdeaWords

task_shape(o, task) ==
    <<o, IF Len(task) <= ShapeWords THEN task ELSE SubSeq(task, 1, ShapeWords)>>

(* On an explore lane only work that names its idea is a build.            *)
ClassOn(o, task) ==
    IF classify_task(task) = "build" /\ o # 0 /\ kind[o] = "explore" /\ ~names_revenue_idea(task)
    THEN "other" ELSE classify_task(task)

shape_count_24h(shape) ==
    Cardinality({i \in DOMAIN log : log[i].shape = shape /\ log[i].at > now - Day})

Rows(o)   == {i \in DOMAIN log : log[i].objective = o}
Recent(o) == {i \in Rows(o) : Cardinality({j \in Rows(o) : j > i}) < CheckWindow}

(* Checks since the last build, among the newest rows of the objective.    *)
consecutive_checks(o) ==
    Cardinality({i \in Recent(o) :
        log[i].class = "check" /\ \A j \in Recent(o) : j > i => log[j].class # "build"})

-----------------------------------------------------------------------------
Silent == [via |-> "none"]
Asks   == [via: {"dispatch", "delegate"}, objective: Objectives \cup {0}, task: Tasks,
           class: {"build", "check", "other"}]

Init ==
    /\ kind \in [Objectives -> Kinds]
    /\ log = <<>>
    /\ look = [o \in Objectives |-> -Day]
    /\ ask = [c \in Askers |-> Silent]
    /\ now = 0

\* Seeded fault: the same shape goes out however often it did.
AskAgain(c, via, o, task) ==
    /\ ask[c] = Silent /\ Len(log) + Cardinality({d \in Askers : ask[d] # Silent}) < MaxLog
    /\ via = "dispatch" => c = CEO
    /\ via = "delegate" => o = named_objective(task)
    /\ o = 0 => named_objective(task) = 0
    /\ ask' = [ask EXCEPT ![c] = [via |-> via, objective |-> o, task |-> task,
                                  class |-> ClassOn(o, task)]]
    /\ UNCHANGED <<kind, log, look, now>>

\* Seeded fault: checks are counted over the whole company.
AskChecks(c, via, o, task) ==
    /\ ask[c] = Silent /\ Len(log) + Cardinality({d \in Askers : ask[d] # Silent}) < MaxLog
    /\ via = "dispatch" => c = CEO
    /\ via = "delegate" => o = named_objective(task)
    /\ shape_count_24h(task_shape(o, task)) < RepeatLimit
    /\ o = 0 => named_objective(task) = 0
    /\ ClassOn(o, task) = "check" /\ o # 0 /\ CheckLimit > 0
          => consecutive_checks(0) < CheckLimit
    /\ ask' = [ask EXCEPT ![c] = [via |-> via, objective |-> o, task |-> task,
                                  class |-> ClassOn(o, task)]]
    /\ UNCHANGED <<kind, log, look, now>>

(* The rules let a task through.  A refusal changes nothing.               *)
Ask(c, via, o, task) ==
    /\ ask[c] = Silent /\ Len(log) + Cardinality({d \in Askers : ask[d] # Silent}) < MaxLog
    /\ via = "dispatch" => c = CEO
    /\ via = "delegate" => o = named_objective(task)
    /\ shape_count_24h(task_shape(o, task)) < RepeatLimit
    /\ o = 0 => named_objective(task) = 0
    /\ ClassOn(o, task) = "check" /\ o # 0 /\ CheckLimit > 0
          => consecutive_checks(o) < CheckLimit
    /\ ask' = [ask EXCEPT ![c] = [via |-> via, objective |-> o, task |-> task,
                                  class |-> ClassOn(o, task)]]
    /\ UNCHANGED <<kind, log, look, now>>

(* record_dispatch, and for a dispatch on an ops lane the gate behind it:  *)
(* with no routine of the lane failing there is one look a day.  A refusal *)
(* here comes after the row was written.                                   *)
Row(a, fate) == [objective |-> a.objective, class |-> a.class,
                 shape |-> task_shape(a.objective, a.task), at |-> now, fate |-> fate]

OpsLane(a) == a.via = "dispatch" /\ a.objective # 0 /\ kind[a.objective] = "ops"

Record(c, failing) ==
    /\ ask[c] # Silent
    /\ LET a == ask[c] IN
       IF OpsLane(a) /\ ~failing
       THEN /\ log' = Append(log, Row(a, IF now - look[a.objective] < Day THEN "refused" ELSE "look"))
            /\ look' = IF now - look[a.objective] < Day THEN look ELSE [look EXCEPT ![a.objective] = now]
       ELSE log' = Append(log, Row(a, "sent")) /\ UNCHANGED look
    /\ ask' = [ask EXCEPT ![c] = Silent]
    /\ UNCHANGED <<kind, now>>

(* objectives(update, kind), by the CEO between two of its calls.          *)
SetKind(o, k) ==
    /\ ask[CEO] = Silent /\ k # ""
    /\ kind' = [kind EXCEPT ![o] = k]
    /\ UNCHANGED <<log, look, ask, now>>

Tick ==
    /\ now < MaxTime
    /\ now' = now + 1
    /\ UNCHANGED <<kind, log, look, ask>>

Next ==
    \/ \E c \in Askers, via \in {"dispatch", "delegate"}, o \in Objectives \cup {0}, t \in Tasks :
          Ask(c, via, o, t)
    \/ \E c \in Askers, failing \in BOOLEAN : Record(c, failing)
    \/ \E o \in Objectives, k \in Kinds : SetKind(o, k)
    \/ Tick

Spec == Init /\ [][Next]_admVars

-----------------------------------------------------------------------------
TypeOK ==
    /\ kind \in [Objectives -> Kinds]
    /\ log \in Seq([objective: Objectives \cup {0}, class: {"build", "check", "other"},
                    shape: (Objectives \cup {0}) \X Seq(Words), at: 0 .. MaxTime,
                    fate: {"sent", "look", "refused"}])
    /\ look \in [Objectives -> -Day .. MaxTime]
    /\ ask \in [Askers -> Asks \cup {Silent}]
    /\ now \in 0 .. MaxTime

Asking(shape)  == {c \in Askers : ask[c] # Silent /\ task_shape(ask[c].objective, ask[c].task) = shape}
Checking(o)    == {c \in Askers : ask[c] # Silent /\ ask[c].objective = o /\ ask[c].class = "check"}

(* Work that recurs is a routine: whoever asks, and however their readings *)
(* of the table interleave with their writes, a shape goes out within a    *)
(* day at most RepeatLimit times, plus one for each other caller who had   *)
(* read the table before the last row was in.                              *)
RepeatsBounded ==
    \A s \in {log[i].shape : i \in DOMAIN log} :
        shape_count_24h(s) + Cardinality(Asking(s)) < RepeatLimit + Cardinality(Askers)

(* Circling is cut off: the checks that went out on an objective since its *)
(* last build stay at the limit, give or take the callers who were reading *)
(* at the same time, whatever its kind was meanwhile.                      *)
ChecksBounded ==
    CheckLimit > 0 =>
        \A o \in Objectives :
            consecutive_checks(o) + Cardinality(Checking(o)) < CheckLimit + Cardinality(Askers)

=============================================================================
