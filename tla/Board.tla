-------------------------------- MODULE Board --------------------------------
(***************************************************************************)
(* The objective board: the objectives tool of the CEO (src/src/agent.rs)  *)
(* over the objectives table (src/src/state.rs), with what an objective    *)
(* waits on, its review date and the budget for moving it.  Admission says *)
(* what is dispatched on an objective; all the board reads of that is the  *)
(* built dispatch of each employee.                                       *)
(***************************************************************************)
EXTENDS Integers, FiniteSets

CONSTANTS
    Objectives,     \* ids an INSERT may return
    Agents,
    MaxActive,      \* max_active_objectives, 0 for no cap
    MaxRecommits,   \* max_recommits, 0 for no cap
    Horizon,        \* max_review_horizon_hours, 0 for none
    Landing,        \* the hours before a review in which a move is a slide: 6
    MaxTime, MaxDate  \* bounds

BoardAssumption ==
    /\ IsFiniteSet(Objectives) /\ 0 \notin Objectives
    /\ MaxActive \in Nat /\ MaxRecommits \in Nat /\ Horizon \in Nat
    /\ Landing \in Nat /\ MaxTime \in Nat /\ MaxDate \in Nat

VARIABLES
    obj,        \* the objectives table
    recommits,  \* recommits:{id} in kv
    built,      \* the objective of each employee's newest dispatch, 0 if
                \* that is none or no build
    freed,      \* what the last call announced as unblocked
    pushes,     \* history: how often a date went later since a build was rated
    now
boardVars == <<obj, recommits, built, freed, pushes, now>>

Never == -1     \* no review date
Dates == 0 .. MaxDate
Absent == [status |-> "none", blocked_by |-> {}, review |-> Never]
Row    == [status: {"none", "active", "done", "dropped"},
           blocked_by: SUBSET Objectives, review: Dates \cup {Never}]

Active     == {o \in Objectives : obj[o].status = "active"}
Waiting(o) == obj[o].blocked_by \cap Active      \* Store::unresolved
Blocked(o) == o \in Active /\ Waiting(o) # {}

Init ==
    /\ obj = [o \in Objectives |-> Absent]
    /\ recommits = [o \in Objectives |-> 0]
    /\ built = [a \in Agents |-> 0]
    /\ freed = {}
    /\ pushes = [o \in Objectives |-> 0]
    /\ now = 0

(* objectives(add).  A blocker may be any number, one that is not on the   *)
(* board included.  An owner or a kind that is refused ends the call after *)
(* the row is in, without its date.                                        *)
Add(o, blockers, date) ==
    /\ obj[o].status = "none"
    /\ MaxActive > 0 => Cardinality(Active) < MaxActive
    /\ obj' = [obj EXCEPT ![o] = [status |-> "active", blocked_by |-> blockers, review |-> date]]
    /\ freed' = {}
    /\ UNCHANGED <<recommits, built, pushes, now>>

(* objectives(update) without a date, or stopped before it by an owner or  *)
(* a kind that is refused: the blockers are written.                       *)
Reblock(o, blockers) ==
    /\ obj[o].status # "none"
    /\ obj' = [obj EXCEPT ![o].blocked_by = blockers]
    /\ freed' = {}
    /\ UNCHANGED <<recommits, built, pushes, now>>

(* recommit_fault: a date past the horizon, a slide as the old date lands  *)
(* without a word, a later date when the budget is spent.                  *)
Landed(o)        == obj[o].review # Never /\ obj[o].review <= now + Landing
Later(o, date)   == obj[o].review # Never /\ date > obj[o].review
\* Seeded fault: the budget is looked at only while the old date is landing.
FaultLanding(o, date, noted) ==
    \/ Horizon > 0 /\ date - now > Horizon
    \/ Landed(o) /\ date > now /\ ~noted
    \/ Landed(o) /\ Later(o, date) /\ MaxRecommits > 0 /\ recommits[o] >= MaxRecommits

Fault(o, date, noted) ==
    \/ Horizon > 0 /\ date - now > Horizon
    \/ Landed(o) /\ date > now /\ ~noted
    \/ Later(o, date) /\ MaxRecommits > 0 /\ recommits[o] >= MaxRecommits

(* objectives(update, review_date): blockers and notes go in whatever the  *)
(* rule says of the date.                                                  *)
Redate(o, blockers, date, noted) ==
    /\ obj[o].status # "none"
    /\ obj' = [obj EXCEPT ![o].blocked_by = blockers,
                          ![o].review = IF Fault(o, date, noted) THEN @ ELSE date]
    /\ recommits' = [recommits EXCEPT
          ![o] = IF ~Fault(o, date, noted) /\ Later(o, date) THEN @ + 1 ELSE @]
    /\ pushes' = [pushes EXCEPT
          ![o] = IF obj[o].review # Never /\ obj'[o].review > obj[o].review THEN @ + 1 ELSE @]
    /\ freed' = {}
    /\ UNCHANGED <<built, now>>

(* newly_ready, on the table as it is after the status is written.         *)
NewlyReady(done, table) ==
    LET active == {x \in Objectives : table[x].status = "active"}
    IN {x \in active : done \in table[x].blocked_by /\ table[x].blocked_by \cap active = {}}

\* Seeded fault: the freed objectives are read before the status is written.
CloseUnread(o, status) ==
    /\ obj[o].status # "none"
    /\ obj' = [obj EXCEPT ![o].status = status]
    /\ freed' = NewlyReady(o, obj)
    /\ UNCHANGED <<recommits, built, pushes, now>>

(* objectives(done) and objectives(drop), of any objective there is.       *)
Close(o, status) ==
    /\ obj[o].status # "none"
    /\ obj' = [obj EXCEPT ![o].status = status]
    /\ freed' = NewlyReady(o, obj')
    /\ UNCHANGED <<recommits, built, pushes, now>>

(* record_dispatch, from Admission.                                        *)
Dispatched(a, o) ==
    /\ built' = [built EXCEPT ![a] = o]
    /\ freed' = {}
    /\ UNCHANGED <<obj, recommits, pushes, now>>

(* rate_work: a rated build gives the objective its budget back.           *)
Rate(a) ==
    /\ built[a] # 0
    /\ recommits' = [recommits EXCEPT ![built[a]] = 0]
    /\ pushes' = [pushes EXCEPT ![built[a]] = 0]
    /\ freed' = {}
    /\ UNCHANGED <<obj, built, now>>

Tick ==
    /\ now < MaxTime
    /\ now' = now + 1
    /\ freed' = {}
    /\ UNCHANGED <<obj, recommits, built, pushes>>

Next ==
    \/ \E o \in Objectives, b \in SUBSET Objectives, d \in Dates \cup {Never} : Add(o, b, d)
    \/ \E o \in Objectives, b \in SUBSET Objectives : Reblock(o, b)
    \/ \E o \in Objectives, b \in SUBSET Objectives, d \in Dates, noted \in BOOLEAN :
          Redate(o, b, d, noted)
    \/ \E o \in Objectives, s \in {"done", "dropped"} : Close(o, s)
    \/ \E a \in Agents, o \in Objectives \cup {0} : Dispatched(a, o)
    \/ \E a \in Agents : Rate(a)
    \/ Tick

Spec == Init /\ [][Next]_boardVars

-----------------------------------------------------------------------------
TypeOK ==
    /\ obj \in [Objectives -> Row]
    /\ recommits \in [Objectives -> Nat]
    /\ built \in [Agents -> Objectives \cup {0}]
    /\ freed \subseteq Objectives
    /\ pushes \in [Objectives -> Nat]
    /\ now \in 0 .. MaxTime

(* A lane that keeps moving its own date and delivers nothing is not a     *)
(* bet: whatever dates are written, moved back and moved on, between two   *)
(* rated builds an objective's date goes later at most MaxRecommits times. *)
PushesBounded ==
    MaxRecommits > 0 => \A o \in Objectives : pushes[o] <= MaxRecommits

(* The unblock is an event, delivered the turn it happens: when a step     *)
(* that leaves its blockers as they were makes a blocked objective ready,  *)
(* that step announces it.                                                 *)
UnblockAnnounced ==
    [][\A o \in Objectives :
          (/\ Blocked(o) /\ o \in Active' /\ Waiting(o)' = {}
           /\ obj'[o].blocked_by = obj[o].blocked_by)
          => o \in freed']_boardVars
=============================================================================
