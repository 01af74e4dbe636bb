------------------------------- MODULE WorkProofs -------------------------------
(***************************************************************************)
(* What module Office promises about work, for any company: what the last  *)
(* open blocker frees is announced by the step that closes it, a review    *)
(* date has a budget, and work that recurs or circles is cut off.          *)
(* The parts of Office share no variable, so the proofs are about the      *)
(* parts, and a step of the whole is a step of one part and a stutter of   *)
(* the others.                                                             *)
(***************************************************************************)
EXTENDS Office, FiniteSetTheorems, WellFoundedInduction, TLAPS

LEMMA PartSteps ==
  ASSUME [Next]_vars
  PROVE  /\ [Admission!Next]_(Admission!admVars) /\ [Board!Next]_(Board!boardVars)
         /\ [XLedger!Next]_(XLedger!vars) /\ [XToken!Next]_(XToken!vars)
         /\ [Transcript!Next]_(Transcript!transcriptVars)
         /\ [Registry!Next]_(Registry!registryVars)
         /\ [Scripts!Next]_(Scripts!scriptVars) /\ [Chat!Next]_(Chat!chatVars)
<1>1. \/ Admission!Next  /\ UNCHANGED <<B, L, K, H, R, S, C>>
      \/ Board!Next      /\ UNCHANGED <<A, L, K, H, R, S, C>>
      \/ XLedger!Next    /\ UNCHANGED <<A, B, K, H, R, S, C>>
      \/ XToken!Next     /\ UNCHANGED <<A, B, L, H, R, S, C>>
      \/ Transcript!Next /\ UNCHANGED <<A, B, L, K, R, S, C>>
      \/ Registry!Next   /\ UNCHANGED <<A, B, L, K, H, S, C>>
      \/ Scripts!Next    /\ UNCHANGED <<A, B, L, K, H, R, C>>
      \/ Chat!Next       /\ UNCHANGED <<A, B, L, K, H, R, S>>
      \/ UNCHANGED <<A, B, L, K, H, R, S, C>>
  BY DEF Next, vars
<1>2. /\ UNCHANGED A => UNCHANGED Admission!admVars
      /\ UNCHANGED B => UNCHANGED Board!boardVars
      /\ UNCHANGED K => UNCHANGED XToken!vars
      /\ UNCHANGED H => UNCHANGED Transcript!transcriptVars
      /\ UNCHANGED R => UNCHANGED Registry!registryVars
      /\ UNCHANGED S => UNCHANGED Scripts!scriptVars
      /\ UNCHANGED C => UNCHANGED Chat!chatVars
  BY DEF A, B, K, H, R, S, C, Admission!admVars, Board!boardVars, XToken!vars,
     Transcript!transcriptVars, Registry!registryVars, Scripts!scriptVars, Chat!chatVars
<1>3. UNCHANGED L => UNCHANGED XLedger!vars
  BY DEF L, XLedger!vars, XLedger!ledger, XLedger!memory, XLedger!xside, XLedger!slack
<1> QED  BY <1>1, <1>2, <1>3

LEMMA PartInits ==
  Init => /\ Admission!Init /\ Board!Init /\ XLedger!Init /\ XToken!Init
          /\ Transcript!Init /\ Registry!Init /\ Scripts!Init /\ Chat!Init
  BY DEF Init

(* A behaviour of the whole is one of each part.                           *)
LEMMA Parts ==
  Spec => /\ Admission!Spec /\ Board!Spec /\ XLedger!Spec /\ XToken!Spec
          /\ Transcript!Spec /\ Registry!Spec /\ Scripts!Spec /\ Chat!Spec
  BY PartInits, PartSteps, PTL
     DEF Spec, Admission!Spec, Board!Spec, XLedger!Spec, XToken!Spec, Transcript!Spec,
         Registry!Spec, Scripts!Spec, Chat!Spec

-----------------------------------------------------------------------------
(* The objective board.                                                    *)

ObjType == obj \in [Objectives -> Board!Row]

LEMMA ObjTypeHolds == Board!Spec => []ObjType
<1>1. Board!Init => ObjType
  BY DEF Board!Init, ObjType, Board!Absent, Board!Row
<1>2. ASSUME ObjType, [Board!Next]_(Board!boardVars) PROVE ObjType'
  <2>1. ASSUME NEW o \in Objectives, NEW b \in SUBSET Objectives,
               NEW d \in Board!Dates \cup {Board!Never}, Board!Add(o, b, d)
        PROVE  ObjType'
    BY <1>2, <2>1 DEF Board!Add, ObjType, Board!Row
  <2>2. ASSUME NEW o \in Objectives, NEW b \in SUBSET Objectives, Board!Reblock(o, b)
        PROVE  ObjType'
    BY <1>2, <2>2 DEF Board!Reblock, ObjType, Board!Row
  <2>3. ASSUME NEW o \in Objectives, NEW b \in SUBSET Objectives, NEW d \in Board!Dates,
               NEW noted \in BOOLEAN, Board!Redate(o, b, d, noted)
        PROVE  ObjType'
    <3> DEFINE date == IF Board!Fault(o, d, noted) THEN obj[o].review ELSE d
    <3>1. obj[o] \in Board!Row /\ date \in Board!Dates \cup {Board!Never}
      BY <1>2 DEF ObjType, Board!Row
    <3>2. obj' = [obj EXCEPT ![o].blocked_by = b, ![o].review = date]
      BY <2>3 DEF Board!Redate
    <3> HIDE DEF date
    <3> QED  BY <1>2, <3>1, <3>2 DEF ObjType, Board!Row
  <2>4. ASSUME NEW o \in Objectives, NEW s \in {"done", "dropped"}, Board!Close(o, s)
        PROVE  ObjType'
    BY <1>2, <2>4 DEF Board!Close, ObjType, Board!Row
  <2>5. CASE UNCHANGED obj
    BY <1>2, <2>5 DEF ObjType
  <2> QED
    BY <1>2, <2>1, <2>2, <2>3, <2>4, <2>5 DEF Board!Next, Board!Dispatched, Board!Rate, Board!Tick, Board!boardVars
<1> QED  BY <1>1, <1>2, PTL DEF Board!Spec

-----------------------------------------------------------------------------
(* A step frees o of what it waited on, its list of blockers left alone.   *)
Freed(o) ==
    /\ Board!Blocked(o) /\ o \in Board!Active' /\ Board!Waiting(o)' = {}
    /\ obj'[o].blocked_by = obj[o].blocked_by

(* Only a blocker that leaves the active ones can have done that.          *)
LEMMA FreedByClosing ==
  ASSUME NEW o \in Objectives, Freed(o)
  PROVE  \E b \in Objectives : /\ b \in obj[o].blocked_by
                               /\ obj[b].status = "active" /\ obj'[b].status # "active"
<1>1. PICK b \in obj[o].blocked_by \cap Board!Active : TRUE
  BY DEF Freed, Board!Blocked, Board!Waiting
<1>2. b \notin Board!Active'
  BY <1>1 DEF Freed, Board!Waiting
<1> QED  BY <1>1, <1>2 DEF Board!Active

(* Closing is the only step in which an active objective stops being that, *)
(* and it asks newly_ready of the table it has just written.               *)
LEMMA CloseAnnounces ==
  ASSUME ObjType, NEW c \in Objectives, NEW s \in {"done", "dropped"}, Board!Close(c, s),
         NEW o \in Objectives, Freed(o)
  PROVE  o \in freed'
<1>1. PICK b \in Objectives : /\ b \in obj[o].blocked_by
                              /\ obj[b].status = "active" /\ obj'[b].status # "active"
  BY FreedByClosing
<1>2. b = c
  BY <1>1 DEF Board!Close, ObjType
<1>3. freed' = Board!NewlyReady(c, obj')
  BY DEF Board!Close
<1>4. /\ obj'[o].status = "active" /\ c \in obj'[o].blocked_by
      /\ obj'[o].blocked_by \cap {x \in Objectives : obj'[x].status = "active"} = {}
  BY <1>1, <1>2 DEF Freed, Board!Active, Board!Waiting
<1> QED  BY <1>3, <1>4 DEF Board!NewlyReady

LEMMA OthersFreeNobody ==
  ASSUME ObjType, NEW c \in Objectives, NEW o \in Objectives,
         \A x \in Objectives \ {c} : obj'[x] = obj[x],
         obj'[c].status = obj[c].status \/ obj[c].status = "none"
  PROVE  ~Freed(o)
<1> SUFFICES ASSUME Freed(o) PROVE FALSE
  OBVIOUS
<1>1. PICK b \in Objectives : obj[b].status = "active" /\ obj'[b].status # "active"
  BY FreedByClosing
<1> QED  BY <1>1

(* An objective that becomes ready because the last thing it waited on was *)
(* done or dropped is announced by that very step (newly_ready): no other  *)
(* step of the board can free one silently.                                *)
THEOREM UnblockAnnouncedHolds == Spec => UnblockAnnounced
<1>1. ASSUME ObjType, [Board!Next]_(Board!boardVars)
      PROVE  [\A o \in Objectives : Freed(o) => o \in freed']_(Board!boardVars)
  <2> SUFFICES ASSUME Board!Next, NEW o \in Objectives, Freed(o) PROVE o \in freed'
    BY <1>1
  <2>1. ASSUME NEW c \in Objectives, NEW b \in SUBSET Objectives,
               NEW d \in Board!Dates \cup {Board!Never}, Board!Add(c, b, d)
        PROVE  FALSE
    <3>1. /\ \A x \in Objectives \ {c} : obj'[x] = obj[x]
          /\ obj[c].status = "none"
      BY <1>1, <2>1 DEF Board!Add, ObjType
    <3> QED  BY <1>1, <3>1, OthersFreeNobody
  <2>2. ASSUME NEW c \in Objectives, NEW b \in SUBSET Objectives, Board!Reblock(c, b)
        PROVE  FALSE
    <3>1. /\ \A x \in Objectives \ {c} : obj'[x] = obj[x]
          /\ obj'[c].status = obj[c].status
      BY <1>1, <2>2 DEF Board!Reblock, ObjType, Board!Row
    <3> QED  BY <1>1, <3>1, OthersFreeNobody
  <2>3. ASSUME NEW c \in Objectives, NEW b \in SUBSET Objectives, NEW d \in Board!Dates,
               NEW noted \in BOOLEAN, Board!Redate(c, b, d, noted)
        PROVE  FALSE
    <3> DEFINE date == IF Board!Fault(c, d, noted) THEN obj[c].review ELSE d
    <3>1. obj' = [obj EXCEPT ![c].blocked_by = b, ![c].review = date]
      BY <2>3 DEF Board!Redate
    <3> HIDE DEF date
    <3>2. /\ \A x \in Objectives \ {c} : obj'[x] = obj[x]
          /\ obj'[c].status = obj[c].status
      BY <1>1, <3>1 DEF ObjType, Board!Row
    <3> QED  BY <1>1, <3>2, OthersFreeNobody
  <2>4. ASSUME NEW c \in Objectives, NEW s \in {"done", "dropped"}, Board!Close(c, s)
        PROVE  o \in freed'
    BY <1>1, <2>4, CloseAnnounces
  <2>5. CASE UNCHANGED obj
    BY <1>1, <2>5, OthersFreeNobody
  <2> QED  BY <2>1, <2>2, <2>3, <2>4, <2>5 DEF Board!Next, Board!Dispatched, Board!Rate, Board!Tick
<1>2. ASSUME ObjType, [Board!Next]_(Board!boardVars)
      PROVE  [\A o \in Objectives :
                (/\ Board!Blocked(o) /\ o \in Board!Active' /\ Board!Waiting(o)' = {}
                 /\ obj'[o].blocked_by = obj[o].blocked_by)
                => o \in freed']_(Board!boardVars)
  BY <1>1, <1>2 DEF Freed
<1> QED
  BY <1>2, ObjTypeHolds, Parts, PTL DEF Board!Spec, UnblockAnnounced, Board!UnblockAnnounced

-----------------------------------------------------------------------------
(* The counter in kv is what was pushed since a build was rated, and stays *)
(* within the budget: PushesBounded speaks of the history variable alone.  *)
BudgetInv ==
    /\ recommits \in [Objectives -> Nat] /\ pushes \in [Objectives -> Nat]
    /\ built \in [Staff -> Objectives \cup {0}]
    /\ \A o \in Objectives :
          /\ pushes[o] = recommits[o]
          /\ MaxRecommits > 0 => recommits[o] <= MaxRecommits

LEMMA BudgetHolds == Board!Spec => []BudgetInv
<1>0. Board!BoardAssumption
  BY OfficeAssumption DEF OfficeAssumption
<1> USE <1>0 DEF Board!BoardAssumption
<1>1. Board!Init => BudgetInv
  BY DEF Board!Init, BudgetInv
<1>2. ASSUME ObjType, BudgetInv, [Board!Next]_(Board!boardVars) PROVE BudgetInv'
  <2>1. ASSUME NEW o \in Objectives, NEW b \in SUBSET Objectives, NEW d \in Board!Dates,
               NEW noted \in BOOLEAN, Board!Redate(o, b, d, noted)
        PROVE  BudgetInv'
    <3> DEFINE counts == ~Board!Fault(o, d, noted) /\ Board!Later(o, d)
               date   == IF Board!Fault(o, d, noted) THEN obj[o].review ELSE d
    <3>1. obj'[o].review = date
      BY <1>2, <2>1 DEF Board!Redate, ObjType, Board!Row
    <3>2. obj[o].review # Board!Never /\ obj'[o].review > obj[o].review <=> counts
      <4>1. obj[o].review \in Int
        BY <1>2 DEF ObjType, Board!Row, Board!Dates, Board!Never, Board!BoardAssumption
      <4> QED  BY <3>1, <4>1 DEF Board!Later
    <3>3. counts /\ MaxRecommits > 0 => recommits[o] < MaxRecommits
      BY <1>2 DEF Board!Fault, BudgetInv
    <3> HIDE DEF counts, date
    <3>4. /\ recommits' = [recommits EXCEPT ![o] = IF counts THEN @ + 1 ELSE @]
          /\ pushes' = [pushes EXCEPT ![o] = IF counts THEN @ + 1 ELSE @]
          /\ UNCHANGED built
      <4>1. /\ recommits' = [recommits EXCEPT ![o] = IF counts THEN @ + 1 ELSE @]
            /\ UNCHANGED built
        BY <2>1 DEF Board!Redate, counts
      <4>2. pushes' = [pushes EXCEPT ![o] = IF counts THEN @ + 1 ELSE @]
        BY <2>1, <3>2 DEF Board!Redate
      <4> QED  BY <4>1, <4>2
    <3> QED  BY <1>2, <3>3, <3>4 DEF BudgetInv
  <2>2. ASSUME NEW a \in Staff, Board!Rate(a) PROVE BudgetInv'
    <3>1. built[a] \in Objectives
      BY <1>2, <2>2 DEF Board!Rate, BudgetInv
    <3> QED  BY <1>2, <2>2, <3>1 DEF Board!Rate, BudgetInv
  <2>3. ASSUME NEW a \in Staff, NEW o \in Objectives \cup {0}, Board!Dispatched(a, o)
        PROVE  BudgetInv'
    BY <1>2, <2>3 DEF Board!Dispatched, BudgetInv
  <2>4. CASE UNCHANGED <<recommits, pushes, built>>
    BY <1>2, <2>4 DEF BudgetInv
  <2> QED
    BY <1>2, <2>1, <2>2, <2>3, <2>4 DEF Board!Next, Board!Add, Board!Reblock, Board!Close, Board!Tick, Board!boardVars
<1> QED  BY <1>1, <1>2, ObjTypeHolds, PTL DEF Board!Spec

(* Between two rated builds the review date of an objective moves later at *)
(* most MaxRecommits times, however it was moved back, cleared by a        *)
(* refusal or moved on in between (recommit_fault, rate_work).             *)
THEOREM PushesBoundedHolds == Spec => []PushesBounded
<1>1. BudgetInv => PushesBounded
  BY DEF BudgetInv, PushesBounded, Board!PushesBounded
<1> QED  BY <1>1, BudgetHolds, Parts, PTL

LEMMA BoardTypes == Spec => []Board!TypeOK
<1> DEFINE Rest == freed \subseteq Objectives /\ hours \in 0 .. MaxHours
<1>0. MaxHours \in Nat
  BY OfficeAssumption DEF OfficeAssumption, Board!BoardAssumption
<1>1. Board!Init => Rest
  BY <1>0 DEF Board!Init
<1>2. ASSUME Rest, [Board!Next]_(Board!boardVars) PROVE Rest'
  <2>1. ASSUME NEW o \in Objectives, NEW s \in {"done", "dropped"}, Board!Close(o, s) PROVE Rest'
    BY <1>2, <2>1 DEF Board!Close, Board!NewlyReady
  <2>2. CASE Board!Tick
    BY <1>0, <1>2, <2>2 DEF Board!Tick
  <2>3. CASE freed' \in {{}, freed} /\ UNCHANGED hours
    BY <1>2, <2>3
  <2> QED  BY <1>2, <2>1, <2>2, <2>3 DEF Board!Next, Board!Add, Board!Reblock, Board!Redate,
              Board!Dispatched, Board!Rate, Board!boardVars
<1>3. ObjType /\ BudgetInv /\ Rest => Board!TypeOK
  BY DEF ObjType, BudgetInv, Board!TypeOK
<1> HIDE DEF Rest
<1>4. Board!Spec => []Rest
  BY <1>1, <1>2, PTL DEF Board!Spec
<1> QED  BY <1>3, <1>4, ObjTypeHolds, BudgetHolds, Parts, PTL

-----------------------------------------------------------------------------
(* What is admitted.                                                       *)

LEMMA Limits ==
  /\ RepeatLimit \in Nat \ {0} /\ CheckLimit \in Nat /\ CheckWindow \in Nat \ {0}
  /\ ShapeWords \in Nat /\ Day \in Nat \ {0} /\ MaxTime \in Nat /\ Lanes \subseteq Nat \ {0}
  /\ \A t \in Tasks : t \in Seq(Admission!Words)
  BY OfficeAssumption DEF OfficeAssumption, Admission!AdmissionAssumption, Admission!Words

LEMMA AskersAreMany ==
  /\ IsFiniteSet(Admission!Askers)
  /\ Cardinality(Admission!Askers) \in Nat /\ Cardinality(Admission!Askers) > 0
<1>1. IsFiniteSet(Managers)
  BY OfficeAssumption
     DEF OfficeAssumption, Admission!AdmissionAssumption, Admission!IsFiniteSet, IsFiniteSet
<1>2. IsFiniteSet(Managers \cup {CEO}) /\ Admission!Askers = Managers \cup {CEO}
  BY <1>1, FS_AddElement DEF Admission!Askers
<1>3. Cardinality(Admission!Askers) # 0
  BY <1>2, FS_EmptySet
<1> QED  BY <1>2, <1>3, FS_CardinalityType

LEMMA SameCount == \A s : Admission!Cardinality(s) = Cardinality(s)
  BY DEF Admission!Cardinality, Cardinality

Line == [objective: Lanes \cup {0}, class: {"build", "check", "other"},
         shape: (Lanes \cup {0}) \X Seq(Admission!Words), at: 0 .. MaxTime,
         fate: {"sent", "look", "refused"}]

LEMMA AdmissionType == Admission!TypeOK <=>
    /\ kind \in [Lanes -> Kinds] /\ log \in Seq(Line) /\ look \in [Lanes -> -Day .. MaxTime]
    /\ ask \in [Admission!Askers -> Admission!Asks \cup {Admission!Silent}]
    /\ now \in 0 .. MaxTime
  BY DEF Admission!TypeOK, Line

LEMMA ShapeType ==
  ASSUME NEW o \in Lanes \cup {0}, NEW t \in Tasks
  PROVE  Admission!task_shape(o, t) \in (Lanes \cup {0}) \X Seq(Admission!Words)
<1>1. t \in Seq(Admission!Words) /\ ShapeWords \in Nat
  BY Limits
<1>2. ~(Len(t) <= ShapeWords) => SubSeq(t, 1, ShapeWords) \in Seq(Admission!Words)
  BY <1>1
<1> QED  BY <1>1, <1>2 DEF Admission!task_shape

LEMMA RowType ==
  ASSUME Admission!TypeOK, NEW a \in Admission!Asks, NEW fate \in {"sent", "look", "refused"}
  PROVE  Admission!Row(a, fate) \in Line
<1>1. /\ a.objective \in Lanes \cup {0} /\ a.task \in Tasks
      /\ a.class \in {"build", "check", "other"}
  BY DEF Admission!Asks
<1> QED  BY <1>1, ShapeType DEF Admission!Row, Line, Admission!TypeOK

(* The two steps that matter: a caller is admitted, and it writes its row. *)
LEMMA AskIs ==
  ASSUME Admission!TypeOK, NEW c \in Admission!Askers, NEW via \in {"dispatch", "delegate"},
         NEW o \in Lanes \cup {0}, NEW t \in Tasks, Admission!Ask(c, via, o, t)
  PROVE  \E a \in Admission!Asks :
            /\ a.objective = o /\ a.task = t /\ a.class = Admission!ClassOn(o, t)
            /\ a # Admission!Silent /\ ask[c] = Admission!Silent
            /\ ask' = [ask EXCEPT ![c] = a] /\ UNCHANGED <<kind, log, look, now>>
<1> DEFINE a == [via |-> via, objective |-> o, task |-> t, class |-> Admission!ClassOn(o, t)]
<1>1. Admission!ClassOn(o, t) \in {"build", "check", "other"}
  BY DEF Admission!ClassOn, Admission!classify_task
<1>2. a \in Admission!Asks /\ a # Admission!Silent
  BY <1>1 DEF Admission!Asks, Admission!Silent
<1> QED  BY <1>2 DEF Admission!Ask

LEMMA RecordIs ==
  ASSUME Admission!TypeOK, NEW c \in Admission!Askers, NEW failing \in BOOLEAN,
         Admission!Record(c, failing)
  PROVE  \E a \in Admission!Asks, fate \in {"sent", "look", "refused"} :
            /\ ask[c] = a /\ a # Admission!Silent /\ ask' = [ask EXCEPT ![c] = Admission!Silent]
            /\ log' = Append(log, Admission!Row(a, fate)) /\ UNCHANGED <<kind, now>>
            /\ look' \in [Lanes -> -Day .. MaxTime]
<1>1. ask[c] \in Admission!Asks /\ ask[c] # Admission!Silent
  BY DEF Admission!Record, Admission!TypeOK
<1>2. now \in -Day .. MaxTime
  BY Limits DEF Admission!TypeOK
<1>3. look' \in [Lanes -> -Day .. MaxTime]
  BY <1>2 DEF Admission!Record, Admission!TypeOK
<1> QED  BY <1>1, <1>3 DEF Admission!Record

LEMMA AdmissionInit == Admission!Init => Admission!TypeOK
<1>1. -Day \in -Day .. MaxTime /\ 0 \in 0 .. MaxTime
  BY Limits
<1> QED  BY <1>1, AdmissionType DEF Admission!Init

LEMMA AdmissionTypeStays ==
  ASSUME Admission!TypeOK, [Admission!Next]_(Admission!admVars) PROVE Admission!TypeOK'
<1>1. ASSUME NEW c \in Admission!Askers, NEW via \in {"dispatch", "delegate"},
             NEW o \in Lanes \cup {0}, NEW t \in Tasks, Admission!Ask(c, via, o, t)
      PROVE  Admission!TypeOK'
  <2>1. PICK a \in Admission!Asks :
            ask' = [ask EXCEPT ![c] = a] /\ UNCHANGED <<kind, log, look, now>>
    BY <1>1, AskIs
  <2> QED  BY <2>1 DEF Admission!TypeOK
<1>2. ASSUME NEW c \in Admission!Askers, NEW failing \in BOOLEAN, Admission!Record(c, failing)
      PROVE  Admission!TypeOK'
  <2>1. PICK a \in Admission!Asks, fate \in {"sent", "look", "refused"} :
            /\ ask[c] = a /\ a # Admission!Silent /\ ask' = [ask EXCEPT ![c] = Admission!Silent]
            /\ log' = Append(log, Admission!Row(a, fate)) /\ UNCHANGED <<kind, now>>
            /\ look' \in [Lanes -> -Day .. MaxTime]
    BY <1>2, RecordIs
  <2>2. Admission!Row(a, fate) \in Line
    BY RowType
  <2>3. log' \in Seq(Line)
    BY <2>1, <2>2, AdmissionType
  <2>4. ask' \in [Admission!Askers -> Admission!Asks \cup {Admission!Silent}]
    BY <2>1, AdmissionType
  <2> QED  BY <2>1, <2>3, <2>4 DEF Admission!TypeOK, Line
<1>3. ASSUME NEW o \in Lanes, NEW k \in Kinds, Admission!SetKind(o, k) PROVE Admission!TypeOK'
  BY <1>3 DEF Admission!SetKind, Admission!TypeOK
<1>4. CASE Admission!Tick
  BY <1>4, Limits DEF Admission!Tick, Admission!TypeOK
<1>5. CASE UNCHANGED Admission!admVars
  BY <1>5 DEF Admission!admVars, Admission!TypeOK
<1> QED  BY <1>1, <1>2, <1>3, <1>4, <1>5 DEF Admission!Next

LEMMA AdmissionTypes == Admission!Spec => []Admission!TypeOK
  BY AdmissionInit, AdmissionTypeStays, PTL DEF Admission!Spec

(* Of a shape: the rows of the last day, and who is about to write one.    *)
Sent(s, rows, at) == {i \in DOMAIN rows : rows[i].shape = s /\ rows[i].at > at - Day}

LEMMA SentIsCounted ==
  ASSUME Admission!TypeOK, NEW s
  PROVE  /\ IsFiniteSet(Sent(s, log, now)) /\ Cardinality(Sent(s, log, now)) \in Nat
         /\ Admission!shape_count_24h(s) = Cardinality(Sent(s, log, now))
<1>1. IsFiniteSet(1 .. Len(log)) /\ DOMAIN log = 1 .. Len(log)
  BY FS_Interval, AdmissionType
<1>2. Sent(s, log, now) \subseteq 1 .. Len(log)
  BY <1>1 DEF Sent
<1> QED  BY <1>1, <1>2, FS_Subset, FS_CardinalityType, SameCount
        DEF Admission!shape_count_24h, Sent

LEMMA AskersSubset ==
  ASSUME NEW s \in SUBSET Admission!Askers
  PROVE  IsFiniteSet(s) /\ Cardinality(s) \in Nat /\ Cardinality(s) <= Cardinality(Admission!Askers)
  BY AskersAreMany, FS_Subset, FS_CardinalityType

(* RepeatsBounded of any shape, whether it is in the table yet or not.     *)
RepeatInv ==
  \A s : Cardinality(Sent(s, log, now)) + Cardinality(Admission!Asking(s))
           < RepeatLimit + Cardinality(Admission!Askers)

LEMMA RepeatsInit == Admission!Init => RepeatInv
<1> SUFFICES ASSUME Admission!Init, NEW s
             PROVE  Cardinality(Sent(s, log, now)) + Cardinality(Admission!Asking(s))
                      < RepeatLimit + Cardinality(Admission!Askers)
  BY DEF RepeatInv
<1>1. Sent(s, log, now) = {}
  BY DEF Admission!Init, Sent
<1>2. Admission!Asking(s) = {}
  BY DEF Admission!Init, Admission!Asking
<1> QED  BY <1>1, <1>2, FS_EmptySet, AskersAreMany, Limits

LEMMA RepeatsStay ==
  ASSUME Admission!TypeOK, RepeatInv, [Admission!Next]_(Admission!admVars) PROVE RepeatInv'
<1> SUFFICES ASSUME NEW s
             PROVE  Cardinality(Sent(s, log', now')) + Cardinality(Admission!Asking(s)')
                      < RepeatLimit + Cardinality(Admission!Askers)
  BY DEF RepeatInv
<1>0. /\ Cardinality(Sent(s, log, now)) + Cardinality(Admission!Asking(s))
           < RepeatLimit + Cardinality(Admission!Askers)
      /\ IsFiniteSet(Sent(s, log, now)) /\ Cardinality(Sent(s, log, now)) \in Nat
  BY SentIsCounted DEF RepeatInv
<1>1. /\ IsFiniteSet(Admission!Asking(s)) /\ Cardinality(Admission!Asking(s)) \in Nat
      /\ IsFiniteSet(Admission!Asking(s)') /\ Cardinality(Admission!Asking(s)') \in Nat
      /\ Cardinality(Admission!Asking(s)') <= Cardinality(Admission!Askers)
  BY AskersSubset DEF Admission!Asking
<1>2. ASSUME NEW c \in Admission!Askers, NEW via \in {"dispatch", "delegate"},
             NEW o \in Lanes \cup {0}, NEW t \in Tasks, Admission!Ask(c, via, o, t)
      PROVE  Cardinality(Sent(s, log', now')) + Cardinality(Admission!Asking(s)')
                      < RepeatLimit + Cardinality(Admission!Askers)
  <2>1. PICK a \in Admission!Asks :
            /\ a.objective = o /\ a.task = t /\ a # Admission!Silent
            /\ ask[c] = Admission!Silent
            /\ ask' = [ask EXCEPT ![c] = a] /\ UNCHANGED <<kind, log, look, now>>
    BY <1>2, AskIs
  <2>2. CASE s = Admission!task_shape(o, t)
    <3>1. Cardinality(Sent(s, log, now)) < RepeatLimit
      BY <1>2, <2>2, SentIsCounted DEF Admission!Ask
    <3> QED  BY <1>0, <1>1, <2>1, <3>1, AskersAreMany, Limits
  <2>3. CASE s # Admission!task_shape(o, t)
    <3>1. Admission!Asking(s)' = Admission!Asking(s)
      BY <2>1, <2>3 DEF Admission!Asking, Admission!TypeOK
    <3> QED  BY <1>0, <2>1, <3>1
  <2> QED  BY <2>2, <2>3
<1>3. ASSUME NEW c \in Admission!Askers, NEW failing \in BOOLEAN, Admission!Record(c, failing)
      PROVE  Cardinality(Sent(s, log', now')) + Cardinality(Admission!Asking(s)')
                      < RepeatLimit + Cardinality(Admission!Askers)
  <2>1. PICK a \in Admission!Asks, fate \in {"sent", "look", "refused"} :
            /\ ask[c] = a /\ a # Admission!Silent /\ ask' = [ask EXCEPT ![c] = Admission!Silent]
            /\ log' = Append(log, Admission!Row(a, fate)) /\ UNCHANGED <<kind, now>>
    BY <1>3, RecordIs
  <2> DEFINE mine == Admission!task_shape(a.objective, a.task)
             new  == Len(log) + 1
  <2>2. /\ DOMAIN log' = DOMAIN log \cup {new} /\ new \notin DOMAIN log
        /\ log'[new] = Admission!Row(a, fate) /\ \A i \in DOMAIN log : log'[i] = log[i]
    BY <2>1, AdmissionType
  <2>3. Admission!Row(a, fate).shape = mine
    BY DEF Admission!Row
  <2> HIDE DEF mine, new
  <2>4. CASE s = mine
    <3>1. Sent(s, log', now') \subseteq Sent(s, log, now) \cup {new}
      BY <2>1, <2>2 DEF Sent
    <3>2. Cardinality(Sent(s, log', now')) <= Cardinality(Sent(s, log, now)) + 1
          /\ Cardinality(Sent(s, log', now')) \in Nat
      <4>1. /\ IsFiniteSet(Sent(s, log, now) \cup {new})
            /\ Cardinality(Sent(s, log, now) \cup {new})
                 = IF new \in Sent(s, log, now) THEN Cardinality(Sent(s, log, now))
                   ELSE Cardinality(Sent(s, log, now)) + 1
        BY <1>0, FS_AddElement
      <4>2. /\ Cardinality(Sent(s, log', now')) \in Nat
            /\ Cardinality(Sent(s, log', now')) <= Cardinality(Sent(s, log, now) \cup {new})
        BY <3>1, <4>1, FS_Subset, FS_CardinalityType
      <4> QED  BY <1>0, <4>1, <4>2
    <3>3. Admission!Asking(s)' = Admission!Asking(s) \ {c} /\ c \in Admission!Asking(s)
      BY <2>1, <2>4 DEF mine, Admission!Asking, Admission!TypeOK
    <3>4. Cardinality(Admission!Asking(s)') = Cardinality(Admission!Asking(s)) - 1
      BY <1>1, <3>3, FS_RemoveElement
    <3> QED  BY <1>0, <1>1, <3>2, <3>4, AskersAreMany, Limits
  <2>5. CASE s # mine
    <3>1. Sent(s, log', now') = Sent(s, log, now)
      BY <2>1, <2>2, <2>3, <2>5 DEF Sent
    <3>2. Admission!Asking(s)' = Admission!Asking(s)
      BY <2>1, <2>5 DEF mine, Admission!Asking, Admission!TypeOK
    <3> QED  BY <1>0, <3>1, <3>2
  <2> QED  BY <2>4, <2>5
<1>4. CASE UNCHANGED <<log, ask>> /\ now' \in Nat /\ now' >= now
  <2>1. Sent(s, log', now') \subseteq Sent(s, log, now)
    <3>1. ASSUME NEW i \in Sent(s, log', now') PROVE i \in Sent(s, log, now)
      <4>1. i \in DOMAIN log /\ log[i].shape = s /\ log[i].at > now' - Day
        BY <1>4, <3>1 DEF Sent
      <4>2. log[i] \in Line /\ now \in Nat
        BY <4>1, AdmissionType
      <4>3. log[i].at \in Nat
        BY <4>2 DEF Line
      <4> QED  BY <1>4, <4>1, <4>2, <4>3, Limits DEF Sent
    <3> QED  BY <3>1
  <2>2. Cardinality(Sent(s, log', now')) \in Nat
        /\ Cardinality(Sent(s, log', now')) <= Cardinality(Sent(s, log, now))
    BY <1>0, <2>1, FS_Subset, FS_CardinalityType
  <2>3. Admission!Asking(s)' = Admission!Asking(s)
    BY <1>4 DEF Admission!Asking
  <2> QED  BY <1>0, <1>1, <2>2, <2>3, AskersAreMany, Limits
<1>5. now \in Nat
  BY AdmissionType
<1>6. CASE Admission!Tick
  BY <1>4, <1>5, <1>6 DEF Admission!Tick
<1>7. CASE UNCHANGED Admission!admVars \/ \E o \in Lanes, k \in Kinds : Admission!SetKind(o, k)
  <2>1. UNCHANGED <<log, ask, now>>
    BY <1>7 DEF Admission!SetKind, Admission!admVars
  <2> QED  BY <1>4, <1>5, <2>1
<1> QED  BY <1>2, <1>3, <1>6, <1>7 DEF Admission!Next

(* Work that recurs goes out a bounded number of times a day, whoever asks *)
(* for it and however the readings of the table and the rows written into  *)
(* it interleave (admit_dispatch_limit, record_dispatch).                  *)
THEOREM RepeatsBoundedHolds == Spec => []RepeatsBounded
<1>1. Admission!TypeOK /\ RepeatInv => RepeatsBounded
  BY SentIsCounted, SameCount DEF RepeatInv, RepeatsBounded, Admission!RepeatsBounded
<1>2. Admission!Spec => []RepeatInv
  BY RepeatsInit, RepeatsStay, AdmissionTypes, PTL DEF Admission!Spec
<1> QED  BY <1>1, <1>2, AdmissionTypes, Parts, PTL

(* The rows of a lane, the newest of them, and the checks that count.      *)
Of(o, rows)     == {i \in DOMAIN rows : rows[i].objective = o}
Behind(i, o, rows) == {j \in Of(o, rows) : j > i}
Newest(o, rows) == {i \in Of(o, rows) : Cardinality(Behind(i, o, rows)) < CheckWindow}
Circling(o, rows) ==
  {i \in Newest(o, rows) :
     rows[i].class = "check" /\ \A j \in Newest(o, rows) : j > i => rows[j].class # "build"}

LEMMA CirclingIsCounted ==
  ASSUME Admission!TypeOK, NEW o
  PROVE  /\ IsFiniteSet(Circling(o, log)) /\ Cardinality(Circling(o, log)) \in Nat
         /\ Admission!consecutive_checks(o) = Cardinality(Circling(o, log))
<1>1. IsFiniteSet(1 .. Len(log)) /\ DOMAIN log = 1 .. Len(log)
  BY FS_Interval, AdmissionType
<1>2. Circling(o, log) \subseteq 1 .. Len(log)
  BY <1>1 DEF Circling, Newest, Of
<1>3. Admission!Rows(o) = Of(o, log)
  BY DEF Admission!Rows, Of
<1>4. Admission!Recent(o) = Newest(o, log)
  BY <1>3, SameCount DEF Admission!Recent, Newest, Behind
<1>5. Admission!consecutive_checks(o) = Cardinality(Circling(o, log))
  BY <1>4, SameCount DEF Admission!consecutive_checks, Circling
<1> QED  BY <1>1, <1>2, <1>5, FS_Subset, FS_CardinalityType

(* A new row lets the window move on: of the old rows none begins to count *)
(* again, and the new one counts if it is a check.                         *)
LEMMA WindowMoves ==
  ASSUME NEW rows \in Seq(Line), NEW r \in Line, NEW o
  PROVE  Circling(o, Append(rows, r)) \subseteq
           Circling(o, rows) \cup (IF r.objective = o /\ r.class = "check"
                                   THEN {Len(rows) + 1} ELSE {})
<1> DEFINE more == Append(rows, r)
           new  == Len(rows) + 1
<1>1. /\ DOMAIN more = DOMAIN rows \cup {new} /\ new \notin DOMAIN rows
      /\ more[new] = r /\ \A i \in DOMAIN rows : more[i] = rows[i]
      /\ \A i \in DOMAIN more : i \in Nat
      /\ DOMAIN more = 1 .. new /\ new \in Nat
  OBVIOUS
<1> HIDE DEF more, new
<1>2. Of(o, rows) \subseteq Of(o, more) /\ Of(o, more) \subseteq 1 .. new
  BY <1>1 DEF Of
<1>3. IsFiniteSet(1 .. new)
  BY <1>1, FS_Interval
<1>4. ASSUME NEW i, NEW j, Behind(j, o, rows) \subseteq Behind(i, o, more)
      PROVE  Cardinality(Behind(j, o, rows)) <= Cardinality(Behind(i, o, more))
             /\ Cardinality(Behind(j, o, rows)) \in Nat
             /\ Cardinality(Behind(i, o, more)) \in Nat
  <2>1. Behind(i, o, more) \subseteq 1 .. new
    BY <1>2 DEF Behind
  <2>2. IsFiniteSet(Behind(i, o, more))
    BY <1>3, <2>1, FS_Subset
  <2> QED  BY <1>4, <2>2, FS_Subset, FS_CardinalityType
<1>5. ASSUME NEW i \in Newest(o, more), NEW j \in Of(o, rows), j >= i
      PROVE  j \in Newest(o, rows)
  <2>1. i \in Nat /\ j \in Nat /\ Behind(j, o, rows) \subseteq Behind(i, o, more)
    <3>1. i \in Nat /\ j \in Nat
      BY <1>1 DEF Newest, Of
    <3>2. ASSUME NEW k \in Behind(j, o, rows) PROVE k \in Behind(i, o, more)
      <4>1. k \in Of(o, rows) /\ k > j /\ k \in Nat
        BY <1>1 DEF Behind, Of
      <4> QED  BY <1>2, <1>5, <3>1, <4>1 DEF Behind
    <3> QED  BY <3>1, <3>2
  <2>2. Cardinality(Behind(i, o, more)) < CheckWindow /\ CheckWindow \in Nat
    BY Limits DEF Newest
  <2>3. Cardinality(Behind(j, o, rows)) < CheckWindow
    BY <1>4, <2>1, <2>2
  <2> QED  BY <2>3 DEF Newest
<1>6. ASSUME NEW j \in Newest(o, rows), NEW i \in Newest(o, more), j > i
      PROVE  j \in Newest(o, more)
  <2>1. j \in Of(o, more) /\ j \in Nat /\ i \in Nat
    BY <1>1, <1>2 DEF Newest, Of
  <2>2. Behind(j, o, more) \subseteq Behind(i, o, more)
    <3>1. ASSUME NEW k \in Behind(j, o, more) PROVE k \in Behind(i, o, more)
      <4>1. k \in Of(o, more) /\ k > j /\ k \in Nat
        BY <1>1 DEF Behind, Of
      <4> QED  BY <1>6, <2>1, <4>1 DEF Behind
    <3> QED  BY <3>1
  <2>3. Behind(i, o, more) \subseteq 1 .. new
    BY <1>2 DEF Behind
  <2>4. IsFiniteSet(Behind(i, o, more))
    BY <1>3, <2>3, FS_Subset
  <2>5. /\ Cardinality(Behind(j, o, more)) <= Cardinality(Behind(i, o, more))
        /\ Cardinality(Behind(j, o, more)) \in Nat /\ Cardinality(Behind(i, o, more)) \in Nat
    BY <2>2, <2>4, FS_Subset, FS_CardinalityType
  <2>6. Cardinality(Behind(i, o, more)) < CheckWindow /\ CheckWindow \in Nat
    BY Limits DEF Newest
  <2> QED  BY <2>1, <2>5, <2>6 DEF Newest
<1>7. ASSUME NEW i \in Circling(o, more), i # new PROVE i \in Circling(o, rows)
  <2>1. /\ i \in Newest(o, more) /\ i \in DOMAIN rows /\ i \in Nat
        /\ more[i].class = "check" /\ more[i].objective = o /\ more[i] = rows[i]
        /\ \A j \in Newest(o, more) : j > i => more[j].class # "build"
    BY <1>1, <1>7 DEF Circling, Newest, Of
  <2>2. i \in Newest(o, rows)
    BY <1>5, <2>1 DEF Of
  <2>3. ASSUME NEW j \in Newest(o, rows), j > i PROVE rows[j].class # "build"
    <3>1. j \in Newest(o, more) /\ more[j] = rows[j]
      BY <1>1, <1>6, <2>1, <2>3 DEF Newest, Of
    <3> QED  BY <2>1, <2>3, <3>1
  <2> QED  BY <2>1, <2>2, <2>3 DEF Circling
<1>8. new \in Circling(o, more) => r.objective = o /\ r.class = "check"
  BY <1>1 DEF Circling, Newest, Of
<1>9. Circling(o, more) \subseteq
        Circling(o, rows) \cup (IF r.objective = o /\ r.class = "check" THEN {new} ELSE {})
  BY <1>7, <1>8
<1> QED  BY <1>9 DEF more, new

ChecksInv ==
  CheckLimit > 0 =>
    \A o \in Lanes :
      Cardinality(Circling(o, log)) + Cardinality(Admission!Checking(o))
        < CheckLimit + Cardinality(Admission!Askers)

LEMMA ChecksInit == Admission!Init => ChecksInv
<1> SUFFICES ASSUME Admission!Init, CheckLimit > 0, NEW o \in Lanes
             PROVE  Cardinality(Circling(o, log)) + Cardinality(Admission!Checking(o))
                      < CheckLimit + Cardinality(Admission!Askers)
  BY DEF ChecksInv
<1>1. Circling(o, log) = {}
  BY DEF Admission!Init, Circling, Newest, Of
<1>2. Admission!Checking(o) = {}
  BY DEF Admission!Init, Admission!Checking
<1> QED  BY <1>1, <1>2, FS_EmptySet, AskersAreMany, Limits

LEMMA ChecksStay ==
  ASSUME Admission!TypeOK, ChecksInv, [Admission!Next]_(Admission!admVars) PROVE ChecksInv'
<1> SUFFICES ASSUME CheckLimit > 0, NEW o \in Lanes
             PROVE  Cardinality(Circling(o, log')) + Cardinality(Admission!Checking(o)')
                      < CheckLimit + Cardinality(Admission!Askers)
  BY DEF ChecksInv
<1>0. /\ Cardinality(Circling(o, log)) + Cardinality(Admission!Checking(o))
           < CheckLimit + Cardinality(Admission!Askers)
      /\ IsFiniteSet(Circling(o, log)) /\ Cardinality(Circling(o, log)) \in Nat
      /\ o # 0
  BY CirclingIsCounted, Limits DEF ChecksInv
<1>1. /\ IsFiniteSet(Admission!Checking(o)) /\ Cardinality(Admission!Checking(o)) \in Nat
      /\ IsFiniteSet(Admission!Checking(o)') /\ Cardinality(Admission!Checking(o)') \in Nat
      /\ Cardinality(Admission!Checking(o)') <= Cardinality(Admission!Askers)
  BY AskersSubset DEF Admission!Checking
<1>2. ASSUME NEW c \in Admission!Askers, NEW via \in {"dispatch", "delegate"},
             NEW q \in Lanes \cup {0}, NEW t \in Tasks, Admission!Ask(c, via, q, t)
      PROVE  Cardinality(Circling(o, log')) + Cardinality(Admission!Checking(o)')
                      < CheckLimit + Cardinality(Admission!Askers)
  <2>1. PICK a \in Admission!Asks :
            /\ a.objective = q /\ a.class = Admission!ClassOn(q, t) /\ a # Admission!Silent
            /\ ask[c] = Admission!Silent
            /\ ask' = [ask EXCEPT ![c] = a] /\ UNCHANGED <<kind, log, look, now>>
    BY <1>2, AskIs
  <2>2. CASE q = o /\ a.class = "check"
    <3>1. Cardinality(Circling(o, log)) < CheckLimit
      BY <1>0, <1>2, <2>1, <2>2, CirclingIsCounted DEF Admission!Ask
    <3> QED  BY <1>0, <1>1, <2>1, <3>1, AskersAreMany, Limits
  <2>3. CASE ~(q = o /\ a.class = "check")
    <3>1. Admission!Checking(o)' = Admission!Checking(o)
      BY <2>1, <2>3 DEF Admission!Checking, Admission!TypeOK
    <3> QED  BY <1>0, <2>1, <3>1
  <2> QED  BY <2>2, <2>3
<1>3. ASSUME NEW c \in Admission!Askers, NEW failing \in BOOLEAN, Admission!Record(c, failing)
      PROVE  Cardinality(Circling(o, log')) + Cardinality(Admission!Checking(o)')
                      < CheckLimit + Cardinality(Admission!Askers)
  <2>1. PICK a \in Admission!Asks, fate \in {"sent", "look", "refused"} :
            /\ ask[c] = a /\ a # Admission!Silent /\ ask' = [ask EXCEPT ![c] = Admission!Silent]
            /\ log' = Append(log, Admission!Row(a, fate)) /\ UNCHANGED <<kind, now>>
    BY <1>3, RecordIs
  <2> DEFINE r == Admission!Row(a, fate)
             new == Len(log) + 1
  <2>2. r \in Line /\ r.objective = a.objective /\ r.class = a.class
    BY RowType DEF Admission!Row
  <2> HIDE DEF r
  <2>3. log \in Seq(Line) /\ log' = Append(log, r)
    BY <2>1, AdmissionType DEF r
  <2>4. CASE a.objective = o /\ a.class = "check"
    <3>1. Circling(o, log') \subseteq Circling(o, log) \cup {new}
      BY <2>2, <2>3, <2>4, WindowMoves
    <3>2. /\ IsFiniteSet(Circling(o, log) \cup {new})
          /\ Cardinality(Circling(o, log) \cup {new})
               = IF new \in Circling(o, log) THEN Cardinality(Circling(o, log))
                 ELSE Cardinality(Circling(o, log)) + 1
      BY <1>0, FS_AddElement
    <3>3. /\ Cardinality(Circling(o, log')) \in Nat
          /\ Cardinality(Circling(o, log')) <= Cardinality(Circling(o, log) \cup {new})
      BY <3>1, <3>2, FS_Subset, FS_CardinalityType
    <3>4. /\ Admission!Checking(o)' = Admission!Checking(o) \ {c} /\ c \in Admission!Checking(o)
      BY <2>1, <2>4 DEF Admission!Checking, Admission!TypeOK
    <3>5. Cardinality(Admission!Checking(o)') = Cardinality(Admission!Checking(o)) - 1
      BY <1>1, <3>4, FS_RemoveElement
    <3> HIDE DEF new
    <3> QED  BY <1>0, <1>1, <3>2, <3>3, <3>5, AskersAreMany, Limits
  <2>5. CASE ~(a.objective = o /\ a.class = "check")
    <3>1. Circling(o, log') \subseteq Circling(o, log)
      BY <2>2, <2>3, <2>5, WindowMoves
    <3>2. /\ Cardinality(Circling(o, log')) \in Nat
          /\ Cardinality(Circling(o, log')) <= Cardinality(Circling(o, log))
      BY <1>0, <3>1, FS_Subset, FS_CardinalityType
    <3>3. Admission!Checking(o)' = Admission!Checking(o)
      BY <2>1, <2>5 DEF Admission!Checking, Admission!TypeOK
    <3> QED  BY <1>0, <1>1, <3>2, <3>3, AskersAreMany, Limits
  <2> QED  BY <2>4, <2>5
<1>4. CASE UNCHANGED <<log, ask>>
  BY <1>0, <1>4 DEF Admission!Checking
<1>5. CASE Admission!Tick \/ UNCHANGED Admission!admVars
             \/ \E q \in Lanes, k \in Kinds : Admission!SetKind(q, k)
  <2>1. UNCHANGED <<log, ask>>
    BY <1>5 DEF Admission!SetKind, Admission!Tick, Admission!admVars
  <2> QED  BY <1>4, <2>1
<1> QED  BY <1>2, <1>3, <1>5 DEF Admission!Next

(* Checks without a build are cut off on every objective, however the      *)
(* callers' readings and writings interleave, and whatever becomes of its  *)
(* kind meanwhile (admit_dispatch_limit, consecutive_checks).              *)
THEOREM ChecksBoundedHolds == Spec => []ChecksBounded
<1>1. Admission!TypeOK /\ ChecksInv => ChecksBounded
  BY CirclingIsCounted, SameCount DEF ChecksInv, ChecksBounded, Admission!ChecksBounded
<1>2. Admission!Spec => []ChecksInv
  BY ChecksInit, ChecksStay, AdmissionTypes, PTL DEF Admission!Spec
<1> QED  BY <1>1, <1>2, AdmissionTypes, Parts, PTL
=============================================================================
