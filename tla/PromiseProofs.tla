----------------------------- MODULE PromiseProofs -----------------------------
(***************************************************************************)
(* Inbox keeps what Directives promises: the safety half of the refinement *)
(* that the run on fair behaviours checks, for any founder messages that a *)
(* brief has room to spell out, and any number of failures and restarts.   *)
(***************************************************************************)
EXTENDS InboxProofs, FiniteSetTheorems

(* `khan tell` writes a row of its own for every directive.                *)
TellsOnce ==
    \A i, j \in DOMAIN messages :
        messages[i].msg \in Tells /\ messages[i].msg = messages[j].msg => i = j

(* Nothing knows of a directive before it is sent.                         *)
SentFirst == \A t \in Tells : t \in shown \cup InContext \cup scratch => Sent(t)

(* A directive that stands is in the transcript of an open episode, or is  *)
(* about to be put there.                                                  *)
Live == {"head", "bank", "ask", "act", "cutoff"}

InSight ==
    pc \in Live =>
        \A i \in OpenDirectives : messages[i].msg \in InContext \/ i \in drained

(* Tools are called on an answer to all of the transcript.                 *)
Answering == pc = "act" => InContext \subseteq shown

HearInv == TellsOnce /\ SentFirst /\ InSight /\ Answering

-----------------------------------------------------------------------------
(* Every open directive fits into a brief.                                 *)
LEMMA BriefIsAll ==
    ASSUME RowsOK, TellsOnce, InboxSizes, IsFiniteSet(Tells), Cardinality(Tells) <= ShowMax
    PROVE  Brief = OpenDirectives
<1> DEFINE f == [j \in OpenDirectives |-> messages[j].msg]
<1>1. f \in Injection(OpenDirectives, Tells)
  BY DEF OpenDirectives, TellsOnce, Injection, IsInjective
<1>2. IsFiniteSet(OpenDirectives) /\ Cardinality(OpenDirectives) <= Cardinality(Tells)
  <2> HIDE DEF f
  <2> QED  BY <1>1, FS_Injection
<1>3. ASSUME NEW i \in OpenDirectives PROVE i \in Brief
  <2> DEFINE Later == {j \in OpenDirectives : j > i}
  <2>1. /\ IsFiniteSet(OpenDirectives \ {i})
        /\ Cardinality(OpenDirectives \ {i}) = Cardinality(OpenDirectives) - 1
    BY <1>2, FS_RemoveElement
  <2>2. Later \in SUBSET (OpenDirectives \ {i})
    <3>1. i \in Nat
      BY LenProperties DEF OpenDirectives, RowsOK
    <3> QED  BY <3>1
  <2>3. IsFiniteSet(Later) /\ Cardinality(Later) <= Cardinality(OpenDirectives \ {i})
    BY <2>1, <2>2, FS_Subset
  <2>4. /\ Cardinality(Later) \in Nat /\ Cardinality(OpenDirectives) \in Nat
        /\ Cardinality(Tells) \in Nat /\ ShowMax \in Nat
    BY <1>2, <2>3, FS_CardinalityType DEF InboxSizes
  <2>5. Cardinality(Later) < ShowMax
    <3> HIDE DEF Later
    <3> QED  BY <1>2, <2>1, <2>3, <2>4
  <2> QED  BY <2>5 DEF Brief
<1> QED  BY <1>3 DEF Brief

LEMMA ItemsOf ==
    ASSUME NEW v, NEW S, NEW x
    PROVE  (\E e \in As(v, S) : x = e.item) <=> x \in S
<1>1. ASSUME x \in S PROVE \E e \in As(v, S) : x = e.item
  <2>1. [item |-> x, via |-> v] \in As(v, S)
    BY <1>1 DEF As
  <2> QED  BY <2>1
<1>2. ASSUME NEW e \in As(v, S), x = e.item PROVE x \in S
  <2>1. PICK y \in S : e = [item |-> y, via |-> v]
    BY <1>2 DEF As
  <2> QED  BY <1>2, <2>1
<1> QED  BY <1>1, <1>2

LEMMA ContextGrows ==
    ASSUME NEW v, NEW S, context' = context \cup As(v, S)
    PROVE  InContext' = InContext \cup S
<1>1. ASSUME NEW x PROVE x \in InContext' <=> x \in InContext \cup S
  <2>1. x \in InContext' <=> \E e \in context \cup As(v, S) : x = e.item
    BY DEF InContext
  <2>2. x \in InContext <=> \E e \in context : x = e.item
    BY DEF InContext
  <2>3. (\E e \in As(v, S) : x = e.item) <=> x \in S
    BY ItemsOf
  <2> QED  BY <2>1, <2>2, <2>3
<1> QED  BY <1>1

LEMMA ContextOpens ==
    ASSUME NEW beat \in BOOLEAN, Open(beat)
    PROVE  InContext' = {messages[i].msg : i \in Brief} \cup note \cup scratch
<1> DEFINE B == {messages[i].msg : i \in Brief}
<1>1. context' = (As("brief", B) \cup As("note", note)) \cup As("scratch", scratch)
  BY DEF Open
<1> HIDE DEF B
<1>2. ASSUME NEW x PROVE x \in InContext' <=> x \in B \cup note \cup scratch
  <2>1. x \in InContext' <=> \E e \in context' : x = e.item
    BY DEF InContext
  <2>2. x \in InContext' <=>
          \/ \E e \in As("brief", B) : x = e.item
          \/ \E e \in As("note", note) : x = e.item
          \/ \E e \in As("scratch", scratch) : x = e.item
    BY <1>1, <2>1
  <2>3. /\ (\E e \in As("brief", B) : x = e.item) <=> x \in B
        /\ (\E e \in As("note", note) : x = e.item) <=> x \in note
        /\ (\E e \in As("scratch", scratch) : x = e.item) <=> x \in scratch
    BY ItemsOf
  <2> QED  BY <2>2, <2>3
<1>3. InContext' = B \cup note \cup scratch
  BY <1>2
<1> QED  BY <1>3 DEF B

LEMMA ContextEnds == ASSUME context' = {} PROVE InContext' = {}
BY DEF InContext

LEMMA SentStays == ASSUME RowsKept PROVE \A t \in Tells : Sent(t) => Sent(t)'
BY DEF RowsKept, Sent

LEMMA RowOfSent ==
    ASSUME NEW i \in DOMAIN messages
    PROVE  Sent(messages[i].msg)
BY DEF Sent

-----------------------------------------------------------------------------
(* Every step keeps a row to a directive.                                  *)
LEMMA TellsOnceStep == ASSUME TypeInv, TellsOnce, [Next]_vars PROVE TellsOnce'
<1>0. RowsOK /\ PhoneOK
  BY DEF TypeInv
<1>1. CASE DOMAIN messages' = DOMAIN messages
           /\ \A i \in DOMAIN messages : messages'[i].msg = messages[i].msg
  BY <1>1 DEF TellsOnce
<1>2. CASE messages' = messages
  BY <1>1, <1>2
<1>3. ASSUME NEW m \in Founder, messages' = Append(messages, Row(m)),
             m \in Tells => ~Sent(m)
      PROVE  TellsOnce'
  <2>1. /\ DOMAIN messages = 1 .. Len(messages) /\ Len(messages) \in Nat
        /\ DOMAIN messages' = 1 .. Len(messages) + 1
        /\ \A i \in DOMAIN messages : messages'[i] = messages[i]
        /\ messages'[Len(messages) + 1].msg = m
    BY <1>0, <1>3, RowsAdded, RowIsMsg, LenProperties DEF RowsOK
  <2>2. \A i \in DOMAIN messages : m \in Tells => messages[i].msg # m
    BY <1>3 DEF Sent
  <2>3. \A i \in DOMAIN messages' : i \in DOMAIN messages \/ i = Len(messages) + 1
    BY <2>1
  <2> QED  BY <2>1, <2>2, <2>3 DEF TellsOnce
<1>4. ASSUME NEW t \in Tells, Tell(t) PROVE TellsOnce'
  BY <1>3, <1>4 DEF Tell, Founder, Sent
<1>5. CASE QueueText
  <2>1. poller.next \in 1 .. Len(phone)
    BY <1>0, <1>5, PhoneIds DEF QueueText, PhoneOK
  <2>2. phone[poller.next] \in Founder /\ phone[poller.next] \notin Tells
    BY <1>0, <2>1, PhoneIds, InboxKinds DEF Founder, InboxKinds
  <2> QED  BY <1>3, <1>5, <2>2 DEF QueueText
<1>6. CASE Turn
  BY <1>0, <1>1, <1>6, RowsDelivered DEF Turn, RowsKept
<1>7. ASSUME NEW i \in DOMAIN messages, Ack(i) PROVE TellsOnce'
  BY <1>0, <1>1, <1>7, RowAcked DEF Ack, RowsKept
<1>8. CASE Poll \/ SaveOffset \/ Stop \/ Crash
  BY <1>2, <1>8 DEF Poll, SaveOffset, Stop, Crash, Memory, store
<1>9. CASE Interrupt \/ Overtime \/ Capped \/ Bank \/ Answered
  BY <1>2, <1>9 DEF Interrupt, Overtime, Capped, Bank, Answered, store
<1>10. CASE Failed \/ EndTurn \/ Cutoff \/ Close \/ Exit \/ Boot
  BY <1>2, <1>10 DEF Failed, EndTurn, Cutoff, Close, Exit, Boot, store
<1>11. ASSUME NEW x \in Texts, Text(x) PROVE TellsOnce'
  BY <1>2, <1>11 DEF Text, store
<1>12. ASSUME NEW a \in Alerts, Raise(a) PROVE TellsOnce'
  BY <1>2, <1>12 DEF Raise
<1>13. ASSUME NEW beat \in BOOLEAN, Open(beat) PROVE TellsOnce'
  BY <1>2, <1>13 DEF Open
<1>14. ASSUME NEW r \in Reports, DispatchTask(r) \/ Report(r) PROVE TellsOnce'
  BY <1>2, <1>14 DEF DispatchTask, Report, store
<1>15. CASE UNCHANGED vars
  BY <1>2, <1>15 DEF vars, store
<1> QED
  BY <1>4, <1>5, <1>6, <1>7, <1>8, <1>9, <1>10, <1>11, <1>12, <1>13, <1>14, <1>15
     DEF Next, Senders, Poller, Episode

(* What a step puts in the transcript, in front of the model or in the     *)
(* scratch was sent before.                                                *)
LEMMA SentFirstStep == ASSUME TypeInv, SentFirst, [Next]_vars PROVE SentFirst'
<1>0. StoreOK /\ RowsOK /\ LoopOK /\ RowsKept
  BY RowsStep DEF TypeInv
<1>1. ASSUME shown' \cup InContext' \cup scratch' \subseteq shown \cup InContext \cup scratch
                  \cup Alerts \cup Reports \cup {messages[i].msg : i \in DOMAIN messages}
      PROVE  SentFirst'
  <2> SUFFICES ASSUME NEW t \in Tells, t \in shown' \cup InContext' \cup scratch'
               PROVE  Sent(t)
    BY <1>0, SentStays DEF SentFirst
  <2>1. t \notin Alerts \cup Reports
    BY InboxKinds DEF InboxKinds
  <2>2. CASE t \in shown \cup InContext \cup scratch
    BY <2>2 DEF SentFirst
  <2>3. CASE t \in {messages[i].msg : i \in DOMAIN messages}
    BY <2>3, RowOfSent
  <2> QED  BY <1>1, <2>1, <2>2, <2>3
<1>2. CASE UNCHANGED <<shown, context, scratch>>
  BY <1>1, <1>2 DEF InContext
<1>3. CASE context' = {} /\ UNCHANGED shown /\ (scratch' = {} \/ UNCHANGED scratch)
  BY <1>1, <1>3, ContextEnds
<1>4. CASE UNCHANGED <<context, scratch>> /\ shown' \subseteq shown \cup InContext
  BY <1>1, <1>4 DEF InContext
<1>5. ASSUME NEW S, S \subseteq Alerts \cup Reports,
             context' = context \cup As("drain", S), UNCHANGED <<shown, scratch>>
      PROVE  SentFirst'
  BY <1>1, <1>5, ContextGrows
<1>6. alerts \subseteq Alerts \cup Reports /\ alerts \cup Finished \subseteq Alerts \cup Reports
  BY <1>0 DEF StoreOK, Finished
<1>7. ASSUME NEW beat \in BOOLEAN, Open(beat) PROVE SentFirst'
  <2> DEFINE B == {messages[i].msg : i \in Brief}
  <2>1. InContext' = B \cup note \cup scratch
    BY <1>7, ContextOpens
  <2>2. scratch' = {} /\ UNCHANGED shown
    BY <1>7 DEF Open
  <2>3. B \subseteq {messages[i].msg : i \in DOMAIN messages}
    BY DEF Brief, OpenDirectives
  <2>4. note \subseteq Reports
    BY <1>0 DEF StoreOK
  <2> HIDE DEF B
  <2> QED  BY <1>1, <2>1, <2>2, <2>3, <2>4
<1>8. CASE Capped
  BY <1>5, <1>6, <1>8 DEF Capped
<1>9. CASE Turn
  BY <1>5, <1>6, <1>9 DEF Turn
<1>10. CASE Bank
  <2> DEFINE m == messages[Oldest].msg
  <2>1. m \in {messages[i].msg : i \in DOMAIN messages}
    BY <1>0, <1>10, OldestIsDrained DEF Bank, LoopOK
  <2>2. /\ context' = context \cup As("drain", {m})
        /\ scratch' = scratch \cup {m} /\ UNCHANGED shown
    BY <1>10 DEF Bank
  <2> HIDE DEF m
  <2>3. InContext' = InContext \cup {m}
    BY <2>2, ContextGrows
  <2> QED  BY <1>1, <2>1, <2>2, <2>3
<1>11. CASE Close \/ Exit \/ Crash
  BY <1>3, <1>11 DEF Close, Exit, Crash, Memory, store
<1>12. CASE Interrupt \/ Overtime \/ Failed \/ EndTurn \/ Boot
  BY <1>2, <1>5, <1>6, <1>12 DEF Interrupt, Overtime, Failed, EndTurn, Boot, store
<1>13. CASE Answered \/ Cutoff
  BY <1>4, <1>13 DEF Answered, Cutoff, store
<1>14. ASSUME NEW t \in Tells, Tell(t) PROVE SentFirst'
  BY <1>2, <1>14 DEF Tell, ceo
<1>15. ASSUME NEW x \in Texts, Text(x) PROVE SentFirst'
  BY <1>2, <1>15 DEF Text, store, ceo
<1>16. ASSUME NEW a \in Alerts, Raise(a) PROVE SentFirst'
  BY <1>2, <1>16 DEF Raise, ceo
<1>17. ASSUME NEW i \in DOMAIN messages, Ack(i) PROVE SentFirst'
  BY <1>2, <1>17 DEF Ack, ceo
<1>18. ASSUME NEW r \in Reports, DispatchTask(r) \/ Report(r) PROVE SentFirst'
  BY <1>2, <1>18 DEF DispatchTask, Report, store, ceo
<1>19. CASE Poll \/ QueueText \/ SaveOffset \/ Stop
  BY <1>2, <1>19 DEF Poll, QueueText, SaveOffset, Stop, store, ceo
<1>20. CASE UNCHANGED vars
  BY <1>2, <1>20 DEF vars, store, ceo
<1> QED
  BY <1>7, <1>8, <1>9, <1>10, <1>11, <1>12, <1>13, <1>14, <1>15, <1>16, <1>17, <1>18,
     <1>19, <1>20
     DEF Next, Senders, Poller, Episode

(* A directive stays in hand until it is acknowledged or its episode ends. *)
LEMMA InSightStep ==
    ASSUME TypeInv, HearInv, [Next]_vars, IsFiniteSet(Tells), Cardinality(Tells) <= ShowMax
    PROVE  InSight' /\ Answering'
<1>0. StoreOK /\ RowsOK /\ PhoneOK /\ LoopOK /\ InSight /\ Answering /\ TellsOnce
  BY DEF TypeInv, HearInv
<1>1. ASSUME OpenDirectives' \subseteq OpenDirectives,
             \A i \in OpenDirectives' : messages'[i].msg = messages[i].msg,
             UNCHANGED <<context, shown, drained>>, pc' \in Live => pc' = pc
      PROVE  InSight' /\ Answering'
  <2>1. InContext' = InContext
    BY <1>1 DEF InContext
  <2>2. InSight'
    BY <1>0, <1>1, <2>1 DEF InSight
  <2>3. Answering'
    BY <1>0, <1>1, <2>1 DEF Answering, Live
  <2> QED  BY <2>2, <2>3
<1>2. CASE messages' = messages /\ UNCHANGED <<context, shown, drained>>
           /\ (pc' \in Live => pc' = pc)
  <2>1. OpenDirectives' = OpenDirectives
    BY <1>2 DEF OpenDirectives
  <2> QED  BY <1>1, <1>2, <2>1
<1>3. CASE pc' \notin Live
  BY <1>3 DEF InSight, Answering, Live
<1>4. ASSUME messages' = messages, UNCHANGED drained, InContext \subseteq InContext',
             pc \in Live, pc' # "act"
      PROVE  InSight' /\ Answering'
  <2>1. OpenDirectives' = OpenDirectives
    BY <1>4 DEF OpenDirectives
  <2> QED  BY <1>0, <1>4, <2>1 DEF InSight, Answering
<1>5. ASSUME NEW m \in Founder, messages' = Append(messages, Row(m)),
             UNCHANGED <<context, shown, drained, pc>>
      PROVE  InSight' /\ Answering'
  <2>1. /\ DOMAIN messages = 1 .. Len(messages) /\ Len(messages) \in Nat
        /\ DOMAIN messages' = 1 .. Len(messages) + 1
        /\ \A i \in DOMAIN messages : messages'[i] = messages[i]
        /\ ~messages'[Len(messages) + 1].delivered
    BY <1>0, <1>5, RowsAdded, RowIsMsg, LenProperties DEF RowsOK
  <2>2. \A i \in DOMAIN messages' : i \in DOMAIN messages \/ i = Len(messages) + 1
    BY <2>1
  <2>3. OpenDirectives' \subseteq OpenDirectives
    BY <2>1, <2>2 DEF OpenDirectives
  <2>4. \A i \in OpenDirectives' : messages'[i].msg = messages[i].msg
    BY <2>1, <2>3 DEF OpenDirectives
  <2> QED  BY <1>1, <1>5, <2>3, <2>4
<1>6. ASSUME NEW t \in Tells, Tell(t) PROVE InSight' /\ Answering'
  BY <1>5, <1>6 DEF Tell, Founder, ceo
<1>7. CASE QueueText
  <2>1. poller.next \in 1 .. Len(phone)
    BY <1>0, <1>7, PhoneIds DEF QueueText, PhoneOK
  <2>2. phone[poller.next] \in Founder
    BY <1>0, <2>1, PhoneIds DEF Founder
  <2> QED  BY <1>5, <1>7, <2>2 DEF QueueText, ceo
<1>8. ASSUME NEW beat \in BOOLEAN, Open(beat) PROVE InSight' /\ Answering'
  <2>1. pc' = "head" /\ messages' = messages
    BY <1>8 DEF Open
  <2>2. OpenDirectives' = OpenDirectives
    BY <2>1 DEF OpenDirectives
  <2>3. \A i \in OpenDirectives : messages[i].msg \in InContext'
    BY <1>0, <1>8, BriefIsAll, InboxSizes, ContextOpens DEF InboxSizes
  <2> QED  BY <2>1, <2>2, <2>3 DEF InSight, Answering
<1>9. CASE Turn
  <2>1. pc \in Live /\ drained = {} /\ drained' = Queued /\ pc' # "act"
    BY <1>0, <1>9 DEF Turn, Live, LoopOK
  <2>2. InContext \subseteq InContext'
    BY <1>9, ContextGrows DEF Turn
  <2>3. /\ DOMAIN messages' = DOMAIN messages
        /\ \A i \in DOMAIN messages :
              /\ messages'[i].msg = messages[i].msg
              /\ messages'[i].acked = messages[i].acked
    BY <1>0, <1>9, RowsDelivered DEF Turn, RowsKept
  <2>4. ASSUME NEW i \in OpenDirectives' PROVE messages'[i].msg \in InContext' \/ i \in drained'
    <3>1. /\ i \in DOMAIN messages /\ messages'[i].msg = messages[i].msg
          /\ ~messages[i].acked /\ messages[i].msg \in Tells
      BY <2>3 DEF OpenDirectives
    <3>2. CASE messages[i].delivered
      BY <1>0, <2>1, <2>2, <3>1, <3>2 DEF OpenDirectives, InSight
    <3>3. CASE ~messages[i].delivered
      BY <2>1, <3>1, <3>3 DEF Queued
    <3> QED  BY <3>2, <3>3
  <2> QED  BY <2>1, <2>4 DEF InSight, Answering
<1>10. CASE Bank
  <2>1. /\ pc \in Live /\ pc' # "act" /\ messages' = messages
        /\ drained' = drained \ {Oldest}
        /\ context' = context \cup As("drain", {messages[Oldest].msg})
    BY <1>10 DEF Bank, Live
  <2>2. OpenDirectives' = OpenDirectives
    BY <2>1 DEF OpenDirectives
  <2>3. InContext' = InContext \cup {messages[Oldest].msg}
    BY <2>1, ContextGrows
  <2> QED  BY <1>0, <2>1, <2>2, <2>3 DEF InSight, Answering
<1>11. ASSUME NEW i \in DOMAIN messages, Ack(i) PROVE InSight' /\ Answering'
  <2>1. /\ DOMAIN messages' = DOMAIN messages
        /\ \A j \in DOMAIN messages : messages'[j].msg = messages[j].msg
        /\ messages'[i].acked
        /\ \A j \in DOMAIN messages : j # i => messages'[j] = messages[j]
    BY <1>0, <1>11, RowAcked DEF Ack, RowsKept
  <2>2. OpenDirectives' \subseteq OpenDirectives
    BY <2>1 DEF OpenDirectives
  <2>3. \A j \in OpenDirectives' : messages'[j].msg = messages[j].msg
    BY <2>1 DEF OpenDirectives
  <2> QED  BY <1>1, <1>11, <2>2, <2>3 DEF Ack, ceo
<1>12. CASE Answered
  <2>1. /\ pc = "ask" /\ messages' = messages /\ UNCHANGED <<context, drained>>
        /\ shown' = shown \cup InContext
    BY <1>12 DEF Answered, store
  <2>2. OpenDirectives' = OpenDirectives /\ InContext' = InContext
    BY <2>1 DEF OpenDirectives, InContext
  <2> QED  BY <1>0, <2>1, <2>2 DEF InSight, Answering, Live
<1>13. CASE Capped
  <2>1. InContext \subseteq InContext'
    BY <1>13, ContextGrows DEF Capped
  <2> QED  BY <1>4, <1>13, <2>1 DEF Capped, Live
<1>14. CASE Overtime \/ Failed
  <2>1. InContext' = InContext
    BY <1>14 DEF Overtime, Failed, InContext
  <2> QED  BY <1>4, <1>14, <2>1 DEF Overtime, Failed, Live, store
<1>15. CASE EndTurn
  <2>1. InContext' = InContext
    BY <1>15 DEF EndTurn, InContext
  <2> QED  BY <1>4, <1>15, <2>1 DEF EndTurn, Live, store
<1>16. CASE Interrupt \/ Cutoff \/ Close \/ Exit \/ Crash \/ Boot
  BY <1>3, <1>16 DEF Interrupt, Cutoff, Close, Exit, Crash, Boot, Memory, Live
<1>17. CASE Poll \/ SaveOffset \/ Stop
  BY <1>2, <1>17 DEF Poll, SaveOffset, Stop, store, ceo
<1>18. ASSUME NEW x \in Texts, Text(x) PROVE InSight' /\ Answering'
  BY <1>2, <1>18 DEF Text, store, ceo
<1>19. ASSUME NEW a \in Alerts, Raise(a) PROVE InSight' /\ Answering'
  BY <1>2, <1>19 DEF Raise, ceo
<1>20. ASSUME NEW r \in Reports, DispatchTask(r) \/ Report(r) PROVE InSight' /\ Answering'
  BY <1>2, <1>20 DEF DispatchTask, Report, store, ceo
<1>21. CASE UNCHANGED vars
  BY <1>2, <1>21 DEF vars, store, ceo
<1> QED
  BY <1>6, <1>7, <1>8, <1>9, <1>10, <1>11, <1>12, <1>13, <1>14, <1>15, <1>16, <1>17, <1>18,
     <1>19, <1>20, <1>21
     DEF Next, Senders, Poller, Episode

LEMMA HearCorrect ==
    ASSUME IsFiniteSet(Tells), Cardinality(Tells) <= ShowMax
    PROVE  Spec => []HearInv
<1>1. Init => HearInv
  <2> SUFFICES ASSUME Init PROVE HearInv
    OBVIOUS
  <2>1. DOMAIN messages = {} /\ InContext = {} /\ shown = {} /\ scratch = {} /\ pc = "wait"
    BY DEF Init, InContext
  <2> QED  BY <2>1 DEF HearInv, TellsOnce, SentFirst, InSight, Answering, Live
<1>2. TypeInv /\ HearInv /\ [Next]_vars => HearInv'
  BY TellsOnceStep, SentFirstStep, InSightStep DEF HearInv
<1> QED  BY <1>1, <1>2, TypeCorrect, PTL DEF Spec

-----------------------------------------------------------------------------
(* The stage of a directive, and what moves it.                            *)
LEMMA StageOf ==
    /\ stage = [t \in Tells |-> stage[t]]
    /\ \A t \in Tells :
          /\ ~Sent(t) => stage[t] = "unsent"
          /\ Sent(t) /\ ~Acked(t) /\ t \notin shown => stage[t] = "standing"
          /\ Sent(t) /\ ~Acked(t) /\ t \in shown => stage[t] = "heard"
          /\ Acked(t) => Sent(t) /\ stage[t] = "done"
<1>1. \A t \in Tells : Acked(t) => Sent(t)
  BY DEF Sent, Acked
<1>2. stage = [t \in Tells |-> stage[t]]
  BY DEF stage
<1> QED  BY <1>1, <1>2 DEF stage

LEMMA StageOfNext ==
    /\ stage' = [t \in Tells |-> stage'[t]]
    /\ \A t \in Tells :
          /\ ~Sent(t)' => stage'[t] = "unsent"
          /\ Sent(t)' /\ ~Acked(t)' /\ t \notin shown' => stage'[t] = "standing"
          /\ Sent(t)' /\ ~Acked(t)' /\ t \in shown' => stage'[t] = "heard"
          /\ Acked(t)' => Sent(t)' /\ stage'[t] = "done"
<1>1. \A t \in Tells : Acked(t)' => Sent(t)'
  BY DEF Sent, Acked
<1>2. stage' = [t \in Tells |-> stage'[t]]
  BY DEF stage
<1> QED  BY <1>1, <1>2 DEF stage

LEMMA StageStays ==
    ASSUME \A t \in Tells :
              /\ Sent(t)' <=> Sent(t)
              /\ Acked(t)' <=> Acked(t)
              /\ t \in shown' <=> t \in shown
    PROVE  stage' = stage
<1>1. \A t \in Tells : stage'[t] = stage[t]
  BY StageOf, StageOfNext
<1> QED  BY <1>1, StageOf, StageOfNext

LEMMA RowAppended ==
    ASSUME RowsOK, NEW m \in Founder, messages' = Append(messages, Row(m))
    PROVE  /\ Sent(m)'
           /\ \A t \in Tells : t # m => (Sent(t)' <=> Sent(t)) /\ (Acked(t)' <=> Acked(t))
           /\ Acked(m)' <=> Acked(m)
<1>1. /\ DOMAIN messages = 1 .. Len(messages) /\ Len(messages) \in Nat
      /\ DOMAIN messages' = 1 .. Len(messages) + 1
      /\ \A i \in DOMAIN messages : messages'[i] = messages[i]
      /\ messages'[Len(messages) + 1].msg = m /\ ~messages'[Len(messages) + 1].acked
  BY RowsAdded, RowIsMsg, LenProperties DEF RowsOK
<1>2. /\ DOMAIN messages \subseteq DOMAIN messages' /\ Len(messages) + 1 \in DOMAIN messages'
      /\ \A i \in DOMAIN messages' : i \in DOMAIN messages \/ i = Len(messages) + 1
  BY <1>1
<1> QED  BY <1>1, <1>2 DEF Sent, Acked

(* An answered call is the Hear of the directives it had not had before.   *)
LEMMA Hearing ==
    ASSUME SentFirst, messages' = messages, shown' = shown \cup InContext
    PROVE  [Promise!Next]_stage
<1> DEFINE heard == {t \in Tells : t \in InContext /\ stage[t] = "standing"}
<1>1. \A t \in Tells : (Sent(t)' <=> Sent(t)) /\ (Acked(t)' <=> Acked(t))
  BY DEF Sent, Acked
<1>2. \A t \in Tells : stage'[t] = IF t \in heard THEN "heard" ELSE stage[t]
  <2> TAKE t \in Tells
  <2>1. t \in InContext => Sent(t)
    BY DEF SentFirst
  <2>2. CASE t \in heard
    <3>1. Sent(t) /\ ~Acked(t) /\ t \notin shown
      BY <2>2, StageOf
    <3> QED  BY <1>1, <2>2, <3>1, StageOfNext
  <2>3. CASE t \notin heard
    <3>1. t \in InContext /\ Sent(t) /\ ~Acked(t) => t \in shown
      BY <2>3, StageOf
    <3> QED  BY <1>1, <2>1, <2>3, <3>1, StageOf, StageOfNext
  <2> QED  BY <2>2, <2>3
<1>3. stage' = [t \in Tells |-> IF t \in heard THEN "heard" ELSE stage[t]]
  BY <1>2, StageOfNext
<1>4. CASE heard = {}
  BY <1>3, <1>4, StageOf
<1>5. CASE heard # {}
  <2>1. heard \in SUBSET Tells /\ \A t \in heard : stage[t] = "standing"
    OBVIOUS
  <2>2. Promise!Hear(heard)
    <3> HIDE DEF heard
    <3> QED  BY <1>3, <1>5, <2>1 DEF Promise!Hear
  <2> QED  BY <2>1, <2>2 DEF Promise!Next
<1> QED  BY <1>4, <1>5

(* Every step is a step of the promise, or none of its business.           *)
LEMMA PromiseStep == ASSUME TypeInv, HearInv, [Next]_vars PROVE [Promise!Next]_stage
<1>0. RowsOK /\ PhoneOK /\ LoopOK /\ TellsOnce /\ SentFirst /\ InSight /\ Answering
  BY DEF TypeInv, HearInv
<1>1. CASE messages' = messages /\ shown' = shown
  <2>1. stage' = stage
    BY <1>1, StageStays DEF Sent, Acked
  <2> QED  BY <2>1
<1>2. ASSUME NEW t \in Tells, Tell(t) PROVE [Promise!Next]_stage
  <2>1. t \in Founder /\ ~Sent(t) /\ shown' = shown
    BY <1>2 DEF Tell, Founder, Sent
  <2>2. messages' = Append(messages, Row(t))
    BY <1>2 DEF Tell
  <2>3. stage[t] = "unsent" /\ stage'[t] = "standing"
    <3>1. t \notin shown /\ ~Acked(t)
      BY <1>0, <2>1 DEF SentFirst, Sent, Acked
    <3> QED  BY <1>0, <2>1, <2>2, <3>1, RowAppended, StageOf, StageOfNext
  <2>4. \A u \in Tells : u # t => stage'[u] = stage[u]
    BY <1>0, <2>1, <2>2, RowAppended, StageOf, StageOfNext
  <2>5. stage' = [stage EXCEPT ![t] = "standing"]
    BY <2>3, <2>4, StageOf, StageOfNext
  <2> QED  BY <2>3, <2>5 DEF Promise!Send, Promise!Next
<1>3. CASE QueueText
  <2>1. poller.next \in 1 .. Len(phone)
    BY <1>0, <1>3, PhoneIds DEF QueueText, PhoneOK
  <2>2. phone[poller.next] \in Founder /\ phone[poller.next] \notin Tells
    BY <1>0, <2>1, PhoneIds, InboxKinds DEF Founder, InboxKinds
  <2>3. messages' = Append(messages, Row(phone[poller.next])) /\ shown' = shown
    BY <1>3 DEF QueueText
  <2>4. stage' = stage
    BY <1>0, <2>2, <2>3, RowAppended, StageStays
  <2> QED  BY <2>4
<1>4. CASE Turn
  <2>1. /\ DOMAIN messages' = DOMAIN messages
        /\ \A i \in DOMAIN messages :
              /\ messages'[i].msg = messages[i].msg
              /\ messages'[i].acked = messages[i].acked
    BY <1>0, <1>4, RowsDelivered DEF Turn, RowsKept
  <2>2. stage' = stage
    BY <1>4, <2>1, StageStays DEF Turn, Sent, Acked
  <2> QED  BY <2>2
<1>5. ASSUME NEW i \in DOMAIN messages, Ack(i) PROVE [Promise!Next]_stage
  <2>1. /\ DOMAIN messages' = DOMAIN messages
        /\ \A j \in DOMAIN messages : messages'[j].msg = messages[j].msg
        /\ messages'[i].acked
        /\ \A j \in DOMAIN messages : j # i => messages'[j] = messages[j]
    BY <1>0, <1>5, RowAcked DEF Ack, RowsKept
  <2>2. shown' = shown /\ pc = "act" /\ messages[i].delivered /\ ~messages[i].acked
    BY <1>5 DEF Ack
  <2>3. \A u \in Tells : u # messages[i].msg => (Sent(u)' <=> Sent(u)) /\ (Acked(u)' <=> Acked(u))
    BY <2>1 DEF Sent, Acked
  <2>4. CASE messages[i].msg \notin Tells
    <3>1. stage' = stage
      BY <2>2, <2>3, <2>4, StageStays
    <3> QED  BY <3>1
  <2>5. ASSUME NEW t \in Tells, t = messages[i].msg PROVE [Promise!Next]_stage
    <3>1. t \in shown
      <4>1. i \in OpenDirectives
        BY <2>2, <2>5 DEF OpenDirectives
      <4>2. drained = {}
        BY <1>0, <2>2 DEF LoopOK
      <4> QED  BY <1>0, <2>2, <2>5, <4>1, <4>2 DEF InSight, Answering, Live
    <3>2. Sent(t) /\ ~Acked(t)
      BY <1>0, <2>2, <2>5 DEF Sent, Acked, TellsOnce
    <3>3. Acked(t)'
      BY <2>1, <2>5 DEF Acked
    <3>4. stage[t] = "heard" /\ stage'[t] = "done"
      BY <2>5, <3>1, <3>2, <3>3, StageOf, StageOfNext
    <3>5. \A u \in Tells : u # t => stage'[u] = stage[u]
      BY <2>2, <2>3, <2>5, StageOf, StageOfNext
    <3>6. stage' = [stage EXCEPT ![t] = "done"]
      BY <2>5, <3>4, <3>5, StageOf, StageOfNext
    <3> QED  BY <2>5, <3>4, <3>6 DEF Promise!Done, Promise!Next
  <2> QED  BY <2>4, <2>5
<1>6. CASE Answered
  BY <1>0, <1>6, Hearing DEF Answered, store
<1>7. CASE Cutoff
  BY <1>0, <1>1, <1>7, Hearing DEF Cutoff, store
<1>8. CASE Poll \/ SaveOffset \/ Stop \/ Crash
  BY <1>1, <1>8 DEF Poll, SaveOffset, Stop, Crash, Memory, store
<1>9. CASE Interrupt \/ Overtime \/ Capped \/ Bank
  BY <1>1, <1>9 DEF Interrupt, Overtime, Capped, Bank, store
<1>10. CASE Failed \/ EndTurn \/ Close \/ Exit \/ Boot
  BY <1>1, <1>10 DEF Failed, EndTurn, Close, Exit, Boot, store
<1>11. ASSUME NEW x \in Texts, Text(x) PROVE [Promise!Next]_stage
  BY <1>1, <1>11 DEF Text, store
<1>12. ASSUME NEW a \in Alerts, Raise(a) PROVE [Promise!Next]_stage
  BY <1>1, <1>12 DEF Raise
<1>13. ASSUME NEW beat \in BOOLEAN, Open(beat) PROVE [Promise!Next]_stage
  BY <1>1, <1>13 DEF Open
<1>14. ASSUME NEW r \in Reports, DispatchTask(r) \/ Report(r) PROVE [Promise!Next]_stage
  BY <1>1, <1>14 DEF DispatchTask, Report, store
<1>15. CASE UNCHANGED vars
  BY <1>1, <1>15 DEF vars, store
<1> QED
  BY <1>2, <1>3, <1>4, <1>5, <1>6, <1>7, <1>8, <1>9, <1>10, <1>11, <1>12, <1>13, <1>14, <1>15
     DEF Next, Senders, Poller, Episode

(* A directive of `khan tell` stands until a model has had it in front of  *)
(* it and is done only after that, whatever crashes, stops and failed      *)
(* calls come in between, if a brief has room for all that are open.       *)
THEOREM DirectivesAreKept ==
    ASSUME IsFiniteSet(Tells), Cardinality(Tells) <= ShowMax
    PROVE  Spec => Promise!Kept
<1>1. Init => Promise!Init
  <2> SUFFICES ASSUME Init PROVE Promise!Init
    OBVIOUS
  <2>1. DOMAIN messages = {}
    BY DEF Init
  <2>2. \A t \in Tells : ~Sent(t)
    BY <2>1 DEF Sent
  <2>3. \A t \in Tells : stage[t] = "unsent"
    BY <2>2, StageOf
  <2> QED  BY <2>3, StageOf DEF Promise!Init
<1> QED  BY <1>1, TypeCorrect, HearCorrect, PromiseStep, PTL DEF Spec, Promise!Kept
================================================================================
