------------------------------ MODULE InboxProofs ------------------------------
(***************************************************************************)
(* Proofs about Inbox, for any founder messages, alerts and reports, any   *)
(* caps on an episode and any number of failures and restarts.             *)
(***************************************************************************)
EXTENDS Inbox, SequenceTheorems, WellFoundedInduction, TLAPS

Msgs == [msg : Founder, delivered : BOOLEAN, acked : BOOLEAN]

-----------------------------------------------------------------------------
(* The rows of the messages table: they are added at the end, keep what    *)
(* they say, and stay delivered and closed once they are.                  *)
RowsOK == messages \in Seq(Msgs)

RowsKept ==
    /\ RowsOK'
    /\ DOMAIN messages \subseteq DOMAIN messages'
    /\ \A i \in DOMAIN messages :
          /\ messages'[i].msg = messages[i].msg
          /\ messages[i].delivered => messages'[i].delivered
          /\ messages[i].acked => messages'[i].acked

LEMMA RowIsMsg ==
    ASSUME NEW m \in Founder
    PROVE  Row(m) \in Msgs /\ Row(m).msg = m /\ ~Row(m).delivered /\ ~Row(m).acked
BY DEF Row, Msgs

LEMMA RowsAdded ==
    ASSUME RowsOK, NEW m \in Founder, messages' = Append(messages, Row(m))
    PROVE  /\ RowsKept
           /\ Len(messages') = Len(messages) + 1
           /\ DOMAIN messages = 1 .. Len(messages)
           /\ DOMAIN messages' = 1 .. Len(messages) + 1
           /\ \A i \in DOMAIN messages : messages'[i] = messages[i]
           /\ messages'[Len(messages) + 1] = Row(m)
<1>1. Row(m) \in Msgs
  BY RowIsMsg
<1>2. /\ messages \in Seq(Msgs) /\ Len(messages) \in Nat
      /\ DOMAIN messages = 1 .. Len(messages)
  BY LenProperties DEF RowsOK
<1>3. /\ messages' \in Seq(Msgs) /\ Len(messages') = Len(messages) + 1
      /\ \A i \in 1 .. Len(messages) : messages'[i] = messages[i]
      /\ messages'[Len(messages) + 1] = Row(m)
  BY <1>1, <1>2
<1>4. DOMAIN messages' = 1 .. Len(messages) + 1
  BY <1>3, LenProperties
<1> QED  BY <1>2, <1>3, <1>4 DEF RowsKept, RowsOK

LEMMA RowsDelivered ==
    ASSUME RowsOK,
           messages' = [i \in DOMAIN messages |-> [messages[i] EXCEPT !.delivered = TRUE]]
    PROVE  /\ RowsKept
           /\ DOMAIN messages' = DOMAIN messages
           /\ \A i \in DOMAIN messages : messages'[i].delivered
           /\ \A i \in DOMAIN messages : messages'[i].acked = messages[i].acked
<1>1. /\ messages \in Seq(Msgs) /\ Len(messages) \in Nat
      /\ DOMAIN messages = 1 .. Len(messages)
      /\ \A i \in DOMAIN messages : messages[i] \in Msgs
  BY LenProperties, ElementOfSeq DEF RowsOK
<1>2. ASSUME NEW i \in DOMAIN messages
      PROVE  /\ messages'[i] = [messages[i] EXCEPT !.delivered = TRUE]
             /\ messages'[i] \in Msgs /\ messages'[i].delivered
             /\ messages'[i].msg = messages[i].msg /\ messages'[i].acked = messages[i].acked
  <2>1. messages'[i] = [messages[i] EXCEPT !.delivered = TRUE] /\ messages[i] \in Msgs
    BY <1>1
  <2> QED  BY <2>1 DEF Msgs
<1>3. messages' \in [1 .. Len(messages) -> Msgs]
  BY <1>1, <1>2
<1>4. messages' \in Seq(Msgs)
  BY <1>1, <1>3, SeqDef
<1> QED  BY <1>2, <1>4 DEF RowsKept, RowsOK

LEMMA RowAcked ==
    ASSUME RowsOK, NEW i \in DOMAIN messages,
           messages' = [messages EXCEPT ![i].acked = TRUE]
    PROVE  /\ RowsKept
           /\ DOMAIN messages' = DOMAIN messages
           /\ messages'[i].acked /\ messages'[i].delivered = messages[i].delivered
           /\ \A j \in DOMAIN messages : j # i => messages'[j] = messages[j]
<1> DEFINE new == [messages[i] EXCEPT !.acked = TRUE]
<1>1. /\ messages \in Seq(Msgs) /\ DOMAIN messages = 1 .. Len(messages)
      /\ messages[i] \in Msgs
  BY LenProperties, ElementOfSeq DEF RowsOK
<1>2. /\ new \in Msgs /\ new.acked /\ new.msg = messages[i].msg
      /\ new.delivered = messages[i].delivered
  BY <1>1 DEF Msgs
<1>3. messages' = [messages EXCEPT ![i] = new]
  OBVIOUS
<1> HIDE DEF new
<1>4. /\ messages' \in Seq(Msgs)
      /\ \A j \in 1 .. Len(messages) : messages'[j] = IF j = i THEN new ELSE messages[j]
  <2>1. Len(messages) \in Nat /\ messages \in [1 .. Len(messages) -> Msgs]
    BY LenProperties DEF RowsOK
  <2>2. messages' \in [1 .. Len(messages) -> Msgs]
    BY <1>1, <1>2, <1>3, <2>1
  <2>3. messages' \in Seq(Msgs)
    BY <2>1, <2>2, SeqDef
  <2> QED  BY <1>1, <1>3, <2>1, <2>3
<1>5. DOMAIN messages' = DOMAIN messages
  BY <1>3
<1> QED  BY <1>1, <1>2, <1>4, <1>5 DEF RowsKept, RowsOK

-----------------------------------------------------------------------------
(* Types.  TypeOK by itself is not inductive: a turn is counted before the *)
(* cap is looked at, and a restart is counted when the process is up again.*)
Pcs   == {"down", "wait", "head", "bank", "ask", "act", "cutoff", "close"}
Tasks == {"unsent", "running", "finished", "delivered"}

(* The stores of the company, but for the messages.                        *)
StoreOK ==
    /\ alerts \subseteq Alerts /\ raised \subseteq Alerts
    /\ scratch \subseteq Founder /\ note \subseteq Reports
    /\ task \in [Reports -> Tasks]

(* Telegram's queue and what the company has taken from it.                *)
PhoneOK ==
    /\ phone \in Seq(Texts) /\ offset \in 1 .. Len(phone) + 1
    /\ poller \in [next : 1 .. Len(phone) + 1, upto : 0 .. Len(phone)]

(* The loop.                                                               *)
LoopOK ==
    /\ pc \in Pcs
    /\ context \subseteq [item : Items, via : Via] /\ shown \subseteq Items
    /\ drained \subseteq DOMAIN messages /\ (pc = "bank" <=> drained # {})

CountsOK ==
    /\ pc \in Pcs
    /\ steps \in 0 .. MaxSteps + 1
    /\ pc \in {"head", "bank", "ask", "act"} => steps <= MaxSteps
    /\ stop \/ pc = "down" => restarts < MaxRestarts
    /\ pc = "down" => ~stop
    /\ beats \in 0 .. MaxBeats /\ failures \in 0 .. MaxFailures /\ restarts \in 0 .. MaxRestarts

FlagsOK ==
    /\ quiet \in BOOLEAN /\ first \in BOOLEAN /\ emptyWake \in BOOLEAN
    /\ stop \in BOOLEAN /\ crashed \in BOOLEAN

TypeInv == RowsOK /\ StoreOK /\ PhoneOK /\ LoopOK /\ CountsOK /\ FlagsOK

LEMMA TypeInvGivesTypeOK == TypeInv => TypeOK
<1> SUFFICES ASSUME TypeInv PROVE TypeOK
  OBVIOUS
<1>1. {quiet, first, emptyWake, stop, crashed} \subseteq BOOLEAN
  BY DEF TypeInv, FlagsOK
<1>2. messages \in Seq([msg : Founder, delivered : BOOLEAN, acked : BOOLEAN])
  BY DEF TypeInv, RowsOK, Msgs
<1>3. steps \in 0 .. MaxSteps + 1 /\ (pc \in {"ask", "act"} => steps <= MaxSteps)
  BY DEF TypeInv, CountsOK
<1>4. pc \in {"down", "wait", "head", "bank", "ask", "act", "cutoff", "close"}
  BY DEF TypeInv, CountsOK, Pcs
<1>5. task \in [Reports -> {"unsent", "running", "finished", "delivered"}]
  BY DEF TypeInv, StoreOK, Tasks
<1>6. beats \in 0 .. MaxBeats /\ failures \in 0 .. MaxFailures /\ restarts \in 0 .. MaxRestarts
  BY DEF TypeInv, CountsOK
<1>7. /\ alerts \subseteq Alerts /\ raised \subseteq Alerts
      /\ scratch \subseteq Founder /\ note \subseteq Reports
  BY DEF TypeInv, StoreOK
<1>8. /\ phone \in Seq(Texts) /\ offset \in 1 .. Len(phone) + 1
      /\ poller \in [next : 1 .. Len(phone) + 1, upto : 0 .. Len(phone)]
  BY DEF TypeInv, PhoneOK
<1>9. /\ context \subseteq [item : Items, via : Via] /\ shown \subseteq Items
      /\ drained \subseteq DOMAIN messages /\ (pc = "bank" <=> drained # {})
  BY DEF TypeInv, LoopOK
<1> QED  BY <1>1, <1>2, <1>3, <1>4, <1>5, <1>6, <1>7, <1>8, <1>9 DEF TypeOK

LEMMA TypeInit == Init => TypeInv
<1> SUFFICES ASSUME Init PROVE TypeInv
  OBVIOUS
<1>1. messages = <<>> /\ DOMAIN messages = {} /\ RowsOK
  <2>1. messages = <<>>
    BY DEF Init
  <2> QED  BY <2>1, EmptySeq, LenProperties DEF RowsOK
<1>2. StoreOK
  BY DEF Init, StoreOK, Tasks
<1>3. PhoneOK
  <2>1. phone = <<>> /\ phone \in Seq(Texts) /\ Len(phone) = 0
    BY EmptySeq DEF Init
  <2> QED  BY <2>1 DEF Init, PhoneOK
<1>4. LoopOK
  BY <1>1 DEF Init, LoopOK, Pcs
<1>5. CountsOK
  BY InboxSizes DEF Init, CountsOK, Pcs, InboxSizes
<1>6. FlagsOK
  BY DEF Init, FlagsOK
<1> QED  BY <1>1, <1>2, <1>3, <1>4, <1>5, <1>6 DEF TypeInv

LEMMA PhoneIds ==
    ASSUME PhoneOK
    PROVE  /\ Len(phone) \in Nat /\ DOMAIN phone = 1 .. Len(phone)
           /\ poller.next \in Nat /\ poller.upto \in Nat /\ offset \in Nat
           /\ \A k \in 1 .. Len(phone) : phone[k] \in Texts
<1>1. phone \in Seq(Texts)
  BY DEF PhoneOK
<1>2. /\ Len(phone) \in Nat /\ DOMAIN phone = 1 .. Len(phone)
      /\ \A k \in 1 .. Len(phone) : phone[k] \in Texts
  BY <1>1, LenProperties, ElementOfSeq
<1>3. poller.next \in 1 .. Len(phone) + 1 /\ poller.upto \in 0 .. Len(phone)
  BY DEF PhoneOK
<1> QED  BY <1>2, <1>3 DEF PhoneOK

(* Every step keeps the rows.                                              *)
LEMMA RowsStep == ASSUME TypeInv, [Next]_vars PROVE RowsKept
<1> USE DEF TypeInv
<1>1. CASE messages' = messages
  BY <1>1 DEF RowsKept, RowsOK
<1>2. ASSUME NEW t \in Tells, Tell(t) PROVE RowsKept
  BY <1>2, RowsAdded DEF Tell, Founder
<1>3. CASE QueueText
  <2>1. poller.next \in 1 .. Len(phone)
    BY <1>3, PhoneIds DEF QueueText, PhoneOK
  <2>2. phone[poller.next] \in Founder
    BY <2>1, PhoneIds DEF Founder
  <2> QED  BY <1>3, <2>2, RowsAdded DEF QueueText
<1>4. CASE Turn
  BY <1>4, RowsDelivered DEF Turn
<1>5. ASSUME NEW i \in DOMAIN messages, Ack(i) PROVE RowsKept
  BY <1>5, RowAcked DEF Ack
<1>6. CASE Poll \/ SaveOffset \/ Stop \/ Crash
  BY <1>1, <1>6 DEF Poll, SaveOffset, Stop, Crash, Memory, store
<1>7. CASE Interrupt \/ Overtime \/ Capped \/ Bank \/ Answered
  BY <1>1, <1>7 DEF Interrupt, Overtime, Capped, Bank, Answered, store
<1>8. CASE Failed \/ EndTurn \/ Cutoff \/ Close \/ Exit \/ Boot
  BY <1>1, <1>8 DEF Failed, EndTurn, Cutoff, Close, Exit, Boot, store
<1>9. ASSUME NEW x \in Texts, Text(x) PROVE RowsKept
  BY <1>1, <1>9 DEF Text, store
<1>10. ASSUME NEW a \in Alerts, Raise(a) PROVE RowsKept
  BY <1>1, <1>10 DEF Raise
<1>11. ASSUME NEW beat \in BOOLEAN, Open(beat) PROVE RowsKept
  BY <1>1, <1>11 DEF Open
<1>12. ASSUME NEW r \in Reports, DispatchTask(r) \/ Report(r) PROVE RowsKept
  BY <1>1, <1>12 DEF DispatchTask, Report, store
<1>13. CASE UNCHANGED vars
  BY <1>1, <1>13 DEF vars, store
<1> QED
  BY <1>2, <1>3, <1>4, <1>5, <1>6, <1>7, <1>8, <1>9, <1>10, <1>11, <1>12, <1>13
     DEF Next, Senders, Poller, Episode

LEMMA LeastOf == ASSUME NEW S \in SUBSET Nat, S # {} PROVE \E i \in S : \A j \in S : i <= j
<1> DEFINE R == OpToRel(<, Nat)
<1>1. PICK i \in S : \A j \in S : <<j, i>> \notin R
  <2>1. IsWellFoundedOn(R, Nat)
    BY NatLessThanWellFounded
  <2> HIDE DEF R
  <2> QED  BY <2>1, WFMin
<1>2. \A j \in S : ~(j < i)
  BY <1>1 DEF OpToRel
<1> QED  BY <1>2

LEMMA OldestIsDrained ==
    ASSUME RowsOK, LoopOK, drained # {}
    PROVE  /\ Oldest \in drained /\ Oldest \in DOMAIN messages
           /\ messages[Oldest] \in Msgs /\ messages[Oldest].msg \in Founder
<1>1. /\ DOMAIN messages = 1 .. Len(messages) /\ Len(messages) \in Nat
      /\ \A i \in DOMAIN messages : messages[i] \in Msgs
  BY LenProperties, ElementOfSeq DEF RowsOK
<1>2. drained \subseteq 1 .. Len(messages)
  BY <1>1 DEF LoopOK
<1>3. \E i \in drained : \A j \in drained : i <= j
  <2>1. drained \subseteq Nat
    BY <1>1, <1>2
  <2> QED  BY <2>1, LeastOf
<1>4. Oldest \in drained
  BY <1>3 DEF Oldest
<1> QED  BY <1>1, <1>2, <1>4 DEF Msgs

LEMMA StoreStep == ASSUME TypeInv, [Next]_vars PROVE StoreOK'
<1>0. StoreOK /\ RowsOK /\ LoopOK
  BY DEF TypeInv
<1> USE DEF StoreOK
<1>1. CASE UNCHANGED <<alerts, raised, scratch, note, task>>
  BY <1>0, <1>1
<1>2. ASSUME NEW a \in Alerts, Raise(a) PROVE StoreOK'
  BY <1>0, <1>2 DEF Raise
<1>3. ASSUME NEW beat \in BOOLEAN, Open(beat) PROVE StoreOK'
  BY <1>0, <1>3 DEF Open
<1>4. CASE Capped
  <2>1. alerts' = {} /\ UNCHANGED <<raised, scratch, note, task>>
    BY <1>4 DEF Capped, bounds
  <2> QED  BY <1>0, <2>1
<1>5. CASE Turn
  <2>1. task' \in [Reports -> Tasks]
    BY <1>0, <1>5 DEF Turn, Tasks
  <2> QED  BY <1>0, <1>5, <2>1 DEF Turn, bounds
<1>6. CASE Bank
  <2>1. messages[Oldest].msg \in Founder
    BY <1>0, <1>6, OldestIsDrained DEF Bank, LoopOK
  <2> QED  BY <1>0, <1>6, <2>1 DEF Bank, bounds
<1>7. CASE Close
  BY <1>0, <1>7 DEF Close, bounds
<1>8. ASSUME Memory PROVE task' \in [Reports -> Tasks]
  BY <1>0, <1>8 DEF Memory, Tasks
<1>9. CASE Exit
  BY <1>0, <1>8, <1>9 DEF Exit, InFlight, Finished, bounds
<1>10. CASE Crash
  BY <1>0, <1>8, <1>10 DEF Crash, store
<1>11. ASSUME NEW r \in Reports, DispatchTask(r) \/ Report(r) PROVE StoreOK'
  BY <1>0, <1>11 DEF DispatchTask, Report, Tasks, store, bounds
<1>12. ASSUME NEW t \in Tells, Tell(t) PROVE StoreOK'
  BY <1>1, <1>12 DEF Tell, bounds
<1>13. ASSUME NEW x \in Texts, Text(x) PROVE StoreOK'
  BY <1>1, <1>13 DEF Text, store, bounds
<1>14. ASSUME NEW i \in DOMAIN messages, Ack(i) PROVE StoreOK'
  BY <1>1, <1>14 DEF Ack, bounds
<1>15. CASE Poll \/ QueueText \/ SaveOffset \/ Stop
  BY <1>1, <1>15 DEF Poll, QueueText, SaveOffset, Stop, store, bounds
<1>16. CASE Interrupt \/ Overtime \/ Answered \/ Failed \/ EndTurn \/ Cutoff \/ Boot
  BY <1>1, <1>16 DEF Interrupt, Overtime, Answered, Failed, EndTurn, Cutoff, Boot, store, bounds
<1>17. CASE UNCHANGED vars
  BY <1>1, <1>17 DEF vars, store, bounds
<1> QED
  BY <1>2, <1>3, <1>4, <1>5, <1>6, <1>7, <1>9, <1>10, <1>11, <1>12, <1>13, <1>14, <1>15,
     <1>16, <1>17
     DEF Next, Senders, Poller, Episode

LEMMA PhoneStep == ASSUME TypeInv, [Next]_vars PROVE PhoneOK'
<1>0. PhoneOK /\ Len(phone) \in Nat
  BY PhoneIds DEF TypeInv
<1> DEFINE Same == UNCHANGED <<phone, offset, poller>>
<1>1. CASE Same
  BY <1>0, <1>1 DEF PhoneOK
<1>2. ASSUME NEW x \in Texts, Text(x) PROVE PhoneOK'
  <2>1. phone' \in Seq(Texts) /\ Len(phone') = Len(phone) + 1
    BY <1>0, <1>2 DEF PhoneOK, Text
  <2>2. UNCHANGED <<offset, poller>>
    BY <1>2 DEF Text, store
  <2>3. /\ 1 .. Len(phone) + 1 \subseteq 1 .. Len(phone') + 1
        /\ 0 .. Len(phone) \subseteq 0 .. Len(phone')
    BY <1>0, <2>1
  <2> QED  BY <1>0, <2>1, <2>2, <2>3 DEF PhoneOK
<1>3. CASE Poll
  BY <1>0, <1>3 DEF PhoneOK, Poll, store
<1>4. CASE QueueText
  <2>1. poller.next \in 1 .. Len(phone)
    BY <1>0, <1>4 DEF PhoneOK, QueueText
  <2> QED  BY <1>0, <1>4, <2>1 DEF PhoneOK, QueueText
<1>5. CASE SaveOffset
  BY <1>0, <1>5 DEF PhoneOK, SaveOffset
<1>6. ASSUME Memory, UNCHANGED <<phone, offset>> PROVE PhoneOK'
  BY <1>0, <1>6 DEF PhoneOK, Memory
<1>7. CASE Exit
  BY <1>6, <1>7 DEF Exit
<1>8. CASE Crash
  BY <1>6, <1>8 DEF Crash, store
<1>9. ASSUME NEW t \in Tells, Tell(t) PROVE PhoneOK'
  BY <1>1, <1>9 DEF Tell
<1>10. ASSUME NEW a \in Alerts, Raise(a) PROVE PhoneOK'
  BY <1>1, <1>10 DEF Raise
<1>11. ASSUME NEW beat \in BOOLEAN, Open(beat) PROVE PhoneOK'
  BY <1>1, <1>11 DEF Open
<1>12. ASSUME NEW r \in Reports, DispatchTask(r) \/ Report(r) PROVE PhoneOK'
  BY <1>1, <1>12 DEF DispatchTask, Report, store
<1>13. ASSUME NEW i \in DOMAIN messages, Ack(i) PROVE PhoneOK'
  BY <1>1, <1>13 DEF Ack
<1>14. CASE Capped \/ Turn \/ Bank \/ Close \/ Stop
  BY <1>1, <1>14 DEF Capped, Turn, Bank, Close, Stop, store
<1>15. CASE Interrupt \/ Overtime \/ Answered \/ Failed \/ EndTurn \/ Cutoff \/ Boot
  BY <1>1, <1>15 DEF Interrupt, Overtime, Answered, Failed, EndTurn, Cutoff, Boot, store
<1>16. CASE UNCHANGED vars
  BY <1>1, <1>16 DEF vars, store
<1> QED
  BY <1>2, <1>3, <1>4, <1>5, <1>7, <1>8, <1>9, <1>10, <1>11, <1>12, <1>13, <1>14, <1>15,
     <1>16
     DEF Next, Senders, Poller, Episode

LEMMA AsIsContext ==
    ASSUME NEW S \in SUBSET Items, NEW v \in Via
    PROVE  As(v, S) \in SUBSET [item : Items, via : Via]
BY DEF As

LEMMA MsgOfRow ==
    ASSUME RowsOK, NEW i \in DOMAIN messages
    PROVE  /\ messages[i] \in Msgs /\ messages[i].msg \in Founder
           /\ messages[i].delivered \in BOOLEAN /\ messages[i].acked \in BOOLEAN
<1>1. messages[i] \in Msgs
  BY LenProperties, ElementOfSeq DEF RowsOK
<1> QED  BY <1>1 DEF Msgs

(* What is in the transcript, and what has been shown, are items.          *)
ContextOK == context \subseteq [item : Items, via : Via] /\ shown \subseteq Items

LEMMA ContextStep == ASSUME TypeInv, [Next]_vars PROVE ContextOK'
<1>0. StoreOK /\ RowsOK /\ LoopOK /\ ContextOK
  BY DEF TypeInv, LoopOK, ContextOK
<1>1. CASE UNCHANGED <<context, shown>>
  BY <1>0, <1>1 DEF ContextOK
<1>2. CASE context' = {} /\ UNCHANGED shown
  BY <1>0, <1>2 DEF ContextOK
<1>3. ASSUME NEW S \in SUBSET Items, context' = context \cup As("drain", S), UNCHANGED shown
      PROVE  ContextOK'
  BY <1>0, <1>3, AsIsContext DEF ContextOK, Via
<1>4. CASE UNCHANGED context /\ shown' = shown \cup InContext
  <2>1. InContext \subseteq Items
    BY <1>0 DEF ContextOK, InContext
  <2> QED  BY <1>0, <1>4, <2>1 DEF ContextOK
<1>5. ASSUME NEW beat \in BOOLEAN, Open(beat) PROVE ContextOK'
  <2>1. {messages[i].msg : i \in Brief} \in SUBSET Items
    BY <1>0, MsgOfRow DEF Brief, OpenDirectives, Items
  <2>2. note \in SUBSET Items /\ scratch \in SUBSET Items
    BY <1>0 DEF StoreOK, Items
  <2>3. /\ As("brief", {messages[i].msg : i \in Brief}) \in SUBSET [item : Items, via : Via]
        /\ As("note", note) \in SUBSET [item : Items, via : Via]
        /\ As("scratch", scratch) \in SUBSET [item : Items, via : Via]
    BY <2>1, <2>2, AsIsContext DEF Via
  <2>4. /\ context' = As("brief", {messages[i].msg : i \in Brief})
                         \cup As("note", note) \cup As("scratch", scratch)
        /\ UNCHANGED shown
    BY <1>5 DEF Open
  <2> QED  BY <1>0, <2>3, <2>4 DEF ContextOK
<1>6. alerts \in SUBSET Items /\ alerts \cup Finished \in SUBSET Items
  BY <1>0 DEF StoreOK, Items, Finished
<1>7. CASE Capped
  BY <1>3, <1>6, <1>7 DEF Capped
<1>8. CASE Turn
  BY <1>3, <1>6, <1>8 DEF Turn
<1>9. CASE Bank
  <2>1. {messages[Oldest].msg} \in SUBSET Items
    BY <1>0, <1>9, OldestIsDrained DEF Bank, LoopOK, Items
  <2> QED  BY <1>3, <1>9, <2>1 DEF Bank
<1>10. CASE Answered
  BY <1>4, <1>10 DEF Answered
<1>11. CASE Cutoff
  BY <1>1, <1>4, <1>11 DEF Cutoff
<1>12. CASE Close \/ Exit \/ Crash
  BY <1>2, <1>12 DEF Close, Exit, Crash, Memory
<1>13. ASSUME NEW t \in Tells, Tell(t) PROVE ContextOK'
  BY <1>1, <1>13 DEF Tell, ceo
<1>14. ASSUME NEW x \in Texts, Text(x) PROVE ContextOK'
  BY <1>1, <1>14 DEF Text, ceo
<1>15. ASSUME NEW a \in Alerts, Raise(a) PROVE ContextOK'
  BY <1>1, <1>15 DEF Raise, ceo
<1>16. ASSUME NEW i \in DOMAIN messages, Ack(i) PROVE ContextOK'
  BY <1>1, <1>16 DEF Ack, ceo
<1>17. ASSUME NEW r \in Reports, DispatchTask(r) \/ Report(r) PROVE ContextOK'
  BY <1>1, <1>17 DEF DispatchTask, Report, ceo
<1>18. CASE Poll \/ QueueText \/ SaveOffset \/ Stop
  BY <1>1, <1>18 DEF Poll, QueueText, SaveOffset, Stop, ceo
<1>19. CASE Interrupt \/ Overtime \/ Failed \/ EndTurn \/ Boot
  BY <1>1, <1>19 DEF Interrupt, Overtime, Failed, EndTurn, Boot
<1>20. CASE UNCHANGED vars
  BY <1>1, <1>20 DEF vars, ceo
<1> QED
  BY <1>5, <1>7, <1>8, <1>9, <1>10, <1>11, <1>12, <1>13, <1>14, <1>15, <1>16, <1>17, <1>18,
     <1>19, <1>20
     DEF Next, Senders, Poller, Episode

(* A turn that banks has rows to bank, and nothing else has.               *)
DrainOK == pc \in Pcs /\ drained \subseteq DOMAIN messages /\ (pc = "bank" <=> drained # {})

LEMMA DrainStep == ASSUME TypeInv, [Next]_vars PROVE DrainOK'
<1>0. RowsOK /\ DrainOK /\ LoopOK
  BY DEF TypeInv, LoopOK, DrainOK
<1>a. DOMAIN messages \subseteq DOMAIN messages'
  BY RowsStep DEF RowsKept
<1>1. CASE UNCHANGED <<pc, drained>>
  BY <1>0, <1>1, <1>a DEF DrainOK
<1>2. CASE pc' \in Pcs \ {"bank"} /\ drained' = {}
  BY <1>2 DEF DrainOK
<1>3. CASE pc # "bank" /\ pc' \in Pcs \ {"bank"} /\ UNCHANGED drained
  BY <1>0, <1>2, <1>3 DEF DrainOK
<1>4. CASE Turn
  <2>1. Queued \subseteq DOMAIN messages
    BY DEF Queued
  <2>2. drained' = Queued /\ pc' = IF Queued = {} THEN "ask" ELSE "bank"
    BY <1>4 DEF Turn
  <2> QED  BY <1>a, <2>1, <2>2 DEF DrainOK, Pcs
<1>5. CASE Bank
  <2>1. /\ Oldest \in drained /\ drained' = drained \ {Oldest}
        /\ pc' = IF drained = {Oldest} THEN "ask" ELSE "bank"
    BY <1>0, <1>5, OldestIsDrained DEF Bank, LoopOK
  <2> QED  BY <1>0, <1>a, <2>1 DEF DrainOK, Pcs
<1>6. CASE Exit \/ Crash
  BY <1>2, <1>6 DEF Exit, Crash, Memory, Pcs
<1>7. ASSUME NEW beat \in BOOLEAN, Open(beat) PROVE DrainOK'
  BY <1>3, <1>7 DEF Open, Pcs
<1>8. CASE Interrupt \/ Overtime \/ Capped
  BY <1>3, <1>8 DEF Interrupt, Overtime, Capped, Pcs
<1>9. CASE Answered \/ Failed \/ EndTurn \/ Cutoff \/ Close
  BY <1>3, <1>9 DEF Answered, Failed, EndTurn, Cutoff, Close, Pcs
<1>10. CASE Boot
  BY <1>3, <1>10 DEF Boot, Up, Pcs
<1>11. ASSUME NEW t \in Tells, Tell(t) PROVE DrainOK'
  BY <1>1, <1>11 DEF Tell, ceo
<1>12. ASSUME NEW x \in Texts, Text(x) PROVE DrainOK'
  BY <1>1, <1>12 DEF Text, ceo
<1>13. ASSUME NEW a \in Alerts, Raise(a) PROVE DrainOK'
  BY <1>1, <1>13 DEF Raise, ceo
<1>14. ASSUME NEW i \in DOMAIN messages, Ack(i) PROVE DrainOK'
  BY <1>1, <1>14 DEF Ack, ceo
<1>15. ASSUME NEW r \in Reports, DispatchTask(r) \/ Report(r) PROVE DrainOK'
  BY <1>1, <1>15 DEF DispatchTask, Report, ceo
<1>16. CASE Poll \/ QueueText \/ SaveOffset \/ Stop
  BY <1>1, <1>16 DEF Poll, QueueText, SaveOffset, Stop, ceo
<1>17. CASE UNCHANGED vars
  BY <1>1, <1>17 DEF vars, ceo
<1> QED
  BY <1>4, <1>5, <1>6, <1>7, <1>8, <1>9, <1>10, <1>11, <1>12, <1>13, <1>14, <1>15, <1>16, <1>17
     DEF Next, Senders, Poller, Episode

(* An episode takes at most its cap of turns, and a restart follows a stop *)
(* or a crash.                                                             *)
LEMMA CountsStep == ASSUME TypeInv, [Next]_vars PROVE CountsOK'
<1>0. CountsOK /\ FlagsOK
  BY DEF TypeInv
<1>a. MaxSteps \in Nat /\ QuietSteps \in Nat /\ MaxBeats \in Nat /\ MaxFailures \in Nat
      /\ MaxRestarts \in Nat
  BY InboxSizes DEF InboxSizes
<1> USE DEF CountsOK, Pcs
<1>1. CASE UNCHANGED <<pc, steps, stop, beats, failures, restarts>>
  BY <1>0, <1>1
<1>2. CASE UNCHANGED <<stop, beats, failures, restarts>> /\ UNCHANGED steps
           /\ pc # "down" /\ pc' \in Pcs \ {"down"}
           /\ (pc' \in {"head", "bank", "ask", "act"} => pc \in {"head", "bank", "ask", "act"})
  BY <1>0, <1>2
<1>3. CASE Interrupt \/ Overtime \/ Bank
  BY <1>2, <1>3 DEF Interrupt, Overtime, Bank, bounds
<1>4. CASE Answered \/ EndTurn
  BY <1>2, <1>4 DEF Answered, EndTurn, bounds
<1>5. CASE Capped
  <2>1. steps' = steps + 1 /\ steps <= MaxSteps
    BY <1>0, <1>5 DEF Capped
  <2> QED  BY <1>0, <1>a, <1>5, <2>1 DEF Capped, bounds
<1>6. CASE Turn
  <2>1. StepCap(WorkArrived \/ alerts # {}) <= MaxSteps
    BY <1>a DEF StepCap
  <2>2. StepCap(WorkArrived \/ alerts # {}) \in Nat
    BY <1>a DEF StepCap
  <2>3. steps' = steps + 1 /\ steps + 1 <= MaxSteps /\ steps' \in Nat
    BY <1>0, <1>a, <1>6, <2>1, <2>2 DEF Turn
  <2> QED  BY <1>0, <1>a, <1>6, <2>3 DEF Turn, bounds
<1>7. CASE Failed
  <2>1. failures' \in 0 .. MaxFailures
    BY <1>0, <1>a, <1>7 DEF Failed
  <2> QED  BY <1>0, <1>7, <2>1 DEF Failed
<1>8. CASE Cutoff
  <2>1. failures' \in 0 .. MaxFailures
    BY <1>0, <1>a, <1>8 DEF Cutoff
  <2> QED  BY <1>0, <1>8, <2>1 DEF Cutoff
<1>9. CASE Close
  BY <1>0, <1>a, <1>9 DEF Close, bounds
<1>10. CASE Stop
  BY <1>0, <1>10 DEF Stop, Up, ceo, bounds
<1>11. CASE Exit
  BY <1>0, <1>a, <1>11 DEF Exit, Memory, bounds
<1>12. CASE Crash
  BY <1>0, <1>a, <1>12 DEF Crash, Memory
<1>13. CASE Boot
  <2>1. restarts' \in 0 .. MaxRestarts /\ restarts < MaxRestarts /\ ~stop
    BY <1>0, <1>a, <1>13 DEF Boot, Up
  <2> QED  BY <1>0, <1>13, <2>1 DEF Boot
<1>14. ASSUME NEW beat \in BOOLEAN, Open(beat) PROVE CountsOK'
  <2>1. beats' \in 0 .. MaxBeats
    BY <1>0, <1>a, <1>14 DEF Open
  <2> QED  BY <1>0, <1>a, <1>14, <2>1 DEF Open
<1>15. ASSUME NEW t \in Tells, Tell(t) PROVE CountsOK'
  BY <1>1, <1>15 DEF Tell, ceo, bounds
<1>16. ASSUME NEW x \in Texts, Text(x) PROVE CountsOK'
  BY <1>1, <1>16 DEF Text, ceo, bounds
<1>17. ASSUME NEW a \in Alerts, Raise(a) PROVE CountsOK'
  BY <1>1, <1>17 DEF Raise, ceo
<1>18. ASSUME NEW i \in DOMAIN messages, Ack(i) PROVE CountsOK'
  BY <1>1, <1>18 DEF Ack, ceo, bounds
<1>19. ASSUME NEW r \in Reports, DispatchTask(r) \/ Report(r) PROVE CountsOK'
  BY <1>1, <1>19 DEF DispatchTask, Report, ceo, bounds
<1>20. CASE Poll \/ QueueText \/ SaveOffset
  BY <1>1, <1>20 DEF Poll, QueueText, SaveOffset, ceo, bounds
<1>21. CASE UNCHANGED vars
  BY <1>1, <1>21 DEF vars, ceo, bounds
<1> QED
  BY <1>3, <1>4, <1>5, <1>6, <1>7, <1>8, <1>9, <1>10, <1>11, <1>12, <1>13, <1>14, <1>15,
     <1>16, <1>17, <1>18, <1>19, <1>20, <1>21
     DEF Next, Senders, Poller, Episode

LEMMA FlagsStep == ASSUME TypeInv, [Next]_vars PROVE FlagsOK'
<1>0. FlagsOK
  BY DEF TypeInv
<1> USE DEF FlagsOK
<1>1. CASE UNCHANGED <<quiet, first, emptyWake, stop, crashed>>
  BY <1>0, <1>1
<1>2. ASSUME NEW beat \in BOOLEAN, Open(beat) PROVE FlagsOK'
  <2>1. quiet' \in BOOLEAN
    BY <1>2 DEF Open
  <2>2. first' = FALSE /\ UNCHANGED <<emptyWake, stop, crashed>>
    BY <1>2 DEF Open
  <2> QED  BY <1>0, <2>1, <2>2
<1>3. CASE Close
  <2>1. emptyWake' = (InFlight # {}) /\ quiet' = FALSE /\ UNCHANGED <<first, stop, crashed>>
    BY <1>3 DEF Close, bounds
  <2>2. emptyWake' \in BOOLEAN
    BY <2>1
  <2> QED  BY <1>0, <2>1, <2>2
<1>4. CASE Exit
  BY <1>0, <1>4 DEF Exit, Memory, bounds
<1>5. CASE Crash
  BY <1>0, <1>5 DEF Crash, Memory
<1>6. CASE Stop
  BY <1>0, <1>6 DEF Stop, ceo, bounds
<1>7. ASSUME NEW t \in Tells, Tell(t) PROVE FlagsOK'
  BY <1>1, <1>7 DEF Tell, ceo, bounds
<1>8. ASSUME NEW x \in Texts, Text(x) PROVE FlagsOK'
  BY <1>1, <1>8 DEF Text, ceo, bounds
<1>9. ASSUME NEW a \in Alerts, Raise(a) PROVE FlagsOK'
  BY <1>1, <1>9 DEF Raise, ceo
<1>10. ASSUME NEW i \in DOMAIN messages, Ack(i) PROVE FlagsOK'
  BY <1>1, <1>10 DEF Ack, ceo, bounds
<1>11. ASSUME NEW r \in Reports, DispatchTask(r) \/ Report(r) PROVE FlagsOK'
  BY <1>1, <1>11 DEF DispatchTask, Report, ceo, bounds
<1>12. CASE Poll \/ QueueText \/ SaveOffset
  BY <1>1, <1>12 DEF Poll, QueueText, SaveOffset, ceo, bounds
<1>13. CASE Interrupt \/ Overtime \/ Capped \/ Turn \/ Bank
  BY <1>1, <1>13 DEF Interrupt, Overtime, Capped, Turn, Bank, bounds
<1>14. CASE Answered \/ Failed \/ EndTurn \/ Cutoff \/ Boot
  BY <1>1, <1>14 DEF Answered, Failed, EndTurn, Cutoff, Boot, bounds
<1>15. CASE UNCHANGED vars
  BY <1>1, <1>15 DEF vars, ceo, bounds
<1> QED
  BY <1>2, <1>3, <1>4, <1>5, <1>6, <1>7, <1>8, <1>9, <1>10, <1>11, <1>12, <1>13, <1>14, <1>15
     DEF Next, Senders, Poller, Episode

LEMMA TypeStep == TypeInv /\ [Next]_vars => TypeInv'
<1> SUFFICES ASSUME TypeInv, [Next]_vars PROVE TypeInv'
  OBVIOUS
<1>1. LoopOK'
  BY ContextStep, DrainStep DEF LoopOK, ContextOK, DrainOK
<1> QED  BY <1>1, RowsStep, StoreStep, PhoneStep, CountsStep, FlagsStep DEF TypeInv, RowsKept

LEMMA TypeCorrect == Spec => []TypeInv
BY TypeInit, TypeStep, PTL DEF Spec

(* Every variable keeps its shape; an episode asks at most its cap of      *)
(* turns, and only a turn that has rows to bank banks.                     *)
THEOREM TypeOKHolds == Spec => []TypeOK
BY TypeCorrect, TypeInvGivesTypeOK, PTL

-----------------------------------------------------------------------------
(* What an episode has drained stands in the scratch until it closes.  The *)
(* invariant is inductive over the types: alerts and reports, the rest of  *)
(* what is drained, are no founder messages.                               *)
Banked == \A e \in context : e.via = "drain" /\ e.item \in Founder => e.item \in scratch

LEMMA BankedStep == ASSUME TypeInv, Banked, [Next]_vars PROVE Banked'
<1> USE DEF Banked
<1>1. CASE UNCHANGED <<context, scratch>>
  BY <1>1
<1>2. CASE context' = {}
  BY <1>2
<1>3. ASSUME NEW S, S \subseteq Alerts \cup Reports,
             context' = context \cup As("drain", S), UNCHANGED scratch
      PROVE  Banked'
  <2>1. S \cap Founder = {}
    BY <1>3, InboxKinds DEF InboxKinds, Founder
  <2> QED  BY <1>3, <2>1 DEF As
<1>4. alerts \subseteq Alerts \cup Reports /\ alerts \cup Finished \subseteq Alerts \cup Reports
  BY DEF TypeInv, StoreOK, Finished
<1>5. ASSUME NEW beat \in BOOLEAN, Open(beat) PROVE Banked'
  <2>1. \A e \in context' : e.via \in {"brief", "note", "scratch"}
    BY <1>5 DEF Open, As
  <2> QED  BY <2>1
<1>6. CASE Capped
  BY <1>3, <1>4, <1>6 DEF Capped
<1>7. CASE Turn
  BY <1>3, <1>4, <1>7 DEF Turn
<1>8. CASE Bank
  BY <1>8 DEF Bank, As
<1>9. CASE Close \/ Exit \/ Crash
  BY <1>2, <1>9 DEF Close, Exit, Crash, Memory
<1>10. ASSUME NEW t \in Tells, Tell(t) PROVE Banked'
  BY <1>1, <1>10 DEF Tell, ceo
<1>11. ASSUME NEW x \in Texts, Text(x) PROVE Banked'
  BY <1>1, <1>11 DEF Text, store, ceo
<1>12. ASSUME NEW a \in Alerts, Raise(a) PROVE Banked'
  BY <1>1, <1>12 DEF Raise, ceo
<1>13. ASSUME NEW i \in DOMAIN messages, Ack(i) PROVE Banked'
  BY <1>1, <1>13 DEF Ack, ceo
<1>14. ASSUME NEW r \in Reports, DispatchTask(r) \/ Report(r) PROVE Banked'
  BY <1>1, <1>14 DEF DispatchTask, Report, store, ceo
<1>15. CASE Poll \/ QueueText \/ SaveOffset \/ Stop
  BY <1>1, <1>15 DEF Poll, QueueText, SaveOffset, Stop, store, ceo
<1>16. CASE Interrupt \/ Overtime \/ Answered \/ Failed \/ EndTurn \/ Cutoff \/ Boot
  BY <1>1, <1>16 DEF Interrupt, Overtime, Answered, Failed, EndTurn, Cutoff, Boot, store
<1>17. CASE UNCHANGED vars
  BY <1>1, <1>17 DEF vars, store, ceo
<1> QED
  BY <1>5, <1>6, <1>7, <1>8, <1>9, <1>10, <1>11, <1>12, <1>13, <1>14, <1>15, <1>16, <1>17
     DEF Next, Senders, Poller, Episode

(* Between episodes there is no transcript; inside one the scratch is part *)
(* of it; tools are called on what the model was shown, and so is an       *)
(* episode closed that nothing cut off; and a text has come in from the    *)
(* queue or from the scratch.                                              *)
AtRest  == pc \in {"wait", "down"} => context = {}
Carried == pc \notin {"wait", "down"} => scratch \subseteq InContext
Asked   == pc = "act" \/ (pc = "close" /\ ~stop /\ failures = 0) => InContext \subseteq shown
Ways    == \A e \in context : e.item \in Texts => e.via \in {"drain", "scratch"}
HeldInv == Banked /\ AtRest /\ Carried /\ Asked /\ Ways

LEMMA JoinedItems ==
    ASSUME NEW S, NEW v, context' = context \cup As(v, S)
    PROVE  InContext' = InContext \cup S
<1>1. InContext' = {e.item : e \in context \cup As(v, S)}
  BY DEF InContext
<1>2. ASSUME NEW x \in S PROVE x \in InContext'
  <2>1. [item |-> x, via |-> v] \in As(v, S)
    BY DEF As
  <2> QED  BY <1>1, <2>1
<1>3. ASSUME NEW e \in As(v, S) PROVE e.item \in S
  BY DEF As
<1> QED  BY <1>1, <1>2, <1>3 DEF InContext

LEMMA HeldStep == ASSUME TypeInv, HeldInv, [Next]_vars PROVE HeldInv'
<1> USE DEF HeldInv
<1>0. Banked'
  BY BankedStep
<1>a. failures \in Nat
  BY InboxSizes DEF TypeInv, CountsOK, InboxSizes
<1>1. CASE UNCHANGED <<pc, context, scratch, stop, shown, failures>>
  BY <1>0, <1>1 DEF AtRest, Carried, Asked, Ways, InContext
<1>2. CASE context' = {} /\ pc' \in {"wait", "down"}
  BY <1>0, <1>2 DEF AtRest, Carried, Asked, Ways
<1>3. ASSUME NEW S, S \subseteq Alerts \cup Reports,
             context' = context \cup As("drain", S), UNCHANGED scratch,
             pc = "head", pc' \in {"cutoff", "bank", "ask"}
      PROVE  HeldInv'
  <2>1. InContext' = InContext \cup S
    BY <1>3, JoinedItems
  <2>2. Ways'
    BY <1>3 DEF Ways, As
  <2> QED  BY <1>0, <1>3, <2>1, <2>2 DEF AtRest, Carried, Asked
<1>4. alerts \subseteq Alerts \cup Reports /\ alerts \cup Finished \subseteq Alerts \cup Reports
  BY DEF TypeInv, StoreOK, Finished
<1>5. ASSUME NEW beat \in BOOLEAN, Open(beat) PROVE HeldInv'
  <2> DEFINE told == {messages[i].msg : i \in Brief}
  <2>1. /\ context' = As("brief", told) \cup As("note", note) \cup As("scratch", scratch)
        /\ scratch' = {} /\ pc' = "head"
    BY <1>5 DEF Open
  <2>2. told \subseteq Tells
    BY DEF Brief, OpenDirectives
  <2>3. told \cap Texts = {} /\ note \cap Texts = {}
    BY <2>2, InboxKinds DEF InboxKinds, Founder, TypeInv, StoreOK
  <2>4. Ways'
    <3> HIDE DEF told
    <3> QED  BY <2>1, <2>3 DEF Ways, As
  <2> QED  BY <1>0, <2>1, <2>4 DEF AtRest, Carried, Asked
<1>6. CASE Capped
  BY <1>3, <1>4, <1>6 DEF Capped
<1>7. CASE Turn
  BY <1>3, <1>4, <1>7 DEF Turn
<1>8. CASE Bank
  <2> DEFINE m == messages[Oldest].msg
  <2>1. /\ context' = context \cup As("drain", {m}) /\ scratch' = scratch \cup {m}
        /\ pc = "bank" /\ pc' \in {"ask", "bank"}
    BY <1>8 DEF Bank
  <2> HIDE DEF m
  <2>2. InContext' = InContext \cup {m}
    BY <2>1, JoinedItems
  <2>3. Ways'
    BY <2>1 DEF Ways, As
  <2> QED  BY <1>0, <2>1, <2>2, <2>3 DEF AtRest, Carried, Asked
<1>9. CASE Close \/ Exit \/ Crash
  BY <1>2, <1>9 DEF Close, Exit, Crash, Memory
<1>10. ASSUME NEW t \in Tells, Tell(t) PROVE HeldInv'
  BY <1>1, <1>10 DEF Tell, ceo, bounds
<1>11. ASSUME NEW x \in Texts, Text(x) PROVE HeldInv'
  BY <1>1, <1>11 DEF Text, store, ceo, bounds
<1>12. ASSUME NEW a \in Alerts, Raise(a) PROVE HeldInv'
  BY <1>1, <1>12 DEF Raise, ceo
<1>13. ASSUME NEW i \in DOMAIN messages, Ack(i) PROVE HeldInv'
  BY <1>1, <1>13 DEF Ack, ceo, bounds
<1>14. ASSUME NEW r \in Reports, DispatchTask(r) \/ Report(r) PROVE HeldInv'
  BY <1>1, <1>14 DEF DispatchTask, Report, store, ceo, bounds
<1>15. CASE Poll \/ QueueText \/ SaveOffset
  BY <1>1, <1>15 DEF Poll, QueueText, SaveOffset, store, ceo, bounds
<1>16. CASE Stop
  BY <1>0, <1>16 DEF Stop, store, ceo, AtRest, Carried, Asked, Ways, InContext
<1>17. CASE Interrupt \/ Overtime \/ Answered \/ Failed \/ EndTurn \/ Cutoff
  <2>1. UNCHANGED <<context, scratch, stop>> /\ pc \notin {"wait", "down"}
        /\ pc' \notin {"wait", "down"}
    BY <1>17 DEF Interrupt, Overtime, Answered, Failed, EndTurn, Cutoff, store
  <2>2. InContext' = InContext
    BY <2>1 DEF InContext
  <2>3. AtRest' /\ Carried' /\ Ways'
    BY <2>1, <2>2 DEF AtRest, Carried, Ways
  <2>4. Asked'
    <3>1. CASE Interrupt \/ Overtime \/ Failed
      BY <2>1, <3>1 DEF Interrupt, Overtime, Failed, Asked
    <3>2. CASE Answered
      BY <2>2, <3>2 DEF Answered, Asked
    <3>3. CASE EndTurn
      BY <2>2, <3>3 DEF EndTurn, Asked
    <3>4. CASE Cutoff
      BY <1>a, <2>1, <2>2, <3>4 DEF Cutoff, Asked
    <3> QED  BY <1>17, <3>1, <3>2, <3>3, <3>4
  <2> QED  BY <1>0, <2>3, <2>4
<1>18. CASE Boot
  BY <1>0, <1>18 DEF Boot, Up, store, AtRest, Carried, Asked, Ways, InContext
<1>19. CASE UNCHANGED vars
  BY <1>1, <1>19 DEF vars, store, ceo, bounds
<1> QED
  BY <1>5, <1>6, <1>7, <1>8, <1>9, <1>10, <1>11, <1>12, <1>13, <1>14, <1>15, <1>16, <1>17,
     <1>18, <1>19
     DEF Next, Senders, Poller, Episode

(* A step that drops nothing leaves a text where it was held.              *)
LEMMA HeldStays ==
    ASSUME RowsKept, LoopOK, NEW m, Held(m),
           shown \subseteq shown', scratch \subseteq scratch', context \subseteq context',
           drained \subseteq drained', \A i \in Queued : ~messages'[i].delivered
    PROVE  Held(m)'
<1>1. InContext \subseteq InContext'
  BY DEF InContext
<1>2. InHand \subseteq InHand'
  BY DEF InHand, LoopOK, RowsKept
<1>3. ASSUME NEW i \in Queued PROVE i \in Queued' /\ messages'[i].msg = messages[i].msg
  BY DEF Queued, RowsKept
<1> QED  BY <1>1, <1>2, <1>3 DEF Held

LEMMA HeldByStep ==
    ASSUME TypeInv, HeldInv, [Next]_vars, NEW m \in Texts, Held(m), ~Held(m)'
    PROVE  \/ pc' = "down" /\ (m \in InHand \/ Replayed(m))
           \/ pc = "close" /\ (stop \/ failures > 0)
<1>0. RowsOK /\ RowsKept /\ LoopOK
  BY RowsStep DEF TypeInv
<1>a. m \in Founder
  BY DEF Founder
<1>b. \A i \in Queued : i \in DOMAIN messages /\ ~messages[i].delivered
  BY DEF Queued
<1>1. ASSUME UNCHANGED messages, shown \subseteq shown', scratch \subseteq scratch',
             context \subseteq context', drained \subseteq drained'
      PROVE  FALSE
  BY <1>0, <1>b, <1>1, HeldStays
<1>2. ASSUME UNCHANGED <<shown, scratch, context, drained>>,
             \A i \in DOMAIN messages : messages'[i].delivered = messages[i].delivered
      PROVE  FALSE
  BY <1>0, <1>b, <1>2, HeldStays
<1>3. ASSUME NEW n \in Founder, messages' = Append(messages, Row(n)),
             UNCHANGED <<shown, scratch, context, drained>>
      PROVE  FALSE
  BY <1>0, <1>2, <1>3, RowsAdded
<1>5. ASSUME NEW beat \in BOOLEAN, Open(beat) PROVE FALSE
  <2>1. /\ As("scratch", scratch) \subseteq context' /\ pc = "wait"
        /\ UNCHANGED <<messages, drained, shown>>
    BY <1>5 DEF Open
  <2>2. context = {}
    BY <2>1 DEF HeldInv, AtRest
  <2>3. scratch \subseteq InContext'
    <3>1. ASSUME NEW x \in scratch PROVE x \in InContext'
      <4>1. [item |-> x, via |-> "scratch"] \in context'
        BY <2>1 DEF As
      <4> QED  BY <4>1 DEF InContext
    <3> QED  BY <3>1
  <2>4. InContext = {} /\ InHand' = InHand /\ Queued' = Queued
    BY <2>1, <2>2 DEF InContext, InHand, Queued
  <2> QED  BY <2>1, <2>3, <2>4 DEF Held
<1>6. CASE Capped
  BY <1>1, <1>6 DEF Capped
<1>7. CASE Turn
  <2>1. /\ drained' = Queued /\ UNCHANGED <<shown, scratch>> /\ context \subseteq context'
        /\ drained = {}
    BY <1>0, <1>7 DEF Turn, LoopOK
  <2>2. InHand = {} /\ InContext \subseteq InContext'
    BY <2>1 DEF InHand, InContext
  <2>3. ASSUME NEW i \in Queued, messages[i].msg = m PROVE m \in InHand'
    <3>1. messages'[i].msg = m
      BY <1>0, <1>b, <2>3 DEF RowsKept
    <3> QED  BY <2>1, <3>1 DEF InHand
  <2> QED  BY <2>1, <2>2, <2>3 DEF Held
<1>8. CASE Bank
  <2> DEFINE n == messages[Oldest].msg
  <2>1. /\ context' = context \cup As("drain", {n}) /\ scratch' = scratch \cup {n}
        /\ drained' = drained \ {Oldest} /\ UNCHANGED <<messages, shown>>
    BY <1>8 DEF Bank
  <2>2. InHand \subseteq InHand' \cup {n} /\ Queued' = Queued
    BY <2>1 DEF InHand, Queued
  <2> HIDE DEF n
  <2>3. InContext \subseteq InContext'
    BY <2>1, JoinedItems
  <2> QED  BY <2>1, <2>2, <2>3 DEF Held
<1>9. CASE Close
  <2>1. /\ pc = "close" /\ drained = {} /\ UNCHANGED <<messages, shown>>
    BY <1>0, <1>9 DEF Close, LoopOK
  <2>2. SUFFICES ASSUME ~stop, ~(failures > 0) PROVE FALSE
    BY <2>1
  <2>3. failures = 0
    BY <2>2 DEF TypeInv, CountsOK
  <2>4. InContext \subseteq shown /\ scratch \subseteq shown
    BY <2>1, <2>2, <2>3 DEF HeldInv, Asked, Carried
  <2>5. InHand = {} /\ Queued' = Queued
    BY <2>1 DEF InHand, Queued
  <2> QED  BY <2>1, <2>4, <2>5 DEF Held
<1>10. CASE Exit
  <2>1. /\ pc = "wait" /\ drained = {} /\ UNCHANGED <<messages, shown, scratch>>
    BY <1>0, <1>10 DEF Exit, LoopOK
  <2>2. context = {}
    BY <2>1 DEF HeldInv, AtRest
  <2> QED
    BY <1>1, <2>1, <2>2
<1>11. CASE Crash
  <2>1. pc' = "down" /\ UNCHANGED <<messages, shown, scratch>>
    BY <1>11 DEF Crash, Memory, store
  <2>2. SUFFICES ASSUME m \notin InHand PROVE Replayed(m)
    BY <2>1
  <2>3. m \notin scratch /\ m \notin shown /\ m \in InContext
    BY <2>1, <2>2 DEF Held, Queued
  <2>4. PICK e \in context : e.item = m
    BY <2>3 DEF InContext
  <2>5. e.via = "scratch"
    BY <1>a, <2>3, <2>4 DEF HeldInv, Banked, Ways
  <2>6. e = [item |-> m, via |-> "scratch"]
    BY <1>0, <2>4, <2>5 DEF LoopOK
  <2> QED  BY <2>4, <2>6 DEF Replayed
<1>12. ASSUME NEW t \in Tells, Tell(t) PROVE FALSE
  BY <1>3, <1>12 DEF Tell, ceo, Founder
<1>13. ASSUME NEW x \in Texts, Text(x) PROVE FALSE
  BY <1>1, <1>13 DEF Text, store, ceo
<1>14. ASSUME NEW a \in Alerts, Raise(a) PROVE FALSE
  BY <1>1, <1>14 DEF Raise, ceo
<1>15. ASSUME NEW i \in DOMAIN messages, Ack(i) PROVE FALSE
  <2>1. messages' = [messages EXCEPT ![i].acked = TRUE]
        /\ UNCHANGED <<shown, scratch, context, drained>>
    BY <1>15 DEF Ack, ceo
  <2>2. \A j \in DOMAIN messages : messages'[j].delivered = messages[j].delivered
    BY <1>0, <2>1, RowAcked
  <2> QED  BY <1>2, <2>1, <2>2
<1>16. ASSUME NEW r \in Reports, DispatchTask(r) \/ Report(r) PROVE FALSE
  BY <1>1, <1>16 DEF DispatchTask, Report, store, ceo
<1>17. CASE Poll \/ SaveOffset \/ Stop \/ Boot
  BY <1>1, <1>17 DEF Poll, SaveOffset, Stop, Boot, store, ceo
<1>18. CASE QueueText
  <2>1. phone[poller.next] \in Founder
    <3>1. poller.next \in 1 .. Len(phone)
      BY <1>18 DEF QueueText, TypeInv, PhoneOK
    <3> QED  BY <3>1, PhoneIds DEF Founder, TypeInv
  <2> QED  BY <1>3, <1>18, <2>1 DEF QueueText, ceo
<1>19. CASE Interrupt \/ Overtime \/ Answered \/ Failed \/ EndTurn \/ Cutoff
  BY <1>1, <1>19 DEF Interrupt, Overtime, Answered, Failed, EndTurn, Cutoff, store
<1>20. CASE UNCHANGED vars
  BY <1>1, <1>20 DEF vars, store, ceo
<1> QED
  BY <1>5, <1>6, <1>7, <1>8, <1>9, <1>10, <1>11, <1>12, <1>13, <1>14, <1>15, <1>16, <1>17,
     <1>18, <1>19, <1>20
     DEF Next, Senders, Poller, Episode

(* Only a crash before the first call that shows it, or an episode without *)
(* a call that answered, loses what the founder wrote (drain_messages, the *)
(* scratch and its replay in run_ceo).                                     *)
THEOREM HeldUntilHeardHolds == Spec => HeldUntilHeard
<1>1. Init => HeldInv
  BY DEF Init, HeldInv, Banked, AtRest, Carried, Asked, Ways
<1>2. TypeInv /\ HeldInv /\ [Next]_vars => HeldInv'
  BY HeldStep
<1>3. ASSUME TypeInv, HeldInv, [Next]_vars
      PROVE  [\A m \in Texts : Held(m) /\ ~Held(m)' =>
                 \/ pc' = "down" /\ (m \in InHand \/ Replayed(m))
                 \/ pc = "close" /\ (stop \/ failures > 0)]_vars
  BY <1>3, HeldByStep
<1> QED  BY <1>1, <1>2, <1>3, TypeCorrect, PTL DEF Spec, HeldUntilHeard

-----------------------------------------------------------------------------
(* The way in from Telegram.  Every update the poller is past has its row, *)
(* and the offset that is saved is never ahead of the poller: it is what a *)
(* restart goes back to.                                                   *)
PolledInv ==
    /\ offset <= poller.next
    /\ \A k \in 1 .. poller.next - 1 : \E i \in DOMAIN messages : messages[i].msg = phone[k]

(* All a step may do but poll: rows and updates stay, and so does the      *)
(* poller unless it goes back to the offset.                               *)
LEMMA PolledStays ==
    ASSUME TypeInv, PolledInv, RowsKept, UNCHANGED offset,
           poller' = poller \/ poller'.next = offset,
           \A k \in 1 .. Len(phone) : phone'[k] = phone[k]
    PROVE  PolledInv'
<1>1. /\ poller.next \in Nat /\ offset \in Nat /\ Len(phone) \in Nat
      /\ poller.next - 1 <= Len(phone)
  <2>1. PhoneOK
    BY DEF TypeInv
  <2>2. poller.next \in 1 .. Len(phone) + 1
    BY <2>1 DEF PhoneOK
  <2> QED  BY <2>1, <2>2, PhoneIds
<1>2. poller'.next \in Nat /\ poller'.next <= poller.next /\ offset' <= poller'.next
  BY <1>1 DEF PolledInv
<1>3. ASSUME NEW k \in 1 .. poller'.next - 1
      PROVE  \E i \in DOMAIN messages' : messages'[i].msg = phone'[k]
  <2>1. k \in 1 .. poller.next - 1 /\ k \in 1 .. Len(phone)
    BY <1>1, <1>2
  <2>2. PICK i \in DOMAIN messages : messages[i].msg = phone[k]
    BY <2>1 DEF PolledInv
  <2>3. phone'[k] = phone[k]
    BY <2>1
  <2> QED  BY <2>2, <2>3 DEF RowsKept
<1> QED  BY <1>2, <1>3 DEF PolledInv

LEMMA PolledStep == ASSUME TypeInv, PolledInv, [Next]_vars PROVE PolledInv'
<1>0. RowsKept /\ PhoneOK /\ RowsOK
  BY RowsStep DEF TypeInv
<1>a. /\ Len(phone) \in Nat /\ poller.next \in Nat /\ poller.upto \in Nat /\ offset \in Nat
  BY <1>0, PhoneIds
<1>1. CASE UNCHANGED <<offset, poller, phone>>
  BY <1>0, <1>1, PolledStays
<1>2. CASE UNCHANGED <<offset, phone>> /\ Memory
  BY <1>0, <1>2, PolledStays DEF Memory
<1>3. CASE Poll
  <2>1. poller'.next = poller.next /\ UNCHANGED <<offset, phone, messages>>
    BY <1>0, <1>3 DEF Poll, PhoneOK, store
  <2> QED  BY <2>1 DEF PolledInv
<1>4. CASE SaveOffset
  <2>1. offset' = poller.next /\ UNCHANGED <<poller, phone, messages>>
    BY <1>4 DEF SaveOffset
  <2> QED  BY <1>a, <2>1 DEF PolledInv
<1>5. CASE QueueText
  <2>1. /\ poller.next \in 1 .. Len(phone) /\ phone[poller.next] \in Founder
    <3>1. poller.next \in 1 .. Len(phone)
      BY <1>0, <1>5 DEF QueueText, PhoneOK
    <3> QED  BY <1>0, <3>1, PhoneIds DEF Founder
  <2>2. /\ poller'.next = poller.next + 1 /\ UNCHANGED <<offset, phone>>
        /\ messages' = Append(messages, Row(phone[poller.next]))
    BY <1>0, <1>5 DEF QueueText, PhoneOK
  <2>3. /\ Len(messages) + 1 \in DOMAIN messages'
        /\ messages'[Len(messages) + 1].msg = phone[poller.next]
    <3>1. Len(messages) \in Nat
      BY <1>0, LenProperties DEF RowsOK
    <3> QED  BY <1>0, <2>1, <2>2, <3>1, RowsAdded, RowIsMsg
  <2>4. ASSUME NEW k \in 1 .. poller'.next - 1
        PROVE  \E i \in DOMAIN messages' : messages'[i].msg = phone'[k]
    <3>1. CASE k = poller.next
      BY <2>2, <2>3, <3>1
    <3>2. CASE k # poller.next
      <4>1. k \in 1 .. poller.next - 1
        BY <1>a, <2>2, <3>2
      <4>2. PICK i \in DOMAIN messages : messages[i].msg = phone[k]
        BY <4>1 DEF PolledInv
      <4> QED  BY <1>0, <2>2, <4>2 DEF RowsKept
    <3> QED  BY <3>1, <3>2
  <2> QED  BY <1>a, <2>2, <2>4 DEF PolledInv
<1>6. ASSUME NEW x \in Texts, Text(x) PROVE PolledInv'
  <2>1. /\ \A k \in 1 .. Len(phone) : phone'[k] = phone[k]
        /\ UNCHANGED <<offset, poller>>
    BY <1>0, <1>6 DEF Text, PhoneOK, store
  <2> QED  BY <1>0, <2>1, PolledStays
<1>7. CASE Exit \/ Crash
  BY <1>2, <1>7 DEF Exit, Crash, store
<1>8. ASSUME NEW t \in Tells, Tell(t) PROVE PolledInv'
  BY <1>1, <1>8 DEF Tell
<1>9. ASSUME NEW a \in Alerts, Raise(a) PROVE PolledInv'
  BY <1>1, <1>9 DEF Raise
<1>10. ASSUME NEW beat \in BOOLEAN, Open(beat) PROVE PolledInv'
  BY <1>1, <1>10 DEF Open
<1>11. ASSUME NEW r \in Reports, DispatchTask(r) \/ Report(r) PROVE PolledInv'
  BY <1>1, <1>11 DEF DispatchTask, Report, store
<1>12. ASSUME NEW i \in DOMAIN messages, Ack(i) PROVE PolledInv'
  BY <1>1, <1>12 DEF Ack
<1>13. CASE Capped \/ Turn \/ Bank \/ Close \/ Stop
  BY <1>1, <1>13 DEF Capped, Turn, Bank, Close, Stop, store
<1>14. CASE Interrupt \/ Overtime \/ Answered \/ Failed \/ EndTurn \/ Cutoff \/ Boot
  BY <1>1, <1>14 DEF Interrupt, Overtime, Answered, Failed, EndTurn, Cutoff, Boot, store
<1>15. CASE UNCHANGED vars
  BY <1>1, <1>15 DEF vars, store
<1> QED
  BY <1>3, <1>4, <1>5, <1>6, <1>7, <1>8, <1>9, <1>10, <1>11, <1>12, <1>13, <1>14, <1>15
     DEF Next, Senders, Poller, Episode

(* Wherever restarts fall in a batch, no update the saved offset is past   *)
(* is without its row (telegram::serve).                                   *)
THEOREM TextsNotDroppedHolds == Spec => []TextsNotDropped
<1>1. Init => PolledInv
  BY DEF Init, PolledInv
<1>2. TypeInv /\ PolledInv => TextsNotDropped
  <2> SUFFICES ASSUME TypeInv, PolledInv, NEW k \in 1 .. offset - 1
               PROVE  \E i \in DOMAIN messages : messages[i].msg = phone[k]
    BY DEF TextsNotDropped
  <2>1. poller.next \in Nat /\ offset \in Nat
    BY PhoneIds DEF TypeInv
  <2>2. k \in 1 .. poller.next - 1
    BY <2>1 DEF PolledInv
  <2> QED  BY <2>2 DEF PolledInv
<1> QED  BY <1>1, <1>2, TypeCorrect, PolledStep, PTL DEF Spec

-----------------------------------------------------------------------------
(* In the first process the rows of texts are the updates the poller is    *)
(* past, each of which is different.                                       *)
QueuedOnceInv ==
    /\ \A k, l \in 1 .. Len(phone) : phone[k] = phone[l] => k = l
    /\ restarts = 0 /\ pc # "down" =>
          \A i \in DOMAIN messages : messages[i].msg \in Texts =>
              \E k \in 1 .. poller.next - 1 : messages[i].msg = phone[k]
    /\ TextsNotReplayed

LEMMA QueuedOnceStep == ASSUME TypeInv, QueuedOnceInv, [Next]_vars PROVE QueuedOnceInv'
<1>0. RowsKept /\ PhoneOK /\ RowsOK /\ CountsOK
  BY RowsStep DEF TypeInv
<1>a. /\ Len(phone) \in Nat /\ poller.next \in Nat /\ poller.upto \in Nat
      /\ poller.next - 1 <= Len(phone) /\ restarts \in Nat
  <2>1. poller.next \in 1 .. Len(phone) + 1 /\ restarts \in 0 .. MaxRestarts
    BY <1>0 DEF PhoneOK, CountsOK
  <2> QED  BY <1>0, <2>1, PhoneIds
<1> DEFINE SameWords ==
             /\ DOMAIN messages' = DOMAIN messages
             /\ \A i \in DOMAIN messages : messages'[i].msg = messages[i].msg
<1>1. CASE /\ SameWords /\ UNCHANGED <<phone, restarts>> /\ poller'.next = poller.next
           /\ pc' # "down" => pc # "down"
  BY <1>1 DEF QueuedOnceInv, TextsNotReplayed, QueuedOnce
<1>2. ASSUME UNCHANGED <<messages, phone, restarts>>, poller'.next = poller.next,
             pc' # "down" => pc # "down"
      PROVE  QueuedOnceInv'
  BY <1>1, <1>2
<1>3. CASE Exit \/ Crash
  <2>1. UNCHANGED <<messages, phone, restarts>> /\ pc' = "down"
    BY <1>3 DEF Exit, Crash, Memory, store, bounds
  <2> QED  BY <2>1 DEF QueuedOnceInv, TextsNotReplayed, QueuedOnce
<1>4. CASE Boot
  <2>1. restarts' # 0 /\ UNCHANGED phone
    BY <1>a, <1>4 DEF Boot
  <2> QED  BY <2>1 DEF QueuedOnceInv, TextsNotReplayed, QueuedOnce
<1>5. ASSUME NEW x \in Texts, Text(x) PROVE QueuedOnceInv'
  <2>1. /\ Len(phone') = Len(phone) + 1 /\ phone'[Len(phone) + 1] = x
        /\ \A k \in 1 .. Len(phone) : phone'[k] = phone[k]
    BY <1>0, <1>5 DEF Text, PhoneOK
  <2>2. \A k \in 1 .. Len(phone) : phone[k] # x
    BY <1>0, <1>5, PhoneIds DEF Text
  <2>3. ASSUME NEW k \in 1 .. Len(phone'), NEW l \in 1 .. Len(phone'), phone'[k] = phone'[l]
        PROVE  k = l
    <3>1. /\ k \in 1 .. Len(phone) \/ k = Len(phone) + 1
          /\ l \in 1 .. Len(phone) \/ l = Len(phone) + 1
      BY <1>a, <2>1
    <3> QED  BY <2>1, <2>2, <2>3, <3>1 DEF QueuedOnceInv
  <2>4. UNCHANGED <<messages, poller, restarts, pc>>
    BY <1>5 DEF Text, store, ceo, bounds
  <2>5. ASSUME restarts' = 0 /\ pc' # "down", NEW i \in DOMAIN messages',
               messages'[i].msg \in Texts
        PROVE  \E k \in 1 .. poller'.next - 1 : messages'[i].msg = phone'[k]
    <3>1. PICK k \in 1 .. poller.next - 1 : messages[i].msg = phone[k]
      BY <2>4, <2>5 DEF QueuedOnceInv
    <3>2. k \in 1 .. Len(phone)
      BY <1>a
    <3> QED  BY <2>1, <2>4, <3>1, <3>2
  <2> QED  BY <2>3, <2>4, <2>5 DEF QueuedOnceInv, TextsNotReplayed, QueuedOnce
<1>6. ASSUME NEW m \in Founder, messages' = Append(messages, Row(m)),
             UNCHANGED <<phone, restarts, pc>>,
             \/ m \in Tells /\ UNCHANGED poller
             \/ /\ pc # "down" /\ poller'.next = poller.next + 1
                /\ poller.next \in 1 .. Len(phone) /\ m = phone[poller.next]
      PROVE  QueuedOnceInv'
  <2>1. /\ DOMAIN messages = 1 .. Len(messages) /\ Len(messages) \in Nat
        /\ DOMAIN messages' = 1 .. Len(messages) + 1
        /\ \A i \in DOMAIN messages : messages'[i] = messages[i]
        /\ messages'[Len(messages) + 1].msg = m
    BY <1>0, <1>6, RowsAdded, RowIsMsg, LenProperties DEF RowsOK
  <2>2. m \in Texts => pc # "down" /\ m = phone[poller.next] /\ poller.next \in 1 .. Len(phone)
                       /\ poller'.next = poller.next + 1
    BY <1>6, InboxKinds DEF InboxKinds
  <2>3. ASSUME restarts = 0, m \in Texts, NEW i \in DOMAIN messages PROVE messages[i].msg # m
    <3> SUFFICES ASSUME messages[i].msg = m PROVE FALSE
      OBVIOUS
    <3>1. PICK k \in 1 .. poller.next - 1 : m = phone[k]
      BY <2>2, <2>3 DEF QueuedOnceInv
    <3>2. k \in 1 .. Len(phone) /\ k # poller.next
      BY <1>a
    <3> QED  BY <2>2, <2>3, <3>1, <3>2 DEF QueuedOnceInv
  <2>4. ASSUME restarts' = 0, NEW i \in DOMAIN messages', NEW j \in DOMAIN messages',
               messages'[i].msg \in Texts, messages'[i].msg = messages'[j].msg
        PROVE  i = j
    <3>1. /\ i \in DOMAIN messages \/ i = Len(messages) + 1
          /\ j \in DOMAIN messages \/ j = Len(messages) + 1
      BY <2>1
    <3>2. CASE i \in DOMAIN messages /\ j \in DOMAIN messages
      BY <1>6, <2>1, <2>4, <3>2 DEF QueuedOnceInv, TextsNotReplayed, QueuedOnce
    <3>3. CASE i \in DOMAIN messages /\ j = Len(messages) + 1
      BY <1>6, <2>1, <2>3, <2>4, <3>3
    <3>4. CASE j \in DOMAIN messages /\ i = Len(messages) + 1
      BY <1>6, <2>1, <2>3, <2>4, <3>4
    <3> QED  BY <3>1, <3>2, <3>3, <3>4
  <2>5. ASSUME restarts' = 0 /\ pc' # "down", NEW i \in DOMAIN messages',
               messages'[i].msg \in Texts
        PROVE  \E k \in 1 .. poller'.next - 1 : messages'[i].msg = phone'[k]
    <3>1. poller'.next \in Nat /\ poller'.next >= poller.next
      BY <1>6, <1>a
    <3>2. CASE i \in DOMAIN messages
      <4>1. PICK k \in 1 .. poller.next - 1 : messages[i].msg = phone[k]
        BY <1>6, <2>1, <2>5, <3>2 DEF QueuedOnceInv
      <4>2. k \in 1 .. poller'.next - 1
        BY <1>a, <3>1
      <4> QED  BY <1>6, <2>1, <3>2, <4>1, <4>2
    <3>3. CASE i = Len(messages) + 1
      <4>1. m \in Texts
        BY <2>1, <2>5, <3>3
      <4>2. poller.next \in 1 .. poller'.next - 1 /\ m = phone[poller.next]
        BY <1>a, <2>2, <4>1
      <4> QED  BY <1>6, <2>1, <3>3, <4>2
    <3> QED  BY <2>1, <3>2, <3>3
  <2> QED  BY <1>6, <2>4, <2>5 DEF QueuedOnceInv, TextsNotReplayed, QueuedOnce
<1>7. ASSUME NEW t \in Tells, Tell(t) PROVE QueuedOnceInv'
  <2>1. t \in Founder
    BY DEF Founder
  <2> QED  BY <1>6, <1>7, <2>1 DEF Tell, ceo, bounds
<1>8. CASE QueueText
  <2>1. poller.next \in 1 .. Len(phone)
    BY <1>0, <1>8 DEF QueueText, PhoneOK
  <2>2. phone[poller.next] \in Founder
    BY <1>0, <2>1, PhoneIds DEF Founder
  <2>3. poller'.next = poller.next + 1
    BY <1>0, <1>8 DEF QueueText, PhoneOK
  <2> QED  BY <1>6, <1>8, <2>1, <2>2, <2>3 DEF QueueText, Up, ceo, bounds
<1>9. CASE Turn
  <2>1. SameWords /\ UNCHANGED <<phone, restarts, poller>> /\ pc # "down"
    BY <1>0, <1>9, RowsDelivered DEF Turn, RowsKept, bounds
  <2> QED  BY <1>1, <2>1
<1>10. ASSUME NEW i \in DOMAIN messages, Ack(i) PROVE QueuedOnceInv'
  <2>1. SameWords /\ UNCHANGED <<phone, restarts, poller, pc>>
    BY <1>0, <1>10, RowAcked DEF Ack, RowsKept, ceo, bounds
  <2> QED  BY <1>1, <2>1
<1>11. CASE Poll
  <2>1. poller'.next = poller.next
    BY <1>0, <1>11 DEF Poll, PhoneOK
  <2> QED  BY <1>2, <1>11, <2>1 DEF Poll, store, ceo, bounds
<1>12. CASE SaveOffset
  BY <1>2, <1>12 DEF SaveOffset, ceo, bounds
<1>13. ASSUME NEW a \in Alerts, Raise(a) PROVE QueuedOnceInv'
  BY <1>2, <1>13 DEF Raise, ceo
<1>14. ASSUME NEW beat \in BOOLEAN, Open(beat) PROVE QueuedOnceInv'
  BY <1>2, <1>14 DEF Open
<1>15. ASSUME NEW r \in Reports, DispatchTask(r) \/ Report(r) PROVE QueuedOnceInv'
  BY <1>2, <1>15 DEF DispatchTask, Report, store, ceo, bounds
<1>16. CASE Capped \/ Bank \/ Close \/ Stop
  BY <1>2, <1>16 DEF Capped, Bank, Close, Stop, store, ceo, bounds
<1>17. CASE Interrupt \/ Overtime \/ Answered \/ Failed \/ EndTurn \/ Cutoff
  BY <1>2, <1>17 DEF Interrupt, Overtime, Answered, Failed, EndTurn, Cutoff, store, bounds
<1>18. CASE UNCHANGED vars
  BY <1>2, <1>18 DEF vars, store, ceo, bounds
<1> QED
  BY <1>3, <1>4, <1>5, <1>7, <1>8, <1>9, <1>10, <1>11, <1>12, <1>13, <1>14, <1>15, <1>16,
     <1>17, <1>18
     DEF Next, Senders, Poller, Episode

(* A text of the founder is queued once for as long as no restart falls    *)
(* into its batch (telegram::serve).                                       *)
THEOREM TextsNotReplayedHolds == Spec => []TextsNotReplayed
<1>1. Init => QueuedOnceInv
  <2> SUFFICES ASSUME Init PROVE QueuedOnceInv
    OBVIOUS
  <2>1. messages = <<>> /\ phone = <<>> /\ Len(phone) = 0 /\ DOMAIN messages = {}
    BY DEF Init
  <2> QED  BY <2>1 DEF QueuedOnceInv, TextsNotReplayed, QueuedOnce
<1>2. QueuedOnceInv => TextsNotReplayed
  BY DEF QueuedOnceInv
<1> QED  BY <1>1, <1>2, TypeCorrect, QueuedOnceStep, PTL DEF Spec
=============================================================================
