------------------------------ MODULE RecordsProofs ------------------------------
(***************************************************************************)
(* What module Office promises about the texts the company keeps, for any  *)
(* number of agents, texts, turns and calls: custom tools, the chat with   *)
(* the founder, prompts and skills, and the transcripts.                   *)
(***************************************************************************)
EXTENDS LedgerProofs, SequenceTheorems

(* Custom tools.  What a call has read is what was newest when it began,   *)
(* and the file holds it once it is written, unless another call of the    *)
(* tool is told to be beside this one.                                     *)
Call == [pc: {"idle", "read", "written", "ran"}, read: Nat, due: Nat,
         overlap: BOOLEAN, ran: Nat]

UnderWay(c) == run[c].pc \in {"read", "written"}

Apart(c) ==
  /\ UnderWay(c) => run[c].read = run[c].due
  /\ run[c].pc = "written" => run[c].overlap \/ file = run[c].due
  /\ \A d \in Callers : UnderWay(c) /\ UnderWay(d) /\ d # c => run[c].overlap
  /\ run[c].pc = "ran" => run[c].overlap \/ run[c].ran = run[c].due

ApartInv ==
  /\ run \in [Callers -> Call]
  /\ script \in Seq(Nat) /\ saves \in Nat /\ file \in Nat
  /\ \A c \in Callers : Apart(c)

LEMMA IdleIsCall == Scripts!Idle \in Call /\ Scripts!Idle.pc = "idle"
  BY DEF Scripts!Idle, Call

LEMMA ApartInit == Scripts!Init => ApartInv
<1> SUFFICES ASSUME Scripts!Init PROVE ApartInv
  OBVIOUS
<1>1. \A c \in Callers : Apart(c)
  BY IdleIsCall DEF Scripts!Init, Apart, UnderWay
<1> QED  BY <1>1, IdleIsCall DEF Scripts!Init, ApartInv

(* A call that begins tells the calls under way, and is told of them.      *)
LEMMA ReadKeeps == ASSUME ApartInv, NEW c \in Callers, Scripts!ReadScript(c) PROVE ApartInv'
<1> DEFINE mine == [pc |-> "read", read |-> Scripts!Last(script), due |-> Scripts!Last(script),
                    overlap |-> Scripts!Running # {}, ran |-> 0]
<1>1. Scripts!Last(script) \in Nat
  BY DEF Scripts!ReadScript, ApartInv, Scripts!Last
<1>2. run[c].pc = "idle" /\ UNCHANGED <<script, saves, file>>
  BY DEF Scripts!ReadScript
<1>3. run' = [d \in Callers |-> IF d = c THEN mine
                                ELSE [run[d] EXCEPT !.overlap = @ \/ d \in Scripts!Running]]
  BY DEF Scripts!ReadScript
<1>4. mine \in Call /\ mine.pc = "read" /\ mine.read = mine.due /\ mine.overlap = (Scripts!Running # {})
  BY <1>1 DEF Call
<1>5. run'[c] = mine
  BY <1>3
<1> HIDE DEF mine
<1>6. ASSUME NEW d \in Callers, d # c
      PROVE  /\ run'[d] \in Call
             /\ run'[d].pc = run[d].pc /\ run'[d].read = run[d].read
             /\ run'[d].due = run[d].due /\ run'[d].ran = run[d].ran
             /\ run'[d].overlap = (run[d].overlap \/ d \in Scripts!Running)
  <2>1. run[d] \in Call
    BY DEF ApartInv
  <2>2. run'[d] = [run[d] EXCEPT !.overlap = @ \/ d \in Scripts!Running]
    BY <1>3, <1>6
  <2> QED  BY <2>1, <2>2 DEF Call
<1>7. run' \in [Callers -> Call]
  <2>1. \A d \in Callers : run'[d] \in Call
    BY <1>4, <1>5, <1>6
  <2> QED  BY <1>3, <2>1
<1>8. Apart(c)'
  BY <1>4, <1>5, <1>6 DEF Apart, UnderWay, Scripts!Running
<1>9. ASSUME NEW d \in Callers, d # c PROVE Apart(d)'
  <2>1. Apart(d)
    BY DEF ApartInv
  <2>2. UnderWay(d)' => d \in Scripts!Running /\ run'[d].overlap
    BY <1>6, <1>9 DEF UnderWay, Scripts!Running
  <2> QED  BY <1>2, <1>6, <1>9, <2>1, <2>2 DEF Apart, UnderWay
<1> QED  BY <1>2, <1>7, <1>8, <1>9 DEF ApartInv

(* A call that writes the file changes it under those that know of it.     *)
LEMMA WriteKeeps == ASSUME ApartInv, NEW c \in Callers, Scripts!WriteScript(c) PROVE ApartInv'
<1>1. /\ run[c].pc = "read" /\ file' = run[c].read /\ UNCHANGED <<script, saves>>
      /\ run' = [run EXCEPT ![c].pc = "written"] /\ run[c] \in Call
  BY DEF Scripts!WriteScript, ApartInv
<1>2. /\ run'[c] \in Call /\ run'[c].pc = "written" /\ run'[c].read = run[c].read
      /\ run'[c].due = run[c].due /\ run'[c].overlap = run[c].overlap
      /\ \A d \in Callers : d # c => run'[d] = run[d]
  BY <1>1 DEF ApartInv, Call
<1>3. run' \in [Callers -> Call] /\ file' \in Nat
  BY <1>1 DEF ApartInv, Call
<1>4. ASSUME NEW d \in Callers PROVE Apart(d)'
  <2>1. Apart(d) /\ Apart(c)
    BY DEF ApartInv
  <2>2. CASE d = c
    BY <1>1, <1>2, <2>1, <2>2 DEF Apart, UnderWay
  <2>3. CASE d # c
    BY <1>1, <1>2, <2>1, <2>3 DEF Apart, UnderWay
  <2> QED  BY <2>2, <2>3
<1> QED  BY <1>1, <1>3, <1>4 DEF ApartInv

LEMMA RunKeeps == ASSUME ApartInv, NEW c \in Callers, Scripts!RunScript(c) PROVE ApartInv'
<1>1. /\ run[c].pc = "written" /\ UNCHANGED <<script, saves, file>>
      /\ run' = [run EXCEPT ![c] = [@ EXCEPT !.pc = "ran", !.ran = file]] /\ run[c] \in Call
  BY DEF Scripts!RunScript, ApartInv
<1>2. /\ run'[c] \in Call /\ run'[c].pc = "ran" /\ run'[c].ran = file
      /\ run'[c].due = run[c].due /\ run'[c].overlap = run[c].overlap
      /\ \A d \in Callers : d # c => run'[d] = run[d]
  BY <1>1 DEF ApartInv, Call
<1>3. run' \in [Callers -> Call]
  BY <1>1, <1>2 DEF ApartInv
<1>4. ASSUME NEW d \in Callers PROVE Apart(d)'
  <2>1. Apart(d) /\ Apart(c)
    BY DEF ApartInv
  <2>2. CASE d = c
    BY <1>1, <1>2, <2>1, <2>2 DEF Apart, UnderWay
  <2>3. CASE d # c
    BY <1>1, <1>2, <2>1, <2>3 DEF Apart, UnderWay
  <2> QED  BY <2>2, <2>3
<1> QED  BY <1>1, <1>3, <1>4 DEF ApartInv

(* Calls that end, by themselves or with the process.                      *)
LEMMA EndKeeps ==
  ASSUME ApartInv, UNCHANGED <<script, saves, file>>, run' \in [Callers -> Call],
         \A c \in Callers : run'[c] = run[c] \/ run'[c] = Scripts!Idle
  PROVE  ApartInv'
<1>1. ASSUME NEW c \in Callers PROVE Apart(c)'
  BY IdleIsCall DEF Apart, UnderWay, ApartInv
<1> QED  BY <1>1 DEF ApartInv

(* The versions of the tool change: no call under way looks at them again. *)
LEMMA VersionsKeep == ASSUME ApartInv, Scripts!CreateTool \/ Scripts!RollbackTool PROVE ApartInv'
<1>1. UNCHANGED <<file, run>> /\ \A c \in Callers : Apart(c)'
  BY DEF Scripts!CreateTool, Scripts!RollbackTool, Apart, UnderWay, ApartInv
<1>2. CASE Scripts!CreateTool
  BY <1>1, <1>2 DEF Scripts!CreateTool, ApartInv
<1>3. CASE Scripts!RollbackTool
  <2>1. script' \in Seq(Nat)
    BY <1>3 DEF Scripts!RollbackTool, ApartInv, Scripts!Front
  <2> QED  BY <1>1, <1>3, <2>1 DEF Scripts!RollbackTool, ApartInv
<1> QED  BY <1>2, <1>3

LEMMA ApartStep == ASSUME ApartInv, [Scripts!Next]_(Scripts!scriptVars) PROVE ApartInv'
<1>1. ASSUME NEW c \in Callers, Scripts!ReadScript(c) PROVE ApartInv'
  BY <1>1, ReadKeeps
<1>2. ASSUME NEW c \in Callers, Scripts!WriteScript(c) PROVE ApartInv'
  BY <1>2, WriteKeeps
<1>3. ASSUME NEW c \in Callers, Scripts!RunScript(c) PROVE ApartInv'
  BY <1>3, RunKeeps
<1>4. ASSUME NEW c \in Callers, Scripts!Return(c) PROVE ApartInv'
  BY <1>4, EndKeeps, IdleIsCall DEF Scripts!Return, ApartInv
<1>5. CASE Scripts!Restart
  BY <1>5, EndKeeps, IdleIsCall DEF Scripts!Restart
<1>6. CASE Scripts!CreateTool \/ Scripts!RollbackTool
  BY <1>6, VersionsKeep
<1>7. CASE UNCHANGED Scripts!scriptVars
  BY <1>7, EndKeeps DEF Scripts!scriptVars, ApartInv
<1> QED  BY <1>1, <1>2, <1>3, <1>4, <1>5, <1>6, <1>7 DEF Scripts!Next

(* A call of a custom tool never runs a stale script by itself: only       *)
(* another call of the same tool, at the same time, can put one in its     *)
(* place (custom::run, run_inner).                                         *)
THEOREM StaleOnlyByOverlapHolds == Spec => []StaleOnlyByOverlap
<1>1. ApartInv => StaleOnlyByOverlap
  BY DEF ApartInv, Apart, StaleOnlyByOverlap, Scripts!StaleOnlyByOverlap
<1> QED  BY <1>1, ApartInit, ApartStep, Parts, PTL DEF Scripts!Spec

(* Every script in the registry, in the file and in a call was saved.      *)
Numbered ==
  /\ script \in Seq(1 .. saves) /\ saves \in 0 .. MaxSaves /\ file \in 0 .. saves
  /\ \A c \in Callers : {run[c].read, run[c].due, run[c].ran} \subseteq 0 .. saves

LEMMA NumberedStays == ASSUME ApartInv, Numbered, [Scripts!Next]_(Scripts!scriptVars) PROVE Numbered'
<1>1. ASSUME NEW c \in Callers, Scripts!ReadScript(c) PROVE Numbered'
  <2>1. Scripts!Last(script) \in 0 .. saves
    BY <1>1 DEF Scripts!ReadScript, Scripts!Last, Numbered
  <2>2. UNCHANGED <<script, saves, file>>
    BY <1>1 DEF Scripts!ReadScript
  <2>3. 0 \in 0 .. saves
    BY DEF Numbered
  <2>4. ASSUME NEW e \in Callers
        PROVE  \/ run'[e].read = run[e].read /\ run'[e].due = run[e].due /\ run'[e].ran = run[e].ran
               \/ /\ run'[e].read = Scripts!Last(script) /\ run'[e].due = Scripts!Last(script)
                  /\ run'[e].ran = 0
    <3>1. run[e] \in Call
      BY DEF ApartInv
    <3> QED  BY <1>1, <3>1 DEF Scripts!ReadScript, Call
  <2> QED  BY <2>1, <2>2, <2>3, <2>4 DEF Numbered
<1>2. ASSUME NEW c \in Callers, Scripts!WriteScript(c) \/ Scripts!RunScript(c) PROVE Numbered'
  <2>1. run[c] \in Call /\ run \in [Callers -> Call]
    BY DEF ApartInv
  <2>2. UNCHANGED <<script, saves>> /\ file' \in {file, run[c].read}
    BY <1>2 DEF Scripts!WriteScript, Scripts!RunScript
  <2>3. ASSUME NEW e \in Callers
        PROVE  /\ run'[e].read = run[e].read /\ run'[e].due = run[e].due
               /\ run'[e].ran \in {run[e].ran, file}
    <3>1. run[e] \in Call
      BY DEF ApartInv
    <3>2. CASE Scripts!WriteScript(c)
      <4>1. run' = [run EXCEPT ![c].pc = "written"]
        BY <3>2 DEF Scripts!WriteScript
      <4> QED  BY <2>1, <3>1, <4>1 DEF Call
    <3>3. CASE Scripts!RunScript(c)
      <4>1. run' = [run EXCEPT ![c] = [@ EXCEPT !.pc = "ran", !.ran = file]]
        BY <3>3 DEF Scripts!RunScript
      <4> QED  BY <2>1, <3>1, <4>1 DEF Call
    <3> QED  BY <1>2, <3>2, <3>3
  <2> QED  BY <2>2, <2>3 DEF Numbered
<1>3. ASSUME UNCHANGED <<script, saves, file>>,
             \A c \in Callers : run'[c] = run[c] \/ run'[c] = Scripts!Idle
      PROVE  Numbered'
  <2>1. Scripts!Idle.read = 0 /\ Scripts!Idle.due = 0 /\ Scripts!Idle.ran = 0
    BY DEF Scripts!Idle
  <2>2. 0 \in 0 .. saves
    BY DEF Numbered
  <2> QED  BY <1>3, <2>1, <2>2 DEF Numbered
<1>4. ASSUME NEW c \in Callers, Scripts!Return(c) PROVE Numbered'
  BY <1>3, <1>4 DEF Scripts!Return, ApartInv
<1>5. CASE Scripts!Restart
  BY <1>3, <1>5 DEF Scripts!Restart
<1>6. CASE Scripts!CreateTool
  <2>1. /\ saves' = saves + 1 /\ saves < MaxSaves /\ script' = Append(script, saves + 1)
        /\ UNCHANGED <<file, run>> /\ saves \in Nat
    BY <1>6 DEF Scripts!CreateTool, Numbered
  <2>2. 0 .. saves \subseteq 0 .. saves' /\ 1 .. saves \subseteq 1 .. saves' /\ saves + 1 \in 1 .. saves'
    BY <2>1
  <2>3. script \in Seq(1 .. saves')
    BY <2>2, SeqMonotonic DEF Numbered
  <2>4. script' \in Seq(1 .. saves')
    BY <2>1, <2>2, <2>3, AppendProperties
  <2>5. saves' \in 0 .. MaxSaves
    <3>1. MaxSaves \in Nat
      BY OfficeAssumption DEF OfficeAssumption, Scripts!ScriptsAssumption
    <3> QED  BY <2>1, <3>1
  <2>6. file' \in 0 .. saves'
    BY <2>1, <2>2 DEF Numbered
  <2>7. \A c \in Callers : {run'[c].read, run'[c].due, run'[c].ran} \subseteq 0 .. saves'
    BY <2>1, <2>2 DEF Numbered
  <2> QED  BY <2>4, <2>5, <2>6, <2>7 DEF Numbered
<1>7. CASE Scripts!RollbackTool
  <2> DEFINE Saved == 1 .. saves
  <2>1. script' \in Seq(Saved)
    <3>1. script \in Seq(Saved)
      BY DEF Numbered
    <3> HIDE DEF Saved
    <3> QED  BY <1>7, <3>1 DEF Scripts!RollbackTool, Scripts!Front
  <2> QED  BY <1>7, <2>1 DEF Scripts!RollbackTool, Numbered
<1>8. CASE UNCHANGED Scripts!scriptVars
  BY <1>3, <1>8 DEF Scripts!scriptVars
<1> QED  BY <1>1, <1>2, <1>4, <1>5, <1>6, <1>7, <1>8 DEF Scripts!Next

LEMMA ScriptTypes == Spec => []Scripts!TypeOK
<1>1. Scripts!Init => Numbered
  <2> SUFFICES ASSUME Scripts!Init PROVE Numbered
    OBVIOUS
  <2>1. MaxSaves \in Nat
    BY OfficeAssumption DEF OfficeAssumption, Scripts!ScriptsAssumption
  <2>2. /\ script = <<>> /\ saves = 0 /\ file = 0
        /\ \A c \in Callers : run[c].read = 0 /\ run[c].due = 0 /\ run[c].ran = 0
    BY DEF Scripts!Init, Scripts!Idle
  <2> QED  BY <2>1, <2>2 DEF Numbered
<1>2. ApartInv /\ Numbered => Scripts!TypeOK
  <2> SUFFICES ASSUME ApartInv, Numbered PROVE Scripts!TypeOK
    OBVIOUS
  <2>1. \A c \in Callers : run[c].pc \in {"idle", "read", "written", "ran"}
    BY DEF ApartInv, Call
  <2> QED  BY <2>1 DEF Numbered, Scripts!TypeOK
<1> QED  BY <1>1, <1>2, ApartInit, ApartStep, NumberedStays, Parts, PTL DEF Scripts!Spec

-----------------------------------------------------------------------------
(* The chat with the founder.  What is being folded is the oldest part of  *)
(* the chat, and the brief covers it before it is deleted.                 *)
Fold == [pc: {"idle", "asked", "saved"}, old: SUBSET Nat, prior: SUBSET Nat]

FoldInv ==
    /\ exchanged \in Nat /\ chat \subseteq 1 .. exchanged
    /\ summary \subseteq Nat /\ fold \in Fold
    /\ \A i \in 1 .. exchanged : i \in chat \/ i \in summary
    /\ \A i \in 1 .. exchanged : i + ChatKeep > exchanged => i \in chat
    /\ fold.pc # "idle" =>
          /\ \A j \in fold.old : j \in chat /\ j + ChatKeep <= exchanged
          /\ \A i \in chat, j \in fold.old : i <= j => i \in fold.old
    /\ fold.pc = "asked" => summary = fold.prior
    /\ fold.pc = "saved" => fold.old \subseteq summary

LEMMA RowCount == \A s : Chat!Cardinality(s) = Cardinality(s)
  BY DEF Chat!Cardinality, Cardinality

(* The rows past the newest ChatKeep: there are that many behind each of   *)
(* them, and every older row is one of them.                               *)
LEMMA OldRows ==
  ASSUME ChatKeep \in Nat, exchanged \in Nat, chat \subseteq 1 .. exchanged
  PROVE  /\ Chat!Old \subseteq chat
         /\ \A j \in Chat!Old : j + ChatKeep <= exchanged
         /\ \A i \in chat, j \in Chat!Old : i <= j => i \in Chat!Old
<1> DEFINE Younger(i) == {j \in chat : j > i}
<1>0. \A k \in chat : k \in Nat /\ k \in 1 .. exchanged /\ k <= exchanged
  <2>1. ASSUME NEW k \in chat PROVE k \in 1 .. exchanged
    OBVIOUS
  <2> QED  BY <2>1
<1>1. ASSUME NEW i \in chat
      PROVE  /\ IsFiniteSet(Younger(i)) /\ Cardinality(Younger(i)) \in Nat
             /\ Cardinality(Younger(i)) <= exchanged - i
  <2>1. i \in 1 .. exchanged
    BY <1>0
  <2>2. /\ IsFiniteSet((i + 1) .. exchanged)
        /\ Cardinality((i + 1) .. exchanged) = exchanged - i
    BY <2>1, FS_Interval
  <2>3. Younger(i) \subseteq (i + 1) .. exchanged
    <3>1. ASSUME NEW k \in Younger(i) PROVE k \in (i + 1) .. exchanged
      <4>1. k \in chat /\ k > i
        BY <3>1
      <4> QED  BY <1>0, <2>1, <4>1
    <3> QED  BY <3>1
  <2>4. /\ IsFiniteSet(Younger(i))
        /\ Cardinality(Younger(i)) <= Cardinality((i + 1) .. exchanged)
    BY <2>2, <2>3, FS_Subset
  <2> QED  BY <2>2, <2>4, FS_CardinalityType
<1>2. ASSUME NEW j \in Chat!Old PROVE j \in chat /\ j + ChatKeep <= exchanged
  <2>1. j \in chat /\ Cardinality(Younger(j)) >= ChatKeep
    BY RowCount DEF Chat!Old
  <2> HIDE DEF Younger
  <2>2. Cardinality(Younger(j)) \in Nat /\ Cardinality(Younger(j)) <= exchanged - j
    BY <1>1, <2>1
  <2>3. j \in Nat
    BY <1>0, <2>1
  <2> QED  BY <2>1, <2>2, <2>3
<1>3. ASSUME NEW i \in chat, NEW j \in Chat!Old, i <= j PROVE i \in Chat!Old
  <2>1. j \in chat /\ Cardinality(Younger(j)) >= ChatKeep
    BY RowCount DEF Chat!Old
  <2>2. Younger(j) \subseteq Younger(i)
    <3>1. ASSUME NEW k \in Younger(j) PROVE k \in Younger(i)
      <4>1. k \in chat /\ k > j
        BY <3>1
      <4>2. k > i
        BY <1>0, <1>3, <2>1, <4>1
      <4> QED  BY <4>1, <4>2
    <3> QED  BY <3>1
  <2>3. /\ IsFiniteSet(Younger(i)) /\ Cardinality(Younger(i)) \in Nat
        /\ Cardinality(Younger(j)) \in Nat
    BY <1>1, <2>1
  <2>4. Cardinality(Younger(j)) <= Cardinality(Younger(i))
    BY <2>2, <2>3, FS_Subset
  <2>5. Cardinality(Younger(i)) >= ChatKeep
    BY <2>1, <2>3, <2>4
  <2> QED  BY <2>5, RowCount DEF Chat!Old
<1> QED  BY <1>2, <1>3

LEMMA ChatIds == ASSUME FoldInv PROVE \A k \in chat : k \in Nat /\ k <= exchanged
<1> SUFFICES ASSUME NEW k \in chat PROVE k \in Nat /\ k <= exchanged
  OBVIOUS
<1>1. chat \subseteq 1 .. exchanged /\ exchanged \in Nat
  BY DEF FoldInv
<1>2. k \in 1 .. exchanged
  BY <1>1
<1> QED  BY <1>1, <1>2

(* A new row is the newest, whatever is being folded.                      *)
LEMMA AddRowKeeps ==
  ASSUME ChatKeep \in Nat, FoldInv, Chat!AddRow, UNCHANGED <<summary, fold>> PROVE FoldInv'
<1>1. /\ exchanged' = exchanged + 1 /\ chat' = chat \cup {exchanged + 1}
      /\ exchanged \in Nat /\ chat \subseteq 1 .. exchanged
      /\ summary' = summary /\ fold' = fold
  BY DEF Chat!AddRow, FoldInv
<1>2. exchanged' \in Nat /\ chat' \subseteq 1 .. exchanged'
  BY <1>1
<1>3. ASSUME NEW i \in 1 .. exchanged'
      PROVE  (i \in chat' \/ i \in summary') /\ (i + ChatKeep > exchanged' => i \in chat')
  <2>1. i \in 1 .. exchanged \/ i = exchanged + 1
    BY <1>1
  <2> QED  BY <1>1, <2>1 DEF FoldInv
<1>4. ASSUME fold.pc # "idle"
      PROVE  /\ \A j \in fold.old : j \in chat' /\ j + ChatKeep <= exchanged'
             /\ \A i \in chat', j \in fold.old : i <= j => i \in fold.old
  <2>1. ASSUME NEW j \in fold.old PROVE j \in chat /\ j \in Nat /\ j + ChatKeep <= exchanged
    <3>1. j \in chat /\ j + ChatKeep <= exchanged
      BY <1>4 DEF FoldInv
    <3> QED  BY <3>1, ChatIds
  <2>2. ASSUME NEW i \in chat', NEW j \in fold.old, i <= j PROVE i \in fold.old
    <3>1. j <= exchanged
      BY <1>1, <2>1
    <3>2. i \in chat
      BY <1>1, <2>1, <2>2, <3>1
    <3> QED  BY <1>4, <2>2, <3>2 DEF FoldInv
  <2> QED  BY <1>1, <2>1, <2>2
<1> QED  BY <1>1, <1>2, <1>3, <1>4 DEF FoldInv

LEMMA StartFoldKeeps == ASSUME ChatKeep \in Nat, FoldInv, Chat!StartFold PROVE FoldInv'
<1>1. /\ fold' = [pc |-> "asked", old |-> Chat!Old, prior |-> summary]
      /\ UNCHANGED <<chat, summary, exchanged>>
  BY DEF Chat!StartFold
<1>2. /\ Chat!Old \subseteq chat
      /\ \A j \in Chat!Old : j + ChatKeep <= exchanged
      /\ \A i \in chat, j \in Chat!Old : i <= j => i \in Chat!Old
  BY OldRows DEF FoldInv
<1>3. fold' \in Fold
  <2>1. Chat!Old \subseteq Nat /\ summary \subseteq Nat
    BY <1>2, ChatIds DEF FoldInv
  <2> QED  BY <1>1, <2>1 DEF Fold
<1> QED  BY <1>1, <1>2, <1>3 DEF FoldInv

(* The brief is what the fold found, with what it folded: nothing falls    *)
(* out of it.                                                              *)
LEMMA SaveBriefKeeps == ASSUME FoldInv, Chat!SaveBrief PROVE FoldInv'
<1>1. /\ fold.pc = "asked" /\ summary' = summary \cup fold.old
      /\ fold' = [fold EXCEPT !.pc = "saved"] /\ UNCHANGED <<chat, exchanged>>
  BY DEF Chat!SaveBrief, FoldInv
<1>2. /\ fold' \in Fold /\ fold'.pc = "saved" /\ fold'.old = fold.old
  BY <1>1 DEF FoldInv, Fold
<1> QED  BY <1>1, <1>2 DEF FoldInv

LEMMA DeleteKeeps == ASSUME ChatKeep \in Nat, FoldInv, Chat!DeleteOld PROVE FoldInv'
<1>1. /\ fold.pc = "saved" /\ fold' = Chat!Unfolding /\ UNCHANGED <<summary, exchanged>>
      /\ chat' = {i \in chat : \A j \in fold.old : i > j}
  BY DEF Chat!DeleteOld
<1>2. fold' \in Fold /\ fold'.pc = "idle"
  BY <1>1 DEF Chat!Unfolding, Fold
<1>3. ASSUME NEW i \in chat, i \notin chat'
      PROVE  i \in fold.old
  <2>1. PICK j \in fold.old : ~(i > j)
    BY <1>1, <1>3
  <2>2. j \in Nat /\ i \in Nat
    <3>1. j \in chat
      BY <1>1 DEF FoldInv
    <3> QED  BY <3>1, ChatIds
  <2> QED  BY <1>1, <2>1, <2>2 DEF FoldInv
<1>4. ASSUME NEW i \in 1 .. exchanged
      PROVE  (i \in chat' \/ i \in summary) /\ (i + ChatKeep > exchanged => i \in chat')
  <2>1. CASE i \in fold.old
    <3>1. i + ChatKeep <= exchanged /\ i \in summary
      BY <1>1, <2>1 DEF FoldInv
    <3>2. exchanged \in Nat
      BY DEF FoldInv
    <3> QED  BY <3>1, <3>2
  <2>2. CASE i \notin fold.old
    BY <1>3, <2>2 DEF FoldInv
  <2> QED  BY <2>1, <2>2
<1> QED  BY <1>1, <1>2, <1>4 DEF FoldInv

LEMMA FoldStep == ASSUME ChatKeep \in Nat, FoldInv, [Chat!Next]_(Chat!chatVars) PROVE FoldInv'
<1>1. CASE Chat!FounderWrites \/ Chat!CeoWrites
  BY <1>1, AddRowKeeps DEF Chat!FounderWrites, Chat!CeoWrites
<1>2. CASE Chat!StartFold
  BY <1>2, StartFoldKeeps
<1>3. CASE Chat!FoldFails \/ Chat!Crash
  <2>1. fold' = Chat!Unfolding /\ UNCHANGED <<chat, summary, exchanged>>
    BY <1>3 DEF Chat!FoldFails, Chat!Crash
  <2>2. fold' \in Fold /\ fold'.pc = "idle"
    BY <2>1 DEF Chat!Unfolding, Fold
  <2> QED  BY <2>1, <2>2 DEF FoldInv
<1>4. CASE Chat!SaveBrief
  BY <1>4, SaveBriefKeeps
<1>5. CASE Chat!DeleteOld
  BY <1>5, DeleteKeeps
<1>6. CASE UNCHANGED Chat!chatVars
  BY <1>6 DEF Chat!chatVars, FoldInv
<1> QED  BY <1>1, <1>2, <1>3, <1>4, <1>5, <1>6 DEF Chat!Next

(* Whatever the founder writes while the chat is being folded, and         *)
(* wherever a crash cuts the fold, every exchange stands or is covered by  *)
(* the brief, and the newest stand word by word (compact_telegram).        *)
LEMMA ChatKeptHolds == Spec => []Chat!ChatKept /\ []FoldInv
<1>1. ChatKeep \in Nat
  BY OfficeAssumption DEF OfficeAssumption, Chat!ChatAssumption
<1>2. Chat!Init => FoldInv
  BY DEF Chat!Init, FoldInv, Fold, Chat!Unfolding
<1>3. FoldInv /\ [Chat!Next]_(Chat!chatVars) => FoldInv'
  BY <1>1, FoldStep
<1>4. FoldInv => Chat!ChatKept
  BY DEF FoldInv, Chat!ChatKept
<1> QED  BY <1>2, <1>3, <1>4, Parts, PTL DEF Chat!Spec

Dated ==
  /\ exchanged \in 0 .. MaxExchanges
  /\ summary \subseteq 1 .. exchanged
  /\ fold.old \subseteq 1 .. exchanged /\ fold.prior \subseteq 1 .. exchanged

LEMMA DatedStays == ASSUME FoldInv, Dated, [Chat!Next]_(Chat!chatVars) PROVE Dated'
<1>1. Chat!Unfolding.old = {} /\ Chat!Unfolding.prior = {}
  BY DEF Chat!Unfolding
<1>2. CASE Chat!FounderWrites \/ Chat!CeoWrites
  <2>1. /\ exchanged' = exchanged + 1 /\ exchanged < MaxExchanges /\ UNCHANGED <<summary, fold>>
        /\ exchanged \in Nat
    BY <1>2 DEF Chat!FounderWrites, Chat!CeoWrites, Chat!AddRow, FoldInv
  <2>2. 1 .. exchanged \subseteq 1 .. exchanged' /\ exchanged' \in 0 .. MaxExchanges
    <3>1. MaxExchanges \in Nat
      BY OfficeAssumption DEF OfficeAssumption, Chat!ChatAssumption
    <3> QED  BY <2>1, <3>1
  <2> QED  BY <2>1, <2>2 DEF Dated
<1>3. CASE Chat!StartFold
  <2>1. /\ fold'.old = Chat!Old /\ fold'.prior = summary /\ UNCHANGED <<summary, exchanged>>
    BY <1>3 DEF Chat!StartFold
  <2>2. Chat!Old \subseteq 1 .. exchanged
    BY DEF Chat!Old, FoldInv
  <2> QED  BY <2>1, <2>2 DEF Dated
<1>4. CASE Chat!SaveBrief
  <2>1. /\ summary' = fold.prior \cup fold.old /\ UNCHANGED exchanged
        /\ fold'.old = fold.old /\ fold'.prior = fold.prior
    BY <1>4 DEF Chat!SaveBrief, FoldInv, Fold
  <2> QED  BY <2>1 DEF Dated
<1>5. CASE fold' = Chat!Unfolding /\ UNCHANGED <<summary, exchanged>>
  BY <1>1, <1>5 DEF Dated
<1>6. CASE UNCHANGED Chat!chatVars
  BY <1>6 DEF Chat!chatVars, Dated
<1> QED  BY <1>2, <1>3, <1>4, <1>5, <1>6 DEF Chat!Next, Chat!FoldFails, Chat!DeleteOld, Chat!Crash

LEMMA ChatTypes == Spec => []Chat!TypeOK
<1>1. Chat!Init => Dated
  <2> SUFFICES ASSUME Chat!Init PROVE Dated
    OBVIOUS
  <2>1. MaxExchanges \in Nat
    BY OfficeAssumption DEF OfficeAssumption, Chat!ChatAssumption
  <2>2. exchanged = 0 /\ summary = {} /\ fold.old = {} /\ fold.prior = {}
    BY DEF Chat!Init, Chat!Unfolding
  <2> QED  BY <2>1, <2>2 DEF Dated
<1>2. FoldInv /\ Dated => Chat!TypeOK
  <2> SUFFICES ASSUME FoldInv, Dated PROVE Chat!TypeOK
    OBVIOUS
  <2>1. fold.pc \in {"idle", "asked", "saved"}
    BY DEF FoldInv, Fold
  <2> QED  BY <2>1 DEF FoldInv, Dated, Chat!TypeOK
<1> QED  BY <1>1, <1>2, ChatKeptHolds, DatedStays, Parts, PTL DEF Chat!Spec

-----------------------------------------------------------------------------
(* A set of numbers has a least, and one that is bounded a greatest.       *)
LEMMA Least ==
  ASSUME NEW T, T \subseteq Nat, T # {}
  PROVE  \E x \in T : \A y \in T : x <= y
<1>1. IsWellFoundedOn(OpToRel(<, Nat), Nat)
  BY NatLessThanWellFounded
<1>2. PICK x \in T : \A y \in T : ~(<<y, x>> \in OpToRel(<, Nat))
  BY <1>1, WFMin
<1>3. \A y \in T : ~(y < x)
  BY <1>2 DEF OpToRel
<1> QED  BY <1>3

LEMMA Greatest ==
  ASSUME NEW n \in Nat, NEW T, T \subseteq 0 .. n, T # {}
  PROVE  \E x \in T : \A y \in T : x >= y
<1> DEFINE Rest == {n - x : x \in T}
<1>0. \A x \in T : x \in Nat /\ x <= n
  OBVIOUS
<1>1. Rest \subseteq Nat /\ Rest # {}
  <2>1. \A x \in T : n - x \in Nat
    BY <1>0
  <2> QED  BY <2>1
<1>2. PICK r \in Rest : \A q \in Rest : r <= q
  BY <1>1, Least
<1>3. PICK x \in T : r = n - x
  OBVIOUS
<1>4. ASSUME NEW y \in T PROVE x >= y
  <2>1. n - y \in Rest
    OBVIOUS
  <2>2. n - x <= n - y /\ x \in Nat /\ y \in Nat
    BY <1>0, <1>2, <1>3, <2>1
  <2> QED  BY <2>2
<1> QED  BY <1>4

(* Prompts.  A name has a usable prompt if any of its rows is one; and the *)
(* first row of a base, which no rollback takes, is.                       *)
Drafts == Prompts \cup {Pointer}

Based ==
  /\ prompts \in [Registry!Names -> Seq(Drafts)]
  /\ prompts[Registry!Base] # <<>> /\ prompts[Registry!Base][1] \in Prompts

LEMMA BaseIsName == Registry!Base \in Registry!Names /\ Pointer \notin Prompts /\ Prompts # {}
  BY OfficeAssumption DEF OfficeAssumption, Registry!RegistryAssumption, Registry!Names

LEMMA PromptIs ==
  ASSUME Based, NEW n \in Registry!Names
  PROVE  /\ Registry!get_prompt(n) \in Prompts \cup {Registry!Nothing}
         /\ prompts[n] # <<>> /\ prompts[n][1] \in Prompts => Registry!get_prompt(n) \in Prompts
<1> DEFINE rows == prompts[n]
           usable == {i \in DOMAIN rows : rows[i] # Pointer}
<1>1. rows \in Seq(Drafts) /\ Len(rows) \in Nat /\ DOMAIN rows = 1 .. Len(rows)
  BY DEF Based
<1>2. Registry!get_prompt(n) = IF usable = {} THEN Registry!Nothing ELSE rows[Registry!Max(usable)]
  BY DEF Registry!get_prompt
<1> HIDE DEF rows
<1>3. usable # {} => rows[Registry!Max(usable)] \in Prompts
  <2> SUFFICES ASSUME usable # {} PROVE rows[Registry!Max(usable)] \in Prompts
    OBVIOUS
  <2>1. usable \subseteq 0 .. Len(rows)
    BY <1>1
  <2>2. \E x \in usable : \A y \in usable : x >= y
    BY <1>1, <2>1, Greatest
  <2>3. Registry!Max(usable) \in usable
    BY <2>2 DEF Registry!Max
  <2>4. \A i \in DOMAIN rows : rows[i] \in Drafts
    BY <1>1
  <2> QED  BY <2>3, <2>4 DEF Drafts
<1>4. rows # <<>> /\ rows[1] \in Prompts => usable # {}
  <2>1. rows # <<>> => 1 \in DOMAIN rows
    BY <1>1
  <2> QED  BY <2>1, BaseIsName
<1> QED  BY <1>2, <1>3, <1>4 DEF rows

LEMMA RowsStay ==
  ASSUME Based, NEW n \in Registry!Names, NEW rows \in Seq(Drafts),
         prompts' = [prompts EXCEPT ![n] = rows],
         n = Registry!Base => rows # <<>> /\ rows[1] \in Prompts
  PROVE  Based'
  BY DEF Based, Registry!Names

LEMMA BasedStays == ASSUME Based, [Registry!Next]_(Registry!registryVars) PROVE Based'
<1>1. ASSUME NEW a \in Staff, Registry!HirePrompt(a) PROVE Based'
  <2> DEFINE rows == Registry!SeedPrompt(a, Registry!get_prompt(Registry!Base))
  <2>1. a \in Registry!Names
    BY DEF Registry!Names
  <2>2. rows \in Seq(Drafts)
    <3>1. Registry!get_prompt(Registry!Base) \in Drafts
      BY PromptIs, BaseIsName DEF Based, Drafts
    <3>2. prompts[a] \in Seq(Drafts)
      BY <2>1 DEF Based
    <3> QED  BY <3>1, <3>2 DEF Registry!SeedPrompt
  <2>3. prompts' = [prompts EXCEPT ![a] = rows]
    BY <1>1 DEF Registry!HirePrompt
  <2>4. a = Registry!Base => rows = prompts[Registry!Base]
    BY DEF Based, Registry!SeedPrompt
  <2> HIDE DEF rows
  <2> QED  BY <2>1, <2>2, <2>3, <2>4, RowsStay DEF Based
<1>2. ASSUME NEW n \in Registry!Names, NEW t \in Prompts \cup {Pointer}, Registry!UpdatePrompt(n, t)
      PROVE  Based'
  <2> DEFINE rows == Append(prompts[n], t)
  <2>1. prompts[n] \in Seq(Drafts) /\ t \in Drafts
    BY DEF Based, Drafts
  <2>2. rows \in Seq(Drafts) /\ (prompts[n] # <<>> => rows # <<>> /\ rows[1] = prompts[n][1])
    BY <2>1
  <2>3. prompts' = [prompts EXCEPT ![n] = rows]
    BY <1>2 DEF Registry!UpdatePrompt
  <2> HIDE DEF rows
  <2> QED  BY <2>2, <2>3, RowsStay DEF Based
<1>3. ASSUME NEW n \in Registry!Names, Registry!RollbackPrompt(n) PROVE Based'
  <2> DEFINE rows == Registry!RolledBack(prompts[n])
  <2>1. prompts[n] \in Seq(Drafts)
    BY DEF Based
  <2>2. rows \in Seq(Drafts) /\ (prompts[n] # <<>> => rows # <<>> /\ rows[1] = prompts[n][1])
    <3>1. CASE Len(prompts[n]) > 1
      <4>1. rows = SubSeq(prompts[n], 1, Len(prompts[n]) - 1)
        BY <3>1 DEF Registry!RolledBack, Registry!Front
      <4>2. Len(prompts[n]) \in Nat
        BY <2>1
      <4>3. rows \in Seq(Drafts) /\ Len(rows) = Len(prompts[n]) - 1 /\ rows[1] = prompts[n][1]
        BY <2>1, <3>1, <4>1, <4>2, SubSeqProperties
      <4> QED  BY <3>1, <4>2, <4>3
    <3>2. CASE ~(Len(prompts[n]) > 1)
      <4>1. rows = prompts[n]
        BY <3>2 DEF Registry!RolledBack
      <4> QED  BY <2>1, <4>1
    <3> QED  BY <3>1, <3>2
  <2>3. prompts' = [prompts EXCEPT ![n] = rows]
    BY <1>3 DEF Registry!RollbackPrompt
  <2> HIDE DEF rows
  <2> QED  BY <2>2, <2>3, RowsStay DEF Based
<1>4. ASSUME NEW t \in Seeds, Registry!Boot(t) PROVE Based'
  <2>1. prompts' = [prompts EXCEPT ![Registry!Base] = prompts[Registry!Base]]
    BY <1>4 DEF Registry!Boot, Registry!SeedPrompt, Based
  <2>2. prompts[Registry!Base] \in Seq(Drafts)
    BY BaseIsName DEF Based
  <2> QED  BY <2>1, <2>2, BaseIsName, RowsStay DEF Based
<1>5. CASE UNCHANGED prompts
  BY <1>5 DEF Based, Registry!Names
<1> QED
  BY <1>1, <1>2, <1>3, <1>4, <1>5
  DEF Registry!Next, Registry!RollbackSkill, Registry!RetireSkill, Registry!CreateSkill,
      Registry!registryVars

LEMMA BasedInit == Registry!Init => Based
<1> SUFFICES ASSUME Registry!Init PROVE Based
  OBVIOUS
<1>1. PICK p \in Prompts :
        /\ prompts \in [Registry!Names -> {<<>>, <<Pointer>>, <<p>>, <<p, Pointer>>}]
        /\ prompts[Registry!Base] \in {<<p>>, <<p, Pointer>>}
  BY DEF Registry!Init
<1>2. {<<>>, <<Pointer>>, <<p>>, <<p, Pointer>>} \subseteq Seq(Drafts)
  BY DEF Drafts
<1>3. prompts[Registry!Base] # <<>> /\ prompts[Registry!Base][1] \in Prompts
  BY <1>1
<1> QED  BY <1>1, <1>2, <1>3 DEF Based

(* Nobody works without a prompt: through updates, rollbacks, hires and    *)
(* the pointers an older build let in, the prompt of every run is a text   *)
(* (get_prompt, rollback_prompt, hire).                                    *)
THEOREM PromptStandsHolds == Spec => []PromptStands
<1>1. Based => PromptStands
  <2> SUFFICES ASSUME Based, NEW n \in Registry!Names PROVE Registry!Resolved(n) \in Prompts
    BY DEF PromptStands, Registry!PromptStands
  <2>1. Registry!get_prompt(n) \in Prompts \cup {Registry!Nothing}
    BY PromptIs
  <2>2. Registry!get_prompt(Registry!Base) \in Prompts
    BY PromptIs, BaseIsName DEF Based
  <2> QED  BY <2>1, <2>2 DEF Registry!Resolved
<1> QED  BY <1>1, BasedInit, BasedStays, Parts, PTL DEF Registry!Spec

(* Skills.  The company's own text is the newest row, if that row is not   *)
(* the seeder's.                                                           *)
Skills == [text: Seeds \cup Essays, seeded: BOOLEAN]
TopRow == skill[Len(skill)]

OwnInv ==
  /\ skill \in Seq(Skills) /\ shipped \in Seeds
  /\ \A i \in DOMAIN skill : ~skill[i].seeded => skill[i].text \in Essays
  /\ own = IF skill = <<>> \/ TopRow.seeded THEN Registry!Nothing ELSE TopRow.text

LEMMA OwnStays == ASSUME OwnInv, [Registry!Next]_(Registry!registryVars) PROVE OwnInv'
<1> USE DEF Registry!Last
<1>1. ASSUME NEW r \in Skills, ~r.seeded => r.text \in Essays, skill' = Append(skill, r),
             own' = IF r.seeded THEN Registry!Nothing ELSE r.text, shipped' \in Seeds
      PROVE  OwnInv'
  <2>1. /\ skill' \in Seq(Skills) /\ skill' # <<>> /\ Len(skill') = Len(skill) + 1
        /\ skill'[Len(skill')] = r /\ Len(skill) \in Nat
        /\ \A i \in 1 .. Len(skill) : skill'[i] = skill[i]
    BY <1>1 DEF OwnInv
  <2>2. \A i \in DOMAIN skill' : i \in DOMAIN skill \/ i = Len(skill')
    BY <2>1 DEF OwnInv
  <2>3. \A i \in DOMAIN skill' : ~skill'[i].seeded => skill'[i].text \in Essays
    BY <1>1, <2>1, <2>2 DEF OwnInv
  <2> QED  BY <1>1, <2>1, <2>3 DEF OwnInv, TopRow
<1>2. ASSUME NEW t \in Essays, NEW b \in BOOLEAN, Registry!CreateSkill(t, b) PROVE OwnInv'
  <2> DEFINE r == [text |-> t, seeded |-> b]
  <2>1. r \in Skills /\ r.seeded = b /\ r.text = t
    BY DEF Skills
  <2>2. skill' = Append(skill, r) /\ own' = (IF b THEN Registry!Nothing ELSE t) /\ shipped' = shipped
    BY <1>2 DEF Registry!CreateSkill
  <2> HIDE DEF r
  <2> QED  BY <1>1, <2>1, <2>2 DEF OwnInv
<1>3. CASE Registry!RollbackSkill
  <2>1. skill' \in Seq(Skills)
    BY <1>3 DEF Registry!RollbackSkill, Registry!RolledBack, Registry!Front, OwnInv
  <2>2. \A i \in DOMAIN skill' : i \in DOMAIN skill /\ skill'[i] = skill[i]
    BY <1>3 DEF Registry!RollbackSkill, Registry!RolledBack, Registry!Front, OwnInv
  <2>3. /\ own' = IF skill' = <<>> \/ TopRow'.seeded THEN Registry!Nothing ELSE TopRow'.text
        /\ shipped' = shipped
    BY <1>3 DEF Registry!RollbackSkill, TopRow
  <2> QED  BY <2>1, <2>2, <2>3 DEF OwnInv
<1>4. CASE Registry!RetireSkill
  BY <1>4 DEF Registry!RetireSkill, OwnInv
<1>5. ASSUME NEW t \in Seeds, Registry!Boot(t) PROVE OwnInv'
  <2>1. UNCHANGED own /\ shipped' = t
    BY <1>5 DEF Registry!Boot
  <2>2. CASE Registry!Ships /\ skill' = Append(skill, [text |-> t, seeded |-> TRUE])
    <3> DEFINE r == [text |-> t, seeded |-> TRUE]
    <3>1. r \in Skills /\ r.seeded
      BY DEF Skills
    <3>2. own = Registry!Nothing
      BY <2>2 DEF Registry!Ships, OwnInv, TopRow
    <3>3. skill' = Append(skill, r)
      BY <2>2
    <3> HIDE DEF r
    <3> QED  BY <1>1, <2>1, <3>1, <3>2, <3>3
  <2>3. CASE UNCHANGED skill
    BY <2>1, <2>3 DEF OwnInv, TopRow
  <2> QED  BY <1>5, <2>2, <2>3 DEF Registry!Boot
<1>6. CASE UNCHANGED <<skill, shipped, own>>
  BY <1>6 DEF OwnInv, TopRow
<1> QED
  BY <1>2, <1>3, <1>4, <1>5, <1>6
  DEF Registry!Next, Registry!HirePrompt, Registry!UpdatePrompt, Registry!RollbackPrompt,
      Registry!SkillKept, Registry!registryVars

LEMMA OwnInit == Registry!Init => OwnInv
<1> SUFFICES ASSUME Registry!Init PROVE OwnInv
  OBVIOUS
<1>1. PICK s \in Seeds : shipped = s /\ skill = <<[text |-> s, seeded |-> TRUE]>>
  BY DEF Registry!Init
<1>2. own = Registry!Nothing
  BY DEF Registry!Init
<1>3. [text |-> s, seeded |-> TRUE] \in Skills
  BY DEF Skills
<1>4. skill \in Seq(Skills) /\ Len(skill) = 1 /\ DOMAIN skill = {1} /\ skill[1].seeded
  BY <1>1, <1>3
<1> QED  BY <1>1, <1>2, <1>4 DEF OwnInv, TopRow

(* A build ships its text of a skill over the text of an older build only: *)
(* what the company wrote stays until the company takes it back            *)
(* (skills::seed, create_skill, rollback_skill).                           *)
THEOREM OwnSkillStandsHolds == Spec => []OwnSkillStands
<1>1. OwnInv => OwnSkillStands
  BY DEF OwnInv, TopRow, OwnSkillStands, Registry!OwnSkillStands, Registry!Last
<1> QED  BY <1>1, OwnInit, OwnStays, Parts, PTL DEF Registry!Spec

LEMMA RegistryTypes == Spec => []Registry!TypeOK
<1>1. Based /\ OwnInv => Registry!TypeOK
  <2> SUFFICES ASSUME Based, OwnInv PROVE Registry!TypeOK
    OBVIOUS
  <2>1. own \in Essays \cup {Registry!Nothing}
    BY DEF OwnInv, TopRow
  <2> QED  BY <2>1 DEF Based, OwnInv, Drafts, Skills, Registry!TypeOK
<1>2. Registry!Spec => []Based
  BY BasedInit, BasedStays, PTL DEF Registry!Spec
<1>3. Registry!Spec => []OwnInv
  BY OwnInit, OwnStays, PTL DEF Registry!Spec
<1> QED  BY <1>1, <1>2, <1>3, Parts, PTL

-----------------------------------------------------------------------------
(* Transcripts.  What is kept of a history, whatever its length: it opens  *)
(* on the system prompt, and the turns of its messages only grow; a tool   *)
(* result stands behind something else of its turn, with no word of the    *)
(* user in between; and each turn is there or covered by the brief.        *)
Message   == [role: Transcript!Roles, turn: Nat, weight: Nat]
SaysTools == {"assistant"} \cup Transcript!Pictures

Ordered(h, t) ==
  /\ h \in Seq(Message) /\ Len(h) > 0
  /\ \A i \in 1 .. Len(h) :
        /\ h[i].turn \in 0 .. t
        /\ h[i].role = "system" <=> i = 1
        /\ h[i].role = "brief" => i = 2
        /\ h[i].turn = 0 <=> h[i].role \in {"system", "brief"}
  /\ \A i, j \in 1 .. Len(h) : i < j => h[i].turn <= h[j].turn

Caller(h, n, u) == \E j \in 1 .. n : h[j].role \in SaysTools /\ h[j].turn = u

Answered(h) ==
  /\ \A i \in 1 .. Len(h) : h[i].role = "tool" => Caller(h, i - 1, h[i].turn)
  /\ \A i, j, k \in 1 .. Len(h) :
        (j < k /\ k < i /\ h[i].role = "tool" /\ h[k].role = "user" /\ h[k].turn = h[i].turn)
          => h[j].turn # h[i].turn

Briefed(h, b, t) ==
  /\ b \subseteq 1 .. t
  /\ (Len(h) > 1 /\ h[2].role = "brief") \/ b = {}
  /\ \A n \in 1 .. t : n \in b \/ \E i \in 1 .. Len(h) : h[i].turn = n

Sound(h, b, t) == Ordered(h, t) /\ Answered(h) /\ Briefed(h, b, t)

(* A tool result may be put behind a history that calls for it.            *)
CallsFor(h, u) ==
  /\ Caller(h, Len(h), u)
  /\ \A j, k \in 1 .. Len(h) : (j < k /\ h[k].role = "user" /\ h[k].turn = u) => h[j].turn # u

LEMMA Joined ==
  ASSUME NEW h \in Seq(Message), NEW m \in Message
  PROVE  /\ h \o <<m>> \in Seq(Message) /\ Len(h \o <<m>>) = Len(h) + 1 /\ Len(h) \in Nat
         /\ \A i \in 1 .. Len(h) : (h \o <<m>>)[i] = h[i]
         /\ (h \o <<m>>)[Len(h) + 1] = m
<1>1. <<m>> \in Seq(Message) /\ Len(<<m>>) = 1 /\ <<m>>[1] = m
  OBVIOUS
<1>2. Len(h) \in Nat
  OBVIOUS
<1>3. /\ h \o <<m>> \in Seq(Message) /\ Len(h \o <<m>>) = Len(h) + Len(<<m>>)
      /\ \A i \in 1 .. Len(h) + Len(<<m>>) :
            (h \o <<m>>)[i] = IF i <= Len(h) THEN h[i] ELSE <<m>>[i - Len(h)]
  BY <1>1, ConcatProperties
<1> QED  BY <1>1, <1>2, <1>3

LEMMA SoundJoined ==
  ASSUME NEW h, NEW b, NEW t \in Nat, NEW u \in Nat, NEW m \in Message,
         Sound(h, b, t), u = t \/ u = t + 1, u > 0, m.turn = u,
         m.role \notin {"system", "brief"}, m.role = "tool" => CallsFor(h, u)
  PROVE  Sound(h \o <<m>>, b, u)
<1> DEFINE g == h \o <<m>>
<1>1. h \in Seq(Message) /\ Len(h) > 0
  BY DEF Sound, Ordered
<1>2. /\ g \in Seq(Message) /\ Len(g) = Len(h) + 1 /\ Len(h) \in Nat
      /\ \A i \in 1 .. Len(h) : g[i] = h[i]
      /\ g[Len(h) + 1] = m
  BY <1>1, Joined
<1> HIDE DEF g
<1>3. \A i \in 1 .. Len(g) : i \in 1 .. Len(h) \/ i = Len(h) + 1
  BY <1>2
<1>4. \A i \in 1 .. Len(h) : i \in 1 .. Len(g) /\ i # Len(h) + 1 /\ i <= Len(h)
  BY <1>2
<1>5. Ordered(g, u)
  <2>1. ASSUME NEW i \in 1 .. Len(g)
        PROVE  /\ g[i].turn \in 0 .. u
               /\ g[i].role = "system" <=> i = 1
               /\ g[i].role = "brief" => i = 2
               /\ g[i].turn = 0 <=> g[i].role \in {"system", "brief"}
    <3>1. CASE i \in 1 .. Len(h)
      BY <1>2, <3>1 DEF Sound, Ordered
    <3>2. CASE i = Len(h) + 1
      BY <1>1, <1>2, <3>2
    <3> QED  BY <1>3, <3>1, <3>2
  <2>2. ASSUME NEW i \in 1 .. Len(g), NEW j \in 1 .. Len(g), i < j PROVE g[i].turn <= g[j].turn
    <3>1. i \in 1 .. Len(h)
      BY <1>2, <2>2
    <3>2. CASE j \in 1 .. Len(h)
      BY <1>2, <2>2, <3>1, <3>2 DEF Sound, Ordered
    <3>3. CASE j = Len(h) + 1
      BY <1>2, <2>1, <3>3
    <3> QED  BY <1>3, <3>2, <3>3
  <2> QED  BY <1>1, <1>2, <2>1, <2>2 DEF Ordered
<1>6. ASSUME NEW n \in 0 .. Len(h), NEW v, Caller(h, n, v) PROVE Caller(g, n, v)
  BY <1>2, <1>6 DEF Caller
<1>7. Answered(g)
  <2>1. ASSUME NEW i \in 1 .. Len(g), g[i].role = "tool" PROVE Caller(g, i - 1, g[i].turn)
    <3>1. CASE i \in 1 .. Len(h)
      <4>1. Caller(h, i - 1, h[i].turn) /\ i - 1 \in 0 .. Len(h)
        BY <1>2, <2>1, <3>1 DEF Sound, Answered
      <4> QED  BY <1>2, <1>6, <3>1, <4>1
    <3>2. CASE i = Len(h) + 1
      <4>1. Caller(h, Len(h), u) /\ Len(h) \in 0 .. Len(h) /\ i - 1 = Len(h) /\ g[i] = m
        BY <1>2, <2>1, <3>2 DEF CallsFor
      <4> QED  BY <1>6, <4>1
    <3> QED  BY <1>3, <3>1, <3>2
  <2>2. ASSUME NEW i \in 1 .. Len(g), NEW j \in 1 .. Len(g), NEW k \in 1 .. Len(g),
               j < k, k < i, g[i].role = "tool", g[k].role = "user", g[k].turn = g[i].turn
        PROVE  g[j].turn # g[i].turn
    <3>1. j \in 1 .. Len(h) /\ k \in 1 .. Len(h)
      BY <1>2, <2>2
    <3>2. CASE i \in 1 .. Len(h)
      BY <1>2, <2>2, <3>1, <3>2 DEF Sound, Answered
    <3>3. CASE i = Len(h) + 1
      BY <1>2, <2>2, <3>1, <3>3 DEF CallsFor
    <3> QED  BY <1>3, <3>2, <3>3
  <2> QED  BY <2>1, <2>2 DEF Answered
<1>8. Briefed(g, b, u)
  <2>1. b \subseteq 1 .. u
    BY DEF Sound, Briefed
  <2>2. (Len(g) > 1 /\ g[2].role = "brief") \/ b = {}
    BY <1>2 DEF Sound, Briefed
  <2>3. ASSUME NEW n \in 1 .. u PROVE n \in b \/ \E i \in 1 .. Len(g) : g[i].turn = n
    <3>1. CASE n \in 1 .. t
      BY <1>2, <1>4, <3>1 DEF Sound, Briefed
    <3>2. CASE n = u
      <4>1. Len(h) + 1 \in 1 .. Len(g)
        BY <1>2
      <4> QED  BY <1>2, <3>2, <4>1
    <3> QED  BY <3>1, <3>2
  <2> QED  BY <2>1, <2>2, <2>3 DEF Briefed
<1> QED  BY <1>5, <1>7, <1>8 DEF Sound, g

(* The same messages, some pictures told apart.                            *)
Retold(h, g) ==
  /\ g \in Seq(Message) /\ Len(g) = Len(h)
  /\ \A i \in 1 .. Len(h) :
        /\ g[i].turn = h[i].turn
        /\ g[i].role = h[i].role \/ {g[i].role, h[i].role} \subseteq Transcript!Pictures

LEMMA SoundRetold ==
  ASSUME NEW h, NEW g, NEW b, NEW t \in Nat, Sound(h, b, t), Retold(h, g)
  PROVE  Sound(g, b, t)
<1>1. Len(g) = Len(h) /\ Len(h) \in Nat /\ g \in Seq(Message) /\ Len(h) > 0
  BY DEF Sound, Ordered, Retold
<1>2. ASSUME NEW i \in 1 .. Len(h)
      PROVE  /\ g[i].turn = h[i].turn
             /\ g[i].role \in SaysTools <=> h[i].role \in SaysTools
             /\ \A r \in {"system", "brief", "tool", "user"} : g[i].role = r <=> h[i].role = r
  BY DEF Retold, SaysTools, Transcript!Pictures, Transcript!WithImages
<1>3. Ordered(g, t)
  <2>1. ASSUME NEW i \in 1 .. Len(g)
        PROVE  /\ g[i].turn \in 0 .. t
               /\ g[i].role = "system" <=> i = 1
               /\ g[i].role = "brief" => i = 2
               /\ g[i].turn = 0 <=> g[i].role \in {"system", "brief"}
    BY <1>1, <1>2 DEF Sound, Ordered
  <2>2. \A i, j \in 1 .. Len(g) : i < j => g[i].turn <= g[j].turn
    BY <1>1, <1>2 DEF Sound, Ordered
  <2> QED  BY <1>1, <2>1, <2>2 DEF Ordered
<1>4. Answered(g)
  <2>1. ASSUME NEW i \in 1 .. Len(g), g[i].role = "tool" PROVE Caller(g, i - 1, g[i].turn)
    <3>1. PICK j \in 1 .. i - 1 : h[j].role \in SaysTools /\ h[j].turn = h[i].turn
      BY <1>1, <1>2, <2>1 DEF Sound, Answered, Caller
    <3>2. j \in 1 .. Len(h)
      BY <1>1, <3>1
    <3> QED  BY <1>1, <1>2, <3>1, <3>2 DEF Caller
  <2>2. ASSUME NEW i \in 1 .. Len(g), NEW j \in 1 .. Len(g), NEW k \in 1 .. Len(g),
               j < k, k < i, g[i].role = "tool", g[k].role = "user", g[k].turn = g[i].turn
        PROVE  g[j].turn # g[i].turn
    BY <1>1, <1>2, <2>2 DEF Sound, Answered
  <2> QED  BY <2>1, <2>2 DEF Answered
<1>5. Briefed(g, b, t)
  <2>1. Len(g) > 1 <=> 2 \in 1 .. Len(h)
    BY <1>1
  <2> QED  BY <1>1, <1>2, <2>1 DEF Sound, Briefed
<1> QED  BY <1>3, <1>4, <1>5 DEF Sound

(* What a run makes of the pictures.                                       *)
Imaged(h, i) == h[i].role \in Transcript!WithImages
Blank(h) == \A i \in 1 .. Len(h) : ~Imaged(h, i)
Later(h, i) == \E j \in i + 1 .. Len(h) : Imaged(h, j) /\ h[j].turn = h[i].turn

(* What becomes of one that a save dropped unsent: another of its turn     *)
(* follows it, or the user spoke before the next answer.                   *)
Followed(h, i) ==
  \E j \in i + 1 .. Len(h) : h[j].role \in Transcript!Pictures /\ h[j].turn = h[i].turn
Prompted(h, i) == \E k \in i + 1 .. Len(h) : h[k].role = "user"
Parted(h, i) ==
  \A j \in i + 1 .. Len(h) :
    h[j].role = "assistant" => \E k \in i + 1 .. j - 1 : h[k].role = "user"

Dropped(h) == \A i \in 1 .. Len(h) : h[i].role = "unsent" => Followed(h, i) \/ Parted(h, i)
Resumed(h) == \A i \in 1 .. Len(h) : h[i].role = "unsent" => Followed(h, i) \/ Prompted(h, i)

LEMMA FateRetold ==
  ASSUME NEW h \in Seq(Message), NEW g, Retold(h, g), NEW i \in 1 .. Len(h)
  PROVE  /\ Followed(h, i) => Followed(g, i)
         /\ Prompted(h, i) => Prompted(g, i)
         /\ Parted(h, i) => Parted(g, i)
<1>1. Len(g) = Len(h) /\ Len(h) \in Nat
  BY DEF Retold
<1>2. \A j \in i + 1 .. Len(h) : j \in 1 .. Len(h) /\ \A k \in i + 1 .. j - 1 : k \in 1 .. Len(h)
  BY <1>1
<1>3. ASSUME NEW j \in 1 .. Len(h)
      PROVE  /\ g[j].turn = h[j].turn
             /\ h[j].role \in Transcript!Pictures => g[j].role \in Transcript!Pictures
             /\ \A r \in {"user", "assistant"} : g[j].role = r <=> h[j].role = r
  BY DEF Retold, Transcript!Pictures, Transcript!WithImages
<1>4. Followed(h, i) => Followed(g, i)
  BY <1>1, <1>2, <1>3 DEF Followed
<1>5. Prompted(h, i) => Prompted(g, i)
  BY <1>1, <1>2, <1>3 DEF Prompted
<1>6. ASSUME Parted(h, i) PROVE Parted(g, i)
  <2>1. SUFFICES ASSUME NEW j \in i + 1 .. Len(h), g[j].role = "assistant"
                 PROVE  \E k \in i + 1 .. j - 1 : g[k].role = "user"
    BY <1>1 DEF Parted
  <2>2. PICK k \in i + 1 .. j - 1 : h[k].role = "user"
    BY <1>2, <1>3, <1>6, <2>1 DEF Parted
  <2>3. g[k].role = "user"
    BY <1>2, <1>3, <2>2
  <2> QED  BY <2>3
<1> QED  BY <1>4, <1>5, <1>6

LEMMA FateJoined ==
  ASSUME NEW h \in Seq(Message), NEW m \in Message, m.role # "unsent", Dropped(h)
  PROVE  /\ m.role # "assistant" \/ Resumed(h) => Dropped(h \o <<m>>)
         /\ m.role = "user" \/ Resumed(h) => Resumed(h \o <<m>>)
<1> DEFINE g == h \o <<m>>
<1>1. /\ Len(g) = Len(h) + 1 /\ Len(h) \in Nat
      /\ \A i \in 1 .. Len(h) : g[i] = h[i]
      /\ g[Len(h) + 1] = m
  BY Joined
<1> HIDE DEF g
<1>2. ASSUME NEW i \in 1 .. Len(g), g[i].role = "unsent"
      PROVE  /\ i \in 1 .. Len(h) /\ h[i].role = "unsent"
             /\ \A j \in i + 1 .. Len(h) : j \in i + 1 .. Len(g) /\ g[j] = h[j]
             /\ Len(h) + 1 \in i + 1 .. Len(g)
             /\ \A j \in i + 1 .. Len(g) : j = Len(h) + 1 \/ j \in i + 1 .. Len(h)
  <2>1. i # Len(h) + 1
    BY <1>1, <1>2
  <2>2. i \in 1 .. Len(h)
    BY <1>1, <2>1
  <2>3. \A j \in i + 1 .. Len(h) : j \in 1 .. Len(h) /\ j \in i + 1 .. Len(g)
    BY <1>1, <2>2
  <2> QED  BY <1>1, <1>2, <2>2, <2>3
<1>3. ASSUME NEW i \in 1 .. Len(g), g[i].role = "unsent", Followed(h, i) PROVE Followed(g, i)
  BY <1>1, <1>2, <1>3 DEF Followed
<1>4. ASSUME NEW i \in 1 .. Len(g), g[i].role = "unsent", Prompted(h, i) PROVE Prompted(g, i)
  BY <1>1, <1>2, <1>4 DEF Prompted
<1>5. ASSUME NEW i \in 1 .. Len(g), g[i].role = "unsent", Parted(h, i),
             m.role # "assistant" \/ Prompted(h, i)
      PROVE  Parted(g, i)
  <2> SUFFICES ASSUME NEW j \in i + 1 .. Len(g), g[j].role = "assistant"
               PROVE  \E k \in i + 1 .. j - 1 : g[k].role = "user"
    BY DEF Parted
  <2>1. CASE j \in i + 1 .. Len(h)
    <3>1. PICK k \in i + 1 .. j - 1 : h[k].role = "user"
      BY <1>2, <1>5, <2>1 DEF Parted
    <3>2. k \in i + 1 .. Len(h)
      BY <1>1, <2>1
    <3> QED  BY <1>2, <1>5, <3>1, <3>2
  <2>2. CASE j = Len(h) + 1
    <3>1. PICK k \in i + 1 .. Len(h) : h[k].role = "user"
      BY <1>1, <1>5, <2>2 DEF Prompted
    <3>2. k \in i + 1 .. j - 1
      BY <1>1, <2>2
    <3> QED  BY <1>2, <1>5, <3>1, <3>2
  <2> QED  BY <1>2, <1>5, <2>1, <2>2
<1>6. ASSUME m.role # "assistant" \/ Resumed(h) PROVE Dropped(g)
  BY <1>2, <1>3, <1>5, <1>6 DEF Dropped, Resumed
<1>7. ASSUME m.role = "user" \/ Resumed(h) PROVE Resumed(g)
  <2>1. CASE m.role = "user"
    BY <1>1, <1>2, <2>1 DEF Resumed, Prompted
  <2>2. CASE Resumed(h)
    BY <1>2, <1>3, <1>4, <2>2 DEF Resumed
  <2> QED  BY <1>7, <2>1, <2>2
<1> QED  BY <1>6, <1>7 DEF g

Repaints(h, g) ==
  /\ g = [i \in DOMAIN h |-> g[i]]
  /\ \A i \in DOMAIN h :
        \/ g[i] = h[i]
        \/ \E r \in Transcript!Pictures : Imaged(h, i) /\ g[i] = [h[i] EXCEPT !.role = r]

LEMMA Repainted == ASSUME NEW h \in Seq(Message), NEW g, Repaints(h, g) PROVE Retold(h, g)
<1>1. Len(h) \in Nat /\ DOMAIN h = 1 .. Len(h) /\ \A i \in 1 .. Len(h) : h[i] \in Message
  OBVIOUS
<1>2. ASSUME NEW i \in 1 .. Len(h)
      PROVE  /\ g[i] \in Message /\ g[i].turn = h[i].turn
             /\ g[i].role = h[i].role \/ {g[i].role, h[i].role} \subseteq Transcript!Pictures
  <2>0. i \in DOMAIN h
    BY <1>1
  <2>1. CASE g[i] = h[i]
    BY <1>1, <2>1
  <2>2. ASSUME NEW r \in Transcript!Pictures, Imaged(h, i), g[i] = [h[i] EXCEPT !.role = r]
        PROVE  /\ g[i] \in Message /\ g[i].turn = h[i].turn
               /\ {g[i].role, h[i].role} \subseteq Transcript!Pictures
    <3>1. r \in Transcript!Roles
      BY DEF Transcript!Roles
    <3>2. g[i].turn = h[i].turn /\ g[i].role = r /\ g[i] \in Message
      BY <1>1, <2>2, <3>1 DEF Message
    <3> QED  BY <2>2, <3>2 DEF Imaged, Transcript!Pictures
  <2> QED  BY <2>0, <2>1, <2>2 DEF Repaints
<1>3. g = [i \in 1 .. Len(h) |-> g[i]]
  BY <1>1 DEF Repaints
<1>4. g \in Seq(Message) /\ Len(g) = Len(h)
  BY <1>1, <1>2, <1>3
<1> QED  BY <1>2, <1>4 DEF Retold

LEMMA SavedIs ==
  ASSUME NEW h \in Seq(Message)
  PROVE  /\ Retold(h, Transcript!Saved(h)) /\ Blank(Transcript!Saved(h))
         /\ \A i \in 1 .. Len(h) :
              Transcript!Saved(h)[i].role = "unsent" => h[i].role \in {"unsent", "picture"}
<1> DEFINE g == Transcript!Saved(h)
           Role(i) == IF h[i].role = "picture" THEN "unsent" ELSE "words"
<1>1. g = [i \in DOMAIN h |-> IF Imaged(h, i) THEN [h[i] EXCEPT !.role = Role(i)] ELSE h[i]]
  BY DEF Transcript!Saved, Imaged
<1> HIDE DEF g
<1>2. /\ g = [i \in DOMAIN h |-> g[i]]
      /\ \A i \in DOMAIN h : IF Imaged(h, i) THEN g[i] = [h[i] EXCEPT !.role = Role(i)] ELSE g[i] = h[i]
  <2> DEFINE F(i) == IF Imaged(h, i) THEN [h[i] EXCEPT !.role = Role(i)] ELSE h[i]
  <2>1. g = [i \in DOMAIN h |-> F(i)]
    BY <1>1
  <2>2. \A i \in DOMAIN h : IF Imaged(h, i) THEN F(i) = [h[i] EXCEPT !.role = Role(i)] ELSE F(i) = h[i]
    OBVIOUS
  <2> HIDE DEF F, Role
  <2>3. \A i \in DOMAIN h : g[i] = F(i)
    BY <2>1
  <2>4. g = [i \in DOMAIN h |-> g[i]]
    BY <2>1
  <2> QED  BY <2>2, <2>3, <2>4
<1>3. \A i : Role(i) \in Transcript!Pictures /\ Role(i) \notin Transcript!WithImages
  BY DEF Transcript!Pictures, Transcript!WithImages
<1>4. Retold(h, g)
  <2>1. \A i \in DOMAIN h :
            \/ g[i] = h[i]
            \/ \E r \in Transcript!Pictures : Imaged(h, i) /\ g[i] = [h[i] EXCEPT !.role = r]
    <3> HIDE DEF Role
    <3> QED  BY <1>2, <1>3
  <2>2. Repaints(h, g)
    BY <1>2, <2>1 DEF Repaints
  <2> QED  BY <2>2, Repainted
<1>5. ASSUME NEW i \in 1 .. Len(h)
      PROVE  ~Imaged(g, i) /\ (g[i].role = "unsent" => h[i].role \in {"unsent", "picture"})
  <2>1. i \in DOMAIN h /\ h[i] \in Message
    OBVIOUS
  <2>2. CASE Imaged(h, i)
    <3>1. g[i].role = Role(i)
      BY <1>2, <2>1, <2>2 DEF Message
    <3> QED  BY <1>3, <3>1 DEF Imaged
  <2>3. CASE ~Imaged(h, i)
    BY <1>2, <2>1, <2>3 DEF Imaged
  <2> QED  BY <2>2, <2>3
<1> QED  BY <1>4, <1>5 DEF Retold, Blank, g

(* A request that is answered leaves no picture unread but one that a      *)
(* later picture followed.                                                 *)
LEMMA RequestIs ==
  ASSUME NEW h \in Seq(Message), NEW sees \in BOOLEAN
  PROVE  /\ Retold(h, Transcript!build_request(h, sees))
         /\ \A i \in 1 .. Len(h) :
               /\ Imaged(Transcript!build_request(h, sees), i) <=> Imaged(h, i)
               /\ Transcript!build_request(h, sees)[i].role = "picture" =>
                     h[i].role = "picture" /\ \E j \in i + 1 .. Len(h) : Imaged(h, j)
               /\ Transcript!build_request(h, sees)[i].role = "unsent" => h[i].role = "unsent"
<1> DEFINE g == Transcript!build_request(h, sees)
           Rides(i) == Imaged(h, i) /\ \A j \in i + 1 .. Len(h) : ~Imaged(h, j)
           Role(i) == IF sees THEN "seen" ELSE IF h[i].role = "picture" THEN "described" ELSE h[i].role
<1>1. g = [i \in DOMAIN h |-> IF Rides(i) THEN [h[i] EXCEPT !.role = Role(i)] ELSE h[i]]
  BY DEF Transcript!build_request, Imaged
<1> HIDE DEF g
<1>2. /\ g = [i \in DOMAIN h |-> g[i]]
      /\ \A i \in DOMAIN h : IF Rides(i) THEN g[i] = [h[i] EXCEPT !.role = Role(i)] ELSE g[i] = h[i]
  <2> DEFINE F(i) == IF Rides(i) THEN [h[i] EXCEPT !.role = Role(i)] ELSE h[i]
  <2>1. g = [i \in DOMAIN h |-> F(i)]
    BY <1>1
  <2>2. \A i \in DOMAIN h : IF Rides(i) THEN F(i) = [h[i] EXCEPT !.role = Role(i)] ELSE F(i) = h[i]
    OBVIOUS
  <2> HIDE DEF F, Rides, Role
  <2>3. \A i \in DOMAIN h : g[i] = F(i)
    BY <2>1
  <2>4. g = [i \in DOMAIN h |-> g[i]]
    BY <2>1
  <2> QED  BY <2>2, <2>3, <2>4
<1>3. \A i \in DOMAIN h :
         Rides(i) => Role(i) \in Transcript!WithImages /\ Role(i) \notin {"picture", "unsent"}
  BY DEF Transcript!WithImages, Imaged
<1>4. Retold(h, g)
  <2>1. \A i \in DOMAIN h :
            \/ g[i] = h[i]
            \/ \E r \in Transcript!Pictures : Imaged(h, i) /\ g[i] = [h[i] EXCEPT !.role = r]
    <3> HIDE DEF Role
    <3> QED  BY <1>2, <1>3 DEF Transcript!Pictures
  <2>2. Repaints(h, g)
    BY <1>2, <2>1 DEF Repaints
  <2> QED  BY <2>2, Repainted
<1>5. ASSUME NEW i \in 1 .. Len(h)
      PROVE  /\ Imaged(g, i) <=> Imaged(h, i)
             /\ g[i].role = "picture" =>
                   h[i].role = "picture" /\ \E j \in i + 1 .. Len(h) : Imaged(h, j)
             /\ g[i].role = "unsent" => h[i].role = "unsent"
  <2>1. i \in DOMAIN h /\ h[i] \in Message
    OBVIOUS
  <2>2. CASE Rides(i)
    <3>1. g[i].role = Role(i)
      BY <1>2, <2>1, <2>2 DEF Message
    <3>2. Role(i) \in Transcript!WithImages /\ Role(i) \notin {"picture", "unsent"}
      BY <1>3, <2>1, <2>2
    <3> QED  BY <2>2, <3>1, <3>2 DEF Imaged
  <2>3. CASE ~Rides(i)
    <3>1. g[i] = h[i]
      BY <1>2, <2>1, <2>3
    <3>2. h[i].role = "picture" => Imaged(h, i)
      BY DEF Imaged, Transcript!WithImages
    <3> QED  BY <2>3, <3>1, <3>2 DEF Imaged
  <2> QED  BY <2>2, <2>3
<1> QED  BY <1>4, <1>5 DEF g

(* What the model has been sent: it never ends between two tool results,   *)
(* what is not sent yet shows pictures of the newest turn only and answers *)
(* nothing, of what is sent a picture unread was followed by another in    *)
(* its turn, and so was one dropped unsent or else its run ended there.    *)
Ends(h, s) ==
  /\ s \in 0 .. Len(h) /\ s # 1
  /\ s > 0 => h[s].role # "tool" \/ (s < Len(h) /\ h[s + 1].role # "tool")

Viewed(h, s, t) ==
  /\ Ends(h, s)
  /\ \A i \in s + 1 .. Len(h) : (Imaged(h, i) => h[i].turn = t) /\ h[i].role # "assistant"
  /\ \A i \in 1 .. s : h[i].role = "picture" => Later(h, i)
  /\ Dropped(h)

LEMMA ViewedJoined ==
  ASSUME NEW h \in Seq(Message), NEW m \in Message, NEW s, NEW t, NEW u, Viewed(h, s, t),
         m.role \notin {"assistant", "unsent"},
         m.role \in Transcript!WithImages => m.turn = u,
         u = t \/ \A i \in s + 1 .. Len(h) : ~Imaged(h, i)
  PROVE  Viewed(h \o <<m>>, s, u)
<1> DEFINE g == h \o <<m>>
<1>1. /\ Len(g) = Len(h) + 1 /\ Len(h) \in Nat
      /\ \A i \in 1 .. Len(h) : g[i] = h[i]
      /\ g[Len(h) + 1] = m
  BY Joined
<1> HIDE DEF g
<1>2. s \in 0 .. Len(h) /\ s \in 0 .. Len(g) /\ s # 1
  BY <1>1 DEF Viewed, Ends
<1>3. s > 0 => g[s].role # "tool" \/ (s < Len(g) /\ g[s + 1].role # "tool")
  BY <1>1, <1>2 DEF Viewed, Ends
<1>4. ASSUME NEW i \in s + 1 .. Len(g)
      PROVE  (Imaged(g, i) => g[i].turn = u) /\ g[i].role # "assistant"
  <2>1. CASE i \in s + 1 .. Len(h)
    <3>1. i \in 1 .. Len(h)
      BY <1>2, <2>1
    <3>2. g[i] = h[i] /\ (Imaged(g, i) <=> Imaged(h, i))
      BY <1>1, <3>1 DEF Imaged
    <3> QED  BY <2>1, <3>2 DEF Viewed, Ends
  <2>2. CASE i = Len(h) + 1
    BY <1>1, <2>2 DEF Imaged
  <2> QED  BY <1>1, <1>2, <2>1, <2>2
<1>5. ASSUME NEW i \in 1 .. s, g[i].role = "picture" PROVE Later(g, i)
  <2>1. i \in 1 .. Len(h)
    BY <1>1, <1>2
  <2>2. PICK j \in i + 1 .. Len(h) : Imaged(h, j) /\ h[j].turn = h[i].turn
    BY <1>1, <1>5, <2>1 DEF Viewed, Ends, Later
  <2>3. j \in i + 1 .. Len(g) /\ j \in 1 .. Len(h)
    BY <1>1, <2>1
  <2> QED  BY <1>1, <2>1, <2>2, <2>3 DEF Later, Imaged
<1>6. Dropped(g)
  BY FateJoined DEF Viewed, g
<1> QED  BY <1>2, <1>3, <1>4, <1>5, <1>6 DEF Viewed, Ends, g

LEMMA ViewedSaved ==
  ASSUME NEW h \in Seq(Message), NEW s, NEW t, NEW u, Viewed(h, s, t)
  PROVE  Viewed(Transcript!Saved(h), s, u)
<1> DEFINE g == Transcript!Saved(h)
<1>1. /\ Retold(h, g) /\ Blank(g)
      /\ \A i \in 1 .. Len(h) : g[i].role = "unsent" => h[i].role \in {"unsent", "picture"}
  BY SavedIs
<1> HIDE DEF g
<1>2. Len(g) = Len(h) /\ Len(h) \in Nat /\ s \in 0 .. Len(h) /\ s # 1
  BY <1>1 DEF Retold, Viewed, Ends
<1>3. \A i \in 1 .. Len(h) : \A r \in {"tool", "assistant"} : g[i].role = r <=> h[i].role = r
  BY <1>1 DEF Retold, Transcript!Pictures, Transcript!WithImages
<1>4. s > 0 => g[s].role # "tool" \/ (s < Len(g) /\ g[s + 1].role # "tool")
  BY <1>2, <1>3 DEF Viewed, Ends
<1>5. \A i \in 1 .. Len(h) : ~Imaged(g, i) /\ g[i].role # "picture"
  BY <1>1, <1>2 DEF Blank, Imaged, Transcript!WithImages
<1>6. \A i \in s + 1 .. Len(g) : g[i].role # "assistant"
  BY <1>2, <1>3 DEF Viewed
<1>7. ASSUME NEW i \in 1 .. Len(h), g[i].role = "unsent" PROVE Followed(g, i) \/ Parted(g, i)
  <2>1. CASE h[i].role = "unsent"
    BY <1>1, <2>1, FateRetold DEF Viewed, Dropped
  <2>2. CASE h[i].role = "picture" /\ i <= s
    <3>1. PICK j \in i + 1 .. Len(h) : Imaged(h, j) /\ h[j].turn = h[i].turn
      BY <1>2, <2>2 DEF Viewed, Later
    <3>2. Followed(h, i)
      BY <3>1 DEF Followed, Imaged, Transcript!Pictures
    <3> QED  BY <1>1, <3>2, FateRetold
  <2>3. CASE i > s
    <3>1. \A j \in i + 1 .. Len(g) : j \in s + 1 .. Len(g)
      BY <1>2, <2>3
    <3> QED  BY <1>6, <3>1 DEF Parted
  <2> QED  BY <1>1, <1>2, <1>7, <2>1, <2>2, <2>3
<1> QED  BY <1>2, <1>4, <1>5, <1>6, <1>7 DEF Viewed, Ends, Dropped, g

LEMMA ViewedSent ==
  ASSUME NEW h \in Seq(Message), Len(h) > 1, NEW s, NEW t, Viewed(h, s, t),
         Resumed(h), NEW sees \in BOOLEAN,
         NEW m \in Message, m.role \notin Transcript!WithImages \cup {"tool", "unsent"},
         NEW n \in {Len(h), Len(h) + 1}, m.role = "assistant" => n = Len(h) + 1, NEW u
  PROVE  Viewed(Transcript!build_request(h, sees) \o <<m>>, n, u)
<1> DEFINE r == Transcript!build_request(h, sees)
           g == r \o <<m>>
<1>1. /\ Retold(h, r)
      /\ \A i \in 1 .. Len(h) :
            /\ Imaged(r, i) <=> Imaged(h, i)
            /\ r[i].role = "picture" => h[i].role = "picture" /\ \E j \in i + 1 .. Len(h) : Imaged(h, j)
            /\ r[i].role = "unsent" => h[i].role = "unsent"
  BY RequestIs
<1> HIDE DEF r
<1>2. r \in Seq(Message) /\ Len(r) = Len(h) /\ Len(h) \in Nat
      /\ \A i \in 1 .. Len(h) : r[i].turn = h[i].turn
  BY <1>1 DEF Retold
<1>3. /\ Len(g) = Len(h) + 1
      /\ \A i \in 1 .. Len(h) : g[i] = r[i]
      /\ g[Len(h) + 1] = m
  BY <1>2, Joined
<1> HIDE DEF g
<1>4. s \in 0 .. Len(h)
  BY DEF Viewed, Ends
<1>5. n \in 0 .. Len(g) /\ n # 1 /\ (n = Len(h) \/ n = Len(h) + 1)
  BY <1>2, <1>3
<1>6. g[n].role # "tool" \/ (n < Len(g) /\ g[n + 1].role # "tool")
  BY <1>2, <1>3, <1>5
<1>7. \A i \in n + 1 .. Len(g) : ~Imaged(g, i) /\ g[i].role # "assistant"
  <2>1. ASSUME NEW i \in n + 1 .. Len(g) PROVE i = Len(h) + 1 /\ n = Len(h)
    BY <1>2, <1>3, <1>5
  <2> QED  BY <1>3, <2>1 DEF Imaged
<1>8. ASSUME NEW i \in 1 .. n, g[i].role = "picture" PROVE Later(g, i)
  <2>1. i \in 1 .. Len(h)
    <3>1. i # Len(h) + 1
      BY <1>3, <1>8 DEF Transcript!WithImages
    <3> QED  BY <1>2, <1>5, <3>1
  <2>2. r[i].role = "picture" /\ h[i].role = "picture"
    BY <1>1, <1>3, <1>8, <2>1
  <2>3. PICK k \in i + 1 .. Len(h) : Imaged(h, k)
    BY <1>1, <2>1, <2>2
  <2>4. \E j \in i + 1 .. Len(h) : Imaged(h, j) /\ h[j].turn = h[i].turn
    <3>1. CASE i <= s
      <4>1. i \in 1 .. s
        BY <1>2, <1>4, <2>1, <3>1
      <4> QED  BY <2>2, <4>1 DEF Viewed, Ends, Later
    <3>2. CASE i > s
      <4>1. i \in s + 1 .. Len(h) /\ k \in s + 1 .. Len(h)
        BY <1>2, <1>4, <2>1, <2>3, <3>2
      <4>2. Imaged(h, i)
        BY <2>2 DEF Imaged, Transcript!WithImages
      <4>3. h[i].turn = t /\ h[k].turn = t
        BY <2>3, <4>1, <4>2 DEF Viewed, Ends
      <4> QED  BY <2>3, <4>3
    <3> QED  BY <1>2, <1>4, <2>1, <3>1, <3>2
  <2>5. PICK j \in i + 1 .. Len(h) : Imaged(h, j) /\ h[j].turn = h[i].turn
    BY <2>4
  <2>6. j \in 1 .. Len(h) /\ j \in i + 1 .. Len(g)
    BY <1>2, <1>3, <2>1
  <2>7. Imaged(g, j)
    BY <1>1, <1>3, <2>5, <2>6 DEF Imaged
  <2>8. g[j].turn = h[j].turn /\ g[i].turn = h[i].turn
    BY <1>2, <1>3, <2>1, <2>6
  <2> QED  BY <2>5, <2>6, <2>7, <2>8 DEF Later
<1>9. Dropped(r) /\ Resumed(r)
  BY <1>1, <1>2, FateRetold DEF Viewed, Dropped, Resumed
<1>10. Dropped(g)
  BY <1>2, <1>9, FateJoined DEF g
<1> QED  BY <1>5, <1>6, <1>7, <1>8, <1>10 DEF Viewed, Ends, g, r

LEMMA ResumedSent ==
  ASSUME NEW h \in Seq(Message), Dropped(h), Resumed(h), NEW sees \in BOOLEAN,
         NEW m \in Message, m.role # "unsent"
  PROVE  Resumed(Transcript!build_request(h, sees) \o <<m>>)
<1> DEFINE r == Transcript!build_request(h, sees)
<1>1. Retold(h, r) /\ \A i \in 1 .. Len(h) : r[i].role = "unsent" => h[i].role = "unsent"
  BY RequestIs
<1> HIDE DEF r
<1>2. r \in Seq(Message) /\ Len(r) = Len(h)
  BY <1>1 DEF Retold
<1>3. Dropped(r) /\ Resumed(r)
  BY <1>1, <1>2, FateRetold DEF Dropped, Resumed
<1> QED  BY <1>2, <1>3, FateJoined DEF r

(* What compaction keeps: the system prompt, a brief and a tail.           *)
Shortened(h, p) == <<Transcript!System, Transcript!Msg("brief", 0, 1)>> \o SubSeq(h, p, Len(h))

LEMMA ShortenedIs ==
  ASSUME NEW h \in Seq(Message), NEW p \in 3 .. Len(h) + 1
  PROVE  /\ Shortened(h, p) \in Seq(Message)
         /\ Len(Shortened(h, p)) = Len(h) - p + 3 /\ Len(h) \in Nat
         /\ Shortened(h, p)[1].role = "system" /\ Shortened(h, p)[1].turn = 0
         /\ Shortened(h, p)[2].role = "brief" /\ Shortened(h, p)[2].turn = 0
         /\ \A i \in 3 .. Len(h) - p + 3 : Shortened(h, p)[i] = h[i + p - 3]
<1> DEFINE head == <<Transcript!System, Transcript!Msg("brief", 0, 1)>>
           tail == SubSeq(h, p, Len(h))
<1>1. Len(h) \in Nat /\ p \in Int /\ \A i \in p .. Len(h) : h[i] \in Message
  OBVIOUS
<1>2. /\ tail \in Seq(Message)
      /\ Len(tail) = IF p <= Len(h) THEN Len(h) - p + 1 ELSE 0
      /\ \A i \in 1 .. Len(h) - p + 1 : tail[i] = h[p + i - 1]
  BY <1>1, SubSeqProperties
<1>3. Len(tail) = Len(h) - p + 1
  BY <1>1, <1>2
<1>4. /\ Transcript!System \in Message /\ Transcript!Msg("brief", 0, 1) \in Message
      /\ Transcript!System.role = "system" /\ Transcript!System.turn = 0
      /\ Transcript!Msg("brief", 0, 1).role = "brief" /\ Transcript!Msg("brief", 0, 1).turn = 0
  BY DEF Transcript!System, Transcript!Msg, Message, Transcript!Roles
<1>5. head \in Seq(Message) /\ Len(head) = 2 /\ head[1] = Transcript!System
      /\ head[2] = Transcript!Msg("brief", 0, 1)
  BY <1>4
<1> HIDE DEF head, tail
<1>6. /\ head \o tail \in Seq(Message)
      /\ Len(head \o tail) = Len(head) + Len(tail)
      /\ \A i \in 1 .. Len(head) + Len(tail) :
            (head \o tail)[i] = IF i <= Len(head) THEN head[i] ELSE tail[i - Len(head)]
  BY <1>2, <1>5, ConcatProperties
<1>7. Len(head \o tail) = Len(h) - p + 3
  BY <1>1, <1>3, <1>5, <1>6
<1>8. (head \o tail)[1] = head[1] /\ (head \o tail)[2] = head[2]
  BY <1>1, <1>3, <1>5, <1>6
<1>9. ASSUME NEW i \in 3 .. Len(h) - p + 3 PROVE (head \o tail)[i] = h[i + p - 3]
  <2>1. (head \o tail)[i] = tail[i - 2]
    BY <1>1, <1>3, <1>5, <1>6
  <2>2. i - 2 \in 1 .. Len(h) - p + 1 /\ p + (i - 2) - 1 = i + p - 3
    BY <1>1
  <2> QED  BY <1>2, <2>1, <2>2
<1> QED  BY <1>1, <1>4, <1>5, <1>6, <1>7, <1>8, <1>9 DEF Shortened, head, tail

LEMMA SoundShortened ==
  ASSUME NEW h, NEW b, NEW t \in Nat, Sound(h, b, t),
         NEW p \in 3 .. Len(h) + 1, p <= Len(h) => h[p].role # "tool",
         NEW c, c \subseteq 1 .. t,
         \A n \in 1 .. t : n \in c \/ \E i \in p .. Len(h) : h[i].turn = n
  PROVE  Sound(Shortened(h, p), c, t)
<1> DEFINE g == Shortened(h, p)
<1>1. h \in Seq(Message) /\ Len(h) > 0
  BY DEF Sound, Ordered
<1>2. /\ g \in Seq(Message)
      /\ Len(g) = Len(h) - p + 3 /\ Len(h) \in Nat
      /\ g[1].role = "system" /\ g[1].turn = 0
      /\ g[2].role = "brief" /\ g[2].turn = 0
      /\ \A i \in 3 .. Len(h) - p + 3 : g[i] = h[i + p - 3]
  BY <1>1, ShortenedIs
<1> HIDE DEF g
<1>3. ASSUME NEW i \in 1 .. Len(g)
      PROVE  i = 1 \/ i = 2 \/ (i \in 3 .. Len(g) /\ i + p - 3 \in p .. Len(h)
                                /\ i + p - 3 \in 3 .. Len(h) /\ g[i] = h[i + p - 3])
  BY <1>2
<1>4. \A i \in 3 .. Len(h) : /\ h[i].turn \in 1 .. t
                             /\ h[i].role \notin {"system", "brief"}
  BY <1>1 DEF Sound, Ordered
<1>5. Ordered(g, t)
  <2>1. ASSUME NEW i \in 1 .. Len(g)
        PROVE  /\ g[i].turn \in 0 .. t
               /\ g[i].role = "system" <=> i = 1
               /\ g[i].role = "brief" => i = 2
               /\ g[i].turn = 0 <=> g[i].role \in {"system", "brief"}
    <3>1. CASE i = 1 \/ i = 2
      BY <1>2, <3>1
    <3>2. CASE i \in 3 .. Len(g) /\ i + p - 3 \in 3 .. Len(h) /\ g[i] = h[i + p - 3]
      <4>1. h[i + p - 3].turn \in 1 .. t /\ h[i + p - 3].role \notin {"system", "brief"}
        BY <1>4, <3>2
      <4> QED  BY <3>2, <4>1
    <3> QED  BY <1>3, <3>1, <3>2
  <2>2. ASSUME NEW i \in 1 .. Len(g), NEW j \in 1 .. Len(g), i < j PROVE g[i].turn <= g[j].turn
    <3>1. CASE i = 1 \/ i = 2
      BY <1>2, <2>1, <3>1
    <3>2. CASE i \in 3 .. Len(g)
      <4>1. j \in 3 .. Len(g)
        BY <2>2, <3>2
      <4>2. /\ g[i] = h[i + p - 3] /\ g[j] = h[j + p - 3]
            /\ i + p - 3 \in 1 .. Len(h) /\ j + p - 3 \in 1 .. Len(h) /\ i + p - 3 < j + p - 3
        BY <1>2, <2>2, <3>2, <4>1
      <4> QED  BY <4>2 DEF Sound, Ordered
    <3> QED  BY <1>3, <3>1, <3>2
  <2>3. Len(g) > 0
    BY <1>2
  <2> QED  BY <1>2, <2>1, <2>2, <2>3 DEF Ordered
<1>6. Answered(g)
  <2>1. ASSUME NEW i \in 1 .. Len(g), g[i].role = "tool" PROVE Caller(g, i - 1, g[i].turn)
    <3> DEFINE x == i + p - 3
    <3>1. /\ i \in 3 .. Len(g) /\ x \in p .. Len(h) /\ x \in 3 .. Len(h) /\ g[i] = h[x]
      BY <1>2, <1>3, <2>1
    <3>2. h[x].role = "tool" /\ x \in 1 .. Len(h)
      BY <1>2, <2>1, <3>1
    <3>3. p # x
      BY <1>2, <3>1, <3>2
    <3>4. PICK y \in 1 .. x - 1 : h[y].role \in SaysTools /\ h[y].turn = h[x].turn
      BY <3>2 DEF Sound, Answered, Caller
    <3>5. \E z \in p .. x - 1 : h[z].role \in SaysTools /\ h[z].turn = h[x].turn
      <4>1. CASE y >= p
        <5>1. y \in p .. x - 1
          BY <1>2, <3>1, <3>4, <4>1
        <5> QED  BY <3>4, <5>1
      <4>2. CASE y < p
        <5>1. p \in p .. x - 1 /\ p \in 1 .. Len(h) /\ y \in 1 .. Len(h) /\ p < x /\ p \in 3 .. Len(h)
          BY <1>2, <3>1, <3>3, <3>4
        <5>2. h[y].turn <= h[p].turn /\ h[p].turn <= h[x].turn
          BY <3>2, <4>2, <5>1 DEF Sound, Ordered
        <5>3. h[p].turn \in Nat /\ h[x].turn \in Nat
          <6>1. x \in 3 .. Len(h) /\ p \in 3 .. Len(h)
            BY <3>1, <5>1
          <6> HIDE DEF x
          <6>2. h[x].turn \in 1 .. t /\ h[p].turn \in 1 .. t
            BY <1>4, <6>1
          <6> QED  BY <6>2
        <5>4. h[p].turn = h[x].turn
          BY <3>4, <5>2, <5>3
        <5>5. h[p].role # "user"
          <6>1. x \in 1 .. Len(h) /\ y \in 1 .. Len(h) /\ p \in 1 .. Len(h)
            BY <3>2, <5>1
          <6> HIDE DEF x
          <6>2. (y < p /\ p < x /\ h[x].role = "tool" /\ h[p].role = "user" /\ h[p].turn = h[x].turn)
                  => h[y].turn # h[x].turn
            BY <6>1 DEF Sound, Answered
          <6> QED  BY <3>2, <3>4, <4>2, <5>1, <5>4, <6>2
        <5>6. h[p].role # "tool" /\ h[p].role \notin {"system", "brief"}
          BY <1>2, <1>4, <5>1
        <5>7. h[p].role \in Transcript!Roles
          <6>1. h[p] \in Message
            BY <1>1, <5>1
          <6> QED  BY <6>1 DEF Message
        <5>8. h[p].role \in SaysTools
          BY <5>5, <5>6, <5>7 DEF Transcript!Roles, SaysTools
        <5> QED  BY <5>1, <5>4, <5>8
      <4> QED  BY <1>2, <3>4, <4>1, <4>2
    <3>6. PICK z \in p .. x - 1 : h[z].role \in SaysTools /\ h[z].turn = h[x].turn
      BY <3>5
    <3>7. z - p + 3 \in 1 .. i - 1 /\ z - p + 3 \in 3 .. Len(h) - p + 3 /\ (z - p + 3) + p - 3 = z
      BY <1>2, <3>1
    <3>8. g[z - p + 3] = h[z]
      BY <1>2, <3>7
    <3> QED  BY <3>1, <3>6, <3>7, <3>8 DEF Caller
  <2>2. ASSUME NEW i \in 1 .. Len(g), NEW j \in 1 .. Len(g), NEW k \in 1 .. Len(g),
               j < k, k < i, g[i].role = "tool", g[k].role = "user", g[k].turn = g[i].turn
        PROVE  g[j].turn # g[i].turn
    <3>1. i \in 3 .. Len(g) /\ k \in 3 .. Len(g)
      BY <1>2, <1>3, <2>2
    <3>2. /\ g[i] = h[i + p - 3] /\ g[k] = h[k + p - 3]
          /\ i + p - 3 \in 3 .. Len(h) /\ k + p - 3 \in 3 .. Len(h)
      BY <1>2, <3>1
    <3>3. CASE j = 1 \/ j = 2
      <4>1. g[j].turn = 0 /\ g[i].turn \in 1 .. t
        BY <1>2, <1>4, <3>2, <3>3
      <4> QED  BY <4>1
    <3>4. CASE j \in 3 .. Len(g)
      <4>1. /\ g[j] = h[j + p - 3] /\ j + p - 3 \in 1 .. Len(h)
            /\ i + p - 3 \in 1 .. Len(h) /\ k + p - 3 \in 1 .. Len(h)
            /\ j + p - 3 < k + p - 3 /\ k + p - 3 < i + p - 3
        BY <1>2, <2>2, <3>2, <3>4
      <4>2. h[i + p - 3].role = "tool" /\ h[k + p - 3].role = "user"
            /\ h[k + p - 3].turn = h[i + p - 3].turn
        BY <2>2, <3>2
      <4>3. h[j + p - 3].turn # h[i + p - 3].turn
        BY <4>1, <4>2 DEF Sound, Answered
      <4> QED  BY <3>2, <4>1, <4>3
    <3> QED  BY <1>3, <3>3, <3>4
  <2> QED  BY <2>1, <2>2 DEF Answered
<1>7. Briefed(g, c, t)
  <2>1. Len(g) > 1
    BY <1>2
  <2>2. ASSUME NEW n \in 1 .. t PROVE n \in c \/ \E i \in 1 .. Len(g) : g[i].turn = n
    <3>1. ASSUME NEW i \in p .. Len(h), h[i].turn = n PROVE \E j \in 1 .. Len(g) : g[j].turn = n
      <4>1. i - p + 3 \in 1 .. Len(g) /\ i - p + 3 \in 3 .. Len(h) - p + 3 /\ (i - p + 3) + p - 3 = i
        BY <1>2
      <4>2. g[i - p + 3] = h[i]
        BY <1>2, <4>1
      <4> QED  BY <3>1, <4>1, <4>2
    <3> QED  BY <3>1
  <2> QED  BY <1>2, <2>1, <2>2 DEF Briefed
<1> QED  BY <1>5, <1>6, <1>7 DEF Sound, g

LEMMA ViewedShortened ==
  ASSUME NEW h \in Seq(Message), NEW s, NEW t, Viewed(h, s, t), NEW p \in 3 .. Len(h) + 1
  PROVE  /\ Viewed(Shortened(h, p), IF s < p THEN 2 ELSE s - p + 3, t)
         /\ Resumed(h) => Resumed(Shortened(h, p))
<1> DEFINE g == Shortened(h, p)
           n == IF s < p THEN 2 ELSE s - p + 3
<1>1. /\ g \in Seq(Message)
      /\ Len(g) = Len(h) - p + 3 /\ Len(h) \in Nat
      /\ g[1].role = "system" /\ g[1].turn = 0
      /\ g[2].role = "brief" /\ g[2].turn = 0
      /\ \A i \in 3 .. Len(h) - p + 3 : g[i] = h[i + p - 3]
  BY ShortenedIs
<1> HIDE DEF g
<1>2. s \in 0 .. Len(h)
  BY DEF Viewed, Ends
<1>3. n \in 0 .. Len(g) /\ n # 1 /\ n >= 2 /\ n \in Nat
  BY <1>1, <1>2
<1>4. ASSUME NEW i \in 3 .. Len(g)
      PROVE  /\ g[i] = h[i + p - 3] /\ i + p - 3 \in 1 .. Len(h)
             /\ i \in n + 1 .. Len(g) => i + p - 3 \in s + 1 .. Len(h)
             /\ i \in 1 .. n => i + p - 3 \in 1 .. s
  BY <1>1, <1>2
<1>5. g[n].role # "tool" \/ (n < Len(g) /\ g[n + 1].role # "tool")
  <2>1. CASE s < p
    BY <1>1, <2>1
  <2>2. CASE s >= p
    <3>1. n \in 3 .. Len(g) /\ n + p - 3 = s /\ s > 0 /\ s \in 1 .. Len(h)
      BY <1>1, <1>2, <2>2
    <3>2. g[n] = h[s]
      BY <1>1, <3>1
    <3>3. s < Len(h) => n < Len(g) /\ g[n + 1] = h[s + 1]
      <4>1. SUFFICES ASSUME s < Len(h) PROVE n < Len(g) /\ g[n + 1] = h[s + 1]
        OBVIOUS
      <4>2. n + 1 \in 3 .. Len(h) - p + 3 /\ (n + 1) + p - 3 = s + 1 /\ n < Len(g)
        BY <1>1, <1>2, <2>2, <3>1, <4>1
      <4> HIDE DEF n
      <4> QED  BY <1>1, <4>2
    <3> HIDE DEF n
    <3> QED  BY <3>1, <3>2, <3>3 DEF Viewed, Ends
  <2> QED  BY <1>1, <1>2, <2>1, <2>2
<1> HIDE DEF n
<1>6. ASSUME NEW i \in n + 1 .. Len(g)
      PROVE  (Imaged(g, i) => g[i].turn = t) /\ g[i].role # "assistant"
  <2>1. i \in 3 .. Len(g)
    BY <1>1, <1>3
  <2>2. g[i] = h[i + p - 3] /\ i + p - 3 \in s + 1 .. Len(h)
    BY <1>4, <2>1
  <2> QED  BY <2>2 DEF Viewed, Ends, Imaged
<1>7. ASSUME NEW i \in 1 .. n, g[i].role = "picture" PROVE Later(g, i)
  <2>1. i \in 3 .. Len(g)
    BY <1>1, <1>3, <1>7
  <2>2. g[i] = h[i + p - 3] /\ i + p - 3 \in 1 .. s
    BY <1>4, <2>1
  <2>3. PICK j \in (i + p - 3) + 1 .. Len(h) : Imaged(h, j) /\ h[j].turn = h[i + p - 3].turn
    BY <1>7, <2>2 DEF Viewed, Ends, Later
  <2>4. j - p + 3 \in i + 1 .. Len(g) /\ j - p + 3 \in 3 .. Len(h) - p + 3 /\ (j - p + 3) + p - 3 = j
    BY <1>1, <1>2, <2>1, <2>2
  <2>5. g[j - p + 3] = h[j]
    BY <1>1, <2>4
  <2> QED  BY <2>2, <2>3, <2>4, <2>5 DEF Later, Imaged
<1>8. ASSUME NEW i \in 1 .. Len(g), g[i].role = "unsent"
      PROVE  /\ i + p - 3 \in 1 .. Len(h) /\ h[i + p - 3].role = "unsent"
             /\ Followed(h, i + p - 3) => Followed(g, i)
             /\ Prompted(h, i + p - 3) => Prompted(g, i)
             /\ Parted(h, i + p - 3) => Parted(g, i)
  <2> DEFINE k == i + p - 3
  <2>1. i \in 3 .. Len(g)
    BY <1>1, <1>8
  <2>2. g[i] = h[k] /\ k \in 1 .. Len(h) /\ k \in Int
    BY <1>4, <2>1
  <2>3. ASSUME NEW j \in k + 1 .. Len(h)
        PROVE  /\ j - p + 3 \in i + 1 .. Len(g) /\ j - p + 3 \in 3 .. Len(g)
               /\ g[j - p + 3] = h[j]
    <3>1. /\ j - p + 3 \in i + 1 .. Len(g) /\ j - p + 3 \in 3 .. Len(g)
          /\ (j - p + 3) + p - 3 = j
      BY <1>1, <2>1
    <3> QED  BY <1>4, <3>1
  <2>4. Followed(h, k) => Followed(g, i)
    BY <2>2, <2>3 DEF Followed
  <2>5. Prompted(h, k) => Prompted(g, i)
    BY <2>3 DEF Prompted
  <2>6. ASSUME Parted(h, k) PROVE Parted(g, i)
    <3> SUFFICES ASSUME NEW j \in i + 1 .. Len(g), g[j].role = "assistant"
                 PROVE  \E l \in i + 1 .. j - 1 : g[l].role = "user"
      BY DEF Parted
    <3>1. j \in 3 .. Len(g) /\ j + p - 3 \in k + 1 .. Len(h)
      BY <1>1, <2>1
    <3>2. g[j] = h[j + p - 3]
      BY <1>4, <3>1
    <3>3. PICK l \in k + 1 .. (j + p - 3) - 1 : h[l].role = "user"
      BY <2>6, <3>1, <3>2 DEF Parted
    <3>4. l \in k + 1 .. Len(h) /\ l - p + 3 \in i + 1 .. j - 1
      BY <1>1, <2>1, <3>1
    <3> QED  BY <2>3, <3>3, <3>4
  <2> QED  BY <1>8, <2>2, <2>4, <2>5, <2>6
<1>9. Dropped(g)
  BY <1>8 DEF Viewed, Dropped
<1>10. Resumed(h) => Resumed(g)
  BY <1>8 DEF Resumed
<1> QED  BY <1>3, <1>5, <1>6, <1>7, <1>9, <1>10 DEF Viewed, Ends, g, n

(* A tail of a history weighs no more than a longer one.                   *)
LEMMA TextIs ==
  ASSUME NEW h \in Seq(Message)
  PROVE  /\ IsFiniteSet(Transcript!Text(h))
         /\ Transcript!Weight(h) = Cardinality(Transcript!Text(h)) /\ Transcript!Weight(h) \in Nat
         /\ \A z : z \in Transcript!Text(h) <=>
                      \E i \in 1 .. Len(h) : \E w \in 1 .. h[i].weight : z = <<i, w>>
<1>1. Len(h) \in Nat /\ DOMAIN h = 1 .. Len(h) /\ \A i \in 1 .. Len(h) : h[i] \in Message
  OBVIOUS
<1>2. \A i \in 1 .. Len(h) : h[i].weight \in Nat
  BY <1>1 DEF Message
<1> DEFINE Cell(i) == {i} \X (1 .. h[i].weight)
           Cells == {Cell(i) : i \in 1 .. Len(h)}
<1>3. Transcript!Text(h) = UNION Cells
  BY <1>1 DEF Transcript!Text
<1>4. IsFiniteSet(Cells)
  <2>1. IsFiniteSet(1 .. Len(h))
    BY <1>1, FS_Interval
  <2> DEFINE f == [i \in 1 .. Len(h) |-> Cell(i)]
  <2> HIDE DEF Cell
  <2>2. f \in Surjection(1 .. Len(h), Cells)
    <3>1. f \in [1 .. Len(h) -> Cells] /\ \A c \in Cells : \E i \in 1 .. Len(h) : f[i] = c
      OBVIOUS
    <3> QED  BY <3>1 DEF Surjection
  <2> QED  BY <2>1, <2>2, FS_Surjection
<1>5. ASSUME NEW i \in 1 .. Len(h) PROVE IsFiniteSet(Cell(i))
  <2>1. h[i].weight \in Int /\ 1 \in Int
    BY <1>2
  <2>2. IsFiniteSet(1 .. h[i].weight)
    BY <2>1, FS_Interval
  <2>3. IsFiniteSet({i})
    BY FS_Singleton
  <2> QED  BY <2>2, <2>3, FS_Product
<1>6. IsFiniteSet(UNION Cells)
  <2>1. \A c \in Cells : IsFiniteSet(c)
    <3> HIDE DEF Cell
    <3> QED  BY <1>5
  <2> QED  BY <1>4, <2>1, FS_UNION
<1>7. \A s : Transcript!Cardinality(s) = Cardinality(s)
  BY DEF Transcript!Cardinality, Cardinality
<1>8. Cardinality(Transcript!Text(h)) \in Nat
  BY <1>3, <1>6, FS_CardinalityType
<1>9. Transcript!Weight(h) = Cardinality(Transcript!Text(h))
  BY <1>7 DEF Transcript!Weight
<1>10. \A z : z \in Transcript!Text(h) <=>
                 \E i \in 1 .. Len(h) : \E w \in 1 .. h[i].weight : z = <<i, w>>
  BY <1>3
<1> QED  BY <1>3, <1>6, <1>8, <1>9, <1>10

LEMMA WeightShrinks ==
  ASSUME NEW h \in Seq(Message), NEW a \in Nat \ {0}, NEW b \in Nat, a <= b
  PROVE  /\ Transcript!Weight(SubSeq(h, b, Len(h))) \in Nat
         /\ Transcript!Weight(SubSeq(h, a, Len(h))) \in Nat
         /\ Transcript!Weight(SubSeq(h, b, Len(h))) <= Transcript!Weight(SubSeq(h, a, Len(h)))
<1> DEFINE From(n) == SubSeq(h, n, Len(h))
<1>1. Len(h) \in Nat
  OBVIOUS
<1>2. ASSUME NEW n \in Nat \ {0}
      PROVE  /\ From(n) \in Seq(Message)
             /\ Len(From(n)) = IF n <= Len(h) THEN Len(h) - n + 1 ELSE 0
             /\ \A i \in 1 .. Len(h) - n + 1 : From(n)[i] = h[n + i - 1]
  <2>1. \A i \in n .. Len(h) : h[i] \in Message
    OBVIOUS
  <2> QED  BY <1>1, <2>1, SubSeqProperties
<1>3. b \in Nat \ {0}
  OBVIOUS
<1>4. /\ From(a) \in Seq(Message) /\ From(b) \in Seq(Message)
      /\ Len(From(a)) = (IF a <= Len(h) THEN Len(h) - a + 1 ELSE 0)
      /\ Len(From(b)) = (IF b <= Len(h) THEN Len(h) - b + 1 ELSE 0)
      /\ \A i \in 1 .. Len(h) - a + 1 : From(a)[i] = h[a + i - 1]
      /\ \A i \in 1 .. Len(h) - b + 1 : From(b)[i] = h[b + i - 1]
  BY <1>2, <1>3
<1> HIDE DEF From
<1>5. ASSUME NEW i \in 1 .. Len(From(b))
      PROVE  i + (b - a) \in 1 .. Len(From(a)) /\ From(b)[i] = From(a)[i + (b - a)]
  <2>1. b <= Len(h) /\ i \in 1 .. Len(h) - b + 1
    BY <1>1, <1>4
  <2>2. i + (b - a) \in 1 .. Len(h) - a + 1 /\ a + (i + (b - a)) - 1 = b + i - 1 /\ a <= Len(h)
    BY <1>1, <2>1
  <2> QED  BY <1>4, <2>1, <2>2
<1> DEFINE S1 == Transcript!Text(From(b))
           T1 == Transcript!Text(From(a))
           Shift(z) == <<z[1] + (b - a), z[2]>>
           f  == [z \in S1 |-> Shift(z)]
<1>6. ASSUME NEW z \in S1
      PROVE  z = <<z[1], z[2]>> /\ z[1] \in Int /\ Shift(z) \in T1
  <2>1. PICK i \in 1 .. Len(From(b)) : \E w \in 1 .. From(b)[i].weight : z = <<i, w>>
    BY <1>4, TextIs
  <2>2. PICK w \in 1 .. From(b)[i].weight : z = <<i, w>>
    BY <2>1
  <2>3. Shift(z) = <<i + (b - a), w>>
    BY <2>2
  <2>4. i + (b - a) \in 1 .. Len(From(a)) /\ w \in 1 .. From(a)[i + (b - a)].weight
    BY <1>5, <2>2
  <2>5. <<i + (b - a), w>> \in T1
    BY <1>4, <2>4, TextIs
  <2> QED  BY <2>2, <2>3, <2>5
<1>7. ASSUME NEW y \in S1, NEW z \in S1, Shift(y) = Shift(z) PROVE y = z
  <2>1. y[1] + (b - a) = z[1] + (b - a) /\ y[2] = z[2]
    BY <1>7
  <2>2. y[1] \in Int /\ z[1] \in Int /\ y = <<y[1], y[2]>> /\ z = <<z[1], z[2]>>
    BY <1>6
  <2>3. y[1] = z[1]
    BY <2>1, <2>2
  <2> QED  BY <2>1, <2>2, <2>3
<1>9. f \in Injection(S1, T1)
  <2> HIDE DEF S1, T1, Shift
  <2>1. f \in [S1 -> T1]
    BY <1>6
  <2>2. \A y, z \in DOMAIN f : f[y] = f[z] => y = z
    BY <1>7
  <2> QED  BY <2>1, <2>2 DEF Injection, IsInjective
<1>10. IsFiniteSet(T1)
  BY <1>4, TextIs
<1>11. Cardinality(S1) <= Cardinality(T1)
  <2> HIDE DEF S1, T1, f
  <2> QED  BY <1>9, <1>10, FS_Injection
<1>12. /\ Transcript!Weight(From(a)) = Cardinality(T1) /\ Transcript!Weight(From(a)) \in Nat
       /\ Transcript!Weight(From(b)) = Cardinality(S1) /\ Transcript!Weight(From(b)) \in Nat
  BY <1>4, TextIs
<1> QED  BY <1>11, <1>12 DEF From

(* The split point: behind the walk back, past the results it lands on.    *)
LEMMA WalkBackIs ==
  ASSUME NEW h \in Seq(Message), h = history, Len(h) > 3
  PROVE  /\ Transcript!WalkBack \in 2 .. Len(h)
         /\ Transcript!WalkBack > 2 =>
               Transcript!Weight(SubSeq(h, Transcript!WalkBack, Len(h))) >= Keep
<1> DEFINE Heavy(i) == Transcript!Weight(SubSeq(h, i, Len(h))) >= Keep
           places == {i \in 2 .. Len(h) : Heavy(i)} \cup {2}
<1>1. Transcript!WalkBack = Transcript!Max(places)
  BY DEF Transcript!WalkBack
<1> HIDE DEF Heavy
<1>2. Len(h) \in Nat /\ places \subseteq 0 .. Len(h) /\ places # {}
  OBVIOUS
<1>3. \E x \in places : \A y \in places : x >= y
  <2> HIDE DEF places
  <2> QED  BY <1>2, Greatest
<1>4. Transcript!Max(places) \in places
  <2> HIDE DEF places
  <2> QED  BY <1>3 DEF Transcript!Max
<1>5. Transcript!WalkBack \in 2 .. Len(h) /\ (Transcript!WalkBack > 2 => Heavy(Transcript!WalkBack))
  BY <1>1, <1>2, <1>4
<1> QED  BY <1>5 DEF Heavy

LEMMA SplitIs ==
  ASSUME NEW h \in Seq(Message), h = history, Len(h) > 3
  PROVE  /\ Transcript!split_point \in Transcript!WalkBack .. Len(h) + 1
         /\ Transcript!split_point <= Len(h) => h[Transcript!split_point].role # "tool"
         /\ \A i \in Transcript!WalkBack .. Transcript!split_point - 1 : h[i].role = "tool"
<1> DEFINE w == Transcript!WalkBack
           places == {i \in w .. Len(h) + 1 : i <= Len(h) => h[i].role # "tool"}
<1>1. Transcript!split_point = Transcript!Min(places)
  BY DEF Transcript!split_point
<1>2. w \in 2 .. Len(h) /\ Len(h) \in Nat
  BY WalkBackIs
<1> HIDE DEF w
<1>3. places \subseteq Nat /\ Len(h) + 1 \in places
  BY <1>2
<1>4. \E x \in places : \A y \in places : x <= y
  <2> HIDE DEF places
  <2> QED  BY <1>3, Least
<1>5. Transcript!Min(places) \in places /\ \A y \in places : Transcript!Min(places) <= y
  <2> HIDE DEF places
  <2> QED  BY <1>4 DEF Transcript!Min
<1> DEFINE p == Transcript!split_point
<1>6. p \in places /\ \A y \in places : p <= y
  BY <1>1, <1>5
<1> HIDE DEF p
<1>7. ASSUME NEW i \in w .. p - 1 PROVE h[i].role = "tool"
  <2>1. i \in w .. Len(h) + 1 /\ ~(p <= i)
    BY <1>2, <1>6
  <2> QED  BY <1>6, <2>1
<1> QED  BY <1>6, <1>7 DEF w, p

(* A history is compacted when it holds more than a tail may.              *)
LEMMA ThresholdIs ==
  ASSUME NEW ctx \in Windows
  PROVE  Keep \in Nat /\ Transcript!compact_threshold(ctx) \in Int /\ Keep < Transcript!compact_threshold(ctx)
<1>1. /\ Keep \in Nat /\ CompactAt \in Nat /\ Floor \in Nat /\ Ceiling \in Nat /\ ctx \in Nat
      /\ Keep < Floor /\ Floor <= CompactAt
  BY OfficeAssumption DEF OfficeAssumption, Transcript!TranscriptAssumption
<1> DEFINE m == Transcript!Max({Floor, ctx - Ceiling})
           n == Transcript!Min({CompactAt, m})
<1>2. m \in {Floor, ctx - Ceiling} /\ m >= Floor
  <2>1. \E x \in {Floor, ctx - Ceiling} : \A y \in {Floor, ctx - Ceiling} : x >= y
    BY <1>1
  <2> QED  BY <2>1 DEF Transcript!Max
<1> HIDE DEF m
<1>3. n \in {CompactAt, m}
  <2>1. \E x \in {CompactAt, m} : \A y \in {CompactAt, m} : x <= y
    BY <1>1, <1>2
  <2> QED  BY <2>1 DEF Transcript!Min
<1> HIDE DEF n
<1>4. Transcript!compact_threshold(ctx) = IF ctx = 0 THEN CompactAt ELSE n
  BY DEF Transcript!compact_threshold, n, m
<1> QED  BY <1>1, <1>2, <1>3, <1>4

LEMMA UnsentIsLong ==
  ASSUME NEW h \in Seq(Message), h = history, Len(h) > 3, Keep \in Nat,
         Keep <= Transcript!Weight(h), NEW s, NEW t, Viewed(h, s, t),
         s + 1 < Transcript!split_point
  PROVE  Keep <= Transcript!Weight(SubSeq(h, s + 1, Len(h)))
         /\ Transcript!Weight(SubSeq(h, s + 1, Len(h))) \in Nat
<1> DEFINE w == Transcript!WalkBack
           p == Transcript!split_point
<1>1. /\ w \in 2 .. Len(h) /\ p \in w .. Len(h) + 1 /\ Len(h) \in Nat
      /\ w > 2 => Transcript!Weight(SubSeq(h, w, Len(h))) >= Keep
      /\ \A i \in w .. p - 1 : h[i].role = "tool"
      /\ s + 1 < p
  BY WalkBackIs, SplitIs
<1> HIDE DEF w, p
<1>2. s \in 0 .. Len(h) /\ s # 1 /\ (s > 0 => h[s].role # "tool" \/ (s < Len(h) /\ h[s + 1].role # "tool"))
  BY DEF Viewed, Ends
<1>3. s + 1 <= w
  <2> SUFFICES ASSUME s + 1 > w PROVE FALSE
    BY <1>1, <1>2
  <2>1. s \in w .. p - 1 /\ s + 1 \in w .. p - 1 /\ s > 0
    BY <1>1, <1>2
  <2> QED  BY <1>1, <1>2, <2>1
<1>4. s + 1 \in Nat \ {0} /\ w \in Nat
  BY <1>1, <1>2
<1>5. /\ Transcript!Weight(SubSeq(h, w, Len(h))) \in Nat
      /\ Transcript!Weight(SubSeq(h, s + 1, Len(h))) \in Nat
      /\ Transcript!Weight(SubSeq(h, w, Len(h))) <= Transcript!Weight(SubSeq(h, s + 1, Len(h)))
  BY <1>3, <1>4, WeightShrinks
<1>6. CASE w > 2
  BY <1>1, <1>5, <1>6
<1>7. CASE ~(w > 2)
  <2>1. s + 1 = 1
    BY <1>1, <1>2, <1>3, <1>7
  <2>2. SubSeq(h, s + 1, Len(h)) = h
    BY <2>1, SubSeqFull
  <2> QED  BY <1>5, <2>2
<1> QED  BY <1>6, <1>7

(* The invariant of a transcript.                                          *)
Story ==
  /\ turn \in Nat /\ Sound(history, brief, turn) /\ Viewed(history, shown, turn)
  /\ phase \in {"idle", "head", "call", "tools"}
  /\ left \in 0 .. MaxCalls /\ (phase = "tools" <=> left > 0)
  /\ phase = "idle" => Blank(history)
  /\ phase # "idle" => Len(history) > 1 /\ Resumed(history)
  /\ phase = "tools" => CallsFor(history, turn)
  /\ unread > 0 => unread >= Keep

LEMMA StoryInit == Transcript!Init => Story
<1> SUFFICES ASSUME Transcript!Init PROVE Story
  OBVIOUS
<1>1. /\ history = <<Transcript!System>> /\ brief = {} /\ phase = "idle" /\ left = 0 /\ turn = 0
      /\ shown = 0 /\ unread = 0
  BY DEF Transcript!Init
<1>2. Transcript!System \in Message /\ Transcript!System.role = "system" /\ Transcript!System.turn = 0
  BY DEF Transcript!System, Transcript!Msg, Message, Transcript!Roles
<1>3. history \in Seq(Message) /\ Len(history) = 1 /\ history[1].role = "system" /\ history[1].turn = 0
  BY <1>1, <1>2
<1>4. \A i \in 1 .. Len(history) : i = 1
  BY <1>3
<1>5. Ordered(history, turn)
  BY <1>1, <1>3, <1>4 DEF Ordered
<1>6. Answered(history) /\ Briefed(history, brief, turn)
  BY <1>1, <1>3, <1>4 DEF Answered, Briefed
<1>7. Blank(history)
  BY <1>3, <1>4 DEF Blank, Imaged, Transcript!WithImages
<1>8. Viewed(history, shown, turn)
  BY <1>1, <1>3, <1>4, <1>7 DEF Viewed, Ends, Blank, Dropped
<1>9. MaxCalls \in Nat
  BY OfficeAssumption DEF OfficeAssumption, Transcript!TranscriptAssumption
<1> QED  BY <1>1, <1>5, <1>6, <1>7, <1>8, <1>9 DEF Story, Sound

LEMMA Said ==
  ASSUME NEW r \in Transcript!Roles, NEW u \in Nat, NEW w \in Nat
  PROVE  /\ Transcript!Msg(r, u, w) \in Message
         /\ Transcript!Msg(r, u, w).role = r /\ Transcript!Msg(r, u, w).turn = u
  BY DEF Transcript!Msg, Message

LEMMA NewCaller ==
  ASSUME NEW h \in Seq(Message), NEW m \in Message, NEW u, m.role = "assistant", m.turn = u,
         \A j, k \in 1 .. Len(h) : (j < k /\ h[k].role = "user" /\ h[k].turn = u) => h[j].turn # u
  PROVE  CallsFor(h \o <<m>>, u)
<1> DEFINE g == h \o <<m>>
<1>1. /\ Len(g) = Len(h) + 1 /\ Len(h) \in Nat
      /\ \A i \in 1 .. Len(h) : g[i] = h[i]
      /\ g[Len(h) + 1] = m
  BY Joined
<1> HIDE DEF g
<1>2. Caller(g, Len(g), u)
  <2>1. Len(h) + 1 \in 1 .. Len(g)
    BY <1>1
  <2> QED  BY <1>1, <2>1 DEF Caller, SaysTools
<1>3. ASSUME NEW j \in 1 .. Len(g), NEW k \in 1 .. Len(g), j < k, g[k].role = "user", g[k].turn = u
      PROVE  g[j].turn # u
  <2>1. k # Len(h) + 1
    BY <1>1, <1>3
  <2>2. j \in 1 .. Len(h) /\ k \in 1 .. Len(h)
    BY <1>1, <1>3, <2>1
  <2> QED  BY <1>1, <1>3, <2>2
<1> QED  BY <1>2, <1>3 DEF CallsFor, g

LEMMA StillCalls ==
  ASSUME NEW h \in Seq(Message), NEW m \in Message, NEW u, m.role # "user", CallsFor(h, u)
  PROVE  CallsFor(h \o <<m>>, u)
<1> DEFINE g == h \o <<m>>
<1>1. /\ Len(g) = Len(h) + 1 /\ Len(h) \in Nat
      /\ \A i \in 1 .. Len(h) : g[i] = h[i]
      /\ g[Len(h) + 1] = m
  BY Joined
<1> HIDE DEF g
<1>2. Caller(g, Len(g), u)
  BY <1>1 DEF CallsFor, Caller
<1>3. ASSUME NEW j \in 1 .. Len(g), NEW k \in 1 .. Len(g), j < k, g[k].role = "user", g[k].turn = u
      PROVE  g[j].turn # u
  <2>1. k # Len(h) + 1
    BY <1>1, <1>3
  <2>2. j \in 1 .. Len(h) /\ k \in 1 .. Len(h)
    BY <1>1, <1>3, <2>1
  <2> QED  BY <1>1, <1>3, <2>2 DEF CallsFor
<1> QED  BY <1>2, <1>3 DEF CallsFor, g

LEMMA TaskKeeps == ASSUME Story, Transcript!StartTask PROVE Story'
<1> DEFINE m == Transcript!Msg("user", turn + 1, 1)
<1>1. /\ phase = "idle" /\ turn' = turn + 1 /\ history' = history \o <<m>> /\ phase' = "head"
      /\ brief' = brief /\ left' = left /\ shown' = shown /\ unread' = unread
  BY DEF Transcript!StartTask, Transcript!Push
<1>2. m \in Message /\ m.role = "user" /\ m.turn = turn + 1
  BY Said DEF Story, Transcript!Roles
<1> HIDE DEF m
<1>3. turn \in Nat /\ history \in Seq(Message) /\ Sound(history, brief, turn) /\ turn' \in Nat
  BY <1>1 DEF Story, Sound, Ordered
<1>4. Sound(history', brief', turn')
  BY <1>1, <1>2, <1>3, SoundJoined
<1>5. Viewed(history', shown', turn')
  <2>1. Viewed(history, shown, turn) /\ \A i \in shown + 1 .. Len(history) : ~Imaged(history, i)
    BY <1>1 DEF Story, Blank, Viewed, Ends
  <2> QED  BY <1>1, <1>2, <1>3, <2>1, ViewedJoined DEF Transcript!WithImages
<1>6. Len(history') > 1 /\ Resumed(history')
  <2>1. Len(history) > 0
    BY <1>3 DEF Sound, Ordered
  <2>2. Dropped(history)
    BY DEF Story, Viewed
  <2> QED  BY <1>1, <1>2, <1>3, <2>1, <2>2, Joined, FateJoined
<1> QED  BY <1>1, <1>3, <1>4, <1>5, <1>6 DEF Story

LEMMA StoryRows ==
  ASSUME Story
  PROVE  /\ history \in Seq(Message) /\ Len(history) \in Nat \ {0} /\ turn \in Nat
         /\ \A j \in 1 .. Len(history) : history[j].turn # turn + 1
<1>1. history \in Seq(Message) /\ Len(history) \in Nat \ {0} /\ turn \in Nat
  BY DEF Story, Sound, Ordered
<1>2. \A j \in 1 .. Len(history) : history[j].turn \in 0 .. turn
  BY DEF Story, Sound, Ordered
<1> QED  BY <1>1, <1>2

LEMMA AnswerKeeps ==
  ASSUME Story, NEW n \in 0 .. MaxCalls, NEW sees \in BOOLEAN, Transcript!Answer(n, sees)
  PROVE  Story'
<1> DEFINE r == Transcript!build_request(history, sees)
           m == Transcript!Msg("assistant", turn + 1, IF n = 0 THEN 1 ELSE 0)
           g == r \o <<m>>
<1>1. /\ phase = "call" /\ turn' = turn + 1
      /\ history' = (IF n = 0 THEN Transcript!Saved(g) ELSE g)
      /\ left' = n /\ phase' = (IF n = 0 THEN "idle" ELSE "tools")
      /\ shown' = Len(history) + 1 /\ brief' = brief /\ unread' = unread
  BY DEF Transcript!Answer
<1>2. m \in Message /\ m.role = "assistant" /\ m.turn = turn + 1
  BY Said DEF Story, Transcript!Roles
<1>3. /\ history \in Seq(Message) /\ Len(history) \in Nat \ {0} /\ turn \in Nat
      /\ \A j \in 1 .. Len(history) : history[j].turn # turn + 1
  BY StoryRows
<1>4. Retold(history, r)
  BY <1>3, RequestIs
<1>5. Viewed(g, Len(history) + 1, turn + 1) /\ Resumed(g)
  <2>1. Len(history) > 1 /\ Viewed(history, shown, turn) /\ Resumed(history) /\ Dropped(history)
    BY <1>1 DEF Story, Viewed
  <2>2. Len(history) + 1 \in {Len(history), Len(history) + 1}
    OBVIOUS
  <2>3. m.role \notin Transcript!WithImages \cup {"tool", "unsent"}
    BY <1>2 DEF Transcript!WithImages
  <2> HIDE DEF m
  <2> QED  BY <1>2, <1>3, <2>1, <2>2, <2>3, ViewedSent, ResumedSent
<1> HIDE DEF r, m
<1>6. Sound(r, brief, turn)
  BY <1>3, <1>4, SoundRetold DEF Story
<1>7. Sound(g, brief, turn + 1)
  BY <1>2, <1>3, <1>6, SoundJoined
<1>8. r \in Seq(Message) /\ Len(r) = Len(history)
      /\ \A j \in 1 .. Len(r) : r[j].turn # turn + 1
  BY <1>3, <1>4 DEF Retold
<1>9. g \in Seq(Message) /\ Len(g) = Len(history) + 1
  BY <1>2, <1>8, Joined
<1>10. CallsFor(g, turn + 1)
  BY <1>2, <1>8, NewCaller
<1> HIDE DEF g
<1>11. CASE n = 0
  <2>1. history' = Transcript!Saved(g)
    BY <1>1, <1>11
  <2>2. Retold(g, Transcript!Saved(g)) /\ Blank(Transcript!Saved(g))
    BY <1>9, SavedIs
  <2>3. turn + 1 \in Nat
    BY <1>3
  <2>4. Sound(Transcript!Saved(g), brief, turn + 1)
    BY <1>7, <2>2, <2>3, SoundRetold
  <2>5. Viewed(Transcript!Saved(g), Len(history) + 1, turn + 1)
    BY <1>5, <1>9, ViewedSaved
  <2> QED  BY <1>1, <1>11, <2>1, <2>2, <2>3, <2>4, <2>5 DEF Story
<1>12. CASE n # 0
  <2>1. history' = g /\ phase' = "tools" /\ n > 0 /\ turn + 1 \in Nat /\ Len(g) > 1
    BY <1>1, <1>3, <1>9, <1>12
  <2> QED  BY <1>1, <1>5, <1>7, <1>10, <2>1 DEF Story
<1> QED  BY <1>11, <1>12

LEMMA NudgeKeeps ==
  ASSUME Story, NEW said \in BOOLEAN, NEW sees \in BOOLEAN, Transcript!Nudge(said, sees)
  PROVE  Story'
<1> DEFINE r == Transcript!build_request(history, sees)
           m == Transcript!Msg("assistant", turn + 1, 0)
           q == Transcript!Msg("user", turn + 1, 1)
<1>1. /\ phase = "call" /\ turn' = turn + 1
      /\ history' = r \o (IF said THEN <<m>> ELSE <<>>) \o <<q>>
      /\ phase' = "head" /\ shown' = Len(history) + (IF said THEN 1 ELSE 0)
      /\ brief' = brief /\ left' = left /\ unread' = unread
  BY DEF Transcript!Nudge
<1>2. /\ m \in Message /\ m.role = "assistant" /\ m.turn = turn + 1
      /\ q \in Message /\ q.role = "user" /\ q.turn = turn + 1
  BY Said DEF Story, Transcript!Roles
<1>3. /\ history \in Seq(Message) /\ Len(history) \in Nat \ {0} /\ turn \in Nat
      /\ \A j \in 1 .. Len(history) : history[j].turn # turn + 1
  BY StoryRows
<1>4. Retold(history, r)
  BY <1>3, RequestIs
<1>5. Len(history) > 1 /\ Viewed(history, shown, turn) /\ Resumed(history) /\ Dropped(history)
  BY <1>1 DEF Story, Viewed
<1>6. /\ m.role \notin Transcript!WithImages \cup {"tool", "unsent"}
      /\ q.role \notin Transcript!WithImages \cup {"tool", "unsent", "assistant"}
  BY <1>2 DEF Transcript!WithImages
<1> HIDE DEF m, q
<1>7. /\ Viewed(r \o <<m>>, Len(history) + 1, turn + 1) /\ Resumed(r \o <<m>>)
      /\ Viewed(r \o <<q>>, Len(history), turn + 1) /\ Resumed(r \o <<q>>)
  BY <1>2, <1>3, <1>5, <1>6, ViewedSent, ResumedSent
<1> HIDE DEF r
<1>8. r \in Seq(Message) /\ Len(r) = Len(history)
  BY <1>4 DEF Retold
<1>9. Sound(r, brief, turn)
  BY <1>3, <1>4, SoundRetold DEF Story
<1>10. /\ Sound(r \o <<m>>, brief, turn + 1) /\ Sound(r \o <<q>>, brief, turn + 1)
       /\ r \o <<m>> \in Seq(Message) /\ Len(r \o <<m>>) = Len(history) + 1
       /\ Len(r \o <<q>>) = Len(history) + 1
  BY <1>2, <1>3, <1>8, <1>9, SoundJoined, Joined
<1>11. CASE said
  <2> DEFINE g == r \o <<m>>
  <2>1. history' = g \o <<q>>
    BY <1>1, <1>11
  <2>2. Sound(g, brief, turn + 1) /\ Viewed(g, Len(history) + 1, turn + 1) /\ g \in Seq(Message)
        /\ Len(g) = Len(history) + 1 /\ Resumed(g) /\ Dropped(g)
    BY <1>7, <1>10 DEF Viewed
  <2> HIDE DEF g
  <2>3. Sound(g \o <<q>>, brief, turn + 1)
    BY <1>2, <1>3, <2>2, SoundJoined
  <2>4. Viewed(g \o <<q>>, Len(history) + 1, turn + 1)
    BY <1>2, <1>6, <2>2, ViewedJoined
  <2>5. Len(g \o <<q>>) > 1 /\ turn + 1 \in Nat /\ Resumed(g \o <<q>>)
    BY <1>2, <1>3, <1>6, <2>2, Joined, FateJoined
  <2>6. shown' = Len(history) + 1
    BY <1>1, <1>11
  <2> QED  BY <1>1, <2>1, <2>3, <2>4, <2>5, <2>6 DEF Story
<1>12. CASE ~said
  <2>1. history' = r \o <<q>>
    <3>1. history' = (r \o <<>>) \o <<q>>
      BY <1>1, <1>12
    <3>2. r \o <<>> = r
      BY <1>8, ConcatEmptySeq
    <3> QED  BY <3>1, <3>2
  <2>2. shown' = Len(history) /\ Len(r \o <<q>>) > 1 /\ turn + 1 \in Nat
    BY <1>1, <1>3, <1>10, <1>12
  <2> QED  BY <1>1, <1>7, <1>10, <2>1, <2>2 DEF Story
<1> QED  BY <1>11, <1>12

LEMMA ResultKeeps ==
  ASSUME Story, NEW w \in {1, Big}, NEW pictured \in BOOLEAN, Transcript!Result(w, pictured)
  PROVE  Story'
<1> DEFINE m == Transcript!Msg("tool", turn, w)
           q == Transcript!Msg("picture", turn, 0)
<1>1. /\ phase = "tools" /\ turn' = turn
      /\ history' = history \o (<<m>> \o (IF pictured THEN <<q>> ELSE <<>>))
      /\ left' = left - 1 /\ phase' = (IF left = 1 THEN "head" ELSE "tools")
      /\ shown' = shown /\ brief' = brief /\ unread' = unread
  BY DEF Transcript!Result, Transcript!Push, Transcript!image_followup
<1>2. /\ history \in Seq(Message) /\ Len(history) \in Nat \ {0} /\ turn \in Nat
      /\ Sound(history, brief, turn) /\ Viewed(history, shown, turn)
  BY StoryRows DEF Story
<1>3. CallsFor(history, turn) /\ Resumed(history)
  BY <1>1 DEF Story
<1>4. turn > 0
  <2>1. PICK j \in 1 .. Len(history) : history[j].role \in SaysTools /\ history[j].turn = turn
    BY <1>3 DEF CallsFor, Caller
  <2>2. history[j].role \notin {"system", "brief"}
    BY <2>1 DEF SaysTools, Transcript!Pictures, Transcript!WithImages
  <2> QED  BY <1>2, <2>1, <2>2 DEF Sound, Ordered
<1>5. /\ m \in Message /\ m.role = "tool" /\ m.turn = turn
      /\ q \in Message /\ q.role = "picture" /\ q.turn = turn
  <2>1. w \in Nat
    BY OfficeAssumption DEF OfficeAssumption, Transcript!TranscriptAssumption
  <2>2. "tool" \in Transcript!Roles /\ "picture" \in Transcript!Roles
    BY DEF Transcript!Roles, Transcript!Pictures, Transcript!WithImages
  <2> QED  BY <1>2, <2>1, <2>2, Said
<1> DEFINE g == history \o <<m>>
<1> HIDE DEF m, q
<1>6. /\ g \in Seq(Message) /\ Len(g) = Len(history) + 1
      /\ Sound(g, brief, turn) /\ Viewed(g, shown, turn) /\ CallsFor(g, turn) /\ Resumed(g)
  <2>1. g \in Seq(Message) /\ Len(g) = Len(history) + 1
    BY <1>2, <1>5, Joined
  <2>2. Sound(g, brief, turn)
    BY <1>2, <1>3, <1>4, <1>5, SoundJoined
  <2>3. Viewed(g, shown, turn)
    BY <1>2, <1>5, ViewedJoined
  <2>4. CallsFor(g, turn)
    BY <1>2, <1>3, <1>5, StillCalls
  <2>5. Resumed(g)
    BY <1>2, <1>3, <1>5, FateJoined DEF Viewed
  <2> QED  BY <2>1, <2>2, <2>3, <2>4, <2>5
<1>7. /\ Sound(history', brief', turn') /\ Viewed(history', shown', turn')
      /\ CallsFor(history', turn') /\ Len(history') > 1 /\ Resumed(history')
  <2>1. CASE pictured
    <3>1. history' = g \o <<q>>
      <4>1. history' = history \o (<<m>> \o <<q>>)
        BY <1>1, <2>1
      <4>2. <<m>> \in Seq(Message) /\ <<q>> \in Seq(Message)
        BY <1>5
      <4> QED  BY <1>2, <4>1, <4>2, ConcatAssociative
    <3> HIDE DEF g
    <3>2. Len(g \o <<q>>) > 1
      BY <1>2, <1>5, <1>6, Joined
    <3>3. Sound(g \o <<q>>, brief, turn)
      BY <1>2, <1>4, <1>5, <1>6, SoundJoined
    <3>4. Viewed(g \o <<q>>, shown, turn)
      BY <1>5, <1>6, ViewedJoined
    <3>5. CallsFor(g \o <<q>>, turn)
      BY <1>5, <1>6, StillCalls
    <3>6. Resumed(g \o <<q>>)
      BY <1>5, <1>6, FateJoined DEF Viewed
    <3> QED  BY <1>1, <3>1, <3>2, <3>3, <3>4, <3>5, <3>6
  <2>2. CASE ~pictured
    <3>1. history' = g
      <4>1. <<m>> \in Seq(Message)
        BY <1>5
      <4>2. <<m>> \o <<>> = <<m>>
        BY <4>1, ConcatEmptySeq
      <4> QED  BY <1>1, <2>2, <4>2
    <3>2. brief' = brief /\ turn' = turn /\ shown' = shown
      BY <1>1
    <3> HIDE DEF g
    <3>3. Len(g) > 1
      BY <1>2, <1>6
    <3> QED  BY <1>6, <3>1, <3>2, <3>3
  <2> QED  BY <2>1, <2>2
<1>8. left \in 0 .. MaxCalls /\ left > 0 /\ MaxCalls \in Nat
  BY <1>1, OfficeAssumption DEF Story, OfficeAssumption, Transcript!TranscriptAssumption
<1>9. /\ left' \in 0 .. MaxCalls /\ (phase' = "tools" <=> left' > 0)
      /\ phase' \in {"head", "tools"}
  BY <1>1, <1>8
<1> QED  BY <1>1, <1>2, <1>7, <1>9 DEF Story

LEMMA EndKept == ASSUME Story, Transcript!EndRun PROVE Story'
<1>1. /\ phase \in {"head", "call"} /\ phase' = "idle" /\ history' = Transcript!Saved(history)
      /\ turn' = turn /\ left' = left /\ shown' = shown /\ brief' = brief /\ unread' = unread
  BY DEF Transcript!EndRun
<1>2. /\ history \in Seq(Message) /\ turn \in Nat
      /\ Sound(history, brief, turn) /\ Viewed(history, shown, turn)
  BY StoryRows DEF Story
<1>3. Retold(history, history') /\ Blank(history')
  BY <1>1, <1>2, SavedIs
<1>4. Sound(history', brief, turn)
  BY <1>2, <1>3, SoundRetold
<1>5. Viewed(history', shown, turn)
  BY <1>1, <1>2, ViewedSaved
<1> QED  BY <1>1, <1>2, <1>3, <1>4, <1>5 DEF Story

(* The last words of a run are appended as a sound history, and saved.     *)
LEMMA FinalSaved ==
  ASSUME Story, phase = "head", NEW g \in Seq(Message), NEW s,
         Sound(g, brief, turn + 1), NEW t, Viewed(g, s, t),
         history' = Transcript!Saved(g), phase' = "idle", turn' = turn + 1, shown' = s,
         brief' = brief, left' = left, unread' = unread
  PROVE  Story'
<1>1. turn + 1 \in Nat
  BY StoryRows
<1>2. Retold(g, history') /\ Blank(history')
  BY SavedIs
<1>3. Sound(history', brief, turn + 1)
  BY <1>1, <1>2, SoundRetold
<1>4. Viewed(history', s, turn + 1)
  BY ViewedSaved
<1> QED  BY <1>1, <1>2, <1>3, <1>4 DEF Story

LEMMA FinalKeeps ==
  ASSUME Story, NEW reply \in {"fails", "prose", "finish"}, NEW sees \in BOOLEAN,
         Transcript!Final(reply, sees)
  PROVE  Story'
<1> DEFINE q == Transcript!Msg("user", turn + 1, 1)
           m == Transcript!Msg("assistant", turn + 1, 1)
           x == Transcript!Msg("tool", turn + 1, 1)
           g == history \o <<q>>
           r == Transcript!build_request(g, sees)
           a == r \o <<m>>
<1>1. /\ phase = "head" /\ phase' = "idle" /\ turn' = turn + 1
      /\ history' = Transcript!Saved(IF reply = "fails" THEN g
                                     ELSE IF reply = "prose" THEN a ELSE a \o <<x>>)
      /\ shown' = (IF reply = "fails" THEN shown ELSE Len(history) + 2)
      /\ brief' = brief /\ left' = left /\ unread' = unread
  BY DEF Transcript!Final
<1>2. /\ q \in Message /\ q.role = "user" /\ q.turn = turn + 1
      /\ m \in Message /\ m.role = "assistant" /\ m.turn = turn + 1
      /\ x \in Message /\ x.role = "tool" /\ x.turn = turn + 1
  BY Said DEF Story, Transcript!Roles
<1>3. /\ history \in Seq(Message) /\ Len(history) \in Nat \ {0} /\ turn \in Nat /\ turn + 1 \in Nat
      /\ \A j \in 1 .. Len(history) : history[j].turn # turn + 1
      /\ Sound(history, brief, turn) /\ Viewed(history, shown, turn) /\ Resumed(history)
  BY <1>1, StoryRows DEF Story
<1> HIDE DEF q, m, x, g, r, a
<1>4. /\ g \in Seq(Message) /\ Len(g) = Len(history) + 1
      /\ \A i \in 1 .. Len(history) : g[i] = history[i]
  BY <1>2, <1>3, Joined DEF g
<1>5. Sound(g, brief, turn + 1)
  BY <1>2, <1>3, SoundJoined DEF g
<1>6. Viewed(g, shown, turn) /\ Resumed(g)
  BY <1>2, <1>3, ViewedJoined, FateJoined DEF Viewed, Transcript!WithImages, g
<1>7. CASE reply = "fails"
  BY <1>1, <1>4, <1>5, <1>6, <1>7, FinalSaved
<1>8. \A j, k \in 1 .. Len(g) : (j < k /\ g[k].role = "user" /\ g[k].turn = turn + 1) => g[j].turn # turn + 1
  <2>1. ASSUME NEW j \in 1 .. Len(g), NEW k \in 1 .. Len(g), j < k PROVE g[j].turn # turn + 1
    <3>1. j \in 1 .. Len(history)
      BY <1>3, <1>4, <2>1
    <3> QED  BY <1>3, <1>4, <3>1
  <2> QED  BY <2>1
<1>9. Retold(g, r) /\ r \in Seq(Message) /\ Len(r) = Len(g)
  BY <1>4, RequestIs DEF Retold, r
<1>10. Sound(r, brief, turn + 1)
  BY <1>3, <1>5, <1>9, SoundRetold
<1>11. \A j, k \in 1 .. Len(r) : (j < k /\ r[k].role = "user" /\ r[k].turn = turn + 1) => r[j].turn # turn + 1
  <2>1. \A j \in 1 .. Len(r) : r[j].turn = g[j].turn /\ (r[j].role = "user" => g[j].role = "user")
    BY <1>9 DEF Retold, Transcript!Pictures, Transcript!WithImages
  <2> QED  BY <1>8, <1>9, <2>1
<1>12. a \in Seq(Message) /\ Len(a) = Len(history) + 2
  BY <1>2, <1>3, <1>4, <1>9, Joined DEF a
<1>13. Sound(a, brief, turn + 1) /\ CallsFor(a, turn + 1)
  <2>1. Sound(a, brief, turn + 1)
    BY <1>2, <1>3, <1>10, SoundJoined DEF a
  <2>2. CallsFor(a, turn + 1)
    BY <1>2, <1>9, <1>11, NewCaller DEF a
  <2> QED  BY <2>1, <2>2
<1>14. Viewed(a, Len(history) + 2, turn + 1)
  <2>1. Len(g) > 1 /\ Len(g) + 1 = Len(history) + 2
    BY <1>3, <1>4
  <2>2. m.role \notin Transcript!WithImages \cup {"tool", "unsent"}
    BY <1>2 DEF Transcript!WithImages
  <2>3. Viewed(r \o <<m>>, Len(g) + 1, turn + 1)
    BY <1>2, <1>4, <1>6, <2>1, <2>2, ViewedSent DEF r
  <2> QED  BY <2>1, <2>3 DEF a
<1>15. CASE reply = "prose"
  <2>1. history' = Transcript!Saved(a) /\ shown' = Len(history) + 2
    BY <1>1, <1>15
  <2> QED  BY <1>1, <1>12, <1>13, <1>14, <2>1, FinalSaved
<1>16. CASE reply = "finish"
  <2> DEFINE f == a \o <<x>>
  <2>1. history' = Transcript!Saved(f) /\ shown' = Len(history) + 2
    BY <1>1, <1>16
  <2>2. f \in Seq(Message)
    BY <1>2, <1>12, Joined
  <2>3. Sound(f, brief, turn + 1)
    BY <1>2, <1>3, <1>13, SoundJoined
  <2>4. Viewed(f, Len(history) + 2, turn + 1)
    BY <1>2, <1>12, <1>14, ViewedJoined DEF Transcript!WithImages
  <2> HIDE DEF f
  <2> QED  BY <1>1, <2>1, <2>2, <2>3, <2>4, FinalSaved
<1> QED  BY <1>7, <1>15, <1>16

(* The new brief covers what the old one did and what goes.                *)
LEMMA FoldedIs ==
  ASSUME Story, Len(history) > 3, NEW p \in 3 .. Len(history) + 1, p = Transcript!split_point,
         p > Transcript!Start
  PROVE  /\ Transcript!Folded \subseteq 1 .. turn
         /\ \A n \in 1 .. turn : n \in Transcript!Folded \/ \E i \in p .. Len(history) : history[i].turn = n
<1> DEFINE f == Transcript!Start
           news == SubSeq(history, f, p - 1)
           old == IF Transcript!HasBrief THEN brief ELSE {}
<1>1. history \in Seq(Message) /\ Len(history) \in Nat /\ turn \in Nat
  BY StoryRows
<1>2. f = (IF Transcript!HasBrief THEN 3 ELSE 2)
      /\ (Transcript!HasBrief <=> history[2].role = "brief")
  BY <1>1 DEF Transcript!Start, Transcript!HasBrief
<1>3. Transcript!Folded = old \cup Transcript!Turns(news)
  BY DEF Transcript!Folded
<1> HIDE DEF f
<1>4. f \in 2 .. 3 /\ f < p
  BY <1>2 DEF f
<1>5. /\ DOMAIN news = 1 .. p - f
      /\ \A i \in 1 .. p - f : news[i] = history[f + i - 1]
  <2>1. f \in Int /\ p - 1 \in Int /\ \A i \in f .. p - 1 : history[i] \in Message
    BY <1>1, <1>4
  <2>2. /\ news \in Seq(Message)
        /\ Len(news) = (IF f <= p - 1 THEN (p - 1) - f + 1 ELSE 0)
        /\ \A i \in 1 .. (p - 1) - f + 1 : news[i] = history[f + i - 1]
    BY <2>1, SubSeqProperties
  <2>3. (p - 1) - f + 1 = p - f /\ f <= p - 1
    BY <1>4
  <2>4. Len(news) = p - f
    BY <2>2, <2>3
  <2>5. DOMAIN news = 1 .. Len(news)
    BY <2>2
  <2> QED  BY <2>2, <2>3, <2>4, <2>5
<1>6. Transcript!Turns(news) = {history[i].turn : i \in f .. p - 1}
  <2>1. Transcript!Turns(news) = {news[i].turn : i \in 1 .. p - f}
    BY <1>5 DEF Transcript!Turns
  <2> HIDE DEF news
  <2>2. ASSUME NEW i \in 1 .. p - f PROVE f + i - 1 \in f .. p - 1 /\ news[i] = history[f + i - 1]
    BY <1>4, <1>5
  <2>3. ASSUME NEW i \in f .. p - 1
        PROVE  i - f + 1 \in 1 .. p - f /\ news[i - f + 1] = history[i]
    <3>1. i - f + 1 \in 1 .. p - f /\ f + (i - f + 1) - 1 = i
      BY <1>4
    <3> QED  BY <1>5, <3>1
  <2> QED  BY <2>1, <2>2, <2>3
<1>7. /\ \A i \in 1 .. Len(history) :
            /\ history[i].turn \in 0 .. turn
            /\ history[i].role = "system" <=> i = 1
            /\ history[i].role = "brief" => i = 2
            /\ history[i].turn = 0 <=> history[i].role \in {"system", "brief"}
      /\ brief \subseteq 1 .. turn
      /\ history[2].role = "brief" \/ brief = {}
      /\ \A n \in 1 .. turn : n \in brief \/ \E i \in 1 .. Len(history) : history[i].turn = n
  BY DEF Story, Sound, Ordered, Briefed
<1>8. ASSUME NEW i \in f .. p - 1 PROVE history[i].turn \in 1 .. turn
  <2>1. i \in 1 .. Len(history) /\ i # 1
    BY <1>1, <1>4
  <2>2. history[i].role # "brief"
    BY <1>2, <1>4, <1>7, <2>1
  <2> QED  BY <1>1, <1>7, <2>1, <2>2
<1>9. ASSUME NEW n \in 1 .. turn
      PROVE  n \in old \cup Transcript!Turns(news) \/ \E i \in p .. Len(history) : history[i].turn = n
  <2>1. CASE n \in brief
    BY <1>2, <1>7, <2>1
  <2>2. ASSUME NEW i \in 1 .. Len(history), history[i].turn = n
        PROVE  n \in Transcript!Turns(news) \/ \E j \in p .. Len(history) : history[j].turn = n
    <3>1. i # 1 /\ (history[2].role = "brief" => i # 2)
      BY <1>7, <2>2
    <3>2. i \in f .. p - 1 \/ i \in p .. Len(history)
      BY <1>1, <1>2, <3>1
    <3> QED  BY <1>6, <2>2, <3>2
  <2> QED  BY <1>7, <2>1, <2>2
<1>10. old \cup Transcript!Turns(news) \subseteq 1 .. turn
  <2>1. Transcript!Turns(news) \subseteq 1 .. turn
    BY <1>6, <1>8
  <2>2. old \subseteq 1 .. turn
    BY <1>7
  <2> QED  BY <2>1, <2>2
<1> HIDE DEF old, news
<1> QED  BY <1>3, <1>9, <1>10

LEMMA CompactKeeps ==
  ASSUME Story, NEW answers \in BOOLEAN, NEW ctx \in Windows, Transcript!Compact(answers, ctx)
  PROVE  Story'
<1> DEFINE p == Transcript!split_point
           long == /\ Transcript!Weight(history) >= Transcript!compact_threshold(ctx)
                   /\ Len(history) >= MinLen /\ Transcript!Worth /\ answers
<1>1. phase = "head" /\ phase' = "call" /\ left' = left /\ turn' = turn
  BY DEF Transcript!Compact
<1>2. /\ long => /\ history' = Shortened(history, p) /\ brief' = Transcript!Folded
                 /\ shown' = (IF shown < p THEN 2 ELSE shown - p + 3)
                 /\ unread' = (IF shown + 1 < p
                               THEN Transcript!Weight(SubSeq(history, shown + 1, Len(history)))
                               ELSE unread)
      /\ ~long => UNCHANGED <<history, brief, shown, unread>>
  BY DEF Transcript!Compact, Shortened
<1>3. /\ history \in Seq(Message) /\ Len(history) \in Nat /\ turn \in Nat /\ Len(history) > 1
      /\ Sound(history, brief, turn) /\ Viewed(history, shown, turn)
  BY <1>1, StoryRows DEF Story
<1>4. CASE ~long
  <2>1. UNCHANGED <<history, brief, shown, unread>>
    BY <1>2, <1>4
  <2> QED  BY <1>1, <2>1 DEF Story
<1>5. CASE long
  <2>1. Len(history) > 3 /\ p > Transcript!Start
    BY <1>3, <1>5 DEF Transcript!Worth
  <2>2. /\ p \in Transcript!WalkBack .. Len(history) + 1
        /\ p <= Len(history) => history[p].role # "tool"
    BY <1>3, <2>1, SplitIs
  <2>3. Transcript!WalkBack \in 2 .. Len(history)
    BY <1>3, <2>1, WalkBackIs
  <2>4. p \in 3 .. Len(history) + 1
    BY <1>3, <2>1, <2>2, <2>3 DEF Transcript!Start
  <2>5. Keep \in Nat /\ Keep <= Transcript!Weight(history)
    <3>1. Keep \in Nat /\ Transcript!compact_threshold(ctx) \in Int /\ Keep < Transcript!compact_threshold(ctx)
      BY ThresholdIs
    <3>2. Transcript!Weight(history) \in Nat
      BY <1>3, TextIs
    <3> QED  BY <1>5, <3>1, <3>2
  <2>6. /\ history' = Shortened(history, p) /\ brief' = Transcript!Folded
        /\ shown' = (IF shown < p THEN 2 ELSE shown - p + 3)
        /\ unread' = (IF shown + 1 < p
                      THEN Transcript!Weight(SubSeq(history, shown + 1, Len(history)))
                      ELSE unread)
    BY <1>2, <1>5
  <2>7. /\ Transcript!Folded \subseteq 1 .. turn
        /\ \A n \in 1 .. turn :
              n \in Transcript!Folded \/ \E i \in p .. Len(history) : history[i].turn = n
    BY <2>1, <2>4, FoldedIs
  <2>8. shown + 1 < p =>
           Keep <= Transcript!Weight(SubSeq(history, shown + 1, Len(history)))
    BY <1>3, <2>1, <2>5, UnsentIsLong
  <2> HIDE DEF p
  <2>9. Sound(history', brief', turn)
    BY <1>3, <2>2, <2>4, <2>6, <2>7, SoundShortened
  <2>10. Viewed(history', shown', turn) /\ Resumed(history')
    <3>1. Resumed(history)
      BY <1>1 DEF Story
    <3> QED  BY <1>3, <2>4, <2>6, <3>1, ViewedShortened
  <2>11. unread' > 0 => unread' >= Keep
    <3>1. CASE shown + 1 < p
      <4>1. unread' = Transcript!Weight(SubSeq(history, shown + 1, Len(history)))
        BY <2>6, <3>1
      <4>2. Transcript!Weight(SubSeq(history, shown + 1, Len(history))) \in Nat
        BY <1>3, <2>1, <2>5, <3>1, UnsentIsLong DEF p
      <4> QED  BY <2>5, <2>8, <3>1, <4>1, <4>2
    <3>2. CASE ~(shown + 1 < p)
      BY <2>6, <3>2 DEF Story
    <3> QED  BY <3>1, <3>2
  <2>12. Len(history') > 1
    <3>1. Len(history') = Len(history) - p + 3
      BY <1>3, <2>4, <2>6, ShortenedIs
    <3> QED  BY <1>3, <2>4, <3>1
  <2> QED  BY <1>1, <1>3, <2>9, <2>10, <2>11, <2>12 DEF Story
<1> QED  BY <1>4, <1>5

LEMMA StoryStep == ASSUME Story, [Transcript!Next]_(Transcript!transcriptVars) PROVE Story'
<1>1. CASE UNCHANGED Transcript!transcriptVars
  BY <1>1 DEF Transcript!transcriptVars, Story
<1> QED
  BY <1>1, TaskKeeps, EndKept, CompactKeeps, AnswerKeeps, NudgeKeeps, FinalKeeps, ResultKeeps
  DEF Transcript!Next

LEMMA StoryHolds == Spec => []Story
  BY StoryInit, StoryStep, Parts, PTL DEF Transcript!Spec

(* The company forgets nothing it folds: a turn of a transcript and an     *)
(* exchange with the founder alike are there word by word or covered by    *)
(* their brief (compact, founder_chat).                                    *)
THEOREM NothingForgottenHolds == Spec => []NothingForgotten
<1>1. Story => Transcript!NothingForgotten
  <2> SUFFICES ASSUME Story, NEW n \in 1 .. turn PROVE n \in brief \cup Transcript!Turns(history)
    BY DEF Transcript!NothingForgotten
  <2>1. n \in brief \/ \E i \in 1 .. Len(history) : history[i].turn = n
    BY DEF Story, Sound, Briefed
  <2>2. DOMAIN history = 1 .. Len(history)
    BY StoryRows
  <2> QED  BY <2>1, <2>2 DEF Transcript!Turns
<1> QED  BY <1>1, StoryHolds, ChatKeptHolds, PTL DEF NothingForgotten

(* A tool result that has lost its turn to the brief stands behind a       *)
(* picture of that turn (split_point, compact).                            *)
THEOREM OrphansBehindPicturesHolds == Spec => []OrphansBehindPictures
<1>1. Story => OrphansBehindPictures
  <2> SUFFICES ASSUME Story, NEW i \in DOMAIN history, history[i].role = "tool",
                      ~Transcript!HasItsTurn(i)
               PROVE  \E j \in 1 .. i - 1 : /\ history[j].role \in Transcript!Pictures
                                            /\ history[j].turn = history[i].turn
    BY DEF OrphansBehindPictures, Transcript!OrphansBehindPictures
  <2>1. i \in 1 .. Len(history)
    BY StoryRows
  <2>2. PICK j \in 1 .. i - 1 : history[j].role \in SaysTools /\ history[j].turn = history[i].turn
    BY <2>1 DEF Story, Sound, Answered, Caller
  <2>3. history[j].role # "assistant"
    BY <2>2 DEF Transcript!HasItsTurn
  <2> QED  BY <2>2, <2>3 DEF SaysTools
<1> QED  BY <1>1, StoryHolds, PTL

(* What no request carries as it was written is more than the tail may     *)
(* hold, a picture that another of its turn followed, or one whose run was *)
(* saved before the next answer (compact, build_request, save_agent).      *)
THEOREM SentAsWrittenHolds == Spec => []SentAsWritten
<1>1. Story => SentAsWritten
  <2> SUFFICES ASSUME Story PROVE Transcript!SentAsWritten
    BY DEF SentAsWritten
  <2>1. unread > 0 => unread >= Keep
    BY DEF Story
  <2>2. ASSUME NEW i \in DOMAIN history, Transcript!Unsent(i)
        PROVE  Transcript!Followed(i) \/ Transcript!RunEndedAt(i)
    <3>1. i \in 1 .. Len(history) /\ shown \in 0 .. Len(history)
      BY StoryRows DEF Story, Viewed, Ends
    <3>2. CASE history[i].role = "unsent"
      BY <3>1, <3>2 DEF Story, Viewed, Dropped, Followed, Parted, Transcript!Followed,
         Transcript!RunEndedAt
    <3>3. CASE history[i].role = "picture" /\ i <= shown
      <4>1. i \in 1 .. shown
        BY <3>1, <3>3
      <4>2. Later(history, i)
        BY <3>3, <4>1 DEF Story, Viewed
      <4> QED  BY <4>2 DEF Later, Imaged, Transcript!Followed, Transcript!Pictures
    <3> QED  BY <2>2, <3>2, <3>3 DEF Transcript!Unsent
  <2> QED  BY <2>1, <2>2 DEF Transcript!SentAsWritten
<1> QED  BY <1>1, StoryHolds, PTL

LEMMA TranscriptTypes == Spec => []Transcript!TypeOK
<1>1. Story => Transcript!TypeOK
  <2> SUFFICES ASSUME Story PROVE Transcript!TypeOK
    OBVIOUS
  <2>1. ASSUME NEW i \in DOMAIN history
        PROVE  /\ history[i].role \in Transcript!Roles /\ history[i].turn \in 0 .. turn
               /\ history[i].role = "system" <=> i = 1
               /\ history[i].role = "brief" => i = 2
    <3>1. history \in Seq(Message) /\ i \in 1 .. Len(history)
      BY StoryRows
    <3>2. history[i] \in Message
      BY <3>1
    <3>3. history[i].role \in Transcript!Roles
      BY <3>2 DEF Message
    <3> QED  BY <3>1, <3>3 DEF Story, Sound, Ordered
  <2>2. shown \in 0 .. Len(history) /\ brief \subseteq 1 .. turn
    BY DEF Story, Viewed, Ends, Sound, Briefed
  <2> QED  BY <2>1, <2>2 DEF Story, Transcript!TypeOK
<1> QED  BY <1>1, StoryHolds, PTL

-----------------------------------------------------------------------------
(* Each part keeps its types, so the whole does.                           *)
THEOREM TypeOKHolds == Spec => []TypeOK
<1> DEFINE OnePart == part \in {"admission", "board", "ledger", "token", "transcript", "registry",
                                "scripts", "chat"}
<1>1. Init => OnePart
  BY DEF Init
<1>2. OnePart /\ [Next]_vars => OnePart'
  BY DEF Next, vars
<1>3. /\ Admission!TypeOK /\ Board!TypeOK /\ XLedger!TypeOK /\ XToken!TypeOK
      /\ Transcript!TypeOK /\ Registry!TypeOK /\ Scripts!TypeOK /\ Chat!TypeOK
      /\ OnePart
      => TypeOK
  BY Zenon DEF TypeOK
<1> HIDE DEF OnePart
<1>4. Spec => []OnePart
  BY <1>1, <1>2, PTL DEF Spec
<1> QED
  BY <1>3, <1>4, Parts, AdmissionTypes, BoardTypes, LedgerTypes, TokenTypes, TranscriptTypes,
     RegistryTypes, ScriptTypes, ChatTypes, PTL
=============================================================================
