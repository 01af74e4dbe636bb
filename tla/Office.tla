------------------------------- MODULE Office -------------------------------
(***************************************************************************)
(* The records of the company, composed: what is admitted and what is on   *)
(* the board, the X ledger and its token, the transcripts, and what is     *)
(* kept in versions.  These parts share no state, so a behaviour of the    *)
(* whole is an interleaving of behaviours of the parts, and a property of  *)
(* one part holds in the whole if it holds while the others stand still.   *)
(* That is what is stated here: a behaviour is one of one part.            *)
(***************************************************************************)
EXTENDS Integers, Sequences

CONSTANTS
    Lanes, CEO, Managers, Kinds, Tasks, ObjOf,
    CheckWords, BuildWords, IdeaWords,
    ShapeWords, RepeatLimit, CheckLimit, CheckWindow, Day, MaxTime, MaxLog,
    Objectives, Staff, MaxActive, MaxRecommits, Horizon, Landing, MaxDate, MaxHours,
    Agents, Stream, Tweets, Transfers, Seeded, PostCost, ReadCost, OwnCost,
    Low, TopUp, Days, MaxLost,
    Users, Tokens, MaxTokenLost,
    Keep, CompactAt, Floor, Ceiling, Windows, MinLen, Big, MaxCalls, MaxTurns,
    Pointer, Prompts, Seeds, Essays, MaxVersions,
    Callers, MaxSaves,
    ChatKeep, ChatLimit, MaxExchanges

VARIABLES
    part,
    kind, log, look, ask, now,
    obj, recommits, built, freed, pushes, hours,
    day, debited, credited, streamed, replied, seen, known, lowFlag, call,
    posts, billed, billedToday, pushed, lost, exact,
    stored, seed, asks, live, cut,
    history, brief, phase, left, turn, shown, unread,
    prompts, skill, shipped, own,
    script, saves, file, run,
    chat, summary, exchanged, fold

Admission  == INSTANCE Admission WITH Objectives <- Lanes
Board      == INSTANCE Board WITH Agents <- Staff, now <- hours, MaxTime <- MaxHours
XLedger    == INSTANCE XLedger
XToken     == INSTANCE XToken
Transcript == INSTANCE Transcript
Registry   == INSTANCE Registry WITH Agents <- Staff
Scripts    == INSTANCE Scripts
Chat       == INSTANCE FounderChat

ASSUME OfficeAssumption ==
    /\ Admission!AdmissionAssumption /\ Board!BoardAssumption
    /\ XLedger!CostAssumption /\ XToken!TokenAssumption
    /\ Transcript!TranscriptAssumption /\ Registry!RegistryAssumption
    /\ Scripts!ScriptsAssumption /\ Chat!ChatAssumption

Idle(p) == part # p

Init ==
    /\ part \in {"admission", "board", "ledger", "token", "transcript", "registry", "scripts",
                 "chat"}
    /\ Admission!Init /\ (Idle("admission") => \A o \in Lanes : kind[o] = "ops")
    /\ Board!Init /\ XLedger!Init
    /\ XToken!Init /\ (Idle("token") => seed = CHOOSE t \in Tokens : TRUE)
    /\ Idle("token") => stored = XToken!NoToken
    /\ Transcript!Init
    /\ Registry!Init
    /\ Idle("registry") =>
          /\ shipped = CHOOSE s \in Seeds : TRUE
          /\ prompts = [n \in Registry!Names |->
                           IF n = Registry!Base THEN <<CHOOSE p \in Prompts : TRUE>> ELSE <<>>]
    /\ Scripts!Init /\ Chat!Init

A == <<kind, log, look, ask, now>>
B == <<obj, recommits, built, freed, pushes, hours>>
L == <<day, debited, credited, streamed, replied, seen, known, lowFlag, call,
       posts, billed, billedToday, pushed, lost, exact>>
K == <<stored, seed, asks, live, cut>>
H == <<history, brief, phase, left, turn, shown, unread>>
R == <<prompts, skill, shipped, own>>
S == <<script, saves, file, run>>
C == <<chat, summary, exchanged, fold>>
vars == <<part, A, B, L, K, H, R, S, C>>

Next ==
    \/ part = "admission"  /\ Admission!Next  /\ UNCHANGED <<part, B, L, K, H, R, S, C>>
    \/ part = "board"      /\ Board!Next      /\ UNCHANGED <<part, A, L, K, H, R, S, C>>
    \/ part = "ledger"     /\ XLedger!Next    /\ UNCHANGED <<part, A, B, K, H, R, S, C>>
    \/ part = "token"      /\ XToken!Next     /\ UNCHANGED <<part, A, B, L, H, R, S, C>>
    \/ part = "transcript" /\ Transcript!Next /\ UNCHANGED <<part, A, B, L, K, R, S, C>>
    \/ part = "registry"   /\ Registry!Next   /\ UNCHANGED <<part, A, B, L, K, H, S, C>>
    \/ part = "scripts"    /\ Scripts!Next    /\ UNCHANGED <<part, A, B, L, K, H, R, C>>
    \/ part = "chat"       /\ Chat!Next       /\ UNCHANGED <<part, A, B, L, K, H, R, S>>

Spec == Init /\ [][Next]_vars

TypeOK ==
    CASE part = "admission"  -> Admission!TypeOK
      [] part = "board"      -> Board!TypeOK
      [] part = "ledger"     -> XLedger!TypeOK
      [] part = "token"      -> XToken!TypeOK
      [] part = "transcript" -> Transcript!TypeOK
      [] part = "registry"   -> Registry!TypeOK
      [] part = "scripts"    -> Scripts!TypeOK
      [] part = "chat"       -> Chat!TypeOK

(* What each property says of the code stands with its definition.         *)
(* A shape of task goes out a bounded number of times a day.               *)
RepeatsBounded == Admission!RepeatsBounded

(* Checks without a build are cut off per objective.                       *)
ChecksBounded == Admission!ChecksBounded

(* A review date is moved on a bounded number of times between builds.     *)
PushesBounded == Board!PushesBounded

(* The step that frees a blocked objective announces it.                   *)
UnblockAnnounced == Board!UnblockAnnounced

(* A tweet gets one answer, concurrent callers and lost answers aside.     *)
RepliesBounded == XLedger!RepliesBounded

(* A transfer is credited once, concurrent x_topup calls aside.            *)
CreditsBounded == XLedger!CreditsBounded

(* Agents overspend the X ledger by one call each at most.                 *)
OverspendBounded == XLedger!OverspendBounded

(* The X ledger says what X billed once every answer and event is in it.   *)
LedgerMirrorsBill == XLedger!LedgerMirrorsBill

(* A refresh token X accepts is stored, seeded or about to be stored.      *)
ChainAlive == XToken!ChainAlive

(* The company forgets nothing it folds: a turn of a transcript and an     *)
(* exchange with the founder alike are kept or covered by their brief.     *)
NothingForgotten == Transcript!NothingForgotten /\ Chat!ChatKept

(* A tool result without its turn stands behind a picture.                 *)
OrphansBehindPictures == Transcript!OrphansBehindPictures

(* What a model never reads word by word is long, or one picture of many.  *)
SentAsWritten == Transcript!SentAsWritten

(* Every run gets the text of a prompt.                                    *)
PromptStands == Registry!PromptStands

(* No build ships over a skill the company wrote.                          *)
OwnSkillStands == Registry!OwnSkillStands

(* A call of a custom tool runs a stale script only beside another call.   *)
StaleOnlyByOverlap == Scripts!StaleOnlyByOverlap
=============================================================================
