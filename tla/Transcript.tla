----------------------------- MODULE Transcript -----------------------------
(***************************************************************************)
(* The transcript an employee carries from task to task (agents.history):  *)
(* what a run pushes onto it, and the compaction that replaces everything  *)
(* but the newest messages with a running brief.                           *)
(*                                                                         *)
(* A message is known by its role, the turn it belongs to and its weight;  *)
(* its text matters only as something that is either still there word by   *)
(* word or covered by the brief.  The brief is written by a model; it is   *)
(* taken to cover what that model was given.                               *)
(*                                                                         *)
(* A message with a picture also tells by its role what became of it: a    *)
(* "picture" no request has carried, a "described" one whose text alone    *)
(* went to a seat without vision, a "seen" one; and once the history was   *)
(* saved, which drops the images, "words", or "unsent" where no request    *)
(* had carried the picture.                                                *)
(***************************************************************************)
EXTENDS Integers, Sequences, FiniteSets, FiniteSetsExt

CONSTANTS
    Keep,        \* KEEP_RECENT, in units of weight
    CompactAt,   \* COMPACT_AT
    Floor,       \* COMPACT_FLOOR
    Ceiling,     \* the output ceiling of a model and CTX_RESERVE
    Windows,     \* context windows of the models; 0: not published
    MinLen,      \* messages below which nothing is compacted: 20 in the code
    Big,         \* the weight of a long tool result
    MaxCalls,    \* bound: tool calls in one turn
    MaxTurns     \* bound: messages that open a turn, in a behaviour

TranscriptAssumption ==
    /\ {Keep, CompactAt, Floor, Ceiling, MinLen, Big, MaxCalls, MaxTurns} \subseteq Nat
    /\ Windows \subseteq Nat /\ Windows # {}
    /\ 0 < Keep /\ Keep < Floor /\ Floor <= CompactAt

VARIABLES
    history,   \* the messages, the system prompt first
    brief,     \* the turns the brief covers; {} while there is none
    phase,     \* where the run is
    left,      \* tool calls of the newest turn that have no result yet
    turn,      \* the number of the newest turn
    shown,     \* how many of the messages the model has been sent
    unread     \* history: weight of the unsent messages when some of them
               \* were folded into the brief, 0 if none ever was
transcriptVars == <<history, brief, phase, left, turn, shown, unread>>

WithImages == {"picture", "described", "seen"}
Pictures   == WithImages \cup {"words", "unsent"}
Roles == {"system", "brief", "user", "assistant", "tool"} \cup Pictures
Msg(role, t, w) == [role |-> role, turn |-> t, weight |-> w]
System == Msg("system", 0, 1)

Text(msgs)   == UNION {{i} \X (1 .. msgs[i].weight) : i \in DOMAIN msgs}
Weight(msgs) == Cardinality(Text(msgs))
Turns(msgs)  == {msgs[i].turn : i \in DOMAIN msgs}

Init ==
    /\ history = <<System>>
    /\ brief = {} /\ phase = "idle" /\ left = 0 /\ turn = 0 /\ shown = 0
    /\ unread = 0

Push(msgs) == history' = history \o msgs

-----------------------------------------------------------------------------
(* A result that shows an image file is followed by the picture, unless    *)
(* the file is gone, empty or too large.                                   *)
image_followup(pictured) == IF pictured THEN <<Msg("picture", turn, 0)>> ELSE <<>>

\* Fault: the first picture of the transcript rides, not the newest.
build_requestOldest(msgs, sees) ==
    [i \in DOMAIN msgs |->
        IF msgs[i].role \in WithImages /\ \A j \in 1 .. i - 1 : msgs[j].role \notin WithImages
        THEN [msgs[i] EXCEPT !.role =
                 IF sees THEN "seen" ELSE IF @ = "picture" THEN "described" ELSE @]
        ELSE msgs[i]]

(* What a request that was answered did to the pictures: the newest one    *)
(* rides it, on a seat with vision.                                        *)
build_request(msgs, sees) ==
    [i \in DOMAIN msgs |->
        IF /\ msgs[i].role \in WithImages
           /\ \A j \in i + 1 .. Len(msgs) : msgs[j].role \notin WithImages
        THEN [msgs[i] EXCEPT !.role =
                 IF sees THEN "seen" ELSE IF @ = "picture" THEN "described" ELSE @]
        ELSE msgs[i]]

(* save_agent: images are not serialized.                                  *)
Saved(msgs) ==
    [i \in DOMAIN msgs |->
        IF msgs[i].role \in WithImages
        THEN [msgs[i] EXCEPT !.role = IF @ = "picture" THEN "unsent" ELSE "words"]
        ELSE msgs[i]]

-----------------------------------------------------------------------------
(* A task: memories, the skill index and the clock ride with it.           *)
StartTask ==
    /\ phase = "idle" /\ turn < MaxTurns
    /\ turn' = turn + 1
    /\ Push(<<Msg("user", turn + 1, 1)>>)
    /\ phase' = "head"
    /\ UNCHANGED <<brief, left, shown, unread>>

-----------------------------------------------------------------------------
(* The last i messages that hold Keep, or all but the system prompt.       *)
WalkBack ==
    Max({i \in 2 .. Len(history) : Weight(SubSeq(history, i, Len(history))) >= Keep} \cup {2})

\* Fault: compaction keeps from the walk back on, tool results included.
split_pointOnResult == WalkBack

(* The index the kept tail starts at: past the tool results it would open  *)
(* on.                                                                     *)
split_point ==
    Min({i \in WalkBack .. Len(history) + 1 :
            i <= Len(history) => history[i].role # "tool"})

HasBrief == Len(history) > 1 /\ history[2].role = "brief"
Start == IF HasBrief THEN 3 ELSE 2     \* the first message that is news

\* Fault: the brief is started afresh from the news.
FoldedNews == Turns(SubSeq(history, Start, split_point - 1))

(* What the model is asked to fold together, and so what the new brief     *)
(* covers: the brief there is, and the news before the split.              *)
Folded == (IF HasBrief THEN brief ELSE {}) \cup Turns(SubSeq(history, Start, split_point - 1))

Worth == Len(history) >= 4 /\ split_point > Start

(* Where a model with this context window makes a history too long.        *)
compact_threshold(ctx) ==
    IF ctx = 0 THEN CompactAt
    ELSE Min({CompactAt, Max({Floor, ctx - Ceiling})})

(* maybe_compact.  A summary that fails, or comes back empty, leaves the   *)
(* history as it is; a truncated one is asked for once more.               *)
Compact(answers, ctx) ==
    /\ phase = "head"
    /\ phase' = "call"
    /\ IF Weight(history) >= compact_threshold(ctx) /\ Len(history) >= MinLen /\ Worth /\ answers
       THEN /\ history' = <<System, Msg("brief", 0, 1)>> \o SubSeq(history, split_point, Len(history))
            /\ brief' = Folded
            /\ shown' = IF shown < split_point THEN 2 ELSE shown - split_point + 3
            /\ unread' = IF shown + 1 < split_point
                         THEN Weight(SubSeq(history, shown + 1, Len(history))) ELSE unread
       ELSE UNCHANGED <<history, brief, shown, unread>>
    /\ UNCHANGED <<left, turn>>

-----------------------------------------------------------------------------
(* The model has been sent the transcript and answers with n tool calls.   *)
Answer(n, sees) ==
    /\ phase = "call" /\ turn < MaxTurns
    /\ turn' = turn + 1
    /\ LET then == build_request(history, sees)
                      \o <<Msg("assistant", turn + 1, IF n = 0 THEN 1 ELSE 0)>>
       IN history' = IF n = 0 THEN Saved(then) ELSE then
    /\ left' = n
    /\ phase' = IF n = 0 THEN "idle" ELSE "tools"
    /\ shown' = Len(history) + 1
    /\ UNCHANGED <<brief, unread>>

(* A reply cut off by its ceiling leaves nothing but the request for a     *)
(* smaller step; one that says and calls nothing stays, with a nudge.      *)
Nudge(nothingSaid, sees) ==
    /\ phase = "call" /\ turn < MaxTurns
    /\ turn' = turn + 1
    /\ history' = build_request(history, sees)
                     \o (IF nothingSaid THEN <<Msg("assistant", turn + 1, 0)>> ELSE <<>>)
                     \o <<Msg("user", turn + 1, 1)>>
    /\ phase' = "head"
    /\ shown' = Len(history) + (IF nothingSaid THEN 1 ELSE 0)
    /\ UNCHANGED <<brief, left, unread>>

\* Fault: the turn is over one result too late.
ResultLate(w, pictured) ==
    /\ phase = "tools"
    /\ Push(<<Msg("tool", turn, w)>> \o image_followup(pictured))
    /\ left' = left - 1
    /\ phase' = IF left = 0 THEN "head" ELSE "tools"
    /\ UNCHANGED <<brief, turn, shown, unread>>

(* One call of the turn is done; a picture follows its result as a message *)
(* of the user.                                                            *)
Result(w, pictured) ==
    /\ phase = "tools"
    /\ Push(<<Msg("tool", turn, w)>> \o image_followup(pictured))
    /\ left' = left - 1
    /\ phase' = IF left = 1 THEN "head" ELSE "tools"
    /\ UNCHANGED <<brief, turn, shown, unread>>

(* The iteration cap: one more call, for the report, and the history is    *)
(* saved whatever became of it.                                            *)
Final(reply, sees) ==
    /\ phase = "head" /\ turn < MaxTurns
    /\ turn' = turn + 1
    /\ LET asked == history \o <<Msg("user", turn + 1, 1)>>
           told  == build_request(asked, sees) \o <<Msg("assistant", turn + 1, 1)>>
       IN history' = Saved(IF reply = "fails" THEN asked
                           ELSE IF reply = "prose" THEN told
                           ELSE told \o <<Msg("tool", turn + 1, 1)>>)
    /\ phase' = "idle"
    /\ shown' = IF reply = "fails" THEN shown ELSE Len(history) + 2
    /\ UNCHANGED <<brief, left, unread>>

(* finish among the calls, a failed call or a shutdown: the run ends with  *)
(* what it has, and save_agent keeps the history.                          *)
EndRun ==
    /\ phase \in {"head", "call"}
    /\ phase' = "idle"
    /\ history' = Saved(history)
    /\ UNCHANGED <<brief, left, turn, shown, unread>>

Next ==
    \/ StartTask \/ EndRun
    \/ \E answers \in BOOLEAN, ctx \in Windows : Compact(answers, ctx)
    \/ \E n \in 0 .. MaxCalls, sees \in BOOLEAN : Answer(n, sees)
    \/ \E said \in BOOLEAN, sees \in BOOLEAN : Nudge(said, sees)
    \/ \E reply \in {"fails", "prose", "finish"}, sees \in BOOLEAN : Final(reply, sees)
    \/ \E w \in {1, Big}, p \in BOOLEAN : Result(w, p)

Spec == Init /\ [][Next]_transcriptVars

-----------------------------------------------------------------------------
TypeOK ==
    /\ \A i \in DOMAIN history :
          /\ history[i].role \in Roles /\ history[i].turn \in 0 .. turn
          /\ history[i].role = "system" <=> i = 1
          /\ history[i].role = "brief" => i = 2
    /\ brief \subseteq 1 .. turn
    /\ phase \in {"idle", "head", "call", "tools"}
    /\ left \in 0 .. MaxCalls /\ (phase = "tools" <=> left > 0)
    /\ shown \in 0 .. Len(history)

(* Nothing that happened is forgotten: however often a history is          *)
(* compacted, each turn is there word by word or covered by the brief      *)
(* (compact carries the brief it finds into the next one).                 *)
NothingForgotten == 1 .. turn \subseteq brief \cup Turns(history)

(* A tool result stands after the turn that called for it; one that has    *)
(* lost it to the brief stands behind a picture, the one kind of message   *)
(* that parts the results of a turn and stops the step off them            *)
(* (split_point, compact; a comment of split_point knows no exception).    *)
HasItsTurn(i) ==
    \E j \in 1 .. i - 1 : history[j].role = "assistant" /\ history[j].turn = history[i].turn
OrphansBehindPictures ==
    \A i \in DOMAIN history :
        history[i].role = "tool" /\ ~HasItsTurn(i) =>
            \E j \in 1 .. i - 1 : history[j].role \in Pictures /\ history[j].turn = history[i].turn

(* What no request carries as it was written is long, one picture of       *)
(* several, or the last that a run saw to.  Unsent messages are folded     *)
(* into the brief only when they are more than the tail may hold (it keeps *)
(* KEEP_RECENT characters), so a task, a nudge or a short result is read   *)
(* word by word; and a picture that no request carried was followed by     *)
(* another of its own turn (build_request sends the newest and takes every *)
(* earlier one for seen), or its run was saved before any answer came      *)
(* (save_agent drops the images, and the task that follows finds words).   *)
Unsent(i) == history[i].role = "unsent" \/ (history[i].role = "picture" /\ i <= shown)
Followed(i) ==
    \E j \in i + 1 .. Len(history) :
        history[j].role \in Pictures /\ history[j].turn = history[i].turn
RunEndedAt(i) ==
    /\ history[i].role = "unsent"
    /\ \A j \in i + 1 .. Len(history) :
          history[j].role = "assistant" => \E k \in i + 1 .. j - 1 : history[k].role = "user"
SentAsWritten ==
    /\ unread > 0 => unread >= Keep
    /\ \A i \in DOMAIN history : Unsent(i) => Followed(i) \/ RunEndedAt(i)

=============================================================================
