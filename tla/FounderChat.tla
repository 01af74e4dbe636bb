----------------------------- MODULE FounderChat -----------------------------
(***************************************************************************)
(* The Telegram conversation as the company remembers it: the rows of      *)
(* telegram_chat and the long-term brief the older rows are folded into    *)
(* (compact_telegram in src/src/agent.rs).  The fold awaits a model while  *)
(* telegram::serve goes on adding what the founder writes, and its two     *)
(* writes are two statements.                                              *)
(*                                                                         *)
(* An exchange is its row id; its length is one, so Limit stands for the   *)
(* characters that start a fold.  A brief is taken to cover what its       *)
(* writer was given.                                                       *)
(***************************************************************************)
EXTENDS Naturals, FiniteSets

CONSTANTS
    ChatKeep,      \* exchanges that stay verbatim: 40 in the code
    ChatLimit,     \* rows past which the older ones are folded
    MaxExchanges   \* bound

ChatAssumption == {ChatKeep, ChatLimit, MaxExchanges} \subseteq Nat

VARIABLES
    chat,       \* the rows of telegram_chat
    summary,    \* what telegram_brief covers
    exchanged,  \* rows inserted so far: the newest id
    fold        \* compact_telegram, by the CEO's loop
chatVars == <<chat, summary, exchanged, fold>>

Unfolding == [pc |-> "idle", old |-> {}, prior |-> {}]

Init == chat = {} /\ summary = {} /\ exchanged = 0 /\ fold = Unfolding

AddRow ==
    /\ exchanged < MaxExchanges
    /\ exchanged' = exchanged + 1
    /\ chat' = chat \cup {exchanged + 1}

(* telegram::serve, at any time.                                           *)
FounderWrites == AddRow /\ UNCHANGED <<summary, fold>>

(* message_founder, once Telegram has taken it: the loop that calls it is  *)
(* the one that folds.                                                     *)
CeoWrites == fold.pc = "idle" /\ AddRow /\ UNCHANGED <<summary, fold>>

(* telegram_old: all but the newest rows.                                  *)
Old == {i \in chat : Cardinality({j \in chat : j > i}) >= ChatKeep}

(* A Telegram message drains into an episode and the chat has outgrown its *)
(* limit: rows and brief are read, and the model is asked.                 *)
StartFold ==
    /\ fold.pc = "idle"
    /\ Cardinality(chat) > ChatLimit /\ Old # {}
    /\ fold' = [pc |-> "asked", old |-> Old, prior |-> summary]
    /\ UNCHANGED <<chat, summary, exchanged>>

(* The call fails, or comes back empty: the chat is kept.                  *)
FoldFails ==
    /\ fold.pc = "asked" /\ fold' = Unfolding
    /\ UNCHANGED <<chat, summary, exchanged>>

SaveBrief ==
    /\ fold.pc = "asked"
    /\ summary' = fold.prior \cup fold.old
    /\ fold' = [fold EXCEPT !.pc = "saved"]
    /\ UNCHANGED <<chat, exchanged>>

\* Seeded fault: what is old is asked for again once the brief is in.
DeleteOldNow ==
    /\ fold.pc = "saved"
    /\ chat' = chat \ Old
    /\ fold' = Unfolding
    /\ UNCHANGED <<summary, exchanged>>

(* delete_telegram_upto the last row that was read.                        *)
DeleteOld ==
    /\ fold.pc = "saved"
    /\ chat' = {i \in chat : \A j \in fold.old : i > j}
    /\ fold' = Unfolding
    /\ UNCHANGED <<summary, exchanged>>

(* The process dies, between the two writes included.                      *)
Crash ==
    /\ fold.pc # "idle" /\ fold' = Unfolding
    /\ UNCHANGED <<chat, summary, exchanged>>

Next ==
    \/ FounderWrites \/ CeoWrites
    \/ StartFold \/ FoldFails \/ SaveBrief \/ DeleteOld \/ Crash

Spec == Init /\ [][Next]_chatVars

-----------------------------------------------------------------------------
TypeOK ==
    /\ exchanged \in 0 .. MaxExchanges
    /\ chat \subseteq 1 .. exchanged /\ summary \subseteq 1 .. exchanged
    /\ fold.pc \in {"idle", "asked", "saved"}
    /\ fold.old \subseteq 1 .. exchanged /\ fold.prior \subseteq 1 .. exchanged

(* No exchange with the founder is lost, whatever arrives during a fold    *)
(* and wherever a crash cuts it: each stands as it was written or is       *)
(* covered by the brief, and the newest stand as they were written         *)
(* (compact_telegram; "as I said earlier" works across episodes).          *)
ChatKept ==
    /\ 1 .. exchanged \subseteq chat \cup summary
    /\ \A i \in 1 .. exchanged : i + ChatKeep > exchanged => i \in chat
=============================================================================
