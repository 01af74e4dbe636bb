------------------------------- MODULE XLedger -------------------------------
(***************************************************************************)
(* The X budget (tools/x.rs and the x_* operations of state.rs): the       *)
(* ledger that is the only balance the company sees, the table of tweets   *)
(* already answered and the one-day table of resources already billed.     *)
(* Agents (members of Agents) and the activity stream call concurrently;   *)
(* every await is a step boundary, and the token exchange that opens each  *)
(* call is one of them (module XToken).  X itself and Solana are external: *)
(* what they bill, and which transfer is on the chain.                     *)
(*                                                                         *)
(* Amounts are counted in COST_OWNED_READ-sized units scaled down: a read  *)
(* or an event costs ReadCost, a post PostCost.  Wording, URLs and the     *)
(* alert's text are left out; an alert to the CEO is a row that module     *)
(* Inbox follows.                                                          *)
(***************************************************************************)
EXTENDS Integers, FiniteSets

CONSTANTS
  Agents,       \* employees (or the CEO) that may call x_post, x_read, x_topup
  Stream,       \* the activity_stream task
  Tweets, Transfers,
  Seeded,       \* the founder's seed row of the ledger
  PostCost, ReadCost, OwnCost, Low, TopUp,
  Days, MaxLost \* bounds: the last day, and answers of X that never arrive

Payers == Agents \cup {Stream}
None == "none"
ME   == "users/me"     \* the resource behind own_user_id

CostAssumption ==
  /\ {Seeded, PostCost, ReadCost, OwnCost, Low, TopUp, Days, MaxLost} \subseteq Nat
  /\ PostCost >= ReadCost /\ ReadCost > 0 /\ OwnCost > 0
  /\ \A S \in {Agents, Tweets, Transfers} : IsFiniteSet(S)
  /\ Agents # {} /\ Tweets # {} /\ Stream \notin Agents /\ ME \notin Tweets

VARIABLES
  day,
  debited, credited, streamed,  \* sums over x_ledger: spends, top-up rows per transfer, and the stream's share of the spends
  replied,                      \* x_replied: tweets with our answer on record
  seen,                         \* x_seen: <<resource, day>>
  known,                        \* kv x_user_id
  lowFlag,                      \* kv x_low_alerted: the low balance has been announced
  call,                         \* what each caller is in the middle of
  posts, billed, billedToday,   \* (X) answers of ours under each tweet, the bill, and what is already on today's
  pushed,                       \* events X delivered over the open stream that stream.next() has yet to return
  lost, exact                   \* answers that never arrived; FALSE once the ledger may differ from the bill for a reason named below

ledger == <<debited, credited, streamed, lowFlag>>
memory == <<replied, seen, known>>
xside  == <<posts, billed, billedToday, pushed>>
slack  == <<lost, exact>>
vars   == <<day, ledger, memory, call, xside, slack>>

\* Fault: the ledger is not searched for the signature.
NoTopUps == {}

TopUps == {t \in Transfers : credited[t] > 0}

\* x_balance: the sum over the ledger, top-ups minus spends.
TopUpRows == UNION {{x} \X (1 .. credited[x]) : x \in Transfers}
Balance   == Seeded + TopUp * Cardinality(TopUpRows) - debited

Idle == [pc |-> "idle", op |-> None, on |-> None]
Busy(c) == call[c].pc # "idle"
Go(c, to) == call' = [call EXCEPT ![c].pc = to]
Quit(c)   == call' = [call EXCEPT ![c] = Idle]

-----------------------------------------------------------------------------
(* Entering a call: everything before the first await.                     *)

AfterToken(op) == IF op \in {"mentions", "stream"} /\ ~known THEN "user"
                  ELSE IF op = "stream" THEN "open" ELSE "send"

Enter(c, op, on) == call' = [call EXCEPT ![c] = [pc |-> "token", op |-> op, on |-> on]]

\* Fault: the billing table used as the memory of answers: it empties at midnight.
SeenAsAnswered(t) == <<t, day>> \in seen

\* Refused before anything was sent: the call returns an error.
AlreadyAnswered(t) == t \in replied
\* Fault: no look at the ledger before a call.
NeverShort(cost) == TRUE

Affordable(cost)   == Balance >= cost

\* x_post(text, reply_to): one tweet, one answer; then the balance.  A post
\* that answers nothing is paid alike and is left out.
PostCall(c, t) ==
  /\ c \in Agents /\ ~Busy(c)
  /\ ~AlreadyAnswered(t)
  /\ Affordable(PostCost)
  /\ Enter(c, "post", t)
  /\ UNCHANGED <<day, ledger, memory, xside, slack>>

\* x_read(mentions | search): refused only when not even one resource can be paid.
ReadCall(c, mode) ==
  /\ c \in Agents /\ ~Busy(c)
  /\ Affordable(ReadCost)
  /\ Enter(c, mode, None)
  /\ UNCHANGED <<day, ledger, memory, xside, slack>>

\* run_stream_once: no look at the balance.
StreamUp ==
  /\ ~Busy(Stream)
  /\ Enter(Stream, "stream", None)
  /\ UNCHANGED <<day, ledger, memory, xside, slack>>

\* access_token returned one; the cached user id is looked up next.
Authorised(c) ==
  /\ call[c].pc = "token"
  /\ Go(c, AfterToken(call[c].op))
  /\ UNCHANGED <<day, ledger, memory, xside, slack>>

-----------------------------------------------------------------------------
(* X answers.  It bills a resource once per UTC day, whoever asks.         *)

Bill(S, cost) ==
  /\ billed' = billed + cost * Cardinality(S \ billedToday)
  /\ billedToday' = billedToday \cup S

\* own_user_id: /2/users/me, then the cached id and the debit.
UserAnswered(c) ==
  /\ call[c].pc = "user"
  /\ Bill({ME}, OwnCost)
  /\ Go(c, "me")
  /\ UNCHANGED <<day, ledger, memory, posts, pushed, slack>>

\* x_debit: the row, and one alert when the balance is then under $1.
Debit(c, cost) ==
  /\ debited' = debited + cost
  /\ streamed' = IF c = Stream THEN streamed + cost ELSE streamed
  /\ lowFlag' = (lowFlag \/ Balance - cost < Low)

UserKnown(c) ==
  /\ call[c].pc = "me"
  /\ known' = TRUE
  /\ Debit(c, OwnCost)
  /\ Go(c, IF call[c].op = "stream" THEN "open" ELSE "send")
  /\ UNCHANGED <<day, credited, replied, seen, xside, slack>>

PostAnswered(c) ==
  /\ call[c].pc = "send" /\ call[c].op = "post"
  /\ posts' = [posts EXCEPT ![call[c].on] = @ + 1]
  /\ billed' = billed + PostCost
  /\ Go(c, "posted")
  /\ UNCHANGED <<day, ledger, memory, billedToday, pushed, slack>>

ReadAnswered(c, S) ==
  /\ call[c].pc = "send" /\ call[c].op \in {"mentions", "search"}
  /\ Bill(S, ReadCost)
  /\ call' = [call EXCEPT ![c].pc = "read", ![c].on = S]
  /\ UNCHANGED <<day, ledger, memory, posts, pushed, slack>>

\* An error comes back (no candidate accepted, 4xx, no such transfer yet):
\* nothing was posted, read, billed or credited.
Refused(c) ==
  /\ call[c].pc \in {"token", "user", "send", "rpc"}
  /\ Quit(c)
  /\ UNCHANGED <<day, ledger, memory, xside, slack>>

\* The connection breaks after X did the work: the caller sees an error and
\* records nothing.
AnswerLost(c) ==
  /\ call[c].pc \in {"me", "posted", "read"} /\ lost < MaxLost
  /\ lost' = lost + 1 /\ exact' = FALSE
  /\ Quit(c)
  /\ UNCHANGED <<day, ledger, memory, xside>>

-----------------------------------------------------------------------------
(* What the caller records once the answer is in.                          *)

\* post: the reply on record (INSERT OR IGNORE), then the debit.
RecordPost(c) ==
  /\ call[c].pc = "posted"
  /\ replied' = replied \cup {call[c].on}
  /\ Debit(c, PostCost)
  /\ Quit(c)
  /\ UNCHANGED <<day, credited, seen, known, xside, slack>>

\* Fault: the old rows stay: a tweet seen yesterday is free today.
MarkSeenForever(S) == seen' = seen \cup {<<t, d>> : t \in S, d \in 0..Days}

\* x_mark_seen: rows of other days purged, first sightings of today counted.
MarkSeen(S) == seen' = {s \in seen : s[2] = day} \cup {<<t, day>> : t \in S}
Sightings(S) == {t \in S : <<t, day>> \notin seen}

RecordRead(c) ==
  /\ call[c].pc = "read"
  /\ LET S == call[c].on IN
     /\ MarkSeen(S)
     /\ IF Sightings(S) # {}
        THEN Debit(c, ReadCost * Cardinality(Sightings(S)))
        ELSE UNCHANGED <<debited, streamed, lowFlag>>
  /\ Quit(c)
  /\ UNCHANGED <<day, credited, replied, known, xside, slack>>

\* X pushes tweet t over the open stream and bills the delivery, whoever reads
\* it; the same tweet fetched by a read that day is billed once.
Deliver(t) ==
  /\ call[Stream].pc = "open"
  /\ Bill({t}, ReadCost)
  /\ pushed' = pushed \cup {t}
  /\ UNCHANGED <<day, ledger, memory, call, posts, slack>>

\* surface_event: the stream's task takes the event and records it.
SurfaceEvent(t) ==
  /\ t \in pushed
  /\ pushed' = pushed \ {t}
  /\ MarkSeen({t})
  /\ IF Sightings({t}) # {}
     THEN Debit(Stream, ReadCost)
     ELSE UNCHANGED <<debited, streamed, lowFlag>>
  /\ UNCHANGED <<day, credited, replied, known, call, posts, billed, billedToday, slack>>

\* A read error, or X closes the stream: what it had delivered is dropped.
StreamDown ==
  /\ call[Stream].pc = "open"
  /\ Quit(Stream)
  /\ pushed' = {}
  /\ exact' = (exact /\ pushed = {})
  /\ UNCHANGED <<day, ledger, memory, posts, billed, billedToday, lost>>

\* x_topup: the ledger is searched for the signature, the chain is asked, and
\* what arrived is credited, which re-arms the low-balance alert.
TopUpCall(c, x) ==
  /\ c \in Agents /\ ~Busy(c)
  /\ x \notin TopUps
  /\ call' = [call EXCEPT ![c] = [Idle EXCEPT !.pc = "rpc", !.op = "topup", !.on = x]]
  /\ UNCHANGED <<day, ledger, memory, xside, slack>>

Credit(c) ==
  /\ call[c].pc = "rpc"
  /\ credited' = [credited EXCEPT ![call[c].on] = @ + 1]
  /\ lowFlag' = FALSE
  /\ Quit(c)
  /\ UNCHANGED <<day, debited, streamed, memory, xside, slack>>

-----------------------------------------------------------------------------
(* The environment.                                                        *)

\* UTC midnight.  A read or an event that X billed before it and that is
\* recorded after it goes into the new day's table.
Midnight ==
  /\ day < Days
  /\ day' = day + 1
  /\ billedToday' = {}
  /\ exact' = (exact /\ pushed = {} /\ \A c \in Payers : call[c].pc # "read")
  /\ UNCHANGED <<ledger, memory, call, posts, billed, pushed, lost>>

\* Between the two writes that record an answer, the debit still to come.
HalfRecorded(c) ==
  /\ replied' = IF call[c].pc = "posted" THEN replied \cup {call[c].on} ELSE replied
  /\ known' = (known \/ call[c].pc = "me")
  /\ IF call[c].pc = "read" THEN MarkSeen(call[c].on) ELSE UNCHANGED seen

\* The process dies while a caller waits for an answer, records one, or the
\* stream has yet to take an event, and comes back: the database survives, the
\* calls and the stream do not.
Crash ==
  LET cut == {c \in Payers : call[c].pc \in {"me", "posted", "read"}}
  IN  /\ cut # {} \/ pushed # {}
      /\ lost + Cardinality(cut) <= MaxLost
      /\ lost' = lost + Cardinality(cut)
      /\ exact' = FALSE
      /\ pushed' = {}
      /\ call' = [c \in Payers |-> Idle]
      /\ \/ UNCHANGED memory
         \/ \E c \in cut : HalfRecorded(c)
         \/ \E t \in pushed : MarkSeen({t}) /\ UNCHANGED <<replied, known>>
      /\ UNCHANGED <<day, ledger, posts, billed, billedToday>>

Init ==
  /\ day = 0
  /\ debited = 0 /\ credited = [x \in Transfers |-> 0] /\ streamed = 0
  /\ replied = {} /\ seen = {} /\ known = FALSE
  /\ lowFlag = FALSE
  /\ call = [c \in Payers |-> Idle]
  /\ posts = [t \in Tweets |-> 0] /\ billed = 0 /\ billedToday = {} /\ pushed = {}
  /\ lost = 0 /\ exact = TRUE

Step(c) ==
  \/ \E t \in Tweets : PostCall(c, t)
  \/ \E mode \in {"mentions", "search"} : ReadCall(c, mode)
  \/ \E x \in Transfers : TopUpCall(c, x)
  \/ Authorised(c)
  \/ UserAnswered(c) \/ UserKnown(c)
  \/ PostAnswered(c) \/ RecordPost(c)
  \/ \E S \in SUBSET Tweets : ReadAnswered(c, S)
  \/ RecordRead(c) \/ Credit(c)
  \/ Refused(c) \/ AnswerLost(c)

Next ==
  \/ \E c \in Payers : Step(c)
  \/ StreamUp \/ StreamDown
  \/ \E t \in Tweets : Deliver(t) \/ SurfaceEvent(t)
  \/ Midnight \/ Crash

Spec == Init /\ [][Next]_vars

-----------------------------------------------------------------------------
(* Properties.                                                             *)

Pcs == {"idle", "token", "user", "me", "send", "posted", "read", "open", "rpc"}

TypeOK ==
  /\ day \in 0..Days
  /\ debited \in Nat /\ streamed \in 0..debited
  /\ credited \in [Transfers -> Nat]
  /\ replied \subseteq Tweets /\ seen \subseteq Tweets \X (0..Days) /\ known \in BOOLEAN
  /\ lowFlag \in BOOLEAN
  /\ \A c \in Payers : call[c].pc \in Pcs
  /\ posts \in [Tweets -> Nat] /\ billed \in Nat /\ billedToday \subseteq Tweets \cup {ME}
  /\ pushed \subseteq Tweets
  /\ lost \in 0..MaxLost /\ exact \in BOOLEAN

\* A tweet gets one answer of ours, except from calls that looked at x_replied
\* before the first answer was on record, and after an answer X never
\* confirmed; midnight, which empties the billing table, does not matter.
\* (Comments of post and surface_event know no exception.)
Replying(t) == {c \in Agents : call[c].op = "post" /\ call[c].on = t /\ call[c].pc # "posted"}
RepliesBounded ==
  \A t \in Tweets : posts[t] + Cardinality(Replying(t)) <= Cardinality(Agents) + lost

\* A transfer is credited once, except by x_topup calls that searched the
\* ledger before the first credit was written.  (The refusal of topup and the
\* comment of x_ledger_has know no exception.)
CreditsBounded == \A x \in Transfers : credited[x] <= Cardinality(Agents)

\* Agents refuse at an empty ledger: what they overspend is bounded by one
\* call each, however posts, reads and top-ups interleave (the stream, which
\* never looks at the balance, comes on top).
Dearest == IF PostCost > OwnCost + ReadCost * Cardinality(Tweets)
           THEN PostCost ELSE OwnCost + ReadCost * Cardinality(Tweets)
OverspendBounded == Balance + streamed >= ReadCost - Cardinality(Agents) * Dearest

\* While no answer and no delivered event is lost, and none is recorded on a
\* later day than X billed it, the ledger says what X billed once everything is
\* recorded, however reads and events overlap; only two first fetches of the
\* account's own id can be debited for one bill.
LedgerMirrorsBill ==
  exact /\ pushed = {} /\ (\A c \in Payers : call[c].pc \notin {"me", "posted", "read"})
    => debited - billed \in 0 .. OwnCost * (Cardinality(Payers) - 1)

=============================================================================
