------------------------------- MODULE ModelCall -------------------------------
(***************************************************************************)
(* One logical model call: chat_fb_capped in agent.rs (the primary, then   *)
(* at most three rungs of the fallback ladder of its tier) around          *)
(* chat_capped in llm.rs (at most four requests to one model, the ceiling  *)
(* following the gateway's retry_max_tokens down) around read_stream.      *)
(* Every agent calls at the same time and shares the client's cooldown     *)
(* map, the count of free requests and the stall record of the seats; of   *)
(* agents that are not followed only what they do to these is kept.        *)
(*                                                                         *)
(* The gateway is external: any answer it can give to a request is an      *)
(* alternative of Next.  Prompts, schemas, prices and wording are left     *)
(* out; of an answer only what the control depends on is kept.             *)
(***************************************************************************)
EXTENDS Naturals, Sequences, FiniteSets, FiniteSetsExt, Functions

CONSTANTS
  Speakers,     \* the agents that are followed, each with one call at a time
  FreeModels, PaidModels,   \* free_model_ids and paid_model_ids, in catalog order
  SeatLadder,   \* cfg.ceo_models, as a set: the seats that may replace one another
  Attempts,     \* requests per model: 4 in the code
  Rungs,        \* fallback_ids_for(..).take(3)
  Strikes,      \* STALL_STRIKES: 3 in the code
  MaxCeiling,   \* bound: output ceilings are 1..MaxCeiling
  FreeCap       \* the cap of free requests per window

Models == Range(FreeModels) \cup Range(PaidModels)
NoModel == "none"

CallAssumption ==
  /\ {Attempts, Rungs, Strikes, MaxCeiling, FreeCap} \subseteq Nat \ {0}
  /\ FreeModels \in Seq(Range(FreeModels)) /\ PaidModels \in Seq(Range(PaidModels))
  /\ SeatLadder \subseteq Models

VARIABLES
  talk,      \* what each agent's call is in the middle of
  cooling,   \* models parked by a 429 or by the free cap (Client.cooldown)
  freeUsed,  \* requests counted against the free cap in this window
  strikes,   \* stalls on record within STALL_WINDOW, per model
  benched    \* seats benched (SeatState.cooldown)

vars == <<talk, cooling, freeUsed, strikes, benched>>

Silent == [pc |-> "silent", want |-> NoModel, now |-> NoModel, rung |-> 0,
           sent |-> 0, ceiling |-> MaxCeiling, shrunk |-> FALSE, bought |-> 0, cut |-> 0]

-----------------------------------------------------------------------------
(* The ladder.                                                             *)

\* fallback_ids_for: the tier the model was hired at.
LadderOf(m) == IF m \in Range(FreeModels) THEN FreeModels ELSE PaidModels

\* .take(3), and only then the primary itself is skipped: the places of the
\* ladder behind rung r that a call on m still goes to.
RungCount(m) == IF Len(LadderOf(m)) < Rungs THEN Len(LadderOf(m)) ELSE Rungs
RungsBehind(m, r) == {i \in r + 1 .. RungCount(m) : LadderOf(m)[i] # m}

\* record_stall: bench the model once its stalls cluster, if another rung of
\* the ladder can take the seat.
HasAlternative(m) == \E r \in SeatLadder \ {m} : r \notin benched
RecordStall(m) ==
  IF strikes[m] + 1 >= Strikes /\ HasAlternative(m)
  THEN strikes' = [strikes EXCEPT ![m] = 0] /\ benched' = benched \cup {m}
  ELSE strikes' = [strikes EXCEPT ![m] = IF @ < Strikes THEN @ + 1 ELSE @] /\ UNCHANGED benched

NoStall == UNCHANGED <<strikes, benched>>

-----------------------------------------------------------------------------
(* One model: chat_capped.                                                 *)

Speak(s, m) ==
  /\ talk[s].pc = "silent"
  /\ talk' = [talk EXCEPT ![s] = [Silent EXCEPT !.pc = "enter", !.want = m, !.now = m]]
  /\ UNCHANGED <<cooling, freeUsed, strikes, benched>>

\* The next model of the call: the one on rung r of its ladder.
AskRung(t, r) == [t EXCEPT !.pc = "enter", !.now = LadderOf(t.want)[r], !.rung = r,
                           !.sent = 0, !.ceiling = MaxCeiling, !.shrunk = FALSE]

\* A model has failed for this call.  The primary's failure may be a stall, and
\* opens the ladder unless the model spent a budget of our own choosing; a
\* rung's failure moves to the next rung; past the last one the call fails.
Gone(s, t, stalled, truncated, slow) ==
  LET first == t.rung = 0
      own   == truncated /\ ~t.shrunk
      left  == RungsBehind(t.want, t.rung)
  IN  /\ IF first /\ ((~truncated /\ (stalled \/ slow)) \/ (truncated /\ ~own))
         THEN RecordStall(t.want) ELSE NoStall
      /\ talk' = [talk EXCEPT ![s] =
                    IF (first /\ own) \/ left = {} THEN Silent ELSE AskRung(t, Min(left))]

Park(m) == cooling' = cooling \cup {m}

\* Before the first request: a parked model is not asked at all, and a free
\* one is counted against the account's cap, once per call.
EnterParked(s) ==
  /\ talk[s].pc = "enter" /\ talk[s].now \in cooling
  /\ Gone(s, talk[s], FALSE, FALSE, FALSE)
  /\ UNCHANGED <<cooling, freeUsed>>

EnterCapped(s) ==
  /\ talk[s].pc = "enter" /\ talk[s].now \notin cooling
  /\ talk[s].now \in Range(FreeModels) /\ freeUsed >= FreeCap
  /\ Park(talk[s].now)
  /\ Gone(s, talk[s], FALSE, FALSE, FALSE)
  /\ UNCHANGED freeUsed

EnterSend(s) ==
  /\ talk[s].pc = "enter" /\ talk[s].now \notin cooling
  /\ talk[s].now \in Range(FreeModels) => freeUsed < FreeCap
  /\ freeUsed' = IF talk[s].now \in Range(FreeModels) THEN freeUsed + 1 ELSE freeUsed
  /\ talk' = [talk EXCEPT ![s].pc = "wait", ![s].sent = 1]
  /\ UNCHANGED <<cooling, strikes, benched>>

\* A generation the gateway accepted and may bill, as the code takes it; and
\* one that it bills and the code takes for nothing.
Bought(t) == [t EXCEPT !.bought = @ + 1]
Cut(t)    == [t EXCEPT !.cut = @ + 1]

\* Fault: one attempt too many.
AgainOnceMore(s, t, slow) ==
  IF t.sent <= Attempts
  THEN talk' = [talk EXCEPT ![s] = [t EXCEPT !.sent = @ + 1]] /\ NoStall
  ELSE Gone(s, t, FALSE, FALSE, slow)

\* The attempt loop: ask the same model again, or give it up after the last.
Again(s, t, slow) ==
  IF t.sent < Attempts
  THEN talk' = [talk EXCEPT ![s] = [t EXCEPT !.sent = @ + 1]] /\ NoStall
  ELSE Gone(s, t, FALSE, FALSE, slow)

\* A send error, a 5xx with nothing special in it, a stream that broke before
\* its first token: nothing was generated.  slow: the call as a whole has taken
\* two minutes, which is a stall if it is the last attempt.
Hiccup(s, slow) ==
  /\ talk[s].pc = "wait"
  /\ Again(s, talk[s], slow)
  /\ UNCHANGED <<cooling, freeUsed>>

\* A fill that ends before the code takes anything for delivered: the stream
\* breaks after reasoning, or inside the arguments of a tool call, or the
\* client hangs up at its 540s, over an answer that has not begun or over one
\* like these.  What was generated is billed; the same model is asked again.
CutShort(s, slow) ==
  /\ talk[s].pc = "wait"
  /\ Again(s, Cut(talk[s]), slow)
  /\ UNCHANGED <<cooling, freeUsed>>

\* Fault: any ceiling a refusal names is followed, up as well as down, and the
\* re-send does not count as an attempt.
SmallerForever(s, fit, slow) ==
  /\ talk[s].pc = "wait"
  /\ fit # talk[s].ceiling
  /\ talk' = [talk EXCEPT ![s] = [@ EXCEPT !.ceiling = fit, !.shrunk = TRUE]]
  /\ UNCHANGED <<cooling, freeUsed, strikes, benched>>

\* A refusal that names a smaller ceiling: follow it down.
Smaller(s, fit, slow) ==
  /\ talk[s].pc = "wait"
  /\ fit < talk[s].ceiling
  /\ Again(s, [talk[s] EXCEPT !.ceiling = fit, !.shrunk = TRUE], slow)
  /\ UNCHANGED <<cooling, freeUsed>>

\* 429: park the model until the reset the server named; not retried.
RateLimited(s, slow) ==
  /\ talk[s].pc = "wait"
  /\ Park(talk[s].now)
  /\ Gone(s, talk[s], FALSE, FALSE, slow)
  /\ UNCHANGED freeUsed

\* Fault: the upstream timeout retried like any other 5xx.
TimeoutRetried(s) ==
  /\ talk[s].pc = "wait"
  /\ Again(s, Bought(talk[s]), TRUE)
  /\ UNCHANGED <<cooling, freeUsed>>

\* An upstream 504/524 inside a 5xx: the generation may be billed; not retried.
UpstreamTimeout(s) ==
  /\ talk[s].pc = "wait"
  /\ Gone(s, Bought(talk[s]), TRUE, FALSE, FALSE)
  /\ UNCHANGED <<cooling, freeUsed>>

\* No route meets the speed floor (a stall), or any other 4xx (402 among them).
Declined(s, stalled, slow) ==
  /\ talk[s].pc = "wait"
  /\ Gone(s, talk[s], stalled, FALSE, slow)
  /\ UNCHANGED <<cooling, freeUsed>>

\* finish_reason "length" with nothing said: the budget went into reasoning.
Truncated(s) ==
  /\ talk[s].pc = "wait"
  /\ Gone(s, Bought(talk[s]), FALSE, TRUE, FALSE)
  /\ UNCHANGED <<cooling, freeUsed>>

\* An answer, whole or cut off after some content or a whole tool call, which
\* is kept.
Answered(s) ==
  /\ talk[s].pc = "wait"
  /\ talk' = [talk EXCEPT ![s] = Silent]
  /\ UNCHANGED <<cooling, freeUsed, strikes, benched>>

-----------------------------------------------------------------------------
(* Clocks: a pause ends, a bench ends, a stall ages out, a window opens.   *)

CoolOff(m)  == m \in cooling /\ cooling' = cooling \ {m} /\ UNCHANGED <<talk, freeUsed, strikes, benched>>
Unbench(m)  == m \in benched /\ benched' = benched \ {m} /\ UNCHANGED <<talk, cooling, freeUsed, strikes>>
AgeOut(m)   == strikes[m] > 0 /\ strikes' = [strikes EXCEPT ![m] = @ - 1] /\ UNCHANGED <<talk, cooling, freeUsed, benched>>
NewWindow   == freeUsed > 0 /\ freeUsed' = 0 /\ UNCHANGED <<talk, cooling, strikes, benched>>

(* The calls of all the other agents, as far as these notice them: a model *)
(* is parked, a free request is counted, a stall is recorded.              *)
ParkedElsewhere(m) == m \notin cooling /\ Park(m) /\ UNCHANGED <<talk, freeUsed, strikes, benched>>
CountedElsewhere   == freeUsed < FreeCap /\ freeUsed' = freeUsed + 1
                      /\ UNCHANGED <<talk, cooling, strikes, benched>>
StalledElsewhere(m) == RecordStall(m) /\ UNCHANGED <<talk, cooling, freeUsed>>

Init ==
  /\ talk = [s \in Speakers |-> Silent]
  /\ cooling = {} /\ freeUsed = 0
  /\ strikes = [m \in Models |-> 0] /\ benched = {}

Enter(s) == EnterParked(s) \/ EnterCapped(s) \/ EnterSend(s)

Reply(s) ==
  \/ \E slow \in BOOLEAN : Hiccup(s, slow) \/ CutShort(s, slow) \/ RateLimited(s, slow)
  \/ \E fit \in 1..MaxCeiling, slow \in BOOLEAN : Smaller(s, fit, slow)
  \/ UpstreamTimeout(s) \/ Truncated(s) \/ Answered(s)
  \/ \E stalled, slow \in BOOLEAN : Declined(s, stalled, slow)

Next ==
  \/ \E s \in Speakers : (\E m \in Models : Speak(s, m)) \/ Enter(s) \/ Reply(s)
  \/ \E m \in Models : CoolOff(m) \/ Unbench(m) \/ AgeOut(m)
  \/ \E m \in Models : ParkedElsewhere(m) \/ StalledElsewhere(m)
  \/ NewWindow \/ CountedElsewhere

\* Requests are answered or time out (the client's 540s), and the task runs on.
Fairness == \A s \in Speakers : WF_vars(Enter(s) \/ Reply(s))

Spec == Init /\ [][Next]_vars /\ Fairness

-----------------------------------------------------------------------------
(* Properties.                                                             *)

Calls == [pc: {"silent", "enter", "wait"}, want: Models \cup {NoModel},
          now: Models \cup {NoModel}, rung: 0..Rungs, sent: 0..Attempts,
          ceiling: 1..MaxCeiling, shrunk: BOOLEAN, bought: Nat, cut: Nat]

TypeOK ==
  /\ talk \in [Speakers -> Calls]
  /\ cooling \subseteq Models /\ benched \subseteq Models
  /\ freeUsed \in 0..FreeCap
  /\ strikes \in [Models -> 0..Strikes]

Open(s) == talk[s].pc # "silent"
ModelsTried(t) == 1 + Cardinality({i \in 1 .. t.rung : LadderOf(t.want)[i] # t.want})

\* What a call can cost, whatever comes between the attempts: a generation the
\* code knows to be bought - spent on reasoning or timed out upstream - is the
\* last of its model, and with those it takes for nothing there are never more
\* than the attempts at each model asked (chat_capped, chat_fb_capped).  A
\* comment says less, that output which reached us is not bought twice: a
\* stream cut after reasoning or inside a tool call is billed and asked again.
BillBounded ==
  \A s \in Speakers : Open(s) =>
    LET t == talk[s]
    IN  /\ t.bought <= ModelsTried(t)
        /\ t.bought + t.cut <= Attempts * ModelsTried(t)

\* Every call comes back, with an answer or an error, whatever the gateway
\* says: the attempts, the shrinking ceiling and the ladder are all bounded.
CallEnds == \A s \in Speakers : Open(s) ~> ~Open(s)

=============================================================================
