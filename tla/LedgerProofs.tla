------------------------------ MODULE LedgerProofs ------------------------------
(***************************************************************************)
(* What module Office promises about X, for any number of agents, tweets   *)
(* and transfers and any prices: the chain of refresh tokens never breaks  *)
(* but with a lost answer; a tweet gets one answer and a transfer one      *)
(* credit, concurrent calls and lost answers aside; agents overspend by    *)
(* one call each; and the ledger says what X billed.                       *)
(***************************************************************************)
EXTENDS WorkProofs

(* The refresh token.  ChainAlive alone is not inductive: a caller that    *)
(* stores the token it holds puts it in the place of one X may accept,     *)
(* which is safe because X accepts what a caller holds, and nobody else    *)
(* can spend it.                                                           *)

LEMMA TokenCount == \A s : XToken!Cardinality(s) = Cardinality(s)
  BY DEF XToken!Cardinality, Cardinality

(* What a caller holds is live, is nowhere else, and is no candidate of an *)
(* exchange under way.                                                     *)
HeldIsFresh(u) ==
  asks[u].pc = "holding" =>
    /\ asks[u].held \in live
    /\ asks[u].held # stored /\ asks[u].held # seed
    /\ \A w \in Users : /\ asks[u].held \notin asks[w].cand
                        /\ w # u => asks[w].held # asks[u].held

RestIsEmpty(u) == asks[u].pc # "holding" => asks[u].held = XToken!NoToken

Asking == [pc: {"rest", "asking", "holding"}, cand: SUBSET Tokens, held: Tokens \cup {XToken!NoToken}]

ChainInv ==
  /\ asks \in [Users -> Asking]
  /\ stored \in Tokens \cup {XToken!NoToken} /\ seed \in Tokens /\ live \subseteq Tokens
  /\ \A u \in Users : HeldIsFresh(u) /\ RestIsEmpty(u)
  /\ cut \in Nat
  /\ XToken!ChainAlive

LEMMA ChainInvInit == ASSUME XToken!NoToken \notin Tokens PROVE XToken!Init => ChainInv
<1> SUFFICES ASSUME XToken!NoToken \notin Tokens, XToken!Init PROVE ChainInv
  OBVIOUS
<1>1. asks \in [Users -> Asking]
  BY DEF XToken!Init, Asking, XToken!Resting
<1>2. \A u \in Users : HeldIsFresh(u) /\ RestIsEmpty(u)
  BY DEF XToken!Init, XToken!Resting, HeldIsFresh, RestIsEmpty
<1>3. /\ stored \in Tokens \cup {XToken!NoToken} /\ seed \in Tokens /\ live \subseteq Tokens
      /\ {stored, seed} \cap live # {}
  BY DEF XToken!Init
<1> QED  BY <1>1, <1>2, <1>3 DEF ChainInv, XToken!ChainAlive, XToken!Init

(* A caller takes the candidates it reads, none of which is held.          *)
LEMMA AskKeeps ==
  ASSUME XToken!NoToken \notin Tokens, ChainInv, NEW u \in Users, XToken!Ask(u) PROVE ChainInv'
<1> DEFINE new == [XToken!Resting EXCEPT !.pc = "asking", !.cand = XToken!Candidates]
<1>1. asks' = [asks EXCEPT ![u] = new] /\ asks[u].pc = "rest"
  BY DEF XToken!Ask
<1>2. new.pc = "asking" /\ new.cand = XToken!Candidates /\ new.held = XToken!NoToken /\ new \in Asking
  BY DEF XToken!Resting, Asking, XToken!Candidates, ChainInv
<1>3. UNCHANGED <<stored, seed, live, cut>>
  BY DEF XToken!Ask
<1> HIDE DEF new
<1>4. asks' \in [Users -> Asking]
  BY <1>1, <1>2 DEF ChainInv
<1>5. \A w \in Users : asks'[w] = IF w = u THEN new ELSE asks[w]
  BY <1>1 DEF ChainInv
<1>6. ASSUME NEW w \in Users PROVE HeldIsFresh(w)' /\ RestIsEmpty(w)'
  <2>1. HeldIsFresh(w) /\ RestIsEmpty(w)
    BY DEF ChainInv
  <2>2. asks[u].held = XToken!NoToken
    BY <1>1 DEF ChainInv, RestIsEmpty
  <2>3. RestIsEmpty(w)'
    BY <1>2, <1>5, <2>1 DEF RestIsEmpty
  <2>4. ASSUME asks'[w].pc = "holding"
        PROVE /\ asks[w].pc = "holding" /\ asks'[w] = asks[w] /\ w # u
    BY <1>2, <1>5, <2>4
  <2>5. HeldIsFresh(w)'
    BY <1>2, <1>3, <1>5, <2>1, <2>2, <2>4 DEF HeldIsFresh, XToken!Candidates
  <2> QED  BY <2>3, <2>5
<1>7. XToken!ChainAlive'
  <2>1. CASE \E w \in Users : asks[w].held \in live
    <3>1. PICK w \in Users : asks[w].held \in live
      BY <2>1
    <3>2. w # u
      BY <1>1, <3>1 DEF ChainInv, RestIsEmpty
    <3> QED  BY <1>3, <1>5, <3>1, <3>2 DEF XToken!ChainAlive
  <2>2. CASE {stored, seed} \cap live # {} \/ cut > 0
    BY <1>3, <2>2 DEF XToken!ChainAlive
  <2> QED  BY <2>1, <2>2 DEF ChainInv, XToken!ChainAlive
<1> QED  BY <1>3, <1>4, <1>6, <1>7 DEF ChainInv

(* X spends a candidate, which nobody holds, and hands out a fresh token.  *)
LEMMA ExchangeKeeps ==
  ASSUME XToken!NoToken \notin Tokens, ChainInv, NEW u \in Users, XToken!Exchange(u) PROVE ChainInv'
<1> DEFINE next == CHOOSE t \in Tokens : t \notin XToken!InUse
           new  == [XToken!Resting EXCEPT !.pc = "holding", !.held = next]
<1>1. PICK spent \in asks[u].cand \cap live :
        live' = (live \ {spent}) \cup {next} /\ asks' = [asks EXCEPT ![u] = new]
  BY DEF XToken!Exchange
<1>2. next \in Tokens /\ next \notin XToken!InUse
  BY DEF XToken!Exchange
<1> HIDE DEF next
<1>3. new.pc = "holding" /\ new.cand = {} /\ new.held = next /\ new \in Asking
  BY <1>2 DEF XToken!Resting, Asking
<1>4. UNCHANGED <<stored, seed, cut>>
  BY DEF XToken!Exchange
<1>5. /\ next # stored /\ next # seed /\ next \notin live
      /\ \A w \in Users : next \notin asks[w].cand /\ next # asks[w].held
  BY <1>2 DEF XToken!InUse
<1> HIDE DEF new
<1>6. asks' \in [Users -> Asking] /\ live' \subseteq Tokens
  BY <1>1, <1>2, <1>3 DEF ChainInv
<1>7. \A w \in Users : asks'[w] = IF w = u THEN new ELSE asks[w]
  BY <1>1 DEF ChainInv
<1>8. HeldIsFresh(u)' /\ RestIsEmpty(u)'
  BY <1>1, <1>3, <1>4, <1>5, <1>7 DEF HeldIsFresh, RestIsEmpty
<1>9. ASSUME NEW w \in Users, w # u PROVE HeldIsFresh(w)' /\ RestIsEmpty(w)'
  <2>1. HeldIsFresh(w) /\ RestIsEmpty(w) /\ asks'[w] = asks[w]
    BY <1>7, <1>9 DEF ChainInv
  <2>2. CASE asks[w].pc = "holding"
    <3>1. asks[w].held \in live' /\ asks[w].held # next
      BY <1>1, <1>5, <2>1, <2>2 DEF HeldIsFresh
    <3>2. \A v \in Users : /\ asks[w].held \notin asks'[v].cand
                           /\ v # w => asks'[v].held # asks[w].held
      BY <1>3, <1>7, <2>1, <2>2, <3>1 DEF HeldIsFresh
    <3> QED  BY <1>4, <2>1, <2>2, <3>1, <3>2 DEF HeldIsFresh, RestIsEmpty
  <2>3. CASE asks[w].pc # "holding"
    BY <2>1, <2>3 DEF HeldIsFresh, RestIsEmpty
  <2> QED  BY <2>2, <2>3
<1>10. XToken!ChainAlive'
  BY <1>1, <1>3, <1>7 DEF XToken!ChainAlive
<1> QED  BY <1>4, <1>6, <1>8, <1>9, <1>10 DEF ChainInv

(* A caller lets go of what it has: refused, or with the token lost.       *)
LEMMA LetGo ==
  ASSUME XToken!NoToken \notin Tokens, ChainInv, NEW u \in Users, UNCHANGED <<stored, seed, live>>,
         asks' = [asks EXCEPT ![u] = XToken!Resting],
         cut' \in Nat, cut' >= cut, asks[u].pc = "holding" => cut' > 0
  PROVE  ChainInv'
<1>1. XToken!Resting \in Asking /\ XToken!Resting.pc = "rest" /\ XToken!Resting.cand = {} /\ XToken!Resting.held = XToken!NoToken
  BY DEF XToken!Resting, Asking
<1>2. asks' \in [Users -> Asking] /\ \A w \in Users : asks'[w] = IF w = u THEN XToken!Resting ELSE asks[w]
  BY <1>1 DEF ChainInv
<1>3. ASSUME NEW w \in Users PROVE HeldIsFresh(w)' /\ RestIsEmpty(w)'
  <2>1. HeldIsFresh(w) /\ RestIsEmpty(w)
    BY DEF ChainInv
  <2>2. CASE w = u
    BY <1>1, <1>2, <2>2 DEF HeldIsFresh, RestIsEmpty
  <2>3. CASE w # u
    BY <1>1, <1>2, <2>1, <2>3 DEF HeldIsFresh, RestIsEmpty, ChainInv
  <2> QED  BY <2>2, <2>3
<1>4. XToken!ChainAlive'
  <2>1. CASE asks[u].pc = "holding"
    BY <2>1 DEF XToken!ChainAlive
  <2>2. CASE asks[u].pc # "holding" /\ \E w \in Users : asks[w].held \in live
    <3>1. PICK w \in Users : asks[w].held \in live
      BY <2>2
    <3>2. w # u
      BY <2>2, <3>1 DEF ChainInv, RestIsEmpty
    <3> QED  BY <1>2, <3>1, <3>2 DEF XToken!ChainAlive
  <2>3. CASE {stored, seed} \cap live # {}
    BY <2>3 DEF XToken!ChainAlive
  <2>4. CASE cut > 0
    BY <2>4 DEF XToken!ChainAlive, ChainInv
  <2> QED  BY <2>1, <2>2, <2>3, <2>4 DEF ChainInv, XToken!ChainAlive
<1> QED  BY <1>2, <1>3, <1>4 DEF ChainInv

(* What is stored is what was held: X accepts it, whatever stood there.    *)
LEMMA StoreKeeps ==
  ASSUME XToken!NoToken \notin Tokens, ChainInv, NEW u \in Users, XToken!Store(u) PROVE ChainInv'
<1>1. XToken!Resting \in Asking /\ XToken!Resting.pc = "rest" /\ XToken!Resting.cand = {} /\ XToken!Resting.held = XToken!NoToken
  BY DEF XToken!Resting, Asking
<1>2. /\ asks' \in [Users -> Asking]
      /\ \A w \in Users : asks'[w] = IF w = u THEN XToken!Resting ELSE asks[w]
  BY <1>1 DEF ChainInv, XToken!Store
<1>3. asks[u].pc = "holding" /\ stored' = asks[u].held /\ UNCHANGED <<seed, live, cut>>
  BY DEF XToken!Store
<1>4. stored' \in live /\ stored' \in Tokens
  BY <1>3 DEF ChainInv, HeldIsFresh
<1>5. ASSUME NEW w \in Users PROVE HeldIsFresh(w)' /\ RestIsEmpty(w)'
  <2>1. HeldIsFresh(w) /\ RestIsEmpty(w)
    BY DEF ChainInv
  <2>2. CASE w = u
    BY <1>1, <1>2, <2>2 DEF HeldIsFresh, RestIsEmpty
  <2>3. CASE w # u
    BY <1>1, <1>2, <1>3, <2>1, <2>3 DEF HeldIsFresh, RestIsEmpty, ChainInv
  <2> QED  BY <2>2, <2>3
<1>6. XToken!ChainAlive'
  BY <1>3, <1>4 DEF XToken!ChainAlive
<1> QED  BY <1>2, <1>3, <1>4, <1>5, <1>6 DEF ChainInv

(* Only a process in which somebody holds an answer takes one down.        *)
LEMMA DieKeeps ==
  ASSUME XToken!NoToken \notin Tokens, IsFiniteSet(Users), ChainInv, XToken!Die PROVE ChainInv'
<1> DEFINE holders == {u \in Users : asks[u].pc = "holding"}
<1>1. XToken!Resting \in Asking /\ XToken!Resting.pc = "rest" /\ XToken!Resting.cand = {} /\ XToken!Resting.held = XToken!NoToken
  BY DEF XToken!Resting, Asking
<1>2. IsFiniteSet(holders) /\ holders # {}
  BY FS_Subset DEF XToken!Die
<1>3. Cardinality(holders) \in Nat /\ Cardinality(holders) # 0
  BY <1>2, FS_EmptySet, FS_CardinalityType
<1>4. cut' \in Nat /\ cut' > 0
  BY <1>3, TokenCount DEF XToken!Die, ChainInv
<1>5. asks' = [u \in Users |-> XToken!Resting] /\ UNCHANGED <<stored, seed, live>>
  BY DEF XToken!Die
<1>6. \A u \in Users : HeldIsFresh(u)' /\ RestIsEmpty(u)'
  BY <1>1, <1>5 DEF HeldIsFresh, RestIsEmpty
<1> QED  BY <1>1, <1>4, <1>5, <1>6 DEF ChainInv, XToken!ChainAlive

LEMMA ReseedKeeps == ASSUME XToken!NoToken \notin Tokens, ChainInv, XToken!Reseed PROVE ChainInv'
<1>1. PICK t \in Tokens \ XToken!InUse : seed' = t /\ live' = live \cup {t}
  BY DEF XToken!Reseed
<1>2. UNCHANGED <<stored, asks, cut>> /\ \A u \in Users : asks[u].pc = "rest"
  BY DEF XToken!Reseed
<1>3. \A u \in Users : HeldIsFresh(u)' /\ RestIsEmpty(u)'
  BY <1>2 DEF HeldIsFresh, RestIsEmpty, ChainInv
<1>4. XToken!ChainAlive'
  BY <1>1 DEF XToken!ChainAlive
<1> QED  BY <1>1, <1>2, <1>3, <1>4 DEF ChainInv

LEMMA ChainInvStep ==
  ASSUME XToken!NoToken \notin Tokens, IsFiniteSet(Users), ChainInv, [XToken!Next]_(XToken!vars) PROVE ChainInv'
<1>1. ASSUME NEW u \in Users, XToken!Ask(u) PROVE ChainInv'
  BY <1>1, AskKeeps
<1>2. ASSUME NEW u \in Users, XToken!Exchange(u) PROVE ChainInv'
  BY <1>2, ExchangeKeeps
<1>3. ASSUME NEW u \in Users, XToken!Fail(u) PROVE ChainInv'
  <2>1. /\ UNCHANGED <<stored, seed, live>> /\ asks' = [asks EXCEPT ![u] = XToken!Resting]
        /\ cut' \in Nat /\ cut' >= cut /\ asks[u].pc # "holding"
    BY <1>3 DEF XToken!Fail, ChainInv
  <2> QED  BY <2>1, LetGo
<1>4. ASSUME NEW u \in Users, XToken!Store(u) PROVE ChainInv'
  BY <1>4, StoreKeeps
<1>5. ASSUME NEW u \in Users, XToken!Lose(u) PROVE ChainInv'
  <2>1. /\ UNCHANGED <<stored, seed, live>> /\ asks' = [asks EXCEPT ![u] = XToken!Resting]
        /\ cut' \in Nat /\ cut' >= cut /\ cut' > 0
    BY <1>5 DEF XToken!Lose, ChainInv
  <2> QED  BY <2>1, LetGo
<1>6. CASE XToken!Die
  BY <1>6, DieKeeps
<1>7. CASE XToken!Reseed
  BY <1>7, ReseedKeeps
<1>8. CASE UNCHANGED XToken!vars
  <2>1. \A u \in Users : HeldIsFresh(u)' /\ RestIsEmpty(u)'
    BY <1>8 DEF XToken!vars, HeldIsFresh, RestIsEmpty, ChainInv
  <2>2. XToken!ChainAlive'
    BY <1>8 DEF XToken!vars, XToken!ChainAlive, ChainInv
  <2> QED  BY <1>8, <2>1, <2>2 DEF XToken!vars, ChainInv
<1> QED  BY <1>1, <1>2, <1>3, <1>4, <1>5, <1>6, <1>7, <1>8 DEF XToken!Next

(* The chain of refresh tokens never breaks but with a lost answer: after  *)
(* any rotation, by any number of callers at once, kv, the environment or  *)
(* a caller about to write kv has a token that X accepts (access_token).   *)
THEOREM ChainAliveHolds == Spec => []ChainAlive
<1>0. XToken!NoToken \notin Tokens /\ IsFiniteSet(Users)
  BY OfficeAssumption
     DEF OfficeAssumption, XToken!TokenAssumption, XToken!IsFiniteSet, IsFiniteSet
<1>1. XToken!Init => ChainInv
  BY <1>0, ChainInvInit
<1>2. ChainInv /\ [XToken!Next]_(XToken!vars) => ChainInv'
  BY <1>0, ChainInvStep
<1>3. ChainInv => ChainAlive
  BY DEF ChainInv, ChainAlive
<1> QED  BY <1>1, <1>2, <1>3, Parts, PTL DEF XToken!Spec

LEMMA TokenTypes == Spec => []XToken!TypeOK
<1> DEFINE Cut == cut \in 0 .. MaxTokenLost
<1>0. /\ XToken!NoToken \notin Tokens /\ IsFiniteSet(Users) /\ MaxTokenLost \in Nat
  BY OfficeAssumption
     DEF OfficeAssumption, XToken!TokenAssumption, XToken!IsFiniteSet, IsFiniteSet
<1>1. (XToken!Init => ChainInv) /\ (XToken!Init => Cut)
  <2>1. XToken!Init => ChainInv
    BY <1>0, ChainInvInit
  <2>2. XToken!Init => Cut
    BY <1>0 DEF XToken!Init
  <2> QED  BY <2>1, <2>2
<1>2. ChainInv /\ [XToken!Next]_(XToken!vars) => ChainInv'
  BY <1>0, ChainInvStep
<1>3. ASSUME Cut, [XToken!Next]_(XToken!vars) PROVE Cut'
  <2>1. CASE XToken!Die
    <3> DEFINE n == XToken!Cardinality({u \in Users : asks[u].pc = "holding"})
    <3>1. cut' = cut + n /\ cut' <= MaxTokenLost
      BY <2>1 DEF XToken!Die
    <3>2. n \in Nat
      BY <1>0, FS_Subset, FS_CardinalityType, TokenCount
    <3> QED  BY <1>0, <1>3, <3>1, <3>2
  <2>2. ASSUME NEW u \in Users, XToken!Lose(u) PROVE Cut'
    BY <1>0, <1>3, <2>2 DEF XToken!Lose
  <2>3. CASE UNCHANGED cut
    BY <1>3, <2>3
  <2> QED  BY <1>3, <2>1, <2>2, <2>3
           DEF XToken!Next, XToken!Ask, XToken!Exchange, XToken!Fail, XToken!Store,
               XToken!Reseed, XToken!vars
<1>4. ChainInv /\ Cut => XToken!TypeOK
  BY DEF ChainInv, Asking, XToken!TypeOK
<1> HIDE DEF Cut
<1> QED  BY <1>1, <1>2, <1>3, <1>4, Parts, PTL DEF XToken!Spec

-----------------------------------------------------------------------------
(* The ledger: what it takes for granted.                                  *)

LEMMA Prices ==
  /\ {Seeded, PostCost, ReadCost, OwnCost, Low, TopUp, Days, MaxLost} \subseteq Nat
  /\ PostCost >= ReadCost /\ ReadCost > 0 /\ OwnCost > 0
  /\ Stream \notin Agents /\ XLedger!ME \notin Tweets
  BY OfficeAssumption DEF OfficeAssumption, XLedger!CostAssumption

LEMMA Counts == \A s : XLedger!Cardinality(s) = Cardinality(s)
  BY DEF XLedger!Cardinality, Cardinality

LEMMA AllFinite ==
  /\ IsFiniteSet(Agents) /\ IsFiniteSet(Tweets) /\ IsFiniteSet(Transfers)
  /\ IsFiniteSet(XLedger!Payers)
  /\ Cardinality(Agents) \in Nat \ {0} /\ Cardinality(Tweets) \in Nat \ {0}
  /\ Cardinality(XLedger!Payers) = Cardinality(Agents) + 1
<1>1. \A s \in {Agents, Tweets, Transfers} : IsFiniteSet(s)
  BY OfficeAssumption
     DEF OfficeAssumption, XLedger!CostAssumption, XLedger!IsFiniteSet, IsFiniteSet
<1>2. Agents # {} /\ Tweets # {} /\ Stream \notin Agents
  BY OfficeAssumption DEF OfficeAssumption, XLedger!CostAssumption
<1>3. /\ Cardinality(Agents) \in Nat \ {0} /\ Cardinality(Tweets) \in Nat \ {0}
  BY <1>1, <1>2, FS_CardinalityType, FS_EmptySet
<1>4. /\ IsFiniteSet(Agents \cup {Stream})
      /\ Cardinality(Agents \cup {Stream}) = Cardinality(Agents) + 1
  BY <1>1, <1>2, FS_AddElement
<1> QED  BY <1>1, <1>3, <1>4 DEF XLedger!Payers

(* What a caller can be in the middle of.                                  *)
Posting   == [pc: {"token", "send", "posted"}, op: {"post"}, on: Tweets]
Reading   == [pc: {"token", "user", "me", "send"}, op: {"mentions", "search"},
              on: {XLedger!None}]
Read      == [pc: {"read"}, op: {"mentions", "search"}, on: SUBSET Tweets]
ToppingUp == [pc: {"rpc"}, op: {"topup"}, on: Transfers]
Streaming == [pc: {"token", "user", "me", "open"}, op: {"stream"}, on: {XLedger!None}]

CallsOf(c) == {XLedger!Idle} \cup
  IF c = Stream THEN Streaming ELSE Posting \cup Reading \cup Read \cup ToppingUp

CallInv == /\ DOMAIN call = XLedger!Payers
           /\ \A c \in XLedger!Payers : call[c] \in CallsOf(c)

(* A step sets one call, or ends them all, or leaves them alone.           *)
Sets(c, new) == /\ DOMAIN call' = DOMAIN call /\ call'[c] = new
                /\ \A d \in XLedger!Payers : d # c => call'[d] = call[d]

LEMMA SetKeeps ==
  ASSUME CallInv, NEW c \in XLedger!Payers, NEW new \in CallsOf(c), Sets(c, new)
  PROVE  CallInv'
  BY DEF CallInv, Sets

LEMMA QuitIs ==
  ASSUME CallInv, NEW c \in XLedger!Payers, XLedger!Quit(c)
  PROVE  Sets(c, XLedger!Idle) /\ CallInv'
<1>1. Sets(c, XLedger!Idle)
  BY DEF XLedger!Quit, Sets, CallInv
<1>2. XLedger!Idle \in CallsOf(c)
  BY DEF CallsOf
<1> QED  BY <1>1, <1>2, SetKeeps

LEMMA EnterIs ==
  ASSUME CallInv, NEW c \in XLedger!Payers, NEW op, NEW on, XLedger!Enter(c, op, on),
         \/ c \in Agents /\ op = "post" /\ on \in Tweets
         \/ c \in Agents /\ op \in {"mentions", "search"} /\ on = XLedger!None
         \/ c = Stream /\ op = "stream" /\ on = XLedger!None
  PROVE  Sets(c, [pc |-> "token", op |-> op, on |-> on]) /\ CallInv'
<1> DEFINE new == [pc |-> "token", op |-> op, on |-> on]
<1>1. new \in CallsOf(c)
  BY Prices DEF CallsOf, Posting, Reading, Streaming
<1>2. Sets(c, new)
  BY DEF XLedger!Enter, Sets, CallInv
<1> QED  BY <1>1, <1>2, SetKeeps

(* Who is where.                                                           *)
LEMMA CallKinds ==
  ASSUME CallInv, NEW c \in XLedger!Payers
  PROVE  \/ call[c] = XLedger!Idle /\ call[c].pc = "idle" /\ call[c].op = XLedger!None
         \/ c = Stream /\ c \notin Agents /\ call[c] \in Streaming
         \/ c \in Agents /\ c # Stream /\ call[c] \in Posting \cup Reading \cup Read \cup ToppingUp
  BY Prices DEF CallInv, CallsOf, XLedger!Idle, XLedger!Payers

LEMMA GoIs ==
  ASSUME CallInv, NEW c \in XLedger!Payers, NEW to, XLedger!Go(c, to),
         [call[c] EXCEPT !.pc = to] \in CallsOf(c)
  PROVE  Sets(c, [call[c] EXCEPT !.pc = to]) /\ CallInv'
<1>1. Sets(c, [call[c] EXCEPT !.pc = to])
  BY DEF XLedger!Go, Sets, CallInv
<1> QED  BY <1>1, SetKeeps

LEMMA CallInit == XLedger!Init => CallInv
  BY DEF XLedger!Init, CallInv, CallsOf

(* The steps of one call that wait for something.                          *)
LEMMA AuthorisedIs ==
  ASSUME CallInv, NEW c \in XLedger!Payers, XLedger!Authorised(c)
  PROVE  /\ CallInv' /\ call[c].pc = "token"
         /\ Sets(c, [call[c] EXCEPT !.pc = XLedger!AfterToken(call[c].op)])
<1>1. [call[c] EXCEPT !.pc = XLedger!AfterToken(call[c].op)] \in CallsOf(c)
  <2>1. CASE call[c] \in Streaming /\ c = Stream
    BY <2>1 DEF CallsOf, Streaming, XLedger!AfterToken
  <2>2. CASE call[c] \in Posting /\ c # Stream
    BY <2>2 DEF CallsOf, Posting, XLedger!AfterToken
  <2>3. CASE call[c] \in Reading /\ c # Stream
    BY <2>3 DEF CallsOf, Reading, XLedger!AfterToken
  <2>4. CASE call[c].pc \in {"idle", "read", "rpc"}
    BY <2>4 DEF XLedger!Authorised
  <2> QED  BY <2>1, <2>2, <2>3, <2>4, CallKinds DEF Read, ToppingUp
<1> QED  BY <1>1, GoIs DEF XLedger!Authorised

LEMMA UserAnsweredIs ==
  ASSUME CallInv, NEW c \in XLedger!Payers, XLedger!UserAnswered(c)
  PROVE  /\ CallInv' /\ call[c].pc = "user" /\ Sets(c, [call[c] EXCEPT !.pc = "me"])
         /\ call[c] \in Reading \cup Streaming
<1>1. call[c].pc = "user"
  BY DEF XLedger!UserAnswered
<1>2. \/ call[c] \in Streaming /\ c = Stream
      \/ call[c] \in Reading /\ c # Stream
  BY <1>1, CallKinds DEF Posting, Read, ToppingUp
<1>3. [call[c] EXCEPT !.pc = "me"] \in CallsOf(c)
  BY <1>2 DEF CallsOf, Streaming, Reading
<1> QED  BY <1>1, <1>2, <1>3, GoIs DEF XLedger!UserAnswered

LEMMA UserKnownIs ==
  ASSUME CallInv, NEW c \in XLedger!Payers, XLedger!UserKnown(c)
  PROVE  /\ CallInv' /\ call[c].pc = "me"
         /\ \/ /\ c = Stream /\ call[c] \in Streaming
               /\ Sets(c, [call[c] EXCEPT !.pc = "open"])
            \/ /\ c \in Agents /\ c # Stream /\ call[c] \in Reading
               /\ Sets(c, [call[c] EXCEPT !.pc = "send"])
<1>1. call[c].pc = "me"
  BY DEF XLedger!UserKnown
<1>2. CASE call[c] \in Streaming /\ c = Stream
  <2>1. call[c].op = "stream" /\ [call[c] EXCEPT !.pc = "open"] \in CallsOf(c)
    BY <1>2 DEF CallsOf, Streaming
  <2> QED  BY <1>1, <1>2, <2>1, GoIs DEF XLedger!UserKnown
<1>3. CASE call[c] \in Reading /\ c # Stream /\ c \in Agents
  <2>1. call[c].op # "stream" /\ [call[c] EXCEPT !.pc = "send"] \in CallsOf(c)
    BY <1>3 DEF CallsOf, Reading
  <2> QED  BY <1>1, <1>3, <2>1, GoIs DEF XLedger!UserKnown
<1> QED  BY <1>1, <1>2, <1>3, CallKinds DEF Posting, Read, ToppingUp

LEMMA PostAnsweredIs ==
  ASSUME CallInv, NEW c \in XLedger!Payers, XLedger!PostAnswered(c)
  PROVE  /\ CallInv' /\ c \in Agents /\ call[c] \in Posting /\ call[c].pc = "send"
         /\ Sets(c, [call[c] EXCEPT !.pc = "posted"])
<1>1. call[c].pc = "send" /\ call[c].op = "post"
  BY DEF XLedger!PostAnswered
<1>2. call[c] \in Posting /\ c # Stream /\ c \in Agents
  BY <1>1, CallKinds DEF Reading, Read, ToppingUp, Streaming
<1>3. [call[c] EXCEPT !.pc = "posted"] \in CallsOf(c)
  BY <1>2 DEF CallsOf, Posting
<1> QED  BY <1>1, <1>2, <1>3, GoIs DEF XLedger!PostAnswered

LEMMA ReadAnsweredIs ==
  ASSUME CallInv, NEW c \in XLedger!Payers, NEW s \in SUBSET Tweets, XLedger!ReadAnswered(c, s)
  PROVE  /\ CallInv' /\ c \in Agents /\ call[c] \in Reading /\ call[c].pc = "send"
         /\ Sets(c, [call[c] EXCEPT !.pc = "read", !.on = s])
<1>1. call[c].pc = "send" /\ call[c].op \in {"mentions", "search"}
  BY DEF XLedger!ReadAnswered
<1>2. call[c] \in Reading /\ c # Stream /\ c \in Agents
  BY <1>1, CallKinds DEF Posting, Read, ToppingUp, Streaming
<1>3. [call[c] EXCEPT !.pc = "read", !.on = s] \in CallsOf(c)
  BY <1>2 DEF CallsOf, Reading, Read
<1>4. Sets(c, [call[c] EXCEPT !.pc = "read", !.on = s])
  BY DEF XLedger!ReadAnswered, Sets, CallInv
<1> QED  BY <1>1, <1>2, <1>3, <1>4, SetKeeps

LEMMA TopUpCallIs ==
  ASSUME CallInv, NEW c \in XLedger!Payers, NEW x \in Transfers, XLedger!TopUpCall(c, x)
  PROVE  /\ CallInv' /\ c \in Agents /\ call[c] = XLedger!Idle
         /\ Sets(c, [pc |-> "rpc", op |-> "topup", on |-> x])
<1>1. c \in Agents /\ c # Stream /\ call[c].pc = "idle"
  BY Prices DEF XLedger!TopUpCall, XLedger!Busy
<1>2. call[c] = XLedger!Idle
  BY <1>1, CallKinds DEF Posting, Reading, Read, ToppingUp
<1>3. Sets(c, [pc |-> "rpc", op |-> "topup", on |-> x])
  BY DEF XLedger!TopUpCall, XLedger!Idle, Sets, CallInv
<1>4. [pc |-> "rpc", op |-> "topup", on |-> x] \in CallsOf(c)
  BY <1>1 DEF CallsOf, ToppingUp
<1> QED  BY <1>1, <1>2, <1>3, <1>4, SetKeeps

LEMMA IdleWhenNotBusy ==
  ASSUME CallInv, NEW c \in XLedger!Payers, ~XLedger!Busy(c) PROVE call[c] = XLedger!Idle
<1>1. call[c].pc = "idle"
  BY DEF XLedger!Busy
<1> QED  BY <1>1, CallKinds DEF Posting, Reading, Read, ToppingUp, Streaming

LEMMA CrashIs ==
  ASSUME CallInv, XLedger!Crash
  PROVE  CallInv' /\ \A c \in XLedger!Payers : call'[c] = XLedger!Idle
  BY DEF XLedger!Crash, CallInv, CallsOf

LEMMA EntersIs ==
  ASSUME CallInv, NEW c \in XLedger!Payers
  PROVE  /\ \A t \in Tweets : XLedger!PostCall(c, t) =>
               /\ CallInv' /\ c \in Agents /\ call[c] = XLedger!Idle
               /\ Sets(c, [pc |-> "token", op |-> "post", on |-> t])
         /\ \A mode \in {"mentions", "search"} : XLedger!ReadCall(c, mode) =>
               /\ CallInv' /\ c \in Agents /\ call[c] = XLedger!Idle
               /\ Sets(c, [pc |-> "token", op |-> mode, on |-> XLedger!None])
  BY EnterIs, IdleWhenNotBusy DEF XLedger!PostCall, XLedger!ReadCall

LEMMA StreamUpIs ==
  ASSUME CallInv, XLedger!StreamUp
  PROVE  /\ CallInv' /\ Stream \in XLedger!Payers /\ call[Stream] = XLedger!Idle
         /\ Sets(Stream, [pc |-> "token", op |-> "stream", on |-> XLedger!None])
<1>1. Stream \in XLedger!Payers
  BY DEF XLedger!Payers
<1> QED  BY <1>1, EnterIs, IdleWhenNotBusy DEF XLedger!StreamUp

LEMMA CallStays == ASSUME CallInv, [XLedger!Next]_(XLedger!vars) PROVE CallInv'
<1>1. ASSUME NEW c \in XLedger!Payers, XLedger!Step(c) PROVE CallInv'
  <2>1. CASE XLedger!RecordPost(c) \/ XLedger!RecordRead(c) \/ XLedger!Credit(c)
             \/ XLedger!Refused(c) \/ XLedger!AnswerLost(c)
    BY <2>1, QuitIs DEF XLedger!RecordPost, XLedger!RecordRead, XLedger!Credit,
       XLedger!Refused, XLedger!AnswerLost
  <2> QED  BY <1>1, <2>1, EntersIs, TopUpCallIs, AuthorisedIs, UserAnsweredIs, UserKnownIs,
              PostAnsweredIs, ReadAnsweredIs DEF XLedger!Step
<1>2. CASE XLedger!StreamDown
  BY <1>2, QuitIs DEF XLedger!StreamDown, XLedger!Payers
<1>3. CASE UNCHANGED call
  BY <1>3 DEF CallInv
<1> QED  BY <1>1, <1>2, <1>3, StreamUpIs, CrashIs
         DEF XLedger!Next, XLedger!Deliver, XLedger!SurfaceEvent, XLedger!Midnight, XLedger!vars

-----------------------------------------------------------------------------
(* Answers and credits.                                                    *)

(* What most steps do to them: nothing, and of a call that posts or tops   *)
(* up they let the refused one go and an authorised one on.                *)
Quiet ==
  /\ UNCHANGED <<credited, posts, lost, replied>>
  /\ \A c \in Agents :
       \/ call'[c] = call[c]
       \/ call'[c] = XLedger!Idle /\ call[c].pc # "posted"
       \/ call[c] \in Posting /\ call[c].pc = "token" /\ call'[c] = [call[c] EXCEPT !.pc = "send"]
       \/ call'[c] \in Reading \cup Read /\ call[c].pc # "posted"

LEMMA AgentsPay == Agents \subseteq XLedger!Payers /\ Stream \in XLedger!Payers
  BY DEF XLedger!Payers

LEMMA OneMoves ==
  ASSUME CallInv, NEW c \in XLedger!Payers, NEW new, Sets(c, new),
         UNCHANGED <<credited, posts, lost, replied>>,
         \/ c = Stream
         \/ new = XLedger!Idle /\ call[c].pc # "posted"
         \/ call[c] \in Posting /\ call[c].pc = "token" /\ new = [call[c] EXCEPT !.pc = "send"]
         \/ new \in Reading \cup Read /\ call[c].pc # "posted"
  PROVE  Quiet
<1>1. ASSUME NEW d \in Agents, d # c PROVE call'[d] = call[d]
  BY <1>1, AgentsPay DEF Sets
<1>2. c \in Agents => c # Stream /\ call'[c] = new
  BY Prices DEF Sets
<1> QED  BY <1>1, <1>2 DEF Quiet

LEMMA Moves ==
  ASSUME CallInv, [XLedger!Next]_(XLedger!vars)
  PROVE  \/ Quiet
         \/ XLedger!Crash
         \/ \E c \in XLedger!Payers :
              \/ XLedger!PostAnswered(c) \/ XLedger!RecordPost(c) \/ XLedger!Credit(c)
              \/ XLedger!AnswerLost(c)
              \/ \E t \in Tweets : XLedger!PostCall(c, t)
              \/ \E x \in Transfers : XLedger!TopUpCall(c, x)
<1> USE DEF XLedger!ledger, XLedger!memory, XLedger!xside, XLedger!slack
<1>1. ASSUME NEW c \in XLedger!Payers, NEW mode \in {"mentions", "search"},
             XLedger!ReadCall(c, mode)
      PROVE  Quiet
  <2>1. [pc |-> "token", op |-> mode, on |-> XLedger!None] \in Reading
    BY DEF Reading
  <2>2. UNCHANGED <<credited, posts, lost, replied>>
    BY <1>1 DEF XLedger!ReadCall
  <2>3. Sets(c, [pc |-> "token", op |-> mode, on |-> XLedger!None]) /\ call[c] = XLedger!Idle
    BY <1>1, EntersIs
  <2>4. call[c].pc # "posted"
    BY <2>3 DEF XLedger!Idle
  <2> QED  BY <2>1, <2>2, <2>3, <2>4, OneMoves
<1>2. ASSUME NEW c \in XLedger!Payers, XLedger!Authorised(c) PROVE Quiet
  <2>1. UNCHANGED <<credited, posts, lost, replied>>
    BY <1>2 DEF XLedger!Authorised
  <2>2. Sets(c, [call[c] EXCEPT !.pc = XLedger!AfterToken(call[c].op)]) /\ call[c].pc = "token"
    BY <1>2, AuthorisedIs
  <2>3. CASE call[c] \in Posting
    <3>1. XLedger!AfterToken(call[c].op) = "send"
      BY <2>3 DEF Posting, XLedger!AfterToken
    <3> QED  BY <2>1, <2>2, <2>3, <3>1, OneMoves
  <2>4. CASE call[c] \in Reading
    <3>1. [call[c] EXCEPT !.pc = XLedger!AfterToken(call[c].op)] \in Reading
      BY <2>4 DEF Reading, XLedger!AfterToken
    <3> QED  BY <2>1, <2>2, <3>1, OneMoves
  <2> QED  BY <2>1, <2>2, <2>3, <2>4, CallKinds, OneMoves DEF Read, ToppingUp
<1>3. ASSUME NEW c \in XLedger!Payers, XLedger!UserAnswered(c) PROVE Quiet
  <2>1. UNCHANGED <<credited, posts, lost, replied>>
    BY <1>3 DEF XLedger!UserAnswered
  <2>2. call[c] \in Reading => [call[c] EXCEPT !.pc = "me"] \in Reading
    BY DEF Reading
  <2>3. call[c] \in Reading \/ c = Stream
    BY <1>3, UserAnsweredIs, CallKinds DEF Reading, Streaming, Posting, Read, ToppingUp
  <2> QED  BY <1>3, <2>1, <2>2, <2>3, UserAnsweredIs, OneMoves
<1>4. ASSUME NEW c \in XLedger!Payers, XLedger!UserKnown(c) PROVE Quiet
  <2>1. UNCHANGED <<credited, posts, lost, replied>>
    BY <1>4 DEF XLedger!UserKnown
  <2>2. call[c] \in Reading => [call[c] EXCEPT !.pc = "send"] \in Reading
    BY DEF Reading
  <2> QED  BY <1>4, <2>1, <2>2, UserKnownIs, OneMoves
<1>5. ASSUME NEW c \in XLedger!Payers, NEW s \in SUBSET Tweets, XLedger!ReadAnswered(c, s)
      PROVE  Quiet
  <2>1. UNCHANGED <<credited, posts, lost, replied>>
    BY <1>5 DEF XLedger!ReadAnswered
  <2>2. call[c] \in Reading => [call[c] EXCEPT !.pc = "read", !.on = s] \in Read
    BY DEF Reading, Read
  <2> QED  BY <1>5, <2>1, <2>2, ReadAnsweredIs, OneMoves
<1>6. ASSUME NEW c \in XLedger!Payers, XLedger!RecordRead(c) \/ XLedger!Refused(c) PROVE Quiet
  <2>1. UNCHANGED <<credited, posts, lost, replied>>
    BY <1>6 DEF XLedger!RecordRead, XLedger!Refused
  <2>2. call[c].pc # "posted" /\ XLedger!Quit(c)
    BY <1>6 DEF XLedger!RecordRead, XLedger!Refused
  <2> QED  BY <2>1, <2>2, QuitIs, OneMoves
<1>7. CASE XLedger!StreamUp
  <2>1. UNCHANGED <<credited, posts, lost, replied>>
    BY <1>7 DEF XLedger!StreamUp
  <2> QED  BY <1>7, <2>1, StreamUpIs, OneMoves
<1>8. CASE XLedger!StreamDown
  <2>1. UNCHANGED <<credited, posts, lost, replied>>
    BY <1>8 DEF XLedger!StreamDown
  <2> QED  BY <1>8, <2>1, AgentsPay, QuitIs, OneMoves DEF XLedger!StreamDown
<1>9. CASE UNCHANGED <<call, credited, posts, lost, replied>>
  BY <1>9 DEF Quiet
<1>10. CASE \/ XLedger!Midnight \/ UNCHANGED XLedger!vars
            \/ \E t \in Tweets : XLedger!Deliver(t) \/ XLedger!SurfaceEvent(t)
  BY <1>9, <1>10 DEF XLedger!Midnight, XLedger!Deliver, XLedger!SurfaceEvent, XLedger!vars
<1> QED
  BY <1>1, <1>2, <1>3, <1>4, <1>5, <1>6, <1>7, <1>8, <1>10 DEF XLedger!Next, XLedger!Step

(* Who is about to credit a transfer, and who has an answer in hand.       *)
Crediting(x) == {c \in Agents : call[c].pc = "rpc" /\ call[c].on = x}
Posted(t)    == {c \in Agents : call[c].op = "post" /\ call[c].on = t /\ call[c].pc = "posted"}

LEMMA AgentsSubset ==
  ASSUME NEW s \in SUBSET Agents
  PROVE  IsFiniteSet(s) /\ Cardinality(s) \in Nat /\ Cardinality(s) <= Cardinality(Agents)
  BY AllFinite, FS_Subset, FS_CardinalityType

(* Before its first credit a transfer may be under way with every agent;   *)
(* after it no agent begins another one.                                   *)
CreditInv ==
  /\ credited \in [Transfers -> Nat]
  /\ \A x \in Transfers : credited[x] + Cardinality(Crediting(x)) <= Cardinality(Agents)

LEMMA CreditInit == XLedger!Init => CreditInv
<1> SUFFICES ASSUME XLedger!Init PROVE CreditInv
  OBVIOUS
<1>1. credited = [x \in Transfers |-> 0]
  BY DEF XLedger!Init
<1>2. \A x \in Transfers : Crediting(x) = {}
  BY AgentsPay DEF XLedger!Init, XLedger!Idle, Crediting
<1> QED  BY <1>1, <1>2, FS_EmptySet, AllFinite DEF CreditInv

LEMMA CreditStays ==
  ASSUME CallInv, CreditInv, [XLedger!Next]_(XLedger!vars) PROVE CreditInv'
<1>0. \A x : /\ Cardinality(Crediting(x)) \in Nat /\ Cardinality(Crediting(x)') \in Nat
             /\ Cardinality(Crediting(x)') <= Cardinality(Agents)
  BY AgentsSubset DEF Crediting
<1>1. ASSUME NEW c \in XLedger!Payers, NEW y \in Transfers, XLedger!TopUpCall(c, y)
      PROVE  CreditInv'
  <2>1. credited' = credited /\ credited[y] = 0
    BY <1>1 DEF XLedger!TopUpCall, XLedger!TopUps, XLedger!ledger, CreditInv
  <2>2. ASSUME NEW x \in Transfers, x # y PROVE Crediting(x)' = Crediting(x)
    <3>1. call'[c] = [pc |-> "rpc", op |-> "topup", on |-> y] /\ call[c].pc = "idle"
      BY <1>1, TopUpCallIs DEF Sets, XLedger!Idle
    <3>2. ASSUME NEW d \in Agents
          PROVE  call'[d].pc = "rpc" /\ call'[d].on = x <=> call[d].pc = "rpc" /\ call[d].on = x
      <4>1. CASE d = c
        BY <2>2, <3>1, <4>1
      <4>2. CASE d # c
        BY <1>1, <4>2, TopUpCallIs, AgentsPay DEF Sets
      <4> QED  BY <4>1, <4>2
    <3> QED  BY <3>2 DEF Crediting
  <2> QED  BY <1>0, <2>1, <2>2, AllFinite DEF CreditInv
<1>2. ASSUME NEW c \in XLedger!Payers, XLedger!Credit(c) PROVE CreditInv'
  <2>1. call[c] \in ToppingUp /\ c \in Agents
    BY <1>2, CallKinds DEF XLedger!Credit, Posting, Reading, Read, Streaming
  <2>2. Sets(c, XLedger!Idle)
    BY <1>2, QuitIs DEF XLedger!Credit
  <2>3. PICK y \in Transfers : call[c].on = y
    BY <2>1 DEF ToppingUp
  <2>4. credited' = [credited EXCEPT ![y] = @ + 1] /\ call[c].pc = "rpc"
    BY <1>2, <2>3 DEF XLedger!Credit
  <2>5. c \in Crediting(y) /\ Crediting(y)' = Crediting(y) \ {c}
    BY <2>1, <2>2, <2>3, <2>4, AgentsPay DEF Sets, Crediting, XLedger!Idle
  <2>6. ASSUME NEW x \in Transfers, x # y PROVE Crediting(x)' = Crediting(x)
    BY <2>1, <2>2, <2>3, <2>6, AgentsPay DEF Sets, Crediting, XLedger!Idle
  <2>7. IsFiniteSet(Crediting(y))
    BY AgentsSubset DEF Crediting
  <2>8. Cardinality(Crediting(y)') = Cardinality(Crediting(y)) - 1
    BY <2>5, <2>7, FS_RemoveElement
  <2> QED  BY <1>0, <2>4, <2>6, <2>8, AllFinite DEF CreditInv
<1>3. ASSUME credited' = credited, \A x : Crediting(x)' \subseteq Crediting(x) PROVE CreditInv'
  <2>1. ASSUME NEW x \in Transfers
        PROVE  Cardinality(Crediting(x)') <= Cardinality(Crediting(x))
    <3>1. IsFiniteSet(Crediting(x))
      BY AgentsSubset DEF Crediting
    <3> QED  BY <1>3, <3>1, FS_Subset
  <2> QED  BY <1>0, <1>3, <2>1, AllFinite DEF CreditInv
<1>4. ASSUME NEW c \in XLedger!Payers, NEW new, Sets(c, new), new.pc # "rpc", credited' = credited
      PROVE  CreditInv'
  <2>1. \A x : Crediting(x)' \subseteq Crediting(x)
    BY <1>4, AgentsPay DEF Sets, Crediting
  <2> QED  BY <1>3, <1>4, <2>1
<1> USE DEF XLedger!ledger
<1>5. ASSUME NEW c \in XLedger!Payers, XLedger!PostAnswered(c) PROVE CreditInv'
  <2>1. credited' = credited
    BY <1>5 DEF XLedger!PostAnswered
  <2>2. [call[c] EXCEPT !.pc = "posted"].pc # "rpc"
    BY <1>5, PostAnsweredIs DEF Posting
  <2> QED  BY <1>4, <1>5, <2>1, <2>2, PostAnsweredIs
<1>6. ASSUME NEW c \in XLedger!Payers, XLedger!RecordPost(c) \/ XLedger!AnswerLost(c)
      PROVE  CreditInv'
  <2>1. credited' = credited /\ XLedger!Quit(c)
    BY <1>6 DEF XLedger!RecordPost, XLedger!AnswerLost
  <2>2. XLedger!Idle.pc # "rpc"
    BY DEF XLedger!Idle
  <2> QED  BY <1>4, <2>1, <2>2, QuitIs
<1>7. ASSUME NEW c \in XLedger!Payers, NEW t \in Tweets, XLedger!PostCall(c, t) PROVE CreditInv'
  BY <1>4, <1>7, EntersIs DEF XLedger!PostCall
<1>8. CASE XLedger!Crash
  <2>1. credited' = credited
    BY <1>8 DEF XLedger!Crash
  <2>2. \A x : Crediting(x)' \subseteq Crediting(x)
    BY <1>8, CrashIs, AgentsPay DEF Crediting, XLedger!Idle
  <2> QED  BY <1>3, <2>1, <2>2
<1>9. CASE Quiet
  <2>1. \A x : Crediting(x)' \subseteq Crediting(x)
    <3>1. ASSUME NEW c \in Agents, call'[c].pc = "rpc" PROVE call'[c] = call[c]
      <4>1. call'[c] \notin Reading \cup Read /\ call'[c] # XLedger!Idle
        BY <3>1 DEF Reading, Read, XLedger!Idle
      <4>2. ASSUME call[c] \in Posting, call'[c] = [call[c] EXCEPT !.pc = "send"] PROVE FALSE
        BY <3>1, <4>2 DEF Posting
      <4> QED  BY <1>9, <4>1, <4>2 DEF Quiet
    <3> QED  BY <3>1 DEF Crediting
  <2> QED  BY <1>3, <1>9, <2>1 DEF Quiet
<1> QED  BY <1>1, <1>2, <1>5, <1>6, <1>7, <1>8, <1>9, Moves

(* A transfer is credited once, except by agents that had searched the     *)
(* ledger before the first credit was in it (x::x_topup): however many     *)
(* calls there are, and however often the process dies.                    *)
THEOREM CreditsBoundedHolds == Spec => []CreditsBounded
<1>1. CreditInv => CreditsBounded
  <2> SUFFICES ASSUME CreditInv, NEW x \in Transfers PROVE credited[x] <= Cardinality(Agents)
    BY Counts DEF CreditsBounded, XLedger!CreditsBounded
  <2>1. Cardinality(Crediting(x)) \in Nat
    BY AgentsSubset DEF Crediting
  <2> QED  BY <2>1, AllFinite DEF CreditInv
<1>2. XLedger!Spec => []CallInv
  BY CallInit, CallStays, PTL DEF XLedger!Spec
<1>3. XLedger!Spec => []CreditInv
  BY <1>2, CreditInit, CreditStays, PTL DEF XLedger!Spec
<1> QED  BY <1>1, <1>3, Parts, PTL

-----------------------------------------------------------------------------
(* Answers.  Before the first answer of a tweet is on record, every answer *)
(* it has is in the hands of an agent that still has to record it, or was  *)
(* lost; so the agents that can still begin one are the others.            *)
Fine(t) ==
  /\ posts[t] + Cardinality(XLedger!Replying(t)) <= Cardinality(Agents) + lost
  /\ t \notin replied => posts[t] <= Cardinality(Posted(t)) + lost

ReplyInv == posts \in [Tweets -> Nat] /\ lost \in Nat /\ \A t \in Tweets : Fine(t)

LEMMA ReplyInit == XLedger!Init => ReplyInv
<1> SUFFICES ASSUME XLedger!Init PROVE ReplyInv
  OBVIOUS
<1>1. posts = [x \in Tweets |-> 0] /\ lost = 0
  BY DEF XLedger!Init
<1>2. \A t \in Tweets : XLedger!Replying(t) = {} /\ Posted(t) = {}
  BY AgentsPay DEF XLedger!Init, XLedger!Idle, XLedger!None, XLedger!Replying, Posted
<1>3. \A t \in Tweets : Fine(t)
  BY <1>1, <1>2, FS_EmptySet, AllFinite DEF Fine
<1> QED  BY <1>1, <1>3 DEF ReplyInv

LEMMA RepliesFinite ==
  \A t : /\ XLedger!Replying(t) \in SUBSET Agents /\ Posted(t) \in SUBSET Agents
         /\ IsFiniteSet(XLedger!Replying(t)) /\ Cardinality(XLedger!Replying(t)) \in Nat
         /\ IsFiniteSet(Posted(t)) /\ Cardinality(Posted(t)) \in Nat
  BY AgentsSubset DEF XLedger!Replying, Posted

LEMMA RepliesFinitePrime ==
  \A t : /\ XLedger!Replying(t)' \in SUBSET Agents /\ Posted(t)' \in SUBSET Agents
         /\ IsFiniteSet(XLedger!Replying(t)') /\ Cardinality(XLedger!Replying(t)') \in Nat
         /\ IsFiniteSet(Posted(t)') /\ Cardinality(Posted(t)') \in Nat
  BY AgentsSubset DEF XLedger!Replying, Posted

LEMMA FineStays ==
  ASSUME ReplyInv, NEW t \in Tweets, posts' = posts, lost' \in Nat, lost' >= lost,
         t \in replied => t \in replied',
         XLedger!Replying(t)' \subseteq XLedger!Replying(t),
         t \in replied' \/ Posted(t) \subseteq Posted(t)'
  PROVE  Fine(t)'
<1>1. Fine(t) /\ posts[t] \in Nat /\ lost \in Nat
  BY DEF ReplyInv
<1>2. Cardinality(XLedger!Replying(t)') <= Cardinality(XLedger!Replying(t))
  BY RepliesFinite, FS_Subset
<1>3. t \in replied' \/ Cardinality(Posted(t)) <= Cardinality(Posted(t)')
  BY RepliesFinitePrime, FS_Subset
<1> QED  BY <1>1, <1>2, <1>3, RepliesFinite, RepliesFinitePrime, AllFinite DEF Fine

LEMMA ReplyStays ==
  ASSUME CallInv, ReplyInv, [XLedger!Next]_(XLedger!vars) PROVE ReplyInv'
<1> USE DEF XLedger!ledger, XLedger!memory, XLedger!xside, XLedger!slack
<1>1. ASSUME NEW c \in XLedger!Payers, NEW y \in Tweets, XLedger!PostCall(c, y) PROVE ReplyInv'
  <2>1. UNCHANGED <<posts, lost, replied>> /\ y \notin replied
    BY <1>1 DEF XLedger!PostCall, XLedger!AlreadyAnswered
  <2>2. /\ c \in Agents /\ call[c].pc = "idle" /\ call[c].op = XLedger!None
        /\ call'[c].pc = "token" /\ call'[c].op = "post" /\ call'[c].on = y
        /\ \A d \in Agents : d # c => call'[d] = call[d]
    <3>1. /\ c \in Agents /\ call[c] = XLedger!Idle
          /\ Sets(c, [pc |-> "token", op |-> "post", on |-> y])
      BY <1>1, EntersIs
    <3>2. call[c].pc = "idle" /\ call[c].op = XLedger!None
      BY <3>1 DEF XLedger!Idle
    <3>3. call'[c].pc = "token" /\ call'[c].op = "post" /\ call'[c].on = y
      BY <3>1 DEF Sets
    <3> QED  BY <3>1, <3>2, <3>3, AgentsPay DEF Sets
  <2>3. ASSUME NEW t \in Tweets PROVE Posted(t)' = Posted(t)
    BY <2>2 DEF Posted, XLedger!None
  <2>4. ASSUME NEW t \in Tweets, t # y PROVE XLedger!Replying(t)' = XLedger!Replying(t)
    BY <2>2, <2>4 DEF XLedger!Replying, XLedger!None
  <2>5. Fine(y)'
    <3>1. Cardinality(Posted(y)) + Cardinality(XLedger!Replying(y)') <= Cardinality(Agents)
      <4>1. Posted(y) \cap XLedger!Replying(y)' = {}
        BY <2>3 DEF Posted, XLedger!Replying
      <4>2. /\ IsFiniteSet(Posted(y) \cup XLedger!Replying(y)')
            /\ Cardinality(Posted(y) \cup XLedger!Replying(y)')
                 = Cardinality(Posted(y)) + Cardinality(XLedger!Replying(y)') - Cardinality({})
        BY <4>1, RepliesFinite, RepliesFinitePrime, FS_Union
      <4>3. Cardinality(Posted(y) \cup XLedger!Replying(y)') <= Cardinality(Agents)
        BY RepliesFinite, RepliesFinitePrime, AgentsSubset
      <4> QED  BY <4>2, <4>3, FS_EmptySet, RepliesFinite, RepliesFinitePrime, AllFinite
    <3>2. posts[y] <= Cardinality(Posted(y)) + lost /\ posts[y] \in Nat /\ lost \in Nat
      BY <2>1 DEF ReplyInv, Fine
    <3> QED  BY <2>1, <2>3, <3>1, <3>2, RepliesFinite, RepliesFinitePrime, AllFinite DEF Fine
  <2>6. ASSUME NEW t \in Tweets, t # y PROVE Fine(t)'
    BY <2>1, <2>3, <2>4, <2>6, FineStays DEF ReplyInv
  <2> QED  BY <2>1, <2>5, <2>6 DEF ReplyInv
<1>2. ASSUME NEW c \in XLedger!Payers, XLedger!PostAnswered(c) PROVE ReplyInv'
  <2>1. /\ c \in Agents /\ call[c] \in Posting /\ call[c].pc = "send"
        /\ \A d \in Agents : d # c => call'[d] = call[d]
    BY <1>2, PostAnsweredIs, AgentsPay DEF Sets
  <2>2. PICK y \in Tweets : call[c].on = y
    BY <2>1 DEF Posting
  <2>3. call'[c].pc = "posted" /\ call'[c].op = "post" /\ call'[c].on = y /\ call[c].op = "post"
    BY <1>2, <2>1, <2>2, PostAnsweredIs DEF Sets, Posting
  <2>4. posts' = [posts EXCEPT ![y] = @ + 1] /\ UNCHANGED <<lost, replied>>
    BY <1>2, <2>2 DEF XLedger!PostAnswered
  <2>5. ASSUME NEW t \in Tweets, t # y
        PROVE  XLedger!Replying(t)' = XLedger!Replying(t) /\ Posted(t)' = Posted(t)
    BY <2>1, <2>2, <2>3, <2>5 DEF XLedger!Replying, Posted
  <2>6. /\ c \in XLedger!Replying(y) /\ XLedger!Replying(y)' = XLedger!Replying(y) \ {c}
        /\ c \notin Posted(y) /\ Posted(y)' = Posted(y) \cup {c}
    BY <2>1, <2>2, <2>3 DEF XLedger!Replying, Posted
  <2>7. /\ Cardinality(XLedger!Replying(y)') = Cardinality(XLedger!Replying(y)) - 1
        /\ Cardinality(Posted(y)') = Cardinality(Posted(y)) + 1
    BY <2>6, RepliesFinite, FS_RemoveElement, FS_AddElement
  <2>8. Fine(y)'
    BY <2>4, <2>7, RepliesFinite, AllFinite DEF Fine, ReplyInv
  <2>9. ASSUME NEW t \in Tweets, t # y PROVE Fine(t)'
    BY <2>4, <2>5, <2>9 DEF Fine, ReplyInv
  <2> QED  BY <2>4, <2>8, <2>9 DEF ReplyInv
<1>3. ASSUME NEW c \in XLedger!Payers, XLedger!RecordPost(c) PROVE ReplyInv'
  <2>1. /\ UNCHANGED <<posts, lost>> /\ replied' = replied \cup {call[c].on}
        /\ call[c].pc = "posted" /\ call'[c] = XLedger!Idle
        /\ \A d \in Agents : d # c => call'[d] = call[d]
    BY <1>3, QuitIs, AgentsPay DEF XLedger!RecordPost, XLedger!Debit, Sets
  <2>2. ASSUME NEW t \in Tweets PROVE Fine(t)'
    <3>1. XLedger!Replying(t)' \subseteq XLedger!Replying(t)
      BY <2>1 DEF XLedger!Replying, XLedger!Idle, XLedger!None
    <3>2. t \in replied' \/ Posted(t) \subseteq Posted(t)'
      BY <2>1 DEF Posted
    <3> QED  BY <2>1, <3>1, <3>2, FineStays DEF ReplyInv
  <2> QED  BY <2>1, <2>2 DEF ReplyInv
<1>4. ASSUME NEW c \in XLedger!Payers, XLedger!AnswerLost(c) PROVE ReplyInv'
  <2>1. /\ UNCHANGED <<posts, replied>> /\ lost' = lost + 1
        /\ call'[c] = XLedger!Idle
        /\ \A d \in Agents : d # c => call'[d] = call[d]
    BY <1>4, QuitIs, AgentsPay DEF XLedger!AnswerLost, Sets
  <2>2. ASSUME NEW t \in Tweets PROVE Fine(t)'
    <3>1. XLedger!Replying(t)' \subseteq XLedger!Replying(t)
      BY <2>1 DEF XLedger!Replying, XLedger!Idle, XLedger!None
    <3>2. Posted(t) \ {c} \subseteq Posted(t)'
      BY <2>1 DEF Posted
    <3>3. Cardinality(XLedger!Replying(t)') <= Cardinality(XLedger!Replying(t))
      BY <3>1, RepliesFinite, FS_Subset
    <3>4. Cardinality(Posted(t)) <= Cardinality(Posted(t)') + 1
      <4>1. CASE c \in Posted(t)
        <5>1. /\ IsFiniteSet(Posted(t) \ {c})
              /\ Cardinality(Posted(t) \ {c}) = Cardinality(Posted(t)) - 1
          BY <4>1, RepliesFinite, FS_RemoveElement
        <5>2. Cardinality(Posted(t) \ {c}) <= Cardinality(Posted(t)')
          BY <3>2, RepliesFinitePrime, FS_Subset
        <5> QED  BY <5>1, <5>2, RepliesFinite, RepliesFinitePrime
      <4>2. CASE c \notin Posted(t)
        <5>1. Posted(t) \subseteq Posted(t)'
          BY <3>2, <4>2
        <5>2. Cardinality(Posted(t)) <= Cardinality(Posted(t)')
          BY <5>1, RepliesFinitePrime, FS_Subset
        <5> QED  BY <5>2, RepliesFinite, RepliesFinitePrime
      <4> QED  BY <4>1, <4>2
    <3> QED  BY <2>1, <3>3, <3>4, RepliesFinite, RepliesFinitePrime, AllFinite DEF ReplyInv, Fine
  <2> QED  BY <2>1, <2>2 DEF ReplyInv
<1>5. CASE XLedger!Crash
  <2> DEFINE n == {c \in XLedger!Payers : call[c].pc \in {"me", "posted", "read"}}
  <2>1. posts' = posts /\ replied \subseteq replied' /\ lost' = lost + XLedger!Cardinality(n)
    BY <1>5 DEF XLedger!Crash, XLedger!HalfRecorded
  <2>2. lost' = lost + Cardinality(n)
    BY <2>1, Counts
  <2>3. IsFiniteSet(n) /\ Cardinality(n) \in Nat
    BY AllFinite, FS_Subset, FS_CardinalityType
  <2>4. ASSUME NEW t \in Tweets PROVE Fine(t)'
    <3>1. XLedger!Replying(t)' = {}
      BY <1>5, CrashIs, AgentsPay DEF XLedger!Replying, XLedger!Idle, XLedger!None
    <3>2. Posted(t) \subseteq n
      BY AgentsPay DEF Posted
    <3> HIDE DEF n
    <3>3. Cardinality(Posted(t)) <= Cardinality(n)
      BY <2>3, <3>2, FS_Subset
    <3>4. Cardinality(XLedger!Replying(t)') = 0
      BY <3>1, FS_EmptySet
    <3>5. posts'[t] <= Cardinality(Agents) + lost'
      BY <2>1, <2>2, <2>3, RepliesFinite, AllFinite DEF ReplyInv, Fine
    <3>6. t \notin replied' => posts'[t] <= lost'
      BY <2>1, <2>2, <2>3, <3>3, RepliesFinite DEF ReplyInv, Fine
    <3>7. posts'[t] \in Nat /\ lost' \in Nat
      BY <2>1, <2>2, <2>3 DEF ReplyInv
    <3> QED  BY <3>4, <3>5, <3>6, <3>7, RepliesFinitePrime, AllFinite DEF Fine
  <2> HIDE DEF n
  <2> QED  BY <2>1, <2>2, <2>3, <2>4 DEF ReplyInv
<1>6. ASSUME UNCHANGED <<posts, lost, replied>>,
             \A t \in Tweets : XLedger!Replying(t)' \subseteq XLedger!Replying(t) /\ Posted(t) = Posted(t)'
      PROVE  ReplyInv'
  BY <1>6, FineStays DEF ReplyInv
<1>7. ASSUME NEW c \in XLedger!Payers, XLedger!Credit(c) PROVE ReplyInv'
  <2>1. /\ UNCHANGED <<posts, lost, replied>>
        /\ call[c].pc = "rpc" /\ call'[c] = XLedger!Idle
        /\ \A d \in Agents : d # c => call'[d] = call[d]
    BY <1>7, QuitIs, AgentsPay DEF XLedger!Credit, Sets
  <2>2. ASSUME NEW t \in Tweets
        PROVE  XLedger!Replying(t)' \subseteq XLedger!Replying(t) /\ Posted(t) = Posted(t)'
    BY <2>1 DEF XLedger!Replying, Posted, XLedger!Idle, XLedger!None
  <2> QED  BY <1>6, <2>1, <2>2
<1>8. ASSUME NEW c \in XLedger!Payers, NEW x \in Transfers, XLedger!TopUpCall(c, x) PROVE ReplyInv'
  <2>1. UNCHANGED <<posts, lost, replied>>
    BY <1>8 DEF XLedger!TopUpCall
  <2>2. /\ call[c].op = XLedger!None /\ call'[c].op = "topup"
        /\ \A d \in Agents : d # c => call'[d] = call[d]
    <3>1. /\ call[c] = XLedger!Idle /\ Sets(c, [pc |-> "rpc", op |-> "topup", on |-> x])
      BY <1>8, TopUpCallIs
    <3>2. call[c].op = XLedger!None
      BY <3>1 DEF XLedger!Idle
    <3>3. call'[c].op = "topup"
      BY <3>1 DEF Sets
    <3> QED  BY <3>1, <3>2, <3>3, AgentsPay DEF Sets
  <2>3. ASSUME NEW t \in Tweets
        PROVE  XLedger!Replying(t)' \subseteq XLedger!Replying(t) /\ Posted(t) = Posted(t)'
    BY <2>2 DEF XLedger!Replying, Posted, XLedger!None
  <2> QED  BY <1>6, <2>1, <2>3
<1>9. CASE Quiet
  <2>1. ASSUME NEW d \in Agents
        PROVE  \/ call'[d] = call[d]
               \/ call'[d].op # "post" /\ ~(call[d].pc = "posted" /\ call[d].op = "post")
               \/ /\ call'[d].op = call[d].op /\ call'[d].on = call[d].on
                  /\ call[d].pc = "token" /\ call'[d].pc = "send"
    <3>1. CASE call'[d] = XLedger!Idle /\ call[d].pc # "posted"
      BY <3>1 DEF XLedger!Idle, XLedger!None
    <3>2. CASE call[d] \in Posting /\ call[d].pc = "token" /\ call'[d] = [call[d] EXCEPT !.pc = "send"]
      BY <3>2 DEF Posting
    <3>3. CASE call'[d] \in Reading \cup Read /\ call[d].pc # "posted"
      BY <3>3 DEF Reading, Read
    <3> QED  BY <1>9, <3>1, <3>2, <3>3 DEF Quiet
  <2>2. ASSUME NEW t \in Tweets
        PROVE  XLedger!Replying(t)' \subseteq XLedger!Replying(t) /\ Posted(t) = Posted(t)'
    BY <2>1 DEF XLedger!Replying, Posted
  <2> QED  BY <1>6, <1>9, <2>2 DEF Quiet
<1> QED  BY <1>1, <1>2, <1>3, <1>4, <1>5, <1>7, <1>8, <1>9, Moves

(* A tweet gets one answer of ours, except from calls that looked before   *)
(* the first was on record, and after answers X never confirmed (x::post's *)
(* test of x_reply_to before the send, x_record_reply after the answer).    *)
THEOREM RepliesBoundedHolds == Spec => []RepliesBounded
<1>1. ReplyInv => RepliesBounded
  BY Counts DEF ReplyInv, Fine, RepliesBounded, XLedger!RepliesBounded
<1>2. XLedger!Spec => []CallInv
  BY CallInit, CallStays, PTL DEF XLedger!Spec
<1>3. XLedger!Spec => []ReplyInv
  BY <1>2, ReplyInit, ReplyStays, PTL DEF XLedger!Spec
<1> QED  BY <1>1, <1>3, Parts, PTL

-----------------------------------------------------------------------------
(* Overspending.  What an agent in a call may still debit is Dearest, less *)
(* OwnCost once it is past own_user_id; a call begins only on a balance of *)
(* ReadCost, so what the agents in a call may still debit comes on top of  *)
(* what those that are not have overspent already.                         *)
Owes(r)   == r.op \in {"post", "mentions", "search"}
IsPast(r) == r.op \in {"mentions", "search"} /\ r.pc \in {"send", "read"}
Owing     == {c \in Agents : Owes(call[c])}
Past      == {c \in Agents : IsPast(call[c])}

Worth == XLedger!Balance + streamed
Bound(o, p) == ReadCost - (Cardinality(Agents) - o) * XLedger!Dearest - p * OwnCost
Owed == Worth >= Bound(Cardinality(Owing), Cardinality(Past))

Money == /\ debited \in Nat /\ streamed \in Nat /\ credited \in [Transfers -> Nat]
         /\ IsFiniteSet(XLedger!TopUpRows)

LEMMA Times ==
  ASSUME NEW k \in Nat, NEW a \in Nat, NEW b \in Nat, a <= b
  PROVE  k * a \in Nat /\ k * a <= k * b
<1>1. b = a + (b - a) /\ b - a \in Nat
  OBVIOUS
<1>2. k * b = k * a + k * (b - a)
  BY <1>1
<1>3. k * (b - a) \in Nat /\ k * a \in Nat
  BY <1>1
<1> QED  BY <1>2, <1>3

LEMMA DearestIs ==
  /\ XLedger!Dearest \in Nat /\ XLedger!Dearest >= PostCost
  /\ XLedger!Dearest >= OwnCost + ReadCost * Cardinality(Tweets)
  /\ XLedger!Dearest >= OwnCost /\ XLedger!Dearest >= ReadCost
<1> DEFINE n == Cardinality(Tweets)
<1>1. ReadCost * n \in Nat /\ ReadCost * 1 <= ReadCost * n
  BY AllFinite, Prices, Times
<1>2. XLedger!Dearest = IF PostCost > OwnCost + ReadCost * n THEN PostCost ELSE OwnCost + ReadCost * n
  BY Counts DEF XLedger!Dearest
<1> HIDE DEF n
<1>3. /\ XLedger!Dearest \in Nat /\ XLedger!Dearest >= PostCost
      /\ XLedger!Dearest >= OwnCost + ReadCost * n
  BY <1>1, <1>2, Prices
<1>4. XLedger!Dearest >= OwnCost /\ XLedger!Dearest >= ReadCost
  BY <1>1, <1>3, Prices
<1> QED  BY <1>3, <1>4 DEF n

LEMMA BoundFacts ==
  ASSUME NEW o \in Nat, NEW p \in Nat
  PROVE  /\ Bound(o, p) \in Int
         /\ Bound(o + 1, p) = Bound(o, p) + XLedger!Dearest
         /\ Bound(o, p + 1) = Bound(o, p) - OwnCost
         /\ o <= Cardinality(Agents) => Bound(o, p) <= ReadCost
         /\ p <= o => Bound(0, 0) <= Bound(o, p)
         /\ Bound(0, 0) <= 0
<1> DEFINE d == XLedger!Dearest
           n == Cardinality(Agents)
<1>1. d \in Nat /\ n \in Nat /\ n >= 1 /\ OwnCost \in Nat /\ ReadCost \in Nat
      /\ d >= OwnCost /\ d >= ReadCost
  BY DearestIs, AllFinite, Prices
<1>2. \A a, b : Bound(a, b) = ReadCost - (n - a) * d - b * OwnCost
  BY DEF Bound
<1> HIDE DEF d, n
<1>3. \A a \in Nat : (n - a) * d = n * d - a * d
  BY <1>1
<1>4. (o + 1) * d = o * d + d /\ (p + 1) * OwnCost = p * OwnCost + OwnCost
  BY <1>1
<1>5. n * d \in Nat /\ o * d \in Nat /\ p * OwnCost \in Nat
  BY <1>1
<1>6. o <= n => o * d <= n * d
  <2>1. o <= n => d * o <= d * n
    BY <1>1, Times
  <2> QED  BY <1>1, <2>1
<1>7. p <= o => p * OwnCost <= o * d
  <2>1. p <= o => d * p <= d * o
    BY <1>1, Times
  <2>2. p * OwnCost <= p * d
    BY <1>1, Times
  <2> QED  BY <1>1, <1>5, <2>1, <2>2
<1>8. d <= n * d
  <2>1. d * 1 <= d * n
    BY <1>1, Times
  <2> QED  BY <1>1, <2>1
<1>9. Bound(o, p) = ReadCost - n * d + o * d - p * OwnCost
  BY <1>1, <1>2, <1>3, <1>5
<1>10. Bound(o + 1, p) = ReadCost - n * d + o * d + d - p * OwnCost
  BY <1>1, <1>2, <1>3, <1>4, <1>5
<1>11. Bound(o, p + 1) = ReadCost - n * d + o * d - p * OwnCost - OwnCost
  BY <1>1, <1>2, <1>3, <1>4, <1>5
<1>12. Bound(0, 0) = ReadCost - n * d
  BY <1>1, <1>2
<1>13. Bound(o, p) \in Int /\ Bound(o + 1, p) = Bound(o, p) + d
       /\ Bound(o, p + 1) = Bound(o, p) - OwnCost
  BY <1>1, <1>5, <1>9, <1>10, <1>11
<1>14. o <= n => Bound(o, p) <= ReadCost
  BY <1>1, <1>5, <1>6, <1>9
<1>15. p <= o => Bound(0, 0) <= Bound(o, p)
  BY <1>1, <1>5, <1>7, <1>9, <1>12
<1>16. Bound(0, 0) <= 0
  BY <1>1, <1>5, <1>8, <1>12
<1> QED  BY <1>13, <1>14, <1>15, <1>16 DEF d, n

LEMMA OwingFinite ==
  /\ Owing \in SUBSET Agents /\ Past \in SUBSET Owing
  /\ IsFiniteSet(Owing) /\ IsFiniteSet(Past)
  /\ Cardinality(Owing) \in Nat /\ Cardinality(Past) \in Nat
  /\ Cardinality(Owing) <= Cardinality(Agents) /\ Cardinality(Past) <= Cardinality(Owing)
<1>1. Owing \in SUBSET Agents /\ Past \in SUBSET Owing
  BY DEF Owing, Past, Owes, IsPast
<1> QED  BY <1>1, AgentsSubset, FS_Subset

LEMMA OwingFinitePrime ==
  /\ Owing' \in SUBSET Agents /\ Past' \in SUBSET Owing'
  /\ IsFiniteSet(Owing') /\ IsFiniteSet(Past')
  /\ Cardinality(Owing') \in Nat /\ Cardinality(Past') \in Nat
  /\ Cardinality(Owing') <= Cardinality(Agents) /\ Cardinality(Past') <= Cardinality(Owing')
<1>1. Owing' \in SUBSET Agents /\ Past' \in SUBSET Owing'
  BY DEF Owing, Past, Owes, IsPast
<1> QED  BY <1>1, AgentsSubset, FS_Subset

LEMMA OwingSets ==
  ASSUME NEW c \in XLedger!Payers, NEW new, Sets(c, new)
  PROVE  /\ c \in Agents =>
              /\ Owing' = IF Owes(new) THEN Owing \cup {c} ELSE Owing \ {c}
              /\ Past' = IF IsPast(new) THEN Past \cup {c} ELSE Past \ {c}
         /\ c \notin Agents => Owing' = Owing /\ Past' = Past
<1>1. \A d \in Agents : d # c => call'[d] = call[d]
  BY AgentsPay DEF Sets
<1>2. call'[c] = new
  BY DEF Sets
<1> QED  BY <1>1, <1>2 DEF Owing, Past, Owes, IsPast

LEMMA RecordKinds ==
  /\ ~Owes(XLedger!Idle) /\ ~IsPast(XLedger!Idle)
  /\ \A r \in Posting : Owes(r) /\ ~IsPast(r)
  /\ \A r \in Reading : Owes(r) /\ (IsPast(r) <=> r.pc = "send")
  /\ \A r \in Read : Owes(r) /\ IsPast(r)
  /\ \A r \in ToppingUp : ~Owes(r) /\ ~IsPast(r)
  BY DEF Owes, IsPast, XLedger!Idle, XLedger!None, Posting, Reading, Read, ToppingUp

LEMMA WorthIs ==
  ASSUME Money
  PROVE  /\ XLedger!Balance \in Int /\ Worth \in Int
         /\ Worth = Seeded + TopUp * Cardinality(XLedger!TopUpRows) - debited + streamed
<1>1. Cardinality(XLedger!TopUpRows) \in Nat
  BY FS_CardinalityType DEF Money
<1>2. TopUp * Cardinality(XLedger!TopUpRows) \in Nat
  BY <1>1, Prices
<1> QED  BY <1>1, <1>2, Counts, Prices DEF Money, Worth, XLedger!Balance

LEMMA WorthIsPrime ==
  ASSUME Money'
  PROVE  /\ Worth' \in Int
         /\ Worth' = Seeded + TopUp * Cardinality(XLedger!TopUpRows') - debited' + streamed'
<1>1. Cardinality(XLedger!TopUpRows') \in Nat
  BY FS_CardinalityType DEF Money
<1>2. TopUp * Cardinality(XLedger!TopUpRows') \in Nat
  BY <1>1, Prices
<1> QED  BY <1>1, <1>2, Counts, Prices DEF Money, Worth, XLedger!Balance

LEMMA MoneyStill ==
  ASSUME Money, UNCHANGED <<credited, debited, streamed>> PROVE Money' /\ Worth' = Worth
<1>1. XLedger!TopUpRows' = XLedger!TopUpRows
  BY DEF XLedger!TopUpRows
<1>2. XLedger!Balance' = XLedger!Balance
  BY <1>1 DEF XLedger!Balance
<1> QED  BY <1>1, <1>2 DEF Money, Worth

LEMMA DebitIs ==
  ASSUME Money, NEW c, NEW cost \in Nat, XLedger!Debit(c, cost), UNCHANGED credited
  PROVE  Money' /\ Worth' = IF c = Stream THEN Worth ELSE Worth - cost
<1>1. XLedger!TopUpRows' = XLedger!TopUpRows
  BY DEF XLedger!TopUpRows
<1>2. debited' = debited + cost /\ streamed' = IF c = Stream THEN streamed + cost ELSE streamed
  BY DEF XLedger!Debit
<1>3. Money'
  BY <1>1, <1>2 DEF Money
<1>4. Cardinality(XLedger!TopUpRows) \in Nat /\ TopUp * Cardinality(XLedger!TopUpRows) \in Nat
  BY FS_CardinalityType, Prices DEF Money
<1> QED  BY <1>1, <1>2, <1>3, <1>4, WorthIs, WorthIsPrime, Prices DEF Money

LEMMA CreditIs ==
  ASSUME Money, NEW y \in Transfers, credited' = [credited EXCEPT ![y] = @ + 1],
         UNCHANGED <<debited, streamed>>
  PROVE  Money' /\ Worth' >= Worth
<1> DEFINE row == <<y, credited[y] + 1>>
<1>1. XLedger!TopUpRows' = XLedger!TopUpRows \cup {row}
  <2>1. ASSUME NEW x \in Transfers, x # y PROVE 1 .. credited'[x] = 1 .. credited[x]
    BY <2>1 DEF Money
  <2>2. 1 .. credited'[y] = (1 .. credited[y]) \cup {credited[y] + 1}
    BY DEF Money
  <2> QED  BY <2>1, <2>2 DEF XLedger!TopUpRows
<1> HIDE DEF row
<1>2. IsFiniteSet(XLedger!TopUpRows')
  BY <1>1, FS_AddElement DEF Money
<1>3. credited' \in [Transfers -> Nat]
  BY DEF Money
<1>4. Money'
  BY <1>2, <1>3 DEF Money
<1>5. /\ Cardinality(XLedger!TopUpRows) <= Cardinality(XLedger!TopUpRows')
      /\ Cardinality(XLedger!TopUpRows) \in Nat /\ Cardinality(XLedger!TopUpRows') \in Nat
  BY <1>1, <1>2, FS_Subset, FS_CardinalityType DEF Money
<1>6. /\ TopUp * Cardinality(XLedger!TopUpRows) <= TopUp * Cardinality(XLedger!TopUpRows')
      /\ TopUp * Cardinality(XLedger!TopUpRows) \in Nat
      /\ TopUp * Cardinality(XLedger!TopUpRows') \in Nat
  BY <1>5, Times, Prices
<1> QED  BY <1>4, <1>6, WorthIs, WorthIsPrime, Prices DEF Money

(* What a step may do to the worth, given whom it moves.                   *)
LEMMA OwedStill ==
  ASSUME Money, Money', Owed, Owing' = Owing, Past' = Past, Worth' >= Worth PROVE Owed'
  BY WorthIs, WorthIsPrime, OwingFinite, BoundFacts DEF Owed, Bound, XLedger!Dearest

LEMMA OwedEnters ==
  ASSUME Money, Worth' = Worth, XLedger!Balance >= ReadCost PROVE Owed'
<1>1. Worth >= ReadCost /\ Worth \in Int
  BY WorthIs, Prices DEF Money, Worth
<1>2. /\ Bound(Cardinality(Owing'), Cardinality(Past')) <= ReadCost
      /\ Bound(Cardinality(Owing'), Cardinality(Past')) \in Int
  BY OwingFinitePrime, BoundFacts
<1>3. Worth' >= Bound(Cardinality(Owing'), Cardinality(Past'))
  BY <1>1, <1>2, Prices
<1> QED  BY <1>3 DEF Owed, Bound, XLedger!Dearest

LEMMA OwedGoesPast ==
  ASSUME Money, Money', Owed, NEW c \in Agents, c \notin Past,
         Owing' = Owing, Past' = Past \cup {c}, Worth' >= Worth - OwnCost
  PROVE  Owed'
<1>1. Cardinality(Past') = Cardinality(Past) + 1
  BY OwingFinite, FS_AddElement
<1>2. Worth >= Bound(Cardinality(Owing), Cardinality(Past))
  BY DEF Owed
<1>4. Bound(Cardinality(Owing), Cardinality(Past) + 1) = Bound(Cardinality(Owing), Cardinality(Past)) - OwnCost
      /\ Bound(Cardinality(Owing), Cardinality(Past)) \in Int
  BY OwingFinite, BoundFacts
<1>5. Bound(Cardinality(Owing'), Cardinality(Past')) = Bound(Cardinality(Owing), Cardinality(Past)) - OwnCost
  BY <1>1, <1>4
<1> HIDE DEF Bound
<1>3. Worth' >= Bound(Cardinality(Owing'), Cardinality(Past'))
  BY <1>2, <1>4, <1>5, WorthIs, WorthIsPrime, Prices
<1> QED  BY <1>3 DEF Owed, Bound, XLedger!Dearest

LEMMA OwedLeaves ==
  ASSUME Money, Money', Owed, NEW c \in XLedger!Payers, Sets(c, XLedger!Idle),
         NEW cost \in Nat, Worth' >= Worth - cost,
         c \in Agents /\ Owes(call[c]) => cost <= XLedger!Dearest,
         c \in Agents /\ IsPast(call[c]) => cost + OwnCost <= XLedger!Dearest,
         ~(c \in Agents /\ Owes(call[c])) => cost = 0
  PROVE  Owed'
<1> USE DEF XLedger!Payers
<1>1. CASE c \notin Owing
  <2>1. ~(c \in Agents /\ Owes(call[c])) /\ c \notin Past
    BY <1>1, OwingFinite DEF Owing
  <2>2. Owing' = Owing /\ Past' = Past
    BY <1>1, <2>1, OwingSets, RecordKinds
  <2>3. Worth' >= Worth
    BY <2>1, WorthIs, WorthIsPrime
  <2> QED  BY <2>2, <2>3, OwedStill
<1>2. CASE c \in Owing
  <2>1. /\ c \in Agents /\ Owes(call[c]) /\ c \in XLedger!Payers
        /\ Owing' = Owing \ {c} /\ Past' = Past \ {c}
    BY <1>2, OwingSets, RecordKinds DEF Owing
  <2>2. /\ Cardinality(Owing') = Cardinality(Owing) - 1
        /\ Cardinality(Owing) = Cardinality(Owing') + 1
    <3>1. Cardinality(Owing') = Cardinality(Owing) - 1
      BY <1>2, <2>1, OwingFinite, FS_RemoveElement
    <3> QED  BY <3>1, OwingFinite
  <2>3. Worth >= Bound(Cardinality(Owing), Cardinality(Past))
    BY DEF Owed
  <2>4. CASE c \in Past
    <3>1. Cardinality(Past) = Cardinality(Past') + 1
      <4>1. Cardinality(Past') = Cardinality(Past) - 1
        BY <2>1, <2>4, OwingFinite, FS_RemoveElement
      <4> QED  BY <4>1, OwingFinite
    <3>2. cost + OwnCost <= XLedger!Dearest
      BY <2>1, <2>4 DEF Past
    <3>3. Bound(Cardinality(Owing), Cardinality(Past))
            = Bound(Cardinality(Owing'), Cardinality(Past')) + XLedger!Dearest - OwnCost
      <4>1. Bound(Cardinality(Owing), Cardinality(Past))
              = Bound(Cardinality(Owing'), Cardinality(Past)) + XLedger!Dearest
        BY <2>2, OwingFinite, OwingFinitePrime, BoundFacts
      <4>2. Bound(Cardinality(Owing'), Cardinality(Past))
              = Bound(Cardinality(Owing'), Cardinality(Past')) - OwnCost
        BY <3>1, OwingFinite, OwingFinitePrime, BoundFacts
      <4>3. Bound(Cardinality(Owing'), Cardinality(Past')) \in Int
        BY OwingFinitePrime, BoundFacts
      <4> QED  BY <4>1, <4>2, <4>3, DearestIs, Prices
    <3>4. Bound(Cardinality(Owing'), Cardinality(Past')) \in Int
      BY OwingFinitePrime, BoundFacts
    <3>5. Worth' >= Bound(Cardinality(Owing'), Cardinality(Past'))
      BY <2>3, <3>2, <3>3, <3>4, WorthIs, WorthIsPrime, DearestIs, Prices
    <3> QED  BY <3>5 DEF Owed, Bound, XLedger!Dearest
  <2>5. CASE c \notin Past
    <3>1. Past' = Past
      BY <2>1, <2>5
    <3>2. Bound(Cardinality(Owing), Cardinality(Past))
            = Bound(Cardinality(Owing'), Cardinality(Past)) + XLedger!Dearest
      BY <2>2, OwingFinite, OwingFinitePrime, BoundFacts
    <3>3. Bound(Cardinality(Owing'), Cardinality(Past)) \in Int
      BY OwingFinite, OwingFinitePrime, BoundFacts
    <3>5. cost <= XLedger!Dearest
      BY <2>1
    <3>6. Worth' >= Bound(Cardinality(Owing'), Cardinality(Past))
      BY <2>3, <3>2, <3>3, <3>5, WorthIs, WorthIsPrime, DearestIs
    <3>4. Worth' >= Bound(Cardinality(Owing'), Cardinality(Past'))
      BY <3>1, <3>6
    <3> QED  BY <3>4 DEF Owed, Bound, XLedger!Dearest
  <2> QED  BY <2>4, <2>5
<1> QED  BY <1>1, <1>2

LEMMA SpendInit == XLedger!Init => Money /\ Owed
<1> SUFFICES ASSUME XLedger!Init PROVE Money /\ Owed
  OBVIOUS
<1>1. debited = 0 /\ streamed = 0 /\ credited = [x \in Transfers |-> 0]
  BY DEF XLedger!Init
<1>2. XLedger!TopUpRows = {}
  BY <1>1 DEF XLedger!TopUpRows
<1>3. Money
  BY <1>1, <1>2, FS_EmptySet DEF Money
<1>4. Owing = {} /\ Past = {}
  BY AgentsPay DEF XLedger!Init, Owing, Past, Owes, IsPast, XLedger!Idle, XLedger!None
<1>5. Worth = Seeded
  <2>1. Cardinality(XLedger!TopUpRows) = 0
    BY <1>2, FS_EmptySet
  <2> QED  BY <1>1, <1>3, <2>1, WorthIs, Prices
<1>6. Worth >= Bound(0, 0)
  BY <1>5, BoundFacts, Prices
<1>7. Cardinality(Owing) = 0 /\ Cardinality(Past) = 0
  BY <1>4, FS_EmptySet
<1> QED  BY <1>3, <1>6, <1>7 DEF Owed

LEMMA SpendStays ==
  ASSUME CallInv, Money, Owed, [XLedger!Next]_(XLedger!vars) PROVE Money' /\ Owed'
<1> USE DEF XLedger!ledger, XLedger!memory, XLedger!xside, XLedger!slack
<1>1. ASSUME NEW c \in XLedger!Payers, NEW t \in Tweets, XLedger!PostCall(c, t)
      PROVE  Money' /\ Owed'
  <2>1. UNCHANGED <<credited, debited, streamed>> /\ XLedger!Balance >= PostCost
    BY <1>1 DEF XLedger!PostCall, XLedger!Affordable
  <2>2. XLedger!Balance >= ReadCost
    BY <2>1, WorthIs, Prices
  <2> QED  BY <2>1, <2>2, MoneyStill, OwedEnters
<1>2. ASSUME NEW c \in XLedger!Payers, NEW mode \in {"mentions", "search"},
             XLedger!ReadCall(c, mode)
      PROVE  Money' /\ Owed'
  <2>1. UNCHANGED <<credited, debited, streamed>> /\ XLedger!Balance >= ReadCost
    BY <1>2 DEF XLedger!ReadCall, XLedger!Affordable
  <2> QED  BY <2>1, MoneyStill, OwedEnters
<1>3. ASSUME UNCHANGED <<credited, debited, streamed>>, Owing' = Owing, Past' = Past
      PROVE  Money' /\ Owed'
  BY <1>3, MoneyStill, WorthIs, OwedStill
<1>4. ASSUME NEW c \in XLedger!Payers, NEW new, Sets(c, new),
             UNCHANGED <<credited, debited, streamed>>,
             Owes(new) <=> Owes(call[c]), IsPast(new) <=> IsPast(call[c])
      PROVE  Money' /\ Owed'
  <2>1. Owing' = Owing /\ Past' = Past
    BY <1>4, OwingSets DEF Owing, Past
  <2> QED  BY <1>3, <1>4, <2>1
<1>5. ASSUME NEW c \in XLedger!Payers, NEW x \in Transfers, XLedger!TopUpCall(c, x)
      PROVE  Money' /\ Owed'
  <2>1. UNCHANGED <<credited, debited, streamed>>
    BY <1>5 DEF XLedger!TopUpCall
  <2>2. /\ call[c] = XLedger!Idle
        /\ Sets(c, [pc |-> "rpc", op |-> "topup", on |-> x])
    BY <1>5, TopUpCallIs
  <2>3. [pc |-> "rpc", op |-> "topup", on |-> x] \in ToppingUp
    BY DEF ToppingUp
  <2> QED  BY <1>4, <2>1, <2>2, <2>3, RecordKinds
<1>6. ASSUME NEW c \in XLedger!Payers, NEW new, Sets(c, new), Money', Worth' >= Worth - OwnCost,
             c \in Agents /\ ~IsPast(call[c]) /\ IsPast(new), Owes(new) <=> Owes(call[c])
      PROVE  Money' /\ Owed'
  <2>1. Owing' = Owing /\ Past' = Past \cup {c} /\ c \notin Past
    BY <1>6, OwingSets DEF Owing, Past
  <2> QED  BY <1>6, <2>1, OwedGoesPast
<1>7. ASSUME NEW c \in XLedger!Payers, XLedger!Authorised(c) PROVE Money' /\ Owed'
  <2> DEFINE new == [call[c] EXCEPT !.pc = XLedger!AfterToken(call[c].op)]
  <2>1. UNCHANGED <<credited, debited, streamed>>
    BY <1>7 DEF XLedger!Authorised
  <2>2. call[c].pc = "token" /\ Sets(c, new)
    BY <1>7, AuthorisedIs
  <2>3. CASE c \notin Agents
    <3>1. Owing' = Owing /\ Past' = Past
      BY <2>2, <2>3, OwingSets
    <3> QED  BY <1>3, <2>1, <3>1
  <2>4. CASE call[c] \in Posting
    <3>1. new.op = call[c].op /\ call[c].op = "post"
      BY <2>4 DEF Posting
    <3>2. (Owes(new) <=> Owes(call[c])) /\ (IsPast(new) <=> IsPast(call[c]))
      BY <3>1 DEF Owes, IsPast
    <3> QED  BY <1>4, <2>1, <2>2, <3>2
  <2>5. CASE call[c] \in Reading /\ c \in Agents
    <3>1. new.op = call[c].op /\ new \in Reading
      BY <2>5 DEF Reading, XLedger!AfterToken
    <3>2. Owes(new) /\ Owes(call[c]) /\ ~IsPast(call[c])
      BY <2>2, <2>5, <3>1, RecordKinds
    <3>3. CASE ~IsPast(new)
      BY <1>4, <2>1, <2>2, <3>2, <3>3
    <3>4. CASE IsPast(new)
      <4>1. Worth' >= Worth - OwnCost /\ Money'
        BY <2>1, MoneyStill, WorthIs, Prices
      <4> QED  BY <1>6, <2>2, <2>5, <3>2, <3>4, <4>1
    <3> QED  BY <3>3, <3>4
  <2>6. call[c].pc \notin {"read", "rpc", "idle"}
    BY <2>2
  <2> QED  BY <2>3, <2>4, <2>5, <2>6, CallKinds DEF Read, ToppingUp
<1>8. ASSUME NEW c \in XLedger!Payers, XLedger!UserAnswered(c) PROVE Money' /\ Owed'
  <2> DEFINE new == [call[c] EXCEPT !.pc = "me"]
  <2>1. UNCHANGED <<credited, debited, streamed>>
    BY <1>8 DEF XLedger!UserAnswered
  <2>2. call[c].pc = "user" /\ Sets(c, new) /\ call[c] \in Reading \cup Streaming
    BY <1>8, UserAnsweredIs
  <2>3. new.op = call[c].op /\ new.pc = "me"
    BY <2>2 DEF Reading, Streaming
  <2>4. (Owes(new) <=> Owes(call[c])) /\ (IsPast(new) <=> IsPast(call[c]))
    BY <2>2, <2>3 DEF Owes, IsPast
  <2> QED  BY <1>4, <2>1, <2>2, <2>4
<1>9. ASSUME NEW c \in XLedger!Payers, XLedger!UserKnown(c) PROVE Money' /\ Owed'
  <2>1. UNCHANGED credited /\ XLedger!Debit(c, OwnCost)
    BY <1>9 DEF XLedger!UserKnown
  <2>2. Money' /\ Worth' = IF c = Stream THEN Worth ELSE Worth - OwnCost
    BY <2>1, DebitIs, Prices
  <2>3. CASE c = Stream /\ Sets(c, [call[c] EXCEPT !.pc = "open"])
    <3>1. Owing' = Owing /\ Past' = Past
      BY <2>3, OwingSets, Prices
    <3> QED  BY <2>2, <2>3, <3>1, OwedStill, WorthIs
  <2>4. CASE /\ c \in Agents /\ c # Stream /\ call[c] \in Reading
             /\ Sets(c, [call[c] EXCEPT !.pc = "send"]) /\ call[c].pc = "me"
    <3>1. [call[c] EXCEPT !.pc = "send"] \in Reading /\ [call[c] EXCEPT !.pc = "send"].pc = "send"
      BY <2>4 DEF Reading
    <3>2. Worth' >= Worth - OwnCost
      BY <2>2, <2>4, WorthIs, Prices
    <3> QED  BY <1>6, <2>2, <2>4, <3>1, <3>2, RecordKinds
  <2> QED  BY <1>9, <2>3, <2>4, UserKnownIs
<1>10. ASSUME NEW c \in XLedger!Payers, XLedger!PostAnswered(c) PROVE Money' /\ Owed'
  <2>1. UNCHANGED <<credited, debited, streamed>>
    BY <1>10 DEF XLedger!PostAnswered
  <2>2. call[c] \in Posting /\ Sets(c, [call[c] EXCEPT !.pc = "posted"])
    BY <1>10, PostAnsweredIs
  <2>3. [call[c] EXCEPT !.pc = "posted"] \in Posting
    BY <2>2 DEF Posting
  <2> QED  BY <1>4, <2>1, <2>2, <2>3, RecordKinds
<1>11. ASSUME NEW c \in XLedger!Payers, NEW s \in SUBSET Tweets, XLedger!ReadAnswered(c, s)
       PROVE  Money' /\ Owed'
  <2>1. UNCHANGED <<credited, debited, streamed>>
    BY <1>11 DEF XLedger!ReadAnswered
  <2>2. call[c] \in Reading /\ call[c].pc = "send" /\ Sets(c, [call[c] EXCEPT !.pc = "read", !.on = s])
    BY <1>11, ReadAnsweredIs
  <2>3. [call[c] EXCEPT !.pc = "read", !.on = s] \in Read
    BY <2>2 DEF Reading, Read
  <2> QED  BY <1>4, <2>1, <2>2, <2>3, RecordKinds
<1>12. ASSUME NEW c \in XLedger!Payers, XLedger!Quit(c), Money', Worth' >= Worth
       PROVE  Money' /\ Owed'
  <2>1. Worth' >= Worth - 0 /\ 0 <= XLedger!Dearest /\ 0 + OwnCost <= XLedger!Dearest
    BY <1>12, WorthIs, WorthIsPrime, DearestIs, Prices
  <2> QED  BY <1>12, <2>1, QuitIs, OwedLeaves
<1>13. ASSUME NEW c \in XLedger!Payers, XLedger!Refused(c) \/ XLedger!AnswerLost(c)
       PROVE  Money' /\ Owed'
  <2>1. UNCHANGED <<credited, debited, streamed>> /\ XLedger!Quit(c)
    BY <1>13 DEF XLedger!Refused, XLedger!AnswerLost
  <2> QED  BY <1>12, <2>1, MoneyStill, WorthIs
<1>14. ASSUME NEW c \in XLedger!Payers, XLedger!Credit(c) PROVE Money' /\ Owed'
  <2>1. call[c] \in ToppingUp
    BY <1>14, CallKinds DEF XLedger!Credit, Posting, Reading, Read, Streaming
  <2>2. PICK y \in Transfers : call[c].on = y
    BY <2>1 DEF ToppingUp
  <2>3. credited' = [credited EXCEPT ![y] = @ + 1] /\ UNCHANGED <<debited, streamed>> /\ XLedger!Quit(c)
    BY <1>14, <2>2 DEF XLedger!Credit
  <2> QED  BY <1>12, <2>3, CreditIs
<1>15. ASSUME NEW c \in XLedger!Payers, XLedger!RecordPost(c) PROVE Money' /\ Owed'
  <2>1. /\ UNCHANGED credited /\ XLedger!Debit(c, PostCost) /\ XLedger!Quit(c)
        /\ call[c].pc = "posted"
    BY <1>15 DEF XLedger!RecordPost
  <2>2. c \in Agents /\ c # Stream /\ call[c] \in Posting
    BY <2>1, CallKinds DEF Reading, Read, ToppingUp, Streaming
  <2>3. Money' /\ Worth' = Worth - PostCost
    BY <2>1, <2>2, DebitIs, Prices
  <2>4. Worth' >= Worth - PostCost
    BY <2>3, WorthIs, Prices
  <2>5. Owes(call[c]) /\ ~IsPast(call[c])
    BY <2>2, RecordKinds
  <2>6. PostCost \in Nat /\ PostCost <= XLedger!Dearest
    BY DearestIs, Prices
  <2>7. Sets(c, XLedger!Idle)
    BY <2>1, QuitIs
  <2> QED  BY <2>2, <2>3, <2>4, <2>5, <2>6, <2>7, OwedLeaves
<1>16. ASSUME NEW c \in XLedger!Payers, XLedger!RecordRead(c) PROVE Money' /\ Owed'
  <2> DEFINE k == Cardinality(XLedger!Sightings(call[c].on))
  <2>1. /\ UNCHANGED credited /\ XLedger!Quit(c) /\ call[c].pc = "read"
        /\ \/ XLedger!Debit(c, ReadCost * k)
           \/ UNCHANGED <<debited, streamed>>
    BY <1>16, Counts DEF XLedger!RecordRead
  <2>2. c \in Agents /\ c # Stream /\ call[c] \in Read
    BY <2>1, CallKinds DEF Reading, Posting, ToppingUp, Streaming
  <2>3. k \in Nat /\ k <= Cardinality(Tweets)
    <3>1. XLedger!Sightings(call[c].on) \in SUBSET Tweets
      BY <2>2 DEF Read, XLedger!Sightings
    <3> QED  BY <3>1, AllFinite, FS_Subset, FS_CardinalityType
  <2> HIDE DEF k
  <2>4. ReadCost * k \in Nat /\ ReadCost * k + OwnCost <= XLedger!Dearest
    <3>1. ReadCost * k \in Nat /\ ReadCost * k <= ReadCost * Cardinality(Tweets)
      BY <2>3, Times, AllFinite, Prices
    <3>2. ReadCost * Cardinality(Tweets) \in Nat
      BY AllFinite, Prices
    <3> QED  BY <3>1, <3>2, DearestIs, Prices
  <2>5. Owes(call[c]) /\ IsPast(call[c])
    BY <2>2, RecordKinds
  <2>6. CASE UNCHANGED <<debited, streamed>>
    BY <1>12, <2>1, <2>6, MoneyStill, WorthIs
  <2>7. CASE XLedger!Debit(c, ReadCost * k)
    <3> DEFINE cost == ReadCost * k
    <3>1. Money' /\ Worth' = Worth - cost
      BY <2>1, <2>2, <2>4, <2>7, DebitIs
    <3>2. cost <= XLedger!Dearest /\ cost + OwnCost <= XLedger!Dearest /\ cost \in Nat
      BY <2>4, DearestIs, Prices
    <3> HIDE DEF cost
    <3>3. Worth' >= Worth - cost
      BY <3>1, <3>2, WorthIs
    <3>4. Sets(c, XLedger!Idle)
      BY <2>1, QuitIs
    <3> QED  BY <2>2, <2>5, <3>1, <3>2, <3>3, <3>4, OwedLeaves
  <2> QED  BY <2>1, <2>6, <2>7
<1>17. CASE XLedger!StreamUp \/ XLedger!StreamDown
  <2>1. UNCHANGED <<credited, debited, streamed>>
    BY <1>17 DEF XLedger!StreamUp, XLedger!StreamDown
  <2>2. PICK new : Sets(Stream, new)
    BY <1>17, StreamUpIs, QuitIs, AgentsPay DEF XLedger!StreamDown
  <2>3. Owing' = Owing /\ Past' = Past
    BY <2>2, OwingSets, AgentsPay, Prices
  <2> QED  BY <1>3, <2>1, <2>3
<1>18. ASSUME NEW t \in Tweets, XLedger!Deliver(t) \/ XLedger!SurfaceEvent(t)
       PROVE  Money' /\ Owed'
  <2>1. UNCHANGED <<credited, call>> /\ (XLedger!Debit(Stream, ReadCost) \/ UNCHANGED <<debited, streamed>>)
    BY <1>18 DEF XLedger!Deliver, XLedger!SurfaceEvent
  <2>2. Owing' = Owing /\ Past' = Past
    BY <2>1 DEF Owing, Past
  <2>3. Money' /\ Worth' = Worth
    BY <2>1, DebitIs, MoneyStill, Prices
  <2> QED  BY <2>2, <2>3, OwedStill, WorthIs
<1>19. CASE XLedger!Midnight \/ UNCHANGED XLedger!vars
  <2>1. UNCHANGED <<credited, debited, streamed, call>>
    BY <1>19 DEF XLedger!Midnight, XLedger!vars
  <2>2. Owing' = Owing /\ Past' = Past
    BY <2>1 DEF Owing, Past
  <2> QED  BY <1>3, <2>1, <2>2
<1>20. CASE XLedger!Crash
  <2>1. UNCHANGED <<credited, debited, streamed>>
    BY <1>20 DEF XLedger!Crash
  <2>2. Money' /\ Worth' = Worth
    BY <2>1, MoneyStill
  <2>3. Owing' = {} /\ Past' = {}
    BY <1>20, CrashIs, AgentsPay, RecordKinds DEF Owing, Past
  <2>4. Cardinality(Owing') = 0 /\ Cardinality(Past') = 0
    BY <2>3, FS_EmptySet
  <2>5. /\ Bound(0, 0) <= Bound(Cardinality(Owing), Cardinality(Past))
        /\ Bound(0, 0) \in Int /\ Bound(Cardinality(Owing), Cardinality(Past)) \in Int
    BY OwingFinite, BoundFacts
  <2>6. Worth' >= Bound(0, 0)
    <3>1. Worth >= Bound(Cardinality(Owing), Cardinality(Past))
      BY DEF Owed
    <3> QED  BY <2>2, <2>5, <3>1, WorthIs
  <2>7. Worth' >= Bound(Cardinality(Owing'), Cardinality(Past'))
    BY <2>4, <2>6
  <2> QED  BY <2>2, <2>7 DEF Owed, Bound, XLedger!Dearest
<1> QED
  BY <1>1, <1>2, <1>5, <1>7, <1>8, <1>9, <1>10, <1>11, <1>13, <1>14, <1>15, <1>16, <1>17,
     <1>18, <1>19, <1>20 DEF XLedger!Next, XLedger!Step

(* What the agents overspend is bounded by one call each, however posts,   *)
(* reads, lookups and top-ups interleave: the balance is looked at before  *)
(* a call only (x::post, x::read) and debited after it (Store::x_debit).   *)
THEOREM OverspendBoundedHolds == Spec => []OverspendBounded
<1>1. Money /\ Owed => OverspendBounded
  <2> SUFFICES ASSUME Money, Owed PROVE Worth >= ReadCost - Cardinality(Agents) * XLedger!Dearest
    BY Counts DEF OverspendBounded, XLedger!OverspendBounded, Worth
  <2>1. Worth >= Bound(Cardinality(Owing), Cardinality(Past))
    BY DEF Owed
  <2>2. /\ Bound(0, 0) <= Bound(Cardinality(Owing), Cardinality(Past))
        /\ Bound(0, 0) \in Int /\ Bound(Cardinality(Owing), Cardinality(Past)) \in Int
    BY OwingFinite, BoundFacts
  <2>3. Worth >= Bound(0, 0)
    BY <2>1, <2>2, WorthIs
  <2>4. Bound(0, 0) = ReadCost - Cardinality(Agents) * XLedger!Dearest
    BY DearestIs, AllFinite, Prices DEF Bound
  <2> QED  BY <2>3, <2>4
<1>2. XLedger!Spec => []CallInv
  BY CallInit, CallStays, PTL DEF XLedger!Spec
<1>3. XLedger!Spec => [](Money /\ Owed)
  <2>1. CallInv /\ (Money /\ Owed) /\ [XLedger!Next]_(XLedger!vars) => (Money /\ Owed)'
    BY SpendStays
  <2> QED  BY <1>2, <2>1, SpendInit, PTL DEF XLedger!Spec
<1> QED  BY <1>1, <1>3, Parts, PTL

-----------------------------------------------------------------------------
(* The ledger and the bill.  While no answer and no event is lost and none *)
(* crosses midnight, they differ by what is in the hands of the callers:   *)
(* what X has billed today and no table of ours has seen is in a pending   *)
(* read or on the open stream, every other post billed is in a pending     *)
(* answer, and of the account's own id d callers have debited what X       *)
(* billed b times.                                                         *)
SeenToday == {t \in Tweets : <<t, day>> \in seen}
Unseen    == (billedToday \cap Tweets) \ SeenToday
InPost    == {c \in XLedger!Payers : call[c].pc = "posted"}
InMe      == {c \in XLedger!Payers : call[c].pc = "me"}
InUser    == {c \in XLedger!Payers : call[c].pc \in {"user", "me"}}

Gap == debited + ReadCost * Cardinality(Unseen) + PostCost * Cardinality(InPost) - billed

Tally(d, b) ==
  /\ Gap = OwnCost * d - OwnCost * b
  /\ b <= d + Cardinality(InMe)
  /\ d + Cardinality(InUser) <= Cardinality(XLedger!Payers)
  /\ ~known => d = 0
  /\ d > 0 \/ InMe # {} \/ XLedger!ME \in billedToday => b > 0

Booked ==
  /\ SeenToday \subseteq billedToday /\ pushed \subseteq billedToday
  /\ \A c \in XLedger!Payers : call[c].pc = "read" => call[c].on \subseteq billedToday
  /\ \A t \in Unseen \ pushed :
       \E c \in XLedger!Payers : call[c].pc = "read" /\ t \in call[c].on

Even == Booked /\ \E d, b \in Nat : Tally(d, b)

Dates ==
  /\ day \in 0 .. Days /\ seen \subseteq Tweets \X (0 .. day) /\ billed \in Nat
  /\ billedToday \subseteq Tweets \cup {XLedger!ME} /\ exact \in BOOLEAN /\ known \in BOOLEAN
  /\ pushed \subseteq Tweets

LEMMA TallyFinite ==
  /\ IsFiniteSet(Unseen) /\ Cardinality(Unseen) \in Nat
  /\ IsFiniteSet(InPost) /\ Cardinality(InPost) \in Nat
  /\ IsFiniteSet(InMe) /\ Cardinality(InMe) \in Nat
  /\ IsFiniteSet(InUser) /\ Cardinality(InUser) \in Nat
  /\ Cardinality(InUser) <= Cardinality(XLedger!Payers)
  /\ InMe \subseteq InUser
<1>1. /\ Unseen \subseteq Tweets /\ InPost \subseteq XLedger!Payers
      /\ InMe \subseteq XLedger!Payers /\ InUser \subseteq XLedger!Payers
  BY DEF Unseen, InPost, InMe, InUser
<1>2. InMe \subseteq InUser
  BY DEF InMe, InUser
<1> QED  BY <1>1, <1>2, AllFinite, FS_Subset, FS_CardinalityType

LEMMA TallyFinitePrime ==
  /\ IsFiniteSet(Unseen') /\ Cardinality(Unseen') \in Nat
  /\ IsFiniteSet(InPost') /\ Cardinality(InPost') \in Nat
  /\ IsFiniteSet(InMe') /\ Cardinality(InMe') \in Nat
  /\ IsFiniteSet(InUser') /\ Cardinality(InUser') \in Nat
  /\ Cardinality(InUser') <= Cardinality(XLedger!Payers)
<1>1. /\ Unseen' \subseteq Tweets /\ InPost' \subseteq XLedger!Payers
      /\ InMe' \subseteq XLedger!Payers /\ InUser' \subseteq XLedger!Payers
  BY DEF Unseen, InPost, InMe, InUser, XLedger!Payers
<1> QED  BY <1>1, AllFinite, FS_Subset, FS_CardinalityType

LEMMA PlaceSets ==
  ASSUME NEW c \in XLedger!Payers, NEW new, Sets(c, new)
  PROVE  /\ InPost' = IF new.pc = "posted" THEN InPost \cup {c} ELSE InPost \ {c}
         /\ InMe' = IF new.pc = "me" THEN InMe \cup {c} ELSE InMe \ {c}
         /\ InUser' = IF new.pc \in {"user", "me"} THEN InUser \cup {c} ELSE InUser \ {c}
<1>1. \A e \in XLedger!Payers : e # c => call'[e] = call[e]
  BY DEF Sets
<1>2. call'[c] = new
  BY DEF Sets
<1> QED  BY <1>1, <1>2 DEF InPost, InMe, InUser, XLedger!Payers

(* A step of a caller that neither has an answer nor gets one.             *)
LEMMA PlainStep ==
  ASSUME CallInv, Money, Dates, Even, NEW c \in XLedger!Payers, NEW new, Sets(c, new),
         UNCHANGED <<day, debited, billed, known, seen, billedToday, pushed>>,
         call[c].pc \notin {"me", "posted", "read"}, new.pc \notin {"me", "posted", "read"},
         new.pc = "user" => call[c].pc = "user" \/ ~known
  PROVE  Even'
<1>1. PICK d \in Nat, b \in Nat : Tally(d, b)
  BY DEF Even
<1>2. SeenToday' = SeenToday /\ Unseen' = Unseen
  BY DEF SeenToday, Unseen
<1>3. InPost' = InPost /\ InMe' = InMe
  BY PlaceSets DEF InPost, InMe
<1>4. Gap' = Gap
  BY <1>2, <1>3 DEF Gap
<1>5. Booked'
  <2>1. \A e \in XLedger!Payers : call'[e].pc = "read" <=> call[e].pc = "read"
    BY DEF Sets
  <2>2. \A e \in XLedger!Payers : call[e].pc = "read" => call'[e] = call[e]
    BY DEF Sets
  <2> QED  BY <1>2, <2>1, <2>2 DEF Even, Booked, XLedger!Payers
<1>6. d + Cardinality(InUser') <= Cardinality(XLedger!Payers)
  <2>1. CASE known
    <3>1. InUser' \subseteq InUser
      BY <2>1, PlaceSets DEF InUser
    <3>2. Cardinality(InUser') <= Cardinality(InUser)
      BY <3>1, TallyFinite, FS_Subset
    <3> QED  BY <1>1, <3>2, TallyFinite, TallyFinitePrime, AllFinite DEF Tally
  <2>2. CASE ~known
    BY <1>1, <2>2, TallyFinitePrime, AllFinite DEF Tally
  <2> QED  BY <2>1, <2>2
<1>7. Tally(d, b)'
  BY <1>1, <1>3, <1>4, <1>6 DEF Tally, XLedger!Payers
<1> QED  BY <1>5, <1>7 DEF Even

LEMMA EvenInit == XLedger!Init => Dates /\ Even
<1> SUFFICES ASSUME XLedger!Init PROVE Dates /\ Even
  OBVIOUS
<1>1. /\ day = 0 /\ debited = 0 /\ seen = {} /\ known = FALSE /\ billed = 0 /\ billedToday = {}
      /\ pushed = {}
      /\ exact = TRUE /\ \A c \in XLedger!Payers : call[c].pc = "idle"
  BY DEF XLedger!Init, XLedger!Idle
<1>2. Unseen = {} /\ InPost = {} /\ InMe = {} /\ InUser = {} /\ SeenToday = {}
  BY <1>1 DEF Unseen, InPost, InMe, InUser, SeenToday
<1>3. Booked
  BY <1>1, <1>2 DEF Booked
<1>4. /\ Cardinality(Unseen) = 0 /\ Cardinality(InPost) = 0 /\ Cardinality(InMe) = 0
      /\ Cardinality(InUser) = 0
  BY <1>2, FS_EmptySet
<1>5. Gap = 0
  BY <1>1, <1>4, Prices DEF Gap
<1>6. Tally(0, 0)
  BY <1>1, <1>2, <1>4, <1>5, Prices, AllFinite DEF Tally
<1>7. Dates
  <2>1. day \in 0 .. Days /\ billed \in Nat
    BY <1>1, Prices
  <2>2. /\ seen \subseteq Tweets \X (0 .. day) /\ billedToday \subseteq Tweets \cup {XLedger!ME}
        /\ exact \in BOOLEAN /\ known \in BOOLEAN /\ pushed \subseteq Tweets
    BY <1>1
  <2> QED  BY <2>1, <2>2 DEF Dates
<1> QED  BY <1>3, <1>6, <1>7 DEF Even

LEMMA SightingsAre ==
  ASSUME NEW s \in SUBSET Tweets PROVE XLedger!Sightings(s) = s \ SeenToday
  BY DEF XLedger!Sightings, SeenToday

LEMMA MarkedAre ==
  ASSUME NEW s \in SUBSET Tweets, XLedger!MarkSeen(s), UNCHANGED day
  PROVE  SeenToday' = SeenToday \cup s
<1>1. \A t : <<t, day>> \in seen' <=> <<t, day>> \in seen \/ t \in s
  BY DEF XLedger!MarkSeen
<1> QED  BY <1>1 DEF SeenToday

LEMMA DatesStay == ASSUME CallInv, Money, Dates, [XLedger!Next]_(XLedger!vars) PROVE Dates'
<1> USE DEF XLedger!ledger, XLedger!memory, XLedger!xside, XLedger!slack
<1>1. ASSUME NEW c \in XLedger!Payers, XLedger!UserAnswered(c) PROVE Dates'
  <2>1. /\ UNCHANGED <<day, seen, exact, known, pushed>> /\ billedToday' = billedToday \cup {XLedger!ME}
        /\ billed' = billed + OwnCost * XLedger!Cardinality({XLedger!ME} \ billedToday)
    BY <1>1 DEF XLedger!UserAnswered, XLedger!Bill
  <2>2. billed' \in Nat
    <3>1. Cardinality({XLedger!ME} \ billedToday) \in Nat
      BY FS_Singleton, FS_Subset, FS_CardinalityType
    <3>2. OwnCost * Cardinality({XLedger!ME} \ billedToday) \in Nat
      BY <3>1, Prices
    <3> QED  BY <2>1, <3>2, Counts DEF Dates
  <2> QED  BY <2>1, <2>2 DEF Dates
<1>2. ASSUME NEW c \in XLedger!Payers, XLedger!UserKnown(c) PROVE Dates'
  <2>1. UNCHANGED <<day, seen, exact, billed, billedToday, pushed>> /\ known' = TRUE
    BY <1>2 DEF XLedger!UserKnown
  <2> QED  BY <2>1 DEF Dates
<1>3. ASSUME NEW c \in XLedger!Payers, XLedger!PostAnswered(c) PROVE Dates'
  <2>1. UNCHANGED <<day, seen, exact, known, billedToday, pushed>> /\ billed' = billed + PostCost
    BY <1>3 DEF XLedger!PostAnswered
  <2> QED  BY <2>1, Prices DEF Dates
<1>4. ASSUME NEW s \in SUBSET Tweets, XLedger!Bill(s, ReadCost)
      PROVE  billed' \in Nat /\ billedToday' \subseteq Tweets \cup {XLedger!ME}
  <2>1. /\ billedToday' = billedToday \cup s
        /\ billed' = billed + ReadCost * XLedger!Cardinality(s \ billedToday)
    BY <1>4 DEF XLedger!Bill
  <2>2. Cardinality(s \ billedToday) \in Nat
    BY AllFinite, FS_Subset, FS_CardinalityType
  <2>3. ReadCost * Cardinality(s \ billedToday) \in Nat
    BY <2>2, Prices
  <2> QED  BY <2>1, <2>3, Counts DEF Dates
<1>5. ASSUME NEW s \in SUBSET Tweets, XLedger!MarkSeen(s), UNCHANGED day
      PROVE  seen' \subseteq Tweets \X (0 .. day')
  <2>1. day \in 0 .. day
    BY Prices DEF Dates
  <2> QED  BY <1>5, <2>1 DEF Dates, XLedger!MarkSeen
<1>6. ASSUME NEW c \in XLedger!Payers, NEW s \in SUBSET Tweets, XLedger!ReadAnswered(c, s)
      PROVE  Dates'
  <2>1. UNCHANGED <<day, seen, exact, known, pushed>> /\ XLedger!Bill(s, ReadCost)
    BY <1>6 DEF XLedger!ReadAnswered
  <2> QED  BY <1>4, <2>1 DEF Dates
<1>7. ASSUME NEW c \in XLedger!Payers, XLedger!RecordRead(c) PROVE Dates'
  <2>1. UNCHANGED <<day, exact, known, billed, billedToday, pushed>>
        /\ XLedger!MarkSeen(call[c].on)
    BY <1>7 DEF XLedger!RecordRead
  <2>2. call[c].on \in SUBSET Tweets
    <3>1. call[c] \in Read
      BY <1>7, CallKinds DEF XLedger!RecordRead, Reading, Posting, ToppingUp, Streaming
    <3> QED  BY <3>1 DEF Read
  <2> QED  BY <1>5, <2>1, <2>2 DEF Dates
<1>8. ASSUME NEW t \in Tweets, XLedger!Deliver(t) \/ XLedger!SurfaceEvent(t) PROVE Dates'
  <2>1. CASE XLedger!Deliver(t)
    <3>1. UNCHANGED <<day, seen, exact, known>> /\ XLedger!Bill({t}, ReadCost)
          /\ pushed' = pushed \cup {t}
      BY <2>1 DEF XLedger!Deliver
    <3> QED  BY <1>4, <3>1 DEF Dates
  <2>2. CASE XLedger!SurfaceEvent(t)
    <3>1. UNCHANGED <<day, exact, known, billed, billedToday>> /\ XLedger!MarkSeen({t})
          /\ pushed' = pushed \ {t}
      BY <2>2 DEF XLedger!SurfaceEvent
    <3> QED  BY <1>5, <3>1 DEF Dates
  <2> QED  BY <1>8, <2>1, <2>2
<1>9. CASE XLedger!Midnight
  <2>1. /\ UNCHANGED <<seen, known, billed, pushed>> /\ billedToday' = {}
        /\ day < Days /\ day' = day + 1
    BY <1>9 DEF XLedger!Midnight
  <2>2. day' \in 0 .. Days /\ 0 .. day \subseteq 0 .. day'
    BY <2>1, Prices DEF Dates
  <2>3. exact' \in BOOLEAN
    BY <1>9 DEF XLedger!Midnight
  <2>4. seen' \subseteq Tweets \X (0 .. day')
    BY <2>1, <2>2 DEF Dates
  <2> QED  BY <2>1, <2>2, <2>3, <2>4 DEF Dates
<1>10. CASE /\ UNCHANGED <<day, seen, billed, billedToday, known>>
            /\ exact' \in {exact, FALSE} /\ pushed' \in {pushed, {}}
  BY <1>10 DEF Dates
<1>11. ASSUME NEW c \in XLedger!Payers,
              \/ \E t \in Tweets : XLedger!PostCall(c, t)
              \/ \E mode \in {"mentions", "search"} : XLedger!ReadCall(c, mode)
              \/ \E x \in Transfers : XLedger!TopUpCall(c, x)
              \/ XLedger!Authorised(c) \/ XLedger!RecordPost(c) \/ XLedger!Credit(c)
              \/ XLedger!Refused(c) \/ XLedger!AnswerLost(c)
       PROVE  Dates'
  BY <1>10, <1>11 DEF XLedger!PostCall, XLedger!ReadCall, XLedger!TopUpCall, XLedger!Authorised,
     XLedger!RecordPost, XLedger!Credit, XLedger!Refused, XLedger!AnswerLost
<1>12. CASE XLedger!StreamUp \/ XLedger!StreamDown \/ UNCHANGED XLedger!vars
  <2>1. exact' \in {exact, FALSE}
    BY <1>12 DEF XLedger!StreamUp, XLedger!StreamDown, XLedger!vars, Dates
  <2> QED  BY <1>10, <1>12, <2>1 DEF XLedger!StreamUp, XLedger!StreamDown, XLedger!vars
<1>13. CASE XLedger!Crash
  <2>1. /\ UNCHANGED <<day, billed, billedToday>> /\ exact' = FALSE /\ pushed' = {}
    BY <1>13 DEF XLedger!Crash
  <2>2. known' \in BOOLEAN
    BY <1>13 DEF XLedger!Crash, XLedger!HalfRecorded, Dates
  <2>3. seen' \subseteq Tweets \X (0 .. day')
    <3>1. ASSUME NEW c \in XLedger!Payers, XLedger!HalfRecorded(c)
          PROVE  seen' = seen \/ \E s \in SUBSET Tweets : XLedger!MarkSeen(s)
      <4>1. CASE call[c].pc = "read"
        <5>1. call[c] \in Read
          BY <4>1, CallKinds DEF Reading, Posting, ToppingUp, Streaming
        <5>2. call[c].on \in SUBSET Tweets
          BY <5>1 DEF Read
        <5> QED  BY <3>1, <4>1, <5>2 DEF XLedger!HalfRecorded
      <4> QED  BY <3>1, <4>1 DEF XLedger!HalfRecorded
    <3>2. seen' = seen \/ \E s \in SUBSET Tweets : XLedger!MarkSeen(s)
      <4>1. CASE \E c \in XLedger!Payers : XLedger!HalfRecorded(c)
        BY <3>1, <4>1
      <4>2. CASE \E t \in pushed : XLedger!MarkSeen({t})
        BY <4>2 DEF Dates
      <4> QED  BY <1>13, <4>1, <4>2 DEF XLedger!Crash
    <3> QED  BY <1>5, <2>1, <3>2 DEF Dates
  <2> QED  BY <2>1, <2>2, <2>3 DEF Dates
<1> QED
  BY <1>1, <1>2, <1>3, <1>6, <1>7, <1>8, <1>9, <1>11, <1>12, <1>13
     DEF XLedger!Next, XLedger!Step

(* The answer about the account's own id, and its debit.                   *)
LEMMA UserAnsweredEven ==
  ASSUME CallInv, Money, Dates, Even, NEW c \in XLedger!Payers, XLedger!UserAnswered(c)
  PROVE  Even'
<1> USE DEF XLedger!ledger, XLedger!memory, XLedger!xside, XLedger!slack
<1>1. PICK d \in Nat, b \in Nat : Tally(d, b)
  BY DEF Even
<1>2. /\ UNCHANGED <<day, seen, debited, known, pushed>>
      /\ billedToday' = billedToday \cup {XLedger!ME}
      /\ billed' = billed + OwnCost * Cardinality({XLedger!ME} \ billedToday)
  BY Counts DEF XLedger!UserAnswered, XLedger!Bill
<1>3. /\ call[c].pc = "user" /\ Sets(c, [call[c] EXCEPT !.pc = "me"])
      /\ [call[c] EXCEPT !.pc = "me"].pc = "me"
  BY UserAnsweredIs DEF Reading, Streaming
<1>4. InPost' = InPost /\ InMe' = InMe \cup {c} /\ c \notin InMe /\ InUser' = InUser
  BY <1>3, PlaceSets DEF InPost, InMe, InUser
<1>5. Cardinality(InMe') = Cardinality(InMe) + 1
  BY <1>4, TallyFinite, FS_AddElement
<1>6. SeenToday' = SeenToday /\ Unseen' = Unseen
  BY <1>2, Prices DEF SeenToday, Unseen
<1>7. Booked'
  <2>1. \A e \in XLedger!Payers : call'[e].pc = "read" <=> call[e].pc = "read"
    BY <1>3 DEF Sets
  <2>2. \A e \in XLedger!Payers : call[e].pc = "read" => call'[e] = call[e]
    BY <1>3 DEF Sets
  <2> QED  BY <1>2, <1>6, <2>1, <2>2 DEF Even, Booked, XLedger!Payers
<1>8. CASE XLedger!ME \in billedToday
  <2>1. Cardinality({XLedger!ME} \ billedToday) = 0
    BY <1>8, FS_EmptySet
  <2>2. billed' = billed
    BY <1>2, <2>1, Prices DEF Dates
  <2>3. Gap' = Gap
    BY <1>2, <1>4, <1>6, <2>2 DEF Gap
  <2>4. b <= d + Cardinality(InMe')
    BY <1>1, <1>5, TallyFinite DEF Tally
  <2>5. Tally(d, b)'
    BY <1>1, <1>2, <1>4, <1>8, <2>3, <2>4 DEF Tally, XLedger!Payers
  <2> QED  BY <1>7, <2>5 DEF Even
<1>9. CASE XLedger!ME \notin billedToday
  <2>1. Cardinality({XLedger!ME} \ billedToday) = 1
    <3>1. {XLedger!ME} \ billedToday = {XLedger!ME}
      BY <1>9
    <3> QED  BY <3>1, FS_Singleton
  <2>2. billed' = billed + OwnCost
    BY <1>2, <2>1, Prices
  <2>3. Gap' = Gap - OwnCost
    <3> DEFINE u == ReadCost * Cardinality(Unseen)
               v == PostCost * Cardinality(InPost)
    <3>1. u \in Nat /\ v \in Nat
      BY TallyFinite, Prices
    <3>2. Gap = debited + u + v - billed /\ Gap' = debited + u + v - billed'
      BY <1>2, <1>4, <1>6 DEF Gap
    <3> HIDE DEF u, v
    <3> QED  BY <2>2, <3>1, <3>2, Prices DEF Money, Dates
  <2>4. b + 1 <= d + Cardinality(InMe') /\ b + 1 \in Nat /\ b + 1 > 0
    BY <1>1, <1>5, TallyFinite DEF Tally
  <2>5. Gap' = OwnCost * d - OwnCost * (b + 1)
    BY <1>1, <2>3, Prices DEF Tally
  <2>6. Tally(d, b + 1)'
    BY <1>1, <1>2, <1>4, <2>4, <2>5 DEF Tally, XLedger!Payers
  <2> QED  BY <1>7, <2>4, <2>6 DEF Even
<1> QED  BY <1>8, <1>9

LEMMA UserKnownEven ==
  ASSUME CallInv, Money, Dates, Even, NEW c \in XLedger!Payers, XLedger!UserKnown(c)
  PROVE  Even'
<1> USE DEF XLedger!ledger, XLedger!memory, XLedger!xside, XLedger!slack
<1>1. PICK d \in Nat, b \in Nat : Tally(d, b)
  BY DEF Even
<1>2. /\ UNCHANGED <<day, seen, billed, billedToday, pushed>> /\ known' = TRUE
      /\ debited' = debited + OwnCost
  BY DEF XLedger!UserKnown, XLedger!Debit
<1>3. PICK new : /\ Sets(c, new) /\ new.pc \in {"open", "send"} /\ call[c].pc = "me"
  <2>1. call[c] \in Streaming => [call[c] EXCEPT !.pc = "open"].pc = "open"
    BY DEF Streaming
  <2>2. call[c] \in Reading => [call[c] EXCEPT !.pc = "send"].pc = "send"
    BY DEF Reading
  <2> QED  BY <2>1, <2>2, UserKnownIs
<1>4. /\ InPost' = InPost /\ InMe' = InMe \ {c} /\ InUser' = InUser \ {c}
      /\ c \in InMe /\ c \in InUser
  BY <1>3, PlaceSets DEF InPost, InMe, InUser
<1>5. /\ Cardinality(InMe') = Cardinality(InMe) - 1
      /\ Cardinality(InUser') = Cardinality(InUser) - 1
  BY <1>4, TallyFinite, FS_RemoveElement
<1>6. SeenToday' = SeenToday /\ Unseen' = Unseen
  BY <1>2 DEF SeenToday, Unseen
<1>7. Booked'
  <2>1. \A e \in XLedger!Payers : call'[e].pc = "read" <=> call[e].pc = "read"
    BY <1>3 DEF Sets
  <2>2. \A e \in XLedger!Payers : call[e].pc = "read" => call'[e] = call[e]
    BY <1>3 DEF Sets
  <2> QED  BY <1>2, <1>6, <2>1, <2>2 DEF Even, Booked, XLedger!Payers
<1>8. Gap' = Gap + OwnCost
  <2> DEFINE u == ReadCost * Cardinality(Unseen)
             v == PostCost * Cardinality(InPost)
  <2>1. u \in Nat /\ v \in Nat
    BY TallyFinite, Prices
  <2>2. Gap = debited + u + v - billed /\ Gap' = debited' + u + v - billed
    BY <1>2, <1>4, <1>6 DEF Gap
  <2> HIDE DEF u, v
  <2> QED  BY <1>2, <2>1, <2>2, Prices DEF Money, Dates
<1>9. Gap' = OwnCost * (d + 1) - OwnCost * b
  BY <1>1, <1>8, Prices DEF Tally
<1>10. b <= (d + 1) + Cardinality(InMe') /\ (d + 1) + Cardinality(InUser') <= Cardinality(XLedger!Payers)
  BY <1>1, <1>5, TallyFinite, AllFinite DEF Tally
<1>11. b > 0
  BY <1>1, <1>4 DEF Tally
<1>12. d + 1 \in Nat
  OBVIOUS
<1>13. Tally(d + 1, b)'
  BY <1>2, <1>9, <1>10, <1>11 DEF Tally, XLedger!Payers
<1> QED  BY <1>7, <1>12, <1>13 DEF Even

(* A post, billed and debited.                                             *)
LEMMA PostsEven ==
  ASSUME CallInv, Money, Dates, Even, NEW c \in XLedger!Payers,
         XLedger!PostAnswered(c) \/ XLedger!RecordPost(c)
  PROVE  Even'
<1> USE DEF XLedger!ledger, XLedger!memory, XLedger!xside, XLedger!slack
<1>1. PICK d \in Nat, b \in Nat : Tally(d, b)
  BY DEF Even
<1>2. UNCHANGED <<day, seen, billedToday, known, pushed>>
  BY DEF XLedger!PostAnswered, XLedger!RecordPost
<1>3. PICK new : /\ Sets(c, new) /\ call[c].pc \notin {"user", "me", "read"}
                 /\ new.pc \notin {"user", "me", "read"}
                 /\ \/ /\ XLedger!PostAnswered(c) /\ new.pc = "posted" /\ call[c].pc # "posted"
                    \/ XLedger!RecordPost(c) /\ new.pc # "posted" /\ call[c].pc = "posted"
  <2>1. CASE XLedger!PostAnswered(c)
    <3>1. /\ Sets(c, [call[c] EXCEPT !.pc = "posted"]) /\ call[c].pc = "send"
          /\ [call[c] EXCEPT !.pc = "posted"].pc = "posted"
      BY <2>1, PostAnsweredIs DEF Posting
    <3> QED  BY <2>1, <3>1
  <2>2. CASE XLedger!RecordPost(c)
    <3>1. Sets(c, XLedger!Idle) /\ call[c].pc = "posted" /\ XLedger!Idle.pc = "idle"
      BY <2>2, QuitIs DEF XLedger!RecordPost, XLedger!Idle
    <3> QED  BY <2>2, <3>1
  <2> QED  BY <2>1, <2>2
<1>4. InMe' = InMe /\ InUser' = InUser
  BY <1>3, PlaceSets DEF InMe, InUser
<1>5. SeenToday' = SeenToday /\ Unseen' = Unseen
  BY <1>2 DEF SeenToday, Unseen
<1>6. Booked'
  <2>1. \A e \in XLedger!Payers : call'[e].pc = "read" <=> call[e].pc = "read"
    BY <1>3 DEF Sets
  <2>2. \A e \in XLedger!Payers : call[e].pc = "read" => call'[e] = call[e]
    BY <1>3 DEF Sets
  <2> QED  BY <1>2, <1>5, <2>1, <2>2 DEF Even, Booked, XLedger!Payers
<1>7. Gap' = Gap
  <2> DEFINE u == ReadCost * Cardinality(Unseen)
  <2>1. u \in Nat
    BY TallyFinite, Prices
  <2>2. /\ Gap = debited + u + PostCost * Cardinality(InPost) - billed
        /\ Gap' = debited' + u + PostCost * Cardinality(InPost') - billed'
    BY <1>5 DEF Gap
  <2> HIDE DEF u
  <2>3. CASE XLedger!PostAnswered(c) /\ InPost' = InPost \cup {c} /\ c \notin InPost
    <3>1. Cardinality(InPost') = Cardinality(InPost) + 1
      BY <2>3, TallyFinite, FS_AddElement
    <3>2. PostCost * Cardinality(InPost') = PostCost * Cardinality(InPost) + PostCost
      BY <3>1, TallyFinite, Prices
    <3>3. debited' = debited /\ billed' = billed + PostCost
      BY <2>3 DEF XLedger!PostAnswered
    <3>4. PostCost * Cardinality(InPost) \in Nat
      BY TallyFinite, Prices
    <3> QED  BY <2>1, <2>2, <3>2, <3>3, <3>4, Prices DEF Money, Dates
  <2>4. CASE XLedger!RecordPost(c) /\ InPost' = InPost \ {c} /\ c \in InPost
    <3>1. Cardinality(InPost') = Cardinality(InPost) - 1
      BY <2>4, TallyFinite, FS_RemoveElement
    <3>2. PostCost * Cardinality(InPost') = PostCost * Cardinality(InPost) - PostCost
      BY <3>1, TallyFinite, Prices
    <3>3. debited' = debited + PostCost /\ billed' = billed
      BY <2>4 DEF XLedger!RecordPost, XLedger!Debit
    <3>4. PostCost * Cardinality(InPost) \in Nat
      BY TallyFinite, Prices
    <3> QED  BY <2>1, <2>2, <3>2, <3>3, <3>4, Prices DEF Money, Dates
  <2> QED  BY <1>3, <2>3, <2>4, PlaceSets DEF InPost
<1>8. Tally(d, b)'
  BY <1>1, <1>2, <1>4, <1>7 DEF Tally, XLedger!Payers
<1> QED  BY <1>6, <1>8 DEF Even

(* X bills what a read returns; the caller will see it.                    *)
LEMMA ReadAnsweredEven ==
  ASSUME CallInv, Money, Dates, Even, NEW c \in XLedger!Payers, NEW s \in SUBSET Tweets,
         XLedger!ReadAnswered(c, s)
  PROVE  Even'
<1> USE DEF XLedger!ledger, XLedger!memory, XLedger!xside, XLedger!slack
<1>1. PICK d \in Nat, b \in Nat : Tally(d, b)
  BY DEF Even
<1>2. /\ UNCHANGED <<day, seen, debited, known, pushed>> /\ billedToday' = billedToday \cup s
      /\ billed' = billed + ReadCost * Cardinality(s \ billedToday)
  BY Counts DEF XLedger!ReadAnswered, XLedger!Bill
<1>3. PICK new : Sets(c, new) /\ call[c].pc = "send" /\ new.pc = "read" /\ new.on = s
  <2>1. /\ call[c] \in Reading => [call[c] EXCEPT !.pc = "read", !.on = s].pc = "read"
        /\ call[c] \in Reading => [call[c] EXCEPT !.pc = "read", !.on = s].on = s
    BY DEF Reading
  <2> QED  BY <2>1, ReadAnsweredIs
<1>4. InPost' = InPost /\ InMe' = InMe /\ InUser' = InUser
  BY <1>3, PlaceSets DEF InPost, InMe, InUser
<1>5. SeenToday' = SeenToday
  BY <1>2 DEF SeenToday
<1>6. Unseen' = Unseen \cup (s \ billedToday) /\ Unseen \cap (s \ billedToday) = {}
  BY <1>2, <1>5 DEF Unseen, Even, Booked
<1>7. Booked'
  <2>1. SeenToday' \subseteq billedToday' /\ pushed' \subseteq billedToday'
    BY <1>2, <1>5 DEF Even, Booked
  <2>2. ASSUME NEW e \in XLedger!Payers, call'[e].pc = "read" PROVE call'[e].on \subseteq billedToday'
    BY <1>2, <1>3, <2>2 DEF Even, Booked, Sets
  <2>3. ASSUME NEW t \in Unseen' \ pushed'
        PROVE  \E e \in XLedger!Payers : call'[e].pc = "read" /\ t \in call'[e].on
    <3>1. CASE t \in s
      BY <1>3, <3>1 DEF Sets
    <3>2. CASE t \in Unseen
      <4>1. PICK e \in XLedger!Payers : call[e].pc = "read" /\ t \in call[e].on
        BY <1>2, <2>3, <3>2 DEF Even, Booked
      <4>2. call'[e] = call[e]
        BY <1>3, <4>1 DEF Sets
      <4> QED  BY <4>1, <4>2
    <3> QED  BY <1>6, <3>1, <3>2
  <2> QED  BY <2>1, <2>2, <2>3 DEF Booked, XLedger!Payers
<1>8. Gap' = Gap
  <2> DEFINE v == PostCost * Cardinality(InPost)
             k == Cardinality(s \ billedToday)
  <2>1. v \in Nat
    BY TallyFinite, Prices
  <2>2. IsFiniteSet(s \ billedToday) /\ k \in Nat
    BY AllFinite, FS_Subset, FS_CardinalityType
  <2>3. Cardinality(Unseen') = Cardinality(Unseen) + k
    <3>1. Cardinality(Unseen \cup (s \ billedToday)) = Cardinality(Unseen) + k - Cardinality({})
      BY <1>6, <2>2, TallyFinite, FS_Union
    <3> QED  BY <1>6, <2>2, <3>1, TallyFinite, FS_EmptySet
  <2>4. /\ Gap = debited + ReadCost * Cardinality(Unseen) + v - billed
        /\ Gap' = debited + ReadCost * Cardinality(Unseen') + v - billed'
    BY <1>2, <1>4 DEF Gap
  <2>5. billed' = billed + ReadCost * k
    BY <1>2
  <2> HIDE DEF v, k
  <2>6. /\ ReadCost * Cardinality(Unseen') = ReadCost * Cardinality(Unseen) + ReadCost * k
        /\ ReadCost * k \in Nat /\ ReadCost * Cardinality(Unseen) \in Nat
    BY <2>2, <2>3, TallyFinite, Prices
  <2> QED  BY <2>1, <2>4, <2>5, <2>6 DEF Money, Dates
<1>9. XLedger!ME \in billedToday' => XLedger!ME \in billedToday
  BY <1>2, Prices
<1>10. Tally(d, b)'
  BY <1>1, <1>2, <1>4, <1>8, <1>9 DEF Tally, XLedger!Payers
<1> QED  BY <1>7, <1>10 DEF Even

(* The caller records it: what is seen for the first time today is debited.*)
LEMMA RecordReadEven ==
  ASSUME CallInv, Money, Dates, Even, NEW c \in XLedger!Payers, XLedger!RecordRead(c)
  PROVE  Even'
<1> USE DEF XLedger!ledger, XLedger!memory, XLedger!xside, XLedger!slack
<1> DEFINE s == call[c].on
           new == XLedger!Sightings(s)
<1>1. PICK d \in Nat, b \in Nat : Tally(d, b)
  BY DEF Even
<1>2. /\ UNCHANGED <<day, billed, billedToday, known, pushed>>
      /\ XLedger!MarkSeen(s) /\ call[c].pc = "read"
      /\ Sets(c, XLedger!Idle) /\ XLedger!Idle.pc = "idle"
  BY QuitIs DEF XLedger!RecordRead, XLedger!Idle
<1>3. s \in SUBSET Tweets
  <2>1. call[c] \in Read
    BY <1>2, CallKinds DEF Reading, Posting, ToppingUp, Streaming
  <2> QED  BY <2>1 DEF Read
<1>4. new = s \ SeenToday /\ SeenToday' = SeenToday \cup s
  BY <1>2, <1>3, SightingsAre, MarkedAre
<1>5. s \subseteq billedToday
  BY <1>2 DEF Even, Booked
<1>6. Unseen' = Unseen \ new /\ new \subseteq Unseen /\ Unseen' \cap s = {}
  BY <1>2, <1>3, <1>4, <1>5 DEF Unseen
<1>7. Cardinality(Unseen') = Cardinality(Unseen) - Cardinality(new) /\ Cardinality(new) \in Nat
  <2>1. IsFiniteSet(new) /\ Cardinality(new) \in Nat
    BY <1>6, TallyFinite, FS_Subset, FS_CardinalityType
  <2>2. /\ Cardinality(Unseen \ new) = Cardinality(Unseen) - Cardinality(Unseen \cap new)
    BY TallyFinite, FS_Difference
  <2>3. Unseen \cap new = new
    BY <1>6
  <2> QED  BY <1>6, <2>1, <2>2, <2>3
<1>8. debited' = debited + ReadCost * Cardinality(new)
  <2>1. CASE new = {}
    <3>1. debited' = debited /\ Cardinality(new) = 0
      BY <2>1, FS_EmptySet DEF XLedger!RecordRead
    <3> QED  BY <3>1, Prices DEF Money
  <2>2. CASE new # {}
    BY <2>2, Counts DEF XLedger!RecordRead, XLedger!Debit
  <2> QED  BY <2>1, <2>2
<1> HIDE DEF new
<1>9. InPost' = InPost /\ InMe' = InMe /\ InUser' = InUser
  BY <1>2, PlaceSets DEF InPost, InMe, InUser
<1>10. Booked'
  <2>1. SeenToday' \subseteq billedToday' /\ pushed' \subseteq billedToday'
    BY <1>2, <1>4, <1>5 DEF Even, Booked
  <2>2. ASSUME NEW e \in XLedger!Payers, call'[e].pc = "read" PROVE call'[e].on \subseteq billedToday'
    BY <1>2, <2>2 DEF Even, Booked, Sets
  <2>3. ASSUME NEW t \in Unseen' \ pushed'
        PROVE  \E e \in XLedger!Payers : call'[e].pc = "read" /\ t \in call'[e].on
    <3>1. PICK e \in XLedger!Payers : call[e].pc = "read" /\ t \in call[e].on
      BY <1>2, <1>6, <2>3 DEF Even, Booked
    <3>2. e # c
      BY <1>6, <2>3, <3>1
    <3>3. call'[e] = call[e]
      BY <1>2, <3>2 DEF Sets
    <3> QED  BY <3>1, <3>3
  <2> QED  BY <2>1, <2>2, <2>3 DEF Booked, XLedger!Payers
<1>11. Gap' = Gap
  <2> DEFINE v == PostCost * Cardinality(InPost)
             k == Cardinality(new)
  <2>1. v \in Nat /\ k \in Nat
    BY <1>7, TallyFinite, Prices
  <2>2. /\ Gap = debited + ReadCost * Cardinality(Unseen) + v - billed
        /\ Gap' = debited' + ReadCost * Cardinality(Unseen') + v - billed
    BY <1>2, <1>9 DEF Gap
  <2>3. Cardinality(Unseen') = Cardinality(Unseen) - k /\ debited' = debited + ReadCost * k
    BY <1>7, <1>8
  <2> HIDE DEF v, k
  <2>4. /\ ReadCost * Cardinality(Unseen') = ReadCost * Cardinality(Unseen) - ReadCost * k
        /\ ReadCost * k \in Nat /\ ReadCost * Cardinality(Unseen) \in Nat
    BY <2>1, <2>3, TallyFinite, Prices
  <2> QED  BY <2>1, <2>2, <2>3, <2>4 DEF Money, Dates
<1>12. Tally(d, b)'
  BY <1>1, <1>2, <1>9, <1>11 DEF Tally, XLedger!Payers
<1> QED  BY <1>10, <1>12 DEF Even

(* A delivery adds to what is billed and unseen what it adds to the bill.  *)
LEMMA DeliverEven ==
  ASSUME CallInv, Money, Dates, Even, NEW t \in Tweets, XLedger!Deliver(t)
  PROVE  Even'
<1> USE DEF XLedger!ledger, XLedger!memory, XLedger!xside, XLedger!slack
<1>1. PICK d \in Nat, b \in Nat : Tally(d, b)
  BY DEF Even
<1>2. /\ UNCHANGED <<day, seen, debited, call, known>> /\ pushed' = pushed \cup {t}
      /\ billedToday' = billedToday \cup {t}
      /\ billed' = billed + ReadCost * Cardinality({t} \ billedToday)
  BY Counts DEF XLedger!Deliver, XLedger!Bill
<1>3. InPost' = InPost /\ InMe' = InMe /\ InUser' = InUser /\ SeenToday' = SeenToday
  BY <1>2 DEF InPost, InMe, InUser, SeenToday
<1>4. SeenToday \subseteq billedToday
  BY DEF Even, Booked
<1>5. Unseen' = Unseen \cup ({t} \ billedToday)
  BY <1>2, <1>3, <1>4 DEF Unseen
<1>6. Booked'
  BY <1>2, <1>3, <1>4, <1>5 DEF Even, Booked, XLedger!Payers
<1>7. Gap' = Gap
  <2> DEFINE v == PostCost * Cardinality(InPost)
  <2>1. v \in Nat /\ ReadCost * Cardinality(Unseen) \in Nat
    BY TallyFinite, Prices
  <2>2. /\ Gap = debited + ReadCost * Cardinality(Unseen) + v - billed
        /\ Gap' = debited + ReadCost * Cardinality(Unseen') + v - billed'
    BY <1>2, <1>3 DEF Gap
  <2> HIDE DEF v
  <2>3. CASE t \in billedToday
    <3>1. Cardinality({t} \ billedToday) = 0 /\ Unseen' = Unseen
      BY <1>5, <2>3, FS_EmptySet
    <3>2. billed' = billed
      BY <1>2, <3>1, Prices DEF Dates
    <3> QED  BY <2>2, <3>1, <3>2
  <2>4. CASE t \notin billedToday
    <3>1. {t} \ billedToday = {t} /\ t \notin Unseen
      BY <2>4 DEF Unseen
    <3>2. Cardinality({t} \ billedToday) = 1 /\ Cardinality(Unseen') = Cardinality(Unseen) + 1
      BY <1>5, <3>1, TallyFinite, FS_Singleton, FS_AddElement
    <3>3. billed' = billed + ReadCost
      BY <1>2, <3>2, Prices
    <3>4. ReadCost * Cardinality(Unseen') = ReadCost * Cardinality(Unseen) + ReadCost
      BY <3>2, TallyFinite, Prices
    <3> QED  BY <2>1, <2>2, <3>3, <3>4, Prices DEF Money, Dates
  <2> QED  BY <2>3, <2>4
<1>8. XLedger!ME \in billedToday' => XLedger!ME \in billedToday
  BY <1>2, Prices
<1>9. Tally(d, b)'
  BY <1>1, <1>2, <1>3, <1>7, <1>8 DEF Tally, XLedger!Payers
<1> QED  BY <1>6, <1>9 DEF Even

(* An event that the stream takes is debited once, whichever of them came  *)
(* first by a read.                                                        *)
LEMMA SurfaceEventEven ==
  ASSUME CallInv, Money, Dates, Even, NEW t \in Tweets, XLedger!SurfaceEvent(t)
  PROVE  Even'
<1> USE DEF XLedger!ledger, XLedger!memory, XLedger!xside, XLedger!slack
<1>1. PICK d \in Nat, b \in Nat : Tally(d, b)
  BY DEF Even
<1>2. /\ UNCHANGED <<day, call, known, billed, billedToday>> /\ XLedger!MarkSeen({t})
      /\ t \in pushed /\ pushed' = pushed \ {t}
  BY DEF XLedger!SurfaceEvent
<1>3. SeenToday' = SeenToday \cup {t} /\ XLedger!Sightings({t}) = {t} \ SeenToday
  BY <1>2, SightingsAre, MarkedAre
<1>4. debited' = IF t \in SeenToday THEN debited ELSE debited + ReadCost
  BY <1>3 DEF XLedger!SurfaceEvent, XLedger!Debit
<1>5. InPost' = InPost /\ InMe' = InMe /\ InUser' = InUser
  BY <1>2 DEF InPost, InMe, InUser
<1>6. SeenToday \subseteq billedToday /\ t \in billedToday
  BY <1>2 DEF Even, Booked
<1>7. Unseen' = Unseen \ {t}
  BY <1>2, <1>3 DEF Unseen
<1>8. Booked'
  <2>1. SeenToday' \subseteq billedToday' /\ pushed' \subseteq billedToday'
    BY <1>2, <1>3, <1>6 DEF Even, Booked
  <2>2. Unseen' \ pushed' = (Unseen \ pushed) \ {t}
    BY <1>2, <1>7
  <2> QED  BY <1>2, <2>1, <2>2 DEF Even, Booked, XLedger!Payers
<1>9. Gap' = Gap
  <2> DEFINE v == PostCost * Cardinality(InPost)
  <2>1. v \in Nat
    BY TallyFinite, Prices
  <2>2. /\ Gap = debited + ReadCost * Cardinality(Unseen) + v - billed
        /\ Gap' = debited' + ReadCost * Cardinality(Unseen') + v - billed
    BY <1>2, <1>5 DEF Gap
  <2> HIDE DEF v
  <2>3. CASE t \in SeenToday
    <3>1. Unseen' = Unseen /\ debited' = debited
      BY <1>4, <1>7, <2>3 DEF Unseen
    <3> QED  BY <2>2, <3>1
  <2>4. CASE t \notin SeenToday
    <3>1. t \in Unseen
      BY <1>6, <2>4 DEF Unseen
    <3>2. Cardinality(Unseen') = Cardinality(Unseen) - 1
      BY <1>7, <3>1, TallyFinite, FS_RemoveElement
    <3>3. /\ ReadCost * Cardinality(Unseen') = ReadCost * Cardinality(Unseen) - ReadCost
          /\ ReadCost * Cardinality(Unseen) \in Nat
      BY <3>2, TallyFinite, Prices
    <3>4. debited' = debited + ReadCost
      BY <1>4, <2>4
    <3> QED  BY <2>1, <2>2, <3>3, <3>4, Prices DEF Money, Dates
  <2> QED  BY <2>3, <2>4
<1>10. Tally(d, b)'
  BY <1>1, <1>2, <1>5, <1>9 DEF Tally, XLedger!Payers
<1> QED  BY <1>8, <1>10 DEF Even

(* A new day starts both tables afresh, and no read or event is pending.   *)
LEMMA MidnightEven ==
  ASSUME CallInv, Money, Dates, Even, XLedger!Midnight, exact' = TRUE
  PROVE  Even'
<1> USE DEF XLedger!ledger, XLedger!memory, XLedger!xside, XLedger!slack
<1>1. PICK d \in Nat, b \in Nat : Tally(d, b)
  BY DEF Even
<1>2. /\ UNCHANGED <<seen, debited, billed, known, call, pushed>>
      /\ billedToday' = {} /\ day' = day + 1
  BY DEF XLedger!Midnight
<1>3. pushed = {} /\ \A c \in XLedger!Payers : call[c].pc # "read"
  BY DEF XLedger!Midnight
<1>4. Unseen = {} /\ Unseen' = {}
  BY <1>2, <1>3 DEF Even, Booked, Unseen
<1>5. SeenToday' = {}
  <2>1. day + 1 \notin 0 .. day
    BY Prices DEF Dates
  <2>2. \A t : <<t, day + 1>> \notin seen
    BY <2>1 DEF Dates
  <2> QED  BY <1>2, <2>2 DEF SeenToday
<1>6. InPost' = InPost /\ InMe' = InMe /\ InUser' = InUser
  BY <1>2 DEF InPost, InMe, InUser
<1>7. Booked'
  BY <1>2, <1>3, <1>4, <1>5 DEF Booked, XLedger!Payers
<1>8. Gap' = Gap
  BY <1>2, <1>4, <1>6 DEF Gap
<1>9. Tally(d, b)'
  BY <1>1, <1>2, <1>6, <1>8 DEF Tally, XLedger!Payers
<1> QED  BY <1>7, <1>9 DEF Even

LEMMA EvenStays ==
  ASSUME CallInv, Money, Dates, exact => Even, [XLedger!Next]_(XLedger!vars)
  PROVE  exact' => Even'
<1> USE DEF XLedger!ledger, XLedger!memory, XLedger!xside, XLedger!slack
<1> SUFFICES ASSUME exact' PROVE Even'
  OBVIOUS
<1>1. CASE ~exact
  <2>1. ASSUME NEW c \in XLedger!Payers, XLedger!Step(c) PROVE exact' = exact \/ exact' = FALSE
    BY <2>1 DEF XLedger!Step, XLedger!PostCall, XLedger!ReadCall, XLedger!TopUpCall,
       XLedger!Authorised, XLedger!UserAnswered, XLedger!UserKnown, XLedger!PostAnswered,
       XLedger!RecordPost, XLedger!ReadAnswered, XLedger!RecordRead, XLedger!Credit,
       XLedger!Refused, XLedger!AnswerLost
  <2>2. CASE \/ XLedger!StreamUp \/ XLedger!StreamDown \/ XLedger!Crash \/ UNCHANGED XLedger!vars
             \/ \E t \in Tweets : XLedger!Deliver(t) \/ XLedger!SurfaceEvent(t)
    BY <1>1, <2>2 DEF XLedger!StreamUp, XLedger!StreamDown, XLedger!Crash, XLedger!Deliver,
       XLedger!SurfaceEvent, XLedger!vars
  <2>3. CASE XLedger!Midnight
    BY <1>1, <2>3 DEF XLedger!Midnight
  <2> QED  BY <1>1, <2>1, <2>2, <2>3 DEF XLedger!Next
<1>2. CASE exact
  <2> DEFINE Still == UNCHANGED <<day, debited, billed, known, seen, billedToday, pushed>>
  <2>1. ASSUME NEW c \in XLedger!Payers, NEW t \in Tweets, XLedger!PostCall(c, t) PROVE Even'
    <3>1. Still
      BY <2>1 DEF XLedger!PostCall
    <3>2. call[c].pc = "idle" /\ Sets(c, [pc |-> "token", op |-> "post", on |-> t])
      BY <2>1, EntersIs DEF XLedger!PostCall, XLedger!Busy
    <3> QED  BY <1>2, <3>1, <3>2, PlainStep
  <2>2. ASSUME NEW c \in XLedger!Payers, NEW mode \in {"mentions", "search"},
               XLedger!ReadCall(c, mode)
        PROVE  Even'
    <3>1. Still
      BY <2>2 DEF XLedger!ReadCall
    <3>2. call[c].pc = "idle" /\ Sets(c, [pc |-> "token", op |-> mode, on |-> XLedger!None])
      BY <2>2, EntersIs DEF XLedger!ReadCall, XLedger!Busy
    <3> QED  BY <1>2, <3>1, <3>2, PlainStep
  <2>3. ASSUME NEW c \in XLedger!Payers, NEW x \in Transfers, XLedger!TopUpCall(c, x) PROVE Even'
    <3>1. Still
      BY <2>3 DEF XLedger!TopUpCall
    <3>2. call[c].pc = "idle" /\ Sets(c, [pc |-> "rpc", op |-> "topup", on |-> x])
      BY <2>3, TopUpCallIs DEF XLedger!TopUpCall, XLedger!Busy
    <3> QED  BY <1>2, <3>1, <3>2, PlainStep
  <2>4. ASSUME NEW c \in XLedger!Payers, XLedger!Authorised(c) PROVE Even'
    <3> DEFINE to == XLedger!AfterToken(call[c].op)
    <3>1. Still
      BY <2>4 DEF XLedger!Authorised
    <3>2. call[c].pc = "token" /\ Sets(c, [call[c] EXCEPT !.pc = to])
      BY <2>4, AuthorisedIs
    <3>3. to \in {"user", "open", "send"} /\ (to = "user" => ~known)
      BY DEF XLedger!AfterToken
    <3>4. [call[c] EXCEPT !.pc = to].pc = to
      <4>1. call[c] \in Posting \cup Reading \cup Streaming
        BY <3>2, CallKinds DEF Read, ToppingUp
      <4> HIDE DEF to
      <4> QED  BY <4>1 DEF Posting, Reading, Streaming
    <3> HIDE DEF to
    <3> QED  BY <1>2, <3>1, <3>2, <3>3, <3>4, PlainStep
  <2>5. ASSUME NEW c \in XLedger!Payers, XLedger!Credit(c) \/ XLedger!Refused(c) PROVE Even'
    <3>1. Still
      BY <2>5 DEF XLedger!Credit, XLedger!Refused
    <3>2. call[c].pc \in {"token", "user", "send", "rpc"} /\ Sets(c, XLedger!Idle)
      BY <2>5, QuitIs DEF XLedger!Credit, XLedger!Refused
    <3>3. XLedger!Idle.pc = "idle"
      BY DEF XLedger!Idle
    <3> QED  BY <1>2, <3>1, <3>2, <3>3, PlainStep
  <2>6. CASE XLedger!StreamUp
    <3>1. Still
      BY <2>6 DEF XLedger!StreamUp
    <3>2. call[Stream].pc = "idle"
          /\ Sets(Stream, [pc |-> "token", op |-> "stream", on |-> XLedger!None])
      BY <2>6, StreamUpIs DEF XLedger!StreamUp, XLedger!Busy
    <3> QED  BY <1>2, <3>1, <3>2, AgentsPay, PlainStep
  <2>7. CASE XLedger!StreamDown
    <3>1. Still
      BY <2>7 DEF XLedger!StreamDown
    <3>2. call[Stream].pc = "open" /\ Sets(Stream, XLedger!Idle)
      BY <2>7, AgentsPay, QuitIs DEF XLedger!StreamDown
    <3>3. XLedger!Idle.pc = "idle"
      BY DEF XLedger!Idle
    <3> QED  BY <1>2, <3>1, <3>2, <3>3, AgentsPay, PlainStep
  <2>8. ~XLedger!Crash /\ \A c \in XLedger!Payers : ~XLedger!AnswerLost(c)
    BY DEF XLedger!Crash, XLedger!AnswerLost
  <2>9. CASE UNCHANGED XLedger!vars
    <3>1. PICK d \in Nat, b \in Nat : Tally(d, b)
      BY <1>2 DEF Even
    <3>2. SeenToday' = SeenToday /\ Unseen' = Unseen /\ InPost' = InPost /\ InMe' = InMe
          /\ InUser' = InUser
      BY <2>9 DEF XLedger!vars, SeenToday, Unseen, InPost, InMe, InUser
    <3>3. Gap' = Gap
      BY <2>9, <3>2 DEF XLedger!vars, Gap
    <3>4. Booked'
      BY <1>2, <2>9, <3>2 DEF XLedger!vars, Even, Booked, XLedger!Payers
    <3>5. Tally(d, b)'
      BY <2>9, <3>1, <3>2, <3>3 DEF XLedger!vars, Tally, XLedger!Payers
    <3> QED  BY <3>4, <3>5 DEF Even
  <2>10. ASSUME NEW c \in XLedger!Payers, XLedger!Step(c) PROVE Even'
    BY <1>2, <2>1, <2>2, <2>3, <2>4, <2>5, <2>8, <2>10, UserAnsweredEven, UserKnownEven,
       PostsEven, ReadAnsweredEven, RecordReadEven DEF XLedger!Step
  <2>11. CASE XLedger!Midnight
    <3>1. exact' = TRUE
      BY <2>11, DatesStay DEF Dates
    <3> QED  BY <1>2, <2>11, <3>1, MidnightEven
  <2> QED
    BY <1>2, <2>6, <2>7, <2>8, <2>9, <2>10, <2>11, DeliverEven, SurfaceEventEven
       DEF XLedger!Next
<1> QED  BY <1>1, <1>2

LEMMA Booking == XLedger!Spec => [](CallInv /\ Money /\ Dates /\ (exact => Even))
<1>1. XLedger!Spec => []CallInv
  BY CallInit, CallStays, PTL DEF XLedger!Spec
<1>2. XLedger!Spec => [](Money /\ Owed)
  <2>1. CallInv /\ (Money /\ Owed) /\ [XLedger!Next]_(XLedger!vars) => (Money /\ Owed)'
    BY SpendStays
  <2> QED  BY <1>1, <2>1, SpendInit, PTL DEF XLedger!Spec
<1>3. XLedger!Init => Dates /\ (exact => Even)
  BY EvenInit
<1>4. CallInv /\ (Money /\ Owed) /\ (Dates /\ (exact => Even)) /\ [XLedger!Next]_(XLedger!vars)
        => (Dates /\ (exact => Even))'
  BY DatesStay, EvenStays
<1> QED  BY <1>1, <1>2, <1>3, <1>4, PTL DEF XLedger!Spec

(* Once every call has recorded its answer and the stream every event it   *)
(* was sent, the ledger says what X billed, unless an answer or an event   *)
(* was lost or recorded on a later day, and but for first fetches of the   *)
(* account's own id that ran side by side (own_user_id debits each, X      *)
(* bills one a day).                                                       *)
THEOREM LedgerMirrorsBillHolds == Spec => []LedgerMirrorsBill
<1>1. CallInv /\ Money /\ Dates /\ (exact => Even) => LedgerMirrorsBill
  <2> SUFFICES ASSUME Dates, Money, Even, pushed = {},
                      \A c \in XLedger!Payers : call[c].pc \notin {"me", "posted", "read"}
               PROVE  debited - billed \in 0 .. OwnCost * (Cardinality(XLedger!Payers) - 1)
    BY Counts DEF LedgerMirrorsBill, XLedger!LedgerMirrorsBill
  <2>1. PICK d \in Nat, b \in Nat : Tally(d, b)
    BY DEF Even
  <2>2. Unseen = {} /\ InPost = {} /\ InMe = {}
    BY DEF Even, Booked, InPost, InMe
  <2>3. Cardinality(Unseen) = 0 /\ Cardinality(InPost) = 0 /\ Cardinality(InMe) = 0
    BY <2>2, FS_EmptySet
  <2>4. Gap = debited - billed
    BY <2>3, Prices DEF Gap, Money, Dates
  <2>5. b <= d /\ d <= Cardinality(XLedger!Payers) /\ (d > 0 => b > 0)
    BY <2>1, <2>3, TallyFinite, AllFinite DEF Tally
  <2>6. d - b \in Nat /\ d - b <= Cardinality(XLedger!Payers) - 1
        /\ Cardinality(XLedger!Payers) - 1 \in Nat
    BY <2>5, AllFinite
  <2>7. /\ OwnCost * (d - b) \in Nat
        /\ OwnCost * (d - b) <= OwnCost * (Cardinality(XLedger!Payers) - 1)
    BY <2>6, Times, Prices
  <2>8. OwnCost * (d - b) = OwnCost * d - OwnCost * b
    BY Prices
  <2>9. debited - billed = OwnCost * (d - b)
    BY <2>1, <2>4, <2>8 DEF Tally
  <2>10. OwnCost * (Cardinality(XLedger!Payers) - 1) \in Nat
    BY <2>6, Prices
  <2> QED  BY <2>7, <2>9, <2>10
<1> QED  BY <1>1, Booking, Parts, PTL

(* Every record of the ledger keeps its type.                              *)
Slack == /\ replied \subseteq Tweets /\ lowFlag \in BOOLEAN
         /\ streamed <= debited /\ lost <= MaxLost

LEMMA SlackStays ==
  ASSUME CallInv, Money, Slack, lost \in Nat, [XLedger!Next]_(XLedger!vars) PROVE Slack'
<1> USE DEF XLedger!ledger, XLedger!memory, XLedger!xside, XLedger!slack
<1>1. ASSUME NEW c, NEW cost \in Nat, XLedger!Debit(c, cost)
      PROVE  lowFlag' \in BOOLEAN /\ streamed' <= debited'
  <2>1. lowFlag' \in BOOLEAN
    BY <1>1 DEF XLedger!Debit
  <2>2. streamed' <= debited'
    BY <1>1 DEF XLedger!Debit, Money, Slack
  <2> QED  BY <2>1, <2>2
<1>2. ASSUME NEW c \in XLedger!Payers, XLedger!UserKnown(c) PROVE Slack'
  <2>1. XLedger!Debit(c, OwnCost) /\ UNCHANGED <<replied, lost>>
    BY <1>2 DEF XLedger!UserKnown
  <2> QED  BY <1>1, <2>1, Prices DEF Slack
<1>3. ASSUME NEW c \in XLedger!Payers, XLedger!RecordPost(c) PROVE Slack'
  <2>1. XLedger!Debit(c, PostCost) /\ UNCHANGED lost /\ replied' = replied \cup {call[c].on}
    BY <1>3 DEF XLedger!RecordPost
  <2>2. call[c] \in Posting
    BY <1>3, CallKinds DEF XLedger!RecordPost, Reading, Read, ToppingUp, Streaming
  <2>3. call[c].on \in Tweets
    BY <2>2 DEF Posting
  <2> QED  BY <1>1, <2>1, <2>3, Prices DEF Slack
<1>4. ASSUME NEW c \in XLedger!Payers, XLedger!RecordRead(c) PROVE Slack'
  <2> DEFINE k == Cardinality(XLedger!Sightings(call[c].on))
  <2>1. /\ UNCHANGED <<replied, lost>>
        /\ XLedger!Debit(c, ReadCost * k) \/ UNCHANGED <<debited, streamed, lowFlag>>
    BY <1>4, Counts DEF XLedger!RecordRead
  <2>2. k \in Nat
    <3>1. call[c] \in Read
      BY <1>4, CallKinds DEF XLedger!RecordRead, Reading, Posting, ToppingUp, Streaming
    <3>2. XLedger!Sightings(call[c].on) \in SUBSET Tweets
      BY <3>1 DEF Read, XLedger!Sightings
    <3> QED  BY <3>2, AllFinite, FS_Subset, FS_CardinalityType
  <2>3. ReadCost * k \in Nat
    BY <2>2, Prices
  <2> HIDE DEF k
  <2> QED  BY <1>1, <2>1, <2>3 DEF Slack
<1>5. ASSUME NEW t \in Tweets, XLedger!SurfaceEvent(t) PROVE Slack'
  <2>1. /\ UNCHANGED <<replied, lost>>
        /\ XLedger!Debit(Stream, ReadCost) \/ UNCHANGED <<debited, streamed, lowFlag>>
    BY <1>5 DEF XLedger!SurfaceEvent
  <2> QED  BY <1>1, <2>1, Prices DEF Slack
<1>6. ASSUME NEW c \in XLedger!Payers, XLedger!AnswerLost(c) PROVE Slack'
  <2>1. UNCHANGED <<replied, lowFlag, streamed, debited>> /\ lost < MaxLost /\ lost' = lost + 1
    BY <1>6 DEF XLedger!AnswerLost
  <2>2. lost' <= MaxLost
    BY <2>1, Prices
  <2> QED  BY <2>1, <2>2 DEF Slack
<1>7. CASE XLedger!Crash
  <2>1. UNCHANGED <<lowFlag, streamed, debited>> /\ lost' <= MaxLost
    BY <1>7 DEF XLedger!Crash
  <2>2. ASSUME NEW c \in XLedger!Payers, XLedger!HalfRecorded(c) PROVE replied' \subseteq Tweets
    <3>1. CASE call[c].pc = "posted"
      <4>1. call[c] \in Posting
        BY <3>1, CallKinds DEF Reading, Read, ToppingUp, Streaming
      <4>2. call[c].on \in Tweets
        BY <4>1 DEF Posting
      <4> QED  BY <2>2, <4>2 DEF XLedger!HalfRecorded, Slack
    <3> QED  BY <2>2, <3>1 DEF XLedger!HalfRecorded, Slack
  <2>3. replied' \subseteq Tweets
    BY <1>7, <2>2 DEF XLedger!Crash, Slack
  <2> QED  BY <2>1, <2>3 DEF Slack
<1>8. ASSUME NEW c \in XLedger!Payers, XLedger!Credit(c) PROVE Slack'
  BY <1>8 DEF XLedger!Credit, Slack
<1>9. CASE UNCHANGED <<replied, lowFlag, streamed, debited, lost>>
  BY <1>9 DEF Slack
<1>10. ASSUME NEW c \in XLedger!Payers,
              \/ \E t \in Tweets : XLedger!PostCall(c, t)
              \/ \E mode \in {"mentions", "search"} : XLedger!ReadCall(c, mode)
              \/ \E x \in Transfers : XLedger!TopUpCall(c, x)
              \/ \E s \in SUBSET Tweets : XLedger!ReadAnswered(c, s)
              \/ XLedger!Authorised(c) \/ XLedger!UserAnswered(c) \/ XLedger!PostAnswered(c)
              \/ XLedger!Refused(c)
       PROVE  Slack'
  BY <1>9, <1>10 DEF XLedger!PostCall, XLedger!ReadCall, XLedger!TopUpCall, XLedger!ReadAnswered,
     XLedger!Authorised, XLedger!UserAnswered, XLedger!PostAnswered, XLedger!Refused
<1>11. CASE \/ XLedger!StreamUp \/ XLedger!StreamDown \/ XLedger!Midnight \/ UNCHANGED XLedger!vars
            \/ \E t \in Tweets : XLedger!Deliver(t)
  BY <1>9, <1>11 DEF XLedger!StreamUp, XLedger!StreamDown, XLedger!Midnight, XLedger!Deliver,
     XLedger!vars
<1> QED
  BY <1>2, <1>3, <1>4, <1>5, <1>6, <1>7, <1>8, <1>10, <1>11 DEF XLedger!Next, XLedger!Step

LEMMA LedgerTypes == Spec => []XLedger!TypeOK
<1>1. XLedger!Init => Slack
  <2> SUFFICES ASSUME XLedger!Init PROVE Slack
    OBVIOUS
  <2>1. replied = {} /\ lowFlag = FALSE /\ streamed = 0 /\ debited = 0 /\ lost = 0
    BY DEF XLedger!Init
  <2>2. streamed <= debited /\ lost <= MaxLost
    BY <2>1, Prices
  <2> QED  BY <2>1, <2>2 DEF Slack
<1>2. XLedger!Spec => []CallInv
  BY CallInit, CallStays, PTL DEF XLedger!Spec
<1>3. XLedger!Spec => []ReplyInv
  BY <1>2, ReplyInit, ReplyStays, PTL DEF XLedger!Spec
<1>4. CallInv /\ Money /\ ReplyInv /\ Slack /\ [XLedger!Next]_(XLedger!vars) => Slack'
  BY SlackStays DEF ReplyInv
<1>5. XLedger!Spec => []Slack
  BY <1>1, <1>3, <1>4, Booking, PTL DEF XLedger!Spec
<1>6. CallInv /\ Money /\ Dates /\ ReplyInv /\ Slack => XLedger!TypeOK
  <2> SUFFICES ASSUME CallInv, Money, Dates, ReplyInv, Slack PROVE XLedger!TypeOK
    OBVIOUS
  <2>1. \A c \in XLedger!Payers : call[c].pc \in XLedger!Pcs
    BY CallKinds DEF XLedger!Pcs, Posting, Reading, Read, ToppingUp, Streaming
  <2>2. seen \subseteq Tweets \X (0 .. Days)
    <3>1. 0 .. day \subseteq 0 .. Days
      BY Prices DEF Dates
    <3> QED  BY <3>1 DEF Dates
  <2>3. streamed \in 0 .. debited /\ lost \in 0 .. MaxLost
    BY Prices DEF Money, Slack, ReplyInv
  <2> QED  BY <2>1, <2>2, <2>3 DEF XLedger!TypeOK, Money, Dates, ReplyInv, Slack
<1> QED  BY <1>3, <1>5, <1>6, Booking, Parts, PTL
=============================================================================
