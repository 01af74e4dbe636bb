-------------------------------- MODULE XToken --------------------------------
(***************************************************************************)
(* The refresh token of the X account (access_token in tools/x.rs).  X     *)
(* kills a refresh token as it accepts it and answers with the next one,   *)
(* which is written to kv after two awaits; several callers do this at the *)
(* same time, with what they read before the first await.  X is external.  *)
(***************************************************************************)
EXTENDS Naturals, FiniteSets

CONSTANTS
  Users,      \* tasks that may call access_token: x_post, x_read, the stream
  Tokens,     \* a pool of refresh tokens, reused once nobody holds them
  MaxTokenLost  \* bound: answers of X that never reach their caller

NoToken == "none"
TokenAssumption ==
  IsFiniteSet(Users) /\ NoToken \notin Tokens /\ MaxTokenLost \in Nat

VARIABLES
  stored, seed,  \* kv x_refresh_token and X_REFRESH_TOKEN of the environment
  asks,          \* what each caller is in the middle of
  live, cut      \* (X) the tokens it accepts; answers lost so far

vars == <<stored, seed, asks, live, cut>>

Resting == [pc |-> "rest", cand |-> {}, held |-> NoToken]

\* The stored token first, then the seed when it differs.
Candidates == {stored, seed} \ {NoToken}

Ask(u) ==
  /\ asks[u].pc = "rest"
  /\ Candidates # {}
  /\ asks' = [asks EXCEPT ![u] = [Resting EXCEPT !.pc = "asking", !.cand = Candidates]]
  /\ UNCHANGED <<stored, seed, live, cut>>

InUse == {stored, seed} \cup live
           \cup UNION {asks[u].cand \cup {asks[u].held} : u \in Users}

\* X accepts one of them: the stored token if it is good, the seed if the
\* stored one is dead or met with an error of the server.
Exchange(u) ==
  /\ asks[u].pc = "asking"
  /\ Tokens \ InUse # {}
  /\ LET next == CHOOSE t \in Tokens : t \notin InUse   \* any fresh one
     IN  \E spent \in asks[u].cand \cap live :
           /\ live' = (live \ {spent}) \cup {next}
           /\ asks' = [asks EXCEPT ![u] = [Resting EXCEPT !.pc = "holding", !.held = next]]
  /\ UNCHANGED <<stored, seed, cut>>

\* Every candidate refused, or the request never got out.
Fail(u) ==
  /\ asks[u].pc = "asking"
  /\ asks' = [asks EXCEPT ![u] = Resting]
  /\ UNCHANGED <<stored, seed, live, cut>>

\* Fault: the rotated token is stored on first use only.
StoreOnce(u) ==
  /\ asks[u].pc = "holding"
  /\ stored' = IF stored = NoToken THEN asks[u].held ELSE stored
  /\ asks' = [asks EXCEPT ![u] = Resting]
  /\ UNCHANGED <<seed, live, cut>>

\* The new token is written before the access token is used for anything.
Store(u) ==
  /\ asks[u].pc = "holding"
  /\ stored' = asks[u].held
  /\ asks' = [asks EXCEPT ![u] = Resting]
  /\ UNCHANGED <<seed, live, cut>>

\* The answer is lost, or the process dies before the write: the old token is
\* spent and the new one gone.
Lose(u) ==
  /\ asks[u].pc = "holding" /\ cut < MaxTokenLost
  /\ cut' = cut + 1
  /\ asks' = [asks EXCEPT ![u] = Resting]
  /\ UNCHANGED <<stored, seed, live>>

Die ==
  /\ \E u \in Users : asks[u].pc = "holding"
  /\ cut + Cardinality({u \in Users : asks[u].pc = "holding"}) <= MaxTokenLost
  /\ cut' = cut + Cardinality({u \in Users : asks[u].pc = "holding"})
  /\ asks' = [u \in Users |-> Resting]
  /\ UNCHANGED <<stored, seed, live>>

\* The founder authorises the app anew: a new seed in the environment, seen by
\* the next process.
Reseed ==
  /\ cut > 0 /\ {stored, seed} \cap live = {}
  /\ \A u \in Users : asks[u].pc = "rest"
  /\ \E t \in Tokens \ InUse : seed' = t /\ live' = live \cup {t}
  /\ UNCHANGED <<stored, asks, cut>>

Init ==
  /\ \E a, b \in Tokens :
       /\ a # b /\ seed = b
       /\ \/ stored = NoToken /\ live = {b}      \* first boot: the seed alone
          \/ stored = a /\ live = {a}            \* a rotated token; the seed is spent
          \/ stored = a /\ live = {b}            \* a database thrown away, a new seed
          \/ stored = a /\ live = {a, b}         \* a new seed beside a token still good
  /\ asks = [u \in Users |-> Resting]
  /\ cut = 0

Next ==
  \/ \E u \in Users : Ask(u) \/ Exchange(u) \/ Fail(u) \/ Store(u) \/ Lose(u)
  \/ Die \/ Reseed

Spec == Init /\ [][Next]_vars

-----------------------------------------------------------------------------
TypeOK ==
  /\ stored \in Tokens \cup {NoToken} /\ seed \in Tokens /\ live \subseteq Tokens
  /\ \A u \in Users : /\ asks[u].pc \in {"rest", "asking", "holding"}
                      /\ asks[u].cand \subseteq Tokens
                      /\ asks[u].held \in Tokens \cup {NoToken}
  /\ cut \in 0..MaxTokenLost

\* However many callers rotate the token at once, a refresh token X still
\* accepts is in kv, in the environment, or in the hands of a caller about to
\* store it - unless one went down with an answer or with the process.
ChainAlive ==
  \/ {stored, seed} \cap live # {}
  \/ \E u \in Users : asks[u].held \in live
  \/ cut > 0
=============================================================================
