------------------------------ MODULE ApiTokens ------------------------------
(******************************************************************************)
(* The tokens of API clients: a refresh token and an access token issued      *)
(* together, a refresh that uses the one up and issues two more, and an       *)
(* admin's revocation of a single row.  A refresh is four statements, not one *)
(* transaction; two of them, a replay and a revocation may overlap.           *)
(******************************************************************************)
EXTENDS Integers, Sequences

CONSTANTS
  Exchanges,      \* requests that may be under way at once
  AccessTtl,      \* API_TOKEN_ACCESS_LIFETIME_MS, in ticks of the clock
  RefreshTtl,     \* API_TOKEN_REFRESH_LIFETIME_MS, in ticks
  MaxTokenTime,   \* bound: the clock stops here
  MaxTokens,      \* bound: rows in all
  MaxExchanges    \* bound: requests in all

ASSUME TokenAssumption == AccessTtl \in Nat /\ RefreshTtl \in Nat

VARIABLES
  tokenClock,
  token,        \* rows of api_tokens, by number
  exchange,     \* [Exchanges -> the request's progress]
  exchanged,
  admitted      \* history: what the request admitted in the last step presented, and when

tokenVars == <<tokenClock, token, exchange, exchanged, admitted>>

None == 0
NoAdmission == [token |-> None, at |-> 1]
AtRest == [step |-> "idle", now |-> 1, old |-> None, new |-> None]

TokenInit ==
  /\ tokenClock = 1 /\ token = <<>>
  /\ exchange = [c \in Exchanges |-> AtRest]
  /\ exchanged = 0
  /\ admitted = NoAdmission

Concludes(c) == exchange' = [exchange EXCEPT ![c] = AtRest]
Arrives(c, step, old) ==
  /\ exchange[c].step = "idle" /\ exchanged < MaxExchanges
  /\ exchanged' = exchanged + 1
  /\ exchange' = [exchange EXCEPT ![c] = [step |-> step, now |-> tokenClock, old |-> old, new |-> None]]

\* "client" is the issue a token goes back to, through its parents.
Row(kind, parent, client, expires) ==
  [kind |-> kind, parent |-> parent, client |-> client, expires |-> expires, revoked |-> None]

\* findActiveByTokenHash with the kind the route is for.
LiveToken(t, kind, now) ==
  token[t].kind = kind /\ token[t].revoked = None /\ token[t].expires > now

(***************************************************************************)
(* Issue and refresh                                                       *)
(***************************************************************************)
Issue(c) ==
  /\ Arrives(c, "refresh", None)
  /\ UNCHANGED <<tokenClock, token>>

FindRefresh(c, t) ==
  /\ LiveToken(t, "refresh", tokenClock)
  /\ Arrives(c, "consume", t)
  /\ UNCHANGED <<tokenClock, token>>

\* As it would be with the row's id alone in the WHERE clause.
WinsAnyway(t) == TRUE

Wins(t) == token[t].revoked = None

\* consumeRefreshToken: the one whose UPDATE finds the row unrevoked goes on.
ConsumeRefresh(c) ==
  LET t == exchange[c].old IN
  /\ exchange[c].step = "consume"
  /\ IF Wins(t)
     THEN /\ token' = [token EXCEPT ![t].revoked = exchange[c].now]
          /\ exchange' = [exchange EXCEPT ![c].step = "refresh"]
     ELSE Concludes(c) /\ UNCHANGED token
  /\ UNCHANGED <<tokenClock, exchanged>>

CreateRefresh(c) ==
  LET client == IF exchange[c].old = None THEN Len(token) + 1 ELSE token[exchange[c].old].client IN
  /\ exchange[c].step = "refresh" /\ Len(token) < MaxTokens
  /\ token' = Append(token, Row("refresh", exchange[c].old, client, exchange[c].now + RefreshTtl))
  /\ exchange' = [exchange EXCEPT ![c].step = "access", ![c].new = Len(token) + 1]
  /\ UNCHANGED <<tokenClock, exchanged>>

CreateAccess(c) ==
  LET parent == exchange[c].new IN
  /\ exchange[c].step = "access" /\ Len(token) < MaxTokens
  /\ token' = Append(token, Row("access", parent, token[parent].client, exchange[c].now + AccessTtl))
  /\ Concludes(c)
  /\ UNCHANGED <<tokenClock, exchanged>>

\* A statement fails or the process dies: what was written stays, the client gets nothing.
ExchangeFails(c) ==
  /\ exchange[c].step # "idle"
  /\ Concludes(c)
  /\ UNCHANGED <<tokenClock, token, exchanged>>

(***************************************************************************)
(* Revocation and use                                                      *)
(***************************************************************************)
\* One row; neither its parent nor its children.
RevokeRow(t) ==
  /\ token[t].revoked = None
  /\ token' = [token EXCEPT ![t].revoked = tokenClock]
  /\ UNCHANGED <<tokenClock, exchange, exchanged>>

Accepts(t) == LiveToken(t, "access", tokenClock)

\* ApiTokenGuard.
Use(t) ==
  /\ Accepts(t)
  /\ admitted' = [token |-> t, at |-> tokenClock]
  /\ UNCHANGED <<tokenClock, token, exchange, exchanged>>

TokenTick ==
  /\ tokenClock < MaxTokenTime
  /\ tokenClock' = tokenClock + 1
  /\ UNCHANGED <<token, exchange, exchanged>>

TokenNext ==
  \/ \E t \in DOMAIN token : Use(t)
  \/ /\ \/ TokenTick
        \/ \E t \in DOMAIN token : RevokeRow(t)
        \/ \E c \in Exchanges :
             \/ Issue(c) \/ ConsumeRefresh(c) \/ CreateRefresh(c) \/ CreateAccess(c) \/ ExchangeFails(c)
             \/ \E t \in DOMAIN token : FindRefresh(c, t)
     /\ admitted' = NoAdmission

TokenSpec == TokenInit /\ [][TokenNext]_tokenVars

(***************************************************************************)
(* Properties                                                              *)
(***************************************************************************)
\* "First successful rotation wins": however refreshes of one token, replays and
\* revocations overlap, each refresh token is succeeded once at most, so a client
\* holds one refresh token that works; what it is admitted with is an access token
\* whose refresh token it got by an issue or a rotation that went through.
OneChainPerClient ==
  /\ \A s, t \in DOMAIN token :
       s # t /\ token[s].kind = "refresh" /\ token[t].kind = "refresh"
         => /\ token[s].client = token[t].client => token[s].parent # token[t].parent
            /\ LiveToken(s, "refresh", tokenClock) /\ LiveToken(t, "refresh", tokenClock)
                 => token[s].client # token[t].client
  /\ admitted.token # None =>
       LET parent == token[admitted.token].parent IN
       /\ parent # None /\ token[parent].kind = "refresh"
       /\ token[parent].parent # None => token[token[parent].parent].revoked # None
       /\ admitted.at < token[admitted.token].expires
=============================================================================
