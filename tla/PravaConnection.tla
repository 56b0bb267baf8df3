--------------------------- MODULE PravaConnection ---------------------------
(***************************************************************************)
(* The Prava OAuth connection of one organization: begin and complete of   *)
(* PravaMcpConnectionService, and the refresh both it and the worker run   *)
(* before a tool call (_access_token).  Each reads the rows in one         *)
(* transaction, calls Prava, and writes in another.                        *)
(***************************************************************************)
EXTENDS Naturals, FiniteSets

CONSTANTS
  Actors,          \* people of the organization
  Authorizations,  \* PravaMcpAuthorization rows; each registers its own client
  Calls,           \* overlapping calls of the API and of worker activities
  None,            \* no row, no actor, no token
  MaxTokens        \* bound: refresh tokens Prava hands out

ASSUME ConnectionAssumption ==
  /\ None \notin Actors \cup Authorizations
  /\ MaxTokens \in Nat \ {0}

VARIABLES
  authorization,   \* the PravaMcpAuthorization rows
  connection,      \* the PravaMcpConnection row
  call,            \* per call: its step and what it carries across Prava's answer
  live,            \* external: the refresh tokens Prava accepts
  rotates,         \* external: Prava replaces a refresh token at each use
  issued,          \* external: refresh tokens handed out so far
  installs,        \* connections stored from each authorization
  lost,            \* a caller died holding tokens Prava had already rotated
  raced            \* a refresh stored its tokens over another client's connection

connection_vars == <<authorization, connection, call, live, rotates, issued, installs, lost, raced>>

NoToken == [client |-> None, number |-> 0]
IdleCall == [step |-> "IDLE", client |-> None, actor |-> None, token |-> NoToken]

ConnectionInit ==
  /\ authorization = [a \in Authorizations |->
                        [state |-> "NONE", actor |-> None, expired |-> FALSE]]
  /\ connection = [client |-> None, actor |-> None, token |-> NoToken, stale |-> FALSE]
  /\ call = [c \in Calls |-> IdleCall]
  /\ live = {}
  /\ rotates \in BOOLEAN
  /\ issued = 0
  /\ installs = [a \in Authorizations |-> 0]
  /\ lost = FALSE
  /\ raced = FALSE

(***************************************************************************)
(* PravaMcpConnectionService.begin: a fresh client and signed state.       *)
(***************************************************************************)
begin(a, actor) ==
  /\ authorization[a].state = "NONE"
  /\ authorization' = [authorization EXCEPT ![a] =
                         [state |-> "OPEN", actor |-> actor, expired |-> FALSE]]
  /\ UNCHANGED <<connection, call, live, rotates, issued, installs, lost, raced>>

(* Ten minutes pass.                                                        *)
AuthorizationExpires(a) ==
  /\ authorization[a].state # "NONE"
  /\ ~authorization[a].expired
  /\ authorization' = [authorization EXCEPT ![a].expired = TRUE]
  /\ UNCHANGED <<connection, call, live, rotates, issued, installs, lost, raced>>

(***************************************************************************)
(* complete: check the state, exchange the code, consume the state and     *)
(* store the connection.                                                   *)
(***************************************************************************)
\* Mutant: whoever brings the state may finish the connection.
AnyActor(a, actor) == authorization[a].state = "OPEN" /\ ~authorization[a].expired

Completable(a, actor) ==
  /\ authorization[a].state = "OPEN"
  /\ authorization[a].actor = actor
  /\ ~authorization[a].expired

complete(c, a, actor) ==
  /\ call[c].step = "IDLE"
  /\ Completable(a, actor)
  /\ call' = [call EXCEPT ![c] = [step |-> "EXCHANGE", client |-> a, actor |-> actor,
                                  token |-> NoToken]]
  /\ UNCHANGED <<authorization, connection, live, rotates, issued, installs, lost, raced>>

(* External: Prava exchanges the code; whether it refuses a code it has     *)
(* seen before is not relied on.                                            *)
PravaExchanges(c) ==
  LET token == [client |-> call[c].client, number |-> issued + 1] IN
  /\ call[c].step = "EXCHANGE"
  /\ issued < MaxTokens
  /\ issued' = issued + 1
  /\ live' = live \cup {token}
  /\ call' = [call EXCEPT ![c].step = "CONNECT", ![c].token = token]
  /\ UNCHANGED <<authorization, connection, rotates, installs, lost, raced>>

NotReplayed(c) == authorization[call[c].client].state = "OPEN"

Connected(c) ==
  [client |-> call[c].client, actor |-> call[c].actor, token |-> call[c].token,
   stale |-> FALSE]

StoreConnection(c) ==
  /\ call[c].step = "CONNECT"
  /\ NotReplayed(c)
  /\ authorization' = [authorization EXCEPT ![call[c].client].state = "CONSUMED"]
  /\ connection' = Connected(c)
  /\ installs' = [installs EXCEPT ![call[c].client] = @ + 1]
  /\ call' = [call EXCEPT ![c] = IdleCall]
  /\ UNCHANGED <<live, rotates, issued, lost, raced>>

(* PRAVA_OAUTH_STATE_REPLAYED                                               *)
CompleteReplayed(c) ==
  /\ call[c].step = "CONNECT"
  /\ ~NotReplayed(c)
  /\ call' = [call EXCEPT ![c] = IdleCall]
  /\ UNCHANGED <<authorization, connection, live, rotates, issued, installs, lost, raced>>

(***************************************************************************)
(* _access_token: a token that is about to expire is refreshed outside the *)
(* row lock.                                                               *)
(***************************************************************************)
AccessExpires ==
  /\ connection.client # None
  /\ ~connection.stale
  /\ connection' = [connection EXCEPT !.stale = TRUE]
  /\ UNCHANGED <<authorization, call, live, rotates, issued, installs, lost, raced>>

Refreshable == connection.client # None /\ connection.stale

access_token(c) ==
  /\ call[c].step = "IDLE"
  /\ Refreshable
  /\ call' = [call EXCEPT ![c] = [step |-> "REFRESH", client |-> connection.client,
                                  actor |-> None, token |-> connection.token]]
  /\ UNCHANGED <<authorization, connection, live, rotates, issued, installs, lost, raced>>

(* External: Prava accepts a live refresh token of the client that asks.    *)
Accepted(c) == call[c].token \in live /\ call[c].token.client = call[c].client

PravaRefreshes(c) ==
  LET token == [call[c].token EXCEPT !.number = issued + 1] IN
  /\ call[c].step = "REFRESH"
  /\ Accepted(c)
  /\ IF rotates
     THEN /\ issued < MaxTokens
          /\ issued' = issued + 1
          /\ live' = (live \ {call[c].token}) \cup {token}
          /\ call' = [call EXCEPT ![c].step = "STORE", ![c].token = token]
     ELSE /\ call' = [call EXCEPT ![c].step = "STORE"]
          /\ UNCHANGED <<live, issued>>
  /\ UNCHANGED <<authorization, connection, rotates, installs, lost, raced>>

PravaRefuses(c) ==
  /\ call[c].step = "REFRESH"
  /\ ~Accepted(c)
  /\ call' = [call EXCEPT ![c] = IdleCall]
  /\ UNCHANGED <<authorization, connection, live, rotates, issued, installs, lost, raced>>

\* Mutant: only the access token of a refresh is kept.
KeepsRefreshToken(c) == connection.token

RefreshedToken(c) == call[c].token

(* The second transaction writes the tokens and leaves client_id alone.     *)
StoreTokens(c) ==
  /\ call[c].step = "STORE"
  /\ connection' = [connection EXCEPT !.token = RefreshedToken(c), !.stale = FALSE]
  /\ raced' = (raced \/ connection.client # call[c].client)
  /\ call' = [call EXCEPT ![c] = IdleCall]
  /\ UNCHANGED <<authorization, live, rotates, issued, installs, lost>>

(* The process dies, or Prava's answer never arrives.                       *)
CallDies(c) ==
  /\ call[c].step # "IDLE"
  /\ call' = [call EXCEPT ![c] = IdleCall]
  /\ lost' = (lost \/ call[c].step = "STORE")
  /\ UNCHANGED <<authorization, connection, live, rotates, issued, installs, raced>>

ConnectionNext ==
  \/ \E a \in Authorizations : AuthorizationExpires(a) \/ \E actor \in Actors : begin(a, actor)
  \/ \E c \in Calls, a \in Authorizations, actor \in Actors : complete(c, a, actor)
  \/ \E c \in Calls : \/ PravaExchanges(c) \/ StoreConnection(c) \/ CompleteReplayed(c)
                      \/ access_token(c) \/ PravaRefreshes(c) \/ PravaRefuses(c)
                      \/ StoreTokens(c) \/ CallDies(c)
  \/ AccessExpires

ConnectionSpec == ConnectionInit /\ [][ConnectionNext]_connection_vars

(***************************************************************************)
(* Properties.                                                             *)
(***************************************************************************)

(* "One-time PKCE authorization state": an authorization stores a connection*)
(* at most once, however callbacks with its state overlap.                  *)
AuthorizationUsedOnce == \A a \in Authorizations : installs[a] <= 1

(* The connection belongs to the person who asked for it, also when two     *)
(* people connect at once and one is refreshed meanwhile.                   *)
ConnectionIsAuthorized ==
  connection.client # None =>
    /\ authorization[connection.client].state = "CONSUMED"
    /\ authorization[connection.client].actor = connection.actor

(* A connection comes from one authorization, used once by its owner.       *)
ConnectionSound == AuthorizationUsedOnce /\ ConnectionIsAuthorized

(* A CONNECTED row can be refreshed: its refresh token is live and belongs  *)
(* to its client, or a caller holds the token that replaced it.  Two ways   *)
(* out remain: a caller that died holding that token, and a refresh that    *)
(* overlapped a reconnect.                                                  *)
StoredTokenLive ==
  connection.client # None /\ ~lost /\ ~raced =>
    \/ connection.token \in live /\ connection.token.client = connection.client
    \/ \E c \in Calls : /\ call[c].step = "STORE" /\ call[c].client = connection.client
                        /\ call[c].token \in live
==============================================================================
