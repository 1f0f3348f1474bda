------------------------- MODULE CredentialRefresh -------------------------
(***************************************************************************)
(* How a remote connector's OAuth credential survives being refreshed.     *)
(* A connection has one stored token pair.  Every source object built for  *)
(* it, before and after a reconnect say, has a provider with a cache of    *)
(* its own, and each of a source's requests may refresh.  A vendor that    *)
(* rotates revokes a refresh token once it is spent: a token spent twice,  *)
(* or an old answer written over a newer one, costs the connection.        *)
(*                                                                         *)
(* Sources: src/src/tools/oauth-refresh-fetch.ts (the shared exchange and  *)
(* what it records) and src/src/tools/workspace-oauth-provider.ts (tokens, *)
(* saveTokens, invalidateCredentials).  The MCP SDK's auth() and the       *)
(* vendor are external, modelled from what these files say of them.        *)
(*                                                                         *)
(* Tokens are numbered in the order the vendor issues them.                *)
(***************************************************************************)
EXTENDS Integers, Sequences

CONSTANTS
    Providers,      \* provider objects of one connection, in one process
    Calls,          \* requests under way at a time
    Homes,          \* which provider each may run on: maps from Calls
    MaxToken,       \* bound: refresh tokens the vendor issues
    MaxSignIns      \* bound: sign-ins after the first

ASSUME CredentialAssumption ==
    /\ Homes \subseteq [Calls -> Providers]
    /\ MaxToken \in Nat \ {0} /\ MaxSignIns \in Nat

VARIABLES
    valid,      \* the refresh tokens the vendor accepts
    issued,     \* how many it has issued
    current,    \* the token the latest sign-in now stands on
    revoked,    \* tokens it took back, or rotated in an answer that was lost
    signIns,    \* sign-ins after the first
    store,      \* the stored refresh token
    crossed,    \* a provider acted on a look at the store another outdated
    cached,     \* cachedTokens, per provider
    served,     \* servedRefreshTokens, per provider
    exchanging, \* exchangingCode, per provider
    saving,     \* savingTokens: the saves of a provider, in turn
    home,       \* the provider of each request
    call,       \* the requests
    exchanges,  \* per token: None, InFlight, or the token its answer carries
    issuedBy,   \* per token: the token whose exchange it came from
    refused     \* tokens the vendor is known to have refused

vars == <<valid, issued, current, revoked, signIns, store, crossed, cached,
          served, exchanging, saving, home, call, exchanges, issuedBy, refused>>

vendor == <<valid, issued, current, revoked, signIns>>
records == <<store, crossed>>
provider == <<cached, served, exchanging, saving, home>>
shared == <<exchanges, issuedBy, refused>>

None == 0
InFlight == -1

Tokens == 1 .. MaxToken
Phases == {"idle", "reading", "post", "wait", "answered", "queued", "writing",
           "signedIn", "refused", "deleting", "again"}

\* tok: the token read and spent; got: the token the answer carries; retry:
\* auth()'s one second try; over: the store changed hands since it looked.
Idle == [phase |-> "idle", tok |-> None, got |-> None,
         retry |-> FALSE, code |-> FALSE, over |-> FALSE]

Init ==
    /\ valid = {1} /\ issued = 1 /\ current = 1 /\ revoked = {} /\ signIns = 0
    /\ store = 1 /\ crossed = FALSE
    /\ cached = [p \in Providers |-> None]
    /\ served = [p \in Providers |-> {}]
    /\ exchanging = [p \in Providers |-> FALSE]
    /\ saving = [p \in Providers |-> <<>>]
    /\ home \in Homes
    /\ call = [c \in Calls |-> Idle]
    /\ exchanges = [t \in Tokens |-> None]
    /\ issuedBy = [t \in Tokens |-> None]
    /\ refused = {}

---------------------------------------------------------------------------
(* tokens(): from the cache, else read from the store and cached.          *)

\* A new request, or the second try of one.  The source of a provider that is
\* signing in is still in start() and serves no request.
Reads(c) == call[c].phase \in {"idle", "again"} /\ ~exchanging[home[c]]

Posts(c, t) ==
    /\ served' = [served EXCEPT ![home[c]] = @ \cup {t}]
    /\ call' = [call EXCEPT ![c].phase = "post", ![c].tok = t]

ReadCached(c) ==
    /\ Reads(c) /\ cached[home[c]] # None
    /\ Posts(c, cached[home[c]])
    /\ UNCHANGED <<vendor, records, shared, cached, exchanging, saving, home>>

ReadStore(c) ==
    /\ Reads(c) /\ cached[home[c]] = None
    /\ call' = [call EXCEPT ![c].phase = "reading", ![c].tok = store]
    /\ UNCHANGED <<vendor, records, provider, shared>>

ReadLands(c) ==
    LET t == call[c].tok
    IN  /\ call[c].phase = "reading" /\ t # None
        /\ cached' = [cached EXCEPT ![home[c]] = t]
        /\ Posts(c, t)
        /\ UNCHANGED <<vendor, records, shared, exchanging, saving, home>>

\* redirectToAuthorization with nobody there to sign in: notifyAuthLost, and
\* the request is told to sign in again.  What is stored stays.
Reauthorize == Idle

NothingStored(c) ==
    /\ call[c].phase = "reading" /\ call[c].tok = None
    /\ call' = [call EXCEPT ![c] = Reauthorize]
    /\ UNCHANGED <<vendor, records, provider, shared>>

\* The server takes the access token: nothing to refresh.
Accepted(c) ==
    /\ call[c].phase = "post" /\ ~call[c].retry
    /\ call' = [call EXCEPT ![c] = Idle]
    /\ UNCHANGED <<vendor, records, provider, shared>>

---------------------------------------------------------------------------
(* The exchange: one per token in the process.                             *)

Answered(r, t) == [r EXCEPT !.phase = "answered", !.tok = None, !.got = t]

\* spendOnce: start the exchange, join it, or take its answer again.
Spend(c) ==
    LET t == call[c].tok
    IN  /\ call[c].phase = "post"
        /\ \/ /\ exchanges[t] \in Tokens
              /\ call' = [call EXCEPT ![c] = Answered(@, exchanges[t])]
              /\ UNCHANGED exchanges
           \/ /\ exchanges[t] \in {None, InFlight}
              /\ call' = [call EXCEPT ![c].phase = "wait"]
              /\ exchanges' = [exchanges EXCEPT ![t] = InFlight]
        /\ UNCHANGED <<vendor, records, provider, issuedBy, refused>>

Sharing(c, t) == call[c].phase = "wait" /\ call[c].tok = t

\* The vendor accepts token t; the connection now holds n, which is t itself
\* at a vendor that does not rotate.
Exchanged(t, n) ==
    /\ exchanges[t] = InFlight /\ t \in valid
    /\ \/ n = t /\ UNCHANGED issued
       \/ n = issued + 1 /\ issued' = n
    /\ valid' = (valid \ {t}) \cup {n}
    /\ current' = IF current = t THEN n ELSE current
    /\ exchanges' = [exchanges EXCEPT ![t] = n]
    /\ issuedBy' = [issuedBy EXCEPT ![n] = t]
    /\ call' = [c \in Calls |-> IF Sharing(c, t) THEN Answered(call[c], n) ELSE call[c]]
    /\ UNCHANGED <<records, provider, refused, revoked, signIns>>

Refused(t) ==
    /\ exchanges[t] = InFlight /\ t \notin valid
    /\ exchanges' = [exchanges EXCEPT ![t] = None]
    /\ refused' = refused \cup {t}
    /\ call' = [c \in Calls |->
                   IF Sharing(c, t) THEN [call[c] EXCEPT !.phase = "refused"] ELSE call[c]]
    /\ UNCHANGED <<vendor, records, provider, issuedBy>>

\* Every attempt met an outage: the SDK goes on as if there were no token, so
\* that each request that shared the exchange is told to sign in again.
Unavailable(t) ==
    /\ exchanges[t] = InFlight
    /\ exchanges' = [exchanges EXCEPT ![t] = None]
    /\ call' = [c \in Calls |-> IF Sharing(c, t) THEN Reauthorize ELSE call[c]]
    /\ UNCHANGED <<vendor, records, provider, issuedBy, refused>>

\* A window is a minute or two, a step of a request a file access: when one
\* ends, every request is done or waits on the vendor.
Unhurried == \A c \in Calls : call[c].phase \in {"idle", "wait"}

\* REFRESH_REPLAY_MS after a success.  What the exchange recorded of its answer
\* outlives it (SETTLED_RETENTION_MS), read by nothing but a save of the answer.
ReplayEnds(t) ==
    LET n == exchanges[t]
    IN  /\ n \in Tokens /\ Unhurried
        /\ exchanges' = [exchanges EXCEPT ![t] = None]
        /\ issuedBy' = IF \E u \in Tokens \ {t} : exchanges[u] = n THEN issuedBy
                       ELSE [issuedBy EXCEPT ![n] = None]
        /\ UNCHANGED <<vendor, records, provider, call, refused>>

\* SETTLED_RETENTION_MS after a refusal.
ForgetRefused(t) ==
    /\ t \in refused /\ Unhurried
    /\ refused' = refused \ {t}
    /\ UNCHANGED <<vendor, records, provider, call, exchanges, issuedBy>>

---------------------------------------------------------------------------
(* saveTokens: one at a time per provider.                                 *)

Enqueue(c) ==
    /\ call[c].phase = "answered"
    /\ call' = [call EXCEPT ![c].phase = "queued"]
    /\ saving' = [saving EXCEPT ![home[c]] = Append(@, c)]
    /\ UNCHANGED <<vendor, records, shared, cached, served, exchanging, home>>

\* As if savingTokens were not awaited.
AnyTurn(c) == TRUE

InTurn(c) == Head(saving[home[c]]) = c

SpentFor(c) == IF exchanging[home[c]] THEN None ELSE issuedBy[call[c].got]

\* As if every result were written.
NeverStale(c) == FALSE

\* droppedStaleResult: the store has moved past the token that was spent.
StaleResult(c) ==
    /\ SpentFor(c) # None
    /\ store \notin {None, call[c].got, SpentFor(c)}

DropStale(c) ==
    LET p == home[c]
    IN  /\ call[c].phase = "queued" /\ InTurn(c) /\ StaleResult(c)
        /\ cached' = [cached EXCEPT ![p] = None]
        /\ saving' = [saving EXCEPT ![p] = Tail(@)]
        /\ call' = [call EXCEPT ![c] = Idle]
        /\ UNCHANGED <<vendor, records, shared, served, exchanging, home>>

BeginWrite(c) ==
    LET p == home[c]
    IN  /\ call[c].phase = "queued" /\ InTurn(c) /\ ~StaleResult(c)
        /\ cached' = [cached EXCEPT ![p] = call[c].got]
        /\ call' = [call EXCEPT ![c].phase = "writing"]
        /\ UNCHANGED <<vendor, records, shared, served, exchanging, saving, home>>

\* Request c leaves the store at t and is itself left as r.
Stores(c, t, r) ==
    /\ store' = t
    /\ crossed' = (crossed \/ call[c].over)
    /\ call' = [d \in Calls |->
                   CASE d = c -> r
                     [] /\ call[d].phase \in {"writing", "deleting"}
                        /\ home[d] # home[c] /\ store # t
                          -> [call[d] EXCEPT !.over = TRUE]
                     [] OTHER -> call[d]]

EndWrite(c) ==
    LET after == IF call[c].code THEN [Idle EXCEPT !.phase = "signedIn"]
                                 ELSE Idle
    IN  /\ call[c].phase = "writing"
        /\ Stores(c, call[c].got, after)
        /\ saving' = [saving EXCEPT ![home[c]] = Tail(@)]
        /\ UNCHANGED <<vendor, shared, cached, served, exchanging, home>>

---------------------------------------------------------------------------
(* invalidateCredentials("tokens") after a refusal, and auth()'s retry.    *)

\* As if a refusal always deleted what is stored.
NeverKeeps(p) == FALSE

\* keptStoredTokens: what was refused is a copy of a token since rotated.
KeepsStored(p) ==
    /\ store # None /\ store \notin refused
    /\ served[p] \cap refused # {}

Invalidate(c) ==
    LET p == home[c]
    IN  /\ call[c].phase = "refused" /\ ~call[c].retry
        /\ cached' = [cached EXCEPT ![p] = None]
        /\ call' = [call EXCEPT ![c] =
                       [Idle EXCEPT !.phase = IF KeepsStored(p) THEN "again" ELSE "deleting",
                                    !.retry = TRUE]]
        /\ UNCHANGED <<vendor, records, shared, served, exchanging, saving, home>>

DeleteTokens(c) ==
    /\ call[c].phase = "deleting"
    /\ Stores(c, None, [call[c] EXCEPT !.phase = "again", !.over = FALSE])
    /\ UNCHANGED <<vendor, provider, shared>>

\* A second refusal is thrown to the request.
RefusedAgain(c) ==
    /\ call[c].phase = "refused" /\ call[c].retry
    /\ call' = [call EXCEPT ![c] = Idle]
    /\ UNCHANGED <<vendor, records, provider, shared>>

---------------------------------------------------------------------------
(* Sign-ins and the vendor.                                                *)

\* startAuth: one sign-in of a connection at a time, until its source is up.
NoFlowInFlight == \A p \in Providers : ~exchanging[p]

\* exchangeAuthorizationCode: the vendor answers the code with a new token.
SignIn(c) ==
    LET t == issued + 1
    IN  /\ NoFlowInFlight
        /\ \A d \in Calls : home[d] = home[c] => call[d].phase = "idle"
        /\ signIns < MaxSignIns /\ t \in Tokens
        /\ signIns' = signIns + 1
        /\ issued' = t /\ current' = t /\ valid' = valid \cup {t}
        /\ exchanging' = [exchanging EXCEPT ![home[c]] = TRUE]
        /\ call' = [call EXCEPT ![c] = [Answered(Idle, t) EXCEPT !.code = TRUE]]
        /\ UNCHANGED <<records, shared, cached, served, saving, revoked, home>>

SignedIn(c) ==
    /\ call[c].phase = "signedIn"
    /\ exchanging' = [exchanging EXCEPT ![home[c]] = FALSE]
    /\ call' = [call EXCEPT ![c] = Idle]
    /\ UNCHANGED <<vendor, records, shared, cached, served, saving, home>>

\* The vendor takes a token back, or rotates it and the answer is lost.
Revoked(t) ==
    /\ t \in valid
    /\ valid' = valid \ {t}
    /\ revoked' = revoked \cup {t}
    /\ UNCHANGED <<issued, current, signIns, records, provider, call, shared>>

Next ==
    \/ \E c \in Calls :
        \/ ReadCached(c) \/ ReadStore(c) \/ SignIn(c)
        \/ ReadLands(c) \/ NothingStored(c) \/ Accepted(c) \/ Spend(c)
        \/ Enqueue(c) \/ DropStale(c) \/ BeginWrite(c) \/ EndWrite(c)
        \/ Invalidate(c) \/ DeleteTokens(c) \/ RefusedAgain(c) \/ SignedIn(c)
    \/ \E t, n \in Tokens : Exchanged(t, n)
    \/ \E t \in Tokens :
        \/ Refused(t) \/ Unavailable(t) \/ Revoked(t)
        \/ ReplayEnds(t) \/ ForgetRefused(t)

Spec == Init /\ [][Next]_vars
---------------------------------------------------------------------------
Request == [phase : Phases, tok : Tokens \cup {None},
            got : Tokens \cup {None}, retry : BOOLEAN, code : BOOLEAN,
            over : BOOLEAN]

\* Types; and the queue of a provider's saves (savingTokens) holds the requests
\* on it that are to save, each once.
TypeOK ==
    /\ issued \in Tokens /\ valid \subseteq 1 .. issued
    /\ revoked \subseteq 1 .. issued
    /\ current \in valid \cup revoked /\ signIns \in 0 .. MaxSignIns
    /\ store \in Tokens \cup {None} /\ crossed \in BOOLEAN
    /\ cached \in [Providers -> Tokens \cup {None}]
    /\ served \in [Providers -> SUBSET Tokens]
    /\ exchanging \in [Providers -> BOOLEAN]
    /\ exchanges \in [Tokens -> Tokens \cup {None, InFlight}]
    /\ issuedBy \in [Tokens -> Tokens \cup {None}]
    /\ refused \subseteq Tokens
    /\ call \in [Calls -> Request]
    /\ home \in Homes
    /\ \A p \in Providers :
          /\ {saving[p][i] : i \in DOMAIN saving[p]}
                = {c \in Calls : home[c] = p /\ call[c].phase \in {"queued", "writing"}}
          /\ \A i, j \in DOMAIN saving[p] : saving[p][i] = saving[p][j] => i = j

\* The answer of an exchange, or of a sign-in, that a request has yet to save.
Carried(t) == \E c \in Calls : call[c].got = t

\* A connection does not lose its credential to its own refreshing
\* (saveTokens, invalidateCredentials): whatever is replayed, refused, dropped
\* or deleted, the token the vendor now accepts is stored, or in the hands of a
\* request that will save it.  Left out: a credential the vendor took back, and
\* everything after one provider acted on a look at the store that a write of
\* the other provider outdated, which savingTokens, one per provider, does not
\* prevent.
CredentialKept ==
    ~crossed /\ current \notin revoked => store = current \/ Carried(current)

\* The step that tells a request to sign in again: nothing was stored, its
\* token was refused twice, or its exchange got no answer.
Told(c) ==
    /\ \/ call[c].phase \in {"refused", "wait"}
       \/ call[c].phase = "reading" /\ call[c].tok = None
    /\ call'[c].phase = "idle"

\* This step gives the exchange of t up after its last retry: the vendor has
\* neither answered nor refused it.
Outage(t) ==
    /\ t \in Tokens /\ exchanges[t] = InFlight /\ exchanges'[t] = None
    /\ refused' = refused

\* A rotation alone never costs a sign-in (spendOnce, keptStoredTokens and
\* auth()'s second try): as long as the vendor took nothing back, a request is
\* told to sign in again only by the outage of its own exchange, which the SDK
\* cannot tell from a dead token; never by a token that another request spent
\* or replaced, nor by an outage another request met before.
NoFalseAlarm ==
    [][\A c \in Calls :
          Told(c) => crossed \/ revoked # {} \/ Outage(call[c].tok)]_vars
===========================================================================
