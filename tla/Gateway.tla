------------------------------ MODULE Gateway ------------------------------
(***************************************************************************)
(* The way of a request through the server: the JWT and the admin          *)
(* middleware, the handler of its route, the error pipeline.               *)
(*                                                                         *)
(* Of the routes behind the gate, "list" is the handler of TransactionLog, *)
(* "rpc" the JSON-RPC proxy, "admin" any handler of Councils.  The open    *)
(* ones are "waitlist", the handler of Waitlist, and "pay", of which only  *)
(* the errors are of interest here.                                        *)
(***************************************************************************)
EXTENDS Waitlist, TransactionLog, Sequences

CONSTANTS
  Configs,       \* the environments the server may be started in, each with
                 \* bounds: the routes that clients use (handlers share
                 \* nothing but the gate) and how often it is restarted
  Payloads,      \* JSON-RPC payloads: the methods of one call or of a batch
  ProviderStatuses,   \* statuses of a provider's refusals
  MaxClock, MaxBoots  \* bounds

VARIABLES
  config,        \* mode, whether the secret is not empty, the admins; the bounds
  now, boot,     \* the clock; how often the server was restarted
  \* one request per connection
  pc, route, header, session, admitted, response,
  upstream       \* history: what the proxy sent upstream

frame == <<pc, route, header, session, admitted, response>>
environment == <<config, now, boot>>
gateVars == <<environment, frame, upstream, waitVars, logVars>>

Routes == {"list", "rpc", "admin", "waitlist", "pay"}
Open == {"waitlist", "pay"}

Modes == {"production", "development"}

ALLOWED_METHODS ==
  {"getAccount", "getLedgerEntries", "simulateTransaction",
   "sendTransaction", "getTransaction", "getLatestLedger"}

\* With an empty secret in the environment each start draws one (production
\* does not start then; without the variable no server starts at all).
Secret == IF config.secretSet THEN 0 ELSE boot

\* Who a token was granted to, until when, and under which secret.
Tokens == [sub : Wallets, exp : 0..MaxClock, secret : 0..MaxBoots]

ASSUME GatewayAssumption ==
  /\ Configs \subseteq
       [mode : Modes, secretSet : BOOLEAN, admins : SUBSET Wallets,
        routes : SUBSET Routes, boots : 0..MaxBoots]
  /\ \A c \in Configs : c.mode = "production" => c.secretSet
  /\ Payloads \subseteq Seq(STRING)
  /\ ProviderStatuses \subseteq Nat
  /\ MaxClock \in Nat /\ MaxBoots \in Nat
  /\ None \notin Tokens

-----------------------------------------------------------------------------
(* Errors and what the wire shows of them.  A text is told by its origin:  *)
(* "ours", "theirs" (a field of a provider's structured error), "raw" (the *)
(* body of an upstream reply) or "internal" (the message of an exception). *)

errorStatusSchema == {400, 401, 403, 404, 409, 429, 500}

mapProviderStatus(status) ==
  IF status \in {400, 401, 403, 404, 409, 429} THEN status
  ELSE IF status \in 400..499 THEN 409 ELSE 500

APIError(status, code, message, details) ==
  [status |-> status, code |-> code, message |-> message,
   details |-> details]

\* Mutant: a field that is missing is not replaced.
\* fields: the ones that a provider's error has as strings; none if its body
\* is no JSON object.
FieldAsItIs(fields, name, otherwise) ==
  IF name \in fields THEN "theirs" ELSE "undefined"

Field(fields, name, otherwise) ==
  IF name \in fields THEN "theirs" ELSE otherwise

providerBundleRejected(status, fields) ==
  [code |-> Field(fields, "code", "ours"), baseError |-> "raw",
   api |-> [status |-> mapProviderStatus(status),
            message |-> Field(fields, "message", "ours"),
            details |-> Field(fields, "details", "none")]]

bundleSettlementFailed(fields) ==
  [code |-> Field(fields, "code", "ours"), baseError |-> "ours",
   api |-> [status |-> 409, message |-> Field(fields, "message", "ours"),
            details |-> "none"]]

\* An exception of any other kind has nothing for the wire.
fromUnknown(message) ==
  [code |-> "ours", baseError |-> message, api |-> None]

JwtError ==
  [code |-> "ours", baseError |-> "internal",
   api |-> [status |-> 401, message |-> "ours", details |-> "ours"]]

\* Mutant: an error that has nothing for the wire shows its cause.
getAPIErrorWithCause(e) ==
  IF e.api = None THEN APIError(500, e.code, e.baseError, "ours")
  ELSE APIError(e.api.status, e.code, e.api.message, e.api.details)

getAPIError(e) ==
  IF e.api = None THEN APIError(500, e.code, "ours", "ours")
  ELSE APIError(e.api.status, e.code, e.api.message, e.api.details)

\* What other handlers answer with: a status and a text of theirs.
Plain(status) == APIError(status, "none", "ours", "none")
-----------------------------------------------------------------------------

Origins == {"ours", "theirs", "raw", "internal", "none"}
Responses == [status : Nat, code : Origins, message : Origins,
              details : Origins]

GatewayTypeOK ==
  /\ WaitTypeOK /\ LogTypeOK
  /\ config \in Configs
  /\ now \in 0..MaxClock /\ boot \in 0..MaxBoots
  /\ pc \in [Slots -> {"idle", "verify", "handler", "upstream", "answered"}]
  /\ route \in [Slots -> Routes \cup {None}]
  /\ header \in [Slots -> Tokens \cup {None}]
  /\ session \in [Slots -> Tokens \cup {None}]
  /\ admitted \in [Slots -> 0..MaxClock]
  /\ response \in [Slots -> Responses \cup {None}]
  /\ upstream \in SUBSET Payloads

GatewayInit ==
  /\ WaitInit /\ LogInit
  /\ config \in Configs
  /\ now = 0 /\ boot = 0
  /\ pc = [s \in Slots |-> "idle"]
  /\ route = [s \in Slots |-> None]
  /\ header = [s \in Slots |-> None]
  /\ session = [s \in Slots |-> None]
  /\ admitted = [s \in Slots |-> 0]
  /\ response = [s \in Slots |-> None]
  /\ upstream = {}

GoTo(s, l) == pc' = [pc EXCEPT ![s] = l]

Respond(s, answer) ==
  /\ GoTo(s, "answered")
  /\ response' = [response EXCEPT ![s] = answer]
  /\ session' = [session EXCEPT ![s] = None]
  /\ admitted' = [admitted EXCEPT ![s] = 0]

GoOn(s, l) ==
  /\ GoTo(s, l)
  /\ UNCHANGED <<response, session, admitted>>

\* A header that is missing or no bearer token counts as None.
Arrive(s, r, h) ==
  /\ pc[s] = "idle"
  /\ r \in config.routes
  /\ r = "list" =>
       /\ listing[s] # None /\ ~listed[s]
       /\ h # None => h.sub = listing[s].wallet
  /\ route' = [route EXCEPT ![s] = r]
  /\ header' = [header EXCEPT ![s] = IF r \in Open THEN None ELSE h]
  /\ GoOn(s, IF r \in Open THEN "handler" ELSE "verify")
  /\ IF r = "waitlist"
     THEN \E w \in Wallets \cup {None} : Apply(s, w)
     ELSE UNCHANGED waitVars
  /\ UNCHANGED <<environment, upstream, logVars>>

-----------------------------------------------------------------------------
(* jwtMiddleware and adminMiddleware. *)

Verified(h) == h # None /\ h.secret = Secret /\ now <= h.exp

\* An empty list admits nobody; in development any other list everybody.
OnAdminList(w) ==
  /\ config.admins # {}
  /\ config.mode = "development" \/ w \in config.admins

\* Mutant: the session is kept on the application's state, which all
\* requests share, instead of the request's.
AdmitIntoApp(s) ==
  /\ GoTo(s, "handler")
  /\ session' = [q \in Slots |->
       IF q = s \/ pc[q] = "handler" THEN header[s] ELSE session[q]]
  /\ admitted' = [admitted EXCEPT ![s] = now]
  /\ UNCHANGED response

\* The session is on the state of the request's own context.
Admit(s) ==
  /\ GoTo(s, "handler")
  /\ session' = [session EXCEPT ![s] = header[s]]
  /\ admitted' = [admitted EXCEPT ![s] = now]
  /\ UNCHANGED response

Verify(s) ==
  /\ pc[s] = "verify"
  /\ \/ ~Verified(header[s]) /\ Respond(s, getAPIError(JwtError))
     \/ /\ Verified(header[s])
        /\ route[s] = "admin" /\ ~OnAdminList(header[s].sub)
        /\ Respond(s, Plain(403))
     \/ /\ Verified(header[s])
        /\ route[s] = "admin" => OnAdminList(header[s].sub)
        /\ Admit(s)
  /\ header' = [header EXCEPT ![s] = None]
  /\ UNCHANGED <<environment, route, upstream, waitVars, logVars>>

-----------------------------------------------------------------------------
(* The handlers. *)

ServeList(s) ==
  /\ pc[s] = "handler" /\ route[s] = "list"
  /\ List(s, session[s].sub)
  /\ Respond(s, Plain(200))
  /\ UNCHANGED <<environment, route, header, upstream, waitVars>>

ServeAdmin(s) ==
  /\ pc[s] = "handler" /\ route[s] = "admin"
  /\ Respond(s, Plain(200))
  /\ UNCHANGED <<environment, route, header, upstream, waitVars, logVars>>

\* A statement of a handler fails; the database rejects a negative limit.
FailToServe(s) ==
  /\ pc[s] = "handler" /\ route[s] \in {"list", "admin"}
  /\ Respond(s, Plain(500))
  /\ UNCHANGED <<environment, route, header, upstream, waitVars, logVars>>

ServeWaitlist(s) ==
  /\ pc[s] = "handler" /\ route[s] = "waitlist"
  /\ ApplyStep(s)
  /\ IF wstage'[s] # "out" THEN GoOn(s, "handler")
     ELSE \E status \in {200, 500} : Respond(s, Plain(status))
  /\ UNCHANGED <<environment, route, header, upstream, logVars>>

\* Mutant: only the first call of a batch is looked at.
FirstAllowed(p) == Len(p) > 0 => p[1] \in ALLOWED_METHODS

Allowed(p) == \A i \in 1..Len(p) : p[i] \in ALLOWED_METHODS

\* The proxy: every method of a batch is looked at before any is sent.
ServeRpc(s) ==
  /\ pc[s] = "handler" /\ route[s] = "rpc"
  /\ \/ /\ Respond(s, Plain(400))   \* no JSON
        /\ UNCHANGED upstream
     \/ \E p \in Payloads :
          \/ /\ ~Allowed(p)
             /\ Respond(s, Plain(200))
             /\ UNCHANGED upstream
          \/ /\ Allowed(p)
             /\ upstream' = upstream \cup {p}
             /\ GoOn(s, "upstream")
  /\ UNCHANGED <<environment, route, header, waitVars, logVars>>

\* Whatever comes back is relayed as it is; nothing may, or not to the end.
Relay(s) ==
  /\ pc[s] = "upstream"
  /\ \/ \E status \in {200, 503} :
          Respond(s, APIError(status, "none", "raw", "none"))
     \/ \E status \in {500, 502} : Respond(s, Plain(status))
  /\ UNCHANGED <<environment, route, header, upstream, waitVars, logVars>>

\* What a payment that ends badly is told of the provider.
Fields == SUBSET {"code", "message", "details"}

Pay(s) ==
  /\ pc[s] = "handler" /\ route[s] = "pay"
  /\ \/ Respond(s, Plain(200))
     \/ \E status \in ProviderStatuses, fields \in Fields :
          Respond(s, getAPIError(providerBundleRejected(status, fields)))
     \/ \E fields \in Fields :
          Respond(s, getAPIError(bundleSettlementFailed(fields)))
     \/ Respond(s, getAPIError(fromUnknown("internal")))
  /\ UNCHANGED <<environment, route, header, upstream, waitVars, logVars>>

\* The client has its answer; the connection is free.
Close(s) ==
  /\ pc[s] = "answered"
  /\ GoTo(s, "idle")
  /\ route' = [route EXCEPT ![s] = None]
  /\ response' = [response EXCEPT ![s] = None]
  /\ UNCHANGED <<environment, header, session, admitted, upstream, waitVars,
                 logVars>>

-----------------------------------------------------------------------------
(* Everything else that moves. *)

Tick ==
  /\ now < MaxClock
  /\ now' = now + 1
  /\ UNCHANGED <<config, boot, frame, upstream, waitVars, logVars>>

Restart ==
  /\ boot < config.boots
  /\ boot' = boot + 1
  /\ pc' = [s \in Slots |-> "idle"]
  /\ route' = [s \in Slots |-> None]
  /\ header' = [s \in Slots |-> None]
  /\ session' = [s \in Slots |-> None]
  /\ admitted' = [s \in Slots |-> 0]
  /\ response' = [s \in Slots |-> None]
  /\ LoseApplications
  /\ UNCHANGED <<config, now, upstream, logVars>>

LogMoves ==
  /\ "list" \in config.routes
  /\ \/ \E w \in Wallets : Record(w) \/ Wipe(w)
     \/ \E s \in Slots : StartListing(s)
  /\ UNCHANGED <<environment, frame, upstream, waitVars>>

\* A token that may have been granted: WalletAuth says to whom.
Granted == {t \in Tokens : t.secret <= Secret}

GatewayStep(s) ==
  \/ \E r \in Routes, h \in Granted \cup {None} : Arrive(s, r, h)
  \/ Verify(s)
  \/ ServeList(s) \/ ServeAdmin(s) \/ FailToServe(s) \/ ServeWaitlist(s)
  \/ ServeRpc(s) \/ Relay(s) \/ Pay(s)
  \/ Close(s)

GatewayNext ==
  (\E s \in Slots : GatewayStep(s)) \/ Tick \/ Restart \/ LogMoves

GatewaySpec == GatewayInit /\ [][GatewayNext]_gateVars

-----------------------------------------------------------------------------
(* Properties. *)

\* Behind the gate only a token of the secret in force, in time, and for the
\* admin routes of the list; upstream only what is allowed, in every call of
\* every batch.
GateKept ==
  /\ \A s \in Slots :
       pc[s] \in {"handler", "upstream"} /\ route[s] \notin Open =>
         /\ session[s].secret = Secret
         /\ admitted[s] <= session[s].exp
         /\ route[s] = "admin" => OnAdminList(session[s].sub)
  /\ \A p \in upstream : \A i \in 1..Len(p) : p[i] \in ALLOWED_METHODS

\* A client that lists its log with tokens of its own is never given a row
\* of another wallet, although between its admission and the query other
\* connections are admitted and served for other wallets
\* (middleware/auth/index.ts:33-37, list.ts:19-46).
OwnRowsOnly ==
  \A s \in Slots : \A row \in got[s] : row.wallet = listing[s].wallet

\* "The raw upstream body is kept only on baseError and never reaches the
\* wire", and every status is one of errorStatusSchema (pay.errors.ts:16-18,
\* 67-71): true of every error that the error pipeline answers, whichever
\* way it was made.
ErrorsAreClean ==
  \A s \in Slots :
    LET e == response[s] IN
    e # None /\ e.code # "none" =>
      /\ e.status \in errorStatusSchema
      /\ {e.code, e.message, e.details} \subseteq {"ours", "theirs", "none"}
=============================================================================
