------------------------------ MODULE Councils ------------------------------
(***************************************************************************)
(* Councils: their administration (src/src/http/v1/admin/councils.ts) and  *)
(* the routing of payments by them (the first queries of prepare, submit,  *)
(* execute and balance).                                                   *)
(*                                                                         *)
(* A council serves jurisdictions, has a channel per asset and privacy     *)
(* providers, each in a table of its own.  No handler uses a transaction:  *)
(* every statement is an action, and other handlers run in between.  A     *)
(* payment is routed by three queries in a row: councils, channel,         *)
(* providers.                                                              *)
(***************************************************************************)
EXTENDS Naturals, Sequences, Functions

CONSTANTS
  Councils,   \* ids of councils; each is given out once
  Channels,   \* rows of council_channels
  Pps,        \* rows of council_pps
  Countries,  \* jurisdiction codes
  Assets,     \* asset codes
  Admins,     \* requests to the admin endpoints that take several statements
  Bodies,     \* what they may ask for
  Calls,      \* calls of prepare, submit, execute and balance
  Asked,      \* what they may ask for
  Stored,     \* contents of the database at the start of the server
  None

ChannelRow == [council : Councils, asset : Assets, active : BOOLEAN]
PpRow == [council : Councils, active : BOOLEAN]

\* Bodies that pass validation.  A list entry that lacks a field is skipped
\* by the code and is left out here.  `codes` is the list as it was sent.
CreateBody ==
  [kind : {"create"}, active : BOOLEAN,
   channels : Seq([asset : Assets, active : BOOLEAN]),
   codes : Seq(Countries), pps : Nat]
UpdateBody ==
  [kind : {"update"}, council : Councils, active : BOOLEAN \cup {None},
   codes : Seq(Countries) \cup {None}]
RowBody ==
  [kind : {"channel"}, council : Councils,
   row : [asset : Assets, active : BOOLEAN]]
  \cup [kind : {"pp"}, council : Councils, row : [active : BOOLEAN]]

\* A call: the payer's and the receiver's jurisdictions, and whether the
\* payer's was sent.  "pay" is submit or execute.
Input ==
  [kind : {"prepare", "pay", "balance"}, payer : Countries, told : BOOLEAN,
   receiver : Countries, asset : Assets]

Tables ==
  [council : [Councils -> {"unused", "active", "inactive", "deleted"}],
   serves : SUBSET (Councils \X Countries),
   channel : [Channels -> ChannelRow \cup {None}],
   pp : [Pps -> PpRow \cup {None}]]

Live(db, c) == db.council[c] \in {"active", "inactive"}

\* The foreign keys of the three tables.
Intact(db) ==
  /\ \A s \in db.serves : Live(db, s[1])
  /\ \A h \in Channels :
       db.channel[h] # None => Live(db, db.channel[h].council)
  /\ \A p \in Pps : db.pp[p] # None => Live(db, db.pp[p].council)

ASSUME BodiesAssumption ==
  Bodies \subseteq CreateBody \cup UpdateBody \cup RowBody
ASSUME AskedAssumption == Asked \subseteq Input
ASSUME StoredAssumption == \A db \in Stored : db \in Tables /\ Intact(db)
ASSUME NoneAssumption ==
  /\ None \notin Councils /\ None \notin BOOLEAN /\ None \notin Bodies
  /\ None \notin Asked /\ None \notin ChannelRow /\ None \notin PpRow
  /\ None # <<>>

VARIABLES
  \* the tables
  council, serves, channel, pp,
  \* admin requests: the statement each is at, its body, its council and
  \* the rows it has inserted at this stage
  at, body, target, inserted,
  \* routing: the query each call is at, its input, the councils still to be
  \* tried and what was chosen
  leg, ask, queue, via,
  \* history: the councils that served the call's jurisdictions at some
  \* moment of the call, and whether it could be served all along
  covered, served

tables == <<council, serves, channel, pp>>
admin == <<at, body, target, inserted>>
routing == <<leg, ask, queue, via>>
history == <<covered, served>>
vars == <<tables, admin, routing, history>>

Database == [council |-> council, serves |-> serves,
             channel |-> channel, pp |-> pp]

Writing == {"create", "channels", "codes", "pps", "update", "remove",
            "find", "row"}
Reading == {"councils", "channel", "provider"}
Over == {"idle", "done", "refused", "failed", "lost"}

Nowhere == [council |-> None, channel |-> None, pp |-> None]
Route == [council : Councils \cup {None},
          channel : ChannelRow \cup {None}, pp : PpRow \cup {None}]

TypeOK ==
  /\ Database \in Tables
  /\ at \in [Admins -> Writing \cup Over]
  /\ body \in [Admins -> Bodies \cup {None}]
  /\ target \in [Admins -> Councils \cup {None}]
  /\ inserted \in [Admins -> Nat]
  /\ leg \in [Calls -> Reading \cup Over]
  /\ ask \in [Calls -> Asked \cup {None}]
  /\ queue \in [Calls -> SUBSET Councils]
  /\ via \in [Calls -> Route]
  /\ covered \in
       [Calls -> [receiver : SUBSET Councils, both : SUBSET Councils]]
  /\ served \in [Calls -> BOOLEAN]

Init ==
  /\ \E db \in Stored :
       /\ council = db.council
       /\ serves = db.serves
       /\ channel = db.channel
       /\ pp = db.pp
  /\ at = [o \in Admins |-> "idle"]
  /\ body = [o \in Admins |-> None]
  /\ target = [o \in Admins |-> None]
  /\ inserted = [o \in Admins |-> 0]
  /\ leg = [q \in Calls |-> "idle"]
  /\ ask = [q \in Calls |-> None]
  /\ queue = [q \in Calls |-> {}]
  /\ via = [q \in Calls |-> Nowhere]
  /\ covered = [q \in Calls |-> [receiver |-> {}, both |-> {}]]
  /\ served = [q \in Calls |-> TRUE]

Exists(c) == Live(Database, c)

-----------------------------------------------------------------------------
(* History. *)

\* The jurisdictions a call asks a council to serve.
Wanted(a) ==
  {a.receiver} \cup
  (IF a.kind = "prepare" /\ a.told THEN {a.payer} ELSE {})

Serving(codes) ==
  {c \in Councils :
     council[c] = "active" /\ \A k \in codes : <<c, k>> \in serves}

\* The first active channel of a council for an asset, in no stated order.
OpenChannels(c, asset) ==
  {h \in Channels :
     /\ channel[h] # None
     /\ channel[h].council = c
     /\ channel[h].asset = asset
     /\ channel[h].active}

\* Some council serves the call now, and each council that does, or that it
\* has in hand, has a channel and, but for a balance, a provider.
Servable(q) ==
  LET now == Serving(Wanted(ask[q])) IN
  /\ now # {}
  /\ \A c \in now \cup queue[q] \cup ({via[q].council} \ {None}) :
       /\ OpenChannels(c, ask[q].asset) # {}
       /\ ask[q].kind # "balance" =>
            \E p \in Pps : pp[p] # None /\ pp[p].council = c /\ pp[p].active

Watch ==
  /\ covered' = [q \in Calls |->
       IF leg'[q] \in Reading
       THEN [receiver |-> covered[q].receiver
                            \cup Serving({ask[q].receiver})',
             both |-> covered[q].both
                        \cup Serving({ask[q].payer, ask[q].receiver})']
       ELSE covered[q]]
  /\ served' = [q \in Calls |->
       IF leg'[q] \in Reading THEN served[q] /\ Servable(q)' ELSE served[q]]

-----------------------------------------------------------------------------
(* Administration. *)

Proceed(o, stage) == at' = [at EXCEPT ![o] = stage]

\* The stages of a creation that have nothing to insert are passed over.
AfterCodes(b) == IF b.pps > 0 THEN "pps" ELSE "done"
AfterChannels(b) == IF b.codes # <<>> THEN "codes" ELSE AfterCodes(b)
AfterCouncil(b) == IF b.channels # <<>> THEN "channels" ELSE AfterChannels(b)

Receive(o, b) ==
  /\ at[o] = "idle"
  /\ body' = [body EXCEPT ![o] = b]
  /\ Proceed(o, CASE b.kind = "create" -> "create"
                  [] b.kind = "update" -> "update"
                  [] OTHER -> "find")
  /\ target' = [target EXCEPT ![o] =
                  IF b.kind = "create" THEN None ELSE b.council]
  /\ UNCHANGED <<tables, inserted, routing>>
  /\ Watch

ReceiveMalformed(o) ==
  /\ at[o] = "idle"
  /\ Proceed(o, "refused")
  /\ UNCHANGED <<tables, body, target, inserted, routing>>
  /\ Watch

CreateCouncil(o) ==
  /\ at[o] = "create"
  /\ \E c \in Councils :
       /\ council[c] = "unused"
       /\ council' = [council EXCEPT ![c] =
                        IF body[o].active THEN "active" ELSE "inactive"]
       /\ target' = [target EXCEPT ![o] = c]
  /\ Proceed(o, AfterCouncil(body[o]))
  /\ UNCHANGED <<serves, channel, pp, body, inserted, routing>>
  /\ Watch

\* A row of a council that is gone violates the foreign key.
InsertChannel(o, row) ==
  /\ Exists(target[o])
  /\ \E h \in Channels :
       /\ channel[h] = None
       /\ channel' = [channel EXCEPT ![h] =
            [council |-> target[o], asset |-> row.asset,
             active |-> row.active]]

\* Mutant: a row is inserted whether or not its council is still there.
InsertPpUnchecked(o, active) ==
  \E p \in Pps :
    /\ pp[p] = None
    /\ pp' = [pp EXCEPT ![p] = [council |-> target[o], active |-> active]]

InsertPp(o, active) ==
  /\ Exists(target[o])
  /\ \E p \in Pps :
       /\ pp[p] = None
       /\ pp' = [pp EXCEPT ![p] = [council |-> target[o], active |-> active]]

\* The channels of a new council are inserted one by one.
InsertNextChannel(o) ==
  /\ at[o] = "channels"
  /\ InsertChannel(o, body[o].channels[inserted[o] + 1])
  /\ \/ /\ inserted[o] + 1 < Len(body[o].channels)
        /\ inserted' = [inserted EXCEPT ![o] = @ + 1]
        /\ UNCHANGED at
     \/ /\ inserted[o] + 1 = Len(body[o].channels)
        /\ inserted' = [inserted EXCEPT ![o] = 0]
        /\ Proceed(o, AfterChannels(body[o]))
  /\ UNCHANGED <<council, serves, pp, body, target, routing>>
  /\ Watch

\* One statement for all the codes: a code that is there already, or twice
\* in the list, violates the unique index and none is inserted.
InsertCodes(o) ==
  LET codes == body[o].codes IN
  /\ at[o] = "codes"
  /\ Exists(target[o])
  /\ IsInjective(codes)
  /\ \A k \in Range(codes) : <<target[o], k>> \notin serves
  /\ serves' = serves \cup ({target[o]} \X Range(codes))
  /\ Proceed(o, IF body[o].kind = "create" THEN AfterCodes(body[o]) ELSE "done")
  /\ UNCHANGED <<council, channel, pp, body, target, inserted, routing>>
  /\ Watch

InsertNextPp(o) ==
  /\ at[o] = "pps"
  /\ InsertPp(o, TRUE)
  /\ \/ /\ inserted[o] + 1 < body[o].pps
        /\ inserted' = [inserted EXCEPT ![o] = @ + 1]
        /\ UNCHANGED at
     \/ /\ inserted[o] + 1 = body[o].pps
        /\ inserted' = [inserted EXCEPT ![o] = 0]
        /\ Proceed(o, "done")
  /\ UNCHANGED <<council, serves, channel, body, target, routing>>
  /\ Watch

UpdateCouncil(o) ==
  /\ at[o] = "update"
  /\ \/ /\ Exists(target[o])
        /\ council' = [council EXCEPT ![target[o]] =
             CASE body[o].active = TRUE -> "active"
               [] body[o].active = FALSE -> "inactive"
               [] OTHER -> @]
        /\ Proceed(o, IF body[o].codes = None THEN "done" ELSE "remove")
     \/ /\ ~Exists(target[o])
        /\ Proceed(o, "refused")
        /\ UNCHANGED council
  /\ UNCHANGED <<serves, channel, pp, body, target, inserted, routing>>
  /\ Watch

\* The jurisdictions are removed first and inserted by another statement.
RemoveCodes(o) ==
  /\ at[o] = "remove"
  /\ serves' = {s \in serves : s[1] # target[o]}
  /\ Proceed(o, IF body[o].codes = <<>> THEN "done" ELSE "codes")
  /\ UNCHANGED <<council, channel, pp, body, target, inserted, routing>>
  /\ Watch

\* A channel or a provider is added in two steps: look the council up, then
\* insert.
FindCouncil(o) ==
  /\ at[o] = "find"
  /\ Proceed(o, IF Exists(target[o]) THEN "row" ELSE "refused")
  /\ UNCHANGED <<tables, body, target, inserted, routing>>
  /\ Watch

InsertRow(o) ==
  /\ at[o] = "row"
  /\ \/ /\ body[o].kind = "channel"
        /\ InsertChannel(o, body[o].row)
        /\ UNCHANGED pp
     \/ /\ body[o].kind = "pp"
        /\ InsertPp(o, body[o].row.active)
        /\ UNCHANGED channel
  /\ Proceed(o, "done")
  /\ UNCHANGED <<council, serves, body, target, inserted, routing>>
  /\ Watch

\* A foreign key or unique index is violated, or a statement fails for any
\* other reason.  What was inserted before stays.
Fail(o) ==
  /\ at[o] \in Writing
  /\ Proceed(o, "failed")
  /\ UNCHANGED <<tables, body, target, inserted, routing>>
  /\ Watch

\* Everything of a council goes with it.
DeleteCouncil(c) ==
  /\ Exists(c)
  /\ council' = [council EXCEPT ![c] = "deleted"]
  /\ serves' = {s \in serves : s[1] # c}
  /\ channel' = [h \in Channels |->
       IF channel[h] # None /\ channel[h].council = c
       THEN None ELSE channel[h]]
  /\ pp' = [p \in Pps |->
       IF pp[p] # None /\ pp[p].council = c THEN None ELSE pp[p]]
  /\ UNCHANGED <<admin, routing>>
  /\ Watch

DeleteChannel(h) ==
  /\ channel[h] # None
  /\ channel' = [channel EXCEPT ![h] = None]
  /\ UNCHANGED <<council, serves, pp, admin, routing>>
  /\ Watch

DeletePp(p) ==
  /\ pp[p] # None
  /\ pp' = [pp EXCEPT ![p] = None]
  /\ UNCHANGED <<council, serves, channel, admin, routing>>
  /\ Watch

\* The body is stored as it is: it may even name another council.
UpdatePp(p, row) ==
  /\ pp[p] # None
  /\ Exists(row.council)
  /\ pp' = [pp EXCEPT ![p] = row]
  /\ UNCHANGED <<council, serves, channel, admin, routing>>
  /\ Watch

-----------------------------------------------------------------------------
(* Routing. *)

Advance(q, l) == leg' = [leg EXCEPT ![q] = l]

\* Mutant: only the receiver's jurisdiction is looked for.
FindByReceiverOfPair(payer, receiver) ==
  {c \in Councils : council[c] = "active" /\ <<c, receiver>> \in serves}

\* Active councils that serve both jurisdictions: one query.
FindByJurisdictionPair(payer, receiver) ==
  {c \in Councils :
     /\ council[c] = "active"
     /\ <<c, payer>> \in serves
     /\ <<c, receiver>> \in serves}

FindByJurisdiction(code) ==
  {c \in Councils : council[c] = "active" /\ <<c, code>> \in serves}

\* Mutant: the pair is asked for whether or not the payer's jurisdiction
\* was sent.
MatchingPairAlways(a) == FindByJurisdictionPair(a.payer, a.receiver)

\* Only prepare, and only if it was sent, looks at the payer's jurisdiction.
Matching(a) ==
  IF a.kind = "prepare" /\ a.told
  THEN FindByJurisdictionPair(a.payer, a.receiver)
  ELSE FindByJurisdiction(a.receiver)

\* Mutant: a provider of any council will do.
ActivePpsOfAny(c) == {p \in Pps : pp[p] # None /\ pp[p].active}

ActivePps(c) ==
  {p \in Pps : pp[p] # None /\ pp[p].council = c /\ pp[p].active}

Ask(q, a) ==
  /\ leg[q] = "idle"
  /\ ask' = [ask EXCEPT ![q] = a]
  /\ Advance(q, "councils")
  /\ UNCHANGED <<tables, admin, queue, via>>
  /\ Watch

FindCouncils(q) ==
  LET found == Matching(ask[q]) IN
  /\ leg[q] = "councils"
  /\ queue' = [queue EXCEPT ![q] = found]
  /\ Advance(q, IF found = {} THEN "refused" ELSE "channel")
  /\ UNCHANGED <<tables, admin, ask, via>>
  /\ Watch

\* Mutant: the id of the channel is kept instead of its row.
TryCouncilForId(q) ==
  /\ leg[q] = "channel"
  /\ \E c \in queue[q] :
       \E h \in OpenChannels(c, ask[q].asset) :
         via' = [via EXCEPT ![q].council = c, ![q].channel = h]
  /\ Advance(q, "provider")
  /\ UNCHANGED <<tables, admin, ask, queue>>
  /\ Watch

\* Councils are tried one after the other, in the order of a query without
\* ORDER BY, until one has a channel.
TryCouncil(q) ==
  /\ leg[q] = "channel"
  /\ \E c \in queue[q] :
       \/ \E h \in OpenChannels(c, ask[q].asset) :
            /\ via' = [via EXCEPT ![q].council = c, ![q].channel = channel[h]]
            /\ Advance(q, IF ask[q].kind = "balance"
                          THEN "done" ELSE "provider")
            /\ UNCHANGED queue
       \/ /\ OpenChannels(c, ask[q].asset) = {}
          /\ queue' = [queue EXCEPT ![q] = @ \ {c}]
          /\ Advance(q, IF queue[q] = {c} THEN "refused" ELSE "channel")
          /\ UNCHANGED via
  /\ UNCHANGED <<tables, admin, ask>>
  /\ Watch

\* Any of the council's active providers.  If there is none the call ends:
\* no other council is tried.
PickProvider(q) ==
  LET found == ActivePps(via[q].council) IN
  /\ leg[q] = "provider"
  /\ \/ \E p \in found :
          /\ via' = [via EXCEPT ![q].pp = pp[p]]
          /\ Advance(q, "done")
     \/ /\ found = {}
        /\ Advance(q, "refused")
        /\ UNCHANGED via
  /\ UNCHANGED <<tables, admin, ask, queue>>
  /\ Watch

Throw(q) ==
  /\ leg[q] \in Reading
  /\ Advance(q, "failed")
  /\ UNCHANGED <<tables, admin, ask, queue, via>>
  /\ Watch

\* The process dies; the tables stay as the last statement left them.
Crash ==
  /\ at' = [o \in Admins |-> IF at[o] \in Writing THEN "lost" ELSE at[o]]
  /\ leg' = [q \in Calls |-> IF leg[q] \in Reading THEN "lost" ELSE leg[q]]
  /\ UNCHANGED <<tables, body, target, inserted, ask, queue, via>>
  /\ Watch

-----------------------------------------------------------------------------
(* The specification. *)

AdminStep(o) ==
  \/ CreateCouncil(o) \/ InsertNextChannel(o) \/ InsertCodes(o)
  \/ InsertNextPp(o) \/ UpdateCouncil(o) \/ RemoveCodes(o)
  \/ FindCouncil(o) \/ InsertRow(o) \/ Fail(o)

CallStep(q) ==
  FindCouncils(q) \/ TryCouncil(q) \/ PickProvider(q) \/ Throw(q)

Statement ==
  \/ \E c \in Councils : DeleteCouncil(c)
  \/ \E h \in Channels : DeleteChannel(h)
  \/ \E p \in Pps : DeletePp(p) \/ \E row \in PpRow : UpdatePp(p, row)

Next ==
  \/ \E o \in Admins :
       ReceiveMalformed(o) \/ (\E b \in Bodies : Receive(o, b))
       \/ AdminStep(o)
  \/ \E q \in Calls : (\E a \in Asked : Ask(q, a)) \/ CallStep(q)
  \/ Statement
  \/ Crash

Spec == Init /\ [][Next]_vars

-----------------------------------------------------------------------------
(* Properties. *)

\* Deletions and the two-step additions interleave: no jurisdiction, channel
\* or provider outlives its council or appears after its deletion
\* (councils.ts:295-320, 383-407, the cascades of the entities).
NoOrphans == Intact(Database)

\* The three queries of a route see three states of the tables.  Still, the
\* council a call is routed to was active and served every jurisdiction the
\* call asked for at one moment of the call, never one jurisdiction now and
\* the other later (council.repository.ts:36-65).
ServedAtOnce ==
  \A q \in Calls :
    via[q].council # None =>
      IF ask[q].kind = "prepare" /\ ask[q].told
      THEN via[q].council \in covered[q].both
      ELSE via[q].council \in covered[q].receiver

\* A route is of one piece: its channel and its provider were active rows of
\* its council when they were read, although rows move between councils
\* (instant-prepare.ts:123-156).
RouteOfOnePiece ==
  \A q \in Calls :
    leg[q] = "done" =>
      /\ via[q].channel.council = via[q].council
      /\ via[q].channel.asset = ask[q].asset
      /\ via[q].channel.active
      /\ ask[q].kind # "balance" =>
           via[q].pp.council = via[q].council /\ via[q].pp.active

\* If all along some council served the call, and each that did had a
\* channel and a provider, the call is not refused, whatever else the
\* admins change meanwhile (the early returns of instant-prepare.ts:96-155).
ServableIsNotRefused ==
  \A q \in Calls : leg[q] = "refused" => ~served[q]
=============================================================================
