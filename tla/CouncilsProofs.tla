--------------------------- MODULE CouncilsProofs ---------------------------
(***************************************************************************)
(* Theorems about Councils, for every value of its constants.              *)
(*                                                                         *)
(* The tables change between the queries of a route, so the invariant      *)
(* keeps what each query saw: the councils a call has in hand are among    *)
(* those that served it at some moment (Routed), and as long as it runs,   *)
(* the history is up to date with the tables (Watched).                    *)
(***************************************************************************)
EXTENDS Councils, TLAPS

\* The body an admin request has in hand fits the statement it is at.
Prepared(o) ==
  /\ at[o] \in {"create", "channels", "pps"} => body[o] \in CreateBody
  /\ at[o] = "codes" =>
       \/ body[o] \in CreateBody
       \/ body[o] \in UpdateBody /\ body[o].codes # None
  /\ at[o] \in {"update", "remove"} => body[o] \in UpdateBody
  /\ at[o] = "remove" => body[o].codes # None
  /\ at[o] \in {"find", "row"} => body[o] \in RowBody
  /\ at[o] \in Writing \ {"create"} => target[o] \in Councils

\* The councils that served, at one moment of the call, all it asks for.
Eligible(q) ==
  IF ask[q].kind = "prepare" /\ ask[q].told
  THEN covered[q].both ELSE covered[q].receiver

Routed(q) ==
  /\ IF leg[q] = "idle" THEN via[q] = Nowhere ELSE ask[q] \in Asked
  /\ leg[q] = "channel" => queue[q] \subseteq Eligible(q)
  /\ via[q].council # None => via[q].council \in Eligible(q)
  /\ leg[q] = "provider" =>
       via[q].council \in Councils /\ ask[q].kind # "balance"
  /\ leg[q] \in {"provider", "done"} =>
       /\ via[q].channel.council = via[q].council
       /\ via[q].channel.asset = ask[q].asset
       /\ via[q].channel.active
  /\ leg[q] = "done" /\ ask[q].kind # "balance" =>
       via[q].pp.council = via[q].council /\ via[q].pp.active
  /\ leg[q] = "refused" => ~served[q]

Watched(q) ==
  leg[q] \in Reading =>
    /\ Serving({ask[q].receiver}) \subseteq covered[q].receiver
    /\ Serving({ask[q].payer, ask[q].receiver}) \subseteq covered[q].both
    /\ served[q] => Servable(q)

IInv ==
  /\ TypeOK /\ NoOrphans
  /\ \A o \in Admins : Prepared(o)
  /\ \A q \in Calls : Routed(q) /\ Watched(q)

\* The types of everything but the history.
StateOK ==
  /\ Database \in Tables
  /\ at \in [Admins -> Writing \cup Over]
  /\ body \in [Admins -> Bodies \cup {None}]
  /\ target \in [Admins -> Councils \cup {None}]
  /\ inserted \in [Admins -> Nat]
  /\ leg \in [Calls -> Reading \cup Over]
  /\ ask \in [Calls -> Asked \cup {None}]
  /\ queue \in [Calls -> SUBSET Councils]
  /\ via \in [Calls -> Route]

-----------------------------------------------------------------------------

\* The history is kept in step with the tables by every action.
LEMMA WatchKeeps ==
  ASSUME TypeOK, StateOK', Watch
  PROVE  /\ TypeOK'
         /\ \A q \in Calls :
              /\ Watched(q)'
              /\ covered[q].receiver \subseteq covered'[q].receiver
              /\ covered[q].both \subseteq covered'[q].both
              /\ leg'[q] \notin Reading => served'[q] = served[q]
<1>1. covered' \in
        [Calls -> [receiver : SUBSET Councils, both : SUBSET Councils]]
  <2>1. \A q \in Calls :
          /\ Serving({ask[q].receiver})' \subseteq Councils
          /\ Serving({ask[q].payer, ask[q].receiver})' \subseteq Councils
    BY DEF Serving
  <2> QED
    BY <2>1 DEF Watch, TypeOK
<1>2. served' \in [Calls -> BOOLEAN]
  BY DEF Watch, TypeOK, Servable
<1>3. TypeOK'
  BY <1>1, <1>2 DEF TypeOK, StateOK
<1>4. ASSUME NEW q \in Calls
      PROVE  /\ Watched(q)'
             /\ covered[q].receiver \subseteq covered'[q].receiver
             /\ covered[q].both \subseteq covered'[q].both
             /\ leg'[q] \notin Reading => served'[q] = served[q]
  <2>1. CASE leg'[q] \in Reading
    <3>1. /\ covered'[q].receiver =
               covered[q].receiver \cup Serving({ask[q].receiver})'
          /\ covered'[q].both =
               covered[q].both
                 \cup Serving({ask[q].payer, ask[q].receiver})'
          /\ served'[q] = (served[q] /\ Servable(q)')
      BY <2>1 DEF Watch
    <3> QED
      BY <2>1, <3>1 DEF Watched
  <2>2. CASE leg'[q] \notin Reading
    BY <2>2 DEF Watch, Watched
  <2> QED
    BY <2>1, <2>2
<1> QED
  BY <1>3, <1>4

\* A call that does not move keeps its part of the invariant, whatever
\* happens to the tables.
LEMMA RouteKeeps ==
  ASSUME NEW q \in Calls, Routed(q),
         leg'[q] = leg[q], ask'[q] = ask[q], queue'[q] = queue[q],
         via'[q] = via[q],
         covered[q].receiver \subseteq covered'[q].receiver,
         covered[q].both \subseteq covered'[q].both,
         leg'[q] \notin Reading => served'[q] = served[q]
  PROVE  Routed(q)'
<1>1. Eligible(q) \subseteq Eligible(q)'
  BY DEF Eligible
<1> QED
  BY <1>1 DEF Routed, Nowhere, Reading

\* What is left to prove of a step of an admin.
LEMMA AdminKeeps ==
  ASSUME IInv, StateOK', NoOrphans', Watch, UNCHANGED routing,
         \A o \in Admins : Prepared(o)'
  PROVE  IInv'
<1>1. ASSUME NEW q \in Calls PROVE Routed(q)' /\ Watched(q)'
  BY WatchKeeps, RouteKeeps DEF IInv, routing
<1> QED
  BY <1>1, WatchKeeps DEF IInv

\* What is left to prove of a step of a call.
LEMMA CallKeeps ==
  ASSUME IInv, StateOK', Watch, UNCHANGED <<tables, admin>>,
         NEW q \in Calls, Routed(q)',
         \A p \in Calls \ {q} :
           /\ leg'[p] = leg[p] /\ ask'[p] = ask[p]
           /\ queue'[p] = queue[p] /\ via'[p] = via[p]
  PROVE  IInv'
<1>1. ASSUME NEW p \in Calls PROVE Routed(p)' /\ Watched(p)'
  BY WatchKeeps, RouteKeeps DEF IInv
<1>2. NoOrphans'
  BY DEF IInv, NoOrphans, Intact, Live, Database, tables
<1>3. \A o \in Admins : Prepared(o)'
  BY DEF IInv, Prepared, admin
<1> QED
  BY <1>1, <1>2, <1>3, WatchKeeps DEF IInv
-----------------------------------------------------------------------------

\* The members of Tables, one table at a time.
LEMMA TablesOK ==
  /\ Database \in Tables <=>
       /\ council \in
            [Councils -> {"unused", "active", "inactive", "deleted"}]
       /\ serves \in SUBSET (Councils \X Countries)
       /\ channel \in [Channels -> ChannelRow \cup {None}]
       /\ pp \in [Pps -> PpRow \cup {None}]
  /\ (Database \in Tables)' <=>
       /\ council' \in
            [Councils -> {"unused", "active", "inactive", "deleted"}]
       /\ serves' \in SUBSET (Councils \X Countries)
       /\ channel' \in [Channels -> ChannelRow \cup {None}]
       /\ pp' \in [Pps -> PpRow \cup {None}]
  BY DEF Database, Tables

\* Bodies come in three kinds.
LEMMA Kinds ==
  /\ \A b \in CreateBody : b.kind = "create"
  /\ \A b \in UpdateBody : b.kind = "update"
  /\ \A b \in RowBody : b.kind \in {"channel", "pp"}
  BY DEF CreateBody, UpdateBody, RowBody

\* A request moves on to a statement its body has what it takes for.
LEMMA CreationGoesOn ==
  ASSUME NEW b \in CreateBody
  PROVE  /\ AfterCodes(b) \in {"pps", "done"}
         /\ AfterChannels(b) \in {"codes", "pps", "done"}
         /\ AfterCouncil(b) \in {"channels", "codes", "pps", "done"}
  BY DEF AfterCodes, AfterChannels, AfterCouncil

\* What a sequence over a set holds.
LEMMA ElementOf ==
  ASSUME NEW S, NEW seq \in Seq(S), NEW i \in 1..Len(seq)
  PROVE  seq[i] \in S
  OBVIOUS

\* Inserting a row of a council that exists leaves the tables intact.
LEMMA ChannelInserted ==
  ASSUME IInv, NEW o \in Admins, target[o] \in Councils,
         NEW row \in [asset : Assets, active : BOOLEAN],
         InsertChannel(o, row), UNCHANGED <<council, serves, pp>>
  PROVE  (Database \in Tables)' /\ NoOrphans'
<1> DEFINE r == [council |-> target[o], asset |-> row.asset,
                 active |-> row.active]
<1>1. r \in ChannelRow
  BY DEF ChannelRow
<1>2. PICK h \in Channels : channel' = [channel EXCEPT ![h] = r]
  BY DEF InsertChannel
<1>3. (Database \in Tables)'
  BY <1>1, <1>2, TablesOK DEF IInv, TypeOK
<1>4. NoOrphans'
  BY <1>1, <1>2, TablesOK
  DEF IInv, TypeOK, NoOrphans, Intact, InsertChannel, Exists, Live, Database
<1> QED
  BY <1>3, <1>4

\* The same for a provider.
LEMMA PpInserted ==
  ASSUME IInv, NEW o \in Admins, target[o] \in Councils,
         NEW active \in BOOLEAN,
         InsertPp(o, active), UNCHANGED <<council, serves, channel>>
  PROVE  (Database \in Tables)' /\ NoOrphans'
<1> DEFINE r == [council |-> target[o], active |-> active]
<1>1. r \in PpRow
  BY DEF PpRow
<1>2. PICK p \in Pps : pp' = [pp EXCEPT ![p] = r]
  BY DEF InsertPp
<1>3. (Database \in Tables)'
  BY <1>1, <1>2, TablesOK DEF IInv, TypeOK
<1>4. NoOrphans'
  BY <1>1, <1>2, TablesOK
  DEF IInv, TypeOK, NoOrphans, Intact, InsertPp, Exists, Live, Database
<1> QED
  BY <1>3, <1>4

\* The statements of the admin endpoints keep the invariant.
LEMMA AdminSteps ==
  ASSUME IInv, NEW o \in Admins,
         \/ ReceiveMalformed(o) \/ (\E b \in Bodies : Receive(o, b))
         \/ AdminStep(o)
  PROVE  IInv'
<1> USE TablesOK DEF IInv, TypeOK, Proceed
<1>1. ASSUME NEW b \in Bodies, Receive(o, b) PROVE IInv'
  <2>1. b \in CreateBody \cup UpdateBody \cup RowBody
    BY BodiesAssumption
  <2>2. /\ at' = [at EXCEPT ![o] = IF b.kind = "create" THEN "create"
                  ELSE IF b.kind = "update" THEN "update" ELSE "find"]
        /\ body' = [body EXCEPT ![o] = b]
        /\ target' = [target EXCEPT ![o] =
                        IF b.kind = "create" THEN None ELSE b.council]
        /\ UNCHANGED <<tables, inserted, routing>> /\ Watch
    BY <1>1 DEF Receive
  <2>3. b.kind # "create" => b.council \in Councils
    BY <2>1, Kinds DEF UpdateBody, RowBody
  <2>4. StateOK'
    BY <2>2, <2>3 DEF StateOK, tables, routing, Writing
  <2>5. \A p \in Admins : Prepared(p)'
    BY <2>1, <2>2, <2>3, Kinds DEF Prepared, Writing
  <2>6. NoOrphans'
    BY <2>2 DEF NoOrphans, Intact, Live, Database, tables
  <2> QED
    BY <2>2, <2>4, <2>5, <2>6, AdminKeeps
<1>2. CASE ReceiveMalformed(o) \/ FindCouncil(o) \/ Fail(o)
  <2> USE DEF ReceiveMalformed, FindCouncil, Fail
  <2>1. StateOK'
    BY <1>2 DEF StateOK, tables, routing, Writing, Over
  <2>2. \A p \in Admins : Prepared(p)'
    BY <1>2 DEF Prepared, Writing
  <2>3. NoOrphans'
    BY <1>2 DEF NoOrphans, Intact, Live, Database, tables
  <2> QED
    BY <1>2, <2>1, <2>2, <2>3, AdminKeeps
<1>3. CASE CreateCouncil(o)
  <2>1. PICK c \in Councils :
          /\ council[c] = "unused"
          /\ council' = [council EXCEPT ![c] =
                           IF body[o].active THEN "active" ELSE "inactive"]
          /\ target' = [target EXCEPT ![o] = c]
    BY <1>3 DEF CreateCouncil
  <2>2. /\ at[o] = "create" /\ body[o] \in CreateBody
        /\ at' = [at EXCEPT ![o] = AfterCouncil(body[o])]
        /\ UNCHANGED <<serves, channel, pp, body, inserted, routing>>
        /\ Watch
    BY <1>3 DEF CreateCouncil, Prepared
  <2>3. StateOK'
    BY <2>1, <2>2, CreationGoesOn
    DEF StateOK, routing, Writing, Over
  <2>4. \A p \in Admins : Prepared(p)'
    BY <2>1, <2>2, CreationGoesOn DEF Prepared, Writing
  <2>5. NoOrphans'
    BY <2>1, <2>2 DEF NoOrphans, Intact, Live, Database
  <2> QED
    BY <2>2, <2>3, <2>4, <2>5, AdminKeeps
<1>4. CASE InsertNextChannel(o)
  <2> DEFINE row == body[o].channels[inserted[o] + 1]
  <2>a. at[o] = "channels" /\ body[o] \in CreateBody /\ target[o] \in Councils
    BY <1>4 DEF InsertNextChannel, Prepared, Writing
  <2>1. /\ at[o] = "channels" /\ body[o] \in CreateBody
        /\ target[o] \in Councils
        /\ InsertChannel(o, row)
        /\ UNCHANGED <<council, serves, pp, body, target, routing>> /\ Watch
    BY <1>4, <2>a DEF InsertNextChannel
  <2>2. row \in [asset : Assets, active : BOOLEAN]
    <3>1. body[o].channels \in Seq([asset : Assets, active : BOOLEAN])
      BY <2>a DEF CreateBody
    <3>2. Len(body[o].channels) \in Nat /\ inserted[o] \in Nat
      BY <3>1
    <3>3. inserted[o] + 1 \in 1..Len(body[o].channels)
      BY <1>4, <3>2 DEF InsertNextChannel
    <3> QED
      BY <3>1, <3>3, ElementOf
  <2> HIDE DEF row
  <2>3. (Database \in Tables)' /\ NoOrphans'
    BY <2>1, <2>2, ChannelInserted
  <2>4. /\ inserted' \in [Admins -> Nat]
        /\ \/ UNCHANGED at
           \/ at' = [at EXCEPT ![o] = AfterChannels(body[o])]
    <3>1. \/ /\ inserted' = [inserted EXCEPT ![o] = inserted[o] + 1]
             /\ UNCHANGED at
          \/ /\ inserted' = [inserted EXCEPT ![o] = 0]
             /\ at' = [at EXCEPT ![o] = AfterChannels(body[o])]
      BY <1>4 DEF InsertNextChannel
    <3>2. inserted[o] + 1 \in Nat
      OBVIOUS
    <3> QED
      BY <3>1, <3>2
  <2>5. StateOK'
    BY <2>1, <2>3, <2>4, CreationGoesOn DEF StateOK, routing, Writing, Over
  <2>6. \A p \in Admins : Prepared(p)'
    BY <2>1, <2>4, CreationGoesOn DEF Prepared, Writing
  <2> QED
    BY <2>1, <2>3, <2>5, <2>6, AdminKeeps
<1>5. CASE InsertCodes(o)
  <2> DEFINE codes == body[o].codes
  <2>1. /\ at[o] = "codes" /\ target[o] \in Councils
        /\ codes \in Seq(Countries)
        /\ Exists(target[o])
        /\ serves' = serves \cup ({target[o]} \X Range(codes))
        /\ \/ body[o] \in CreateBody
              /\ at' = [at EXCEPT ![o] = AfterCodes(body[o])]
           \/ at' = [at EXCEPT ![o] = "done"]
        /\ UNCHANGED <<council, channel, pp, body, target, inserted, routing>>
        /\ Watch
    BY <1>5, Kinds
    DEF InsertCodes, Prepared, Writing, CreateBody, UpdateBody
  <2>2. Range(codes) \subseteq Countries
    BY <2>1 DEF Range
  <2>3. StateOK'
    <3>1. serves' \in SUBSET (Councils \X Countries)
      BY <2>1, <2>2
    <3>2. at' \in [Admins -> Writing \cup Over]
      BY <2>1, CreationGoesOn DEF Writing, Over
    <3> QED
      BY <2>1, <3>1, <3>2 DEF StateOK, routing
  <2>4. \A p \in Admins : Prepared(p)'
    BY <2>1, CreationGoesOn DEF Prepared, Writing
  <2>5. NoOrphans'
    BY <2>1 DEF NoOrphans, Intact, Exists, Live, Database
  <2> QED
    BY <2>1, <2>3, <2>4, <2>5, AdminKeeps
<1>6. CASE InsertNextPp(o)
  <2>a. \/ /\ inserted' = [inserted EXCEPT ![o] = inserted[o] + 1]
           /\ UNCHANGED at
        \/ /\ inserted' = [inserted EXCEPT ![o] = 0]
           /\ at' = [at EXCEPT ![o] = "done"]
    BY <1>6 DEF InsertNextPp
  <2>b. inserted[o] + 1 \in Nat
    OBVIOUS
  <2>c. inserted' \in [Admins -> Nat]
    BY <2>a, <2>b
  <2>1. /\ at[o] = "pps" /\ target[o] \in Councils
        /\ InsertPp(o, TRUE)
        /\ UNCHANGED <<council, serves, channel, body, target, routing>>
        /\ Watch
    BY <1>6 DEF InsertNextPp, Prepared, Writing
  <2>2. (Database \in Tables)' /\ NoOrphans'
    BY <2>1, PpInserted
  <2>3. StateOK'
    BY <2>1, <2>2, <2>a, <2>c DEF StateOK, routing, Writing, Over
  <2>4. \A p \in Admins : Prepared(p)'
    BY <2>1, <2>a DEF Prepared, Writing
  <2> QED
    BY <2>1, <2>2, <2>3, <2>4, AdminKeeps
<1>7. CASE UpdateCouncil(o)
  <2>1. /\ at[o] = "update" /\ body[o] \in UpdateBody
        /\ target[o] \in Councils
        /\ UNCHANGED <<serves, channel, pp, body, target, inserted, routing>>
        /\ Watch
    BY <1>7 DEF UpdateCouncil, Prepared, Writing
  <2>2. /\ council' \in
             [Councils -> {"unused", "active", "inactive", "deleted"}]
        /\ \A c \in Councils : Live(Database, c) => Live(Database, c)'
        /\ \/ at' = [at EXCEPT ![o] = "done"]
           \/ at' = [at EXCEPT ![o] = "refused"]
           \/ body[o].codes # None /\ at' = [at EXCEPT ![o] = "remove"]
    BY <1>7, <2>1 DEF UpdateCouncil, Live, Exists, Database
  <2>3. StateOK'
    BY <2>1, <2>2 DEF StateOK, routing, Writing, Over
  <2>4. \A p \in Admins : Prepared(p)'
    BY <2>1, <2>2 DEF Prepared, Writing
  <2>5. NoOrphans'
    BY <2>1, <2>2 DEF NoOrphans, Intact, Database, ChannelRow, PpRow
  <2> QED
    BY <2>1, <2>3, <2>4, <2>5, AdminKeeps
<1>8. CASE RemoveCodes(o)
  <2>1. /\ at[o] = "remove" /\ body[o] \in UpdateBody
        /\ body[o].codes # None /\ target[o] \in Councils
        /\ serves' \subseteq serves
        /\ \/ at' = [at EXCEPT ![o] = "done"]
           \/ at' = [at EXCEPT ![o] = "codes"]
        /\ UNCHANGED <<council, channel, pp, body, target, inserted, routing>>
        /\ Watch
    BY <1>8 DEF RemoveCodes, Prepared, Writing
  <2>2. StateOK'
    BY <2>1 DEF StateOK, routing, Writing, Over
  <2>3. \A p \in Admins : Prepared(p)'
    BY <2>1 DEF Prepared, Writing
  <2>4. NoOrphans'
    BY <2>1 DEF NoOrphans, Intact, Live, Database
  <2> QED
    BY <2>1, <2>2, <2>3, <2>4, AdminKeeps
<1>9. CASE InsertRow(o)
  <2>1. /\ at[o] = "row" /\ body[o] \in RowBody /\ target[o] \in Councils
        /\ at' = [at EXCEPT ![o] = "done"]
        /\ UNCHANGED <<council, serves, body, target, inserted, routing>>
        /\ Watch
    BY <1>9 DEF InsertRow, Prepared, Writing
  <2>2. (Database \in Tables)' /\ NoOrphans'
    <3>1. CASE /\ body[o].kind = "channel" /\ InsertChannel(o, body[o].row)
               /\ UNCHANGED pp
      <4>1. body[o].row \in [asset : Assets, active : BOOLEAN]
        BY <2>1, <3>1 DEF RowBody
      <4> QED
        BY <2>1, <3>1, <4>1, ChannelInserted
    <3>2. CASE /\ body[o].kind = "pp" /\ InsertPp(o, body[o].row.active)
               /\ UNCHANGED channel
      <4>1. body[o].row.active \in BOOLEAN
        BY <2>1, <3>2 DEF RowBody
      <4> QED
        BY <2>1, <3>2, <4>1, PpInserted
    <3> QED
      BY <1>9, <3>1, <3>2 DEF InsertRow
  <2>3. StateOK'
    BY <2>1, <2>2 DEF StateOK, routing, Writing, Over
  <2>4. \A p \in Admins : Prepared(p)'
    BY <2>1 DEF Prepared, Writing
  <2> QED
    BY <2>1, <2>2, <2>3, <2>4, AdminKeeps
<1> QED
  BY <1>1, <1>2, <1>3, <1>4, <1>5, <1>6, <1>7, <1>8, <1>9 DEF AdminStep
\* The endpoints of one statement keep the invariant.
LEMMA Statements == IInv /\ Statement => IInv'
<1> SUFFICES ASSUME IInv, Statement PROVE IInv'
  OBVIOUS
<1> USE TablesOK DEF IInv, TypeOK
<1>1. UNCHANGED <<admin, routing>> /\ Watch
  BY DEF Statement, DeleteCouncil, DeleteChannel, DeletePp, UpdatePp
<1>2. ASSUME (Database \in Tables)', NoOrphans' PROVE IInv'
  <2>1. StateOK'
    BY <1>1, <1>2 DEF StateOK, admin, routing
  <2>2. \A o \in Admins : Prepared(o)'
    BY <1>1 DEF Prepared, admin
  <2> QED
    BY <1>1, <1>2, <2>1, <2>2, AdminKeeps
<1>3. ASSUME NEW c \in Councils, DeleteCouncil(c) PROVE IInv'
  <2>1. /\ council' = [council EXCEPT ![c] = "deleted"]
        /\ serves' = {s \in serves : s[1] # c}
        /\ \A h \in Channels :
             channel'[h] = IF channel[h] # None /\ channel[h].council = c
                           THEN None ELSE channel[h]
        /\ \A p \in Pps :
             pp'[p] = IF pp[p] # None /\ pp[p].council = c
                      THEN None ELSE pp[p]
    BY <1>3 DEF DeleteCouncil
  <2>2. (Database \in Tables)'
    BY <1>3, <2>1 DEF DeleteCouncil
  <2>3. NoOrphans'
    <3>1. \A d \in Councils \ {c} : Live(Database, d) => Live(Database, d)'
      BY <2>1 DEF Live, Database
    <3>2. \A s \in serves' : Live(Database, s[1])'
      BY <2>1, <3>1 DEF NoOrphans, Intact, Database
    <3>3. \A h \in Channels :
            channel'[h] # None => Live(Database, channel[h].council)'
      BY <2>1, <3>1 DEF NoOrphans, Intact, Database, ChannelRow
    <3>4. \A p \in Pps : pp'[p] # None => Live(Database, pp[p].council)'
      BY <2>1, <3>1 DEF NoOrphans, Intact, Database, PpRow
    <3> QED
      BY <2>1, <3>2, <3>3, <3>4 DEF NoOrphans, Intact, Database
  <2> QED
    BY <1>2, <2>2, <2>3
<1>4. ASSUME NEW h \in Channels, DeleteChannel(h) PROVE IInv'
  <2>1. (Database \in Tables)'
    BY <1>4 DEF DeleteChannel
  <2>2. NoOrphans'
    BY <1>4 DEF DeleteChannel, NoOrphans, Intact, Live, Database
  <2> QED
    BY <1>2, <2>1, <2>2
<1>5. ASSUME NEW p \in Pps, DeletePp(p) PROVE IInv'
  <2>1. (Database \in Tables)'
    BY <1>5 DEF DeletePp
  <2>2. NoOrphans'
    BY <1>5 DEF DeletePp, NoOrphans, Intact, Live, Database
  <2> QED
    BY <1>2, <2>1, <2>2
<1>6. ASSUME NEW p \in Pps, NEW row \in PpRow, UpdatePp(p, row) PROVE IInv'
  <2>1. (Database \in Tables)'
    BY <1>6 DEF UpdatePp
  <2>2. NoOrphans'
    BY <1>6 DEF UpdatePp, NoOrphans, Intact, Exists, Live, Database
  <2> QED
    BY <1>2, <2>1, <2>2
<1> QED
  BY <1>3, <1>4, <1>5, <1>6 DEF Statement

\* The councils found are those that serve what the call asks for.
LEMMA Found ==
  ASSUME NEW q \in Calls, ask[q] \in Asked
  PROVE  /\ Matching(ask[q]) = Serving(Wanted(ask[q]))
         /\ Serving(Wanted(ask[q])) =
              IF ask[q].kind = "prepare" /\ ask[q].told
              THEN Serving({ask[q].payer, ask[q].receiver})
              ELSE Serving({ask[q].receiver})
  BY DEF Matching, Serving, Wanted, FindByJurisdiction,
         FindByJurisdictionPair

\* What FindChannel and PickProvider write into a route, as plain records:
\* findChannelForAsset keeps the council and its channel, the provider query
\* adds the provider.
LEMMA SettleCouncil ==
  ASSUME NEW q \in Calls, NEW c \in Councils, NEW h \in ChannelRow,
         via \in [Calls -> Route],
         via' = [via EXCEPT ![q].council = c, ![q].channel = h]
  PROVE  /\ via' \in [Calls -> Route]
         /\ via'[q] = [council |-> c, channel |-> h, pp |-> via[q].pp]
<1> DEFINE rest == [council |-> c, channel |-> via[q].channel,
                    pp |-> via[q].pp]
           route == [council |-> c, channel |-> h, pp |-> via[q].pp]
<1>1. via' = [via EXCEPT ![q] = [via[q] EXCEPT !.council = c, !.channel = h]]
  OBVIOUS
<1>2. [via[q] EXCEPT !.council = c] = rest
  BY DEF Route
<1>3. [[via[q] EXCEPT !.council = c] EXCEPT !.channel = h]
        = [rest EXCEPT !.channel = h]
  BY <1>2
<1>4. [rest EXCEPT !.channel = h] = route
  OBVIOUS
<1>5. [via[q] EXCEPT !.council = c, !.channel = h] = route
  BY <1>3, <1>4
<1>6. route \in Route
  BY DEF Route
<1> QED
  BY <1>1, <1>5, <1>6

LEMMA SettleProvider ==
  ASSUME NEW q \in Calls, NEW p \in PpRow, via \in [Calls -> Route],
         via' = [via EXCEPT ![q].pp = p]
  PROVE  /\ via' \in [Calls -> Route]
         /\ via'[q] = [council |-> via[q].council,
                       channel |-> via[q].channel, pp |-> p]
<1> DEFINE route == [council |-> via[q].council,
                     channel |-> via[q].channel, pp |-> p]
<1>1. via' = [via EXCEPT ![q] = [via[q] EXCEPT !.pp = p]]
  OBVIOUS
<1>2. [via[q] EXCEPT !.pp = p] = route
  BY DEF Route
<1>3. route \in Route
  BY DEF Route
<1> QED
  BY <1>1, <1>2, <1>3

\* The queries of a call keep the invariant.
LEMMA CallSteps ==
  ASSUME IInv, NEW q \in Calls,
         (\E a \in Asked : Ask(q, a)) \/ CallStep(q)
  PROVE  IInv'
<1> USE TablesOK DEF IInv, TypeOK, Advance
<1>1. ASSUME NEW a \in Asked, Ask(q, a) PROVE IInv'
  <2>1. /\ leg[q] = "idle" /\ leg' = [leg EXCEPT ![q] = "councils"]
        /\ ask' = [ask EXCEPT ![q] = a]
        /\ UNCHANGED <<tables, admin, queue, via>> /\ Watch
    BY <1>1 DEF Ask
  <2>2. StateOK'
    BY <2>1 DEF StateOK, tables, admin, Reading
  <2>3. Routed(q)'
    BY <2>1 DEF Routed, Nowhere
  <2> QED
    BY <2>1, <2>2, <2>3, CallKeeps
<1>2. CASE FindCouncils(q)
  <2> DEFINE found == Matching(ask[q])
  <2>1. /\ leg[q] = "councils" /\ queue' = [queue EXCEPT ![q] = found]
        /\ leg' = [leg EXCEPT ![q] =
                     IF found = {} THEN "refused" ELSE "channel"]
        /\ UNCHANGED <<tables, admin, ask, via>> /\ Watch
    BY <1>2 DEF FindCouncils
  <2>2. ask[q] \in Asked
    BY <2>1 DEF Routed
  <2>3. found \subseteq Eligible(q) /\ found \subseteq Councils
    BY <2>1, <2>2, Found DEF Watched, Reading, Eligible, Serving
  <2>4. found = {} => ~served[q]
    BY <2>1, <2>2, Found DEF Watched, Reading, Servable
  <2> HIDE DEF found
  <2>5. StateOK'
    BY <2>1, <2>3 DEF StateOK, tables, admin, Reading, Over
  <2>6. Routed(q)'
    <3>1. Eligible(q) \subseteq Eligible(q)' /\
          (leg'[q] \notin Reading => served'[q] = served[q])
      BY <2>1, <2>5, WatchKeeps DEF Eligible
    <3> QED
      BY <2>1, <2>2, <2>3, <2>4, <3>1 DEF Routed, Reading
  <2> QED
    BY <2>1, <2>5, <2>6, CallKeeps
<1>3. CASE TryCouncil(q)
  <2>1. PICK c \in queue[q] :
          \/ \E h \in OpenChannels(c, ask[q].asset) :
               /\ via' = [via EXCEPT ![q].council = c,
                                     ![q].channel = channel[h]]
               /\ leg' = [leg EXCEPT ![q] =
                    IF ask[q].kind = "balance" THEN "done" ELSE "provider"]
               /\ UNCHANGED queue
          \/ /\ OpenChannels(c, ask[q].asset) = {}
             /\ queue' = [queue EXCEPT ![q] = @ \ {c}]
             /\ leg' = [leg EXCEPT ![q] =
                  IF queue[q] = {c} THEN "refused" ELSE "channel"]
             /\ UNCHANGED via
    BY <1>3 DEF TryCouncil
  <2>2. /\ leg[q] = "channel" /\ UNCHANGED <<tables, admin, ask>> /\ Watch
        /\ ask[q] \in Asked /\ queue[q] \subseteq Eligible(q)
        /\ c \in Councils /\ c # None
    BY <1>3, NoneAssumption DEF TryCouncil, Routed
  <2>3. CASE \E h \in OpenChannels(c, ask[q].asset) :
               /\ via' = [via EXCEPT ![q].council = c,
                                     ![q].channel = channel[h]]
               /\ leg' = [leg EXCEPT ![q] =
                    IF ask[q].kind = "balance" THEN "done" ELSE "provider"]
               /\ UNCHANGED queue
    <3>1. PICK h \in OpenChannels(c, ask[q].asset) :
            /\ via' = [via EXCEPT ![q].council = c,
                                  ![q].channel = channel[h]]
            /\ leg' = [leg EXCEPT ![q] =
                 IF ask[q].kind = "balance" THEN "done" ELSE "provider"]
            /\ UNCHANGED queue
      BY <2>3
    <3>2. /\ channel[h] \in ChannelRow /\ channel[h].council = c
          /\ channel[h].asset = ask[q].asset /\ channel[h].active
      BY DEF OpenChannels
    <3>3. via' \in [Calls -> Route] /\ via'[q].council = c
          /\ via'[q].channel = channel[h]
      <4> DEFINE row == channel[h]
      <4>1. /\ via \in [Calls -> Route] /\ c \in Councils
            /\ row \in ChannelRow
            /\ via' = [via EXCEPT ![q].council = c, ![q].channel = row]
        BY <2>2, <3>1, <3>2
      <4> HIDE DEF row
      <4>2. /\ via' \in [Calls -> Route]
            /\ via'[q] = [council |-> c, channel |-> row, pp |-> via[q].pp]
        BY ONLY <4>1, q \in Calls, SettleCouncil
      <4> QED
        BY <4>2 DEF row
    <3>4. StateOK'
      BY <2>2, <3>1, <3>3 DEF StateOK, tables, admin, Reading, Over
    <3>5. Eligible(q) \subseteq Eligible(q)'
      BY <2>2, <3>4, WatchKeeps DEF Eligible
    <3>6. Routed(q)'
      BY <2>2, <3>1, <3>2, <3>3, <3>5 DEF Routed
    <3> QED
      BY <2>2, <3>1, <3>4, <3>6, CallKeeps
  <2>4. CASE /\ OpenChannels(c, ask[q].asset) = {}
             /\ queue' = [queue EXCEPT ![q] = @ \ {c}]
             /\ leg' = [leg EXCEPT ![q] =
                  IF queue[q] = {c} THEN "refused" ELSE "channel"]
             /\ UNCHANGED via
    <3>1. StateOK'
      BY <2>2, <2>4 DEF StateOK, tables, admin, Reading, Over
    <3>2. /\ Eligible(q) \subseteq Eligible(q)'
          /\ leg'[q] \notin Reading => served'[q] = served[q]
      BY <2>2, <3>1, WatchKeeps DEF Eligible
    <3>3. ~served[q]
      BY <2>1, <2>2, <2>4 DEF Watched, Reading, Servable
    <3>4. Routed(q)'
      BY <2>2, <2>4, <3>2, <3>3 DEF Routed, Reading
    <3> QED
      BY <2>2, <2>4, <3>1, <3>4, CallKeeps
  <2> QED
    BY <2>1, <2>3, <2>4
<1>4. CASE PickProvider(q)
  <2>1. /\ leg[q] = "provider"
        /\ UNCHANGED <<tables, admin, ask, queue>> /\ Watch
        /\ ask[q] \in Asked /\ via[q].council \in Councils
        /\ ask[q].kind # "balance" /\ via[q].council # None
    BY <1>4, NoneAssumption DEF PickProvider, Routed
  <2>2. ASSUME NEW p \in ActivePps(via[q].council),
               via' = [via EXCEPT ![q].pp = pp[p]],
               leg' = [leg EXCEPT ![q] = "done"]
        PROVE  IInv'
    <3>1. /\ pp[p] \in PpRow /\ pp[p].council = via[q].council
          /\ pp[p].active
      BY DEF ActivePps
    <3>2. /\ via' \in [Calls -> Route] /\ via'[q].pp = pp[p]
          /\ via'[q].council = via[q].council
          /\ via'[q].channel = via[q].channel
      <4>1. via \in [Calls -> Route]
        OBVIOUS
      <4>2. /\ via' \in [Calls -> Route]
            /\ via'[q] = [council |-> via[q].council,
                          channel |-> via[q].channel, pp |-> pp[p]]
        BY <2>2, <3>1, <4>1, SettleProvider
      <4> QED
        BY <4>2
    <3>3. StateOK'
      BY <2>1, <2>2, <3>2 DEF StateOK, tables, admin, Over
    <3>4. Eligible(q) \subseteq Eligible(q)'
      BY <2>1, <3>3, WatchKeeps DEF Eligible
    <3>5. Routed(q)'
      BY <2>1, <2>2, <3>1, <3>2, <3>4 DEF Routed
    <3> QED
      BY <2>1, <2>2, <3>3, <3>5, CallKeeps
  <2>3. CASE /\ ActivePps(via[q].council) = {}
             /\ leg' = [leg EXCEPT ![q] = "refused"]
             /\ UNCHANGED via
    <3>1. StateOK'
      BY <2>1, <2>3 DEF StateOK, tables, admin, Over
    <3>2. /\ Eligible(q) \subseteq Eligible(q)'
          /\ leg'[q] \notin Reading => served'[q] = served[q]
      BY <2>1, <3>1, WatchKeeps DEF Eligible
    <3>3. ~served[q]
      BY <2>1, <2>3 DEF Watched, Reading, Servable, ActivePps
    <3>4. Routed(q)'
      BY <2>1, <2>3, <3>2, <3>3 DEF Routed, Reading
    <3> QED
      BY <2>1, <2>3, <3>1, <3>4, CallKeeps
  <2> QED
    BY <1>4, <2>2, <2>3 DEF PickProvider
<1>5. CASE Throw(q)
  <2>1. /\ leg[q] \in Reading /\ leg' = [leg EXCEPT ![q] = "failed"]
        /\ UNCHANGED <<tables, admin, ask, queue, via>> /\ Watch
    BY <1>5 DEF Throw
  <2>2. StateOK'
    BY <2>1 DEF StateOK, tables, admin, Over
  <2>3. Eligible(q) \subseteq Eligible(q)'
    BY <2>1, <2>2, WatchKeeps DEF Eligible
  <2>4. Routed(q)'
    BY <2>1, <2>3 DEF Routed, Reading
  <2> QED
    BY <2>1, <2>2, <2>4, CallKeeps
<1> QED
  BY <1>1, <1>2, <1>3, <1>4, <1>5 DEF CallStep

\* A crash loses the requests in flight.
LEMMA CrashStep == IInv /\ Crash => IInv'
<1> SUFFICES ASSUME IInv, Crash PROVE IInv'
  OBVIOUS
<1> USE TablesOK DEF IInv, TypeOK, Crash
<1>1. StateOK'
  BY DEF StateOK, tables, Over
<1>2. NoOrphans'
  BY DEF NoOrphans, Intact, Live, Database, tables
<1>3. \A o \in Admins : Prepared(o)'
  BY DEF Prepared, Writing
<1>4. ASSUME NEW q \in Calls PROVE Routed(q)' /\ Watched(q)'
  <2>1. /\ Watched(q)'
        /\ Eligible(q) \subseteq Eligible(q)'
        /\ leg'[q] \notin Reading => served'[q] = served[q]
    BY <1>1, WatchKeeps DEF Eligible
  <2> QED
    BY <2>1 DEF Routed, Reading, Over
<1> QED
  BY <1>1, <1>2, <1>3, <1>4, WatchKeeps

\* A server just started has asked nothing.
LEMMA InvInit == Init => IInv
<1> SUFFICES ASSUME Init PROVE IInv
  OBVIOUS
<1>1. PICK db \in Stored :
        /\ council = db.council /\ serves = db.serves
        /\ channel = db.channel /\ pp = db.pp
  BY DEF Init
<1>2. db \in Tables /\ Intact(db)
  BY StoredAssumption
<1>3. Database \in Tables /\ NoOrphans
  BY <1>1, <1>2, TablesOK DEF Tables, NoOrphans, Intact, Live, Database
<1>4. TypeOK
  BY <1>3 DEF Init, TypeOK, Nowhere, Route, Over
<1>5. \A o \in Admins : Prepared(o)
  BY DEF Init, Prepared, Writing
<1>6. \A q \in Calls : Routed(q) /\ Watched(q)
  BY DEF Init, Routed, Watched, Reading, Nowhere
<1> QED
  BY <1>3, <1>4, <1>5, <1>6 DEF IInv

\* Every step keeps the invariant.
LEMMA InvStep == IInv /\ [Next]_vars => IInv'
<1> SUFFICES ASSUME IInv, [Next]_vars PROVE IInv'
  OBVIOUS
<1>1. CASE UNCHANGED vars
  BY <1>1
  DEF IInv, TypeOK, NoOrphans, Prepared, Routed, Watched, Eligible, Servable,
      OpenChannels, Serving, Wanted, Intact, Live, Database, vars, tables,
      admin, routing, history
<1>2. CASE Next
  BY <1>2, AdminSteps, CallSteps, Statements, CrashStep DEF Next
<1> QED
  BY <1>1, <1>2

-----------------------------------------------------------------------------

\* The invariant holds in every state.
THEOREM Invariance == Spec => []IInv
  BY InvInit, InvStep, PTL DEF Spec

\* Types of the tables, the requests and the routes.
THEOREM TypeCorrect == Spec => []TypeOK
<1>1. IInv => TypeOK
  BY DEF IInv
<1> QED
  BY <1>1, Invariance, PTL

\* No jurisdiction, channel or provider is without its council.
THEOREM NothingOrphaned == Spec => []NoOrphans
<1>1. IInv => NoOrphans
  BY DEF IInv
<1> QED
  BY <1>1, Invariance, PTL

\* A council is chosen only if it served all that was asked at one moment.
THEOREM RoutesServeAtOnce == Spec => []ServedAtOnce
<1>1. IInv => ServedAtOnce
  BY DEF IInv, Routed, Eligible, ServedAtOnce
<1> QED
  BY <1>1, Invariance, PTL

\* The channel and the provider of a route belong to its council.
THEOREM RoutesAreOfOnePiece == Spec => []RouteOfOnePiece
<1>1. IInv => RouteOfOnePiece
  BY DEF IInv, Routed, RouteOfOnePiece
<1> QED
  BY <1>1, Invariance, PTL

\* A call that could be served all along is not refused.
THEOREM ServableCallsAreServed == Spec => []ServableIsNotRefused
<1>1. IInv => ServableIsNotRefused
  BY DEF IInv, Routed, ServableIsNotRefused
<1> QED
  BY <1>1, Invariance, PTL
=============================================================================
