--------------------------- MODULE AccountsProofs ---------------------------
(***************************************************************************)
(* Theorems about Accounts, for every value of its constants: any number   *)
(* of requests and wallets, any bodies a handler may be sent.              *)
(*                                                                         *)
(* The refinement rests on what a handler knows where it is parked (Knows):*)
(* whoever is about to write has looked, and found what it needs.          *)
(***************************************************************************)
EXTENDS Accounts, TLAPS

\* What a handler knows at each of its awaits, and what it has not done yet.
Knows(r) ==
  /\ pc[r] = "idle" <=> req[r] = None
  /\ pc[r] \in Parked \cup {"idle"} => answer[r] = None
  /\ pc[r] \in {"touch", "reply"} => result[r] # None
  /\ pc[r] \in {"idle", "parse", "find", "insert", "update", "delete"} =>
       result[r] = None
  /\ pc[r] \in {"idle", "find", "delete"} => found[r] = Unread
  /\ pc[r] = "delete" => req[r].op = "delete"
  /\ pc[r] = "find" =>
       /\ req[r].op # "delete"
       /\ req[r].op \in {"post", "opex", "delegation"} => req[r].sets # {}
  /\ pc[r] = "parse" =>
       \/ req[r].op \in {"post", "opex", "delegation"} /\ found[r] = Unread
       \/ req[r].op = "patch" /\ found[r] \in Row
  /\ pc[r] = "insert" =>
       req[r].op = "post" /\ req[r].sets # {} /\ found[r] = None
  /\ pc[r] = "update" =>
       /\ req[r].op \in {"patch", "opex", "delegation"} /\ req[r].sets # {}
       /\ found[r] \in Row

AInv == TypeOK /\ \A r \in Requests : Knows(r)

-----------------------------------------------------------------------------
(* The values that handlers answer with and write. *)

\* What is answered is a reply.
LEMMA Saying ==
  ASSUME NEW status \in Statuses, NEW data \in Data \cup {None}
  PROVE  Says(status, data) \in Replies /\ Says(status, data) # None
  BY NoReplyAssumption DEF Says, Replies

\* What is shown of a row is data of a reply.
LEMMA Showing ==
  ASSUME NEW row \in Row
  PROVE  /\ formatAccount(row) \in Data
         /\ formatPublic(row) \in Data
         /\ Only({"opexPublicKey"}, row) \in Data
<1>1. /\ formatAccount(row) \in [OwnersColumns -> Values]
      /\ formatPublic(row) \in [PublicColumns -> Values]
      /\ Only({"opexPublicKey"}, row) \in [{"opexPublicKey"} -> Values]
  BY DEF formatAccount, formatPublic, Only, Row, Columns, OwnersColumns,
         PublicColumns
<1> QED
  BY <1>1 DEF Data

\* Also the answer of a registration that updated nothing.
LEMMA ShowingOpex ==
  ASSUME NEW r \in Requests
  PROVE  [c \in {"opexPublicKey"} |-> r] \in Data
<1>1. [c \in {"opexPublicKey"} |-> r] \in [{"opexPublicKey"} -> Values]
  BY DEF Values
<1> QED
  BY <1>1 DEF Data

\* A row edited by a request is a row.
LEMMA Writing ==
  ASSUME NEW r \in Requests, NEW row \in Row
  PROVE  Written(r, row) \in Row
  BY DEF Written, Row, Values

\* The row that an INSERT starts from.
LEMMA Emptiness == [c \in Columns |-> None] \in Row
  BY DEF Row, Values

\* An account is a row or none, and never both.
LEMMA Accounting ==
  ASSUME TypeOK, NEW r \in Requests, req[r] \in Query
  PROVE  /\ req[r].wallet \in Wallets
         /\ account[req[r].wallet] \in Row \cup {None}
         /\ None \notin Row /\ Unread \notin Row \cup {None}
  BY AccountsAssumption DEF TypeOK, Query
-----------------------------------------------------------------------------
(* The invariant. *)

\* A fresh server knows nothing.
LEMMA AInvInit == Init => AInv
<1> SUFFICES ASSUME Init PROVE AInv
  OBVIOUS
<1>1. TypeOK
  BY AccountsAssumption DEF Init, TypeOK
<1>2. ASSUME NEW r \in Requests PROVE Knows(r)
  BY <1>2 DEF Init, Knows
<1> QED
  BY <1>1, <1>2 DEF AInv

\* A step of one request touches nothing of the others.
LEMMA Alone ==
  ASSUME TypeOK, NEW r \in Requests, Step(r), NEW q \in Requests, q # r
  PROVE  /\ pc'[q] = pc[q] /\ req'[q] = req[q] /\ found'[q] = found[q]
         /\ result'[q] = result[q] /\ answer'[q] = answer[q]
<1>1. CASE Receive(r) \/ ParseBody(r)
  BY <1>1 DEF Receive, ParseBody, Settle, GoTo, TypeOK
<1>2. CASE Find(r)
  BY <1>2 DEF Find, FindMissing, FindPresent, Settle, GoTo, TypeOK
<1>3. CASE UpdateLastSeen(r) \/ Create(r) \/ Delete(r)
  BY <1>3 DEF UpdateLastSeen, Create, Delete, Settle, GoTo, TypeOK
<1>4. CASE Update(r)
  BY <1>4 DEF Update, Settle, GoTo, TypeOK
<1>5. CASE Reply(r) \/ Throw(r)
  BY <1>5 DEF Reply, Throw, GoTo, TypeOK
<1> QED
  BY <1>1, <1>2, <1>3, <1>4, <1>5 DEF Step

\* The request that takes a step knows enough where it gets to.
LEMMA Itself ==
  ASSUME TypeOK, NEW r \in Requests, Knows(r), Step(r)
  PROVE  TypeOK' /\ Knows(r)'
<1> USE DEF Parked
<1>1. CASE Receive(r)
  <2>1. PICK w \in Wallets, o \in Offered :
          /\ req' = [req EXCEPT ![r] =
                       [op |-> o.op, wallet |-> w, sets |-> o.sets]]
          /\ GoTo(r, First(o.op))
    BY <1>1 DEF Receive
  <2>2. /\ pc[r] = "idle"
        /\ UNCHANGED <<account, lastSeenAt, found, result, answer>>
    BY <1>1 DEF Receive, database
  <2>3. /\ o.op \in Ops /\ o.sets \in SUBSET Columns
        /\ o.sets \in Bodies(o.op)
    BY OfferedAssumption
  <2>4. [op |-> o.op, wallet |-> w, sets |-> o.sets] \in Query
    BY <2>3 DEF Query
  <2>5. First(o.op) \in {"parse", "find", "delete"}
    BY <2>3 DEF First
  <2>6. TypeOK'
    BY <2>1, <2>2, <2>4, <2>5 DEF GoTo, TypeOK
  <2>7. /\ req'[r] = [op |-> o.op, wallet |-> w, sets |-> o.sets]
        /\ req'[r] # None /\ pc'[r] = First(o.op)
    BY <2>1, <2>4, NoReplyAssumption DEF GoTo, TypeOK
  <2>8. req'[r].op = o.op /\ req'[r].sets = o.sets
    BY <2>7
  <2>9. Knows(r)'
    BY <2>2, <2>3, <2>5, <2>7, <2>8 DEF Knows, First, Ops
  <2> QED
    BY <2>6, <2>9
<1>2. CASE ParseBody(r)
  <2>1. CASE req[r].sets = {}
    <3>1. Says("BadRequest", None) \in Replies \ {None}
      BY Saying DEF Statuses
    <3> QED
      BY <1>2, <2>1, <3>1
      DEF ParseBody, Settle, GoTo, database, TypeOK, Knows
  <2>2. CASE req[r].sets # {}
    BY <1>2, <2>2 DEF ParseBody, Settle, GoTo, database, TypeOK, Knows
  <2> QED
    BY <2>1, <2>2
<1>3. CASE Find(r)
  <2> DEFINE row == account[req[r].wallet]
  <2>1. /\ pc[r] = "find" /\ found' = [found EXCEPT ![r] = row]
        /\ \/ row = None /\ FindMissing(r)
           \/ row # None /\ FindPresent(r, row)
        /\ UNCHANGED <<account, lastSeenAt, req, answer>>
    BY <1>3 DEF Find, database
  <2>2. req[r] \in Query /\ row \in Row \cup {None} /\ None \notin Row
    BY <2>1, Accounting DEF Knows, TypeOK
  <2>3. PICK to \in Replies \cup {None} :
          /\ result' = [result EXCEPT ![r] = to]
          /\ \/ pc' = [pc EXCEPT ![r] = "reply"] /\ to # None
             \/ /\ pc' = [pc EXCEPT ![r] = "touch"] /\ to # None
             \/ /\ pc' = [pc EXCEPT ![r] = "insert"] /\ to = None
                /\ row = None /\ req[r].op = "post"
             \/ /\ pc' = [pc EXCEPT ![r] = "parse"] /\ to = None
                /\ row # None /\ req[r].op = "patch"
             \/ /\ pc' = [pc EXCEPT ![r] = "update"] /\ to = None
                /\ row # None /\ req[r].op \in {"opex", "delegation"}
    <3>1. result[r] = None /\ result \in [Requests -> Replies \cup {None}]
      BY <2>1 DEF Knows, TypeOK
    <3>2. result' = result => result' = [result EXCEPT ![r] = None]
      BY <3>1
    <3>3. CASE row = None /\ FindMissing(r)
      BY <3>2, <3>3, Saying DEF FindMissing, Settle, GoTo, Statuses
    <3>4. CASE row # None /\ FindPresent(r, row)
      <4>1. formatAccount(row) \in Data /\ formatPublic(row) \in Data
        BY <2>2, <3>4, Showing
      <4> HIDE DEF row
      <4>2. /\ Says("OK", formatAccount(row)) \in Replies \ {None}
            /\ Says("OK", formatPublic(row)) \in Replies \ {None}
            /\ Says("ServiceUnavailable", None) \in Replies \ {None}
        BY <4>1, Saying DEF Statuses
      <4> QED
        BY <3>2, <3>4, <4>2 DEF FindPresent, Settle, GoTo
    <3> QED
      BY <2>1, <3>3, <3>4
  <2> HIDE DEF row
  <2>4. TypeOK'
    BY <2>1, <2>2, <2>3 DEF TypeOK
  <2>5. Knows(r)'
    BY <2>1, <2>2, <2>3 DEF TypeOK, Knows
  <2> QED
    BY <2>4, <2>5
<1>4. CASE UpdateLastSeen(r)
  <2>1. req[r] \in Query
    BY <1>4 DEF UpdateLastSeen, Knows, TypeOK
  <2>2. req[r].wallet \in Wallets
    BY <2>1 DEF Query
  <2> QED
    BY <1>4, <2>2 DEF UpdateLastSeen, GoTo, TypeOK, Knows
<1>5. CASE Create(r)
  <2> DEFINE w == req[r].wallet
             row == Written(r, [c \in Columns |-> None])
  <2>1. pc[r] = "insert"
    BY <1>5 DEF Create
  <2>2. w \in Wallets /\ row \in Row
    BY <2>1, Accounting, Writing, Emptiness DEF Knows, TypeOK
  <2>3. PICK to \in Replies \ {None} :
          /\ result' = [result EXCEPT ![r] = to]
          /\ pc' = [pc EXCEPT ![r] = "reply"]
    <3>1. /\ Says("Created", formatAccount(row)) \in Replies \ {None}
          /\ Says("Torn", None) \in Replies \ {None}
      BY <2>2, Saying, Showing DEF Statuses
    <3> QED
      BY <1>5, <3>1 DEF Create, Settle, GoTo
  <2>4. /\ account' \in [Wallets -> Row \cup {None}]
        /\ lastSeenAt' \in [Wallets -> Requests \cup {None}]
        /\ UNCHANGED <<req, found, answer>>
    BY <1>5, <2>2 DEF Create, database, TypeOK
  <2> HIDE DEF w, row
  <2> QED
    BY <2>1, <2>3, <2>4 DEF TypeOK, Knows
<1>6. CASE Update(r)
  <2> DEFINE w == req[r].wallet
             row == Written(r, account[w])
  <2>1. pc[r] = "update"
    BY <1>6 DEF Update
  <2>2. w \in Wallets /\ account[w] \in Row \cup {None}
    BY <2>1, Accounting DEF Knows, TypeOK
  <2>3. account[w] # None => row \in Row
    BY <2>2, Writing
  <2>4. PICK to \in Replies \ {None} :
          /\ result' = [result EXCEPT ![r] = to]
          /\ pc' = [pc EXCEPT ![r] = "reply"]
    <3>1. /\ Says("OK", [c \in {"opexPublicKey"} |-> r]) \in Replies \ {None}
          /\ Says("Torn", None) \in Replies \ {None}
          /\ Says("NoContent", None) \in Replies \ {None}
      BY Saying, ShowingOpex DEF Statuses
    <3>2. account[w] # None =>
            /\ Says("OK", formatAccount(row)) \in Replies \ {None}
            /\ Says("OK", Only({"opexPublicKey"}, row)) \in Replies \ {None}
      BY <2>3, Saying, Showing DEF Statuses
    <3> QED
      BY <1>6, <3>1, <3>2 DEF Update, Settle, GoTo
  <2>5. /\ account' \in [Wallets -> Row \cup {None}]
        /\ UNCHANGED <<lastSeenAt, req, found, answer>>
    BY <1>6, <2>2, <2>3 DEF Update, TypeOK
  <2> HIDE DEF w, row
  <2> QED
    BY <2>1, <2>4, <2>5 DEF TypeOK, Knows
<1>7. CASE Delete(r)
  <2>1. pc[r] = "delete"
    BY <1>7 DEF Delete
  <2>2. req[r].wallet \in Wallets
    BY <2>1, Accounting DEF Knows, TypeOK
  <2>3. PICK to \in Replies \ {None} :
          /\ result' = [result EXCEPT ![r] = to]
          /\ pc' = [pc EXCEPT ![r] = "reply"]
    <3>1. /\ Says("NoContent", None) \in Replies \ {None}
          /\ Says("NotFound", None) \in Replies \ {None}
      BY Saying DEF Statuses
    <3> QED
      BY <1>7, <3>1 DEF Delete, Settle, GoTo
  <2>4. /\ account' \in [Wallets -> Row \cup {None}]
        /\ lastSeenAt' \in [Wallets -> Requests \cup {None}]
        /\ UNCHANGED <<req, found, answer>>
    BY <1>7, <2>2 DEF Delete, database, TypeOK
  <2> QED
    BY <2>1, <2>3, <2>4 DEF TypeOK, Knows
<1>8. CASE Reply(r)
  BY <1>8 DEF Reply, GoTo, database, TypeOK, Knows
<1>9. CASE Throw(r)
  <2>1. Says("error", None) \in Replies \ {None}
    BY Saying DEF Statuses
  <2> QED
    BY <1>9, <2>1 DEF Throw, GoTo, database, TypeOK, Knows
<1> QED
  BY <1>1, <1>2, <1>3, <1>4, <1>5, <1>6, <1>7, <1>8, <1>9 DEF Step

\* Every step keeps the invariant, also the death of the process.
LEMMA AInvStep == AInv /\ [Next]_vars => AInv'
<1> SUFFICES ASSUME AInv, [Next]_vars PROVE AInv'
  OBVIOUS
<1>1. ASSUME NEW r \in Requests, Step(r) PROVE AInv'
  <2>1. ASSUME NEW q \in Requests, q # r PROVE Knows(q)'
    BY <1>1, <2>1, Alone DEF AInv, Knows
  <2> QED
    BY <1>1, <2>1, Itself DEF AInv
<1>2. CASE Crash
  <2>1. TypeOK'
    BY <1>2 DEF Crash, database, AInv, TypeOK, Parked
  <2>2. ASSUME NEW r \in Requests PROVE Knows(r)'
    BY <1>2, <2>2 DEF Crash, database, AInv, TypeOK, Knows, Parked
  <2> QED
    BY <2>1, <2>2 DEF AInv
<1>3. CASE UNCHANGED vars
  BY <1>3 DEF vars, database, AInv, TypeOK, Knows
<1> QED
  BY <1>1, <1>2, <1>3 DEF Next

\* The invariant holds in every state: what a handler knows of its account
\* fits the await it is parked at.
THEOREM Invariance == Spec => []AInv
<1> QED
  BY AInvInit, AInvStep, PTL DEF Spec

\* The database holds rows and no halves of them, and no answer shows more of
\* one than its reader may see.
THEOREM TypeCorrect == Spec => []TypeOK
<1>1. AInv => TypeOK
  BY DEF AInv
<1> QED
  BY <1>1, Invariance, PTL

-----------------------------------------------------------------------------
(* The refinement. *)

Minds == [q \in Requests |-> Mind(q)]

\* Only the request that takes a step changes its mind.
LEMMA OneMind ==
  ASSUME AInv, NEW r \in Requests, Step(r)
  PROVE  Minds' = [Minds EXCEPT ![r] = Mind(r)']
<1>1. ASSUME NEW q \in Requests, q # r PROVE Mind(q)' = Mind(q)
  BY <1>1, Alone DEF AInv, Mind
<1> QED
  BY <1>1 DEF Minds

\* An undecided request knows what it found; a decided one its result.
LEMMA Deciding ==
  ASSUME AInv, NEW r \in Requests
  PROVE  /\ result[r] = None =>
              /\ Mind(r).status \in Book!Undecided
              /\ found[r] = None => Mind(r) = Says("absent", None)
              /\ found[r] = Unread => Mind(r) = Says("unread", None)
              /\ found[r] \in Row => Mind(r) = Says("present", None)
         /\ result[r] # None =>
              Mind(r) = result[r] /\ Mind(r).status \notin Book!Undecided
<1>1. None \notin Row /\ Unread \notin Row \cup {None}
  BY AccountsAssumption
<1>2. result[r] # None => result[r].status \in Statuses
  BY DEF AInv, TypeOK, Replies
<1> QED
  BY <1>1, <1>2 DEF Mind, Says, Book!Undecided, Statuses

\* What a step decides for the account of its wallet it decides at once.
LEMMA Decided ==
  ASSUME AInv, NEW r \in Requests, Step(r), NEW after, NEW to,
         result[r] = None,
         account' = [account EXCEPT ![req[r].wallet] = after],
         result' = [result EXCEPT ![r] = to], to # None,
         UNCHANGED <<req, answer>>
  PROVE  Book!Decide(r, after, to)
<1>1. Mind(r)' = to
  BY DEF AInv, TypeOK, Mind
<1>2. Minds[r].status \in Book!Undecided
  BY Deciding DEF Minds
<1>3. Minds' = [Minds EXCEPT ![r] = to]
  BY <1>1, OneMind
<1> QED
  BY <1>2, <1>3 DEF Book!Decide, Minds

\* Both modules write and show a row in the same way.
LEMMA SameWords ==
  ASSUME NEW r \in Requests, NEW row
  PROVE  /\ Book!Written(r, row) = Written(r, row)
         /\ Book!Blank = [c \in Columns |-> None]
         /\ Book!Shown(row) = formatAccount(row)
         /\ Book!ShownToAll(row) = formatPublic(row)
         /\ Book!Only({"opexPublicKey"}, row) = Only({"opexPublicKey"}, row)
         /\ \A status, data : Book!Says(status, data) = Says(status, data)
  BY DEF Book!Written, Written, Book!Blank, Book!Columns, Columns,
         Book!Shown, Book!ShownToAll, formatAccount, formatPublic,
         Book!Only, Only, OwnersColumns, PublicColumns, Book!Says, Says

\* Every step of a request is a step of the book, or none.
LEMMA RefinesStep ==
  ASSUME AInv, NEW r \in Requests, Step(r)
  PROVE  [Book!Next]_(Book!vars)
<1> DEFINE w == req[r].wallet
<1> SUFFICES ASSUME ~UNCHANGED Book!vars
             PROVE  Book!Next
  OBVIOUS
<1>0. Knows(r) /\ TypeOK
  BY DEF AInv
<1>1. CASE Receive(r)
  <2>1. /\ req[r] = None /\ UNCHANGED <<account, found, result, answer>>
        /\ req' = [req EXCEPT ![r] = req'[r]]
    BY <1>0, <1>1 DEF Receive, database, Knows, TypeOK
  <2>2. Minds' = Minds
    BY <2>1 DEF Minds, Mind
  <2>3. Book!Ask(r)
    BY <2>1, <2>2 DEF Book!Ask, Minds
  <2> QED
    BY <2>3 DEF Book!Next
<1> SUFFICES ASSUME req[r] # None, ~Receive(r)
             PROVE  \/ Book!Look(r) \/ Book!Refuse(r) \/ Book!Absent(r)
                    \/ Book!Present(r) \/ Book!Torn(r) \/ Book!Tell(r)
                    \/ Book!Fail(r)
  <2>1. ~Receive(r) => pc[r] # "idle"
    BY DEF Step, Receive, ParseBody, Find, UpdateLastSeen, Create, Update,
           Delete, Reply, Throw, Parked
  <2> QED
    BY <1>1, <2>1, <1>0 DEF Book!Next, Knows
<1>a. req[r] \in Query
  BY <1>0 DEF TypeOK
<1>b. /\ w \in Wallets /\ account[w] \in Row \cup {None}
      /\ None \notin Row /\ Unread \notin Row \cup {None}
  BY <1>0, <1>a, Accounting
<1>c. account = [account EXCEPT ![w] = account[w]]
  BY <1>0, <1>b DEF TypeOK
<1>2. CASE ParseBody(r)
  <2>1. /\ pc[r] = "parse" /\ UNCHANGED <<account, req, found, answer>>
        /\ result[r] = None
    BY <1>0, <1>2 DEF ParseBody, database, Knows
  <2>2. CASE req[r].sets = {}
    <3>1. Says("BadRequest", None) # None
      BY Saying DEF Statuses
    <3>2. result' = [result EXCEPT ![r] = Says("BadRequest", None)]
      BY <1>2, <2>2 DEF ParseBody, Settle
    <3>3. Book!Decide(r, account[w], Says("BadRequest", None))
      BY <2>1, <3>1, <3>2, <1>c, Decided
    <3>4. Book!Refuse(r)
      BY <1>0, <2>1, <2>2, <3>3, SameWords
      DEF Book!Refuse, Book!Malformed, Knows
    <3> QED
      BY <3>4
  <2>3. CASE req[r].sets # {}
    <3>1. UNCHANGED result
      BY <1>2, <2>3 DEF ParseBody
    <3>2. UNCHANGED Book!vars
      BY <2>1, <3>1 DEF Book!vars, Mind
    <3> QED
      BY <3>2
  <2> QED
    BY <2>2, <2>3
<1>4. CASE UpdateLastSeen(r)
  <2>1. UNCHANGED Book!vars
    BY <1>4 DEF UpdateLastSeen, Book!vars, Mind
  <2> QED
    BY <2>1
<1>8. CASE Reply(r)
  <2>1. /\ result[r] # None /\ answer[r] = None
        /\ answer' = [answer EXCEPT ![r] = result[r]]
        /\ UNCHANGED <<account, req, found, result>>
    BY <1>0, <1>8 DEF Reply, Knows, Parked, database
  <2>2. Minds' = Minds /\ Minds[r] = result[r]
        /\ Minds[r].status \notin Book!Undecided
    BY <2>1, Deciding DEF Minds, Mind
  <2>3. Book!Tell(r)
    BY <2>1, <2>2 DEF Book!Tell, Minds
  <2> QED
    BY <2>3
<1>9. CASE Throw(r)
  <2>1. /\ answer[r] = None
        /\ answer' = [answer EXCEPT ![r] = Says("error", None)]
        /\ UNCHANGED <<account, req, found, result>>
    BY <1>0, <1>9 DEF Throw, Knows, database
  <2>2. Minds' = Minds
    BY <2>1 DEF Minds, Mind
  <2>3. Book!Fail(r)
    BY <2>1, <2>2, SameWords DEF Book!Fail, Minds
  <2> QED
    BY <2>3
<1>3. CASE Find(r)
  <2> DEFINE row == account[w]
  <2>1. /\ pc[r] = "find" /\ found' = [found EXCEPT ![r] = row]
        /\ result[r] = None /\ found[r] = Unread
        /\ UNCHANGED <<account, req, answer>>
    BY <1>0, <1>3 DEF Find, database, Knows
  <2>2. ASSUME NEW to, to # None, result' = [result EXCEPT ![r] = to]
        PROVE  Book!Decide(r, row, to)
    BY <2>1, <2>2, <1>c, Decided
  <2>3. CASE row = None /\ FindMissing(r)
    <3>1. CASE req[r].op = "post"
      <4>1. UNCHANGED result
        BY <2>3, <3>1 DEF FindMissing
      <4>2. Mind(r)' = Says("absent", None)
        BY <1>0, <1>b, <2>1, <2>3, <4>1 DEF Mind, TypeOK
      <4>3. Minds' = [Minds EXCEPT ![r] = Says("absent", None)]
        BY <4>2, OneMind
      <4>4. Minds[r].status = "unread"
        BY <2>1, Deciding DEF Minds, Says
      <4>5. Book!Says(IF account[w] = None THEN "absent" ELSE "present", None)
            = Says("absent", None)
        BY <2>3 DEF Book!Says, Says
      <4>6. Book!Look(r)
        BY <2>1, <4>3, <4>4, <4>5 DEF Book!Look, Minds
      <4> QED
        BY <4>6
    <3>2. CASE req[r].op # "post"
      <4>1. result' = [result EXCEPT ![r] = Says("NotFound", None)]
        BY <2>3, <3>2 DEF FindMissing, Settle
      <4>2. Book!Decide(r, None, Says("NotFound", None))
        BY <2>2, <2>3, <4>1, Saying DEF Statuses
      <4>3. Book!Absent(r)
        BY <2>3, <3>2, <4>2, SameWords DEF Book!Absent
      <4> QED
        BY <4>3
    <3> QED
      BY <3>1, <3>2
  <2>4. CASE row # None /\ FindPresent(r, row)
    <3>0. row \in Row
      BY <1>b, <2>4
    <3>1. CASE req[r].op \in {"post", "get"}
      <4>1. result' = [result EXCEPT ![r] = Says("OK", formatAccount(row))]
        BY <2>4, <3>1 DEF FindPresent
      <4>2. Book!Decide(r, row, Says("OK", formatAccount(row)))
        BY <2>2, <3>0, <4>1, Saying, Showing DEF Statuses
      <4>3. ~Book!Malformed(r)
        BY <1>0, <2>1, <3>1 DEF Book!Malformed, Knows
      <4>4. Book!Present(r)
        BY <2>4, <3>1, <4>2, <4>3, SameWords DEF Book!Present
      <4> QED
        BY <4>4
    <3>2. CASE req[r].op = "public"
      <4>1. result' = [result EXCEPT ![r] =
              IF row["encryptedDelegationKey"] = None
              THEN Says("ServiceUnavailable", None)
              ELSE Says("OK", formatPublic(row))]
        BY <2>4, <3>2 DEF FindPresent, Settle
      <4>2. Book!Decide(r, row,
              IF row["encryptedDelegationKey"] = None
              THEN Says("ServiceUnavailable", None)
              ELSE Says("OK", formatPublic(row)))
        BY <2>2, <3>0, <4>1, Saying, Showing DEF Statuses
      <4>3. ~Book!Malformed(r)
        BY <3>2 DEF Book!Malformed
      <4>4. Book!Present(r)
        BY <2>4, <3>2, <4>2, <4>3, SameWords DEF Book!Present
      <4> QED
        BY <4>4
    <3>3. CASE req[r].op \in {"patch", "opex", "delegation"}
      <4>1. UNCHANGED result
        BY <2>4, <3>3 DEF FindPresent
      <4>2. Mind(r)' = Says("present", None)
        BY <1>0, <1>b, <2>1, <3>0, <4>1 DEF Mind, TypeOK
      <4>3. Minds' = [Minds EXCEPT ![r] = Says("present", None)]
        BY <4>2, OneMind
      <4>4. Minds[r].status = "unread"
        BY <2>1, Deciding DEF Minds, Says
      <4>5. Book!Says(IF account[w] = None THEN "absent" ELSE "present", None)
            = Says("present", None)
        BY <2>4 DEF Book!Says, Says
      <4>6. Book!Look(r)
        BY <2>1, <4>3, <4>4, <4>5 DEF Book!Look, Minds
      <4> QED
        BY <4>6
    <3>4. req[r].op \in {"post", "get", "public", "patch", "opex",
                        "delegation"}
      BY <2>4 DEF FindPresent
    <3> QED
      BY <3>1, <3>2, <3>3, <3>4
  <2> QED
    BY <1>3, <2>3, <2>4 DEF Find
<1>5. CASE Create(r)
  <2> DEFINE row == Written(r, [c \in Columns |-> None])
  <2>1. /\ pc[r] = "insert" /\ result[r] = None /\ found[r] = None
        /\ req[r].op = "post" /\ req[r].sets # {}
        /\ UNCHANGED <<req, answer>>
    BY <1>0, <1>5 DEF Create, Knows
  <2>2. ~Book!Malformed(r)
    BY <2>1 DEF Book!Malformed
  <2>3. CASE account[w] = None
    <3>1. /\ account' = [account EXCEPT ![w] = row]
          /\ result' = [result EXCEPT ![r] =
                          Says("Created", formatAccount(row))]
      BY <1>5, <2>3 DEF Create, Settle
    <3>2. Says("Created", formatAccount(row)) # None
      BY Saying, Showing, Writing, Emptiness DEF Statuses
    <3>3. Book!Decide(r, row, Says("Created", formatAccount(row)))
      BY <2>1, <3>1, <3>2, Decided
    <3>4. Book!Absent(r)
      BY <2>1, <2>2, <2>3, <3>3, SameWords DEF Book!Absent
    <3> QED
      BY <3>4
  <2>4. CASE account[w] # None
    <3>1. UNCHANGED account /\ result' = [result EXCEPT ![r] =
                                            Says("Torn", None)]
      BY <1>5, <2>4 DEF Create, Settle, database
    <3>2. Book!Decide(r, account[w], Says("Torn", None))
      BY <1>c, <2>1, <3>1, Decided, Saying DEF Statuses
    <3>3. Minds[r].status = "absent"
      BY <2>1, Deciding DEF Minds, Says
    <3>4. Book!Torn(r)
      BY <2>1, <2>2, <2>4, <3>2, <3>3, SameWords DEF Book!Torn, Minds
    <3> QED
      BY <3>4
  <2> QED
    BY <2>3, <2>4
<1>6. CASE Update(r)
  <2> DEFINE row == Written(r, account[w])
  <2>1. /\ pc[r] = "update" /\ result[r] = None /\ found[r] \in Row
        /\ req[r].op \in {"patch", "opex", "delegation"}
        /\ req[r].sets # {} /\ UNCHANGED <<req, answer>>
    BY <1>0, <1>6 DEF Update, Knows
  <2>2. ~Book!Malformed(r)
    BY <2>1 DEF Book!Malformed
  <2>3. CASE account[w] # None
    <3>1. account' = [account EXCEPT ![w] = row] /\ row \in Row
      BY <1>6, <1>b, <2>3, Writing DEF Update
    <3> HIDE DEF w
    <3>2. PICK to \in {Says("OK", formatAccount(row)),
                       Says("OK", Only({"opexPublicKey"}, row)),
                       Says("NoContent", None)} :
            /\ result' = [result EXCEPT ![r] = to]
            /\ \/ req[r].op = "patch" /\ to = Says("OK", formatAccount(row))
               \/ /\ req[r].op = "opex"
                  /\ to = Says("OK", Only({"opexPublicKey"}, row))
               \/ req[r].op = "delegation" /\ to = Says("NoContent", None)
      BY <1>6, <2>3 DEF Update, Settle, w
    <3>3. to # None
      BY <3>1, Saying, Showing DEF Statuses
    <3>4. Book!Decide(r, row, to)
      BY <2>1, <3>1, <3>2, <3>3, Decided DEF w
    <3>5. Book!Present(r)
      BY <2>2, <2>3, <3>2, <3>4, SameWords DEF Book!Present, w
    <3> QED
      BY <3>5
  <2>4. CASE account[w] = None
    <3>1. Minds[r].status = "present"
      BY <2>1, Deciding DEF Minds, Says
    <3>2. UNCHANGED account
      BY <1>6, <2>4 DEF Update
    <3>3. CASE req[r].op = "opex"
      <4>1. result' = [result EXCEPT ![r] =
                         Says("OK", [c \in {"opexPublicKey"} |-> r])]
        BY <1>6, <2>4, <3>3 DEF Update, Settle
      <4>2. Book!Decide(r, account[w],
                        Says("OK", [c \in {"opexPublicKey"} |-> r]))
        BY <1>c, <2>1, <3>2, <4>1, Decided, Saying, ShowingOpex DEF Statuses
      <4>3. Book!Torn(r)
        BY <2>2, <2>4, <3>1, <3>3, <4>2, SameWords DEF Book!Torn, Minds
      <4> QED
        BY <4>3
    <3>4. CASE req[r].op # "opex"
      <4>1. result' = [result EXCEPT ![r] = Says("Torn", None)]
        BY <1>6, <2>4, <3>4 DEF Update, Settle
      <4>2. Book!Decide(r, account[w], Says("Torn", None))
        BY <1>c, <2>1, <3>2, <4>1, Decided, Saying DEF Statuses
      <4>3. Book!Torn(r)
        BY <2>1, <2>2, <2>4, <3>1, <3>4, <4>2, SameWords
        DEF Book!Torn, Minds
      <4> QED
        BY <4>3
    <3> QED
      BY <3>3, <3>4
  <2> QED
    BY <2>3, <2>4
<1>7. CASE Delete(r)
  <2>1. /\ pc[r] = "delete" /\ result[r] = None /\ req[r].op = "delete"
        /\ UNCHANGED <<req, answer>>
    BY <1>0, <1>7 DEF Delete, Knows
  <2>2. CASE account[w] # None
    <3>1. /\ account' = [account EXCEPT ![w] = None]
          /\ result' = [result EXCEPT ![r] = Says("NoContent", None)]
      BY <1>7, <2>2 DEF Delete, Settle
    <3>2. Book!Decide(r, None, Says("NoContent", None))
      BY <2>1, <3>1, Decided, Saying DEF Statuses
    <3>3. Book!Present(r)
      BY <2>1, <2>2, <3>2, SameWords DEF Book!Present, Book!Malformed
    <3> QED
      BY <3>3
  <2>3. CASE account[w] = None
    <3>1. UNCHANGED account /\ result' = [result EXCEPT ![r] =
                                            Says("NotFound", None)]
      BY <1>7, <2>3 DEF Delete, Settle, database
    <3>2. Book!Decide(r, None, Says("NotFound", None))
      BY <1>c, <2>1, <2>3, <3>1, Decided, Saying DEF Statuses
    <3>3. Book!Absent(r)
      BY <2>1, <2>3, <3>2, SameWords DEF Book!Absent
    <3> QED
      BY <3>3
  <2> QED
    BY <2>2, <2>3
<1> QED
  BY <1>2, <1>3, <1>4, <1>5, <1>6, <1>7, <1>8, <1>9 DEF Step

\* Although the handlers look up and write in separate statements, every
\* request is decided at one moment, as AccountBook says; and what it is told
\* is what was decided, or that it failed.
THEOREM ImplementsBook == Spec => AsOneAtATime
<1>1. Init => Book!Init
  BY AccountsAssumption DEF Init, Book!Init, Mind, Says, Book!Says
<1>2. AInv /\ [Next]_vars => [Book!Next]_(Book!vars)
  <2> SUFFICES ASSUME AInv, [Next]_vars PROVE [Book!Next]_(Book!vars)
    OBVIOUS
  <2>1. ASSUME NEW r \in Requests, Step(r)
        PROVE  [Book!Next]_(Book!vars)
    BY <2>1, RefinesStep
  <2>2. CASE Crash \/ UNCHANGED vars
    BY <2>2 DEF Crash, vars, database, Book!vars, Mind
  <2> QED
    BY <2>1, <2>2 DEF Next
<1> QED
  BY <1>1, <1>2, Invariance, PTL DEF Spec, AsOneAtATime, Book!Spec
=============================================================================
