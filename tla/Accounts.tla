------------------------------ MODULE Accounts ------------------------------
(***************************************************************************)
(* The account endpoints (src/src/http/v1/account/) over the repository of *)
(* pay_accounts.                                                           *)
(*                                                                         *)
(* A handler is one to three statements with awaits between them; pc[r] is *)
(* the await request r is parked at.  A statement is one step, the answer  *)
(* of the handler that waited for it another: between the two the process  *)
(* may die.                                                                *)
(***************************************************************************)
CONSTANTS
  Requests, Wallets,
  Old,          \* any value written before the requests at hand
  None, Unread,
  Existing,     \* the rows that may exist at the start
  Offered       \* what clients send: operations with the columns they name

\* The columns of pay_accounts but for its key and the time stamps.
Columns == {"email", "jurisdictionCountryCode", "displayName",
            "opexPublicKey", "encryptedOpexSk", "encryptedDelegationKey"}

\* The value of a column stands for the request that wrote it.
Values == Requests \cup {Old, None}
Row == [Columns -> Values]

ASSUME AccountsAssumption ==
  /\ None \notin Requests \cup {Old} /\ None \notin Row
  /\ Unread \notin Row \cup {None}
  /\ Existing \subseteq Row

\* The columns that the bodies a handler accepts may name; {} stands for
\* every body that it refuses, and for none.
Bodies(op) ==
  CASE op = "post" ->
         {{}, {"email", "jurisdictionCountryCode"},
          {"email", "jurisdictionCountryCode", "displayName"}}
    [] op = "patch" ->
         SUBSET {"email", "jurisdictionCountryCode", "displayName"}
    [] op = "opex" -> {{}, {"opexPublicKey", "encryptedOpexSk"}}
    [] op = "delegation" -> {{}, {"encryptedDelegationKey"}}
    [] OTHER -> {{}}

Ops == {"post", "get", "patch", "opex", "delegation", "delete", "public"}

ASSUME OfferedAssumption ==
  Offered \subseteq [op : Ops, sets : SUBSET Columns]
  /\ \A o \in Offered : o.sets \in Bodies(o.op)

Query == [op : Ops, wallet : Wallets, sets : SUBSET Columns]

VARIABLES
  \* database: pay_accounts
  account, lastSeenAt,
  \* the handlers
  pc, req, found, result, answer

database == <<account, lastSeenAt>>
vars == <<database, pc, req, found, result, answer>>

Parked == {"parse", "find", "touch", "insert", "update", "delete", "reply"}

Says(status, data) == [status |-> status, data |-> data]

Statuses == {"OK", "Created", "NoContent", "BadRequest", "NotFound",
             "ServiceUnavailable", "Torn", "error"}

Only(columns, row) == [c \in columns |-> row[c]]

\* What a handler shows of a row to its owner, and to anybody: no secrets.
OwnersColumns ==
  {"email", "jurisdictionCountryCode", "displayName", "opexPublicKey"}
PublicColumns == {"displayName", "jurisdictionCountryCode"}

\* Mutant: the owner is shown the row.
formatAccountWhole(row) == row

formatAccount(row) == Only(OwnersColumns, row)
formatPublic(row) == Only(PublicColumns, row)

Data == UNION {[C -> Values] :
                 C \in {OwnersColumns, PublicColumns, {"opexPublicKey"}}}

Replies == [status : Statuses, data : Data \cup {None}]

ASSUME NoReplyAssumption == None \notin Replies \cup Query

TypeOK ==
  /\ account \in [Wallets -> Row \cup {None}]
  /\ lastSeenAt \in [Wallets -> Requests \cup {None}]
  /\ pc \in [Requests -> Parked \cup {"idle", "done", "lost"}]
  /\ req \in [Requests -> Query \cup {None}]
  /\ found \in [Requests -> Row \cup {None, Unread}]
  /\ result \in [Requests -> Replies \cup {None}]
  /\ answer \in [Requests -> Replies \cup {None}]

Init ==
  /\ account \in [Wallets -> Existing \cup {None}]
  /\ lastSeenAt = [w \in Wallets |-> None]
  /\ pc = [r \in Requests |-> "idle"]
  /\ req = [r \in Requests |-> None]
  /\ found = [r \in Requests |-> Unread]
  /\ result = [r \in Requests |-> None]
  /\ answer = [r \in Requests |-> None]

GoTo(r, l) == pc' = [pc EXCEPT ![r] = l]

\* What the handler will answer when it has waited for the statement.
Settle(r, status, data) ==
  /\ result' = [result EXCEPT ![r] = Says(status, data)]
  /\ GoTo(r, "reply")

\* The first await: the body, or the only statements there are.
First(op) ==
  CASE op \in {"post", "opex", "delegation"} -> "parse"
    [] op = "delete" -> "delete"
    [] OTHER -> "find"

Receive(r) ==
  /\ pc[r] = "idle"
  /\ \E w \in Wallets, o \in Offered :
       /\ req' = [req EXCEPT ![r] =
                    [op |-> o.op, wallet |-> w, sets |-> o.sets]]
       /\ GoTo(r, First(o.op))
  /\ UNCHANGED <<database, found, result, answer>>

\* PATCH looks the account up before its body, the others after it.
ParseBody(r) ==
  /\ pc[r] = "parse"
  /\ \/ /\ req[r].sets = {}
        /\ Settle(r, "BadRequest", None)
     \/ /\ req[r].sets # {}
        /\ GoTo(r, IF req[r].op = "patch" THEN "update" ELSE "find")
        /\ UNCHANGED result
  /\ UNCHANGED <<database, req, found, answer>>

-----------------------------------------------------------------------------
(* findByPublicKey, and what the handlers make of the row. *)

FindMissing(r) ==
  \/ /\ req[r].op = "post"
     /\ GoTo(r, "insert") /\ UNCHANGED result
  \/ /\ req[r].op # "post"
     /\ Settle(r, "NotFound", None)

FindPresent(r, row) ==
  \/ /\ req[r].op \in {"post", "get"}
     /\ result' = [result EXCEPT ![r] = Says("OK", formatAccount(row))]
     /\ GoTo(r, "touch")
  \/ /\ req[r].op = "public"
     /\ IF row["encryptedDelegationKey"] = None
        THEN Settle(r, "ServiceUnavailable", None)
        ELSE Settle(r, "OK", formatPublic(row))
  \/ /\ req[r].op = "patch"
     /\ GoTo(r, "parse") /\ UNCHANGED result
  \/ /\ req[r].op \in {"opex", "delegation"}
     /\ GoTo(r, "update") /\ UNCHANGED result

Find(r) ==
  LET row == account[req[r].wallet] IN
  /\ pc[r] = "find"
  /\ found' = [found EXCEPT ![r] = row]
  /\ \/ row = None /\ FindMissing(r)
     \/ row # None /\ FindPresent(r, row)
  /\ UNCHANGED <<database, req, answer>>

-----------------------------------------------------------------------------
(* The statements that write. *)

UpdateLastSeen(r) ==
  LET w == req[r].wallet IN
  /\ pc[r] = "touch"
  /\ lastSeenAt' = [lastSeenAt EXCEPT ![w] =
       IF account[w] = None THEN None ELSE r]
  /\ GoTo(r, "reply")
  /\ UNCHANGED <<account, req, found, result, answer>>

\* What an INSERT or an UPDATE of the request makes of a row.
Written(r, row) ==
  [c \in Columns |-> IF c \in req[r].sets THEN r ELSE row[c]]

\* The primary key refuses a second row.
Create(r) ==
  LET w == req[r].wallet
      row == Written(r, [c \in Columns |-> None]) IN
  /\ pc[r] = "insert"
  /\ \/ /\ account[w] = None
        /\ account' = [account EXCEPT ![w] = row]
        /\ lastSeenAt' = [lastSeenAt EXCEPT ![w] = r]
        /\ Settle(r, "Created", formatAccount(row))
     \/ /\ account[w] # None
        /\ Settle(r, "Torn", None)
        /\ UNCHANGED database
  /\ UNCHANGED <<req, found, answer>>

\* Mutant: the row that was read is edited and written back.
UpdateRowRead(r) ==
  LET w == req[r].wallet
      row == Written(r, found[r]) IN
  /\ pc[r] = "update"
  /\ account[w] # None
  /\ account' = [account EXCEPT ![w] = row]
  /\ \/ req[r].op = "patch" /\ Settle(r, "OK", formatAccount(row))
     \/ /\ req[r].op = "opex"
        /\ Settle(r, "OK", Only({"opexPublicKey"}, row))
     \/ req[r].op = "delegation" /\ Settle(r, "NoContent", None)
  /\ UNCHANGED <<lastSeenAt, req, found, answer>>

\* encryptSk, where there is a secret, and the UPDATE.  The registration of
\* an OpEx account does not look at what was updated.
Update(r) ==
  LET w == req[r].wallet
      row == Written(r, account[w]) IN
  /\ pc[r] = "update"
  /\ \/ /\ account[w] # None
        /\ account' = [account EXCEPT ![w] = row]
        /\ \/ req[r].op = "patch" /\ Settle(r, "OK", formatAccount(row))
           \/ /\ req[r].op = "opex"
              /\ Settle(r, "OK", Only({"opexPublicKey"}, row))
           \/ req[r].op = "delegation" /\ Settle(r, "NoContent", None)
     \/ /\ account[w] = None
        /\ \/ req[r].op # "opex" /\ Settle(r, "Torn", None)
           \/ /\ req[r].op = "opex"
              /\ Settle(r, "OK", [c \in {"opexPublicKey"} |-> r])
        /\ UNCHANGED account
  /\ UNCHANGED <<lastSeenAt, req, found, answer>>

Delete(r) ==
  LET w == req[r].wallet IN
  /\ pc[r] = "delete"
  /\ \/ /\ account[w] # None
        /\ account' = [account EXCEPT ![w] = None]
        /\ lastSeenAt' = [lastSeenAt EXCEPT ![w] = None]
        /\ Settle(r, "NoContent", None)
     \/ /\ account[w] = None
        /\ Settle(r, "NotFound", None)
        /\ UNCHANGED database
  /\ UNCHANGED <<req, found, answer>>

-----------------------------------------------------------------------------

Reply(r) ==
  /\ pc[r] = "reply"
  /\ answer' = [answer EXCEPT ![r] = result[r]]
  /\ GoTo(r, "done")
  /\ UNCHANGED <<database, req, found, result>>

\* Any await may reject, also that of a statement that was executed.
Throw(r) ==
  /\ pc[r] \in Parked
  /\ answer' = [answer EXCEPT ![r] = Says("error", None)]
  /\ GoTo(r, "done")
  /\ UNCHANGED <<database, req, found, result>>

Crash ==
  /\ pc' = [r \in Requests |-> IF pc[r] \in Parked THEN "lost" ELSE pc[r]]
  /\ UNCHANGED <<database, req, found, result, answer>>

Step(r) ==
  \/ Receive(r) \/ ParseBody(r) \/ Find(r)
  \/ UpdateLastSeen(r) \/ Create(r) \/ Update(r) \/ Delete(r)
  \/ Reply(r) \/ Throw(r)

Next == (\E r \in Requests : Step(r)) \/ Crash

Spec == Init /\ [][Next]_vars

-----------------------------------------------------------------------------
(* Properties. *)

\* What is known of a request: nothing yet, what it found, or its result.
Mind(r) ==
  IF result[r] # None THEN result[r]
  ELSE Says(IF found[r] = Unread THEN "unread"
            ELSE IF found[r] = None THEN "absent" ELSE "present", None)

Book == INSTANCE AccountBook WITH
  book <- account,
  asked <- req,
  mind <- [r \in Requests |-> Mind(r)],
  reply <- answer

\* Although every endpoint looks an account up and writes it in separate
\* statements, each request is decided at one moment: it answers for the
\* account as it was then, loses nobody's edit and brings no deleted account
\* back.  The requests that are torn are exactly those named in AccountBook:
\* among them a POST that fails because another one was faster, which the
\* comment of post.ts (lines 17-18) does not expect.
AsOneAtATime == Book!Spec
=============================================================================
