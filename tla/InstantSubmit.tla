---------------------------- MODULE InstantSubmit ---------------------------
(***************************************************************************)
(* POST /pay/instant/submit (src/src/http/v1/pay/instant-submit.ts).       *)
(*                                                                         *)
(* The customer has built and signed the operations of a bundle.  The      *)
(* handler routes the payment, gets a token of the provider (ProviderAuth) *)
(* and posts the bundle; as soon as the provider has accepted it, it logs  *)
(* an IN row for the merchant and, if the customer has an account, an OUT  *)
(* row for the customer.                                                   *)
(*                                                                         *)
(* As in InstantExecute an action is the code between two awaits.  The     *)
(* handler does not wait until the bundle settles.                         *)
(***************************************************************************)
EXTENDS ProviderAuth

CONSTANTS
  Wallets,   \* public keys of wallets
  Signed,    \* operations that customers signed
  Offered    \* the request bodies clients send

Inputs == [merchant : Wallets, customer : Wallets, operations : Signed]

ASSUME OfferedAssumption == Offered \subseteq Inputs /\ None \notin Offered

VARIABLES
  \* one handler invocation per call: its locals and its answer
  pc, req, answer, customerFound,
  \* database: pay_accounts and transactions
  account, inRow, outRow,
  \* the provider
  bundle,
  \* history: the rows that went with an account
  wiped

handler == <<pc, req, answer, customerFound>>
database == <<account, inRow, outRow>>
vars == <<handler, database, bundle, wiped, authVars>>

\* A bundle the provider took.  Whether one that does not settle is pending,
\* has failed or has expired makes no difference to this handler.
Outcomes == {"accepted", "settled"}

\* A row of the log; its status is COMPLETED from the start.
Row == [wallet : Wallets, counterparty : Wallets]

ASSUME NoRowAssumption == None \notin Outcomes /\ None \notin Row

Parked == {"lookup", "route", "provider", "auth", "post", "logIn",
           "customer", "logOut", "reply"}

SubmitTypeOK ==
  /\ pc \in [Calls -> Parked \cup {"idle", "done", "lost"}]
  /\ req \in [Calls -> Offered \cup {None}]
  /\ answer \in [Calls -> {"none", "refused", "error", "completed"}]
  /\ customerFound \in [Calls -> BOOLEAN]
  /\ account \in [Wallets -> BOOLEAN]
  /\ inRow \in [Calls -> Row \cup {None}]
  /\ outRow \in [Calls -> Row \cup {None}]
  /\ bundle \in [Calls -> Outcomes \cup {None}]
  /\ wiped \in [Calls -> SUBSET {"IN", "OUT"}]

TypeOK == AuthTypeOK /\ SubmitTypeOK

Init ==
  /\ AuthInit
  /\ pc = [r \in Calls |-> "idle"]
  /\ req = [r \in Calls |-> None]
  /\ answer = [r \in Calls |-> "none"]
  /\ customerFound = [r \in Calls |-> FALSE]
  /\ account \in [Wallets -> BOOLEAN]
  /\ inRow = [r \in Calls |-> None]
  /\ outRow = [r \in Calls |-> None]
  /\ bundle = [r \in Calls |-> None]
  /\ wiped = [r \in Calls |-> {}]

GoTo(r, l) == pc' = [pc EXCEPT ![r] = l]

Answer(r, a) ==
  /\ GoTo(r, "done")
  /\ answer' = [answer EXCEPT ![r] = a]

Receive(r, i) ==
  /\ pc[r] = "idle"
  /\ GoTo(r, "lookup")
  /\ req' = [req EXCEPT ![r] = i]
  /\ UNCHANGED <<answer, customerFound, database, bundle, wiped, authVars>>

ReceiveMalformed(r) ==
  /\ pc[r] = "idle"
  /\ Answer(r, "refused")
  /\ UNCHANGED <<req, customerFound, database, bundle, wiped, authVars>>

\* A step that goes on to l, or refuses.
Check(r, here, ok, l) ==
  /\ pc[r] = here
  /\ \/ ok /\ GoTo(r, l) /\ UNCHANGED answer
     \/ ~ok /\ Answer(r, "refused")
  /\ UNCHANGED <<req, customerFound, database, bundle, wiped, authVars>>

FindMerchant(r) == Check(r, "lookup", account[req[r].merchant], "route")

\* What the councils offer at the moment: see Councils.
RouteToChannel(r) == \E found \in BOOLEAN : Check(r, "route", found, "provider")
PickProvider(r) == \E found \in BOOLEAN : Check(r, "provider", found, "auth")

-----------------------------------------------------------------------------
(* The provider. *)

\* A step of getProviderJwt; the handler goes on in the turn it returns or
\* throws in.
Authenticate(r) ==
  /\ pc[r] = "auth"
  /\ \/ \E k \in Keys : GetJwt(r, k)
     \/ ReceiveChallenge(r) \/ ReceiveJwt(r) \/ FailToAuthenticate(r)
  /\ \/ stage'[r] = "held" /\ GoTo(r, "post") /\ UNCHANGED answer
     \/ stage'[r] = "failed" /\ Answer(r, "error")
     \/ stage'[r] \notin {"held", "failed"} /\ UNCHANGED <<pc, answer>>
  /\ UNCHANGED <<req, customerFound, database, bundle, wiped>>

\* The bundle is posted in the turn the token is returned in.  The provider
\* accepts it, if the token is good for it, while the handler waits or after
\* the handler stopped waiting.
AcceptBundle(r) ==
  /\ stage[r] = "held"
  /\ bundle[r] = None
  /\ jwt[r].pk = key[r].pk
  /\ now < jwt[r].expires
  /\ bundle' = [bundle EXCEPT ![r] = "accepted"]
  /\ UNCHANGED <<handler, database, wiped, authVars>>

\* Mutant: the status of the reply is not looked at.
PostBundleUnchecked(r) ==
  /\ pc[r] = "post"
  /\ GoTo(r, "logIn")
  /\ UNCHANGED <<req, answer, customerFound, database, bundle, wiped,
                 authVars>>

\* Any other reply than an acceptance throws: Throw.  An acceptance may come
\* without an id.
PostBundle(r) ==
  /\ pc[r] = "post"
  /\ bundle[r] # None
  /\ GoTo(r, "logIn")
  /\ UNCHANGED <<req, answer, customerFound, database, bundle, wiped,
                 authVars>>

-----------------------------------------------------------------------------
(* The log. *)

\* The foreign key refuses the row of a wallet whose account is gone.
LogIn(r) ==
  /\ pc[r] = "logIn"
  /\ \/ /\ account[req[r].merchant]
        /\ inRow' = [inRow EXCEPT ![r] =
             [wallet |-> req[r].merchant, counterparty |-> req[r].customer]]
        /\ GoTo(r, "customer")
        /\ UNCHANGED answer
     \/ /\ ~account[req[r].merchant]
        /\ Answer(r, "error")
        /\ UNCHANGED inRow
  /\ UNCHANGED <<req, customerFound, account, outRow, bundle, wiped, authVars>>

FindCustomer(r) ==
  LET found == account[req[r].customer] IN
  /\ pc[r] = "customer"
  /\ customerFound' = [customerFound EXCEPT ![r] = found]
  /\ GoTo(r, IF found THEN "logOut" ELSE "reply")
  /\ UNCHANGED <<req, answer, database, bundle, wiped, authVars>>

\* Mutant: a row that cannot be written is passed over.
LogOutOrGoOn(r) ==
  /\ pc[r] = "logOut"
  /\ outRow' = [outRow EXCEPT ![r] =
       IF account[req[r].customer]
       THEN [wallet |-> req[r].customer, counterparty |-> req[r].merchant]
       ELSE None]
  /\ GoTo(r, "reply")
  /\ UNCHANGED <<req, answer, customerFound, account, inRow, bundle, wiped,
                 authVars>>

LogOut(r) ==
  /\ pc[r] = "logOut"
  /\ \/ /\ account[req[r].customer]
        /\ outRow' = [outRow EXCEPT ![r] =
             [wallet |-> req[r].customer, counterparty |-> req[r].merchant]]
        /\ GoTo(r, "reply")
        /\ UNCHANGED answer
     \/ /\ ~account[req[r].customer]
        /\ Answer(r, "error")
        /\ UNCHANGED outRow
  /\ UNCHANGED <<req, customerFound, account, inRow, bundle, wiped, authVars>>

ReplyCompleted(r) ==
  /\ pc[r] = "reply"
  /\ Answer(r, "completed")
  /\ UNCHANGED <<req, customerFound, database, bundle, wiped, authVars>>

\* Any await may reject: the catch block answers, nothing is undone.  (While
\* the handler authenticates this is FailToAuthenticate.)
Throw(r) ==
  /\ pc[r] \in Parked \ {"auth"}
  /\ Answer(r, "error")
  /\ UNCHANGED <<req, customerFound, database, bundle, wiped, authVars>>

-----------------------------------------------------------------------------
(* Everything else that moves. *)

Crash ==
  /\ Restart
  /\ pc' = [r \in Calls |-> IF pc[r] \in Parked THEN "lost" ELSE pc[r]]
  /\ UNCHANGED <<req, answer, customerFound, database, bundle, wiped>>

CreateAccount(w) ==
  /\ ~account[w]
  /\ account' = [account EXCEPT ![w] = TRUE]
  /\ UNCHANGED <<handler, inRow, outRow, bundle, wiped, authVars>>

Without(rows, w) ==
  [r \in Calls |->
     IF rows[r] # None /\ rows[r].wallet = w THEN None ELSE rows[r]]

\* The rows of a deleted account are deleted with it.
DeleteAccount(w) ==
  /\ account[w]
  /\ account' = [account EXCEPT ![w] = FALSE]
  /\ inRow' = Without(inRow, w)
  /\ outRow' = Without(outRow, w)
  /\ wiped' = [r \in Calls |->
       wiped[r] \cup (IF inRow'[r] # inRow[r] THEN {"IN"} ELSE {})
                \cup (IF outRow'[r] # outRow[r] THEN {"OUT"} ELSE {})]
  /\ UNCHANGED <<handler, bundle, authVars>>

\* The inputs of the operations are spent once.
SettleBundle(r) ==
  /\ bundle[r] = "accepted"
  /\ \A s \in Calls :
       req[s] # None /\ req[s].operations = req[r].operations =>
         bundle[s] # "settled"
  /\ bundle' = [bundle EXCEPT ![r] = "settled"]
  /\ UNCHANGED <<handler, database, wiped, authVars>>

TimePasses == Tick /\ UNCHANGED <<handler, database, bundle, wiped>>

Step(r) ==
  \/ ReceiveMalformed(r) \/ \E i \in Offered : Receive(r, i)
  \/ FindMerchant(r) \/ RouteToChannel(r) \/ PickProvider(r)
  \/ Authenticate(r) \/ PostBundle(r)
  \/ LogIn(r) \/ FindCustomer(r) \/ LogOut(r) \/ ReplyCompleted(r)
  \/ Throw(r)

Next ==
  \/ \E r \in Calls : Step(r) \/ AcceptBundle(r) \/ SettleBundle(r)
  \/ \E w \in Wallets : CreateAccount(w) \/ DeleteAccount(w)
  \/ TimePasses
  \/ Crash

Spec == Init /\ [][Next]_vars

-----------------------------------------------------------------------------
(* Properties. *)

\* The log of a payment has two sides.  A customer is never charged in the
\* log for a payment the merchant's log never had, and a client told
\* COMPLETED can rely on both rows, although accounts come and go between
\* the four queries; only deleting an account takes its row away
\* (lines 148-192).
TwoSided ==
  \A r \in Calls :
    LET in == inRow[r] # None \/ "IN" \in wiped[r]
        out == outRow[r] # None \/ "OUT" \in wiped[r] IN
    /\ out => in
    /\ answer[r] = "completed" => in /\ (customerFound[r] => out)

Promise == INSTANCE Payment WITH
  Requests <- Calls,
  credited <- {r \in Calls : bundle[r] # None},
  logged <- {r \in Calls : inRow[r] # None},
  report <- answer

\* Read with "accepted by the provider" for "credited", the handler keeps the
\* promise of a payment: nothing is logged or reported completed that was
\* not accepted, and nothing that was refused is accepted later.
AcceptancePromised == Promise!Spec
=============================================================================
