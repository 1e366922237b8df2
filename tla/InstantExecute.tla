--------------------------- MODULE InstantExecute ---------------------------
(***************************************************************************)
(* POST /pay/instant/execute (src/src/http/v1/pay/instant-execute.ts).     *)
(*                                                                         *)
(* A customer has already paid the merchant's OpEx account on-chain.  The  *)
(* handler verifies that payment, moves the amount plus the bundle fee     *)
(* from the OpEx account into a privacy channel, posts a bundle that       *)
(* credits the merchant's UTXOs, waits until the bundle settles and logs   *)
(* an IN transaction.                                                      *)
(*                                                                         *)
(* The server is one event loop: a request runs alone between two awaits   *)
(* and every await lets other requests, account updates, the chain and the *)
(* provider move.  Each action of a request is the code between two awaits *)
(* that touch shared state; pc[r] names the await at which r is parked.    *)
(* Memory is all a crash loses: the database, the chain and the provider   *)
(* go on.                                                                  *)
(***************************************************************************)
EXTENDS Naturals, FiniteSets

CONSTANTS
  Requests,   \* execute requests, one handler invocation each
  Merchants,  \* wallet public keys of merchants
  Hashes,     \* hashes of customer payments
  Keys,       \* OpEx key pairs (public key and encrypted secret are one pair)
  Roots,      \* UTXO derivation roots (the delegation key, decrypted)
  Assets,     \* what customers pay with and channels hold
  Channels,   \* privacy channels that councils of the jurisdiction offer
  AssetOf,    \* the asset of each channel
  Indexes,    \* UTXO derivation indexes
  Paid,       \* the payment operations customers make
  Offered,    \* the request bodies clients send
  Fee,        \* BUNDLE_FEE
  MaxPolls,   \* polls that fit before a deadline
  Naming,     \* does an accepted bundle come with its id?  TRUE, FALSE, both
  None        \* null, undefined, absent

\* The asset is the client's choice, independent of the one it paid with.
Inputs == [merchant : Merchants, hash : Hashes, amount : Nat,
           asset : Assets, indexes : SUBSET Indexes \ {{}}]

ASSUME OfferedAssumption == Offered \subseteq Inputs
ASSUME AssetsAssumption == AssetOf \in [Channels -> Assets]
ASSUME IndexesAssumption == Indexes \subseteq Nat
ASSUME AmountsAssumption == Fee \in Nat /\ MaxPolls \in Nat \ {0}
ASSUME NamingAssumption == Naming \subseteq BOOLEAN /\ Naming # {}

VARIABLES
  \* one handler invocation per request: its locals and its answer
  pc, req, merchant, channel, dest, tries, answer,
  \* database: pay_accounts and transactions
  account, row,
  \* chain and provider
  payment, accountSeq, created, deposit, bundle

handler == <<pc, req, merchant, channel, dest, tries, answer>>
database == <<account, row>>
world == <<payment, accountSeq, created, deposit, bundle>>
vars == <<handler, database, world>>

-----------------------------------------------------------------------------
(* Records. *)

\* The columns of a pay_accounts row the handler reads.
AccountRow == [opex : Keys \cup {None}, root : Roots \cup {None}]

\* A merchant that finished onboarding.
Payee == [opex : Keys, root : Roots]

\* A SAC transfer from an OpEx account to a channel: only built, or sent.
Deposit == [status : {"built", "pending", "SUCCESS", "FAILED"}, seq : Nat,
            from : Keys, to : Channels, asset : Assets, amount : Nat]

\* A bundle: a deposit operation of `inflow` and CREATEs on the indexes
\* `dest` of `root` worth `credit` in all; `named` if its id was returned.
Bundle == [status : {"PENDING", "COMPLETED", "FAILED", "EXPIRED"},
           named : BOOLEAN, to : Channels, inflow : Nat, credit : Nat,
           root : Roots, dest : SUBSET Indexes]

\* An IN row of the transactions table; `bundled` if bundle_id is not null.
Row == [wallet : Merchants, amount : Nat, bundled : BOOLEAN]

\* A customer's payment operation, as Horizon returns it: of any asset, and
\* also that of a transaction that failed.
Payment == [to : Keys, asset : Assets, amount : Nat, successful : BOOLEAN]

ASSUME PaidAssumption == Paid \subseteq Payment
ASSUME NoneAssumption ==
  /\ None \notin Keys \cup Roots \cup Channels \cup Offered
  /\ None \notin AccountRow /\ None \notin Payment
  /\ None \notin Deposit /\ None \notin Bundle /\ None \notin Row

Parked == {"lookup", "route", "provider", "verify", "destinations",
           "redirect", "sequence", "send", "confirm", "post", "settle",
           "record", "reply"}
Locations == Parked \cup {"idle", "done", "lost"}

HandlerTypeOK ==
  /\ pc \in [Requests -> Locations]
  /\ req \in [Requests -> Offered \cup {None}]
  /\ merchant \in [Requests -> Payee \cup {None}]
  /\ channel \in [Requests -> Channels \cup {None}]
  /\ dest \in [Requests -> SUBSET Indexes]
  /\ tries \in [Requests -> 0..MaxPolls]
  /\ answer \in [Requests -> {"none", "refused", "error", "completed"}]

DatabaseTypeOK ==
  /\ account \in [Merchants -> AccountRow \cup {None}]
  /\ row \in [Requests -> Row \cup {None}]

WorldTypeOK ==
  /\ payment \in [Hashes -> Payment \cup {None}]
  /\ accountSeq \in [Keys -> Nat]
  /\ created \in [Channels \X Roots -> SUBSET Indexes]
  /\ deposit \in [Requests -> Deposit \cup {None}]
  /\ bundle \in [Requests -> Bundle \cup {None}]

TypeOK == HandlerTypeOK /\ DatabaseTypeOK /\ WorldTypeOK

Init ==
  /\ pc = [r \in Requests |-> "idle"]
  /\ req = [r \in Requests |-> None]
  /\ merchant = [r \in Requests |-> None]
  /\ channel = [r \in Requests |-> None]
  /\ dest = [r \in Requests |-> {}]
  /\ tries = [r \in Requests |-> 0]
  /\ answer = [r \in Requests |-> "none"]
  /\ account \in [Merchants -> AccountRow \cup {None}]
  /\ row = [r \in Requests |-> None]
  /\ payment = [h \in Hashes |-> None]
  /\ accountSeq = [k \in Keys |-> 0]
  /\ created = [cu \in Channels \X Roots |-> {}]
  /\ deposit = [r \in Requests |-> None]
  /\ bundle = [r \in Requests |-> None]

-----------------------------------------------------------------------------
(* Ending a request. *)

GoTo(r, l) == pc' = [pc EXCEPT ![r] = l]

\* The handler returns: a 4xx/503 of the checks, the error pipeline of the
\* catch block, or the COMPLETED body.
Answer(r, a) ==
  /\ GoTo(r, "done")
  /\ answer' = [answer EXCEPT ![r] = a]

\* Has the request stopped, by its answer or by the crash of the server?
Ended(r) == answer[r] # "none" \/ pc[r] = "lost"

-----------------------------------------------------------------------------
(* The checks before any money moves. *)

Receive(r, i) ==
  /\ pc[r] = "idle"
  /\ GoTo(r, "lookup")
  /\ req' = [req EXCEPT ![r] = i]
  /\ UNCHANGED <<merchant, channel, dest, tries, answer, database, world>>

\* A body that fails validation is answered before the first await.
ReceiveMalformed(r) ==
  /\ pc[r] = "idle"
  /\ Answer(r, "refused")
  /\ UNCHANGED <<req, merchant, channel, dest, tries, database, world>>

\* Mutant: the delegation key is not asked for.
FindMerchantHalfOnboarded(r) ==
  LET found == account[req[r].merchant] IN
  /\ pc[r] = "lookup"
  /\ \/ /\ found # None /\ found.opex # None
        /\ merchant' = [merchant EXCEPT ![r] = found]
        /\ GoTo(r, "route")
        /\ UNCHANGED answer
     \/ /\ ~(found # None /\ found.opex # None)
        /\ Answer(r, "refused")
        /\ UNCHANGED merchant
  /\ UNCHANGED <<req, channel, dest, tries, database, world>>

\* The row must have an OpEx account and a delegation key.
FindMerchant(r) ==
  LET found == account[req[r].merchant] IN
  /\ pc[r] = "lookup"
  /\ \/ /\ found \in Payee
        /\ merchant' = [merchant EXCEPT ![r] = found]
        /\ GoTo(r, "route")
        /\ UNCHANGED answer
     \/ /\ found \notin Payee
        /\ Answer(r, "refused")
        /\ UNCHANGED merchant
  /\ UNCHANGED <<req, channel, dest, tries, database, world>>

\* The first council of the jurisdiction with an active channel for the
\* asset asked for.  Admins change the council tables at any time: the query
\* may find any set of its channels, in any order.
RouteToChannel(r) ==
  /\ pc[r] = "route"
  /\ \E active \in SUBSET {c \in Channels : AssetOf[c] = req[r].asset} :
       \/ \E c \in active :
            /\ channel' = [channel EXCEPT ![r] = c]
            /\ GoTo(r, "provider")
            /\ UNCHANGED answer
       \/ /\ active = {}
          /\ Answer(r, "refused")
          /\ UNCHANGED channel
  /\ UNCHANGED <<req, merchant, dest, tries, database, world>>

\* A council without an active provider ends the request: no other council
\* is tried.
PickProvider(r) ==
  /\ pc[r] = "provider"
  /\ \E served \in BOOLEAN :
       \/ served /\ GoTo(r, "verify") /\ UNCHANGED answer
       \/ ~served /\ Answer(r, "refused")
  /\ UNCHANGED <<req, merchant, channel, dest, tries, database, world>>

\* Is there an operation to the OpEx account read at the start, of a number
\* that is large enough?  Which asset it moved, and whether its transaction
\* succeeded, is not looked at.
Covers(p, r) ==
  p # None /\ p.to = merchant[r].opex /\ p.amount >= req[r].amount

\* Mutant: any payment of the amount will do, whomever it paid.
VerifyAmountOnly(r) ==
  LET p == payment[req[r].hash] IN
  /\ pc[r] = "verify"
  /\ \/ /\ p # None /\ p.amount >= req[r].amount
        /\ GoTo(r, "destinations")
        /\ UNCHANGED answer
     \/ /\ ~(p # None /\ p.amount >= req[r].amount)
        /\ Answer(r, "refused")
  /\ UNCHANGED <<req, merchant, channel, dest, tries, database, world>>

VerifyPayment(r) ==
  /\ pc[r] = "verify"
  /\ \/ /\ Covers(payment[req[r].hash], r)
        /\ GoTo(r, "destinations")
        /\ UNCHANGED answer
     \/ /\ ~Covers(payment[req[r].hash], r)
        /\ Answer(r, "refused")
  /\ UNCHANGED <<req, merchant, channel, dest, tries, database, world>>

-----------------------------------------------------------------------------
(* Where the merchant receives. *)

Taken(r) == created[<<channel[r], merchant[r].root>>]

\* The proposed indexes are kept if all are still free.
CheckDestinations(r) ==
  /\ pc[r] = "destinations"
  /\ \/ /\ req[r].indexes \cap Taken(r) = {}
        /\ dest' = [dest EXCEPT ![r] = req[r].indexes]
        /\ GoTo(r, "sequence")
     \/ /\ req[r].indexes \cap Taken(r) # {}
        /\ GoTo(r, "redirect")
        /\ UNCHANGED dest
  /\ UNCHANGED <<req, merchant, channel, tries, answer, database, world>>

\* Otherwise as many others replace them.  The search reads the channel in
\* batches and fills up behind the last one, so they may be any: UtxoIndexes
\* says when they are free.
Redirect(r) ==
  /\ pc[r] = "redirect"
  /\ \E s \in SUBSET Indexes :
       /\ Cardinality(s) = Cardinality(req[r].indexes)
       /\ dest' = [dest EXCEPT ![r] = s]
  /\ GoTo(r, "sequence")
  /\ UNCHANGED <<req, merchant, channel, tries, answer, database, world>>

-----------------------------------------------------------------------------
(* The deposit. *)

\* Mutant: the OpEx key is read again instead of taken from the row read
\* at the start.
BuildDepositFromFreshRow(r) ==
  LET now == account[req[r].merchant] IN
  /\ pc[r] = "sequence"
  /\ now \in Payee
  /\ deposit' = [deposit EXCEPT ![r] =
       [status |-> "built", seq |-> accountSeq[now.opex] + 1,
        from |-> now.opex, to |-> channel[r], asset |-> AssetOf[channel[r]],
        amount |-> req[r].amount + Fee]]
  /\ GoTo(r, "send")
  /\ UNCHANGED <<req, merchant, channel, dest, tries, answer, database,
                 payment, accountSeq, created, bundle>>

\* getAccount fixes the sequence number; building, simulating and signing
\* follow before the transaction is sent.  The contract called is that of the
\* channel's asset.
BuildDeposit(r) ==
  /\ pc[r] = "sequence"
  /\ deposit' = [deposit EXCEPT ![r] =
       [status |-> "built", seq |-> accountSeq[merchant[r].opex] + 1,
        from |-> merchant[r].opex, to |-> channel[r],
        asset |-> AssetOf[channel[r]], amount |-> req[r].amount + Fee]]
  /\ GoTo(r, "send")
  /\ UNCHANGED <<req, merchant, channel, dest, tries, answer, database,
                 payment, accountSeq, created, bundle>>

Submit(r) == deposit' = [deposit EXCEPT ![r].status = "pending"]

\* The status of sendTransaction's reply is not looked at.
SendDeposit(r) ==
  /\ pc[r] = "send"
  /\ Submit(r)
  /\ tries' = [tries EXCEPT ![r] = 0]
  /\ GoTo(r, "confirm")
  /\ UNCHANGED <<req, merchant, channel, dest, answer, database,
                 payment, accountSeq, created, bundle>>

\* The network took the transaction but its reply did not arrive.
LoseSendReply(r) ==
  /\ pc[r] = "send"
  /\ Submit(r)
  /\ Answer(r, "error")
  /\ UNCHANGED <<req, merchant, channel, dest, tries, database,
                 payment, accountSeq, created, bundle>>

\* A transaction not found yet, or still pending, is asked for again.
PollDeposit(r) ==
  /\ pc[r] = "confirm"
  /\ tries[r] < MaxPolls
  /\ \/ /\ deposit[r].status = "SUCCESS"
        /\ GoTo(r, "post")
        /\ UNCHANGED <<tries, answer>>
     \/ /\ deposit[r].status = "FAILED"
        /\ Answer(r, "error")
        /\ UNCHANGED tries
     \/ /\ deposit[r].status = "pending"
        /\ tries' = [tries EXCEPT ![r] = @ + 1]
        /\ UNCHANGED <<pc, answer>>
  /\ UNCHANGED <<req, merchant, channel, dest, database, world>>

\* At the deadline the loop just ends and the handler goes on.
GiveUpOnDeposit(r) ==
  /\ pc[r] = "confirm"
  /\ tries[r] = MaxPolls
  /\ GoTo(r, "post")
  /\ UNCHANGED <<req, merchant, channel, dest, tries, answer, database, world>>

-----------------------------------------------------------------------------
(* The bundle. *)

\* Mutant: the deposit operation leaves the fee out.
ProposeWithoutFee(r, named) ==
  bundle' = [bundle EXCEPT ![r] =
    [status |-> "PENDING", named |-> named, to |-> channel[r],
     inflow |-> req[r].amount, credit |-> req[r].amount,
     root |-> merchant[r].root, dest |-> dest[r]]]

\* One deposit operation and the CREATEs that partition the amount over
\* the destinations (PartitionAmount: the parts sum to the amount).
Propose(r, named) ==
  bundle' = [bundle EXCEPT ![r] =
    [status |-> "PENDING", named |-> named, to |-> channel[r],
     inflow |-> req[r].amount + Fee, credit |-> req[r].amount,
     root |-> merchant[r].root, dest |-> dest[r]]]

\* The provider accepts; a reply without an id skips the settlement wait.
PostBundle(r) ==
  /\ pc[r] = "post"
  /\ \E named \in Naming :
       /\ Propose(r, named)
       /\ GoTo(r, IF named THEN "settle" ELSE "record")
  /\ tries' = [tries EXCEPT ![r] = 0]
  /\ UNCHANGED <<req, merchant, channel, dest, answer, database,
                 payment, accountSeq, created, deposit>>

\* The provider accepted the bundle but its reply did not arrive.
LosePostReply(r) ==
  /\ pc[r] = "post"
  /\ Propose(r, TRUE)
  /\ Answer(r, "error")
  /\ UNCHANGED <<req, merchant, channel, dest, tries, database,
                 payment, accountSeq, created, deposit>>

\* Mutant: any final status of the bundle ends the wait as settled.
PollBundleForAnyEnd(r) ==
  /\ pc[r] = "settle"
  /\ tries[r] < MaxPolls
  /\ \/ /\ bundle[r].status # "PENDING"
        /\ GoTo(r, "record")
        /\ UNCHANGED tries
     \/ /\ tries' = [tries EXCEPT ![r] = @ + 1]
        /\ UNCHANGED pc
  /\ UNCHANGED <<req, merchant, channel, dest, answer, database, world>>

\* Mutant: polls are not counted against the deadline.
PollBundleForever(r) ==
  /\ pc[r] = "settle"
  /\ tries[r] < MaxPolls
  /\ \/ /\ bundle[r].status = "COMPLETED"
        /\ GoTo(r, "record")
        /\ UNCHANGED answer
     \/ /\ bundle[r].status \in {"FAILED", "EXPIRED"}
        /\ Answer(r, "error")
  /\ UNCHANGED <<req, merchant, channel, dest, tries, database, world>>

\* A rate-limited poll (429) counts for nothing, whatever the status is.
PollBundle(r) ==
  /\ pc[r] = "settle"
  /\ tries[r] < MaxPolls
  /\ \/ /\ bundle[r].status = "COMPLETED"
        /\ GoTo(r, "record")
        /\ UNCHANGED <<tries, answer>>
     \/ /\ bundle[r].status \in {"FAILED", "EXPIRED"}
        /\ Answer(r, "error")
        /\ UNCHANGED tries
     \/ /\ tries' = [tries EXCEPT ![r] = @ + 1]
        /\ UNCHANGED <<pc, answer>>
  /\ UNCHANGED <<req, merchant, channel, dest, database, world>>

\* Mutant: the deadline ends the wait as if the bundle had settled.
FallThroughAtDeadline(r) ==
  /\ pc[r] = "settle"
  /\ tries[r] = MaxPolls
  /\ GoTo(r, "record")
  /\ UNCHANGED <<req, merchant, channel, dest, tries, answer, database, world>>

\* Mutant: the deadline is answered but the handler does not return.
AnswerAtDeadlineAndGoOn(r) ==
  /\ pc[r] = "settle"
  /\ tries[r] = MaxPolls
  /\ GoTo(r, "record")
  /\ answer' = [answer EXCEPT ![r] = "error"]
  /\ UNCHANGED <<req, merchant, channel, dest, tries, database, world>>

\* Mutant: at the deadline the bundle is posted once more.
PostAgainAtDeadline(r) ==
  /\ pc[r] = "settle"
  /\ tries[r] = MaxPolls
  /\ GoTo(r, "post")
  /\ UNCHANGED <<req, merchant, channel, dest, tries, answer, database, world>>

GiveUpOnBundle(r) ==
  /\ pc[r] = "settle"
  /\ tries[r] = MaxPolls
  /\ Answer(r, "error")
  /\ UNCHANGED <<req, merchant, channel, dest, tries, database, world>>

-----------------------------------------------------------------------------
(* The transaction log and the answer. *)

\* The foreign key refuses the row of an account deleted meanwhile.
RecordPayment(r) ==
  /\ pc[r] = "record"
  /\ \/ /\ account[req[r].merchant] # None
        /\ row' = [row EXCEPT ![r] =
             [wallet |-> req[r].merchant, amount |-> req[r].amount,
              bundled |-> bundle[r].named]]
        /\ GoTo(r, "reply")
        /\ UNCHANGED answer
     \/ /\ account[req[r].merchant] = None
        /\ Answer(r, "error")
        /\ UNCHANGED row
  /\ UNCHANGED <<req, merchant, channel, dest, tries, account, world>>

ReplyCompleted(r) ==
  /\ pc[r] = "reply"
  /\ Answer(r, "completed")
  /\ UNCHANGED <<req, merchant, channel, dest, tries, database, world>>

\* Mutant: a failing step is reported as a refusal.
ThrowAsRefusal(r) ==
  /\ pc[r] \in Parked
  /\ Answer(r, "refused")
  /\ UNCHANGED <<req, merchant, channel, dest, tries, database, world>>

\* Any await may reject (a query, a fetch, a simulation, a decryption, a
\* provider's refusal): the catch block answers, nothing is undone.
Throw(r) ==
  /\ pc[r] \in Parked
  /\ Answer(r, "error")
  /\ UNCHANGED <<req, merchant, channel, dest, tries, database, world>>

Step(r) ==
  \/ FindMerchant(r) \/ RouteToChannel(r) \/ PickProvider(r)
  \/ VerifyPayment(r) \/ CheckDestinations(r) \/ Redirect(r)
  \/ BuildDeposit(r) \/ SendDeposit(r) \/ PollDeposit(r)
  \/ GiveUpOnDeposit(r) \/ PostBundle(r) \/ PollBundle(r)
  \/ GiveUpOnBundle(r) \/ RecordPayment(r) \/ ReplyCompleted(r)

Fault(r) == Throw(r) \/ LoseSendReply(r) \/ LosePostReply(r)

-----------------------------------------------------------------------------
(* Everything else that moves. *)

\* The process dies: requests in flight are never answered.
Crash ==
  /\ \E r \in Requests : pc[r] \in Parked
  /\ pc' = [r \in Requests |-> IF pc[r] \in Parked THEN "lost" ELSE pc[r]]
  /\ UNCHANGED <<req, merchant, channel, dest, tries, answer, database, world>>

CreateAccount(m) ==
  /\ account[m] = None
  /\ account' = [account EXCEPT ![m] = [opex |-> None, root |-> None]]
  /\ UNCHANGED <<handler, row, world>>

\* Public key and encrypted secret change in one UPDATE.
RegisterOpex(m, k) ==
  /\ account[m] # None
  /\ account' = [account EXCEPT ![m].opex = k]
  /\ UNCHANGED <<handler, row, world>>

StoreDelegationKey(m, u) ==
  /\ account[m] # None
  /\ account' = [account EXCEPT ![m].root = u]
  /\ UNCHANGED <<handler, row, world>>

\* The transactions of a deleted account are deleted with it.
DeleteAccount(m) ==
  /\ account[m] # None
  /\ account' = [account EXCEPT ![m] = None]
  /\ row' = [r \in Requests |->
               IF row[r] # None /\ row[r].wallet = m THEN None ELSE row[r]]
  /\ UNCHANGED <<handler, world>>

\* A customer's transaction is included in a ledger, whatever its outcome.
CustomerPays(h, p) ==
  /\ payment[h] = None
  /\ payment' = [payment EXCEPT ![h] = p]
  /\ UNCHANGED <<handler, database, accountSeq, created, deposit, bundle>>

\* The ledger takes a transaction only with the account's next number; it
\* is valid for 300 s, so it may land long after the handler stopped
\* polling, or never.
LandDeposit(r, outcome) ==
  /\ deposit[r] # None
  /\ deposit[r].status = "pending"
  /\ deposit[r].seq = accountSeq[deposit[r].from] + 1
  /\ accountSeq' = [accountSeq EXCEPT ![deposit[r].from] = @ + 1]
  /\ deposit' = [deposit EXCEPT ![r].status = outcome]
  /\ UNCHANGED <<handler, database, payment, created, bundle>>

\* A UTXO is created once: the channel takes no bundle that would create
\* one again.  Nothing else is assumed of what it accepts.
SettleBundle(r) ==
  LET b == bundle[r] IN
  /\ b # None
  /\ b.status = "PENDING"
  /\ b.dest \cap created[<<b.to, b.root>>] = {}
  /\ created' = [created EXCEPT ![<<b.to, b.root>>] = @ \cup b.dest]
  /\ bundle' = [bundle EXCEPT ![r].status = "COMPLETED"]
  /\ UNCHANGED <<handler, database, payment, accountSeq, deposit>>

DropBundle(r, outcome) ==
  /\ bundle[r] # None
  /\ bundle[r].status = "PENDING"
  /\ bundle' = [bundle EXCEPT ![r].status = outcome]
  /\ UNCHANGED <<handler, database, payment, accountSeq, created, deposit>>

Arrive(r) == ReceiveMalformed(r) \/ \E i \in Offered : Receive(r, i)

Accounts(m) ==
  \/ CreateAccount(m) \/ DeleteAccount(m)
  \/ \E k \in Keys : RegisterOpex(m, k)
  \/ \E u \in Roots : StoreDelegationKey(m, u)

Network(r) ==
  \/ \E o \in {"SUCCESS", "FAILED"} : LandDeposit(r, o)
  \/ SettleBundle(r)
  \/ \E o \in {"FAILED", "EXPIRED"} : DropBundle(r, o)

Next ==
  \/ \E r \in Requests : Arrive(r) \/ Step(r) \/ Fault(r) \/ Network(r)
  \/ Crash
  \/ \E m \in Merchants : Accounts(m)
  \/ \E h \in Hashes, p \in Paid : CustomerPays(h, p)

Spec == Init /\ [][Next]_vars

\* An await whose answer is there is resumed: the event loop serves every
\* request, and every external call returns (or throws) in the end.
FairSpec == Spec /\ \A r \in Requests : WF_vars(Step(r))

-----------------------------------------------------------------------------
(* Properties. *)

\* An IN row that carries a bundle id stands for money the merchant has:
\* the bundle settled, its CREATEs are worth the row's amount and all of
\* them exist on the channel under the merchant's root (lines 328-385).
RecordedOnlySettled ==
  \A r \in Requests :
    row[r] # None /\ row[r].bundled =>
      /\ bundle[r].status = "COMPLETED"
      /\ bundle[r].credit = row[r].amount
      /\ bundle[r].dest \subseteq created[<<bundle[r].to, bundle[r].root>>]

\* A client told COMPLETED with a bundle id can rely on it, whatever
\* became of the account since: the bundle settled (lines 356-375, 391).
CompletedAnswerSettled ==
  \A r \in Requests :
    answer[r] = "completed" /\ bundle[r].named =>
      bundle[r].status = "COMPLETED"

\* Whatever happens to the merchant's row and to the councils while the
\* request runs, the OpEx account debited is the one that the operation the
\* client named is addressed to, the number debited exceeds that operation's
\* by the fee at most, and the asset debited is the one the client asked for
\* (lines 82, 115-118, 163-184, 225-239).  No more than that: as the
\* operation's asset and outcome are not looked at, it may have moved another
\* asset than the one debited, or nothing at all.
DebitMatchesOperation ==
  \A r \in Requests :
    deposit[r] # None =>
      LET p == payment[req[r].hash] IN
      /\ p # None
      /\ deposit[r].from = p.to
      /\ deposit[r].amount <= p.amount + Fee
      /\ deposit[r].asset = req[r].asset

\* The SAC transfer matches the bundle's deposit operation, goes to the
\* same channel, and the outflow differs by the fee (lines 221-225,
\* 263-266): otherwise the channel rejects the bundle.
TransferMatchesBundle ==
  \A r \in Requests :
    bundle[r] # None =>
      /\ deposit[r] # None
      /\ deposit[r].status # "built"
      /\ deposit[r].to = bundle[r].to
      /\ deposit[r].amount = bundle[r].inflow
      /\ bundle[r].inflow = bundle[r].credit + Fee

\* A request refused by a check (400, 404, 422, 503) left nothing behind:
\* no transfer, no bundle, no row; the customer may send it again.
RefusedMovesNothing ==
  \A r \in Requests :
    answer[r] = "refused" =>
      deposit[r] = None /\ bundle[r] = None /\ row[r] = None

\* An answered or lost request is over: nothing is sent, posted or logged
\* for it later, and its answer stands (only the chain and the provider go
\* on with what they were given).
EndedIsFinal ==
  [][\A r \in Requests :
       Ended(r) =>
         /\ UNCHANGED <<pc[r], answer[r]>>
         /\ bundle[r] = None => bundle'[r] = None
         /\ row[r] = None => row'[r] = None
         /\ (deposit[r] = None \/ deposit[r].status = "built")
              => deposit'[r] = deposit[r]]_vars

\* The awaits that are still ahead of each one.
Ahead == [idle |-> 14, lookup |-> 13, route |-> 12, provider |-> 11,
          verify |-> 10, destinations |-> 9, redirect |-> 8, sequence |-> 7,
          send |-> 6, confirm |-> 5, post |-> 4, settle |-> 3, record |-> 2,
          reply |-> 1, done |-> 0, lost |-> 0]

StepsLeft(r) == Ahead[pc[r]] * (MaxPolls + 1) + (MaxPolls - tries[r])

LocalsOf(r) == <<pc[r], req[r], merchant[r], channel[r], dest[r], tries[r],
                 answer[r]>>

\* Nothing a handler does can be done again without end: each of its steps
\* leaves fewer to take, through both polling loops, and what the accounts,
\* the chain, the provider or other requests do gives it no new ones.  So a
\* request takes at most 15 * (MaxPolls + 1) steps (lines 252-260,
\* 339-373).
EveryStepCounts ==
  [][\A r \in Requests :
       UNCHANGED LocalsOf(r) \/ StepsLeft(r)' < StepsLeft(r)]_vars

\* Every request is answered, unless the server dies first: both polling
\* loops end (lines 252-260, 339-373).
EveryRequestEnds ==
  \A r \in Requests : pc[r] # "idle" ~> Ended(r)

-----------------------------------------------------------------------------
(* The promise the handler implements. *)

\* A row or an answer without a bundle id names nothing that could have
\* settled: it vouches for nothing, as an error does.
Vouched == {r \in Requests : row[r] # None /\ row[r].bundled}

Report ==
  [r \in Requests |->
     IF answer[r] = "completed" /\ ~bundle[r].named
     THEN "error" ELSE answer[r]]

Promise == INSTANCE Payment WITH
  credited <- {r \in Requests :
                 bundle[r] # None /\ bundle[r].status = "COMPLETED"},
  logged <- Vouched,
  report <- Report

\* Each step of the handlers, the chain, the accounts or a crash is a step
\* of Payment: a payment is logged, and reported completed, with the id of
\* its bundle only once it is credited (the purpose lines 328-334 give for
\* the settlement wait), and a refused one is never credited.
PromiseKept == Promise!Spec

-----------------------------------------------------------------------------
(* What the repository says and the code does not do. *)

\* "One row per payment" (transaction.entity.ts:27): two IN rows never
\* stand for the same customer payment.
OneRowPerPayment ==
  \A r, s \in Requests :
    r # s /\ row[r] # None /\ row[s] # None => req[r].hash # req[s].hash
=============================================================================
