------------------------ MODULE InstantExecuteProofs ------------------------
(***************************************************************************)
(* Theorems about InstantExecute, for every value of its constants.        *)
(*                                                                         *)
(* The safety properties are not inductive: that a logged row is settled   *)
(* depends on what the handler knew when it left the settlement wait, and  *)
(* that in turn on what it read at the start.  Stages says, for a handler  *)
(* parked at each await, what the code before it has established; Given    *)
(* says what stays true of a deposit or a bundle once it exists, whatever  *)
(* became of its request.                                                  *)
(***************************************************************************)
EXTENDS InstantExecute, TLAPS

PastLookup == Parked \ {"lookup"}
PastRoute == PastLookup \ {"route"}
PastVerify == PastRoute \ {"provider", "verify"}
PastBuild == PastVerify \ {"destinations", "redirect", "sequence"}
PastPost == {"settle", "record", "reply"}

\* What the handler of r has read and checked at each await.
Checked(r) ==
  /\ pc[r] \in Parked => req[r] \in Offered
  /\ pc[r] \in PastLookup => merchant[r] \in Payee
  /\ pc[r] \in PastRoute =>
       channel[r] \in Channels /\ AssetOf[channel[r]] = req[r].asset
  /\ pc[r] \in PastVerify => Covers(payment[req[r].hash], r)

\* What the handler of r has done at each await.
Stages(r) ==
  /\ pc[r] \in {"idle"} \cup (Parked \ PastBuild) => deposit[r] = None
  /\ pc[r] \in PastBuild => deposit[r] # None
  /\ pc[r] \in PastBuild \ {"send"} => deposit[r].status # "built"
  /\ pc[r] \in {"idle"} \cup (Parked \ PastPost) => bundle[r] = None
  /\ pc[r] \in PastPost => bundle[r] # None
  /\ pc[r] \in {"record", "reply"} =>
       (bundle[r].named => bundle[r].status = "COMPLETED")
  /\ pc[r] \in {"idle"} \cup (Parked \ {"reply"}) => row[r] = None
  /\ pc[r] \in {"idle", "lost"} \cup Parked => answer[r] = "none"

\* What stays true of a deposit, a bundle, a row and an answer.
DepositGiven(r) ==
  deposit[r] # None =>
    /\ req[r] \in Offered /\ merchant[r] \in Payee /\ channel[r] \in Channels
    /\ Covers(payment[req[r].hash], r)
    /\ deposit[r].from = merchant[r].opex
    /\ deposit[r].to = channel[r]
    /\ deposit[r].asset = req[r].asset
    /\ deposit[r].amount = req[r].amount + Fee

BundleGiven(r) ==
  bundle[r] # None =>
    /\ deposit[r] # None
    /\ deposit[r].status # "built"
    /\ bundle[r].to = channel[r]
    /\ bundle[r].credit = req[r].amount
    /\ bundle[r].inflow = req[r].amount + Fee
    /\ bundle[r].status = "COMPLETED" =>
         bundle[r].dest \subseteq created[<<bundle[r].to, bundle[r].root>>]

RowGiven(r) ==
  row[r] # None =>
    /\ bundle[r] # None
    /\ row[r].amount = req[r].amount
    /\ row[r].bundled = bundle[r].named
    /\ bundle[r].named => bundle[r].status = "COMPLETED"

AnswerGiven(r) ==
  /\ answer[r] = "completed" =>
       /\ bundle[r] # None
       /\ bundle[r].named => bundle[r].status = "COMPLETED"
  /\ answer[r] = "refused" =>
       deposit[r] = None /\ bundle[r] = None /\ row[r] = None

RequestInv(r) ==
  /\ Checked(r) /\ Stages(r)
  /\ DepositGiven(r) /\ BundleGiven(r) /\ RowGiven(r) /\ AnswerGiven(r)

IInv ==
  /\ TypeOK
  /\ \A r \in Requests : RequestInv(r)

-----------------------------------------------------------------------------
(* Type correctness. *)

\* The server starts with every request idle and any accounts stored.
LEMMA TypeInit == Init => TypeOK
  BY AmountsAssumption
  DEF Init, TypeOK, HandlerTypeOK, DatabaseTypeOK, WorldTypeOK, Locations

\* Every step keeps the types.
LEMMA TypeStep == IInv /\ [Next]_vars => TypeOK'
<1> SUFFICES ASSUME IInv, [Next]_vars PROVE TypeOK'
  OBVIOUS
<1> USE DEF TypeOK, GoTo, Answer, handler, database, world
<1>a. HandlerTypeOK /\ DatabaseTypeOK /\ WorldTypeOK
  BY DEF IInv
<1>c. ASSUME NEW r \in Requests
      PROVE  /\ Checked(r) /\ Stages(r)
             /\ req[r] \in Offered => req[r] \in Inputs
  BY OfferedAssumption DEF IInv, RequestInv
<1>1. ASSUME NEW r \in Requests, NEW i \in Offered, Receive(r, i)
      PROVE  TypeOK'
  BY <1>a, <1>1
  DEF Receive, HandlerTypeOK, DatabaseTypeOK, WorldTypeOK, Locations, Parked
<1>2. ASSUME NEW r \in Requests, ReceiveMalformed(r) PROVE TypeOK'
  <2>1. HandlerTypeOK'
    BY <1>a, <1>2 DEF ReceiveMalformed, HandlerTypeOK, Locations, Parked
  <2>2. DatabaseTypeOK'
    BY <1>a, <1>2 DEF ReceiveMalformed, DatabaseTypeOK
  <2>3. WorldTypeOK'
    BY <1>a, <1>2 DEF ReceiveMalformed, WorldTypeOK
  <2> QED
    BY <2>1, <2>2, <2>3
<1>3. ASSUME NEW r \in Requests, FindMerchant(r) PROVE TypeOK'
  <2>1. HandlerTypeOK'
    BY <1>a, <1>3 DEF FindMerchant, HandlerTypeOK, Locations, Parked
  <2>2. DatabaseTypeOK'
    BY <1>a, <1>3 DEF FindMerchant, DatabaseTypeOK
  <2>3. WorldTypeOK'
    BY <1>a, <1>3 DEF FindMerchant, WorldTypeOK
  <2> QED
    BY <2>1, <2>2, <2>3
<1>4. ASSUME NEW r \in Requests, RouteToChannel(r) PROVE TypeOK'
  <2>1. HandlerTypeOK'
    BY <1>a, <1>4 DEF RouteToChannel, HandlerTypeOK, Locations, Parked
  <2>2. DatabaseTypeOK'
    BY <1>a, <1>4 DEF RouteToChannel, DatabaseTypeOK
  <2>3. WorldTypeOK'
    BY <1>a, <1>4 DEF RouteToChannel, WorldTypeOK
  <2> QED
    BY <2>1, <2>2, <2>3
<1>5. ASSUME NEW r \in Requests, PickProvider(r) PROVE TypeOK'
  <2>1. HandlerTypeOK'
    BY <1>a, <1>5 DEF PickProvider, HandlerTypeOK, Locations, Parked
  <2>2. DatabaseTypeOK'
    BY <1>a, <1>5 DEF PickProvider, DatabaseTypeOK
  <2>3. WorldTypeOK'
    BY <1>a, <1>5 DEF PickProvider, WorldTypeOK
  <2> QED
    BY <2>1, <2>2, <2>3
<1>6. ASSUME NEW r \in Requests, VerifyPayment(r) PROVE TypeOK'
  <2>1. HandlerTypeOK'
    BY <1>a, <1>6 DEF VerifyPayment, HandlerTypeOK, Locations, Parked
  <2>2. DatabaseTypeOK'
    BY <1>a, <1>6 DEF VerifyPayment, DatabaseTypeOK
  <2>3. WorldTypeOK'
    BY <1>a, <1>6 DEF VerifyPayment, WorldTypeOK
  <2> QED
    BY <2>1, <2>2, <2>3
<1>7. ASSUME NEW r \in Requests, CheckDestinations(r) PROVE TypeOK'
  <2>1. HandlerTypeOK'
    <3>1. req[r].indexes \in SUBSET Indexes
      BY <1>c, <1>7 DEF CheckDestinations, Checked, Inputs, Parked
    <3> QED
      BY <1>a, <1>7, <3>1
      DEF CheckDestinations, HandlerTypeOK, Locations, Parked
  <2>2. DatabaseTypeOK'
    BY <1>a, <1>7 DEF CheckDestinations, DatabaseTypeOK
  <2>3. WorldTypeOK'
    BY <1>a, <1>7 DEF CheckDestinations, WorldTypeOK
  <2> QED
    BY <2>1, <2>2, <2>3
<1>8. ASSUME NEW r \in Requests, Redirect(r) PROVE TypeOK'
  <2>1. HandlerTypeOK'
    BY <1>a, <1>8 DEF Redirect, HandlerTypeOK, Locations, Parked
  <2>2. DatabaseTypeOK'
    BY <1>a, <1>8 DEF Redirect, DatabaseTypeOK
  <2>3. WorldTypeOK'
    BY <1>a, <1>8 DEF Redirect, WorldTypeOK
  <2> QED
    BY <2>1, <2>2, <2>3
<1>9. ASSUME NEW r \in Requests, BuildDeposit(r) PROVE TypeOK'
  <2>1. HandlerTypeOK'
    BY <1>a, <1>9 DEF BuildDeposit, HandlerTypeOK, Locations, Parked
  <2>2. DatabaseTypeOK'
    BY <1>a, <1>9 DEF BuildDeposit, DatabaseTypeOK
  <2>3. WorldTypeOK'
    <3> DEFINE d == [status |-> "built",
                     seq |-> accountSeq[merchant[r].opex] + 1,
                     from |-> merchant[r].opex, to |-> channel[r],
                     asset |-> AssetOf[channel[r]],
                     amount |-> req[r].amount + Fee]
    <3>1. /\ req[r] \in Inputs /\ merchant[r] \in Payee
          /\ channel[r] \in Channels
      BY <1>c, <1>9 DEF BuildDeposit, Checked, PastRoute, PastLookup, Parked
    <3>2. accountSeq[merchant[r].opex] \in Nat
      BY <1>a, <3>1 DEF WorldTypeOK, Payee
    <3>3. d \in Deposit
      BY <3>1, <3>2, AmountsAssumption, AssetsAssumption
      DEF Deposit, Inputs, Payee
    <3>4. deposit' = [deposit EXCEPT ![r] = d]
      BY <1>9 DEF BuildDeposit
    <3> QED
      BY <1>a, <1>9, <3>3, <3>4 DEF BuildDeposit, WorldTypeOK
  <2> QED
    BY <2>1, <2>2, <2>3
<1>10. ASSUME NEW r \in Requests, SendDeposit(r) PROVE TypeOK'
  <2>1. HandlerTypeOK'
    BY <1>a, <1>10, AmountsAssumption
    DEF SendDeposit, HandlerTypeOK, Locations, Parked
  <2>2. DatabaseTypeOK'
    BY <1>a, <1>10 DEF SendDeposit, DatabaseTypeOK
  <2>3. WorldTypeOK'
    <3>1. deposit[r] \in Deposit
      BY <1>a, <1>c, <1>10
      DEF SendDeposit, Stages, PastBuild, PastVerify, PastRoute,
         PastLookup, Parked, WorldTypeOK
    <3> QED
      BY <1>a, <1>10, <3>1 DEF SendDeposit, Submit, Deposit, WorldTypeOK
  <2> QED
    BY <2>1, <2>2, <2>3
<1>11. ASSUME NEW r \in Requests, LoseSendReply(r) PROVE TypeOK'
  <2>1. HandlerTypeOK'
    BY <1>a, <1>11 DEF LoseSendReply, HandlerTypeOK, Locations, Parked
  <2>2. DatabaseTypeOK'
    BY <1>a, <1>11 DEF LoseSendReply, DatabaseTypeOK
  <2>3. WorldTypeOK'
    <3>1. deposit[r] \in Deposit
      BY <1>a, <1>c, <1>11
      DEF LoseSendReply, Stages, PastBuild, PastVerify, PastRoute,
         PastLookup, Parked, WorldTypeOK
    <3> QED
      BY <1>a, <1>11, <3>1 DEF LoseSendReply, Submit, Deposit, WorldTypeOK
  <2> QED
    BY <2>1, <2>2, <2>3
<1>12. ASSUME NEW r \in Requests, PollDeposit(r) PROVE TypeOK'
  <2>1. HandlerTypeOK'
    BY <1>a, <1>12, AmountsAssumption
    DEF PollDeposit, HandlerTypeOK, Locations, Parked
  <2>2. DatabaseTypeOK'
    BY <1>a, <1>12 DEF PollDeposit, DatabaseTypeOK
  <2>3. WorldTypeOK'
    BY <1>a, <1>12 DEF PollDeposit, WorldTypeOK
  <2> QED
    BY <2>1, <2>2, <2>3
<1>13. ASSUME NEW r \in Requests, GiveUpOnDeposit(r) PROVE TypeOK'
  <2>1. HandlerTypeOK'
    BY <1>a, <1>13 DEF GiveUpOnDeposit, HandlerTypeOK, Locations, Parked
  <2>2. DatabaseTypeOK'
    BY <1>a, <1>13 DEF GiveUpOnDeposit, DatabaseTypeOK
  <2>3. WorldTypeOK'
    BY <1>a, <1>13 DEF GiveUpOnDeposit, WorldTypeOK
  <2> QED
    BY <2>1, <2>2, <2>3
<1>14. ASSUME NEW r \in Requests, PostBundle(r) PROVE TypeOK'
  <2>1. HandlerTypeOK'
    BY <1>a, <1>14, AmountsAssumption
    DEF PostBundle, HandlerTypeOK, Locations, Parked
  <2>2. DatabaseTypeOK'
    BY <1>a, <1>14 DEF PostBundle, DatabaseTypeOK
  <2>3. WorldTypeOK'
    <3> DEFINE b(named) ==
          [status |-> "PENDING", named |-> named, to |-> channel[r],
           inflow |-> req[r].amount + Fee, credit |-> req[r].amount,
           root |-> merchant[r].root, dest |-> dest[r]]
    <3>1. /\ req[r] \in Inputs /\ merchant[r] \in Payee
          /\ channel[r] \in Channels
      BY <1>c, <1>14 DEF PostBundle, Checked, PastRoute, PastLookup, Parked
    <3>2. ASSUME NEW named \in BOOLEAN PROVE b(named) \in Bundle
      BY <1>a, <3>1, AmountsAssumption
      DEF Bundle, Inputs, Payee, HandlerTypeOK
    <3>3. \E named \in BOOLEAN : bundle' = [bundle EXCEPT ![r] = b(named)]
      BY <1>14, NamingAssumption DEF PostBundle, Propose
    <3> QED
      BY <1>a, <1>14, <3>2, <3>3 DEF PostBundle, WorldTypeOK
  <2> QED
    BY <2>1, <2>2, <2>3
<1>15. ASSUME NEW r \in Requests, LosePostReply(r) PROVE TypeOK'
  <2>1. HandlerTypeOK'
    BY <1>a, <1>15 DEF LosePostReply, HandlerTypeOK, Locations, Parked
  <2>2. DatabaseTypeOK'
    BY <1>a, <1>15 DEF LosePostReply, DatabaseTypeOK
  <2>3. WorldTypeOK'
    <3> DEFINE b(named) ==
          [status |-> "PENDING", named |-> named, to |-> channel[r],
           inflow |-> req[r].amount + Fee, credit |-> req[r].amount,
           root |-> merchant[r].root, dest |-> dest[r]]
    <3>1. /\ req[r] \in Inputs /\ merchant[r] \in Payee
          /\ channel[r] \in Channels
      BY <1>c, <1>15 DEF LosePostReply, Checked, PastRoute, PastLookup, Parked
    <3>2. ASSUME NEW named \in BOOLEAN PROVE b(named) \in Bundle
      BY <1>a, <3>1, AmountsAssumption
      DEF Bundle, Inputs, Payee, HandlerTypeOK
    <3>3. \E named \in BOOLEAN : bundle' = [bundle EXCEPT ![r] = b(named)]
      BY <1>15, NamingAssumption DEF LosePostReply, Propose
    <3> QED
      BY <1>a, <1>15, <3>2, <3>3 DEF LosePostReply, WorldTypeOK
  <2> QED
    BY <2>1, <2>2, <2>3
<1>16. ASSUME NEW r \in Requests, PollBundle(r) PROVE TypeOK'
  <2>1. HandlerTypeOK'
    BY <1>a, <1>16, AmountsAssumption
    DEF PollBundle, HandlerTypeOK, Locations, Parked
  <2>2. DatabaseTypeOK'
    BY <1>a, <1>16 DEF PollBundle, DatabaseTypeOK
  <2>3. WorldTypeOK'
    BY <1>a, <1>16 DEF PollBundle, WorldTypeOK
  <2> QED
    BY <2>1, <2>2, <2>3
<1>17. ASSUME NEW r \in Requests, GiveUpOnBundle(r) PROVE TypeOK'
  <2>1. HandlerTypeOK'
    BY <1>a, <1>17 DEF GiveUpOnBundle, HandlerTypeOK, Locations, Parked
  <2>2. DatabaseTypeOK'
    BY <1>a, <1>17 DEF GiveUpOnBundle, DatabaseTypeOK
  <2>3. WorldTypeOK'
    BY <1>a, <1>17 DEF GiveUpOnBundle, WorldTypeOK
  <2> QED
    BY <2>1, <2>2, <2>3
<1>18. ASSUME NEW r \in Requests, RecordPayment(r) PROVE TypeOK'
  <2>1. HandlerTypeOK'
    BY <1>a, <1>18 DEF RecordPayment, HandlerTypeOK, Locations, Parked
  <2>2. DatabaseTypeOK'
    <3> DEFINE t == [wallet |-> req[r].merchant, amount |-> req[r].amount,
                     bundled |-> bundle[r].named]
    <3>1. req[r] \in Inputs
      BY <1>c, <1>18 DEF RecordPayment, Checked, Parked
    <3>2. bundle[r] \in Bundle
      BY <1>a, <1>c, <1>18 DEF RecordPayment, Stages, PastPost, WorldTypeOK
    <3>3. t \in Row
      BY <3>1, <3>2 DEF Row, Inputs, Bundle
    <3>4. row' = [row EXCEPT ![r] = t] \/ row' = row
      BY <1>18 DEF RecordPayment
    <3> QED
      BY <1>a, <1>18, <3>3, <3>4 DEF RecordPayment, DatabaseTypeOK
  <2>3. WorldTypeOK'
    BY <1>a, <1>18 DEF RecordPayment, WorldTypeOK
  <2> QED
    BY <2>1, <2>2, <2>3
<1>19. ASSUME NEW r \in Requests, ReplyCompleted(r) PROVE TypeOK'
  <2>1. HandlerTypeOK'
    BY <1>a, <1>19 DEF ReplyCompleted, HandlerTypeOK, Locations, Parked
  <2>2. DatabaseTypeOK'
    BY <1>a, <1>19 DEF ReplyCompleted, DatabaseTypeOK
  <2>3. WorldTypeOK'
    BY <1>a, <1>19 DEF ReplyCompleted, WorldTypeOK
  <2> QED
    BY <2>1, <2>2, <2>3
<1>20. ASSUME NEW r \in Requests, Throw(r) PROVE TypeOK'
  <2>1. HandlerTypeOK'
    BY <1>a, <1>20 DEF Throw, HandlerTypeOK, Locations, Parked
  <2>2. DatabaseTypeOK'
    BY <1>a, <1>20 DEF Throw, DatabaseTypeOK
  <2>3. WorldTypeOK'
    BY <1>a, <1>20 DEF Throw, WorldTypeOK
  <2> QED
    BY <2>1, <2>2, <2>3
<1>21. CASE Crash
  BY <1>a, <1>21
  DEF Crash, HandlerTypeOK, DatabaseTypeOK, WorldTypeOK, Locations
<1>22. ASSUME NEW m \in Merchants, CreateAccount(m) PROVE TypeOK'
  BY <1>a, <1>22
  DEF CreateAccount, AccountRow, HandlerTypeOK, DatabaseTypeOK, WorldTypeOK
<1>23. ASSUME NEW m \in Merchants, DeleteAccount(m) PROVE TypeOK'
  BY <1>a, <1>23
  DEF DeleteAccount, HandlerTypeOK, DatabaseTypeOK, WorldTypeOK
<1>24. ASSUME NEW m \in Merchants, NEW k \in Keys, RegisterOpex(m, k)
       PROVE  TypeOK'
  BY <1>a, <1>24
  DEF RegisterOpex, AccountRow, HandlerTypeOK, DatabaseTypeOK, WorldTypeOK
<1>25. ASSUME NEW m \in Merchants, NEW u \in Roots, StoreDelegationKey(m, u)
       PROVE  TypeOK'
  BY <1>a, <1>25
  DEF StoreDelegationKey, AccountRow, HandlerTypeOK, DatabaseTypeOK,
      WorldTypeOK
<1>26. ASSUME NEW h \in Hashes, NEW p \in Paid, CustomerPays(h, p)
       PROVE  TypeOK'
  BY <1>a, <1>26, PaidAssumption
  DEF CustomerPays, HandlerTypeOK, DatabaseTypeOK, WorldTypeOK
<1>27. ASSUME NEW r \in Requests, NEW o \in {"SUCCESS", "FAILED"},
              LandDeposit(r, o)
       PROVE  TypeOK'
  <2>1. HandlerTypeOK' /\ DatabaseTypeOK'
    BY <1>a, <1>27 DEF LandDeposit, HandlerTypeOK, DatabaseTypeOK
  <2>2. WorldTypeOK'
    BY <1>a, <1>27 DEF LandDeposit, WorldTypeOK, Deposit
  <2> QED
    BY <2>1, <2>2
<1>28. ASSUME NEW r \in Requests, SettleBundle(r) PROVE TypeOK'
  <2>1. HandlerTypeOK' /\ DatabaseTypeOK'
    BY <1>a, <1>28 DEF SettleBundle, HandlerTypeOK, DatabaseTypeOK
  <2>2. WorldTypeOK'
    BY <1>a, <1>28 DEF SettleBundle, WorldTypeOK, Bundle
  <2> QED
    BY <2>1, <2>2
<1>29. ASSUME NEW r \in Requests, NEW o \in {"FAILED", "EXPIRED"},
              DropBundle(r, o)
       PROVE  TypeOK'
  <2>1. HandlerTypeOK' /\ DatabaseTypeOK'
    BY <1>a, <1>29 DEF DropBundle, HandlerTypeOK, DatabaseTypeOK
  <2>2. WorldTypeOK'
    BY <1>a, <1>29 DEF DropBundle, WorldTypeOK, Bundle
  <2> QED
    BY <2>1, <2>2
<1>30. CASE UNCHANGED vars
  BY <1>a, <1>30 DEF vars, HandlerTypeOK, DatabaseTypeOK, WorldTypeOK
<1> QED
  BY <1>1, <1>2, <1>3, <1>4, <1>5, <1>6, <1>7, <1>8, <1>9, <1>10, <1>11, <1>12,
     <1>13, <1>14, <1>15, <1>16, <1>17, <1>18, <1>19, <1>20, <1>21, <1>22,
     <1>23, <1>24, <1>25, <1>26, <1>27, <1>28, <1>29, <1>30
  DEF Next, Arrive, Step, Fault, Network, Accounts

-----------------------------------------------------------------------------
(* The inductive invariant. *)

\* What the invariant says of a request is only about the request's own
\* components, about payments, which never change once made, and about
\* created UTXOs, which never disappear.
Untouched(s) ==
  /\ pc'[s] = pc[s] /\ req'[s] = req[s] /\ merchant'[s] = merchant[s]
  /\ channel'[s] = channel[s] /\ answer'[s] = answer[s] /\ row'[s] = row[s]
  /\ deposit'[s] = deposit[s] /\ bundle'[s] = bundle[s]

ChainGrows ==
  /\ \A h \in Hashes : payment[h] # None => payment'[h] = payment[h]
  /\ \A cu \in Channels \X Roots : created[cu] \subseteq created'[cu]

\* A step that leaves a request alone, and only adds to what the chain
\* holds, keeps what is known of that request.
LEMMA Frame ==
  ASSUME TypeOK, NEW s \in Requests, RequestInv(s), Untouched(s), ChainGrows
  PROVE  RequestInv(s)'
<1>1. req[s] \in Offered => req[s].hash \in Hashes
  BY OfferedAssumption DEF Inputs
<1>2. Checked(s)'
  BY <1>1 DEF RequestInv, Checked, Untouched, ChainGrows, Covers, PastVerify,
     PastRoute, PastLookup
<1>3. Stages(s)'
  BY DEF RequestInv, Stages, Untouched
<1>4. DepositGiven(s)'
  BY <1>1 DEF RequestInv, DepositGiven, Untouched, ChainGrows, Covers
<1>5. BundleGiven(s)'
  <2>1. bundle[s] # None =>
          created[<<bundle[s].to, bundle[s].root>>]
            \subseteq created'[<<bundle[s].to, bundle[s].root>>]
    BY DEF TypeOK, WorldTypeOK, Bundle, ChainGrows
  <2> QED
    BY <2>1 DEF RequestInv, BundleGiven, Untouched
<1>6. RowGiven(s)' /\ AnswerGiven(s)'
  BY DEF RequestInv, RowGiven, AnswerGiven, Untouched
<1> QED
  BY <1>2, <1>3, <1>4, <1>5, <1>6 DEF RequestInv

\* A server that has seen no request satisfies the invariant.
LEMMA InvInit == Init => IInv
<1> SUFFICES ASSUME Init PROVE IInv
  OBVIOUS
<1>1. TypeOK
  BY TypeInit
<1>2. ASSUME NEW r \in Requests PROVE RequestInv(r)
  BY DEF Init, RequestInv, Checked, Stages, DepositGiven, BundleGiven,
     RowGiven, AnswerGiven, Parked, PastLookup, PastRoute, PastVerify,
     PastBuild, PastPost
<1> QED
  BY <1>1, <1>2 DEF IInv

\* Every await a handler resumes from, every account update, every move
\* of the chain or the provider and every crash keeps the invariant.
LEMMA InvStep == IInv /\ [Next]_vars => IInv'
<1> SUFFICES ASSUME IInv, [Next]_vars PROVE IInv'
  OBVIOUS
<1> USE DEF GoTo, Answer, handler, database, world
<1> USE DEF Parked, PastLookup, PastRoute, PastVerify, PastBuild, PastPost
<1>a. TypeOK /\ HandlerTypeOK /\ DatabaseTypeOK /\ WorldTypeOK
  BY DEF IInv, TypeOK
<1>b. ASSUME NEW r \in Requests
      PROVE  /\ RequestInv(r)
             /\ Checked(r) /\ Stages(r) /\ DepositGiven(r) /\ BundleGiven(r)
             /\ RowGiven(r) /\ AnswerGiven(r)
             /\ req[r] \in Offered => req[r] \in Inputs
  BY OfferedAssumption DEF IInv, RequestInv
<1>c. ASSUME NEW s \in Requests, Untouched(s), ChainGrows
      PROVE  RequestInv(s)'
  BY <1>a, <1>b, <1>c, Frame
<1>1. ASSUME NEW r \in Requests, NEW i \in Offered, Receive(r, i),
             NEW s \in Requests
      PROVE  RequestInv(s)'
  <2>1. CASE s # r
    BY <1>a, <1>c, <1>1, <2>1
    DEF Receive, HandlerTypeOK, DatabaseTypeOK, WorldTypeOK, Untouched,
        ChainGrows
  <2>2. CASE s = r
    BY <1>a, <1>b, <1>1, <2>2, NoneAssumption
    DEF Receive, RequestInv, Checked, Stages, DepositGiven, BundleGiven,
        RowGiven, AnswerGiven, Covers, HandlerTypeOK, DatabaseTypeOK,
        WorldTypeOK
  <2> QED
    BY <2>1, <2>2
<1>2. ASSUME NEW r \in Requests, ReceiveMalformed(r),
             NEW s \in Requests
      PROVE  RequestInv(s)'
  <2>1. CASE s # r
    BY <1>a, <1>c, <1>2, <2>1
    DEF ReceiveMalformed, HandlerTypeOK, DatabaseTypeOK, WorldTypeOK,
        Untouched,
        ChainGrows
  <2>2. CASE s = r
    BY <1>a, <1>b, <1>2, <2>2, NoneAssumption
    DEF ReceiveMalformed, RequestInv, Checked, Stages, DepositGiven,
        BundleGiven, RowGiven, AnswerGiven, Covers, HandlerTypeOK,
        DatabaseTypeOK, WorldTypeOK
  <2> QED
    BY <2>1, <2>2
<1>3. ASSUME NEW r \in Requests, FindMerchant(r),
             NEW s \in Requests
      PROVE  RequestInv(s)'
  <2>1. CASE s # r
    BY <1>a, <1>c, <1>3, <2>1
    DEF FindMerchant, HandlerTypeOK, DatabaseTypeOK, WorldTypeOK, Untouched,
        ChainGrows
  <2>2. CASE s = r
    BY <1>a, <1>b, <1>3, <2>2, NoneAssumption
    DEF FindMerchant, RequestInv, Checked, Stages, DepositGiven, BundleGiven,
        RowGiven, AnswerGiven, Covers, HandlerTypeOK, DatabaseTypeOK,
        WorldTypeOK
  <2> QED
    BY <2>1, <2>2
<1>4. ASSUME NEW r \in Requests, RouteToChannel(r),
             NEW s \in Requests
      PROVE  RequestInv(s)'
  <2>1. CASE s # r
    BY <1>a, <1>c, <1>4, <2>1
    DEF RouteToChannel, HandlerTypeOK, DatabaseTypeOK, WorldTypeOK, Untouched,
        ChainGrows
  <2>2. CASE s = r
    BY <1>a, <1>b, <1>4, <2>2, NoneAssumption
    DEF RouteToChannel, RequestInv, Checked, Stages, DepositGiven, BundleGiven,
        RowGiven, AnswerGiven, Covers, HandlerTypeOK, DatabaseTypeOK,
        WorldTypeOK
  <2> QED
    BY <2>1, <2>2
<1>5. ASSUME NEW r \in Requests, PickProvider(r),
             NEW s \in Requests
      PROVE  RequestInv(s)'
  <2>1. CASE s # r
    BY <1>a, <1>c, <1>5, <2>1
    DEF PickProvider, HandlerTypeOK, DatabaseTypeOK, WorldTypeOK, Untouched,
        ChainGrows
  <2>2. CASE s = r
    <3>1. Checked(r)'
      BY <1>a, <1>b, <1>5
      DEF PickProvider, Checked, Covers, HandlerTypeOK, WorldTypeOK
    <3>2. Stages(r)'
      BY <1>a, <1>b, <1>5, NoneAssumption
      DEF PickProvider, Stages, HandlerTypeOK, WorldTypeOK
    <3>3. DepositGiven(r)'
      BY <1>a, <1>b, <1>5, NoneAssumption
      DEF PickProvider, Stages, DepositGiven, Covers, WorldTypeOK
    <3>4. BundleGiven(r)'
      BY <1>a, <1>b, <1>5, NoneAssumption
      DEF PickProvider, Stages, BundleGiven, WorldTypeOK
    <3>5. RowGiven(r)' /\ AnswerGiven(r)'
      BY <1>a, <1>b, <1>5
      DEF PickProvider, Stages, RowGiven, AnswerGiven, HandlerTypeOK
    <3> QED
      BY <2>2, <3>1, <3>2, <3>3, <3>4, <3>5 DEF RequestInv
  <2> QED
    BY <2>1, <2>2
<1>6. ASSUME NEW r \in Requests, VerifyPayment(r),
             NEW s \in Requests
      PROVE  RequestInv(s)'
  <2>1. CASE s # r
    BY <1>a, <1>c, <1>6, <2>1
    DEF VerifyPayment, HandlerTypeOK, DatabaseTypeOK, WorldTypeOK, Untouched,
        ChainGrows
  <2>2. CASE s = r
    <3>1. Checked(r)'
      BY <1>a, <1>b, <1>6
      DEF VerifyPayment, Checked, Covers, HandlerTypeOK, WorldTypeOK
    <3>2. Stages(r)'
      BY <1>a, <1>b, <1>6, NoneAssumption
      DEF VerifyPayment, Stages, HandlerTypeOK, WorldTypeOK
    <3>3. DepositGiven(r)'
      BY <1>a, <1>b, <1>6, NoneAssumption
      DEF VerifyPayment, Stages, DepositGiven, Covers, WorldTypeOK
    <3>4. BundleGiven(r)'
      BY <1>a, <1>b, <1>6, NoneAssumption
      DEF VerifyPayment, Stages, BundleGiven, WorldTypeOK
    <3>5. RowGiven(r)' /\ AnswerGiven(r)'
      BY <1>a, <1>b, <1>6
      DEF VerifyPayment, Stages, RowGiven, AnswerGiven, HandlerTypeOK
    <3> QED
      BY <2>2, <3>1, <3>2, <3>3, <3>4, <3>5 DEF RequestInv
  <2> QED
    BY <2>1, <2>2
<1>7. ASSUME NEW r \in Requests, CheckDestinations(r),
             NEW s \in Requests
      PROVE  RequestInv(s)'
  <2>1. CASE s # r
    BY <1>a, <1>c, <1>7, <2>1
    DEF CheckDestinations, HandlerTypeOK, DatabaseTypeOK, WorldTypeOK,
        Untouched,
        ChainGrows
  <2>2. CASE s = r
    <3>1. Checked(r)'
      BY <1>a, <1>b, <1>7
      DEF CheckDestinations, Checked, Covers, HandlerTypeOK, WorldTypeOK
    <3>2. Stages(r)'
      BY <1>a, <1>b, <1>7, NoneAssumption
      DEF CheckDestinations, Stages, HandlerTypeOK, WorldTypeOK
    <3>3. DepositGiven(r)'
      BY <1>a, <1>b, <1>7, NoneAssumption
      DEF CheckDestinations, Stages, DepositGiven, Covers, WorldTypeOK
    <3>4. BundleGiven(r)'
      BY <1>a, <1>b, <1>7, NoneAssumption
      DEF CheckDestinations, Stages, BundleGiven, WorldTypeOK
    <3>5. RowGiven(r)' /\ AnswerGiven(r)'
      BY <1>a, <1>b, <1>7
      DEF CheckDestinations, Stages, RowGiven, AnswerGiven, HandlerTypeOK
    <3> QED
      BY <2>2, <3>1, <3>2, <3>3, <3>4, <3>5 DEF RequestInv
  <2> QED
    BY <2>1, <2>2
<1>8. ASSUME NEW r \in Requests, Redirect(r),
             NEW s \in Requests
      PROVE  RequestInv(s)'
  <2>1. CASE s # r
    BY <1>a, <1>c, <1>8, <2>1
    DEF Redirect, HandlerTypeOK, DatabaseTypeOK, WorldTypeOK, Untouched,
        ChainGrows
  <2>2. CASE s = r
    BY <1>a, <1>b, <1>8, <2>2, NoneAssumption
    DEF Redirect, RequestInv, Checked, Stages, DepositGiven, BundleGiven,
        RowGiven, AnswerGiven, Covers, HandlerTypeOK, DatabaseTypeOK,
        WorldTypeOK
  <2> QED
    BY <2>1, <2>2
<1>9. ASSUME NEW r \in Requests, BuildDeposit(r),
             NEW s \in Requests
      PROVE  RequestInv(s)'
  <2>1. CASE s # r
    BY <1>a, <1>c, <1>9, <2>1
    DEF BuildDeposit, HandlerTypeOK, DatabaseTypeOK, WorldTypeOK, Untouched,
        ChainGrows
  <2>2. CASE s = r
    <3> DEFINE d == [status |-> "built",
                     seq |-> accountSeq[merchant[r].opex] + 1,
                     from |-> merchant[r].opex, to |-> channel[r],
                     asset |-> AssetOf[channel[r]],
                     amount |-> req[r].amount + Fee]
    <3>1. /\ req[r] \in Inputs /\ req[r] \in Offered
          /\ merchant[r] \in Payee /\ channel[r] \in Channels
          /\ AssetOf[channel[r]] = req[r].asset
          /\ Covers(payment[req[r].hash], r)
      BY <1>b, <1>9 DEF BuildDeposit, Checked
    <3>2. d \in Deposit /\ d # None
      BY <1>a, <3>1, AmountsAssumption, AssetsAssumption, NoneAssumption
      DEF WorldTypeOK, Deposit, Inputs, Payee
    <3>3. deposit' = [deposit EXCEPT ![r] = d] /\ deposit'[r] = d
      BY <1>a, <1>9 DEF BuildDeposit, WorldTypeOK
    <3>4. Checked(r)' /\ Stages(r)'
      BY <1>a, <1>b, <2>2, <1>9, <3>2, <3>3
      DEF BuildDeposit, Checked, Stages, Covers, HandlerTypeOK
    <3>5. DepositGiven(r)'
      BY <1>b, <1>9, <3>1, <3>3 DEF BuildDeposit, DepositGiven, Covers
    <3>6. BundleGiven(r)' /\ RowGiven(r)' /\ AnswerGiven(r)'
      BY <1>b, <1>9, <3>3
      DEF BuildDeposit, Stages, BundleGiven, RowGiven, AnswerGiven
    <3> QED
      BY <2>2, <3>4, <3>5, <3>6 DEF RequestInv
  <2> QED
    BY <2>1, <2>2
<1>10. ASSUME NEW r \in Requests, SendDeposit(r),
             NEW s \in Requests
      PROVE  RequestInv(s)'
  <2>1. CASE s # r
    BY <1>a, <1>c, <1>10, <2>1
    DEF SendDeposit, Submit, Deposit, HandlerTypeOK, DatabaseTypeOK,
        WorldTypeOK, Untouched,
        ChainGrows
  <2>2. CASE s = r
    <3>1. Checked(r)'
      BY <1>a, <1>b, <1>10
      DEF SendDeposit, Checked, Covers, HandlerTypeOK
    <3>2. deposit[r] \in Deposit
      BY <1>a, <1>b, <1>10
      DEF SendDeposit, Stages, PastBuild, PastVerify, PastRoute, PastLookup,
          Parked, WorldTypeOK
    <3>3. deposit'[r] = [deposit[r] EXCEPT !.status = "pending"]
      BY <1>a, <1>10 DEF SendDeposit, Submit, WorldTypeOK
    <3>4. /\ deposit[r] # None /\ deposit'[r] # None
          /\ deposit'[r].status = "pending"
          /\ deposit'[r].from = deposit[r].from
          /\ deposit'[r].to = deposit[r].to
          /\ deposit'[r].asset = deposit[r].asset
          /\ deposit'[r].amount = deposit[r].amount
      BY <3>2, <3>3, NoneAssumption DEF Deposit
    <3>5. Stages(r)'
      BY <1>a, <1>b, <1>10, <3>4 DEF SendDeposit, Stages, HandlerTypeOK
    <3>6. DepositGiven(r)' /\ BundleGiven(r)'
      BY <1>b, <1>10, <3>4
      DEF SendDeposit, DepositGiven, BundleGiven, Covers
    <3>7. RowGiven(r)' /\ AnswerGiven(r)'
      BY <1>a, <1>b, <1>10
      DEF SendDeposit, Stages, RowGiven, AnswerGiven, HandlerTypeOK
    <3> QED
      BY <2>2, <3>1, <3>5, <3>6, <3>7 DEF RequestInv
  <2> QED
    BY <2>1, <2>2
<1>11. ASSUME NEW r \in Requests, LoseSendReply(r),
             NEW s \in Requests
      PROVE  RequestInv(s)'
  <2>1. CASE s # r
    BY <1>a, <1>c, <1>11, <2>1
    DEF LoseSendReply, Submit, Deposit, HandlerTypeOK, DatabaseTypeOK,
        WorldTypeOK, Untouched,
        ChainGrows
  <2>2. CASE s = r
    BY <1>a, <1>b, <1>11, <2>2, NoneAssumption
    DEF LoseSendReply, Submit, Deposit, RequestInv, Checked, Stages,
        DepositGiven, BundleGiven, RowGiven, AnswerGiven, Covers,
        HandlerTypeOK, DatabaseTypeOK, WorldTypeOK
  <2> QED
    BY <2>1, <2>2
<1>12. ASSUME NEW r \in Requests, PollDeposit(r),
             NEW s \in Requests
      PROVE  RequestInv(s)'
  <2>1. CASE s # r
    BY <1>a, <1>c, <1>12, <2>1
    DEF PollDeposit, HandlerTypeOK, DatabaseTypeOK, WorldTypeOK, Untouched,
        ChainGrows
  <2>2. CASE s = r
    BY <1>a, <1>b, <1>12, <2>2, NoneAssumption
    DEF PollDeposit, RequestInv, Checked, Stages, DepositGiven, BundleGiven,
        RowGiven, AnswerGiven, Covers, HandlerTypeOK, DatabaseTypeOK,
        WorldTypeOK
  <2> QED
    BY <2>1, <2>2
<1>13. ASSUME NEW r \in Requests, GiveUpOnDeposit(r),
             NEW s \in Requests
      PROVE  RequestInv(s)'
  <2>1. CASE s # r
    BY <1>a, <1>c, <1>13, <2>1
    DEF GiveUpOnDeposit, HandlerTypeOK, DatabaseTypeOK, WorldTypeOK, Untouched,
        ChainGrows
  <2>2. CASE s = r
    BY <1>a, <1>b, <1>13, <2>2, NoneAssumption
    DEF GiveUpOnDeposit, RequestInv, Checked, Stages, DepositGiven,
        BundleGiven, RowGiven, AnswerGiven, Covers, HandlerTypeOK,
        DatabaseTypeOK, WorldTypeOK
  <2> QED
    BY <2>1, <2>2
<1>14. ASSUME NEW r \in Requests, PostBundle(r),
             NEW s \in Requests
      PROVE  RequestInv(s)'
  <2>1. CASE s # r
    BY <1>a, <1>c, <1>14, <2>1
    DEF PostBundle, Propose, HandlerTypeOK, DatabaseTypeOK, WorldTypeOK,
        Untouched,
        ChainGrows
  <2>2. CASE s = r
    <3>1. PICK named \in Naming : Propose(r, named)
      BY <1>14 DEF PostBundle
    <3> DEFINE b == [status |-> "PENDING", named |-> named,
                     to |-> channel[r], inflow |-> req[r].amount + Fee,
                     credit |-> req[r].amount, root |-> merchant[r].root,
                     dest |-> dest[r]]
    <3>2. /\ req[r] \in Inputs /\ merchant[r] \in Payee
          /\ channel[r] \in Channels /\ named \in BOOLEAN
      BY <1>b, <1>14, NamingAssumption DEF PostBundle, Checked
    <3>3. b \in Bundle /\ b # None
      BY <1>a, <3>2, AmountsAssumption, NoneAssumption
      DEF HandlerTypeOK, Bundle, Inputs, Payee
    <3>4. bundle'[r] = b
      BY <1>a, <3>1 DEF Propose, WorldTypeOK
    <3>5. Checked(r)'
      BY <1>a, <1>b, <1>14 DEF PostBundle, Checked, Covers, HandlerTypeOK
    <3>6. Stages(r)'
      <4>1. pc'[r] = (IF named THEN "settle" ELSE "record")
        BY <1>a, <1>14, <3>1, <3>4
        DEF PostBundle, Propose, HandlerTypeOK, WorldTypeOK
      <4> QED
      BY <1>b, <1>14, <3>3, <3>4, <4>1 DEF PostBundle, Stages
    <3>7. DepositGiven(r)'
      BY <1>b, <1>14 DEF PostBundle, DepositGiven, Covers
    <3>8. BundleGiven(r)'
      <4>1. deposit'[r] # None /\ deposit'[r].status # "built"
        BY <1>b, <1>14 DEF PostBundle, Stages
      <4>2. /\ b.to = channel'[r] /\ b.status # "COMPLETED"
            /\ b.credit = req'[r].amount /\ b.inflow = req'[r].amount + Fee
        BY <1>14 DEF PostBundle
      <4> QED
        BY <3>4, <4>1, <4>2 DEF BundleGiven
    <3>9. RowGiven(r)' /\ AnswerGiven(r)'
      BY <1>b, <1>14, <3>4
      DEF PostBundle, Stages, RowGiven, AnswerGiven
    <3> QED
      BY <2>2, <3>5, <3>6, <3>7, <3>8, <3>9 DEF RequestInv
  <2> QED
    BY <2>1, <2>2
<1>15. ASSUME NEW r \in Requests, LosePostReply(r),
             NEW s \in Requests
      PROVE  RequestInv(s)'
  <2>1. CASE s # r
    BY <1>a, <1>c, <1>15, <2>1
    DEF LosePostReply, Propose, HandlerTypeOK, DatabaseTypeOK, WorldTypeOK,
        Untouched,
        ChainGrows
  <2>2. CASE s = r
    <3>1. Checked(r)'
      BY <1>a, <1>b, <1>15
      DEF LosePostReply, Propose, Checked, Covers, HandlerTypeOK, WorldTypeOK
    <3>2. Stages(r)'
      BY <1>a, <1>b, <1>15, NoneAssumption
      DEF LosePostReply, Propose, Stages, HandlerTypeOK, WorldTypeOK
    <3>3. DepositGiven(r)'
      BY <1>a, <1>b, <1>15, NoneAssumption
      DEF LosePostReply, Propose, Stages, DepositGiven, Covers, WorldTypeOK
    <3>4. BundleGiven(r)'
      BY <1>a, <1>b, <1>15, NoneAssumption
      DEF LosePostReply, Propose, Stages, BundleGiven, WorldTypeOK
    <3>5. RowGiven(r)' /\ AnswerGiven(r)'
      BY <1>a, <1>b, <1>15
      DEF LosePostReply, Propose, Stages, RowGiven, AnswerGiven, HandlerTypeOK
    <3> QED
      BY <2>2, <3>1, <3>2, <3>3, <3>4, <3>5 DEF RequestInv
  <2> QED
    BY <2>1, <2>2
<1>16. ASSUME NEW r \in Requests, PollBundle(r),
             NEW s \in Requests
      PROVE  RequestInv(s)'
  <2>1. CASE s # r
    BY <1>a, <1>c, <1>16, <2>1
    DEF PollBundle, HandlerTypeOK, DatabaseTypeOK, WorldTypeOK, Untouched,
        ChainGrows
  <2>2. CASE s = r
    BY <1>a, <1>b, <1>16, <2>2, NoneAssumption
    DEF PollBundle, RequestInv, Checked, Stages, DepositGiven, BundleGiven,
        RowGiven, AnswerGiven, Covers, HandlerTypeOK, DatabaseTypeOK,
        WorldTypeOK
  <2> QED
    BY <2>1, <2>2
<1>17. ASSUME NEW r \in Requests, GiveUpOnBundle(r),
             NEW s \in Requests
      PROVE  RequestInv(s)'
  <2>1. CASE s # r
    BY <1>a, <1>c, <1>17, <2>1
    DEF GiveUpOnBundle, HandlerTypeOK, DatabaseTypeOK, WorldTypeOK, Untouched,
        ChainGrows
  <2>2. CASE s = r
    BY <1>a, <1>b, <1>17, <2>2, NoneAssumption
    DEF GiveUpOnBundle, RequestInv, Checked, Stages, DepositGiven, BundleGiven,
        RowGiven, AnswerGiven, Covers, HandlerTypeOK, DatabaseTypeOK,
        WorldTypeOK
  <2> QED
    BY <2>1, <2>2
<1>18. ASSUME NEW r \in Requests, RecordPayment(r),
             NEW s \in Requests
      PROVE  RequestInv(s)'
  <2>1. CASE s # r
    BY <1>a, <1>c, <1>18, <2>1
    DEF RecordPayment, HandlerTypeOK, DatabaseTypeOK, WorldTypeOK, Untouched,
        ChainGrows
  <2>2. CASE s = r
    BY <1>a, <1>b, <1>18, <2>2, NoneAssumption
    DEF RecordPayment, RequestInv, Checked, Stages, DepositGiven, BundleGiven,
        RowGiven, AnswerGiven, Covers, HandlerTypeOK, DatabaseTypeOK,
        WorldTypeOK
  <2> QED
    BY <2>1, <2>2
<1>19. ASSUME NEW r \in Requests, ReplyCompleted(r),
             NEW s \in Requests
      PROVE  RequestInv(s)'
  <2>1. CASE s # r
    BY <1>a, <1>c, <1>19, <2>1
    DEF ReplyCompleted, HandlerTypeOK, DatabaseTypeOK, WorldTypeOK, Untouched,
        ChainGrows
  <2>2. CASE s = r
    BY <1>a, <1>b, <1>19, <2>2, NoneAssumption
    DEF ReplyCompleted, RequestInv, Checked, Stages, DepositGiven, BundleGiven,
        RowGiven, AnswerGiven, Covers, HandlerTypeOK, DatabaseTypeOK,
        WorldTypeOK
  <2> QED
    BY <2>1, <2>2
<1>20. ASSUME NEW r \in Requests, Throw(r),
             NEW s \in Requests
      PROVE  RequestInv(s)'
  <2>1. CASE s # r
    BY <1>a, <1>c, <1>20, <2>1
    DEF Throw, HandlerTypeOK, DatabaseTypeOK, WorldTypeOK, Untouched,
        ChainGrows
  <2>2. CASE s = r
    BY <1>a, <1>b, <1>20, <2>2, NoneAssumption
    DEF Throw, RequestInv, Checked, Stages, DepositGiven, BundleGiven,
        RowGiven, AnswerGiven, Covers, HandlerTypeOK, DatabaseTypeOK,
        WorldTypeOK
  <2> QED
    BY <2>1, <2>2
<1>21. ASSUME Crash, NEW s \in Requests PROVE RequestInv(s)'
  BY <1>a, <1>b, <1>21
  DEF Crash, HandlerTypeOK, RequestInv, Checked, Stages, DepositGiven,
      BundleGiven, RowGiven, AnswerGiven, Covers
<1>22. ASSUME NEW m \in Merchants, DeleteAccount(m), NEW s \in Requests
       PROVE  RequestInv(s)'
  <2>1. row'[s] \in {row[s], None}
    BY <1>22 DEF DeleteAccount
  <2> QED
    BY <1>a, <1>b, <1>22, <2>1
    DEF DeleteAccount, RequestInv, Checked, Stages, DepositGiven,
        BundleGiven, RowGiven, AnswerGiven, Covers
<1>23. ASSUME NEW m \in Merchants, NEW s \in Requests,
              \/ CreateAccount(m)
              \/ \E k \in Keys : RegisterOpex(m, k)
              \/ \E u \in Roots : StoreDelegationKey(m, u)
       PROVE  RequestInv(s)'
  BY <1>c, <1>23
  DEF CreateAccount, RegisterOpex, StoreDelegationKey, world, Untouched,
      ChainGrows
<1>24. ASSUME NEW h \in Hashes, NEW p \in Paid, CustomerPays(h, p),
              NEW s \in Requests
       PROVE  RequestInv(s)'
  BY <1>a, <1>c, <1>24 DEF CustomerPays, WorldTypeOK, Untouched, ChainGrows
<1>25. ASSUME NEW r \in Requests, NEW o \in {"SUCCESS", "FAILED"},
              LandDeposit(r, o), NEW s \in Requests
       PROVE  RequestInv(s)'
  <2>1. CASE s # r
    BY <1>a, <1>c, <1>25, <2>1
    DEF LandDeposit, WorldTypeOK, Untouched, ChainGrows
  <2>2. CASE s = r
    <3>1. /\ deposit[r] \in Deposit /\ deposit'[r] # None
          /\ deposit'[r] = [deposit[r] EXCEPT !.status = o]
      BY <1>a, <1>25, NoneAssumption DEF LandDeposit, WorldTypeOK, Deposit
    <3>2. /\ deposit'[r].status # "built" /\ deposit'[r].to = deposit[r].to
          /\ deposit'[r].from = deposit[r].from
          /\ deposit'[r].amount = deposit[r].amount
      BY <3>1 DEF Deposit
    <3>3. Checked(r)' /\ Stages(r)'
      BY <1>b, <1>25, <3>1, <3>2 DEF LandDeposit, Checked, Stages, Covers
    <3>4. DepositGiven(r)' /\ BundleGiven(r)'
      BY <1>b, <1>25, <3>1, <3>2
      DEF LandDeposit, DepositGiven, BundleGiven, Covers
    <3>5. RowGiven(r)' /\ AnswerGiven(r)'
      BY <1>b, <1>25 DEF LandDeposit, RowGiven, AnswerGiven
    <3> QED
      BY <2>2, <3>3, <3>4, <3>5 DEF RequestInv
  <2> QED
    BY <2>1, <2>2
<1>26. ASSUME NEW r \in Requests, SettleBundle(r), NEW s \in Requests
       PROVE  RequestInv(s)'
  <2>1. CASE s # r
    BY <1>a, <1>c, <1>26, <2>1
    DEF SettleBundle, WorldTypeOK, Untouched, ChainGrows
  <2>2. CASE s = r
    <3>1. /\ bundle[r] \in Bundle /\ bundle'[r] # None
          /\ bundle'[r] = [bundle[r] EXCEPT !.status = "COMPLETED"]
          /\ bundle[r].status # "COMPLETED"
      BY <1>a, <1>26, NoneAssumption DEF SettleBundle, WorldTypeOK, Bundle
    <3>2. /\ bundle'[r].status = "COMPLETED" /\ bundle'[r].to = bundle[r].to
          /\ bundle'[r].credit = bundle[r].credit
          /\ bundle'[r].inflow = bundle[r].inflow
          /\ bundle'[r].named = bundle[r].named
          /\ bundle'[r].root = bundle[r].root
          /\ bundle'[r].dest = bundle[r].dest
      BY <3>1 DEF Bundle
    <3>3. <<bundle[r].to, bundle[r].root>> \in Channels \X Roots
      BY <3>1 DEF Bundle
    <3>4. Checked(r)' /\ Stages(r)'
      BY <1>a, <1>b, <1>26, <3>1, <3>2
      DEF SettleBundle, Checked, Stages, Covers
    <3>5. DepositGiven(r)'
      BY <1>b, <1>26 DEF SettleBundle, DepositGiven, Covers
    <3>6. BundleGiven(r)'
      BY <1>a, <1>b, <1>26, <3>1, <3>2, <3>3
      DEF SettleBundle, BundleGiven, WorldTypeOK
    <3>7. RowGiven(r)' /\ AnswerGiven(r)'
      BY <1>b, <1>26, <3>1, <3>2 DEF SettleBundle, RowGiven, AnswerGiven
    <3> QED
      BY <2>2, <3>4, <3>5, <3>6, <3>7 DEF RequestInv
  <2> QED
    BY <2>1, <2>2
<1>27. ASSUME NEW r \in Requests, NEW o \in {"FAILED", "EXPIRED"},
              DropBundle(r, o), NEW s \in Requests
       PROVE  RequestInv(s)'
  <2>1. CASE s # r
    BY <1>a, <1>c, <1>27, <2>1
    DEF DropBundle, WorldTypeOK, Untouched, ChainGrows
  <2>2. CASE s = r
    <3>1. /\ bundle[r] \in Bundle /\ bundle'[r] # None
          /\ bundle'[r] = [bundle[r] EXCEPT !.status = o]
          /\ bundle[r].status # "COMPLETED"
      BY <1>a, <1>27, NoneAssumption DEF DropBundle, WorldTypeOK, Bundle
    <3>2. /\ bundle'[r].status = o /\ bundle'[r].to = bundle[r].to
          /\ bundle'[r].credit = bundle[r].credit
          /\ bundle'[r].inflow = bundle[r].inflow
          /\ bundle'[r].named = bundle[r].named
          /\ bundle'[r].root = bundle[r].root
          /\ bundle'[r].dest = bundle[r].dest
      BY <3>1 DEF Bundle
    <3>4. Checked(r)' /\ Stages(r)'
      BY <1>a, <1>b, <1>27, <3>1, <3>2
      DEF DropBundle, Checked, Stages, Covers
    <3>5. DepositGiven(r)'
      BY <1>b, <1>27 DEF DropBundle, DepositGiven, Covers
    <3>6. BundleGiven(r)'
      BY <1>b, <1>27, <3>1, <3>2 DEF DropBundle, BundleGiven
    <3>7. RowGiven(r)' /\ AnswerGiven(r)'
      BY <1>b, <1>27, <3>1, <3>2 DEF DropBundle, RowGiven, AnswerGiven
    <3> QED
      BY <2>2, <3>4, <3>5, <3>6, <3>7 DEF RequestInv
  <2> QED
    BY <2>1, <2>2
<1>28. ASSUME UNCHANGED vars, NEW s \in Requests PROVE RequestInv(s)'
  BY <1>c, <1>28 DEF vars, Untouched, ChainGrows
<1>29. ASSUME NEW s \in Requests PROVE RequestInv(s)'
  BY <1>1, <1>2, <1>3, <1>4, <1>5, <1>6, <1>7, <1>8, <1>9, <1>10, <1>11, <1>12,
     <1>13, <1>14, <1>15, <1>16, <1>17, <1>18, <1>19, <1>20, <1>21, <1>22,
     <1>23, <1>24, <1>25, <1>26, <1>27, <1>28
  DEF Next, Arrive, Step, Fault, Network, Accounts
<1> QED
  BY <1>29, TypeStep DEF IInv

\* The invariant holds in every state of every behaviour.
THEOREM Invariance == Spec => []IInv
  BY InvInit, InvStep, PTL DEF Spec

-----------------------------------------------------------------------------
(* The properties. *)

\* Types: every variable keeps the range its comment gives it.
THEOREM TypeCorrect == Spec => []TypeOK
<1>1. IInv => TypeOK
  BY DEF IInv
<1> QED
  BY <1>1, Invariance, PTL

\* An IN row with a bundle id stands for a settled bundle worth the row's
\* amount whose UTXOs exist.
THEOREM RecordedRowsAreSettled == Spec => []RecordedOnlySettled
<1>1. IInv => RecordedOnlySettled
  BY DEF IInv, RequestInv, RowGiven, BundleGiven, RecordedOnlySettled
<1> QED
  BY <1>1, Invariance, PTL

\* A client told COMPLETED with a bundle id can rely on it.
THEOREM CompletedAnswersAreSettled == Spec => []CompletedAnswerSettled
<1>1. IInv => CompletedAnswerSettled
  BY DEF IInv, RequestInv, AnswerGiven, CompletedAnswerSettled
<1> QED
  BY <1>1, Invariance, PTL

\* No debit but of the account that the named operation is addressed to, of
\* its number and the fee at most, in the asset the client asked for, however
\* the merchant's keys and the councils changed meanwhile.  That the operation
\* moved this asset, or any, is not looked at.
THEOREM DebitsMatchOperations == Spec => []DebitMatchesOperation
<1>1. ASSUME IInv PROVE DebitMatchesOperation
  <2>1. SUFFICES ASSUME NEW r \in Requests, deposit[r] # None
                 PROVE  LET p == payment[req[r].hash] IN
                        /\ p # None
                        /\ deposit[r].from = p.to
                        /\ deposit[r].amount <= p.amount + Fee
                        /\ deposit[r].asset = req[r].asset
    BY DEF DebitMatchesOperation
  <2>2. DepositGiven(r) /\ req[r] \in Inputs
    BY <1>1, <2>1, OfferedAssumption DEF IInv, RequestInv, DepositGiven
  <2>3. payment[req[r].hash] \in Payment
    BY <1>1, <2>1, <2>2
    DEF IInv, TypeOK, WorldTypeOK, DepositGiven, Covers, Inputs
  <2>4. /\ payment[req[r].hash].amount \in Nat /\ req[r].amount \in Nat
        /\ payment[req[r].hash].amount >= req[r].amount
    BY <2>1, <2>2, <2>3 DEF DepositGiven, Covers, Inputs, Payment
  <2>5. deposit[r].amount <= payment[req[r].hash].amount + Fee
    BY <2>1, <2>2, <2>4, AmountsAssumption DEF DepositGiven
  <2> QED
    BY <2>1, <2>2, <2>5 DEF DepositGiven, Covers
<1> QED
  BY <1>1, Invariance, PTL

\* The transfer matches the bundle's deposit operation.
THEOREM TransfersMatchBundles == Spec => []TransferMatchesBundle
<1>1. ASSUME IInv PROVE TransferMatchesBundle
  BY <1>1
  DEF IInv, RequestInv, BundleGiven, DepositGiven, TransferMatchesBundle
<1> QED
  BY <1>1, Invariance, PTL

\* A request refused by a check left nothing behind.
THEOREM RefusalsMoveNothing == Spec => []RefusedMovesNothing
<1>1. IInv => RefusedMovesNothing
  BY DEF IInv, RequestInv, AnswerGiven, RefusedMovesNothing
<1> QED
  BY <1>1, Invariance, PTL

\* An answered or lost request is over.
Final(r) ==
  /\ UNCHANGED <<pc[r], answer[r]>>
  /\ bundle[r] = None => bundle'[r] = None
  /\ row[r] = None => row'[r] = None
  /\ (deposit[r] = None \/ deposit[r].status = "built")
       => deposit'[r] = deposit[r]

\* No step sends, posts or logs anything for a request that has ended.
LEMMA FinalStep ==
  ASSUME IInv, [Next]_vars, NEW r \in Requests, Ended(r)
  PROVE  Final(r)
<1> USE DEF Final, GoTo, Answer, handler, database, world
<1>a. TypeOK /\ HandlerTypeOK /\ DatabaseTypeOK /\ WorldTypeOK
  BY DEF IInv, TypeOK
<1>b. pc[r] \notin Parked /\ pc[r] # "idle"
  BY DEF IInv, RequestInv, Stages, Ended, Parked
<1>1. ASSUME NEW s \in Requests, Arrive(s) PROVE Final(r)
  BY <1>a, <1>b, <1>1
  DEF Arrive, Receive, ReceiveMalformed, HandlerTypeOK
<1>2. ASSUME NEW s \in Requests, Step(s) \/ Fault(s) PROVE Final(r)
  <2>1. pc[s] \in Parked
    BY <1>2
    DEF Parked, Step, Fault, FindMerchant, RouteToChannel, PickProvider,
        VerifyPayment, CheckDestinations, Redirect, BuildDeposit, SendDeposit,
        LoseSendReply, PollDeposit, GiveUpOnDeposit, PostBundle, LosePostReply,
        PollBundle, GiveUpOnBundle, RecordPayment, ReplyCompleted, Throw
  <2>2. r # s
    BY <1>b, <2>1
  <2>3. /\ UNCHANGED <<pc[r], answer[r]>>
    BY <1>a, <1>2, <2>2
    DEF HandlerTypeOK, Step, Fault, FindMerchant, RouteToChannel, PickProvider,
        VerifyPayment, CheckDestinations, Redirect, BuildDeposit, SendDeposit,
        LoseSendReply, PollDeposit, GiveUpOnDeposit, PostBundle, LosePostReply,
        PollBundle, GiveUpOnBundle, RecordPayment, ReplyCompleted, Throw
  <2>4. row'[r] = row[r]
    BY <1>a, <1>2, <2>2
    DEF DatabaseTypeOK, Step, Fault, FindMerchant, RouteToChannel,
        PickProvider, VerifyPayment, CheckDestinations, Redirect, BuildDeposit,
        SendDeposit, LoseSendReply, PollDeposit, GiveUpOnDeposit, PostBundle,
        LosePostReply, PollBundle, GiveUpOnBundle, RecordPayment,
        ReplyCompleted, Throw
  <2>5. deposit'[r] = deposit[r] /\ bundle'[r] = bundle[r]
    BY <1>a, <1>2, <2>2
    DEF WorldTypeOK, Submit, Propose, Step, Fault, FindMerchant,
        RouteToChannel, PickProvider, VerifyPayment, CheckDestinations,
        Redirect, BuildDeposit, SendDeposit, LoseSendReply, PollDeposit,
        GiveUpOnDeposit, PostBundle, LosePostReply, PollBundle, GiveUpOnBundle,
        RecordPayment, ReplyCompleted, Throw
  <2> QED
    BY <2>3, <2>4, <2>5
<1>3. ASSUME NEW s \in Requests, Network(s) PROVE Final(r)
  BY <1>a, <1>3 DEF Network, LandDeposit, SettleBundle, DropBundle, WorldTypeOK
<1>4. CASE Crash
  BY <1>a, <1>b, <1>4 DEF Crash, HandlerTypeOK
<1>5. ASSUME NEW m \in Merchants, Accounts(m) PROVE Final(r)
  BY <1>5
  DEF Accounts, CreateAccount, DeleteAccount, RegisterOpex,
      StoreDelegationKey
<1>6. ASSUME NEW h \in Hashes, NEW p \in Paid, CustomerPays(h, p)
      PROVE  Final(r)
  BY <1>6 DEF CustomerPays
<1>7. CASE UNCHANGED vars
  BY <1>7 DEF vars
<1> QED
  BY <1>1, <1>2, <1>3, <1>4, <1>5, <1>6, <1>7 DEF Next

\* Nothing is sent, posted or logged for a request that was answered or
\* lost in a crash, and its answer stands.
THEOREM EndedRequestsAreOver == Spec => EndedIsFinal
<1>1. IInv /\ [Next]_vars =>
        [\A r \in Requests :
           Ended(r) =>
             /\ UNCHANGED <<pc[r], answer[r]>>
             /\ bundle[r] = None => bundle'[r] = None
             /\ row[r] = None => row'[r] = None
             /\ (deposit[r] = None \/ deposit[r].status = "built")
                  => deposit'[r] = deposit[r]]_vars
  BY FinalStep DEF Final
<1> QED
  BY <1>1, Invariance, PTL DEF Spec, EndedIsFinal

-----------------------------------------------------------------------------
(* A request takes a bounded number of steps. *)

\* Every location has a place in the order.
LEMMA AheadOf == \A l \in Locations : Ahead[l] \in 0..14
  BY DEF Ahead, Locations, Parked

\* Whole awaits outweigh the polls of a loop.
LEMMA Outweighs ==
  ASSUME NEW a \in Nat, NEW b \in Nat, a < b, NEW M \in Nat,
         NEW s \in 0..M, NEW t \in 0..M
  PROVE  a * (M + 1) + (M - s) < b * (M + 1) + (M - t)
<1>1. PICK d \in Nat : b = a + 1 + d
  <2>1. b - a - 1 \in Nat /\ b = a + 1 + (b - a - 1)
    OBVIOUS
  <2> QED
    BY <2>1
<1>2. b * (M + 1) = a * (M + 1) + (M + 1) + d * (M + 1)
  BY <1>1
<1>3. d * (M + 1) \in Nat /\ a * (M + 1) \in Nat
  OBVIOUS
<1> QED
  BY <1>2, <1>3

\* A request that gets nearer its end has fewer steps left, whatever its
\* polls are.
LEMMA NearerCounts ==
  ASSUME TypeOK, TypeOK', NEW r \in Requests, Ahead[pc'[r]] < Ahead[pc[r]]
  PROVE  StepsLeft(r)' < StepsLeft(r)
<1>1. /\ pc[r] \in Locations /\ pc'[r] \in Locations
      /\ tries[r] \in 0..MaxPolls /\ tries'[r] \in 0..MaxPolls
  BY DEF TypeOK, HandlerTypeOK
<1>2. Ahead[pc[r]] \in Nat /\ Ahead[pc'[r]] \in Nat
  BY <1>1, AheadOf
<1>3. Ahead[pc'[r]] * (MaxPolls + 1) + (MaxPolls - tries'[r])
        < Ahead[pc[r]] * (MaxPolls + 1) + (MaxPolls - tries[r])
  BY <1>1, <1>2, Outweighs, AmountsAssumption
<1>4. StepsLeft(r)' = Ahead[pc'[r]] * (MaxPolls + 1) + (MaxPolls - tries'[r])
  BY DEF StepsLeft, Ahead
<1> QED
  BY <1>3, <1>4 DEF StepsLeft

\* A poll that ends nothing uses up one try.
LEMMA PollCounts ==
  ASSUME TypeOK, NEW r \in Requests, tries[r] < MaxPolls,
         tries' = [tries EXCEPT ![r] = @ + 1], UNCHANGED pc
  PROVE  StepsLeft(r)' < StepsLeft(r)
<1>1. pc[r] \in Locations /\ tries[r] \in Nat /\ tries'[r] = tries[r] + 1
  BY AmountsAssumption DEF TypeOK, HandlerTypeOK
<1>2. Ahead[pc[r]] * (MaxPolls + 1) \in Nat
  BY <1>1, AheadOf, AmountsAssumption
<1>3. StepsLeft(r)' =
        Ahead[pc[r]] * (MaxPolls + 1) + (MaxPolls - tries'[r])
  BY DEF StepsLeft, Ahead
<1> QED
  BY <1>1, <1>2, <1>3, AmountsAssumption DEF StepsLeft

\* A step is the request's own and takes it nearer its end, or leaves it
\* where it is.
LEMMA CountedStep ==
  ASSUME IInv, [Next]_vars, NEW r \in Requests
  PROVE  UNCHANGED LocalsOf(r) \/ StepsLeft(r)' < StepsLeft(r)
<1> DEFINE Same == UNCHANGED LocalsOf(r)
           Nearer == Ahead[pc'[r]] < Ahead[pc[r]]
<1> USE DEF GoTo, Answer, handler, database, world
<1>a. TypeOK /\ TypeOK' /\ HandlerTypeOK
  BY TypeStep DEF IInv, TypeOK
<1>b. ASSUME NEW s \in Requests, s # r, Arrive(s) \/ Step(s) \/ Fault(s)
      PROVE  Same
  BY <1>a, <1>b
  DEF LocalsOf, HandlerTypeOK, Arrive, Receive, ReceiveMalformed, Step, Fault,
      FindMerchant, RouteToChannel, PickProvider, VerifyPayment,
      CheckDestinations, Redirect, BuildDeposit, SendDeposit, LoseSendReply,
      PollDeposit, GiveUpOnDeposit, PostBundle, LosePostReply, PollBundle,
      GiveUpOnBundle, RecordPayment, ReplyCompleted, Throw
<1>1. ASSUME Arrive(r) PROVE Nearer
  BY <1>a, <1>1 DEF Arrive, Receive, ReceiveMalformed, HandlerTypeOK, Ahead
<1>2. ASSUME \/ FindMerchant(r) \/ RouteToChannel(r) \/ PickProvider(r)
             \/ VerifyPayment(r) \/ CheckDestinations(r) \/ Redirect(r)
      PROVE  Nearer
  BY <1>a, <1>2
  DEF FindMerchant, RouteToChannel, PickProvider, VerifyPayment,
      CheckDestinations, Redirect, HandlerTypeOK, Ahead
<1>3. ASSUME \/ BuildDeposit(r) \/ SendDeposit(r) \/ GiveUpOnDeposit(r)
             \/ PostBundle(r) \/ GiveUpOnBundle(r) \/ RecordPayment(r)
             \/ ReplyCompleted(r)
      PROVE  Nearer
  BY <1>a, <1>3
  DEF BuildDeposit, SendDeposit, GiveUpOnDeposit, PostBundle, GiveUpOnBundle,
      RecordPayment, ReplyCompleted, HandlerTypeOK, Ahead
<1>4. ASSUME PollDeposit(r) \/ PollBundle(r)
      PROVE  Nearer \/ StepsLeft(r)' < StepsLeft(r)
  <2>1. CASE pc' = pc
    <3>1. tries[r] < MaxPolls /\ tries' = [tries EXCEPT ![r] = @ + 1]
      BY <1>a, <1>4, <2>1 DEF PollDeposit, PollBundle, HandlerTypeOK
    <3> QED
      BY <1>a, <2>1, <3>1, PollCounts
  <2>2. CASE pc' # pc
    BY <1>a, <1>4, <2>2 DEF PollDeposit, PollBundle, HandlerTypeOK, Ahead
  <2> QED
    BY <2>1, <2>2
<1>5. ASSUME Fault(r) PROVE Nearer
  <2>1. pc[r] \in Parked /\ pc'[r] = "done"
    BY <1>a, <1>5
    DEF Fault, Throw, LoseSendReply, LosePostReply, Parked, HandlerTypeOK
  <2> QED
    BY <2>1 DEF Parked, Ahead
<1>6. ASSUME Crash PROVE Same \/ Nearer
  <2>1. CASE pc[r] \in Parked
    BY <1>6, <2>1 DEF Crash, Parked, Ahead
  <2>2. CASE pc[r] \notin Parked
    BY <1>6, <2>2 DEF Crash, LocalsOf
  <2> QED
    BY <2>1, <2>2
<1>7. ASSUME NEW s \in Requests, Network(s) PROVE Same
  BY <1>7 DEF Network, LandDeposit, SettleBundle, DropBundle, LocalsOf
<1>8. ASSUME NEW m \in Merchants, Accounts(m) PROVE Same
  BY <1>8
  DEF Accounts, CreateAccount, DeleteAccount, RegisterOpex,
      StoreDelegationKey, LocalsOf
<1>9. ASSUME NEW h \in Hashes, NEW p \in Paid, CustomerPays(h, p)
      PROVE  Same
  BY <1>9 DEF CustomerPays, LocalsOf
<1>10. ASSUME UNCHANGED vars PROVE Same
  BY <1>10 DEF vars, LocalsOf
<1>11. ASSUME NEW s \in Requests, Arrive(s) \/ Step(s) \/ Fault(s)
       PROVE  Same \/ Nearer \/ StepsLeft(r)' < StepsLeft(r)
  BY <1>b, <1>1, <1>2, <1>3, <1>4, <1>5, <1>11 DEF Step
<1>12. Nearer => StepsLeft(r)' < StepsLeft(r)
  BY <1>a, NearerCounts
<1> QED
  <2> HIDE DEF Same, Nearer
  <2>1. Same \/ Nearer \/ StepsLeft(r)' < StepsLeft(r)
    <3>1. ASSUME NEW s \in Requests,
                 Arrive(s) \/ Step(s) \/ Fault(s) \/ Network(s)
          PROVE  Same \/ Nearer \/ StepsLeft(r)' < StepsLeft(r)
      BY <1>7, <1>11, <3>1
    <3> QED
      BY <1>6, <1>8, <1>9, <1>10, <3>1 DEF Next
  <2> QED
    BY <1>12, <2>1 DEF Same

\* Every step of a handler leaves it fewer to take: through both polling
\* loops, whatever the chain, the provider and the accounts do meanwhile,
\* no request goes on for ever.
THEOREM StepsAreBounded == Spec => EveryStepCounts
<1>1. IInv /\ [Next]_vars =>
        [\A r \in Requests :
           UNCHANGED LocalsOf(r) \/ StepsLeft(r)' < StepsLeft(r)]_vars
  BY CountedStep
<1> QED
  BY <1>1, Invariance, PTL DEF Spec, EveryStepCounts

-----------------------------------------------------------------------------
(* The handlers implement Payment. *)

Credited ==
  {r \in Requests : bundle[r] # None /\ bundle[r].status = "COMPLETED"}
Unnamed(r) == ~bundle[r].named

\* Every step of the server, the chain or the provider is a step of
\* Payment, or changes nothing Payment sees.
LEMMA PromiseStep ==
  ASSUME IInv, [Next]_vars
  PROVE  [Promise!Next]_(Promise!vars)
<1> DEFINE Goal == [Promise!Next]_(Promise!vars)
<1> USE DEF GoTo, Answer, handler, database, world
<1>a. HandlerTypeOK /\ DatabaseTypeOK /\ WorldTypeOK
  BY DEF IInv, TypeOK
<1>b. ASSUME NEW r \in Requests
      PROVE  Stages(r) /\ RowGiven(r) /\ AnswerGiven(r)
  BY DEF IInv, RequestInv
<1>c. ASSUME Credited' = Credited, Vouched' = Vouched, Report' = Report
      PROVE  Goal
  BY <1>c DEF Credited, Promise!vars
<1>d. ASSUME bundle' = bundle PROVE Credited' = Credited
  BY <1>d DEF Credited
<1>e. ASSUME row' = row PROVE Vouched' = Vouched
  BY <1>e DEF Vouched
<1>f. ASSUME answer' = answer,
             \A s \in Requests :
               answer[s] = "completed" => Unnamed(s)' = Unnamed(s)
      PROVE  Report' = Report
  BY <1>f DEF Report, Unnamed
<1>g. ASSUME answer' = answer, bundle' = bundle PROVE Report' = Report
  BY <1>g DEF Report
<1>h. ASSUME NEW r \in Requests, NEW a \in {"error", "refused"},
             answer' = [answer EXCEPT ![r] = a],
             \A s \in Requests : s # r => bundle'[s] = bundle[s]
      PROVE  Report' = [Report EXCEPT ![r] = a]
  BY <1>a, <1>h DEF Report, HandlerTypeOK
<1>i. ASSUME NEW r \in Requests, pc[r] \in {"idle"} \cup Parked
      PROVE  answer[r] = "none" /\ Report[r] = "none"
  BY <1>b, <1>i DEF Stages, Report
<1>j. ASSUME NEW r \in Requests, Credited' = Credited, row' = row,
             \A s \in Requests : s # r => bundle'[s] = bundle[s],
             pc[r] \in Parked, answer' = [answer EXCEPT ![r] = "error"]
      PROVE  Goal
  <2>1. Report' = [Report EXCEPT ![r] = "error"]
    BY <1>h, <1>j
  <2> QED
    BY <1>e, <1>i, <1>j, <2>1 DEF Credited, Promise!Next, Promise!ReportError
<1>k. ASSUME NEW r \in Requests, bundle' = bundle, row' = row,
             pc[r] \in {"idle"} \cup (Parked \ PastBuild),
             answer' = [answer EXCEPT ![r] = "refused"]
      PROVE  Goal
  <2>1. bundle[r] = None /\ row[r] = None
    BY <1>b, <1>k DEF Stages, PastBuild, PastPost, PastVerify, PastRoute,
       PastLookup, Parked
  <2>2. r \notin Credited \cup Vouched
    BY <2>1 DEF Credited, Vouched
  <2>3. Report' = [Report EXCEPT ![r] = "refused"]
    BY <1>h, <1>k
  <2>4. Report[r] = "none"
    BY <1>i, <1>k
  <2> QED
    BY <1>d, <1>e, <1>k, <2>2, <2>3, <2>4
    DEF Credited, Promise!Next, Promise!ReportRefused
<1> HIDE DEF Goal
<1>1. ASSUME NEW r \in Requests, Arrive(r) PROVE Goal
  BY <1>c, <1>d, <1>e, <1>g, <1>k, <1>1 DEF Arrive, Receive, ReceiveMalformed
<1>2. ASSUME NEW r \in Requests,
             \/ FindMerchant(r) \/ RouteToChannel(r)
             \/ PickProvider(r) \/ VerifyPayment(r)
      PROVE  Goal
  BY <1>c, <1>d, <1>e, <1>g, <1>k, <1>2
  DEF FindMerchant, RouteToChannel, PickProvider, VerifyPayment, Parked,
      PastBuild, PastVerify, PastRoute, PastLookup
<1>3. ASSUME NEW r \in Requests,
             \/ CheckDestinations(r) \/ Redirect(r) \/ BuildDeposit(r)
             \/ SendDeposit(r) \/ LoseSendReply(r) \/ PollDeposit(r)
             \/ GiveUpOnDeposit(r) \/ PollBundle(r) \/ GiveUpOnBundle(r)
             \/ Throw(r)
      PROVE  Goal
  BY <1>c, <1>d, <1>e, <1>g, <1>j, <1>3
  DEF CheckDestinations, Redirect, BuildDeposit, SendDeposit, LoseSendReply,
      PollDeposit, GiveUpOnDeposit, PollBundle, GiveUpOnBundle, Throw, Parked
<1>4. ASSUME NEW r \in Requests, PostBundle(r) \/ LosePostReply(r) PROVE Goal
  <2>1. PICK named : Propose(r, named)
    BY <1>4 DEF PostBundle, LosePostReply
  <2>2. bundle[r] = None /\ bundle'[r].status = "PENDING"
    BY <1>a, <1>b, <1>4, <2>1
    DEF PostBundle, LosePostReply, Propose, WorldTypeOK, Stages, Parked,
        PastPost
  <2>3. \A s \in Requests : s # r => bundle'[s] = bundle[s]
    BY <1>a, <2>1 DEF Propose, WorldTypeOK
  <2>4. Credited' = Credited
    BY <2>2, <2>3 DEF Credited
  <2>5. answer[r] = "none"
    BY <1>i, <1>4 DEF PostBundle, LosePostReply, Parked
  <2>6. CASE PostBundle(r)
    <3>1. answer' = answer /\ row' = row
      BY <2>6 DEF PostBundle
    <3>2. Report' = Report
      BY <1>f, <2>3, <2>5, <3>1 DEF Unnamed
    <3> QED
      BY <1>c, <1>e, <2>4, <3>1, <3>2
  <2>7. CASE LosePostReply(r)
    BY <1>j, <2>3, <2>4, <2>7 DEF LosePostReply, Parked
  <2> QED
    BY <1>4, <2>6, <2>7
<1>5. ASSUME NEW r \in Requests, RecordPayment(r) PROVE Goal
  <2>1. CASE row' = row
    BY <1>a, <1>c, <1>d, <1>e, <1>g, <1>j, <1>5, <2>1
    DEF RecordPayment, Parked
  <2>2. CASE row' # row
    <3> DEFINE t == [wallet |-> req[r].merchant, amount |-> req[r].amount,
                     bundled |-> bundle[r].named]
    <3>1. t \in Row /\ t # None
      <4>1. req[r] \in Inputs
        BY <1>5, OfferedAssumption
        DEF IInv, RequestInv, Checked, RecordPayment, Parked
      <4>2. bundle[r] \in Bundle
        BY <1>a, <1>b, <1>5
        DEF WorldTypeOK, RecordPayment, Stages, PastPost
      <4> QED
        BY <4>1, <4>2, NoneAssumption DEF Inputs, Bundle, Row
    <3>2. row' = [row EXCEPT ![r] = t] /\ row[r] = None
      BY <1>b, <1>5, <2>2 DEF RecordPayment, Stages, Parked
    <3>3. Credited' = Credited /\ Report' = Report
      BY <1>d, <1>g, <1>5, <2>2 DEF RecordPayment
    <3>4. Report[r] = "none"
      BY <1>i, <1>5 DEF RecordPayment, Parked
    <3>5. CASE bundle[r].named
      <4>1. r \in Credited
        BY <1>b, <1>5, <3>5
        DEF RecordPayment, Stages, Credited, PastPost
      <4>2. Vouched' = Vouched \cup {r}
        BY <1>a, <3>1, <3>2, <3>5 DEF Vouched, DatabaseTypeOK
      <4> QED
        BY <3>3, <3>4, <4>1, <4>2
        DEF Goal, Credited, Promise!Next, Promise!Log
    <3>6. CASE ~bundle[r].named
      <4>1. Vouched' = Vouched
        BY <1>a, <3>1, <3>2, <3>6 DEF Vouched, DatabaseTypeOK
      <4> QED
        BY <1>c, <3>3, <4>1
    <3> QED
      BY <3>5, <3>6
  <2> QED
    BY <2>1, <2>2
<1>6. ASSUME NEW r \in Requests, ReplyCompleted(r) PROVE Goal
  <2>1. Credited' = Credited /\ Vouched' = Vouched
    BY <1>d, <1>e, <1>6 DEF ReplyCompleted
  <2>2. Report[r] = "none"
    BY <1>i, <1>6 DEF ReplyCompleted, Parked
  <2>3. answer' = [answer EXCEPT ![r] = "completed"] /\ bundle' = bundle
    BY <1>6 DEF ReplyCompleted
  <2>4. CASE bundle[r].named
    <3>1. r \in Credited
      BY <1>b, <1>6, <2>4 DEF ReplyCompleted, Stages, Credited, PastPost
    <3>2. Report' = [Report EXCEPT ![r] = "completed"]
      BY <1>a, <2>3, <2>4 DEF Report, HandlerTypeOK
    <3> QED
      BY <2>1, <2>2, <3>1, <3>2
      DEF Goal, Credited, Promise!Next, Promise!ReportCompleted
  <2>5. CASE ~bundle[r].named
    <3>1. Report' = [Report EXCEPT ![r] = "error"]
      BY <1>a, <2>3, <2>5 DEF Report, HandlerTypeOK
    <3> QED
      BY <2>1, <2>2, <3>1 DEF Goal, Credited, Promise!Next, Promise!ReportError
  <2> QED
    BY <2>4, <2>5
<1>7. ASSUME NEW r \in Requests, SettleBundle(r) PROVE Goal
  <2>1. Report[r] # "refused"
    BY <1>b, <1>7 DEF SettleBundle, AnswerGiven, Report
  <2>2. /\ bundle[r] \in Bundle
        /\ bundle'[r] = [bundle[r] EXCEPT !.status = "COMPLETED"]
        /\ \A s \in Requests : s # r => bundle'[s] = bundle[s]
    BY <1>a, <1>7 DEF SettleBundle, WorldTypeOK
  <2>3. /\ bundle'[r] # None /\ bundle'[r].status = "COMPLETED"
        /\ bundle'[r].named = bundle[r].named
    BY <2>2, NoneAssumption DEF Bundle
  <2>4. Credited' = Credited \cup {r}
    BY <2>2, <2>3 DEF Credited
  <2>5. Report' = Report
    BY <1>f, <1>7, <2>2, <2>3 DEF SettleBundle, Unnamed
  <2> QED
    BY <1>e, <1>7, <2>1, <2>4, <2>5
    DEF SettleBundle, Goal, Credited, Promise!Next, Promise!Credit
<1>8. ASSUME NEW r \in Requests, NEW o \in {"FAILED", "EXPIRED"},
             DropBundle(r, o)
      PROVE  Goal
  <2>1. /\ bundle[r] \in Bundle
        /\ bundle'[r] = [bundle[r] EXCEPT !.status = o]
        /\ \A s \in Requests : s # r => bundle'[s] = bundle[s]
    BY <1>a, <1>8 DEF DropBundle, WorldTypeOK
  <2>2. /\ bundle'[r].status # "COMPLETED" /\ bundle[r].status # "COMPLETED"
        /\ bundle'[r].named = bundle[r].named
    BY <1>8, <2>1 DEF Bundle, DropBundle
  <2>3. Credited' = Credited
    BY <2>1, <2>2 DEF Credited
  <2>4. Report' = Report
    BY <1>f, <1>8, <2>1, <2>2 DEF DropBundle, Unnamed
  <2> QED
    BY <1>c, <1>e, <1>8, <2>3, <2>4 DEF DropBundle
<1>9. ASSUME NEW r \in Requests, NEW o \in {"SUCCESS", "FAILED"},
             LandDeposit(r, o)
      PROVE  Goal
  BY <1>c, <1>d, <1>e, <1>g, <1>9 DEF LandDeposit
<1>10. ASSUME NEW m \in Merchants, DeleteAccount(m) PROVE Goal
  <2> DEFINE S == {r \in Requests : row[r] # None /\ row[r].wallet = m}
  <2>1. Vouched' = Vouched \ S
    BY <1>10 DEF DeleteAccount, Vouched
  <2>2. S \in SUBSET Requests
    OBVIOUS
  <2>3. Credited' = Credited /\ Report' = Report
    BY <1>d, <1>g, <1>10 DEF DeleteAccount
  <2> QED
    BY <2>1, <2>2, <2>3 DEF Goal, Credited, Promise!Next, Promise!Erase
<1>11. ASSUME \/ UNCHANGED vars \/ Crash
              \/ \E m \in Merchants :
                   \/ CreateAccount(m)
                   \/ \E k \in Keys : RegisterOpex(m, k)
                   \/ \E u \in Roots : StoreDelegationKey(m, u)
              \/ \E h \in Hashes, p \in Paid : CustomerPays(h, p)
       PROVE  Goal
  BY <1>c, <1>d, <1>e, <1>g, <1>11
  DEF vars, Crash, CreateAccount, RegisterOpex, StoreDelegationKey,
      CustomerPays
<1>12. Goal
  BY <1>1, <1>2, <1>3, <1>4, <1>5, <1>6, <1>7, <1>8, <1>9, <1>10, <1>11
  DEF Next, Step, Fault, Network, Accounts
<1> QED
  BY <1>12 DEF Goal

\* The handlers implement Payment.
THEOREM ImplementsPayment == Spec => PromiseKept
<1>1. Init => Promise!Init
  BY DEF Init, Promise!Init, Vouched, Report
<1>2. IInv /\ [Next]_vars => [Promise!Next]_(Promise!vars)
  BY PromiseStep
<1> QED
  BY <1>1, <1>2, Invariance, PTL DEF Spec, PromiseKept, Promise!Spec
=============================================================================
