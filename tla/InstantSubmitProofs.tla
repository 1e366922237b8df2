------------------------- MODULE InstantSubmitProofs ------------------------
(***************************************************************************)
(* Theorems about ProviderAuth and InstantSubmit, for every value of their *)
(* constants.                                                              *)
(*                                                                         *)
(* The tokens are proved correct for ProviderAuth by itself; the handler's *)
(* steps are steps of it (UsesProviderAuth), so what is proved of tokens   *)
(* holds in the handler.  What the handler logs and answers rests on the   *)
(* order of its stages (Stages) and on Sides, which follows the two rows.  *)
(***************************************************************************)
EXTENDS InstantSubmit, TLAPS

(* Tokens. *)

\* A cached token is good for the provider it is cached for, and the expiry
\* beside it is its own if the server could read it.
CacheSound ==
  \A k \in Keys :
    cache[k] # None =>
      /\ cache[k].jwt.pk = k.pk
      /\ cache[k].jwt.readable => cache[k].expiresAt = cache[k].jwt.expires

\* What a call knows of its provider and its token.
Knows(c) ==
  /\ stage[c] # "idle" => key[c] # None
  /\ stage[c] = "held" => jwt[c] # None /\ jwt[c].pk = key[c].pk
  /\ takenAt[c] # None =>
       /\ stage[c] = "held"
       /\ jwt[c].readable => takenAt[c] + Buffer < jwt[c].expires

AuthInv == AuthTypeOK /\ CacheSound /\ \A c \in Calls : Knows(c)

\* A server just started holds no token.
LEMMA AuthInvInit == AuthInit => AuthInv
  BY TimesAssumption DEF AuthInit, AuthInv, AuthTypeOK, CacheSound, Knows

\* Hits, misses, late answers, failures and restarts keep the cache sound.
LEMMA AuthInvStep == AuthInv /\ [AuthNext]_authVars => AuthInv'
<1> SUFFICES ASSUME AuthInv, [AuthNext]_authVars PROVE AuthInv'
  OBVIOUS
<1> USE DEF AuthInv
<1>1. ASSUME NEW c \in Calls, NEW k \in Keys, GetJwt(c, k) PROVE AuthInv'
  <2>1. key' = [key EXCEPT ![c] = k] /\ k # None /\ UNCHANGED <<now, cache>>
    BY <1>1, NoTokenAssumption DEF GetJwt
  <2>2. CASE StillGood(cache[k])
    <3>1. /\ stage' = [stage EXCEPT ![c] = "held"]
          /\ jwt' = [jwt EXCEPT ![c] = cache[k].jwt]
          /\ takenAt' = [takenAt EXCEPT ![c] = now]
      BY <1>1, <2>2 DEF GetJwt, CacheKey
    <3>2. /\ cache[k] \in Entry /\ cache[k].jwt \in Token
          /\ cache[k].jwt # None /\ now \in Nat
      BY <2>2, NoTokenAssumption, TimesAssumption
      DEF StillGood, AuthTypeOK, Entry
    <3>3. AuthTypeOK'
      BY <2>1, <3>1, <3>2 DEF AuthTypeOK
    <3>4. CacheSound'
      BY <2>1 DEF CacheSound
    <3>5. cache[k].jwt.readable => now + Buffer < cache[k].jwt.expires
      BY <2>2, <3>2, TimesAssumption DEF StillGood, CacheSound, Token, Entry
    <3>6. ASSUME NEW d \in Calls PROVE Knows(d)'
      BY <2>1, <2>2, <3>1, <3>2, <3>5
      DEF StillGood, AuthTypeOK, CacheSound, Knows
    <3> QED
      BY <3>3, <3>4, <3>6
  <2>3. CASE ~StillGood(cache[k])
    BY <1>1, <2>1, <2>3
    DEF GetJwt, CacheKey, AuthTypeOK, CacheSound, Knows
  <2> QED
    BY <2>2, <2>3
<1>2. ASSUME NEW c \in Calls, ReceiveChallenge(c) \/ FailToAuthenticate(c)
      PROVE  AuthInv'
  BY <1>2
  DEF ReceiveChallenge, FailToAuthenticate, AuthTypeOK, CacheSound, Knows
<1>3. ASSUME NEW c \in Calls, ReceiveJwt(c) PROVE AuthInv'
  <2>1. PICK life \in Lifetimes, readable \in BOOLEAN :
          /\ cache' = [cache EXCEPT ![key[c]] =
               [jwt |-> [pk |-> key[c].pk, expires |-> now + life,
                         readable |-> readable],
                expiresAt |-> ParseJwtExpiry(
                  [pk |-> key[c].pk, expires |-> now + life,
                   readable |-> readable])]]
          /\ jwt' = [jwt EXCEPT ![c] =
               [pk |-> key[c].pk, expires |-> now + life,
                readable |-> readable]]
    BY <1>3 DEF ReceiveJwt, CacheKey
  <2> DEFINE t == [pk |-> key[c].pk, expires |-> now + life,
                   readable |-> readable]
             e == [jwt |-> t, expiresAt |-> ParseJwtExpiry(t)]
  <2>2. /\ stage' = [stage EXCEPT ![c] = "held"]
        /\ UNCHANGED <<now, key, takenAt>>
        /\ takenAt[c] = None /\ key[c] \in Keys
    BY <1>3 DEF ReceiveJwt, Knows, AuthTypeOK
  <2>3. t \in Token /\ e \in Entry /\ t # None
    BY <2>2, TimesAssumption, NoTokenAssumption
    DEF Token, Entry, Keys, ParseJwtExpiry, AuthTypeOK
  <2>4. AuthTypeOK'
    BY <2>1, <2>2, <2>3 DEF AuthTypeOK
  <2>5. CacheSound'
    BY <2>1, <2>2, <2>3 DEF CacheSound, AuthTypeOK, ParseJwtExpiry
  <2>6. ASSUME NEW d \in Calls PROVE Knows(d)'
    BY <1>3, <2>1, <2>2, <2>3, <2>6 DEF ReceiveJwt, Knows, AuthTypeOK
  <2> QED
    BY <2>4, <2>5, <2>6
<1>4. CASE Restart
  BY <1>4 DEF Restart, AuthTypeOK, CacheSound, Knows
<1>5. CASE Tick
  BY <1>5, TimesAssumption DEF Tick, AuthTypeOK, CacheSound, Knows
<1>6. CASE UNCHANGED authVars
  BY <1>6 DEF authVars, AuthTypeOK, CacheSound, Knows
<1> QED
  BY <1>1, <1>2, <1>3, <1>4, <1>5, <1>6 DEF AuthNext

\* Every step of the handler and its surroundings is a step of ProviderAuth
\* or leaves it alone.
LEMMA StepsOfAuth == [Next]_vars => [AuthNext]_authVars
<1> SUFFICES ASSUME [Next]_vars PROVE [AuthNext]_authVars
  OBVIOUS
<1> USE DEF AuthNext
<1>1. ASSUME NEW r \in Calls, Step(r) PROVE [AuthNext]_authVars
  <2>1. CASE Authenticate(r)
    BY <2>1 DEF Authenticate
  <2>2. CASE UNCHANGED authVars
    BY <2>2
  <2> QED
    BY <1>1, <2>1, <2>2
    DEF Step, ReceiveMalformed, Receive, Check, FindMerchant, RouteToChannel,
        PickProvider, PostBundle, LogIn, FindCustomer, LogOut,
        ReplyCompleted, Throw
<1>2. ASSUME NEW r \in Calls, AcceptBundle(r) \/ SettleBundle(r)
      PROVE  [AuthNext]_authVars
  BY <1>2 DEF AcceptBundle, SettleBundle
<1>3. ASSUME NEW w \in Wallets, CreateAccount(w) \/ DeleteAccount(w)
      PROVE  [AuthNext]_authVars
  BY <1>3 DEF CreateAccount, DeleteAccount
<1>4. CASE TimePasses \/ Crash
  BY <1>4 DEF TimePasses, Crash
<1>5. CASE UNCHANGED vars
  BY <1>5 DEF vars
<1> QED
  BY <1>1, <1>2, <1>3, <1>4, <1>5 DEF Next

\* Submit uses the token cache as getProviderJwt does: its behaviours are
\* behaviours of ProviderAuth.
THEOREM UsesProviderAuth == Spec => AuthSpec
<1>1. Init => AuthInit
  BY DEF Init
<1> QED
  BY <1>1, StepsOfAuth, PTL DEF Spec, AuthSpec

\* The cache and what calls know of their tokens are as AuthInv says.
THEOREM AuthInvariance == AuthSpec => []AuthInv
  BY AuthInvInit, AuthInvStep, PTL DEF AuthSpec

\* A token minted for one provider is never used for another.
THEOREM TokensOfTheirProviders == Spec => []TokenOfItsProvider
<1>1. AuthInv => TokenOfItsProvider
  BY DEF AuthInv, Knows, TokenOfItsProvider
<1> QED
  BY <1>1, UsesProviderAuth, AuthInvariance, PTL

\* A token taken from the cache outlives the buffer.
THEOREM TokensOutliveTheBuffer == Spec => []TokenOutlivesBuffer
<1>1. AuthInv => TokenOutlivesBuffer
  <2> SUFFICES ASSUME AuthInv, NEW c \in Calls, takenAt[c] # None,
                      jwt[c].readable, now <= takenAt[c] + Buffer
               PROVE  now < jwt[c].expires
    BY DEF TokenOutlivesBuffer
  <2>1. jwt[c] \in Token /\ takenAt[c] \in Nat /\ now \in Nat
    BY TimesAssumption DEF AuthInv, AuthTypeOK, Knows
  <2> QED
    BY <2>1, TimesAssumption DEF AuthInv, Knows, Token
<1> QED
  BY <1>1, UsesProviderAuth, AuthInvariance, PTL

-----------------------------------------------------------------------------
(* The handler. *)

Entered(r) == inRow[r] # None \/ "IN" \in wiped[r]
Charged(r) == outRow[r] # None \/ "OUT" \in wiped[r]

\* What a handler has done by the time it is at each stage.
Stages(r) ==
  /\ pc[r] \in Parked => req[r] # None
  /\ pc[r] \in {"idle", "lookup", "route", "provider"} => stage[r] = "idle"
  /\ pc[r] = "auth" => stage[r] \in {"idle", "challenge", "verify"}
  /\ answer[r] = "refused" => stage[r] = "idle"
  /\ bundle[r] # None => stage[r] = "held"
  /\ pc[r] \in {"logIn", "customer", "logOut", "reply"} => bundle[r] # None
  /\ answer[r] # "none" <=> pc[r] = "done"
  /\ answer[r] = "completed" => bundle[r] # None

\* How the two rows follow the stages.
Sides(r) ==
  /\ Entered(r) => bundle[r] # None
  /\ Charged(r) => Entered(r)
  /\ pc[r] \in {"customer", "logOut", "reply"} => Entered(r)
  /\ pc[r] = "reply" \/ answer[r] = "completed" =>
       Entered(r) /\ (customerFound[r] => Charged(r))

SInv ==
  /\ AuthInv /\ SubmitTypeOK
  /\ \A r \in Calls : Stages(r) /\ Sides(r)

\* No handler has started.
LEMMA SInvInit == Init => SInv
<1> SUFFICES ASSUME Init PROVE SInv
  OBVIOUS
<1>1. AuthInv
  BY AuthInvInit DEF Init
<1>2. SubmitTypeOK
  BY DEF Init, SubmitTypeOK
<1>3. ASSUME NEW r \in Calls PROVE Stages(r) /\ Sides(r)
  BY DEF Init, AuthInit, Stages, Sides, Entered, Charged, Parked
<1> QED
  BY <1>1, <1>2, <1>3 DEF SInv

\* A step of one handler that leaves the rest of the world alone keeps the
\* invariant if it keeps that handler's part of it.
LEMMA OneHandler ==
  ASSUME SInv, AuthInv', SubmitTypeOK', NEW r \in Calls,
         UNCHANGED wiped,
         \A q \in Calls \ {r} :
           /\ pc'[q] = pc[q] /\ req'[q] = req[q] /\ answer'[q] = answer[q]
           /\ customerFound'[q] = customerFound[q] /\ stage'[q] = stage[q]
           /\ bundle'[q] = bundle[q]
           /\ inRow'[q] = inRow[q] /\ outRow'[q] = outRow[q],
         Stages(r)' /\ Sides(r)'
  PROVE  SInv'
<1>1. ASSUME NEW q \in Calls PROVE Stages(q)' /\ Sides(q)'
  BY DEF SInv, Stages, Sides, Entered, Charged
<1> QED
  BY <1>1 DEF SInv

\* The part of the invariant that is about r, in the next state, follows
\* from the step of r.
LEMMA HandlerStep ==
  ASSUME SInv, AuthInv', NEW r \in Calls, Step(r)
  PROVE  SInv'
<1> USE DEF SInv
<1>1. ASSUME NEW i \in Offered, Receive(r, i) PROVE SInv'
  <2>1. i # None
    BY OfferedAssumption
  <2>2. SubmitTypeOK'
    BY <1>1 DEF Receive, GoTo, database, authVars, SubmitTypeOK, Parked
  <2>3. Stages(r)' /\ Sides(r)'
    BY <1>1, <2>1
    DEF Receive, GoTo, database, authVars, SubmitTypeOK, Parked, Stages,
        Sides, Entered, Charged
  <2> QED
    BY <1>1, <2>2, <2>3, OneHandler
    DEF Receive, GoTo, database, authVars, SubmitTypeOK
<1>2. CASE ReceiveMalformed(r) \/ FindMerchant(r) \/ RouteToChannel(r)
           \/ PickProvider(r)
  <2> USE DEF ReceiveMalformed, FindMerchant, RouteToChannel, PickProvider,
              Check, Answer, GoTo, database, authVars
  <2>1. SubmitTypeOK'
    BY <1>2 DEF SubmitTypeOK, Parked
  <2>2. Stages(r)' /\ Sides(r)'
    BY <1>2 DEF SubmitTypeOK, Parked, Stages, Sides, Entered, Charged
  <2> QED
    BY <1>2, <2>1, <2>2, OneHandler DEF SubmitTypeOK
<1>3. CASE Authenticate(r)
  <2>1. /\ pc[r] = "auth"
        /\ UNCHANGED <<req, customerFound, database, bundle, wiped>>
        /\ \/ stage'[r] = "held" /\ GoTo(r, "post") /\ UNCHANGED answer
           \/ stage'[r] = "failed" /\ Answer(r, "error")
           \/ stage'[r] \notin {"held", "failed"} /\ UNCHANGED <<pc, answer>>
    BY <1>3 DEF Authenticate
  <2>2. \A q \in Calls \ {r} : stage'[q] = stage[q]
    BY <1>3
    DEF Authenticate, GetJwt, ReceiveChallenge, ReceiveJwt,
        FailToAuthenticate, AuthInv, AuthTypeOK
  <2>3. stage'[r] \in {"held", "failed", "challenge", "verify"}
    BY <1>3
    DEF Authenticate, GetJwt, ReceiveChallenge, ReceiveJwt,
        FailToAuthenticate, AuthInv, AuthTypeOK
  <2>4. SubmitTypeOK'
    BY <2>1 DEF Answer, GoTo, database, SubmitTypeOK, Parked
  <2>5. Stages(r)' /\ Sides(r)'
    BY <2>1, <2>3
    DEF Answer, GoTo, database, SubmitTypeOK, Parked, Stages, Sides, Entered,
        Charged
  <2> QED
    BY <2>1, <2>2, <2>4, <2>5, OneHandler
    DEF Answer, GoTo, database, SubmitTypeOK
<1>4. CASE PostBundle(r) \/ FindCustomer(r) \/ ReplyCompleted(r) \/ Throw(r)
  <2> USE DEF PostBundle, FindCustomer, ReplyCompleted, Throw, Answer, GoTo,
              database, authVars
  <2>1. SubmitTypeOK'
    <3>1. CASE PostBundle(r) \/ ReplyCompleted(r) \/ Throw(r)
      BY <3>1 DEF SubmitTypeOK, Parked
    <3>2. CASE FindCustomer(r)
      <4>1. account[req[r].customer] \in BOOLEAN
        BY <3>2, OfferedAssumption DEF Stages, SubmitTypeOK, Parked, Inputs
      <4> QED
        BY <3>2, <4>1 DEF SubmitTypeOK, Parked
    <3> QED
      BY <1>4, <3>1, <3>2
  <2>2. Stages(r)' /\ Sides(r)'
    BY <1>4 DEF SubmitTypeOK, Parked, Stages, Sides, Entered, Charged
  <2> QED
    BY <1>4, <2>1, <2>2, OneHandler DEF SubmitTypeOK
<1>5. CASE LogIn(r) \/ LogOut(r)
  <2> USE DEF LogIn, LogOut, Answer, GoTo, authVars
  <2>1. req[r] \in Inputs
    BY <1>5, OfferedAssumption DEF Stages, Parked, SubmitTypeOK
  <2> DEFINE in == [wallet |-> req[r].merchant,
                    counterparty |-> req[r].customer]
             out == [wallet |-> req[r].customer,
                     counterparty |-> req[r].merchant]
  <2>2. in \in Row /\ out \in Row /\ in # None /\ out # None
    BY <2>1, NoRowAssumption DEF Inputs, Row
  <2>3. SubmitTypeOK'
    <3>1. CASE LogIn(r)
      BY <2>2, <3>1 DEF SubmitTypeOK, Parked
    <3>2. CASE LogOut(r)
      BY <2>2, <3>2 DEF SubmitTypeOK, Parked
    <3> QED
      BY <1>5, <3>1, <3>2
  <2>4. Stages(r)' /\ Sides(r)'
    BY <1>5, <2>2 DEF SubmitTypeOK, Parked, Stages, Sides, Entered, Charged
  <2> QED
    BY <1>5, <2>3, <2>4, OneHandler DEF SubmitTypeOK
<1> QED
  BY <1>1, <1>2, <1>3, <1>4, <1>5 DEF Step
\* Handlers, the provider, accounts, the clock and crashes keep it too.
LEMMA SInvStep == SInv /\ [Next]_vars => SInv'
<1> SUFFICES ASSUME SInv, [Next]_vars PROVE SInv'
  OBVIOUS
<1> USE DEF SInv
<1>0. AuthInv'
  BY StepsOfAuth, AuthInvStep
<1>1. ASSUME NEW r \in Calls, Step(r) PROVE SInv'
  BY <1>0, <1>1, HandlerStep
<1>2. ASSUME NEW r \in Calls, AcceptBundle(r) \/ SettleBundle(r)
      PROVE  SInv'
  <2> USE DEF AcceptBundle, SettleBundle, handler, database, authVars,
              Outcomes
  <2>1. SubmitTypeOK'
    BY <1>2 DEF SubmitTypeOK
  <2>2. Stages(r)' /\ Sides(r)'
    BY <1>2, NoRowAssumption
    DEF SubmitTypeOK, Stages, Sides, Entered, Charged
  <2> QED
    BY <1>0, <1>2, <2>1, <2>2, OneHandler DEF SubmitTypeOK
<1>3. ASSUME NEW w \in Wallets, CreateAccount(w) PROVE SInv'
  <2> USE DEF CreateAccount, handler, authVars
  <2>1. SubmitTypeOK'
    BY <1>3 DEF SubmitTypeOK
  <2>2. ASSUME NEW r \in Calls PROVE Stages(r)' /\ Sides(r)'
    BY <1>3 DEF Stages, Sides, Entered, Charged
  <2> QED
    BY <1>0, <2>1, <2>2
<1>4. ASSUME NEW w \in Wallets, DeleteAccount(w) PROVE SInv'
  <2>1. /\ account' = [account EXCEPT ![w] = FALSE]
        /\ \A r \in Calls :
             /\ inRow'[r] \in {inRow[r], None}
             /\ outRow'[r] \in {outRow[r], None}
             /\ wiped'[r] = wiped[r]
                  \cup (IF inRow'[r] # inRow[r] THEN {"IN"} ELSE {})
                  \cup (IF outRow'[r] # outRow[r] THEN {"OUT"} ELSE {})
        /\ inRow' = Without(inRow, w) /\ outRow' = Without(outRow, w)
        /\ UNCHANGED <<handler, bundle, authVars>>
    BY <1>4 DEF DeleteAccount, Without
  <2>2. SubmitTypeOK'
    <3>1. inRow' \in [Calls -> Row \cup {None}]
      BY <2>1 DEF Without, SubmitTypeOK
    <3>2. outRow' \in [Calls -> Row \cup {None}]
      BY <2>1 DEF Without, SubmitTypeOK
    <3>3. wiped' \in [Calls -> SUBSET {"IN", "OUT"}]
      BY <1>4 DEF DeleteAccount, SubmitTypeOK
    <3> QED
      BY <2>1, <3>1, <3>2, <3>3 DEF handler, SubmitTypeOK
  <2>3. ASSUME NEW r \in Calls PROVE Stages(r)' /\ Sides(r)'
    <3>1. (Entered(r)' <=> Entered(r)) /\ (Charged(r)' <=> Charged(r))
      BY <2>1 DEF Entered, Charged
    <3> QED
      BY <2>1, <3>1 DEF handler, authVars, Stages, Sides
  <2> QED
    BY <1>0, <2>2, <2>3
<1>5. CASE TimePasses
  <2>1. SubmitTypeOK'
    BY <1>5 DEF TimePasses, handler, database, SubmitTypeOK
  <2>2. ASSUME NEW r \in Calls PROVE Stages(r)' /\ Sides(r)'
    BY <1>5
    DEF TimePasses, Tick, handler, database, Stages, Sides, Entered, Charged
  <2> QED
    BY <1>0, <2>1, <2>2
<1>6. CASE Crash
  <2>1. SubmitTypeOK'
    BY <1>6 DEF Crash, database, SubmitTypeOK, Parked
  <2>2. ASSUME NEW r \in Calls PROVE Stages(r)' /\ Sides(r)'
    BY <1>6
    DEF Crash, Restart, database, SubmitTypeOK, Parked, Stages, Sides,
        Entered, Charged
  <2> QED
    BY <1>0, <2>1, <2>2
<1>7. CASE UNCHANGED vars
  BY <1>0, <1>7
  DEF vars, handler, database, authVars, SubmitTypeOK, Stages, Sides,
      Entered, Charged
<1> QED
  BY <1>1, <1>2, <1>3, <1>4, <1>5, <1>6, <1>7 DEF Next

\* The invariant holds in every state.
THEOREM Invariance == Spec => []SInv
  BY SInvInit, SInvStep, PTL DEF Spec

\* Types of the handler, the database and the tokens.
THEOREM TypeCorrect == Spec => []TypeOK
<1>1. SInv => TypeOK
  BY DEF SInv, AuthInv, TypeOK
<1> QED
  BY <1>1, Invariance, PTL

\* No customer is charged in the log for a payment that the merchant's log
\* never had, and a COMPLETED answer stands for both rows.
THEOREM LogIsTwoSided == Spec => []TwoSided
<1>1. SInv => TwoSided
  BY DEF SInv, Sides, Entered, Charged, TwoSided
<1> QED
  BY <1>1, Invariance, PTL

-----------------------------------------------------------------------------
(* The promise of a payment, read for acceptance. *)

credited == {r \in Calls : bundle[r] # None}
logged == {r \in Calls : inRow[r] # None}

\* A handler's step is a step of Payment or none.
LEMMA PromisedByHandler ==
  ASSUME SInv, NEW r \in Calls, Step(r)
  PROVE  [Promise!Next]_(Promise!vars)
<1> USE DEF SInv, Promise!vars
<1>1. CASE UNCHANGED <<answer, inRow, bundle>>
  BY <1>1
<1>2. CASE LogIn(r) /\ UNCHANGED answer
  <2>1. /\ req[r] \in Inputs /\ answer[r] = "none" /\ bundle[r] # None
        /\ inRow' = [inRow EXCEPT ![r] =
             [wallet |-> req[r].merchant, counterparty |-> req[r].customer]]
        /\ UNCHANGED <<answer, bundle>>
    BY <1>2, OfferedAssumption
    DEF LogIn, Answer, GoTo, Stages, Parked, SubmitTypeOK
  <2>2. logged' = logged \cup {r}
    BY <2>1, NoRowAssumption DEF logged, SubmitTypeOK, Inputs, Row
  <2>3. Promise!Log(r)
    BY <2>1, <2>2 DEF Promise!Log, logged
  <2> QED
    BY <2>3 DEF Promise!Next
<1>3. CASE /\ answer[r] = "none" /\ UNCHANGED <<inRow, bundle>>
           /\ answer' = [answer EXCEPT ![r] = "error"]
  BY <1>3 DEF Promise!ReportError, Promise!Next
<1>4. CASE /\ answer[r] = "none" /\ bundle[r] # None
           /\ UNCHANGED <<inRow, bundle>>
           /\ answer' = [answer EXCEPT ![r] = "completed"]
  BY <1>4 DEF Promise!ReportCompleted, Promise!Next
<1>5. CASE /\ answer[r] = "none" /\ bundle[r] = None /\ inRow[r] = None
           /\ UNCHANGED <<inRow, bundle>>
           /\ answer' = [answer EXCEPT ![r] = "refused"]
  BY <1>5 DEF Promise!ReportRefused, Promise!Next
<1>6. CASE Step(r) /\ ~(LogIn(r) /\ UNCHANGED answer)
  <2>1. UNCHANGED <<inRow, bundle>>
    BY <1>6
    DEF Step, ReceiveMalformed, Receive, Check, FindMerchant, RouteToChannel,
        PickProvider, Authenticate, PostBundle, LogIn, FindCustomer, LogOut,
        ReplyCompleted, Throw, database
  <2>2. \/ UNCHANGED answer
        \/ /\ answer[r] = "none"
           /\ answer' = [answer EXCEPT ![r] = "error"]
        \/ /\ answer[r] = "none" /\ bundle[r] # None
           /\ answer' = [answer EXCEPT ![r] = "completed"]
        \/ /\ answer[r] = "none" /\ bundle[r] = None /\ inRow[r] = None
           /\ answer' = [answer EXCEPT ![r] = "refused"]
    BY <1>6
    DEF Step, ReceiveMalformed, Receive, Check, FindMerchant, RouteToChannel,
        PickProvider, Authenticate, PostBundle, LogIn, FindCustomer, LogOut,
        ReplyCompleted, Throw, Answer, Stages, Sides, Entered, Parked
  <2> QED
    BY <1>1, <1>3, <1>4, <1>5, <2>1, <2>2
<1> QED
  BY <1>2, <1>6

\* Every step is a step of Payment or none.
LEMMA PromiseStep == SInv /\ [Next]_vars => [Promise!Next]_(Promise!vars)
<1> SUFFICES ASSUME SInv, [Next]_vars
             PROVE  [Promise!Next]_(Promise!vars)
  OBVIOUS
<1> USE DEF Promise!vars
<1>1. ASSUME NEW r \in Calls, Step(r) PROVE [Promise!Next]_(Promise!vars)
  BY <1>1, PromisedByHandler
<1>2. ASSUME NEW r \in Calls, AcceptBundle(r)
      PROVE  [Promise!Next]_(Promise!vars)
  <2>1. /\ bundle' = [bundle EXCEPT ![r] = "accepted"]
        /\ UNCHANGED <<answer, inRow>> /\ answer[r] # "refused"
    BY <1>2 DEF AcceptBundle, handler, database, SInv, Stages
  <2>2. credited' = credited \cup {r}
    BY <2>1, NoRowAssumption DEF credited, SInv, SubmitTypeOK, Outcomes
  <2>3. Promise!Credit(r)
    BY <2>1, <2>2 DEF Promise!Credit, credited
  <2> QED
    BY <2>3 DEF Promise!Next
<1>3. ASSUME NEW r \in Calls, SettleBundle(r)
      PROVE  [Promise!Next]_(Promise!vars)
  <2>1. /\ bundle[r] = "accepted"
        /\ bundle' = [bundle EXCEPT ![r] = "settled"]
        /\ UNCHANGED <<answer, inRow>>
    BY <1>3 DEF SettleBundle, handler, database
  <2>2. UNCHANGED credited
    BY <2>1, NoRowAssumption DEF credited, SInv, SubmitTypeOK, Outcomes
  <2> QED
    BY <2>1, <2>2 DEF credited
<1>4. ASSUME NEW w \in Wallets, DeleteAccount(w)
      PROVE  [Promise!Next]_(Promise!vars)
  <2> DEFINE gone == {r \in Calls : inRow[r] # None /\ inRow'[r] = None}
  <2>1. /\ \A r \in Calls : inRow'[r] \in {inRow[r], None}
        /\ UNCHANGED <<answer, bundle>>
    BY <1>4 DEF DeleteAccount, Without, handler
  <2>2. logged' = logged \ gone
    BY <2>1 DEF logged
  <2>3. gone \in SUBSET Calls
    OBVIOUS
  <2>4. \E S \in SUBSET Calls : logged' = logged \ S
    BY <2>2, <2>3
  <2>5. \E S \in SUBSET Calls : Promise!Erase(S)
    BY <2>1, <2>4 DEF Promise!Erase, logged
  <2> QED
    BY <2>5 DEF Promise!Next
<1>5. ASSUME NEW w \in Wallets, CreateAccount(w)
      PROVE  [Promise!Next]_(Promise!vars)
  BY <1>5 DEF CreateAccount, handler
<1>6. CASE TimePasses \/ Crash \/ UNCHANGED vars
  BY <1>6 DEF TimePasses, Crash, vars, handler, database
<1> QED
  BY <1>1, <1>2, <1>3, <1>4, <1>5, <1>6 DEF Next

\* Submit keeps the promise of a payment if "credited" is read as "accepted
\* by the provider".
THEOREM ImplementsPayment == Spec => AcceptancePromised
<1>1. Init => Promise!Init
  BY DEF Init, Promise!Init
<1> QED
  BY <1>1, PromiseStep, Invariance, PTL
  DEF Spec, AcceptancePromised, Promise!Spec
=============================================================================
