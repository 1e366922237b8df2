-------------------------- MODULE WalletAuthProofs --------------------------
(***************************************************************************)
(* Theorems about WalletAuth, for every value of its constants.            *)
(*                                                                         *)
(* A verify call trusts what it read before its digests were computed, so  *)
(* the invariant keeps that knowledge with the call (Admitted), whatever   *)
(* happens to the challenge itself in between.                             *)
(***************************************************************************)
EXTENDS WalletAuth, FiniteSetTheorems, TLAPS

Bounded == IsFiniteSet(DOMAIN pending) /\ PendingBounded

\* A pending challenge is the one its nonce was drawn for.
PendingIssued == \A n \in DOMAIN pending : issued[n] = pending[n]

\* What a call past its first await knows of its challenge.
Admitted(v) ==
  stage[v] \in {"sep43", "sep53", "token", "granted"} =>
    /\ call[v] # None
    /\ issued[call[v].body.nonce] # None
    /\ issued[call[v].body.nonce].wallet = call[v].body.wallet
    /\ call[v].at - issued[call[v].body.nonce].at <= TTL

Verified(v) == stage[v] \in {"token", "granted"} => Valid(v)

IInv ==
  /\ TypeOK /\ PendingIssued
  /\ \A v \in Calls : Admitted(v) /\ Verified(v)

\* The challenge of a call whose signature was accepted.
Redeemed(v) ==
  stage[v] \in {"token", "granted"} => call[v].body.nonce \notin DOMAIN pending

-----------------------------------------------------------------------------

\* A server just started has drawn no challenge.
LEMMA InvInit == Init => IInv
  BY BoundsAssumption
  DEF Init, IInv, TypeOK, PendingIssued, Admitted, Verified, InFlight

\* Challenges drawn, looked up, consumed, expired or lost keep the invariant.
LEMMA InvStep == IInv /\ [Next]_vars => IInv'
<1> SUFFICES ASSUME IInv, [Next]_vars PROVE IInv'
  OBVIOUS
<1> USE DEF IInv
<1>1. ASSUME NEW w \in Wallets, Create(w) PROVE IInv'
  <2> DEFINE c == [wallet |-> w, at |-> clock]
  <2>1. CASE pending' = [m \in Live |-> pending[m]] /\ UNCHANGED issued
    BY <1>1, <2>1
    DEF Create, Live, TypeOK, PendingIssued, Admitted, Verified, Valid, Signed
  <2>2. ASSUME NEW n \in Nonces, issued[n] = None,
               issued' = [issued EXCEPT ![n] = c],
               pending' = [m \in Live \cup {n} |->
                             IF m = n THEN c ELSE pending[m]]
        PROVE  IInv'
    <3>1. c \in Challenge /\ c # None
      BY NoneAssumption DEF TypeOK, Challenge
    <3>2. TypeOK'
      BY <1>1, <2>2, <3>1 DEF Create, Live, TypeOK
    <3>3. PendingIssued'
      BY <2>2 DEF Live, TypeOK, PendingIssued
    <3>4. ASSUME NEW v \in Calls PROVE Admitted(v)' /\ Verified(v)'
      <4>1. call'[v] = call[v] /\ stage'[v] = stage[v]
        BY <1>1 DEF Create
      <4>2. issued[call[v].body.nonce] # None =>
              call[v] = None \/
              issued'[call[v].body.nonce] = issued[call[v].body.nonce]
        BY <2>2 DEF TypeOK, Body
      <4> QED
        BY <4>1, <4>2 DEF Admitted, Verified, Valid, Signed
    <3> QED
      BY <3>2, <3>3, <3>4
  <2> QED
    BY <1>1, <2>1, <2>2 DEF Create
<1>2. ASSUME NEW v \in Calls, NEW b \in Body, Begin(v, b) PROVE IInv'
  <2>1. TypeOK'
    BY <1>2 DEF Begin, TypeOK, Without, GoTo, InFlight, Lookup
  <2>2. PendingIssued'
    BY <1>2 DEF Begin, PendingIssued, Without
  <2>3. ASSUME NEW u \in Calls, u # v PROVE Admitted(u)' /\ Verified(u)'
    BY <1>2, <2>3
    DEF Begin, GoTo, TypeOK, Admitted, Verified, Valid, Signed
  <2>4. Admitted(v)' /\ Verified(v)'
    <3>1. call'[v] = [body |-> b, at |-> clock] /\ call'[v] # None
      BY <1>2, NoneAssumption DEF Begin, TypeOK, Lookup
    <3>2. stage'[v] \in {"sep43", "rejected"}
      BY <1>2 DEF Begin, GoTo, TypeOK
    <3>3. CASE stage'[v] = "sep43"
      BY <1>2, <3>1, <3>3, BoundsAssumption, NoneAssumption
      DEF Begin, GoTo, TypeOK, PendingIssued, Expired, Challenge, Body,
          Admitted, Verified
    <3> QED
      BY <3>2, <3>3 DEF Admitted, Verified
  <2> QED
    BY <2>1, <2>2, <2>3, <2>4
<1>3. ASSUME NEW v \in Calls, Step(v) PROVE IInv'
  <2>1. TypeOK' /\ PendingIssued'
    BY <1>3
    DEF Step, CheckSep43, CheckSep53AndRaw, Grant, Consume, Without, GoTo,
        TypeOK, InFlight, PendingIssued
  <2>2. ASSUME NEW u \in Calls PROVE Admitted(u)' /\ Verified(u)'
    BY <1>3, <2>2
    DEF Step, CheckSep43, CheckSep53AndRaw, Grant, Consume, GoTo, TypeOK,
        Admitted, Verified, Valid, Signed
  <2> QED
    BY <2>1, <2>2
<1>4. CASE Crash
  BY <1>4, BoundsAssumption
  DEF Crash, TypeOK, InFlight, PendingIssued, Admitted, Verified, Valid,
      Signed
<1>5. CASE Tick
  BY <1>5 DEF Tick, TypeOK, PendingIssued, Admitted, Verified, Valid, Signed
<1>6. CASE UNCHANGED vars
  BY <1>6 DEF vars, TypeOK, PendingIssued, Admitted, Verified, Valid, Signed
<1> QED
  BY <1>1, <1>2, <1>3, <1>4, <1>5, <1>6 DEF Next

\* The invariant holds in every state.
THEOREM Invariance == Spec => []IInv
  BY InvInit, InvStep, PTL DEF Spec

-----------------------------------------------------------------------------

\* What is pending was drawn; what is in flight was looked up.
THEOREM TypeCorrect == Spec => []TypeOK
<1>1. IInv => TypeOK
  BY DEF IInv
<1> QED
  BY <1>1, Invariance, PTL

\* A token goes only to the wallet the challenge was drawn for, for its
\* valid signature, on a challenge that had not expired when looked up.
THEOREM TokensEarned == Spec => []TokensAreEarned
<1>1. IInv => TokensAreEarned
  BY DEF IInv, Admitted, Verified, TokensAreEarned
<1> QED
  BY <1>1, Invariance, PTL

\* The table of pending challenges never outgrows MAX_PENDING_CHALLENGES.
THEOREM TableBounded == Spec => []PendingBounded
<1>1. Init => Bounded
  BY FS_EmptySet, BoundsAssumption DEF Init, Bounded, PendingBounded
<1>2. TypeOK /\ Bounded /\ [Next]_vars => Bounded'
  <2> SUFFICES ASSUME TypeOK, Bounded, [Next]_vars PROVE Bounded'
    OBVIOUS
  <2>1. ASSUME DOMAIN pending' \subseteq DOMAIN pending PROVE Bounded'
    <3>1. /\ IsFiniteSet(DOMAIN pending')
          /\ Cardinality(DOMAIN pending') <= Cardinality(DOMAIN pending)
      BY <2>1, FS_Subset DEF Bounded
    <3>2. /\ Cardinality(DOMAIN pending) \in Nat
          /\ Cardinality(DOMAIN pending') \in Nat
      BY <3>1, FS_CardinalityType DEF Bounded
    <3> QED
      BY <3>1, <3>2, BoundsAssumption DEF Bounded, PendingBounded
  <2>2. ASSUME NEW w \in Wallets, Create(w) PROVE Bounded'
    <3>1. CASE pending' = [m \in Live |-> pending[m]]
      BY <2>1, <3>1 DEF Live
    <3>2. ASSUME NEW n \in Nonces, DOMAIN pending' = Live \cup {n},
                 Cardinality(Live) < MaxPending
          PROVE  Bounded'
      <4>1. IsFiniteSet(Live) /\ Cardinality(Live) \in Nat
        BY FS_Subset, FS_CardinalityType DEF Live, Bounded
      <4>2. /\ IsFiniteSet(Live \cup {n})
            /\ Cardinality(Live \cup {n}) \in
                 {Cardinality(Live), Cardinality(Live) + 1}
        BY <4>1, FS_AddElement
      <4>3. Cardinality(Live \cup {n}) <= MaxPending
        BY <3>2, <4>1, <4>2, BoundsAssumption
      <4> QED
        BY <3>2, <4>2, <4>3 DEF Bounded, PendingBounded
    <3> QED
      BY <2>2, <3>1, <3>2 DEF Create
  <2>3. CASE Crash
    BY <2>1, <2>3 DEF Crash
  <2>4. ASSUME NEW v \in Calls, Step(v) \/ \E b \in Body : Begin(v, b)
        PROVE  Bounded'
    BY <2>1, <2>4
    DEF Step, Begin, CheckSep43, CheckSep53AndRaw, Grant, Consume, Without
  <2>5. CASE Tick \/ UNCHANGED vars
    BY <2>1, <2>5 DEF Tick, vars
  <2> QED
    BY <2>2, <2>3, <2>4, <2>5 DEF Next
<1>3. IInv => TypeOK
  BY DEF IInv
<1>4. Bounded => PendingBounded
  BY DEF Bounded
<1> QED
  BY <1>1, <1>2, <1>3, <1>4, Invariance, PTL DEF Spec

\* A nonce whose signature was accepted never comes back: it is not drawn
\* again, and nothing else puts a challenge into the table.
THEOREM RedeemedAreGone == Spec => []RedeemedIsGone
<1>1. Init => RedeemedIsGone
  BY DEF Init, RedeemedIsGone
<1>2. IInv /\ RedeemedIsGone /\ [Next]_vars => RedeemedIsGone'
  <2> SUFFICES ASSUME IInv, RedeemedIsGone, [Next]_vars, NEW u \in Calls
               PROVE  Redeemed(u)'
    BY DEF RedeemedIsGone, Redeemed
  <2>1. TypeOK /\ Admitted(u) /\ Redeemed(u)
    BY DEF IInv, RedeemedIsGone, Redeemed
  <2>2. ASSUME NEW w \in Wallets, Create(w) PROVE Redeemed(u)'
    <3>1. stage' = stage /\ call' = call
      BY <2>2 DEF Create
    <3>2. ASSUME NEW n \in DOMAIN pending' \ DOMAIN pending
          PROVE  issued[n] = None
      BY <2>2, <3>2 DEF Create, Live
    <3> QED
      BY <2>1, <3>1, <3>2 DEF Redeemed, Admitted
  <2>3. ASSUME NEW v \in Calls, NEW b \in Body, Begin(v, b)
        PROVE  Redeemed(u)'
    <3>1. DOMAIN pending' \subseteq DOMAIN pending
      BY <2>3 DEF Begin, Without
    <3>2. CASE u = v
      <4>1. stage'[u] \in {"sep43", "rejected"}
        BY <2>1, <2>3, <3>2 DEF Begin, GoTo, TypeOK
      <4> QED
        BY <4>1 DEF Redeemed
    <3>3. CASE u # v
      <4>1. stage'[u] = stage[u] /\ call'[u] = call[u]
        BY <2>1, <2>3, <3>3 DEF Begin, GoTo, TypeOK
      <4> QED
        BY <2>1, <3>1, <4>1 DEF Redeemed
    <3> QED
      BY <3>2, <3>3
  <2>4. ASSUME NEW v \in Calls, Step(v) PROVE Redeemed(u)'
    <3>1. DOMAIN pending' \subseteq DOMAIN pending /\ call' = call
      BY <2>4
      DEF Step, CheckSep43, CheckSep53AndRaw, Grant, Consume, Without
    <3>2. CASE stage'[u] = stage[u]
      BY <2>1, <3>1, <3>2 DEF Redeemed
    <3>3. CASE Grant(u)
      BY <2>1, <3>1, <3>3 DEF Grant, Redeemed
    <3>4. CASE Consume(u)
      BY <3>1, <3>4 DEF Consume, Without, Redeemed
    <3>5. CASE stage'[u] \in {"sep53", "rejected"}
      BY <3>5 DEF Redeemed
    <3> QED
      BY <2>1, <2>4, <3>2, <3>3, <3>4, <3>5
      DEF Step, CheckSep43, CheckSep53AndRaw, Grant, Consume, GoTo, TypeOK
  <2>5. CASE Crash
    BY <2>5 DEF Crash, Redeemed
  <2>6. CASE Tick \/ UNCHANGED vars
    BY <2>1, <2>6 DEF Tick, vars, Redeemed
  <2> QED
    BY <2>2, <2>3, <2>4, <2>5, <2>6 DEF Next
<1> QED
  BY <1>1, <1>2, Invariance, PTL DEF Spec

\* Only expiry, a restart or a valid signature takes a challenge away.
THEOREM ChallengesAreNotBurned == Spec => ChallengeNotBurned
<1>1. IInv /\ [Next]_vars =>
        [\A n \in DOMAIN pending :
           n \notin DOMAIN pending' =>
             \/ Expired(n)
             \/ crashes' # crashes
             \/ \E v \in Calls :
                  /\ stage[v] \in {"sep43", "sep53"} /\ stage'[v] = "token"
                  /\ call[v].body.nonce = n /\ Valid(v)]_vars
  <2> DEFINE Kept == \A n \in DOMAIN pending :
                       n \notin DOMAIN pending' =>
                         \/ Expired(n)
                         \/ crashes' # crashes
                         \/ \E v \in Calls :
                              /\ stage[v] \in {"sep43", "sep53"}
                              /\ stage'[v] = "token"
                              /\ call[v].body.nonce = n /\ Valid(v)
  <2> SUFFICES ASSUME TypeOK, [Next]_vars PROVE Kept
    BY DEF IInv
  <2>1. ASSUME NEW w \in Wallets, Create(w) PROVE Kept
    BY <2>1 DEF Create, Live
  <2>2. ASSUME NEW v \in Calls, NEW b \in Body, Begin(v, b) PROVE Kept
    BY <2>2 DEF Begin, Without
  <2>3. ASSUME NEW v \in Calls, Step(v) PROVE Kept
    <3>1. CASE DOMAIN pending \subseteq DOMAIN pending'
      BY <3>1
    <3>2. CASE /\ Consume(v) /\ Valid(v)
               /\ stage[v] \in {"sep43", "sep53"}
      BY <3>2 DEF Consume, Without, GoTo, TypeOK
    <3> QED
      BY <2>3, <3>1, <3>2
      DEF Step, CheckSep43, CheckSep53AndRaw, Grant, Valid, Signed
  <2>4. CASE Crash
    BY <2>4 DEF Crash, TypeOK
  <2>5. CASE Tick \/ UNCHANGED vars
    BY <2>5 DEF Tick, vars
  <2> QED
    BY <2>1, <2>2, <2>3, <2>4, <2>5 DEF Next
<1> QED
  BY <1>1, Invariance, PTL DEF Spec, ChallengeNotBurned
=============================================================================
