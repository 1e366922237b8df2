----------------------------- MODULE WalletAuth -----------------------------
(***************************************************************************)
(* Wallet authentication by signed challenge                               *)
(* (src/src/core/service/auth/wallet-auth.ts and its two handlers).        *)
(*                                                                         *)
(* POST /auth/challenge draws a nonce for a wallet and keeps it in memory; *)
(* POST /auth/verify trades a signature over the nonce for a JWT.  Drawing *)
(* is one synchronous step.  Verifying is not: each SHA-256 digest is an   *)
(* await, so other calls run between the look-up of a challenge and its    *)
(* removal.                                                                *)
(***************************************************************************)
EXTENDS Naturals, FiniteSets

CONSTANTS
  Wallets,     \* wallet key pairs
  Nonces,      \* nonces the random generator draws, never one twice
  Calls,       \* verify calls
  Formats,     \* what a client signed: SEP-43, SEP-53, the raw bytes, or no
               \* encoding of this nonce at all ("none")
  MaxPending,  \* MAX_PENDING_CHALLENGES
  TTL,         \* challengeTtlMs
  MaxClock,    \* bound on time
  MaxCrashes,  \* bound on restarts
  None

ASSUME FormatsAssumption == Formats \subseteq {"sep43", "sep53", "raw", "none"}
ASSUME BoundsAssumption ==
  /\ MaxPending \in Nat \ {0} /\ TTL \in Nat
  /\ MaxClock \in Nat /\ MaxCrashes \in Nat

VARIABLES
  pending,   \* pendingChallenges: nonce -> wallet and time
  clock,     \* Date.now()
  issued,    \* history: the challenge each nonce was drawn for
  call,      \* the body of each verify call and when it looked up its nonce
  stage,     \* the await each verify call is parked at
  crashes    \* restarts so far

vars == <<pending, clock, issued, call, stage, crashes>>

Challenge == [wallet : Wallets, at : Nat]
Body == [nonce : Nonces, wallet : Wallets, signer : Wallets,
         format : Formats]
InFlight == {"sep43", "sep53", "token"}

\* A call's body with the time its challenge was looked up.
Lookup == [body : Body, at : Nat]

ASSUME NoneAssumption == None \notin Challenge /\ None \notin Lookup

TypeOK ==
  /\ DOMAIN pending \subseteq Nonces
  /\ \A n \in DOMAIN pending : pending[n] \in Challenge
  /\ clock \in Nat
  /\ issued \in [Nonces -> Challenge \cup {None}]
  /\ call \in [Calls -> Lookup \cup {None}]
  /\ stage \in [Calls -> InFlight \cup {"idle", "granted", "rejected", "lost"}]
  /\ crashes \in Nat

Init ==
  /\ pending = [n \in {} |-> None]
  /\ clock = 0
  /\ issued = [n \in Nonces |-> None]
  /\ call = [v \in Calls |-> None]
  /\ stage = [v \in Calls |-> "idle"]
  /\ crashes = 0

-----------------------------------------------------------------------------

Expired(n) == clock - pending[n].at > TTL

\* Mutant: the entry is emptied but not removed.
Emptied(n) == [m \in DOMAIN pending |-> IF m = n THEN None ELSE pending[m]]

Without(n) == [m \in DOMAIN pending \ {n} |-> pending[m]]

GoTo(v, s) == stage' = [stage EXCEPT ![v] = s]

\* Does the signature verify under one of these encodings of the nonce?
Signed(v, encodings) ==
  /\ call[v].body.signer = call[v].body.wallet
  /\ call[v].body.format \in encodings

Valid(v) == Signed(v, {"sep43", "sep53", "raw"})

\* The challenges cleanupExpiredChallenges keeps.
Live == {n \in DOMAIN pending : ~Expired(n)}

\* Mutant: the limit is compared before the new challenge counts.
CreateOneTooMany(w) ==
  /\ \/ /\ Cardinality(Live) <= MaxPending
        /\ \E n \in Nonces :
             /\ issued[n] = None
             /\ issued' = [issued EXCEPT ![n] = [wallet |-> w, at |-> clock]]
             /\ pending' = [m \in Live \cup {n} |->
                              IF m = n THEN [wallet |-> w, at |-> clock]
                                       ELSE pending[m]]
     \/ /\ Cardinality(Live) > MaxPending
        /\ pending' = [m \in Live |-> pending[m]]
        /\ UNCHANGED issued
  /\ UNCHANGED <<clock, call, stage, crashes>>

\* createWalletChallenge: expired challenges go first; a full table refuses
\* the caller (429).
Create(w) ==
  /\ \/ /\ Cardinality(Live) < MaxPending
        /\ \E n \in Nonces :
             /\ issued[n] = None
             /\ issued' = [issued EXCEPT ![n] = [wallet |-> w, at |-> clock]]
             /\ pending' = [m \in Live \cup {n} |->
                              IF m = n THEN [wallet |-> w, at |-> clock]
                                       ELSE pending[m]]
     \/ /\ Cardinality(Live) >= MaxPending
        /\ pending' = [m \in Live |-> pending[m]]
        /\ UNCHANGED issued
  /\ UNCHANGED <<clock, call, stage, crashes>>

\* Mutant: the challenge need not have been drawn for this wallet.
BeginForAnyWallet(v, b) ==
  /\ stage[v] = "idle"
  /\ call' = [call EXCEPT ![v] = [body |-> b, at |-> clock]]
  /\ \/ /\ b.nonce \in DOMAIN pending /\ ~Expired(b.nonce)
        /\ GoTo(v, "sep43")
        /\ UNCHANGED pending
     \/ /\ ~(b.nonce \in DOMAIN pending /\ ~Expired(b.nonce))
        /\ GoTo(v, "rejected")
        /\ UNCHANGED pending
  /\ UNCHANGED <<clock, issued, crashes>>

\* verifyWalletChallenge up to its first await: an expired challenge is
\* removed, one drawn for another wallet is left alone.
Begin(v, b) ==
  /\ stage[v] = "idle"
  /\ call' = [call EXCEPT ![v] = [body |-> b, at |-> clock]]
  /\ \/ /\ b.nonce \notin DOMAIN pending
        /\ GoTo(v, "rejected")
        /\ UNCHANGED pending
     \/ /\ b.nonce \in DOMAIN pending
        /\ Expired(b.nonce)
        /\ GoTo(v, "rejected")
        /\ pending' = Without(b.nonce)
     \/ /\ b.nonce \in DOMAIN pending
        /\ ~Expired(b.nonce)
        /\ GoTo(v, IF pending[b.nonce].wallet = b.wallet
                   THEN "sep43" ELSE "rejected")
        /\ UNCHANGED pending
  /\ UNCHANGED <<clock, issued, crashes>>

\* Mutant: the nonce outlives its use.
ConsumeNothing(v) ==
  /\ UNCHANGED pending
  /\ GoTo(v, "token")

\* The nonce is removed whether or not another call has done so meanwhile.
Consume(v) ==
  /\ pending' = Without(call[v].body.nonce)
  /\ GoTo(v, "token")

\* Mutant: the nonce is consumed before the signature is known to be good.
CheckSep43AfterConsuming(v) ==
  /\ stage[v] = "sep43"
  /\ pending' = Without(call[v].body.nonce)
  /\ GoTo(v, IF Signed(v, {"sep43"}) THEN "token" ELSE "sep53")
  /\ UNCHANGED <<clock, issued, call, crashes>>

\* The SEP-43 digest is there.
CheckSep43(v) ==
  /\ stage[v] = "sep43"
  /\ \/ /\ Signed(v, {"sep43"})
        /\ Consume(v)
     \/ /\ ~Signed(v, {"sep43"})
        /\ GoTo(v, "sep53")
        /\ UNCHANGED pending
  /\ UNCHANGED <<clock, issued, call, crashes>>

\* Mutant: the raw format is forgotten.
CheckSep53Only(v) ==
  /\ stage[v] = "sep53"
  /\ \/ /\ Signed(v, {"sep53"})
        /\ Consume(v)
     \/ /\ ~Signed(v, {"sep53"})
        /\ GoTo(v, "rejected")
        /\ UNCHANGED pending
  /\ UNCHANGED <<clock, issued, call, crashes>>

\* The SEP-53 digest is there; the raw bytes need none.
CheckSep53AndRaw(v) ==
  /\ stage[v] = "sep53"
  /\ \/ /\ Signed(v, {"sep53", "raw"})
        /\ Consume(v)
     \/ /\ ~Signed(v, {"sep53", "raw"})
        /\ GoTo(v, "rejected")
        /\ UNCHANGED pending
  /\ UNCHANGED <<clock, issued, call, crashes>>

\* The session id is the hash of the nonce, the subject the wallet.
Grant(v) ==
  /\ stage[v] = "token"
  /\ GoTo(v, "granted")
  /\ UNCHANGED <<pending, clock, issued, call, crashes>>

Step(v) == CheckSep43(v) \/ CheckSep53AndRaw(v) \/ Grant(v)

\* The process restarts: challenges and calls in flight are gone.
Crash ==
  /\ crashes < MaxCrashes
  /\ crashes' = crashes + 1
  /\ pending' = [n \in {} |-> None]
  /\ stage' =
       [v \in Calls |-> IF stage[v] \in InFlight THEN "lost" ELSE stage[v]]
  /\ UNCHANGED <<clock, issued, call>>

Tick ==
  /\ clock < MaxClock
  /\ clock' = clock + 1
  /\ UNCHANGED <<pending, issued, call, stage, crashes>>

Next ==
  \/ \E w \in Wallets : Create(w)
  \/ \E v \in Calls : Step(v) \/ \E b \in Body : Begin(v, b)
  \/ Crash
  \/ Tick

Spec == Init /\ [][Next]_vars

\* Digests and token signing return, and the event loop resumes each call.
FairSpec == Spec /\ \A v \in Calls : WF_vars(Step(v))

-----------------------------------------------------------------------------
(* Properties. *)

\* The table of challenges never outgrows its limit, however creations,
\* verifications and expiry interleave (lines 29-35).
PendingBounded == Cardinality(DOMAIN pending) <= MaxPending

\* A token goes only to the wallet the challenge was drawn for, for a
\* signature of that wallet, and only if the challenge was at most TTL old
\* when it was looked up, also if it expired or was removed since (lines
\* 57-69, 91-109).
TokensAreEarned ==
  \A v \in Calls :
    stage[v] = "granted" =>
      LET drawn == issued[call[v].body.nonce] IN
      /\ drawn # None
      /\ drawn.wallet = call[v].body.wallet
      /\ Valid(v)
      /\ call[v].at - drawn.at <= TTL

\* A challenge disappears only by expiry, by a restart, or because a call
\* with a valid signature goes on to its token: bad signatures and calls of
\* other wallets never burn it (lines 71-72).
ChallengeNotBurned ==
  [][\A n \in DOMAIN pending :
       n \notin DOMAIN pending' =>
         \/ Expired(n)
         \/ crashes' # crashes
         \/ \E v \in Calls :
              /\ stage[v] \in {"sep43", "sep53"} /\ stage'[v] = "token"
              /\ call[v].body.nonce = n /\ Valid(v)]_vars

\* Once a signature was accepted its nonce is gone for good, through
\* restarts, expiry and later challenges: a second token for it can only go
\* to a call that had found the challenge before, and was waiting for its
\* digests (lines 57-60, 117).
RedeemedIsGone ==
  \A v \in Calls :
    stage[v] \in {"token", "granted"} => call[v].body.nonce \notin DOMAIN pending

\* A validly signed call that found its challenge leads to a token for that
\* nonce (its own or that of a concurrent call), unless the server restarts.
SignedChallengeIsRedeemed ==
  \A v \in Calls, n \in Nonces :
    (stage[v] = "sep43" /\ call[v].body.nonce = n /\ Valid(v)) ~>
      \/ stage[v] = "lost"
      \/ \E w \in Calls :
           stage[w] = "granted" /\ call[w].body.nonce = n

\* "consume the nonce (one-time use)" (wallet-auth.ts:116): one nonce, one
\* token.
OneTimeUse ==
  \A v, w \in Calls :
    v # w /\ stage[v] = "granted" /\ stage[w] = "granted" =>
      call[v].body.nonce # call[w].body.nonce
=============================================================================
