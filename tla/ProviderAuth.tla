---------------------------- MODULE ProviderAuth ----------------------------
(***************************************************************************)
(* getProviderJwt (src/src/core/service/provider-auth.ts): the tokens the  *)
(* server holds for provider-platforms.                                    *)
(*                                                                         *)
(* A call takes a token from the cache if it believes it good for a while, *)
(* or else authenticates: a challenge, then a token, each after an await.  *)
(* Calls do not wait for each other, so concurrent misses all authenticate *)
(* and the last to be answered is cached.                                  *)
(***************************************************************************)
EXTENDS Naturals

CONSTANTS
  Calls,      \* calls of getProviderJwt
  Urls, Pks,  \* provider-platforms, and the providers they serve
  Lifetimes,  \* how long tokens live once they arrive
  Buffer,     \* EXPIRY_BUFFER_MS
  DefaultTtl, \* DEFAULT_TTL_MS
  MaxClock,   \* bound on the clock, for model checking
  None

ASSUME TimesAssumption ==
  Lifetimes \subseteq Nat /\ Buffer \in Nat /\ DefaultTtl \in Nat
                          /\ MaxClock \in Nat

Keys == [url : Urls, pk : Pks]

\* A token is good for one provider until it expires; its expiry may be
\* unreadable to the server.
Token == [pk : Pks, expires : Nat, readable : BOOLEAN]
Entry == [jwt : Token, expiresAt : Nat]

ASSUME NoTokenAssumption ==
  None \notin Keys /\ None \notin Token /\ None \notin Entry /\ None \notin Nat

VARIABLES
  now,       \* Date.now()
  cache,     \* cached entries
  stage,     \* where each call is
  key,       \* the provider each call is for
  jwt,       \* the token each call returned
  takenAt    \* history: when it was taken from the cache, None if it was not

authVars == <<now, cache, stage, key, jwt, takenAt>>

AuthTypeOK ==
  /\ now \in 0..MaxClock
  /\ cache \in [Keys -> Entry \cup {None}]
  /\ stage \in
       [Calls -> {"idle", "challenge", "verify", "held", "failed", "lost"}]
  /\ key \in [Calls -> Keys \cup {None}]
  /\ jwt \in [Calls -> Token \cup {None}]
  /\ takenAt \in [Calls -> Nat \cup {None}]

AuthInit ==
  /\ now = 0
  /\ cache = [k \in Keys |-> None]
  /\ stage = [c \in Calls |-> "idle"]
  /\ key = [c \in Calls |-> None]
  /\ jwt = [c \in Calls |-> None]
  /\ takenAt = [c \in Calls |-> None]

\* Mutant: tokens are cached per provider-platform.
CacheKeyOfUrl(k) == CHOOSE l \in Keys : l.url = k.url

\* The token is cached for the platform and the provider.
CacheKey(k) == k

\* Mutant: a token is taken until the moment it expires.
StillGoodWithoutBuffer(e) == e # None /\ e.expiresAt > now

StillGood(e) == e # None /\ e.expiresAt > now + Buffer

\* Mutant: the cached entry is returned instead of its token.
GetJwtEntry(c, k) ==
  LET cached == cache[CacheKey(k)] IN
  /\ stage[c] = "idle"
  /\ key' = [key EXCEPT ![c] = k]
  /\ \/ /\ StillGood(cached)
        /\ stage' = [stage EXCEPT ![c] = "held"]
        /\ jwt' = [jwt EXCEPT ![c] = cached]
        /\ takenAt' = [takenAt EXCEPT ![c] = now]
     \/ /\ ~StillGood(cached)
        /\ stage' = [stage EXCEPT ![c] = "challenge"]
        /\ UNCHANGED <<jwt, takenAt>>
  /\ UNCHANGED <<now, cache>>

GetJwt(c, k) ==
  LET cached == cache[CacheKey(k)] IN
  /\ stage[c] = "idle"
  /\ key' = [key EXCEPT ![c] = k]
  /\ \/ /\ StillGood(cached)
        /\ stage' = [stage EXCEPT ![c] = "held"]
        /\ jwt' = [jwt EXCEPT ![c] = cached.jwt]
        /\ takenAt' = [takenAt EXCEPT ![c] = now]
     \/ /\ ~StillGood(cached)
        /\ stage' = [stage EXCEPT ![c] = "challenge"]
        /\ UNCHANGED <<jwt, takenAt>>
  /\ UNCHANGED <<now, cache>>

\* The challenge is signed and sent back in the same turn.
ReceiveChallenge(c) ==
  /\ stage[c] = "challenge"
  /\ stage' = [stage EXCEPT ![c] = "verify"]
  /\ UNCHANGED <<now, cache, key, jwt, takenAt>>

\* The expiry read from the token, or half an hour if it cannot be read.
ParseJwtExpiry(t) == IF t.readable THEN t.expires ELSE now + DefaultTtl

\* The provider mints a token for the public key that was sent with the
\* signed challenge; it replaces whatever is cached.
ReceiveJwt(c) ==
  /\ stage[c] = "verify"
  /\ \E life \in Lifetimes, readable \in BOOLEAN :
       LET t == [pk |-> key[c].pk, expires |-> now + life,
                 readable |-> readable] IN
       /\ cache' = [cache EXCEPT ![CacheKey(key[c])] =
                      [jwt |-> t, expiresAt |-> ParseJwtExpiry(t)]]
       /\ jwt' = [jwt EXCEPT ![c] = t]
  /\ stage' = [stage EXCEPT ![c] = "held"]
  /\ UNCHANGED <<now, key, takenAt>>

FailToAuthenticate(c) ==
  /\ stage[c] \in {"challenge", "verify"}
  /\ stage' = [stage EXCEPT ![c] = "failed"]
  /\ UNCHANGED <<now, cache, key, jwt, takenAt>>

\* The cache is memory.
Restart ==
  /\ cache' = [k \in Keys |-> None]
  /\ stage' = [c \in Calls |->
       IF stage[c] \in {"challenge", "verify"} THEN "lost" ELSE stage[c]]
  /\ UNCHANGED <<now, key, jwt, takenAt>>

Tick ==
  /\ now < MaxClock
  /\ now' = now + 1
  /\ UNCHANGED <<cache, stage, key, jwt, takenAt>>

AuthNext ==
  \/ \E c \in Calls :
       \/ \E k \in Keys : GetJwt(c, k)
       \/ ReceiveChallenge(c) \/ ReceiveJwt(c) \/ FailToAuthenticate(c)
  \/ Restart \/ Tick

AuthSpec == AuthInit /\ [][AuthNext]_authVars

-----------------------------------------------------------------------------
(* Properties. *)

\* A token minted for one provider is never used for another that the same
\* platform serves, whoever filled the cache (provider-auth.ts:54-58).
TokenOfItsProvider ==
  \A c \in Calls : stage[c] = "held" => jwt[c].pk = key[c].pk

\* A token taken from the cache outlives the buffer, whatever was cached and
\* however late the calls that cached it were answered, provided its expiry
\* could be read (provider-auth.ts:24-25, 74-78).
TokenOutlivesBuffer ==
  \A c \in Calls :
    takenAt[c] # None /\ jwt[c].readable /\ now <= takenAt[c] + Buffer =>
      now < jwt[c].expires
=============================================================================
