# A TLA+ verification of pay-platform

pay-platform is the server of Moonlight Pay: a Deno/Oak HTTP service over
PostgreSQL that lets a customer pay a merchant into a privacy channel on
Stellar. It holds merchants' encrypted keys, talks to Horizon and Soroban RPC,
and hands bundles to a provider-platform that settles them. This directory
models the parts where that can go wrong between two lines of code, checks the
models with TLC and proves their safety properties with TLAPS.

Paths below are relative to the repository (`src/...` of it is
`src/src/...` in `PROJECT.json`).

## 1. Inventory

The server is one event loop. A handler runs alone from one `await` to the
next; at each `await` other handlers, the database, the chain and the provider
move. A crash loses memory (challenges, caches, handlers in flight) and nothing
else. No handler uses a database transaction.

| component | state | operations | interacts with |
|---|---|---|---|
| instant execute (`http/v1/pay/instant-execute.ts`) | locals of each request | verify payment, choose destinations, deposit, post bundle, wait, log | accounts, routing, UTXO indexes, chain, provider authentication, provider, transaction log |
| instant prepare (`http/v1/pay/instant-prepare.ts`) | none | route, offer free destinations | accounts, routing, UTXO indexes |
| instant submit (`http/v1/pay/instant-submit.ts`) | none | route, forward the customer's bundle, log IN and OUT | accounts, routing, provider, transaction log |
| UTXO indexes (`core/service/utxo/utxo-balance.ts`) | none of its own: it reads the channel in batches | search free indexes, check a proposal, walk the balance | channel contract |
| wallet authentication (`core/service/auth/wallet-auth.ts`) | table of pending challenges, at most 1000, 5 min each | create, verify, sweep | JWT signing |
| provider authentication (`core/service/provider-auth.ts`) | cache of JWTs | get (hit, or challenge and verify) | provider |
| accounts (`http/v1/account/`) | `pay_accounts` | create, read, edit, register OpEx, store delegation key, delete, public profile | read by every payment |
| transaction log (`http/v1/transaction/list.ts`, `transaction.repository.ts`) | `transactions` | insert, list by pages | cascades with the account |
| balance (`http/v1/transaction/balance.ts`) | none | walk one channel | UTXO indexes |
| councils and routing (`http/v1/admin/councils.ts`, the council repositories) | councils, channels, jurisdictions, providers | create, edit, delete; find by jurisdiction, by pair | read by every payment |
| waitlist (`http/v1/waitlist/`) | `waitlist_requests` | look up, update or insert, notify | Discord |
| JWT and admin middleware (`http/middleware/`) | the session of each request; the server's secret | verify, admit | every gated route |
| RPC proxy (`http/v1/rpc/proxy.ts`) | none | check a call or a batch, relay | Soroban RPC |
| errors (`error/index.ts`, `http/v1/pay/pay.errors.ts`) | none | map a failure to what the client sees | every handler of payments, the middleware |
| server frame (`main.ts`, `http/v1/v1.routes.ts`, configuration) | none but the secret it may draw at start | route | everything |
| payment sessions (`core/service/payment/payment-session.ts`) | in-memory store | create, get, sweep | no handler uses it |
| channel clients (`core/channel-client/index.ts`) | FIFO cache of 100 | get | UTXO indexes |
| keys and derivation (`core/crypto/`) | none | encrypt, derive | accounts, UTXO indexes |

What is hard here, and what each component must get right:

- **Execute** moves money before it can know whether the rest will succeed: a
  deposit, then a bundle, then a row, each after an await, with nothing undone
  in the `catch`. What it logs and answers must be true of the chain; what it
  refuses must have moved nothing; the account it debits must be the one the
  verified operation is addressed to although keys may be rotated meanwhile; a
  request must end.
- **UTXO indexes** are taken by whoever creates them on-chain first, found by
  scans of several reads and offered to clients that may come back late. The
  balance is only right if what is taken stays a prefix.
- **Wallet authentication** looks a challenge up before two awaits and removes
  it after them, in a bounded table that is swept by other calls.
- **Submit** logs two rows, one after the other, for a bundle that has only been
  accepted.
- **Provider authentication** hands out tokens near their expiry to a handler
  that uses them for two minutes more.
- **Accounts** are looked up and written in separate statements, by requests of
  one wallet that may overlap, fail between the two, or lose their answer.
- **The log** is read page by page while payments add rows in front.
- **The waitlist** looks a wallet up and then inserts it, for anybody who asks.
- **The frame** must admit only tokens of the running server, serve each request
  for its own wallet, let no call of a batch past the allowlist, and keep what a
  provider or an exception said off the wire.
- **Councils** are edited in several statements while payments route by them;
  prepare and execute may route differently.

`PROJECT.json` lists each hazard at its line, with the properties that watch it.

## 2. Plan

Written, in this order of importance:

1. `InstantExecute`, with the abstract `Payment` it implements, and
   `PartitionAmount`, the function that cuts the amount;
2. `WalletAuth`;
3. `UtxoIndexes`;
4. `Councils`: administration as separate statements, the routing queries, pair
   routing in prepare against single routing in execute and submit;
5. `ProviderAuth`, and `InstantSubmit`, which extends it: IN and OUT rows and
   partial failure, against the promise of `Payment`;
6. `Accounts`, with the abstract `AccountBook` it implements;
7. `Waitlist` and `TransactionLog`, over `Connections`, and `Gateway`, which
   composes them with the middleware, the proxy and the error pipeline;
8. a proof module for each component (`InstantSubmitProofs` is also that of
   `ProviderAuth`, `GatewayProofs` that of the log and the waitlist) and for
   `PartitionAmount`.

Left, in this order:

9. composition of prepare and execute over `UtxoIndexes`, so that what is
   proved of the batched search holds of the destinations in `InstantExecute`,
   where today it is only known that there are as many as were asked for;
10. `ProviderAuth` composed with the settlement wait of execute, which uses one
    token throughout (today the poll it is refused at is one of the polls that
    may throw);
11. `InstantExecute` over the tables of `Councils`, instead of routing that may
    find anything.

## 3. Modules

### `Payment` and `InstantExecute`

`Payment` is what a payment promises without a protocol: a request is logged,
and reported completed, only once it is credited; a refused request is never
credited; an error promises nothing. Under `InstantExecute`'s refinement mapping
a row or a COMPLETED answer without a bundle id counts as a promise of nothing:
it names no bundle that could have settled. (The provider's reply may lack an
id; the handler then skips the wait, lines 341-373, and answers COMPLETED.)

`InstantExecute` is the handler. `pc[r]` is the await at which request `r` is
parked; an action is the code between two awaits that touch shared state.

| action | lines of `instant-execute.ts` |
|---|---|
| `Receive`, `ReceiveMalformed` | 52-88 |
| `FindMerchant` | 89-108 |
| `RouteToChannel`, `PickProvider` | 109-139 |
| `VerifyPayment` | 142-186 |
| `CheckDestinations`, `Redirect` | 188-207 and `utxo-balance.ts` 118-195 |
| `BuildDeposit` | 209-248 |
| `SendDeposit`, `LoseSendReply` | 249-252 |
| `PollDeposit`, `GiveUpOnDeposit` | 252-261 |
| `PostBundle`, `LosePostReply` | 263-339 |
| `PollBundle`, `GiveUpOnBundle` | 341-373 |
| `RecordPayment`, `ReplyCompleted` | 377-397 |
| `Throw` | 398-412, from any await |

State outside the handler: `account` (`pay_accounts`: the OpEx key pair and the
delegation key), `row` (`transactions`), `payment` (customers' payments),
`accountSeq` (sequence numbers), `created` (UTXO records per channel and root),
`deposit` and `bundle` (what the chain and the provider make of what they were
given). `CreateAccount`, `RegisterOpex`, `StoreDelegationKey` and
`DeleteAccount` are the account endpoints; `CustomerPays`, `LandDeposit`,
`SettleBundle`, `DropBundle` and `Crash` are the environment.

Abstractions, and why they are sound:

- *Deadlines* are counters of polls. After the deposit's deadline the handler
  goes on to post the bundle, as after a confirmation. `Date.now()` only bounds
  the loops, and the environment is free to land or settle anything before,
  during or after.
- *Routing* may find any channel, any provider, or none: the council tables
  change at any time, and no property here depends on their contents.
- *`Redirect`* replaces destinations by any others, of the same number. The
  search reads in batches and fills up behind the last one without reading:
  what it finds is free if clients propose what prepare offered
  (`SearchesFindFree`), and may be taken, or leave a gap, if they do not.
  `InstantExecute` assumes neither; the channel refuses a bundle that would
  create a UTXO again.
- *The OpEx pair*: `opex.ts` stores a public key and a secret in one UPDATE and
  does not compare them. The model takes them for a pair, so
  `DebitMatchesOperation` assumes that a merchant registers a matching pair.
- *`merchantUtxoIndexes`* is a set of natural numbers. The handler does not
  reject duplicates or fractions.
- *The channel* is assumed to create no UTXO twice and to take a bundle as a
  whole; that it rejects a bundle without a matching transfer is not assumed.
- *A payment* is one operation, with the account it is addressed to, its asset,
  its number and whether its transaction succeeded. `Horizon` returns the first
  payment to the OpEx account; several in one transaction count as the first.

What `DebitMatchesOperation` does not say. `VerifyPayment` compares the addressee
and the number of the operation (lines 153-184) and nothing else: not its asset,
and not whether its transaction succeeded. The debit is in the asset of the
channel, which the request names (lines 57, 82, 115-118, 225-239). So an
operation that paid another asset, or failed, lets the handler debit the OpEx
account; `execute_rotation` has such payments and reaches such debits. The
property therefore relates the debit to what the handler compared, and claims
nowhere that the debit was paid for; neither does any other property here.

### `PartitionAmount`

`partitionAmount`, one step per iteration, every value the random number can
give, also for the negative range that an amount below the number of
destinations leads to. `Number(maxForThis - 1n)` is a double: up to 2^53
(`Exact`) any integer, above that the multiples of 2, of 4, and so on
(`Spacings`), of which it is a closest one, possibly above the exact value.
Multiplied by a random number below 1 it gives at most the double before it.

### `WalletAuth`

`pending` is the table; `call` and `stage` are the verify calls in flight.
`Create` is synchronous, with its sweep. A verify call is `Begin` (up to the
first digest), `CheckSep43`, `CheckSep53AndRaw` and `Grant`. A signature is its
signer and its encoding; a nonce that never repeats stands for 32 random bytes.
`issued` is a history variable.

### `UtxoIndexes`

One merchant on one channel. Calls of the four endpoints read `Batch` indexes at
a time; `next`, `run`, `out` and `counted` are the loop variables `i`,
`freeRun`, `out` and `total` of the two loops. `offers` is what prepare has
answered, which clients may propose at any later time, or instead a proposal of
their own (`Custom`). `Settle` is the channel's: a bundle is taken as a whole if
none of its UTXOs exists. `atStart` is a history variable: what was created when
a call began to scan. The module does not model change that a wallet creates for
itself when it spends. It also says nothing of offers that leave their channel: prepare may route by the pair of
jurisdictions and execute by the merchant's alone, so an honest offer may be
executed on another channel of the merchant, where it may leave a gap.

### `Councils`

The four tables (`council`, `serves`, `channel`, `pp`), admin requests that take
several statements, and calls that are being routed. `at[o]` is the statement an
admin request is at, `leg[q]` the query a call is at.

| action | code |
|---|---|
| `Receive`, `CreateCouncil`, `InsertNextChannel`, `InsertCodes`, `InsertNextPp` | `handleCreateCouncil` |
| `Receive`, `UpdateCouncil`, `RemoveCodes`, `InsertCodes` | `handleUpdateCouncil` |
| `Receive`, `FindCouncil`, `InsertRow` | `handleCreateCouncilChannel`, `handleCreateCouncilPp` |
| `DeleteCouncil`, `DeleteChannel`, `DeletePp`, `UpdatePp` | `handleDeleteCouncil`, `...Channel`, `...Pp`, `handleUpdateCouncilPp`: one statement each |
| `Ask`, `FindCouncils`, `TryCouncil`, `PickProvider` | the first queries of prepare, execute, submit and balance |
| `Fail`, `Throw`, `Crash` | a statement fails, a query fails, the process dies |

Names, URLs and labels of councils and providers are left out, and so are list
entries that lack a field, which the code skips. A query without `ORDER BY` may
return its rows in any order. `covered` and `served` are history variables:
`covered[q]` collects the councils that served the receiver's jurisdiction, or
both, in some state of call `q`; `served[q]` says that in every state so far some
council served it and all that did had what it takes. `Watch`, which keeps them,
is the last conjunct of every action.

A call of execute or submit is routed for the receiver's jurisdiction alone
(`instant-execute.ts:109`, `instant-submit.ts:81`), and so is a prepare that does
not say where the payer is: the council chosen need not serve the payer, as the
comment of `council-jurisdiction.entity.ts:7-9` has it. `ServedAtOnce` therefore
asks for both jurisdictions only of a prepare that names both.

### `ProviderAuth` and `InstantSubmit`

`ProviderAuth` is `getProviderJwt`. A call hits the cache (`GetJwt`) or
authenticates: `ReceiveChallenge`, `ReceiveJwt` or `FailToAuthenticate`. Calls
do not wait for each other. The expiry of a token counts from its arrival, and
may be unreadable to the server. `takenAt` is a history variable: when a token
was taken from the cache.

`InstantSubmit` extends it with the handler of `instant-submit.ts`.

| action | lines of `instant-submit.ts` |
|---|---|
| `Receive`, `ReceiveMalformed`, `FindMerchant` | the checks up to line 80 |
| `RouteToChannel`, `PickProvider` | the routing queries, with any outcome |
| `Authenticate` | `getProviderJwt`: a step of `ProviderAuth` |
| `PostBundle` | the reply to the posted bundle |
| `LogIn`, `FindCustomer`, `LogOut`, `ReplyCompleted` | 148-200 |
| `Throw` | the catch block, from any await |

`AcceptBundle` and `SettleBundle` are the provider's, which may accept a bundle
the handler has stopped waiting for; the operations of a customer settle once.
`CreateAccount`, `DeleteAccount`, `TimePasses` and `Crash` are the rest of the
world. What the councils answer is `Councils`' subject, so here routing finds
something or nothing. `wiped` is a history variable: the rows that went when
their account was deleted.

`AcceptancePromised` is `Payment` with "accepted by the provider" for "credited".
With "settled" for it the handler does not implement `Payment`: it logs and
answers COMPLETED for a bundle that is only accepted, and which `SettleBundle`
may never settle, although `instant-execute.ts:332-333` says of the same
endpoint that "returning here without waiting means the caller sees 'payment
completed' but on-chain state is empty".

### `AccountBook` and `Accounts`

`AccountBook` is what the endpoints promise without statements and awaits: a
request is decided at one moment, by the account as it is then, and is told what
was decided. A request that looked first and finds, when it writes, that the
account has come or gone is *torn*, and `Torn` says what becomes of it; a
request that fails may have been decided or not.

`Accounts` is the handlers, one statement a step; the answer is another step, so
that the process may die in between.

| action | code in `http/v1/account/` |
|---|---|
| `Receive`, `ParseBody` | the session, and the body with the checks of `helpers.ts`; PATCH looks up first, the others read the body first |
| `Find` | `findByPublicKey` and what each handler makes of the row: `FindMissing`, `FindPresent` |
| `UpdateLastSeen` | `post.ts:60`, `me.ts:36` |
| `Create` | `post.ts:69-89`; the primary key refuses a second row |
| `Update` | `me.ts:118-132`, `opex.ts:55-69`, `delegation-key.ts:76-90` |
| `Delete` | `delete.ts:27-35` |
| `Reply`, `Throw`, `Crash` | the answer, the catch blocks, the death of the process |

A column's value is the request that wrote it, which is all that tells a lost
edit from a kept one. A body is the set of columns it names and that pass the
checks; trimming, upper case and time stamps but `lastSeenAt` are left out. A
request stands for one wallet, the session's; the public profile is anybody's.

Two of the torn requests are worth knowing. Of two POSTs of one new wallet, one
may fail with a 500, where the comment of `post.ts:17-19` promises an idempotent
call "instead of erroring". And `opex.ts:57` does not look at what it updated: it
reports a registration although the account was deleted meanwhile.

### `Connections`, `Waitlist`, `TransactionLog` and `Gateway`

`Connections` is the clients' connections, with one request each, and the
wallets. `Waitlist` and `TransactionLog` extend it with two handlers and their
tables, `Gateway` extends both with everything a request passes on its way.

| module | action | code |
|---|---|---|
| `Waitlist` | `Apply`, `FindApplicant`, `UpdateEmail`, `InsertApplication`, `NotifyDiscord`, `FailToApply` | `waitlist/routes.ts:26-51`, `upsert` of the repository, `notifyDiscord` |
| `TransactionLog` | `List` | `transaction/list.ts:28-65` with `findByWallet` |
| | `Record`, `Wipe` | rows that payments add; the cascade of a deleted account |
| | `StartListing` | a client that begins to list its log |
| `Gateway` | `Arrive`, `Verify` | the routes; `jwtMiddleware` and `adminMiddleware` |
| | `ServeList`, `ServeAdmin`, `ServeWaitlist`, `FailToServe` | the handlers behind the routes |
| | `ServeRpc`, `Relay` | `rpc/proxy.ts` before and after the call upstream |
| | `Pay` | the errors of a payment through the error pipeline |
| | `Close`, `Tick`, `Restart`, `LogMoves` | clients, the clock, a restart, and the log between requests |

- A *token* is its wallet, its expiry and the secret it was signed with. With an
  empty `SERVICE_AUTH_SECRET` each start draws a secret, so the number of the
  start stands for it (with an unset one `requireEnv` throws and no server
  starts). Any token that can have been granted may arrive; whom one is
  granted to is the subject of `WalletAuth`.
- A *text* on the wire is its origin: ours, a field of a provider's structured
  error, an upstream body, or the message of an exception. The proxy relays
  upstream bodies on purpose; the promise of `pay.errors.ts:67-71` is about
  errors.
- A *client that lists* starts a listing, asks for the next page at the offset of
  what it has, and has come to the end when a page is empty. `atStart` is what
  was in the log when it began. Rows have different time stamps: the order of
  rows with the same one is not defined by the query, and pages may then
  overlap or skip.
- A row's *time stamp* is taken when its insert starts, so of two inserts that
  overlap the later may be in the log first. That is what `Record` allows.
- A *wallet* in an application is a string or missing. A body whose wallet is
  something else is stored without it but told to Discord as sent; that and an
  invalid address (400) are not modelled.
- `welcomed` and `upstream` are history variables.

## 4. Runs

| run | what it asks | result |
|---|---|---|
| `execute_concurrent` | two requests of one merchant, one key, the same or different destinations: rows stand for settled bundles, transfers match bundles, an ended request is over; refinement of `Payment` | holds |
| `execute_rotation` | one request, two keys, two roots, two channels, two amounts, two assets, payments of any outcome, all changing at any await: the debit matches the operation that was verified, a refusal left nothing behind, every step of a handler leaves it fewer to take; both polling loops end | holds |
| `execute_retry` | `OneRowPerPayment` | violated |
| `wallet_verify` | the table's limit, what a token stands for, what removes a challenge, and that a redeemed one stays gone; a well-signed call leads to a token for its nonce | holds |
| `wallet_once` | `OneTimeUse` | violated |
| `utxo_prefix` | created indexes are a prefix, the walk is complete, the search finds the right number, all free when it began | holds |
| `utxo_gap` | `BalanceComplete` if clients choose their own indexes | violated |
| `partition` | parts conserve the amount and are positive where they can be, also where doubles round | holds |
| `councils_route` | no row outlives its council; a route's council served all that was asked at one moment, its channel and provider are its own; a call that could be served all along is not refused | holds |
| `submit_log` | tokens are of their provider and outlive the buffer; both sides of the log; refinement of `Payment` read for acceptance | holds |
| `accounts_book` | three requests on one account, statement by statement: each is decided at one moment; refinement of `AccountBook` | holds |
| `gateway` | the gate lets through only good tokens and allowed calls; two clients of different wallets that list at once each get their own rows and miss none; errors are clean; a wallet is new once | holds |

What the violations say, with the comment each one quotes, is under "findings"
in `PROJECT.json`:

- one customer payment can be executed and logged twice, because nothing records
  `customerPaymentHash`;
- two concurrent verify calls with one signature both get a token (that they are
  concurrent is necessary: `RedeemedIsGone`);
- a bundle on free indexes behind a run of three free ones is never summed. In
  TLC's trace a customer submits one of its own to indexes 3 and 4: submit
  forwards it without looking at its destinations. Execute's check would not
  stop it either, as it keeps any free indexes, but is not part of the trace.

### Bounds

- *Execute*: two requests suffice for every interference there is: they share
  the account row, the sequence number, the destinations and the payment
  pairwise. One poll per loop (two in `rotation`) gives both "answer
  seen in time" and "deadline". Three indexes leave a free one for each redirect.
  In `rotation` there are two channels, one of each asset, and payments of both
  assets, both amounts and both outcomes; the other two runs have one asset and
  payments that succeed. The fee is 1; amounts 1 and 2 tell "paid enough" from
  "too little".
- *Wallet*: two nonces overflow a table of one; two calls race for one nonce;
  `TTL = 1` with `MaxClock = 2` lets a challenge be fresh, at its limit and
  expired; one restart.
- *UTXO*: four calls (two to find, one in between, one balance), offers of three
  read in batches of two, so that a search needs two reads, fills up, and is
  overtaken; free run of two. The proofs cover all sizes. `utxo_gap` uses the
  program's own sizes (5, 50, 3).
- *Councils*: routes do not interfere with each other, so one call suffices. Two
  admin requests out of five bodies (create, replace the jurisdictions,
  deactivate, add a channel, add a provider) interleave with each other, with the
  endpoints of one statement and with a crash; a second council can be made and
  a second channel added, so that a call finds the old state, the new one, or a
  council without a provider. Ids of councils are given out once. The proofs
  cover any number of each.
- *Submit*: two calls race for one cache entry, or for two of one platform; with
  tokens that live one or two ticks and a buffer of one, a token may be too short
  for the cache, or be handed out twice. `MaxClock = 1` is enough for a token to
  expire; both calls send the same operations.
- *Accounts*: three requests of one wallet, each of any kind: one that looked,
  one that comes in between, one that undoes it. Requests of different wallets
  do not touch. The account is absent, fresh or set up at the start; one body of
  each kind, since columns do not mix. The proof covers any number.
- *Gateway*: two connections, which both list where the log is open, with tokens
  of either wallet: one session is admitted while another's handler has yet to
  query. Handlers share nothing but the gate, so each environment uses only some
  routes (`config.routes`): production with an admin list, development with an
  empty secret, and a server without admins. The connections are alike, so the
  run takes them for symmetric. `MaxRows = 2` with pages of one row and of two:
  rows come before, between and after pages, also with an older time stamp.
  `MaxClock = 1` lets a token expire between verification and use;
  `MaxBoots = 1` is one restart, in every environment but the one where clients
  list (`config.boots`). The proofs cover any of these numbers.
- *Partition*: totals -3..8 over 0..5 parts; prepare offers 5. Doubles of one bit
  (`Exact = 2`, distances 1, 2 and 4 reach 8) round most factors.

### Deadlock and fairness

`CHECK_DEADLOCK FALSE` is set where all calls may be over and nothing is left to
do (`MCWalletAuth`, `MCUtxoIndexes`, `MCPartitionAmount`, `MCCouncils`,
`MCInstantSubmit`, `MCAccounts`, `MCGateway`). In the execute runs accounts can
always change, so there is no such state.

Fairness is weak fairness of each request's (call's) own steps: the event loop
resumes a handler whose await has been answered, and every fetch, query and timer
answers or throws. Nothing is assumed of the chain, the provider, the clients or
the clock: `EveryRequestEnds` holds if a deposit never lands and a bundle never
settles, because the loops look at the clock. The other handlers have no loop a
request could be caught in, and no liveness is stated of them.

## 5. Proofs

All for any number of requests, calls, keys, channels and indexes, under the
assumptions the modules name.

- **`InstantExecuteProofs`**. None of the properties is inductive. The invariant
  says of each request what its stage has made true: `Checked` (what has been
  read and verified is still what the locals say), `Stages` (which of deposit,
  bundle, row and answer exist at which stage), and what each of the four says of
  the others (`DepositGiven`, `BundleGiven`, `RowGiven`, `AnswerGiven`). It is a
  conjunction over requests, and most actions touch one request: `Frame` proves
  once that a step which leaves a request alone, and lets the chain only grow,
  keeps that request's part. Customer payments are never undone, and created
  UTXOs stay: that is why what was verified stays true. From the invariant follow
  `TypeCorrect`, `RecordedRowsAreSettled`, `CompletedAnswersAreSettled`,
  `DebitsMatchOperations`, `TransfersMatchBundles`, `RefusalsMoveNothing`, the action
  property `EndedRequestsAreOver` and the refinement `ImplementsPayment`: initial
  states map to initial states and every step maps to a step of `Payment` or to
  a stutter. `StepsAreBounded` is the part of `EveryRequestEnds` that needs no
  fairness: `StepsLeft`, the awaits ahead weighted so that one of them outweighs
  all polls of a loop (`Outweighs`), goes down with every step of the handler and
  with nobody else's. What is left to fairness is that a step is taken at all.
- **`WalletAuthProofs`**. `Admitted` (a call in flight has looked up a challenge
  of its wallet, in time, that had been issued) and `Verified` (a call past its
  checks has a valid signature) give `TokensEarned` and `ChallengesAreNotBurned`;
  types are `TypeCorrect`. A call that has its signature accepted knows that its
  nonce was drawn, so no later challenge can bring it back (`RedeemedAreGone`).
  `TableBounded` counts with the library's facts on finite sets.
- **`UtxoIndexesProofs`**. `TypeCorrect` and `NoneAreMissing` hold whatever
  clients propose. `NoneAreMissing` counts: a search that goes on has fewer than
  it needs, taking the lowest of what it read makes it exactly as many
  (`LowestCount`), and filling up adds what is missing behind the last index
  (`Counts`, preserved by `SearchCounts` and `ProposeCounts`).
  The others are for `Custom = {}`, clients that propose what they were offered;
  `utxo_gap` shows what happens to `BalanceComplete` otherwise. `Fits(s)`: what
  is created together with `s` is a prefix, or `s` is stale because part of it
  exists already. Every offer, every posted bundle and the part of a search that
  is done fit (`Covered` says that a search has everything free below the index
  it has come to). When a bundle settles, any other either still fits on the
  longer prefix or has become stale, and a stale one is never taken. `Behind`
  says that a walk has counted all that was funded below its index. Hence
  `PrefixContiguous` and, as a free index then has nothing behind it
  (`NothingBehind`), `WalksAreComplete` and `SearchesFindFree`: an index that is
  filled up without being read was free when the search began (`Unread`).
- **`CouncilsProofs`**. The tables may change between any two queries of a route,
  so nothing a query saw need still be true. What stays true is history:
  `Routed` says that the councils a call still has in hand, and the one it has
  chosen, served all it asks for in some state of the call, and that its channel
  and provider belonged to it; `Watched` says that the history of a running call
  is up to date with the tables. `WatchKeeps` and `RouteKeeps` show once that a
  step of somebody else cannot disturb either. A call that ends refused found the
  tables in a state in which it could not be served, so `served` was false by
  then (`ServableCallsAreServed`). `Prepared` ties an admin request's body to the
  statement it is at; with the foreign keys it gives `NothingOrphaned`.
- **`InstantSubmitProofs`**. `AuthInv` is about `ProviderAuth` alone: a cached
  token is good for its key and lives as long as the entry says, if the server
  could read its expiry (`CacheSound`), and a call knows as much of the token it
  holds (`Knows`). `StepsOfAuth` shows that whatever the handlers do is a step of
  `ProviderAuth` or none, so `UsesProviderAuth` carries the theorems over to
  `InstantSubmit`. Of a request `Stages` says what it has done by the time it is
  at each await, and `Sides` how the IN row precedes the OUT row. Hence
  `LogIsTwoSided`, and `ImplementsPayment` as for execute.
- **`AccountsProofs`**. The refinement mapping has a request decided at the
  statement that writes, or at the look-up if that is the last statement that
  matters; `lastSeenAt` is not in the book. For the mapping to be a step of the
  book the invariant `Knows` must say what a request at each statement has
  found, of what body, and that nothing is decided of it yet. `ImplementsBook`
  then takes each action to one of the book's, or to a stutter; its cases for
  `Find`, `Create` and `Update` are where requests are torn.
- **`GatewayProofs`**. The invariant has a part for each of the composed
  modules, and each step of `Gateway` is a step of a module or leaves it alone
  (`WaitSteps`, `LogSteps`), so what is proved of one carries over. For the
  pages the argument is about ranks: the rank of a row among its wallet's is the
  number of newer rows; ranks are `0 .. n-1` without a gap, payments only make
  them grow, and a client has every row of its start that is still there and
  whose rank is below its offset. An empty page then leaves none above it
  (`PagesSkipNothing`). `GateIsKept` needs that a session is of the running
  server: a restart ends all requests. `WalletsAreListedOnce` ties `welcomed` to
  the table.
- **`PartitionAmountProofs`**. Until the last part, what remains covers one
  stroop for each part to come (`Enough`); hence `PartsArePositive`. That a
  portion leaves that much also where doubles round up is `PortionBounds`: the
  double before the rounded factor is at least as far below it as doubles are
  apart at the factor, and the factor at most half as far.
  `AmountIsConserved` is about a sum, defined by recursion over a sequence whose
  length is not bounded. It needs no induction over the sequence: that exactly
  one function satisfies the recursion, and that its last value is what has been
  cut off (`SumsTo`), is an invariant, extended by each cut (`AppendSum`).

Only model-checked: the liveness properties `EveryRequestEnds` and
`SignedChallengeIsRedeemed` (under fairness, which the prover does not handle),
and the violations.
Only proved, and checked by no run of its own: the types of `PartitionAmount`,
and `CompletedAnswerSettled`, which `PromiseKept` implies.

## 6. Not modelled

- *Keys and derivation*: cryptography of the platform's libraries.
- *Payment sessions*: no handler uses them.
- *Channel clients*: a cache of clients without a state of their own, whose
  contents change nothing that is modelled; the code promises nothing of a
  client whose council or asset was edited.
- *Reads of administrators* (the lists and the discovery of councils) change
  nothing.
- *The server frame* but for its routes, its secret and its error pipeline:
  start-up, CORS, headers, tracing, logging and configuration.
- *Repository methods without a caller*: `findById`, `getBalance` and
  `updateStatus` of the transaction log, and the generic ones of
  `base.repository.ts` but `create`.

Database failures other than the keys' are `Throw` or its like. Payments are
exact integers in `InstantExecute`: `parseFloat` of Horizon's amounts loses
precision above 2^53 stroops, about 900 million XLM.
