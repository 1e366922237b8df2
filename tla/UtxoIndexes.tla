---------------------------- MODULE UtxoIndexes -----------------------------
(***************************************************************************)
(* The derivation indexes of one merchant on one channel                   *)
(* (src/src/core/service/utxo/utxo-balance.ts and its callers).            *)
(*                                                                         *)
(* No table says which indexes are taken: every call finds out by reading  *)
(* the channel in batches, one await per batch, while bundles settle.      *)
(* POST /pay/instant/prepare offers the lowest free indexes, execute       *)
(* checks an offer again and replaces it if it is stale, submit posts what *)
(* the customer built on an offer, and the balance walks up to the first   *)
(* run of free indexes.                                                    *)
(***************************************************************************)
EXTENDS Integers, FiniteSets

CONSTANTS
  Calls,         \* calls of the four endpoints
  Destinations,  \* MERCHANT_UTXO_DESTINATIONS
  Batch,         \* batchSize
  Run,           \* FREE_RUN_TERMINATOR
  Custom         \* destinations clients propose besides what was offered

ASSUME SizesAssumption ==
  Destinations \in Nat \ {0} /\ Batch \in Nat \ {0} /\ Run \in Nat \ {0}
ASSUME CustomAssumption ==
  \A o \in Custom : o \subseteq Nat /\ o # {} /\ IsFiniteSet(o)

VARIABLES
  created,  \* indexes with a record on the channel: funded or spent
  funded,   \* those with a positive balance
  offers,   \* destinations prepare has handed out
  stage,    \* where each call is
  next,     \* i: the first index of the next batch
  run,      \* freeRun
  need,     \* how many indexes the call looks for
  out,      \* indexes found, proposed or posted
  counted,  \* what a balance walk has summed
  atStart   \* history: what was created when the scan began

chain == <<created, funded>>
walk == <<counted, atStart>>
vars == <<chain, offers, stage, next, run, need, out, walk>>

Searching == {"prepare", "redirect"}
InFlight == Searching \cup {"validate", "posted", "balance"}

TypeOK ==
  /\ created \subseteq Nat /\ funded \subseteq created
  /\ offers \subseteq SUBSET Nat
  /\ stage \in [Calls -> InFlight \cup {"idle", "done", "summed"}]
  /\ next \in [Calls -> Nat] /\ run \in [Calls -> Nat]
  /\ need \in [Calls -> Nat]
  /\ out \in [Calls -> SUBSET Nat]
  /\ counted \in [Calls -> SUBSET created]
  /\ atStart \in [Calls -> SUBSET created]

Init ==
  /\ created = {} /\ funded = {} /\ offers = {}
  /\ stage = [c \in Calls |-> "idle"]
  /\ next = [c \in Calls |-> 0] /\ run = [c \in Calls |-> 0]
  /\ need = [c \in Calls |-> 0]
  /\ out = [c \in Calls |-> {}]
  /\ counted = [c \in Calls |-> {}] /\ atStart = [c \in Calls |-> {}]

GoTo(c, s) == stage' = [stage EXCEPT ![c] = s]

-----------------------------------------------------------------------------
(* Searching free indexes. *)

\* A scan begins at index 0.
Rewind(c) ==
  /\ next' = [next EXCEPT ![c] = 0]
  /\ run' = [run EXCEPT ![c] = 0]
  /\ atStart' = [atStart EXCEPT ![c] = created]

LastOf(c) == next[c] + Batch - 1
Scanned(c) == next[c]..LastOf(c)
\* Mutant: a spent index counts as a free one.
FreeOrSpentIn(c) == Scanned(c) \ funded

FreeIn(c) == Scanned(c) \ created

\* The free run at the end of the batch, continued from the batch before.
RunAfter(c) ==
  LET trailing == Cardinality({k \in Scanned(c) :
                                 (k..LastOf(c)) \cap created = {}})
  IN IF trailing = Batch THEN run[c] + Batch ELSE trailing

\* An offer is what prepare answers, a redirected payment is posted.
Found(c, s) ==
  /\ out' = [out EXCEPT ![c] = s]
  /\ \/ /\ stage[c] = "prepare"
        /\ GoTo(c, "done")
        /\ offers' = offers \cup {s}
     \/ /\ stage[c] = "redirect"
        /\ GoTo(c, "posted")
        /\ UNCHANGED offers

\* The lowest free indexes of the batch, as many as are still needed.
Lowest(c) ==
  {k \in FreeIn(c) :
     Cardinality(out[c] \cup {j \in FreeIn(c) : j <= k}) <= need[c]}

FindEnough(c) ==
  /\ stage[c] \in Searching
  /\ Cardinality(out[c] \cup FreeIn(c)) >= need[c]
  /\ Found(c, out[c] \cup Lowest(c))
  /\ UNCHANGED <<chain, next, run, need, walk>>

\* Mutant: the index is incremented before it is pushed.
FillBeyond(c) ==
  LET some == out[c] \cup FreeIn(c)
      missing == need[c] - Cardinality(some)
  IN
  /\ stage[c] \in Searching
  /\ Cardinality(some) < need[c]
  /\ RunAfter(c) >= Run
  /\ Found(c, some \cup (LastOf(c) + 2)..(LastOf(c) + missing + 1))
  /\ UNCHANGED <<chain, next, run, need, walk>>

\* Too few, but the batch ends in a long free run: the rest is not read.
FillUp(c) ==
  LET some == out[c] \cup FreeIn(c)
      missing == need[c] - Cardinality(some)
  IN
  /\ stage[c] \in Searching
  /\ Cardinality(some) < need[c]
  /\ RunAfter(c) >= Run
  /\ Found(c, some \cup (LastOf(c) + 1)..(LastOf(c) + missing))
  /\ UNCHANGED <<chain, next, run, need, walk>>

\* Too few: all of them are kept and the next batch is read.
ReadOn(c) ==
  LET some == out[c] \cup FreeIn(c) IN
  /\ stage[c] \in Searching
  /\ Cardinality(some) < need[c]
  /\ RunAfter(c) < Run
  /\ out' = [out EXCEPT ![c] = some]
  /\ run' = [run EXCEPT ![c] = RunAfter(c)]
  /\ next' = [next EXCEPT ![c] = @ + Batch]
  /\ UNCHANGED <<chain, offers, stage, need, walk>>

-----------------------------------------------------------------------------
(* The endpoints that pay. *)

Prepare(c) ==
  /\ stage[c] = "idle"
  /\ GoTo(c, "prepare")
  /\ Rewind(c)
  /\ need' = [need EXCEPT ![c] = Destinations]
  /\ out' = [out EXCEPT ![c] = {}]
  /\ UNCHANGED <<chain, offers, counted>>

\* Clients propose an offer, however old and whoever got it.
Proposals == offers \cup Custom

Execute(c, o) ==
  /\ stage[c] = "idle"
  /\ GoTo(c, "validate")
  /\ out' = [out EXCEPT ![c] = o]
  /\ need' = [need EXCEPT ![c] = Cardinality(o)]
  /\ UNCHANGED <<chain, offers, next, run, walk>>

\* Mutant: the proposal is kept for the part that is free.
KeepTheFree(c) ==
  /\ stage[c] = "validate"
  /\ GoTo(c, "posted")
  /\ out' = [out EXCEPT ![c] = out[c] \ created]
  /\ UNCHANGED <<chain, offers, next, run, need, walk>>

\* The proposal is kept if all of it is free, else replaced as a whole.
Validate(c) ==
  /\ stage[c] = "validate"
  /\ \/ /\ out[c] \cap created = {}
        /\ GoTo(c, "posted")
        /\ UNCHANGED <<next, run, out, atStart>>
     \/ /\ out[c] \cap created # {}
        /\ GoTo(c, "redirect")
        /\ Rewind(c)
        /\ out' = [out EXCEPT ![c] = {}]
  /\ UNCHANGED <<chain, offers, need, counted>>

\* The customer's own bundle is forwarded unchecked.
Submit(c, o) ==
  /\ stage[c] = "idle"
  /\ GoTo(c, "posted")
  /\ out' = [out EXCEPT ![c] = o]
  /\ UNCHANGED <<chain, offers, next, run, need, walk>>

\* The channel takes a bundle as a whole, and creates no UTXO twice.
Settle(c) ==
  /\ stage[c] = "posted"
  /\ out[c] \cap created = {}
  /\ GoTo(c, "done")
  /\ created' = created \cup out[c]
  /\ funded' = funded \cup out[c]
  /\ UNCHANGED <<offers, next, run, need, out, walk>>

\* A read fails, the provider refuses the bundle, or the server dies.
Abandon(c) ==
  /\ stage[c] \in InFlight
  /\ GoTo(c, "done")
  /\ UNCHANGED <<chain, offers, next, run, need, out, walk>>

\* The merchant spends a UTXO: its record stays.
Spend(i) ==
  /\ i \in funded
  /\ funded' = funded \ {i}
  /\ UNCHANGED <<created, offers, stage, next, run, need, out, walk>>

-----------------------------------------------------------------------------
(* The balance. *)

Balance(c) ==
  /\ stage[c] = "idle"
  /\ GoTo(c, "balance")
  /\ Rewind(c)
  /\ counted' = [counted EXCEPT ![c] = {}]
  /\ UNCHANGED <<chain, offers, need, out>>

\* Mutant: a spent index counts as a free one.
ClosesOnSpent(c, k) ==
  /\ {j \in Scanned(c) : j <= k /\ k < j + Run} \cap funded = {}
  /\ k + 1 < next[c] + Run => k + 1 + run[c] >= next[c] + Run

\* Does the free run reach its limit at index k of the batch?
Closes(c, k) ==
  /\ {j \in Scanned(c) : j <= k /\ k < j + Run} \cap created = {}
  /\ k + 1 < next[c] + Run => k + 1 + run[c] >= next[c] + Run

\* Mutant: every index of the batch counts.
WalkOnCountingAll(c) ==
  /\ stage[c] = "balance"
  /\ \A k \in Scanned(c) : ~Closes(c, k)
  /\ counted' = [counted EXCEPT ![c] = @ \cup Scanned(c)]
  /\ run' = [run EXCEPT ![c] = RunAfter(c)]
  /\ next' = [next EXCEPT ![c] = @ + Batch]
  /\ UNCHANGED <<chain, offers, stage, need, out, atStart>>

WalkOn(c) ==
  /\ stage[c] = "balance"
  /\ \A k \in Scanned(c) : ~Closes(c, k)
  /\ counted' = [counted EXCEPT ![c] = @ \cup (funded \cap Scanned(c))]
  /\ run' = [run EXCEPT ![c] = RunAfter(c)]
  /\ next' = [next EXCEPT ![c] = @ + Batch]
  /\ UNCHANGED <<chain, offers, stage, need, out, atStart>>

\* The walk ends with the first free run that is long enough.
WalkEnds(c) ==
  /\ stage[c] = "balance"
  /\ \E k \in Scanned(c) :
       /\ Closes(c, k)
       /\ \A j \in Scanned(c) : j < k => ~Closes(c, j)
       /\ counted' = [counted EXCEPT ![c] = @ \cup (funded \cap next[c]..k)]
  /\ GoTo(c, "summed")
  /\ UNCHANGED <<chain, offers, next, run, need, out, atStart>>

Search(c) == FindEnough(c) \/ FillUp(c) \/ ReadOn(c)

Next ==
  \/ \E c \in Calls :
       \/ Prepare(c) \/ Search(c) \/ Validate(c) \/ Settle(c) \/ Abandon(c)
       \/ \E o \in Proposals : Execute(c, o) \/ Submit(c, o)
       \/ Balance(c) \/ WalkOn(c) \/ WalkEnds(c)
  \/ \E i \in funded : Spend(i)

Spec == Init /\ [][Next]_vars

-----------------------------------------------------------------------------
(* Properties. *)

DownClosed(s) == \A i \in s : 0..i \subseteq s

\* "The funded-or-spent region is a contiguous prefix" (lines 10-14):
\* although every call picks its indexes over several reads and others
\* settle between them, no bundle leaves a gap.
Contiguous == DownClosed(created)

\* A walk that came to its end has summed every UTXO that existed when it
\* began and is still funded: stopping at the first free run misses none
\* (lines 70-74, and transaction/balance.ts:22-25).
BalanceComplete ==
  \A c \in Calls :
    stage[c] = "summed" => atStart[c] \cap funded \subseteq counted[c]

\* What a search finds was free when it began, be it read from the channel
\* or filled in unread, and whatever settled between its reads (lines
\* 152-153, 181-182).
FoundWereFree == \A c \in Calls : out[c] \cap atStart[c] = {}

\* Whatever mix of batches and filling found them, and whatever settled
\* meanwhile, prepare offers as many different indexes as it should and a
\* redirected payment gets as many as it had proposed (lines 138-144,
\* 168-191): the amount is partitioned over that number.
NoneMissing ==
  /\ \A o \in offers : Cardinality(o) = Destinations
  /\ \A c \in Calls :
       stage[c] = "posted" /\ need[c] > 0 => Cardinality(out[c]) = need[c]
=============================================================================
