--------------------------- MODULE TransactionLog ---------------------------
(***************************************************************************)
(* The rows of transactions (transaction.repository.ts) and the clients    *)
(* that list them (src/src/http/v1/transaction/list.ts), while payments    *)
(* add rows and the deletion of an account takes its rows away.            *)
(*                                                                         *)
(* The endpoint returns a page, newest row first.  A client that wants all *)
(* of the log asks for page after page, each at the offset of what it got  *)
(* so far, until a page is empty.                                          *)
(***************************************************************************)
EXTENDS Connections, Integers, FiniteSets

CONSTANTS
  Listers,        \* connections of clients that list their log
  Asked,          \* the listings they ask for
  DefaultLimit, MaxLimit,
  MaxRows         \* bound: rows that payments add

Directions == {"IN", "OUT"}

\* The limit is what the client sends: None is no number.
Listings == [wallet : Wallets, direction : Directions \cup {None},
             limit : Int \cup {None}]

ASSUME LogAssumption ==
  /\ Listers \subseteq Slots
  /\ Asked \subseteq Listings /\ None \notin Listings
  /\ None \notin Directions /\ None \notin Int
  /\ MaxLimit \in Nat /\ DefaultLimit \in 1..MaxLimit
  /\ MaxRows \in Nat

VARIABLES
  log,       \* the rows
  added,     \* how many rows were ever added
  \* clients: what they list, where they are, what they got
  listing, offset, got, listed,
  \* history: what a client could have got when it began
  atStart

client == <<listing, offset, got, listed, atStart>>
logVars == <<log, added, client>>

\* id tells rows apart, also from those of a deleted account; at is the time
\* stamp by which a wallet's rows are ordered, a number of its own for each.
Transaction == [id : 1..MaxRows, at : 1..MaxRows, wallet : Wallets,
                direction : Directions]

LogTypeOK ==
  /\ log \in SUBSET Transaction
  /\ added \in 0..MaxRows
  /\ listing \in [Slots -> Asked \cup {None}]
  /\ offset \in [Slots -> Nat]
  /\ got \in [Slots -> SUBSET Transaction]
  /\ listed \in [Slots -> BOOLEAN]
  /\ atStart \in [Slots -> SUBSET Transaction]

LogInit ==
  /\ log = {}
  /\ added = 0
  /\ listing = [s \in Slots |-> None]
  /\ offset = [s \in Slots |-> 0]
  /\ got = [s \in Slots |-> {}]
  /\ listed = [s \in Slots |-> FALSE]
  /\ atStart = [s \in Slots |-> {}]

Newer(at, rows) == {row \in rows : row.at > at}

\* A payment logs a row.  The time stamp is that of the statement's start: of
\* two statements that overlap, the later one may be in the log first.
Record(w) ==
  LET rows == {row \in log : row.wallet = w} IN
  /\ added < MaxRows
  /\ \E direction \in Directions, at \in 1..MaxRows :
       /\ \A row \in rows : row.at # at
       /\ Cardinality(Newer(at, rows)) <= 1
       /\ log' = log \cup {[id |-> added + 1, at |-> at, wallet |-> w,
                            direction |-> direction]}
  /\ added' = added + 1
  /\ UNCHANGED client

\* The rows of a deleted account are deleted with it.
Wipe(w) ==
  /\ log' = {row \in log : row.wallet # w}
  /\ UNCHANGED <<added, client>>

-----------------------------------------------------------------------------
(* The list endpoint. *)

\* A missing limit, zero and what is no number stand for the default.
Limit(l) ==
  LET n == IF l = None \/ l = 0 THEN DefaultLimit ELSE l IN
  IF n > MaxLimit THEN MaxLimit ELSE n

\* Mutant: the query is not of a wallet.
RowsOfAnyone(w, direction) ==
  {row \in log : direction \in {None, row.direction}}

Rows(w, direction) ==
  {row \in log : row.wallet = w /\ direction \in {None, row.direction}}

PageOf(rows, limit, from) ==
  {row \in rows :
     Cardinality(Newer(row.at, rows)) \in from .. from + limit - 1}

\* Mutant: no order is asked for.
findByWalletUnordered(w, direction, limit, from) ==
  LET rows == Rows(w, direction) IN
  {PageOf(rows, limit, from),
   {row \in rows : Cardinality({x \in rows : x.at < row.at})
                     \in from .. from + limit - 1}}

\* The pages the query may return: one, as the rows are ordered.
findByWallet(w, direction, limit, from) ==
  {PageOf(Rows(w, direction), limit, from)}

StartListing(s) ==
  /\ s \in Listers /\ listing[s] = None
  /\ \E l \in Asked :
       /\ listing' = [listing EXCEPT ![s] = l]
       /\ atStart' = [atStart EXCEPT ![s] = Rows(l.wallet, l.direction)]
  /\ UNCHANGED <<log, added, offset, got, listed>>

\* A page of the wallet w of the session, in answer to what s asks for; the
\* database refuses a negative limit.
List(s, w) ==
  LET l == listing[s] IN
  /\ Limit(l.limit) >= 0
  /\ \E page \in findByWallet(w, l.direction, Limit(l.limit), offset[s]) :
       /\ got' = [got EXCEPT ![s] = @ \cup page]
       /\ offset' = [offset EXCEPT ![s] = @ + Cardinality(page)]
       /\ listed' = [listed EXCEPT ![s] = page = {}]
  /\ UNCHANGED <<log, added, listing, atStart>>

-----------------------------------------------------------------------------
(* Properties. *)

\* A client that came to the end got every row that was in the log when it
\* began and still is, whatever payments added to it between two pages.  (It
\* may get a row twice, and need not get a new one.)
NothingSkipped ==
  \A s \in Slots : listed[s] => atStart[s] \cap log \subseteq got[s]
=============================================================================
