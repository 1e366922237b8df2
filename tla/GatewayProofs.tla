--------------------------- MODULE GatewayProofs ----------------------------
(***************************************************************************)
(* Theorems about Gateway and the modules it composes, for every value of  *)
(* their constants: any number of connections, wallets, rows, listings,    *)
(* payloads and restarts.                                                  *)
(*                                                                         *)
(* Waitlist and TransactionLog are proved about by themselves; a step of   *)
(* the gateway is a step of each, or leaves it alone.  That pages skip     *)
(* nothing rests on two facts of ranks: new rows only push old ones back,  *)
(* and the ranks of a set of rows have no gap.                             *)
(***************************************************************************)
EXTENDS Gateway, FiniteSetTheorems, TLAPS

(* Ranks. *)

\* A set of numbers has a least one.
LEMMA Least ==
  ASSUME NEW T \in SUBSET Nat, T # {}
  PROVE  \E m \in T : \A n \in T : m <= n
<1>1. PICK m \in T : \A n \in T : ~ (<<n, m>> \in OpToRel(<, Nat))
  BY WFMin, NatLessThanWellFounded, Zenon
<1>2. ASSUME NEW n \in T PROVE m <= n
  <2>1. n \in Nat /\ m \in Nat /\ ~(n < m)
    BY <1>1, <1>2, Zenon DEF OpToRel
  <2> QED
    BY <2>1
<1> QED
  BY <1>2

\* What a log is for these lemmas: finite, with a time stamp for each row.
Stamped(rows) ==
  /\ IsFiniteSet(rows)
  /\ \A x \in rows : x.at \in Nat
  /\ \A x, y \in rows : x.at = y.at => x = y

Rank(at, rows) == Cardinality(Newer(at, rows))

\* Of finitely many rows a finite number is newer than a time.
LEMMA RankType ==
  ASSUME NEW rows, IsFiniteSet(rows), NEW at
  PROVE  Rank(at, rows) \in Nat /\ IsFiniteSet(Newer(at, rows))
<1>1. Newer(at, rows) \in SUBSET rows
  BY DEF Newer
<1> QED
  BY <1>1, FS_Subset, FS_CardinalityType DEF Rank

\* New rows only push old ones back.
LEMMA RankGrows ==
  ASSUME NEW more, IsFiniteSet(more), NEW rows \in SUBSET more, NEW at
  PROVE  Rank(at, rows) <= Rank(at, more)
<1>1. Newer(at, rows) \in SUBSET Newer(at, more)
  BY DEF Newer
<1> QED
  BY <1>1, RankType, FS_Subset DEF Rank

\* An older row has a greater rank.
LEMMA RankOrder ==
  ASSUME NEW rows, Stamped(rows), NEW x \in rows, NEW y \in rows, x.at < y.at
  PROVE  Rank(y.at, rows) < Rank(x.at, rows)
<1> DEFINE A == Newer(y.at, rows)
           B == Newer(x.at, rows)
<1>1. A \in SUBSET B /\ y \in B /\ y \notin A
  BY DEF Newer, Stamped
<1>2. IsFiniteSet(A) /\ IsFiniteSet(B)
  BY RankType DEF Stamped
<1>3. Cardinality(A) <= Cardinality(B) /\ Cardinality(A) # Cardinality(B)
  BY <1>1, <1>2, FS_Subset
<1>4. Cardinality(A) \in Nat /\ Cardinality(B) \in Nat
  BY <1>2, FS_CardinalityType
<1> HIDE DEF A, B
<1>5. Cardinality(A) < Cardinality(B)
  BY <1>3, <1>4
<1> QED
  BY <1>5 DEF Rank, A, B

\* A page has no more rows than the limit.
LEMMA PageSmall ==
  ASSUME NEW rows, Stamped(rows), NEW limit \in Nat, limit >= 1,
         NEW from \in Nat
  PROVE  /\ IsFiniteSet(PageOf(rows, limit, from))
         /\ Cardinality(PageOf(rows, limit, from)) \in 0..limit
<1> DEFINE page == PageOf(rows, limit, from)
           T == from .. from + limit - 1
           f == [row \in page |-> Rank(row.at, rows)]
<1>1. IsFiniteSet(T) /\ Cardinality(T) = limit
  BY FS_Interval
<1>2. f \in [page -> T]
  BY DEF PageOf, Rank
<1>3. ASSUME NEW x \in page, NEW y \in page, f[x] = f[y] PROVE x = y
  <2>1. x \in rows /\ y \in rows
    BY DEF PageOf
  <2>2. Rank(x.at, rows) = Rank(y.at, rows)
    BY <1>3
  <2>3. Rank(x.at, rows) \in Nat
    BY RankType DEF Stamped
  <2>4. ~(x.at < y.at) /\ ~(y.at < x.at)
    BY <2>1, <2>2, <2>3, RankOrder
  <2> QED
    BY <2>1, <2>4 DEF Stamped
<1>4. f \in Injection(page, T)
  BY <1>2, <1>3 DEF Injection, IsInjective
<1>5. IsFiniteSet(page) /\ Cardinality(page) <= limit
  BY <1>1, <1>4, FS_Injection
<1>6. Cardinality(page) \in Nat
  BY <1>5, FS_CardinalityType
<1> QED
  BY <1>5, <1>6

\* The ranks have no gap: behind an empty page there are no rows.
LEMMA PageLast ==
  ASSUME NEW rows, Stamped(rows), NEW limit \in Nat, limit >= 1,
         NEW from \in Nat, PageOf(rows, limit, from) = {}, NEW row \in rows
  PROVE  Rank(row.at, rows) < from
<1> SUFFICES ASSUME ~(Rank(row.at, rows) < from) PROVE FALSE
  OBVIOUS
<1>0. \A x \in rows : Rank(x.at, rows) \in Nat
  BY RankType DEF Stamped
<1> DEFINE T == {n \in Nat : n >= from
                              /\ \E x \in rows : Rank(x.at, rows) = n}
<1>1. Rank(row.at, rows) \in T
  BY <1>0
<1>2. PICK m \in T : \A n \in T : m <= n
  BY <1>1, Least
<1>3. PICK x \in rows : Rank(x.at, rows) = m
  BY <1>2
<1>4. m # from
  BY <1>3 DEF PageOf, Rank
<1>5. m > from
  BY <1>2, <1>4
<1> DEFINE N == Newer(x.at, rows)
           U == {y.at : y \in N}
<1>6. N # {} /\ N \subseteq rows
  <2>1. N = {} => Rank(x.at, rows) = 0
    BY FS_EmptySet DEF Rank
  <2> QED
    BY <2>1, <1>3, <1>5 DEF Newer
<1>7. PICK y \in N : \A z \in N : y.at <= z.at
  <2>1. U \in SUBSET Nat /\ U # {}
    BY <1>6 DEF Stamped
  <2>2. PICK u \in U : \A v \in U : u <= v
    BY <2>1, Least
  <2> QED
    BY <2>2
<1>8. y \in rows /\ x.at < y.at /\ x.at \in Nat /\ y.at \in Nat
  BY <1>6 DEF Newer, Stamped
<1>9. N = Newer(y.at, rows) \cup {y} /\ y \notin Newer(y.at, rows)
  <2>1. ASSUME NEW z \in N PROVE z \in Newer(y.at, rows) \cup {y}
    <3>1. z \in rows /\ z.at \in Nat /\ y.at <= z.at
      BY <1>6, <1>7 DEF Stamped
    <3> QED
      BY <3>1, <1>8 DEF Newer, Stamped
  <2>2. ASSUME NEW z \in Newer(y.at, rows) PROVE z \in N
    BY <1>8, <2>2 DEF Newer, Stamped
  <2> QED
    BY <2>1, <2>2, <1>8 DEF Newer
<1>10. Rank(x.at, rows) = Rank(y.at, rows) + 1
  BY <1>9, RankType, FS_AddElement DEF Rank, Stamped
<1>11. Rank(y.at, rows) \in T /\ Rank(y.at, rows) < m
  BY <1>0, <1>3, <1>5, <1>8, <1>10
<1> QED
  BY <1>2, <1>3, <1>11

-----------------------------------------------------------------------------
(* TransactionLog. *)

\* What payments, deletions and clients do to the log; a client lists the log
\* of its own wallet.
LogNext ==
  \/ \E w \in Wallets : Record(w) \/ Wipe(w)
  \/ \E s \in Slots : StartListing(s)
  \/ \E s \in Slots : listing[s] # None /\ List(s, listing[s].wallet)

\* What a client lists.
Mine(s) == Rows(listing[s].wallet, listing[s].direction)

\* What is known of a client that is somewhere in its log: whatever was there
\* when it began and is newer than where it is, it got.
Follows(s) ==
  /\ listing[s] = None =>
       ~listed[s] /\ got[s] = {} /\ atStart[s] = {} /\ offset[s] = 0
  /\ listing[s] # None =>
       /\ \A row \in got[s] : row.wallet = listing[s].wallet
       /\ \A row \in atStart[s] :
            /\ row.id <= added /\ row.wallet = listing[s].wallet
            /\ listing[s].direction \in {None, row.direction}
       /\ \A row \in atStart[s] \cap log :
            Rank(row.at, Mine(s)) < offset[s] => row \in got[s]
       /\ listed[s] => atStart[s] \cap log \subseteq got[s]

Distinct ==
  /\ IsFiniteSet(log)
  /\ \A row \in log : row.id <= added
  /\ \A x, y \in log : x.wallet = y.wallet /\ x.at = y.at => x = y

LInv == LogTypeOK /\ Distinct /\ \A s \in Slots : Follows(s)

\* An empty log, and nobody who lists it.
LEMMA LInvInit == LogInit => LInv
<1> SUFFICES ASSUME LogInit PROVE LInv
  OBVIOUS
<1>1. LogTypeOK
  BY LogAssumption DEF LogInit, LogTypeOK
<1>2. Distinct
  BY FS_EmptySet DEF LogInit, Distinct
<1>3. ASSUME NEW s \in Slots PROVE Follows(s)
  BY DEF LogInit, Follows
<1> QED
  BY <1>1, <1>2, <1>3 DEF LInv

\* The rows of a wallet, of a direction or of both.
LEMMA RowsStamped ==
  ASSUME LInv, NEW w, NEW direction
  PROVE  Stamped(Rows(w, direction))
<1>1. Rows(w, direction) \in SUBSET log
  BY DEF Rows
<1>2. IsFiniteSet(Rows(w, direction))
  BY <1>1, FS_Subset DEF LInv, Distinct
<1>3. \A x \in Rows(w, direction) : x.at \in Nat
  BY <1>1 DEF LInv, LogTypeOK, Transaction
<1>4. \A x, y \in Rows(w, direction) : x.at = y.at => x = y
  BY DEF Rows, LInv, Distinct
<1> QED
  BY <1>2, <1>3, <1>4 DEF Stamped

\* A new row pushes old ones back, also in listings that have begun.
LEMMA RecordKeeps ==
  ASSUME LInv, NEW w \in Wallets, Record(w)
  PROVE  LInv'
<1>1. PICK direction \in Directions, at \in 1..MaxRows :
        /\ \A row \in {x \in log : x.wallet = w} : row.at # at
        /\ log' = log \cup {[id |-> added + 1, at |-> at, wallet |-> w,
                             direction |-> direction]}
  BY DEF Record
<1>2. /\ added < MaxRows /\ added' = added + 1
      /\ UNCHANGED <<listing, offset, got, listed, atStart>>
  BY DEF Record, client
<1> DEFINE new == [id |-> added + 1, at |-> at, wallet |-> w,
                   direction |-> direction]
<1>3. added \in Nat /\ MaxRows \in Nat
  BY LogAssumption DEF LInv, LogTypeOK
<1>4. new \in Transaction
  BY <1>2, <1>3 DEF Transaction
<1>5. /\ new.id = added + 1 /\ new.at = at /\ new.wallet = w
      /\ log' = log \cup {new}
  BY <1>1
<1> HIDE DEF new
<1>6. LogTypeOK'
  BY <1>2, <1>3, <1>4, <1>5 DEF LInv, LogTypeOK
<1>7. \A row \in Transaction : row.id \in Nat
  BY DEF Transaction
<1>8. Distinct'
  <2>1. IsFiniteSet(log')
    BY <1>5, FS_AddElement DEF LInv, Distinct
  <2>2. \A row \in log' : row.id <= added'
    BY <1>2, <1>3, <1>5, <1>7 DEF LInv, LogTypeOK, Distinct
  <2>3. \A x, y \in log' : x.wallet = y.wallet /\ x.at = y.at => x = y
    BY <1>1, <1>5 DEF LInv, Distinct
  <2> QED
    BY <2>1, <2>2, <2>3 DEF Distinct
<1>9. ASSUME NEW s \in Slots PROVE Follows(s)'
  <2>1. CASE listing[s] = None
    BY <1>2, <2>1 DEF LInv, Follows
  <2>2. CASE listing[s] # None
    <3>1. Follows(s) /\ atStart[s] \subseteq Transaction
      BY DEF LInv, LogTypeOK
    <3>2. \A row \in atStart[s] : row.id <= added /\ row.id \in Nat
      BY <1>7, <2>2, <3>1 DEF Follows
    <3>3. atStart[s] \cap log' = atStart[s] \cap log
      BY <1>3, <1>5, <3>2
    <3>4. ASSUME NEW row \in atStart[s] \cap log,
                 Rank(row.at, Mine(s)') < offset[s]
          PROVE  row \in got[s]
      <4>1. Mine(s) \in SUBSET Mine(s)'
        BY <1>2, <1>5 DEF Mine, Rows
      <4>2. IsFiniteSet(Mine(s)')
        <5>1. Mine(s)' \in SUBSET log' /\ IsFiniteSet(log')
          BY <1>8 DEF Mine, Rows, Distinct
        <5> QED
          BY <5>1, FS_Subset
      <4>3. Rank(row.at, Mine(s)) <= Rank(row.at, Mine(s)')
        BY <4>1, <4>2, RankGrows
      <4>4. /\ Rank(row.at, Mine(s)) \in Nat /\ Rank(row.at, Mine(s)') \in Nat
            /\ offset[s] \in Nat
        BY <4>1, <4>2, RankType, FS_Subset DEF LInv, LogTypeOK
      <4>5. Rank(row.at, Mine(s)) < offset[s]
        BY <3>4, <4>3, <4>4
      <4> QED
        BY <2>2, <3>1, <4>5 DEF Follows
    <3>5. \A row \in atStart[s] : row.id <= added'
      BY <1>2, <1>3, <3>2
    <3>6. \A row \in atStart[s] \cap log' :
            Rank(row.at, Mine(s))' < offset[s] => row \in got[s]
      BY <3>3, <3>4 DEF Rank, Newer
    <3> QED
      BY <1>2, <2>2, <3>1, <3>3, <3>5, <3>6 DEF Follows
  <2> QED
    BY <2>1, <2>2
<1> QED
  BY <1>6, <1>8, <1>9 DEF LInv

\* A deleted account leaves no rows that a listing could miss.
LEMMA WipeKeeps ==
  ASSUME LInv, NEW w \in Wallets, Wipe(w)
  PROVE  LInv'
<1>1. /\ log' = {row \in log : row.wallet # w} /\ log' \in SUBSET log
      /\ UNCHANGED <<added, listing, offset, got, listed, atStart>>
  BY DEF Wipe, client
<1>2. LogTypeOK'
  BY <1>1 DEF LInv, LogTypeOK
<1>3. Distinct'
  <2>1. IsFiniteSet(log')
    BY <1>1, FS_Subset DEF LInv, Distinct
  <2> QED
    BY <1>1, <2>1 DEF LInv, Distinct
<1>4. ASSUME NEW s \in Slots PROVE Follows(s)'
  <2>1. CASE listing[s] = None
    BY <1>1, <2>1 DEF LInv, Follows
  <2>2. CASE listing[s] # None /\ listing[s].wallet = w
    <3>1. atStart[s] \cap log' = {}
      BY <1>1, <2>2 DEF LInv, Follows
    <3> QED
      BY <1>1, <2>2, <3>1 DEF LInv, Follows
  <2>3. CASE listing[s] # None /\ listing[s].wallet # w
    <3>1. Mine(s)' = Mine(s)
      BY <1>1, <2>3 DEF Mine, Rows
    <3>2. \A row : Rank(row.at, Mine(s))' = Rank(row.at, Mine(s))
      BY <3>1 DEF Rank, Newer
    <3> QED
      BY <1>1, <2>3, <3>2 DEF LInv, Follows
  <2> QED
    BY <2>1, <2>2, <2>3
<1> QED
  BY <1>2, <1>3, <1>4 DEF LInv

\* A client that begins has missed nothing yet.
LEMMA StartListingKeeps ==
  ASSUME LInv, NEW s \in Slots, StartListing(s)
  PROVE  LInv'
<1>1. PICK l \in Asked :
        /\ listing' = [listing EXCEPT ![s] = l]
        /\ atStart' = [atStart EXCEPT ![s] = Rows(l.wallet, l.direction)]
  BY DEF StartListing
<1>2. listing[s] = None /\ UNCHANGED <<log, added, offset, got, listed>>
  BY DEF StartListing
<1>3. Rows(l.wallet, l.direction) \subseteq log /\ log \subseteq Transaction
  BY DEF Rows, LInv, LogTypeOK
<1>4. LogTypeOK'
  BY <1>1, <1>2, <1>3 DEF LInv, LogTypeOK
<1>5. Distinct'
  BY <1>2 DEF LInv, Distinct
<1>6. ASSUME NEW q \in Slots PROVE Follows(q)'
  <2>1. CASE q = s
    <3>1. l # None
      BY LogAssumption
    <3>2. /\ listing'[s] = l /\ atStart'[s] = Rows(l.wallet, l.direction)
          /\ ~listed[s] /\ got[s] = {} /\ offset[s] = 0
      BY <1>1, <1>2 DEF LInv, LogTypeOK, Follows
    <3>3. \A row \in Rows(l.wallet, l.direction) :
            /\ row.id <= added /\ row.wallet = l.wallet
            /\ l.direction \in {None, row.direction}
      BY DEF Rows, LInv, Distinct
    <3>4. Mine(s)' = Rows(l.wallet, l.direction)
      BY <1>2, <3>2 DEF Mine, Rows
    <3>5. ASSUME NEW row
          PROVE  Rank(row.at, Mine(s))' \in Nat
      <4>1. Rank(row.at, Rows(l.wallet, l.direction)) \in Nat
        BY RowsStamped, RankType DEF Stamped
      <4> QED
        BY <3>4, <4>1 DEF Rank, Newer
    <3>6. \A row : ~(Rank(row.at, Mine(s))' < 0)
      <4>1. \A n \in Nat : ~(n < 0)
        OBVIOUS
      <4> QED
        BY <3>5, <4>1
    <3> QED
      BY <1>2, <2>1, <3>1, <3>2, <3>3, <3>6 DEF Follows
  <2>2. CASE q # s
    <3>1. listing'[q] = listing[q] /\ atStart'[q] = atStart[q]
      BY <1>1, <2>2 DEF LInv, LogTypeOK
    <3>2. \A row : Rank(row.at, Mine(q))' = Rank(row.at, Mine(q))
      BY <1>2, <3>1 DEF Rank, Newer, Mine, Rows
    <3> QED
      BY <1>2, <3>1, <3>2 DEF LInv, Follows
  <2> QED
    BY <2>1, <2>2
<1> QED
  BY <1>4, <1>5, <1>6 DEF LInv

\* A limit that is not negative is not zero either.
LEMMA LimitPositive ==
  ASSUME NEW l \in Int \cup {None}, Limit(l) >= 0
  PROVE  Limit(l) \in Nat /\ Limit(l) >= 1
  BY LogAssumption DEF Limit

\* A page continues where the rows got so far end.
LEMMA ListKeeps ==
  ASSUME LInv, NEW s \in Slots, listing[s] # None,
         List(s, listing[s].wallet)
  PROVE  LInv'
<1> DEFINE limit == Limit(listing[s].limit)
           page == PageOf(Mine(s), limit, offset[s])
<1>1. /\ got' = [got EXCEPT ![s] = @ \cup page]
      /\ offset' = [offset EXCEPT ![s] = @ + Cardinality(page)]
      /\ listed' = [listed EXCEPT ![s] = page = {}]
      /\ limit >= 0 /\ UNCHANGED <<log, added, listing, atStart>>
  BY DEF List, findByWallet, Mine
<1>2. listing[s] \in Listings
  BY LogAssumption DEF LInv, LogTypeOK
<1>3. limit \in Nat /\ limit >= 1
  BY <1>1, <1>2, LimitPositive DEF Listings
<1>4. Stamped(Mine(s)) /\ offset[s] \in Nat
  BY RowsStamped DEF Mine, LInv, LogTypeOK
<1>5. page \subseteq Mine(s) /\ Mine(s) \subseteq log
      /\ log \subseteq Transaction
  BY DEF PageOf, Mine, Rows, LInv, LogTypeOK
<1> HIDE DEF limit
<1>6. Cardinality(page) \in 0..limit
  BY <1>3, <1>4, PageSmall
<1>7. page = {} => \A row \in Mine(s) : Rank(row.at, Mine(s)) < offset[s]
  BY <1>3, <1>4, PageLast
<1>8. \A row \in Mine(s) :
        Rank(row.at, Mine(s)) \in offset[s] .. offset[s] + limit - 1
          => row \in page
  BY DEF PageOf, Rank
<1> HIDE DEF page
<1>9. LogTypeOK'
  BY <1>1, <1>3, <1>5, <1>6 DEF LInv, LogTypeOK
<1>10. Distinct'
  BY <1>1 DEF LInv, Distinct
<1>11. ASSUME NEW q \in Slots PROVE Follows(q)'
  <2>1. UNCHANGED Mine(q)
    BY <1>1 DEF Mine, Rows
  <2>2. \A row : Rank(row.at, Mine(q))' = Rank(row.at, Mine(q))
    BY <2>1 DEF Rank, Newer
  <2>3. CASE q # s
    <3>1. got'[q] = got[q] /\ offset'[q] = offset[q] /\ listed'[q] = listed[q]
      BY <1>1, <2>3 DEF LInv, LogTypeOK
    <3> QED
      BY <1>1, <2>2, <3>1 DEF LInv, Follows
  <2>4. CASE q = s
    <3>1. /\ got'[s] = got[s] \cup page /\ listed'[s] = (page = {})
          /\ offset'[s] = offset[s] + Cardinality(page)
      BY <1>1 DEF LInv, LogTypeOK
    <3>2. /\ Follows(s)
          /\ \A row \in atStart[s] \cap log : row \in Mine(s)
      BY DEF LInv, Follows, Mine, Rows
    <3>3. \A row \in got'[s] : row.wallet = listing[s].wallet
      BY <1>5, <3>1, <3>2 DEF Follows, Mine, Rows
    <3>4. ASSUME NEW row \in atStart[s] \cap log,
                 Rank(row.at, Mine(s)) < offset'[s]
          PROVE  row \in got'[s]
      <4>1. Rank(row.at, Mine(s)) \in Nat
        BY <1>4, RankType DEF Stamped
      <4>2. CASE Rank(row.at, Mine(s)) < offset[s]
        BY <3>1, <3>2, <4>2 DEF Follows
      <4>3. CASE ~(Rank(row.at, Mine(s)) < offset[s])
        <5>1. Rank(row.at, Mine(s)) \in offset[s] .. offset[s] + limit - 1
          BY <1>3, <1>4, <1>6, <3>1, <3>4, <4>1, <4>3
        <5> QED
          BY <1>8, <3>1, <3>2, <5>1
      <4> QED
        BY <4>2, <4>3
    <3>5. listed'[s] => atStart[s] \cap log \subseteq got'[s]
      BY <1>7, <3>1, <3>2 DEF Follows
    <3> QED
      BY <1>1, <2>2, <2>4, <3>2, <3>3, <3>4, <3>5 DEF Follows
  <2> QED
    BY <2>3, <2>4
<1> QED
  BY <1>9, <1>10, <1>11 DEF LInv

\* Every step of the log and its clients keeps the invariant.
LEMMA LInvStep == LInv /\ [LogNext]_logVars => LInv'
<1> SUFFICES ASSUME LInv, [LogNext]_logVars PROVE LInv'
  OBVIOUS
<1>1. CASE LogNext
  BY <1>1, RecordKeeps, WipeKeeps, StartListingKeeps, ListKeeps DEF LogNext
<1>2. CASE UNCHANGED logVars
  <2>1. UNCHANGED <<log, added, listing, offset, got, listed, atStart>>
    BY <1>2 DEF logVars, client
  <2>2. ASSUME NEW s \in Slots PROVE Follows(s)'
    <3>1. \A row : Rank(row.at, Mine(s))' = Rank(row.at, Mine(s))
      BY <2>1 DEF Rank, Newer, Mine, Rows
    <3> QED
      BY <2>1, <3>1 DEF LInv, Follows
  <2> QED
    BY <2>1, <2>2 DEF LInv, LogTypeOK, Distinct
<1> QED
  BY <1>1, <1>2

-----------------------------------------------------------------------------
(* Waitlist. *)

WaitNext ==
  \/ \E s \in Slots :
       ApplyStep(s) \/ \E w \in Wallets \cup {None} : Apply(s, w)
  \/ LoseApplications

\* What an application knows: for whom it is, and that its row is there when
\* it is about to tell.
Applies(s) ==
  /\ wstage[s] \in {"find", "update"} => applicant[s] # None
  /\ wstage[s] = "notify" =>
       IF applicant[s] = None THEN s \in walkIns
       ELSE waitlist[applicant[s]] # None

WInv ==
  /\ WaitTypeOK
  /\ ListedOnce
  /\ \A w \in Wallets : waitlist[w] = None => welcomed[w] = 0
  /\ \A s \in Slots : Applies(s)

\* Nobody is on the list, and nobody was told of.
LEMMA WInvInit == WaitInit => WInv
  BY DEF WaitInit, WInv, WaitTypeOK, ListedOnce, Applies

\* The unique index is what keeps a wallet from being new twice.
LEMMA InsertKeeps ==
  ASSUME WInv, NEW s \in Slots, InsertApplication(s)
  PROVE  WInv'
<1>1. /\ wstage[s] = "insert" /\ wstage' = [wstage EXCEPT ![s] = "notify"]
      /\ UNCHANGED <<applicant, told>>
  BY DEF InsertApplication
<1>2. CASE applicant[s] = None
  <2>1. /\ walkIns' = walkIns \cup {s} /\ UNCHANGED <<waitlist, welcomed>>
    BY <1>2, ConnectionsAssumption DEF InsertApplication
  <2> QED
    BY <1>1, <1>2, <2>1 DEF WInv, WaitTypeOK, ListedOnce, Applies
<1>3. CASE applicant[s] # None
  <2> DEFINE w == applicant[s]
  <2>1. /\ w \in Wallets /\ waitlist[w] = None /\ welcomed[w] = 0
        /\ waitlist' = [waitlist EXCEPT ![w] = s]
        /\ welcomed' = [welcomed EXCEPT ![w] = @ + 1]
        /\ UNCHANGED walkIns /\ s # None
    BY <1>3, ConnectionsAssumption DEF InsertApplication, WInv, WaitTypeOK
  <2>2. \A v \in Wallets : welcomed'[v] \in Nat /\ welcomed'[v] <= 1
    BY <2>1 DEF WInv, WaitTypeOK, ListedOnce
  <2>3. \A v \in Wallets :
          /\ waitlist'[v] = None => waitlist[v] = None /\ v # w
          /\ v # w => welcomed'[v] = welcomed[v]
    BY <2>1 DEF WInv, WaitTypeOK
  <2>4. WaitTypeOK'
    BY <1>1, <2>1, <2>2 DEF WInv, WaitTypeOK
  <2>5. ListedOnce'
    BY <1>1, <2>1, <2>2, <2>3 DEF WInv, WaitTypeOK, ListedOnce
  <2>6. ASSUME NEW q \in Slots PROVE Applies(q)'
    <3>1. CASE q = s
      <4>1. wstage'[s] = "notify" /\ waitlist'[w] # None
        BY <1>1, <2>1 DEF WInv, WaitTypeOK
      <4> QED
        BY <1>1, <1>3, <3>1, <4>1 DEF Applies
    <3>2. CASE q # s
      <4>1. /\ wstage'[q] = wstage[q] /\ applicant'[q] = applicant[q]
            /\ applicant[q] \in Wallets \cup {None}
        BY <1>1, <3>2 DEF WInv, WaitTypeOK
      <4>2. applicant[q] # None /\ waitlist[applicant[q]] # None
              => waitlist'[applicant[q]] # None
        BY <2>3, <4>1
      <4> QED
        BY <2>1, <4>1, <4>2 DEF WInv, Applies
    <3> QED
      BY <3>1, <3>2
  <2> QED
    BY <2>3, <2>4, <2>5, <2>6 DEF WInv
<1> QED
  BY <1>2, <1>3

\* Every step of an application keeps the invariant.
LEMMA WInvStep == WInv /\ [WaitNext]_waitVars => WInv'
<1> SUFFICES ASSUME WInv, [WaitNext]_waitVars PROVE WInv'
  OBVIOUS
<1> USE DEF WInv, WaitTypeOK, ListedOnce, Applies
<1>1. ASSUME NEW s \in Slots, NEW w \in Wallets \cup {None}, Apply(s, w)
      PROVE  WInv'
  BY <1>1 DEF Apply
<1>2. ASSUME NEW s \in Slots, FindApplicant(s) PROVE WInv'
  BY <1>2 DEF FindApplicant
<1>3. ASSUME NEW s \in Slots, UpdateEmail(s) PROVE WInv'
  BY <1>3, ConnectionsAssumption DEF UpdateEmail
<1>4. ASSUME NEW s \in Slots, NotifyDiscord(s) PROVE WInv'
  BY <1>4 DEF NotifyDiscord
<1>5. ASSUME NEW s \in Slots, FailToApply(s) PROVE WInv'
  BY <1>5 DEF FailToApply
<1>6. CASE LoseApplications \/ UNCHANGED waitVars
  BY <1>6 DEF LoseApplications, waitVars
<1> QED
  BY <1>1, <1>2, <1>3, <1>4, <1>5, <1>6, InsertKeeps DEF WaitNext, ApplyStep

-----------------------------------------------------------------------------
(* Errors. *)

Clean(e) ==
  e # None /\ e.code # "none" =>
    /\ e.status \in errorStatusSchema
    /\ {e.code, e.message, e.details} \subseteq {"ours", "theirs", "none"}

\* Whatever error the pipeline is given, what it answers is clean.
LEMMA ErrorsClean ==
  ASSUME NEW status \in Nat, NEW fields,
         NEW e \in {JwtError, providerBundleRejected(status, fields),
                    bundleSettlementFailed(fields), fromUnknown("internal")}
  PROVE  getAPIError(e) \in Responses /\ Clean(getAPIError(e))
<1>1. mapProviderStatus(status) \in errorStatusSchema \cap Nat
  BY DEF mapProviderStatus, errorStatusSchema
<1>2. \A name : /\ Field(fields, name, "ours") \in {"ours", "theirs"}
                /\ Field(fields, name, "none") \in {"none", "theirs"}
  BY DEF Field
<1>3. CASE e.api = None
  <2>1. e.code \in {"ours", "theirs"}
    BY <1>2 DEF JwtError, providerBundleRejected, bundleSettlementFailed,
                fromUnknown
  <2>2. getAPIError(e) = [status |-> 500, code |-> e.code,
                          message |-> "ours", details |-> "ours"]
    BY <1>3 DEF getAPIError, APIError
  <2> QED
    BY <2>1, <2>2 DEF Responses, Origins, Clean, errorStatusSchema
<1>4. CASE e.api # None
  <2>1. getAPIError(e) = [status |-> e.api.status, code |-> e.code,
                          message |-> e.api.message,
                          details |-> e.api.details]
    BY <1>4 DEF getAPIError, APIError
  <2>2. e # fromUnknown("internal")
    BY <1>4 DEF fromUnknown
  <2>3. /\ e.api.status \in errorStatusSchema \cap Nat
        /\ e.code \in {"ours", "theirs"}
        /\ e.api.message \in {"ours", "theirs"}
        /\ e.api.details \in {"ours", "theirs", "none"}
    BY <1>1, <1>2, <2>2 DEF JwtError, providerBundleRejected,
                            bundleSettlementFailed, errorStatusSchema
  <2> QED
    BY <2>1, <2>3 DEF Responses, Origins, Clean
<1> QED
  BY <1>3, <1>4

\* An answer that is not of the error pipeline has no code.
LEMMA PlainClean ==
  ASSUME NEW status \in Nat
  PROVE  /\ Plain(status) \in Responses /\ Clean(Plain(status))
         /\ APIError(status, "none", "raw", "none") \in Responses
         /\ Clean(APIError(status, "none", "raw", "none"))
  BY DEF Plain, APIError, Responses, Origins, Clean

-----------------------------------------------------------------------------
(* The gate. *)

FrameTypeOK ==
  /\ config \in Configs
  /\ now \in 0..MaxClock /\ boot \in 0..MaxBoots
  /\ pc \in [Slots -> {"idle", "verify", "handler", "upstream", "answered"}]
  /\ route \in [Slots -> Routes \cup {None}]
  /\ header \in [Slots -> Tokens \cup {None}]
  /\ session \in [Slots -> Tokens \cup {None}]
  /\ admitted \in [Slots -> 0..MaxClock]
  /\ response \in [Slots -> Responses \cup {None}]
  /\ upstream \in SUBSET Payloads

\* What is known of a request before and behind the gate.
Gated(s) ==
  /\ pc[s] = "verify" => route[s] \notin Open
  /\ pc[s] = "verify" /\ route[s] = "list" =>
       /\ listing[s] # None
       /\ header[s] # None => header[s].sub = listing[s].wallet
  /\ pc[s] \in {"handler", "upstream"} /\ route[s] \notin Open =>
       /\ session[s] \in Tokens /\ session[s].secret = Secret
       /\ admitted[s] <= session[s].exp
       /\ route[s] = "admin" => OnAdminList(session[s].sub)
  /\ pc[s] = "handler" /\ route[s] = "list" =>
       listing[s] # None /\ session[s].sub = listing[s].wallet
  /\ pc[s] = "upstream" => route[s] = "rpc"
  /\ Clean(response[s])

FInv ==
  /\ FrameTypeOK
  /\ \A s \in Slots : Gated(s)
  /\ \A p \in upstream : \A i \in 1..Len(p) : p[i] \in ALLOWED_METHODS

\* A server that was just started has no requests.
LEMMA FInvInit == GatewayInit => FInv
<1> SUFFICES ASSUME GatewayInit PROVE FInv
  OBVIOUS
<1>1. FrameTypeOK
  BY GatewayAssumption DEF GatewayInit, FrameTypeOK
<1>2. ASSUME NEW s \in Slots PROVE Gated(s)
  BY DEF GatewayInit, Gated, Clean
<1> QED
  BY <1>1, <1>2 DEF FInv, GatewayInit

\* A request that is answered leaves the others as they were.
LEMMA Responds ==
  ASSUME FInv, NEW s \in Slots, NEW a \in Responses, Clean(a),
         Respond(s, a), header' \in {header, [header EXCEPT ![s] = None]},
         UNCHANGED <<config, now, boot, route, upstream, listing>>
  PROVE  FInv'
<1>1. /\ pc' = [pc EXCEPT ![s] = "answered"]
      /\ response' = [response EXCEPT ![s] = a]
      /\ session' = [session EXCEPT ![s] = None]
      /\ admitted' = [admitted EXCEPT ![s] = 0]
  BY DEF Respond, GoTo
<1> 0 \in 0..MaxClock
  BY GatewayAssumption
<1>2. FrameTypeOK'
  BY <1>1 DEF FInv, FrameTypeOK
<1>3. ASSUME NEW q \in Slots PROVE Gated(q)'
  <2>1. CASE q = s
    <3>1. pc'[q] = "answered" /\ response'[q] = a
      BY <1>1, <2>1 DEF FInv, FrameTypeOK
    <3> QED
      BY <3>1 DEF Gated, Clean
  <2>2. CASE q # s
    <3>1. /\ pc'[q] = pc[q] /\ response'[q] = response[q]
          /\ session'[q] = session[q] /\ admitted'[q] = admitted[q]
          /\ header'[q] = header[q]
      BY <1>1, <2>2 DEF FInv, FrameTypeOK
    <3> QED
      BY <3>1 DEF FInv, Gated, Clean, Secret, OnAdminList
  <2> QED
    BY <2>1, <2>2
<1> QED
  BY <1>2, <1>3 DEF FInv

\* The gate lets nobody through but as it should.
LEMMA VerifyKeeps ==
  ASSUME FInv, NEW s \in Slots, Verify(s), UNCHANGED listing
  PROVE  FInv'
<1>1. /\ pc[s] = "verify" /\ header' = [header EXCEPT ![s] = None]
      /\ UNCHANGED <<config, now, boot, route, upstream>>
  BY DEF Verify, environment
<1>2. CASE Respond(s, getAPIError(JwtError))
  <2>1. /\ getAPIError(JwtError) \in Responses
        /\ Clean(getAPIError(JwtError))
    BY ErrorsClean
  <2> QED
    BY <1>1, <1>2, <2>1, Responds
<1>3. CASE Respond(s, Plain(403))
  <2>1. Plain(403) \in Responses /\ Clean(Plain(403))
    BY PlainClean
  <2> QED
    BY <1>1, <1>3, <2>1, Responds
<1>4. CASE /\ Verified(header[s]) /\ Admit(s)
           /\ route[s] = "admin" => OnAdminList(header[s].sub)
  <2>1. /\ pc' = [pc EXCEPT ![s] = "handler"]
        /\ session' = [session EXCEPT ![s] = header[s]]
        /\ admitted' = [admitted EXCEPT ![s] = now]
        /\ UNCHANGED response
    BY <1>4 DEF Admit, GoTo
  <2>2. FrameTypeOK'
    BY <1>1, <2>1 DEF FInv, FrameTypeOK
  <2>3. ASSUME NEW q \in Slots PROVE Gated(q)'
    <3>1. CASE q = s
      <4>1. /\ pc'[q] = "handler" /\ session'[q] = header[s]
            /\ admitted'[q] = now /\ response'[q] = response[s]
            /\ header[s] \in Tokens
        BY <1>4, <2>1, <3>1 DEF FInv, FrameTypeOK, Verified
      <4>2. header[s].secret = Secret /\ now <= header[s].exp
        BY <1>4 DEF Verified
      <4>3. route[s] = "list" =>
              listing[s] # None /\ header[s].sub = listing[s].wallet
        BY <1>1, <4>1, GatewayAssumption DEF FInv, Gated
      <4> QED
        BY <1>1, <1>4, <3>1, <4>1, <4>2, <4>3
        DEF FInv, Gated, Clean, Secret, OnAdminList
    <3>2. CASE q # s
      <4>1. /\ pc'[q] = pc[q] /\ response'[q] = response[q]
            /\ session'[q] = session[q] /\ admitted'[q] = admitted[q]
            /\ header'[q] = header[q]
        BY <1>1, <2>1, <3>2 DEF FInv, FrameTypeOK
      <4> QED
        BY <1>1, <4>1 DEF FInv, Gated, Clean, Secret, OnAdminList
    <3> QED
      BY <3>1, <3>2
  <2> QED
    BY <1>1, <2>2, <2>3 DEF FInv
<1> QED
  BY <1>2, <1>3, <1>4 DEF Verify

\* A request that arrives has not been admitted yet.
LEMMA ArriveKeeps ==
  ASSUME FInv, NEW s \in Slots, NEW r \in Routes, NEW h \in Tokens \cup {None},
         Arrive(s, r, h)
  PROVE  FInv'
<1>1. /\ pc[s] = "idle"
      /\ r = "list" =>
           /\ listing[s] # None
           /\ h # None => h.sub = listing[s].wallet
      /\ route' = [route EXCEPT ![s] = r]
      /\ header' = [header EXCEPT ![s] = IF r \in Open THEN None ELSE h]
      /\ pc' = [pc EXCEPT ![s] = IF r \in Open THEN "handler" ELSE "verify"]
      /\ UNCHANGED <<config, now, boot, response, session, admitted, upstream,
                     listing>>
  BY DEF Arrive, GoOn, GoTo, environment, logVars, client
<1>2. FrameTypeOK'
  BY <1>1 DEF FInv, FrameTypeOK
<1>3. ASSUME NEW q \in Slots PROVE Gated(q)'
  <2>1. CASE q = s
    <3>1. /\ pc'[q] = IF r \in Open THEN "handler" ELSE "verify"
          /\ route'[q] = r /\ header'[q] = IF r \in Open THEN None ELSE h
      BY <1>1, <2>1 DEF FInv, FrameTypeOK
    <3> QED
      BY <1>1, <2>1, <3>1 DEF FInv, Gated, Clean, Open
  <2>2. CASE q # s
    <3>1. pc'[q] = pc[q] /\ route'[q] = route[q] /\ header'[q] = header[q]
      BY <1>1, <2>2 DEF FInv, FrameTypeOK
    <3> QED
      BY <1>1, <3>1 DEF FInv, Gated, Clean, Secret, OnAdminList
  <2> QED
    BY <2>1, <2>2
<1> QED
  BY <1>1, <1>2, <1>3 DEF FInv

\* The proxy looks at every call before it sends any.
LEMMA ServeRpcKeeps ==
  ASSUME FInv, NEW s \in Slots, ServeRpc(s)
  PROVE  FInv'
<1>1. /\ pc[s] = "handler" /\ route[s] = "rpc"
      /\ UNCHANGED <<config, now, boot, route, header, listing>>
  BY DEF ServeRpc, environment, logVars, client
<1>2. ASSUME NEW status \in {200, 400}, Respond(s, Plain(status)),
             UNCHANGED upstream
      PROVE  FInv'
  <2>1. Plain(status) \in Responses /\ Clean(Plain(status))
    BY PlainClean
  <2> QED
    BY <1>1, <1>2, <2>1, Responds
<1>3. ASSUME NEW p \in Payloads, Allowed(p), upstream' = upstream \cup {p},
             GoOn(s, "upstream")
      PROVE  FInv'
  <2>1. /\ pc' = [pc EXCEPT ![s] = "upstream"]
        /\ UNCHANGED <<response, session, admitted>>
    BY <1>3 DEF GoOn, GoTo
  <2>2. FrameTypeOK'
    BY <1>1, <1>3, <2>1 DEF FInv, FrameTypeOK
  <2>3. \A q \in Slots : Gated(q)'
    BY <1>1, <2>1 DEF FInv, FrameTypeOK, Gated, Clean, Secret, OnAdminList
  <2>4. \A x \in upstream' : \A i \in 1..Len(x) : x[i] \in ALLOWED_METHODS
    BY <1>3 DEF FInv, Allowed
  <2> QED
    BY <2>2, <2>3, <2>4 DEF FInv
<1> QED
  BY <1>2, <1>3 DEF ServeRpc

\* The handlers that only answer.
LEMMA ServeKeeps ==
  ASSUME FInv, NEW s \in Slots, UNCHANGED listing,
         \/ ServeList(s) \/ ServeAdmin(s) \/ FailToServe(s)
         \/ Relay(s) \/ Pay(s)
  PROVE  FInv'
<1>1. UNCHANGED <<config, now, boot, route, header, upstream>>
  BY DEF ServeList, ServeAdmin, FailToServe, Relay, Pay, environment
<1>2. ASSUME NEW a \in Responses, Clean(a), Respond(s, a) PROVE FInv'
  BY <1>1, <1>2, Responds
<1>3. \E a : Respond(s, a) /\ a \in Responses /\ Clean(a)
  <2>1. ASSUME NEW n \in {200, 500, 502, 503}
        PROVE  /\ Plain(n) \in Responses /\ Clean(Plain(n))
               /\ APIError(n, "none", "raw", "none") \in Responses
               /\ Clean(APIError(n, "none", "raw", "none"))
    BY PlainClean
  <2>2. CASE ServeList(s) \/ ServeAdmin(s)
    <3>1. Respond(s, Plain(200))
      BY <2>2 DEF ServeList, ServeAdmin
    <3> QED
      BY <2>1, <3>1
  <2>3. CASE FailToServe(s)
    <3>1. Respond(s, Plain(500))
      BY <2>3 DEF FailToServe
    <3> QED
      BY <2>1, <3>1
  <2>4. CASE Relay(s)
    <3>1. PICK n \in {200, 500, 502, 503} :
            \/ Respond(s, Plain(n))
            \/ Respond(s, APIError(n, "none", "raw", "none"))
      BY <2>4 DEF Relay
    <3> QED
      BY <2>1, <3>1
  <2>5. CASE Pay(s)
    <3>1. CASE Respond(s, Plain(200))
      BY <2>1, <3>1
    <3>2. ASSUME NEW status \in ProviderStatuses, NEW fields \in Fields,
                 Respond(s, getAPIError(providerBundleRejected(status,
                                                               fields)))
          PROVE  \E a : Respond(s, a) /\ a \in Responses /\ Clean(a)
      <4>1. status \in Nat
        BY GatewayAssumption
      <4> QED
        BY <3>2, <4>1, ErrorsClean
    <3>3. ASSUME NEW fields \in Fields,
                 Respond(s, getAPIError(bundleSettlementFailed(fields)))
          PROVE  \E a : Respond(s, a) /\ a \in Responses /\ Clean(a)
      BY <3>3, ErrorsClean
    <3>4. CASE Respond(s, getAPIError(fromUnknown("internal")))
      BY <3>4, ErrorsClean
    <3> QED
      BY <2>5, <3>1, <3>2, <3>3, <3>4 DEF Pay
  <2> QED
    BY <2>2, <2>3, <2>4, <2>5
<1> QED
  BY <1>2, <1>3

\* An application goes on or is answered.
LEMMA ServeWaitlistKeeps ==
  ASSUME FInv, NEW s \in Slots, ServeWaitlist(s)
  PROVE  FInv'
<1>1. /\ pc[s] = "handler" /\ route[s] = "waitlist"
      /\ UNCHANGED <<config, now, boot, route, header, upstream, listing>>
  BY DEF ServeWaitlist, environment, logVars, client
<1>2. CASE GoOn(s, "handler")
  <2>1. UNCHANGED <<pc, response, session, admitted>>
    BY <1>1, <1>2 DEF GoOn, GoTo, FInv, FrameTypeOK
  <2> QED
    BY <1>1, <2>1 DEF FInv, FrameTypeOK, Gated, Clean, Secret, OnAdminList
<1>3. ASSUME NEW status \in {200, 500}, Respond(s, Plain(status)) PROVE FInv'
  <2>1. Plain(status) \in Responses /\ Clean(Plain(status))
    BY PlainClean
  <2> QED
    BY <1>1, <1>3, <2>1, Responds
<1> QED
  BY <1>2, <1>3 DEF ServeWaitlist

\* A connection that is free again has nothing to answer for.
LEMMA CloseKeeps ==
  ASSUME FInv, NEW s \in Slots, Close(s)
  PROVE  FInv'
<1>1. /\ pc' = [pc EXCEPT ![s] = "idle"]
      /\ route' = [route EXCEPT ![s] = None]
      /\ response' = [response EXCEPT ![s] = None]
      /\ UNCHANGED <<config, now, boot, header, session, admitted, upstream,
                     listing>>
  BY DEF Close, GoTo, environment, logVars, client
<1>2. FrameTypeOK'
  BY <1>1 DEF FInv, FrameTypeOK
<1>3. ASSUME NEW q \in Slots PROVE Gated(q)'
  <2>1. CASE q = s
    <3>1. pc'[q] = "idle" /\ response'[q] = None
      BY <1>1, <2>1 DEF FInv, FrameTypeOK
    <3> QED
      BY <3>1 DEF Gated, Clean
  <2>2. CASE q # s
    <3>1. /\ pc'[q] = pc[q] /\ route'[q] = route[q]
          /\ response'[q] = response[q]
      BY <1>1, <2>2 DEF FInv, FrameTypeOK
    <3> QED
      BY <1>1, <3>1 DEF FInv, Gated, Clean, Secret, OnAdminList
  <2> QED
    BY <2>1, <2>2
<1> QED
  BY <1>1, <1>2, <1>3 DEF FInv

\* A secret that changes finds nobody behind the gate.
LEMMA RestartKeeps ==
  ASSUME FInv, Restart
  PROVE  FInv'
<1>1. /\ boot < config.boots /\ boot' = boot + 1
      /\ pc' = [s \in Slots |-> "idle"]
      /\ route' = [s \in Slots |-> None]
      /\ header' = [s \in Slots |-> None]
      /\ session' = [s \in Slots |-> None]
      /\ admitted' = [s \in Slots |-> 0]
      /\ response' = [s \in Slots |-> None]
      /\ UNCHANGED <<config, now, upstream>>
  BY DEF Restart
<1>2. boot' \in 0..MaxBoots
  <2>1. config.boots \in 0..MaxBoots /\ MaxBoots \in Nat
    BY GatewayAssumption DEF FInv, FrameTypeOK
  <2> QED
    BY <1>1, <2>1 DEF FInv, FrameTypeOK
<1>3. FrameTypeOK'
  BY <1>1, <1>2, GatewayAssumption DEF FInv, FrameTypeOK
<1>4. \A s \in Slots : Gated(s)'
  BY <1>1 DEF Gated, Clean
<1> QED
  BY <1>1, <1>3, <1>4 DEF FInv

\* Nobody starts a listing in the middle of another.
LEMMA LogMovesKeeps ==
  ASSUME FInv, LInv, LogMoves
  PROVE  FInv'
<1>1. UNCHANGED <<config, now, boot, pc, route, header, session, admitted,
                  response, upstream>>
  BY DEF LogMoves, environment, frame
<1>2. \A s \in Slots : listing[s] # None => listing'[s] = listing[s]
  <2>1. ASSUME NEW w \in Wallets, Record(w) \/ Wipe(w)
        PROVE  UNCHANGED listing
    BY <2>1 DEF Record, Wipe, client
  <2>2. ASSUME NEW s \in Slots, StartListing(s), NEW q \in Slots,
               listing[q] # None
        PROVE  listing'[q] = listing[q]
    BY <2>2 DEF StartListing, LInv, LogTypeOK
  <2> QED
    BY <2>1, <2>2 DEF LogMoves
<1> QED
  BY <1>1, <1>2 DEF FInv, FrameTypeOK, Gated, Clean, Secret, OnAdminList

-----------------------------------------------------------------------------
(* The composition. *)

\* A request that lists a log lists that of its session, which is its own.
LEMMA ServeListOwn ==
  ASSUME FInv, NEW s \in Slots, ServeList(s)
  PROVE  /\ listing[s] # None /\ List(s, listing[s].wallet)
         /\ UNCHANGED <<listing, waitVars>>
<1>1. session[s].sub = listing[s].wallet /\ listing[s] # None
  BY DEF ServeList, FInv, Gated
<1> QED
  BY <1>1 DEF ServeList, List

\* Whatever the server does is a step of the waitlist, or none.
LEMMA WaitSteps == FInv /\ [GatewayNext]_gateVars => [WaitNext]_waitVars
<1> SUFFICES ASSUME FInv, [GatewayNext]_gateVars PROVE [WaitNext]_waitVars
  OBVIOUS
<1>1. ASSUME NEW s \in Slots, NEW r \in Routes, NEW h \in Granted \cup {None},
             Arrive(s, r, h)
      PROVE  [WaitNext]_waitVars
  BY <1>1 DEF Arrive, WaitNext
<1>2. ASSUME NEW s \in Slots, ServeWaitlist(s) PROVE WaitNext
  BY <1>2 DEF ServeWaitlist, WaitNext
<1>3. ASSUME NEW s \in Slots,
             \/ Verify(s) \/ ServeList(s) \/ ServeAdmin(s) \/ FailToServe(s)
             \/ ServeRpc(s) \/ Relay(s) \/ Pay(s) \/ Close(s)
      PROVE  UNCHANGED waitVars
  BY <1>3 DEF Verify, ServeList, ServeAdmin, FailToServe, ServeRpc, Relay,
              Pay, Close
<1>4. Restart => WaitNext
  BY DEF Restart, WaitNext
<1>5. Tick \/ LogMoves \/ UNCHANGED gateVars => UNCHANGED waitVars
  BY DEF Tick, LogMoves, gateVars
<1> QED
  BY <1>1, <1>2, <1>3, <1>4, <1>5 DEF GatewayNext, GatewayStep

\* Whatever the server does is a step of the log, or none: whoever lists
\* a log has been admitted as its owner.
LEMMA LogSteps == FInv /\ [GatewayNext]_gateVars => [LogNext]_logVars
<1> SUFFICES ASSUME FInv, [GatewayNext]_gateVars PROVE [LogNext]_logVars
  OBVIOUS
<1>1. ASSUME NEW s \in Slots, ServeList(s) PROVE LogNext
  BY <1>1, ServeListOwn DEF LogNext
<1>2. ASSUME NEW s \in Slots,
             \/ \E r \in Routes, h \in Granted \cup {None} : Arrive(s, r, h)
             \/ Verify(s) \/ ServeAdmin(s) \/ FailToServe(s)
             \/ ServeWaitlist(s) \/ ServeRpc(s) \/ Relay(s) \/ Pay(s)
             \/ Close(s)
      PROVE  UNCHANGED logVars
  BY <1>2 DEF Arrive, Verify, ServeAdmin, FailToServe, ServeWaitlist,
              ServeRpc, Relay, Pay, Close
<1>3. LogMoves => LogNext
  BY DEF LogMoves, LogNext
<1>4. Tick \/ Restart \/ UNCHANGED gateVars => UNCHANGED logVars
  BY DEF Tick, Restart, gateVars
<1> QED
  BY <1>1, <1>2, <1>3, <1>4 DEF GatewayNext, GatewayStep

\* Every step keeps what is known of the requests.
LEMMA FInvStep == FInv /\ LInv /\ [GatewayNext]_gateVars => FInv'
<1> SUFFICES ASSUME FInv, LInv, [GatewayNext]_gateVars PROVE FInv'
  OBVIOUS
<1>1. ASSUME NEW s \in Slots, GatewayStep(s) PROVE FInv'
  <2>1. ASSUME NEW r \in Routes, NEW h \in Granted \cup {None},
               Arrive(s, r, h)
        PROVE  FInv'
    BY <2>1, ArriveKeeps DEF Granted
  <2>2. CASE Verify(s)
    BY <2>2, VerifyKeeps DEF Verify, logVars, client
  <2>3. CASE \/ ServeList(s) \/ ServeAdmin(s) \/ FailToServe(s)
             \/ Relay(s) \/ Pay(s)
    <3>1. UNCHANGED listing
      BY <2>3, ServeListOwn
      DEF ServeAdmin, FailToServe, Relay, Pay, logVars, client
    <3> QED
      BY <2>3, <3>1, ServeKeeps
  <2> QED
    BY <1>1, <2>1, <2>2, <2>3, ServeWaitlistKeeps, ServeRpcKeeps, CloseKeeps
    DEF GatewayStep
<1>2. CASE Tick
  <2>1. /\ now < MaxClock /\ now' = now + 1
        /\ UNCHANGED <<config, boot, pc, route, header, session, admitted,
                       response, upstream, listing>>
    BY <1>2 DEF Tick, frame, logVars, client
  <2>2. now' \in 0..MaxClock
    BY <2>1, GatewayAssumption DEF FInv, FrameTypeOK
  <2> QED
    BY <2>1, <2>2 DEF FInv, FrameTypeOK, Gated, Clean, Secret, OnAdminList
<1>3. CASE UNCHANGED gateVars
  <2>1. UNCHANGED <<config, now, boot, pc, route, header, session, admitted,
                    response, upstream, listing>>
    BY <1>3 DEF gateVars, environment, frame, logVars, client
  <2> QED
    BY <2>1 DEF FInv, FrameTypeOK, Gated, Clean, Secret, OnAdminList
<1> QED
  BY <1>1, <1>2, <1>3, RestartKeeps, LogMovesKeeps DEF GatewayNext

GInv == WInv /\ LInv /\ FInv

\* The invariant of the server holds in every state: those of the waitlist
\* and of the log, and what is known of the requests.
THEOREM Invariance == GatewaySpec => []GInv
<1>1. GatewayInit => GInv
  BY WInvInit, LInvInit, FInvInit DEF GatewayInit, GInv
<1>2. GInv /\ [GatewayNext]_gateVars => GInv'
  BY WaitSteps, LogSteps, WInvStep, LInvStep, FInvStep DEF GInv
<1> QED
  BY <1>1, <1>2, PTL DEF GatewaySpec

\* Types of the tables, of the requests and of what clients have got.
THEOREM TypeCorrect == GatewaySpec => []GatewayTypeOK
<1>1. GInv => GatewayTypeOK
  BY DEF GInv, WInv, LInv, FInv, FrameTypeOK, GatewayTypeOK
<1> QED
  BY <1>1, Invariance, PTL

\* Nobody is behind the gate without a token in force, or upstream with a call
\* that is not allowed.
THEOREM GateIsKept == GatewaySpec => []GateKept
<1>1. GInv => GateKept
  BY DEF GInv, FInv, Gated, GateKept
<1> QED
  BY <1>1, Invariance, PTL

\* Pages hold rows of the client's own wallet.
THEOREM OwnRows == GatewaySpec => []OwnRowsOnly
<1>1. GInv => OwnRowsOnly
  BY DEF GInv, LInv, Follows, OwnRowsOnly
<1> QED
  BY <1>1, Invariance, PTL

\* Pages of any length, over a log of any length that grows meanwhile, miss
\* nothing that was there.
THEOREM PagesSkipNothing == GatewaySpec => []NothingSkipped
<1>1. GInv => NothingSkipped
  BY DEF GInv, LInv, Follows, NothingSkipped
<1> QED
  BY <1>1, Invariance, PTL

\* Whatever a provider answers, the error pipeline lets none of its raw body
\* through, nor a status that clients do not know.
THEOREM PipelineIsClean == GatewaySpec => []ErrorsAreClean
<1>1. GInv => ErrorsAreClean
  BY DEF GInv, FInv, Gated, Clean, ErrorsAreClean
<1> QED
  BY <1>1, Invariance, PTL

\* The unique index makes up for the look-up that may be out of date.
THEOREM WalletsAreListedOnce == GatewaySpec => []ListedOnce
<1>1. GInv => ListedOnce
  BY DEF GInv, WInv
<1> QED
  BY <1>1, Invariance, PTL
=============================================================================
