------------------------- MODULE UtxoIndexesProofs --------------------------
(***************************************************************************)
(* Theorems about UtxoIndexes, for every number of calls, every batch size *)
(* and every length of the terminating run.                                *)
(*                                                                         *)
(* The indexes a call holds either fit, that is they and the created ones  *)
(* together form a prefix, or one of them has been created, and then no    *)
(* bundle of them settles (Fits).  A scan keeps this because what lies     *)
(* behind it is created or in its hands (Covered).  That needs clients     *)
(* that propose what they were offered (Custom = {}); types and the number *)
(* of indexes a search finds do not.                                       *)
(***************************************************************************)
EXTENDS UtxoIndexes, FiniteSetTheorems, TLAPS

Fits(s) == s \cap created # {} \/ DownClosed(created \cup s)

Finite ==
  /\ \A o \in offers : IsFiniteSet(o)
  /\ \A c \in Calls : IsFiniteSet(out[c])

Shape ==
  /\ Contiguous
  /\ \A o \in offers : Fits(o)
  /\ \A c \in Calls : Fits(out[c])

Covered(c) ==
  stage[c] \in Searching =>
    \A j \in Nat : j < next[c] => j \in created \cup out[c]

\* A walk has counted what was funded all along and lies behind it.
Behind(c) ==
  stage[c] = "balance" =>
    \A j \in atStart[c] \cap funded : j < next[c] => j \in counted[c]

\* A call that has not read the channel yet has seen nothing created.
Unread(c) ==
  /\ stage[c] \in {"idle", "validate"} => atStart[c] = {}
  /\ stage[c] = "idle" => out[c] = {}

Basic == TypeOK /\ Finite

IInv ==
  /\ Basic /\ Shape /\ BalanceComplete /\ FoundWereFree
  /\ \A c \in Calls : Covered(c) /\ Behind(c) /\ Unread(c)

-----------------------------------------------------------------------------
(* What a scan finds. *)

\* The indexes of a batch and their number.
LEMMA BatchFacts ==
  ASSUME TypeOK, NEW c \in Calls
  PROVE  /\ LastOf(c) \in Nat /\ next[c] <= LastOf(c)
         /\ Scanned(c) \subseteq Nat /\ IsFiniteSet(Scanned(c))
         /\ FreeIn(c) \subseteq Nat /\ IsFiniteSet(FreeIn(c))
         /\ RunAfter(c) \in Nat
<1>1. next[c] \in Nat /\ run[c] \in Nat
  BY DEF TypeOK
<1>2. LastOf(c) \in Nat /\ next[c] <= LastOf(c)
  BY <1>1, SizesAssumption DEF LastOf
<1>3. Scanned(c) \subseteq Nat /\ IsFiniteSet(Scanned(c))
  <2>1. Scanned(c) \subseteq Nat
    BY <1>1, <1>2 DEF Scanned
  <2>2. next[c] \in Int /\ LastOf(c) \in Int
    BY <1>1, <1>2
  <2>3. IsFiniteSet(next[c]..LastOf(c))
    BY <2>2, FS_Interval
  <2> QED
    BY <2>1, <2>3 DEF Scanned
<1>4. FreeIn(c) \subseteq Nat /\ IsFiniteSet(FreeIn(c))
  BY <1>3, FS_Subset DEF FreeIn
<1> DEFINE tail == {k \in Scanned(c) : (k..LastOf(c)) \cap created = {}}
<1>5. Cardinality(tail) \in Nat
  BY <1>3, FS_Subset, FS_CardinalityType
<1>6. RunAfter(c) \in Nat
  BY <1>1, <1>5, SizesAssumption DEF RunAfter
<1> QED
  BY <1>2, <1>3, <1>4, <1>6

\* Whatever part of the free indexes ahead a scan takes, it fits if it
\* leaves no free one below out.
LEMMA ScanFits ==
  ASSUME IInv, NEW c \in Calls, stage[c] \in Searching,
         NEW s \in SUBSET Nat,
         \A i \in s, j \in Nat :
           next[c] <= j /\ j < i => j \in created \cup s
  PROVE  Fits(out[c] \cup s)
<1>1. CASE out[c] \cap created # {}
  BY <1>1 DEF Fits
<1>2. CASE out[c] \cap created = {}
  <2>1. DownClosed(created \cup out[c])
    BY <1>2 DEF IInv, Shape, Fits
  <2>2. ASSUME NEW i \in s, NEW j \in 0..i
        PROVE  j \in created \cup out[c] \cup s
    <3>1. i \in Nat /\ j \in Nat /\ next[c] \in Nat
      BY DEF IInv, Basic, TypeOK
    <3>2. CASE j < next[c]
      BY <3>1, <3>2 DEF IInv, Covered
    <3>3. CASE j >= next[c]
      BY <3>1, <3>3
    <3> QED
      BY <3>1, <3>2, <3>3
  <2>3. DownClosed(created \cup out[c] \cup s)
    BY <2>1, <2>2 DEF DownClosed
  <2>4. created \cup (out[c] \cup s) = created \cup out[c] \cup s
    OBVIOUS
  <2> QED
    BY <2>3, <2>4 DEF Fits
<1> QED
  BY <1>1, <1>2

\* The lowest free indexes of a batch.
LEMMA LowestFits ==
  ASSUME IInv, NEW c \in Calls, stage[c] \in Searching
  PROVE  /\ Fits(out[c] \cup Lowest(c))
         /\ Lowest(c) \subseteq FreeIn(c)
<1> DEFINE upto(k) == out[c] \cup {j \in FreeIn(c) : j <= k}
<1>1. /\ next[c] \in Nat /\ need[c] \in Nat
      /\ IsFiniteSet(out[c]) /\ IsFiniteSet(FreeIn(c))
      /\ FreeIn(c) \subseteq Nat
  BY BatchFacts DEF IInv, Basic, TypeOK, Finite
<1>2. ASSUME NEW i \in Lowest(c), NEW j \in Nat, next[c] <= j, j < i
      PROVE  j \in created \cup Lowest(c)
  <2>1. i \in FreeIn(c) /\ Cardinality(upto(i)) <= need[c]
    BY DEF Lowest
  <2>2. j \in Scanned(c)
    BY <1>1, <1>2, <2>1, BatchFacts DEF IInv, Basic, FreeIn, Scanned
  <2>3. CASE j \in FreeIn(c)
    <3>1. IsFiniteSet(upto(i))
      <4>1. IsFiniteSet({k \in FreeIn(c) : k <= i})
        BY <1>1, FS_Subset
      <4> QED
        BY <1>1, <4>1, FS_Union
    <3>2. upto(j) \in SUBSET upto(i)
      BY <1>1, <1>2, <2>1
    <3>3. /\ Cardinality(upto(j)) <= Cardinality(upto(i))
          /\ IsFiniteSet(upto(j))
      BY <3>1, <3>2, FS_Subset
    <3>4. Cardinality(upto(j)) \in Nat /\ Cardinality(upto(i)) \in Nat
      BY <3>1, <3>3, FS_CardinalityType
    <3>5. Cardinality(upto(j)) <= need[c]
      BY <1>1, <2>1, <3>3, <3>4
    <3> QED
      BY <2>3, <3>5 DEF Lowest
  <2> QED
    BY <2>2, <2>3 DEF FreeIn
<1>3. Lowest(c) \subseteq FreeIn(c)
  BY DEF Lowest
<1> QED
  BY <1>1, <1>2, <1>3, ScanFits

\* All free indexes of a batch, and any number of indexes behind it.
LEMMA FillFits ==
  ASSUME IInv, NEW c \in Calls, stage[c] \in Searching, NEW n \in Int
  PROVE  /\ Fits(out[c] \cup FreeIn(c))
         /\ Fits(out[c] \cup FreeIn(c) \cup (LastOf(c) + 1)..n)
<1> DEFINE fill == (LastOf(c) + 1)..n
<1>1. /\ next[c] \in Nat /\ LastOf(c) \in Nat /\ next[c] <= LastOf(c)
      /\ FreeIn(c) \subseteq Nat
  BY BatchFacts DEF IInv, Basic, TypeOK
<1>2. \A j \in Nat : next[c] <= j /\ j <= LastOf(c)
                   => j \in created \cup FreeIn(c)
  BY <1>1 DEF FreeIn, Scanned
<1>3. \A i \in FreeIn(c) : i <= LastOf(c)
  BY <1>1 DEF FreeIn, Scanned
<1>4. Fits(out[c] \cup FreeIn(c))
  BY <1>1, <1>2, <1>3, ScanFits
<1>5. fill \subseteq Nat
  BY <1>1
<1>6. ASSUME NEW i \in FreeIn(c) \cup fill, NEW j \in Nat, next[c] <= j, j < i
      PROVE  j \in created \cup (FreeIn(c) \cup fill)
  <2>1. CASE j <= LastOf(c)
    BY <1>2, <1>6, <2>1
  <2>2. CASE j > LastOf(c)
    BY <1>1, <1>3, <1>6, <2>2
  <2> QED
    BY <1>1, <2>1, <2>2
<1>7. Fits(out[c] \cup (FreeIn(c) \cup fill))
  BY <1>1, <1>5, <1>6, ScanFits
<1>8. out[c] \cup (FreeIn(c) \cup fill) = out[c] \cup FreeIn(c) \cup fill
  OBVIOUS
<1> QED
  BY <1>4, <1>7, <1>8

-----------------------------------------------------------------------------
(* Types, whatever clients propose. *)

\* Nothing is offered or held yet.
LEMMA BasicInit == Init => Basic
  BY FS_EmptySet DEF Init, Basic, TypeOK, Finite, InFlight, Searching

\* A call that comes to hold or offer a finite set.
LEMMA HoldFinite ==
  ASSUME Basic, NEW c \in Calls, NEW s, IsFiniteSet(s),
         out' = [out EXCEPT ![c] = s],
         offers' = offers \/ offers' = offers \cup {s}
  PROVE  Finite'
<1>1. \A d \in Calls : out'[d] = s \/ out'[d] = out[d]
  BY DEF Basic, TypeOK
<1> QED
  BY <1>1 DEF Basic, Finite

\* The sets a search may end with: finite sets of numbers.
LEMMA SearchSets ==
  ASSUME Basic, NEW c \in Calls
  PROVE  LET some == out[c] \cup FreeIn(c)
             top == LastOf(c) + (need[c] - Cardinality(some))
         IN /\ some \in SUBSET Nat /\ IsFiniteSet(some)
            /\ Cardinality(some) \in Nat
            /\ out[c] \cup Lowest(c) \in SUBSET Nat
            /\ IsFiniteSet(out[c] \cup Lowest(c))
            /\ top \in Int
            /\ some \cup (LastOf(c) + 1)..top \in SUBSET Nat
            /\ IsFiniteSet(some \cup (LastOf(c) + 1)..top)
<1> DEFINE some == out[c] \cup FreeIn(c)
           top == LastOf(c) + (need[c] - Cardinality(some))
<1>1. /\ out[c] \in SUBSET Nat /\ IsFiniteSet(out[c]) /\ need[c] \in Nat
      /\ FreeIn(c) \in SUBSET Nat /\ IsFiniteSet(FreeIn(c))
      /\ LastOf(c) \in Nat
  BY BatchFacts DEF Basic, TypeOK, Finite
<1>2. some \in SUBSET Nat /\ IsFiniteSet(some) /\ Cardinality(some) \in Nat
  BY <1>1, FS_Union, FS_CardinalityType
<1>3. Lowest(c) \in SUBSET FreeIn(c)
  BY DEF Lowest
<1>4. /\ out[c] \cup Lowest(c) \in SUBSET Nat
      /\ IsFiniteSet(out[c] \cup Lowest(c))
  BY <1>1, <1>3, FS_Subset, FS_Union
<1>5. top \in Int
  BY <1>1, <1>2
<1>6. LastOf(c) + 1 \in Int /\ (LastOf(c) + 1)..top \in SUBSET Nat
  BY <1>1, <1>5
<1>7. IsFiniteSet((LastOf(c) + 1)..top)
  BY <1>5, <1>6, FS_Interval, Zenon
<1>8. /\ some \cup (LastOf(c) + 1)..top \in SUBSET Nat
      /\ IsFiniteSet(some \cup (LastOf(c) + 1)..top)
  BY <1>2, <1>6, <1>7, FS_Union
<1> QED
  BY <1>2, <1>4, <1>5, <1>8

\* The steps of a search.
LEMMA SearchTypes ==
  ASSUME Basic, NEW c \in Calls, Search(c)
  PROVE  Basic'
<1>1. ASSUME NEW s \in SUBSET Nat, IsFiniteSet(s), Found(c, s),
             UNCHANGED <<chain, next, run, need, walk>>
      PROVE  Basic'
  <2>1. TypeOK'
    BY <1>1
    DEF Basic, TypeOK, Found, GoTo, InFlight, Searching, chain, walk
  <2>2. Finite'
    BY <1>1, HoldFinite DEF Found
  <2> QED
    BY <2>1, <2>2 DEF Basic
<1>2. CASE FindEnough(c)
  BY <1>1, <1>2, SearchSets DEF FindEnough
<1>3. CASE FillUp(c)
  BY <1>1, <1>3, SearchSets DEF FillUp
<1>4. CASE ReadOn(c)
  <2> DEFINE some == out[c] \cup FreeIn(c)
  <2>1. some \in SUBSET Nat /\ IsFiniteSet(some)
    BY SearchSets
  <2>2. /\ out' = [out EXCEPT ![c] = some] /\ UNCHANGED offers
        /\ run' = [run EXCEPT ![c] = RunAfter(c)]
        /\ next' = [next EXCEPT ![c] = @ + Batch]
        /\ UNCHANGED <<chain, offers, stage, need, walk>>
    BY <1>4 DEF ReadOn
  <2>3. RunAfter(c) \in Nat /\ next[c] + Batch \in Nat
    BY BatchFacts, SizesAssumption DEF Basic, TypeOK
  <2>4. TypeOK'
    BY <2>1, <2>2, <2>3 DEF Basic, TypeOK, chain, walk
  <2>5. Finite'
    BY <2>1, <2>2, HoldFinite
  <2> QED
    BY <2>4, <2>5 DEF Basic
<1> QED
  BY <1>2, <1>3, <1>4 DEF Search

\* The steps that begin a payment or check a proposal.
LEMMA PayTypes ==
  ASSUME Basic, NEW c \in Calls,
         \/ Prepare(c) \/ Validate(c)
         \/ \E o \in Proposals : Execute(c, o) \/ Submit(c, o)
  PROVE  Basic'
<1>1. \A o \in Proposals :
        o \in SUBSET Nat /\ IsFiniteSet(o) /\ Cardinality(o) \in Nat
  <2>1. \A o \in Proposals : o \in SUBSET Nat /\ IsFiniteSet(o)
    BY CustomAssumption DEF Proposals, Basic, TypeOK, Finite
  <2> QED
    BY <2>1, FS_CardinalityType
<1>2. ASSUME NEW o \in Proposals, Execute(c, o) \/ Submit(c, o)
      PROVE  Basic'
  <2>1. CASE Execute(c, o)
    BY <1>1, <2>1, HoldFinite
    DEF Basic, TypeOK, Execute, GoTo, InFlight, chain, walk
  <2>2. CASE Submit(c, o)
    BY <1>1, <2>2, HoldFinite
    DEF Basic, TypeOK, Submit, GoTo, InFlight, chain, walk
  <2> QED
    BY <1>2, <2>1, <2>2
<1>3. CASE Prepare(c) \/ Validate(c)
  <2>1. PICK s \in {{}, out[c]} : out' = [out EXCEPT ![c] = s]
    BY <1>3 DEF Prepare, Validate, Basic, TypeOK
  <2>2. s \in SUBSET Nat /\ IsFiniteSet(s) /\ UNCHANGED offers
    BY <1>3, <2>1, FS_EmptySet
    DEF Prepare, Validate, Basic, TypeOK, Finite
  <2>3. Finite'
    BY <2>1, <2>2, HoldFinite
  <2>4. TypeOK'
    <3>1. CASE Prepare(c)
      BY <2>1, <2>2, <3>1, SizesAssumption
      DEF Basic, TypeOK, Prepare, Rewind, GoTo, InFlight, Searching, chain
    <3>2. CASE Validate(c)
      BY <2>1, <2>2, <3>2
      DEF Basic, TypeOK, Validate, Rewind, GoTo, InFlight, Searching, chain
    <3> QED
      BY <1>3, <3>1, <3>2
  <2> QED
    BY <2>3, <2>4 DEF Basic
<1> QED
  BY <1>2, <1>3

\* The steps of a balance walk.
LEMMA WalkTypes ==
  ASSUME Basic, NEW c \in Calls, Balance(c) \/ WalkOn(c) \/ WalkEnds(c)
  PROVE  Basic'
<1>1. UNCHANGED <<chain, offers, out, need>>
  BY DEF Balance, WalkOn, WalkEnds
<1>2. Finite'
  BY <1>1 DEF Basic, Finite
<1>3. CASE Balance(c)
  BY <1>1, <1>2, <1>3
  DEF Balance, Rewind, GoTo, Basic, TypeOK, InFlight, chain
<1>4. CASE WalkOn(c)
  <2>1. RunAfter(c) \in Nat /\ next[c] + Batch \in Nat
    BY BatchFacts, SizesAssumption DEF Basic, TypeOK
  <2>2. next' \in [Calls -> Nat] /\ run' \in [Calls -> Nat]
    BY <1>4, <2>1 DEF WalkOn, Basic, TypeOK
  <2>3. counted' \in [Calls -> SUBSET created]
    BY <1>4 DEF WalkOn, Basic, TypeOK
  <2> QED
    BY <1>1, <1>2, <1>4, <2>2, <2>3 DEF WalkOn, Basic, TypeOK, chain
<1>5. CASE WalkEnds(c)
  <2>1. PICK k \in Scanned(c) :
          counted' = [counted EXCEPT ![c] = @ \cup (funded \cap next[c]..k)]
    BY <1>5 DEF WalkEnds
  <2>2. counted' \in [Calls -> SUBSET created]
    BY <2>1 DEF Basic, TypeOK
  <2> QED
    BY <1>1, <1>2, <1>5, <2>2
    DEF WalkEnds, GoTo, Basic, TypeOK, InFlight, chain
<1> QED
  BY <1>3, <1>4, <1>5

\* Every step keeps the types.
LEMMA BasicStep == Basic /\ [Next]_vars => Basic'
<1> SUFFICES ASSUME Basic, [Next]_vars PROVE Basic'
  OBVIOUS
<1>1. ASSUME NEW c \in Calls, Settle(c) PROVE Basic'
  BY <1>1 DEF Settle, GoTo, Basic, TypeOK, Finite, InFlight, walk
<1>2. ASSUME NEW c \in Calls, Abandon(c) PROVE Basic'
  BY <1>2 DEF Abandon, GoTo, Basic, TypeOK, Finite, InFlight, chain, walk
<1>3. ASSUME NEW i \in funded, Spend(i) PROVE Basic'
  BY <1>3 DEF Spend, Basic, TypeOK, Finite, walk
<1>4. CASE UNCHANGED vars
  BY <1>4 DEF vars, chain, walk, Basic, TypeOK, Finite
<1> QED
  BY <1>1, <1>2, <1>3, <1>4, SearchTypes, PayTypes, WalkTypes DEF Next

-----------------------------------------------------------------------------
(* The invariant. *)

\* Nothing is created and every call is idle: the invariant holds.
LEMMA InvInit == Init => IInv
  BY BasicInit
  DEF Init, IInv, Shape, Contiguous, DownClosed, Fits,
      BalanceComplete, FoundWereFree, Covered, Behind, Unread, Searching

\* A step that leaves the channel alone and changes what one call holds
\* keeps the shape, if what it holds and offers now fits.
LEMMA HoldStep ==
  ASSUME IInv, UNCHANGED created, NEW c \in Calls, NEW s \in SUBSET Nat,
         Fits(s),
         out' = [out EXCEPT ![c] = s],
         offers' = offers \/ offers' = offers \cup {s}
  PROVE  Shape'
<1>1. \A o : Fits(o)' <=> Fits(o)
  BY DEF Fits, DownClosed
<1>2. Contiguous'
  BY DEF IInv, Shape, Contiguous, DownClosed
<1>3. \A d \in Calls : out'[d] = s \/ out'[d] = out[d]
  BY DEF IInv, Basic, TypeOK
<1>4. \A o \in offers' : Fits(o)
  BY DEF IInv, Shape
<1>5. \A d \in Calls : Fits(out'[d])
  BY <1>3 DEF IInv, Shape
<1> QED
  BY <1>1, <1>2, <1>4, <1>5 DEF Shape

\* A step that leaves channel, offers and destinations alone.
LEMMA IdleStep ==
  ASSUME IInv, UNCHANGED <<created, offers, out>>
  PROVE  Shape'
  BY DEF IInv, Shape, Contiguous, Fits, DownClosed

\* Behind a batch that ends in a free run nothing has been created.
LEMMA NothingBehind ==
  ASSUME IInv, NEW c \in Calls, RunAfter(c) >= Run
  PROVE  \A j \in created : j < LastOf(c)
<1> DEFINE tail == {k \in Scanned(c) : (k..LastOf(c)) \cap created = {}}
<1>1. LastOf(c) \in Nat /\ Scanned(c) \subseteq Nat
  BY BatchFacts DEF IInv, Basic
<1>2. tail # {}
  <2> SUFFICES ASSUME tail = {} PROVE FALSE
    OBVIOUS
  <2>1. Cardinality(tail) = 0
    BY FS_EmptySet, Zenon
  <2>2. RunAfter(c) = 0
    BY <2>1, SizesAssumption DEF RunAfter
  <2> QED
    BY <2>2, SizesAssumption
<1>3. PICK k \in tail : TRUE
  BY <1>2
<1>4. LastOf(c) \in k..LastOf(c)
  BY <1>1, <1>3 DEF Scanned
<1>5. LastOf(c) \notin created
  BY <1>3, <1>4
<1>6. ASSUME NEW j \in created, j >= LastOf(c) PROVE FALSE
  <2>1. j \in Nat
    BY DEF IInv, Basic, TypeOK
  <2>2. LastOf(c) \in 0..j
    BY <1>1, <1>6, <2>1
  <2> QED
    BY <1>5, <2>2 DEF IInv, Shape, Contiguous, DownClosed
<1> QED
  BY <1>1, <1>6 DEF IInv, Basic, TypeOK

\* The steps of a scan.
LEMMA SearchStep ==
  ASSUME IInv, Basic', NEW c \in Calls, Search(c)
  PROVE  IInv'
<1> DEFINE some == out[c] \cup FreeIn(c)
<1>1. /\ stage[c] \in Searching /\ UNCHANGED <<chain, need, walk>>
      /\ atStart[c] \subseteq created /\ out[c] \cap atStart[c] = {}
      /\ FreeIn(c) \cap created = {}
  BY DEF Search, FindEnough, FillUp, ReadOn, IInv, Basic, TypeOK,
         FoundWereFree, FreeIn
<1>2. some \in SUBSET Nat /\ some \cap atStart[c] = {}
  BY <1>1, SearchSets DEF IInv
<1>3. ASSUME NEW s \in SUBSET Nat, Fits(s), Found(c, s),
             s \cap atStart[c] = {},
             UNCHANGED <<chain, next, run, need, walk>>
      PROVE  IInv'
  <2>1. Shape'
    BY <1>3, HoldStep DEF Found, chain
  <2>2. \A d \in Calls :
          /\ stage'[d] = stage[d] \/ stage'[d] \in {"done", "posted"}
          /\ d # c => out'[d] = out[d]
          /\ stage'[c] \in {"done", "posted"} /\ out'[c] = s
    BY <1>3 DEF Found, GoTo, IInv, Basic, TypeOK
  <2>3. BalanceComplete' /\ FoundWereFree'
    BY <1>3, <2>2 DEF IInv, BalanceComplete, FoundWereFree, chain, walk
  <2>4. \A d \in Calls : Covered(d)' /\ Behind(d)' /\ Unread(d)'
    BY <1>3, <2>2
    DEF IInv, Covered, Behind, Unread, Searching, chain, walk
  <2> QED
    BY <2>1, <2>3, <2>4 DEF IInv
<1>4. CASE FindEnough(c)
  <2> DEFINE s == out[c] \cup Lowest(c)
  <2>1. Lowest(c) \in SUBSET FreeIn(c) /\ Fits(s) /\ s \in SUBSET Nat
    BY <1>1, LowestFits, SearchSets DEF IInv
  <2>2. s \cap atStart[c] = {}
    BY <1>1, <2>1
  <2> QED
    BY <1>3, <1>4, <2>1, <2>2 DEF FindEnough
<1>5. CASE FillUp(c)
  <2> DEFINE last == LastOf(c)
             top == LastOf(c) + (need[c] - Cardinality(some))
             s == some \cup (last + 1)..top
  <2>1. last \in Nat /\ top \in Int /\ s \in SUBSET Nat
    BY BatchFacts, SearchSets DEF IInv, Basic
  <2>2. Fits(s)
    BY <1>1, <2>1, FillFits
  <2>3. \A j \in created : j < last
    BY <1>5, NothingBehind DEF FillUp
  <2>4. (last + 1)..top \cap created = {}
    BY <2>1, <2>3
  <2>5. s \cap atStart[c] = {}
    BY <1>1, <1>2, <2>4
  <2> QED
    BY <1>3, <1>5, <2>1, <2>2, <2>5 DEF FillUp
<1>6. CASE ReadOn(c)
  <2>1. Fits(some)
    <3>1. 0 \in Int
      OBVIOUS
    <3> QED
      BY <1>1, <3>1, FillFits, Zenon
  <2>2. /\ out' = [out EXCEPT ![c] = some] /\ UNCHANGED <<offers, stage>>
        /\ next' = [next EXCEPT ![c] = @ + Batch]
    BY <1>6 DEF ReadOn
  <2>3. Shape'
    BY <1>1, <1>2, <2>1, <2>2, HoldStep DEF chain
  <2>4. /\ out'[c] = some /\ next'[c] = next[c] + Batch /\ next[c] \in Nat
        /\ \A d \in Calls : d # c => out'[d] = out[d] /\ next'[d] = next[d]
    BY <2>2 DEF IInv, Basic, TypeOK
  <2>5. BalanceComplete' /\ FoundWereFree'
    BY <1>1, <1>2, <2>2, <2>4
    DEF IInv, BalanceComplete, FoundWereFree, chain, walk
  <2>6. \A d \in Calls : Behind(d)' /\ Unread(d)'
    BY <1>1, <2>2, <2>4
    DEF IInv, Behind, Unread, Searching, chain, walk
  <2>7. ASSUME NEW j \in Nat, j < next'[c]
        PROVE  j \in created' \cup out'[c]
    <3>1. CASE j < next[c]
      BY <1>1, <2>4, <3>1 DEF IInv, Covered, chain
    <3>2. CASE j >= next[c]
      BY <1>1, <2>4, <2>7, <3>2, SizesAssumption
      DEF FreeIn, Scanned, LastOf, chain
    <3> QED
      BY <2>4, <3>1, <3>2
  <2>8. \A d \in Calls : Covered(d)'
    BY <1>1, <2>2, <2>4, <2>7 DEF IInv, Covered, chain
  <2> QED
    BY <2>3, <2>5, <2>6, <2>8 DEF IInv
<1> QED
  BY <1>4, <1>5, <1>6 DEF Search

\* The two steps that take over what a client proposes.
LEMMA ProposeStep ==
  ASSUME IInv, Basic', Custom = {}, NEW c \in Calls, NEW o \in Proposals,
         Execute(c, o) \/ Submit(c, o)
  PROVE  IInv'
<1>1. o \in SUBSET Nat /\ Fits(o)
  BY DEF Proposals, IInv, Basic, TypeOK, Shape
<1>2. Shape'
  BY <1>1, HoldStep DEF Execute, Submit, chain
<1>3. stage[c] = "idle" /\ stage'[c] \in {"validate", "posted"}
  BY DEF Execute, Submit, GoTo, IInv, Basic, TypeOK
<1>4. \A d \in Calls : d # c => stage'[d] = stage[d] /\ out'[d] = out[d]
  BY DEF Execute, Submit, GoTo, IInv, Basic, TypeOK
<1>5. UNCHANGED <<created, funded, next, counted, atStart>>
  BY DEF Execute, Submit, chain, walk
<1>6. atStart[c] = {}
  BY <1>3 DEF IInv, Unread
<1>7. BalanceComplete' /\ FoundWereFree'
  BY <1>3, <1>4, <1>5, <1>6 DEF IInv, BalanceComplete, FoundWereFree
<1>8. \A d \in Calls : Covered(d)' /\ Behind(d)' /\ Unread(d)'
  BY <1>3, <1>4, <1>5, <1>6
  DEF IInv, Covered, Behind, Unread, Searching
<1> QED
  BY <1>2, <1>7, <1>8 DEF IInv

\* Starting to prepare, and checking a proposal.
LEMMA RewindStep ==
  ASSUME IInv, Basic', NEW c \in Calls, Prepare(c) \/ Validate(c)
  PROVE  IInv'
<1>1. PICK s : /\ s = {} \/ s = out[c]
               /\ out' = [out EXCEPT ![c] = s]
  BY DEF Prepare, Validate, IInv, Basic, TypeOK
<1>2. s \in SUBSET Nat /\ Fits(s)
  <2>1. s \in SUBSET Nat
    BY <1>1 DEF IInv, Basic, TypeOK
  <2>2. created \cup {} = created
    OBVIOUS
  <2>3. Fits({}) /\ Fits(out[c])
    BY <2>2 DEF IInv, Shape, Contiguous, Fits
  <2>4. CASE s = {}
    BY <2>1, <2>3, <2>4, Zenon
  <2>5. CASE s = out[c]
    BY <2>1, <2>3, <2>5, Zenon
  <2> QED
    BY <1>1, <2>4, <2>5
<1>3. Shape'
  BY <1>1, <1>2, HoldStep DEF Prepare, Validate, chain
<1>4. /\ stage'[c] \in {"prepare", "posted", "redirect"}
      /\ stage'[c] \in Searching => next'[c] = 0
      /\ \/ out'[c] = {}
         \/ out'[c] = out[c] /\ atStart'[c] = atStart[c]
  BY DEF Prepare, Validate, Rewind, GoTo, Searching, IInv, Basic, TypeOK
<1>5. \A d \in Calls : d # c =>
        /\ stage'[d] = stage[d] /\ out'[d] = out[d]
        /\ next'[d] = next[d] /\ atStart'[d] = atStart[d]
  BY <1>1 DEF Prepare, Validate, Rewind, GoTo, IInv, Basic, TypeOK
<1>6. UNCHANGED <<created, funded, counted>>
  BY DEF Prepare, Validate, chain, walk
<1>7. BalanceComplete' /\ FoundWereFree'
  BY <1>4, <1>5, <1>6 DEF IInv, BalanceComplete, FoundWereFree
<1>8. \A d \in Calls : Covered(d)' /\ Behind(d)' /\ Unread(d)'
  BY <1>4, <1>5, <1>6 DEF IInv, Covered, Behind, Unread, Searching
<1> QED
  BY <1>3, <1>7, <1>8 DEF IInv

\* A bundle settles: what fitted before fits now, or is stale.
LEMMA SettleStep ==
  ASSUME IInv, Basic', NEW c \in Calls, Settle(c)
  PROVE  IInv'
<1> DEFINE t == out[c]
<1>1. /\ t \in SUBSET Nat /\ t \cap created = {}
      /\ created' = created \cup t /\ funded' = funded \cup t
      /\ UNCHANGED <<offers, next, run, need, out, walk>>
  BY DEF Settle, IInv, Basic, TypeOK
<1>2. DownClosed(created) /\ DownClosed(created \cup t)
  BY <1>1 DEF IInv, Shape, Contiguous, Fits
<1> DEFINE StillFits(s) ==
             s \cap (created \cup t) # {} \/ DownClosed(created \cup t \cup s)
<1>3. ASSUME NEW s, Fits(s) PROVE StillFits(s)
  BY <1>2, <1>3 DEF Fits, DownClosed
<1>4. Shape'
  <2>1. Contiguous'
    BY <1>1, <1>2 DEF Contiguous
  <2>2. /\ \A o \in offers : StillFits(o)
        /\ \A d \in Calls : StillFits(out[d])
    BY <1>3 DEF IInv, Shape
  <2> QED
    BY <1>1, <2>1, <2>2 DEF Shape, Fits
<1>5. \A d \in Calls : stage'[d] = stage[d] \/ stage'[d] = "done"
  BY DEF Settle, GoTo, IInv, Basic, TypeOK
<1>6. \A d \in Calls : atStart[d] \cap funded' = atStart[d] \cap funded
  BY <1>1 DEF IInv, Basic, TypeOK
<1>7. BalanceComplete' /\ FoundWereFree'
  BY <1>1, <1>5, <1>6 DEF IInv, BalanceComplete, FoundWereFree, walk
<1>8. \A d \in Calls : Covered(d)' /\ Behind(d)' /\ Unread(d)'
  BY <1>1, <1>5, <1>6
  DEF IInv, Covered, Behind, Unread, Searching, walk
<1> QED
  BY <1>4, <1>7, <1>8 DEF IInv

\* A call is given up, or a UTXO is spent.
LEMMA LoseStep ==
  ASSUME IInv, Basic',
         (\E c \in Calls : Abandon(c)) \/ (\E i \in funded : Spend(i))
  PROVE  IInv'
<1>1. /\ UNCHANGED <<created, offers, next, run, need, out, walk>>
      /\ funded' \subseteq funded
  BY DEF Abandon, Spend, chain
<1>2. \A d \in Calls : stage'[d] = stage[d] \/ stage'[d] = "done"
  BY DEF Abandon, Spend, GoTo, IInv, Basic, TypeOK
<1>3. Shape'
  BY <1>1, IdleStep
<1>4. BalanceComplete' /\ FoundWereFree'
  BY <1>1, <1>2 DEF IInv, BalanceComplete, FoundWereFree, walk
<1>5. \A d \in Calls : Covered(d)' /\ Behind(d)' /\ Unread(d)'
  BY <1>1, <1>2 DEF IInv, Covered, Behind, Unread, Searching, walk
<1> QED
  BY <1>3, <1>4, <1>5 DEF IInv

\* The steps of a balance walk.  A walk ends at a free index k: the channel
\* holds nothing behind it, so what it has counted is everything.
LEMMA WalkStep ==
  ASSUME IInv, Basic', NEW c \in Calls,
         Balance(c) \/ WalkOn(c) \/ WalkEnds(c)
  PROVE  IInv'
<1>1. UNCHANGED <<created, funded, offers, out, need>>
  BY DEF Balance, WalkOn, WalkEnds, chain
<1>2. Shape'
  BY <1>1, IdleStep
<1>3. next[c] \in Nat /\ LastOf(c) \in Nat
  BY BatchFacts DEF IInv, Basic, TypeOK
<1>4. ASSUME NEW d \in Calls, d # c
      PROVE  /\ stage'[d] = stage[d] /\ next'[d] = next[d]
             /\ counted'[d] = counted[d] /\ atStart'[d] = atStart[d]
  BY <1>4 DEF Balance, WalkOn, WalkEnds, Rewind, GoTo, IInv, Basic, TypeOK
<1>5. /\ stage'[c] \in {"balance", "summed"}
      /\ out[c] = {} \/ atStart'[c] = atStart[c]
  BY DEF Balance, WalkOn, WalkEnds, GoTo, IInv, Basic, TypeOK, Unread
<1>6. FoundWereFree' /\ \A d \in Calls : Covered(d)' /\ Unread(d)'
  BY <1>1, <1>4, <1>5
  DEF IInv, FoundWereFree, Covered, Unread, Searching
<1>7. CASE Balance(c)
  <2>1. stage'[c] = "balance" /\ next'[c] = 0
    BY <1>7 DEF Balance, Rewind, GoTo, IInv, Basic, TypeOK
  <2>2. BalanceComplete'
    BY <1>1, <1>4, <2>1 DEF IInv, BalanceComplete
  <2>3. \A d \in Calls : Behind(d)'
    BY <1>1, <1>4, <2>1 DEF IInv, Basic, TypeOK, Behind
  <2> QED
    BY <1>2, <1>6, <2>2, <2>3 DEF IInv
<1>8. CASE WalkOn(c)
  <2>1. /\ UNCHANGED <<stage, atStart>> /\ next'[c] = next[c] + Batch
        /\ stage[c] = "balance"
        /\ counted'[c] = counted[c] \cup (funded \cap Scanned(c))
    BY <1>8 DEF WalkOn, IInv, Basic, TypeOK
  <2>2. BalanceComplete'
    BY <1>1, <1>4, <2>1 DEF IInv, BalanceComplete
  <2>3. \A j \in atStart[c] \cap funded : j < next'[c] => j \in counted'[c]
    <3> SUFFICES ASSUME NEW j \in atStart[c] \cap funded, j < next'[c]
                 PROVE  j \in counted'[c]
      OBVIOUS
    <3>1. j \in Nat /\ (j < next[c] => j \in counted[c])
      BY <2>1 DEF IInv, Basic, TypeOK, Behind
    <3>2. j >= next[c] => j \in Scanned(c)
      BY <1>3, <2>1, <3>1, SizesAssumption DEF Scanned, LastOf
    <3> QED
      BY <1>3, <2>1, <3>1, <3>2
  <2>4. \A d \in Calls : Behind(d)'
    BY <1>1, <1>4, <2>1, <2>3 DEF IInv, Behind
  <2> QED
    BY <1>2, <1>6, <2>2, <2>4 DEF IInv
<1>9. CASE WalkEnds(c)
  <2>1. PICK k \in Scanned(c) :
          /\ Closes(c, k)
          /\ counted' = [counted EXCEPT ![c] = @ \cup (funded \cap next[c]..k)]
    BY <1>9 DEF WalkEnds
  <2>2. k \in Nat /\ k \notin created
    BY <1>3, <2>1, SizesAssumption DEF Closes, Scanned
  <2>3. \A j \in created : j < k
    BY <2>2 DEF IInv, Basic, TypeOK, Shape, Contiguous, DownClosed
  <2>4. /\ UNCHANGED <<next, run, atStart>> /\ stage[c] = "balance"
        /\ stage'[c] = "summed"
        /\ counted'[c] = counted[c] \cup (funded \cap next[c]..k)
    BY <1>9, <2>1 DEF WalkEnds, GoTo, IInv, Basic, TypeOK
  <2>5. atStart[c] \cap funded \subseteq counted'[c]
    <3> SUFFICES ASSUME NEW j \in atStart[c] \cap funded
                 PROVE  j \in counted'[c]
      OBVIOUS
    <3>1. j \in Nat /\ j < k /\ (j < next[c] => j \in counted[c])
      BY <2>3, <2>4 DEF IInv, Basic, TypeOK, Behind
    <3> QED
      BY <1>3, <2>2, <2>4, <3>1
  <2>6. BalanceComplete'
    BY <1>1, <1>4, <2>4, <2>5 DEF IInv, BalanceComplete
  <2>7. \A d \in Calls : Behind(d)'
    BY <1>1, <1>4, <2>4 DEF IInv, Behind
  <2> QED
    BY <1>2, <1>6, <2>6, <2>7 DEF IInv
<1> QED
  BY <1>7, <1>8, <1>9

\* Every step keeps the invariant, if clients propose only what they were
\* offered.
LEMMA InvStep == Custom = {} /\ IInv /\ [Next]_vars => IInv'
<1> SUFFICES ASSUME Custom = {}, IInv, [Next]_vars PROVE IInv'
  OBVIOUS
<1>1. Basic'
  BY BasicStep DEF IInv
<1>2. CASE UNCHANGED vars
  BY <1>1, <1>2
  DEF vars, chain, walk, IInv, Shape, Contiguous, Fits, DownClosed,
      BalanceComplete, FoundWereFree, Covered, Behind, Unread
<1>3. CASE Next
  BY <1>1, <1>3, SearchStep, ProposeStep, RewindStep, SettleStep, LoseStep,
     WalkStep
  DEF Next
<1> QED
  BY <1>2, <1>3

-----------------------------------------------------------------------------
(* How many indexes a search finds. *)

\* A set of numbers has a least one.
LEMMA Least ==
  ASSUME NEW T \in SUBSET Nat, T # {}
  PROVE  \E m \in T : \A n \in T : m <= n
<1>1. PICK m \in T : \A n \in T : ~ (<<n, m>> \in OpToRel(<, Nat))
  BY WFMin, NatLessThanWellFounded, Zenon
<1>2. ASSUME NEW n \in T PROVE m <= n
  <2>1. n \in Nat /\ m \in Nat /\ ~(n < m)
    BY <1>1, <1>2, Zenon DEF OpToRel
  <2> QED
    BY <2>1
<1> QED
  BY <1>2

\* And a greatest one, if it has a bound.
LEMMA Greatest ==
  ASSUME NEW T \in SUBSET Nat, T # {}, NEW b \in Nat, \A n \in T : n <= b
  PROVE  \E m \in T : \A n \in T : n <= m
<1> DEFINE U == {u \in 0..b : b - u \in T}
<1>1. \A n \in T : b - n \in U
  OBVIOUS
<1>2. U \in SUBSET Nat /\ U # {}
  <2>1. PICK n : n \in T
    OBVIOUS
  <2>2. b - n \in U
    BY <1>1, <2>1
  <2> QED
    BY <2>2
<1>3. PICK u \in U : \A n \in U : u <= n
  BY <1>2, Least
<1>4. ASSUME NEW n \in T PROVE n <= b - u
  <2>1. u <= b - n
    BY <1>1, <1>3
  <2> QED
    BY <2>1
<1> QED
  BY <1>4

\* The lowest of a set, as many as are needed, are as many as are needed.
LEMMA LowestCount ==
  ASSUME NEW O, IsFiniteSet(O),
         NEW F \in SUBSET Nat, IsFiniteSet(F),
         NEW b \in Nat, \A k \in F : k <= b,
         NEW n \in Nat, Cardinality(O) < n, Cardinality(O \cup F) >= n
  PROVE  Cardinality(O \cup {k \in F :
           Cardinality(O \cup {j \in F : j <= k}) <= n}) = n
<1> DEFINE upto(k) == O \cup {j \in F : j <= k}
           low == {k \in F : Cardinality(upto(k)) <= n}
<1>1. /\ IsFiniteSet(O \cup low) /\ Cardinality(O \cup low) \in Nat
      /\ Cardinality(O) \in Nat
  BY FS_Subset, FS_Union, FS_CardinalityType
<1>2. ASSUME NEW k \in F
      PROVE  IsFiniteSet(upto(k)) /\ Cardinality(upto(k)) \in Nat
  BY FS_Subset, FS_Union, FS_CardinalityType
<1>3. Cardinality(O \cup low) <= n
  <2>1. CASE low = {}
    <3>1. O \cup low = O
      BY <2>1
    <3>2. Cardinality(O \cup low) = Cardinality(O)
      BY <3>1, Zenon
    <3> HIDE DEF low
    <3> QED
      BY <1>1, <3>2
  <2>2. CASE low # {}
    <3>1. low \in SUBSET Nat /\ \A k \in low : k <= b
      OBVIOUS
    <3>2. PICK h \in low : \A k \in low : k <= h
      BY <2>2, <3>1, Greatest
    <3>3. O \cup low \in SUBSET upto(h)
      BY <3>2
    <3>4. h \in F /\ Cardinality(upto(h)) <= n
      OBVIOUS
    <3>5. Cardinality(O \cup low) <= Cardinality(upto(h))
      BY <1>2, <3>3, <3>4, FS_Subset
    <3> QED
      BY <1>1, <1>2, <3>4, <3>5
  <2> QED
    BY <2>1, <2>2
<1>4. Cardinality(O \cup low) >= n
  <2>1. CASE F \ low = {}
    <3>1. O \cup low = O \cup F
      BY <2>1
    <3> QED
      BY <3>1
  <2>2. CASE F \ low # {}
    <3>1. F \ low \in SUBSET Nat
      OBVIOUS
    <3>2. PICK m \in F \ low : \A k \in F \ low : m <= k
      BY <2>2, <3>1, Least
    <3>3. m \in F /\ ~(Cardinality(upto(m)) <= n)
      BY <3>2
    <3>4. upto(m) \in SUBSET ((O \cup low) \cup {m})
      BY <3>1, <3>2
    <3>5. /\ IsFiniteSet((O \cup low) \cup {m})
          /\ Cardinality((O \cup low) \cup {m})
               \in {Cardinality(O \cup low), Cardinality(O \cup low) + 1}
      BY <1>1, FS_AddElement
    <3>6. Cardinality(upto(m)) <= Cardinality((O \cup low) \cup {m})
      BY <3>4, <3>5, FS_Subset
    <3> QED
      BY <1>1, <1>2, <3>3, <3>5, <3>6
  <2> QED
    BY <2>1, <2>2
<1> QED
  BY <1>1, <1>3, <1>4

\* What a call holds is counted against what it needs.
Counts(c) ==
  /\ stage[c] = "idle" => need[c] = 0
  /\ stage[c] = "prepare" => need[c] = Destinations
  /\ stage[c] = "validate" => need[c] = Cardinality(out[c])
  /\ stage[c] \in Searching =>
       Cardinality(out[c]) < need[c] /\ \A j \in out[c] : j < next[c]

NInv == NoneMissing /\ \A c \in Calls : Counts(c)

\* Nothing is offered, posted or needed yet.
LEMMA CountInit == Init => NInv
  BY DEF Init, NInv, NoneMissing, Counts, Searching

\* A search that ends has found as many as it needs.
LEMMA FindsAll ==
  ASSUME Basic, NInv, NEW c \in Calls, NEW s, Found(c, s),
         stage[c] \in Searching, Cardinality(s) = need[c],
         UNCHANGED <<next, need>>
  PROVE  NInv'
<1>1. /\ stage'[c] \in {"done", "posted"} /\ out'[c] = s
      /\ \A d \in Calls :
           d # c => stage'[d] = stage[d] /\ out'[d] = out[d]
  BY DEF Found, GoTo, Basic, TypeOK
<1>2. \A o \in offers' : Cardinality(o) = Destinations
  BY DEF Found, NInv, NoneMissing, Counts
<1>3. ASSUME NEW d \in Calls, stage'[d] = "posted", need'[d] > 0
      PROVE  Cardinality(out'[d]) = need'[d]
  BY <1>1, <1>3 DEF NInv, NoneMissing
<1> QED
  BY <1>1, <1>2, <1>3 DEF NInv, NoneMissing, Counts, Searching

\* The steps of a search: a batch is new to what was found before it.
LEMMA SearchCounts ==
  ASSUME Basic, NInv, NEW c \in Calls, Search(c)
  PROVE  NInv'
<1> DEFINE some == out[c] \cup FreeIn(c)
           last == LastOf(c)
<1>1. /\ stage[c] \in Searching /\ UNCHANGED need
      /\ IsFiniteSet(out[c]) /\ out[c] \in SUBSET Nat
      /\ next[c] \in Nat /\ need[c] \in Nat
      /\ Cardinality(out[c]) < need[c] /\ \A j \in out[c] : j < next[c]
  BY DEF Search, FindEnough, FillUp, ReadOn, Basic, TypeOK, Finite, NInv,
         Counts
<1>2. /\ last \in Nat /\ next[c] <= last
      /\ FreeIn(c) \in SUBSET Nat /\ IsFiniteSet(FreeIn(c))
  BY BatchFacts DEF Basic
<1>3. \A k \in FreeIn(c) : k <= last
  BY <1>1, <1>2 DEF FreeIn, Scanned
<1>4. IsFiniteSet(some) /\ Cardinality(some) \in Nat
  BY <1>1, <1>2, FS_Union, FS_CardinalityType
<1>5. CASE FindEnough(c)
  <2>1. Cardinality(out[c] \cup FreeIn(c)) >= need[c]
    BY <1>5 DEF FindEnough
  <2>2. Cardinality(out[c] \cup Lowest(c)) = need[c]
    BY <1>1, <1>2, <1>3, <2>1, LowestCount DEF Lowest
  <2> QED
    BY <1>1, <1>5, <2>2, FindsAll DEF FindEnough
<1>6. CASE FillUp(c)
  <2> DEFINE fill == (last + 1)..(last + (need[c] - Cardinality(some)))
  <2>1. Cardinality(some) < need[c] /\ Found(c, some \cup fill)
    BY <1>6 DEF FillUp
  <2>2. IsFiniteSet(fill) /\ Cardinality(fill) = need[c] - Cardinality(some)
    <3>1. last + 1 \in Int /\ last + (need[c] - Cardinality(some)) \in Int
      BY <1>1, <1>2, <1>4
    <3>2. /\ IsFiniteSet(fill)
          /\ Cardinality(fill) =
               IF last + 1 > last + (need[c] - Cardinality(some)) THEN 0
               ELSE (last + (need[c] - Cardinality(some))) - (last + 1) + 1
      BY <3>1, FS_Interval
    <3> QED
      BY <1>1, <1>2, <1>4, <2>1, <3>2
  <2>3. \A j \in some : j \in Nat /\ j <= last
    BY <1>1, <1>2, <1>3
  <2>4. some \cap fill = {}
    BY <1>1, <1>2, <1>4, <2>3
  <2>5. Cardinality(some \cup fill) = need[c]
    <3>1. Cardinality(some \cup fill) =
            Cardinality(some) + Cardinality(fill) - Cardinality(some \cap fill)
      BY <1>4, <2>2, FS_Union
    <3>2. Cardinality(some \cap fill) = 0
      BY <2>4, FS_EmptySet
    <3> QED
      BY <1>1, <1>4, <2>2, <3>1, <3>2
  <2> QED
    BY <1>1, <1>6, <2>1, <2>5, FindsAll DEF FillUp
<1>7. CASE ReadOn(c)
  <2>1. /\ Cardinality(some) < need[c] /\ UNCHANGED <<offers, stage, need>>
        /\ out' = [out EXCEPT ![c] = some]
        /\ next' = [next EXCEPT ![c] = @ + Batch]
    BY <1>7 DEF ReadOn
  <2>2. out'[c] = some /\ next'[c] = next[c] + Batch
    BY <2>1 DEF Basic, TypeOK
  <2>3. \A j \in some : j < next[c] + Batch
    BY <1>1, <1>2, <1>3, SizesAssumption DEF LastOf
  <2>4. Counts(c)'
    BY <1>1, <2>1, <2>2, <2>3 DEF Counts, Searching, NInv
  <2>5. \A d \in Calls : d # c => Counts(d)'
    BY <2>1 DEF Counts, NInv, Basic, TypeOK
  <2>6. NoneMissing'
    BY <1>1, <2>1 DEF NoneMissing, NInv, Basic, TypeOK, Searching
  <2> QED
    BY <2>4, <2>5, <2>6 DEF NInv
<1> QED
  BY <1>5, <1>6, <1>7 DEF Search

\* A call that begins, or whose proposal is checked.
LEMMA ProposeCounts ==
  ASSUME Basic, NInv, NEW c \in Calls,
         \/ Prepare(c) \/ Validate(c)
         \/ \E o \in Proposals : Execute(c, o) \/ Submit(c, o)
  PROVE  NInv'
<1>1. \A d \in Calls : d # c =>
        /\ stage'[d] = stage[d] /\ out'[d] = out[d]
        /\ next'[d] = next[d] /\ need'[d] = need[d]
  BY DEF Prepare, Validate, Execute, Submit, Rewind, GoTo, Basic, TypeOK
<1>2. UNCHANGED offers
  BY DEF Prepare, Validate, Execute, Submit
<1>3. Counts(c)' /\ (stage'[c] = "posted" /\ need'[c] > 0 =>
                       Cardinality(out'[c]) = need'[c])
  <2>1. CASE Prepare(c)
    <3>1. /\ stage'[c] = "prepare" /\ need'[c] = Destinations /\ out'[c] = {}
      BY <2>1 DEF Prepare, GoTo, Basic, TypeOK
    <3> QED
      BY <3>1, FS_EmptySet, SizesAssumption DEF Counts, Searching
  <2>2. CASE Validate(c)
    <3>1. need'[c] = need[c] /\ need[c] = Cardinality(out[c])
      BY <2>2 DEF Validate, NInv, Counts
    <3>2. CASE stage'[c] = "posted" /\ out'[c] = out[c]
      BY <3>1, <3>2 DEF Counts, Searching
    <3>3. CASE /\ out[c] \cap created # {}
               /\ stage'[c] = "redirect" /\ out'[c] = {}
      <4>1. Cardinality(out[c]) \in Nat /\ Cardinality(out[c]) # 0
        BY <3>3, FS_EmptySet, FS_CardinalityType DEF Basic, Finite
      <4> QED
        BY <3>1, <3>3, <4>1, FS_EmptySet DEF Counts, Searching
    <3> QED
      BY <2>2, <3>2, <3>3 DEF Validate, GoTo, Basic, TypeOK
  <2>3. CASE \E o \in Proposals : Execute(c, o) \/ Submit(c, o)
    BY <2>3 DEF Execute, Submit, GoTo, Basic, TypeOK, NInv, Counts, Searching
  <2> QED
    BY <2>1, <2>2, <2>3
<1> QED
  BY <1>1, <1>2, <1>3 DEF NInv, NoneMissing, Counts

\* Every step keeps the counts.
LEMMA CountStep == Basic /\ NInv /\ [Next]_vars => NInv'
<1> SUFFICES ASSUME Basic, NInv, [Next]_vars PROVE NInv'
  OBVIOUS
<1>1. ASSUME UNCHANGED <<offers, next, need, out>>,
             \A d \in Calls :
               \/ stage'[d] = stage[d]
               \/ stage'[d] \in {"done", "summed"}
      PROVE  NInv'
  BY <1>1 DEF NInv, NoneMissing, Counts, Searching
<1>2. ASSUME NEW c \in Calls, Settle(c) \/ Abandon(c) \/ WalkEnds(c)
      PROVE  NInv'
  <2>1. \A d \in Calls :
          stage'[d] = stage[d] \/ stage'[d] \in {"done", "summed"}
    BY <1>2 DEF Settle, Abandon, WalkEnds, GoTo, Basic, TypeOK
  <2> QED
    BY <1>1, <1>2, <2>1 DEF Settle, Abandon, WalkEnds
<1>3. ASSUME NEW c \in Calls, Balance(c) \/ WalkOn(c) PROVE NInv'
  <2>1. /\ UNCHANGED <<offers, need, out>>
        /\ stage'[c] = "balance"
        /\ \A d \in Calls :
             d # c => stage'[d] = stage[d] /\ next'[d] = next[d]
    BY <1>3 DEF Balance, WalkOn, Rewind, GoTo, Basic, TypeOK
  <2> QED
    BY <2>1 DEF NInv, NoneMissing, Counts, Searching
<1>4. CASE UNCHANGED vars \/ \E i \in funded : Spend(i)
  BY <1>1, <1>4 DEF vars, Spend
<1> QED
  BY <1>2, <1>3, <1>4, SearchCounts, ProposeCounts DEF Next

-----------------------------------------------------------------------------
(* Theorems. *)

\* Types, whatever destinations clients propose.
THEOREM TypeCorrect == Spec => []TypeOK
<1>1. Basic => TypeOK
  BY DEF Basic
<1> QED
  BY <1>1, BasicInit, BasicStep, PTL DEF Spec

\* utxo-balance.ts:138-144: prepare offers, and a redirected payment gets,
\* as many different indexes as needed, whatever settles during the search
\* and whatever destinations clients propose.
THEOREM NoneAreMissing == Spec => []NoneMissing
<1>1. NInv => NoneMissing
  BY DEF NInv
<1> QED
  BY <1>1, BasicInit, BasicStep, CountInit, CountStep, PTL DEF Spec

\* The invariant holds as long as clients propose what they were offered.
THEOREM Invariance == ASSUME Custom = {} PROVE Spec => []IInv
<1>1. IInv /\ [Next]_vars => IInv'
  BY InvStep
<1> QED
  BY <1>1, InvInit, PTL DEF Spec

\* utxo-balance.ts:10-14: the funded-or-spent region is a contiguous
\* prefix, however the calls interleave.
THEOREM PrefixContiguous == ASSUME Custom = {} PROVE Spec => []Contiguous
<1>1. IInv => Contiguous
  BY DEF IInv, Shape
<1> QED
  BY <1>1, Invariance, PTL

\* utxo-balance.ts:70-74: a walk that stops at the first free run has
\* summed everything that was there all along.
THEOREM WalksAreComplete == ASSUME Custom = {} PROVE Spec => []BalanceComplete
<1>1. IInv => BalanceComplete
  BY DEF IInv
<1> QED
  BY <1>1, Invariance, PTL

\* utxo-balance.ts:152-153, 181-182: what a search of several reads found,
\* or filled in without reading it, was free when the search began.
THEOREM SearchesFindFree == ASSUME Custom = {} PROVE Spec => []FoundWereFree
<1>1. IInv => FoundWereFree
  BY DEF IInv
<1> QED
  BY <1>1, Invariance, PTL
=============================================================================
