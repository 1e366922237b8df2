----------------------- MODULE PartitionAmountProofs ------------------------
(***************************************************************************)
(* Theorems about PartitionAmount, for every amount and number of parts.   *)
(***************************************************************************)
EXTENDS PartitionAmount, TLAPS

\* A stroop is left for every part to come.
Enough == total >= parts /\ ~returned => remaining >= parts - Len(result)

\* Until it returns, the last part is missing.
Short == ~returned /\ parts > 0 => Len(result) < parts

IInv == TypeOK /\ Short /\ Enough /\ PartsPositive

\* The recursion that defines the partial sums of a sequence.
Sums(f, s) ==
  f = [n \in 0..Len(s) |-> IF n = 0 THEN 0 ELSE f[n - 1] + s[n]]

\* Exactly one function satisfies it, and what it says of the whole
\* sequence is v.
SumsTo(s, v) ==
  \E f \in [0..Len(s) -> Int] :
    (\A g : Sums(g, s) <=> g = f) /\ f[Len(s)] = v

\* What has been cut off and what remains are the amount.
Balanced == SumsTo(result, total - remaining)

\* The last part is what remained.
AllCut == returned /\ parts > 0 => Len(result) = parts /\ remaining = 0

-----------------------------------------------------------------------------

\* Before the loop, the whole amount remains.
LEMMA InvInit == Init => IInv
<1> SUFFICES ASSUME Init PROVE IInv
  OBVIOUS
<1>1. total \in Int /\ parts \in Nat /\ remaining = total
  BY InputsAssumption DEF Init
<1>2. result \in Seq(Int) /\ Len(result) = 0
  BY DEF Init
<1>3. returned \in BOOLEAN /\ total \in Totals /\ parts \in Parts
  BY DEF Init
<1>4. TypeOK
  BY <1>1, <1>2, <1>3 DEF TypeOK
<1> QED
  BY <1>1, <1>2, <1>4 DEF IInv, Short, Enough, PartsPositive

\* A portion is an integer, and less than the rest that is free to be taken
\* whenever that is more than one stroop.  Rounding up takes nothing away:
\* the Number before the rounded factor is at least the distance of Numbers
\* below it, and the factor at most half of it.
LEMMA PortionBounds ==
  ASSUME MaxForThis \in Int, NEW e \in Portions
  PROVE  e \in Int /\ (MaxForThis >= 1 => 1 <= e /\ e <= MaxForThis)
<1> DEFINE n == MaxForThis - 1
<1>0. PICK x \in Number(n) : \E p \in Products(x) : e = 1 + p
  BY DEF Portions
<1>1. PICK p \in Products(x) : e = 1 + p
  BY <1>0
<1>2. PICK u \in SpacingAt(n) :
        x \in {k * u : k \in -Exact..Exact} /\ 2 * Abs(x - n) <= u
  BY <1>0 DEF Number
<1>3. PICK v \in SpacingAt(x) :
        p \in IF x > 0 THEN 0..(x - v) ELSE (x + v - 1)..0
  BY <1>1 DEF Products
<1>4. /\ u \in Nat \ {0} /\ v \in Nat \ {0} /\ n \in Int
      /\ u \in Spacings /\ v \in Spacings
  BY <1>2, <1>3, NumbersAssumption DEF SpacingAt
<1>5. PICK k \in -Exact..Exact : x = k * u
  BY <1>2
<1>5a. x \in Int
  BY <1>4, <1>5, NumbersAssumption
<1>6. p \in Int /\ e = 1 + p
  BY <1>1, <1>3, <1>4, <1>5a
<1>7. ASSUME n >= 0 PROVE 0 <= p /\ p <= n
  <2>1. 2 * (x - n) <= u /\ 2 * (n - x) <= u
    BY <1>2, <1>4, <1>5a DEF Abs
  <2>2. CASE x <= 0
    <3>1. CASE k <= -1
      <4>1. k * u <= -u
        BY <1>4, <1>5, <1>5a, <3>1, NumbersAssumption
      <4> QED
        BY <1>4, <1>5, <1>5a, <1>7, <2>1, <4>1
    <3>2. CASE k >= 0
      <4>1. k * u >= 0
        BY <1>4, <1>5, <1>5a, <3>2, NumbersAssumption
      <4> QED
        BY <1>3, <1>4, <1>5, <1>5a, <1>7, <2>2, <4>1
    <3> QED
      BY <1>5, <1>5a, <3>1, <3>2, NumbersAssumption
  <2>3. CASE x > 0 /\ x <= n
    BY <1>3, <1>4, <1>5a, <1>7, <2>3
  <2>4. CASE x > n
    <3>1. Abs(n) <= Exact * v
      <4>1. Abs(x) <= Exact * v
        BY <1>3 DEF SpacingAt
      <4>2. Abs(n) <= Abs(x) /\ Abs(n) \in Int /\ Abs(x) \in Int
        BY <1>4, <1>5a, <1>7, <2>4 DEF Abs
      <4>3. Exact * v \in Int
        BY <1>4, NumbersAssumption
      <4> QED
        BY <4>1, <4>2, <4>3
    <3>2. u <= v
      BY <1>2, <1>4, <3>1 DEF SpacingAt
    <3> QED
      BY <1>3, <1>4, <1>5a, <1>7, <2>1, <2>4, <3>2
  <2> QED
    BY <1>4, <1>5a, <2>2, <2>3, <2>4
<1> QED
  BY <1>4, <1>6, <1>7

\* What appending one part does to the sequence.
LEMMA AppendFacts ==
  ASSUME NEW s \in Seq(Int), NEW e \in Int
  PROVE  /\ Append(s, e) \in Seq(Int)
         /\ Len(Append(s, e)) = Len(s) + 1 /\ Len(s) \in Nat
         /\ \A n \in 1..(Len(s) + 1) :
              Append(s, e)[n] = IF n = Len(s) + 1 THEN e ELSE s[n]
  OBVIOUS

\* A positive part more keeps PartsPositive.
LEMMA PartStep ==
  ASSUME IInv, NEW e \in Int, result' = Append(result, e),
         UNCHANGED <<total, parts>>, total >= parts => e >= 1
  PROVE  PartsPositive'
<1>1. result \in Seq(Int)
  BY DEF IInv, TypeOK
<1> SUFFICES ASSUME total >= parts, NEW n \in 1..Len(result')
             PROVE  result'[n] >= 1
  BY DEF PartsPositive
<1>2. n \in 1..(Len(result) + 1)
  BY <1>1, AppendFacts
<1>3. CASE n = Len(result) + 1
  BY <1>1, <1>2, <1>3, AppendFacts
<1>4. CASE n # Len(result) + 1
  <2>1. n \in 1..Len(result)
    BY <1>1, <1>2, <1>4, AppendFacts
  <2>2. result'[n] = result[n]
    BY <1>1, <1>2, <1>4, AppendFacts
  <2> QED
    BY <2>1, <2>2 DEF IInv, PartsPositive
<1> QED
  BY <1>3, <1>4

\* Every step keeps the invariant: a portion leaves one stroop for each
\* part to come, and the rest is what was left for the last.
LEMMA InvStep == IInv /\ [Next]_vars => IInv'
<1> SUFFICES ASSUME IInv, [Next]_vars PROVE IInv'
  OBVIOUS
<1>1. /\ result \in Seq(Int) /\ remaining \in Int /\ Len(result) \in Nat
      /\ total \in Int /\ parts \in Nat /\ Len(result) <= parts
  BY InputsAssumption DEF IInv, TypeOK
<1>2. CASE Cut
  <2>1. PICK e \in Portions :
          result' = Append(result, e) /\ remaining' = remaining - e
    BY <1>2 DEF Cut
  <2>2. /\ MaxForThis \in Int /\ e \in Int
        /\ MaxForThis >= 1 => 1 <= e /\ e <= MaxForThis
    <3>1. MaxForThis \in Int
      BY <1>1 DEF MaxForThis
    <3> QED
      BY <2>1, <3>1, PortionBounds
  <2>3. Len(result') = Len(result) + 1 /\ result' \in Seq(Int)
    BY <1>1, <2>1, <2>2, AppendFacts
  <2>4. TypeOK'
    BY <1>1, <1>2, <2>1, <2>2, <2>3 DEF Cut, IInv, TypeOK
  <2>5. total >= parts =>
          /\ MaxForThis >= 1 /\ e >= 1
          /\ remaining - e >= parts - (Len(result) + 1)
    BY <1>1, <1>2, <2>2 DEF Cut, IInv, Enough, MaxForThis
  <2>6. Enough'
    BY <1>1, <1>2, <2>1, <2>3, <2>5 DEF Cut, Enough
  <2>7. PartsPositive'
    BY <1>2, <2>1, <2>2, <2>5, PartStep DEF Cut
  <2>8. Short'
    BY <1>1, <1>2, <2>3 DEF Cut, Short
  <2> QED
    BY <2>4, <2>6, <2>7, <2>8 DEF IInv
<1>3. CASE Close
  <2>1. Len(result') = Len(result) + 1 /\ result' \in Seq(Int)
    BY <1>1, <1>3, AppendFacts DEF Close
  <2>2. Len(result) = parts - 1
    BY <1>1, <1>3 DEF Close, IInv, Short
  <2>3. TypeOK'
    BY <1>1, <1>3, <2>1, <2>2 DEF Close, IInv, TypeOK
  <2>4. total >= parts => remaining >= 1
    BY <1>1, <1>3, <2>2 DEF Close, IInv, Enough
  <2>5. PartsPositive'
    BY <1>1, <1>3, <2>4, PartStep DEF Close
  <2>6. Short' /\ Enough'
    BY <1>3 DEF Close, Short, Enough
  <2> QED
    BY <2>3, <2>5, <2>6 DEF IInv
<1>4. CASE ReturnNothing
  BY <1>4 DEF ReturnNothing, IInv, TypeOK, Short, Enough, PartsPositive
<1>5. CASE UNCHANGED vars
  BY <1>5 DEF vars, IInv, TypeOK, Short, Enough, PartsPositive
<1> QED
  BY <1>2, <1>3, <1>4, <1>5 DEF Next
-----------------------------------------------------------------------------
(* The sum of the parts. *)

\* Nothing sums to zero.
LEMMA EmptySum == SumsTo(<<>>, 0)
<1> DEFINE f == [n \in 0..0 |-> 0]
<1>1. Len(<<>>) = 0
  OBVIOUS
<1>2. ASSUME NEW g PROVE Sums(g, <<>>) <=> g = f
  <2>1. [n \in 0..0 |-> IF n = 0 THEN 0 ELSE g[n - 1] + <<>>[n]] = f
    OBVIOUS
  <2> QED
    BY <1>1, <2>1 DEF Sums
<1>3. f \in [0..0 -> Int] /\ f[0] = 0
  OBVIOUS
<1>4. \A g : Sums(g, <<>>) <=> g = f
  BY <1>2
<1> HIDE DEF f
<1> QED
  BY <1>1, <1>3, <1>4 DEF SumsTo

\* One part more adds to the sum: the partial sums of the longer sequence
\* are those of the shorter one, and one more.
LEMMA AppendSum ==
  ASSUME NEW s \in Seq(Int), NEW e \in Int, NEW v \in Int, SumsTo(s, v)
  PROVE  SumsTo(Append(s, e), v + e)
<1> DEFINE t == Append(s, e)
           len == Len(s)
<1>1. /\ t \in Seq(Int) /\ len \in Nat /\ Len(t) = len + 1
      /\ t[len + 1] = e /\ \A n \in 1..len : t[n] = s[n]
  BY AppendFacts
<1>2. PICK f \in [0..len -> Int] :
        (\A g : Sums(g, s) <=> g = f) /\ f[len] = v
  BY DEF SumsTo
<1> HIDE DEF t
<1> DEFINE h == [n \in 0..(len + 1) |-> IF n = len + 1 THEN v + e ELSE f[n]]
<1>3. h \in [0..(len + 1) -> Int] /\ h[len + 1] = v + e
  BY <1>1, <1>2
<1>4. \A n \in 0..len : f[n] = IF n = 0 THEN 0 ELSE f[n - 1] + s[n]
  <2>1. Sums(f, s)
    BY <1>2
  <2>2. f = [n \in 0..len |-> IF n = 0 THEN 0 ELSE f[n - 1] + s[n]]
    BY <2>1, Zenon DEF Sums
  <2> QED
    BY <2>2
<1>5. Sums(h, t)
  <2> DEFINE rhs == [n \in 0..Len(t) |->
                      IF n = 0 THEN 0 ELSE h[n - 1] + t[n]]
  <2>1. ASSUME NEW n \in 0..(len + 1) PROVE h[n] = rhs[n]
    <3>1. CASE n = 0
      BY <1>1, <1>4, <3>1
    <3>2. CASE n \in 1..len
      <4>1. n - 1 \in 0..len /\ n # len + 1 /\ n - 1 # len + 1 /\ n # 0
        BY <1>1, <3>2
      <4>2. h[n] = f[n] /\ h[n - 1] = f[n - 1] /\ t[n] = s[n]
        BY <1>1, <3>2, <4>1
      <4> QED
        BY <1>1, <1>4, <3>2, <4>1, <4>2
    <3>3. CASE n = len + 1
      <4>1. n - 1 = len /\ n # 0 /\ len # len + 1 /\ n \in 0..Len(t)
        BY <1>1, <3>3
      <4>2. h[len] = v
        <5>1. len \in 0..(len + 1)
          BY <1>1
        <5>2. h[len] = f[len]
          BY <4>1, <5>1
        <5> QED
          BY <1>2, <5>2
      <4>3. h[n] = v + e /\ t[n] = e
        BY <1>1, <1>3, <3>3
      <4>4. rhs[n] = h[n - 1] + t[n]
        BY <4>1
      <4> QED
        BY <4>1, <4>2, <4>3, <4>4
    <3> QED
      BY <1>1, <3>1, <3>2, <3>3
  <2>2. h = rhs
    BY <1>1, <2>1
  <2> QED
    BY <2>2 DEF Sums
<1>6. ASSUME NEW g, Sums(g, t) PROVE g = h
  <2>1. g = [n \in 0..(len + 1) |-> IF n = 0 THEN 0 ELSE g[n - 1] + t[n]]
    BY <1>1, <1>6 DEF Sums
  <2>2. \A n \in 0..(len + 1) :
          g[n] = IF n = 0 THEN 0 ELSE g[n - 1] + t[n]
    BY <2>1
  <2> DEFINE k == [n \in 0..len |-> g[n]]
  <2>3. Sums(k, s)
    <3>1. ASSUME NEW n \in 0..len
          PROVE  k[n] = IF n = 0 THEN 0 ELSE k[n - 1] + s[n]
      <4>1. n \in 0..(len + 1) /\ (n # 0 => n - 1 \in 0..len /\ n \in 1..len)
        BY <1>1
      <4> QED
        BY <1>1, <2>2, <4>1
    <3>2. k = [n \in 0..len |-> IF n = 0 THEN 0 ELSE k[n - 1] + s[n]]
      BY <3>1
    <3> QED
      BY <3>2 DEF Sums
  <2>4. k = f
    BY <1>2, <2>3
  <2>5. \A n \in 0..len : g[n] = f[n]
    BY <2>4
  <2>6. g[len + 1] = v + e
    <3>1. /\ len + 1 \in 0..(len + 1) /\ len + 1 # 0
          /\ (len + 1) - 1 = len /\ len \in 0..len
      BY <1>1
    <3>2. g[len + 1] = g[len] + t[len + 1]
      BY <2>2, <3>1
    <3> QED
      BY <1>1, <1>2, <2>5, <3>1, <3>2
  <2>7. \A n \in 0..(len + 1) : g[n] = h[n]
    BY <1>1, <2>5, <2>6
  <2> QED
    BY <2>1, <2>7
<1>7. \A g : Sums(g, t) <=> g = h
  BY <1>5, <1>6
<1> QED
  BY <1>1, <1>3, <1>7 DEF SumsTo, t

\* SumOfParts is that sum.
LEMMA SumIsSumOfParts ==
  ASSUME NEW v, SumsTo(result, v)
  PROVE  SumOfParts = v
<1>1. PICK f \in [0..Len(result) -> Int] :
        (\A g : Sums(g, result) <=> g = f) /\ f[Len(result)] = v
  BY DEF SumsTo
<1>2. \A g : (g = [n \in 0..Len(result) |->
                    IF n = 0 THEN 0 ELSE g[n - 1] + result[n]]) <=> g = f
  BY <1>1 DEF Sums
<1> QED
  BY <1>1, <1>2 DEF SumOfParts

\* The amount is neither lost nor made up by a cut or by the last part.
LEMMA BalanceStep ==
  TypeOK /\ Short /\ Balanced /\ AllCut /\ [Next]_vars
    => Balanced' /\ AllCut'
<1> SUFFICES ASSUME TypeOK, Short, Balanced, AllCut, [Next]_vars
             PROVE  Balanced' /\ AllCut'
  OBVIOUS
<1>1. /\ result \in Seq(Int) /\ remaining \in Int /\ Len(result) \in Nat
      /\ total \in Int /\ parts \in Nat
  BY InputsAssumption DEF TypeOK
<1>2. ASSUME NEW e \in Int, result' = Append(result, e),
             remaining' = remaining - e, UNCHANGED total
      PROVE  Balanced'
  <2>1. SumsTo(Append(result, e), (total - remaining) + e)
    BY <1>1, AppendSum DEF Balanced
  <2>2. (total - remaining) + e = total - (remaining - e)
    BY <1>1
  <2> QED
    BY <1>2, <2>1, <2>2 DEF Balanced
<1>3. CASE Cut
  <2>1. PICK e \in Portions :
          result' = Append(result, e) /\ remaining' = remaining - e
    BY <1>3 DEF Cut
  <2>2. e \in Int
    <3>1. MaxForThis \in Int
      BY <1>1 DEF MaxForThis
    <3> QED
      BY <2>1, <3>1, PortionBounds
  <2> QED
    BY <1>2, <1>3, <2>1, <2>2 DEF Cut, AllCut
<1>4. CASE Close
  <2>1. Len(result) = parts - 1 /\ Len(result') = Len(result) + 1
    BY <1>1, <1>4, AppendFacts DEF Close, Short
  <2>2. remaining' = remaining - remaining
    BY <1>1, <1>4 DEF Close
  <2> QED
    BY <1>1, <1>2, <1>4, <2>1, <2>2 DEF Close, AllCut
<1>5. CASE ReturnNothing
  BY <1>5 DEF ReturnNothing, Balanced, AllCut
<1>6. CASE UNCHANGED vars
  BY <1>6 DEF vars, Balanced, AllCut
<1> QED
  BY <1>3, <1>4, <1>5, <1>6 DEF Next

-----------------------------------------------------------------------------
(* Theorems. *)

\* The invariant holds in every state.
THEOREM Invariance == Spec => []IInv
  BY InvInit, InvStep, PTL DEF Spec

\* The parts are integers and never more than asked for.
THEOREM TypeCorrect == Spec => []TypeOK
<1>1. IInv => TypeOK
  BY DEF IInv
<1> QED
  BY <1>1, Invariance, PTL

\* With a stroop for every destination, no CREATE is zero or negative,
\* whatever the random numbers are.
THEOREM PartsArePositive == Spec => []PartsPositive
<1>1. IInv => PartsPositive
  BY DEF IInv
<1> QED
  BY <1>1, Invariance, PTL

\* The CREATEs are worth the amount of the request, whatever the random
\* numbers are and however small or negative the amount is.
THEOREM AmountIsConserved == Spec => []Conserved
<1>1. Init => Balanced /\ AllCut
  <2> SUFFICES ASSUME Init PROVE Balanced /\ AllCut
    OBVIOUS
  <2>1. total \in Int /\ result = <<>> /\ remaining = total /\ ~returned
    BY InputsAssumption DEF Init
  <2>2. total - remaining = 0
    BY <2>1
  <2> QED
    BY <2>1, <2>2, EmptySum DEF Balanced, AllCut
<1>2. IInv => TypeOK /\ Short
  BY DEF IInv
<1>3. IInv /\ Balanced /\ AllCut => Conserved
  <2> SUFFICES ASSUME IInv, Balanced, AllCut, returned, parts > 0
               PROVE  Len(result) = parts /\ SumOfParts = total
    BY DEF Conserved
  <2>1. total \in Int /\ Len(result) = parts /\ total - remaining = total
    BY InputsAssumption DEF IInv, TypeOK, AllCut
  <2> QED
    BY <2>1, SumIsSumOfParts DEF Balanced
<1> QED
  BY <1>1, <1>2, <1>3, BalanceStep, Invariance, PTL DEF Spec
=============================================================================
