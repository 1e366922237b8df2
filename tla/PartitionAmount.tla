-------------------------- MODULE PartitionAmount ---------------------------
(***************************************************************************)
(* partitionAmount (src/src/http/v1/pay/instant-execute.ts:416-430): how a *)
(* payment is cut into one random CREATE amount per destination.  It runs  *)
(* after the deposit has landed, so an amount no CREATE can carry strands  *)
(* the money.                                                              *)
(***************************************************************************)
EXTENDS Integers, Sequences

CONSTANTS
  Totals,  \* amountStroops: BigInt of the request's string, of either sign
  Parts,   \* number of destinations
  Exact,   \* 2^53: up to here a Number is any integer
  Spacings \* 1, 2, 4, ...: the distances of Numbers in the ranges above

ASSUME InputsAssumption == Totals \subseteq Int /\ Parts \subseteq Nat
ASSUME NumbersAssumption == Exact \in Nat \ {0} /\ Spacings \subseteq Nat \ {0}

VARIABLES total, parts, result, remaining, returned

vars == <<total, parts, result, remaining, returned>>

TypeOK ==
  /\ total \in Totals /\ parts \in Parts
  /\ result \in Seq(Int) /\ Len(result) <= parts
  /\ remaining \in Int /\ returned \in BOOLEAN

Init ==
  /\ total \in Totals /\ parts \in Parts
  /\ result = <<>> /\ remaining = total
  /\ returned = FALSE

\* Mutant: nothing is kept for the parts to come.
MaxKeepingNone == remaining

\* maxForThis: one stroop is kept for each part to come.
MaxForThis == remaining - (parts - Len(result) - 1)

Abs(n) == IF n < 0 THEN -n ELSE n

\* The distance from n to the next Number towards zero: the smallest that
\* reaches n.  (None does if n is too large for a finite Number.)
SpacingAt(n) ==
  {u \in Spacings :
     /\ Abs(n) <= Exact * u
     /\ \A w \in Spacings : Abs(n) <= Exact * w => u <= w}

\* Number(n): a closest Number, above n or below.
Number(n) ==
  UNION {{x \in {k * u : k \in -Exact..Exact} : 2 * Abs(x - n) <= u} :
           u \in SpacingAt(n)}

\* The products of x with a random number below 1, rounded down: the largest
\* is the Number before x.  If x is negative they round away from zero.
Products(x) ==
  UNION {IF x > 0 THEN 0..(x - u) ELSE (x + u - 1)..0 : u \in SpacingAt(x)}

\* 1n + BigInt(Math.floor(Math.random() * Number(maxForThis - 1n))).
Portions ==
  {1 + product : product \in UNION {Products(x) : x \in Number(MaxForThis - 1)}}

Cut ==
  /\ ~returned /\ Len(result) < parts - 1
  /\ \E portion \in Portions :
       /\ result' = Append(result, portion)
       /\ remaining' = remaining - portion
  /\ UNCHANGED <<total, parts, returned>>

\* Mutant: the last part is one portion more, not the rest.
CloseWithPortion ==
  /\ ~returned /\ parts > 0 /\ Len(result) >= parts - 1
  /\ \E portion \in Portions : result' = Append(result, portion)
  /\ remaining' = 0 /\ returned' = TRUE
  /\ UNCHANGED <<total, parts>>

\* What remains is the last part, also if it is the only one.
Close ==
  /\ ~returned /\ parts > 0 /\ Len(result) >= parts - 1
  /\ result' = Append(result, remaining)
  /\ remaining' = 0 /\ returned' = TRUE
  /\ UNCHANGED <<total, parts>>

\* No destination, no part.
ReturnNothing ==
  /\ ~returned /\ parts = 0
  /\ returned' = TRUE
  /\ UNCHANGED <<total, parts, result, remaining>>

Next == Cut \/ Close \/ ReturnNothing

Spec == Init /\ [][Next]_vars

-----------------------------------------------------------------------------
(* Properties. *)

\* The sum of the parts cut so far.
SumOfParts ==
  LET sum[n \in 0..Len(result)] ==
        IF n = 0 THEN 0 ELSE sum[n - 1] + result[n]
  IN sum[Len(result)]

\* Nothing is lost or made up, whatever the random numbers: the CREATEs are
\* worth the amount of the request, which the deposit operation and the
\* logged row also carry (lines 224-225, 267-285).
Conserved == returned /\ parts > 0 => Len(result) = parts /\ SumOfParts = total

\* If there is a stroop for every destination, every CREATE gets one or
\* more: also of amounts above 2^53 stroops, where Number may round the
\* factor up (lines 418-428).  (With fewer stroops than destinations, fewer
\* than five on what prepare offers, a part can be zero or negative.)
PartsPositive ==
  total >= parts => \A n \in 1..Len(result) : result[n] >= 1
=============================================================================
