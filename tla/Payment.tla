------------------------------ MODULE Payment ------------------------------
(***************************************************************************)
(* What an instant payment promises, without the protocol.                 *)
(*                                                                         *)
(* A payment request may be credited to the merchant on-chain, entered in  *)
(* the merchant's transaction log, and reported to the client.  It is      *)
(* logged, and reported completed, only when it has been credited, and it  *)
(* is never credited once it was refused.  A request reported as an error  *)
(* may still be credited: the provider may settle after the server gave    *)
(* up waiting.  Deleting the account erases log entries.                   *)
(***************************************************************************)
CONSTANT Requests

VARIABLES credited, logged, report

vars == <<credited, logged, report>>

Init ==
  /\ credited = {}
  /\ logged = {}
  /\ report = [r \in Requests |-> "none"]

Credit(r) ==
  /\ report[r] # "refused"
  /\ credited' = credited \cup {r}
  /\ UNCHANGED <<logged, report>>

Log(r) ==
  /\ r \in credited
  /\ report[r] = "none"
  /\ logged' = logged \cup {r}
  /\ UNCHANGED <<credited, report>>

Erase(S) ==
  /\ logged' = logged \ S
  /\ UNCHANGED <<credited, report>>

ReportCompleted(r) ==
  /\ r \in credited
  /\ report[r] = "none"
  /\ report' = [report EXCEPT ![r] = "completed"]
  /\ UNCHANGED <<credited, logged>>

ReportRefused(r) ==
  /\ r \notin credited \cup logged
  /\ report[r] = "none"
  /\ report' = [report EXCEPT ![r] = "refused"]
  /\ UNCHANGED <<credited, logged>>

ReportError(r) ==
  /\ report[r] = "none"
  /\ report' = [report EXCEPT ![r] = "error"]
  /\ UNCHANGED <<credited, logged>>

Next ==
  \/ \E r \in Requests :
       \/ Credit(r) \/ Log(r)
       \/ ReportCompleted(r) \/ ReportRefused(r) \/ ReportError(r)
  \/ \E S \in SUBSET Requests : Erase(S)

Spec == Init /\ [][Next]_vars
=============================================================================
