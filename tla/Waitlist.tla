------------------------------ MODULE Waitlist ------------------------------
(***************************************************************************)
(* POST /waitlist (src/src/http/v1/waitlist/): look the wallet up, update  *)
(* or insert its row, tell Discord, answer.  The endpoint is open, and     *)
(* applications of one wallet may overlap; a unique index on the wallet is *)
(* what keeps them apart.                                                  *)
(***************************************************************************)
EXTENDS Connections, Naturals

VARIABLES
  \* table waitlist_requests: the rows of wallets, and those of no wallet.
  \* An address stands for the connection that sent it.
  waitlist, walkIns,
  \* the handlers: where they are parked, and for which wallet
  wstage, applicant,
  \* Discord: the last application it was told of
  told,
  \* history: how often an application of a wallet was found to be new
  welcomed

waitVars == <<waitlist, walkIns, wstage, applicant, told, welcomed>>

WaitTypeOK ==
  /\ waitlist \in [Wallets -> Slots \cup {None}]
  /\ walkIns \in SUBSET Slots
  /\ wstage \in [Slots -> {"out", "find", "insert", "update", "notify"}]
  /\ applicant \in [Slots -> Wallets \cup {None}]
  /\ told \in (Slots \X (Wallets \cup {None})) \cup {None}
  /\ welcomed \in [Wallets -> Nat]

WaitInit ==
  /\ waitlist = [w \in Wallets |-> None]
  /\ walkIns = {}
  /\ wstage = [s \in Slots |-> "out"]
  /\ applicant = [s \in Slots |-> None]
  /\ told = None
  /\ welcomed = [w \in Wallets |-> 0]

\* A valid address with a wallet, or without one.
Apply(s, w) ==
  /\ wstage[s] = "out"
  /\ applicant' = [applicant EXCEPT ![s] = w]
  /\ wstage' = [wstage EXCEPT ![s] = IF w = None THEN "insert" ELSE "find"]
  /\ UNCHANGED <<waitlist, walkIns, told, welcomed>>

FindApplicant(s) ==
  /\ wstage[s] = "find"
  /\ wstage' = [wstage EXCEPT ![s] =
       IF waitlist[applicant[s]] = None THEN "insert" ELSE "update"]
  /\ UNCHANGED <<waitlist, walkIns, applicant, told, welcomed>>

\* Rows are never deleted: what was found is still there.
UpdateEmail(s) ==
  /\ wstage[s] = "update"
  /\ waitlist' = [waitlist EXCEPT ![applicant[s]] = s]
  /\ wstage' = [wstage EXCEPT ![s] = "notify"]
  /\ UNCHANGED <<walkIns, applicant, told, welcomed>>

\* Mutant: the table has no unique index.
InsertAnyway(s) ==
  LET w == applicant[s] IN
  /\ wstage[s] = "insert"
  /\ w # None
  /\ waitlist' = [waitlist EXCEPT ![w] = s]
  /\ welcomed' = [welcomed EXCEPT ![w] = @ + 1]
  /\ wstage' = [wstage EXCEPT ![s] = "notify"]
  /\ UNCHANGED <<walkIns, applicant, told>>

\* The index refuses a second row of a wallet, but not of no wallet.
InsertApplication(s) ==
  LET w == applicant[s] IN
  /\ wstage[s] = "insert"
  /\ wstage' = [wstage EXCEPT ![s] = "notify"]
  /\ \/ /\ w = None
        /\ walkIns' = walkIns \cup {s}
        /\ UNCHANGED <<waitlist, welcomed>>
     \/ /\ w # None /\ waitlist[w] = None
        /\ waitlist' = [waitlist EXCEPT ![w] = s]
        /\ welcomed' = [welcomed EXCEPT ![w] = @ + 1]
        /\ UNCHANGED walkIns
  /\ UNCHANGED <<applicant, told>>

\* The call of Discord is not waited for, and may fail.
NotifyDiscord(s) ==
  /\ wstage[s] = "notify"
  /\ told' \in {told, <<s, applicant[s]>>}
  /\ wstage' = [wstage EXCEPT ![s] = "out"]
  /\ applicant' = [applicant EXCEPT ![s] = None]
  /\ UNCHANGED <<waitlist, walkIns, welcomed>>

\* A statement fails, or the index refuses the row: nobody catches it.
FailToApply(s) ==
  /\ wstage[s] # "out"
  /\ wstage' = [wstage EXCEPT ![s] = "out"]
  /\ applicant' = [applicant EXCEPT ![s] = None]
  /\ UNCHANGED <<waitlist, walkIns, told, welcomed>>

ApplyStep(s) ==
  \/ FindApplicant(s) \/ UpdateEmail(s) \/ InsertApplication(s)
  \/ NotifyDiscord(s) \/ FailToApply(s)

LoseApplications ==
  /\ wstage' = [s \in Slots |-> "out"]
  /\ applicant' = [s \in Slots |-> None]
  /\ UNCHANGED <<waitlist, walkIns, told, welcomed>>

-----------------------------------------------------------------------------
(* Properties. *)

\* However applications overlap, fail or are repeated, a wallet is new once,
\* and Discord hears only of what is on the list.
ListedOnce ==
  /\ \A w \in Wallets : welcomed[w] <= 1
  /\ told # None =>
       IF told[2] = None THEN told[1] \in walkIns ELSE waitlist[told[2]] # None
=============================================================================
