----------------------------- MODULE MCAccounts -----------------------------
(***************************************************************************)
(* Instances of Accounts for TLC.                                          *)
(***************************************************************************)
EXTENDS Accounts, TLC

\* An account that has just been created, and one that was set up.
Fresh == [c \in Columns |->
  IF c \in {"email", "jurisdictionCountryCode"} THEN Old ELSE None]
SetUp == [c \in Columns |-> Old]
Rows == {Fresh, SetUp}

Ask(op, columns) == [op |-> op, sets |-> columns]

\* One body for each operation, and one without anything acceptable for each
\* order of look-up and body.
Asks ==
  {Ask("post", {}), Ask("post", {"email", "jurisdictionCountryCode"}),
   Ask("patch", {}), Ask("patch", {"email"}),
   Ask("opex", {"opexPublicKey", "encryptedOpexSk"}),
   Ask("delegation", {"encryptedDelegationKey"}),
   Ask("get", {}), Ask("delete", {}), Ask("public", {})}

Alike == Permutations(Requests)
=============================================================================
