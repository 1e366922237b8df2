---------------------------- MODULE AccountBook ----------------------------
(***************************************************************************)
(* What the account endpoints promise of pay_accounts, without statements  *)
(* and awaits: a request is decided at one moment, by the account as it is *)
(* at that moment, and what it is told is what was decided.                *)
(*                                                                         *)
(* Two moments matter only to requests that looked first (Look): if the    *)
(* account came or went in between, such a request is torn (Torn).         *)
(***************************************************************************)
CONSTANTS
  Requests, Wallets, None,
  Existing   \* the accounts that may exist at the start

VARIABLES
  book,    \* the account of each wallet, or None
  asked,   \* what each request asks for
  mind,    \* what is known or decided of each request
  reply    \* what its client was told

vars == <<book, asked, mind, reply>>

Columns == {"email", "jurisdictionCountryCode", "displayName",
            "opexPublicKey", "encryptedOpexSk", "encryptedDelegationKey"}

Blank == [c \in Columns |-> None]

Says(status, data) == [status |-> status, data |-> data]

Only(columns, account) == [c \in columns |-> account[c]]

\* What an owner, and anybody, may see of an account.
Shown(account) ==
  Only({"email", "jurisdictionCountryCode", "displayName", "opexPublicKey"},
       account)
ShownToAll(account) ==
  Only({"displayName", "jurisdictionCountryCode"}, account)

\* A request writes values of its own into the columns it names.
Written(r, account) ==
  [c \in Columns |-> IF c \in asked[r].sets THEN r ELSE account[c]]

Undecided == {"unread", "absent", "present"}

Init ==
  /\ book \in [Wallets -> Existing \cup {None}]
  /\ asked = [r \in Requests |-> None]
  /\ mind = [r \in Requests |-> Says("unread", None)]
  /\ reply = [r \in Requests |-> None]

\* Anything may be asked, once.
Ask(r) ==
  /\ asked[r] = None
  /\ asked' = [asked EXCEPT ![r] = asked'[r]]
  /\ UNCHANGED <<book, mind, reply>>

Look(r) ==
  /\ mind[r].status = "unread"
  /\ mind' = [mind EXCEPT ![r] =
       Says(IF book[asked[r].wallet] = None THEN "absent" ELSE "present",
            None)]
  /\ UNCHANGED <<book, asked, reply>>

Decide(r, after, answer) ==
  /\ mind[r].status \in Undecided
  /\ book' = [book EXCEPT ![asked[r].wallet] = after]
  /\ mind' = [mind EXCEPT ![r] = answer]
  /\ UNCHANGED <<asked, reply>>

\* A body that offers nothing acceptable.
Malformed(r) ==
  asked[r].op \in {"post", "patch", "opex", "delegation"} /\ asked[r].sets = {}

\* It changes nothing.
Refuse(r) ==
  /\ Malformed(r)
  /\ Decide(r, book[asked[r].wallet], Says("BadRequest", None))

Absent(r) ==
  /\ book[asked[r].wallet] = None
  /\ \/ asked[r].op # "post" /\ Decide(r, None, Says("NotFound", None))
     \/ /\ asked[r].op = "post" /\ ~Malformed(r)
        /\ LET created == Written(r, Blank) IN
           Decide(r, created, Says("Created", Shown(created)))

Present(r) ==
  LET account == book[asked[r].wallet]
      edited == Written(r, account) IN
  /\ account # None
  /\ ~Malformed(r)
  /\ \/ /\ asked[r].op \in {"post", "get"}
        /\ Decide(r, account, Says("OK", Shown(account)))
     \/ /\ asked[r].op = "public"
        /\ Decide(r, account,
             IF account["encryptedDelegationKey"] = None
             THEN Says("ServiceUnavailable", None)
             ELSE Says("OK", ShownToAll(account)))
     \/ asked[r].op = "delete" /\ Decide(r, None, Says("NoContent", None))
     \/ asked[r].op = "patch" /\ Decide(r, edited, Says("OK", Shown(edited)))
     \/ /\ asked[r].op = "opex"
        /\ Decide(r, edited, Says("OK", Only({"opexPublicKey"}, edited)))
     \/ asked[r].op = "delegation" /\ Decide(r, edited, Says("NoContent", None))

\* An account created since a POST found none: the POST fails.  An account
\* deleted since it was found: the request fails, but for the registration
\* of an OpEx account, which is told what it would have been told before.
Torn(r) ==
  LET account == book[asked[r].wallet] IN
  /\ ~Malformed(r)
  /\ \/ /\ asked[r].op = "post"
        /\ mind[r].status = "absent" /\ account # None
        /\ Decide(r, account, Says("Torn", None))
     \/ /\ asked[r].op \in {"patch", "delegation"}
        /\ mind[r].status = "present" /\ account = None
        /\ Decide(r, account, Says("Torn", None))
     \/ /\ asked[r].op = "opex"
        /\ mind[r].status = "present" /\ account = None
        /\ Decide(r, account, Says("OK", [c \in {"opexPublicKey"} |-> r]))

Tell(r) ==
  /\ mind[r].status \notin Undecided
  /\ reply[r] = None
  /\ reply' = [reply EXCEPT ![r] = mind[r]]
  /\ UNCHANGED <<book, asked, mind>>

\* An error promises nothing: the request may have been decided or not.
Fail(r) ==
  /\ reply[r] = None
  /\ reply' = [reply EXCEPT ![r] = Says("error", None)]
  /\ UNCHANGED <<book, asked, mind>>

Next ==
  \E r \in Requests :
    \/ Ask(r)
    \/ /\ asked[r] # None
       /\ \/ Look(r)
          \/ Refuse(r) \/ Absent(r) \/ Present(r) \/ Torn(r)
          \/ Tell(r) \/ Fail(r)

Spec == Init /\ [][Next]_vars
=============================================================================
