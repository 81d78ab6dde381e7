------------------------------ MODULE LoginGate ------------------------------
(***************************************************************************)
(* What login by one-time code promises, whatever the statements in        *)
(* between: a session is opened by a request that has presented a code     *)
(* issued for the account's email, at a moment when that code was live,    *)
(* and only once the code is dead, for good.  A code is issued when its    *)
(* row is in the table, whether or not the mail with it ever arrives.      *)
(* OtpLogin implements this module.                                        *)
(***************************************************************************)

EXTENDS Integers

CONSTANTS OtpIds, Codes, Emails, UserIds, Requests, None

VARIABLES
  life,      \* of each row of otp_codes: fresh, live or dead
  secret,    \* of each row: the code and the email it is for
  presents,  \* of each request: the code and the email it comes with
  claim,     \* of each request: the row it has matched, 0 without one
  account,   \* of each email: its user id, None without one
  opened     \* of each user id: the sessions opened

vars == <<life, secret, presents, claim, account, opened>>

Init ==
  /\ life = [i \in OtpIds |-> "fresh"]
  /\ secret = [i \in OtpIds |-> None]
  /\ presents = [r \in Requests |-> None]
  /\ claim = [r \in Requests |-> 0]
  /\ account = [e \in Emails |-> None]
  /\ opened = [u \in UserIds |-> 0]

\* A code is made for an email (its mailing is no part of this promise).
Issue(i, code, e) ==
  /\ life[i] = "fresh"
  /\ life' = [life EXCEPT ![i] = "live"]
  /\ secret' = [secret EXCEPT ![i] = <<code, e>>]
  /\ UNCHANGED <<presents, claim, account, opened>>

Live == {i \in OtpIds : life[i] = "live"}

\* Requests that are answered without access, or die with the server.
Leave(Q) ==
  /\ presents' = [r \in Requests |-> IF r \in Q THEN None ELSE presents[r]]
  /\ claim' = [r \in Requests |-> IF r \in Q THEN 0 ELSE claim[r]]

\* Codes are consumed, deleted, run out of attempts or out of time.
Die(S, Q) ==
  /\ life' = [i \in OtpIds |-> IF i \in S THEN "dead" ELSE life[i]]
  /\ Leave(Q)
  /\ UNCHANGED <<secret, account, opened>>

Present(r, code, e) ==
  /\ claim[r] = 0
  /\ presents' = [presents EXCEPT ![r] = <<code, e>>]
  /\ UNCHANGED <<life, secret, claim, account, opened>>

Claim(r, i) ==
  /\ i \in Live /\ secret[i] = presents[r]
  /\ claim' = [claim EXCEPT ![r] = i]
  /\ presents' = [presents EXCEPT ![r] = None]
  /\ UNCHANGED <<life, secret, account, opened>>

\* Whether its claim is spent: only then does it give access.
Spent(r) == claim[r] # 0 /\ life[claim[r]] = "dead"

\* The email the code is for.
Owner(r) == secret[claim[r]][2]

\* The account of that email, made if there is none yet.
SignUp(r, id, Q) ==
  /\ Spent(r)
  /\ IF account[Owner(r)] # None THEN id = account[Owner(r)]
     ELSE \A x \in Emails : account[x] # id
  /\ account' = [account EXCEPT ![Owner(r)] = id]
  /\ Leave(Q)
  /\ UNCHANGED <<life, secret, opened>>

Login(r) ==
  /\ Spent(r) /\ account[Owner(r)] # None
  /\ opened' = [opened EXCEPT ![account[Owner(r)]] = @ + 1]
  /\ claim' = [claim EXCEPT ![r] = 0]
  /\ UNCHANGED <<life, secret, presents, account>>

Next ==
  \/ \E S \in SUBSET Live, Q \in SUBSET Requests : Die(S, Q)
  \/ \E i \in OtpIds, code \in Codes, e \in Emails : Issue(i, code, e)
  \/ \E r \in Requests, code \in Codes, e \in Emails : Present(r, code, e)
  \/ \E r \in Requests, i \in OtpIds : Claim(r, i)
  \/ \E r \in Requests, id \in UserIds : \E Q \in SUBSET {r} : SignUp(r, id, Q)
  \/ \E r \in Requests : Login(r)

Spec == Init /\ [][Next]_vars
=============================================================================
