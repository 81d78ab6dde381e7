------------------------------ MODULE OtpLimits ------------------------------
(***************************************************************************)
(* What is left of the limits of package auth (attempts, single use,       *)
(* resend cooldown, the cleanup) when handlers of one email overlap.  The  *)
(* server puts no bound on that, so each limit is stated against a history *)
(* of how many did: at one it is the limit the comments of otp.go promise, *)
(* in any run of the server in which the requests of that email came one   *)
(* after another, whatever those of other emails did.                      *)
(***************************************************************************)
EXTENDS OtpLogin

VARIABLE
  crowd   \* auxiliary, of each email: the most of its handlers ever in flight together

lvars == <<vars, crowd>>

\* The handlers of e that run, or whose last statement Postgres still has.
InFlight(e) == {r \in Requests : h[r].email = e}

Crowding ==
  crowd' = [e \in Emails |->
              LET n == Cardinality(InFlight(e)') IN IF n > crowd[e] THEN n ELSE crowd[e]]

LimitsInit == Init /\ crowd = [e \in Emails |-> 0]

LimitsNext == Next /\ Crowding

LimitsSpec == LimitsInit /\ [][LimitsNext]_lvars

-----------------------------------------------------------------------------
(* Properties                                                              *)

\* "Once attempts reach otpMaxAttempts, every subsequent call returns
\* errInvalidCode": handlers that read the counter before others have written
\* it charge a code with at most one wrong attempt more for each that overlaps.
AttemptsBounded ==
  \A i \in 1..last_id :
    otp_codes[i].attempts <= otpMaxAttempts - 1 + crowd[otp_codes[i].email]

\* "createOTP enforces the resend cooldown": when createOTP's look at the last
\* code and its INSERT interleave with others, an email has at most as many
\* codes younger than the cooldown as handlers of it overlapped.
Recent(e) == {i \in Stored(e) : now - otp_codes[i].created_at < otpResendCooldown}
CooldownBounded == \A e \in Emails : Cardinality(Recent(e)) <= crowd[e]

\* "On success the code is marked consumed so it cannot be replayed": a code
\* opens no more sessions than handlers of its email overlapped, whatever
\* statement after the UPDATE fails.
LoginsBounded ==
  \A i \in 1..last_id : otp_codes[i].logins <= crowd[otp_codes[i].email]

\* "deleteOTP undoes createOTP's insert": as long as the handlers of an email
\* never overlapped, no row of it is deleted but by the handler that inserted
\* it, although the DELETE only knows the email.
LoneCleanupUndoesOwnInsert ==
  [][\A i \in OtpIds : otp_codes[i].stored /\ ~otp_codes'[i].stored =>
       \/ crowd[otp_codes[i].email] > 1
       \/ \E r \in Requests : At(r, "cleanup") /\ h[r].row = i /\ Idle(r)']_lvars

=============================================================================
