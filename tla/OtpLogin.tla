------------------------------ MODULE OtpLogin ------------------------------
(***************************************************************************)
(* Login by one-time code: package backend/internal/auth, from POST        *)
(* /api/auth/otp/request to the session that POST /api/auth/otp/verify     *)
(* opens.  net/http runs every request in a goroutine of its own and no    *)
(* handler opens a transaction, so each SQL statement is one atomic step   *)
(* and the statements of different requests interleave freely.             *)
(***************************************************************************)
EXTENDS Integers, FiniteSets

CONSTANTS
  Addresses,         \* spellings of an email as a client may submit them
  Emails,            \* normalized emails
  normalizeEmail,    \* what normalizeEmail makes of a spelling; None: ""
  Codes,             \* the one-time codes
  UserIds,           \* values of the users.id identity column
  Requests,          \* the requests that may be in flight at the same time
  None,              \* an absent value
  otpCodeTTL, otpMaxAttempts, otpResendCooldown,
  MaxOtp,            \* bound: rows ever inserted into otp_codes
  MaxTime            \* bound: clock

ASSUME AddressesAssumption == normalizeEmail \in [Addresses -> Emails \cup {None}]
ASSUME NoneAssumption == None \notin Emails \cup Codes \cup UserIds
ASSUME RequestsAssumption == IsFiniteSet(Requests) /\ Requests # {}
ASSUME LimitsAssumption ==
  /\ otpMaxAttempts \in Nat \ {0}
  /\ otpResendCooldown \in Nat \ {0}
  /\ otpCodeTTL \in Nat
  /\ MaxOtp \in Nat
  /\ MaxTime \in Nat

VARIABLES
  now,         \* the clock, Go's time.Now() and Postgres's now() alike
  otp_codes,   \* table otp_codes, by id
  last_id,     \* the last id its identity column has handed out
  users,       \* table users: the id of each email, None where there is none
  sessions,    \* table sessions: the number of rows of each user_id
  h            \* the handler of each request: where it stands, its locals

vars == <<now, otp_codes, last_id, users, sessions, h>>

OtpIds == 1..MaxOtp

\* The statement a running handler is at.
RequestSteps == {"lookup", "insert", "send", "cleanup"}
VerifySteps == {"select", "reject", "consume", "upsert", "session"}
WriteSteps == (RequestSteps \cup VerifySteps) \ {"lookup", "send", "select"}

\* stored: the row is in the table (FALSE before INSERT and after DELETE).
\* logins: history, the sessions opened from this code.
OtpRow == [stored : BOOLEAN, email : Emails \cup {None},
           code_hash : (Codes \X Emails) \cup {None}, attempts : Nat,
           expires_at : Nat, consumed : BOOLEAN, created_at : Nat, logins : Nat]

\* row: the otp_codes row a handler works on.  On the request path it is
\* history: createOTP does not keep the id it inserted.
\* gone: nobody waits for the statement any more, but Postgres still has it.
Handler == [pc : {"idle"} \cup RequestSteps \cup VerifySteps,
            email : Emails \cup {None}, code : Codes \cup {None},
            row : OtpIds \cup {0}, user : UserIds \cup {None}, gone : BOOLEAN]

Blank == [pc |-> "idle", email |-> None, code |-> None, row |-> 0, user |-> None,
          gone |-> FALSE]

hashCode(code, email) == <<code, email>>

-----------------------------------------------------------------------------
\* SELECT ... WHERE email = e: the ids of the rows found.
Stored(e) == {i \in OtpIds : otp_codes[i].stored /\ otp_codes[i].email = e}

\* The mutants of this module, named <definition>_<what is wrong>, are bugs the
\* code might have had; nothing else uses them.
Unconsumed_Any(e) == Stored(e)

\* ... AND consumed_at IS NULL
Unconsumed(e) == {i \in Stored(e) : ~otp_codes[i].consumed}

\* ORDER BY created_at DESC, id DESC LIMIT 1: the one row, or none, of S.
Newest(S) ==
  {i \in S : \A j \in S : \/ otp_codes[j].created_at < otp_codes[i].created_at
                          \/ otp_codes[j].created_at = otp_codes[i].created_at /\ j <= i}

\* UPDATE ... WHERE id = i changes nothing once row i is gone.
Update(i, row) ==
  otp_codes' = IF otp_codes[i].stored THEN [otp_codes EXCEPT ![i] = row] ELSE otp_codes

At(r, step) == h[r].pc = step
Idle(r) == At(r, "idle")

\* One handler moves on; Answer: it writes its answer and returns; Left: it is
\* gone, its statement is not.
Become(r, handler) == h' = [h EXCEPT ![r] = handler]
Goto(r, step) == Become(r, [h[r] EXCEPT !.pc = step])
Answer(r) == Become(r, Blank)
Left(r) == [h[r] EXCEPT !.gone = TRUE]

Init ==
  /\ now = 0
  /\ otp_codes = [i \in OtpIds |->
       [stored |-> FALSE, email |-> None, code_hash |-> None, attempts |-> 0,
        expires_at |-> 0, consumed |-> FALSE, created_at |-> 0, logins |-> 0]]
  /\ last_id = 0
  /\ users = [e \in Emails |-> None]
  /\ sessions = [u \in UserIds |-> 0]
  /\ h = [r \in Requests |-> Blank]

-----------------------------------------------------------------------------
(* POST /api/auth/otp/request                                              *)

\* RequestOTP up to createOTP: a body without a usable email gets a 400.
\* Room bounds the environment: no more requests than ids are left for.
Room == last_id + Cardinality({q \in Requests : h[q].pc \in {"lookup", "insert"}}) < MaxOtp

RequestOTP(r, address) ==
  /\ Idle(r) /\ Room
  /\ IF normalizeEmail[address] = None
       THEN Answer(r)
       ELSE Become(r, [Blank EXCEPT !.pc = "lookup", !.email = normalizeEmail[address]])
  /\ UNCHANGED <<now, otp_codes, last_id, users, sessions>>

CheckCooldown_OfUnconsumed(r) ==
  LET mine == Unconsumed(h[r].email)
      Age(i) == now - otp_codes[i].created_at
  IN /\ At(r, "lookup")
     /\ \A i \in Newest(mine) : Age(i) >= otpResendCooldown
     /\ \E code \in Codes : Become(r, [h[r] EXCEPT !.pc = "insert", !.code = code])
     /\ UNCHANGED <<now, otp_codes, last_id, users, sessions>>

\* Runs under a lock that the handler keeps until its mail is sent.
CheckCooldown_Locked(r) ==
  LET mine == Stored(h[r].email)
      Age(i) == now - otp_codes[i].created_at
  IN /\ At(r, "lookup")
     /\ \A q \in Requests : ~At(q, "send")
     /\ \/ \E i \in Newest(mine) : Age(i) < otpResendCooldown /\ Answer(r)
        \/ /\ \A i \in Newest(mine) : Age(i) >= otpResendCooldown
           /\ \E code \in Codes : Become(r, [h[r] EXCEPT !.pc = "insert", !.code = code])
     /\ UNCHANGED <<now, otp_codes, last_id, users, sessions>>

\* createOTP: the newest code of this email decides; then generateCode.
CheckCooldown(r) ==
  LET mine == Stored(h[r].email)
      Age(i) == now - otp_codes[i].created_at
  IN /\ At(r, "lookup")
     /\ \/ /\ \E i \in Newest(mine) : Age(i) < otpResendCooldown  \* errTooSoon: 429
           /\ Answer(r)
        \/ /\ mine = {} \/ \E i \in Newest(mine) : Age(i) >= otpResendCooldown
           /\ \E code \in Codes :
                Become(r, [h[r] EXCEPT !.pc = "insert", !.code = code])
     /\ UNCHANGED <<now, otp_codes, last_id, users, sessions>>

\* createOTP: INSERT INTO otp_codes.
InsertOTP(r) ==
  LET id == last_id + 1
  IN /\ At(r, "insert")
     /\ last_id < MaxOtp
     /\ last_id' = id
     /\ otp_codes' = [otp_codes EXCEPT ![id] =
          [stored |-> TRUE, email |-> h[r].email,
           code_hash |-> hashCode(h[r].code, h[r].email), attempts |-> 0,
           expires_at |-> now + otpCodeTTL, consumed |-> FALSE,
           created_at |-> now, logins |-> 0]]
     /\ \/ ~h[r].gone /\ Become(r, [h[r] EXCEPT !.pc = "send", !.row = id, !.code = None])
        \/ Answer(r)
     /\ UNCHANGED <<now, users, sessions>>

\* h.mailer.SendOTP: the relay takes the mail or reports an error.
SendOTP(r) ==
  /\ At(r, "send")
  /\ Answer(r) \/ Goto(r, "cleanup")
  /\ UNCHANGED <<now, otp_codes, last_id, users, sessions>>

DeleteOTP_AllOfEmail(r) ==
  /\ At(r, "cleanup")
  /\ otp_codes' = [i \in OtpIds |->
       [otp_codes[i] EXCEPT !.stored = @ /\ otp_codes[i].email # h[r].email]]
  /\ Answer(r)
  /\ UNCHANGED <<now, last_id, users, sessions>>

\* deleteOTP: DELETE of whatever row of this email is the newest by now.
DeleteOTP(r) ==
  LET mine == Stored(h[r].email)
  IN /\ At(r, "cleanup")
     /\ \/ mine = {} /\ UNCHANGED otp_codes
        \/ \E i \in Newest(mine) : otp_codes' = [otp_codes EXCEPT ![i].stored = FALSE]
     /\ Answer(r)
     /\ UNCHANGED <<now, last_id, users, sessions>>

-----------------------------------------------------------------------------
(* POST /api/auth/otp/verify                                               *)

\* VerifyOTP up to verifyOTP: an email and a code are required.
VerifyOTP(r, address, code) ==
  /\ Idle(r)
  /\ IF normalizeEmail[address] = None \/ code = None
       THEN Answer(r)
       ELSE Become(r, [Blank EXCEPT !.pc = "select", !.code = code,
                                    !.email = normalizeEmail[address]])
  /\ UNCHANGED <<now, otp_codes, last_id, users, sessions>>

Acceptable_OffByOne(i) ==
  /\ otp_codes[i].attempts <= otpMaxAttempts
  /\ now <= otp_codes[i].expires_at

\* verifyOTP: attempts left and not expired.
Acceptable(i) ==
  /\ otp_codes[i].attempts < otpMaxAttempts
  /\ now <= otp_codes[i].expires_at

\* verifyOTP: the newest unconsumed code of this email decides.
CheckCode(r) ==
  LET open == Unconsumed(h[r].email)
      Matches(i) == otp_codes[i].code_hash = hashCode(h[r].code, h[r].email)
  IN /\ At(r, "select")
     /\ \/ /\ open = {} \/ \E i \in Newest(open) : ~Acceptable(i)
           /\ Answer(r)                                     \* errInvalidCode: 400
        \/ \E i \in Newest(open) :
             /\ Acceptable(i)
             /\ Become(r, [h[r] EXCEPT !.pc = IF Matches(i) THEN "consume" ELSE "reject",
                                       !.row = i, !.code = None])
     /\ UNCHANGED <<now, otp_codes, last_id, users, sessions>>

\* Writes back the whole row as it was read, unconsumed.
RecordFailedAttempt_WholeRow(r) ==
  LET i == h[r].row
  IN /\ At(r, "reject")
     /\ Update(i, [otp_codes[i] EXCEPT !.attempts = @ + 1, !.consumed = FALSE])
     /\ Answer(r)
     /\ UNCHANGED <<now, last_id, users, sessions>>

\* verifyOTP: a wrong code costs the row it was compared with one attempt.
RecordFailedAttempt(r) ==
  LET i == h[r].row
  IN /\ At(r, "reject")
     /\ Update(i, [otp_codes[i] EXCEPT !.attempts = @ + 1])
     /\ Answer(r)
     /\ UNCHANGED <<now, last_id, users, sessions>>

\* verifyOTP: the matching row is marked consumed, whatever its state by now.
ConsumeOTP(r) ==
  LET i == h[r].row
  IN /\ At(r, "consume")
     /\ Update(i, [otp_codes[i] EXCEPT !.consumed = TRUE])
     /\ (~h[r].gone /\ Goto(r, "upsert")) \/ Answer(r)
     /\ UNCHANGED <<now, last_id, users, sessions>>

\* ON CONFLICT DO NOTHING: no row, so no id, for an email that has an account.
UpsertUser_DoNothing(r) ==
  LET e == h[r].email
  IN /\ At(r, "upsert")
     /\ \/ users[e] # None /\ Goto(r, "session") /\ UNCHANGED users
        \/ /\ users[e] = None
           /\ \E id \in UserIds :
                /\ \A x \in Emails : users[x] # id
                /\ users' = [users EXCEPT ![e] = id]
                /\ Become(r, [h[r] EXCEPT !.pc = "session", !.user = id])
     /\ UNCHANGED <<now, otp_codes, last_id, sessions>>

\* The account is created anew by every login.
UpsertUser_Replace(r) ==
  /\ At(r, "upsert")
  /\ \E id \in UserIds :
       /\ \A x \in Emails : users[x] # id
       /\ users' = [users EXCEPT ![h[r].email] = id]
       /\ Become(r, [h[r] EXCEPT !.pc = "session", !.user = id])
  /\ UNCHANGED <<now, otp_codes, last_id, sessions>>

\* upsertUser: INSERT ... ON CONFLICT (email) DO UPDATE ... RETURNING id.
UpsertUser(r) ==
  LET e == h[r].email
  IN /\ At(r, "upsert")
     /\ \E id \in UserIds :
          /\ IF users[e] # None THEN id = users[e] ELSE \A x \in Emails : users[x] # id
          /\ users' = [users EXCEPT ![e] = id]
          /\ \/ ~h[r].gone /\ Become(r, [h[r] EXCEPT !.pc = "session", !.user = id])
             \/ Answer(r)
     /\ UNCHANGED <<now, otp_codes, last_id, sessions>>

\* createSession: INSERT INTO sessions (under a fresh random id, which nothing
\* here tells apart from another).
CreateSession(r) ==
  /\ At(r, "session")
  /\ sessions' = [sessions EXCEPT ![h[r].user] = @ + 1]
  /\ otp_codes' = [otp_codes EXCEPT ![h[r].row].logins = @ + 1]
  /\ Answer(r)
  /\ UNCHANGED <<now, last_id, users>>

-----------------------------------------------------------------------------
\* Any statement may fail without effect: a database error, or the request's
\* context cancelled because the client has gone (the mailer ignores it).  A
\* statement that writes may also fail after its effect: the second disjunct
\* of its action.
DatabaseError(r) ==
  /\ h[r].pc \in (RequestSteps \cup VerifySteps) \ {"send"}
  /\ Answer(r)
  /\ UNCHANGED <<now, otp_codes, last_id, users, sessions>>

\* The context is cancelled or the connection lost while Postgres has the
\* statement: the handler is answered with an error, the effect may come later.
Abandon(r) ==
  /\ h[r].pc \in WriteSteps /\ ~h[r].gone
  /\ Become(r, Left(r))
  /\ UNCHANGED <<now, otp_codes, last_id, users, sessions>>

\* The server dies and is restarted: the handlers are lost, the tables stay,
\* and so do the statements S that Postgres has already been given.
Crash ==
  /\ \E r \in Requests : ~Idle(r)
  /\ \E S \in SUBSET {r \in Requests : h[r].pc \in WriteSteps} :
       h' = [r \in Requests |-> IF r \in S THEN Left(r) ELSE Blank]
  /\ UNCHANGED <<now, otp_codes, last_id, users, sessions>>

Tick ==
  /\ now < MaxTime
  /\ now' = now + 1
  /\ UNCHANGED <<otp_codes, last_id, users, sessions, h>>

\* The rest of a handler once its request has been read, the relay apart.
Handle(r) ==
  \/ CheckCooldown(r) \/ InsertOTP(r) \/ DeleteOTP(r)
  \/ CheckCode(r) \/ RecordFailedAttempt(r) \/ ConsumeOTP(r)
  \/ UpsertUser(r) \/ CreateSession(r)

Next ==
  \/ \E r \in Requests, a \in Addresses : RequestOTP(r, a)
  \/ \E r \in Requests, a \in Addresses, c \in Codes \cup {None} : VerifyOTP(r, a, c)
  \/ \E r \in Requests : Handle(r) \/ SendOTP(r) \/ DatabaseError(r) \/ Abandon(r)
  \/ Crash
  \/ Tick

Spec == Init /\ [][Next]_vars

\* Goroutines are scheduled and statements return.  Nothing makes the relay
\* answer: smtp.SendMail has no deadline and is not given the context.
FairSpec == Spec /\ \A r \in Requests : WF_vars(Handle(r))

-----------------------------------------------------------------------------
(* Properties                                                              *)

\* What a handler has in hand at each statement.
LocalsOK(r) ==
  /\ ~Idle(r) => h[r].email \in Emails
  /\ At(r, "insert") => h[r].code \in Codes
  /\ h[r].pc \in VerifySteps \ {"select"} =>
       h[r].row \in 1..last_id /\ otp_codes[h[r].row].email = h[r].email
  /\ At(r, "session") => h[r].user = users[h[r].email] /\ h[r].user # None

\* Types, and what the locals of a handler refer to.
TypeOK ==
  /\ now \in 0..MaxTime
  /\ otp_codes \in [OtpIds -> OtpRow]
  /\ last_id \in 0..MaxOtp
  /\ users \in [Emails -> UserIds \cup {None}]
  /\ sessions \in [UserIds -> Nat]
  /\ h \in [Requests -> Handler]
  /\ \A r \in Requests : LocalsOK(r)

\* "On success the code is marked consumed so it cannot be replayed": one
\* code opens at most one session.
SingleUse == \A i \in OtpIds : otp_codes[i].logins <= 1

\* The logins with codes created for e, each as the row and how many it had.
LoginsOf(e) ==
  UNION {{i} \X (1..otp_codes[i].logins) : i \in {j \in OtpIds : otp_codes[j].email = e}}

\* Nobody is logged in to an account on another email's code, and no login is
\* lost or counted twice: a user id with sessions belongs to exactly one email,
\* and it has as many sessions as codes created for that email were logged in
\* with.  Relates sessions, users and otp_codes across the separate statements
\* of verifyOTP, upsertUser and createSession of all requests.
SessionsEarned ==
  \A u \in UserIds : sessions[u] > 0 =>
    \E e \in Emails :
      /\ \A x \in Emails : users[x] = u <=> x = e
      /\ sessions[u] = Cardinality(LoginsOf(e))

\* A code no verification will accept any more: consumed, out of attempts,
\* expired or deleted.
Dead(i) ==
  \/ ~otp_codes[i].stored
  \/ otp_codes[i].consumed
  \/ otp_codes[i].attempts >= otpMaxAttempts
  \/ now > otp_codes[i].expires_at

\* No step of any request, late, lost or half done, brings a dead code back.
DeadStaysDead == [][\A i \in 1..last_id : Dead(i) => Dead(i)']_vars

\* The rows of otp_codes and the handlers of verify as LoginGate sees them.
Life(i) == IF i > last_id THEN "fresh" ELSE IF Dead(i) THEN "dead" ELSE "live"
Claimed(r) == IF h[r].pc \in {"consume", "upsert", "session"} THEN h[r].row ELSE 0
Presented(r) == IF At(r, "select") THEN hashCode(h[r].code, h[r].email) ELSE None

Gate == INSTANCE LoginGate WITH
  life <- [i \in OtpIds |-> Life(i)],
  secret <- [i \in OtpIds |-> otp_codes[i].code_hash],
  presents <- [r \in Requests |-> Presented(r)],
  claim <- [r \in Requests |-> Claimed(r)],
  account <- users,
  opened <- sessions

\* The statements of verifyOTP, upsertUser and createSession keep the promise of
\* LoginGate, whatever else is done to the row in between: the SELECT is the
\* moment at which the code has to be live, the UPDATE the one at which it dies.
GateSpec == Gate!Spec

\* "deleteOTP undoes createOTP's insert when the mail failed to send": a row
\* is deleted only by the request that inserted it.
CleanupUndoesOwnInsert ==
  [][\A i \in OtpIds : otp_codes[i].stored /\ ~otp_codes'[i].stored =>
       \E r \in Requests : At(r, "cleanup") /\ h[r].row = i /\ Idle(r)']_vars

\* Every request is answered, or waits for the relay with its mail; a crash
\* drops it.  In particular no handler waits for another: one that hangs at the
\* relay (smtp.SendMail has no deadline) keeps nobody else.
EveryRequestAnswered ==
  \A r \in Requests :
    ~Idle(r) /\ ~At(r, "send") ~> Idle(r) \/ At(r, "send")

=============================================================================
