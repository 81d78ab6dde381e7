-------------------------- MODULE LoginGateProofs --------------------------
(***************************************************************************)
(* OtpLogin implements LoginGate, for every number of requests, emails and *)
(* codes, every limit and every bound.                                     *)
(***************************************************************************)
EXTENDS OtpLoginProofs

USE DEF At, Idle, Goto, OtpIds, RequestSteps, VerifySteps, WriteSteps

-----------------------------------------------------------------------------
(* The invariant                                                           *)

\* The hash of a row is of a code for the email of the row (createOTP).
HashOfEmail == \A i \in 1..last_id : otp_codes[i].code_hash[2] = otp_codes[i].email

\* SpentInv: a handler that has consumed a row leaves it dead for everybody.
GInv == Inv /\ SpentInv /\ HashOfEmail

\* The row that INSERT writes is live.
LEMMA IssuedRow ==
  ASSUME Inv, NEW r \in Requests, InsertOTP(r)
  PROVE  LET i == last_id + 1
         IN /\ i \in OtpIds /\ last_id' = i /\ now' = now
            /\ h[r].code \in Codes /\ h[r].email \in Emails
            /\ \A j \in OtpIds \ {i} : otp_codes'[j] = otp_codes[j]
            /\ otp_codes'[i].stored /\ ~otp_codes'[i].consumed
            /\ otp_codes'[i].attempts = 0 /\ otp_codes'[i].expires_at = now + otpCodeTTL
            /\ otp_codes'[i].email = h[r].email
            /\ otp_codes'[i].code_hash = <<h[r].code, h[r].email>>
<1>1. last_id \in Nat /\ last_id + 1 \in OtpIds
  BY LimitsAssumption DEF InsertOTP, Inv, TypeOK
<1>2. h[r].code \in Codes /\ h[r].email \in Emails
  BY HandlerFields DEF InsertOTP, LocalsOK
<1>. QED
  BY <1>1, <1>2 DEF InsertOTP, Inv, TypeOK, hashCode

\* A row that was there keeps its email and its hash, and is revived by nothing.
LEMMA OldRow ==
  ASSUME Inv, [Next]_vars, NEW i \in OtpIds
  PROVE  \/ i = last_id + 1 /\ \E r \in Requests : InsertOTP(r)
         \/ /\ otp_codes'[i].email = otp_codes[i].email
            /\ otp_codes'[i].code_hash = otp_codes[i].code_hash
            /\ otp_codes'[i].expires_at = otp_codes[i].expires_at
            /\ otp_codes'[i].stored => otp_codes[i].stored
            /\ otp_codes[i].consumed => otp_codes'[i].consumed
            /\ otp_codes[i].attempts <= otp_codes'[i].attempts
<1>1. otp_codes[i] \in OtpRow
  BY RowFields
<1>2. otp_codes[i].attempts \in Nat
  BY RowFields
<1>3. \A x \in {otp_codes[i], [otp_codes[i] EXCEPT !.stored = FALSE],
                [otp_codes[i] EXCEPT !.attempts = @ + 1],
                [otp_codes[i] EXCEPT !.consumed = TRUE],
                [otp_codes[i] EXCEPT !.logins = @ + 1]} :
        /\ x.email = otp_codes[i].email /\ x.code_hash = otp_codes[i].code_hash
        /\ x.expires_at = otp_codes[i].expires_at
        /\ x.stored => otp_codes[i].stored
        /\ otp_codes[i].consumed => x.consumed
        /\ otp_codes[i].attempts <= x.attempts
  BY <1>1, <1>2 DEF OtpRow
<1>. QED
  BY <1>3, RowMoves

LEMMA NextHash == Inv /\ HashOfEmail /\ [Next]_vars => HashOfEmail'
<1> SUFFICES ASSUME Inv, HashOfEmail, [Next]_vars, NEW i \in 1..last_id'
             PROVE  otp_codes'[i].code_hash[2] = otp_codes'[i].email
  BY DEF HashOfEmail
<1>1. last_id \in 0..MaxOtp /\ last_id' \in 0..MaxOtp /\ i \in OtpIds
  BY NextInv, LimitsAssumption DEF Inv, TypeOK
<1>2. CASE \E r \in Requests : InsertOTP(r)
  <2>1. PICK r \in Requests : InsertOTP(r)
    BY <1>2
  <2>2. CASE i = last_id + 1
    BY <2>1, <2>2, IssuedRow
  <2>3. CASE i # last_id + 1
    <3>1. i \in 1..last_id /\ otp_codes'[i] = otp_codes[i]
      BY <1>1, <2>1, <2>3, IssuedRow, LimitsAssumption
    <3>. QED
      BY <3>1 DEF HashOfEmail
  <2>. QED
    BY <2>2, <2>3
<1>3. CASE ~\E r \in Requests : InsertOTP(r)
  <2>1. last_id' = last_id
    BY <1>3
       DEF Next, Handle, RequestOTP, VerifyOTP, CheckCooldown, SendOTP, DeleteOTP, CheckCode,
           RecordFailedAttempt, ConsumeOTP, UpsertUser, CreateSession, DatabaseError, Abandon, Crash,
           Tick, vars
  <2>. QED
    BY <1>1, <1>3, <2>1, OldRow DEF HashOfEmail
<1>. QED
  BY <1>2, <1>3

LEMMA GateInvariance == Spec => []GInv
<1>1. Init => GInv
  <2> SUFFICES ASSUME Init PROVE HashOfEmail
    BY InitInv, InitSpent DEF GInv
  <2>. QED
    BY DEF Init, HashOfEmail
<1>2. GInv /\ [Next]_vars => GInv'
  BY NextInv, NextSpent, NextHash DEF GInv
<1>. QED
  BY <1>1, <1>2, PTL DEF Spec

-----------------------------------------------------------------------------
(* What LoginGate sees of a step                                           *)

\* The life of a row but the one that INSERT writes: it ends, or goes on.
LEMMA LifeMoves ==
  ASSUME Inv, [Next]_vars, NEW i \in OtpIds, ~\E r \in Requests : InsertOTP(r)
  PROVE  /\ last_id' = last_id
         /\ otp_codes'[i].code_hash = otp_codes[i].code_hash
         /\ Life(i)' = Life(i) \/ (Life(i) = "live" /\ Life(i)' = "dead")
<1>1. last_id' = last_id
  BY DEF Next, Handle, RequestOTP, VerifyOTP, CheckCooldown, SendOTP, DeleteOTP, CheckCode,
         RecordFailedAttempt, ConsumeOTP, UpsertUser, CreateSession, DatabaseError, Abandon, Crash,
         Tick, vars
<1>2. /\ otp_codes[i] \in OtpRow /\ otp_codes'[i] \in OtpRow
      /\ now \in Int /\ now' \in Int /\ now <= now'
  BY RowFields, NextInv, ClockMoves DEF Inv, TypeOK
<1>3. /\ otp_codes[i].attempts \in Int /\ otp_codes'[i].attempts \in Int
      /\ otp_codes[i].expires_at \in Int /\ otpMaxAttempts \in Int
  BY <1>2, LimitsAssumption DEF OtpRow
<1>4. Dead(i) => Dead(i)'
  BY <1>2, <1>3, OldRow DEF Dead
<1>. QED
  BY <1>1, <1>4, OldRow DEF Life

\* The handlers whose statement LoginGate takes no notice of keep what they
\* present and claim, or give it up.
Keeps(r) == Presented(r)' = Presented(r) /\ Claimed(r)' = Claimed(r)
Drops(r) == Presented(r)' = None /\ Claimed(r)' = 0

LEMMA DieStep ==
  ASSUME Inv, [Next]_vars, ~\E r \in Requests : InsertOTP(r), UNCHANGED <<users, sessions>>,
         \A r \in Requests : Keeps(r) \/ Drops(r)
  PROVE  Gate!Next
<1> DEFINE S == {i \in OtpIds : Life(i) # Life(i)'}
           Q == {r \in Requests : Drops(r)}
<1>1. S \in SUBSET Gate!Live /\ Q \in SUBSET Requests
  BY LifeMoves DEF Gate!Live
<1>2. /\ \A i \in OtpIds : Life(i)' = IF i \in S THEN "dead" ELSE Life(i)
      /\ \A i \in OtpIds : otp_codes'[i].code_hash = otp_codes[i].code_hash
  BY LifeMoves
<1>3. \A r \in Requests : /\ Presented(r)' = IF r \in Q THEN None ELSE Presented(r)
                          /\ Claimed(r)' = IF r \in Q THEN 0 ELSE Claimed(r)
  BY DEF Keeps, Drops
<1> HIDE DEF S, Q
<1>4. Gate!Leave(Q)
  BY <1>3 DEF Gate!Leave
<1>5. Gate!Die(S, Q)
  BY <1>2, <1>4 DEF Gate!Die
<1>. QED
  BY <1>1, <1>5 DEF Gate!Next

\* Only VerifyOTP brings a handler to the statement at which it presents a code.
LEMMA SelectMoves ==
  ASSUME Inv, [Next]_vars, NEW q \in Requests, h'[q].pc = "select", ~Same(q)
  PROVE  \E a \in Addresses, c \in Codes \cup {None} : VerifyOTP(q, a, c)
<1>1. h \in [Requests -> Handler] /\ \A r \in Requests : h[r] \in Handler
  BY HandlerFields DEF Inv, TypeOK
<1>2. ASSUME NEW r \in Requests, NEW new, Become(r, new), new.pc # "select" PROVE FALSE
  BY <1>1, <1>2 DEF Become, Same
<1>3. ASSUME NEW r \in Requests, Answer(r) PROVE FALSE
  BY <1>2, <1>3 DEF Answer, Blank
<1>4. ASSUME NEW r \in Requests, NEW a \in Addresses, RequestOTP(r, a) PROVE FALSE
  <2>1. [Blank EXCEPT !.pc = "lookup", !.email = normalizeEmail[a]].pc = "lookup"
    BY DEF Blank
  <2>. QED
    BY <1>2, <1>3, <1>4, <2>1 DEF RequestOTP
<1>5. ASSUME NEW r \in Requests \ {q}, NEW a \in Addresses, NEW c \in Codes \cup {None},
             VerifyOTP(r, a, c)
      PROVE  FALSE
  BY <1>1, <1>5 DEF VerifyOTP, Answer, Become, Same
<1>6. ASSUME NEW r \in Requests, CheckCooldown(r) PROVE FALSE
  <2>1. \A code \in Codes : [h[r] EXCEPT !.pc = "insert", !.code = code].pc = "insert"
    BY <1>1 DEF Handler
  <2>. QED
    BY <1>2, <1>3, <1>6, <2>1 DEF CheckCooldown
<1>7. ASSUME NEW r \in Requests, InsertOTP(r) PROVE FALSE
  <2>1. [h[r] EXCEPT !.pc = "send", !.row = last_id + 1, !.code = None].pc = "send"
    BY <1>1 DEF Handler
  <2>. QED
    BY <1>2, <1>3, <1>7, <2>1 DEF InsertOTP
<1>8. ASSUME NEW r \in Requests, NEW step \in {"cleanup", "upsert"}, Goto(r, step) PROVE FALSE
  <2>1. [h[r] EXCEPT !.pc = step].pc = step
    BY <1>1 DEF Handler
  <2>. QED
    BY <1>2, <1>8, <2>1
<1>9. ASSUME NEW r \in Requests, SendOTP(r) \/ ConsumeOTP(r) PROVE FALSE
  BY <1>3, <1>8, <1>9 DEF SendOTP, ConsumeOTP
<1>10. ASSUME NEW r \in Requests, CheckCode(r) PROVE FALSE
  <2>1. \A i \in OtpIds, step \in {"consume", "reject"} :
          [h[r] EXCEPT !.pc = step, !.row = i, !.code = None].pc = step
    BY <1>1 DEF Handler
  <2>2. \/ Answer(r)
        \/ \E i \in OtpIds, step \in {"consume", "reject"} :
             Become(r, [h[r] EXCEPT !.pc = step, !.row = i, !.code = None])
    BY <1>10, NewestIn DEF CheckCode, Unconsumed, Stored
  <2>. QED
    BY <1>2, <1>3, <2>1, <2>2
<1>11. ASSUME NEW r \in Requests, UpsertUser(r) PROVE FALSE
  <2>1. \A id \in UserIds : [h[r] EXCEPT !.pc = "session", !.user = id].pc = "session"
    BY <1>1 DEF Handler
  <2>. QED
    BY <1>2, <1>3, <1>11, <2>1 DEF UpsertUser
<1>12. ASSUME NEW r \in Requests,
              DeleteOTP(r) \/ RecordFailedAttempt(r) \/ CreateSession(r) \/ DatabaseError(r)
       PROVE  FALSE
  BY <1>3, <1>12 DEF DeleteOTP, RecordFailedAttempt, CreateSession, DatabaseError
<1>13. ~(Tick \/ UNCHANGED vars)
  BY DEF Tick, vars, Same
<1>14. ASSUME h'[q] \in {Blank, Left(q)} PROVE FALSE
  BY <1>14, LeftFields DEF Blank, Same
<1>15. ~Crash
  BY <1>14 DEF Crash
<1>16. ASSUME NEW r \in Requests, Abandon(r) PROVE FALSE
  BY <1>1, <1>14, <1>16 DEF Abandon, Become, Same
<1>. QED
  BY <1>4, <1>5, <1>6, <1>7, <1>9, <1>10, <1>11, <1>12, <1>13, <1>15, <1>16
     DEF Next, Handle

\* What every handler presents and claims after a step.
LEMMA KeptOrDropped ==
  ASSUME Inv, [Next]_vars, NEW q \in Requests
  PROVE  \/ Keeps(q) \/ Drops(q)
         \/ h'[q].pc = "select" /\ \E a \in Addresses, c \in Codes \cup {None} : VerifyOTP(q, a, c)
         \/ h'[q].pc = "consume" /\ CheckCode(q)
<1>1. CASE Same(q)
  BY <1>1 DEF Same, Keeps, Presented, Claimed
<1>2. CASE h'[q].pc \in {"idle", "lookup", "insert", "send", "cleanup", "reject"}
  BY <1>2 DEF Drops, Presented, Claimed
<1>3. CASE h'[q].pc = "select" /\ ~Same(q)
  BY <1>3, SelectMoves
<1>4. CASE ConsumeOTP(q) /\ h'[q].pc = "upsert" /\ h'[q].row = h[q].row
  BY <1>4 DEF Keeps, Presented, Claimed, ConsumeOTP
<1>5. CASE UpsertUser(q) /\ h'[q].pc = "session" /\ h'[q].row = h[q].row
  BY <1>5 DEF Keeps, Presented, Claimed, UpsertUser
<1>. QED
  BY <1>1, <1>2, <1>3, <1>4, <1>5, HandlerMoves

\* Where a single handler moves the others keep what they have.
LEMMA OthersKeep ==
  ASSUME Inv, NEW r \in Requests, NEW new, Become(r, new)
  PROVE  h'[r] = new /\ \A q \in Requests \ {r} : h'[q] = h[q] /\ Keeps(q)
BY DEF Inv, TypeOK, Become, Keeps, Presented, Claimed

-----------------------------------------------------------------------------
(* The steps LoginGate takes notice of                                     *)

LEMMA IssueStep ==
  ASSUME Inv, NEW r \in Requests, InsertOTP(r)
  PROVE  Gate!Next
<1>1. PICK i \in OtpIds, code \in Codes, e \in Emails :
      /\ i = last_id + 1 /\ last_id' = i /\ now' = now
      /\ \A j \in OtpIds \ {i} : otp_codes'[j] = otp_codes[j]
      /\ otp_codes'[i].stored /\ ~otp_codes'[i].consumed
      /\ otp_codes'[i].attempts = 0 /\ otp_codes'[i].expires_at = now + otpCodeTTL
      /\ otp_codes'[i].code_hash = <<code, e>>
  BY IssuedRow
<1>2. last_id \in Int /\ now \in Int
  BY LimitsAssumption DEF Inv, TypeOK
<1>3. Life(i) = "fresh" /\ Life(i)' = "live"
  BY <1>1, <1>2, LimitsAssumption DEF Life, Dead
<1>4. ASSUME NEW j \in OtpIds, j # i PROVE Life(j)' = Life(j)
  <2>1. j > last_id' <=> j > last_id
    BY <1>1, <1>2, <1>4, LimitsAssumption
  <2>2. Dead(j)' <=> Dead(j)
    BY <1>1, <1>4 DEF Dead
  <2>. QED
    BY <2>1, <2>2 DEF Life
<1>5. h[r] \in Handler /\ h[r].pc = "insert"
  BY HandlerFields DEF InsertOTP
<1>6. \A q \in Requests : Keeps(q)
  <2>1. [h[r] EXCEPT !.pc = "send", !.row = last_id + 1, !.code = None].pc = "send"
    BY <1>5 DEF Handler
  <2>2. \/ Become(r, [h[r] EXCEPT !.pc = "send", !.row = last_id + 1, !.code = None])
        \/ Become(r, Blank)
    BY DEF InsertOTP, Answer
  <2>3. Blank.pc = "idle"
    BY DEF Blank
  <2>4. h'[r].pc \in {"send", "idle"} /\ \A q \in Requests \ {r} : Keeps(q)
    BY <2>1, <2>2, <2>3, OthersKeep
  <2>5. Keeps(r)
    BY <1>5, <2>4 DEF Keeps, Presented, Claimed
  <2>. QED
    BY <2>4, <2>5
<1>7. Gate!Issue(i, code, e)
  <2>1. UNCHANGED <<users, sessions>>
    BY DEF InsertOTP
  <2>2. [j \in OtpIds |-> Life(j)]' = [[j \in OtpIds |-> Life(j)] EXCEPT ![i] = "live"]
    BY <1>3, <1>4
  <2>3. [j \in OtpIds |-> otp_codes[j].code_hash]'
          = [[j \in OtpIds |-> otp_codes[j].code_hash] EXCEPT ![i] = <<code, e>>]
    BY <1>1
  <2>4. /\ [q \in Requests |-> Presented(q)]' = [q \in Requests |-> Presented(q)]
        /\ [q \in Requests |-> Claimed(q)]' = [q \in Requests |-> Claimed(q)]
    BY <1>6 DEF Keeps
  <2>5. [j \in OtpIds |-> Life(j)][i] = "fresh"
    BY <1>1, <1>3
  <2>. QED
    BY <2>1, <2>2, <2>3, <2>4, <2>5 DEF Gate!Issue
<1>. QED
  BY <1>1, <1>7 DEF Gate!Next

\* The tables stay: so do the lives of the codes and their owners.
LEMMA TablesStay ==
  ASSUME UNCHANGED <<now, otp_codes, last_id>>
  PROVE  /\ [i \in OtpIds |-> Life(i)]' = [i \in OtpIds |-> Life(i)]
         /\ [i \in OtpIds |-> otp_codes[i].code_hash]' = [i \in OtpIds |-> otp_codes[i].code_hash]
<1>1. \A i \in OtpIds : Life(i)' = Life(i)
  BY DEF Life, Dead
<1>. QED
  BY <1>1

LEMMA PresentStep ==
  ASSUME Inv, NEW r \in Requests, NEW a \in Addresses, NEW c \in Codes \cup {None},
         VerifyOTP(r, a, c), h'[r].pc = "select"
  PROVE  Gate!Next
<1> DEFINE e == normalizeEmail[a]
           new == [Blank EXCEPT !.pc = "select", !.code = c, !.email = e]
<1>1. UNCHANGED <<now, otp_codes, last_id, users, sessions>> /\ h[r].pc = "idle"
  BY DEF VerifyOTP
<1>2. h'[r] # Blank
  BY DEF Blank
<1>3. e \in Emails /\ c \in Codes /\ Become(r, new)
  BY <1>2, AddressesAssumption DEF VerifyOTP, Answer, Become, Inv, TypeOK
<1>4. new.pc = "select" /\ new.code = c /\ new.email = e
  BY DEF Blank
<1> HIDE DEF new
<1>5. /\ Presented(r)' = <<c, e>> /\ Claimed(r)' = Claimed(r) /\ Claimed(r) = 0
      /\ \A q \in Requests \ {r} : Keeps(q)
  BY <1>1, <1>3, <1>4, OthersKeep DEF Presented, Claimed, hashCode
<1>6. Gate!Present(r, c, e)
  <2>1. [q \in Requests |-> Claimed(q)]' = [q \in Requests |-> Claimed(q)]
    BY <1>5 DEF Keeps
  <2>2. [q \in Requests |-> Presented(q)]'
          = [[q \in Requests |-> Presented(q)] EXCEPT ![r] = <<c, e>>]
    BY <1>5 DEF Keeps
  <2>3. [q \in Requests |-> Claimed(q)][r] = 0
    BY <1>5
  <2>. QED
    BY <1>1, <2>1, <2>2, <2>3, TablesStay DEF Gate!Present
<1>. QED
  BY <1>3, <1>6 DEF Gate!Next

\* The SELECT of verifyOTP finds the code presented, live.
LEMMA ClaimStep ==
  ASSUME Inv, NEW r \in Requests, CheckCode(r), h'[r].pc = "consume"
  PROVE  Gate!Next
<1>1. UNCHANGED <<now, otp_codes, last_id, users, sessions>> /\ h[r].pc = "select"
  BY DEF CheckCode
<1>2. h[r] \in Handler /\ h[r].email \in Emails
  BY <1>1, HandlerFields DEF LocalsOK
<1>3. ~Answer(r)
  BY DEF Answer, Become, Inv, TypeOK, Blank
<1>4. PICK i \in Newest(Unconsumed(h[r].email)), step \in {"consume", "reject"} :
        /\ Acceptable(i)
        /\ step = "consume" => otp_codes[i].code_hash = hashCode(h[r].code, h[r].email)
        /\ Become(r, [h[r] EXCEPT !.pc = step, !.row = i, !.code = None])
  BY <1>3 DEF CheckCode
<1>5. /\ h'[r].row = i /\ step = "consume"
      /\ \A q \in Requests \ {r} : Keeps(q)
  <2>1. h'[r] = [h[r] EXCEPT !.pc = step, !.row = i, !.code = None]
    BY <1>4, OthersKeep
  <2>. QED
    BY <1>2, <1>4, <2>1, OthersKeep DEF Handler
<1>6. i \in Stored(h[r].email) /\ ~otp_codes[i].consumed
  BY <1>4, NewestIn DEF Unconsumed
<1>7. i \in 1..last_id /\ i \in OtpIds /\ last_id \in Int /\ otp_codes[i].stored
  BY <1>2, <1>6, StoredKnown, LimitsAssumption DEF Inv, TypeOK, Stored
<1>8. otp_codes[i].attempts \in Int /\ otp_codes[i].expires_at \in Int /\ now \in Int
  <2>1. otp_codes[i] \in OtpRow
    BY <1>7, RowFields
  <2>. QED
    BY <2>1, LimitsAssumption DEF OtpRow, Inv, TypeOK
<1>9. Life(i) = "live"
  BY <1>4, <1>6, <1>7, <1>8, LimitsAssumption DEF Life, Dead, Acceptable
<1>10. /\ Presented(r) = otp_codes[i].code_hash /\ Presented(r)' = None /\ Claimed(r)' = i
  BY <1>1, <1>4, <1>5 DEF Presented, Claimed
<1>11. Gate!Claim(r, i)
  <2>1. /\ [q \in Requests |-> Claimed(q)]' = [[q \in Requests |-> Claimed(q)] EXCEPT ![r] = i]
        /\ [q \in Requests |-> Presented(q)]'
             = [[q \in Requests |-> Presented(q)] EXCEPT ![r] = None]
    BY <1>5, <1>10 DEF Keeps
  <2>2. i \in Gate!Live
    BY <1>7, <1>9 DEF Gate!Live
  <2>. QED
    BY <1>1, <1>7, <1>10, <2>1, <2>2, TablesStay DEF Gate!Claim
<1>. QED
  BY <1>7, <1>11 DEF Gate!Next

\* At upsert and at session the row a handler has consumed is dead, and issued
\* for the email it logs in.
LEMMA ClaimSpent ==
  ASSUME GInv, NEW r \in Requests, h[r].pc \in {"upsert", "session"}
  PROVE  /\ Gate!Spent(r) /\ Gate!Owner(r) = h[r].email /\ h[r].email \in Emails
         /\ Claimed(r) = h[r].row /\ h[r].row \in 1..last_id /\ h[r].row \in OtpIds
<1>1. /\ h[r].row \in 1..last_id /\ otp_codes[h[r].row].email = h[r].email
      /\ h[r].email \in Emails
  BY HandlerFields DEF GInv, LocalsOK
<1>2. last_id \in Int /\ h[r].row \in OtpIds
  BY <1>1, LimitsAssumption DEF GInv, Inv, TypeOK
<1>3. Life(h[r].row) = "dead"
  BY <1>1, <1>2 DEF GInv, SpentInv, Life, Dead
<1>4. Claimed(r) = h[r].row /\ h[r].row # 0
  BY <1>1, <1>2 DEF Claimed
<1>5. otp_codes[h[r].row].code_hash[2] = h[r].email
  BY <1>1 DEF GInv, HashOfEmail
<1>. QED
  BY <1>1, <1>2, <1>3, <1>4, <1>5 DEF Gate!Spent, Gate!Owner

LEMMA SignUpStep ==
  ASSUME GInv, NEW r \in Requests, UpsertUser(r)
  PROVE  Gate!Next
<1>1. UNCHANGED <<now, otp_codes, last_id, sessions>> /\ h[r].pc = "upsert"
  BY DEF UpsertUser
<1>2. Gate!Spent(r) /\ Gate!Owner(r) = h[r].email
  BY <1>1, ClaimSpent
<1>3. PICK id \in UserIds :
        /\ IF users[h[r].email] # None THEN id = users[h[r].email]
           ELSE \A x \in Emails : users[x] # id
        /\ users' = [users EXCEPT ![h[r].email] = id]
        /\ \/ Become(r, [h[r] EXCEPT !.pc = "session", !.user = id])
           \/ Become(r, Blank)
  BY DEF UpsertUser, Answer
<1>4. PICK Q \in SUBSET {r} :
        \A q \in Requests : IF q \in Q THEN Drops(q) ELSE Keeps(q)
  <2>1. CASE Become(r, Blank)
    <3>1. h'[r] = Blank /\ \A q \in Requests \ {r} : Keeps(q)
      BY <2>1, OthersKeep DEF GInv
    <3>2. h'[r].pc = "idle"
      BY <3>1 DEF Blank
    <3>3. Drops(r)
      BY <3>2 DEF Drops, Presented, Claimed
    <3>. QED
      BY <3>1, <3>3
  <2>2. CASE Become(r, [h[r] EXCEPT !.pc = "session", !.user = id])
    <3>1. /\ h'[r] = [h[r] EXCEPT !.pc = "session", !.user = id]
          /\ \A q \in Requests \ {r} : Keeps(q)
      BY <2>2, OthersKeep DEF GInv
    <3>2. h[r] \in Handler
      BY HandlerFields DEF GInv
    <3>3. h'[r].pc = "session" /\ h'[r].row = h[r].row
      BY <3>1, <3>2 DEF Handler
    <3>4. Keeps(r)
      BY <1>1, <3>3 DEF Keeps, Presented, Claimed
    <3>5. {} \in SUBSET {r} /\ \A q \in Requests : q \notin {} /\ Keeps(q)
      BY <3>1, <3>4
    <3>6. WITNESS {} \in SUBSET {r}
    <3>. QED
      BY <3>5
  <2>. QED
    BY <1>3, <2>1, <2>2
<1>5. Gate!Leave(Q)
  BY <1>4 DEF Gate!Leave, Drops, Keeps
<1>6. Gate!SignUp(r, id, Q)
  BY <1>1, <1>2, <1>3, <1>5, TablesStay DEF Gate!SignUp
<1>. QED
  BY <1>6 DEF Gate!Next

LEMMA LoginStep ==
  ASSUME GInv, [Next]_vars, NEW r \in Requests, CreateSession(r)
  PROVE  Gate!Next
<1> DEFINE i == h[r].row
           e == h[r].email
<1>1. /\ UNCHANGED <<now, last_id, users>> /\ h[r].pc = "session" /\ Answer(r)
      /\ sessions' = [sessions EXCEPT ![h[r].user] = @ + 1]
      /\ otp_codes' = [otp_codes EXCEPT ![i].logins = @ + 1]
  BY DEF CreateSession
<1>2. Gate!Spent(r) /\ Gate!Owner(r) = e /\ i \in OtpIds
  BY <1>1, ClaimSpent
<1>3. h[r].user = users[e] /\ users[e] # None
  BY <1>1, HandlerFields DEF GInv, LocalsOK
<1>4. otp_codes \in [OtpIds -> OtpRow]
  BY DEF GInv, Inv, TypeOK
<1>5. ASSUME NEW j \in OtpIds
      PROVE  /\ otp_codes'[j].stored = otp_codes[j].stored
             /\ otp_codes'[j].consumed = otp_codes[j].consumed
             /\ otp_codes'[j].attempts = otp_codes[j].attempts
             /\ otp_codes'[j].expires_at = otp_codes[j].expires_at
             /\ otp_codes'[j].code_hash = otp_codes[j].code_hash
  <2>1. otp_codes[j] \in OtpRow
    BY <1>4
  <2>2. \/ otp_codes'[j] = otp_codes[j]
        \/ otp_codes'[j] = [otp_codes[j] EXCEPT !.logins = @ + 1]
    BY <1>1, <1>4
  <2>. QED
    BY <2>1, <2>2 DEF OtpRow
<1>6. \A j \in OtpIds : Life(j)' = Life(j)
  BY <1>1, <1>5 DEF Life, Dead
<1>7. Presented(r)' = Presented(r) /\ Claimed(r)' = 0 /\ \A q \in Requests \ {r} : Keeps(q)
  BY <1>1, OthersKeep DEF GInv, Answer, Blank, Presented, Claimed
<1> HIDE DEF i, e
<1>8. Gate!Login(r)
  <2>1. /\ [j \in OtpIds |-> Life(j)]' = [j \in OtpIds |-> Life(j)]
        /\ [j \in OtpIds |-> otp_codes[j].code_hash]' = [j \in OtpIds |-> otp_codes[j].code_hash]
    BY <1>5, <1>6
  <2>2. /\ [q \in Requests |-> Presented(q)]' = [q \in Requests |-> Presented(q)]
        /\ [q \in Requests |-> Claimed(q)]' = [[q \in Requests |-> Claimed(q)] EXCEPT ![r] = 0]
    BY <1>7 DEF Keeps
  <2>3. sessions' = [sessions EXCEPT ![users[Gate!Owner(r)]] = sessions[users[Gate!Owner(r)]] + 1]
    BY <1>1, <1>2, <1>3
  <2>. QED
    BY <1>1, <1>2, <1>3, <2>1, <2>2, <2>3 DEF Gate!Login
<1>. QED
  BY <1>8 DEF Gate!Next

-----------------------------------------------------------------------------
(* Refinement                                                              *)

LEMMA LoginGateInit == Init => Gate!Init
<1> SUFFICES ASSUME Init PROVE Gate!Init
  OBVIOUS
<1>1. \A i \in OtpIds : Life(i) = "fresh" /\ otp_codes[i].code_hash = None
  BY LimitsAssumption DEF Init, Life
<1>2. \A r \in Requests : Presented(r) = None /\ Claimed(r) = 0
  BY DEF Init, Blank, Presented, Claimed
<1>. QED
  BY <1>1, <1>2 DEF Init, Gate!Init

LEMMA LoginGateStep == GInv /\ [Next]_vars => [Gate!Next]_Gate!vars
<1> SUFFICES ASSUME GInv, [Next]_vars PROVE Gate!Next
  OBVIOUS
<1>1. Inv
  BY DEF GInv
<1>2. CASE \E r \in Requests : InsertOTP(r)
  BY <1>1, <1>2, IssueStep
<1>3. CASE \E r \in Requests, a \in Addresses, c \in Codes \cup {None} :
             VerifyOTP(r, a, c) /\ h'[r].pc = "select"
  BY <1>1, <1>3, PresentStep
<1>4. CASE \E r \in Requests : CheckCode(r) /\ h'[r].pc = "consume"
  BY <1>1, <1>4, ClaimStep
<1>5. CASE \E r \in Requests : UpsertUser(r)
  BY <1>5, SignUpStep
<1>6. CASE \E r \in Requests : CreateSession(r)
  BY <1>6, LoginStep
<1>7. CASE /\ ~\E r \in Requests : InsertOTP(r) \/ UpsertUser(r) \/ CreateSession(r)
           /\ ~\E r \in Requests, a \in Addresses, c \in Codes \cup {None} :
                VerifyOTP(r, a, c) /\ h'[r].pc = "select"
           /\ ~\E r \in Requests : CheckCode(r) /\ h'[r].pc = "consume"
  <2>1. \A r \in Requests : Keeps(r) \/ Drops(r)
    BY <1>1, <1>7, KeptOrDropped
  <2>2. UNCHANGED <<users, sessions>>
    BY <1>7
       DEF Next, Handle, RequestOTP, VerifyOTP, CheckCooldown, SendOTP, DeleteOTP, CheckCode,
           RecordFailedAttempt, ConsumeOTP, DatabaseError, Abandon, Crash, Tick, vars
  <2>. QED
    BY <1>1, <1>7, <2>1, <2>2, DieStep
<1>. QED
  BY <1>2, <1>3, <1>4, <1>5, <1>6, <1>7

\* verifyOTP's SELECT and UPDATEs, upsertUser and createSession, interleaved with
\* those of every other request, with failures, crashes and the cleanup of
\* RequestOTP, give what LoginGate promises: a session only for the owner of a
\* code that was live when it was presented and is dead for good.
THEOREM LoginImplementsGate == Spec => GateSpec
BY LoginGateInit, LoginGateStep, GateInvariance, PTL DEF Spec, GateSpec, Gate!Spec
=============================================================================
