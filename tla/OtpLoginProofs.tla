--------------------------- MODULE OtpLoginProofs ---------------------------
(***************************************************************************)
(* Theorems about OtpLogin for every number of requests, emails and codes, *)
(* every limit and every bound.                                            *)
(***************************************************************************)
EXTENDS OtpLogin, FiniteSetTheorems, TLAPS

\* An id not handed out yet has no row.
FreshRows == \A i \in OtpIds : i > last_id => ~otp_codes[i].stored

Inv == TypeOK /\ FreshRows

USE DEF At, Idle, Goto, OtpIds, RequestSteps, VerifySteps, WriteSteps

-----------------------------------------------------------------------------
(* Types                                                                   *)

\* The invariant holds of empty tables.
LEMMA InitInv == Init => Inv
BY AddressesAssumption, LimitsAssumption
   DEF Init, Inv, TypeOK, FreshRows, LocalsOK, OtpRow, Handler, Blank

\* What the results of the two queries are.
LEMMA NewestIn == \A S : Newest(S) \subseteq S
BY DEF Newest

\* A stored row has an id that has been handed out.
LEMMA StoredKnown ==
  ASSUME Inv, NEW e \in Emails, NEW i \in Stored(e)
  PROVE  i \in 1..last_id /\ otp_codes[i].email = e
BY LimitsAssumption DEF Inv, TypeOK, FreshRows, Stored

\* A step of one handler that keeps the types, the emails of known rows and
\* the existing accounts keeps the invariant if it leaves that handler's own
\* locals in order.
LEMMA HandlerStep ==
  ASSUME Inv, NEW r \in Requests, NEW new \in Handler, Become(r, new),
         now' = now, otp_codes' \in [OtpIds -> OtpRow], last_id' \in 0..MaxOtp,
         users' \in [Emails -> UserIds \cup {None}], sessions' \in [UserIds -> Nat],
         LocalsOK(r)', last_id <= last_id', FreshRows',
         \A i \in 1..last_id : otp_codes'[i].email = otp_codes[i].email,
         \A e \in Emails : users[e] # None => users'[e] = users[e]
  PROVE  Inv'
<1>1. h' \in [Requests -> Handler]
  BY DEF Inv, TypeOK, Become
<1>2. ASSUME NEW q \in Requests PROVE LocalsOK(q)'
  <2>1. CASE q = r
    BY <2>1
  <2>2. CASE q # r
    <3>1. h'[q] = h[q] /\ h[q] \in Handler /\ LocalsOK(q)
      BY <2>2 DEF Inv, TypeOK, Become
    <3>2. last_id \in Int /\ last_id' \in Int
      BY LimitsAssumption DEF Inv, TypeOK
    <3>. QED
      BY <3>1, <3>2 DEF LocalsOK
  <2>. QED
    BY <2>1, <2>2
<1>. QED
  BY <1>1, <1>2 DEF Inv, TypeOK

\* Nobody touches the tables.
LEMMA LocalStep ==
  ASSUME Inv, NEW r \in Requests, NEW new \in Handler, Become(r, new), LocalsOK(r)',
         UNCHANGED <<now, otp_codes, last_id, users, sessions>>
  PROVE  Inv'
<1>1. FreshRows' /\ last_id \in 0..MaxOtp /\ last_id <= last_id'
  BY LimitsAssumption DEF Inv, TypeOK, FreshRows
<1>2. /\ otp_codes' \in [OtpIds -> OtpRow] /\ users' \in [Emails -> UserIds \cup {None}]
      /\ sessions' \in [UserIds -> Nat]
  BY DEF Inv, TypeOK
<1>. QED
  BY <1>1, <1>2, HandlerStep

\* The handler answers: whatever the step did to the tables, its locals are gone.
LEMMA Answered ==
  ASSUME Inv, NEW r \in Requests, Answer(r)
  PROVE  Become(r, Blank) /\ Blank \in Handler /\ LocalsOK(r)'
<1>1. h'[r] = Blank
  BY DEF Inv, TypeOK, Answer, Become
<1>. QED
  BY <1>1 DEF LocalsOK, Blank, Handler, Answer

\* Where a handler that stays on its way comes to be.
LEMMA Became ==
  ASSUME Inv, NEW r \in Requests, NEW new, Become(r, new)
  PROVE  h'[r] = new
BY DEF Inv, TypeOK, Become

\* The fields of a handler, and what LocalsOK says of it.
LEMMA HandlerFields ==
  ASSUME Inv, NEW r \in Requests
  PROVE  /\ h[r] \in Handler /\ LocalsOK(r)
         /\ h[r].email \in Emails \cup {None} /\ h[r].code \in Codes \cup {None}
         /\ h[r].row \in OtpIds \cup {0} /\ h[r].user \in UserIds \cup {None}
<1>1. h[r] \in Handler /\ LocalsOK(r)
  BY DEF Inv, TypeOK
<1>. QED
  BY <1>1 DEF Handler

\* A handler that is gone leaves its statement as it was.
LEMMA LeftFields ==
  ASSUME Inv, NEW r \in Requests
  PROVE  /\ Left(r) \in Handler
         /\ Left(r).pc = h[r].pc /\ Left(r).email = h[r].email /\ Left(r).code = h[r].code
         /\ Left(r).row = h[r].row /\ Left(r).user = h[r].user
BY HandlerFields DEF Left, Handler

\* Where a handler may stand.
Steps == {"idle"} \cup RequestSteps \cup VerifySteps

\* A row changed in anything but its email, and not stored if it was not.
LEMMA RowStep ==
  ASSUME Inv, NEW i \in OtpIds, NEW new \in OtpRow, new.email = otp_codes[i].email,
         new.stored => otp_codes[i].stored,
         otp_codes' = [otp_codes EXCEPT ![i] = new], last_id' = last_id
  PROVE  /\ otp_codes' \in [OtpIds -> OtpRow] /\ FreshRows'
         /\ \A j \in OtpIds : otp_codes'[j].email = otp_codes[j].email
<1>1. otp_codes \in [OtpIds -> OtpRow]
  BY DEF Inv, TypeOK
<1>2. \A j \in OtpIds : otp_codes'[j] = IF j = i THEN new ELSE otp_codes[j]
  BY <1>1
<1>3. otp_codes' \in [OtpIds -> OtpRow]
  BY <1>1
<1>4. FreshRows'
  BY <1>2 DEF Inv, FreshRows
<1>. QED
  BY <1>2, <1>3, <1>4

\* The updates the statements make to a row keep its type.
LEMMA RowUpdates ==
  ASSUME NEW row \in OtpRow
  PROVE  /\ row.attempts \in Nat /\ row.logins \in Nat
         /\ [row EXCEPT !.stored = FALSE] \in OtpRow
         /\ [row EXCEPT !.attempts = row.attempts + 1] \in OtpRow
         /\ [row EXCEPT !.consumed = TRUE] \in OtpRow
         /\ [row EXCEPT !.logins = row.logins + 1] \in OtpRow
<1>1. row.attempts \in Nat /\ row.logins \in Nat
  BY DEF OtpRow
<1>2. [row EXCEPT !.stored = FALSE] \in OtpRow
  BY DEF OtpRow
<1>3. [row EXCEPT !.attempts = row.attempts + 1] \in OtpRow
  BY <1>1 DEF OtpRow
<1>4. [row EXCEPT !.consumed = TRUE] \in OtpRow
  BY DEF OtpRow
<1>5. [row EXCEPT !.logins = row.logins + 1] \in OtpRow
  BY <1>1 DEF OtpRow
<1>. QED
  BY <1>1, <1>2, <1>3, <1>4, <1>5

\* The fields of a row and its updates, in a state of the invariant.
LEMMA RowFields ==
  ASSUME Inv, NEW i \in OtpIds
  PROVE  /\ otp_codes[i] \in OtpRow
         /\ otp_codes[i].attempts \in Nat /\ otp_codes[i].logins \in Nat
         /\ [otp_codes[i] EXCEPT !.stored = FALSE] \in OtpRow
         /\ [otp_codes[i] EXCEPT !.attempts = @ + 1] \in OtpRow
         /\ [otp_codes[i] EXCEPT !.consumed = TRUE] \in OtpRow
         /\ [otp_codes[i] EXCEPT !.logins = @ + 1] \in OtpRow
<1>1. otp_codes[i] \in OtpRow
  BY DEF Inv, TypeOK
<1>. QED
  BY <1>1, RowUpdates

\* Type correctness and what each handler's locals refer to, preserved by
\* every step.
LEMMA NextInv == Inv /\ [Next]_vars => Inv'
<1> SUFFICES ASSUME Inv, [Next]_vars PROVE Inv'
  OBVIOUS
<1>b. last_id \in 0..MaxOtp /\ last_id \in Nat /\ otp_codes \in [OtpIds -> OtpRow]
      /\ users \in [Emails -> UserIds \cup {None}] /\ sessions \in [UserIds -> Nat]
      /\ 1..last_id \subseteq OtpIds
  BY LimitsAssumption DEF Inv, TypeOK
<1>1. ASSUME NEW r \in Requests, NEW a \in Addresses, RequestOTP(r, a) PROVE Inv'
  <2>1. CASE Answer(r)
    BY <1>1, <2>1, Answered, LocalStep DEF RequestOTP
  <2>2. CASE normalizeEmail[a] # None
    <3> DEFINE new == [Blank EXCEPT !.pc = "lookup", !.email = normalizeEmail[a]]
    <3>1. normalizeEmail[a] \in Emails
      BY <2>2, AddressesAssumption
    <3>2. Become(r, new)
      BY <1>1, <2>2 DEF RequestOTP
    <3>3. new \in Handler
      BY <3>1 DEF Handler, Blank
    <3>4. LocalsOK(r)'
      BY <3>1, <3>2, Became DEF LocalsOK, Blank
    <3>. QED
      BY <1>1, <3>2, <3>3, <3>4, LocalStep DEF RequestOTP
  <2>. QED
    BY <1>1, <2>1, <2>2 DEF RequestOTP
<1>2. ASSUME NEW r \in Requests, NEW a \in Addresses, NEW c \in Codes \cup {None},
             VerifyOTP(r, a, c)
      PROVE Inv'
  <2>1. CASE Answer(r)
    BY <1>2, <2>1, Answered, LocalStep DEF VerifyOTP
  <2>2. CASE normalizeEmail[a] # None /\ c # None
    <3> DEFINE new == [Blank EXCEPT !.pc = "select", !.code = c, !.email = normalizeEmail[a]]
    <3>1. normalizeEmail[a] \in Emails
      BY <2>2, AddressesAssumption
    <3>2. Become(r, new)
      BY <1>2, <2>2 DEF VerifyOTP
    <3>3. new \in Handler
      BY <3>1 DEF Handler, Blank
    <3>4. LocalsOK(r)'
      BY <3>1, <3>2, Became DEF LocalsOK, Blank
    <3>. QED
      BY <1>2, <3>2, <3>3, <3>4, LocalStep DEF VerifyOTP
  <2>. QED
    BY <1>2, <2>1, <2>2 DEF VerifyOTP
<1>3. ASSUME NEW r \in Requests, CheckCooldown(r) PROVE Inv'
  <2>1. CASE Answer(r)
    BY <1>3, <2>1, Answered, LocalStep DEF CheckCooldown
  <2>2. ASSUME NEW code \in Codes, Become(r, [h[r] EXCEPT !.pc = "insert", !.code = code])
        PROVE  Inv'
    <3> DEFINE new == [h[r] EXCEPT !.pc = "insert", !.code = code]
    <3>1. new \in Handler /\ new.pc = "insert" /\ new.email = h[r].email /\ new.code = code
      <4>1. h[r] \in Handler /\ "insert" \in Steps
        BY HandlerFields DEF Steps
      <4>. QED
        BY <4>1 DEF Handler, Steps
    <3>2. h[r].email \in Emails
      BY <1>3, HandlerFields DEF CheckCooldown, LocalsOK
    <3>4. LocalsOK(r)'
      BY <2>2, <3>1, <3>2, Became DEF LocalsOK
    <3>. QED
      BY <1>3, <2>2, <3>1, <3>4, LocalStep DEF CheckCooldown
  <2>. QED
    BY <1>3, <2>1, <2>2 DEF CheckCooldown
<1>4. ASSUME NEW r \in Requests, InsertOTP(r) PROVE Inv'
  <2> DEFINE id == last_id + 1
             row == [stored |-> TRUE, email |-> h[r].email,
                     code_hash |-> hashCode(h[r].code, h[r].email), attempts |-> 0,
                     expires_at |-> now + otpCodeTTL, consumed |-> FALSE,
                     created_at |-> now, logins |-> 0]
  <2>1. h[r].email \in Emails /\ h[r].code \in Codes
    BY <1>4, HandlerFields DEF InsertOTP, LocalsOK
  <2>2. last_id' = id /\ id \in OtpIds /\ id \in 0..MaxOtp
    BY <1>4, <1>b, LimitsAssumption DEF InsertOTP
  <2>3. row \in OtpRow
    BY <2>1, LimitsAssumption DEF OtpRow, hashCode, Inv, TypeOK
  <2>4. otp_codes' = [otp_codes EXCEPT ![id] = row]
    BY <1>4 DEF InsertOTP
  <2>5. otp_codes' \in [OtpIds -> OtpRow] /\ \A i \in 1..last_id : otp_codes'[i] = otp_codes[i]
    BY <1>b, <2>2, <2>3, <2>4
  <2>6. FreshRows'
    BY <1>b, <2>2, <2>4, LimitsAssumption DEF FreshRows, Inv
  <2>7. UNCHANGED <<now, users, sessions>> /\ last_id <= last_id'
    BY <1>4, <1>b, <2>2 DEF InsertOTP
  <2>8. CASE Answer(r)
    BY <1>b, <2>2, <2>5, <2>6, <2>7, <2>8, Answered, HandlerStep
  <2>9. CASE Become(r, [h[r] EXCEPT !.pc = "send", !.row = id, !.code = None])
    <3> DEFINE new == [h[r] EXCEPT !.pc = "send", !.row = id, !.code = None]
    <3>1. new \in Handler /\ new.pc = "send" /\ new.email = h[r].email /\ new.row = id
      <4>1. h[r] \in Handler /\ "send" \in Steps
        BY HandlerFields DEF Steps
      <4>. QED
        BY <2>2, <4>1 DEF Handler, Steps
    <3>3. LocalsOK(r)'
      BY <2>1, <2>9, <3>1, Became DEF LocalsOK
    <3> HIDE DEF new
    <3>. QED
      BY <1>b, <2>2, <2>5, <2>6, <2>7, <2>9, <3>1, <3>3, HandlerStep DEF new
  <2>. QED
    BY <1>4, <2>8, <2>9 DEF InsertOTP
<1>5. ASSUME NEW r \in Requests, SendOTP(r) PROVE Inv'
  <2>1. CASE Answer(r)
    BY <1>5, <2>1, Answered, LocalStep DEF SendOTP
  <2>2. CASE Goto(r, "cleanup")
    <3> DEFINE new == [h[r] EXCEPT !.pc = "cleanup"]
    <3>1. new \in Handler /\ new.pc = "cleanup" /\ new.email = h[r].email /\ new.row = h[r].row
      <4>1. h[r] \in Handler /\ "cleanup" \in Steps
        BY HandlerFields DEF Steps
      <4>. QED
        BY <4>1 DEF Handler, Steps
    <3>2. h[r].email \in Emails
      BY <1>5, HandlerFields DEF SendOTP, LocalsOK
    <3>4. LocalsOK(r)'
      BY <2>2, <3>1, <3>2, Became DEF LocalsOK
    <3>. QED
      BY <1>5, <2>2, <3>1, <3>4, LocalStep DEF SendOTP
  <2>. QED
    BY <1>5, <2>1, <2>2 DEF SendOTP
<1>6. ASSUME NEW r \in Requests, DeleteOTP(r) PROVE Inv'
  <2>1. UNCHANGED <<now, last_id, users, sessions>> /\ Answer(r)
    BY <1>6 DEF DeleteOTP
  <2>2. otp_codes' \in [OtpIds -> OtpRow] /\ FreshRows'
        /\ \A i \in OtpIds : otp_codes'[i].email = otp_codes[i].email
    <3>1. CASE UNCHANGED otp_codes
      BY <2>1, <3>1, <1>b DEF Inv, FreshRows
    <3>2. ASSUME NEW i \in OtpIds, otp_codes' = [otp_codes EXCEPT ![i].stored = FALSE]
          PROVE  otp_codes' \in [OtpIds -> OtpRow] /\ FreshRows'
                 /\ \A j \in OtpIds : otp_codes'[j].email = otp_codes[j].email
      <4> DEFINE new == [otp_codes[i] EXCEPT !.stored = FALSE]
      <4>1. new \in OtpRow /\ new.email = otp_codes[i].email /\ ~new.stored
        BY RowFields DEF OtpRow
      <4>2. otp_codes' = [otp_codes EXCEPT ![i] = new]
        BY <3>2
      <4> HIDE DEF new
      <4>. QED
        BY <2>1, <4>1, <4>2, RowStep
    <3>. QED
      BY <1>6, <3>1, <3>2, NewestIn DEF DeleteOTP, Stored
  <2>. QED
    BY <1>b, <2>1, <2>2, Answered, HandlerStep
<1>7. ASSUME NEW r \in Requests, CheckCode(r) PROVE Inv'
  <2>1. CASE Answer(r)
    BY <1>7, <2>1, Answered, LocalStep DEF CheckCode
  <2>2. ASSUME NEW i \in Newest(Unconsumed(h[r].email)), NEW step \in {"consume", "reject"},
               Become(r, [h[r] EXCEPT !.pc = step, !.row = i, !.code = None])
        PROVE  Inv'
    <3> DEFINE new == [h[r] EXCEPT !.pc = step, !.row = i, !.code = None]
    <3>2. h[r].email \in Emails
      BY <1>7, HandlerFields DEF CheckCode, LocalsOK
    <3>3. i \in 1..last_id /\ i \in OtpIds /\ otp_codes[i].email = h[r].email
      BY <3>2, NewestIn, StoredKnown DEF Unconsumed, Stored
    <3>1. new \in Handler /\ new.pc = step /\ new.email = h[r].email /\ new.row = i
      <4>1. h[r] \in Handler /\ step \in Steps
        BY HandlerFields DEF Steps
      <4>. QED
        BY <3>3, <4>1 DEF Handler, Steps
    <3>5. LocalsOK(r)'
      <4>1. h'[r] = new /\ UNCHANGED <<otp_codes, last_id>>
        BY <1>7, <2>2, Became DEF CheckCode
      <4>. QED
        BY <3>1, <3>2, <3>3, <4>1 DEF LocalsOK
    <3>. QED
      BY <1>7, <2>2, <3>1, <3>5, LocalStep DEF CheckCode
  <2>. QED
    BY <1>7, <2>1, <2>2 DEF CheckCode
<1>8. ASSUME NEW r \in Requests, RecordFailedAttempt(r) PROVE Inv'
  <2> DEFINE i == h[r].row
             new == [otp_codes[i] EXCEPT !.attempts = @ + 1]
  <2>1. UNCHANGED <<now, last_id, users, sessions>> /\ Answer(r) /\ Update(i, new)
    BY <1>8 DEF RecordFailedAttempt
  <2>2. i \in OtpIds
    BY <1>8, <1>b, HandlerFields DEF RecordFailedAttempt, LocalsOK
  <2>3. new \in OtpRow /\ new.email = otp_codes[i].email /\ (new.stored => otp_codes[i].stored)
    BY <2>2, RowFields DEF OtpRow
  <2>4. otp_codes' = otp_codes \/ otp_codes' = [otp_codes EXCEPT ![i] = new]
    BY <2>1 DEF Update
  <2> HIDE DEF new, i
  <2>5. otp_codes' \in [OtpIds -> OtpRow] /\ FreshRows'
        /\ \A j \in OtpIds : otp_codes'[j].email = otp_codes[j].email
    BY <1>b, <2>1, <2>2, <2>3, <2>4, RowStep DEF Inv, FreshRows
  <2>. QED
    BY <1>b, <2>1, <2>5, Answered, HandlerStep
<1>9. ASSUME NEW r \in Requests, ConsumeOTP(r) PROVE Inv'
  <2> DEFINE i == h[r].row
             new == [otp_codes[i] EXCEPT !.consumed = TRUE]
  <2>1. UNCHANGED <<now, last_id, users, sessions>> /\ Update(i, new)
    BY <1>9 DEF ConsumeOTP
  <2>2. i \in 1..last_id /\ i \in OtpIds /\ h[r].email \in Emails /\ otp_codes[i].email = h[r].email
    BY <1>9, <1>b, HandlerFields DEF ConsumeOTP, LocalsOK
  <2>3. new \in OtpRow /\ new.email = otp_codes[i].email /\ (new.stored => otp_codes[i].stored)
    BY <2>2, RowFields DEF OtpRow
  <2>4. otp_codes' = otp_codes \/ otp_codes' = [otp_codes EXCEPT ![i] = new]
    BY <2>1 DEF Update
  <2> HIDE DEF new
  <2>5. otp_codes' \in [OtpIds -> OtpRow] /\ FreshRows'
        /\ \A j \in OtpIds : otp_codes'[j].email = otp_codes[j].email
    BY <1>b, <2>1, <2>2, <2>3, <2>4, RowStep DEF Inv, FreshRows
  <2>6. CASE Answer(r)
    BY <1>b, <2>1, <2>5, <2>6, Answered, HandlerStep
  <2>7. CASE Goto(r, "upsert")
    <3> DEFINE next == [h[r] EXCEPT !.pc = "upsert"]
    <3>1. next \in Handler /\ next.pc = "upsert" /\ next.email = h[r].email /\ next.row = h[r].row
      <4>1. h[r] \in Handler /\ "upsert" \in Steps
        BY HandlerFields DEF Steps
      <4>. QED
        BY <4>1 DEF Handler, Steps
    <3>3. LocalsOK(r)'
      BY <2>1, <2>2, <2>5, <2>7, <3>1, Became DEF LocalsOK
    <3>4. Become(r, next)
      BY <2>7
    <3> HIDE DEF next
    <3>. QED
      BY <1>b, <2>1, <2>5, <3>1, <3>3, <3>4, HandlerStep
  <2>. QED
    BY <1>9, <2>6, <2>7 DEF ConsumeOTP
<1>10. ASSUME NEW r \in Requests, UpsertUser(r) PROVE Inv'
  <2> DEFINE e == h[r].email
  <2>1. e \in Emails /\ h[r].row \in 1..last_id /\ otp_codes[h[r].row].email = e
    BY <1>10, HandlerFields DEF UpsertUser, LocalsOK
  <2>2. PICK id \in UserIds :
          /\ users[e] # None => id = users[e]
          /\ users' = [users EXCEPT ![e] = id]
          /\ \/ Become(r, [h[r] EXCEPT !.pc = "session", !.user = id])
             \/ Answer(r)
    BY <1>10 DEF UpsertUser
  <2>3. users' \in [Emails -> UserIds \cup {None}] /\ id # None /\ users'[e] = id
        /\ \A x \in Emails : users[x] # None => users'[x] = users[x]
    BY <1>b, <2>1, <2>2, NoneAssumption
  <2>4. UNCHANGED <<now, otp_codes, last_id, sessions>> /\ FreshRows'
    BY <1>10 DEF UpsertUser, Inv, FreshRows
  <2>5. CASE Answer(r)
    BY <1>b, <2>3, <2>4, <2>5, Answered, HandlerStep
  <2>6. CASE Become(r, [h[r] EXCEPT !.pc = "session", !.user = id])
    <3> DEFINE new == [h[r] EXCEPT !.pc = "session", !.user = id]
    <3>1. new \in Handler /\ new.pc = "session" /\ new.email = h[r].email /\ new.row = h[r].row /\ new.user = id
      <4>1. h[r] \in Handler /\ "session" \in Steps
        BY HandlerFields DEF Steps
      <4>. QED
        BY <4>1 DEF Handler, Steps
    <3>3. LocalsOK(r)'
      BY <2>1, <2>3, <2>4, <2>6, <3>1, Became DEF LocalsOK
    <3> HIDE DEF new
    <3>. QED
      BY <1>b, <2>3, <2>4, <2>6, <3>1, <3>3, HandlerStep DEF new
  <2>. QED
    BY <2>2, <2>5, <2>6
<1>11. ASSUME NEW r \in Requests, CreateSession(r) PROVE Inv'
  <2> DEFINE i == h[r].row
             new == [otp_codes[i] EXCEPT !.logins = @ + 1]
  <2>1. UNCHANGED <<now, last_id, users>> /\ Answer(r)
        /\ otp_codes' = [otp_codes EXCEPT ![i] = new]
    BY <1>11 DEF CreateSession
  <2>2. i \in OtpIds
    BY <1>11, <1>b, HandlerFields DEF CreateSession, LocalsOK
  <2>3. new \in OtpRow /\ new.email = otp_codes[i].email /\ (new.stored => otp_codes[i].stored)
    BY <2>2, RowFields DEF OtpRow
  <2>4. sessions' \in [UserIds -> Nat]
    <3>1. h[r].user \in UserIds /\ sessions[h[r].user] \in Nat
      BY <1>11, <1>b, HandlerFields DEF CreateSession, LocalsOK
    <3>. QED
      BY <1>11, <1>b, <3>1 DEF CreateSession
  <2> HIDE DEF new, i
  <2>5. otp_codes' \in [OtpIds -> OtpRow] /\ FreshRows'
        /\ \A j \in OtpIds : otp_codes'[j].email = otp_codes[j].email
    BY <2>1, <2>2, <2>3, RowStep
  <2>. QED
    BY <1>b, <2>1, <2>4, <2>5, Answered, HandlerStep
<1>12. ASSUME NEW r \in Requests, DatabaseError(r) PROVE Inv'
  BY <1>12, Answered, LocalStep DEF DatabaseError
<1>13. CASE Crash
  <2>1. UNCHANGED <<now, otp_codes, last_id, users, sessions>>
    BY <1>13 DEF Crash
  <2>2. PICK S \in SUBSET Requests : h' = [r \in Requests |-> IF r \in S THEN Left(r) ELSE Blank]
    BY <1>13 DEF Crash
  <2>3. Blank \in Handler /\ Blank.pc = "idle"
    BY DEF Blank, Handler
  <2>4. h' \in [Requests -> Handler]
    BY <2>2, <2>3, LeftFields
  <2>5. ASSUME NEW r \in Requests PROVE LocalsOK(r)'
    <3>1. CASE h'[r] = Blank
      BY <2>3, <3>1 DEF LocalsOK
    <3>2. CASE h'[r] = Left(r)
      BY <2>1, <3>2, LeftFields, HandlerFields DEF LocalsOK
    <3>. QED
      BY <2>2, <3>1, <3>2
  <2>. QED
    BY <2>1, <2>4, <2>5 DEF Inv, TypeOK, FreshRows
<1>14. CASE Tick
  BY <1>14, LimitsAssumption DEF Tick, Inv, TypeOK, FreshRows, LocalsOK
<1>15. CASE UNCHANGED vars
  BY <1>15 DEF vars, Inv, TypeOK, FreshRows, LocalsOK
<1>16. ASSUME NEW r \in Requests, Abandon(r) PROVE Inv'
  <2>1. /\ Become(r, Left(r)) /\ Left(r) \in Handler /\ h'[r] = Left(r)
        /\ UNCHANGED <<now, otp_codes, last_id, users, sessions>>
    BY <1>16, LeftFields, Became DEF Abandon
  <2>2. LocalsOK(r)'
    BY <2>1, LeftFields, HandlerFields DEF LocalsOK
  <2>. QED
    BY <2>1, <2>2, LocalStep
<1>. QED
  BY <1>1, <1>2, <1>3, <1>4, <1>5, <1>6, <1>7, <1>8, <1>9, <1>10, <1>11, <1>12,
     <1>13, <1>14, <1>15, <1>16 DEF Next, Handle

\* The inductive invariant: types, what a handler has in hand, and rows only under
\* ids that have been handed out (the statements of otp.go and user.go).
THEOREM InvHolds == Spec => []Inv
BY InitInv, NextInv, PTL DEF Spec

\* Every variable has its type, and the row, code and account a handler has in
\* hand are the ones of its email: package auth's otp.go and handler.go.
THEOREM TypesHold == Spec => []TypeOK
BY InvHolds, PTL DEF Inv
-----------------------------------------------------------------------------
(* What one step may do: to a handler, to a row of otp_codes               *)

\* A handler that stays where it is, if only because nobody waits for it.
Same(q) ==
  /\ h'[q].pc = h[q].pc /\ h'[q].email = h[q].email /\ h'[q].code = h[q].code
  /\ h'[q].row = h[q].row /\ h'[q].user = h[q].user

\* A handler stays, answers or takes up a request, or makes one of the four
\* moves after which something is owed.
LEMMA HandlerMoves ==
  ASSUME Inv, [Next]_vars, NEW q \in Requests
  PROVE  \/ Same(q)
         \/ h'[q].pc \in {"idle", "lookup", "select", "send", "cleanup"}
         \/ CheckCooldown(q) /\ h'[q].pc = "insert" /\ h'[q].email = h[q].email
         \/ CheckCode(q) /\ h'[q].pc \in {"reject", "consume"}
         \/ ConsumeOTP(q) /\ h'[q].pc = "upsert" /\ h'[q].row = h[q].row
         \/ UpsertUser(q) /\ h'[q].pc = "session" /\ h'[q].row = h[q].row
<1> DEFINE Moved(r) ==
         \/ h'[r].pc \in {"idle", "lookup", "select", "send", "cleanup"}
         \/ CheckCooldown(r) /\ h'[r].pc = "insert" /\ h'[r].email = h[r].email
         \/ CheckCode(r) /\ h'[r].pc \in {"reject", "consume"}
         \/ ConsumeOTP(r) /\ h'[r].pc = "upsert" /\ h'[r].row = h[r].row
         \/ UpsertUser(r) /\ h'[r].pc = "session" /\ h'[r].row = h[r].row
<1>a. ASSUME NEW r \in Requests, NEW new, Become(r, new)
      PROVE  h'[r] = new /\ \A x \in Requests \ {r} : h'[x] = h[x]
  BY <1>a DEF Inv, TypeOK, Become
<1>b. ASSUME NEW r \in Requests, Answer(r)
      PROVE  Moved(r) /\ \A x \in Requests \ {r} : h'[x] = h[x]
  BY <1>a, <1>b DEF Answer, Blank
<1>1. ASSUME NEW r \in Requests, NEW a \in Addresses, RequestOTP(r, a)
      PROVE  Moved(r) /\ \A x \in Requests \ {r} : h'[x] = h[x]
  <2> DEFINE new == [Blank EXCEPT !.pc = "lookup", !.email = normalizeEmail[a]]
  <2>1. CASE Answer(r)
    BY <1>b, <2>1
  <2>2. CASE Become(r, new)
    <3>1. new.pc = "lookup"
      BY DEF Blank
    <3> HIDE DEF new
    <3>. QED
      BY <1>a, <2>2, <3>1
  <2>. QED
    BY <1>1, <2>1, <2>2 DEF RequestOTP
<1>2. ASSUME NEW r \in Requests, NEW a \in Addresses, NEW c \in Codes \cup {None},
             VerifyOTP(r, a, c)
      PROVE  Moved(r) /\ \A x \in Requests \ {r} : h'[x] = h[x]
  <2> DEFINE new == [Blank EXCEPT !.pc = "select", !.code = c, !.email = normalizeEmail[a]]
  <2>1. CASE Answer(r)
    BY <1>b, <2>1
  <2>2. CASE Become(r, new)
    <3>1. new.pc = "select"
      BY DEF Blank
    <3> HIDE DEF new
    <3>. QED
      BY <1>a, <2>2, <3>1
  <2>. QED
    BY <1>2, <2>1, <2>2 DEF VerifyOTP
<1>3. ASSUME NEW r \in Requests, CheckCooldown(r)
      PROVE  Moved(r) /\ \A x \in Requests \ {r} : h'[x] = h[x]
  <2>1. CASE Answer(r)
    BY <1>b, <2>1
  <2>2. ASSUME NEW code \in Codes, Become(r, [h[r] EXCEPT !.pc = "insert", !.code = code])
        PROVE  Moved(r) /\ \A x \in Requests \ {r} : h'[x] = h[x]
    <3>1. h'[r] = [h[r] EXCEPT !.pc = "insert", !.code = code]
          /\ \A x \in Requests \ {r} : h'[x] = h[x]
      BY <1>a, <2>2
    <3>2. h[r] \in Handler
      BY HandlerFields
    <3>. QED
      BY <1>3, <3>1, <3>2 DEF Handler
  <2>. QED
    BY <1>3, <2>1, <2>2 DEF CheckCooldown
<1>4. ASSUME NEW r \in Requests, InsertOTP(r)
      PROVE  Moved(r) /\ \A x \in Requests \ {r} : h'[x] = h[x]
  <2>1. CASE Answer(r)
    BY <1>b, <2>1
  <2>2. CASE Become(r, [h[r] EXCEPT !.pc = "send", !.row = last_id + 1, !.code = None])
    <3> DEFINE new == [h[r] EXCEPT !.pc = "send", !.row = last_id + 1, !.code = None]
    <3>1. h[r] \in Handler
      BY HandlerFields
    <3>2. new.pc = "send"
      BY <3>1 DEF Handler
    <3> HIDE DEF new
    <3>. QED
      BY <1>a, <2>2, <3>2 DEF new
  <2>. QED
    BY <1>4, <2>1, <2>2 DEF InsertOTP
<1>5. ASSUME NEW r \in Requests, SendOTP(r)
      PROVE  Moved(r) /\ \A x \in Requests \ {r} : h'[x] = h[x]
  BY <1>5, <1>a, <1>b, HandlerFields DEF SendOTP, Handler
<1>6. ASSUME NEW r \in Requests, DeleteOTP(r)
      PROVE  Moved(r) /\ \A x \in Requests \ {r} : h'[x] = h[x]
  BY <1>6, <1>b DEF DeleteOTP
<1>7. ASSUME NEW r \in Requests, CheckCode(r)
      PROVE  Moved(r) /\ \A x \in Requests \ {r} : h'[x] = h[x]
  <2>1. CASE Answer(r)
    BY <1>b, <2>1
  <2>2. ASSUME NEW i \in OtpIds, NEW step \in {"consume", "reject"},
               Become(r, [h[r] EXCEPT !.pc = step, !.row = i, !.code = None])
        PROVE  Moved(r) /\ \A x \in Requests \ {r} : h'[x] = h[x]
    <3>1. h'[r] = [h[r] EXCEPT !.pc = step, !.row = i, !.code = None]
          /\ \A x \in Requests \ {r} : h'[x] = h[x]
      BY <1>a, <2>2
    <3>2. h[r] \in Handler
      BY HandlerFields
    <3>. QED
      BY <1>7, <3>1, <3>2 DEF Handler
  <2>. QED
    BY <1>7, <2>1, <2>2, NewestIn DEF CheckCode, Unconsumed, Stored
<1>8. ASSUME NEW r \in Requests, RecordFailedAttempt(r)
      PROVE  Moved(r) /\ \A x \in Requests \ {r} : h'[x] = h[x]
  BY <1>8, <1>b DEF RecordFailedAttempt
<1>9. ASSUME NEW r \in Requests, ConsumeOTP(r)
      PROVE  Moved(r) /\ \A x \in Requests \ {r} : h'[x] = h[x]
  <2>1. CASE Answer(r)
    BY <1>b, <2>1
  <2>2. CASE Goto(r, "upsert")
    <3>1. h'[r] = [h[r] EXCEPT !.pc = "upsert"] /\ \A x \in Requests \ {r} : h'[x] = h[x]
      BY <1>a, <2>2
    <3>2. h[r] \in Handler
      BY HandlerFields
    <3>. QED
      BY <1>9, <3>1, <3>2 DEF Handler
  <2>. QED
    BY <1>9, <2>1, <2>2 DEF ConsumeOTP
<1>10. ASSUME NEW r \in Requests, UpsertUser(r)
       PROVE  Moved(r) /\ \A x \in Requests \ {r} : h'[x] = h[x]
  <2>1. CASE Answer(r)
    BY <1>b, <2>1
  <2>2. ASSUME NEW id \in UserIds, Become(r, [h[r] EXCEPT !.pc = "session", !.user = id])
        PROVE  Moved(r) /\ \A x \in Requests \ {r} : h'[x] = h[x]
    <3>1. h'[r] = [h[r] EXCEPT !.pc = "session", !.user = id]
          /\ \A x \in Requests \ {r} : h'[x] = h[x]
      BY <1>a, <2>2
    <3>2. h[r] \in Handler
      BY HandlerFields
    <3>. QED
      BY <1>10, <3>1, <3>2 DEF Handler
  <2>. QED
    BY <1>10, <2>1, <2>2 DEF UpsertUser
<1>11. ASSUME NEW r \in Requests, CreateSession(r)
       PROVE  Moved(r) /\ \A x \in Requests \ {r} : h'[x] = h[x]
  BY <1>11, <1>b DEF CreateSession
<1>12. ASSUME NEW r \in Requests, DatabaseError(r)
       PROVE  Moved(r) /\ \A x \in Requests \ {r} : h'[x] = h[x]
  BY <1>12, <1>b DEF DatabaseError
<1>13. ASSUME NEW r \in Requests, Abandon(r) PROVE \A x \in Requests : Same(x)
  <2>1. h'[r] = Left(r) /\ \A x \in Requests \ {r} : h'[x] = h[x]
    BY <1>13, <1>a DEF Abandon
  <2>. QED
    BY <2>1, LeftFields DEF Same
<1> HIDE DEF Moved
<1>15. ASSUME NEW r \in Requests, Moved(r) /\ \A x \in Requests \ {r} : h'[x] = h[x]
       PROVE  Same(q) \/ Moved(q)
  BY <1>15 DEF Same
<1>16. Same(q) \/ Moved(q)
  <2>1. ASSUME NEW r \in Requests, Handle(r) PROVE Same(q) \/ Moved(q)
    BY <2>1, <1>3, <1>4, <1>6, <1>7, <1>8, <1>9, <1>10, <1>11, <1>15 DEF Handle
  <2>2. CASE Crash
    <3>1. h'[q] = Left(q) \/ h'[q] = Blank
      BY <2>2 DEF Crash
    <3>2. h'[q] = Left(q) => Same(q)
      BY LeftFields DEF Same
    <3>3. h'[q] = Blank => Moved(q)
      BY DEF Moved, Blank
    <3>. QED
      BY <3>1, <3>2, <3>3
  <2>3. CASE Tick \/ UNCHANGED vars
    BY <2>3 DEF Tick, vars, Same
  <2>4. ASSUME NEW r \in Requests, SendOTP(r) \/ DatabaseError(r) PROVE Same(q) \/ Moved(q)
    BY <2>4, <1>5, <1>12, <1>15
  <2>5. ASSUME NEW r \in Requests, NEW a \in Addresses, RequestOTP(r, a)
        PROVE  Same(q) \/ Moved(q)
    BY <2>5, <1>1, <1>15
  <2>6. ASSUME NEW r \in Requests, NEW a \in Addresses, NEW c \in Codes \cup {None},
               VerifyOTP(r, a, c)
        PROVE  Same(q) \/ Moved(q)
    BY <2>6, <1>2, <1>15
  <2>7. ASSUME NEW r \in Requests, Abandon(r) PROVE Same(q)
    BY <2>7, <1>13
  <2>. QED
    BY <2>1, <2>2, <2>3, <2>4, <2>5, <2>6, <2>7 DEF Next
<1>. QED
  BY <1>16 DEF Moved

\* A row of otp_codes stays as it is, or one of the five statements that write
\* the table has written it.
LEMMA RowMoves ==
  ASSUME Inv, [Next]_vars, NEW i \in OtpIds
  PROVE  \/ otp_codes'[i] = otp_codes[i]
         \/ /\ i = last_id + 1 /\ last_id' = i
            /\ \E r \in Requests : InsertOTP(r) /\ otp_codes'[i].email = h[r].email
            /\ otp_codes'[i].attempts = 0 /\ otp_codes'[i].logins = 0
         \/ otp_codes'[i] = [otp_codes[i] EXCEPT !.stored = FALSE]
         \/ \E r \in Requests :
              /\ RecordFailedAttempt(r) /\ i = h[r].row
              /\ otp_codes'[i] = [otp_codes[i] EXCEPT !.attempts = @ + 1]
         \/ otp_codes'[i] = [otp_codes[i] EXCEPT !.consumed = TRUE]
         \/ \E r \in Requests :
              /\ CreateSession(r) /\ i = h[r].row
              /\ otp_codes'[i] = [otp_codes[i] EXCEPT !.logins = @ + 1]
<1>0. otp_codes \in [OtpIds -> OtpRow]
  BY DEF Inv, TypeOK
<1>1. CASE UNCHANGED otp_codes
  BY <1>1
<1>2. ASSUME NEW r \in Requests, InsertOTP(r)
      PROVE  \/ otp_codes'[i] = otp_codes[i]
             \/ /\ i = last_id + 1 /\ last_id' = i /\ otp_codes'[i].email = h[r].email
                /\ otp_codes'[i].attempts = 0 /\ otp_codes'[i].logins = 0
  BY <1>0, <1>2 DEF InsertOTP
<1>3. ASSUME NEW r \in Requests, DeleteOTP(r)
      PROVE  \/ otp_codes'[i] = otp_codes[i]
             \/ otp_codes'[i] = [otp_codes[i] EXCEPT !.stored = FALSE]
  BY <1>0, <1>3 DEF DeleteOTP
<1>4. ASSUME NEW r \in Requests, RecordFailedAttempt(r)
      PROVE  \/ otp_codes'[i] = otp_codes[i]
             \/ i = h[r].row /\ otp_codes'[i] = [otp_codes[i] EXCEPT !.attempts = @ + 1]
  BY <1>0, <1>4 DEF RecordFailedAttempt, Update
<1>5. ASSUME NEW r \in Requests, ConsumeOTP(r)
      PROVE  \/ otp_codes'[i] = otp_codes[i]
             \/ otp_codes'[i] = [otp_codes[i] EXCEPT !.consumed = TRUE]
  BY <1>0, <1>5 DEF ConsumeOTP, Update
<1>6. ASSUME NEW r \in Requests, CreateSession(r)
      PROVE  \/ otp_codes'[i] = otp_codes[i]
             \/ i = h[r].row /\ otp_codes'[i] = [otp_codes[i] EXCEPT !.logins = @ + 1]
  BY <1>0, <1>6 DEF CreateSession
<1>7. \/ UNCHANGED otp_codes
      \/ \E r \in Requests : \/ InsertOTP(r) \/ DeleteOTP(r) \/ RecordFailedAttempt(r)
                             \/ ConsumeOTP(r) \/ CreateSession(r)
  BY DEF Next, Handle, RequestOTP, VerifyOTP, CheckCooldown, SendOTP, CheckCode, UpsertUser,
         DatabaseError, Abandon, Crash, Tick, vars
<1>. QED
  BY <1>1, <1>2, <1>3, <1>4, <1>5, <1>6, <1>7

\* The clock and the identity column only advance.
LEMMA ClockMoves ==
  ASSUME Inv, [Next]_vars
  PROVE  now' \in Int /\ now \in Int /\ now <= now' /\ last_id <= last_id'
<1>1. now \in Int /\ last_id \in Int
  BY LimitsAssumption DEF Inv, TypeOK
<1>2. now' = now \/ now' = now + 1
  BY DEF Next, Handle, RequestOTP, VerifyOTP, CheckCooldown, InsertOTP, SendOTP, DeleteOTP,
         CheckCode, RecordFailedAttempt, ConsumeOTP, UpsertUser, CreateSession,
         DatabaseError, Abandon, Crash, Tick, vars
<1>3. last_id' = last_id \/ last_id' = last_id + 1
  BY DEF Next, Handle, RequestOTP, VerifyOTP, CheckCooldown, InsertOTP, SendOTP, DeleteOTP,
         CheckCode, RecordFailedAttempt, ConsumeOTP, UpsertUser, CreateSession,
         DatabaseError, Abandon, Crash, Tick, vars
<1>. QED
  BY <1>1, <1>2, <1>3

-----------------------------------------------------------------------------
(* A dead code stays dead                                                  *)

\* No interleaving brings back a code that is consumed, deleted, expired or
\* out of attempts (otp.go, the five statements on otp_codes).
THEOREM DeadForGood == Spec => DeadStaysDead
<1>1. ASSUME Inv, [Next]_vars, NEW i \in 1..last_id, Dead(i) PROVE Dead(i)'
  <2>1. i \in OtpIds /\ i # last_id + 1 /\ last_id \in Int
    BY <1>1, LimitsAssumption DEF Inv, TypeOK
  <2>2. otp_codes[i] \in OtpRow
    BY <2>1, RowFields, <1>1
  <2>3. now' \in Int /\ now \in Int /\ now <= now'
    BY <1>1, ClockMoves
  <2>4. \/ otp_codes'[i] = otp_codes[i]
        \/ otp_codes'[i] = [otp_codes[i] EXCEPT !.stored = FALSE]
        \/ otp_codes'[i] = [otp_codes[i] EXCEPT !.attempts = @ + 1]
        \/ otp_codes'[i] = [otp_codes[i] EXCEPT !.consumed = TRUE]
        \/ otp_codes'[i] = [otp_codes[i] EXCEPT !.logins = @ + 1]
    BY <1>1, <2>1, RowMoves
  <2>5. otp_codes[i].attempts \in Int /\ otp_codes[i].expires_at \in Int
        /\ otpMaxAttempts \in Int
    BY <2>2, LimitsAssumption DEF OtpRow
  <2>6. /\ ~otp_codes[i].stored => ~otp_codes'[i].stored
        /\ otp_codes[i].consumed => otp_codes'[i].consumed
        /\ otp_codes'[i].attempts \in {otp_codes[i].attempts, otp_codes[i].attempts + 1}
        /\ otp_codes'[i].expires_at = otp_codes[i].expires_at
    BY <2>2, <2>4 DEF OtpRow
  <2>. QED
    BY <1>1, <2>3, <2>5, <2>6 DEF Dead
<1>2. Inv /\ [Next]_vars => [\A i \in 1..last_id : Dead(i) => Dead(i)']_vars
  BY <1>1
<1>. QED
  BY <1>2, InvHolds, PTL DEF Spec, DeadStaysDead

-----------------------------------------------------------------------------
(* A spent code                                                            *)

\* A row that opened a session, or that a handler has consumed, is seen as
\* open by no later handler.
SpentInv ==
  \A i \in OtpIds :
    \/ otp_codes[i].logins > 0
    \/ \E r \in Requests : h[r].pc \in {"upsert", "session"} /\ h[r].row = i
    => otp_codes[i].consumed \/ ~otp_codes[i].stored

\* SpentInv holds at first.
LEMMA InitSpent == Init => SpentInv
BY DEF Init, SpentInv, Blank

\* Which handlers come to hold row i after its consumption.
LEMMA NextSpent == Inv /\ SpentInv /\ [Next]_vars => SpentInv'
<1> SUFFICES ASSUME Inv, SpentInv, [Next]_vars, NEW i \in OtpIds,
                    \/ otp_codes'[i].logins > 0
                    \/ \E r \in Requests : h'[r].pc \in {"upsert", "session"} /\ h'[r].row = i
             PROVE  otp_codes'[i].consumed \/ ~otp_codes'[i].stored
  BY DEF SpentInv
<1> DEFINE Closed == otp_codes[i].consumed \/ ~otp_codes[i].stored
           New == /\ i = last_id + 1
                  /\ otp_codes'[i].logins = 0
<1>1. otp_codes[i] \in OtpRow /\ last_id \in Int
  BY RowFields, LimitsAssumption DEF Inv, TypeOK
<1>2. /\ [otp_codes[i] EXCEPT !.stored = FALSE].stored = FALSE
      /\ [otp_codes[i] EXCEPT !.consumed = TRUE].consumed = TRUE
      /\ [otp_codes[i] EXCEPT !.attempts = @ + 1].logins = otp_codes[i].logins
      /\ [otp_codes[i] EXCEPT !.attempts = @ + 1].stored = otp_codes[i].stored
      /\ [otp_codes[i] EXCEPT !.attempts = @ + 1].consumed = otp_codes[i].consumed
      /\ [otp_codes[i] EXCEPT !.logins = @ + 1].stored = otp_codes[i].stored
      /\ [otp_codes[i] EXCEPT !.logins = @ + 1].consumed = otp_codes[i].consumed
  BY <1>1 DEF OtpRow
<1>3. \/ New
      \/ Closed => otp_codes'[i].consumed \/ ~otp_codes'[i].stored
  BY <1>2, RowMoves
<1>4. ASSUME NEW r \in Requests, h'[r].pc \in {"upsert", "session"}, h'[r].row = i
      PROVE  /\ h[r].pc \in {"consume", "upsert", "session"} /\ h[r].row = i
             /\ h[r].pc = "consume" => ConsumeOTP(r)
  BY <1>4, HandlerMoves DEF Same, UpsertUser, ConsumeOTP
<1>5. ASSUME NEW r \in Requests, h[r].pc \in {"consume", "upsert", "session"}, h[r].row = i
      PROVE  ~New
  BY <1>1, <1>5, HandlerFields DEF LocalsOK
<1>6. ASSUME NEW r \in Requests, ConsumeOTP(r), h[r].row = i
      PROVE  otp_codes'[i].consumed \/ ~otp_codes'[i].stored
  BY <1>1, <1>2, <1>6 DEF ConsumeOTP, Update, Inv, TypeOK
<1>7. CASE \E r \in Requests : h'[r].pc \in {"upsert", "session"} /\ h'[r].row = i
  BY <1>3, <1>4, <1>5, <1>6, <1>7 DEF SpentInv
<1>8. CASE otp_codes'[i].logins > 0
  <2>1. ~New
    BY <1>8
  <2>2. CASE \E r \in Requests : CreateSession(r) /\ i = h[r].row
    BY <1>3, <2>1, <2>2 DEF SpentInv, CreateSession
  <2>3. CASE ~\E r \in Requests : CreateSession(r) /\ i = h[r].row
    BY <1>2, <1>3, <1>8, <2>1, <2>3, RowMoves DEF SpentInv
  <2>. QED
    BY <2>2, <2>3
<1>. QED
  BY <1>7, <1>8

-----------------------------------------------------------------------------
(* Sessions                                                                *)

\* users.email and users.id identify each other.
AccountsDistinct ==
  \A x, y \in Emails : users[x] # None /\ users[x] = users[y] => x = y

\* AccountsDistinct is inductive (upsertUser).
LEMMA NextAccounts == Inv /\ AccountsDistinct /\ [Next]_vars => AccountsDistinct'
<1> SUFFICES ASSUME Inv, AccountsDistinct, [Next]_vars PROVE AccountsDistinct'
  OBVIOUS
<1>1. CASE UNCHANGED users
  BY <1>1 DEF AccountsDistinct
<1>2. ASSUME NEW r \in Requests, UpsertUser(r) PROVE AccountsDistinct'
  <2>1. PICK id \in UserIds :
          /\ IF users[h[r].email] # None THEN id = users[h[r].email]
                                         ELSE \A x \in Emails : users[x] # id
          /\ users' = [users EXCEPT ![h[r].email] = id]
    BY <1>2 DEF UpsertUser
  <2>. QED
    BY <2>1 DEF AccountsDistinct, Inv, TypeOK
<1>. QED
  BY <1>1, <1>2
     DEF Next, Handle, RequestOTP, VerifyOTP, CheckCooldown, InsertOTP, SendOTP, DeleteOTP,
         CheckCode, RecordFailedAttempt, ConsumeOTP, CreateSession, DatabaseError, Abandon, Crash,
         Tick, vars

\* An id not handed out yet has been logged in with by nobody.
FreshUnused == \A i \in OtpIds : i > last_id => otp_codes[i].logins = 0

\* A row keeps its email and its logins, unless it is inserted, or a session is
\* opened with its code.
LEMMA LoginsKept ==
  ASSUME Inv, [Next]_vars, NEW i \in OtpIds
  PROVE  \/ otp_codes'[i].logins = 0 /\ i = last_id + 1 /\ last_id' = i
         \/ otp_codes'[i].email = otp_codes[i].email /\ otp_codes'[i].logins = otp_codes[i].logins
         \/ \E r \in Requests : CreateSession(r) /\ i = h[r].row
<1>1. otp_codes[i] \in OtpRow
  BY RowFields
<1>2. \A x \in {[otp_codes[i] EXCEPT !.stored = FALSE],
                [otp_codes[i] EXCEPT !.attempts = @ + 1],
                [otp_codes[i] EXCEPT !.consumed = TRUE]} :
        x.email = otp_codes[i].email /\ x.logins = otp_codes[i].logins
  BY <1>1 DEF OtpRow
<1>. QED
  BY <1>2, RowMoves

\* No session opened, no login counted.
LEMMA LoginsStay ==
  ASSUME Inv, FreshUnused, [Next]_vars, ~\E r \in Requests : CreateSession(r)
  PROVE  FreshUnused' /\ \A e \in Emails : LoginsOf(e)' = LoginsOf(e)
<1>1. last_id \in Int /\ last_id' \in Int /\ last_id <= last_id'
  BY ClockMoves, NextInv, LimitsAssumption DEF Inv, TypeOK
<1>2. ASSUME NEW i \in OtpIds
      PROVE  \/ i = last_id + 1 /\ otp_codes'[i].logins = 0 /\ otp_codes[i].logins = 0
             \/ /\ otp_codes'[i].email = otp_codes[i].email
                /\ otp_codes'[i].logins = otp_codes[i].logins
  BY <1>1, LoginsKept DEF FreshUnused
<1>3. FreshUnused'
  BY <1>1, <1>2 DEF FreshUnused
<1>4. ASSUME NEW e \in Emails, NEW i \in OtpIds, NEW p
      PROVE  otp_codes'[i].email = e /\ p \in {i} \X (1..otp_codes'[i].logins)
               <=> otp_codes[i].email = e /\ p \in {i} \X (1..otp_codes[i].logins)
  BY <1>2
<1>5. ASSUME NEW e \in Emails PROVE LoginsOf(e)' = LoginsOf(e)
  BY <1>4 DEF LoginsOf
<1>. QED
  BY <1>3, <1>5

\* A session opened is one login more with the code of the handler.
LEMMA LoginAdded ==
  ASSUME Inv, FreshUnused, NEW r \in Requests, CreateSession(r),
         NEW e \in Emails, h[r].email = e
  PROVE  /\ FreshUnused'
         /\ \A x \in Emails \ {e} : LoginsOf(x)' = LoginsOf(x)
         /\ \E new : new \notin LoginsOf(e) /\ LoginsOf(e)' = LoginsOf(e) \cup {new}
<1> DEFINE k == h[r].row
           l == otp_codes[k].logins
<1>1. /\ k \in 1..last_id /\ otp_codes[k].email = e /\ k \in OtpIds
      /\ last_id \in Int /\ last_id' = last_id
  BY HandlerFields, LimitsAssumption DEF CreateSession, LocalsOK, Inv, TypeOK
<1>2. otp_codes[k] \in OtpRow /\ l \in Nat
  BY <1>1, RowFields
<1>3. otp_codes' = [otp_codes EXCEPT ![k] = [otp_codes[k] EXCEPT !.logins = l + 1]]
  BY DEF CreateSession
<1>4. \A i \in OtpIds : i # k => otp_codes'[i] = otp_codes[i]
  BY <1>1, <1>3 DEF Inv, TypeOK
<1>5. otp_codes'[k].email = e /\ otp_codes'[k].logins = l + 1
  <2>1. otp_codes'[k] = [otp_codes[k] EXCEPT !.logins = l + 1]
    BY <1>1, <1>3 DEF Inv, TypeOK
  <2>. QED
    BY <1>1, <1>2, <2>1 DEF OtpRow
<1>6. FreshUnused'
  <2>1. \A i \in OtpIds : i > last_id => i # k
    BY <1>1
  <2>. QED
    BY <1>1, <1>4, <2>1 DEF FreshUnused
<1> HIDE DEF k, l
<1>7. ASSUME NEW x \in Emails \ {e} PROVE LoginsOf(x)' = LoginsOf(x)
  <2>1. ASSUME NEW i \in OtpIds, NEW p
        PROVE  otp_codes'[i].email = x /\ p \in {i} \X (1..otp_codes'[i].logins)
                 <=> otp_codes[i].email = x /\ p \in {i} \X (1..otp_codes[i].logins)
    BY <1>1, <1>4, <1>5
  <2>. QED
    BY <2>1 DEF LoginsOf
<1>8. <<k, l + 1>> \notin LoginsOf(e)
  <2>1. ASSUME NEW i \in OtpIds, <<k, l + 1>> \in {i} \X (1..otp_codes[i].logins)
        PROVE  FALSE
    <3>1. i = k /\ l + 1 \in 1..l
      BY <2>1 DEF l
    <3>. QED
      BY <1>2, <3>1
  <2>. QED
    BY <2>1 DEF LoginsOf
<1>9. LoginsOf(e)' = LoginsOf(e) \cup {<<k, l + 1>>}
  <2>1. \A i \in OtpIds : i # k => otp_codes'[i].email = otp_codes[i].email
                                  /\ otp_codes'[i].logins = otp_codes[i].logins
    BY <1>4
  <2>2. 1..(l + 1) = (1..l) \cup {l + 1}
    BY <1>2
  <2>3. {k} \X (1..(l + 1)) = ({k} \X (1..l)) \cup {<<k, l + 1>>}
    BY <2>2
  <2>4. ASSUME NEW i \in OtpIds, NEW p
        PROVE  otp_codes'[i].email = e /\ p \in {i} \X (1..otp_codes'[i].logins)
                 <=> \/ otp_codes[i].email = e /\ p \in {i} \X (1..otp_codes[i].logins)
                     \/ i = k /\ p = <<k, l + 1>>
    <3>1. CASE i = k
      BY <1>1, <1>5, <2>3, <3>1 DEF l
    <3>2. CASE i # k
      BY <2>1, <3>2
    <3>. QED
      BY <3>1, <3>2
  <2>5. ASSUME NEW p
        PROVE  p \in UNION {{i} \X (1..otp_codes'[i].logins) :
                             i \in {j \in OtpIds : otp_codes'[j].email = e}}
                 <=> p \in LoginsOf(e) \/ p = <<k, l + 1>>
    BY <1>1, <2>4 DEF LoginsOf
  <2>6. LoginsOf(e)' = UNION {{i} \X (1..otp_codes'[i].logins) :
                               i \in {j \in OtpIds : otp_codes'[j].email = e}}
    BY DEF LoginsOf
  <2>. QED
    BY <2>5, <2>6
<1>. QED
  BY <1>6, <1>7, <1>8, <1>9

\* The accounts and their sessions: SessionsEarned, and that ids nobody has have
\* no sessions and emails without an account no logins.
SessionsInv ==
  /\ AccountsDistinct
  /\ FreshUnused
  /\ \A u \in UserIds : sessions[u] > 0 => \E e \in Emails : users[e] = u
  /\ \A e \in Emails :
       /\ IsFiniteSet(LoginsOf(e))
       /\ users[e] = None => LoginsOf(e) = {}
       /\ users[e] # None => sessions[users[e]] = Cardinality(LoginsOf(e))

\* SessionsInv holds of empty tables.
LEMMA InitSessions == Init => SessionsInv
<1> SUFFICES ASSUME Init PROVE SessionsInv
  OBVIOUS
<1>1. \A e \in Emails : LoginsOf(e) = {}
  BY DEF Init, LoginsOf
<1>2. IsFiniteSet({})
  BY FS_EmptySet
<1>3. \A e \in Emails : users[e] = None
  BY DEF Init
<1>4. AccountsDistinct
  BY <1>3 DEF AccountsDistinct
<1>5. FreshUnused /\ \A u \in UserIds : ~(sessions[u] > 0)
  BY DEF Init, FreshUnused
<1>. QED
  BY <1>1, <1>2, <1>3, <1>4, <1>5 DEF SessionsInv

\* SessionsInv is inductive.
LEMMA NextSessions == Inv /\ SessionsInv /\ [Next]_vars => SessionsInv'
<1> SUFFICES ASSUME Inv, SessionsInv, [Next]_vars PROVE SessionsInv'
  OBVIOUS
<1>0. AccountsDistinct'
  BY NextAccounts DEF SessionsInv
<1>t. users \in [Emails -> UserIds \cup {None}] /\ sessions \in [UserIds -> Nat]
  BY DEF Inv, TypeOK
<1>1. ASSUME NEW r \in Requests, CreateSession(r) PROVE SessionsInv'
  <2>1. PICK e \in Emails : h[r].email = e
    BY <1>1, HandlerFields DEF CreateSession, LocalsOK
  <2>2. PICK u \in UserIds : h[r].user = u /\ users[e] = u
    BY <1>1, <1>t, <2>1, HandlerFields DEF CreateSession, LocalsOK
  <2>3. users' = users /\ sessions' = [sessions EXCEPT ![u] = @ + 1]
    BY <1>1, <2>2 DEF CreateSession
  <2>4. /\ FreshUnused' /\ \A x \in Emails \ {e} : LoginsOf(x)' = LoginsOf(x)
        /\ \E new : new \notin LoginsOf(e) /\ LoginsOf(e)' = LoginsOf(e) \cup {new}
    BY <1>1, <2>1, LoginAdded DEF SessionsInv
  <2>5. u # None
    BY <2>2, NoneAssumption
  <2>6. IsFiniteSet(LoginsOf(e)) /\ sessions[u] = Cardinality(LoginsOf(e))
    BY <2>2, <2>5 DEF SessionsInv
  <2>7. IsFiniteSet(LoginsOf(e)') /\ Cardinality(LoginsOf(e)') = sessions[u] + 1
    BY <2>4, <2>6, FS_AddElement
  <2>8. \A x \in Emails \ {e} : users[x] # None => users[x] # u
    BY <2>2 DEF SessionsInv, AccountsDistinct
  <2>9. ASSUME NEW x \in Emails
        PROVE  /\ IsFiniteSet(LoginsOf(x)')
               /\ users'[x] = None => LoginsOf(x)' = {}
               /\ users'[x] # None => sessions'[users'[x]] = Cardinality(LoginsOf(x)')
    <3>1. CASE x = e
      BY <1>t, <2>2, <2>3, <2>5, <2>7, <3>1
    <3>2. CASE x # e
      <4>1. LoginsOf(x)' = LoginsOf(x)
        BY <2>4, <3>2
      <4>. QED
        BY <1>t, <2>3, <2>8, <3>2, <4>1 DEF SessionsInv
    <3>. QED
      BY <3>1, <3>2
  <2>10. ASSUME NEW v \in UserIds, sessions'[v] > 0 PROVE \E x \in Emails : users'[x] = v
    BY <1>t, <2>2, <2>3, <2>10 DEF SessionsInv
  <2>. QED
    BY <1>0, <2>4, <2>9, <2>10 DEF SessionsInv
<1>2. CASE ~\E r \in Requests : CreateSession(r)
  <2>1. FreshUnused' /\ \A e \in Emails : LoginsOf(e)' = LoginsOf(e)
    BY <1>2, LoginsStay DEF SessionsInv
  <2>2. sessions' = sessions
    BY <1>2
       DEF Next, Handle, RequestOTP, VerifyOTP, CheckCooldown, InsertOTP, SendOTP, DeleteOTP,
           CheckCode, RecordFailedAttempt, ConsumeOTP, UpsertUser, DatabaseError, Abandon,
           Crash, Tick, vars
  <2>3. CASE users' = users
    BY <1>0, <2>1, <2>2, <2>3 DEF SessionsInv
  <2>4. ASSUME NEW r \in Requests, UpsertUser(r) PROVE SessionsInv'
    <3>1. PICK e \in Emails : h[r].email = e
      BY <2>4, HandlerFields DEF UpsertUser, LocalsOK
    <3>2. PICK id \in UserIds :
            /\ IF users[e] # None THEN id = users[e] ELSE \A x \in Emails : users[x] # id
            /\ users' = [users EXCEPT ![e] = id]
      BY <2>4, <3>1 DEF UpsertUser
    <3>3. CASE users[e] # None
      <4>1. users' = users
        BY <1>t, <3>2, <3>3
      <4>. QED
        BY <2>3, <4>1
    <3>4. CASE users[e] = None
      <4>1. sessions[id] = 0
        BY <1>t, <3>2, <3>4 DEF SessionsInv
      <4>2. LoginsOf(e) = {} /\ Cardinality(LoginsOf(e)) = 0
        BY <3>4, FS_EmptySet DEF SessionsInv
      <4>3. users'[e] = id /\ id # None /\ \A x \in Emails \ {e} : users'[x] = users[x]
        BY <1>t, <3>2, NoneAssumption
      <4>4. ASSUME NEW x \in Emails
            PROVE  /\ IsFiniteSet(LoginsOf(x)')
                   /\ users'[x] = None => LoginsOf(x)' = {}
                   /\ users'[x] # None => sessions'[users'[x]] = Cardinality(LoginsOf(x)')
        <5>1. LoginsOf(x)' = LoginsOf(x)
          BY <2>1
        <5>2. CASE x = e
          BY <2>2, <4>1, <4>2, <4>3, <5>1, <5>2 DEF SessionsInv
        <5>3. CASE x # e
          BY <2>2, <4>3, <5>1, <5>3 DEF SessionsInv
        <5>. QED
          BY <5>2, <5>3
      <4>5. ASSUME NEW v \in UserIds, sessions'[v] > 0 PROVE \E x \in Emails : users'[x] = v
        <5>1. PICK x \in Emails : users[x] = v
          BY <2>2, <4>5 DEF SessionsInv
        <5>2. x # e
          BY <3>4, <5>1, NoneAssumption
        <5>. QED
          BY <4>3, <5>1, <5>2
      <4>. QED
        BY <1>0, <2>1, <4>4, <4>5 DEF SessionsInv
    <3>. QED
      BY <3>3, <3>4
  <2>5. users' = users \/ \E r \in Requests : UpsertUser(r)
    BY DEF Next, Handle, RequestOTP, VerifyOTP, CheckCooldown, InsertOTP, SendOTP, DeleteOTP,
           CheckCode, RecordFailedAttempt, ConsumeOTP, CreateSession, DatabaseError, Abandon,
           Crash, Tick, vars
  <2>. QED
    BY <2>3, <2>4, <2>5
<1>. QED
  BY <1>1, <1>2

\* Every account belongs to one email and has exactly as many sessions as codes
\* created for that email were logged in with (verifyOTP, upsertUser and
\* createSession).
THEOREM SessionsAreEarned == Spec => []SessionsEarned
<1>1. SessionsInv => SessionsEarned
  <2> SUFFICES ASSUME SessionsInv, NEW u \in UserIds, sessions[u] > 0
               PROVE  \E e \in Emails :
                        /\ \A x \in Emails : users[x] = u <=> x = e
                        /\ sessions[u] = Cardinality(LoginsOf(e))
    BY DEF SessionsEarned
  <2>1. PICK e \in Emails : users[e] = u
    BY DEF SessionsInv
  <2>2. u # None
    BY NoneAssumption
  <2>. QED
    BY <2>1, <2>2 DEF SessionsInv, AccountsDistinct
<1>. QED
  BY <1>1, InvHolds, InitSessions, NextSessions, PTL DEF Spec

=============================================================================
