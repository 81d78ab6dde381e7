--------------------------- MODULE OtpLimitsProofs ---------------------------
(***************************************************************************)
(* What is left of the limits of package auth when handlers overlap, for   *)
(* every number of requests, emails and codes, every limit and every bound.*)
(***************************************************************************)
EXTENDS OtpLimits, OtpLoginProofs

USE DEF At, Idle, Goto, OtpIds, RequestSteps, VerifySteps, WriteSteps

-----------------------------------------------------------------------------
(* Counting: subsets of the requests in flight                             *)

\* Sets of requests are finite and at most as large as Requests.
LEMMA CountRequests ==
  ASSUME NEW S \in SUBSET Requests, NEW T \in SUBSET S
  PROVE  /\ Cardinality(T) \in Nat /\ Cardinality(S) \in Nat /\ Cardinality(Requests) \in Nat
         /\ Cardinality(T) <= Cardinality(S) /\ Cardinality(S) <= Cardinality(Requests)
BY RequestsAssumption, FS_Subset, FS_CardinalityType

\* A request less in a set of requests is one less.
LEMMA CountOneLess ==
  ASSUME NEW S \in SUBSET Requests, NEW r \in S, NEW T \in SUBSET (S \ {r})
  PROVE  Cardinality(T) + 1 <= Cardinality(S)
<1>1. IsFiniteSet(S) /\ Cardinality(S) \in Nat
  BY RequestsAssumption, FS_Subset, FS_CardinalityType
<1>2. IsFiniteSet(S \ {r}) /\ Cardinality(S \ {r}) = Cardinality(S) - 1
  BY <1>1, FS_RemoveElement
<1>3. Cardinality(T) <= Cardinality(S \ {r}) /\ Cardinality(T) \in Nat
  BY <1>2, FS_Subset, FS_CardinalityType
<1>. QED
  BY <1>1, <1>2, <1>3

-----------------------------------------------------------------------------
(* The history                                                             *)

\* Every row ever inserted is of an email.
RowsHaveEmail == \A i \in 1..last_id : otp_codes[i].email \in Emails

\* The invariant of OtpLogin, and what crowd records.
LInv ==
  /\ Inv
  /\ RowsHaveEmail
  /\ crowd \in [Emails -> Nat]
  /\ \A e \in Emails : Cardinality(InFlight(e)) <= crowd[e]

\* Ids are handed out one at a time, by InsertOTP.
LEMMA LastIdMoves ==
  ASSUME [Next]_vars
  PROVE  last_id' = last_id \/ (last_id' = last_id + 1 /\ \E r \in Requests : InsertOTP(r))
<1>1. CASE \E r \in Requests : InsertOTP(r)
  BY <1>1 DEF InsertOTP
<1>2. CASE ~\E r \in Requests : InsertOTP(r)
  BY <1>2
     DEF Next, Handle, RequestOTP, VerifyOTP, CheckCooldown, SendOTP, DeleteOTP,
         CheckCode, RecordFailedAttempt, ConsumeOTP, UpsertUser, CreateSession,
         DatabaseError, Abandon, Crash, Tick, vars
<1>. QED
  BY <1>1, <1>2

\* LInv holds at first.
LEMMA InitCrowd == LimitsInit => LInv
<1> SUFFICES ASSUME LimitsInit PROVE LInv
  OBVIOUS
<1>1. Inv /\ RowsHaveEmail /\ crowd = [e \in Emails |-> 0]
  BY InitInv DEF LimitsInit, Init, RowsHaveEmail
<1>2. \A e \in Emails : InFlight(e) = {}
  BY NoneAssumption DEF LimitsInit, Init, InFlight, Blank
<1>3. \A e \in Emails : Cardinality(InFlight(e)) = 0
  BY <1>2, FS_EmptySet
<1>. QED
  BY <1>1, <1>3 DEF LInv

\* Every step is one of OtpLogin, and the history only grows.
LEMMA NextCrowd ==
  ASSUME LInv, [LimitsNext]_lvars
  PROVE  LInv' /\ [Next]_vars /\ \A e \in Emails : crowd[e] <= crowd'[e]
<1>1. [Next]_vars /\ Inv
  BY DEF LimitsNext, lvars, LInv
<1>2. Inv'
  BY <1>1, NextInv
<1>3. RowsHaveEmail'
  <2> SUFFICES ASSUME NEW i \in 1..last_id' PROVE otp_codes'[i].email \in Emails
    BY DEF RowsHaveEmail
  <2>1. i \in OtpIds /\ last_id \in Int /\ last_id' \in Int
    BY <1>1, <1>2, LimitsAssumption DEF Inv, TypeOK
  <2>2. CASE \E r \in Requests : InsertOTP(r) /\ otp_codes'[i].email = h[r].email
    BY <1>1, <2>2, HandlerFields DEF InsertOTP, LocalsOK
  <2>3. CASE ~\E r \in Requests : InsertOTP(r) /\ otp_codes'[i].email = h[r].email
    <3>1. otp_codes[i] \in OtpRow
      BY <1>1, <2>1, RowFields
    <3>2. otp_codes'[i].email = otp_codes[i].email
      BY <1>1, <2>1, <2>3, <3>1, RowMoves DEF OtpRow
    <3>3. i \in 1..last_id
      <4>1. last_id' = last_id \/ (last_id' = last_id + 1 /\ \E r \in Requests : InsertOTP(r))
        BY <1>1, LastIdMoves
      <4>2. ASSUME NEW r \in Requests, InsertOTP(r) PROVE i # last_id + 1
        BY <1>1, <2>1, <2>3, <4>2, LimitsAssumption DEF InsertOTP, Inv, TypeOK
      <4>. QED
        BY <2>1, <4>1, <4>2
    <3>. QED
      BY <3>2, <3>3 DEF LInv, RowsHaveEmail
  <2>. QED
    BY <2>2, <2>3
<1>4. ASSUME NEW e \in Emails PROVE InFlight(e)' \in SUBSET Requests /\ Cardinality(InFlight(e)') \in Nat
  <2>1. InFlight(e)' \in SUBSET Requests
    BY DEF InFlight
  <2>. QED
    BY <2>1, CountRequests
<1>5. CASE Crowding
  <2>1. \A e \in Emails :
          crowd'[e] = IF Cardinality(InFlight(e)') > crowd[e] THEN Cardinality(InFlight(e)')
                                                              ELSE crowd[e]
    BY <1>5 DEF Crowding
  <2>2. crowd' \in [Emails -> Nat]
    BY <1>4, <1>5 DEF Crowding, LInv
  <2>3. \A e \in Emails : crowd[e] <= crowd'[e] /\ Cardinality(InFlight(e)') <= crowd'[e]
    BY <1>4, <2>1 DEF LInv
  <2>. QED
    BY <1>1, <1>2, <1>3, <2>2, <2>3 DEF LInv
<1>6. CASE UNCHANGED lvars
  <2>1. crowd' = crowd /\ \A e \in Emails : InFlight(e)' = InFlight(e)
    BY <1>6 DEF lvars, vars, InFlight
  <2>. QED
    BY <1>1, <1>2, <1>3, <2>1 DEF LInv
<1>. QED
  BY <1>5, <1>6 DEF LimitsNext

\* It bounds any set of the handlers of an email in flight.
LEMMA Crowded ==
  ASSUME LInv', NEW e \in Emails, NEW S, S \subseteq InFlight(e)'
  PROVE  Cardinality(S) \in Nat /\ crowd'[e] \in Nat /\ Cardinality(S) <= crowd'[e]
<1>1. InFlight(e)' \in SUBSET Requests
  BY DEF InFlight
<1>2. /\ Cardinality(S) \in Nat /\ Cardinality(InFlight(e)') \in Nat
      /\ Cardinality(S) <= Cardinality(InFlight(e)')
  BY <1>1, CountRequests
<1>. QED
  BY <1>2 DEF LInv

-----------------------------------------------------------------------------
(* Attempts                                                                *)

\* The handlers that found the code of row i wrong and have not recorded it.
\* Each of them saw fewer than otpMaxAttempts attempts, so what it is about to
\* add is part of the bound: AttemptsBounded alone is not inductive.
Rejecting(i) == {r \in Requests : At(r, "reject") /\ h[r].row = i}

AttemptsInv ==
  \A i \in 1..last_id :
    otp_codes[i].attempts + Cardinality(Rejecting(i))
      <= otpMaxAttempts - 1 + crowd[otp_codes[i].email]

\* AttemptsInv is inductive.
LEMMA NextAttempts == LInv /\ AttemptsInv /\ [LimitsNext]_lvars => AttemptsInv'
<1> SUFFICES ASSUME LInv, AttemptsInv, [LimitsNext]_lvars, NEW i \in 1..last_id'
             PROVE  otp_codes'[i].attempts + Cardinality(Rejecting(i)')
                      <= otpMaxAttempts - 1 + crowd'[otp_codes'[i].email]
  BY DEF AttemptsInv
<1> DEFINE max == otpMaxAttempts
           a == otp_codes[i].attempts
<1>0. Inv /\ [Next]_vars /\ LInv' /\ Inv' /\ \A x \in Emails : crowd[x] <= crowd'[x]
  BY NextCrowd DEF LInv
<1>t. i \in OtpIds /\ last_id \in Int /\ last_id' \in Int /\ max \in Nat \ {0}
  BY <1>0, LimitsAssumption DEF Inv, TypeOK
<1>1. otp_codes[i] \in OtpRow /\ a \in Nat /\ otp_codes'[i].attempts \in Nat
  <2>1. otp_codes[i] \in OtpRow /\ otp_codes'[i] \in OtpRow
    BY <1>0, <1>t DEF Inv, TypeOK
  <2>. QED
    BY <2>1 DEF OtpRow
<1>2. PICK e \in Emails : otp_codes'[i].email = e
  BY <1>0 DEF LInv, RowsHaveEmail
<1>3. /\ Cardinality(Rejecting(i)') \in Nat /\ crowd'[e] \in Nat
      /\ Cardinality(Rejecting(i)') <= crowd'[e]
  <2>1. \A q \in Requests : h'[q].pc = "reject" /\ h'[q].row = i => h'[q].email = e
    BY <1>0, <1>2 DEF LocalsOK, Inv, TypeOK
  <2>2. Rejecting(i)' \subseteq InFlight(e)'
    BY <2>1 DEF Rejecting, InFlight
  <2>. QED
    BY <1>0, <2>2, Crowded
<1>4. CASE otp_codes'[i].attempts <= max - 1
  BY <1>1, <1>2, <1>3, <1>4, <1>t
<1>5. CASE ~(otp_codes'[i].attempts <= max - 1)
  <2>1. ASSUME NEW q \in Requests, CheckCode(q), h'[q].pc = "reject", h'[q].row = i
        PROVE  FALSE
    <3>1. h'[q] # Blank
      BY <2>1 DEF Blank
    <3>2. ~Answer(q)
      BY <1>0, <3>1 DEF Answer, Become, Inv, TypeOK
    <3>3. PICK j \in OtpIds, step \in {"consume", "reject"} :
            Acceptable(j) /\ Become(q, [h[q] EXCEPT !.pc = step, !.row = j, !.code = None])
      BY <2>1, <3>2, NewestIn DEF CheckCode, Unconsumed, Stored
    <3>4. h'[q].row = j
      BY <1>0, <3>3, HandlerFields DEF Become, Inv, TypeOK, Handler
    <3>5. otp_codes' = otp_codes
      BY <2>1 DEF CheckCode
    <3>. QED
      BY <1>1, <1>5, <1>t, <2>1, <3>3, <3>4, <3>5 DEF Acceptable
  <2>2. Rejecting(i)' \subseteq Rejecting(i)
    <3>1. ASSUME NEW q \in Requests, h'[q].pc = "reject", h'[q].row = i
          PROVE  h[q].pc = "reject" /\ h[q].row = i
      BY <1>0, <2>1, <3>1, HandlerMoves DEF Same
    <3>. QED
      BY <3>1 DEF Rejecting
  <2>3. \/ otp_codes'[i].attempts = a /\ otp_codes'[i].email = otp_codes[i].email
        \/ /\ \E r \in Requests : RecordFailedAttempt(r) /\ i = h[r].row
           /\ otp_codes'[i].attempts = a + 1 /\ otp_codes'[i].email = otp_codes[i].email
    <3>1. /\ \A x \in {[otp_codes[i] EXCEPT !.stored = FALSE],
                        [otp_codes[i] EXCEPT !.consumed = TRUE],
                        [otp_codes[i] EXCEPT !.logins = @ + 1]} :
               x.attempts = a /\ x.email = otp_codes[i].email
          /\ [otp_codes[i] EXCEPT !.attempts = @ + 1].attempts = a + 1
          /\ [otp_codes[i] EXCEPT !.attempts = @ + 1].email = otp_codes[i].email
      BY <1>1 DEF OtpRow
    <3>2. otp_codes'[i].attempts # 0
      BY <1>5, <1>t
    <3> HIDE DEF a
    <3>3. \/ otp_codes'[i] = otp_codes[i]
          \/ otp_codes'[i] = [otp_codes[i] EXCEPT !.stored = FALSE]
          \/ \E r \in Requests :
               /\ RecordFailedAttempt(r) /\ i = h[r].row
               /\ otp_codes'[i] = [otp_codes[i] EXCEPT !.attempts = @ + 1]
          \/ otp_codes'[i] = [otp_codes[i] EXCEPT !.consumed = TRUE]
          \/ otp_codes'[i] = [otp_codes[i] EXCEPT !.logins = @ + 1]
      BY <1>0, <1>t, <3>2, RowMoves
    <3>. QED
      BY <3>1, <3>3 DEF a
  <2>4. i \in 1..last_id
    <3>1. i # last_id + 1
      <4>1. CASE i = last_id + 1 /\ \E r \in Requests : InsertOTP(r)
        <5>1. otp_codes'[i].attempts = 0
          BY <1>0, <4>1, <1>t DEF InsertOTP, Inv, TypeOK
        <5>. QED
          BY <1>5, <1>t, <5>1
      <4>2. CASE ~\E r \in Requests : InsertOTP(r)
        BY <1>0, <1>t, <4>2, LastIdMoves
      <4>. QED
        BY <4>1, <4>2
    <3>2. last_id' = last_id \/ last_id' = last_id + 1
      BY <1>0, LastIdMoves
    <3>. QED
      BY <1>t, <3>1, <3>2
  <2>5. /\ a + Cardinality(Rejecting(i)) <= max - 1 + crowd[e] /\ crowd[e] \in Nat
        /\ otp_codes[i].email = e
    BY <1>2, <2>3, <2>4 DEF AttemptsInv, LInv
  <2>6. Rejecting(i) \in SUBSET Requests /\ Cardinality(Rejecting(i)) \in Nat
        /\ Cardinality(Rejecting(i)') <= Cardinality(Rejecting(i))
    <3>1. Rejecting(i) \in SUBSET Requests
      BY DEF Rejecting
    <3>. QED
      BY <2>2, <3>1, CountRequests
  <2>7. CASE otp_codes'[i].attempts = a
    BY <1>0, <1>1, <1>2, <1>3, <1>t, <2>5, <2>6, <2>7
  <2>8. ASSUME NEW r \in Requests, RecordFailedAttempt(r), i = h[r].row,
               otp_codes'[i].attempts = a + 1
        PROVE  otp_codes'[i].attempts + Cardinality(Rejecting(i)')
                 <= max - 1 + crowd'[otp_codes'[i].email]
    <3>1. r \in Rejecting(i)
      BY <2>8 DEF Rejecting, RecordFailedAttempt
    <3>2. h'[r].pc = "idle"
      BY <1>0, <2>8 DEF RecordFailedAttempt, Answer, Become, Blank, Inv, TypeOK
    <3>3. Rejecting(i)' \in SUBSET (Rejecting(i) \ {r})
      BY <2>2, <3>2 DEF Rejecting
    <3>4. Cardinality(Rejecting(i)') + 1 <= Cardinality(Rejecting(i))
      BY <2>6, <3>1, <3>3, CountOneLess
    <3>. QED
      BY <1>0, <1>1, <1>2, <1>3, <1>t, <2>5, <2>6, <2>8, <3>4
  <2>. QED
    BY <2>3, <2>7, <2>8
<1>. QED
  BY <1>4, <1>5

\* However many handlers read the counter before others write it, a code is
\* charged at most otpMaxAttempts - 1 wrong attempts plus one for each handler
\* of its email that overlapped; with none that did, otpMaxAttempts (verifyOTP).
THEOREM AttemptsLimited == LimitsSpec => []AttemptsBounded
<1>1. LimitsInit => AttemptsInv
  BY DEF LimitsInit, Init, AttemptsInv
<1>2. LInv /\ AttemptsInv => AttemptsBounded
  <2> SUFFICES ASSUME LInv, AttemptsInv, NEW i \in 1..last_id
               PROVE  otp_codes[i].attempts <= otpMaxAttempts - 1 + crowd[otp_codes[i].email]
    BY DEF AttemptsBounded
  <2>1. i \in OtpIds /\ Rejecting(i) \in SUBSET Requests
    BY LimitsAssumption DEF Rejecting, LInv, Inv, TypeOK
  <2>2. otp_codes[i].attempts \in Nat /\ Cardinality(Rejecting(i)) \in Nat
    BY <2>1, RowFields, CountRequests DEF LInv
  <2>3. crowd[otp_codes[i].email] \in Nat
    BY DEF LInv, RowsHaveEmail
  <2>. QED
    BY <2>2, <2>3, LimitsAssumption DEF AttemptsInv
<1>3. LInv /\ [LimitsNext]_lvars => LInv'
  BY NextCrowd
<1>. QED
  BY <1>1, <1>2, <1>3, InitCrowd, NextAttempts, PTL DEF LimitsSpec

-----------------------------------------------------------------------------
(* Logins                                                                  *)

\* The handlers that matched row i and may still open a session from it.
Using(i) == {r \in Requests : h[r].pc \in {"consume", "upsert", "session"} /\ h[r].row = i}

LoginsInv ==
  /\ SpentInv
  /\ \A i \in 1..last_id :
       otp_codes[i].logins + Cardinality(Using(i)) <= crowd[otp_codes[i].email]

\* LoginsInv is inductive: no handler starts to use a row that was used, and
\* until then the handlers that use it are handlers of its email in flight.
LEMMA NextLogins == LInv /\ LoginsInv /\ [LimitsNext]_lvars => LoginsInv'
<1> SUFFICES ASSUME LInv, LoginsInv, [LimitsNext]_lvars, NEW i \in 1..last_id'
             PROVE  otp_codes'[i].logins + Cardinality(Using(i)') <= crowd'[otp_codes'[i].email]
  <2>1. LInv /\ LoginsInv /\ [LimitsNext]_lvars => SpentInv'
    BY NextSpent DEF LInv, LoginsInv, LimitsNext, lvars
  <2>. QED
    BY <2>1 DEF LoginsInv
<1> DEFINE l == otp_codes[i].logins
<1>0. Inv /\ [Next]_vars /\ LInv' /\ Inv' /\ \A x \in Emails : crowd[x] <= crowd'[x]
  BY NextCrowd DEF LInv
<1>t. i \in OtpIds /\ last_id \in Int /\ last_id' \in Int
  BY <1>0, LimitsAssumption DEF Inv, TypeOK
<1>1. otp_codes[i] \in OtpRow /\ l \in Nat
  BY <1>0, <1>t, RowFields
<1>2. PICK e \in Emails : otp_codes'[i].email = e
  BY <1>0 DEF LInv, RowsHaveEmail
<1>3. /\ Cardinality(Using(i)') \in Nat /\ crowd'[e] \in Nat
      /\ Cardinality(Using(i)') <= crowd'[e]
  <2>1. \A q \in Requests : h'[q].pc \in {"consume", "upsert", "session"} /\ h'[q].row = i
          => h'[q].email = e
    BY <1>0, <1>2 DEF LocalsOK, Inv, TypeOK
  <2>2. Using(i)' \subseteq InFlight(e)'
    BY <2>1 DEF Using, InFlight
  <2>. QED
    BY <1>0, <2>2, Crowded
<1>4. CASE otp_codes'[i].logins = 0
  BY <1>2, <1>3, <1>4
<1>5. CASE otp_codes'[i].logins # 0
  <2>1. i \in 1..last_id /\ otp_codes[i].email = e
    <3>1. \A x \in {[otp_codes[i] EXCEPT !.stored = FALSE],
                    [otp_codes[i] EXCEPT !.attempts = @ + 1],
                    [otp_codes[i] EXCEPT !.consumed = TRUE],
                    [otp_codes[i] EXCEPT !.logins = @ + 1]} : x.email = otp_codes[i].email
      BY <1>1 DEF OtpRow
    <3>2. \/ otp_codes'[i] = otp_codes[i]
          \/ otp_codes'[i] \in {[otp_codes[i] EXCEPT !.stored = FALSE],
                               [otp_codes[i] EXCEPT !.attempts = @ + 1],
                               [otp_codes[i] EXCEPT !.consumed = TRUE],
                               [otp_codes[i] EXCEPT !.logins = @ + 1]}
      BY <1>0, <1>5, <1>t, RowMoves
    <3>5. otp_codes[i].email = e
      BY <1>2, <3>1, <3>2
    <3>3. CASE i = last_id + 1 /\ \E r \in Requests : InsertOTP(r)
      BY <1>0, <1>5, <1>t, <3>3 DEF InsertOTP, Inv, TypeOK
    <3>4. CASE ~(i = last_id + 1 /\ \E r \in Requests : InsertOTP(r))
      BY <1>0, <1>t, <3>4, <3>5, LastIdMoves
    <3>. QED
      BY <3>3, <3>4, <3>5
  <2>2. /\ l + Cardinality(Using(i)) <= crowd[e] /\ crowd[e] \in Nat /\ crowd[e] <= crowd'[e]
        /\ Using(i) \in SUBSET Requests /\ Cardinality(Using(i)) \in Nat
    <3>1. Using(i) \in SUBSET Requests
      BY DEF Using
    <3>. QED
      BY <1>0, <2>1, <3>1, CountRequests DEF LoginsInv, LInv
  <2>3. \/ otp_codes'[i].logins = l
        \/ \E r \in Requests : CreateSession(r) /\ i = h[r].row /\ otp_codes'[i].logins = l + 1
    <3>1. /\ [otp_codes[i] EXCEPT !.stored = FALSE].logins = l
          /\ [otp_codes[i] EXCEPT !.attempts = @ + 1].logins = l
          /\ [otp_codes[i] EXCEPT !.consumed = TRUE].logins = l
          /\ [otp_codes[i] EXCEPT !.logins = @ + 1].logins = l + 1
      BY <1>1 DEF OtpRow
    <3> HIDE DEF l
    <3>. QED
      BY <1>0, <1>5, <1>t, <3>1, RowMoves DEF l
  <2>4. ASSUME NEW q \in Requests, CheckCode(q), h'[q].pc = "consume", h'[q].row = i
        PROVE  FALSE
    <3>1. h'[q] # Blank
      BY <2>4 DEF Blank
    <3>2. ~Answer(q)
      BY <1>0, <3>1 DEF Answer, Become, Inv, TypeOK
    <3>3. PICK j \in Unconsumed(h[q].email), step \in {"consume", "reject"} :
            Become(q, [h[q] EXCEPT !.pc = step, !.row = j, !.code = None])
      BY <2>4, <3>2, NewestIn DEF CheckCode
    <3>4. h'[q].row = j
      BY <1>0, <3>3, HandlerFields DEF Become, Inv, TypeOK, Handler
    <3>5. l = 0
      BY <1>1, <1>t, <2>4, <3>3, <3>4 DEF Unconsumed, Stored, LoginsInv, SpentInv
    <3>6. otp_codes' = otp_codes
      BY <2>4 DEF CheckCode
    <3>. QED
      BY <1>5, <3>5, <3>6
  <2>5. Using(i)' \subseteq Using(i) /\ Cardinality(Using(i)') <= Cardinality(Using(i))
    <3>1. ASSUME NEW q \in Requests, h'[q].pc \in {"consume", "upsert", "session"},
                 h'[q].row = i
          PROVE  h[q].pc \in {"consume", "upsert", "session"} /\ h[q].row = i
      BY <1>0, <2>4, <3>1, HandlerMoves DEF ConsumeOTP, UpsertUser, Same
    <3>2. Using(i)' \subseteq Using(i)
      BY <3>1 DEF Using
    <3>. QED
      BY <2>2, <3>2, CountRequests
  <2>6. CASE otp_codes'[i].logins = l
    BY <1>1, <1>2, <1>3, <2>2, <2>5, <2>6
  <2>7. ASSUME NEW r \in Requests, CreateSession(r), i = h[r].row, otp_codes'[i].logins = l + 1
        PROVE  otp_codes'[i].logins + Cardinality(Using(i)') <= crowd'[otp_codes'[i].email]
    <3>1. r \in Using(i)
      BY <2>7 DEF Using, CreateSession
    <3>2. h'[r].pc = "idle"
      BY <1>0, <2>7 DEF CreateSession, Answer, Become, Blank, Inv, TypeOK
    <3>3. Using(i)' \in SUBSET (Using(i) \ {r})
      BY <2>5, <3>2 DEF Using
    <3>4. Cardinality(Using(i)') + 1 <= Cardinality(Using(i))
      BY <2>2, <3>1, <3>3, CountOneLess
    <3>. QED
      BY <1>1, <1>2, <1>3, <2>2, <2>7, <3>4
  <2>. QED
    BY <2>3, <2>6, <2>7
<1>. QED
  BY <1>4, <1>5

\* However many handlers match a code before the first of them consumes it, it
\* opens at most one session for each handler of its email that overlapped, and
\* none later; with none that did, one (verifyOTP, createSession).
THEOREM LoginsLimited == LimitsSpec => []LoginsBounded
<1>1. LimitsInit => LoginsInv
  BY InitSpent DEF LimitsInit, Init, LoginsInv
<1>2. LInv /\ LoginsInv => LoginsBounded
  <2> SUFFICES ASSUME LInv, LoginsInv, NEW i \in 1..last_id
               PROVE  otp_codes[i].logins <= crowd[otp_codes[i].email]
    BY DEF LoginsBounded
  <2>1. i \in OtpIds /\ Using(i) \in SUBSET Requests
    BY LimitsAssumption DEF Using, LInv, Inv, TypeOK
  <2>2. otp_codes[i].logins \in Nat /\ Cardinality(Using(i)) \in Nat
    BY <2>1, RowFields, CountRequests DEF LInv
  <2>3. crowd[otp_codes[i].email] \in Nat
    BY DEF LInv, RowsHaveEmail
  <2>. QED
    BY <2>2, <2>3 DEF LoginsInv
<1>3. LInv /\ [LimitsNext]_lvars => LInv'
  BY NextCrowd
<1>. QED
  BY <1>1, <1>2, <1>3, InitCrowd, NextLogins, PTL DEF LimitsSpec

-----------------------------------------------------------------------------
(* Cooldown                                                                *)

\* The handlers that passed the cooldown check for e and have not inserted.
Inserting(e) == {r \in Requests : At(r, "insert") /\ h[r].email = e}

\* While a recent code exists no handler passes the check, so those that did
\* and the recent codes together are no more than overlapped.
CooldownInv ==
  \A e \in Emails : Cardinality(Recent(e)) + Cardinality(Inserting(e)) <= crowd[e]

\* Finitely many codes are recent.
LEMMA RecentFinite ==
  ASSUME NEW e \in Emails
  PROVE  IsFiniteSet(Recent(e)) /\ Cardinality(Recent(e)) \in Nat
<1>1. IsFiniteSet(OtpIds)
  BY FS_Interval, LimitsAssumption
<1>2. Recent(e) \in SUBSET OtpIds
  BY DEF Recent, Stored
<1>. QED
  BY <1>1, <1>2, FS_Subset, FS_CardinalityType

\* If the newest of some rows is old enough, all of them are.
LEMMA NewestOld ==
  ASSUME Inv, NEW e \in Emails,
         \/ Stored(e) = {}
         \/ \E i \in Newest(Stored(e)) : now - otp_codes[i].created_at >= otpResendCooldown
  PROVE  Recent(e) = {}
<1> SUFFICES ASSUME NEW j \in Recent(e) PROVE FALSE
  OBVIOUS
<1>1. j \in Stored(e) /\ now - otp_codes[j].created_at < otpResendCooldown
  BY DEF Recent
<1>2. PICK i \in Newest(Stored(e)) : now - otp_codes[i].created_at >= otpResendCooldown
  BY <1>1
<1>3. i \in OtpIds /\ j \in OtpIds
  BY <1>1, NewestIn DEF Stored
<1>4. otp_codes[i].created_at \in Nat /\ otp_codes[j].created_at \in Nat
  BY <1>3, RowFields DEF OtpRow
<1>5. otp_codes[j].created_at <= otp_codes[i].created_at
  BY <1>1, <1>4 DEF Newest
<1>6. now \in Int /\ otpResendCooldown \in Int
  BY LimitsAssumption DEF Inv, TypeOK
<1>. QED
  BY <1>1, <1>2, <1>4, <1>5, <1>6

\* CooldownInv is inductive.
LEMMA NextCooldown == LInv /\ CooldownInv /\ [LimitsNext]_lvars => CooldownInv'
<1> SUFFICES ASSUME LInv, CooldownInv, [LimitsNext]_lvars, NEW e \in Emails
             PROVE  Cardinality(Recent(e)') + Cardinality(Inserting(e)') <= crowd'[e]
  BY DEF CooldownInv
<1>0. Inv /\ [Next]_vars /\ LInv' /\ \A x \in Emails : crowd[x] <= crowd'[x]
  BY NextCrowd DEF LInv
<1>1. /\ IsFiniteSet(Recent(e)) /\ Cardinality(Recent(e)) \in Nat
      /\ crowd[e] \in Nat /\ crowd'[e] \in Nat /\ crowd[e] <= crowd'[e]
      /\ Cardinality(Recent(e)) + Cardinality(Inserting(e)) <= crowd[e]
  BY <1>0, RecentFinite DEF CooldownInv, LInv
<1>2. /\ Inserting(e) \in SUBSET Requests /\ Cardinality(Inserting(e)) \in Nat
      /\ Inserting(e)' \in SUBSET Requests
      /\ Cardinality(Inserting(e)') \in Nat /\ Cardinality(Inserting(e)') <= crowd'[e]
  <2>1. /\ Inserting(e) \in SUBSET Requests /\ Inserting(e)' \in SUBSET Requests
        /\ Inserting(e)' \subseteq InFlight(e)'
    BY DEF Inserting, InFlight
  <2>. QED
    BY <1>0, <2>1, CountRequests, Crowded
<1>3. CASE \E q \in Requests : CheckCooldown(q) /\ h'[q].pc = "insert" /\ h'[q].email = e
  <2>1. PICK q \in Requests : CheckCooldown(q) /\ h'[q].pc = "insert" /\ h'[q].email = e
    BY <1>3
  <2>2. h[q].email = e /\ ~Answer(q)
    <3>1. ~Answer(q)
      BY <1>0, <2>1 DEF Answer, Become, Blank, Inv, TypeOK
    <3>. QED
      BY <1>0, <2>1, <3>1, HandlerFields DEF CheckCooldown, Become, Handler, Inv, TypeOK
  <2>3. Recent(e) = {}
    BY <1>0, <2>1, <2>2, NewestOld DEF CheckCooldown
  <2>4. Recent(e)' = {}
    BY <2>1, <2>3 DEF CheckCooldown, Recent, Stored
  <2>. QED
    BY <1>1, <1>2, <2>4, FS_EmptySet
<1>4. CASE ~\E q \in Requests : CheckCooldown(q) /\ h'[q].pc = "insert" /\ h'[q].email = e
  <2>1. Inserting(e)' \subseteq Inserting(e)
    <3>1. ASSUME NEW q \in Requests, h'[q].pc = "insert", h'[q].email = e
          PROVE  Same(q)
      BY <1>0, <1>4, <3>1, HandlerMoves
    <3>. QED
      BY <3>1 DEF Inserting, Same
  <2>2. Cardinality(Inserting(e)') <= Cardinality(Inserting(e))
    BY <1>2, <2>1, CountRequests
  <2>3. ASSUME NEW i \in Recent(e)', i \notin Recent(e)
        PROVE  i = last_id + 1 /\ \E r \in Requests : InsertOTP(r) /\ h[r].email = e
    <3>1. i \in OtpIds /\ otp_codes'[i].stored /\ otp_codes'[i].email = e
          /\ now' - otp_codes'[i].created_at < otpResendCooldown
      BY <2>3 DEF Recent, Stored
    <3>2. otp_codes[i] \in OtpRow /\ otp_codes[i].created_at \in Int
      <4>1. otp_codes[i] \in OtpRow
        BY <1>0, <3>1, RowFields
      <4>. QED
        BY <4>1 DEF OtpRow
    <3>3. now' \in Int /\ now \in Int /\ now <= now' /\ otpResendCooldown \in Int
      BY <1>0, ClockMoves, LimitsAssumption
    <3>4. /\ ~[otp_codes[i] EXCEPT !.stored = FALSE].stored
          /\ \A x \in {[otp_codes[i] EXCEPT !.attempts = @ + 1],
                       [otp_codes[i] EXCEPT !.consumed = TRUE],
                       [otp_codes[i] EXCEPT !.logins = @ + 1]} :
               /\ x.stored = otp_codes[i].stored /\ x.email = otp_codes[i].email
               /\ x.created_at = otp_codes[i].created_at
      BY <3>2 DEF OtpRow
    <3>5. CASE /\ otp_codes'[i].stored = otp_codes[i].stored
               /\ otp_codes'[i].email = otp_codes[i].email
               /\ otp_codes'[i].created_at = otp_codes[i].created_at
      <4>1. i \in Recent(e)
        BY <3>1, <3>2, <3>3, <3>5 DEF Recent, Stored
      <4>. QED
        BY <2>3, <4>1
    <3>6. CASE /\ i = last_id + 1
               /\ \E r \in Requests : InsertOTP(r) /\ otp_codes'[i].email = h[r].email
      BY <3>1, <3>6
    <3>. QED
      BY <1>0, <3>1, <3>4, <3>5, <3>6, RowMoves
  <2>4. CASE Recent(e)' \subseteq Recent(e)
    <3>1. IsFiniteSet(Recent(e)') /\ Cardinality(Recent(e)') <= Cardinality(Recent(e))
          /\ Cardinality(Recent(e)') \in Nat
      BY <1>1, <2>4, FS_Subset, FS_CardinalityType
    <3>. QED
      BY <1>1, <1>2, <2>2, <3>1
  <2>5. CASE ~(Recent(e)' \subseteq Recent(e))
    <3>1. PICK r \in Requests : InsertOTP(r) /\ h[r].email = e
      BY <2>3, <2>5
    <3>2. Recent(e)' \subseteq Recent(e) \cup {last_id + 1}
      BY <2>3
    <3>3. /\ IsFiniteSet(Recent(e) \cup {last_id + 1})
          /\ Cardinality(Recent(e) \cup {last_id + 1}) <= Cardinality(Recent(e)) + 1
          /\ Cardinality(Recent(e) \cup {last_id + 1}) \in Nat
      <4>1. /\ IsFiniteSet(Recent(e) \cup {last_id + 1})
            /\ \/ Cardinality(Recent(e) \cup {last_id + 1}) = Cardinality(Recent(e))
               \/ Cardinality(Recent(e) \cup {last_id + 1}) = Cardinality(Recent(e)) + 1
        BY <1>1, FS_AddElement
      <4>. QED
        BY <1>1, <4>1
    <3>4. /\ IsFiniteSet(Recent(e)') /\ Cardinality(Recent(e)') \in Nat
          /\ Cardinality(Recent(e)') <= Cardinality(Recent(e) \cup {last_id + 1})
      BY <3>2, <3>3, FS_Subset, FS_CardinalityType
    <3>5. r \in Inserting(e)
      BY <3>1 DEF InsertOTP, Inserting
    <3>6. h'[r].pc # "insert"
      <4> DEFINE new == [h[r] EXCEPT !.pc = "send", !.row = last_id + 1, !.code = None]
      <4>1. h \in [Requests -> Handler] /\ h[r] \in Handler
        BY <1>0 DEF Inv, TypeOK
      <4>2. new.pc = "send" /\ Blank.pc = "idle"
        BY <4>1 DEF Handler, Blank
      <4>3. Become(r, new) \/ Become(r, Blank)
        BY <3>1 DEF InsertOTP, Answer
      <4> HIDE DEF new
      <4>4. h'[r] = new \/ h'[r] = Blank
        BY <4>1, <4>3 DEF Become
      <4>. QED
        BY <4>2, <4>4
    <3>7. Cardinality(Inserting(e)') + 1 <= Cardinality(Inserting(e))
      <4>1. Inserting(e)' \subseteq Inserting(e) \ {r}
        BY <2>1, <3>6 DEF Inserting
      <4>. QED
        BY <1>2, <3>5, <4>1, CountOneLess
    <3>. QED
      BY <1>1, <1>2, <3>3, <3>4, <3>7
  <2>. QED
    BY <2>4, <2>5
<1>. QED
  BY <1>3, <1>4

\* However many handlers pass the cooldown check before the first of them
\* inserts, an email has no more codes younger than the cooldown than handlers
\* of it overlapped; with none that did, one (createOTP).
THEOREM CooldownLimited == LimitsSpec => []CooldownBounded
<1>1. LimitsInit => CooldownInv
  <2> SUFFICES ASSUME LimitsInit, NEW e \in Emails
               PROVE  Cardinality(Recent(e)) + Cardinality(Inserting(e)) <= crowd[e]
    BY DEF CooldownInv
  <2>1. Recent(e) = {} /\ Inserting(e) = {} /\ crowd[e] = 0
    BY DEF LimitsInit, Init, Recent, Stored, Inserting, Blank
  <2>2. Cardinality(Recent(e)) = 0 /\ Cardinality(Inserting(e)) = 0
    BY <2>1, FS_EmptySet
  <2>. QED
    BY <2>1, <2>2
<1>2. LInv /\ CooldownInv => CooldownBounded
  <2> SUFFICES ASSUME LInv, CooldownInv, NEW e \in Emails
               PROVE  Cardinality(Recent(e)) <= crowd[e]
    BY DEF CooldownBounded
  <2>1. Inserting(e) \in SUBSET Requests /\ Cardinality(Recent(e)) \in Nat /\ crowd[e] \in Nat
    BY RecentFinite DEF Inserting, LInv
  <2>2. Cardinality(Inserting(e)) \in Nat
    BY <2>1, CountRequests
  <2>. QED
    BY <2>1, <2>2 DEF CooldownInv
<1>3. LInv /\ [LimitsNext]_lvars => LInv'
  BY NextCrowd
<1>. QED
  BY <1>1, <1>2, <1>3, InitCrowd, NextCooldown, PTL DEF LimitsSpec

-----------------------------------------------------------------------------
(* The cleanup                                                             *)

\* Ids are handed out in the order of created_at, and neither lies ahead of
\* the clock: one clock stamps all rows.
RowsInOrder ==
  \A j \in 1..last_id :
    /\ otp_codes[j].created_at <= now
    /\ \A i \in 1..j : otp_codes[i].created_at <= otp_codes[j].created_at

\* A row keeps its created_at; a new row has the present one.
LEMMA RowKeepsDate ==
  ASSUME Inv, [Next]_vars, NEW i \in OtpIds
  PROVE  \/ otp_codes'[i].created_at = otp_codes[i].created_at
         \/ i = last_id + 1 /\ \E r \in Requests : InsertOTP(r)
<1>1. otp_codes[i] \in OtpRow
  BY RowFields
<1>2. \A x \in {[otp_codes[i] EXCEPT !.stored = FALSE],
                [otp_codes[i] EXCEPT !.attempts = @ + 1],
                [otp_codes[i] EXCEPT !.consumed = TRUE],
                [otp_codes[i] EXCEPT !.logins = @ + 1]} :
        x.created_at = otp_codes[i].created_at
  BY <1>1 DEF OtpRow
<1>. QED
  BY <1>2, RowMoves

\* The row that INSERT writes.
LEMMA InsertedRow ==
  ASSUME Inv, NEW r \in Requests, InsertOTP(r)
  PROVE  LET i == last_id + 1
         IN /\ last_id' = i /\ i \in OtpIds
            /\ otp_codes'[i].stored /\ otp_codes'[i].email = h[r].email
            /\ otp_codes'[i].created_at = now /\ now' = now
            /\ \/ h'[r] = Blank
               \/ h'[r].pc = "send" /\ h'[r].row = i /\ h'[r].email = h[r].email
<1>1. last_id \in Nat /\ last_id + 1 \in OtpIds /\ last_id' = last_id + 1 /\ now' = now
  BY LimitsAssumption DEF InsertOTP, Inv, TypeOK
<1>2. \/ h'[r] = Blank
      \/ h'[r] = [h[r] EXCEPT !.pc = "send", !.row = last_id + 1, !.code = None]
  BY DEF InsertOTP, Answer, Become, Inv, TypeOK
<1>3. h[r] \in Handler
  BY HandlerFields
<1>4. \/ h'[r] = Blank
      \/ h'[r].pc = "send" /\ h'[r].row = last_id + 1 /\ h'[r].email = h[r].email
  BY <1>2, <1>3 DEF Handler
<1>. QED
  BY <1>1, <1>4 DEF InsertOTP, Inv, TypeOK

\* RowsInOrder is inductive.
LEMMA NextOrder == Inv /\ RowsInOrder /\ [Next]_vars => RowsInOrder'
<1> SUFFICES ASSUME Inv, RowsInOrder, [Next]_vars, NEW j \in 1..last_id', NEW i \in 1..j
             PROVE  /\ otp_codes'[j].created_at <= now'
                    /\ otp_codes'[i].created_at <= otp_codes'[j].created_at
  BY DEF RowsInOrder
<1>1. /\ now \in Int /\ now' \in Int /\ now <= now'
      /\ last_id \in 0..MaxOtp /\ last_id' \in 0..MaxOtp
  BY ClockMoves, NextInv DEF Inv, TypeOK
<1>2. i \in OtpIds /\ j \in OtpIds /\ i \in Int /\ j \in Int /\ last_id \in Int /\ i <= j
  BY <1>1, LimitsAssumption
<1>3. \A k \in {i, j} : otp_codes[k].created_at \in Int
  <2>1. otp_codes[i] \in OtpRow /\ otp_codes[j] \in OtpRow
    BY <1>2, RowFields
  <2>. QED
    BY <2>1 DEF OtpRow
<1>4. CASE \E r \in Requests : InsertOTP(r)
  <2>1. /\ last_id' = last_id + 1 /\ now' = now
        /\ otp_codes'[last_id + 1].created_at = now
    BY <1>4, InsertedRow
  <2>2. \A k \in {i, j} : k # last_id + 1 =>
          otp_codes'[k].created_at = otp_codes[k].created_at /\ k \in 1..last_id
    BY <1>1, <1>2, <2>1, RowKeepsDate
  <2>. QED
    BY <1>1, <1>2, <1>3, <2>1, <2>2 DEF RowsInOrder
<1>5. CASE ~\E r \in Requests : InsertOTP(r)
  <2>1. last_id' = last_id
    BY <1>5
       DEF Next, Handle, RequestOTP, VerifyOTP, CheckCooldown, SendOTP, DeleteOTP, CheckCode,
           RecordFailedAttempt, ConsumeOTP, UpsertUser, CreateSession, DatabaseError, Abandon, Crash,
           Tick, vars
  <2>2. \A k \in {i, j} : otp_codes'[k].created_at = otp_codes[k].created_at
    BY <1>2, <1>5, RowKeepsDate
  <2>. QED
    BY <1>1, <1>2, <1>3, <2>1, <2>2 DEF RowsInOrder
<1>. QED
  BY <1>4, <1>5

\* Where "send" and "cleanup" are reached from.
LEMMA MailMoves ==
  ASSUME Inv, [Next]_vars, NEW q \in Requests, h'[q].pc \in {"send", "cleanup"}
  PROVE  \/ Same(q)
         \/ InsertOTP(q)
         \/ SendOTP(q) /\ h'[q].row = h[q].row /\ h'[q].email = h[q].email
<1>1. h \in [Requests -> Handler] /\ h[q] \in Handler
  BY HandlerFields DEF Inv, TypeOK
<1>2. ASSUME NEW r \in Requests, NEW new, Become(r, new), new.pc \notin {"send", "cleanup"}
      PROVE  Same(q)
  BY <1>1, <1>2 DEF Become, Same
<1>3. ASSUME NEW r \in Requests, Answer(r) PROVE Same(q)
  BY <1>2, <1>3 DEF Answer, Blank
<1>4. ASSUME NEW r \in Requests, NEW a \in Addresses, RequestOTP(r, a) PROVE Same(q)
  <2>1. [Blank EXCEPT !.pc = "lookup", !.email = normalizeEmail[a]].pc = "lookup"
    BY DEF Blank
  <2>. QED
    BY <1>2, <1>3, <1>4, <2>1 DEF RequestOTP
<1>5. ASSUME NEW r \in Requests, NEW a \in Addresses, NEW c \in Codes \cup {None},
             VerifyOTP(r, a, c)
      PROVE  Same(q)
  <2>1. [Blank EXCEPT !.pc = "select", !.code = c, !.email = normalizeEmail[a]].pc = "select"
    BY DEF Blank
  <2>. QED
    BY <1>2, <1>3, <1>5, <2>1 DEF VerifyOTP
<1>6. ASSUME NEW r \in Requests, CheckCooldown(r) PROVE Same(q)
  <2>1. \A code \in Codes : [h[r] EXCEPT !.pc = "insert", !.code = code].pc = "insert"
    BY HandlerFields DEF Handler
  <2>. QED
    BY <1>2, <1>3, <1>6, <2>1 DEF CheckCooldown
<1>7. ASSUME NEW r \in Requests, InsertOTP(r) \/ SendOTP(r), r # q PROVE Same(q)
  BY <1>1, <1>7 DEF InsertOTP, SendOTP, Goto, Answer, Become, Same
<1>8. ASSUME SendOTP(q) PROVE h'[q].row = h[q].row /\ h'[q].email = h[q].email
  <2>1. ~Answer(q)
    BY <1>1 DEF Answer, Become, Blank
  <2>. QED
    BY <1>1, <1>8, <2>1 DEF SendOTP, Become, Handler
<1>9. ASSUME NEW r \in Requests, CheckCode(r) PROVE Same(q)
  <2>1. \A i \in OtpIds, step \in {"consume", "reject"} :
          [h[r] EXCEPT !.pc = step, !.row = i, !.code = None].pc = step
    BY HandlerFields DEF Handler
  <2>2. \/ Answer(r)
        \/ \E i \in OtpIds, step \in {"consume", "reject"} :
             Become(r, [h[r] EXCEPT !.pc = step, !.row = i, !.code = None])
    BY <1>9, NewestIn DEF CheckCode, Unconsumed, Stored
  <2>. QED
    BY <1>2, <1>3, <2>1, <2>2
<1>10. ASSUME NEW r \in Requests, ConsumeOTP(r) PROVE Same(q)
  <2>1. [h[r] EXCEPT !.pc = "upsert"].pc = "upsert"
    BY HandlerFields DEF Handler
  <2>. QED
    BY <1>2, <1>3, <1>10, <2>1 DEF ConsumeOTP
<1>11. ASSUME NEW r \in Requests, UpsertUser(r) PROVE Same(q)
  <2>1. \A id \in UserIds : [h[r] EXCEPT !.pc = "session", !.user = id].pc = "session"
    BY HandlerFields DEF Handler
  <2>. QED
    BY <1>2, <1>3, <1>11, <2>1 DEF UpsertUser
<1>12. ASSUME NEW r \in Requests,
              DeleteOTP(r) \/ RecordFailedAttempt(r) \/ CreateSession(r) \/ DatabaseError(r)
       PROVE  Same(q)
  BY <1>3, <1>12 DEF DeleteOTP, RecordFailedAttempt, CreateSession, DatabaseError
<1>13. CASE Crash
  <2>1. h'[q] = Left(q) \/ h'[q] = Blank
    BY <1>13 DEF Crash
  <2>. QED
    BY <2>1, LeftFields DEF Blank, Same
<1>14. CASE Tick \/ UNCHANGED vars
  BY <1>14 DEF Tick, vars, Same
<1>15. ASSUME NEW r \in Requests, Abandon(r) PROVE Same(q)
  <2>1. h'[q] = h[q] \/ h'[q] = Left(q)
    BY <1>1, <1>15 DEF Abandon, Become
  <2>. QED
    BY <2>1, LeftFields DEF Same
<1>. QED
  BY <1>4, <1>5, <1>6, <1>7, <1>8, <1>9, <1>10, <1>11, <1>12, <1>13, <1>14, <1>15
     DEF Next, Handle

\* Only a cleanup deletes a row, and the row is the newest of its email.
LEMMA Deletes ==
  ASSUME Inv, [Next]_vars, NEW i \in OtpIds, otp_codes[i].stored, ~otp_codes'[i].stored
  PROVE  \E r \in Requests : DeleteOTP(r) /\ i \in Newest(Stored(h[r].email))
<1>1. otp_codes \in [OtpIds -> OtpRow] /\ otp_codes[i] \in OtpRow
  BY RowFields DEF Inv, TypeOK
<1>2. ASSUME NEW r \in Requests, InsertOTP(r) PROVE FALSE
  <2>1. i # last_id + 1
    BY <1>2, InsertedRow
  <2>. QED
    BY <1>1, <1>2, <2>1 DEF InsertOTP
<1>3. ASSUME NEW r \in Requests, RecordFailedAttempt(r) \/ ConsumeOTP(r) \/ CreateSession(r)
      PROVE  FALSE
  <2>1. /\ [otp_codes[i] EXCEPT !.attempts = @ + 1].stored = otp_codes[i].stored
        /\ [otp_codes[i] EXCEPT !.consumed = TRUE].stored = otp_codes[i].stored
        /\ [otp_codes[i] EXCEPT !.logins = @ + 1].stored = otp_codes[i].stored
    BY <1>1 DEF OtpRow
  <2>2. \/ otp_codes'[i] = otp_codes[i]
        \/ otp_codes'[i] = [otp_codes[i] EXCEPT !.attempts = @ + 1]
        \/ otp_codes'[i] = [otp_codes[i] EXCEPT !.consumed = TRUE]
        \/ otp_codes'[i] = [otp_codes[i] EXCEPT !.logins = @ + 1]
    BY <1>1, <1>3 DEF RecordFailedAttempt, ConsumeOTP, CreateSession, Update
  <2>. QED
    BY <2>1, <2>2
<1>4. PICK r \in Requests : DeleteOTP(r)
  <2>1. otp_codes' # otp_codes
    OBVIOUS
  <2>. QED
    BY <1>2, <1>3, <2>1
       DEF Next, Handle, RequestOTP, VerifyOTP, CheckCooldown, SendOTP, CheckCode, UpsertUser,
           DatabaseError, Abandon, Crash, Tick, vars
<1>5. PICK j \in Newest(Stored(h[r].email)) :
        otp_codes' = [otp_codes EXCEPT ![j].stored = FALSE]
  BY <1>4 DEF DeleteOTP
<1>6. i = j
  BY <1>1, <1>5
<1>. QED
  BY <1>4, <1>5, <1>6

\* As long as the handlers of its email never overlapped, the row of a handler
\* that sends its mail is there and is the last one of its email.
OwnRowNewest ==
  \A q \in Requests : \A e \in Emails :
    h[q].pc \in {"send", "cleanup"} /\ h[q].email = e /\ crowd[e] <= 1 =>
      /\ h[q].row \in 1..last_id
      /\ otp_codes[h[q].row].stored /\ otp_codes[h[q].row].email = e
      /\ \A j \in 1..last_id : otp_codes[j].email = e => j <= h[q].row

\* Two handlers of one email in flight are an overlap.
LEMMA TwoCrowd ==
  ASSUME LInv, NEW e \in Emails, NEW q \in InFlight(e), NEW r \in InFlight(e), q # r
  PROVE  ~(crowd[e] <= 1)
<1>1. InFlight(e) \in SUBSET Requests /\ {q} \in SUBSET (InFlight(e) \ {r})
  BY DEF InFlight
<1>2. Cardinality({q}) = 1
  BY FS_Singleton
<1>3. Cardinality({q}) + 1 <= Cardinality(InFlight(e)) /\ Cardinality(InFlight(e)) \in Nat
  BY <1>1, CountOneLess, CountRequests
<1>. QED
  BY <1>2, <1>3 DEF LInv

\* OwnRowNewest is inductive.
LEMMA NextOwnRow == LInv /\ OwnRowNewest /\ [LimitsNext]_lvars => OwnRowNewest'
<1> SUFFICES ASSUME LInv, OwnRowNewest, [LimitsNext]_lvars, NEW q \in Requests, NEW e \in Emails,
                    h'[q].pc \in {"send", "cleanup"}, h'[q].email = e, crowd'[e] <= 1
             PROVE  /\ h'[q].row \in 1..last_id'
                    /\ otp_codes'[h'[q].row].stored /\ otp_codes'[h'[q].row].email = e
                    /\ \A j \in 1..last_id' : otp_codes'[j].email = e => j <= h'[q].row
  BY DEF OwnRowNewest
<1>0. Inv /\ [Next]_vars /\ LInv' /\ Inv' /\ crowd[e] <= 1
  BY NextCrowd DEF LInv
<1>t. last_id \in Nat /\ last_id' \in Nat /\ 1..last_id \subseteq OtpIds
  BY <1>0, LimitsAssumption DEF Inv, TypeOK
<1>1. CASE InsertOTP(q)
  <2>1. h'[q].row = last_id + 1
    BY <1>0, <1>1, InsertedRow DEF Blank
  <2>2. last_id' = last_id + 1 /\ otp_codes'[last_id + 1].stored
        /\ otp_codes'[last_id + 1].email = h[q].email /\ h[q].email = e
    BY <1>0, <1>1, InsertedRow DEF Blank
  <2>. QED
    BY <1>t, <2>1, <2>2
<1>2. CASE ~InsertOTP(q)
  <2>1. /\ h[q].pc \in {"send", "cleanup"} /\ h[q].email = e
        /\ h'[q].row = h[q].row
    BY <1>0, <1>2, MailMoves DEF Same, SendOTP
  <2> DEFINE k == h[q].row
  <2>2. /\ k \in 1..last_id /\ otp_codes[k].stored /\ otp_codes[k].email = e
        /\ \A j \in 1..last_id : otp_codes[j].email = e => j <= k
    BY <1>0, <2>1 DEF OwnRowNewest
  <2>3. ASSUME NEW r \in Requests, h[r].email = e, r # q PROVE FALSE
    BY <1>0, <2>1, <2>3, TwoCrowd DEF InFlight
  <2>4. ASSUME NEW j \in 1..last_id
        PROVE  otp_codes'[j].email = otp_codes[j].email
    <3>1. j \in OtpIds /\ j # last_id + 1
      BY <1>t
    <3>2. otp_codes[j] \in OtpRow
      BY <1>0, <3>1, RowFields
    <3>3. \A x \in {[otp_codes[j] EXCEPT !.stored = FALSE],
                    [otp_codes[j] EXCEPT !.attempts = @ + 1],
                    [otp_codes[j] EXCEPT !.consumed = TRUE],
                    [otp_codes[j] EXCEPT !.logins = @ + 1]} : x.email = otp_codes[j].email
      BY <3>2 DEF OtpRow
    <3>. QED
      BY <1>0, <3>1, <3>3, RowMoves
  <2>5. otp_codes'[k].stored
    <3> SUFFICES ASSUME ~otp_codes'[k].stored PROVE FALSE
      OBVIOUS
    <3>1. k \in OtpIds
      BY <1>t, <2>2
    <3>2. PICK r \in Requests : DeleteOTP(r) /\ k \in Newest(Stored(h[r].email))
      BY <1>0, <2>2, <3>1, Deletes
    <3>3. h[r].email = e
      BY <2>2, <3>2, NewestIn DEF Stored
    <3>4. h'[r].pc = "idle"
      BY <1>0, <3>2 DEF DeleteOTP, Answer, Become, Blank, Inv, TypeOK
    <3>. QED
      BY <2>3, <3>3, <3>4
  <2>6. ASSUME NEW j \in 1..last_id', otp_codes'[j].email = e PROVE j <= k
    <3>1. CASE j \in 1..last_id
      BY <2>2, <2>4, <2>6, <3>1
    <3>2. CASE j \notin 1..last_id
      <4>1. PICK r \in Requests : InsertOTP(r) /\ last_id' = last_id + 1
        BY <1>0, <1>t, <3>2, LastIdMoves
      <4>2. j = last_id + 1
        BY <1>t, <3>2, <4>1
      <4>3. h[r].email = e
        BY <1>0, <2>6, <4>1, <4>2, InsertedRow
      <4>. QED
        BY <1>2, <2>3, <4>1, <4>3
    <3>. QED
      BY <3>1, <3>2
  <2>7. k \in 1..last_id'
    BY <1>0, <1>t, <2>2, LastIdMoves
  <2>. QED
    BY <2>1, <2>2, <2>4, <2>5, <2>6, <2>7
<1>. QED
  BY <1>1, <1>2

\* Although deleteOTP only knows the email, as long as the handlers of an email
\* never overlapped it deletes the row its own request inserted (createOTP,
\* deleteOTP).
THEOREM LoneCleanup == LimitsSpec => LoneCleanupUndoesOwnInsert
<1> DEFINE IInv == LInv /\ RowsInOrder /\ OwnRowNewest
<1>1. LimitsInit => IInv
  <2>1. LimitsInit => RowsInOrder /\ OwnRowNewest
    BY DEF LimitsInit, Init, RowsInOrder, OwnRowNewest, Blank
  <2>. QED
    BY <2>1, InitCrowd
<1>2. IInv /\ [LimitsNext]_lvars => IInv'
  BY NextCrowd, NextOrder, NextOwnRow DEF LInv
<1>3. ASSUME IInv, [LimitsNext]_lvars, NEW i \in OtpIds,
             otp_codes[i].stored, ~otp_codes'[i].stored, ~(crowd[otp_codes[i].email] > 1)
      PROVE  \E r \in Requests : At(r, "cleanup") /\ h[r].row = i /\ Idle(r)'
  <2>1. Inv /\ [Next]_vars
    BY <1>3, NextCrowd DEF LInv
  <2>2. PICK r \in Requests : DeleteOTP(r) /\ i \in Newest(Stored(h[r].email))
    BY <1>3, <2>1, Deletes
  <2>3. PICK e \in Emails : h[r].email = e
    BY <2>1, <2>2, HandlerFields DEF DeleteOTP, LocalsOK
  <2>4. i \in Stored(e) /\ otp_codes[i].email = e /\ i \in 1..last_id
    BY <2>1, <2>2, <2>3, NewestIn, StoredKnown
  <2>5. crowd[e] <= 1
    BY <1>3, <2>4 DEF LInv
  <2> DEFINE k == h[r].row
  <2>6. k \in 1..last_id /\ k \in Stored(e) /\ i <= k
    <3>1. /\ k \in 1..last_id /\ otp_codes[k].stored /\ otp_codes[k].email = e
          /\ \A j \in 1..last_id : otp_codes[j].email = e => j <= k
      BY <1>3, <2>2, <2>3, <2>5 DEF OwnRowNewest, DeleteOTP
    <3>2. k \in OtpIds
      BY <2>1, <3>1, LimitsAssumption DEF Inv, TypeOK
    <3>. QED
      BY <2>4, <3>1, <3>2 DEF Stored
  <2>7. otp_codes[i].created_at <= otp_codes[k].created_at
    BY <1>3, <2>4, <2>6 DEF RowsInOrder
  <2>8. otp_codes[i].created_at \in Nat /\ otp_codes[k].created_at \in Nat
    BY <2>1, <2>4, <2>6, RowFields DEF OtpRow, Stored
  <2>9. i = k
    BY <2>2, <2>3, <2>4, <2>6, <2>7, <2>8 DEF Newest
  <2>10. h'[r] = Blank /\ h[r].pc = "cleanup"
    BY <2>1, <2>2 DEF DeleteOTP, Answer, Become, Inv, TypeOK
  <2>. QED
    BY <2>9, <2>10 DEF Blank
<1>4. IInv /\ [LimitsNext]_lvars =>
        [\A i \in OtpIds : otp_codes[i].stored /\ ~otp_codes'[i].stored =>
           \/ crowd[otp_codes[i].email] > 1
           \/ \E r \in Requests : At(r, "cleanup") /\ h[r].row = i /\ Idle(r)']_lvars
  BY <1>3
<1>. QED
  BY <1>1, <1>2, <1>4, PTL DEF LimitsSpec, LoneCleanupUndoesOwnInsert

=============================================================================
