--------------------------- MODULE SessionsProofs ---------------------------
(***************************************************************************)
(* What holds of Sessions for every number of sessions, users and          *)
(* requests, and that it implements SessionGate.                           *)
(***************************************************************************)
EXTENDS Sessions, TLAPS

\* What the proofs need of the record-valued parts.
LEMMA Rows ==
  ASSUME TypeOK, NEW s \in SessionIds
  PROVE  /\ sessions[s] \in SessionRow /\ sessions[s].stored \in BOOLEAN
         /\ sessions[s].user \in UserIds \cup {None} /\ sessions[s].expires_at \in Nat
         /\ sessions[s].stored => Opened(s)
<1>1. sessions[s] \in SessionRow /\ (sessions[s].stored => Opened(s))
  BY DEF TypeOK
<1>. QED
  BY <1>1 DEF SessionRow

\* The fields of a handler, and what LocalsOK says of it.
LEMMA Locals ==
  ASSUME TypeOK, NEW r \in Requests
  PROVE  /\ h[r] \in Handler /\ LocalsOK(r)
         /\ h[r].cookie \in SessionIds \cup {None} /\ h[r].user \in UserIds \cup {None}
         /\ h[r].route \in Routes /\ h[r].expires \in Nat /\ h[r].late \in BOOLEAN
<1>1. h[r] \in Handler /\ LocalsOK(r)
  BY DEF TypeOK
<1>. QED
  BY <1>1 DEF Handler

\* A step gives one handler a new state that fits the sessions.
Fits(new) ==
  /\ new \in Handler
  /\ new.cookie # None => Opened(new.cookie)
  /\ new.user # None => new.cookie # None /\ new.user = sessions[new.cookie].user
  /\ new.pc \in {"lookup", "check", "extend"} => new.cookie # None
  /\ new.pc = "idle" => new = Blank

\* Users and openings of sessions do not change.
UsersKept ==
  \A s \in SessionIds : Opened(s) => sessions'[s].user = sessions[s].user

\* A handler that has answered fits.
LEMMA BlankFits == Fits(Blank)
BY DEF Fits, Blank, Handler, Routes

\* A handler that fits keeps the handlers typed, the sessions keeping their users.
LEMMA Moves ==
  ASSUME TypeOK, NEW r \in Requests, NEW new, Fits(new), Become(r, new),
         UsersKept
  PROVE  h' \in [Requests -> Handler] /\ \A q \in Requests : LocalsOK(q)'
<1>1. h \in [Requests -> Handler] /\ h' = [h EXCEPT ![r] = new]
  BY DEF TypeOK, Become
<1>2. h' \in [Requests -> Handler]
  BY <1>1 DEF Fits
<1>3. ASSUME NEW q \in Requests PROVE LocalsOK(q)'
  <2>1. CASE q = r
    <3>1. h'[q] = new /\ new.cookie \in SessionIds \cup {None}
      BY <1>1, <2>1 DEF Fits, Handler
    <3>2. new.cookie # None => sessions'[new.cookie].user = sessions[new.cookie].user
      BY <3>1 DEF UsersKept, Fits
    <3>. QED
      BY <3>1, <3>2 DEF Fits, LocalsOK, Opened, At
  <2>2. CASE q # r
    <3>1. h'[q] = h[q] /\ LocalsOK(q) /\ h[q].cookie \in SessionIds \cup {None}
      BY <1>1, <2>2, Locals
    <3>2. h[q].cookie # None => sessions'[h[q].cookie].user = sessions[h[q].cookie].user
      BY <3>1 DEF UsersKept, LocalsOK
    <3>. QED
      BY <3>1, <3>2 DEF LocalsOK, Opened, At
  <2>. QED
    BY <2>1, <2>2
<1>. QED
  BY <1>2, <1>3

\* The handlers, seen as functions of the old one, keep its cookie.
LEMMA ServeFits ==
  ASSUME TypeOK, NEW r \in Requests, NEW u \in {None, h[r].user}
  PROVE  /\ Fits([h[r] EXCEPT !.pc = "serve", !.user = u])
         /\ [h[r] EXCEPT !.pc = "serve", !.user = u].user = u
         /\ [h[r] EXCEPT !.pc = "serve", !.user = u].cookie = h[r].cookie
         /\ [h[r] EXCEPT !.pc = "serve", !.user = u].late = h[r].late
         /\ [h[r] EXCEPT !.pc = "serve", !.user = u].pc = "serve"
<1>1. h[r] \in Handler /\ LocalsOK(r) /\ u \in UserIds \cup {None}
  BY Locals
<1>. QED
  BY <1>1 DEF Fits, Handler, LocalsOK

-----------------------------------------------------------------------------
(* Types                                                                   *)

\* The types hold at first.
LEMMA InitTypes == Init => TypeOK
BY TimesAssumption DEF Init, TypeOK, SessionRow, Handler, Blank, Routes, LocalsOK, Opened, At

\* The steps of one request r, as the state of its handler afterwards.
LEMMA RequestMoves ==
  ASSUME TypeOK, NEW r \in Requests, NEW route \in Routes,
         NEW s \in SessionIds \cup {None}, Request(r, route, s)
  PROVE  \E new : /\ Fits(new) /\ Become(r, new) /\ new.user = None /\ new.cookie = s
                  /\ new.late = (s # None /\ ~sessions[s].stored)
<1> DEFINE gone == s # None /\ ~sessions[s].stored
           step == IF s = None THEN "serve" ELSE "lookup"
           new == [Blank EXCEPT !.pc = step, !.route = route, !.cookie = s, !.late = gone]
<1>1. (s # None => Opened(s)) /\ Become(r, new)
  BY DEF Request
<1>2. gone \in BOOLEAN /\ step \in {"serve", "lookup"} /\ (step = "lookup" => s # None)
  OBVIOUS
<1> HIDE DEF gone, step
<1>3. Blank \in Handler /\ Blank.user = None
  BY DEF Blank, Handler, Routes
<1>4. /\ new \in Handler /\ new.user = None /\ new.cookie = s
      /\ new.pc = step /\ new.late = gone
  BY <1>2, <1>3 DEF Handler
<1> HIDE DEF new
<1>5. Fits(new)
  BY <1>1, <1>2, <1>4 DEF Fits
<1>6. \E n : Fits(n) /\ Become(r, n) /\ n.user = None /\ n.cookie = s /\ n.late = gone
  BY <1>1, <1>4, <1>5
<1>. QED
  BY <1>6 DEF gone

\* Where the SELECT of lookupSession leaves a handler.
LEMMA LookupMoves ==
  ASSUME TypeOK, NEW r \in Requests, Lookup(r)
  PROVE  \E new : /\ Fits(new) /\ Become(r, new)
                  /\ new.cookie = h[r].cookie /\ new.late = h[r].late
                  /\ h[r].cookie \in SessionIds
                  /\ \/ new.user = None
                     \/ /\ sessions[h[r].cookie].stored
                        /\ new.user = sessions[h[r].cookie].user
<1>1. h[r] \in Handler /\ LocalsOK(r) /\ h[r].cookie \in SessionIds
  BY Locals, NoneAssumption DEF Lookup, LocalsOK, At
<1>2. CASE Serve(r, None)
  BY <1>1, <1>2, ServeFits DEF Serve
<1>3. CASE ~Serve(r, None)
  <2> DEFINE row == sessions[h[r].cookie]
             new == [h[r] EXCEPT !.pc = "check", !.user = row.user,
                                 !.expires = row.expires_at]
  <2>1. row.stored /\ Become(r, new)
    BY <1>3 DEF Lookup
  <2>2. row.user \in UserIds \cup {None} /\ row.expires_at \in Nat /\ Opened(h[r].cookie)
    BY <1>1, <2>1, Rows
  <2>3. /\ new \in Handler /\ new.cookie = h[r].cookie /\ new.late = h[r].late
        /\ new.user = row.user /\ new.pc = "check"
    BY <1>1, <2>2 DEF Handler
  <2> HIDE DEF new
  <2>4. Fits(new)
    BY <1>1, <2>2, <2>3, NoneAssumption DEF Fits
  <2>. QED
    BY <1>1, <2>1, <2>3, <2>4
<1>. QED
  BY <1>2, <1>3

\* Where the expiry check of lookupSession leaves a handler.
LEMMA CheckMoves ==
  ASSUME TypeOK, NEW r \in Requests, CheckExpiry(r)
  PROVE  \E new : /\ Fits(new) /\ Become(r, new)
                  /\ new.cookie = h[r].cookie /\ new.late = h[r].late
                  /\ new.user \in {None, h[r].user}
                  /\ new.pc = "extend" => new.expires = now + sessionTTL
<1>1. h[r] \in Handler /\ LocalsOK(r) /\ now + sessionTTL \in Nat /\ At(r, "check")
  BY Locals, TimesAssumption DEF TypeOK, CheckExpiry
<1>2. CASE Serve(r, None)
  BY <1>2, ServeFits DEF Serve
<1>3. CASE ~Serve(r, None)
  <2> DEFINE new == [h[r] EXCEPT !.pc = "extend", !.expires = now + sessionTTL]
  <2>1. Become(r, new)
    BY <1>3 DEF CheckExpiry
  <2>2. /\ new \in Handler /\ new.cookie = h[r].cookie /\ new.late = h[r].late
        /\ new.user = h[r].user /\ new.pc = "extend" /\ new.expires = now + sessionTTL
    BY <1>1 DEF Handler
  <2> HIDE DEF new
  <2>3. Fits(new)
    BY <1>1, <2>2 DEF Fits, LocalsOK, At
  <2>. QED
    BY <2>1, <2>2, <2>3
<1>. QED
  BY <1>2, <1>3

\* Where Middleware leaves a handler.
LEMMA ServeMoves ==
  ASSUME TypeOK, NEW r \in Requests, NEW u \in {None, h[r].user}, Serve(r, u)
  PROVE  \E new : /\ Fits(new) /\ Become(r, new)
                  /\ new.cookie = h[r].cookie /\ new.late = h[r].late
                  /\ new.user \in {None, h[r].user} /\ new.pc = "serve"
BY ServeFits DEF Serve

\* Where the UPDATE of lookupSession leaves the handler and the row.
LEMMA ExtendMoves ==
  ASSUME TypeOK, NEW r \in Requests, Extend(r)
  PROVE  /\ \E u \in {None, h[r].user} : Serve(r, u)
         /\ \E s \in SessionIds :
              /\ s = h[r].cookie
              /\ sessions' = [sessions EXCEPT ![s].expires_at =
                   IF sessions[s].stored THEN h[r].expires ELSE @]
<1>1. h[r].cookie \in SessionIds
  BY Locals, NoneAssumption DEF Extend, LocalsOK, At
<1>2. \E u \in {None, h[r].user} : Serve(r, u)
  BY DEF Extend
<1>. QED
  BY <1>1, <1>2 DEF Extend

\* What every step does to the sessions.
LEMMA SessionMoves ==
  ASSUME TypeOK, [Next]_vars
  PROVE  /\ sessions' \in [SessionIds -> SessionRow]
         /\ \A s \in SessionIds : sessions'[s].stored => sessions'[s].user # None
         /\ UsersKept
         /\ \A s \in SessionIds : Opened(s) /\ sessions'[s].stored => sessions[s].stored
<1> USE DEF UsersKept, Opened
<1>1. CASE UNCHANGED sessions
  BY <1>1, Rows DEF TypeOK
<1>2. ASSUME NEW s \in SessionIds, NEW u \in UserIds, CreateSession(s, u)
      PROVE  /\ sessions' \in [SessionIds -> SessionRow]
             /\ \A x \in SessionIds : sessions'[x].stored => sessions'[x].user # None
             /\ UsersKept
             /\ \A x \in SessionIds : Opened(x) /\ sessions'[x].stored => sessions[x].stored
  <2>1. PICK t \in 0..now : sessions' = [sessions EXCEPT ![s] =
          [stored |-> TRUE, user |-> u, expires_at |-> t + sessionTTL]]
    BY <1>2 DEF CreateSession
  <2>2. now \in Nat /\ t + sessionTTL \in Nat
    BY TimesAssumption DEF TypeOK
  <2>3. [stored |-> TRUE, user |-> u, expires_at |-> t + sessionTTL] \in SessionRow
    BY <2>2 DEF SessionRow
  <2>. QED
    BY <1>2, <2>1, <2>3, Rows, NoneAssumption DEF CreateSession, TypeOK
<1>3. ASSUME NEW s \in SessionIds, NEW row \in SessionRow,
             sessions' = [sessions EXCEPT ![s] = row],
             row.user = sessions[s].user, row.stored => sessions[s].stored
      PROVE  /\ sessions' \in [SessionIds -> SessionRow]
             /\ \A x \in SessionIds : sessions'[x].stored => sessions'[x].user # None
             /\ UsersKept
             /\ \A x \in SessionIds : Opened(x) /\ sessions'[x].stored => sessions[x].stored
  BY <1>3, Rows DEF TypeOK
<1>4. ASSUME NEW r \in Requests, Extend(r)
      PROVE  \E s \in SessionIds, row \in SessionRow :
               /\ sessions' = [sessions EXCEPT ![s] = row]
               /\ row.user = sessions[s].user /\ (row.stored => sessions[s].stored)
  <2>1. PICK s \in SessionIds : sessions' = [sessions EXCEPT ![s].expires_at =
                                   IF sessions[s].stored THEN h[r].expires ELSE @]
    BY <1>4, ExtendMoves
  <2> DEFINE until == IF sessions[s].stored THEN h[r].expires ELSE sessions[s].expires_at
             row == [sessions[s] EXCEPT !.expires_at = until]
  <2>2. sessions[s] \in SessionRow /\ until \in Nat
    BY Rows, Locals
  <2>3. sessions' = [sessions EXCEPT ![s] = row]
    BY <2>1 DEF TypeOK
  <2> HIDE DEF until
  <2>4. row \in SessionRow /\ row.user = sessions[s].user /\ row.stored = sessions[s].stored
    BY <2>2 DEF SessionRow
  <2>. QED
    BY <2>3, <2>4
<1>5. ASSUME NEW r \in Requests, Logout(r), ~UNCHANGED sessions
      PROVE  \E s \in SessionIds, row \in SessionRow :
               /\ sessions' = [sessions EXCEPT ![s] = row]
               /\ row.user = sessions[s].user /\ (row.stored => sessions[s].stored)
  <2> DEFINE s == h[r].cookie
             row == [sessions[s] EXCEPT !.stored = FALSE]
  <2>1. s \in SessionIds /\ sessions' = [sessions EXCEPT ![s].stored = FALSE]
    BY <1>5, Locals DEF Logout
  <2>2. sessions[s] \in SessionRow
    BY <2>1, Rows
  <2>3. sessions' = [sessions EXCEPT ![s] = row]
    BY <2>1 DEF TypeOK
  <2>4. row \in SessionRow /\ row.user = sessions[s].user /\ ~row.stored
    BY <2>2 DEF SessionRow
  <2>. QED
    BY <2>1, <2>3, <2>4
<1>6. CASE \E r \in Requests : Extend(r)
  BY <1>3, <1>4, <1>6
<1>7. CASE \E r \in Requests : Logout(r) /\ ~UNCHANGED sessions
  BY <1>3, <1>5, <1>7
<1>8. CASE \E s \in SessionIds, u \in UserIds : CreateSession(s, u)
  BY <1>2, <1>8
<1>. QED
  BY <1>1, <1>6, <1>7, <1>8
     DEF Next, Request, Lookup, CheckExpiry, DatabaseError, Handle, Crash, Tick, vars

\* What every step does to the handlers: one moves on, all are lost, or none.
\* Its user is one it had or that of a session in the table.
LEMMA HandlerMoves ==
  ASSUME TypeOK, [Next]_vars
  PROVE  \/ h' = h
         \/ h' = [r \in Requests |-> Blank]
         \/ \E r \in Requests : \E new :
              /\ Fits(new) /\ Become(r, new)
              /\ \/ new = Blank
                 \/ /\ new.cookie \in SessionIds \cup {None} /\ new.user = None
                    /\ new.late = (new.cookie # None /\ ~sessions[new.cookie].stored)
                 \/ /\ new.cookie = h[r].cookie /\ new.late = h[r].late
                    /\ \/ new.user \in {None, h[r].user}
                       \/ new.cookie \in SessionIds /\ sessions[new.cookie].stored
<1> DEFINE Goal(r) ==
      \E new :
         /\ Fits(new) /\ Become(r, new)
         /\ \/ new = Blank
            \/ /\ new.cookie \in SessionIds \cup {None} /\ new.user = None
               /\ new.late = (new.cookie # None /\ ~sessions[new.cookie].stored)
            \/ /\ new.cookie = h[r].cookie /\ new.late = h[r].late
               /\ \/ new.user \in {None, h[r].user}
                  \/ new.cookie \in SessionIds /\ sessions[new.cookie].stored
<1>1. ASSUME NEW r \in Requests, NEW route \in Routes, NEW s \in SessionIds \cup {None},
             Request(r, route, s)
      PROVE  Goal(r)
  BY <1>1, RequestMoves
<1>2. ASSUME NEW r \in Requests, Lookup(r) PROVE Goal(r)
  BY <1>2, LookupMoves
<1>3. ASSUME NEW r \in Requests, CheckExpiry(r) PROVE Goal(r)
  BY <1>3, CheckMoves
<1>4. ASSUME NEW r \in Requests, NEW u \in {None, h[r].user}, Serve(r, u) PROVE Goal(r)
  BY <1>4, ServeMoves
<1>5. ASSUME NEW r \in Requests, Answer(r) PROVE Goal(r)
  BY <1>5, BlankFits DEF Answer
<1> HIDE DEF Goal
<1>6. ASSUME NEW r \in Requests, Extend(r) \/ DatabaseError(r) PROVE Goal(r)
  BY <1>4, <1>6, ExtendMoves DEF DatabaseError
<1>7. ASSUME NEW r \in Requests, Handle(r) \/ Logout(r) PROVE Goal(r)
  BY <1>5, <1>7 DEF Handle, Logout
<1>8. h' = h \/ h' = [r \in Requests |-> Blank] \/ \E r \in Requests : Goal(r)
  <2>1. CASE UNCHANGED vars \/ Tick \/ \E s \in SessionIds, u \in UserIds : CreateSession(s, u)
    BY <2>1 DEF vars, Tick, CreateSession
  <2>2. CASE Crash
    BY <2>2 DEF Crash
  <2>. QED
    BY <1>1, <1>2, <1>3, <1>6, <1>7, <2>1, <2>2 DEF Next
<1>. QED
  BY <1>8 DEF Goal

\* The clock only advances.
LEMMA ClockMoves ==
  ASSUME [Next]_vars PROVE now' = now \/ (now < MaxTime /\ now' = now + 1)
<1>1. CASE Tick
  BY <1>1 DEF Tick
<1>. QED
  BY <1>1
     DEF Next, CreateSession, Request, Lookup, CheckExpiry, Extend, DatabaseError, Handle,
         Logout, Crash, vars

\* TypeOK is inductive.
LEMMA NextTypes == TypeOK /\ [Next]_vars => TypeOK'
<1> SUFFICES ASSUME TypeOK, [Next]_vars PROVE TypeOK'
  OBVIOUS
<1>1. /\ sessions' \in [SessionIds -> SessionRow] /\ UsersKept
      /\ \A s \in SessionIds : sessions'[s].stored => Opened(s)'
  BY SessionMoves DEF Opened
<1>2. now' \in 0..MaxTime
  BY TimesAssumption, ClockMoves DEF TypeOK
<1>3. h' \in [Requests -> Handler] /\ \A q \in Requests : LocalsOK(q)'
  <2>1. CASE h' = h
    <3>1. ASSUME NEW q \in Requests PROVE LocalsOK(q)'
      <4>1. LocalsOK(q) /\ h[q].cookie \in SessionIds \cup {None}
        BY Locals
      <4>. QED
        BY <1>1, <2>1, <4>1 DEF LocalsOK, UsersKept, Opened, At
    <3>. QED
      BY <2>1, <3>1 DEF TypeOK
  <2>2. CASE h' = [r \in Requests |-> Blank]
    <3>1. Blank \in Handler
      BY BlankFits DEF Fits
    <3>. QED
      BY <2>2, <3>1 DEF LocalsOK, Blank, At
  <2>3. CASE \E r \in Requests : \E new : Fits(new) /\ Become(r, new)
    BY <1>1, <2>3, Moves
  <2>. QED
    BY <2>1, <2>2, <2>3, HandlerMoves
<1>. QED
  BY <1>1, <1>2, <1>3 DEF TypeOK

\* Types are kept, and every handler's user is the one its session was opened
\* for (Middleware, lookupSession).
THEOREM TypesHold == Spec => []TypeOK
BY InitTypes, NextTypes, PTL DEF Spec

-----------------------------------------------------------------------------
(* Revocation                                                              *)

\* A request that came after its session was deleted finds no row, ever.
LateInv ==
  \A r \in Requests : h[r].late =>
    h[r].cookie # None /\ ~sessions[h[r].cookie].stored /\ h[r].user = None

\* LateInv is inductive.
LEMMA NextLate == TypeOK /\ LateInv /\ [Next]_vars => LateInv'
<1> SUFFICES ASSUME TypeOK, LateInv, [Next]_vars PROVE LateInv'
  OBVIOUS
<1>1. \A s \in SessionIds : Opened(s) /\ ~sessions[s].stored => ~sessions'[s].stored
  BY SessionMoves
<1>2. h \in [Requests -> Handler] /\ Blank.late = FALSE
  BY DEF TypeOK, Blank
<1>3. ASSUME NEW q \in Requests, h[q].late
      PROVE  h[q].cookie # None /\ ~sessions'[h[q].cookie].stored /\ h[q].user = None
  <2>1. h[q].cookie \in SessionIds /\ ~sessions[h[q].cookie].stored /\ h[q].user = None
    BY <1>3, Locals DEF LateInv
  <2>2. Opened(h[q].cookie)
    BY <1>3, <2>1, Locals DEF LocalsOK, LateInv
  <2>. QED
    BY <1>1, <1>3, <2>1, <2>2 DEF LateInv
<1>4. CASE h' = h
  BY <1>3, <1>4 DEF LateInv
<1>5. CASE h' = [r \in Requests |-> Blank]
  BY <1>2, <1>5 DEF LateInv
<1>6. ASSUME NEW r \in Requests, NEW new, Fits(new), Become(r, new), new.late,
             \/ new = Blank
             \/ /\ new.cookie \in SessionIds \cup {None} /\ new.user = None
                /\ new.late = (new.cookie # None /\ ~sessions[new.cookie].stored)
             \/ /\ new.cookie = h[r].cookie /\ new.late = h[r].late
                /\ \/ new.user \in {None, h[r].user}
                   \/ new.cookie \in SessionIds /\ sessions[new.cookie].stored
      PROVE  new.cookie # None /\ ~sessions'[new.cookie].stored /\ new.user = None
  <2>1. new.cookie \in SessionIds \cup {None} /\ new.late \in BOOLEAN
    BY <1>6 DEF Fits, Handler
  <2>2. CASE new.user = None /\ new.late = (new.cookie # None /\ ~sessions[new.cookie].stored)
    BY <1>1, <1>6, <2>1, <2>2 DEF Fits
  <2>3. CASE new.cookie = h[r].cookie /\ new.late = h[r].late
             /\ (\/ new.user \in {None, h[r].user}
                 \/ new.cookie \in SessionIds /\ sessions[new.cookie].stored)
    <3>1. h[r].late
      BY <1>6, <2>3
    <3>. QED
      BY <1>3, <2>3, <3>1 DEF LateInv
  <2>. QED
    BY <1>2, <1>6, <2>2, <2>3
<1>7. ASSUME NEW r \in Requests, NEW new, Become(r, new),
             new.late => new.cookie # None /\ ~sessions'[new.cookie].stored /\ new.user = None
      PROVE  LateInv'
  <2> SUFFICES ASSUME NEW q \in Requests, h'[q].late
               PROVE  /\ h'[q].cookie # None /\ ~sessions'[h'[q].cookie].stored
                      /\ h'[q].user = None
    BY DEF LateInv
  <2>1. h'[q] = IF q = r THEN new ELSE h[q]
    BY <1>2, <1>7 DEF Become
  <2>. QED
    BY <1>3, <1>7, <2>1
<1>. QED
  BY <1>4, <1>5, <1>6, <1>7, HandlerMoves

\* A request that arrives after its session row was deleted acts for nobody,
\* whatever renewals were under way (lookupSession, deleteSession).
THEOREM RevokedForGood == Spec => []NoAccessAfterRevocation
<1>1. Init => LateInv
  BY DEF Init, LateInv, Blank
<1>2. LateInv => NoAccessAfterRevocation
  BY DEF LateInv, NoAccessAfterRevocation
<1>. QED
  BY <1>1, <1>2, TypesHold, NextLate, PTL DEF Spec

-----------------------------------------------------------------------------
(* Expiry                                                                  *)

\* The bound, for the rows and for the renewals on their way.
ExpiryInv ==
  /\ ExpiryBounded
  /\ \A r \in Requests : At(r, "extend") => h[r].expires <= now + sessionTTL

\* ExpiryInv is inductive.
LEMMA NextExpiry == TypeOK /\ ExpiryInv /\ [Next]_vars => ExpiryInv'
<1> SUFFICES ASSUME TypeOK, ExpiryInv, [Next]_vars PROVE ExpiryInv'
  OBVIOUS
<1>1. now \in Nat /\ now' \in Nat /\ now <= now' /\ sessionTTL \in Nat
  BY TimesAssumption, ClockMoves DEF TypeOK
<1>2. ASSUME NEW s \in SessionIds, sessions'[s].stored
      PROVE  sessions'[s].expires_at <= now' + sessionTTL
  <2>1. /\ sessions \in [SessionIds -> SessionRow] /\ sessions[s].expires_at \in Nat
        /\ sessions[s].stored => sessions[s].expires_at <= now + sessionTTL
    BY Rows DEF TypeOK, ExpiryInv, ExpiryBounded
  <2>2. CASE sessions'[s] = sessions[s]
    BY <1>1, <1>2, <2>1, <2>2
  <2>3. ASSUME NEW x \in SessionIds, NEW u \in UserIds, CreateSession(x, u), x = s
        PROVE  sessions'[s].expires_at <= now' + sessionTTL
    <3>1. PICK t \in 0..now : sessions' = [sessions EXCEPT ![x] =
            [stored |-> TRUE, user |-> u, expires_at |-> t + sessionTTL]]
      BY <2>3 DEF CreateSession
    <3>2. sessions'[s].expires_at = t + sessionTTL
      BY <2>1, <2>3, <3>1
    <3>3. t \in Nat /\ t <= now'
      BY <1>1, <3>1
    <3>4. \A a, b, c \in Nat : a <= b => a + c <= b + c
      OBVIOUS
    <3>. QED
      BY <1>1, <3>2, <3>3, <3>4
  <2>4. ASSUME NEW r \in Requests, Extend(r), h[r].cookie = s
        PROVE  sessions'[s].expires_at <= now' + sessionTTL
    <3>1. sessions' = [sessions EXCEPT ![s].expires_at =
            IF sessions[s].stored THEN h[r].expires ELSE @]
      BY <2>4 DEF Extend
    <3>2. sessions[s].stored
      BY <1>2, <2>1, <3>1 DEF SessionRow
    <3>3. sessions'[s].expires_at = h[r].expires
      BY <2>1, <3>1, <3>2 DEF SessionRow
    <3>4. h[r].expires <= now + sessionTTL /\ h[r].expires \in Nat
      BY <2>4, Locals DEF ExpiryInv, Extend
    <3>. QED
      BY <1>1, <3>3, <3>4
  <2>5. ASSUME NEW r \in Requests, Logout(r) PROVE sessions'[s] = sessions[s]
    <3>1. \/ UNCHANGED sessions
          \/ sessions' = [sessions EXCEPT ![h[r].cookie].stored = FALSE]
      BY <2>5 DEF Logout
    <3>. QED
      BY <1>2, <2>1, <3>1 DEF SessionRow
  <2>6. CASE sessions'[s] # sessions[s]
    <3>1. \/ \E x \in SessionIds, u \in UserIds : CreateSession(x, u) /\ x = s
          \/ \E r \in Requests : Extend(r) /\ h[r].cookie = s
      <4>1. ASSUME NEW x \in SessionIds, NEW u \in UserIds, CreateSession(x, u) PROVE x = s
        BY <2>1, <2>6, <4>1 DEF CreateSession
      <4>2. ASSUME NEW r \in Requests, Extend(r) PROVE h[r].cookie = s
        BY <2>1, <2>6, <4>2 DEF Extend
      <4>3. ~\E r \in Requests : Logout(r)
        BY <2>5, <2>6
      <4>. QED
        BY <2>6, <4>1, <4>2, <4>3
           DEF Next, Request, Lookup, CheckExpiry, DatabaseError, Handle, Crash, Tick, vars
    <3>. QED
      BY <2>3, <2>4, <3>1
  <2>. QED
    BY <2>2, <2>6
<1>3. ASSUME NEW q \in Requests, h'[q].pc = "extend"
      PROVE  h'[q].expires <= now' + sessionTTL
  <2>1. h \in [Requests -> Handler] /\ h[q].expires \in Nat /\ Blank.pc = "idle"
    BY Locals DEF TypeOK, Blank
  <2>2. CASE h'[q] = h[q]
    BY <1>1, <1>3, <2>1, <2>2 DEF ExpiryInv, At
  <2>3. ASSUME NEW r \in Requests, CheckExpiry(r), h'[q] # h[q]
        PROVE  h'[q].expires <= now' + sessionTTL
    <3>1. PICK new : Become(r, new) /\ (new.pc = "extend" => new.expires = now + sessionTTL)
      BY <2>3, CheckMoves
    <3>2. h'[q] = new
      BY <2>1, <2>3, <3>1 DEF Become
    <3>. QED
      BY <1>1, <1>3, <3>1, <3>2
  <2>4. ASSUME NEW r \in Requests, NEW new, Become(r, new), new.pc # "extend"
        PROVE  h'[q] = h[q]
    BY <1>3, <2>1, <2>4 DEF Become
  <2>5. ASSUME NEW r \in Requests, NEW u \in {None, h[r].user}, Serve(r, u)
        PROVE  h'[q] = h[q]
    <3>1. PICK new : Become(r, new) /\ new.pc = "serve"
      BY <2>5, ServeMoves
    <3>. QED
      BY <2>4, <3>1
  <2>6. ASSUME NEW r \in Requests, Answer(r) PROVE h'[q] = h[q]
    BY <2>1, <2>4, <2>6 DEF Answer
  <2>7. ASSUME NEW r \in Requests, NEW route \in Routes, NEW s \in SessionIds \cup {None},
               Request(r, route, s)
        PROVE  h'[q] = h[q]
    <3>1. [Blank EXCEPT !.pc = IF s = None THEN "serve" ELSE "lookup", !.route = route,
                        !.cookie = s, !.late = s # None /\ ~sessions[s].stored].pc # "extend"
      BY DEF Blank
    <3>. QED
      BY <2>4, <2>7, <3>1 DEF Request
  <2>8. ASSUME NEW r \in Requests, Lookup(r) PROVE h'[q] = h[q]
    <3>1. CASE Serve(r, None)
      BY <2>5, <3>1
    <3>2. CASE ~Serve(r, None)
      <4> DEFINE new == [h[r] EXCEPT !.pc = "check", !.user = sessions[h[r].cookie].user,
                                     !.expires = sessions[h[r].cookie].expires_at]
      <4>1. Become(r, new)
        BY <2>8, <3>2 DEF Lookup
      <4>2. new.pc = "check"
        BY Locals DEF Handler
      <4>. QED
        BY <2>4, <4>1, <4>2
    <3>. QED
      BY <3>1, <3>2
  <2>9. ASSUME NEW r \in Requests,
               Extend(r) \/ DatabaseError(r) \/ Handle(r) \/ Logout(r)
        PROVE  h'[q] = h[q]
    <3>1. Answer(r) \/ \E u \in {None, h[r].user} : Serve(r, u)
      BY <2>9, ExtendMoves DEF DatabaseError, Handle, Logout
    <3>. QED
      BY <2>5, <2>6, <3>1
  <2>10. CASE UNCHANGED vars \/ Tick \/ \E s \in SessionIds, u \in UserIds : CreateSession(s, u)
    BY <2>2, <2>10 DEF vars, Tick, CreateSession
  <2>11. CASE Crash
    BY <1>3, <2>1, <2>11 DEF Crash
  <2>. QED
    BY <2>2, <2>3, <2>7, <2>8, <2>9, <2>10, <2>11 DEF Next
<1>. QED
  BY <1>2, <1>3 DEF ExpiryInv, ExpiryBounded, At

\* No session is ever good for more than sessionTTL from now, however late the
\* renewals take effect (createSession, lookupSession).
THEOREM ExpiryLimited == Spec => []ExpiryBounded
<1>1. Init => ExpiryInv
  BY DEF Init, ExpiryInv, ExpiryBounded, Blank, At
<1>2. ExpiryInv => ExpiryBounded
  BY DEF ExpiryInv
<1>. QED
  BY <1>1, <1>2, TypesHold, NextExpiry, PTL DEF Spec

-----------------------------------------------------------------------------
(* Expired sessions                                                        *)

\* Where a handler that Middleware has not finished with, or has let in for a
\* user, comes from.
LEMMA HandlerFrom ==
  ASSUME TypeOK, [Next]_vars, NEW q \in Requests
  PROVE  \/ h'[q] = h[q]
         \/ h'[q].pc \in {"idle", "lookup"}
         \/ h'[q].pc = "serve" /\ h'[q].user = None
         \/ /\ Lookup(q) /\ h'[q].pc = "check" /\ h'[q].cookie = h[q].cookie
            /\ h'[q].expires = sessions[h[q].cookie].expires_at
         \/ /\ CheckExpiry(q) /\ now <= h[q].expires
            /\ h'[q].pc = "extend" /\ h'[q].cookie = h[q].cookie
         \/ Extend(q) /\ h'[q].pc = "serve" /\ h'[q].cookie = h[q].cookie
<1> DEFINE Moved(r) ==
         \/ h'[r].pc \in {"idle", "lookup"}
         \/ h'[r].pc = "serve" /\ h'[r].user = None
         \/ /\ Lookup(r) /\ h'[r].pc = "check" /\ h'[r].cookie = h[r].cookie
            /\ h'[r].expires = sessions[h[r].cookie].expires_at
         \/ /\ CheckExpiry(r) /\ now <= h[r].expires
            /\ h'[r].pc = "extend" /\ h'[r].cookie = h[r].cookie
         \/ Extend(r) /\ h'[r].pc = "serve" /\ h'[r].cookie = h[r].cookie
<1>1. ASSUME NEW r \in Requests, NEW new, Become(r, new)
      PROVE  h'[r] = new /\ \A x \in Requests \ {r} : h'[x] = h[x]
  BY <1>1 DEF Become, TypeOK
<1>2. ASSUME NEW r \in Requests, NEW u, Serve(r, u)
      PROVE  h'[r].pc = "serve" /\ h'[r].user = u /\ h'[r].cookie = h[r].cookie
  <2>1. h'[r] = [h[r] EXCEPT !.pc = "serve", !.user = u]
    BY <1>1, <1>2 DEF Serve
  <2>. QED
    BY <2>1, Locals DEF Handler
<1>3. ASSUME NEW r \in Requests, Answer(r) PROVE Moved(r)
  BY <1>1, <1>3 DEF Answer, Blank
<1>4. ASSUME NEW r \in Requests, NEW route \in Routes, NEW s \in SessionIds \cup {None},
             Request(r, route, s)
      PROVE  Moved(r)
  <2> DEFINE step == IF s = None THEN "serve" ELSE "lookup"
             gone == s # None /\ ~sessions[s].stored
             new == [Blank EXCEPT !.pc = step, !.route = route, !.cookie = s, !.late = gone]
  <2>1. Become(r, new) /\ step \in {"serve", "lookup"}
    BY <1>4 DEF Request
  <2> HIDE DEF step, gone
  <2>2. new.pc = step /\ new.user = None
    BY DEF Blank
  <2>. QED
    BY <1>1, <2>1, <2>2
<1>5. ASSUME NEW r \in Requests, Lookup(r) PROVE Moved(r)
  <2>1. CASE Serve(r, None)
    BY <1>2, <2>1
  <2>2. CASE ~Serve(r, None)
    <3> DEFINE row == sessions[h[r].cookie]
               new == [h[r] EXCEPT !.pc = "check", !.user = row.user,
                                   !.expires = row.expires_at]
    <3>1. h'[r] = new
      BY <1>1, <1>5, <2>2 DEF Lookup
    <3>2. /\ new.pc = "check" /\ new.cookie = h[r].cookie
          /\ new.expires = row.expires_at
      BY Locals DEF Handler
    <3>. QED
      BY <1>5, <3>1, <3>2
  <2>. QED
    BY <2>1, <2>2
<1>6. ASSUME NEW r \in Requests, CheckExpiry(r) PROVE Moved(r)
  <2>1. CASE Serve(r, None)
    BY <1>2, <2>1
  <2>2. CASE ~Serve(r, None)
    <3> DEFINE new == [h[r] EXCEPT !.pc = "extend", !.expires = now + sessionTTL]
    <3>1. h'[r] = new /\ now <= h[r].expires
      BY <1>1, <1>6, <2>2 DEF CheckExpiry
    <3>2. new.pc = "extend" /\ new.cookie = h[r].cookie
      BY Locals DEF Handler
    <3>. QED
      BY <1>6, <3>1, <3>2
  <2>. QED
    BY <2>1, <2>2
<1>7. ASSUME NEW r \in Requests, Extend(r) PROVE Moved(r)
  BY <1>2, <1>7 DEF Extend
<1>8. ASSUME NEW r \in Requests, DatabaseError(r) PROVE Moved(r)
  BY <1>2, <1>8 DEF DatabaseError
<1>9. ASSUME NEW r \in Requests, Handle(r) \/ Logout(r) PROVE Moved(r)
  BY <1>3, <1>9 DEF Handle, Logout
<1>10. ASSUME NEW r \in Requests, Moved(r), NEW new, Become(r, new)
       PROVE  h'[q] = h[q] \/ Moved(q)
  BY <1>1, <1>10
<1> HIDE DEF Moved
<1>11. ASSUME NEW r \in Requests, Moved(r),
              \/ \E route \in Routes, s \in SessionIds \cup {None} : Request(r, route, s)
              \/ Lookup(r) \/ CheckExpiry(r) \/ Extend(r) \/ DatabaseError(r)
              \/ Handle(r) \/ Logout(r)
       PROVE  h'[q] = h[q] \/ Moved(q)
  <2>1. \E new : Become(r, new)
    BY <1>11
       DEF Request, Lookup, CheckExpiry, Extend, DatabaseError, Handle, Logout, Serve, Answer
  <2>. QED
    BY <1>10, <1>11, <2>1
<1>12. h'[q] = h[q] \/ Moved(q)
  <2>1. CASE UNCHANGED vars \/ Tick \/ \E s \in SessionIds, u \in UserIds : CreateSession(s, u)
    BY <2>1 DEF vars, Tick, CreateSession
  <2>2. CASE Crash
    BY <2>2 DEF Crash, Blank, Moved
  <2>. QED
    BY <1>4, <1>5, <1>6, <1>7, <1>8, <1>9, <1>11, <2>1, <2>2 DEF Next
<1>. QED
  BY <1>12 DEF Moved

\* A row in the table stays as it is, unless it is deleted or renewed.
LEMMA RowFrom ==
  ASSUME TypeOK, [Next]_vars, NEW s \in SessionIds, sessions[s].stored, sessions'[s].stored
  PROVE  \/ sessions'[s] = sessions[s]
         \/ \E r \in Requests : Extend(r) /\ h[r].cookie = s
<1>1. sessions \in [SessionIds -> SessionRow] /\ sessions[s] \in SessionRow /\ Opened(s)
  BY Rows DEF TypeOK
<1>2. ASSUME NEW x \in SessionIds, NEW u \in UserIds, CreateSession(x, u)
      PROVE  sessions'[s] = sessions[s]
  BY <1>1, <1>2 DEF CreateSession
<1>3. ASSUME NEW r \in Requests, Extend(r), h[r].cookie # s
      PROVE  sessions'[s] = sessions[s]
  BY <1>1, <1>3 DEF Extend
<1>4. ASSUME NEW r \in Requests, Logout(r) PROVE sessions'[s] = sessions[s]
  BY <1>1, <1>4 DEF Logout, SessionRow
<1>. QED
  BY <1>2, <1>3, <1>4
     DEF Next, Request, Lookup, CheckExpiry, DatabaseError, Handle, Crash, Tick, vars

\* Once a session has expired with no renewal of it under way, it stays so until
\* it is deleted, and lets nobody in (lookupSession).
THEOREM ExpiredForGood == Spec => ExpiredStaysExpired
<1>1. ASSUME TypeOK, [Next]_vars, NEW s \in SessionIds, Expired(s)
      PROVE  /\ Expired(s)' \/ ~sessions'[s].stored
             /\ \A r \in Requests :
                  h'[r].cookie = s /\ At(r, "serve")' /\ h'[r].user # None => At(r, "serve")
  <2>1. /\ now \in Int /\ now' \in Int /\ now <= now'
        /\ sessions[s].expires_at \in Int /\ s # None
    BY <1>1, TimesAssumption, ClockMoves, Rows, NoneAssumption DEF TypeOK
  <2>2. sessions[s].stored /\ sessions[s].expires_at < now
    BY <1>1 DEF Expired
  <2>3. ASSUME NEW r \in Requests PROVE ~(Extend(r) /\ h[r].cookie = s)
    BY <1>1 DEF Expired, Extend
  <2>4. sessions'[s].stored => sessions'[s] = sessions[s]
    BY <1>1, <2>2, <2>3, RowFrom
  <2>5. ASSUME NEW r \in Requests, h'[r].cookie = s
        PROVE  /\ h'[r].pc = "extend" => FALSE
               /\ h'[r].pc = "check" => h'[r].expires < now'
               /\ h'[r].pc = "serve" /\ h'[r].user # None => h[r].pc = "serve"
    <3>1. h[r].expires \in Int
      BY <1>1, Locals
    <3>2. CASE h'[r] = h[r]
      BY <1>1, <2>1, <2>5, <3>1, <3>2 DEF Expired, At
    <3>3. CASE h'[r].pc \in {"idle", "lookup"}
      BY <3>3
    <3>4. CASE h'[r].pc = "serve" /\ h'[r].user = None
      BY <3>4
    <3>5. CASE /\ Lookup(r) /\ h'[r].pc = "check" /\ h'[r].cookie = h[r].cookie
               /\ h'[r].expires = sessions[h[r].cookie].expires_at
      BY <2>1, <2>2, <2>5, <3>5
    <3>6. CASE /\ CheckExpiry(r) /\ now <= h[r].expires
               /\ h'[r].pc = "extend" /\ h'[r].cookie = h[r].cookie
      BY <1>1, <2>1, <2>5, <3>1, <3>6 DEF Expired, CheckExpiry, At
    <3>7. CASE Extend(r) /\ h'[r].cookie = h[r].cookie
      BY <2>3, <2>5, <3>7
    <3>. QED
      BY <1>1, <3>2, <3>3, <3>4, <3>5, <3>6, <3>7, HandlerFrom
  <2>6. sessions'[s].stored => Expired(s)'
    BY <2>1, <2>2, <2>4, <2>5 DEF Expired, At
  <2>. QED
    BY <2>5, <2>6 DEF At
<1>2. TypeOK /\ [Next]_vars =>
        [\A s \in SessionIds : Expired(s) =>
           /\ Expired(s)' \/ ~sessions'[s].stored
           /\ \A r \in Requests :
                h'[r].cookie = s /\ At(r, "serve")' /\ h'[r].user # None => At(r, "serve")]_vars
  BY <1>1
<1>. QED
  BY <1>2, TypesHold, PTL DEF Spec, ExpiredStaysExpired

-----------------------------------------------------------------------------
(* Refinement                                                              *)

\* What SessionGate sees of a step that moves one handler and leaves the
\* sessions alone.
LEMMA GateHandlers ==
  ASSUME TypeOK, NEW r \in Requests, NEW new, Fits(new), Become(r, new)
  PROVE  /\ [q \in Requests |-> h'[q].cookie]
              = [[q \in Requests |-> h[q].cookie] EXCEPT ![r] = new.cookie]
         /\ [q \in Requests |-> h'[q].user]
              = [[q \in Requests |-> h[q].user] EXCEPT ![r] = new.user]
<1>1. h' = [h EXCEPT ![r] = new] /\ h \in [Requests -> Handler]
  BY DEF Become, TypeOK
<1>2. \A q \in Requests : h'[q] = IF q = r THEN new ELSE h[q]
  BY <1>1
<1>. QED
  BY <1>2

\* Initial states map to initial states.
LEMMA GateInit == Init => Gate!Init
<1> SUFFICES ASSUME Init PROVE Gate!Init
  OBVIOUS
<1>1. \A s \in SessionIds : sessions[s].user = None /\ Life(s) = "fresh"
  BY DEF Init, Life, Opened
<1>2. \A r \in Requests : h[r].cookie = None /\ h[r].user = None
  BY DEF Init, Blank
<1>. QED
  BY <1>1, <1>2 DEF Gate!Init

\* Every step maps to a step of SessionGate or a stutter.
LEMMA GateStep == TypeOK /\ [Next]_vars => [Gate!Next]_Gate!vars
<1> SUFFICES ASSUME TypeOK, [Next]_vars PROVE [Gate!Next]_Gate!vars
  OBVIOUS
<1> DEFINE life == [s \in SessionIds |-> Life(s)]
           owner == [s \in SessionIds |-> sessions[s].user]
           asks == [r \in Requests |-> h[r].cookie]
           granted == [r \in Requests |-> h[r].user]
           Same == life' = life /\ owner' = owner
           Moved(r, c, u) == /\ asks' = [asks EXCEPT ![r] = c]
                             /\ granted' = [granted EXCEPT ![r] = u]
<1>1. UNCHANGED sessions => Same
  BY DEF Life, Opened
<1>2. ASSUME NEW r \in Requests, NEW new, Fits(new), Become(r, new)
      PROVE  Moved(r, new.cookie, new.user)
  BY <1>2, GateHandlers
<1>3. ASSUME NEW r \in Requests PROVE asks[r] = h[r].cookie /\ granted[r] = h[r].user
  OBVIOUS
<1>4. ASSUME NEW r \in Requests, NEW u, Moved(r, h[r].cookie, u) PROVE asks' = asks
  BY <1>4
<1> HIDE DEF asks, granted, Moved
<1>5. ASSUME Same, UNCHANGED h PROVE UNCHANGED Gate!vars
  BY <1>5 DEF Gate!vars, asks, granted
<1>6. ASSUME NEW s \in SessionIds, NEW u \in UserIds, CreateSession(s, u)
      PROVE  Gate!Open(s, u)
  <2>1. PICK t \in 0..now : sessions' = [sessions EXCEPT ![s] =
          [stored |-> TRUE, user |-> u, expires_at |-> t + sessionTTL]]
    BY <1>6 DEF CreateSession
  <2> DEFINE row == [stored |-> TRUE, user |-> u, expires_at |-> t + sessionTTL]
  <2>2. row.stored /\ row.user = u
    OBVIOUS
  <2> HIDE DEF row
  <2>3. \A x \in SessionIds : sessions'[x] = IF x = s THEN row ELSE sessions[x]
    BY <2>1 DEF TypeOK, row
  <2>4. /\ sessions'[s].stored /\ sessions'[s].user = u
        /\ \A x \in SessionIds \ {s} : sessions'[x] = sessions[x]
    BY <2>2, <2>3
  <2>5. owner' = [owner EXCEPT ![s] = u]
    BY <2>4
  <2>6. life' = [life EXCEPT ![s] = "open"]
    BY <2>4, NoneAssumption DEF Life, Opened
  <2>7. life[s] = "fresh"
    BY <1>6 DEF CreateSession, Life
  <2>8. UNCHANGED <<asks, granted>>
    BY <1>6 DEF CreateSession, asks, granted
  <2>. QED
    BY <2>5, <2>6, <2>7, <2>8 DEF Gate!Open, asks, granted
<1>7. ASSUME NEW r \in Requests, NEW route \in Routes, NEW s \in SessionIds \cup {None},
             Request(r, route, s)
      PROVE  [Gate!Next]_Gate!vars
  <2>1. PICK new : Fits(new) /\ Become(r, new) /\ new.user = None /\ new.cookie = s
    BY <1>7, RequestMoves
  <2>2. Moved(r, s, None) /\ Same
    BY <1>1, <1>2, <1>7, <2>1 DEF Request
  <2>3. h[r].cookie = None /\ h[r].user = None
    BY <1>7, Locals DEF Request, LocalsOK, Blank
  <2>4. granted' = granted
    BY <2>2, <2>3 DEF Moved, granted
  <2>5. CASE s = None
    <3>1. asks' = asks
      BY <2>2, <2>3, <2>5 DEF Moved, asks
    <3>. QED
      BY <2>2, <2>4, <3>1 DEF Gate!vars, asks, granted
  <2>6. CASE s \in SessionIds
    <3>1. life[s] # "fresh"
      BY <1>7, <2>6, NoneAssumption DEF Request, Life
    <3>2. Gate!Ask(r, s)
      BY <1>3, <2>2, <2>3, <2>4, <3>1 DEF Gate!Ask, Moved, asks, granted
    <3>. QED
      BY <2>6, <3>2 DEF Gate!Next
  <2>. QED
    BY <2>5, <2>6
<1>8. ASSUME NEW r \in Requests, Moved(r, h[r].cookie, None), Same PROVE Gate!Deny(r)
  <2>1. asks' = asks
    BY <1>8, <1>4
  <2>. QED
    BY <1>8, <2>1 DEF Gate!Deny, Moved, asks, granted
<1>9. ASSUME NEW r \in Requests, Moved(r, h[r].cookie, h[r].user), Same
      PROVE  UNCHANGED Gate!vars
  <2>1. asks' = asks /\ granted' = granted
    BY <1>9 DEF Moved, asks, granted
  <2>. QED
    BY <1>9, <2>1 DEF Gate!vars, asks, granted
<1>10. ASSUME NEW r \in Requests, NEW u \in {None, h[r].user}, Moved(r, h[r].cookie, u), Same
       PROVE  [Gate!Next]_Gate!vars
  BY <1>8, <1>9, <1>10 DEF Gate!Next
<1>11. ASSUME NEW r \in Requests, Lookup(r) PROVE [Gate!Next]_Gate!vars
  <2>1. PICK new : /\ Fits(new) /\ Become(r, new) /\ new.cookie = h[r].cookie
                   /\ h[r].cookie \in SessionIds
                   /\ \/ new.user = None
                      \/ /\ sessions[h[r].cookie].stored
                         /\ new.user = sessions[h[r].cookie].user
    BY <1>11, LookupMoves
  <2>2. Moved(r, h[r].cookie, new.user) /\ Same
    BY <1>1, <1>2, <1>11, <2>1 DEF Lookup
  <2>3. CASE new.user = None
    BY <1>10, <2>2, <2>3
  <2>4. CASE sessions[h[r].cookie].stored /\ new.user = sessions[h[r].cookie].user
    <3>1. life[h[r].cookie] = "open" /\ owner[h[r].cookie] = new.user /\ h[r].cookie # None
      BY <2>1, <2>4, Rows, NoneAssumption DEF Life
    <3>2. asks' = asks
      BY <1>4, <2>2
    <3>3. Gate!Grant(r)
      BY <1>3, <2>2, <3>1, <3>2 DEF Gate!Grant, Moved, asks, granted
    <3>. QED
      BY <3>3 DEF Gate!Next
  <2>. QED
    BY <2>1, <2>3, <2>4
<1>12. ASSUME NEW r \in Requests, CheckExpiry(r) PROVE [Gate!Next]_Gate!vars
  <2>1. PICK new : /\ Fits(new) /\ Become(r, new) /\ new.cookie = h[r].cookie
                   /\ new.user \in {None, h[r].user}
    BY <1>12, CheckMoves
  <2>2. Moved(r, h[r].cookie, new.user) /\ Same
    BY <1>1, <1>2, <1>12, <2>1 DEF CheckExpiry
  <2>. QED
    BY <1>10, <2>1, <2>2
<1>13. ASSUME NEW r \in Requests, NEW u \in {None, h[r].user}, Serve(r, u), Same
       PROVE  [Gate!Next]_Gate!vars
  <2>1. PICK new : /\ Fits(new) /\ Become(r, new) /\ new.cookie = h[r].cookie
                   /\ new.user \in {None, h[r].user}
    BY <1>13, ServeMoves
  <2>2. Moved(r, h[r].cookie, new.user)
    BY <1>2, <2>1
  <2>. QED
    BY <1>10, <1>13, <2>1, <2>2
<1>14. ASSUME NEW r \in Requests, Extend(r) PROVE [Gate!Next]_Gate!vars
  <2>1. PICK s \in SessionIds : sessions' = [sessions EXCEPT ![s].expires_at =
                                   IF sessions[s].stored THEN h[r].expires ELSE @]
    BY <1>14, ExtendMoves
  <2>2. \A x \in SessionIds : /\ sessions'[x].stored = sessions[x].stored
                              /\ sessions'[x].user = sessions[x].user
    BY <2>1, Rows DEF TypeOK, SessionRow
  <2>3. Same
    BY <2>2 DEF Life, Opened
  <2>. QED
    BY <1>13, <1>14, <2>3, ExtendMoves
<1>15. ASSUME NEW r \in Requests, DatabaseError(r) PROVE [Gate!Next]_Gate!vars
  BY <1>1, <1>13, <1>15 DEF DatabaseError
<1>16. ASSUME NEW r \in Requests, Answer(r) PROVE Moved(r, None, None)
  BY <1>2, <1>16, BlankFits DEF Answer, Blank
<1>17. ASSUME NEW r \in Requests, Answer(r), Same PROVE [Gate!Next]_Gate!vars
  <2>1. Gate!Answer(r)
    BY <1>16, <1>17 DEF Gate!Answer, Moved, asks, granted
  <2>. QED
    BY <2>1 DEF Gate!Next
<1>18. ASSUME NEW r \in Requests, Logout(r) PROVE [Gate!Next]_Gate!vars
  <2>1. CASE UNCHANGED sessions
    BY <1>1, <1>17, <1>18, <2>1 DEF Logout
  <2>2. CASE ~UNCHANGED sessions
    <3> DEFINE s == h[r].cookie
    <3>1. s \in SessionIds /\ sessions' = [sessions EXCEPT ![s].stored = FALSE] /\ Answer(r)
      BY <1>18, <2>2, Locals DEF Logout
    <3>2. Opened(s) /\ s # None
      BY <3>1, Locals, NoneAssumption DEF LocalsOK
    <3>3. \A x \in SessionIds : /\ sessions'[x].stored = (x # s /\ sessions[x].stored)
                                /\ sessions'[x].user = sessions[x].user
      BY <3>1, Rows DEF TypeOK, SessionRow
    <3>4. owner' = owner
      BY <3>3
    <3>5. life' = [life EXCEPT ![s] = "closed"]
      BY <3>2, <3>3 DEF Life, Opened
    <3>6. Gate!Close(r)
      BY <1>3, <1>16, <3>1, <3>2, <3>4, <3>5 DEF Gate!Close, Moved, asks, granted
    <3>. QED
      BY <3>6 DEF Gate!Next
  <2>. QED
    BY <2>1, <2>2
<1>19. ASSUME NEW r \in Requests, Handle(r) PROVE [Gate!Next]_Gate!vars
  BY <1>1, <1>17, <1>19 DEF Handle
<1>20. CASE Crash
  <2>1. h' = [r \in Requests |-> Blank] /\ Same
    BY <1>1, <1>20 DEF Crash
  <2>2. Gate!Crash
    BY <2>1 DEF Gate!Crash, Blank, asks, granted
  <2>. QED
    BY <2>2 DEF Gate!Next
<1>21. CASE Tick \/ UNCHANGED vars
  BY <1>1, <1>5, <1>21 DEF Tick, vars
<1>. QED
  BY <1>6, <1>7, <1>11, <1>12, <1>14, <1>15, <1>18, <1>19, <1>20, <1>21 DEF Next, Gate!Next

\* Middleware's SELECT and UPDATE and Logout's DELETE, interleaved with those of
\* every other request, give what SessionGate promises: access only after a
\* moment, since the request arrived, at which its session was open.
THEOREM SessionsImplementGate == Spec => GateSpec
BY GateInit, GateStep, TypesHold, PTL DEF Spec, GateSpec, Gate!Spec
=============================================================================
