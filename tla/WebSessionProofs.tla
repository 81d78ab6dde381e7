-------------------------- MODULE WebSessionProofs --------------------------
(***************************************************************************)
(* What holds of WebSession for any numbers of sessions, emails and calls  *)
(* in flight.  What SessionsProofs shows of the server is used through S.  *)
(***************************************************************************)
EXTENDS WebSession, TLAPS

S == INSTANCE SessionsProofs WITH UserIds <- Emails

-----------------------------------------------------------------------------
(* The server                                                              *)

\* S and Server are the same instance.
LEMMA SameTypes == Server!TypeOK <=> S!TypeOK
BY DEF Server!TypeOK, S!TypeOK, Server!LocalsOK, S!LocalsOK, Server!SessionRow,
         S!SessionRow, Server!Handler, S!Handler, Server!Routes, S!Routes, Server!Blank,
         S!Blank, Server!Opened, S!Opened, Server!At, S!At

LEMMA SameSteps == [Server!Next]_Server!vars <=> [S!Next]_S!vars
<1>1. \A s \in SessionIds, u \in Emails : Server!CreateSession(s, u) <=> S!CreateSession(s, u)
  BY DEF Server!CreateSession, S!CreateSession, Server!Opened, S!Opened
<1>2. \A r \in Requests, route_ \in Server!Routes, s \in SessionIds \cup {None} : Server!Request(r, route_, s) <=> S!Request(r, route_, s)
  BY DEF Server!Request, S!Request, Server!At, S!At, Server!Become, S!Become,
         Server!Blank, S!Blank, Server!Opened, S!Opened, Server!Routes, S!Routes
<1>3. \A r \in Requests : Server!Lookup(r) <=> S!Lookup(r)
  BY DEF Server!Lookup, S!Lookup, Server!At, S!At, Server!Become, S!Become, Server!Serve,
         S!Serve
<1>4. \A r \in Requests : Server!CheckExpiry(r) <=> S!CheckExpiry(r)
  BY DEF Server!CheckExpiry, S!CheckExpiry, Server!At, S!At, Server!Become, S!Become,
         Server!Serve, S!Serve
<1>5. \A r \in Requests : Server!Extend(r) <=> S!Extend(r)
  BY DEF Server!Extend, S!Extend, Server!At, S!At, Server!Become, S!Become, Server!Serve,
         S!Serve
<1>6. \A r \in Requests : Server!DatabaseError(r) <=> S!DatabaseError(r)
  BY DEF Server!DatabaseError, S!DatabaseError, Server!At, S!At, Server!Become, S!Become,
         Server!Serve, S!Serve
<1>7. \A r \in Requests : Server!Handle(r) <=> S!Handle(r)
  BY DEF Server!Handle, S!Handle, Server!At, S!At, Server!Become, S!Become, Server!Blank,
         S!Blank, Server!Answer, S!Answer
<1>8. \A r \in Requests : Server!Logout(r) <=> S!Logout(r)
  BY DEF Server!Logout, S!Logout, Server!At, S!At, Server!Become, S!Become, Server!Blank,
         S!Blank, Server!Answer, S!Answer
<1>9. Server!Crash <=> S!Crash
  BY DEF Server!Crash, S!Crash, Server!At, S!At, Server!Blank, S!Blank
<1>10. Server!Tick <=> S!Tick
  BY DEF Server!Tick, S!Tick
<1>. QED
  BY <1>1, <1>2, <1>3, <1>4, <1>5, <1>6, <1>7, <1>8, <1>9, <1>10
     DEF Server!Next, S!Next, Server!vars, S!vars, Server!Routes, S!Routes

LEMMA SameUsers ==
  Server!TypeOK /\ [Server!Next]_Server!vars =>
    /\ Server!TypeOK'
    /\ \A s \in SessionIds : sessions[s].user # None => sessions'[s].user = sessions[s].user
<1> SUFFICES ASSUME Server!TypeOK, [Server!Next]_Server!vars
             PROVE  /\ Server!TypeOK'
                    /\ \A s \in SessionIds :
                         sessions[s].user # None => sessions'[s].user = sessions[s].user
  OBVIOUS
<1>1. S!NoneAssumption /\ S!TimesAssumption
  BY NamesAssumption, BoundsAssumption DEF S!NoneAssumption, S!TimesAssumption
<1>2. S!TypeOK /\ [S!Next]_S!vars
  BY SameTypes, SameSteps
<1>3. S!TypeOK'
  BY <1>1, <1>2, S!NextTypes
<1>4. Server!TypeOK' <=> S!TypeOK'
  BY SameTypes, PTL
<1>5. S!UsersKept
  BY <1>1, <1>2, S!SessionMoves
<1>. QED
  BY <1>3, <1>4, <1>5 DEF S!UsersKept, S!Opened

\* What is needed of the handlers and the rows.
LEMMA Served ==
  ASSUME Server!TypeOK
  PROVE  /\ now \in Nat
         /\ \A s \in SessionIds : sessions[s].user \in Emails \cup {None}
         /\ h \in [Requests -> Server!Handler]
         /\ \A r \in Requests :
              /\ h[r].user \in Emails \cup {None} /\ h[r].cookie \in SessionIds \cup {None}
              /\ h[r].user # None => h[r].cookie # None /\ sessions[h[r].cookie].user = h[r].user
<1>1. MaxTime \in Nat /\ now \in 0..MaxTime
  BY BoundsAssumption DEF Server!TypeOK
<1>2. \A s \in SessionIds : sessions[s].user \in Emails \cup {None}
  BY DEF Server!TypeOK, Server!SessionRow
<1>3. h \in [Requests -> Server!Handler]
  BY DEF Server!TypeOK
<1>4. ASSUME NEW r \in Requests
      PROVE  /\ h[r].user \in Emails \cup {None} /\ h[r].cookie \in SessionIds \cup {None}
             /\ h[r].user # None => h[r].cookie # None /\ sessions[h[r].cookie].user = h[r].user
  BY <1>3 DEF Server!TypeOK, Server!Handler, Server!LocalsOK
<1>. QED
  BY <1>1, <1>2, <1>3, <1>4

\* The handlers after a step of the handler of r to the state new.
Moves(r, new) == \A q \in Requests : h'[q] = IF q = r THEN new ELSE h[q]

\* A request arrives: its handler is busy, for nobody yet.
LEMMA RequestMoves ==
  ASSUME Server!TypeOK, NEW r \in Requests, NEW to, NEW s, Server!Request(r, to, s)
  PROVE  /\ h[r].pc = "idle" /\ UNCHANGED <<now, sessions>>
         /\ \E new : Moves(r, new) /\ new.pc # "idle" /\ new.cookie = s /\ new.user = None
<1> DEFINE new == [Server!Blank EXCEPT !.pc = IF s = None THEN "serve" ELSE "lookup",
                                       !.route = to, !.cookie = s,
                                       !.late = s # None /\ ~sessions[s].stored]
<1>1. new.pc # "idle" /\ new.cookie = s /\ new.user = None
  BY DEF Server!Blank
<1>2. h' = [h EXCEPT ![r] = new]
  BY DEF Server!Request, Server!Become
<1>3. h[r].pc = "idle" /\ UNCHANGED <<now, sessions>>
  BY DEF Server!Request, Server!At
<1> HIDE DEF new
<1>. QED
  BY <1>1, <1>2, <1>3, Served DEF Moves

\* Middleware keeps the handler busy, with its cookie.
LEMMA MiddlewareMoves ==
  ASSUME Server!TypeOK, NEW r \in Requests, Middleware(r)
  PROVE  /\ h[r].pc # "idle" /\ UNCHANGED now
         /\ \E new : Moves(r, new) /\ new.pc # "idle" /\ new.cookie = h[r].cookie
<1> DEFINE Onward(new) ==
      h' = [h EXCEPT ![r] = new] /\ new.pc # "idle" /\ new.cookie = h[r].cookie
<1>1. h \in [Requests -> Server!Handler]
  BY Served
<1>2. ASSUME NEW u, Server!Serve(r, u) PROVE \E new : Onward(new)
  <2> DEFINE new == [h[r] EXCEPT !.pc = "serve", !.user = u]
  <2>1. Onward(new)
    BY <1>1, <1>2 DEF Server!Serve, Server!Become, Server!Handler
  <2>. QED
    BY <2>1
<1>3. ASSUME Server!Lookup(r) PROVE \E new : Onward(new)
  <2>1. CASE \E u : Server!Serve(r, u)
    BY <1>2, <2>1
  <2>2. CASE ~\E u : Server!Serve(r, u)
    <3> DEFINE new == [h[r] EXCEPT !.pc = "check", !.user = sessions[h[r].cookie].user,
                                   !.expires = sessions[h[r].cookie].expires_at]
    <3>1. Onward(new)
      BY <1>1, <1>3, <2>2 DEF Server!Lookup, Server!Become, Server!Handler
    <3>. QED
      BY <3>1
  <2>. QED
    BY <2>1, <2>2
<1>4. ASSUME Server!CheckExpiry(r) PROVE \E new : Onward(new)
  <2>1. CASE \E u : Server!Serve(r, u)
    BY <1>2, <2>1
  <2>2. CASE ~\E u : Server!Serve(r, u)
    <3> DEFINE new == [h[r] EXCEPT !.pc = "extend", !.expires = now + sessionTTL]
    <3>1. Onward(new)
      BY <1>1, <1>4, <2>2 DEF Server!CheckExpiry, Server!Become, Server!Handler
    <3>. QED
      BY <3>1
  <2>. QED
    BY <2>1, <2>2
<1>5. ASSUME Server!Extend(r) \/ Server!DatabaseError(r) PROVE \E new : Onward(new)
  BY <1>2, <1>5 DEF Server!Extend, Server!DatabaseError
<1>6. \E new : Onward(new)
  BY <1>2, <1>3, <1>4, <1>5 DEF Middleware
<1>7. h[r].pc # "idle" /\ UNCHANGED now
  BY DEF Middleware, Server!Lookup, Server!CheckExpiry, Server!Extend, Server!DatabaseError,
         Server!At
<1>. QED
  BY <1>1, <1>6, <1>7 DEF Moves

\* The handler that answers is done.
LEMMA AnswerMoves ==
  ASSUME Server!TypeOK, NEW r \in Requests, Server!Handle(r) \/ Server!Logout(r)
  PROVE  h[r].pc = "serve" /\ Moves(r, Server!Blank) /\ Server!Blank.pc = "idle" /\ UNCHANGED now
<1>1. h' = [h EXCEPT ![r] = Server!Blank]
  BY DEF Server!Handle, Server!Logout, Server!Answer, Server!Become
<1>2. h[r].pc = "serve" /\ UNCHANGED now
  BY DEF Server!Handle, Server!Logout, Server!At
<1>3. Server!Blank.pc = "idle"
  BY DEF Server!Blank
<1> HIDE DEF Server!Blank
<1>. QED
  BY <1>1, <1>2, <1>3, Served DEF Moves

\* The session of a login is its user's.
LEMMA CreateMoves ==
  ASSUME Server!TypeOK, NEW s \in SessionIds, NEW u \in Emails, Server!CreateSession(s, u)
  PROVE  sessions'[s].user = u /\ UNCHANGED <<now, h>>
<1>1. PICK sampled \in 0..now : sessions' = [sessions EXCEPT ![s] =
        [stored |-> TRUE, user |-> u, expires_at |-> sampled + sessionTTL]]
  BY DEF Server!CreateSession
<1>2. sessions \in [SessionIds -> Server!SessionRow]
  BY DEF Server!TypeOK
<1>. QED
  BY <1>1, <1>2 DEF Server!CreateSession

-----------------------------------------------------------------------------
(* The calls                                                               *)

\* The users of the sessions.
Users == [s \in SessionIds |-> sessions[s].user]

\* What holds of a call c whose handler is busy or not: page says that LoginPage
\* is mounted, email is what stands in its field.
CallFits(c, busy, users, page, email) ==
  /\ c \in Call
  /\ c.pc = "waiting" => busy
  /\ busy => c.op \in Ops /\ c.pc \in {"waiting", "lost", "gone"}
  /\ c.op = "verifyOtp" /\ busy => c.email \in Emails
  /\ c.login # None => c.op = "verifyOtp" /\ c.email \in Emails /\ users[c.login] = c.email
  /\ c.ok /\ c.op \in {"me", "verifyOtp"} =>
       c.email \in Emails /\ \E s \in SessionIds : users[s] = c.email
  /\ c.mine => page /\ email \in Emails

\* Sessions keep their users.
Kept(users, later) == \A s \in SessionIds : users[s] # None => later[s] = users[s]

\* Whether the handler of r is at work.
Busy(r) == h[r].pc # "idle"

LEMMA NoneApart == None \notin Emails /\ None \notin SessionIds /\ "loading" \notin Emails
                   /\ None # "loading" /\ None \notin Ops
BY NamesAssumption

\* A call fits later sessions, while the form keeps an email or the call is not
\* the form's.
LEMMA FitsLater ==
  ASSUME NEW c, NEW busy, NEW users, NEW later, Kept(users, later),
         NEW page, NEW email, NEW page2, NEW email2,
         CallFits(c, busy, users, page, email),
         ~c.mine \/ (page2 /\ (email2 = email \/ email2 \in Emails))
  PROVE  CallFits(c, busy, later, page2, email2)
<1>1. c.login \in SessionIds \cup {None}
  BY DEF CallFits, Call
<1>2. c.login # None => later[c.login] = c.email
  BY <1>1, NoneApart DEF CallFits, Kept
<1>3. \A s \in SessionIds : users[s] \in Emails => later[s] = users[s]
  BY NoneApart DEF Kept
<1>. QED
  BY <1>2, <1>3 DEF CallFits

\* Its LoginPage is unmounted.
LEMMA FitsUnmounted ==
  ASSUME NEW c, NEW busy, NEW users, NEW page, NEW email, NEW page2, NEW email2,
         CallFits(c, busy, users, page, email)
  PROVE  CallFits([c EXCEPT !.mine = FALSE], busy, users, page2, email2)
<1> DEFINE d == [c EXCEPT !.mine = FALSE]
<1>1. c \in Call
  BY DEF CallFits
<1>2. /\ d \in Call /\ ~d.mine /\ d.pc = c.pc /\ d.op = c.op /\ d.email = c.email
      /\ d.login = c.login /\ d.ok = c.ok
  BY <1>1 DEF Call
<1> HIDE DEF d
<1>3. CallFits(d, busy, users, page2, email2)
  BY <1>2 DEF CallFits
<1>. QED
  BY <1>3 DEF d

LEMMA NoCallFits ==
  ASSUME NEW users, NEW page, NEW email
  PROVE  CallFits(NoCall, FALSE, users, page, email) /\ ~NoCall.mine /\ NoCall.op = None
BY NoneApart DEF NoCall, CallFits, Call, Ops

\* Nobody waits for it any more.
LEMMA FitsForgotten ==
  ASSUME NEW c, NEW busy, NEW users, NEW page, NEW email, NEW page2, NEW email2,
         CallFits(c, busy, users, page, email)
  PROVE  /\ CallFits([c EXCEPT !.pc = "gone", !.mine = FALSE], busy, users, page2, email2)
         /\ ~[c EXCEPT !.pc = "gone", !.mine = FALSE].mine
<1> DEFINE d == [c EXCEPT !.pc = "gone", !.mine = FALSE]
<1>1. c \in Call
  BY DEF CallFits
<1>2. /\ d \in Call /\ ~d.mine /\ d.pc = "gone" /\ d.op = c.op /\ d.email = c.email
      /\ d.login = c.login /\ d.ok = c.ok
  BY <1>1 DEF Call
<1> HIDE DEF d
<1>3. CallFits(d, busy, users, page2, email2)
  BY <1>2 DEF CallFits
<1>. QED
  BY <1>2, <1>3 DEF d

\* Its answer is lost and its handler done.
LEMMA FitsUnanswered ==
  ASSUME NEW r \in Requests, NEW busy, NEW users, NEW page, NEW email,
         CallFits(calls[r], busy, users, page, email)
  PROVE  CallFits(Unanswered(r), FALSE, users, page, email)
<1> DEFINE c == calls[r]
           d == [NoCall EXCEPT !.op = c.op, !.pc = "lost", !.mine = c.mine]
<1>1. c \in Call
  BY DEF CallFits
<1>2. /\ d \in Call /\ d.mine = c.mine /\ d.pc = "lost" /\ d.login = None /\ ~d.ok
  BY <1>1 DEF Call, NoCall
<1>3. d = Unanswered(r)
  BY DEF Unanswered
<1> HIDE DEF d
<1>4. CallFits(d, FALSE, users, page, email)
  BY <1>2 DEF CallFits
<1>. QED
  BY <1>3, <1>4

-----------------------------------------------------------------------------
(* The invariant                                                           *)

WebOK ==
  /\ session \in Emails \cup {None, "loading"}
  /\ route \in {"closed", "/", "/login"}
  /\ form \in Form
  /\ ~LoginPage(session, route) => form = Fresh
  /\ form.stage = "code" => form.email \in Emails
  /\ jar \in [session : SessionIds \cup {None}, until : Nat]
  /\ smooth \in BOOLEAN
  /\ DOMAIN calls = Requests /\ calls = [r \in Requests |-> calls[r]]

CallsOK ==
  \A r \in Requests :
    CallFits(calls[r], Busy(r), Users, LoginPage(session, route), form.email)

IInv == Server!TypeOK /\ WebOK /\ CallsOK /\ ClaimEarned

LEMMA InvTypes == IInv => TypeOK
<1> SUFFICES ASSUME IInv PROVE TypeOK
  OBVIOUS
<1>1. \A r \in Requests : calls[r] \in Call
  BY DEF IInv, CallsOK, CallFits
<1>2. calls \in [Requests -> Call]
  BY <1>1 DEF IInv, WebOK
<1>3. \A r \in Requests : calls[r].pc = "waiting" => h[r].pc # "idle"
  BY DEF IInv, CallsOK, CallFits, Busy
<1>4. ASSUME NEW r \in Requests, h[r].pc # "idle" PROVE calls[r] # NoCall
  <2>1. calls[r].op \in Ops
    BY <1>4 DEF IInv, CallsOK, CallFits, Busy
  <2>. QED
    BY <2>1, NoneApart DEF NoCall
<1>. QED
  BY <1>2, <1>3, <1>4 DEF TypeOK, IInv, WebOK

LEMMA InitInv == Init => IInv
<1> SUFFICES ASSUME Init PROVE IInv
  OBVIOUS
<1>1. Server!TypeOK
  <2>1. S!NoneAssumption /\ S!TimesAssumption
    BY NamesAssumption, BoundsAssumption DEF S!NoneAssumption, S!TimesAssumption
  <2>2. Server!Init => S!Init
    BY DEF Server!Init, S!Init, Server!Blank, S!Blank
  <2>. QED
    BY <2>1, <2>2, S!InitTypes, SameTypes DEF Init
<1>2. \A r \in Requests : Busy(r) = FALSE
  BY DEF Init, Server!Init, Server!Blank, Busy
<1>3. CallsOK
  BY <1>2, NoCallFits DEF Init, CallsOK
<1>4. WebOK
  BY NoneApart DEF Init, WebOK, Form, Fresh, NoCookie
<1>5. ClaimEarned
  BY NoneApart DEF Init, ClaimEarned
<1>. QED
  BY <1>1, <1>3, <1>4, <1>5 DEF IInv

\* A step of the browser or the network is a step of the server or none.
LEMMA ServerSteps == IInv /\ [Next]_vars => [Server!Next]_Server!vars
<1> SUFFICES ASSUME IInv, [Next]_vars PROVE [Server!Next]_Server!vars
  OBVIOUS
<1>1. Presented \in SessionIds \cup {None}
  BY DEF Presented, IInv, WebOK
<1>2. ASSUME NEW r \in Requests, NEW to \in Server!Routes, Server!Request(r, to, Presented)
      PROVE  Server!Next
  BY <1>1, <1>2 DEF Server!Next
<1>3. {"protected", "public", "logout"} = Server!Routes
  BY DEF Server!Routes
<1>4. ASSUME NEW r \in Requests,
             \/ Load(r) \/ Again(r)
             \/ handleRequestCode(r) \/ handleVerifyCode(r) \/ handleLogout(r)
      PROVE  Server!Next
  BY <1>2, <1>3, <1>4 DEF Load, Again, handleRequestCode, handleVerifyCode, handleLogout, Send
<1>5. ASSUME NEW r \in Requests, Middleware(r) \/ Answer(r) PROVE Server!Next
  BY <1>5 DEF Middleware, Answer, Server!Next
<1>6. ASSUME NEW r \in Requests, Login(r) PROVE Server!Next
  <2>1. calls[r].email \in Emails
    BY <1>6 DEF Login, IInv, CallsOK, CallFits, Busy
  <2>. QED
    BY <1>6, <2>1 DEF Login, Server!Next
<1>7. CASE Crash \/ Tick
  BY <1>7 DEF Crash, Tick, Server!Next
<1>8. CASE UNCHANGED server
  BY <1>8 DEF server, Server!vars
<1>. QED
  BY <1>4, <1>5, <1>6, <1>7, <1>8
     DEF Next, vars, server, SetCookie, Settle, Lose, EditEmail, Navigate, ChangeEmail

\* What the server does meanwhile.
LEMMA Meanwhile ==
  ASSUME IInv, [Next]_vars
  PROVE  Server!TypeOK' /\ Kept(Users, Users')
<1>1. Server!TypeOK /\ [Server!Next]_Server!vars
  BY ServerSteps DEF IInv
<1>. QED
  BY <1>1, SameUsers DEF Kept, Users

\* The form keeps its place: what is left to show of a step that leaves the
\* page and the session alone.
LEMMA StayInv ==
  ASSUME IInv, UNCHANGED <<session, route>>, Kept(Users, Users'),
         \A r \in Requests :
           CallFits(calls'[r], Busy(r)', Users', LoginPage(session, route), form.email),
         form'.email = form.email \/ form'.email \in Emails
  PROVE  CallsOK' /\ ClaimEarned'
<1>1. LoginPage(session', route') = LoginPage(session, route)
  OBVIOUS
<1>2. ASSUME NEW r \in Requests
      PROVE  CallFits(calls'[r], Busy(r)', Users', LoginPage(session, route), form'.email)
  <2>1. CallFits(calls'[r], Busy(r)', Users', LoginPage(session, route), form.email)
    OBVIOUS
  <2>. QED
    BY <2>1 DEF CallFits
<1>3. ClaimEarned'
  BY NoneApart DEF ClaimEarned, IInv, Kept, Users
<1>. QED
  BY <1>1, <1>2, <1>3 DEF CallsOK

\* What is left to show of a step that renders.
LEMMA RenderInv ==
  ASSUME IInv, NEW s \in Emails \cup {None, "loading"},
         s \in Emails => \E x \in SessionIds : Users'[x] = s,
         NEW path \in {"closed", "/", "/login"},
         NEW f \in Form, f.stage = "code" => f.email \in Emails,
         NEW cs, cs = [r \in Requests |-> cs[r]],
         \A r \in Requests :
           CallFits(cs[r], Busy(r)', Users', LoginPage(session, route), f.email),
         Render(s, path, f, cs)
  PROVE  /\ session' \in Emails \cup {None, "loading"}
         /\ route' \in {"closed", "/", "/login"}
         /\ form' \in Form
         /\ ~LoginPage(session', route') => form' = Fresh
         /\ form'.stage = "code" => form'.email \in Emails
         /\ calls' = [r \in Requests |-> calls'[r]]
         /\ CallsOK' /\ ClaimEarned'
<1>1. session' = s /\ route' = IF s \in Emails THEN "/" ELSE path
  BY DEF Render
<1>2. LoginPage(session', route') <=> LoginPage(s, path)
  BY <1>1, NoneApart DEF LoginPage
<1>3. ClaimEarned'
  BY <1>1 DEF ClaimEarned, Users
<1>4. Fresh \in Form /\ Fresh.stage = "email"
  BY DEF Fresh, Form
<1>5. CASE LoginPage(session, route) /\ LoginPage(s, path)
  <2>1. form' = f /\ calls' = cs
    BY <1>5 DEF Render
  <2>2. LoginPage(session', route') = LoginPage(session, route)
    BY <1>2, <1>5 DEF LoginPage
  <2>3. CallsOK'
    BY <2>1, <2>2 DEF CallsOK
  <2>. QED
    BY <1>1, <1>2, <1>3, <1>5, <2>1, <2>3
<1>6. CASE ~(LoginPage(session, route) /\ LoginPage(s, path))
  <2>1. form' = Fresh /\ calls' = [r \in Requests |-> [cs[r] EXCEPT !.mine = FALSE]]
    BY <1>6 DEF Render
  <2>2. CallsOK'
    BY <2>1, FitsUnmounted DEF CallsOK
  <2>. QED
    BY <1>1, <1>3, <1>4, <2>1, <2>2
<1>. QED
  BY <1>5, <1>6

\* What the lemmas about the actions show of the calls.
CallsFit ==
  \A r \in Requests :
    CallFits(calls'[r], Busy(r)', Users', LoginPage(session, route), form.email)

\* A call that is left alone.
LEMMA KeepOne ==
  ASSUME IInv, Kept(Users, Users'), NEW q \in Requests, Busy(q)' = Busy(q)
  PROVE  CallFits(calls[q], Busy(q)', Users', LoginPage(session, route), form.email)
<1>1. CallFits(calls[q], Busy(q), Users, LoginPage(session, route), form.email)
  BY DEF IInv, CallsOK
<1>2. calls[q].mine => LoginPage(session, route)
  BY <1>1 DEF CallFits
<1>3. CallFits(calls[q], Busy(q), Users', LoginPage(session, route), form.email)
  <2>1. CASE LoginPage(session, route) = TRUE
    BY <1>1, <2>1, FitsLater
  <2>2. CASE ~calls[q].mine
    BY <1>1, <2>2, FitsLater
  <2>. QED
    BY <1>2, <2>1, <2>2 DEF LoginPage
<1>. QED
  BY <1>3

\* A call leaves.
LEMMA SendFits ==
  ASSUME IInv, Kept(Users, Users'), NEW r \in Requests, NEW op \in Ops,
         NEW to, NEW email \in Emails \cup {None}, op = "verifyOtp" => email \in Emails,
         LoginPage(session, route) => form.email \in Emails,
         Send(r, op, to, email)
  PROVE  CallsFit /\ calls' = [q \in Requests |-> calls'[q]]
<1> DEFINE c == [op |-> op, pc |-> "waiting", ok |-> FALSE, email |-> email, login |-> None,
                 mine |-> LoginPage(session, route)]
<1>1. calls' = [calls EXCEPT ![r] = c]
  BY DEF Send
<1>2. \A q \in Requests : calls'[q] = IF q = r THEN c ELSE calls[q]
  BY <1>1 DEF IInv, WebOK
<1>3. /\ \A q \in Requests \ {r} : Busy(q)' = Busy(q)
      /\ Busy(r)' = TRUE
  BY RequestMoves DEF Send, IInv, Moves, Busy
<1>4. c \in Call /\ c.pc = "waiting" /\ c.op = op /\ c.email = email /\ c.login = None /\ ~c.ok
  BY NoneApart DEF Call, Ops, LoginPage
<1>5. c.mine => LoginPage(session, route) /\ form.email \in Emails
  OBVIOUS
<1> HIDE DEF c
<1>6. CallFits(c, TRUE, Users', LoginPage(session, route), form.email)
  BY <1>4, <1>5 DEF CallFits, Ops
<1>7. calls' = [q \in Requests |-> calls'[q]]
  BY <1>1 DEF IInv, WebOK
<1>. QED
  BY <1>2, <1>3, <1>6, <1>7, KeepOne DEF CallsFit

\* A step of LoginPage or AppNav that does not render a new page.
LEMMA FormInv ==
  ASSUME IInv, Server!TypeOK', Kept(Users, Users'), UNCHANGED <<session, route, jar>>,
         smooth' \in BOOLEAN, CallsFit, calls' = [q \in Requests |-> calls'[q]],
         form' \in Form, form'.email = form.email \/ form'.email \in Emails,
         form'.stage = "code" => form'.email \in Emails,
         LoginPage(session, route) \/ form' = form
  PROVE  IInv'
<1>1. CallsOK' /\ ClaimEarned'
  BY StayInv DEF CallsFit
<1>2. LoginPage(session', route') = LoginPage(session, route)
  OBVIOUS
<1>3. ~LoginPage(session', route') => form' = Fresh
  BY <1>2 DEF IInv, WebOK
<1>4. WebOK'
  BY <1>3 DEF IInv, WebOK
<1>. QED
  BY <1>1, <1>4 DEF IInv

LEMMA HandlersInv ==
  ASSUME IInv, Server!TypeOK', Kept(Users, Users'), NEW r \in Requests,
         Again(r) \/ handleRequestCode(r) \/ handleVerifyCode(r) \/ handleLogout(r)
  PROVE  IInv'
<1>1. form \in Form /\ smooth \in BOOLEAN /\ (form.stage = "code" => form.email \in Emails)
  BY DEF IInv, WebOK
<1>2. form.email \in Emails \cup {None} /\ form.stage \in {"email", "code"}
  BY <1>1 DEF Form
<1> DEFINE f == [form EXCEPT !.submitting = TRUE]
<1>3. f \in Form /\ f.email = form.email /\ f.stage = form.stage
  BY <1>1 DEF Form
<1> HIDE DEF f
<1>4. CASE handleRequestCode(r)
  <2>1. form.email \in Emails /\ Send(r, "requestOtp", "public", form.email)
    BY <1>2, <1>4 DEF handleRequestCode
  <2>2. CallsFit /\ calls' = [q \in Requests |-> calls'[q]]
    BY <2>1, SendFits DEF Ops
  <2>3. form' = f /\ UNCHANGED <<session, route, jar, smooth>> /\ LoginPage(session, route)
    BY <1>4 DEF handleRequestCode, f
  <2>. QED
    BY <1>1, <1>3, <2>1, <2>2, <2>3, FormInv
<1>5. CASE handleVerifyCode(r)
  <2>1. form.email \in Emails /\ Send(r, "verifyOtp", "public", form.email)
    BY <1>1, <1>5 DEF handleVerifyCode
  <2>2. CallsFit /\ calls' = [q \in Requests |-> calls'[q]]
    BY <2>1, SendFits DEF Ops
  <2>3. /\ form' = f /\ UNCHANGED <<session, route, jar>> /\ LoginPage(session, route)
        /\ smooth' \in BOOLEAN
    BY <1>1, <1>5 DEF handleVerifyCode, f
  <2>. QED
    BY <1>1, <1>3, <2>1, <2>2, <2>3, FormInv
<1>6. CASE handleLogout(r)
  <2>1. ~LoginPage(session, route) /\ Send(r, "logout", "logout", None)
    BY <1>6 DEF handleLogout, LoginPage
  <2>2. CallsFit /\ calls' = [q \in Requests |-> calls'[q]]
    BY <2>1, SendFits DEF Ops
  <2>3. UNCHANGED <<session, route, form, jar>> /\ smooth' \in BOOLEAN
    BY <1>1, <1>6 DEF handleLogout, react
  <2>. QED
    BY <1>1, <2>2, <2>3, FormInv
<1>7. CASE Again(r)
  <2>1. ~LoginPage(session, route) /\ Send(r, "me", "protected", None)
    BY <1>7, NoneApart DEF Again, LoginPage
  <2>2. CallsFit /\ calls' = [q \in Requests |-> calls'[q]]
    BY <2>1, SendFits DEF Ops
  <2>3. UNCHANGED <<session, route, form, jar, smooth>>
    BY <1>7 DEF Again, react
  <2>. QED
    BY <1>1, <2>2, <2>3, FormInv
<1>. QED
  BY <1>4, <1>5, <1>6, <1>7

\* Typing.
LEMMA EditInv ==
  ASSUME IInv, Server!TypeOK', Kept(Users, Users'),
         ChangeEmail \/ \E email \in Emails : EditEmail(email)
  PROVE  IInv'
<1>1. form \in Form /\ smooth \in BOOLEAN /\ calls = [r \in Requests |-> calls[r]]
  BY DEF IInv, WebOK
<1>2. UNCHANGED <<session, route, jar, calls, smooth, h>> /\ LoginPage(session, route)
  BY DEF ChangeEmail, EditEmail, server
<1>3. CallsFit
  BY <1>2, KeepOne DEF CallsFit, Busy
<1>4. /\ form' \in Form /\ form'.stage = "email"
      /\ form'.email = form.email \/ form'.email \in Emails
  BY <1>1 DEF ChangeEmail, EditEmail, Form
<1>. QED
  BY <1>1, <1>2, <1>3, <1>4, FormInv

\* A step that leaves the page alone.
LEMMA IdleInv ==
  ASSUME IInv, Server!TypeOK', Kept(Users, Users'), UNCHANGED react,
         jar' \in [session : SessionIds \cup {None}, until : Nat], smooth' \in BOOLEAN,
         CallsFit, calls' = [q \in Requests |-> calls'[q]]
  PROVE  IInv'
<1>1. UNCHANGED <<session, route, form>>
  BY DEF react
<1>2. CallsOK' /\ ClaimEarned'
  BY <1>1, StayInv DEF CallsFit
<1>3. WebOK'
  BY <1>1 DEF IInv, WebOK, LoginPage
<1>. QED
  BY <1>2, <1>3 DEF IInv

\* One call changes, and its handler alone may.
LEMMA ChangeOne ==
  ASSUME IInv, Kept(Users, Users'), NEW r \in Requests,
         \A q \in Requests \ {r} : Busy(q)' = Busy(q) /\ calls'[q] = calls[q],
         CallFits(calls'[r], Busy(r)', Users', LoginPage(session, route), form.email)
  PROVE  CallsFit
BY KeepOne DEF CallsFit

LEMMA PageTypes ==
  ASSUME IInv
  PROVE  /\ jar \in [session : SessionIds \cup {None}, until : Nat] /\ smooth \in BOOLEAN
         /\ DOMAIN calls = Requests /\ calls = [r \in Requests |-> calls[r]]
         /\ \A r \in Requests :
              CallFits(calls[r], Busy(r), Users, LoginPage(session, route), form.email)
BY DEF IInv, WebOK, CallsOK

\* Middleware.
LEMMA MiddlewareInv ==
  ASSUME IInv, Server!TypeOK', Kept(Users, Users'), NEW r \in Requests, Middleware(r)
  PROVE  IInv'
<1>1. UNCHANGED <<react, jar, calls, smooth>>
  BY DEF Middleware
<1>2. \A q \in Requests : Busy(q)' = Busy(q)
  BY MiddlewareMoves DEF IInv, Moves, Busy
<1>3. CallsFit
  BY <1>1, <1>2, KeepOne DEF CallsFit
<1>. QED
  BY <1>1, <1>3, PageTypes, IdleInv

LEMMA TickInv ==
  ASSUME IInv, Server!TypeOK', Kept(Users, Users'), Tick
  PROVE  IInv'
<1>1. UNCHANGED <<react, jar, calls, smooth, h>>
  BY DEF Tick, Server!Tick
<1>2. CallsFit
  BY <1>1, KeepOne DEF CallsFit, Busy
<1>. QED
  BY <1>1, <1>2, PageTypes, IdleInv

LEMMA LoginInv ==
  ASSUME IInv, Server!TypeOK', Kept(Users, Users'), NEW r \in Requests, Login(r)
  PROVE  IInv'
<1>1. PICK s \in SessionIds : /\ Server!CreateSession(s, calls[r].email)
                              /\ calls' = [calls EXCEPT ![r].login = s]
  BY DEF Login
<1>2. calls[r].op = "verifyOtp" /\ Busy(r) /\ UNCHANGED <<react, jar, smooth>>
  BY DEF Login, Busy
<1>3. calls[r].email \in Emails
  BY <1>2, PageTypes DEF CallFits
<1>4. Users'[s] = calls[r].email /\ UNCHANGED h
  BY <1>1, <1>3, CreateMoves DEF IInv, Users
<1>5. CallFits(calls[r], Busy(r)', Users', LoginPage(session, route), form.email)
  BY <1>4, KeepOne DEF Busy
<1> DEFINE c == [calls[r] EXCEPT !.login = s]
<1>6. calls[r] \in Call
  BY PageTypes DEF CallFits
<1>7. /\ c \in Call /\ c.pc = calls[r].pc /\ c.op = calls[r].op /\ c.ok = calls[r].ok
      /\ c.email = calls[r].email /\ c.login = s /\ c.mine = calls[r].mine
  BY <1>6 DEF Call
<1>8. calls' = [calls EXCEPT ![r] = c]
  BY <1>1, PageTypes
<1> HIDE DEF c
<1>9. CallFits(c, Busy(r)', Users', LoginPage(session, route), form.email)
  BY <1>2, <1>3, <1>4, <1>5, <1>7 DEF CallFits
<1>10. CallsFit
  BY <1>4, <1>8, <1>9, PageTypes, ChangeOne DEF Busy
<1>11. calls' = [q \in Requests |-> calls'[q]]
  BY <1>8, PageTypes
<1>. QED
  BY <1>2, <1>10, <1>11, PageTypes, IdleInv
\* The browser takes the headers of an answer.
LEMMA SetCookieInv ==
  ASSUME IInv, Server!TypeOK', Kept(Users, Users'), NEW r \in Requests, SetCookie(r)
  PROVE  IInv'
<1>1. UNCHANGED <<now, sessions, h, react, smooth>> /\ calls[r].pc = "answered"
  BY DEF SetCookie, server
<1> DEFINE c == [calls[r] EXCEPT !.pc = "arrived"]
<1>2. CallFits(calls[r], Busy(r)', Users', LoginPage(session, route), form.email)
  BY <1>1, KeepOne DEF Busy
<1>3. calls[r] \in Call /\ ~Busy(r)'
  BY <1>1, <1>2 DEF CallFits
<1>4. /\ c \in Call /\ c.pc = "arrived" /\ c.op = calls[r].op /\ c.ok = calls[r].ok
      /\ c.email = calls[r].email /\ c.login = calls[r].login /\ c.mine = calls[r].mine
  BY <1>3 DEF Call
<1>5. calls' = [calls EXCEPT ![r] = c]
  BY PageTypes DEF SetCookie
<1> HIDE DEF c
<1>6. CallFits(c, Busy(r)', Users', LoginPage(session, route), form.email)
  BY <1>2, <1>3, <1>4 DEF CallFits
<1>7. CallsFit
  BY <1>1, <1>5, <1>6, PageTypes, ChangeOne DEF Busy
<1>8. calls' = [q \in Requests |-> calls'[q]]
  BY <1>5, PageTypes
<1>9. jar' \in [session : SessionIds \cup {None}, until : Nat]
  <2>1. now + sessionTTL \in Nat
    BY Served, BoundsAssumption DEF IInv
  <2>2. calls[r].login \in SessionIds \cup {None}
    BY <1>3 DEF Call
  <2>. QED
    BY <2>1, <2>2, PageTypes DEF SetCookie, NoCookie
<1>. QED
  BY <1>1, <1>7, <1>8, <1>9, PageTypes, IdleInv

LEMMA LoseInv ==
  ASSUME IInv, Server!TypeOK', Kept(Users, Users'), NEW r \in Requests, Lose(r)
  PROVE  IInv'
<1>1. /\ UNCHANGED <<h, react, jar>> /\ calls[r].pc \in {"waiting", "answered", "arrived"}
      /\ smooth' \in BOOLEAN
  BY PageTypes DEF Lose, server
<1>2. CallFits(calls[r], Busy(r)', Users', LoginPage(session, route), form.email)
  BY <1>1, KeepOne DEF Busy
<1> DEFINE c == IF calls[r].pc = "waiting" THEN [calls[r] EXCEPT !.pc = "lost"]
                ELSE Unanswered(r)
<1>3. calls' = [calls EXCEPT ![r] = c]
  BY PageTypes DEF Lose
<1>4. CallFits(c, Busy(r)', Users', LoginPage(session, route), form.email)
  <2>1. CASE calls[r].pc = "waiting"
    <3> DEFINE d == [calls[r] EXCEPT !.pc = "lost"]
    <3>1. calls[r] \in Call
      BY <1>2 DEF CallFits
    <3>2. /\ d \in Call /\ d.pc = "lost" /\ d.op = calls[r].op /\ d.ok = calls[r].ok
          /\ d.email = calls[r].email /\ d.login = calls[r].login /\ d.mine = calls[r].mine
      BY <3>1 DEF Call
    <3> HIDE DEF d
    <3>3. CallFits(d, Busy(r)', Users', LoginPage(session, route), form.email)
      BY <1>2, <3>2 DEF CallFits
    <3>. QED
      BY <2>1, <3>3 DEF d
  <2>2. CASE calls[r].pc # "waiting"
    <3>1. Busy(r)' = FALSE
      BY <1>1, <1>2, <2>2 DEF CallFits, Busy
    <3>. QED
      BY <1>2, <2>2, <3>1, FitsUnanswered
  <2>. QED
    BY <2>1, <2>2
<1> HIDE DEF c
<1>5. CallsFit
  BY <1>1, <1>3, <1>4, PageTypes, ChangeOne DEF Busy
<1>6. calls' = [q \in Requests |-> calls'[q]]
  BY <1>3, PageTypes
<1>. QED
  BY <1>1, <1>5, <1>6, PageTypes, IdleInv

LEMMA CrashInv ==
  ASSUME IInv, Server!TypeOK', Kept(Users, Users'), Crash
  PROVE  IInv'
<1>1. UNCHANGED <<react, jar, smooth>>
  BY DEF Crash
<1>2. \A r \in Requests : Busy(r)' = FALSE
  BY DEF Crash, Server!Crash, Server!Blank, Busy
<1>3. ASSUME NEW r \in Requests
      PROVE  CallFits(calls'[r], FALSE, Users', LoginPage(session, route), form.email)
  <2>1. CallFits(calls[r], Busy(r), Users, LoginPage(session, route), form.email)
    BY PageTypes
  <2>2. CallFits(calls[r], Busy(r), Users', LoginPage(session, route), form.email)
    <3>1. CASE LoginPage(session, route) = TRUE
      BY <2>1, <3>1, FitsLater
    <3>2. CASE ~calls[r].mine
      BY <2>1, <3>2, FitsLater
    <3>. QED
      BY <2>1, <3>1, <3>2 DEF LoginPage, CallFits
  <2>3. CASE calls[r].pc \in {"waiting", "lost"}
    BY <2>2, <2>3, FitsUnanswered DEF Crash
  <2>4. CASE calls[r].pc = "gone"
    BY <2>4, NoCallFits DEF Crash
  <2>5. CASE calls[r].pc \notin {"waiting", "lost", "gone"}
    <3>1. calls'[r] = calls[r]
      BY <2>5 DEF Crash
    <3>. QED
      BY <2>2, <2>5, <3>1 DEF CallFits
  <2>. QED
    BY <2>3, <2>4, <2>5
<1>4. CallsFit
  BY <1>2, <1>3 DEF CallsFit
<1>5. calls' = [q \in Requests |-> calls'[q]]
  BY DEF Crash
<1>. QED
  BY <1>1, <1>4, <1>5, PageTypes, IdleInv
LEMMA AnswerInv ==
  ASSUME IInv, Server!TypeOK', Kept(Users, Users'), NEW r \in Requests, Answer(r)
  PROVE  IInv'
<1> DEFINE op == calls[r].op
           Can == CASE op = "me" -> h[r].user # None
                    [] op = "verifyOtp" -> calls[r].login # None
                    [] OTHER -> TRUE
           next(ok) == CASE calls[r].pc = "waiting" ->
                              [calls[r] EXCEPT
                                 !.pc = IF op \in CookieOps THEN "answered" ELSE "arrived",
                                 !.ok = ok, !.email = IF op = "me" THEN h[r].user ELSE calls[r].email]
                         [] calls[r].pc = "lost" -> Unanswered(r)
                         [] calls[r].pc = "gone" -> NoCall
<1>1. Server!Handle(r) \/ Server!Logout(r)
  BY DEF Answer
<1>2. PICK ok \in BOOLEAN : (ok => Can) /\ calls' = [calls EXCEPT ![r] = next(ok)]
  BY DEF Answer
<1>3. UNCHANGED <<react, jar, smooth>>
  BY DEF Answer
<1>4. Server!TypeOK
  BY DEF IInv
<1>5. h[r].pc = "serve" /\ Moves(r, Server!Blank) /\ Server!Blank.pc = "idle"
  BY <1>1, <1>4, AnswerMoves
<1>6. Busy(r) = TRUE /\ Busy(r)' = FALSE /\ \A q \in Requests \ {r} : Busy(q)' = Busy(q)
  BY <1>5 DEF Moves, Busy
<1>7. CallFits(calls[r], TRUE, Users, LoginPage(session, route), form.email)
  BY <1>6, PageTypes
<1>8. calls[r] \in Call /\ calls[r].pc \in {"waiting", "lost", "gone"} /\ op \in Ops
  BY <1>7 DEF CallFits
<1>9. CallFits(next(ok), FALSE, Users, LoginPage(session, route), form.email)
  <2>1. CASE calls[r].pc = "waiting"
    <3> DEFINE c == [calls[r] EXCEPT
                       !.pc = IF op \in CookieOps THEN "answered" ELSE "arrived",
                       !.ok = ok, !.email = IF op = "me" THEN h[r].user ELSE calls[r].email]
    <3>1. h[r].user \in Emails \cup {None}
      BY <1>4, Served
    <3>2. /\ c \in Call /\ c.pc # "waiting" /\ c.op = op /\ c.ok = ok
          /\ c.email = IF op = "me" THEN h[r].user ELSE calls[r].email
          /\ c.login = calls[r].login /\ c.mine = calls[r].mine
      BY <1>8, <3>1 DEF Call
    <3>3. next(ok) = c
      BY <2>1
    <3>4. ASSUME ok, op = "me"
          PROVE  c.email \in Emails /\ \E s \in SessionIds : Users[s] = c.email
      <4>1. h[r].user # None /\ c.email = h[r].user
        BY <1>2, <3>2, <3>4
      <4>2. h[r].cookie \in SessionIds /\ sessions[h[r].cookie].user = h[r].user
        BY <1>4, <4>1, Served
      <4>. QED
        BY <3>1, <4>1, <4>2 DEF Users
    <3>5. ASSUME ok, op = "verifyOtp"
          PROVE  c.email \in Emails /\ \E s \in SessionIds : Users[s] = c.email
      <4>1. calls[r].login # None /\ c.email = calls[r].email
        BY <1>2, <3>2, <3>5
      <4>2. calls[r].login \in SessionIds
        BY <1>8, <4>1 DEF Call
      <4>. QED
        BY <1>7, <4>1, <4>2 DEF CallFits
    <3> HIDE DEF c, next, Can
    <3>6. CallFits(c, FALSE, Users, LoginPage(session, route), form.email)
      BY <1>7, <3>2, <3>4, <3>5 DEF CallFits
    <3>. QED
      BY <3>3, <3>6
  <2>2. CASE calls[r].pc = "lost"
    BY <1>7, <2>2, FitsUnanswered
  <2>3. CASE calls[r].pc = "gone"
    BY <2>3, NoCallFits
  <2>. QED
    BY <1>8, <2>1, <2>2, <2>3
<1> HIDE DEF next, Can
<1>10. CallFits(next(ok), FALSE, Users', LoginPage(session, route), form.email)
  <2>1. CASE LoginPage(session, route) = TRUE
    BY <1>9, <2>1, FitsLater
  <2>2. CASE ~next(ok).mine
    BY <1>9, <2>2, FitsLater
  <2>. QED
    BY <1>9, <2>1, <2>2 DEF LoginPage, CallFits
<1>11. CallsFit
  BY <1>2, <1>6, <1>10, PageTypes, ChangeOne
<1>12. calls' = [q \in Requests |-> calls'[q]]
  BY <1>2, PageTypes
<1>. QED
  BY <1>3, <1>11, <1>12, PageTypes, IdleInv

\* What RenderInv leaves of the invariant.
LEMMA RenderedInv ==
  ASSUME IInv, Server!TypeOK', NEW s \in Emails \cup {None, "loading"},
         s \in Emails => \E x \in SessionIds : Users'[x] = s,
         NEW path \in {"closed", "/", "/login"},
         NEW f \in Form, f.stage = "code" => f.email \in Emails,
         NEW cs, cs = [r \in Requests |-> cs[r]],
         \A r \in Requests :
           CallFits(cs[r], Busy(r)', Users', LoginPage(session, route), f.email),
         Render(s, path, f, cs), UNCHANGED <<jar, smooth>>
  PROVE  IInv'
<1>1. /\ session' \in Emails \cup {None, "loading"}
      /\ route' \in {"closed", "/", "/login"}
      /\ form' \in Form
      /\ ~LoginPage(session', route') => form' = Fresh
      /\ form'.stage = "code" => form'.email \in Emails
      /\ calls' = [r \in Requests |-> calls'[r]]
      /\ CallsOK' /\ ClaimEarned'
  BY RenderInv
<1>2. WebOK'
  BY <1>1, PageTypes DEF WebOK
<1>. QED
  BY <1>1, <1>2 DEF IInv

\* Somebody the page names has a session, now and later.
LEMMA StillEarned ==
  ASSUME IInv, Kept(Users, Users')
  PROVE  session \in Emails => \E x \in SessionIds : Users'[x] = session
BY NoneApart DEF IInv, ClaimEarned, Kept, Users

LEMMA NavigateInv ==
  ASSUME IInv, Server!TypeOK', Kept(Users, Users'), Navigate
  PROVE  IInv'
<1>1. /\ session \in Emails \cup {None, "loading"} /\ form \in Form
      /\ form.stage = "code" => form.email \in Emails
  BY DEF IInv, WebOK
<1>2. UNCHANGED <<h, jar, smooth>>
  BY DEF Navigate, server
<1>3. PICK path \in {"/", "/login"} : Render(session, path, form, calls)
  BY DEF Navigate
<1>4. \A q \in Requests :
        CallFits(calls[q], Busy(q)', Users', LoginPage(session, route), form.email)
  BY <1>2, KeepOne DEF Busy
<1>. QED
  BY <1>1, <1>2, <1>3, <1>4, PageTypes, StillEarned, RenderedInv

\* What a promise that settles changes of the page.
LEMMA SettleInv ==
  ASSUME IInv, Server!TypeOK', Kept(Users, Users'), NEW r \in Requests, Settle(r)
  PROVE  IInv'
<1> DEFINE s == Known(r, Resolved(r))
           f == Settled(r, Resolved(r))
           cs == [calls EXCEPT ![r] = Forgotten(r)]
<1>1. UNCHANGED <<h, jar, smooth>> /\ Render(s, route, f, cs)
  BY DEF Settle, server
<1>2. /\ session \in Emails \cup {None, "loading"} /\ route \in {"closed", "/", "/login"}
      /\ form \in Form /\ (form.stage = "code" => form.email \in Emails)
  BY DEF IInv, WebOK
<1>3. CallFits(calls[r], Busy(r), Users', LoginPage(session, route), form.email)
  BY <1>1, KeepOne DEF Busy
<1>4. s \in Emails \cup {None, "loading"} /\ (s \in Emails => \E x \in SessionIds : Users'[x] = s)
  <2>1. CASE calls[r].op \in {"me", "verifyOtp"} /\ Resolved(r)
    <3>1. s = calls[r].email /\ calls[r].ok
      BY <2>1 DEF Known, Identity, Resolved
    <3>. QED
      BY <1>3, <2>1, <3>1 DEF CallFits
  <2>2. CASE ~(calls[r].op \in {"me", "verifyOtp"} /\ Resolved(r))
    <3>1. s \in {None, session}
      BY <2>2 DEF Known
    <3>. QED
      BY <1>2, <3>1, NoneApart, StillEarned
  <2>. QED
    BY <2>1, <2>2
<1>5. f \in Form /\ f.email = form.email /\ (f.stage = "code" => f.email \in Emails)
  <2>1. CASE calls[r].mine
    <3>1. form.email \in Emails
      BY <1>3, <2>1 DEF CallFits
    <3>. QED
      BY <1>2, <2>1, <3>1 DEF Settled, Form
  <2>2. CASE ~calls[r].mine
    BY <1>2, <2>2 DEF Settled
  <2>. QED
    BY <2>1, <2>2
<1>6. CallFits(Forgotten(r), Busy(r), Users', LoginPage(session, route), form.email)
  <2>1. CASE h[r].pc = "idle"
    <3>1. Busy(r) = FALSE /\ Forgotten(r) = NoCall
      BY <2>1 DEF Busy, Forgotten
    <3>. QED
      BY <3>1, NoCallFits
  <2>2. CASE h[r].pc # "idle"
    BY <1>3, <2>2, FitsForgotten DEF Forgotten
  <2>. QED
    BY <2>1, <2>2
<1>7. \A q \in Requests : cs[q] = IF q = r THEN Forgotten(r) ELSE calls[q]
  BY PageTypes
<1>8. cs = [q \in Requests |-> cs[q]]
  BY PageTypes
<1> HIDE DEF s, f, cs
<1>9. \A q \in Requests :
        CallFits(cs[q], Busy(q)', Users', LoginPage(session, route), f.email)
  BY <1>1, <1>5, <1>6, <1>7, KeepOne DEF Busy
<1>. QED
  BY <1>1, <1>2, <1>4, <1>5, <1>8, <1>9, RenderedInv

LEMMA LoadInv ==
  ASSUME IInv, Server!TypeOK', Kept(Users, Users'), NEW r \in Requests, Load(r)
  PROVE  IInv'
<1>1. /\ session' = "loading" /\ form' = Fresh /\ route' \in {"/", "/login"}
      /\ smooth' = TRUE /\ jar' = jar
      /\ calls' = [q \in Requests |->
           IF q = r THEN [NoCall EXCEPT !.op = "me", !.pc = "waiting"] ELSE Forgotten(q)]
  BY DEF Load
<1>2. ~LoginPage(session', route')
  BY <1>1, NoneApart DEF LoginPage
<1>3. Busy(r)' = TRUE /\ \A q \in Requests \ {r} : Busy(q)' = Busy(q)
  BY RequestMoves DEF Load, IInv, Moves, Busy
<1>4. CallFits([NoCall EXCEPT !.op = "me", !.pc = "waiting"], TRUE, Users', FALSE, Fresh.email)
  BY NoneApart DEF NoCall, CallFits, Call, Ops
<1>5. ASSUME NEW q \in Requests \ {r}
      PROVE  CallFits(Forgotten(q), Busy(q)', Users', FALSE, Fresh.email)
  <2>1. CallFits(calls[q], Busy(q), Users', LoginPage(session, route), form.email)
    BY <1>3, <1>5, KeepOne
  <2>2. CASE h[q].pc = "idle"
    <3>1. Busy(q) = FALSE /\ Forgotten(q) = NoCall
      BY <2>2 DEF Busy, Forgotten
    <3>. QED
      BY <1>3, <1>5, <3>1, NoCallFits
  <2>3. CASE h[q].pc # "idle"
    <3>1. CallFits([calls[q] EXCEPT !.pc = "gone", !.mine = FALSE], Busy(q), Users', FALSE, Fresh.email)
      BY <2>1, FitsForgotten
    <3>. QED
      BY <1>3, <1>5, <2>3, <3>1 DEF Forgotten
  <2>. QED
    BY <2>2, <2>3
<1>6. CallsOK'
  <2>1. LoginPage(session', route') = FALSE
    BY <1>2 DEF LoginPage
  <2>. QED
    BY <1>1, <1>3, <1>4, <1>5, <2>1 DEF CallsOK
<1>7. WebOK'
  BY <1>1, <1>2, PageTypes DEF WebOK, Fresh, Form
<1>8. ClaimEarned'
  BY <1>1, NoneApart DEF ClaimEarned
<1>. QED
  BY <1>6, <1>7, <1>8 DEF IInv
LEMMA NextInv == IInv /\ [Next]_vars => IInv'
<1> SUFFICES ASSUME IInv, [Next]_vars PROVE IInv'
  OBVIOUS
<1>1. Server!TypeOK' /\ Kept(Users, Users')
  BY Meanwhile
<1>2. ASSUME NEW r \in Requests,
             \/ Load(r) \/ Again(r)
             \/ handleRequestCode(r) \/ handleVerifyCode(r) \/ handleLogout(r)
             \/ Middleware(r) \/ Login(r) \/ Answer(r) \/ SetCookie(r) \/ Settle(r) \/ Lose(r)
      PROVE  IInv'
  BY <1>1, <1>2, LoadInv, HandlersInv, MiddlewareInv, LoginInv, AnswerInv, SetCookieInv,
     SettleInv, LoseInv
<1>3. CASE (\E email \in Emails : EditEmail(email)) \/ ChangeEmail
  BY <1>1, <1>3, EditInv
<1>4. CASE Navigate \/ Crash \/ Tick
  BY <1>1, <1>4, NavigateInv, CrashInv, TickInv
<1>5. CASE UNCHANGED vars
  <2>1. UNCHANGED <<h, react, jar, calls, smooth>>
    BY <1>5 DEF vars, server
  <2>2. CallsFit
    BY <1>1, <2>1, KeepOne DEF CallsFit, Busy
  <2>. QED
    BY <1>1, <2>1, <2>2, PageTypes, IdleInv
<1>. QED
  BY <1>2, <1>3, <1>4, <1>5 DEF Next

LEMMA Invariance == Spec => []IInv
BY InitInv, NextInv, PTL DEF Spec

\* TypeOK: the page, its cookie and the calls in flight keep their types; a call
\* the page waits for is a request the server works at.
THEOREM TypesHold == Spec => []TypeOK
BY Invariance, InvTypes, PTL

\* ClaimEarned: the page names nobody for whom no session was opened, whatever
\* is typed into its form (handleVerifyCode of LoginPage.tsx) and whatever comes
\* late.
THEOREM ClaimsEarned == Spec => []ClaimEarned
<1>1. IInv => ClaimEarned
  BY DEF IInv
<1>. QED
  BY <1>1, Invariance, PTL

\* The browsers' calls are requests of Sessions: what SessionsProofs shows of its
\* Spec holds of the server here.
THEOREM ServerRefined == Spec => Server!Spec
<1>1. Init => Server!Init
  BY DEF Init
<1>2. Spec => [][Server!Next]_Server!vars
  BY Invariance, ServerSteps, PTL DEF Spec
<1>. QED
  BY <1>1, <1>2, PTL DEF Spec, Server!Spec
-----------------------------------------------------------------------------
(* Who decides what the page says                                          *)

\* Somebody waits for the call of r.
Live(r) == calls[r].pc # "gone"

\* The cookie is a session of email.
Named(email) == jar.session # None /\ Users[jar.session] = email

\* While the page is loading nothing but me is waited for.
First == session = "loading" => \A r \in Requests : Live(r) => calls[r].op = "me"

\* me reads the cookie that is there when it answers, unless it was overtaken;
\* what the other answers say.
Tells(r) ==
  /\ smooth /\ Live(r) /\ calls[r].op = "me" /\ Busy(r) => h[r].cookie \in {None, jar.session}
  /\ smooth /\ calls[r].pc = "arrived" /\ calls[r].ok /\ calls[r].op = "me" =>
       Named(calls[r].email)
  /\ calls[r].ok /\ calls[r].op = "verifyOtp" => calls[r].login # None
  /\ calls[r].op = "logout" /\ calls[r].pc \in {"answered", "arrived"} => calls[r].ok
  /\ calls[r].pc = "answered" => calls[r].op \in CookieOps

\* One login or one logout at a time, and no me with it.
OneAtATime ==
  /\ \A r \in Requests : Live(r) =>
       /\ calls[r].op = "verifyOtp" => session = None
       /\ calls[r].op = "logout" => session \in Emails
  /\ \A r, q \in Requests :
       Live(r) /\ Live(q) /\ calls[r].op = calls[q].op /\ calls[r].op \in CookieOps => r = q
  /\ \A r, q \in Requests :
       Live(r) /\ Live(q) /\ calls[r].op = "me" => calls[q].op \notin CookieOps
  /\ \A r \in Requests :
       calls[r].op = "verifyOtp" /\ calls[r].pc = "arrived" /\ calls[r].ok =>
         Named(calls[r].email)
  /\ session \in Emails =>
       \/ Named(session)
       \/ \E r \in Requests : calls[r].op = "logout" /\ calls[r].pc = "arrived"

TellsOK == \A r \in Requests : Tells(r)

JInv == IInv /\ First /\ TellsOK /\ (smooth => OneAtATime)

\* Nobody waits for more calls than before.
Carried ==
  \A r \in Requests : calls'[r].pc # "gone" => Live(r) /\ calls'[r].op = calls[r].op

\* The call of r and its handler's cookie stay as they are.
Same(r) ==
  /\ calls'[r].pc = calls[r].pc /\ calls'[r].op = calls[r].op /\ calls'[r].ok = calls[r].ok
  /\ calls'[r].email = calls[r].email /\ calls'[r].login = calls[r].login
  /\ Busy(r)' => Busy(r) /\ h'[r].cookie = h[r].cookie

\* The answers that are in stay in, and none comes in.
AnswersStay ==
  /\ \A r \in Requests : calls'[r].op = "verifyOtp" /\ calls'[r].pc = "arrived" /\ calls'[r].ok =>
       /\ calls[r].op = "verifyOtp" /\ calls[r].pc = "arrived" /\ calls[r].ok
       /\ calls'[r].email = calls[r].email
  /\ smooth' => \A r \in Requests : calls[r].op = "logout" /\ calls[r].pc = "arrived" =>
       calls'[r].op = "logout" /\ calls'[r].pc = "arrived"

LEMMA AnswerIsEmail ==
  ASSUME IInv, NEW r \in Requests, calls[r].ok, calls[r].op \in {"me", "verifyOtp"}
  PROVE  calls[r].email \in Emails
BY PageTypes DEF CallFits

LEMMA NamedLater ==
  ASSUME IInv, Kept(Users, Users'), jar' = jar, NEW email \in Emails, Named(email)
  PROVE  jar'.session # None /\ Users'[jar'.session] = email
<1>1. jar.session \in SessionIds
  BY PageTypes DEF Named
<1>. QED
  BY <1>1, NoneApart DEF Named, Kept

LEMMA FirstLater ==
  ASSUME First, session' = session, Carried
  PROVE  First'
BY DEF First, Carried, Live

LEMMA TellsLater ==
  ASSUME JInv, Kept(Users, Users'), jar' = jar, smooth' => smooth, NEW r \in Requests, Same(r)
  PROVE  Tells(r)'
<1>1. Tells(r) /\ IInv
  BY DEF JInv, TellsOK
<1>2. ASSUME smooth, calls[r].pc = "arrived", calls[r].ok, calls[r].op = "me"
      PROVE  jar'.session # None /\ Users'[jar'.session] = calls[r].email
  BY <1>1, <1>2, AnswerIsEmail, NamedLater DEF Tells
<1>. QED
  BY <1>1, <1>2 DEF Tells, Same, Live, Named

LEMMA OneLater ==
  ASSUME JInv, Kept(Users, Users'), jar' = jar, session' = session, smooth' => smooth,
         Carried, AnswersStay
  PROVE  smooth' => OneAtATime'
<1> SUFFICES ASSUME smooth' PROVE OneAtATime'
  OBVIOUS
<1>1. OneAtATime /\ IInv
  BY DEF JInv
<1>2. ASSUME NEW r \in Requests, calls'[r].op = "verifyOtp", calls'[r].pc = "arrived",
             calls'[r].ok
      PROVE  jar'.session # None /\ Users'[jar'.session] = calls'[r].email
  <2>1. /\ calls[r].op = "verifyOtp" /\ calls[r].pc = "arrived" /\ calls[r].ok
        /\ calls'[r].email = calls[r].email
    BY <1>2 DEF AnswersStay
  <2>2. Named(calls[r].email) /\ calls[r].email \in Emails
    BY <1>1, <2>1, AnswerIsEmail DEF OneAtATime
  <2>. QED
    BY <1>1, <2>1, <2>2, NamedLater
<1>3. session \in Emails /\ Named(session) => Named(session)'
  <2>1. ASSUME session \in Emails, Named(session)
        PROVE  jar'.session # None /\ Users'[jar'.session] = session'
    BY <1>1, <2>1, NamedLater
  <2>. QED
    BY <2>1 DEF Named
<1>4. session' \in Emails =>
        \/ Named(session)'
        \/ \E r \in Requests : calls'[r].op = "logout" /\ calls'[r].pc = "arrived"
  BY <1>1, <1>3 DEF OneAtATime, AnswersStay
<1>5. \A r \in Requests : Live(r)' => Live(r) /\ calls'[r].op = calls[r].op
  BY DEF Carried, Live
<1>. QED
  BY <1>1, <1>2, <1>4, <1>5 DEF OneAtATime, Named

\* A step that changes nobody's mind.
LEMMA QuietInv ==
  ASSUME JInv, IInv', Kept(Users, Users'), jar' = jar, session' = session, smooth' => smooth,
         Carried, AnswersStay, TellsOK'
  PROVE  JInv'
<1>1. First'
  BY FirstLater DEF JInv
<1>. QED
  BY <1>1, OneLater DEF JInv
\* A step in which every call and its cookie stay.
LEMMA SameInv ==
  ASSUME JInv, IInv', Kept(Users, Users'), jar' = jar, session' = session, smooth' => smooth,
         \A r \in Requests : Same(r)
  PROVE  JInv'
<1>1. Carried /\ AnswersStay
  BY DEF Carried, AnswersStay, Same, Live
<1>2. TellsOK'
  BY TellsLater DEF TellsOK
<1>. QED
  BY <1>1, <1>2, QuietInv

LEMMA MiddlewareTells ==
  ASSUME JInv, IInv', Kept(Users, Users'), NEW r \in Requests, Middleware(r)
  PROVE  JInv'
<1>1. UNCHANGED <<session, jar, calls, smooth>>
  BY DEF Middleware, react
<1>2. Server!TypeOK
  BY DEF JInv, IInv
<1>3. \A q \in Requests : Same(q)
  <2>1. PICK new : Moves(r, new) /\ new.pc # "idle" /\ new.cookie = h[r].cookie
    BY <1>2, MiddlewareMoves
  <2>2. h[r].pc # "idle"
    BY <1>2, MiddlewareMoves
  <2>. QED
    BY <1>1, <2>1, <2>2 DEF Same, Moves, Busy
<1>. QED
  BY <1>1, <1>3, SameInv

\* Time, typing and a change of page.
LEMMA EditTells ==
  ASSUME JInv, IInv', Kept(Users, Users'),
         Tick \/ ChangeEmail \/ (\E email \in Emails : EditEmail(email)) \/ UNCHANGED vars
  PROVE  JInv'
<1>1. UNCHANGED <<session, jar, calls, smooth, h>>
  BY DEF Tick, Server!Tick, ChangeEmail, EditEmail, vars, server, react
<1>2. \A q \in Requests : Same(q)
  BY <1>1 DEF Same, Busy
<1>. QED
  BY <1>1, <1>2, SameInv

\* Rendering touches no call but for the form it belongs to.
LEMMA RenderCalls ==
  ASSUME NEW s, NEW path, NEW f, NEW cs, Render(s, path, f, cs), NEW r \in Requests,
         cs[r] \in Call
  PROVE  /\ session' = s
         /\ calls'[r].pc = cs[r].pc /\ calls'[r].op = cs[r].op /\ calls'[r].ok = cs[r].ok
         /\ calls'[r].email = cs[r].email /\ calls'[r].login = cs[r].login
<1>1. session' = s
  BY DEF Render
<1>2. CASE calls' = cs
  BY <1>1, <1>2
<1>3. CASE calls' = [q \in Requests |-> [cs[q] EXCEPT !.mine = FALSE]]
  <2>1. calls'[r] = [cs[r] EXCEPT !.mine = FALSE]
    BY <1>3
  <2>. QED
    BY <1>1, <2>1 DEF Call
<1>. QED
  BY <1>2, <1>3 DEF Render

LEMMA CallTypes ==
  ASSUME IInv
  PROVE  \A r \in Requests : calls[r] \in Call
BY PageTypes DEF CallFits

LEMMA NavigateTells ==
  ASSUME JInv, IInv', Kept(Users, Users'), Navigate
  PROVE  JInv'
<1>1. UNCHANGED <<h, jar, smooth>>
  BY DEF Navigate, server
<1>2. PICK path \in {"/", "/login"} : Render(session, path, form, calls)
  BY DEF Navigate
<1>3. \A q \in Requests : calls[q] \in Call
  BY CallTypes DEF JInv
<1>4. session' = session
  BY <1>2 DEF Render
<1>5. \A q \in Requests : Same(q)
  BY <1>1, <1>2, <1>3, RenderCalls DEF Same, Busy
<1>. QED
  BY <1>1, <1>4, <1>5, SameInv

\* A call changes, and the others stay.
LEMMA OneInv ==
  ASSUME JInv, IInv', Kept(Users, Users'), jar' = jar, session' = session, smooth' => smooth,
         NEW r \in Requests, \A q \in Requests \ {r} : Same(q),
         calls'[r].pc # "gone" => Live(r) /\ calls'[r].op = calls[r].op,
         calls'[r].op = "verifyOtp" /\ calls'[r].pc = "arrived" /\ calls'[r].ok =>
           /\ calls[r].op = "verifyOtp" /\ calls[r].pc = "arrived" /\ calls[r].ok
           /\ calls'[r].email = calls[r].email,
         smooth' /\ calls[r].op = "logout" /\ calls[r].pc = "arrived" =>
           calls'[r].op = "logout" /\ calls'[r].pc = "arrived",
         Tells(r)'
  PROVE  JInv'
<1>1. \A q \in Requests \ {r} :
        /\ calls'[q].pc # "gone" => Live(q) /\ calls'[q].op = calls[q].op
        /\ calls'[q].op = "verifyOtp" /\ calls'[q].pc = "arrived" /\ calls'[q].ok =>
             /\ calls[q].op = "verifyOtp" /\ calls[q].pc = "arrived" /\ calls[q].ok
             /\ calls'[q].email = calls[q].email
        /\ calls[q].op = "logout" /\ calls[q].pc = "arrived" =>
             calls'[q].op = "logout" /\ calls'[q].pc = "arrived"
  BY DEF Same, Live
<1>2. Carried /\ AnswersStay
  BY <1>1 DEF Carried, AnswersStay
<1>3. \A q \in Requests \ {r} : Tells(q)'
  BY TellsLater
<1>4. TellsOK'
  BY <1>3 DEF TellsOK
<1>. QED
  BY <1>2, <1>4, QuietInv

LEMMA LoginTells ==
  ASSUME JInv, IInv', Kept(Users, Users'), NEW r \in Requests, Login(r)
  PROVE  JInv'
<1>1. PICK s \in SessionIds : /\ Server!CreateSession(s, calls[r].email)
                              /\ calls' = [calls EXCEPT ![r].login = s]
  BY DEF Login
<1>2. UNCHANGED <<session, jar, smooth>> /\ calls[r].op = "verifyOtp"
  BY DEF Login, react
<1>3. UNCHANGED h
  BY <1>1 DEF Server!CreateSession
<1>4. calls[r] \in Call /\ DOMAIN calls = Requests /\ Tells(r)
  BY CallTypes, PageTypes DEF JInv, TellsOK
<1>5. /\ \A q \in Requests \ {r} : calls'[q] = calls[q]
      /\ calls'[r].pc = calls[r].pc /\ calls'[r].op = calls[r].op /\ calls'[r].ok = calls[r].ok
      /\ calls'[r].email = calls[r].email /\ calls'[r].login = s
  BY <1>1, <1>4 DEF Call
<1>6. \A q \in Requests \ {r} : Same(q)
  BY <1>3, <1>5 DEF Same, Busy
<1>7. Tells(r)'
  BY <1>2, <1>4, <1>5, NoneApart DEF Tells, CookieOps
<1>. QED
  BY <1>2, <1>5, <1>6, <1>7, OneInv DEF Live
LEMMA UnansweredIs ==
  ASSUME NEW r \in Requests
  PROVE  /\ Unanswered(r).pc = "lost" /\ Unanswered(r).op = calls[r].op
         /\ ~Unanswered(r).ok /\ Unanswered(r).login = None
BY DEF Unanswered, NoCall

LEMMA NoCallIs == NoCall.pc = "gone" /\ NoCall.op = None /\ ~NoCall.ok
BY DEF NoCall

\* me names the user its cookie has: the page's cookie is still that one.
LEMMA AnswerTells ==
  ASSUME JInv, IInv', Kept(Users, Users'), NEW r \in Requests, Answer(r)
  PROVE  JInv'
<1> DEFINE c == calls[r]
<1>1. Server!TypeOK /\ c \in Call /\ DOMAIN calls = Requests /\ Tells(r)
  BY CallTypes, PageTypes DEF JInv, IInv, TellsOK
<1>2. UNCHANGED <<session, jar, smooth>>
  BY DEF Answer, react
<1>3. Server!Handle(r) \/ Server!Logout(r)
  BY DEF Answer
<1>4. h[r].pc = "serve" /\ Moves(r, Server!Blank) /\ Server!Blank.pc = "idle"
  BY <1>1, <1>3, AnswerMoves
<1>5. Busy(r) /\ ~Busy(r)' /\ \A q \in Requests \ {r} : h'[q] = h[q]
  BY <1>4 DEF Moves, Busy
<1>6. CallFits(c, Busy(r), Users, LoginPage(session, route), form.email)
  BY PageTypes DEF JInv
<1>7. c.pc \in {"waiting", "lost", "gone"} /\ c.op \in Ops
  BY <1>5, <1>6 DEF CallFits
<1>8. \A q \in Requests \ {r} : calls'[q] = calls[q]
  BY <1>1 DEF Answer
<1>9. \A q \in Requests \ {r} : Same(q)
  BY <1>5, <1>8 DEF Same, Busy
<1>10. CASE c.pc = "waiting"
  <2>1. PICK ok \in BOOLEAN :
          /\ ok => CASE c.op = "me" -> h[r].user # None
                     [] c.op = "verifyOtp" -> c.login # None
                     [] OTHER -> TRUE
          /\ c.op = "logout" => ok
          /\ calls'[r] = [c EXCEPT
               !.pc = IF c.op \in CookieOps THEN "answered" ELSE "arrived",
               !.ok = ok, !.email = IF c.op = "me" THEN h[r].user ELSE c.email]
    BY <1>1, <1>10 DEF Answer
  <2>2. /\ calls'[r].pc = IF c.op \in CookieOps THEN "answered" ELSE "arrived"
        /\ calls'[r].op = c.op /\ calls'[r].ok = ok /\ calls'[r].login = c.login
        /\ c.op = "me" => calls'[r].email = h[r].user
    BY <1>1, <2>1 DEF Call
  <2>3. ASSUME c.op = "me", ok, smooth PROVE Named(h[r].user)
    <3>1. h[r].user # None
      BY <2>1, <2>3
    <3>2. h[r].cookie \in SessionIds /\ sessions[h[r].cookie].user = h[r].user
      BY <1>1, <3>1, Served
    <3>3. h[r].cookie \in {None, jar.session}
      BY <1>1, <1>5, <1>10, <2>3 DEF Tells, Live
    <3>. QED
      BY <3>2, <3>3, NoneApart DEF Named, Users
  <2>4. ASSUME c.op = "me", ok, smooth
        PROVE  jar'.session # None /\ Users'[jar'.session] = calls'[r].email
    <3>1. h[r].user \in Emails
      BY <1>1, <2>1, <2>4, Served
    <3>. QED
      BY <1>2, <2>2, <2>3, <2>4, <3>1, NamedLater DEF JInv
  <2>5. ok /\ c.op = "verifyOtp" => c.login # None
    BY <2>1
  <2>6. Tells(r)'
    BY <1>2, <1>5, <2>1, <2>2, <2>4, <2>5 DEF Tells, Named, CookieOps
  <2>. QED
    BY <1>2, <1>9, <1>10, <2>2, <2>6, OneInv DEF Live, CookieOps
<1>11. CASE c.pc = "lost"
  <2>1. calls'[r] = Unanswered(r)
    BY <1>1, <1>11 DEF Answer
  <2>2. calls'[r].pc = "lost" /\ calls'[r].op = c.op /\ ~calls'[r].ok
    BY <2>1, UnansweredIs
  <2>3. Tells(r)'
    BY <1>5, <2>2 DEF Tells
  <2>. QED
    BY <1>2, <1>9, <1>11, <2>2, <2>3, OneInv DEF Live
<1>12. CASE c.pc = "gone"
  <2>1. calls'[r] = NoCall
    BY <1>1, <1>12 DEF Answer
  <2>2. calls'[r].pc = "gone" /\ ~calls'[r].ok
    BY <2>1, NoCallIs
  <2>3. Tells(r)'
    BY <1>5, <2>2 DEF Tells, Live
  <2>. QED
    BY <1>2, <1>9, <1>12, <2>2, <2>3, OneInv DEF Live
<1>. QED
  BY <1>7, <1>10, <1>11, <1>12

LEMMA LoseTells ==
  ASSUME JInv, IInv', Kept(Users, Users'), NEW r \in Requests, Lose(r)
  PROVE  JInv'
<1>1. /\ UNCHANGED <<session, jar, h>> /\ calls[r].pc \in {"waiting", "answered", "arrived"}
      /\ smooth' = (smooth /\ ~(calls[r].op = "logout" /\ calls[r].pc = "arrived"))
  BY DEF Lose, server, react
<1>2. calls[r] \in Call /\ DOMAIN calls = Requests /\ Tells(r)
  BY CallTypes, PageTypes DEF JInv, TellsOK
<1>3. /\ \A q \in Requests \ {r} : calls'[q] = calls[q]
      /\ calls'[r] = IF calls[r].pc = "waiting" THEN [calls[r] EXCEPT !.pc = "lost"]
                     ELSE Unanswered(r)
  BY <1>2 DEF Lose
<1>4. \A q \in Requests \ {r} : Same(q)
  BY <1>1, <1>3 DEF Same, Busy
<1>5. /\ calls'[r].pc = "lost" /\ calls'[r].op = calls[r].op
      /\ calls'[r].ok => calls[r].ok /\ calls'[r].login = calls[r].login
  <2>1. CASE calls[r].pc = "waiting"
    BY <1>2, <1>3, <2>1 DEF Call
  <2>2. CASE calls[r].pc # "waiting"
    BY <1>3, <2>2, UnansweredIs
  <2>. QED
    BY <2>1, <2>2
<1>6. Tells(r)'
  BY <1>1, <1>2, <1>5 DEF Tells, Live, Busy
<1>7. smooth' => smooth
  BY <1>1
<1>. QED
  BY <1>1, <1>4, <1>5, <1>6, <1>7, OneInv DEF Live

LEMMA CrashTells ==
  ASSUME JInv, IInv', Kept(Users, Users'), Crash
  PROVE  JInv'
<1>1. UNCHANGED <<session, jar, smooth>>
  BY DEF Crash, react
<1>2. \A q \in Requests : ~Busy(q)'
  BY DEF Crash, Server!Crash, Server!Blank, Busy
<1>3. ASSUME NEW q \in Requests
      PROVE  \/ calls'[q].pc = "gone" /\ ~calls'[q].ok /\ calls[q].pc = "gone"
             \/ /\ calls'[q].pc = "lost" /\ ~calls'[q].ok /\ calls'[q].op = calls[q].op
                /\ calls[q].pc \in {"waiting", "lost"}
             \/ calls'[q] = calls[q]
  BY UnansweredIs, NoCallIs DEF Crash
<1>4. Carried /\ AnswersStay
  BY <1>3 DEF Carried, AnswersStay, Live
<1>5. ASSUME NEW q \in Requests PROVE Tells(q)'
  <2>1. CASE calls'[q] = calls[q]
    <3>1. Same(q)
      BY <1>2, <2>1 DEF Same
    <3>. QED
      BY <1>1, <3>1, TellsLater
  <2>2. CASE calls'[q].pc \in {"gone", "lost"} /\ ~calls'[q].ok
    BY <1>2, <2>2 DEF Tells
  <2>. QED
    BY <1>3, <2>1, <2>2
<1>6. TellsOK'
  BY <1>5 DEF TellsOK
<1>. QED
  BY <1>1, <1>4, <1>6, QuietInv
\* No call of me is waited for when the cookie changes, if all is smooth.
LEMMA SetCookieTells ==
  ASSUME JInv, IInv', Kept(Users, Users'), NEW r \in Requests, SetCookie(r)
  PROVE  JInv'
<1> DEFINE c == calls[r]
<1>1. /\ UNCHANGED <<session, smooth, sessions, h>> /\ c.pc = "answered"
      /\ jar' = IF c.op = "logout" THEN NoCookie
                ELSE IF c.ok THEN [session |-> c.login, until |-> now + sessionTTL]
                ELSE jar
  BY DEF SetCookie, server, react
<1>2. c \in Call /\ DOMAIN calls = Requests /\ First /\ \A q \in Requests : Tells(q)
  BY CallTypes, PageTypes DEF JInv, TellsOK
<1>3. /\ \A q \in Requests \ {r} : calls'[q] = calls[q]
      /\ calls'[r].pc = "arrived" /\ calls'[r].op = c.op /\ calls'[r].ok = c.ok
      /\ calls'[r].email = c.email /\ calls'[r].login = c.login
  BY <1>2 DEF SetCookie, Call
<1>4. c.op \in CookieOps /\ Live(r)
  BY <1>1, <1>2 DEF Tells, Live
<1>5. smooth => \A q \in Requests : Live(q) => calls[q].op # "me"
  BY <1>4 DEF JInv, OneAtATime
<1>6. \A q \in Requests : (Live(q)' <=> Live(q)) /\ calls'[q].op = calls[q].op
  BY <1>1, <1>3 DEF Live
<1>7. First'
  BY <1>1, <1>2, <1>6, FirstLater DEF Carried, Live
<1>8. ASSUME NEW q \in Requests PROVE Tells(q)'
  <2>1. smooth' => ~(calls'[q].pc # "gone" /\ calls'[q].op = "me")
    BY <1>1, <1>5, <1>6 DEF Live
  <2>2. Tells(q)
    BY <1>2
  <2>. QED
    BY <1>1, <1>3, <1>4, <2>1, <2>2 DEF Tells, Live
<1>9. ASSUME smooth PROVE OneAtATime'
  <2>1. OneAtATime
    BY <1>9 DEF JInv
  <2>2. ASSUME NEW q \in Requests, calls'[q].op = "verifyOtp", calls'[q].pc = "arrived",
               calls'[q].ok
        PROVE  jar'.session # None /\ Users'[jar'.session] = calls'[q].email
    <3>1. Live(q) /\ calls[q].op = "verifyOtp"
      BY <1>6, <2>2 DEF Live
    <3>2. c.op # "logout"
      BY <1>4, <2>1, <3>1, NoneApart DEF OneAtATime
    <3>3. q = r
      BY <1>4, <2>1, <3>1, <3>2 DEF OneAtATime, CookieOps
    <3>4. c.ok /\ c.login # None
      BY <1>2, <1>3, <2>2, <3>3 DEF Tells
    <3>5. Users[c.login] = c.email
      BY <3>4, PageTypes DEF JInv, CallFits
    <3>6. jar'.session = c.login /\ Users' = Users
      BY <1>1, <3>2, <3>4 DEF Users
    <3>. QED
      BY <1>3, <3>3, <3>4, <3>5, <3>6
  <2>3. ASSUME session \in Emails PROVE c.op = "logout"
    BY <1>4, <2>1, <2>3, NoneApart DEF OneAtATime, CookieOps
  <2>4. session' \in Emails => \E q \in Requests : calls'[q].op = "logout" /\ calls'[q].pc = "arrived"
    BY <1>1, <1>3, <2>3
  <2>. QED
    BY <1>1, <1>6, <2>1, <2>2, <2>4 DEF OneAtATime, Named
<1>. QED
  BY <1>1, <1>7, <1>8, <1>9 DEF JInv, TellsOK

\* A call leaves: if it is smooth, no other of its kind is waited for.
LEMMA SendTells ==
  ASSUME JInv, IInv', Kept(Users, Users'), NEW r \in Requests,
         NEW op \in Ops, NEW to, NEW email,
         Send(r, op, to, email), session' = session, jar' = jar, smooth' => smooth,
         smooth' /\ op \in CookieOps => ~Overlaps(op) /\ ~Overlaps("me"),
         session = "loading" <=> op = "me",
         op = "verifyOtp" => session = None, op = "logout" => session \in Emails
  PROVE  JInv'
<1> DEFINE c == [op |-> op, pc |-> "waiting", ok |-> FALSE, email |-> email, login |-> None,
                 mine |-> LoginPage(session, route)]
<1>1. calls' = [calls EXCEPT ![r] = c] /\ calls[r] = NoCall
  BY DEF Send
<1>2. Server!TypeOK /\ DOMAIN calls = Requests /\ First
  BY PageTypes DEF JInv, IInv
<1>3. /\ \A q \in Requests \ {r} : calls'[q] = calls[q]
      /\ calls'[r].pc = "waiting" /\ calls'[r].op = op /\ ~calls'[r].ok /\ ~Live(r)
  BY <1>1, <1>2, NoCallIs DEF Live
<1> HIDE DEF c
<1>4. \A q \in Requests \ {r} : h'[q] = h[q]
  BY <1>2, RequestMoves DEF Send, Moves
<1>5. \A q \in Requests \ {r} : Same(q)
  BY <1>3, <1>4 DEF Same, Busy
<1>6. \A q \in Requests \ {r} : Tells(q)'
  BY <1>5, TellsLater
<1>7. TellsOK'
  <2>1. h'[r].cookie \in {None, jar.session}
    <3>1. h'[r].cookie = Presented
      BY <1>2, RequestMoves DEF Send, Moves
    <3>. QED
      BY <3>1 DEF Presented
  <2>2. Tells(r)'
    BY <1>3, <2>1 DEF Tells, CookieOps
  <2>. QED
    BY <1>6, <2>2 DEF TellsOK
<1>8. \A q \in Requests \ {r} : (Live(q)' <=> Live(q)) /\ calls'[q].op = calls[q].op
  BY <1>3 DEF Live
<1>9. First'
  BY <1>2, <1>3, <1>8 DEF First
<1>10. ASSUME smooth' PROVE OneAtATime'
  <2>1. OneAtATime /\ IInv
    BY <1>10 DEF JInv
  <2>2. ASSUME NEW q \in Requests, calls'[q].op = "verifyOtp", calls'[q].pc = "arrived",
               calls'[q].ok
        PROVE  jar'.session # None /\ Users'[jar'.session] = calls'[q].email
    <3>1. calls'[q] = calls[q]
      BY <1>3, <2>2
    <3>2. Named(calls[q].email) /\ calls[q].email \in Emails
      BY <2>1, <2>2, <3>1, AnswerIsEmail DEF OneAtATime
    <3>. QED
      BY <2>1, <3>1, <3>2, NamedLater
  <2>3. session \in Emails /\ Named(session) => jar'.session # None /\ Users'[jar'.session] = session
    BY <2>1, NamedLater
  <2>4. session' \in Emails =>
          \/ jar'.session # None /\ Users'[jar'.session] = session'
          \/ \E q \in Requests : calls'[q].op = "logout" /\ calls'[q].pc = "arrived"
    <3>1. \A q \in Requests : calls[q].pc = "arrived" => calls'[q] = calls[q]
      BY <1>3 DEF Live
    <3>. QED
      BY <2>1, <2>3, <3>1 DEF OneAtATime
  <2>5. \A q \in Requests \ {r} : Live(q) /\ calls[q].op = op => op \notin CookieOps
    BY <1>10 DEF Overlaps, Live
  <2>6. \A q \in Requests : Live(q)' =>
          /\ calls'[q].op = "verifyOtp" => session' = None
          /\ calls'[q].op = "logout" => session' \in Emails
    BY <1>3, <1>8, <2>1 DEF OneAtATime
  <2>7. \A q, t \in Requests :
          Live(q)' /\ Live(t)' /\ calls'[q].op = calls'[t].op /\ calls'[q].op \in CookieOps =>
            q = t
    BY <1>3, <1>8, <2>1, <2>5 DEF OneAtATime
  <2>8. \A q, t \in Requests :
          Live(q)' /\ Live(t)' /\ calls'[q].op = "me" => calls'[t].op \notin CookieOps
    <3>1. op = "me" => \A q \in Requests : Live(q)' => calls'[q].op = "me"
      BY <1>2, <1>3, <1>8 DEF First
    <3>2. op \in CookieOps => \A q \in Requests : Live(q)' => calls'[q].op # "me"
      BY <1>3, <1>8, <1>10 DEF Overlaps, Live, CookieOps
    <3>. QED
      BY <1>3, <1>8, <2>1, <3>1, <3>2 DEF OneAtATime, CookieOps
  <2>. QED
    BY <2>2, <2>4, <2>6, <2>7, <2>8 DEF OneAtATime, Named
<1>. QED
  BY <1>7, <1>9, <1>10 DEF JInv
LEMMA HandlersTells ==
  ASSUME JInv, IInv', Kept(Users, Users'), NEW r \in Requests,
         Again(r) \/ handleRequestCode(r) \/ handleVerifyCode(r) \/ handleLogout(r)
  PROVE  JInv'
<1>1. smooth \in BOOLEAN
  BY PageTypes DEF JInv
<1>2. CASE handleRequestCode(r)
  BY <1>2, SendTells, NoneApart DEF handleRequestCode, CookieOps, Ops, LoginPage
<1>3. CASE handleVerifyCode(r)
  BY <1>1, <1>3, SendTells, NoneApart DEF handleVerifyCode, CookieOps, Ops, LoginPage
<1>4. CASE handleLogout(r)
  BY <1>1, <1>4, SendTells, NoneApart DEF handleLogout, CookieOps, Ops, react
<1>5. CASE Again(r)
  BY <1>5, SendTells, NoneApart DEF Again, CookieOps, Ops, react
<1>. QED
  BY <1>2, <1>3, <1>4, <1>5

LEMMA ForgottenIs ==
  ASSUME NEW r \in Requests, calls[r] \in Call
  PROVE  /\ Forgotten(r) \in Call /\ Forgotten(r).pc = "gone"
         /\ Forgotten(r).ok => /\ calls[r].ok /\ Forgotten(r).op = calls[r].op
                               /\ Forgotten(r).login = calls[r].login
<1>1. NoCall \in Call
  BY DEF NoCall, Call
<1>. QED
  BY <1>1, NoCallIs DEF Forgotten, Call

\* Whoever the page names from now on, the cookie is a session of.
LEMMA SettleTells ==
  ASSUME JInv, IInv', Kept(Users, Users'), NEW r \in Requests, Settle(r)
  PROVE  JInv'
<1> DEFINE c == calls[r]
           cs == [calls EXCEPT ![r] = Forgotten(r)]
<1>1. /\ UNCHANGED <<jar, smooth, h>> /\ c.pc \in {"arrived", "lost"}
      /\ Render(Known(r, Resolved(r)), route, Settled(r, Resolved(r)), cs)
  BY DEF Settle, server
<1>2. /\ IInv /\ First /\ Tells(r) /\ DOMAIN calls = Requests
      /\ \A q \in Requests : calls[q] \in Call
  BY CallTypes, PageTypes DEF JInv, TellsOK
<1>3. \A q \in Requests : cs[q] \in Call
  BY <1>2, ForgottenIs
<1>4. \A q \in Requests :
        /\ calls'[q].pc = cs[q].pc /\ calls'[q].op = cs[q].op /\ calls'[q].ok = cs[q].ok
        /\ calls'[q].email = cs[q].email /\ calls'[q].login = cs[q].login
  <2> HIDE DEF cs
  <2>. QED
    BY <1>1, <1>3, RenderCalls
<1>5. session' = Known(r, Resolved(r))
  BY <1>1 DEF Render
<1>6. \A q \in Requests \ {r} : Same(q)
  BY <1>1, <1>2, <1>4 DEF Same, Busy
<1>7. cs[r] = Forgotten(r)
  BY <1>2
<1>8. /\ calls'[r].pc = "gone" /\ Live(r)
      /\ calls'[r].ok => c.ok /\ calls'[r].op = c.op /\ calls'[r].login = c.login
  BY <1>1, <1>2, <1>4, <1>7, ForgottenIs DEF Live
<1>9. Tells(r)'
  BY <1>2, <1>8 DEF Tells, Live
<1>10. CASE session' = session
  <2>1. ~(smooth /\ c.op = "logout" /\ c.pc = "arrived")
    <3>1. SUFFICES ASSUME smooth, c.op = "logout", c.pc = "arrived" PROVE FALSE
      OBVIOUS
    <3>2. c.ok /\ session \in Emails
      BY <1>2, <1>8, <3>1 DEF Tells, JInv, OneAtATime
    <3>3. session' = None
      BY <1>5, <3>1, <3>2 DEF Known, Resolved
    <3>. QED
      BY <1>10, <3>2, <3>3, NoneApart
  <2>. QED
    BY <1>1, <1>6, <1>8, <1>9, <1>10, <2>1, OneInv
<1>11. CASE session' # session
  <2>1. /\ c.op \in {"me", "verifyOtp", "logout"}
        /\ session' = None \/ (/\ session' = c.email /\ c.op \in {"me", "verifyOtp"}
                               /\ c.pc = "arrived" /\ c.ok)
    BY <1>5, <1>11 DEF Known, Resolved, Identity
  <2>2. session' # "loading"
    BY <1>2, <2>1, AnswerIsEmail, NoneApart
  <2>4. \A q \in Requests \ {r} : (Live(q)' <=> Live(q)) /\ calls'[q].op = calls[q].op
    BY <1>6 DEF Same, Live
  <2>5. First'
    BY <2>2 DEF First
  <2>6. TellsOK'
    BY <1>1, <1>6, <1>9, TellsLater DEF TellsOK
  <2>7. ASSUME smooth PROVE OneAtATime'
    <3>1. OneAtATime
      BY <2>7 DEF JInv
    <3>2. \A q \in Requests \ {r} : Live(q) => calls[q].op \notin CookieOps
      BY <1>2, <1>8, <2>1, <3>1, NoneApart DEF OneAtATime, CookieOps
    <3>3. \A q \in Requests : Live(q)' => calls'[q].op \notin CookieOps
      BY <1>8, <2>4, <3>2 DEF Live
    <3>4. ASSUME session' \in Emails
          PROVE  jar'.session # None /\ Users'[jar'.session] = session'
      <4>1. /\ session' = c.email /\ c.op \in {"me", "verifyOtp"} /\ c.pc = "arrived" /\ c.ok
        BY <2>1, <3>4, NoneApart
      <4>2. Named(c.email)
        BY <1>2, <2>7, <3>1, <4>1 DEF Tells, OneAtATime
      <4>. QED
        BY <1>1, <1>2, <3>4, <4>1, <4>2, NamedLater
    <3>. QED
      BY <3>3, <3>4 DEF OneAtATime, CookieOps, Live, Named
  <2>. QED
    BY <1>1, <2>5, <2>6, <2>7 DEF JInv
<1>. QED
  BY <1>10, <1>11

\* A page that is loaded waits for me alone.
LEMMA LoadTells ==
  ASSUME JInv, IInv', Kept(Users, Users'), NEW r \in Requests, Load(r)
  PROVE  JInv'
<1>1. /\ session' = "loading" /\ UNCHANGED jar
      /\ calls' = [q \in Requests |->
           IF q = r THEN [NoCall EXCEPT !.op = "me", !.pc = "waiting"] ELSE Forgotten(q)]
  BY DEF Load
<1>2. Server!TypeOK /\ \A q \in Requests : calls[q] \in Call /\ Tells(q)
  BY CallTypes DEF JInv, IInv, TellsOK
<1>3. calls'[r].pc = "waiting" /\ calls'[r].op = "me" /\ ~calls'[r].ok
  BY <1>1 DEF NoCall
<1>4. ASSUME NEW q \in Requests \ {r}
      PROVE  /\ calls'[q].pc = "gone"
             /\ calls'[q].ok => /\ calls[q].ok /\ calls'[q].op = calls[q].op
                                /\ calls'[q].login = calls[q].login
  <2>1. calls'[q] = Forgotten(q)
    BY <1>1
  <2>. QED
    BY <1>2, <2>1, ForgottenIs
<1>5. First'
  BY <1>1, <1>3, <1>4 DEF First, Live
<1>6. h'[r].cookie \in {None, jar.session}
  <2>1. h'[r].cookie = Presented
    BY <1>2, RequestMoves DEF Load, Moves
  <2>. QED
    BY <2>1 DEF Presented
<1>7. Tells(r)'
  BY <1>1, <1>3, <1>6 DEF Tells
<1>8. ASSUME NEW q \in Requests \ {r} PROVE Tells(q)'
  BY <1>2, <1>4 DEF Tells, Live
<1>9. TellsOK'
  BY <1>7, <1>8 DEF TellsOK
<1>10. OneAtATime'
  BY <1>1, <1>3, <1>4, NoneApart DEF OneAtATime, Live, CookieOps
<1>. QED
  BY <1>5, <1>9, <1>10 DEF JInv

LEMMA JInitInv == Init => JInv
<1> SUFFICES ASSUME Init PROVE JInv
  OBVIOUS
<1>1. \A r \in Requests : calls[r] = NoCall
  BY DEF Init
<1>2. First /\ TellsOK
  BY <1>1, NoCallIs DEF First, TellsOK, Tells, Live
<1>3. OneAtATime
  BY <1>1, NoCallIs, NoneApart DEF Init, OneAtATime, Live
<1>. QED
  BY <1>2, <1>3, InitInv DEF JInv

LEMMA JNextInv == JInv /\ [Next]_vars => JInv'
<1> SUFFICES ASSUME JInv, [Next]_vars PROVE JInv'
  OBVIOUS
<1>1. IInv
  BY DEF JInv
<1>2. IInv' /\ Kept(Users, Users')
  BY <1>1, NextInv, Meanwhile
<1>3. ASSUME NEW r \in Requests,
             \/ Load(r) \/ Again(r)
             \/ handleRequestCode(r) \/ handleVerifyCode(r) \/ handleLogout(r)
             \/ Middleware(r) \/ Login(r) \/ Answer(r) \/ SetCookie(r) \/ Settle(r) \/ Lose(r)
      PROVE  JInv'
  BY <1>2, <1>3, LoadTells, HandlersTells, MiddlewareTells, LoginTells, AnswerTells,
     SetCookieTells, SettleTells, LoseTells
<1>4. CASE Navigate \/ Crash
  BY <1>2, <1>4, NavigateTells, CrashTells
<1>5. CASE Tick \/ ChangeEmail \/ (\E email \in Emails : EditEmail(email)) \/ UNCHANGED vars
  BY <1>2, <1>5, EditTells
<1>. QED
  BY <1>3, <1>4, <1>5 DEF Next

LEMMA JInvariance == Spec => []JInv
BY JInitInv, JNextInv, PTL DEF Spec

\* PageNamesCookie: while the page names a user the cookie is a session of that
\* user, whichever call was lost and however the answers are late, as long as
\* logins and logouts come one at a time, none of them while a second me of the
\* page (StrictMode) is in flight, and no logout's answer breaks off.
THEOREM CookiesNamed == Spec => []PageNamesCookie
<1>1. ASSUME JInv PROVE PageNamesCookie
  <2>1. Named(session) => jar.session # None /\ sessions[jar.session].user = session
    BY <1>1, PageTypes DEF Named, Users, JInv
  <2>. QED
    BY <1>1, <2>1 DEF JInv, OneAtATime, PageNamesCookie
<1>. QED
  BY <1>1, JInvariance, PTL

-----------------------------------------------------------------------------
(* What the page waits for                                                 *)

\* The calls of the form are in flight, besides what the two properties say.
Waited == LoadingAsks /\ OneSubmission /\ \A r \in Requests : calls[r].mine => Live(r)

KInv == JInv /\ Waited

\* A step that leaves the page's own calls in flight.
LEMMA WaitedLater ==
  ASSUME Waited, session' = session, form'.submitting = form.submitting,
         \A r \in Requests :
           /\ calls'[r].mine = calls[r].mine
           /\ calls[r].mine \/ calls[r].op = "me" =>
                /\ Live(r) => calls'[r].pc # "gone"
                /\ calls'[r].op = calls[r].op
  PROVE  Waited'
BY DEF Waited, LoadingAsks, OneSubmission, Live

\* One call changes.
LEMMA WaitedOne ==
  ASSUME Waited, UNCHANGED react, NEW r \in Requests,
         \A q \in Requests \ {r} : calls'[q] = calls[q],
         calls'[r].mine = calls[r].mine,
         Live(r) => calls'[r].pc # "gone" /\ calls'[r].op = calls[r].op
  PROVE  Waited'
<1>1. UNCHANGED <<session, form>>
  BY DEF react
<1>. QED
  BY <1>1 DEF Waited, LoadingAsks, OneSubmission, Live

\* A LoginPage that is mounted anew has sent nothing.
LEMMA WaitedFresh ==
  ASSUME form'.submitting = FALSE, \A r \in Requests : ~calls'[r].mine,
         session' = "loading" => \E r \in Requests : calls'[r].op = "me" /\ calls'[r].pc # "gone"
  PROVE  Waited'
BY DEF Waited, LoadingAsks, OneSubmission

LEMMA QuietWaited ==
  ASSUME KInv, NEW r \in Requests,
         \/ Middleware(r) \/ Tick \/ ChangeEmail
         \/ (\E email \in Emails : EditEmail(email)) \/ UNCHANGED vars
  PROVE  Waited'
<1>1. UNCHANGED <<session, calls>>
  BY DEF Middleware, Tick, ChangeEmail, EditEmail, vars, react
<1>2. form \in Form
  BY DEF KInv, JInv, IInv, WebOK
<1>3. CASE UNCHANGED form
  BY <1>1, <1>3, WaitedLater DEF KInv, Live
<1>4. CASE ChangeEmail
  <2>1. form'.submitting = form.submitting
    BY <1>2, <1>4 DEF ChangeEmail, Form
  <2>. QED
    BY <1>1, <2>1, WaitedLater DEF KInv, Live
<1>5. CASE \E email \in Emails : EditEmail(email)
  <2>1. form'.submitting = form.submitting
    BY <1>2, <1>5 DEF EditEmail, Form
  <2>. QED
    BY <1>1, <2>1, WaitedLater DEF KInv, Live
<1>. QED
  BY <1>3, <1>4, <1>5 DEF Middleware, Tick, vars, react

\* The server and the network: a call stays waited for until it settles.
LEMMA NetworkWaited ==
  ASSUME KInv, NEW r \in Requests, Login(r) \/ SetCookie(r) \/ Lose(r)
  PROVE  Waited'
<1>1. calls[r] \in Call /\ DOMAIN calls = Requests /\ UNCHANGED react /\ Waited
  BY CallTypes, PageTypes DEF KInv, JInv, Login, SetCookie, Lose
<1>2. CASE Login(r)
  <2>1. PICK s \in SessionIds : calls' = [calls EXCEPT ![r].login = s]
    BY <1>2 DEF Login
  <2>2. /\ \A q \in Requests \ {r} : calls'[q] = calls[q]
        /\ calls'[r].mine = calls[r].mine /\ calls'[r].pc = calls[r].pc
        /\ calls'[r].op = calls[r].op
    BY <1>1, <2>1 DEF Call
  <2>. QED
    BY <1>1, <2>2, WaitedOne DEF Live
<1>3. CASE SetCookie(r)
  <2>1. calls' = [calls EXCEPT ![r].pc = "arrived"]
    BY <1>3 DEF SetCookie
  <2>2. /\ \A q \in Requests \ {r} : calls'[q] = calls[q]
        /\ calls'[r].mine = calls[r].mine /\ calls'[r].pc = "arrived"
        /\ calls'[r].op = calls[r].op
    BY <1>1, <2>1 DEF Call
  <2>. QED
    BY <1>1, <2>2, WaitedOne
<1>4. CASE Lose(r)
  <2>1. /\ \A q \in Requests \ {r} : calls'[q] = calls[q]
        /\ calls'[r] = IF calls[r].pc = "waiting" THEN [calls[r] EXCEPT !.pc = "lost"]
                       ELSE Unanswered(r)
    BY <1>1, <1>4 DEF Lose
  <2>2. Unanswered(r).mine = calls[r].mine
    BY DEF Unanswered, NoCall
  <2>3. /\ calls'[r].mine = calls[r].mine /\ calls'[r].pc = "lost"
        /\ calls'[r].op = calls[r].op
    BY <1>1, <2>1, <2>2, UnansweredIs DEF Call
  <2>. QED
    BY <1>1, <2>1, <2>3, WaitedOne
<1>. QED
  BY <1>2, <1>3, <1>4

LEMMA AnswerWaited ==
  ASSUME KInv, NEW r \in Requests, Answer(r)
  PROVE  Waited'
<1>1. calls[r] \in Call /\ DOMAIN calls = Requests /\ UNCHANGED react /\ Waited
  BY CallTypes, PageTypes DEF KInv, JInv, Answer
<1>2. \A q \in Requests \ {r} : calls'[q] = calls[q]
  BY <1>1 DEF Answer
<1>3. h[r].pc = "serve"
  BY AnswerMoves DEF Answer, KInv, JInv, IInv
<1>4. calls[r].pc \in {"waiting", "lost", "gone"}
  BY <1>3, PageTypes DEF KInv, JInv, CallFits, Busy
<1>5. CASE calls[r].pc = "waiting"
  <2>1. PICK ok \in BOOLEAN :
          calls'[r] = [calls[r] EXCEPT
            !.pc = IF calls[r].op \in CookieOps THEN "answered" ELSE "arrived",
            !.ok = ok, !.email = IF calls[r].op = "me" THEN h[r].user ELSE calls[r].email]
    BY <1>1, <1>5 DEF Answer
  <2>2. /\ calls'[r].mine = calls[r].mine /\ calls'[r].pc # "gone"
        /\ calls'[r].op = calls[r].op
    BY <1>1, <2>1 DEF Call
  <2>. QED
    BY <1>1, <1>2, <2>2, WaitedOne
<1>6. CASE calls[r].pc = "lost"
  <2>1. calls'[r] = Unanswered(r)
    BY <1>1, <1>6 DEF Answer
  <2>2. calls'[r].mine = calls[r].mine
    BY <2>1 DEF Unanswered, NoCall
  <2>. QED
    BY <1>1, <1>2, <2>1, <2>2, UnansweredIs, WaitedOne
<1>7. CASE calls[r].pc = "gone"
  <2>1. calls'[r] = NoCall /\ NoCall.mine = FALSE
    BY <1>1, <1>7 DEF Answer, NoCall
  <2>2. ~calls[r].mine /\ ~Live(r)
    BY <1>1, <1>7 DEF Waited, Live
  <2>3. calls[r].mine = FALSE
    BY <1>1, <2>2 DEF Call
  <2>. QED
    BY <1>1, <1>2, <2>1, <2>2, <2>3, WaitedOne
<1>. QED
  BY <1>4, <1>5, <1>6, <1>7

LEMMA CrashWaited ==
  ASSUME KInv, Crash
  PROVE  Waited'
<1>1. UNCHANGED <<session, form>> /\ Waited
  BY DEF Crash, react, KInv
<1>2. ASSUME NEW r \in Requests
      PROVE  /\ calls'[r].mine = calls[r].mine
             /\ Live(r) => calls'[r].pc # "gone" /\ calls'[r].op = calls[r].op
             /\ calls[r].mine => Live(r)
  <2>1. calls[r] \in Call /\ (calls[r].mine => Live(r))
    BY <1>1, CallTypes DEF KInv, JInv, Waited
  <2>2. CASE calls[r].pc \in {"waiting", "lost"}
    <3>1. calls'[r] = Unanswered(r) /\ Unanswered(r).mine = calls[r].mine
      BY <2>2 DEF Crash, Unanswered, NoCall
    <3>. QED
      BY <2>1, <3>1, UnansweredIs
  <2>3. CASE calls[r].pc = "gone"
    <3>1. calls'[r] = NoCall /\ ~calls[r].mine /\ NoCall.mine = FALSE
      BY <2>1, <2>3 DEF Crash, Live, NoCall
    <3>2. calls[r].mine = FALSE
      BY <2>1, <3>1 DEF Call
    <3>. QED
      BY <2>3, <3>1, <3>2 DEF Live
  <2>4. CASE calls[r].pc \notin {"waiting", "lost", "gone"}
    <3>1. calls'[r] = calls[r]
      BY <2>4 DEF Crash
    <3>. QED
      BY <2>1, <3>1 DEF Live
  <2>. QED
    BY <2>2, <2>3, <2>4
<1>. QED
  BY <1>1, <1>2 DEF Waited, LoadingAsks, OneSubmission, Live

\* The form sends a call only while none of its own is in flight.
LEMMA HandlersWaited ==
  ASSUME KInv, NEW r \in Requests,
         Again(r) \/ handleRequestCode(r) \/ handleVerifyCode(r) \/ handleLogout(r)
  PROVE  Waited'
<1>1. form \in Form /\ DOMAIN calls = Requests /\ Waited
  BY PageTypes DEF KInv, JInv, IInv, WebOK
<1>2. NoCall.pc = "gone" /\ NoCall.mine = FALSE
  BY DEF NoCall
<1>3. /\ session' = session /\ calls[r] = NoCall
      /\ \A q \in Requests \ {r} : calls'[q] = calls[q]
      /\ calls'[r].pc = "waiting" /\ calls'[r].mine = LoginPage(session, route)
  BY <1>1, NoneApart
     DEF Again, handleRequestCode, handleVerifyCode, handleLogout, Send, react, LoginPage
<1>4. CASE Again(r) \/ handleLogout(r)
  <2>1. UNCHANGED form /\ ~LoginPage(session, route)
    BY <1>4, NoneApart DEF Again, handleLogout, LoginPage, react
  <2>. QED
    BY <1>1, <1>2, <1>3, <2>1 DEF Waited, LoadingAsks, OneSubmission, Live
<1>5. CASE handleRequestCode(r) \/ handleVerifyCode(r)
  <2>1. ~form.submitting /\ form'.submitting = TRUE /\ LoginPage(session, route)
    BY <1>1, <1>5 DEF handleRequestCode, handleVerifyCode, Form
  <2>2. \A q \in Requests : ~calls[q].mine
    BY <1>1, <2>1 DEF Waited, OneSubmission
  <2>. QED
    BY <1>1, <1>2, <1>3, <2>1, <2>2 DEF Waited, LoadingAsks, OneSubmission, Live
<1>. QED
  BY <1>4, <1>5

\* Rendering keeps the form with its call, or drops both.
LEMMA RenderWaited ==
  ASSUME NEW s, NEW path, NEW f, NEW cs, Render(s, path, f, cs),
         \A r \in Requests : cs[r] \in Call,
         f.submitting <=> \E r \in Requests : cs[r].mine,
         \A r, q \in Requests : cs[r].mine /\ cs[q].mine => r = q,
         \A r \in Requests : cs[r].mine => cs[r].pc # "gone",
         s = "loading" => \E r \in Requests : cs[r].op = "me" /\ cs[r].pc # "gone"
  PROVE  Waited'
<1>1. session' = s
  BY DEF Render
<1>2. CASE form' = f /\ calls' = cs
  BY <1>1, <1>2 DEF Waited, LoadingAsks, OneSubmission, Live
<1>3. CASE form' = Fresh /\ calls' = [r \in Requests |-> [cs[r] EXCEPT !.mine = FALSE]]
  <2>1. form'.submitting = FALSE
    BY <1>3 DEF Fresh
  <2>2. ASSUME NEW r \in Requests
        PROVE  ~calls'[r].mine /\ calls'[r].op = cs[r].op /\ calls'[r].pc = cs[r].pc
    <3>1. calls'[r] = [cs[r] EXCEPT !.mine = FALSE]
      BY <1>3
    <3>. QED
      BY <3>1 DEF Call
  <2>. QED
    BY <1>1, <2>1, <2>2, WaitedFresh
<1>. QED
  BY <1>2, <1>3 DEF Render

LEMMA NavigateWaited ==
  ASSUME KInv, Navigate
  PROVE  Waited'
<1>1. PICK path \in {"/", "/login"} : Render(session, path, form, calls)
  BY DEF Navigate
<1>2. \A r \in Requests : calls[r] \in Call
  BY CallTypes DEF KInv, JInv
<1>. QED
  BY <1>1, <1>2, RenderWaited DEF KInv, Waited, LoadingAsks, OneSubmission, Live

\* The form's own call ends the submission; another leaves it as it is; and
\* whatever me is answered, the page is not loading any more.
LEMMA SettleWaited ==
  ASSUME KInv, NEW r \in Requests, Settle(r)
  PROVE  Waited'
<1> DEFINE cs == [calls EXCEPT ![r] = Forgotten(r)]
           f == Settled(r, Resolved(r))
<1>1. /\ Render(Known(r, Resolved(r)), route, f, cs)
      /\ calls[r].pc \in {"arrived", "lost"}
  BY DEF Settle
<1>2. /\ DOMAIN calls = Requests /\ form \in Form /\ Waited /\ First
      /\ \A q \in Requests : calls[q] \in Call
  BY CallTypes, PageTypes DEF KInv, JInv, IInv, WebOK
<1>3. Forgotten(r) \in Call /\ Forgotten(r).pc = "gone" /\ ~Forgotten(r).mine
  BY <1>2, ForgottenIs DEF Forgotten, NoCall, Call
<1>4. cs[r] = Forgotten(r) /\ \A q \in Requests \ {r} : cs[q] = calls[q]
  BY <1>2
<1>5. f.submitting <=> \E q \in Requests \ {r} : calls[q].mine
  <2>1. CASE calls[r].mine
    <3>1. f.submitting = FALSE
      BY <1>2, <2>1 DEF Settled, Form
    <3>. QED
      BY <1>2, <2>1, <3>1 DEF Waited, OneSubmission
  <2>2. CASE ~calls[r].mine
    <3>1. f = form
      BY <2>2 DEF Settled
    <3>. QED
      BY <1>2, <2>2, <3>1 DEF Waited, OneSubmission
  <2>. QED
    BY <2>1, <2>2
<1>6. Known(r, Resolved(r)) # "loading"
  <2>1. calls[r].op = "me" \/ session # "loading"
    BY <1>1, <1>2 DEF First, Live
  <2>2. calls[r].op \in {"me", "verifyOtp"} /\ Resolved(r) => Identity(r) \in Emails
    BY AnswerIsEmail DEF Identity, Resolved, KInv, JInv
  <2>. QED
    BY <2>1, <2>2, NoneApart DEF Known
<1>7. \A q \in Requests : cs[q] \in Call
  BY <1>2, <1>3, <1>4
<1>8. /\ f.submitting <=> \E q \in Requests : cs[q].mine
      /\ \A q, t \in Requests : cs[q].mine /\ cs[t].mine => q = t
      /\ \A q \in Requests : cs[q].mine => cs[q].pc # "gone"
  <2> HIDE DEF cs, f
  <2>. QED
    BY <1>2, <1>3, <1>4, <1>5 DEF Waited, OneSubmission, Live
<1> HIDE DEF cs, f
<1>. QED
  BY <1>1, <1>6, <1>7, <1>8, RenderWaited

LEMMA LoadWaited ==
  ASSUME KInv, NEW r \in Requests, Load(r)
  PROVE  Waited'
<1>1. /\ form' = Fresh
      /\ calls' = [q \in Requests |->
           IF q = r THEN [NoCall EXCEPT !.op = "me", !.pc = "waiting"] ELSE Forgotten(q)]
  BY DEF Load
<1>2. \A q \in Requests : calls[q] \in Call
  BY CallTypes DEF KInv, JInv
<1>3. form'.submitting = FALSE
  BY <1>1 DEF Fresh
<1>4. calls'[r].op = "me" /\ calls'[r].pc = "waiting" /\ ~calls'[r].mine
  BY <1>1 DEF NoCall
<1>5. ASSUME NEW q \in Requests \ {r} PROVE ~calls'[q].mine
  <2>1. calls'[q] = Forgotten(q)
    BY <1>1
  <2>. QED
    BY <1>2, <2>1 DEF Forgotten, NoCall, Call
<1>. QED
  BY <1>3, <1>4, <1>5, WaitedFresh

LEMMA KNextInv == KInv /\ [Next]_vars => KInv'
<1> SUFFICES ASSUME KInv, [Next]_vars PROVE KInv'
  OBVIOUS
<1>1. JInv'
  BY JNextInv DEF KInv
<1> SUFFICES Waited'
  BY <1>1 DEF KInv
<1>2. ASSUME NEW r \in Requests,
             \/ Load(r) \/ Again(r)
             \/ handleRequestCode(r) \/ handleVerifyCode(r) \/ handleLogout(r)
             \/ Middleware(r) \/ Login(r) \/ Answer(r) \/ SetCookie(r) \/ Settle(r) \/ Lose(r)
      PROVE  Waited'
  BY <1>2, LoadWaited, HandlersWaited, QuietWaited, NetworkWaited, AnswerWaited, SettleWaited
<1>3. CASE Navigate \/ Crash
  BY <1>3, NavigateWaited, CrashWaited
<1>4. CASE Tick \/ ChangeEmail \/ (\E email \in Emails : EditEmail(email)) \/ UNCHANGED vars
  <2>1. UNCHANGED <<session, calls>>
    BY <1>4 DEF Tick, ChangeEmail, EditEmail, vars, react
  <2>2. form'.submitting = form.submitting
    BY <1>4 DEF Tick, ChangeEmail, EditEmail, vars, react, KInv, JInv, IInv, WebOK, Form
  <2>. QED
    BY <2>1, <2>2, WaitedLater DEF KInv, Live
<1>. QED
  BY <1>2, <1>3, <1>4 DEF Next

LEMMA KInvariance == Spec => []KInv
<1>1. Init => KInv
  <2> SUFFICES ASSUME Init PROVE Waited
    BY JInitInv DEF KInv
  <2>1. session # "loading" /\ form.submitting = FALSE /\ \A r \in Requests : ~calls[r].mine
    BY NoneApart DEF Init, Fresh, NoCall
  <2>. QED
    BY <2>1 DEF Waited, LoadingAsks, OneSubmission
<1>. QED
  BY <1>1, KNextInv, PTL DEF Spec

\* LoadingAsks: AuthProvider is never left loading with no answer of me to wait
\* for (the effect of AuthContext.tsx), so that fairness of the call in flight is
\* all that LoadingEnds needs.
THEOREM LoadingAsksMe == Spec => []LoadingAsks
<1>1. KInv => LoadingAsks
  BY DEF KInv, Waited
<1>. QED
  BY <1>1, KInvariance, PTL

\* OneSubmission: the buttons of LoginPage.tsx are disabled exactly while a call
\* of the form is in flight, and no form has two.
THEOREM SubmitsOnce == Spec => []OneSubmission
<1>1. KInv => OneSubmission
  BY DEF KInv, Waited
<1>. QED
  BY <1>1, KInvariance, PTL

-----------------------------------------------------------------------------
(* What SessionsProofs shows of the server, of the server here             *)

LEMMA SameSpec == Server!Spec => S!Spec
<1>1. Server!Init => S!Init
  BY DEF Server!Init, S!Init, Server!Blank, S!Blank
<1>2. [Server!Next]_Server!vars => [S!Next]_S!vars
  BY SameSteps
<1>. QED
  BY <1>1, <1>2, PTL DEF Server!Spec, S!Spec

\* NoAccessAfterRevocation, ExpiryBounded and ExpiredStaysExpired of Sessions
\* hold of the server the browser talks to (Middleware, Logout): no reload, lost
\* answer or late logout of a page makes it read a session that is gone.
THEOREM ServerSafe ==
  Spec => /\ []Server!NoAccessAfterRevocation
          /\ []Server!ExpiryBounded
          /\ Server!ExpiredStaysExpired
<1>1. S!NoneAssumption /\ S!TimesAssumption
  BY NamesAssumption, BoundsAssumption DEF S!NoneAssumption, S!TimesAssumption
<1>2. S!Spec => []S!NoAccessAfterRevocation
  BY <1>1, S!RevokedForGood
<1>3. S!Spec => []S!ExpiryBounded
  BY <1>1, S!ExpiryLimited
<1>4. S!Spec => S!ExpiredStaysExpired
  BY <1>1, S!ExpiredForGood
<1>5. S!NoAccessAfterRevocation => Server!NoAccessAfterRevocation
  BY DEF S!NoAccessAfterRevocation, Server!NoAccessAfterRevocation
<1>6. S!ExpiryBounded => Server!ExpiryBounded
  BY DEF S!ExpiryBounded, Server!ExpiryBounded
<1>7. S!ExpiredStaysExpired => Server!ExpiredStaysExpired
  BY DEF S!ExpiredStaysExpired, Server!ExpiredStaysExpired, S!Expired, Server!Expired,
         S!At, Server!At, S!vars, Server!vars
<1>. QED
  BY <1>2, <1>3, <1>4, <1>5, <1>6, <1>7, ServerRefined, SameSpec, PTL

\* The server behind the browsers implements SessionGate: a call acts for a user
\* only after a moment at which the session it presents was open.
THEOREM BrowserImplementsGate == Spec => Server!GateSpec
<1>1. S!NoneAssumption /\ S!TimesAssumption
  BY NamesAssumption, BoundsAssumption DEF S!NoneAssumption, S!TimesAssumption
<1>2. S!Spec => S!GateSpec
  BY <1>1, S!SessionsImplementGate
<1>3. S!GateSpec => Server!GateSpec
  BY DEF S!GateSpec, Server!GateSpec, S!Gate!Spec, Server!Gate!Spec, S!Gate!Init,
         Server!Gate!Init, S!Gate!Next, Server!Gate!Next, S!Gate!vars, Server!Gate!vars,
         S!Gate!Open, Server!Gate!Open, S!Gate!Close, Server!Gate!Close, S!Gate!Ask,
         Server!Gate!Ask, S!Gate!Grant, Server!Gate!Grant, S!Gate!Deny, Server!Gate!Deny,
         S!Gate!Answer, Server!Gate!Answer, S!Gate!Crash, Server!Gate!Crash,
         S!Life, Server!Life, S!Opened, Server!Opened
<1>. QED
  BY <1>2, <1>3, ServerRefined, SameSpec, PTL
=============================================================================
