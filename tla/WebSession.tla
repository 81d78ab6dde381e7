----------------------------- MODULE WebSession -----------------------------
(***************************************************************************)
(* The session as the browser has it: the React state of frontend/src      *)
(* (AuthContext.tsx, App.tsx, LoginPage.tsx, AppNav.tsx) and the cookie,   *)
(* over the server of Sessions.  The calls of api/client.ts are in flight  *)
(* together; each is one request of Sessions, and its answer may be lost.  *)
(* One tab: no other one shares the cookie.                                *)
(***************************************************************************)
EXTENDS Integers, FiniteSets

CONSTANTS
  SessionIds,   \* as in Sessions
  Emails,       \* emails; an account is named by its email
  Requests,     \* bound: calls in flight at the same time
  None,         \* null, or an absent value
  sessionTTL,
  MaxTime       \* bound: clock

VARIABLES
  now, sessions, h,   \* the server's: see Sessions
  session,    \* AuthProvider: "loading", an email or None
  route,      \* the path displayed, "closed" before the first page
  form,       \* the state of LoginPage
  jar,        \* the session cookie: its value and the end of its Max-Age
  calls,      \* the call each request answers
  smooth      \* history: see PageNamesCookie

server == <<now, sessions, h>>
react == <<session, route, form>>
vars == <<server, react, jar, calls, smooth>>

Server == INSTANCE Sessions WITH UserIds <- Emails

Ops == {"me", "requestOtp", "verifyOtp", "logout"}

ASSUME NamesAssumption ==
  /\ None \notin SessionIds \cup Emails \cup Ops \cup {"loading"}
  /\ "loading" \notin Emails
ASSUME BoundsAssumption == sessionTTL \in Nat /\ MaxTime \in Nat

\* The calls whose answer carries a Set-Cookie.
CookieOps == {"verifyOtp", "logout"}

\* pc: waiting for the answer; one with a Set-Cookie is on its way; its headers
\* are in; it will not come; nobody waits for it any more.  ok: its status is
\* 200.  email: the one the call was made with, and in an answer of me the one
\* it names.  login: the session opened by verifyOtp.  mine: the LoginPage that
\* made the call is still mounted.
Call == [op : Ops \cup {None}, pc : {"waiting", "answered", "arrived", "lost", "gone"},
         ok : BOOLEAN, email : Emails \cup {None}, login : SessionIds \cup {None},
         mine : BOOLEAN]

NoCall == [op |-> None, pc |-> "gone", ok |-> FALSE, email |-> None, login |-> None,
           mine |-> FALSE]

Form == [stage : {"email", "code"}, email : Emails \cup {None}, submitting : BOOLEAN]
Fresh == [stage |-> "email", email |-> None, submitting |-> FALSE]

NoCookie == [session |-> None, until |-> 0]

\* What the browser sends along: a cookie is gone after its Max-Age.
Presented == IF jar.session # None /\ now <= jar.until THEN jar.session ELSE None

Init ==
  /\ Server!Init
  /\ session = None /\ route = "closed" /\ form = Fresh
  /\ jar = NoCookie
  /\ calls = [r \in Requests |-> NoCall]
  /\ smooth = TRUE

-----------------------------------------------------------------------------
(* React                                                                   *)

\* The mutants of this module, named <definition>_<what is wrong>, are bugs the
\* code might have had; nothing else uses them.

\* LoginRoute: LoginPage is mounted.
LoginPage(s, path) == path = "/login" /\ s = None

\* The form is kept, with its calls, when LoginPage is unmounted.
Render_KeepsForm(s, path, f, cs) ==
  /\ session' = s
  /\ route' = IF s \in Emails THEN "/" ELSE path
  /\ form' = f /\ calls' = cs

\* React renders: a LoginPage that is unmounted loses its state, and the calls
\* it made have no form to go back to; LoginRoute sends users to "/".
Render(s, path, f, cs) ==
  /\ session' = s
  /\ route' = IF s \in Emails THEN "/" ELSE path
  /\ IF LoginPage(session, route) /\ LoginPage(s, path)
       THEN form' = f /\ calls' = cs
       ELSE form' = Fresh /\ calls' = [r \in Requests |-> [cs[r] EXCEPT !.mine = FALSE]]

\* A call of client.ts leaves the browser, to a route of the server.
Send(r, op, to, email) ==
  /\ calls[r] = NoCall
  /\ Server!Request(r, to, Presented)
  /\ calls' = [calls EXCEPT ![r] = [op |-> op, pc |-> "waiting", ok |-> FALSE,
       email |-> email, login |-> None, mine |-> LoginPage(session, route)]]

\* A call of this kind is still in flight: a login from a LoginPage since
\* unmounted, a logout from a first click, or the other me of StrictMode.
Overlaps(op) == \E r \in Requests : calls[r].op = op /\ calls[r].pc # "gone"

\* A call nobody waits for any more; the server may be at work on it.
Forgotten(r) ==
  IF h[r].pc = "idle" THEN NoCall ELSE [calls[r] EXCEPT !.pc = "gone", !.mine = FALSE]

\* The page is loaded or reloaded: the calls of the page before are aborted,
\* though the server may go on with them, and AuthProvider calls me.
Load(r) ==
  /\ Server!Request(r, "protected", Presented)
  /\ calls[r] = NoCall
  /\ calls' = [q \in Requests |->
       IF q = r THEN [NoCall EXCEPT !.op = "me", !.pc = "waiting"] ELSE Forgotten(q)]
  /\ session' = "loading" /\ form' = Fresh
  /\ route' \in {"/", "/login"}
  /\ smooth' = TRUE
  /\ UNCHANGED jar

\* StrictMode runs the effect of AuthProvider twice in the development server,
\* which is what the Dockerfile runs; a production build runs it once.
Again(r) ==
  /\ session = "loading"
  /\ Cardinality({q \in Requests : calls[q].op = "me" /\ calls[q].pc # "gone"}) = 1
  /\ Send(r, "me", "protected", None)
  /\ UNCHANGED <<react, jar, smooth>>

\* The link of AppNav, and the browser's buttons.
Navigate ==
  /\ route # "closed"
  /\ \E path \in {"/", "/login"} \ {route} : Render(session, path, form, calls)
  /\ UNCHANGED <<server, jar, smooth>>

\* LoginPage: the fields stay open while a call is in flight.
EditEmail(email) ==
  /\ LoginPage(session, route) /\ form.stage = "email"
  /\ form' = [form EXCEPT !.email = email]
  /\ UNCHANGED <<server, session, route, jar, calls, smooth>>

\* "Change email" makes the whole form anew, its buttons enabled.
ChangeEmail_Resets ==
  /\ LoginPage(session, route) /\ form.stage = "code"
  /\ form' = [form EXCEPT !.stage = "email", !.submitting = FALSE]
  /\ UNCHANGED <<server, session, route, jar, calls, smooth>>

ChangeEmail ==
  /\ LoginPage(session, route) /\ form.stage = "code"
  /\ form' = [form EXCEPT !.stage = "email"]
  /\ UNCHANGED <<server, session, route, jar, calls, smooth>>

handleRequestCode(r) ==
  /\ LoginPage(session, route) /\ form.stage = "email"
  /\ ~form.submitting /\ form.email # None
  /\ Send(r, "requestOtp", "public", form.email)
  /\ form' = [form EXCEPT !.submitting = TRUE]
  /\ UNCHANGED <<session, route, jar, smooth>>

handleVerifyCode(r) ==
  /\ LoginPage(session, route) /\ form.stage = "code" /\ ~form.submitting
  /\ Send(r, "verifyOtp", "public", form.email)
  /\ form' = [form EXCEPT !.submitting = TRUE]
  /\ smooth' = (smooth /\ ~Overlaps("verifyOtp") /\ ~Overlaps("me"))
  /\ UNCHANGED <<session, route, jar>>

\* AppNav: the button is not disabled by a logout in flight.
handleLogout(r) ==
  /\ route = "/" /\ session \in Emails
  /\ Send(r, "logout", "logout", None)
  /\ smooth' = (smooth /\ ~Overlaps("logout") /\ ~Overlaps("me"))
  /\ UNCHANGED <<react, jar>>

\* setSession with the email in the field by then.
Identity_Field(r) == IF calls[r].mine THEN form.email ELSE calls[r].email

\* Whom the session is set to: the answer's email, or the form's when it was
\* submitted, which the closure of handleVerifyCode keeps.
Identity(r) == calls[r].email

\* Leaves setSubmitting(false) out when the call fails.
Settled_NoFinally(r, resolved) ==
  IF ~calls[r].mine \/ ~resolved THEN form
  ELSE IF calls[r].op = "requestOtp"
    THEN [form EXCEPT !.submitting = FALSE, !.stage = "code"]
    ELSE [form EXCEPT !.submitting = FALSE]

\* LoginPage after the await: setStage('code'), and setSubmitting(false).
Settled(r, resolved) ==
  IF ~calls[r].mine THEN form
  ELSE IF calls[r].op = "requestOtp" /\ resolved
    THEN [form EXCEPT !.submitting = FALSE, !.stage = "code"]
    ELSE [form EXCEPT !.submitting = FALSE]

\* fetch resolves with any status.
Resolved_AnyStatus(r) == calls[r].pc = "arrived"

\* request of client.ts: a status that is not 200 is an ApiError and rejects,
\* as a lost answer does.
Resolved(r) == calls[r].pc = "arrived" /\ calls[r].ok

\* fetchMe without a catch.
Known_NoCatch(r, resolved) ==
  CASE calls[r].op \in {"me", "verifyOtp"} /\ resolved -> Identity(r)
    [] calls[r].op = "logout" /\ resolved -> None
    [] OTHER -> session

\* What setSession is called with: any failure of me counts as logged out, and
\* one of verifyOtp or logout as nothing; handleLogout has no catch.
Known(r, resolved) ==
  CASE calls[r].op \in {"me", "verifyOtp"} /\ resolved -> Identity(r)
    [] calls[r].op = "me" /\ ~resolved -> None
    [] calls[r].op = "logout" /\ resolved -> None
    [] OTHER -> session

\* The promise of a call settles.
Settle(r) ==
  /\ calls[r].pc \in {"arrived", "lost"}
  /\ Render(Known(r, Resolved(r)), route, Settled(r, Resolved(r)),
            [calls EXCEPT ![r] = Forgotten(r)])
  /\ UNCHANGED <<server, jar, smooth>>

-----------------------------------------------------------------------------
(* The server and the network                                              *)

\* The answer of a call is lost, and the server has done with it.
Unanswered(r) == [NoCall EXCEPT !.op = calls[r].op, !.pc = "lost", !.mine = calls[r].mine]

Middleware(r) ==
  /\ \/ Server!Lookup(r) \/ Server!CheckExpiry(r) \/ Server!Extend(r)
     \/ Server!DatabaseError(r)
  /\ UNCHANGED <<react, jar, calls, smooth>>

\* VerifyOTP accepts the code and opens a session.
Login(r) ==
  /\ h[r].pc = "serve" /\ calls[r].op = "verifyOtp" /\ calls[r].login = None
  /\ \E s \in SessionIds :
       /\ Server!CreateSession(s, calls[r].email)
       /\ calls' = [calls EXCEPT ![r].login = s]
  /\ UNCHANGED <<react, jar, smooth>>

\* The handler answers: with 200 if there is a user, for me, or a session, for
\* verifyOtp, and any statement left to do succeeds; logout always.
Answer(r) ==
  LET op == calls[r].op
      Can == CASE op = "me" -> h[r].user # None
               [] op = "verifyOtp" -> calls[r].login # None
               [] OTHER -> TRUE
  IN /\ Server!Handle(r) \/ Server!Logout(r)
     /\ \E ok \in BOOLEAN :
          /\ ok => Can
          /\ op = "logout" => ok
          /\ calls' = [calls EXCEPT ![r] =
               CASE calls[r].pc = "waiting" ->
                      [calls[r] EXCEPT
                         !.pc = IF op \in CookieOps THEN "answered" ELSE "arrived",
                         !.ok = ok, !.email = IF op = "me" THEN h[r].user ELSE calls[r].email]
                 [] calls[r].pc = "lost" -> Unanswered(r)
                 [] calls[r].pc = "gone" -> NoCall]
     /\ UNCHANGED <<react, jar, smooth>>

\* The headers of an answer: the browser keeps or drops the cookie.
SetCookie(r) ==
  /\ calls[r].pc = "answered"
  /\ jar' = IF calls[r].op = "logout" THEN NoCookie
            ELSE IF calls[r].ok THEN [session |-> calls[r].login, until |-> now + sessionTTL]
            ELSE jar
  /\ calls' = [calls EXCEPT ![r].pc = "arrived"]
  /\ UNCHANGED <<server, react, smooth>>

\* The network fails, before or after the headers are in.
Lose(r) ==
  /\ calls[r].pc \in {"waiting", "answered", "arrived"}
  /\ calls' = [calls EXCEPT ![r] =
       IF @.pc = "waiting" THEN [@ EXCEPT !.pc = "lost"] ELSE Unanswered(r)]
  /\ smooth' = (smooth /\ ~(calls[r].op = "logout" /\ calls[r].pc = "arrived"))
  /\ UNCHANGED <<server, react, jar>>

\* The server dies: the calls it has not answered are lost.
Crash ==
  /\ Server!Crash
  /\ calls' = [r \in Requests |->
       IF calls[r].pc \in {"waiting", "lost"} THEN Unanswered(r)
       ELSE IF calls[r].pc = "gone" THEN NoCall ELSE calls[r]]
  /\ UNCHANGED <<react, jar, smooth>>

Tick == Server!Tick /\ UNCHANGED <<react, jar, calls, smooth>>

Next ==
  \/ \E r \in Requests :
       \/ Load(r) \/ Again(r) \/ handleRequestCode(r) \/ handleVerifyCode(r) \/ handleLogout(r)
       \/ Middleware(r) \/ Login(r) \/ Answer(r) \/ SetCookie(r) \/ Settle(r) \/ Lose(r)
  \/ \E email \in Emails : EditEmail(email)
  \/ Navigate \/ ChangeEmail
  \/ Crash \/ Tick

Spec == Init /\ [][Next]_vars

\* What RequestOTP waits for is the mail relay.
AtRelay(r) == calls[r].op = "requestOtp" /\ h[r].pc = "serve"

\* The server answers, unless it waits for the relay, and the network delivers
\* the answer or fails; nothing makes the user do anything.
FairSpec ==
  Spec /\ \A r \in Requests :
            /\ WF_vars(Middleware(r) \/ (~AtRelay(r) /\ Answer(r)))
            /\ WF_vars(SetCookie(r)) /\ WF_vars(Settle(r))

-----------------------------------------------------------------------------
(* Properties                                                              *)

\* Types; a call that is being served is the server's request; the form has
\* state only while it is mounted.
TypeOK ==
  /\ Server!TypeOK
  /\ session \in Emails \cup {None, "loading"}
  /\ route \in {"closed", "/", "/login"}
  /\ form \in Form /\ (~LoginPage(session, route) => form = Fresh)
  /\ jar \in [session : SessionIds \cup {None}, until : Nat]
  /\ calls \in [Requests -> Call]
  /\ smooth \in BOOLEAN
  /\ \A r \in Requests : calls[r].pc \in {"waiting"} => h[r].pc # "idle"
  /\ \A r \in Requests : h[r].pc # "idle" => calls[r] # NoCall

\* A page that shows nothing waits for somebody: whatever is lost, answers late
\* or fails, no state is left loading with no call of me to end it.
LoadingAsks ==
  session = "loading" => \E r \in Requests : calls[r].op = "me" /\ calls[r].pc # "gone"

\* The form's submit button is disabled exactly while a call of its own is in flight,
\* which is one call, through every change of stage, of page and of user: a form
\* that stays mounted sends nothing twice.
OneSubmission ==
  /\ form.submitting <=> \E r \in Requests : calls[r].mine
  /\ \A r, q \in Requests : calls[r].mine /\ calls[q].mine => r = q

\* The page never names somebody the server has opened no session for,
\* whatever was typed into the form while a login was in flight.
ClaimEarned == session \in Emails => \E s \in SessionIds : sessions[s].user = session

\* What the page says is what the cookie is: while the page names a user the
\* cookie is of a session opened for that user (deleted, maybe, by a logout whose
\* answer was lost).  smooth excepts, until the page is loaded anew: two logins or
\* two logouts in flight together, whose cookies may come in another order; a
\* login or a logout sent while the other me of StrictMode is in flight, which
\* may answer after it (Overlaps); a logout whose answer breaks off (Lose).
PageNamesCookie ==
  smooth /\ session \in Emails =>
    \/ jar.session # None /\ sessions[jar.session].user = session
    \/ \E r \in Requests : calls[r].op = "logout" /\ calls[r].pc = "arrived"

\* "The expiry is moved on every authenticated request, so that an active user
\* is not logged out between visits": the browser keeps its cookie as long as
\* the server would accept it.
ActiveStaysIn ==
  \A s \in SessionIds :
    jar.session = s /\ sessions[s].stored /\ now <= sessions[s].expires_at => Presented = s

\* Once the user stops reloading, the page learns who is logged in.
LoadingEnds == <>[][~ \E r \in Requests : Load(r)]_vars => <>[](session # "loading")

\* The buttons of LoginPage do not stay disabled, unless a code is being mailed
\* by a relay that does not answer.
SubmittingEnds ==
  form.submitting ~> ~form.submitting \/ \E r \in Requests : calls[r].mine /\ AtRelay(r)
=============================================================================
