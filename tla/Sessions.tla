------------------------------ MODULE Sessions ------------------------------
(***************************************************************************)
(* Sessions: package backend/internal/auth once a login has succeeded.     *)
(* Every request of the API passes through Middleware, which looks up the  *)
(* session its cookie names and renews it, and then reaches its handler,   *)
(* behind RequireAuth or not.  Each SQL statement is one atomic step; the  *)
(* steps of requests in flight interleave freely.                          *)
(***************************************************************************)
EXTENDS Integers, FiniteSets

CONSTANTS
  SessionIds,   \* ids generateSessionID may return; none is ever returned twice
  UserIds,      \* users.id
  Requests,     \* the requests that may be in flight at the same time
  None,         \* an absent value
  sessionTTL,
  MaxTime       \* bound: clock

ASSUME NoneAssumption == None \notin SessionIds \cup UserIds
ASSUME TimesAssumption == sessionTTL \in Nat /\ MaxTime \in Nat

VARIABLES
  now,        \* the clock, time.Now()
  sessions,   \* table sessions, by id
  h           \* the handler of each request: where it stands, its locals

vars == <<now, sessions, h>>

\* How a route is served: behind RequireAuth (GET /api/auth/me,
\* /api/children), without it (/healthz, /api/catalog, /api/auth/otp), or
\* POST /api/auth/logout.
Routes == {"protected", "public", "logout"}

\* stored: FALSE before INSERT and after DELETE.  user: None before INSERT;
\* kept after DELETE, as history.
SessionRow == [stored : BOOLEAN, user : UserIds \cup {None}, expires_at : Nat]

\* user: the user_id read, and in "serve" the user id in the request context.
\* expires: the expires_at read, then the one to be written.
\* late: history, the session had been deleted before the request arrived.
Handler == [pc : {"idle", "lookup", "check", "extend", "serve"}, route : Routes,
            cookie : SessionIds \cup {None}, user : UserIds \cup {None},
            expires : Nat, late : BOOLEAN]

Blank == [pc |-> "idle", route |-> "public", cookie |-> None, user |-> None,
          expires |-> 0, late |-> FALSE]

Opened(s) == sessions[s].user # None

At(r, step) == h[r].pc = step
Become(r, handler) == h' = [h EXCEPT ![r] = handler]
Answer(r) == Become(r, Blank)

\* Middleware hands the request on, for user u or, if None, for nobody.
Serve(r, u) == Become(r, [h[r] EXCEPT !.pc = "serve", !.user = u])

Init ==
  /\ now = 0
  /\ sessions = [s \in SessionIds |-> [stored |-> FALSE, user |-> None, expires_at |-> 0]]
  /\ h = [r \in Requests |-> Blank]

-----------------------------------------------------------------------------
\* The mutants of this module, named <definition>_<what is wrong>, are bugs the
\* code might have had; nothing else uses them.

\* Session ids that may come up again.
CreateSession_AnyId(s, u) ==
  /\ \E sampled \in 0..now :
       sessions' = [sessions EXCEPT ![s] =
         [stored |-> TRUE, user |-> u, expires_at |-> sampled + sessionTTL]]
  /\ UNCHANGED <<now, h>>

\* createSession: time.Now() is read some time before the INSERT takes effect.
\* The id is 256 random bits: a new one.
CreateSession(s, u) ==
  /\ ~Opened(s)
  /\ \E sampled \in 0..now :
       sessions' = [sessions EXCEPT ![s] =
         [stored |-> TRUE, user |-> u, expires_at |-> sampled + sessionTTL]]
  /\ UNCHANGED <<now, h>>

-----------------------------------------------------------------------------
(* Middleware                                                              *)

\* A request arrives, with a cookie the server once set or with none.
Request(r, route, s) ==
  /\ At(r, "idle")
  /\ s # None => Opened(s)
  /\ Become(r, [Blank EXCEPT !.pc = IF s = None THEN "serve" ELSE "lookup",
                             !.route = route, !.cookie = s,
                             !.late = s # None /\ ~sessions[s].stored])
  /\ UNCHANGED <<now, sessions>>

\* lookupSession: SELECT user_id, expires_at.
Lookup(r) ==
  LET row == sessions[h[r].cookie]
  IN /\ At(r, "lookup")
     /\ \/ ~row.stored /\ Serve(r, None)
        \/ /\ row.stored
           /\ Become(r, [h[r] EXCEPT !.pc = "check", !.user = row.user,
                                     !.expires = row.expires_at])
     /\ UNCHANGED <<now, sessions>>

\* Renews whatever row it has read.
CheckExpiry_Never(r) ==
  /\ At(r, "check")
  /\ Become(r, [h[r] EXCEPT !.pc = "extend", !.expires = now + sessionTTL])
  /\ UNCHANGED <<now, sessions>>

\* lookupSession: the row read may have expired; if not, the new expiry.
CheckExpiry(r) ==
  /\ At(r, "check")
  /\ \/ now > h[r].expires /\ Serve(r, None)
     \/ /\ now <= h[r].expires
        /\ Become(r, [h[r] EXCEPT !.pc = "extend", !.expires = now + sessionTTL])
  /\ UNCHANGED <<now, sessions>>

\* INSERT ... ON CONFLICT DO UPDATE instead of UPDATE.
Extend_Upsert(r) ==
  /\ At(r, "extend")
  /\ sessions' = [sessions EXCEPT ![h[r].cookie] =
       [stored |-> TRUE, user |-> h[r].user, expires_at |-> h[r].expires]]
  /\ Serve(r, h[r].user)
  /\ UNCHANGED now

\* SET expires_at = expires_at + sessionTTL.
Extend_Accumulates(r) ==
  /\ At(r, "extend")
  /\ sessions' = [sessions EXCEPT ![h[r].cookie].expires_at =
       IF sessions[h[r].cookie].stored THEN @ + sessionTTL ELSE @]
  /\ Serve(r, h[r].user)
  /\ UNCHANGED now

\* lookupSession: UPDATE sessions SET expires_at.  No row is not an error; an
\* error, here after the effect, leaves the request anonymous.
Extend(r) ==
  /\ At(r, "extend")
  /\ sessions' = [sessions EXCEPT ![h[r].cookie].expires_at =
       IF sessions[h[r].cookie].stored THEN h[r].expires ELSE @]
  /\ Serve(r, h[r].user) \/ Serve(r, None)
  /\ UNCHANGED now

\* A statement of lookupSession fails without effect: Middleware drops the
\* error and serves the request as an anonymous one.
DatabaseError(r) ==
  /\ At(r, "lookup") \/ At(r, "extend")
  /\ Serve(r, None)
  /\ UNCHANGED <<now, sessions>>

-----------------------------------------------------------------------------
(* The handlers                                                            *)

\* RequireAuth answers 401 to nobody; otherwise the handler runs and answers.
\* Neither touches the sessions.
Handle(r) ==
  /\ At(r, "serve") /\ h[r].route # "logout"
  /\ Answer(r)
  /\ UNCHANGED <<now, sessions>>

\* Logout: DELETE FROM sessions, unless it fails; the error is dropped, the
\* cookie cleared and 200 answered either way.
Logout(r) ==
  LET s == h[r].cookie
  IN /\ At(r, "serve") /\ h[r].route = "logout"
     /\ \/ s # None /\ sessions' = [sessions EXCEPT ![s].stored = FALSE]
        \/ UNCHANGED sessions
     /\ Answer(r)
     /\ UNCHANGED now

\* The server dies and is restarted: the handlers are lost, the table stays.
Crash ==
  /\ \E r \in Requests : ~At(r, "idle")
  /\ h' = [r \in Requests |-> Blank]
  /\ UNCHANGED <<now, sessions>>

Tick ==
  /\ now < MaxTime
  /\ now' = now + 1
  /\ UNCHANGED <<sessions, h>>

Next ==
  \/ \E s \in SessionIds, u \in UserIds : CreateSession(s, u)
  \/ \E r \in Requests, route \in Routes, s \in SessionIds \cup {None} :
       Request(r, route, s)
  \/ \E r \in Requests :
       \/ Lookup(r) \/ CheckExpiry(r) \/ Extend(r) \/ DatabaseError(r)
       \/ Handle(r) \/ Logout(r)
  \/ Crash
  \/ Tick

Spec == Init /\ [][Next]_vars

-----------------------------------------------------------------------------
(* Properties                                                              *)

\* A handler's user is the one its session was opened for; it has a session
\* in hand while Middleware works on it.
LocalsOK(r) ==
  /\ h[r].cookie # None => Opened(h[r].cookie)
  /\ h[r].user # None => h[r].cookie # None /\ h[r].user = sessions[h[r].cookie].user
  /\ h[r].pc \in {"lookup", "check", "extend"} => h[r].cookie # None
  /\ At(r, "idle") => h[r] = Blank

\* Types, and what the locals of a handler refer to.
TypeOK ==
  /\ now \in 0..MaxTime
  /\ sessions \in [SessionIds -> SessionRow]
  /\ h \in [Requests -> Handler]
  /\ \A s \in SessionIds : sessions[s].stored => Opened(s)
  /\ \A r \in Requests : LocalsOK(r)

\* Once a session row is deleted no request that arrives later acts for its
\* user, whatever renewals (Extend) were in flight when it was deleted.
NoAccessAfterRevocation == \A r \in Requests : h[r].late => h[r].user = None

\* "Sliding its expiry forward by sessionTTL": however renewals interleave and
\* however late they take effect, no session is good for more than sessionTTL
\* from now, so one that is no longer used ends.
ExpiryBounded ==
  \A s \in SessionIds : sessions[s].stored => sessions[s].expires_at <= now + sessionTTL

\* A session that has expired while no request that read it in time is about to
\* renew it.
Expired(s) ==
  /\ sessions[s].stored /\ sessions[s].expires_at < now
  /\ \A r \in Requests : h[r].cookie = s =>
       ~At(r, "extend") /\ (At(r, "check") => h[r].expires < now)

\* "ok is false if the session ... has expired": from then on no request,
\* whatever it has read, renews the session or is let in by it anew.
ExpiredStaysExpired ==
  [][\A s \in SessionIds : Expired(s) =>
       /\ Expired(s)' \/ ~sessions'[s].stored
       /\ \A r \in Requests : h'[r].cookie = s /\ At(r, "serve")' /\ h'[r].user # None =>
            At(r, "serve")]_vars

\* A row open, or gone; the sessions as SessionGate sees them.
Life(s) == IF ~Opened(s) THEN "fresh" ELSE IF sessions[s].stored THEN "open" ELSE "closed"

Gate == INSTANCE SessionGate WITH
  life <- [s \in SessionIds |-> Life(s)],
  owner <- [s \in SessionIds |-> sessions[s].user],
  asks <- [r \in Requests |-> h[r].cookie],
  granted <- [r \in Requests |-> h[r].user]

\* Middleware's three statements and Logout's one keep the promise of
\* SessionGate: the SELECT is the moment at which access is granted.
GateSpec == Gate!Spec
=============================================================================
