----------------------------- MODULE SessionGate -----------------------------
(***************************************************************************)
(* What the sessions of package auth promise the handlers behind           *)
(* Middleware, whatever the statements in between and their interleaving:  *)
(* a session opens once, for one user, and closes for good, and a request  *)
(* acts for a user only after a moment of its own lifetime at which the    *)
(* session it presents was open.  Sessions implements this module.         *)
(***************************************************************************)

CONSTANTS SessionIds, UserIds, Requests, None

VARIABLES
  life,      \* of each session: fresh, open or closed
  owner,     \* of each session: its user, None while fresh
  asks,      \* of each request: the session it presents, None without one
  granted    \* of each request: the user it acts for, None if anonymous

vars == <<life, owner, asks, granted>>

Init ==
  /\ life = [s \in SessionIds |-> "fresh"]
  /\ owner = [s \in SessionIds |-> None]
  /\ asks = [r \in Requests |-> None]
  /\ granted = [r \in Requests |-> None]

Open(s, u) ==
  /\ life[s] = "fresh"
  /\ life' = [life EXCEPT ![s] = "open"]
  /\ owner' = [owner EXCEPT ![s] = u]
  /\ UNCHANGED <<asks, granted>>

\* A logout: it closes the session it presents and is answered.
Close(r) ==
  /\ asks[r] # None
  /\ life' = [life EXCEPT ![asks[r]] = "closed"]
  /\ asks' = [asks EXCEPT ![r] = None]
  /\ granted' = [granted EXCEPT ![r] = None]
  /\ UNCHANGED owner

Ask(r, s) ==
  /\ asks[r] = None /\ life[s] # "fresh"
  /\ asks' = [asks EXCEPT ![r] = s]
  /\ UNCHANGED <<life, owner, granted>>

Grant(r) ==
  /\ asks[r] # None /\ life[asks[r]] = "open"
  /\ granted' = [granted EXCEPT ![r] = owner[asks[r]]]
  /\ UNCHANGED <<life, owner, asks>>

\* Refused after all: the session had expired or could not be renewed.
Deny(r) ==
  /\ granted' = [granted EXCEPT ![r] = None]
  /\ UNCHANGED <<life, owner, asks>>

Answer(r) ==
  /\ asks' = [asks EXCEPT ![r] = None]
  /\ granted' = [granted EXCEPT ![r] = None]
  /\ UNCHANGED <<life, owner>>

Crash ==
  /\ asks' = [r \in Requests |-> None]
  /\ granted' = [r \in Requests |-> None]
  /\ UNCHANGED <<life, owner>>

Next ==
  \/ \E s \in SessionIds, u \in UserIds : Open(s, u)
  \/ \E r \in Requests : Close(r) \/ Grant(r) \/ Deny(r) \/ Answer(r)
  \/ \E r \in Requests, s \in SessionIds : Ask(r, s)
  \/ Crash

Spec == Init /\ [][Next]_vars
=============================================================================
