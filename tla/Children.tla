------------------------------ MODULE Children ------------------------------
(***************************************************************************)
(* The child profiles of a parent: package backend/internal/child, behind  *)
(* auth.RequireAuth.  The sessions in front of it are those SessionGate    *)
(* promises (module Sessions implements it).  A handler validates its      *)
(* input, then runs one SQL statement, which is one atomic step;           *)
(* validation and statement of different requests interleave freely.       *)
(***************************************************************************)
EXTENDS Integers, FiniteSets

CONSTANTS
  SessionIds, UserIds, Requests, None,   \* as in SessionGate
  RawNames,       \* names as a client may submit them; with None, no name
  Names,          \* trimmed names
  validateName,   \* what validateName makes of a raw name; None: an error
  Dates,          \* days a client may submit as a birth date
  MaxChild,       \* bound: rows ever inserted into children
  MaxTime         \* bound: clock, in days

ASSUME NoneAssumption == None \notin SessionIds \cup UserIds \cup Names \cup Int
ASSUME NamesAssumption == validateName \in [RawNames \cup {None} -> Names \cup {None}]
ASSUME DatesAssumption == Dates \subseteq Int /\ MaxChild \in Nat /\ MaxTime \in Nat

VARIABLES
  life, owner, asks, granted,   \* see SessionGate
  now,        \* today
  children,   \* table children, by id
  last_id,    \* the last id its identity column has handed out
  call,       \* of each request: the statement its handler is about to run
  shown       \* history: the children each user has been shown in an answer

Gate == INSTANCE SessionGate

gateVars == <<life, owner, asks, granted>>
vars == <<life, owner, asks, granted, now, children, last_id, call, shown>>

ChildIds == 1..MaxChild

\* stored: FALSE before INSERT and after DELETE.  consent: whether the insert
\* stamping consent_child_data_at had the parent's consent.
ChildRow == [stored : BOOLEAN, parent : UserIds \cup {None}, name : Names \cup {None},
             birth_date : Dates \cup {None}, consent : BOOLEAN]

\* parent: auth.UserID.  name, birth_date: None where a PATCH leaves the column
\* alone.  id 0: an id no row has.
Call == [op : {"none", "insert", "list", "update", "delete"}, parent : UserIds \cup {None},
         id : ChildIds \cup {0}, name : Names \cup {None}, birth_date : Dates \cup {None},
         consent : BOOLEAN]

NoCall == [op |-> "none", parent |-> None, id |-> 0, name |-> None, birth_date |-> None,
           consent |-> FALSE]

Init ==
  /\ Gate!Init
  /\ now = 0
  /\ children = [i \in ChildIds |-> [stored |-> FALSE, parent |-> None, name |-> None,
                                     birth_date |-> None, consent |-> FALSE]]
  /\ last_id = 0
  /\ call = [r \in Requests |-> NoCall]
  /\ shown = {}

Runs(r, op) == call[r].op = op

-----------------------------------------------------------------------------
(* The handlers up to their statement: RequireAuth and UserID (401), then  *)
(* the input (400), then the statement.                                    *)

\* The handler answers, or goes on to run statement c for its user.
Refuse(r) == Gate!Answer(r) /\ UNCHANGED call
Run(r, c) == call' = [call EXCEPT ![r] = c] /\ UNCHANGED gateVars

Enter(r, valid, c) ==
  /\ Runs(r, "none") /\ asks[r] # None
  /\ IF granted[r] # None /\ valid
       THEN Run(r, [c EXCEPT !.parent = granted[r]])
       ELSE Refuse(r)
  /\ UNCHANGED <<now, children, last_id, shown>>

\* parseBirthDate: a day not after today.  A string that is no date is treated
\* like one after today.
ValidDate(d) == d # None /\ d <= now

\* The mutants of this module, named <definition>_<what is wrong>, are bugs the
\* code might have had; nothing else uses them.
Create_ConsentIgnored(r, name, d, consent) ==
  Enter(r, validateName[name] # None /\ ValidDate(d),
        [NoCall EXCEPT !.op = "insert", !.name = validateName[name], !.birth_date = d,
                       !.consent = consent])

\* POST /api/children
Create(r, name, d, consent) ==
  Enter(r, validateName[name] # None /\ ValidDate(d) /\ consent,
        [NoCall EXCEPT !.op = "insert", !.name = validateName[name], !.birth_date = d,
                       !.consent = consent])

\* GET /api/children
List(r) == Enter(r, TRUE, [NoCall EXCEPT !.op = "list"])

Update_DateUnchecked(r, id, name, d) ==
  Enter(r, name # None => validateName[name] # None,
        [NoCall EXCEPT !.op = "update", !.id = id, !.birth_date = d,
                       !.name = IF name = None THEN None ELSE validateName[name]])

\* PATCH /api/children/{id}: what the body leaves out is not validated.
Update(r, id, name, d) ==
  Enter(r, (name # None => validateName[name] # None) /\ (d # None => ValidDate(d)),
        [NoCall EXCEPT !.op = "update", !.id = id, !.birth_date = d,
                       !.name = IF name = None THEN None ELSE validateName[name]])

\* DELETE /api/children/{id}
Delete(r, id) == Enter(r, TRUE, [NoCall EXCEPT !.op = "delete", !.id = id])

-----------------------------------------------------------------------------
(* The statements                                                          *)

\* The handler answers with the children ids, or, the statement having failed
\* after its effect, with an error.
Reply(r, ids) ==
  /\ shown' = shown \cup ({owner[asks[r]]} \X ids) \/ UNCHANGED shown
  /\ call' = [call EXCEPT ![r] = NoCall]
  /\ Gate!Answer(r)

\* WHERE id = i AND parent_id = p, and without id.
Owned(p) == {i \in ChildIds : children[i].stored /\ children[i].parent = p}
Mine(r) == Owned(call[r].parent) \cap {call[r].id}

\* createChild: INSERT INTO children ... RETURNING.
CreateChild(r) ==
  LET id == last_id + 1
  IN /\ Runs(r, "insert")
     /\ last_id < MaxChild
     /\ last_id' = id
     /\ children' = [children EXCEPT ![id] =
          [stored |-> TRUE, parent |-> call[r].parent, name |-> call[r].name,
           birth_date |-> call[r].birth_date, consent |-> call[r].consent]]
     /\ Reply(r, {id})
     /\ UNCHANGED now

ListChildren_All(r) ==
  /\ Runs(r, "list")
  /\ Reply(r, {i \in ChildIds : children[i].stored})
  /\ UNCHANGED <<now, children, last_id>>

\* listChildren: SELECT ... WHERE parent_id.
ListChildren(r) ==
  /\ Runs(r, "list")
  /\ Reply(r, Owned(call[r].parent))
  /\ UNCHANGED <<now, children, last_id>>

\* The columns a PATCH sets.
Patched(row, c) ==
  [row EXCEPT !.name = IF c.name = None THEN @ ELSE c.name,
              !.birth_date = IF c.birth_date = None THEN @ ELSE c.birth_date]

\* WHERE id = i only.
UpdateChild_AnyParent(r) ==
  LET mine == {i \in ChildIds : children[i].stored /\ i = call[r].id}
  IN /\ Runs(r, "update")
     /\ children' = [i \in ChildIds |->
          IF i \in mine THEN Patched(children[i], call[r]) ELSE children[i]]
     /\ Reply(r, mine)
     /\ UNCHANGED <<now, last_id>>

\* The row is written back even if it has been deleted since.
UpdateChild_Upsert(r) ==
  LET mine == {i \in ChildIds : children[i].parent = call[r].parent /\ i = call[r].id}
  IN /\ Runs(r, "update")
     /\ children' = [i \in ChildIds |->
          IF i \in mine THEN [Patched(children[i], call[r]) EXCEPT !.stored = TRUE]
                        ELSE children[i]]
     /\ Reply(r, mine)
     /\ UNCHANGED <<now, last_id>>

\* updateChild: UPDATE ... RETURNING; no row is errNotFound, a 404.
UpdateChild(r) ==
  /\ Runs(r, "update")
  /\ children' = [i \in ChildIds |->
       IF i \in Mine(r) THEN Patched(children[i], call[r]) ELSE children[i]]
  /\ Reply(r, Mine(r))
  /\ UNCHANGED <<now, last_id>>

\* deleteChild: DELETE FROM children; no row is errNotFound, a 404.
DeleteChild(r) ==
  /\ Runs(r, "delete")
  /\ children' = [i \in ChildIds |->
       [children[i] EXCEPT !.stored = @ /\ i \notin Mine(r)]]
  /\ Reply(r, {})
  /\ UNCHANGED <<now, last_id>>

\* The statement fails without effect: 500.
DatabaseError(r) ==
  /\ ~Runs(r, "none")
  /\ call' = [call EXCEPT ![r] = NoCall]
  /\ Gate!Answer(r)
  /\ UNCHANGED <<now, children, last_id, shown>>

-----------------------------------------------------------------------------
(* Around the handlers                                                     *)

\* Logins, Middleware at work on request r, and the other routes.
Sessions ==
  /\ \/ \E s \in SessionIds, u \in UserIds : Gate!Open(s, u)
     \/ \E r \in Requests, s \in SessionIds : Gate!Ask(r, s)
     \/ \E r \in Requests :
          /\ Runs(r, "none")
          /\ Gate!Grant(r) \/ Gate!Deny(r) \/ Gate!Answer(r) \/ Gate!Close(r)
  /\ UNCHANGED <<now, children, last_id, call, shown>>

\* The server dies and is restarted: the handlers are lost, the table stays.
Crash ==
  /\ Gate!Crash
  /\ call' = [r \in Requests |-> NoCall]
  /\ UNCHANGED <<now, children, last_id, shown>>

Tick ==
  /\ now < MaxTime
  /\ now' = now + 1
  /\ UNCHANGED <<life, owner, asks, granted, children, last_id, call, shown>>

Next ==
  \/ \E r \in Requests, name \in RawNames \cup {None}, d \in Dates \cup {None} :
       \/ \E consent \in BOOLEAN : Create(r, name, d, consent)
       \/ \E id \in ChildIds \cup {0} : Update(r, id, name, d)
  \/ \E r \in Requests :
       \/ List(r)
       \/ \E id \in ChildIds \cup {0} : Delete(r, id)
       \/ CreateChild(r) \/ ListChildren(r) \/ UpdateChild(r) \/ DeleteChild(r)
       \/ DatabaseError(r)
  \/ Sessions
  \/ Crash
  \/ Tick

Spec == Init /\ [][Next]_vars

-----------------------------------------------------------------------------
(* Properties                                                              *)

\* What a running handler has in hand: the user its session was opened for.
LocalsOK(r) ==
  /\ ~Runs(r, "none") =>
       asks[r] \in SessionIds /\ call[r].parent = owner[asks[r]] /\ call[r].parent # None
  /\ Runs(r, "insert") =>
       call[r].name # None /\ call[r].birth_date # None /\ call[r].consent

\* A row once inserted is complete, and no row lacks the parent's consent.
RowOK(i) ==
  LET row == children[i]
  IN /\ i <= last_id => /\ row.parent # None /\ row.name # None
                        /\ row.birth_date # None /\ row.consent
     /\ i > last_id => ~row.stored

\* Types, and what the locals of a handler refer to.
TypeOK ==
  /\ now \in 0..MaxTime
  /\ children \in [ChildIds -> ChildRow]
  /\ last_id \in 0..MaxChild
  /\ call \in [Requests -> Call]
  /\ shown \in SUBSET (UserIds \X ChildIds)
  /\ \A i \in ChildIds : RowOK(i)
  /\ \A r \in Requests : LocalsOK(r)

\* The request whose statement a step is.
Acts(r) == Runs(r, "none")' /\ call[r].op \in {"insert", "update", "delete"}

\* "WHERE id = $1 AND parent_id = $2": a child is inserted, changed or deleted
\* only by the statement of a request presenting a session of its parent,
\* whatever other requests are running, and its parent never changes.
OwnParentOnly ==
  [][\A i \in ChildIds : children'[i] # children[i] =>
       /\ i <= last_id => children'[i].parent = children[i].parent
       /\ \E r \in Requests : Acts(r) /\ owner[asks[r]] = children'[i].parent]_vars

\* No answer of any endpoint ever shows a child to another user than its parent.
SeenByParentOnly == \A p \in shown : children[p[2]].parent = p[1]

\* A deleted child does not come back, whatever PATCH was under way.
DeletedForGood ==
  [][\A i \in 1..last_id : ~children[i].stored => ~children'[i].stored]_vars

\* "Assumes asOf is not before birthDate": what agerange.CodeFor assumes of the
\* birth dates it gets holds of every stored row, by POST and by PATCH.
BirthDateNotFuture ==
  \A i \in ChildIds : children[i].stored => children[i].birth_date <= now
=============================================================================
