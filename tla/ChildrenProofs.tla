--------------------------- MODULE ChildrenProofs ---------------------------
(***************************************************************************)
(* What holds of Children for every number of sessions, users, requests    *)
(* and children.                                                           *)
(***************************************************************************)
EXTENDS Children, TLAPS

\* What SessionGate gives: a request acts for the user its session was opened
\* for.
GateOK ==
  /\ life \in [SessionIds -> {"fresh", "open", "closed"}]
  /\ owner \in [SessionIds -> UserIds \cup {None}]
  /\ asks \in [Requests -> SessionIds \cup {None}]
  /\ granted \in [Requests -> UserIds \cup {None}]
  /\ \A s \in SessionIds : life[s] # "fresh" <=> owner[s] # None
  /\ \A r \in Requests : asks[r] # None => life[asks[r]] # "fresh"
  /\ \A r \in Requests : granted[r] # None =>
       asks[r] # None /\ granted[r] = owner[asks[r]]

Inv == TypeOK /\ GateOK

\* The invariant holds of an empty table.
LEMMA InitInv == Init => Inv
BY DatesAssumption
   DEF Init, Gate!Init, Inv, TypeOK, GateOK, ChildRow, Call, NoCall, RowOK, LocalsOK, Runs,
       ChildIds

\* The fields of a call, and what LocalsOK says of it.
LEMMA Calls ==
  ASSUME Inv, NEW r \in Requests
  PROVE  /\ call[r] \in Call /\ LocalsOK(r)
         /\ call[r].parent \in UserIds \cup {None} /\ call[r].id \in ChildIds \cup {0}
         /\ call[r].name \in Names \cup {None} /\ call[r].birth_date \in Dates \cup {None}
         /\ call[r].consent \in BOOLEAN
<1>1. call[r] \in Call /\ LocalsOK(r)
  BY DEF Inv, TypeOK
<1>. QED
  BY <1>1 DEF Call

\* The fields of a row, and what RowOK says of it.
LEMMA Rows ==
  ASSUME Inv, NEW i \in ChildIds
  PROVE  /\ children[i] \in ChildRow /\ RowOK(i)
         /\ children[i].stored \in BOOLEAN /\ children[i].parent \in UserIds \cup {None}
         /\ children[i].name \in Names \cup {None}
         /\ children[i].birth_date \in Dates \cup {None} /\ children[i].consent \in BOOLEAN
<1>1. children[i] \in ChildRow /\ RowOK(i)
  BY DEF Inv, TypeOK
<1>. QED
  BY <1>1 DEF ChildRow

\* NoCall is a call to nothing.
LEMMA NoCallFields == NoCall \in Call /\ NoCall.op = "none"
BY DEF NoCall, Call

-----------------------------------------------------------------------------
(* The steps, by what they leave alone                                     *)

\* An answer frees the request.
LEMMA Answers ==
  ASSUME Inv, NEW r \in Requests, Gate!Answer(r)
  PROVE  /\ life' = life /\ owner' = owner
         /\ asks' = [asks EXCEPT ![r] = None] /\ granted' = [granted EXCEPT ![r] = None]
         /\ GateOK'
<1>1. /\ life' = life /\ owner' = owner
      /\ asks' = [asks EXCEPT ![r] = None] /\ granted' = [granted EXCEPT ![r] = None]
  BY DEF Gate!Answer
<1>. QED
  BY <1>1 DEF Inv, GateOK

\* A session, once opened, keeps its owner, and a request its session while its
\* handler has a statement to run.
LEMMA GateMoves ==
  ASSUME Inv, [Next]_vars
  PROVE  /\ GateOK'
         /\ \A s \in SessionIds : owner[s] # None => owner'[s] = owner[s]
<1> DEFINE Goal == /\ GateOK'
                   /\ \A s \in SessionIds : owner[s] # None => owner'[s] = owner[s]
<1> SUFFICES Goal
  OBVIOUS
<1>1. CASE UNCHANGED gateVars
  BY <1>1 DEF gateVars, Inv, GateOK
<1>2. ASSUME NEW r \in Requests, Gate!Answer(r) PROVE Goal
  BY <1>2, Answers
<1>3. ASSUME NEW s \in SessionIds, NEW u \in UserIds, Gate!Open(s, u) PROVE Goal
  BY <1>3, NoneAssumption DEF Gate!Open, Inv, GateOK
<1>4. ASSUME NEW r \in Requests, NEW s \in SessionIds, Gate!Ask(r, s) PROVE Goal
  BY <1>4, NoneAssumption DEF Gate!Ask, Inv, GateOK
<1>5. ASSUME NEW r \in Requests, Gate!Grant(r) \/ Gate!Deny(r) PROVE Goal
  BY <1>5 DEF Gate!Grant, Gate!Deny, Inv, GateOK
<1>6. ASSUME NEW r \in Requests, Gate!Close(r) PROVE Goal
  BY <1>6 DEF Gate!Close, Inv, GateOK
<1>7. CASE Crash
  BY <1>7 DEF Crash, Gate!Crash, Inv, GateOK
<1> HIDE DEF Goal
<1>8. ASSUME NEW r \in Requests, NEW valid, NEW c, Enter(r, valid, c)
      PROVE  UNCHANGED gateVars \/ Gate!Answer(r)
  BY <1>8 DEF Enter, Run, Refuse
<1>9. ASSUME NEW r \in Requests, NEW name \in RawNames \cup {None}, NEW d \in Dates \cup {None},
             \/ \E consent \in BOOLEAN : Create(r, name, d, consent)
             \/ \E id \in ChildIds \cup {0} : Update(r, id, name, d)
      PROVE  UNCHANGED gateVars \/ Gate!Answer(r)
  BY <1>8, <1>9 DEF Create, Update
<1>10. ASSUME NEW r \in Requests, List(r) \/ \E id \in ChildIds \cup {0} : Delete(r, id)
       PROVE  UNCHANGED gateVars \/ Gate!Answer(r)
  BY <1>8, <1>10 DEF List, Delete
<1>11. ASSUME NEW r \in Requests,
              \/ CreateChild(r) \/ ListChildren(r) \/ UpdateChild(r) \/ DeleteChild(r)
              \/ DatabaseError(r)
       PROVE  Gate!Answer(r)
  BY <1>11 DEF CreateChild, ListChildren, UpdateChild, DeleteChild, Reply, DatabaseError
<1>12. CASE Sessions
  <2>1. \/ \E s \in SessionIds, u \in UserIds : Gate!Open(s, u)
        \/ \E r \in Requests, s \in SessionIds : Gate!Ask(r, s)
        \/ \E r \in Requests : Gate!Grant(r) \/ Gate!Deny(r) \/ Gate!Answer(r) \/ Gate!Close(r)
    BY <1>12 DEF Sessions
  <2>2. CASE \E s \in SessionIds, u \in UserIds : Gate!Open(s, u)
    BY <1>3, <2>2
  <2>3. CASE \E r \in Requests, s \in SessionIds : Gate!Ask(r, s)
    BY <1>4, <2>3
  <2>4. ASSUME NEW r \in Requests,
               Gate!Grant(r) \/ Gate!Deny(r) \/ Gate!Answer(r) \/ Gate!Close(r)
        PROVE  Goal
    BY <1>2, <1>5, <1>6, <2>4
  <2>. QED
    BY <2>1, <2>2, <2>3, <2>4
<1>13. CASE Tick \/ UNCHANGED vars
  BY <1>1, <1>13 DEF Tick, vars, gateVars
<1>. QED
  BY <1>1, <1>2, <1>7, <1>9, <1>10, <1>11, <1>12, <1>13 DEF Next

\* How the rows move.
LEMMA PatchedRow ==
  ASSUME Inv, NEW i \in ChildIds, NEW r \in Requests
  PROVE  LET row == Patched(children[i], call[r])
         IN /\ row \in ChildRow /\ row.stored = children[i].stored
            /\ row.parent = children[i].parent /\ row.consent = children[i].consent
            /\ row.name = IF call[r].name = None THEN children[i].name ELSE call[r].name
            /\ row.birth_date = IF call[r].birth_date = None THEN children[i].birth_date
                                                             ELSE call[r].birth_date
<1> DEFINE name == IF call[r].name = None THEN children[i].name ELSE call[r].name
           date == IF call[r].birth_date = None THEN children[i].birth_date
                                                ELSE call[r].birth_date
           row == [children[i] EXCEPT !.name = name, !.birth_date = date]
<1>1. /\ children[i] \in ChildRow /\ name \in Names \cup {None}
      /\ date \in Dates \cup {None}
  BY Rows, Calls
<1>2. Patched(children[i], call[r]) = row
  BY <1>1 DEF Patched, ChildRow
<1> HIDE DEF name, date
<1>3. /\ row \in ChildRow /\ row.stored = children[i].stored
      /\ row.parent = children[i].parent /\ row.consent = children[i].consent
      /\ row.name = name /\ row.birth_date = date
  BY <1>1 DEF ChildRow
<1>. QED
  BY <1>2, <1>3 DEF name, date

\* Row i is changed only by the INSERT that makes it, or by an UPDATE or DELETE
\* of its parent's.
Inserted(i) ==
  \E r \in Requests :
    /\ Runs(r, "insert") /\ Acts(r) /\ i = last_id + 1 /\ last_id' = i
    /\ children'[i] = [stored |-> TRUE, parent |-> call[r].parent, name |-> call[r].name,
                       birth_date |-> call[r].birth_date, consent |-> call[r].consent]

Changed(i) ==
  \E r \in Requests :
    /\ Runs(r, "update") \/ Runs(r, "delete")
    /\ Acts(r)
    /\ children[i].stored /\ children[i].parent = call[r].parent
    /\ children'[i] \in {Patched(children[i], call[r]), [children[i] EXCEPT !.stored = FALSE]}

\* A statement that replies is the one its request acts with.
LEMMA ReplyActs ==
  ASSUME Inv, NEW r \in Requests, NEW ids, Reply(r, ids),
         Runs(r, "insert") \/ Runs(r, "update") \/ Runs(r, "delete")
  PROVE  Acts(r)
<1>1. call \in [Requests -> Call] /\ call' = [call EXCEPT ![r] = NoCall]
  BY DEF Inv, TypeOK, Reply
<1>2. call'[r].op = "none"
  BY <1>1 DEF NoCall
<1>. QED
  BY <1>2 DEF Acts, Runs

\* How the table, its identity column and the clock move.
LEMMA RowMoves ==
  ASSUME Inv, [Next]_vars
  PROVE  /\ \A i \in ChildIds : children'[i] = children[i] \/ Inserted(i) \/ Changed(i)
         /\ children' \in [ChildIds -> ChildRow]
         /\ last_id' \in 0..MaxChild /\ last_id <= last_id'
         /\ \A i \in ChildIds : i <= last_id' => i <= last_id \/ Inserted(i)
         /\ now' \in 0..MaxTime /\ now <= now'
<1> DEFINE Goal ==
         /\ \A i \in ChildIds : children'[i] = children[i] \/ Inserted(i) \/ Changed(i)
         /\ children' \in [ChildIds -> ChildRow]
         /\ last_id' \in 0..MaxChild /\ last_id <= last_id'
         /\ \A i \in ChildIds : i <= last_id' => i <= last_id \/ Inserted(i)
         /\ now' \in 0..MaxTime /\ now <= now'
<1> SUFFICES Goal
  OBVIOUS
<1>1. /\ now \in 0..MaxTime /\ last_id \in 0..MaxChild /\ MaxTime \in Nat /\ MaxChild \in Nat
      /\ children \in [ChildIds -> ChildRow]
  BY DatesAssumption DEF Inv, TypeOK
<1>2. CASE UNCHANGED <<now, children, last_id>>
  BY <1>1, <1>2
<1>3. CASE Tick
  BY <1>1, <1>3 DEF Tick
<1>4. ASSUME NEW r \in Requests, CreateChild(r) PROVE Goal
  <2> DEFINE id == last_id + 1
             row == [stored |-> TRUE, parent |-> call[r].parent, name |-> call[r].name,
                     birth_date |-> call[r].birth_date, consent |-> call[r].consent]
  <2>1. /\ Runs(r, "insert") /\ id \in ChildIds /\ last_id' = id /\ now' = now
        /\ children' = [children EXCEPT ![id] = row] /\ Acts(r)
    BY <1>1, <1>4, ReplyActs DEF CreateChild, ChildIds
  <2>2. row \in ChildRow
    BY Calls DEF ChildRow
  <2>3. children' \in [ChildIds -> ChildRow] /\ children'[id] = row
        /\ \A i \in ChildIds : i # id => children'[i] = children[i]
    BY <1>1, <2>1, <2>2
  <2>4. Inserted(id)
    BY <2>1, <2>3 DEF Inserted
  <2> HIDE DEF row
  <2>5. \A i \in ChildIds : i <= id => i <= last_id \/ i = id
    BY <1>1 DEF ChildIds
  <2>. QED
    BY <1>1, <2>1, <2>3, <2>4, <2>5 DEF ChildIds
<1>5. ASSUME NEW r \in Requests, UpdateChild(r) PROVE Goal
  <2>1. /\ Runs(r, "update") /\ now' = now /\ last_id' = last_id /\ Acts(r)
        /\ children' = [i \in ChildIds |->
             IF i \in Mine(r) THEN Patched(children[i], call[r]) ELSE children[i]]
    BY <1>5, ReplyActs DEF UpdateChild
  <2>2. \A i \in ChildIds : Patched(children[i], call[r]) \in ChildRow
    BY PatchedRow
  <2>3. \A i \in ChildIds : children'[i] = children[i] \/ Changed(i)
    BY <2>1 DEF Changed, Mine, Owned
  <2>. QED
    BY <1>1, <2>1, <2>2, <2>3
<1>6. ASSUME NEW r \in Requests, DeleteChild(r) PROVE Goal
  <2>1. /\ Runs(r, "delete") /\ now' = now /\ last_id' = last_id /\ Acts(r)
        /\ children' = [i \in ChildIds |->
             [children[i] EXCEPT !.stored = @ /\ i \notin Mine(r)]]
    BY <1>6, ReplyActs DEF DeleteChild
  <2>2. ASSUME NEW i \in ChildIds
        PROVE  children'[i] \in ChildRow /\ (children'[i] = children[i] \/ Changed(i))
    <3> DEFINE kept == children[i].stored /\ i \notin Mine(r)
    <3>1. children[i] \in ChildRow /\ children[i].stored \in BOOLEAN /\ kept \in BOOLEAN
      BY Rows
    <3>2. children'[i] = [children[i] EXCEPT !.stored = kept]
      BY <2>1, <3>1 DEF ChildRow
    <3>3. CASE kept = children[i].stored
      <4>1. [children[i] EXCEPT !.stored = children[i].stored] = children[i]
        BY <3>1 DEF ChildRow
      <4>. QED
        BY <3>1, <3>2, <3>3, <4>1
    <3>4. CASE kept # children[i].stored
      <4>1. kept = FALSE /\ children[i].stored /\ i \in Mine(r)
        BY <3>1, <3>4
      <4>2. [children[i] EXCEPT !.stored = FALSE] \in ChildRow
        BY <3>1 DEF ChildRow
      <4>3. children[i].parent = call[r].parent
        BY <4>1 DEF Mine, Owned
      <4>. QED
        BY <2>1, <3>2, <4>1, <4>2, <4>3 DEF Changed
    <3>. QED
      BY <3>3, <3>4
  <2>3. children' \in [ChildIds -> ChildRow]
    BY <2>1, <2>2
  <2>. QED
    BY <1>1, <2>1, <2>2, <2>3
<1> HIDE DEF Goal
<1>7. ASSUME NEW r \in Requests, NEW name \in RawNames \cup {None}, NEW d \in Dates \cup {None},
             \/ \E consent \in BOOLEAN : Create(r, name, d, consent)
             \/ \E id \in ChildIds \cup {0} : Update(r, id, name, d)
      PROVE  Goal
  BY <1>2, <1>7 DEF Create, Update, Enter
<1>8. ASSUME NEW r \in Requests,
             \/ List(r) \/ ListChildren(r) \/ DatabaseError(r)
             \/ \E id \in ChildIds \cup {0} : Delete(r, id)
      PROVE  Goal
  BY <1>2, <1>8 DEF List, Delete, Enter, ListChildren, DatabaseError
<1>9. CASE Sessions \/ Crash \/ UNCHANGED vars
  BY <1>2, <1>9 DEF Sessions, Crash, vars
<1>. QED
  BY <1>3, <1>4, <1>5, <1>6, <1>7, <1>8, <1>9 DEF Next

\* What a handler may be about to run: input it has found valid.
Valid(c) ==
  /\ c \in Call
  /\ c.op = "insert" => c.name # None /\ c.birth_date # None /\ c.consent
  /\ c.birth_date # None => c.birth_date <= now

\* How the calls of request q move: it has none, keeps the one it had and its
\* session, or begins one for the user it was granted.
CallMoved(q) ==
  \/ call'[q] = NoCall
  \/ call'[q] = call[q] /\ (~Runs(q, "none") => asks'[q] = asks[q])
  \/ /\ Valid(call'[q]) /\ call'[q].parent = granted[q] /\ granted[q] # None
     /\ asks[q] # None /\ UNCHANGED gateVars

\* A handler begins only what it has found valid, for the user it was granted.
LEMMA EnterMoves ==
  ASSUME Inv, NEW r \in Requests, NEW valid, NEW c \in Call, valid => Valid(c),
         Enter(r, valid, c)
  PROVE  \A q \in Requests : CallMoved(q)
<1> DEFINE new == [c EXCEPT !.parent = granted[r]]
<1>1. /\ Runs(r, "none") /\ asks[r] # None
      /\ \/ granted[r] # None /\ valid /\ Run(r, new)
         \/ Gate!Answer(r) /\ UNCHANGED call
  BY DEF Enter, Refuse
<1>2. granted[r] \in UserIds \cup {None} /\ call \in [Requests -> Call]
  BY DEF Inv, GateOK, TypeOK
<1>3. CASE granted[r] # None /\ valid /\ Run(r, new)
  <2>1. /\ new \in Call /\ new.parent = granted[r] /\ new.op = c.op /\ new.name = c.name
        /\ new.birth_date = c.birth_date /\ new.consent = c.consent
    BY <1>2 DEF Call
  <2> HIDE DEF new
  <2>2. Valid(new)
    BY <1>3, <2>1 DEF Valid
  <2>3. UNCHANGED gateVars /\ call' = [call EXCEPT ![r] = new]
    BY <1>3 DEF Run
  <2>4. \A q \in Requests : call'[q] = IF q = r THEN new ELSE call[q]
    BY <1>2, <2>3
  <2>. QED
    BY <1>1, <1>3, <2>1, <2>2, <2>3, <2>4 DEF CallMoved, gateVars
<1>4. CASE Gate!Answer(r) /\ UNCHANGED call
  <2>1. asks' = [asks EXCEPT ![r] = None]
    BY <1>4, Answers
  <2>. QED
    BY <1>1, <1>4, <2>1 DEF CallMoved, Inv, GateOK
<1>. QED
  BY <1>1, <1>3, <1>4

\* How the calls move in every step.
LEMMA CallMoves ==
  ASSUME Inv, [Next]_vars
  PROVE  \A q \in Requests : CallMoved(q)
<1> DEFINE Goal == \A q \in Requests : CallMoved(q)
<1> SUFFICES Goal
  OBVIOUS
<1>1. /\ NoCall \in Call /\ NoCall.op = "none" /\ NoCall.birth_date = None
      /\ call \in [Requests -> Call] /\ asks \in [Requests -> SessionIds \cup {None}]
  BY DEF NoCall, Call, Inv, TypeOK, GateOK
<1>2. CASE UNCHANGED <<asks, call>>
  BY <1>2 DEF CallMoved
<1>3. ASSUME NEW r \in Requests, call' = [call EXCEPT ![r] = NoCall], Gate!Answer(r)
      PROVE  Goal
  <2>1. asks' = [asks EXCEPT ![r] = None]
    BY <1>3, Answers
  <2>. QED
    BY <1>1, <1>3, <2>1 DEF CallMoved
<1>4. CASE Crash
  BY <1>4 DEF Crash, CallMoved
<1>5. CASE Sessions
  <2> SUFFICES ASSUME NEW q \in Requests, ~Runs(q, "none") PROVE asks'[q] = asks[q]
    BY <1>5 DEF Sessions, CallMoved
  <2>1. asks[q] \in SessionIds /\ asks[q] # None
    BY Calls, NoneAssumption DEF LocalsOK
  <2>2. ASSUME NEW s \in SessionIds, NEW u \in UserIds, Gate!Open(s, u)
        PROVE  asks'[q] = asks[q]
    BY <2>2 DEF Gate!Open
  <2>3. ASSUME NEW r \in Requests, NEW s \in SessionIds, Gate!Ask(r, s)
        PROVE  asks'[q] = asks[q]
    BY <1>1, <2>1, <2>3 DEF Gate!Ask
  <2>4. ASSUME NEW r \in Requests, Runs(r, "none"),
               Gate!Grant(r) \/ Gate!Deny(r) \/ Gate!Answer(r) \/ Gate!Close(r)
        PROVE  asks'[q] = asks[q]
    BY <1>1, <2>4 DEF Gate!Grant, Gate!Deny, Gate!Answer, Gate!Close
  <2>5. \/ \E s \in SessionIds, u \in UserIds : Gate!Open(s, u)
        \/ \E r \in Requests, s \in SessionIds : Gate!Ask(r, s)
        \/ \E r \in Requests :
             /\ Runs(r, "none")
             /\ Gate!Grant(r) \/ Gate!Deny(r) \/ Gate!Answer(r) \/ Gate!Close(r)
    BY <1>5 DEF Sessions
  <2>. QED
    BY <2>2, <2>3, <2>4, <2>5
<1>6. ASSUME NEW r \in Requests, NEW name \in RawNames \cup {None}, NEW d \in Dates \cup {None},
             NEW consent \in BOOLEAN, Create(r, name, d, consent)
      PROVE  Goal
  <2> DEFINE valid == validateName[name] # None /\ ValidDate(d) /\ consent
             c == [NoCall EXCEPT !.op = "insert", !.name = validateName[name],
                                 !.birth_date = d, !.consent = consent]
  <2>1. validateName[name] \in Names \cup {None}
    BY NamesAssumption
  <2>2. /\ c \in Call /\ c.op = "insert" /\ c.name = validateName[name] /\ c.birth_date = d
        /\ c.consent = consent
    BY <1>1, <2>1 DEF Call
  <2>3. Enter(r, valid, c)
    BY <1>6 DEF Create
  <2> HIDE DEF c
  <2>4. valid => Valid(c)
    BY <2>2 DEF Valid, ValidDate
  <2> HIDE DEF valid
  <2>. QED
    BY <2>2, <2>3, <2>4, EnterMoves
<1>7. ASSUME NEW r \in Requests, NEW name \in RawNames \cup {None}, NEW d \in Dates \cup {None},
             NEW id \in ChildIds \cup {0}, Update(r, id, name, d)
      PROVE  Goal
  <2> DEFINE valid == (name # None => validateName[name] # None) /\ (d # None => ValidDate(d))
             given == IF name = None THEN None ELSE validateName[name]
             c == [NoCall EXCEPT !.op = "update", !.id = id, !.birth_date = d, !.name = given]
  <2>1. given \in Names \cup {None}
    BY NamesAssumption
  <2>2. Enter(r, valid, c)
    BY <1>7 DEF Update
  <2> HIDE DEF given
  <2>3. c \in Call /\ c.op = "update" /\ c.birth_date = d
    BY <1>1, <2>1 DEF Call
  <2> HIDE DEF c
  <2>4. valid => Valid(c)
    BY <2>3 DEF Valid, ValidDate
  <2> HIDE DEF valid
  <2>. QED
    BY <2>2, <2>3, <2>4, EnterMoves
<1>8. ASSUME NEW r \in Requests, List(r) PROVE Goal
  <2> DEFINE c == [NoCall EXCEPT !.op = "list"]
  <2>1. c \in Call /\ c.op = "list" /\ c.birth_date = None
    BY <1>1 DEF Call
  <2>2. Enter(r, TRUE, c)
    BY <1>8 DEF List
  <2> HIDE DEF c
  <2>3. Valid(c)
    BY <2>1 DEF Valid
  <2>. QED
    BY <2>1, <2>2, <2>3, EnterMoves
<1>9. ASSUME NEW r \in Requests, NEW id \in ChildIds \cup {0}, Delete(r, id) PROVE Goal
  <2> DEFINE c == [NoCall EXCEPT !.op = "delete", !.id = id]
  <2>1. c \in Call /\ c.op = "delete" /\ c.birth_date = None
    BY <1>1 DEF Call
  <2>2. Enter(r, TRUE, c)
    BY <1>9 DEF Delete
  <2> HIDE DEF c
  <2>3. Valid(c)
    BY <2>1 DEF Valid
  <2>. QED
    BY <2>1, <2>2, <2>3, EnterMoves
<1> HIDE DEF Goal
<1>10. ASSUME NEW r \in Requests,
              \/ CreateChild(r) \/ ListChildren(r) \/ UpdateChild(r) \/ DeleteChild(r)
              \/ DatabaseError(r)
       PROVE  Goal
  BY <1>3, <1>10 DEF CreateChild, ListChildren, UpdateChild, DeleteChild, Reply, DatabaseError
<1>11. CASE Tick \/ UNCHANGED vars
  BY <1>2, <1>11 DEF Tick, vars
<1>. QED
  BY <1>4, <1>5, <1>6, <1>7, <1>8, <1>9, <1>10, <1>11 DEF Next

\* The handler of a running request acts for the user of its session.
LEMMA Caller ==
  ASSUME Inv, NEW r \in Requests, ~Runs(r, "none")
  PROVE  /\ owner[asks[r]] = call[r].parent /\ call[r].parent \in UserIds
         /\ asks[r] \in SessionIds
BY Calls DEF LocalsOK

\* Every answer shows the children in the table that belong to the user of the
\* request's session.
LEMMA ShownMoves ==
  ASSUME Inv, [Next]_vars
  PROVE  \/ shown' = shown
         \/ \E r \in Requests, ids \in SUBSET ChildIds :
              /\ ~Runs(r, "none")
              /\ shown' = shown \cup ({call[r].parent} \X ids)
              /\ \A i \in ids : \/ children[i].stored /\ children[i].parent = call[r].parent
                               \/ /\ i = last_id + 1 /\ last_id' = i
                                  /\ children'[i].parent = call[r].parent
<1> DEFINE Goal ==
      \/ shown' = shown
      \/ \E r \in Requests, ids \in SUBSET ChildIds :
           /\ ~Runs(r, "none")
           /\ shown' = shown \cup ({call[r].parent} \X ids)
           /\ \A i \in ids : \/ children[i].stored /\ children[i].parent = call[r].parent
                            \/ /\ i = last_id + 1 /\ last_id' = i
                               /\ children'[i].parent = call[r].parent
<1> SUFFICES Goal
  OBVIOUS
<1>1. ASSUME NEW r \in Requests, NEW ids \in SUBSET ChildIds, ~Runs(r, "none"),
             Reply(r, ids),
             \A i \in ids : \/ children[i].stored /\ children[i].parent = call[r].parent
                           \/ /\ i = last_id + 1 /\ last_id' = i
                              /\ children'[i].parent = call[r].parent
      PROVE  Goal
  BY <1>1, Caller DEF Reply
<1>2. ASSUME NEW r \in Requests, CreateChild(r) PROVE Goal
  <2> DEFINE id == last_id + 1
             row == [stored |-> TRUE, parent |-> call[r].parent, name |-> call[r].name,
                     birth_date |-> call[r].birth_date, consent |-> call[r].consent]
  <2>1. /\ Runs(r, "insert") /\ id \in ChildIds /\ last_id' = id
        /\ children' = [children EXCEPT ![id] = row] /\ Reply(r, {id})
        /\ children \in [ChildIds -> ChildRow]
    BY <1>2, DatesAssumption DEF CreateChild, ChildIds, Inv, TypeOK
  <2>2. children'[id].parent = call[r].parent
    BY <2>1
  <2> DEFINE ids == {id}
  <2>3. /\ ids \in SUBSET ChildIds /\ Reply(r, ids) /\ ~Runs(r, "none")
        /\ \A i \in ids : /\ i = last_id + 1 /\ last_id' = i
                         /\ children'[i].parent = call[r].parent
    BY <2>1, <2>2 DEF Runs
  <2> HIDE DEF ids, id, row, Goal
  <2>. QED
    BY <1>1, <2>3
<1>3. ASSUME NEW r \in Requests, ListChildren(r) PROVE Goal
  <2>1. Runs(r, "list") /\ Reply(r, Owned(call[r].parent))
    BY <1>3 DEF ListChildren
  <2>2. \A i \in Owned(call[r].parent) :
          i \in ChildIds /\ children[i].stored /\ children[i].parent = call[r].parent
    BY DEF Owned
  <2>. QED
    BY <1>1, <2>1, <2>2 DEF Runs
<1>4. ASSUME NEW r \in Requests, UpdateChild(r) PROVE Goal
  <2>1. Runs(r, "update") /\ Reply(r, Mine(r))
    BY <1>4 DEF UpdateChild
  <2>2. \A i \in Mine(r) :
          i \in ChildIds /\ children[i].stored /\ children[i].parent = call[r].parent
    BY DEF Mine, Owned
  <2>. QED
    BY <1>1, <2>1, <2>2 DEF Runs
<1>5. ASSUME NEW r \in Requests, DeleteChild(r) PROVE Goal
  <2> DEFINE ids == {}
  <2>1. ids \in SUBSET ChildIds /\ Reply(r, ids) /\ ~Runs(r, "none") /\ \A i \in ids : FALSE
    BY <1>5 DEF DeleteChild, Runs
  <2> HIDE DEF ids, Goal
  <2>. QED
    BY <1>1, <2>1
<1>6. CASE UNCHANGED shown
  BY <1>6
<1> HIDE DEF Goal
<1>7. ASSUME NEW r \in Requests, NEW name \in RawNames \cup {None}, NEW d \in Dates \cup {None},
             \/ \E consent \in BOOLEAN : Create(r, name, d, consent)
             \/ \E id \in ChildIds \cup {0} : Update(r, id, name, d)
      PROVE  Goal
  BY <1>6, <1>7 DEF Create, Update, Enter
<1>8. ASSUME NEW r \in Requests,
             List(r) \/ DatabaseError(r) \/ \E id \in ChildIds \cup {0} : Delete(r, id)
      PROVE  Goal
  BY <1>6, <1>8 DEF List, Delete, Enter, DatabaseError
<1>9. CASE Sessions \/ Crash \/ Tick \/ UNCHANGED vars
  BY <1>6, <1>9 DEF Sessions, Crash, Tick, vars
<1>. QED
  BY <1>2, <1>3, <1>4, <1>5, <1>7, <1>8, <1>9 DEF Next

-----------------------------------------------------------------------------
(* Types                                                                   *)

\* call stays a function on Requests.
LEMMA CallDomain ==
  ASSUME Inv, [Next]_vars
  PROVE  call' = [q \in Requests |-> call'[q]]
<1>1. call \in [Requests -> Call]
  BY DEF Inv, TypeOK
<1>2. ASSUME NEW r \in Requests, NEW c, call' = [call EXCEPT ![r] = c]
      PROVE  call' = [q \in Requests |-> call'[q]]
  BY <1>1, <1>2
<1>3. CASE UNCHANGED call
  BY <1>1, <1>3
<1>4. CASE Crash
  BY <1>4 DEF Crash
<1>5. ASSUME NEW r \in Requests, NEW valid, NEW c, Enter(r, valid, c)
      PROVE  call' = [q \in Requests |-> call'[q]]
  BY <1>2, <1>3, <1>5 DEF Enter, Run, Refuse
<1>6. ASSUME NEW r \in Requests, NEW name \in RawNames \cup {None}, NEW d \in Dates \cup {None},
             \/ \E consent \in BOOLEAN : Create(r, name, d, consent)
             \/ \E id \in ChildIds \cup {0} : Update(r, id, name, d)
      PROVE  call' = [q \in Requests |-> call'[q]]
  BY <1>5, <1>6 DEF Create, Update
<1>7. ASSUME NEW r \in Requests,
             List(r) \/ \E id \in ChildIds \cup {0} : Delete(r, id)
      PROVE  call' = [q \in Requests |-> call'[q]]
  BY <1>5, <1>7 DEF List, Delete
<1>8. ASSUME NEW r \in Requests,
             \/ CreateChild(r) \/ ListChildren(r) \/ UpdateChild(r) \/ DeleteChild(r)
             \/ DatabaseError(r)
      PROVE  call' = [q \in Requests |-> call'[q]]
  BY <1>2, <1>8 DEF CreateChild, ListChildren, UpdateChild, DeleteChild, Reply, DatabaseError
<1>. QED
  BY <1>3, <1>4, <1>6, <1>7, <1>8 DEF Next, Sessions, Tick, vars

\* Rows stay complete, keep their parent, and stay deleted.
LEMMA RowsKept ==
  ASSUME Inv, [Next]_vars, NEW i \in ChildIds
  PROVE  /\ RowOK(i)'
         /\ i <= last_id => children'[i].parent = children[i].parent
         /\ i <= last_id /\ ~children[i].stored => ~children'[i].stored
<1>1. /\ i \in Int /\ last_id \in Int /\ last_id' \in Int /\ last_id <= last_id'
      /\ i <= last_id' => i <= last_id \/ Inserted(i)
      /\ children'[i] = children[i] \/ Inserted(i) \/ Changed(i)
  BY RowMoves, DatesAssumption DEF ChildIds, Inv, TypeOK
<1>2. CASE Inserted(i)
  <2>1. PICK r \in Requests :
          /\ Runs(r, "insert") /\ i = last_id + 1 /\ last_id' = i
          /\ children'[i] = [stored |-> TRUE, parent |-> call[r].parent, name |-> call[r].name,
                             birth_date |-> call[r].birth_date, consent |-> call[r].consent]
    BY <1>2 DEF Inserted
  <2>2. /\ call[r].parent # None /\ call[r].name # None /\ call[r].birth_date # None
        /\ call[r].consent
    BY <2>1, Calls DEF LocalsOK, Runs
  <2>. QED
    BY <1>1, <2>1, <2>2 DEF RowOK
<1>3. CASE Changed(i)
  <2>1. PICK r \in Requests :
          /\ children[i].stored
          /\ children'[i] \in {Patched(children[i], call[r]),
                               [children[i] EXCEPT !.stored = FALSE]}
    BY <1>3 DEF Changed
  <2>2. i <= last_id /\ children[i].parent # None /\ children[i].name # None
        /\ children[i].birth_date # None /\ children[i].consent
    BY <1>1, <2>1, Rows DEF RowOK
  <2>3. \A row \in {Patched(children[i], call[r]), [children[i] EXCEPT !.stored = FALSE]} :
          /\ row.parent = children[i].parent /\ row.consent = children[i].consent
          /\ row.name # None /\ row.birth_date # None
    <3>1. children[i] \in ChildRow
      BY Rows
    <3>2. LET row == [children[i] EXCEPT !.stored = FALSE]
          IN /\ row.parent = children[i].parent /\ row.consent = children[i].consent
             /\ row.name = children[i].name /\ row.birth_date = children[i].birth_date
      BY <3>1 DEF ChildRow
    <3> DEFINE patched == Patched(children[i], call[r])
    <3>3. /\ patched.parent = children[i].parent /\ patched.consent = children[i].consent
          /\ patched.name # None /\ patched.birth_date # None
      BY <2>2, PatchedRow
    <3> HIDE DEF patched
    <3>4. ASSUME NEW row, row = patched \/ row = [children[i] EXCEPT !.stored = FALSE]
          PROVE  /\ row.parent = children[i].parent /\ row.consent = children[i].consent
                 /\ row.name # None /\ row.birth_date # None
      BY <2>2, <3>2, <3>3, <3>4
    <3>. QED
      BY <3>4 DEF patched
  <2>4. /\ children'[i].parent = children[i].parent /\ children'[i].consent
        /\ children'[i].parent # None /\ children'[i].name # None
        /\ children'[i].birth_date # None
    BY <2>1, <2>2, <2>3
  <2>5. ~(i > last_id') /\ children[i].stored
    BY <1>1, <2>1, <2>2
  <2>. QED
    BY <2>4, <2>5 DEF RowOK
<1>4. CASE children'[i] = children[i] /\ ~Inserted(i)
  BY <1>1, <1>4, Rows DEF RowOK
<1>. QED
  BY <1>1, <1>2, <1>3, <1>4

\* The invariant is inductive.
LEMMA NextInv == Inv /\ [Next]_vars => Inv'
<1> SUFFICES ASSUME Inv, [Next]_vars PROVE Inv'
  OBVIOUS
<1>1. /\ now' \in 0..MaxTime /\ children' \in [ChildIds -> ChildRow]
      /\ last_id' \in 0..MaxChild
  BY RowMoves
<1>2. \A i \in ChildIds : RowOK(i)'
  BY RowsKept
<1>3. GateOK'
  BY GateMoves
<1>4. shown' \in SUBSET (UserIds \X ChildIds)
  BY ShownMoves, Caller DEF Inv, TypeOK
<1>5. call' \in [Requests -> Call]
  <2>1. \A q \in Requests : call'[q] \in Call
    BY CallMoves, Calls, NoCallFields DEF CallMoved, Valid
  <2>. QED
    BY <2>1, CallDomain
<1>6. ASSUME NEW q \in Requests PROVE LocalsOK(q)'
  <2>1. CASE call'[q] = NoCall
    BY <2>1, NoCallFields DEF LocalsOK, Runs
  <2>2. CASE call'[q] = call[q] /\ ~Runs(q, "none") /\ asks'[q] = asks[q]
    <3>1. LocalsOK(q) /\ owner'[asks[q]] = owner[asks[q]]
      BY <2>2, Caller, Calls, GateMoves, NoneAssumption
    <3>. QED
      BY <2>2, <3>1 DEF LocalsOK, Runs
  <2>3. CASE call'[q] = call[q] /\ Runs(q, "none")
    BY <2>3 DEF LocalsOK, Runs
  <2>4. CASE /\ Valid(call'[q]) /\ call'[q].parent = granted[q] /\ granted[q] # None
             /\ asks[q] # None /\ UNCHANGED gateVars
    <3>1. asks'[q] = asks[q] /\ owner' = owner /\ asks[q] \in SessionIds
          /\ granted[q] = owner[asks[q]]
      BY <2>4 DEF gateVars, Inv, GateOK
    <3>. QED
      BY <2>4, <3>1 DEF LocalsOK, Runs, Valid
  <2>. QED
    BY <2>1, <2>2, <2>3, <2>4, CallMoves DEF CallMoved
<1>. QED
  BY <1>1, <1>2, <1>3, <1>4, <1>5, <1>6 DEF Inv, TypeOK

\* The inductive invariant: types, complete rows, and handlers that act for the
\* user of the session their request presents (auth.UserID).
THEOREM InvHolds == Spec => []Inv
BY InitInv, NextInv, PTL DEF Spec

\* Types are kept, a handler that runs a statement acts for the user of its
\* session, and no row is without its parent's consent (handler.go, Create).
THEOREM TypesHold == Spec => []TypeOK
<1>1. Inv => TypeOK
  BY DEF Inv
<1>. QED
  BY <1>1, InvHolds, PTL

-----------------------------------------------------------------------------
(* Isolation                                                               *)

\* The step of OwnParentOnly.
LEMMA StepOwnParent ==
  Inv /\ [Next]_vars =>
    \A i \in ChildIds : children'[i] # children[i] =>
      /\ i <= last_id => children'[i].parent = children[i].parent
      /\ \E r \in Requests : Acts(r) /\ owner[asks[r]] = children'[i].parent
<1> SUFFICES ASSUME Inv, [Next]_vars, NEW i \in ChildIds, children'[i] # children[i]
             PROVE  /\ i <= last_id => children'[i].parent = children[i].parent
                    /\ \E r \in Requests : Acts(r) /\ owner[asks[r]] = children'[i].parent
  OBVIOUS
<1>1. i <= last_id => children'[i].parent = children[i].parent
  BY RowsKept
<1>2. CASE Inserted(i)
  <2>1. PICK r \in Requests :
          Runs(r, "insert") /\ Acts(r) /\ children'[i].parent = call[r].parent
    BY <1>2 DEF Inserted
  <2>2. ~Runs(r, "none")
    BY <2>1 DEF Runs
  <2>. QED
    BY <1>1, <2>1, <2>2, Caller
<1>3. CASE Changed(i)
  <2>1. PICK r \in Requests : /\ Runs(r, "update") \/ Runs(r, "delete")
                              /\ Acts(r)
                              /\ children[i].stored /\ children[i].parent = call[r].parent
    BY <1>3 DEF Changed
  <2>2. ~Runs(r, "none")
    BY <2>1 DEF Runs
  <2>3. i \in Int /\ last_id \in Int /\ i <= last_id
    BY <2>1, Rows, DatesAssumption DEF RowOK, ChildIds, Inv, TypeOK
  <2>. QED
    BY <1>1, <2>1, <2>2, <2>3, Caller
<1>. QED
  BY <1>2, <1>3, RowMoves

\* Whatever requests are in flight, a child is inserted, changed or deleted only
\* by a request that presents a session of its parent (WHERE ... AND parent_id).
THEOREM Isolation == Spec => OwnParentOnly
BY InvHolds, StepOwnParent, PTL DEF Spec, OwnParentOnly

\* What users have been shown was in the table, and theirs.
SeenInv == \A p \in shown : p[2] <= last_id /\ children[p[2]].parent = p[1]

\* SeenInv is inductive.
LEMMA NextSeen == Inv /\ SeenInv /\ [Next]_vars => SeenInv'
<1> SUFFICES ASSUME Inv, SeenInv, [Next]_vars, NEW p \in shown'
             PROVE  p[2] <= last_id' /\ children'[p[2]].parent = p[1]
  BY DEF SeenInv
<1>1. /\ last_id \in Int /\ last_id' \in Int /\ last_id <= last_id'
      /\ \A i \in ChildIds : i \in Int
      /\ shown \in SUBSET (UserIds \X ChildIds)
  BY RowMoves, DatesAssumption DEF ChildIds, Inv, TypeOK
<1>2. ASSUME NEW i \in ChildIds, i <= last_id
      PROVE  i <= last_id' /\ children'[i].parent = children[i].parent
  BY <1>1, <1>2, RowsKept
<1>3. CASE p \in shown
  BY <1>1, <1>2, <1>3 DEF SeenInv
<1>4. CASE p \notin shown
  <2>1. PICK r \in Requests, ids \in SUBSET ChildIds :
          /\ shown' = shown \cup ({call[r].parent} \X ids)
          /\ \A i \in ids : \/ children[i].stored /\ children[i].parent = call[r].parent
                           \/ /\ i = last_id + 1 /\ last_id' = i
                              /\ children'[i].parent = call[r].parent
    BY <1>4, ShownMoves
  <2>2. p[1] = call[r].parent /\ p[2] \in ids /\ p[2] \in ChildIds
    BY <1>4, <2>1
  <2>3. CASE children[p[2]].stored /\ children[p[2]].parent = call[r].parent
    <3>1. p[2] <= last_id
      BY <1>1, <2>2, <2>3, Rows DEF RowOK
    <3>. QED
      BY <1>2, <2>2, <2>3, <3>1
  <2>4. CASE last_id' = p[2] /\ children'[p[2]].parent = call[r].parent
    BY <1>1, <2>2, <2>4
  <2>. QED
    BY <2>1, <2>2, <2>3, <2>4
<1>. QED
  BY <1>3, <1>4

\* No answer, whatever was in flight with it, shows a child to anyone but its
\* parent (createChild, listChildren, updateChild).
THEOREM SeenOnlyByParent == Spec => []SeenByParentOnly
<1>1. Init => SeenInv
  BY DEF Init, SeenInv
<1>2. SeenInv => SeenByParentOnly
  BY DEF SeenInv, SeenByParentOnly
<1>. QED
  BY <1>1, <1>2, InvHolds, NextSeen, PTL DEF Spec

\* A PATCH under way when a child is deleted does not bring it back
\* (updateChild, deleteChild).
THEOREM DeletedStaysDeleted == Spec => DeletedForGood
<1>1. Inv /\ [Next]_vars => \A i \in 1..last_id : ~children[i].stored => ~children'[i].stored
  <2> SUFFICES ASSUME Inv, [Next]_vars, NEW i \in 1..last_id, ~children[i].stored
               PROVE  ~children'[i].stored
    OBVIOUS
  <2>1. i \in ChildIds /\ i <= last_id
    BY DatesAssumption DEF ChildIds, Inv, TypeOK
  <2>. QED
    BY <2>1, RowsKept
<1>. QED
  BY <1>1, InvHolds, PTL DEF Spec, DeletedForGood

-----------------------------------------------------------------------------
(* Birth dates                                                             *)

\* Validated dates stay valid between validation and statement.
DateInv ==
  /\ BirthDateNotFuture
  /\ \A r \in Requests : call[r].birth_date # None => call[r].birth_date <= now

\* DateInv is inductive.
LEMMA NextDate == Inv /\ DateInv /\ [Next]_vars => DateInv'
<1> SUFFICES ASSUME Inv, DateInv, [Next]_vars PROVE DateInv'
  OBVIOUS
<1>1. /\ now \in Int /\ now' \in Int /\ now <= now'
      /\ \A d \in Dates : d \in Int
  BY RowMoves, DatesAssumption DEF Inv, TypeOK
<1>2. ASSUME NEW q \in Requests, call'[q].birth_date # None
      PROVE  call'[q].birth_date <= now'
  <2>1. CASE call'[q] = NoCall
    BY <1>2, <2>1 DEF NoCall
  <2>2. CASE call'[q] = call[q]
    BY <1>1, <1>2, <2>2, Calls DEF DateInv
  <2>3. CASE Valid(call'[q])
    <3>1. call'[q].birth_date \in Dates /\ call'[q].birth_date <= now
      BY <1>2, <2>3 DEF Valid, Call
    <3>. QED
      BY <1>1, <3>1
  <2>. QED
    BY <2>1, <2>2, <2>3, CallMoves DEF CallMoved
<1>3. ASSUME NEW i \in ChildIds, children'[i].stored
      PROVE  children'[i].birth_date <= now'
  <2>1. CASE children'[i] = children[i]
    <3>1. children[i].birth_date \in Dates /\ children[i].birth_date <= now
      BY <1>3, <2>1, Rows, RowMoves, NoneAssumption
         DEF RowOK, DateInv, BirthDateNotFuture, ChildIds, Inv, TypeOK
    <3>. QED
      BY <1>1, <2>1, <3>1
  <2>2. CASE Inserted(i)
    <3>1. PICK r \in Requests :
            /\ Runs(r, "insert")
            /\ children'[i] = [stored |-> TRUE, parent |-> call[r].parent,
                               name |-> call[r].name, birth_date |-> call[r].birth_date,
                               consent |-> call[r].consent]
      BY <2>2 DEF Inserted
    <3>2. call[r].birth_date \in Dates /\ call[r].birth_date <= now
      BY <3>1, Calls DEF LocalsOK, DateInv
    <3>. QED
      BY <1>1, <3>1, <3>2
  <2>3. CASE Changed(i)
    <3>1. PICK r \in Requests :
            /\ children[i].stored
            /\ children'[i] \in {Patched(children[i], call[r]),
                                 [children[i] EXCEPT !.stored = FALSE]}
      BY <2>3 DEF Changed
    <3>2. children[i].birth_date \in Dates /\ children[i].birth_date <= now
      BY <3>1, Rows, DatesAssumption
         DEF RowOK, DateInv, BirthDateNotFuture, ChildIds, Inv, TypeOK
    <3>3. [children[i] EXCEPT !.stored = FALSE].birth_date = children[i].birth_date
      BY Rows DEF ChildRow
    <3>4. Patched(children[i], call[r]).birth_date
            = IF call[r].birth_date = None THEN children[i].birth_date ELSE call[r].birth_date
      BY PatchedRow
    <3>5. /\ children'[i].birth_date \in {children[i].birth_date, call[r].birth_date} \ {None}
      BY <3>1, <3>2, <3>3, <3>4, <1>1, NoneAssumption
    <3>6. call[r].birth_date # None =>
            call[r].birth_date \in Dates /\ call[r].birth_date <= now
      BY Calls DEF DateInv
    <3>. QED
      BY <1>1, <3>2, <3>5, <3>6
  <2>. QED
    BY <2>1, <2>2, <2>3, RowMoves
<1>. QED
  BY <1>2, <1>3 DEF DateInv, BirthDateNotFuture

\* No stored birth date is after today, however long a statement waits after its
\* input was validated: agerange.CodeFor gets what it assumes (parseBirthDate).
THEOREM BirthDatesPast == Spec => []BirthDateNotFuture
<1>1. Init => DateInv
  BY DEF Init, DateInv, BirthDateNotFuture, NoCall
<1>2. DateInv => BirthDateNotFuture
  BY DEF DateInv
<1>. QED
  BY <1>1, <1>2, InvHolds, NextDate, PTL DEF Spec
=============================================================================
