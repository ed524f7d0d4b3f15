-------------------------- MODULE DispatchSqlProofs -------------------------
(***************************************************************************)
(* What DispatchSql guarantees for every set of orders, workers, reasons   *)
(* and requests, and every choice of Hazards: its state is well typed,     *)
(* every order's attempts are numbered 1, 2, ... without gap or duplicate, *)
(* and what a record says about its answer, the worker it is assigned to   *)
(* has sent.                                                               *)
(***************************************************************************)
EXTENDS DispatchSql, DispatchDataProofs, TLAPS

(* The inductive invariant                                                 *)

\* The await points of manual_assign_order before the record exists.
BeforeInsert == {"check", "number", "mark", "create"}

\* The await points of confirm_worker_response after the record was found.
AfterLookup == ConfirmPoints \ {"lookup"}

\* What the control point of request r says about its data and the table.  A
\* number read before the INSERT may be stale, but is never beyond the next.
RequestOK(r) ==
    /\ pc[r] \in AssignPoints =>
         /\ req[r].kind = "assign"
         /\ req[r].order \in Orders
         /\ req[r].worker \in Workers
    /\ pc[r] \in ConfirmPoints =>
         /\ req[r].kind = "confirm"
         /\ req[r].dispatch \in DOMAIN table \cup {NoSuchId}
         /\ req[r].worker \in Workers
    /\ pc[r] \in AfterLookup => req[r].dispatch \in DOMAIN table
    /\ pc[r] \in BeforeInsert \cup {"idle"} => r \notin DOMAIN table
    /\ pc[r] = "refresh" => r \in DOMAIN table
    /\ pc[r] \in {"mark", "create"} =>
         /\ attemptNo[r] # 0
         /\ attemptNo[r] # 1 =>
              attemptNo[r] - 1 \in Attempts(table, req[r].order)

\* Attempts are an interval from 1, and no number is given twice.
Numbered ==
    /\ \A o \in Orders : \E n \in Nat : Attempts(table, o) = 1..n
    /\ \A d, e \in DOMAIN table :
          (table[d].order = table[e].order /\ table[d].attempt = table[e].attempt)
              => d = e

IInv == TypeOK /\ Numbered /\ \A r \in Requests : RequestOK(r)

-----------------------------------------------------------------------------
(* Lemmas about the records                                                *)

\* create_dispatch under a fresh id adds its attempt to its order's, and
\* leaves the other orders' and every other record alone.
LEMMA InsertFresh ==
    ASSUME table \in [DOMAIN table -> Row], NEW d, d \notin DOMAIN table,
           NEW o \in Orders, NEW k \in Nat \ {0}, NEW w \in Workers,
           table' = Insert(table, d, NewRow(o, k, w))
    PROVE  /\ DOMAIN table' = DOMAIN table \cup {d}
           /\ table' \in [DOMAIN table' -> Row]
           /\ table'[d] = NewRow(o, k, w)
           /\ \A e \in DOMAIN table : table'[e] = table[e]
           /\ Attempts(table', o) = Attempts(table, o) \cup {k}
           /\ \A p \in Orders \ {o} : Attempts(table', p) = Attempts(table, p)
<1>1. NewRow(o, k, w) \in Row
  BY DEF NewRow, Row, Statuses
<1>2. DOMAIN table' = DOMAIN table \cup {d}
  BY DEF Insert
<1>3. table'[d] = NewRow(o, k, w) /\ \A e \in DOMAIN table : table'[e] = table[e]
  BY DEF Insert
<1>4. table' \in [DOMAIN table' -> Row]
  BY <1>1 DEF Insert
<1>5. NewRow(o, k, w).order = o /\ NewRow(o, k, w).attempt = k
  BY DEF NewRow
<1>6. Attempts(table', o) = Attempts(table, o) \cup {k}
  BY <1>2, <1>3, <1>5 DEF Attempts, RowsOf
<1>7. ASSUME NEW p \in Orders \ {o} PROVE Attempts(table', p) = Attempts(table, p)
  BY <1>2, <1>3, <1>5 DEF Attempts, RowsOf
<1> QED
  BY <1>2, <1>3, <1>4, <1>6, <1>7

\* An UPDATE keeps the table well typed and every record's identity.
LEMMA FlushKeeps ==
    ASSUME table \in [DOMAIN table -> Row], NEW d \in DOMAIN table,
           NEW loaded, NEW new, new.status \in Statuses,
           new.responded \in Requests \cup {None}, new.reason \in Reasons \cup {None},
           Flush(d, loaded, new)
    PROVE  /\ table' \in [DOMAIN table -> Row]
           /\ SameIdentities(table, table')
<1>1. DOMAIN table' = DOMAIN table
  BY DEF Flush
<1>2. \A e \in DOMAIN table : e # d => table'[e] = table[e]
  BY DEF Flush
<1>3. table'[d] =
        [table[d] EXCEPT
           !.status = Flushed(@, loaded.status, new.status),
           !.responded = Flushed(@, loaded.responded, new.responded),
           !.reason = Flushed(@, loaded.reason, new.reason)]
  BY DEF Flush
<1>4. table[d] \in Row
  OBVIOUS
<1>5. /\ table'[d] \in Row
      /\ table'[d].order = table[d].order
      /\ table'[d].attempt = table[d].attempt
      /\ table'[d].worker = table[d].worker
  BY <1>3, <1>4 DEF Row, Flushed
<1>6. table' \in [DOMAIN table -> Row]
  BY <1>1, <1>2, <1>5 DEF Flush
<1> QED
  BY <1>1, <1>2, <1>5, <1>6 DEF SameIdentities

-----------------------------------------------------------------------------
(* What a step of one request leaves to the others                         *)

\* Request r moves to point p; no other request is touched.
Moves(r, p) ==
    /\ pc' = [pc EXCEPT ![r] = p]
    /\ \A s \in Requests \ {r} : req'[s] = req[s] /\ attemptNo'[s] = attemptNo[s]

\* When r moves and no other record comes or goes, the others stay in order.
LEMMA OthersKeep ==
    ASSUME IInv, NEW r \in Requests, NEW p, Moves(r, p),
           DOMAIN table \subseteq DOMAIN table',
           DOMAIN table' \subseteq DOMAIN table \cup {r},
           \A o \in Orders : Attempts(table, o) \subseteq Attempts(table', o)
    PROVE  \A s \in Requests \ {r} : RequestOK(s)'
<1> SUFFICES ASSUME NEW s \in Requests \ {r} PROVE RequestOK(s)'
  OBVIOUS
<1>1. RequestOK(s) /\ pc'[s] = pc[s] /\ req'[s] = req[s] /\ attemptNo'[s] = attemptNo[s]
  BY DEF IInv, TypeOK, Moves
<1>2. pc[s] \in {"mark", "create"} => pc[s] \in AssignPoints
  BY DEF AssignPoints
<1> QED
  BY <1>1, <1>2 DEF RequestOK

\* When r moves and the table stays, only r's own data has to be looked at.
LEMMA TableKept ==
    ASSUME IInv, NEW r \in Requests, NEW p, Moves(r, p), UNCHANGED table,
           TypeOK', RequestOK(r)'
    PROVE  IInv'
<1>1. \A s \in Requests \ {r} : RequestOK(s)'
  BY OthersKeep
<1>2. Numbered'
  BY DEF IInv, Numbered
<1> QED
  BY <1>1, <1>2 DEF IInv

-----------------------------------------------------------------------------
(* Every step keeps the inductive invariant                                *)

LEMMA InitIInv == Init => IInv
<1> SUFFICES ASSUME Init PROVE IInv
  OBVIOUS
<1>1. TypeOK
  BY DEF Init, TypeOK, NewOrder, OrderState, OrderStatuses, NoRequest, Request,
         Responses, Points, Outcomes, EmptyRow
<1>2. \A o \in Orders : Attempts(table, o) = 1..0
  BY DEF Init, Attempts, RowsOf
<1>3. Numbered
  BY <1>2 DEF Init, Numbered
<1>4. \A r \in Requests : RequestOK(r)
  BY DEF Init, RequestOK, AssignPoints, ConfirmPoints, AfterLookup
<1> QED
  BY <1>1, <1>3, <1>4 DEF IInv

\* Sending a request, or refusing it at once.
LEMMA StartKeeps ==
    ASSUME IInv, NEW r \in Requests, Start(r)
    PROVE  IInv'
<1> USE DEF AssignPoints, ConfirmPoints, BeforeInsert, AfterLookup
<1>1. CASE RefuseBlank(r)
  <2>1. TypeOK'
    BY <1>1 DEF RefuseBlank, Finish, IInv, TypeOK, Points, Outcomes
  <2>2. Moves(r, "done") /\ UNCHANGED table
    BY <1>1 DEF RefuseBlank, Finish, Moves
  <2>3. RequestOK(r)'
    BY <1>1 DEF RefuseBlank, Finish, IInv, TypeOK, RequestOK
  <2> QED
    BY <2>1, <2>2, <2>3, TableKept
<1>2. CASE StartAssign(r)
  <2>1. PICK o \in Orders, w \in Workers :
           req' = [req EXCEPT ![r] = AssignRequest(o, w)]
    BY <1>2 DEF StartAssign
  <2>2. /\ AssignRequest(o, w) \in Request
        /\ AssignRequest(o, w).kind = "assign"
        /\ AssignRequest(o, w).order = o
        /\ AssignRequest(o, w).worker = w
    BY DEF AssignRequest, NoRequest, Request, Responses
  <2>3. TypeOK'
    BY <1>2, <2>1, <2>2 DEF StartAssign, GoTo, IInv, TypeOK, Points
  <2>4. Moves(r, "check") /\ UNCHANGED table
    BY <1>2, <2>1 DEF StartAssign, GoTo, Moves, IInv, TypeOK
  <2>5. RequestOK(r)'
    BY <1>2, <2>1, <2>2 DEF StartAssign, GoTo, IInv, TypeOK, RequestOK
  <2> QED
    BY <2>3, <2>4, <2>5, TableKept
<1>3. CASE StartConfirm(r)
  <2>1. PICK d \in DOMAIN table \cup {NoSuchId}, w \in Workers,
             response \in Responses, reason \in Reasons \cup {None} :
           req' = [req EXCEPT ![r] = ConfirmRequest(d, w, response, reason)]
    BY <1>3 DEF StartConfirm
  <2> DEFINE q == ConfirmRequest(d, w, response, reason)
  <2>2. q \in Request /\ q.kind = "confirm" /\ q.dispatch = d /\ q.worker = w
    BY DEF ConfirmRequest, Request, IInv, TypeOK
  <2> HIDE DEF q
  <2>3. req' = [req EXCEPT ![r] = q]
    BY <2>1 DEF q
  <2>4. TypeOK'
    BY <1>3, <2>2, <2>3 DEF StartConfirm, GoTo, IInv, TypeOK, Points
  <2>5. Moves(r, "lookup") /\ UNCHANGED table
    BY <1>3, <2>3 DEF StartConfirm, GoTo, Moves, IInv, TypeOK
  <2>6. RequestOK(r)'
    BY <1>3, <2>2, <2>3 DEF StartConfirm, GoTo, IInv, TypeOK, RequestOK
  <2> QED
    BY <2>4, <2>5, <2>6, TableKept
<1> QED
  BY <1>1, <1>2, <1>3 DEF Start

\* The steps of manual_assign_order.
LEMMA AssignKeeps ==
    ASSUME IInv, NEW r \in Requests, AssignStep(r)
    PROVE  IInv'
<1> USE DEF AssignPoints, ConfirmPoints, BeforeInsert, AfterLookup
<1>1. CASE HasPendingDispatch(r)
  <2>1. TypeOK'
    BY <1>1 DEF HasPendingDispatch, Finish, GoTo, IInv, TypeOK, Points, Outcomes
  <2>2. PICK p \in {"number", "done"} : Moves(r, p) /\ UNCHANGED table
    BY <1>1 DEF HasPendingDispatch, Finish, GoTo, Moves
  <2>3. RequestOK(r)'
    BY <1>1 DEF HasPendingDispatch, Finish, GoTo, IInv, TypeOK, RequestOK
  <2> QED
    BY <2>1, <2>2, <2>3, TableKept
<1>2. CASE GetLatestAttemptNo(r)
  <2> DEFINE o == req[r].order
  <2>1. o \in Orders
    BY <1>2 DEF GetLatestAttemptNo, IInv, RequestOK
  <2>2. PICK n \in Nat : Attempts(table, o) = 1..n
    BY <2>1 DEF IInv, Numbered
  <2>3. LatestAttemptNo(table, o) = n
    BY <2>2, LatestOfNumbered
  <2>4. attemptNo' = [attemptNo EXCEPT ![r] = n + 1]
    BY <1>2, <2>3 DEF GetLatestAttemptNo
  <2>5. n # 0 => n \in Attempts(table, o)
    BY <2>2
  <2>6. TypeOK'
    BY <1>2, <2>4 DEF GetLatestAttemptNo, GoTo, IInv, TypeOK, Points
  <2>7. Moves(r, "mark") /\ UNCHANGED table
    BY <1>2, <2>4 DEF GetLatestAttemptNo, GoTo, Moves, IInv, TypeOK
  <2>8. RequestOK(r)'
    BY <1>2, <2>4, <2>5 DEF GetLatestAttemptNo, GoTo, IInv, TypeOK, RequestOK
  <2> QED
    BY <2>6, <2>7, <2>8, TableKept
<1>3. CASE MarkOrderDispatched(r)
  <2>1. Dispatched(req[r].worker) \in OrderState
    BY <1>3 DEF MarkOrderDispatched, IInv, RequestOK, Dispatched, OrderState, OrderStatuses
  <2>2. TypeOK'
    BY <1>3, <2>1 DEF MarkOrderDispatched, RaisedByMark, OrderCall, OrderCallRaises, Finish, GoTo,
                      IInv, TypeOK, Points, Outcomes
  <2>3. PICK p \in {"create", "done"} : Moves(r, p) /\ UNCHANGED table
    BY <1>3 DEF MarkOrderDispatched, Finish, GoTo, Moves
  <2>4. RequestOK(r)'
    BY <1>3 DEF MarkOrderDispatched, Finish, GoTo, IInv, TypeOK, RequestOK
  <2> QED
    BY <2>2, <2>3, <2>4, TableKept
<1>4. CASE CreateDispatch(r)
  <2> DEFINE o == req[r].order
             k == attemptNo[r]
             w == req[r].worker
  <2>1. /\ o \in Orders /\ w \in Workers /\ k \in Nat \ {0} /\ r \notin DOMAIN table
        /\ k # 1 => k - 1 \in Attempts(table, o)
    BY <1>4 DEF CreateDispatch, IInv, TypeOK, RequestOK
  <2>2. CASE AttemptTaken(o, k)
    <3>1. /\ pc' = [pc EXCEPT ![r] = "compensate"]
          /\ UNCHANGED <<table, orders, req, attemptNo, row, outcome>>
      BY <1>4, <2>2 DEF CreateDispatch, GoTo
    <3>2. TypeOK'
      BY <3>1 DEF IInv, TypeOK, Points
    <3>3. Moves(r, "compensate")
      BY <3>1 DEF Moves
    <3>4. RequestOK(r)'
      BY <1>4, <3>1 DEF CreateDispatch, IInv, TypeOK, RequestOK
    <3> QED
      BY <3>1, <3>2, <3>3, <3>4, TableKept
  <2>3. CASE ~AttemptTaken(o, k)
    <3>1. /\ table' = Insert(table, r, NewRow(o, k, w))
          /\ pc' = [pc EXCEPT ![r] = "refresh"]
          /\ UNCHANGED <<orders, req, attemptNo, row, outcome>>
      BY <1>4, <2>3 DEF CreateDispatch, GoTo
    <3>2. /\ DOMAIN table' = DOMAIN table \cup {r}
          /\ table' \in [DOMAIN table' -> Row]
          /\ table'[r] = NewRow(o, k, w)
          /\ \A e \in DOMAIN table : table'[e] = table[e]
          /\ Attempts(table', o) = Attempts(table, o) \cup {k}
          /\ \A p \in Orders \ {o} : Attempts(table', p) = Attempts(table, p)
      <4>1. table \in [DOMAIN table -> Row]
        BY DEF IInv, TypeOK
      <4> HIDE DEF o, k, w
      <4> QED
        BY <2>1, <3>1, <4>1, InsertFresh
    <3>3. TypeOK'
      BY <3>1, <3>2 DEF IInv, TypeOK, Points
    <3>4. Numbered'
      <4>1. ASSUME NEW p \in Orders PROVE \E n \in Nat : Attempts(table', p) = 1..n
        <5>1. PICK n \in Nat : Attempts(table, p) = 1..n
          BY DEF IInv, Numbered
        <5>2. CASE p = o
          <6>1. k = n + 1
            BY <2>1, <2>3, <5>1, <5>2 DEF AttemptTaken
          <6>2. (1..n) \cup {n + 1} = 1..(n + 1)
            OBVIOUS
          <6>3. Attempts(table', p) = Attempts(table, p) \cup {k}
            BY <3>2, <5>2
          <6>4. Attempts(table', p) = 1..(n + 1)
            BY <5>1, <6>1, <6>2, <6>3
          <6> QED
            BY <6>4
        <5>3. CASE p # o
          BY <3>2, <5>1, <5>3
        <5> QED
          BY <5>2, <5>3
      <4>2. \A d \in DOMAIN table : ~(table[d].order = o /\ table[d].attempt = k)
        BY <2>3 DEF AttemptTaken, Attempts, RowsOf
      <4>3. NewRow(o, k, w).order = o /\ NewRow(o, k, w).attempt = k
        BY DEF NewRow
      <4>4. ASSUME NEW d \in DOMAIN table', NEW e \in DOMAIN table',
                   table'[d].order = table'[e].order, table'[d].attempt = table'[e].attempt
            PROVE  d = e
        BY <3>2, <4>2, <4>3, <4>4 DEF IInv, Numbered
      <4> QED
        BY <4>1, <4>4 DEF Numbered
    <3>5. \A s \in Requests \ {r} : RequestOK(s)'
      <4>1. Moves(r, "refresh")
        BY <3>1 DEF Moves
      <4>2. \A p \in Orders : Attempts(table, p) \subseteq Attempts(table', p)
        BY <3>2
      <4> QED
        BY <3>2, <4>1, <4>2, OthersKeep
    <3>6. RequestOK(r)'
      BY <1>4, <3>1, <3>2 DEF CreateDispatch, IInv, TypeOK, RequestOK
    <3> QED
      BY <3>3, <3>4, <3>5, <3>6 DEF IInv
  <2> QED
    BY <2>2, <2>3
<1>5. CASE RefreshCreated(r)
  <2>1. r \in DOMAIN table
    BY <1>5 DEF RefreshCreated, IInv, RequestOK
  <2>2. TypeOK'
    BY <1>5, <2>1 DEF RefreshCreated, Finish, IInv, TypeOK, Points, Outcomes
  <2>3. Moves(r, "done") /\ UNCHANGED table
    BY <1>5 DEF RefreshCreated, Finish, Moves
  <2>4. RequestOK(r)'
    BY <1>5 DEF RefreshCreated, Finish, IInv, TypeOK, RequestOK
  <2> QED
    BY <2>2, <2>3, <2>4, TableKept
<1>6. CASE SafeMarkOrderPending(r)
  <2>1. Unassigned \in OrderState
    BY DEF Unassigned, OrderState, OrderStatuses
  <2>2. TypeOK'
    BY <1>6, <2>1 DEF SafeMarkOrderPending, OrderCall, OrderCallRaises, Finish,
                      IInv, TypeOK, Points, Outcomes
  <2>3. Moves(r, "done") /\ UNCHANGED table
    BY <1>6 DEF SafeMarkOrderPending, Finish, Moves
  <2>4. RequestOK(r)'
    BY <1>6 DEF SafeMarkOrderPending, Finish, IInv, TypeOK, RequestOK
  <2> QED
    BY <2>2, <2>3, <2>4, TableKept
<1> QED
  BY <1>1, <1>2, <1>3, <1>4, <1>5, <1>6 DEF AssignStep

\* An UPDATE answers or reverts a record; it never numbers or drops one.
LEMMA FlushStepKeeps ==
    ASSUME IInv, NEW r \in Requests, NEW p, Moves(r, p),
           NEW d \in DOMAIN table, NEW loaded, NEW new, new.status \in Statuses,
           new.responded \in Requests \cup {None}, new.reason \in Reasons \cup {None},
           Flush(d, loaded, new),
           p \in Points, pc[r] \in AfterLookup, p \in AfterLookup \cup {"done"},
           UNCHANGED <<orders, req, attemptNo, row>>, outcome' \in [Requests -> Outcomes]
    PROVE  IInv'
<1> USE DEF AssignPoints, ConfirmPoints, BeforeInsert, AfterLookup
<1>1. table' \in [DOMAIN table -> Row] /\ SameIdentities(table, table')
  <2>1. table \in [DOMAIN table -> Row]
    BY DEF IInv, TypeOK
  <2> QED
    BY <2>1, FlushKeeps
<1>2. \A o : Attempts(table', o) = Attempts(table, o)
  BY <1>1, SameAttempts
<1>3. DOMAIN table' = DOMAIN table
  BY <1>1 DEF SameIdentities
<1>4. TypeOK'
  BY <1>1, <1>3 DEF Moves, IInv, TypeOK
<1>5. Numbered'
  BY <1>1, <1>2, <1>3 DEF IInv, Numbered, SameIdentities
<1>6. \A s \in Requests \ {r} : RequestOK(s)'
  BY <1>2, <1>3, OthersKeep
<1>7. RequestOK(r)'
  BY <1>3 DEF Moves, IInv, TypeOK, RequestOK
<1> QED
  BY <1>4, <1>5, <1>6, <1>7 DEF IInv

\* The steps of confirm_worker_response.
LEMMA ConfirmKeeps ==
    ASSUME IInv, NEW r \in Requests, ConfirmStep(r)
    PROVE  IInv'
<1> USE DEF AssignPoints, ConfirmPoints, BeforeInsert, AfterLookup
<1>1. CASE GetById(r)
  <2>1. PICK p \in {"load", "done"} :
           /\ pc' = [pc EXCEPT ![r] = p]
           /\ p = "load" => ConfirmCheck(table, req[r]) = "ok"
    BY <1>1 DEF GetById, Finish, GoTo
  <2>2. ConfirmCheck(table, req[r]) \in Outcomes
    BY DEF ConfirmCheck, Outcomes
  <2>3. ConfirmCheck(table, req[r]) = "ok" => req[r].dispatch \in DOMAIN table
    BY DEF ConfirmCheck
  <2>4. TypeOK'
    BY <1>1, <2>2 DEF GetById, Finish, GoTo, IInv, TypeOK, Points
  <2>5. Moves(r, p) /\ UNCHANGED table
    BY <1>1, <2>1 DEF GetById, Moves
  <2>6. RequestOK(r)'
    BY <1>1, <2>1, <2>3 DEF GetById, IInv, TypeOK, RequestOK
  <2> QED
    BY <2>4, <2>5, <2>6, TableKept
<1>2. ASSUME NEW from \in {"load", "revertLoad"}, NEW to \in {"write", "revertWrite"},
             LoadRow(r, from, to)
      PROVE  IInv'
  <2>1. req[r].dispatch \in DOMAIN table
    BY <1>2 DEF LoadRow, IInv, RequestOK
  <2>2. TypeOK'
    BY <1>2, <2>1 DEF LoadRow, GoTo, IInv, TypeOK, Points
  <2>3. Moves(r, to) /\ UNCHANGED table
    BY <1>2 DEF LoadRow, GoTo, Moves
  <2>4. RequestOK(r)'
    BY <1>2 DEF LoadRow, GoTo, IInv, TypeOK, RequestOK
  <2> QED
    BY <2>2, <2>3, <2>4, TableKept
<1>3. CASE LoadForResponse(r)
  BY <1>2, <1>3 DEF LoadForResponse
<1>4. CASE LoadForRevert(r)
  BY <1>2, <1>4 DEF LoadForRevert
<1>5. row[r] \in Row \cup {EmptyRow} /\ req[r] \in Request
  BY DEF IInv, TypeOK
<1>6. CASE CommitResponse(r)
  <2> DEFINE q == req[r]
             new == Answered(row[r], r, q.response, q.reason)
  <2>1. /\ Flush(q.dispatch, row[r], new)
        /\ Moves(r, "reload")
        /\ q.dispatch \in DOMAIN table
        /\ pc[r] \in AfterLookup
        /\ UNCHANGED <<orders, req, attemptNo, row, outcome>>
    BY <1>6 DEF CommitResponse, GoTo, Moves, IInv, RequestOK
  <2>2. /\ new.status \in Statuses
        /\ new.responded \in Requests \cup {None}
        /\ new.reason \in Reasons \cup {None}
    BY <1>5 DEF Answered, Verdict, Row, EmptyRow, Request, Statuses
  <2>3. outcome' \in [Requests -> Outcomes]
    BY <2>1 DEF IInv, TypeOK
  <2>4. "reload" \in Points
    BY DEF Points
  <2> HIDE DEF q, new
  <2> QED
    BY <2>1, <2>2, <2>3, <2>4, FlushStepKeeps DEF q
<1>7. CASE RefreshUpdated(r)
  <2>1. req[r].dispatch \in DOMAIN table
    BY <1>7 DEF RefreshUpdated, IInv, RequestOK
  <2>2. TypeOK'
    BY <1>7, <2>1 DEF RefreshUpdated, GoTo, IInv, TypeOK, Points
  <2>3. Moves(r, "tell") /\ UNCHANGED table
    BY <1>7 DEF RefreshUpdated, GoTo, Moves
  <2>4. RequestOK(r)'
    BY <1>7 DEF RefreshUpdated, GoTo, IInv, TypeOK, RequestOK
  <2> QED
    BY <2>2, <2>3, <2>4, TableKept
<1>8. CASE TellOrder(r)
  <2>1. Unassigned \in OrderState /\ Confirmed(req[r].worker) \in OrderState
    BY <1>8 DEF TellOrder, IInv, RequestOK, Unassigned, Confirmed, OrderState, OrderStatuses
  <2>2. TypeOK'
    BY <1>8, <2>1 DEF TellOrder, OrderCall, OrderCallRaises, Finish, GoTo,
                      IInv, TypeOK, Points, Outcomes
  <2>3. PICK p \in {"revertLoad", "done"} : Moves(r, p) /\ UNCHANGED table
    BY <1>8 DEF TellOrder, Finish, GoTo, Moves
  <2>4. RequestOK(r)'
    BY <1>8 DEF TellOrder, Finish, GoTo, IInv, TypeOK, RequestOK
  <2> QED
    BY <2>2, <2>3, <2>4, TableKept
<1>9. CASE CommitRevert(r)
  <2> DEFINE d == req[r].dispatch
             new == Reverted(row[r])
  <2>1. /\ Flush(d, row[r], new)
        /\ Moves(r, "done")
        /\ d \in DOMAIN table
        /\ pc[r] \in AfterLookup
        /\ UNCHANGED <<orders, req, attemptNo, row>>
    BY <1>9 DEF CommitRevert, Finish, Moves, IInv, RequestOK
  <2>2. /\ new.status \in Statuses
        /\ new.responded \in Requests \cup {None}
        /\ new.reason \in Reasons \cup {None}
    BY <1>5 DEF Reverted, Row, EmptyRow, Statuses
  <2>3. outcome' \in [Requests -> Outcomes]
    BY <1>9 DEF CommitRevert, Finish, IInv, TypeOK, Outcomes
  <2>4. "done" \in Points
    BY DEF Points
  <2> HIDE DEF d, new
  <2> QED
    BY <2>1, <2>2, <2>3, <2>4, FlushStepKeeps
<1> QED
  BY <1>1, <1>3, <1>4, <1>6, <1>7, <1>8, <1>9 DEF ConfirmStep

\* A driver error or a cancellation moves one request, to compensation or to
\* its end.
LEMMA FaultKeeps ==
    ASSUME IInv, NEW r \in Requests, DbError(r) \/ Cancel(r)
    PROVE  IInv'
<1> USE DEF AssignPoints, ConfirmPoints, BeforeInsert, AfterLookup
<1>1. PICK p \in {"compensate", "done"} :
         /\ pc' = [pc EXCEPT ![r] = p]
         /\ p = "compensate" => pc[r] \in AssignPoints
  BY DEF DbError, DbErrorSurfaces, DbErrorCompensated, DbErrorSwallowed, Cancel, Finish, GoTo
<1>2. UNCHANGED <<table, orders, req, attemptNo, row>>
  BY DEF DbError, DbErrorSurfaces, DbErrorCompensated, DbErrorSwallowed, Cancel
<1>3. outcome' \in [Requests -> Outcomes]
  BY DEF DbError, DbErrorSurfaces, DbErrorCompensated, DbErrorSwallowed, Cancel, Finish, GoTo,
         IInv, TypeOK, Outcomes
<1>4. TypeOK'
  BY <1>1, <1>2, <1>3 DEF IInv, TypeOK, Points
<1>5. Moves(r, p)
  BY <1>1, <1>2 DEF Moves
<1>6. RequestOK(r)'
  BY <1>1, <1>2 DEF IInv, TypeOK, RequestOK
<1> QED
  BY <1>2, <1>4, <1>5, <1>6, TableKept

\* A restart ends every handler and keeps the table.
LEMMA RestartKeeps ==
    ASSUME IInv, Restart
    PROVE  IInv'
<1> USE DEF AssignPoints, ConfirmPoints, BeforeInsert, AfterLookup
<1>1. NewOrder \in OrderState
  BY DEF NewOrder, OrderState, OrderStatuses
<1>2. TypeOK'
  BY <1>1 DEF Restart, InFlight, IInv, TypeOK, Points, Outcomes
<1>3. Numbered'
  BY DEF Restart, IInv, Numbered
<1>4. ASSUME NEW r \in Requests PROVE RequestOK(r)'
  BY DEF Restart, InFlight, IInv, TypeOK, RequestOK
<1> QED
  BY <1>2, <1>3, <1>4 DEF IInv

LEMMA StepIInv == IInv /\ [Next]_vars => IInv'
<1> SUFFICES ASSUME IInv, [Next]_vars PROVE IInv'
  OBVIOUS
<1>1. ASSUME NEW r \in Requests, Start(r) PROVE IInv'
  BY <1>1, StartKeeps
<1>2. ASSUME NEW r \in Requests, AssignStep(r) PROVE IInv'
  BY <1>2, AssignKeeps
<1>3. ASSUME NEW r \in Requests, ConfirmStep(r) PROVE IInv'
  BY <1>3, ConfirmKeeps
<1>4. ASSUME NEW r \in Requests, DbError(r) \/ Cancel(r) PROVE IInv'
  BY <1>4, FaultKeeps
<1>5. CASE Restart
  BY <1>5, RestartKeeps
<1>6. CASE UNCHANGED vars
  BY <1>6 DEF vars, IInv, TypeOK, Numbered, RequestOK
<1> QED
  BY <1>1, <1>2, <1>3, <1>4, <1>5, <1>6 DEF Next, Finished

-----------------------------------------------------------------------------
(* Theorems                                                                *)

LEMMA Inductive == Spec => []IInv
BY InitIInv, StepIInv, PTL DEF Spec

\* Whatever overlaps, fails, is cancelled or restarts, the state stays well
\* typed: statuses, responses and order states are those the code names.
THEOREM TypeCorrect == Spec => []TypeOK
<1>1. IInv => TypeOK
  BY DEF IInv
<1> QED
  BY <1>1, Inductive, PTL

\* manual_assign_order numbers the attempts of every order 1, 2, ... without
\* gap or duplicate, although it reads the latest number long before the
\* INSERT and any number of handlers may have read the same one.
THEOREM AttemptsAreNumbered == Spec => []HistoryNumbered
<1>1. IInv => HistoryNumbered
  <2> SUFFICES ASSUME IInv PROVE HistoryNumbered
    OBVIOUS
  <2>1. ASSUME NEW o \in Orders
        PROVE  Attempts(table, o) = 1..LatestAttemptNo(table, o)
    <3>1. PICK n \in Nat : Attempts(table, o) = 1..n
      BY DEF IInv, Numbered
    <3> QED
      BY <3>1, LatestOfNumbered
  <2> QED
    BY <2>1 DEF IInv, Numbered, HistoryNumbered
<1> QED
  BY <1>1, Inductive, PTL

-----------------------------------------------------------------------------
(* Answers.  Two answers that race may mix their columns, but nothing is   *)
(* ever made up, and no other worker's answer gets in.                     *)

\* A response that passed the checks is its dispatch's worker's own, and
\* gives a reason exactly when it rejects.
RespondentOK(r) ==
    /\ pc[r] = "idle" => req[r].kind = "none"
    /\ pc[r] \in AfterLookup =>
         /\ Answers(r, req[r].dispatch)
         /\ (req[r].response = "REJECT") = (req[r].reason # None)

AInv ==
    /\ IInv
    /\ AnswersAreGenuine
    /\ \A r \in Requests : RespondentOK(r)

\* Requests that have been sent are not changed any more.
RequestsStay == \A s \in Requests : pc[s] # "idle" => req'[s] = req[s]

\* The two halves of AnswersAreGenuine, for one record.
StatusGenuine(d) ==
    table[d].status # "PENDING" =>
        \E r \in Requests : Answers(r, d) /\ Verdict(req[r].response) = table[d].status

ReasonGenuine(d) ==
    table[d].reason # None =>
        \E r \in Requests : /\ Answers(r, d) /\ req[r].response = "REJECT"
                            /\ req[r].reason = table[d].reason

LEMMA GenuineHalves ==
    AnswersAreGenuine <=> \A d \in DOMAIN table : StatusGenuine(d) /\ ReasonGenuine(d)
BY DEF AnswersAreGenuine, StatusGenuine, ReasonGenuine

-----------------------------------------------------------------------------
\* Who answered a record remains its answerer while the record keeps its
\* worker, whatever other requests are sent.
LEMMA AnswersStay ==
    ASSUME AInv, RequestsStay, NEW s \in Requests, NEW d \in DOMAIN table,
           Answers(s, d), table'[d].worker = table[d].worker
    PROVE  req'[s] = req[s] /\ Answers(s, d)'
<1>1. pc[s] # "idle"
  BY DEF AInv, RespondentOK, Answers
<1> QED
  BY <1>1 DEF RequestsStay, Answers

\* A column that a step does not write stays genuine.
LEMMA ColumnsStay ==
    ASSUME AInv, RequestsStay, NEW d \in DOMAIN table,
           table'[d].worker = table[d].worker
    PROVE  /\ table'[d].status = table[d].status => StatusGenuine(d)'
           /\ table'[d].reason = table[d].reason => ReasonGenuine(d)'
<1>1. StatusGenuine(d) /\ ReasonGenuine(d)
  BY GenuineHalves DEF AInv
<1>2. ASSUME table'[d].status = table[d].status PROVE StatusGenuine(d)'
  <2>1. CASE table[d].status = "PENDING"
    BY <1>2, <2>1 DEF StatusGenuine
  <2>2. CASE table[d].status # "PENDING"
    <3>1. PICK s \in Requests :
             Answers(s, d) /\ Verdict(req[s].response) = table[d].status
      BY <1>1, <2>2 DEF StatusGenuine
    <3>2. req'[s] = req[s] /\ Answers(s, d)'
      BY <3>1, AnswersStay
    <3> QED
      BY <1>2, <3>1, <3>2 DEF StatusGenuine
  <2> QED
    BY <2>1, <2>2
<1>3. ASSUME table'[d].reason = table[d].reason PROVE ReasonGenuine(d)'
  <2>1. CASE table[d].reason = None
    BY <1>3, <2>1 DEF ReasonGenuine
  <2>2. CASE table[d].reason # None
    <3>1. PICK s \in Requests : /\ Answers(s, d) /\ req[s].response = "REJECT"
                                /\ req[s].reason = table[d].reason
      BY <1>1, <2>2 DEF ReasonGenuine
    <3>2. req'[s] = req[s] /\ Answers(s, d)'
      BY <3>1, AnswersStay
    <3> QED
      BY <1>3, <3>1, <3>2 DEF ReasonGenuine
  <2> QED
    BY <2>1, <2>2
<1> QED
  BY <1>2, <1>3

\* The respondents stay in order while the records keep their workers, if the
\* one that moves does.
LEMMA RespondentsStay ==
    ASSUME AInv, RequestsStay, NEW r \in Requests, NEW p, Moves(r, p),
           \A d \in DOMAIN table : table'[d].worker = table[d].worker,
           RespondentOK(r)'
    PROVE  \A s \in Requests : RespondentOK(s)'
<1> SUFFICES ASSUME NEW s \in Requests \ {r} PROVE RespondentOK(s)'
  OBVIOUS
<1>1. pc'[s] = pc[s] /\ req'[s] = req[s]
  BY DEF Moves, AInv, IInv, TypeOK
<1>2. CASE pc[s] \in AfterLookup
  <2>1. req[s].dispatch \in DOMAIN table
    BY <1>2 DEF AInv, IInv, RequestOK
  <2>2. Answers(s, req[s].dispatch) /\ (req[s].response = "REJECT") = (req[s].reason # None)
    BY <1>2 DEF AInv, RespondentOK
  <2>3. Answers(s, req[s].dispatch)'
    BY <1>1, <2>1, <2>2 DEF Answers
  <2> QED
    BY <1>1, <1>2, <2>2, <2>3 DEF RespondentOK, AfterLookup, ConfirmPoints
<1>3. CASE pc[s] \notin AfterLookup
  BY <1>1, <1>3 DEF AInv, RespondentOK
<1> QED
  BY <1>2, <1>3

\* A step that leaves the table alone.
LEMMA TableKeptGenuine ==
    ASSUME AInv, IInv', RequestsStay, NEW r \in Requests, NEW p, Moves(r, p),
           UNCHANGED table, RespondentOK(r)'
    PROVE  AInv'
<1>1. \A d \in DOMAIN table : StatusGenuine(d)' /\ ReasonGenuine(d)'
  BY ColumnsStay
<1>2. AnswersAreGenuine'
  BY <1>1 DEF StatusGenuine, ReasonGenuine, AnswersAreGenuine
<1>3. \A s \in Requests : RespondentOK(s)'
  BY RespondentsStay
<1> QED
  BY <1>2, <1>3 DEF AInv

-----------------------------------------------------------------------------
(* Every step keeps the invariant                                          *)

LEMMA InitAInv == Init => AInv
<1> SUFFICES ASSUME Init PROVE AInv
  OBVIOUS
<1>1. IInv
  BY InitIInv
<1>2. AnswersAreGenuine /\ \A r \in Requests : RespondentOK(r)
  BY DEF Init, AnswersAreGenuine, RespondentOK, NoRequest, AfterLookup, ConfirmPoints
<1> QED
  BY <1>1, <1>2 DEF AInv

\* Sending a request: only an idle one changes.
LEMMA StartGenuine ==
    ASSUME AInv, IInv', NEW r \in Requests, Start(r)
    PROVE  AInv'
<1>1. pc \in [Requests -> Points] /\ req \in [Requests -> Request]
  BY DEF AInv, IInv, TypeOK
<1>2. UNCHANGED table /\ pc[r] = "idle"
  BY DEF Start, RefuseBlank, StartAssign, StartConfirm
<1>3. PICK p \in {"done", "check", "lookup"} : pc' = [pc EXCEPT ![r] = p]
  BY DEF Start, RefuseBlank, StartAssign, StartConfirm, Finish, GoTo
<1>4. \A s \in Requests \ {r} : req'[s] = req[s] /\ attemptNo'[s] = attemptNo[s]
  BY <1>1 DEF Start, RefuseBlank, StartAssign, StartConfirm
<1>5. RequestsStay /\ Moves(r, p)
  BY <1>2, <1>3, <1>4 DEF RequestsStay, Moves
<1>6. RespondentOK(r)'
  BY <1>1, <1>3 DEF RespondentOK, AfterLookup, ConfirmPoints
<1> QED
  BY <1>2, <1>5, <1>6, TableKeptGenuine

\* Steps of one request that touch neither the table nor any request, and
\* do not pass the checks.
LEMMA MoveGenuine ==
    ASSUME AInv, IInv', NEW r \in Requests, NEW p, Moves(r, p), p # "idle",
           p \in AfterLookup => pc[r] \in AfterLookup,
           UNCHANGED <<table, req>>
    PROVE  AInv'
<1>1. RequestsStay /\ pc' = [pc EXCEPT ![r] = p] /\ pc \in [Requests -> Points]
  BY DEF RequestsStay, Moves, AInv, IInv, TypeOK
<1>2. RespondentOK(r) /\ pc'[r] = p
  BY <1>1 DEF AInv
<1>3. RespondentOK(r)'
  BY <1>2 DEF RespondentOK, Answers
<1> QED
  BY <1>1, <1>3, TableKeptGenuine

\* The steps of manual_assign_order: a new record has no answer.
LEMMA AssignGenuine ==
    ASSUME AInv, IInv', NEW r \in Requests, AssignStep(r)
    PROVE  AInv'
<1>1. IInv /\ pc \in [Requests -> Points] /\ RequestOK(r)
  BY DEF AInv, IInv, TypeOK
<1>2. PICK p \in {"number", "mark", "create", "refresh", "compensate", "done"} :
         pc' = [pc EXCEPT ![r] = p]
  BY DEF AssignStep, HasPendingDispatch, GetLatestAttemptNo, MarkOrderDispatched,
         CreateDispatch, RefreshCreated, SafeMarkOrderPending, Finish, GoTo
<1>3. req' = req /\ \A s \in Requests \ {r} : attemptNo'[s] = attemptNo[s]
  BY <1>1 DEF AssignStep, HasPendingDispatch, GetLatestAttemptNo, MarkOrderDispatched,
              CreateDispatch, RefreshCreated, SafeMarkOrderPending, IInv, TypeOK
<1>4. Moves(r, p) /\ p # "idle" /\ p \notin AfterLookup
  BY <1>2, <1>3 DEF Moves, AfterLookup, ConfirmPoints
<1>5. CASE UNCHANGED table
  BY <1>3, <1>4, <1>5, MoveGenuine
<1>6. CASE ~UNCHANGED table
  <2> DEFINE o == req[r].order
             k == attemptNo[r]
             w == req[r].worker
  <2>1. CreateDispatch(r) /\ table' = Insert(table, r, NewRow(o, k, w))
    BY <1>6 DEF AssignStep, HasPendingDispatch, GetLatestAttemptNo, MarkOrderDispatched,
                CreateDispatch, RefreshCreated, SafeMarkOrderPending
  <2>2. /\ o \in Orders /\ w \in Workers /\ k \in Nat \ {0} /\ r \notin DOMAIN table
        /\ table \in [DOMAIN table -> Row]
    BY <1>1, <2>1 DEF CreateDispatch, IInv, TypeOK, RequestOK, AssignPoints, BeforeInsert
  <2>3. /\ DOMAIN table' = DOMAIN table \cup {r}
        /\ table'[r] = NewRow(o, k, w)
        /\ \A e \in DOMAIN table : table'[e] = table[e]
    <3> HIDE DEF o, k, w
    <3> QED
      BY <2>1, <2>2, InsertFresh
  <2>4. table'[r].status = "PENDING" /\ table'[r].reason = None
    BY <2>3 DEF NewRow
  <2>5. RequestsStay
    BY <1>3 DEF RequestsStay
  <2>6. \A d \in DOMAIN table : StatusGenuine(d)' /\ ReasonGenuine(d)'
    BY <2>3, <2>5, ColumnsStay
  <2>7. AnswersAreGenuine'
    BY <2>3, <2>4, <2>6 DEF StatusGenuine, ReasonGenuine, AnswersAreGenuine
  <2>8. RespondentOK(r)'
    BY <1>1, <1>2, <1>4 DEF RespondentOK
  <2>9. \A s \in Requests : RespondentOK(s)'
    BY <1>4, <2>3, <2>5, <2>8, RespondentsStay
  <2> QED
    BY <2>7, <2>9 DEF AInv
<1> QED
  BY <1>5, <1>6

\* An UPDATE by r keeps the columns, writes r's own answer, or clears them.
LEMMA FlushGenuine ==
    ASSUME AInv, IInv', NEW r \in Requests, NEW p \in {"reload", "done"}, Moves(r, p),
           req' = req, pc[r] \in AfterLookup,
           NEW loaded, NEW new, Flush(req[r].dispatch, loaded, new),
           new.status \in {"PENDING", Verdict(req[r].response)},
           new.reason \in {None, req[r].reason}
    PROVE  AInv'
<1> DEFINE d == req[r].dispatch
<1>1. /\ d \in DOMAIN table /\ table \in [DOMAIN table -> Row]
      /\ pc \in [Requests -> Points] /\ RespondentOK(r)
  BY DEF AInv, IInv, TypeOK, RequestOK
<1>2. Answers(r, d) /\ (req[r].response = "REJECT") = (req[r].reason # None)
  BY <1>1 DEF RespondentOK
<1>3. /\ DOMAIN table' = DOMAIN table
      /\ \A e \in DOMAIN table : e # d => table'[e] = table[e]
      /\ table'[d].worker = table[d].worker
      /\ table'[d].status \in {table[d].status, "PENDING", Verdict(req[r].response)}
      /\ table'[d].reason \in {table[d].reason, None, req[r].reason}
  BY <1>1 DEF Flush, Flushed, Row
<1>4. \A e \in DOMAIN table : table'[e].worker = table[e].worker
  BY <1>3
<1>5. RequestsStay /\ Answers(r, d)'
  BY <1>2, <1>3 DEF RequestsStay, Answers
<1>6. StatusGenuine(d)'
  <2>1. CASE table'[d].status = table[d].status
    BY <1>1, <1>3, <1>5, <2>1, ColumnsStay
  <2>2. CASE table'[d].status = "PENDING"
    BY <2>2 DEF StatusGenuine
  <2>3. CASE table'[d].status = Verdict(req[r].response)
    BY <1>5, <2>3 DEF StatusGenuine
  <2> QED
    BY <1>3, <2>1, <2>2, <2>3
<1>7. ReasonGenuine(d)'
  <2>1. CASE table'[d].reason = table[d].reason
    BY <1>1, <1>3, <1>5, <2>1, ColumnsStay
  <2>2. CASE table'[d].reason = None
    BY <2>2 DEF ReasonGenuine
  <2>3. CASE table'[d].reason = req[r].reason /\ req[r].reason # None
    BY <1>2, <1>5, <2>3 DEF ReasonGenuine
  <2> QED
    BY <1>3, <2>1, <2>2, <2>3
<1>8. \A e \in DOMAIN table \ {d} : StatusGenuine(e)' /\ ReasonGenuine(e)'
  BY <1>3, <1>5, ColumnsStay
<1>9. AnswersAreGenuine'
  BY <1>3, <1>6, <1>7, <1>8 DEF StatusGenuine, ReasonGenuine, AnswersAreGenuine
<1>10. RespondentOK(r)'
  BY <1>1, <1>2, <1>5 DEF Moves, RespondentOK
<1>11. \A s \in Requests : RespondentOK(s)'
  BY <1>4, <1>5, <1>10, RespondentsStay
<1> QED
  BY <1>9, <1>11 DEF AInv

\* The steps of confirm_worker_response.
LEMMA ConfirmGenuine ==
    ASSUME AInv, IInv', NEW r \in Requests, ConfirmStep(r)
    PROVE  AInv'
<1>1. /\ IInv /\ pc \in [Requests -> Points] /\ RequestOK(r)
      /\ req[r] \in Request
  BY DEF AInv, IInv, TypeOK
<1>2. CASE GetById(r)
  <2>1. PICK p \in {"load", "done"} :
           /\ Moves(r, p) /\ UNCHANGED <<table, req>>
           /\ p = "load" => ConfirmCheck(table, req[r]) = "ok"
           /\ pc[r] = "lookup"
    BY <1>2 DEF GetById, Finish, GoTo, Moves
  <2>2. CASE p = "done"
    BY <2>1, <2>2, MoveGenuine DEF AfterLookup, ConfirmPoints
  <2>3. CASE p = "load"
    <3>1. Answers(r, req[r].dispatch) /\ (req[r].response = "REJECT") = (req[r].reason # None)
      BY <1>1, <2>1, <2>3 DEF ConfirmCheck, Answers, RequestOK, ConfirmPoints
    <3>2. Answers(r, req[r].dispatch)'
      BY <2>1, <3>1 DEF Answers
    <3>3. RespondentOK(r)'
      BY <1>1, <2>1, <2>3, <3>1, <3>2 DEF Moves, RespondentOK
    <3>4. RequestsStay
      BY <2>1 DEF RequestsStay
    <3> QED
      BY <2>1, <3>3, <3>4, TableKeptGenuine
  <2> QED
    BY <2>2, <2>3
<1>3. CASE LoadForResponse(r) \/ LoadForRevert(r) \/ RefreshUpdated(r) \/ TellOrder(r)
  <2>1. PICK p \in {"write", "revertWrite", "tell", "revertLoad", "done"} :
           /\ Moves(r, p) /\ UNCHANGED <<table, req>>
           /\ pc[r] \in AfterLookup
    BY <1>3 DEF LoadForResponse, LoadForRevert, RefreshUpdated, TellOrder, LoadRow,
                Finish, GoTo, Moves, AfterLookup, ConfirmPoints
  <2> QED
    BY <2>1, MoveGenuine
<1>4. row[r] \in Row \cup {EmptyRow}
  BY <1>1 DEF IInv, TypeOK
<1>5. CASE CommitResponse(r)
  <2> DEFINE new == Answered(row[r], r, req[r].response, req[r].reason)
  <2>1. /\ Flush(req[r].dispatch, row[r], new) /\ Moves(r, "reload") /\ req' = req
        /\ pc[r] \in AfterLookup
    BY <1>5 DEF CommitResponse, GoTo, Moves, AfterLookup, ConfirmPoints
  <2>2. new.status = Verdict(req[r].response) /\ new.reason = req[r].reason
    BY <1>4 DEF Answered, Row, EmptyRow
  <2> HIDE DEF new
  <2> QED
    BY <2>1, <2>2, FlushGenuine
<1>6. CASE CommitRevert(r)
  <2> DEFINE new == Reverted(row[r])
  <2>1. /\ Flush(req[r].dispatch, row[r], new) /\ Moves(r, "done") /\ req' = req
        /\ pc[r] \in AfterLookup
    BY <1>6 DEF CommitRevert, Finish, Moves, AfterLookup, ConfirmPoints
  <2>2. new.status = "PENDING" /\ new.reason = None
    BY <1>4 DEF Reverted, Row, EmptyRow
  <2> HIDE DEF new
  <2> QED
    BY <2>1, <2>2, FlushGenuine
<1> QED
  BY <1>2, <1>3, <1>5, <1>6 DEF ConfirmStep

LEMMA StepAInv == AInv /\ [Next]_vars => AInv'
<1> SUFFICES ASSUME AInv, [Next]_vars PROVE AInv'
  OBVIOUS
<1>1. IInv'
  BY StepIInv DEF AInv
<1>2. ASSUME NEW r \in Requests, Start(r) PROVE AInv'
  BY <1>1, <1>2, StartGenuine
<1>3. ASSUME NEW r \in Requests, AssignStep(r) PROVE AInv'
  BY <1>1, <1>3, AssignGenuine
<1>4. ASSUME NEW r \in Requests, ConfirmStep(r) PROVE AInv'
  BY <1>1, <1>4, ConfirmGenuine
<1>5. ASSUME NEW r \in Requests, DbError(r) \/ Cancel(r) PROVE AInv'
  <2>1. PICK p \in {"compensate", "done"} : Moves(r, p) /\ UNCHANGED <<table, req>>
    BY <1>5 DEF DbError, DbErrorSurfaces, DbErrorCompensated, DbErrorSwallowed, Cancel,
                Finish, GoTo, Moves
  <2> QED
    BY <1>1, <2>1, MoveGenuine DEF AfterLookup, ConfirmPoints
<1>6. CASE Restart
  <2>1. pc \in [Requests -> Points] /\ UNCHANGED <<table, req>>
    BY <1>6 DEF Restart, AInv, IInv, TypeOK
  <2>2. \A r \in Requests : pc'[r] = "done" \/ (pc'[r] = pc[r] /\ pc[r] \in {"idle", "done"})
    BY <1>6, <2>1 DEF Restart, InFlight
  <2>3. \A r \in Requests : RespondentOK(r)'
    BY <2>1, <2>2 DEF AInv, RespondentOK, AfterLookup, ConfirmPoints
  <2>4. AnswersAreGenuine'
    BY <2>1 DEF AInv, AnswersAreGenuine, Answers
  <2> QED
    BY <1>1, <2>3, <2>4 DEF AInv
<1>7. CASE UNCHANGED vars
  BY <1>1, <1>7 DEF vars, AInv, AnswersAreGenuine, Answers, RespondentOK
<1> QED
  BY <1>2, <1>3, <1>4, <1>5, <1>6, <1>7 DEF Next, Finished

\* However answers race and whatever fails, the status and the reason of a
\* record come from responses its own worker sent to it.
THEOREM AnswersComeFromTheWorker == Spec => []AnswersAreGenuine
<1>1. AInv => AnswersAreGenuine
  BY DEF AInv
<1> QED
  BY InitAInv, StepAInv, <1>1, PTL DEF Spec
=============================================================================
