----------------------- MODULE DispatchSqlSerialProofs ----------------------
(***************************************************************************)
(* What DispatchSql guarantees when clients do not overlap the requests    *)
(* for one order, whatever else fails: no order ever waits for two         *)
(* workers.  has_pending_dispatch is evaluated three awaits before the     *)
(* INSERT and nothing in the table repeats the check, so this is all that  *)
(* the guard is good for; with "overlap" TLC finds the counterexample.     *)
(* And a record's columns always fit together, it is answered once and its *)
(* worker is shown its own answer, the order service hears of nothing that *)
(* is not in the table, and a caller is told "ok" only when the two stores *)
(* agree about the order.  When nothing but order calls fails, they agree  *)
(* whenever nobody works on it.                                            *)
(***************************************************************************)
EXTENDS DispatchSqlProofs

\* Requests that are being handled are about different orders.
Serialised ==
    \A r, s \in Requests :
        (InFlight(r) /\ InFlight(s) /\ r # s) => OrderOf(req[r]) # OrderOf(req[s])

\* What has_pending_dispatch, or the status check on the record, has found
\* still holds: before the INSERT the order has no pending record, and while
\* an answer is written or reverted it has none but the one answered.
GuardHolds(r) ==
    /\ pc[r] \in {"number", "mark", "create"} => PendingOf(table, req[r].order) = {}
    /\ pc[r] \in AfterLookup =>
         \A e \in PendingOf(table, table[req[r].dispatch].order) :
             e = req[r].dispatch

SInv ==
    /\ IInv
    /\ Serialised
    /\ AtMostOnePending
    /\ \A r \in Requests : GuardHolds(r)

-----------------------------------------------------------------------------
\* A request in flight is at one of the awaits.
LEMMA InFlightPoints ==
    ASSUME IInv, NEW s \in Requests
    PROVE  /\ InFlight(s) <=> pc[s] \in AssignPoints \cup ConfirmPoints
           /\ pc[s] \in AssignPoints => OrderOf(req[s]) = req[s].order /\ req[s].order \in Orders
           /\ pc[s] \in AfterLookup =>
                /\ OrderOf(req[s]) = table[req[s].dispatch].order
                /\ OrderOf(req[s]) \in Orders
<1>1. pc[s] \in Points /\ RequestOK(s)
  BY DEF IInv, TypeOK
<1>2. InFlight(s) <=> pc[s] \in AssignPoints \cup ConfirmPoints
  BY <1>1 DEF InFlight, Points, AssignPoints, ConfirmPoints
<1>3. pc[s] \in AssignPoints => OrderOf(req[s]) = req[s].order /\ req[s].order \in Orders
  BY <1>1 DEF RequestOK, OrderOf
<1>4. ASSUME pc[s] \in AfterLookup
      PROVE  /\ OrderOf(req[s]) = table[req[s].dispatch].order
             /\ OrderOf(req[s]) \in Orders
  <2>1. req[s].kind = "confirm" /\ req[s].dispatch \in DOMAIN table
    BY <1>1, <1>4 DEF RequestOK, AfterLookup
  <2>2. table[req[s].dispatch].order \in Orders
    BY <2>1 DEF IInv, TypeOK, Row
  <2> QED
    BY <2>1, <2>2 DEF OrderOf
<1> QED
  BY <1>2, <1>3, <1>4

\* The order a request in flight is about does not change as records come and
\* are answered.
LEMMA OrderStays ==
    ASSUME IInv, TypeOK', NEW s \in Requests, InFlight(s), req'[s] = req[s],
           \A e \in DOMAIN table : e \in DOMAIN table' /\ table'[e].order = table[e].order
    PROVE  OrderOf(req[s])' = OrderOf(req[s])
<1>1. CASE pc[s] \in AssignPoints
  BY <1>1 DEF IInv, RequestOK, OrderOf
<1>2. CASE pc[s] \in ConfirmPoints
  <2>1. req[s].kind = "confirm" /\ req[s].dispatch \in DOMAIN table \cup {NoSuchId}
    BY <1>2 DEF IInv, RequestOK
  <2>2. NoSuchId \notin DOMAIN table /\ NoSuchId \notin DOMAIN table'
    BY DataAssumption DEF IInv, TypeOK
  <2> QED
    BY <2>1, <2>2 DEF OrderOf
<1> QED
  BY <1>1, <1>2, InFlightPoints

\* A step of r on order o, with the pending records of every other order as
\* they were, keeps the invariant if it does so for r and for o.
LEMMA StepOnOneOrder ==
    ASSUME SInv, IInv', NEW r \in Requests, InFlight(r), NEW p, Moves(r, p),
           req' = req,
           \A e \in DOMAIN table : e \in DOMAIN table' /\ table'[e].order = table[e].order,
           \A q \in Orders : q # OrderOf(req[r]) => PendingOf(table', q) = PendingOf(table, q),
           \A d, e \in PendingOf(table', OrderOf(req[r])) : d = e,
           GuardHolds(r)'
    PROVE  SInv'
<1>1. pc \in [Requests -> Points] /\ IInv /\ TypeOK'
  BY DEF SInv, IInv, TypeOK
<1>2. \A s \in Requests : InFlight(s)' => InFlight(s)
  BY <1>1 DEF Moves, InFlight
<1>3. \A s \in Requests : InFlight(s) => OrderOf(req[s])' = OrderOf(req[s])
  BY <1>1, OrderStays
<1>4. Serialised'
  BY <1>2, <1>3 DEF SInv, Serialised
<1>5. AtMostOnePending'
  BY DEF SInv, AtMostOnePending
<1>6. ASSUME NEW s \in Requests \ {r} PROVE GuardHolds(s)'
  <2>1. pc'[s] = pc[s] /\ req'[s] = req[s] /\ GuardHolds(s)
    BY <1>1 DEF Moves, SInv
  <2>2. InFlight(s) => OrderOf(req[s]) # OrderOf(req[r])
    BY DEF SInv, Serialised
  <2>3. CASE pc[s] \in {"number", "mark", "create"}
    <3>1. InFlight(s) /\ OrderOf(req[s]) = req[s].order /\ req[s].order \in Orders
      BY <1>1, <2>3, InFlightPoints DEF AssignPoints
    <3> QED
      BY <2>1, <2>2, <2>3, <3>1 DEF GuardHolds, AfterLookup, ConfirmPoints
  <2>4. CASE pc[s] \in AfterLookup
    <3>1. /\ InFlight(s) /\ OrderOf(req[s]) = table[req[s].dispatch].order
          /\ OrderOf(req[s]) \in Orders
      BY <1>1, <2>4, InFlightPoints DEF AfterLookup
    <3>2. req[s].dispatch \in DOMAIN table
      BY <1>1, <2>4 DEF IInv, RequestOK
    <3>3. table'[req[s].dispatch].order = table[req[s].dispatch].order
      BY <3>2
    <3> QED
      BY <2>1, <2>2, <2>4, <3>1, <3>3 DEF GuardHolds, AfterLookup, ConfirmPoints
  <2> QED
    BY <2>1, <2>3, <2>4 DEF GuardHolds
<1> QED
  BY <1>4, <1>5, <1>6 DEF SInv

\* The special case of a step that leaves the table alone.
LEMMA StepOffTable ==
    ASSUME SInv, IInv', NEW r \in Requests, InFlight(r), NEW p, Moves(r, p),
           UNCHANGED <<table, req>>, GuardHolds(r)'
    PROVE  SInv'
<1>1. IInv
  BY DEF SInv
<1>2. \A d, e \in PendingOf(table, OrderOf(req[r])) : d = e
  <2>1. CASE OrderOf(req[r]) \in Orders
    BY <2>1 DEF SInv, AtMostOnePending
  <2>2. CASE OrderOf(req[r]) \notin Orders
    <3>1. \A d \in DOMAIN table : table[d].order \in Orders
      BY <1>1 DEF IInv, TypeOK, Row
    <3> QED
      BY <2>2, <3>1 DEF PendingOf, RowsOf
  <2> QED
    BY <2>1, <2>2
<1> QED
  BY <1>2, StepOnOneOrder

-----------------------------------------------------------------------------
(* Every step keeps the invariant                                          *)

LEMMA InitSInv == Init => SInv
<1> SUFFICES ASSUME Init PROVE SInv
  OBVIOUS
<1>1. IInv
  BY InitIInv
<1>2. Serialised /\ AtMostOnePending /\ \A r \in Requests : GuardHolds(r)
  BY DEF Init, Serialised, InFlight, AtMostOnePending, PendingOf, RowsOf, GuardHolds,
         AfterLookup, ConfirmPoints
<1> QED
  BY <1>1, <1>2 DEF SInv

\* A new request is about an order nobody is working on.
LEMMA StartSerial ==
    ASSUME "overlap" \notin Hazards, SInv, IInv', NEW r \in Requests, Start(r)
    PROVE  SInv'
<1>1. IInv /\ pc \in [Requests -> Points] /\ req \in [Requests -> Request]
  BY DEF SInv, IInv, TypeOK
<1>2. UNCHANGED table /\ ~InFlight(r)
  BY DEF Start, RefuseBlank, StartAssign, StartConfirm, InFlight
<1>3. AtMostOnePending'
  BY <1>2 DEF SInv, AtMostOnePending
<1>4. PICK p \in {"done", "check", "lookup"} : pc' = [pc EXCEPT ![r] = p]
  BY DEF Start, RefuseBlank, StartAssign, StartConfirm, Finish, GoTo
<1>5. \A s \in Requests \ {r} : req'[s] = req[s]
  BY <1>1 DEF Start, RefuseBlank, StartAssign, StartConfirm
<1>6. \A s \in Requests : GuardHolds(s)'
  BY <1>1, <1>2, <1>4, <1>5 DEF SInv, GuardHolds, AfterLookup, ConfirmPoints
<1>7. \A s \in Requests \ {r} :
         (InFlight(s)' <=> InFlight(s)) /\ OrderOf(req[s])' = OrderOf(req[s])
  BY <1>1, <1>2, <1>4, <1>5 DEF InFlight, OrderOf
<1>8. ASSUME NEW s \in Requests \ {r}, InFlight(s), InFlight(r)'
      PROVE  OrderOf(req[s]) # OrderOf(req[r])'
  <2>1. PICK q : MayStart(q) /\ req'[r] = q
    <3>1. CASE RefuseBlank(r)
      BY <1>1, <1>8, <3>1 DEF RefuseBlank, Finish, InFlight
    <3>2. CASE StartAssign(r)
      BY <1>1, <3>2 DEF StartAssign
    <3>3. CASE StartConfirm(r)
      BY <1>1, <3>3 DEF StartConfirm
    <3> QED
      BY <3>1, <3>2, <3>3 DEF Start
  <2>2. OrderOf(req[s]) # OrderOf(q)
    BY <1>8, <2>1 DEF MayStart
  <2>3. OrderOf(req[r])' = OrderOf(q)
    BY <1>2, <2>1 DEF OrderOf
  <2> QED
    BY <2>2, <2>3
<1>9. Serialised'
  <2> SUFFICES ASSUME NEW s \in Requests, NEW t \in Requests, s # t,
                      InFlight(s)', InFlight(t)'
               PROVE  OrderOf(req[s])' # OrderOf(req[t])'
    BY DEF Serialised
  <2>1. CASE s = r
    BY <1>7, <1>8, <2>1
  <2>2. CASE t = r
    BY <1>7, <1>8, <2>2
  <2>3. CASE s # r /\ t # r
    BY <1>7, <2>3 DEF SInv, Serialised
  <2> QED
    BY <2>1, <2>2, <2>3
<1> QED
  BY <1>3, <1>6, <1>9 DEF SInv

\* The steps of manual_assign_order.
LEMMA AssignSerial ==
    ASSUME SInv, IInv', NEW r \in Requests, AssignStep(r)
    PROVE  SInv'
<1> DEFINE o == req[r].order
<1>1. IInv /\ pc \in [Requests -> Points] /\ GuardHolds(r)
  BY DEF SInv, IInv, TypeOK
<1>2. pc[r] \in AssignPoints
  BY DEF AssignStep, HasPendingDispatch, GetLatestAttemptNo, MarkOrderDispatched,
         CreateDispatch, RefreshCreated, SafeMarkOrderPending, AssignPoints
<1>3. InFlight(r) /\ OrderOf(req[r]) = o /\ o \in Orders
  BY <1>1, <1>2, InFlightPoints
<1>4. CASE HasPendingDispatch(r)
  <2>1. PICK p \in {"number", "done"} :
           /\ Moves(r, p) /\ UNCHANGED <<table, req>>
           /\ p = "number" => PendingOf(table, o) = {}
    BY <1>4 DEF HasPendingDispatch, HasPending, Finish, GoTo, Moves
  <2>2. GuardHolds(r)'
    BY <1>1, <2>1 DEF Moves, GuardHolds, AfterLookup, ConfirmPoints
  <2> QED
    BY <1>3, <2>1, <2>2, StepOffTable
<1>5. CASE GetLatestAttemptNo(r)
  <2>1. Moves(r, "mark") /\ UNCHANGED <<table, req>> /\ pc[r] = "number"
    BY <1>5 DEF GetLatestAttemptNo, GoTo, Moves, IInv, TypeOK, SInv
  <2>2. GuardHolds(r)'
    BY <1>1, <2>1 DEF Moves, GuardHolds, AfterLookup, ConfirmPoints
  <2> QED
    BY <1>3, <2>1, <2>2, StepOffTable
<1>6. CASE MarkOrderDispatched(r)
  <2>1. PICK p \in {"create", "done"} : Moves(r, p) /\ UNCHANGED <<table, req>>
    BY <1>6 DEF MarkOrderDispatched, Finish, GoTo, Moves
  <2>2. GuardHolds(r)'
    BY <1>1, <1>6, <2>1 DEF MarkOrderDispatched, Moves, GuardHolds, AfterLookup, ConfirmPoints
  <2> QED
    BY <1>3, <2>1, <2>2, StepOffTable
<1>7. CASE CreateDispatch(r)
  <2> DEFINE k == attemptNo[r]
             w == req[r].worker
  <2>1. /\ PendingOf(table, o) = {}
        /\ w \in Workers /\ k \in Nat \ {0} /\ r \notin DOMAIN table
        /\ table \in [DOMAIN table -> Row]
    BY <1>1, <1>7 DEF CreateDispatch, GuardHolds, IInv, TypeOK, RequestOK, AssignPoints,
                      BeforeInsert
  <2>2. CASE AttemptTaken(o, k)
    <3>1. Moves(r, "compensate") /\ UNCHANGED <<table, req>>
      BY <1>7, <2>2 DEF CreateDispatch, GoTo, Moves
    <3>2. GuardHolds(r)'
      BY <1>1, <3>1 DEF Moves, GuardHolds, AfterLookup, ConfirmPoints
    <3> QED
      BY <1>3, <3>1, <3>2, StepOffTable
  <2>3. CASE ~AttemptTaken(o, k)
    <3>1. /\ table' = Insert(table, r, NewRow(o, k, w))
          /\ Moves(r, "refresh") /\ req' = req
      BY <1>7, <2>3 DEF CreateDispatch, GoTo, Moves
    <3>2. /\ DOMAIN table' = DOMAIN table \cup {r}
          /\ table'[r] = NewRow(o, k, w)
          /\ \A e \in DOMAIN table : table'[e] = table[e]
      BY <1>3, <2>1, <3>1, InsertFresh
    <3>3. table'[r].order = o
      BY <3>2 DEF NewRow
    <3>4. \A q \in Orders : q # o => PendingOf(table', q) = PendingOf(table, q)
      BY <3>2, <3>3 DEF PendingOf, RowsOf
    <3>5. \A e \in PendingOf(table', o) : e = r
      BY <2>1, <3>2 DEF PendingOf, RowsOf
    <3>6. GuardHolds(r)'
      BY <1>1, <3>1 DEF Moves, GuardHolds, AfterLookup, ConfirmPoints
    <3>7. \A e \in DOMAIN table : e \in DOMAIN table' /\ table'[e].order = table[e].order
      BY <3>2
    <3> HIDE DEF o, k, w
    <3> QED
      BY <1>3, <3>1, <3>4, <3>5, <3>6, <3>7, StepOnOneOrder
  <2> QED
    BY <2>2, <2>3
<1>8. CASE RefreshCreated(r) \/ SafeMarkOrderPending(r)
  <2>1. Moves(r, "done") /\ UNCHANGED <<table, req>>
    BY <1>8 DEF RefreshCreated, SafeMarkOrderPending, Finish, Moves
  <2>2. GuardHolds(r)'
    BY <1>1, <2>1 DEF Moves, GuardHolds, AfterLookup, ConfirmPoints
  <2> QED
    BY <1>3, <2>1, <2>2, StepOffTable
<1> QED
  BY <1>4, <1>5, <1>6, <1>7, <1>8 DEF AssignStep

\* The order's pending records, while r answers or reverts one of its own:
\* at most that one.
LEMMA FlushSerial ==
    ASSUME SInv, IInv', NEW r \in Requests, pc[r] \in AfterLookup,
           NEW p \in AfterLookup \cup {"done"}, Moves(r, p), req' = req,
           SameIdentities(table, table'),
           \A e \in DOMAIN table : e # req[r].dispatch => table'[e] = table[e]
    PROVE  SInv'
<1> DEFINE d == req[r].dispatch
           o == table[d].order
<1>1. IInv /\ pc \in [Requests -> Points] /\ GuardHolds(r)
  BY DEF SInv, IInv, TypeOK
<1>2. d \in DOMAIN table /\ InFlight(r) /\ OrderOf(req[r]) = o /\ o \in Orders
  <2>1. d \in DOMAIN table
    BY <1>1 DEF IInv, RequestOK
  <2> QED
    BY <1>1, <2>1, InFlightPoints DEF AfterLookup
<1>3. \A e \in PendingOf(table, o) : e = d
  BY <1>1 DEF GuardHolds
<1>4. DOMAIN table' = DOMAIN table /\ \A e \in DOMAIN table : table'[e].order = table[e].order
  BY DEF SameIdentities
<1>5. \A q \in Orders : q # o => PendingOf(table', q) = PendingOf(table, q)
  BY <1>2, <1>4 DEF PendingOf, RowsOf
<1>6. \A e \in PendingOf(table', o) : e = d
  BY <1>3, <1>4 DEF PendingOf, RowsOf
<1>7. GuardHolds(r)'
  BY <1>1, <1>2, <1>4, <1>6 DEF Moves, GuardHolds, AfterLookup, ConfirmPoints
<1> HIDE DEF d, o
<1> QED
  BY <1>2, <1>4, <1>5, <1>6, <1>7, StepOnOneOrder

\* The steps of confirm_worker_response.
LEMMA ConfirmSerial ==
    ASSUME SInv, IInv', NEW r \in Requests, ConfirmStep(r)
    PROVE  SInv'
<1>1. IInv /\ pc \in [Requests -> Points] /\ GuardHolds(r)
  BY DEF SInv, IInv, TypeOK
<1>2. pc[r] \in ConfirmPoints /\ InFlight(r)
  <2>1. pc[r] \in ConfirmPoints
    BY DEF ConfirmStep, GetById, LoadForResponse, CommitResponse, RefreshUpdated, TellOrder,
           LoadForRevert, CommitRevert, LoadRow, ConfirmPoints
  <2> QED
    BY <1>1, <2>1, InFlightPoints
<1>3. CASE GetById(r)
  <2>1. PICK p \in {"load", "done"} :
           /\ Moves(r, p) /\ UNCHANGED <<table, req>>
           /\ p = "load" => ConfirmCheck(table, req[r]) = "ok"
    BY <1>3 DEF GetById, Finish, GoTo, Moves
  <2>2. CASE p = "load"
    <3> DEFINE d == req[r].dispatch
    <3>1. d \in DOMAIN table /\ table[d].status = "PENDING"
      BY <2>1, <2>2 DEF ConfirmCheck
    <3>2. d \in PendingOf(table, table[d].order) /\ table[d].order \in Orders
      BY <1>1, <3>1 DEF PendingOf, RowsOf, IInv, TypeOK, Row
    <3>3. \A e \in PendingOf(table, table[d].order) : e = d
      BY <3>2 DEF SInv, AtMostOnePending
    <3>4. GuardHolds(r)'
      BY <1>1, <2>1, <2>2, <3>3 DEF Moves, GuardHolds
    <3> QED
      BY <1>2, <2>1, <3>4, StepOffTable
  <2>3. CASE p = "done"
    <3>1. GuardHolds(r)'
      BY <1>1, <2>1, <2>3 DEF Moves, GuardHolds, AfterLookup, ConfirmPoints
    <3> QED
      BY <1>2, <2>1, <3>1, StepOffTable
  <2> QED
    BY <2>2, <2>3
<1>4. CASE LoadForResponse(r) \/ LoadForRevert(r) \/ RefreshUpdated(r) \/ TellOrder(r)
  <2>1. PICK p \in {"write", "revertWrite", "tell", "revertLoad", "done"} :
           /\ Moves(r, p) /\ UNCHANGED <<table, req>>
           /\ pc[r] \in AfterLookup
    BY <1>4 DEF LoadForResponse, LoadForRevert, RefreshUpdated, TellOrder, LoadRow,
                Finish, GoTo, Moves, AfterLookup, ConfirmPoints
  <2>2. GuardHolds(r)'
    BY <1>1, <2>1 DEF Moves, GuardHolds, AfterLookup, ConfirmPoints
  <2> QED
    BY <1>2, <2>1, <2>2, StepOffTable
<1>5. CASE CommitResponse(r) \/ CommitRevert(r)
  <2> DEFINE d == req[r].dispatch
             x == row[r]
  <2>1. PICK p \in {"reload", "done"} : Moves(r, p) /\ req' = req
    BY <1>5 DEF CommitResponse, CommitRevert, Finish, GoTo, Moves
  <2>2. pc[r] \in AfterLookup /\ p \in AfterLookup \cup {"done"}
    BY <1>5 DEF CommitResponse, CommitRevert, AfterLookup, ConfirmPoints
  <2>3. d \in DOMAIN table /\ table \in [DOMAIN table -> Row]
    BY <1>1, <2>2 DEF IInv, TypeOK, RequestOK
  <2>4. PICK new : Flush(d, x, new)
    BY <1>5 DEF CommitResponse, CommitRevert
  <2>5. /\ SameIdentities(table, table')
        /\ \A e \in DOMAIN table : e # d => table'[e] = table[e]
    BY <2>3, <2>4 DEF Flush, SameIdentities, Row
  <2> QED
    BY <2>1, <2>2, <2>5, FlushSerial
<1> QED
  BY <1>3, <1>4, <1>5 DEF ConfirmStep

\* Driver errors, cancellations and restarts only take requests out of the way.
LEMMA FaultSerial ==
    ASSUME SInv, IInv', NEW r \in Requests, DbError(r) \/ Cancel(r)
    PROVE  SInv'
<1>1. IInv /\ pc \in [Requests -> Points] /\ GuardHolds(r)
  BY DEF SInv, IInv, TypeOK
<1>2. PICK p \in {"compensate", "done"} : Moves(r, p) /\ UNCHANGED <<table, req>>
  BY DEF DbError, DbErrorSurfaces, DbErrorCompensated, DbErrorSwallowed, Cancel,
         Finish, GoTo, Moves
<1>3. InFlight(r)
  BY DEF DbError, DbErrorSurfaces, DbErrorCompensated, DbErrorSwallowed, Cancel, InFlight
<1>4. GuardHolds(r)'
  BY <1>1, <1>2 DEF Moves, GuardHolds, AfterLookup, ConfirmPoints
<1> QED
  BY <1>2, <1>3, <1>4, StepOffTable

LEMMA RestartSerial ==
    ASSUME SInv, IInv', Restart
    PROVE  SInv'
<1>1. IInv /\ pc \in [Requests -> Points]
  BY DEF SInv, IInv, TypeOK
<1>2. \A r \in Requests : pc'[r] \in {"idle", "done"}
  BY <1>1 DEF Restart, InFlight
<1>3. Serialised' /\ \A r \in Requests : GuardHolds(r)'
  BY <1>2 DEF Serialised, InFlight, GuardHolds, AfterLookup, ConfirmPoints
<1>4. AtMostOnePending'
  BY DEF Restart, SInv, AtMostOnePending
<1> QED
  BY <1>3, <1>4 DEF SInv

LEMMA StepSInv == "overlap" \notin Hazards => (SInv /\ [Next]_vars => SInv')
<1> SUFFICES ASSUME "overlap" \notin Hazards, SInv, [Next]_vars PROVE SInv'
  OBVIOUS
<1>1. IInv'
  BY StepIInv DEF SInv
<1>2. ASSUME NEW r \in Requests, Start(r) PROVE SInv'
  BY <1>1, <1>2, StartSerial
<1>3. ASSUME NEW r \in Requests, AssignStep(r) PROVE SInv'
  BY <1>1, <1>3, AssignSerial
<1>4. ASSUME NEW r \in Requests, ConfirmStep(r) PROVE SInv'
  BY <1>1, <1>4, ConfirmSerial
<1>5. ASSUME NEW r \in Requests, DbError(r) \/ Cancel(r) PROVE SInv'
  BY <1>1, <1>5, FaultSerial
<1>6. CASE Restart
  BY <1>1, <1>6, RestartSerial
<1>7. CASE UNCHANGED vars
  BY <1>1, <1>7 DEF vars, SInv, Serialised, AtMostOnePending, GuardHolds, InFlight, OrderOf
<1> QED
  BY <1>2, <1>3, <1>4, <1>5, <1>6, <1>7 DEF Next, Finished

\* When clients do not overlap the requests for one order, no order ever has
\* two PENDING dispatches, whatever fails, is cancelled or restarts.
THEOREM OnePendingWhenSerial ==
    ASSUME "overlap" \notin Hazards
    PROVE  Spec => []AtMostOnePending
<1>1. SInv /\ [Next]_vars => SInv'
  BY StepSInv
<1>2. SInv => AtMostOnePending
  BY DEF SInv
<1> QED
  BY InitSInv, <1>1, <1>2, PTL DEF Spec

-----------------------------------------------------------------------------
(* Records, answers and the order service                                  *)

ReasonRule(q) == (q.response = "REJECT") = (q.reason # None)

\* Record x shows the answer of request r.
ShowsAnswer(x, r) ==
    /\ x.status = Verdict(req[r].response)
    /\ x.responded = r
    /\ x.reason = req[r].reason

\* What its control point says about the record that response r is about.  It
\* stays so because nobody else works on the order.
RowState(r) ==
    LET d == req[r].dispatch IN
      /\ pc[r] # "done" => outcome[r] = "none"
      /\ pc[r] \in AfterLookup => /\ ReasonRule(req[r])
                                  /\ table[d].worker = req[r].worker
      /\ pc[r] \in {"load", "write"} => table[d].status = "PENDING"
      /\ pc[r] \in {"reload", "tell", "revertLoad", "revertWrite"} => ShowsAnswer(table[d], r)
      /\ pc[r] \in {"write", "tell", "revertWrite"} => row[r] = table[d]
      /\ (outcome[r] = "ok" /\ req[r].kind = "confirm") =>
           /\ d \in DOMAIN table
           /\ ShowsAnswer(table[d], r)
           /\ ShowsAnswer(row[r], r)

RInv == SInv /\ RowWellFormed /\ \A r \in Requests : RowState(r)

LEMMA InitRInv == Init => RInv
<1> SUFFICES ASSUME Init PROVE RInv
  OBVIOUS
<1>1. RowWellFormed
  BY DEF Init, RowWellFormed
<1>2. \A r \in Requests : RowState(r)
  BY DEF Init, RowState, AfterLookup, ConfirmPoints
<1> QED
  BY <1>1, <1>2, InitSInv DEF RInv

-----------------------------------------------------------------------------
(* What a step of one request leaves to the others                         *)

\* A response whose record still counts: it is in progress or was told "ok".
Concerned(s) ==
    pc[s] \in AfterLookup \/ (outcome[s] = "ok" /\ req[s].kind = "confirm")

LEMMA ConcernedRecord ==
    ASSUME RInv, NEW s \in Requests, Concerned(s)
    PROVE  req[s].dispatch \in DOMAIN table
BY DEF RInv, SInv, IInv, RequestOK, RowState, Concerned

\* r moves; the records of the other responses stay as they were.
LEMMA OthersRowState ==
    ASSUME RInv, NEW r \in Requests, NEW p, Moves(r, p),
           \A s \in Requests \ {r} : row'[s] = row[s] /\ outcome'[s] = outcome[s],
           \A s \in Requests \ {r} : Concerned(s) =>
               /\ req[s].dispatch \in DOMAIN table'
               /\ table'[req[s].dispatch] = table[req[s].dispatch]
    PROVE  \A s \in Requests \ {r} : RowState(s)'
<1> SUFFICES ASSUME NEW s \in Requests \ {r} PROVE RowState(s)'
  OBVIOUS
<1>1. /\ pc'[s] = pc[s] /\ req'[s] = req[s]
      /\ row'[s] = row[s] /\ outcome'[s] = outcome[s]
      /\ RowState(s)
  BY DEF Moves, RInv, SInv, IInv, TypeOK
<1> QED
  BY <1>1 DEF RowState, ShowsAnswer, Concerned, AfterLookup, ConfirmPoints

\* A step that changes no existing record: only r and a new record count.
LEMMA RecordsStay ==
    ASSUME RInv, SInv', NEW r \in Requests, NEW p, Moves(r, p),
           \A s \in Requests \ {r} : row'[s] = row[s] /\ outcome'[s] = outcome[s],
           \A e \in DOMAIN table : e \in DOMAIN table' /\ table'[e] = table[e],
           RowWellFormed', RowState(r)'
    PROVE  RInv'
<1>1. \A s \in Requests \ {r} : Concerned(s) =>
         /\ req[s].dispatch \in DOMAIN table'
         /\ table'[req[s].dispatch] = table[req[s].dispatch]
  BY ConcernedRecord
<1>2. \A s \in Requests \ {r} : RowState(s)'
  BY <1>1, OthersRowState
<1> QED
  BY <1>2 DEF RInv

\* A step that leaves the table alone.
LEMMA TableStays ==
    ASSUME RInv, SInv', NEW r \in Requests, NEW p, Moves(r, p),
           \A s \in Requests \ {r} : row'[s] = row[s] /\ outcome'[s] = outcome[s],
           UNCHANGED table, RowState(r)'
    PROVE  RInv'
<1>1. RowWellFormed'
  BY DEF RInv, RowWellFormed
<1> QED
  BY <1>1, RecordsStay

-----------------------------------------------------------------------------
(* Every step keeps the invariant                                          *)

LEMMA StartRow ==
    ASSUME RInv, SInv', NEW r \in Requests, Start(r)
    PROVE  RInv'
<1>1. PICK p \in {"check", "lookup", "done"} : Moves(r, p) /\ UNCHANGED table
  BY DEF Start, RefuseBlank, StartAssign, StartConfirm, Finish, GoTo, Moves, RInv, SInv,
         IInv, TypeOK
<1>2. \A s \in Requests \ {r} : row'[s] = row[s] /\ outcome'[s] = outcome[s]
  BY DEF Start, RefuseBlank, StartAssign, StartConfirm, Finish, GoTo, RInv, SInv, IInv, TypeOK
<1>3. pc[r] = "idle" /\ outcome[r] = "none"
  BY DEF Start, RefuseBlank, StartAssign, StartConfirm, RInv, RowState
<1>4. p # "done" => outcome'[r] = "none"
  <2>1. pc'[r] = p
    BY <1>1 DEF Moves, RInv, SInv, IInv, TypeOK
  <2> QED
    BY <1>3, <2>1 DEF Start, RefuseBlank, StartAssign, StartConfirm, Finish, GoTo,
                      RInv, SInv, IInv, TypeOK
<1>5. outcome'[r] # "ok"
  BY <1>3 DEF Start, RefuseBlank, StartAssign, StartConfirm, Finish, GoTo,
              RInv, SInv, IInv, TypeOK
<1>6. RowState(r)'
  BY <1>1, <1>4, <1>5 DEF Moves, RowState, AfterLookup, ConfirmPoints, RInv, SInv, IInv, TypeOK
<1> QED
  BY <1>1, <1>2, <1>6, TableStays

\* manual_assign_order adds a record that waits, and touches no other.
LEMMA AssignRow ==
    ASSUME RInv, SInv', NEW r \in Requests, AssignStep(r)
    PROVE  RInv'
<1> USE DEF AssignPoints, ConfirmPoints, AfterLookup
<1>1. /\ pc[r] \in AssignPoints /\ req[r].kind = "assign"
      /\ outcome[r] = "none" /\ req' = req
  BY DEF AssignStep, HasPendingDispatch, GetLatestAttemptNo, MarkOrderDispatched,
         CreateDispatch, RefreshCreated, SafeMarkOrderPending, RInv, SInv, IInv, RequestOK,
         RowState
<1>2. PICK p \in AssignPoints \cup {"done"} : Moves(r, p)
  BY DEF AssignStep, HasPendingDispatch, GetLatestAttemptNo, MarkOrderDispatched,
         CreateDispatch, RefreshCreated, SafeMarkOrderPending, Finish, GoTo, Moves,
         RInv, SInv, IInv, TypeOK
<1>3. \A s \in Requests \ {r} : row'[s] = row[s] /\ outcome'[s] = outcome[s]
  BY DEF AssignStep, HasPendingDispatch, GetLatestAttemptNo, MarkOrderDispatched,
         CreateDispatch, RefreshCreated, SafeMarkOrderPending, Finish, GoTo,
         RInv, SInv, IInv, TypeOK
<1>4. p # "done" => outcome'[r] = "none"
  <2>1. pc'[r] = p
    BY <1>2 DEF Moves, RInv, SInv, IInv, TypeOK
  <2> QED
    BY <1>1, <2>1 DEF AssignStep, HasPendingDispatch, GetLatestAttemptNo,
         MarkOrderDispatched, CreateDispatch, RefreshCreated, SafeMarkOrderPending,
         Finish, GoTo, RInv, SInv, IInv, TypeOK
<1>5. RowState(r)'
  BY <1>1, <1>2, <1>4 DEF Moves, RowState, RInv, SInv, IInv, TypeOK
<1>6. CASE UNCHANGED table
  BY <1>2, <1>3, <1>5, <1>6, TableStays
<1>7. CASE ~UNCHANGED table
  <2> DEFINE new == NewRow(req[r].order, attemptNo[r], req[r].worker)
  <2>1. CreateDispatch(r)
    BY <1>7 DEF AssignStep, HasPendingDispatch, GetLatestAttemptNo, MarkOrderDispatched,
                RefreshCreated, SafeMarkOrderPending
  <2>2. table' = Insert(table, r, new) /\ r \notin DOMAIN table
    BY <1>7, <2>1 DEF CreateDispatch, RInv, SInv, IInv, RequestOK, BeforeInsert
  <2>3. new.status = "PENDING" /\ new.responded = None /\ new.reason = None
    BY DEF NewRow
  <2> HIDE DEF new
  <2>4. /\ DOMAIN table' = DOMAIN table \cup {r}
        /\ table'[r] = new
        /\ \A e \in DOMAIN table : table'[e] = table[e]
    BY <2>2 DEF Insert
  <2>5. RowWellFormed'
    BY <2>3, <2>4 DEF RInv, RowWellFormed
  <2> QED
    BY <1>2, <1>3, <1>5, <2>4, <2>5, RecordsStay
<1> QED
  BY <1>6, <1>7

\* An UPDATE by r of its record d touches nobody else's: a response in
\* progress is about another order, and one that was told "ok" about a record
\* whose response time names it.
LEMMA UpdateRow ==
    ASSUME RInv, SInv', NEW r \in Requests, NEW p, Moves(r, p),
           \A s \in Requests \ {r} : row'[s] = row[s] /\ outcome'[s] = outcome[s],
           pc[r] \in {"write", "revertWrite"},
           NEW d, d = req[r].dispatch,
           DOMAIN table' = DOMAIN table,
           \A e \in DOMAIN table : e # d => table'[e] = table[e],
           (table'[d].status = "PENDING") = (table'[d].responded = None),
           (table'[d].status = "REJECTED") = (table'[d].reason # None),
           RowState(r)'
    PROVE  RInv'
<1>1. RowState(r) /\ pc[r] \in AfterLookup /\ InFlight(r)
  BY DEF RInv, AfterLookup, ConfirmPoints, InFlight
<1>2. ASSUME NEW s \in Requests \ {r}, Concerned(s) PROVE req[s].dispatch # d
  <2>1. CASE pc[s] \in AfterLookup
    <3>1. InFlight(s)
      BY <2>1 DEF AfterLookup, ConfirmPoints, InFlight
    <3>2. OrderOf(req[s]) # OrderOf(req[r])
      BY <1>1, <3>1 DEF RInv, SInv, Serialised
    <3>3. /\ OrderOf(req[s]) = table[req[s].dispatch].order
          /\ OrderOf(req[r]) = table[req[r].dispatch].order
      BY <1>1, <2>1, InFlightPoints DEF RInv, SInv
    <3> QED
      BY <3>2, <3>3
  <2>2. CASE outcome[s] = "ok" /\ req[s].kind = "confirm"
    <3>1. ShowsAnswer(table[req[s].dispatch], s)
      BY <2>2 DEF RInv, RowState
    <3>2. CASE pc[r] = "write"
      BY <1>1, <3>1, <3>2 DEF RowState, ShowsAnswer, Verdict
    <3>3. CASE pc[r] = "revertWrite"
      BY <1>1, <3>1, <3>3 DEF RowState, ShowsAnswer
    <3> QED
      BY <3>2, <3>3
  <2> QED
    BY <1>2, <2>1, <2>2 DEF Concerned
<1>3. \A s \in Requests \ {r} : Concerned(s) =>
         /\ req[s].dispatch \in DOMAIN table'
         /\ table'[req[s].dispatch] = table[req[s].dispatch]
  BY <1>2, ConcernedRecord
<1>4. \A s \in Requests \ {r} : RowState(s)'
  BY <1>3, OthersRowState
<1>5. RowWellFormed'
  BY DEF RInv, RowWellFormed
<1> QED
  BY <1>4, <1>5 DEF RInv

\* A response in progress: its record is there and well typed.
LEMMA AtRecord ==
    ASSUME RInv, NEW r \in Requests, pc[r] \in AfterLookup
    PROVE  /\ req[r].dispatch \in DOMAIN table
           /\ table[req[r].dispatch] \in Row
           /\ req[r].kind = "confirm"
           /\ outcome[r] = "none"
BY DEF RInv, SInv, IInv, TypeOK, RequestOK, AfterLookup, ConfirmPoints, RowState

\* The steps of confirm_worker_response.
LEMMA ConfirmRow ==
    ASSUME RInv, SInv', NEW r \in Requests, ConfirmStep(r)
    PROVE  RInv'
<1> DEFINE d == req[r].dispatch
<1> USE DEF ConfirmPoints, AfterLookup
<1>1. /\ pc \in [Requests -> Points] /\ outcome \in [Requests -> Outcomes]
      /\ row \in [Requests -> Row \cup {EmptyRow}] /\ RowState(r) /\ req[r] \in Request
  BY DEF RInv, SInv, IInv, TypeOK
<1>2. /\ req' = req /\ pc[r] \in ConfirmPoints /\ outcome[r] = "none"
      /\ \A s \in Requests \ {r} : row'[s] = row[s] /\ outcome'[s] = outcome[s]
  BY <1>1 DEF ConfirmStep, GetById, LoadForResponse, CommitResponse, RefreshUpdated, TellOrder,
              LoadForRevert, CommitRevert, LoadRow, Finish, GoTo, RowState
<1>3. CASE GetById(r)
  <2>1. PICK p \in {"load", "done"} :
           /\ Moves(r, p) /\ UNCHANGED <<table, row>>
           /\ p = "load" => ConfirmCheck(table, req[r]) = "ok" /\ outcome' = outcome
           /\ outcome'[r] # "ok"
    BY <1>1, <1>2, <1>3 DEF GetById, Finish, GoTo, Moves
  <2>2. ConfirmCheck(table, req[r]) = "ok" =>
           ReasonRule(req[r]) /\ table[d].status = "PENDING" /\ table[d].worker = req[r].worker
    BY DEF ConfirmCheck, ReasonRule
  <2>3. RowState(r)'
    BY <1>1, <1>2, <2>1, <2>2 DEF Moves, RowState, ReasonRule
  <2> QED
    BY <1>2, <2>1, <2>3, TableStays
<1>4. ASSUME NEW from \in {"load", "reload", "revertLoad"},
             NEW to \in {"write", "tell", "revertWrite"},
             \/ from = "load" /\ to = "write"
             \/ from = "reload" /\ to = "tell"
             \/ from = "revertLoad" /\ to = "revertWrite",
             LoadRow(r, from, to)
      PROVE  RInv'
  <2>1. /\ Moves(r, to) /\ UNCHANGED <<table, outcome>> /\ pc[r] = from
        /\ row'[r] = table[d]
    BY <1>1, <1>4 DEF LoadRow, GoTo, Moves
  <2>2. RowState(r)'
    BY <1>1, <1>2, <1>4, <2>1 DEF Moves, RowState, ShowsAnswer, ReasonRule
  <2> QED
    BY <1>2, <2>1, <2>2, TableStays
<1>5. CASE LoadForResponse(r) \/ LoadForRevert(r) \/ RefreshUpdated(r)
  <2>1. LoadRow(r, "load", "write") \/ LoadRow(r, "revertLoad", "revertWrite")
        \/ LoadRow(r, "reload", "tell")
    BY <1>5 DEF LoadForResponse, LoadForRevert, RefreshUpdated, LoadRow
  <2> QED
    BY <1>4, <2>1
<1>6. CASE TellOrder(r)
  <2>1. PICK p \in {"revertLoad", "done"} :
           /\ Moves(r, p) /\ UNCHANGED <<table, row>> /\ pc[r] = "tell"
           /\ p = "revertLoad" => outcome' = outcome
    BY <1>1, <1>6 DEF TellOrder, Finish, GoTo, Moves
  <2>2. d \in DOMAIN table
    BY <2>1, AtRecord
  <2>3. RowState(r)'
    BY <1>1, <1>2, <2>1, <2>2 DEF Moves, RowState, ShowsAnswer, ReasonRule
  <2> QED
    BY <1>2, <2>1, <2>3, TableStays
<1>7. CASE CommitResponse(r)
  <2> DEFINE x == table[d]
  <2>1. d \in DOMAIN table /\ x \in Row /\ row[r] = x /\ x.status = "PENDING"
        /\ ReasonRule(req[r]) /\ pc[r] = "write" /\ x.worker = req[r].worker
    BY <1>1, <1>7, AtRecord DEF CommitResponse, RowState
  <2>2. x.responded = None /\ x.reason = None
    BY <2>1 DEF RInv, RowWellFormed
  <2>3. /\ Moves(r, "reload") /\ outcome' = outcome /\ row' = row
        /\ Flush(d, x, Answered(x, r, req[r].response, req[r].reason))
    BY <1>7, <2>1 DEF CommitResponse, GoTo, Moves
  <2>4. /\ DOMAIN table' = DOMAIN table
        /\ \A e \in DOMAIN table : e # d => table'[e] = table[e]
        /\ ShowsAnswer(table'[d], r)
        /\ table'[d].worker = x.worker
    BY <2>1, <2>3 DEF Flush, Flushed, Answered, ShowsAnswer, Row
  <2>5. /\ (table'[d].status = "PENDING") = (table'[d].responded = None)
        /\ (table'[d].status = "REJECTED") = (table'[d].reason # None)
    <3>1. r # None
      BY DataAssumption
    <3>2. req[r].response \in Responses
      BY <1>1 DEF Request
    <3> QED
      BY <2>1, <2>4, <3>1, <3>2 DEF ShowsAnswer, ReasonRule, Verdict, Responses
  <2>6. pc'[r] = "reload" /\ outcome'[r] = "none"
    BY <1>1, <1>2, <2>3 DEF Moves
  <2>7. RowState(r)'
    BY <1>2, <2>1, <2>4, <2>6 DEF RowState, ShowsAnswer, ReasonRule
  <2> QED
    BY <1>2, <2>1, <2>3, <2>4, <2>5, <2>7, UpdateRow
<1>8. CASE CommitRevert(r)
  <2> DEFINE x == table[d]
  <2>1. d \in DOMAIN table /\ x \in Row /\ row[r] = x /\ pc[r] = "revertWrite"
    BY <1>1, <1>8, AtRecord DEF CommitRevert, RowState
  <2>2. /\ Moves(r, "done") /\ outcome'[r] = "ExternalServiceError"
        /\ Flush(d, x, Reverted(x))
    BY <1>1, <1>8, <2>1 DEF CommitRevert, Finish, Moves
  <2>3. /\ DOMAIN table' = DOMAIN table
        /\ \A e \in DOMAIN table : e # d => table'[e] = table[e]
        /\ table'[d].status = "PENDING" /\ table'[d].responded = None /\ table'[d].reason = None
    BY <2>1, <2>2 DEF Flush, Flushed, Reverted, Row
  <2>4. RowState(r)'
    BY <1>1, <1>2, <2>2 DEF Moves, RowState
  <2> QED
    BY <1>2, <2>1, <2>2, <2>3, <2>4, UpdateRow
<1> QED
  BY <1>3, <1>5, <1>6, <1>7, <1>8 DEF ConfirmStep

\* Faults move a request on and change no record.
LEMMA FaultRow ==
    ASSUME RInv, SInv', NEW r \in Requests, DbError(r) \/ Cancel(r)
    PROVE  RInv'
<1> USE DEF ConfirmPoints, AfterLookup
<1>1. PICK p \in {"compensate", "done"} : Moves(r, p) /\ UNCHANGED <<table, req, row>>
  BY DEF DbError, DbErrorSurfaces, DbErrorCompensated, DbErrorSwallowed, Cancel,
         Finish, GoTo, Moves
<1>2. \A s \in Requests \ {r} : row'[s] = row[s] /\ outcome'[s] = outcome[s]
  BY <1>1 DEF DbError, DbErrorSurfaces, DbErrorCompensated, DbErrorSwallowed, Cancel,
              Finish, GoTo, RInv, SInv, IInv, TypeOK
<1>3. InFlight(r) /\ RowState(r) /\ outcome[r] = "none"
  BY DEF DbError, DbErrorSurfaces, DbErrorCompensated, DbErrorSwallowed, Cancel, InFlight,
         RInv, RowState
<1>4. outcome'[r] # "ok" /\ (p = "compensate" => outcome'[r] = "none")
  <2>1. pc'[r] = p
    BY <1>1 DEF Moves, RInv, SInv, IInv, TypeOK
  <2> QED
    BY <1>3, <2>1 DEF DbError, DbErrorSurfaces, DbErrorCompensated, DbErrorSwallowed, Cancel,
                      Finish, GoTo, RInv, SInv, IInv, TypeOK
<1>5. RowState(r)'
  BY <1>1, <1>4 DEF Moves, RowState, RInv, SInv, IInv, TypeOK
<1> QED
  BY <1>1, <1>2, <1>5, TableStays

LEMMA RestartRow ==
    ASSUME RInv, SInv', Restart
    PROVE  RInv'
<1>1. RowWellFormed'
  BY DEF Restart, RInv, RowWellFormed
<1>2. ASSUME NEW r \in Requests PROVE RowState(r)'
  BY DEF Restart, InFlight, RInv, SInv, IInv, TypeOK, RowState, ShowsAnswer, AfterLookup,
         ConfirmPoints
<1> QED
  BY <1>1, <1>2 DEF RInv

LEMMA StepRInv == "overlap" \notin Hazards => (RInv /\ [Next]_vars => RInv')
<1> SUFFICES ASSUME "overlap" \notin Hazards, RInv, [Next]_vars PROVE RInv'
  OBVIOUS
<1>1. SInv'
  BY StepSInv DEF RInv
<1>2. ASSUME NEW r \in Requests,
             Start(r) \/ AssignStep(r) \/ ConfirmStep(r) \/ DbError(r) \/ Cancel(r)
      PROVE  RInv'
  BY <1>1, <1>2, StartRow, AssignRow, ConfirmRow, FaultRow
<1>3. CASE Restart
  BY <1>1, <1>3, RestartRow
<1>4. CASE UNCHANGED vars
  BY <1>1, <1>4 DEF vars, RInv, RowWellFormed, RowState, ShowsAnswer
<1> QED
  BY <1>2, <1>3, <1>4 DEF Next, Finished

-----------------------------------------------------------------------------
(* Theorems                                                                *)

\* Without overlapping requests, a record's status, response time and reject
\* reason always fit together, whatever fails between its updates.
THEOREM RowsWellFormedWhenSerial ==
    ASSUME "overlap" \notin Hazards
    PROVE  Spec => []RowWellFormed
<1>1. RInv => RowWellFormed
  BY DEF RInv
<1> QED
  BY InitRInv, StepRInv, <1>1, PTL DEF Spec

\* Without overlapping requests, no two responses to a dispatch are both told
\* "ok": the response time of its record can name only one of them.
THEOREM AnsweredOnceWhenSerial ==
    ASSUME "overlap" \notin Hazards
    PROVE  Spec => []AnsweredOnce
<1>1. RInv => AnsweredOnce
  BY DEF RInv, RowState, ShowsAnswer, AnsweredOnce
<1> QED
  BY InitRInv, StepRInv, <1>1, PTL DEF Spec

\* Without overlapping requests, the record a worker is returned is its own
\* answer.
THEOREM ReplyIsOwnAnswerWhenSerial ==
    ASSUME "overlap" \notin Hazards
    PROVE  Spec => []ReplyIsOwnAnswer
<1>1. RInv => ReplyIsOwnAnswer
  BY DEF RInv, RowState, ShowsAnswer, ReplyIsOwnAnswer
<1> QED
  BY InitRInv, StepRInv, <1>1, PTL DEF Spec

\* Without overlapping requests, the order service hears of a confirmation only
\* when the acceptance is in the table, whatever fails.
THEOREM ConfirmationFollowsAcceptance ==
    ASSUME "overlap" \notin Hazards
    PROVE  Spec => ConfirmFollowsAcceptance
<1> DEFINE Follows(o) ==
             (orders'[o].status = "WORKER_CONFIRMED" /\ orders[o] # orders'[o]) =>
                 \E d \in RowsOf(table, o) : /\ table[d].status = "ACCEPTED"
                                             /\ table[d].worker = orders'[o].worker
<1>1. ASSUME RInv, [Next]_vars, NEW o \in Orders PROVE Follows(o)
  <2>1. orders \in [Orders -> OrderState]
    BY <1>1 DEF RInv, SInv, IInv, TypeOK
  <2>2. ASSUME NEW r \in Requests, TellOrder(r) PROVE Follows(o)
    <3> DEFINE d == req[r].dispatch
    <3>1. /\ d \in DOMAIN table /\ RowState(r)
          /\ pc[r] = "tell"
      BY <1>1, <2>2, AtRecord DEF TellOrder, RInv, AfterLookup, ConfirmPoints
    <3>2. /\ table[d].status = Verdict(req[r].response)
          /\ table[d].worker = req[r].worker
      BY <3>1 DEF RowState, ShowsAnswer, AfterLookup, ConfirmPoints
    <3>3. \/ orders' = orders
          \/ orders' = [orders EXCEPT ![table[d].order] =
                          IF req[r].response = "ACCEPT" THEN Confirmed(req[r].worker)
                          ELSE Unassigned]
      BY <2>2 DEF TellOrder, OrderCall, OrderCallRaises
    <3>4. CASE orders' # orders /\ o = table[d].order
      <4>1. d \in RowsOf(table, o)
        BY <3>1, <3>4 DEF RowsOf
      <4>2. orders'[o] = IF req[r].response = "ACCEPT" THEN Confirmed(req[r].worker)
                         ELSE Unassigned
        BY <2>1, <3>3, <3>4
      <4> QED
        BY <2>1, <3>2, <4>1, <4>2 DEF Confirmed, Unassigned, Verdict
    <3>5. CASE orders' = orders \/ o # table[d].order
      BY <2>1, <3>3, <3>5
    <3> QED
      BY <3>4, <3>5
  <2>3. ASSUME NEW r \in Requests, MarkOrderDispatched(r) \/ SafeMarkOrderPending(r)
        PROVE  Follows(o)
    BY <2>1, <2>3 DEF MarkOrderDispatched, SafeMarkOrderPending, OrderCall, OrderCallRaises,
                      Dispatched, Unassigned
  <2>4. CASE Restart
    BY <2>1, <2>4 DEF Restart, NewOrder
  <2>5. CASE UNCHANGED orders
    BY <2>5
  <2> QED
    BY <1>1, <2>2, <2>3, <2>4, <2>5 DEF Next, Start, RefuseBlank, StartAssign, StartConfirm,
         AssignStep, HasPendingDispatch, GetLatestAttemptNo, CreateDispatch, RefreshCreated,
         ConfirmStep, GetById, LoadForResponse, CommitResponse, RefreshUpdated,
         LoadForRevert, CommitRevert, LoadRow, DbError, DbErrorSurfaces, DbErrorCompensated,
         DbErrorSwallowed, Cancel, Finished, vars
<1>2. RInv /\ [Next]_vars => [\A o \in Orders : Follows(o)]_vars
  BY <1>1
<1> QED
  BY InitRInv, StepRInv, <1>2, PTL DEF Spec, ConfirmFollowsAcceptance

-----------------------------------------------------------------------------
(* "ok" means that the two stores agree                                    *)

IsLatest(d) == table[d].attempt = LatestAttemptNo(table, table[d].order)

PendingIsLatest == \A d \in DOMAIN table : table[d].status = "PENDING" => IsLatest(d)

\* What its control point says about the order that request r is about: it has
\* been marked for r, or r answers its latest attempt.
OwnOrder(r) ==
    /\ pc[r] \in {"create", "refresh"} => orders[req[r].order] = Dispatched(req[r].worker)
    /\ pc[r] = "refresh" => /\ table[r].order = req[r].order
                            /\ table[r].worker = req[r].worker
                            /\ table[r].status = "PENDING"
                            /\ IsLatest(r)
    /\ pc[r] \in AfterLookup => IsLatest(req[r].dispatch)

OInv == RInv /\ PendingIsLatest /\ \A r \in Requests : OwnOrder(r)

LEMMA InitOInv == Init => OInv
<1> SUFFICES ASSUME Init PROVE OInv
  OBVIOUS
<1>1. PendingIsLatest /\ \A r \in Requests : OwnOrder(r)
  BY DEF Init, PendingIsLatest, OwnOrder, AfterLookup, ConfirmPoints
<1> QED
  BY <1>1, InitRInv DEF OInv

\* A step of r on its own order leaves the other requests' orders alone.
LEMMA OthersOwnOrder ==
    ASSUME OInv, NEW r \in Requests, InFlight(r), NEW p, Moves(r, p),
           \A q \in Orders : q # OrderOf(req[r]) =>
               orders'[q] = orders[q] /\ Attempts(table', q) = Attempts(table, q),
           \A e \in DOMAIN table : table[e].order # OrderOf(req[r]) => table'[e] = table[e]
    PROVE  \A s \in Requests \ {r} : OwnOrder(s)'
<1> SUFFICES ASSUME NEW s \in Requests \ {r} PROVE OwnOrder(s)'
  OBVIOUS
<1> DEFINE q == OrderOf(req[s])
<1>1. pc'[s] = pc[s] /\ req'[s] = req[s] /\ OwnOrder(s) /\ IInv
  BY DEF Moves, OInv, RInv, SInv, IInv, TypeOK
<1>2. CASE pc[s] \in {"create", "refresh"} \cup AfterLookup
  <2>1. /\ InFlight(s) /\ q \in Orders
        /\ pc[s] \in {"create", "refresh"} => q = req[s].order
        /\ pc[s] \in AfterLookup => q = table[req[s].dispatch].order
    BY <1>1, <1>2, InFlightPoints DEF AssignPoints, AfterLookup
  <2>2. q # OrderOf(req[r])
    BY <2>1 DEF OInv, RInv, SInv, Serialised
  <2>3. /\ pc[s] = "refresh" => s \in DOMAIN table
        /\ pc[s] \in AfterLookup => req[s].dispatch \in DOMAIN table
    BY <1>1 DEF IInv, RequestOK
  <2> HIDE DEF q
  <2>4. orders'[q] = orders[q] /\ LatestAttemptNo(table', q) = LatestAttemptNo(table, q)
    BY <2>1, <2>2, SameLatest
  <2>5. CASE pc[s] = "create"
    BY <1>1, <2>1, <2>4, <2>5 DEF OwnOrder, AfterLookup, ConfirmPoints
  <2>6. CASE pc[s] = "refresh"
    <3>1. table'[s] = table[s] /\ table[s].order = q
      BY <1>1, <2>1, <2>2, <2>3, <2>6 DEF OwnOrder
    <3> QED
      BY <1>1, <2>1, <2>4, <2>6, <3>1 DEF OwnOrder, IsLatest, AfterLookup, ConfirmPoints
  <2>7. CASE pc[s] \in AfterLookup
    <3>1. table'[req[s].dispatch] = table[req[s].dispatch]
      BY <2>1, <2>2, <2>3, <2>7
    <3> QED
      BY <1>1, <2>1, <2>4, <2>7, <3>1 DEF OwnOrder, IsLatest, AfterLookup, ConfirmPoints
  <2> QED
    BY <1>2, <2>5, <2>6, <2>7
<1>3. CASE pc[s] \notin {"create", "refresh"} \cup AfterLookup
  BY <1>1, <1>3 DEF OwnOrder
<1> QED
  BY <1>2, <1>3

\* A step of r that leaves the table alone, and the other orders.
LEMMA OrderStep ==
    ASSUME OInv, RInv', NEW r \in Requests, InFlight(r), NEW p, Moves(r, p),
           UNCHANGED table,
           \A q \in Orders : q # OrderOf(req[r]) => orders'[q] = orders[q],
           OwnOrder(r)'
    PROVE  OInv'
<1>1. \A s \in Requests \ {r} : OwnOrder(s)'
  BY OthersOwnOrder
<1>2. PendingIsLatest'
  BY DEF OInv, PendingIsLatest, IsLatest
<1> QED
  BY <1>1, <1>2 DEF OInv

LEMMA AssignOrderStep ==
    ASSUME OInv, RInv', NEW r \in Requests, AssignStep(r)
    PROVE  OInv'
<1> DEFINE o == req[r].order
<1> USE DEF AssignPoints, ConfirmPoints, AfterLookup
<1>1. /\ IInv /\ pc \in [Requests -> Points] /\ orders \in [Orders -> OrderState]
      /\ OwnOrder(r) /\ GuardHolds(r)
  BY DEF OInv, RInv, SInv, IInv, TypeOK
<1>2. pc[r] \in AssignPoints /\ req' = req
  BY DEF AssignStep, HasPendingDispatch, GetLatestAttemptNo, MarkOrderDispatched,
         CreateDispatch, RefreshCreated, SafeMarkOrderPending
<1>3. InFlight(r) /\ OrderOf(req[r]) = o /\ o \in Orders
  BY <1>1, <1>2, InFlightPoints
<1>4. CASE HasPendingDispatch(r) \/ GetLatestAttemptNo(r) \/ RefreshCreated(r)
  <2>1. PICK p \in {"number", "mark", "done"} : Moves(r, p) /\ UNCHANGED <<table, orders>>
    BY <1>4 DEF HasPendingDispatch, GetLatestAttemptNo, RefreshCreated, Finish, GoTo, Moves,
                IInv, TypeOK, OInv, RInv, SInv
  <2>2. OwnOrder(r)'
    BY <1>1, <2>1 DEF Moves, OwnOrder
  <2> QED
    BY <1>3, <2>1, <2>2, OrderStep
<1>5. CASE MarkOrderDispatched(r)
  <2>1. PICK p \in {"create", "done"} :
           /\ Moves(r, p) /\ UNCHANGED table
           /\ \A q \in Orders : q # o => orders'[q] = orders[q]
           /\ p = "create" => orders'[o] = Dispatched(req[r].worker)
    BY <1>1, <1>3, <1>5 DEF MarkOrderDispatched, OrderCall, OrderCallRaises, Finish, GoTo, Moves
  <2>2. OwnOrder(r)'
    BY <1>1, <1>2, <2>1 DEF Moves, OwnOrder
  <2> QED
    BY <1>3, <2>1, <2>2, OrderStep
<1>6. CASE SafeMarkOrderPending(r)
  <2>1. /\ Moves(r, "done") /\ UNCHANGED table
        /\ \A q \in Orders : q # o => orders'[q] = orders[q]
    BY <1>1, <1>3, <1>6 DEF SafeMarkOrderPending, OrderCall, OrderCallRaises, Finish, Moves
  <2>2. OwnOrder(r)'
    BY <1>1, <2>1 DEF Moves, OwnOrder
  <2> QED
    BY <1>3, <2>1, <2>2, OrderStep
<1>7. CASE CreateDispatch(r)
  <2> DEFINE k == attemptNo[r]
             w == req[r].worker
             new == NewRow(o, k, w)
  <2>1. /\ PendingOf(table, o) = {} /\ pc[r] = "create" /\ orders' = orders
        /\ k \in Nat \ {0} /\ r \notin DOMAIN table
        /\ k # 1 => k - 1 \in Attempts(table, o)
    BY <1>1, <1>7 DEF CreateDispatch, GuardHolds, IInv, TypeOK, RequestOK, BeforeInsert
  <2>2. CASE AttemptTaken(o, k)
    <3>1. Moves(r, "compensate") /\ UNCHANGED table
      BY <1>7, <2>2 DEF CreateDispatch, GoTo, Moves
    <3>2. OwnOrder(r)'
      BY <1>1, <3>1 DEF Moves, OwnOrder
    <3> QED
      BY <1>3, <2>1, <3>1, <3>2, OrderStep
  <2>3. CASE ~AttemptTaken(o, k)
    <3>1. table' = Insert(table, r, new) /\ Moves(r, "refresh")
      BY <1>7, <2>3 DEF CreateDispatch, GoTo, Moves
    <3>2. new.order = o /\ new.attempt = k /\ new.worker = w /\ new.status = "PENDING"
      BY DEF NewRow
    <3>3. PICK n \in Nat : Attempts(table, o) = 1..n
      BY <1>1, <1>3 DEF IInv, Numbered
    <3>4. k = n + 1
      BY <2>1, <2>3, <3>3 DEF AttemptTaken
    <3> HIDE DEF new
    <3>5. /\ DOMAIN table' = DOMAIN table \cup {r}
          /\ table'[r] = new
          /\ \A e \in DOMAIN table : table'[e] = table[e]
      BY <2>1, <3>1 DEF Insert
    <3>6. Attempts(table', o) = Attempts(table, o) \cup {k}
      BY <2>1, <3>2, <3>5 DEF Attempts, RowsOf
    <3>7. Attempts(table', o) = 1..k
      <4>1. (1..n) \cup {n + 1} = 1..(n + 1)
        OBVIOUS
      <4> QED
        BY <3>3, <3>4, <3>6, <4>1
    <3>8. LatestAttemptNo(table', o) = k
      BY <2>1, <3>7, LatestOfNumbered
    <3>9. \A q \in Orders : q # o => Attempts(table', q) = Attempts(table, q)
      BY <2>1, <3>2, <3>5 DEF Attempts, RowsOf
    <3>10. \A q \in Orders : q # o => LatestAttemptNo(table', q) = LatestAttemptNo(table, q)
      BY <3>9, SameLatest
    <3>11. \A s \in Requests \ {r} : OwnOrder(s)'
      BY <1>3, <2>1, <3>1, <3>5, <3>9, OthersOwnOrder
    <3>12. OwnOrder(r)'
      BY <1>1, <1>2, <2>1, <3>1, <3>2, <3>5, <3>8 DEF Moves, OwnOrder, IsLatest
    <3>13. PendingIsLatest'
      <4>1. ASSUME NEW e \in DOMAIN table', table'[e].status = "PENDING" PROVE IsLatest(e)'
        <5>1. CASE e = r
          BY <3>2, <3>5, <3>8, <5>1 DEF IsLatest
        <5>2. CASE e # r
          <6>1. e \in DOMAIN table /\ table'[e] = table[e]
            BY <3>5, <5>2
          <6>2. table[e].order # o /\ table[e].order \in Orders
            BY <1>1, <2>1, <4>1, <6>1 DEF PendingOf, RowsOf, IInv, TypeOK, Row
          <6> QED
            BY <3>10, <4>1, <6>1, <6>2 DEF OInv, PendingIsLatest, IsLatest
        <5> QED
          BY <5>1, <5>2
      <4> QED
        BY <4>1 DEF PendingIsLatest
    <3> QED
      BY <3>11, <3>12, <3>13 DEF OInv
  <2> QED
    BY <2>2, <2>3
<1> QED
  BY <1>4, <1>5, <1>6, <1>7 DEF AssignStep

\* An UPDATE writes a record's answer, and nothing else.
LEMMA FlushedRecord ==
    ASSUME NEW d \in DOMAIN table, table[d] \in Row, NEW loaded, NEW new,
           Flush(d, loaded, new)
    PROVE  /\ DOMAIN table' = DOMAIN table
           /\ \A e \in DOMAIN table : e # d => table'[e] = table[e]
           /\ table'[d].order = table[d].order /\ table'[d].attempt = table[d].attempt
           /\ table'[d].worker = table[d].worker
           /\ table'[d].status = Flushed(table[d].status, loaded.status, new.status)
<1> DEFINE x == table[d]
           y == [x EXCEPT !.status = Flushed(x.status, loaded.status, new.status)]
           z == [y EXCEPT !.responded = Flushed(x.responded, loaded.responded, new.responded)]
           u == [z EXCEPT !.reason = Flushed(x.reason, loaded.reason, new.reason)]
<1>1. /\ DOMAIN table' = DOMAIN table
      /\ \A e \in DOMAIN table : e # d => table'[e] = table[e]
  BY DEF Flush
<1>2. table'[d] = u
  BY DEF Flush, Row
<1>3. /\ u.order = x.order /\ u.attempt = x.attempt /\ u.worker = x.worker
      /\ u.status = Flushed(x.status, loaded.status, new.status)
  BY DEF Row
<1> HIDE DEF x, u
<1> QED
  BY <1>1, <1>2, <1>3 DEF x

LEMMA ConfirmOrderStep ==
    ASSUME OInv, RInv', NEW r \in Requests, ConfirmStep(r)
    PROVE  OInv'
<1> DEFINE d == req[r].dispatch
           o == OrderOf(req[r])
<1> USE DEF AssignPoints, ConfirmPoints, AfterLookup
<1>1. /\ RInv /\ IInv /\ pc \in [Requests -> Points] /\ orders \in [Orders -> OrderState]
      /\ OwnOrder(r)
  BY DEF OInv, RInv, SInv, IInv, TypeOK
<1>2. pc[r] \in ConfirmPoints /\ req' = req
  BY DEF ConfirmStep, GetById, LoadForResponse, CommitResponse, RefreshUpdated, TellOrder,
         LoadForRevert, CommitRevert, LoadRow
<1>3. InFlight(r)
  BY <1>1, <1>2, InFlightPoints
<1>4. pc[r] # "lookup" => d \in DOMAIN table /\ table[d] \in Row /\ o = table[d].order
  BY <1>1, <1>2, AtRecord, InFlightPoints
<1>5. CASE GetById(r)
  <2>1. PICK p \in {"load", "done"} :
           /\ Moves(r, p) /\ UNCHANGED <<table, orders>> /\ pc[r] = "lookup"
           /\ p = "load" => ConfirmCheck(table, req[r]) = "ok"
    BY <1>5 DEF GetById, Finish, GoTo, Moves
  <2>2. p = "load" => IsLatest(d)
    <3>1. ConfirmCheck(table, req[r]) = "ok" => d \in DOMAIN table /\ table[d].status = "PENDING"
      BY DEF ConfirmCheck
    <3> QED
      BY <2>1, <3>1 DEF OInv, PendingIsLatest
  <2>3. OwnOrder(r)'
    BY <1>1, <1>2, <2>1, <2>2 DEF Moves, OwnOrder, IsLatest
  <2> QED
    BY <1>3, <2>1, <2>3, OrderStep
<1>6. CASE LoadForResponse(r) \/ LoadForRevert(r) \/ RefreshUpdated(r)
  <2>1. PICK p \in {"write", "tell", "revertWrite"} :
           Moves(r, p) /\ UNCHANGED <<table, orders>> /\ pc[r] # "lookup"
    BY <1>6 DEF LoadForResponse, LoadForRevert, RefreshUpdated, LoadRow, GoTo, Moves
  <2>2. OwnOrder(r)'
    BY <1>1, <1>2, <2>1 DEF Moves, OwnOrder, IsLatest
  <2> QED
    BY <1>3, <2>1, <2>2, OrderStep
<1>7. CASE TellOrder(r)
  <2>1. PICK p \in {"revertLoad", "done"} :
           /\ Moves(r, p) /\ UNCHANGED table /\ pc[r] = "tell"
           /\ \A q \in Orders : q # table[d].order => orders'[q] = orders[q]
    BY <1>1, <1>7 DEF TellOrder, OrderCall, OrderCallRaises, Finish, GoTo, Moves
  <2>2. OwnOrder(r)'
    BY <1>1, <1>2, <2>1 DEF Moves, OwnOrder, IsLatest
  <2> QED
    BY <1>3, <1>4, <2>1, <2>2, OrderStep
<1>8. CASE CommitResponse(r) \/ CommitRevert(r)
  <2>1. PICK p \in {"reload", "done"} : Moves(r, p) /\ orders' = orders /\ pc[r] # "lookup"
    BY <1>8 DEF CommitResponse, CommitRevert, Finish, GoTo, Moves
  <2>2. /\ DOMAIN table' = DOMAIN table
        /\ \A e \in DOMAIN table : e # d => table'[e] = table[e]
        /\ table'[d].order = table[d].order /\ table'[d].attempt = table[d].attempt
        /\ table'[d].worker = table[d].worker
    BY <1>4, <1>8, <2>1, FlushedRecord DEF CommitResponse, CommitRevert
  <2>3. \A q : Attempts(table', q) = Attempts(table, q)
    <3>1. SameIdentities(table, table')
      BY <2>2 DEF SameIdentities
    <3> QED
      BY <3>1, SameAttempts
  <2>4. \A q : LatestAttemptNo(table', q) = LatestAttemptNo(table, q)
    BY <2>3, SameLatest
  <2>5. \A e \in DOMAIN table : IsLatest(e)' <=> IsLatest(e)
    BY <2>2, <2>4 DEF IsLatest
  <2>6. \A s \in Requests \ {r} : OwnOrder(s)'
    BY <1>3, <1>4, <2>1, <2>2, <2>3, OthersOwnOrder
  <2>7. OwnOrder(r)'
    BY <1>1, <1>2, <1>4, <2>1, <2>5 DEF Moves, OwnOrder
  <2>8. PendingIsLatest'
    <3>1. IsLatest(d)
      BY <1>1, <1>2, <2>1 DEF OwnOrder
    <3>2. \A e \in DOMAIN table : e # d /\ table'[e].status = "PENDING" => IsLatest(e)
      BY <2>2 DEF OInv, PendingIsLatest
    <3> QED
      BY <2>2, <2>5, <3>1, <3>2 DEF PendingIsLatest
  <2> QED
    BY <2>6, <2>7, <2>8 DEF OInv
<1> QED
  BY <1>5, <1>6, <1>7, <1>8 DEF ConfirmStep

\* A request that begins, fails or is cancelled changes neither store.
LEMMA OtherOrderStep ==
    ASSUME OInv, RInv', NEW r \in Requests, Start(r) \/ DbError(r) \/ Cancel(r)
    PROVE  OInv'
<1> USE DEF AssignPoints, ConfirmPoints, AfterLookup
<1>1. IInv /\ pc \in [Requests -> Points]
  BY DEF OInv, RInv, SInv, IInv, TypeOK
<1>2. /\ UNCHANGED <<table, orders>>
      /\ \E p \in {"check", "lookup", "compensate", "done"} : Moves(r, p)
  BY <1>1 DEF Start, RefuseBlank, StartAssign, StartConfirm, DbError, DbErrorSurfaces,
              DbErrorCompensated, DbErrorSwallowed, Cancel, Finish, GoTo, Moves, IInv, TypeOK
<1>3. ASSUME NEW s \in Requests PROVE OwnOrder(s)'
  <2>1. CASE s = r
    BY <1>1, <1>2, <2>1 DEF Moves, OwnOrder
  <2>2. CASE s # r
    BY <1>1, <1>2, <2>2 DEF Moves, OInv, OwnOrder, IsLatest
  <2> QED
    BY <2>1, <2>2
<1>4. PendingIsLatest'
  BY <1>2 DEF OInv, PendingIsLatest, IsLatest
<1> QED
  BY <1>3, <1>4 DEF OInv

LEMMA StepOInv == "overlap" \notin Hazards => (OInv /\ [Next]_vars => OInv')
<1> SUFFICES ASSUME "overlap" \notin Hazards, OInv, [Next]_vars PROVE OInv'
  OBVIOUS
<1>1. RInv'
  BY StepRInv DEF OInv
<1>2. ASSUME NEW r \in Requests,
             Start(r) \/ AssignStep(r) \/ ConfirmStep(r) \/ DbError(r) \/ Cancel(r)
      PROVE  OInv'
  BY <1>1, <1>2, AssignOrderStep, ConfirmOrderStep, OtherOrderStep
<1>3. CASE Restart
  <2>1. \A r \in Requests : pc'[r] \in {"idle", "done"}
    BY <1>3 DEF Restart, InFlight, OInv, RInv, SInv, IInv, TypeOK
  <2>2. PendingIsLatest'
    BY <1>3 DEF Restart, OInv, PendingIsLatest, IsLatest
  <2> QED
    BY <1>1, <2>1, <2>2 DEF OInv, OwnOrder, AfterLookup, ConfirmPoints
<1>4. CASE UNCHANGED vars
  BY <1>1, <1>4 DEF vars, OInv, PendingIsLatest, OwnOrder, IsLatest
<1> QED
  BY <1>2, <1>3, <1>4 DEF Next, Finished

\* An order agrees once the order service says what one latest record says.
LEMMA AgreeByLatest ==
    ASSUME IInv, NEW d \in DOMAIN table, IsLatest(d),
           orders[table[d].order] = OrderStateFor(table[d])
    PROVE  Agree(table[d].order)
<1>1. ASSUME NEW e \in RowsOf(table, table[d].order),
             table[e].attempt = LatestAttemptNo(table, table[d].order)
      PROVE  e = d
  BY <1>1 DEF IsLatest, RowsOf, IInv, Numbered
<1> QED
  BY <1>1 DEF Agree

\* Without overlapping requests, whatever fails and wherever the process
\* restarts: a caller who is told "ok" may rely on the order service saying
\* of that order what its latest record says.
THEOREM OkMeansAgreeWhenSerial ==
    ASSUME "overlap" \notin Hazards
    PROVE  Spec => OkMeansStoresAgree
<1> DEFINE Told(r) == (outcome[r] # "ok" /\ outcome'[r] = "ok") => Agree(OrderOf(req[r]))'
<1>1. ASSUME OInv, OInv', Next, NEW r \in Requests,
             outcome[r] # "ok", outcome'[r] = "ok"
      PROVE  Agree(OrderOf(req[r]))'
  <2>1. IInv /\ IInv' /\ outcome \in [Requests -> Outcomes] /\ orders \in [Orders -> OrderState]
    BY <1>1 DEF OInv, RInv, SInv, IInv, TypeOK
  <2>2. RefreshCreated(r) \/ TellOrder(r) \/ (GetById(r) /\ ConfirmCheck(table, req[r]) = "ok")
    <3>1. \A s \in Requests : ~MarkOrderDispatched(s)
      BY <1>1, <2>1 DEF MarkOrderDispatched, RaisedByMark, Finish, GoTo
    <3> QED
      BY <1>1, <2>1, <3>1 DEF Next, Start, RefuseBlank, StartAssign, StartConfirm, AssignStep,
           HasPendingDispatch, GetLatestAttemptNo, CreateDispatch,
           RefreshCreated, SafeMarkOrderPending, ConfirmStep, GetById, LoadForResponse,
           CommitResponse, RefreshUpdated, TellOrder, LoadForRevert, CommitRevert, LoadRow,
           DbError, DbErrorSurfaces, DbErrorCompensated, DbErrorSwallowed, Cancel, Restart,
           Finished, vars, Finish, GoTo
  <2>3. CASE RefreshCreated(r)
    <3>1. /\ UNCHANGED <<table, orders, req>> /\ pc[r] = "refresh"
          /\ r \in DOMAIN table /\ req[r].kind = "assign"
      BY <2>1, <2>3 DEF RefreshCreated, IInv, RequestOK, AssignPoints
    <3>2. /\ table[r].order = req[r].order /\ IsLatest(r)
          /\ orders[table[r].order] = OrderStateFor(table[r])
      BY <1>1, <3>1 DEF OInv, OwnOrder, OrderStateFor
    <3>3. Agree(req[r].order)
      BY <2>1, <3>1, <3>2, AgreeByLatest
    <3>4. OrderOf(req[r]) = req[r].order
      BY <3>1 DEF OrderOf
    <3> QED
      BY <3>1, <3>3, <3>4 DEF Agree, OrderOf
  <2>4. CASE TellOrder(r)
    <3> DEFINE d == req[r].dispatch
    <3>1. /\ UNCHANGED <<table, req>> /\ pc[r] = "tell"
          /\ orders' = [orders EXCEPT ![table[d].order] =
                          IF req[r].response = "ACCEPT" THEN Confirmed(req[r].worker)
                          ELSE Unassigned]
      BY <1>1, <2>4 DEF TellOrder, OrderCall, GoTo
    <3>2. /\ d \in DOMAIN table /\ table[d] \in Row /\ req[r].kind = "confirm"
          /\ IsLatest(d) /\ ShowsAnswer(table[d], r) /\ table[d].worker = req[r].worker
      BY <1>1, <3>1, AtRecord DEF OInv, RInv, OwnOrder, RowState, AfterLookup, ConfirmPoints
    <3>3. orders'[table[d].order] = OrderStateFor(table[d])
      BY <2>1, <3>1, <3>2 DEF OrderStateFor, ShowsAnswer, Verdict, Row
    <3>4. \A e \in RowsOf(table, table[d].order) :
             table[e].attempt = LatestAttemptNo(table, table[d].order) => e = d
      BY <2>1, <3>2 DEF IsLatest, RowsOf, IInv, Numbered
    <3>5. OrderOf(req[r])' = table[d].order
      BY <3>1, <3>2 DEF OrderOf
    <3> HIDE DEF d
    <3> QED
      BY <3>1, <3>3, <3>4, <3>5 DEF Agree
  <2>5. ASSUME GetById(r), ConfirmCheck(table, req[r]) = "ok" PROVE FALSE
    BY <1>1, <2>5 DEF GetById, GoTo, Finish
  <2> QED
    BY <2>2, <2>3, <2>4, <2>5
<1>2. OInv /\ OInv' /\ [Next]_vars => [\A r \in Requests : Told(r)]_vars
  BY <1>1
<1>3. "overlap" \notin Hazards => (OInv /\ [Next]_vars => OInv')
  BY StepOInv
<1> QED
  BY InitOInv, <1>2, <1>3, PTL DEF Spec, OkMeansStoresAgree

-----------------------------------------------------------------------------
(* The two stores agree whenever nobody works on the order                 *)

\* The awaits at which a response is in the table and the order service has
\* not heard of it.
UnheardPoints == {"reload", "tell", "revertLoad", "revertWrite"}

\* What its control point says about r's order when only order calls fail:
\* the number taken is still the next, an unheard answer leaves the order
\* waiting for the worker who gave it, and otherwise the stores agree.
Balanced(r) ==
    LET d == req[r].dispatch IN
      /\ pc[r] # "compensate"
      /\ pc[r] \in {"mark", "create"} =>
           attemptNo[r] = LatestAttemptNo(table, req[r].order) + 1
      /\ pc[r] \in UnheardPoints => orders[table[d].order] = Dispatched(table[d].worker)
      /\ (/\ InFlight(r) /\ pc[r] # "create" /\ pc[r] \notin UnheardPoints
          /\ OrderOf(req[r]) \in Orders) => Agree(OrderOf(req[r]))

QInv == OInv /\ OrderAgreesWhenQuiet /\ \A r \in Requests : Balanced(r)

LEMMA InitQInv == Init => QInv
<1> SUFFICES ASSUME Init PROVE QInv
  OBVIOUS
<1>1. OrderAgreesWhenQuiet /\ \A r \in Requests : Balanced(r)
  BY DEF Init, OrderAgreesWhenQuiet, Agree, RowsOf, Balanced, InFlight, UnheardPoints
<1> QED
  BY <1>1, InitOInv DEF QInv

\* An order whose records and whose state at the order service stay as they
\* are agrees afterwards if it did before.
LEMMA AgreeKept ==
    ASSUME NEW q, Agree(q), orders'[q] = orders[q], RowsOf(table', q) = RowsOf(table, q),
           \A e \in RowsOf(table, q) : table'[e] = table[e]
    PROVE  Agree(q)'
<1>1. Attempts(table', q) = Attempts(table, q)
  BY DEF Attempts
<1>2. LatestAttemptNo(table', q) = LatestAttemptNo(table, q)
  BY <1>1, SameLatest
<1> QED
  BY <1>2 DEF Agree

\* A step of r on its own order keeps the invariant if it balances r, and
\* leaves the stores in agreement when it is r's last.
LEMMA QuietStep ==
    ASSUME QInv, OInv', NEW r \in Requests, InFlight(r), NEW o, o = OrderOf(req[r]),
           NEW p \in Points \ {"idle"},
           Moves(r, p), req' = req,
           \A e \in DOMAIN table : e \in DOMAIN table' /\ table'[e].order = table[e].order,
           \A q \in Orders : q # o =>
               /\ orders'[q] = orders[q]
               /\ RowsOf(table', q) = RowsOf(table, q)
               /\ \A e \in RowsOf(table, q) : table'[e] = table[e],
           Balanced(r)',
           p = "done" /\ o \in Orders => Agree(o)'
    PROVE  QInv'
<1>1. IInv /\ IInv' /\ TypeOK' /\ pc \in [Requests -> Points]
  BY DEF QInv, OInv, RInv, SInv, IInv, TypeOK
<1>2. \A s \in Requests : InFlight(s) => OrderOf(req[s])' = OrderOf(req[s])
  BY <1>1, OrderStays
<1>3. \A q \in Orders : q # o /\ Agree(q) => Agree(q)'
  BY AgreeKept
<1>4. ASSUME NEW s \in Requests \ {r} PROVE Balanced(s)'
  <2>1. /\ pc'[s] = pc[s] /\ req'[s] = req[s] /\ attemptNo'[s] = attemptNo[s]
        /\ Balanced(s) /\ InFlight(s)' = InFlight(s)
    BY <1>1 DEF Moves, QInv, InFlight
  <2>2. InFlight(s) => OrderOf(req[s]) # o
    BY DEF QInv, OInv, RInv, SInv, Serialised
  <2>3. pc'[s] # "compensate"
    BY <2>1 DEF Balanced
  <2>4. ASSUME pc'[s] \in {"mark", "create"}
        PROVE  attemptNo'[s] = LatestAttemptNo(table', req'[s].order) + 1
    <3>1. InFlight(s) /\ OrderOf(req[s]) = req[s].order /\ req[s].order \in Orders
      BY <1>1, <2>1, <2>4, InFlightPoints DEF AssignPoints
    <3>2. Attempts(table', req[s].order) = Attempts(table, req[s].order)
      BY <2>2, <3>1 DEF Attempts
    <3>3. LatestAttemptNo(table', req[s].order) = LatestAttemptNo(table, req[s].order)
      BY <3>2, SameLatest
    <3> QED
      BY <2>1, <2>4, <3>3 DEF Balanced
  <2>5. ASSUME pc'[s] \in UnheardPoints
        PROVE  orders'[table'[req'[s].dispatch].order] = Dispatched(table'[req'[s].dispatch].worker)
    <3>1. /\ InFlight(s) /\ OrderOf(req[s]) = table[req[s].dispatch].order
          /\ OrderOf(req[s]) \in Orders /\ req[s].dispatch \in DOMAIN table
      BY <1>1, <2>1, <2>5, InFlightPoints
         DEF UnheardPoints, AfterLookup, ConfirmPoints, IInv, RequestOK
    <3>2. req[s].dispatch \in RowsOf(table, OrderOf(req[s]))
      BY <3>1 DEF RowsOf
    <3> QED
      BY <2>1, <2>2, <2>5, <3>1, <3>2 DEF Balanced
  <2>6. ASSUME InFlight(s)', pc'[s] # "create", pc'[s] \notin UnheardPoints,
               OrderOf(req[s])' \in Orders
        PROVE  Agree(OrderOf(req[s]))'
    <3>1. PICK q \in Orders : Agree(q) /\ q # o /\ OrderOf(req[s])' = q
      <4>1. Agree(OrderOf(req[s])) /\ OrderOf(req[s]) \in Orders
        BY <1>2, <2>1, <2>6 DEF Balanced
      <4> QED
        BY <1>2, <2>1, <2>2, <2>6, <4>1
    <3>2. Agree(q)'
      BY <1>3, <3>1
    <3> QED
      BY <3>1, <3>2 DEF Agree
  <2> QED
    BY <2>3, <2>4, <2>5, <2>6 DEF Balanced
<1>5. ASSUME NEW q \in Orders, Quiet(q)' PROVE Agree(q)'
  <2>1. \A s \in Requests \ {r} : InFlight(s) => OrderOf(req[s]) # q
    BY <1>1, <1>2, <1>5 DEF Quiet, Moves, InFlight
  <2>2. CASE q # o
    <3>1. Quiet(q)
      BY <2>1, <2>2 DEF Quiet
    <3> QED
      BY <1>3, <2>2, <3>1 DEF QInv, OrderAgreesWhenQuiet
  <2>3. CASE q = o
    <3>1. ~InFlight(r)'
      BY <1>2, <1>5, <2>3 DEF Quiet
    <3>2. p = "done"
      BY <1>1, <3>1 DEF Moves, InFlight
    <3>3. pc'[r] = p
      BY <1>1 DEF Moves
    <3> QED
      BY <2>3, <3>2, <3>3 DEF Agree
  <2> QED
    BY <2>2, <2>3
<1> QED
  BY <1>4, <1>5 DEF QInv, OrderAgreesWhenQuiet

LEMMA AgreeNext ==
    ASSUME IInv', NEW o, NEW d \in DOMAIN table', table'[d].order = o,
           table'[d].attempt = LatestAttemptNo(table', o),
           orders'[o] = OrderStateFor(table'[d])
    PROVE  Agree(o)'
<1>1. ASSUME NEW e \in RowsOf(table', o), table'[e].attempt = LatestAttemptNo(table', o)
      PROVE  e = d
  BY <1>1 DEF RowsOf, IInv, Numbered
<1> QED
  BY <1>1 DEF Agree

LEMMA AssignQuietStep ==
    ASSUME Hazards \subseteq {"refuse"}, QInv, OInv', NEW r \in Requests, AssignStep(r)
    PROVE  QInv'
<1> USE DEF AssignPoints, ConfirmPoints, Points, UnheardPoints
<1>1. /\ OInv /\ IInv /\ IInv' /\ pc \in [Requests -> Points] /\ orders \in [Orders -> OrderState]
      /\ OwnOrder(r) /\ Balanced(r) /\ attemptNo \in [Requests -> Nat]
  BY DEF QInv, OInv, RInv, SInv, IInv, TypeOK
<1>2. pc[r] \in AssignPoints \ {"compensate"} /\ req' = req
  BY <1>1 DEF AssignStep, HasPendingDispatch, GetLatestAttemptNo, MarkOrderDispatched,
         CreateDispatch, RefreshCreated, SafeMarkOrderPending, Balanced
<1>3. PICK o \in Orders : o = req[r].order /\ o = OrderOf(req[r])
  BY <1>1, <1>2, InFlightPoints
<1>4. InFlight(r) /\ OrderOf(req[r])' = o /\ req'[r].order = o
  <2>1. req[r].kind = "assign"
    BY <1>1, <1>2 DEF IInv, RequestOK
  <2> QED
    BY <1>1, <1>2, <1>3, <2>1, InFlightPoints DEF OrderOf
<1>5. pc[r] # "create" => Agree(o)
  BY <1>2, <1>3, <1>4 DEF Balanced, QInv
<1>6. CASE HasPendingDispatch(r) \/ GetLatestAttemptNo(r) \/ RefreshCreated(r)
  <2>1. PICK p \in {"number", "mark", "done"} :
           /\ Moves(r, p) /\ UNCHANGED <<table, orders>> /\ pc[r] # "create"
           /\ p = "mark" => attemptNo'[r] = LatestAttemptNo(table, o) + 1
    BY <1>1, <1>3, <1>6 DEF HasPendingDispatch, GetLatestAttemptNo, RefreshCreated,
       Finish, GoTo, Moves
  <2>2. Agree(o)'
    BY <1>5, <2>1, AgreeKept
  <2>3. Balanced(r)'
    BY <1>1, <1>4, <2>1, <2>2 DEF Moves, Balanced, Agree, InFlight
  <2> QED
    BY <1>2, <1>3, <1>4, <2>1, <2>2, <2>3, QuietStep
<1>7. CASE MarkOrderDispatched(r)
  <2>1. PICK p \in {"create", "done"} :
           /\ Moves(r, p) /\ UNCHANGED <<table, attemptNo>> /\ pc[r] = "mark"
           /\ \A q \in Orders : q # o => orders'[q] = orders[q]
           /\ p = "done" => orders' = orders
    BY <1>1, <1>3, <1>7 DEF MarkOrderDispatched, OrderCall, OrderCallRaises, Finish, GoTo, Moves
  <2>2. p = "done" => Agree(o)'
    BY <1>5, <2>1, AgreeKept
  <2>3. Balanced(r)'
    BY <1>1, <1>2, <1>3, <1>4, <2>1 DEF Moves, Balanced, InFlight
  <2> QED
    BY <1>2, <1>3, <1>4, <2>1, <2>2, <2>3, QuietStep
<1>8. CASE CreateDispatch(r)
  <2> DEFINE k == attemptNo[r]
             new == NewRow(o, k, req[r].worker)
  <2>1. k \notin Attempts(table, o) /\ pc[r] = "create"
    <3>1. PICK n \in Nat : Attempts(table, o) = 1..n
      BY <1>1 DEF IInv, Numbered
    <3>2. LatestAttemptNo(table, o) = n
      BY <3>1, LatestOfNumbered
    <3>3. pc[r] = "create" /\ k = n + 1
      BY <1>1, <1>3, <1>8, <3>2 DEF CreateDispatch, Balanced
    <3> QED
      BY <3>1, <3>3
  <2>2. /\ table' = Insert(table, r, new) /\ Moves(r, "refresh") /\ orders' = orders
        /\ r \notin DOMAIN table
    BY <1>1, <1>3, <1>8, <2>1 DEF CreateDispatch, AttemptTaken, GoTo, Moves,
       IInv, RequestOK, BeforeInsert
  <2>3. new.order = o
    BY DEF NewRow
  <2> HIDE DEF new
  <2>4. /\ DOMAIN table' = DOMAIN table \cup {r}
        /\ table'[r] = new
        /\ \A e \in DOMAIN table : table'[e] = table[e]
    BY <2>2 DEF Insert
  <2>5. \A q \in Orders : q # o => /\ RowsOf(table', q) = RowsOf(table, q)
                                   /\ \A e \in RowsOf(table, q) : table'[e] = table[e]
    BY <2>3, <2>4 DEF RowsOf
  <2>6. pc'[r] = "refresh"
    BY <1>1, <2>2 DEF Moves
  <2>7. Agree(o)'
    <3>1. OwnOrder(r)'
      BY DEF OInv
    <3>2. /\ table'[r].order = o /\ table'[r].attempt = LatestAttemptNo(table', o)
          /\ orders'[o] = OrderStateFor(table'[r])
      BY <1>4, <2>6, <3>1 DEF OwnOrder, IsLatest, OrderStateFor
    <3> QED
      BY <1>1, <2>4, <3>2, AgreeNext
  <2>8. Balanced(r)'
    BY <1>4, <2>6, <2>7 DEF Balanced, Agree, InFlight
  <2> QED
    BY <1>2, <1>3, <1>4, <2>2, <2>4, <2>5, <2>7, <2>8, QuietStep
<1> QED
  BY <1>2, <1>6, <1>7, <1>8 DEF AssignStep, SafeMarkOrderPending

LEMMA ConfirmQuietStep ==
    ASSUME Hazards \subseteq {"refuse"}, QInv, OInv', NEW r \in Requests, ConfirmStep(r)
    PROVE  QInv'
<1> DEFINE d == req[r].dispatch
<1> USE DEF AssignPoints, ConfirmPoints, AfterLookup, Points, UnheardPoints
<1>1. /\ OInv /\ RInv /\ RInv' /\ IInv /\ IInv' /\ pc \in [Requests -> Points]
      /\ orders \in [Orders -> OrderState] /\ OwnOrder(r) /\ Balanced(r) /\ RowState(r)
  BY DEF QInv, OInv, RInv, SInv, IInv, TypeOK
<1>2. pc[r] \in ConfirmPoints /\ req' = req /\ attemptNo' = attemptNo
  BY DEF ConfirmStep, GetById, LoadForResponse, CommitResponse, RefreshUpdated, TellOrder,
         LoadForRevert, CommitRevert, LoadRow
<1>3. InFlight(r)
  BY <1>1, <1>2, InFlightPoints
<1>4. PICK o : o = OrderOf(req[r])
  OBVIOUS
<1>5. pc[r] # "lookup" => /\ d \in DOMAIN table /\ table[d] \in Row /\ o = table[d].order
                          /\ o \in Orders
  BY <1>1, <1>2, <1>4, AtRecord, InFlightPoints
<1>6. pc[r] \in {"lookup", "load", "write"} /\ o \in Orders => Agree(o)
  BY <1>3, <1>4 DEF Balanced, QInv
<1>7. CASE GetById(r) \/ LoadForResponse(r) \/ LoadForRevert(r) \/ RefreshUpdated(r)
  <2>1. PICK p \in {"load", "write", "tell", "revertWrite", "done"} :
           /\ Moves(r, p) /\ UNCHANGED <<table, orders, req>>
           /\ \/ p \in {"load", "write", "done"} /\ pc[r] \in {"lookup", "load"}
              \/ p \in UnheardPoints /\ pc[r] \in UnheardPoints
    BY <1>7 DEF GetById, LoadForResponse, LoadForRevert, RefreshUpdated, LoadRow, Finish,
       GoTo, Moves
  <2>2. pc'[r] = p /\ OrderOf(req[r])' = o
    BY <1>1, <1>4, <2>1 DEF Moves, OrderOf
  <2>3. p \in {"load", "write", "done"} /\ o \in Orders => Agree(o)'
    BY <1>6, <2>1, AgreeKept
  <2>4. Balanced(r)'
    BY <1>1, <2>1, <2>2, <2>3 DEF Balanced, Agree, InFlight
  <2> QED
    BY <1>2, <1>3, <1>4, <2>1, <2>3, <2>4, QuietStep
<1>8. CASE TellOrder(r)
  <2>1. PICK p \in {"revertLoad", "done"} :
           /\ Moves(r, p) /\ UNCHANGED table /\ pc[r] = "tell"
           /\ \A q \in Orders : q # o => orders'[q] = orders[q]
           /\ p = "revertLoad" => orders' = orders
           /\ p = "done" => orders'[o] = IF req[r].response = "ACCEPT"
                                         THEN Confirmed(req[r].worker) ELSE Unassigned
    BY <1>1, <1>5, <1>8 DEF TellOrder, OrderCall, OrderCallRaises, Finish, GoTo, Moves
  <2>2. p = "done" => Agree(o)'
    <3>1. /\ d \in DOMAIN table /\ IsLatest(d) /\ ShowsAnswer(table[d], r)
          /\ table[d].worker = req[r].worker
      BY <1>1, <1>5, <2>1 DEF OwnOrder, RowState
    <3>2. p = "done" => orders'[o] = OrderStateFor(table[d])
      BY <2>1, <3>1 DEF OrderStateFor, ShowsAnswer, Verdict
    <3> QED
      BY <1>1, <1>5, <2>1, <3>1, <3>2, AgreeNext DEF IsLatest
  <2>3. Balanced(r)'
    BY <1>1, <1>2, <2>1 DEF Moves, Balanced, InFlight
  <2> QED
    BY <1>2, <1>3, <1>4, <2>1, <2>2, <2>3, QuietStep
<1>9. CASE CommitResponse(r) \/ CommitRevert(r)
  <2>1. PICK p \in {"reload", "done"} :
           /\ Moves(r, p) /\ orders' = orders
           /\ p = "reload" => pc[r] = "write"
           /\ p = "done" => pc[r] = "revertWrite" /\ table'[d].status = "PENDING"
    <3>1. CASE CommitResponse(r)
      BY <3>1 DEF CommitResponse, GoTo, Moves
    <3>2. CASE CommitRevert(r)
      <4>1. pc[r] = "revertWrite" /\ row[r] = table[d]
        BY <1>1, <3>2 DEF CommitRevert, RowState
      <4>2. d \in DOMAIN table /\ table[d] \in Row /\ Flush(d, table[d], Reverted(table[d]))
        BY <1>5, <3>2, <4>1 DEF CommitRevert
      <4>3. Reverted(table[d]).status = "PENDING"
        BY <4>2 DEF Reverted, Row
      <4>4. table'[d].status = Flushed(table[d].status, table[d].status, "PENDING")
        BY <4>2, <4>3, FlushedRecord
      <4>5. table'[d].status = "PENDING"
        BY <4>4 DEF Flushed
      <4> QED
        BY <3>2, <4>1, <4>5 DEF CommitRevert, Finish, Moves
    <3> QED
      BY <1>9, <3>1, <3>2
  <2>2. /\ DOMAIN table' = DOMAIN table
        /\ \A e \in DOMAIN table : e # d => table'[e] = table[e]
        /\ table'[d].order = table[d].order /\ table'[d].attempt = table[d].attempt
        /\ table'[d].worker = table[d].worker
    BY <1>5, <1>9, <2>1, FlushedRecord DEF CommitResponse, CommitRevert
  <2>3. Attempts(table', o) = Attempts(table, o)
    <3>1. SameIdentities(table, table')
      BY <2>2 DEF SameIdentities
    <3> QED
      BY <3>1, SameAttempts
  <2>4. LatestAttemptNo(table', o) = LatestAttemptNo(table, o)
    BY <2>3, SameLatest
  <2>5. /\ d \in DOMAIN table /\ o = table[d].order /\ o \in Orders /\ IsLatest(d)
        /\ pc[r] # "lookup"
    BY <1>1, <1>5, <2>1 DEF OwnOrder
  <2>6. orders[o] = Dispatched(table[d].worker)
    <3>1. CASE p = "reload"
      <4>1. Agree(o) /\ table[d].status = "PENDING"
        BY <1>1, <1>6, <2>1, <2>5, <3>1 DEF RowState
      <4> QED
        BY <2>5, <4>1 DEF Agree, IsLatest, RowsOf, OrderStateFor
    <3>2. CASE p = "done"
      BY <1>1, <2>1, <2>5, <3>2 DEF Balanced
    <3> QED
      BY <3>1, <3>2
  <2>7. p = "done" => Agree(o)'
    <3>1. p = "done" => orders'[o] = OrderStateFor(table'[d])
      BY <2>1, <2>2, <2>6 DEF OrderStateFor
    <3> QED
      BY <1>1, <2>2, <2>4, <2>5, <3>1, AgreeNext DEF IsLatest
  <2>8. Balanced(r)'
    BY <1>1, <1>2, <2>1, <2>2, <2>5, <2>6 DEF Moves, Balanced, InFlight
  <2>9. \A q \in Orders : q # o => /\ RowsOf(table', q) = RowsOf(table, q)
                                   /\ \A e \in RowsOf(table, q) : table'[e] = table[e]
    BY <2>2, <2>5 DEF RowsOf
  <2> QED
    BY <1>2, <1>3, <1>4, <2>1, <2>2, <2>7, <2>8, <2>9, QuietStep
<1> QED
  BY <1>7, <1>8, <1>9 DEF ConfirmStep

\* A request begins on an order that nobody works on, where the stores agree.
LEMMA StartQuietStep ==
    ASSUME Hazards \subseteq {"refuse"}, QInv, OInv', NEW r \in Requests, Start(r)
    PROVE  QInv'
<1> USE DEF UnheardPoints
<1>1. IInv /\ pc \in [Requests -> Points] /\ req \in [Requests -> Request]
  BY DEF QInv, OInv, RInv, SInv, IInv, TypeOK
<1>2. /\ UNCHANGED <<table, orders, attemptNo>> /\ pc[r] = "idle"
      /\ \E p \in {"check", "lookup", "done"} : pc' = [pc EXCEPT ![r] = p]
      /\ \A s \in Requests \ {r} : req'[s] = req[s]
  BY <1>1 DEF Start, RefuseBlank, StartAssign, StartConfirm, Finish, GoTo
<1>3. ASSUME NEW q PROVE Agree(q)' <=> Agree(q)
  BY <1>2 DEF Agree
<1>4. ASSUME NEW s \in Requests \ {r}
      PROVE  /\ pc'[s] = pc[s] /\ InFlight(s)' = InFlight(s)
             /\ OrderOf(req[s])' = OrderOf(req[s])
  BY <1>1, <1>2 DEF InFlight, OrderOf
<1>5. ASSUME NEW q \in Orders, \A s \in Requests \ {r} : InFlight(s) => OrderOf(req[s]) # q
      PROVE  Agree(q)'
  BY <1>2, <1>3, <1>5 DEF Quiet, InFlight, QInv, OrderAgreesWhenQuiet
<1>6. ASSUME NEW s \in Requests \ {r} PROVE Balanced(s)'
  <2>1. PICK q : q = OrderOf(req[s])
    OBVIOUS
  <2>2. OrderOf(req[s])' = q /\ Balanced(s) /\ (Agree(q)' <=> Agree(q))
    BY <1>3, <1>4, <2>1 DEF QInv
  <2>3. (InFlight(s)' /\ pc'[s] # "create" /\ pc'[s] \notin UnheardPoints /\ q \in Orders)
          => Agree(q)'
    BY <1>4, <2>1, <2>2 DEF Balanced
  <2> QED
    BY <1>2, <1>4, <2>2, <2>3 DEF Balanced, Agree
<1>7. Balanced(r)'
  <2>1. pc'[r] \in {"check", "lookup", "done"}
    BY <1>1, <1>2
  <2>2. CASE pc'[r] = "done"
    BY <2>2 DEF Balanced, InFlight
  <2>3. CASE pc'[r] # "done"
    <3>1. PICK q : req'[r] = q /\ MayStart(q)
      BY <1>1, <2>3 DEF Start, RefuseBlank, StartAssign, StartConfirm, Finish, GoTo
    <3>2. PICK o : o = OrderOf(q)
      OBVIOUS
    <3>3. OrderOf(req[r])' = o
      BY <1>2, <3>1, <3>2 DEF OrderOf
    <3>4. o \in Orders => Agree(o)'
      BY <1>5, <3>1, <3>2 DEF MayStart
    <3> QED
      BY <2>1, <2>3, <3>3, <3>4 DEF Balanced, Agree, InFlight
  <2> QED
    BY <2>2, <2>3
<1>8. ASSUME NEW q \in Orders, Quiet(q)' PROVE Agree(q)'
  BY <1>4, <1>5, <1>8 DEF Quiet
<1> QED
  BY <1>6, <1>7, <1>8 DEF QInv, OrderAgreesWhenQuiet

LEMMA QInvHolds ==
    ASSUME Hazards \subseteq {"refuse"}
    PROVE  Spec => []QInv
<1>1. ASSUME QInv, [Next]_vars PROVE QInv'
  <2>1. OInv'
    BY <1>1, StepOInv DEF QInv
  <2>2. ASSUME NEW r \in Requests, Start(r) \/ AssignStep(r) \/ ConfirmStep(r)
        PROVE  QInv'
    BY <1>1, <2>1, <2>2, StartQuietStep, AssignQuietStep, ConfirmQuietStep
  <2>3. CASE UNCHANGED vars
    <3>1. \A q : Agree(q)' <=> Agree(q)
      BY <2>3 DEF vars, Agree
    <3>2. \A r \in Requests : InFlight(r)' = InFlight(r) /\ OrderOf(req[r])' = OrderOf(req[r])
      BY <2>3 DEF vars, InFlight, OrderOf
    <3>3. OrderAgreesWhenQuiet'
      BY <1>1, <2>3, <3>1, <3>2
      DEF QInv, OrderAgreesWhenQuiet, Quiet, vars, Agree, InFlight, OrderOf
    <3>4. \A r \in Requests : Balanced(r)'
      BY <1>1, <2>3 DEF QInv, Balanced, vars, Agree, InFlight, OrderOf
    <3> QED
      BY <2>1, <3>3, <3>4 DEF QInv
  <2>4. /\ "db" \notin Hazards /\ "cancel" \notin Hazards /\ "crash" \notin Hazards
    OBVIOUS
  <2> QED
    BY <1>1, <2>2, <2>3, <2>4 DEF Next, DbError, DbErrorSurfaces, DbErrorCompensated,
                                  DbErrorSwallowed, Cancel, Restart, Finished
<1> QED
  BY InitQInv, <1>1, PTL DEF Spec

\* When clients do not overlap the requests for one order and nothing but the
\* order calls fails: whenever nobody works on an order, the order service
\* says of it what its latest dispatch record says.
THEOREM StoresAgreeWhenQuiet ==
    ASSUME Hazards \subseteq {"refuse"}
    PROVE  Spec => []OrderAgreesWhenQuiet
<1>1. QInv => OrderAgreesWhenQuiet
  BY DEF QInv
<1> QED
  BY QInvHolds, <1>1, PTL
=============================================================================
