----------------------- MODULE DispatchInMemoryProofs -----------------------
(***************************************************************************)
(* What the in-memory deployment guarantees for every set of orders,       *)
(* workers, reasons and ids: the order service always says what the        *)
(* records say, and a request that raises leaves no trace.                 *)
(***************************************************************************)
EXTENDS DispatchInMemory, DispatchDataProofs, TLAPS

\* Attempts are an interval from 1, and no number is given twice.
Numbered ==
    /\ \A o \in Orders : \E n \in Nat : Attempts(store, o) = 1..n
    /\ \A d, e \in DOMAIN store :
          (store[d].order = store[e].order /\ store[d].attempt = store[e].attempt)
              => d = e

\* Only the latest attempt may wait for its worker, and it is then as it was
\* created.
PendingIsLatest ==
    \A d \in DOMAIN store : store[d].status = "PENDING" =>
        /\ store[d].attempt = LatestAttemptNo(store, store[d].order)
        /\ store[d].responded = None
        /\ store[d].reason = None

MInv == TypeOK /\ Numbered /\ PendingIsLatest /\ OrderAgrees

LEMMA InitMInv == Init => MInv
<1> SUFFICES ASSUME Init PROVE MInv
  OBVIOUS
<1>1. DOMAIN store = {} /\ orders = [o \in Orders |-> NewOrder]
      /\ failNext = {} /\ reply = "none"
  BY DEF Init
<1>2. NewOrder \in OrderState
  BY DEF NewOrder, OrderState, OrderStatuses
<1>3. TypeOK
  BY <1>1, <1>2 DEF TypeOK, Outcomes, Init
<1>4. \A o \in Orders : Attempts(store, o) = 1..0
  BY <1>1 DEF Attempts, RowsOf
<1> QED
  BY <1>1, <1>3, <1>4 DEF MInv, Numbered, PendingIsLatest, OrderAgrees, RowsOf

-----------------------------------------------------------------------------
(* manual_assign_order                                                     *)

\* What an assignment that succeeds does to the two stores.
Assigned(o, w, d, n) ==
    /\ d \in Requests \ DOMAIN store
    /\ Attempts(store, o) = 1..n
    /\ PendingOf(store, o) = {}
    /\ store' = Insert(store, d, NewRow(o, n + 1, w))
    /\ orders' = [orders EXCEPT ![o] = Dispatched(w)]

LEMMA AssignSucceeds ==
    ASSUME MInv, NEW o \in Orders, NEW w \in Workers,
           ~HasPending(o), CreateDispatch(o, w),
           Succeeds("mark_order_dispatched", o, Dispatched(w))
    PROVE  \E d \in Requests, n \in Nat : Assigned(o, w, d, n)
<1>1. PICK n \in Nat : Attempts(store, o) = 1..n
  BY DEF MInv, Numbered
<1>2. GetLatestAttemptNo(o) = n
  BY <1>1, LatestOfNumbered DEF GetLatestAttemptNo
<1>3. PICK d \in Requests \ DOMAIN store : store' = Insert(store, d, NewRow(o, n + 1, w))
  BY <1>2 DEF CreateDispatch
<1> QED
  BY <1>1, <1>3 DEF Assigned, HasPending, Succeeds

\* An assignment succeeds, or it leaves both stores as they were.
LEMMA AssignCases ==
    ASSUME MInv, NEW o \in Orders, NEW w \in Workers, ManualAssignOrder(o, w)
    PROVE  /\ failNext' \subseteq OrderMethods
           /\ \/ reply' = "ok" /\ \E d \in Requests, n \in Nat : Assigned(o, w, d, n)
              \/ /\ UNCHANGED <<store, orders>>
                 /\ \/ reply' = "ConflictError" /\ HasPending(o)
                    \/ reply' = "ExternalServiceError"
<1> USE DEF MInv, TypeOK
<1>1. CASE HasPending(o) /\ Refuse("ConflictError")
  BY <1>1 DEF Refuse
<1>2. CASE /\ ~HasPending(o) /\ CreateDispatch(o, w) /\ reply' = "ok"
           /\ Succeeds("mark_order_dispatched", o, Dispatched(w))
  <2>1. \E d \in Requests, n \in Nat : Assigned(o, w, d, n)
    BY <1>2, AssignSucceeds
  <2> QED
    BY <1>2, <2>1 DEF Succeeds
<1>3. CASE /\ Raises("mark_order_dispatched", o, Dispatched(w))
           /\ reply' = "ExternalServiceError" /\ UNCHANGED store
  BY <1>3 DEF Raises
<1> QED
  BY <1>1, <1>2, <1>3 DEF ManualAssignOrder

\* The new record is the only difference, and the order's latest attempt.
LEMMA AssignedStore ==
    ASSUME MInv, NEW o \in Orders, NEW w \in Workers, NEW d, NEW n \in Nat,
           Assigned(o, w, d, n)
    PROVE  /\ DOMAIN store' = DOMAIN store \cup {d}
           /\ store' \in [DOMAIN store' -> Row]
           /\ store'[d] = NewRow(o, n + 1, w)
           /\ \A e \in DOMAIN store : store'[e] = store[e]
           /\ Attempts(store', o) = 1..(n + 1)
           /\ LatestAttemptNo(store', o) = n + 1
           /\ \A p \in Orders \ {o} : Attempts(store', p) = Attempts(store, p)
           /\ \A p \in Orders \ {o} : RowsOf(store', p) = RowsOf(store, p)
           /\ \A e \in RowsOf(store, o) : store[e].attempt \in 1..n
<1>1. NewRow(o, n + 1, w) \in Row
  BY DEF NewRow, Row, Statuses
<1>2. DOMAIN store' = DOMAIN store \cup {d}
  BY DEF Insert, Assigned
<1>3. store'[d] = NewRow(o, n + 1, w) /\ \A e \in DOMAIN store : store'[e] = store[e]
  BY DEF Insert, Assigned
<1>4. store' \in [DOMAIN store' -> Row]
  BY <1>1 DEF Insert, Assigned, MInv, TypeOK
<1>5. NewRow(o, n + 1, w).order = o /\ NewRow(o, n + 1, w).attempt = n + 1
  BY DEF NewRow
<1>6. Attempts(store', o) = Attempts(store, o) \cup {n + 1}
  BY <1>2, <1>3, <1>5 DEF Attempts, RowsOf, Assigned
<1>7. Attempts(store', o) = 1..(n + 1)
  <2>1. (1..n) \cup {n + 1} = 1..(n + 1)
    OBVIOUS
  <2> QED
    BY <1>6, <2>1 DEF Assigned
<1>8. LatestAttemptNo(store', o) = n + 1
  BY <1>7, LatestOfNumbered
<1>9. \A p \in Orders \ {o} : RowsOf(store', p) = RowsOf(store, p)
  BY <1>2, <1>3, <1>5 DEF RowsOf, Assigned
<1>10. \A p \in Orders \ {o} : Attempts(store', p) = Attempts(store, p)
  BY <1>2, <1>3, <1>5 DEF Attempts, RowsOf, Assigned
<1>11. \A e \in RowsOf(store, o) : store[e].attempt \in 1..n
  BY DEF Assigned, Attempts
<1> QED
  BY <1>2, <1>3, <1>4, <1>7, <1>8, <1>9, <1>10, <1>11

LEMMA AssignedKeepsMInv ==
    ASSUME MInv, NEW o \in Orders, NEW w \in Workers, NEW d \in Requests, NEW n \in Nat,
           Assigned(o, w, d, n), failNext' \subseteq OrderMethods, reply' \in Outcomes
    PROVE  MInv'
<1>1. /\ DOMAIN store' = DOMAIN store \cup {d}
      /\ store' \in [DOMAIN store' -> Row]
      /\ store'[d] = NewRow(o, n + 1, w)
      /\ \A e \in DOMAIN store : store'[e] = store[e]
      /\ Attempts(store', o) = 1..(n + 1)
      /\ LatestAttemptNo(store', o) = n + 1
      /\ \A p \in Orders \ {o} : Attempts(store', p) = Attempts(store, p)
      /\ \A p \in Orders \ {o} : RowsOf(store', p) = RowsOf(store, p)
      /\ \A e \in RowsOf(store, o) : store[e].attempt \in 1..n
  BY AssignedStore
<1>2. \A p \in Orders \ {o} : LatestAttemptNo(store', p) = LatestAttemptNo(store, p)
  BY <1>1, SameLatest
<1>3. /\ store'[d].order = o /\ store'[d].attempt = n + 1 /\ store'[d].worker = w
      /\ store'[d].status = "PENDING" /\ store'[d].responded = None /\ store'[d].reason = None
  BY <1>1 DEF NewRow
<1>4. TypeOK'
  <2>1. Dispatched(w) \in OrderState
    BY DEF Dispatched, OrderState, OrderStatuses
  <2> QED
    BY <1>1, <2>1 DEF TypeOK, MInv, Assigned
<1>5. \A e \in DOMAIN store : store[e].order \in Orders
  BY DEF MInv, TypeOK, Row
<1>6. Numbered'
  <2>1. \A p \in Orders : \E m \in Nat : Attempts(store', p) = 1..m
    BY <1>1 DEF MInv, Numbered
  <2>2. \A e \in DOMAIN store : ~(store[e].order = o /\ store[e].attempt = n + 1)
    BY <1>1 DEF RowsOf
  <2>3. ASSUME NEW e \in DOMAIN store', NEW f \in DOMAIN store',
               store'[e].order = store'[f].order, store'[e].attempt = store'[f].attempt
        PROVE  e = f
    BY <1>1, <1>3, <2>2, <2>3 DEF MInv, Numbered
  <2> QED
    BY <2>1, <2>3 DEF Numbered
<1>7. PendingIsLatest'
  <2>1. ASSUME NEW e \in DOMAIN store', store'[e].status = "PENDING"
        PROVE  /\ store'[e].attempt = LatestAttemptNo(store', store'[e].order)
               /\ store'[e].responded = None
               /\ store'[e].reason = None
    <3>1. CASE e = d
      BY <1>1, <1>3, <3>1
    <3>2. CASE e # d
      <4>1. e \in DOMAIN store /\ store'[e] = store[e]
        BY <1>1, <3>2
      <4>2. store[e].order # o
        BY <2>1, <4>1 DEF Assigned, PendingOf, RowsOf
      <4> QED
        BY <1>2, <1>5, <2>1, <4>1, <4>2 DEF MInv, PendingIsLatest
    <3> QED
      BY <3>1, <3>2
  <2> QED
    BY <2>1 DEF PendingIsLatest
<1>8. OrderAgrees'
  <2>1. ASSUME NEW p \in Orders
        PROVE  /\ RowsOf(store', p) = {} => orders'[p] = NewOrder
               /\ \A e \in RowsOf(store', p) :
                     store'[e].attempt = LatestAttemptNo(store', p) =>
                         orders'[p] = OrderStateFor(store'[e])
    <3>1. CASE p = o
      <4>1. orders'[p] = Dispatched(w)
        BY <3>1 DEF Assigned, MInv, TypeOK
      <4>2. d \in RowsOf(store', p)
        BY <1>1, <1>3, <3>1 DEF RowsOf
      <4>3. OrderStateFor(store'[d]) = Dispatched(w)
        BY <1>3 DEF OrderStateFor
      <4>4. ASSUME NEW e \in RowsOf(store', p), store'[e].attempt = n + 1
            PROVE  e = d
        BY <1>1, <1>3, <3>1, <4>4 DEF RowsOf
      <4> QED
        BY <1>1, <3>1, <4>1, <4>2, <4>3, <4>4
    <3>2. CASE p # o
      <4>1. orders'[p] = orders[p]
        BY <3>2 DEF Assigned, MInv, TypeOK
      <4>2. RowsOf(store', p) = RowsOf(store, p)
            /\ LatestAttemptNo(store', p) = LatestAttemptNo(store, p)
        BY <1>1, <1>2, <3>2
      <4>3. \A e \in RowsOf(store, p) : store'[e] = store[e]
        BY <1>1 DEF RowsOf
      <4> QED
        BY <4>1, <4>2, <4>3 DEF MInv, OrderAgrees
    <3> QED
      BY <3>1, <3>2
  <2> QED
    BY <2>1 DEF OrderAgrees
<1> QED
  BY <1>4, <1>6, <1>7, <1>8 DEF MInv

-----------------------------------------------------------------------------
(* confirm_worker_response                                                 *)

\* What a response that succeeds does to the two stores.
Responded(d, response, reason) ==
    /\ d \in DOMAIN store /\ store[d].status = "PENDING"
    /\ response \in Responses /\ reason \in Reasons \cup {None}
    /\ store' = UpdateWorkerResponse(d, response, reason)
    /\ orders' = [orders EXCEPT ![store[d].order] =
                    IF response = "ACCEPT" THEN Confirmed(store[d].worker) ELSE Unassigned]

\* Why a response by w to d ended without effect.
RespondRefused(d, w, result) ==
    \/ result \in {"ValidationError", "ExternalServiceError"}
    \/ result = "NotFoundError" /\ d \notin DOMAIN store
    \/ /\ result = "ConflictError"
       /\ d \in DOMAIN store /\ store[d].worker = w /\ store[d].status # "PENDING"

\* A response that passes the checks succeeds, or raises and leaves both
\* stores as they were: a pending record is reverted to exactly what it was.
LEMMA RespondCases ==
    ASSUME MInv, NEW d \in DOMAIN store \cup {NoSuchId}, NEW w,
           NEW response \in Responses, NEW reason \in Reasons \cup {None},
           ConfirmWorkerResponse(d, w, response, reason)
    PROVE  /\ failNext' \subseteq OrderMethods
           /\ \/ /\ reply' = "ok" /\ store[d].worker = w
                 /\ \E why \in Reasons \cup {None} : Responded(d, response, why)
              \/ /\ UNCHANGED <<store, orders>>
                 /\ RespondRefused(d, w, reply')
<1> DEFINE q == ConfirmRequest(d, w, response, reason)
           verdict == ConfirmCheck(store, q)
<1>1. q.dispatch = d /\ q.worker = w /\ q.response = response /\ q.reason = reason
  BY DEF ConfirmRequest
<1>2. verdict # "ok" => RespondRefused(d, w, verdict)
  BY <1>1 DEF ConfirmCheck, RespondRefused
<1>3. verdict = "ok" => /\ d \in DOMAIN store /\ store[d].status = "PENDING"
                        /\ store[d].worker = w
  BY <1>1 DEF ConfirmCheck
<1> HIDE DEF q
<1>4. CASE verdict # "ok" /\ Refuse(verdict)
  BY <1>2, <1>4 DEF Refuse, MInv, TypeOK
<1>5. ASSUME verdict = "ok", NEW why \in Reasons \cup {None}, NEW m, NEW new,
             new = (IF response = "ACCEPT" THEN Confirmed(store[d].worker) ELSE Unassigned),
             Handle(d, response, why, m, new)
      PROVE  /\ failNext' \subseteq OrderMethods
             /\ \/ reply' = "ok" /\ Responded(d, response, why)
                \/ reply' = "ExternalServiceError" /\ UNCHANGED <<store, orders>>
  <2>1. CASE Succeeds(m, store[d].order, new) /\ reply' = "ok"
             /\ store' = UpdateWorkerResponse(d, response, why)
    BY <1>3, <1>5, <2>1 DEF Succeeds, Responded, MInv, TypeOK
  <2>2. CASE Raises(m, store[d].order, new) /\ reply' = "ExternalServiceError"
             /\ store' = RevertToPending(UpdateWorkerResponse(d, response, why), d)
    <3>1. store[d] \in Row /\ store[d].responded = None /\ store[d].reason = None
      BY <1>3, <1>5 DEF MInv, TypeOK, PendingIsLatest
    <3>2. Reverted(Answered(store[d], d, response, why)) = store[d]
      BY <1>3, <1>5, <3>1 DEF Reverted, Answered, Row
    <3>3. RevertToPending(UpdateWorkerResponse(d, response, why), d) = store
      BY <1>3, <1>5, <3>2 DEF RevertToPending, UpdateWorkerResponse, MInv, TypeOK
    <3> QED
      BY <2>2, <3>3 DEF Raises, MInv, TypeOK
  <2> QED
    BY <1>5, <2>1, <2>2 DEF Handle
<1>6. CASE verdict = "ok" /\ response = "ACCEPT" /\ HandleAccept(d)
  BY <1>3, <1>5, <1>6 DEF HandleAccept, RespondRefused
<1>7. CASE verdict = "ok" /\ response = "REJECT" /\ HandleReject(d, reason)
  BY <1>3, <1>5, <1>7 DEF HandleReject, RespondRefused
<1> QED
  BY <1>4, <1>6, <1>7 DEF ConfirmWorkerResponse, q

\* The answered record is the only difference; no record changes its order,
\* number or worker.
LEMMA RespondedStore ==
    ASSUME MInv, NEW d, NEW response, NEW reason, Responded(d, response, reason)
    PROVE  /\ SameIdentities(store, store')
           /\ store' \in [DOMAIN store -> Row]
           /\ store'[d].status = Verdict(response)
           /\ \A e \in DOMAIN store : e # d => store'[e] = store[e]
           /\ \A p : Attempts(store', p) = Attempts(store, p)
           /\ \A p : RowsOf(store', p) = RowsOf(store, p)
           /\ \A p : LatestAttemptNo(store', p) = LatestAttemptNo(store, p)
<1>1. store[d] \in Row /\ d \in Requests
  BY DEF Responded, MInv, TypeOK
<1>2. /\ DOMAIN store' = DOMAIN store
      /\ \A e \in DOMAIN store : e # d => store'[e] = store[e]
      /\ store'[d] = Answered(store[d], d, response, reason)
  BY DEF Responded, UpdateWorkerResponse
<1>3. /\ store'[d] \in Row /\ store'[d].status = Verdict(response)
      /\ store'[d].order = store[d].order
      /\ store'[d].attempt = store[d].attempt
      /\ store'[d].worker = store[d].worker
  BY <1>1, <1>2 DEF Answered, Verdict, Row, Statuses, Responded
<1>4. store' \in [DOMAIN store -> Row]
  BY <1>2, <1>3 DEF Responded, UpdateWorkerResponse, MInv, TypeOK
<1>5. SameIdentities(store, store')
  BY <1>2, <1>3 DEF SameIdentities
<1>6. \A p : Attempts(store', p) = Attempts(store, p) /\ RowsOf(store', p) = RowsOf(store, p)
  BY <1>5 DEF SameIdentities, Attempts, RowsOf
<1> QED
  BY <1>2, <1>3, <1>4, <1>5, <1>6 DEF LatestAttemptNo

LEMMA RespondedKeepsMInv ==
    ASSUME MInv, NEW d, NEW response, NEW reason, Responded(d, response, reason),
           failNext' \subseteq OrderMethods, reply' \in Outcomes
    PROVE  MInv'
<1>1. /\ SameIdentities(store, store')
      /\ store' \in [DOMAIN store -> Row]
      /\ store'[d].status = Verdict(response)
      /\ \A e \in DOMAIN store : e # d => store'[e] = store[e]
      /\ \A p : Attempts(store', p) = Attempts(store, p)
      /\ \A p : RowsOf(store', p) = RowsOf(store, p)
      /\ \A p : LatestAttemptNo(store', p) = LatestAttemptNo(store, p)
  BY RespondedStore
<1>2. /\ DOMAIN store' = DOMAIN store
      /\ \A e \in DOMAIN store : /\ store'[e].order = store[e].order
                                 /\ store'[e].attempt = store[e].attempt
                                 /\ store'[e].worker = store[e].worker
  BY <1>1 DEF SameIdentities
<1> DEFINE o == store[d].order
           new == IF response = "ACCEPT" THEN Confirmed(store[d].worker) ELSE Unassigned
<1>3. /\ d \in DOMAIN store /\ o \in Orders /\ store[d].worker \in Workers
      /\ store[d].attempt = LatestAttemptNo(store, o)
  BY DEF Responded, MInv, TypeOK, Row, PendingIsLatest
<1>4. orders' = [orders EXCEPT ![o] = new] /\ new \in OrderState
  BY <1>3 DEF Responded, Confirmed, Unassigned, OrderState, OrderStatuses
<1>5. new = OrderStateFor(store'[d]) /\ store'[d].status # "PENDING"
  BY <1>1, <1>2, <1>3 DEF OrderStateFor, Verdict, Responded, Responses
<1> HIDE DEF o, new
<1>6. TypeOK'
  BY <1>1, <1>2, <1>4 DEF MInv, TypeOK
<1>7. Numbered'
  <2>1. \A p \in Orders : \E n \in Nat : Attempts(store', p) = 1..n
    BY <1>1 DEF MInv, Numbered
  <2> QED
    BY <1>2, <2>1 DEF MInv, Numbered
<1>8. PendingIsLatest'
  BY <1>1, <1>2, <1>5 DEF MInv, PendingIsLatest
<1>9. OrderAgrees'
  <2>1. ASSUME NEW p \in Orders
        PROVE  /\ RowsOf(store', p) = {} => orders'[p] = NewOrder
               /\ \A e \in RowsOf(store', p) :
                     store'[e].attempt = LatestAttemptNo(store', p) =>
                         orders'[p] = OrderStateFor(store'[e])
    <3>1. CASE p = o
      <4>1. orders'[p] = new
        BY <1>3, <1>4, <3>1 DEF MInv, TypeOK
      <4>2. d \in RowsOf(store', p)
        BY <1>1, <1>3, <3>1 DEF RowsOf, o
      <4>3. ASSUME NEW e \in RowsOf(store', p), store'[e].attempt = LatestAttemptNo(store', p)
            PROVE  e = d
        BY <1>1, <1>2, <1>3, <3>1, <4>3 DEF RowsOf, o, MInv, Numbered
      <4> QED
        BY <1>5, <4>1, <4>2, <4>3
    <3>2. CASE p # o
      <4>1. orders'[p] = orders[p]
        BY <1>4, <3>2 DEF MInv, TypeOK
      <4>2. \A e \in RowsOf(store, p) : store'[e] = store[e]
        BY <1>1, <3>2 DEF RowsOf, o
      <4> QED
        BY <1>1, <4>1, <4>2 DEF MInv, OrderAgrees
    <3> QED
      BY <3>1, <3>2
  <2> QED
    BY <2>1 DEF OrderAgrees
<1> QED
  BY <1>6, <1>7, <1>8, <1>9 DEF MInv

-----------------------------------------------------------------------------
(* Every request                                                           *)

\* A step that leaves both stores alone.
LEMMA StoresKept ==
    ASSUME MInv, UNCHANGED <<store, orders>>,
           failNext' \subseteq OrderMethods, reply' \in Outcomes
    PROVE  MInv'
BY DEF MInv, TypeOK, Numbered, PendingIsLatest, OrderAgrees, Attempts, RowsOf, LatestAttemptNo

\* Whatever arrives is an assignment that succeeds, a response that succeeds,
\* or nothing to the two stores.
LEMMA StepCases ==
    ASSUME MInv, [Next]_vars
    PROVE  /\ failNext' \subseteq OrderMethods /\ reply' \in Outcomes
           /\ \/ reply' = "ok" /\ \E o \in Orders, w \in Workers, d \in Requests, n \in Nat :
                                     Assigned(o, w, d, n)
              \/ reply' = "ok" /\ \E d \in DOMAIN store, response \in Responses,
                                     reason \in Reasons \cup {None} :
                                     Responded(d, response, reason)
              \/ UNCHANGED <<store, orders>>
<1> USE DEF MInv, TypeOK, Outcomes
<1>1. CASE UNCHANGED vars
  BY <1>1 DEF vars
<1>2. CASE \E m \in OrderMethods : FailNext(m)
  BY <1>2 DEF FailNext
<1>3. CASE Refuse("ValidationError")
  BY <1>3 DEF Refuse
<1>4. ASSUME NEW o \in Orders, NEW w \in Workers, ManualAssignOrder(o, w)
      PROVE  /\ failNext' \subseteq OrderMethods /\ reply' \in Outcomes
             /\ \/ reply' = "ok" /\ \E d \in Requests, n \in Nat : Assigned(o, w, d, n)
                \/ UNCHANGED <<store, orders>>
  BY <1>4, AssignCases
<1>5. ASSUME NEW d \in DOMAIN store \cup {NoSuchId}, NEW w \in Workers,
             NEW response \in Responses, NEW reason \in Reasons \cup {None},
             ConfirmWorkerResponse(d, w, response, reason)
      PROVE  /\ failNext' \subseteq OrderMethods /\ reply' \in Outcomes
             /\ \/ reply' = "ok" /\ d \in DOMAIN store
                   /\ \E why \in Reasons \cup {None} : Responded(d, response, why)
                \/ UNCHANGED <<store, orders>>
  BY <1>5, RespondCases DEF Responded, RespondRefused
<1> QED
  BY <1>1, <1>2, <1>3, <1>4, <1>5 DEF Next

LEMMA StepMInv == MInv /\ [Next]_vars => MInv'
BY StepCases, AssignedKeepsMInv, RespondedKeepsMInv, StoresKept

LEMMA MInvHolds == Spec => []MInv
BY InitMInv, StepMInv, PTL DEF Spec

\* The state of the in-memory deployment stays well typed.
THEOREM InMemoryTypeCorrect == Spec => []TypeOK
<1>1. MInv => TypeOK
  BY DEF MInv
<1> QED
  BY <1>1, MInvHolds, PTL

\* After every request, whichever order calls raise, the order service says of
\* each order what its latest record says.
THEOREM StoresAgree == Spec => []OrderAgrees
<1>1. MInv => OrderAgrees
  BY DEF MInv
<1> QED
  BY <1>1, MInvHolds, PTL

\* A request that raises has changed neither store: what confirm_worker_response
\* wrote is put back exactly.
THEOREM RaisingIsUndone == Spec => RaisingChangesNothing
<1>1. MInv /\ [Next]_vars
        => [reply' \notin {"ok", "none"} => UNCHANGED <<store, orders>>]_vars
  BY StepCases
<1> QED
  BY <1>1, MInvHolds, PTL DEF Spec, RaisingChangesNothing

-----------------------------------------------------------------------------
(* The contract                                                            *)

LEMMA UniqueIsNumbered == Numbered => Unique(store)
BY DEF Numbered, Unique

\* An assignment appends to its order's history.
LEMMA AssignedIsAssign ==
    ASSUME MInv, MInv', NEW o \in Orders, NEW w \in Workers, NEW d \in Requests,
           NEW n \in Nat, Assigned(o, w, d, n)
    PROVE  Contract!Assign(o, w)
<1>1. Unique(store) /\ Unique(store')
  BY UniqueIsNumbered DEF MInv, Numbered, Unique
<1>2. ~Contract!Waiting(o)
  BY <1>1, NobodyWaits DEF Assigned, Contract!Waiting, ListByOrder
<1>3. Longer(HistoriesOf(store), HistoriesOf(store'), o, w)
  <2>1. Appends(store, store', d, o, w, n)
    BY <1>1 DEF Assigned, Appends
  <2> QED
    BY <2>1, AppendedHistories
<1>4. orders' = [orders EXCEPT ![o] = Dispatched(w)]
  BY DEF Assigned
<1> QED
  BY <1>2, <1>3, <1>4
     DEF Contract!Assign, Contract!Dispatched, Dispatched, ListByOrder, HistoriesOf, Longer

\* A response changes the status of one pending entry.
LEMMA RespondedIsAnswer ==
    ASSUME MInv, MInv', NEW d, NEW response \in Responses, NEW reason,
           Responded(d, response, reason)
    PROVE  Contract!Answer(store[d].order, store[d].attempt, response)
<1> DEFINE o == store[d].order
           i == store[d].attempt
           h == HistoryOf(store, o)
           v == Verdict(response)
<1>1. /\ SameIdentities(store, store')
      /\ \A e \in DOMAIN store : e # d => store'[e] = store[e]
      /\ store'[d].status = v
      /\ \A p : RowsOf(store', p) = RowsOf(store, p)
  BY RespondedStore
<1>2. Unique(store) /\ Unique(store')
  BY UniqueIsNumbered DEF MInv, Numbered, Unique
<1>3. d \in DOMAIN store /\ o \in Orders /\ store[d].status = "PENDING"
  BY DEF Responded, MInv, TypeOK, Row
<1>4. /\ h[i] = Entry(store[d])
      /\ Restated(HistoriesOf(store), HistoriesOf(store'), o, i, v)
  <2>1. Restates(store, store', d, o)
    BY <1>1, <1>2, <1>3 DEF Restates
  <2> HIDE DEF o, v
  <2> QED
    BY <1>1, <1>3, <2>1, RestatedHistories
<1>5. Contract!Verdict(response) = v /\ Contract!Unassigned = Unassigned
      /\ Contract!Confirmed(h[i].worker) = Confirmed(store[d].worker)
  BY <1>4 DEF Contract!Verdict, Contract!Unassigned, Contract!Confirmed, Verdict,
              Unassigned, Confirmed, Entry
<1>6. h[i].status = "PENDING"
  BY <1>3, <1>4 DEF Entry
<1>7. orders' = [orders EXCEPT ![o] = IF response = "ACCEPT" THEN Confirmed(store[d].worker)
                                      ELSE Unassigned]
  BY DEF Responded
<1> HIDE DEF o, i, h, v
<1>8. HistoriesOf(store)[o] = h
  BY <1>3 DEF HistoriesOf, h
<1> QED
  BY <1>4, <1>5, <1>6, <1>7, <1>8 DEF Contract!Answer, ListByOrder, HistoriesOf,
     Restated, o, i

LEMMA InitIsContractInit == Init => Contract!Init
<1> SUFFICES ASSUME Init PROVE Contract!Init
  OBVIOUS
<1>1. ASSUME NEW o \in Orders PROVE HistoryOf(store, o) = <<>>
  <2>1. Attempts(store, o) = {}
    BY DEF Init, Attempts, RowsOf
  <2> QED
    BY <2>1 DEF HistoryOf
<1> QED
  BY <1>1 DEF Init, Contract!Init, Contract!NewOrder, NewOrder, ListByOrder

LEMMA AssignedIsContractStep ==
    ASSUME MInv, MInv', NEW o \in Orders, NEW w \in Workers, NEW d \in Requests,
           NEW n \in Nat, Assigned(o, w, d, n)
    PROVE  Contract!Next
BY AssignedIsAssign DEF Contract!Next

LEMMA RespondedIsContractStep ==
    ASSUME MInv, MInv', NEW d, NEW response, NEW reason, Responded(d, response, reason)
    PROVE  Contract!Next
<1> DEFINE o == store[d].order
<1>1. response \in Responses
  BY DEF Responded
<1>2. o \in Orders /\ d \in RowsOf(store, o)
  BY DEF MInv, TypeOK, Row, RowsOf, Responded
<1>3. store[d].attempt \in DOMAIN [p \in Orders |-> ListByOrder(p)][o]
  BY <1>2, HistoryEntries, UniqueIsNumbered DEF ListByOrder, MInv
<1>4. Contract!Answer(o, store[d].attempt, response)
  BY <1>1, RespondedIsAnswer
<1> HIDE DEF o
<1> QED
  BY <1>1, <1>2, <1>3, <1>4 DEF Contract!Next, Contract!Responses, Responses

\* Every request is one step of the contract, or none.
LEMMA StepIsContractStep ==
    MInv /\ MInv' /\ [Next]_vars
        => [Contract!Next]_<<[o \in Orders |-> ListByOrder(o)], orders>>
<1> SUFFICES ASSUME MInv, MInv', [Next]_vars
             PROVE  [Contract!Next]_<<[o \in Orders |-> ListByOrder(o)], orders>>
  OBVIOUS
<1>1. CASE UNCHANGED <<store, orders>>
  BY <1>1 DEF ListByOrder
<1> QED
  BY <1>1, AssignedIsContractStep, RespondedIsContractStep, StepCases

\* Over the in-memory store the service is its contract: requests take effect
\* one at a time, all or nothing, and the order service is told in the same
\* breath.
THEOREM InMemoryImplementsContract == Spec => ImplementsContract
BY InitIsContractInit, StepIsContractStep, MInvHolds, PTL
   DEF Spec, ImplementsContract, Contract!Spec
=============================================================================
