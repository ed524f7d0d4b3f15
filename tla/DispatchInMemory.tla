-------------------------- MODULE DispatchInMemory --------------------------
(***************************************************************************)
(* DispatchService over InMemoryDispatchRepository and MockOrderClient:    *)
(* the deployment with use_mock_repository, and the one the service's own  *)
(* tests run.  None of the two ever suspends, so a handler runs to its end *)
(* before the event loop turns to another: each action below is a whole    *)
(* request.                                                                *)
(***************************************************************************)
EXTENDS DispatchData

VARIABLES
    store,      \* InMemoryDispatchRepository._store
    orders,     \* MockOrderClient._orders
    failNext,   \* MockOrderClient._fail_next
    reply       \* what the last request returned or raised

vars == <<store, orders, failNext, reply>>

OrderMethods == {"mark_order_dispatched", "mark_order_pending_assignment",
                 "mark_order_confirmed"}

TypeOK ==
    /\ DOMAIN store \subseteq Requests
    /\ store \in [DOMAIN store -> Row]
    /\ orders \in [Orders -> OrderState]
    /\ failNext \subseteq OrderMethods
    /\ reply \in Outcomes

Init ==
    /\ store = [d \in {} |-> None]
    /\ orders = [o \in Orders |-> NewOrder]
    /\ failNext = {}
    /\ reply = "none"

-----------------------------------------------------------------------------
(* MockOrderClient                                                         *)

FailNext(m) ==
    /\ failNext' = failNext \cup {m}
    /\ UNCHANGED <<store, orders, reply>>

Succeeds(m, o, new) ==
    /\ m \notin failNext
    /\ orders' = [orders EXCEPT ![o] = new]
    /\ UNCHANGED failNext

\* Mutant of Raises: the flag is looked at after the order was changed.
RaisesLate(m, o, new) ==
    /\ m \in failNext
    /\ failNext' = failNext \ {m}
    /\ orders' = [orders EXCEPT ![o] = new]

\* _consume_fail raises before the order is touched.
Raises(m, o, new) ==
    /\ m \in failNext
    /\ failNext' = failNext \ {m}
    /\ UNCHANGED orders

-----------------------------------------------------------------------------
(* InMemoryDispatchRepository                                              *)

\* Mutant of HasPending: the guard is gone.
HasPendingNever(o) == FALSE

HasPending(o) == PendingOf(store, o) # {}

GetLatestAttemptNo(o) == LatestAttemptNo(store, o)

CreateDispatch(o, w) ==
    \E d \in Requests \ DOMAIN store :
        store' = Insert(store, d, NewRow(o, GetLatestAttemptNo(o) + 1, w))

\* The record's own id stands for the instant it is answered at.
UpdateWorkerResponse(d, response, reason) ==
    [store EXCEPT ![d] = Answered(@, d, response, reason)]

\* Mutant of RevertToPending: the record stays answered.
RevertNothing(s, d) == s

RevertToPending(s, d) == [s EXCEPT ![d] = Reverted(@)]

ListByOrder(o) == HistoryOf(store, o)

-----------------------------------------------------------------------------
(* DispatchService                                                         *)

Refuse(result) ==
    /\ reply' = result
    /\ UNCHANGED <<store, orders, failNext>>

\* The create_dispatch that follows the order call cannot fail here, so the
\* compensation of manual_assign_order is never reached.
ManualAssignOrder(o, w) ==
    \/ HasPending(o) /\ Refuse("ConflictError")
    \/ /\ ~HasPending(o)
       /\ \/ /\ Succeeds("mark_order_dispatched", o, Dispatched(w))
             /\ CreateDispatch(o, w)
             /\ reply' = "ok"
          \/ /\ Raises("mark_order_dispatched", o, Dispatched(w))
             /\ reply' = "ExternalServiceError"
             /\ UNCHANGED store

\* The record is answered, the order service is told by method m what is new,
\* and the record is reverted if that raised.
Handle(d, response, reason, m, new) ==
    \/ /\ Succeeds(m, store[d].order, new)
       /\ store' = UpdateWorkerResponse(d, response, reason)
       /\ reply' = "ok"
    \/ /\ Raises(m, store[d].order, new)
       /\ store' = RevertToPending(UpdateWorkerResponse(d, response, reason), d)
       /\ reply' = "ExternalServiceError"

HandleAccept(d) ==
    Handle(d, "ACCEPT", None, "mark_order_confirmed", Confirmed(store[d].worker))

HandleReject(d, reason) ==
    Handle(d, "REJECT", reason, "mark_order_pending_assignment", Unassigned)

ConfirmWorkerResponse(d, w, response, reason) ==
    LET verdict == ConfirmCheck(store, ConfirmRequest(d, w, response, reason)) IN
      \/ verdict # "ok" /\ Refuse(verdict)
      \/ verdict = "ok" /\ response = "ACCEPT" /\ HandleAccept(d)
      \/ verdict = "ok" /\ response = "REJECT" /\ HandleReject(d, reason)

Next ==
    \/ \E m \in OrderMethods : FailNext(m)
    \/ Refuse("ValidationError")    \* a required field is blank
    \/ \E o \in Orders, w \in Workers : ManualAssignOrder(o, w)
    \/ \E d \in DOMAIN store \cup {NoSuchId}, w \in Workers,
          response \in Responses, reason \in Reasons \cup {None} :
             ConfirmWorkerResponse(d, w, response, reason)

Spec == Init /\ [][Next]_vars

-----------------------------------------------------------------------------
(* Properties                                                              *)

\* The two stores agree after every request, whichever of its calls raised:
\* the order service says of an order what its latest record says.
OrderAgrees ==
    \A o \in Orders :
        /\ RowsOf(store, o) = {} => orders[o] = NewOrder
        /\ \A d \in RowsOf(store, o) :
              store[d].attempt = LatestAttemptNo(store, o) =>
                  orders[o] = OrderStateFor(store[d])

\* A request that raises leaves no trace: what was marked, written or
\* answered before the exception is put back exactly.
RaisingChangesNothing ==
    [][reply' \notin {"ok", "none"} => UNCHANGED <<store, orders>>]_vars

Contract == INSTANCE DispatchContract
                WITH history <- [o \in Orders |-> ListByOrder(o)],
                     service <- orders

\* Every request is one step of the contract, or none.
ImplementsContract == Contract!Spec
=============================================================================
