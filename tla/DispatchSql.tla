---------------------------- MODULE DispatchSql ----------------------------
(***************************************************************************)
(* DispatchService over SQLAlchemyDispatchRepository and the order client: *)
(* the deployment the settings choose by default.  Requests run as         *)
(* coroutines of one event loop and every await on the database or on the  *)
(* order service lets the others run, so each action below is the code     *)
(* between two such awaits: one SQL statement or one order call, and the   *)
(* branching that follows it.                                              *)
(*                                                                         *)
(* Hazards names what the environment may do; a run enables the ones its   *)
(* question is about:                                                      *)
(*   "overlap"  clients send a request for an order while another for the  *)
(*              same order is still being handled                          *)
(*   "db"       any statement may raise instead of taking effect           *)
(*   "refuse"   an order call may raise without effect (_consume_fail)     *)
(*   "lostack"  an order call may take effect and still raise (a real      *)
(*              order service behind the OrderClient protocol)             *)
(*   "cancel"   a handler is cancelled at an await: CancelledError is not  *)
(*              an Exception, so no except clause runs                     *)
(*   "crash"    the process restarts: the table survives, the in-process   *)
(*              order client starts empty                                  *)
(***************************************************************************)
EXTENDS DispatchData

CONSTANT Hazards

HazardKinds == {"overlap", "db", "refuse", "lostack", "cancel", "crash"}

ASSUME HazardsAssumption == Hazards \subseteq HazardKinds

VARIABLES
    table,      \* the dispatch_records table, by primary key
    orders,     \* the order service's view of each order
    pc,         \* the await each request is suspended at
    req,        \* the request itself
    attemptNo,  \* local attempt_no of manual_assign_order
    row,        \* the ORM row object of the request's last session
    outcome     \* how the request ended

vars == <<table, orders, pc, req, attemptNo, row, outcome>>

\* Awaits of manual_assign_order, of confirm_worker_response, and the ends.
AssignPoints == {"check", "number", "mark", "create", "refresh", "compensate"}
ConfirmPoints == {"lookup", "load", "write", "reload", "tell",
                  "revertLoad", "revertWrite"}
Points == {"idle", "done"} \cup AssignPoints \cup ConfirmPoints

EmptyRow == [order |-> None, attempt |-> 0, worker |-> None,
             status |-> "PENDING", responded |-> None, reason |-> None]

TypeOK ==
    /\ DOMAIN table \subseteq Requests
    /\ table \in [DOMAIN table -> Row]
    /\ orders \in [Orders -> OrderState]
    /\ pc \in [Requests -> Points]
    /\ req \in [Requests -> Request]
    /\ attemptNo \in [Requests -> Nat]
    /\ row \in [Requests -> Row \cup {EmptyRow}]
    /\ outcome \in [Requests -> Outcomes]

Init ==
    /\ table = [d \in {} |-> EmptyRow]
    /\ orders = [o \in Orders |-> NewOrder]
    /\ pc = [r \in Requests |-> "idle"]
    /\ req = [r \in Requests |-> NoRequest]
    /\ attemptNo = [r \in Requests |-> 0]
    /\ row = [r \in Requests |-> EmptyRow]
    /\ outcome = [r \in Requests |-> "none"]

InFlight(r) == pc[r] \notin {"idle", "done"}

\* The order a request is about; None when its dispatch does not exist.
OrderOf(q) ==
    IF q.kind = "assign" THEN q.order
    ELSE IF q.dispatch \in DOMAIN table THEN table[q.dispatch].order
    ELSE None

\* What clients may send while other requests are being handled.
MayStart(q) ==
    "overlap" \in Hazards \/
        \A s \in Requests : InFlight(s) => OrderOf(req[s]) # OrderOf(q)

GoTo(r, point) ==
    /\ pc' = [pc EXCEPT ![r] = point]
    /\ UNCHANGED outcome

Finish(r, result) ==
    /\ pc' = [pc EXCEPT ![r] = "done"]
    /\ outcome' = [outcome EXCEPT ![r] = result]

-----------------------------------------------------------------------------
(* The order client                                                        *)

OrderCall(o, new) == orders' = [orders EXCEPT ![o] = new]

OrderCallRaises(o, new) ==
    \/ "refuse" \in Hazards /\ UNCHANGED orders
    \/ "lostack" \in Hazards /\ OrderCall(o, new)

-----------------------------------------------------------------------------
(* manual_assign_order                                                     *)

\* A required field is blank: no call is made.
RefuseBlank(r) ==
    /\ pc[r] = "idle"
    /\ Finish(r, "ValidationError")
    /\ UNCHANGED <<table, orders, req, attemptNo, row>>

StartAssign(r) ==
    /\ pc[r] = "idle"
    /\ \E o \in Orders, w \in Workers :
         LET q == AssignRequest(o, w) IN
           /\ MayStart(q)
           /\ req' = [req EXCEPT ![r] = q]
    /\ GoTo(r, "check")
    /\ UNCHANGED <<table, orders, attemptNo, row>>

\* Mutant of HasPending: the guard is gone.
HasPendingNever(o) == FALSE

HasPending(o) == PendingOf(table, o) # {}

HasPendingDispatch(r) ==
    /\ pc[r] = "check"
    /\ \/ HasPending(req[r].order) /\ Finish(r, "ConflictError")
       \/ ~HasPending(req[r].order) /\ GoTo(r, "number")
    /\ UNCHANGED <<table, orders, req, attemptNo, row>>

\* Mutant of GetLatestAttemptNo: attempts are counted from 0.
GetLatestAttemptNoFromZero(r) ==
    /\ pc[r] = "number"
    /\ attemptNo' = [attemptNo EXCEPT
           ![r] = IF RowsOf(table, req[r].order) = {} THEN 0
                  ELSE LatestAttemptNo(table, req[r].order) + 1]
    /\ GoTo(r, "mark")
    /\ UNCHANGED <<table, orders, req, row>>

GetLatestAttemptNo(r) ==
    /\ pc[r] = "number"
    /\ attemptNo' =
         [attemptNo EXCEPT ![r] = LatestAttemptNo(table, req[r].order) + 1]
    /\ GoTo(r, "mark")
    /\ UNCHANGED <<table, orders, req, row>>

\* What manual_assign_order makes of an order call's exception: the three that its
\* first except clause names pass as they are, anything else is an
\* ExternalServiceError.
RaisedByMark == {"ValidationError", "NotFoundError", "ConflictError", "ExternalServiceError"}

\* When the call raises, order_marked is still False: nothing is undone.
MarkOrderDispatched(r) ==
    /\ pc[r] = "mark"
    /\ LET o == req[r].order
           new == Dispatched(req[r].worker) IN
         \/ OrderCall(o, new) /\ GoTo(r, "create")
         \/ OrderCallRaises(o, new) /\ \E result \in RaisedByMark : Finish(r, result)
    /\ UNCHANGED <<table, req, attemptNo, row>>

\* Mutant of AttemptTaken: no unique constraint.
AttemptNeverTaken(o, k) == FALSE

\* The unique constraint uq_dispatch_order_attempt.
AttemptTaken(o, k) == k \in Attempts(table, o)

\* INSERT and COMMIT.
CreateDispatch(r) ==
    /\ pc[r] = "create"
    /\ LET o == req[r].order
           k == attemptNo[r] IN
         \/ /\ ~AttemptTaken(o, k)
            /\ table' = Insert(table, r, NewRow(o, k, req[r].worker))
            /\ GoTo(r, "refresh")
         \/ /\ AttemptTaken(o, k)
            /\ GoTo(r, "compensate")
            /\ UNCHANGED table
    /\ UNCHANGED <<orders, req, attemptNo, row>>

\* session.refresh reads the row again, in a transaction of its own.
RefreshCreated(r) ==
    /\ pc[r] = "refresh"
    /\ row' = [row EXCEPT ![r] = table[r]]
    /\ Finish(r, "ok")
    /\ UNCHANGED <<table, orders, req, attemptNo>>

\* Mutant of SafeMarkOrderPending: order_marked was not set, nothing is undone.
SafeMarkOrderPendingSkipped(r) ==
    /\ pc[r] = "compensate"
    /\ Finish(r, "ExternalServiceError")
    /\ UNCHANGED <<table, orders, req, attemptNo, row>>

\* The caller is told "failed and has been compensated" either way.
SafeMarkOrderPending(r) ==
    /\ pc[r] = "compensate"
    /\ \/ OrderCall(req[r].order, Unassigned)
       \/ OrderCallRaises(req[r].order, Unassigned)
    /\ Finish(r, "ExternalServiceError")
    /\ UNCHANGED <<table, req, attemptNo, row>>

-----------------------------------------------------------------------------
(* confirm_worker_response                                                 *)

StartConfirm(r) ==
    /\ pc[r] = "idle"
    /\ \E d \in DOMAIN table \cup {NoSuchId}, w \in Workers,
          response \in Responses, reason \in Reasons \cup {None} :
         LET q == ConfirmRequest(d, w, response, reason) IN
           /\ MayStart(q)
           /\ req' = [req EXCEPT ![r] = q]
    /\ GoTo(r, "lookup")
    /\ UNCHANGED <<table, orders, attemptNo, row>>

GetById(r) ==
    /\ pc[r] = "lookup"
    /\ LET verdict == ConfirmCheck(table, req[r]) IN
         \/ verdict = "ok" /\ GoTo(r, "load")
         \/ verdict # "ok" /\ Finish(r, verdict)
    /\ UNCHANGED <<table, orders, req, attemptNo, row>>

\* update_worker_response and revert_to_pending each SELECT the row again;
\* rows are never deleted, so their "row is None" branch is never taken.
LoadRow(r, from, to) ==
    /\ pc[r] = from
    /\ row' = [row EXCEPT ![r] = table[req[r].dispatch]]
    /\ GoTo(r, to)
    /\ UNCHANGED <<table, orders, req, attemptNo>>

\* Mutant of LoadForResponse: the order service is told before the commit.
LoadThenTell(r) == LoadRow(r, "load", "tell")

LoadForResponse(r) == LoadRow(r, "load", "write")

\* The session's UPDATE names only the columns whose new value differs from
\* the value loaded; the others keep what the table holds by now.
Flushed(now, loaded, new) == IF new = loaded THEN now ELSE new

Flush(d, loaded, new) ==
    table' = [table EXCEPT
                ![d].status = Flushed(@, loaded.status, new.status),
                ![d].responded = Flushed(@, loaded.responded, new.responded),
                ![d].reason = Flushed(@, loaded.reason, new.reason)]

CommitResponse(r) ==
    /\ pc[r] = "write"
    /\ LET q == req[r] IN
         Flush(q.dispatch, row[r], Answered(row[r], r, q.response, q.reason))
    /\ GoTo(r, "reload")
    /\ UNCHANGED <<orders, req, attemptNo, row>>

RefreshUpdated(r) ==
    /\ pc[r] = "reload"
    /\ row' = [row EXCEPT ![r] = table[req[r].dispatch]]
    /\ GoTo(r, "tell")
    /\ UNCHANGED <<table, orders, req, attemptNo>>

\* Mutant of TellOrder: the exception of the order call is logged, not handled.
TellOrderSwallows(r) ==
    /\ pc[r] = "tell"
    /\ LET o == table[req[r].dispatch].order
           new == IF req[r].response = "ACCEPT"
                  THEN Confirmed(req[r].worker) ELSE Unassigned IN
         OrderCall(o, new) \/ OrderCallRaises(o, new)
    /\ Finish(r, "ok")
    /\ UNCHANGED <<table, req, attemptNo, row>>

\* mark_order_confirmed after ACCEPT, mark_order_pending_assignment after
\* REJECT; any exception reverts the record.
TellOrder(r) ==
    /\ pc[r] = "tell"
    /\ LET o == table[req[r].dispatch].order
           new == IF req[r].response = "ACCEPT"
                  THEN Confirmed(req[r].worker) ELSE Unassigned IN
         \/ OrderCall(o, new) /\ Finish(r, "ok")
         \/ OrderCallRaises(o, new) /\ GoTo(r, "revertLoad")
    /\ UNCHANGED <<table, req, attemptNo, row>>

LoadForRevert(r) == LoadRow(r, "revertLoad", "revertWrite")

\* The refresh that follows this commit changes nothing: its result is
\* dropped and _safe_revert_pending swallows its exception.
CommitRevert(r) ==
    /\ pc[r] = "revertWrite"
    /\ Flush(req[r].dispatch, row[r], Reverted(row[r]))
    /\ Finish(r, "ExternalServiceError")
    /\ UNCHANGED <<orders, req, attemptNo, row>>

-----------------------------------------------------------------------------
(* What goes wrong around a handler                                        *)

\* Reads outside the try block, and the whole of update_worker_response, let
\* the driver's exception through.
DbErrorSurfaces(r) ==
    /\ "db" \in Hazards
    /\ pc[r] \in {"check", "number", "lookup", "load", "write", "reload"}
    /\ Finish(r, "DBAPIError")
    /\ UNCHANGED <<table, orders, req, attemptNo, row>>

\* create_dispatch fails, before its commit or in the refresh after it.
DbErrorCompensated(r) ==
    /\ "db" \in Hazards
    /\ pc[r] \in {"create", "refresh"}
    /\ GoTo(r, "compensate")
    /\ UNCHANGED <<table, orders, req, attemptNo, row>>

\* revert_to_pending fails: the exception is logged and the record stays.
DbErrorSwallowed(r) ==
    /\ "db" \in Hazards
    /\ pc[r] \in {"revertLoad", "revertWrite"}
    /\ Finish(r, "ExternalServiceError")
    /\ UNCHANGED <<table, orders, req, attemptNo, row>>

Cancel(r) ==
    /\ "cancel" \in Hazards
    /\ InFlight(r)
    /\ Finish(r, "Lost")
    /\ UNCHANGED <<table, orders, req, attemptNo, row>>

Restart ==
    /\ "crash" \in Hazards
    /\ orders' = [o \in Orders |-> NewOrder]
    /\ pc' = [r \in Requests |-> IF InFlight(r) THEN "done" ELSE pc[r]]
    /\ outcome' = [r \in Requests |-> IF InFlight(r) THEN "Lost" ELSE outcome[r]]
    /\ UNCHANGED <<table, req, attemptNo, row>>

-----------------------------------------------------------------------------
AssignStep(r) ==
    \/ HasPendingDispatch(r) \/ GetLatestAttemptNo(r) \/ MarkOrderDispatched(r)
    \/ CreateDispatch(r) \/ RefreshCreated(r) \/ SafeMarkOrderPending(r)

ConfirmStep(r) ==
    \/ GetById(r) \/ LoadForResponse(r) \/ CommitResponse(r)
    \/ RefreshUpdated(r) \/ TellOrder(r) \/ LoadForRevert(r) \/ CommitRevert(r)

DbError(r) ==
    DbErrorSurfaces(r) \/ DbErrorCompensated(r) \/ DbErrorSwallowed(r)

Start(r) == RefuseBlank(r) \/ StartAssign(r) \/ StartConfirm(r)

\* Every request has been sent and answered.
Finished == (\A r \in Requests : pc[r] = "done") /\ UNCHANGED vars

Next ==
    \/ \E r \in Requests :
         Start(r) \/ AssignStep(r) \/ ConfirmStep(r) \/ DbError(r) \/ Cancel(r)
    \/ Restart
    \/ Finished

Spec == Init /\ [][Next]_vars

\* The event loop runs a coroutine whose await is over, and every await on
\* the database or the order service is over some time.
Fairness == \A r \in Requests : WF_vars(AssignStep(r) \/ ConfirmStep(r))

FairSpec == Spec /\ Fairness

-----------------------------------------------------------------------------
(* Properties                                                              *)

\* An order's attempt numbers are 1, 2, ... without a gap, and no two of its
\* records share one: get_latest_attempt_no is read long before the INSERT,
\* and only the unique constraint stands between two readers of one number.
HistoryNumbered ==
    /\ \A o \in Orders : Attempts(table, o) = 1..LatestAttemptNo(table, o)
    /\ \A d, e \in DOMAIN table :
          (table[d].order = table[e].order /\ table[d].attempt = table[e].attempt)
              => d = e

Answers(r, d) ==
    /\ req[r].kind = "confirm"
    /\ req[r].dispatch = d
    /\ req[r].worker = table[d].worker

\* Whatever a record says about its answer, the worker it is assigned to has
\* sent: its status, and its reject reason, come from one of that worker's
\* own responses to that dispatch.
AnswersAreGenuine ==
    \A d \in DOMAIN table :
        /\ table[d].status # "PENDING" =>
             \E r \in Requests : Answers(r, d)
                               /\ Verdict(req[r].response) = table[d].status
        /\ table[d].reason # None =>
             \E r \in Requests : Answers(r, d) /\ req[r].response = "REJECT"
                               /\ req[r].reason = table[d].reason

\* No order waits for two workers: has_pending_dispatch is the only guard
\* and it is evaluated three awaits before the record is inserted.
AtMostOnePending ==
    \A o \in Orders : \A d, e \in PendingOf(table, o) : d = e

\* A record is PENDING exactly while it has no response time, and only a
\* REJECTED record carries a reason: update and revert write column by
\* column, so this is the work of every flush in the right order.
RowWellFormed ==
    \A d \in DOMAIN table :
        /\ (table[d].status = "PENDING") = (table[d].responded = None)
        /\ (table[d].status = "REJECTED") = (table[d].reason # None)

\* A dispatch is answered once: no two responses to it are both told "ok".
AnsweredOnce ==
    \A r, s \in Requests :
        (/\ req[r].kind = "confirm" /\ req[s].kind = "confirm"
         /\ req[r].dispatch = req[s].dispatch
         /\ outcome[r] = "ok" /\ outcome[s] = "ok") => r = s

\* The record returned to a worker shows the worker's own answer, although it
\* is read again after the commit, in a transaction of its own.
ReplyIsOwnAnswer ==
    \A r \in Requests :
        (req[r].kind = "confirm" /\ outcome[r] = "ok") =>
            /\ row[r].status = Verdict(req[r].response)
            /\ row[r].responded = r
            /\ row[r].reason = req[r].reason

\* The order service hears that an order is confirmed only when the
\* acceptance is already in the table: commit first, tell afterwards.
ConfirmFollowsAcceptance ==
    [][\A o \in Orders :
         (orders'[o].status = "WORKER_CONFIRMED" /\ orders[o] # orders'[o]) =>
             \E d \in RowsOf(table, o) : /\ table[d].status = "ACCEPTED"
                                         /\ table[d].worker = orders'[o].worker
      ]_vars

Quiet(o) == \A r \in Requests : InFlight(r) => OrderOf(req[r]) # o

\* The order service says of order o what its latest dispatch record says.
Agree(o) ==
    \A d \in RowsOf(table, o) :
        table[d].attempt = LatestAttemptNo(table, o) =>
            orders[o] = OrderStateFor(table[d])

\* The two stores agree: when nobody works on an order, the order service
\* says of it what its latest dispatch record says.
OrderAgreesWhenQuiet == \A o \in Orders : Quiet(o) => Agree(o)

\* No silent disagreement: whatever an earlier request on the order left
\* behind (a compensation that failed too, a handler that was cancelled), at
\* the moment a caller is told "ok" the two stores agree about its order.
OkMeansStoresAgree ==
    [][\A r \in Requests :
         (outcome[r] # "ok" /\ outcome'[r] = "ok") => Agree(OrderOf(req[r]))'
      ]_vars

\* An assignment answered "failed and has been compensated" left no record.
CompensatedAssignLeavesNoRow ==
    \A r \in Requests :
        (req[r].kind = "assign" /\ outcome[r] = "ExternalServiceError")
            => r \notin DOMAIN table

\* An order that says it waits for a worker's confirmation does not say so
\* for ever without a dispatch that a worker could confirm.
Stranded(o) ==
    /\ orders[o].status = "DISPATCH_PENDING_CONFIRM"
    /\ PendingOf(table, o) = {}

OrderNotStranded == \A o \in Orders : Stranded(o) ~> ~Stranded(o)

-----------------------------------------------------------------------------
(* The records implement the history                                       *)

History == INSTANCE DispatchHistory
               WITH history <- [o \in Orders |-> HistoryOf(table, o)]

\* Under every hazard, each step appends one attempt to one order's history,
\* restates one status, or leaves every history alone.
ImplementsHistory == History!Spec

\* The table as if every request in flight had taken effect in one step: an
\* assignment when the order is marked, a response when the order service has
\* heard it.
Marked == {r \in Requests : pc[r] = "create"}

Unheard == {req[r].dispatch : r \in {s \in Requests :
               pc[s] \in {"reload", "tell", "revertLoad", "revertWrite"}}}

EffectiveTable ==
    [d \in DOMAIN table \cup Marked |->
        IF d \in Marked THEN NewRow(req[d].order, attemptNo[d], req[d].worker)
        ELSE IF d \in Unheard THEN Reverted(table[d])
        ELSE table[d]]

Contract == INSTANCE DispatchContract
                WITH history <- [o \in Orders |-> HistoryOf(EffectiveTable, o)],
                     service <- orders

\* Requests for different orders interleave and order calls may be refused,
\* yet each request is one step of the contract, or none: the two stores
\* change as one.
ImplementsContract == Contract!Spec
=============================================================================
