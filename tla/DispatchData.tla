---------------------------- MODULE DispatchData ----------------------------
(***************************************************************************)
(* The data every part of the dispatch service shares: dispatch records,   *)
(* what the order service keeps about an order, the two requests that      *)
(* change state, and the questions a repository answers about its records. *)
(*                                                                         *)
(* Strings (ids, reasons) are model values: nothing depends on their       *)
(* letters, and an id that is blank after strip() never gets further than  *)
(* _normalize_required.  operator_id, assigned_at, created_at and          *)
(* updated_at are written once and never read by the code modelled here,   *)
(* so they are left out.                                                   *)
(***************************************************************************)
EXTENDS Naturals, FiniteSetsExt

CONSTANTS
    Orders,     \* order ids
    Workers,    \* worker ids
    Reasons,    \* reject reasons that are not blank
    Requests,   \* the state-changing requests that clients send; a request
                \* names the uuid4 of the record it creates and the instant
                \* datetime.now() at which it answers a dispatch
    NoSuchId,   \* a dispatch id the repository never handed out
    None        \* Python's None

ASSUME DataAssumption ==
    /\ None \notin Orders \cup Workers \cup Reasons \cup Requests
    /\ NoSuchId \notin Requests

-----------------------------------------------------------------------------
(* Dispatch records                                                        *)

Statuses == {"PENDING", "ACCEPTED", "REJECTED"}

Responses == {"ACCEPT", "REJECT"}

Row == [order: Orders, attempt: Nat \ {0}, worker: Workers, status: Statuses,
        responded: Requests \cup {None}, reason: Reasons \cup {None}]

\* A record as create_dispatch builds it.
NewRow(o, k, w) ==
    [order |-> o, attempt |-> k, worker |-> w, status |-> "PENDING",
     responded |-> None, reason |-> None]

\* Mutant of Verdict: the response itself is stored.
VerdictVerbatim(response) == response

\* The status that a worker's response asks for.
Verdict(response) == IF response = "ACCEPT" THEN "ACCEPTED" ELSE "REJECTED"

\* Mutant of Answered: the status is not assigned.
AnsweredKeepsStatus(x, r, response, reason) ==
    [x EXCEPT !.responded = r, !.reason = reason]

\* Record x after update_worker_response on behalf of request r.
Answered(x, r, response, reason) ==
    [x EXCEPT !.status = Verdict(response), !.responded = r, !.reason = reason]

\* Mutants of Reverted: one column is forgotten.
RevertedKeepsReason(x) == [x EXCEPT !.status = "PENDING", !.responded = None]

RevertedKeepsStatus(x) == [x EXCEPT !.responded = None, !.reason = None]

\* Record x after revert_to_pending.
Reverted(x) ==
    [x EXCEPT !.status = "PENDING", !.responded = None, !.reason = None]

(* The questions a repository answers about its records t                  *)

RowsOf(t, o) == {d \in DOMAIN t : t[d].order = o}

PendingOf(t, o) == {d \in RowsOf(t, o) : t[d].status = "PENDING"}

Attempts(t, o) == {t[d].attempt : d \in RowsOf(t, o)}

LatestAttemptNo(t, o) == Max(Attempts(t, o) \cup {0})

Insert(t, d, x) ==
    [e \in DOMAIN t \cup {d} |-> IF e = d THEN x ELSE t[e]]

\* What list_by_order returns, reduced to what the abstract
\* specifications DispatchHistory and DispatchContract speak of.
HistoryOf(t, o) ==
    [k \in Attempts(t, o) |->
        LET d == CHOOSE d \in RowsOf(t, o) : t[d].attempt = k
        IN  [worker |-> t[d].worker, status |-> t[d].status]]

-----------------------------------------------------------------------------
(* What the order service keeps about an order                             *)

OrderStatuses == {"NEW", "DISPATCH_PENDING_CONFIRM", "PENDING_REASSIGNMENT",
                  "WORKER_CONFIRMED"}

OrderState == [status: OrderStatuses, worker: Workers \cup {None}]

NewOrder == [status |-> "NEW", worker |-> None]

Dispatched(w) == [status |-> "DISPATCH_PENDING_CONFIRM", worker |-> w]

Unassigned == [status |-> "PENDING_REASSIGNMENT", worker |-> None]

Confirmed(w) == [status |-> "WORKER_CONFIRMED", worker |-> w]

\* What the order service must say of an order whose latest record is x.
OrderStateFor(x) ==
    CASE x.status = "PENDING" -> Dispatched(x.worker)
      [] x.status = "ACCEPTED" -> Confirmed(x.worker)
      [] x.status = "REJECTED" -> Unassigned

-----------------------------------------------------------------------------
(* The two requests that change state.  Both have the same fields; an      *)
(* assignment carries no dispatch id, a response no order id.              *)

NoRequest == [kind |-> "none", order |-> None, dispatch |-> None,
              worker |-> None, response |-> "REJECT", reason |-> None]

AssignRequest(o, w) ==
    [NoRequest EXCEPT !.kind = "assign", !.order = o, !.worker = w]

ConfirmRequest(d, w, response, reason) ==
    [kind |-> "confirm", order |-> None, dispatch |-> d, worker |-> w,
     response |-> response, reason |-> reason]

Request == [kind: {"none", "assign", "confirm"}, order: Orders \cup {None},
            dispatch: Requests \cup {NoSuchId, None},
            worker: Workers \cup {None},
            response: Responses, reason: Reasons \cup {None}]

\* How a request ended: "ok", the exception its caller got ("DBAPIError" is
\* the driver's, which no except clause of the service names), or "Lost" when
\* the handler was cancelled and nobody is there to be told.
Outcomes == {"none", "ok", "ValidationError", "NotFoundError", "ConflictError",
             "ExternalServiceError", "DBAPIError", "Lost"}

\* Mutants of ConfirmCheck: one check is dropped.
ConfirmCheckAnyWorker(t, q) ==
    IF q.dispatch \notin DOMAIN t THEN "NotFoundError"
    ELSE IF t[q.dispatch].status # "PENDING" THEN "ConflictError"
    ELSE IF (q.response = "REJECT") # (q.reason # None) THEN "ValidationError"
    ELSE "ok"

ConfirmCheckAnyStatus(t, q) ==
    IF q.dispatch \notin DOMAIN t THEN "NotFoundError"
    ELSE IF t[q.dispatch].worker # q.worker THEN "ValidationError"
    ELSE IF (q.response = "REJECT") # (q.reason # None) THEN "ValidationError"
    ELSE "ok"

\* The checks confirm_worker_response makes on the record it has read, in
\* their order; "ok" when the response may be written.
ConfirmCheck(t, q) ==
    IF q.dispatch \notin DOMAIN t THEN "NotFoundError"
    ELSE IF t[q.dispatch].worker # q.worker THEN "ValidationError"
    ELSE IF t[q.dispatch].status # "PENDING" THEN "ConflictError"
    ELSE IF (q.response = "REJECT") # (q.reason # None) THEN "ValidationError"
    ELSE "ok"
=============================================================================
