--------------------------- MODULE DispatchServer ---------------------------
(***************************************************************************)
(* The two transports in front of DispatchService, with the in-memory      *)
(* store and the mock clients behind it: who may call what, in which order *)
(* a request is checked, what reaches the service, and which code the      *)
(* caller is answered.  A request is one action, as in DispatchInMemory.   *)
(*                                                                         *)
(* Text is Empty (missing, or ""), Blank (white space, which passes a      *)
(* length check and is nothing after strip()), or a value that means       *)
(* something.  ListDispatches is modelled in DispatchListing.              *)
(***************************************************************************)
EXTENDS DispatchInMemory, Integers, SequencesExt

CONSTANTS
    Clerks,         \* user ids that are no worker's
    Callers,        \* the identities in use: records of a user and a role
    Schedule,       \* MockWorkerScheduleClient._workers, in its order:
                    \* records of a worker, its skills and its region
    Filters,        \* what clients filter it by: pairs of a skill and a region
    DefaultLimit,   \* 20 in the code
    MaxLimit,       \* 100 in the code
    Limits,         \* the limits that clients send
    Empty, Blank

Nothing == {Empty, Blank}

Users == Workers \cup Clerks

Roles == {"customer_service", "worker", "admin", "guest"}

ASSUME ServerAssumption ==
    /\ Nothing \cap (Users \cup Orders \cup Requests \cup Reasons \cup {None, NoSuchId}) = {}
    /\ Callers \subseteq [user: Users \cup Nothing, role: Roles \cup Nothing]
    /\ Schedule \in Seq(Range(Schedule))
    /\ \A x \in Range(Schedule) : x.worker \in Workers
    /\ Limits \subseteq Int /\ MaxLimit \in Nat /\ DefaultLimit \in 1..MaxLimit

VARIABLES
    scheduleFails,  \* "list_available_workers" \in MockWorkerScheduleClient._fail_next
    shown,          \* what the last answer listed: places in the schedule, or
                    \* ids of records
    screen,         \* what each user's app shows: the answer to its last
                    \* poll, less what that user has answered since
    last,           \* the last request and the code it was answered: its
                    \* parameters unless it was malformed or not allowed,
                    \* its caller if it is a write
    acked           \* every write that was answered as done, with the dispatch
                    \* it wrote; it only observes

serverVars == <<vars, scheduleFails, shown, screen, last, acked>>

NoCall == [via |-> "none", rpc |-> "none", caller |-> None, query |-> None,
           code |-> "none"]

ServerInit ==
    /\ Init
    /\ scheduleFails = FALSE
    /\ shown = <<>>
    /\ screen = [u \in Users |-> {}]
    /\ last = NoCall
    /\ acked = {}

-----------------------------------------------------------------------------
(* DispatchService, as the transports call it                              *)

\* _normalize_required lets x through.
Present(x) == x \notin Nothing

NormalizeOptional(x) == IF Present(x) THEN x ELSE None

\* The service returned or raised result, and changed nothing.
Returns(result, rows) ==
    /\ reply' = result
    /\ shown' = rows
    /\ UNCHANGED <<store, orders, failNext, scheduleFails, screen>>

\* The members of S in the order of their keys.
SortedBy(key, S) ==
    CHOOSE p \in SetToSeqs(S) : \A i, j \in DOMAIN p : i < j => key[p[i]] <= key[p[j]]

\* The places in the schedule that pass both filters (None: no filter).  All are
\* AVAILABLE, as the service never calls reserve_worker.
Matching(skill, region) ==
    {i \in DOMAIN Schedule : /\ skill = None \/ skill \in Schedule[i].skills
                             /\ region = None \/ region = Schedule[i].region}

\* Python's rows[: max(limit, 0)].
FirstRows(rows, limit) == SubSeq(rows, 1, Min({Max({limit, 0}), Len(rows)}))

\* Mutant of NormalizedLimit: the caller's limit is taken as it is.
NormalizedLimitVerbatim(limit) == limit

NormalizedLimit(limit) == IF limit > 0 THEN limit ELSE DefaultLimit

ListAvailableWorkers(skill, region, limit) ==
    LET n == NormalizedLimit(limit)
        rows == SortedBy([i \in DOMAIN Schedule |-> i],
                         Matching(NormalizeOptional(skill), NormalizeOptional(region)))
    IN
      \/ n > MaxLimit /\ Returns("ValidationError", <<>>)
      \/ /\ n <= MaxLimit /\ scheduleFails
         /\ scheduleFails' = FALSE
         /\ reply' = "ExternalServiceError"
         /\ shown' = <<>>
         /\ UNCHANGED <<store, orders, failNext, screen>>
      \/ n <= MaxLimit /\ ~scheduleFails /\ Returns("ok", FirstRows(rows, n))

AssignOrder(o, w) ==
    \/ ~(Present(o) /\ Present(w)) /\ Returns("ValidationError", <<>>)
    \/ /\ Present(o) /\ Present(w)
       /\ ManualAssignOrder(o, w)
       /\ shown' = <<>>
       /\ UNCHANGED <<scheduleFails, screen>>

PendingByWorker(u) ==
    {d \in DOMAIN store : store[d].worker = u /\ store[d].status = "PENDING"}

ListWorkerPending(u) ==
    /\ reply' = "ok"
    /\ shown' = <<>>
    /\ screen' = [screen EXCEPT ![u] = PendingByWorker(u)]
    /\ UNCHANGED <<store, orders, failNext, scheduleFails>>

Respond(d, u, response, reason) ==
    \/ ~Present(d) /\ Returns("ValidationError", <<>>)
    \/ /\ Present(d)
       /\ ConfirmWorkerResponse(d, u, response, NormalizeOptional(reason))
       /\ shown' = <<>>
       /\ screen' = [screen EXCEPT ![u] = IF reply' = "ok" THEN @ \ {d} ELSE @]
       /\ UNCHANGED scheduleFails

\* Mutant of History: the newest attempt comes first.
HistoryNewestFirst(o) ==
    SortedBy([d \in DOMAIN store |-> -store[d].attempt], RowsOf(store, o))

History(o) ==
    SortedBy([d \in DOMAIN store |-> store[d].attempt], RowsOf(store, o))

GetHistory(o) ==
    \/ ~Present(o) /\ Returns("ValidationError", <<>>)
    \/ Present(o) /\ Returns("ok", History(o))

Writes == {"assign", "respond"}

\* The codes of a request that was malformed or not allowed.
Refusals == {"INVALID_ARGUMENT", "UNAUTHENTICATED", "PERMISSION_DENIED",
             "400", "401", "422"}

Done == {"OK", "200", "201"}

\* The dispatches that the request wrote.
Written == {d \in DOMAIN store' : d \notin DOMAIN store \/ store'[d] # store[d]}

Answer(via, rpc, c, query, code) ==
    /\ last' = [via |-> via, rpc |-> rpc,
                caller |-> IF rpc \in Writes /\ code \notin Refusals THEN c ELSE None,
                query |-> IF code \notin Refusals THEN query ELSE None,
                code |-> code]
    /\ acked' = IF code \notin Done THEN acked
                ELSE acked \cup {[query |-> query, dispatch |-> d] : d \in Written}

\* The request is turned away before the service sees it.
TurnedAway(via, rpc, code) == Returns("none", <<>>) /\ Answer(via, rpc, None, None, code)

-----------------------------------------------------------------------------
(* gRPC: DispatchGrpcService                                               *)

\* Mutant of Translated: a handler that writes does not catch ConflictError.
TranslatedNoConflict(rpc) ==
    CASE rpc = "workers" -> {"ValidationError", "ExternalServiceError"}
      [] rpc \in Writes -> {"ValidationError", "NotFoundError", "ExternalServiceError"}
      [] rpc \in {"pending", "history"} -> {"ValidationError"}

\* What the except clauses of each handler catch.
Translated(rpc) ==
    CASE rpc = "workers" -> {"ValidationError", "ExternalServiceError"}
      [] rpc \in Writes -> {"ValidationError", "NotFoundError", "ConflictError",
                            "ExternalServiceError"}
      [] rpc \in {"pending", "history"} -> {"ValidationError"}

\* An exception that is not caught is answered UNKNOWN by the gRPC server.
GrpcCode(rpc, result) ==
    IF result \notin Translated(rpc) \cup {"ok"} THEN "UNKNOWN"
    ELSE CASE result = "ok" -> "OK"
           [] result = "ValidationError" -> "INVALID_ARGUMENT"
           [] result = "NotFoundError" -> "NOT_FOUND"
           [] result = "ConflictError" -> "FAILED_PRECONDITION"
           [] result = "ExternalServiceError" -> "UNAVAILABLE"

\* Mutant of Authorize: any role will do.
AuthorizeAnyRole(c, allowed) ==
    IF Present(c.user) /\ Present(c.role) THEN "OK" ELSE "UNAUTHENTICATED"

Authorize(c, allowed) ==
    IF ~(Present(c.user) /\ Present(c.role)) THEN "UNAUTHENTICATED"
    ELSE IF c.role \notin allowed THEN "PERMISSION_DENIED"
    ELSE "OK"

\* An RPC: nothing is parsed or looked up for a caller _authorize turns away.
Grpc(rpc, allowed, c, query, Serve) ==
    LET verdict == Authorize(c, allowed) IN
      \/ verdict # "OK" /\ TurnedAway("grpc", rpc, verdict)
      \/ /\ verdict = "OK" /\ Serve
         /\ Answer("grpc", rpc, c, query, GrpcCode(rpc, reply'))

Staff == {"customer_service", "admin"}

Crew == {"worker", "admin"}

\* An at_time that does not parse is a ValueError, answered like a ValidationError.
\* The limit 0 is protobuf's unset.
GrpcListAvailableWorkers(c, skill, region, limit, parses) ==
    Grpc("workers", Staff, c, <<skill, region>>,
         \/ ~parses /\ Returns("ValidationError", <<>>)
         \/ /\ parses
            /\ ListAvailableWorkers(skill, region, IF limit = 0 THEN DefaultLimit ELSE limit))

GrpcManualAssignOrder(c, o, w) ==
    Grpc("assign", Staff, c, AssignRequest(o, w), AssignOrder(o, w))

GrpcListWorkerPendingDispatches(c) ==
    Grpc("pending", Crew, c, None, ListWorkerPending(c.user))

\* A response that is neither ACCEPT nor REJECT is a ValueError as well.
GrpcConfirmWorkerResponse(c, d, response, reason) ==
    Grpc("respond", Crew, c, ConfirmRequest(d, c.user, response, reason),
         \/ response \notin Responses /\ Returns("ValidationError", <<>>)
         \/ response \in Responses /\ Respond(d, c.user, response, reason))

GrpcGetOrderDispatchHistory(c, o) == Grpc("history", Staff, c, o, GetHistory(o))

-----------------------------------------------------------------------------
(* HTTP: build_router and the exception handlers of create_http_app        *)

\* The handlers are installed for the application: one table for every route.
HttpCode(result, success) ==
    CASE result = "ok" -> success
      [] result = "ValidationError" -> "400"
      [] result = "NotFoundError" -> "404"
      [] result = "ConflictError" -> "409"
      [] result = "ExternalServiceError" -> "503"

\* No handler looks at the role.
Http(rpc, u, query, Serve, success) ==
    /\ Serve
    /\ Answer("http", rpc, [user |-> u, role |-> None], query, HttpCode(reply', success))

\* _require_user_id_header.
Identified(rpc, u, Handler) ==
    \/ ~Present(u) /\ TurnedAway("http", rpc, "401")
    \/ Present(u) /\ Handler

\* FastAPI checks payload and query before the handler runs.
Validated(rpc, valid, Handler) ==
    \/ ~valid /\ TurnedAway("http", rpc, "422")
    \/ valid /\ Handler

HttpListAvailableWorkers(skill, region, limit, parses) ==
    Validated("workers", parses /\ limit \in 1..MaxLimit,
        Http("workers", None, <<skill, region>>,
             ListAvailableWorkers(skill, region, limit), "200"))

HttpManualAssign(u, o, w) ==
    Validated("assign", Empty \notin {o, w},
        Identified("assign", u,
            Http("assign", u, AssignRequest(o, w), AssignOrder(o, w), "201")))

HttpListPendingDispatches(u) ==
    Identified("pending", u, Http("pending", u, None, ListWorkerPending(u), "200"))

HttpConfirmWorkerResponse(u, d, response, reason) ==
    Validated("respond", response \in Responses,
        Identified("respond", u,
            Http("respond", u, ConfirmRequest(d, u, response, reason),
                 Respond(d, u, response, reason), "200")))

HttpGetOrderHistory(o) == Http("history", None, o, GetHistory(o), "200")

-----------------------------------------------------------------------------

\* A mock client is told to fail, one method at a time.
Fault ==
    /\ failNext = {} /\ ~scheduleFails
    /\ \/ (\E m \in OrderMethods : FailNext(m)) /\ UNCHANGED scheduleFails
       \/ scheduleFails' = TRUE /\ UNCHANGED vars
    /\ UNCHANGED <<shown, screen, last, acked>>

\* What a client may write where a response is expected.
Answers == Responses \cup {"UNSPECIFIED"}

\* When at_time does not parse, the other parameters do not matter.
GrpcRequest(c) ==
    \/ \E f \in Filters, limit \in Limits :
          GrpcListAvailableWorkers(c, f[1], f[2], limit, TRUE)
    \/ GrpcListAvailableWorkers(c, None, None, 0, FALSE)
    \/ \E o \in Orders \cup Nothing, w \in Workers \cup Nothing : GrpcManualAssignOrder(c, o, w)
    \/ GrpcListWorkerPendingDispatches(c)
    \/ \E d \in DOMAIN store \cup {NoSuchId, Blank}, response \in Answers,
          reason \in Reasons \cup Nothing :
          GrpcConfirmWorkerResponse(c, d, response, reason)
    \/ \E o \in Orders \cup {Blank} : GrpcGetOrderDispatchHistory(c, o)

AnonymousHttpRequest ==
    \/ \E f \in Filters, limit \in Limits :
          HttpListAvailableWorkers(f[1], f[2], limit, TRUE)
    \/ HttpListAvailableWorkers(None, None, DefaultLimit, FALSE)
    \/ \E o \in Orders \cup {Blank} : HttpGetOrderHistory(o)

HttpRequest(u) ==
    \/ \E o \in Orders \cup Nothing, w \in Workers \cup Nothing : HttpManualAssign(u, o, w)
    \/ HttpListPendingDispatches(u)
    \/ \E d \in DOMAIN store \cup {NoSuchId, Blank}, response \in Answers,
          reason \in Reasons \cup Nothing :
          HttpConfirmWorkerResponse(u, d, response, reason)

ServerNext ==
    \/ Fault
    \/ \E c \in Callers : GrpcRequest(c)
    \/ AnonymousHttpRequest
    \/ \E u \in {c.user : c \in Callers} : HttpRequest(u)

ServerSpec == ServerInit /\ [][ServerNext]_serverVars

-----------------------------------------------------------------------------
(* Properties                                                              *)

ServerTypeOK ==
    /\ TypeOK
    /\ scheduleFails \in BOOLEAN
    /\ screen \in [Users -> SUBSET Requests]
    /\ last.code \in Done \cup
          {"none", "UNAUTHENTICATED", "PERMISSION_DENIED", "INVALID_ARGUMENT",
           "NOT_FOUND", "FAILED_PRECONDITION", "UNAVAILABLE", "UNKNOWN",
           "400", "401", "404", "409", "422", "503"}

\* Whatever is sent over whichever transport, the two stores change only for
\* an identified caller whose request succeeded, over gRPC only for a role the
\* RPC admits, and the answer to a dispatch changes only for its own worker.
WritesAreAuthorised ==
    [][UNCHANGED <<store, orders>> \/
         /\ last'.code \in Done
         /\ Present(last'.caller.user)
         /\ last'.via = "grpc" =>
               last'.caller.role \in (IF last'.rpc = "assign" THEN Staff ELSE Crew)
         /\ \A d \in DOMAIN store :
               store'[d] # store[d] => last'.caller.user = store[d].worker
      ]_serverVars

\* A write that was answered as done has effect once, however late it is sent
\* again, over whichever transport and whatever anybody sent in between: a response
\* always, an assignment while the dispatch it created waits for its worker.  Once
\* that has been answered, nothing tells the retry from a new request (there is no
\* request id), and it creates another dispatch.
RetriedWriteChangesNothing ==
    [][UNCHANGED <<store, orders>> \/
         \A e \in acked :
            last'.query = e.query =>
               last'.rpc = "assign" /\ store[e.dispatch].status # "PENDING"
      ]_serverVars

\* What a worker's app shows can be answered: however old the poll and whatever
\* others have sent since, each dispatch on the screen exists, is the worker's
\* own and is PENDING until the worker answers it.
ScreenStaysAnswerable == \A u \in Users : screen[u] \subseteq PendingByWorker(u)

\* The code tells the caller how things are: done means that the stores hold
\* what was asked for, a conflict that another dispatch or answer stands in the
\* way, not found that there is no such dispatch; and no handler lets an exception
\* through that has a code of its own.
CodesTellTheTruth ==
    LET q == last.query
        Is(rpc, codes) == last.rpc = rpc /\ last.code \in codes
    IN
      /\ Is("assign", Done) => /\ orders[q.order] = Dispatched(q.worker)
                               /\ \E d \in PendingOf(store, q.order) :
                                     PendingOf(store, q.order) = {d} /\ store[d].worker = q.worker
      /\ Is("assign", {"409", "FAILED_PRECONDITION"}) => PendingOf(store, q.order) # {}
      /\ Is("respond", Done) =>
            /\ store[q.dispatch].status = Verdict(q.response)
            /\ orders[store[q.dispatch].order] = OrderStateFor(store[q.dispatch])
      /\ Is("respond", {"409", "FAILED_PRECONDITION"}) =>
            store[q.dispatch].status # "PENDING" /\ store[q.dispatch].worker = q.worker
      /\ last.code \in {"404", "NOT_FOUND"} =>
            last.rpc = "respond" /\ q.dispatch \notin DOMAIN store
      /\ last.code # "UNKNOWN"

\* An empty list of workers means that nobody fits: leaving the limit out, or
\* sending one that makes no sense, does not hide the workers there are.
EmptyMeansNobody ==
    (last.rpc = "workers" /\ last.code \in Done /\ shown = <<>>) =>
        Matching(NormalizeOptional(last.query[1]), NormalizeOptional(last.query[2])) = {}

\* A history tells whether its order can be assigned: the attempts come in
\* order, and only the last of them may still be waiting.
HistoryEndsWithTheOpenDispatch ==
    (last.rpc = "history" /\ last.code \in Done) =>
        LET waiting == {i \in DOMAIN shown : store[shown[i]].status = "PENDING"}
        IN  /\ waiting \subseteq {Len(shown)}
            /\ (waiting # {}) = HasPending(last.query)

\* As the documentation has it, nobody is assigned whom the schedule does not
\* list: an unknown worker is answered 404, one who is not available 409.
AssignedWorkerIsListed ==
    \A d \in DOMAIN store : \E x \in Range(Schedule) : x.worker = store[d].worker
=============================================================================
