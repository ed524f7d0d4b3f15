# Verification of the HSP dispatch service

TLA+ models of `hsp_dispatch_service`, checked with TLC and, for the results
that matter most, proved with TLAPS. The service assigns orders to workers:
customer service assigns an order (`manual_assign_order`), the worker accepts
or rejects (`confirm_worker_response`), and a rejected order is assigned again
as the next attempt. It keeps its own records in a database and mirrors the
state of each order in another service, without a transaction that spans both.

## Inventory

| component | state | operations | interacts with |
|---|---|---|---|
| `service/dispatch_service.py` DispatchService | none of its own; locals of the running handlers | `manual_assign_order`, `confirm_worker_response`, four read-only listings | awaits the repository and the order client; two transports call it concurrently on one event loop |
| `repository/mysql.py` SQLAlchemyDispatchRepository | table `dispatch_records`, unique on (`order_id`, `attempt_no`) | has-pending, latest attempt, create, get, answer, revert, lists | one session and transaction per call, several statements in some |
| `repository/in_memory.py` InMemoryDispatchRepository | a dict of records | the same | never suspends |
| `integration/` order client (mock wired in every deployment) | status and worker per order, in the process | `mark_order_dispatched`, `mark_order_pending_assignment`, `mark_order_confirmed` | any call may raise |
| `integration/` worker-schedule client | worker status, reservations | list, reserve, release | only `list_available_workers` is ever called |
| `transport/grpc`, `transport/http` | none | authenticate, call the service, map exceptions to status codes | a disconnecting gRPC client cancels the handler |
| `main.py`, `bootstrap/` | two servers, the engine | start, wait for the first to end, stop | a restart loses the mock order client's state |
| `logging.py`, `config.py`, `infrastructure/db.py` | none | formatting and redaction; settings; engine | |

What is hard here is that each handler is a sequence of awaits with no lock and
no transaction around it: other handlers run between any two of its steps, each
of its calls may fail, it may be cancelled at each await, and the compensations
are calls that may fail too. What makes each component correct:

- **records**: attempts numbered without gap or duplicate; one pending record
  per order; a record answered once, by its own worker; status, response time
  and reject reason consistent;
- **two stores**: the order service says what the latest record says once
  nobody works on the order; no order waits for a confirmation nobody can give;
- **compensation**: a call that raises leaves nothing behind;
- **queries**: paging misses no record, an empty list means that there is none;
- **transports**: nothing changes but for an authorised caller, what callers
  are told is so, a write sent again has no second effect while the first is
  open;
- **lifecycle**: what was started is stopped, no handler outlives the engine,
  and the process does not go on with half of its servers.

`PROJECT.json` lists every hazard at its line, with the properties that would
notice it going wrong.

## Modules

| module | models |
|---|---|
| `DispatchData` | records, order states, requests, the repository's questions, the checks of `confirm_worker_response` |
| `DispatchSql` | the service over SQL and the order client; one action per await |
| `DispatchHistory` | abstract: an append-only history per order, whose entries may only restate their status |
| `DispatchInMemory` | the service over the in-memory store and the mock order client; one action per request |
| `DispatchContract` | abstract: what each request does when it runs by itself |
| `DispatchServer` | both transports in front of `DispatchInMemory` (which it extends): identity, roles, checks, codes, retries |
| `DispatchListing` | `list_dispatches`, and a client that pages while records are inserted, over either store and transport |
| `ServerLifecycle` | `main.run`: start, the first server to end, stop, and the calls in progress |
| `MC...` | an instance of each for TLC |
| `DispatchDataProofs` | lemmas about records and histories that the next modules share |
| `DispatchSqlProofs` | proofs for every `Hazards`: typing, numbering, genuine answers |
| `DispatchSqlSerialProofs` | proofs without `"overlap"`: one pending record, consistent rows and stores |
| `DispatchSqlRefinementProofs` | `DispatchSql` implements `DispatchHistory` and `DispatchContract` |
| `DispatchInMemoryProofs` | the in-memory deployment: all its properties, and `DispatchContract` |
| `DispatchServerProofs` | the transports: all their properties, and `DispatchContract` once more |
| `DispatchListingProofs` | what a client that pages can rely on: all properties of the listing |
| `ServerLifecycleProofs` | the safety of start and stop |

### DispatchSql

A request `r` is a coroutine. `pc[r]` names the await it is suspended at; an
action is the result of that await and the branching up to the next one. So
`HasPendingDispatch`, `GetLatestAttemptNo`, `MarkOrderDispatched`,
`CreateDispatch`, `RefreshCreated` are `manual_assign_order` and
`create_dispatch` in order, with `SafeMarkOrderPending` as the compensation;
`GetById`, `LoadForResponse`, `CommitResponse`, `RefreshUpdated`, `TellOrder`
are `confirm_worker_response`, with `LoadForRevert`, `CommitRevert` as the
compensation. `session.add` and `commit` are one action, as the INSERT is only
visible, and only fails, with them; the SELECT, the UPDATE and the `refresh`
after the commit are separate statements and separate actions. An UPDATE
writes only the columns that differ from the row its own session loaded
(`Flush`), as SQLAlchemy's unit of work does. A request also names the record
it creates (its uuid4) and the instant it answers at.

`Hazards` says what the environment may do, so that each run enables exactly
what its question is about: `"overlap"` (clients send requests for one order
concurrently), `"db"` (a statement raises), `"refuse"` (an order call raises
without effect: the mock's `_consume_fail`), `"lostack"` (an order call takes
effect and raises: what a remote order service behind the same protocol can
do; such a service may also raise what `manual_assign_order` hands on as it is,
`RaisedByMark`), `"cancel"` (the handler is cancelled; `CancelledError` is not an
`Exception`, so no except clause runs), `"crash"` (restart: the table stays,
the mock order client starts empty). A commit that takes effect and raises
needs no hazard of its own: it is the commit followed by a failing refresh.

Left out: `operator_id` and the other timestamps, which no modelled code reads;
log lines; `row is None` after a SELECT by id, as rows are never deleted;
the driver's isolation level, which makes no difference to single-row reads and
updates by primary key.

### DispatchInMemory and DispatchContract

Neither the dict nor the mock clients ever suspend, so a handler runs to its end
before another is scheduled and a request is one action. `failNext` is the
mock's `_fail_next`, by which tests make the next call of a method raise.
`create_dispatch` cannot fail here, so the compensation of
`manual_assign_order` is dead code in this deployment; `RevertToPending` is not.

`DispatchSql` implements `DispatchContract` too, as long as requests for one
order do not overlap and an order call that raises has no effect. The
refinement mapping is `EffectiveTable`: an assignment takes effect when the
order is marked, before its record is inserted, and a response when the order
service has heard it, after its record is updated. So an UPDATE followed by its
compensation is no step of the contract at all.

### DispatchServer

Five of the six operations, each over gRPC and HTTP, as one action per request
(over the in-memory store a request does not suspend); the sixth,
`list_dispatches`, is in `DispatchListing`. An action carries the checks in the
order the code makes them: gRPC looks at identity, then role, then content;
HTTP at the payload (FastAPI, 422), then at `x-user-id`, and at no role.
`ManualAssignOrder` and `ConfirmWorkerResponse` are those of `DispatchInMemory`,
so what happens behind the transports is not modelled a second time.

Each gRPC handler has its own `except` clauses: `Translated` is what each one
names, and an exception of the service that it does not name would reach the
caller as `UNKNOWN`, which `CodesTellTheTruth` rules out. HTTP's exception
handlers are installed for the whole application, so `HttpCode` is one table.

Text is `Empty` (missing or `""`), `Blank` (white space: it passes a length
check and is nothing after `strip()`) or a value. Four variables observe what
the outside sees: `last` is the last request and its code, `shown` the rows of
the last listing (places in the schedule, or ids of records), `screen` what each
worker's app shows since its last poll, `acked` every write that was answered as
done, with the dispatch it wrote. They restrict nothing.

`RetriedWriteChangesNothing` compares a request with every earlier entry of
`acked`, not only with the request just before: a client may send again at any
time, after anything. Requests carry no key, so the state of the record is all
that tells a retry from a new request. A response that is sent again therefore
never has a second effect; an assignment has none while the dispatch it created is
`PENDING`. When its worker has answered, the same assignment is a new request to
the code and creates the next attempt (`dispatch_service.py:64-83`): the property
excepts exactly this, and no document of the repository promises more.

One mock call at a
time is told to fail (`Fault`). `SortedBy` is Python's `sorted(..., key=...)`,
given by its result rather than by a way of computing it, which is also what the
proofs reason from; no two attempts of an order have the same key.

Behind `DispatchServer` is the in-memory store only: an exception of the driver
while a record is read (which reaches no `except` and becomes gRPC's `UNKNOWN`
or HTTP's 500) is an action of `DispatchSql`, but not a code here.

### DispatchListing

`records` is the sequence of `assigned_at` in order of insertion. Over SQL the
time is taken (`TakeTime`) before the record is inserted (`CreateDispatch`), so
records appear in the middle of the listing, and two may have the same time, as
the column keeps seconds; SQL orders equal times anew in every query
(`NewestFirst` is a set), Python's sort keeps them in order of insertion. The
client asks on from behind the records it has, until it gets none; `owed` is
what existed when it began. The role check in front of the RPC is the
`Authorize` of `DispatchServer` and is not repeated. The limits are scaled down
(default 1, maximum 2 for 100 and 500), and every limit from below to beyond the
range is sent.

### ServerLifecycle

`main` is where `main.run` is; one action per await. `call[c]` is a request on
its way through one of the servers. What the libraries do is assumed: uvicorn
stops accepting at a signal, answers the requests at hand and then raises the
signal again, which kills the process (SIGTERM), cancels the main task (SIGINT)
or does nothing, as when the process is a container's PID 1, so that `serve()`
returns; before and after `serve()` a SIGINT is `asyncio.run`'s and cancels the
main task at its await (`Interrupt`); `grpc.aio.Server.stop(grace)` refuses new
RPCs, waits for handlers and cancels those left when the grace is over; `asyncio.run` cancels what is left
and waits for it. Cancelling `grpc_task` ends the waiting for the server, not
the server.

Nothing guards the awaits of `main.py:47-49`. `StopGrpc` and `Dispose` may
therefore fail as well: an exception of theirs, a SIGINT, or a `stop` that fails
because the task that waited for the server was cancelled just before
(`main.py:43`; whether it does depends on the version of `grpc`, so both outcomes
are in the model). The process then ends with an error, the RPCs in their grace
are cancelled by `asyncio.run`, and the engine is not disposed. The safety
properties hold on these paths too; that a call may be cut there is what
`NoCallIsCutShort` concedes to an exit with an error. A call ends as `"gone"` when
its client hung up, as `"lost"` when the process cancelled it, so that
`CleanExitIsComplete` can say why each call was not answered.

## Runs

All runs use two workers and one reject reason (one that differs from `None` is
enough to tell a reason given, kept or forgotten). In the SQL runs a request's
outcome and record stay until the end, so the number of requests bounds the length of a
behaviour: three are an assignment and two overlapping answers, or two racing
assignments and an answer; four are assign, reject, assign, answer. Ids and
workers are symmetric; the run that checks liveness uses no symmetry.

| run | hazards | requests, orders | result |
|---|---|---|---|
| `sql_every_hazard` | all six | 3, 1 | `TypeOK`, `HistoryNumbered`, `AnswersAreGenuine` and the refinement `ImplementsHistory` hold whatever happens |
| `sql_serial_faults` | all but overlap and crash | 4, 1 | `AtMostOnePending`, `RowWellFormed`, `AnsweredOnce`, `ReplyIsOwnAnswer`, `ConfirmFollowsAcceptance` hold: the checks are sound when the requests for an order do not overlap, whatever fails; `OkMeansStoresAgree`: whoever is told ok may rely on both stores, even after faults that had left them apart |
| `sql_refusals` | refuse | 4, 2 | `OrderAgreesWhenQuiet`: the compensations restore agreement between the table and the order service; `ImplementsContract`: requests for different orders interleave, yet each is one step of `DispatchContract` or none |
| `sql_overlap_live` | overlap | 3, 1 | `OrderNotStranded`: the handler that lost the unique constraint releases the order |
| `in_memory` | order calls that raise | 3 records, 2 orders | `OrderAgrees`, `RaisingChangesNothing`, and the refinement `ImplementsContract` |
| `sql_two_pending` | overlap | 4, 1 | violates `AtMostOnePending` |
| `sql_answered_twice` | overlap | 3, 1 | violates `AnsweredOnce` |
| `sql_row_left_behind` | db | 3, 1 | violates `CompensatedAssignLeavesNoRow` |
| `server` | one mock call at a time fails; malformed, unauthorised, repeated requests | 2 records, 1 order, 4 callers | `WritesAreAuthorised`, `RetriedWriteChangesNothing`, `ScreenStaysAnswerable`, `CodesTellTheTruth`, `EmptyMeansNobody`, `HistoryEndsWithTheOpenDispatch` |
| `listing` | insertions between pages, out of order, with equal times | 3 records, 3 instants, 2 assignments under way | `PagerMissesNothing` (but for equal times in SQL), `RepeatsAreInsertions`, `QuietPagingIsExact`, `PagesAreBounded` |
| `lifecycle` | failing start, servers, stop and dispose; signals, interrupts, kill, hang-ups | 3 calls | `EngineServesHandlers`, `CleanExitIsComplete`, `NoCallIsCutShort`, `OneServerEndsProcessEnds` |
| `server_unknown_worker` | as `server` | 2 records, 1 order | violates `AssignedWorkerIsListed` |

Why these bounds: two records of one order are a rejected attempt and the next
one, the least in which a retry, an old poll or a history can be wrong; each
role an RPC admits, two workers, an admin who is a worker and a blank header are
among the four callers. Three records and three instants are the least in which
one is inserted before, between and behind two others, and pages of one and two
records both take several requests. Three calls put two on one transport
and one on the other.

The first three violations are findings, quoted in `PROJECT.json` against
`docs/dispatch-api.md` and the service's own message. The first two need
nothing but two clients: `has_pending_dispatch` and the status check are
evaluated in one session and acted on in another. In the third the commit
succeeds, `session.refresh` fails, and the caller is told the dispatch was
compensated while its `PENDING` record blocks the order. The fourth: `manual_assign_order`
never asks the schedule, although `docs/dispatch-api.md:100-101` lists a 404 for
an unknown worker, and it and `router.py:71` a 409 for one who is unavailable.

Divergences met on the way that no run is about: `docs/dispatch-api.md:250`
lets `customer_service` call `ListWorkerPendingDispatches`, `grpc/service.py:109`
does not; `docs/dispatch-api.md:33` and `:99` document 400 for parameters that
FastAPI refuses with 422.

Where a property needs its restriction, TLC shows it: with `"overlap"`,
`AtMostOnePending`, `AnsweredOnce`, `RowWellFormed` and `OrderAgreesWhenQuiet`
fail; with `"lostack"`, `"db"`, `"cancel"` or `"crash"` the two stores may
disagree for good, so `OrderAgreesWhenQuiet` is claimed for `"refuse"` only.

Deadlock is checked in every run: `Finished` stutters once every request has
been answered, the lifecycle stutters after the exit, and nothing else may stop.

Every property of a passing run has a mutant: an operator named after the
definition it replaces (`AttemptNeverTaken`, `HasPendingNever`,
`RevertedKeepsReason`, ...), written just before it and used nowhere else, that
changes the code the way a plausible bug would. TLC finds the property violated
when the mutant takes the definition's place.

### Fairness

`FairSpec` adds weak fairness of `AssignStep(r) \/ ConfirmStep(r)` for each
request: the event loop resumes a coroutine whose await is over, and awaits on
the database and the order service end. Clients, faults, cancellations and
restarts are not fair: nobody has to send a request.

`ServerLifecycle`'s `FairSpec` has weak fairness of `MainStep` (the loop runs the
main task), `GraceOver` (a timer fires), `HttpDrained` and the end of an HTTP
request (uvicorn's drain has no limit of its own, so the shutdown does rest on
this), and `Unwind` (a cancelled handler ends). It assumes nothing of a running
RPC: that the process ends although one never does is what the grace is for.

## Proofs

The proofs hold for any sets `Orders`, `Workers`, `Reasons`, `Requests`, `Calls`,
`Callers`, `Handlers`, finite or not, and for any schedule, limits and bounds.
They rest on `DataAssumption` (`None` and `NoSuchId` are no ids),
`HazardsAssumption`, `ServerAssumption` (blank text is nobody's id, the schedule
is a sequence of records of workers, limits are integers and the default one is
within the range) and `ListingAssumption` (the same of its limits), which TLC
evaluates in the runs of the modules that state them. What a theorem assumes
beyond that, of `Hazards` or of the clients' offsets, is in its statement.

### Under every hazard

- `TypeCorrect`, `AttemptsAreNumbered`: `Spec => []TypeOK`,
  `Spec => []HistoryNumbered`, both from the inductive invariant `IInv`. Typing
  alone is not inductive: an INSERT needs the request's order, worker and number
  to be real and its record id to be unused, and an UPDATE needs its record to
  exist, so `RequestOK` says what each control point implies. Numbering needs to
  know how stale a number can be: one read for an order is never more than one
  beyond an attempt that exists (`RequestOK`, last conjunct). So an INSERT
  either repeats an existing number, which the unique constraint refuses, or is
  exactly the next one. A step that leaves the table alone is handled by
  `TableKept`, one that updates it by `FlushStepKeeps`; only `CreateDispatch`
  needs the argument.
- `AnswersComeFromTheWorker`: `Spec => []AnswersAreGenuine`, overlapping answers
  included. `AInv` adds to `IInv` what the checks of `confirm_worker_response`
  establish and nothing undoes (`RespondentOK`): a response past them is by the
  dispatch's own worker, and it carries a reason iff it rejects. Two answers may
  merge in one record, so the argument goes column by column: each column of an
  updated row is the answering request's, a reverted one or the one that was
  there (`ColumnsStay`).
- `RecordsImplementHistory`: `Spec => ImplementsHistory`. Under the mapping
  `HistoryOf(table, o)` the initial states map to `DispatchHistory`'s, an INSERT
  to `Assign`, an UPDATE of a status to a restatement, every other step to a
  stutter (`TableSteps`, `InsertedIsAssign`, `UpdatedIsRestate`). The mapping
  chooses the record of each attempt, so it needs `IInv`'s unique numbers.

### Without overlap, whatever else happens

These assume `"overlap" \notin Hazards` and nothing of the other hazards, so they
cover restarts as well, which `sql_serial_faults` leaves out.

- `OnePendingWhenSerial`: `SInv` strengthens `IInv` by `Serialised` (handlers in
  flight are about different orders) and `GuardHolds` (what the check found is
  still true when it is acted on). `StepOnOneOrder` carries the other requests
  through a step on one order.
- `RowsWellFormedWhenSerial`, `AnsweredOnceWhenSerial`,
  `ReplyIsOwnAnswerWhenSerial`, `ConfirmationFollowsAcceptance`: `RInv` adds to
  `SInv` what the record of each response shows at each control point
  (`RowState`): what the session loaded is still what the table holds, the
  answer is in the table from the commit on, and for ever once it was told ok.
- `OkMeansAgreeWhenSerial`: `OInv` adds to `RInv` that only the latest attempt of
  an order may be pending and that a request marks or answers the latest
  attempt of its own order (`PendingIsLatest`, `OwnOrder`). The last call of a
  request that is told ok therefore says of the order what that attempt says.

### When only the order service refuses calls

These assume `Hazards \subseteq {"refuse"}`.

- `StoresAgreeWhenQuiet`: `QInv` adds to `OInv` what the order service says while
  a request is on its way (`Balanced`): nothing has moved before the order is
  marked or the answer committed, and after that the state is the one from which
  the next call, or its compensation, restores agreement.
- `SqlImplementsContract`: under the mapping `EffectiveTable` the order call that
  succeeds is the step of the contract (`MarkStep`, `TellStep`), and INSERT,
  UPDATE, refresh and revert are stutters (`InsertStep`, `UnheardStep`,
  `SilentStep`): what they do to the table, the mapping had anticipated or still
  hides. `EffectiveUnique` keeps the mapped attempts unique.

### In-memory deployment and lifecycle

- `InMemoryTypeCorrect`, `StoresAgree`, `RaisingIsUndone`,
  `InMemoryImplementsContract`: `MInv` is typing, numbering, `OrderAgrees`, and
  that a pending record is the latest of its order and as it was created. The
  last part is why a revert leaves no trace: it writes what was there before.
- `LifecycleTypeCorrect`, `EngineIsThere`, `CleanExit`, `CallsAreNotCutShort`:
  `LInv` says that `run` gets past the wait without an error only when the HTTP
  server has returned with its requests answered, and past `stop` only when the
  last RPC is gone; disposing the engine is safe for that reason. Its part
  `UnansweredHaveReasons` says who ended each call that was not answered, which at
  a clean exit leaves only the end of the grace and the client itself.

### Transports

`DispatchServerProofs` first says what a request can do at all: `ServerCases`
reduces the ten handlers, each with its checks and its code, to nine effects
(`Assigns`, `Responds`, `Polls`, `Refuses`, ...), which the properties are then
proved from. `Sorting` says what `SortedBy` is on any finite set with integer
keys: a list of every member once, in the order of the keys.

- `ServerTypeCorrect`, `ScreensStayAnswerable`, `CodesAreTrue`,
  `EmptyListMeansNobody`: parts of the inductive invariant `ServerInv`, which adds
  to `MInv` these four and `HistoryIsShown` (the last history that was answered
  is still the history). That a screen stays answerable needs the check that
  only the dispatch's own worker may answer; that an old code stays true needs
  that every request overwrites `last`, and only that.
  `CaughtResults` lists what each handler's `except` clauses name; every result a
  handler can meet is among it.
- `HistoryTellsIfOpen`: from `HistoryIsShown`, `Sorting` and the two parts of
  `MInv` on attempts. Numbers are given once, so the latest attempt is at the
  end, and nothing but the latest attempt is pending. Finiteness of the history
  is a consequence: its attempts are an interval.
- `WritersAreAuthorised`, `RetriesAreHarmless`: a step that changes a store is
  `Assigns` or `Responds`, which carry who was admitted. For the retries
  `ServerInv` has `AckedIsRecorded`: of every write ever answered as done, the
  dispatch is still recorded, for the order and worker that were assigned, or
  answered for good. So a response sent again meets a record that is not
  `PENDING`, and an assignment sent again is refused while its own dispatch is.
- `ServerImplementsContract`: `Assigns` and `Responds` are the steps of the
  contract, every other effect a stutter. TLC checks the contract in `in_memory`;
  over the transports it is proved only, as the run would take too long.

### Listing

`PagingMissesNothing`, `RepetitionNeedsInsertion` and
`QuietPagingYieldsTheListing` assume `FromTheTop`: clients send no positive
offset with their first request. Who begins further down has skipped records on
purpose. The run `listing` sends the offsets -1 and 0, so it is within the
assumption. `ListingTypeCorrect` and `PagesStayBounded` need no assumption.

The number of records ahead of a record (`Ahead`) is its place in every listing
that a query may return, unless SQL has others of the same time (`Place`). An
insertion moves a record down or leaves it, so what a client was owed and has
not seen is always at or behind its offset: that is `PagerInv`, together with
what the client counts (`offset` is the number of rows it has got, `inserted` the
records there are beyond those it was owed). When a page comes back empty,
nothing is behind the offset any more, hence nothing owed is unseen. There are as
many places in front of the offset as rows the client has got, and the record at
each of them was seen or inserted meanwhile; so there are no more rows than
records seen plus insertions, which is `RepetitionNeedsInsertion`. `QuietInv` says
that with no insertion the i-th row is the record of place i.

### What the modules share

`DispatchDataProofs` holds what the two deployments share: a table with a record
more, or with one restated, has the history with an entry more, or with one
restated. `IInv`, `RInv` and `QInv` were model-checked before they were proved.

### Only model-checked

`OrderNotStranded` and `OneServerEndsProcessEnds` are liveness under fairness,
out of this prover's reach. Every other property of a passing run is stated by a
theorem. The four violations are TLC's alone.

## Not modelled

- `logging.py`: `sanitize_log_value` and the formatter are functions of their
  input; no other part reads what they write. Its unit tests cover it.
- `reserve_worker`, `release_worker`: nothing in the program calls them.
- `config.py`, `infrastructure/db.py`: read once, before anything runs
  concurrently; that building the container may fail is in `ServerLifecycle`.
- `/healthz`, the request-logging middleware, the copying of fields into
  responses: they keep no state and take no decision.
- Generated stubs.
- The status code of an exception that no handler names (the driver's, raised
  while a record is read): the SQL store is not composed with the transports.
- The upper limits of lengths: HTTP refuses an `order_id` or `worker_id` of more
  than 64 characters like any other invalid payload, gRPC does not, and the
  columns are `String(64)`; what a driver does with a longer one is a database
  fault of `DispatchSql`.

## Plan

1. `DispatchServer` over `DispatchSql`, for the codes of an unnamed exception
   and of a handler whose client has gone.
2. How far a pager is misled by equal times over SQL: a bound on the records it
   may miss, to be checked before it is proved.
