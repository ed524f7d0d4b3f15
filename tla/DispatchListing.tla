-------------------------- MODULE DispatchListing --------------------------
(***************************************************************************)
(* list_dispatches, and a client that pages through the records with it    *)
(* while others are inserted.  A page is an OFFSET into the records in     *)
(* order of assigned_at, newest first; nothing ties one page to the next.  *)
(* assigned_at is taken before the order service is called and the record  *)
(* is inserted after that, so over SQL records do not appear in the order  *)
(* of their times.                                                         *)
(***************************************************************************)
EXTENDS Integers, SequencesExt

CONSTANTS
    Handlers,       \* the assignments that may be under way at a time
    DefaultLimit,   \* 100 in the code
    MaxLimit,       \* 500 in the code
    Limits, Offsets,    \* the limits and first offsets that clients send
    MaxRecords,     \* bound on the records inserted
    MaxTime         \* bound on the clock

ASSUME ListingAssumption ==
    /\ Limits \cup Offsets \subseteq Int
    /\ DefaultLimit \in 1..MaxLimit
    /\ {MaxLimit, MaxRecords, MaxTime} \subseteq Nat

VARIABLES
    backend,    \* "sql", or "memory" when use_mock_repository is set
    clock,      \* the last value of datetime.now(UTC)
    taken,      \* the assigned_at of each assignment under way, 0 for none
    records,    \* the records in order of insertion, each its assigned_at;
                \* a record is known by its index
    pager       \* the client

vars == <<backend, clock, taken, records, pager>>

NoPager == [state |-> "idle", via |-> "grpc", limit |-> 0, offset |-> 0,
            pages |-> <<>>, owed |-> {}, inserted |-> 0]

Init ==
    /\ backend \in {"sql", "memory"}
    /\ clock = 0
    /\ taken = [h \in Handlers |-> 0]
    /\ records = <<>>
    /\ pager = NoPager

-----------------------------------------------------------------------------
(* manual_assign_order, as far as a listing can tell                       *)

\* Two readings of the clock may be the same: a DATETIME column keeps seconds.
Now == {clock, clock + 1} \cap 1..MaxTime

InsertRecord(at) ==
    /\ Len(records) < MaxRecords
    /\ records' = Append(records, at)
    /\ pager' = [pager EXCEPT !.inserted = IF pager.state = "idle" THEN @ ELSE @ + 1]

\* Over SQL the order call and the INSERT are still to come ...
TakeTime(h) ==
    /\ backend = "sql" /\ taken[h] = 0
    /\ \E t \in Now : clock' = t /\ taken' = [taken EXCEPT ![h] = t]
    /\ UNCHANGED <<backend, records, pager>>

\* ... and happen some time later ...
CreateDispatch(h) ==
    /\ taken[h] # 0
    /\ InsertRecord(taken[h])
    /\ taken' = [taken EXCEPT ![h] = 0]
    /\ UNCHANGED <<backend, clock>>

\* ... or fail.
Fail(h) ==
    /\ taken[h] # 0
    /\ taken' = [taken EXCEPT ![h] = 0]
    /\ UNCHANGED <<backend, clock, records, pager>>

\* Over the in-memory store nothing comes in between.
CreateAtOnce ==
    /\ backend = "memory"
    /\ \E t \in Now : clock' = t /\ InsertRecord(t)
    /\ UNCHANGED <<backend, taken>>

-----------------------------------------------------------------------------
(* list_dispatches                                                         *)

\* Mutants of Sorted: there is no ORDER BY, or one in the other direction.
SortedNot(p) == TRUE

SortedOldestFirst(p) ==
    \A i, j \in DOMAIN p : i < j => records[p[i]] <= records[p[j]]

\* Python's sort keeps equal records in order of insertion, also with
\* reverse=True; SQL says nothing about them.
Sorted(p) ==
    \A i, j \in DOMAIN p : i < j =>
        \/ records[p[i]] > records[p[j]]
        \/ records[p[i]] = records[p[j]] /\ (backend = "memory" => p[i] < p[j])

\* The orders in which a query may find the records.
NewestFirst == {p \in SetToSeqs(DOMAIN records) : Sorted(p)}

\* Mutant of Page: OFFSET is forgotten.
PageFirstRows(p, offset, limit) == SubSeq(p, 1, Min({limit, Len(p)}))

Page(p, offset, limit) == SubSeq(p, offset + 1, Min({offset + limit, Len(p)}))

\* Mutant of Valid: there is no upper limit.
ValidUnbounded(limit, offset) == limit > 0 /\ offset >= 0

Valid(limit, offset) == limit > 0 /\ limit <= MaxLimit /\ offset >= 0

Refused == pager' = [pager EXCEPT !.state = "refused"]

\* The client asks on from behind the records it got, until it gets none.
Received(rows) ==
    pager' = [pager EXCEPT !.state = IF rows = <<>> THEN "done" ELSE "paging",
                           !.offset = @ + Len(rows),
                           !.pages = @ \o rows]

ListDispatches(limit, offset) ==
    \/ ~Valid(limit, offset) /\ Refused
    \/ Valid(limit, offset) /\ \E p \in NewestFirst : Received(Page(p, offset, limit))

\* Protobuf's unset limit is 0.
GrpcListDispatches ==
    /\ pager.state = "paging" /\ pager.via = "grpc"
    /\ ListDispatches(IF pager.limit = 0 THEN DefaultLimit ELSE pager.limit, pager.offset)
    /\ UNCHANGED <<backend, clock, taken, records>>

\* The route declares the same range as the service, so that the service has
\* nothing left to refuse.
HttpListDispatches ==
    /\ pager.state = "paging" /\ pager.via = "http"
    /\ \/ ~Valid(pager.limit, pager.offset) /\ Refused
       \/ Valid(pager.limit, pager.offset) /\ ListDispatches(pager.limit, pager.offset)
    /\ UNCHANGED <<backend, clock, taken, records>>

StartPaging(via, limit, offset) ==
    /\ pager.state = "idle"
    /\ pager' = [NoPager EXCEPT !.state = "paging", !.via = via, !.limit = limit,
                                !.offset = offset, !.owed = DOMAIN records]
    /\ UNCHANGED <<backend, clock, taken, records>>

StopPaging ==
    /\ pager.state \in {"done", "refused"}
    /\ pager' = NoPager
    /\ UNCHANGED <<backend, clock, taken, records>>

Next ==
    \/ CreateAtOnce
    \/ \E h \in Handlers : TakeTime(h) \/ CreateDispatch(h) \/ Fail(h)
    \/ \E via \in {"grpc", "http"}, limit \in Limits, offset \in Offsets :
          StartPaging(via, limit, offset)
    \/ GrpcListDispatches
    \/ HttpListDispatches
    \/ StopPaging

Spec == Init /\ [][Next]_vars

-----------------------------------------------------------------------------
(* Properties                                                              *)

TypeOK ==
    /\ clock \in 0..MaxTime
    /\ taken \in [Handlers -> 0..clock]
    /\ \A i \in DOMAIN records : records[i] \in 1..clock
    /\ pager.owed \subseteq DOMAIN records
    /\ ToSet(pager.pages) \subseteq DOMAIN records
    /\ pager.offset \in Offsets \cup 0..Len(records)

Untied(d) == \A e \in DOMAIN records \ {d} : records[e] # records[d]

\* Whatever is inserted between two pages, and wherever, a client that pages
\* to the end has seen every record there was when it began, except that SQL
\* may hide one behind another of the same assigned_at.
PagerMissesNothing ==
    pager.state = "done" =>
        \A d \in pager.owed : (Untied(d) \/ backend = "memory") => d \in ToSet(pager.pages)

\* A record comes twice only because another was inserted before it while the
\* client was paging: without equal times there are no more repetitions than
\* insertions.
RepeatsAreInsertions ==
    (backend = "memory" \/ \A d \in DOMAIN records : Untied(d)) =>
        Len(pager.pages) - Cardinality(ToSet(pager.pages)) <= pager.inserted

\* Paging while nothing is inserted yields the whole listing, newest first,
\* whatever the size of the pages.
QuietPagingIsExact ==
    (/\ pager.state = "done" /\ pager.inserted = 0
     /\ backend = "memory" \/ \A d \in DOMAIN records : Untied(d))
        => /\ IsInjective(pager.pages)
           /\ ToSet(pager.pages) = DOMAIN records
           /\ \A i, j \in DOMAIN pager.pages :
                 i < j => records[pager.pages[i]] >= records[pager.pages[j]]

\* No answer holds more than MaxLimit records, whatever limit is sent over
\* whichever transport.
PagesAreBounded == [][Len(pager'.pages) <= Len(pager.pages) + MaxLimit]_vars
=============================================================================
