-------------------- MODULE DispatchSqlRefinementProofs --------------------
(***************************************************************************)
(* The dispatch records implement DispatchHistory, for every choice of     *)
(* Hazards: however requests overlap and whatever fails, a step appends    *)
(* the next attempt to one order's history, restates the status of one     *)
(* attempt, or changes no history.  And when nothing but order calls fails *)
(* and clients do not overlap the requests for one order, the records and  *)
(* the order service together implement DispatchContract: although each    *)
(* request takes several awaits, both stores change as one.                *)
(***************************************************************************)
EXTENDS DispatchSqlSerialProofs

\* The record with the id of request r is new, and the next attempt of o.
Inserted(r, o, w, n) ==
    /\ r \notin DOMAIN table
    /\ Attempts(table, o) = 1..n
    /\ table' = Insert(table, r, NewRow(o, n + 1, w))

\* Only record d changed, and only in its answer.
Updated(d) ==
    /\ SameIdentities(table, table')
    /\ \A e \in DOMAIN table : e # d => table'[e] = table[e]

\* What any step does to the table.
LEMMA TableSteps ==
    ASSUME IInv, [Next]_vars
    PROVE  \/ UNCHANGED table
           \/ \E r \in Requests, o \in Orders, w \in Workers, n \in Nat : Inserted(r, o, w, n)
           \/ \E d \in DOMAIN table : Updated(d)
<1>1. ASSUME NEW r \in Requests, CreateDispatch(r)
      PROVE  \/ UNCHANGED table
             \/ \E o \in Orders, w \in Workers, n \in Nat : Inserted(r, o, w, n)
  <2> DEFINE o == req[r].order
             k == attemptNo[r]
             w == req[r].worker
  <2>1. /\ o \in Orders /\ w \in Workers /\ k \in Nat \ {0} /\ r \notin DOMAIN table
        /\ k # 1 => k - 1 \in Attempts(table, o)
    BY <1>1 DEF CreateDispatch, IInv, TypeOK, RequestOK, AssignPoints, BeforeInsert
  <2>2. PICK n \in Nat : Attempts(table, o) = 1..n
    BY <2>1 DEF IInv, Numbered
  <2>3. CASE AttemptTaken(o, k)
    BY <1>1, <2>3 DEF CreateDispatch
  <2>4. CASE ~AttemptTaken(o, k)
    <3>1. k = n + 1
      BY <2>1, <2>2, <2>4 DEF AttemptTaken
    <3>2. table' = Insert(table, r, NewRow(o, k, w))
      BY <1>1, <2>4 DEF CreateDispatch
    <3> QED
      BY <2>1, <2>2, <3>1, <3>2 DEF Inserted
  <2> QED
    BY <2>3, <2>4
<1>2. ASSUME NEW r \in Requests, CommitResponse(r) \/ CommitRevert(r)
      PROVE  \E d \in DOMAIN table : Updated(d)
  <2> DEFINE d == req[r].dispatch
  <2>1. d \in DOMAIN table /\ table \in [DOMAIN table -> Row]
    BY <1>2 DEF CommitResponse, CommitRevert, IInv, TypeOK, RequestOK, AfterLookup, ConfirmPoints
  <2>2. PICK new : Flush(d, row[r], new)
    BY <1>2 DEF CommitResponse, CommitRevert
  <2>3. Updated(d)
    BY <2>1, <2>2 DEF Flush, SameIdentities, Row, Updated
  <2> QED
    BY <2>1, <2>3
<1>3. ASSUME NEW r \in Requests, Start(r) \/ DbError(r) \/ Cancel(r)
      PROVE  UNCHANGED table
  BY <1>3 DEF Start, RefuseBlank, StartAssign, StartConfirm, DbError, DbErrorSurfaces,
              DbErrorCompensated, DbErrorSwallowed, Cancel
<1>4. ASSUME NEW r \in Requests, AssignStep(r), ~CreateDispatch(r)
      PROVE  UNCHANGED table
  BY <1>4 DEF AssignStep, HasPendingDispatch, GetLatestAttemptNo, MarkOrderDispatched,
              RefreshCreated, SafeMarkOrderPending
<1>5. ASSUME NEW r \in Requests, ConfirmStep(r), ~CommitResponse(r), ~CommitRevert(r)
      PROVE  UNCHANGED table
  BY <1>5 DEF ConfirmStep, GetById, LoadForResponse, RefreshUpdated, TellOrder,
              LoadForRevert, LoadRow
<1>6. CASE Restart \/ UNCHANGED vars
  BY <1>6 DEF Restart, vars
<1> QED
  BY <1>1, <1>2, <1>3, <1>4, <1>5, <1>6 DEF Next, Finished

LEMMA NumberedIsUnique == Numbered => Unique(table)
BY DEF Numbered, Unique

LEMMA InsertedIsAssign ==
    ASSUME IInv, IInv', NEW r \in Requests, NEW o \in Orders, NEW w \in Workers,
           NEW n \in Nat, Inserted(r, o, w, n)
    PROVE  History!Assign(o, w)
<1>1. Unique(table) /\ Unique(table')
  BY NumberedIsUnique DEF IInv, Numbered, Unique
<1>2. Longer(HistoriesOf(table), HistoriesOf(table'), o, w)
  <2>1. Appends(table, table', r, o, w, n)
    BY <1>1 DEF Inserted, Appends
  <2> QED
    BY <2>1, AppendedHistories
<1> QED
  BY <1>2 DEF History!Assign, HistoriesOf, Longer

LEMMA UpdatedIsRestate ==
    ASSUME IInv, IInv', NEW d \in DOMAIN table, Updated(d)
    PROVE  [History!Next]_[o \in Orders |-> HistoryOf(table, o)]
<1> DEFINE o == table[d].order
           i == table[d].attempt
           h == HistoryOf(table, o)
           s == table'[d].status
<1>1. o \in Orders /\ s \in Statuses
  BY DEF IInv, TypeOK, Row, Updated, SameIdentities
<1>2. Unique(table) /\ Unique(table')
  BY NumberedIsUnique DEF IInv, Numbered, Unique
<1>3. /\ i \in DOMAIN h /\ h[i] = Entry(table[d])
      /\ Restated(HistoriesOf(table), HistoriesOf(table'), o, i, s)
  <2>1. Restates(table, table', d, o)
    BY <1>2 DEF Updated, Restates
  <2> HIDE DEF o
  <2> QED
    BY <1>1, <2>1, RestatedHistories
<1>4. h[i].status = table[d].status /\ [h[i] EXCEPT !.status = table[d].status] = h[i]
  BY <1>3 DEF Entry
<1>5. h = [j \in DOMAIN h |-> h[j]]
  BY HistoryEntries, <1>2
<1>6. HistoriesOf(table)[o] = h
  BY <1>1 DEF HistoriesOf
<1> HIDE DEF o, i, h, s
<1>7. CASE s # h[i].status
  <2>1. History!Restate(o, i, s)
    BY <1>3, <1>6, <1>7 DEF History!Restate, HistoriesOf, Restated
  <2> QED
    BY <1>1, <1>3, <1>6, <2>1 DEF History!Next, HistoriesOf
<1>8. CASE s = h[i].status
  <2>1. [h EXCEPT ![i].status = s] = h
    BY <1>3, <1>4, <1>5, <1>8
  <2>2. [HistoriesOf(table) EXCEPT ![o][i].status = s] = HistoriesOf(table)
    BY <1>6, <2>1 DEF HistoriesOf
  <2> QED
    BY <1>3, <2>2 DEF HistoriesOf, Restated
<1> QED
  BY <1>7, <1>8

LEMMA InitIsHistoryInit == Init => History!Init
<1> SUFFICES ASSUME Init PROVE History!Init
  OBVIOUS
<1>1. ASSUME NEW o \in Orders PROVE HistoryOf(table, o) = <<>>
  <2>1. Attempts(table, o) = {}
    BY DEF Init, Attempts, RowsOf
  <2> QED
    BY <2>1 DEF HistoryOf
<1> QED
  BY <1>1 DEF History!Init

LEMMA StepIsHistoryStep ==
    IInv /\ IInv' /\ [Next]_vars
        => [History!Next]_[o \in Orders |-> HistoryOf(table, o)]
<1> SUFFICES ASSUME IInv, IInv', [Next]_vars
             PROVE  [History!Next]_[o \in Orders |-> HistoryOf(table, o)]
  OBVIOUS
<1>1. CASE UNCHANGED table
  BY <1>1
<1>2. ASSUME NEW r \in Requests, NEW o \in Orders, NEW w \in Workers, NEW n \in Nat,
             Inserted(r, o, w, n)
      PROVE  History!Next
  BY <1>2, InsertedIsAssign DEF History!Next
<1> QED
  BY <1>1, <1>2, UpdatedIsRestate, TableSteps

\* However requests overlap, whatever raises, is cancelled or restarts: the
\* history of an order is append-only, and no attempt ever changes its place
\* or its worker.
THEOREM RecordsImplementHistory == Spec => ImplementsHistory
BY InitIsHistoryInit, StepIsHistoryStep, Inductive, PTL
   DEF Spec, ImplementsHistory, History!Spec

-----------------------------------------------------------------------------
(* The contract, when only order calls fail                                *)

Telling == {s \in Requests : pc[s] \in UnheardPoints}

\* What the table as it would be holds: the records that are there, those
\* unheard of still waiting, and the ones whose order has been marked.
LEMMA EffectiveRecords ==
    ASSUME QInv
    PROVE  /\ DOMAIN EffectiveTable = DOMAIN table \cup Marked
           /\ \A r \in Marked : /\ r \notin DOMAIN table
                                /\ req[r].order \in Orders /\ req[r].worker \in Workers
                                /\ EffectiveTable[r] =
                                     NewRow(req[r].order, attemptNo[r], req[r].worker)
           /\ \A d \in DOMAIN table :
                 EffectiveTable[d] = IF d \in Unheard THEN Reverted(table[d]) ELSE table[d]
<1>1. \A r \in Marked : /\ r \notin DOMAIN table
                        /\ req[r].order \in Orders /\ req[r].worker \in Workers
  BY DEF QInv, OInv, RInv, SInv, IInv, RequestOK, BeforeInsert, AssignPoints, Marked
<1> QED
  BY <1>1 DEF EffectiveTable

\* A record keeps its identity in the table as it would be.
LEMMA EffectiveIdentity ==
    ASSUME QInv, NEW d \in DOMAIN table
    PROVE  /\ EffectiveTable[d].order = table[d].order
           /\ EffectiveTable[d].attempt = table[d].attempt
           /\ EffectiveTable[d].worker = table[d].worker
           /\ EffectiveTable[d].status = IF d \in Unheard THEN "PENDING" ELSE table[d].status
<1>1. table[d] \in Row
  BY DEF QInv, OInv, RInv, SInv, IInv, TypeOK
<1>2. EffectiveTable[d] = IF d \in Unheard THEN Reverted(table[d]) ELSE table[d]
  BY EffectiveRecords
<1> QED
  BY <1>1, <1>2 DEF Reverted, Row

\* One request at a time is about an order, and its number is the next.
LEMMA MarkedOrder ==
    ASSUME QInv, NEW r \in Marked
    PROVE  /\ r \in Requests /\ InFlight(r) /\ OrderOf(req[r]) = req[r].order
           /\ req[r].order \in Orders
           /\ attemptNo[r] = LatestAttemptNo(table, req[r].order) + 1
BY InFlightPoints DEF QInv, OInv, RInv, SInv, Marked, AssignPoints, Balanced

LEMMA TellingOrder ==
    ASSUME QInv, NEW r \in Telling
    PROVE  /\ r \in Requests /\ InFlight(r) /\ req[r].dispatch \in DOMAIN table
           /\ OrderOf(req[r]) = table[req[r].dispatch].order
           /\ OrderOf(req[r]) \in Orders
<1>1. r \in Requests /\ pc[r] \in AfterLookup /\ IInv
  BY DEF QInv, OInv, RInv, SInv, Telling, UnheardPoints, AfterLookup, ConfirmPoints
<1> QED
  BY <1>1, InFlightPoints DEF AfterLookup, IInv, RequestOK

LEMMA EffectiveUnique ==
    ASSUME QInv
    PROVE  Unique(EffectiveTable)
<1> SUFFICES ASSUME NEW d \in DOMAIN EffectiveTable, NEW e \in DOMAIN EffectiveTable,
                    EffectiveTable[d].order = EffectiveTable[e].order,
                    EffectiveTable[d].attempt = EffectiveTable[e].attempt,
                    d # e
             PROVE  FALSE
  BY DEF Unique
<1>1. \A c \in Marked : /\ EffectiveTable[c].order = req[c].order
                        /\ EffectiveTable[c].attempt = attemptNo[c]
  BY EffectiveRecords DEF NewRow
<1>2. ASSUME NEW a \in DOMAIN table, NEW c \in Marked,
             EffectiveTable[a].order = EffectiveTable[c].order,
             EffectiveTable[a].attempt = EffectiveTable[c].attempt
      PROVE  FALSE
  <2>1. PICK o \in Orders : o = req[c].order
    BY MarkedOrder
  <2>2. PICK n \in Nat : Attempts(table, o) = 1..n
    BY DEF QInv, OInv, RInv, SInv, IInv, Numbered
  <2>3. attemptNo[c] = n + 1
    BY <2>1, <2>2, MarkedOrder, LatestOfNumbered
  <2>4. table[a].order = o /\ table[a].attempt = n + 1
    BY <1>1, <1>2, <2>1, <2>3, EffectiveIdentity
  <2>5. n + 1 \in Attempts(table, o)
    BY <2>4 DEF Attempts, RowsOf
  <2> QED
    BY <2>2, <2>5
<1>3. CASE d \in DOMAIN table /\ e \in DOMAIN table
  BY <1>3, EffectiveIdentity DEF QInv, OInv, RInv, SInv, IInv, Numbered
<1>4. CASE d \in Marked /\ e \in Marked
  BY <1>1, <1>4, MarkedOrder DEF QInv, OInv, RInv, SInv, Serialised
<1> QED
  BY <1>2, <1>3, <1>4, EffectiveRecords

\* The answers that the order service has not heard of, before and after r
\* moves.
LEMMA UnheardIsTelling ==
    /\ Unheard = {req[s].dispatch : s \in Telling}
    /\ Unheard' = {req'[s].dispatch : s \in Telling'}
BY DEF Unheard, Telling, UnheardPoints

\* Nobody else tells about, or has marked, the order that r is about.
LEMMA OthersOrders ==
    ASSUME QInv, NEW r \in Requests, InFlight(r), NEW o, o = OrderOf(req[r])
    PROVE  /\ \A s \in Telling \ {r} : table[req[s].dispatch].order # o
           /\ \A s \in Marked \ {r} : req[s].order # o
BY TellingOrder, MarkedOrder DEF QInv, OInv, RInv, SInv, Serialised

LEMMA HeardOf ==
    ASSUME QInv, NEW r \in Requests, pc[r] \in AfterLookup, NEW p \in Points, Moves(r, p),
           req' = req, NEW d, d = req[r].dispatch
    PROVE  /\ pc[r] \notin UnheardPoints => d \notin Unheard
           /\ pc[r] \in UnheardPoints => d \in Unheard
           /\ Unheard' = IF p \in UnheardPoints THEN Unheard \cup {d} ELSE Unheard \ {d}
<1>1. pc \in [Requests -> Points] /\ IInv
  BY DEF QInv, OInv, RInv, SInv, IInv, TypeOK
<1>2. InFlight(r) /\ OrderOf(req[r]) = table[d].order
  BY <1>1, InFlightPoints DEF AfterLookup
<1>3. \A s \in Telling \ {r} : req[s].dispatch # d
  BY <1>2, OthersOrders
<1>4. Telling' = IF p \in UnheardPoints THEN Telling \cup {r} ELSE Telling \ {r}
  BY <1>1 DEF Telling, Moves
<1>5. r \in Telling <=> pc[r] \in UnheardPoints
  BY DEF Telling
<1> HIDE DEF Telling
<1>6. (pc[r] \notin UnheardPoints => d \notin Unheard) /\ (pc[r] \in UnheardPoints => d \in Unheard)
  BY <1>3, <1>5, UnheardIsTelling
<1>7. ASSUME p \in UnheardPoints PROVE Unheard' = Unheard \cup {d}
  BY <1>4, <1>7, UnheardIsTelling
<1>8. ASSUME p \notin UnheardPoints PROVE Unheard' = Unheard \ {d}
  BY <1>3, <1>4, <1>8, UnheardIsTelling
<1> QED
  BY <1>6, <1>7, <1>8

\* A step that changes neither store and crosses no point of taking effect.
LEMMA SilentStep ==
    ASSUME QInv, NEW r \in Requests, NEW p \in Points, Moves(r, p), UNCHANGED table,
           pc[r] # "create", p # "create",
           \/ pc[r] \notin UnheardPoints /\ p \notin UnheardPoints
           \/ pc[r] \in UnheardPoints /\ p \in UnheardPoints /\ req' = req
    PROVE  UNCHANGED EffectiveTable
<1>1. pc \in [Requests -> Points]
  BY DEF QInv, OInv, RInv, SInv, IInv, TypeOK
<1>2. Marked' = Marked /\ Telling' = Telling
  BY <1>1 DEF Moves, Marked, Telling
<1>3. \A s \in Marked : req'[s] = req[s] /\ attemptNo'[s] = attemptNo[s]
  BY DEF Moves, Marked
<1>4. \A s \in Telling : req'[s] = req[s]
  BY DEF Moves, Telling
<1>5. Unheard' = Unheard
  BY <1>2, <1>4, UnheardIsTelling
<1> QED
  BY <1>2, <1>3, <1>5 DEF EffectiveTable

\* Records d and e that both wait for the same worker are the same record.
LEMMA WaitingRow ==
    ASSUME NEW x \in Row, NEW y \in Row,
           x.order = y.order, x.attempt = y.attempt, x.worker = y.worker,
           x.status = y.status, x.responded = y.responded, x.reason = y.reason
    PROVE  x = y
BY DEF Row

\* Writing an answer, and taking it back, has no effect as long as the order
\* service has not heard of it.
LEMMA UnheardStep ==
    ASSUME QInv, QInv', NEW r \in Requests, CommitResponse(r) \/ CommitRevert(r)
    PROVE  UNCHANGED <<EffectiveTable, orders>>
<1> DEFINE d == req[r].dispatch
<1> USE DEF AfterLookup, ConfirmPoints, UnheardPoints, Points
<1>1. /\ IInv /\ IInv' /\ RInv /\ RInv' /\ pc \in [Requests -> Points]
      /\ RowState(r) /\ RowState(r)'
  BY DEF QInv, OInv, RInv, SInv, IInv, TypeOK
<1>2. PICK p \in {"reload", "done"} :
         /\ Moves(r, p) /\ UNCHANGED <<orders, req, attemptNo>>
         /\ \/ p = "reload" /\ pc[r] = "write"
            \/ p = "done" /\ pc[r] = "revertWrite"
  BY DEF CommitResponse, CommitRevert, Finish, GoTo, Moves
<1>3. d \in DOMAIN table /\ table[d] \in Row
  BY <1>1, <1>2, AtRecord
<1>4. /\ DOMAIN table' = DOMAIN table
      /\ \A e \in DOMAIN table : e # d => table'[e] = table[e]
      /\ table'[d].order = table[d].order /\ table'[d].attempt = table[d].attempt
      /\ table'[d].worker = table[d].worker
      /\ table'[d] \in Row
  <2>1. /\ DOMAIN table' = DOMAIN table
        /\ \A e \in DOMAIN table : e # d => table'[e] = table[e]
        /\ table'[d].order = table[d].order /\ table'[d].attempt = table[d].attempt
        /\ table'[d].worker = table[d].worker
    BY <1>3, FlushedRecord DEF CommitResponse, CommitRevert
  <2>2. table'[d] \in Row
    BY <1>1, <1>3, <2>1 DEF IInv, TypeOK
  <2> QED
    BY <2>1, <2>2
<1>5. Marked' = Marked
  BY <1>1, <1>2 DEF Moves, Marked
<1>6. /\ Unheard' = IF p \in UnheardPoints THEN Unheard \cup {d} ELSE Unheard \ {d}
      /\ pc[r] \notin UnheardPoints => d \notin Unheard
      /\ pc[r] \in UnheardPoints => d \in Unheard
  BY <1>2, HeardOf
<1>7. CASE p = "reload"
  <2>1. table[d].status = "PENDING" /\ table[d].responded = None /\ table[d].reason = None
    BY <1>1, <1>2, <1>3, <1>7 DEF RowState, RInv, RowWellFormed
  <2>2. Reverted(table'[d]) = table[d]
    <3> DEFINE x == Reverted(table'[d])
    <3>1. x \in Row /\ x.status = "PENDING" /\ x.responded = None /\ x.reason = None
          /\ x.order = table'[d].order /\ x.attempt = table'[d].attempt
          /\ x.worker = table'[d].worker
      BY <1>4 DEF Reverted, Row, Statuses
    <3> HIDE DEF x
    <3>2. x = table[d]
      BY <1>3, <1>4, <2>1, <3>1, WaitingRow
    <3> QED
      BY <3>2 DEF x
  <2> QED
    BY <1>2, <1>4, <1>5, <1>6, <1>7, <2>2 DEF EffectiveTable
<1>8. CASE p = "done"
  <2>1. table'[d].status = "PENDING"
    <3>1. CommitRevert(r) /\ row[r] = table[d]
      BY <1>1, <1>2, <1>8 DEF CommitResponse, CommitRevert, RowState
    <3>2. Flush(d, table[d], Reverted(table[d]))
      BY <3>1 DEF CommitRevert
    <3>3. Reverted(table[d]).status = "PENDING"
      BY <1>3 DEF Reverted, Row
    <3>4. table'[d].status = Flushed(table[d].status, table[d].status, "PENDING")
      BY <1>3, <3>2, <3>3, FlushedRecord
    <3> QED
      BY <3>4 DEF Flushed
  <2>2. table'[d].responded = None /\ table'[d].reason = None
    BY <1>1, <1>3, <1>4, <2>1 DEF RInv, RowWellFormed
  <2>3. Reverted(table[d]) = table'[d]
    <3> DEFINE x == Reverted(table[d])
    <3>1. x \in Row /\ x.status = "PENDING" /\ x.responded = None /\ x.reason = None
          /\ x.order = table[d].order /\ x.attempt = table[d].attempt
          /\ x.worker = table[d].worker
      BY <1>3 DEF Reverted, Row, Statuses
    <3> HIDE DEF x
    <3>2. x = table'[d]
      BY <1>3, <1>4, <2>1, <2>2, <3>1, WaitingRow
    <3> QED
      BY <3>2 DEF x
  <2> QED
    BY <1>2, <1>4, <1>5, <1>6, <1>8, <2>3 DEF EffectiveTable
<1> QED
  BY <1>7, <1>8

\* The INSERT has no effect: its record has counted since its order was marked.
LEMMA InsertStep ==
    ASSUME QInv, QInv', NEW r \in Requests, CreateDispatch(r)
    PROVE  UNCHANGED <<EffectiveTable, orders>>
<1> DEFINE o == req[r].order
           k == attemptNo[r]
           new == NewRow(o, k, req[r].worker)
<1>1. IInv /\ pc \in [Requests -> Points]
  BY DEF QInv, OInv, RInv, SInv, IInv, TypeOK
<1>2. pc[r] = "create" /\ UNCHANGED <<orders, req, attemptNo>> /\ r \in Marked
  BY DEF CreateDispatch, Marked
<1>3. k \notin Attempts(table, o)
  <2>1. PICK n \in Nat : Attempts(table, o) = 1..n
    BY <1>1, <1>2, MarkedOrder DEF IInv, Numbered
  <2>2. k = n + 1
    BY <1>2, <2>1, MarkedOrder, LatestOfNumbered
  <2> QED
    BY <2>1, <2>2
<1>4. table' = Insert(table, r, new) /\ Moves(r, "refresh")
  BY <1>3 DEF CreateDispatch, AttemptTaken, GoTo, Moves
<1>5. r \notin DOMAIN table /\ EffectiveTable[r] = new
  BY <1>2, EffectiveRecords
<1>6. Marked' = Marked \ {r} /\ Telling' = Telling
  BY <1>1, <1>2, <1>4 DEF Moves, Marked, Telling, UnheardPoints
<1>7. Unheard' = Unheard /\ r \notin Unheard
  BY <1>2, <1>5, <1>6, UnheardIsTelling, TellingOrder
<1> HIDE DEF new
<1>8. /\ DOMAIN table' = DOMAIN table \cup {r}
      /\ table'[r] = new
      /\ \A e \in DOMAIN table : table'[e] = table[e]
  BY <1>4, <1>5 DEF Insert
<1>9. EffectiveTable' = [d \in DOMAIN table \cup Marked |->
            IF d \in Marked \ {r} THEN NewRow(req[d].order, attemptNo[d], req[d].worker)
            ELSE IF d \in Unheard THEN Reverted(table'[d])
            ELSE table'[d]]
  BY <1>2, <1>6, <1>7, <1>8 DEF EffectiveTable
<1>10. \A d \in DOMAIN table : d \notin Marked
  BY EffectiveRecords
<1> QED
  BY <1>2, <1>5, <1>7, <1>8, <1>9, <1>10 DEF EffectiveTable

\* An assignment takes effect when its order is marked.
LEMMA MarkStep ==
    ASSUME QInv, QInv', Unique(EffectiveTable), Unique(EffectiveTable'),
           NEW r \in Requests, pc[r] = "mark", Moves(r, "create"),
           UNCHANGED <<table, req, attemptNo>>,
           NEW o, o = req[r].order, NEW w, w = req[r].worker,
           orders' = [orders EXCEPT ![o] = Dispatched(w)]
    PROVE  o \in Orders /\ w \in Workers /\ Contract!Assign(o, w)
<1>1. IInv /\ pc \in [Requests -> Points] /\ attemptNo \in [Requests -> Nat]
  BY DEF QInv, OInv, RInv, SInv, IInv, TypeOK
<1>2. /\ o \in Orders /\ w \in Workers /\ InFlight(r) /\ OrderOf(req[r]) = o
      /\ r \notin DOMAIN table /\ r \notin Marked /\ r \notin Telling
  BY <1>1, InFlightPoints DEF IInv, RequestOK, AssignPoints, BeforeInsert, Marked, Telling,
                              UnheardPoints
<1>3. PICK n \in Nat : Attempts(table, o) = 1..n
  BY <1>1, <1>2 DEF IInv, Numbered
<1>4. attemptNo[r] = n + 1
  <2>1. LatestAttemptNo(table, o) = n
    BY <1>3, LatestOfNumbered
  <2> QED
    BY <2>1 DEF QInv, Balanced
<1>5. PICK t : t = EffectiveTable
  OBVIOUS
<1>6. PICK u : u = EffectiveTable'
  OBVIOUS
<1>7. /\ Marked' = Marked \cup {r}
      /\ Telling' = Telling
  BY <1>1 DEF Moves, Marked, Telling, UnheardPoints
<1>8. Unheard' = Unheard
  BY <1>7, UnheardIsTelling
<1>9. r \notin DOMAIN t
  BY <1>2, <1>5, EffectiveRecords
<1>10. u = Insert(t, r, NewRow(o, n + 1, w))
  BY <1>2, <1>4, <1>5, <1>6, <1>7, <1>8 DEF EffectiveTable, Insert
<1>11. /\ RowsOf(t, o) = RowsOf(table, o)
       /\ \A e \in RowsOf(table, o) : /\ t[e].attempt = table[e].attempt
                                      /\ t[e].status # "PENDING"
  <2>1. \A e \in Marked : t[e].order = req[e].order
    BY <1>5, EffectiveRecords DEF NewRow
  <2>2. \A e \in Marked : req[e].order # o
    BY <1>2, OthersOrders
  <2>3. RowsOf(t, o) = RowsOf(table, o)
    BY <1>5, <2>1, <2>2, EffectiveRecords, EffectiveIdentity DEF RowsOf
  <2>4. ASSUME NEW e \in RowsOf(table, o)
        PROVE  t[e].attempt = table[e].attempt /\ t[e].status # "PENDING"
    <3>1. e \in DOMAIN table /\ table[e].order = o
      BY DEF RowsOf
    <3>2. e \notin Unheard
      BY <1>2, <3>1, OthersOrders, UnheardIsTelling
    <3>3. table[e].status # "PENDING"
      BY DEF QInv, OInv, RInv, SInv, GuardHolds, PendingOf
    <3> QED
      BY <1>5, <3>1, <3>2, <3>3, EffectiveIdentity
  <2> QED
    BY <2>3, <2>4
<1>12. Attempts(t, o) = 1..n
  BY <1>3, <1>11 DEF Attempts
<1>13. Unique(t) /\ Unique(u)
  BY <1>5, <1>6
<1>14. ~Contract!Waiting(o)
  <2>1. PendingOf(t, o) = {}
    BY <1>11 DEF PendingOf
  <2> QED
    BY <1>2, <1>5, <1>13, <2>1, NobodyWaits DEF Contract!Waiting
<1>15. Longer(HistoriesOf(t), HistoriesOf(u), o, w)
  <2>1. Appends(t, u, r, o, w, n)
    BY <1>9, <1>10, <1>12, <1>13 DEF Appends
  <2> QED
    BY <1>2, <2>1, AppendedHistories
<1> QED
  BY <1>2, <1>5, <1>6, <1>14, <1>15
     DEF Contract!Assign, Contract!Dispatched, Dispatched, HistoriesOf, Longer

\* A response takes effect when the order service has heard of it.
LEMMA TellStep ==
    ASSUME QInv, QInv', Unique(EffectiveTable), Unique(EffectiveTable'),
           NEW r \in Requests, pc[r] = "tell", Moves(r, "done"),
           UNCHANGED <<table, req, attemptNo>>,
           NEW d, d = req[r].dispatch, NEW o, o = table[d].order,
           orders' = [orders EXCEPT ![o] = IF req[r].response = "ACCEPT"
                                           THEN Confirmed(req[r].worker) ELSE Unassigned]
    PROVE  Contract!Next
<1> USE DEF UnheardPoints, AfterLookup, ConfirmPoints, Points
<1>1. /\ d \in DOMAIN table /\ table[d] \in Row /\ o \in Orders
      /\ ShowsAnswer(table[d], r) /\ table[d].worker = req[r].worker
      /\ pc \in [Requests -> Points] /\ req[r].response \in Responses
  <2>1. RInv /\ RowState(r) /\ pc \in [Requests -> Points] /\ req[r] \in Request
    BY DEF QInv, OInv, RInv, SInv, IInv, TypeOK
  <2>2. d \in DOMAIN table /\ table[d] \in Row
    BY <2>1, AtRecord
  <2> QED
    BY <2>1, <2>2 DEF RowState, Row, Request
<1>2. PICK t : t = EffectiveTable
  OBVIOUS
<1>3. PICK u : u = EffectiveTable'
  OBVIOUS
<1>4. Marked' = Marked /\ Unheard' = Unheard \ {d} /\ d \in Unheard /\ d \notin Marked
  <2>1. Marked' = Marked
    BY <1>1 DEF Moves, Marked
  <2>2. Unheard' = Unheard \ {d} /\ d \in Unheard
    BY HeardOf
  <2> QED
    BY <1>1, <2>1, <2>2, EffectiveRecords
<1>5. DOMAIN t = DOMAIN table \cup Marked /\ DOMAIN u = DOMAIN t
  BY <1>2, <1>3, <1>4 DEF EffectiveTable
<1>6. u[d] = table[d] /\ \A e \in DOMAIN t : e # d => u[e] = t[e]
  BY <1>1, <1>2, <1>3, <1>4, <1>5 DEF EffectiveTable
<1>7. /\ t[d].order = o /\ t[d].attempt = table[d].attempt
      /\ t[d].worker = table[d].worker /\ t[d].status = "PENDING"
  BY <1>1, <1>2, <1>4, EffectiveIdentity
<1>8. SameIdentities(t, u)
  BY <1>1, <1>5, <1>6, <1>7 DEF SameIdentities
<1>9. Restates(t, u, d, o)
  BY <1>1, <1>2, <1>3, <1>5, <1>6, <1>7, <1>8 DEF Restates
<1>10. PICK i : i = t[d].attempt
  OBVIOUS
<1>11. PICK h : h = HistoriesOf(t)
  OBVIOUS
<1>12. /\ i \in DOMAIN h[o] /\ h[o][i] = Entry(t[d])
       /\ Restated(h, HistoriesOf(u), o, i, u[d].status)
  <2>1. h[o] = HistoryOf(t, o)
    BY <1>1, <1>11 DEF HistoriesOf
  <2> QED
    BY <1>1, <1>9, <1>10, <1>11, <2>1, RestatedHistories
<1>13. h[o][i].status = "PENDING" /\ h[o][i].worker = req[r].worker
  BY <1>1, <1>7, <1>12 DEF Entry
<1>14. u[d].status = Contract!Verdict(req[r].response)
  BY <1>1, <1>6 DEF ShowsAnswer, Verdict, Contract!Verdict
<1>15. Contract!Answer(o, i, req[r].response)
  <2>1. HistoriesOf(u) = [h EXCEPT ![o][i].status = Contract!Verdict(req[r].response)]
    BY <1>12, <1>14 DEF Restated
  <2>2. orders' = [orders EXCEPT ![o] = IF req[r].response = "ACCEPT"
                       THEN Contract!Confirmed(h[o][i].worker) ELSE Contract!Unassigned]
    <3>1. /\ Confirmed(req[r].worker) = Contract!Confirmed(h[o][i].worker)
          /\ Unassigned = Contract!Unassigned
      BY <1>13 DEF Confirmed, Unassigned, Contract!Confirmed, Contract!Unassigned
    <3> QED
      BY <3>1
  <2>3. h = [p \in Orders |-> HistoryOf(EffectiveTable, p)]
    BY <1>2, <1>11 DEF HistoriesOf
  <2>4. HistoriesOf(u) = [p \in Orders |-> HistoryOf(EffectiveTable', p)]
    BY <1>3 DEF HistoriesOf
  <2>5. h[o][i].status = "PENDING"
    BY <1>13
  <2> QED
    BY <2>1, <2>2, <2>3, <2>4, <2>5, Zenon DEF Contract!Answer
<1>16. i \in DOMAIN [p \in Orders |-> HistoryOf(EffectiveTable, p)][o]
  BY <1>2, <1>11, <1>12 DEF HistoriesOf
<1> QED
  BY <1>1, <1>15, <1>16 DEF Contract!Next, Responses, Contract!Responses

\* Every other step, when only order calls fail, is silent.
LEMMA StepEffects ==
    ASSUME Hazards \subseteq {"refuse"}, QInv, Next
    PROVE  \/ UNCHANGED <<EffectiveTable, orders>>
           \/ \E r \in Requests :
                \/ CreateDispatch(r) \/ CommitResponse(r) \/ CommitRevert(r)
                \/ MarkOrderDispatched(r) /\ Moves(r, "create")
                     /\ orders' = [orders EXCEPT ![req[r].order] = Dispatched(req[r].worker)]
                \/ TellOrder(r) /\ Moves(r, "done")
                     /\ orders' = [orders EXCEPT ![table[req[r].dispatch].order] =
                                     IF req[r].response = "ACCEPT"
                                     THEN Confirmed(req[r].worker) ELSE Unassigned]
<1> USE DEF UnheardPoints, AssignPoints, ConfirmPoints, Points
<1>1. /\ "db" \notin Hazards /\ "cancel" \notin Hazards /\ "crash" \notin Hazards
      /\ "lostack" \notin Hazards
  OBVIOUS
<1>2. ASSUME NEW r \in Requests, NEW p \in Points, Moves(r, p), UNCHANGED <<table, orders>>,
             pc[r] # "create", p # "create",
             \/ pc[r] \notin UnheardPoints /\ p \notin UnheardPoints
             \/ pc[r] \in UnheardPoints /\ p \in UnheardPoints /\ req' = req
      PROVE  UNCHANGED <<EffectiveTable, orders>>
  BY <1>2, SilentStep
<1>3. ASSUME NEW r \in Requests, Start(r) PROVE UNCHANGED <<EffectiveTable, orders>>
  <2>1. PICK p \in {"check", "lookup", "done"} :
           Moves(r, p) /\ UNCHANGED <<table, orders>> /\ pc[r] = "idle"
    BY <1>3 DEF Start, RefuseBlank, StartAssign, StartConfirm, Finish, GoTo, Moves,
                QInv, OInv, RInv, SInv, IInv, TypeOK
  <2> QED
    BY <1>2, <2>1
<1>4. ASSUME NEW r \in Requests,
             HasPendingDispatch(r) \/ GetLatestAttemptNo(r) \/ RefreshCreated(r)
      PROVE  UNCHANGED <<EffectiveTable, orders>>
  <2>1. PICK p \in {"number", "mark", "done"} :
           /\ Moves(r, p) /\ UNCHANGED <<table, orders>>
           /\ pc[r] \in {"check", "number", "refresh"}
    BY <1>4 DEF HasPendingDispatch, GetLatestAttemptNo, RefreshCreated, Finish, GoTo, Moves,
                QInv, OInv, RInv, SInv, IInv, TypeOK
  <2> QED
    BY <1>2, <2>1
<1>5. ASSUME NEW r \in Requests,
             GetById(r) \/ LoadForResponse(r) \/ LoadForRevert(r) \/ RefreshUpdated(r)
      PROVE  UNCHANGED <<EffectiveTable, orders>>
  <2>1. PICK p \in {"load", "write", "tell", "revertWrite", "done"} :
           /\ Moves(r, p) /\ UNCHANGED <<table, orders, req>>
           /\ \/ p \in {"load", "write", "done"} /\ pc[r] \in {"lookup", "load"}
              \/ p \in UnheardPoints /\ pc[r] \in UnheardPoints
    BY <1>5 DEF GetById, LoadForResponse, LoadForRevert, RefreshUpdated, LoadRow, Finish,
       GoTo, Moves
  <2> QED
    BY <1>2, <2>1
<1>6. ASSUME NEW r \in Requests, MarkOrderDispatched(r)
      PROVE  \/ UNCHANGED <<EffectiveTable, orders>>
             \/ /\ Moves(r, "create")
                /\ orders' = [orders EXCEPT ![req[r].order] = Dispatched(req[r].worker)]
  <2>1. \/ Moves(r, "done") /\ UNCHANGED <<table, orders>> /\ pc[r] = "mark"
        \/ /\ Moves(r, "create")
           /\ orders' = [orders EXCEPT ![req[r].order] = Dispatched(req[r].worker)]
    BY <1>1, <1>6 DEF MarkOrderDispatched, OrderCall, OrderCallRaises, Finish, GoTo, Moves
  <2> QED
    BY <1>2, <2>1
<1>7. ASSUME NEW r \in Requests, TellOrder(r)
      PROVE  \/ UNCHANGED <<EffectiveTable, orders>>
             \/ /\ Moves(r, "done")
                /\ orders' = [orders EXCEPT ![table[req[r].dispatch].order] =
                                 IF req[r].response = "ACCEPT"
                                 THEN Confirmed(req[r].worker) ELSE Unassigned]
  <2>1. \/ Moves(r, "revertLoad") /\ UNCHANGED <<table, orders, req>> /\ pc[r] = "tell"
        \/ /\ Moves(r, "done")
           /\ orders' = [orders EXCEPT ![table[req[r].dispatch].order] =
                                 IF req[r].response = "ACCEPT"
                                 THEN Confirmed(req[r].worker) ELSE Unassigned]
    BY <1>1, <1>7 DEF TellOrder, OrderCall, OrderCallRaises, Finish, GoTo, Moves
  <2> QED
    BY <1>2, <2>1
<1>8. ASSUME NEW r \in Requests, SafeMarkOrderPending(r) PROVE FALSE
  BY <1>8 DEF SafeMarkOrderPending, QInv, Balanced
<1>9. ASSUME NEW r \in Requests, DbError(r) \/ Cancel(r) PROVE FALSE
  BY <1>1, <1>9 DEF DbError, DbErrorSurfaces, DbErrorCompensated, DbErrorSwallowed, Cancel
<1>10. ASSUME Finished PROVE UNCHANGED <<EffectiveTable, orders>>
  BY <1>10 DEF Finished, vars, EffectiveTable, Marked, Unheard
<1>11. ASSUME Restart PROVE FALSE
  BY <1>1, <1>11 DEF Restart
<1> QED
  BY <1>3, <1>4, <1>5, <1>6, <1>7, <1>8, <1>9, <1>10, <1>11 DEF Next, AssignStep, ConfirmStep

LEMMA InitIsContractInit == Init => Contract!Init
<1> SUFFICES ASSUME Init PROVE Contract!Init
  OBVIOUS
<1>1. DOMAIN EffectiveTable = {}
  BY DEF Init, EffectiveTable, Marked
<1>2. ASSUME NEW o \in Orders PROVE HistoryOf(EffectiveTable, o) = <<>>
  <2>1. Attempts(EffectiveTable, o) = {}
    BY <1>1 DEF Attempts, RowsOf
  <2> QED
    BY <2>1 DEF HistoryOf
<1> QED
  BY <1>2 DEF Init, Contract!Init, Contract!NewOrder, NewOrder

EInv == QInv /\ Unique(EffectiveTable)

LEMMA StepIsContractStep ==
    Hazards \subseteq {"refuse"} =>
        (EInv /\ EInv' /\ [Next]_vars
            => [Contract!Next]_<<[o \in Orders |-> HistoryOf(EffectiveTable, o)], orders>>)
<1> SUFFICES ASSUME Hazards \subseteq {"refuse"}, EInv, EInv', [Next]_vars
             PROVE  [Contract!Next]_<<[o \in Orders |-> HistoryOf(EffectiveTable, o)], orders>>
  OBVIOUS
<1> USE DEF EInv
<1>1. CASE UNCHANGED <<EffectiveTable, orders>>
  BY <1>1
<1>2. CASE UNCHANGED vars
  <2>1. UNCHANGED <<EffectiveTable, orders>>
    BY <1>2 DEF vars, EffectiveTable, Marked, Unheard
  <2> QED
    BY <1>1, <2>1
<1>3. ASSUME NEW r \in Requests, CreateDispatch(r) \/ CommitResponse(r) \/ CommitRevert(r)
      PROVE  UNCHANGED <<EffectiveTable, orders>>
  BY <1>3, InsertStep, UnheardStep
<1>4. ASSUME NEW r \in Requests, MarkOrderDispatched(r), Moves(r, "create"),
             orders' = [orders EXCEPT ![req[r].order] = Dispatched(req[r].worker)]
      PROVE  Contract!Next
  <2>1. pc[r] = "mark" /\ UNCHANGED <<table, req, attemptNo>>
    BY <1>4 DEF MarkOrderDispatched
  <2>2. PICK o, w : o = req[r].order /\ w = req[r].worker
    OBVIOUS
  <2>3. o \in Orders /\ w \in Workers /\ Contract!Assign(o, w)
    BY <1>4, <2>1, <2>2, MarkStep
  <2> QED
    BY <2>3 DEF Contract!Next
<1>5. ASSUME NEW r \in Requests, TellOrder(r), Moves(r, "done"),
             orders' = [orders EXCEPT ![table[req[r].dispatch].order] =
                           IF req[r].response = "ACCEPT"
                           THEN Confirmed(req[r].worker) ELSE Unassigned]
      PROVE  Contract!Next
  <2>1. pc[r] = "tell" /\ UNCHANGED <<table, req, attemptNo>>
    BY <1>5 DEF TellOrder
  <2> QED
    BY <1>5, <2>1, TellStep
<1> QED
  BY <1>1, <1>2, <1>3, <1>4, <1>5, StepEffects

\* Requests for different orders interleave and the order service may refuse
\* any call, yet the two stores change as one: each request takes effect in a
\* single step of the contract, or not at all.
THEOREM SqlImplementsContract ==
    ASSUME Hazards \subseteq {"refuse"}
    PROVE  Spec => ImplementsContract
<1>1. Spec => []QInv
  BY QInvHolds
<1>2. QInv => EInv
  BY EffectiveUnique DEF EInv
<1>3. EInv /\ EInv' /\ [Next]_vars
        => [Contract!Next]_<<[o \in Orders |-> HistoryOf(EffectiveTable, o)], orders>>
  BY StepIsContractStep
<1> QED
  BY InitIsContractInit, <1>1, <1>2, <1>3, PTL DEF Spec, ImplementsContract, Contract!Spec
=============================================================================
