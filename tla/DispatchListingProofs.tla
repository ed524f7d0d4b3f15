----------------------- MODULE DispatchListingProofs -----------------------
(***************************************************************************)
(* What a client that pages with list_dispatches can rely on, for any      *)
(* number of records and assignments and any limits: whatever is inserted  *)
(* between its pages, it has seen every record it was owed, it sees one    *)
(* twice only because of an insertion, and its pages are bounded.          *)
(***************************************************************************)
EXTENDS DispatchListing, FiniteSetTheorems, SequenceTheorems, TLAPS

Pager == [state: {"idle", "paging", "done", "refused"}, via: {"grpc", "http"},
          limit: Int, offset: Int, pages: Seq(Nat), owed: SUBSET Nat, inserted: Nat]

\* TypeOK, with what the values are where TypeOK only bounds them.
Types ==
    /\ backend \in {"sql", "memory"}
    /\ records \in Seq(Nat)
    /\ pager \in Pager
    /\ TypeOK

-----------------------------------------------------------------------------
(* The place of a record in the listing                                    *)

\* The order of the listing: newest first, equal times in order of insertion,
\* which is what the in-memory store does and what SQL may do.
Before(d, e) == records[d] > records[e] \/ (records[d] = records[e] /\ d < e)

AheadOf(d) == {e \in DOMAIN records : Before(e, d)}

Ahead(d) == Cardinality(AheadOf(d))

\* Record d has one place in every listing.
Placed(d) == backend = "memory" \/ Untied(d)

\* What the client was owed and has not seen is still ahead of it.  The records
\* it is not owed are those inserted since it began.
PagerInv ==
    /\ pager.state # "idle" => pager.owed = 1..(Len(records) - pager.inserted)
    /\ pager.state = "idle" => pager.owed = {} /\ pager.pages = <<>> /\ pager.inserted = 0
    /\ pager.inserted <= Len(records)
    /\ pager.offset = Len(pager.pages) \/ (pager.offset <= 0 /\ pager.pages = <<>>)
    /\ \A d \in pager.owed :
          (Placed(d) /\ d \notin ToSet(pager.pages)) => Ahead(d) >= pager.offset
    /\ PagerMissesNothing

\* Paging while nothing is inserted reads the listing from its beginning.
QuietInv ==
    (pager.inserted = 0 /\ \A d \in DOMAIN records : Placed(d)) =>
        \A i \in DOMAIN pager.pages : Ahead(pager.pages[i]) = i - 1

-----------------------------------------------------------------------------
(* What a step does                                                        *)

\* A record is inserted.
Inserts(at) ==
    /\ at \in Nat
    /\ records' = Append(records, at)
    /\ pager' = [pager EXCEPT !.inserted = IF pager.state = "idle" THEN @ ELSE @ + 1]
    /\ UNCHANGED backend

\* The client is answered a page.
Lists(limit, p) ==
    /\ pager.state = "paging"
    /\ limit \in Int /\ Valid(limit, pager.offset)
    /\ p \in NewestFirst
    /\ Received(Page(p, pager.offset, limit))
    /\ UNCHANGED <<backend, clock, taken, records>>

\* The client is refused, begins, or has done.
Refuses ==
    /\ pager.state = "paging" /\ Refused
    /\ UNCHANGED <<backend, clock, taken, records>>

Starts(offset) ==
    /\ offset \in Offsets
    /\ \E via \in {"grpc", "http"}, limit \in Limits : StartPaging(via, limit, offset)

LEMMA ListCases ==
    ASSUME Types, GrpcListDispatches \/ HttpListDispatches
    PROVE  Refuses \/ \E limit, p : Lists(limit, p)
<1>1. pager.limit \in Int /\ DefaultLimit \in Int
  BY ListingAssumption DEF Types, Pager
<1>2. CASE GrpcListDispatches
  BY <1>1, <1>2 DEF GrpcListDispatches, ListDispatches, Refuses, Lists
<1>3. CASE HttpListDispatches
  BY <1>1, <1>3 DEF HttpListDispatches, ListDispatches, Refuses, Lists
<1> QED
  BY <1>2, <1>3

LEMMA StepCases ==
    ASSUME Types, [Next]_vars
    PROVE  \/ \E at : Inserts(at)
           \/ \E limit, p : Lists(limit, p)
           \/ Refuses
           \/ \E offset : Starts(offset)
           \/ StopPaging
           \/ UNCHANGED <<backend, records, pager>>
<1>1. CASE CreateAtOnce
  BY <1>1, ListingAssumption DEF CreateAtOnce, InsertRecord, Inserts, Now
<1>2. ASSUME NEW h \in Handlers, TakeTime(h) \/ CreateDispatch(h) \/ Fail(h)
      PROVE  UNCHANGED <<backend, records, pager>> \/ \E at : Inserts(at)
  <2>1. taken[h] \in Nat
    BY ListingAssumption DEF Types, TypeOK
  <2> QED
    BY <1>2, <2>1 DEF TakeTime, CreateDispatch, Fail, InsertRecord, Inserts
<1>3. CASE \E via \in {"grpc", "http"}, limit \in Limits, offset \in Offsets :
              StartPaging(via, limit, offset)
  BY <1>3 DEF Starts
<1>4. CASE UNCHANGED vars
  BY <1>4 DEF vars
<1> QED
  BY <1>1, <1>2, <1>3, <1>4, ListCases DEF Next

-----------------------------------------------------------------------------
(* A page                                                                  *)

LEMMA UpTo ==
    ASSUME NEW n \in Nat
    PROVE  IsFiniteSet(1..n) /\ Cardinality(1..n) = n
BY FS_Interval

LEMMA Listing ==
    ASSUME Types, NEW p \in NewestFirst
    PROVE  /\ Len(records) \in Nat /\ DOMAIN records = 1..Len(records)
           /\ p \in [1..Len(records) -> 1..Len(records)]
           /\ p \in Seq(1..Len(records)) /\ Len(p) = Len(records)
           /\ \A i, j \in 1..Len(records) : i # j => p[i] # p[j]
           /\ \A d \in 1..Len(records) : \E i \in 1..Len(records) : p[i] = d
           /\ Sorted(p)
<1> DEFINE n == Len(records)
<1>1. n \in Nat /\ DOMAIN records = 1..n
  BY DEF Types
<1>2. IsFiniteSet(1..n) /\ Cardinality(1..n) = n
  BY <1>1, UpTo
<1>3. /\ p \in [1..n -> 1..n] /\ Sorted(p)
      /\ \A i, j \in 1..n : i # j => p[i] # p[j]
  BY <1>1, <1>2 DEF NewestFirst, SetToSeqs
<1>4. p \in Injection(1..n, 1..n)
  BY <1>3 DEF Injection, IsInjective
<1>5. p \in Surjection(1..n, 1..n)
  BY <1>2, <1>4, FS_Injection
<1>6. \A d \in 1..n : \E i \in 1..n : p[i] = d
  BY <1>5 DEF Surjection
<1>7. p \in Seq(1..n) /\ Len(p) = n
  BY <1>1, <1>3
<1> QED
  BY <1>1, <1>3, <1>6, <1>7

\* Before is a total order of the records.
LEMMA BeforeIsOrder ==
    ASSUME Types, NEW d \in DOMAIN records, NEW e \in DOMAIN records
    PROVE  /\ ~(Before(d, e) /\ Before(e, d))
           /\ d = e \/ Before(d, e) \/ Before(e, d)
           /\ \A c \in DOMAIN records : Before(c, d) /\ Before(d, e) => Before(c, e)
<1>1. \A c \in DOMAIN records : c \in Nat /\ records[c] \in Nat
  BY DEF Types
<1> QED
  BY <1>1 DEF Before

\* Whatever a query may do, it lists a record that has one place in order.
LEMMA ListedInOrder ==
    ASSUME Types, NEW p \in NewestFirst, NEW i \in 1..Len(records), NEW j \in 1..Len(records),
           i < j, Placed(p[i]) \/ Placed(p[j])
    PROVE  Before(p[i], p[j])
<1>0. Len(records) \in Nat /\ DOMAIN records = 1..Len(records) /\ i # j
  BY Listing
<1>1. /\ p[i] \in DOMAIN records /\ p[j] \in DOMAIN records /\ p[i] # p[j]
      /\ i \in DOMAIN p /\ j \in DOMAIN p
  <2>1. p \in [DOMAIN records -> DOMAIN records]
    BY Listing
  <2>2. p[i] # p[j]
    BY <1>0, Listing
  <2> QED
    BY <1>0, <2>1, <2>2
<1>2. \/ records[p[i]] > records[p[j]]
      \/ records[p[i]] = records[p[j]] /\ (backend = "memory" => p[i] < p[j])
  BY Listing, <1>1 DEF Sorted
<1> QED
  BY <1>1, <1>2 DEF Before, Placed, Untied

\* A record that has one place is found there by every query.
LEMMA Place ==
    ASSUME Types, NEW p \in NewestFirst, NEW i \in 1..Len(records), Placed(p[i])
    PROVE  Ahead(p[i]) = i - 1
<1> DEFINE n == Len(records)
           front == 1..(i - 1)
           f == [j \in front |-> p[j]]
<1>1. n \in Nat /\ DOMAIN records = 1..n /\ i \in 1..n
  BY Listing
<1>2. \A j \in 1..n : p[j] \in 1..n
  BY Listing
<1>3. \A j, k \in 1..n : j # k => p[j] # p[k]
  BY Listing
<1>4. \A d \in 1..n : \E j \in 1..n : p[j] = d
  BY Listing
<1> HIDE DEF n
<1>5. i \in Nat /\ i - 1 \in Nat /\ \A j \in front : j \in 1..n /\ j < i
  BY <1>1
<1>6. ASSUME NEW j \in front
      PROVE  p[j] \in AheadOf(p[i])
  <2>1. Before(p[j], p[i])
    BY <1>1, <1>5, ListedInOrder DEF n
  <2> QED
    BY <1>1, <1>2, <1>5, <2>1 DEF AheadOf
<1>7. ASSUME NEW e \in AheadOf(p[i])
      PROVE  \E j \in front : p[j] = e
  <2>1. e \in 1..n /\ p[i] \in 1..n /\ Before(e, p[i])
    BY <1>1, <1>2 DEF AheadOf
  <2>2. PICK j \in 1..n : p[j] = e
    BY <1>4, <2>1
  <2>3. ~Before(p[i], e)
    BY <1>1, <2>1, BeforeIsOrder
  <2>4. j # i
    BY <2>1, <2>2, <2>3
  <2>5. ~(i < j)
    BY <1>1, <2>2, <2>3, ListedInOrder DEF n
  <2>6. j \in front
    BY <1>1, <2>4, <2>5
  <2> QED
    BY <2>2, <2>6
<1>8. f \in [front -> AheadOf(p[i])]
  BY <1>6
<1>9. f \in Injection(front, AheadOf(p[i]))
  <2>1. \A j, k \in front : f[j] = f[k] => j = k
    BY <1>3, <1>5
  <2> QED
    BY <1>8, <2>1 DEF Injection, IsInjective
<1>10. f \in Surjection(front, AheadOf(p[i]))
  BY <1>7, <1>8 DEF Surjection
<1>11. ExistsBijection(front, AheadOf(p[i]))
  BY <1>9, <1>10 DEF ExistsBijection, Bijection
<1>12. IsFiniteSet(front) /\ Cardinality(front) = i - 1
  BY <1>5, UpTo
<1> QED
  BY <1>11, <1>12, FS_Bijection DEF Ahead

\* What a page holds: the records in the places behind the offset, as many as
\* there are and as the limit allows.
PageOf(p, offset, rows) ==
    /\ rows \in Seq(1..Len(records)) /\ Len(rows) \in Nat
    /\ Len(rows) <= MaxLimit
    /\ rows # <<>> => offset + Len(rows) <= Len(records)
    /\ rows = <<>> => Len(records) <= offset
    /\ \A j \in 1..Len(rows) : rows[j] = p[offset + j] /\ offset + j \in 1..Len(records)
    /\ \A i \in 1..Len(records) :
          (offset < i /\ p[i] \notin ToSet(rows)) => offset + Len(rows) < i

LEMMA PageProperties ==
    ASSUME Types, NEW p \in NewestFirst, NEW limit \in Int, NEW offset \in Int,
           Valid(limit, offset)
    PROVE  PageOf(p, offset, Page(p, offset, limit))
<1>0. PICK rows : rows = Page(p, offset, limit)
  OBVIOUS
<1> DEFINE n == Len(records)
           last == IF offset + limit <= n THEN offset + limit ELSE n
<1>1. /\ n \in Nat /\ Len(p) = n
      /\ limit > 0 /\ limit <= MaxLimit /\ offset >= 0 /\ offset \in Nat
      /\ last \in Nat /\ last <= n /\ last <= offset + limit
      /\ offset < n => offset < last
  BY Listing DEF Valid
<1>2. \A i \in 1..n : p[i] \in 1..n
  BY Listing
<1> HIDE DEF n
<1>3. Min({offset + limit, n}) = last
  BY <1>1 DEF Min
<1>4. rows = SubSeq(p, offset + 1, last)
  BY <1>0, <1>1, <1>3 DEF Page
<1> HIDE DEF last
<1>5. \A i \in (offset + 1)..last : p[i] \in 1..n
  BY <1>1, <1>2
<1>6. /\ rows \in Seq(1..n)
      /\ Len(rows) = IF offset + 1 <= last THEN last - (offset + 1) + 1 ELSE 0
      /\ \A j \in 1..(last - (offset + 1) + 1) : rows[j] = p[offset + 1 + j - 1]
  BY <1>1, <1>4, <1>5, SubSeqProperties
<1>7. /\ Len(rows) \in Nat /\ DOMAIN rows = 1..Len(rows)
      /\ rows = <<>> <=> Len(rows) = 0
  BY <1>6
<1>8. Len(rows) = IF offset < last THEN last - offset ELSE 0
  BY <1>1, <1>6
<1>9. ASSUME NEW j \in 1..Len(rows)
      PROVE  rows[j] = p[offset + j] /\ offset + j \in 1..n
  <2>1. j \in Nat /\ j <= Len(rows) /\ offset < last
    BY <1>7, <1>8
  <2>2. j \in 1..(last - (offset + 1) + 1) /\ offset + 1 + j - 1 = offset + j
    BY <1>1, <1>8, <2>1
  <2> QED
    BY <1>1, <1>6, <1>8, <2>1, <2>2
<1>10. ASSUME NEW i \in 1..n, offset < i, i <= offset + Len(rows)
       PROVE  p[i] \in ToSet(rows)
  <2>1. i \in Nat /\ i - offset \in 1..Len(rows) /\ offset + (i - offset) = i
    BY <1>1, <1>7, <1>10
  <2>2. rows[i - offset] = p[i]
    BY <1>9, <2>1
  <2> QED
    BY <1>7, <2>1, <2>2 DEF ToSet
<1>11. /\ Len(rows) <= MaxLimit
       /\ rows # <<>> => offset + Len(rows) <= n
       /\ rows = <<>> => n <= offset
  BY <1>1, <1>7, <1>8, ListingAssumption
<1>12. ASSUME NEW i \in 1..n, offset < i, p[i] \notin ToSet(rows)
       PROVE  offset + Len(rows) < i
  BY <1>1, <1>7, <1>10, <1>12
<1> QED
  BY <1>0, <1>1, <1>6, <1>7, <1>9, <1>11, <1>12 DEF n, PageOf
-----------------------------------------------------------------------------
(* An insertion                                                            *)

\* No record moves towards the front when another is inserted.
LEMMA InsertedAhead ==
    ASSUME Types, NEW at, Inserts(at)
    PROVE  /\ records' \in Seq(Nat) /\ Len(records') = Len(records) + 1
           /\ DOMAIN records \subseteq DOMAIN records'
           /\ \A d \in DOMAIN records : records'[d] = records[d]
           /\ \A d \in DOMAIN records : Placed(d)' => Placed(d)
           /\ \A d \in DOMAIN records : /\ Ahead(d) \in Nat /\ Ahead(d)' \in Nat
                                        /\ Ahead(d)' >= Ahead(d)
<1> DEFINE n == Len(records)
<1>1. n \in Nat /\ DOMAIN records = 1..n
  BY DEF Types
<1>2. /\ records' \in Seq(Nat) /\ Len(records') = n + 1
      /\ \A d \in 1..n : records'[d] = records[d]
  BY <1>1 DEF Types, Inserts
<1>3. DOMAIN records' = 1..(n + 1) /\ 1..n \subseteq 1..(n + 1)
  BY <1>1, <1>2
<1> HIDE DEF n
<1>4. ASSUME NEW d \in 1..n, Placed(d)'
      PROVE  Placed(d)
  BY <1>1, <1>2, <1>3, <1>4 DEF Placed, Untied, Inserts
<1>5. ASSUME NEW d \in 1..n
      PROVE  Ahead(d) \in Nat /\ Ahead(d)' \in Nat /\ Ahead(d)' >= Ahead(d)
  <2>1. AheadOf(d) \subseteq AheadOf(d)'
    BY <1>1, <1>2, <1>3 DEF AheadOf, Before
  <2>2. AheadOf(d)' \subseteq 1..(n + 1)
    BY <1>3 DEF AheadOf
  <2>3. IsFiniteSet(1..(n + 1))
    BY <1>1, UpTo
  <2>4. IsFiniteSet(AheadOf(d)')
    BY <2>2, <2>3, FS_Subset
  <2>5. /\ Cardinality(AheadOf(d)) <= Cardinality(AheadOf(d)')
        /\ IsFiniteSet(AheadOf(d))
    BY <2>1, <2>4, FS_Subset
  <2>6. Cardinality(AheadOf(d)) \in Nat /\ Cardinality(AheadOf(d)') \in Nat
    BY <2>4, <2>5, FS_CardinalityType
  <2> QED
    BY <2>5, <2>6 DEF Ahead
<1> QED
  BY <1>1, <1>2, <1>3, <1>4, <1>5 DEF n

-----------------------------------------------------------------------------
(* Typing, and the size of a page                                          *)

LEMMA InitTypes == Init => Types
<1> SUFFICES ASSUME Init PROVE Types
  OBVIOUS
<1>1. NoPager \in Pager /\ records \in Seq(Nat) /\ Len(records) = 0 /\ DOMAIN records = {}
  BY DEF Init, NoPager, Pager
<1>2. ToSet(pager.pages) = {}
  BY DEF Init, NoPager, ToSet
<1> QED
  BY <1>1, <1>2, ListingAssumption DEF Init, NoPager, Types, TypeOK

\* The clock, the assignments and the records.
LEMMA ClockTypes ==
    ASSUME Types, [Next]_vars
    PROVE  /\ clock' \in 0..MaxTime
           /\ taken' \in [Handlers -> 0..clock']
           /\ \A i \in DOMAIN records' : records'[i] \in 1..clock'
<1>1. /\ clock \in 0..MaxTime /\ clock \in Nat /\ MaxTime \in Nat
      /\ taken \in [Handlers -> 0..clock]
      /\ records \in Seq(Nat) /\ \A i \in DOMAIN records : records[i] \in 1..clock
  BY ListingAssumption DEF Types, TypeOK
<1>2. ASSUME NEW t \in Now
      PROVE  t \in 0..MaxTime /\ t \in 1..t /\ t \in 0..t /\ clock <= t
  BY <1>1 DEF Now
<1>3. ASSUME NEW at \in 1..clock', clock' \in Nat, clock <= clock', records' = Append(records, at)
      PROVE  \A i \in DOMAIN records' : records'[i] \in 1..clock'
  <2>1. \A i \in DOMAIN records' : (i \in DOMAIN records /\ records'[i] = records[i])
                                       \/ records'[i] = at
    BY <1>1, <1>3
  <2>2. \A k \in 1..clock : k \in 1..clock'
    BY <1>1, <1>3
  <2>3. \A i \in DOMAIN records : records[i] \in 1..clock'
    BY <1>1, <2>2
  <2> QED
    BY <1>3, <2>1, <2>3
<1>4. CASE CreateAtOnce
  <2>1. PICK t \in Now : clock' = t /\ InsertRecord(t)
    BY <1>4 DEF CreateAtOnce
  <2>2. t \in 0..MaxTime /\ t \in 1..t /\ clock <= t
    BY <1>2
  <2>3. taken \in [Handlers -> 0..clock']
    BY <1>1, <2>1, <2>2
  <2>4. \A i \in DOMAIN records' : records'[i] \in 1..clock'
    BY <1>1, <1>3, <2>1, <2>2 DEF InsertRecord
  <2> QED
    BY <1>4, <2>1, <2>2, <2>3, <2>4 DEF CreateAtOnce
<1>5. ASSUME NEW h \in Handlers, TakeTime(h)
      PROVE  /\ clock' \in 0..MaxTime
             /\ taken' \in [Handlers -> 0..clock']
             /\ \A i \in DOMAIN records' : records'[i] \in 1..clock'
  <2>1. PICK t \in Now : clock' = t /\ taken' = [taken EXCEPT ![h] = t]
    BY <1>5 DEF TakeTime
  <2>2. t \in 0..MaxTime /\ t \in 0..t /\ clock <= t
    BY <1>2
  <2>3. taken' \in [Handlers -> 0..clock']
    BY <1>1, <2>1, <2>2
  <2>4. \A i \in DOMAIN records' : records'[i] \in 1..clock'
    BY <1>1, <1>5, <2>1, <2>2 DEF TakeTime
  <2> QED
    BY <2>1, <2>2, <2>3, <2>4
<1>6. ASSUME NEW h \in Handlers, CreateDispatch(h)
      PROVE  /\ clock' \in 0..MaxTime
             /\ taken' \in [Handlers -> 0..clock']
             /\ \A i \in DOMAIN records' : records'[i] \in 1..clock'
  <2>1. taken[h] \in 1..clock' /\ clock' = clock /\ records' = Append(records, taken[h])
    BY <1>1, <1>6 DEF CreateDispatch, InsertRecord
  <2>2. taken' \in [Handlers -> 0..clock']
    BY <1>1, <1>6 DEF CreateDispatch
  <2> QED
    BY <1>1, <1>3, <2>1, <2>2
<1>7. ASSUME NEW h \in Handlers, Fail(h)
      PROVE  /\ clock' \in 0..MaxTime
             /\ taken' \in [Handlers -> 0..clock']
             /\ \A i \in DOMAIN records' : records'[i] \in 1..clock'
  BY <1>1, <1>7 DEF Fail
<1>8. ASSUME UNCHANGED <<clock, taken, records>>
      PROVE  /\ clock' \in 0..MaxTime
             /\ taken' \in [Handlers -> 0..clock']
             /\ \A i \in DOMAIN records' : records'[i] \in 1..clock'
  BY <1>1, <1>8
<1>9. \/ CreateAtOnce
      \/ \E h \in Handlers : TakeTime(h) \/ CreateDispatch(h) \/ Fail(h)
      \/ UNCHANGED <<clock, taken, records>>
  <2>1. ASSUME NEW via \in {"grpc", "http"}, NEW limit \in Limits, NEW offset \in Offsets,
               StartPaging(via, limit, offset)
        PROVE  UNCHANGED <<clock, taken, records>>
    BY <2>1 DEF StartPaging
  <2>2. GrpcListDispatches \/ HttpListDispatches \/ StopPaging \/ UNCHANGED vars
           => UNCHANGED <<clock, taken, records>>
    BY Zenon DEF GrpcListDispatches, HttpListDispatches, StopPaging, vars
  <2> QED
    BY <2>1, <2>2 DEF Next
<1> QED
  BY <1>4, <1>5, <1>6, <1>7, <1>8, <1>9

LEMMA Concatenation ==
    ASSUME NEW s \in Seq(Nat), NEW t \in Seq(Nat)
    PROVE  /\ s \o t \in Seq(Nat) /\ Len(s) \in Nat /\ Len(t) \in Nat
           /\ Len(s \o t) = Len(s) + Len(t)
           /\ \A i \in 1..Len(s) : (s \o t)[i] = s[i] /\ i \in 1..Len(s \o t)
           /\ \A j \in 1..Len(t) : (s \o t)[Len(s) + j] = t[j] /\ Len(s) + j \in 1..Len(s \o t)
           /\ \A i \in 1..Len(s \o t) : i \in 1..Len(s) \/ \E j \in 1..Len(t) : i = Len(s) + j
           /\ ToSet(s \o t) = ToSet(s) \cup ToSet(t)
<1> DEFINE m == Len(s)  n == Len(t)  u == s \o t
<1>1. /\ m \in Nat /\ n \in Nat /\ u \in Seq(Nat) /\ Len(u) = m + n
      /\ DOMAIN s = 1..m /\ DOMAIN t = 1..n /\ DOMAIN u = 1..(m + n)
  OBVIOUS
<1>2. \A i \in 1..(m + n) : u[i] = IF i <= m THEN s[i] ELSE t[i - m]
  BY ConcatProperties
<1> HIDE DEF m, n, u
<1>3. \A i \in 1..m : u[i] = s[i] /\ i \in 1..(m + n)
  BY <1>1, <1>2
<1>4. ASSUME NEW j \in 1..n
      PROVE  u[m + j] = t[j] /\ m + j \in 1..(m + n)
  <2>1. m + j \in 1..(m + n) /\ ~(m + j <= m) /\ (m + j) - m = j
    BY <1>1
  <2> QED
    BY <1>2, <2>1
<1>5. ASSUME NEW i \in 1..(m + n)
      PROVE  i \in 1..m \/ \E j \in 1..n : i = m + j
  <2>1. i \in 1..m \/ (i - m \in 1..n /\ i = m + (i - m))
    BY <1>1
  <2> QED
    BY <2>1
<1>6. ToSet(s) = {s[i] : i \in 1..m} /\ ToSet(t) = {t[j] : j \in 1..n}
      /\ ToSet(u) = {u[i] : i \in 1..(m + n)}
  BY <1>1 DEF ToSet
<1>7. ToSet(u) = ToSet(s) \cup ToSet(t)
  <2>1. ASSUME NEW i \in 1..(m + n)
        PROVE  u[i] \in ToSet(s) \cup ToSet(t)
    BY <1>3, <1>4, <1>5, <1>6
  <2>2. ASSUME NEW i \in 1..m
        PROVE  s[i] \in ToSet(u)
    BY <1>3, <1>6
  <2>3. ASSUME NEW j \in 1..n
        PROVE  t[j] \in ToSet(u)
    BY <1>4, <1>6
  <2> QED
    BY <1>6, <2>1, <2>2, <2>3
<1>8. /\ u \in Seq(Nat) /\ m \in Nat /\ n \in Nat /\ Len(u) = m + n
      /\ \A i \in 1..m : u[i] = s[i] /\ i \in 1..Len(u)
      /\ \A j \in 1..n : u[m + j] = t[j] /\ m + j \in 1..Len(u)
      /\ \A i \in 1..Len(u) : i \in 1..m \/ \E j \in 1..n : i = m + j
      /\ ToSet(u) = ToSet(s) \cup ToSet(t)
  BY <1>1, <1>3, <1>4, <1>5, <1>7
<1> QED
  BY <1>8 DEF m, n, u

\* How the client begins, has done and is refused.
LEMMA Started ==
    ASSUME Types, NEW offset, Starts(offset)
    PROVE  /\ pager' \in Pager /\ pager'.state = "paging" /\ pager'.offset = offset
           /\ pager'.pages = <<>> /\ pager'.owed = DOMAIN records /\ pager'.inserted = 0
           /\ pager.state = "idle" /\ offset \in Offsets /\ offset \in Int
           /\ UNCHANGED <<backend, records>>
<1>1. PICK via \in {"grpc", "http"}, limit \in Limits : StartPaging(via, limit, offset)
  BY DEF Starts
<1>2. offset \in Offsets /\ offset \in Int /\ limit \in Int
  BY ListingAssumption DEF Starts
<1>3. DOMAIN records \subseteq Nat
  BY DEF Types
<1>4. pager' = [state |-> "paging", via |-> via, limit |-> limit, offset |-> offset,
                pages |-> <<>>, owed |-> DOMAIN records, inserted |-> 0]
  BY <1>1 DEF StartPaging, NoPager
<1>5. pager' \in Pager
  BY <1>2, <1>3, <1>4 DEF Pager
<1>6. /\ pager'.state = "paging" /\ pager'.offset = offset /\ pager'.pages = <<>>
      /\ pager'.owed = DOMAIN records /\ pager'.inserted = 0
  BY <1>4
<1>7. pager.state = "idle" /\ UNCHANGED <<backend, records>>
  BY <1>1 DEF StartPaging
<1> QED
  BY <1>2, <1>5, <1>6, <1>7

LEMMA Stopped ==
    ASSUME StopPaging
    PROVE  /\ pager' \in Pager /\ pager'.state = "idle" /\ pager'.offset = 0
           /\ pager'.pages = <<>> /\ pager'.owed = {} /\ pager'.inserted = 0
           /\ UNCHANGED <<backend, records>>
BY DEF StopPaging, NoPager, Pager

LEMMA WasRefused ==
    ASSUME Types, Refuses
    PROVE  /\ pager' \in Pager /\ pager'.state = "refused" /\ pager'.offset = pager.offset
           /\ pager'.pages = pager.pages /\ pager'.owed = pager.owed
           /\ pager'.inserted = pager.inserted
           /\ pager.state = "paging" /\ UNCHANGED <<backend, records>>
BY DEF Types, Refuses, Refused, Pager

\* What the client holds while a record is inserted.
LEMMA WasInserted ==
    ASSUME Types, NEW at, Inserts(at)
    PROVE  /\ pager' \in Pager /\ pager'.state = pager.state /\ pager'.offset = pager.offset
           /\ pager'.pages = pager.pages /\ pager'.owed = pager.owed
           /\ pager.inserted \in Nat
           /\ pager'.inserted = IF pager.state = "idle" THEN pager.inserted
                                ELSE pager.inserted + 1
           /\ UNCHANGED backend
<1>1. pager \in Pager /\ pager.inserted \in Nat /\ pager.inserted + 1 \in Nat
  BY DEF Types, Pager
<1>2. PICK k \in Nat : /\ pager' = [pager EXCEPT !.inserted = k]
                       /\ k = IF pager.state = "idle" THEN pager.inserted
                              ELSE pager.inserted + 1
  BY <1>1 DEF Inserts
<1>3. /\ pager' \in Pager /\ pager'.state = pager.state /\ pager'.offset = pager.offset
      /\ pager'.pages = pager.pages /\ pager'.owed = pager.owed /\ pager'.inserted = k
  BY <1>1, <1>2 DEF Pager
<1> QED
  BY <1>1, <1>2, <1>3 DEF Inserts

\* What the client holds once it is answered a page: no more than was asked
\* for, and nothing only when the offset is behind the last record.
ListedTo(p, rows) ==
    /\ p \in NewestFirst /\ PageOf(p, pager.offset, rows)
    /\ pager' \in Pager /\ pager'.owed = pager.owed /\ pager'.inserted = pager.inserted
    /\ pager.state = "paging" /\ pager.offset \in Nat
    /\ rows \in Seq(Nat) /\ pager.pages \in Seq(Nat) /\ Len(rows) \in Nat
    /\ pager'.pages = pager.pages \o rows
    /\ Len(pager'.pages) = Len(pager.pages) + Len(rows)
    /\ ToSet(pager'.pages) = ToSet(pager.pages) \cup ToSet(rows)
    /\ ToSet(rows) \subseteq DOMAIN records
    /\ pager'.offset = pager.offset + Len(rows)
    /\ rows = <<>> => /\ pager'.state = "done" /\ pager'.offset = pager.offset
                      /\ pager'.pages = pager.pages
    /\ rows # <<>> => pager'.state = "paging" /\ pager'.offset \in 0..Len(records)
    /\ UNCHANGED <<backend, records>>

LEMMA WasListed ==
    ASSUME Types, NEW limit, NEW p, Lists(limit, p)
    PROVE  \E rows : ListedTo(p, rows)
<1>1. PICK rows : rows = Page(p, pager.offset, limit)
  OBVIOUS
<1>2. PICK offset : offset = pager.offset
  OBVIOUS
<1>3. PICK seen : seen = pager.pages
  OBVIOUS
<1>4. /\ limit \in Int /\ offset \in Int /\ Valid(limit, offset) /\ p \in NewestFirst
      /\ UNCHANGED <<backend, records>> /\ pager \in Pager /\ pager.state = "paging"
      /\ seen \in Seq(Nat) /\ Len(records) \in Nat /\ offset \in Nat
  BY <1>2, <1>3 DEF Lists, Types, Pager, Valid
<1>5. PageOf(p, offset, rows)
  BY <1>1, <1>2, <1>4, PageProperties
<1>6. /\ rows \in Seq(1..Len(records)) /\ Len(rows) \in Nat
      /\ rows # <<>> => offset + Len(rows) <= Len(records)
  BY <1>5 DEF PageOf
<1>7. rows \in Seq(Nat) /\ ToSet(rows) \subseteq DOMAIN records
  <2>1. 1..Len(records) \subseteq Nat /\ DOMAIN records = 1..Len(records)
    BY <1>4 DEF Types
  <2>2. rows \in Seq(Nat)
    BY <1>6, <2>1, SeqMonotonic
  <2>3. \A j \in DOMAIN rows : rows[j] \in 1..Len(records)
    BY <1>6
  <2> QED
    BY <2>1, <2>2, <2>3 DEF ToSet
<1>8. PICK pages \in Seq(Nat) :
         /\ pages = seen \o rows /\ Len(pages) = Len(seen) + Len(rows)
         /\ ToSet(pages) = ToSet(seen) \cup ToSet(rows)
  BY <1>4, <1>7, Concatenation
<1>9. PICK next \in Nat : next = offset + Len(rows)
  BY <1>4, <1>6
<1>10. PICK state \in {"done", "paging"} : state = IF rows = <<>> THEN "done" ELSE "paging"
  OBVIOUS
<1>11. pager' = [pager EXCEPT !.state = state, !.offset = next, !.pages = pages]
  BY <1>1, <1>2, <1>3, <1>4, <1>8, <1>9, <1>10 DEF Lists, Received, Pager
<1>12. /\ pager' \in Pager /\ pager'.offset = next /\ pager'.pages = pages
       /\ pager'.state = state
       /\ pager'.owed = pager.owed /\ pager'.inserted = pager.inserted
  <2>1. pager \in Pager /\ next \in Int
    BY <1>4
  <2>2. pager' \in Pager
    BY <1>11, <2>1 DEF Pager
  <2>3. pager'.offset = next /\ pager'.pages = pages /\ pager'.state = state
    BY <1>11, <2>1 DEF Pager
  <2>4. pager'.owed = pager.owed /\ pager'.inserted = pager.inserted
    BY <1>11, <2>1 DEF Pager
  <2> QED
    BY <2>2, <2>3, <2>4
<1>13. rows = <<>> => next = offset /\ pages = seen
  BY <1>4, <1>6, <1>8, <1>9
<1>14. rows # <<>> => next \in 0..Len(records)
  BY <1>4, <1>6, <1>9
<1> QED
  BY <1>2, <1>3, <1>4, <1>5, <1>6, <1>7, <1>8, <1>9, <1>10, <1>12, <1>13, <1>14 DEF ListedTo

\* What of TypeOK an answer, a refusal or the client may change.
LEMMA PagerTypes ==
    ASSUME Types, [Next]_vars
    PROVE  /\ pager' \in Pager /\ backend' \in {"sql", "memory"} /\ records' \in Seq(Nat)
           /\ pager'.owed \subseteq DOMAIN records'
           /\ ToSet(pager'.pages) \subseteq DOMAIN records'
           /\ pager'.offset \in Offsets \cup 0..Len(records')
<1> DEFINE Goal == /\ pager' \in Pager /\ backend' \in {"sql", "memory"} /\ records' \in Seq(Nat)
                   /\ pager'.owed \subseteq DOMAIN records'
                   /\ ToSet(pager'.pages) \subseteq DOMAIN records'
                   /\ pager'.offset \in Offsets \cup 0..Len(records')
<1>1. /\ pager \in Pager /\ backend \in {"sql", "memory"} /\ records \in Seq(Nat)
      /\ pager.owed \subseteq DOMAIN records
      /\ ToSet(pager.pages) \subseteq DOMAIN records
      /\ pager.offset \in Offsets \cup 0..Len(records)
  BY DEF Types, TypeOK
<1>2. Len(records) \in Nat /\ DOMAIN records = 1..Len(records) /\ Offsets \subseteq Int
  BY <1>1, ListingAssumption
<1>3. ToSet(<<>>) = {} /\ 0 \in 0..Len(records)
  BY <1>2 DEF ToSet
<1>4. ASSUME NEW at, Inserts(at)
      PROVE  Goal
  <2>1. /\ pager' \in Pager
        /\ pager'.owed = pager.owed /\ pager'.pages = pager.pages /\ pager'.offset = pager.offset
        /\ UNCHANGED backend
    BY <1>4, WasInserted
  <2>2. /\ records' \in Seq(Nat) /\ DOMAIN records \subseteq DOMAIN records'
        /\ Len(records') = Len(records) + 1
    BY <1>4, InsertedAhead
  <2>3. 0..Len(records) \subseteq 0..Len(records')
    BY <1>2, <2>2
  <2> QED
    BY <1>1, <2>1, <2>2, <2>3
<1>5. ASSUME NEW limit, NEW p, Lists(limit, p)
      PROVE  Goal
  <2>1. PICK rows : ListedTo(p, rows)
    BY <1>5, WasListed
  <2> QED
    BY <1>1, <2>1 DEF ListedTo
<1>6. CASE Refuses
  BY <1>1, <1>6, WasRefused
<1>7. ASSUME NEW offset, Starts(offset)
      PROVE  Goal
  BY <1>1, <1>3, <1>7, Started
<1>8. CASE StopPaging
  BY <1>1, <1>3, <1>8, Stopped
<1>9. CASE UNCHANGED <<backend, records, pager>>
  BY <1>1, <1>9
<1> QED
  BY <1>4, <1>5, <1>6, <1>7, <1>8, <1>9, StepCases

LEMMA StepTypes == Types /\ [Next]_vars => Types'
BY ClockTypes, PagerTypes DEF Types, TypeOK

LEMMA SpecTypes == Spec => []Types
BY InitTypes, StepTypes, PTL DEF Spec

\* Nothing that is listed, owed or under way is outside what there is: what a
\* client was given and is owed are records, its offset is one it sent or one
\* within the records, and no record or assignment is of a time to come.
THEOREM ListingTypeCorrect == Spec => []TypeOK
BY SpecTypes, PTL DEF Types

\* No answer of list_dispatches holds more than MaxLimit records, whatever the
\* limit, the offset and the transport.
THEOREM PagesStayBounded == Spec => PagesAreBounded
<1>1. Types /\ [Next]_vars => [Len(pager'.pages) <= Len(pager.pages) + MaxLimit]_vars
  <2> SUFFICES ASSUME Types, [Next]_vars
               PROVE  Len(pager'.pages) <= Len(pager.pages) + MaxLimit
    OBVIOUS
  <2>1. /\ pager \in Pager /\ MaxLimit \in Nat
        /\ Len(pager.pages) \in Nat /\ Len(pager.pages) <= Len(pager.pages) + MaxLimit
    BY ListingAssumption DEF Types, Pager
  <2>2. ASSUME NEW limit, NEW p, Lists(limit, p)
        PROVE  Len(pager'.pages) <= Len(pager.pages) + MaxLimit
    <3>1. PICK rows : ListedTo(p, rows)
      BY <2>2, WasListed
    <3>2. /\ Len(pager'.pages) = Len(pager.pages) + Len(rows)
          /\ Len(rows) \in Nat /\ Len(rows) <= MaxLimit
      BY <3>1 DEF ListedTo, PageOf
    <3> QED
      BY <2>1, <3>2
  <2>3. (\E at : Inserts(at)) \/ Refuses => pager'.pages = pager.pages
    BY WasInserted, WasRefused
  <2>4. (\E offset : Starts(offset)) \/ StopPaging => pager'.pages = <<>>
    BY Started, Stopped
  <2>5. Len(<<>>) = 0
    OBVIOUS
  <2> QED
    BY <2>1, <2>2, <2>3, <2>4, <2>5, StepCases
<1> QED
  BY <1>1, SpecTypes, PTL DEF Spec, PagesAreBounded

-----------------------------------------------------------------------------
(* Nothing is missed                                                       *)

\* Clients that read the listing from its top.
FromTheTop == \A offset \in Offsets : offset <= 0

LEMMA AheadIsNumber ==
    ASSUME Types, NEW d
    PROVE  IsFiniteSet(AheadOf(d)) /\ Ahead(d) \in Nat
<1>1. AheadOf(d) \subseteq 1..Len(records) /\ Len(records) \in Nat
  BY DEF AheadOf, Types
<1>2. IsFiniteSet(AheadOf(d))
  BY <1>1, UpTo, FS_Subset
<1> QED
  BY <1>2, FS_CardinalityType DEF Ahead

LEMMA NothingInserted ==
    ASSUME UNCHANGED <<backend, records>>
    PROVE  \A d : /\ Ahead(d)' = Ahead(d) /\ Placed(d)' = Placed(d)
                  /\ Untied(d)' = Untied(d)
BY DEF Ahead, AheadOf, Before, Placed, Untied

LEMMA InitPagerInv == Init => PagerInv
<1> SUFFICES ASSUME Init PROVE PagerInv
  OBVIOUS
<1>1. /\ pager.state = "idle" /\ pager.owed = {} /\ pager.pages = <<>>
      /\ pager.inserted = 0 /\ pager.offset = 0 /\ records = <<>>
  BY DEF Init, NoPager
<1>2. Len(<<>>) = 0
  OBVIOUS
<1> QED
  BY <1>1, <1>2 DEF PagerInv, PagerMissesNothing

LEMMA InsertKeepsPagerInv ==
    ASSUME Types, PagerInv, NEW at, Inserts(at)
    PROVE  PagerInv'
<1>1. /\ pager'.state = pager.state /\ pager'.offset = pager.offset
      /\ pager'.pages = pager.pages /\ pager'.owed = pager.owed
      /\ pager.inserted \in Nat
      /\ pager'.inserted = IF pager.state = "idle" THEN pager.inserted
                           ELSE pager.inserted + 1
      /\ UNCHANGED backend
  BY WasInserted
<1>2. /\ Len(records') = Len(records) + 1
      /\ DOMAIN records \subseteq DOMAIN records'
      /\ \A d \in DOMAIN records : records'[d] = records[d]
      /\ \A d \in DOMAIN records : Placed(d)' => Placed(d)
      /\ \A d \in DOMAIN records : /\ Ahead(d) \in Nat /\ Ahead(d)' \in Nat
                                   /\ Ahead(d)' >= Ahead(d)
  BY InsertedAhead
<1>3. pager.owed \subseteq DOMAIN records /\ pager.offset \in Int /\ Len(records) \in Nat
  BY DEF Types, TypeOK, Pager
<1>4. /\ pager'.state # "idle" => pager'.owed = 1..(Len(records') - pager'.inserted)
      /\ pager'.state = "idle" => /\ pager'.owed = {} /\ pager'.pages = <<>>
                                  /\ pager'.inserted = 0
      /\ pager'.inserted <= Len(records')
      /\ pager'.offset = Len(pager'.pages) \/ (pager'.offset <= 0 /\ pager'.pages = <<>>)
  <2>1. pager.state # "idle" => Len(records) - pager.inserted = Len(records') - pager'.inserted
    <3>1. PICK n \in Nat, k \in Nat : n = Len(records) /\ k = pager.inserted
      BY <1>1, <1>3
    <3>2. n - k = (n + 1) - (k + 1)
      OBVIOUS
    <3>3. pager.state # "idle" => pager'.inserted = k + 1
      BY <1>1, <3>1
    <3> QED
      BY <1>2, <3>1, <3>2, <3>3
  <2>2. pager'.inserted <= Len(records')
    BY <1>1, <1>2, <1>3 DEF PagerInv
  <2> QED
    BY <1>1, <2>1, <2>2 DEF PagerInv
<1>5. ASSUME NEW d \in pager.owed, Placed(d)', d \notin ToSet(pager.pages)
      PROVE  Ahead(d)' >= pager.offset
  <2>1. Ahead(d) >= pager.offset
    BY <1>2, <1>3, <1>5 DEF PagerInv
  <2> QED
    BY <1>2, <1>3, <2>1
<1>6. PagerMissesNothing'
  <2>1. \A d \in pager.owed : (Untied(d)' \/ backend' = "memory") => Placed(d)
    BY <1>2, <1>3 DEF Placed
  <2>2. \A d \in pager.owed : Placed(d) => Untied(d) \/ backend = "memory"
    BY DEF Placed
  <2>3. PagerMissesNothing
    BY DEF PagerInv
  <2> QED
    BY <1>1, <2>1, <2>2, <2>3 DEF PagerMissesNothing
<1> QED
  BY <1>1, <1>4, <1>5, <1>6 DEF PagerInv

LEMMA ListKeepsPagerInv ==
    ASSUME Types, PagerInv, NEW limit, NEW p, Lists(limit, p)
    PROVE  PagerInv'
<1>1. PICK rows : ListedTo(p, rows)
  BY WasListed
<1>2. PICK offset \in Nat : offset = pager.offset
  BY <1>1 DEF ListedTo
<1>3. /\ p \in NewestFirst
      /\ pager'.owed = pager.owed /\ pager'.inserted = pager.inserted
      /\ pager.state = "paging" /\ Len(rows) \in Nat
      /\ ToSet(pager'.pages) = ToSet(pager.pages) \cup ToSet(rows)
      /\ pager'.offset = offset + Len(rows)
      /\ Len(pager'.pages) = Len(pager.pages) + Len(rows)
      /\ pager.pages \in Seq(Nat)
      /\ pager'.state = IF rows = <<>> THEN "done" ELSE "paging"
      /\ UNCHANGED <<backend, records>>
  BY <1>1, <1>2 DEF ListedTo
<1>4. /\ rows = <<>> => Len(records) <= offset
      /\ \A i \in 1..Len(records) :
            (offset < i /\ p[i] \notin ToSet(rows)) => offset + Len(rows) < i
  BY <1>1, <1>2 DEF ListedTo, PageOf
<1>5. /\ Len(records) \in Nat /\ pager.owed \subseteq 1..Len(records)
      /\ \A d \in 1..Len(records) : \E i \in 1..Len(records) : p[i] = d
  BY <1>3, Listing DEF Types, TypeOK
<1>6. ASSUME NEW d \in pager.owed, Placed(d), d \notin ToSet(pager'.pages)
      PROVE  Ahead(d) >= offset + Len(rows) /\ rows # <<>>
  <2>1. Ahead(d) >= offset /\ d \notin ToSet(rows)
    BY <1>2, <1>3, <1>6 DEF PagerInv
  <2>2. PICK i \in 1..Len(records) : p[i] = d
    BY <1>5
  <2>3. Ahead(d) = i - 1
    BY <1>3, <1>6, <2>2, Place
  <2>4. offset < i
    BY <1>5, <2>1, <2>3
  <2>5. offset + Len(rows) < i
    BY <1>4, <2>1, <2>2, <2>4
  <2>6. rows # <<>>
    BY <1>4, <1>5, <2>4
  <2> QED
    BY <1>3, <1>5, <2>3, <2>5, <2>6
<1>7. pager'.offset = Len(pager'.pages)
  <2>1. offset = Len(pager.pages) \/ (offset <= 0 /\ pager.pages = <<>>)
    BY <1>2 DEF PagerInv
  <2>2. Len(<<>>) = 0
    OBVIOUS
  <2>3. offset = Len(pager.pages)
    BY <2>1, <2>2
  <2> QED
    BY <1>3, <2>3
<1>8. /\ pager'.owed = 1..(Len(records') - pager'.inserted)
      /\ pager'.inserted <= Len(records')
      /\ pager'.state # "idle"
  BY <1>3 DEF PagerInv
<1>9. \A d \in pager'.owed :
         (Placed(d)' /\ d \notin ToSet(pager'.pages)) => Ahead(d)' >= pager'.offset
  BY <1>3, <1>6, NothingInserted
<1>10. PagerMissesNothing'
  BY <1>3, <1>6, NothingInserted DEF PagerMissesNothing, Placed
<1> QED
  BY <1>7, <1>8, <1>9, <1>10 DEF PagerInv

LEMMA StartKeepsPagerInv ==
    ASSUME Types, FromTheTop, NEW offset, Starts(offset)
    PROVE  PagerInv'
<1>1. /\ pager'.state = "paging" /\ pager'.offset = offset
      /\ pager'.pages = <<>> /\ pager'.owed = DOMAIN records /\ pager'.inserted = 0
      /\ offset \in Int /\ offset <= 0
      /\ UNCHANGED <<backend, records>>
  BY Started DEF FromTheTop
<1>2. Len(records) \in Nat /\ DOMAIN records = 1..(Len(records) - 0)
  BY DEF Types
<1>3. ASSUME NEW d
      PROVE  Ahead(d)' >= offset
  <2>1. Ahead(d)' = Ahead(d) /\ Ahead(d) \in Nat
    BY <1>1, NothingInserted, AheadIsNumber
  <2> QED
    BY <1>1, <2>1
<1> QED
  BY <1>1, <1>2, <1>3 DEF PagerInv, PagerMissesNothing

LEMMA StepPagerInv == FromTheTop /\ Types /\ PagerInv /\ [Next]_vars => PagerInv'
<1> SUFFICES ASSUME FromTheTop, Types, PagerInv, [Next]_vars
             PROVE  PagerInv'
  OBVIOUS
<1>1. CASE Refuses
  <2>1. /\ pager'.state = "refused" /\ pager'.offset = pager.offset
        /\ pager'.pages = pager.pages /\ pager'.owed = pager.owed
        /\ pager'.inserted = pager.inserted /\ pager.state = "paging"
        /\ UNCHANGED <<backend, records>>
    BY <1>1, WasRefused
  <2> QED
    BY <2>1, NothingInserted DEF PagerInv, PagerMissesNothing
<1>2. CASE StopPaging
  <2>1. /\ pager'.state = "idle" /\ pager'.offset = 0
        /\ pager'.pages = <<>> /\ pager'.owed = {} /\ pager'.inserted = 0
        /\ records' = records
    BY <1>2, Stopped
  <2>2. Len(records) \in Nat /\ 0 <= Len(records)
    BY DEF Types
  <2> QED
    BY <2>1, <2>2 DEF PagerInv, PagerMissesNothing
<1>3. CASE UNCHANGED <<backend, records, pager>>
  BY <1>3, NothingInserted DEF PagerInv, PagerMissesNothing
<1> QED
  BY <1>1, <1>2, <1>3, StepCases, InsertKeepsPagerInv, ListKeepsPagerInv, StartKeepsPagerInv

LEMMA SpecPagerInv == ASSUME FromTheTop PROVE Spec => [](Types /\ PagerInv)
BY InitTypes, StepTypes, InitPagerInv, StepPagerInv, PTL DEF Spec

\* Whatever is inserted between two pages, and wherever, a client that pages
\* from the top to the end has seen every record there was when it began; over
\* SQL only a record of a time of its own is sure to be seen.
THEOREM PagingMissesNothing ==
    ASSUME FromTheTop PROVE Spec => []PagerMissesNothing
BY SpecPagerInv, PTL DEF PagerInv

-----------------------------------------------------------------------------
(* Nothing comes twice without an insertion                                *)

\* The places of two records are in their order.
LEMMA AheadInOrder ==
    ASSUME Types, NEW d \in DOMAIN records, NEW e \in DOMAIN records, Before(d, e)
    PROVE  Ahead(d) < Ahead(e)
<1>1. AheadOf(d) \subseteq AheadOf(e) \ {d}
  <2>1. ~Before(d, d)
    BY BeforeIsOrder
  <2> QED
    BY <2>1, BeforeIsOrder DEF AheadOf
<1>2. d \in AheadOf(e)
  BY DEF AheadOf
<1>3. IsFiniteSet(AheadOf(e)) /\ IsFiniteSet(AheadOf(e) \ {d})
      /\ Cardinality(AheadOf(e) \ {d}) = Cardinality(AheadOf(e)) - 1
  BY <1>2, AheadIsNumber, FS_RemoveElement
<1>4. Cardinality(AheadOf(d)) <= Cardinality(AheadOf(e) \ {d})
  BY <1>1, <1>3, FS_Subset
<1>5. Ahead(d) \in Nat /\ Ahead(e) \in Nat
  BY AheadIsNumber
<1> QED
  BY <1>3, <1>4, <1>5 DEF Ahead

LEMMA AheadDiffers ==
    ASSUME Types, NEW d \in DOMAIN records, NEW e \in DOMAIN records, d # e
    PROVE  Ahead(d) # Ahead(e)
<1>1. Ahead(d) \in Nat /\ Ahead(e) \in Nat
  BY AheadIsNumber
<1> QED
  BY <1>1, AheadInOrder, BeforeIsOrder

\* There are k records in the first k places.
LEMMA FirstPlaces ==
    ASSUME Types, NEW k \in 0..Len(records)
    PROVE  LET front == {d \in DOMAIN records : Ahead(d) < k}
           IN  IsFiniteSet(front) /\ Cardinality(front) = k
<1> DEFINE n == Len(records)
           places == 0..(n - 1)
           f == [d \in 1..n |-> Ahead(d)]
           front == {d \in 1..n : Ahead(d) < k}
           g == [d \in front |-> Ahead(d)]
<1>1. n \in Nat /\ DOMAIN records = 1..n /\ k \in 0..n
  BY DEF Types
<1> HIDE DEF n
<1>2. IsFiniteSet(1..n) /\ Cardinality(1..n) = n
  BY <1>1, UpTo
<1>3. IsFiniteSet(places) /\ Cardinality(places) = n
  <2>1. 0 \in Int /\ n - 1 \in Int /\ ~(0 > n - 1 /\ n # 0) /\ (n - 1) - 0 + 1 = n
    BY <1>1
  <2> QED
    BY <1>1, <2>1, FS_Interval
<1>4. ASSUME NEW d \in 1..n
      PROVE  Ahead(d) \in places
  <2>1. AheadOf(d) \subseteq (1..n) \ {d}
    BY <1>1, BeforeIsOrder DEF AheadOf
  <2>2. IsFiniteSet((1..n) \ {d}) /\ Cardinality((1..n) \ {d}) = n - 1
    BY <1>2, FS_RemoveElement
  <2>3. Ahead(d) <= n - 1
    BY <2>1, <2>2, FS_Subset DEF Ahead
  <2> QED
    BY <1>1, <2>3, AheadIsNumber
<1>5. f \in Injection(1..n, places)
  <2>1. f \in [1..n -> places]
    BY <1>4
  <2>2. \A d, e \in 1..n : f[d] = f[e] => d = e
    BY <1>1, AheadDiffers
  <2> QED
    BY <2>1, <2>2 DEF Injection, IsInjective
<1>6. f \in Surjection(1..n, places)
  BY <1>2, <1>3, <1>5, FS_Injection
<1>7. 0..(k - 1) \subseteq places /\ k \in Nat /\ \A i \in places : i < k => i \in 0..(k - 1)
  BY <1>1
<1>8. g \in [front -> 0..(k - 1)]
  BY <1>4, <1>7
<1>9. g \in Injection(front, 0..(k - 1))
  <2>1. \A d, e \in front : g[d] = g[e] => d = e
    BY <1>1, AheadDiffers
  <2> QED
    BY <1>8, <2>1 DEF Injection, IsInjective
<1>10. g \in Surjection(front, 0..(k - 1))
  <2>1. ASSUME NEW i \in 0..(k - 1)
        PROVE  \E d \in front : g[d] = i
    <3>1. PICK d \in 1..n : f[d] = i
      BY <1>6, <1>7 DEF Surjection
    <3>2. Ahead(d) = i /\ i < k
      BY <1>7, <3>1
    <3>3. d \in front
      BY <3>2
    <3> QED
      BY <3>2, <3>3
  <2> QED
    BY <1>8, <2>1 DEF Surjection
<1>11. IsFiniteSet(0..(k - 1)) /\ Cardinality(0..(k - 1)) = k
  <2>1. 0 \in Int /\ k - 1 \in Int /\ ~(0 > k - 1 /\ k # 0) /\ (k - 1) - 0 + 1 = k
    BY <1>7
  <2> QED
    BY <1>7, <2>1, FS_Interval
<1>12. IsFiniteSet(front)
  BY <1>2, FS_Subset
<1>13. ExistsBijection(front, 0..(k - 1))
  BY <1>9, <1>10 DEF ExistsBijection, Bijection
<1>14. Cardinality(front) = k
  BY <1>11, <1>12, <1>13, FS_Bijection
<1> QED
  BY <1>1, <1>12, <1>14

LEMMA RepetitionsAreInsertions ==
    ASSUME FromTheTop, Types, PagerInv
    PROVE  RepeatsAreInsertions
<1> SUFFICES ASSUME \A d \in DOMAIN records : Placed(d)
             PROVE  Len(pager.pages) - Cardinality(ToSet(pager.pages)) <= pager.inserted
  BY DEF RepeatsAreInsertions, Placed
<1>1. PICK n \in Nat, k \in Nat : n = Len(records) /\ k = pager.inserted /\ DOMAIN records = 1..n
  BY DEF Types, Pager
<1>2. PICK seen : seen = ToSet(pager.pages)
  OBVIOUS
<1>3. PICK m \in Nat : m = Len(pager.pages)
  BY DEF Types, Pager
<1>4. k <= n /\ pager.owed \subseteq 1..n /\ seen \subseteq 1..n
  BY <1>1, <1>2 DEF PagerInv, Types, TypeOK
<1>5. IsFiniteSet(seen) /\ Cardinality(seen) \in Nat
  BY <1>1, <1>4, UpTo, FS_Subset, FS_CardinalityType
<1>6. CASE m = 0
  BY <1>1, <1>2, <1>3, <1>5, <1>6
<1>7. CASE m # 0
  <2>1. pager.state # "idle" /\ pager.offset = m
    <3>1. Len(<<>>) = 0
      OBVIOUS
    <3> QED
      BY <1>3, <1>7, <3>1 DEF PagerInv
  <2>2. m \in 0..n
    BY <1>1, <1>3, <1>7, <2>1 DEF FromTheTop, Types, TypeOK
  <2> DEFINE front == {d \in DOMAIN records : Ahead(d) < m}
             others == (n - k + 1)..n
  <2>3. IsFiniteSet(front) /\ Cardinality(front) = m
    BY <1>1, <2>2, FirstPlaces
  <2>4. pager.owed = 1..(n - k)
    BY <1>1, <2>1 DEF PagerInv
  <2>5. front \subseteq seen \cup others
    <3>1. ASSUME NEW d \in front, d \notin others
          PROVE  d \in seen
      <4>1. d \in pager.owed /\ d \in 1..n
        BY <1>1, <2>4, <3>1
      <4>2. Ahead(d) < m /\ Ahead(d) \in Nat
        BY AheadIsNumber
      <4> QED
        BY <1>1, <1>2, <1>3, <2>1, <4>1, <4>2 DEF PagerInv
    <3> QED
      BY <3>1
  <2>6. IsFiniteSet(others) /\ Cardinality(others) = k
    <3>1. n - k + 1 \in Int /\ n \in Int
      BY <1>4
    <3>2. n - (n - k + 1) + 1 = k
      BY <1>4
    <3>3. n - k + 1 > n => k = 0
      BY <1>4
    <3> QED
      BY <3>1, <3>2, <3>3, FS_Interval
  <2>7. /\ IsFiniteSet(seen \cup others)
        /\ Cardinality(seen \cup others) <= Cardinality(seen) + Cardinality(others)
    <3>1. /\ IsFiniteSet(seen \cup others)
          /\ Cardinality(seen \cup others) =
                Cardinality(seen) + Cardinality(others) - Cardinality(seen \cap others)
      BY <1>5, <2>6, FS_Union
    <3>2. Cardinality(seen \cap others) \in Nat
      BY <1>5, FS_Intersection, FS_CardinalityType
    <3> QED
      BY <1>5, <2>6, <3>1, <3>2
  <2>8. Cardinality(front) <= Cardinality(seen \cup others)
    BY <2>5, <2>7, FS_Subset
  <2>9. Cardinality(seen \cup others) \in Nat
    BY <2>7, FS_CardinalityType
  <2> HIDE DEF front, others
  <2>10. m - Cardinality(seen) <= k
    BY <1>5, <2>3, <2>6, <2>7, <2>8, <2>9
  <2> QED
    BY <1>1, <1>2, <1>3, <2>10
<1> QED
  BY <1>6, <1>7

\* A record comes twice only because another was inserted before it while the
\* client was paging from the top: without equal times there are no more
\* repetitions than insertions.
THEOREM RepetitionNeedsInsertion ==
    ASSUME FromTheTop PROVE Spec => []RepeatsAreInsertions
BY SpecPagerInv, RepetitionsAreInsertions, PTL

-----------------------------------------------------------------------------
(* Paging while nothing is inserted                                        *)

LEMMA InitQuietInv == Init => QuietInv
<1> SUFFICES ASSUME Init PROVE QuietInv
  OBVIOUS
<1>1. pager.pages = <<>> /\ DOMAIN <<>> = {}
  BY DEF Init, NoPager
<1> QED
  BY <1>1 DEF QuietInv

LEMMA ListKeepsQuietInv ==
    ASSUME Types, PagerInv, QuietInv, NEW limit, NEW p, Lists(limit, p)
    PROVE  QuietInv'
<1>1. PICK rows : ListedTo(p, rows)
  BY WasListed
<1>2. PICK offset \in Nat : offset = pager.offset
  BY <1>1 DEF ListedTo
<1>3. PICK seen \in Seq(Nat) : seen = pager.pages
  BY <1>1 DEF ListedTo
<1>4. /\ p \in NewestFirst /\ rows \in Seq(Nat) /\ pager'.pages = seen \o rows
      /\ pager'.inserted = pager.inserted
      /\ UNCHANGED <<backend, records>>
  BY <1>1, <1>3 DEF ListedTo
<1>5. \A j \in 1..Len(rows) : /\ rows[j] = p[offset + j]
                              /\ offset + j \in 1..Len(records)
  BY <1>1, <1>2 DEF ListedTo, PageOf
<1>6. offset = Len(seen)
  <2>1. offset = Len(seen) \/ (offset <= 0 /\ seen = <<>>)
    BY <1>2, <1>3 DEF PagerInv
  <2>2. Len(<<>>) = 0
    OBVIOUS
  <2> QED
    BY <2>1, <2>2
<1> SUFFICES ASSUME pager.inserted = 0, \A d \in DOMAIN records : Placed(d),
                    NEW i \in 1..Len(seen \o rows)
             PROVE  Ahead((seen \o rows)[i]) = i - 1
  <2>1. DOMAIN (seen \o rows) = 1..Len(seen \o rows)
    BY <1>4
  <2> QED
    BY <1>4, <2>1, NothingInserted DEF QuietInv
<1>7. CASE i \in 1..Len(seen)
  <2>1. (seen \o rows)[i] = seen[i] /\ i \in DOMAIN seen
    BY <1>4, <1>7, Concatenation
  <2> QED
    BY <1>3, <2>1 DEF QuietInv
<1>8. ASSUME NEW j \in 1..Len(rows), i = Len(seen) + j
      PROVE  Ahead((seen \o rows)[i]) = i - 1
  <2>1. (seen \o rows)[i] = rows[j]
    BY <1>4, <1>8, Concatenation
  <2>2. offset + j \in 1..Len(records) /\ rows[j] = p[offset + j] /\ i = offset + j
    BY <1>5, <1>6, <1>8
  <2>3. p[i] \in DOMAIN records
    BY <1>4, <2>2, Listing
  <2>4. Ahead(p[i]) = i - 1
    BY <1>4, <2>2, <2>3, Place
  <2> QED
    BY <2>1, <2>2, <2>4
<1> QED
  BY <1>4, <1>7, <1>8, Concatenation

LEMMA StepQuietInv == Types /\ PagerInv /\ QuietInv /\ [Next]_vars => QuietInv'
<1> SUFFICES ASSUME Types, PagerInv, QuietInv, [Next]_vars
             PROVE  QuietInv'
  OBVIOUS
<1>1. DOMAIN <<>> = {}
  OBVIOUS
<1>2. ASSUME NEW at, Inserts(at)
      PROVE  QuietInv'
  <2>1. /\ pager'.pages = pager.pages /\ pager.inserted \in Nat
        /\ pager'.inserted = IF pager.state = "idle" THEN pager.inserted
                             ELSE pager.inserted + 1
    BY <1>2, WasInserted
  <2>2. CASE pager.state = "idle"
    BY <1>1, <2>1, <2>2 DEF PagerInv, QuietInv
  <2>3. CASE pager.state # "idle"
    <3>1. pager'.inserted # 0
      BY <2>1, <2>3
    <3> QED
      BY <3>1 DEF QuietInv
  <2> QED
    BY <2>2, <2>3
<1>3. CASE Refuses
  <2>1. /\ pager'.pages = pager.pages /\ pager'.inserted = pager.inserted
        /\ UNCHANGED <<backend, records>>
    BY <1>3, WasRefused
  <2> QED
    BY <2>1, NothingInserted DEF QuietInv
<1>4. ASSUME NEW offset, Starts(offset)
      PROVE  QuietInv'
  BY <1>1, <1>4, Started DEF QuietInv
<1>5. CASE StopPaging
  BY <1>1, <1>5, Stopped DEF QuietInv
<1>6. CASE UNCHANGED <<backend, records, pager>>
  BY <1>6, NothingInserted DEF QuietInv
<1> QED
  BY <1>2, <1>3, <1>4, <1>5, <1>6, StepCases, ListKeepsQuietInv

LEMMA QuietPaging ==
    ASSUME Types, PagerInv, QuietInv
    PROVE  QuietPagingIsExact
<1> SUFFICES ASSUME pager.state = "done", pager.inserted = 0,
                    \A d \in DOMAIN records : Placed(d)
             PROVE  /\ IsInjective(pager.pages)
                    /\ ToSet(pager.pages) = DOMAIN records
                    /\ \A i, j \in DOMAIN pager.pages :
                          i < j => records[pager.pages[i]] >= records[pager.pages[j]]
  BY DEF QuietPagingIsExact, Placed
<1>1. PICK seen \in Seq(Nat) : seen = pager.pages
  BY DEF Types, Pager
<1>2. /\ ToSet(seen) \subseteq DOMAIN records /\ DOMAIN seen \subseteq Nat
      /\ \A i \in DOMAIN seen : seen[i] \in DOMAIN records
  BY <1>1 DEF Types, TypeOK, ToSet
<1>3. \A i \in DOMAIN seen : Ahead(seen[i]) = i - 1
  BY <1>1 DEF QuietInv
<1>4. IsInjective(seen)
  <2>1. ASSUME NEW i \in DOMAIN seen, NEW j \in DOMAIN seen, seen[i] = seen[j]
        PROVE  i = j
    <3>1. i - 1 = j - 1 /\ i \in Nat /\ j \in Nat
      BY <1>2, <1>3, <2>1
    <3> QED
      BY <3>1
  <2> QED
    BY <2>1 DEF IsInjective
<1>5. DOMAIN records \subseteq ToSet(seen)
  <2>1. pager.owed = DOMAIN records
    <3>1. Len(records) \in Nat /\ DOMAIN records = 1..(Len(records) - 0)
      BY DEF Types
    <3> QED
      BY <3>1 DEF PagerInv
  <2>2. PagerMissesNothing
    BY DEF PagerInv
  <2> QED
    BY <1>1, <2>1, <2>2 DEF PagerMissesNothing, Placed
<1>6. ASSUME NEW i \in DOMAIN seen, NEW j \in DOMAIN seen, i < j
      PROVE  records[seen[i]] >= records[seen[j]]
  <2>1. Ahead(seen[i]) = i - 1 /\ Ahead(seen[j]) = j - 1 /\ i \in Nat /\ j \in Nat
    BY <1>2, <1>3
  <2>2. ~(Ahead(seen[j]) < Ahead(seen[i]))
    BY <1>6, <2>1
  <2>3. ~Before(seen[j], seen[i])
    BY <1>2, <2>2, AheadInOrder
  <2>4. \A d \in DOMAIN records : records[d] \in Nat
    <3>1. records \in Seq(Nat)
      BY DEF Types
    <3> QED
      BY <3>1
  <2> QED
    BY <1>2, <2>3, <2>4 DEF Before
<1> QED
  BY <1>1, <1>2, <1>4, <1>5, <1>6

\* Paging from the top while nothing is inserted yields the whole listing, each
\* record once and newest first, whatever the size of the pages.
THEOREM QuietPagingYieldsTheListing ==
    ASSUME FromTheTop PROVE Spec => []QuietPagingIsExact
BY SpecPagerInv, InitQuietInv, StepQuietInv, QuietPaging, PTL DEF Spec
=============================================================================
