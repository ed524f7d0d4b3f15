------------------------- MODULE DispatchDataProofs -------------------------
(***************************************************************************)
(* Facts about sets of dispatch records that hold in every deployment.     *)
(***************************************************************************)
EXTENDS DispatchData, SequenceTheorems, TLAPS

\* get_latest_attempt_no of records numbered 1..n is n.
LEMMA LatestOfNumbered ==
    ASSUME NEW t, NEW o, NEW n \in Nat, Attempts(t, o) = 1..n
    PROVE  LatestAttemptNo(t, o) = n
<1> DEFINE S == (1..n) \cup {0}
<1>1. n \in S /\ \A y \in S : n >= y
  OBVIOUS
<1>2. ASSUME NEW x \in S, \A y \in S : x >= y
      PROVE  x = n
  BY <1>1, <1>2
<1> HIDE DEF S
<1>3. Max(S) = n
  BY <1>1, <1>2 DEF Max
<1> QED
  BY <1>3 DEF LatestAttemptNo, S

\* t and u hold the same records, but for their answers.
SameIdentities(t, u) ==
    /\ DOMAIN u = DOMAIN t
    /\ \A e \in DOMAIN t : /\ u[e].order = t[e].order
                           /\ u[e].attempt = t[e].attempt
                           /\ u[e].worker = t[e].worker

\* Writing an answer to a record never renumbers anything.
LEMMA SameAttempts ==
    ASSUME NEW t, NEW u, SameIdentities(t, u)
    PROVE  \A o : Attempts(u, o) = Attempts(t, o)
BY DEF SameIdentities, Attempts, RowsOf

\* Equal attempts of an order have the same latest number.
LEMMA SameLatest ==
    ASSUME NEW t, NEW u, NEW o, Attempts(u, o) = Attempts(t, o)
    PROVE  LatestAttemptNo(u, o) = LatestAttemptNo(t, o)
BY DEF LatestAttemptNo

-----------------------------------------------------------------------------
(* Histories                                                               *)

Entry(x) == [worker |-> x.worker, status |-> x.status]

\* No attempt of an order is numbered twice.
Unique(t) == \A d, e \in DOMAIN t :
    (t[d].order = t[e].order /\ t[d].attempt = t[e].attempt) => d = e

\* The history of an order lists its attempts under their numbers.
LEMMA HistoryEntries ==
    ASSUME NEW t, NEW o, Unique(t)
    PROVE  /\ HistoryOf(t, o) = [k \in Attempts(t, o) |-> HistoryOf(t, o)[k]]
           /\ \A d \in RowsOf(t, o) : /\ t[d].attempt \in Attempts(t, o)
                                      /\ HistoryOf(t, o)[t[d].attempt] = Entry(t[d])
           /\ \A k \in Attempts(t, o) : \E d \in RowsOf(t, o) :
                 t[d].attempt = k /\ HistoryOf(t, o)[k] = Entry(t[d])
<1>1. ASSUME NEW d \in RowsOf(t, o)
      PROVE  t[d].attempt \in Attempts(t, o) /\ HistoryOf(t, o)[t[d].attempt] = Entry(t[d])
  <2> DEFINE k == t[d].attempt
             e == CHOOSE e \in RowsOf(t, o) : t[e].attempt = k
  <2>1. k \in Attempts(t, o)
    BY DEF Attempts
  <2>2. e \in RowsOf(t, o) /\ t[e].attempt = k
    OBVIOUS
  <2>3. e = d
    BY <2>2 DEF RowsOf, Unique
  <2>4. HistoryOf(t, o)[k] = [worker |-> t[e].worker, status |-> t[e].status]
    BY <2>1 DEF HistoryOf
  <2> QED
    BY <2>1, <2>3, <2>4 DEF Entry
<1>2. HistoryOf(t, o) = [k \in Attempts(t, o) |-> HistoryOf(t, o)[k]]
  BY DEF HistoryOf
<1>3. ASSUME NEW k \in Attempts(t, o)
      PROVE  \E d \in RowsOf(t, o) : t[d].attempt = k /\ HistoryOf(t, o)[k] = Entry(t[d])
  <2>1. PICK d \in RowsOf(t, o) : t[d].attempt = k
    BY DEF Attempts
  <2> QED
    BY <1>1, <2>1
<1> QED
  BY <1>1, <1>2, <1>3

\* An order without pending records has no pending entry.
LEMMA NobodyWaits ==
    ASSUME NEW t, NEW o, Unique(t), PendingOf(t, o) = {}
    PROVE  \A i \in DOMAIN HistoryOf(t, o) : HistoryOf(t, o)[i].status # "PENDING"
<1> SUFFICES ASSUME NEW i \in DOMAIN HistoryOf(t, o)
             PROVE  HistoryOf(t, o)[i].status # "PENDING"
  OBVIOUS
<1>1. i \in Attempts(t, o)
  BY DEF HistoryOf
<1>2. PICK e \in RowsOf(t, o) : HistoryOf(t, o)[i] = Entry(t[e])
  BY <1>1, HistoryEntries
<1>3. t[e].status # "PENDING"
  BY DEF PendingOf
<1> QED
  BY <1>2, <1>3 DEF Entry

\* Orders with the same records have the same history.
LEMMA SameHistory ==
    ASSUME NEW t, NEW u, NEW o, Unique(t), Unique(u),
           RowsOf(u, o) = RowsOf(t, o), \A d \in RowsOf(t, o) : u[d] = t[d]
    PROVE  HistoryOf(u, o) = HistoryOf(t, o)
<1>1. Attempts(u, o) = Attempts(t, o)
  BY DEF Attempts
<1>2. ASSUME NEW k \in Attempts(t, o) PROVE HistoryOf(u, o)[k] = HistoryOf(t, o)[k]
  <2>1. PICK d \in RowsOf(t, o) : t[d].attempt = k
    BY DEF Attempts
  <2>2. HistoryOf(t, o)[k] = Entry(t[d])
    BY <2>1, HistoryEntries
  <2>3. HistoryOf(u, o)[k] = Entry(u[d])
    BY <2>1, HistoryEntries
  <2> QED
    BY <2>1, <2>2, <2>3
<1>3. /\ HistoryOf(t, o) = [k \in Attempts(t, o) |-> HistoryOf(t, o)[k]]
      /\ HistoryOf(u, o) = [k \in Attempts(u, o) |-> HistoryOf(u, o)[k]]
  BY HistoryEntries
<1> QED
  BY <1>1, <1>2, <1>3

\* A further attempt, numbered next, appends an entry to its order's history.
LEMMA AppendedHistory ==
    ASSUME NEW t, NEW u, NEW o, NEW n \in Nat, NEW d, Unique(t), Unique(u),
           Attempts(t, o) = 1..n, Attempts(u, o) = 1..(n + 1),
           d \in RowsOf(u, o), u[d].attempt = n + 1,
           \A e \in RowsOf(t, o) : e \in RowsOf(u, o) /\ u[e] = t[e]
    PROVE  HistoryOf(u, o) = Append(HistoryOf(t, o), Entry(u[d]))
<1> DEFINE h == HistoryOf(t, o)
           g == HistoryOf(u, o)
           x == Entry(u[d])
           S == {h[k] : k \in 1..n} \cup {x}
           a == Append(h, x)
<1>1. g = [k \in 1..(n + 1) |-> g[k]] /\ h = [k \in 1..n |-> h[k]]
  BY HistoryEntries
<1>2. g[n + 1] = x
  BY HistoryEntries
<1>3. ASSUME NEW k \in 1..n PROVE g[k] = h[k]
  <2>1. PICK e \in RowsOf(t, o) : t[e].attempt = k /\ h[k] = Entry(t[e])
    BY HistoryEntries
  <2>2. e \in RowsOf(u, o) /\ u[e] = t[e]
    OBVIOUS
  <2>3. g[u[e].attempt] = Entry(u[e])
    BY <2>2, HistoryEntries
  <2> QED
    BY <2>1, <2>2, <2>3
<1> HIDE DEF g, h, x
<1>4. h \in Seq(S) /\ Len(h) = n /\ x \in S
  BY <1>1
<1> HIDE DEF S
<1>5. /\ a \in Seq(S) /\ Len(a) = n + 1
      /\ \A k \in 1..n : a[k] = h[k]
      /\ a[n + 1] = x
  BY <1>4, AppendProperties
<1> HIDE DEF a
<1>6. a = [k \in 1..(n + 1) |-> a[k]]
  BY <1>5
<1>7. \A k \in 1..(n + 1) : g[k] = a[k]
  BY <1>2, <1>3, <1>5
<1> QED
  BY <1>1, <1>6, <1>7 DEF g, a, h, x

\* A record that is answered or reverted restates its entry.
LEMMA RestatedHistory ==
    ASSUME NEW t, NEW u, NEW d \in DOMAIN t, NEW o, o = t[d].order,
           Unique(t), Unique(u), SameIdentities(t, u),
           \A e \in DOMAIN t : e # d => u[e] = t[e]
    PROVE  /\ t[d].attempt \in DOMAIN HistoryOf(t, o)
           /\ HistoryOf(t, o)[t[d].attempt] = Entry(t[d])
           /\ HistoryOf(u, o) = [HistoryOf(t, o) EXCEPT ![t[d].attempt].status = u[d].status]
<1> DEFINE i == t[d].attempt
           h == HistoryOf(t, o)
           g == HistoryOf(u, o)
<1>1. /\ Attempts(u, o) = Attempts(t, o)
      /\ RowsOf(u, o) = RowsOf(t, o)
      /\ u[d].attempt = i /\ u[d].worker = t[d].worker
  BY DEF SameIdentities, Attempts, RowsOf
<1>2. d \in RowsOf(t, o)
  BY DEF RowsOf
<1>3. /\ h = [k \in Attempts(t, o) |-> h[k]]
      /\ g = [k \in Attempts(t, o) |-> g[k]]
  BY <1>1, HistoryEntries
<1>4. i \in Attempts(t, o) /\ h[i] = Entry(t[d])
  BY <1>2, HistoryEntries
<1>5. g[i] = Entry(u[d])
  BY <1>1, <1>2, HistoryEntries
<1>6. ASSUME NEW k \in Attempts(t, o), k # i PROVE g[k] = h[k]
  <2>1. PICK e \in RowsOf(t, o) : t[e].attempt = k /\ h[k] = Entry(t[e])
    BY HistoryEntries
  <2>2. e \in RowsOf(u, o) /\ u[e] = t[e]
    BY <1>1, <1>6, <2>1 DEF RowsOf
  <2>3. g[u[e].attempt] = Entry(u[e])
    BY <2>2, HistoryEntries
  <2> QED
    BY <2>1, <2>2, <2>3
<1>7. g[i] = [h[i] EXCEPT !.status = u[d].status]
  BY <1>1, <1>4, <1>5 DEF Entry
<1> HIDE DEF i, h, g
<1>8. g = [h EXCEPT ![i] = [h[i] EXCEPT !.status = u[d].status]]
  BY <1>3, <1>4, <1>6, <1>7
<1>9. i \in DOMAIN h
  BY <1>3, <1>4
<1> QED
  BY <1>4, <1>8, <1>9 DEF i, h, g

HistoriesOf(t) == [o \in Orders |-> HistoryOf(t, o)]

\* The histories hs become gs as order o begins to wait for worker w.
Longer(hs, gs, o, w) ==
    gs = [hs EXCEPT ![o] = Append(@, [worker |-> w, status |-> "PENDING"])]

\* The histories hs become gs as entry i of order o gets a status.
Restated(hs, gs, o, i, status) == gs = [hs EXCEPT ![o][i].status = status]

\* u is t after the insertion of order o's next attempt, under the new id d.
Appends(t, u, d, o, w, n) ==
    /\ d \notin DOMAIN t
    /\ Attempts(t, o) = 1..n
    /\ u = Insert(t, d, NewRow(o, n + 1, w))
    /\ Unique(t) /\ Unique(u)

LEMMA AppendedHistories ==
    ASSUME NEW t, NEW u, NEW d, NEW o \in Orders, NEW w, NEW n \in Nat,
           Appends(t, u, d, o, w, n)
    PROVE  Longer(HistoriesOf(t), HistoriesOf(u), o, w)
<1> DEFINE new == NewRow(o, n + 1, w)
           x == [worker |-> w, status |-> "PENDING"]
<1>1. new.order = o /\ new.attempt = n + 1 /\ Entry(new) = x
  BY DEF NewRow, Entry
<1> HIDE DEF new, x
<1>2. /\ DOMAIN u = DOMAIN t \cup {d}
      /\ u[d] = new
      /\ \A e \in DOMAIN t : u[e] = t[e]
  BY DEF Appends, Insert, new
<1>3. Attempts(u, o) = 1..(n + 1)
  <2>1. Attempts(u, o) = Attempts(t, o) \cup {n + 1}
    BY <1>1, <1>2 DEF Appends, Attempts, RowsOf
  <2>2. (1..n) \cup {n + 1} = 1..(n + 1)
    OBVIOUS
  <2> QED
    BY <2>1, <2>2 DEF Appends
<1>4. HistoryOf(u, o) = Append(HistoryOf(t, o), x)
  <2>1. d \in RowsOf(u, o) /\ \A e \in RowsOf(t, o) : e \in RowsOf(u, o) /\ u[e] = t[e]
    BY <1>1, <1>2 DEF RowsOf
  <2> QED
    BY <1>1, <1>2, <1>3, <2>1, AppendedHistory DEF Appends
<1>5. ASSUME NEW p \in Orders, p # o PROVE HistoryOf(u, p) = HistoryOf(t, p)
  <2>1. RowsOf(u, p) = RowsOf(t, p) /\ \A e \in RowsOf(t, p) : u[e] = t[e]
    BY <1>1, <1>2, <1>5 DEF RowsOf
  <2> QED
    BY <2>1, SameHistory DEF Appends
<1>6. [p \in Orders |-> HistoryOf(u, p)]
        = [[p \in Orders |-> HistoryOf(t, p)] EXCEPT ![o] = Append(@, x)]
  BY <1>4, <1>5
<1> QED
  BY <1>6 DEF Longer, HistoriesOf, x

\* u is t but for the answer of record d, of order o.
Restates(t, u, d, o) ==
    /\ d \in DOMAIN t /\ t[d].order = o
    /\ SameIdentities(t, u)
    /\ \A e \in DOMAIN t : e # d => u[e] = t[e]
    /\ Unique(t) /\ Unique(u)

LEMMA RestatedHistories ==
    ASSUME NEW t, NEW u, NEW d, NEW o \in Orders, Restates(t, u, d, o)
    PROVE  /\ t[d].attempt \in DOMAIN HistoryOf(t, o)
           /\ HistoryOf(t, o)[t[d].attempt] = Entry(t[d])
           /\ Restated(HistoriesOf(t), HistoriesOf(u), o, t[d].attempt, u[d].status)
<1>1. /\ t[d].attempt \in DOMAIN HistoryOf(t, o)
      /\ HistoryOf(t, o)[t[d].attempt] = Entry(t[d])
      /\ HistoryOf(u, o) = [HistoryOf(t, o) EXCEPT ![t[d].attempt].status = u[d].status]
  BY RestatedHistory DEF Restates
<1>2. ASSUME NEW p \in Orders, p # o PROVE HistoryOf(u, p) = HistoryOf(t, p)
  <2>1. RowsOf(u, p) = RowsOf(t, p) /\ \A e \in RowsOf(t, p) : u[e] = t[e]
    BY <1>2 DEF Restates, RowsOf, SameIdentities
  <2> QED
    BY <2>1, SameHistory DEF Restates
<1> QED
  BY <1>1, <1>2 DEF Restated, HistoriesOf
=============================================================================
