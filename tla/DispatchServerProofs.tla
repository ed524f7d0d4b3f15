------------------------ MODULE DispatchServerProofs ------------------------
(***************************************************************************)
(* What the two transports guarantee for all identities, orders, workers,  *)
(* schedules and limits: the stores change only for those who may change   *)
(* them and once for each request, what an answer says is so, and what a   *)
(* worker's app shows can be answered.                                     *)
(***************************************************************************)
EXTENDS DispatchServer, DispatchInMemoryProofs, FiniteSetTheorems, FunctionTheorems

-----------------------------------------------------------------------------
(* Listings                                                                *)

\* p lists every member of S once, and none before one with a smaller key.
IsSorting(p, key, S) ==
    /\ Cardinality(S) \in Nat /\ p \in [1..Cardinality(S) -> S]
    /\ \A i, j \in 1..Cardinality(S) : i # j => p[i] # p[j]
    /\ \A d \in S : \E i \in 1..Cardinality(S) : p[i] = d
    /\ \A i, j \in 1..Cardinality(S) : i < j => key[p[i]] <= key[p[j]]

\* A finite set with integer keys has an order by key: SortedBy is one.
LEMMA Sorting ==
    ASSUME NEW S, IsFiniteSet(S), NEW key, \A d \in S : key[d] \in Int,
           NEW p, p = SortedBy(key, S)
    PROVE  IsSorting(p, key, S)
<1>1. PICK n \in Nat : n = Cardinality(S)
  BY FS_CardinalityType
<1>2. PICK idx \in [S -> 1..n] : \A d, e \in S : idx[d] = idx[e] => d = e
  <2>1. ExistsBijection(1..n, S)
    BY <1>1, FS_CardinalityType
  <2>2. ExistsBijection(S, 1..n)
    BY <2>1, Fun_ExistsBijSymmetric
  <2> QED
    BY <2>2 DEF ExistsBijection, Bijection, Injection, IsInjective
<1> DEFINE Before(d, e) == key[d] < key[e] \/ (key[d] = key[e] /\ idx[d] < idx[e])
           Ahead(d) == {e \in S : Before(e, d)}
           rank == [d \in S |-> Cardinality(Ahead(d))]
<1>3. \A d, e \in S : d = e \/ Before(d, e) \/ Before(e, d)
  BY <1>2
<1>4. \A d \in S : ~Before(d, d)
  BY <1>2
<1>5. \A c, d, e \in S : Before(c, d) /\ Before(d, e) => Before(c, e)
  BY <1>2
<1> HIDE DEF Before
<1>6. \A d \in S : IsFiniteSet(Ahead(d)) /\ rank[d] \in Nat /\ rank[d] = Cardinality(Ahead(d))
  <2>1. \A d \in S : Ahead(d) \subseteq S
    OBVIOUS
  <2> QED
    BY <2>1, FS_Subset, FS_CardinalityType
<1>7. ASSUME NEW d \in S, NEW e \in S, Before(d, e)
      PROVE  rank[d] < rank[e]
  <2>1. Ahead(d) \subseteq Ahead(e) \ {d} /\ d \in Ahead(e)
    BY <1>4, <1>5, <1>7
  <2>2. IsFiniteSet(Ahead(e) \ {d}) /\ Cardinality(Ahead(e) \ {d}) = Cardinality(Ahead(e)) - 1
    BY <1>6, <2>1, FS_RemoveElement
  <2>3. Cardinality(Ahead(d)) <= Cardinality(Ahead(e) \ {d})
    BY <2>1, <2>2, FS_Subset
  <2> HIDE DEF Ahead
  <2> QED
    BY <1>6, <2>2, <2>3
<1>8. ASSUME NEW d \in S
      PROVE  rank[d] \in 0..(n - 1)
  <2>1. Ahead(d) \subseteq S \ {d}
    BY <1>4
  <2>2. IsFiniteSet(S \ {d}) /\ Cardinality(S \ {d}) = n - 1
    BY <1>1, FS_RemoveElement
  <2>3. Cardinality(Ahead(d)) <= n - 1
    BY <2>1, <2>2, FS_Subset
  <2> HIDE DEF Ahead
  <2> QED
    BY <1>1, <1>6, <2>3
<1>9. \A d, e \in S : rank[d] = rank[e] => d = e
  <2>1. \A d, e \in S : rank[d] \in Nat /\ rank[e] \in Nat
    BY <1>6
  <2> HIDE DEF rank
  <2> QED
    BY <1>3, <1>7, <2>1
<1> HIDE DEF rank
<1>10. rank \in Surjection(S, 0..(n - 1))
  <2>1. rank \in [S -> 0..(n - 1)]
    BY <1>8 DEF rank
  <2>2. rank \in Injection(S, 0..(n - 1))
    BY <1>9, <2>1 DEF Injection, IsInjective
  <2>3. IsFiniteSet(0..(n - 1)) /\ Cardinality(0..(n - 1)) = n
    <3>1. 0 \in Int /\ n - 1 \in Int /\ ~(0 > n - 1 /\ n # 0) /\ (n - 1) - 0 + 1 = n
      OBVIOUS
    <3> QED
      BY <3>1, FS_Interval
  <2> QED
    BY <1>1, <2>2, <2>3, FS_Injection
<1> DEFINE q == [i \in 1..n |-> CHOOSE d \in S : rank[d] = i - 1]
<1>11. \A i \in 1..n : q[i] \in S /\ rank[q[i]] = i - 1
  <2>1. ASSUME NEW i \in 1..n
        PROVE  \E d \in S : rank[d] = i - 1
    <3>1. i - 1 \in 0..(n - 1)
      OBVIOUS
    <3> QED
      BY <1>10, <3>1 DEF Surjection
  <2> QED
    BY <2>1
<1>12. q \in [1..n -> S]
  BY <1>11
<1> HIDE DEF q
<1>13. \A i, j \in 1..n : i # j => q[i] # q[j]
  <2>1. \A i, j \in 1..n : i # j => i - 1 # j - 1
    OBVIOUS
  <2> QED
    BY <1>11, <2>1
<1>14. q \in SetToSeqs(S)
  BY <1>1, <1>12, <1>13 DEF SetToSeqs
<1>15. ASSUME NEW i \in 1..n, NEW j \in 1..n, i < j
       PROVE  key[q[i]] <= key[q[j]]
  <2>1. ~(rank[q[j]] < rank[q[i]])
    BY <1>11, <1>15
  <2>2. ~Before(q[j], q[i])
    BY <1>7, <1>11, <2>1
  <2>3. key[q[i]] \in Int /\ key[q[j]] \in Int
    BY <1>11
  <2> QED
    BY <2>2, <2>3 DEF Before
<1>16. /\ p \in SetToSeqs(S)
       /\ \A i, j \in DOMAIN p : i < j => key[p[i]] <= key[p[j]]
  <2>1. \A i, j \in DOMAIN q : i < j => key[q[i]] <= key[q[j]]
    BY <1>12, <1>15
  <2> QED
    BY <1>14, <2>1 DEF SortedBy
<1>17. p \in [1..n -> S] /\ \A i, j \in 1..n : i # j => p[i] # p[j]
  BY <1>1, <1>16 DEF SetToSeqs
<1>18. p \in Surjection(1..n, S)
  <2>1. p \in Injection(1..n, S)
    BY <1>17 DEF Injection, IsInjective
  <2>2. IsFiniteSet(1..n) /\ Cardinality(1..n) = n
    BY FS_Interval
  <2> QED
    BY <1>1, <2>1, <2>2, FS_Injection
<1> QED
  BY <1>1, <1>16, <1>17, <1>18 DEF Surjection, IsSorting

-----------------------------------------------------------------------------
(* Codes                                                                   *)

Results == {"ok", "ValidationError", "NotFoundError", "ConflictError",
            "ExternalServiceError"}

\* The code of a request that the service ended with result.
Tells(code, result) ==
    \/ code \in Done /\ result = "ok"
    \/ code \in {"INVALID_ARGUMENT", "400"} /\ result = "ValidationError"
    \/ code \in {"NOT_FOUND", "404"} /\ result = "NotFoundError"
    \/ code \in {"FAILED_PRECONDITION", "409"} /\ result = "ConflictError"
    \/ code \in {"UNAVAILABLE", "503"} /\ result = "ExternalServiceError"

\* What a handler answers with a code of its own.
Caught(rpc) == {"ok"} \cup Translated(rpc)

LEMMA CaughtResults ==
    /\ Caught("assign") = Results /\ Caught("respond") = Results
    /\ Caught("workers") = {"ok", "ValidationError", "ExternalServiceError"}
    /\ Caught("pending") = {"ok", "ValidationError"}
    /\ Caught("history") = {"ok", "ValidationError"}
BY DEF Caught, Translated, Writes, Results

LEMMA CodesTell ==
    ASSUME NEW rpc, NEW result \in Results, NEW success \in Done
    PROVE  /\ result \in Caught(rpc) => Tells(GrpcCode(rpc, result), result)
           /\ Tells(HttpCode(result, success), result)
<1>1. Tells(HttpCode(result, success), result)
  BY DEF Results, Done, Tells, HttpCode
<1>2. ASSUME result \in Caught(rpc)
      PROVE  Tells(GrpcCode(rpc, result), result)
  BY <1>2 DEF Caught, Results, Done, Tells, GrpcCode
<1> QED
  BY <1>1, <1>2

-----------------------------------------------------------------------------
(* What a request does                                                     *)

\* Whom the transports let the service serve.  Over gRPC allowed holds the
\* roles that the RPC admits.
Admitted(via, c, allowed) == c.user \in Users /\ (via = "grpc" => c.role \in allowed)

\* It is turned away, or answered that it makes no sense.
Refuses ==
    /\ UNCHANGED <<store, orders, screen>>
    /\ failNext' \subseteq OrderMethods
    /\ scheduleFails' \in {scheduleFails, FALSE}
    /\ reply' \in {"none", "ValidationError"}
    /\ last'.code \in Refusals
    /\ UNCHANGED acked

\* It assigns an order.
Assigns(via, c, o, w, d, n, code) ==
    /\ Admitted(via, c, Staff)
    /\ o \in Orders /\ w \in Workers /\ d \in Requests /\ n \in Nat
    /\ Assigned(o, w, d, n)
    /\ failNext' \subseteq OrderMethods /\ reply' = "ok" /\ code \in Done
    /\ UNCHANGED <<scheduleFails, screen>>
    /\ Answer(via, "assign", c, AssignRequest(o, w), code)

\* It asks for an assignment in vain.
AssignsNothing(via, c, o, w, code) ==
    /\ UNCHANGED <<store, orders, scheduleFails, screen>>
    /\ failNext' \subseteq OrderMethods
    /\ Answer(via, "assign", c, AssignRequest(o, w), code)
    /\ \/ /\ reply' = "ConflictError" /\ code \in {"FAILED_PRECONDITION", "409"}
          /\ HasPending(o)
       \/ reply' = "ExternalServiceError" /\ code \in {"UNAVAILABLE", "503"}

\* It answers a dispatch.
Responds(via, c, d, response, reason, why, code) ==
    /\ Admitted(via, c, Crew)
    /\ Responded(d, response, why) /\ store[d].worker = c.user
    /\ failNext' \subseteq OrderMethods /\ reply' = "ok" /\ code \in Done
    /\ screen' = [screen EXCEPT ![c.user] = @ \ {d}]
    /\ UNCHANGED scheduleFails
    /\ Answer(via, "respond", c, ConfirmRequest(d, c.user, response, reason), code)

\* It answers in vain.
RespondsNothing(via, c, d, response, reason, code) ==
    /\ UNCHANGED <<store, orders, scheduleFails, screen>>
    /\ failNext' \subseteq OrderMethods
    /\ Answer(via, "respond", c, ConfirmRequest(d, c.user, response, reason), code)
    /\ \/ /\ reply' = "NotFoundError" /\ code \in {"NOT_FOUND", "404"}
          /\ d \notin DOMAIN store
       \/ /\ reply' = "ConflictError" /\ code \in {"FAILED_PRECONDITION", "409"}
          /\ store[d].status # "PENDING" /\ store[d].worker = c.user
       \/ reply' = "ExternalServiceError" /\ code \in {"UNAVAILABLE", "503"}

\* It polls for the worker's dispatches.
Polls(via, c, code) ==
    /\ c.user \in Users
    /\ screen' = [screen EXCEPT ![c.user] = PendingByWorker(c.user)]
    /\ UNCHANGED <<store, orders, failNext, scheduleFails>>
    /\ reply' = "ok" /\ code \in Done
    /\ Answer(via, "pending", c, None, code)

\* It reads the history of an order.
Reads(via, c, o, code) ==
    /\ o \in Orders
    /\ shown' = History(o)
    /\ UNCHANGED <<store, orders, failNext, scheduleFails, screen>>
    /\ reply' = "ok" /\ code \in Done
    /\ Answer(via, "history", c, o, code)

\* It lists the workers that fit, or fails to.
Lists(via, c, skill, region, code) ==
    /\ UNCHANGED <<store, orders, failNext, screen>>
    /\ scheduleFails' \in {scheduleFails, FALSE}
    /\ Answer(via, "workers", c, <<skill, region>>, code)
    /\ \/ /\ reply' = "ok" /\ code \in Done
          /\ \E limit \in Nat \ {0} : shown' =
                FirstRows(SortedBy([i \in DOMAIN Schedule |-> i],
                                   Matching(NormalizeOptional(skill),
                                            NormalizeOptional(region))), limit)
       \/ reply' = "ExternalServiceError" /\ code \in {"UNAVAILABLE", "503"}

\* Nobody asks for anything.
Rests ==
    /\ failNext' \subseteq OrderMethods /\ scheduleFails' \in BOOLEAN
    /\ UNCHANGED <<store, orders, reply, shown, screen, last, acked>>

\* What any request does is one of these.
Effect ==
    \/ Refuses
    \/ \E via, c, o, w, d, n, code : Assigns(via, c, o, w, d, n, code)
    \/ \E via, c, o, w, code : AssignsNothing(via, c, o, w, code)
    \/ \E via, c, d, response, reason, why, code :
          Responds(via, c, d, response, reason, why, code)
    \/ \E via, c, d, response, reason, code :
          RespondsNothing(via, c, d, response, reason, code)
    \/ \E via, c, code : Polls(via, c, code)
    \/ \E via, c, o, code : Reads(via, c, o, code)
    \/ \E via, c, skill, region, code : Lists(via, c, skill, region, code)
    \/ Rests

LEMMA TurnedAwayRefuses ==
    ASSUME MInv, NEW via, NEW rpc, NEW code \in Refusals, TurnedAway(via, rpc, code)
    PROVE  Refuses
<1>1. code \notin Done
  BY DEF Refusals, Done
<1> QED
  BY <1>1 DEF MInv, TypeOK, TurnedAway, Returns, Answer, Refuses

\* A ValidationError is a refusal.
LEMMA InvalidRefuses ==
    ASSUME MInv, NEW via, NEW rpc, NEW c, NEW query, NEW code, NEW rows,
           Returns("ValidationError", rows), Tells(code, reply'),
           Answer(via, rpc, c, query, code)
    PROVE  Refuses
<1>1. code \in Refusals /\ code \notin Done
  BY DEF Returns, Tells, Refusals, Done
<1> QED
  BY <1>1 DEF Returns, Answer, Refuses, MInv, TypeOK

\* assign, whichever transport brought it.
LEMMA AssignEffect ==
    ASSUME MInv, NEW via, NEW c, Admitted(via, c, Staff),
           NEW o \in Orders \cup Nothing, NEW w \in Workers \cup Nothing, NEW code,
           AssignOrder(o, w), reply' \in Caught("assign") => Tells(code, reply'),
           Answer(via, "assign", c, AssignRequest(o, w), code)
    PROVE  Effect
<1>1. CASE Returns("ValidationError", <<>>)
  <2>1. Tells(code, reply')
    BY <1>1, CaughtResults DEF Returns, Results
  <2> QED
    BY <1>1, <2>1, InvalidRefuses DEF Effect
<1>2. CASE /\ Present(o) /\ Present(w) /\ ManualAssignOrder(o, w)
           /\ UNCHANGED <<scheduleFails, screen>>
  <2>1. o \in Orders /\ w \in Workers
    BY <1>2 DEF Present
  <2>2. /\ failNext' \subseteq OrderMethods
        /\ \/ reply' = "ok" /\ \E d \in Requests, n \in Nat : Assigned(o, w, d, n)
           \/ /\ UNCHANGED <<store, orders>>
              /\ \/ reply' = "ConflictError" /\ HasPending(o)
                 \/ reply' = "ExternalServiceError"
    BY <1>2, <2>1, AssignCases
  <2>3. Tells(code, reply')
    BY <2>2, CaughtResults DEF Results
  <2>4. ASSUME reply' = "ok", NEW d \in Requests, NEW n \in Nat, Assigned(o, w, d, n)
        PROVE  Assigns(via, c, o, w, d, n, code)
    BY <1>2, <2>1, <2>2, <2>3, <2>4 DEF Assigns, Tells
  <2>5. ASSUME UNCHANGED <<store, orders>>,
               \/ reply' = "ConflictError" /\ HasPending(o)
               \/ reply' = "ExternalServiceError"
        PROVE  AssignsNothing(via, c, o, w, code)
    BY <1>2, <2>2, <2>3, <2>5 DEF AssignsNothing, Tells
  <2> QED
    BY <2>2, <2>4, <2>5 DEF Effect
<1> QED
  BY <1>1, <1>2 DEF AssignOrder

\* respond, whichever transport brought it.
LEMMA RespondEffect ==
    ASSUME MInv, screen \in [Users -> SUBSET Requests],
           NEW via, NEW c, Admitted(via, c, Crew),
           NEW d \in DOMAIN store \cup {NoSuchId, Blank}, NEW response \in Responses,
           NEW reason \in Reasons \cup Nothing, NEW code,
           Respond(d, c.user, response, reason),
           reply' \in Caught("respond") => Tells(code, reply'),
           Answer(via, "respond", c, ConfirmRequest(d, c.user, response, reason), code)
    PROVE  Effect
<1>1. CASE Returns("ValidationError", <<>>)
  <2>1. Tells(code, reply')
    BY <1>1, CaughtResults DEF Returns, Results
  <2> QED
    BY <1>1, <2>1, InvalidRefuses DEF Effect
<1>2. CASE /\ Present(d)
           /\ ConfirmWorkerResponse(d, c.user, response, NormalizeOptional(reason))
           /\ screen' = [screen EXCEPT ![c.user] = IF reply' = "ok" THEN @ \ {d} ELSE @]
           /\ UNCHANGED scheduleFails
  <2>1. d \in DOMAIN store \cup {NoSuchId} /\ NormalizeOptional(reason) \in Reasons \cup {None}
    BY <1>2 DEF Present, Nothing, NormalizeOptional
  <2>2. /\ failNext' \subseteq OrderMethods
        /\ \/ /\ reply' = "ok" /\ store[d].worker = c.user
              /\ \E why \in Reasons \cup {None} : Responded(d, response, why)
           \/ UNCHANGED <<store, orders>> /\ RespondRefused(d, c.user, reply')
    BY <1>2, <2>1, RespondCases
  <2>3. Tells(code, reply')
    BY <2>2, CaughtResults DEF Results, RespondRefused
  <2>4. ASSUME reply' = "ok", store[d].worker = c.user, NEW why, Responded(d, response, why)
        PROVE  Responds(via, c, d, response, reason, why, code)
    BY <1>2, <2>2, <2>3, <2>4 DEF Responds, Tells
  <2>5. ASSUME UNCHANGED <<store, orders>>, RespondRefused(d, c.user, reply')
        PROVE  Refuses \/ RespondsNothing(via, c, d, response, reason, code)
    <3>1. UNCHANGED <<scheduleFails, screen>> /\ failNext' \subseteq OrderMethods
      BY <1>2, <2>2, <2>5 DEF RespondRefused
    <3>2. CASE reply' = "ValidationError"
      <4>1. last'.code \in Refusals
        BY <2>3, <3>2 DEF Tells, Refusals, Answer
      <4>2. UNCHANGED acked
        BY <2>3, <3>2 DEF Tells, Done, Answer
      <4> QED
        BY <2>5, <3>1, <3>2, <4>1, <4>2 DEF Refuses
    <3>3. CASE reply' = "ExternalServiceError"
      BY <2>3, <2>5, <3>1, <3>3 DEF RespondsNothing, Tells
    <3>4. CASE reply' = "NotFoundError" /\ d \notin DOMAIN store
      BY <2>3, <2>5, <3>1, <3>4 DEF RespondsNothing, Tells
    <3>5. CASE /\ reply' = "ConflictError"
               /\ d \in DOMAIN store /\ store[d].worker = c.user /\ store[d].status # "PENDING"
      BY <2>3, <2>5, <3>1, <3>5 DEF RespondsNothing, Tells
    <3> QED
      BY <2>5, <3>2, <3>3, <3>4, <3>5 DEF RespondRefused
  <2> QED
    BY <2>2, <2>4, <2>5 DEF Effect
<1> QED
  BY <1>1, <1>2 DEF Respond

\* The three requests that only read.
LEMMA ReadEffects ==
    ASSUME MInv, ServerTypeOK, NEW via, NEW c, NEW code,
           NEW rpc, reply' \in Caught(rpc) => Tells(code, reply')
    PROVE  /\ (/\ rpc = "pending" /\ c.user \in Users /\ ListWorkerPending(c.user)
               /\ Answer(via, rpc, c, None, code)) => Effect
           /\ \A o \in Orders \cup {Blank} :
                 (/\ rpc = "history" /\ GetHistory(o)
                  /\ Answer(via, rpc, c, o, code)) => Effect
           /\ \A skill, region : \A limit \in Int :
                 (/\ rpc = "workers" /\ ListAvailableWorkers(skill, region, limit)
                  /\ Answer(via, rpc, c, <<skill, region>>, code)) => Effect
<1>1. ASSUME rpc = "pending", c.user \in Users, ListWorkerPending(c.user),
             Answer(via, rpc, c, None, code)
      PROVE  Effect
  <2>1. Polls(via, c, code)
    BY <1>1, CaughtResults DEF ListWorkerPending, Polls, Tells
  <2> QED
    BY <2>1 DEF Effect
<1>2. ASSUME rpc = "history", NEW o \in Orders \cup {Blank}, GetHistory(o),
             Answer(via, rpc, c, o, code)
      PROVE  Effect
  <2>1. CASE Returns("ValidationError", <<>>)
    <3>1. Tells(code, reply')
      BY <1>2, <2>1, CaughtResults DEF Returns
    <3> QED
      BY <1>2, <2>1, <3>1, InvalidRefuses DEF Effect
  <2>2. CASE Present(o) /\ Returns("ok", History(o))
    <3>1. Reads(via, c, o, code)
      BY <1>2, <2>2, CaughtResults DEF Returns, Reads, Tells, Present, Nothing
    <3> QED
      BY <3>1 DEF Effect
  <2> QED
    BY <1>2, <2>1, <2>2 DEF GetHistory
<1>3. ASSUME rpc = "workers", NEW skill, NEW region, NEW limit \in Int,
             ListAvailableWorkers(skill, region, limit),
             Answer(via, rpc, c, <<skill, region>>, code)
      PROVE  Effect
  <2> DEFINE n == NormalizedLimit(limit)
             rows == SortedBy([i \in DOMAIN Schedule |-> i],
                              Matching(NormalizeOptional(skill), NormalizeOptional(region)))
  <2>1. n \in Nat \ {0}
    BY ServerAssumption DEF NormalizedLimit
  <2> HIDE DEF n, rows
  <2>2. \/ Returns("ValidationError", <<>>)
        \/ /\ scheduleFails' = FALSE /\ reply' = "ExternalServiceError"
           /\ UNCHANGED <<store, orders, failNext, screen>>
        \/ Returns("ok", FirstRows(rows, n))
    BY <1>3 DEF ListAvailableWorkers, n, rows
  <2>3. CASE Returns("ValidationError", <<>>)
    <3>1. Tells(code, reply')
      BY <1>3, <2>3, CaughtResults DEF Returns
    <3> QED
      BY <1>3, <2>3, <3>1, InvalidRefuses DEF Effect
  <2>4. CASE /\ scheduleFails' = FALSE /\ reply' = "ExternalServiceError"
             /\ UNCHANGED <<store, orders, failNext, screen>>
    <3>1. Lists(via, c, skill, region, code)
      BY <1>3, <2>4, CaughtResults DEF Lists, Tells
    <3> QED
      BY <3>1 DEF Effect
  <2>5. CASE Returns("ok", FirstRows(rows, n))
    <3>1. Lists(via, c, skill, region, code)
      BY <1>3, <2>1, <2>5, CaughtResults DEF Returns, Lists, Tells, rows
    <3> QED
      BY <3>1 DEF Effect
  <2> QED
    BY <2>2, <2>3, <2>4, <2>5
<1> QED
  BY <1>1, <1>2, <1>3

\* Who gets past _authorize.
LEMMA Authorized ==
    ASSUME NEW c \in Callers, NEW allowed
    PROVE  /\ Authorize(c, allowed) = "OK" => Admitted("grpc", c, allowed)
           /\ Authorize(c, allowed) # "OK" => Authorize(c, allowed) \in Refusals
BY ServerAssumption DEF Authorize, Admitted, Present, Refusals

Rpcs == {"workers", "assign", "pending", "respond", "history"}

LEMMA GrpcTells ==
    ASSUME NEW rpc \in Rpcs
    PROVE  reply' \in Caught(rpc) => Tells(GrpcCode(rpc, reply'), reply')
<1>1. Caught(rpc) \subseteq Results
  BY CaughtResults DEF Rpcs, Results
<1> QED
  BY <1>1, CodesTell DEF Done

LEMMA HttpTells ==
    ASSUME NEW success \in Done, NEW rpc \in Rpcs
    PROVE  reply' \in Caught(rpc) => Tells(HttpCode(reply', success), reply')
<1>1. Caught(rpc) \subseteq Results
  BY CaughtResults DEF Rpcs, Results
<1> QED
  BY <1>1, CodesTell

LEMMA GrpcEffect ==
    ASSUME MInv, ServerTypeOK, NEW c \in Callers, GrpcRequest(c)
    PROVE  Effect
<1>1. screen \in [Users -> SUBSET Requests]
  BY DEF ServerTypeOK
<1>2. ASSUME NEW skill, NEW region, NEW limit \in Int, NEW parses \in BOOLEAN,
             GrpcListAvailableWorkers(c, skill, region, limit, parses)
      PROVE  Effect
  <2> DEFINE n == IF limit = 0 THEN DefaultLimit ELSE limit
  <2>1. n \in Int
    BY ServerAssumption
  <2>2. CASE /\ Authorize(c, Staff) # "OK"
             /\ TurnedAway("grpc", "workers", Authorize(c, Staff))
    BY <2>2, Authorized, TurnedAwayRefuses DEF Effect
  <2>3. CASE /\ Authorize(c, Staff) = "OK" /\ Returns("ValidationError", <<>>)
             /\ Answer("grpc", "workers", c, <<skill, region>>, GrpcCode("workers", reply'))
    <3>1. Tells(GrpcCode("workers", reply'), reply')
      BY <2>3, GrpcTells, CaughtResults DEF Returns, Results, Rpcs
    <3> QED
      BY <2>3, <3>1, InvalidRefuses DEF Effect
  <2>4. CASE /\ Authorize(c, Staff) = "OK" /\ ListAvailableWorkers(skill, region, n)
             /\ Answer("grpc", "workers", c, <<skill, region>>, GrpcCode("workers", reply'))
    <3> HIDE DEF n
    <3> QED
      BY <2>1, <2>4, GrpcTells, ReadEffects DEF Rpcs
  <2> QED
    BY <1>2, <2>2, <2>3, <2>4 DEF GrpcListAvailableWorkers, Grpc
<1>3. ASSUME NEW o \in Orders \cup Nothing, NEW w \in Workers \cup Nothing,
             GrpcManualAssignOrder(c, o, w)
      PROVE  Effect
  <2>1. CASE /\ Authorize(c, Staff) # "OK"
             /\ TurnedAway("grpc", "assign", Authorize(c, Staff))
    BY <2>1, Authorized, TurnedAwayRefuses DEF Effect
  <2>2. CASE /\ Authorize(c, Staff) = "OK" /\ AssignOrder(o, w)
             /\ Answer("grpc", "assign", c, AssignRequest(o, w), GrpcCode("assign", reply'))
    BY <2>2, Authorized, GrpcTells, AssignEffect DEF Rpcs
  <2> QED
    BY <1>3, <2>1, <2>2 DEF GrpcManualAssignOrder, Grpc
<1>4. ASSUME GrpcListWorkerPendingDispatches(c)
      PROVE  Effect
  <2>1. CASE /\ Authorize(c, Crew) # "OK"
             /\ TurnedAway("grpc", "pending", Authorize(c, Crew))
    BY <2>1, Authorized, TurnedAwayRefuses DEF Effect
  <2>2. CASE /\ Authorize(c, Crew) = "OK" /\ ListWorkerPending(c.user)
             /\ Answer("grpc", "pending", c, None, GrpcCode("pending", reply'))
    <3>1. c.user \in Users
      BY <2>2, Authorized DEF Admitted
    <3> QED
      BY <2>2, <3>1, GrpcTells, ReadEffects DEF Rpcs
  <2> QED
    BY <1>4, <2>1, <2>2 DEF GrpcListWorkerPendingDispatches, Grpc
<1>5. ASSUME NEW d \in DOMAIN store \cup {NoSuchId, Blank}, NEW response \in Answers,
             NEW reason \in Reasons \cup Nothing,
             GrpcConfirmWorkerResponse(c, d, response, reason)
      PROVE  Effect
  <2> DEFINE q == ConfirmRequest(d, c.user, response, reason)
  <2>1. CASE /\ Authorize(c, Crew) # "OK"
             /\ TurnedAway("grpc", "respond", Authorize(c, Crew))
    BY <2>1, Authorized, TurnedAwayRefuses DEF Effect
  <2>2. CASE /\ Authorize(c, Crew) = "OK" /\ Returns("ValidationError", <<>>)
             /\ Answer("grpc", "respond", c, q, GrpcCode("respond", reply'))
    <3>1. Tells(GrpcCode("respond", reply'), reply')
      BY <2>2, GrpcTells, CaughtResults DEF Returns, Results, Rpcs
    <3> QED
      BY <2>2, <3>1, InvalidRefuses DEF Effect
  <2>3. CASE /\ Authorize(c, Crew) = "OK" /\ response \in Responses
             /\ Respond(d, c.user, response, reason)
             /\ Answer("grpc", "respond", c, q, GrpcCode("respond", reply'))
    BY <1>1, <2>3, Authorized, GrpcTells, RespondEffect DEF Rpcs
  <2> QED
    BY <1>5, <2>1, <2>2, <2>3 DEF GrpcConfirmWorkerResponse, Grpc
<1>6. ASSUME NEW o \in Orders \cup {Blank}, GrpcGetOrderDispatchHistory(c, o)
      PROVE  Effect
  <2>1. CASE /\ Authorize(c, Staff) # "OK"
             /\ TurnedAway("grpc", "history", Authorize(c, Staff))
    BY <2>1, Authorized, TurnedAwayRefuses DEF Effect
  <2>2. CASE /\ Authorize(c, Staff) = "OK" /\ GetHistory(o)
             /\ Answer("grpc", "history", c, o, GrpcCode("history", reply'))
    BY <2>2, GrpcTells, ReadEffects DEF Rpcs
  <2> QED
    BY <1>6, <2>1, <2>2 DEF GrpcGetOrderDispatchHistory, Grpc
<1>7. Limits \subseteq Int /\ 0 \in Int
  BY ServerAssumption
<1> QED
  BY <1>2, <1>3, <1>4, <1>5, <1>6, <1>7 DEF GrpcRequest

LEMMA HttpEffect ==
    ASSUME MInv, ServerTypeOK, NEW u \in Users \cup Nothing, HttpRequest(u)
    PROVE  Effect
<1> DEFINE c == [user |-> u, role |-> None]
<1>1. screen \in [Users -> SUBSET Requests]
  BY DEF ServerTypeOK
<1>2. c.user = u /\ {"200", "201"} \subseteq Done
      /\ \A allowed : Present(u) => Admitted("http", c, allowed)
  BY DEF Done, Present, Admitted
<1> HIDE DEF c
<1>3. ASSUME NEW rpc, NEW code \in {"401", "422"}, TurnedAway("http", rpc, code)
      PROVE  Effect
  BY <1>3, TurnedAwayRefuses DEF Effect, Refusals
<1>4. ASSUME NEW o \in Orders \cup Nothing, NEW w \in Workers \cup Nothing,
             HttpManualAssign(u, o, w)
      PROVE  Effect
  <2>1. CASE /\ Present(u) /\ AssignOrder(o, w)
             /\ Answer("http", "assign", c, AssignRequest(o, w), HttpCode(reply', "201"))
    BY <1>2, <2>1, HttpTells, AssignEffect DEF Rpcs
  <2> QED
    BY <1>3, <1>4, <2>1 DEF HttpManualAssign, Validated, Identified, Http, c
<1>5. ASSUME HttpListPendingDispatches(u)
      PROVE  Effect
  <2>1. CASE /\ Present(u) /\ ListWorkerPending(u)
             /\ Answer("http", "pending", c, None, HttpCode(reply', "200"))
    <3>1. c.user \in Users
      BY <1>2, <2>1 DEF Admitted
    <3> QED
      BY <1>2, <2>1, <3>1, HttpTells, ReadEffects DEF Rpcs
  <2> QED
    BY <1>3, <1>5, <2>1 DEF HttpListPendingDispatches, Identified, Http, c
<1>6. ASSUME NEW d \in DOMAIN store \cup {NoSuchId, Blank}, NEW response \in Answers,
             NEW reason \in Reasons \cup Nothing,
             HttpConfirmWorkerResponse(u, d, response, reason)
      PROVE  Effect
  <2>1. CASE /\ Present(u) /\ response \in Responses /\ Respond(d, u, response, reason)
             /\ Answer("http", "respond", c, ConfirmRequest(d, u, response, reason),
                       HttpCode(reply', "200"))
    BY <1>1, <1>2, <2>1, HttpTells, RespondEffect DEF Rpcs
  <2> QED
    BY <1>3, <1>6, <2>1 DEF HttpConfirmWorkerResponse, Validated, Identified, Http, c
<1> QED
  BY <1>4, <1>5, <1>6 DEF HttpRequest

LEMMA AnonymousEffect ==
    ASSUME MInv, ServerTypeOK, AnonymousHttpRequest
    PROVE  Effect
<1> DEFINE c == [user |-> None, role |-> None]
<1>1. ASSUME NEW skill, NEW region, NEW limit \in Int, NEW parses \in BOOLEAN,
             HttpListAvailableWorkers(skill, region, limit, parses)
      PROVE  Effect
  <2>1. CASE TurnedAway("http", "workers", "422")
    BY <2>1, TurnedAwayRefuses DEF Effect, Refusals
  <2>2. CASE /\ ListAvailableWorkers(skill, region, limit)
             /\ Answer("http", "workers", c, <<skill, region>>, HttpCode(reply', "200"))
    <3> HIDE DEF c
    <3>1. "200" \in Done
      BY DEF Done
    <3> QED
      BY <2>2, <3>1, HttpTells, ReadEffects DEF Rpcs
  <2> QED
    BY <1>1, <2>1, <2>2 DEF HttpListAvailableWorkers, Validated, Http
<1>2. ASSUME NEW o \in Orders \cup {Blank}, HttpGetOrderHistory(o)
      PROVE  Effect
  <2>1. /\ GetHistory(o)
        /\ Answer("http", "history", c, o, HttpCode(reply', "200"))
    BY <1>2 DEF HttpGetOrderHistory, Http
  <2> HIDE DEF c
  <2>2. "200" \in Done
    BY DEF Done
  <2> QED
    BY <2>1, <2>2, HttpTells, ReadEffects DEF Rpcs
<1>3. Limits \subseteq Int /\ DefaultLimit \in Int
  BY ServerAssumption
<1> QED
  BY <1>1, <1>2, <1>3 DEF AnonymousHttpRequest

\* Whatever is sent over whichever transport.
LEMMA ServerCases ==
    ASSUME MInv, ServerTypeOK, [ServerNext]_serverVars
    PROVE  Effect
<1>1. CASE Fault
  <2>1. Rests
    BY <1>1 DEF Fault, FailNext, vars, Rests, MInv, TypeOK, ServerTypeOK
  <2> QED
    BY <2>1 DEF Effect
<1>2. CASE UNCHANGED serverVars
  <2>1. Rests
    BY <1>2 DEF serverVars, vars, Rests, MInv, TypeOK, ServerTypeOK
  <2> QED
    BY <2>1 DEF Effect
<1>3. {c.user : c \in Callers} \subseteq Users \cup Nothing
  BY ServerAssumption
<1> QED
  BY <1>1, <1>2, <1>3, GrpcEffect, HttpEffect, AnonymousEffect DEF ServerNext

-----------------------------------------------------------------------------
(* The invariant                                                           *)

\* The last answer listed what a history is now: no answer outlives a change
\* of the records.
HistoryIsShown ==
    (last.rpc = "history" /\ last.code \in Done) =>
        last.query \in Orders /\ shown = History(last.query)

\* Why a write sent again finds itself done: the dispatch that was assigned is
\* still recorded for that order and worker, the one that was answered is answered.
AckedIsRecorded ==
    \A e \in acked :
        /\ e.dispatch \in DOMAIN store
        /\ \/ e.query = AssignRequest(store[e.dispatch].order, store[e.dispatch].worker)
           \/ /\ e.query.kind = "confirm" /\ e.query.dispatch = e.dispatch
              /\ store[e.dispatch].status # "PENDING"

\* What holds of every state; EmptyMeansNobody needs nothing of it.
ServerInv ==
    /\ MInv
    /\ ServerTypeOK
    /\ ScreenStaysAnswerable
    /\ CodesTellTheTruth
    /\ HistoryIsShown
    /\ EmptyMeansNobody
    /\ AckedIsRecorded

LEMMA InitServerInv == ServerInit => ServerInv
<1> SUFFICES ASSUME ServerInit PROVE ServerInv
  OBVIOUS
<1>1. MInv /\ TypeOK
  BY InitMInv DEF ServerInit, MInv
<1>2. last.rpc = "none" /\ last.code = "none" /\ scheduleFails = FALSE
      /\ screen = [u \in Users |-> {}] /\ acked = {}
  BY DEF ServerInit, NoCall
<1>3. ServerTypeOK
  BY <1>1, <1>2 DEF ServerTypeOK
<1>4. ScreenStaysAnswerable
  BY <1>2 DEF ScreenStaysAnswerable
<1>5. CodesTellTheTruth /\ HistoryIsShown /\ EmptyMeansNobody
  BY <1>2 DEF CodesTellTheTruth, HistoryIsShown, EmptyMeansNobody, Done
<1>6. AckedIsRecorded
  BY <1>2 DEF AckedIsRecorded
<1> QED
  BY <1>1, <1>3, <1>4, <1>5, <1>6 DEF ServerInv

\* A request that writes nothing is not recorded as a write.
LEMMA NothingWritten ==
    ASSUME UNCHANGED store, NEW via, NEW rpc, NEW c, NEW query, NEW code,
           Answer(via, rpc, c, query, code)
    PROVE  UNCHANGED acked
<1>1. Written = {}
  BY DEF Written
<1> QED
  BY <1>1 DEF Answer

\* What kind of step an effect is to the stores and to the screens.
LEMMA EffectOnStores ==
    ASSUME MInv, Effect
    PROVE  /\ failNext' \subseteq OrderMethods /\ reply' \in Outcomes
           /\ \/ \E via, c, o, w, d, n, code : Assigns(via, c, o, w, d, n, code)
              \/ \E via, c, d, response, reason, why, code :
                    Responds(via, c, d, response, reason, why, code)
              \/ /\ UNCHANGED <<store, orders, acked>>
                 /\ \/ UNCHANGED screen
                    \/ \E via, c, code : Polls(via, c, code)
<1> USE DEF MInv, TypeOK, Outcomes
<1>1. CASE Refuses
  BY <1>1 DEF Refuses
<1>2. ASSUME NEW via, NEW c, NEW o, NEW w, NEW d, NEW n, NEW code,
             Assigns(via, c, o, w, d, n, code)
      PROVE  failNext' \subseteq OrderMethods /\ reply' \in Outcomes
  BY <1>2 DEF Assigns
<1>3. ASSUME NEW via, NEW c, NEW o, NEW w, NEW code, AssignsNothing(via, c, o, w, code)
      PROVE  /\ failNext' \subseteq OrderMethods /\ reply' \in Outcomes
             /\ UNCHANGED <<store, orders, screen, acked>>
  BY <1>3, NothingWritten DEF AssignsNothing
<1>4. ASSUME NEW via, NEW c, NEW d, NEW response, NEW reason, NEW why, NEW code,
             Responds(via, c, d, response, reason, why, code)
      PROVE  failNext' \subseteq OrderMethods /\ reply' \in Outcomes
  BY <1>4 DEF Responds
<1>5. ASSUME NEW via, NEW c, NEW d, NEW response, NEW reason, NEW code,
             RespondsNothing(via, c, d, response, reason, code)
      PROVE  /\ failNext' \subseteq OrderMethods /\ reply' \in Outcomes
             /\ UNCHANGED <<store, orders, screen, acked>>
  BY <1>5, NothingWritten DEF RespondsNothing
<1>6. ASSUME NEW via, NEW c, NEW code, Polls(via, c, code)
      PROVE  /\ failNext' \subseteq OrderMethods /\ reply' \in Outcomes
             /\ UNCHANGED <<store, orders, acked>>
  BY <1>6, NothingWritten DEF Polls
<1>7. ASSUME NEW via, NEW c, NEW o, NEW code, Reads(via, c, o, code)
      PROVE  /\ failNext' \subseteq OrderMethods /\ reply' \in Outcomes
             /\ UNCHANGED <<store, orders, screen, acked>>
  BY <1>7, NothingWritten DEF Reads
<1>8. ASSUME NEW via, NEW c, NEW skill, NEW region, NEW code,
             Lists(via, c, skill, region, code)
      PROVE  /\ failNext' \subseteq OrderMethods /\ reply' \in Outcomes
             /\ UNCHANGED <<store, orders, screen, acked>>
  BY <1>8, NothingWritten DEF Lists
<1>9. CASE Rests
  BY <1>9 DEF Rests
<1> USE DEF Effect
<1> QED
  BY <1>1, <1>2, <1>3, <1>4, <1>5, <1>6, <1>7, <1>8, <1>9

LEMMA EffectKeepsMInv ==
    ASSUME MInv, Effect
    PROVE  MInv'
<1>1. failNext' \subseteq OrderMethods /\ reply' \in Outcomes
  BY EffectOnStores
<1>2. ASSUME NEW via, NEW c, NEW o, NEW w, NEW d, NEW n, NEW code,
             Assigns(via, c, o, w, d, n, code)
      PROVE  MInv'
  BY <1>1, <1>2, AssignedKeepsMInv DEF Assigns
<1>3. ASSUME NEW via, NEW c, NEW d, NEW response, NEW reason, NEW why, NEW code,
             Responds(via, c, d, response, reason, why, code)
      PROVE  MInv'
  BY <1>1, <1>3, RespondedKeepsMInv DEF Responds
<1>4. CASE UNCHANGED <<store, orders>>
  BY <1>1, <1>4, StoresKept
<1> QED
  BY <1>2, <1>3, <1>4, EffectOnStores

\* The answer of every effect but Rests, and what it leaves to the schedule.
LEMMA EffectTypes ==
    ASSUME ServerTypeOK, Effect
    PROVE  /\ scheduleFails' \in BOOLEAN
           /\ last'.code \in Done \cup
                 {"none", "UNAUTHENTICATED", "PERMISSION_DENIED", "INVALID_ARGUMENT",
                  "NOT_FOUND", "FAILED_PRECONDITION", "UNAVAILABLE", "UNKNOWN",
                  "400", "401", "404", "409", "422", "503"}
<1> DEFINE Codes == Done \cup
                 {"none", "UNAUTHENTICATED", "PERMISSION_DENIED", "INVALID_ARGUMENT",
                  "NOT_FOUND", "FAILED_PRECONDITION", "UNAVAILABLE", "UNKNOWN",
                  "400", "401", "404", "409", "422", "503"}
           Goal == scheduleFails' \in BOOLEAN /\ last'.code \in Codes
<1> USE DEF ServerTypeOK, Answer
<1>1. CASE Refuses
  BY <1>1 DEF Refuses, Refusals
<1>2. ASSUME NEW via, NEW c, NEW o, NEW w, NEW d, NEW n, NEW code,
             Assigns(via, c, o, w, d, n, code)
      PROVE  Goal
  BY <1>2 DEF Assigns
<1>3. ASSUME NEW via, NEW c, NEW o, NEW w, NEW code, AssignsNothing(via, c, o, w, code)
      PROVE  Goal
  BY <1>3 DEF AssignsNothing
<1>4. ASSUME NEW via, NEW c, NEW d, NEW response, NEW reason, NEW why, NEW code,
             Responds(via, c, d, response, reason, why, code)
      PROVE  Goal
  BY <1>4 DEF Responds
<1>5. ASSUME NEW via, NEW c, NEW d, NEW response, NEW reason, NEW code,
             RespondsNothing(via, c, d, response, reason, code)
      PROVE  Goal
  BY <1>5 DEF RespondsNothing
<1>6. ASSUME NEW via, NEW c, NEW code, Polls(via, c, code)
      PROVE  Goal
  BY <1>6 DEF Polls
<1>7. ASSUME NEW via, NEW c, NEW o, NEW code, Reads(via, c, o, code)
      PROVE  Goal
  BY <1>7 DEF Reads
<1>8. ASSUME NEW via, NEW c, NEW skill, NEW region, NEW code,
             Lists(via, c, skill, region, code)
      PROVE  Goal
  BY <1>8 DEF Lists
<1>9. CASE Rests
  BY <1>9 DEF Rests
<1> HIDE DEF Goal
<1>10. Goal
  BY <1>1, <1>2, <1>3, <1>4, <1>5, <1>6, <1>7, <1>8, <1>9 DEF Effect, Goal
<1> QED
  BY <1>10 DEF Goal

LEMMA StepTypeOK ==
    ASSUME MInv, ServerTypeOK, Effect
    PROVE  ServerTypeOK'
<1>1. TypeOK'
  BY EffectKeepsMInv DEF MInv
<1>2. screen \in [Users -> SUBSET Requests] /\ DOMAIN store \subseteq Requests
  BY DEF ServerTypeOK, MInv, TypeOK
<1>3. screen' \in [Users -> SUBSET Requests]
  <2>1. ASSUME NEW via, NEW c, NEW o, NEW w, NEW d, NEW n, NEW code,
               Assigns(via, c, o, w, d, n, code)
        PROVE  UNCHANGED screen
    BY <2>1 DEF Assigns
  <2>2. ASSUME NEW via, NEW c, NEW d, NEW response, NEW reason, NEW why, NEW code,
               Responds(via, c, d, response, reason, why, code)
        PROVE  screen' \in [Users -> SUBSET Requests]
    BY <1>2, <2>2 DEF Responds, Admitted
  <2>3. ASSUME NEW via, NEW c, NEW code, Polls(via, c, code)
        PROVE  screen' \in [Users -> SUBSET Requests]
    <3>1. PendingByWorker(c.user) \subseteq Requests
      BY <1>2 DEF PendingByWorker
    <3> QED
      BY <1>2, <2>3, <3>1 DEF Polls
  <2> QED
    BY <1>2, <2>1, <2>2, <2>3, EffectOnStores
<1> QED
  BY <1>1, <1>3, EffectTypes DEF ServerTypeOK

\* What is on a screen stays pending for its worker until the worker answers.
LEMMA StepScreens ==
    ASSUME MInv, ServerTypeOK, ScreenStaysAnswerable, Effect
    PROVE  ScreenStaysAnswerable'
<1>1. screen \in [Users -> SUBSET Requests]
  BY DEF ServerTypeOK
<1>2. ASSUME NEW via, NEW c, NEW o, NEW w, NEW d, NEW n, NEW code,
             Assigns(via, c, o, w, d, n, code)
      PROVE  ScreenStaysAnswerable'
  <2>1. /\ UNCHANGED screen /\ DOMAIN store \subseteq DOMAIN store'
        /\ \A e \in DOMAIN store : store'[e] = store[e]
    BY <1>2, AssignedStore DEF Assigns
  <2> QED
    BY <2>1 DEF ScreenStaysAnswerable, PendingByWorker
<1>3. ASSUME NEW via, NEW c, NEW d, NEW response, NEW reason, NEW why, NEW code,
             Responds(via, c, d, response, reason, why, code)
      PROVE  ScreenStaysAnswerable'
  <2>1. /\ c.user \in Users /\ store[d].worker = c.user
        /\ screen' = [screen EXCEPT ![c.user] = @ \ {d}]
        /\ Responded(d, response, why)
    BY <1>3 DEF Responds, Admitted
  <2>2. DOMAIN store' = DOMAIN store /\ \A e \in DOMAIN store : e # d => store'[e] = store[e]
    BY <2>1, RespondedStore DEF SameIdentities
  <2>3. ASSUME NEW u \in Users, NEW e \in screen'[u]
        PROVE  e \in DOMAIN store /\ e # d /\ store[e].worker = u /\ store[e].status = "PENDING"
    BY <1>1, <2>1, <2>3 DEF ScreenStaysAnswerable, PendingByWorker
  <2> QED
    BY <2>2, <2>3 DEF ScreenStaysAnswerable, PendingByWorker
<1>4. ASSUME UNCHANGED store, NEW via, NEW c, NEW code, Polls(via, c, code)
      PROVE  ScreenStaysAnswerable'
  BY <1>1, <1>4 DEF Polls, ScreenStaysAnswerable, PendingByWorker
<1>5. CASE UNCHANGED <<store, screen>>
  BY <1>5 DEF ScreenStaysAnswerable, PendingByWorker
<1> QED
  BY <1>2, <1>3, <1>4, <1>5, EffectOnStores

\* A code that says nothing about the stores.
Vague == {"none", "UNAVAILABLE", "503"} \cup Refusals

LEMMA VagueIsTrue ==
    ASSUME last'.code \in Vague \/ last'.rpc \in {"pending", "history", "workers"},
           last'.code \notin {"NOT_FOUND", "404", "UNKNOWN"}
    PROVE  CodesTellTheTruth'
BY DEF Vague, Refusals, CodesTellTheTruth, Done

LEMMA StepCodes ==
    ASSUME MInv, CodesTellTheTruth, Effect
    PROVE  CodesTellTheTruth'
<1>1. CASE Refuses
  <2>1. last'.code \in Vague /\ last'.code \notin {"NOT_FOUND", "404", "UNKNOWN"}
    BY <1>1 DEF Refuses, Vague, Refusals
  <2> QED
    BY <2>1, VagueIsTrue
<1>2. ASSUME NEW via, NEW c, NEW o, NEW w, NEW d, NEW n, NEW code,
             Assigns(via, c, o, w, d, n, code)
      PROVE  CodesTellTheTruth'
  <2>1. /\ o \in Orders /\ w \in Workers /\ n \in Nat /\ Assigned(o, w, d, n) /\ code \in Done
        /\ last'.rpc = "assign" /\ last'.code = code
    BY <1>2 DEF Assigns, Answer
  <2>2. last'.query = AssignRequest(o, w)
    BY <1>2, <2>1 DEF Assigns, Answer, Done, Refusals
  <2>3. last'.query.order = o /\ last'.query.worker = w
    BY <2>2 DEF AssignRequest, NoRequest
  <2>4. orders'[o] = Dispatched(w)
    BY <2>1 DEF Assigned, MInv, TypeOK
  <2>5. /\ DOMAIN store' = DOMAIN store \cup {d}
        /\ store'[d] = NewRow(o, n + 1, w)
        /\ \A e \in DOMAIN store : store'[e] = store[e]
    BY <2>1, AssignedStore
  <2>6. /\ store'[d].order = o /\ store'[d].worker = w /\ store'[d].status = "PENDING"
    BY <2>5 DEF NewRow
  <2>7. PendingOf(store', o) = {d}
    BY <2>1, <2>5, <2>6 DEF Assigned, PendingOf, RowsOf
  <2> QED
    BY <2>1, <2>3, <2>4, <2>6, <2>7 DEF CodesTellTheTruth, Done
<1>3. ASSUME NEW via, NEW c, NEW o, NEW w, NEW code, AssignsNothing(via, c, o, w, code)
      PROVE  CodesTellTheTruth'
  <2>1. CASE code \in {"UNAVAILABLE", "503"}
    <3>1. last'.code \in Vague /\ last'.code \notin {"NOT_FOUND", "404", "UNKNOWN"}
      BY <1>3, <2>1 DEF AssignsNothing, Answer, Vague
    <3> QED
      BY <3>1, VagueIsTrue
  <2>2. CASE code \in {"FAILED_PRECONDITION", "409"} /\ PendingOf(store, o) # {}
    <3>1. /\ last'.rpc = "assign" /\ last'.code = code /\ UNCHANGED store
          /\ last'.query = AssignRequest(o, w)
      BY <1>3, <2>2 DEF AssignsNothing, Answer, Refusals
    <3>2. last'.query.order = o
      BY <3>1 DEF AssignRequest, NoRequest
    <3> QED
      BY <2>2, <3>1, <3>2 DEF CodesTellTheTruth, Done
  <2> QED
    BY <1>3, <2>1, <2>2 DEF AssignsNothing, HasPending
<1>4. ASSUME NEW via, NEW c, NEW d, NEW response, NEW reason, NEW why, NEW code,
             Responds(via, c, d, response, reason, why, code)
      PROVE  CodesTellTheTruth'
  <2>1. /\ Responded(d, response, why) /\ code \in Done
        /\ last'.rpc = "respond" /\ last'.code = code
    BY <1>4 DEF Responds, Answer
  <2>2. last'.query = ConfirmRequest(d, c.user, response, reason)
    BY <1>4, <2>1 DEF Responds, Answer, Done, Refusals
  <2>3. last'.query.dispatch = d /\ last'.query.response = response
    BY <2>2 DEF ConfirmRequest
  <2>4. /\ store'[d].status = Verdict(response)
        /\ store'[d].order = store[d].order /\ store'[d].worker = store[d].worker
    BY <2>1, RespondedStore DEF SameIdentities, Responded
  <2>5. orders'[store[d].order] =
           IF response = "ACCEPT" THEN Confirmed(store[d].worker) ELSE Unassigned
    BY <2>1 DEF Responded, MInv, TypeOK, Row
  <2>6. orders'[store'[d].order] = OrderStateFor(store'[d])
    BY <2>1, <2>4, <2>5 DEF OrderStateFor, Verdict, Responded, Responses
  <2> QED
    BY <2>1, <2>3, <2>4, <2>6 DEF CodesTellTheTruth, Done
<1>5. ASSUME NEW via, NEW c, NEW d, NEW response, NEW reason, NEW code,
             RespondsNothing(via, c, d, response, reason, code)
      PROVE  CodesTellTheTruth'
  <2>1. CASE code \in {"UNAVAILABLE", "503"}
    <3>1. last'.code \in Vague /\ last'.code \notin {"NOT_FOUND", "404", "UNKNOWN"}
      BY <1>5, <2>1 DEF RespondsNothing, Answer, Vague
    <3> QED
      BY <3>1, VagueIsTrue
  <2>2. CASE code \in {"FAILED_PRECONDITION", "409", "NOT_FOUND", "404"}
    <3>1. /\ last'.rpc = "respond" /\ last'.code = code /\ UNCHANGED store
          /\ last'.query = ConfirmRequest(d, c.user, response, reason)
      BY <1>5, <2>2 DEF RespondsNothing, Answer, Refusals
    <3>2. last'.query.dispatch = d /\ last'.query.worker = c.user
      BY <3>1 DEF ConfirmRequest
    <3>3. /\ code \in {"NOT_FOUND", "404"} => d \notin DOMAIN store
          /\ code \in {"FAILED_PRECONDITION", "409"} =>
                store[d].status # "PENDING" /\ store[d].worker = c.user
      BY <1>5, <2>2 DEF RespondsNothing
    <3> QED
      BY <2>2, <3>1, <3>2, <3>3 DEF CodesTellTheTruth, Done
  <2> QED
    BY <1>5, <2>1, <2>2 DEF RespondsNothing
<1>6. ASSUME NEW via, NEW c, NEW code, Polls(via, c, code)
      PROVE  CodesTellTheTruth'
  <2>1. last'.rpc = "pending" /\ last'.code \notin {"NOT_FOUND", "404", "UNKNOWN"}
    BY <1>6 DEF Polls, Answer, Done
  <2> QED
    BY <2>1, VagueIsTrue
<1>7. ASSUME NEW via, NEW c, NEW o, NEW code, Reads(via, c, o, code)
      PROVE  CodesTellTheTruth'
  <2>1. last'.rpc = "history" /\ last'.code \notin {"NOT_FOUND", "404", "UNKNOWN"}
    BY <1>7 DEF Reads, Answer, Done
  <2> QED
    BY <2>1, VagueIsTrue
<1>8. ASSUME NEW via, NEW c, NEW skill, NEW region, NEW code,
             Lists(via, c, skill, region, code)
      PROVE  CodesTellTheTruth'
  <2>1. last'.rpc = "workers" /\ last'.code \notin {"NOT_FOUND", "404", "UNKNOWN"}
    BY <1>8 DEF Lists, Answer, Done
  <2> QED
    BY <2>1, VagueIsTrue
<1>9. CASE Rests
  <2>1. UNCHANGED <<store, orders, last>>
    BY <1>9 DEF Rests
  <2> QED
    BY <2>1 DEF CodesTellTheTruth
<1> QED
  BY <1>1, <1>2, <1>3, <1>4, <1>5, <1>6, <1>7, <1>8, <1>9 DEF Effect

\* An answer that lists something holds what was found, and changed nothing.
LEMMA ListingEffects ==
    ASSUME MInv, Effect, last'.code \in Done, last'.rpc \in {"history", "workers"}
    PROVE  \/ \E via, c, o, code : Reads(via, c, o, code)
           \/ \E via, c, skill, region, code : Lists(via, c, skill, region, code)
           \/ Rests
<1> USE DEF Answer, Done
<1>1. ~Refuses
  BY DEF Refuses, Refusals
<1>2. \A via, c, o, w, d, n, code : ~Assigns(via, c, o, w, d, n, code)
  BY DEF Assigns
<1>3. \A via, c, o, w, code : ~AssignsNothing(via, c, o, w, code)
  BY DEF AssignsNothing
<1>4. \A via, c, d, response, reason, why, code :
         ~Responds(via, c, d, response, reason, why, code)
  BY DEF Responds
<1>5. \A via, c, d, response, reason, code :
         ~RespondsNothing(via, c, d, response, reason, code)
  BY DEF RespondsNothing
<1>6. \A via, c, code : ~Polls(via, c, code)
  BY DEF Polls
<1> QED
  BY <1>1, <1>2, <1>3, <1>4, <1>5, <1>6 DEF Effect

LEMMA StepHistory ==
    ASSUME MInv, HistoryIsShown, Effect
    PROVE  HistoryIsShown'
<1>1. ASSUME NEW via, NEW c, NEW o, NEW code, Reads(via, c, o, code)
      PROVE  HistoryIsShown'
  <2>1. o \in Orders /\ shown' = History(o) /\ UNCHANGED store /\ code \notin Refusals
    BY <1>1 DEF Reads, Done, Refusals
  <2>2. last'.query = o
    BY <1>1, <2>1 DEF Reads, Answer
  <2> QED
    BY <2>1, <2>2 DEF HistoryIsShown, History, RowsOf, SortedBy
<1>2. CASE Rests
  <2>1. UNCHANGED <<store, shown, last>>
    BY <1>2 DEF Rests
  <2> QED
    BY <2>1 DEF HistoryIsShown, History, RowsOf, SortedBy
<1>3. ASSUME NEW via, NEW c, NEW skill, NEW region, NEW code,
             Lists(via, c, skill, region, code)
      PROVE  HistoryIsShown'
  <2>1. last'.rpc = "workers"
    BY <1>3 DEF Lists, Answer
  <2> QED
    BY <2>1 DEF HistoryIsShown
<1>4. CASE ~(last'.rpc = "history" /\ last'.code \in Done)
  BY <1>4 DEF HistoryIsShown
<1> QED
  BY <1>1, <1>2, <1>3, <1>4, ListingEffects

\* The places of a filtered schedule, in order.
LEMMA MatchingRows ==
    ASSUME NEW skill, NEW region, NEW limit \in Nat \ {0}, NEW rows,
           rows = SortedBy([i \in DOMAIN Schedule |-> i], Matching(skill, region)),
           FirstRows(rows, limit) = <<>>
    PROVE  Matching(skill, region) = {}
<1> DEFINE S == Matching(skill, region)
<1>1. Len(Schedule) \in Nat /\ DOMAIN Schedule = 1..Len(Schedule)
  BY ServerAssumption
<1>2. S \subseteq 1..Len(Schedule)
  BY <1>1 DEF Matching
<1>3. IsFiniteSet(S)
  <2>1. 1 \in Int /\ Len(Schedule) \in Int
    BY <1>1
  <2>2. IsFiniteSet(1..Len(Schedule))
    BY <2>1, FS_Interval
  <2> HIDE DEF S
  <2> QED
    BY <1>2, <2>2, FS_Subset
<1> DEFINE key == [i \in DOMAIN Schedule |-> i]
<1>4. \A i \in S : key[i] \in Int
  BY <1>1, <1>2
<1>5. rows = SortedBy(key, S)
  OBVIOUS
<1> HIDE DEF S, key
<1>6. IsSorting(rows, key, S)
  BY <1>3, <1>4, <1>5, Sorting
<1>7. PICK n \in Nat : n = Cardinality(S)
  BY <1>3, FS_CardinalityType
<1>8. rows \in [1..n -> S] /\ \A d \in S : \E i \in 1..n : rows[i] = d
  BY <1>6, <1>7 DEF IsSorting
<1>9. rows \in Seq(S) /\ Len(rows) = n
  BY <1>8
<1> DEFINE m == IF limit <= n THEN limit ELSE n
<1>10. Min({Max({limit, 0}), n}) = m
  <2>1. Max({limit, 0}) = limit
    BY DEF Max
  <2>2. Min({limit, n}) = m
    BY DEF Min
  <2> QED
    BY <2>1, <2>2
<1>11. m \in Nat /\ m <= n /\ (n # 0 => m # 0)
  OBVIOUS
<1> HIDE DEF m
<1>12. SubSeq(rows, 1, m) = <<>>
  BY <1>9, <1>10 DEF FirstRows
<1>13. Len(SubSeq(rows, 1, m)) = m
  BY <1>9, <1>11
<1>14. n = 0
  BY <1>11, <1>12, <1>13
<1> QED
  BY <1>8, <1>14 DEF S

LEMMA StepEmpty ==
    ASSUME MInv, EmptyMeansNobody, Effect
    PROVE  EmptyMeansNobody'
<1>1. ASSUME NEW via, NEW c, NEW skill, NEW region, NEW code,
             Lists(via, c, skill, region, code)
      PROVE  EmptyMeansNobody'
  <2>1. SUFFICES ASSUME last'.code \in Done, shown' = <<>>
                 PROVE  Matching(NormalizeOptional(last'.query[1]),
                                 NormalizeOptional(last'.query[2])) = {}
    BY DEF EmptyMeansNobody, Matching, NormalizeOptional, Present, Nothing
  <2>2. last'.code = code
    BY <1>1 DEF Lists, Answer
  <2>3. code \notin Refusals /\ code \notin {"UNAVAILABLE", "503"}
    BY <2>1, <2>2 DEF Done, Refusals
  <2>4. last'.query = <<skill, region>>
    BY <1>1, <2>3 DEF Lists, Answer
  <2> DEFINE s == NormalizeOptional(skill)
             r == NormalizeOptional(region)
  <2>5. PICK limit \in Nat \ {0} :
            shown' = FirstRows(SortedBy([i \in DOMAIN Schedule |-> i], Matching(s, r)), limit)
    BY <1>1, <2>3 DEF Lists
  <2> HIDE DEF s, r
  <2>6. Matching(s, r) = {}
    BY <2>1, <2>5, MatchingRows
  <2> QED
    BY <2>4, <2>6 DEF s, r
<1>2. ASSUME NEW via, NEW c, NEW o, NEW code, Reads(via, c, o, code)
      PROVE  EmptyMeansNobody'
  <2>1. last'.rpc = "history"
    BY <1>2 DEF Reads, Answer
  <2> QED
    BY <2>1 DEF EmptyMeansNobody
<1>3. CASE Rests
  <2>1. UNCHANGED <<shown, last>>
    BY <1>3 DEF Rests
  <2> QED
    BY <2>1 DEF EmptyMeansNobody, Matching, NormalizeOptional, Present, Nothing
<1>4. CASE ~(last'.rpc = "workers" /\ last'.code \in Done)
  BY <1>4 DEF EmptyMeansNobody
<1> QED
  BY <1>1, <1>2, <1>3, <1>4, ListingEffects

\* Records are neither removed nor reassigned, and an answer is never taken back.
LEMMA StepAcked ==
    ASSUME MInv, AckedIsRecorded, Effect
    PROVE  AckedIsRecorded'
<1>1. ASSUME NEW via, NEW c, NEW o, NEW w, NEW d, NEW n, NEW code,
             Assigns(via, c, o, w, d, n, code)
      PROVE  AckedIsRecorded'
  <2>1. /\ DOMAIN store' = DOMAIN store \cup {d}
        /\ store'[d] = NewRow(o, n + 1, w)
        /\ \A e \in DOMAIN store : store'[e] = store[e]
    BY <1>1, AssignedStore DEF Assigns
  <2>2. store'[d].order = o /\ store'[d].worker = w
    BY <2>1 DEF NewRow
  <2>3. \A e \in Written : e = d
    BY <2>1 DEF Written
  <2>4. \A e \in acked' : e \in acked \/ (e.query = AssignRequest(o, w) /\ e.dispatch = d)
    BY <1>1, <2>3 DEF Assigns, Answer
  <2> QED
    BY <2>1, <2>2, <2>4 DEF AckedIsRecorded
<1>2. ASSUME NEW via, NEW c, NEW d, NEW response, NEW reason, NEW why, NEW code,
             Responds(via, c, d, response, reason, why, code)
      PROVE  AckedIsRecorded'
  <2>1. Responded(d, response, why)
    BY <1>2 DEF Responds
  <2>2. /\ DOMAIN store' = DOMAIN store /\ d \in DOMAIN store
        /\ \A e \in DOMAIN store : e # d => store'[e] = store[e]
        /\ store'[d].order = store[d].order /\ store'[d].worker = store[d].worker
        /\ store'[d].status = Verdict(response)
    <3>1. d \in DOMAIN store
      BY <2>1 DEF Responded
    <3> QED
      BY <2>1, <3>1, RespondedStore DEF SameIdentities
  <2>3. store'[d].status # "PENDING"
    BY <2>1, <2>2 DEF Responded, Verdict, Responses
  <2>4. \A e \in Written : e = d
    BY <2>2 DEF Written
  <2>5. \A e \in acked' :
           \/ e \in acked
           \/ e.query = ConfirmRequest(d, c.user, response, reason) /\ e.dispatch = d
    BY <1>2, <2>4 DEF Responds, Answer
  <2>6. /\ ConfirmRequest(d, c.user, response, reason).kind = "confirm"
        /\ ConfirmRequest(d, c.user, response, reason).dispatch = d
    BY DEF ConfirmRequest
  <2> QED
    BY <2>2, <2>3, <2>5, <2>6 DEF AckedIsRecorded
<1>3. CASE UNCHANGED <<store, acked>>
  BY <1>3 DEF AckedIsRecorded
<1> QED
  BY <1>1, <1>2, <1>3, EffectOnStores

LEMMA StepServerInv == ServerInv /\ [ServerNext]_serverVars => ServerInv'
<1> SUFFICES ASSUME ServerInv, [ServerNext]_serverVars
             PROVE  ServerInv'
  OBVIOUS
<1>1. Effect
  BY ServerCases DEF ServerInv
<1> QED
  BY <1>1, EffectKeepsMInv, StepTypeOK, StepScreens, StepCodes, StepHistory, StepEmpty,
     StepAcked DEF ServerInv

LEMMA ServerInvHolds == ServerSpec => []ServerInv
BY InitServerInv, StepServerInv, PTL DEF ServerSpec

\* The identities, codes and screens are well typed after any sequence of
\* requests over the two transports.
THEOREM ServerTypeCorrect == ServerSpec => []ServerTypeOK
BY ServerInvHolds, PTL DEF ServerInv

\* However many callers send whatever in between, a dispatch that a worker's
\* poll has shown stays the worker's own and PENDING until that worker answers
\* it: confirm_worker_response is the only way out of PENDING.
THEOREM ScreensStayAnswerable == ServerSpec => []ScreenStaysAnswerable
BY ServerInvHolds, PTL DEF ServerInv

\* The status code is true of the two stores when it is sent: a done write is
\* in both, a conflict or a missing record is really there or missing.
THEOREM CodesAreTrue == ServerSpec => []CodesTellTheTruth
BY ServerInvHolds, PTL DEF ServerInv

\* No limit, filter or transport makes list_available_workers answer an empty
\* list while somebody fits.
THEOREM EmptyListMeansNobody == ServerSpec => []EmptyMeansNobody
BY ServerInvHolds, PTL DEF ServerInv

-----------------------------------------------------------------------------
(* Histories                                                               *)

\* The records of an order that are PENDING are its latest one or none, and a
\* history has that one at its end.
LEMMA HistoryEnds ==
    ASSUME ServerInv
    PROVE  HistoryEndsWithTheOpenDispatch
<1> SUFFICES ASSUME last.rpc = "history", last.code \in Done
             PROVE  LET waiting == {i \in DOMAIN shown : store[shown[i]].status = "PENDING"}
                    IN  /\ waiting \subseteq {Len(shown)}
                        /\ (waiting # {}) = HasPending(last.query)
  BY DEF HistoryEndsWithTheOpenDispatch
<1>1. PICK o \in Orders : o = last.query /\ shown = History(o)
  BY DEF ServerInv, HistoryIsShown
<1> DEFINE S == RowsOf(store, o)
           key == [d \in DOMAIN store |-> store[d].attempt]
<1>2. PICK n \in Nat : Attempts(store, o) = 1..n
  BY DEF ServerInv, MInv, Numbered
<1>3. \A d \in S : d \in DOMAIN store /\ key[d] \in 1..n /\ key[d] = store[d].attempt
  BY <1>2 DEF Attempts, RowsOf
<1>4. \A d, e \in S : key[d] = key[e] => d = e
  BY DEF ServerInv, MInv, Numbered, RowsOf
<1>5. \A d \in S : store[d].status = "PENDING" => key[d] = n
  BY <1>2, <1>3, LatestOfNumbered DEF ServerInv, MInv, PendingIsLatest, RowsOf
<1>6. shown = SortedBy(key, S)
  BY <1>1 DEF History
<1>7. HasPending(last.query) = (\E d \in S : store[d].status = "PENDING")
  BY <1>1 DEF HasPending, PendingOf
<1> HIDE DEF S, key
<1>8. IsFiniteSet(S)
  <2> DEFINE f == [d \in S |-> key[d]]
  <2>1. f \in Injection(S, 1..n)
    BY <1>3, <1>4 DEF Injection, IsInjective
  <2>2. IsFiniteSet(1..n)
    BY FS_Interval
  <2> QED
    BY <2>1, <2>2, FS_Injection
<1>9. \A d \in S : key[d] \in Int
  BY <1>3
<1>10. IsSorting(shown, key, S)
  BY <1>6, <1>8, <1>9, Sorting
<1>11. PICK k \in Nat : k = Cardinality(S)
  BY <1>10 DEF IsSorting
<1>12. /\ shown \in [1..k -> S]
       /\ \A i, j \in 1..k : i # j => shown[i] # shown[j]
       /\ \A d \in S : \E i \in 1..k : shown[i] = d
       /\ \A i, j \in 1..k : i < j => key[shown[i]] <= key[shown[j]]
  BY <1>10, <1>11 DEF IsSorting
<1>13. DOMAIN shown = 1..k /\ Len(shown) = k
  BY <1>12
<1>14. ASSUME NEW i \in 1..k, store[shown[i]].status = "PENDING"
       PROVE  i = k
  <2>1. key[shown[i]] = n
    BY <1>5, <1>12, <1>14
  <2>2. k \in 1..k
    OBVIOUS
  <2>3. key[shown[k]] \in 1..n
    BY <1>3, <1>12, <2>2
  <2>4. ~(i < k)
    <3> SUFFICES ASSUME i < k PROVE FALSE
      OBVIOUS
    <3>1. key[shown[i]] <= key[shown[k]]
      BY <1>12, <2>2
    <3>2. key[shown[k]] = n
      BY <2>1, <2>3, <3>1
    <3>3. shown[i] = shown[k]
      BY <1>4, <1>12, <2>1, <2>2, <3>2
    <3> QED
      BY <1>12, <2>2, <3>3
  <2> QED
    BY <2>4
<1> DEFINE waiting == {i \in DOMAIN shown : store[shown[i]].status = "PENDING"}
<1>15. waiting \subseteq {Len(shown)}
  BY <1>13, <1>14
<1>16. (waiting # {}) = (\E d \in S : store[d].status = "PENDING")
  <2>1. (waiting # {}) => \E d \in S : store[d].status = "PENDING"
    BY <1>12, <1>13
  <2>2. (\E d \in S : store[d].status = "PENDING") => waiting # {}
    BY <1>12, <1>13
  <2> QED
    BY <2>1, <2>2
<1> QED
  BY <1>7, <1>15, <1>16

\* A history answered over either transport lists the attempts in order, and
\* tells whether its order can be assigned again.
THEOREM HistoryTellsIfOpen == ServerSpec => []HistoryEndsWithTheOpenDispatch
BY ServerInvHolds, HistoryEnds, PTL

-----------------------------------------------------------------------------
(* Who may write, and how often                                            *)

\* A write that succeeds is answered under its caller's name.
LEMMA AssignerIsNamed ==
    ASSUME NEW via, NEW c, NEW o, NEW w, NEW d, NEW n, NEW code,
           Assigns(via, c, o, w, d, n, code)
    PROVE  /\ last'.via = via /\ last'.rpc = "assign" /\ last'.code \in Done
           /\ last'.caller = c /\ last'.query = AssignRequest(o, w)
<1>1. code \in Done /\ code \notin Refusals /\ "assign" \in Writes
  BY DEF Assigns, Done, Refusals, Writes
<1>2. /\ last'.via = via /\ last'.rpc = "assign" /\ last'.code = code /\ last'.caller = c
      /\ last'.query = AssignRequest(o, w)
  BY <1>1 DEF Assigns, Answer
<1> QED
  BY <1>1, <1>2 DEF AssignRequest, NoRequest

LEMMA ResponderIsNamed ==
    ASSUME NEW via, NEW c, NEW d, NEW response, NEW reason, NEW why, NEW code,
           Responds(via, c, d, response, reason, why, code)
    PROVE  /\ last'.via = via /\ last'.rpc = "respond" /\ last'.code \in Done
           /\ last'.caller = c
           /\ last'.query = ConfirmRequest(d, c.user, response, reason)
<1>1. code \in Done /\ code \notin Refusals /\ "respond" \in Writes
  BY DEF Responds, Done, Refusals, Writes
<1>2. /\ last'.via = via /\ last'.rpc = "respond" /\ last'.code = code /\ last'.caller = c
      /\ last'.query = ConfirmRequest(d, c.user, response, reason)
  BY <1>1 DEF Responds, Answer
<1> QED
  BY <1>1, <1>2 DEF ConfirmRequest

LEMMA StepAuthorised ==
    ASSUME MInv, Effect
    PROVE  \/ UNCHANGED <<store, orders>>
           \/ /\ last'.code \in Done
              /\ Present(last'.caller.user)
              /\ last'.via = "grpc" =>
                    last'.caller.role \in (IF last'.rpc = "assign" THEN Staff ELSE Crew)
              /\ \A d \in DOMAIN store :
                    store'[d] # store[d] => last'.caller.user = store[d].worker
<1>1. \A u \in Users : Present(u)
  BY ServerAssumption DEF Present
<1>2. ASSUME NEW via, NEW c, NEW o, NEW w, NEW d, NEW n, NEW code,
             Assigns(via, c, o, w, d, n, code)
      PROVE  /\ last'.code \in Done /\ Present(last'.caller.user)
             /\ last'.rpc = "assign"
             /\ last'.via = "grpc" => last'.caller.role \in Staff
             /\ \A e \in DOMAIN store : store'[e] = store[e]
  <2>1. \A e \in DOMAIN store : store'[e] = store[e]
    BY <1>2, AssignedStore DEF Assigns
  <2>2. c.user \in Users /\ (via = "grpc" => c.role \in Staff)
    BY <1>2 DEF Assigns, Admitted
  <2> QED
    BY <1>1, <1>2, <2>1, <2>2, AssignerIsNamed
<1>3. ASSUME NEW via, NEW c, NEW d, NEW response, NEW reason, NEW why, NEW code,
             Responds(via, c, d, response, reason, why, code)
      PROVE  /\ last'.code \in Done /\ Present(last'.caller.user)
             /\ last'.rpc = "respond"
             /\ last'.via = "grpc" => last'.caller.role \in Crew
             /\ \A e \in DOMAIN store :
                   store'[e] # store[e] => last'.caller.user = store[e].worker
  <2>1. \A e \in DOMAIN store : e # d => store'[e] = store[e]
    BY <1>3, RespondedStore DEF Responds
  <2>2. c.user \in Users /\ (via = "grpc" => c.role \in Crew) /\ store[d].worker = c.user
    BY <1>3 DEF Responds, Admitted
  <2> QED
    BY <1>1, <1>3, <2>1, <2>2, ResponderIsNamed
<1>4. "respond" # "assign"
  OBVIOUS
<1> QED
  BY <1>2, <1>3, <1>4, EffectOnStores

\* Over both transports and for every caller: the stores change only by a
\* request that succeeded, of an identified caller, over gRPC of a role its RPC
\* admits, and an answer is changed by its own worker only.
THEOREM WritersAreAuthorised == ServerSpec => WritesAreAuthorised
<1>1. ServerInv /\ [ServerNext]_serverVars =>
        [UNCHANGED <<store, orders>> \/
           /\ last'.code \in Done
           /\ Present(last'.caller.user)
           /\ last'.via = "grpc" =>
                 last'.caller.role \in (IF last'.rpc = "assign" THEN Staff ELSE Crew)
           /\ \A d \in DOMAIN store :
                 store'[d] # store[d] => last'.caller.user = store[d].worker]_serverVars
  BY ServerCases, StepAuthorised DEF ServerInv
<1> QED
  BY <1>1, ServerInvHolds, PTL DEF ServerSpec, WritesAreAuthorised

LEMMA StepRetried ==
    ASSUME MInv, AckedIsRecorded, Effect, NEW e \in acked, last'.query = e.query
    PROVE  \/ UNCHANGED <<store, orders>>
           \/ last'.rpc = "assign" /\ store[e.dispatch].status # "PENDING"
<1> DEFINE x == e.dispatch
<1>1. ASSUME NEW via, NEW c, NEW o, NEW w, NEW d, NEW n, NEW code,
             Assigns(via, c, o, w, d, n, code)
      PROVE  last'.rpc = "assign" /\ store[x].status # "PENDING"
  <2>1. last'.rpc = "assign" /\ e.query = AssignRequest(o, w)
    BY <1>1, AssignerIsNamed
  <2>2. e.query.kind = "assign" /\ e.query.order = o
    BY <2>1 DEF AssignRequest, NoRequest
  <2>3. x \in DOMAIN store /\ e.query = AssignRequest(store[x].order, store[x].worker)
    BY <2>2 DEF AckedIsRecorded
  <2>4. store[x].order = o
    BY <2>2, <2>3 DEF AssignRequest, NoRequest
  <2>5. PendingOf(store, o) = {}
    BY <1>1 DEF Assigns, Assigned
  <2> QED
    BY <2>1, <2>3, <2>4, <2>5 DEF PendingOf, RowsOf
<1>2. ASSUME NEW via, NEW c, NEW d, NEW response, NEW reason, NEW why, NEW code,
             Responds(via, c, d, response, reason, why, code)
      PROVE  FALSE
  <2>1. e.query = ConfirmRequest(d, c.user, response, reason)
    BY <1>2, ResponderIsNamed
  <2>2. e.query.kind = "confirm" /\ e.query.dispatch = d
    BY <2>1 DEF ConfirmRequest
  <2>3. \A o, w : AssignRequest(o, w).kind = "assign"
    BY DEF AssignRequest, NoRequest
  <2>4. x = d /\ store[d].status # "PENDING"
    BY <2>2, <2>3 DEF AckedIsRecorded
  <2> QED
    BY <1>2, <2>4 DEF Responds, Responded
<1> QED
  BY <1>1, <1>2, EffectOnStores

\* However late a write is sent again that was answered as done, over the same
\* transport or the other and whatever was sent in between: a response changes
\* neither store, and an assignment none while the dispatch it created is PENDING.
THEOREM RetriesAreHarmless == ServerSpec => RetriedWriteChangesNothing
<1>1. ServerInv /\ [ServerNext]_serverVars =>
        [UNCHANGED <<store, orders>> \/
           \A e \in acked :
              last'.query = e.query =>
                 last'.rpc = "assign" /\ store[e.dispatch].status # "PENDING"]_serverVars
  BY ServerCases, StepRetried DEF ServerInv
<1> QED
  BY <1>1, ServerInvHolds, PTL DEF ServerSpec, RetriedWriteChangesNothing

-----------------------------------------------------------------------------
(* The contract                                                            *)

LEMMA EffectIsContractStep ==
    ASSUME MInv, Effect
    PROVE  [Contract!Next]_<<[o \in Orders |-> ListByOrder(o)], orders>>
<1>1. MInv'
  BY EffectKeepsMInv
<1>2. ASSUME NEW via, NEW c, NEW o, NEW w, NEW d, NEW n, NEW code,
             Assigns(via, c, o, w, d, n, code)
      PROVE  Contract!Next
  BY <1>1, <1>2, AssignedIsContractStep DEF Assigns
<1>3. ASSUME NEW via, NEW c, NEW d, NEW response, NEW reason, NEW why, NEW code,
             Responds(via, c, d, response, reason, why, code)
      PROVE  Contract!Next
  BY <1>1, <1>3, RespondedIsContractStep DEF Responds
<1>4. CASE UNCHANGED <<store, orders>>
  BY <1>4 DEF ListByOrder
<1> QED
  BY <1>2, <1>3, <1>4, EffectOnStores

\* Whatever reaches either transport, from whomever: a request takes effect as
\* one step of the contract, all or nothing, or has none.
THEOREM ServerImplementsContract == ServerSpec => ImplementsContract
<1>1. ServerInit => Contract!Init
  BY InitIsContractInit DEF ServerInit
<1>2. ServerInv /\ [ServerNext]_serverVars
        => [Contract!Next]_<<[o \in Orders |-> ListByOrder(o)], orders>>
  BY ServerCases, EffectIsContractStep DEF ServerInv
<1> QED
  BY <1>1, <1>2, ServerInvHolds, PTL DEF ServerSpec, ImplementsContract, Contract!Spec
=============================================================================
