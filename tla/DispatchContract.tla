-------------------------- MODULE DispatchContract --------------------------
(***************************************************************************)
(* What the dispatch service promises when each request runs by itself:    *)
(* an order waits for one worker at a time, every request is all or        *)
(* nothing, and the order service is told in the same breath.              *)
(***************************************************************************)
EXTENDS DispatchData, Sequences

VARIABLES
    history,    \* the attempts of each order, oldest first
    service     \* what the order service says of each order

Init ==
    /\ history = [o \in Orders |-> <<>>]
    /\ service = [o \in Orders |-> NewOrder]

Waiting(o) == \E i \in DOMAIN history[o] : history[o][i].status = "PENDING"

Assign(o, w) ==
    /\ ~Waiting(o)
    /\ history' = [history EXCEPT
                     ![o] = Append(@, [worker |-> w, status |-> "PENDING"])]
    /\ service' = [service EXCEPT ![o] = Dispatched(w)]

Answer(o, i, response) ==
    /\ history[o][i].status = "PENDING"
    /\ history' = [history EXCEPT ![o][i].status = Verdict(response)]
    /\ service' = [service EXCEPT
                     ![o] = IF response = "ACCEPT"
                            THEN Confirmed(history[o][i].worker) ELSE Unassigned]

Next ==
    \E o \in Orders :
        \/ \E w \in Workers : Assign(o, w)
        \/ \E i \in DOMAIN history[o], response \in Responses : Answer(o, i, response)

Spec == Init /\ [][Next]_<<history, service>>
=============================================================================
