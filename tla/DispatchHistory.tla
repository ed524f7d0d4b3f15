-------------------------- MODULE DispatchHistory --------------------------
(***************************************************************************)
(* What the dispatch records promise whoever reads an order's history,     *)
(* however requests overlap and whatever fails: the history of an order is *)
(* an append-only sequence, attempt n at place n; an entry keeps its       *)
(* worker for ever; only its status may be restated.                       *)
(***************************************************************************)
EXTENDS Sequences

CONSTANTS Orders, Workers, Statuses

VARIABLE history

Init == history = [o \in Orders |-> <<>>]

Assign(o, w) ==
    history' = [history EXCEPT
                  ![o] = Append(@, [worker |-> w, status |-> "PENDING"])]

Restate(o, i, s) ==
    /\ s # history[o][i].status
    /\ history' = [history EXCEPT ![o][i].status = s]

Next ==
    \E o \in Orders :
        \/ \E w \in Workers : Assign(o, w)
        \/ \E i \in DOMAIN history[o], s \in Statuses : Restate(o, i, s)

Spec == Init /\ [][Next]_history
=============================================================================
