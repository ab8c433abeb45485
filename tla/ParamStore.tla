----------------------------- MODULE ParamStore -----------------------------
(* What flash_param.c promises: for every registered parameter a history of *)
(* saved values, oldest first.  A save takes effect entirely or not at all, *)
(* touches no other parameter, and never costs one of the latest Keep[p]    *)
(* values; older ones may go at any time, at a power failure too.           *)
EXTENDS FiniteSets, Integers, Sequences

CONSTANTS
    Params,     \* the registered parameters
    Values,     \* what may be saved
    Keep        \* how many values of each parameter are kept for sure (a positive number)

VARIABLE log

(* The elements of l at the positions in idx, in their order. *)
Picked(l, idx) ==
    [k \in 1..Cardinality(idx) |->
        l[CHOOSE i \in idx : Cardinality({j \in idx : j < i}) = k - 1]]

(* l with some of its elements gone, but none of the last n. *)
Thinned(l, n) ==
    {Picked(l, idx) : idx \in {i \in SUBSET DOMAIN l :
                                 \A j \in DOMAIN l : j > Len(l) - n => j \in i}}

Init == log = [p \in Params |-> <<>>]

Becomes(p, history) ==
    /\ DOMAIN log' = Params
    /\ LET l == log'[p] IN l \in Thinned(history, Keep[p])
    /\ \A q \in Params \ {p} : log'[q] = log[q]

Save(p, v) == LET l == log[p] IN Becomes(p, Append(l, v))
Lapse(p)   == LET l == log[p] IN Becomes(p, l)

Next == \E p \in Params : Lapse(p) \/ \E v \in Values : Save(p, v)

Spec == Init /\ [][Next]_log
=============================================================================
