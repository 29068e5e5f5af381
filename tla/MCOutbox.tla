------------------------------ MODULE MCOutbox ------------------------------
(* Two processes, two events: one with two listeners, one whose payload cannot be parsed. *)
EXTENDS Outbox

CONSTANTS e1, e2, l1, l2

MCEvent == {e1, e2}
MCListener == {l1, l2}
MCListenersOf == [e \in MCEvent |-> IF e = e1 THEN {l1, l2} ELSE {l1}]
MCMalformed == {e2}
=============================================================================
