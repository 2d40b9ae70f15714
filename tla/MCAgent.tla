------------------------------- MODULE MCAgent -------------------------------
(* Two sections: the first is always reviewed and requires the name; the    *)
(* second depends on it, requires an amount, and has a table computed from  *)
(* the amount and from a budget that may never be asked for.                *)
EXTENDS Agent

CONSTANTS nom, montant, budget, marge

MCNeeds    == [t \in {marge} |-> {{montant}}]
MCOptional == [t \in {marge} |-> {budget}]
MCRequired == [s \in 1..2 |-> IF s = 1 THEN {nom} ELSE {montant}]
MCCalculs  == [s \in 1..2 |-> IF s = 1 THEN {} ELSE {marge}]
MCClosure  == [s \in 1..2 |-> s..2]
=============================================================================
