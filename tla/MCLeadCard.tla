------------------------------ MODULE MCLeadCard ------------------------------
(* A week of two days, seen for two weeks, with one message and one lead      *)
(* logged by hand.                                                            *)
EXTENDS Leads

Found == {[moves |-> {}, resolved |-> FALSE, score |-> "none"]}
===============================================================================
