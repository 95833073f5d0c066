----------------------------- MODULE Violations -----------------------------
(* How the evaluators of the PaaS intent and of blueprints report: the set *)
(* of the codes of the violations they found.                              *)

Report(code, condition) == IF condition THEN {code} ELSE {}
=============================================================================
