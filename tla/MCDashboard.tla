---------------------------- MODULE MCDashboard -----------------------------
(* Dashboard with two signed lists, of one root each, and a third address as *)
(* the operator's seed.                                                      *)
EXTENDS Dashboard

MCListRoots == <<{"a1"}, {"a2"}>>
=============================================================================
