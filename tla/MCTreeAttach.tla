---------------------------- MODULE MCTreeAttach ----------------------------
(***************************************************************************)
(* Small instances of TreeAttach: one substrate has a single slot, so that *)
(* a child it still counts under an old connection is turned away; the     *)
(* other takes a child again under a second connection.                    *)
(***************************************************************************)
EXTENDS TreeAttach

MCMaxChildren == [s \in Substrates |-> IF s = "s1" THEN 1 ELSE 2]
=============================================================================
