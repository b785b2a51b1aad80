---------------------------- MODULE MCDiscovery -----------------------------
(***************************************************************************)
(* Small instances of Discovery: three releases, of which the second has a *)
(* new manifest under a new root and the third a new online key.           *)
(***************************************************************************)
EXTENDS Discovery

MCTargets == <<1, 2, 2>>
MCRootOf == <<1, 2, 3>>
MCOnline == <<1, 1, 2>>
MCDeadline == <<1, 2, 9>>
=============================================================================
