--------------------------- MODULE MCOmegaPublish ---------------------------
(* OmegaPublish on a small instance: two releases of one manifest, which the *)
(* time of signing tells apart, a rotation of any role, two keys, one crash. *)
EXTENDS OmegaPublish
=============================================================================
