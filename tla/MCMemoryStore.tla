--------------------------- MODULE MCMemoryStore ---------------------------
(***************************************************************************)
(* Small instances of MemoryStore.  Key k1 is short; k2 is as long as a    *)
(* raised NODE_MAX_KEY_BYTES allows, so that a write to it with a large    *)
(* payload makes an oversized event while an empty write to it does not.   *)
(***************************************************************************)
EXTENDS MemoryStore

CONSTANTS k1, k2

MCKeyBytes == [k \in Keys |-> IF k = k1 THEN 10 ELSE 2600]
=============================================================================
