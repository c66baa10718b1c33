--------------------------- MODULE MCSurroundings ---------------------------
(***************************************************************************)
(* Small instances of the components around the kernel: two callers of     *)
(* everything that is shared, one document, two to-dos, two windows and    *)
(* two process IDs.                                                        *)
(***************************************************************************)
EXTENDS Surroundings

MCPattern == {{1}, {1, 3}}
=============================================================================
