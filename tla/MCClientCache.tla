--------------------------- MODULE MCClientCache ---------------------------
(***************************************************************************)
(* A chain of two links, closed as a chain or one link at a time.          *)
(***************************************************************************)
EXTENDS ClientCache

CONSTANTS b1, b2

MCClosings == {<<b1, b2>>, <<b2>>}
=============================================================================
