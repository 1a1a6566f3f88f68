--------------------------- MODULE MCLogGenerator ---------------------------
(* Small instances of LogGenerator; servers, lines and NoUrl are model values. *)
EXTENDS LogGenerator
=============================================================================
