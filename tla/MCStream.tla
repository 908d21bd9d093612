----------------------------- MODULE MCStream -----------------------------
(* Two connections for one page, so that an old one can still be open. *)
EXTENDS Stream
MCConns == {"c1", "c2"}
=============================================================================
