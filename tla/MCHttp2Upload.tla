--------------------------- MODULE MCHttp2Upload ---------------------------
(***************************************************************************)
(* Two uploads of a few bytes over windows of one to three bytes.          *)
(***************************************************************************)
EXTENDS Http2Upload
=============================================================================
