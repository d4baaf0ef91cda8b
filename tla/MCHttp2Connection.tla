------------------------- MODULE MCHttp2Connection -------------------------
(***************************************************************************)
(* Small instances of Http2Connection.  The environments a run considers   *)
(* are the Scenarios of its cfg; the windows are a few bytes so that they  *)
(* close, and no smaller than a window of which half is more than one.     *)
(***************************************************************************)
EXTENDS Http2Connection
=============================================================================
