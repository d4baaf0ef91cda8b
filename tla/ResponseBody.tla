---------------------------- MODULE ResponseBody ----------------------------
(***************************************************************************)
(* What a response body promises its reader, whatever carries it: the      *)
(* bytes handed out are a prefix of the bytes the server put in this body, *)
(* and the body is reported finished only when the server ended it and     *)
(* every byte has been handed out.  Otherwise it fails, or the reader      *)
(* walks away.  The BodyStream contracts of src/http1/response.js and      *)
(* src/http2/connection.js promise this; the detailed modules implement it.*)
(***************************************************************************)
EXTENDS Naturals

VARIABLES sent,       \* bytes the server has put in the body
          ended,      \* the server has declared the body complete
          delivered,  \* bytes the reader has been given
          outcome     \* "reading", "done", "error" or "cancelled"

bodyVars == <<sent, ended, delivered, outcome>>

Init == sent = 0 /\ ended = FALSE /\ delivered = 0 /\ outcome = "reading"

\* The server adds bytes, ends the body, or both at once.
Produce ==
  /\ ~ended
  /\ sent' \in Nat /\ sent' >= sent
  /\ ended' \in BOOLEAN
  /\ UNCHANGED <<delivered, outcome>>

Deliver ==
  /\ outcome = "reading"
  /\ delivered' \in delivered..sent
  /\ UNCHANGED <<sent, ended, outcome>>

Finish ==
  /\ outcome = "reading" /\ ended /\ delivered = sent
  /\ outcome' = "done"
  /\ UNCHANGED <<sent, ended, delivered>>

Abandon ==
  /\ outcome = "reading"
  /\ outcome' \in {"error", "cancelled"}
  /\ UNCHANGED <<sent, ended, delivered>>

Next == Produce \/ Deliver \/ Finish \/ Abandon

Spec == Init /\ [][Next]_bodyVars
=============================================================================
