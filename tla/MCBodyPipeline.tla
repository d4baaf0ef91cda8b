--------------------------- MODULE MCBodyPipeline ---------------------------
(***************************************************************************)
(* Two requests on one connection.  The responses are the framings and     *)
(* their contradictions: no body, with a 1xx before it and the connection  *)
(* to be closed, and with more heads than the budget; chunked with a       *)
(* trailer, with trailers over the limit, with a chunk over the limit; a   *)
(* length sent twice, an empty one, one over the limit, two that disagree; *)
(* a length and chunked, gzip as a transfer coding, and until the          *)
(* connection closes, once past the limit.                                 *)
(***************************************************************************)
EXTENDS BodyPipeline

Plain == [infos |-> 0, size |-> 1, bodiless |-> FALSE, te |-> <<>>, cl |-> <<>>,
          close |-> FALSE, chunks |-> <<2>>, trailers |-> 0]

MCResponses ==
  { [Plain EXCEPT !.bodiless = TRUE, !.infos = 1, !.close = TRUE],
    [Plain EXCEPT !.bodiless = TRUE, !.infos = 2],
    [Plain EXCEPT !.te = <<"identity", "chunked">>, !.chunks = <<1, 1>>, !.trailers = 1],
    [Plain EXCEPT !.te = <<"chunked">>, !.chunks = <<2, 1>>, !.trailers = 2],
    [Plain EXCEPT !.te = <<"chunked">>, !.chunks = <<1, 3>>],
    [Plain EXCEPT !.cl = <<2, 2>>],
    [Plain EXCEPT !.cl = <<0>>, !.chunks = <<>>],
    [Plain EXCEPT !.cl = <<5>>, !.chunks = <<5>>],
    [Plain EXCEPT !.cl = <<2, 1>>],
    [Plain EXCEPT !.te = <<"chunked">>, !.cl = <<2>>],
    [Plain EXCEPT !.te = <<"gzip", "chunked">>],
    [Plain EXCEPT !.te = <<"identity">>],
    [Plain EXCEPT !.chunks = <<3, 2>>] }
=============================================================================
