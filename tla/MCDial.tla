------------------------------- MODULE MCDial -------------------------------
(***************************************************************************)
(* Every way of dialling, with and without credentials, in clear and over  *)
(* TLS; three bytes in the tunnel, any number of which may arrive with the *)
(* proxy's last reply.                                                     *)
(***************************************************************************)
EXTENDS Dial

MCModes == [proxy : {"direct", "http", "socks5"}, user : BOOLEAN,
            secure : BOOLEAN, total : BOOLEAN]
=============================================================================
