---------------------------- MODULE MCAsioClient ----------------------------
(* The client with a few typed lines and a few answers of the server. *)
EXTENDS AsioClient
=============================================================================
