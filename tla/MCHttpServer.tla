---------------------------- MODULE MCHttpServer -----------------------------
(* HttpServer for TLC: one tab, which comes and goes.                      *)
EXTENDS HttpServer

CONSTANT c1

MCConns == {c1}
=============================================================================
