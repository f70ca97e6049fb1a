----------------------------- MODULE MCHttpServer -----------------------------
(* Two sessions on two threads, two histogram buckets, bodies at and above  *)
(* the limit.                                                                  *)
EXTENDS HttpServer

CONSTANTS s1, s2

MCSessions == {s1, s2}
=============================================================================
