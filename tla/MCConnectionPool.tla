-------------------------- MODULE MCConnectionPool --------------------------
(***************************************************************************)
(* Four threads on a pool of two connections, two calls each.              *)
(***************************************************************************)
EXTENDS ConnectionPool
=============================================================================
