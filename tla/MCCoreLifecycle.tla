--------------------------- MODULE MCCoreLifecycle ---------------------------
(***************************************************************************)
(* Two boots in one process, two IO threads.                               *)
(***************************************************************************)
EXTENDS CoreLifecycle
=============================================================================
