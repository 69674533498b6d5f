------------------------- MODULE MCServerLifecycle -------------------------
(***************************************************************************)
(* A small instance of ServerLifecycle: two requests, so that one may be   *)
(* under way in another thread while the first is interrupted.             *)
(***************************************************************************)
EXTENDS ServerLifecycle, TLC

CONSTANTS r1, r2
=============================================================================
