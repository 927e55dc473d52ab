---------------------------- MODULE MCRateLimiter ----------------------------
(***************************************************************************)
(* RateLimiter for TLC.  Window = 7 and Rate = 3 make PerToken = 2 round   *)
(* down; Horizon lets cleanup drop an entry and a window follow.           *)
(***************************************************************************)
EXTENDS RateLimiter
=============================================================================
