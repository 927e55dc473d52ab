------------------------------ MODULE MCLiveCV ------------------------------
(***************************************************************************)
(* LiveCV for TLC.  Two artifacts are the least with which one can be      *)
(* anchored and the other not; two requests the least that race.  No       *)
(* symmetry, since liveness is checked.                                    *)
(***************************************************************************)
EXTENDS LiveCV
=============================================================================
