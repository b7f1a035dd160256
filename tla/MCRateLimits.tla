---------------------------- MODULE MCRateLimits ----------------------------
(* Finite instances of RateLimits for TLC.  The configurations keep the    *)
(* order of the code's spans, Gap < Minute < Dedup < Hour and Gap < Keep,  *)
(* where the checks of these spans are looked at.                          *)
EXTENDS RateLimits, TLC

CONSTANTS i1, f1, d1

MCIps      == {i1}
MCForms    == {f1}
MCContents == {d1}
=============================================================================
