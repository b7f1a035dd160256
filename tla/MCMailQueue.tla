---------------------------- MODULE MCMailQueue ----------------------------
(* Finite instances of MailQueue for TLC.                                  *)
EXTENDS MailQueueRefinement, TLC

CONSTANTS w1, w2

MCWorkers == {w1, w2}

(* The workers are interchangeable goroutines.                             *)
MCSymmetry == Permutations(MCWorkers)
=============================================================================
