------------------------------- MODULE AiRunMC -------------------------------
(***************************************************************************)
(* Small instances of AiRun.  The configurations differ in how many runs   *)
(* and drain loops there are and in which runs carry a deadline.           *)
(***************************************************************************)
EXTENDS AiRun, TLC

\* Drain loops are interchangeable in the safety runs.
WorkerSymmetry == Permutations(Workers)
=============================================================================
