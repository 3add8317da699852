----------------------------- MODULE MCWaveCache -----------------------------
(* WaveCache and its refinement for TLC: the workers are interchangeable. *)
EXTENDS WaveCacheLedger, TLC

WorkerSymmetry == Permutations(Worker)
=============================================================================
