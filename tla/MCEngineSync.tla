---------------------------- MODULE MCEngineSync ----------------------------
(* Instances of EngineSync: the threads of one kind are interchangeable. *)
EXTENDS EngineSync, TLC

ThreadSymmetry == Permutations(Writers) \cup Permutations(Stoppers)
=============================================================================
