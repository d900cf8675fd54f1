---------------------------- MODULE MCMapReduce -----------------------------
(* The instance of MapReduce for TLC: two workers, in MapReduce.cfg.       *)
EXTENDS MapReduce

=============================================================================
