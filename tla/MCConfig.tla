------------------------------ MODULE MCConfig ------------------------------
(***************************************************************************)
(* Config for TLC: files and command lines of up to two entries, with      *)
(* values at the limits of the ranges.                                     *)
(***************************************************************************)
EXTENDS Config, SequencesExt

Numeric == [key : {"port"}, val : {1, 65535, 65536}] \cup [key : {"num_workers"}, val : {0, 1000}]
           \cup [key : {"log_level"}, val : {2, 3}]
Logs == [key : {"log_file"}, val : {"srv.log", "/nowhere", "no memory"}]
MCFiles == BoundedSeq(Numeric \cup Logs \cup {[key |-> "other"]}, 2)
MCCmdLines == BoundedSeq(Numeric \cup Logs \cup {[key |-> "help"], [key |-> "unknown"]}, 2)
=============================================================================
