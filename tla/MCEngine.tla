------------------------------ MODULE MCEngine ------------------------------
(***************************************************************************)
(* The in-process engine with two chunks, two buffers and two requests: a  *)
(* dual store whose full chunks are on their way to the remote server      *)
(* while the requests are read.                                            *)
(***************************************************************************)
EXTENDS Engine

MCEngineSetups ==
    {[codec |-> "fake", dual |-> TRUE, cleanup |-> FALSE, store_wait |-> FALSE,
      configs |-> {"auto", "full"}, reqs |-> 2, chunks |-> 2, faults |-> {}]}

=============================================================================
