------------------------------ MODULE MCServing ------------------------------
(***************************************************************************)
(* Serving for TLC: the configurations tried.                              *)
(***************************************************************************)
EXTENDS Serving

(* Everything there is, and nothing but the process.                       *)
TwoConfigs == {[storage |-> "postgres", cache |-> "redis"],
               [storage |-> "memory",   cache |-> "none"]}
(* What shutting down and answering may have to wait for, and no more.     *)
Uncached == {[storage |-> "postgres", cache |-> "none"]}
=============================================================================
