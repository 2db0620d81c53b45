---------------------------- MODULE MCInputSteal ----------------------------
(* InputSteal for TLC: the nodes, inputs and transfer ids of the configurations
   are model values.  No symmetry: the runs check liveness. *)
EXTENDS InputSteal, TLC
=============================================================================
