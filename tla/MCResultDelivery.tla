--------------------------- MODULE MCResultDelivery ---------------------------
(* ResultDelivery for TLC: nodes and inputs are model values.  One node has both
   inputs, or each has one; the other splits only swap names.  No symmetry: the
   runs check liveness. *)
EXTENDS ResultDelivery, TLC
CONSTANTS n1, n2, i1, i2

TwoNodes == {n1, n2}
TwoInputs == {i1, i2}
SplitsFromFirst == {f \in [TwoInputs -> TwoNodes] : f[i1] = n1}
=============================================================================
