---------------------------- MODULE MCMonitoring ----------------------------
(* Small instances of Monitoring for TLC.                                  *)
EXTENDS Monitoring, TLC

CONSTANTS w1, w2, wx, rz, lz

\* A POST with a probe of either kind, two POSTs that both may time out, and a POST that
\* names an unknown response format.
MCLoads == {{w1, rz}, {w2, rz}, {w1, w2}, {wx}, {lz}}

Symmetry == Permutations({w1, w2})
=============================================================================
