----------------------------- MODULE MCDispatch -----------------------------
(* Small instances of Dispatch for TLC.                                    *)
EXTENDS Dispatch, TLC

CONSTANTS r1, r2, a1, b1

\* Linter 1 is in-process and linter 3 external; linter 2 has no instance.
MCLinterOf == [i \in Instances |-> IF i = b1 THEN 3 ELSE 1]

\* Every profile is supported by every linter.
MCApplicable == [r \in Requests |-> Linters]

\* Linter 1 is in-process, linter 2 external.
MCLinterOf2 == [i \in Instances |-> IF i = b1 THEN 2 ELSE 1]

\* One linter, which is external.
MCLinterOf1 == [i \in Instances |-> 1]

Symmetry == Permutations(Requests)
=============================================================================
