----------------------------- MODULE MCBackend ------------------------------
(* Small instances of Backend for TLC.  py has a ReadySignal, as pkilint    *)
(* has; rb has none, as certlint and badkeys.                              *)
EXTENDS Backend

CONSTANTS py, rb, q1, q2, q3

\* One instance under three requests in a row, and two instances that compete
\* for the mutex and for one request.
MCLoads == {[instances |-> {py}, requests |-> {q1, q2, q3}],
            [instances |-> {py, rb}, requests |-> {q1}]}

Pair == {[instances |-> {py, rb}, requests |-> {q1}]}
=============================================================================
