---------------------------- MODULE MCLifecycle -----------------------------
(* Small instances of Lifecycle for TLC.                                   *)
EXTENDS Lifecycle

CONSTANTS i1, i2, r1, r2, r3, r4

Load(name, instances, requests) ==
    [linter |-> name, instances |-> instances, requests |-> requests]

MCLoads == {Load("ftfy", {i1}, {r1, r2}),
            Load("pwnedkeys", {i1, i2}, {r2, r3, r4}),
            Load("dwklint", {i1}, {r1, r2})}

FtfyAlone == {Load("ftfy", {i1}, {r1, r2})}

\* A time, a time so long that its Duration is negative, a date, and no time.
MCHeaders == {[kind |-> "seconds", value |-> 1], [kind |-> "seconds", value |-> 4],
              [kind |-> "date", value |-> 2], [kind |-> "invalid", value |-> 0]}
=============================================================================
