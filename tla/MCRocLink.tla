------------------------------ MODULE MCRocLink ------------------------------
EXTENDS RocLink, TLC

CONSTANTS p1, p2, a1, a2

MCProbes == {p1, p2}
MCAddresses == {a1, a2}
MCIoids == 0..2
MCLevels == {0, 1}

\* An input and an output on pins of their own; or both on one pin, which is an error.
Config(i, j) == (p1 :> [ioid |-> i, out |-> FALSE, value |-> Undefined]) @@
                (p2 :> [ioid |-> j, out |-> TRUE, value |-> 0])
MCConfigs == {Config(0, 1), Config(1, 1)}

\* Two test cases and one disturbance, one test case and two of them, or one of
\* each and a late answer.
MCBudgets == {[cases |-> 2, steps |-> 1, late |-> 0], [cases |-> 1, steps |-> 2, late |-> 0],
              [cases |-> 1, steps |-> 1, late |-> 1]}
=============================================================================
