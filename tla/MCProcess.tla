------------------------------- MODULE MCProcess -------------------------------
(* A small instance of Process for TLC.                                    *)
EXTENDS Process

\* Two claims in the namespace the process keeps to, and one outside it.
ThreeKeys    == {[ns |-> "a", name |-> "b"], [ns |-> "a", name |-> "c"],
                 [ns |-> "x", name |-> "c"]}
TwoWorkers   == 1 .. 2
\* Unset, two, and "two".
SomeSettings == {[set |-> FALSE, number |-> FALSE, value |-> 0],
                 [set |-> TRUE, number |-> TRUE, value |-> 2],
                 [set |-> TRUE, number |-> FALSE, value |-> 0]}
\* A provisioner name that is a label value as it stands, and a label that is not.
SomeNames    == {"valid"}
SomeLabels   == {{"slashed"}}
Bounds       == [change |-> 1, fail |-> 1, life |-> 1]
===============================================================================
