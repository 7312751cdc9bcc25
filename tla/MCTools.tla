------------------------------- MODULE MCTools -------------------------------
(* The command line tools on small instances. An experiment across engines   *)
(* and a benchmark share nothing: a behaviour runs the one or the other.     *)
EXTENDS Experiments, Measurement, TLC

CONSTANTS e1, e2, d1, d2, f1, f2, f3

VARIABLE tool  \* the tool that a behaviour runs

Init ==
    /\ ExperimentsInit /\ MeasurementInit
    /\ \/ tool = "experiment" /\ \A f \in Files : files[f] = {}
       \/ tool = "bench" /\ kind = "comparison"

Next ==
    /\ UNCHANGED tool
    /\ \/ tool = "experiment" /\ ExperimentsNext /\ UNCHANGED measurementVars
       \/ tool = "bench" /\ MeasurementNext /\ UNCHANGED experimentVars

Spec == Init /\ [][Next]_<<experimentVars, measurementVars, tool>>

ToolsTypeOK == ExperimentsTypeOK /\ MeasurementTypeOK

Symmetry ==
    Permutations({e1, e2}) \cup Permutations({d1, d2}) \cup Permutations({f1, f2, f3})
=============================================================================
