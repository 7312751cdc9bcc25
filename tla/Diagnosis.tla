------------------------------- MODULE Diagnosis -------------------------------
(***************************************************************************)
(* From two plans to a bound hypothesis, with the commands of cmd/sentinel *)
(* that only read and write files: `explain-compare` reports the plans of  *)
(* baseline and candidate, `diagnose-plan` derives hypotheses from that    *)
(* report, and `bind-evidence` lets them inherit the verdict of a          *)
(* measurement that `bench` and `admit-series` left.                       *)
(*                                                                         *)
(* EXPLAIN FORMAT=JSON is nested objects and arrays.  plancompare walks an *)
(* object in Go's map order, which is random: a plan is a set of branches, *)
(* each a sequence of table entries, and a walk takes them in any order.   *)
(* The hash of a report is its content.                                    *)
(***************************************************************************)
EXTENDS Integers, Sequences, FiniteSets, SequencesExt

CONSTANTS
    PlanPairs,    \* the plans of baseline and candidate
    Snapshots,    \* digests of the shadow's data
    Indexes,      \* names of candidate indexes
    MaxCommands   \* bound

Unknown == -1     \* a plan node without rows_examined_per_scan

\* The plan of a query: entries have a table, a key and an estimate.
IsPlan(plan) ==
    /\ IsFiniteSet(plan.branches) /\ plan.filesort \in BOOLEAN
    /\ \A b \in plan.branches :
          b \in Seq(Range(b)) /\ \A n \in DOMAIN b : b[n].rows \in Nat \cup {Unknown}

ASSUME DiagnosisAssumption ==
    /\ MaxCommands \in Nat
    /\ \A pair \in PlanPairs : IsPlan(pair.baseline) /\ IsPlan(pair.candidate)

VARIABLES
    shadow,       \* the data and the candidate index of the shadow
    comparison, diagnosis, measurement, series, \* reports: {} or one
    binding,      \* what `bind-evidence` has read, and its report
    commands

diagnosisVars == <<shadow, comparison, diagnosis, measurement, series, binding, commands>>

-----------------------------------------------------------------------------
(* internal/plancompare *)

\* The orders in which `walk` may meet the entries of a plan.
Walks(plan) == {FlattenSeq(order) : order \in SetToSeqs(plan.branches)}

UniqueKeys(tables) == {tables[n].key : n \in DOMAIN tables} \ {""}

\* BuildReport; b and c are the walks.
BuildReport(pair, b, c) ==
    [snapshot |-> shadow.snapshot, index |-> shadow.index, plans |-> pair,
     baseline |-> b, candidate |-> c,
     difference |-> [baselineFilesort |-> pair.baseline.filesort,
                     candidateFilesort |-> pair.candidate.filesort,
                     candidateOnlyKeys |-> UniqueKeys(c) \ UniqueKeys(b)]]

-----------------------------------------------------------------------------
(* internal/diagnosis *)

Total(tables) ==
    LET sum[n \in 0..Len(tables)] == IF n = 0 THEN 0 ELSE sum[n - 1] + tables[n].rows
    IN  sum[Len(tables)]

\* Mutant: plans of different tables are compared.
Comparable_AnyTables(b, c) ==
    /\ b # <<>> /\ Len(b) = Len(c)
    /\ \A n \in DOMAIN b : b[n].rows # Unknown /\ c[n].rows # Unknown

\* Only the same tables in the same order, with all their estimates.
Comparable(b, c) ==
    /\ b # <<>> /\ Len(b) = Len(c)
    /\ \A n \in DOMAIN b :
          b[n].table = c[n].table /\ b[n].rows # Unknown /\ c[n].rows # Unknown

Derive(report) ==
    LET d == report.difference
        Holds(code) ==
            CASE code = "removes_filesort" -> d.baselineFilesort /\ ~d.candidateFilesort
              [] code = "changes_access_path" -> d.candidateOnlyKeys # {}
              [] code = "reduces_estimated_scan" ->
                    /\ Comparable(report.baseline, report.candidate)
                    /\ Total(report.candidate) < Total(report.baseline)
    IN  {code \in {"removes_filesort", "changes_access_path", "reduces_estimated_scan"} :
            Holds(code)}

Analyze(report) ==
    [source |-> report, snapshot |-> report.snapshot, hypotheses |-> Derive(report)]

-----------------------------------------------------------------------------
(* internal/series *)

\* The admission of a measurement with calibrations of its series, which are
\* quiet or not.  Written down is the file only; of is the measurement that was
\* judged.
Evaluate(m, quiet) ==
    [file |-> m.file, level |-> IF m.eligible /\ quiet THEN "L2" ELSE "L1", of |-> m]

-----------------------------------------------------------------------------
(* internal/evidencebind *)

\* Mutant: the hash of the comparison is not looked at.
IdentityComplete_NoHash(d, c, m, s) ==
    /\ d.snapshot = c.snapshot
    /\ m.snapshot = c.snapshot
    /\ m.index = c.index
    /\ m.file = s.file

\* The versions of MySQL and the SQL text are compared in the same way as the
\* snapshot; of the measurement's path and the series' only the base names.
IdentityComplete(d, c, m, s) ==
    /\ d.source = c
    /\ d.snapshot = c.snapshot
    /\ m.snapshot = c.snapshot
    /\ m.index = c.index
    /\ m.file = s.file

Bind(d, c, m, s) ==
    LET complete == IdentityComplete(d, c, m, s)
    IN  [complete |-> complete, bound |-> complete /\ s.level = "L2"]

-----------------------------------------------------------------------------

NoBinding == [read |-> <<>>, at |-> "idle", report |-> [complete |-> FALSE, bound |-> FALSE]]

Reports == {comparison, diagnosis, measurement, series}

DiagnosisTypeOK ==
    /\ shadow \in [snapshot: Snapshots, index: Indexes]
    /\ \A file \in Reports : Cardinality(file) <= 1
    /\ \A c \in comparison : c.plans \in PlanPairs
    /\ Len(binding.read) <= 4 /\ binding.at \in {"idle", "reading", "done"}
    /\ commands \in 0..MaxCommands

DiagnosisInit ==
    /\ shadow \in [snapshot: Snapshots, index: Indexes]
    /\ comparison = {} /\ diagnosis = {} /\ measurement = {} /\ series = {}
    /\ binding = NoBinding
    /\ commands = 0

Command == commands < MaxCommands /\ commands' = commands + 1

\* Other data is seeded, or another candidate index is made.
ShadowChanges ==
    /\ Command
    /\ shadow' \in [snapshot: Snapshots, index: Indexes]
    /\ UNCHANGED <<comparison, diagnosis, measurement, series, binding>>

\* explain-compare: the gate, both plans and the report.
ExplainCompare(pair) ==
    /\ Command
    /\ \E b \in Walks(pair.baseline), c \in Walks(pair.candidate) :
          comparison' = {BuildReport(pair, b, c)}
    /\ UNCHANGED <<shadow, diagnosis, measurement, series, binding>>

\* diagnose-plan
DiagnosePlan ==
    /\ Command
    /\ \E c \in comparison : diagnosis' = {Analyze(c)}
    /\ UNCHANGED <<shadow, comparison, measurement, series, binding>>

\* `bench` writes to one of two paths; a report of it may be better or not.
Bench ==
    /\ Command
    /\ \E file \in {"one", "two"}, eligible \in BOOLEAN :
          measurement' = {[snapshot |-> shadow.snapshot, index |-> shadow.index,
                           file |-> file, eligible |-> eligible]}
    /\ UNCHANGED <<shadow, comparison, diagnosis, series, binding>>

\* admit-series
AdmitSeries ==
    /\ Command
    /\ \E m \in measurement, quiet \in BOOLEAN : series' = {Evaluate(m, quiet)}
    /\ UNCHANGED <<shadow, comparison, diagnosis, measurement, binding>>

\* os.Create empties a report; the command may fail before it writes.
Truncate ==
    /\ Command
    /\ \/ comparison' = {} /\ UNCHANGED <<diagnosis, measurement, series>>
       \/ diagnosis' = {} /\ UNCHANGED <<comparison, measurement, series>>
       \/ measurement' = {} /\ UNCHANGED <<comparison, diagnosis, series>>
       \/ series' = {} /\ UNCHANGED <<comparison, diagnosis, measurement>>
    /\ UNCHANGED <<shadow, binding>>

\* bind-evidence reads the four files one after the other; an empty one is an
\* error.
ReadEvidence ==
    LET n == Len(binding.read) + 1
    IN  /\ binding.at # "done" /\ n <= 4
        /\ \E r \in <<diagnosis, comparison, measurement, series>>[n] :
              binding' = [binding EXCEPT !.at = "reading", !.read = Append(@, r)]
        /\ UNCHANGED <<shadow, comparison, diagnosis, measurement, series, commands>>

BindEvidence ==
    LET e == binding.read
    IN  /\ binding.at = "reading" /\ Len(e) = 4
        /\ e[1].hypotheses # {}
        /\ binding' = [binding EXCEPT !.at = "done",
                          !.report = Bind(e[1], e[2], e[3], e[4])]
        /\ UNCHANGED <<shadow, comparison, diagnosis, measurement, series, commands>>

DiagnosisNext ==
    \/ ShadowChanges \/ DiagnosePlan \/ Bench \/ AdmitSeries \/ Truncate
    \/ \E pair \in PlanPairs : ExplainCompare(pair)
    \/ ReadEvidence \/ BindEvidence

DiagnosisSpec == DiagnosisInit /\ [][DiagnosisNext]_diagnosisVars

-----------------------------------------------------------------------------
(* Correctness *)

\* What a plan says without an order: its tables with how often they occur, its
\* keys and its estimates.
Entries(plan) == UNION {{<<b, n>> : n \in DOMAIN b} : b \in plan.branches}
PlanTables(plan) ==
    LET T == {e[1][e[2]].table : e \in Entries(plan)}
    IN  [t \in T |-> Cardinality({e \in Entries(plan) : e[1][e[2]].table = t})]
PlanRows(plan) ==
    LET order == SetToSeq(Entries(plan))
    IN  Total([n \in DOMAIN order |-> order[n][1][order[n][2]]])

\* In whatever order the plans were walked, the hypotheses about filesort and
\* access path are exactly what they say, and a scan is called reduced only when
\* it is (plancompare/compare.go:148, diagnosis.go:115-170).
HypothesesSound ==
    \A d \in diagnosis :
        LET b == d.source.plans.baseline
            c == d.source.plans.candidate
            Keys(plan) == {e[1][e[2]].key : e \in Entries(plan)} \ {""}
            Fewer == /\ Entries(b) # {} /\ PlanTables(b) = PlanTables(c)
                     /\ \A e \in Entries(b) \cup Entries(c) : e[1][e[2]].rows # Unknown
                     /\ PlanRows(c) < PlanRows(b)
        IN  /\ ("removes_filesort" \in d.hypotheses) = (b.filesort /\ ~c.filesort)
            /\ ("changes_access_path" \in d.hypotheses) = ~(Keys(c) \subseteq Keys(b))
            /\ "reduces_estimated_scan" \in d.hypotheses => Fewer

\* Where the identities are complete, the hypotheses are those of the very
\* comparison that was read, and the measurement was taken on the same data with
\* the same index; what is bound inherits the verdict on an eligible measurement
\* at that path.  Reports rewritten between the commands, or while bind-evidence
\* reads, do not change this; that the series judged this measurement and not an
\* earlier one at the same path is not said (bind.go:107-139, admission.go:94-99).
BoundTogether ==
    binding.report.complete =>
        LET e == binding.read
        IN  /\ e[1].hypotheses = Derive(e[2])
            /\ e[3].snapshot = e[2].snapshot /\ e[3].index = e[2].index
            /\ binding.report.bound => e[4].of.eligible /\ e[4].of.file = e[3].file

=============================================================================
