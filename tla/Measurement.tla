----------------------------- MODULE Measurement -----------------------------
(***************************************************************************)
(* The measurement of a candidate index with the commands of cmd/sentinel: *)
(* `seed` fills the orders table of both sides, `index` makes the index on *)
(* the candidate, `bench` measures both sides and writes a report.  Each   *)
(* command is a process; nothing keeps them from overlapping but the gates *)
(* they check at the start.                                                *)
(*                                                                         *)
(* A side holds the batches a seed wrote.  A digest is what was hashed,    *)
(* batch by batch, each in a query of its own.  A time is a number; the    *)
(* statistics are those of the code in integers and ratios.                *)
(***************************************************************************)
EXTENDS Integers, Sequences, FiniteSets, Functions

CONSTANTS
    Seeds,        \* the seeds that `seed` is given
    Batches,      \* batches of a complete table
    Times,        \* what a round may take
    Calibrate,    \* --calibrate, at least 2
    Rounds,       \* --rounds when it is not 0
    Files,        \* report paths
    MaxSeedings,  \* bound: runs of `seed`
    MaxBenches    \* bound: runs of `bench`

ASSUME MeasurementAssumption ==
    /\ Times \subseteq Nat /\ Batches \in Nat /\ MaxSeedings \in Nat /\ MaxBenches \in Nat
    /\ Calibrate \in Nat /\ Calibrate >= 2 /\ Rounds \in Nat \ {0}

VARIABLES
    data,         \* the orders table of each side
    indexed,      \* the candidate index exists
    seeder,       \* the `seed` command
    at,           \* where `bench` and `index` are
    digest,       \* what they hashed of each side
    formal,       \* this `bench` measures, it is not for calibration only
    took,         \* the samples of each side so far
    used,         \* the data they were taken on
    disturbed,    \* history: a `seed` wrote while this `bench` ran
    files,        \* the report at each path, {} when there is none
    torn,         \* paths created, and not completely written
    seedings, benches

sideVars == <<data, indexed, seeder, seedings>>
benchVars == <<formal, took, used, disturbed, benches>>
fileVars == <<files, torn>>
measurementVars == <<sideVars, at, digest, benchVars, fileVars>>

Sides == {"baseline", "candidate"}

-----------------------------------------------------------------------------
(* Statistics (internal/measure) *)

\* slices.Sort on a clone.
Sorted(xs) ==
    CHOOSE s \in {[n \in DOMAIN xs |-> xs[p[n]]] : p \in Bijection(DOMAIN xs, DOMAIN xs)} :
        \A m, n \in DOMAIN xs : m < n => s[m] <= s[n]

\* Mutant: the upper of the two middle samples.
Median_Upper(xs) == Sorted(xs)[(Len(xs) \div 2) + 1]

Median(xs) ==
    LET s == Sorted(xs)
        mid == Len(s) \div 2
    IN  IF Len(s) % 2 = 1 THEN s[mid + 1] ELSE (s[mid] + s[mid + 1]) \div 2

Distance(x, y) == IF x < y THEN y - x ELSE x - y

MAD(xs) == Median([n \in DOMAIN xs |-> Distance(xs[n], Median(xs))])

\* Scaled by 1.4826 and cut to a whole number.
ScaledMAD(xs) == (MAD(xs) * 14826) \div 10000

\* A ratio <<a, b>> stands for a/b.
Exceeds(p, q) == p[1] * q[2] > q[1] * p[2]

NoiseRatio(xs) == IF Median(xs) <= 0 THEN <<0, 1>> ELSE <<ScaledMAD(xs), Median(xs)>>

\* The medians are those of the measurement, the noise that of the calibration.
Decide(medianB, medianC, noiseB, noiseC) ==
    LET noise == IF Exceeds(noiseC, noiseB) THEN noiseC ELSE noiseB
        threshold == <<2 * noise[1], noise[2]>>
    IN  IF medianB <= 0 \/ ~Exceeds(<<Distance(medianB, medianC), medianB>>, threshold)
        THEN "NotSignificant"
        ELSE IF medianC < medianB THEN "Better" ELSE "Worse"

Quiet(noise) == ~Exceeds(noise, <<1, 10>>)

\* "none": there was no measurement.
Eligible(noiseB, noiseC, verdict) == Quiet(noiseB) /\ Quiet(noiseC) /\ verdict = "Better"

-----------------------------------------------------------------------------
(* Reports *)

Verdicts == {"none", "NotSignificant", "Better", "Worse"}

\* rounds: the samples of each side; fair: see ReportsFair.
Report == [digest: Seq(Seeds), quiet: BOOLEAN, verdict: Verdicts, eligible: BOOLEAN,
           rounds: [Sides -> Nat], fair: BOOLEAN]

MeasurementTypeOK ==
    /\ data \in [Sides -> [seed: Seeds, batches: 0..Batches]]
    /\ indexed \in BOOLEAN /\ formal \in BOOLEAN /\ disturbed \in BOOLEAN
    /\ seeder \in [side: Sides \cup {"none"}, seed: Seeds, both: BOOLEAN]
    /\ at \in [{"bench", "index"} -> {"idle", "baseline", "candidate", "gate",
                  "create", "index", "calibrate", "measure", "write"}]
    /\ digest \in [{"bench", "index"} -> [Sides -> Seq(Seeds)]]
    /\ took \in [Sides -> Nat]
    /\ used \in [Sides -> SUBSET Seq(Seeds)]
    /\ files \in [Files -> SUBSET Report] /\ torn \subseteq Files
    /\ seedings \in 0..MaxSeedings /\ benches \in 0..MaxBenches

\* Reports of calibrations on complete tables.
Calibrations ==
    {[digest |-> [n \in 1..Batches |-> s], quiet |-> q, verdict |-> "none",
      eligible |-> FALSE, rounds |-> [side \in Sides |-> Calibrate], fair |-> TRUE] :
        s \in Seeds, q \in BOOLEAN}

\* Complete equal sides; two reports of earlier calibrations, or none.
MeasurementInit ==
    /\ \E s \in Seeds :
          /\ data = [side \in Sides |-> [seed |-> s, batches |-> Batches]]
          /\ seeder = [side |-> "none", seed |-> s, both |-> FALSE]
    /\ indexed = FALSE /\ formal = FALSE /\ disturbed = FALSE
    /\ at = [c \in {"bench", "index"} |-> "idle"]
    /\ digest = [c \in {"bench", "index"} |-> [side \in Sides |-> <<>>]]
    /\ took = [side \in Sides |-> 0]
    /\ used = [side \in Sides |-> {}]
    /\ \E earlier \in SUBSET Files, c \in Calibrations :
          /\ Cardinality(earlier) \in {0, 2}
          /\ files = [f \in Files |-> IF f \in earlier THEN {c} ELSE {}]
    /\ torn = {}
    /\ seedings = 0 /\ benches = 0

-----------------------------------------------------------------------------
(* seed *)

Write(side, rows) ==
    /\ data' = [data EXCEPT ![side] = rows]
    /\ disturbed' = (disturbed \/ at["bench"] # "idle")

\* TRUNCATE of the first side; --target says which sides.
StartSeed(s) ==
    /\ seeder.side = "none" /\ seedings < MaxSeedings
    /\ seedings' = seedings + 1
    /\ \E side \in Sides, both \in BOOLEAN :
          /\ both => side = "baseline"
          /\ seeder' = [side |-> side, seed |-> s, both |-> both]
          /\ Write(side, [seed |-> s, batches |-> 0])
    /\ UNCHANGED <<indexed, at, digest, formal, took, used, benches, fileVars>>

\* A batch of rows, in a transaction; after the last one the other side.
WriteBatch ==
    LET side == seeder.side
        n == data[side].batches
    IN  /\ side # "none"
        /\ IF n < Batches
           THEN Write(side, [seed |-> seeder.seed, batches |-> n + 1]) /\ UNCHANGED seeder
           ELSE IF seeder.both
           THEN /\ Write("candidate", [seed |-> seeder.seed, batches |-> 0])
                /\ seeder' = [seeder EXCEPT !.side = "candidate", !.both = FALSE]
           ELSE seeder' = [seeder EXCEPT !.side = "none"] /\ UNCHANGED <<data, disturbed>>
        /\ UNCHANGED <<indexed, seedings, at, digest, formal, took, used, benches, fileVars>>

\* An error, or the process ends: what was written stays.
SeedStops ==
    /\ seeder.side # "none"
    /\ seeder' = [seeder EXCEPT !.side = "none"]
    /\ UNCHANGED <<data, indexed, seedings, at, digest, benchVars, fileVars>>

-----------------------------------------------------------------------------
(* The gates of bench and index *)

Moves(c, place) == at' = [at EXCEPT ![c] = place]

NoSamples == took' = [side \in Sides |-> 0] /\ used' = [side \in Sides |-> {}]

StartBench ==
    /\ at["bench"] = "idle" /\ benches < MaxBenches
    /\ benches' = benches + 1
    /\ formal' \in BOOLEAN
    /\ Moves("bench", "baseline")
    /\ disturbed' = (seeder.side # "none")
    /\ UNCHANGED <<sideVars, digest, took, used, fileVars>>

\* `index` on the candidate only; another target is refused before it connects.
\* Once the index exists the command changes nothing.
StartIndex ==
    /\ at["index"] = "idle"
    /\ ~indexed
    /\ Moves("index", "baseline")
    /\ UNCHANGED <<sideVars, digest, benchVars, fileVars>>

\* One query of snapshot.Compute; the first that finds fewer rows is the last.
ReadChunk(c, side) ==
    LET n == Len(digest[c][side])
    IN  /\ at[c] = side
        /\ IF n < data[side].batches
           THEN digest' = [digest EXCEPT ![c][side] = Append(@, data[side].seed)]
                /\ UNCHANGED at
           ELSE Moves(c, IF side = "baseline" THEN "candidate" ELSE "gate") /\ UNCHANGED digest
        /\ UNCHANGED <<sideVars, benchVars, fileVars>>

\* RequireIdenticalSnapshots
Identical(c) == digest[c]["baseline"] = digest[c]["candidate"]

Gate(c) ==
    /\ at[c] = "gate"
    /\ Identical(c)
    /\ Moves(c, IF c = "bench" THEN "index" ELSE "create")
    /\ UNCHANGED <<sideVars, digest, benchVars, fileVars>>

\* CREATE INDEX unless it exists, and ANALYZE TABLE; the command ends.
CreateIndex ==
    /\ at["index"] = "create"
    /\ indexed' = TRUE
    /\ Moves("index", "idle")
    /\ digest' = [digest EXCEPT !["index"] = [side \in Sides |-> <<>>]]
    /\ UNCHANGED <<data, seeder, seedings, benchVars, fileVars>>

\* RequireCandidateIndex, then a session and the warm-up of each side.
CheckIndex ==
    /\ at["bench"] = "index"
    /\ indexed
    /\ Moves("bench", "calibrate")
    /\ UNCHANGED <<sideVars, digest, benchVars, fileVars>>

-----------------------------------------------------------------------------
(* bench: rounds and report *)

\* What a digest of a side would be now.
RowsOf(side) == [n \in 1..data[side].batches |-> data[side].seed]

TakeSample(side) ==
    /\ took' = [took EXCEPT ![side] = @ + 1]
    /\ used' = [used EXCEPT ![side] = @ \cup {RowsOf(side)}]

\* Mutant: the round goes on when the sample of a side failed.
Round_Skips(place, rounds) ==
    /\ at["bench"] = place
    /\ took["candidate"] < rounds
    /\ \/ TakeSample(IF took["baseline"] = took["candidate"] THEN "baseline" ELSE "candidate")
       \/ TakeSample("candidate")
    /\ UNCHANGED <<sideVars, at, digest, formal, disturbed, benches, fileVars>>

\* The next sample of a phase, baseline first: the executions of a round count
\* only when all of them succeeded.
Round(place, rounds) ==
    /\ at["bench"] = place
    /\ took["candidate"] < rounds
    /\ TakeSample(IF took["baseline"] = took["candidate"] THEN "baseline" ELSE "candidate")
    /\ UNCHANGED <<sideVars, at, digest, formal, disturbed, benches, fileVars>>

Calibrating == Round("calibrate", Calibrate)
Measuring == Round("measure", Calibrate + Rounds)

PhaseEnds ==
    /\ \/ /\ at["bench"] = "calibrate" /\ took["candidate"] = Calibrate
          /\ Moves("bench", IF formal THEN "measure" ELSE "write")
       \/ /\ at["bench"] = "measure" /\ took["candidate"] = Calibrate + Rounds
          /\ Moves("bench", "write")
    /\ UNCHANGED <<sideVars, digest, benchVars, fileVars>>

\* os.Create empties the report of an earlier bench.
CreateReport(f) ==
    /\ at["bench"] = "write"
    /\ f \notin torn
    /\ files' = [files EXCEPT ![f] = {}]
    /\ torn' = torn \cup {f}
    /\ UNCHANGED <<sideVars, at, digest, benchVars>>

Samples(n) == [1..n -> Times]

\* Both sides were measured on the data the digest is of, unless they were
\* written meanwhile.
Fair == disturbed \/ \A side \in Sides : used[side] = {digest["bench"]["baseline"]}

\* What buildResult can make of times, as <<quiet, verdict, eligible>>.
Results(measured) ==
    LET Noise == {NoiseRatio(xs) : xs \in Samples(Calibrate)}
        Medians == {Median(xs) : xs \in Samples(Rounds)}
        Verdict(b, c, p, q) == IF measured THEN Decide(b, c, p, q) ELSE "none"
    IN  {<<Quiet(p) /\ Quiet(q), Verdict(b, c, p, q), Eligible(p, q, Verdict(b, c, p, q))>> :
            b \in Medians, c \in Medians, p \in Noise, q \in Noise}
ResultsOf == [measured \in BOOLEAN |-> Results(measured)]

\* buildResult and WriteJSON.
WriteReport(f) ==
    /\ at["bench"] = "write"
    /\ f \in torn
    /\ \E res \in ResultsOf[formal] :
          files' = [files EXCEPT ![f] =
              {[digest |-> digest["bench"]["baseline"], quiet |-> res[1], verdict |-> res[2],
                eligible |-> res[3], rounds |-> took, fair |-> Fair]}]
    /\ torn' = torn \ {f}
    /\ Moves("bench", "idle")
    /\ digest' = [digest EXCEPT !["bench"] = [side \in Sides |-> <<>>]]
    /\ NoSamples
    /\ formal' = FALSE /\ disturbed' = FALSE
    /\ UNCHANGED <<sideVars, benches>>

\* A gate refuses, a statement fails, or the process ends.
Stops(c) ==
    /\ at[c] # "idle"
    /\ Moves(c, "idle")
    /\ digest' = [digest EXCEPT ![c] = [side \in Sides |-> <<>>]]
    /\ IF c = "bench" THEN NoSamples /\ formal' = FALSE /\ disturbed' = FALSE
                      ELSE UNCHANGED <<took, used, formal, disturbed>>
    /\ UNCHANGED <<sideVars, benches, fileVars>>

MeasurementNext ==
    \/ \E s \in Seeds : StartSeed(s)
    \/ WriteBatch \/ SeedStops
    \/ StartBench \/ StartIndex
    \/ \E c \in {"bench", "index"} :
          Gate(c) \/ Stops(c) \/ \E side \in Sides : ReadChunk(c, side)
    \/ CreateIndex \/ CheckIndex
    \/ Calibrating \/ Measuring \/ PhaseEnds
    \/ \E f \in Files : CreateReport(f) \/ WriteReport(f)

MeasurementSpec == MeasurementInit /\ [][MeasurementNext]_measurementVars

-----------------------------------------------------------------------------
(* Correctness *)

\* At least half of the samples are on either side.
MiddleOf(m, xs) ==
    LET Half(S) == 2 * Cardinality(S) >= Len(xs)
    IN  /\ Half({n \in DOMAIN xs : xs[n] <= m})
        /\ Half({n \in DOMAIN xs : xs[n] >= m})

\* A whole-number median lies between the two middle samples, the mirrored one
\* differs from it by the rounding only, and a direction is never seen both ways.
StatisticsRight ==
    /\ \A k \in 1..4 : \A xs \in Samples(k) :
          /\ MiddleOf(Median(xs), xs)
          /\ LET high == 100 IN
             Distance(Median([n \in DOMAIN xs |-> high - xs[n]]), high - Median(xs)) <= 1
    /\ \A b, c \in Times : \A xs, ys \in Samples(Calibrate) :
          LET p == NoiseRatio(xs)  q == NoiseRatio(ys)
          IN  Decide(b, c, p, q) = "Better" /\ c > 0 => Decide(c, b, q, p) = "Worse"

\* The statistics a verdict is made of are right on every small set of samples
\* (measure/stats.go:16-61, verdict.go:68).
StatsSound == at["bench"] = "write" => StatisticsRight

\* A report is about two sides with the data of its digest, unless a seed was
\* running, and holds as many samples of one side as of the other
\* (gate.go:79, round.go:22, bench.go:152-181).
ReportsFair ==
    \A f \in Files : \A r \in files[f] :
        /\ r.fair
        /\ \A side \in Sides :
              r.rounds[side] = Calibrate + (IF r.verdict = "none" THEN 0 ELSE Rounds)

=============================================================================
