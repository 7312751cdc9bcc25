-------------------------------- MODULE Review --------------------------------
(***************************************************************************)
(* The local review of a change: webhook-serve takes signed deliveries,    *)
(* each with a diff, and runs the evidence pipeline for a diff that adds   *)
(* one admitted statement; `pipeline` runs it for a file; and              *)
(* `propose-candidate` drafts a candidate index from the files that a      *)
(* pipeline left.                                                          *)
(*                                                                         *)
(* A delivery is a directory <root>/<id> with a report and a comment; the  *)
(* files of the pipeline lie in a directory of their own.  A file is       *)
(* created empty and then filled, so one can be torn, or hold the end of a *)
(* longer content of another run.  A digest is the content it is of; a     *)
(* diff is a sequence of kinds of lines.                                   *)
(***************************************************************************)
EXTENDS Naturals, Sequences, FiniteSets, SequencesExt

CONSTANTS
    Reviews,        \* deliveries that arrive, or runs of `pipeline`
    Directories,    \* delivery ids, or values of --out-dir
    Diffs,          \* the diffs of deliveries
    MaxConcurrent,  \* --max-concurrent is at most 4
    MaxWriteFaults  \* bound: failed writes and crashes

ASSUME ReviewAssumption ==
    /\ Diffs \subseteq Seq(STRING)
    /\ MaxConcurrent \in Nat \ {0} /\ MaxWriteFaults \in Nat

VARIABLES
    served,      \* webhook-serve, and not `pipeline`
    room,        \* --max-concurrent
    place,       \* where a review is
    ask,         \* its directory, and its diff or statement
    slots,       \* the reviews in the semaphore
    directories, \* those that exist
    disk,        \* the files of a directory: {}, one content, or a mix of several
    partial,     \* files created and not filled
    opened,      \* the reviews that have the file they are at open
    contested,   \* history: where runs of `pipeline` passed the check of the
                 \* directory before one of them had created a file
    rep,         \* the report of a review, in its memory
    reply,
    proposal,    \* `propose-candidate`
    writeFaults

reviewVars == <<served, room, place, ask, slots, directories, disk, partial, opened, contested,
                rep, reply, proposal, writeFaults>>

-----------------------------------------------------------------------------
(* The statements of a diff *)

Headers == {"sql file", "other file"}
Added == {"+select", "+drop"}  \* a line that is blank adds nothing

\* flush: lines that are all blank make no statement.
Flush(acc) ==
    IF acc.current = <<>> THEN acc.sqls ELSE Append(acc.sqls, acc.current)

\* Mutant: the lines of other files after a .sql file are taken too.
ReadLine_Stays(acc, line) ==
    IF line \in Headers
    THEN [sqls |-> Flush(acc), current |-> <<>>,
          inSQLFile |-> acc.inSQLFile \/ line = "sql file"]
    ELSE IF acc.inSQLFile /\ line \in Added THEN [acc EXCEPT !.current = Append(@, line)]
    ELSE acc

ReadLine(acc, line) ==
    IF line \in Headers
    THEN [sqls |-> Flush(acc), current |-> <<>>, inSQLFile |-> line = "sql file"]
    ELSE IF acc.inSQLFile /\ line \in Added THEN [acc EXCEPT !.current = Append(@, line)]
    ELSE acc

\* What the .sql files of a diff add, a statement per file.
ExtractAddedSQL(diff) ==
    LET after[n \in 0..Len(diff)] ==
            IF n = 0 THEN [sqls |-> <<>>, current |-> <<>>, inSQLFile |-> FALSE]
            ELSE ReadLine(after[n - 1], diff[n])
    IN  Flush(after[Len(diff)])

\* One SELECT and nothing else is admitted.
Admit(sql) == sql = <<"+select">>

\* Why `process` starts no pipeline, "" when it does.
Rejection(diff) ==
    LET sqls == ExtractAddedSQL(diff)
    IN  IF sqls = <<>> THEN "no_sql_candidates"
        ELSE IF \E n \in DOMAIN sqls : ~Admit(sqls[n]) THEN "sql_admission_rejected"
        ELSE IF Len(sqls) # 1 THEN "multiple_sql_candidates"
        ELSE ""

Sql(p) == IF served THEN Head(ExtractAddedSQL(ask[p].diff)) ELSE ask[p].diff

-----------------------------------------------------------------------------
(* State *)

Stages == <<"admission", "candidate", "comparison", "diagnosis">>
StageFiles == ToSet(Stages)
PipelineFiles == StageFiles \cup {"summary"}
ReviewFiles == PipelineFiles \cup {"report", "comment"}

Blank == [steps |-> <<>>, stopped |-> "", failed |-> FALSE, reason |-> ""]

Idle == [at |-> "idle", dir |-> {}, sources |-> <<>>]

\* How a proposal that has its evidence ends: with a CandidateSpec or a reason.
Outcomes == {"candidate", "model_node_failed", "candidate_draft_attempts_exhausted"}

Inside == {"event", "make", "prepare"} \cup ReviewFiles

ReviewTypeOK ==
    /\ served \in BOOLEAN /\ room \in 1..MaxConcurrent
    /\ place \in [Reviews -> Inside \cup {"idle", "end", "gone"}]
    /\ \A p \in Reviews : place[p] # "idle" => ask[p].dir \in Directories
    /\ slots = {p \in Reviews : served /\ place[p] \in Inside}
    /\ Cardinality(slots) <= room
    /\ directories \subseteq Directories
    /\ partial \subseteq Directories \X ReviewFiles
    /\ \A p \in opened : place[p] \in ReviewFiles
    /\ contested \subseteq Directories /\ (served => contested = {})
    /\ \A d \in Directories, f \in ReviewFiles :
          /\ d \notin contested => Cardinality(disk[d][f]) <= 1
          /\ \A c \in disk[d][f] : c.by \in Reviews /\ d \in directories
    /\ \A p \in Reviews : rep[p].steps \in SeqOf(StageFiles, 4)
    /\ reply \in [Reviews -> {"", "refused", "queue_full", "invalid", "delivery_output_exists",
                     "write_failed", "completed", "unavailable"}]
    /\ proposal.at \in {"idle", "read", "error"} \cup Outcomes

ReviewInit ==
    /\ served \in BOOLEAN
    /\ room \in (IF served THEN 1..MaxConcurrent ELSE {1})
    /\ place = [p \in Reviews |-> "idle"]
    /\ ask = [p \in Reviews |-> [dir |-> "", diff |-> <<>>]]
    /\ slots = {} /\ directories = {} /\ partial = {} /\ opened = {} /\ contested = {}
    /\ disk = [d \in Directories |-> [f \in ReviewFiles |-> {}]]
    /\ rep = [p \in Reviews |-> Blank]
    /\ reply = [p \in Reviews |-> ""]
    /\ proposal = Idle
    /\ writeFaults = 0

WriteFault == writeFaults < MaxWriteFaults /\ writeFaults' = writeFaults + 1

GoesTo(p, next) == place' = [place EXCEPT ![p] = next]

\* The handler returns: the deferred receive from the semaphore runs too.
Answers(p, answer) ==
    /\ reply' = [reply EXCEPT ![p] = answer]
    /\ slots' = slots \ {p}
    /\ GoesTo(p, "end")

-----------------------------------------------------------------------------
(* ServeHTTP *)

\* Mutant: the semaphore is taken without looking whether it is full.
Deliver_Unbounded(p, d, diff) ==
    /\ served
    /\ place[p] = "idle"
    /\ ask' = [ask EXCEPT ![p] = [dir |-> d, diff |-> diff]]
    /\ slots' = slots \cup {p}
    /\ GoesTo(p, "event")
    /\ UNCHANGED <<served, room, directories, disk, partial, opened, contested, rep, reply,
                   proposal, writeFaults>>

\* Method, signature and size come first, then the semaphore, without waiting.
Deliver(p, d, diff) ==
    /\ served
    /\ place[p] = "idle"
    /\ ask' = [ask EXCEPT ![p] = [dir |-> d, diff |-> diff]]
    /\ \/ Answers(p, "refused")
       \/ Cardinality(slots) >= room /\ Answers(p, "queue_full")
       \/ /\ Cardinality(slots) < room
          /\ slots' = slots \cup {p}
          /\ GoesTo(p, "event")
          /\ UNCHANGED reply
    /\ UNCHANGED <<served, room, directories, disk, partial, opened, contested, rep, proposal,
                   writeFaults>>

\* The event is decoded and its SQL admitted.
Handle(p) ==
    /\ place[p] = "event"
    /\ \/ Answers(p, "invalid") /\ UNCHANGED rep
       \/ /\ GoesTo(p, "make")
          /\ rep' = [rep EXCEPT ![p].reason = Rejection(ask[p].diff)]
          /\ UNCHANGED <<slots, reply>>
    /\ UNCHANGED <<served, room, ask, directories, disk, partial, opened, contested, proposal,
                   writeFaults>>

\* Mutant: MkdirAll, which accepts a directory that exists.
CreateDeliveryDir_Any(p) ==
    /\ place[p] = "make"
    /\ directories' = directories \cup {ask[p].dir}
    /\ GoesTo(p, IF rep[p].reason = "" THEN "prepare" ELSE "report")
    /\ UNCHANGED <<served, room, ask, slots, disk, partial, opened, contested, rep, reply,
                   proposal, writeFaults>>

\* os.Mkdir: of several reviews with one id, one gets the directory.
CreateDeliveryDir(p) ==
    /\ place[p] = "make"
    /\ \/ /\ ask[p].dir \in directories
          /\ Answers(p, "delivery_output_exists")
          /\ UNCHANGED <<directories, writeFaults>>
       \/ /\ ask[p].dir \notin directories
          /\ directories' = directories \cup {ask[p].dir}
          /\ GoesTo(p, IF rep[p].reason = "" THEN "prepare" ELSE "report")
          /\ UNCHANGED <<slots, reply, writeFaults>>
       \/ WriteFault /\ Answers(p, "write_failed") /\ UNCHANGED directories
    /\ UNCHANGED <<served, room, ask, disk, partial, opened, contested, rep, proposal>>

-----------------------------------------------------------------------------
(* pipeline.Run *)

\* A run of `pipeline`; the webhook gives its pipelines directories of their own.
StartPipeline(p, d, sql) ==
    /\ ~served
    /\ place[p] = "idle"
    /\ ask' = [ask EXCEPT ![p] = [dir |-> d, diff |-> sql]]
    /\ GoesTo(p, "prepare")
    /\ UNCHANGED <<served, room, slots, directories, disk, partial, opened, contested, rep, reply,
                   proposal, writeFaults>>

\* What follows a run that returned r: the report of the delivery, or the end
\* of the command.
Returns(p, r) ==
    /\ rep' = [rep EXCEPT ![p] = r]
    /\ GoesTo(p, IF served THEN "report" ELSE "end")

Failed(p) == [rep[p] EXCEPT !.failed = TRUE]

\* Mutant: files in the directory are no obstacle.
Usable_Any(d) == TRUE

Usable(d) ==
    \A f \in PipelineFiles : disk[d][f] = {} /\ <<d, f>> \notin partial

\* Other runs have passed the check of this directory and not created a file yet.
Rivals(p) ==
    {q \in Reviews \ {p} : ask[q].dir = ask[p].dir /\ place[q] = "admission" /\ q \notin opened}

\* prepareOutputDir looks, and claims nothing.
PrepareOutputDir(p) ==
    /\ place[p] = "prepare"
    /\ \/ /\ Usable(ask[p].dir)
          /\ directories' = directories \cup {ask[p].dir}
          /\ contested' = IF Rivals(p) = {} THEN contested ELSE contested \cup {ask[p].dir}
          /\ GoesTo(p, "admission")
          /\ UNCHANGED <<rep, writeFaults>>
       \/ /\ IF Usable(ask[p].dir) THEN WriteFault ELSE UNCHANGED writeFaults
          /\ Returns(p, Failed(p))
          /\ UNCHANGED <<directories, contested>>
    /\ UNCHANGED <<served, room, ask, slots, disk, partial, opened, reply, proposal>>

\* os.WriteFile opens and empties the file, and fills it.
CreateFile(p) ==
    LET x == <<ask[p].dir, place[p]>>
    IN  /\ place[p] \in ReviewFiles
        /\ p \notin opened
        /\ opened' = opened \cup {p}
        /\ partial' = partial \cup {x}
        /\ disk' = [disk EXCEPT ![x[1]][x[2]] = {}]
        /\ UNCHANGED <<served, room, place, ask, slots, directories, contested, rep, reply,
                       proposal, writeFaults>>

Content(p, f) ==
    [by |-> p, accepted |-> f # "admission" \/ Admit(Sql(p)),
     rep |-> IF f \in StageFiles THEN Blank ELSE rep[p]]

Completed(p) == ~rep[p].failed /\ rep[p].reason = ""

Stop(p, r) ==
    /\ rep' = [rep EXCEPT ![p] = [r EXCEPT !.stopped = place[p], !.failed = TRUE]]
    /\ GoesTo(p, "summary")

\* The step after a stage is written.
NextStage(p) ==
    LET r == [rep[p] EXCEPT !.steps = Append(@, place[p])]
    IN  IF place[p] = "admission" /\ ~Admit(Sql(p))
        THEN Stop(p, r)
        ELSE /\ rep' = [rep EXCEPT ![p] = r]
             /\ GoesTo(p, CASE place[p] = "admission" -> "candidate"
                            [] place[p] = "candidate" -> "comparison"
                            [] place[p] = "comparison" -> "diagnosis"
                            [] place[p] = "diagnosis" -> "summary")

\* What another run has written since the file was emptied is overwritten, or
\* sticks out beyond the end.
FillFile(p) ==
    LET x == <<ask[p].dir, place[p]>>
    IN  /\ p \in opened
        /\ opened' = opened \ {p}
        /\ partial' = partial \ {x}
        /\ \E beyond \in {{}, disk[x[1]][x[2]]} :
              disk' = [disk EXCEPT ![x[1]][x[2]] = {Content(p, x[2])} \cup beyond]
        /\ \/ x[2] \in StageFiles /\ NextStage(p) /\ UNCHANGED <<slots, reply>>
           \/ x[2] = "summary" /\ Returns(p, rep[p]) /\ UNCHANGED <<slots, reply>>
           \/ x[2] = "report" /\ GoesTo(p, "comment") /\ UNCHANGED <<slots, reply, rep>>
           \/ /\ x[2] = "comment"
              /\ Answers(p, IF Completed(p) THEN "completed" ELSE "unavailable")
              /\ UNCHANGED rep
        /\ UNCHANGED <<served, room, ask, directories, contested, proposal, writeFaults>>

\* Mutant: a stage whose file could not be written is passed over.
WriteFails_Ignored(p) ==
    /\ place[p] \in ReviewFiles
    /\ WriteFault
    /\ opened' = opened \ {p}
    /\ \/ place[p] \in StageFiles /\ NextStage(p) /\ UNCHANGED <<slots, reply>>
       \/ place[p] = "summary" /\ Returns(p, Failed(p)) /\ UNCHANGED <<slots, reply>>
       \/ place[p] \in {"report", "comment"} /\ Answers(p, "write_failed") /\ UNCHANGED rep
    /\ UNCHANGED <<served, room, ask, directories, disk, partial, contested, proposal>>

\* The pipeline returns at once, without a summary; the delivery has no answer
\* without its files.
WriteFails(p) ==
    /\ place[p] \in ReviewFiles
    /\ WriteFault
    /\ opened' = opened \ {p}
    /\ \/ place[p] \in PipelineFiles /\ Returns(p, Failed(p)) /\ UNCHANGED <<slots, reply>>
       \/ place[p] \in {"report", "comment"} /\ Answers(p, "write_failed") /\ UNCHANGED rep
    /\ UNCHANGED <<served, room, ask, directories, disk, partial, contested, proposal>>

\* The shadow refuses or fails, or the client is gone; a plan that cannot be
\* parsed; a comparison that cannot be diagnosed.
StageStops(p) ==
    /\ place[p] \in {"candidate", "comparison", "diagnosis"}
    /\ p \notin opened
    /\ Stop(p, rep[p])
    /\ UNCHANGED <<served, room, ask, slots, directories, disk, partial, opened, contested, reply,
                   proposal, writeFaults>>

\* The process ends: all deliveries of the server, or one `pipeline`.
ProcessEnds(p) ==
    LET gone == IF served THEN slots ELSE {p}
    IN  /\ place[p] \in Inside
        /\ WriteFault
        /\ place' = [q \in Reviews |-> IF q \in gone THEN "gone" ELSE place[q]]
        /\ slots' = {} /\ opened' = opened \ gone
        /\ UNCHANGED <<served, room, ask, directories, disk, partial, contested, rep, reply,
                       proposal>>

-----------------------------------------------------------------------------
(* propose-candidate *)

\* What the model drafts: a valid CandidateSpec, another text, or an error.
DraftKinds == {"valid", "invalid", "error"}

\* The first draft that is valid or an error ends the loop, and so does the limit.
Propose(drafts, limit) ==
    LET Ends(n, draft) == drafts[n] = draft /\ \A m \in 1..(n - 1) : drafts[m] = "invalid"
    IN  IF \E n \in 1..limit : Ends(n, "valid") THEN "candidate"
        ELSE IF \E n \in 1..limit : Ends(n, "error") THEN "model_node_failed"
        ELSE "candidate_draft_attempts_exhausted"

StartProposal(d) ==
    /\ proposal.at = "idle"
    /\ proposal' = [proposal EXCEPT !.at = "read", !.dir = {d}]
    /\ UNCHANGED <<served, room, place, ask, slots, directories, disk, partial, opened, contested,
                   rep, reply, writeFaults>>

\* Mutant: a file that cannot be decoded is passed over.
Readable_Any(d, f) == disk[d][f] # {} \/ <<d, f>> \in partial

\* decodeStrict takes one JSON value and nothing after it.
Readable(d, f) == \E c \in disk[d][f] : disk[d][f] = {c}

\* LoadEvidence reads the four files one after the other; one that is missing
\* or torn, and an admission that is not accepted, is an error.  Whether they
\* are of one run is not asked.
LoadEvidence ==
    LET n == Len(proposal.sources) + 1
        f == Stages[n]
    IN  /\ proposal.at = "read" /\ n <= 4
        /\ \E d \in proposal.dir :
              IF Readable(d, f) /\ \A c \in disk[d][f] : c.accepted
              THEN proposal' = [proposal EXCEPT !.sources =
                                    Append(@, {c.by : c \in disk[d][f]})]
              ELSE proposal' = [Idle EXCEPT !.at = "error"]
        /\ UNCHANGED <<served, room, place, ask, slots, directories, disk, partial, opened,
                       contested, rep, reply, writeFaults>>

ProposeCandidate(drafts, limit) ==
    /\ proposal.at = "read" /\ Len(proposal.sources) = 4
    /\ proposal' = [proposal EXCEPT !.at = Propose(drafts, limit)]
    /\ UNCHANGED <<served, room, place, ask, slots, directories, disk, partial, opened, contested,
                   rep, reply, writeFaults>>

ReviewNext ==
    \/ \E p \in Reviews :
          \/ \E d \in Directories :
                \/ \E diff \in Diffs : Deliver(p, d, diff)
                \/ \E sql \in {<<"+select">>, <<"+drop">>} : StartPipeline(p, d, sql)
          \/ Handle(p) \/ CreateDeliveryDir(p) \/ PrepareOutputDir(p)
          \/ CreateFile(p) \/ FillFile(p) \/ WriteFails(p) \/ StageStops(p)
          \/ ProcessEnds(p)
    \/ \E d \in Directories : StartProposal(d)
    \/ LoadEvidence
    \/ \E limit \in 1..3 : \E drafts \in [1..limit -> DraftKinds] : ProposeCandidate(drafts, limit)

ReviewSpec == ReviewInit /\ [][ReviewNext]_reviewVars

-----------------------------------------------------------------------------
(* Correctness *)

\* What a review wrote is written again at most where runs of `pipeline` passed
\* the check of one empty directory together: a second delivery with its id, and
\* a run that comes later to its directory, never touch it (webhook.go:259,
\* pipeline.go:250).
NeverRewritten ==
    [][\A d \in Directories \ contested', f \in ReviewFiles :
          disk[d][f] # {} => disk'[d][f] = disk[d][f]]_reviewVars

\* Lines that the .sql files of a diff add.
AddedBySQLFiles(diff) ==
    {n \in DOMAIN diff :
        /\ diff[n] \in Added
        /\ \E h \in 1..n : diff[h] = "sql file" /\ \A m \in h + 1..n : diff[m] \notin Headers}

\* Accepted deliveries have a complete report and comment of one content; a
\* verification is called completed exactly when the diff adds one SELECT and
\* all the files of its pipeline are there (webhook.go:243-279).
AnswersOnDisk ==
    \A p \in Reviews : reply[p] \in {"completed", "unavailable"} =>
        LET mine == disk[ask[p].dir]
            Added1 == {ask[p].diff[n] : n \in AddedBySQLFiles(ask[p].diff)} = {"+select"}
                      /\ Cardinality(AddedBySQLFiles(ask[p].diff)) = 1
        IN  /\ mine["report"] = {Content(p, "report")}
            /\ mine["comment"] = mine["report"]
            /\ (rep[p].reason = "") = Added1
            /\ (reply[p] = "completed") =
                  (/\ Added1 /\ rep[p].stopped = ""
                   /\ \A f \in PipelineFiles : mine[f] # {} /\ \A c \in mine[f] : c.by = p)

\* A summary lists stages in their order and without a gap; they are those that
\* are complete on disk, and of its own run, unless the directory was contested
\* (pipeline.go:179, 210).
SummaryTrue ==
    \A d \in Directories : \A s \in disk[d]["summary"] :
        /\ s.rep.steps = SubSeq(Stages, 1, Len(s.rep.steps))
        /\ d \notin contested =>
              \A f \in StageFiles :
                 (f \in ToSet(s.rep.steps)) = (disk[d][f] # {} /\ \A c \in disk[d][f] : c.by = s.by)

\* A proposal is made from four files of one run, though it asks neither whether
\* the run is over nor whose files they are, unless the directory was contested
\* (proposal.go:72-123).
ProposalTraceable ==
    proposal.at \in Outcomes /\ proposal.dir \cap contested = {} =>
        \E p \in Reviews : \A n \in 1..4 : proposal.sources[n] = {p}

=============================================================================
