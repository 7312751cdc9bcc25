# TLA+ models of sql-sentinel

sql-sentinel reviews SQL changes. A caller (HTTP API or GitHub webhook) submits
a query and a candidate (an index or a rewrite); the job is stored in MySQL,
announced through Kafka, claimed by a worker, tried out on a shadow database,
and its report is kept for reviewers, comments and later benchmarks. This
directory holds TLA+ modules for that system, the TLC configurations that check
them on small instances, and TLAPS proofs of what matters most.

`PROJECT.json` ties every definition to the source lines it models, lists the
runs, the theorems, the hazards, and for every property a plausible bug
("mutant") that breaks it. The mutants are operators beside the definition they
replace and are used by no specification.

    tlc -workers 2 -config JobQueue_safety.cfg MCJobQueue
    tlapm JobQueueProofs.tla
    tlapm CommentPublisherProofs.tla && tlapm ApprovalProofs.tla
    tlapm IntakeProofs.tla && tlapm VerifierRPCProofs.tla
    tlapm ShadowSessionProofs.tla && tlapm ExperimentsProofs.tla
    tlapm EvidenceProofs.tla

## 1. Inventory

Paths are relative to `src/`.

| Component | State it keeps | Operations | Interacts with |
|---|---|---|---|
| Control-plane store and outbox (`internal/kafka/mysql.go`, `recovery.go`, `model.go`) | `sql_sentinel_jobs`, `_outbox`, `_job_history`, `_reports`, `_poison` | Receive, Claim, Renew, Complete/Reject/DeadLetter, Retry, RecoverExpired, PendingOutbox, MarkPublished, Quarantine | intake, relay, worker, runner, all through SQL |
| Relay (`runtime.go:16-51`, `poller.go`, `cmd/kafka-relay`) | none of its own between polls | every interval: RecoverExpired, then publish and mark pending rows | store, Kafka |
| Worker (`runtime.go:53-220`, `cmd/kafka-worker`) | one message, one lease | fetch, claim, run with renewal, finish, commit | store, Kafka, Runner or Verifier RPC |
| Runner and shadow gate (`internal/service/runner.go`, `rewrite.go`, `internal/shadowgate`, `internal/shadowdata`, `internal/benchmark`) | MySQL named lock, candidate index, report row | lock, clean indexes, explain, measure, save report, unlock | shadow MySQL/PostgreSQL, store, historical prior |
| Verifier RPC (`internal/verifierrpc`, `securegrpc`) | slots, map of active jobs | run a job for a worker, stream stages and the result | worker, store, Runner |
| HTTP API (`internal/service/server.go`, `lists.go`) | 8 request slots | receive, get, list | store |
| Approvals and benchmark jobs (`internal/service/extension.go`) | `_approvals`, `_audit` | approve, reject, submit benchmark job | store, identity |
| Identity (`internal/identity`) | issued token digests, role and expiry | issue, authenticate, revoke | API |
| GitHub intake and comments (`internal/service/github.go`, `comments.go`) | `_sources`: head, comment state | verify webhook, enqueue statements, publish or update a comment | GitHub, store |
| Historical prior (`internal/historicalprior`) | `_prior_outbox`: a hint per job, its attempts and expiry; an Elasticsearch index | leave a hint with a report, deliver it, delete it when expired, search within the caller's tables | runner, API, Elasticsearch |
| RAG assistant (`internal/rag`, `extension.go:292-383`) | `rag_scopes`, `rag_chunks`, `rag_documents`, or a remote vector service | ingest, delete, query, answer with citations | embedding and chat model, audit log |
| Measurement and verdict (`internal/measure`, `series`, `snapshot`, `dataset`; `seed`, `index`, `bench`, `admit-series`) | the orders table of both sides, report files | fill, index, digest, calibrate, measure, admit a series | MySQL, files |
| Experiments (`internal/crossengine`, `writebench`, `experimentlock`; `pg-compare`, `write-probe`) | a named lock, throw-away schemas and tables | lock, sweep leftovers, create, measure, drop | MySQL, PostgreSQL |
| Draft graph (`internal/agentgraph`; `propose-candidate`) | drafts within a bound | load evidence, draft, check, redraft | chat model, files of the pipeline |
| Evidence pipeline (`internal/pipeline`, `plancompare`, `diagnosis`, `evidencebind`, `report`) | files that name digests of earlier ones | run stages in order, compare plans, derive hypotheses, bind a verdict | files, the gate |
| SQL admission and candidates (`internal/sqladmit`, `candidate`, `rewrite`) | none | decide whether a statement or a candidate is admitted | runner, intake |
| Local webhook and AgentMesh bridge (`internal/webhook`, `agentmeshbridge`) | a directory per delivery, a semaphore | take a delivery, admit its statements, run the pipeline, write report and comment | pipeline, files |
| Support (resultset, telemetry, configuration, tools, web console) | none that other parts depend on | sequential input and output | |

What is hard: several processes of each kind share the job table and only
single statements or transactions are atomic; leases end while their holder
works; messages arrive twice, late, or never; every process may die between two
statements; clocks are read before the statement that uses them. What makes the
components correct:

- **Job workflow** - an accepted job always has a wake-up (an outbox row or a
  message) and always ends; it runs at most `MaxAttempts` times; it completes
  only with a report; it is given up only after its last attempt; once over it
  never changes; a report is written only by the lease holder.
- **Intake** - one identifier makes one job whatever the retries; the backlog
  bound holds; a request that is accepted is told only of jobs that are its own,
  so a partly enqueued webhook delivery is completed by redelivery.
- **Approvals** - one decision per report; a benchmark runs only for the report
  that was approved.
- **Verifier RPC** - a job is active once; a slot taken is given back.
- **Shadow session** - measurements happen under the lock, on a clean shadow,
  and a change of the data voids them.
- **Comments** - a pull request head gets one comment per source; a superseded
  head gets none.
- **Historical prior** - only what a completed job reported is found, in the
  version that stands; bounded attempts; no expired or foreign hint.
- **Documents** - capacity holds; a document has the chunks of one version; the
  audit log replays to the table; answers cite what was retrieved.
- **Measurement** - the statistics equal their definitions; a report is about
  equal data on both sides and complete rounds.
- **Experiments** - nobody's live tables are swept; runs that overlapped do not
  both report; a report leaves nothing behind and is about one snapshot.
- **Evidence files** - what is answered is on disk and not overwritten; a
  summary lists what is there; hypotheses follow from the plans; a verdict is
  inherited only where comparison, diagnosis and measurement name the same data.

PROJECT.json lists each hazard at its line.

## 2. Modules

In the order in which they were written, which is that of importance:

1. `JobQueue` (store, relay, worker composed at the grain of a statement),
   `JobPromise` (what the submitter is promised), `MCJobQueue`,
   `JobQueueProofs`.
2. `CommentPublisher`, `MCCommentPublisher`, `CommentPublisherProofs`.
3. `Intake`, `MCIntake`, `IntakeProofs`.
4. `Approval`, `MCApproval`, `ApprovalProofs`.
5. `Tries` and `RunnerPromise` (what a Runner promises its caller),
   `ShadowSession` (a Runner on the shadow databases, which keeps that promise),
   `VerifierRPC` (starts Runners that keep it and is such a Runner to a worker),
   `MCShadowSession`, `MCVerifierRPC`, `ShadowSessionProofs`,
   `VerifierRPCProofs`.
6. `Experiments` and `Measurement`; `MCTools` runs both, `ExperimentsProofs` is
   about both.
7. `Review`, `Diagnosis`, `Knowledge`, `Priors`; `MCEvidence` runs the four,
   `EvidenceProofs` is about the four.

Two abstract specifications tie the parts together: `JobPromise` is implemented
by `JobQueue`; `RunnerPromise` by `ShadowSession` and by `VerifierRPC`, which in
turn relies on it for the Runners it starts, as `JobQueue` does for its own.
Each module states one type invariant. Where a theorem proves it, no run repeats
it.

## 3. The job workflow

### How the model corresponds to the code

`JobQueue` has one action per SQL statement, or per transaction where the code
opens one, per broker call and per decision of the worker loop.

| Model | Code |
|---|---|
| `jobs`, `report`, `created`, `unpublished`, `deferred` | the tables, `mysql.go:76-119`; history rows carry no control and are left out, the *statements* that write them are kept because they can fail |
| `produced`, `topic` | the Kafka topic: a message stays until its offset is committed |
| `pc`, `message`, `local` | `Worker.Run` and the locals of `Worker.Handle`, `runtime.go:62-220` |
| `relay` | the poll of `cmd/kafka-relay` and the loop of `Relay.RunOnce` |
| `Receive` | the transaction of `MySQLStore.Receive` for a new delivery |
| `Claim`, `RecordClaim`, `ReadClaimed`, `ReadDenied` | the three statements of `MySQLStore.Claim` (UPDATE, history, SELECT) and what `Handle` makes of the row |
| `SaveReport`, `RunnerStops` | `Runner.Run`: the fenced report transaction, and every way to stop before it |
| `RenewFails` | the renewal goroutine of `Handle` and the cancelled run |
| `Stamp`, `Finish`, `Retry`, `FinishLost`, `RecordFinish` | `runtime.go:131-170`: the clock is read, then the finishing statements use that reading |
| `Commit`, `Fetch`, `HandleAgain` | the loop of `Worker.Run` |
| `Recover`, `Scan`, `Publish`, `MarkPublished`, `MarkFailed` | one poll: `RecoverExpired`, `PendingOutbox`, then publish and mark row by row |
| `JobDue`, `RowDue`, `LeaseExpires`, `Ages` | the deadlines the WHERE clauses compare with: `next_attempt_at`, `available_at`, `lease_until`, `updated_at` |
| `StoreError`, `PublishFails`, `WorkerCrash`, `RelayFails`, `LoseMessage` | failures |

Abstractions:

- A timestamp is the Boolean its WHERE clause computes. Its passing is an action
  of its own, so every order of deadlines and steps is covered, including the
  ones real durations make unlikely. A lease that ends while its holder still
  works, and a job that ages while a wake-up for it exists, need something to go
  wrong and are counted as faults.
- The owner string of a claim is random and unique (`newID`), and is written by
  the UPDATE that increments `attempts`. The k-th claim is therefore the number
  k, as long as `attempts` never decreases, which `JobStep` proves.
- A worker may fetch any message that is not committed. Kafka's order within a
  partition allows less; the properties hold for the larger set.
- The Runner is its outcome: a report that is stored or refused, then success,
  rejection or failure. When it is remote (`verifierrpc`), the same transaction
  runs in the verifier with the same `LeaseOwner`.
- Two branches cannot occur for messages that come from the store's own outbox
  and are left out: the message whose `DeliveryID` differs from its job's
  (`runtime.go:96`), and the message that does not decode or names no job
  (Quarantine).

`JobPromise` is the submitter's view: accept, grant a try, run it, store the
evidence, close. In the refinement mapping (`Promise` in `JobQueue`) the tries
are the claims up to `MaxAttempts`; later claims only bury the job.

### Runs

| Run | Instance | Shows |
|---|---|---|
| `queue_safety` | 1 job, 2 workers, 1 relay, 2 attempts, any 2 faults, workers symmetric | a job that is over never changes (`TerminalFrozen`), and `PromiseKept`: the workflow implements `JobPromise`. Two workers are enough for a late worker beside the current one, two attempts for a claim, a takeover and exhaustion, two faults for a stall followed by a crash. |
| `queue_liveness` | 2 jobs, 1 worker, 1 relay, 1 attempt, batches of 2, 1 fault, 1 message lost by Kafka; 347 thousand states | `NoLostJob`, and `EventuallyOver` under `FairSpec`, although a worker holds on to a busy message, the relay marks row by row, and a message may be gone |
| `queue_fence` | 1 job, 2 workers | a finding: `ReportFenced` is violated |

Relays that publish the same rows at the same time are beyond these instances;
`NoJobIsLost` (section 14) covers any number of them.

`MaxFaults` and `MaxLosses` bound the failures of one behaviour; they are guards
of the actions, not state constraints, so liveness is checked soundly. A fault
is any of: worker crash, relay failure, statement error, publish error, failed
renewal, stall past the lease, rebalance during a run. The symmetry sets hold
processes (and jobs) that run the same code; the symmetric runs check safety
properties only.

Deadlock checking is on in these runs: recovery keeps a relay polling, so the
system never stops.

### Fairness

`FairSpec` assumes that a worker that is up takes its next step, that a relay
polls (`RunPolling` repeats whatever the poll returned, and `Worker.Run`
calls `Handle` again after an error), and that every deadline passes. It assumes
nothing about faults, about which message a worker fetches, or about which rows
a LIMIT selects. `RenewFails` is not fair: renewal may also succeed for ever.

### What the finding says

`docs/backend-release.md:37` promises that only the owner with a valid lease may
save a report. `Claim` updates the row (`mysql.go:236`) and then reads it back
with a second statement (`mysql.go:250`). When the lease runs out in between and
another worker claims the job, the first worker reads the *other* owner, and the
report transaction, fenced by the owner of that row, accepts its report.
`queue_fence` shows it with two workers and one stall. The safety properties
hold all the same: the number of runs stays bounded, since the stale claim has a
smaller number than the one it read, and the finishing statements are fenced by
the worker's own owner string.

## 4. The comment publisher

`CommentPublisher` models `PublishPending` for several API processes, one action
per SQL statement and per GitHub call.

| Model | Code |
|---|---|
| `ended`, `state` | `updated_at` of the finished jobs as a rank; `comment_state` of `sql_sentinel_sources` ("pending" while `comment_published_at` is NULL) |
| `current`, `refused`, `comments` | GitHub: is the job's head the pull request's head, is the repository allowed and answering, how many comments bear the job's marker |
| `lock` | who holds `GET_LOCK('sentinel-comment-publisher')`; the server frees it when the session ends (`SessionEnds`) |
| `TryLock`, `Select`, `CheckHead`, `FindMarker`, `Write`, `Mark`, `Release` | `comments.go:43-57`, `58-86`, `88-98`, `111-125`, `99-104`, `105`, `50-57` |
| `WriteFails`, `CallFails`, `Crash` | an error of a call (a POST may have had its effect), the 40 second deadline, the death of the process |

A pull request with more than 2000 comments is an error in every search
(`comment_pagination_limit`, `comments.go:130`); in the model it is a refused
one, whose call ends one step later.

GitHub is external: a call takes effect, or not, by the time it returns or
fails. A POST that GitHub executes long after the caller gave up is not
modelled; the code has no defence against it. The lock is held on one connection
while the statements run on others, so a publisher does not notice when its lock
connection is lost; `MaxDrops` bounds how often that happens.

| Run | Instance | Shows |
|---|---|---|
| `comments_safety` | 2 jobs, 2 publishers, batches of 2, 2 faults, 1 lost lock, 1 push, 1 refusal; 279 thousand states | `CommentsTrue` (its parts are `OneComment` and `PublishedHasComment`), `DecisionStands`, and `EveryJobDecided` under `FairSpec`: the loop comes back every 15 seconds and the server frees the lock of a dead client |
| `comments_refused` | 2 jobs, 1 publisher, 1 refusal, nothing else | a finding: `AnsweringJobsDecided` is violated |

`OneComment` says "while no working publisher loses its lock connection": two
publishers that work at once may both find no marker and both post. The other
properties hold even then, because the UPDATE asks for
`comment_published_at IS NULL`.

The finding: the items are handled oldest first and the first error ends the
call with nothing recorded (`comments.go:88`, `:93`). A source whose repository
left the allowed set, or whose pull request cannot be read any more, is at the
head of the queue in every call, and the finished jobs behind it never get the
comments that `comments.go:15` and `docs/backend-release.md:41` announce.

## 5. Approvals and benchmark jobs

`Approval` models `jobAction` (`extension.go:385-513`) for concurrent reviewers,
one action per statement, beside the workers that write reports and finish jobs.

| Model | Code |
|---|---|
| `status`, `report` | the job and its report as the workers leave them; a finished job is frozen, which `TerminalFrozen` of `JobQueue` proves. "CLOSED" stands for REJECTED and DEAD_LETTER |
| `approvals`, `audit` | the two tables; `inserting` is the row lock of an INSERT that is not committed |
| `benchmarks`, `measured` | the benchmark jobs by delivery identifier, and those the Runner let through |
| `ReadJob`, `ReadReport`, `Insert`, `Commit`, `Compare` | `scopedJob`, the report and its checks, and the decision: INSERT, audit row and commit, or a comparison with the stored decision when the INSERT fails |
| `ReadApproval`, `Receive` | `extension.go:460` and `:464` |
| `Measure` | the check of `Runner.Run`, `runner.go:67-72` |

A report stands for its digest, and the digest of its candidate is a function of
it (`SpecOf`). The SQL digest belongs to the job and needs no variable. The
reason text is compared like the decision and is left out. Tenant and table
scope are checks of the caller's token and change nothing.

`approval_safety` (1 job, 3 reviewers of whom one created the job, 2 reports of
which one can be approved, 1 delivery, 1 fault; 1.1 million states) shows that a
decision, although its premises were read in three separate statements, is about
the report the job keeps (`ApprovalIsCurrent`), is audited exactly once and is
what every confirmed client was told (`DecisionsKept`), and that benchmark jobs
exist only under an approval of what they carry (`BenchmarksApproved`). That it
is never replaced is the theorem `DecisionsStand`. Three reviewers are enough
for a winner, a loser and a third who reads between them; one job and one
delivery make all of them collide.

## 6. Intake

`Intake` models `POST /jobs` and the GitHub webhook as requests that carry one
or several inputs to `MySQLStore.Receive`.

| Model | Code |
|---|---|
| `jobs` | `sql_sentinel_jobs` by delivery identifier; the options, source, audit, outbox and history rows are inserted by the same transaction and left out |
| `guard` | the transaction that holds the row of `sql_sentinel_receive_guard` |
| `Begin`, `Look`, `Commit`, `Get` | `mysql.go:150-158`, `159-173`, `174-229`, `230`. The lookup and the backlog count read one snapshot, taken by the first of them after the guard row was locked (InnoDB, REPEATABLE READ), and are one step |
| `inputs` | what a request has to store: one posted input, or the statements that GitHub lists for the event |
| `CheckHead` | the webhook's head check and the fetching of the files, `github.go:91-117`. `Listings` is what GitHub may list for an event: each copy of it asks anew (`github.go:112`) and may be told something else, because the branch that the head is compared with moves on |
| `Walk`, `Accepted` | the loop over the statements with the limit of 20 (`MaxParts`), `github.go:119-184`: an event with more is refused, one with exactly 20 too when another SQL file follows (`:120`); a file that is too large, lacks its patch or is one too many ends the request at any point |
| `Conflict` | an identifier that is stored with another content: `409` to a client, any other error to the webhook, `github.go:169` |
| `Fails`, `Crash`, `SessionEnds`, `GuardWaitEnds` | a failed statement, commit or GitHub call; a dead process, whose session the server ends later; the 25 second deadline |

An identifier is made of delivery, file and the line on which a statement begins
(`github.go:164`), so two statements on one line share it: the second is a
conflict, and so it is in every later copy. Nothing is assumed of the
identifiers in a listing. The branch for a duplicate key (`mysql.go:181`) cannot
be taken behind the guard row and is left out. The content of an input stands
for what `sameDelivery` compares; the trace context, which it ignores, is in the
row.

| Run | Instance | Shows |
|---|---|---|
| `intake_safety` | 2 requests, 2 posts with one identifier, 1 delivery with two listings: one of 3 statements of which 2 are allowed and 2 share an identifier, one that has lost the first of these; backlog limit 2, 1 fault; 1.9 million states | `BacklogBounded`, `RepliesTrue` (its parts are `AcceptedComplete` and `ConflictsAreReal`), and `GuardFreed` under `FairSpec`: a request takes its next step or meets its deadline, and the server ends dead sessions. Three possible jobs compete for two places, and every request may be repeated, also while its first copy is being handled |

The limit is that of one copy of an event; how many jobs several copies of it can
make is among the known gaps.

That GitHub delivers a failed event again is not assumed: GitHub leaves it to an
operator. `AcceptedComplete` says what holds when the webhook has answered 202.
That "backlog full" is said of new inputs only is the theorem `FullIsForNew`.

## 7. Runners: shadow sessions and the verifier

`RunnerPromise` is what a worker, or the verifier for a worker, relies on when it
calls a Runner: at most one report is stored, success is returned only after the
report was accepted, and a Runner that has returned stores nothing any more.
`JobQueue` uses a Runner in just this way (`SaveReport`, `RunnerStops`).

### Shadow sessions

`ShadowSession` models what `Runner.Run` does with the shadow databases for
several sessions, in one or several processes: one action per statement on the
candidate connection, or per reading of one side.

| Model | Code |
|---|---|
| `version` | the data of each side, as a number that `shadowdata.Compute` tells apart. `Edit` is an import: it never brings old data back |
| `indexes` | the `idx_cand_` indexes on the candidate, by the session that made them; sessions of one job use the same index name |
| `lock` | `GET_LOCK('sentinel-shadow:...')`: its connection and how often it was taken |
| `conns`, `late` | the pool of the candidate database. A connection may be "gone" (the client closed it, the server has not noticed) or "dead" (the reverse); `late` is a CREATE INDEX the server may still execute for a client that is gone |
| `probes` | connections with the temporary table of `ProbeWrites` |
| `pc`, `conn`, `names`, `evidence`, `outcome` | the locals of `explain`, `cleanIndexes`, `RunQueries`, `runRewrite` |
| `Connect`, `GetLock`, `LockBusy`, `List`, `DropIndex`, `Release` | `runner.go:237-256`, `rewrite.go:36-54`, `cleanIndexes`, the deferred functions |
| `SnapshotBaseline` ... `Explain` | `Gate.Run` |
| `QueriesBaseline`, `QueriesCandidate`, `AfterBaseline`, `AfterCandidate` | `rewrite.go:86-98`, `117-127` |
| `ResultBaseline` ... `RecheckCandidate` | `RunQueries`: results, the rounds, the repeated results and snapshots |
| `CreateProbe`, `DropProbe` | `ProbeWrites` |
| `Save`, `SaveRefused` | the fenced report statement: accepted, or refused because the lease is over or the statement fails |
| `Break`, `StepFails`, `Crash`, `ConnDies`, `ServerNotices` | a lost or rejected connection, any other failure with the deferred cleanup, the death of a process |

Abstractions: `evidence.seen` collects the versions that results and times were
taken from; one round stands for the warm-up and the 25 rounds, since a claim
rests on other data than its snapshot as soon as one round does. Whether results
agree and whether the numbers admit L2 is arbitrary, except that equal data
gives an index equal results. The end of the context is a failure that may come
at any step (`Break`, `StepFails`). That comparing plans or diagnosing them
fails after a good measurement is part of `Save` (`Verdicts`). The baseline
connection holds no state that another session sees, so its failures are
`StepFails`.

| Run | Instance | Shows |
|---|---|---|
| `shadow_safety` | 2 sessions, an index and a rewrite, both measured; 2 connections, 1 import per side, 2 faults; 836 thousand states | who reads the candidate finds its own index and no other (`OnlyOwnIndex`); connections go back to the pool without lock and probe table (`PooledAreClean`); success leaves nothing behind (`SuccessLeavesNothing`); a claim of equivalence or of performance was taken from the data it names (`EvidenceOnSnapshot`); the lock always comes free (`LockFreed`); a session keeps `RunnerPromise` (`RunnerKept`) |
| `shadow_claim` | one import, one fault | a finding: `StoredClaimOnSnapshot` is violated |

Two sessions are enough for one that holds the lock and one that waits for it or
cleans up after it, and each connects once, so two connections suffice; two
faults for a crash or a lost connection followed by a failing cleanup. Sessions
end, so the system may stop. `FairShadowSpec` assumes that statements return or
meet the deadline of their context, and that the server notices clients that are
gone.

`docs/backend-expansion.md:13` tells operators to stop the workers before an
import. `Edit` may happen at any time all the same, because the snapshots are
there to detect it.

The finding: `RunQueries` sets the evidence level before it repeats results and
snapshots (`benchmark.go:137`); when a statement of that recheck fails, `explain`
keeps the report before it looks at the error (`runner.go:283`), and `Run` stores
it with the failed pipeline's (`runner.go:154`). The stored report says L2
although nothing was rechecked, against `docs/backend-expansion.md:42`.
`EvidenceOnSnapshot` says what does hold: the report of a try that succeeded.

### The verifier

`VerifierRPC` models `Server.Run`, `Client`, and as much of the workers as uses
them: claims of a job one after the other, each calling the verifier once.

| Model | Code |
|---|---|
| `owner`, `live`, `verdict`, `report` | the job rows and reports as far as leases are concerned; `JobQueue` has the detail |
| `run`, `stored` | the Runners in the verifier, as `RunnerPromise` has them |
| `Claim`, `ReadRow`, `ClaimFails`, `ref` | the UPDATE of `MySQLStore.Claim` and the SELECT after it (`mysql.go:236`, `250`): by then the row may be another claim's, whose `LeaseOwner` and attempt (`ref`) the worker then calls with |
| `client`, `Receive`, `GiveUp`, `Verdict` | `Client` and the worker around it, `service.go:100-131`, `runtime.go:124-170`; the worker's own statements name its own claim (`Leased`), the call and its Runner the lease that was read (`LeasedRef`) |
| `handler`, `slots`, `active` | `Server.Run` and the fields of `Server` |
| `Admit`, `Refuse`, `Enlist`, `CheckLease`, `Start`, `Reply`, `Return` | `service.go:39-44`, `45-51`, `53-58`, `66-70`, `71-98`, the deferred functions |
| `Cancelled`, `ServerCrash`, `WorkerCrash`, `LeaseEnds` | the end of the stream's context, deaths, late renewals |

Progress messages before the last are not modelled: a `Send` that fails is the
end of the stream's context. A call ends with a reply its client hears only while
it still waits.

`verifier_safety` (1 job, 3 claims, 2 slots, 1 fault; 270 thousand states) shows
that a job has one Runner at a time and none without its call (`OneRunPerJob`),
that slots come back (`SlotFreed`), that a job is completed only by a claim whose
own Runner stored a report and succeeded (`CompletedByItsRun`), and that to a
worker the verifier is a Runner (`RemoteRunnerKept`). Which report a completed
job keeps is less sharp: one stored under the lease of the completing claim, by
its own Runner or by that of an earlier claimer who was late to read the row.
That is the verifier's side of the finding of `queue_fence`.

The refinement mapping counts a call that was given up as running for as long as
the lease it named holds: a report may arrive until then, and not later. Three
claims of one job are enough for a call that lingers, a second that is refused
because of it, and a third that would profit from a wrong bookkeeping by the
second; calls of other jobs share only the slots, which three calls fill. One
fault is enough for a claimer that stalls between its two statements until the
lease is over. `FairVerifierSpec` assumes that handlers go on and that Runners
return when their context ends, and nothing of clients.

## 8. Experiments across engines and on writes

`Experiments` models `pg-compare` (`crossengine.Run`) and `write-probe`
(`writebench.Run`): runs of one kind, each a process of its own that takes the
named lock of its kind, sweeps what dead runs left, makes its own schema or
tables, measures, and drops them.

| Model | Code |
|---|---|
| `linked`, `lock` | the connection that ran `GET_LOCK`, and who holds the lock with it; the server frees the lock when that connection ends (`LinkEnds`), which the run does not notice until it uses it again |
| `things`, `stamp` | the schemas and tables that exist, and the creation time in their comments; `clock` counts minutes |
| `Acquire` | `GET_LOCK(name, 0)`: busy, or the lock |
| `ListOrphans`, `SweepOne`, `SweepEnds` | `cleanOrphans`, `compare.go:547-585`, `probe.go:208-237` |
| `Begin`, `CreateSchema`, `Stamp`, `Copy`, `Query`, `Sample`, `Analyze`, `After` | a comparison: transaction, schema, comment, copy and its digest, query, 27 rounds, EXPLAIN ANALYZE, the closing snapshot; `snapshot` is what its transaction reads, `seen` what the report rests on |
| `CreateTable`, `Build`, `WorkerEnds`, `RoundEnds` | a write probe: two tables, the index, rounds of `Workers` goroutines and `wg.Wait` |
| `Drop`, `Release` | the deferred functions, which may fail and then replace the result |
| `Fails`, `Refused`, `Crash`, `Edit`, `Tick` | a failed or late statement, unsupported or unequal data, a dead process, an import, time |

A comparison reads MySQL on the connection that holds its lock; a write probe
does not use that connection between `GET_LOCK` and `RELEASE_LOCK`
(`UsesLink`). That difference is why two comparisons that overlapped cannot both
report (`OneReportPerOverlap`) and why the same cannot be said of probes. The
numbers a run measures are an arbitrary claim: what the statistics make of
times is the subject of `Measurement`.

The bounds of `tools_safety` for this part: 2 runs, 2 workers, a deadline of 1 and
an orphan age of 1 on a clock up to 3, 1 import, 1 fault. Two runs are a sweeper
and its victim; a clock that passes the deadline and the age of a leftover is
needed for a sweep to do anything; one fault is enough to lose a lock or to
leave a leftover.

## 9. Measurement

`Measurement` models the commands that measure an index: `seed`, `index`,
`bench`; `admit-series` belongs to `Diagnosis`. Nothing but the gates they check
at their start keeps them from overlapping.

| Model | Code |
|---|---|
| `data`, `seeder`, `StartSeed`, `WriteBatch`, `SeedStops` | the orders table of each side, truncated and filled batch by batch (`dataset`); a stopped seed leaves what it wrote |
| `digest`, `ReadChunk`, `Gate` | `snapshot.Compute` hashes a side chunk by chunk, each in a query of its own, so a digest may mix two contents; `RequireIdenticalSnapshots` |
| `indexed`, `StartIndex`, `CreateIndex`, `CheckIndex` | `index` and `RequireCandidateIndex` |
| `StartBench`, `Calibrating`, `Measuring`, `PhaseEnds`, `TakeSample` | the phases of `bench`; a round is a baseline and a candidate execution |
| `CreateReport`, `WriteReport` | `os.Create` empties an earlier report before the new one is written |
| `Median`, `MAD`, `ScaledMAD`, `NoiseRatio`, `Decide`, `Eligible` | `measure/stats.go`, `verdict.go`, `admission.go`; ratios are pairs of integers, so comparisons are exact where the code has floating point |

`Results` is the set of everything `buildResult` can make of times in `Times`.
`StatsSound` compares the operators with their definitions over all samples of
up to four times from {0, 10, 12, 15, 30}, which has equal, close and far values,
medians of 0 and odd and even counts: the median has half of the samples on
either side up to the rounding, mirroring the samples mirrors it, and what is
better one way round is worse the other, unless a median is 0 and there is no
ratio to speak of. `ReportsFair` says that a report is about equal data on both
sides (the rows that a digest is made of, `RowsOf`: two tables without rows are
equal whatever seed they were to get), unless a seed was at work during the
bench, and has complete rounds.

| Run | Instance | Shows |
|---|---|---|
| `tools_safety` | as above; 2 seeds, 2 batches, 2 calibration rounds and 1 measured, 3 report files, 1 seeding, 1 bench; 930 thousand states | the types and the six properties of `Experiments` and `Measurement`. The parts share nothing, so a behaviour runs one of them (`MCTools`). Commands end, so the system may stop |

Reports of two earlier calibrations may lie there at the start, which a bench
may overwrite. Runs, seeds and files are symmetric.

A digest is read in several queries outside a transaction
(`snapshot/compare.go:33`), and a seed may overtake the reading on both sides.
`ReportsFair` therefore excepts a bench that a seed disturbed; what becomes of
such a report is among the known gaps.

## 10. Local reviews and proposals

`Review` models `webhook-serve`, which runs the evidence pipeline for the SQL a
diff adds, `pipeline`, which runs it for a file, and `propose-candidate`, which
drafts an index from the files a pipeline left.

| Model | Code |
|---|---|
| `ExtractAddedSQL`, `Admit`, `Rejection` | `webhook.go:187-213`, `282-306`; a diff is a sequence of kinds of lines, and the statement parser is its decision |
| `slots`, `room`, `Deliver`, `Handle`, `Answers` | `ServeHTTP` and the semaphore |
| `CreateDeliveryDir`, `PrepareOutputDir` | `os.Mkdir` of a delivery, the check of an output directory |
| `disk`, `partial`, `CreateFile`, `FillFile`, `WriteFails` | `os.WriteFile`: a file is empty before it is filled, and either may fail |
| `NextStage`, `StageStops`, `Returns` | `pipeline.Run` and its early ends with and without a summary |
| `ProcessEnds` | the death of the server with all its deliveries, or of one `pipeline` |
| `StartProposal`, `LoadEvidence`, `ProposeCandidate` | `agentgraph`: four files read one after the other while a pipeline may be writing them, then the loop of drafts |
| `opened`, `contested`, `Rivals` | which review has a file open; a history of the directories whose check several runs of `pipeline` passed before one of them had created a file |
| `Propose` | the loop over drafts of the graph |

Two deliveries of one identifier compete for a directory, which `os.Mkdir` gives
to one of them. `pipeline` only looks whether its directory is empty
(`pipeline.go:232-254`), so two runs may both go on in it: each empties and fills
the files of the other, and the longer content of one may stick out beyond the
end of the other's. `NeverRewritten`, `SummaryTrue` and `ProposalTraceable` say
what holds everywhere, and what holds except in such contested directories. What
happens in those is among the known gaps.

`propose-candidate` may read while a pipeline writes, and never asks whose files
they are. That all four are of one run otherwise rests on two facts far from each
other: the stages are written in the order in which they are read, and nobody
writes in a directory that holds a file.

## 11. Plans, hypotheses and bound evidence

`Diagnosis` models `explain-compare`, `diagnose-plan`, `admit-series` and
`bind-evidence`, with `bench` as the writer of the reports that are judged and
bound. Each report may be rewritten or emptied between any two commands, and
while `bind-evidence` reads (`ReadEvidence`, one file per step).

`Evaluate` is the admission of a measurement together with its calibrations,
which are quiet or not; its `of` remembers the measurement that was judged, which
the report of the code does not. `BoundTogether` says what the identities give
however reports are replaced: complete ones mean hypotheses of the very
comparison that was read and a measurement on the data and with the index of that
comparison, and what is bound inherits a verdict on an eligible measurement at
that path. That it was this measurement cannot be said: of the series only the
base name of the path is compared (`bind.go:129`), which
`specs/011-diagnostic-evidence-binding/spec.md:29` names as an assumption. That
case is among the known gaps.

A plan is a set of branches, because `plancompare` walks JSON objects in Go's
random map order: `Walks` is every order it may meet the tables in.
`HypothesesSound` says which hypotheses do not depend on that order; whether a
reduced scan is *found* may depend on it. The hash of a report is its content.

## 12. The knowledge assistant

`Knowledge` models the document and question endpoints with the MySQL vector
store, or with a remote one. The commands wire only the former
(`cmd/api/main.go:99`); the remote one is what `Service.Query` defends against: it
returns any of `Strays`, a set of chunks of any scope and version, stored now or
not, and more of them than were asked for. `Query` drops those of other scopes
(`service.go:99-105`) and does not look at versions.

| Model | Code |
|---|---|
| `ChunkDocument` | `chunkDocument`, as a recursive function over positions; "x", blank and newline stand for runes |
| `Ask`, `Embed` | the endpoint and `Service.Ingest` |
| `scopeRows`, `shared`, `owner`, `InsertScope`, `LockScope` | INSERT IGNORE leaves a shared lock on an existing row, FOR UPDATE needs it alone. Two writers that hold the shared lock deadlock, and InnoDB rolls one back (`Breaks`) |
| `CountChunks`, `Upsert`, `DeleteDocument` | the rest of the transactions; a commit whose answer is lost has taken effect |
| `Search`, `Draft` | `Service.Query`, which drops hits of other scopes, and the citation rules of an answer |

`Cited` is what a model may cite: any of the chunks it was shown, and one that it
was not. `since` is how long the audit log was when a question arrived, which
`StoredAtOnce` needs.

`StoreAgrees` relates the three tables: capacity, chunks of one version,
and an audit log that replays to the documents; and the chunks of a document
hold every visible rune of it, are no longer than `MaxRunes`, and one that starts
later ends no earlier. A chunk may lie within another: an overlap of more than
half of `MaxRunes`, which `types.go:94` allows, makes it so when a line ends in
the overlap. `AnswersCited` is about what a client reads: chunks of its own scope,
retrieved for this question and no more than `TopK`, whatever a store returns or
a model cites; and from the MySQL store chunks that were stored together at one
moment since the question arrived, never of two versions of a document and never
of one deleted before. Of a remote store the code cannot know that.

## 13. Historical priors

`Priors` models the hint a Runner leaves with its report, the relay of every API
process that copies hints of completed jobs to Elasticsearch, and the search.

| Model | Code |
|---|---|
| `WritePrior`, `CompleteJob` | the report transaction (`runner.go:188-209`), `Complete` |
| `TakePriorLock`, `ReadOutbox`, `PutDocument`, `MarkItem`, `CleanPriors` | `historicalprior/relay.go`; PUT goes to Elasticsearch and needs no lock, every statement does |
| `LosesConnection`, `RelayFails` | the lock is free at once, the relay learns it with its next statement; its deadline |
| `SearchPriors` | `Client.Search` and its filters on expiry and tables |

`WritePrior` leaves a hint with every report, also that of a try that failed,
which `runner.go:188` leaves out. The model does more than the code; a hint is
delivered only when its job is completed.

A request that failed may have arrived. Two relays can deliver the same hint, and
one of them can still be doing so after the other has deleted it.

| Run | Instance | Shows |
|---|---|---|
| `evidence_safety` | see below; 1.06 million states | the types and the nine properties of `Review`, `Diagnosis`, `Knowledge` and `Priors`. They share nothing, so a behaviour runs one of them (`MCEvidence`). Reviews, requests and commands end, so the system may stop |

- *Review*: 2 reviews, 1 directory, room for 1 or 2, 1 failed write or crash, 5
  diffs (no SQL file, one statement, a refused one, a blank file beside a
  statement, two statements). Two reviews are a first and a second one of the same
  identifier, two runs of `pipeline` in one directory, or a reader and a writer
  with `propose-candidate`.
- *Diagnosis*: 6 pairs of plans (a better key, another join order, branches, a
  missing estimate, no change, other tables), 2 snapshots, 1 index, 5 commands:
  the four that bind needs, and one that rewrites a report.
- *Knowledge*: 3 requests, 2 scopes, 2 documents, 3 contents of ten, five and
  two runes, `MaxRunes` 4, `Overlap` 3, `Capacity` 5, `MaxChunks` 4, `TopK` 2, 1
  error, and as `Strays` the first chunks of two versions of a document in each
  scope. The long content has line ends, a blank chunk and overlaps; two long
  documents do not fit; three requests are two writers and a question.
- *Priors*: 2 jobs of which one touches a table the caller may not see, 2 relays,
  1 attempt, 2 versions, times up to 2, 1 loss: enough for a stale relay beside
  the current one, for expiry, and for a second attempt that must not happen.

Requests are symmetric, and one permutation swaps reviews, scopes and relays
together. No fairness is assumed in either run: what is checked is safety.

## 14. Proofs

### Job workflow

For all jobs, workers, relays, `MaxAttempts`, `BatchSize` and bounds, from the
three assumptions of `JobQueue` (`MaxAttempts` and `BatchSize` positive, bounds
natural numbers), TLAPS checks:

| Theorem | Property |
|---|---|
| `TypeCorrect`, `InvariantCorrect` | `TypeOK`, `IInv` |
| `RunsAreBounded` | `RunsBounded` |
| `CompletedJobsHaveReports` | `CompletedHasReport` |
| `DeadLettersAreExhausted` | `DeadLetterExhausted` |
| `NoJobIsLost` | `NoLostJob` |
| `TerminalJobsAreFrozen` | `TerminalFrozen` |
| `ClaimsAreDistinct` | claims that have not run yet are distinct and new |
| `WorkflowKeepsPromise` | `PromiseKept` |

None of the safety properties is inductive. `IInv` adds: rows and messages are
numbered without gaps (`Numbered`), so a new one is new to every process; what a
`Handle` call remembers bounds its job from below (`Remembered`: its token and
the attempt number it read are no larger than `attempts`, an outcome "ok" means
a stored report); only the first `MaxAttempts` claims run (`Admitted`); and
`Wakeable`, which strengthens `NoLostJob`: some row no relay is about to mark, or
some message no worker is about to commit. The proof takes one step per group of
actions that leave the same variables alone (`JobQueueProofs`, section comments).

The refinement needs one fact more, `DistinctClaims`: the claims held by workers
that have not reached the Runner are pairwise distinct and new to it, so the
step to the Runner maps to `Run` of a fresh try. `JobQueueProofs` maps each
action to a step of `JobPromise` or to a stutter.

### Comment publisher

For all finite sets of jobs, all publishers, batch sizes and bounds:
`TypeCorrect`, `InvariantCorrect`, `AtMostOneComment` (`OneComment`),
`PublishedMeansPosted` (`PublishedHasComment`) and `OutcomesStand`
(`DecisionStands`); `CommentsAreTrue` joins the middle two, as the run checks them.
`OneComment` needs two more facts: while no lock connection
was dropped, whoever works holds the lock, alone (`Exclusive`); and what the
marker search found is still so, since nobody else can post (`Searched`). The
jobs are finite because `First` must pick an oldest item and `Oldest` counts.

### Approvals

For all jobs, clients, reports, deliveries and bounds, from `None` being no
value of the others: `TypeCorrect`, `InvariantCorrect`, `ApprovalsAreCurrent`,
`DecisionsAreAudited`, `ConfirmedDecisionsHold`, `BenchmarksAreApproved` and
`DecisionsStand`; `DecisionsAreKept` joins the two about audit and confirmation.
The invariant adds `Checked`: a request that saw the job
completed and passed the report's checks still would, because both are frozen;
whoever is about to commit holds the row lock of an undecided job.

### Intake

For all finite sets of identifiers, all contents, posts, deliveries, listings,
requests and bounds, with no assumption on the identifiers of statements:
`TypeCorrect`, `InvariantCorrect`, `BacklogIsBounded`, `AcceptedIsStored`,
`ConflictsDiffer`, and `FullIsForNew` for the action property; `RepliesAreTrue`
joins the two about answers. The invariant adds `Serialized`: between its lookup
and its commit a request holds the guard row, so the room it saw is still there
(jobs that end only add to it); and `Progress`: the inputs a request has passed
are stored with its contents. The proof treats one request at a time: `Bystander`
shows that the others keep their part, `IInvInsert` that the INSERT keeps the
counts.

### Verifier

For all jobs, slots and bounds and every finite set of tries, from the
assumptions of `Tries` and `VerifierRPC` (each try has a job, `None` is no try):
`InvariantCorrect` (`VInv`), `TypeCorrect`, `OneRunner` (`OneRunPerJob`),
`CompletedJobsAreReported` (`CompletedByItsRun`) and `RemoteRunnerCorrect`
(`RemoteRunnerKept`). `OneRunPerJob` follows once calls are known to go through
their places in order (`Called`) and enlisted calls to have different jobs
(`OneEnlisted`); neither looks at leases. `CompletedByItsRun` needs that
"completed" is said only of a stored report (`Told`), and `Referred`: a claim that
still holds the lease found itself in the row, and a report stored under a lease
gives way only to others stored under the same one while that lease holds. So a
claim that completes a job has stored a report itself, and the one that is kept
was stored under its lease. Slots are counted by the cardinality of `Inside`,
which is why the tries must be finite.

The refinement has one step per kind of change to `RemoteStage`: a claim begins
the run, `Store` stores, and a call that ends (`CallEnds`) or a lease that ends
(`LeaseGone`) returns from the run, loses it, or leaves it running because the
other one is still there. Everything the server does in between is a stutter.

### Shadow sessions

For all sessions, connections, jobs and bounds, from `ShadowAssumption` and
`TriesAssumption` (each session has a job, `None` is no session and no
connection), `ShadowSessionProofs` has `ShadowTyped`, `PooledStayClean`
(`PooledAreClean`), `OwnIndexOnly` (`OnlyOwnIndex`), `SuccessIsClean`
(`SuccessLeavesNothing`), `ClaimsOnSnapshot` (`EvidenceOnSnapshot`) and
`ShadowKeepsPromise` (`RunnerKept`).

None is inductive; `ShadowInv` is built up in layers, each using those before:

1. `Wired`: a session has its connection to itself, and while it lives it holds
   the lock from `GET_LOCK` to the end (`Pooled`); a CREATE INDEX that the server
   may still execute keeps the lock on the connection its client has left
   (`Delayed`). So at most one living session is past `GET_LOCK`, and then nothing
   is late (`Exclusive`).
2. `Known`: what that session has seen of the indexes is still so - all of them
   listed, none left, or only its own.
3. `Tidy`: an index session that has met no failure has dropped its index by the
   time it gives back the connection, and no statement of it is late.
4. `Dated`: data versions only grow, so what was read is no older than the
   snapshot at the start and no newer than a side is now. When the snapshot at
   the end equals the first, everything in between is that snapshot
   (`SnapshotSeen`), which is `Claims`.

Most steps touch one session; `Bystander` and `Aside` show that they leave what
the invariant says of the others alone. The refinement maps the first step of a
session to the start of a run, `Save` to the store, and its end to a return.

### Experiments

For all runs, workers, deadlines and bounds, from `ExperimentsAssumption`
(`Deadline <= OrphanAge`, 2 and 5 minutes in the code): `ExperimentsTyped`,
`LiveTablesStay` (`NeverSweptAlive`), `OverlapsReportOnce`
(`OneReportPerOverlap`), `ReportsLeaveNothing` (`ReportLeavesNothing`) and
`ReportsAreSound` (`ReportSound`).

`LiveTablesStay` rests on `Dated`: a time in a comment is no older than its run,
so what counts as a leftover, and is listed to be dropped, belongs to a run whose
deadline has passed - the assumption is used here and nowhere else.
`OverlapsReportOnce` rests on `Ordered` and `Apart`: of two runs that were between
sweep and last snapshot together one is without its connection, and it cannot get
another. `Measured` keeps what a comparison saw within its snapshot, and an
import during a measurement above it.

### Measurement

For all seeds, files, sets of times and bounds, from `MeasurementAssumption` (at
least two calibration rounds and one measured, as the flags of `bench` demand):
`MeasurementInvariant`, `MeasurementTypeCorrect`, `ReportsAreFair`
(`ReportsFair`) and `StatisticsAreSound` (`StatsSound`).

`ReportsFair` is not inductive. `SamplesKept` counts the executions of a bench at
each of its places, and knows that it goes through rounds baseline first.
`DataKept` ties digests to data: as long as no seed has run, what has been hashed
of a side is the beginning of its rows, a digest that was compared is all of
them, and every sample was taken on them. `FilesKept` keeps reports as they were
written. A first form of `ReportsFair` compared the seeds of both sides; the proof
failed for tables that are still empty, which hash alike, and one seeding per
behaviour had kept that case from the run.

`StatsSound` needs facts about sorting: every sequence of numbers has a sorted
permutation (`Sortable`), whose n-th element has n - 1 others no larger
(`SortedSamples`), so the median has half of the samples on either side
(`MedianInMiddle`), and mirroring the samples mirrors it (`MedianMirrored`).

### Historical priors

For all finite sets of jobs, all relays, tables and bounds, from
`PriorsAssumption`: `PriorsTypeCorrect` and `PriorsAreSound` (`PriorsSound`).
`OneDocument` says that whatever is known of a job anywhere - its row, the index,
the items a relay has read, however stale - is one document; without it a relay
that lost its lock could undo what a newer one has put. `Locked` says that the
relay with the lock has rows before it that nobody else tries, which bounds the
attempts; `Sent`, that a document is in the index once a relay knows it is.

### The knowledge assistant

For all requests, scopes, documents, contents of any length and bounds, from
`KnowledgeAssumption` (`Overlap < MaxRunes`): `KnowledgeInvariant`,
`KnowledgeTypeCorrect`, `StoreIsConsistent` (`StoreAgrees`) and `AnswersAreCited`
(`AnswersCited`).

`LocksHeld` derives exclusion from shared and exclusive locks: whoever counts or
writes has the scope's row to itself. So what it counted still holds when it
writes, which `StoreKept` says of a writer about to write. `Wanted` and
`FoundInScope` are what a request carries. That what the MySQL store found was
stored at once holds at the SELECT, where the log replays to the table
(`TablesAgree`), and stays true because audit logs only grow (`LogGrows`,
`StoredStays`). Nothing is assumed of `Strays` but that they are finitely many
chunks. That the chunks of a document cover it
is about `ChunkDocument` alone, for every content, chunk size and overlap: its
recursion ends because a start only grows, and from every start on the chunks
cover what is visible (`ChunksHold`).

### Local reviews and proposals

For all reviews, directories, sets of diffs of any length and bounds, from
`ReviewAssumption`: `ReviewInvariant`, `ReviewTypeCorrect`,
`FilesAreNeverRewritten` (`NeverRewritten`), `AnswersAreOnDisk` (`AnswersOnDisk`),
`SummariesAreTrue` (`SummaryTrue`) and `ProposalsAreTraceable`
(`ProposalTraceable`).

All but `AnswersAreOnDisk` say "unless contested" of the files of two runs; the
proofs show that nothing but two runs past the same check makes them so. The
invariant joins what a review remembers with what is on disk. `Stepped`: the
stages it has noted are the first k, and those are there and no others.
`Untouched`: the file it is at, and those after it, are empty, which is why no
write can change a file. `OwnDirectories` and `OwnFiles`: nobody else writes where
it writes or has answered. `Outcome` and `Answered`: a report says completed
exactly when nothing is missing. `DirectoryKept` and `SourcesKept` say the same of
a directory whose writer is gone, and of the files a proposal has read.

### Plans, hypotheses and bound evidence

For all pairs of plans of any size, snapshots, indexes and bounds, from
`DiagnosisAssumption` (branches are finite sequences of entries, estimates are
numbers or unknown): `DiagnosisInvariant`, `DiagnosisTypeCorrect`,
`EvidenceIsNotMixed` (`BoundTogether`) and `HypothesesAreSound`
(`HypothesesSound`).

`BindingKept` holds what `bind-evidence` has read while the files go on changing;
`Judged` says that a series names the path of a measurement it has judged, and
admits only an eligible one. With the two, `EvidenceIsNotMixed` follows from the
comparisons of `IdentityComplete`.
`HypothesesAreSound` says that Go's random map order does not matter. A walk, in
whatever order, meets every entry of a plan exactly once (`WalkVisits`), and a sum
does not depend on the order of its terms (`SumPermuted`); so the total of a walk
is that of the plan (`RowsOfWalk`), and comparable walks are over the same tables
as often (`SameTables`).

### How recursion is reasoned about

Sums, sorting, chunks and walks are recursive functions over data. The induction
theorems of the library take an operator as their parameter, which the installed
provers cannot instantiate. These proofs take the least counterexample instead
(`LeastNumber`, from the well-foundedness of `<` on the naturals, whose parameter
is a relation) and show that there is a smaller one or none; existence of the
functions is proved the same way, one argument at a time (`SumExists`,
`JoinedExists`).

### What TLC runs and what is proved

`MCTools` and `MCEvidence` run parts that share nothing. `ToolsArePartsOfIt` and
`EvidenceIsPartsOfIt` show that their behaviours are behaviours of the parts, so
the theorems hold of what TLC explores; `ToolsTypeCorrect` and
`EvidenceTypeCorrect` join the types.

The two kinds of check found different things: TLC the wrong forms of invariants
on small instances, the proofs those that only a larger instance would break (an
empty table in `ReportsFair`, a chunk within a chunk in `StoreAgrees`, a median
of 0 in `StatsSound`); each is corrected in the property.

### Only model-checked

Liveness, since TLAPS has no rules for fairness and ENABLED: `EventuallyOver`,
`EveryJobDecided`, `GuardFreed`, `LockFreed`, `SlotFreed`. Every other property
of a passing run is a theorem.

## 15. Not modelled

- **In-memory store** (`kafka/store.go`): a test double behind one mutex.
- **Identity and sessions**: each operation is one statement on one row.
- **Statement and patch scanners, SQL admission, candidate specifications**:
  functions from text to a decision; the models take the decision.
- **Quarantine**: one INSERT for a message that cannot be decoded, which the
  store's own outbox never produces.
- **`RetryDelay`**: a pure function of the attempt; `JobQueue` takes every delay
  as possible, so no property depends on its value.
- **`evaluation.go`**: scores fixed answers in one sequential pass.
- **RAG**: expiry of chunks, ranking, the in-memory vector store.
- **AgentMesh**: the asynchronous hand-over is set by no command; the bridge is one
  request to a service outside the repository.
- **`DraftBounded`**: a Runner drafts proposals with a graph (`agentgraph/bounded.go`) that repeats
  the loop of the command; only the loop is modelled.
- **Telemetry, configuration, migrations, web console, scripts**: sequential input
  and output.

Known gaps, which are in the code and which no property covers:

- The audit listing pages by identifier while rows are being written; one whose
  transaction commits after a row with a larger identifier was listed is passed
  over by a client that goes on from there (`extension.go:217`).
- The limit of 20 statements is counted over one copy of a webhook event
  (`github.go:120`, `:160`), and each copy lists the changes anew. Once the base
  branch has moved, two copies may store more than 20 jobs together, although
  `docs/backend-release.md:39` gives the limit for an event.
- A seed that truncates and refills both sides while they are hashed can leave
  the same mixture of old and new rows in both digests: the gate passes, and the
  report names a digest of data that no side ever held (`snapshot/compare.go:33`,
  `measure/gate.go:70`).
- Two `pipeline` commands may find one directory empty before either has written
  (`pipeline.go:250`); both then complete although each has overwritten files of
  the other, against `specs/012-readonly-evidence-pipeline/spec.md:31`.
- A series names the measurement it judged by a path and no digest
  (`series/admission.go:21-27`, `bind.go:129`). After another `bench` at that path
  `bind-evidence` binds a hypothesis with a verdict on the earlier measurement,
  which may be on other data, and which the one it reads need not deserve.
- A pull request with 2000 comments can get no other comment, and is refused in
  every call (`comments.go:130`).
- Two different statements that begin on one line share an identifier, so the
  second is never stored, and every copy of the event ends there (`github.go:164`).
- `pipeline` explains the baseline after the gate has compared the snapshots, and
  nothing keeps an import out in between (`cmd/sentinel/pipeline.go:82`).
- A schema that was created but never stamped is swept by nobody
  (`compare.go:173`).
- A write probe never looks at its lock connection again, so two probes may
  measure at the same time (`probe.go:82`).
- Calibrations of a series must differ in their paths only
  (`series/admission.go:44`), so copies of one report make a series.
