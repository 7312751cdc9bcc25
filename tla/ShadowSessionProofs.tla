------------------------- MODULE ShadowSessionProofs -------------------------
(***************************************************************************)
(* Proofs about ShadowSession, for any jobs, sessions, connections and     *)
(* bounds: a measurement finds its own index only, pooled connections are  *)
(* clean, a success leaves nothing, and a claim is about one snapshot.     *)
(***************************************************************************)
EXTENDS ShadowSession, TLAPS

Reads == BaselineReads \cup CandidateReads

\* The reads that follow the first snapshots.
Settled == Reads \ {"snapshotB", "snapshotC"}

\* The places of a rewrite only, and of an index only.
RewritePlaces == {"queriesB", "queriesC", "afterB", "afterC"}
IndexPlaces == {"create", "explain", "probe", "probed"}

Placed ==
    \A s \in Sessions :
        /\ pc[s] \in RewritePlaces => IsRewrite(s)
        /\ pc[s] \in IndexPlaces => ~IsRewrite(s)

Held == lock.conn # None => lock.depth > 0

SessionStep(s) ==
    Connect(s) \/ Work(s) \/ Break(s) \/ StepFails(s) \/ Save(s) \/ SaveRefused(s)

\* The steps that only read a side.
ReadStep(s) ==
    \/ SnapshotBaseline(s) \/ Explain(s) \/ QueriesBaseline(s) \/ QueriesCandidate(s)
    \/ ResultBaseline(s) \/ ResultCandidate(s) \/ SampleBaseline(s) \/ SampleCandidate(s)
    \/ RecheckBaseline(s) \/ RecheckCandidate(s) \/ AfterBaseline(s)

\* The two that compare snapshots.
CompareStep(s) == SnapshotCandidate(s) \/ AfterCandidate(s)

\* The steps on the candidate.
ShadowStep(s) ==
    \/ GetLock(s) \/ LockBusy(s) \/ List(s) \/ DropIndex(s) \/ CreateIndex(s)
    \/ CreateProbe(s) \/ DropProbe(s) \/ Release(s)

LEMMA Steps ==
    ASSUME [ShadowNext]_shadowVars
    PROVE  \/ Environment \/ UNCHANGED shadowVars
           \/ \E s \in Sessions : SessionStep(s)
           \/ \E S \in SUBSET Sessions : Crash(S)
  BY DEF ShadowNext, SessionStep

LEMMA SessionSteps ==
    ASSUME NEW s, SessionStep(s)
    PROVE  \/ Connect(s) \/ Break(s) \/ StepFails(s) \/ Save(s) \/ SaveRefused(s)
           \/ ReadStep(s) \/ CompareStep(s) \/ ShadowStep(s)
  BY DEF SessionStep, Work, ReadStep, CompareStep, ShadowStep

\* Where a read leads to.
Leads(s, place, next) ==
    \/ place = "snapshotB" /\ next = "snapshotC"
    \/ /\ place \in Settled
       /\ \/ next \in Settled \ {"queriesB", "explain"}
          \/ next \in {"probe", "relist"} /\ ~IsRewrite(s)
       /\ next \in RewritePlaces => IsRewrite(s)

LEMMA Reading ==
    ASSUME ShadowTypeOK, Placed, NEW s \in Sessions, ReadStep(s)
    PROVE  \E place \in Reads, found \in Evidence, next \in Places :
              Read(s, place, found, next) /\ Leads(s, place, next)
  <1>. DEFINE Goal == \E place \in Reads, found \in Evidence, next \in Places :
                         Read(s, place, found, next) /\ Leads(s, place, next)
  <1>0. /\ evidence[s] \in Evidence
        /\ \A side \in Sides : version[side] \in Nat /\ Queried(s, side) \in Evidence
        /\ Noted(s) \in Evidence
    <2>1. evidence[s] \in Evidence /\ \A side \in Sides : version[side] \in Nat
      BY DEF ShadowTypeOK
    <2>2. ASSUME NEW side \in Sides  PROVE Queried(s, side) \in Evidence
      <3>1. CASE side = "baseline"
        BY <2>1, <3>1 DEF Evidence, Queried
      <3>2. CASE side # "baseline"
        BY <2>1, <3>2 DEF Evidence, Queried
      <3>. QED  BY <3>1, <3>2
    <2>3. Noted(s) \in Evidence
      BY <2>1 DEF Evidence, Noted, Sides
    <2>. QED  BY <2>1, <2>2, <2>3
  <1>. USE DEF Reads, Settled, RewritePlaces, IndexPlaces, BaselineReads, CandidateReads,
           CandidatePlaces, Places, Leads
  <1>1. CASE SnapshotBaseline(s)
    <2>. DEFINE found == [evidence[s] EXCEPT !.digest = version["baseline"]]
    <2>1. found \in Evidence
      BY <1>0 DEF Evidence, Sides
    <2>2. Read(s, "snapshotB", found, "snapshotC")
      BY <1>1 DEF SnapshotBaseline
    <2>. HIDE DEF found
    <2>. QED  BY <2>1, <2>2
  <1>2. CASE Explain(s)
    <2>. DEFINE next == IF IsBenchmark(s) THEN "resultB" ELSE "relist"
    <2>1. Read(s, "explain", evidence[s], next)
      BY <1>2 DEF Explain
    <2>2. ~IsRewrite(s)
      BY <2>1 DEF Read, At, Placed
    <2>3. next \in {"resultB", "relist"}
      OBVIOUS
    <2>. HIDE DEF next
    <2>. QED  BY <1>0, <2>1, <2>2, <2>3
  <1>3. CASE QueriesBaseline(s)
    <2>1. Read(s, "queriesB", Queried(s, "baseline"), "queriesC")
      BY <1>3 DEF QueriesBaseline
    <2>2. IsRewrite(s)
      BY <2>1 DEF Read, At, Placed
    <2>. QED  BY <1>0, <2>1, <2>2 DEF Sides
  <1>4. CASE QueriesCandidate(s)
    <2>1. PICK same \in BOOLEAN :
             Read(s, "queriesC", [Queried(s, "candidate") EXCEPT !.equal = same],
                  IF same /\ IsBenchmark(s) THEN "resultB" ELSE "afterB")
      BY <1>4 DEF QueriesCandidate
    <2>2. IsRewrite(s)
      BY <2>1 DEF Read, At, Placed
    <2>. DEFINE found == [Queried(s, "candidate") EXCEPT !.equal = same]
    <2>3. found \in Evidence
      BY <1>0 DEF Evidence, Sides
    <2>. DEFINE next == IF same /\ IsBenchmark(s) THEN "resultB" ELSE "afterB"
    <2>4. Read(s, "queriesC", found, next)
      BY <2>1
    <2>5. next \in {"resultB", "afterB"}
      OBVIOUS
    <2>. HIDE DEF found, next
    <2>. QED  BY <2>2, <2>3, <2>4, <2>5
  <1>5. CASE ResultBaseline(s)
    BY <1>0, <1>5 DEF ResultBaseline, Sides
  <1>. DEFINE after == Measured(s)
  <1>6. after \in {"afterB", "probe"} /\ (after = "afterB" <=> IsRewrite(s))
    BY DEF Measured
  <1>. HIDE DEF after
  <1>7. CASE ResultCandidate(s)
    <2>1. PICK same \in BOOLEAN :
             Read(s, "resultC", Queried(s, "candidate"), IF same THEN "sampleB" ELSE after)
      BY <1>7 DEF ResultCandidate, after
    <2>. DEFINE next == IF same THEN "sampleB" ELSE after
    <2>2. next = "sampleB" \/ next = after
      OBVIOUS
    <2>3. Read(s, "resultC", Queried(s, "candidate"), next)
      BY <2>1
    <2>. HIDE DEF next
    <2>4. next \in {"sampleB", "afterB", "probe"}
             /\ (next = "afterB" => IsRewrite(s)) /\ (next = "probe" => ~IsRewrite(s))
      BY <1>6, <2>2
    <2>5. Queried(s, "candidate") \in Evidence
      BY <1>0 DEF Sides
    <2>6. Leads(s, "resultC", next) /\ next \in Places
      BY <2>4
    <2>. QED  BY <2>3, <2>5, <2>6
  <1>8. CASE SampleBaseline(s)
    BY <1>0, <1>8 DEF SampleBaseline, Sides
  <1>9. CASE SampleCandidate(s)
    <2>1. PICK admitted \in BOOLEAN :
             Read(s, "sampleC", [Queried(s, "candidate") EXCEPT !.level2 = admitted], "recheckB")
      BY <1>9 DEF SampleCandidate
    <2>. DEFINE found == [Queried(s, "candidate") EXCEPT !.level2 = admitted]
    <2>2. found \in Evidence
      BY <1>0 DEF Evidence, Sides
    <2>3. Read(s, "sampleC", found, "recheckB")
      BY <2>1
    <2>. HIDE DEF found
    <2>. QED  BY <2>2, <2>3
  <1>10. CASE RecheckBaseline(s)
    BY <1>0, <1>10 DEF RecheckBaseline
  <1>11. CASE RecheckCandidate(s)
    <2>. DEFINE found == [evidence[s] EXCEPT !.level2 = @ /\ Unchanged(s)]
    <2>1. found \in Evidence
      BY <1>0 DEF Evidence, Unchanged
    <2>2. Read(s, "recheckC", found, after)
      BY <1>11 DEF RecheckCandidate, after
    <2>. HIDE DEF found
    <2>3. Leads(s, "recheckC", after) /\ after \in Places
      BY <1>6
    <2>. QED  BY <2>1, <2>2, <2>3
  <1>12. CASE AfterBaseline(s)
    <2>1. Read(s, "afterB", Noted(s), "afterC")
      BY <1>12 DEF AfterBaseline
    <2>2. IsRewrite(s)
      BY <2>1 DEF Read, At, Placed
    <2>. QED  BY <1>0, <2>1, <2>2
  <1>. QED  BY <1>1, <1>2, <1>3, <1>4, <1>5, <1>7, <1>8, <1>9, <1>10, <1>11, <1>12
       DEF ReadStep

\* A session's step touches no other session, nor the data.
LEMMA Others ==
    ASSUME ShadowTypeOK, Placed, NEW s \in Sessions, SessionStep(s)
    PROVE  /\ \A t \in Sessions \ {s} :
                 /\ pc'[t] = pc[t] /\ conn'[t] = conn[t] /\ names'[t] = names[t]
                 /\ evidence'[t] = evidence[t] /\ outcome'[t] = outcome[t]
           /\ version' = version
           /\ saved \subseteq saved' /\ saved' \subseteq saved \cup {s}
  <1>. USE DEF ShadowTypeOK, serverVars, localVars, At, Advance, Fail
  <1>1. CASE Connect(s) \/ Save(s) \/ SaveRefused(s)
    BY <1>1 DEF Connect, Save, SaveRefused
  <1>2. CASE Break(s)
    BY <1>2 DEF Break
  <1>3. CASE StepFails(s)
    BY <1>3 DEF StepFails
  <1>4. CASE ReadStep(s)
    BY <1>4, Reading DEF Read
  <1>5. CASE CompareStep(s)
    BY <1>5 DEF CompareStep, SnapshotCandidate, AfterCandidate
  <1>6. CASE ShadowStep(s)
    <2>1. CASE List(s)
      BY <2>1 DEF List
    <2>2. CASE DropIndex(s)
      BY <2>2 DEF DropIndex
    <2>3. CASE ~List(s) /\ ~DropIndex(s)
      BY <1>6, <2>3 DEF ShadowStep, GetLock, LockBusy, CreateIndex, CreateProbe, DropProbe,
         Release
    <2>. QED  BY <2>1, <2>2, <2>3
  <1>. QED  BY <1>1, <1>2, <1>3, <1>4, <1>5, <1>6, SessionSteps

-----------------------------------------------------------------------------
(* Types *)

Types == ShadowTypeOK /\ Held /\ Placed

LEMMA TypeInit == ShadowInit => Types
  BY ShadowAssumption DEF ShadowInit, Types, ShadowTypeOK, Held, Placed, ConnStates, Places,
     Evidence, NoEvidence, ShadowOutcomes, Sides, RewritePlaces, IndexPlaces

\* What the server does to its lock.
LEMMA LockTyped ==
    ASSUME ShadowTypeOK, Held, NEW c \in Conns
    PROVE  /\ Unlocked(c) \in [conn: Conns \cup {None}, depth: Nat]
           /\ Unlocked(c).conn # None => Unlocked(c).depth > 0
           /\ Unlocked(c).conn # c
           /\ Unlocked(c).conn \in {lock.conn, None}
           /\ lock.conn # c => Unlocked(c) = lock
  BY ShadowAssumption DEF ShadowTypeOK, Held, Unlocked

LEMMA EnvironmentTyped ==
    ASSUME Types, Environment
    PROVE  Types'
  <1>. USE ShadowAssumption
  <1>. USE DEF Types, serverVars, localVars
  <1>1. UNCHANGED <<pc, conn, localVars, outcome, saved>> /\ faults' \in Nat
    BY DEF Environment, ServerNotices, Retire, ConnDies, Edit, Fault, ShadowTypeOK
  <1>2. version' \in [Sides -> Nat]
    <2>1. CASE \E side \in Sides : Edit(side)
      BY <2>1 DEF Edit, Versions, ShadowTypeOK
    <2>2. CASE ~\E side \in Sides : Edit(side)
      BY <2>2 DEF Environment, ServerNotices, Retire, ConnDies, ShadowTypeOK
    <2>. QED  BY <2>1, <2>2
  <1>3. /\ lock' \in [conn: Conns \cup {None}, depth: Nat] /\ Held'
        /\ conns' \in [Conns -> ConnStates] /\ probes' \subseteq Conns
        /\ late' \in [Conns -> Sessions \cup {None}] /\ indexes' \subseteq Sessions
    <2>1. CASE \E side \in Sides : Edit(side)
      BY <2>1 DEF Edit, ShadowTypeOK, Held
    <2>2. CASE \E c \in Conns : ServerNotices(c) \/ Retire(c) \/ ConnDies(c)
      <3>1. PICK c \in Conns : ServerNotices(c) \/ Retire(c) \/ ConnDies(c)
        BY <2>2
      <3>2. /\ \E left \in ConnStates : EndConnection(c, left)
            /\ late' = [late EXCEPT ![c] = None] \/ late' = late
            /\ indexes' = indexes \/ \E landed \in SUBSET ({late[c]} \ {None}) :
                                        indexes' = indexes \cup landed
        BY <3>1 DEF ServerNotices, Retire, ConnDies, ConnStates
      <3>3. late' \in [Conns -> Sessions \cup {None}] /\ indexes' \subseteq Sessions
        BY <3>2 DEF ShadowTypeOK
      <3>4. lock' = Unlocked(c) /\ probes' = probes \ {c} /\ conns' \in [Conns -> ConnStates]
        BY <3>2 DEF EndConnection, ShadowTypeOK
      <3>5. lock' \in [conn: Conns \cup {None}, depth: Nat] /\ Held'
        BY <3>4, LockTyped DEF Held
      <3>. QED  BY <3>3, <3>4, <3>5 DEF ShadowTypeOK
    <2>. QED  BY <2>1, <2>2 DEF Environment
  <1>. QED  BY <1>1, <1>2, <1>3 DEF ShadowTypeOK, Placed

LEMMA SessionTyped ==
    ASSUME Types, NEW s \in Sessions, SessionStep(s)
    PROVE  Types'
  <1>. USE ShadowAssumption
  <1>. USE DEF Types, serverVars, localVars, Advance, Fail
  <1>0. version' = version
    BY Others
  <1>. DEFINE Free(t) == {"idle", "end", "crashed"} \cup (IF IsRewrite(t) THEN {} ELSE {"save"})
  <1>1. ASSUME /\ pc'[s] \in Places
               /\ pc'[s] \in RewritePlaces => IsRewrite(s)
               /\ pc'[s] \in IndexPlaces => ~IsRewrite(s)
               /\ conn'[s] = None <=> pc'[s] \in Free(s)
               /\ pc' \in [Sessions -> Places] /\ conn' \in [Sessions -> Conns \cup {None}]
        PROVE  /\ Placed'
               /\ \A t \in Sessions : conn'[t] = None <=> pc'[t] \in Free(t)
    <2>1. \A t \in Sessions \ {s} : pc'[t] = pc[t] /\ conn'[t] = conn[t]
      BY Others
    <2>2. \A t \in Sessions : conn[t] = None <=> pc[t] \in Free(t)
      BY DEF ShadowTypeOK
    <2>. HIDE DEF Free
    <2>. QED  BY <1>1, <2>1, <2>2 DEF Placed
  <1>2. ASSUME /\ indexes' \subseteq Sessions
               /\ lock' \in [conn: Conns \cup {None}, depth: Nat] /\ Held'
               /\ conns' \in [Conns -> ConnStates]
               /\ late' \in [Conns -> Sessions \cup {None}]
               /\ probes' \subseteq Conns
               /\ pc' \in [Sessions -> Places]
               /\ conn' \in [Sessions -> Conns \cup {None}]
               /\ names' \in [Sessions -> SUBSET Sessions]
               /\ evidence' \in [Sessions -> Evidence]
               /\ outcome' \in [Sessions -> ShadowOutcomes]
               /\ saved' \subseteq Sessions
               /\ faults' \in Nat
               /\ pc'[s] \in RewritePlaces => IsRewrite(s)
               /\ pc'[s] \in IndexPlaces => ~IsRewrite(s)
               /\ conn'[s] = None <=> pc'[s] \in Free(s)
        PROVE  Types'
    BY <1>0, <1>1, <1>2 DEF ShadowTypeOK
  <1>. USE DEF Places, CandidatePlaces, CandidateReads, BaselineReads, RewritePlaces,
           IndexPlaces, ConnStates, ShadowOutcomes
  <1>3. CASE Connect(s)
    BY <1>2, <1>3 DEF Connect, ShadowTypeOK, Held
  <1>4. CASE Break(s)
    <2>1. conn[s] \in Conns
      BY <1>4 DEF Break, ShadowTypeOK
    <2>2. lock' \in [conn: Conns \cup {None}, depth: Nat] /\ Held'
      BY <1>4, <2>1 DEF Break, ShadowTypeOK, Held
    <2>3. /\ late' \in [Conns -> Sessions \cup {None}]
          /\ conns' \in [Conns -> ConnStates]
          /\ faults' \in Nat
          /\ outcome' \in [Sessions -> ShadowOutcomes]
      BY <1>4, <2>1 DEF Break, ShadowTypeOK, Fault
    <2>4. Disconnected(s) \in {"end", "save"} /\ (Disconnected(s) = "save" => ~IsRewrite(s))
      BY DEF Disconnected
    <2>5. /\ pc[s] \in CandidatePlaces /\ saved' = saved /\ UNCHANGED <<version, indexes>>
          /\ pc' = [pc EXCEPT ![s] = Disconnected(s)] /\ conn' = [conn EXCEPT ![s] = None]
      BY <1>4 DEF Break, Advance
    <2>6. /\ names' \in [Sessions -> SUBSET Sessions] /\ evidence' \in [Sessions -> Evidence]
          /\ indexes' \subseteq Sessions /\ probes' \subseteq Conns
      BY <1>4 DEF Break, ShadowTypeOK
    <2>7. /\ pc' \in [Sessions -> Places] /\ pc'[s] = Disconnected(s)
          /\ conn' \in [Sessions -> Conns \cup {None}] /\ conn'[s] = None
          /\ saved' \subseteq Sessions
      BY <2>4, <2>5 DEF ShadowTypeOK
    <2>8. conn'[s] = None <=> pc'[s] \in Free(s)
      BY <2>4, <2>7
    <2>. QED  BY <1>2, <2>2, <2>3, <2>4, <2>6, <2>7, <2>8
  <1>5. CASE StepFails(s)
    <2>1. pc[s] \in BaselineReads \cup CandidateReads \cup {"list", "drop", "create", "relist", "redrop"}
          /\ (pc' = [pc EXCEPT ![s] = "relist"] \/ pc' = [pc EXCEPT ![s] = "release"])
      BY <1>5 DEF StepFails, At
    <2>. QED  BY <1>2, <1>5, <2>1 DEF StepFails, Fault, ShadowTypeOK, Held
  <1>6. CASE Save(s)
    <2>1. PICK o \in Verdicts(s) : outcome' = [outcome EXCEPT ![s] = o]
      BY <1>6 DEF Save
    <2>2. o \in ShadowOutcomes
      BY DEF Verdicts
    <2>. QED  BY <1>2, <1>6, <2>1, <2>2 DEF Save, Saved, ShadowTypeOK, Held
  <1>7. CASE SaveRefused(s)
    BY <1>2, <1>7 DEF SaveRefused, Saved, ShadowTypeOK, Held
  <1>8. CASE ReadStep(s)
    <2>1. PICK place \in Reads, found \in Evidence, next \in Places :
             Read(s, place, found, next) /\ Leads(s, place, next)
      BY <1>8, Reading
    <2>. QED  BY <1>2, <2>1 DEF Read, At, Leads, Reads, Settled, ShadowTypeOK, Held, Placed
  <1>9. CASE CompareStep(s)
    <2>1. pc[s] \in {"snapshotC", "afterC"} /\ pc'[s] \in {"queriesB", "create", "relist", "save"}
          /\ (pc'[s] = "queriesB" \/ pc'[s] = "save" => IsRewrite(s))
          /\ (pc'[s] = "create" => ~IsRewrite(s))
          /\ pc' \in [Sessions -> Places]
      BY <1>9 DEF CompareStep, SnapshotCandidate, AfterCandidate, At, ShadowTypeOK, Placed
    <2>. QED  BY <1>2, <1>9, <2>1 DEF CompareStep, SnapshotCandidate, AfterCandidate,
              ShadowTypeOK, Held
  <1>10. CASE ShadowStep(s)
    <2>1. CASE GetLock(s)
      <3>1. conn[s] \in Conns
        BY <2>1 DEF GetLock, At, ShadowTypeOK
      <3>. QED  BY <1>2, <2>1, <3>1 DEF GetLock, At, ShadowTypeOK, Held
    <2>2. CASE LockBusy(s) \/ Release(s)
      <3>1. conn[s] \in Conns /\ lock' \in [conn: Conns \cup {None}, depth: Nat] /\ Held'
        BY <2>2 DEF LockBusy, Release, At, ShadowTypeOK, Held
      <3>. QED  BY <1>2, <2>2, <3>1 DEF LockBusy, Release, Disconnected, ShadowTypeOK
    <2>3. CASE List(s)
      <3>1. PICK place \in {"list", "relist"} :
               At(s, place) /\ Advance(s, IF indexes = {} THEN Cleaned(place) ELSE Drops(place))
        BY <2>3 DEF List
      <3>2. pc[s] \in {"list", "relist"}
            /\ pc'[s] \in {"snapshotB", "release", "drop", "redrop"}
            /\ pc' \in [Sessions -> Places]
        BY <3>1 DEF At, Cleaned, Drops, ShadowTypeOK
      <3>. QED  BY <1>2, <2>3, <3>2 DEF List, ShadowTypeOK, Held
    <2>4. CASE DropIndex(s)
      <3>1. PICK i \in names[s] :
               /\ indexes' = indexes \ {i}
               /\ names' = [names EXCEPT ![s] = @ \ {i}]
               /\ \E place \in {"drop", "redrop"} :
                     /\ At(s, place)
                     /\ Advance(s, IF names[s] = {i} THEN Cleaned(place) ELSE place)
        BY <2>4 DEF DropIndex
      <3>2. pc[s] \in {"drop", "redrop"}
            /\ pc'[s] \in {"snapshotB", "release", "drop", "redrop"}
            /\ pc' \in [Sessions -> Places]
        BY <3>1 DEF At, Cleaned, ShadowTypeOK
      <3>. QED  BY <1>2, <2>4, <3>1, <3>2 DEF DropIndex, ShadowTypeOK, Held
    <2>5. CASE CreateIndex(s)
      BY <1>2, <2>5 DEF CreateIndex, At, ShadowTypeOK, Held, Placed
    <2>6. CASE CreateProbe(s) \/ DropProbe(s)
      BY <1>2, <2>6 DEF CreateProbe, DropProbe, At, ShadowTypeOK, Held, Placed
    <2>. QED  BY <1>10, <2>1, <2>2, <2>3, <2>4, <2>5, <2>6 DEF ShadowStep
  <1>. QED  BY <1>3, <1>4, <1>5, <1>6, <1>7, <1>8, <1>9, <1>10, SessionSteps

LEMMA CrashTyped ==
    ASSUME Types, NEW S \in SUBSET Sessions, Crash(S)
    PROVE  Types'
  <1>. USE ShadowAssumption
  <1>. USE DEF Types, serverVars, localVars
  <1>1. late' \in [Conns -> Sessions \cup {None}]
    BY DEF Crash, ShadowTypeOK
  <1>2. conns' \in [Conns -> ConnStates]
    BY DEF Crash, ShadowTypeOK, ConnStates
  <1>3. /\ pc' \in [Sessions -> Places] /\ conn' \in [Sessions -> Conns \cup {None}]
        /\ names' \in [Sessions -> SUBSET Sessions] /\ faults' \in Nat
    BY DEF Crash, ShadowTypeOK, Places, Fault
  <1>4. \A s \in Sessions : IF s \in S THEN pc'[s] = "crashed" /\ conn'[s] = None
                            ELSE pc'[s] = pc[s] /\ conn'[s] = conn[s]
    BY DEF Crash
  <1>5. Placed' /\ \A s \in Sessions : conn'[s] = None <=>
          pc'[s] \in {"idle", "end", "crashed"} \cup (IF IsRewrite(s) THEN {} ELSE {"save"})
    BY <1>4 DEF Placed, ShadowTypeOK, RewritePlaces, IndexPlaces
  <1>. QED  BY <1>1, <1>2, <1>3, <1>5 DEF Crash, ShadowTypeOK, Held

LEMMA TypeStep == Types /\ [ShadowNext]_shadowVars => Types'
  <1>. SUFFICES ASSUME Types, [ShadowNext]_shadowVars  PROVE Types'
    OBVIOUS
  <1>1. CASE UNCHANGED shadowVars
    BY <1>1 DEF Types, ShadowTypeOK, Held, Placed, shadowVars, serverVars, localVars
  <1>. QED  BY <1>1, EnvironmentTyped, SessionTyped, CrashTyped, Steps

\* Every variable of the shadow sessions keeps its type, and a session has a
\* connection exactly from db.Conn to its return (runner.go:248).
THEOREM ShadowTyped == ShadowSpec => []ShadowTypeOK
  <1>1. ShadowSpec => []Types
    BY TypeInit, TypeStep, PTL DEF ShadowSpec
  <1>. QED  BY <1>1, PTL DEF Types

-----------------------------------------------------------------------------
(* Connections and the lock *)

\* A session has its connection to itself, holds the lock with it from GET_LOCK
\* to the end, and has the table of the write probe only while it probes.
Pooled ==
    /\ \A s, t \in Sessions : conn[s] # None /\ conn[s] = conn[t] => s = t
    /\ \A s \in Sessions : conn[s] # None =>
          /\ conns[conn[s]] \in {"used", "dead"}
          /\ pc[s] = "lock" => lock.conn # conn[s]
          /\ pc[s] # "lock" /\ conns[conn[s]] = "used" => lock.conn = conn[s]
          /\ pc[s] # "probed" => conn[s] \notin probes
    /\ \A c \in Conns : conns[c] \in {"idle", "closed", "dead"} => lock.conn # c /\ c \notin probes
    /\ lock.depth = IF lock.conn = None THEN 0 ELSE 1

\* A CREATE INDEX that may still be executed keeps the lock on its connection.
Delayed == \A c \in Conns : late[c] # None => conns[c] = "gone" /\ lock.conn = c

Wired == Types /\ Pooled /\ Delayed

LEMMA WiredInit == ShadowInit => Wired
  <1>. SUFFICES ASSUME ShadowInit  PROVE Pooled /\ Delayed
    BY TypeInit DEF Wired
  <1>. QED  BY ShadowAssumption DEF ShadowInit, Pooled, Delayed

LEMMA EnvironmentWired ==
    ASSUME Wired, Environment
    PROVE  Pooled' /\ Delayed'
  <1>. USE ShadowAssumption, TriesAssumption
  <1>. USE DEF Wired, Types, serverVars, localVars
  <1>1. UNCHANGED <<pc, conn>>
    BY DEF Environment, ServerNotices, Retire, ConnDies, Edit
  <1>2. CASE \E side \in Sides : Edit(side)
    BY <1>2 DEF Edit, Pooled, Delayed
  <1>3. ASSUME NEW c \in Conns, ServerNotices(c) \/ Retire(c) \/ ConnDies(c)
        PROVE  Pooled' /\ Delayed'
    <2>1. PICK left \in {"closed", "dead"} : EndConnection(c, left)
      BY <1>3 DEF ServerNotices, Retire, ConnDies
    <2>2. /\ conns[c] \in {"gone", "idle", "used"}
          /\ left = "dead" <=> conns[c] = "used"
      BY <1>3, <2>1 DEF ServerNotices, Retire, ConnDies, EndConnection, ShadowTypeOK
    <2>3. /\ lock' = Unlocked(c) /\ probes' = probes \ {c}
          /\ \A d \in Conns : conns'[d] = IF d = c THEN left ELSE conns[d]
      BY <2>1 DEF EndConnection, ShadowTypeOK
    <2>4. /\ lock'.conn # c /\ lock'.conn \in {lock.conn, None}
          /\ lock.conn # c => lock' = lock
      BY <2>3, LockTyped
    <2>5. \A s \in Sessions : conn[s] \in Conns \cup {None}
      BY DEF ShadowTypeOK
    <2>6. \A s \in Sessions : conn[s] # None =>
             /\ conns'[conn[s]] \in {"used", "dead"}
             /\ pc[s] = "lock" => lock'.conn # conn[s]
             /\ pc[s] # "lock" /\ conns'[conn[s]] = "used" => lock'.conn = conn[s]
             /\ pc[s] # "probed" => conn[s] \notin probes'
      <3>. TAKE s \in Sessions
      <3>. HAVE conn[s] # None
      <3>1. CASE conn[s] = c
        BY <2>2, <2>3, <2>4, <2>5, <3>1 DEF Pooled
      <3>2. CASE conn[s] # c
        BY <2>3, <2>4, <2>5, <3>2 DEF Pooled
      <3>. QED  BY <3>1, <3>2
    <2>7. \A d \in Conns : conns'[d] \in {"idle", "closed", "dead"} => lock'.conn # d /\ d \notin probes'
      BY <2>3, <2>4 DEF Pooled
    <2>8. lock'.depth = IF lock'.conn = None THEN 0 ELSE 1
      BY <2>3, <2>4 DEF Pooled, Unlocked
    <2>9. Pooled'
      BY <1>1, <2>6, <2>7, <2>8 DEF Pooled
    <2>10. \A d \in Conns : late'[d] = late[d] \/ late'[d] = None
      BY <1>3 DEF ServerNotices, Retire, ConnDies, ShadowTypeOK
    <2>11. conns[c] = "gone" => late'[c] = None
      BY <1>3 DEF ServerNotices, Retire, ConnDies, ShadowTypeOK
    <2>12. Delayed'
      <3>. SUFFICES ASSUME NEW d \in Conns, late'[d] # None
                    PROVE  conns'[d] = "gone" /\ lock'.conn = d
        BY DEF Delayed
      <3>1. conns[d] = "gone" /\ lock.conn = d
        BY <2>10 DEF Delayed
      <3>2. d # c
        BY <2>2, <2>11, <3>1
      <3>. QED  BY <2>3, <2>4, <3>1, <3>2
    <2>. QED  BY <2>9, <2>12
  <1>. QED  BY <1>2, <1>3 DEF Environment

\* What a session's step changes of connections and lock, when it keeps its
\* connection and neither takes the lock nor uses the write probe.
LEMMA Quiet ==
    ASSUME Wired, NEW s \in Sessions, SessionStep(s),
           UNCHANGED <<lock, conns, late, probes, conn>>,
           pc[s] \notin {"lock", "probed"}, pc'[s] \notin {"lock", "probed"}
    PROVE  Pooled' /\ Delayed'
  <1>1. \A t \in Sessions \ {s} : pc'[t] = pc[t]
    BY Others DEF Wired, Types
  <1>. QED  BY <1>1 DEF Wired, Pooled, Delayed

LEMMA SessionWired ==
    ASSUME Wired, NEW s \in Sessions, SessionStep(s)
    PROVE  Pooled' /\ Delayed'
  <1>. USE ShadowAssumption, TriesAssumption
  <1>. USE DEF Wired, Types, serverVars, localVars, Advance, Fail
  <1>0. /\ \A t \in Sessions \ {s} : pc'[t] = pc[t] /\ conn'[t] = conn[t]
        /\ \A t \in Sessions : conn[t] \in Conns \cup {None}
    BY Others DEF ShadowTypeOK
  <1>1. CASE Connect(s)
    <2>1. PICK c \in Conns : /\ conns[c] \in {"idle", "closed"}
                             /\ conns' = [conns EXCEPT ![c] = "used"]
                             /\ conn' = [conn EXCEPT ![s] = c]
      BY <1>1 DEF Connect
    <2>2. pc'[s] = "lock" /\ conn'[s] = c /\ UNCHANGED <<lock, late, probes>>
          /\ \A d \in Conns : conns'[d] = IF d = c THEN "used" ELSE conns[d]
      BY <1>1, <2>1 DEF Connect, ShadowTypeOK
    <2>3. \A t \in Sessions : conn[t] # c
      BY <1>0, <2>1 DEF Pooled
    <2>4. Pooled'
      BY <1>0, <2>1, <2>2, <2>3 DEF Pooled
    <2>. QED  BY <2>1, <2>2, <2>4 DEF Delayed
  <1>2. CASE Break(s)
    <2>. DEFINE c == conn[s]
                alive == conns[c] = "used"
    <2>1. /\ c \in Conns /\ pc'[s] # "lock" /\ conn'[s] = None
          /\ conns[c] \in {"used", "dead"} /\ UNCHANGED probes
          /\ \A d \in Conns : conns'[d] = IF d = c THEN IF alive THEN "gone" ELSE "closed"
                                          ELSE conns[d]
      BY <1>2 DEF Break, ShadowTypeOK, Pooled, Disconnected, CandidatePlaces, CandidateReads
    <2>2. \/ lock' = lock
          \/ alive /\ pc[s] = "lock" /\ lock.conn = None /\ lock' = [conn |-> c, depth |-> 1]
      BY <1>2 DEF Break
    <2>3. \/ late' = late
          \/ alive /\ pc[s] = "create" /\ late' = [late EXCEPT ![c] = s]
      BY <1>2 DEF Break
    <2>. HIDE DEF c
    <2>4. \A t \in Sessions \ {s} : conn[t] # c
      BY <2>1 DEF Pooled, c
    <2>5. \A t \in Sessions \ {s} : conn[t] # None =>
             /\ conns'[conn[t]] = conns[conn[t]]
             /\ lock'.conn = conn[t] <=> lock.conn = conn[t]
      BY <1>0, <2>1, <2>2, <2>4
    <2>6. Pooled'
      <3>1. \A d \in Conns : conns'[d] \in {"idle", "closed", "dead"} => lock'.conn # d /\ d \notin probes'
        BY <2>1, <2>2 DEF Pooled
      <3>2. lock'.depth = IF lock'.conn = None THEN 0 ELSE 1
        BY <2>1, <2>2 DEF Pooled
      <3>3. \A t \in Sessions : conn'[t] # None =>
               /\ t # s
               /\ conns'[conn'[t]] \in {"used", "dead"}
               /\ pc'[t] = "lock" => lock'.conn # conn'[t]
               /\ pc'[t] # "lock" /\ conns'[conn'[t]] = "used" => lock'.conn = conn'[t]
               /\ pc'[t] # "probed" => conn'[t] \notin probes'
        BY <1>0, <2>1, <2>5 DEF Pooled
      <3>4. \A t, u \in Sessions : conn'[t] # None /\ conn'[t] = conn'[u] => t = u
        BY <1>0, <2>1 DEF Pooled
      <3>. QED  BY <3>1, <3>2, <3>3, <3>4 DEF Pooled
    <2>7. Delayed'
      <3>. SUFFICES ASSUME NEW d \in Conns, late'[d] # None
                    PROVE  conns'[d] = "gone" /\ lock'.conn = d
        BY DEF Delayed
      <3>1. CASE late' = late
        <4>1. conns[d] = "gone" /\ lock.conn = d
          BY <3>1 DEF Delayed
        <4>. QED  BY <2>1, <2>2, <4>1
      <3>2. CASE alive /\ pc[s] = "create" /\ late' = [late EXCEPT ![c] = s]
        <4>1. lock.conn = c /\ lock' = lock
          BY <2>1, <2>2, <3>2 DEF Pooled, c
        <4>2. CASE d = c
          BY <2>1, <3>2, <4>1, <4>2
        <4>3. CASE d # c
          BY <2>1, <3>2, <4>1, <4>3 DEF Delayed, ShadowTypeOK
        <4>. QED  BY <4>2, <4>3
      <3>. QED  BY <2>3, <3>1, <3>2
    <2>. QED  BY <2>6, <2>7
  <1>3. CASE StepFails(s)
    <2>1. pc[s] \notin {"lock", "probed"} /\ pc'[s] \notin {"lock", "probed"}
      BY <1>3 DEF StepFails, At, BaselineReads, CandidateReads, ShadowTypeOK
    <2>. QED  BY <1>3, <2>1, Quiet DEF StepFails
  <1>4. CASE Save(s) \/ SaveRefused(s)
    <2>1. pc[s] \notin {"lock", "probed"} /\ pc'[s] \notin {"lock", "probed"}
      BY <1>4 DEF Save, SaveRefused, Saved, ShadowTypeOK
    <2>. QED  BY <1>4, <2>1, Quiet DEF Save, SaveRefused
  <1>5. CASE ReadStep(s)
    <2>1. PICK place \in Reads, found \in Evidence, next \in Places :
             Read(s, place, found, next) /\ Leads(s, place, next)
      BY <1>5, Reading
    <2>2. place \notin {"lock", "probed"} /\ next \notin {"lock", "probed"}
      BY <2>1 DEF Leads, Reads, Settled, BaselineReads, CandidateReads
    <2>. QED  BY <2>1, <2>2, Quiet DEF Read, At, ShadowTypeOK
  <1>6. CASE CompareStep(s)
    <2>1. pc[s] \notin {"lock", "probed"} /\ pc'[s] \notin {"lock", "probed"}
      BY <1>6 DEF CompareStep, SnapshotCandidate, AfterCandidate, At, ShadowTypeOK
    <2>. QED  BY <1>6, <2>1, Quiet DEF CompareStep, SnapshotCandidate, AfterCandidate
  <1>7. CASE GetLock(s)
    <2>1. /\ pc[s] = "lock" /\ pc'[s] = "list" /\ conn[s] \in Conns /\ conns[conn[s]] = "used"
          /\ lock.conn = None /\ lock' = [conn |-> conn[s], depth |-> 1]
          /\ UNCHANGED <<conns, late, probes, conn>>
      BY <1>7 DEF GetLock, At, CandidatePlaces, ShadowTypeOK, Pooled
    <2>2. Pooled'
      BY <1>0, <2>1 DEF Pooled
    <2>3. \A d \in Conns : late[d] = None
      BY <2>1 DEF Delayed
    <2>. QED  BY <2>1, <2>2, <2>3 DEF Delayed
  <1>8. CASE LockBusy(s) \/ Release(s)
    <2>1. /\ conn[s] \in Conns /\ conns[conn[s]] = "used" /\ conn[s] \notin probes
          /\ UNCHANGED <<late, probes>> /\ conn'[s] = None /\ pc'[s] # "lock"
          /\ \A d \in Conns : conns'[d] = IF d = conn[s] THEN "idle" ELSE conns[d]
      BY <1>8 DEF LockBusy, Release, At, CandidatePlaces, Disconnected, ShadowTypeOK, Pooled
    <2>2. \/ lock' = lock /\ lock.conn # conn[s]
          \/ lock.conn = conn[s] /\ lock' = [conn |-> None, depth |-> 0]
      BY <1>8, <2>1 DEF LockBusy, Release, Pooled
    <2>3. \A t \in Sessions \ {s} : conn[t] # conn[s]
      BY <2>1 DEF Pooled
    <2>4. \A t \in Sessions \ {s} : conn[t] # None =>
             /\ conns'[conn[t]] = conns[conn[t]]
             /\ lock'.conn = conn[t] <=> lock.conn = conn[t]
      BY <1>0, <2>1, <2>2, <2>3
    <2>5. \A d \in Conns : conns'[d] \in {"idle", "closed", "dead"} => lock'.conn # d /\ d \notin probes'
      BY <2>1, <2>2 DEF Pooled
    <2>6. lock'.depth = IF lock'.conn = None THEN 0 ELSE 1
      BY <2>2 DEF Pooled
    <2>7. \A t \in Sessions : conn'[t] # None =>
             /\ conns'[conn'[t]] \in {"used", "dead"}
             /\ pc'[t] = "lock" => lock'.conn # conn'[t]
             /\ pc'[t] # "lock" /\ conns'[conn'[t]] = "used" => lock'.conn = conn'[t]
             /\ pc'[t] # "probed" => conn'[t] \notin probes'
      BY <1>0, <2>1, <2>4 DEF Pooled
    <2>8. \A t, u \in Sessions : conn'[t] # None /\ conn'[t] = conn'[u] => t = u
      BY <1>0, <2>1 DEF Pooled
    <2>9. Pooled'
      BY <2>5, <2>6, <2>7, <2>8 DEF Pooled
    <2>10. Delayed'
      BY <2>1, <2>2 DEF Delayed
    <2>. QED  BY <2>9, <2>10
  <1>9. CASE List(s) \/ DropIndex(s) \/ CreateIndex(s)
    <2>1. pc[s] \in {"list", "relist", "drop", "redrop", "create"}
          /\ pc'[s] \in {"drop", "redrop", "snapshotB", "release", "explain"}
      BY <1>9 DEF List, DropIndex, CreateIndex, At, Cleaned, Drops, ShadowTypeOK
    <2>. QED  BY <1>9, <2>1, Quiet DEF List, DropIndex, CreateIndex
  <1>10. CASE CreateProbe(s) \/ DropProbe(s)
    <2>1. /\ conn[s] \in Conns /\ conns[conn[s]] = "used" /\ lock.conn = conn[s]
          /\ UNCHANGED <<lock, conns, late, conn>> /\ pc'[s] # "lock"
          /\ probes' \ {conn[s]} = probes \ {conn[s]}
          /\ pc'[s] # "probed" => conn[s] \notin probes'
      BY <1>10 DEF CreateProbe, DropProbe, At, CandidatePlaces, ShadowTypeOK, Pooled
    <2>2. \A d \in Conns : d # conn[s] => (d \in probes' <=> d \in probes)
      BY <2>1
    <2>3. Pooled'
      BY <1>0, <2>1, <2>2 DEF Pooled
    <2>. QED  BY <2>1, <2>3 DEF Delayed
  <1>. QED  BY <1>1, <1>2, <1>3, <1>4, <1>5, <1>6, <1>7, <1>8, <1>9, <1>10, SessionSteps
       DEF ShadowStep

LEMMA CrashWired ==
    ASSUME Wired, NEW S \in SUBSET Sessions, Crash(S)
    PROVE  Pooled' /\ Delayed'
  <1>. USE ShadowAssumption, TriesAssumption
  <1>. USE DEF Wired, Types, serverVars, localVars
  <1>. DEFINE open == {conn[s] : s \in S} \ {None}
              creating == {s \in S : pc[s] = "create" /\ conns[conn[s]] = "used"}
  <1>1. /\ \A c \in Conns : conns'[c] = IF c \notin open THEN conns[c]
                                        ELSE IF conns[c] = "dead" THEN "closed" ELSE "gone"
        /\ \A c \in Conns : late'[c] = IF \E s \in creating : conn[s] = c
                                       THEN CHOOSE s \in creating : conn[s] = c ELSE late[c]
        /\ UNCHANGED <<lock, probes>>
    BY DEF Crash
  <1>2. \A s \in Sessions : IF s \in S THEN pc'[s] = "crashed" /\ conn'[s] = None
                            ELSE pc'[s] = pc[s] /\ conn'[s] = conn[s]
    BY DEF Crash
  <1>3. \A c \in open : c \in Conns /\ conns[c] \in {"used", "dead"}
    BY DEF Pooled, ShadowTypeOK
  <1>4. \A s \in Sessions \ S : conn[s] # None => conn[s] \in Conns /\ conn[s] \notin open
    BY DEF Pooled, ShadowTypeOK
  <1>. HIDE DEF open
  <1>5. \A c \in Conns : conns'[c] \in {"idle", "closed", "dead"} => lock'.conn # c /\ c \notin probes'
    BY <1>1, <1>3 DEF Pooled
  <1>6. \A t \in Sessions : conn'[t] # None =>
           /\ conns'[conn'[t]] \in {"used", "dead"}
           /\ pc'[t] = "lock" => lock'.conn # conn'[t]
           /\ pc'[t] # "lock" /\ conns'[conn'[t]] = "used" => lock'.conn = conn'[t]
           /\ pc'[t] # "probed" => conn'[t] \notin probes'
    BY <1>1, <1>2, <1>4 DEF Pooled
  <1>7. \A t, u \in Sessions : conn'[t] # None /\ conn'[t] = conn'[u] => t = u
    BY <1>2 DEF Pooled
  <1>8. Pooled'
    BY <1>1, <1>5, <1>6, <1>7 DEF Pooled
  <1>9. Delayed'
    <2>. SUFFICES ASSUME NEW c \in Conns, late'[c] # None
                  PROVE  conns'[c] = "gone" /\ lock'.conn = c
      BY DEF Delayed
    <2>1. CASE \E s \in creating : conn[s] = c
      <3>1. PICK s \in S : pc[s] = "create" /\ conns[conn[s]] = "used" /\ conn[s] = c
        BY <2>1
      <3>2. c \in open /\ lock.conn = c
        BY <3>1 DEF Pooled, open
      <3>. QED  BY <1>1, <3>1, <3>2
    <2>2. CASE ~\E s \in creating : conn[s] = c
      <3>1. late[c] # None
        BY <1>1, <2>2
      <3>2. conns[c] = "gone" /\ lock.conn = c
        BY <3>1 DEF Delayed
      <3>. QED  BY <1>1, <1>3, <3>2
    <2>. QED  BY <2>1, <2>2
  <1>. QED  BY <1>8, <1>9

LEMMA WiredStep == Wired /\ [ShadowNext]_shadowVars => Wired'
  <1>. SUFFICES ASSUME Wired, [ShadowNext]_shadowVars  PROVE Pooled' /\ Delayed'
    BY TypeStep DEF Wired
  <1>1. CASE UNCHANGED shadowVars
    BY <1>1 DEF Wired, Pooled, Delayed, shadowVars, serverVars, localVars
  <1>. QED  BY <1>1, EnvironmentWired, SessionWired, CrashWired, Steps

\* A connection that a later job gets from the pool holds neither the lock nor
\* the table of the write probe, whatever failed (runner.go:264, :288).
THEOREM PooledStayClean == ShadowSpec => []PooledAreClean
  <1>1. Wired => PooledAreClean
    BY DEF Wired, Pooled, PooledAreClean
  <1>. QED  BY <1>1, WiredInit, WiredStep, PTL DEF ShadowSpec

-----------------------------------------------------------------------------
(* Indexes *)

\* The session works over a living connection.
Alive(s) == conn[s] # None /\ conns[conn[s]] = "used"

\* What a session at work knows of the indexes on the shadow.
Known ==
    \A s \in Sessions : Alive(s) =>
        /\ pc[s] \in {"drop", "redrop"} => names[s] = indexes
        /\ pc[s] \in {"snapshotB", "snapshotC", "create"} => indexes = {}
        /\ pc[s] \in Settled => indexes = IF IsRewrite(s) THEN {} ELSE {s}

\* While a session that has the lock is alive, no other is, and nothing is late.
LEMMA Exclusive ==
    ASSUME Wired, NEW s \in Sessions, Alive(s), pc[s] # "lock"
    PROVE  /\ \A t \in Sessions : Alive(t) /\ pc[t] # "lock" => t = s
           /\ \A c \in Conns : late[c] = None
  <1>1. lock.conn = conn[s] /\ conn[s] \in Conns
    BY DEF Wired, Types, ShadowTypeOK, Pooled, Alive
  <1>. QED  BY <1>1 DEF Wired, Pooled, Delayed, Alive

\* A step of others changes nothing for a session that has the lock and lives on.
LEMMA Bystander ==
    ASSUME Wired, NEW s \in Sessions, Alive(s)', pc'[s] # "lock",
           \/ Environment
           \/ \E r \in Sessions \ {s} : SessionStep(r)
           \/ \E S \in SUBSET Sessions : Crash(S)
    PROVE  Alive(s) /\ pc'[s] = pc[s] /\ names'[s] = names[s] /\ indexes' = indexes
  <1>. USE ShadowAssumption
  <1>. USE DEF serverVars, localVars
  <1>0. conn[s] \in Conns \cup {None}
    BY DEF Wired, Types, ShadowTypeOK
  <1>1. CASE Environment
    <2>1. UNCHANGED <<pc, conn, names>>
      BY <1>1 DEF Environment, ServerNotices, Retire, ConnDies, Edit
    <2>2. Alive(s)
      <3>1. conns'[conn[s]] = "used" => conns[conn[s]] = "used"
        BY <1>0, <1>1, <2>1 DEF Alive, Environment, ServerNotices, Retire, ConnDies, Edit,
           EndConnection, Wired, Types, ShadowTypeOK
      <3>. QED  BY <2>1, <3>1 DEF Alive
    <2>3. indexes' = indexes
      <3>1. \A c \in Conns : late[c] = None
        BY <2>1, <2>2, Exclusive
      <3>. QED  BY <1>1, <3>1 DEF Environment, ServerNotices, Retire, ConnDies, Edit
    <2>. QED  BY <2>1, <2>2, <2>3
  <1>2. ASSUME NEW r \in Sessions \ {s}, SessionStep(r)
        PROVE  Alive(s) /\ pc'[s] = pc[s] /\ names'[s] = names[s] /\ indexes' = indexes
    <2>1. pc'[s] = pc[s] /\ conn'[s] = conn[s] /\ names'[s] = names[s]
      BY <1>2, Others DEF Wired, Types
    <2>2. conn[s] # None /\ conns'[conn[s]] = "used"
      BY <2>1 DEF Alive
    <2>3. Alive(s)
      <3>1. CASE Connect(r)
        BY <1>0, <2>2, <3>1 DEF Connect, Alive, Wired, Types, ShadowTypeOK, Pooled
      <3>2. CASE ReadStep(r)
        BY <1>2, <2>2, <3>2, Reading DEF Read, Alive, Wired, Types
      <3>3. CASE Break(r) \/ LockBusy(r) \/ Release(r)
        BY <1>0, <2>2, <3>3 DEF Break, LockBusy, Release, Alive, Wired, Types, ShadowTypeOK
      <3>4. CASE StepFails(r) \/ Save(r) \/ SaveRefused(r) \/ CompareStep(r) \/ GetLock(r)
                 \/ List(r) \/ DropIndex(r) \/ CreateIndex(r) \/ CreateProbe(r) \/ DropProbe(r)
        BY <2>2, <3>4 DEF StepFails, Save, SaveRefused, CompareStep, SnapshotCandidate,
           AfterCandidate, GetLock, List, DropIndex, CreateIndex, CreateProbe, DropProbe, Alive
      <3>. QED  BY <1>2, <3>1, <3>2, <3>3, <3>4, SessionSteps DEF ShadowStep
    <2>4. ~(Alive(r) /\ pc[r] # "lock")
      BY <2>1, <2>3, Exclusive
    <2>5. ~DropIndex(r) /\ ~CreateIndex(r)
      BY <2>4 DEF DropIndex, CreateIndex, At, CandidatePlaces, Alive, Wired, Types, ShadowTypeOK
    <2>6. indexes' = indexes
      <3>1. CASE ReadStep(r)
        BY <1>2, <3>1, Reading DEF Read, Wired, Types
      <3>2. CASE ~ReadStep(r)
        BY <1>2, <2>5, <3>2, SessionSteps DEF ShadowStep, CompareStep, Connect, Break, LockBusy,
           Release, StepFails, Save, SaveRefused, SnapshotCandidate, AfterCandidate, GetLock,
           List, CreateProbe, DropProbe
      <3>. QED  BY <3>1, <3>2
    <2>. QED  BY <2>1, <2>3, <2>6
  <1>3. ASSUME NEW S \in SUBSET Sessions, Crash(S)
        PROVE  Alive(s) /\ pc'[s] = pc[s] /\ names'[s] = names[s] /\ indexes' = indexes
    <2>1. s \notin S /\ conn'[s] = conn[s] /\ pc'[s] = pc[s] /\ names'[s] = names[s]
          /\ indexes' = indexes
      BY <1>3 DEF Crash, Alive
    <2>2. \A c \in Conns : conns'[c] = "used" => conns[c] = "used"
      BY <1>3 DEF Crash
    <2>. QED  BY <1>0, <2>1, <2>2 DEF Alive
  <1>. QED  BY <1>1, <1>2, <1>3

LEMMA KnownInit == ShadowInit => Known
  BY DEF ShadowInit, Known, Alive

LEMMA KnownStep ==
    ASSUME Wired, Known, [ShadowNext]_shadowVars
    PROVE  Known'
  <1>. DEFINE Knows(s) == /\ pc[s] \in {"drop", "redrop"} => names[s] = indexes
                          /\ pc[s] \in {"snapshotB", "snapshotC", "create"} => indexes = {}
                          /\ pc[s] \in Settled => indexes = IF IsRewrite(s) THEN {} ELSE {s}
  <1>. USE DEF serverVars, localVars, Advance, Fail
  <1>1. CASE UNCHANGED shadowVars
    BY <1>1 DEF Known, Alive, shadowVars
  <1>. SUFFICES ASSUME NEW s \in Sessions, Alive(s)', ~UNCHANGED shadowVars
                PROVE  Knows(s)'
    BY <1>1 DEF Known
  <1>2. CASE pc'[s] = "lock"
    BY <1>2 DEF Settled, Reads, BaselineReads, CandidateReads
  <1>3. CASE pc'[s] # "lock" /\ ~SessionStep(s)
    <2>1. Alive(s) /\ pc'[s] = pc[s] /\ names'[s] = names[s] /\ indexes' = indexes
      BY <1>3, Bystander, Steps
    <2>. QED  BY <2>1 DEF Known
  <1>4. CASE SessionStep(s)
    <2>. USE DEF Settled, Reads, BaselineReads, CandidateReads
    <2>0. conn'[s] # None /\ conns'[conn'[s]] = "used"
      BY DEF Alive
    <2>1. CASE Connect(s) \/ Save(s) \/ SaveRefused(s) \/ StepFails(s)
      <3>1. pc'[s] \in {"lock", "relist", "end", "release"}
        BY <2>1 DEF Connect, Save, SaveRefused, StepFails, Saved, Wired, Types, ShadowTypeOK
      <3>. QED  BY <3>1
    <2>2. CASE Break(s) \/ LockBusy(s) \/ Release(s)
      BY <2>0, <2>2 DEF Break, LockBusy, Release, Wired, Types, ShadowTypeOK
    <2>3. CASE ReadStep(s)
      <3>1. PICK place \in Reads, found \in Evidence, next \in Places :
               Read(s, place, found, next) /\ Leads(s, place, next)
        BY <2>3, Reading DEF Wired, Types
      <3>2. pc[s] = place /\ pc'[s] = next /\ UNCHANGED <<conns, conn, names, indexes>>
        BY <3>1 DEF Read, At, Wired, Types, ShadowTypeOK
      <3>3. Alive(s)
        BY <2>0, <3>2 DEF Alive
      <3>4. CASE place = "snapshotB"
        BY <3>1, <3>2, <3>3, <3>4 DEF Known, Leads
      <3>5. CASE place # "snapshotB"
        <4>1. place \in Settled /\ next \in Settled \cup {"probe", "relist"}
          BY <3>1, <3>5 DEF Leads
        <4>. QED  BY <3>2, <3>3, <4>1 DEF Known
      <3>. QED  BY <3>4, <3>5
    <2>4. CASE CompareStep(s)
      <3>1. /\ UNCHANGED <<conns, conn, names, indexes>>
            /\ \/ pc[s] = "snapshotC" /\ pc'[s] \in {"queriesB", "create", "relist"}
                  /\ (pc'[s] = "queriesB" => IsRewrite(s))
               \/ pc'[s] \in {"relist", "save"}
        BY <2>4 DEF CompareStep, SnapshotCandidate, AfterCandidate, At, Wired, Types, ShadowTypeOK
      <3>2. Alive(s)
        BY <2>0, <3>1 DEF Alive
      <3>. QED  BY <3>1, <3>2 DEF Known
    <2>5. CASE GetLock(s) \/ CreateProbe(s) \/ DropProbe(s)
      <3>1. pc'[s] \in {"list", "probed", "relist"}
        BY <2>5 DEF GetLock, CreateProbe, DropProbe, Wired, Types, ShadowTypeOK
      <3>. QED  BY <3>1
    <2>6. CASE List(s)
      <3>1. names'[s] = indexes /\ indexes' = indexes
        BY <2>6 DEF List, Wired, Types, ShadowTypeOK
      <3>2. pc'[s] \in {"drop", "redrop"} \/ (indexes = {} /\ pc'[s] \in {"snapshotB", "release"})
        BY <2>6 DEF List, Cleaned, Drops, Wired, Types, ShadowTypeOK
      <3>. QED  BY <3>1, <3>2
    <2>7. CASE DropIndex(s)
      <3>1. PICK i \in names[s] :
               /\ indexes' = indexes \ {i}
               /\ names' = [names EXCEPT ![s] = @ \ {i}]
               /\ \E place \in {"drop", "redrop"} :
                     /\ At(s, place)
                     /\ Advance(s, IF names[s] = {i} THEN Cleaned(place) ELSE place)
        BY <2>7 DEF DropIndex
      <3>2. pc[s] \in {"drop", "redrop"} /\ Alive(s)
        BY <3>1 DEF At, Alive, CandidatePlaces, Wired, Types, ShadowTypeOK
      <3>3. names[s] = indexes
        BY <3>2 DEF Known
      <3>4. names'[s] = indexes'
        BY <3>1, <3>3 DEF Wired, Types, ShadowTypeOK
      <3>5. pc'[s] \in {"drop", "redrop"} \/ (names[s] = {i} /\ pc'[s] \in {"snapshotB", "release"})
        BY <3>1 DEF Cleaned, At, Wired, Types, ShadowTypeOK
      <3>. QED  BY <3>1, <3>3, <3>4, <3>5
    <2>8. CASE CreateIndex(s)
      <3>1. pc[s] = "create" /\ Alive(s) /\ pc'[s] = "explain"
        BY <2>8 DEF CreateIndex, At, Alive, CandidatePlaces, Wired, Types, ShadowTypeOK
      <3>2. indexes = {} /\ ~IsRewrite(s)
        BY <3>1 DEF Known, Wired, Types, Placed, IndexPlaces
      <3>3. indexes' = {s}
        BY <2>8, <3>2 DEF CreateIndex
      <3>. QED  BY <3>1, <3>2, <3>3
    <2>. QED  BY <1>4, <2>1, <2>2, <2>3, <2>4, <2>5, <2>6, <2>7, <2>8, SessionSteps
         DEF ShadowStep
  <1>. QED  BY <1>2, <1>3, <1>4

\* A read of the candidate finds the session's own index and no other, whatever
\* sessions before it left behind (runner.go:253, :268).
THEOREM OwnIndexOnly == ShadowSpec => []OnlyOwnIndex
  <1>1. Wired /\ Known => OnlyOwnIndex
    <2>. SUFFICES ASSUME Wired, Known, NEW s \in Sessions,
                         pc[s] \in CandidateReads \ {"snapshotC"}, conns[conn[s]] = "used"
                  PROVE  indexes = IF IsRewrite(s) THEN {} ELSE {s}
      BY DEF OnlyOwnIndex
    <2>1. conn[s] # None
      BY DEF Wired, Types, ShadowTypeOK, CandidateReads
    <2>2. pc[s] \in Settled
      BY DEF Settled, Reads, CandidateReads
    <2>. QED  BY <2>1, <2>2 DEF Known, Alive
  <1>2. Wired /\ Known /\ [ShadowNext]_shadowVars => Wired' /\ Known'
    BY WiredStep, KnownStep
  <1>. QED  BY <1>1, <1>2, WiredInit, KnownInit, PTL DEF ShadowSpec

-----------------------------------------------------------------------------
(* What a success leaves behind *)

\* An index of s is on the shadow, or may still be made.
Leaves(s) == s \in indexes \/ \E c \in Conns : late[c] = s

\* Rewrites make no index; an index session without a failure has dropped its own.
Tidy ==
    \A s \in Sessions :
        /\ IsRewrite(s) => ~Leaves(s)
        /\ pc[s] \in {"release", "save"} /\ outcome[s] = "none" => ~Leaves(s)
        /\ outcome[s] = "ok" => ~Leaves(s) /\ (IsRewrite(s) \/ pc[s] = "end")
        /\ pc[s] = "idle" => outcome[s] = "none"

\* Only a CREATE INDEX of the session itself makes its index.
LEMMA LeavesStep ==
    ASSUME Wired, [ShadowNext]_shadowVars, NEW s \in Sessions, Leaves(s)'
    PROVE  Leaves(s) \/ pc[s] = "create"
  <1>. USE TriesAssumption
  <1>. USE DEF serverVars, localVars, Leaves
  <1>0. s # None
    OBVIOUS
  <1>1. CASE UNCHANGED shadowVars
    BY <1>1 DEF shadowVars
  <1>2. CASE Environment
    BY <1>0, <1>2 DEF Environment, ServerNotices, Retire, ConnDies, Edit, Wired, Types, ShadowTypeOK
  <1>3. CASE \E S \in SUBSET Sessions : Crash(S)
    <2>1. PICK S \in SUBSET Sessions : Crash(S)
      BY <1>3
    <2>. DEFINE creating == {t \in S : pc[t] = "create" /\ conns[conn[t]] = "used"}
    <2>2. /\ indexes' = indexes
          /\ \A c \in Conns : late'[c] = IF \E t \in creating : conn[t] = c
                                         THEN CHOOSE t \in creating : conn[t] = c ELSE late[c]
      BY <2>1 DEF Crash
    <2>3. CASE \E c \in Conns : late'[c] = s
      <3>1. PICK c \in Conns : late'[c] = s
        BY <2>3
      <3>2. late[c] = s \/ s \in creating
        BY <2>2, <3>1
      <3>. QED  BY <3>2
    <2>. QED  BY <2>2, <2>3
  <1>4. ASSUME NEW r \in Sessions, SessionStep(r)
        PROVE  Leaves(s) \/ pc[s] = "create"
    <2>1. CASE ReadStep(r)
      BY <2>1, Reading DEF Read, Wired, Types
    <2>2. CASE Break(r)
      <3>1. indexes' = indexes
        BY <2>2 DEF Break
      <3>2. late' = late \/ (pc[r] = "create" /\ \E c \in Conns : late' = [late EXCEPT ![c] = r])
        BY <2>2 DEF Break, Wired, Types, ShadowTypeOK
      <3>. QED  BY <3>1, <3>2 DEF Wired, Types, ShadowTypeOK
    <2>3. CASE CreateIndex(r)
      BY <2>3 DEF CreateIndex, At
    <2>4. CASE DropIndex(r)
      BY <2>4 DEF DropIndex
    <2>5. CASE ~ReadStep(r) /\ ~Break(r) /\ ~CreateIndex(r) /\ ~DropIndex(r)
      BY <1>4, <2>5, SessionSteps DEF ShadowStep, CompareStep, Connect, LockBusy, Release,
         StepFails, Save, SaveRefused, SnapshotCandidate, AfterCandidate, GetLock, List,
         CreateProbe, DropProbe
    <2>. QED  BY <2>1, <2>2, <2>3, <2>4, <2>5
  <1>. QED  BY <1>1, <1>2, <1>3, <1>4, Steps

\* A session that keeps its place and outcome and is not creating stays tidy.
LEMMA TidyStays ==
    ASSUME Wired, Tidy, [ShadowNext]_shadowVars, NEW s \in Sessions,
           \/ pc'[s] = pc[s]
           \/ pc'[s] \notin {"idle", "release", "save"} /\ (IsRewrite(s) \/ outcome[s] # "ok"),
           outcome'[s] = outcome[s]
    PROVE  /\ IsRewrite(s) => ~Leaves(s)'
           /\ pc'[s] \in {"release", "save"} /\ outcome'[s] = "none" => ~Leaves(s)'
           /\ outcome'[s] = "ok" => ~Leaves(s)' /\ (IsRewrite(s) \/ pc'[s] = "end")
           /\ pc'[s] = "idle" => outcome'[s] = "none"
  <1>1. IsRewrite(s) => ~Leaves(s)'
    BY LeavesStep DEF Tidy, Wired, Types, Placed, IndexPlaces
  <1>2. ~IsRewrite(s) /\ outcome[s] = "ok" => ~Leaves(s)'
    BY LeavesStep DEF Tidy
  <1>3. pc[s] \in {"release", "save"} /\ outcome[s] = "none" => ~Leaves(s)'
    BY LeavesStep DEF Tidy
  <1>. QED  BY <1>1, <1>2, <1>3 DEF Tidy

LEMMA TidyInit == ShadowInit => Tidy
  BY TriesAssumption DEF ShadowInit, Tidy, Leaves

LEMMA TidyStep ==
    ASSUME Wired, Known, Tidy, [ShadowNext]_shadowVars
    PROVE  Tidy'
  <1>. DEFINE Clear(s) == /\ IsRewrite(s) => ~Leaves(s)
                          /\ pc[s] \in {"release", "save"} /\ outcome[s] = "none" => ~Leaves(s)
                          /\ outcome[s] = "ok" => ~Leaves(s) /\ (IsRewrite(s) \/ pc[s] = "end")
                          /\ pc[s] = "idle" => outcome[s] = "none"
  <1>. SUFFICES ASSUME NEW s \in Sessions  PROVE Clear(s)'
    BY DEF Tidy
  <1>. USE TriesAssumption
  <1>. USE DEF serverVars, localVars, Advance, Fail
  <1>0. IsRewrite(s) => ~Leaves(s)'
    BY LeavesStep DEF Tidy, Wired, Types, Placed, IndexPlaces
  <1>1. CASE pc'[s] = pc[s] /\ outcome'[s] = outcome[s]
    BY <1>1, TidyStays
  <1>2. CASE ~SessionStep(s)
    <2>1. CASE Environment \/ UNCHANGED shadowVars
      <3>1. pc' = pc /\ outcome' = outcome
        BY <2>1 DEF Environment, ServerNotices, Retire, ConnDies, Edit, shadowVars
      <3>. QED  BY <1>1, <3>1
    <2>2. CASE \E r \in Sessions \ {s} : SessionStep(r)
      BY <1>1, <2>2, Others DEF Wired, Types
    <2>3. CASE \E S \in SUBSET Sessions : Crash(S)
      <3>1. outcome' = outcome
        BY <2>3 DEF Crash
      <3>2. pc'[s] = pc[s] \/ (pc'[s] = "crashed" /\ pc[s] # "end")
        BY <2>3 DEF Crash, Running
      <3>3. pc[s] # "end" => IsRewrite(s) \/ outcome[s] # "ok"
        BY DEF Tidy
      <3>. QED  BY <1>1, <3>1, <3>2, <3>3, TidyStays
    <2>. QED  BY <1>2, <2>1, <2>2, <2>3, Steps
  <1>3. CASE SessionStep(s)
    <2>0. pc[s] # "end" => IsRewrite(s) \/ outcome[s] # "ok"
      BY DEF Tidy
    <2>1. ASSUME pc[s] # "end", outcome'[s] = outcome[s],
                 pc'[s] \notin {"idle", "release", "save"}
          PROVE  Clear(s)'
      BY <2>0, <2>1, TidyStays
    <2>2. ASSUME outcome'[s] \in {"failed", "lost", "rejected"}, pc'[s] # "idle"
          PROVE  Clear(s)'
      BY <1>0, <2>2
    <2>. HIDE DEF Clear
    <2>3. CASE Connect(s)
      <3>1. pc[s] = "idle" /\ pc'[s] = "lock" /\ outcome' = outcome
        BY <2>3 DEF Connect, Wired, Types, ShadowTypeOK
      <3>. QED  BY <2>1, <3>1
    <2>4. CASE Break(s)
      <3>1. pc[s] # "idle" /\ pc'[s] \in {"end", "save"}
            /\ pc[s] # "end"
        BY <2>4 DEF Break, Disconnected, CandidatePlaces, CandidateReads, Wired, Types, ShadowTypeOK
      <3>2. outcome'[s] = "failed" \/ (outcome' = outcome /\ pc[s] = "release" /\ ~IsRewrite(s))
        BY <2>4 DEF Break, Wired, Types, ShadowTypeOK
      <3>3. CASE outcome' = outcome /\ pc[s] = "release" /\ ~IsRewrite(s)
        <4>1. outcome[s] = "none" => ~Leaves(s)'
          BY <3>3, LeavesStep DEF Tidy
        <4>2. outcome[s] # "ok"
          BY <3>3 DEF Tidy
        <4>. QED  BY <3>1, <3>3, <4>1, <4>2 DEF Clear
      <3>. QED  BY <2>2, <3>1, <3>2, <3>3
    <2>5. CASE StepFails(s)
      <3>1. outcome'[s] = "failed" /\ pc'[s] \in {"relist", "release"}
        BY <2>5 DEF StepFails, Wired, Types, ShadowTypeOK
      <3>. QED  BY <2>2, <3>1
    <2>6. CASE Save(s)
      <3>1. PICK o \in Verdicts(s) : outcome' = [outcome EXCEPT ![s] = o]
        BY <2>6 DEF Save
      <3>2. outcome'[s] = o /\ pc[s] = "save" /\ pc'[s] = Saved(s)
        BY <2>6, <3>1 DEF Save, Wired, Types, ShadowTypeOK
      <3>3. CASE IsRewrite(s)
        BY <1>0, <3>2, <3>3 DEF Saved, Clear, Verdicts
      <3>4. CASE ~IsRewrite(s)
        <4>1. o = "ok" => outcome[s] = "none"
          BY <3>4 DEF Verdicts
        <4>2. o = "ok" => ~Leaves(s)'
          BY <3>2, <4>1, LeavesStep DEF Tidy
        <4>3. o \in {"ok", "failed", "rejected"} /\ pc'[s] = "end"
          BY <3>2, <3>4 DEF Verdicts, Saved
        <4>. QED  BY <3>2, <3>4, <4>2, <4>3 DEF Clear
      <3>. QED  BY <3>3, <3>4
    <2>7. CASE SaveRefused(s)
      <3>1. outcome'[s] \in {"failed", "lost"} /\ pc'[s] \in {"relist", "end"}
        BY <2>7 DEF SaveRefused, Saved, Wired, Types, ShadowTypeOK
      <3>. QED  BY <2>2, <3>1
    <2>8. CASE ReadStep(s)
      <3>1. PICK place \in Reads, found \in Evidence, next \in Places :
               Read(s, place, found, next) /\ Leads(s, place, next)
        BY <2>8, Reading DEF Wired, Types
      <3>2. pc[s] = place /\ pc'[s] = next /\ outcome' = outcome
        BY <3>1 DEF Read, At, Wired, Types, ShadowTypeOK
      <3>3. next \notin {"idle", "release", "save"} /\ place # "end"
        BY <3>1 DEF Leads, Settled, Reads, BaselineReads, CandidateReads
      <3>. QED  BY <2>1, <3>2, <3>3
    <2>9. CASE CompareStep(s)
      <3>1. /\ pc[s] \in {"snapshotC", "afterC"}
            /\ \/ outcome' = outcome /\ pc'[s] \in {"queriesB", "create"}
               \/ outcome' = outcome /\ pc[s] = "afterC" /\ pc'[s] = "save"
               \/ outcome'[s] = "failed" /\ pc'[s] = "relist"
        BY <2>9 DEF CompareStep, SnapshotCandidate, AfterCandidate, At, Wired, Types, ShadowTypeOK
      <3>2. CASE outcome' = outcome /\ pc[s] = "afterC" /\ pc'[s] = "save"
        <4>1. IsRewrite(s)
          BY <3>2 DEF Wired, Types, Placed, RewritePlaces
        <4>. QED  BY <1>0, <3>2, <4>1 DEF Clear
      <3>. QED  BY <2>1, <2>2, <3>1, <3>2
    <2>10. CASE GetLock(s) \/ CreateIndex(s) \/ CreateProbe(s) \/ DropProbe(s)
      <3>1. pc[s] # "end" /\ outcome' = outcome /\ pc'[s] \in {"list", "explain", "probed", "relist"}
        BY <2>10 DEF GetLock, CreateIndex, CreateProbe, DropProbe, At, Wired, Types, ShadowTypeOK
      <3>. QED  BY <2>1, <3>1
    <2>11. CASE LockBusy(s)
      <3>1. outcome'[s] = "failed" /\ pc'[s] \in {"end", "save"}
        BY <2>11 DEF LockBusy, Disconnected, Wired, Types, ShadowTypeOK
      <3>. QED  BY <2>2, <3>1
    <2>12. CASE List(s) \/ DropIndex(s)
      <3>1. /\ pc[s] \in {"list", "drop", "relist", "redrop"} /\ outcome' = outcome
            /\ conn' = conn /\ conns' = conns /\ late' = late /\ Alive(s)
        BY <2>12 DEF List, DropIndex, At, Alive, CandidatePlaces, Wired, Types, ShadowTypeOK
      <3>2. pc'[s] \in {"drop", "redrop", "snapshotB", "release"}
        BY <2>12 DEF List, DropIndex, At, Cleaned, Drops, Wired, Types, ShadowTypeOK
      <3>3. pc'[s] = "release" => indexes' = {}
        <4>1. CASE List(s)
          BY <4>1 DEF List, Cleaned, Drops, Wired, Types, ShadowTypeOK
        <4>2. CASE DropIndex(s)
          <5>1. PICK i \in names[s] :
                   /\ indexes' = indexes \ {i}
                   /\ \E place \in {"drop", "redrop"} :
                         /\ At(s, place)
                         /\ Advance(s, IF names[s] = {i} THEN Cleaned(place) ELSE place)
            BY <4>2 DEF DropIndex
          <5>2. pc[s] \in {"drop", "redrop"} /\ (pc'[s] = "release" => names[s] = {i})
            BY <5>1 DEF At, Wired, Types, ShadowTypeOK
          <5>3. names[s] = indexes
            BY <3>1, <5>2 DEF Known
          <5>. QED  BY <5>1, <5>2, <5>3
        <4>. QED  BY <2>12, <4>1, <4>2
      <3>4. pc'[s] = "release" => ~Leaves(s)'
        <4>1. \A c \in Conns : late[c] = None
          BY <3>1, Exclusive
        <4>. QED  BY <3>1, <3>3, <4>1 DEF Leaves
      <3>5. CASE pc'[s] = "release"
        BY <2>0, <3>1, <3>4, <3>5 DEF Clear
      <3>. QED  BY <2>1, <3>1, <3>2, <3>5
    <2>13. CASE Release(s)
      <3>1. pc[s] = "release" /\ outcome' = outcome /\ pc'[s] = Disconnected(s)
        BY <2>13 DEF Release, At, Wired, Types, ShadowTypeOK
      <3>2. outcome[s] = "none" => ~Leaves(s)'
        BY <3>1, LeavesStep DEF Tidy
      <3>3. outcome[s] = "ok" => IsRewrite(s)
        BY <3>1 DEF Tidy
      <3>. QED  BY <1>0, <3>1, <3>2, <3>3 DEF Clear, Disconnected
    <2>. QED  BY <1>3, <2>3, <2>4, <2>5, <2>6, <2>7, <2>8, <2>9, <2>10, <2>11, <2>12, <2>13,
              SessionSteps DEF ShadowStep
  <1>. QED  BY <1>2, <1>3

\* A try that succeeded has left no index, and no statement of it still makes
\* one: cleaning up is part of success (runner.go:257).
THEOREM SuccessIsClean == ShadowSpec => []SuccessLeavesNothing
  <1>1. Tidy => SuccessLeavesNothing
    BY DEF Tidy, Leaves, SuccessLeavesNothing
  <1>2. Wired /\ Known /\ Tidy /\ [ShadowNext]_shadowVars => Wired' /\ Known' /\ Tidy'
    BY WiredStep, KnownStep, TidyStep
  <1>. QED  BY <1>1, <1>2, WiredInit, KnownInit, TidyInit, PTL DEF ShadowSpec

-----------------------------------------------------------------------------
(* What the evidence is about *)

Early == {"idle", "lock", "list", "drop", "snapshotB", "snapshotC", "create", "explain", "queriesB"}
Looked == {"queriesC", "resultC", "sampleB", "sampleC", "recheckB", "recheckC", "afterB", "afterC"}
Unclaimed == {"queriesC", "resultB", "resultC", "sampleB", "sampleC"}

\* What a session has found is no older than its snapshot and no newer than a
\* side; what it has read of the baseline is no newer than its last comparison.
Dates(s) ==
    LET e == evidence[s] IN
    /\ pc[s] \in Early => e.seen = {} /\ ~e.level2
    /\ pc[s] \in Settled \cup {"snapshotC", "create"} => e.digest <= version["baseline"]
    /\ pc[s] \in Settled \cup {"create"} => e.digest <= version["candidate"]
    /\ pc[s] \in Settled =>
          \A v \in e.seen : /\ e.digest <= v
                            /\ \/ v <= version["baseline"]
                               \/ v <= version["candidate"]
    /\ pc[s] \in {"recheckC", "afterC"} => \A v \in e.seen : v <= e.base \/ v <= version["candidate"]
    /\ pc[s] \in Looked => e.seen # {}
    /\ pc[s] \in Unclaimed => ~e.level2

Dated == \A s \in Sessions : Dates(s)

\* What a read adds to the evidence.
LEMMA Findings ==
    ASSUME Types, NEW s \in Sessions, ReadStep(s)
    PROVE  LET e == evidence[s]
               f == evidence'[s]
               b == version["baseline"]
               c == version["candidate"]
           IN  \/ /\ pc[s] = "snapshotB" /\ pc'[s] = "snapshotC"
                  /\ f.digest = b /\ f.seen = e.seen /\ f.level2 = e.level2
               \/ pc[s] = "explain" /\ pc'[s] \in {"resultB", "relist"} /\ f = e
               \/ /\ \/ pc[s] = "queriesB" /\ pc'[s] = "queriesC"
                     \/ pc[s] = "resultB" /\ pc'[s] = "resultC"
                     \/ pc[s] = "sampleB" /\ pc'[s] = "sampleC"
                  /\ f.digest = e.digest /\ f.seen = e.seen \cup {b} /\ f.level2 = e.level2
               \/ /\ \/ pc[s] = "queriesC" /\ pc'[s] \in {"resultB", "afterB"}
                     \/ pc[s] = "resultC" /\ pc'[s] \in {"sampleB", "afterB", "probe"}
                  /\ f.digest = e.digest /\ f.seen = e.seen \cup {c} /\ f.level2 = e.level2
               \/ /\ pc[s] = "sampleC" /\ pc'[s] = "recheckB"
                  /\ f.digest = e.digest /\ f.seen = e.seen \cup {c}
               \/ /\ \/ pc[s] = "recheckB" /\ pc'[s] = "recheckC"
                     \/ pc[s] = "afterB" /\ pc'[s] = "afterC"
                  /\ f.digest = e.digest /\ f.seen = e.seen /\ f.base = b
               \/ /\ pc[s] = "recheckC" /\ pc'[s] \in {"afterB", "probe"}
                  /\ f.digest = e.digest /\ f.seen = e.seen
                  /\ f.level2 => e.base = e.digest /\ c = e.digest
  <1>1. evidence[s] \in Evidence
    BY DEF Types, ShadowTypeOK
  <1>2. \A place, found, next : Read(s, place, found, next) =>
           pc[s] = place /\ pc'[s] = next /\ evidence'[s] = found
    BY DEF Read, At, Advance, Types, ShadowTypeOK
  <1>3. \A side \in Sides : LET q == Queried(s, side) IN
           /\ q.digest = evidence[s].digest /\ q.level2 = evidence[s].level2
           /\ q.seen = evidence[s].seen \cup {version[side]}
    BY <1>1 DEF Queried, Evidence
  <1>4. Queried(s, "candidate") \in Evidence
    <2>1. version["candidate"] \in Nat
      BY DEF Types, ShadowTypeOK, Sides
    <2>. QED  BY <1>1, <2>1 DEF Queried, Evidence
  <1>5. CASE SnapshotBaseline(s)
    BY <1>1, <1>2, <1>5 DEF SnapshotBaseline, Evidence
  <1>6. CASE Explain(s)
    BY <1>2, <1>6 DEF Explain
  <1>7. CASE QueriesBaseline(s) \/ ResultBaseline(s) \/ SampleBaseline(s)
    <2>1. Read(s, "queriesB", Queried(s, "baseline"), "queriesC")
          \/ Read(s, "resultB", Queried(s, "baseline"), "resultC")
          \/ Read(s, "sampleB", Queried(s, "baseline"), "sampleC")
      BY <1>7 DEF QueriesBaseline, ResultBaseline, SampleBaseline
    <2>. QED  BY <1>2, <1>3, <2>1 DEF Sides
  <1>8. CASE QueriesCandidate(s)
    <2>1. PICK same \in BOOLEAN :
             Read(s, "queriesC", [Queried(s, "candidate") EXCEPT !.equal = same],
                  IF same /\ IsBenchmark(s) THEN "resultB" ELSE "afterB")
      BY <1>8 DEF QueriesCandidate
    <2>2. /\ pc[s] = "queriesC" /\ pc'[s] \in {"resultB", "afterB"}
          /\ evidence'[s] = [Queried(s, "candidate") EXCEPT !.equal = same]
      BY <1>2, <2>1
    <2>. QED  BY <1>3, <1>4, <2>2 DEF Sides, Evidence
  <1>9. CASE ResultCandidate(s)
    <2>1. PICK same \in BOOLEAN :
             Read(s, "resultC", Queried(s, "candidate"), IF same THEN "sampleB" ELSE Measured(s))
      BY <1>9 DEF ResultCandidate
    <2>2. /\ pc[s] = "resultC" /\ pc'[s] \in {"sampleB", "afterB", "probe"}
          /\ evidence'[s] = Queried(s, "candidate")
      BY <1>2, <2>1 DEF Measured
    <2>. QED  BY <1>3, <2>2 DEF Sides
  <1>10. CASE SampleCandidate(s)
    <2>1. PICK admitted \in BOOLEAN :
             Read(s, "sampleC", [Queried(s, "candidate") EXCEPT !.level2 = admitted], "recheckB")
      BY <1>10 DEF SampleCandidate
    <2>2. /\ pc[s] = "sampleC" /\ pc'[s] = "recheckB"
          /\ evidence'[s] = [Queried(s, "candidate") EXCEPT !.level2 = admitted]
      BY <1>2, <2>1
    <2>. QED  BY <1>3, <1>4, <2>2 DEF Sides, Evidence
  <1>11. CASE RecheckBaseline(s) \/ AfterBaseline(s)
    <2>1. Read(s, "recheckB", Noted(s), "recheckC") \/ Read(s, "afterB", Noted(s), "afterC")
      BY <1>11 DEF RecheckBaseline, AfterBaseline
    <2>. QED  BY <1>1, <1>2, <2>1 DEF Noted, Evidence
  <1>12. CASE RecheckCandidate(s)
    <2>1. Read(s, "recheckC", [evidence[s] EXCEPT !.level2 = @ /\ Unchanged(s)], Measured(s))
      BY <1>12 DEF RecheckCandidate
    <2>2. /\ pc[s] = "recheckC" /\ pc'[s] \in {"afterB", "probe"}
          /\ evidence'[s] = [evidence[s] EXCEPT !.level2 = @ /\ Unchanged(s)]
      BY <1>2, <2>1 DEF Measured
    <2>3. Unchanged(s) => evidence[s].base = evidence[s].digest
                          /\ version["candidate"] = evidence[s].digest
      BY DEF Unchanged
    <2>4. evidence'[s].level2 <=> (evidence[s].level2 /\ Unchanged(s))
      BY <1>1, <2>2 DEF Evidence
    <2>5. /\ evidence'[s].digest = evidence[s].digest
          /\ evidence'[s].seen = evidence[s].seen
      BY <1>1, <2>2 DEF Evidence
    <2>. QED  BY <2>2, <2>3, <2>4, <2>5
  <1>. QED  BY <1>5, <1>6, <1>7, <1>8, <1>9, <1>10, <1>11, <1>12 DEF ReadStep

\* What a step does to a session that does not take it.
LEMMA Aside ==
    ASSUME Types, [ShadowNext]_shadowVars, NEW s \in Sessions, ~SessionStep(s)
    PROVE  /\ evidence'[s] = evidence[s] /\ outcome'[s] = outcome[s]
           /\ s \in saved' <=> s \in saved
           /\ \/ pc'[s] = pc[s]
              \/ pc'[s] = "crashed" /\ pc[s] # "end"
           /\ \A side \in Sides : version'[side] >= version[side]
  <1>0. \A side \in Sides : version[side] \in Nat
    BY DEF Types, ShadowTypeOK
  <1>. USE DEF serverVars, localVars
  <1>1. CASE UNCHANGED shadowVars
    BY <1>0, <1>1 DEF shadowVars
  <1>2. CASE Environment
    BY <1>0, <1>2 DEF Environment, ServerNotices, Retire, ConnDies, Edit, Versions, Types,
       ShadowTypeOK
  <1>3. CASE \E r \in Sessions \ {s} : SessionStep(r)
    BY <1>0, <1>3, Others DEF Types
  <1>4. CASE \E S \in SUBSET Sessions : Crash(S)
    BY <1>0, <1>4 DEF Crash, Running
  <1>. QED  BY <1>1, <1>2, <1>3, <1>4, Steps

LEMMA DatedInit == ShadowInit => Dated
  BY DEF ShadowInit, Dated, Dates, Early, Looked, Unclaimed, Settled, Reads, BaselineReads,
     CandidateReads, NoEvidence

LEMMA DatedStep ==
    ASSUME Types, Dated, [ShadowNext]_shadowVars
    PROVE  Dated'
  <1>. SUFFICES ASSUME NEW s \in Sessions  PROVE Dates(s)'
    BY DEF Dated
  <1>. USE DEF Early, Looked, Unclaimed, Settled, Reads, BaselineReads, CandidateReads
  <1>0. /\ Dates(s)
        /\ evidence[s].digest \in Nat /\ evidence[s].base \in Nat /\ evidence[s].seen \subseteq Nat
        /\ version["baseline"] \in Nat /\ version["candidate"] \in Nat
    BY DEF Dated, Types, ShadowTypeOK, Evidence, Sides
  <1>1. CASE ~SessionStep(s)
    <2>1. /\ evidence'[s] = evidence[s] /\ (pc'[s] = pc[s] \/ pc'[s] = "crashed")
          /\ version'["baseline"] >= version["baseline"]
          /\ version'["candidate"] >= version["candidate"]
          /\ version'["baseline"] \in Nat /\ version'["candidate"] \in Nat
      BY <1>1, Aside, TypeStep DEF Sides, Types, ShadowTypeOK
    <2>2. CASE pc'[s] = pc[s]
      <3>1. \A v \in evidence[s].seen :
               /\ v <= version["baseline"] => v <= version'["baseline"]
               /\ v <= version["candidate"] => v <= version'["candidate"]
        BY <1>0, <2>1
      <3>2. /\ evidence[s].digest <= version["baseline"] => evidence[s].digest <= version'["baseline"]
            /\ evidence[s].digest <= version["candidate"] => evidence[s].digest <= version'["candidate"]
        BY <1>0, <2>1
      <3>. QED  BY <1>0, <2>1, <2>2, <3>1, <3>2 DEF Dates
    <2>3. CASE pc'[s] = "crashed"
      BY <2>3 DEF Dates
    <2>. QED  BY <2>1, <2>2, <2>3
  <1>2. CASE SessionStep(s)
    <2>. USE DEF serverVars, localVars, Advance, Fail
    <2>0. version' = version
      BY <1>2, Others DEF Types
    <2>1. ASSUME evidence' = evidence, pc'[s] \in Early, pc[s] \in Early,
                 pc'[s] \in Settled \cup {"snapshotC", "create"} =>
                    pc[s] \in {"snapshotC", "create"}
                    /\ evidence[s].digest <= version["candidate"]
          PROVE  Dates(s)'
      BY <1>0, <2>0, <2>1 DEF Dates
    <2>2. ASSUME pc'[s] \in {"probe", "probed", "relist", "redrop", "release", "save", "end"}
          PROVE  Dates(s)'
      BY <2>2 DEF Dates
    <2>3. CASE Connect(s) \/ GetLock(s)
      BY <2>1, <2>3 DEF Connect, GetLock, At, Types, ShadowTypeOK
    <2>4. CASE List(s) \/ DropIndex(s)
      <3>1. /\ evidence' = evidence
            /\ \/ pc[s] \in {"list", "drop"} /\ pc'[s] \in {"drop", "snapshotB"}
               \/ pc'[s] \in {"redrop", "release"}
        BY <2>4 DEF List, DropIndex, At, Cleaned, Drops, Types, ShadowTypeOK
      <3>. QED  BY <2>1, <2>2, <3>1
    <2>5. CASE CreateIndex(s)
      BY <2>1, <2>5, <1>0 DEF CreateIndex, At, Types, ShadowTypeOK, Dates
    <2>6. CASE CompareStep(s)
      <3>1. /\ evidence' = evidence
            /\ \/ /\ pc[s] = "snapshotC" /\ pc'[s] \in {"queriesB", "create"}
                  /\ version["candidate"] = evidence[s].digest
               \/ pc'[s] \in {"relist", "save"}
        BY <2>6 DEF CompareStep, SnapshotCandidate, AfterCandidate, At, Types, ShadowTypeOK
      <3>. QED  BY <1>0, <2>1, <2>2, <3>1
    <2>7. CASE Break(s) \/ LockBusy(s) \/ Release(s) \/ StepFails(s) \/ Save(s) \/ SaveRefused(s)
               \/ CreateProbe(s) \/ DropProbe(s)
      <3>1. pc'[s] \in {"probed", "relist", "release", "save", "end"}
        BY <2>7 DEF Break, LockBusy, Release, StepFails, Save, SaveRefused, CreateProbe,
           DropProbe, Disconnected, Saved, Types, ShadowTypeOK
      <3>. QED  BY <2>2, <3>1
    <2>8. CASE ReadStep(s)
      <3>. DEFINE e == evidence[s]
                  f == evidence'[s]
                  b == version["baseline"]
                  c == version["candidate"]
      <3>0. b \in Nat /\ c \in Nat /\ e.digest \in Nat /\ e.base \in Nat /\ e.seen \subseteq Nat
            /\ version'["baseline"] = b /\ version'["candidate"] = c
        BY <1>0, <2>0
      <3>1. CASE /\ pc[s] = "snapshotB" /\ pc'[s] = "snapshotC"
                 /\ f.digest = b /\ f.seen = e.seen /\ f.level2 = e.level2
        BY <1>0, <3>0, <3>1 DEF Dates
      <3>2. CASE pc[s] = "explain" /\ pc'[s] \in {"resultB", "relist"} /\ f = e
        BY <1>0, <3>0, <3>2 DEF Dates
      <3>3. CASE /\ \/ pc[s] = "queriesB" /\ pc'[s] = "queriesC"
                    \/ pc[s] = "resultB" /\ pc'[s] = "resultC"
                    \/ pc[s] = "sampleB" /\ pc'[s] = "sampleC"
                 /\ f.digest = e.digest /\ f.seen = e.seen \cup {b} /\ f.level2 = e.level2
        <4>1. \A v \in f.seen : f.digest <= v /\ (v <= b \/ v <= c)
          BY <1>0, <3>0, <3>3 DEF Dates
        <4>. QED  BY <1>0, <3>0, <3>3, <4>1 DEF Dates
      <3>4. CASE /\ \/ pc[s] = "queriesC" /\ pc'[s] \in {"resultB", "afterB"}
                    \/ pc[s] = "resultC" /\ pc'[s] \in {"sampleB", "afterB", "probe"}
                 /\ f.digest = e.digest /\ f.seen = e.seen \cup {c} /\ f.level2 = e.level2
        <4>1. \A v \in f.seen : f.digest <= v /\ (v <= b \/ v <= c)
          BY <1>0, <3>0, <3>4 DEF Dates
        <4>. QED  BY <1>0, <3>0, <3>4, <4>1 DEF Dates
      <3>5. CASE /\ pc[s] = "sampleC" /\ pc'[s] = "recheckB"
                 /\ f.digest = e.digest /\ f.seen = e.seen \cup {c}
        <4>1. \A v \in f.seen : f.digest <= v /\ (v <= b \/ v <= c)
          BY <1>0, <3>0, <3>5 DEF Dates
        <4>. QED  BY <1>0, <3>0, <3>5, <4>1 DEF Dates
      <3>6. CASE /\ \/ pc[s] = "recheckB" /\ pc'[s] = "recheckC"
                    \/ pc[s] = "afterB" /\ pc'[s] = "afterC"
                 /\ f.digest = e.digest /\ f.seen = e.seen /\ f.base = b
        BY <1>0, <3>0, <3>6 DEF Dates
      <3>7. CASE /\ pc[s] = "recheckC" /\ pc'[s] \in {"afterB", "probe"}
                 /\ f.digest = e.digest /\ f.seen = e.seen
        BY <1>0, <3>0, <3>7 DEF Dates
      <3>. QED  BY <2>8, <3>1, <3>2, <3>3, <3>4, <3>5, <3>6, <3>7, Findings
    <2>. QED  BY <1>2, <2>3, <2>4, <2>5, <2>6, <2>7, <2>8, SessionSteps DEF ShadowStep
  <1>. QED  BY <1>1, <1>2

\* The evidence of s is about one snapshot.
OneSnapshot(s) == evidence[s].seen = {evidence[s].digest}

\* A claim outlives the recheck, and a rewrite its closing snapshots, only if
\* all of the evidence is about one snapshot; a report is stored once, and
\* nothing succeeds without.
Claim(s) ==
    /\ ~IsRewrite(s) /\ evidence[s].level2 =>
          /\ pc[s] \in {"probe", "probed"} => OneSnapshot(s)
          /\ pc[s] \in {"relist", "redrop", "release", "save"} /\ outcome[s] = "none"
                => OneSnapshot(s)
          /\ outcome[s] = "ok" => OneSnapshot(s)
    /\ IsRewrite(s) /\ (s \in saved \/ pc[s] = "save") => OneSnapshot(s)
    /\ IsRewrite(s) /\ s \in saved => pc[s] \in {"relist", "redrop", "release", "end", "crashed"}
    /\ IsRewrite(s) /\ pc[s] \in {"relist", "redrop", "release"} => outcome[s] # "none"
    /\ ~IsRewrite(s) /\ s \in saved => pc[s] = "end"
    /\ outcome[s] = "ok" => s \in saved
    /\ pc[s] = "end" => outcome[s] # "none"

Claims == \A s \in Sessions : Claim(s)

LEMMA ClaimsInit == ShadowInit => Claims
  BY DEF ShadowInit, Claims, Claim

\* What is no older and no newer than the snapshot is the snapshot.
LEMMA SnapshotSeen ==
    ASSUME Types, NEW s \in Sessions, Dates(s), pc[s] \in {"recheckC", "afterC"},
           evidence[s].base = evidence[s].digest, version["candidate"] = evidence[s].digest
    PROVE  OneSnapshot(s)
  <1>1. /\ evidence[s].digest \in Nat /\ evidence[s].seen \subseteq Nat
        /\ pc[s] \in Settled /\ pc[s] \in Looked
    BY DEF Types, ShadowTypeOK, Evidence, Settled, Reads, BaselineReads, CandidateReads, Looked
  <1>2. \A v \in evidence[s].seen : evidence[s].digest <= v /\ v <= evidence[s].digest
    BY <1>1 DEF Dates
  <1>3. \A v \in evidence[s].seen : v = evidence[s].digest
    BY <1>1, <1>2
  <1>4. evidence[s].seen # {}
    BY <1>1 DEF Dates
  <1>. QED  BY <1>3, <1>4 DEF OneSnapshot

LEMMA ClaimsStep ==
    ASSUME Types, Dated, Tidy, Claims, [ShadowNext]_shadowVars
    PROVE  Claims'
  <1>. SUFFICES ASSUME NEW s \in Sessions  PROVE Claim(s)'
    BY DEF Claims
  <1>. USE DEF OneSnapshot
  <1>0. Claim(s) /\ Dates(s)
    BY DEF Claims, Dated
  <1>1. CASE ~SessionStep(s)
    <2>1. /\ evidence'[s] = evidence[s] /\ outcome'[s] = outcome[s]
          /\ s \in saved' <=> s \in saved
          /\ \/ pc'[s] = pc[s]
             \/ pc'[s] = "crashed" /\ pc[s] # "end"
      BY <1>1, Aside
    <2>. QED  BY <1>0, <2>1 DEF Claim
  <1>2. CASE SessionStep(s)
    <2>. USE DEF serverVars, localVars, Advance, Fail
    <2>1. ASSUME evidence' = evidence, saved' = saved, outcome'[s] = "failed",
                 \/ pc'[s] = "relist" /\ pc[s] \notin {"save", "end"}
                 \/ pc'[s] = "release" /\ pc[s] \in {"relist", "redrop"}
                 \/ pc'[s] = "end" /\ pc[s] # "end"
                 \/ pc'[s] = "save" /\ pc[s] # "end" /\ ~IsRewrite(s)
          PROVE  Claim(s)'
      BY <1>0, <2>1 DEF Claim
    <2>2. ASSUME evidence' = evidence, saved' = saved, outcome' = outcome,
                 pc[s] \in Early,
                 pc'[s] \in Early
          PROVE  Claim(s)'
      BY <1>0, <2>2 DEF Claim, Early
    <2>3. CASE Connect(s) \/ GetLock(s) \/ CreateIndex(s)
      BY <2>2, <2>3 DEF Connect, GetLock, CreateIndex, At, Early, Types, ShadowTypeOK
    <2>4. CASE LockBusy(s)
      BY <2>1, <2>4 DEF LockBusy, At, Disconnected, Types, ShadowTypeOK
    <2>5. CASE Break(s)
      <3>1. /\ evidence' = evidence /\ saved' = saved /\ pc[s] # "end"
            /\ pc'[s] = Disconnected(s)
            /\ \/ outcome'[s] = "failed"
               \/ outcome' = outcome /\ pc[s] = "release" /\ ~IsRewrite(s)
        BY <2>5 DEF Break, CandidatePlaces, CandidateReads, Types, ShadowTypeOK
      <3>2. CASE outcome' = outcome /\ pc[s] = "release" /\ ~IsRewrite(s)
        BY <1>0, <3>1, <3>2 DEF Claim, Disconnected
      <3>. QED  BY <2>1, <3>1, <3>2 DEF Disconnected
    <2>6. CASE StepFails(s)
      <3>1. /\ evidence' = evidence /\ saved' = saved /\ outcome'[s] = "failed"
            /\ \/ pc'[s] = "relist" /\ pc[s] \notin {"save", "end"}
               \/ pc'[s] = "release" /\ pc[s] \in {"relist", "redrop"}
        BY <2>6 DEF StepFails, At, BaselineReads, CandidateReads, Types, ShadowTypeOK
      <3>. QED  BY <2>1, <3>1
    <2>7. CASE Save(s)
      <3>1. PICK o \in Verdicts(s) : outcome' = [outcome EXCEPT ![s] = o]
        BY <2>7 DEF Save
      <3>2. /\ evidence' = evidence /\ saved' = saved \cup {s} /\ outcome'[s] = o
            /\ pc[s] = "save" /\ pc'[s] = Saved(s)
        BY <2>7, <3>1 DEF Save, Types, ShadowTypeOK
      <3>3. o # "none" /\ (o = "ok" => IsRewrite(s) \/ outcome[s] = "none")
        BY DEF Verdicts
      <3>. QED  BY <1>0, <3>2, <3>3 DEF Claim, Saved
    <2>8. CASE SaveRefused(s)
      <3>1. /\ evidence' = evidence /\ saved' = saved /\ outcome'[s] \in {"lost", "failed"}
            /\ pc[s] = "save" /\ pc'[s] = Saved(s)
        BY <2>8 DEF SaveRefused, Types, ShadowTypeOK
      <3>. QED  BY <1>0, <3>1 DEF Claim, Saved
    <2>9. CASE ReadStep(s)
      <3>1. PICK place \in Reads, found \in Evidence, next \in Places :
               Read(s, place, found, next) /\ Leads(s, place, next)
        BY <2>9, Reading DEF Types
      <3>2. /\ pc[s] = place /\ pc'[s] = next /\ outcome' = outcome /\ saved' = saved
            /\ place \in Reads
            /\ next \in Reads \/ (next \in {"probe", "relist"} /\ ~IsRewrite(s))
        BY <3>1 DEF Read, At, Leads, Settled, Reads, BaselineReads, CandidateReads, Types,
           ShadowTypeOK
      <3>3. s \notin saved /\ outcome[s] # "ok"
        BY <1>0, <3>2 DEF Claim, Reads, BaselineReads, CandidateReads
      <3>4. CASE next \notin {"probe", "relist"}
        BY <3>2, <3>3, <3>4 DEF Claim, Reads, BaselineReads, CandidateReads
      <3>5. CASE next \in {"probe", "relist"}
        <4>1. ~IsRewrite(s)
          BY <3>2, <3>5 DEF Reads, BaselineReads, CandidateReads
        <4>2. evidence'[s].level2 => OneSnapshot(s)'
          <5>1. CASE pc[s] = "explain" /\ evidence'[s] = evidence[s]
            BY <1>0, <5>1 DEF Dates, Early
          <5>2. CASE pc[s] = "resultC" /\ evidence'[s].level2 = evidence[s].level2
            BY <1>0, <5>2 DEF Dates, Unclaimed
          <5>3. CASE /\ pc[s] = "recheckC"
                     /\ evidence'[s].digest = evidence[s].digest
                     /\ evidence'[s].seen = evidence[s].seen
                     /\ evidence'[s].level2 => evidence[s].base = evidence[s].digest
                                               /\ version["candidate"] = evidence[s].digest
            BY <1>0, <5>3, SnapshotSeen
          <5>. QED  BY <2>9, <3>2, <3>5, <5>1, <5>2, <5>3, Findings
        <4>. QED  BY <3>2, <3>3, <3>5, <4>1, <4>2 DEF Claim
      <3>. QED  BY <3>4, <3>5
    <2>10. CASE SnapshotCandidate(s)
      <3>1. /\ evidence' = evidence /\ saved' = saved /\ pc[s] = "snapshotC"
            /\ \/ outcome' = outcome /\ pc'[s] \in {"queriesB", "create"}
               \/ outcome'[s] = "failed" /\ pc'[s] = "relist"
        BY <2>10 DEF SnapshotCandidate, At, Types, ShadowTypeOK
      <3>. QED  BY <2>1, <2>2, <3>1 DEF Early
    <2>11. CASE AfterCandidate(s)
      <3>1. /\ evidence' = evidence /\ saved' = saved /\ pc[s] = "afterC"
            /\ \/ outcome' = outcome /\ pc'[s] = "save" /\ Unchanged(s)
               \/ outcome'[s] = "failed" /\ pc'[s] = "relist"
        BY <2>11 DEF AfterCandidate, At, Types, ShadowTypeOK
      <3>2. CASE outcome' = outcome /\ pc'[s] = "save" /\ Unchanged(s)
        <4>1. evidence[s].base = evidence[s].digest /\ version["candidate"] = evidence[s].digest
          BY <3>2 DEF Unchanged
        <4>2. OneSnapshot(s)
          BY <1>0, <3>1, <4>1, SnapshotSeen
        <4>3. IsRewrite(s)
          BY <3>1 DEF Types, Placed, RewritePlaces
        <4>. QED  BY <1>0, <3>1, <3>2, <4>2, <4>3 DEF Claim
      <3>. QED  BY <2>1, <3>1, <3>2
    <2>12. CASE List(s) \/ DropIndex(s)
      <3>1. /\ evidence' = evidence /\ saved' = saved /\ outcome' = outcome
            /\ \/ pc[s] \in {"list", "drop"} /\ pc'[s] \in {"drop", "snapshotB"}
               \/ pc[s] \in {"relist", "redrop"} /\ pc'[s] \in {"redrop", "release"}
        BY <2>12 DEF List, DropIndex, At, Cleaned, Drops, Types, ShadowTypeOK
      <3>. QED  BY <1>0, <2>2, <3>1 DEF Claim, Early
    <2>13. CASE CreateProbe(s) \/ DropProbe(s)
      <3>1. /\ evidence' = evidence /\ saved' = saved /\ outcome' = outcome
            /\ pc[s] \in {"probe", "probed"} /\ pc'[s] \in {"probed", "relist"}
            /\ ~IsRewrite(s)
        BY <2>13 DEF CreateProbe, DropProbe, At, Types, ShadowTypeOK, Placed, IndexPlaces
      <3>. QED  BY <1>0, <3>1 DEF Claim
    <2>14. CASE Release(s)
      <3>1. /\ evidence' = evidence /\ saved' = saved /\ outcome' = outcome
            /\ pc[s] = "release" /\ pc'[s] = Disconnected(s)
        BY <2>14 DEF Release, At, Types, ShadowTypeOK
      <3>. QED  BY <1>0, <3>1 DEF Claim, Disconnected
    <2>. QED  BY <1>2, <2>3, <2>4, <2>5, <2>6, <2>7, <2>8, <2>9, <2>10, <2>11, <2>12, <2>13,
              <2>14, SessionSteps DEF ShadowStep, CompareStep
  <1>. QED  BY <1>1, <1>2

ShadowInv == Wired /\ Known /\ Tidy /\ Dated /\ Claims

LEMMA ShadowInvHolds == ShadowSpec => []ShadowInv
  <1>1. ShadowInit => ShadowInv
    BY WiredInit, KnownInit, TidyInit, DatedInit, ClaimsInit DEF ShadowInv
  <1>2. ShadowInv /\ [ShadowNext]_shadowVars => ShadowInv'
    BY WiredStep, KnownStep, TidyStep, DatedStep, ClaimsStep DEF ShadowInv, Wired
  <1>. QED  BY <1>1, <1>2, PTL DEF ShadowSpec

\* A stored report of a success claims only what was found on the data it
\* names, whenever data is imported (rewrite.go:125, benchmark.go:158).
THEOREM ClaimsOnSnapshot == ShadowSpec => []EvidenceOnSnapshot
  <1>1. ShadowInv => EvidenceOnSnapshot
    BY DEF ShadowInv, Wired, Types, ShadowTypeOK, Claims, Claim, OneSnapshot, EvidenceOnSnapshot
  <1>. QED  BY <1>1, ShadowInvHolds, PTL

-----------------------------------------------------------------------------
(* What a caller relies on *)

LEMMA StageInit == ShadowInit => Promise!RunnerInit
  BY DEF ShadowInit, Promise!RunnerInit, Stage

\* Every step of a session is a step of the promised Runner, or none at all.
LEMMA StageStep ==
    ASSUME ShadowInv, ShadowInv', [ShadowNext]_shadowVars
    PROVE  [Promise!RunnerNext]_(Promise!runnerVars)
  <1>. USE DEF Promise!RunnerNext, Promise!runnerVars
  <1>0. /\ pc \in [Sessions -> Places] /\ outcome \in [Sessions -> ShadowOutcomes]
        /\ pc' \in [Sessions -> Places] /\ outcome' \in [Sessions -> ShadowOutcomes]
    BY DEF ShadowInv, Wired, Types, ShadowTypeOK
  <1>1. ASSUME \A s \in Sessions : Stage'[s] = Stage[s]  PROVE Stage' = Stage
    BY <1>1 DEF Stage
  <1>. USE DEF serverVars, localVars, Advance, Fail
  <1>2. CASE UNCHANGED shadowVars \/ Environment
    <2>1. UNCHANGED <<pc, outcome, saved>>
      BY <1>2 DEF shadowVars, Environment, ServerNotices, Retire, ConnDies, Edit
    <2>. QED  BY <2>1 DEF Stage
  <1>3. ASSUME NEW S \in SUBSET Sessions, Crash(S)
        PROVE  Promise!RunnerNext
    <2>1. UNCHANGED <<outcome, saved>>
          /\ pc' = [s \in Sessions |-> IF s \in S THEN "crashed" ELSE pc[s]]
          /\ \A s \in S : pc[s] \notin {"idle", "end", "crashed"}
      BY <1>3 DEF Crash, Running
    <2>2. Promise!CrashRuns(S)
      BY <1>0, <2>1 DEF Promise!CrashRuns, Stage
    <2>3. Promise!EndRuns(S)
      <3>. DEFINE end == [s \in S |-> "crashed"]
      <3>1. end \in [S -> (Promise!Results \ {"ok"}) \cup {"crashed"}]
        OBVIOUS
      <3>2. Stage' = [s \in Sessions |-> IF s \in S THEN end[s] ELSE Stage[s]]
        BY <2>2 DEF Promise!CrashRuns
      <3>. QED  BY <2>2, <3>1, <3>2 DEF Promise!EndRuns, Promise!CrashRuns
    <2>. QED  BY <2>3
  <1>4. ASSUME NEW s \in Sessions, SessionStep(s)
        PROVE  Promise!RunnerNext \/ UNCHANGED Promise!runnerVars
    <2>0. Claim(s) /\ Claim(s)'
      BY DEF ShadowInv, Claims
    <2>1. /\ \A t \in Sessions \ {s} : Stage'[t] = Stage[t]
          /\ saved' = saved \/ saved' = saved \cup {s}
      <3>1. /\ \A t \in Sessions \ {s} : pc'[t] = pc[t] /\ outcome'[t] = outcome[t]
            /\ saved \subseteq saved' /\ saved' \subseteq saved \cup {s}
        BY <1>4, Others DEF ShadowInv, Wired, Types
      <3>. QED  BY <3>1 DEF Stage
    <2>2. \A x : Stage'[s] = x => Stage' = [Stage EXCEPT ![s] = x]
      BY <2>1 DEF Stage
    <2>3. ASSUME pc[s] \notin {"idle", "end", "crashed"}
          PROVE  Stage[s] = "running"
      BY <2>3 DEF Stage
    <2>4. ASSUME pc'[s] \notin {"idle", "end", "crashed"}
          PROVE  Stage'[s] = "running"
      BY <2>4 DEF Stage
    <2>5. ASSUME pc'[s] = "end"
          PROVE  Stage'[s] = outcome'[s] /\ outcome'[s] \in Promise!Results
      BY <1>0, <2>0, <2>5 DEF Stage, Claim, ShadowOutcomes, Promise!Results
    <2>6. ASSUME pc[s] \notin {"idle", "end", "crashed"},
                 pc'[s] \notin {"idle", "end", "crashed"}, saved' = saved
          PROVE  UNCHANGED Promise!runnerVars
      BY <1>1, <2>1, <2>3, <2>4, <2>6
    <2>7. ASSUME pc[s] \notin {"idle", "end", "crashed"}, pc'[s] = "end", saved' = saved
          PROVE  Promise!RunnerNext
      <3>1. outcome'[s] = "ok" => s \in saved
        BY <2>0, <2>7 DEF Claim
      <3>2. Promise!ReturnFrom(s)
        BY <2>2, <2>3, <2>5, <2>7, <3>1 DEF Promise!ReturnFrom
      <3>. QED  BY <3>2
    <2>8. CASE Connect(s)
      <3>1. pc[s] = "idle" /\ pc'[s] = "lock" /\ saved' = saved
        BY <1>0, <2>8 DEF Connect
      <3>2. Promise!BeginRun(s)
        BY <2>2, <2>4, <3>1 DEF Promise!BeginRun, Stage
      <3>. QED  BY <3>2
    <2>9. CASE Save(s)
      <3>1. pc[s] = "save" /\ saved' = saved \cup {s} /\ pc'[s] = Saved(s)
        BY <1>0, <2>9 DEF Save
      <3>2. s \notin saved
        BY <2>0, <3>1 DEF Claim
      <3>3. CASE pc'[s] = "end"
        <4>1. Promise!StoreAndReturn(s)
          BY <2>2, <2>3, <2>5, <3>1, <3>2, <3>3 DEF Promise!StoreAndReturn
        <4>. QED  BY <4>1
      <3>4. CASE pc'[s] = "relist"
        <4>1. Stage' = Stage
          BY <1>1, <2>1, <2>3, <2>4, <3>1, <3>4
        <4>2. Promise!StoreReport(s)
          BY <2>3, <3>1, <3>2, <4>1 DEF Promise!StoreReport
        <4>. QED  BY <4>2
      <3>. QED  BY <3>1, <3>3, <3>4 DEF Saved
    <2>10. CASE ~Connect(s) /\ ~Save(s)
      <3>1. pc[s] \notin {"idle", "end", "crashed"} /\ pc'[s] \notin {"idle", "crashed"}
            /\ saved' = saved
        <4>1. CASE ReadStep(s)
          <5>1. PICK place \in Reads, found \in Evidence, next \in Places :
                   Read(s, place, found, next) /\ Leads(s, place, next)
            BY <4>1, Reading DEF ShadowInv, Wired, Types
          <5>. QED  BY <1>0, <5>1 DEF Read, At, Leads, Settled, Reads, BaselineReads, CandidateReads
        <4>2. CASE CompareStep(s)
          BY <1>0, <4>2 DEF CompareStep, SnapshotCandidate, AfterCandidate, At
        <4>3. CASE Break(s) \/ StepFails(s)
          BY <1>0, <4>3 DEF Break, StepFails, At, CandidatePlaces, CandidateReads, BaselineReads,
             Disconnected
        <4>4. CASE SaveRefused(s)
          BY <1>0, <4>4 DEF SaveRefused, Saved
        <4>5. CASE List(s) \/ DropIndex(s)
          BY <1>0, <4>5 DEF List, DropIndex, At, Cleaned, Drops
        <4>6. CASE GetLock(s) \/ LockBusy(s) \/ CreateIndex(s) \/ CreateProbe(s) \/ DropProbe(s)
                   \/ Release(s)
          BY <1>0, <4>6 DEF GetLock, LockBusy, CreateIndex, CreateProbe, DropProbe, Release, At,
             Disconnected
        <4>. QED  BY <1>4, <2>10, <4>1, <4>2, <4>3, <4>4, <4>5, <4>6, SessionSteps DEF ShadowStep
      <3>. QED  BY <2>6, <2>7, <3>1
    <2>. QED  BY <2>8, <2>9, <2>10
  <1>. QED  BY <1>2, <1>3, <1>4, Steps

\* A session is the Runner that a worker, or the verifier, relies on: it stores
\* one report at most and succeeds only with a stored report (runner.go:188).
THEOREM ShadowKeepsPromise == ShadowSpec => RunnerKept
  <1>1. ShadowInv /\ ShadowInv' /\ [ShadowNext]_shadowVars
          => [Promise!RunnerNext]_(Promise!runnerVars)
    BY StageStep
  <1>. QED  BY <1>1, StageInit, ShadowInvHolds, PTL DEF ShadowSpec, RunnerKept, Promise!RunnerSpec

=============================================================================
