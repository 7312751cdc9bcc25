------------------------- MODULE VerifierRPCProofs -------------------------
(***************************************************************************)
(* Proofs about VerifierRPC, for all jobs, tries, slots and bounds: its    *)
(* inductive invariant, the properties it implies, and that to a worker    *)
(* the verifier is a Runner (RemoteRunnerKept).                            *)
(***************************************************************************)
EXTENDS VerifierRPC, FiniteSetTheorems, TLAPS

-----------------------------------------------------------------------------
(* Calls inside the server *)

\* The calls inside Server.Run are finitely many (service.go:40 counts them).
LEMMA InsideFinite == IsFiniteSet(Inside) /\ IsFiniteSet(Inside')
  BY VerifierAssumption, FS_Subset DEF Inside

\* A call that enters takes one slot more (service.go:40).
LEMMA Entering ==
    ASSUME handler \in [Sessions -> HandlerStates], NEW s \in Sessions,
           handler[s] = "none", handler' = [handler EXCEPT ![s] = "admitted"]
    PROVE  /\ Inside' = Inside \cup {s}
           /\ Cardinality(Inside') = Cardinality(Inside) + 1
           /\ Enlisted' = Enlisted
  <1>1. Inside' = Inside \cup {s} /\ s \notin Inside /\ Enlisted' = Enlisted
    BY DEF Inside, Enlisted
  <1>. QED  BY <1>1, InsideFinite, FS_AddElement

\* A call that returns gives back one slot, and its job if it was enlisted
\* (service.go:41, :52).
LEMMA Leaving ==
    ASSUME VerifierTypeOK, OneEnlisted, NEW s \in Inside, NEW status \in Replies,
           Return(s, status)
    PROVE  /\ Inside' = Inside \ {s} /\ Enlisted' = Enlisted \ {s}
           /\ slots' \in 0..Slots /\ slots' = Cardinality(Inside')
           /\ active' = {JobOf[t] : t \in Enlisted'}
           /\ handler' \in [Sessions -> HandlerStates]
           /\ reply' \in [Sessions -> Replies]
           /\ ended' \subseteq Inside'
  <1>1. Inside' = Inside \ {s} /\ Enlisted' = Enlisted \ {s}
    BY DEF VerifierTypeOK, Return, Inside, Enlisted
  <1>2. Cardinality(Inside') = Cardinality(Inside) - 1 /\ Cardinality(Inside) \in Nat
    BY <1>1, InsideFinite, FS_RemoveElement, FS_CardinalityType
  <1>3. Cardinality(Inside') \in Nat
    BY InsideFinite, FS_CardinalityType
  <1>4. slots' \in 0..Slots /\ slots' = Cardinality(Inside')
    BY <1>2, <1>3, VerifierAssumption DEF VerifierTypeOK, Return
  <1>5. active' = {JobOf[t] : t \in Enlisted'}
    BY <1>1 DEF VerifierTypeOK, OneEnlisted, Return
  <1>6. handler' \in [Sessions -> HandlerStates] /\ ended' \subseteq Inside'
    BY <1>1 DEF VerifierTypeOK, Return, HandlerStates
  <1>7. reply' \in [Sessions -> Replies]
    BY DEF VerifierTypeOK, Return, Heard, Replies, Inside
  <1>. QED  BY <1>1, <1>4, <1>5, <1>6, <1>7

-----------------------------------------------------------------------------
(* The invariant is kept, one action at a time *)

LEMMA ClaimKeeps == ASSUME VInv, NEW s \in Sessions, Claim(s)  PROVE VInv'
  <1> USE TriesAssumption DEF VInv, Claim, jobVars, leaseVars, runnerVars, serverVars
  <1>1. VerifierTypeOK'
    BY DEF VerifierTypeOK, ClientStates, NotCalled, Inside, Enlisted
  <1>2. Called'
    BY DEF Called, NotCalled
  <1>3. OneEnlisted'
    BY DEF OneEnlisted, Enlisted
  <1>4. Told'
    BY DEF Told
  <1>5. Owned' /\ Referred'
    BY DEF VerifierTypeOK, Called, NotCalled, Owned, Referred, Holds, LeasedRef, NoVerdict
  <1>6. CompletedByItsRun'
    BY DEF CompletedByItsRun
  <1>. QED  BY <1>1, <1>2, <1>3, <1>4, <1>5, <1>6

LEMMA ReadRowKeeps == ASSUME VInv, NEW s \in Sessions, ReadRow(s)  PROVE VInv'
  <1> USE TriesAssumption DEF VInv, ReadRow, jobVars, leaseVars, runnerVars, serverVars
  <1>0. /\ handler[s] = "none" /\ run[s] = "idle" /\ s \notin stored
        /\ Inside' = Inside /\ Enlisted' = Enlisted
    BY DEF Called, NotCalled, Inside, Enlisted
  <1>1. VerifierTypeOK'
    BY <1>0 DEF VerifierTypeOK, ClientStates, NotCalled
  <1>2. Called'
    BY <1>0 DEF VerifierTypeOK, Called, NotCalled
  <1>3. OneEnlisted'
    BY <1>0 DEF OneEnlisted
  <1>4. Told'
    BY DEF VerifierTypeOK, Told
  <1>5. Owned' /\ Referred'
    <2>1. Owned'
      BY DEF VerifierTypeOK, Owned
    <2>2. /\ ref'[s] = owner[JobOf[s]]
          /\ ref'[s] # None => client[ref'[s]] # "idle" /\ JobOf[ref'[s]] = JobOf[s]
      BY DEF VerifierTypeOK, Owned
    <2>3. \A t \in Sessions \ {s} : ref'[t] = ref[t] /\ client'[t] = client[t]
      BY DEF VerifierTypeOK
    <2>4. client'[s] = "waiting"
      BY DEF VerifierTypeOK
    <2>5. ASSUME NEW t \in Sessions
          PROVE  /\ ref'[t] # None => client'[ref'[t]] # "idle" /\ JobOf[ref'[t]] = JobOf[t]
                 /\ client'[t] \notin NotCalled /\ owner[JobOf[t]] = t => ref'[t] = t
      BY <2>2, <2>3, <2>4 DEF VerifierTypeOK, Referred
    <2>6. ASSUME NEW t \in stored, LeasedRef(t)'
          PROVE  report[JobOf[t]] \in stored /\ ref'[report[JobOf[t]]] = ref'[t]
      <3>1. t # s /\ t \in Sessions /\ LeasedRef(t)
        BY <1>0, <2>3, <2>6 DEF VerifierTypeOK, LeasedRef, Holds
      <3>2. report[JobOf[t]] \in stored /\ ref[report[JobOf[t]]] = ref[t]
        BY <3>1 DEF Referred
      <3>. QED  BY <1>0, <2>3, <3>1, <3>2 DEF VerifierTypeOK
    <2>7. UNCHANGED <<owner, report, stored>>
      OBVIOUS
    <2>. QED  BY <2>1, <2>5, <2>6, <2>7 DEF Referred
  <1>6. CompletedByItsRun'
    BY <1>0 DEF VerifierTypeOK, CompletedByItsRun
  <1>. QED  BY <1>1, <1>2, <1>3, <1>4, <1>5, <1>6

LEMMA ClaimFailsKeeps == ASSUME VInv, NEW s \in Sessions, ClaimFails(s)  PROVE VInv'
  <1> USE TriesAssumption DEF VInv, ClaimFails, Fault, jobVars, leaseVars, runnerVars, serverVars
  <1>0. Inside' = Inside /\ Enlisted' = Enlisted
    BY DEF Inside, Enlisted
  <1>1. VerifierTypeOK'
    BY <1>0 DEF VerifierTypeOK, ClientStates, NotCalled
  <1>2. Called'
    BY DEF VerifierTypeOK, Called, NotCalled
  <1>3. OneEnlisted'
    BY <1>0 DEF OneEnlisted
  <1>4. Told'
    BY DEF VerifierTypeOK, Told
  <1>5. Owned' /\ Referred'
    BY DEF VerifierTypeOK, Owned, Referred, Holds, LeasedRef, NotCalled
  <1>6. CompletedByItsRun'
    BY DEF CompletedByItsRun
  <1>. QED  BY <1>1, <1>2, <1>3, <1>4, <1>5, <1>6

LEMMA GiveUpKeeps == ASSUME VInv, NEW s \in Sessions, GiveUp(s)  PROVE VInv'
  <1> USE TriesAssumption DEF VInv, GiveUp, Fault, Results, jobVars, leaseVars, runnerVars, serverVars
  <1>0. /\ Inside' = Inside /\ Enlisted' = Enlisted
        /\ \A t \in Sessions : /\ client'[t] \in NotCalled <=> client[t] \in NotCalled
                               /\ client'[t] = "idle" <=> client[t] = "idle"
    BY DEF VerifierTypeOK, Inside, Enlisted, NotCalled
  <1>1. VerifierTypeOK'
    BY <1>0 DEF VerifierTypeOK, ClientStates, NotCalled, Replies
  <1>2. Called'
    BY <1>0 DEF Called, NotCalled
  <1>3. OneEnlisted'
    BY DEF OneEnlisted, Enlisted
  <1>4. Told'
    BY DEF Told
  <1>5. Owned' /\ Referred'
    BY <1>0 DEF VerifierTypeOK, Owned, Referred, Holds, LeasedRef, NotCalled
  <1>6. CompletedByItsRun'
    BY DEF CompletedByItsRun
  <1>. QED  BY <1>1, <1>2, <1>3, <1>4, <1>5, <1>6

LEMMA WorkerCrashKeeps == ASSUME VInv, NEW s \in Sessions, WorkerCrash(s)  PROVE VInv'
  <1> USE TriesAssumption DEF VInv, WorkerCrash, Fault, jobVars, leaseVars, runnerVars, serverVars
  <1>0. /\ Inside' = Inside /\ Enlisted' = Enlisted
        /\ \A t \in Sessions : /\ client'[t] \in NotCalled <=> client[t] \in NotCalled
                               /\ client'[t] = "idle" <=> client[t] = "idle"
    BY DEF VerifierTypeOK, Inside, Enlisted, NotCalled
  <1>1. VerifierTypeOK'
    BY <1>0 DEF VerifierTypeOK, ClientStates, NotCalled, Replies
  <1>2. Called'
    BY <1>0 DEF Called, NotCalled
  <1>3. OneEnlisted'
    BY DEF OneEnlisted, Enlisted
  <1>4. Told'
    BY DEF Told
  <1>5. Owned' /\ Referred'
    BY <1>0 DEF VerifierTypeOK, Owned, Referred, Holds, LeasedRef, NotCalled
  <1>6. CompletedByItsRun'
    BY DEF CompletedByItsRun
  <1>. QED  BY <1>1, <1>2, <1>3, <1>4, <1>5, <1>6

LEMMA VerdictKeeps == ASSUME VInv, NEW s \in Sessions, Verdict(s)  PROVE VInv'
  <1> USE TriesAssumption DEF VInv, Verdict, NoVerdict, jobVars, leaseVars, runnerVars, serverVars
  <1>0. Inside' = Inside /\ Enlisted' = Enlisted
    BY DEF Inside, Enlisted
  <1>1. VerifierTypeOK'
    <2>1. owner' \in [Jobs -> Sessions \cup {None}] /\ live' \in [Jobs -> BOOLEAN]
      BY DEF VerifierTypeOK
    <2>2. verdict' \in [Jobs -> [kind: {"none", "COMPLETED", "REJECTED"},
                                 by: Sessions \cup {None}]]
      <3>. DEFINE V == [kind: {"none", "COMPLETED", "REJECTED"}, by: Sessions \cup {None}]
      <3>1. [kind |-> "COMPLETED", by |-> s] \in V /\ [kind |-> "REJECTED", by |-> s] \in V
        OBVIOUS
      <3>2. \/ verdict' = verdict
            \/ verdict' = [verdict EXCEPT ![JobOf[s]] = [kind |-> "COMPLETED", by |-> s]]
            \/ verdict' = [verdict EXCEPT ![JobOf[s]] = [kind |-> "REJECTED", by |-> s]]
        OBVIOUS
      <3>3. verdict \in [Jobs -> V]
        BY DEF VerifierTypeOK
      <3>. HIDE DEF V
      <3>4. verdict' \in [Jobs -> V]
        BY <3>1, <3>2, <3>3
      <3>. QED BY <3>4 DEF V
    <2>. QED BY <1>0, <2>1, <2>2 DEF VerifierTypeOK, Replies
  <1>2. Called'
    BY DEF Called, NotCalled
  <1>3. OneEnlisted'
    BY DEF OneEnlisted, Enlisted
  <1>4. Told'
    BY DEF Told
  <1>5. Owned' /\ Referred'
    BY DEF VerifierTypeOK, Owned, Referred, Holds, LeasedRef, Leased
  <1>6. CompletedByItsRun'
    BY DEF VerifierTypeOK, Called, NotCalled, Told, Owned, Referred, Holds, LeasedRef, Leased,
       CompletedByItsRun
  <1>. QED  BY <1>1, <1>2, <1>3, <1>4, <1>5, <1>6

LEMMA AdmitKeeps == ASSUME VInv, NEW s \in Sessions, Admit(s)  PROVE VInv'
  <1> USE TriesAssumption DEF VInv, Admit, HandlerStates, jobVars, leaseVars, runnerVars, serverVars
  <1>0. /\ Inside' = Inside \cup {s} /\ Enlisted' = Enlisted
        /\ Cardinality(Inside') = Cardinality(Inside) + 1
    BY Entering DEF VerifierTypeOK
  <1>1. VerifierTypeOK'
    BY <1>0, VerifierAssumption DEF VerifierTypeOK
  <1>2. Called'
    BY DEF Called, NotCalled
  <1>3. OneEnlisted'
    BY DEF OneEnlisted, Enlisted
  <1>4. Told'
    BY DEF Told
  <1>5. Owned' /\ Referred'
    BY DEF VerifierTypeOK, Owned, Referred, Holds, LeasedRef
  <1>6. CompletedByItsRun'
    BY DEF CompletedByItsRun
  <1>. QED  BY <1>1, <1>2, <1>3, <1>4, <1>5, <1>6

LEMMA CancelledKeeps == ASSUME VInv, NEW s \in Sessions, Cancelled(s)  PROVE VInv'
  <1> USE TriesAssumption DEF VInv, Cancelled, Fault, jobVars, leaseVars, runnerVars, serverVars
  <1>1. VerifierTypeOK'
    BY DEF VerifierTypeOK, Inside, Enlisted
  <1>2. Called'
    BY DEF Called, NotCalled
  <1>3. OneEnlisted'
    BY DEF OneEnlisted, Enlisted
  <1>4. Told'
    BY DEF Told
  <1>5. Owned' /\ Referred'
    BY DEF VerifierTypeOK, Owned, Referred, Holds, LeasedRef
  <1>6. CompletedByItsRun'
    BY DEF CompletedByItsRun
  <1>. QED  BY <1>1, <1>2, <1>3, <1>4, <1>5, <1>6

LEMMA StoreKeeps == ASSUME VInv, NEW s \in Sessions, Store(s)  PROVE VInv'
  <1> USE TriesAssumption DEF VInv, Store, StoreReport, jobVars, leaseVars, runnerVars, serverVars
  <1>1. VerifierTypeOK'
    BY DEF VerifierTypeOK, Inside, Enlisted
  <1>2. Called'
    BY DEF Called, NotCalled
  <1>3. OneEnlisted'
    BY DEF OneEnlisted, Enlisted
  <1>4. Told'
    BY DEF Told
  <1>5. Owned' /\ Referred'
    BY DEF VerifierTypeOK, Owned, Referred, Holds, LeasedRef, Leased
  <1>6. CompletedByItsRun'
    BY DEF VerifierTypeOK, Owned, CompletedByItsRun, Holds, LeasedRef, NoVerdict
  <1>. QED  BY <1>1, <1>2, <1>3, <1>4, <1>5, <1>6

LEMMA RunnerReturnsKeeps == ASSUME VInv, NEW s \in Sessions, RunnerReturns(s)  PROVE VInv'
  <1> USE TriesAssumption
      DEF VInv, RunnerReturns, ReturnFrom, Results, jobVars, leaseVars, runnerVars, serverVars
  <1>1. VerifierTypeOK'
    BY DEF VerifierTypeOK, Inside, Enlisted
  <1>2. Called'
    BY DEF Called, NotCalled
  <1>3. OneEnlisted'
    BY DEF OneEnlisted, Enlisted
  <1>4. Told'
    BY DEF Told
  <1>5. Owned' /\ Referred'
    BY DEF VerifierTypeOK, Owned, Referred, Holds, LeasedRef
  <1>6. CompletedByItsRun'
    BY DEF CompletedByItsRun
  <1>. QED  BY <1>1, <1>2, <1>3, <1>4, <1>5, <1>6

LEMMA LeaseEndsKeeps == ASSUME VInv, NEW j \in Jobs, LeaseEnds(j)  PROVE VInv'
  <1> USE TriesAssumption DEF VInv, LeaseEnds, Fault, jobVars, leaseVars, runnerVars, serverVars
  <1>1. VerifierTypeOK'
    BY DEF VerifierTypeOK, Inside, Enlisted
  <1>2. Called'
    BY DEF Called, NotCalled
  <1>3. OneEnlisted'
    BY DEF OneEnlisted, Enlisted
  <1>4. Told'
    BY DEF Told
  <1>5. Owned' /\ Referred'
    BY DEF VerifierTypeOK, Owned, Referred, Holds, LeasedRef
  <1>6. CompletedByItsRun'
    BY DEF CompletedByItsRun
  <1>. QED  BY <1>1, <1>2, <1>3, <1>4, <1>5, <1>6

LEMMA RecoverKeeps == ASSUME VInv, NEW j \in Jobs, Recover(j)  PROVE VInv'
  <1> USE TriesAssumption DEF VInv, Recover, jobVars, leaseVars, runnerVars, serverVars
  <1>1. VerifierTypeOK'
    BY DEF VerifierTypeOK, Inside, Enlisted
  <1>2. Called'
    BY DEF Called, NotCalled
  <1>3. OneEnlisted'
    BY DEF OneEnlisted, Enlisted
  <1>4. Told'
    BY DEF Told
  <1>5. Owned' /\ Referred'
    BY DEF VerifierTypeOK, Owned, Referred, Holds, LeasedRef
  <1>6. CompletedByItsRun'
    BY DEF CompletedByItsRun
  <1>. QED  BY <1>1, <1>2, <1>3, <1>4, <1>5, <1>6

\* A call that returns with a reply its Runner covers (service.go:41-98).
LEMMA ReturnKeeps ==
    ASSUME VInv, NEW s \in Inside, run[s] # "running", NEW status \in Replies,
           status = "completed" => run[s] = "ok",
           Return(s, status), UNCHANGED <<jobVars, runnerVars, client>>, faults' \in Nat
    PROVE  VInv'
  <1> USE DEF VInv, jobVars, leaseVars, runnerVars
  <1>0. s \in Sessions /\ client[s] \notin NotCalled
    BY DEF Called, Inside
  <1>1. VerifierTypeOK'
    BY Leaving DEF VerifierTypeOK
  <1>2. Called'
    BY <1>0 DEF Called, Return
  <1>3. OneEnlisted'
    BY Leaving DEF OneEnlisted
  <1>4. Told'
    BY <1>0 DEF Told, Return, Heard
  <1>5. Owned' /\ Referred'
    BY DEF VerifierTypeOK, Owned, Referred, Holds, LeasedRef
  <1>6. CompletedByItsRun'
    BY DEF CompletedByItsRun
  <1>. QED  BY <1>1, <1>2, <1>3, <1>4, <1>5, <1>6

LEMMA ReceiveKeeps == ASSUME VInv, NEW s \in Sessions, Receive(s)  PROVE VInv'
  <1> USE DEF VInv, jobVars, leaseVars, runnerVars, serverVars
  <1> DEFINE result == Received(s)
  <1>0. /\ client[s] = "waiting" /\ client' = [client EXCEPT ![s] = result]
        /\ reply' = [reply EXCEPT ![s] = "none"]
        /\ UNCHANGED <<jobVars, runnerVars, serverVars, ended, faults>>
    BY DEF Receive
  <1>1. result \in Results /\ (result = "ok" => run[s] = "ok")
    <2>1. reply[s] \in {"completed", "FailedPrecondition", "Aborted", "other"}
      BY DEF Receive, VerifierTypeOK, Replies
    <2>2. reply[s] = "completed" => run[s] = "ok"
      BY DEF Told
    <2>. QED  BY <2>1, <2>2 DEF Received, Results
  <1> HIDE DEF result
  <1>2. /\ client' \in [Sessions -> ClientStates] /\ reply' \in [Sessions -> Replies]
        /\ \A t \in Sessions : /\ client'[t] \in NotCalled <=> client[t] \in NotCalled
                               /\ client'[t] = "idle" <=> client[t] = "idle"
        /\ \A t \in Sessions : client'[t] = "ok" => run[t] = "ok"
    BY <1>0, <1>1 DEF VerifierTypeOK, Told, ClientStates, NotCalled, Results, Replies
  <1>3. /\ Inside' = Inside /\ Enlisted' = Enlisted
        /\ UNCHANGED <<owner, live, verdict, ref, report, run, stored, handler>>
    BY <1>0 DEF Inside, Enlisted
  <1>4. VerifierTypeOK'
    BY <1>0, <1>2, <1>3 DEF VerifierTypeOK
  <1>5. Called'
    BY <1>2, <1>3 DEF Called, NotCalled
  <1>6. OneEnlisted'
    BY <1>0, <1>3 DEF OneEnlisted
  <1>7. Told'
    BY <1>0, <1>2 DEF Told
  <1>8. Owned' /\ Referred'
    BY <1>2, <1>3 DEF VerifierTypeOK, Owned, Referred, Holds, LeasedRef, NotCalled
  <1>9. CompletedByItsRun'
    BY <1>0 DEF CompletedByItsRun
  <1>. QED  BY <1>4, <1>5, <1>6, <1>7, <1>8, <1>9

LEMMA RefuseKeeps == ASSUME VInv, NEW s \in Sessions, Refuse(s)  PROVE VInv'
  <1> USE DEF VInv, Refuse, jobVars, leaseVars, runnerVars
  <1>0. Inside' = Inside /\ Enlisted' = Enlisted
    BY DEF Inside, Enlisted
  <1>1. VerifierTypeOK'
    <2>1. /\ reply' \in [Sessions -> Replies] /\ handler' \in [Sessions -> HandlerStates]
          /\ faults' \in Nat
      BY DEF VerifierTypeOK, Fault, Heard, Replies, HandlerStates
    <2>. QED  BY <1>0, <2>1 DEF VerifierTypeOK
  <1>2. Called'
    BY DEF Called, NotCalled
  <1>3. OneEnlisted'
    BY <1>0 DEF OneEnlisted
  <1>4. Told'
    BY DEF Told, Heard
  <1>5. Owned' /\ Referred'
    BY DEF VerifierTypeOK, Owned, Referred, Holds, LeasedRef
  <1>6. CompletedByItsRun'
    BY DEF CompletedByItsRun
  <1>. QED  BY <1>1, <1>2, <1>3, <1>4, <1>5, <1>6

LEMMA EnlistKeeps == ASSUME VInv, NEW s \in Sessions, Enlist(s)  PROVE VInv'
  <1> USE DEF VInv, Enlist, jobVars, leaseVars, runnerVars
  <1>1. CASE JobOf[s] \in active
    <2>1. s \in Inside /\ run[s] # "running" /\ "other" \in Replies /\ faults' \in Nat
      BY DEF VerifierTypeOK, Called, NotCalled, Inside, Replies
    <2>. QED  BY <1>1, <2>1, ReturnKeeps
  <1>2. CASE JobOf[s] \notin active
    <2>0. Inside' = Inside /\ Enlisted' = Enlisted \cup {s} /\ s \notin Enlisted
      BY <1>2 DEF VerifierTypeOK, Inside, Enlisted
    <2>1. VerifierTypeOK'
      BY <1>2, <2>0 DEF VerifierTypeOK, HandlerStates
    <2>2. Called'
      BY <1>2 DEF VerifierTypeOK, Called, NotCalled
    <2>3. OneEnlisted'
      BY <1>2, <2>0 DEF VerifierTypeOK, OneEnlisted
    <2>4. Told'
      BY <1>2 DEF Told
    <2>5. Owned' /\ Referred'
      BY <1>2 DEF VerifierTypeOK, Owned, Referred, Holds, LeasedRef
    <2>6. CompletedByItsRun'
      BY <1>2 DEF CompletedByItsRun
    <2>. QED  BY <2>1, <2>2, <2>3, <2>4, <2>5, <2>6
  <1>. QED  BY <1>1, <1>2

LEMMA CheckLeaseKeeps == ASSUME VInv, NEW s \in Sessions, CheckLease(s)  PROVE VInv'
  <1> USE DEF VInv, CheckLease, jobVars, leaseVars, runnerVars
  <1>0. s \in Inside /\ s \in Enlisted /\ run[s] # "running" /\ faults' \in Nat
    BY DEF VerifierTypeOK, Called, NotCalled, Inside, Enlisted, Fault
  <1>1. CASE Return(s, "Aborted")
    <2>1. "Aborted" \in Replies
      BY DEF Replies
    <2>. QED  BY <1>0, <1>1, <2>1, ReturnKeeps
  <1>2. CASE /\ handler' = [handler EXCEPT ![s] = "checked"]
             /\ UNCHANGED <<slots, active, reply, ended, faults>>
    <2>0. Inside' = Inside /\ Enlisted' = Enlisted
      BY <1>0, <1>2 DEF Inside, Enlisted
    <2>1. VerifierTypeOK'
      BY <1>2, <2>0 DEF VerifierTypeOK, HandlerStates
    <2>2. Called'
      BY <1>2 DEF Called, NotCalled
    <2>3. OneEnlisted'
      BY <2>0 DEF OneEnlisted
    <2>4. Told'
      BY <1>2 DEF Told
    <2>5. Owned' /\ Referred'
      BY <1>2 DEF VerifierTypeOK, Owned, Referred, Holds, LeasedRef
    <2>6. CompletedByItsRun'
      BY <1>2 DEF CompletedByItsRun
    <2>. QED  BY <2>1, <2>2, <2>3, <2>4, <2>5, <2>6
  <1>. QED  BY <1>1, <1>2

LEMMA StartKeeps == ASSUME VInv, NEW s \in Sessions, Start(s)  PROVE VInv'
  <1> USE DEF VInv, Start, jobVars, leaseVars, runnerVars
  <1>0. s \in Inside /\ s \in Enlisted /\ run[s] # "running" /\ faults' \in Nat
    BY DEF VerifierTypeOK, Called, NotCalled, Inside, Enlisted
  <1>1. CASE Return(s, "other") /\ UNCHANGED runnerVars
    <2>1. "other" \in Replies
      BY DEF Replies
    <2>. QED  BY <1>0, <1>1, <2>1, ReturnKeeps
  <1>2. CASE /\ BeginRun(s)
             /\ handler' = [handler EXCEPT ![s] = "running"]
             /\ UNCHANGED <<slots, active, reply, ended>>
    <2>0. Inside' = Inside /\ Enlisted' = Enlisted
      BY <1>0, <1>2 DEF Inside, Enlisted
    <2>1. VerifierTypeOK'
      BY <1>2, <2>0 DEF VerifierTypeOK, BeginRun, HandlerStates
    <2>2. Called'
      BY <1>2 DEF VerifierTypeOK, Called, NotCalled, BeginRun
    <2>3. OneEnlisted'
      BY <2>0 DEF OneEnlisted
    <2>4. Told'
      BY <1>2 DEF Told, BeginRun
    <2>5. Owned' /\ Referred'
      BY <1>2 DEF VerifierTypeOK, Owned, Referred, Holds, LeasedRef, BeginRun
    <2>6. CompletedByItsRun'
      BY <1>2 DEF CompletedByItsRun, BeginRun
    <2>. QED  BY <2>1, <2>2, <2>3, <2>4, <2>5, <2>6
  <1>. QED  BY <1>1, <1>2

LEMMA ReplyKeeps == ASSUME VInv, NEW s \in Sessions, Reply(s)  PROVE VInv'
  <1> USE DEF VInv, Reply
  <1>0. s \in Inside /\ run[s] # "running" /\ faults' \in Nat
    BY DEF VerifierTypeOK, Inside, Results
  <1>1. /\ Status(s) \in Replies /\ "other" \in Replies
        /\ Status(s) = "completed" => run[s] = "ok"
    BY DEF Status, Results, Replies
  <1>2. CASE Return(s, Status(s))
    BY <1>0, <1>1, <1>2, ReturnKeeps
  <1>3. CASE Return(s, "other")
    BY <1>0, <1>1, <1>3, ReturnKeeps
  <1>. QED  BY <1>2, <1>3

LEMMA ServerCrashKeeps == ASSUME VInv, ServerCrash  PROVE VInv'
  <1> USE DEF VInv, ServerCrash, jobVars, leaseVars, Fault
  <1>0. Inside' = {} /\ Enlisted' = {}
    BY DEF Inside, Enlisted
  <1>1. VerifierTypeOK'
    <2>1. Cardinality(Inside') = 0 /\ 0 \in 0..Slots
      BY <1>0, FS_EmptySet, VerifierAssumption
    <2>. QED  BY <1>0, <2>1 DEF VerifierTypeOK, CrashRuns, Replies, HandlerStates, Heard
  <1>2. Called'
    BY DEF Called, NotCalled, CrashRuns, Inside
  <1>3. OneEnlisted'
    BY <1>0 DEF OneEnlisted
  <1>4. Told'
    BY DEF Told, CrashRuns, Heard
  <1>5. Owned' /\ Referred'
    BY DEF VerifierTypeOK, Owned, Referred, Holds, LeasedRef, CrashRuns
  <1>6. CompletedByItsRun'
    BY DEF Owned, CompletedByItsRun, CrashRuns, NoVerdict
  <1>. QED  BY <1>1, <1>2, <1>3, <1>4, <1>5, <1>6

-----------------------------------------------------------------------------
(* The invariant *)

LEMMA VInit == VerifierInit => VInv
  <1> SUFFICES ASSUME VerifierInit PROVE VInv
    OBVIOUS
  <1> USE DEF VerifierInit, RunnerInit
  <1>1. Inside = {} /\ Enlisted = {}
    BY DEF Inside, Enlisted
  <1>2. VerifierTypeOK
    <2>1. Cardinality({}) = 0 /\ 0 \in 0..Slots
      BY FS_EmptySet, VerifierAssumption
    <2>. QED  BY <1>1, <2>1 DEF VerifierTypeOK, NoVerdict, ClientStates, NotCalled, Replies, HandlerStates
  <1>. QED
    BY <1>1, <1>2 DEF VInv, Called, NotCalled, OneEnlisted, Told, Owned, Referred,
       Holds, LeasedRef, CompletedByItsRun, NoVerdict, NotCalled

LEMMA VStep == VInv /\ [VerifierNext]_verifierVars => VInv'
  <1> SUFFICES ASSUME VInv, [VerifierNext]_verifierVars PROVE VInv'
    OBVIOUS
  <1>1. CASE UNCHANGED verifierVars
    BY <1>1 DEF VInv, verifierVars, jobVars, leaseVars, runnerVars, serverVars, VerifierTypeOK, Called, NotCalled,
       NotCalled, OneEnlisted,
       Told, Owned, Referred, CompletedByItsRun, Inside, Enlisted, Holds, LeasedRef
  <1>2. ASSUME NEW s \in Sessions,
               \/ Claim(s) \/ ReadRow(s) \/ ClaimFails(s) \/ Receive(s)
               \/ GiveUp(s) \/ WorkerCrash(s) \/ Verdict(s) \/ Store(s)
        PROVE  VInv'
    BY <1>2, ClaimKeeps, ReadRowKeeps, ClaimFailsKeeps, ReceiveKeeps, GiveUpKeeps, WorkerCrashKeeps, VerdictKeeps, StoreKeeps
  <1>3. ASSUME NEW s \in Sessions,
               Admit(s) \/ Refuse(s) \/ Serve(s) \/ Cancelled(s) \/ RunnerReturns(s)
        PROVE  VInv'
    BY <1>3, AdmitKeeps, RefuseKeeps, EnlistKeeps, CheckLeaseKeeps, StartKeeps, ReplyKeeps,
       CancelledKeeps, RunnerReturnsKeeps DEF Serve
  <1>4. ASSUME NEW j \in Jobs, LeaseEnds(j) \/ Recover(j)
        PROVE  VInv'
    BY <1>4, LeaseEndsKeeps, RecoverKeeps
  <1>. QED  BY <1>1, <1>2, <1>3, <1>4, ServerCrashKeeps DEF VerifierNext

\* The inductive invariant holds of every run (service.go:35-99): a call passes
\* the places of Server.Run in order, at most Slots at once, and what is told of
\* its Runner and stored by it fits the call and the lease.
THEOREM InvariantCorrect == VerifierSpec => []VInv
  BY VInit, VStep, PTL DEF VerifierSpec

\* s.slots counts the calls inside Server.Run and s.active lists their jobs
\* (service.go:40-52), in every run.
THEOREM TypeCorrect == VerifierSpec => []VerifierTypeOK
  <1>1. VInv => VerifierTypeOK
    BY DEF VInv
  <1>. QED  BY <1>1, InvariantCorrect, PTL

\* A job has one Runner at a time, and it belongs to a call that is still being
\* served (service.go:46-54, :95).
THEOREM OneRunner == VerifierSpec => []OneRunPerJob
  <1>1. VInv => OneRunPerJob
    BY DEF VInv, Called, NotCalled, OneEnlisted, OneRunPerJob, Enlisted
  <1>. QED  BY <1>1, InvariantCorrect, PTL

\* A job is completed by a claim whose own Runner stored a report and succeeded,
\* and keeps a report that was stored under the lease of that claim, although a
\* late claimer may call with the same lease (service.go:92, :126, mysql.go:250).
THEOREM CompletedJobsAreReported == VerifierSpec => []CompletedByItsRun
  <1>1. VInv => CompletedByItsRun
    BY DEF VInv
  <1>. QED  BY <1>1, InvariantCorrect, PTL

-----------------------------------------------------------------------------
(* To a worker the verifier is a Runner *)

\* What a stage is made of.
LEMMA StageFixed ==
    ASSUME UNCHANGED <<owner, live, ref, client>>
    PROVE  RemoteStage' = RemoteStage
  BY DEF RemoteStage, LeasedRef, Holds

LEMMA StageSame ==
    ASSUME \A t \in Sessions : RemoteStage'[t] = RemoteStage[t]
    PROVE  RemoteStage' = RemoteStage
  BY DEF RemoteStage

\* Some stages end without success, the others stay as they are.
LEMMA StagesEnd ==
    ASSUME UNCHANGED stored,
           \A t \in Sessions :
              \/ RemoteStage'[t] = RemoteStage[t]
              \/ /\ RemoteStage[t] = "running"
                 /\ RemoteStage'[t] \in (Results \ {"ok"}) \cup {"crashed"}
    PROVE  RemoteRunner!RunnerNext
  <1>. DEFINE S == {t \in Sessions : RemoteStage'[t] # RemoteStage[t]}
              end == [t \in S |-> RemoteStage'[t]]
  <1>1. end \in [S -> (RemoteRunner!Results \ {"ok"}) \cup {"crashed"}]
    BY DEF RemoteRunner!Results, Results
  <1>2. RemoteStage' = [t \in Sessions |-> IF t \in S THEN end[t] ELSE RemoteStage[t]]
    BY DEF RemoteStage
  <1>3. \A t \in S : RemoteStage[t] = "running"
    OBVIOUS
  <1>4. S \in SUBSET Sessions
    OBVIOUS
  <1>. HIDE DEF S, end
  <1>5. RemoteRunner!EndRuns(S)
    BY <1>1, <1>2, <1>3 DEF RemoteRunner!EndRuns
  <1>. QED  BY <1>4, <1>5 DEF RemoteRunner!RunnerNext

\* A call that ends for its worker; the lease it named holds or not, as before.
LEMMA CallEnds ==
    ASSUME VInv, NEW s \in Sessions, client[s] = "waiting",
           NEW result \in Results \cup {"crashed"}, result = "ok" => s \in stored,
           client' = [client EXCEPT ![s] = result], UNCHANGED <<owner, live, ref, stored>>
    PROVE  RemoteRunner!RunnerNext \/ UNCHANGED <<RemoteStage, stored>>
  <1>1. \A t \in Sessions \ {s} : RemoteStage'[t] = RemoteStage[t]
    BY DEF RemoteStage, LeasedRef, Holds
  <1>2. RemoteStage[s] = "running" /\ RemoteStage'[s] \in {result, "running"}
    BY DEF VInv, VerifierTypeOK, RemoteStage, NotCalled, Results
  <1>3. CASE RemoteStage'[s] = "ok"
    <2>1. RemoteStage' = [RemoteStage EXCEPT ![s] = "ok"]
      BY <1>1, <1>3 DEF RemoteStage
    <2>2. RemoteRunner!ReturnFrom(s)
      BY <1>2, <1>3, <2>1 DEF RemoteRunner!ReturnFrom, RemoteRunner!Results, Results
    <2>. QED  BY <2>2 DEF RemoteRunner!RunnerNext
  <1>4. CASE RemoteStage'[s] # "ok"
    BY <1>1, <1>2, <1>4, StagesEnd
  <1>. QED  BY <1>3, <1>4

\* Leases end: every call that named one of them, at once.
LEMMA LeasesGone ==
    ASSUME VInv, \A t \in Sessions : LeasedRef(t)' => LeasedRef(t),
           UNCHANGED <<client, stored>>
    PROVE  RemoteRunner!RunnerNext
  <1>1. ASSUME NEW t \in Sessions
        PROVE  \/ RemoteStage'[t] = RemoteStage[t]
               \/ /\ RemoteStage[t] = "running"
                  /\ RemoteStage'[t] \in (Results \ {"ok"}) \cup {"crashed"}
    BY DEF VInv, VerifierTypeOK, RemoteStage, ClientStates, NotCalled, Results
  <1>. QED  BY <1>1, StagesEnd

LEMMA RemoteInit == VerifierInit => RemoteRunner!RunnerInit
  BY DEF VerifierInit, RunnerInit, RemoteRunner!RunnerInit, RemoteStage, NotCalled

\* The UPDATE of a claim is not yet a call, and gives no earlier call a lease.
LEMMA ClaimStutters ==
    ASSUME VInv, NEW s \in Sessions, Claim(s) \/ ClaimFails(s)
    PROVE  UNCHANGED <<RemoteStage, stored>>
  <1>1. CASE Claim(s)
    <2>1. ASSUME NEW t \in Sessions \ {s} PROVE RemoteStage'[t] = RemoteStage[t]
      <3>1. client'[t] = client[t] /\ ref'[t] = ref[t] /\ ref[t] # s
        BY <1>1, TriesAssumption
        DEF VInv, VerifierTypeOK, Claim, Referred, ClientStates, NotCalled, leaseVars
      <3>2. LeasedRef(t)' = LeasedRef(t)
        BY <1>1, <3>1, TriesAssumption
        DEF VInv, VerifierTypeOK, Owned, Claim, LeasedRef, Holds
      <3>. QED  BY <3>1, <3>2 DEF RemoteStage
    <2>2. RemoteStage'[s] = RemoteStage[s]
      BY <1>1 DEF VInv, VerifierTypeOK, Claim, RemoteStage, NotCalled
    <2>. QED  BY <1>1, <2>1, <2>2, StageSame DEF Claim, runnerVars
  <1>2. CASE ClaimFails(s)
    <2>1. \A t \in Sessions : RemoteStage'[t] = RemoteStage[t]
      BY <1>2 DEF VInv, VerifierTypeOK, ClaimFails, RemoteStage, NotCalled, LeasedRef, Holds,
         jobVars, leaseVars
    <2>. QED  BY <1>2, <2>1, StageSame DEF ClaimFails, runnerVars
  <1>. QED  BY <1>1, <1>2

\* The call begins a run, under whatever lease it names.
LEMMA ReadRowBegins ==
    ASSUME VInv, NEW s \in Sessions, ReadRow(s)
    PROVE  RemoteRunner!BeginRun(s)
  <1>1. RemoteStage[s] = "idle" /\ RemoteStage'[s] = "running" /\ UNCHANGED stored
    BY DEF VInv, VerifierTypeOK, ReadRow, RemoteStage, NotCalled, runnerVars
  <1>2. ASSUME NEW t \in Sessions \ {s} PROVE RemoteStage'[t] = RemoteStage[t]
    BY DEF VInv, VerifierTypeOK, ReadRow, RemoteStage, LeasedRef, Holds
  <1>3. RemoteStage' = [RemoteStage EXCEPT ![s] = "running"]
    BY <1>1, <1>2 DEF RemoteStage
  <1>. QED  BY <1>1, <1>3 DEF RemoteRunner!BeginRun

LEMMA StoreStores ==
    ASSUME VInv, NEW s \in Sessions, Store(s)
    PROVE  RemoteRunner!StoreReport(s)
  <1>1. /\ run[s] = "running" /\ LeasedRef(s) /\ s \notin stored
        /\ stored' = stored \cup {s}
    BY DEF Store, StoreReport
  <1>2. RemoteStage[s] = "running"
    BY <1>1 DEF VInv, Called, NotCalled, Told, RemoteStage
  <1>3. RemoteStage' = RemoteStage
    BY StageFixed DEF Store, leaseVars
  <1>. QED  BY <1>1, <1>2, <1>3 DEF RemoteRunner!StoreReport

\* A verdict, an expiry and a recovery can only take leases away.
LEMMA LeaseStep ==
    ASSUME VInv, \/ \E s \in Sessions : Verdict(s)
                 \/ \E j \in Jobs : LeaseEnds(j) \/ Recover(j)
    PROVE  RemoteRunner!RunnerNext
  <1>1. UNCHANGED <<client, ref, stored>>
    BY DEF Verdict, LeaseEnds, Recover, runnerVars
  <1>2. \E j \in Jobs : /\ owner' = owner \/ owner' = [owner EXCEPT ![j] = None]
                        /\ live' = live \/ live' = [live EXCEPT ![j] = FALSE]
    BY TriesAssumption DEF Verdict, LeaseEnds, Recover
  <1>3. \A t \in Sessions : LeasedRef(t)' => LeasedRef(t)
    BY <1>1, <1>2, TriesAssumption DEF VInv, VerifierTypeOK, LeasedRef, Holds
  <1>. QED  BY <1>1, <1>3, LeasesGone

LEMMA RemoteStep ==
    ASSUME VInv, VerifierNext
    PROVE  RemoteRunner!RunnerNext \/ UNCHANGED <<RemoteStage, stored>>
  <1>1. ASSUME NEW s \in Sessions, ReadRow(s) \/ Store(s)
        PROVE  RemoteRunner!RunnerNext
    BY <1>1, ReadRowBegins, StoreStores DEF RemoteRunner!RunnerNext
  <1>2. ASSUME NEW s \in Sessions, Receive(s)
        PROVE  RemoteRunner!RunnerNext \/ UNCHANGED <<RemoteStage, stored>>
    <2>1. reply[s] \in {"completed", "FailedPrecondition", "Aborted", "other"}
      BY <1>2 DEF VInv, VerifierTypeOK, Receive, Replies
    <2>2. reply[s] = "completed" => s \in stored
      BY DEF VInv, Told
    <2>3. Received(s) \in Results /\ (Received(s) = "ok" => s \in stored)
      BY <2>1, <2>2 DEF Received, Results
    <2>. QED  BY <1>2, <2>3, CallEnds DEF Receive, jobVars, leaseVars, runnerVars
  <1>3. ASSUME NEW s \in Sessions, GiveUp(s) \/ WorkerCrash(s)
        PROVE  RemoteRunner!RunnerNext \/ UNCHANGED <<RemoteStage, stored>>
    <2>1. PICK o \in {"failed", "lost", "crashed"} : client' = [client EXCEPT ![s] = o]
      BY <1>3 DEF GiveUp, WorkerCrash
    <2>. QED  BY <1>3, <2>1, CallEnds DEF GiveUp, WorkerCrash, jobVars, leaseVars, runnerVars,
              Results
  <1>4. ASSUME NEW s \in Sessions,
               Admit(s) \/ Refuse(s) \/ Serve(s) \/ Cancelled(s) \/ RunnerReturns(s)
        PROVE  UNCHANGED <<RemoteStage, stored>>
    BY <1>4, StageFixed DEF Admit, Refuse, Serve, Enlist, CheckLease, Start, BeginRun, Reply,
       Cancelled, RunnerReturns, ReturnFrom, jobVars, leaseVars, runnerVars
  <1>5. ServerCrash => UNCHANGED <<RemoteStage, stored>>
    BY StageFixed DEF ServerCrash, CrashRuns, jobVars, leaseVars
  <1>. QED
    BY <1>1, <1>2, <1>3, <1>4, <1>5, ClaimStutters, LeaseStep DEF VerifierNext

\* To a worker the verifier behaves as a Runner in its own process does
\* (kafka-worker/main.go:78): every step begins, stores, ends or loses runs of
\* the promise, or none, even for calls that name another claim's lease.
THEOREM RemoteRunnerCorrect == VerifierSpec => RemoteRunnerKept
  <1>1. VInv /\ [VerifierNext]_verifierVars =>
           [RemoteRunner!RunnerNext]_<<RemoteStage, stored>>
    BY RemoteStep, StageFixed DEF verifierVars, jobVars, leaseVars, runnerVars
  <1>. QED
    BY <1>1, RemoteInit, InvariantCorrect, PTL
    DEF VerifierSpec, RemoteRunnerKept, RemoteRunner!RunnerSpec, RemoteRunner!runnerVars

=============================================================================
