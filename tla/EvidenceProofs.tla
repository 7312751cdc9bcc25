---------------------------- MODULE EvidenceProofs ----------------------------
(***************************************************************************)
(* Proofs about the parts of MCEvidence: historical priors, the knowledge  *)
(* assistant, local reviews and diagnoses, for any jobs, relays, requests, *)
(* scopes and contents and every value of the bounds.                      *)
(***************************************************************************)
EXTENDS MCEvidence, FiniteSetTheorems, SequenceTheorems,
        WellFoundedInduction, TLAPS

-----------------------------------------------------------------------------
(* Historical priors: what is known of a job *)

Document == [version: Nat, tables: SUBSET Tables, expires: Nat]
Row == [document: Document, attempts: Nat, available: Nat, published: BOOLEAN]
Item == [job: PriorJobs, document: Document]

PriorTypes ==
    /\ time \in 0..MaxTime /\ losses \in 0..MaxLosses
    /\ status \in [PriorJobs -> [version: 0..MaxVersion, completed: BOOLEAN]]
    /\ outbox \in [PriorJobs -> SUBSET Row]
    /\ index \in [PriorJobs -> SUBSET Document]
    /\ relay \in [Relays -> [at: {"idle", "read", "put", "sent", "unsent", "clean"},
                             items: Seq(Item)]]
    /\ holder \subseteq Relays

Places(r) == 1..Len(relay[r].items)

\* The documents about job j that are anywhere: in its row, in the index, or
\* among the items of a relay.
Known(j) ==
    index[j] \cup {row.document : row \in outbox[j]}
        \cup {d \in Document : \E r \in Relays : \E n \in Places(r) :
                                  relay[r].items[n] = [job |-> j, document |-> d]}

\* They are all the same one: that of the report that stands.
OneDocument ==
    \A j \in PriorJobs : \A d, e \in Known(j) : d = e /\ d.version = status[j].version

\* Nothing left the outbox before the job was completed.
Unreported ==
    \A j \in PriorJobs : ~status[j].completed =>
        /\ index[j] = {} /\ \A row \in outbox[j] : ~row.published
        /\ \A r \in Relays : \A n \in Places(r) : relay[r].items[n].job # j

\* A job has one row, which was not tried too often; a published row is that of
\* a document in the index, until it expires.
Rows ==
    \A j \in PriorJobs : \A row \in outbox[j] :
        /\ \A other \in outbox[j] : other = row
        /\ row.attempts <= MaxAttempts
        /\ row.published =>
              /\ row.attempts < MaxAttempts
              /\ row.document \in index[j] \/ row.document.expires <= time

\* One relay has the lock.  It has different jobs before it, whose rows nobody
\* else tries, so each is below its limit.
Locked ==
    /\ \A q, r \in holder : q = r
    /\ \A r \in holder :
          /\ relay[r].at # "idle"
          /\ \A m, n \in Places(r) : m # n => relay[r].items[m].job # relay[r].items[n].job
          /\ \A n \in Places(r) : \A row \in outbox[relay[r].items[n].job] :
                row.attempts < MaxAttempts

\* An idle relay has no items.  A relay that has sent a document finds it in
\* the index, until it expires.
Sent ==
    \A r \in Relays :
        /\ relay[r].at = "idle" => relay[r].items = <<>>
        /\ relay[r].at \in {"put", "sent", "unsent"} => relay[r].items # <<>>
        /\ relay[r].at = "sent" =>
              LET i == Head(relay[r].items)
              IN  i.document \in index[i.job] \/ i.document.expires <= time

PriorsInv == PriorTypes /\ OneDocument /\ Unreported /\ Rows /\ Locked /\ Sent

-----------------------------------------------------------------------------
(* Historical priors: steps *)

\* What a step is.
LEMMA PriorSteps ==
    ASSUME [PriorsNext]_priorVars
    PROVE  \/ UNCHANGED priorVars \/ TimePasses
           \/ \E j \in PriorJobs : WritePrior(j) \/ CompleteJob(j)
           \/ \E r \in Relays :
                 \/ TakePriorLock(r) \/ ReadOutbox(r) \/ PutDocument(r) \/ MarkItem(r)
                 \/ CleanPriors(r) \/ LosesConnection(r) \/ RelayFails(r)
           \/ \E allowed \in SUBSET Tables : SearchPriors(allowed)
  BY DEF PriorsNext

\* What is left of a relay's items after the first.
LEMMA RestOfItems ==
    ASSUME PriorTypes, NEW r \in Relays, relay[r].items # <<>>
    PROVE  /\ Head(relay[r].items) = relay[r].items[1] /\ 1 \in Places(r)
           /\ Head(relay[r].items) \in Item
           /\ Tail(relay[r].items) \in Seq(Item)
           /\ Len(Tail(relay[r].items)) = Len(relay[r].items) - 1
           /\ \A n \in 1..Len(Tail(relay[r].items)) :
                 Tail(relay[r].items)[n] = relay[r].items[n + 1] /\ n + 1 \in Places(r)
  <1>1. relay[r].items \in Seq(Item)
    BY DEF PriorTypes
  <1>2. Len(relay[r].items) \in Nat \ {0}
    BY <1>1, EmptySeq
  <1>. QED  BY <1>1, <1>2, HeadTailProperties DEF Places

\* The items that a relay reads: a completed job each, with its document.
LEMMA ItemsRead ==
    ASSUME PriorTypes, NEW r \in Relays, ReadOutbox(r)
    PROVE  \E items \in Seq(Item) :
              /\ relay' = [relay EXCEPT ![r] =
                    [at |-> IF items = <<>> THEN "clean" ELSE "put", items |-> items]]
              /\ \A n \in 1..Len(items) :
                    /\ \E row \in outbox[items[n].job] : Ready(items[n].job, row)
                    /\ \E row \in outbox[items[n].job] : items[n].document = row.document
              /\ \A m, n \in 1..Len(items) : m # n => items[m].job # items[n].job
  <1>. DEFINE ready == {j \in PriorJobs : \E row \in outbox[j] : Ready(j, row)}
              DocumentOf(j) == CHOOSE d \in {row.document : row \in outbox[j]} : TRUE
              ItemOf(j) == [job |-> j, document |-> DocumentOf(j)]
  <1>1. IsFiniteSet(ready) /\ Cardinality(ready) \in Nat
    BY PriorsAssumption, FS_Subset, FS_CardinalityType
  <1>2. \A j \in ready : /\ \E row \in outbox[j] : DocumentOf(j) = row.document
                         /\ ItemOf(j) \in Item
    BY DEF PriorTypes, Row, Item
  <1>3. PICK order \in SetToSeqs(ready) :
           relay' = [relay EXCEPT ![r] =
               [at |-> IF order = <<>> THEN "clean" ELSE "put",
                items |-> [n \in DOMAIN order |-> ItemOf(order[n])]]]
    BY DEF ReadOutbox
  <1>. DEFINE items == [n \in DOMAIN order |-> ItemOf(order[n])]
  <1>4. /\ order \in [1..Cardinality(ready) -> ready]
        /\ \A m, n \in 1..Cardinality(ready) : m # n => order[m] # order[n]
    BY DEF SetToSeqs
  <1>. HIDE DEF ready, ItemOf
  <1>5. items \in Seq(Item) /\ Len(items) = Cardinality(ready) /\ order \in Seq(ready)
    BY <1>1, <1>2, <1>4
  <1>6. items = <<>> <=> order = <<>>
    BY <1>4, <1>5
  <1>7. \A n \in 1..Len(items) : items[n] = ItemOf(order[n]) /\ order[n] \in ready
    BY <1>4, <1>5
  <1>8. \A j : ItemOf(j).job = j /\ ItemOf(j).document = DocumentOf(j)
    BY DEF ItemOf
  <1>. HIDE DEF items, DocumentOf
  <1>9. \A n \in 1..Len(items) :
           /\ \E row \in outbox[items[n].job] : Ready(items[n].job, row)
           /\ \E row \in outbox[items[n].job] : items[n].document = row.document
    BY <1>2, <1>7, <1>8 DEF ready
  <1>10. \A m, n \in 1..Len(items) : m # n => items[m].job # items[n].job
    BY <1>4, <1>5, <1>7, <1>8
  <1>11. relay' = [relay EXCEPT ![r] =
            [at |-> IF items = <<>> THEN "clean" ELSE "put", items |-> items]]
    BY <1>3, <1>6 DEF items
  <1>. QED  BY <1>5, <1>9, <1>10, <1>11

\* The initial state.
LEMMA PriorsStart == PriorsInit => PriorsInv
  <1>. SUFFICES ASSUME PriorsInit  PROVE PriorsInv
    OBVIOUS
  <1>1. \A r \in Relays : relay[r].items = <<>> /\ Places(r) = {}
    BY DEF PriorsInit, NoItems, Places
  <1>2. PriorTypes
    BY PriorsAssumption DEF PriorsInit, PriorTypes, NoItems
  <1>3. OneDocument /\ Unreported /\ Rows
    BY <1>1 DEF PriorsInit, OneDocument, Known, Unreported, Rows
  <1>4. Locked /\ Sent
    BY DEF PriorsInit, Locked, Sent, NoItems
  <1>. QED  BY <1>2, <1>3, <1>4 DEF PriorsInv

\* A report or a mark keeps the types of the rows.
LEMMA WriteTypes ==
    ASSUME PriorTypes, NEW j \in PriorJobs, WritePrior(j)
    PROVE  PriorTypes'
  <1>. DEFINE d == [version |-> status[j].version + 1, tables |-> TablesOf[j],
                    expires |-> time + Retention]
              Fresh == {[document |-> d, attempts |-> 0, available |-> time,
                         published |-> FALSE]}
              Replaced == {[row EXCEPT !.document = d] : row \in outbox[j]}
  <1>1. d \in Document /\ time \in Nat
    BY PriorsAssumption DEF PriorTypes, Document
  <1>2. outbox' = [outbox EXCEPT ![j] = IF @ = {} THEN Fresh ELSE Replaced]
    BY DEF WritePrior
  <1>. HIDE DEF d
  <1>3. Fresh \subseteq Row /\ Replaced \subseteq Row
    <2>1. ASSUME NEW row \in Row  PROVE [row EXCEPT !.document = d] \in Row
      BY <1>1 DEF Row
    <2>2. outbox[j] \subseteq Row
      BY DEF PriorTypes
    <2>3. Fresh \subseteq Row
      BY <1>1 DEF Row
    <2>. QED  BY <2>1, <2>2, <2>3
  <1>. HIDE DEF Fresh, Replaced
  <1>4. outbox' \in [PriorJobs -> SUBSET Row]
    BY <1>2, <1>3 DEF PriorTypes
  <1>5. status' \in [PriorJobs -> [version: 0..MaxVersion, completed: BOOLEAN]]
    <2>1. status[j] \in [version: 0..MaxVersion, completed: BOOLEAN]
          /\ status[j].version + 1 \in 0..MaxVersion
      BY PriorsAssumption DEF PriorTypes, WritePrior
    <2>2. status' = [status EXCEPT ![j] = [status[j] EXCEPT !.version = status[j].version + 1]]
      BY DEF WritePrior
    <2>. QED  BY <2>1, <2>2 DEF PriorTypes
  <1>. QED  BY <1>4, <1>5 DEF PriorTypes, WritePrior

LEMMA MarkTypes ==
    ASSUME PriorTypes, Sent, NEW r \in Relays, MarkItem(r)
    PROVE  PriorTypes'
  <1>. DEFINE rest == Tail(relay[r].items)
              j == Head(relay[r].items).job
  <1>1. j \in PriorJobs /\ rest \in Seq(Item)
    BY RestOfItems DEF MarkItem, Sent, Item
  <1>2. /\ outbox' = [outbox EXCEPT ![j] = {Marked(row, relay[r].at) : row \in @}]
        /\ relay' = [relay EXCEPT ![r] =
              [at |-> IF rest = <<>> THEN "clean" ELSE "put", items |-> rest]]
        /\ UNCHANGED <<time, status, index, holder, losses>>
    BY DEF MarkItem
  <1>3. \A row \in Row : Marked(row, relay[r].at) \in Row
    <2>. SUFFICES ASSUME NEW row \in Row  PROVE Marked(row, relay[r].at) \in Row
      OBVIOUS
    <2>1. row.attempts + 1 \in Nat /\ time + 1 \in Nat
      BY PriorsAssumption DEF PriorTypes, Row
    <2>2. [row EXCEPT !.published = TRUE] \in Row
      BY DEF Row
    <2>3. ASSUME NEW n \in Nat, NEW t \in Nat
          PROVE  [row EXCEPT !.attempts = n, !.available = t] \in Row
      BY DEF Row
    <2>. QED  BY <2>1, <2>2, <2>3 DEF Marked
  <1>. HIDE DEF rest, j
  <1>4. outbox' \in [PriorJobs -> SUBSET Row]
    BY <1>1, <1>2, <1>3 DEF PriorTypes
  <1>5. relay' \in [Relays -> [at: {"idle", "read", "put", "sent", "unsent", "clean"},
                              items: Seq(Item)]]
    BY <1>1, <1>2 DEF PriorTypes
  <1>. QED  BY <1>2, <1>4, <1>5 DEF PriorTypes

LEMMA PriorTypesStep ==
    ASSUME PriorTypes, Sent, [PriorsNext]_priorVars
    PROVE  PriorTypes'
  <1>. DEFINE RelayType == [at: {"idle", "read", "put", "sent", "unsent", "clean"},
                            items: Seq(Item)]
  <1>. USE PriorsAssumption
  <1>1. CASE UNCHANGED priorVars \/ TimePasses \/ \E allowed \in SUBSET Tables : SearchPriors(allowed)
    BY <1>1 DEF PriorTypes, priorVars, TimePasses, SearchPriors
  <1>2. ASSUME NEW j \in PriorJobs, WritePrior(j)  PROVE PriorTypes'
    BY <1>2, WriteTypes
  <1>3. ASSUME NEW j \in PriorJobs, CompleteJob(j)  PROVE PriorTypes'
    <2>1. status' \in [PriorJobs -> [version: 0..MaxVersion, completed: BOOLEAN]]
      BY <1>3 DEF PriorTypes, CompleteJob
    <2>. QED  BY <1>3, <2>1 DEF PriorTypes, CompleteJob
  <1>4. ASSUME NEW r \in Relays, TakePriorLock(r)  PROVE PriorTypes'
    <2>1. relay' \in [Relays -> RelayType]
      BY <1>4 DEF PriorTypes, TakePriorLock
    <2>. QED  BY <1>4, <2>1 DEF PriorTypes, TakePriorLock
  <1>5. ASSUME NEW r \in Relays, ReadOutbox(r)  PROVE PriorTypes'
    <2>1. relay' \in [Relays -> RelayType]
      <3>1. PICK items \in Seq(Item) : relay' = [relay EXCEPT ![r] =
                     [at |-> IF items = <<>> THEN "clean" ELSE "put", items |-> items]]
        BY <1>5, ItemsRead
      <3>. QED  BY <3>1 DEF PriorTypes
    <2>. QED  BY <1>5, <2>1 DEF PriorTypes, ReadOutbox
  <1>6. ASSUME NEW r \in Relays, PutDocument(r)  PROVE PriorTypes'
    <2>1. relay' \in [Relays -> RelayType] /\ losses' \in 0..MaxLosses
      <3>1. PICK at \in {"sent", "unsent"} : relay' = [relay EXCEPT ![r].at = at]
        BY <1>6 DEF PutDocument
      <3>2. losses' \in 0..MaxLosses
        BY <1>6 DEF PriorTypes, PutDocument, Loss
      <3>. QED  BY <3>1, <3>2 DEF PriorTypes
    <2>2. Head(relay[r].items) \in Item
      BY <1>6, RestOfItems DEF PutDocument, Sent
    <2>3. index' \in [PriorJobs -> SUBSET Document]
      BY <1>6, <2>2 DEF PriorTypes, PutDocument, Item
    <2>. QED  BY <1>6, <2>1, <2>3 DEF PriorTypes, PutDocument
  <1>7. ASSUME NEW r \in Relays, MarkItem(r)  PROVE PriorTypes'
    BY <1>7, MarkTypes
  <1>8. ASSUME NEW r \in Relays, CleanPriors(r) \/ RelayFails(r)  PROVE PriorTypes'
    <2>1. losses' \in 0..MaxLosses /\ holder' \subseteq Relays
      BY <1>8 DEF PriorTypes, CleanPriors, RelayFails, EndsRelay, Loss
    <2>3. NoItems \in RelayType
      BY DEF NoItems
    <2>4. relay' \in [Relays -> RelayType]
      BY <1>8, <2>3 DEF PriorTypes, CleanPriors, RelayFails, EndsRelay
    <2>2. /\ outbox' \in [PriorJobs -> SUBSET Row] /\ index' \in [PriorJobs -> SUBSET Document]
          /\ UNCHANGED <<time, status>>
      BY <1>8 DEF PriorTypes, CleanPriors, RelayFails
    <2>. QED  BY <2>1, <2>2, <2>4 DEF PriorTypes
  <1>9. ASSUME NEW r \in Relays, LosesConnection(r)  PROVE PriorTypes'
    BY <1>9 DEF PriorTypes, LosesConnection, Loss
  <1>. QED  BY <1>1, <1>2, <1>3, <1>4, <1>5, <1>6, <1>7, <1>8, <1>9, PriorSteps

\* Unless a relay reads the outbox, its items become fewer only.
LEMMA ItemsLeft ==
    ASSUME PriorTypes, [PriorsNext]_priorVars, NEW q \in Relays, ~ReadOutbox(q)
    PROVE  \/ relay'[q].items = relay[q].items
           \/ relay'[q].items = <<>>
           \/ MarkItem(q) /\ relay'[q].items = Tail(relay[q].items)
  <1>1. CASE UNCHANGED priorVars \/ TimePasses \/ \E allowed \in SUBSET Tables : SearchPriors(allowed)
    BY <1>1 DEF priorVars, TimePasses, SearchPriors
  <1>2. ASSUME NEW j \in PriorJobs, WritePrior(j) \/ CompleteJob(j)
        PROVE  relay'[q].items = relay[q].items
    BY <1>2 DEF WritePrior, CompleteJob
  <1>3. ASSUME NEW r \in Relays, TakePriorLock(r) \/ LosesConnection(r) \/ PutDocument(r)
        PROVE  relay'[q].items = relay[q].items
    <2>1. relay' = relay \/ \E at \in {"read", "sent", "unsent"} : relay' = [relay EXCEPT ![r].at = at]
      BY <1>3 DEF TakePriorLock, LosesConnection, PutDocument
    <2>2. CASE relay' = relay
      BY <2>2
    <2>3. ASSUME NEW at, relay' = [relay EXCEPT ![r].at = at]
          PROVE  relay'[q].items = relay[q].items
      BY <2>3 DEF PriorTypes
    <2>. QED  BY <2>1, <2>2, <2>3
  <1>4. ASSUME NEW r \in Relays, ReadOutbox(r)
        PROVE  relay'[q].items = relay[q].items
    <2>1. r # q
      BY <1>4
    <2>2. PICK row : relay' = [relay EXCEPT ![r] = row]
      BY <1>4, ItemsRead
    <2>. QED  BY <2>1, <2>2 DEF PriorTypes
  <1>5. ASSUME NEW r \in Relays, CleanPriors(r) \/ RelayFails(r)
        PROVE  relay'[q].items = relay[q].items \/ relay'[q].items = <<>>
    <2>1. relay' = [relay EXCEPT ![r] = NoItems]
      BY <1>5 DEF CleanPriors, RelayFails, EndsRelay
    <2>2. NoItems.items = <<>>
      BY DEF NoItems
    <2>. QED  BY <2>1, <2>2 DEF PriorTypes
  <1>6. ASSUME NEW r \in Relays, MarkItem(r)
        PROVE  \/ relay'[q].items = relay[q].items
               \/ MarkItem(q) /\ relay'[q].items = Tail(relay[q].items)
    <2>1. PICK at : relay' = [relay EXCEPT ![r] = [at |-> at, items |-> Tail(relay[r].items)]]
      BY <1>6 DEF MarkItem
    <2>. QED  BY <1>6, <2>1 DEF PriorTypes
  <1>. QED  BY <1>1, <1>2, <1>3, <1>4, <1>5, <1>6, PriorSteps

LEMMA ItemsStay ==
    ASSUME PriorTypes, Sent, [PriorsNext]_priorVars, NEW q \in Relays, ~ReadOutbox(q)
    PROVE  \A n \in Places(q)' : \E m \in Places(q) : relay'[q].items[n] = relay[q].items[m]
  <1>1. CASE relay'[q].items = relay[q].items
    BY <1>1 DEF Places
  <1>2. CASE relay'[q].items = <<>>
    BY <1>2 DEF Places
  <1>3. CASE MarkItem(q) /\ relay'[q].items = Tail(relay[q].items)
    <2>1. relay[q].items # <<>>
      BY <1>3 DEF MarkItem, Sent
    <2>. QED  BY <1>3, <2>1, RestOfItems DEF Places
  <1>. QED  BY <1>1, <1>2, <1>3, ItemsLeft

\* A mark changes neither the documents nor the number of the rows.
LEMMA MarkedRows ==
    ASSUME PriorTypes, NEW r \in Relays, MarkItem(r), NEW j \in PriorJobs
    PROVE  /\ \A new \in outbox'[j] : \E row \in outbox[j] :
                 new = row \/ (j = Head(relay[r].items).job /\ new = Marked(row, relay[r].at))
           /\ \A row \in outbox[j] : Marked(row, relay[r].at).document = row.document
  <1>1. outbox' = [outbox EXCEPT ![Head(relay[r].items).job] =
                      {Marked(row, relay[r].at) : row \in @}]
    BY DEF MarkItem
  <1>2. \A new \in outbox'[j] : \E row \in outbox[j] :
           new = row \/ (j = Head(relay[r].items).job /\ new = Marked(row, relay[r].at))
    <2>1. CASE j = Head(relay[r].items).job
      <3>1. outbox'[j] = {Marked(row, relay[r].at) : row \in outbox[j]}
        BY <1>1, <2>1 DEF PriorTypes
      <3>. QED  BY <2>1, <3>1
    <2>2. CASE j # Head(relay[r].items).job
      <3>1. outbox'[j] = outbox[j]
        <4>1. \E rows : outbox' = [outbox EXCEPT ![Head(relay[r].items).job] = rows]
          BY <1>1
        <4>. QED  BY <2>2, <4>1 DEF PriorTypes
      <3>2. \A new \in outbox'[j] : \E row \in outbox[j] : new = row
        BY <3>1
      <3>. QED  BY <3>2
    <2>. QED  BY <2>1, <2>2
  <1>3. \A row \in Row : Marked(row, relay[r].at).document = row.document
    BY DEF Marked, Row
  <1>. QED  BY <1>2, <1>3 DEF PriorTypes

\* Only a report makes a document known.
LEMMA KnownStays ==
    ASSUME PriorTypes, Sent, [PriorsNext]_priorVars, NEW j \in PriorJobs, ~WritePrior(j)
    PROVE  /\ Known(j)' \subseteq Known(j)
           /\ status'[j].version = status[j].version
  <1>. DEFINE IndexKnown == \A d \in index'[j] : d \in Known(j)
              RowsKnown == \A new \in outbox'[j] : new.document \in Known(j)
              ItemsKnown == \A r \in Relays : \A n \in Places(r)' :
                            relay'[r].items[n].job = j => relay'[r].items[n].document \in Known(j)
  <1>1. ASSUME NEW r \in Relays, NEW n \in Places(r), relay[r].items[n].job = j
        PROVE  relay[r].items[n].document \in Known(j)
    <2>1. relay[r].items[n] \in Item
      BY <1>1 DEF Places, PriorTypes
    <2>2. relay[r].items[n] = [job |-> j, document |-> relay[r].items[n].document]
      BY <1>1, <2>1 DEF Item
    <2>. QED  BY <2>1, <2>2 DEF Known, Item
  <1>2. ASSUME NEW r \in Relays, NEW n \in Places(r)', relay'[r].items[n].job = j
        PROVE  relay'[r].items[n].document \in Known(j)
    <2>1. CASE ReadOutbox(r)
      <3>1. PICK items \in Seq(Item) :
               /\ relay' = [relay EXCEPT ![r] =
                     [at |-> IF items = <<>> THEN "clean" ELSE "put", items |-> items]]
               /\ \A m \in 1..Len(items) :
                     /\ \E row \in outbox[items[m].job] : Ready(items[m].job, row)
                     /\ \E row \in outbox[items[m].job] : items[m].document = row.document
        BY <2>1, ItemsRead
      <3>2. relay'[r].items = items
        BY <3>1 DEF PriorTypes
      <3>. QED  BY <1>2, <3>1, <3>2 DEF Places, Known
    <2>2. CASE ~ReadOutbox(r)
      BY <1>1, <1>2, <2>2, ItemsStay
    <2>. QED  BY <2>1, <2>2
  <1>3. ItemsKnown
    BY <1>2
  <1>4. IndexKnown
    <2>1. ASSUME NEW r \in Relays, PutDocument(r)  PROVE IndexKnown
      <3>1. /\ Head(relay[r].items) = relay[r].items[1] /\ 1 \in Places(r)
            /\ Head(relay[r].items) \in Item
        BY <2>1, RestOfItems DEF PutDocument, Sent
      <3>2. \/ index' = index
            \/ index' = [index EXCEPT ![Head(relay[r].items).job] = {Head(relay[r].items).document}]
        BY <2>1 DEF PutDocument
      <3>3. index[j] \subseteq Known(j)
        BY DEF Known
      <3>4. Head(relay[r].items).job = j => Head(relay[r].items).document \in Known(j)
        BY <1>1, <3>1
      <3>5. \/ index'[j] = index[j]
            \/ /\ index'[j] = {Head(relay[r].items).document}
               /\ Head(relay[r].items).job = j
        BY <3>2 DEF PriorTypes
      <3>. QED  BY <3>3, <3>4, <3>5
    <2>2. ASSUME NEW r \in Relays, CleanPriors(r)  PROVE IndexKnown
      BY <2>2 DEF CleanPriors, Known
    <2>3. CASE index' = index
      BY <2>3 DEF Known
    <2>. QED  BY <2>1, <2>2, <2>3, PriorSteps DEF priorVars, TimePasses, WritePrior, CompleteJob,
                  TakePriorLock, ReadOutbox, MarkItem, LosesConnection, RelayFails, SearchPriors
  <1>5. RowsKnown /\ status'[j].version = status[j].version
    <2>1. ASSUME NEW k \in PriorJobs, WritePrior(k)
          PROVE  outbox'[j] = outbox[j] /\ status'[j].version = status[j].version
      <3>1. k # j
        BY <2>1
      <3>2. /\ status' = [status EXCEPT ![k].version = status[k].version + 1]
            /\ \E rows : outbox' = [outbox EXCEPT ![k] = rows]
        BY <2>1 DEF WritePrior
      <3>. QED  BY <3>1, <3>2 DEF PriorTypes
    <2>2. ASSUME NEW k \in PriorJobs, CompleteJob(k)
          PROVE  outbox'[j] = outbox[j] /\ status'[j].version = status[j].version
      BY <2>2 DEF PriorTypes, CompleteJob
    <2>3. ASSUME NEW r \in Relays, MarkItem(r)
          PROVE  RowsKnown /\ status' = status
      <3>1. \A row \in outbox[j] : row.document \in Known(j)
        BY DEF Known
      <3>2. \A new \in outbox'[j] : \E row \in outbox[j] : new.document = row.document
        BY <2>3, MarkedRows
      <3>3. status' = status
        BY <2>3 DEF MarkItem
      <3>. QED  BY <3>1, <3>2, <3>3
    <2>4. ASSUME NEW r \in Relays, CleanPriors(r)
          PROVE  outbox'[j] \subseteq outbox[j] /\ status' = status
      BY <2>4 DEF CleanPriors
    <2>5. CASE outbox' = outbox /\ status' = status
      BY <2>5 DEF Known
    <2>6. \A row \in outbox[j] : row.document \in Known(j)
      BY DEF Known
    <2>. QED  BY <2>1, <2>2, <2>3, <2>4, <2>5, <2>6, PriorSteps DEF priorVars, TimePasses,
                  TakePriorLock, ReadOutbox, PutDocument, LosesConnection, RelayFails, SearchPriors
  <1>6. ASSUME NEW d \in Known(j)'  PROVE d \in Known(j)
    <2>1. CASE d \in index'[j]
      BY <1>4, <2>1
    <2>2. CASE \E new \in outbox'[j] : d = new.document
      BY <1>5, <2>2
    <2>3. CASE \E r \in Relays : \E n \in Places(r)' :
                  relay'[r].items[n] = [job |-> j, document |-> d]
      BY <1>3, <2>3
    <2>. QED  BY <1>6, <2>1, <2>2, <2>3 DEF Known
  <1>. QED  BY <1>5, <1>6

\* What a relay, a row and the index hold is known.
LEMMA ItemKnown ==
    ASSUME PriorTypes, NEW r \in Relays, NEW n \in Places(r)
    PROVE  /\ relay[r].items[n] \in Item
           /\ relay[r].items[n].document \in Known(relay[r].items[n].job)
  <1>1. relay[r].items[n] \in Item
    BY DEF Places, PriorTypes
  <1>2. relay[r].items[n] =
            [job |-> relay[r].items[n].job, document |-> relay[r].items[n].document]
    BY <1>1 DEF Item
  <1>. QED  BY <1>1, <1>2 DEF Known, Item

\* The first item of a relay that puts or marks it.
LEMMA FirstItem ==
    ASSUME PriorTypes, Sent, NEW r \in Relays, PutDocument(r) \/ MarkItem(r)
    PROVE  /\ relay[r].items # <<>> /\ 1 \in Places(r)
           /\ Head(relay[r].items) = relay[r].items[1]
           /\ Head(relay[r].items) \in Item
           /\ Head(relay[r].items).document \in Known(Head(relay[r].items).job)
  <1>1. relay[r].items # <<>>
    BY DEF Sent, PutDocument, MarkItem
  <1>. QED  BY <1>1, RestOfItems, ItemKnown

\* A report finds nothing of its job outside the outbox, and leaves it there.
LEMMA ReportKnown ==
    ASSUME PriorTypes, OneDocument, Unreported, NEW j \in PriorJobs, WritePrior(j)
    PROVE  /\ \A new \in outbox'[j] :
                 /\ ~new.published
                 /\ \A other \in Known(j)' : other = new.document
                 /\ new.document.version = status'[j].version
           /\ \A d \in Known(j)' : d.version = status'[j].version
           /\ \A d, e \in Known(j)' : d = e
  <1>. DEFINE d == [version |-> status[j].version + 1, tables |-> TablesOf[j],
                    expires |-> time + Retention]
  <1>1. status'[j].version = status[j].version + 1 /\ ~status[j].completed
    BY DEF WritePrior, PriorTypes
  <1>2. d.version = status'[j].version
    BY <1>1
  <1>3. outbox' = [outbox EXCEPT ![j] =
              IF @ = {} THEN {[document |-> d, attempts |-> 0, available |-> time,
                               published |-> FALSE]}
              ELSE {[row EXCEPT !.document = d] : row \in @}]
    BY DEF WritePrior
  <1>4. \A row \in outbox[j] : row \in Row /\ ~row.published
    BY <1>1 DEF Unreported, PriorTypes
  <1>. HIDE DEF d
  <1>5. ASSUME NEW new \in outbox'[j]  PROVE new.document = d /\ ~new.published
    <2>1. CASE outbox[j] = {}
      BY <1>3, <1>5, <2>1 DEF PriorTypes
    <2>2. CASE outbox[j] # {}
      <3>1. PICK row \in outbox[j] : new = [row EXCEPT !.document = d]
        BY <1>3, <1>5, <2>2 DEF PriorTypes
      <3>. QED  BY <1>4, <3>1 DEF Row
    <2>. QED  BY <2>1, <2>2
  <1>6. index' = index /\ relay' = relay
    BY DEF WritePrior
  <1>7. ASSUME NEW e \in Known(j)'  PROVE e = d
    <2>1. e \notin index'[j]
      BY <1>1, <1>6 DEF Unreported
    <2>2. \A r \in Relays : \A n \in Places(r)' : relay'[r].items[n] # [job |-> j, document |-> e]
      BY <1>1, <1>6 DEF Unreported, Places
    <2>. QED  BY <1>5, <1>7, <2>1, <2>2 DEF Known
  <1>. QED  BY <1>2, <1>5, <1>7

LEMMA OneDocumentStep ==
    ASSUME PriorsInv, [PriorsNext]_priorVars
    PROVE  OneDocument'
  <1>. USE DEF PriorsInv
  <1>. SUFFICES ASSUME NEW j \in PriorJobs, NEW d \in Known(j)', NEW e \in Known(j)'
                PROVE  d = e /\ d.version = status'[j].version
    BY DEF OneDocument
  <1>1. CASE WritePrior(j)
    BY <1>1, ReportKnown
  <1>2. CASE ~WritePrior(j)
    BY <1>2, KnownStays DEF OneDocument
  <1>. QED  BY <1>1, <1>2

LEMMA UnreportedStep ==
    ASSUME PriorsInv, [PriorsNext]_priorVars
    PROVE  Unreported'
  <1>. USE DEF PriorsInv
  <1>. SUFFICES ASSUME NEW j \in PriorJobs, ~status'[j].completed
                PROVE  /\ index'[j] = {} /\ \A row \in outbox'[j] : ~row.published
                       /\ \A r \in Relays : \A n \in Places(r)' : relay'[r].items[n].job # j
    BY DEF Unreported
  <1>1. ~status[j].completed
    <2>1. ASSUME NEW k \in PriorJobs, WritePrior(k) \/ CompleteJob(k)
          PROVE  status[j].completed => status'[j].completed
      BY <2>1 DEF PriorTypes, WritePrior, CompleteJob
    <2>. QED  BY <2>1, PriorSteps DEF priorVars, TimePasses, TakePriorLock, ReadOutbox, PutDocument,
                  MarkItem, CleanPriors, LosesConnection, RelayFails, SearchPriors
  <1>2. /\ index[j] = {} /\ \A row \in outbox[j] : ~row.published
        /\ \A r \in Relays : \A n \in Places(r) : relay[r].items[n].job # j
    BY <1>1 DEF Unreported
  <1>3. ASSUME NEW r \in Relays, NEW n \in Places(r)'  PROVE relay'[r].items[n].job # j
    <2>1. CASE ReadOutbox(r)
      <3>1. PICK items \in Seq(Item) :
               /\ relay' = [relay EXCEPT ![r] =
                     [at |-> IF items = <<>> THEN "clean" ELSE "put", items |-> items]]
               /\ \A m \in 1..Len(items) :
                     /\ \E row \in outbox[items[m].job] : Ready(items[m].job, row)
                     /\ \E row \in outbox[items[m].job] : items[m].document = row.document
        BY <2>1, ItemsRead
      <3>2. relay'[r].items = items
        BY <3>1 DEF PriorTypes
      <3>. QED  BY <1>1, <1>3, <3>1, <3>2 DEF Places, Ready
    <2>2. CASE ~ReadOutbox(r)
      BY <1>2, <1>3, <2>2, ItemsStay
    <2>. QED  BY <2>1, <2>2
  <1>4. index'[j] = {}
    <2>1. ASSUME NEW r \in Relays, PutDocument(r)  PROVE index'[j] = {}
      <3>1. Head(relay[r].items).job # j
        BY <1>2, <2>1, FirstItem
      <3>. QED  BY <1>2, <2>1, <3>1 DEF PriorTypes, PutDocument
    <2>2. ASSUME NEW r \in Relays, CleanPriors(r)  PROVE index'[j] = {}
      BY <1>2, <2>2 DEF CleanPriors
    <2>3. CASE index' = index
      BY <1>2, <2>3
    <2>. QED  BY <2>1, <2>2, <2>3, PriorSteps DEF priorVars, TimePasses, WritePrior, CompleteJob,
                  TakePriorLock, ReadOutbox, MarkItem, LosesConnection, RelayFails, SearchPriors
  <1>5. ASSUME NEW new \in outbox'[j]  PROVE ~new.published
    <2>1. ASSUME NEW k \in PriorJobs, WritePrior(k)  PROVE ~new.published
      <3>1. CASE k = j
        BY <1>5, <2>1, <3>1, ReportKnown
      <3>2. CASE k # j
        <4>1. \E rows : outbox' = [outbox EXCEPT ![k] = rows]
          BY <2>1 DEF WritePrior
        <4>. QED  BY <1>2, <1>5, <3>2, <4>1 DEF PriorTypes
      <3>. QED  BY <3>1, <3>2
    <2>2. ASSUME NEW r \in Relays, MarkItem(r)  PROVE ~new.published
      <3>1. Head(relay[r].items).job # j
        BY <1>2, <2>2, FirstItem
      <3>. QED  BY <1>2, <1>5, <2>2, <3>1, MarkedRows
    <2>3. ASSUME NEW r \in Relays, CleanPriors(r)  PROVE ~new.published
      BY <1>2, <1>5, <2>3 DEF CleanPriors
    <2>4. CASE outbox' = outbox
      BY <1>2, <1>5, <2>4
    <2>. QED  BY <2>1, <2>2, <2>3, <2>4, PriorSteps DEF priorVars, TimePasses, CompleteJob,
                  TakePriorLock, ReadOutbox, PutDocument, LosesConnection, RelayFails, SearchPriors
  <1>. QED  BY <1>3, <1>4, <1>5

\* The rows of a job are known, and the index holds nothing else of it.
LEMMA RowKnown ==
    ASSUME OneDocument, NEW j \in PriorJobs
    PROVE  /\ \A row \in outbox[j] : row.document \in Known(j)
           /\ index[j] \subseteq Known(j)
           /\ \A d, e \in Known(j) : d = e
  BY DEF OneDocument, Known

LEMMA RowsStep ==
    ASSUME PriorsInv, [PriorsNext]_priorVars
    PROVE  Rows'
  <1>. USE DEF PriorsInv
  <1>. DEFINE Fine(j, new) ==
                /\ new.attempts <= MaxAttempts
                /\ new.published =>
                      /\ new.attempts < MaxAttempts
                      /\ new.document \in index'[j] \/ new.document.expires <= time'
  <1>. SUFFICES ASSUME NEW j \in PriorJobs, NEW new \in outbox'[j]
                PROVE  /\ \A other \in outbox'[j] : other = new
                       /\ Fine(j, new)
    BY DEF Rows
  <1>. USE PriorsAssumption
  <1>1. \A row \in outbox[j] :
           /\ \A other \in outbox[j] : other = row
           /\ row \in Row /\ row.document \in Known(j)
           /\ row.attempts <= MaxAttempts
           /\ row.published =>
                 /\ row.attempts < MaxAttempts
                 /\ row.document \in index[j] \/ row.document.expires <= time
    BY RowKnown DEF Rows, PriorTypes
  <1>2. CASE UNCHANGED priorVars \/ TimePasses \/ \E allowed \in SUBSET Tables : SearchPriors(allowed)
    <2>1. outbox' = outbox /\ index' = index /\ time \in Nat /\ (time' = time \/ time' = time + 1)
      BY <1>2 DEF priorVars, TimePasses, SearchPriors, PriorTypes
    <2>2. \A row \in outbox[j] : row.document.expires \in Nat
      BY <1>1 DEF Row, Document
    <2>. QED  BY <1>1, <2>1, <2>2
  <1>3. ASSUME NEW k \in PriorJobs, WritePrior(k)
        PROVE  (\A other \in outbox'[j] : other = new) /\ Fine(j, new)
    <2>1. CASE k # j
      <3>1. \E rows : outbox' = [outbox EXCEPT ![k] = rows]
        BY <1>3 DEF WritePrior
      <3>2. outbox'[j] = outbox[j] /\ index' = index /\ time' = time
        BY <1>3, <2>1, <3>1 DEF PriorTypes, WritePrior
      <3>. QED  BY <1>1, <3>2
    <2>2. CASE k = j
      <3>. DEFINE d == [version |-> status[j].version + 1, tables |-> TablesOf[j],
                        expires |-> time + Retention]
      <3>1. outbox' = [outbox EXCEPT ![j] =
                  IF @ = {} THEN {[document |-> d, attempts |-> 0, available |-> time,
                                   published |-> FALSE]}
                  ELSE {[row EXCEPT !.document = d] : row \in @}]
        BY <1>3, <2>2 DEF WritePrior
      <3>. HIDE DEF d
      <3>2. ~new.published
        BY <1>3, <2>2, ReportKnown
      <3>3. CASE outbox[j] = {}
        <4>1. outbox'[j] = {[document |-> d, attempts |-> 0, available |-> time,
                             published |-> FALSE]}
          BY <3>1, <3>3 DEF PriorTypes
        <4>2. new.attempts = 0
          BY <4>1
        <4>. QED  BY <3>2, <4>1, <4>2
      <3>4. CASE outbox[j] # {}
        <4>1. outbox'[j] = {[row EXCEPT !.document = d] : row \in outbox[j]}
          BY <3>1, <3>4 DEF PriorTypes
        <4>2. PICK row \in outbox[j] : new = [row EXCEPT !.document = d]
          BY <4>1
        <4>3. new.attempts = row.attempts
          BY <1>1, <4>2 DEF Row
        <4>. QED  BY <1>1, <3>2, <4>1, <4>2, <4>3
      <3>. QED  BY <3>3, <3>4
    <2>. QED  BY <2>1, <2>2
  <1>4. ASSUME NEW k \in PriorJobs, CompleteJob(k)
        PROVE  outbox' = outbox /\ index' = index /\ time' = time
    BY <1>4 DEF CompleteJob
  <1>5. ASSUME NEW r \in Relays,
               TakePriorLock(r) \/ ReadOutbox(r) \/ LosesConnection(r) \/ RelayFails(r)
        PROVE  outbox' = outbox /\ index' = index /\ time' = time
    BY <1>5 DEF TakePriorLock, ReadOutbox, LosesConnection, RelayFails
  <1>6. ASSUME NEW r \in Relays, PutDocument(r)
        PROVE  (\A other \in outbox'[j] : other = new) /\ Fine(j, new)
    <2>1. outbox' = outbox /\ time' = time
      BY <1>6 DEF PutDocument
    <2>2. \/ index'[j] = index[j]
          \/ /\ index'[j] = {Head(relay[r].items).document}
             /\ Head(relay[r].items).job = j
      BY <1>6, FirstItem DEF PriorTypes, PutDocument
    <2>3. Head(relay[r].items).job = j => new.document = Head(relay[r].items).document
      BY <1>1, <1>6, <2>1, FirstItem, RowKnown
    <2>. QED  BY <1>1, <2>1, <2>2, <2>3
  <1>7. ASSUME NEW r \in Relays, MarkItem(r)
        PROVE  (\A other \in outbox'[j] : other = new) /\ Fine(j, new)
    <2>. DEFINE i == Head(relay[r].items)
    <2>1. /\ outbox' = [outbox EXCEPT ![i.job] = {Marked(row, relay[r].at) : row \in @}]
          /\ index' = index /\ time' = time /\ r \in holder
          /\ relay[r].at \in {"sent", "unsent"}
      BY <1>7 DEF MarkItem, Executes
    <2>2. CASE i.job # j
      <3>1. \E rows : outbox' = [outbox EXCEPT ![i.job] = rows]
        BY <2>1
      <3>2. outbox'[j] = outbox[j]
        BY <2>2, <3>1 DEF PriorTypes
      <3>. QED  BY <1>1, <2>1, <3>2
    <2>3. CASE i.job = j
      <3>1. outbox'[j] = {Marked(row, relay[r].at) : row \in outbox[j]}
        BY <2>1, <2>3 DEF PriorTypes
      <3>2. PICK row \in outbox[j] : new = Marked(row, relay[r].at)
        BY <3>1
      <3>3. \A other \in outbox'[j] : other = new
        BY <1>1, <3>1, <3>2
      <3>4. row.attempts < MaxAttempts
        BY <1>7, <2>1, <2>3, FirstItem DEF Locked
      <3>5. row.document = i.document
        BY <1>1, <1>7, <2>3, FirstItem, RowKnown
      <3>6. relay[r].at = "sent" => i.document \in index[j] \/ i.document.expires <= time
        BY <2>3 DEF Sent
      <3>7. row.attempts + 1 <= MaxAttempts /\ row \in Row
        BY <1>1, <3>4 DEF Row
      <3>8. Fine(j, new)
        BY <1>1, <2>1, <3>2, <3>4, <3>5, <3>6, <3>7 DEF Marked, Row
      <3>. QED  BY <3>3, <3>8
    <2>. QED  BY <2>2, <2>3
  <1>8. ASSUME NEW r \in Relays, CleanPriors(r)
        PROVE  (\A other \in outbox'[j] : other = new) /\ Fine(j, new)
    <2>1. new \in outbox[j] /\ new.document.expires > time /\ time' = time
          /\ outbox'[j] \subseteq outbox[j]
      BY <1>8 DEF CleanPriors
    <2>2. time \in Nat /\ new.document.expires \in Nat
      BY <1>1, <2>1 DEF PriorTypes, Row, Document
    <2>3. new.document \in index[j] => new.document \in index'[j]
      BY <1>8, <2>1 DEF CleanPriors
    <2>. QED  BY <1>1, <2>1, <2>2, <2>3
  <1>. QED  BY <1>1, <1>2, <1>3, <1>4, <1>5, <1>6, <1>7, <1>8, PriorSteps

\* The part of Locked about one holder.
Alone(r) ==
    /\ relay[r].at # "idle"
    /\ \A m, n \in Places(r) : m # n => relay[r].items[m].job # relay[r].items[n].job
    /\ \A n \in Places(r) : \A row \in outbox[relay[r].items[n].job] :
          row.attempts < MaxAttempts

LEMMA LockedStep ==
    ASSUME PriorsInv, [PriorsNext]_priorVars
    PROVE  Locked'
  <1>. USE PriorsAssumption DEF PriorsInv
  <1>0. \A r \in holder : Alone(r) /\ \A q \in holder : q = r
    BY DEF Locked, Alone
  <1>. SUFFICES ASSUME NEW r \in holder'
                PROVE  Alone(r)' /\ \A q \in holder' : q = r
    BY DEF Locked, Alone
  <1>1. CASE \/ UNCHANGED priorVars \/ TimePasses \/ \E allowed \in SUBSET Tables : SearchPriors(allowed)
             \/ \E j \in PriorJobs : CompleteJob(j)
    BY <1>0, <1>1 DEF Alone, Places, priorVars, TimePasses, SearchPriors, CompleteJob
  <1>2. ASSUME NEW j \in PriorJobs, WritePrior(j)  PROVE Alone(r)' /\ \A q \in holder' : q = r
    <2>1. /\ holder' = holder /\ relay' = relay /\ ~status[j].completed
          /\ \E rows : outbox' = [outbox EXCEPT ![j] = rows]
      BY <1>2 DEF WritePrior
    <2>2. r \in Relays
      BY <2>1 DEF PriorTypes
    <2>3. \A n \in Places(r) : relay[r].items[n].job # j
      BY <2>1, <2>2 DEF Unreported
    <2>4. \A n \in Places(r) : outbox'[relay[r].items[n].job] = outbox[relay[r].items[n].job]
      BY <2>1, <2>2, <2>3, ItemKnown DEF PriorTypes, Item
    <2>. QED  BY <1>0, <2>1, <2>4 DEF Alone, Places
  <1>3. ASSUME NEW q \in Relays, TakePriorLock(q)  PROVE Alone(r)' /\ \A p \in holder' : p = r
    <2>1. /\ holder' = {q} /\ r = q /\ relay[q].at = "idle"
          /\ relay' = [relay EXCEPT ![q].at = "read"]
      BY <1>3 DEF TakePriorLock
    <2>2. relay'[q].at = "read" /\ relay'[q].items = <<>>
      BY <2>1 DEF PriorTypes, Sent
    <2>. QED  BY <2>1, <2>2 DEF Alone, Places
  <1>4. ASSUME NEW q \in Relays, ReadOutbox(q)  PROVE Alone(r)' /\ \A p \in holder' : p = r
    <2>1. holder' = holder /\ outbox' = outbox /\ q = r
      BY <1>0, <1>4 DEF ReadOutbox, Executes
    <2>2. PICK items \in Seq(Item) :
             /\ relay' = [relay EXCEPT ![r] =
                   [at |-> IF items = <<>> THEN "clean" ELSE "put", items |-> items]]
             /\ \A n \in 1..Len(items) :
                   /\ \E row \in outbox[items[n].job] : Ready(items[n].job, row)
                   /\ \E row \in outbox[items[n].job] : items[n].document = row.document
             /\ \A m, n \in 1..Len(items) : m # n => items[m].job # items[n].job
      BY <1>4, <2>1, ItemsRead
    <2>3. /\ relay'[r].items = items
          /\ relay'[r].at \in {"clean", "put"}
      BY <1>4, <2>1, <2>2 DEF PriorTypes
    <2>4. \A n \in 1..Len(items) : items[n].job \in PriorJobs
      <3>1. \A n \in 1..Len(items) : items[n] \in Item
        BY <2>2, ElementOfSeq
      <3>. QED  BY <3>1 DEF Item
    <2>5. \A n \in 1..Len(items) : \A row \in outbox[items[n].job] : row.attempts < MaxAttempts
      BY <2>2, <2>4 DEF Rows, Ready
    <2>. QED  BY <1>0, <2>1, <2>2, <2>3, <2>5 DEF Alone, Places
  <1>5. ASSUME NEW q \in Relays, PutDocument(q)  PROVE Alone(r)' /\ \A p \in holder' : p = r
    <2>1. holder' = holder /\ outbox' = outbox /\ r \in Relays
          /\ \E at \in {"sent", "unsent"} : relay' = [relay EXCEPT ![q].at = at]
      BY <1>5 DEF PutDocument, PriorTypes
    <2>2. relay'[r].items = relay[r].items /\ relay'[r].at # "idle"
      BY <1>0, <2>1 DEF Alone, PriorTypes
    <2>. QED  BY <1>0, <2>1, <2>2 DEF Alone, Places
  <1>6. ASSUME NEW q \in Relays, MarkItem(q)  PROVE Alone(r)' /\ \A p \in holder' : p = r
    <2>. DEFINE items == relay[r].items
                j == Head(items).job
    <2>1. q = r /\ holder' = holder
      BY <1>0, <1>6 DEF MarkItem, Executes
    <2>2. /\ relay'[r].items = Tail(items) /\ relay'[r].at \in {"clean", "put"}
          /\ \E rows : outbox' = [outbox EXCEPT ![j] = rows]
      BY <1>6, <2>1 DEF MarkItem, PriorTypes
    <2>3. /\ items # <<>> /\ 1 \in Places(r) /\ Head(items) = items[1]
      BY <1>6, <2>1, FirstItem
    <2>4. \A n \in Places(r)' : /\ relay'[r].items[n] = items[n + 1]
                                /\ n + 1 \in Places(r) /\ n + 1 # 1
      BY <1>6, <2>1, <2>2, <2>3, RestOfItems DEF Places
    <2>5. \A n \in Places(r)' : /\ relay'[r].items[n].job # j
                                /\ relay'[r].items[n].job \in PriorJobs
      BY <1>0, <1>6, <2>1, <2>3, <2>4, ItemKnown DEF Alone, Item
    <2>6. \A n \in Places(r)' : outbox'[relay'[r].items[n].job] = outbox[relay'[r].items[n].job]
      BY <2>2, <2>5 DEF PriorTypes
    <2>7. \A m, n \in Places(r)' : m # n => m + 1 # n + 1
      BY DEF Places
    <2>. HIDE DEF items, j
    <2>8. \A m, n \in Places(r)' : m # n => relay'[r].items[m].job # relay'[r].items[n].job
      BY <1>0, <2>1, <2>4, <2>7 DEF Alone, items
    <2>9. \A n \in Places(r)' : \A row \in outbox'[relay'[r].items[n].job] :
             row.attempts < MaxAttempts
      BY <1>0, <2>1, <2>4, <2>6 DEF Alone, items
    <2>. QED  BY <1>0, <2>1, <2>2, <2>8, <2>9 DEF Alone
  <1>7. ASSUME NEW q \in Relays, CleanPriors(q) \/ RelayFails(q) \/ LosesConnection(q)
        PROVE  Alone(r)' /\ \A p \in holder' : p = r
    <2>1. holder' = holder \ {q} /\ r # q
      BY <1>7 DEF CleanPriors, RelayFails, LosesConnection, EndsRelay
    <2>2. outbox' = outbox /\ (relay' = relay \/ relay' = [relay EXCEPT ![q] = NoItems])
      BY <1>0, <1>7, <2>1 DEF CleanPriors, RelayFails, LosesConnection, EndsRelay, Executes
    <2>3. relay'[r] = relay[r]
      BY <2>1, <2>2 DEF PriorTypes
    <2>. QED  BY <1>0, <2>1, <2>2, <2>3 DEF Alone, Places
  <1>. QED  BY <1>1, <1>2, <1>3, <1>4, <1>5, <1>6, <1>7, PriorSteps

\* The part of Sent about one relay.
Honest(r) ==
    /\ relay[r].at = "idle" => relay[r].items = <<>>
    /\ relay[r].at \in {"put", "sent", "unsent"} => relay[r].items # <<>>
    /\ relay[r].at = "sent" =>
          LET i == Head(relay[r].items)
          IN  i.document \in index[i.job] \/ i.document.expires <= time

LEMMA SentStep ==
    ASSUME PriorsInv, [PriorsNext]_priorVars
    PROVE  Sent'
  <1>. USE DEF PriorsInv
  <1>. SUFFICES ASSUME NEW r \in Relays  PROVE Honest(r)'
    BY DEF Sent, Honest
  <1>. DEFINE i == Head(relay[r].items)
  <1>0. Honest(r)
    BY DEF Sent, Honest
  <1>1. relay[r].at \in {"sent"} =>
           /\ i \in Item /\ i.document \in Known(i.job)
           /\ i.document.expires \in Nat /\ time \in Nat
    <2>1. relay[r].at \in {"sent"} => 1 \in Places(r) /\ i = relay[r].items[1]
      BY RestOfItems DEF Sent
    <2>2. relay[r].at \in {"sent"} => i \in Item /\ i.document \in Known(i.job)
      BY <2>1, ItemKnown
    <2>3. i \in Item => i.document.expires \in Nat
      BY DEF Item, Document
    <2>4. time \in Nat
      BY PriorsAssumption DEF PriorTypes
    <2>. QED  BY <2>2, <2>3, <2>4
  <1>2. CASE \/ UNCHANGED priorVars \/ TimePasses \/ \E allowed \in SUBSET Tables : SearchPriors(allowed)
             \/ \E j \in PriorJobs : WritePrior(j) \/ CompleteJob(j)
    <2>1. /\ relay' = relay /\ index' = index /\ (time' = time \/ time' = time + 1)
      BY <1>2 DEF priorVars, TimePasses, SearchPriors, WritePrior, CompleteJob
    <2>. QED  BY <1>0, <1>1, <2>1 DEF Honest
  <1>3. ASSUME NEW q \in Relays,
               TakePriorLock(q) \/ ReadOutbox(q) \/ LosesConnection(q) \/ RelayFails(q)
        PROVE  Honest(r)'
    <2>1. index' = index /\ time' = time
      BY <1>3 DEF TakePriorLock, ReadOutbox, LosesConnection, RelayFails
    <2>2. CASE ReadOutbox(q)
      <3>1. PICK items \in Seq(Item) : relay' = [relay EXCEPT ![q] =
                     [at |-> IF items = <<>> THEN "clean" ELSE "put", items |-> items]]
        BY <2>2, ItemsRead
      <3>2. relay'[r] = relay[r] \/ /\ relay'[r].at = (IF items = <<>> THEN "clean" ELSE "put")
                                    /\ relay'[r].items = items
        BY <3>1 DEF PriorTypes
      <3>. QED  BY <1>0, <2>1, <3>2 DEF Honest
    <2>3. CASE TakePriorLock(q) \/ LosesConnection(q)
      <3>1. relay'[r] = relay[r] \/ relay'[r].at = "read"
        BY <2>3 DEF TakePriorLock, LosesConnection, PriorTypes
      <3>. QED  BY <1>0, <2>1, <3>1 DEF Honest
    <2>4. CASE RelayFails(q)
      <3>1. relay'[r] = relay[r] \/ relay'[r] = NoItems
        BY <2>4 DEF RelayFails, EndsRelay, PriorTypes
      <3>. QED  BY <1>0, <2>1, <3>1 DEF Honest, NoItems
    <2>. QED  BY <1>3, <2>2, <2>3, <2>4
  <1>4. ASSUME NEW q \in Relays, PutDocument(q)  PROVE Honest(r)'
    <2>. DEFINE sent == Head(relay[q].items)
    <2>1. PICK at \in {"sent", "unsent"} :
             /\ relay' = [relay EXCEPT ![q].at = at]
             /\ at = "sent" => index' = [index EXCEPT ![sent.job] = {sent.document}]
             /\ index' = index \/ index' = [index EXCEPT ![sent.job] = {sent.document}]
      BY <1>4 DEF PutDocument
    <2>2. /\ relay[q].items # <<>> /\ sent \in Item /\ sent.job \in PriorJobs
          /\ sent.document \in Known(sent.job) /\ time' = time
      BY <1>4, FirstItem DEF Item, PutDocument
    <2>. HIDE DEF sent
    <2>3. CASE q = r
      <3>1. relay'[r].at = at /\ relay'[r].items = relay[r].items
        BY <2>1, <2>3 DEF PriorTypes
      <3>2. at = "sent" => sent.document \in index'[sent.job]
        BY <2>1, <2>2 DEF PriorTypes
      <3>. QED  BY <2>2, <2>3, <3>1, <3>2 DEF Honest, sent
    <2>4. CASE q # r
      <3>1. relay'[r] = relay[r]
        BY <2>1, <2>4 DEF PriorTypes
      <3>2. relay[r].at = "sent" => (i.document \in index[i.job] => i.document \in index'[i.job])
        <4>1. ASSUME relay[r].at = "sent", i.job = sent.job
              PROVE  i.document = sent.document
          BY <1>1, <2>2, <4>1 DEF OneDocument
        <4>2. CASE i.job = sent.job
          <5>1. index' = index \/ index'[i.job] = {sent.document}
            BY <2>1, <2>2, <4>2 DEF PriorTypes
          <5>. QED  BY <4>1, <4>2, <5>1
        <4>3. CASE i.job # sent.job
          <5>1. relay[r].at = "sent" => i.job \in PriorJobs
            BY <1>1 DEF Item
          <5>2. relay[r].at = "sent" => index'[i.job] = index[i.job]
            BY <2>1, <4>3, <5>1 DEF PriorTypes
          <5>. QED  BY <5>2
        <4>. QED  BY <4>2, <4>3
      <3>. QED  BY <1>0, <2>2, <3>1, <3>2 DEF Honest
    <2>. QED  BY <2>3, <2>4
  <1>5. ASSUME NEW q \in Relays, MarkItem(q)  PROVE Honest(r)'
    <2>1. index' = index /\ time' = time
          /\ relay' = [relay EXCEPT ![q] =
                [at |-> IF Tail(relay[q].items) = <<>> THEN "clean" ELSE "put",
                 items |-> Tail(relay[q].items)]]
      BY <1>5 DEF MarkItem
    <2>2. CASE q = r
      <3>1. relay'[r].at = (IF relay'[r].items = <<>> THEN "clean" ELSE "put")
        BY <2>1, <2>2 DEF PriorTypes
      <3>. QED  BY <3>1 DEF Honest
    <2>3. CASE q # r
      <3>1. relay'[r] = relay[r]
        BY <2>1, <2>3 DEF PriorTypes
      <3>. QED  BY <1>0, <2>1, <3>1 DEF Honest
    <2>. QED  BY <2>2, <2>3
  <1>6. ASSUME NEW q \in Relays, CleanPriors(q)  PROVE Honest(r)'
    <2>1. /\ time' = time /\ (relay'[r] = relay[r] \/ relay'[r] = NoItems)
          /\ index' = index
             \/ index' = [j \in PriorJobs |-> {d \in index[j] : d.expires > time}]
      BY <1>6 DEF CleanPriors, EndsRelay, PriorTypes
    <2>2. relay[r].at = "sent" => /\ i.job \in PriorJobs
                                  /\ i.document.expires > time \/ i.document.expires <= time
      BY <1>1 DEF Item
    <2>. QED  BY <1>0, <1>1, <2>1, <2>2 DEF Honest, NoItems
  <1>. QED  BY <1>2, <1>3, <1>4, <1>5, <1>6, PriorSteps

LEMMA PriorsInvariant == PriorsSpec => []PriorsInv
  <1>1. PriorsInv /\ [PriorsNext]_priorVars => PriorsInv'
    BY PriorTypesStep, OneDocumentStep, UnreportedStep, RowsStep, LockedStep, SentStep
       DEF PriorsInv
  <1>. QED  BY <1>1, PriorsStart, PTL DEF PriorsSpec

-----------------------------------------------------------------------------
(* Historical priors: theorems *)

LEMMA SmallSets == \A S : (\A x, y \in S : x = y) => Cardinality(S) <= 1
  <1>. SUFFICES ASSUME NEW S, \A x, y \in S : x = y  PROVE Cardinality(S) <= 1
    OBVIOUS
  <1>1. CASE S = {}
    BY <1>1, FS_EmptySet
  <1>2. CASE S # {}
    <2>1. PICK x \in S : S = {x}
      BY <1>2
    <2>2. Cardinality({x}) = 1
      BY FS_Singleton
    <2>. QED  BY <2>1, <2>2
  <1>. QED  BY <1>1, <1>2

\* Rows, documents, relays and the lock are what their tables and types say:
\* one row and one document of a job, one relay with the lock
\* (historicalprior/relay.go:20-70).
THEOREM PriorsTypeCorrect == PriorsSpec => []PriorsTypeOK
  <1>1. ASSUME PriorsInv  PROVE PriorsTypeOK
    <2>1. \A j \in PriorJobs :
             /\ status[j].version \in 0..MaxVersion /\ status[j].completed \in BOOLEAN
             /\ \A row \in outbox[j] : row.published => row.attempts < MaxAttempts
             /\ \A x, y \in outbox[j] : x = y
      BY <1>1 DEF PriorsInv, PriorTypes, Rows
    <2>2. \A j \in PriorJobs : \A x, y \in index[j] : x = y
      BY <1>1, RowKnown DEF PriorsInv
    <2>3. \A x, y \in holder : x = y
      BY <1>1 DEF PriorsInv, Locked
    <2>4. \A r \in Relays :
             /\ relay[r].at \in {"idle", "read", "put", "sent", "unsent", "clean"}
             /\ r \in holder => relay[r].at # "idle"
      BY <1>1 DEF PriorsInv, PriorTypes, Locked
    <2>. QED  BY <1>1, <2>1, <2>2, <2>3, <2>4, SmallSets DEF PriorsInv, PriorTypes, PriorsTypeOK
  <1>. QED  BY <1>1, PriorsInvariant, PTL

\* What a search answers is not expired and is about tables that the caller may
\* see: it is gone before the next step (client.go:168-181).
LEMMA PageStep ==
    ASSUME PriorsInv, [PriorsNext]_priorVars,
           \A d \in page.documents : d.tables \subseteq page.allowed /\ d.expires > time
    PROVE  \A d \in page'.documents : d.tables \subseteq page'.allowed /\ d.expires > time'
  <1>1. CASE page' = NoPage
    BY <1>1 DEF NoPage
  <1>2. CASE UNCHANGED priorVars
    BY <1>2 DEF priorVars
  <1>3. CASE \E allowed \in SUBSET Tables : SearchPriors(allowed)
    BY <1>3 DEF SearchPriors
  <1>. QED  BY <1>1, <1>2, <1>3, PriorSteps DEF TimePasses, WritePrior, CompleteJob, TakePriorLock,
                ReadOutbox, PutDocument, MarkItem, CleanPriors, LosesConnection, RelayFails

\* The index holds only the standing reports of completed jobs, a published row
\* is there until it expires, no row is tried more often than allowed however
\* relays lose their lock, and a search shows what it may show
\* (historicalprior/relay.go:31-62, client.go:168-181).
THEOREM PriorsAreSound == PriorsSpec => []PriorsSound
  <1>. DEFINE Shown == \A d \in page.documents : d.tables \subseteq page.allowed /\ d.expires > time
  <1>1. ASSUME PriorsInv, Shown  PROVE PriorsSound
    <2>1. \A j \in PriorJobs : \A d \in index[j] :
             status[j].completed /\ d.version = status[j].version
      BY <1>1 DEF PriorsInv, Unreported, OneDocument, Known
    <2>2. \A j \in PriorJobs : \A row \in outbox[j] :
             /\ row.attempts <= MaxAttempts
             /\ row.published => index[j] = {row.document} \/ row.document.expires <= time
      <3>. SUFFICES ASSUME NEW j \in PriorJobs, NEW row \in outbox[j]
                    PROVE  /\ row.attempts <= MaxAttempts
                           /\ row.published =>
                                 index[j] = {row.document} \/ row.document.expires <= time
        OBVIOUS
      <3>1. \A d \in index[j] : d = row.document
        BY <1>1, RowKnown DEF PriorsInv
      <3>. QED  BY <1>1, <3>1 DEF PriorsInv, Rows
    <2>. QED  BY <1>1, <2>1, <2>2 DEF PriorsSound
  <1>2. PriorsInit => Shown
    BY DEF PriorsInit, NoPage
  <1>3. PriorsInv /\ Shown /\ [PriorsNext]_priorVars => Shown'
    BY PageStep
  <1>. QED  BY <1>1, <1>2, <1>3, PriorsInvariant, PTL DEF PriorsSpec

-----------------------------------------------------------------------------
(* Least and greatest numbers *)

LessThan == {pair \in Nat \X Nat : pair[1] < pair[2]}

LEMMA LessWellFounded == IsWellFoundedOn(LessThan, Nat)
  <1>1. LessThan = OpToRel(<, Nat)
    BY DEF LessThan, OpToRel
  <1>. QED BY <1>1, NatLessThanWellFounded

\* A set of numbers has a least one: induction, without a predicate parameter.
LEMMA LeastNumber ==
    ASSUME NEW S \in SUBSET Nat, S # {}
    PROVE  \E m \in S : \A n \in S : m <= n
  <1>1. PICK m \in S : \A n \in S : ~(<<n, m>> \in LessThan)
    BY LessWellFounded, WFMin
  <1>2. \A n \in Nat, k \in Nat : n < k => <<n, k>> \in LessThan
    <2>1. \A n \in Nat, k \in Nat :
             <<n, k>> \in Nat \X Nat /\ <<n, k>>[1] = n /\ <<n, k>>[2] = k
      OBVIOUS
    <2>. QED BY <2>1 DEF LessThan
  <1>3. S \subseteq Nat
    OBVIOUS
  <1>4. \A n \in S : ~(n < m)
    BY <1>1, <1>2, <1>3
  <1>5. \A n \in S : m <= n
    BY <1>1, <1>3, <1>4
  <1>. QED BY <1>1, <1>5

\* Max of a bounded set is its greatest member.
LEMMA GreatestNumber ==
    ASSUME NEW S \in SUBSET Nat, S # {}, NEW k \in Nat, \A n \in S : n <= k
    PROVE  Max(S) \in S /\ \A n \in S : n <= Max(S)
  <1>. DEFINE Rest == {k - n : n \in S}
  <1>1. Rest \in SUBSET Nat /\ Rest # {}
    <2>1. \A n \in S : n \in Nat /\ k - n \in Nat
      OBVIOUS
    <2>. QED BY <2>1
  <1>2. PICK m \in Rest : \A n \in Rest : m <= n
    BY <1>1, LeastNumber
  <1>3. PICK x \in S : m = k - x
    BY <1>2
  <1>4. \A n \in S : k - n \in Rest
    OBVIOUS
  <1>5. \A n \in S : m <= k - n
    BY <1>2, <1>4
  <1>6. \A n \in S : x >= n
    BY <1>3, <1>5
  <1>7. \E greatest \in S : \A n \in S : greatest >= n
    BY <1>3, <1>6
  <1>8. Max(S) \in S /\ \A n \in S : Max(S) >= n
    BY <1>7 DEF Max
  <1>. QED BY <1>8

-----------------------------------------------------------------------------
(* Knowledge assistant: the chunks of a document *)

Following(content, start) == NextStart(start, ChunkEnd(content, start))

HardEnd(content, start) ==
    IF start + MaxRunes < Len(content) THEN start + MaxRunes ELSE Len(content)

LineEnds(content, start) ==
    {c \in (start + MaxRunes \div 2) + 1..HardEnd(content, start) : content[c] = "newline"}

\* Where a chunk ends.
LEMMA EndCases ==
    ASSUME NEW content, Len(content) \in Nat, NEW s \in 0..Len(content)
    PROVE  /\ HardEnd(content, s) \in s..Len(content)
           /\ HardEnd(content, s) <= s + MaxRunes
           /\ s < Len(content) => s < HardEnd(content, s)
           /\ \/ /\ ChunkEnd(content, s) = HardEnd(content, s)
                 /\ HardEnd(content, s) = Len(content) \/ LineEnds(content, s) = {}
              \/ /\ HardEnd(content, s) < Len(content)
                 /\ ChunkEnd(content, s) \in LineEnds(content, s)
                 /\ \A c \in LineEnds(content, s) : c <= ChunkEnd(content, s)
  <1>. DEFINE hard == HardEnd(content, s)
              breaks == LineEnds(content, s)
  <1>1. MaxRunes \in Nat \ {0} /\ MaxRunes \div 2 \in Nat
    BY KnowledgeAssumption
  <1>2. hard \in s..Len(content) /\ hard <= s + MaxRunes /\ (s < Len(content) => s < hard)
    BY <1>1 DEF HardEnd
  <1>3. ChunkEnd(content, s) = IF hard < Len(content) /\ breaks # {} THEN Max(breaks) ELSE hard
    BY DEF ChunkEnd, HardEnd, LineEnds
  <1>4. breaks \in SUBSET Nat /\ (\A c \in breaks : c <= hard) /\ hard \in Nat
    BY <1>1, <1>2 DEF LineEnds
  <1>. HIDE DEF hard, breaks
  <1>5. breaks # {} => Max(breaks) \in breaks /\ \A c \in breaks : c <= Max(breaks)
    BY <1>4, GreatestNumber
  <1>6. \/ ChunkEnd(content, s) = hard /\ (hard = Len(content) \/ breaks = {})
        \/ /\ hard < Len(content)
           /\ ChunkEnd(content, s) \in breaks
           /\ \A c \in breaks : c <= ChunkEnd(content, s)
    BY <1>2, <1>3, <1>5
  <1>. QED BY <1>2, <1>6 DEF hard, breaks

\* A chunk is neither empty nor too long, and the next one starts later in it.
LEMMA EndBounds ==
    ASSUME NEW content, Len(content) \in Nat, NEW s \in 0..Len(content)
    PROVE  /\ ChunkEnd(content, s) \in s..Len(content)
           /\ ChunkEnd(content, s) <= s + MaxRunes
           /\ ChunkEnd(content, s) # Len(content) =>
                 Following(content, s) \in s + 1..ChunkEnd(content, s)
  <1>. DEFINE e == ChunkEnd(content, s)
  <1>1. /\ MaxRunes \in Nat \ {0} /\ MaxRunes \div 2 \in Nat
        /\ Overlap \in Nat
    BY KnowledgeAssumption
  <1>2. /\ e \in s..Len(content) /\ e <= s + MaxRunes
        /\ s < Len(content) => s < e
    <2>. DEFINE hard == HardEnd(content, s)
    <2>1. /\ hard \in s..Len(content) /\ hard <= s + MaxRunes
          /\ s < Len(content) => s < hard
          /\ e = hard \/ e \in LineEnds(content, s)
      BY EndCases
    <2>2. e \in LineEnds(content, s) => e \in (s + MaxRunes \div 2) + 1..hard
      BY DEF LineEnds
    <2>. HIDE DEF hard, e
    <2>. QED BY <1>1, <2>1, <2>2
  <1>. HIDE DEF e
  <1>3. e # Len(content) => NextStart(s, e) \in s + 1..e
    BY <1>1, <1>2 DEF NextStart
  <1>. QED BY <1>2, <1>3 DEF e, Following

\* A chunk that starts later ends no earlier.
LEMMA EndMonotone ==
    ASSUME NEW content, Len(content) \in Nat,
           NEW s \in 0..Len(content), NEW t \in 0..Len(content), s <= t
    PROVE  ChunkEnd(content, s) <= ChunkEnd(content, t)
  <1>. DEFINE e == ChunkEnd(content, s)
              f == ChunkEnd(content, t)
              half == MaxRunes \div 2
  <1>1. MaxRunes \in Nat \ {0} /\ half \in Nat
    BY KnowledgeAssumption
  <1>2. HardEnd(content, s) <= HardEnd(content, t)
    BY <1>1 DEF HardEnd
  <1>3. e \in Nat /\ f \in Nat /\ e <= HardEnd(content, s)
    <2>1. /\ HardEnd(content, s) \in s..Len(content)
          /\ e = HardEnd(content, s) \/ e \in LineEnds(content, s)
      BY EndCases
    <2>2. e \in LineEnds(content, s) => e <= HardEnd(content, s)
      BY <2>1 DEF LineEnds
    <2>3. e \in Nat /\ f \in Nat
      BY EndBounds
    <2>. QED BY <2>1, <2>2, <2>3
  <1>4. SUFFICES ASSUME f < e PROVE FALSE
    BY <1>3
  <1>5. /\ HardEnd(content, t) < Len(content)
        /\ f \in LineEnds(content, t)
        /\ \A c \in LineEnds(content, t) : c <= f
    BY <1>2, <1>3, <1>4, EndCases
  <1>6. f > t + half /\ content[f] = "newline"
    <2>1. f \in (t + half) + 1..HardEnd(content, t) /\ content[f] = "newline"
      BY <1>5 DEF LineEnds
    <2>. QED BY <1>1, <1>3, <2>1
  <1>hard. HardEnd(content, s) \in Nat /\ HardEnd(content, t) \in Nat
    BY EndCases
  <1>7. f \in LineEnds(content, s)
    <2>1. f \in (s + half) + 1..HardEnd(content, s)
      BY <1>1, <1>3, <1>4, <1>6, <1>hard
    <2>. QED BY <1>6, <2>1 DEF LineEnds
  <1>8. e \in LineEnds(content, s)
    BY <1>2, <1>5, <1>7, EndCases
  <1>9. content[e] = "newline" /\ e \in Nat
    BY <1>3, <1>8 DEF LineEnds
  <1>10. HardEnd(content, t) \in Nat /\ e <= HardEnd(content, t) /\ e > t + half
    BY <1>1, <1>2, <1>3, <1>4, <1>6, <1>hard
  <1>11. e \in LineEnds(content, t)
    BY <1>1, <1>9, <1>10 DEF LineEnds
  <1>. QED BY <1>3, <1>4, <1>5, <1>11

\* One step of the recursion of ChunkDocument.
ChunksStep(content, f, start) ==
    ChunkAt(content, start) \cup
        (IF ChunkEnd(content, start) = Len(content) THEN {} ELSE f[Following(content, start)])

\* The chunks from a position on.
ChunksFrom(content) ==
    CHOOSE f : f = [start \in 0..Len(content) |-> ChunksStep(content, f, start)]

LEMMA ChunkDocumentFrom == \A content : ChunkDocument(content) = ChunksFrom(content)[0]
  BY DEF ChunkDocument, ChunksFrom, ChunksStep, Following

\* Every chunk ends before the next one starts over, so the recursion ends: a
\* table of the last positions extends to one position more.
LEMMA ChunksExist ==
    ASSUME NEW content, Len(content) \in Nat
    PROVE  \E f : f = [start \in 0..Len(content) |-> ChunksStep(content, f, start)]
  <1>. DEFINE L == Len(content)
              IsTable(k, f) == f = [start \in L - k..L |-> ChunksStep(content, f, start)]
              Missing == {k \in 0..L : \A f : ~IsTable(k, f)}
  <1>1. SUFFICES Missing = {}
    <2>1. L \in 0..L /\ L - L = 0
      OBVIOUS
    <2>2. \E f : IsTable(L, f)
      BY <1>1, <2>1
    <2>. QED BY <2>1, <2>2
  <1>2. SUFFICES ASSUME Missing # {} PROVE FALSE
    OBVIOUS
  <1>3. Missing \in SUBSET Nat
    OBVIOUS
  <1>4. PICK k \in Missing : \A n \in Missing : k <= n
    BY <1>2, <1>3, LeastNumber
  <1>5. k \in 0..L /\ \A f : ~IsTable(k, f)
    BY <1>4
  <1>6. CASE k = 0
    <2>. DEFINE f == [start \in L..L |-> ChunkAt(content, start)]
    <2>1. \A start \in L..L : start = L /\ start \in 0..L
      OBVIOUS
    <2>2. \A start \in L..L : ChunkEnd(content, start) = L
      BY <2>1, EndBounds
    <2>. HIDE DEF L
    <2>3. f = [start \in L..L |-> ChunksStep(content, f, start)]
      BY <2>2 DEF ChunksStep, L
    <2>4. L - k = L
      BY <1>6 DEF L
    <2>. QED BY <1>5, <2>3, <2>4
  <1>7. CASE k # 0
    <2>1. k - 1 \in 0..L /\ k - 1 \notin Missing
      <3>1. k - 1 \in 0..L
        BY <1>5, <1>7
      <3>. HIDE DEF Missing, L
      <3>2. k - 1 \in Missing => k <= k - 1
        BY <1>4
      <3>. QED BY <1>5, <3>1, <3>2
    <2>2. PICK f : f = [start \in L - (k - 1)..L |-> ChunksStep(content, f, start)]
      BY <2>1
    <2>. DEFINE g == [start \in L - k..L |-> IF start = L - k THEN ChunksStep(content, f, start)
                                             ELSE f[start]]
    <2>3. \A start \in L - k..L : start \in 0..L
      BY <1>5
    <2>4. \A start \in L - k..L : ChunkEnd(content, start) # L =>
             Following(content, start) \in L - (k - 1)..L /\ Following(content, start) # L - k
      <3>1. TAKE start \in L - k..L
      <3>2. HAVE ChunkEnd(content, start) # L
      <3>3. /\ ChunkEnd(content, start) \in start..L
            /\ Following(content, start) \in start + 1..ChunkEnd(content, start)
        BY <2>3, <3>2, EndBounds
      <3>. QED BY <1>5, <3>3
    <2>5. \A n \in L - (k - 1)..L : n # L - k => g[n] = f[n]
      BY <1>5
    <2>. HIDE DEF L
    <2>6. \A start \in L - k..L : ChunksStep(content, g, start) = ChunksStep(content, f, start)
      <3>1. \A start \in L - k..L : ChunkEnd(content, start) # L =>
               g[Following(content, start)] = f[Following(content, start)]
        BY <2>4, <2>5
      <3>. HIDE DEF g
      <3>. QED BY <3>1 DEF ChunksStep, L
    <2>7. \A start \in L - k..L : start # L - k => start \in L - (k - 1)..L
      BY <1>5 DEF L
    <2>8. \A start \in L - k..L : start # L - k => f[start] = ChunksStep(content, f, start)
      BY <2>2, <2>7
    <2>9. \A start \in L - k..L : g[start] = ChunksStep(content, g, start)
      BY <2>6, <2>8
    <2>10. g = [start \in L - k..L |-> ChunksStep(content, g, start)]
      BY <2>9
    <2>. QED BY <1>5, <2>10
  <1>. QED BY <1>6, <1>7

LEMMA ChunksFromEquation ==
    ASSUME NEW content, Len(content) \in Nat, NEW s \in 0..Len(content)
    PROVE  ChunksFrom(content)[s] = ChunksStep(content, ChunksFrom(content), s)
  <1>1. PICK f : f = [start \in 0..Len(content) |-> ChunksStep(content, f, start)]
    BY ChunksExist
  <1>2. ChunksFrom(content) =
           [start \in 0..Len(content) |-> ChunksStep(content, ChunksFrom(content), start)]
    BY <1>1 DEF ChunksFrom
  <1>. QED BY <1>2

\* The chunks from a position on: finitely many, each a stretch of the text
\* that ends where ChunkEnd says, and together they hold what is visible.
ChunksHold(content, s) ==
    LET ranges == ChunksFrom(content)[s]
    IN  /\ IsFiniteSet(ranges)
        /\ \A r \in ranges : /\ r.from \in s..Len(content)
                             /\ r = [from |-> r.from, to |-> ChunkEnd(content, r.from)]
                             /\ r.from < ChunkEnd(content, r.from)
        /\ \A n \in s + 1..Len(content) : Visible(content, n) =>
              \E r \in ranges : n \in r.from + 1..r.to

LEMMA ChunkAtHolds ==
    ASSUME NEW content, Len(content) \in Nat, NEW s \in 0..Len(content)
    PROVE  /\ IsFiniteSet(ChunkAt(content, s))
           /\ \A r \in ChunkAt(content, s) :
                 /\ r = [from |-> s, to |-> ChunkEnd(content, s)]
                 /\ s < ChunkEnd(content, s)
           /\ \A n \in s + 1..ChunkEnd(content, s) : Visible(content, n) =>
                 \E r \in ChunkAt(content, s) : n \in r.from + 1..r.to
  <1>. DEFINE e == ChunkEnd(content, s)
              here == [from |-> s, to |-> e]
  <1>1. ChunkAt(content, s) = IF \E n \in s + 1..e : Visible(content, n) THEN {here} ELSE {}
    BY DEF ChunkAt
  <1>2. e \in s..Len(content)
    BY EndBounds
  <1>3. IsFiniteSet({here}) /\ IsFiniteSet({})
    BY FS_Singleton, FS_EmptySet
  <1>4. IsFiniteSet(ChunkAt(content, s))
    BY <1>1, <1>3
  <1>5. here.from = s /\ here.to = e
    OBVIOUS
  <1>. HIDE DEF e, here
  <1>6. \A r \in ChunkAt(content, s) : r = here /\ s < e
    BY <1>1, <1>2
  <1>7. \A n \in s + 1..e : Visible(content, n) =>
           \E r \in ChunkAt(content, s) : n \in r.from + 1..r.to
    BY <1>1, <1>5
  <1>. QED BY <1>4, <1>6, <1>7 DEF e, here

LEMMA ChunksHoldStep ==
    ASSUME NEW content, Len(content) \in Nat, NEW s \in 0..Len(content),
           ChunkEnd(content, s) # Len(content) => ChunksHold(content, Following(content, s))
    PROVE  ChunksHold(content, s)
  <1>. DEFINE L == Len(content)
              e == ChunkEnd(content, s)
              t == Following(content, s)
              here == ChunkAt(content, s)
              later == IF e = L THEN {} ELSE ChunksFrom(content)[t]
              Stretch(r) == /\ r = [from |-> r.from, to |-> ChunkEnd(content, r.from)]
                            /\ r.from < ChunkEnd(content, r.from)
  <1>1. ChunksFrom(content)[s] = here \cup later
    BY ChunksFromEquation DEF ChunksStep
  <1>2. e \in s..L /\ (e # L => t \in s + 1..e)
    BY EndBounds
  <1>3. /\ IsFiniteSet(here)
        /\ \A r \in here : r = [from |-> s, to |-> e] /\ s < e
        /\ \A n \in s + 1..e : Visible(content, n) => \E r \in here : n \in r.from + 1..r.to
    BY ChunkAtHolds
  <1>4. /\ IsFiniteSet(later)
        /\ \A r \in later : r.from \in t..L /\ Stretch(r)
        /\ e # L => \A n \in t + 1..L : Visible(content, n) =>
                       \E r \in later : n \in r.from + 1..r.to
    <2>1. CASE e = L
      <3>1. later = {}
        BY <2>1
      <3>. QED BY <2>1, <3>1, FS_EmptySet
    <2>2. CASE e # L
      <3>1. later = ChunksFrom(content)[t]
        BY <2>2
      <3>2. ChunksHold(content, t)
        BY <2>2
      <3>. HIDE DEF later, t, L
      <3>. QED BY <3>1, <3>2 DEF ChunksHold, L
    <2>. QED BY <2>1, <2>2
  <1>5. IsFiniteSet(here \cup later)
    BY <1>3, <1>4, FS_Union
  <1>6. \A r \in here : r.from \in s..L /\ Stretch(r)
    BY <1>2, <1>3
  <1>7. \A r \in later : r.from \in s..L /\ Stretch(r)
    <2>1. later # {} => e # L
      OBVIOUS
    <2>2. e # L => \A n \in t..L : n \in s..L
      BY <1>2
    <2>. HIDE DEF later, Stretch
    <2>. QED BY <1>4, <2>1, <2>2
  <1>8. ASSUME NEW n \in s + 1..L, Visible(content, n)
        PROVE  \E r \in here \cup later : n \in r.from + 1..r.to
    <2>. HIDE DEF e, t, L, here, later, Stretch
    <2>1. CASE n \in s + 1..e
      BY <1>3, <1>8, <2>1
    <2>2. CASE n \notin s + 1..e
      <3>1. L \in Nat /\ s \in Nat
        BY DEF L
      <3>2. e # L /\ n \in t + 1..L
        BY <1>2, <1>8, <2>2, <3>1
      <3>. QED BY <1>4, <1>8, <3>2
    <2>. QED BY <2>1, <2>2
  <1>. HIDE DEF here, later
  <1>. QED BY <1>1, <1>5, <1>6, <1>7, <1>8 DEF ChunksHold

LEMMA ChunksHoldAlways ==
    ASSUME NEW content, Len(content) \in Nat
    PROVE  ChunksHold(content, 0)
  <1>. DEFINE L == Len(content)
              Wrong == {k \in 0..L : ~ChunksHold(content, L - k)}
  <1>1. SUFFICES Wrong = {}
    <2>1. L \in 0..L /\ L - L = 0
      OBVIOUS
    <2>. QED BY <1>1, <2>1
  <1>2. SUFFICES ASSUME Wrong # {} PROVE FALSE
    OBVIOUS
  <1>3. Wrong \in SUBSET Nat
    OBVIOUS
  <1>. HIDE DEF Wrong
  <1>4. PICK k \in Wrong : \A n \in Wrong : k <= n
    BY <1>2, <1>3, LeastNumber
  <1>5. k \in 0..L /\ ~ChunksHold(content, L - k)
    BY <1>4 DEF Wrong
  <1>6. L - k \in 0..L
    BY <1>5
  <1>7. ASSUME ChunkEnd(content, L - k) # L
        PROVE  ChunksHold(content, Following(content, L - k))
    <2>. DEFINE t == Following(content, L - k)
    <2>1. /\ ChunkEnd(content, L - k) \in L - k..L
          /\ t \in (L - k) + 1..ChunkEnd(content, L - k)
      BY <1>6, <1>7, EndBounds
    <2>. HIDE DEF t
    <2>2. L - t \in 0..L /\ L - t < k /\ L - (L - t) = t
      BY <1>5, <2>1
    <2>. HIDE DEF L
    <2>3. L - t \notin Wrong
      BY <1>3, <1>4, <2>2
    <2>. QED BY <2>2, <2>3 DEF Wrong, t
  <1>8. ChunksHold(content, L - k)
    BY <1>6, <1>7, ChunksHoldStep
  <1>. QED BY <1>5, <1>8

\* What the chunks of any document are, for every length of its text and every
\* size and overlap of the chunks (rag/ingest.go:76-112).
LEMMA ChunksOfContent ==
    ASSUME NEW content \in Contents
    PROVE  LET ranges == ChunkDocument(content)
           IN  /\ IsFiniteSet(ranges)
               /\ \A n \in DOMAIN content : Visible(content, n) =>
                     \E r \in ranges : n \in r.from + 1..r.to
               /\ \A r, q \in ranges :
                     /\ r.to - r.from \in 1..MaxRunes
                     /\ r.from <= q.from => r.to <= q.to
  <1>. DEFINE ranges == ChunkDocument(content)
              L == Len(content)
  <1>1. L \in Nat /\ DOMAIN content = 1..L
    BY KnowledgeAssumption
  <1>2. ranges = ChunksFrom(content)[0]
    BY ChunkDocumentFrom
  <1>3. /\ IsFiniteSet(ranges)
        /\ \A r \in ranges : /\ r.from \in 0..L
                             /\ r = [from |-> r.from, to |-> ChunkEnd(content, r.from)]
                             /\ r.from < ChunkEnd(content, r.from)
        /\ \A n \in 0 + 1..L : Visible(content, n) =>
              \E r \in ranges : n \in r.from + 1..r.to
    BY <1>1, <1>2, ChunksHoldAlways DEF ChunksHold
  <1>. HIDE DEF ranges
  <1>4. \A r \in ranges : r.from \in 0..L /\ r.to = ChunkEnd(content, r.from) /\ r.from < r.to
    BY <1>3
  <1>5. ASSUME NEW r \in ranges, NEW q \in ranges
        PROVE  r.to - r.from \in 1..MaxRunes /\ (r.from <= q.from => r.to <= q.to)
    <2>1. /\ r.from \in 0..L /\ r.to = ChunkEnd(content, r.from) /\ r.from < r.to
          /\ q.from \in 0..L /\ q.to = ChunkEnd(content, q.from)
      BY <1>4
    <2>2. r.to \in r.from..L /\ r.to <= r.from + MaxRunes
      BY <1>1, <2>1, EndBounds
    <2>3. r.from <= q.from => r.to <= q.to
      BY <1>1, <2>1, EndMonotone
    <2>4. MaxRunes \in Nat
      BY KnowledgeAssumption
    <2>. HIDE DEF L
    <2>5. r.to - r.from \in 1..MaxRunes
      BY <1>1, <2>1, <2>2, <2>4
    <2>. QED BY <2>3, <2>5
  <1>. QED BY <1>1, <1>3, <1>5 DEF ranges

-----------------------------------------------------------------------------
(* Knowledge assistant: the inductive invariant *)

KnowledgeStages == InTransaction \cup {"idle", "embed", "question", "draft", "end"}

AnswerCodes == {"none", "invalid", "failed", "stored", "deleted", "document_not_found",
                "no_evidence", "context", "answer_invalid", "answer_citation_invalid",
                "refusal", "answered"}

AuditRow == [id: DocumentIds, version: SUBSET Contents]
NoWish == [kind |-> "none"]

KnowledgeTypes ==
    /\ adapter \in {"mysql", "remote"} /\ errors \in 0..MaxErrors
    /\ stage \in [Requests -> KnowledgeStages]
    /\ want \in [Requests -> Wishes \cup {NoWish}]
    /\ shared \in [Scopes -> SUBSET Requests] /\ owner \in [Scopes -> SUBSET Requests]
    /\ scopeRows \subseteq Scopes
    /\ chunks \subseteq AllChunks /\ IsFiniteSet(chunks)
    /\ documents \in [Scopes -> [DocumentIds -> SUBSET Contents]]
    /\ audit \in [Scopes -> Seq(AuditRow)]
    /\ found \in [Requests -> SUBSET AllChunks]
    /\ answer \in [Requests -> [code: AnswerCodes, cites: SUBSET AllChunks]]

\* What a request can ask for where it is.
Wanted ==
    \A p \in Requests :
        /\ stage[p] # "idle" => want[p] \in Wishes
        /\ stage[p] \in {"embed", "begin", "count"} => want[p].kind = "ingest"
        /\ stage[p] \in {"lock", "write"} => want[p].kind \in {"ingest", "delete"}
        /\ stage[p] \in {"question", "draft"} => want[p].kind \in {"query", "answer"}

\* One request owns the row of a scope, and then nobody else shares it; the one
\* that counts or writes does.  A row that is not there is not shared.
LocksHeld ==
    /\ \A s \in Scopes :
          /\ \A p, q \in owner[s] : p = q
          /\ owner[s] # {} => shared[s] \subseteq owner[s]
          /\ s \notin scopeRows => shared[s] = {}
          /\ \A p \in shared[s] \cup owner[s] : stage[p] \in InTransaction
    /\ \A p \in Requests : stage[p] \in {"count", "write"} => owner[want[p].scope] = {p}

\* The chunks of a scope that document id does not have.
Others(s, id) == {c \in chunks : c.scope = s /\ c.id # id}

\* The tables agree, a document has one version, and what is about to be
\* written fits.
StoreKept ==
    /\ \A s \in Scopes :
          /\ Cardinality({c \in chunks : c.scope = s}) <= Capacity
          /\ \A d \in DocumentIds :
                /\ RowsOf(s, d) = UNION {ChunksOf(s, d, v) : v \in documents[s][d]}
                /\ Replayed(s, d) = documents[s][d]
                /\ \A v, w \in documents[s][d] : v = w
    /\ \A p \in Requests : stage[p] = "write" /\ want[p].kind = "ingest" =>
          Cardinality(Others(want[p].scope, want[p].id))
             + Cardinality(ChunkDocument(want[p].content)) <= Capacity

Questions == {"query", "answer"}

\* What a question found is of its scope; in the MySQL store it was there at one
\* moment since the question arrived.
FoundInScope ==
    /\ since \in [Requests -> Nat]
    /\ \A p \in Requests :
          /\ stage[p] = "idle" => found[p] = {}
          /\ stage[p] # "end" => answer[p].cites = {}
          /\ answer[p].cites \subseteq found[p]
          /\ Cardinality(found[p]) <= TopK
          /\ \A c \in found[p] : c.scope = want[p].scope
          /\ stage[p] # "idle" /\ want[p].kind \in Questions =>
                since[p] <= Len(audit[want[p].scope])
          /\ found[p] # {} /\ adapter = "mysql" => StoredAtOnce(p)

KnowledgeInv == KnowledgeTypes /\ Wanted /\ LocksHeld /\ StoreKept /\ FoundInScope

-----------------------------------------------------------------------------
(* Knowledge assistant: steps *)

LEMMA WishShapes ==
    ASSUME NEW w \in Wishes
    PROVE  /\ w.kind \in {"ingest", "delete", "query", "answer"} /\ w.scope \in Scopes
           /\ w.kind \in {"ingest", "delete"} => w.id \in DocumentIds
           /\ w.kind = "ingest" => w.content \in Contents
  BY DEF Wishes

\* A chunk of a document, and where it is from.
LEMMA ChunkShapes ==
    /\ \A s, d, v : \A c \in ChunksOf(s, d, v) : c.scope = s /\ c.id = d /\ c.content = v
    /\ \A s \in Scopes, d \in DocumentIds, v \in Contents : ChunksOf(s, d, v) \subseteq AllChunks
  <1>1. \A s, d, v : \A c \in ChunksOf(s, d, v) : c.scope = s /\ c.id = d /\ c.content = v
    BY DEF ChunksOf
  <1>2. \A s \in Scopes, d \in DocumentIds, v \in Contents : ChunksOf(s, d, v) \subseteq AllChunks
    BY DEF AllChunks
  <1>. QED BY <1>1, <1>2

\* A document has as many chunks as its content.
LEMMA ChunksCounted ==
    ASSUME NEW s \in Scopes, NEW d \in DocumentIds, NEW v \in Contents
    PROVE  /\ IsFiniteSet(ChunksOf(s, d, v)) /\ IsFiniteSet(ChunkDocument(v))
           /\ Cardinality(ChunksOf(s, d, v)) <= Cardinality(ChunkDocument(v))
  <1>. DEFINE ranges == ChunkDocument(v)
              row == [r \in ranges |-> [scope |-> s, id |-> d, content |-> v, range |-> r]]
  <1>1. IsFiniteSet(ranges)
    BY ChunksOfContent
  <1>2. row \in Surjection(ranges, ChunksOf(s, d, v))
    <2>1. row \in [ranges -> ChunksOf(s, d, v)]
      BY DEF ChunksOf
    <2>2. \A c \in ChunksOf(s, d, v) : \E r \in ranges : row[r] = c
      BY DEF ChunksOf
    <2>. HIDE DEF row, ranges
    <2>. QED BY <2>1, <2>2 DEF Surjection
  <1>. HIDE DEF row, ranges
  <1>3. IsFiniteSet(ChunksOf(s, d, v)) /\ Cardinality(ChunksOf(s, d, v)) <= Cardinality(ranges)
    BY <1>1, <1>2, FS_Surjection
  <1>. QED BY <1>1, <1>3 DEF ranges

LEMMA KnowledgeSteps ==
    ASSUME KnowledgeTypes, KnowledgeNext
    PROVE  \E p \in Requests :
              \/ \E w \in Wishes : Ask(p, w)
              \/ Embed(p) \/ InsertScope(p) \/ LockScope(p) \/ CountChunks(p)
              \/ Upsert(p) \/ DeleteDocument(p) \/ Search(p) \/ Breaks(p)
              \/ \E text \in {"text", "empty", "garbage"} : \E ids \in SUBSET AllChunks :
                    Draft(p, text, ids)
  <1>1. PICK p \in Requests :
           \/ \E w \in Wishes : Ask(p, w)
           \/ Embed(p) \/ InsertScope(p) \/ LockScope(p) \/ CountChunks(p)
           \/ Upsert(p) \/ DeleteDocument(p) \/ Search(p) \/ Breaks(p)
           \/ \E text \in {"text", "empty", "garbage"}, ids \in Cited(p) : Draft(p, text, ids)
    BY DEF KnowledgeNext
  <1>2. ASSUME NEW ids \in Cited(p)
        PROVE  ids \in SUBSET AllChunks
    <2>1. PICK some \in SUBSET found[p],
               other \in {{}} \cup {{c} : c \in chunks \cup Strays} : ids = some \cup other
      BY DEF Cited
    <2>2. found[p] \subseteq AllChunks /\ chunks \cup Strays \subseteq AllChunks
      BY <1>1, StraysAssumption DEF KnowledgeTypes
    <2>. QED BY <2>1, <2>2
  <1>. QED BY <1>1, <1>2

\* A response: the request ends and lets its locks go.
LEMMA RespondsTypes ==
    ASSUME KnowledgeTypes, NEW p \in Requests, NEW code \in AnswerCodes,
           NEW cites \in SUBSET AllChunks, Responds(p, code, cites)
    PROVE  /\ stage' \in [Requests -> KnowledgeStages]
           /\ shared' \in [Scopes -> SUBSET Requests]
           /\ owner' \in [Scopes -> SUBSET Requests]
           /\ answer' \in [Requests -> [code: AnswerCodes, cites: SUBSET AllChunks]]
  <1>1. stage' \in [Requests -> KnowledgeStages]
    BY DEF KnowledgeTypes, Responds, Enters, KnowledgeStages
  <1>2. shared' \in [Scopes -> SUBSET Requests] /\ owner' \in [Scopes -> SUBSET Requests]
    BY DEF KnowledgeTypes, Responds
  <1>3. [code |-> code, cites |-> cites] \in [code: AnswerCodes, cites: SUBSET AllChunks]
    OBVIOUS
  <1>4. answer' \in [Requests -> [code: AnswerCodes, cites: SUBSET AllChunks]]
    BY <1>3 DEF KnowledgeTypes, Responds
  <1>. QED BY <1>1, <1>2, <1>4

LEMMA EntersTypes ==
    ASSUME KnowledgeTypes, NEW p \in Requests, NEW next \in KnowledgeStages, Enters(p, next)
    PROVE  stage' \in [Requests -> KnowledgeStages]
  BY DEF KnowledgeTypes, Enters

\* A commit that is answered, or whose answer is lost.
LEMMA CommitsTypes ==
    ASSUME KnowledgeTypes, NEW p \in Requests, NEW code \in AnswerCodes, Commits(p, code)
    PROVE  /\ \E answered \in AnswerCodes : Responds(p, answered, {})
           /\ errors' \in 0..MaxErrors
  <1>1. {} \in SUBSET AllChunks /\ "failed" \in AnswerCodes /\ MaxErrors \in Nat
    BY KnowledgeAssumption DEF AnswerCodes
  <1>2. CASE Responds(p, code, {}) /\ UNCHANGED errors
    BY <1>2 DEF KnowledgeTypes
  <1>3. CASE Responds(p, "failed", {}) /\ ErrorHappens
    BY <1>1, <1>3 DEF KnowledgeTypes, ErrorHappens
  <1>. QED BY <1>2, <1>3 DEF Commits

RequestTypes ==
    /\ stage' \in [Requests -> KnowledgeStages]
    /\ shared' \in [Scopes -> SUBSET Requests] /\ owner' \in [Scopes -> SUBSET Requests]
    /\ answer' \in [Requests -> [code: AnswerCodes, cites: SUBSET AllChunks]]
    /\ errors' \in 0..MaxErrors

LEMMA TypesStep ==
    ASSUME KnowledgeInv, KnowledgeNext
    PROVE  KnowledgeTypes'
  <1>. USE DEF storeVars, lockVars
  <1>1. KnowledgeTypes /\ Wanted
    BY DEF KnowledgeInv
  <1>2. PICK p \in Requests :
           \/ \E w \in Wishes : Ask(p, w)
           \/ Embed(p) \/ InsertScope(p) \/ LockScope(p) \/ CountChunks(p)
           \/ Upsert(p) \/ DeleteDocument(p) \/ Search(p) \/ Breaks(p)
           \/ \E text \in {"text", "empty", "garbage"} : \E ids \in SUBSET AllChunks :
                 Draft(p, text, ids)
    BY <1>1, KnowledgeSteps
  <1>3. {} \in SUBSET AllChunks /\ MaxErrors \in Nat
    BY KnowledgeAssumption
  <1>4. \A code \in AnswerCodes : Responds(p, code, {}) /\ errors' \in 0..MaxErrors => RequestTypes
    BY <1>1, <1>3, RespondsTypes DEF RequestTypes
  <1>5. \A next \in KnowledgeStages :
           Enters(p, next) /\ UNCHANGED <<lockVars, answer, errors>> => RequestTypes
    BY <1>1, EntersTypes DEF RequestTypes, KnowledgeTypes
  <1>6. errors \in 0..MaxErrors /\ (UNCHANGED errors => errors' \in 0..MaxErrors)
        /\ (ErrorHappens => errors' \in 0..MaxErrors)
    BY <1>1, <1>3 DEF KnowledgeTypes, ErrorHappens
  <1>7. ASSUME RequestTypes, UNCHANGED <<adapter, want, storeVars, found>>
        PROVE  KnowledgeTypes'
    BY <1>1, <1>7 DEF KnowledgeTypes, RequestTypes
  <1>8. ASSUME NEW w \in Wishes, Ask(p, w)
        PROVE  KnowledgeTypes'
    <2>. DEFINE next == CASE w.kind = "ingest" -> "embed"
                          [] w.kind = "delete" -> "lock"
                          [] OTHER -> "question"
    <2>1. next \in KnowledgeStages
      BY DEF KnowledgeStages, InTransaction
    <2>2. Enters(p, next) /\ want' = [want EXCEPT ![p] = w]
          /\ UNCHANGED <<adapter, storeVars, lockVars, found, answer, errors>>
      BY <1>8 DEF Ask
    <2>. HIDE DEF next
    <2>3. RequestTypes
      BY <1>5, <2>1, <2>2
    <2>4. want' \in [Requests -> Wishes \cup {NoWish}]
      BY <1>1, <2>2 DEF KnowledgeTypes
    <2>. QED BY <1>1, <2>2, <2>3, <2>4 DEF KnowledgeTypes, RequestTypes
  <1>9. CASE Embed(p)
    <2>1. RequestTypes
      BY <1>4, <1>5, <1>6, <1>9 DEF Embed, AnswerCodes, KnowledgeStages, InTransaction
    <2>. QED BY <1>7, <1>9, <2>1 DEF Embed
  <1>10. CASE InsertScope(p)
    <2>1. Enters(p, "lock") /\ UNCHANGED <<answer, errors>>
      BY <1>10 DEF InsertScope
    <2>2. stage' \in [Requests -> KnowledgeStages]
      BY <1>1, <2>1, EntersTypes DEF KnowledgeStages, InTransaction
    <2>3. shared' \in [Scopes -> SUBSET Requests] /\ owner' \in [Scopes -> SUBSET Requests]
      <3>. DEFINE s == want[p].scope
      <3>1. /\ shared' = [shared EXCEPT ![s] = @ \cup {p}] \/ UNCHANGED shared
            /\ owner' = [owner EXCEPT ![s] = {p}] \/ UNCHANGED owner
        BY <1>10 DEF InsertScope
      <3>2. s \in Scopes
        BY <1>1, <1>10, WishShapes DEF InsertScope, Wanted
      <3>. HIDE DEF s
      <3>3. /\ shared \in [Scopes -> SUBSET Requests] /\ owner \in [Scopes -> SUBSET Requests]
            /\ shared[s] \cup {p} \in SUBSET Requests /\ {p} \in SUBSET Requests
        BY <1>1, <3>2 DEF KnowledgeTypes
      <3>. DEFINE more == shared[s] \cup {p}
                  mine == {p}
      <3>4. /\ shared' = [shared EXCEPT ![s] = more] \/ UNCHANGED shared
            /\ owner' = [owner EXCEPT ![s] = mine] \/ UNCHANGED owner
        BY <3>1
      <3>5. more \in SUBSET Requests /\ mine \in SUBSET Requests
        BY <3>3
      <3>. HIDE DEF more, mine
      <3>. QED BY <3>3, <3>4, <3>5
    <2>4. RequestTypes
      BY <1>1, <1>6, <2>1, <2>2, <2>3 DEF RequestTypes, KnowledgeTypes
    <2>. QED BY <1>7, <1>10, <2>4 DEF InsertScope
  <1>11. CASE LockScope(p)
    <2>1. CASE Responds(p, "document_not_found", {})
      <3>1. RequestTypes
        BY <1>4, <1>6, <1>11, <2>1 DEF LockScope, AnswerCodes
      <3>. QED BY <1>7, <1>11, <3>1 DEF LockScope
    <2>2. CASE ~Responds(p, "document_not_found", {})
      <3>1. /\ owner' = [owner EXCEPT ![want[p].scope] = {p}]
            /\ \E next \in {"write", "count"} : Enters(p, next)
            /\ UNCHANGED <<shared, answer, errors>>
        BY <1>11, <2>2 DEF LockScope
      <3>2. stage' \in [Requests -> KnowledgeStages]
        BY <1>1, <3>1, EntersTypes DEF KnowledgeStages, InTransaction
      <3>3. shared' \in [Scopes -> SUBSET Requests] /\ owner' \in [Scopes -> SUBSET Requests]
        BY <1>1, <3>1 DEF KnowledgeTypes
      <3>4. RequestTypes
        BY <1>1, <1>6, <3>1, <3>2, <3>3 DEF RequestTypes, KnowledgeTypes
      <3>. QED BY <1>7, <1>11, <3>4 DEF LockScope
    <2>. QED BY <2>1, <2>2
  <1>12. CASE CountChunks(p)
    <2>1. RequestTypes
      BY <1>4, <1>5, <1>6, <1>12 DEF CountChunks, AnswerCodes, KnowledgeStages, InTransaction
    <2>. QED BY <1>7, <1>12, <2>1 DEF CountChunks
  <1>13. CASE Upsert(p)
    <2>. DEFINE w == want[p]
                row == [id |-> w.id, version |-> {w.content}]
    <2>1. /\ Commits(p, "stored") /\ UNCHANGED <<adapter, want, found>>
          /\ stage[p] = "write" /\ w.kind = "ingest"
      BY <1>13 DEF Upsert
    <2>2. w \in Wishes
      BY <1>1, <2>1 DEF Wanted
    <2>3. w.scope \in Scopes /\ w.id \in DocumentIds /\ w.content \in Contents
      BY <2>1, <2>2, WishShapes
    <2>4. /\ ChunksOf(w.scope, w.id, w.content) \subseteq AllChunks
          /\ IsFiniteSet(ChunksOf(w.scope, w.id, w.content))
      BY <2>3, ChunkShapes, ChunksCounted
    <2>5. chunks' = (chunks \ RowsOf(w.scope, w.id)) \cup ChunksOf(w.scope, w.id, w.content)
      BY <1>13 DEF Upsert
    <2>6. chunks' \subseteq AllChunks /\ IsFiniteSet(chunks')
      <3>1. IsFiniteSet(chunks \ RowsOf(w.scope, w.id))
        BY <1>1, FS_Difference DEF KnowledgeTypes
      <3>2. IsFiniteSet(chunks')
        BY <2>4, <2>5, <3>1, FS_Union
      <3>3. chunks' \subseteq AllChunks
        BY <1>1, <2>4, <2>5 DEF KnowledgeTypes
      <3>. QED BY <3>2, <3>3
    <2>7. documents' \in [Scopes -> [DocumentIds -> SUBSET Contents]]
      <3>1. documents' = [documents EXCEPT ![w.scope][w.id] = {w.content}]
        BY <1>13 DEF Upsert
      <3>. HIDE DEF w
      <3>. QED BY <1>1, <2>3, <3>1 DEF KnowledgeTypes
    <2>8. audit' \in [Scopes -> Seq(AuditRow)]
      <3>1. audit' = [audit EXCEPT ![w.scope] = Append(@, row)]
        BY <1>13 DEF Upsert
      <3>2. row \in AuditRow
        BY <2>3 DEF AuditRow
      <3>3. Append(audit[w.scope], row) \in Seq(AuditRow)
        BY <1>1, <2>3, <3>2 DEF KnowledgeTypes
      <3>. HIDE DEF w, row
      <3>. QED BY <1>1, <2>3, <3>1, <3>3 DEF KnowledgeTypes
    <2>9. scopeRows' \subseteq Scopes
      BY <1>1, <1>13, <2>3 DEF Upsert, KnowledgeTypes
    <2>10. RequestTypes
      BY <1>1, <1>4, <2>1, CommitsTypes DEF AnswerCodes
    <2>. HIDE DEF w
    <2>. QED BY <1>1, <2>1, <2>6, <2>7, <2>8, <2>9, <2>10 DEF KnowledgeTypes, RequestTypes
  <1>14. CASE DeleteDocument(p)
    <2>. DEFINE w == want[p]
                row == [id |-> w.id, version |-> {}]
    <2>1. /\ UNCHANGED <<adapter, want, found, scopeRows>>
          /\ stage[p] = "write" /\ w.kind = "delete"
      BY <1>14 DEF DeleteDocument
    <2>2. w \in Wishes
      BY <1>1, <2>1 DEF Wanted
    <2>3. w.scope \in Scopes /\ w.id \in DocumentIds
      BY <2>1, <2>2, WishShapes
    <2>4. CASE documents[w.scope][w.id] = {}
      <3>1. /\ Responds(p, "document_not_found", {})
            /\ UNCHANGED <<chunks, documents, audit, errors>>
        BY <1>14, <2>4 DEF DeleteDocument
      <3>2. RequestTypes
        BY <1>4, <1>6, <3>1 DEF AnswerCodes
      <3>. QED BY <1>7, <2>1, <3>1, <3>2
    <2>5. CASE documents[w.scope][w.id] # {}
      <3>1. /\ chunks' = chunks \ RowsOf(w.scope, w.id)
            /\ documents' = [documents EXCEPT ![w.scope][w.id] = {}]
            /\ audit' = [audit EXCEPT ![w.scope] = Append(@, row)]
            /\ Commits(p, "deleted")
        BY <1>14, <2>5 DEF DeleteDocument
      <3>2. chunks' \subseteq AllChunks /\ IsFiniteSet(chunks')
        BY <1>1, <3>1, FS_Difference DEF KnowledgeTypes
      <3>3. row \in AuditRow
        BY <2>3 DEF AuditRow
      <3>4. Append(audit[w.scope], row) \in Seq(AuditRow)
        BY <1>1, <2>3, <3>3 DEF KnowledgeTypes
      <3>5. RequestTypes
        BY <1>1, <1>4, <3>1, CommitsTypes DEF AnswerCodes
      <3>. HIDE DEF w, row
      <3>6. documents' \in [Scopes -> [DocumentIds -> SUBSET Contents]]
        BY <1>1, <2>3, <3>1 DEF KnowledgeTypes
      <3>7. audit' \in [Scopes -> Seq(AuditRow)]
        BY <1>1, <2>3, <3>1, <3>4 DEF KnowledgeTypes
      <3>. QED BY <1>1, <2>1, <3>2, <3>5, <3>6, <3>7 DEF KnowledgeTypes, RequestTypes
    <2>. QED BY <2>4, <2>5
  <1>15. CASE Search(p)
    <2>1. PICK hits \in Returned(p) : \E cut \in SUBSET Kept(p, hits) :
             /\ found' = [found EXCEPT ![p] = cut]
             /\ IF cut = {} THEN Responds(p, "no_evidence", {})
                ELSE IF want[p].kind = "query" THEN Responds(p, "context", cut)
                ELSE Enters(p, "draft") /\ UNCHANGED <<answer, lockVars>>
      BY <1>15 DEF Search
    <2>2. PICK cut \in SUBSET Kept(p, hits) :
             /\ found' = [found EXCEPT ![p] = cut]
             /\ IF cut = {} THEN Responds(p, "no_evidence", {})
                ELSE IF want[p].kind = "query" THEN Responds(p, "context", cut)
                ELSE Enters(p, "draft") /\ UNCHANGED <<answer, lockVars>>
      BY <2>1
    <2>3. cut \in SUBSET AllChunks
      <3>1. hits \subseteq AllChunks
        BY <1>1, <2>1, StraysAssumption DEF Returned, KnowledgeTypes
      <3>2. cut \subseteq hits
        BY <2>2 DEF Kept
      <3>. QED BY <3>1, <3>2
    <2>4. found' \in [Requests -> SUBSET AllChunks]
      BY <1>1, <2>2, <2>3 DEF KnowledgeTypes
    <2>5. UNCHANGED <<adapter, want, storeVars, errors>>
      BY <1>15 DEF Search
    <2>6. RequestTypes
      <3>1. CASE Responds(p, "no_evidence", {})
        BY <1>4, <1>6, <2>5, <3>1 DEF AnswerCodes
      <3>2. CASE Responds(p, "context", cut)
        BY <1>1, <1>6, <2>3, <2>5, <3>2, RespondsTypes DEF RequestTypes, AnswerCodes
      <3>3. CASE Enters(p, "draft") /\ UNCHANGED <<answer, lockVars>>
        BY <1>5, <2>5, <3>3 DEF KnowledgeStages
      <3>. QED BY <2>2, <3>1, <3>2, <3>3
    <2>. QED BY <1>1, <2>4, <2>5, <2>6 DEF KnowledgeTypes, RequestTypes
  <1>16. CASE Breaks(p)
    <2>1. Responds(p, "failed", {}) /\ (ErrorHappens \/ UNCHANGED errors)
      BY <1>16 DEF Breaks
    <2>2. RequestTypes
      BY <1>4, <1>6, <2>1 DEF AnswerCodes
    <2>. QED BY <1>7, <1>16, <2>2 DEF Breaks
  <1>17. ASSUME NEW text \in {"text", "empty", "garbage"}, NEW ids \in SUBSET AllChunks,
                Draft(p, text, ids)
         PROVE  KnowledgeTypes'
    <2>1. /\ UNCHANGED <<adapter, want, storeVars, found, errors>>
          /\ \E code \in AnswerCodes : Responds(p, code, {}) \/ Responds(p, code, ids)
      BY <1>17 DEF Draft, AnswerCodes
    <2>2. RequestTypes
      BY <1>1, <1>3, <1>6, <2>1, RespondsTypes DEF RequestTypes
    <2>. QED BY <1>7, <2>1, <2>2
  <1>. QED BY <1>2, <1>8, <1>9, <1>10, <1>11, <1>12, <1>13, <1>14, <1>15, <1>16, <1>17

\* Only one request moves; what it wants changes only when it arrives.
Moves(p, from, to) ==
    /\ stage[p] = from /\ stage' = [stage EXCEPT ![p] = to]
    /\ UNCHANGED want

\* What a step does to the request that takes it: the stages of a request.
LEMMA StageSteps ==
    ASSUME KnowledgeTypes, NEW p \in Requests,
           \/ Embed(p) \/ InsertScope(p) \/ LockScope(p) \/ CountChunks(p)
           \/ Upsert(p) \/ DeleteDocument(p) \/ Search(p) \/ Breaks(p)
           \/ \E text, ids : Draft(p, text, ids)
    PROVE  \/ \E from \in KnowledgeStages \ {"idle"} : Moves(p, from, "end")
           \/ Moves(p, "embed", "begin") \/ Moves(p, "begin", "lock")
           \/ Moves(p, "lock", "count") /\ want[p].kind # "delete"
           \/ Moves(p, "lock", "write") /\ want[p].kind = "delete"
           \/ Moves(p, "count", "write")
           \/ Moves(p, "question", "draft") /\ want[p].kind # "query"
  <1>. USE DEF Moves, Responds, Enters, KnowledgeStages, InTransaction
  <1>1. CASE Embed(p)
    BY <1>1 DEF Embed
  <1>2. CASE InsertScope(p)
    BY <1>2 DEF InsertScope
  <1>3. CASE LockScope(p)
    BY <1>3 DEF LockScope
  <1>4. CASE CountChunks(p)
    BY <1>4 DEF CountChunks
  <1>5. CASE Upsert(p)
    BY <1>5 DEF Upsert, Commits
  <1>6. CASE DeleteDocument(p)
    <2>1. stage[p] = "write" /\ UNCHANGED want /\ \E code : Responds(p, code, {})
      BY <1>6 DEF DeleteDocument, Commits
    <2>. QED BY <2>1
  <1>7. CASE Search(p)
    <2>1. stage[p] = "question" /\ UNCHANGED want
      BY <1>7 DEF Search
    <2>2. \/ \E code, cut : Responds(p, code, cut)
          \/ Enters(p, "draft") /\ want[p].kind # "query"
      BY <1>7 DEF Search
    <2>. QED BY <2>1, <2>2
  <1>8. CASE Breaks(p)
    <2>1. stage[p] \notin {"idle", "end"} /\ UNCHANGED want /\ Responds(p, "failed", {})
      BY <1>8 DEF Breaks
    <2>2. stage[p] \in KnowledgeStages
      BY DEF KnowledgeTypes
    <2>. QED BY <2>1, <2>2
  <1>9. ASSUME NEW text, NEW ids, Draft(p, text, ids)
        PROVE  Moves(p, "draft", "end")
    BY <1>9 DEF Draft
  <1>. QED BY <1>1, <1>2, <1>3, <1>4, <1>5, <1>6, <1>7, <1>8, <1>9

LEMMA WantedStep ==
    ASSUME KnowledgeInv, KnowledgeNext
    PROVE  Wanted'
  <1>1. KnowledgeTypes /\ Wanted
    BY DEF KnowledgeInv
  <1>2. PICK p \in Requests :
           \/ \E w \in Wishes : Ask(p, w)
           \/ Embed(p) \/ InsertScope(p) \/ LockScope(p) \/ CountChunks(p)
           \/ Upsert(p) \/ DeleteDocument(p) \/ Search(p) \/ Breaks(p)
           \/ \E text \in {"text", "empty", "garbage"} : \E ids \in SUBSET AllChunks :
                 Draft(p, text, ids)
    BY <1>1, KnowledgeSteps
  <1>. SUFFICES ASSUME NEW q \in Requests
                PROVE  /\ stage'[q] # "idle" => want'[q] \in Wishes
                       /\ stage'[q] \in {"embed", "begin", "count"} => want'[q].kind = "ingest"
                       /\ stage'[q] \in {"lock", "write"} => want'[q].kind \in {"ingest", "delete"}
                       /\ stage'[q] \in {"question", "draft"} => want'[q].kind \in {"query", "answer"}
    BY DEF Wanted
  <1>3. /\ stage \in [Requests -> KnowledgeStages] /\ DOMAIN want = Requests
        /\ stage[q] # "idle" => want[q] \in Wishes
        /\ stage[q] \in {"embed", "begin", "count"} => want[q].kind = "ingest"
        /\ stage[q] \in {"lock", "write"} => want[q].kind \in {"ingest", "delete"}
        /\ stage[q] \in {"question", "draft"} => want[q].kind \in {"query", "answer"}
        /\ stage[p] # "idle" => want[p] \in Wishes
    BY <1>1 DEF KnowledgeTypes, Wanted
  <1>4. ASSUME NEW w \in Wishes, Ask(p, w)
        PROVE  /\ stage'[q] # "idle" => want'[q] \in Wishes
               /\ stage'[q] \in {"embed", "begin", "count"} => want'[q].kind = "ingest"
               /\ stage'[q] \in {"lock", "write"} => want'[q].kind \in {"ingest", "delete"}
               /\ stage'[q] \in {"question", "draft"} => want'[q].kind \in {"query", "answer"}
    <2>. DEFINE next == CASE w.kind = "ingest" -> "embed"
                          [] w.kind = "delete" -> "lock"
                          [] OTHER -> "question"
    <2>1. stage' = [stage EXCEPT ![p] = next] /\ want' = [want EXCEPT ![p] = w]
      BY <1>4 DEF Ask, Enters
    <2>2. /\ next \in {"embed", "lock", "question"}
          /\ next = "embed" => w.kind = "ingest"
          /\ next = "lock" => w.kind = "delete"
          /\ next = "question" => w.kind \in {"query", "answer"}
      BY WishShapes
    <2>. HIDE DEF next
    <2>. QED BY <1>3, <2>1, <2>2
  <1>5. CASE ~\E w \in Wishes : Ask(p, w)
    <2>1. \/ \E from \in KnowledgeStages \ {"idle"} : Moves(p, from, "end")
          \/ Moves(p, "embed", "begin") \/ Moves(p, "begin", "lock")
          \/ Moves(p, "lock", "count") /\ want[p].kind # "delete"
          \/ Moves(p, "lock", "write") /\ want[p].kind = "delete"
          \/ Moves(p, "count", "write")
          \/ Moves(p, "question", "draft") /\ want[p].kind # "query"
      BY <1>1, <1>2, <1>5, StageSteps
    <2>. QED BY <1>3, <2>1 DEF Moves
  <1>. QED BY <1>4, <1>5

\* What a step does to the locks and the rows of scopes: nothing, or the
\* request lets its locks go, or it takes a lock.
Releases(p) ==
    /\ shared' = [s \in Scopes |-> shared[s] \ {p}]
    /\ owner' = [s \in Scopes |-> owner[s] \ {p}]
    /\ scopeRows \subseteq scopeRows'

LEMMA LockSteps ==
    ASSUME KnowledgeTypes, NEW p \in Requests,
           \/ Embed(p) \/ InsertScope(p) \/ LockScope(p) \/ CountChunks(p)
           \/ Upsert(p) \/ DeleteDocument(p) \/ Search(p) \/ Breaks(p)
           \/ \E text, ids : Draft(p, text, ids)
    PROVE  \/ Releases(p) /\ \E from \in KnowledgeStages : Moves(p, from, "end")
           \/ /\ UNCHANGED <<shared, owner, scopeRows>>
              /\ Moves(p, "embed", "begin") \/ Moves(p, "count", "write")
                    \/ Moves(p, "question", "draft")
           \/ InsertScope(p) /\ Moves(p, "begin", "lock")
           \/ /\ LockScope(p) /\ owner' = [owner EXCEPT ![want[p].scope] = {p}]
              /\ UNCHANGED <<shared, scopeRows>>
              /\ Moves(p, "lock", "count") \/ Moves(p, "lock", "write")
  <1>. USE DEF Moves, Responds, Enters, Releases, KnowledgeStages, InTransaction,
               storeVars, lockVars
  <1>1. CASE Embed(p)
    BY <1>1 DEF Embed
  <1>2. CASE InsertScope(p)
    BY <1>2 DEF InsertScope
  <1>3. CASE LockScope(p)
    BY <1>3 DEF LockScope
  <1>4. CASE CountChunks(p)
    BY <1>4 DEF CountChunks
  <1>5. CASE Upsert(p)
    <2>1. /\ stage[p] = "write" /\ UNCHANGED want /\ scopeRows \subseteq scopeRows'
          /\ \E code : Responds(p, code, {})
      BY <1>5 DEF Upsert, Commits
    <2>. QED BY <2>1
  <1>6. CASE DeleteDocument(p)
    <2>1. /\ stage[p] = "write" /\ UNCHANGED <<want, scopeRows>>
          /\ \E code : Responds(p, code, {})
      BY <1>6 DEF DeleteDocument, Commits
    <2>. QED BY <2>1
  <1>7. CASE Search(p)
    <2>1. stage[p] = "question" /\ UNCHANGED <<want, scopeRows>>
      BY <1>7 DEF Search
    <2>2. \/ \E code, cut : Responds(p, code, cut)
          \/ Enters(p, "draft") /\ UNCHANGED <<shared, owner>>
      BY <1>7 DEF Search
    <2>. QED BY <2>1, <2>2
  <1>8. CASE Breaks(p)
    <2>1. UNCHANGED <<want, scopeRows>> /\ Responds(p, "failed", {})
      BY <1>8 DEF Breaks
    <2>2. stage[p] \in KnowledgeStages
      BY DEF KnowledgeTypes
    <2>. QED BY <2>1, <2>2
  <1>9. ASSUME NEW text, NEW ids, Draft(p, text, ids)
        PROVE  Moves(p, "draft", "end") /\ Releases(p)
    <2>1. /\ stage[p] = "draft" /\ UNCHANGED <<want, scopeRows>>
          /\ \E code, cited : Responds(p, code, cited)
      BY <1>9 DEF Draft
    <2>. QED BY <2>1
  <1>. QED BY <1>1, <1>2, <1>3, <1>4, <1>5, <1>6, <1>7, <1>8, <1>9

LEMMA LocksStep ==
    ASSUME KnowledgeInv, KnowledgeNext
    PROVE  LocksHeld'
  <1>1. KnowledgeTypes /\ Wanted /\ LocksHeld
    BY DEF KnowledgeInv
  <1>2. PICK p \in Requests :
           \/ \E w \in Wishes : Ask(p, w)
           \/ Embed(p) \/ InsertScope(p) \/ LockScope(p) \/ CountChunks(p)
           \/ Upsert(p) \/ DeleteDocument(p) \/ Search(p) \/ Breaks(p)
           \/ \E text \in {"text", "empty", "garbage"} : \E ids \in SUBSET AllChunks :
                 Draft(p, text, ids)
    BY <1>1, KnowledgeSteps
  <1>. DEFINE Locks(s) == /\ \A q, r \in owner[s] : q = r
                          /\ owner[s] # {} => shared[s] \subseteq owner[s]
                          /\ s \notin scopeRows => shared[s] = {}
                          /\ \A q \in shared[s] \cup owner[s] : stage[q] \in InTransaction
              Writer(q) == stage[q] \in {"count", "write"} => owner[want[q].scope] = {q}
  <1>3. /\ stage \in [Requests -> KnowledgeStages] /\ DOMAIN want = Requests
        /\ shared \in [Scopes -> SUBSET Requests] /\ owner \in [Scopes -> SUBSET Requests]
        /\ \A q \in Requests : stage[q] # "idle" => want[q].scope \in Scopes
    BY <1>1, WishShapes DEF KnowledgeTypes, Wanted
  <1>4. (\A s \in Scopes : Locks(s)) /\ \A q \in Requests : Writer(q)
    BY <1>1 DEF LocksHeld
  <1>5. SUFFICES (\A s \in Scopes : Locks(s)') /\ \A q \in Requests : Writer(q)'
    BY DEF LocksHeld
  <1>. USE DEF InTransaction
  <1>6. ASSUME NEW w \in Wishes, Ask(p, w)
        PROVE  (\A s \in Scopes : Locks(s)') /\ \A q \in Requests : Writer(q)'
    <2>1. /\ stage[p] = "idle" /\ want' = [want EXCEPT ![p] = w]
          /\ \E next \in {"embed", "lock", "question"} : stage' = [stage EXCEPT ![p] = next]
          /\ UNCHANGED <<shared, owner, scopeRows>>
      BY <1>6 DEF Ask, Enters, storeVars, lockVars
    <2>2. \A s \in Scopes : p \notin shared[s] \cup owner[s]
      BY <1>4, <2>1
    <2>3. ASSUME NEW s \in Scopes PROVE Locks(s)'
      <3>1. Locks(s)
        BY <1>4
      <3>2. \A q \in shared[s] \cup owner[s] : stage'[q] = stage[q]
        BY <1>3, <2>1, <2>2
      <3>. QED BY <2>1, <3>1, <3>2
    <2>4. ASSUME NEW q \in Requests PROVE Writer(q)'
      <3>1. Writer(q)
        BY <1>4
      <3>. QED BY <1>3, <2>1, <3>1
    <2>. QED BY <2>3, <2>4
  <1>7. ASSUME Releases(p), NEW from \in KnowledgeStages, Moves(p, from, "end")
        PROVE  (\A s \in Scopes : Locks(s)') /\ \A q \in Requests : Writer(q)'
    <2>1. ASSUME NEW s \in Scopes PROVE Locks(s)'
      <3>1. Locks(s)
        BY <1>4
      <3>2. /\ shared'[s] = shared[s] \ {p} /\ owner'[s] = owner[s] \ {p}
            /\ shared[s] \subseteq Requests /\ owner[s] \subseteq Requests
        BY <1>3, <1>7 DEF Releases
      <3>3. \A q \in shared'[s] \cup owner'[s] : stage'[q] = stage[q]
        BY <1>3, <1>7, <3>2 DEF Moves
      <3>4. s \notin scopeRows' => s \notin scopeRows
        BY <1>7 DEF Releases
      <3>5. owner[s] # {} => shared[s] \subseteq owner[s]
        BY <3>1
      <3>6. owner'[s] # {} => shared'[s] \subseteq owner'[s]
        BY <3>2, <3>5
      <3>. QED BY <3>1, <3>2, <3>3, <3>4, <3>6
    <2>2. ASSUME NEW q \in Requests PROVE Writer(q)'
      <3>1. Writer(q)
        BY <1>4
      <3>2. stage'[q] \in {"count", "write"} =>
               q # p /\ stage'[q] = stage[q] /\ want'[q] = want[q] /\ want[q].scope \in Scopes
        BY <1>3, <1>7 DEF Moves
      <3>. QED BY <1>7, <3>1, <3>2 DEF Releases
    <2>. QED BY <2>1, <2>2
  <1>8. ASSUME UNCHANGED <<shared, owner, scopeRows>>,
               Moves(p, "embed", "begin") \/ Moves(p, "count", "write")
                  \/ Moves(p, "question", "draft")
        PROVE  (\A s \in Scopes : Locks(s)') /\ \A q \in Requests : Writer(q)'
    <2>1. ASSUME NEW s \in Scopes PROVE Locks(s)'
      <3>1. Locks(s)
        BY <1>4
      <3>2. \A q \in shared[s] \cup owner[s] : stage'[q] \in InTransaction
        BY <1>3, <1>8, <3>1 DEF Moves
      <3>. QED BY <1>8, <3>1, <3>2
    <2>2. ASSUME NEW q \in Requests PROVE Writer(q)'
      <3>1. Writer(q)
        BY <1>4
      <3>. QED BY <1>3, <1>8, <3>1 DEF Moves
    <2>. QED BY <2>1, <2>2
  <1>9. ASSUME InsertScope(p), Moves(p, "begin", "lock")
        PROVE  (\A s \in Scopes : Locks(s)') /\ \A q \in Requests : Writer(q)'
    <2>. DEFINE mine == want[p].scope
    <2>1. /\ owner[mine] = {} /\ UNCHANGED scopeRows /\ mine \in Scopes
          /\ \/ /\ mine \in scopeRows /\ UNCHANGED owner
                /\ shared' = [shared EXCEPT ![mine] = @ \cup {p}]
             \/ /\ mine \notin scopeRows /\ UNCHANGED shared
                /\ owner' = [owner EXCEPT ![mine] = {p}]
      BY <1>3, <1>9 DEF InsertScope, storeVars, Moves
    <2>. HIDE DEF mine
    <2>2. ASSUME NEW s \in Scopes PROVE Locks(s)'
      <3>1. Locks(s)
        BY <1>4
      <3>2. \A q \in shared[s] \cup owner[s] \cup {p} : stage'[q] \in InTransaction
        BY <1>3, <1>9, <3>1 DEF Moves
      <3>3. CASE s # mine
        <4>1. shared'[s] = shared[s] /\ owner'[s] = owner[s]
          BY <1>3, <2>1, <3>3
        <4>. QED BY <2>1, <3>1, <3>2, <4>1
      <3>4. CASE s = mine
        <4>1. \/ owner'[s] = {} /\ shared'[s] = shared[s] \cup {p} /\ s \in scopeRows'
              \/ owner'[s] = {p} /\ shared'[s] = {}
          BY <1>3, <2>1, <3>1, <3>4
        <4>. QED BY <3>2, <4>1
      <3>. QED BY <3>3, <3>4
    <2>3. ASSUME NEW q \in Requests PROVE Writer(q)'
      <3>1. Writer(q)
        BY <1>4
      <3>2. stage'[q] \in {"count", "write"} => stage'[q] = stage[q] /\ want'[q] = want[q]
        BY <1>3, <1>9 DEF Moves
      <3>3. stage[q] \in {"count", "write"} =>
               want[q].scope # mine /\ want[q].scope \in Scopes
        BY <1>3, <2>1, <3>1
      <3>. QED BY <1>3, <2>1, <3>1, <3>2, <3>3
    <2>. QED BY <2>2, <2>3
  <1>10. ASSUME LockScope(p), owner' = [owner EXCEPT ![want[p].scope] = {p}],
                UNCHANGED <<shared, scopeRows>>,
                Moves(p, "lock", "count") \/ Moves(p, "lock", "write")
         PROVE  (\A s \in Scopes : Locks(s)') /\ \A q \in Requests : Writer(q)'
    <2>. DEFINE mine == want[p].scope
    <2>1. /\ owner[mine] \subseteq {p} /\ shared[mine] \subseteq {p} /\ mine \in Scopes
          /\ owner' = [owner EXCEPT ![mine] = {p}]
      BY <1>3, <1>10 DEF LockScope, MayLock, Moves
    <2>2. want'[p].scope = mine
      BY <1>10 DEF Moves
    <2>. HIDE DEF mine
    <2>3. ASSUME NEW s \in Scopes PROVE Locks(s)'
      <3>1. Locks(s)
        BY <1>4
      <3>2. \A q \in shared[s] \cup owner[s] \cup {p} : stage'[q] \in InTransaction
        BY <1>3, <1>10, <3>1 DEF Moves
      <3>3. CASE s # mine
        <4>1. shared'[s] = shared[s] /\ owner'[s] = owner[s]
          BY <1>3, <1>10, <2>1, <3>3
        <4>. QED BY <1>10, <3>1, <3>2, <4>1
      <3>4. CASE s = mine
        <4>1. owner'[s] = {p} /\ shared'[s] = shared[s] /\ shared[s] \subseteq {p}
          BY <1>3, <1>10, <2>1, <3>4
        <4>. QED BY <1>10, <3>1, <3>2, <4>1
      <3>. QED BY <3>3, <3>4
    <2>4. ASSUME NEW q \in Requests PROVE Writer(q)'
      <3>1. Writer(q)
        BY <1>4
      <3>2. CASE q = p
        BY <1>3, <2>1, <2>2, <3>2
      <3>3. CASE q # p
        <4>1. stage'[q] = stage[q] /\ want'[q] = want[q]
          BY <1>3, <1>10, <3>3 DEF Moves
        <4>2. stage[q] \in {"count", "write"} =>
                 want[q].scope # mine /\ want[q].scope \in Scopes
          BY <1>3, <2>1, <3>1, <3>3
        <4>. QED BY <1>3, <2>1, <3>1, <4>1, <4>2
      <3>. QED BY <3>2, <3>3
    <2>. QED BY <2>3, <2>4
  <1>11. CASE ~\E w \in Wishes : Ask(p, w)
    <2>1. \/ Releases(p) /\ \E from \in KnowledgeStages : Moves(p, from, "end")
          \/ /\ UNCHANGED <<shared, owner, scopeRows>>
             /\ Moves(p, "embed", "begin") \/ Moves(p, "count", "write")
                   \/ Moves(p, "question", "draft")
          \/ InsertScope(p) /\ Moves(p, "begin", "lock")
          \/ /\ LockScope(p) /\ owner' = [owner EXCEPT ![want[p].scope] = {p}]
             /\ UNCHANGED <<shared, scopeRows>>
             /\ Moves(p, "lock", "count") \/ Moves(p, "lock", "write")
      BY <1>1, <1>2, <1>11, LockSteps
    <2>. HIDE DEF Locks, Writer
    <2>. QED BY <1>7, <1>8, <1>9, <1>10, <2>1
  <1>. HIDE DEF Locks, Writer
  <1>. QED BY <1>6, <1>11

\* A stored chunk is of the version that the log says its document has.
LEMMA RowsOfOneVersion ==
    ASSUME KnowledgeTypes, StoreKept, NEW s \in Scopes, NEW c \in chunks, c.scope = s
    PROVE  Replayed(s, c.id) = {c.content}
  <1>1. c \in AllChunks
    BY DEF KnowledgeTypes
  <1>2. PICK sc \in Scopes, d \in DocumentIds, v \in Contents : c \in ChunksOf(sc, d, v)
    BY <1>1 DEF AllChunks
  <1>3. c.id \in DocumentIds
    BY <1>2, ChunkShapes
  <1>4. c \in RowsOf(s, c.id)
    BY DEF RowsOf
  <1>5. /\ RowsOf(s, c.id) = UNION {ChunksOf(s, c.id, x) : x \in documents[s][c.id]}
        /\ \A x, y \in documents[s][c.id] : x = y
        /\ Replayed(s, c.id) = documents[s][c.id]
    BY <1>3 DEF StoreKept
  <1>6. PICK x \in documents[s][c.id] : c \in ChunksOf(s, c.id, x)
    BY <1>4, <1>5
  <1>7. c.content = x
    BY <1>6, ChunkShapes
  <1>. QED BY <1>5, <1>6, <1>7

\* What a step does to what is found and answered, outside of a question.
LEMMA AnswerSteps ==
    ASSUME KnowledgeTypes, NEW p \in Requests,
           Embed(p) \/ InsertScope(p) \/ LockScope(p) \/ CountChunks(p)
              \/ Upsert(p) \/ DeleteDocument(p) \/ Breaks(p)
    PROVE  /\ UNCHANGED found
           /\ \/ UNCHANGED answer
              \/ \E code : answer' = [answer EXCEPT ![p] = [code |-> code, cites |-> {}]]
  <1>1. CASE Embed(p)
    BY <1>1 DEF Embed, Responds
  <1>2. CASE InsertScope(p)
    BY <1>2 DEF InsertScope
  <1>3. CASE LockScope(p)
    BY <1>3 DEF LockScope, Responds
  <1>4. CASE CountChunks(p)
    BY <1>4 DEF CountChunks, Responds
  <1>5. CASE Upsert(p)
    <2>1. UNCHANGED found /\ \E code : Responds(p, code, {})
      BY <1>5 DEF Upsert, Commits
    <2>. QED BY <2>1 DEF Responds
  <1>6. CASE DeleteDocument(p)
    <2>1. UNCHANGED found /\ \E code : Responds(p, code, {})
      BY <1>6 DEF DeleteDocument, Commits
    <2>. QED BY <2>1 DEF Responds
  <1>7. CASE Breaks(p)
    <2>1. UNCHANGED found /\ Responds(p, "failed", {})
      BY <1>7 DEF Breaks
    <2>. QED BY <2>1 DEF Responds
  <1>. QED BY <1>1, <1>2, <1>3, <1>4, <1>5, <1>6, <1>7

FoundBy(p) ==
    /\ stage[p] = "idle" => found[p] = {}
    /\ stage[p] # "end" => answer[p].cites = {}
    /\ answer[p].cites \subseteq found[p]
    /\ Cardinality(found[p]) <= TopK
    /\ \A c \in found[p] : c.scope = want[p].scope
    /\ stage[p] # "idle" /\ want[p].kind \in Questions => since[p] <= Len(audit[want[p].scope])
    /\ found[p] # {} /\ adapter = "mysql" => StoredAtOnce(p)

\* The audit log is only appended to.
LogGrows ==
    /\ UNCHANGED adapter
    /\ \A s \in Scopes :
          /\ Len(audit'[s]) >= Len(audit[s])
          /\ \A m \in 0..Len(audit[s]) : SubSeq(audit'[s], 1, m) = SubSeq(audit[s], 1, m)

LEMMA LogAppended ==
    ASSUME KnowledgeTypes, NEW s \in Scopes, NEW row \in AuditRow,
           audit' = [audit EXCEPT ![s] = Append(@, row)], UNCHANGED adapter
    PROVE  LogGrows
  <1>1. ASSUME NEW log \in Seq(AuditRow), NEW m \in 0..Len(log)
        PROVE  /\ Len(Append(log, row)) >= Len(log)
               /\ SubSeq(Append(log, row), 1, m) = SubSeq(log, 1, m)
    <2>. DEFINE more == Append(log, row)
    <2>1. /\ more \in Seq(AuditRow) /\ Len(more) = Len(log) + 1
          /\ \A n \in 1..Len(log) : more[n] = log[n]
      BY AppendProperties
    <2>2. Len(log) \in Nat /\ m \in Nat /\ m <= Len(log)
      BY LenProperties
    <2>. HIDE DEF more
    <2>3. /\ SubSeq(more, 1, m) = [n \in 1..m |-> more[n]]
          /\ SubSeq(log, 1, m) = [n \in 1..m |-> log[n]]
      OBVIOUS
    <2>4. \A n \in 1..m : more[n] = log[n]
      BY <2>1, <2>2
    <2>. QED BY <2>1, <2>2, <2>3, <2>4 DEF more
  <1>2. \A t \in Scopes : audit[t] \in Seq(AuditRow)
                           /\ audit'[t] = IF t = s THEN Append(audit[t], row) ELSE audit[t]
    BY DEF KnowledgeTypes
  <1>3. \A log \in Seq(AuditRow) : 0 \in 0..Len(log) /\ Len(log) >= Len(log)
    BY LenProperties
  <1>. QED BY <1>1, <1>2, <1>3 DEF LogGrows

LEMMA LogSteps ==
    ASSUME KnowledgeTypes, Wanted, NEW p \in Requests,
           \/ \E w \in Wishes : Ask(p, w)
           \/ Embed(p) \/ InsertScope(p) \/ LockScope(p) \/ CountChunks(p)
           \/ Upsert(p) \/ DeleteDocument(p) \/ Search(p) \/ Breaks(p)
           \/ \E text, ids : Draft(p, text, ids)
    PROVE  LogGrows
  <1>1. ASSUME UNCHANGED <<adapter, audit>>
        PROVE  LogGrows
    <2>1. \A s \in Scopes : Len(audit[s]) \in Nat
      BY LenProperties DEF KnowledgeTypes
    <2>. QED BY <1>1, <2>1 DEF LogGrows
  <1>2. CASE Upsert(p)
    <2>1. /\ want[p].kind = "ingest" /\ stage[p] = "write" /\ UNCHANGED adapter
          /\ audit' = [audit EXCEPT ![want[p].scope] =
                          Append(@, [id |-> want[p].id, version |-> {want[p].content}])]
      BY <1>2 DEF Upsert
    <2>2. want[p].scope \in Scopes /\ want[p].id \in DocumentIds /\ want[p].content \in Contents
      BY <2>1, WishShapes DEF Wanted
    <2>3. [id |-> want[p].id, version |-> {want[p].content}] \in AuditRow
      BY <2>2 DEF AuditRow
    <2>. QED BY <2>1, <2>2, <2>3, LogAppended
  <1>3. CASE DeleteDocument(p)
    <2>1. /\ want[p].kind = "delete" /\ stage[p] = "write" /\ UNCHANGED adapter
          /\ \/ UNCHANGED audit
             \/ audit' = [audit EXCEPT ![want[p].scope] =
                            Append(@, [id |-> want[p].id, version |-> {}])]
      BY <1>3 DEF DeleteDocument
    <2>2. want[p].scope \in Scopes /\ want[p].id \in DocumentIds
      BY <2>1, WishShapes DEF Wanted
    <2>3. [id |-> want[p].id, version |-> {}] \in AuditRow
      BY <2>2 DEF AuditRow
    <2>. QED BY <1>1, <2>1, <2>2, <2>3, LogAppended
  <1>4. CASE \/ \E w \in Wishes : Ask(p, w)
             \/ Embed(p) \/ InsertScope(p) \/ LockScope(p) \/ CountChunks(p)
             \/ Search(p) \/ Breaks(p) \/ \E text, ids : Draft(p, text, ids)
    <2>1. UNCHANGED <<adapter, audit>>
      BY <1>4 DEF Ask, Embed, InsertScope, LockScope, CountChunks, Search, Breaks, Draft, storeVars
    <2>. QED BY <1>1, <2>1
  <1>. QED BY <1>2, <1>3, <1>4

\* What was stored at one moment was so whatever is stored later.
LEMMA StoredStays ==
    ASSUME KnowledgeTypes, KnowledgeTypes', LogGrows, since \in [Requests -> Nat], NEW p \in Requests,
           want[p].scope \in Scopes, want'[p] = want[p], since'[p] = since[p],
           found'[p] = found[p], StoredAtOnce(p)
    PROVE  StoredAtOnce(p)'
  <1>. DEFINE s == want[p].scope
  <1>1. PICK m \in since[p]..Len(audit[s]) : \A c \in found[p] : ReplayedTo(s, c.id, m) = {c.content}
    BY DEF StoredAtOnce
  <1>2. Len(audit[s]) \in Nat /\ Len(audit'[s]) >= Len(audit[s]) /\ since[p] \in Nat
    BY LenProperties DEF KnowledgeTypes, LogGrows
  <1>3. m \in 0..Len(audit[s])
    BY <1>1, <1>2
  <1>4. SubSeq(audit'[s], 1, m) = SubSeq(audit[s], 1, m)
    BY <1>3 DEF LogGrows
  <1>5. \A c \in found[p] : LastSaid(SubSeq(audit'[s], 1, m), c.id) = {c.content}
    BY <1>1, <1>4 DEF ReplayedTo
  <1>6. m \in since[p]..Len(audit'[s])
    <2>. HIDE DEF s
    <2>1. Len(audit'[s]) \in Int
      BY LenProperties DEF KnowledgeTypes, s
    <2>. QED BY <1>1, <1>2, <2>1
  <1>. QED BY <1>5, <1>6 DEF StoredAtOnce, ReplayedTo

LEMMA SearchFinds ==
    ASSUME KnowledgeInv, KnowledgeTypes', NEW p \in Requests, Search(p)
    PROVE  FoundBy(p)'
  <1>1. KnowledgeTypes /\ Wanted /\ StoreKept /\ FoundInScope
    BY DEF KnowledgeInv
  <1>2. PICK hits \in Returned(p) : \E cut \in SUBSET Kept(p, hits) :
           /\ Cardinality(cut) = (IF Cardinality(Kept(p, hits)) > TopK THEN TopK
                                  ELSE Cardinality(Kept(p, hits)))
           /\ found' = [found EXCEPT ![p] = cut]
           /\ IF cut = {} THEN Responds(p, "no_evidence", {})
              ELSE IF want[p].kind = "query" THEN Responds(p, "context", cut)
              ELSE Enters(p, "draft") /\ UNCHANGED <<answer, lockVars>>
    BY DEF Search
  <1>3. PICK cut \in SUBSET Kept(p, hits) :
           /\ Cardinality(cut) = (IF Cardinality(Kept(p, hits)) > TopK THEN TopK
                                  ELSE Cardinality(Kept(p, hits)))
           /\ found' = [found EXCEPT ![p] = cut]
           /\ IF cut = {} THEN Responds(p, "no_evidence", {})
              ELSE IF want[p].kind = "query" THEN Responds(p, "context", cut)
              ELSE Enters(p, "draft") /\ UNCHANGED <<answer, lockVars>>
    BY <1>2
  <1>4. stage[p] = "question" /\ UNCHANGED want
    BY DEF Search
  <1>5. want[p].scope \in Scopes
    BY <1>1, <1>4, WishShapes DEF Wanted
  <1>6. hits \subseteq chunks \cup Strays /\ (adapter = "mysql" => hits \subseteq chunks)
    BY <1>2 DEF Returned
  <1>7. \A c \in cut : /\ c.scope = want[p].scope
                       /\ adapter = "mysql" => c \in chunks
    BY <1>3, <1>6 DEF Kept
  <1>8. adapter = "mysql" => \A c \in cut : Replayed(want[p].scope, c.id) = {c.content}
    BY <1>1, <1>5, <1>7, RowsOfOneVersion
  <1>9. Cardinality(cut) <= TopK
    <2>1. IsFiniteSet(chunks \cup Strays)
      BY <1>1, StraysAssumption, FS_Union DEF KnowledgeTypes
    <2>2. Kept(p, hits) \in SUBSET (chunks \cup Strays)
      BY <1>6 DEF Kept
    <2>3. Cardinality(Kept(p, hits)) \in Nat
      BY <2>1, <2>2, FS_Subset, FS_CardinalityType
    <2>. QED BY <1>3, <2>3, KnowledgeAssumption
  <1>10. found'[p] = cut
    BY <1>1, <1>3 DEF KnowledgeTypes
  <1>11. answer[p].cites = {} /\ stage'[p] # "idle"
    <2>1. stage'[p] \in {"draft", "end"}
      BY <1>1, <1>3 DEF Responds, Enters, KnowledgeTypes
    <2>. QED BY <1>1, <1>4, <2>1 DEF FoundInScope
  <1>12. /\ answer'[p].cites \subseteq cut
         /\ stage'[p] # "end" => answer'[p].cites = {}
    <2>1. CASE Enters(p, "draft") /\ UNCHANGED answer
      BY <1>11, <2>1
    <2>2. CASE \E code : Responds(p, code, {}) \/ Responds(p, code, cut)
      <3>1. stage'[p] = "end"
        BY <1>1, <2>2 DEF Responds, Enters, KnowledgeTypes
      <3>2. answer'[p].cites \in {{}, cut}
        BY <1>1, <2>2 DEF Responds, KnowledgeTypes
      <3>. QED BY <3>1, <3>2
    <2>. QED BY <1>3, <2>1, <2>2
  <1>13. UNCHANGED <<adapter, since, audit>>
    BY DEF Search, storeVars
  <1>14. /\ want[p].kind \in Questions /\ since[p] \in Nat
         /\ since[p] <= Len(audit[want[p].scope])
    BY <1>1, <1>4 DEF Wanted, FoundInScope, Questions
  <1>15. adapter = "mysql" => StoredAtOnce(p)'
    <2>. DEFINE log == audit[want[p].scope]
    <2>1. log \in Seq(AuditRow) /\ Len(log) \in Nat
      BY <1>1, <1>5, LenProperties DEF KnowledgeTypes
    <2>2. SubSeq(log, 1, Len(log)) = log
      BY <2>1
    <2>3. adapter = "mysql" =>
             \A c \in cut : LastSaid(SubSeq(log, 1, Len(log)), c.id) = {c.content}
      BY <1>8, <2>2 DEF Replayed
    <2>4. Len(log) \in since[p]..Len(log)
      <3>. HIDE DEF log
      <3>1. since[p] <= Len(log)
        BY <1>14 DEF log
      <3>. QED BY <1>14, <2>1, <3>1
    <2>5. /\ since'[p] = since[p] /\ audit'[want'[p].scope] = log
          /\ want'[p].scope = want[p].scope
      BY <1>4, <1>13
    <2>. QED BY <1>4, <1>10, <1>13, <2>3, <2>4, <2>5 DEF StoredAtOnce, ReplayedTo
  <1>16. since'[p] <= Len(audit'[want'[p].scope])
    BY <1>4, <1>13, <1>14
  <1>. QED BY <1>4, <1>7, <1>9, <1>10, <1>11, <1>12, <1>13, <1>15, <1>16 DEF FoundBy

LEMMA FoundStep ==
    ASSUME KnowledgeInv, KnowledgeTypes', KnowledgeNext
    PROVE  FoundInScope'
  <1>1. KnowledgeTypes /\ Wanted /\ FoundInScope
    BY DEF KnowledgeInv
  <1>2. PICK p \in Requests :
           \/ \E w \in Wishes : Ask(p, w)
           \/ Embed(p) \/ InsertScope(p) \/ LockScope(p) \/ CountChunks(p)
           \/ Upsert(p) \/ DeleteDocument(p) \/ Search(p) \/ Breaks(p)
           \/ \E text \in {"text", "empty", "garbage"} : \E ids \in SUBSET AllChunks :
                 Draft(p, text, ids)
    BY <1>1, KnowledgeSteps
  <1>3. \A q \in Requests : FoundBy(q)
    BY <1>1 DEF FoundInScope, FoundBy
  <1>4. /\ stage \in [Requests -> KnowledgeStages] /\ DOMAIN want = Requests
        /\ DOMAIN found = Requests /\ DOMAIN answer = Requests
        /\ since \in [Requests -> Nat] /\ DOMAIN since = Requests
    BY <1>1 DEF KnowledgeTypes, FoundInScope
  <1>5. since' \in [Requests -> Nat] /\ LogGrows
    <2>1. LogGrows
      BY <1>1, <1>2, LogSteps
    <2>2. CASE \E w \in Wishes : Ask(p, w)
      <3>1. PICK w \in Wishes : Ask(p, w)
        BY <2>2
      <3>2. Len(audit[w.scope]) \in Nat
        BY <1>1, WishShapes, LenProperties DEF KnowledgeTypes
      <3>3. since' = since \/ since' = [since EXCEPT ![p] = Len(audit[w.scope])]
        BY <3>1 DEF Ask
      <3>. QED BY <1>4, <2>1, <3>2, <3>3
    <2>3. CASE ~\E w \in Wishes : Ask(p, w)
      <3>1. UNCHANGED since
        BY <1>2, <2>3 DEF Embed, InsertScope, LockScope, CountChunks, Upsert, DeleteDocument,
             Search, Breaks, Draft
      <3>. QED BY <1>4, <2>1, <3>1
    <2>. QED BY <2>2, <2>3
  <1>5a. SUFFICES \A q \in Requests : FoundBy(q)'
    BY <1>5 DEF FoundInScope, FoundBy
  <1>5b. ASSUME NEW q \in Requests, stage'[q] # "idle", stage[q] # "idle", want'[q] = want[q],
                found'[q] = found[q], since'[q] = since[q]
         PROVE  /\ want'[q].kind \in Questions => since'[q] <= Len(audit'[want'[q].scope])
                /\ found'[q] # {} /\ adapter' = "mysql" => StoredAtOnce(q)'
    <2>1. want[q].scope \in Scopes
      BY <1>1, <1>5b, WishShapes DEF Wanted
    <2>2. /\ adapter' = adapter /\ Len(audit'[want[q].scope]) >= Len(audit[want[q].scope])
          /\ Len(audit[want[q].scope]) \in Nat /\ Len(audit'[want[q].scope]) \in Nat
      BY <1>1, <1>5, <2>1, LenProperties DEF LogGrows, KnowledgeTypes
    <2>3. want[q].kind \in Questions => since[q] <= Len(audit[want[q].scope])
      BY <1>3, <1>5b DEF FoundBy
    <2>4. found[q] # {} /\ adapter = "mysql" => StoredAtOnce(q)
      BY <1>3 DEF FoundBy
    <2>5. found[q] # {} /\ adapter = "mysql" => StoredAtOnce(q)'
      BY <1>1, <1>4, <1>5, <1>5b, <2>1, <2>4, StoredStays
    <2>6. since[q] \in Nat
      BY <1>4
    <2>7. want'[q].kind \in Questions => since'[q] <= Len(audit'[want'[q].scope])
      BY <1>5b, <2>2, <2>3, <2>6
    <2>. QED BY <1>5b, <2>2, <2>5, <2>7
  <1>6. ASSUME NEW q \in Requests, stage'[q] = stage[q], want'[q] = want[q],
               found'[q] = found[q], answer'[q] = answer[q], since'[q] = since[q]
        PROVE  FoundBy(q)'
    <2>1. CASE stage[q] = "idle"
      <3>1. found'[q] = {} /\ stage'[q] = "idle"
        BY <1>3, <1>6, <2>1 DEF FoundBy
      <3>. QED BY <1>3, <1>6, <3>1 DEF FoundBy
    <2>2. CASE stage[q] # "idle"
      BY <1>3, <1>6, <1>5b, <2>2 DEF FoundBy
    <2>. QED BY <2>1, <2>2
  <1>7. ASSUME NEW w \in Wishes, Ask(p, w)
        PROVE  \A q \in Requests : FoundBy(q)'
    <2>1. /\ stage[p] = "idle" /\ want' = [want EXCEPT ![p] = w]
          /\ \E next \in {"embed", "lock", "question"} : stage' = [stage EXCEPT ![p] = next]
          /\ UNCHANGED <<found, answer, audit>>
          /\ IF w.kind \in Questions THEN since' = [since EXCEPT ![p] = Len(audit[w.scope])]
             ELSE UNCHANGED since
      BY <1>7 DEF Ask, Enters, Questions, storeVars
    <2>2. \A q \in Requests : q # p => /\ stage'[q] = stage[q] /\ want'[q] = want[q]
                                       /\ since'[q] = since[q]
      BY <1>4, <2>1
    <2>6. want'[p].kind \in Questions => since'[p] <= Len(audit'[want'[p].scope])
      <3>1. want'[p] = w /\ (w.kind \in Questions => since'[p] = Len(audit[w.scope]))
        BY <1>4, <2>1
      <3>2. Len(audit[w.scope]) \in Nat
        BY <1>1, WishShapes, LenProperties DEF KnowledgeTypes
      <3>. QED BY <2>1, <3>1, <3>2
    <2>3. found[p] = {} /\ answer[p].cites = {} /\ stage'[p] # "idle"
      BY <1>3, <1>4, <2>1 DEF FoundBy
    <2>4. Cardinality({}) <= TopK
      BY FS_EmptySet, KnowledgeAssumption
    <2>5. FoundBy(p)'
      BY <2>1, <2>3, <2>4, <2>6 DEF FoundBy
    <2>. QED BY <1>6, <2>1, <2>2, <2>5
  <1>8. CASE Embed(p) \/ InsertScope(p) \/ LockScope(p) \/ CountChunks(p)
                \/ Upsert(p) \/ DeleteDocument(p) \/ Breaks(p)
    <2>1. /\ UNCHANGED found
          /\ \/ UNCHANGED answer
             \/ \E code : answer' = [answer EXCEPT ![p] = [code |-> code, cites |-> {}]]
      BY <1>1, <1>8, AnswerSteps
    <2>2. /\ UNCHANGED <<want, since>>
          /\ \E from \in KnowledgeStages \ {"idle", "end"}, to \in KnowledgeStages \ {"idle"} :
                stage[p] = from /\ stage' = [stage EXCEPT ![p] = to]
      <3>1. stage[p] \notin {"idle", "end"}
        BY <1>8 DEF Embed, InsertScope, LockScope, CountChunks, Upsert, DeleteDocument, Breaks
      <3>2. \/ \E from \in KnowledgeStages \ {"idle"} : Moves(p, from, "end")
            \/ Moves(p, "embed", "begin") \/ Moves(p, "begin", "lock")
            \/ Moves(p, "lock", "count") \/ Moves(p, "lock", "write")
            \/ Moves(p, "count", "write") \/ Moves(p, "question", "draft")
        BY <1>1, <1>8, StageSteps
      <3>3. UNCHANGED since
        BY <1>8 DEF Embed, InsertScope, LockScope, CountChunks, Upsert, DeleteDocument, Breaks
      <3>. QED BY <3>1, <3>2, <3>3 DEF Moves, KnowledgeStages, InTransaction
    <2>3. \A q \in Requests : q # p => stage'[q] = stage[q] /\ answer'[q] = answer[q]
      BY <1>4, <2>1, <2>2
    <2>4. /\ stage'[p] # "idle" /\ answer'[p].cites = {} /\ {} \subseteq found[p]
      BY <1>3, <1>4, <2>1, <2>2 DEF FoundBy
    <2>6. stage[p] # "idle"
      BY <2>2
    <2>5. FoundBy(p)'
      BY <1>3, <1>5b, <2>1, <2>2, <2>4, <2>6 DEF FoundBy
    <2>. QED BY <1>6, <2>1, <2>2, <2>3, <2>5
  <1>9. CASE Search(p)
    <2>1. FoundBy(p)'
      BY <1>9, SearchFinds
    <2>2. UNCHANGED <<want, since>> /\ (\E cut : found' = [found EXCEPT ![p] = cut])
          /\ (\E to : stage' = [stage EXCEPT ![p] = to])
          /\ (\E a : answer' = [answer EXCEPT ![p] = a])
      <3>1. UNCHANGED <<want, since>> /\ \E cut : found' = [found EXCEPT ![p] = cut]
        BY <1>9 DEF Search
      <3>2. (\E code, cites : Responds(p, code, cites)) \/ (Enters(p, "draft") /\ UNCHANGED answer)
        BY <1>9 DEF Search
      <3>3. answer = [answer EXCEPT ![p] = answer[p]]
        BY <1>1 DEF KnowledgeTypes
      <3>. QED BY <3>1, <3>2, <3>3 DEF Responds, Enters
    <2>3. \A q \in Requests : q # p => /\ stage'[q] = stage[q] /\ want'[q] = want[q]
                                       /\ found'[q] = found[q] /\ answer'[q] = answer[q]
                                       /\ since'[q] = since[q]
      BY <1>4, <2>2
    <2>. QED BY <1>6, <2>1, <2>3
  <1>10. ASSUME NEW text \in {"text", "empty", "garbage"}, NEW ids \in SUBSET AllChunks,
                Draft(p, text, ids)
         PROVE  \A q \in Requests : FoundBy(q)'
    <2>1. /\ UNCHANGED <<want, found, since>>
          /\ \E code, cites : Responds(p, code, cites) /\ cites \subseteq found[p]
      <3>1. CASE text = "garbage" \/ ~MayCite(p, ids) \/ text = "empty" \/ ids = {}
        <4>1. UNCHANGED <<want, found, since>> /\ \E code : Responds(p, code, {})
          BY <1>10, <3>1 DEF Draft
        <4>2. {} \subseteq found[p]
          OBVIOUS
        <4>. QED BY <4>1, <4>2
      <3>2. CASE ~(text = "garbage" \/ ~MayCite(p, ids) \/ text = "empty" \/ ids = {})
        <4>1. UNCHANGED <<want, found, since>> /\ Responds(p, "answered", ids)
          BY <1>10, <3>2 DEF Draft
        <4>. QED BY <3>2, <4>1 DEF MayCite
      <3>. QED BY <3>1, <3>2
    <2>2. stage' = [stage EXCEPT ![p] = "end"]
          /\ \E code, cites : /\ answer' = [answer EXCEPT ![p] = [code |-> code, cites |-> cites]]
                              /\ cites \subseteq found[p]
      BY <2>1 DEF Responds, Enters
    <2>3. \A q \in Requests : q # p => stage'[q] = stage[q] /\ answer'[q] = answer[q]
      BY <1>4, <2>2
    <2>4. stage'[p] = "end" /\ stage[p] # "idle" /\ answer'[p].cites \subseteq found[p]
      BY <1>4, <1>10, <2>2 DEF Draft
    <2>5. FoundBy(p)'
      BY <1>3, <1>5b, <2>1, <2>4 DEF FoundBy
    <2>. QED BY <1>6, <2>1, <2>3, <2>5
  <1>. QED BY <1>2, <1>7, <1>8, <1>9, <1>10

LEMMA LastSaidAppended ==
    ASSUME NEW log \in Seq(AuditRow), NEW row \in AuditRow, NEW id
    PROVE  LastSaid(Append(log, row), id) = IF id = row.id THEN row.version ELSE LastSaid(log, id)
  <1>. DEFINE more == Append(log, row)
              before == {n \in DOMAIN log : log[n].id = id}
              after == {n \in DOMAIN more : more[n].id = id}
              L == Len(log)
  <1>1. /\ L \in Nat /\ DOMAIN log = 1..L /\ DOMAIN more = 1..L + 1
        /\ more[L + 1] = row /\ \A n \in 1..L : more[n] = log[n]
    OBVIOUS
  <1>. HIDE DEF more, L
  <1>2. CASE id = row.id
    <2>1. /\ after \in SUBSET Nat /\ L + 1 \in after /\ \A n \in after : n <= L + 1
      BY <1>1, <1>2
    <2>. HIDE DEF after
    <2>2. Max(after) \in after /\ \A n \in after : n <= Max(after)
      BY <1>1, <2>1, GreatestNumber
    <2>3. Max(after) = L + 1
      <3>1. Max(after) \in Nat /\ Max(after) <= L + 1 /\ L + 1 <= Max(after)
        BY <2>1, <2>2
      <3>. QED BY <1>1, <3>1
    <2>4. LastSaid(more, id) = row.version
      BY <1>1, <2>1, <2>3 DEF LastSaid, after
    <2>. QED BY <1>2, <2>4 DEF more
  <1>3. CASE id # row.id
    <2>1. after = before
      BY <1>1, <1>3
    <2>2. before \in SUBSET Nat /\ \A n \in before : n \in 1..L /\ n <= L
      <3>1. \A n \in 1..L : n \in Nat /\ n <= L
        BY <1>1
      <3>2. \A n \in before : n \in 1..L
        BY <1>1
      <3>. QED BY <3>1, <3>2
    <2>. HIDE DEF after, before
    <2>3. before # {} => Max(before) \in before
      <3>1. ASSUME before # {}
            PROVE  Max(before) \in before
        BY <1>1, <2>2, <3>1, GreatestNumber
      <3>. QED BY <3>1
    <2>4. before # {} => more[Max(before)] = log[Max(before)]
      BY <1>1, <2>2, <2>3
    <2>5. LastSaid(more, id) = IF after = {} THEN {} ELSE more[Max(after)].version
      BY DEF LastSaid, after
    <2>6. LastSaid(log, id) = IF before = {} THEN {} ELSE log[Max(before)].version
      BY DEF LastSaid, before
    <2>7. LastSaid(more, id) = LastSaid(log, id)
      BY <2>1, <2>4, <2>5, <2>6
    <2>. QED BY <1>3, <2>7 DEF more
  <1>. QED BY <1>2, <1>3

\* What is kept of one document, and of a scope.
DocumentKept(s, d) ==
    /\ RowsOf(s, d) = UNION {ChunksOf(s, d, v) : v \in documents[s][d]}
    /\ LastSaid(audit[s], d) = documents[s][d]
    /\ \A v, w \in documents[s][d] : v = w

RowsOfScope(s) == {c \in chunks : c.scope = s}

Fits(q) ==
    stage[q] = "write" /\ want[q].kind = "ingest" =>
        Cardinality(Others(want[q].scope, want[q].id))
           + Cardinality(ChunkDocument(want[q].content)) <= Capacity

LEMMA StoreParts ==
    StoreKept <=> /\ \A s \in Scopes : Cardinality(RowsOfScope(s)) <= Capacity
                  /\ \A s \in Scopes, d \in DocumentIds : DocumentKept(s, d)
                  /\ \A q \in Requests : Fits(q)
  <1>1. \A s, d : Replayed(s, d) = LastSaid(audit[s], d)
    BY DEF Replayed
  <1>. QED BY <1>1 DEF StoreKept, DocumentKept, RowsOfScope, Fits

LEMMA StorePartsNext ==
    StoreKept' <=> /\ \A s \in Scopes : Cardinality(RowsOfScope(s)') <= Capacity
                   /\ \A s \in Scopes, d \in DocumentIds : DocumentKept(s, d)'
                   /\ \A q \in Requests : Fits(q)'
  <1>1. \A s, d : Replayed(s, d)' = LastSaid(audit'[s], d)
    BY DEF Replayed
  <1>. QED BY <1>1 DEF StoreKept, DocumentKept, RowsOfScope, Fits

\* A write to one document of a scope that its request owns.
Writes(p, version) ==
    LET w == want[p]
    IN  /\ stage[p] = "write" /\ stage' = [stage EXCEPT ![p] = "end"] /\ UNCHANGED want
        /\ chunks' = (chunks \ RowsOf(w.scope, w.id))
                        \cup UNION {ChunksOf(w.scope, w.id, v) : v \in version}
        /\ documents' = [documents EXCEPT ![w.scope][w.id] = version]
        /\ audit' = [audit EXCEPT ![w.scope] = Append(@, [id |-> w.id, version |-> version])]

LEMMA WritesKept ==
    ASSUME KnowledgeInv, KnowledgeTypes', NEW p \in Requests, NEW version \in SUBSET Contents,
           \A v, w \in version : v = w,
           want[p].scope \in Scopes, want[p].id \in DocumentIds,
           \A s \in Scopes : s = want[p].scope => Cardinality(RowsOfScope(s)') <= Capacity,
           Writes(p, version)
    PROVE  StoreKept'
  <1>. DEFINE mine == want[p].scope
              doc == want[p].id
              new == UNION {ChunksOf(mine, doc, v) : v \in version}
              row == [id |-> doc, version |-> version]
  <1>1. KnowledgeTypes /\ LocksHeld
    BY DEF KnowledgeInv
  <1>2. /\ \A s \in Scopes : Cardinality(RowsOfScope(s)) <= Capacity
        /\ \A s \in Scopes, d \in DocumentIds : DocumentKept(s, d)
        /\ \A q \in Requests : Fits(q)
    BY StoreParts DEF KnowledgeInv
  <1>3. /\ stage[p] = "write" /\ stage' = [stage EXCEPT ![p] = "end"] /\ UNCHANGED want
        /\ chunks' = (chunks \ RowsOf(mine, doc)) \cup new
        /\ documents' = [documents EXCEPT ![mine][doc] = version]
        /\ audit' = [audit EXCEPT ![mine] = Append(@, row)]
        /\ mine \in Scopes /\ doc \in DocumentIds
    BY DEF Writes
  <1>4. \A c \in new : c.scope = mine /\ c.id = doc
    BY ChunkShapes
  <1>5. row \in AuditRow /\ row.id = doc /\ row.version = version
    BY <1>3 DEF AuditRow
  <1>. HIDE DEF row, new, mine, doc
  <1>6. \A s, d : RowsOf(s, d)' = IF s = mine /\ d = doc THEN new ELSE RowsOf(s, d)
    BY <1>3, <1>4 DEF RowsOf
  <1>7. \A s : s # mine => RowsOfScope(s)' = RowsOfScope(s)
    BY <1>3, <1>4 DEF RowsOf, RowsOfScope
  <1>8. \A s, d : s # mine => Others(s, d)' = Others(s, d)
    BY <1>3, <1>4 DEF RowsOf, Others
  <1>9. \A s \in Scopes, d \in DocumentIds :
           documents'[s][d] = IF s = mine /\ d = doc THEN version ELSE documents[s][d]
    BY <1>1, <1>3 DEF KnowledgeTypes
  <1>10. \A s \in Scopes, d \in DocumentIds :
           LastSaid(audit'[s], d) = IF s = mine /\ d = doc THEN version ELSE LastSaid(audit[s], d)
    <2>1. \A s \in Scopes : audit'[s] = IF s = mine THEN Append(audit[s], row) ELSE audit[s]
      BY <1>1, <1>3 DEF KnowledgeTypes
    <2>2. audit[mine] \in Seq(AuditRow)
      BY <1>1, <1>3 DEF KnowledgeTypes
    <2>3. \A d : LastSaid(Append(audit[mine], row), d) =
                    IF d = doc THEN version ELSE LastSaid(audit[mine], d)
      BY <1>5, <2>2, LastSaidAppended
    <2>. QED BY <2>1, <2>3
  <1>11. ASSUME NEW s \in Scopes, NEW d \in DocumentIds
         PROVE  DocumentKept(s, d)'
    <2>1. CASE s = mine /\ d = doc
      BY <1>6, <1>9, <1>10, <2>1 DEF DocumentKept, new
    <2>2. CASE ~(s = mine /\ d = doc)
      BY <1>2, <1>6, <1>9, <1>10, <2>2 DEF DocumentKept
    <2>. QED BY <2>1, <2>2
  <1>12. ASSUME NEW s \in Scopes
         PROVE  Cardinality(RowsOfScope(s)') <= Capacity
    <2>1. s = mine => Cardinality(RowsOfScope(s)') <= Capacity
      BY DEF mine
    <2>. QED BY <1>2, <1>7, <2>1
  <1>13. ASSUME NEW q \in Requests
         PROVE  Fits(q)'
    <2>1. SUFFICES ASSUME stage'[q] = "write"
                   PROVE  Fits(q)'
      BY DEF Fits
    <2>2. q # p /\ stage[q] = "write"
      BY <1>1, <1>3, <2>1 DEF KnowledgeTypes
    <2>3. owner[mine] = {p} /\ owner[want[q].scope] = {q}
      BY <1>1, <1>3, <2>2 DEF LocksHeld, mine
    <2>4. want[q].scope # mine
      BY <2>2, <2>3
    <2>5. Others(want[q].scope, want[q].id)' = Others(want[q].scope, want[q].id)
      BY <1>3, <1>8, <2>4
    <2>. QED BY <1>2, <1>3, <2>2, <2>5 DEF Fits
  <1>. QED BY <1>11, <1>12, <1>13, StorePartsNext

LEMMA StoreStep ==
    ASSUME KnowledgeInv, KnowledgeTypes', KnowledgeNext
    PROVE  StoreKept'
  <1>1. KnowledgeTypes /\ Wanted /\ LocksHeld
    BY DEF KnowledgeInv
  <1>2. PICK p \in Requests :
           \/ \E w \in Wishes : Ask(p, w)
           \/ Embed(p) \/ InsertScope(p) \/ LockScope(p) \/ CountChunks(p)
           \/ Upsert(p) \/ DeleteDocument(p) \/ Search(p) \/ Breaks(p)
           \/ \E text \in {"text", "empty", "garbage"} : \E ids \in SUBSET AllChunks :
                 Draft(p, text, ids)
    BY <1>1, KnowledgeSteps
  <1>3. /\ \A s \in Scopes : Cardinality(RowsOfScope(s)) <= Capacity
        /\ \A s \in Scopes, d \in DocumentIds : DocumentKept(s, d)
        /\ \A q \in Requests : Fits(q)
    BY StoreParts DEF KnowledgeInv
  <1>4. ASSUME UNCHANGED <<chunks, documents, audit>>, Fits(p)',
               \A q \in Requests : q # p => stage'[q] = stage[q] /\ want'[q] = want[q]
        PROVE  StoreKept'
    <2>1. \A q \in Requests : Fits(q)'
      <3>1. TAKE q \in Requests
      <3>2. CASE q = p
        BY <1>4, <3>2
      <3>3. CASE q # p
        <4>1. Fits(q) /\ stage'[q] = stage[q] /\ want'[q] = want[q] /\ UNCHANGED chunks
          BY <1>3, <1>4, <3>3
        <4>. QED BY <4>1 DEF Fits, Others
      <3>. QED BY <3>2, <3>3
    <2>2. \A s \in Scopes, d \in DocumentIds : DocumentKept(s, d)'
      BY <1>3, <1>4 DEF DocumentKept, RowsOf
    <2>3. \A s \in Scopes : Cardinality(RowsOfScope(s)') <= Capacity
      BY <1>3, <1>4 DEF RowsOfScope
    <2>. QED BY <2>1, <2>2, <2>3, StorePartsNext
  <1>5. /\ stage \in [Requests -> KnowledgeStages] /\ DOMAIN want = Requests
    BY <1>1 DEF KnowledgeTypes
  <1>6. ASSUME NEW w \in Wishes, Ask(p, w)
        PROVE  StoreKept'
    <2>1. /\ want' = [want EXCEPT ![p] = w]
          /\ \E next \in {"embed", "lock", "question"} : stage' = [stage EXCEPT ![p] = next]
          /\ UNCHANGED <<chunks, documents, audit>>
      BY <1>6 DEF Ask, Enters, storeVars
    <2>2. Fits(p)'
      BY <1>5, <2>1 DEF Fits
    <2>. QED BY <1>4, <1>5, <2>1, <2>2
  <1>7. CASE CountChunks(p)
    <2>1. stage[p] = "count" /\ UNCHANGED <<want, chunks, documents, audit>>
      BY <1>7 DEF CountChunks, storeVars
    <2>2. IF Cardinality(Others(want[p].scope, want[p].id))
                + Cardinality(ChunkDocument(want[p].content)) > Capacity
          THEN Responds(p, "failed", {})
          ELSE Enters(p, "write") /\ UNCHANGED <<answer, lockVars>>
      BY <1>7 DEF CountChunks, Others
    <2>3. want[p].content \in Contents
      BY <1>1, <2>1, WishShapes DEF Wanted
    <2>4. /\ Cardinality(Others(want[p].scope, want[p].id)) \in Nat
          /\ Cardinality(ChunkDocument(want[p].content)) \in Nat
      <3>1. Others(want[p].scope, want[p].id) \in SUBSET chunks
        BY DEF Others
      <3>2. IsFiniteSet(Others(want[p].scope, want[p].id))
        BY <1>1, <3>1, FS_Subset DEF KnowledgeTypes
      <3>. QED BY <2>3, <3>2, ChunksOfContent, FS_CardinalityType
    <2>5. stage'[p] = "write" => Cardinality(Others(want[p].scope, want[p].id))
                + Cardinality(ChunkDocument(want[p].content)) <= Capacity
      BY <1>5, <2>2, <2>4, KnowledgeAssumption DEF Responds, Enters
    <2>6. Fits(p)'
      BY <2>1, <2>5 DEF Fits, Others
    <2>7. \E to : stage' = [stage EXCEPT ![p] = to]
      BY <2>2 DEF Responds, Enters
    <2>. QED BY <1>4, <1>5, <2>1, <2>6, <2>7
  <1>8. CASE Embed(p) \/ InsertScope(p) \/ LockScope(p) \/ Search(p) \/ Breaks(p)
                \/ \E text, ids : Draft(p, text, ids)
    <2>1. UNCHANGED <<chunks, documents, audit>> /\ (stage[p] # "count" \/ Breaks(p))
      BY <1>8 DEF Embed, InsertScope, LockScope, Search, Breaks, Draft, storeVars
    <2>2. \/ \E from \in KnowledgeStages \ {"idle"} : Moves(p, from, "end")
          \/ Moves(p, "embed", "begin") \/ Moves(p, "begin", "lock")
          \/ Moves(p, "lock", "count") /\ want[p].kind # "delete"
          \/ Moves(p, "lock", "write") /\ want[p].kind = "delete"
          \/ Moves(p, "count", "write")
          \/ Moves(p, "question", "draft") /\ want[p].kind # "query"
      BY <1>1, <1>8, StageSteps
    <2>3. ~Moves(p, "count", "write")
      <3>1. Breaks(p) => stage'[p] = "end"
        BY <1>5 DEF Breaks, Responds, Enters
      <3>. QED BY <1>5, <2>1, <3>1 DEF Moves
    <2>4. /\ UNCHANGED want /\ \E to : stage' = [stage EXCEPT ![p] = to]
          /\ stage'[p] = "write" => want[p].kind = "delete"
      BY <1>5, <2>2, <2>3 DEF Moves
    <2>5. Fits(p)'
      BY <2>4 DEF Fits
    <2>. QED BY <1>4, <1>5, <2>1, <2>4, <2>5
  <1>9. CASE Upsert(p)
    <2>. DEFINE w == want[p]
                new == ChunksOf(w.scope, w.id, w.content)
    <2>1. /\ stage[p] = "write" /\ w.kind = "ingest"
          /\ chunks' = (chunks \ RowsOf(w.scope, w.id)) \cup new
          /\ documents' = [documents EXCEPT ![w.scope][w.id] = {w.content}]
          /\ audit' = [audit EXCEPT ![w.scope] =
                          Append(@, [id |-> w.id, version |-> {w.content}])]
          /\ UNCHANGED want
          /\ stage' = [stage EXCEPT ![p] = "end"]
      BY <1>9 DEF Upsert, Commits, Responds, Enters
    <2>2. w \in Wishes
      BY <1>1, <2>1 DEF Wanted
    <2>3. w.scope \in Scopes /\ w.id \in DocumentIds /\ w.content \in Contents
      BY <2>1, <2>2, WishShapes
    <2>4. UNION {ChunksOf(w.scope, w.id, v) : v \in {w.content}} = new
      OBVIOUS
    <2>5. \A c \in new : c.scope = w.scope /\ c.id = w.id
      BY ChunkShapes
    <2>6. /\ IsFiniteSet(new) /\ IsFiniteSet(ChunkDocument(w.content))
          /\ Cardinality(new) <= Cardinality(ChunkDocument(w.content))
      BY <2>3, ChunksCounted
    <2>7. Cardinality(Others(w.scope, w.id)) + Cardinality(ChunkDocument(w.content)) <= Capacity
      BY <1>3, <2>1 DEF Fits
    <2>. HIDE DEF new
    <2>8. \A s \in Scopes : s = w.scope =>
             RowsOfScope(s)' = Others(w.scope, w.id) \cup new
      BY <2>1, <2>5 DEF RowsOfScope, RowsOf, Others
    <2>9. IsFiniteSet(Others(w.scope, w.id))
      <3>1. Others(w.scope, w.id) \in SUBSET chunks
        BY DEF Others
      <3>. QED BY <1>1, <3>1, FS_Subset DEF KnowledgeTypes
    <2>10. \A s \in Scopes : s = w.scope => Cardinality(RowsOfScope(s)') <= Capacity
      <3>. DEFINE rest == Others(w.scope, w.id)
      <3>1. Cardinality(rest \cup new) =
               Cardinality(rest) + Cardinality(new) - Cardinality(rest \cap new)
        BY <2>6, <2>9, FS_Union
      <3>2. Cardinality(rest \cap new) \in Nat
        BY <2>9, FS_Intersection, FS_CardinalityType
      <3>3. /\ Cardinality(rest) \in Nat /\ Cardinality(new) \in Nat
            /\ Cardinality(ChunkDocument(w.content)) \in Nat
        BY <2>6, <2>9, FS_CardinalityType
      <3>. DEFINE size == Cardinality(ChunkDocument(w.content))
      <3>4. /\ Cardinality(rest) + size <= Capacity /\ Cardinality(new) <= size
            /\ size \in Nat /\ Capacity \in Nat
        BY <2>6, <2>7, <3>3, KnowledgeAssumption
      <3>. HIDE DEF rest, size
      <3>5. Cardinality(rest \cup new) <= Capacity
        BY <3>1, <3>2, <3>3, <3>4
      <3>. QED BY <2>8, <3>5 DEF rest
    <2>11. Writes(p, {w.content})
      BY <2>1, <2>4 DEF Writes
    <2>12. {w.content} \in SUBSET Contents /\ \A v, x \in {w.content} : v = x
      BY <2>3
    <2>. QED BY <2>3, <2>10, <2>11, <2>12, WritesKept
  <1>10. CASE DeleteDocument(p)
    <2>. DEFINE w == want[p]
    <2>1. /\ stage[p] = "write" /\ w.kind = "delete" /\ UNCHANGED want
          /\ stage' = [stage EXCEPT ![p] = "end"]
      BY <1>10 DEF DeleteDocument, Commits, Responds, Enters
    <2>2. w \in Wishes
      BY <1>1, <2>1 DEF Wanted
    <2>3. w.scope \in Scopes /\ w.id \in DocumentIds
      BY <2>1, <2>2, WishShapes
    <2>4. CASE documents[w.scope][w.id] = {}
      <3>1. UNCHANGED <<chunks, documents, audit>>
        BY <1>10, <2>4 DEF DeleteDocument
      <3>2. Fits(p)'
        BY <1>5, <2>1 DEF Fits
      <3>. QED BY <1>4, <1>5, <2>1, <3>1, <3>2
    <2>5. CASE documents[w.scope][w.id] # {}
      <3>1. /\ chunks' = chunks \ RowsOf(w.scope, w.id)
            /\ documents' = [documents EXCEPT ![w.scope][w.id] = {}]
            /\ audit' = [audit EXCEPT ![w.scope] = Append(@, [id |-> w.id, version |-> {}])]
        BY <1>10, <2>5 DEF DeleteDocument
      <3>2. UNION {ChunksOf(w.scope, w.id, v) : v \in {}} = {}
        OBVIOUS
      <3>3. Writes(p, {})
        BY <2>1, <3>1, <3>2 DEF Writes
      <3>4. ASSUME NEW s \in Scopes
            PROVE  Cardinality(RowsOfScope(s)') <= Capacity
        <4>1. RowsOfScope(s)' \in SUBSET RowsOfScope(s)
          BY <3>1 DEF RowsOfScope
        <4>2. RowsOfScope(s) \in SUBSET chunks
          BY DEF RowsOfScope
        <4>3. IsFiniteSet(RowsOfScope(s))
          BY <1>1, <4>2, FS_Subset DEF KnowledgeTypes
        <4>4. Cardinality(RowsOfScope(s)') <= Cardinality(RowsOfScope(s))
              /\ IsFiniteSet(RowsOfScope(s)')
          BY <4>1, <4>3, FS_Subset
        <4>5. Cardinality(RowsOfScope(s)') \in Nat /\ Cardinality(RowsOfScope(s)) \in Nat
          BY <4>3, <4>4, FS_CardinalityType
        <4>. QED BY <1>3, <4>4, <4>5, KnowledgeAssumption
      <3>5. {} \in SUBSET Contents /\ \A v, x \in {} : v = x
        OBVIOUS
      <3>. QED BY <2>3, <3>3, <3>4, <3>5, WritesKept
    <2>. QED BY <2>4, <2>5
  <1>. QED BY <1>2, <1>6, <1>7, <1>8, <1>9, <1>10

LEMMA KnowledgeInitially == KnowledgeInit => KnowledgeInv
  <1>. SUFFICES ASSUME KnowledgeInit
                PROVE  KnowledgeInv
    OBVIOUS
  <1>1. /\ stage = [p \in Requests |-> "idle"] /\ want = [p \in Requests |-> NoWish]
        /\ scopeRows = {} /\ chunks = {} /\ errors = 0 /\ adapter \in {"mysql", "remote"}
        /\ shared = [s \in Scopes |-> {}] /\ owner = [s \in Scopes |-> {}]
        /\ documents = [s \in Scopes |-> [d \in DocumentIds |-> {}]]
        /\ audit = [s \in Scopes |-> <<>>]
        /\ found = [p \in Requests |-> {}] /\ answer = [p \in Requests |-> NoAnswer]
        /\ since = [p \in Requests |-> 0]
    BY DEF KnowledgeInit, NoWish
  <1>2. MaxErrors \in Nat /\ Capacity \in Nat /\ TopK \in Nat
    BY KnowledgeAssumption
  <1>3. IsFiniteSet({}) /\ Cardinality({}) = 0
    BY FS_EmptySet
  <1>4. KnowledgeTypes
    <2>1. NoAnswer \in [code: AnswerCodes, cites: SUBSET AllChunks]
      BY DEF NoAnswer, AnswerCodes
    <2>2. answer \in [Requests -> [code: AnswerCodes, cites: SUBSET AllChunks]]
      BY <1>1, <2>1
    <2>3. stage \in [Requests -> KnowledgeStages]
      BY <1>1 DEF KnowledgeStages
    <2>4. want \in [Requests -> Wishes \cup {NoWish}]
      BY <1>1
    <2>5. documents \in [Scopes -> [DocumentIds -> SUBSET Contents]]
      BY <1>1
    <2>6. audit \in [Scopes -> Seq(AuditRow)]
      BY <1>1
    <2>. QED BY <1>1, <1>2, <1>3, <2>2, <2>3, <2>4, <2>5, <2>6 DEF KnowledgeTypes
  <1>5. Wanted
    BY <1>1 DEF Wanted
  <1>6. LocksHeld
    BY <1>1 DEF LocksHeld
  <1>7. StoreKept
    <2>1. \A s \in Scopes : Cardinality(RowsOfScope(s)) <= Capacity
      <3>1. \A s \in Scopes : RowsOfScope(s) = {}
        BY <1>1 DEF RowsOfScope
      <3>. QED BY <1>2, <1>3, <3>1
    <2>2. \A s \in Scopes, d \in DocumentIds : DocumentKept(s, d)
      <3>1. \A s \in Scopes, d \in DocumentIds : documents[s][d] = {} /\ RowsOf(s, d) = {}
        BY <1>1 DEF RowsOf
      <3>2. \A d : LastSaid(<<>>, d) = {}
        BY DEF LastSaid
      <3>3. \A s \in Scopes, d \in DocumentIds : LastSaid(audit[s], d) = {}
        BY <1>1, <3>2
      <3>. QED BY <3>1, <3>3 DEF DocumentKept
    <2>3. \A q \in Requests : Fits(q)
      BY <1>1 DEF Fits
    <2>. QED BY <2>1, <2>2, <2>3, StoreParts
  <1>8. FoundInScope
    BY <1>1, <1>2, <1>3 DEF FoundInScope, NoAnswer
  <1>. QED BY <1>4, <1>5, <1>6, <1>7, <1>8 DEF KnowledgeInv

LEMMA KnowledgeStutters ==
    ASSUME KnowledgeInv, UNCHANGED knowledgeVars
    PROVE  KnowledgeInv'
  <1>1. UNCHANGED <<adapter, stage, want, since, scopeRows, chunks, documents, audit, shared, owner,
                    found, answer, errors>>
    BY DEF knowledgeVars, storeVars, lockVars
  <1>2. KnowledgeTypes' /\ Wanted' /\ LocksHeld' /\ FoundInScope'
    <2>1. KnowledgeTypes'
      BY <1>1 DEF KnowledgeInv, KnowledgeTypes
    <2>2. Wanted'
      BY <1>1 DEF KnowledgeInv, Wanted
    <2>3. LocksHeld'
      BY <1>1 DEF KnowledgeInv, LocksHeld
    <2>4. FoundInScope'
      BY <1>1 DEF KnowledgeInv, FoundInScope, StoredAtOnce, ReplayedTo
    <2>. QED BY <2>1, <2>2, <2>3, <2>4
  <1>3. StoreKept'
    <2>1. /\ \A s \in Scopes : Cardinality(RowsOfScope(s)) <= Capacity
          /\ \A s \in Scopes, d \in DocumentIds : DocumentKept(s, d)
          /\ \A q \in Requests : Fits(q)
      BY StoreParts DEF KnowledgeInv
    <2>. QED BY <1>1, <2>1, StorePartsNext DEF RowsOfScope, DocumentKept, RowsOf, Fits, Others
  <1>. QED BY <1>2, <1>3 DEF KnowledgeInv

\* What the transactions of the requests hold and have read, and what the tables
\* say under them: the inductive invariant of the knowledge assistant
\* (rag/mysql.go:32-84, 142-181).
THEOREM KnowledgeInvariant == KnowledgeSpec => []KnowledgeInv
  <1>1. KnowledgeInit => KnowledgeInv
    BY KnowledgeInitially
  <1>2. KnowledgeInv /\ [KnowledgeNext]_knowledgeVars => KnowledgeInv'
    <2>1. ASSUME KnowledgeInv, KnowledgeNext
          PROVE  KnowledgeInv'
      BY <2>1, TypesStep, WantedStep, LocksStep, StoreStep, FoundStep DEF KnowledgeInv
    <2>. QED BY <2>1, KnowledgeStutters
  <1>. QED BY <1>1, <1>2, PTL DEF KnowledgeSpec

\* Locks belong to open transactions, one owner excludes everybody else, and
\* what is stored and found are chunks of documents (rag/mysql.go:45-60).
THEOREM KnowledgeTypeCorrect == KnowledgeSpec => []KnowledgeTypeOK
  <1>1. ASSUME KnowledgeInv
        PROVE  KnowledgeTypeOK
    <2>1. KnowledgeTypes /\ Wanted /\ LocksHeld
      BY <1>1 DEF KnowledgeInv
    <2>2. \A p \in Requests : stage[p] # "idle" =>
             want[p].kind \in {"ingest", "delete", "query", "answer"} /\ want[p].scope \in Scopes
      BY <2>1, WishShapes DEF Wanted
    <2>3. \A s \in Scopes : Cardinality(owner[s]) <= 1
      <3>1. TAKE s \in Scopes
      <3>2. \A p, q \in owner[s] : p = q
        BY <2>1 DEF LocksHeld
      <3>3. CASE owner[s] = {}
        BY <3>3, FS_EmptySet
      <3>4. CASE owner[s] # {}
        <4>1. PICK p \in owner[s] : TRUE
          BY <3>4
        <4>2. owner[s] = {p}
          BY <3>2, <4>1
        <4>3. Cardinality({p}) = 1
          BY FS_Singleton
        <4>. QED BY <4>2, <4>3
      <3>. QED BY <3>3, <3>4
    <2>. QED BY <2>1, <2>2, <2>3 DEF KnowledgeTypeOK, KnowledgeTypes, LocksHeld, KnowledgeStages
  <1>. QED BY <1>1, KnowledgeInvariant, PTL

\* The chunks, the documents and the audit log of every scope agree whichever
\* uploads and deletions race, a scope stays within its capacity, and the chunks
\* of a stored document hold all of it (rag/mysql.go:50-83, rag/ingest.go:76-112).
THEOREM StoreIsConsistent == KnowledgeSpec => []StoreAgrees
  <1>1. ASSUME KnowledgeInv
        PROVE  StoreAgrees
    <2>1. TablesAgree
      BY <1>1 DEF KnowledgeInv, StoreKept, TablesAgree
    <2>2. \A c \in chunks : c.content \in Contents
      <3>1. TAKE c \in chunks
      <3>2. c \in AllChunks
        BY <1>1 DEF KnowledgeInv, KnowledgeTypes
      <3>3. PICK s \in Scopes, d \in DocumentIds, v \in Contents : c \in ChunksOf(s, d, v)
        BY <3>2 DEF AllChunks
      <3>. QED BY <3>3, ChunkShapes
    <2>3. ChunksCover
      BY <2>2, ChunksOfContent DEF ChunksCover
    <2>. QED BY <2>1, <2>3 DEF StoreAgrees
  <1>. QED BY <1>1, KnowledgeInvariant, PTL

\* An answer cites what was retrieved for it: chunks of its scope, at most TopK,
\* whatever a remote store returns; those of the MySQL store were stored together
\* at one moment since the question arrived, whatever is replaced or deleted
\* before or after (rag/service.go:99, rag/mysql.go:85-141,
\* service/extension.go:359).
THEOREM AnswersAreCited == KnowledgeSpec => []AnswersCited
  <1>1. ASSUME KnowledgeInv
        PROVE  AnswersCited
    <2>1. FoundInScope
      BY <1>1 DEF KnowledgeInv
    <2>2. \A p \in Requests : answer[p].cites # {} => found[p] # {}
      BY <2>1 DEF FoundInScope
    <2>. QED BY <2>1, <2>2 DEF FoundInScope, AnswersCited
  <1>. QED BY <1>1, KnowledgeInvariant, PTL

-----------------------------------------------------------------------------
(* Local review: the statements of a diff *)

NoLines == [sqls |-> <<>>, current |-> <<>>, inSQLFile |-> FALSE]

ReadSoFar(diff) ==
    CHOOSE f : f = [n \in 0..Len(diff) |-> IF n = 0 THEN NoLines ELSE ReadLine(f[n - 1], diff[n])]

LEMMA ExtractedSoFar ==
    \A diff : ExtractAddedSQL(diff) = Flush(ReadSoFar(diff)[Len(diff)])
  BY DEF ExtractAddedSQL, ReadSoFar, NoLines

\* Reading a line more is defined when reading those before it is.
LEMMA ReadingExists ==
    ASSUME NEW diff, Len(diff) \in Nat
    PROVE  \E f : f = [n \in 0..Len(diff) |->
                          IF n = 0 THEN NoLines ELSE ReadLine(f[n - 1], diff[n])]
  <1>. DEFINE L == Len(diff)
              Line(f, n) == IF n = 0 THEN NoLines ELSE ReadLine(f[n - 1], diff[n])
              IsTable(k, f) == f = [n \in 0..k |-> Line(f, n)]
              Missing == {k \in 0..L : \A f : ~IsTable(k, f)}
  <1>1. SUFFICES Missing = {}
    <2>1. L \in 0..L
      OBVIOUS
    <2>2. \E f : IsTable(L, f)
      BY <1>1, <2>1
    <2>. QED BY <2>2
  <1>2. SUFFICES ASSUME Missing # {} PROVE FALSE
    OBVIOUS
  <1>3. Missing \in SUBSET Nat
    OBVIOUS
  <1>4. PICK k \in Missing : \A n \in Missing : k <= n
    BY <1>2, <1>3, LeastNumber
  <1>5. k \in 0..L /\ \A f : ~IsTable(k, f)
    BY <1>4
  <1>. HIDE DEF Missing
  <1>6. CASE k = 0
    <2>. DEFINE f == [n \in 0..0 |-> NoLines]
    <2>1. f = [n \in 0..0 |-> Line(f, n)]
      OBVIOUS
    <2>. QED BY <1>5, <1>6, <2>1
  <1>7. CASE k # 0
    <2>1. k - 1 \in 0..L
      BY <1>5, <1>7
    <2>2. k - 1 \notin Missing
      <3>1. k - 1 \in Missing => k <= k - 1
        BY <1>4
      <3>. QED BY <1>5, <3>1
    <2>3. PICK f : IsTable(k - 1, f)
      BY <2>1, <2>2 DEF Missing
    <2>. DEFINE g == [n \in 0..k |-> IF n = k THEN ReadLine(f[k - 1], diff[k]) ELSE f[n]]
    <2>4. \A n \in 0..k : n # k => n \in 0..(k - 1) /\ g[n] = f[n] /\ (n # 0 => n - 1 \in 0..k /\ n - 1 # k)
      BY <1>5
    <2>5. \A n \in 0..k : n # k => f[n] = Line(f, n)
      BY <2>3, <2>4
    <2>6. \A n \in 0..k : n # 0 => g[n - 1] = f[n - 1]
      BY <1>5
    <2>7. g[k] = ReadLine(f[k - 1], diff[k])
      BY <1>5
    <2>. HIDE DEF g, IsTable
    <2>8. \A n \in 0..k : g[n] = Line(g, n)
      <3>1. TAKE n \in 0..k
      <3>2. CASE n = k
        BY <1>5, <1>7, <2>6, <2>7, <3>2
      <3>3. CASE n # k
        BY <2>4, <2>5, <2>6, <3>3
      <3>. QED BY <3>2, <3>3
    <2>9. g = [n \in 0..k |-> Line(g, n)]
      <3>. HIDE DEF Line
      <3>1. g = [n \in 0..k |-> g[n]]
        BY DEF g
      <3>. QED BY <2>8, <3>1
    <2>. QED BY <1>5, <2>9 DEF IsTable
  <1>. QED BY <1>6, <1>7

LEMMA ReadSoFarEquations ==
    ASSUME NEW diff, Len(diff) \in Nat
    PROVE  /\ ReadSoFar(diff)[0] = NoLines
           /\ \A n \in 1..Len(diff) :
                 ReadSoFar(diff)[n] = ReadLine(ReadSoFar(diff)[n - 1], diff[n])
  <1>. DEFINE s == ReadSoFar(diff)
  <1>1. PICK f : f = [n \in 0..Len(diff) |->
                         IF n = 0 THEN NoLines ELSE ReadLine(f[n - 1], diff[n])]
    BY ReadingExists
  <1>2. s = [n \in 0..Len(diff) |-> IF n = 0 THEN NoLines ELSE ReadLine(s[n - 1], diff[n])]
    BY <1>1 DEF ReadSoFar
  <1>. HIDE DEF s
  <1>3. s[0] = NoLines
    <2>1. 0 \in 0..Len(diff)
      OBVIOUS
    <2>. QED BY <1>2, <2>1
  <1>4. \A n \in 1..Len(diff) : s[n] = ReadLine(s[n - 1], diff[n])
    <2>1. \A n \in 1..Len(diff) : n \in 0..Len(diff) /\ n # 0
      OBVIOUS
    <2>. QED BY <1>2, <2>1
  <1>. QED BY <1>3, <1>4 DEF s


\* Whether the nth line is in a .sql file, and which lines up to it are added.
InSQLFile(diff, n) ==
    \E h \in 1..n : diff[h] = "sql file" /\ \A m \in h + 1..n : diff[m] \notin Headers

AddedUpTo(diff, n) == {k \in 1..n : diff[k] \in Added /\ InSQLFile(diff, k)}

\* What is collected of no line, of the line x alone, and of several lines.
None(acc) == acc.sqls = <<>> /\ acc.current = <<>>
Single(acc, x) ==
    \/ acc.sqls = <<>> /\ acc.current = <<x>>
    \/ acc.sqls = <<<<x>>>> /\ acc.current = <<>>
Several(acc) ==
    \/ Len(acc.sqls) >= 2
    \/ Len(acc.sqls) >= 1 /\ (acc.current # <<>> \/ Len(acc.sqls[1]) >= 2)
    \/ Len(acc.current) >= 2

Accumulator == [sqls: Seq(Seq(Added)), current: Seq(Added), inSQLFile: BOOLEAN]

\* They are the lines that `added` has: none, one, or several.
Counted(diff, added, acc) ==
    \/ None(acc) /\ added = {}
    \/ \E k \in added : Single(acc, diff[k]) /\ added = {k}
    \/ Several(acc) /\ \E k, l \in added : k # l

Collected(diff, n, acc) ==
    /\ acc \in Accumulator
    /\ acc.inSQLFile = InSQLFile(diff, n)
    /\ Counted(diff, AddedUpTo(diff, n), acc)

LEMMA HeaderLine ==
    ASSUME NEW diff, NEW n \in Nat, n # 0
    PROVE  /\ diff[n] \in Headers =>
                 /\ InSQLFile(diff, n) = (diff[n] = "sql file")
                 /\ AddedUpTo(diff, n) = AddedUpTo(diff, n - 1)
           /\ diff[n] \notin Headers => InSQLFile(diff, n) = InSQLFile(diff, n - 1)
           /\ AddedUpTo(diff, n) = AddedUpTo(diff, n - 1) \cup
                 (IF diff[n] \in Added /\ InSQLFile(diff, n) THEN {n} ELSE {})
  <1>1. 1..n = 1..(n - 1) \cup {n} /\ n \notin 1..(n - 1)
    OBVIOUS
  <1>2. AddedUpTo(diff, n) = AddedUpTo(diff, n - 1) \cup
           (IF diff[n] \in Added /\ InSQLFile(diff, n) THEN {n} ELSE {})
    BY <1>1 DEF AddedUpTo
  <1>3. ASSUME diff[n] \in Headers
        PROVE  /\ InSQLFile(diff, n) = (diff[n] = "sql file")
               /\ AddedUpTo(diff, n) = AddedUpTo(diff, n - 1)
    <2>1. diff[n] \notin Added
      BY <1>3 DEF Headers, Added
    <2>2. InSQLFile(diff, n) => diff[n] = "sql file"
      <3>1. ASSUME NEW h \in 1..n, diff[h] = "sql file", \A m \in h + 1..n : diff[m] \notin Headers
            PROVE  h = n
        <4>1. h # n => n \in h + 1..n
          OBVIOUS
        <4>. QED BY <1>3, <3>1, <4>1
      <3>. QED BY <3>1 DEF InSQLFile
    <2>3. diff[n] = "sql file" => InSQLFile(diff, n)
      <3>1. n \in 1..n /\ n + 1..n = {}
        OBVIOUS
      <3>. QED BY <3>1 DEF InSQLFile
    <2>4. InSQLFile(diff, n) \in BOOLEAN
      BY DEF InSQLFile
    <2>. QED BY <1>2, <2>1, <2>2, <2>3, <2>4
  <1>4. ASSUME diff[n] \notin Headers
        PROVE  InSQLFile(diff, n) = InSQLFile(diff, n - 1)
    <2>1. ASSUME NEW h \in 1..n, diff[h] = "sql file", \A m \in h + 1..n : diff[m] \notin Headers
          PROVE  InSQLFile(diff, n - 1)
      <3>1. h \in 1..(n - 1)
        BY <1>1, <1>4, <2>1 DEF Headers
      <3>2. \A m \in h + 1..(n - 1) : m \in h + 1..n
        OBVIOUS
      <3>. QED BY <2>1, <3>1, <3>2 DEF InSQLFile
    <2>2. ASSUME NEW h \in 1..(n - 1), diff[h] = "sql file",
                 \A m \in h + 1..(n - 1) : diff[m] \notin Headers
          PROVE  InSQLFile(diff, n)
      <3>1. \A m \in h + 1..n : m = n \/ m \in h + 1..(n - 1)
        OBVIOUS
      <3>2. h \in 1..n
        BY <1>1
      <3>. QED BY <1>4, <2>2, <3>1, <3>2 DEF InSQLFile
    <2>3. InSQLFile(diff, n) \in BOOLEAN /\ InSQLFile(diff, n - 1) \in BOOLEAN
      BY DEF InSQLFile
    <2>4. InSQLFile(diff, n) => InSQLFile(diff, n - 1)
      BY <2>1 DEF InSQLFile
    <2>5. InSQLFile(diff, n - 1) => InSQLFile(diff, n)
      BY <2>2 DEF InSQLFile
    <2>. QED BY <2>3, <2>4, <2>5
  <1>. QED BY <1>2, <1>3, <1>4

\* Lines that are flushed stay what they are.
LEMMA FlushedCounts ==
    ASSUME NEW acc \in Accumulator
    PROVE  LET flushed == [sqls |-> Flush(acc), current |-> <<>>]
           IN  /\ Flush(acc) \in Seq(Seq(Added))
               /\ None(acc) => None(flushed)
               /\ \A x : Single(acc, x) => Single(flushed, x)
               /\ Several(acc) => Several(flushed)
  <1>. DEFINE flushed == [sqls |-> Flush(acc), current |-> <<>>]
  <1>1. acc.sqls \in Seq(Seq(Added)) /\ acc.current \in Seq(Added)
    BY DEF Accumulator
  <1>2. Flush(acc) = IF acc.current = <<>> THEN acc.sqls ELSE Append(acc.sqls, acc.current)
    BY DEF Flush
  <1>3. Flush(acc) \in Seq(Seq(Added))
    BY <1>1, <1>2
  <1>4. None(acc) => None(flushed)
    BY <1>2 DEF None
  <1>5. \A x : Single(acc, x) => Single(flushed, x)
    <2>1. \A x : <<x>> # <<>> /\ Append(<<>>, <<x>>) = <<<<x>>>>
      OBVIOUS
    <2>. QED BY <1>2, <2>1 DEF Single
  <1>6. Several(acc) => Several(flushed)
    <2>1. CASE acc.current = <<>>
      <3>1. Len(acc.current) = 0
        BY <2>1
      <3>. QED BY <1>2, <2>1, <3>1 DEF Several
    <2>2. CASE acc.current # <<>>
      <3>1. /\ Flush(acc) = Append(acc.sqls, acc.current)
            /\ Len(acc.sqls) \in Nat /\ Len(acc.current) \in Nat
            /\ Len(Flush(acc)) = Len(acc.sqls) + 1
            /\ Flush(acc)[Len(acc.sqls) + 1] = acc.current
        BY <1>1, <1>2, <2>2
      <3>2. CASE Len(acc.sqls) >= 1
        BY <3>1, <3>2 DEF Several
      <3>3. CASE ~(Len(acc.sqls) >= 1)
        <4>1. Len(acc.sqls) = 0 /\ Len(Flush(acc)) = 1 /\ Flush(acc)[1] = acc.current
          BY <3>1, <3>3
        <4>2. Several(acc) => Len(acc.current) >= 2
          BY <4>1 DEF Several
        <4>3. Several(flushed) <=> Len(Flush(acc)) >= 2 \/ (Len(Flush(acc)) >= 1 /\ Len(Flush(acc)[1]) >= 2)
          <5>1. flushed.sqls = Flush(acc) /\ flushed.current = <<>> /\ Len(flushed.current) = 0
            OBVIOUS
          <5>. HIDE DEF flushed
          <5>. QED BY <5>1 DEF Several
        <4>. QED BY <4>1, <4>2, <4>3
      <3>. QED BY <3>2, <3>3
    <2>. QED BY <2>1, <2>2
  <1>. QED BY <1>3, <1>4, <1>5, <1>6

LEMMA CollectsLine ==
    ASSUME NEW diff, NEW n \in Nat, n # 0, NEW acc, Collected(diff, n - 1, acc)
    PROVE  Collected(diff, n, ReadLine(acc, diff[n]))
  <1>. DEFINE line == diff[n]
              next == ReadLine(acc, line)
              before == AddedUpTo(diff, n - 1)
              after == AddedUpTo(diff, n)
  <1>1. acc \in Accumulator /\ acc.inSQLFile = InSQLFile(diff, n - 1) /\ Counted(diff, before, acc)
    BY DEF Collected
  <1>2. acc.sqls \in Seq(Seq(Added)) /\ acc.current \in Seq(Added)
    BY <1>1 DEF Accumulator
  <1>3. n \notin before
    BY DEF AddedUpTo
  <1>4. CASE line \in Headers
    <2>. DEFINE flushed == [sqls |-> Flush(acc), current |-> <<>>]
                here == line = "sql file"
    <2>1. next = [sqls |-> Flush(acc), current |-> <<>>, inSQLFile |-> here]
      BY <1>4 DEF ReadLine
    <2>2. /\ Flush(acc) \in Seq(Seq(Added)) /\ (None(acc) => None(flushed))
          /\ (\A x : Single(acc, x) => Single(flushed, x)) /\ (Several(acc) => Several(flushed))
      BY <1>1, FlushedCounts
    <2>3. <<>> \in Seq(Added) /\ here \in BOOLEAN
      OBVIOUS
    <2>4. InSQLFile(diff, n) = here /\ after = before
      BY <1>4, HeaderLine
    <2>5. /\ next.sqls = flushed.sqls /\ next.current = flushed.current
          /\ next.inSQLFile = here /\ next \in Accumulator
      <3>. HIDE DEF next, here
      <3>. QED BY <2>1, <2>2, <2>3 DEF Accumulator
    <2>. HIDE DEF next, flushed, before, after
    <2>6. None(flushed) => None(next)
      BY <2>5 DEF None
    <2>7. \A x : Single(flushed, x) => Single(next, x)
      BY <2>5 DEF Single
    <2>8. Several(flushed) => Several(next)
      BY <2>5 DEF Several
    <2>9. Counted(diff, after, next)
      BY <1>1, <2>2, <2>4, <2>6, <2>7, <2>8 DEF Counted
    <2>. QED BY <2>4, <2>5, <2>9 DEF Collected, next, after
  <1>5. CASE line \notin Headers /\ acc.inSQLFile /\ line \in Added
    <2>1. next = [acc EXCEPT !.current = Append(acc.current, line)]
      BY <1>5 DEF ReadLine
    <2>2. Append(acc.current, line) \in Seq(Added)
      BY <1>2, <1>5
    <2>3. /\ next.sqls = acc.sqls /\ next.current = Append(acc.current, line)
          /\ next.inSQLFile = acc.inSQLFile /\ next \in Accumulator
      <3>. HIDE DEF next, line
      <3>1. next \in Accumulator
        BY <1>1, <2>1, <2>2 DEF Accumulator
      <3>. QED BY <1>1, <2>1, <3>1 DEF Accumulator
    <2>4. InSQLFile(diff, n) = acc.inSQLFile /\ after = before \cup {n}
      <3>1. InSQLFile(diff, n) = acc.inSQLFile
        BY <1>1, <1>5, HeaderLine
      <3>2. after = before \cup (IF line \in Added /\ InSQLFile(diff, n) THEN {n} ELSE {})
        BY HeaderLine
      <3>. HIDE DEF after, before
      <3>. QED BY <1>5, <3>1, <3>2
    <2>5. /\ Len(acc.sqls) \in Nat /\ Len(acc.current) \in Nat
          /\ Len(next.current) = Len(acc.current) + 1 /\ next.current # <<>>
      <3>. HIDE DEF next, line
      <3>1. Len(Append(acc.current, line)) = Len(acc.current) + 1 /\ Append(acc.current, line) # <<>>
        BY <1>2, <1>5
      <3>. QED BY <1>2, <2>3, <3>1
    <2>. HIDE DEF next, before, after
    <2>6. None(acc) => Single(next, line)
      <3>1. Append(<<>>, line) = <<line>>
        OBVIOUS
      <3>. QED BY <2>3, <3>1 DEF None, Single
    <2>7. ASSUME NEW x, Single(acc, x)
          PROVE  Several(next)
      <3>1. CASE acc.current = <<x>>
        <4>1. Len(acc.current) = 1
          BY <3>1
        <4>. QED BY <2>5, <4>1 DEF Several
      <3>2. CASE acc.sqls = <<<<x>>>>
        <4>1. Len(acc.sqls) = 1
          BY <3>2
        <4>. QED BY <2>3, <2>5, <4>1 DEF Several
      <3>. QED BY <2>7, <3>1, <3>2 DEF Single
    <2>8. Several(acc) => Several(next)
      <3>1. \/ Len(acc.sqls) >= 2
            \/ Len(acc.sqls) >= 1
            \/ Len(acc.current) >= 2
            => Len(next.sqls) >= 1 \/ Len(next.current) >= 2
        BY <2>3, <2>5
      <3>. QED BY <2>3, <2>5, <3>1 DEF Several
    <2>9. ASSUME None(acc), before = {} PROVE Counted(diff, after, next)
      BY <2>4, <2>6, <2>9 DEF Counted
    <2>10. ASSUME NEW j \in before, Single(acc, diff[j]), before = {j}
           PROVE  Counted(diff, after, next)
      <3>1. Several(next) /\ \E k, l \in after : k # l
        BY <1>3, <2>4, <2>7, <2>10
      <3>. QED BY <3>1 DEF Counted
    <2>11. ASSUME Several(acc), \E k, l \in before : k # l
           PROVE  Counted(diff, after, next)
      <3>1. Several(next) /\ \E k, l \in after : k # l
        BY <2>4, <2>8, <2>11
      <3>. QED BY <3>1 DEF Counted
    <2>12. Counted(diff, after, next)
      BY <1>1, <2>9, <2>10, <2>11 DEF Counted
    <2>. QED BY <1>1, <2>3, <2>4, <2>12 DEF Collected, next, after
  <1>6. CASE line \notin Headers /\ ~(acc.inSQLFile /\ line \in Added)
    <2>1. next = acc
      BY <1>6 DEF ReadLine
    <2>2. InSQLFile(diff, n) = acc.inSQLFile
      BY <1>1, <1>6, HeaderLine
    <2>3. after = before
      <3>1. after = before \cup (IF line \in Added /\ InSQLFile(diff, n) THEN {n} ELSE {})
        BY HeaderLine
      <3>2. ~(line \in Added /\ InSQLFile(diff, n))
        BY <1>6, <2>2
      <3>. HIDE DEF after, before
      <3>. QED BY <3>1, <3>2
    <2>. QED BY <1>1, <2>1, <2>2, <2>3 DEF Collected
  <1>. QED BY <1>4, <1>5, <1>6

LEMMA CollectsLines ==
    ASSUME NEW diff, Len(diff) \in Nat
    PROVE  Collected(diff, Len(diff), ReadSoFar(diff)[Len(diff)])
  <1>. DEFINE s == ReadSoFar(diff)
              Wrong == {n \in 0..Len(diff) : ~Collected(diff, n, s[n])}
  <1>1. SUFFICES Wrong = {}
    OBVIOUS
  <1>2. SUFFICES ASSUME Wrong # {} PROVE FALSE
    OBVIOUS
  <1>3. Wrong \in SUBSET Nat
    OBVIOUS
  <1>. HIDE DEF Wrong
  <1>4. PICK n \in Wrong : \A m \in Wrong : n <= m
    BY <1>2, <1>3, LeastNumber
  <1>5. n \in 0..Len(diff) /\ ~Collected(diff, n, s[n])
    BY <1>4 DEF Wrong
  <1>6. CASE n = 0
    <2>1. s[0] = NoLines
      BY ReadSoFarEquations
    <2>2. InSQLFile(diff, 0) = FALSE /\ AddedUpTo(diff, 0) = {}
      BY DEF InSQLFile, AddedUpTo
    <2>3. NoLines \in Accumulator /\ None(NoLines) /\ NoLines.inSQLFile = FALSE
      BY DEF NoLines, Accumulator, None
    <2>. QED BY <1>5, <1>6, <2>1, <2>2, <2>3 DEF Collected, Counted
  <1>7. CASE n # 0
    <2>1. n \in 1..Len(diff) /\ n \in Nat /\ n - 1 \in 0..Len(diff)
      BY <1>5, <1>7
    <2>2. n - 1 \notin Wrong
      <3>1. n - 1 \in Wrong => n <= n - 1
        BY <1>4
      <3>. QED BY <2>1, <3>1
    <2>3. Collected(diff, n - 1, s[n - 1])
      BY <2>1, <2>2 DEF Wrong
    <2>4. s[n] = ReadLine(s[n - 1], diff[n])
      BY <2>1, ReadSoFarEquations
    <2>. QED BY <1>5, <1>7, <2>1, <2>3, <2>4, CollectsLine
  <1>. QED BY <1>6, <1>7

\* The only line that the .sql files of a diff add is one SELECT.
OneSelect(diff) ==
    /\ {diff[n] : n \in AddedBySQLFiles(diff)} = {"+select"}
    /\ Cardinality(AddedBySQLFiles(diff)) = 1

\* A diff of any length passes exactly when it adds one SELECT (webhook.go:187-213).
LEMMA RejectionIsRight ==
    ASSUME NEW diff, Len(diff) \in Nat, DOMAIN diff = 1..Len(diff)
    PROVE  /\ (Rejection(diff) = "") = OneSelect(diff)
           /\ Rejection(diff) \in {"", "no_sql_candidates", "sql_admission_rejected",
                                   "multiple_sql_candidates"}
  <1>. DEFINE acc == ReadSoFar(diff)[Len(diff)]
              flushed == [sqls |-> Flush(acc), current |-> <<>>]
              sqls == ExtractAddedSQL(diff)
              added == AddedBySQLFiles(diff)
  <1>1. acc \in Accumulator /\ Counted(diff, AddedUpTo(diff, Len(diff)), acc)
    BY CollectsLines DEF Collected
  <1>2. added = AddedUpTo(diff, Len(diff))
    BY DEF AddedBySQLFiles, AddedUpTo, InSQLFile
  <1>3. sqls = flushed.sqls /\ flushed.current = <<>> /\ sqls \in Seq(Seq(Added))
    BY <1>1, ExtractedSoFar, FlushedCounts
  <1>4. /\ None(acc) => None(flushed)
        /\ \A x : Single(acc, x) => Single(flushed, x)
        /\ Several(acc) => Several(flushed)
    BY <1>1, FlushedCounts
  <1>5. Rejection(diff) =
           IF sqls = <<>> THEN "no_sql_candidates"
           ELSE IF \E n \in DOMAIN sqls : ~Admit(sqls[n]) THEN "sql_admission_rejected"
           ELSE IF Len(sqls) # 1 THEN "multiple_sql_candidates" ELSE ""
    BY DEF Rejection
  <1>6. OneSelect(diff) \in BOOLEAN
    BY DEF OneSelect
  <1>. HIDE DEF acc, flushed, sqls, added
  <1>7. CASE None(acc) /\ added = {}
    <2>1. sqls = <<>>
      BY <1>3, <1>4, <1>7 DEF None
    <2>2. ~OneSelect(diff)
      BY <1>7 DEF OneSelect, added
    <2>. QED BY <1>5, <1>6, <2>1, <2>2
  <1>8. ASSUME NEW k, Single(acc, diff[k]), added = {k}
        PROVE  /\ (Rejection(diff) = "") = OneSelect(diff)
               /\ Rejection(diff) \in {"", "sql_admission_rejected"}
    <2>1. sqls = <<<<diff[k]>>>>
      <3>1. Single(flushed, diff[k]) /\ <<diff[k]>> # <<>>
        BY <1>4, <1>8
      <3>. QED BY <1>3, <3>1 DEF Single
    <2>2. sqls # <<>> /\ DOMAIN sqls = {1} /\ sqls[1] = <<diff[k]>> /\ Len(sqls) = 1
      BY <2>1
    <2>3. Rejection(diff) = IF ~Admit(<<diff[k]>>) THEN "sql_admission_rejected" ELSE ""
      BY <1>5, <2>2
    <2>4. Admit(<<diff[k]>>) = (diff[k] = "+select")
      BY DEF Admit
    <2>5. OneSelect(diff) = (diff[k] = "+select")
      <3>1. {diff[n] : n \in added} = {diff[k]} /\ Cardinality(added) = 1
        <4>1. Cardinality({k}) = 1
          BY FS_Singleton
        <4>. QED BY <1>8, <4>1
      <3>. QED BY <3>1 DEF OneSelect, added
    <2>. QED BY <2>3, <2>4, <2>5
  <1>9. CASE Several(acc) /\ \E k, l \in added : k # l
    <2>1. ~OneSelect(diff)
      <3>1. ASSUME Cardinality(added) = 1
            PROVE  FALSE
        <4>1. IsFiniteSet(added)
          <5>1. added \in SUBSET (1..Len(diff))
            BY <1>2 DEF AddedUpTo
          <5>2. 1 \in Int /\ Len(diff) \in Int
            OBVIOUS
          <5>3. IsFiniteSet(1..Len(diff))
            BY <5>2, FS_Interval
          <5>. QED BY <5>1, <5>3, FS_Subset
        <4>2. \E x : added = {x}
          BY <3>1, <4>1, FS_Singleton
        <4>. QED BY <1>9, <4>2
      <3>. QED BY <3>1 DEF OneSelect, added
    <2>2. Len(sqls) >= 2 \/ (Len(sqls) >= 1 /\ Len(sqls[1]) >= 2)
      <3>1. Several(flushed) /\ Len(flushed.current) = 0
        BY <1>3, <1>4, <1>9
      <3>. QED BY <1>3, <3>1 DEF Several
    <2>3. Len(sqls) \in Nat /\ DOMAIN sqls = 1..Len(sqls)
      BY <1>3
    <2>4. CASE Len(sqls) # 1
      BY <1>5, <1>6, <2>1, <2>4
    <2>5. CASE Len(sqls) = 1
      <3>1. 1 \in DOMAIN sqls /\ Len(sqls[1]) >= 2
        BY <2>2, <2>3, <2>5
      <3>2. Len(<<"+select">>) = 1
        OBVIOUS
      <3>3. ~Admit(sqls[1])
        <4>1. sqls[1] = <<"+select">> => Len(sqls[1]) = 1
          BY <3>2
        <4>2. sqls[1] # <<"+select">>
          <5>1. Len(sqls[1]) \in Nat /\ Len(sqls[1]) >= 2
            BY <1>3, <3>1
          <5>2. Len(sqls[1]) # 1
            <6>. DEFINE length == Len(sqls[1])
            <6>. HIDE DEF length
            <6>1. length \in Nat /\ length >= 2
              BY <5>1 DEF length
            <6>2. length # 1
              BY <6>1
            <6>. QED BY <6>2 DEF length
          <5>. QED BY <4>1, <5>2
        <4>. QED BY <4>2 DEF Admit
      <3>. QED BY <1>5, <1>6, <2>1, <3>1, <3>3
    <2>. QED BY <2>4, <2>5
  <1>. QED BY <1>1, <1>2, <1>7, <1>8, <1>9 DEF Counted


-----------------------------------------------------------------------------
(* Local review: the inductive invariant *)

ReviewPlaces == Inside \cup {"idle", "end", "gone"}
Replies == {"", "refused", "queue_full", "invalid", "delivery_output_exists",
            "write_failed", "completed", "unavailable"}
Reasons == {"", "no_sql_candidates", "sql_admission_rejected", "multiple_sql_candidates"}
RunReport == [steps: SeqOf(StageFiles, 4), stopped: StageFiles \cup {""}, failed: BOOLEAN,
              reason: Reasons]
File == [by: Reviews, accepted: BOOLEAN, rep: RunReport]
Statements == {<<"+select">>, <<"+drop">>}

Proposals ==
    [at: {"idle", "read", "error"} \cup Outcomes, dir: SUBSET Directories,
     sources: Seq(SUBSET Reviews)]

\* The order in which a review makes its files.
Rank(f) ==
    CASE f = "prepare" -> 0
      [] f = "admission" -> 1
      [] f = "candidate" -> 2
      [] f = "comparison" -> 3
      [] f = "diagnosis" -> 4
      [] f = "summary" -> 5
      [] f = "report" -> 6
      [] f = "comment" -> 7

\* Deliveries have their directories to themselves.
ContestedTyped == contested \subseteq Directories /\ (served => contested = {})

ReviewTypes ==
    /\ opened \subseteq Reviews
    /\ served \in BOOLEAN /\ room \in 1..MaxConcurrent
    /\ place \in [Reviews -> ReviewPlaces]
    /\ ask \in [Reviews -> [dir: Directories \cup {""}, diff: Diffs \cup Statements \cup {<<>>}]]
    /\ \A p \in Reviews : place[p] # "idle" =>
          ask[p].dir \in Directories /\ ask[p].diff \in (IF served THEN Diffs ELSE Statements)
    /\ slots = {p \in Reviews : served /\ place[p] \in Inside}
    /\ IsFiniteSet(slots) /\ Cardinality(slots) <= room
    /\ directories \subseteq Directories
    /\ partial \subseteq Directories \X ReviewFiles
    /\ ContestedTyped
    /\ disk \in [Directories -> [ReviewFiles -> SUBSET File]]
    /\ rep \in [Reviews -> RunReport]
    /\ reply \in [Reviews -> Replies]
    /\ proposal \in Proposals

\* A review may create files: `prepare` of a pipeline claims nothing.
Writing(p) == place[p] \in ReviewFiles \/ (served /\ place[p] = "prepare")
Replied(p) == reply[p] \in {"completed", "unavailable"}
Solo(p) == ask[p].dir \notin contested
FileOf(p, f) == disk[ask[p].dir][f]

\* What the report of a review says before it writes files.
Early(p) ==
    /\ place[p] \in {"idle", "event", "prepare"} => rep[p] = Blank
    /\ place[p] = "make" => rep[p] = [Blank EXCEPT !.reason = Rejection(ask[p].diff)]
    /\ served /\ (Writing(p) \/ Replied(p)) => rep[p].reason = Rejection(ask[p].diff)
    /\ place[p] \in PipelineFiles => rep[p].reason = ""
    /\ ~served => place[p] \notin {"event", "make", "report", "comment"} /\ ~Replied(p)
    /\ Replied(p) => place[p] = "end"
    /\ Replied(p) \/ Writing(p) => ask[p].dir \in directories
    /\ p \in opened => place[p] \in ReviewFiles

\* The file that a review is at, and those after it, have not been written.
Untouched(p) ==
    Solo(p) /\ Writing(p) =>
        \A f \in ReviewFiles : Rank(f) >= Rank(place[p]) /\ (served \/ f \in PipelineFiles) =>
            /\ FileOf(p, f) = {}
            /\ (<<ask[p].dir, f>> \in partial) <=> (f = place[p] /\ p \in opened)

\* The first k stages are on disk, and no others.
StagesOnDisk(d, k) == \A f \in StageFiles : (disk[d][f] # {}) = (Rank(f) <= k)

\* What a run has noted are the stages that are on disk.
Stepped(p) ==
    place[p] \in PipelineFiles =>
        \E k \in 0..4 :
            /\ rep[p].steps = SubSeq(Stages, 1, k) /\ (Solo(p) => StagesOnDisk(ask[p].dir, k))
            /\ place[p] \in StageFiles =>
                  k = Rank(place[p]) - 1 /\ ~rep[p].failed /\ rep[p].stopped = ""
            /\ place[p] = "summary" => k >= 1
            /\ place[p] = "summary" =>
                  IF rep[p].failed THEN rep[p].stopped # "" ELSE rep[p].stopped = "" /\ k = 4

\* The files of the pipeline where a review writes, or has answered, are its own.
OwnFiles(p) ==
    Solo(p) /\ (place[p] \in ReviewFiles \/ Replied(p)) =>
        \A f \in PipelineFiles : \A c \in FileOf(p, f) : c.by = p

\* A run that did not fail left all its files, one that failed did not.
Outcome(p) ==
    Solo(p) /\ (place[p] \in {"report", "comment"} \/ Replied(p)) /\ rep[p].reason = "" =>
        IF rep[p].failed THEN rep[p].stopped # "" \/ \E f \in PipelineFiles : FileOf(p, f) = {}
        ELSE rep[p].stopped = "" /\ \A f \in PipelineFiles : FileOf(p, f) # {}

\* The report and the comment that a delivery is answered with.
Answered(p) ==
    Solo(p) =>
        /\ place[p] = "comment" \/ Replied(p) => FileOf(p, "report") = {Content(p, "report")}
        /\ Replied(p) => /\ FileOf(p, "comment") = FileOf(p, "report")
                         /\ (reply[p] = "completed") = Completed(p)

ReviewKept(p) ==
    Early(p) /\ Untouched(p) /\ Stepped(p) /\ OwnFiles(p) /\ Outcome(p) /\ Answered(p)

\* Where the directory is not contested, nobody else writes where a review
\* writes, or has answered.
OwnDirectories ==
    \A p, q \in Reviews : p # q /\ Solo(p) /\ Writing(p) /\ (Writing(q) \/ Replied(q)) =>
        ask[p].dir # ask[q].dir

\* A file holds one content; the files of a pipeline are of one run.
OneRun(d) ==
    /\ \A f \in ReviewFiles :
          /\ \A c, e \in disk[d][f] : c = e
          /\ <<d, f>> \in partial => disk[d][f] = {}
    /\ \A f, g \in PipelineFiles : \A c \in disk[d][f], e \in disk[d][g] : c.by = e.by

\* A summary lists stages in their order, and those that are there.
Listed(d) ==
    \A s \in disk[d]["summary"] :
       \E k \in 0..4 : /\ s.rep.steps = SubSeq(Stages, 1, k)
                       /\ d \notin contested => StagesOnDisk(d, k)

DirectoryKept(d) ==
    /\ \A f \in ReviewFiles : d \notin directories => disk[d][f] = {} /\ <<d, f>> \notin partial
    /\ d \notin contested => OneRun(d)
    /\ Listed(d)

\* What `propose-candidate` has read is what the files say.
SourcesKept ==
    /\ Len(proposal.sources) <= 4 /\ (proposal.at \in Outcomes => Len(proposal.sources) = 4)
    /\ proposal.at = "idle" => proposal.sources = <<>>
    /\ proposal.at = "read" => \E d \in Directories : proposal.dir = {d}
    /\ proposal.sources # <<>> =>
          \E d \in Directories :
              /\ proposal.dir = {d}
              /\ d \notin contested =>
                    \A n \in 1..Len(proposal.sources) :
                       /\ disk[d][Stages[n]] # {}
                       /\ proposal.sources[n] = {c.by : c \in disk[d][Stages[n]]}

ReviewInv ==
    /\ ReviewTypes /\ OwnDirectories /\ SourcesKept
    /\ \A p \in Reviews : ReviewKept(p)
    /\ \A d \in Directories : DirectoryKept(d)

\* The names of files and places, one by one.
LEMMA TheFiles ==
    /\ Stages = <<"admission", "candidate", "comparison", "diagnosis">>
    /\ StageFiles = {"admission", "candidate", "comparison", "diagnosis"}
    /\ PipelineFiles = {"admission", "candidate", "comparison", "diagnosis", "summary"}
    /\ ReviewFiles = {"admission", "candidate", "comparison", "diagnosis", "summary",
                      "report", "comment"}
    /\ Inside = {"event", "make", "prepare", "admission", "candidate", "comparison",
                 "diagnosis", "summary", "report", "comment"}
  <1>1. Stages = <<"admission", "candidate", "comparison", "diagnosis">>
    BY DEF Stages
  <1>2. DOMAIN Stages = 1..4 /\ 1..4 = {1, 2, 3, 4}
    BY <1>1
  <1>3. StageFiles = {"admission", "candidate", "comparison", "diagnosis"}
    <2>1. StageFiles = {Stages[n] : n \in {1, 2, 3, 4}}
      BY <1>2 DEF StageFiles, ToSet
    <2>. QED BY <1>1, <2>1
  <1>. QED BY <1>1, <1>3 DEF PipelineFiles, ReviewFiles, Inside

LEMMA Ranks ==
    /\ Rank("prepare") = 0 /\ Rank("admission") = 1 /\ Rank("candidate") = 2
    /\ Rank("comparison") = 3 /\ Rank("diagnosis") = 4 /\ Rank("summary") = 5
    /\ Rank("report") = 6 /\ Rank("comment") = 7
  BY DEF Rank

\* The stages up to the kth, as a list and as a set.
LEMMA StagesUpTo ==
    ASSUME NEW k \in 0..4
    PROVE  /\ SubSeq(Stages, 1, k) \in SeqOf(StageFiles, 4)
           /\ Len(SubSeq(Stages, 1, k)) = k
           /\ k < 4 => SubSeq(Stages, 1, k + 1) = Append(SubSeq(Stages, 1, k), Stages[k + 1])
           /\ ToSet(SubSeq(Stages, 1, k)) = {f \in StageFiles : Rank(f) <= k}
  <1>. DEFINE s == SubSeq(Stages, 1, k)
  <1>1. Stages \in Seq(StageFiles) /\ Len(Stages) = 4
    BY TheFiles
  <1>2. /\ s \in Seq(StageFiles) /\ Len(s) = k /\ DOMAIN s = 1..k
        /\ \A n \in 1..k : s[n] = Stages[n]
    <2>1. k \in Int /\ 0 <= k /\ k <= Len(Stages)
      BY <1>1
    <2>2. Len(s) = k
      BY <1>1, <2>1
    <2>3. s \in Seq(StageFiles)
      BY <1>1, <2>1
    <2>4. \A n \in 1..k : s[n] = Stages[n]
      BY <1>1, <2>1
    <2>5. DOMAIN s = 1..k
      <3>. HIDE DEF s
      <3>. QED BY <2>2, <2>3
    <2>. QED BY <2>2, <2>3, <2>4, <2>5
  <1>3. s \in SeqOf(StageFiles, 4)
    <2>1. s \in [1..k -> StageFiles]
      <3>. HIDE DEF s
      <3>. QED BY <1>2
    <2>. QED BY <2>1 DEF SeqOf
  <1>4. k < 4 => SubSeq(Stages, 1, k + 1) = Append(s, Stages[k + 1])
    BY <1>1
  <1>5. ToSet(s) = {f \in StageFiles : Rank(f) <= k}
    <2>1. \A n \in 1..4 : Stages[n] \in StageFiles /\ Rank(Stages[n]) = n
      BY TheFiles, Ranks
    <2>2. \A f \in StageFiles : \E n \in 1..4 : f = Stages[n]
      BY TheFiles
    <2>3. ToSet(s) = {s[n] : n \in 1..k}
      BY <1>2 DEF ToSet
    <2>. HIDE DEF s
    <2>4. 1..k \subseteq 1..4 /\ \A n \in 1..4 : n <= k => n \in 1..k
      OBVIOUS
    <2>5. ToSet(s) \subseteq {f \in StageFiles : Rank(f) <= k}
      BY <1>2, <2>1, <2>3, <2>4
    <2>6. {f \in StageFiles : Rank(f) <= k} \subseteq ToSet(s)
      BY <1>2, <2>1, <2>2, <2>3, <2>4
    <2>. QED BY <2>5, <2>6
  <1>. QED BY <1>2, <1>3, <1>4, <1>5

LEMMA StageAfter ==
    \A f \in StageFiles : Rank(f) \in 1..4 /\ Stages[Rank(f)] = f
  BY TheFiles, Ranks

\* A review that is over, and was not answered with files, has nothing to keep.
LEMMA ReviewOver ==
    ASSUME NEW p \in Reviews, place'[p] \in {"end", "gone"}, ~Replied(p)', p \notin opened'
    PROVE  ReviewKept(p)'
  <1>1. ~Writing(p)' /\ place'[p] \notin ReviewFiles /\ place'[p] \notin PipelineFiles
    BY TheFiles DEF Writing
  <1>2. Early(p)'
    BY <1>1 DEF Early
  <1>. QED BY <1>1, <1>2, TheFiles
     DEF ReviewKept, Untouched, Stepped, OwnFiles, Outcome, Answered

\* A review that does not move keeps what it has when its files stay.
LEMMA ReviewStays ==
    ASSUME NEW q \in Reviews, ReviewKept(q), served' = served, place'[q] = place[q],
           ask'[q] = ask[q], rep'[q] = rep[q], reply'[q] = reply[q],
           (q \in opened') <=> (q \in opened), contested \subseteq contested',
           directories \subseteq directories',
           Solo(q)' /\ (Writing(q) \/ Replied(q)) =>
              \A f \in ReviewFiles :
                 /\ disk'[ask[q].dir][f] = disk[ask[q].dir][f]
                 /\ (<<ask[q].dir, f>> \in partial') <=> (<<ask[q].dir, f>> \in partial)
    PROVE  ReviewKept(q)'
  <1>1. /\ Writing(q)' = Writing(q) /\ Replied(q)' = Replied(q)
        /\ Solo(q)' => Solo(q)
    BY DEF Writing, Replied, Solo
  <1>2. Early(q)'
    BY <1>1 DEF ReviewKept, Early
  <1>3. CASE ~Writing(q) /\ ~Replied(q)
    <2>1. place[q] \notin ReviewFiles
      BY <1>3 DEF Writing
    <2>. QED BY <1>1, <1>2, <1>3, <2>1, TheFiles
         DEF ReviewKept, Untouched, Stepped, OwnFiles, Outcome, Answered
  <1>4. CASE ~Solo(q)'
    <2>1. Untouched(q)' /\ OwnFiles(q)' /\ Outcome(q)' /\ Answered(q)'
      BY <1>4 DEF Untouched, OwnFiles, Outcome, Answered
    <2>2. Stepped(q)'
      BY <1>4 DEF ReviewKept, Stepped
    <2>. QED BY <1>2, <2>1, <2>2 DEF ReviewKept
  <1>5. CASE Solo(q)' /\ (Writing(q) \/ Replied(q))
    <2>1. \A f \in ReviewFiles :
             /\ FileOf(q, f)' = FileOf(q, f)
             /\ (<<ask'[q].dir, f>> \in partial') <=> (<<ask[q].dir, f>> \in partial)
      BY <1>5 DEF FileOf
    <2>2. StageFiles \subseteq PipelineFiles /\ PipelineFiles \subseteq ReviewFiles
          /\ "report" \in ReviewFiles /\ "comment" \in ReviewFiles
      BY TheFiles
    <2>3. Untouched(q)'
      BY <1>1, <2>1 DEF ReviewKept, Untouched
    <2>4. Stepped(q)'
      <3>1. \A k : StagesOnDisk(ask[q].dir, k)' = StagesOnDisk(ask[q].dir, k)
        BY <2>1, <2>2 DEF StagesOnDisk, FileOf
      <3>. QED BY <1>1, <1>5, <3>1 DEF ReviewKept, Stepped, StagesOnDisk
    <2>5. OwnFiles(q)'
      BY <1>1, <1>5, <2>1, <2>2 DEF ReviewKept, OwnFiles
    <2>6. Outcome(q)'
      BY <1>1, <1>5, <2>1, <2>2 DEF ReviewKept, Outcome
    <2>7. Answered(q)'
      <3>1. Content(q, "report")' = Content(q, "report") /\ Completed(q)' = Completed(q)
        BY DEF Content, Completed
      <3>. QED BY <1>1, <1>5, <2>1, <2>2, <3>1 DEF ReviewKept, Answered
    <2>. QED BY <1>2, <2>3, <2>4, <2>5, <2>6, <2>7 DEF ReviewKept
  <1>. QED BY <1>3, <1>4, <1>5

\* So does a directory where nothing changes.
LEMMA DirectoryStays ==
    ASSUME NEW d \in Directories, DirectoryKept(d), directories \subseteq directories',
           contested \subseteq contested',
           \A f \in ReviewFiles :
              /\ disk'[d][f] = disk[d][f]
              /\ (<<d, f>> \in partial') <=> (<<d, f>> \in partial)
    PROVE  DirectoryKept(d)'
  <1>1. StageFiles \subseteq PipelineFiles /\ PipelineFiles \subseteq ReviewFiles
        /\ "summary" \in ReviewFiles
    BY TheFiles
  <1>2. \A k : StagesOnDisk(d, k)' = StagesOnDisk(d, k)
    BY <1>1 DEF StagesOnDisk
  <1>3. disk'[d]["summary"] = disk[d]["summary"] /\ (d \notin contested' => d \notin contested)
    BY <1>1
  <1>4. Listed(d)'
    <2>1. \A s \in disk'[d]["summary"] :
             \E k \in 0..4 : /\ s.rep.steps = SubSeq(Stages, 1, k)
                             /\ d \notin contested' => StagesOnDisk(d, k)'
      BY <1>2, <1>3 DEF DirectoryKept, Listed
    <2>. QED BY <2>1 DEF Listed, StagesOnDisk
  <1>5. \A f \in ReviewFiles : d \notin directories' => disk'[d][f] = {} /\ <<d, f>> \notin partial'
    BY DEF DirectoryKept
  <1>6. OneRun(d)' = OneRun(d)
    <2>1. \A f \in PipelineFiles : disk'[d][f] = disk[d][f]
      BY <1>1
    <2>. QED BY <2>1 DEF OneRun
  <1>. QED BY <1>3, <1>4, <1>5, <1>6 DEF DirectoryKept

-----------------------------------------------------------------------------
(* Local review: one review moves *)

OnlyMoves(p) ==
    /\ served' = served /\ room' = room /\ proposal' = proposal
    /\ directories \subseteq directories' /\ contested \subseteq contested'
    /\ \A q \in Reviews : q # p =>
          /\ place'[q] = place[q] /\ ask'[q] = ask[q] /\ rep'[q] = rep[q] /\ reply'[q] = reply[q]
          /\ (q \in opened') <=> (q \in opened)

\* Nobody else is where p writes, or has answered, after its step.
StaysAlone(p) ==
    Solo(p)' /\ (Writing(p)' \/ Replied(p)') =>
        \A q \in Reviews : q # p /\ (Writing(q) \/ Replied(q)) => ask'[p].dir # ask[q].dir

\* A file of another directory stays, and so does every one that is not empty,
\* where the directory is not contested.
WritesInside(d) ==
    \A e \in Directories, f \in ReviewFiles :
        /\ e # d => /\ disk'[e][f] = disk[e][f]
                    /\ (<<e, f>> \in partial') <=> (<<e, f>> \in partial)
        /\ e \notin contested' /\ disk[e][f] # {} => disk'[e][f] = disk[e][f]

LEMMA SourcesStay ==
    ASSUME SourcesKept, proposal' = proposal, contested \subseteq contested',
           \A e \in Directories, f \in ReviewFiles :
              e \notin contested' /\ disk[e][f] # {} => disk'[e][f] = disk[e][f]
    PROVE  SourcesKept'
  <1>1. CASE proposal.sources = <<>>
    BY <1>1 DEF SourcesKept
  <1>2. CASE proposal.sources # <<>>
    <2>1. PICK d \in Directories :
             /\ proposal.dir = {d}
             /\ d \notin contested =>
                   \A n \in 1..Len(proposal.sources) :
                      /\ disk[d][Stages[n]] # {}
                      /\ proposal.sources[n] = {c.by : c \in disk[d][Stages[n]]}
      BY <1>2 DEF SourcesKept
    <2>2. \A n \in 1..Len(proposal.sources) : Stages[n] \in ReviewFiles
      <3>1. \A n \in 1..Len(proposal.sources) : n \in 1..4
        BY DEF SourcesKept
      <3>. QED BY <3>1, TheFiles
    <2>3. ASSUME d \notin contested', NEW n \in 1..Len(proposal'.sources)
          PROVE  /\ disk'[d][Stages[n]] # {}
                 /\ proposal'.sources[n] = {c.by : c \in disk'[d][Stages[n]]}
      <3>1. /\ disk[d][Stages[n]] # {} /\ Stages[n] \in ReviewFiles
            /\ proposal.sources[n] = {c.by : c \in disk[d][Stages[n]]}
        BY <2>1, <2>2, <2>3
      <3>2. disk'[d][Stages[n]] = disk[d][Stages[n]]
        BY <2>3, <3>1
      <3>. QED BY <3>1, <3>2
    <2>. QED BY <2>1, <2>3 DEF SourcesKept
  <1>. QED BY <1>1, <1>2

LEMMA AloneStays ==
    ASSUME OwnDirectories, NEW p \in Reviews, OnlyMoves(p), StaysAlone(p)
    PROVE  OwnDirectories'
  <1>1. \A q \in Reviews : q # p =>
           Writing(q)' = Writing(q) /\ Replied(q)' = Replied(q) /\ ask'[q] = ask[q]
    BY DEF OnlyMoves, Writing, Replied
  <1>2. ASSUME NEW q \in Reviews, NEW r \in Reviews, q # r,
               Solo(q)', Writing(q)', Writing(r)' \/ Replied(r)'
        PROVE  ask'[q].dir # ask'[r].dir
    <2>1. CASE q = p
      BY <1>1, <1>2, <2>1 DEF StaysAlone
    <2>2. CASE r = p
      <3>1. SUFFICES ASSUME ask'[q].dir = ask'[r].dir PROVE FALSE
        OBVIOUS
      <3>2. Solo(p)'
        BY <1>2, <2>2, <3>1 DEF Solo
      <3>. QED BY <1>1, <1>2, <2>2, <3>1, <3>2 DEF StaysAlone
    <2>3. CASE q # p /\ r # p
      <3>1. Solo(q)
        BY <1>1, <1>2, <2>3 DEF Solo, OnlyMoves
      <3>. QED BY <1>1, <1>2, <2>3, <3>1 DEF OwnDirectories
    <2>. QED BY <2>1, <2>2, <2>3
  <1>. QED BY <1>2 DEF OwnDirectories

\* A step of p, which has files to write at most where it writes, keeps the
\* invariant when it keeps what concerns p and its directory.
LEMMA ReviewMoves ==
    ASSUME ReviewInv, NEW p \in Reviews, OnlyMoves(p), StaysAlone(p), ReviewTypes',
           ReviewKept(p)', Writing(p), WritesInside(ask[p].dir),
           \A d \in Directories : d = ask[p].dir => DirectoryKept(d)'
    PROVE  ReviewInv'
  <1>1. ASSUME NEW q \in Reviews
        PROVE  ReviewKept(q)'
    <2>1. CASE q = p
      BY <2>1
    <2>2. CASE q # p
      <3>1. Solo(q)' /\ (Writing(q) \/ Replied(q)) =>
               ask[q].dir # ask[p].dir /\ ask[q].dir \in Directories
        <4>1. ASSUME Writing(q) \/ Replied(q)
              PROVE  place[q] # "idle"
          BY <4>1, TheFiles DEF ReviewInv, ReviewKept, Early, Writing
        <4>2. ASSUME Solo(q)', ask[q].dir = ask[p].dir
              PROVE  Solo(p)
          BY <2>2, <4>2 DEF Solo, OnlyMoves
        <4>. QED BY <2>2, <4>1, <4>2 DEF ReviewInv, OwnDirectories, ReviewTypes
      <3>2. Solo(q)' /\ (Writing(q) \/ Replied(q)) =>
               \A f \in ReviewFiles :
                  /\ disk'[ask[q].dir][f] = disk[ask[q].dir][f]
                  /\ (<<ask[q].dir, f>> \in partial') <=> (<<ask[q].dir, f>> \in partial)
        BY <3>1 DEF WritesInside
      <3>3. /\ served' = served /\ place'[q] = place[q] /\ ask'[q] = ask[q]
            /\ rep'[q] = rep[q] /\ reply'[q] = reply[q] /\ directories \subseteq directories'
            /\ ((q \in opened') <=> (q \in opened)) /\ contested \subseteq contested'
        BY <2>2 DEF OnlyMoves
      <3>4. ReviewKept(q)
        BY DEF ReviewInv
      <3>. QED BY <3>2, <3>3, <3>4, ReviewStays
    <2>. QED BY <2>1, <2>2
  <1>2. ASSUME NEW d \in Directories
        PROVE  DirectoryKept(d)'
    <2>1. CASE d = ask[p].dir
      BY <2>1
    <2>2. CASE d # ask[p].dir
      BY <2>2, DirectoryStays DEF ReviewInv, WritesInside, OnlyMoves
    <2>. QED BY <2>1, <2>2
  <1>3. OwnDirectories'
    BY AloneStays DEF ReviewInv
  <1>4. SourcesKept'
    BY SourcesStay DEF ReviewInv, OnlyMoves, WritesInside
  <1>. QED BY <1>1, <1>2, <1>3, <1>4 DEF ReviewInv

\* And so does a step that writes no file.
LEMMA ReviewMovesOnly ==
    ASSUME ReviewInv, NEW p \in Reviews, OnlyMoves(p), StaysAlone(p), ReviewTypes',
           ReviewKept(p)', UNCHANGED <<disk, partial>>
    PROVE  ReviewInv'
  <1>1. ASSUME NEW q \in Reviews
        PROVE  ReviewKept(q)'
    <2>1. CASE q = p
      BY <2>1
    <2>2. CASE q # p
      BY <2>2, ReviewStays DEF OnlyMoves, ReviewInv
    <2>. QED BY <2>1, <2>2
  <1>2. \A d \in Directories : DirectoryKept(d)'
    BY DirectoryStays DEF ReviewInv, OnlyMoves
  <1>3. OwnDirectories'
    BY AloneStays DEF ReviewInv
  <1>4. SourcesKept'
    BY SourcesStay DEF ReviewInv, OnlyMoves
  <1>. QED BY <1>1, <1>2, <1>3, <1>4 DEF ReviewInv

\* The semaphore holds the deliveries that are handled, before and after.
SlotsKept ==
    /\ slots = {p \in Reviews : served /\ place[p] \in Inside}
    /\ IsFiniteSet(slots) /\ Cardinality(slots) <= room

LEMMA RoomIsNumber ==
    ASSUME ReviewTypes
    PROVE  room \in Nat
  <1>1. MaxConcurrent \in Nat /\ room \in 1..MaxConcurrent
    BY ReviewAssumption DEF ReviewTypes
  <1>. QED BY <1>1

LEMMA SlotsStay ==
    ASSUME ReviewTypes, NEW p \in Reviews, NEW next, GoesTo(p, next),
           served' = served, room' = room, slots' = slots,
           served => (next \in Inside <=> place[p] \in Inside)
    PROVE  SlotsKept'
  <1>1. \A q \in Reviews : place'[q] = IF q = p THEN next ELSE place[q]
    BY DEF GoesTo, ReviewTypes
  <1>2. slots' = {q \in Reviews : served' /\ place'[q] \in Inside}
    BY <1>1 DEF ReviewTypes
  <1>. QED BY <1>2 DEF SlotsKept, ReviewTypes

LEMMA SlotsFreed ==
    ASSUME ReviewTypes, NEW p \in Reviews, GoesTo(p, "end"),
           served' = served, room' = room, slots' = slots \ {p}
    PROVE  SlotsKept'
  <1>1. \A q \in Reviews : place'[q] = IF q = p THEN "end" ELSE place[q]
    BY DEF GoesTo, ReviewTypes
  <1>2. slots' = {q \in Reviews : served' /\ place'[q] \in Inside}
    BY <1>1, TheFiles DEF ReviewTypes
  <1>3. slots' \in SUBSET slots
    OBVIOUS
  <1>4. IsFiniteSet(slots) /\ Cardinality(slots) <= room /\ room \in Nat
    BY RoomIsNumber DEF ReviewTypes
  <1>5. IsFiniteSet(slots') /\ Cardinality(slots') <= Cardinality(slots)
    BY <1>3, <1>4, FS_Subset
  <1>6. Cardinality(slots) \in Nat /\ Cardinality(slots') \in Nat
    BY <1>4, <1>5, FS_CardinalityType
  <1>. QED BY <1>2, <1>4, <1>5, <1>6 DEF SlotsKept

LEMMA SlotsTaken ==
    ASSUME ReviewTypes, NEW p \in Reviews, NEW next \in Inside, GoesTo(p, next), served,
           served' = served, room' = room, slots' = slots \cup {p}, Cardinality(slots) < room,
           place[p] = "idle"
    PROVE  SlotsKept'
  <1>1. \A q \in Reviews : place'[q] = IF q = p THEN next ELSE place[q]
    BY DEF GoesTo, ReviewTypes
  <1>2. slots' = {q \in Reviews : served' /\ place'[q] \in Inside}
    BY <1>1 DEF ReviewTypes
  <1>3. IsFiniteSet(slots) /\ room \in Nat /\ p \notin slots
    <2>1. "idle" \notin Inside
      BY TheFiles
    <2>. QED BY <2>1, RoomIsNumber DEF ReviewTypes
  <1>4. IsFiniteSet(slots') /\ Cardinality(slots') = Cardinality(slots) + 1
    BY <1>3, FS_AddElement
  <1>5. Cardinality(slots) \in Nat
    BY <1>3, FS_CardinalityType
  <1>. QED BY <1>2, <1>3, <1>4, <1>5 DEF SlotsKept

\* A review that moves on keeps the types, and so does what it writes.
LEMMA TypesOfWrite ==
    ASSUME ReviewTypes, NEW p \in Reviews, NEW next \in ReviewPlaces, GoesTo(p, next),
           place[p] # "idle", next # "idle", SlotsKept',
           directories' \subseteq Directories, contested' \subseteq Directories,
           served => contested' = {}, opened' \subseteq opened,
           rep' \in [Reviews -> RunReport], reply' \in [Reviews -> Replies],
           disk' \in [Directories -> [ReviewFiles -> SUBSET File]],
           partial' \subseteq Directories \X ReviewFiles,
           UNCHANGED <<served, room, ask, proposal>>
    PROVE  ReviewTypes'
  <1>1. place' \in [Reviews -> ReviewPlaces] /\ \A q \in Reviews : place'[q] # "idle" => place[q] # "idle"
    BY DEF GoesTo, ReviewTypes
  <1>2. ask' = ask /\ served' = served
    OBVIOUS
  <1>3. \A q \in Reviews : place'[q] # "idle" =>
           ask'[q].dir \in Directories /\ ask'[q].diff \in (IF served' THEN Diffs ELSE Statements)
    <2>1. \A q \in Reviews : place[q] # "idle" =>
             ask[q].dir \in Directories /\ ask[q].diff \in (IF served THEN Diffs ELSE Statements)
      BY DEF ReviewTypes
    <2>. QED BY <1>1, <1>2, <2>1
  <1>. QED BY <1>1, <1>3 DEF ReviewTypes, ContestedTyped, SlotsKept

LEMMA TypesOfMove ==
    ASSUME ReviewTypes, NEW p \in Reviews, NEW next \in ReviewPlaces, GoesTo(p, next),
           place[p] # "idle", next # "idle", SlotsKept',
           directories' \subseteq Directories, contested' \subseteq Directories,
           served => contested' = {}, opened' \subseteq opened,
           rep' \in [Reviews -> RunReport], reply' \in [Reviews -> Replies],
           UNCHANGED <<served, room, ask, disk, partial, proposal>>
    PROVE  ReviewTypes'
  <1>1. /\ disk' \in [Directories -> [ReviewFiles -> SUBSET File]]
        /\ partial' \subseteq Directories \X ReviewFiles
    BY DEF ReviewTypes
  <1>. QED BY <1>1, TypesOfWrite

LEMMA DeliverStep ==
    ASSUME ReviewInv, NEW p \in Reviews, NEW d \in Directories, NEW diff \in Diffs,
           Deliver(p, d, diff)
    PROVE  ReviewInv'
  <1>1. /\ served /\ place[p] = "idle" /\ ask' = [ask EXCEPT ![p] = [dir |-> d, diff |-> diff]]
        /\ UNCHANGED <<served, room, directories, disk, partial, opened, contested, rep, proposal>>
    BY DEF Deliver
  <1>2. ReviewTypes /\ ReviewKept(p)
    BY DEF ReviewInv
  <1>3. ~Replied(p) /\ rep[p] = Blank /\ p \notin opened'
    BY <1>1, <1>2, TheFiles DEF ReviewKept, Early
  <1>4. PICK next \in {"event", "end"} :
           /\ GoesTo(p, next) /\ SlotsKept'
           /\ \A q \in Reviews : q # p => reply'[q] = reply[q]
           /\ reply' \in [Reviews -> Replies] /\ reply'[p] \notin {"completed", "unavailable"}
    <2>1. ASSUME NEW told \in {"refused", "queue_full"}, Answers(p, told)
          PROVE  /\ GoesTo(p, "end") /\ SlotsKept'
                 /\ \A q \in Reviews : q # p => reply'[q] = reply[q]
                 /\ reply' \in [Reviews -> Replies]
                 /\ reply'[p] \notin {"completed", "unavailable"}
      <3>1. GoesTo(p, "end") /\ SlotsKept'
        BY <1>1, <1>2, <2>1, SlotsFreed DEF Answers
      <3>2. reply' = [reply EXCEPT ![p] = told] /\ told \in Replies
        BY <2>1 DEF Answers, Replies
      <3>. QED BY <1>2, <3>1, <3>2 DEF ReviewTypes
    <2>2. ASSUME Cardinality(slots) < room, slots' = slots \cup {p}, GoesTo(p, "event"),
                 UNCHANGED reply
          PROVE  SlotsKept'
      <3>1. "event" \in Inside
        BY TheFiles
      <3>. QED BY <1>1, <1>2, <2>2, <3>1, SlotsTaken
    <2>3. reply[p] \notin {"completed", "unavailable"} /\ reply \in [Reviews -> Replies]
      BY <1>2, <1>3 DEF Replied, ReviewTypes
    <2>. QED BY <2>1, <2>2, <2>3 DEF Deliver
  <1>5. place' = [place EXCEPT ![p] = next] /\ place'[p] = next
    BY <1>2, <1>4 DEF GoesTo, ReviewTypes
  <1>6. /\ ~Replied(p)' /\ ~Writing(p)' /\ place'[p] \notin ReviewFiles
        /\ place'[p] \notin {"idle", "make", "prepare"}
    BY <1>4, <1>5, TheFiles DEF Replied, Writing
  <1>7. ReviewTypes'
    <2>1. place' \in [Reviews -> ReviewPlaces]
      BY <1>2, <1>5, TheFiles DEF ReviewTypes, ReviewPlaces
    <2>2. /\ ask' \in [Reviews -> [dir: Directories \cup {""}, diff: Diffs \cup Statements \cup {<<>>}]]
          /\ ask'[p] = [dir |-> d, diff |-> diff] /\ \A q \in Reviews : q # p => ask'[q] = ask[q]
      BY <1>1, <1>2 DEF ReviewTypes
    <2>3. ASSUME NEW q \in Reviews, place'[q] # "idle"
          PROVE  /\ ask'[q].dir \in Directories
                 /\ ask'[q].diff \in (IF served' THEN Diffs ELSE Statements)
      BY <1>1, <1>2, <1>5, <2>2, <2>3 DEF ReviewTypes
    <2>. QED BY <1>1, <1>2, <1>4, <2>1, <2>2, <2>3 DEF ReviewTypes, ContestedTyped, SlotsKept
  <1>8. OnlyMoves(p) /\ StaysAlone(p)
    BY <1>1, <1>2, <1>4, <1>5, <1>6 DEF OnlyMoves, StaysAlone, ReviewTypes
  <1>9. ReviewKept(p)'
    <2>1. Early(p)'
      BY <1>1, <1>3, <1>6, TheFiles DEF Early
    <2>. QED BY <1>6, <2>1, TheFiles
         DEF ReviewKept, Untouched, Stepped, OwnFiles, Outcome, Answered
  <1>. QED BY <1>1, <1>7, <1>8, <1>9, ReviewMovesOnly

\* A review that is answered without files has nothing more to keep.
LEMMA RefusedStep ==
    ASSUME ReviewInv, NEW p \in Reviews, place[p] \in Inside,
           NEW told \in {"invalid", "delivery_output_exists", "write_failed"},
           Answers(p, told), opened' = opened \ {p},
           UNCHANGED <<served, room, ask, directories, disk, partial, contested, rep, proposal>>
    PROVE  ReviewInv'
  <1>1. ReviewTypes /\ place[p] # "idle"
    BY TheFiles DEF ReviewInv
  <1>2. GoesTo(p, "end") /\ SlotsKept' /\ reply' = [reply EXCEPT ![p] = told]
    BY <1>1, SlotsFreed DEF Answers
  <1>3. place' = [place EXCEPT ![p] = "end"] /\ place'[p] = "end"
    BY <1>1, <1>2 DEF GoesTo, ReviewTypes
  <1>4. reply' \in [Reviews -> Replies] /\ ~Replied(p)' /\ ~Writing(p)'
    BY <1>1, <1>2, <1>3, TheFiles DEF Replies, ReviewTypes, Replied, Writing
  <1>5. ReviewTypes'
    <2>1. /\ "end" \in ReviewPlaces /\ rep \in [Reviews -> RunReport]
          /\ directories \subseteq Directories /\ ContestedTyped
      BY <1>1 DEF ReviewPlaces, ReviewTypes
    <2>. QED BY <1>1, <1>2, <1>4, <2>1, TypesOfMove DEF ContestedTyped
  <1>6. OnlyMoves(p) /\ StaysAlone(p)
    BY <1>1, <1>2, <1>3, <1>4 DEF OnlyMoves, StaysAlone, ReviewTypes
  <1>7. ReviewKept(p)'
    BY <1>3, <1>4, ReviewOver
  <1>. QED BY <1>5, <1>6, <1>7, ReviewMovesOnly

LEMMA HandleStep ==
    ASSUME ReviewInv, NEW p \in Reviews, Handle(p)
    PROVE  ReviewInv'
  <1>1. /\ place[p] = "event"
        /\ UNCHANGED <<served, room, ask, directories, disk, partial, opened, contested, proposal>>
    BY DEF Handle
  <1>2. ReviewTypes /\ ReviewKept(p)
    BY DEF ReviewInv
  <1>3. served /\ ~Replied(p) /\ rep[p] = Blank /\ ask[p].diff \in Diffs /\ p \notin opened
    BY <1>1, <1>2, TheFiles DEF ReviewKept, Early, ReviewTypes
  <1>4. CASE Answers(p, "invalid") /\ UNCHANGED rep
    <2>1. place[p] \in Inside /\ opened' = opened \ {p}
      BY <1>1, <1>3, TheFiles
    <2>. QED BY <1>1, <1>4, <2>1, RefusedStep
  <1>5. CASE /\ GoesTo(p, "make") /\ UNCHANGED <<slots, reply>>
             /\ rep' = [rep EXCEPT ![p].reason = Rejection(ask[p].diff)]
    <2>1. place' = [place EXCEPT ![p] = "make"] /\ place'[p] = "make"
      BY <1>2, <1>5 DEF GoesTo, ReviewTypes
    <2>2. /\ rep'[p] = [Blank EXCEPT !.reason = Rejection(ask[p].diff)]
          /\ \A q \in Reviews : q # p => rep'[q] = rep[q]
      BY <1>2, <1>3, <1>5 DEF ReviewTypes
    <2>3. ~Replied(p)' /\ ~Writing(p)' /\ place'[p] \notin ReviewFiles
      BY <1>3, <1>5, <2>1, TheFiles DEF Replied, Writing
    <2>4. rep' \in [Reviews -> RunReport]
      <3>1. Rejection(ask[p].diff) \in Reasons
        <4>1. ask[p].diff \in Seq(STRING)
          BY <1>3, ReviewAssumption
        <4>2. Len(ask[p].diff) \in Nat /\ DOMAIN ask[p].diff = 1..Len(ask[p].diff)
          BY <4>1
        <4>. QED BY <4>2, RejectionIsRight DEF Reasons
      <3>2. [rep[p] EXCEPT !.reason = Rejection(ask[p].diff)] \in RunReport
        BY <1>2, <3>1 DEF ReviewTypes, RunReport
      <3>. QED BY <1>2, <1>5, <3>2 DEF ReviewTypes
    <2>5. ReviewTypes'
      <3>1. "make" \in ReviewPlaces /\ "make" \in Inside /\ place[p] \in Inside
        BY <1>1, TheFiles DEF ReviewPlaces
      <3>2. SlotsKept'
        BY <1>1, <1>2, <1>5, <3>1, SlotsStay
      <3>3. /\ reply' \in [Reviews -> Replies] /\ directories' \subseteq Directories
            /\ contested' \subseteq Directories /\ (served => contested' = {})
        BY <1>1, <1>2, <1>5 DEF ReviewTypes, ContestedTyped
      <3>. QED BY <1>1, <1>2, <1>5, <2>4, <3>1, <3>2, <3>3, TypesOfMove
    <2>6. OnlyMoves(p) /\ StaysAlone(p)
      BY <1>1, <1>2, <1>5, <2>1, <2>2, <2>3 DEF OnlyMoves, StaysAlone, ReviewTypes
    <2>7. ReviewKept(p)'
      <3>1. Early(p)'
        <4>1. /\ place'[p] \notin PipelineFiles /\ served' /\ ask'[p] = ask[p]
              /\ p \notin opened'
          BY <1>1, <1>3, <2>1, TheFiles
        <4>2. rep'[p] = [Blank EXCEPT !.reason = Rejection(ask'[p].diff)]
          BY <2>2, <4>1
        <4>. QED BY <2>1, <2>3, <4>1, <4>2 DEF Early
      <3>. QED BY <2>3, <3>1, TheFiles
           DEF ReviewKept, Untouched, Stepped, OwnFiles, Outcome, Answered
    <2>. QED BY <1>1, <2>5, <2>6, <2>7, ReviewMovesOnly
  <1>. QED BY <1>4, <1>5 DEF Handle

LEMMA CreateDeliveryDirStep ==
    ASSUME ReviewInv, NEW p \in Reviews, CreateDeliveryDir(p)
    PROVE  ReviewInv'
  <1>1. /\ place[p] = "make"
        /\ UNCHANGED <<served, room, ask, disk, partial, opened, contested, rep, proposal>>
    BY DEF CreateDeliveryDir
  <1>2. ReviewTypes /\ ReviewKept(p) /\ \A d \in Directories : DirectoryKept(d)
    BY DEF ReviewInv
  <1>3. /\ served /\ ~Replied(p) /\ ask[p].dir \in Directories
        /\ rep[p] = [Blank EXCEPT !.reason = Rejection(ask[p].diff)]
        /\ p \notin opened /\ contested = {}
    BY <1>1, <1>2, TheFiles DEF ReviewKept, Early, ReviewTypes, ContestedTyped
  <1>4. place[p] \in Inside /\ opened' = opened \ {p}
    BY <1>1, <1>3, TheFiles
  <1>5. ASSUME NEW told \in {"delivery_output_exists", "write_failed"}, Answers(p, told),
               UNCHANGED directories
        PROVE  ReviewInv'
    BY <1>1, <1>4, <1>5, RefusedStep
  <1>6. ASSUME ask[p].dir \notin directories, directories' = directories \cup {ask[p].dir},
               GoesTo(p, IF rep[p].reason = "" THEN "prepare" ELSE "report"),
               UNCHANGED <<slots, reply>>
        PROVE  ReviewInv'
    <2>1. PICK next \in {"prepare", "report"} :
             GoesTo(p, next) /\ (next = "prepare" <=> rep[p].reason = "")
      BY <1>6
    <2>2. /\ place' = [place EXCEPT ![p] = next] /\ place'[p] = next
          /\ place'[p] \notin PipelineFiles /\ place'[p] # "comment"
      <3>1. next \notin PipelineFiles /\ next # "comment"
        BY TheFiles
      <3>. QED BY <1>2, <2>1, <3>1 DEF GoesTo, ReviewTypes
    <2>3. ~Replied(p)' /\ (rep[p].reason = "" => rep[p] = Blank)
      BY <1>3, <1>6 DEF Replied, Blank
    <2>4. ReviewTypes'
      <3>1. next \in ReviewPlaces /\ next \in Inside /\ next # "idle" /\ place[p] # "idle"
        BY <1>1, TheFiles DEF ReviewPlaces
      <3>2. SlotsKept'
        BY <1>1, <1>2, <1>4, <1>6, <2>1, <3>1, SlotsStay
      <3>3. /\ rep' \in [Reviews -> RunReport] /\ reply' \in [Reviews -> Replies]
            /\ directories' \subseteq Directories /\ contested' = {}
        BY <1>1, <1>2, <1>3, <1>6 DEF ReviewTypes
      <3>. QED BY <1>1, <1>2, <2>1, <3>1, <3>2, <3>3, TypesOfMove
    <2>5. OnlyMoves(p)
      BY <1>1, <1>2, <1>6, <2>2 DEF OnlyMoves, ReviewTypes
    <2>6. StaysAlone(p)
      <3>1. \A q \in Reviews : Writing(q) \/ Replied(q) => ask[q].dir \in directories
        BY DEF ReviewInv, ReviewKept, Early
      <3>. QED BY <1>1, <1>6, <3>1 DEF StaysAlone
    <2>7. ReviewKept(p)'
      <3>1. \A f \in ReviewFiles : disk[ask[p].dir][f] = {} /\ <<ask[p].dir, f>> \notin partial
        BY <1>2, <1>3, <1>6 DEF DirectoryKept
      <3>0. p \notin opened'
        BY <1>1, <1>3
      <3>2. \A f \in ReviewFiles : FileOf(p, f)' = {} /\ <<ask'[p].dir, f>> \notin partial'
        BY <1>1, <3>1 DEF FileOf
      <3>3. Early(p)'
        <4>1. rep'[p] = rep[p] /\ ask'[p] = ask[p] /\ rep[p].reason = Rejection(ask[p].diff)
          BY <1>1, <1>3 DEF Blank
        <4>. QED BY <1>1, <1>3, <1>6, <2>1, <2>2, <2>3, <3>0, <4>1 DEF Early
      <3>4. Untouched(p)'
        BY <3>0, <3>2 DEF Untouched
      <3>5. PipelineFiles \subseteq ReviewFiles /\ StageFiles \subseteq PipelineFiles
        BY TheFiles
      <3>6. OwnFiles(p)'
        BY <3>2, <3>5 DEF OwnFiles
      <3>7. Outcome(p)'
        BY <1>1, <2>1, <2>2, <2>3 DEF Outcome
      <3>. QED BY <2>2, <2>3, <3>3, <3>4, <3>6, <3>7 DEF ReviewKept, Stepped, Answered
    <2>. QED BY <1>1, <2>4, <2>5, <2>6, <2>7, ReviewMovesOnly
  <1>. QED BY <1>5, <1>6 DEF CreateDeliveryDir

LEMMA StartPipelineStep ==
    ASSUME ReviewInv, NEW p \in Reviews, NEW d \in Directories, NEW sql \in Statements,
           StartPipeline(p, d, sql)
    PROVE  ReviewInv'
  <1>1. /\ ~served /\ place[p] = "idle" /\ GoesTo(p, "prepare")
        /\ ask' = [ask EXCEPT ![p] = [dir |-> d, diff |-> sql]]
        /\ UNCHANGED <<served, room, slots, directories, disk, partial, opened, contested, rep,
                       reply, proposal>>
    BY DEF StartPipeline
  <1>2. ReviewTypes /\ ReviewKept(p)
    BY DEF ReviewInv
  <1>3. ~Replied(p) /\ rep[p] = Blank /\ p \notin opened'
    BY <1>1, <1>2, TheFiles DEF ReviewKept, Early
  <1>4. place' = [place EXCEPT ![p] = "prepare"] /\ place'[p] = "prepare"
    BY <1>1, <1>2 DEF GoesTo, ReviewTypes
  <1>5. /\ ask' \in [Reviews -> [dir: Directories \cup {""}, diff: Diffs \cup Statements \cup {<<>>}]]
        /\ ask'[p] = [dir |-> d, diff |-> sql] /\ \A q \in Reviews : q # p => ask'[q] = ask[q]
    BY <1>1, <1>2 DEF ReviewTypes
  <1>6. ReviewTypes'
    <2>1. "prepare" \in ReviewPlaces
      BY TheFiles DEF ReviewPlaces
    <2>2. place' \in [Reviews -> ReviewPlaces]
      BY <1>2, <1>4, <2>1 DEF ReviewTypes
    <2>3. ASSUME NEW q \in Reviews, place'[q] # "idle"
          PROVE  /\ ask'[q].dir \in Directories
                 /\ ask'[q].diff \in (IF served' THEN Diffs ELSE Statements)
      BY <1>1, <1>2, <1>4, <1>5, <2>3 DEF ReviewTypes
    <2>4. SlotsKept'
      BY <1>1, <1>2, SlotsStay
    <2>. QED BY <1>1, <1>2, <1>5, <2>2, <2>3, <2>4 DEF ReviewTypes, ContestedTyped, SlotsKept
  <1>7. OnlyMoves(p)
    BY <1>1, <1>2, <1>4, <1>5 DEF OnlyMoves, ReviewTypes
  <1>8. ~Writing(p)' /\ ~Replied(p)'
    BY <1>1, <1>3, <1>4, TheFiles DEF Replied, Writing
  <1>9. ReviewKept(p)'
    <2>1. /\ ~served' /\ rep'[p] = Blank
          /\ place'[p] \notin ReviewFiles /\ place'[p] \notin PipelineFiles
      BY <1>1, <1>3, <1>4, TheFiles
    <2>2. Early(p)'
      BY <1>3, <1>4, <1>8, <2>1 DEF Early
    <2>. QED BY <1>4, <1>8, <2>1, <2>2
         DEF ReviewKept, Untouched, Stepped, OwnFiles, Outcome, Answered
  <1>10. StaysAlone(p)
    BY <1>8 DEF StaysAlone
  <1>. QED BY <1>1, <1>6, <1>7, <1>9, <1>10, ReviewMovesOnly

\* Of a pipeline in a directory that it finds empty, and where nobody is about to
\* create the first file, there is no other.
LEMMA PreparesAlone ==
    ASSUME ReviewInv, NEW p \in Reviews, place[p] = "prepare", Usable(ask[p].dir),
           served \/ Rivals(p) = {}, Solo(p), NEW q \in Reviews, q # p,
           Writing(q) \/ Replied(q)
    PROVE  ask[q].dir # ask[p].dir
  <1>1. CASE served
    BY <1>1 DEF ReviewInv, OwnDirectories, Writing
  <1>2. CASE ~served
    <2>1. SUFFICES ASSUME ask[q].dir = ask[p].dir PROVE FALSE
      OBVIOUS
    <2>2. /\ ReviewKept(q) /\ place[q] \in PipelineFiles /\ place[q] \in ReviewFiles
          /\ Writing(q) /\ Solo(q)
      BY <1>2, <2>1, TheFiles DEF ReviewInv, ReviewKept, Early, Writing, Solo
    <2>3. q \notin opened
      <3>1. Rank(place[q]) >= Rank(place[q])
        BY <2>2, TheFiles, Ranks
      <3>2. q \in opened => <<ask[q].dir, place[q]>> \in partial
        BY <2>2, <3>1 DEF ReviewKept, Untouched
      <3>. QED BY <2>1, <2>2, <3>2 DEF Usable
    <2>4. place[q] # "admission"
      BY <1>2, <2>1, <2>3 DEF Rivals
    <2>5. PICK k \in 0..4 :
             /\ StagesOnDisk(ask[q].dir, k)
             /\ place[q] \in StageFiles => k = Rank(place[q]) - 1
             /\ place[q] = "summary" => k >= 1
      BY <2>2 DEF ReviewKept, Stepped
    <2>6. k >= 1
      BY <2>2, <2>4, <2>5, TheFiles, Ranks
    <2>7. disk[ask[p].dir]["admission"] # {}
      BY <2>1, <2>5, <2>6, TheFiles, Ranks DEF StagesOnDisk
    <2>. QED BY <2>7, TheFiles DEF Usable
  <1>. QED BY <1>1, <1>2

LEMMA PrepareSucceedsStep ==
    ASSUME ReviewInv, NEW p \in Reviews, place[p] = "prepare", Usable(ask[p].dir),
           directories' = directories \cup {ask[p].dir}, GoesTo(p, "admission"),
           contested' = IF Rivals(p) = {} THEN contested ELSE contested \cup {ask[p].dir},
           UNCHANGED <<served, room, ask, slots, disk, partial, opened, rep, reply, proposal>>
    PROVE  ReviewInv'
  <1>1. ReviewTypes /\ ReviewKept(p)
    BY DEF ReviewInv
  <1>2. /\ ~Replied(p) /\ rep[p] = Blank /\ ask[p].dir \in Directories
        /\ place[p] \in Inside /\ p \notin opened' /\ (served => Writing(p) /\ Solo(p))
    BY <1>1, TheFiles DEF ReviewKept, Early, Writing, ReviewTypes, ContestedTyped, Solo
  <1>3. /\ place' = [place EXCEPT ![p] = "admission"] /\ place'[p] = "admission"
    BY <1>1 DEF GoesTo, ReviewTypes
  <1>4. /\ Solo(p)' => Solo(p) /\ Rivals(p) = {}
        /\ contested \subseteq contested' /\ contested' \subseteq Directories
    BY <1>1, <1>2 DEF Solo, ReviewTypes, ContestedTyped
  <1>5. served => contested' = {}
    <2>1. ASSUME served, NEW q \in Rivals(p) PROVE FALSE
      <3>1. Writing(q) /\ q \in Reviews /\ q # p /\ ask[q].dir = ask[p].dir
        BY <2>1, TheFiles DEF Rivals, Writing
      <3>. QED BY <1>2, <2>1, <3>1, PreparesAlone
    <2>. QED BY <1>1, <2>1 DEF ReviewTypes, ContestedTyped
  <1>6. ReviewTypes'
    <2>1. "admission" \in ReviewPlaces /\ "admission" \in Inside
      BY TheFiles DEF ReviewPlaces
    <2>2. SlotsKept'
      BY <1>1, <1>2, <2>1, SlotsStay
    <2>3. /\ rep' \in [Reviews -> RunReport] /\ reply' \in [Reviews -> Replies]
          /\ directories' \subseteq Directories
      BY <1>1, <1>2 DEF ReviewTypes
    <2>. QED BY <1>1, <1>4, <1>5, <2>1, <2>2, <2>3, TypesOfMove
  <1>7. OnlyMoves(p)
    BY <1>1, <1>3, <1>4 DEF OnlyMoves, ReviewTypes
  <1>8. StaysAlone(p)
    BY <1>4, PreparesAlone DEF StaysAlone
  <1>9. ReviewKept(p)'
    <2>1. \A f \in PipelineFiles : FileOf(p, f)' = {} /\ <<ask'[p].dir, f>> \notin partial'
      BY DEF Usable, FileOf
    <2>2. served => \A f \in ReviewFiles : FileOf(p, f)' = {} /\ <<ask'[p].dir, f>> \notin partial'
      <3>1. \A f \in ReviewFiles : Rank(f) >= Rank(place[p]) /\ f # place[p]
        BY TheFiles, Ranks
      <3>. QED BY <1>1, <1>2, <3>1 DEF ReviewKept, Untouched, FileOf
    <2>3. ~Replied(p)' /\ rep'[p] = Blank /\ ask'[p] = ask[p] /\ ask'[p].dir \in directories'
      BY <1>2 DEF Replied
    <2>4. Early(p)'
      <3>1. served => rep[p].reason = Rejection(ask[p].diff)
        BY <1>1, <1>2 DEF ReviewKept, Early
      <3>2. rep'[p].reason = "" /\ rep'[p] = rep[p]
        <4>1. Blank.reason = ""
          BY DEF Blank
        <4>. QED BY <1>2, <2>3, <4>1
      <3>. QED BY <1>2, <1>3, <2>3, <3>1, <3>2 DEF Early
    <2>5. Untouched(p)'
      BY <1>2, <2>1, <2>2 DEF Untouched
    <2>6. Stepped(p)'
      <3>1. rep'[p].steps = SubSeq(Stages, 1, 0) /\ ~rep'[p].failed /\ rep'[p].stopped = ""
        <4>1. SubSeq(Stages, 1, 0) = <<>>
          BY TheFiles
        <4>2. Blank.steps = <<>> /\ ~Blank.failed /\ Blank.stopped = ""
          BY DEF Blank
        <4>. QED BY <2>3, <4>1, <4>2
      <3>2. \A f \in StageFiles : disk'[ask'[p].dir][f] = {} /\ ~(Rank(f) <= 0)
        BY <2>1, TheFiles, Ranks DEF FileOf
      <3>3. 0 \in 0..4 /\ Rank("admission") = 0 + 1
        BY Ranks
      <3>4. StagesOnDisk(ask[p].dir, 0)'
        BY <3>2 DEF StagesOnDisk
      <3>5. 0 = Rank("admission") - 1 /\ "admission" # "summary"
        BY Ranks
      <3>. QED BY <1>3, <3>1, <3>3, <3>4, <3>5 DEF Stepped
    <2>7. OwnFiles(p)'
      BY <2>1 DEF OwnFiles
    <2>. QED BY <1>3, <2>3, <2>4, <2>5, <2>6, <2>7 DEF ReviewKept, Outcome, Answered
  <1>. QED BY <1>6, <1>7, <1>8, <1>9, ReviewMovesOnly

\* A run that fails leaves a file of its pipeline unwritten.
LEMMA RunFailsStep ==
    ASSUME ReviewInv, NEW p \in Reviews, place[p] \in {"prepare"} \cup PipelineFiles,
           Returns(p, Failed(p)), opened' = opened \ {p},
           UNCHANGED <<served, room, ask, slots, directories, disk, partial, contested, reply,
                       proposal>>
    PROVE  ReviewInv'
  <1>1. ReviewTypes /\ ReviewKept(p)
    BY DEF ReviewInv
  <1>2. /\ (served => Writing(p)) /\ place[p] \in Inside /\ place[p] \notin {"idle", "end", "gone"}
        /\ place[p] \notin {"report", "comment"}
    BY TheFiles DEF Writing
  <1>3. ~Replied(p) /\ ask[p].dir \in Directories /\ ContestedTyped /\ p \notin opened'
    BY <1>1, <1>2 DEF ReviewKept, Early, ReviewTypes
  <1>4. PICK next \in {"report", "end"} : GoesTo(p, next) /\ (next = "report" <=> served)
    BY <1>1 DEF Returns, ReviewTypes
  <1>5. place' = [place EXCEPT ![p] = next] /\ place'[p] = next
    BY <1>1, <1>4 DEF GoesTo, ReviewTypes
  <1>6. /\ rep' = [rep EXCEPT ![p] = Failed(p)] /\ rep'[p] = Failed(p) /\ Failed(p) \in RunReport
        /\ Failed(p).failed = TRUE /\ Failed(p).reason = rep[p].reason
        /\ Failed(p).stopped = rep[p].stopped
    BY <1>1 DEF Returns, Failed, ReviewTypes, RunReport
  <1>7. ReviewTypes'
    <2>1. next \in ReviewPlaces /\ (next \in Inside <=> next = "report")
      BY TheFiles DEF ReviewPlaces
    <2>2. SlotsKept'
      <3>1. served => (next \in Inside <=> place[p] \in Inside)
        BY <1>2, <1>4, <2>1
      <3>. QED BY <1>1, <1>4, <3>1, SlotsStay
    <2>3. /\ rep' \in [Reviews -> RunReport] /\ reply' \in [Reviews -> Replies]
          /\ directories' \subseteq Directories
          /\ contested' \subseteq Directories /\ (served => contested' = {})
      BY <1>1, <1>3, <1>6 DEF ReviewTypes, ContestedTyped
    <2>. QED BY <1>1, <1>2, <1>4, <2>1, <2>2, <2>3, TypesOfMove
  <1>8. OnlyMoves(p)
    BY <1>1, <1>5, <1>6 DEF OnlyMoves, ReviewTypes
  <1>9. StaysAlone(p)
    <2>1. ~Replied(p)' /\ (Writing(p)' => Writing(p)) /\ (Solo(p)' => Solo(p))
      <3>1. "end" \notin ReviewFiles
        BY TheFiles
      <3>. QED BY <1>2, <1>3, <1>4, <1>5, <3>1 DEF Writing, Replied, Solo
    <2>. QED BY <2>1 DEF ReviewInv, OwnDirectories, StaysAlone
  <1>10. ReviewKept(p)'
    <2>1. ~Replied(p)'
      BY <1>3 DEF Replied
    <2>2. CASE next = "end"
      BY <1>3, <1>5, <2>1, <2>2, ReviewOver
    <2>3. CASE next = "report"
      <3>1. /\ served /\ place'[p] = "report" /\ place'[p] \notin PipelineFiles /\ Writing(p)
            /\ Solo(p)
        BY <1>2, <1>3, <1>4, <1>5, <2>3, TheFiles DEF Solo, ContestedTyped
      <3>2. \A f \in ReviewFiles : FileOf(p, f)' = FileOf(p, f) /\ ask'[p] = ask[p]
        BY DEF FileOf
      <3>3. \A f \in {"report", "comment"} : f \in ReviewFiles /\ Rank(f) >= Rank(place[p]) /\ f # place[p]
        BY TheFiles, Ranks
      <3>4. \A f \in {"report", "comment"} : FileOf(p, f) = {} /\ <<ask[p].dir, f>> \notin partial
        BY <1>1, <3>1, <3>3 DEF ReviewKept, Untouched
      <3>5. \A f \in ReviewFiles : Rank(f) >= Rank("report") => f \in {"report", "comment"}
        BY TheFiles, Ranks
      <3>6. Early(p)'
        BY <1>1, <1>3, <1>6, <2>1, <3>1, <3>2 DEF ReviewKept, Early, Writing
      <3>7. Untouched(p)'
        BY <1>3, <3>1, <3>2, <3>4, <3>5 DEF Untouched
      <3>8. \E f \in PipelineFiles : FileOf(p, f) = {} /\ (place[p] = "prepare" => \A g \in ReviewFiles : FileOf(p, g) = {})
        <4>1. CASE place[p] = "prepare"
          <5>1. \A f \in ReviewFiles : Rank(f) >= Rank(place[p])
            BY <4>1, TheFiles, Ranks
          <5>2. \A f \in ReviewFiles : FileOf(p, f) = {}
            BY <1>1, <3>1, <5>1 DEF ReviewKept, Untouched
          <5>. QED BY <5>2, TheFiles
        <4>2. CASE place[p] \in PipelineFiles
          <5>1. place[p] \in ReviewFiles /\ Rank(place[p]) >= Rank(place[p]) /\ place[p] # "prepare"
            BY <4>2, TheFiles, Ranks
          <5>2. FileOf(p, place[p]) = {}
            BY <1>1, <3>1, <5>1 DEF ReviewKept, Untouched
          <5>. QED BY <4>2, <5>1, <5>2
        <4>. QED BY <4>1, <4>2
      <3>9. PipelineFiles \subseteq ReviewFiles
        BY TheFiles
      <3>10. OwnFiles(p)'
        <4>1. CASE place[p] = "prepare"
          BY <3>2, <3>8, <3>9, <4>1 DEF OwnFiles
        <4>2. CASE place[p] \in PipelineFiles
          BY <1>1, <3>1, <3>2, <3>9, <4>2 DEF ReviewKept, OwnFiles
        <4>. QED BY <4>1, <4>2
      <3>11. Outcome(p)'
        BY <1>6, <2>1, <3>2, <3>8, <3>9 DEF Outcome
      <3>. QED BY <2>1, <3>1, <3>6, <3>7, <3>10, <3>11 DEF ReviewKept, Stepped, Answered
    <2>. QED BY <2>2, <2>3
  <1>. QED BY <1>7, <1>8, <1>9, <1>10, ReviewMovesOnly

LEMMA PrepareOutputDirStep ==
    ASSUME ReviewInv, NEW p \in Reviews, PrepareOutputDir(p)
    PROVE  ReviewInv'
  <1>1. p \notin opened
    BY TheFiles DEF PrepareOutputDir, ReviewInv, ReviewKept, Early
  <1>2. CASE Usable(ask[p].dir) /\ GoesTo(p, "admission") /\ UNCHANGED <<rep, writeFaults>>
             /\ directories' = directories \cup {ask[p].dir}
             /\ contested' = IF Rivals(p) = {} THEN contested ELSE contested \cup {ask[p].dir}
    BY <1>2, PrepareSucceedsStep DEF PrepareOutputDir
  <1>3. CASE Returns(p, Failed(p)) /\ UNCHANGED <<directories, contested>>
    <2>1. opened' = opened \ {p}
      BY <1>1 DEF PrepareOutputDir
    <2>. QED BY <1>3, <2>1, RunFailsStep DEF PrepareOutputDir
  <1>. QED BY <1>2, <1>3 DEF PrepareOutputDir

LEMMA WriteFailsStep ==
    ASSUME ReviewInv, NEW p \in Reviews, WriteFails(p)
    PROVE  ReviewInv'
  <1>1. place[p] \in Inside
    BY TheFiles DEF WriteFails
  <1>. QED BY <1>1, RunFailsStep, RefusedStep DEF WriteFails

\* What is so of a review that is at a file.
LEMMA AtFile ==
    ASSUME ReviewInv, NEW p \in Reviews, place[p] \in ReviewFiles
    PROVE  /\ Writing(p) /\ ~Replied(p) /\ place[p] \in Inside
           /\ place[p] \notin {"idle", "end", "gone", "prepare"}
           /\ ask[p].dir \in Directories /\ ask[p].dir \in directories
           /\ served \/ place[p] \in PipelineFiles
           /\ ContestedTyped /\ (served => Solo(p))
           /\ Solo(p) =>
                 /\ \A f \in ReviewFiles :
                       Rank(f) >= Rank(place[p]) /\ (served \/ f \in PipelineFiles) =>
                          /\ FileOf(p, f) = {}
                          /\ (<<ask[p].dir, f>> \in partial) <=> (f = place[p] /\ p \in opened)
                 /\ FileOf(p, place[p]) = {}
  <1>1. ReviewTypes /\ ReviewKept(p) /\ ContestedTyped /\ (served => Solo(p))
    BY DEF ReviewInv, ReviewTypes, ContestedTyped, Solo
  <1>2. /\ Writing(p) /\ place[p] \in Inside
        /\ place[p] \notin {"idle", "end", "gone", "prepare"}
    BY TheFiles DEF Writing
  <1>3. ~Replied(p) /\ ask[p].dir \in Directories /\ ask[p].dir \in directories
    BY <1>1, <1>2 DEF ReviewKept, Early, ReviewTypes
  <1>4. served \/ place[p] \in PipelineFiles
    BY <1>1, TheFiles DEF ReviewKept, Early
  <1>5. Solo(p) =>
           \A f \in ReviewFiles :
              Rank(f) >= Rank(place[p]) /\ (served \/ f \in PipelineFiles) =>
                 /\ FileOf(p, f) = {}
                 /\ (<<ask[p].dir, f>> \in partial) <=> (f = place[p] /\ p \in opened)
    BY <1>1, <1>2 DEF ReviewKept, Untouched
  <1>6. Rank(place[p]) >= Rank(place[p])
    BY TheFiles, Ranks
  <1>7. Solo(p) => FileOf(p, place[p]) = {}
    BY <1>4, <1>5, <1>6
  <1>. QED BY <1>1, <1>2, <1>3, <1>4, <1>5, <1>7

LEMMA AloneOfWriter ==
    ASSUME ReviewInv, NEW p \in Reviews, Writing(p), ask' = ask, contested' = contested
    PROVE  StaysAlone(p)
  BY DEF ReviewInv, OwnDirectories, StaysAlone, Solo

LEMMA StageStopsStep ==
    ASSUME ReviewInv, NEW p \in Reviews, StageStops(p)
    PROVE  ReviewInv'
  <1>1. /\ place[p] \in {"candidate", "comparison", "diagnosis"}
        /\ p \notin opened /\ Stop(p, rep[p])
        /\ UNCHANGED <<served, room, ask, slots, directories, disk, partial, opened, contested,
                       reply, proposal>>
    BY DEF StageStops
  <1>2. place[p] \in StageFiles /\ place[p] \in PipelineFiles /\ place[p] \in ReviewFiles
    BY <1>1, TheFiles
  <1>3. ReviewTypes /\ ReviewKept(p)
    BY DEF ReviewInv
  <1>. DEFINE r == [rep[p] EXCEPT !.stopped = place[p], !.failed = TRUE]
  <1>4. /\ r \in RunReport /\ r.steps = rep[p].steps /\ r.reason = rep[p].reason
        /\ r.failed = TRUE /\ r.stopped = place[p]
    BY <1>2, <1>3 DEF ReviewTypes, RunReport
  <1>5. rep' = [rep EXCEPT ![p] = r] /\ GoesTo(p, "summary")
    BY <1>1 DEF Stop
  <1>. HIDE DEF r
  <1>6. rep'[p] = r /\ rep' \in [Reviews -> RunReport]
    BY <1>3, <1>4, <1>5 DEF ReviewTypes
  <1>7. place' = [place EXCEPT ![p] = "summary"] /\ place'[p] = "summary"
    BY <1>3, <1>5 DEF GoesTo, ReviewTypes
  <1>8. ReviewTypes'
    <2>1. "summary" \in ReviewPlaces /\ "summary" \in Inside
      BY TheFiles DEF ReviewPlaces
    <2>2. place[p] \in Inside /\ place[p] # "idle"
      BY <1>2, AtFile
    <2>3. SlotsKept'
      BY <1>1, <1>3, <1>5, <2>1, <2>2, SlotsStay
    <2>4. /\ reply' \in [Reviews -> Replies] /\ directories' \subseteq Directories
          /\ contested' \subseteq Directories /\ (served => contested' = {})
      BY <1>1, <1>3 DEF ReviewTypes, ContestedTyped
    <2>. QED BY <1>1, <1>3, <1>5, <1>6, <2>1, <2>2, <2>3, <2>4, TypesOfMove
  <1>9. OnlyMoves(p)
    BY <1>1, <1>3, <1>5, <1>7 DEF OnlyMoves, ReviewTypes
  <1>10. StaysAlone(p)
    BY <1>1, <1>2, AtFile, AloneOfWriter
  <1>11. ReviewKept(p)'
    <2>1. /\ ~Replied(p)' /\ ~Replied(p) /\ ask[p].dir \in directories /\ Writing(p)
          /\ served \/ place[p] \in PipelineFiles
      BY <1>1, <1>2, AtFile DEF Replied
    <2>2. /\ \A f \in ReviewFiles : FileOf(p, f)' = FileOf(p, f)
          /\ ask'[p] = ask[p] /\ Solo(p)' = Solo(p)
      BY <1>1 DEF FileOf, Solo
    <2>3. Early(p)'
      BY <1>1, <1>2, <1>3, <1>4, <1>6, <1>7, <2>1 DEF ReviewKept, Early
    <2>4. Untouched(p)'
      <3>1. \A f \in ReviewFiles : Rank(f) >= Rank("summary") => Rank(f) >= Rank(place[p]) /\ f # place[p]
        BY <1>1, TheFiles, Ranks
      <3>2. Solo(p) =>
               \A f \in ReviewFiles : Rank(f) >= Rank("summary") /\ (served \/ f \in PipelineFiles) =>
                  FileOf(p, f) = {} /\ <<ask[p].dir, f>> \notin partial
        BY <1>2, <3>1, AtFile
      <3>. QED BY <1>1, <1>7, <2>2, <3>2 DEF Untouched
    <2>5. Stepped(p)'
      <3>1. PICK k \in 0..4 :
               /\ rep[p].steps = SubSeq(Stages, 1, k) /\ (Solo(p) => StagesOnDisk(ask[p].dir, k))
               /\ k >= 1
        <4>1. PICK k \in 0..4 :
                 /\ rep[p].steps = SubSeq(Stages, 1, k) /\ (Solo(p) => StagesOnDisk(ask[p].dir, k))
                 /\ k = Rank(place[p]) - 1
          BY <1>2, <1>3 DEF ReviewKept, Stepped
        <4>2. k >= 1
          BY <1>1, <4>1, Ranks
        <4>. QED BY <4>1, <4>2
      <3>2. Solo(p)' => StagesOnDisk(ask[p].dir, k)'
        BY <1>1, <2>2, <3>1 DEF StagesOnDisk
      <3>3. rep'[p].stopped # "" /\ rep'[p].failed /\ "summary" \notin StageFiles
        BY <1>1, <1>4, <1>6, TheFiles
      <3>. QED BY <1>4, <1>6, <1>7, <3>1, <3>2, <3>3 DEF Stepped
    <2>6. OwnFiles(p)'
      <3>1. PipelineFiles \subseteq ReviewFiles
        BY TheFiles
      <3>. QED BY <1>2, <1>3, <2>2, <3>1 DEF ReviewKept, OwnFiles
    <2>. QED BY <1>7, <2>1, <2>3, <2>4, <2>5, <2>6 DEF ReviewKept, Outcome, Answered
  <1>. QED BY <1>1, <1>8, <1>9, <1>10, <1>11, ReviewMovesOnly

\* The file that is emptied was empty, where the directory is not contested.
LEMMA CreateFileKeeps ==
    ASSUME ReviewInv, NEW p \in Reviews, CreateFile(p)
    PROVE  /\ disk' \in [Directories -> [ReviewFiles -> SUBSET File]]
           /\ \A e \in Directories, g \in ReviewFiles :
                 /\ e # ask[p].dir => disk'[e][g] = disk[e][g]
                 /\ disk'[e][g] \subseteq disk[e][g]
           /\ Solo(p) => disk' = disk
  <1>. DEFINE d == ask[p].dir
              f == place[p]
  <1>1. f \in ReviewFiles /\ disk' = [disk EXCEPT ![d][f] = {}]
    BY DEF CreateFile
  <1>2. d \in Directories /\ (Solo(p) => disk[d][f] = {})
    BY <1>1, AtFile DEF FileOf
  <1>3. disk \in [Directories -> [ReviewFiles -> SUBSET File]]
    BY DEF ReviewInv, ReviewTypes
  <1>. HIDE DEF d, f
  <1>4. Solo(p) => [disk[d] EXCEPT ![f] = {}] = disk[d]
    BY <1>1, <1>2, <1>3
  <1>5. disk' = [disk EXCEPT ![d] = [disk[d] EXCEPT ![f] = {}]]
    BY <1>1
  <1>6. Solo(p) => disk' = disk
    BY <1>2, <1>3, <1>4, <1>5
  <1>7. disk' \in [Directories -> [ReviewFiles -> SUBSET File]]
    BY <1>1, <1>2, <1>3
  <1>8. \A e \in Directories, g \in ReviewFiles :
           /\ e # d => disk'[e][g] = disk[e][g]
           /\ disk'[e][g] \subseteq disk[e][g]
    BY <1>1, <1>2, <1>3
  <1>. QED BY <1>6, <1>7, <1>8 DEF d

LEMMA CreateFileStep ==
    ASSUME ReviewInv, NEW p \in Reviews, CreateFile(p)
    PROVE  ReviewInv'
  <1>. DEFINE d == ask[p].dir
              f == place[p]
  <1>1. /\ f \in ReviewFiles /\ partial' = partial \cup {<<d, f>>} /\ opened' = opened \cup {p}
        /\ UNCHANGED <<served, room, place, ask, slots, directories, contested, rep, reply, proposal>>
    BY DEF CreateFile
  <1>2. ReviewTypes /\ ReviewKept(p) /\ \A e \in Directories : DirectoryKept(e)
    BY DEF ReviewInv
  <1>3. d \in Directories /\ d \in directories /\ Writing(p)
    BY <1>1, AtFile DEF FileOf
  <1>4. /\ disk' \in [Directories -> [ReviewFiles -> SUBSET File]]
        /\ \A e \in Directories, g \in ReviewFiles :
              /\ e # d => disk'[e][g] = disk[e][g]
              /\ disk'[e][g] \subseteq disk[e][g]
        /\ d \notin contested => disk' = disk
    BY CreateFileKeeps DEF Solo
  <1>. HIDE DEF d, f
  <1>5. \A e, g : <<e, g>> \in partial' <=> (<<e, g>> \in partial \/ (e = d /\ g = f))
    BY <1>1
  <1>6. ReviewTypes'
    <2>1. partial' \subseteq Directories \X ReviewFiles
      <3>1. <<d, f>> \in Directories \X ReviewFiles
        BY <1>1, <1>3
      <3>2. partial \subseteq Directories \X ReviewFiles
        BY <1>2 DEF ReviewTypes
      <3>. QED BY <1>1, <3>1, <3>2
    <2>. QED BY <1>1, <1>2, <1>4, <2>1 DEF ReviewTypes, ContestedTyped
  <1>7. OnlyMoves(p) /\ StaysAlone(p) /\ WritesInside(ask[p].dir)
    <2>1. OnlyMoves(p) /\ StaysAlone(p)
      BY <1>1, <1>3, AloneOfWriter DEF OnlyMoves
    <2>2. WritesInside(ask[p].dir)
      BY <1>1, <1>4, <1>5 DEF WritesInside, d
    <2>. QED BY <2>1, <2>2
  <1>8. ReviewKept(p)'
    <2>1. Solo(p)' = Solo(p) /\ (Solo(p) => \A g \in ReviewFiles : FileOf(p, g)' = FileOf(p, g))
      BY <1>1, <1>4 DEF FileOf, Solo, d
    <2>2. Writing(p)' = Writing(p) /\ Replied(p)' = Replied(p)
      BY <1>1 DEF Writing, Replied
    <2>3. Early(p)'
      BY <1>1, <1>2, <2>2 DEF ReviewKept, Early, f
    <2>4. Untouched(p)'
      <3>1. ASSUME Solo(p), NEW g \in ReviewFiles, Rank(g) >= Rank(place[p]),
                   served \/ g \in PipelineFiles
            PROVE  /\ FileOf(p, g)' = {}
                   /\ (<<ask[p].dir, g>> \in partial') <=> (g = place[p])
        BY <1>5, <2>1, <3>1, <1>1, AtFile DEF d, f
      <3>. QED BY <1>1, <2>1, <2>2, <3>1 DEF Untouched
    <2>5. Stepped(p)'
      <3>1. Solo(p) => \A k : StagesOnDisk(ask[p].dir, k)' = StagesOnDisk(ask[p].dir, k)
        BY <1>1, <1>4 DEF StagesOnDisk, Solo, d
      <3>. QED BY <1>1, <1>2, <2>1, <3>1 DEF ReviewKept, Stepped, StagesOnDisk
    <2>6. PipelineFiles \subseteq ReviewFiles /\ "report" \in ReviewFiles /\ "comment" \in ReviewFiles
      BY TheFiles
    <2>7. OwnFiles(p)'
      BY <1>1, <1>2, <2>1, <2>2, <2>6 DEF ReviewKept, OwnFiles
    <2>8. Outcome(p)'
      BY <1>1, <1>2, <2>1, <2>2, <2>6 DEF ReviewKept, Outcome
    <2>9. Answered(p)'
      <3>1. Content(p, "report")' = Content(p, "report") /\ Completed(p)' = Completed(p)
        BY <1>1 DEF Content, Completed
      <3>. QED BY <1>1, <1>2, <2>1, <2>2, <2>6, <3>1 DEF ReviewKept, Answered
    <2>. QED BY <2>3, <2>4, <2>5, <2>7, <2>8, <2>9 DEF ReviewKept
  <1>9. \A e \in Directories : e = ask[p].dir => DirectoryKept(e)'
    <2>1. SUFFICES ASSUME NEW e \in Directories, e = d PROVE DirectoryKept(e)'
      BY DEF d
    <2>2. DirectoryKept(e) /\ e \in directories' /\ "summary" \in ReviewFiles
      BY <1>1, <1>2, <1>3, <2>1, TheFiles
    <2>3. ASSUME e \notin contested PROVE OneRun(e)'
      <3>1. disk' = disk /\ disk[e][f] = {} /\ OneRun(e)
        BY <1>1, <1>4, <2>1, <2>2, <2>3, AtFile DEF FileOf, Solo, DirectoryKept, d, f
      <3>2. \A g \in ReviewFiles :
               /\ \A c, b \in disk'[e][g] : c = b
               /\ <<e, g>> \in partial' => disk'[e][g] = {}
        BY <1>5, <2>1, <3>1 DEF OneRun
      <3>3. \A g, h \in PipelineFiles : \A c \in disk'[e][g], b \in disk'[e][h] : c.by = b.by
        BY <3>1 DEF OneRun
      <3>. QED BY <3>2, <3>3 DEF OneRun
    <2>4. Listed(e)'
      <3>1. disk'[e]["summary"] \subseteq disk[e]["summary"]
        BY <1>4, <2>2
      <3>2. e \notin contested => disk' = disk
        BY <1>4, <2>1
      <3>. QED BY <1>1, <2>2, <3>1, <3>2 DEF DirectoryKept, Listed, StagesOnDisk
    <2>. QED BY <1>1, <2>2, <2>3, <2>4 DEF DirectoryKept
  <1>. QED BY <1>3, <1>6, <1>7, <1>8, <1>9, ReviewMoves

-----------------------------------------------------------------------------
(* Local review: a file is filled *)

Fills(p) ==
    /\ place[p] \in ReviewFiles /\ opened' = opened \ {p}
    /\ partial' = partial \ {<<ask[p].dir, place[p]>>}
    /\ \E beyond \in {{}, disk[ask[p].dir][place[p]]} :
          disk' = [disk EXCEPT ![ask[p].dir][place[p]] = {Content(p, place[p])} \cup beyond]
    /\ UNCHANGED <<served, room, ask, directories, contested, proposal>>

LEMMA ContentOf ==
    ASSUME ReviewTypes, NEW p \in Reviews, NEW f \in ReviewFiles
    PROVE  /\ Content(p, f) \in File /\ Content(p, f).by = p
           /\ f \notin StageFiles => Content(p, f) = [by |-> p, accepted |-> TRUE, rep |-> rep[p]]
  <1>. DEFINE ok == f # "admission" \/ Admit(Sql(p))
              r == IF f \in StageFiles THEN Blank ELSE rep[p]
  <1>1. Content(p, f) = [by |-> p, accepted |-> ok, rep |-> r]
    BY DEF Content
  <1>2. ok \in BOOLEAN
    BY DEF Admit
  <1>3. r \in RunReport
    <2>1. Blank \in RunReport
      <3>1. SubSeq(Stages, 1, 0) \in SeqOf(StageFiles, 4) /\ SubSeq(Stages, 1, 0) = <<>>
        BY StagesUpTo, TheFiles
      <3>. QED BY <3>1 DEF Blank, RunReport, Reasons
    <2>. QED BY <2>1 DEF ReviewTypes
  <1>4. f \notin StageFiles => ok = TRUE /\ r = rep[p]
    BY TheFiles
  <1>. HIDE DEF ok, r
  <1>5. Content(p, f) \in File
    BY <1>1, <1>2, <1>3 DEF File
  <1>6. Content(p, f).by = p
    BY <1>1
  <1>7. ASSUME f \notin StageFiles
        PROVE  Content(p, f) = [by |-> p, accepted |-> TRUE, rep |-> rep[p]]
    <2>1. ok = TRUE /\ r = rep[p]
      BY <1>4, <1>7
    <2>. QED BY <1>1, <2>1
  <1>. QED BY <1>5, <1>6, <1>7

LEMMA FilledFile ==
    ASSUME ReviewInv, NEW p \in Reviews, Fills(p)
    PROVE  /\ disk'[ask[p].dir][place[p]] \subseteq
                 {Content(p, place[p])} \cup disk[ask[p].dir][place[p]]
           /\ Solo(p) => disk'[ask[p].dir][place[p]] = {Content(p, place[p])}
           /\ \A f \in ReviewFiles : f # place[p] => disk'[ask[p].dir][f] = disk[ask[p].dir][f]
           /\ \A f : <<ask[p].dir, f>> \in partial' <=>
                        (<<ask[p].dir, f>> \in partial /\ f # place[p])
           /\ WritesInside(ask[p].dir)
           /\ disk' \in [Directories -> [ReviewFiles -> SUBSET File]]
           /\ partial' \subseteq Directories \X ReviewFiles
  <1>. DEFINE d == ask[p].dir
              f == place[p]
              c == Content(p, place[p])
  <1>1. /\ f \in ReviewFiles /\ d \in Directories /\ (Solo(p) => disk[d][f] = {})
        /\ contested' = contested
    BY AtFile DEF Fills, FileOf
  <1>2. /\ disk \in [Directories -> [ReviewFiles -> SUBSET File]] /\ c \in File
        /\ partial \subseteq Directories \X ReviewFiles
    BY <1>1, ContentOf DEF ReviewInv, ReviewTypes
  <1>3. PICK beyond \in {{}, disk[d][f]} : disk' = [disk EXCEPT ![d][f] = {c} \cup beyond]
    BY DEF Fills
  <1>. DEFINE new == {c} \cup beyond
  <1>4. /\ new \in SUBSET File /\ new \subseteq {c} \cup disk[d][f]
        /\ (Solo(p) => new = {c}) /\ disk' = [disk EXCEPT ![d][f] = new]
    <2>1. beyond \subseteq disk[d][f] /\ disk[d][f] \subseteq File
      BY <1>1, <1>2, <1>3
    <2>. QED BY <1>1, <1>2, <1>3, <2>1
  <1>5. partial' = partial \ {<<d, f>>}
    BY DEF Fills
  <1>6. d \notin contested <=> Solo(p)
    BY DEF Solo
  <1>. HIDE DEF d, f, c, new
  <1>7. /\ disk'[d][f] = new
        /\ \A g \in ReviewFiles : g # f => disk'[d][g] = disk[d][g]
        /\ \A e \in Directories : e # d => disk'[e] = disk[e]
    BY <1>1, <1>2, <1>4
  <1>8. disk' \in [Directories -> [ReviewFiles -> SUBSET File]]
    BY <1>1, <1>2, <1>4
  <1>9. \A e, g : <<e, g>> \in partial' <=> (<<e, g>> \in partial /\ ~(e = d /\ g = f))
    BY <1>5
  <1>10. WritesInside(d)
    <2>1. ASSUME NEW e \in Directories, NEW g \in ReviewFiles, disk[e][g] # {},
                 e \notin contested'
          PROVE  disk'[e][g] = disk[e][g]
      BY <1>1, <1>6, <1>7, <2>1
    <2>. QED BY <1>7, <1>9, <2>1 DEF WritesInside
  <1>11. partial' \subseteq Directories \X ReviewFiles
    BY <1>2, <1>5
  <1>12. disk'[d][f] \subseteq {c} \cup disk[d][f] /\ (Solo(p) => disk'[d][f] = {c})
    BY <1>4, <1>7
  <1>. QED BY <1>7, <1>8, <1>9, <1>10, <1>11, <1>12 DEF d, f, c

\* The directory of a file that is filled.
LEMMA DirectoryFilled ==
    ASSUME ReviewInv, NEW p \in Reviews, Fills(p)
    PROVE  \A d \in Directories : d = ask[p].dir => DirectoryKept(d)'
  <1>1. SUFFICES ASSUME NEW d \in Directories, d = ask[p].dir
                 PROVE  DirectoryKept(d)'
    OBVIOUS
  <1>. DEFINE f == place[p]
              content == Content(p, f)
  <1>2. /\ f \in ReviewFiles /\ d \in directories' /\ Writing(p)
        /\ served \/ f \in PipelineFiles
        /\ d \notin contested => Solo(p)
        /\ Solo(p) => \A g \in ReviewFiles :
              Rank(g) >= Rank(f) /\ (served \/ g \in PipelineFiles) => disk[d][g] = {}
        /\ contested' = contested
    BY <1>1, AtFile DEF Fills, FileOf, Solo
  <1>3. /\ disk'[d][f] \subseteq {content} \cup disk[d][f]
        /\ Solo(p) => disk'[d][f] = {content}
        /\ \A g \in ReviewFiles : g # f => disk'[d][g] = disk[d][g]
        /\ \A g : <<d, g>> \in partial' <=> (<<d, g>> \in partial /\ g # f)
    BY <1>1, FilledFile
  <1>4. content.by = p /\ ("summary" = f => content.rep = rep[p])
    <2>1. "summary" \notin StageFiles
      BY TheFiles
    <2>. QED BY <1>2, <2>1, ContentOf DEF ReviewInv
  <1>5. DirectoryKept(d) /\ OwnFiles(p) /\ Stepped(p)
    BY DEF ReviewInv, ReviewKept
  <1>6. PipelineFiles \subseteq ReviewFiles /\ StageFiles \subseteq PipelineFiles
        /\ "summary" \in PipelineFiles /\ "summary" \notin StageFiles
    BY TheFiles
  <1>7. Solo(p) => \A g \in PipelineFiles : \A c \in disk[d][g] : c.by = p
    BY <1>1, <1>2, <1>5 DEF OwnFiles, FileOf
  <1>. HIDE DEF f, content
  <1>8. ASSUME d \notin contested PROVE OneRun(d)'
    <2>1. Solo(p) /\ OneRun(d)
      BY <1>2, <1>5, <1>8 DEF DirectoryKept
    <2>2. \A g \in ReviewFiles :
             /\ \A c, e \in disk'[d][g] : c = e
             /\ <<d, g>> \in partial' => disk'[d][g] = {}
      <3>1. TAKE g \in ReviewFiles
      <3>2. CASE g = f
        BY <1>3, <2>1, <3>2
      <3>3. CASE g # f
        BY <1>3, <2>1, <3>3 DEF OneRun
      <3>. QED BY <3>2, <3>3
    <2>3. ASSUME NEW g \in PipelineFiles, NEW c \in disk'[d][g]
          PROVE  c.by = p
      <3>1. CASE g = f
        BY <1>3, <1>4, <2>1, <2>3, <3>1
      <3>2. CASE g # f
        BY <1>3, <1>6, <1>7, <2>1, <2>3, <3>2
      <3>. QED BY <3>1, <3>2
    <2>4. \A g, h \in PipelineFiles : \A c \in disk'[d][g], e \in disk'[d][h] : c.by = e.by
      BY <2>3
    <2>. QED BY <2>2, <2>4 DEF OneRun
  <1>9. ASSUME NEW s \in disk'[d]["summary"]
        PROVE  \E k \in 0..4 : /\ s.rep.steps = SubSeq(Stages, 1, k)
                               /\ d \notin contested' => StagesOnDisk(d, k)'
    <2>1. CASE f = "summary"
      <3>1. PICK k \in 0..4 : /\ rep[p].steps = SubSeq(Stages, 1, k)
                              /\ Solo(p) => StagesOnDisk(ask[p].dir, k)
        BY <1>5, <1>6, <2>1 DEF Stepped, f
      <3>2. CASE s = content
        <4>1. Solo(p) => StagesOnDisk(d, k)'
          BY <1>1, <1>3, <1>6, <2>1, <3>1 DEF StagesOnDisk
        <4>. QED BY <1>2, <1>4, <2>1, <3>1, <3>2, <4>1
      <3>3. CASE s # content
        <4>1. s \in disk[d]["summary"] /\ ~Solo(p)
          BY <1>3, <1>9, <2>1, <3>3
        <4>. QED BY <1>2, <1>5, <4>1 DEF DirectoryKept, Listed
      <3>. QED BY <3>2, <3>3
    <2>2. CASE f \in StageFiles
      <3>1. "summary" \in ReviewFiles /\ Rank("summary") >= Rank(f) /\ f # "summary"
        BY <2>2, TheFiles, Ranks
      <3>2. disk'[d]["summary"] = disk[d]["summary"] /\ (Solo(p) => disk[d]["summary"] = {})
        BY <1>2, <1>3, <1>6, <3>1
      <3>3. s \in disk[d]["summary"] /\ d \in contested
        BY <1>2, <1>9, <3>2
      <3>. QED BY <1>2, <1>5, <3>3 DEF DirectoryKept, Listed
    <2>3. CASE f \in {"report", "comment"}
      <3>1. f \notin PipelineFiles
        BY <2>3, TheFiles
      <3>2. \A g \in PipelineFiles : disk'[d][g] = disk[d][g]
        BY <1>3, <1>6, <3>1
      <3>3. \A k : StagesOnDisk(d, k)' = StagesOnDisk(d, k)
        BY <1>6, <3>2 DEF StagesOnDisk
      <3>4. disk'[d]["summary"] = disk[d]["summary"]
        BY <1>6, <3>2
      <3>. QED BY <1>2, <1>5, <1>9, <3>3, <3>4 DEF DirectoryKept, Listed
    <2>. QED BY <1>2, <2>1, <2>2, <2>3, TheFiles
  <1>10. Listed(d)'
    BY <1>9 DEF Listed, StagesOnDisk
  <1>. QED BY <1>2, <1>8, <1>10 DEF DirectoryKept

\* What a stage that is written notes in the report of its run.
LEMMA NextStageGoes ==
    ASSUME ReviewInv, NEW p \in Reviews, place[p] \in StageFiles, NextStage(p)
    PROVE  \E next \in StageFiles \cup {"summary"}, r \in RunReport :
              /\ GoesTo(p, next) /\ rep' = [rep EXCEPT ![p] = r]
              /\ r.steps = SubSeq(Stages, 1, Rank(place[p])) /\ r.reason = rep[p].reason
              /\ next \in StageFiles =>
                    Rank(next) = Rank(place[p]) + 1 /\ ~r.failed /\ r.stopped = ""
              /\ next = "summary" =>
                    IF r.failed THEN r.stopped # "" ELSE r.stopped = "" /\ Rank(place[p]) = 4
  <1>. DEFINE f == place[p]
              s == [rep[p] EXCEPT !.steps = Append(@, f)]
  <1>1. rep[p] \in RunReport /\ f \in PipelineFiles /\ f # "" /\ f \notin {"summary"}
    BY TheFiles DEF ReviewInv, ReviewTypes
  <1>2. /\ rep[p].steps = SubSeq(Stages, 1, Rank(f) - 1) /\ ~rep[p].failed /\ rep[p].stopped = ""
    BY <1>1 DEF ReviewInv, ReviewKept, Stepped
  <1>3. Rank(f) \in 1..4 /\ Stages[Rank(f)] = f
    BY StageAfter
  <1>4. Append(rep[p].steps, f) = SubSeq(Stages, 1, Rank(f))
    <2>. DEFINE k == Rank(f) - 1
    <2>1. k \in 0..4 /\ k < 4 /\ k + 1 = Rank(f)
      BY <1>3
    <2>. HIDE DEF k
    <2>2. SubSeq(Stages, 1, k + 1) = Append(SubSeq(Stages, 1, k), Stages[k + 1])
      BY <2>1, StagesUpTo
    <2>. QED BY <1>2, <1>3, <2>1, <2>2 DEF k
  <1>5. Append(rep[p].steps, f) \in SeqOf(StageFiles, 4)
    <2>1. Rank(f) \in 0..4
      BY <1>3
    <2>. QED BY <1>4, <2>1, StagesUpTo
  <1>6. /\ s \in RunReport /\ s.steps = SubSeq(Stages, 1, Rank(f)) /\ s.reason = rep[p].reason
        /\ ~s.failed /\ s.stopped = ""
    BY <1>1, <1>2, <1>4, <1>5 DEF RunReport
  <1>7. CASE f = "admission" /\ ~Admit(Sql(p))
    <2>. DEFINE r == [s EXCEPT !.stopped = f, !.failed = TRUE]
    <2>1. rep' = [rep EXCEPT ![p] = r] /\ GoesTo(p, "summary")
      BY <1>7 DEF NextStage, Stop
    <2>2. /\ r \in RunReport /\ r.steps = s.steps /\ r.reason = s.reason
          /\ r.failed = TRUE /\ r.stopped = f
      <3>. HIDE DEF s
      <3>. QED BY <1>6 DEF RunReport
    <2>3. "summary" \notin StageFiles
      BY TheFiles
    <2>. HIDE DEF r, s, f
    <2>. QED BY <1>1, <1>6, <2>1, <2>2, <2>3 DEF f
  <1>8. ASSUME NEW next \in StageFiles \cup {"summary"}, GoesTo(p, next),
               rep' = [rep EXCEPT ![p] = s],
               next \in StageFiles => Rank(next) = Rank(f) + 1,
               next = "summary" => Rank(f) = 4
        PROVE  \E n \in StageFiles \cup {"summary"}, r \in RunReport :
                  /\ GoesTo(p, n) /\ rep' = [rep EXCEPT ![p] = r]
                  /\ r.steps = SubSeq(Stages, 1, Rank(f)) /\ r.reason = rep[p].reason
                  /\ n \in StageFiles => Rank(n) = Rank(f) + 1 /\ ~r.failed /\ r.stopped = ""
                  /\ n = "summary" =>
                        IF r.failed THEN r.stopped # "" ELSE r.stopped = "" /\ Rank(f) = 4
    <2>. HIDE DEF s, f
    <2>. QED BY <1>6, <1>8
  <1>9. CASE ~(f = "admission" /\ ~Admit(Sql(p)))
    <2>1. rep' = [rep EXCEPT ![p] = s]
      BY <1>9 DEF NextStage
    <2>2. GoesTo(p, CASE f = "admission" -> "candidate"
                      [] f = "candidate" -> "comparison"
                      [] f = "comparison" -> "diagnosis"
                      [] f = "diagnosis" -> "summary")
      BY <1>9 DEF NextStage
    <2>3. /\ "candidate" \in StageFiles /\ "comparison" \in StageFiles
          /\ "diagnosis" \in StageFiles /\ "summary" \notin StageFiles
      BY TheFiles
    <2>. HIDE DEF s
    <2>4. CASE f = "admission"
      <3>1. GoesTo(p, "candidate") /\ Rank("candidate") = Rank(f) + 1
        BY <2>2, <2>4, Ranks
      <3>. QED BY <1>8, <2>1, <2>3, <3>1
    <2>5. CASE f = "candidate"
      <3>1. GoesTo(p, "comparison") /\ Rank("comparison") = Rank(f) + 1
        BY <2>2, <2>5, Ranks
      <3>. QED BY <1>8, <2>1, <2>3, <3>1
    <2>6. CASE f = "comparison"
      <3>1. GoesTo(p, "diagnosis") /\ Rank("diagnosis") = Rank(f) + 1
        BY <2>2, <2>6, Ranks
      <3>. QED BY <1>8, <2>1, <2>3, <3>1
    <2>7. CASE f = "diagnosis"
      <3>1. GoesTo(p, "summary") /\ Rank(f) = 4
        BY <2>2, <2>7, Ranks
      <3>. QED BY <1>8, <2>1, <2>3, <3>1
    <2>. QED BY <2>4, <2>5, <2>6, <2>7, TheFiles
  <1>. QED BY <1>7, <1>9

\* The frame of the four cases: what p keeps is left to show.
LEMMA FillMoves ==
    ASSUME ReviewInv, NEW p \in Reviews, Fills(p), NEW next \in ReviewPlaces, GoesTo(p, next),
           next # "idle", SlotsKept', rep' \in [Reviews -> RunReport], reply' \in [Reviews -> Replies],
           \A q \in Reviews : q # p => rep'[q] = rep[q] /\ reply'[q] = reply[q],
           ReviewKept(p)'
    PROVE  ReviewInv'
  <1>1. /\ place[p] # "idle" /\ Writing(p) /\ opened' = opened \ {p}
        /\ UNCHANGED <<served, room, ask, directories, contested, proposal>>
    BY AtFile DEF Fills
  <1>2. ReviewTypes'
    <2>1. /\ directories' \subseteq Directories /\ ReviewTypes
          /\ contested' \subseteq Directories /\ (served => contested' = {})
      BY <1>1 DEF ReviewInv, ReviewTypes, ContestedTyped
    <2>. QED BY <1>1, <2>1, FilledFile, TypesOfWrite
  <1>3. OnlyMoves(p)
    BY <1>1 DEF OnlyMoves, GoesTo, ReviewInv, ReviewTypes
  <1>4. StaysAlone(p)
    BY <1>1, AloneOfWriter
  <1>. QED BY <1>1, <1>2, <1>3, <1>4, FilledFile, DirectoryFilled, ReviewMoves

\* A stage is written.
LEMMA StageFilled ==
    ASSUME ReviewInv, NEW p \in Reviews, Fills(p), place[p] \in StageFiles, NextStage(p),
           UNCHANGED <<slots, reply>>
    PROVE  ReviewInv'
  <1>. DEFINE f == place[p]
              d == ask[p].dir
  <1>1. PICK next \in StageFiles \cup {"summary"}, r \in RunReport :
              /\ GoesTo(p, next) /\ rep' = [rep EXCEPT ![p] = r]
              /\ r.steps = SubSeq(Stages, 1, Rank(f)) /\ r.reason = rep[p].reason
              /\ next \in StageFiles => Rank(next) = Rank(f) + 1 /\ ~r.failed /\ r.stopped = ""
              /\ next = "summary" =>
                    IF r.failed THEN r.stopped # "" ELSE r.stopped = "" /\ Rank(f) = 4
    BY NextStageGoes
  <1>2. ReviewTypes /\ ReviewKept(p)
    BY DEF ReviewInv
  <1>3. /\ Writing(p) /\ ~Replied(p) /\ place[p] \in Inside /\ d \in directories
        /\ Solo(p) => \A g \in ReviewFiles :
              Rank(g) >= Rank(f) /\ (served \/ g \in PipelineFiles) =>
                 disk[d][g] = {} /\ (<<d, g>> \in partial => g = f)
        /\ p \notin opened' /\ Solo(p)' = Solo(p)
        /\ UNCHANGED <<served, room, ask, directories, contested, proposal>>
    BY AtFile DEF Fills, FileOf, Solo
  <1>4. next \in PipelineFiles /\ next \in Inside /\ next \in ReviewPlaces /\ next # "idle"
    <2>1. StageFiles \cup {"summary"} = PipelineFiles /\ PipelineFiles \subseteq Inside /\ "idle" \notin PipelineFiles
      BY TheFiles
    <2>. QED BY <1>1, <2>1 DEF ReviewPlaces
  <1>5. /\ place' = [place EXCEPT ![p] = next] /\ place'[p] = next
        /\ rep'[p] = r /\ rep' \in [Reviews -> RunReport] /\ reply' \in [Reviews -> Replies]
        /\ \A q \in Reviews : q # p => rep'[q] = rep[q] /\ reply'[q] = reply[q]
    BY <1>1, <1>2 DEF GoesTo, ReviewTypes
  <1>6. SlotsKept'
    BY <1>1, <1>2, <1>3, <1>4, SlotsStay
  <1>7. /\ Solo(p) => disk'[d][f] = {Content(p, f)}
        /\ Content(p, f).by = p
        /\ \A g \in ReviewFiles : g # f => disk'[d][g] = disk[d][g]
        /\ \A g : <<d, g>> \in partial' <=> (<<d, g>> \in partial /\ g # f)
    <2>1. f \in ReviewFiles
      BY TheFiles
    <2>. QED BY <1>2, <2>1, ContentOf, FilledFile
  <1>8. /\ Rank(f) \in 1..4 /\ Rank(next) \in 1..5 /\ Rank(next) > Rank(f) /\ Rank(next) >= Rank(f)
        /\ \A g \in ReviewFiles : Rank(g) \in 1..7 /\ (Rank(g) >= Rank(next) => Rank(g) >= Rank(f) /\ g # f)
    <2>1. Rank(f) \in 1..4 /\ \A g \in ReviewFiles : Rank(g) \in 1..7
      BY TheFiles, Ranks
    <2>2. Rank(next) \in 1..5 /\ Rank(next) > Rank(f)
      <3>1. CASE next = "summary"
        <4>1. Rank(next) = 5
          BY <3>1, Ranks
        <4>. QED BY <2>1, <4>1
      <3>2. CASE next \in StageFiles
        <4>1. Rank(next) = Rank(f) + 1
          BY <1>1, <3>2
        <4>. QED BY <2>1, <4>1
      <3>. QED BY <1>1, <3>1, <3>2
    <2>. QED BY <2>1, <2>2
  <1>9. StageFiles \subseteq PipelineFiles /\ PipelineFiles \subseteq ReviewFiles /\ f \in ReviewFiles
    BY TheFiles
  <1>10. f \in PipelineFiles /\ OwnFiles(p) /\ Early(p) /\ f \in StageFiles
    BY <1>2, <1>9 DEF ReviewKept
  <1>. HIDE DEF f, d
  <1>11. ~Replied(p)' /\ ask'[p] = ask[p] /\ served' = served /\ directories' = directories
    BY <1>3 DEF Replied
  <1>12. Early(p)'
    <2>1. rep[p].reason = "" /\ (served => rep[p].reason = Rejection(ask[p].diff))
      BY <1>3, <1>10 DEF Early, f
    <2>2. /\ rep'[p].reason = "" /\ ask'[p].dir \in directories'
          /\ place'[p] \notin {"idle", "event", "make", "prepare", "report", "comment"}
      BY <1>1, <1>3, <1>4, <1>5, <1>11, <2>1, TheFiles DEF d
    <2>3. p \notin opened'
      BY <1>3
    <2>. QED BY <1>1, <1>11, <2>1, <2>2, <2>3 DEF Early
  <1>13. Untouched(p)'
    <2>1. ASSUME Solo(p), NEW g \in ReviewFiles, Rank(g) >= Rank(next),
                 served \/ g \in PipelineFiles
          PROVE  disk'[d][g] = {} /\ <<d, g>> \notin partial'
      BY <1>3, <1>7, <1>8, <2>1
    <2>. QED BY <1>3, <1>5, <1>11, <2>1 DEF Untouched, FileOf, d
  <1>14. Stepped(p)'
    <2>1. PICK k \in 0..4 : k = Rank(f)
      BY <1>8
    <2>2. Solo(p) => \A g \in StageFiles : (disk[d][g] # {}) <=> Rank(g) <= k - 1
      BY <1>2, <1>10, <2>1 DEF ReviewKept, Stepped, StagesOnDisk, f, d
    <2>3. ASSUME Solo(p), NEW g \in StageFiles
          PROVE  (disk'[d][g] # {}) <=> Rank(g) <= k
      <3>2. CASE g = f
        BY <1>7, <1>8, <2>1, <2>3, <3>2
      <3>3. CASE g # f
        <4>1. Rank(g) # Rank(f) /\ Rank(g) \in 1..4
          BY <1>10, <3>3, TheFiles, Ranks
        <4>. QED BY <1>7, <1>8, <1>9, <2>1, <2>2, <2>3, <3>3, <4>1
      <3>. QED BY <3>2, <3>3
    <2>4. Solo(p)' => StagesOnDisk(ask[p].dir, k)'
      <3>1. ask'[p].dir = d
        BY <1>11 DEF d
      <3>. QED BY <1>3, <2>3, <3>1 DEF StagesOnDisk
    <2>5. /\ next \in StageFiles => k = Rank(next) - 1 /\ ~r.failed /\ r.stopped = ""
          /\ next = "summary" => IF r.failed THEN r.stopped # "" ELSE r.stopped = "" /\ k = 4
          /\ k >= 1
      <3>1. ASSUME next \in StageFiles PROVE k = Rank(next) - 1
        <4>1. Rank(next) = k + 1
          BY <1>1, <2>1, <3>1
        <4>. QED BY <2>1, <4>1
      <3>2. k >= 1
        BY <1>8, <2>1
      <3>. QED BY <1>1, <2>1, <3>1, <3>2
    <2>6. r.steps = SubSeq(Stages, 1, k)
      BY <1>1, <2>1
    <2>7. \E n \in 0..4 :
             /\ rep'[p].steps = SubSeq(Stages, 1, n) /\ (Solo(p)' => StagesOnDisk(ask[p].dir, n)')
             /\ place'[p] \in StageFiles =>
                   n = Rank(place'[p]) - 1 /\ ~rep'[p].failed /\ rep'[p].stopped = ""
             /\ place'[p] = "summary" => n >= 1
             /\ place'[p] = "summary" =>
                   IF rep'[p].failed THEN rep'[p].stopped # "" ELSE rep'[p].stopped = "" /\ n = 4
      BY <1>5, <2>1, <2>4, <2>5, <2>6
    <2>. QED BY <2>7 DEF Stepped
  <1>15. OwnFiles(p)'
    <2>1. ASSUME Solo(p), NEW g \in PipelineFiles, NEW c \in disk'[d][g]
          PROVE  c.by = p
      <3>1. \A e \in disk[d][g] : e.by = p
        BY <1>10, <1>9, <2>1 DEF OwnFiles, FileOf, f, d
      <3>. QED BY <1>7, <1>9, <2>1, <3>1
    <2>. QED BY <1>3, <1>11, <2>1 DEF OwnFiles, FileOf, d
  <1>16. ReviewKept(p)'
    <2>1. place'[p] \notin {"report", "comment"}
      BY <1>4, <1>5, TheFiles
    <2>. QED BY <1>11, <1>12, <1>13, <1>14, <1>15, <2>1 DEF ReviewKept, Outcome, Answered
  <1>. QED BY <1>1, <1>4, <1>5, <1>6, <1>16, FillMoves

\* The summary is written: the run is over.
LEMMA SummaryFilled ==
    ASSUME ReviewInv, NEW p \in Reviews, Fills(p), place[p] = "summary", Returns(p, rep[p]),
           UNCHANGED <<slots, reply>>
    PROVE  ReviewInv'
  <1>. DEFINE d == ask[p].dir
  <1>1. ReviewTypes /\ ReviewKept(p)
    BY DEF ReviewInv
  <1>2. /\ "summary" \in ReviewFiles /\ "summary" \in PipelineFiles /\ "summary" \notin StageFiles
        /\ StageFiles \subseteq PipelineFiles /\ PipelineFiles \subseteq ReviewFiles
        /\ PipelineFiles = StageFiles \cup {"summary"}
    BY TheFiles
  <1>3. /\ Writing(p) /\ ~Replied(p) /\ place[p] \in Inside /\ d \in directories
        /\ Solo(p) => \A g \in ReviewFiles :
              Rank(g) >= Rank("summary") /\ (served \/ g \in PipelineFiles) =>
                 disk[d][g] = {} /\ (<<d, g>> \in partial => g = "summary")
        /\ p \notin opened' /\ (served => Solo(p))
        /\ UNCHANGED <<served, room, ask, directories, contested, proposal>>
    BY <1>2, AtFile DEF Fills, FileOf
  <1>4. PICK next \in {"report", "end"} : GoesTo(p, next) /\ (next = "report" <=> served)
    BY <1>1 DEF Returns, ReviewTypes
  <1>5. next \in ReviewPlaces /\ next # "idle" /\ (next \in Inside <=> next = "report")
    BY TheFiles DEF ReviewPlaces
  <1>6. /\ place' = [place EXCEPT ![p] = next] /\ place'[p] = next
        /\ rep' = rep /\ rep' \in [Reviews -> RunReport] /\ reply' \in [Reviews -> Replies]
        /\ \A q \in Reviews : q # p => rep'[q] = rep[q] /\ reply'[q] = reply[q]
    BY <1>1, <1>4 DEF GoesTo, Returns, ReviewTypes
  <1>7. SlotsKept'
    <2>1. served => (next \in Inside <=> place[p] \in Inside)
      BY <1>3, <1>4, <1>5
    <2>. QED BY <1>1, <1>3, <1>4, <2>1, SlotsStay
  <1>8. /\ Solo(p) => disk'[d]["summary"] = {Content(p, "summary")}
        /\ Content(p, "summary").by = p
        /\ \A g \in ReviewFiles : g # "summary" => disk'[d][g] = disk[d][g]
        /\ \A g : <<d, g>> \in partial' <=> (<<d, g>> \in partial /\ g # "summary")
    <2>1. Content(p, "summary").by = p
      BY <1>1, <1>2, ContentOf
    <2>. QED BY <2>1, FilledFile
  <1>9. OwnFiles(p) /\ Early(p) /\ Stepped(p)
    BY <1>1 DEF ReviewKept
  <1>. HIDE DEF d
  <1>10. ~Replied(p)' /\ ask'[p] = ask[p] /\ served' = served /\ directories' = directories
    BY <1>3 DEF Replied
  <1>11. CASE next = "end"
    <2>1. ReviewKept(p)'
      BY <1>3, <1>6, <1>10, <1>11, ReviewOver
    <2>. QED BY <1>4, <1>5, <1>6, <1>7, <2>1, FillMoves
  <1>12. CASE next = "report"
    <2>1. served /\ place'[p] = "report" /\ "report" \notin PipelineFiles /\ Solo(p)
      BY <1>3, <1>4, <1>6, <1>12, TheFiles
    <2>2. Early(p)'
      <3>1. rep[p].reason = Rejection(ask[p].diff)
        BY <1>3, <1>9, <2>1 DEF Early
      <3>2. /\ rep'[p].reason = Rejection(ask'[p].diff) /\ ask'[p].dir \in directories'
            /\ place'[p] \notin {"idle", "event", "make", "prepare"} /\ served'
        BY <1>3, <1>6, <1>10, <2>1, <3>1 DEF d
      <3>. QED BY <1>3, <1>10, <2>1, <3>2 DEF Early
    <2>3. Untouched(p)'
      <3>1. \A g \in ReviewFiles : Rank(g) >= Rank("report") => Rank(g) >= Rank("summary") /\ g # "summary"
        BY TheFiles, Ranks
      <3>2. ASSUME NEW g \in ReviewFiles, Rank(g) >= Rank("report")
            PROVE  disk'[d][g] = {} /\ <<d, g>> \notin partial'
        BY <1>3, <1>8, <2>1, <3>1, <3>2
      <3>. QED BY <1>3, <1>10, <2>1, <3>2 DEF Untouched, FileOf, d
    <2>4. OwnFiles(p)'
      <3>1. ASSUME NEW g \in PipelineFiles, NEW c \in disk'[d][g]
            PROVE  c.by = p
        <4>1. \A e \in disk[d][g] : e.by = p
          BY <1>2, <1>9, <2>1 DEF OwnFiles, FileOf, d
        <4>. QED BY <1>2, <1>8, <2>1, <3>1, <4>1
      <3>. QED BY <1>10, <3>1 DEF OwnFiles, FileOf, d
    <2>5. Outcome(p)'
      <3>1. CASE rep[p].failed
        BY <1>2, <1>6, <1>9, <3>1 DEF Stepped, Outcome
      <3>2. CASE ~rep[p].failed
        <4>1. rep[p].stopped = "" /\ StagesOnDisk(d, 4)
          BY <1>2, <1>9, <2>1, <3>2 DEF Stepped, d
        <4>2. \A g \in StageFiles : Rank(g) <= 4
          BY TheFiles, Ranks
        <4>3. \A g \in PipelineFiles : disk'[d][g] # {}
          BY <1>2, <1>8, <2>1, <4>1, <4>2 DEF StagesOnDisk
        <4>. QED BY <1>6, <1>10, <3>2, <4>1, <4>3 DEF Outcome, FileOf, d
      <3>. QED BY <3>1, <3>2
    <2>6. ReviewKept(p)'
      BY <1>10, <2>1, <2>2, <2>3, <2>4, <2>5 DEF ReviewKept, Stepped, Answered
    <2>. QED BY <1>4, <1>5, <1>6, <1>7, <2>6, FillMoves
  <1>. QED BY <1>11, <1>12

\* What the report and the comment of a delivery leave as it was.
LEMMA AnswerFilled ==
    ASSUME ReviewInv, NEW p \in Reviews, Fills(p), place[p] \in {"report", "comment"}
    PROVE  /\ ReviewTypes /\ ReviewKept(p) /\ served /\ Writing(p) /\ ~Replied(p)
           /\ place[p] \in Inside /\ place[p] \in ReviewFiles
           /\ ask[p].dir \in directories /\ rep[p].reason = Rejection(ask[p].diff)
           /\ \A g \in PipelineFiles :
                 g \in ReviewFiles /\ disk'[ask[p].dir][g] = disk[ask[p].dir][g]
           /\ \A g \in PipelineFiles : \A c \in disk[ask[p].dir][g] : c.by = p
           /\ disk'[ask[p].dir][place[p]] = {[by |-> p, accepted |-> TRUE, rep |-> rep[p]]}
           /\ Solo(p) /\ p \notin opened'
           /\ UNCHANGED <<served, room, ask, directories, contested, proposal>>
  <1>1. ReviewTypes /\ ReviewKept(p)
    BY DEF ReviewInv
  <1>2. /\ place[p] \in ReviewFiles /\ place[p] \notin PipelineFiles /\ place[p] \notin StageFiles
        /\ PipelineFiles \subseteq ReviewFiles
    BY TheFiles
  <1>3. /\ served /\ Writing(p) /\ ~Replied(p) /\ place[p] \in Inside
        /\ ask[p].dir \in directories /\ Solo(p)
    BY <1>2, AtFile
  <1>4. rep[p].reason = Rejection(ask[p].diff)
    BY <1>1, <1>3 DEF ReviewKept, Early
  <1>5. \A g \in PipelineFiles : disk'[ask[p].dir][g] = disk[ask[p].dir][g]
    BY <1>2, FilledFile
  <1>6. \A g \in PipelineFiles : \A c \in disk[ask[p].dir][g] : c.by = p
    BY <1>1, <1>2, <1>3 DEF ReviewKept, OwnFiles, FileOf
  <1>7. disk'[ask[p].dir][place[p]] = {[by |-> p, accepted |-> TRUE, rep |-> rep[p]]}
    <2>1. Content(p, place[p]) = [by |-> p, accepted |-> TRUE, rep |-> rep[p]]
      BY <1>1, <1>2, ContentOf
    <2>2. disk'[ask[p].dir][place[p]] = {Content(p, place[p])}
      BY <1>3, FilledFile
    <2>. QED BY <2>1, <2>2
  <1>. QED BY <1>1, <1>2, <1>3, <1>4, <1>5, <1>6, <1>7 DEF Fills

LEMMA ReportFilled ==
    ASSUME ReviewInv, NEW p \in Reviews, Fills(p), place[p] = "report", GoesTo(p, "comment"),
           UNCHANGED <<slots, reply, rep>>
    PROVE  ReviewInv'
  <1>. DEFINE d == ask[p].dir
  <1>1. /\ ReviewTypes /\ ReviewKept(p) /\ served /\ Writing(p) /\ ~Replied(p)
        /\ place[p] \in Inside /\ d \in directories /\ rep[p].reason = Rejection(ask[p].diff)
        /\ \A g \in PipelineFiles : g \in ReviewFiles /\ disk'[d][g] = disk[d][g]
        /\ \A g \in PipelineFiles : \A c \in disk[d][g] : c.by = p
        /\ disk'[d]["report"] = {[by |-> p, accepted |-> TRUE, rep |-> rep[p]]}
        /\ Solo(p) /\ p \notin opened'
        /\ UNCHANGED <<served, room, ask, directories, contested, proposal>>
    BY AnswerFilled
  <1>2. /\ "comment" \in ReviewPlaces /\ "comment" \in Inside /\ "comment" \in ReviewFiles
        /\ "comment" \notin PipelineFiles /\ "report" \notin StageFiles
    BY TheFiles DEF ReviewPlaces
  <1>3. /\ place' = [place EXCEPT ![p] = "comment"] /\ place'[p] = "comment"
        /\ rep' \in [Reviews -> RunReport] /\ reply' \in [Reviews -> Replies]
        /\ rep' = rep /\ reply' = reply
    BY <1>1 DEF GoesTo, ReviewTypes
  <1>4. SlotsKept'
    BY <1>1, <1>2, SlotsStay
  <1>5. ~Replied(p)' /\ ask'[p] = ask[p] /\ served' = served /\ directories' = directories
    BY <1>1 DEF Replied
  <1>6. Early(p)'
    <2>1. /\ rep'[p].reason = Rejection(ask'[p].diff) /\ ask'[p].dir \in directories'
          /\ place'[p] \notin {"idle", "event", "make", "prepare"} /\ served'
      BY <1>1, <1>3, <1>5
    <2>. QED BY <1>1, <1>2, <1>3, <1>5, <2>1 DEF Early
  <1>7. Untouched(p)'
    <2>1. \A g \in ReviewFiles : Rank(g) >= Rank("comment") => g = "comment" /\ g # "report"
      BY TheFiles, Ranks
    <2>2. FileOf(p, "comment") = {} /\ <<d, "comment">> \notin partial
      <3>1. place[p] \in ReviewFiles /\ Rank("comment") >= Rank(place[p])
        BY TheFiles, Ranks
      <3>2. Solo(p) /\ served /\ "comment" \in ReviewFiles /\ "comment" # place[p]
        BY <1>1, <1>2
      <3>. QED BY <3>1, <3>2, AtFile
    <2>3. disk'[d]["comment"] = {} /\ <<d, "comment">> \notin partial'
      BY <1>2, <2>2, FilledFile DEF FileOf
    <2>. QED BY <1>1, <1>3, <1>5, <2>1, <2>3 DEF Untouched, FileOf
  <1>8. OwnFiles(p)'
    BY <1>1, <1>5 DEF OwnFiles, FileOf
  <1>9. Outcome(p)'
    <2>1. Outcome(p) /\ place[p] \in {"report", "comment"}
      BY <1>1 DEF ReviewKept
    <2>2. \A g \in PipelineFiles : FileOf(p, g)' = FileOf(p, g)
      BY <1>1, <1>5 DEF FileOf
    <2>. QED BY <1>1, <1>3, <2>1, <2>2 DEF Outcome
  <1>10. Answered(p)'
    <2>1. Content(p, "report")' = [by |-> p, accepted |-> TRUE, rep |-> rep'[p]]
      BY <1>2 DEF Content
    <2>. QED BY <1>1, <1>3, <1>5, <2>1 DEF Answered, FileOf
  <1>11. ReviewKept(p)'
    BY <1>2, <1>3, <1>6, <1>7, <1>8, <1>9, <1>10 DEF ReviewKept, Stepped
  <1>. QED BY <1>1, <1>2, <1>3, <1>4, <1>11, FillMoves

\* The delivery is answered when its comment is written.
LEMMA CommentFilled ==
    ASSUME ReviewInv, NEW p \in Reviews, Fills(p), place[p] = "comment",
           Answers(p, IF Completed(p) THEN "completed" ELSE "unavailable"), UNCHANGED rep
    PROVE  ReviewInv'
  <1>. DEFINE d == ask[p].dir
              told == IF Completed(p) THEN "completed" ELSE "unavailable"
  <1>1. /\ ReviewTypes /\ ReviewKept(p) /\ served /\ Writing(p) /\ ~Replied(p)
        /\ place[p] \in Inside /\ d \in directories /\ rep[p].reason = Rejection(ask[p].diff)
        /\ \A g \in PipelineFiles : g \in ReviewFiles /\ disk'[d][g] = disk[d][g]
        /\ \A g \in PipelineFiles : \A c \in disk[d][g] : c.by = p
        /\ disk'[d]["comment"] = {[by |-> p, accepted |-> TRUE, rep |-> rep[p]]}
        /\ Solo(p) /\ p \notin opened'
        /\ UNCHANGED <<served, room, ask, directories, contested, proposal>>
    BY AnswerFilled
  <1>2. /\ "end" \in ReviewPlaces /\ "end" \notin ReviewFiles /\ "end" \notin PipelineFiles
        /\ "report" \in ReviewFiles /\ "report" # "comment" /\ "report" \notin StageFiles
    BY TheFiles DEF ReviewPlaces
  <1>3. GoesTo(p, "end") /\ slots' = slots \ {p} /\ reply' = [reply EXCEPT ![p] = told]
    BY DEF Answers
  <1>4. told \in {"completed", "unavailable"} /\ (told = "completed" <=> Completed(p))
    OBVIOUS
  <1>. HIDE DEF told
  <1>5. /\ place' = [place EXCEPT ![p] = "end"] /\ place'[p] = "end"
        /\ rep' \in [Reviews -> RunReport] /\ rep' = rep
        /\ reply' \in [Reviews -> Replies] /\ reply'[p] = told
        /\ \A q \in Reviews : q # p => reply'[q] = reply[q]
    <2>1. told \in Replies
      BY <1>4 DEF Replies
    <2>. QED BY <1>1, <1>3, <2>1 DEF GoesTo, ReviewTypes
  <1>6. SlotsKept'
    BY <1>1, <1>3, SlotsFreed
  <1>7. Replied(p)' /\ ~Writing(p)' /\ ask'[p] = ask[p] /\ served' = served /\ directories' = directories
    BY <1>1, <1>2, <1>4, <1>5 DEF Replied, Writing
  <1>8. Early(p)'
    <2>1. /\ rep'[p].reason = Rejection(ask'[p].diff) /\ ask'[p].dir \in directories' /\ served'
      BY <1>1, <1>5, <1>7
    <2>. QED BY <1>1, <1>2, <1>5, <1>7, <2>1 DEF Early
  <1>9. OwnFiles(p)'
    BY <1>1, <1>7 DEF OwnFiles, FileOf
  <1>10. Outcome(p)'
    <2>1. Outcome(p) /\ place[p] \in {"report", "comment"}
      BY <1>1 DEF ReviewKept
    <2>. QED BY <1>1, <1>5, <1>7, <2>1 DEF Outcome, FileOf
  <1>11. Answered(p)'
    <2>1. /\ Content(p, "report")' = [by |-> p, accepted |-> TRUE, rep |-> rep'[p]]
          /\ Content(p, "report") = [by |-> p, accepted |-> TRUE, rep |-> rep[p]]
      BY <1>2 DEF Content
    <2>2. disk'[d]["report"] = {[by |-> p, accepted |-> TRUE, rep |-> rep[p]]}
      <3>1. disk[d]["report"] = {Content(p, "report")}
        BY <1>1 DEF ReviewKept, Answered, FileOf
      <3>. QED BY <1>2, <2>1, <3>1, FilledFile
    <2>3. Completed(p)' <=> Completed(p)
      BY <1>5 DEF Completed
    <2>4. (reply[p] = "completed")' = Completed(p)'
      BY <1>4, <1>5, <2>3 DEF Completed
    <2>5. /\ FileOf(p, "report")' = {Content(p, "report")'}
          /\ FileOf(p, "comment")' = FileOf(p, "report")'
      BY <1>1, <1>5, <1>7, <2>1, <2>2 DEF FileOf
    <2>. QED BY <2>4, <2>5 DEF Answered
  <1>12. ReviewKept(p)'
    BY <1>2, <1>5, <1>7, <1>8, <1>9, <1>10, <1>11 DEF ReviewKept, Stepped, Untouched
  <1>. QED BY <1>1, <1>2, <1>3, <1>5, <1>6, <1>12, FillMoves

LEMMA FillFileStep ==
    ASSUME ReviewInv, NEW p \in Reviews, FillFile(p)
    PROVE  ReviewInv'
  <1>1. Fills(p)
    <2>1. place[p] \in ReviewFiles
      BY DEF FillFile, ReviewInv, ReviewKept, Early
    <2>. QED BY <2>1 DEF FillFile, Fills
  <1>. QED BY <1>1, StageFilled, SummaryFilled, ReportFilled, CommentFilled DEF FillFile

-----------------------------------------------------------------------------
(* Local review: a process ends, and `propose-candidate` *)

LEMMA ProcessEndsStep ==
    ASSUME ReviewInv, NEW p \in Reviews, ProcessEnds(p)
    PROVE  ReviewInv'
  <1>. DEFINE gone == IF served THEN slots ELSE {p}
  <1>1. /\ place[p] \in Inside /\ slots' = {} /\ opened' = opened \ gone
        /\ place' = [q \in Reviews |-> IF q \in gone THEN "gone" ELSE place[q]]
        /\ UNCHANGED <<served, room, ask, directories, disk, partial, contested, rep, reply, proposal>>
    BY DEF ProcessEnds
  <1>2. /\ ReviewTypes /\ OwnDirectories /\ SourcesKept /\ \A q \in Reviews : ReviewKept(q)
        /\ \A d \in Directories : DirectoryKept(d)
    BY DEF ReviewInv
  <1>3. /\ \A q \in gone : q \in Reviews /\ place[q] \in Inside
        /\ served => \A q \in Reviews : place[q] \in Inside => q \in gone
    BY <1>1, <1>2 DEF ReviewTypes
  <1>. HIDE DEF gone
  <1>4. "gone" \notin Inside /\ "gone" \in ReviewPlaces /\ "end" \notin Inside /\ "idle" \notin Inside
        /\ "gone" \notin ReviewFiles
    BY TheFiles DEF ReviewPlaces
  <1>5. ReviewTypes'
    <2>1. place' \in [Reviews -> ReviewPlaces]
      BY <1>1, <1>2, <1>4 DEF ReviewTypes
    <2>2. slots' = {q \in Reviews : served' /\ place'[q] \in Inside}
      BY <1>1, <1>3, <1>4
    <2>3. IsFiniteSet(slots') /\ Cardinality(slots') = 0 /\ Cardinality(slots') <= room'
      <3>1. room' \in Nat
        BY <1>1, <1>2, RoomIsNumber
      <3>2. IsFiniteSet(slots') /\ Cardinality(slots') = 0
        BY <1>1, FS_EmptySet
      <3>. QED BY <3>1, <3>2
    <2>4. ASSUME NEW q \in Reviews, place'[q] # "idle"
          PROVE  ask'[q].dir \in Directories /\ ask'[q].diff \in (IF served' THEN Diffs ELSE Statements)
      <3>1. place[q] # "idle"
        BY <1>1, <1>3, <1>4, <2>4
      <3>. QED BY <1>1, <1>2, <3>1 DEF ReviewTypes
    <2>. QED BY <1>1, <1>2, <2>1, <2>2, <2>3, <2>4 DEF ReviewTypes, ContestedTyped
  <1>6. ASSUME NEW q \in Reviews
        PROVE  ReviewKept(q)'
    <2>1. CASE q \in gone
      <3>1. ~Replied(q)
        BY <1>2, <1>3, <1>4, <2>1 DEF ReviewKept, Early
      <3>2. place'[q] = "gone" /\ ~Replied(q)' /\ q \notin opened'
        BY <1>1, <2>1, <3>1 DEF Replied
      <3>. QED BY <3>2, ReviewOver
    <2>2. CASE q \notin gone
      BY <1>1, <1>2, <2>2, ReviewStays
    <2>. QED BY <2>1, <2>2
  <1>7. OwnDirectories'
    <2>1. \A q \in Reviews : /\ Writing(q)' => Writing(q)
                             /\ Replied(q)' = Replied(q) /\ Solo(q)' = Solo(q)
      BY <1>1, <1>4 DEF Writing, Replied, Solo
    <2>. QED BY <1>1, <1>2, <2>1 DEF OwnDirectories
  <1>8. SourcesKept' /\ \A d \in Directories : DirectoryKept(d)'
    BY <1>1, <1>2, SourcesStay, DirectoryStays
  <1>. QED BY <1>5, <1>6, <1>7, <1>8 DEF ReviewInv

LEMMA FilesTyped ==
    ASSUME ReviewTypes
    PROVE  \A d \in Directories, f \in ReviewFiles :
              \A c \in disk[d][f] : c \in File /\ c.by \in Reviews
  <1>1. disk \in [Directories -> [ReviewFiles -> SUBSET File]]
    BY DEF ReviewTypes
  <1>2. \A c \in File : c.by \in Reviews
    BY DEF File
  <1>. QED BY <1>1, <1>2

LEMMA ProposalMoves ==
    ASSUME ReviewInv, proposal' \in Proposals, SourcesKept',
           UNCHANGED <<served, room, place, ask, slots, directories, disk, partial, opened,
                       contested, rep, reply>>
    PROVE  ReviewInv'
  <1>1. ReviewTypes'
    BY DEF ReviewInv, ReviewTypes, ContestedTyped
  <1>2. OwnDirectories'
    BY DEF ReviewInv, OwnDirectories, Writing, Replied, Solo
  <1>3. \A p \in Reviews : ReviewKept(p)'
    BY ReviewStays DEF ReviewInv
  <1>4. \A d \in Directories : DirectoryKept(d)'
    BY DirectoryStays DEF ReviewInv
  <1>. QED BY <1>1, <1>2, <1>3, <1>4 DEF ReviewInv

LEMMA IdleProposal ==
    /\ Idle \in Proposals /\ Idle.sources = <<>> /\ Len(Idle.sources) = 0 /\ Idle.at = "idle"
    /\ LET failed == [Idle EXCEPT !.at = "error"]
       IN  failed \in Proposals /\ failed.sources = <<>> /\ Len(failed.sources) = 0 /\ failed.at = "error"
  <1>1. <<>> \in Seq(SUBSET Reviews) /\ {} \in SUBSET Directories /\ Len(<<>>) = 0
    OBVIOUS
  <1>. QED BY <1>1 DEF Idle, Proposals

LEMMA StartProposalStep ==
    ASSUME ReviewInv, NEW d \in Directories, StartProposal(d)
    PROVE  ReviewInv'
  <1>1. /\ proposal.at = "idle" /\ proposal \in Proposals /\ proposal.sources = <<>>
        /\ proposal' = [proposal EXCEPT !.at = "read", !.dir = {d}]
    BY DEF StartProposal, ReviewInv, ReviewTypes, SourcesKept
  <1>2. /\ proposal' \in Proposals /\ proposal'.at = "read" /\ proposal'.sources = <<>>
        /\ proposal'.dir = {d}
    BY <1>1 DEF Proposals
  <1>3. Len(proposal'.sources) = 0
    BY <1>2
  <1>4. SourcesKept'
    BY <1>2, <1>3 DEF SourcesKept, Outcomes
  <1>. QED BY <1>2, <1>4, ProposalMoves DEF StartProposal

LEMMA LoadEvidenceStep ==
    ASSUME ReviewInv, LoadEvidence
    PROVE  ReviewInv'
  <1>. DEFINE n == Len(proposal.sources) + 1
              f == Stages[n]
              length == Len(proposal.sources)
  <1>1. proposal.at = "read" /\ n <= 4 /\ proposal \in Proposals
    BY DEF LoadEvidence, ReviewInv, ReviewTypes
  <1>2. proposal.sources \in Seq(SUBSET Reviews) /\ length \in Nat /\ n \in 1..4
    <2>1. proposal.sources \in Seq(SUBSET Reviews)
      BY <1>1 DEF Proposals
    <2>. QED BY <1>1, <2>1
  <1>3. f \in StageFiles /\ f \in ReviewFiles
    BY <1>2, TheFiles
  <1>4. PICK d \in Directories : proposal.dir = {d}
    BY <1>1 DEF ReviewInv, SourcesKept
  <1>5. \/ /\ disk[d][f] # {}
           /\ proposal' = [proposal EXCEPT !.sources = Append(@, {c.by : c \in disk[d][f]})]
        \/ proposal' = [Idle EXCEPT !.at = "error"]
    <2>1. Readable(d, f) => disk[d][f] # {}
      BY DEF Readable
    <2>. QED BY <1>4, <2>1 DEF LoadEvidence
  <1>6. /\ UNCHANGED <<served, room, place, ask, slots, directories, disk, partial, opened, contested,
                       rep, reply>>
    BY DEF LoadEvidence
  <1>7. ASSUME proposal' = [Idle EXCEPT !.at = "error"]
        PROVE  ReviewInv'
    <2>1. /\ proposal' \in Proposals /\ proposal'.sources = <<>> /\ Len(proposal'.sources) = 0
          /\ proposal'.at = "error"
      BY <1>7, IdleProposal
    <2>2. SourcesKept'
      BY <2>1 DEF SourcesKept, Outcomes
    <2>. QED BY <1>6, <2>1, <2>2, ProposalMoves
  <1>8. ASSUME disk[d][f] # {},
               proposal' = [proposal EXCEPT !.sources = Append(@, {c.by : c \in disk[d][f]})]
        PROVE  ReviewInv'
    <2>. DEFINE by == {c.by : c \in disk[d][f]}
                sources == proposal.sources
    <2>1. by \in SUBSET Reviews
      <3>1. \A c \in disk[d][f] : c.by \in Reviews
        BY <1>3, <1>4, FilesTyped DEF ReviewInv
      <3>. QED BY <3>1
    <2>. HIDE DEF by
    <2>2. /\ Append(sources, by) \in Seq(SUBSET Reviews) /\ Len(Append(sources, by)) = n
          /\ Append(sources, by)[n] = by
          /\ \A i \in 1..length : Append(sources, by)[i] = sources[i]
      BY <1>2, <2>1
    <2>3. /\ proposal' \in Proposals /\ proposal'.sources = Append(sources, by)
          /\ proposal'.dir = proposal.dir /\ proposal'.at = "read"
      <3>1. proposal' = [proposal EXCEPT !.sources = Append(sources, by)]
        BY <1>8 DEF by
      <3>. HIDE DEF sources
      <3>. QED BY <1>1, <2>2, <3>1 DEF Proposals
    <2>4. d \notin contested => \A i \in 1..length :
             disk[d][Stages[i]] # {} /\ sources[i] = {c.by : c \in disk[d][Stages[i]]}
      <3>1. CASE sources = <<>>
        <4>1. 1..length = {}
          BY <3>1
        <4>. QED BY <4>1
      <3>2. CASE sources # <<>>
        <4>1. PICK e \in Directories :
                 /\ proposal.dir = {e}
                 /\ e \notin contested => \A i \in 1..Len(proposal.sources) :
                       /\ disk[e][Stages[i]] # {}
                       /\ proposal.sources[i] = {c.by : c \in disk[e][Stages[i]]}
          BY <3>2 DEF ReviewInv, SourcesKept
        <4>2. e = d
          BY <1>4, <4>1
        <4>. QED BY <4>1, <4>2
      <3>. QED BY <3>1, <3>2
    <2>5. ASSUME d \notin contested, NEW i \in 1..n
          PROVE  /\ disk'[d][Stages[i]] # {}
                 /\ proposal'.sources[i] = {c.by : c \in disk'[d][Stages[i]]}
      <3>2. CASE i = n
        BY <1>6, <1>8, <2>2, <2>3, <3>2 DEF by
      <3>3. CASE i # n
        <4>1. i \in 1..length
          BY <1>2, <3>3
        <4>. QED BY <1>6, <2>2, <2>3, <2>4, <2>5, <4>1
      <3>. QED BY <3>2, <3>3
    <2>6. SourcesKept'
      <3>1. "read" \notin Outcomes
        BY DEF Outcomes
      <3>. HIDE DEF n
      <3>. QED BY <1>1, <1>4, <1>6, <2>2, <2>3, <2>5, <3>1 DEF SourcesKept
    <2>. QED BY <1>6, <2>3, <2>6, ProposalMoves
  <1>. QED BY <1>5, <1>7, <1>8

\* A proposal ends with a CandidateSpec or one of the two reasons.
LEMMA ProposalEnds ==
    \A drafts, limit : Propose(drafts, limit) \in Outcomes
  BY DEF Propose, Outcomes

LEMMA ProposeCandidateStep ==
    ASSUME ReviewInv, NEW drafts, NEW limit, ProposeCandidate(drafts, limit)
    PROVE  ReviewInv'
  <1>1. /\ proposal.at = "read" /\ Len(proposal.sources) = 4 /\ proposal \in Proposals
        /\ proposal' = [proposal EXCEPT !.at = Propose(drafts, limit)]
        /\ Propose(drafts, limit) \in Outcomes
    BY ProposalEnds DEF ProposeCandidate, ReviewInv, ReviewTypes
  <1>2. /\ proposal' \in Proposals /\ proposal'.sources = proposal.sources
        /\ proposal'.dir = proposal.dir /\ proposal'.at \in Outcomes
    BY <1>1 DEF Proposals
  <1>3. UNCHANGED <<served, room, place, ask, slots, directories, disk, partial, opened, contested,
                    rep, reply>>
    BY DEF ProposeCandidate
  <1>4. SourcesKept'
    BY <1>1, <1>2, <1>3 DEF ReviewInv, SourcesKept, Outcomes
  <1>. QED BY <1>2, <1>3, <1>4, ProposalMoves

LEMMA ReviewInitKeeps ==
    ReviewInit => ReviewInv
  <1>. SUFFICES ASSUME ReviewInit PROVE ReviewInv
    OBVIOUS
  <1>1. \A p \in Reviews : /\ place[p] = "idle" /\ rep[p] = Blank /\ reply[p] = ""
                           /\ ~Writing(p) /\ ~Replied(p)
    BY TheFiles DEF ReviewInit, Writing, Replied
  <1>2. ReviewTypes
    <2>1. room \in 1..MaxConcurrent
      <3>1. MaxConcurrent \in Nat \ {0}
        BY ReviewAssumption
      <3>2. 1 \in 1..MaxConcurrent
        BY <3>1
      <3>3. room \in 1..MaxConcurrent \/ room = 1
        BY DEF ReviewInit
      <3>. QED BY <3>2, <3>3
    <2>2. Blank \in RunReport
      <3>1. SubSeq(Stages, 1, 0) \in SeqOf(StageFiles, 4) /\ SubSeq(Stages, 1, 0) = <<>>
        BY StagesUpTo, TheFiles
      <3>. QED BY <3>1 DEF Blank, RunReport, Reasons
    <2>3. slots = {p \in Reviews : served /\ place[p] \in Inside} /\ IsFiniteSet(slots)
          /\ Cardinality(slots) <= room
      <3>1. "idle" \notin Inside
        BY TheFiles
      <3>2. slots = {} /\ Cardinality(slots) = 0 /\ IsFiniteSet(slots)
        BY FS_EmptySet DEF ReviewInit
      <3>3. slots = {p \in Reviews : served /\ place[p] \in Inside}
        BY <1>1, <3>1, <3>2
      <3>. QED BY <2>1, <3>2, <3>3
    <2>4. proposal \in Proposals
      BY IdleProposal DEF ReviewInit
    <2>5. place \in [Reviews -> ReviewPlaces] /\ reply \in [Reviews -> Replies]
          /\ rep \in [Reviews -> RunReport]
      BY <2>2 DEF ReviewInit, ReviewPlaces, Replies
    <2>6. ask \in [Reviews -> [dir: Directories \cup {""}, diff: Diffs \cup Statements \cup {<<>>}]]
      BY DEF ReviewInit
    <2>7. disk \in [Directories -> [ReviewFiles -> SUBSET File]] /\ directories \subseteq Directories
          /\ partial \subseteq Directories \X ReviewFiles /\ served \in BOOLEAN
          /\ ContestedTyped
      BY DEF ReviewInit, ContestedTyped
    <2>8. opened \subseteq Reviews
      BY DEF ReviewInit
    <2>. QED BY <1>1, <2>1, <2>3, <2>4, <2>5, <2>6, <2>7, <2>8 DEF ReviewTypes
  <1>3. OwnDirectories
    BY <1>1 DEF OwnDirectories
  <1>4. SourcesKept
    <2>1. proposal.sources = <<>> /\ Len(proposal.sources) = 0 /\ proposal.at = "idle"
      BY IdleProposal DEF ReviewInit
    <2>. QED BY <2>1 DEF SourcesKept, Outcomes
  <1>5. ASSUME NEW p \in Reviews
        PROVE  ReviewKept(p)
    <2>1. place[p] \notin ReviewFiles /\ place[p] \notin PipelineFiles /\ p \notin opened
      BY <1>1, TheFiles DEF ReviewInit
    <2>2. Early(p)
      BY <1>1, <2>1 DEF Early
    <2>. QED BY <1>1, <2>1, <2>2
         DEF ReviewKept, Untouched, Stepped, OwnFiles, Outcome, Answered
  <1>6. ASSUME NEW d \in Directories
        PROVE  DirectoryKept(d)
    <2>1. \A f \in ReviewFiles : disk[d][f] = {} /\ <<d, f>> \notin partial
      BY DEF ReviewInit
    <2>2. PipelineFiles \subseteq ReviewFiles /\ "summary" \in ReviewFiles
      BY TheFiles
    <2>. QED BY <2>1, <2>2 DEF DirectoryKept, OneRun, Listed
  <1>. QED BY <1>2, <1>3, <1>4, <1>5, <1>6 DEF ReviewInv

LEMMA ReviewInvStep ==
    ReviewInv /\ [ReviewNext]_reviewVars => ReviewInv'
  <1>. SUFFICES ASSUME ReviewInv, [ReviewNext]_reviewVars PROVE ReviewInv'
    OBVIOUS
  <1>1. ASSUME NEW p \in Reviews, NEW d \in Directories, NEW diff \in Diffs, Deliver(p, d, diff)
        PROVE  ReviewInv'
    BY <1>1, DeliverStep
  <1>2. ASSUME NEW p \in Reviews, NEW d \in Directories,
               NEW sql \in {<<"+select">>, <<"+drop">>}, StartPipeline(p, d, sql)
        PROVE  ReviewInv'
    <2>1. sql \in Statements
      BY DEF Statements
    <2>. QED BY <1>2, <2>1, StartPipelineStep
  <1>3. ASSUME NEW p \in Reviews,
               \/ Handle(p) \/ CreateDeliveryDir(p) \/ PrepareOutputDir(p)
               \/ CreateFile(p) \/ FillFile(p) \/ WriteFails(p) \/ StageStops(p) \/ ProcessEnds(p)
        PROVE  ReviewInv'
    BY <1>3, HandleStep, CreateDeliveryDirStep, PrepareOutputDirStep, CreateFileStep,
       FillFileStep, WriteFailsStep, StageStopsStep, ProcessEndsStep
  <1>4. ASSUME NEW d \in Directories, StartProposal(d)
        PROVE  ReviewInv'
    BY <1>4, StartProposalStep
  <1>5. CASE LoadEvidence
    BY <1>5, LoadEvidenceStep
  <1>6. ASSUME NEW drafts, NEW limit, ProposeCandidate(drafts, limit)
        PROVE  ReviewInv'
    BY <1>6, ProposeCandidateStep
  <1>7. CASE UNCHANGED reviewVars
    <2>1. UNCHANGED <<served, room, place, ask, slots, directories, disk, partial, opened, contested,
                      rep, reply, proposal>>
      BY <1>7 DEF reviewVars
    <2>2. proposal' \in Proposals /\ SourcesKept'
      BY <2>1, SourcesStay DEF ReviewInv, ReviewTypes
    <2>. QED BY <2>1, <2>2, ProposalMoves
  <1>. QED BY <1>1, <1>2, <1>3, <1>4, <1>5, <1>6, <1>7 DEF ReviewNext

\* Where every review is, what it has on disk and what its report says of it:
\* the inductive invariant of the local review.
THEOREM ReviewInvariant == ReviewSpec => []ReviewInv
  <1>. QED BY ReviewInitKeeps, ReviewInvStep, PTL DEF ReviewSpec

\* Slots, files, reports and proposals are what the server and the pipeline make
\* of them, no more reviews are inside than there is room for (webhook.go:132-164),
\* and a file of a directory that was not contested holds one content.
THEOREM ReviewTypeCorrect == ReviewSpec => []ReviewTypeOK
  <1>1. ReviewInv => ReviewTypeOK
    <2>. SUFFICES ASSUME ReviewInv PROVE ReviewTypeOK
      OBVIOUS
    <2>1. ReviewTypes /\ \A d \in Directories : DirectoryKept(d)
      BY DEF ReviewInv
    <2>2. ASSUME NEW d \in Directories, NEW f \in ReviewFiles
          PROVE  /\ d \notin contested => Cardinality(disk[d][f]) <= 1
                 /\ \A c \in disk[d][f] : c.by \in Reviews /\ d \in directories
      <3>1. /\ d \notin contested => \A c, e \in disk[d][f] : c = e
            /\ d \notin directories => disk[d][f] = {}
        BY <2>1 DEF DirectoryKept, OneRun
      <3>2. \A c \in disk[d][f] : c.by \in Reviews /\ d \in directories
        BY <2>1, <3>1, FilesTyped
      <3>3. d \notin contested => Cardinality(disk[d][f]) <= 1
        BY <3>1, SmallSets
      <3>. QED BY <3>2, <3>3
    <2>3. \A p \in Reviews : rep[p].steps \in SeqOf(StageFiles, 4)
      BY <2>1 DEF ReviewTypes, RunReport
    <2>4. proposal.at \in {"idle", "read", "error"} \cup Outcomes
      BY <2>1 DEF ReviewTypes, Proposals
    <2>5. \A p \in opened : place[p] \in ReviewFiles
      <3>1. opened \subseteq Reviews
        BY DEF ReviewInv, ReviewTypes
      <3>. QED BY <3>1 DEF ReviewInv, ReviewKept, Early
    <2>. QED BY <2>1, <2>2, <2>3, <2>4, <2>5
         DEF ReviewTypeOK, ReviewTypes, ContestedTyped, ReviewPlaces, Replies
  <1>. QED BY <1>1, ReviewInvariant, PTL

\* No step of any review touches a file that has content, but for runs of
\* `pipeline` that passed the check of one empty directory together: neither a
\* second delivery with its id nor a run that comes later (webhook.go:259,
\* pipeline.go:250).
THEOREM FilesAreNeverRewritten == ReviewSpec => NeverRewritten
  <1>. DEFINE FilesStay == \A d \in Directories \ contested', f \in ReviewFiles :
                         disk[d][f] # {} => disk'[d][f] = disk[d][f]
  <1>1. ASSUME ReviewInv, NEW p \in Reviews, CreateFile(p)
        PROVE  FilesStay
    <2>1. contested' = contested
      BY <1>1 DEF CreateFile
    <2>. QED BY <1>1, <2>1, CreateFileKeeps DEF Solo
  <1>2. ASSUME ReviewInv, NEW p \in Reviews, FillFile(p)
        PROVE  FilesStay
    <2>1. Fills(p)
      <3>1. place[p] \in ReviewFiles
        BY <1>2 DEF FillFile, ReviewInv, ReviewKept, Early
      <3>. QED BY <1>2, <3>1 DEF FillFile, Fills
    <2>. QED BY <1>2, <2>1, FilledFile DEF WritesInside
  <1>3. ReviewInv /\ [ReviewNext]_reviewVars => FilesStay
    <2>1. ASSUME ReviewNext, ~(\E p \in Reviews : CreateFile(p) \/ FillFile(p))
          PROVE  disk' = disk
      BY <2>1 DEF ReviewNext, Deliver, StartPipeline, Handle, CreateDeliveryDir,
         PrepareOutputDir, WriteFails, StageStops, ProcessEnds, StartProposal, LoadEvidence,
         ProposeCandidate
    <2>2. UNCHANGED reviewVars => disk' = disk
      BY DEF reviewVars
    <2>. QED BY <1>1, <1>2, <2>1, <2>2
  <1>4. ReviewInv /\ [ReviewNext]_reviewVars => [FilesStay]_reviewVars
    BY <1>3
  <1>. QED BY <1>4, ReviewInvariant, PTL DEF ReviewSpec, NeverRewritten

\* Accepted deliveries have their report and comment, and a verification is
\* called completed exactly when its diff adds one SELECT and its pipeline left
\* all its files, for diffs of any length (webhook.go:187-279).
THEOREM AnswersAreOnDisk == ReviewSpec => []AnswersOnDisk
  <1>1. ReviewInv => AnswersOnDisk
    <2>. SUFFICES ASSUME ReviewInv, NEW p \in Reviews, Replied(p)
                  PROVE  LET mine == disk[ask[p].dir]
                         IN  /\ mine["report"] = {Content(p, "report")}
                             /\ mine["comment"] = mine["report"]
                             /\ (rep[p].reason = "") = OneSelect(ask[p].diff)
                             /\ (reply[p] = "completed") =
                                   (/\ OneSelect(ask[p].diff) /\ rep[p].stopped = ""
                                    /\ \A f \in PipelineFiles :
                                          mine[f] # {} /\ \A c \in mine[f] : c.by = p)
      BY DEF AnswersOnDisk, Replied, OneSelect
    <2>1. ReviewTypes /\ Early(p) /\ OwnFiles(p) /\ Outcome(p) /\ Answered(p)
      BY DEF ReviewInv, ReviewKept
    <2>2. served /\ place[p] = "end" /\ rep[p].reason = Rejection(ask[p].diff) /\ Solo(p)
      BY <2>1 DEF Early, ReviewTypes, ContestedTyped, Solo
    <2>3. (rep[p].reason = "") = OneSelect(ask[p].diff)
      <3>1. ask[p].diff \in Seq(STRING)
        BY <2>1, <2>2, ReviewAssumption DEF ReviewTypes
      <3>2. Len(ask[p].diff) \in Nat /\ DOMAIN ask[p].diff = 1..Len(ask[p].diff)
        BY <3>1
      <3>. QED BY <2>2, <3>2, RejectionIsRight
    <2>4. /\ FileOf(p, "report") = {Content(p, "report")}
          /\ FileOf(p, "comment") = FileOf(p, "report")
          /\ (reply[p] = "completed") = (~rep[p].failed /\ rep[p].reason = "")
      BY <2>1, <2>2 DEF Answered, Completed
    <2>5. \A f \in PipelineFiles : \A c \in FileOf(p, f) : c.by = p
      BY <2>1, <2>2 DEF OwnFiles
    <2>6. (~rep[p].failed /\ rep[p].reason = "") <=>
             /\ rep[p].reason = "" /\ rep[p].stopped = ""
             /\ \A f \in PipelineFiles : FileOf(p, f) # {}
      BY <2>1, <2>2 DEF Outcome
    <2>7. OneSelect(ask[p].diff) \in BOOLEAN
      BY DEF OneSelect
    <2>8. (reply[p] = "completed") =
             (/\ OneSelect(ask[p].diff) /\ rep[p].stopped = ""
              /\ \A f \in PipelineFiles : FileOf(p, f) # {} /\ \A c \in FileOf(p, f) : c.by = p)
      BY <2>3, <2>4, <2>5, <2>6, <2>7
    <2>. QED BY <2>3, <2>4, <2>8 DEF FileOf
  <1>. QED BY <1>1, ReviewInvariant, PTL

\* A summary that is on disk lists stages in their order and without a gap; they
\* are those that are on disk beside it, of its own run, unless the directory was
\* contested (pipeline.go:179, 210).
THEOREM SummariesAreTrue == ReviewSpec => []SummaryTrue
  <1>1. ReviewInv => SummaryTrue
    <2>. SUFFICES ASSUME ReviewInv, NEW d \in Directories, NEW s \in disk[d]["summary"]
                  PROVE  /\ s.rep.steps = SubSeq(Stages, 1, Len(s.rep.steps))
                         /\ d \notin contested =>
                               \A f \in StageFiles :
                                  (f \in ToSet(s.rep.steps)) =
                                     (disk[d][f] # {} /\ \A c \in disk[d][f] : c.by = s.by)
      BY DEF SummaryTrue
    <2>1. DirectoryKept(d) /\ Listed(d)
      BY DEF ReviewInv, DirectoryKept
    <2>2. PICK k \in 0..4 : /\ s.rep.steps = SubSeq(Stages, 1, k)
                            /\ d \notin contested => StagesOnDisk(d, k)
      BY <2>1 DEF Listed
    <2>3. Len(s.rep.steps) = k /\ ToSet(s.rep.steps) = {f \in StageFiles : Rank(f) <= k}
      BY <2>2, StagesUpTo
    <2>4. StageFiles \subseteq PipelineFiles /\ "summary" \in PipelineFiles
      BY TheFiles
    <2>5. ASSUME d \notin contested, NEW f \in StageFiles
          PROVE  (f \in ToSet(s.rep.steps)) =
                    (disk[d][f] # {} /\ \A c \in disk[d][f] : c.by = s.by)
      <3>1. (f \in ToSet(s.rep.steps)) <=> Rank(f) <= k
        BY <2>3
      <3>2. (disk[d][f] # {}) <=> Rank(f) <= k
        BY <2>2, <2>5 DEF StagesOnDisk
      <3>3. \A c \in disk[d][f] : c.by = s.by
        BY <2>1, <2>4, <2>5 DEF DirectoryKept, OneRun
      <3>. QED BY <3>1, <3>2, <3>3
    <2>. QED BY <2>2, <2>3, <2>5
  <1>. QED BY <1>1, ReviewInvariant, PTL

\* A proposal is made from four files of one run, unless their directory was
\* contested (proposal.go:72-123).
THEOREM ProposalsAreTraceable == ReviewSpec => []ProposalTraceable
  <1>1. ReviewInv => ProposalTraceable
    <2>. SUFFICES ASSUME ReviewInv, proposal.at \in Outcomes, proposal.dir \cap contested = {}
                  PROVE  \E p \in Reviews : \A n \in 1..4 : proposal.sources[n] = {p}
      BY DEF ProposalTraceable
    <2>1. ReviewTypes /\ Len(proposal.sources) = 4 /\ proposal.sources # <<>>
      <3>1. Len(proposal.sources) = 4
        BY DEF ReviewInv, SourcesKept
      <3>2. Len(<<>>) = 0
        OBVIOUS
      <3>. QED BY <3>1, <3>2 DEF ReviewInv
    <2>2. PICK d \in Directories :
             /\ d \notin contested
             /\ \A n \in 1..4 : /\ disk[d][Stages[n]] # {}
                                /\ proposal.sources[n] = {c.by : c \in disk[d][Stages[n]]}
      BY <2>1 DEF ReviewInv, SourcesKept
    <2>3. \A n \in 1..4 : Stages[n] \in PipelineFiles /\ Stages[n] \in ReviewFiles
      BY TheFiles
    <2>4. \A m, n \in 1..4 : \A c \in disk[d][Stages[m]], e \in disk[d][Stages[n]] : c.by = e.by
      BY <2>2, <2>3 DEF ReviewInv, DirectoryKept, OneRun
    <2>5. 1 \in 1..4
      OBVIOUS
    <2>6. PICK c \in disk[d][Stages[1]] : TRUE
      BY <2>2, <2>5
    <2>7. c.by \in Reviews
      <3>1. Stages[1] \in ReviewFiles
        BY <2>3, <2>5
      <3>. QED BY <2>1, <2>2, <2>6, <3>1, FilesTyped
    <2>8. \A n \in 1..4 : proposal.sources[n] = {c.by}
      BY <2>2, <2>4, <2>5, <2>6
    <2>. QED BY <2>7, <2>8
  <1>. QED BY <1>1, ReviewInvariant, PTL

-----------------------------------------------------------------------------
(* Diagnoses: what is bound was derived from what it is bound with *)

AtMostOne(file) == \A x, y \in file : x = y

DiagnosesDerived == \A d \in diagnosis : d.hypotheses = Derive(d.source)

\* A series is about the measurement it judged, and L2 only when that one is
\* eligible.
Judged(s) == s.file = s.of.file /\ (s.level = "L2" => s.of.eligible)

SeriesJudged == \A s \in series : Judged(s)

\* The four reports are empty or hold one report, and a diagnosis holds what is
\* derived of the comparison it names; a series has judged what it names.
ReportsKept ==
    /\ shadow \in [snapshot: Snapshots, index: Indexes]
    /\ AtMostOne(comparison) /\ AtMostOne(diagnosis)
    /\ AtMostOne(measurement) /\ AtMostOne(series)
    /\ \A c \in comparison : c.plans \in PlanPairs
    /\ DiagnosesDerived /\ SeriesJudged
    /\ commands \in 0..MaxCommands

\* What `bind-evidence` holds was read before now, and its first report is a
\* diagnosis and its fourth a series; its own report says nothing until it has all four.
BindingKept ==
    /\ binding = [read |-> binding.read, at |-> binding.at, report |-> binding.report]
    /\ binding.read \in Seq({binding.read[n] : n \in DOMAIN binding.read})
    /\ Len(binding.read) <= 4
    /\ Len(binding.read) >= 1 => binding.read[1].hypotheses = Derive(binding.read[1].source)
    /\ Len(binding.read) >= 4 => Judged(binding.read[4])
    /\ binding.at \in {"idle", "reading", "done"}
    /\ binding.at # "done" => binding.report = NoBinding.report
    /\ binding.at = "done" =>
          LET e == binding.read
          IN  Len(e) = 4 /\ binding.report = Bind(e[1], e[2], e[3], e[4])

DiagnosisInv == ReportsKept /\ BindingKept

LEMMA DiagnosisStarts == DiagnosisInit => DiagnosisInv
  <1>. SUFFICES ASSUME DiagnosisInit PROVE DiagnosisInv
    OBVIOUS
  <1>1. ReportsKept
    BY DiagnosisAssumption
       DEF DiagnosisInit, ReportsKept, AtMostOne, DiagnosesDerived, SeriesJudged
  <1>2. binding.read = <<>> /\ binding.at = "idle" /\ binding.report = NoBinding.report
        /\ binding = [read |-> binding.read, at |-> binding.at, report |-> binding.report]
    BY DEF DiagnosisInit, NoBinding
  <1>3. binding.read \in Seq({binding.read[n] : n \in DOMAIN binding.read}) /\ Len(binding.read) = 0
    BY <1>2
  <1>4. BindingKept
    BY <1>2, <1>3 DEF BindingKept
  <1>. QED BY <1>1, <1>4 DEF DiagnosisInv

\* A command other than bind-evidence leaves the binding alone.
LEMMA BindingUntouched == ASSUME BindingKept, UNCHANGED binding PROVE BindingKept'
  BY DEF BindingKept

LEMMA CommandCounts ==
    ASSUME ReportsKept, Command PROVE commands' \in 0..MaxCommands
  BY DiagnosisAssumption DEF ReportsKept, Command

\* Every command that writes a report writes one.
LEMMA ReportsStay ==
    ASSUME ReportsKept,
           \/ ShadowChanges \/ DiagnosePlan \/ Bench \/ AdmitSeries \/ Truncate
           \/ \E pair \in PlanPairs : ExplainCompare(pair)
    PROVE  ReportsKept' /\ UNCHANGED binding
  <1>. USE DEF AtMostOne
  <1>1. CASE ShadowChanges
    BY <1>1, CommandCounts DEF ShadowChanges, ReportsKept, DiagnosesDerived, SeriesJudged
  <1>2. CASE DiagnosePlan
    <2>1. PICK c \in comparison : diagnosis' = {Analyze(c)}
      BY <1>2 DEF DiagnosePlan
    <2>2. Analyze(c).hypotheses = Derive(Analyze(c).source)
      BY DEF Analyze
    <2>3. AtMostOne(diagnosis')
      BY <2>1
    <2>4. DiagnosesDerived'
      BY <2>1, <2>2 DEF DiagnosesDerived
    <2>. HIDE DEF AtMostOne
    <2>. QED BY <1>2, <2>3, <2>4, CommandCounts DEF DiagnosePlan, ReportsKept, SeriesJudged, AtMostOne
  <1>3. CASE Bench
    <2>1. AtMostOne(measurement')
      BY <1>3 DEF Bench
    <2>. HIDE DEF AtMostOne
    <2>. QED BY <1>3, <2>1, CommandCounts DEF Bench, ReportsKept, DiagnosesDerived, SeriesJudged, AtMostOne
  <1>4. CASE AdmitSeries
    <2>1. PICK m \in measurement, quiet \in BOOLEAN : series' = {Evaluate(m, quiet)}
      BY <1>4 DEF AdmitSeries
    <2>2. AtMostOne(series')
      BY <2>1
    <2>3. Judged(Evaluate(m, quiet))
      BY DEF Evaluate, Judged
    <2>4. SeriesJudged'
      BY <2>1, <2>3 DEF SeriesJudged
    <2>. HIDE DEF AtMostOne
    <2>. QED BY <1>4, <2>2, <2>4, CommandCounts DEF AdmitSeries, ReportsKept, DiagnosesDerived, AtMostOne
  <1>5. CASE Truncate
    BY <1>5, CommandCounts DEF Truncate, ReportsKept, DiagnosesDerived, SeriesJudged
  <1>6. CASE \E pair \in PlanPairs : ExplainCompare(pair)
    <2>1. PICK pair \in PlanPairs : ExplainCompare(pair)
      BY <1>6
    <2>2. PICK b, c : comparison' = {BuildReport(pair, b, c)}
      BY <2>1 DEF ExplainCompare
    <2>3. BuildReport(pair, b, c).plans = pair
      BY DEF BuildReport
    <2>4. (\A x \in comparison' : x.plans \in PlanPairs) /\ AtMostOne(comparison')
      BY <2>2, <2>3
    <2>. HIDE DEF AtMostOne
    <2>. QED BY <2>1, <2>4, CommandCounts DEF ExplainCompare, ReportsKept, DiagnosesDerived, SeriesJudged, AtMostOne
  <1>. QED BY <1>1, <1>2, <1>3, <1>4, <1>5, <1>6

LEMMA EvidenceIsRead ==
    ASSUME DiagnosisInv, ReadEvidence PROVE DiagnosisInv'
  <1>1. ReportsKept'
    BY DEF DiagnosisInv, ReportsKept, DiagnosesDerived, SeriesJudged, ReadEvidence, AtMostOne
  <1>. DEFINE e == binding.read
              S == {e[n] : n \in DOMAIN e}
              k == Len(e) + 1
  <1>2. /\ binding = [read |-> e, at |-> binding.at, report |-> binding.report]
        /\ e \in Seq(S) /\ binding.at # "done" /\ k <= 4
        /\ binding.report = NoBinding.report
    BY DEF DiagnosisInv, BindingKept, ReadEvidence
  <1>3. PICK r \in <<diagnosis, comparison, measurement, series>>[k] :
           binding' = [binding EXCEPT !.at = "reading", !.read = Append(@, r)]
    BY DEF ReadEvidence
  <1>. HIDE DEF S
  <1>4. /\ binding'.read = Append(e, r) /\ binding'.at = "reading"
        /\ binding'.report = NoBinding.report
        /\ binding' = [read |-> Append(e, r), at |-> "reading", report |-> binding.report]
    BY <1>2, <1>3
  <1>5. /\ Append(e, r) \in Seq(S \cup {r}) /\ Len(Append(e, r)) = k
        /\ Len(e) \in Nat /\ Append(e, r)[k] = r
        /\ \A n \in 1..Len(e) : Append(e, r)[n] = e[n]
        /\ DOMAIN Append(e, r) = 1..k
    BY <1>2
  <1>6. \A n \in DOMAIN Append(e, r) :
           Append(e, r)[n] \in {Append(e, r)[m] : m \in DOMAIN Append(e, r)}
    OBVIOUS
  <1>7. Append(e, r) \in Seq({Append(e, r)[m] : m \in DOMAIN Append(e, r)})
    <2>. DEFINE a == Append(e, r)
                T == {a[m] : m \in DOMAIN a}
    <2>1. a \in Seq(S \cup {r}) /\ \A n \in DOMAIN a : a[n] \in T
      BY <1>5, <1>6
    <2>. HIDE DEF a, T
    <2>2. a \in Seq(T)
      BY <2>1
    <2>. QED BY <2>2 DEF a, T
  <1>8. Append(e, r)[1].hypotheses = Derive(Append(e, r)[1].source)
    <2>1. CASE Len(e) = 0
      <3>1. k = 1 /\ r \in diagnosis
        BY <1>3, <2>1
      <3>2. r.hypotheses = Derive(r.source)
        BY <3>1 DEF DiagnosisInv, ReportsKept, DiagnosesDerived, SeriesJudged
      <3>. QED BY <1>5, <3>1, <3>2
    <2>2. CASE Len(e) # 0
      <3>1. Len(e) >= 1 /\ 1 \in 1..Len(e)
        BY <1>5, <2>2
      <3>2. e[1].hypotheses = Derive(e[1].source)
        BY <3>1 DEF DiagnosisInv, BindingKept
      <3>. QED BY <1>5, <3>1, <3>2
    <2>. QED BY <2>1, <2>2
  <1>9. k >= 4 => Judged(Append(e, r)[4])
    <2>. SUFFICES ASSUME k >= 4 PROVE Judged(Append(e, r)[4])
      OBVIOUS
    <2>1. k = 4
      BY <1>2, <1>5
    <2>2. r \in series
      BY <1>3, <2>1
    <2>3. Judged(r)
      BY <2>2 DEF DiagnosisInv, ReportsKept, SeriesJudged
    <2>4. Append(e, r)[4] = r
      BY <1>5, <2>1
    <2>. QED BY <2>3, <2>4
  <1>10. BindingKept'
    <2>. DEFINE a == Append(e, r)
    <2>1. /\ binding' = [read |-> binding'.read, at |-> binding'.at, report |-> binding'.report]
          /\ binding'.read = a
      BY <1>2, <1>4
    <2>2. a \in Seq({a[m] : m \in DOMAIN a}) /\ Len(a) <= 4
      BY <1>2, <1>5, <1>7
    <2>3. a[1].hypotheses = Derive(a[1].source) /\ (Len(a) >= 4 => Judged(a[4]))
      BY <1>5, <1>8, <1>9
    <2>. HIDE DEF a
    <2>4. binding'.read \in Seq({binding'.read[n] : n \in DOMAIN binding'.read})
      BY <2>1, <2>2
    <2>5. binding'.read[1].hypotheses = Derive(binding'.read[1].source)
          /\ (Len(binding'.read) >= 4 => Judged(binding'.read[4]))
      BY <2>1, <2>3
    <2>. QED BY <1>4, <2>1, <2>2, <2>4, <2>5 DEF BindingKept, Derive, Judged, NoBinding
  <1>. QED BY <1>1, <1>10 DEF DiagnosisInv

LEMMA EvidenceIsBound ==
    ASSUME DiagnosisInv, BindEvidence PROVE DiagnosisInv'
  <1>1. ReportsKept'
    BY DEF DiagnosisInv, ReportsKept, DiagnosesDerived, SeriesJudged, BindEvidence, AtMostOne
  <1>. DEFINE e == binding.read
              answerOf == Bind(e[1], e[2], e[3], e[4])
  <1>2. /\ binding = [read |-> e, at |-> binding.at, report |-> binding.report]
        /\ binding' = [binding EXCEPT !.at = "done", !.report = answerOf]
        /\ Len(e) = 4
    BY DEF DiagnosisInv, BindingKept, BindEvidence
  <1>. HIDE DEF answerOf
  <1>3. /\ binding'.read = e /\ binding'.at = "done" /\ binding'.report = answerOf
        /\ binding' = [read |-> binding'.read, at |-> binding'.at, report |-> binding'.report]
    BY <1>2
  <1>4. binding'.report = Bind(binding'.read[1], binding'.read[2], binding'.read[3], binding'.read[4])
    BY <1>3 DEF answerOf
  <1>5. binding'.read \in Seq({binding'.read[n] : n \in DOMAIN binding'.read})
        /\ binding'.read[1].hypotheses = Derive(binding'.read[1].source)
        /\ Judged(binding'.read[4])
    BY <1>2, <1>3 DEF DiagnosisInv, BindingKept
  <1>6. Len(binding'.read) = 4
    BY <1>2, <1>3
  <1>7. BindingKept'
    BY <1>3, <1>4, <1>5, <1>6 DEF BindingKept
  <1>. QED BY <1>1, <1>7 DEF DiagnosisInv

\* The reports on disk and those `bind-evidence` has read so far: the inductive
\* invariant of the diagnosis commands (bind_evidence.go:11-57).
THEOREM DiagnosisInvariant == DiagnosisSpec => []DiagnosisInv
  <1>1. DiagnosisInv /\ [DiagnosisNext]_diagnosisVars => DiagnosisInv'
    <2>. SUFFICES ASSUME DiagnosisInv, [DiagnosisNext]_diagnosisVars PROVE DiagnosisInv'
      OBVIOUS
    <2>1. CASE \/ ShadowChanges \/ DiagnosePlan \/ Bench \/ AdmitSeries \/ Truncate
               \/ \E pair \in PlanPairs : ExplainCompare(pair)
      BY <2>1, ReportsStay, BindingUntouched DEF DiagnosisInv
    <2>2. CASE ReadEvidence
      BY <2>2, EvidenceIsRead
    <2>3. CASE BindEvidence
      BY <2>3, EvidenceIsBound
    <2>4. CASE UNCHANGED diagnosisVars
      BY <2>4 DEF diagnosisVars, DiagnosisInv, ReportsKept, DiagnosesDerived, SeriesJudged, BindingKept, AtMostOne
    <2>. QED BY <2>1, <2>2, <2>3, <2>4 DEF DiagnosisNext
  <1>. QED BY <1>1, DiagnosisStarts, PTL DEF DiagnosisSpec

\* Every report is one of the plans of this build and every file holds at most
\* one (cmd/sentinel/main.go:120-329).
THEOREM DiagnosisTypeCorrect == DiagnosisSpec => []DiagnosisTypeOK
  <1>1. DiagnosisInv => DiagnosisTypeOK
    <2>. SUFFICES ASSUME DiagnosisInv PROVE DiagnosisTypeOK
      OBVIOUS
    <2>1. ASSUME NEW file, AtMostOne(file) PROVE Cardinality(file) <= 1
      <3>1. CASE file = {}
        <4>1. Cardinality(file) = 0
          BY <3>1, FS_EmptySet
        <4>. QED BY <4>1
      <3>2. CASE file # {}
        <4>1. PICK x : file = {x}
          BY <2>1, <3>2 DEF AtMostOne
        <4>2. Cardinality({x}) = 1
          BY FS_Singleton
        <4>. QED BY <4>1, <4>2
      <3>. QED BY <3>1, <3>2
    <2>2. \A file \in Reports : Cardinality(file) <= 1
      <3>1. \A file \in Reports : AtMostOne(file)
        BY DEF DiagnosisInv, ReportsKept, Reports
      <3>. QED BY <2>1, <3>1
    <2>. QED BY <2>2 DEF DiagnosisTypeOK, DiagnosisInv, ReportsKept, BindingKept
  <1>. QED BY <1>1, DiagnosisInvariant, PTL

\* The hypotheses of complete evidence are those of the comparison that was
\* read, the measurement is of the same snapshot and index, and what is bound
\* inherits the verdict on an eligible measurement at its path, whatever was
\* rewritten between the four reads (bind.go:107-139, admission.go:94-99).
THEOREM EvidenceIsNotMixed == DiagnosisSpec => []BoundTogether
  <1>1. DiagnosisInv => BoundTogether
    <2>. SUFFICES ASSUME DiagnosisInv, binding.report.complete
                  PROVE  LET e == binding.read
                         IN  /\ e[1].hypotheses = Derive(e[2])
                             /\ e[3].snapshot = e[2].snapshot /\ e[3].index = e[2].index
                             /\ binding.report.bound => e[4].of.eligible /\ e[4].of.file = e[3].file
      BY DEF BoundTogether
    <2>. DEFINE e == binding.read
    <2>1. binding.at = "done"
      BY DEF DiagnosisInv, BindingKept, NoBinding
    <2>2. /\ binding.report = Bind(e[1], e[2], e[3], e[4])
          /\ e[1].hypotheses = Derive(e[1].source)
          /\ Judged(e[4])
      BY <2>1 DEF DiagnosisInv, BindingKept
    <2>. DEFINE complete == IdentityComplete(e[1], e[2], e[3], e[4])
                bound == complete /\ e[4].level = "L2"
    <2>3. Bind(e[1], e[2], e[3], e[4]) = [complete |-> complete, bound |-> bound]
      BY DEF Bind
    <2>. HIDE DEF complete, bound
    <2>4. complete /\ binding.report.bound = bound
      BY <2>2, <2>3
    <2>5. IdentityComplete(e[1], e[2], e[3], e[4])
      BY <2>4 DEF complete
    <2>6. binding.report.bound => e[4].level = "L2"
      BY <2>4 DEF bound
    <2>7. e[4].file = e[3].file
      BY <2>5 DEF IdentityComplete
    <2>8. binding.report.bound => e[4].of.eligible /\ e[4].of.file = e[3].file
      BY <2>2, <2>6, <2>7 DEF Judged
    <2>. QED BY <2>2, <2>5, <2>8 DEF IdentityComplete
  <1>. QED BY <1>1, DiagnosisInvariant, PTL

-----------------------------------------------------------------------------
(* Sums, in whatever order *)

\* The sums of the first 0..n of some numbers.
Running(n, v, g) ==
    g \in [0..n -> Int] /\ g[0] = 0 /\ \A i \in 1..n : g[i] = g[i - 1] + v[i]

IsSum(n, v, s) == \E g : Running(n, v, g) /\ g[n] = s

LEMMA SumExists ==
    ASSUME NEW n \in Nat, NEW v \in [1..n -> Int]
    PROVE  \E g : Running(n, v, g)
  <1>. DEFINE Missing == {k \in 0..n : \A g : ~Running(k, v, g)}
  <1>1. ASSUME Missing # {} PROVE FALSE
    <2>1. PICK k \in Missing : \A j \in Missing : k <= j
      <3>1. Missing \in SUBSET Nat
        OBVIOUS
      <3>. HIDE DEF Missing
      <3>. QED BY <1>1, <3>1, LeastNumber
    <2>2. k \in 0..n /\ \A g : ~Running(k, v, g)
      BY <2>1
    <2>3. CASE k = 0
      <3>1. Running(0, v, [i \in 0..0 |-> 0])
        BY DEF Running
      <3>. QED BY <2>2, <2>3, <3>1
    <2>4. CASE k # 0
      <3>1. k \in 1..n /\ k - 1 \in 0..n /\ ~(k <= k - 1) /\ v[k] \in Int
        BY <2>2, <2>4
      <3>2. k - 1 \notin Missing
        <4>. HIDE DEF Missing
        <4>. QED BY <2>1, <3>1
      <3>3. PICK g : Running(k - 1, v, g)
        BY <3>1, <3>2
      <3>. DEFINE h == [i \in 0..k |-> IF i = k THEN g[k - 1] + v[k] ELSE g[i]]
      <3>4. g \in [0..(k - 1) -> Int] /\ g[0] = 0
            /\ \A i \in 1..(k - 1) : g[i] = g[i - 1] + v[i]
        BY <3>3 DEF Running
      <3>5. g[k - 1] \in Int /\ \A i \in 0..k : i # k => i \in 0..(k - 1) /\ g[i] \in Int
        BY <3>1, <3>4
      <3>6. h \in [0..k -> Int] /\ h[0] = 0
        BY <3>1, <3>4, <3>5
      <3>7. \A i \in 1..k : h[i] = h[i - 1] + v[i]
        <4>. SUFFICES ASSUME NEW i \in 1..k PROVE h[i] = h[i - 1] + v[i]
          OBVIOUS
        <4>1. i \in 0..k /\ i - 1 \in 0..k /\ i - 1 # k
          BY <3>1
        <4>2. CASE i = k
          BY <4>1, <4>2
        <4>3. CASE i # k
          <5>1. i \in 1..(k - 1)
            BY <3>1, <4>3
          <5>. QED BY <3>4, <4>1, <4>3, <5>1
        <4>. QED BY <4>2, <4>3
      <3>8. Running(k, v, h)
        <4>. HIDE DEF h
        <4>. QED BY <3>6, <3>7 DEF Running
      <3>. QED BY <2>2, <3>8
    <2>. QED BY <2>3, <2>4
  <1>2. n \notin Missing
    <2>. HIDE DEF Missing
    <2>. QED BY <1>1
  <1>3. n \in 0..n
    OBVIOUS
  <1>. QED BY <1>2, <1>3

LEMMA SumIsOne ==
    ASSUME NEW n \in Nat, NEW v, NEW s, NEW t, IsSum(n, v, s), IsSum(n, v, t)
    PROVE  s = t
  <1>1. PICK g : Running(n, v, g) /\ g[n] = s
    BY DEF IsSum
  <1>2. PICK h : Running(n, v, h) /\ h[n] = t
    BY DEF IsSum
  <1>. DEFINE Wrong == {k \in 0..n : g[k] # h[k]}
  <1>3. ASSUME Wrong # {} PROVE FALSE
    <2>1. PICK k \in Wrong : \A j \in Wrong : k <= j
      <3>1. Wrong \in SUBSET Nat
        OBVIOUS
      <3>. HIDE DEF Wrong
      <3>. QED BY <1>3, <3>1, LeastNumber
    <2>2. k \in 0..n /\ g[k] # h[k]
      BY <2>1
    <2>3. k # 0
      BY <1>1, <1>2, <2>2 DEF Running
    <2>4. k \in 1..n /\ k - 1 \in 0..n /\ ~(k <= k - 1)
      BY <2>2, <2>3
    <2>5. k - 1 \notin Wrong
      <3>. HIDE DEF Wrong
      <3>. QED BY <2>1, <2>4
    <2>6. g[k - 1] = h[k - 1]
      BY <2>4, <2>5
    <2>. QED BY <1>1, <1>2, <2>2, <2>4, <2>6 DEF Running
  <1>4. n \notin Wrong
    <2>. HIDE DEF Wrong
    <2>. QED BY <1>3
  <1>5. n \in 0..n
    OBVIOUS
  <1>6. g[n] = h[n]
    BY <1>4, <1>5
  <1>. QED BY <1>1, <1>2, <1>6

\* The numbers without the jth.
Without(n, v, j) == [i \in 1..(n - 1) |-> v[IF i < j THEN i ELSE i + 1]]

LEMMA SumWithout ==
    ASSUME NEW n \in Nat, NEW v \in [1..n -> Int], NEW j \in 1..n, NEW s, IsSum(n, v, s)
    PROVE  IsSum(n - 1, Without(n, v, j), s - v[j])
  <1>1. PICK g : Running(n, v, g) /\ g[n] = s
    BY DEF IsSum
  <1>2. g \in [0..n -> Int] /\ g[0] = 0 /\ \A i \in 1..n : g[i] = g[i - 1] + v[i]
    BY <1>1 DEF Running
  <1>. DEFINE m == n - 1
              w == Without(n, v, j)
              h == [i \in 0..m |-> IF i < j THEN g[i] ELSE g[i + 1] - v[j]]
  <1>3. m \in Nat /\ n = m + 1 /\ v[j] \in Int /\ j >= 1 /\ j <= n /\ j \in Nat
    OBVIOUS
  <1>4. \A i \in 0..m : i \in 0..n /\ i + 1 \in 0..n /\ g[i] \in Int /\ g[i + 1] \in Int
    BY <1>2
  <1>5. h \in [0..m -> Int] /\ h[0] = 0
    <2>. HIDE DEF m
    <2>1. \A i \in 0..m : (IF i < j THEN g[i] ELSE g[i + 1] - v[j]) \in Int
      <3>. SUFFICES ASSUME NEW i \in 0..m
                    PROVE  (IF i < j THEN g[i] ELSE g[i + 1] - v[j]) \in Int
        OBVIOUS
      <3>1. g[i] \in Int /\ g[i + 1] \in Int
        BY <1>4
      <3>2. g[i + 1] - v[j] \in Int
        BY <1>3, <3>1
      <3>. QED BY <3>1, <3>2
    <2>2. 0 \in 0..m /\ 0 < j
      BY <1>3
    <2>3. h[0] = g[0]
      BY <2>2
    <2>. QED BY <1>2, <2>1, <2>3
  <1>6. \A i \in 1..m : h[i] = h[i - 1] + w[i]
    <2>. SUFFICES ASSUME NEW i \in 1..m PROVE h[i] = h[i - 1] + w[i]
      OBVIOUS
    <2>1. i \in 0..m /\ i - 1 \in 0..m /\ i \in 1..n /\ i + 1 \in 1..n /\ i \in Nat
          /\ (i + 1) - 1 = i /\ (i - 1) + 1 = i
      OBVIOUS
    <2>2. w[i] = v[IF i < j THEN i ELSE i + 1]
      BY DEF Without
    <2>3. g[i] = g[i - 1] + v[i] /\ g[i + 1] = g[i] + v[i + 1]
          /\ v[i] \in Int /\ v[i + 1] \in Int
      BY <1>2, <2>1
    <2>4. g[i - 1] \in Int /\ g[i] \in Int /\ g[i + 1] \in Int
      BY <1>2, <2>1
    <2>5. h[i] = (IF i < j THEN g[i] ELSE g[i + 1] - v[j])
          /\ h[i - 1] = (IF i - 1 < j THEN g[i - 1] ELSE g[i] - v[j])
      <3>. HIDE DEF m
      <3>. QED BY <2>1
    <2>. HIDE DEF h, w, m
    <2>6. CASE i < j
      BY <1>3, <2>1, <2>2, <2>3, <2>4, <2>5, <2>6
    <2>7. CASE i = j
      <3>1. h[i] = g[i + 1] - v[j] /\ h[i - 1] = g[i - 1] /\ w[i] = v[i + 1] /\ v[j] = v[i]
        BY <2>1, <2>2, <2>5, <2>7
      <3>. QED BY <2>3, <2>4, <3>1
    <2>8. CASE i > j
      <3>1. ~(i < j) /\ ~(i - 1 < j)
        BY <1>3, <2>1, <2>8
      <3>. QED BY <1>3, <2>2, <2>3, <2>4, <2>5, <3>1
    <2>. QED BY <1>3, <2>1, <2>6, <2>7, <2>8
  <1>7. h[m] = g[n] - v[j]
    <2>1. m \in 0..m /\ (m < j => m + 1 = j)
      OBVIOUS
    <2>2. CASE m < j
      <3>1. h[m] = g[m] /\ n = j /\ n \in 1..n /\ n - 1 = m
        BY <1>3, <2>1, <2>2
      <3>2. g[n] = g[m] + v[n]
        BY <1>2, <3>1
      <3>3. g[m] \in Int /\ v[n] \in Int
        BY <1>2, <1>4, <2>1, <3>1
      <3>. HIDE DEF h, m
      <3>. QED BY <3>1, <3>2, <3>3
    <2>3. CASE ~(m < j)
      BY <2>1, <2>3
    <2>. QED BY <2>2, <2>3
  <1>. HIDE DEF h, w
  <1>8. Running(m, w, h)
    BY <1>5, <1>6 DEF Running
  <1>9. IsSum(m, w, s - v[j])
    BY <1>1, <1>7, <1>8 DEF IsSum
  <1>. QED BY <1>9 DEF w

\* A sum does not depend on the order.
LEMMA SumPermuted ==
    ASSUME NEW n \in Nat, NEW v \in [1..n -> Int], NEW p \in Bijection(1..n, 1..n),
           NEW s, IsSum(n, v, s)
    PROVE  IsSum(n, [i \in 1..n |-> v[p[i]]], s)
  <1>. DEFINE Right(k) ==
                \A u \in [1..k -> Int], q \in Bijection(1..k, 1..k), t \in Int :
                    IsSum(k, u, t) => IsSum(k, [i \in 1..k |-> u[q[i]]], t)
              Wrong == {k \in Nat : ~Right(k)}
  <1>1. ASSUME Wrong # {} PROVE FALSE
    <2>1. PICK k \in Wrong : \A j \in Wrong : k <= j
      <3>1. Wrong \in SUBSET Nat
        OBVIOUS
      <3>. HIDE DEF Wrong
      <3>. QED BY <1>1, <3>1, LeastNumber
    <2>2. k \in Nat /\ ~Right(k)
      BY <2>1
    <2>3. PICK u \in [1..k -> Int], q \in Bijection(1..k, 1..k), t \in Int :
             IsSum(k, u, t) /\ ~IsSum(k, [i \in 1..k |-> u[q[i]]], t)
      BY <2>2
    <2>4. CASE k = 0
      <3>1. PICK g : Running(0, u, g) /\ g[0] = t
        BY <2>3, <2>4 DEF IsSum
      <3>2. Running(0, [i \in 1..k |-> u[q[i]]], g)
        BY <3>1 DEF Running
      <3>. QED BY <2>3, <2>4, <3>1, <3>2 DEF IsSum
    <2>5. CASE k # 0
      <3>. DEFINE m == k - 1
                  w == [i \in 1..k |-> u[q[i]]]
      <3>1. m \in Nat /\ k = m + 1 /\ ~(k <= m) /\ k \in 1..k /\ k \in Nat /\ k \notin 1..m
            /\ (\A i \in 1..m : i \in 1..k /\ i + 1 \in 1..k)
            /\ (\A i \in 1..k : i # k => i \in 1..m)
        BY <2>2, <2>5
      <3>2. m \notin Wrong
        <4>. HIDE DEF Wrong, m
        <4>. QED BY <2>1, <3>1
      <3>3. Right(m)
        <4>. HIDE DEF Right, m
        <4>. QED BY <3>1, <3>2
      <3>4. /\ q \in [1..k -> 1..k] /\ (\A a, b \in 1..k : q[a] = q[b] => a = b)
            /\ \A b \in 1..k : \E a \in 1..k : q[a] = b
        BY DEF Bijection, Injection, Surjection, IsInjective
      <3>5. PICK j \in 1..k : q[j] = k
        BY <3>1, <3>4
      <3>. DEFINE Skip(i) == IF i < j THEN i ELSE i + 1
                  r == [i \in 1..m |-> q[Skip(i)]]
                  short == Without(k, u, k)
      <3>6. w \in [1..k -> Int]
        BY <3>4
      <3>7. short = [i \in 1..m |-> u[i]] /\ short \in [1..m -> Int]
        <4>1. \A i \in 1..m : i < k
          BY <3>1
        <4>2. short = [i \in 1..m |-> u[i]]
          BY <4>1 DEF Without
        <4>. HIDE DEF short, m
        <4>. QED BY <3>1, <4>2
      <3>. HIDE DEF m
      <3>8. \A i \in 1..m : Skip(i) \in 1..k /\ Skip(i) # j
        <4>. SUFFICES ASSUME NEW i \in 1..m PROVE Skip(i) \in 1..k /\ Skip(i) # j
          OBVIOUS
        <4>1. i \in Int /\ j \in Int /\ i \in 1..k /\ i + 1 \in 1..k
          BY <3>1
        <4>2. CASE i < j
          BY <4>1, <4>2
        <4>3. CASE ~(i < j)
          BY <4>1, <4>3
        <4>. QED BY <4>2, <4>3
      <3>9. \A a, b \in 1..m : Skip(a) = Skip(b) => a = b
        <4>. SUFFICES ASSUME NEW a \in 1..m, NEW b \in 1..m, Skip(a) = Skip(b)
                      PROVE  a = b
          OBVIOUS
        <4>1. a \in Int /\ b \in Int /\ j \in Int
          BY <3>1
        <4>2. (IF a < j THEN a ELSE a + 1) = (IF b < j THEN b ELSE b + 1)
          OBVIOUS
        <4>. HIDE DEF Skip
        <4>3. CASE a < j /\ b < j
          BY <4>2, <4>3
        <4>4. CASE a < j /\ ~(b < j)
          BY <4>1, <4>2, <4>4
        <4>5. CASE ~(a < j) /\ b < j
          BY <4>1, <4>2, <4>5
        <4>6. CASE ~(a < j) /\ ~(b < j)
          BY <4>1, <4>2, <4>6
        <4>. QED BY <4>3, <4>4, <4>5, <4>6
      <3>10. \A b \in 1..k : b # j => \E a \in 1..m : Skip(a) = b
        <4>. SUFFICES ASSUME NEW b \in 1..k, b # j PROVE \E a \in 1..m : Skip(a) = b
          OBVIOUS
        <4>1. CASE b < j
          <5>1. b \in 1..m /\ Skip(b) = b
            BY <3>1, <3>5, <4>1
          <5>. HIDE DEF Skip
          <5>. QED BY <5>1
        <4>2. CASE b > j
          <5>1. b - 1 \in 1..m /\ Skip(b - 1) = b
            BY <3>1, <3>5, <4>2
          <5>. HIDE DEF Skip
          <5>. QED BY <5>1
        <4>. QED BY <4>1, <4>2
      <3>. HIDE DEF Skip
      <3>11. r \in [1..m -> 1..m]
        <4>1. \A i \in 1..m : q[Skip(i)] \in 1..k /\ q[Skip(i)] # k
          BY <3>4, <3>5, <3>8
        <4>. QED BY <3>1, <4>1
      <3>12. \A a, b \in 1..m : r[a] = r[b] => a = b
        BY <3>4, <3>8, <3>9
      <3>13. \A b \in 1..m : \E a \in 1..m : r[a] = b
        <4>. SUFFICES ASSUME NEW b \in 1..m PROVE \E a \in 1..m : r[a] = b
          OBVIOUS
        <4>1. PICK a \in 1..k : q[a] = b
          BY <3>1, <3>4
        <4>2. a # j
          BY <3>1, <3>5, <4>1
        <4>3. PICK c \in 1..m : Skip(c) = a
          BY <3>10, <4>2
        <4>. QED BY <4>1, <4>3
      <3>14. r \in Bijection(1..m, 1..m)
        <4>. HIDE DEF r
        <4>. QED BY <3>11, <3>12, <3>13 DEF Bijection, Injection, Surjection, IsInjective
      <3>15. IsSum(m, short, t - u[k])
        BY <2>3, <3>1, SumWithout DEF m
      <3>16. u[k] \in Int /\ t - u[k] \in Int
        BY <2>3, <3>1
      <3>17. IsSum(m, [i \in 1..m |-> short[r[i]]], t - u[k])
        <4>. HIDE DEF short, r
        <4>. QED BY <3>3, <3>7, <3>14, <3>15, <3>16
      <3>18. PICK g : Running(k, w, g)
        <4>. HIDE DEF w
        <4>. QED BY <3>1, <3>6, SumExists
      <3>19. IsSum(k, w, g[k]) /\ g[k] \in Int
        <4>1. k \in 0..k
          BY <3>1
        <4>. HIDE DEF w
        <4>. QED BY <3>18, <4>1 DEF IsSum, Running
      <3>20. IsSum(m, Without(k, w, j), g[k] - w[j])
        <4>. HIDE DEF w
        <4>. QED BY <3>1, <3>6, <3>19, SumWithout DEF m
      <3>21. Without(k, w, j) = [i \in 1..m |-> short[r[i]]]
        <4>1. \A i \in 1..m : w[Skip(i)] = u[r[i]]
          BY <3>8
        <4>2. \A i \in 1..m : short[r[i]] = u[r[i]]
          <5>. HIDE DEF r, short
          <5>. QED BY <3>7, <3>11
        <4>3. Without(k, w, j) = [i \in 1..m |-> w[Skip(i)]]
          BY DEF Without, Skip, m
        <4>. HIDE DEF w, r, short
        <4>. QED BY <4>1, <4>2, <4>3
      <3>22. w[j] = u[k]
        BY <3>5
      <3>. HIDE DEF w, r, short
      <3>23. t - u[k] = g[k] - u[k]
        BY <3>1, <3>17, <3>20, <3>21, <3>22, SumIsOne
      <3>24. t = g[k]
        BY <3>16, <3>19, <3>23
      <3>. QED BY <2>3, <3>19, <3>24 DEF w
    <2>. QED BY <2>4, <2>5
  <1>2. Right(n)
    <2>. HIDE DEF Right
    <2>. QED BY <1>1
  <1>3. s \in Int
    BY DEF IsSum, Running
  <1>. QED BY <1>2, <1>3

\* The total of a walk is the sum of its estimates.
LEMMA TotalIsSum ==
    ASSUME NEW tables, NEW n \in Nat, Len(tables) = n, \A i \in 1..n : tables[i].rows \in Int
    PROVE  IsSum(n, [i \in 1..n |-> tables[i].rows], Total(tables))
  <1>. DEFINE v == [i \in 1..n |-> tables[i].rows]
              Next1(h) == [i \in 0..n |-> IF i = 0 THEN 0 ELSE h[i - 1] + tables[i].rows]
              sum == CHOOSE h : h = Next1(h)
  <1>1. Total(tables) = sum[n]
    BY DEF Total
  <1>2. v \in [1..n -> Int] /\ \A i \in 1..n : v[i] = tables[i].rows
    OBVIOUS
  <1>3. PICK g : Running(n, v, g)
    <2>. HIDE DEF v
    <2>. QED BY <1>2, SumExists
  <1>4. g \in [0..n -> Int] /\ g[0] = 0 /\ \A i \in 1..n : g[i] = g[i - 1] + v[i]
    <2>. HIDE DEF v
    <2>. QED BY <1>3 DEF Running
  <1>. HIDE DEF v
  <1>5. g = Next1(g)
    <2>1. \A i \in 0..n : g[i] = (IF i = 0 THEN 0 ELSE g[i - 1] + tables[i].rows)
      <3>. SUFFICES ASSUME NEW i \in 0..n
                    PROVE  g[i] = (IF i = 0 THEN 0 ELSE g[i - 1] + tables[i].rows)
        OBVIOUS
      <3>1. CASE i = 0
        BY <1>4, <3>1
      <3>2. CASE i # 0
        <4>1. i \in 1..n
          BY <3>2
        <4>. QED BY <1>2, <1>4, <3>2, <4>1
      <3>. QED BY <3>1, <3>2
    <2>. QED BY <1>4, <2>1
  <1>6. sum = Next1(sum)
    <2>. HIDE DEF Next1
    <2>. QED BY <1>5
  <1>. HIDE DEF sum
  <1>7. \A i \in 0..n : sum[i] = (IF i = 0 THEN 0 ELSE sum[i - 1] + tables[i].rows)
    BY <1>6
  <1>. DEFINE Wrong == {k \in 0..n : g[k] # sum[k]}
  <1>8. ASSUME Wrong # {} PROVE FALSE
    <2>1. PICK k \in Wrong : \A j \in Wrong : k <= j
      <3>1. Wrong \in SUBSET Nat
        OBVIOUS
      <3>. HIDE DEF Wrong
      <3>. QED BY <1>8, <3>1, LeastNumber
    <2>2. k \in 0..n /\ g[k] # sum[k]
      BY <2>1
    <2>3. k # 0
      BY <1>4, <1>7, <2>2
    <2>4. k \in 1..n /\ k - 1 \in 0..n /\ ~(k <= k - 1)
      BY <2>2, <2>3
    <2>5. k - 1 \notin Wrong
      <3>. HIDE DEF Wrong
      <3>. QED BY <2>1, <2>4
    <2>6. g[k - 1] = sum[k - 1]
      BY <2>4, <2>5
    <2>7. g[k] = g[k - 1] + tables[k].rows /\ sum[k] = sum[k - 1] + tables[k].rows
      BY <1>2, <1>4, <1>7, <2>2, <2>3, <2>4
    <2>. QED BY <2>2, <2>6, <2>7
  <1>9. n \notin Wrong
    <2>. HIDE DEF Wrong
    <2>. QED BY <1>8
  <1>10. n \in 0..n
    OBVIOUS
  <1>11. sum[n] = g[n]
    BY <1>9, <1>10
  <1>12. IsSum(n, v, sum[n])
    BY <1>3, <1>11 DEF IsSum
  <1>. QED BY <1>1, <1>12 DEF v

-----------------------------------------------------------------------------
(* A walk meets every entry of a plan once *)

\* The sequences one after the other, as FlattenSeq builds them.
Joined(k, seqs, g) ==
    g = [i \in 1..k |-> IF i = 1 THEN seqs[i] ELSE g[i - 1] \o seqs[i]]

LEMMA JoinedExists ==
    ASSUME NEW n \in Nat, NEW seqs
    PROVE  \E g : Joined(n, seqs, g)
  <1>. DEFINE Missing == {k \in 0..n : \A g : ~Joined(k, seqs, g)}
  <1>1. ASSUME Missing # {} PROVE FALSE
    <2>1. PICK k \in Missing : \A j \in Missing : k <= j
      <3>1. Missing \in SUBSET Nat
        OBVIOUS
      <3>. HIDE DEF Missing
      <3>. QED BY <1>1, <3>1, LeastNumber
    <2>2. k \in 0..n /\ \A g : ~Joined(k, seqs, g)
      BY <2>1
    <2>3. CASE k = 0
      <3>1. Joined(0, seqs, [i \in 1..0 |-> 0])
        BY DEF Joined
      <3>. QED BY <2>2, <2>3, <3>1
    <2>4. CASE k # 0
      <3>1. k \in 1..n /\ k - 1 \in 0..n /\ ~(k <= k - 1)
        BY <2>2, <2>4
      <3>2. k - 1 \notin Missing
        <4>. HIDE DEF Missing
        <4>. QED BY <2>1, <3>1
      <3>3. PICK g : Joined(k - 1, seqs, g)
        BY <3>1, <3>2
      <3>. DEFINE last == IF k = 1 THEN seqs[k] ELSE g[k - 1] \o seqs[k]
                  h == [i \in 1..k |-> IF i = k THEN last ELSE g[i]]
      <3>4. \A i \in 1..(k - 1) : g[i] = (IF i = 1 THEN seqs[i] ELSE g[i - 1] \o seqs[i])
        BY <3>3 DEF Joined
      <3>5. \A i \in 1..k : h[i] = (IF i = 1 THEN seqs[i] ELSE h[i - 1] \o seqs[i])
        <4>. SUFFICES ASSUME NEW i \in 1..k
                      PROVE  h[i] = (IF i = 1 THEN seqs[i] ELSE h[i - 1] \o seqs[i])
          OBVIOUS
        <4>1. i # 1 => i - 1 \in 1..k /\ i - 1 # k
          BY <3>1
        <4>2. i # 1 => h[i - 1] = g[i - 1]
          BY <4>1
        <4>3. CASE i = k
          <5>1. h[i] = last
            BY <4>3
          <5>. HIDE DEF h
          <5>. QED BY <4>2, <4>3, <5>1
        <4>4. CASE i # k
          <5>1. i \in 1..(k - 1) /\ h[i] = g[i]
            BY <3>1, <4>4
          <5>. HIDE DEF h
          <5>. QED BY <3>4, <4>2, <5>1
        <4>. QED BY <4>3, <4>4
      <3>6. h = [i \in 1..k |-> h[i]]
        OBVIOUS
      <3>. HIDE DEF h
      <3>7. Joined(k, seqs, h)
        BY <3>5, <3>6 DEF Joined
      <3>. QED BY <2>2, <3>7
    <2>. QED BY <2>3, <2>4
  <1>2. n \notin Missing
    <2>. HIDE DEF Missing
    <2>. QED BY <1>1
  <1>3. n \in 0..n
    OBVIOUS
  <1>. QED BY <1>2, <1>3

LEMMA FlattenJoins ==
    ASSUME NEW n \in Nat, n # 0, NEW seqs, Len(seqs) = n
    PROVE  \E g : Joined(n, seqs, g) /\ FlattenSeq(seqs) = g[n]
  <1>. DEFINE g == CHOOSE h : Joined(n, seqs, h)
  <1>1. Joined(n, seqs, g)
    BY JoinedExists
  <1>2. FlattenSeq(seqs) = g[n]
    BY DEF FlattenSeq, Joined
  <1>. QED BY <1>1, <1>2

\* A walk that has one place for each of some entries.
Meets(n, f, S, walk) ==
    /\ f \in Bijection(1..n, S)
    /\ walk = [i \in 1..n |-> f[i][1][f[i][2]]]

\* The entries of the first k branches of an order.
Prefix(k, order) == UNION {{<<order[j], i>> : i \in DOMAIN order[j]} : j \in 1..k}

LEMMA EntriesOfOrder ==
    ASSUME NEW plan, NEW K \in Nat, NEW order \in Surjection(1..K, plan.branches)
    PROVE  Prefix(K, order) = Entries(plan)
  <1>1. order \in [1..K -> plan.branches] /\ \A b \in plan.branches : \E j \in 1..K : order[j] = b
    BY DEF Surjection
  <1>. QED BY <1>1 DEF Prefix, Entries

LEMMA OneBranchMore ==
    ASSUME NEW n \in Nat, NEW m \in Nat, NEW f, NEW branch, NEW S, NEW walk,
           Meets(n, f, S, walk),
           branch \in Seq(Range(branch)), Len(branch) = m,
           \A e \in S : e[1] # branch
    PROVE  \E h : Meets(n + m, h, S \cup {<<branch, i>> : i \in DOMAIN branch}, walk \o branch)
  <1>. DEFINE T == S \cup {<<branch, i>> : i \in DOMAIN branch}
              h == [i \in 1..(n + m) |-> IF i <= n THEN f[i] ELSE <<branch, i - n>>]
  <1>1. DOMAIN branch = 1..m
    BY DEF Range
  <1>2. /\ f \in [1..n -> S] /\ (\A a, b \in 1..n : f[a] = f[b] => a = b)
        /\ \A s \in S : \E a \in 1..n : f[a] = s
    BY DEF Meets, Bijection, Injection, Surjection, IsInjective
  <1>3. \A i \in 1..(n + m) : /\ (i <= n => i \in 1..n /\ f[i] \in S /\ h[i] = f[i])
                              /\ (~(i <= n) => i - n \in 1..m /\ h[i] = <<branch, i - n>>)
    BY <1>2
  <1>4. h \in [1..(n + m) -> T]
    <2>1. \A i \in 1..(n + m) : (IF i <= n THEN f[i] ELSE <<branch, i - n>>) \in T
      BY <1>1, <1>3
    <2>. HIDE DEF T
    <2>. QED BY <2>1
  <1>. HIDE DEF h
  <1>5. \A a, b \in 1..(n + m) : h[a] = h[b] => a = b
    <2>. SUFFICES ASSUME NEW a \in 1..(n + m), NEW b \in 1..(n + m), h[a] = h[b]
                  PROVE  a = b
      OBVIOUS
    <2>1. a \in Int /\ b \in Int
      OBVIOUS
    <2>2. CASE a <= n /\ b <= n
      BY <1>2, <1>3, <2>2
    <2>3. CASE a <= n /\ ~(b <= n)
      <3>1. h[a] \in S /\ h[b] = <<branch, b - n>>
        BY <1>3, <2>3
      <3>. QED BY <3>1
    <2>4. CASE ~(a <= n) /\ b <= n
      <3>1. h[b] \in S /\ h[a] = <<branch, a - n>>
        BY <1>3, <2>4
      <3>. QED BY <3>1
    <2>5. CASE ~(a <= n) /\ ~(b <= n)
      <3>1. h[a] = <<branch, a - n>> /\ h[b] = <<branch, b - n>>
        BY <1>3, <2>5
      <3>2. ASSUME NEW x, NEW y, <<branch, x>> = <<branch, y>> PROVE x = y
        BY <3>2
      <3>3. a - n = b - n
        BY <3>1, <3>2
      <3>. QED BY <2>1, <3>3
    <2>. QED BY <2>2, <2>3, <2>4, <2>5
  <1>6. \A t \in T : \E a \in 1..(n + m) : h[a] = t
    <2>. SUFFICES ASSUME NEW t \in T PROVE \E a \in 1..(n + m) : h[a] = t
      OBVIOUS
    <2>1. CASE t \in S
      <3>1. PICK a \in 1..n : f[a] = t
        BY <1>2, <2>1
      <3>2. a \in 1..(n + m) /\ a <= n
        OBVIOUS
      <3>. QED BY <1>3, <3>1, <3>2
    <2>2. CASE t \notin S
      <3>1. PICK i \in 1..m : t = <<branch, i>>
        BY <1>1, <2>2
      <3>2. i + n \in 1..(n + m) /\ ~(i + n <= n) /\ (i + n) - n = i
        OBVIOUS
      <3>3. h[i + n] = <<branch, (i + n) - n>>
        BY <1>3, <3>2
      <3>. QED BY <3>1, <3>2, <3>3
    <2>. QED BY <2>1, <2>2
  <1>7. h \in Bijection(1..(n + m), T)
    <2>. HIDE DEF T
    <2>. QED BY <1>4, <1>5, <1>6 DEF Bijection, Injection, Surjection, IsInjective
  <1>8. walk \o branch = [i \in 1..(n + m) |-> h[i][1][h[i][2]]]
    <2>. DEFINE X == Range(walk) \cup Range(branch)
    <2>1. walk \in Seq(X) /\ branch \in Seq(X) /\ Len(walk) = n
      <3>1. walk \in [1..n -> X]
        BY DEF Range, Meets
      <3>2. branch \in [1..m -> X]
        BY <1>1 DEF Range
      <3>. HIDE DEF X
      <3>. QED BY <3>1, <3>2
    <2>. HIDE DEF X
    <2>2. /\ walk \o branch \in Seq(X) /\ Len(walk \o branch) = n + m
          /\ \A i \in 1..(n + m) : (walk \o branch)[i] = IF i <= n THEN walk[i] ELSE branch[i - n]
      <3>1. /\ walk \o branch \in Seq(X) /\ Len(walk \o branch) = Len(walk) + Len(branch)
            /\ \A i \in 1..(Len(walk) + Len(branch)) :
                  (walk \o branch)[i] =
                      IF i <= Len(walk) THEN walk[i] ELSE branch[i - Len(walk)]
        BY <2>1, ConcatProperties
      <3>. QED BY <2>1, <3>1
    <2>3. \A i \in 1..(n + m) : (walk \o branch)[i] = h[i][1][h[i][2]]
      <3>. SUFFICES ASSUME NEW i \in 1..(n + m)
                    PROVE  (walk \o branch)[i] = h[i][1][h[i][2]]
        OBVIOUS
      <3>1. CASE i <= n
        <4>1. i \in 1..n /\ h[i] = f[i]
          BY <1>3, <3>1
        <4>. QED BY <2>2, <3>1, <4>1 DEF Meets
      <3>2. CASE ~(i <= n)
        <4>1. h[i] = <<branch, i - n>> /\ (walk \o branch)[i] = branch[i - n]
          BY <1>3, <2>2, <3>2
        <4>2. h[i][1] = branch /\ h[i][2] = i - n
          BY <4>1
        <4>. QED BY <4>1, <4>2
      <3>. QED BY <3>1, <3>2
    <2>4. \A w \in Seq(X) : Len(w) = n + m => w = [i \in 1..(n + m) |-> w[i]]
      OBVIOUS
    <2>5. walk \o branch = [i \in 1..(n + m) |-> (walk \o branch)[i]]
      BY <2>2, <2>4
    <2>. QED BY <2>3, <2>5
  <1>. QED BY <1>7, <1>8 DEF Meets

\* An order of the branches names each of them once.
LEMMA OrdersAreBijections ==
    ASSUME NEW S, IsFiniteSet(S), NEW order \in SetToSeqs(S)
    PROVE  /\ Cardinality(S) \in Nat /\ Len(order) = Cardinality(S)
           /\ order \in Bijection(1..Cardinality(S), S)
  <1>. DEFINE K == Cardinality(S)
  <1>1. K \in Nat
    BY FS_CardinalityType
  <1>2. order \in [1..K -> S] /\ \A i, j \in 1..K : i # j => order[i] # order[j]
    BY DEF SetToSeqs
  <1>. HIDE DEF K
  <1>3. order \in Injection(1..K, S)
    BY <1>2 DEF Injection, IsInjective
  <1>4. Cardinality(1..K) = K /\ IsFiniteSet(1..K)
    <2>1. 1 \in Int /\ K \in Int /\ K - 1 + 1 = K /\ (1 > K <=> K = 0)
      BY <1>1
    <2>. QED BY <2>1, FS_Interval
  <1>5. order \in Surjection(1..K, S)
    <2>1. (Cardinality(1..K) = Cardinality(S)) <=> order \in Surjection(1..K, S)
      BY <1>3, FS_Injection
    <2>. QED BY <1>4, <2>1 DEF K
  <1>6. Len(order) = K
    BY <1>1, <1>2
  <1>. QED BY <1>1, <1>3, <1>5, <1>6 DEF Bijection, K

LEMMA WalkVisits ==
    ASSUME NEW plan, IsPlan(plan), NEW walk \in Walks(plan)
    PROVE  \E n \in Nat : \E f : Meets(n, f, Entries(plan), walk)
  <1>1. PICK order \in SetToSeqs(plan.branches) : walk = FlattenSeq(order)
    BY DEF Walks
  <1>. DEFINE K == Cardinality(plan.branches)
  <1>2. K \in Nat /\ Len(order) = K /\ order \in Bijection(1..K, plan.branches)
    BY <1>1, OrdersAreBijections DEF IsPlan
  <1>. HIDE DEF K
  <1>3. /\ order \in [1..K -> plan.branches] /\ order \in Surjection(1..K, plan.branches)
        /\ \A a, b \in 1..K : order[a] = order[b] => a = b
    BY <1>2 DEF Bijection, Injection, IsInjective
  <1>4. Prefix(K, order) = Entries(plan)
    BY <1>2, <1>3, EntriesOfOrder
  <1>5. \A j \in 1..K : order[j] \in Seq(Range(order[j]))
    BY <1>3 DEF IsPlan
  <1>6. CASE K = 0
    <2>1. walk = order
      BY <1>1, <1>2, <1>6 DEF FlattenSeq
    <2>2. Prefix(0, order) = {}
      BY DEF Prefix
    <2>3. order = [i \in 1..0 |-> order[i]]
      BY <1>3, <1>6
    <2>. DEFINE f == [i \in 1..0 |-> 0]
    <2>4. Entries(plan) = {}
      BY <1>4, <1>6, <2>2
    <2>5. f \in Bijection(1..0, {})
      BY DEF Bijection, Injection, Surjection, IsInjective
    <2>6. order = [i \in 1..0 |-> f[i][1][f[i][2]]]
      BY <2>3
    <2>. HIDE DEF f
    <2>7. Meets(0, f, Entries(plan), walk)
      BY <2>1, <2>4, <2>5, <2>6 DEF Meets
    <2>. QED BY <2>7
  <1>7. CASE K # 0
    <2>1. PICK g : Joined(K, order, g) /\ FlattenSeq(order) = g[K]
      BY <1>2, <1>7, FlattenJoins
    <2>2. \A j \in 1..K : g[j] = (IF j = 1 THEN order[j] ELSE g[j - 1] \o order[j])
      BY <2>1 DEF Joined
    <2>. DEFINE Good(k) == \E n \in Nat : \E f : Meets(n, f, Prefix(k, order), g[k])
                Wrong == {k \in 1..K : ~Good(k)}
    <2>3. \A k \in 1..K :
             /\ \A e \in Prefix(k - 1, order) : e[1] # order[k]
             /\ Prefix(k, order) =
                   Prefix(k - 1, order) \cup {<<order[k], i>> : i \in DOMAIN order[k]}
      <3>. SUFFICES ASSUME NEW k \in 1..K
                    PROVE  /\ \A e \in Prefix(k - 1, order) : e[1] # order[k]
                           /\ Prefix(k, order) = Prefix(k - 1, order)
                                 \cup {<<order[k], i>> : i \in DOMAIN order[k]}
        OBVIOUS
      <3>1. 1..k = 1..(k - 1) \cup {k} /\ \A j \in 1..(k - 1) : j \in 1..K /\ j # k
        BY <1>2
      <3>2. \A e \in Prefix(k - 1, order) : e[1] # order[k]
        <4>. SUFFICES ASSUME NEW e \in Prefix(k - 1, order) PROVE e[1] # order[k]
          OBVIOUS
        <4>1. PICK j \in 1..(k - 1) : \E i \in DOMAIN order[j] : e = <<order[j], i>>
          BY DEF Prefix
        <4>2. e[1] = order[j]
          BY <4>1
        <4>. QED BY <1>3, <3>1, <4>2
      <3>3. Prefix(k, order) = Prefix(k - 1, order)
                                 \cup {<<order[k], i>> : i \in DOMAIN order[k]}
        BY <3>1 DEF Prefix
      <3>. QED BY <3>2, <3>3
    <2>4. \A k \in 1..K : /\ order[k] \in Seq(Range(order[k]))
                          /\ Len(order[k]) \in Nat
      BY <1>5
    <2>5. ASSUME Wrong # {} PROVE FALSE
      <3>1. PICK k \in Wrong : \A j \in Wrong : k <= j
        <4>1. Wrong \in SUBSET Nat
          OBVIOUS
        <4>. HIDE DEF Wrong
        <4>. QED BY <2>5, <4>1, LeastNumber
      <3>2. k \in 1..K /\ ~Good(k)
        BY <3>1
      <3>3. CASE k = 1
        <4>. DEFINE b == order[1]
                    none == [i \in 1..0 |-> 0]
        <4>1. g[1] = b /\ b \in Seq(Range(b)) /\ Len(b) \in Nat
          BY <2>2, <2>4, <3>2, <3>3
        <4>2. Prefix(0, order) = {}
          BY DEF Prefix
        <4>3. Meets(0, none, {}, <<>>)
          BY DEF Meets, Bijection, Injection, Surjection, IsInjective
        <4>. HIDE DEF b, none
        <4>4. PICK h : Meets(0 + Len(b), h, {} \cup {<<b, i>> : i \in DOMAIN b}, <<>> \o b)
          <5>1. \A e \in {} : e[1] # b
            OBVIOUS
          <5>. QED BY <4>1, <4>3, <5>1, OneBranchMore
        <4>5. {} \cup {<<b, i>> : i \in DOMAIN b} = Prefix(1, order)
          <5>1. 1 \in 1..K /\ 1 - 1 = 0
            BY <3>2, <3>3
          <5>2. Prefix(1, order) = Prefix(0, order) \cup {<<b, i>> : i \in DOMAIN b}
            BY <2>3, <5>1 DEF b
          <5>. QED BY <4>2, <5>2
        <4>6. <<>> \o b = b /\ 0 + Len(b) = Len(b)
          BY <4>1, ConcatEmptySeq
        <4>7. Meets(Len(b), h, Prefix(1, order), g[1])
          BY <4>1, <4>4, <4>5, <4>6
        <4>8. Meets(Len(b), h, Prefix(k, order), g[k])
          BY <3>3, <4>7
        <4>9. Good(k)
          BY <4>1, <4>8
        <4>. HIDE DEF Good
        <4>. QED BY <3>2, <4>9
      <3>4. CASE k # 1
        <4>1. k - 1 \in 1..K /\ ~(k <= k - 1) /\ k \in 1..K
          BY <1>2, <3>2, <3>4
        <4>2. k - 1 \notin Wrong
          <5>. HIDE DEF Wrong
          <5>. QED BY <3>1, <4>1
        <4>3. Good(k - 1)
          <5>. HIDE DEF Good
          <5>. QED BY <4>1, <4>2
        <4>4. PICK n \in Nat : \E f : Meets(n, f, Prefix(k - 1, order), g[k - 1])
          BY <4>3
        <4>10. PICK f : Meets(n, f, Prefix(k - 1, order), g[k - 1])
          BY <4>4
        <4>. DEFINE b == order[k]
        <4>5. b \in Seq(Range(b)) /\ Len(b) \in Nat /\ g[k] = g[k - 1] \o b
          BY <2>2, <2>4, <3>4, <4>1
        <4>6. /\ \A e \in Prefix(k - 1, order) : e[1] # b
              /\ Prefix(k, order) = Prefix(k - 1, order) \cup {<<b, i>> : i \in DOMAIN b}
          BY <2>3, <4>1
        <4>. HIDE DEF b
        <4>7. PICK h : Meets(n + Len(b), h,
                             Prefix(k - 1, order) \cup {<<b, i>> : i \in DOMAIN b},
                             g[k - 1] \o b)
          BY <4>4, <4>10, <4>5, <4>6, OneBranchMore
        <4>8. n + Len(b) \in Nat
          BY <4>4, <4>5
        <4>9. Good(k)
          BY <4>5, <4>6, <4>7, <4>8
        <4>. HIDE DEF Good
        <4>. QED BY <3>2, <4>9
      <3>. QED BY <3>3, <3>4
    <2>6. K \in 1..K
      BY <1>2, <1>7
    <2>7. Good(K)
      <3>. HIDE DEF Good
      <3>. QED BY <2>5, <2>6
    <2>8. FlattenSeq(order) = g[K]
      BY <2>1
    <2>9. \E n \in Nat : \E f : Meets(n, f, Entries(plan), walk)
      BY <1>1, <1>4, <2>7, <2>8
    <2>. QED BY <2>9
  <1>. QED BY <1>6, <1>7

\* Two ways to count the same things differ by a permutation.
LEMMA CountedTwice ==
    ASSUME NEW n \in Nat, NEW S, NEW f \in Bijection(1..n, S), NEW h \in Bijection(1..n, S)
    PROVE  \E p \in Bijection(1..n, 1..n) : \A i \in 1..n : f[p[i]] = h[i]
  <1>. DEFINE Place(i) == CHOOSE j \in 1..n : f[j] = h[i]
              p == [i \in 1..n |-> Place(i)]
  <1>1. /\ f \in [1..n -> S] /\ (\A a, b \in 1..n : f[a] = f[b] => a = b)
        /\ \A s \in S : \E a \in 1..n : f[a] = s
    BY DEF Bijection, Injection, Surjection, IsInjective
  <1>2. /\ h \in [1..n -> S] /\ (\A a, b \in 1..n : h[a] = h[b] => a = b)
        /\ \A s \in S : \E a \in 1..n : h[a] = s
    BY DEF Bijection, Injection, Surjection, IsInjective
  <1>3. \A i \in 1..n : Place(i) \in 1..n /\ f[Place(i)] = h[i]
    <2>. SUFFICES ASSUME NEW i \in 1..n PROVE Place(i) \in 1..n /\ f[Place(i)] = h[i]
      OBVIOUS
    <2>1. \E j \in 1..n : f[j] = h[i]
      BY <1>1, <1>2
    <2>. QED BY <2>1
  <1>. HIDE DEF Place
  <1>4. p \in [1..n -> 1..n] /\ \A i \in 1..n : f[p[i]] = h[i]
    BY <1>3
  <1>. HIDE DEF p
  <1>5. \A a, b \in 1..n : p[a] = p[b] => a = b
    BY <1>2, <1>4
  <1>6. \A b \in 1..n : \E a \in 1..n : p[a] = b
    <2>. SUFFICES ASSUME NEW b \in 1..n PROVE \E a \in 1..n : p[a] = b
      OBVIOUS
    <2>1. f[b] \in S
      BY <1>1
    <2>2. PICK a \in 1..n : h[a] = f[b]
      BY <1>2, <2>1
    <2>3. f[p[a]] = f[b] /\ p[a] \in 1..n
      BY <1>4, <2>2
    <2>. QED BY <1>1, <2>3
  <1>7. p \in Bijection(1..n, 1..n)
    BY <1>4, <1>5, <1>6 DEF Bijection, Injection, Surjection, IsInjective
  <1>. QED BY <1>4, <1>7

LEMMA SetToSeqCounts ==
    ASSUME NEW n \in Nat, NEW S, NEW f \in Bijection(1..n, S)
    PROVE  SetToSeq(S) \in Bijection(1..n, S) /\ Len(SetToSeq(S)) = n
  <1>1. Cardinality(S) = n
    <2>1. ExistsBijection(1..n, S)
      BY DEF ExistsBijection
    <2>. QED BY <2>1, FS_CountingElements
  <1>2. IsFiniteSet(S)
    <2>1. ExistsBijection(1..n, S)
      BY DEF ExistsBijection
    <2>. QED BY <2>1, FS_NatBijection
  <1>. DEFINE g == SetToSeq(S)
  <1>3. g \in [1..n -> S] /\ IsInjective(g)
    <2>1. f \in [1..n -> S] /\ IsInjective(f)
      BY DEF Bijection, Injection
    <2>2. g = CHOOSE h \in [1..n -> S] : IsInjective(h)
      BY <1>1 DEF SetToSeq
    <2>. QED BY <2>1, <2>2
  <1>. HIDE DEF g
  <1>4. g \in Injection(1..n, S)
    BY <1>3 DEF Injection
  <1>5. Cardinality(1..n) = n
    <2>1. 1 \in Int /\ n \in Int /\ n - 1 + 1 = n /\ (1 > n <=> n = 0)
      OBVIOUS
    <2>. QED BY <2>1, FS_Interval
  <1>6. (Cardinality(1..n) = Cardinality(S)) <=> g \in Surjection(1..n, S)
    BY <1>2, <1>4, FS_Injection
  <1>7. Len(g) = n
    BY <1>3
  <1>. QED BY <1>1, <1>4, <1>5, <1>6, <1>7 DEF Bijection, g

\* The total of a walk is that of the plan, in whatever order it was walked.
LEMMA RowsOfWalk ==
    ASSUME NEW plan, NEW n \in Nat, NEW f, NEW walk, Meets(n, f, Entries(plan), walk),
           \A i \in 1..n : walk[i].rows \in Int
    PROVE  PlanRows(plan) = Total(walk)
  <1>. DEFINE order == SetToSeq(Entries(plan))
              tables == [i \in DOMAIN order |-> order[i][1][order[i][2]]]
              u == [i \in 1..n |-> walk[i].rows]
  <1>1. PlanRows(plan) = Total(tables)
    BY DEF PlanRows
  <1>2. f \in Bijection(1..n, Entries(plan)) /\ walk = [i \in 1..n |-> f[i][1][f[i][2]]]
    BY DEF Meets
  <1>3. order \in Bijection(1..n, Entries(plan)) /\ Len(order) = n
    BY <1>2, SetToSeqCounts
  <1>. HIDE DEF order
  <1>4. DOMAIN order = 1..n
    BY <1>3 DEF Bijection, Injection
  <1>. HIDE DEF tables, u
  <1>5. PICK p \in Bijection(1..n, 1..n) : \A i \in 1..n : f[p[i]] = order[i]
    <2>1. \A h \in Bijection(1..n, Entries(plan)) :
             \E p \in Bijection(1..n, 1..n) : \A i \in 1..n : f[p[i]] = h[i]
      BY <1>2, CountedTwice
    <2>. QED BY <1>3, <2>1
  <1>6. \A i \in 1..n : p[i] \in 1..n
    BY DEF Bijection, Injection
  <1>7. \A i \in 1..n : tables[i] = walk[p[i]]
    <2>. SUFFICES ASSUME NEW i \in 1..n PROVE tables[i] = walk[p[i]]
      OBVIOUS
    <2>1. tables[i] = order[i][1][order[i][2]]
      BY <1>4 DEF tables
    <2>2. walk[p[i]] = f[p[i]][1][f[p[i]][2]]
      BY <1>2, <1>6
    <2>. QED BY <1>5, <2>1, <2>2
  <1>8. Len(tables) = n
    BY <1>4 DEF tables
  <1>9. Len(walk) = n
    BY <1>2
  <1>10. IsSum(n, u, Total(walk))
    BY <1>9, TotalIsSum DEF u
  <1>11. IsSum(n, [i \in 1..n |-> tables[i].rows], Total(tables))
    BY <1>6, <1>7, <1>8, TotalIsSum
  <1>12. u \in [1..n -> Int]
    BY DEF u
  <1>13. [i \in 1..n |-> tables[i].rows] = [i \in 1..n |-> u[p[i]]]
    BY <1>6, <1>7 DEF u
  <1>14. IsSum(n, [i \in 1..n |-> u[p[i]]], Total(walk))
    BY <1>5, <1>10, <1>12, SumPermuted
  <1>. QED BY <1>1, <1>11, <1>13, <1>14, SumIsOne

\* The entries of a plan about a table, and their places in a walk.
OfTable(plan, t) == {e \in Entries(plan) : e[1][e[2]].table = t}
PlacesOf(n, walk, t) == {i \in 1..n : walk[i].table = t}

LEMMA TableOfWalk ==
    ASSUME NEW plan, NEW n \in Nat, NEW f, NEW walk, Meets(n, f, Entries(plan), walk), NEW t
    PROVE  Cardinality(OfTable(plan, t)) = Cardinality(PlacesOf(n, walk, t))
  <1>. DEFINE E == OfTable(plan, t)
              I == PlacesOf(n, walk, t)
              h == [i \in I |-> f[i]]
  <1>1. /\ f \in [1..n -> Entries(plan)] /\ (\A a, b \in 1..n : f[a] = f[b] => a = b)
        /\ \A e \in Entries(plan) : \E a \in 1..n : f[a] = e
    BY DEF Meets, Bijection, Injection, Surjection, IsInjective
  <1>2. \A i \in 1..n : walk[i] = f[i][1][f[i][2]]
    BY DEF Meets
  <1>3. IsFiniteSet(I)
    <2>1. IsFiniteSet(1..n)
      BY FS_Interval
    <2>. QED BY <2>1, FS_Subset DEF PlacesOf
  <1>4. h \in [I -> E]
    BY <1>1, <1>2 DEF PlacesOf, OfTable
  <1>5. \A a, b \in I : h[a] = h[b] => a = b
    BY <1>1 DEF PlacesOf
  <1>6. \A e \in E : \E a \in I : h[a] = e
    BY <1>1, <1>2 DEF PlacesOf, OfTable
  <1>. HIDE DEF h, I, E
  <1>7. ExistsBijection(I, E)
    BY <1>4, <1>5, <1>6 DEF ExistsBijection, Bijection, Injection, Surjection, IsInjective
  <1>8. Cardinality(E) = Cardinality(I)
    BY <1>3, <1>7, FS_Bijection
  <1>. QED BY <1>8 DEF E, I

LEMMA SameTables ==
    ASSUME NEW b, NEW c, NEW n \in Nat, NEW f, NEW h, NEW v, NEW w,
           Meets(n, f, Entries(b), v), Meets(n, h, Entries(c), w),
           \A i \in 1..n : v[i].table = w[i].table
    PROVE  PlanTables(b) = PlanTables(c)
  <1>. DEFINE T(plan) == {e[1][e[2]].table : e \in Entries(plan)}
              N(plan, t) == Cardinality(OfTable(plan, t))
  <1>1. T(b) = {v[i].table : i \in 1..n}
    BY DEF Meets, Bijection, Surjection
  <1>2. T(c) = {w[i].table : i \in 1..n}
    BY DEF Meets, Bijection, Surjection
  <1>3. T(b) = T(c)
    <2>. HIDE DEF T
    <2>. QED BY <1>1, <1>2
  <1>4. \A t : N(b, t) = N(c, t)
    <2>. SUFFICES ASSUME NEW t PROVE N(b, t) = N(c, t)
      OBVIOUS
    <2>1. N(b, t) = Cardinality(PlacesOf(n, v, t))
      BY TableOfWalk
    <2>2. N(c, t) = Cardinality(PlacesOf(n, w, t))
      BY TableOfWalk
    <2>3. PlacesOf(n, v, t) = PlacesOf(n, w, t)
      BY DEF PlacesOf
    <2>. HIDE DEF N
    <2>. QED BY <2>1, <2>2, <2>3
  <1>5. PlanTables(b) = [t \in T(b) |-> N(b, t)] /\ PlanTables(c) = [t \in T(c) |-> N(c, t)]
    BY DEF PlanTables, OfTable
  <1>. HIDE DEF T, N
  <1>. QED BY <1>3, <1>4, <1>5

LEMMA KeysOfWalk ==
    ASSUME NEW plan, NEW n \in Nat, NEW f, NEW walk, Meets(n, f, Entries(plan), walk)
    PROVE  UniqueKeys(walk) = {e[1][e[2]].key : e \in Entries(plan)} \ {""}
  <1>1. /\ f \in [1..n -> Entries(plan)]
        /\ \A e \in Entries(plan) : \E a \in 1..n : f[a] = e
    BY DEF Meets, Bijection, Surjection
  <1>2. DOMAIN walk = 1..n /\ \A i \in 1..n : walk[i] = f[i][1][f[i][2]]
    BY DEF Meets
  <1>. DEFINE Keys == {e[1][e[2]].key : e \in Entries(plan)}
              Met == {walk[i].key : i \in DOMAIN walk}
  <1>3. Met = Keys
    <2>1. ASSUME NEW k \in Met PROVE k \in Keys
      <3>1. PICK i \in 1..n : k = walk[i].key
        BY <1>2, <2>1
      <3>2. k = f[i][1][f[i][2]].key /\ f[i] \in Entries(plan)
        BY <1>1, <1>2, <3>1
      <3>. QED BY <3>2
    <2>2. ASSUME NEW k \in Keys PROVE k \in Met
      <3>1. PICK e \in Entries(plan) : k = e[1][e[2]].key
        BY <2>2
      <3>2. PICK i \in 1..n : f[i] = e
        BY <1>1
      <3>3. k = walk[i].key /\ i \in DOMAIN walk
        BY <1>2, <3>1, <3>2
      <3>. QED BY <3>3
    <2>. QED BY <2>1, <2>2
  <1>. QED BY <1>3 DEF UniqueKeys

\* A report holds walks of its two plans, and says of them what BuildReport says.
WalksOfPlans(c) ==
    /\ c.plans \in PlanPairs
    /\ c.baseline \in Walks(c.plans.baseline) /\ c.candidate \in Walks(c.plans.candidate)
    /\ c.difference = [baselineFilesort |-> c.plans.baseline.filesort,
                       candidateFilesort |-> c.plans.candidate.filesort,
                       candidateOnlyKeys |-> UniqueKeys(c.candidate) \ UniqueKeys(c.baseline)]

PlansWalked ==
    /\ \A c \in comparison : WalksOfPlans(c)
    /\ \A d \in diagnosis : WalksOfPlans(d.source) /\ d.hypotheses = Derive(d.source)

LEMMA PlansStayWalked ==
    ASSUME PlansWalked, [DiagnosisNext]_diagnosisVars PROVE PlansWalked'
  <1>1. ASSUME UNCHANGED <<comparison, diagnosis>> PROVE PlansWalked'
    BY <1>1 DEF PlansWalked
  <1>2. CASE ShadowChanges
    BY <1>1, <1>2 DEF ShadowChanges
  <1>3. CASE DiagnosePlan
    <2>1. PICK c \in comparison : diagnosis' = {Analyze(c)}
      BY <1>3 DEF DiagnosePlan
    <2>2. Analyze(c).source = c /\ Analyze(c).hypotheses = Derive(c)
      BY DEF Analyze
    <2>3. comparison' = comparison
      BY <1>3 DEF DiagnosePlan
    <2>4. \A d \in diagnosis' : d = Analyze(c)
      BY <2>1
    <2>5. WalksOfPlans(c)
      BY DEF PlansWalked
    <2>6. \A d \in diagnosis' : WalksOfPlans(d.source) /\ d.hypotheses = Derive(d.source)
      BY <2>2, <2>4, <2>5
    <2>. QED BY <2>3, <2>6 DEF PlansWalked
  <1>4. CASE Bench
    BY <1>1, <1>4 DEF Bench
  <1>5. CASE AdmitSeries
    BY <1>1, <1>5 DEF AdmitSeries
  <1>6. CASE Truncate
    <2>1. comparison' \in SUBSET comparison /\ diagnosis' \in SUBSET diagnosis
      BY <1>6 DEF Truncate
    <2>. QED BY <2>1 DEF PlansWalked
  <1>7. ASSUME NEW pair \in PlanPairs, ExplainCompare(pair) PROVE PlansWalked'
    <2>1. PICK b \in Walks(pair.baseline), c \in Walks(pair.candidate) :
             comparison' = {BuildReport(pair, b, c)}
      BY <1>7 DEF ExplainCompare
    <2>2. WalksOfPlans(BuildReport(pair, b, c))
      BY DEF WalksOfPlans, BuildReport
    <2>3. diagnosis' = diagnosis
      BY <1>7 DEF ExplainCompare
    <2>4. \A r \in comparison' : WalksOfPlans(r)
      BY <2>1, <2>2
    <2>. QED BY <2>3, <2>4 DEF PlansWalked
  <1>8. CASE ReadEvidence
    BY <1>1, <1>8 DEF ReadEvidence
  <1>9. CASE BindEvidence
    BY <1>1, <1>9 DEF BindEvidence
  <1>10. CASE UNCHANGED diagnosisVars
    BY <1>1, <1>10 DEF diagnosisVars
  <1>. QED BY <1>2, <1>3, <1>4, <1>5, <1>6, <1>7, <1>8, <1>9, <1>10 DEF DiagnosisNext

\* Which hypotheses a report has.
LEMMA DerivedWhen ==
    ASSUME NEW r
    PROVE  /\ "removes_filesort" \in Derive(r)
                 <=> (r.difference.baselineFilesort /\ ~r.difference.candidateFilesort)
           /\ "changes_access_path" \in Derive(r) <=> (r.difference.candidateOnlyKeys # {})
           /\ "reduces_estimated_scan" \in Derive(r)
                 => /\ Comparable(r.baseline, r.candidate)
                    /\ Total(r.candidate) < Total(r.baseline)
  BY DEF Derive

\* When the walks are comparable the plans are, whatever their order was.
LEMMA ScanIsReduced ==
    ASSUME NEW b, NEW c, IsPlan(b), IsPlan(c), NEW v \in Walks(b), NEW w \in Walks(c),
           Comparable(v, w), Total(w) < Total(v)
    PROVE  /\ Entries(b) # {} /\ PlanTables(b) = PlanTables(c)
           /\ \A e \in Entries(b) \cup Entries(c) : e[1][e[2]].rows # Unknown
           /\ PlanRows(c) < PlanRows(b)
  <1>1. PICK n \in Nat : \E f : Meets(n, f, Entries(b), v)
    BY WalkVisits
  <1>2. PICK f : Meets(n, f, Entries(b), v)
    BY <1>1
  <1>3. PICK m \in Nat : \E h : Meets(m, h, Entries(c), w)
    BY WalkVisits
  <1>4. PICK h : Meets(m, h, Entries(c), w)
    BY <1>3
  <1>5. /\ v = [i \in 1..n |-> f[i][1][f[i][2]]] /\ w = [i \in 1..m |-> h[i][1][h[i][2]]]
        /\ f \in [1..n -> Entries(b)] /\ (\A e \in Entries(b) : \E i \in 1..n : f[i] = e)
        /\ h \in [1..m -> Entries(c)] /\ (\A e \in Entries(c) : \E i \in 1..m : h[i] = e)
    BY <1>2, <1>4 DEF Meets, Bijection, Surjection
  <1>6. Len(v) = n /\ Len(w) = m /\ DOMAIN v = 1..n /\ DOMAIN w = 1..m
    BY <1>5
  <1>7. /\ v # <<>> /\ m = n
        /\ \A i \in 1..n : v[i].table = w[i].table /\ v[i].rows # Unknown /\ w[i].rows # Unknown
    BY <1>6 DEF Comparable
  <1>8. n # 0
    <2>1. ASSUME n = 0 PROVE v = <<>>
      BY <1>5, <2>1
    <2>. QED BY <1>7, <2>1
  <1>9. Entries(b) # {}
    <2>1. 1 \in 1..n
      BY <1>8
    <2>2. f[1] \in Entries(b)
      BY <1>5, <2>1
    <2>. QED BY <2>2
  <1>10. PlanTables(b) = PlanTables(c)
    BY <1>2, <1>4, <1>7, SameTables
  <1>11. \A e \in Entries(b) \cup Entries(c) : e[1][e[2]].rows # Unknown
    <2>1. \A i \in 1..n : f[i][1][f[i][2]].rows # Unknown
      BY <1>5, <1>7
    <2>2. \A i \in 1..m : h[i][1][h[i][2]].rows # Unknown
      BY <1>5, <1>7
    <2>3. \A e \in Entries(b) : e[1][e[2]].rows # Unknown
      BY <1>5, <2>1
    <2>4. \A e \in Entries(c) : e[1][e[2]].rows # Unknown
      BY <1>5, <2>2
    <2>. QED BY <2>3, <2>4
  <1>12. ASSUME NEW plan, IsPlan(plan), NEW e \in Entries(plan)
         PROVE  e[1][e[2]].rows \in Nat \cup {Unknown}
    <2>1. PICK branch \in plan.branches : \E i \in DOMAIN branch : e = <<branch, i>>
      BY DEF Entries
    <2>. QED BY <1>12, <2>1 DEF IsPlan
  <1>13. \A i \in 1..n : v[i].rows \in Int
    <2>1. \A i \in 1..n : v[i].rows \in Nat \cup {Unknown}
      BY <1>5, <1>12
    <2>. QED BY <2>1 DEF Unknown
  <1>14. \A i \in 1..m : w[i].rows \in Int
    <2>1. \A i \in 1..m : w[i].rows \in Nat \cup {Unknown}
      BY <1>5, <1>12
    <2>. QED BY <2>1 DEF Unknown
  <1>15. PlanRows(b) = Total(v)
    BY <1>2, <1>13, RowsOfWalk
  <1>16. PlanRows(c) = Total(w)
    BY <1>4, <1>14, RowsOfWalk
  <1>. QED BY <1>9, <1>10, <1>11, <1>15, <1>16

\* In whatever order the two plans were walked, a diagnosis says of filesort and
\* access path exactly what the plans say, and calls a scan reduced only when its
\* total is, over the same tables (compare.go:148, diagnosis.go:115-170).
THEOREM HypothesesAreSound == DiagnosisSpec => []HypothesesSound
  <1>1. DiagnosisInit => PlansWalked
    BY DEF DiagnosisInit, PlansWalked
  <1>2. PlansWalked /\ [DiagnosisNext]_diagnosisVars => PlansWalked'
    BY PlansStayWalked
  <1>3. PlansWalked => HypothesesSound
    <2>. SUFFICES ASSUME PlansWalked, NEW d \in diagnosis
                  PROVE  LET b == d.source.plans.baseline
                             c == d.source.plans.candidate
                             Keys(plan) == {e[1][e[2]].key : e \in Entries(plan)} \ {""}
                             Fewer == /\ Entries(b) # {} /\ PlanTables(b) = PlanTables(c)
                                      /\ \A e \in Entries(b) \cup Entries(c) :
                                            e[1][e[2]].rows # Unknown
                                      /\ PlanRows(c) < PlanRows(b)
                         IN  /\ ("removes_filesort" \in d.hypotheses) = (b.filesort /\ ~c.filesort)
                             /\ ("changes_access_path" \in d.hypotheses) = ~(Keys(c) \subseteq Keys(b))
                             /\ "reduces_estimated_scan" \in d.hypotheses => Fewer
      BY DEF HypothesesSound
    <2>. DEFINE r == d.source
                b == r.plans.baseline
                c == r.plans.candidate
                Keys(plan) == {e[1][e[2]].key : e \in Entries(plan)} \ {""}
    <2>1. WalksOfPlans(r) /\ d.hypotheses = Derive(r)
      BY DEF PlansWalked
    <2>2. IsPlan(b) /\ IsPlan(c) /\ r.baseline \in Walks(b) /\ r.candidate \in Walks(c)
      BY <2>1, DiagnosisAssumption DEF WalksOfPlans
    <2>3. /\ r.difference.baselineFilesort = b.filesort
          /\ r.difference.candidateFilesort = c.filesort
          /\ r.difference.candidateOnlyKeys = UniqueKeys(r.candidate) \ UniqueKeys(r.baseline)
      BY <2>1 DEF WalksOfPlans
    <2>4. b.filesort \in BOOLEAN /\ c.filesort \in BOOLEAN
      BY <2>2 DEF IsPlan
    <2>5. UniqueKeys(r.baseline) = Keys(b) /\ UniqueKeys(r.candidate) = Keys(c)
      <3>1. ASSUME NEW plan, IsPlan(plan), NEW walk \in Walks(plan)
            PROVE  UniqueKeys(walk) = Keys(plan)
        <4>1. PICK n \in Nat : \E f : Meets(n, f, Entries(plan), walk)
          BY <3>1, WalkVisits
        <4>2. PICK f : Meets(n, f, Entries(plan), walk)
          BY <4>1
        <4>. QED BY <4>2, KeysOfWalk
      <3>. HIDE DEF Keys
      <3>. QED BY <2>2, <3>1
    <2>6. ("removes_filesort" \in d.hypotheses) = (b.filesort /\ ~c.filesort)
      BY <2>1, <2>3, <2>4, DerivedWhen
    <2>7. ("changes_access_path" \in d.hypotheses) = ~(Keys(c) \subseteq Keys(b))
      <3>. HIDE DEF Keys
      <3>. QED BY <2>1, <2>3, <2>5, DerivedWhen
    <2>8. ASSUME "reduces_estimated_scan" \in d.hypotheses
          PROVE  /\ Entries(b) # {} /\ PlanTables(b) = PlanTables(c)
                 /\ \A e \in Entries(b) \cup Entries(c) : e[1][e[2]].rows # Unknown
                 /\ PlanRows(c) < PlanRows(b)
      <3>1. /\ Comparable(r.baseline, r.candidate)
            /\ Total(r.candidate) < Total(r.baseline)
        BY <2>1, <2>8, DerivedWhen
      <3>. HIDE DEF b, c, r
      <3>. QED BY <2>2, <3>1, ScanIsReduced
    <2>. QED BY <2>6, <2>7, <2>8
  <1>. QED BY <1>1, <1>2, <1>3, PTL DEF DiagnosisSpec

-----------------------------------------------------------------------------
(* What TLC runs *)

\* A behaviour of MCEvidence is one of each part: what is proved of the parts
\* holds in every state that a run visits.
LEMMA EvidenceIsPartsOfIt ==
    Spec => ReviewSpec /\ DiagnosisSpec /\ KnowledgeSpec /\ PriorsSpec
  <1>. DEFINE all == <<reviewVars, diagnosisVars, knowledgeVars, priorVars, runs>>
  <1>1. Init => ReviewInit /\ DiagnosisInit /\ KnowledgeInit /\ PriorsInit
    BY DEF Init
  <1>2. [Next]_all => [ReviewNext]_reviewVars
    BY DEF Next
  <1>3. [Next]_all => [DiagnosisNext]_diagnosisVars
    BY DEF Next
  <1>4. [Next]_all => [KnowledgeNext]_knowledgeVars
    BY DEF Next
  <1>5. [Next]_all => [PriorsNext]_priorVars
    BY DEF Next
  <1>. QED BY <1>1, <1>2, <1>3, <1>4, <1>5, PTL
           DEF Spec, ReviewSpec, DiagnosisSpec, KnowledgeSpec, PriorsSpec

\* The part that runs stays in its types (webhook.go, pipeline.go, plancompare,
\* rag/mysql.go, historicalprior/relay.go).
THEOREM EvidenceTypeCorrect == Spec => []EvidenceTypeOK
  <1>. DEFINE all == <<reviewVars, diagnosisVars, knowledgeVars, priorVars, runs>>
              Known4 == runs \in {"review", "diagnosis", "knowledge", "priors"}
  <1>1. Init => Known4
    BY DEF Init
  <1>2. Known4 /\ [Next]_all => Known4'
    BY DEF Next
  <1>3. ASSUME Known4, ReviewTypeOK, DiagnosisTypeOK, KnowledgeTypeOK, PriorsTypeOK
        PROVE  EvidenceTypeOK
    <2>1. CASE runs = "review"
      BY <1>3, <2>1 DEF EvidenceTypeOK
    <2>2. CASE runs = "diagnosis"
      BY <1>3, <2>2 DEF EvidenceTypeOK
    <2>3. CASE runs = "knowledge"
      BY <1>3, <2>3 DEF EvidenceTypeOK
    <2>4. CASE runs = "priors"
      BY <1>3, <2>4 DEF EvidenceTypeOK
    <2>. QED BY <1>3, <2>1, <2>2, <2>3, <2>4
  <1>. QED BY <1>1, <1>2, <1>3, EvidenceIsPartsOfIt, ReviewTypeCorrect, DiagnosisTypeCorrect,
              KnowledgeTypeCorrect, PriorsTypeCorrect, PTL DEF Spec

=============================================================================
