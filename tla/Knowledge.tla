------------------------------- MODULE Knowledge -------------------------------
(***************************************************************************)
(* The knowledge assistant: documents of a tenant and project (a scope)    *)
(* are cut into chunks and stored with their vectors; a question retrieves *)
(* chunks of its scope, and an answer cites some of them.                  *)
(*                                                                         *)
(* A request is one HTTP request.  The store is MySQL: a transaction reads *)
(* what is committed, its writes are seen when it commits.  An upsert      *)
(* first inserts the row of its scope: if it is new the row is locked, if  *)
(* it exists INSERT IGNORE leaves a shared lock on it; FOR UPDATE then     *)
(* needs the row alone.  A document's content stands for its version.      *)
(***************************************************************************)
EXTENDS Naturals, Sequences, FiniteSets, SequencesExt, FiniteSetsExt

CONSTANTS
    Requests,
    Scopes,
    DocumentIds,
    Contents,      \* what documents contain
    MaxRunes, Overlap, \* ChunkConfig
    Capacity,      \* chunks of a scope (10000)
    MaxChunks,     \* chunks of a document (128)
    TopK,
    Strays,        \* chunks that a store outside may return, and a model cite
    MaxErrors      \* bound: failed statements and calls

ASSUME KnowledgeAssumption ==
    /\ Contents \subseteq Seq({"x", "blank", "newline"})
    /\ MaxRunes \in Nat \ {0} /\ Overlap \in Nat /\ Overlap < MaxRunes
    /\ Capacity \in Nat /\ MaxChunks \in Nat /\ TopK \in Nat /\ MaxErrors \in Nat

VARIABLES
    adapter,       \* "mysql", or a remote vector service
    stage,         \* where a request is
    want,          \* what it asks for
    since,         \* rows of the audit log of its scope when a question arrived
    scopeRows,     \* rows of rag_scopes
    shared, owner, \* locks on them
    chunks,        \* rows of rag_chunks
    documents,     \* rows of rag_documents
    audit,         \* what ragAudit wrote for a scope
    found,         \* the chunks a question retrieved
    answer,        \* what a request was answered, and the chunks it cites
    errors

storeVars == <<scopeRows, chunks, documents, audit>>
lockVars == <<shared, owner>>
knowledgeVars == <<adapter, stage, want, since, storeVars, lockVars, found, answer, errors>>

-----------------------------------------------------------------------------
(* Chunks of a content: positions from + 1 .. to *)

\* The next chunk overlaps, unless that would make no progress.
NextStart(start, end) == IF end <= start + Overlap THEN end ELSE end - Overlap

\* The last line end in the second half of a chunk, or its hard end.
ChunkEnd(content, start) ==
    LET hard == IF start + MaxRunes < Len(content) THEN start + MaxRunes ELSE Len(content)
        breaks == {c \in (start + MaxRunes \div 2) + 1..hard : content[c] = "newline"}
    IN  IF hard < Len(content) /\ breaks # {} THEN Max(breaks) ELSE hard

Visible(content, n) == content[n] = "x"

\* A blank chunk is left out.
ChunkAt(content, start) ==
    LET end == ChunkEnd(content, start)
    IN  IF \E n \in start + 1..end : Visible(content, n)
        THEN {[from |-> start, to |-> end]} ELSE {}

ChunkDocument(content) ==
    LET from[start \in 0..Len(content)] ==
            LET end == ChunkEnd(content, start)
            IN  ChunkAt(content, start) \cup
                (IF end = Len(content) THEN {} ELSE from[NextStart(start, end)])
    IN  from[0]

ChunksOf(scope, id, content) ==
    {[scope |-> scope, id |-> id, content |-> content, range |-> range] :
        range \in ChunkDocument(content)}

\* Every chunk that any document can have.
AllChunks == UNION {ChunksOf(s, d, c) : s \in Scopes, d \in DocumentIds, c \in Contents}

\* Such chunks are of any scope, of documents that were replaced or deleted, or
\* of documents that were never stored.
ASSUME StraysAssumption == Strays \subseteq AllChunks /\ IsFiniteSet(Strays)

-----------------------------------------------------------------------------

NoAnswer == [code |-> "none", cites |-> {}]

InTransaction == {"begin", "lock", "count", "write"}

KnowledgeTypeOK ==
    /\ adapter \in {"mysql", "remote"}
    /\ stage \in [Requests -> InTransaction \cup
                     {"idle", "embed", "question", "draft", "end"}]
    /\ \A p \in Requests : stage[p] # "idle" =>
          want[p].kind \in {"ingest", "delete", "query", "answer"} /\ want[p].scope \in Scopes
    /\ scopeRows \subseteq Scopes /\ chunks \subseteq AllChunks
    /\ \A s \in Scopes :
          /\ shared[s] \subseteq Requests
          /\ Cardinality(owner[s]) <= 1 /\ owner[s] \subseteq Requests
          /\ owner[s] # {} => shared[s] \subseteq owner[s]
          /\ \A p \in shared[s] \cup owner[s] : stage[p] \in InTransaction
    /\ \A p \in Requests : found[p] \subseteq AllChunks
    /\ errors \in 0..MaxErrors

KnowledgeInit ==
    /\ adapter \in {"mysql", "remote"}
    /\ stage = [p \in Requests |-> "idle"]
    /\ want = [p \in Requests |-> [kind |-> "none"]]
    /\ since = [p \in Requests |-> 0]
    /\ scopeRows = {} /\ chunks = {}
    /\ shared = [s \in Scopes |-> {}] /\ owner = [s \in Scopes |-> {}]
    /\ documents = [s \in Scopes |-> [d \in DocumentIds |-> {}]]
    /\ audit = [s \in Scopes |-> <<>>]
    /\ found = [p \in Requests |-> {}]
    /\ answer = [p \in Requests |-> NoAnswer]
    /\ errors = 0

ErrorHappens == errors < MaxErrors /\ errors' = errors + 1
Enters(p, next) == stage' = [stage EXCEPT ![p] = next]

\* The response; a transaction that is open is rolled back, or was committed.
Responds(p, code, cites) ==
    /\ Enters(p, "end")
    /\ answer' = [answer EXCEPT ![p] = [code |-> code, cites |-> cites]]
    /\ shared' = [s \in Scopes |-> shared[s] \ {p}]
    /\ owner' = [s \in Scopes |-> owner[s] \ {p}]

\* The request arrives; what is invalid is answered at once and changes nothing.
\* What a remote store does with documents is not known: it is only asked.
Ask(p, w) ==
    /\ stage[p] = "idle"
    /\ w.kind \in {"ingest", "delete"} => adapter = "mysql"
    /\ want' = [want EXCEPT ![p] = w]
    /\ since' = IF w.kind \in {"query", "answer"}
                THEN [since EXCEPT ![p] = Len(audit[w.scope])] ELSE since
    /\ Enters(p, CASE w.kind = "ingest" -> "embed"
                   [] w.kind = "delete" -> "lock"
                   [] OTHER -> "question")
    /\ UNCHANGED <<adapter, storeVars, lockVars, found, answer, errors>>

\* A statement, the embedding service or the model fails, or the request ends.
\* InnoDB rolls one of two requests back that both hold the shared lock and
\* both wait for the other's.
Breaks(p) ==
    LET s == want[p].scope
    IN  /\ stage[p] \notin {"idle", "end"}
        /\ \/ ErrorHappens
           \/ /\ stage[p] = "lock" /\ p \in shared[s]
              /\ \E q \in shared[s] \ {p} : stage[q] = "lock"
              /\ UNCHANGED errors
        /\ Responds(p, "failed", {})
        /\ UNCHANGED <<adapter, want, since, storeVars, found>>

-----------------------------------------------------------------------------
(* Documents *)

\* Ingest: the chunks, and their vectors in batches of four.
Embed(p) ==
    /\ stage[p] = "embed"
    /\ IF Cardinality(ChunkDocument(want[p].content)) \in 1..MaxChunks
       THEN Enters(p, "begin") /\ UNCHANGED <<answer, lockVars>>
       ELSE Responds(p, "invalid", {})
    /\ UNCHANGED <<adapter, want, since, storeVars, found, errors>>

\* INSERT IGNORE INTO rag_scopes
InsertScope(p) ==
    LET s == want[p].scope
    IN  /\ stage[p] = "begin"
        /\ owner[s] = {}
        /\ IF s \in scopeRows
           THEN shared' = [shared EXCEPT ![s] = @ \cup {p}] /\ UNCHANGED owner
           ELSE owner' = [owner EXCEPT ![s] = {p}] /\ UNCHANGED shared
        /\ Enters(p, "lock")
        /\ UNCHANGED <<adapter, want, since, storeVars, found, answer, errors>>

MayLock(p) ==
    /\ owner[want[p].scope] \subseteq {p}
    /\ shared[want[p].scope] \subseteq {p}

\* SELECT ... FOR UPDATE; a scope without a row has no documents.
LockScope(p) ==
    LET s == want[p].scope
    IN  /\ stage[p] = "lock"
        /\ MayLock(p)
        /\ IF s \notin scopeRows /\ want[p].kind = "delete"
           THEN Responds(p, "document_not_found", {})
           ELSE /\ owner' = [owner EXCEPT ![s] = {p}]
                /\ Enters(p, IF want[p].kind = "delete" THEN "write" ELSE "count")
                /\ UNCHANGED <<shared, answer>>
        /\ UNCHANGED <<adapter, want, since, storeVars, found, errors>>

RowsOf(s, id) == {c \in chunks : c.scope = s /\ c.id = id}

\* The chunks of the other documents and the new ones must fit.
CountChunks(p) ==
    LET w == want[p]
        others == {c \in chunks : c.scope = w.scope /\ c.id # w.id}
    IN  /\ stage[p] = "count"
        /\ IF Cardinality(others) + Cardinality(ChunkDocument(w.content)) > Capacity
           THEN Responds(p, "failed", {})
           ELSE Enters(p, "write") /\ UNCHANGED <<answer, lockVars>>
        /\ UNCHANGED <<adapter, want, since, storeVars, found, errors>>

\* The commit answers, or its answer is lost.
Commits(p, code) ==
    \/ Responds(p, code, {}) /\ UNCHANGED errors
    \/ Responds(p, "failed", {}) /\ ErrorHappens

\* Mutant: chunks of the same version only are deleted.
Upsert_KeepsOld(p) ==
    LET w == want[p]
    IN  /\ stage[p] = "write" /\ w.kind = "ingest"
        /\ chunks' = chunks \cup ChunksOf(w.scope, w.id, w.content)
        /\ documents' = [documents EXCEPT ![w.scope][w.id] = {w.content}]
        /\ scopeRows' = scopeRows \cup {w.scope}
        /\ audit' = [audit EXCEPT ![w.scope] = Append(@, [id |-> w.id, version |-> {w.content}])]
        /\ Commits(p, "stored")
        /\ UNCHANGED <<adapter, want, since, found>>

\* DELETE, INSERT, the document and the audit row; COMMIT.
Upsert(p) ==
    LET w == want[p]
    IN  /\ stage[p] = "write" /\ w.kind = "ingest"
        /\ chunks' = (chunks \ RowsOf(w.scope, w.id)) \cup ChunksOf(w.scope, w.id, w.content)
        /\ documents' = [documents EXCEPT ![w.scope][w.id] = {w.content}]
        /\ scopeRows' = scopeRows \cup {w.scope}
        /\ audit' = [audit EXCEPT ![w.scope] = Append(@, [id |-> w.id, version |-> {w.content}])]
        /\ Commits(p, "stored")
        /\ UNCHANGED <<adapter, want, since, found>>

\* Mutant: the document is deleted, its chunks are not.
DeleteDocument_KeepsChunks(p) ==
    LET w == want[p]
    IN  /\ stage[p] = "write" /\ w.kind = "delete"
        /\ documents[w.scope][w.id] # {}
        /\ documents' = [documents EXCEPT ![w.scope][w.id] = {}]
        /\ audit' = [audit EXCEPT ![w.scope] = Append(@, [id |-> w.id, version |-> {}])]
        /\ Commits(p, "deleted")
        /\ UNCHANGED <<adapter, want, since, found, scopeRows, chunks>>

DeleteDocument(p) ==
    LET w == want[p]
    IN  /\ stage[p] = "write" /\ w.kind = "delete"
        /\ IF documents[w.scope][w.id] = {}
           THEN /\ Responds(p, "document_not_found", {})
                /\ UNCHANGED <<chunks, documents, audit, errors>>
           ELSE /\ chunks' = chunks \ RowsOf(w.scope, w.id)
                /\ documents' = [documents EXCEPT ![w.scope][w.id] = {}]
                /\ audit' = [audit EXCEPT ![w.scope] = Append(@, [id |-> w.id, version |-> {}])]
                /\ Commits(p, "deleted")
        /\ UNCHANGED <<adapter, want, since, found, scopeRows>>

-----------------------------------------------------------------------------
(* Questions *)

\* What the vector store returns: the best of the scope, in one SELECT; or what
\* a remote service likes to return.
Returned(p) ==
    IF adapter = "mysql"
    THEN {hits \in SUBSET {c \in chunks : c.scope = want[p].scope} : Cardinality(hits) <= TopK}
    ELSE {hits \in SUBSET Strays : Cardinality(hits) <= TopK + 1}

\* What Query keeps of them: those of the scope.  A chunk that it drops as
\* expired, trusted or badly scored is as one that was not returned; versions
\* are not looked at.  The reranker may only change the order.
Kept(p, hits) == {c \in hits : c.scope = want[p].scope}

Search(p) ==
    /\ stage[p] = "question"
    /\ \E hits \in Returned(p) : \E cut \in SUBSET Kept(p, hits) :
          /\ Cardinality(cut) = (IF Cardinality(Kept(p, hits)) > TopK THEN TopK
                                 ELSE Cardinality(Kept(p, hits)))
          /\ found' = [found EXCEPT ![p] = cut]
          /\ IF cut = {} THEN Responds(p, "no_evidence", {})
             ELSE IF want[p].kind = "query" THEN Responds(p, "context", cut)
             ELSE Enters(p, "draft") /\ UNCHANGED <<answer, lockVars>>
    /\ UNCHANGED <<adapter, want, since, storeVars, errors>>

\* All cited chunks were retrieved for this question.
MayCite(p, ids) == ids \subseteq found[p]

\* What a model may cite: chunks that it was shown, and another.
Cited(p) == {some \cup other : some \in SUBSET found[p],
                              other \in {{}} \cup {{c} : c \in chunks \cup Strays}}

\* The model drafts a text, or none, with ids of chunks, or something that is
\* not such an answer.
Draft(p, text, ids) ==
    /\ stage[p] = "draft"
    /\ IF text = "garbage" THEN Responds(p, "answer_invalid", {})
       ELSE IF ~MayCite(p, ids) THEN Responds(p, "answer_citation_invalid", {})
       ELSE IF text = "empty" \/ ids = {} THEN Responds(p, "refusal", {})
       ELSE Responds(p, "answered", ids)
    /\ UNCHANGED <<adapter, want, since, storeVars, found, errors>>

Wishes ==
    [kind: {"ingest"}, scope: Scopes, id: DocumentIds, content: Contents]
        \cup [kind: {"delete"}, scope: Scopes, id: DocumentIds]
        \cup [kind: {"query", "answer"}, scope: Scopes]

KnowledgeNext ==
    \E p \in Requests :
        \/ \E w \in Wishes : Ask(p, w)
        \/ Embed(p) \/ InsertScope(p) \/ LockScope(p) \/ CountChunks(p)
        \/ Upsert(p) \/ DeleteDocument(p) \/ Search(p) \/ Breaks(p)
        \/ \E text \in {"text", "empty", "garbage"}, ids \in Cited(p) : Draft(p, text, ids)

KnowledgeSpec == KnowledgeInit /\ [][KnowledgeNext]_knowledgeVars

-----------------------------------------------------------------------------
(* Correctness *)

\* The last thing that a log says of a document.
LastSaid(log, id) ==
    LET mine == {n \in DOMAIN log : log[n].id = id}
    IN  IF mine = {} THEN {} ELSE log[Max(mine)].version

\* The version that the audit log of a scope says a document has, and had when
\* the log was m rows long.
Replayed(s, id) == LastSaid(audit[s], id)
ReplayedTo(s, id, m) == LastSaid(SubSeq(audit[s], 1, m), id)

\* Chunks, documents and audit log agree: a scope never holds more chunks than
\* its capacity, a document has the chunks of its present version and no others,
\* whoever replaced or deleted it meanwhile, and the log replays to the table
\* (rag/mysql.go:50-83, 151-171).
TablesAgree ==
    \A s \in Scopes :
        /\ Cardinality({c \in chunks : c.scope = s}) <= Capacity
        /\ \A d \in DocumentIds :
              /\ RowsOf(s, d) = UNION {ChunksOf(s, d, v) : v \in documents[s][d]}
              /\ Replayed(s, d) = documents[s][d]

\* The chunks of a document hold all that is visible in it, none is longer than
\* MaxRunes or empty, and one that starts later never ends earlier, so citations
\* stay in the order of the text (rag/ingest.go:76-112).
ChunksCover ==
    \A c \in chunks :
        LET ranges == ChunkDocument(c.content)
        IN  /\ \A n \in DOMAIN c.content : Visible(c.content, n) =>
                  \E r \in ranges : n \in r.from + 1..r.to
            /\ \A r, q \in ranges :
                  /\ r.to - r.from \in 1..MaxRunes
                  /\ r.from <= q.from => r.to <= q.to

\* The tables agree, and the chunks of a stored document hold all of it.
StoreAgrees == TablesAgree /\ ChunksCover

\* What was found for a question was stored together at one moment since the
\* question arrived: nothing deleted or replaced before it, and no mix of what
\* was never stored at the same time.
StoredAtOnce(p) ==
    LET s == want[p].scope
    IN  \E m \in since[p]..Len(audit[s]) :
           \A c \in found[p] : ReplayedTo(s, c.id, m) = {c.content}

\* A question is answered from chunks of its own scope that were retrieved for
\* it, at most TopK, even when a remote store returns others, or the model cites
\* what it was not shown.  The MySQL store found them together at one moment
\* since the question arrived, whatever is replaced and deleted while the model
\* drafts; of a remote store the code cannot know (rag/service.go:99,
\* rag/mysql.go:85-141, service/extension.go:359).
AnswersCited ==
    \A p \in Requests : answer[p].cites # {} =>
        /\ answer[p].cites \subseteq found[p] /\ Cardinality(found[p]) <= TopK
        /\ \A c \in found[p] : c.scope = want[p].scope
        /\ adapter = "mysql" => StoredAtOnce(p)

=============================================================================
