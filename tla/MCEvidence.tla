------------------------------ MODULE MCEvidence ------------------------------
(* Local reviews, diagnoses, the knowledge assistant and historical priors on *)
(* small instances.  They share nothing: a behaviour runs one of them.        *)
EXTENDS Review, Diagnosis, Knowledge, Priors, TLC

CONSTANTS r1, r2, d1, s1, s2, i1, q1, q2, q3, a1, a2, j1, j2, l1, l2, t1, t2

VARIABLE runs  \* the part that a behaviour runs

SomeDiffs ==
    {<<"other file", "+select">>, <<"sql file", "+select">>, <<"sql file", "+drop">>,
     <<"sql file", "+blank", "sql file", "+select", "other file", "+drop">>,
     <<"sql file", "+select", "sql file", "+select">>}

Scan(t, n) == [table |-> t, key |-> "", rows |-> n]
Ref(t, n) == [table |-> t, key |-> "ix", rows |-> n]
Plan(branches, filesort) == [branches |-> branches, filesort |-> filesort]
Pair(b, c) == [baseline |-> b, candidate |-> c]

\* A better key, another join order, branches, no estimate, no change, and
\* other tables.
SomePlanPairs ==
    {Pair(Plan({<<Scan("o", 9)>>}, TRUE), Plan({<<Ref("o", 2)>>}, FALSE)),
     Pair(Plan({<<Scan("o", 9), Scan("u", 5)>>}, FALSE),
          Plan({<<Scan("u", 5), Ref("o", 2)>>}, TRUE)),
     Pair(Plan({<<Scan("o", 9)>>, <<Scan("u", 5)>>}, FALSE),
          Plan({<<Scan("u", 5)>>, <<Ref("o", 2)>>}, FALSE)),
     Pair(Plan({<<Scan("o", 9)>>}, FALSE), Plan({<<Ref("o", Unknown)>>}, FALSE)),
     Pair(Plan({<<Scan("o", 9)>>}, TRUE), Plan({<<Scan("o", 9)>>}, TRUE)),
     Pair(Plan({<<Scan("o", 9)>>}, TRUE), Plan({<<Scan("u", 2)>>}, TRUE))}

SomeContents ==
    LET x == "x" b == "blank" n == "newline"
    IN  {<<x, x, n, x, b, b, b, b, x, n>>, <<x, x, x, n, x>>, <<x, n>>}

\* Chunks of one document of each scope, of two versions.
SomeStrays == {c \in AllChunks : c.id = 1 /\ c.range.from = 0 /\ Len(c.content) < 10}

SomeTables == (j1 :> {t1}) @@ (j2 :> {t1, t2})

\* The parts that do not run stay in one of their initial states.
Init ==
    /\ ReviewInit /\ DiagnosisInit /\ KnowledgeInit /\ PriorsInit
    /\ runs \in {"review", "diagnosis", "knowledge", "priors"}
    /\ runs # "review" => served /\ room = 1
    /\ runs # "diagnosis" => shadow = [snapshot |-> s1, index |-> i1]
    /\ runs # "knowledge" => adapter = "mysql"

Next ==
    /\ UNCHANGED runs
    /\ \/ /\ runs = "review" /\ ReviewNext
          /\ UNCHANGED <<diagnosisVars, knowledgeVars, priorVars>>
       \/ /\ runs = "diagnosis" /\ DiagnosisNext
          /\ UNCHANGED <<reviewVars, knowledgeVars, priorVars>>
       \/ /\ runs = "knowledge" /\ KnowledgeNext
          /\ UNCHANGED <<reviewVars, diagnosisVars, priorVars>>
       \/ /\ runs = "priors" /\ PriorsNext
          /\ UNCHANGED <<reviewVars, diagnosisVars, knowledgeVars>>

Spec == Init /\ [][Next]_<<reviewVars, diagnosisVars, knowledgeVars, priorVars, runs>>

EvidenceTypeOK ==
    CASE runs = "review" -> ReviewTypeOK
      [] runs = "diagnosis" -> DiagnosisTypeOK
      [] runs = "knowledge" -> KnowledgeTypeOK
      [] runs = "priors" -> PriorsTypeOK

\* The parts have names of their own: one permutation swaps those of all.
Swap == (r1 :> r2) @@ (r2 :> r1) @@ (a1 :> a2) @@ (a2 :> a1) @@ (l1 :> l2) @@ (l2 :> l1)

Symmetry == Permutations({q1, q2, q3}) \cup {Swap}
=============================================================================
