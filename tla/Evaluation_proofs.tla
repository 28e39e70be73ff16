-------------------------- MODULE Evaluation_proofs --------------------------
(***************************************************************************)
(* Proofs about Evaluation, for any workflows, participants, questions,    *)
(* scores and calls.                                                       *)
(***************************************************************************)
EXTENDS Evaluation, TLAPS

USE NullIsNoRow, NullIsNoEvaluation

(* A call that is under way or over has its row and its request.           *)
Rows == \A a \in Attempts :
  IF pc[a] = "idle" THEN evaluations[a] = NULL
  ELSE evaluations[a] \in Evaluations /\ request[a] \in Requests

(* The row is completed by the transaction that writes the details.        *)
Progress == \A a \in Attempts :
  /\ pc[a] = "details" => request[a].given # NoDetails /\ ~Completed(a)
  /\ pc[a] = "reply" => request[a].given = NoDetails \/ Completed(a)

(* What a call took from the group is the group's score, or the question   *)
(* was graded by a write the call has not seen.                            *)
GroupScores == \A a \in Attempts : pc[a] # "idle" =>
  /\ \A g \in request[a].seen : graded[g] # NULL
  /\ \A q \in request[a].grouped :
       \/ request[a].given[q] = groupEvaluations[q].score
       \/ \E g \in GroupWrites \ request[a].seen : graded[g] = q

(* A reply, and the report made of it, name a row of their workflow and    *)
(* participant.                                                            *)
NamesItsRow(x) ==
  /\ evaluations[x.evaluation] # NULL
  /\ evaluations[x.evaluation].workflow = x.workflow
  /\ evaluations[x.evaluation].participant = x.participant

RepliesName == \A r \in Reporters : replies[r] # NULL => NamesItsRow(replies[r])
ReportsName == \A r \in Reporters : reports[r] # NULL => NamesItsRow(reports[r])

IInv == /\ TypeOK /\ Rows /\ CompletedIsWhole /\ Progress
        /\ GroupScores /\ RepliesName /\ ReportsName

-----------------------------------------------------------------------------
LEMMA InductiveInit == Init => IInv
  BY DEF Init, IInv, TypeOK, Rows, CompletedIsWhole, Progress, Completed,
     GroupScores, RepliesName, ReportsName, NoDetails

(* What the evaluator sends has the type of a request, and the scores it   *)
(* takes from the group are the group's.                                   *)
LEMMA CallTypes ==
  ASSUME TypeOK, NEW call \in Calls
  PROVE  /\ call \in Requests
         /\ \A g \in call.seen : graded[g] # NULL
         /\ \A q \in call.grouped : call.given[q] = groupEvaluations[q].score
<1>1. CASE \E given \in [Questions -> Scores \cup {NULL}] :
             call = [given |-> given, grouped |-> {}, seen |-> {}]
  BY <1>1 DEF Requests
<1>2. ASSUME NEW grouped \in SUBSET {q \in Questions : groupEvaluations[q] # NULL},
             call = [given |-> FromGroup(grouped), grouped |-> grouped,
                     seen |-> {g \in GroupWrites : graded[g] # NULL}]
      PROVE  /\ call \in Requests
             /\ \A g \in call.seen : graded[g] # NULL
             /\ \A q \in call.grouped : call.given[q] = groupEvaluations[q].score
  <2>1. \A q \in grouped : groupEvaluations[q].score \in Scores
    BY DEF TypeOK
  <2>2. FromGroup(grouped) \in [Questions -> Scores \cup {NULL}]
    BY <2>1 DEF FromGroup
  <2>3. \A q \in grouped : FromGroup(grouped)[q] = groupEvaluations[q].score
    BY DEF FromGroup
  <2> QED
    BY <1>2, <2>2, <2>3 DEF Requests
<1> QED
  BY <1>1, <1>2 DEF Calls

(* A row keeps its workflow and participant, so what names it goes on      *)
(* naming it.                                                              *)
RowsKeep == \A a \in Attempts : evaluations[a] # NULL =>
  /\ evaluations'[a] # NULL
  /\ evaluations'[a].workflow = evaluations[a].workflow
  /\ evaluations'[a].participant = evaluations[a].participant

LEMMA NamesKept ==
  ASSUME RowsKeep, NEW x, x.evaluation \in Attempts, NamesItsRow(x)
  PROVE  NamesItsRow(x)'
  BY DEF RowsKeep, NamesItsRow

LEMMA NamesAllKept ==
  ASSUME IInv, RowsKeep, UNCHANGED <<replies, reports>>
  PROVE  RepliesName' /\ ReportsName'
<1>1. \A r \in Reporters : replies[r] # NULL => replies[r].evaluation \in Attempts
  BY DEF IInv, TypeOK, Replies
<1>2. \A r \in Reporters : reports[r] # NULL => reports[r].evaluation \in Attempts
  BY DEF IInv, TypeOK, Reports
<1>3. RepliesName'
  BY <1>1, NamesKept DEF IInv, RepliesName
<1>4. ReportsName'
  BY <1>2, NamesKept DEF IInv, ReportsName
<1> QED
  BY <1>3, <1>4

-----------------------------------------------------------------------------
(* One lemma per call that writes.                                         *)

LEMMA GroupStep ==
  ASSUME IInv, NEW g \in GroupWrites, NEW q \in Questions, NEW score \in Scores,
         CreateGroupEvaluation(g, q, score)
  PROVE  IInv'
<1> USE DEF IInv
<1>1. /\ graded[g] = NULL
      /\ graded' = [graded EXCEPT ![g] = q]
      /\ UNCHANGED <<current, evaluations, details, reports, pc, request, replies>>
  BY DEF CreateGroupEvaluation
<1> DEFINE row == [score |-> score,
                   reasoning |-> IF groupEvaluations[q] = NULL THEN g
                                 ELSE groupEvaluations[q].reasoning]
<1>2. groupEvaluations' = [groupEvaluations EXCEPT ![q] = row]
  BY DEF CreateGroupEvaluation, UpsertGroupEvaluation
<1>3. row \in [score : Scores, reasoning : GroupWrites]
  BY DEF TypeOK
<1> HIDE DEF row
<1>4. TypeOK'
  BY <1>1, <1>2, <1>3 DEF TypeOK
<1>5. Rows' /\ CompletedIsWhole' /\ Progress'
  BY <1>1 DEF Rows, CompletedIsWhole, Progress, Completed
<1>6. RepliesName' /\ ReportsName'
  BY <1>1, NamesAllKept DEF RowsKeep
<1>7. GroupScores'
  <2> SUFFICES ASSUME NEW a \in Attempts, pc[a] # "idle"
               PROVE  /\ \A h \in request[a].seen : graded'[h] # NULL
                      /\ \A x \in request[a].grouped :
                           \/ request[a].given[x] = groupEvaluations'[x].score
                           \/ \E h \in GroupWrites \ request[a].seen : graded'[h] = x
    BY <1>1 DEF GroupScores
  <2>1. /\ request[a].seen \subseteq GroupWrites
        /\ request[a].grouped \subseteq Questions
    BY DEF Rows, Requests
  <2>2. \A h \in request[a].seen : graded[h] # NULL
    BY DEF GroupScores
  <2>3. \A h \in request[a].seen : graded'[h] # NULL
    BY <1>1, <2>1, <2>2 DEF TypeOK
  <2>4. g \in GroupWrites \ request[a].seen /\ graded'[g] = q
    BY <1>1, <2>2 DEF TypeOK
  <2>5. ASSUME NEW x \in request[a].grouped, x # q
        PROVE  \/ request[a].given[x] = groupEvaluations'[x].score
               \/ \E h \in GroupWrites \ request[a].seen : graded'[h] = x
    <3>1. groupEvaluations'[x] = groupEvaluations[x]
      BY <1>2, <2>1, <2>5 DEF TypeOK
    <3>2. \A h \in GroupWrites : graded[h] = x => graded'[h] = x
      BY <1>1, <2>1 DEF TypeOK
    <3> QED
      BY <3>1, <3>2 DEF GroupScores
  <2> QED
    BY <2>3, <2>4, <2>5
<1> QED
  BY <1>4, <1>5, <1>6, <1>7

LEMMA CreateStep ==
  ASSUME IInv, NEW a \in Attempts, NEW w \in Workflows, NEW p \in Participants,
         NEW call \in Calls, CreateEvaluation(a, w, p, call)
  PROVE  IInv'
<1> USE DEF IInv
<1> DEFINE row == [workflow |-> w, participant |-> p, status |-> "in_progress"]
           label == IF call.given = NoDetails THEN "reply" ELSE "details"
<1>1. /\ pc[a] = "idle"
      /\ request' = [request EXCEPT ![a] = call]
      /\ evaluations' = [evaluations EXCEPT ![a] = row]
      /\ pc' = [pc EXCEPT ![a] = label]
      /\ UNCHANGED <<current, details, groupEvaluations, reports, graded, replies>>
  BY DEF CreateEvaluation, InsertEvaluation, Goto
<1>2. row \in Evaluations /\ row.status = "in_progress" /\ call \in Requests
  BY CallTypes DEF Evaluations
<1>3. label \in {"reply", "details"}
  OBVIOUS
<1>4. label = "reply" <=> call.given = NoDetails
  OBVIOUS
<1> HIDE DEF row, label
<1>5. TypeOK'
  BY <1>1, <1>2, <1>3 DEF TypeOK
<1>6. Rows'
  BY <1>1, <1>2, <1>3 DEF TypeOK, Rows
<1>7. CompletedIsWhole' /\ Progress'
  <2>1. ASSUME NEW x \in Attempts, x # a
        PROVE  /\ pc'[x] = pc[x] /\ request'[x] = request[x]
               /\ Completed(x)' <=> Completed(x)
    BY <1>1, <2>1 DEF TypeOK, Completed
  <2>2. /\ pc'[a] = label /\ request'[a] = call
        /\ ~Completed(a)' /\ ~Completed(a)
    BY <1>1, <1>2 DEF TypeOK, Rows, Completed
  <2>3. details' = details /\ details[a] = NoDetails
    BY <1>1, <2>2 DEF CompletedIsWhole
  <2>4. CompletedIsWhole'
    BY <1>3, <2>1, <2>2, <2>3 DEF CompletedIsWhole, NoDetails
  <2>5. Progress'
    BY <1>3, <1>4, <2>1, <2>2 DEF Progress, NoDetails
  <2> QED
    BY <2>4, <2>5
<1>8. GroupScores'
  BY <1>1, CallTypes DEF GroupScores, TypeOK
<1>9. RowsKeep
  BY <1>1 DEF RowsKeep, Rows, TypeOK
<1>10. RepliesName' /\ ReportsName'
  BY <1>1, <1>9, NamesAllKept
<1> QED
  BY <1>5, <1>6, <1>7, <1>8, <1>10

LEMMA DetailsStep ==
  ASSUME IInv, NEW a \in Attempts, WriteEvaluationDetails(a)
  PROVE  IInv'
<1> USE DEF IInv
<1> DEFINE row == [evaluations[a] EXCEPT !.status = "completed"]
<1>1. /\ pc[a] = "details"
      /\ details' = [details EXCEPT ![a] = request[a].given]
      /\ evaluations' = [evaluations EXCEPT ![a] = row]
      /\ pc' = [pc EXCEPT ![a] = "reply"]
      /\ UNCHANGED <<current, groupEvaluations, reports, request, graded, replies>>
  BY DEF WriteEvaluationDetails, Goto
<1>2. /\ evaluations[a] \in Evaluations /\ request[a] \in Requests
      /\ request[a].given \in [Questions -> Scores \cup {NULL}]
  BY <1>1 DEF Rows, Requests
<1>3. /\ row \in Evaluations /\ row.status = "completed"
      /\ row.workflow = evaluations[a].workflow
      /\ row.participant = evaluations[a].participant
  BY <1>2 DEF Evaluations
<1> HIDE DEF row
<1>4. TypeOK'
  BY <1>1, <1>2, <1>3 DEF TypeOK
<1>5. Rows'
  BY <1>1, <1>2, <1>3 DEF TypeOK, Rows
<1>6. CompletedIsWhole' /\ Progress'
  <2>1. ASSUME NEW x \in Attempts, x # a
        PROVE  /\ pc'[x] = pc[x] /\ details'[x] = details[x]
               /\ Completed(x)' <=> Completed(x)
    BY <1>1, <2>1 DEF TypeOK, Completed
  <2>2. pc'[a] = "reply" /\ details'[a] = request[a].given /\ Completed(a)'
    BY <1>1, <1>3 DEF TypeOK, Completed
  <2>3. request[a].given # NoDetails
    BY <1>1 DEF Progress
  <2>4. CompletedIsWhole'
    BY <1>1, <2>1, <2>2, <2>3 DEF CompletedIsWhole, NoDetails
  <2>5. Progress'
    BY <1>1, <2>1, <2>2 DEF Progress, NoDetails
  <2> QED
    BY <2>4, <2>5
<1>7. GroupScores'
  BY <1>1 DEF GroupScores, TypeOK
<1>8. RowsKeep
  BY <1>1, <1>3 DEF RowsKeep, TypeOK
<1>9. RepliesName' /\ ReportsName'
  BY <1>1, <1>8, NamesAllKept
<1> QED
  BY <1>4, <1>5, <1>6, <1>7, <1>9

LEMMA InductiveStep ==
  ASSUME IInv, [Next]_vars
  PROVE  IInv'
<1> USE DEF IInv
<1>1. CASE UNCHANGED vars
  BY <1>1 DEF vars, rowVars, TypeOK, Rows, CompletedIsWhole, Progress, Completed,
     GroupScores, RepliesName, ReportsName, NamesItsRow
<1>2. ASSUME NEW w \in Workflows, UpdateAssessmentStatus(w)
      PROVE  IInv'
  BY <1>2 DEF UpdateAssessmentStatus, rowVars, TypeOK, Rows, CompletedIsWhole,
     Progress, Completed, GroupScores, RepliesName, ReportsName, NamesItsRow
<1>3. ASSUME NEW a \in Attempts, Reply(a) \/ Fail(a)
      PROVE  IInv'
  <2>1. /\ pc[a] \in {"details", "reply"}
        /\ \/ pc[a] = "reply" /\ pc' = [pc EXCEPT ![a] = "ok"]
           \/ pc' = [pc EXCEPT ![a] = "failed"]
        /\ UNCHANGED <<current, rowVars, request, graded, replies>>
    BY <1>3 DEF Reply, Fail, Goto
  <2>2. TypeOK' /\ Rows' /\ GroupScores'
    <3>1. TypeOK'
      BY <2>1 DEF TypeOK, rowVars
    <3>2. \A b \in Attempts : pc'[b] = "idle" <=> pc[b] = "idle"
      BY <2>1 DEF TypeOK
    <3> QED
      BY <2>1, <3>1, <3>2 DEF Rows, GroupScores, rowVars
  <2>3. RepliesName' /\ ReportsName'
    BY <2>1, NamesAllKept DEF RowsKeep, rowVars
  <2>4. CompletedIsWhole' /\ Progress'
    BY <2>1 DEF TypeOK, CompletedIsWhole, Progress, Completed, rowVars
  <2> QED
    BY <2>2, <2>3, <2>4
<1>4. ASSUME NEW r \in Reporters, NEW w \in Workflows, NEW p \in Participants,
             GetEvaluation(r, w, p)
      PROVE  IInv'
  <2>1. PICK a \in EvaluationsOf(w, p) :
          replies' = [replies EXCEPT ![r] =
            [workflow |-> w, participant |-> p, evaluation |-> a,
             status |-> evaluations[a].status, entries |-> ReplyDetails(JsonAgg(a))]]
    BY <1>4 DEF GetEvaluation
  <2> DEFINE reply == [workflow |-> w, participant |-> p, evaluation |-> a,
                       status |-> evaluations[a].status,
                       entries |-> ReplyDetails(JsonAgg(a))]
  <2>2. /\ a \in Attempts /\ evaluations[a] # NULL /\ evaluations[a] \in Evaluations
        /\ evaluations[a].workflow = w /\ evaluations[a].participant = p
    BY DEF EvaluationsOf, TypeOK
  <2>3. ReplyDetails(JsonAgg(a)) = {}
    BY DEF ReplyDetails, JsonAgg
  <2>4. reply \in Replies /\ NamesItsRow(reply)
    BY <2>2, <2>3 DEF Evaluations, Replies, NamesItsRow
  <2>5. replies' = [replies EXCEPT ![r] = reply]
    BY <2>1
  <2> HIDE DEF reply
  <2>6. UNCHANGED <<current, rowVars, pc, request, graded>>
    BY <1>4 DEF GetEvaluation
  <2>7. TypeOK'
    BY <2>4, <2>5, <2>6 DEF TypeOK, rowVars
  <2>8. RepliesName'
    BY <2>4, <2>5, <2>6 DEF TypeOK, RepliesName, NamesItsRow, rowVars
  <2>9. Rows' /\ CompletedIsWhole' /\ Progress' /\ GroupScores' /\ ReportsName'
    BY <2>6 DEF rowVars, Rows, CompletedIsWhole, Progress, Completed,
       GroupScores, ReportsName, NamesItsRow
  <2> QED
    BY <2>7, <2>8, <2>9
<1>5. ASSUME NEW r \in Reporters, CreateReport(r)
      PROVE  IInv'
  <2> DEFINE report == [workflow |-> replies[r].workflow,
                        participant |-> replies[r].participant,
                        evaluation |-> replies[r].evaluation]
  <2>1. /\ replies[r] # NULL
        /\ reports' = [reports EXCEPT ![r] = report]
        /\ UNCHANGED <<current, evaluations, details, groupEvaluations, pc, request, graded, replies>>
    BY <1>5 DEF CreateReport
  <2>2. replies[r] \in Replies /\ NamesItsRow(replies[r])
    BY <2>1 DEF TypeOK, RepliesName
  <2>3. report \in Reports /\ NamesItsRow(report)
    BY <2>2 DEF Replies, Reports, NamesItsRow
  <2> HIDE DEF report
  <2>4. TypeOK'
    BY <2>1, <2>3 DEF TypeOK
  <2>5. ReportsName'
    BY <2>1, <2>3 DEF TypeOK, ReportsName, NamesItsRow
  <2>6. Rows' /\ CompletedIsWhole' /\ Progress' /\ GroupScores' /\ RepliesName'
    BY <2>1 DEF Rows, CompletedIsWhole, Progress, Completed, GroupScores,
       RepliesName, NamesItsRow
  <2> QED
    BY <2>4, <2>5, <2>6
<1> QED
  BY <1>1, <1>2, <1>3, <1>4, <1>5, GroupStep, CreateStep, DetailsStep DEF Next

LEMMA Inductive == Spec => []IInv
  BY InductiveInit, InductiveStep, PTL DEF Spec

-----------------------------------------------------------------------------
(* Every variable keeps its type.                                          *)
THEOREM TypeCorrect == Spec => []TypeOK
<1>1. IInv => TypeOK
  BY DEF IInv
<1> QED
  BY Inductive, <1>1, PTL

(* CreateEvaluation's row and its details, written in two transactions,    *)
(* never disagree.                                                         *)
THEOREM WholeOrNothing == Spec => []CompletedIsWhole
<1>1. IInv => CompletedIsWhole
  BY DEF IInv
<1> QED
  BY Inductive, <1>1, PTL

(* A member's copy of the group's score differs from it only if the group  *)
(* was graded again.                                                       *)
THEOREM GroupScoreKept == Spec => []MembersHaveTheGroupScore
<1>1. IInv => MembersHaveTheGroupScore
  <2> SUFFICES ASSUME IInv, NEW a \in Attempts, Completed(a),
                      NEW q \in request[a].grouped
               PROVE  \/ details[a][q] = groupEvaluations[q].score
                      \/ \E g \in GroupWrites \ request[a].seen : graded[g] = q
    BY DEF MembersHaveTheGroupScore
  <2>1. pc[a] # "idle" /\ details[a] = request[a].given
    BY DEF IInv, Rows, Completed, CompletedIsWhole
  <2> QED
    BY <2>1 DEF IInv, GroupScores
<1> QED
  BY Inductive, <1>1, PTL

(* get_reports_for_assessment shows each participant a score of the        *)
(* current workflow and their own.                                         *)
THEOREM ListedScores == Spec => []ListedScoresAreCurrent
<1>1. IInv => ListedScoresAreCurrent
  BY DEF IInv, ReportsName, NamesItsRow, ListedScoresAreCurrent, ReportsForAssessment
<1> QED
  BY Inductive, <1>1, PTL

(* Nothing writes a completed row or its details again.                    *)
THEOREM CompletedStays == Spec => CompletedIsFinal
<1>1. IInv /\ [Next]_vars =>
        [\A a \in Attempts : Completed(a) =>
           evaluations'[a] = evaluations[a] /\ details'[a] = details[a]]_vars
  <2> SUFFICES ASSUME IInv, [Next]_vars, NEW a \in Attempts, Completed(a)
               PROVE  evaluations'[a] = evaluations[a] /\ details'[a] = details[a]
    OBVIOUS
  <2>1. pc[a] # "idle" /\ pc[a] # "details"
    BY DEF IInv, Rows, Progress, Completed
  <2>2. CASE UNCHANGED <<evaluations, details>>
    BY <2>2
  <2>3. ASSUME NEW b \in Attempts, WriteEvaluationDetails(b)
        PROVE  evaluations'[a] = evaluations[a] /\ details'[a] = details[a]
    BY <2>1, <2>3 DEF WriteEvaluationDetails, IInv, TypeOK
  <2>4. ASSUME NEW b \in Attempts, NEW w \in Workflows, NEW p \in Participants,
               NEW call \in Calls, CreateEvaluation(b, w, p, call)
        PROVE  evaluations'[a] = evaluations[a] /\ details'[a] = details[a]
    BY <2>1, <2>4 DEF CreateEvaluation, InsertEvaluation, IInv, TypeOK
  <2>5. \/ UNCHANGED <<evaluations, details>>
        \/ \E b \in Attempts :
             \/ \E w \in Workflows, p \in Participants, call \in Calls :
                  CreateEvaluation(b, w, p, call)
             \/ WriteEvaluationDetails(b)
    BY DEF Next, vars, rowVars, UpdateAssessmentStatus, CreateGroupEvaluation,
       Reply, Fail, GetEvaluation, CreateReport
  <2> QED
    BY <2>2, <2>3, <2>4, <2>5
<1> QED
  BY Inductive, <1>1, PTL DEF Spec, CompletedIsFinal

-----------------------------------------------------------------------------
(* The refinement of Marking: what its variables are here.                 *)

Opened == [a \in Attempts |->
             IF evaluations[a] = NULL THEN NULL
             ELSE [workflow |-> evaluations[a].workflow,
                   participant |-> evaluations[a].participant]]
Marks == [a \in Attempts |-> IF Completed(a) THEN details[a] ELSE NULL]
Filed == [r \in Reporters |->
            IF reports[r] = NULL THEN NULL
            ELSE [on |-> reports[r].evaluation,
                  of |-> [workflow |-> reports[r].workflow,
                          participant |-> reports[r].participant]]]

LEMMA MarkingStutters ==
  ASSUME UNCHANGED <<evaluations, details, reports>>
  PROVE  UNCHANGED TheMarking!markingVars
  BY DEF TheMarking!markingVars, Completed

(* The INSERT opens the evaluation.                                        *)
LEMMA CreateOpens ==
  ASSUME IInv, NEW a \in Attempts, NEW w \in Workflows, NEW p \in Participants,
         NEW call \in Calls, CreateEvaluation(a, w, p, call)
  PROVE  TheMarking!Open(a)
<1> USE DEF IInv
<1> DEFINE row == [workflow |-> w, participant |-> p, status |-> "in_progress"]
           subject == [workflow |-> w, participant |-> p]
<1>1. /\ evaluations' = [evaluations EXCEPT ![a] = row]
      /\ UNCHANGED <<details, reports>>
      /\ evaluations[a] = NULL
  BY DEF CreateEvaluation, InsertEvaluation, Rows
<1>2. row # NULL /\ row.workflow = w /\ row.participant = p /\ row.status # "completed"
  BY DEF Evaluations
<1>3. subject \in TheMarking!Subjects
  BY DEF TheMarking!Subjects
<1> HIDE DEF row, subject
<1>4. \A x \in Attempts \ {a} : evaluations'[x] = evaluations[x]
  BY <1>1
<1>5. evaluations'[a] = row
  BY <1>1 DEF TypeOK
<1>6. Opened' = [Opened EXCEPT ![a] = subject] /\ Opened[a] = NULL
  BY <1>1, <1>2, <1>4, <1>5 DEF Opened, subject
<1>7. Marks' = Marks
  <2>1. ~Completed(a) /\ ~Completed(a)'
    BY <1>1, <1>2, <1>5 DEF Completed
  <2>2. \A x \in Attempts \ {a} : Completed(x)' <=> Completed(x)
    BY <1>4 DEF Completed
  <2> QED
    BY <1>1, <2>1, <2>2 DEF Marks
<1>8. Filed' = Filed
  BY <1>1 DEF Filed
<1> QED
  BY <1>3, <1>6, <1>7, <1>8 DEF Opened, Marks, Filed, TheMarking!Open

(* The transaction gives all marks at once.                                *)
LEMMA DetailsMark ==
  ASSUME IInv, NEW a \in Attempts, WriteEvaluationDetails(a)
  PROVE  TheMarking!Mark(a)
<1> USE DEF IInv
<1> DEFINE row == [evaluations[a] EXCEPT !.status = "completed"]
           given == request[a].given
<1>1. /\ pc[a] = "details"
      /\ details' = [details EXCEPT ![a] = given]
      /\ evaluations' = [evaluations EXCEPT ![a] = row]
      /\ UNCHANGED reports
  BY DEF WriteEvaluationDetails
<1>2. /\ evaluations[a] \in Evaluations /\ request[a] \in Requests
      /\ given # NoDetails /\ ~Completed(a)
  BY <1>1 DEF Rows, Progress
<1>3. /\ row \in Evaluations /\ row.status = "completed"
      /\ row.workflow = evaluations[a].workflow
      /\ row.participant = evaluations[a].participant
  BY <1>2 DEF Evaluations
<1>4. given \in [Questions -> Scores \cup {NULL}] /\ \E q \in Questions : given[q] # NULL
  BY <1>2 DEF Requests, NoDetails
<1> HIDE DEF row, given
<1>5. /\ \A x \in Attempts \ {a} : evaluations'[x] = evaluations[x] /\ details'[x] = details[x]
      /\ evaluations'[a] = row /\ details'[a] = given
  BY <1>1 DEF TypeOK
<1>6. Opened' = Opened /\ Opened[a] \in TheMarking!Subjects
  <2>1. Opened' = Opened
    BY <1>2, <1>3, <1>5 DEF Opened
  <2> QED
    BY <1>2, <2>1 DEF Opened, Evaluations, TheMarking!Subjects
<1>7. Marks' = [Marks EXCEPT ![a] = given] /\ Marks[a] = NULL
  <2>1. Completed(a)' /\ \A x \in Attempts \ {a} : Completed(x)' <=> Completed(x)
    BY <1>3, <1>5 DEF Completed
  <2> QED
    BY <1>2, <1>5, <2>1 DEF Marks
<1>8. Filed' = Filed
  BY <1>1 DEF Filed
<1> QED
  BY <1>4, <1>6, <1>7, <1>8 DEF Opened, Marks, Filed, TheMarking!Mark

(* A report is filed on the evaluation its reporter was answered.          *)
LEMMA ReportFiles ==
  ASSUME IInv, NEW r \in Reporters, CreateReport(r)
  PROVE  TheMarking!File(r)
<1> USE DEF IInv
<1> DEFINE report == [workflow |-> replies[r].workflow,
                      participant |-> replies[r].participant,
                      evaluation |-> replies[r].evaluation]
           a == replies[r].evaluation
           line == [on |-> a, of |-> Opened[a]]
<1>1. /\ replies[r] # NULL /\ reports[r] = NULL
      /\ reports' = [reports EXCEPT ![r] = report]
      /\ UNCHANGED <<evaluations, details>>
  BY DEF CreateReport
<1>2. replies[r] \in Replies /\ NamesItsRow(replies[r])
  BY <1>1 DEF TypeOK, RepliesName
<1>3. a \in Attempts /\ evaluations[a] \in Evaluations
  BY <1>2 DEF Replies, NamesItsRow, TypeOK
<1>4. Opened[a] = [workflow |-> replies[r].workflow, participant |-> replies[r].participant]
  BY <1>2, <1>3 DEF NamesItsRow, Opened
<1>5. Opened[a] \in TheMarking!Subjects
  BY <1>2, <1>4 DEF Replies, TheMarking!Subjects
<1>6. Filed' = [Filed EXCEPT ![r] = line] /\ Filed[r] = NULL
  <2>1. report # NULL
    BY <1>2, NullIsNoReport DEF Replies, Reports
  <2>2. reports'[r] = report /\ \A x \in Reporters \ {r} : reports'[x] = reports[x]
    BY <1>1 DEF TypeOK
  <2>3. Filed'[r] = line
    BY <1>4, <2>1, <2>2 DEF Filed
  <2> HIDE DEF line
  <2> QED
    BY <1>1, <2>2, <2>3 DEF Filed
<1>7. Opened' = Opened /\ Marks' = Marks
  BY <1>1 DEF Opened, Marks, Completed
<1> QED
  BY <1>3, <1>5, <1>6, <1>7 DEF Opened, Marks, Filed, TheMarking!File

(* Every step of a call, or of anybody else, is one of the marking's.      *)
LEMMA MarkingStep ==
  ASSUME IInv, [Next]_vars
  PROVE  [TheMarking!Next]_(TheMarking!markingVars)
<1>1. CASE UNCHANGED <<evaluations, details, reports>>
  BY <1>1, MarkingStutters
<1>2. ASSUME NEW a \in Attempts, NEW w \in Workflows, NEW p \in Participants,
             NEW call \in Calls, CreateEvaluation(a, w, p, call)
      PROVE  TheMarking!Next
  BY <1>2, CreateOpens DEF TheMarking!Next
<1>3. ASSUME NEW a \in Attempts, WriteEvaluationDetails(a)
      PROVE  TheMarking!Next
  BY <1>3, DetailsMark DEF TheMarking!Next
<1>4. ASSUME NEW r \in Reporters, CreateReport(r)
      PROVE  TheMarking!Next
  BY <1>4, ReportFiles DEF TheMarking!Next
<1>5. \/ UNCHANGED <<evaluations, details, reports>>
      \/ \E a \in Attempts :
           \/ \E w \in Workflows, p \in Participants, call \in Calls :
                CreateEvaluation(a, w, p, call)
           \/ WriteEvaluationDetails(a)
      \/ \E r \in Reporters : CreateReport(r)
  BY DEF Next, vars, rowVars, UpdateAssessmentStatus, CreateGroupEvaluation,
     Reply, Fail, GetEvaluation
<1> QED
  BY <1>1, <1>2, <1>3, <1>4, <1>5

(* CreateEvaluation and CreateReport implement a marking: all marks of an  *)
(* evaluation at once, for good, and each report on its own subject.       *)
THEOREM MarkingRefined == Spec => RefinesMarking
<1>1. Init => TheMarking!Init
  BY DEF Init, TheMarking!Init, Completed
<1> QED
  BY Inductive, MarkingStep, <1>1, PTL DEF Spec, RefinesMarking, TheMarking!Spec
=============================================================================
