----------------------------- MODULE Evaluation -----------------------------
(***************************************************************************)
(* Evaluations, group evaluations and reports of one assessment (the gRPC  *)
(* methods CreateEvaluation, CreateGroupEvaluation, GetEvaluation and      *)
(* CreateReport, and the assessor's list of reports).  CreateEvaluation    *)
(* inserts its row in one statement and writes details and status in a     *)
(* later transaction; no constraint keeps a participant from having        *)
(* several rows.  The agents that call are outside src/: any of them may   *)
(* call again after a failure, a lost answer or a second submission.       *)
(***************************************************************************)

CONSTANTS Workflows,    \* workflow ids of the assessment, old and new
          Participants, \* its participants, all of one group
          Questions,    \* its approved questions
          Scores,       \* scores of a question
          Attempts,     \* CreateEvaluation calls, and the ids of their rows
          GroupWrites,  \* CreateGroupEvaluation calls, and their reasonings
          Reporters,    \* GetEvaluation calls, each with the report made of it
          NULL          \* no row, or SQL's NULL

ASSUME NullIsNoRow == NULL \notin Scores \cup Attempts \cup Questions

VARIABLES
  current,         \* assessment_configs.workflow_id
  evaluations,     \* evaluations rows: workflow, participant, status
  details,         \* evaluation_details.score of each evaluation and question
  groupEvaluations,\* group_evaluations rows of the group: score, reasoning
  reports,         \* participant_reports rows
  pc,              \* where each CreateEvaluation call is
  request,         \* what each CreateEvaluation call carries
  graded,          \* the question each CreateGroupEvaluation call graded
  replies          \* what each GetEvaluation call was answered

rowVars == <<evaluations, details, groupEvaluations, reports>>
vars == <<current, rowVars, pc, request, graded, replies>>

-----------------------------------------------------------------------------
NoDetails == [q \in Questions |-> NULL]

Evaluations == [workflow : Workflows, participant : Participants,
                status : {"in_progress", "completed"}]

(* grouped: the questions whose detail names a group_evaluation_id; seen:  *)
(* the group writes answered before the call was made.                     *)
Requests == [given : [Questions -> Scores \cup {NULL}],
             grouped : SUBSET Questions, seen : SUBSET GroupWrites]

ASSUME NullIsNoEvaluation == NULL \notin Evaluations

Replies == [workflow : Workflows, participant : Participants,
            evaluation : Attempts, status : {"in_progress", "completed"},
            entries : SUBSET Questions]

Reports == [workflow : Workflows, participant : Participants, evaluation : Attempts]

ASSUME NullIsNoReport == NULL \notin Reports

Init == /\ current \in Workflows
        /\ evaluations = [a \in Attempts |-> NULL]
        /\ details = [a \in Attempts |-> NoDetails]
        /\ groupEvaluations = [q \in Questions |-> NULL]
        /\ reports = [r \in Reporters |-> NULL]
        /\ pc = [a \in Attempts |-> "idle"]
        /\ request = [a \in Attempts |-> NULL]
        /\ graded = [g \in GroupWrites |-> NULL]
        /\ replies = [r \in Reporters |-> NULL]

Goto(a, label) == pc' = [pc EXCEPT ![a] = label]

-----------------------------------------------------------------------------
(* A restart: StartWorkflow, or UpdateAssessmentStatus once submission.proto*)
(* declares that rpc, gives the assessment another workflow.               *)
UpdateAssessmentStatus(w) ==
  /\ current' = w
  /\ UNCHANGED <<rowVars, pc, request, graded, replies>>

-----------------------------------------------------------------------------
(* CreateGroupEvaluation                                                   *)

(* A conflict target that leaves the question out.                         *)
UpsertTheGroup(q, score, g) ==
  [x \in Questions |->
     IF x # q /\ groupEvaluations[x] = NULL THEN NULL
     ELSE [score |-> score,
           reasoning |-> IF groupEvaluations[x] = NULL THEN g
                         ELSE groupEvaluations[x].reasoning]]

(* ON CONFLICT (group_id, question_id) DO UPDATE SET the two scores: the   *)
(* first reasoning stays.                                                  *)
UpsertGroupEvaluation(q, score, g) ==
  [groupEvaluations EXCEPT ![q] =
     [score |-> score, reasoning |-> IF @ = NULL THEN g ELSE @.reasoning]]

CreateGroupEvaluation(g, q, score) ==
  /\ graded[g] = NULL
  /\ graded' = [graded EXCEPT ![g] = q]
  /\ groupEvaluations' = UpsertGroupEvaluation(q, score, g)
  /\ UNCHANGED <<current, evaluations, details, reports, pc, request, replies>>

-----------------------------------------------------------------------------
(* CreateEvaluation                                                        *)

(* What the evaluator sends: the group's score where it graded the group,  *)
(* or details of its own; none at all for a row to be completed later.     *)
FromGroup(grouped) == [q \in Questions |->
                         IF q \in grouped THEN groupEvaluations[q].score ELSE NULL]

Calls == {[given |-> given, grouped |-> {}, seen |-> {}] :
            given \in [Questions -> Scores \cup {NULL}]}
  \cup {[given |-> FromGroup(grouped), grouped |-> grouped,
         seen |-> {g \in GroupWrites : graded[g] # NULL}] :
            grouped \in SUBSET {q \in Questions : groupEvaluations[q] # NULL} \ {{}}}

InsertEvaluation(a, w, p) ==
  [evaluations EXCEPT ![a] =
     [workflow |-> w, participant |-> p, status |-> "in_progress"]]

CreateEvaluation(a, w, p, call) ==
  /\ pc[a] = "idle"
  /\ request' = [request EXCEPT ![a] = call]
  /\ evaluations' = InsertEvaluation(a, w, p)
  /\ Goto(a, IF call.given = NoDetails THEN "reply" ELSE "details")
  /\ UNCHANGED <<current, details, groupEvaluations, reports, graded, replies>>

(* A status written to every row of the participant in the workflow.       *)
CompleteParticipant(a) ==
  /\ pc[a] = "details"
  /\ details' = [details EXCEPT ![a] = request[a].given]
  /\ evaluations' = [x \in Attempts |->
       IF /\ evaluations[x] # NULL
          /\ evaluations[x].workflow = evaluations[a].workflow
          /\ evaluations[x].participant = evaluations[a].participant
       THEN [evaluations[x] EXCEPT !.status = "completed"] ELSE evaluations[x]]
  /\ Goto(a, "reply")
  /\ UNCHANGED <<current, groupEvaluations, reports, request, graded, replies>>

(* One transaction: every detail and then the status.                      *)
WriteEvaluationDetails(a) ==
  /\ pc[a] = "details"
  /\ details' = [details EXCEPT ![a] = request[a].given]
  /\ evaluations' = [evaluations EXCEPT ![a].status = "completed"]
  /\ Goto(a, "reply")
  /\ UNCHANGED <<current, groupEvaluations, reports, request, graded, replies>>

(* The answer: "completed" if there were details, else "in_progress".      *)
Reply(a) ==
  /\ pc[a] = "reply"
  /\ Goto(a, "ok")
  /\ UNCHANGED <<current, rowVars, request, graded, replies>>

(* Details inserted without a transaction, up to the one that raises.      *)
FailHalfWritten(a) ==
  /\ pc[a] \in {"details", "reply"}
  /\ Goto(a, "failed")
  /\ \E written \in SUBSET Questions :
       details' = [details EXCEPT ![a] =
                     [q \in Questions |-> IF q \in written /\ pc[a] = "details"
                                          THEN request[a].given[q] ELSE @[q]]]
  /\ UNCHANGED <<current, evaluations, groupEvaluations, reports, request, graded, replies>>

(* The transaction raises, the answer is lost, or the process stops.       *)
Fail(a) ==
  /\ pc[a] \in {"details", "reply"}
  /\ Goto(a, "failed")
  /\ UNCHANGED <<current, rowVars, request, graded, replies>>

-----------------------------------------------------------------------------
(* GetEvaluation, CreateReport and the list of reports                     *)

(* A WHERE without the workflow.                                           *)
EvaluationsOfParticipant(w, p) ==
  {a \in Attempts : evaluations[a] # NULL /\ evaluations[a].participant = p}

EvaluationsOf(w, p) ==
  {a \in Attempts : evaluations[a] # NULL /\ evaluations[a].workflow = w
                                          /\ evaluations[a].participant = p}

(* json_agg over a LEFT JOIN, [null] where there is no detail; it arrives  *)
(* as text, there being no codec for it on the connection, ...             *)
JsonAgg(a) == [type |-> "str",
               rows |-> IF details[a] = NoDetails THEN {NULL}
                        ELSE {q \in Questions : details[a][q] # NULL}]

(* ... and the handler takes the rows of a list only, and of those the     *)
(* details only.                                                           *)
ReplyDetails(value) == IF value.type = "list" THEN value.rows \ {NULL} ELSE {}

(* fetchrow: whichever of the rows comes first.                            *)
GetEvaluation(r, w, p) ==
  /\ replies[r] = NULL
  /\ \E a \in EvaluationsOf(w, p) :
       replies' = [replies EXCEPT ![r] =
         [workflow |-> w, participant |-> p, evaluation |-> a,
          status |-> evaluations[a].status, entries |-> ReplyDetails(JsonAgg(a))]]
  /\ UNCHANGED <<current, rowVars, pc, request, graded>>

(* The reporting agent sends what it asked for and the id it was answered. *)
CreateReport(r) ==
  /\ replies[r] # NULL
  /\ reports[r] = NULL
  /\ reports' = [reports EXCEPT ![r] =
       [workflow |-> replies[r].workflow, participant |-> replies[r].participant,
        evaluation |-> replies[r].evaluation]]
  /\ UNCHANGED <<current, evaluations, details, groupEvaluations, pc, request, graded, replies>>

(* GET /assessments/{id}/reports: one statement joins each report with its *)
(* evaluation, where the workflow is the assessment's current one.         *)
ReportsForAssessment ==
  {[report |-> r, participant |-> reports[r].participant,
    total |-> evaluations[reports[r].evaluation]] :
     r \in {r \in Reporters : reports[r] # NULL /\ reports[r].workflow = current}}

Next ==
  \/ \E w \in Workflows : UpdateAssessmentStatus(w)
  \/ \E g \in GroupWrites, q \in Questions, score \in Scores :
       CreateGroupEvaluation(g, q, score)
  \/ \E a \in Attempts :
       \/ \E w \in Workflows, p \in Participants, call \in Calls :
            CreateEvaluation(a, w, p, call)
       \/ WriteEvaluationDetails(a)
       \/ Reply(a)
       \/ Fail(a)
  \/ \E r \in Reporters :
       \/ \E w \in Workflows, p \in Participants : GetEvaluation(r, w, p)
       \/ CreateReport(r)

Spec == Init /\ [][Next]_vars

-----------------------------------------------------------------------------
Completed(a) == evaluations[a] # NULL /\ evaluations[a].status = "completed"

(* Every variable keeps its type.                                          *)
TypeOK ==
  /\ current \in Workflows
  /\ evaluations \in [Attempts -> Evaluations \cup {NULL}]
  /\ details \in [Attempts -> [Questions -> Scores \cup {NULL}]]
  /\ groupEvaluations \in
       [Questions -> [score : Scores, reasoning : GroupWrites] \cup {NULL}]
  /\ reports \in [Reporters -> Reports \cup {NULL}]
  /\ pc \in [Attempts -> {"idle", "details", "reply", "ok", "failed"}]
  /\ request \in [Attempts -> Requests \cup {NULL}]
  /\ graded \in [GroupWrites -> Questions \cup {NULL}]
  /\ replies \in [Reporters -> Replies \cup {NULL}]

(* A row reads completed exactly when every detail of its call is there;   *)
(* a call that fails half-way leaves an in_progress row without details,   *)
(* and one that had details and was answered has completed its row.        *)
CompletedIsWhole ==
  \A a \in Attempts :
    /\ IF Completed(a)
       THEN request[a].given # NoDetails /\ details[a] = request[a].given
       ELSE details[a] = NoDetails
    /\ pc[a] = "ok" /\ request[a].given # NoDetails => Completed(a)

(* Whatever is evaluated later, again or in another workflow: a completed  *)
(* evaluation and its details never change (there is no re-evaluation, a   *)
(* second one is a row of its own).                                        *)
CompletedIsFinal ==
  [][\A a \in Attempts : Completed(a) =>
       evaluations'[a] = evaluations[a] /\ details'[a] = details[a]]_vars

(* A member's detail that names the group's evaluation repeats its score,  *)
(* unless that question of the group was graded again after the call.      *)
MembersHaveTheGroupScore ==
  \A a \in Attempts : Completed(a) =>
    \A q \in request[a].grouped :
      \/ details[a][q] = groupEvaluations[q].score
      \/ \E g \in GroupWrites \ request[a].seen : graded[g] = q

(* The list shown to the assessor has scores of the current workflow and   *)
(* of the participant they are listed under, however often the workflow    *)
(* was restarted between an evaluation and its report.                     *)
ListedScoresAreCurrent ==
  \A line \in ReportsForAssessment :
    line.total.workflow = current /\ line.total.participant = line.participant

(* However calls fail between their two writes, are made again or overtake *)
(* each other, what is stored is a marking: each evaluation has its marks  *)
(* all at once and for good, each report one evaluation of its subject.    *)
TheMarking == INSTANCE Marking WITH
  Evaluations <- Attempts,
  Reports <- Reporters,
  opened  <- [a \in Attempts |->
                IF evaluations[a] = NULL THEN NULL
                ELSE [workflow |-> evaluations[a].workflow,
                      participant |-> evaluations[a].participant]],
  marks   <- [a \in Attempts |-> IF Completed(a) THEN details[a] ELSE NULL],
  filed   <- [r \in Reporters |->
                IF reports[r] = NULL THEN NULL
                ELSE [on |-> reports[r].evaluation,
                      of |-> [workflow |-> reports[r].workflow,
                              participant |-> reports[r].participant]]]
RefinesMarking == TheMarking!Spec

(* "`details` array has one entry per question" (reference/test.md, T-G10).*)
RepliesListTheDetails ==
  \A r \in Reporters :
    replies[r] # NULL /\ replies[r].status = "completed" => replies[r].entries # {}
=============================================================================
