--------------------------- MODULE QuestionReview ---------------------------
(***************************************************************************)
(* The human review of one assessment's generated questions.  Agents write *)
(* question sets and questions over gRPC while assessors approve over REST *)
(* (routes/external.py approve_questions).  An approval is a coroutine     *)
(* that awaits again and again, so anything may happen between two of its  *)
(* statements.  Of its database transaction (repository.approve_questions) *)
(* two moments matter to the others: the second UPDATE, which decides what *)
(* questions it sees, and the commit or rollback, which shows what it did. *)
(***************************************************************************)
EXTENDS Integers, FiniteSets, Sequences

CONSTANTS Workflows,      \* workflow ids
          QuestionSets,   \* ids of question_sets rows
          Questions,      \* ids of generated_questions rows
          Requests,       \* POST .../review/approve requests
          AgentStatuses,  \* statuses the other writers give the assessment
          Times,          \* values of a batch's created_at
          NULL            \* no row, or SQL's NULL

ASSUME NullIsNoId == NULL \notin Workflows \cup QuestionSets

ASSUME ReadyIsTheReviewsOwn == "ready_for_distribution" \notin AgentStatuses

ASSUME TimesAreNumbers == Times \subseteq Nat

(* Their ids are UUIDs.                                                    *)
ASSUME QuestionsAreFinite == IsFiniteSet(Questions)

VARIABLES
  status,            \* assessment_configs.status
  workflow_id,       \* assessment_configs.workflow_id
  setOrder,          \* ids of the question_sets rows, oldest first
  setWorkflow,       \* question_sets.workflow_id, NULL where there is no row
  setStatus,         \* question_sets.status
  questionSet,       \* generated_questions.question_set_id, NULL: no row
  createdAt,         \* generated_questions.created_at
  wasApproved,       \* generated_questions.was_approved
  approvedSets,      \* the approved_question_sets rows of the assessment
  approvedQuestions, \* the approved_questions rows of those sets
  pc,                \* where each approve request is
  request,           \* the local variables of each approve request
  events             \* human-review.approved messages handed to Pub/Sub

configVars   == <<status, workflow_id>>
setVars      == <<setOrder, setWorkflow, setStatus>>
questionVars == <<questionSet, createdAt, wasApproved>>
approvalVars == <<approvedSets, approvedQuestions>>
vars == <<configVars, setVars, questionVars, approvalVars, pc, request, events>>

-----------------------------------------------------------------------------
SetStatuses == {"generated", "approved"}
Verdicts    == {"unreviewed", "approved", "rejected"}  \* NULL, true, false
PCs == {"idle", "read_set", "read_questions", "approve", "commit",
        "set_ready", "publish", "ok", "refused", "failed"}

(* shown: the questions the request read; kept: those it did not remove;   *)
(* rejected: those its second UPDATE changes.                              *)
Locals == [workflow : Workflows \cup {NULL},
           set      : QuestionSets \cup {NULL},
           removed  : SUBSET Questions,
           shown    : SUBSET Questions,
           kept     : SUBSET Questions,
           rejected : SUBSET Questions]

NoLocals == [workflow |-> NULL, set |-> NULL, removed |-> {}, shown |-> {},
             kept |-> {}, rejected |-> {}]

(* A row is identified by the request that inserted it.                    *)
ApprovedSetRows == [id : Requests, set : QuestionSets]
ApprovedQuestionRows == [aqs : Requests, question : Questions, sort_order : Nat]
Events == [aqs : Requests, workflow : Workflows]

Init == /\ status = "draft"
        /\ workflow_id = NULL
        /\ setOrder = <<>>
        /\ setWorkflow = [s \in QuestionSets |-> NULL]
        /\ setStatus = [s \in QuestionSets |-> "generated"]
        /\ questionSet = [q \in Questions |-> NULL]
        /\ createdAt = [q \in Questions |-> 0]
        /\ wasApproved = [q \in Questions |-> "unreviewed"]
        /\ approvedSets = {}
        /\ approvedQuestions = {}
        /\ pc = [r \in Requests |-> "idle"]
        /\ request = [r \in Requests |-> NoLocals]
        /\ events = {}

-----------------------------------------------------------------------------
(* The agents and the other writers of the assessment.                     *)

(* UpdateAssessmentStatus, and the status updates of the other handlers:   *)
(* one unconditional UPDATE that replaces workflow_id only when given one. *)
UpdateAssessmentStatus(st, w) ==
  /\ status' = st
  /\ workflow_id' = IF w = NULL THEN workflow_id ELSE w
  /\ UNCHANGED <<setVars, questionVars, approvalVars, pc, request, events>>

CreateQuestionSet(s, w) ==
  /\ setWorkflow[s] = NULL
  /\ setWorkflow' = [setWorkflow EXCEPT ![s] = w]
  /\ setOrder' = Append(setOrder, s)
  /\ UNCHANGED <<configVars, setStatus, questionVars, approvalVars, pc,
                 request, events>>

(* One transaction inserts the whole batch, whatever the status of the set *)
(* is.  created_at is now(), the time at which the transaction began: the  *)
(* same for the batch, and possibly earlier than that of a batch that      *)
(* committed before it.                                                    *)
WriteGeneratedQuestions(s, batch, t) ==
  /\ setWorkflow[s] # NULL
  /\ \A q \in batch : questionSet[q] = NULL
  /\ questionSet' = [q \in Questions |-> IF q \in batch THEN s ELSE questionSet[q]]
  /\ createdAt' = [q \in Questions |-> IF q \in batch THEN t ELSE createdAt[q]]
  /\ UNCHANGED <<configVars, setVars, wasApproved, approvalVars, pc, request,
                 events>>

(* The count itself is read by no code of the service and is left out.     *)
IncrementQuestionSetIteration(s) ==
  /\ setWorkflow[s] # NULL
  /\ setStatus' = [setStatus EXCEPT ![s] = "generated"]
  /\ UNCHANGED <<configVars, setOrder, setWorkflow, questionVars, approvalVars,
                 pc, request, events>>

-----------------------------------------------------------------------------
(* An approve request.                                                     *)

Goto(r, label) == pc' = [pc EXCEPT ![r] = label]

(* The request arrives with removed_question_ids, any ids at all, and      *)
(* reads the configuration; without a workflow it is refused.              *)
ReadConfig(r, removed) ==
  /\ pc[r] = "idle"
  /\ request' = [request EXCEPT ![r].workflow = workflow_id,
                                ![r].removed = removed]
  /\ Goto(r, IF workflow_id = NULL THEN "refused" ELSE "read_set")
  /\ UNCHANGED <<configVars, setVars, questionVars, approvalVars, events>>

(* ORDER BY created_at DESC LIMIT 1                                        *)
IsLatestSet(s, w) ==
  \E i \in DOMAIN setOrder :
    /\ setOrder[i] = s
    /\ setWorkflow[s] = w
    /\ \A j \in DOMAIN setOrder : setWorkflow[setOrder[j]] = w => j <= i

ReadQuestionSet(r) ==
  /\ pc[r] = "read_set"
  /\ \/ \E s \in QuestionSets :
          /\ IsLatestSet(s, request[r].workflow)
          /\ request' = [request EXCEPT ![r].set = s]
          /\ Goto(r, "read_questions")
     \/ /\ \A s \in QuestionSets : setWorkflow[s] # request[r].workflow
        /\ Goto(r, "refused")
        /\ UNCHANGED request
  /\ UNCHANGED <<configVars, setVars, questionVars, approvalVars, events>>

(* get_generated_questions_with_answers: the unreviewed questions only.    *)
Unreviewed(s) == {q \in Questions : questionSet[q] = s /\ wasApproved[q] = "unreviewed"}

ReadQuestions(r) ==
  LET shown == Unreviewed(request[r].set)
      kept  == shown \ request[r].removed
  IN /\ pc[r] = "read_questions"
     /\ request' = [request EXCEPT ![r].shown = shown, ![r].kept = kept]
     /\ Goto(r, IF kept = {} THEN "refused" ELSE "approve")
     /\ UNCHANGED <<configVars, setVars, questionVars, approvalVars, events>>

(* A second UPDATE that finds nothing to change.                           *)
RejectNone(r) ==
  /\ pc[r] = "approve"
  /\ Goto(r, "commit")
  /\ UNCHANGED <<configVars, setVars, questionVars, approvalVars, request, events>>

(* The transaction's second UPDATE: every row of the set that is NULL now, *)
(* its batch committed, and that the first UPDATE did not set.             *)
RejectOthers(r) ==
  /\ pc[r] = "approve"
  /\ request' = [request EXCEPT ![r].rejected = Unreviewed(request[r].set) \ request[r].kept]
  /\ Goto(r, "commit")
  /\ UNCHANGED <<configVars, setVars, questionVars, approvalVars, events>>

(* What the two UPDATEs leave: the first sets the ids read earlier, with   *)
(* no test of what they are now.                                           *)
Verdict(r, q) == IF q \in request[r].kept THEN "approved"
                 ELSE IF q \in request[r].rejected THEN "rejected"
                 ELSE wasApproved[q]

(* A SELECT without the ORDER BY.                                          *)
UnorderedEnumerations(kept) ==
  {f \in [kept -> 1..Cardinality(kept)] : \A p, q \in kept : p # q => f[p] # f[q]}

(* SELECT ... ORDER BY created_at: rows of one batch come in any order.    *)
Enumerations(kept) ==
  {f \in [kept -> 1..Cardinality(kept)] :
     \A p, q \in kept : /\ p # q => f[p] # f[q]
                        /\ createdAt[p] < createdAt[q] => f[p] < f[q]}

(* A schema without the constraint.                                        *)
NoUniqueConstraint == FALSE

(* approved_question_sets.assessment_id is UNIQUE.                         *)
UniqueViolation == approvedSets # {}

(* The rows, the copies and the status of the set appear together.         *)
CommitApproval(r) ==
  /\ pc[r] = "commit"
  /\ ~UniqueViolation
  /\ wasApproved' = [q \in Questions |-> Verdict(r, q)]
  /\ approvedSets' = approvedSets \cup {[id |-> r, set |-> request[r].set]}
  /\ \E sort \in Enumerations(request[r].kept) :
       approvedQuestions' = approvedQuestions \cup
         {[aqs |-> r, question |-> q, sort_order |-> sort[q]] : q \in request[r].kept}
  /\ setStatus' = [setStatus EXCEPT ![request[r].set] = "approved"]
  /\ Goto(r, "set_ready")
  /\ UNCHANGED <<configVars, setOrder, setWorkflow, questionSet, createdAt,
                 request, events>>

(* The refused INSERT outside a transaction: the flags written before it   *)
(* stay.                                                                   *)
AbortWithoutRollBack(r) ==
  /\ pc[r] = "commit"
  /\ UniqueViolation
  /\ wasApproved' = [q \in Questions |-> Verdict(r, q)]
  /\ Goto(r, "failed")
  /\ UNCHANGED <<configVars, setVars, questionSet, createdAt, approvalVars,
                 request, events>>

(* The refusal taken for the success of a request that is repeated.        *)
TakenForARepeat(r) ==
  /\ pc[r] = "commit"
  /\ UniqueViolation
  /\ Goto(r, "set_ready")
  /\ UNCHANGED <<configVars, setVars, questionVars, approvalVars, request, events>>

(* The INSERT is refused: the exception rolls the two UPDATEs back.        *)
RollBackApproval(r) ==
  /\ pc[r] = "commit"
  /\ UniqueViolation
  /\ Goto(r, "failed")
  /\ UNCHANGED <<configVars, setVars, questionVars, approvalVars, request, events>>

SetReady(r) ==
  /\ pc[r] = "set_ready"
  /\ status' = "ready_for_distribution"
  /\ Goto(r, "publish")
  /\ UNCHANGED <<workflow_id, setVars, questionVars, approvalVars, request, events>>

(* An event that names the assessment's workflow of now.                   *)
CurrentWorkflowEvent(r) == [aqs |-> r, workflow |-> workflow_id]

ApprovalEvent(r) == [aqs |-> r, workflow |-> request[r].workflow]

(* _publish_async returns once the topic has the message.                  *)
Publish(r) ==
  /\ pc[r] = "publish"
  /\ events' = events \cup {ApprovalEvent(r)}
  /\ Goto(r, "ok")
  /\ UNCHANGED <<configVars, setVars, questionVars, approvalVars, request>>

(* A publication whose failure is swallowed.                               *)
PublishFailsSilently(r) ==
  /\ pc[r] = "publish"
  /\ UNCHANGED events
  /\ Goto(r, "ok")
  /\ UNCHANGED <<configVars, setVars, questionVars, approvalVars, request>>

(* All its attempts raise: the topic may still have one of them, or get it *)
(* later (Publication).                                                    *)
PublishFails(r) ==
  /\ pc[r] = "publish"
  /\ \/ UNCHANGED events
     \/ events' = events \cup {ApprovalEvent(r)}
  /\ Goto(r, "failed")
  /\ UNCHANGED <<configVars, setVars, questionVars, approvalVars, request>>

(* A database call raises, or the process stops: nothing of the statement  *)
(* is kept (a commit whose answer is lost is CommitApproval and then this).*)
Fail(r) ==
  /\ pc[r] \in {"read_set", "read_questions", "approve", "commit", "set_ready"}
  /\ Goto(r, "failed")
  /\ UNCHANGED <<configVars, setVars, questionVars, approvalVars, request, events>>

-----------------------------------------------------------------------------
Continue(r) == \/ ReadQuestionSet(r) \/ ReadQuestions(r)
               \/ RejectOthers(r)    \/ CommitApproval(r) \/ RollBackApproval(r)
               \/ SetReady(r)
               \/ Publish(r)         \/ PublishFails(r)

Next == \/ \E st \in AgentStatuses, w \in Workflows \cup {NULL} :
              UpdateAssessmentStatus(st, w)
        \/ \E s \in QuestionSets, w \in Workflows : CreateQuestionSet(s, w)
        \/ \E s \in QuestionSets, batch \in (SUBSET Questions) \ {{}}, t \in Times :
              WriteGeneratedQuestions(s, batch, t)
        \/ \E s \in QuestionSets : IncrementQuestionSetIteration(s)
        \/ \E r \in Requests, removed \in SUBSET Questions : ReadConfig(r, removed)
        \/ \E r \in Requests : Continue(r) \/ Fail(r)

Spec == Init /\ [][Next]_vars

-----------------------------------------------------------------------------
(* Every variable holds rows, messages and program counters of its kind.   *)
TypeOK ==
  /\ status \in AgentStatuses \cup {"draft", "ready_for_distribution"}
  /\ workflow_id \in Workflows \cup {NULL}
  /\ setOrder \in Seq(QuestionSets)
  /\ setWorkflow \in [QuestionSets -> Workflows \cup {NULL}]
  /\ setStatus \in [QuestionSets -> SetStatuses]
  /\ questionSet \in [Questions -> QuestionSets \cup {NULL}]
  /\ createdAt \in [Questions -> Nat]
  /\ wasApproved \in [Questions -> Verdicts]
  /\ approvedSets \subseteq ApprovedSetRows
  /\ approvedQuestions \subseteq ApprovedQuestionRows
  /\ pc \in [Requests -> PCs]
  /\ request \in [Requests -> Locals]
  /\ events \subseteq Events

Approved == {q \in Questions : wasApproved[q] = "approved"}
Rejected == {q \in Questions : wasApproved[q] = "rejected"}

(* However approve requests interleave, fail and roll back, the assessment *)
(* has one approved question set at most; the questions flagged approved   *)
(* are those copied into it; and only questions of the set it was made     *)
(* from carry a verdict.                                                   *)
OneConsistentApproval ==
  /\ \A a, b \in approvedSets : a = b
  /\ Approved = {c.question : c \in approvedQuestions}
  /\ \A q \in Approved \cup Rejected : \E a \in approvedSets : questionSet[q] = a.set

(* A question that one request removed is not approved by another: what    *)
(* the approving assessor took out stays out.                              *)
RemovedNeverApproved ==
  \A a \in approvedSets : request[a.id].removed \cap Approved = {}

(* The participants' paper is numbered 1..n without a gap, and follows the *)
(* order in which the batches of questions were generated.                 *)
PaperInOrder ==
  /\ {c.sort_order : c \in approvedQuestions} = 1..Cardinality(approvedQuestions)
  /\ \A c, d \in approvedQuestions :
       createdAt[c.question] < createdAt[d.question] => c.sort_order < d.sort_order

(* No approval is announced before its rows are committed, and it is       *)
(* announced to the workflow whose questions were reviewed, even if the    *)
(* assessment was given another workflow since.                            *)
AnnouncedToTheReviewedWorkflow ==
  \A e \in events : \E a \in approvedSets :
    e.aqs = a.id /\ e.workflow = setWorkflow[a.set]

(* An approval stays unannounced only while its request runs or if that    *)
(* request was answered with an error; a 200 means rows and event exist.   *)
OnlyAFailureIsSilent ==
  /\ \A a \in approvedSets : \/ \E e \in events : e.aqs = a.id
                             \/ pc[a.id] \in {"set_ready", "publish", "failed"}
  /\ \A r \in Requests : pc[r] = "ok" => \E a \in approvedSets : a.id = r

(* The assessment is never ready for distribution without a paper.         *)
ReadyMeansApproved == status = "ready_for_distribution" => approvedSets # {}

(* Once the assessment is approved no verdict is taken back, although the  *)
(* first UPDATE does not test was_approved, and none is given: a question  *)
(* whose batch commits after the second UPDATE stays undecided for good.   *)
(* Both rest on the UNIQUE assessment_id.                                  *)
VerdictsAreFinal == [][approvedSets # {} => wasApproved' = wasApproved]_vars

(* The committing request decides every question it read, not only those   *)
(* it keeps, whatever was written between its read and its commit.         *)
NoneLeftUndecided ==
  [][\A a \in approvedSets' \ approvedSets :
       \A q \in request[a.id].shown : wasApproved'[q] # "unreviewed"]_vars

(* If the request that approved fails before it publishes, no later call   *)
(* announces the approval: a retry is refused or rolls back.               *)
LostAnnouncementStaysLost ==
  [][(\E a \in approvedSets : pc[a.id] = "failed") /\ events = {}
       => events' = {}]_vars

(* The review decides once, for good, and announces what it decided.       *)
Decision == INSTANCE ReviewDecision WITH
  Undecided <- NULL,
  decision  <- IF approvedSets = {} THEN NULL
               ELSE [kept |-> Approved, rejected |-> Rejected],
  announced <- events # {}
RefinesReviewDecision == Decision!Spec

(* An approval's status update is a statement of its own, after the commit *)
(* and without a condition, so it may take back a status the assessment    *)
(* was given in between.  Only the request that approved can do so, until  *)
(* it publishes: once it is past its update or has failed, no second       *)
(* approval, however late or often repeated, takes an assessment that went *)
(* on back to ready_for_distribution.                                      *)
LateApprovalsLeaveTheStatus ==
  [][/\ \E a \in approvedSets : pc[a.id] \in {"publish", "ok", "failed"}
     /\ status # "ready_for_distribution"
     => status' # "ready_for_distribution"]_vars

(* "All other questions are automatically approved" (approve_questions):   *)
(* what the assessor did not remove is approved when the request commits.  *)
OthersAutomaticallyApproved ==
  [][\A a \in approvedSets' \ approvedSets : \A q \in Questions :
       /\ questionSet[q] = a.set
       /\ wasApproved[q] = "unreviewed"
       /\ q \notin request[a.id].removed
       => wasApproved'[q] = "approved"]_vars
=============================================================================
