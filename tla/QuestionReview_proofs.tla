------------------------ MODULE QuestionReview_proofs ------------------------
(***************************************************************************)
(* Proofs about QuestionReview, for any workflows, question sets,          *)
(* questions and requests.                                                 *)
(***************************************************************************)
EXTENDS QuestionReview, TLAPS, SequenceTheorems, FiniteSetTheorems

USE NullIsNoId, ReadyIsTheReviewsOwn, TimesAreNumbers

Committed == {"set_ready", "publish", "ok", "failed"}

(* The approved set's row determines everything else the approval wrote:   *)
(* its request is past the commit and still holds what it committed.       *)
ApprovalRow ==
  \A a \in approvedSets :
    /\ pc[a.id] \in Committed
    /\ request[a.id].set = a.set
    /\ request[a.id].workflow = setWorkflow[a.set]
    /\ setWorkflow[a.set] # NULL
    /\ request[a.id].removed \cap Approved = {}
    /\ Approved # {}

(* A request past the commit has a row.                                    *)
PastCommit ==
  \A r \in Requests : pc[r] \in {"set_ready", "publish", "ok"}
    => [id |-> r, set |-> request[r].set] \in approvedSets

(* What a request has read still holds when it commits: a set keeps its    *)
(* workflow, a question keeps its set and, while nothing is approved, its  *)
(* missing verdict.                                                        *)
ReadValues ==
  \A r \in Requests :
    /\ pc[r] \in {"read_set", "read_questions", "approve", "commit", "set_ready", "publish"}
         => request[r].workflow # NULL
    /\ pc[r] \in {"read_questions", "approve", "commit"} =>
         /\ request[r].set \in QuestionSets
         /\ setWorkflow[request[r].set] = request[r].workflow
    /\ pc[r] \in {"approve", "commit"} =>
         /\ \A q \in request[r].shown : questionSet[q] = request[r].set
         /\ request[r].kept \subseteq request[r].shown
         /\ request[r].kept \cap request[r].removed = {}
         /\ request[r].kept # {}
    /\ pc[r] = "commit" =>
         /\ \A q \in request[r].rejected : questionSet[q] = request[r].set
         /\ approvedSets = {} =>
              request[r].shown \subseteq request[r].kept \cup request[r].rejected

IInv == /\ TypeOK
        /\ OneConsistentApproval
        /\ ApprovalRow
        /\ PastCommit
        /\ ReadValues
        /\ AnnouncedToTheReviewedWorkflow
        /\ OnlyAFailureIsSilent
        /\ ReadyMeansApproved

-----------------------------------------------------------------------------
(* What a rank in the paper is: a number from 1 to the paper's length.     *)
LEMMA EnumerationType ==
  ASSUME NEW kept, NEW sort \in Enumerations(kept), NEW q \in kept
  PROVE  sort[q] \in 1..Cardinality(kept)
  BY DEF Enumerations

LEMMA TypeInit == Init => TypeOK
  BY DEF Init, TypeOK, SetStatuses, Verdicts, PCs, Locals, NoLocals

LEMMA TypeStep ==
  ASSUME TypeOK, ReadValues, [Next]_vars
  PROVE  TypeOK'
<1> USE DEF TypeOK
<1>1. CASE UNCHANGED vars
  BY <1>1 DEF vars, configVars, setVars, questionVars, approvalVars
<1>2. ASSUME NEW st \in AgentStatuses, NEW w \in Workflows \cup {NULL},
             UpdateAssessmentStatus(st, w)
      PROVE  TypeOK'
  BY <1>2 DEF UpdateAssessmentStatus, setVars, questionVars, approvalVars
<1>3. ASSUME NEW s \in QuestionSets, NEW w \in Workflows, CreateQuestionSet(s, w)
      PROVE  TypeOK'
  <2>1. setOrder' \in Seq(QuestionSets)
    BY <1>3, AppendProperties DEF CreateQuestionSet
  <2> QED
    BY <1>3, <2>1 DEF CreateQuestionSet, configVars, questionVars, approvalVars
<1>4. ASSUME NEW s \in QuestionSets, NEW batch \in SUBSET Questions, NEW t \in Times,
             WriteGeneratedQuestions(s, batch, t)
      PROVE  TypeOK'
  BY <1>4 DEF WriteGeneratedQuestions, configVars, setVars, approvalVars
<1>5. ASSUME NEW s \in QuestionSets, IncrementQuestionSetIteration(s)
      PROVE  TypeOK'
  BY <1>5 DEF IncrementQuestionSetIteration, configVars, questionVars,
              approvalVars, SetStatuses
<1>6. ASSUME NEW r \in Requests, NEW removed \in SUBSET Questions, ReadConfig(r, removed)
      PROVE  TypeOK'
  <2>1. request' \in [Requests -> Locals]
    <3> DEFINE new == [request[r] EXCEPT !.workflow = workflow_id, !.removed = removed]
    <3>1. new \in Locals
      BY DEF Locals
    <3>2. request' = [request EXCEPT ![r] = new]
      BY <1>6 DEF ReadConfig
    <3> HIDE DEF new
    <3> QED
      BY <3>1, <3>2
  <2>2. pc' \in [Requests -> PCs]
    BY <1>6 DEF ReadConfig, Goto, PCs
  <2>3. UNCHANGED <<configVars, setVars, questionVars, approvalVars, events>>
    BY <1>6 DEF ReadConfig
  <2> QED
    BY <2>1, <2>2, <2>3 DEF configVars, setVars, questionVars, approvalVars
<1>7. ASSUME NEW r \in Requests, ReadQuestionSet(r)
      PROVE  TypeOK'
  <2>1. request' \in [Requests -> Locals]
    <3>1. CASE UNCHANGED request
      BY <3>1
    <3>2. ASSUME NEW s \in QuestionSets, request' = [request EXCEPT ![r].set = s]
          PROVE  request' \in [Requests -> Locals]
      <4> DEFINE new == [request[r] EXCEPT !.set = s]
      <4>1. new \in Locals
        BY DEF Locals
      <4>2. request' = [request EXCEPT ![r] = new]
        BY <3>2
      <4> HIDE DEF new
      <4> QED
        BY <4>1, <4>2
    <3> QED
      BY <1>7, <3>1, <3>2 DEF ReadQuestionSet
  <2>2. pc' \in [Requests -> PCs]
    BY <1>7 DEF ReadQuestionSet, Goto, PCs
  <2>3. UNCHANGED <<configVars, setVars, questionVars, approvalVars, events>>
    BY <1>7 DEF ReadQuestionSet
  <2> QED
    BY <2>1, <2>2, <2>3 DEF configVars, setVars, questionVars, approvalVars
<1>8. ASSUME NEW r \in Requests, ReadQuestions(r) \/ RejectOthers(r)
      PROVE  TypeOK'
  <2>1. request' \in [Requests -> Locals]
    <3> DEFINE open == Unreviewed(request[r].set)
               kept == open \ request[r].removed
               read == [request[r] EXCEPT !.shown = open, !.kept = kept]
               marked == [request[r] EXCEPT !.rejected = open \ request[r].kept]
    <3>1. open \subseteq Questions
      BY DEF Unreviewed
    <3> HIDE DEF open
    <3>2. read \in Locals /\ marked \in Locals
      BY <3>1 DEF Locals
    <3>3. request' = [request EXCEPT ![r] = read] \/ request' = [request EXCEPT ![r] = marked]
      BY <1>8 DEF ReadQuestions, RejectOthers, open
    <3> HIDE DEF read, marked
    <3> QED
      BY <3>2, <3>3
  <2>2. pc' \in [Requests -> PCs]
    BY <1>8 DEF ReadQuestions, RejectOthers, Goto, PCs
  <2>3. UNCHANGED <<configVars, setVars, questionVars, approvalVars, events>>
    BY <1>8 DEF ReadQuestions, RejectOthers
  <2> QED
    BY <2>1, <2>2, <2>3 DEF configVars, setVars, questionVars, approvalVars
<1>9. ASSUME NEW r \in Requests, CommitApproval(r)
      PROVE  TypeOK'
  <2>1. request[r].set \in QuestionSets /\ request[r].kept \subseteq Questions
    BY <1>9 DEF CommitApproval, ReadValues, Locals
  <2>2. approvedSets' \subseteq ApprovedSetRows
    BY <1>9, <2>1 DEF CommitApproval, ApprovedSetRows
  <2>3. approvedQuestions' \subseteq ApprovedQuestionRows
    <3>1. PICK sort \in Enumerations(request[r].kept) :
            approvedQuestions' = approvedQuestions \cup
              {[aqs |-> r, question |-> q, sort_order |-> sort[q]] : q \in request[r].kept}
      BY <1>9 DEF CommitApproval
    <3>2. \A q \in request[r].kept : sort[q] \in Nat
      BY EnumerationType
    <3> QED
      BY <3>1, <3>2, <2>1 DEF ApprovedQuestionRows
  <2>4. wasApproved' \in [Questions -> Verdicts]
    BY <1>9 DEF CommitApproval, Verdict, Verdicts
  <2>5. setStatus' \in [QuestionSets -> SetStatuses] /\ pc' \in [Requests -> PCs]
    BY <1>9 DEF CommitApproval, SetStatuses, Goto, PCs
  <2> QED
    BY <1>9, <2>2, <2>3, <2>4, <2>5 DEF CommitApproval, configVars
<1>10. ASSUME NEW r \in Requests, RollBackApproval(r) \/ Fail(r)
       PROVE  TypeOK'
  BY <1>10 DEF RollBackApproval, Fail, Goto, PCs, configVars, setVars,
               questionVars, approvalVars
<1>11. ASSUME NEW r \in Requests, SetReady(r)
       PROVE  TypeOK'
  BY <1>11 DEF SetReady, Goto, PCs, setVars, questionVars, approvalVars
<1>12. ASSUME NEW r \in Requests, Publish(r) \/ PublishFails(r)
       PROVE  TypeOK'
  <2>1. request[r].workflow \in Workflows
    BY <1>12 DEF Publish, PublishFails, ReadValues, Locals
  <2>2. events' \subseteq Events
    BY <1>12, <2>1 DEF Publish, PublishFails, ApprovalEvent, Events
  <2>3. pc' \in [Requests -> PCs]
    BY <1>12 DEF Publish, PublishFails, Goto, PCs
  <2> QED
    BY <1>12, <2>2, <2>3 DEF Publish, PublishFails, configVars, setVars,
       questionVars, approvalVars
<1> QED
  BY <1>1, <1>2, <1>3, <1>4, <1>5, <1>6, <1>7, <1>8, <1>9, <1>10, <1>11, <1>12
     DEF Next, Continue

LEMMA InductiveInit == Init => IInv
  BY TypeInit DEF Init, IInv, OneConsistentApproval, Approved, Rejected, ApprovalRow,
     PastCommit, ReadValues, AnnouncedToTheReviewedWorkflow, OnlyAFailureIsSilent,
     ReadyMeansApproved

(* The writers outside the review leave its tables alone, rows already     *)
(* written keep their set and their workflow, and batches only add rows.   *)
LEMMA OtherWritersStep ==
  ASSUME IInv, TypeOK',
         \/ \E st \in AgentStatuses, w \in Workflows \cup {NULL} :
              UpdateAssessmentStatus(st, w)
         \/ \E s \in QuestionSets, w \in Workflows : CreateQuestionSet(s, w)
         \/ \E s \in QuestionSets, batch \in (SUBSET Questions) \ {{}}, t \in Times :
              WriteGeneratedQuestions(s, batch, t)
         \/ \E s \in QuestionSets : IncrementQuestionSetIteration(s)
  PROVE  IInv'
<1> USE DEF IInv
<1>1. UNCHANGED <<wasApproved, approvalVars, pc, request, events>>
  BY DEF UpdateAssessmentStatus, CreateQuestionSet, WriteGeneratedQuestions,
         IncrementQuestionSetIteration, questionVars
<1>2. \A s \in QuestionSets : setWorkflow[s] # NULL => setWorkflow'[s] = setWorkflow[s]
  BY DEF TypeOK, UpdateAssessmentStatus, CreateQuestionSet, WriteGeneratedQuestions,
         IncrementQuestionSetIteration, setVars
<1>3. \A q \in Questions : questionSet[q] # NULL => questionSet'[q] = questionSet[q]
  BY DEF TypeOK, UpdateAssessmentStatus, CreateQuestionSet, WriteGeneratedQuestions,
         IncrementQuestionSetIteration, questionVars
<1>4. status' = status \/ status' \in AgentStatuses
  BY DEF UpdateAssessmentStatus, CreateQuestionSet, WriteGeneratedQuestions,
         IncrementQuestionSetIteration, configVars
<1>5. ReadValues'
  <2>1. \A r \in Requests :
          /\ request[r].shown \subseteq Questions
          /\ request[r].rejected \subseteq Questions
    BY DEF TypeOK, Locals
  <2>2. \A r \in Requests, q \in Questions :
          questionSet[q] = request[r].set /\ request[r].set \in QuestionSets
            => questionSet'[q] = request[r].set
    BY <1>3
  <2>3. \A r \in Requests :
          /\ request[r].set \in QuestionSets
          /\ setWorkflow[request[r].set] = request[r].workflow
          /\ request[r].workflow # NULL
          => setWorkflow'[request[r].set] = request[r].workflow
    BY <1>2
  <2> QED
    BY <1>1, <2>1, <2>2, <2>3 DEF ReadValues, approvalVars
<1>6. OneConsistentApproval'
  BY <1>1, <1>3 DEF OneConsistentApproval, Approved, Rejected, TypeOK,
     ApprovedSetRows, approvalVars
<1>7. ApprovalRow' /\ AnnouncedToTheReviewedWorkflow'
  BY <1>1, <1>2 DEF ApprovalRow, AnnouncedToTheReviewedWorkflow, Approved, TypeOK,
     ApprovedSetRows, Events, approvalVars
<1>8. PastCommit' /\ OnlyAFailureIsSilent' /\ ReadyMeansApproved'
  BY <1>1, <1>4 DEF PastCommit, OnlyAFailureIsSilent, ReadyMeansApproved, approvalVars
<1> QED
  BY <1>5, <1>6, <1>7, <1>8

(* The steps of a request before its transaction touch nothing but its own *)
(* locals, which no approved row refers to yet.                            *)
LEMMA ReadingStep ==
  ASSUME IInv, TypeOK', NEW r \in Requests,
         \/ \E removed \in SUBSET Questions : ReadConfig(r, removed)
         \/ ReadQuestionSet(r)
         \/ ReadQuestions(r)
         \/ RejectOthers(r)
         \/ RollBackApproval(r)
         \/ Fail(r)
  PROVE  IInv'
<1> USE DEF IInv
<1>1. UNCHANGED <<configVars, setVars, questionVars, approvalVars, events>>
  BY DEF ReadConfig, ReadQuestionSet, ReadQuestions, RejectOthers, RollBackApproval, Fail
<1>2. pc[r] \notin {"publish", "ok", "refused", "failed"}
  BY DEF ReadConfig, ReadQuestionSet, ReadQuestions, RejectOthers, RollBackApproval, Fail
<1>3. /\ pc'[r] \in {"read_set", "read_questions", "approve", "commit", "refused", "failed"}
      /\ pc[r] = "set_ready" => pc'[r] = "failed" /\ UNCHANGED request
  BY DEF TypeOK, ReadConfig, ReadQuestionSet, ReadQuestions, RejectOthers,
         RollBackApproval, Fail, Goto
<1>4. \A x \in Requests \ {r} : pc'[x] = pc[x] /\ request'[x] = request[x]
  BY DEF TypeOK, ReadConfig, ReadQuestionSet, ReadQuestions, RejectOthers,
         RollBackApproval, Fail, Goto
<1>5. ReadValues'
  <2> DEFINE Holds ==
        /\ pc'[r] \in {"read_set", "read_questions", "approve", "commit"}
             => request'[r].workflow # NULL
        /\ pc'[r] \in {"read_questions", "approve", "commit"} =>
             /\ request'[r].set \in QuestionSets
             /\ setWorkflow[request'[r].set] = request'[r].workflow
        /\ pc'[r] \in {"approve", "commit"} =>
             /\ \A q \in request'[r].shown : questionSet[q] = request'[r].set
             /\ request'[r].kept \subseteq request'[r].shown
             /\ request'[r].kept \cap request'[r].removed = {}
             /\ request'[r].kept # {}
        /\ pc'[r] = "commit" =>
             /\ \A q \in request'[r].rejected : questionSet[q] = request'[r].set
             /\ approvedSets = {} =>
                  request'[r].shown \subseteq request'[r].kept \cup request'[r].rejected
  <2>1. ASSUME NEW removed \in SUBSET Questions, ReadConfig(r, removed)
        PROVE  Holds
    <3>1. request' = [request EXCEPT ![r] = [request[r] EXCEPT !.workflow = workflow_id,
                                                               !.removed = removed]]
      BY <2>1 DEF ReadConfig
    <3>2. request'[r].workflow = workflow_id
      BY <3>1 DEF TypeOK, Locals
    <3>3. pc'[r] = IF workflow_id = NULL THEN "refused" ELSE "read_set"
      BY <2>1 DEF ReadConfig, Goto, TypeOK
    <3> QED
      BY <3>2, <3>3
  <2>2. ASSUME ReadQuestionSet(r)
        PROVE  Holds
    <3>1. pc'[r] = "refused" \/ pc'[r] = "read_questions"
      BY <2>2 DEF ReadQuestionSet, Goto, TypeOK
    <3>2. ASSUME pc'[r] = "read_questions"
          PROVE  /\ request'[r].workflow = request[r].workflow
                 /\ request'[r].set \in QuestionSets
                 /\ setWorkflow[request'[r].set] = request[r].workflow
      BY <2>2, <3>2 DEF ReadQuestionSet, IsLatestSet, Goto, TypeOK, Locals
    <3>3. request[r].workflow # NULL
      BY <2>2 DEF ReadQuestionSet, ReadValues
    <3> QED
      BY <3>1, <3>2, <3>3
  <2>3. ASSUME ReadQuestions(r)
        PROVE  Holds
    <3> DEFINE shown == Unreviewed(request[r].set)
               kept  == shown \ request[r].removed
    <3>1. /\ request' = [request EXCEPT ![r] = [request[r] EXCEPT !.shown = shown,
                                                                  !.kept = kept]]
          /\ pc'[r] = IF kept = {} THEN "refused" ELSE "approve"
      BY <2>3 DEF ReadQuestions, Goto, TypeOK
    <3>2. /\ request[r].workflow # NULL
          /\ request[r].set \in QuestionSets
          /\ setWorkflow[request[r].set] = request[r].workflow
      BY <2>3 DEF ReadQuestions, ReadValues
    <3>3. /\ \A q \in shown : questionSet[q] = request[r].set
          /\ kept \subseteq shown
          /\ kept \cap request[r].removed = {}
      BY DEF Unreviewed
    <3> HIDE DEF shown, kept
    <3>4. /\ request'[r].shown = shown
          /\ request'[r].kept = kept
          /\ request'[r].set = request[r].set
          /\ request'[r].workflow = request[r].workflow
          /\ request'[r].removed = request[r].removed
      BY <3>1 DEF TypeOK, Locals
    <3> QED
      BY <3>1, <3>2, <3>3, <3>4
  <2>4. ASSUME RollBackApproval(r) \/ Fail(r)
        PROVE  Holds
    BY <2>4 DEF RollBackApproval, Fail, Goto, TypeOK
  <2>5. ASSUME RejectOthers(r)
        PROVE  Holds
    <3> DEFINE rejected == Unreviewed(request[r].set) \ request[r].kept
    <3>1. /\ request' = [request EXCEPT ![r].rejected = rejected]
          /\ pc'[r] = "commit"
      BY <2>5 DEF RejectOthers, Goto, TypeOK
    <3>2. /\ request[r].workflow # NULL
          /\ request[r].set \in QuestionSets
          /\ setWorkflow[request[r].set] = request[r].workflow
          /\ \A q \in request[r].shown : questionSet[q] = request[r].set
          /\ request[r].kept \subseteq request[r].shown
          /\ request[r].kept \cap request[r].removed = {}
          /\ request[r].kept # {}
      BY <2>5 DEF RejectOthers, ReadValues
    <3>3. \A q \in rejected : questionSet[q] = request[r].set
      BY DEF Unreviewed
    <3>4. ASSUME approvedSets = {}
          PROVE  request[r].shown \subseteq request[r].kept \cup rejected
      <4>1. \A q \in Questions : wasApproved[q] = "unreviewed"
        BY <3>4 DEF OneConsistentApproval, Approved, Rejected, TypeOK, Verdicts
      <4>2. request[r].shown \subseteq Questions
        BY DEF TypeOK, Locals
      <4> QED
        BY <3>2, <4>1, <4>2 DEF Unreviewed
    <3> HIDE DEF rejected
    <3>5. /\ request'[r].rejected = rejected
          /\ request'[r].shown = request[r].shown
          /\ request'[r].kept = request[r].kept
          /\ request'[r].set = request[r].set
          /\ request'[r].workflow = request[r].workflow
          /\ request'[r].removed = request[r].removed
      BY <3>1 DEF TypeOK, Locals
    <3> QED
      BY <3>1, <3>2, <3>3, <3>4, <3>5
  <2>6. Holds
    BY <2>1, <2>2, <2>3, <2>4, <2>5
  <2>7. pc'[r] \notin {"set_ready", "publish"}
    BY <1>3
  <2> QED
    BY <1>1, <1>4, <2>6, <2>7 DEF ReadValues, setVars, questionVars, approvalVars
<1>6. OneConsistentApproval' /\ AnnouncedToTheReviewedWorkflow' /\ ReadyMeansApproved'
  BY <1>1 DEF OneConsistentApproval, Approved, Rejected, AnnouncedToTheReviewedWorkflow,
     ReadyMeansApproved, configVars, setVars, questionVars, approvalVars
<1>7. ApprovalRow' /\ PastCommit' /\ OnlyAFailureIsSilent'
  <2>1. \A a \in approvedSets : a.id = r => pc[r] = "set_ready"
    BY <1>2 DEF ApprovalRow, Committed
  <2>2. ApprovalRow'
    BY <1>1, <1>3, <1>4, <2>1 DEF ApprovalRow, Committed, Approved, TypeOK,
       ApprovedSetRows, setVars, questionVars, approvalVars
  <2>3. PastCommit'
    BY <1>1, <1>3, <1>4 DEF PastCommit, approvalVars
  <2>4. OnlyAFailureIsSilent'
    BY <1>1, <1>3, <1>4, <2>1 DEF OnlyAFailureIsSilent, TypeOK, ApprovedSetRows, approvalVars
  <2> QED
    BY <2>2, <2>3, <2>4
<1> QED
  BY <1>5, <1>6, <1>7

(* The commit finds no row and, by consistency, no verdict: what it writes *)
(* is all there is.                                                        *)
LEMMA CommitStep ==
  ASSUME IInv, TypeOK', NEW r \in Requests, CommitApproval(r)
  PROVE  IInv'
<1> USE DEF IInv
<1> DEFINE row == [id |-> r, set |-> request[r].set]
<1>1. /\ approvedSets = {}
      /\ approvedSets' = {row}
      /\ UNCHANGED <<configVars, setOrder, setWorkflow, questionSet, request, events>>
  BY DEF CommitApproval, UniqueViolation
<1>2. /\ pc[r] = "commit"
      /\ pc'[r] = "set_ready"
      /\ \A x \in Requests \ {r} : pc'[x] = pc[x]
  BY DEF CommitApproval, Goto, TypeOK
<1>3. /\ Approved = {} /\ Rejected = {}
      /\ approvedQuestions = {}
  BY <1>1 DEF OneConsistentApproval
<1>4. /\ request[r].kept \subseteq Questions
      /\ \A q \in request[r].kept : questionSet[q] = request[r].set
      /\ request[r].kept \cap request[r].removed = {}
      /\ setWorkflow[request[r].set] = request[r].workflow
      /\ request[r].workflow # NULL
      /\ request[r].kept # {}
      /\ \A q \in request[r].rejected : questionSet[q] = request[r].set
  BY <1>2 DEF ReadValues, TypeOK, Locals
<1>5. Approved' = request[r].kept
  <2>1. \A q \in Questions : wasApproved'[q] = Verdict(r, q)
    BY DEF CommitApproval
  <2>2. \A q \in Questions : wasApproved[q] # "approved"
    BY <1>3 DEF Approved
  <2> QED
    BY <1>4, <2>1, <2>2 DEF Approved, Verdict
<1>6. \A q \in Rejected' : questionSet[q] = request[r].set
  <2>1. \A q \in Questions : wasApproved'[q] = Verdict(r, q)
    BY DEF CommitApproval
  <2>2. \A q \in Questions : wasApproved[q] # "rejected"
    BY <1>3 DEF Rejected
  <2> QED
    BY <1>4, <2>1, <2>2 DEF Rejected, Verdict
<1>7. {c.question : c \in approvedQuestions'} = request[r].kept
  <2>1. PICK sort \in Enumerations(request[r].kept) :
          approvedQuestions' = approvedQuestions \cup
            {[aqs |-> r, question |-> q, sort_order |-> sort[q]] : q \in request[r].kept}
    BY DEF CommitApproval
  <2> DEFINE Row(q) == [aqs |-> r, question |-> q, sort_order |-> sort[q]]
  <2>2. approvedQuestions' = {Row(q) : q \in request[r].kept}
    BY <2>1, <1>3
  <2>3. \A q \in request[r].kept : Row(q) \in approvedQuestions' /\ Row(q).question = q
    BY <2>2
  <2>4. \A c \in approvedQuestions' : c.question \in request[r].kept
    BY <2>2
  <2> HIDE DEF Row
  <2> QED
    BY <2>3, <2>4
<1>8. OneConsistentApproval'
  BY <1>1, <1>4, <1>5, <1>6, <1>7 DEF OneConsistentApproval
<1>9. ApprovalRow'
  BY <1>1, <1>2, <1>4, <1>5 DEF ApprovalRow, Committed
<1>10. PastCommit'
  BY <1>1, <1>2 DEF PastCommit
<1>11. ReadValues'
  BY <1>1, <1>2 DEF ReadValues
<1>12. AnnouncedToTheReviewedWorkflow'
  BY <1>1 DEF AnnouncedToTheReviewedWorkflow
<1>13. OnlyAFailureIsSilent' /\ ReadyMeansApproved'
  BY <1>1, <1>2 DEF OnlyAFailureIsSilent, ReadyMeansApproved, configVars
<1> QED
  BY <1>8, <1>9, <1>10, <1>11, <1>12, <1>13

LEMMA SetReadyStep ==
  ASSUME IInv, TypeOK', NEW r \in Requests, SetReady(r)
  PROVE  IInv'
<1> USE DEF IInv
<1>1. UNCHANGED <<setVars, questionVars, approvalVars, request, events>>
  BY DEF SetReady
<1>2. /\ pc[r] = "set_ready"
      /\ pc'[r] = "publish"
      /\ \A x \in Requests \ {r} : pc'[x] = pc[x]
  BY DEF SetReady, Goto, TypeOK
<1>3. approvedSets # {}
  BY <1>2 DEF PastCommit
<1>4. OneConsistentApproval' /\ AnnouncedToTheReviewedWorkflow'
  BY <1>1 DEF OneConsistentApproval, Approved, Rejected, AnnouncedToTheReviewedWorkflow,
     setVars, questionVars, approvalVars
<1>5. ApprovalRow' /\ PastCommit' /\ OnlyAFailureIsSilent'
  <2>1. ApprovalRow'
    BY <1>1, <1>2 DEF ApprovalRow, Committed, Approved, TypeOK, ApprovedSetRows,
       setVars, questionVars, approvalVars
  <2>2. PastCommit'
    BY <1>1, <1>2 DEF PastCommit, approvalVars
  <2>3. OnlyAFailureIsSilent'
    BY <1>1, <1>2 DEF OnlyAFailureIsSilent, TypeOK, ApprovedSetRows, approvalVars
  <2> QED
    BY <2>1, <2>2, <2>3
<1>6. ReadValues'
  BY <1>1, <1>2 DEF ReadValues, setVars, questionVars, approvalVars
<1>7. ReadyMeansApproved'
  BY <1>1, <1>3 DEF ReadyMeansApproved, approvalVars
<1> QED
  BY <1>4, <1>5, <1>6, <1>7

LEMMA PublishStep ==
  ASSUME IInv, TypeOK', NEW r \in Requests, Publish(r) \/ PublishFails(r)
  PROVE  IInv'
<1> USE DEF IInv
<1>1. UNCHANGED <<configVars, setVars, questionVars, approvalVars, request>>
  BY DEF Publish, PublishFails
<1>2. /\ pc[r] = "publish"
      /\ pc'[r] \in {"ok", "failed"}
      /\ \A x \in Requests \ {r} : pc'[x] = pc[x]
  BY DEF Publish, PublishFails, Goto, TypeOK
<1>3. /\ events \subseteq events'
      /\ events' \subseteq events \cup {ApprovalEvent(r)}
      /\ pc'[r] = "ok" => ApprovalEvent(r) \in events'
  BY DEF Publish, PublishFails, Goto, TypeOK
<1>4. [id |-> r, set |-> request[r].set] \in approvedSets
  BY <1>2 DEF PastCommit
<1>5. OneConsistentApproval' /\ ReadyMeansApproved'
  BY <1>1 DEF OneConsistentApproval, Approved, Rejected, ReadyMeansApproved,
     configVars, questionVars, approvalVars
<1>6. ApprovalRow' /\ PastCommit'
  BY <1>1, <1>2 DEF ApprovalRow, Committed, Approved, PastCommit,
     TypeOK, ApprovedSetRows, setVars, questionVars, approvalVars
<1>7. ReadValues'
  BY <1>1, <1>2 DEF ReadValues, setVars, questionVars, approvalVars
<1>8. AnnouncedToTheReviewedWorkflow'
  BY <1>1, <1>3, <1>4 DEF AnnouncedToTheReviewedWorkflow, ApprovalRow, ApprovalEvent,
     setVars, approvalVars
<1>9. OnlyAFailureIsSilent'
  BY <1>1, <1>2, <1>3, <1>4 DEF OnlyAFailureIsSilent, ApprovalEvent,
     TypeOK, ApprovedSetRows, approvalVars
<1> QED
  BY <1>5, <1>6, <1>7, <1>8, <1>9

LEMMA InductiveStep == IInv /\ [Next]_vars => IInv'
<1> SUFFICES ASSUME IInv, [Next]_vars PROVE IInv'
  OBVIOUS
<1>1. TypeOK'
  BY TypeStep DEF IInv
<1>2. CASE UNCHANGED vars
  BY <1>2 DEF vars, IInv, TypeOK, OneConsistentApproval, Approved, Rejected, ApprovalRow,
     PastCommit, ReadValues, AnnouncedToTheReviewedWorkflow, OnlyAFailureIsSilent,
     ReadyMeansApproved, configVars, setVars, questionVars, approvalVars
<1>3. CASE Next
  <2>1. ASSUME NEW r \in Requests, Continue(r) \/ Fail(r)
        PROVE  IInv'
    <3>1. CASE SetReady(r)
      BY <1>1, <3>1, SetReadyStep
    <3>2. CASE CommitApproval(r)
      BY <1>1, <3>2, CommitStep
    <3>3. CASE Publish(r) \/ PublishFails(r)
      BY <1>1, <3>3, PublishStep
    <3>4. CASE \/ ReadQuestionSet(r) \/ ReadQuestions(r) \/ RejectOthers(r)
               \/ RollBackApproval(r) \/ Fail(r)
      BY <1>1, <3>4, ReadingStep
    <3> QED
      BY <2>1, <3>1, <3>2, <3>3, <3>4 DEF Continue
  <2>2. ASSUME NEW r \in Requests, NEW removed \in SUBSET Questions, ReadConfig(r, removed)
        PROVE  IInv'
    BY <1>1, <2>2, ReadingStep
  <2> QED
    BY <1>1, <1>3, <2>1, <2>2, OtherWritersStep DEF Next
<1> QED
  BY <1>2, <1>3

THEOREM Inductive == Spec => []IInv
<1> QED
  BY InductiveInit, InductiveStep, PTL DEF Spec

-----------------------------------------------------------------------------
(* Every variable of the review keeps its type.                            *)
THEOREM TypeCorrect == Spec => []TypeOK
<1>1. IInv => TypeOK
  BY DEF IInv
<1> QED
  BY Inductive, <1>1, PTL

(* At most one approved set, flags and copies agree, and verdicts are      *)
(* confined to the approved set, whatever the approve requests do.         *)
THEOREM ApprovalConsistent == Spec => []OneConsistentApproval
<1>1. IInv => OneConsistentApproval
  BY DEF IInv
<1> QED
  BY Inductive, <1>1, PTL

(* No question the approving request removed is ever approved.             *)
THEOREM RemovedStayOut == Spec => []RemovedNeverApproved
<1>1. IInv => RemovedNeverApproved
  BY DEF IInv, ApprovalRow, RemovedNeverApproved
<1> QED
  BY Inductive, <1>1, PTL

(* An event names a committed approval and the workflow it reviewed, even  *)
(* if the assessment was given another since.                              *)
THEOREM AnnouncementsFollowCommits == Spec => []AnnouncedToTheReviewedWorkflow
<1>1. IInv => AnnouncedToTheReviewedWorkflow
  BY DEF IInv
<1> QED
  BY Inductive, <1>1, PTL

(* A 200 was announced, and an approval stays unannounced only while its   *)
(* request runs or if it was answered with an error.                       *)
THEOREM SilenceIsReported == Spec => []OnlyAFailureIsSilent
<1>1. IInv => OnlyAFailureIsSilent
  BY DEF IInv
<1> QED
  BY Inductive, <1>1, PTL

(* The assessment is ready for distribution only with a paper behind it.   *)
THEOREM ReadyHasAPaper == Spec => []ReadyMeansApproved
<1>1. IInv => ReadyMeansApproved
  BY DEF IInv
<1> QED
  BY Inductive, <1>1, PTL

-----------------------------------------------------------------------------
(* Only a commit writes verdicts or rows.                                  *)
LEMMA OnlyCommitDecides ==
  ASSUME [Next]_vars
  PROVE  \/ UNCHANGED <<wasApproved, approvalVars>>
         \/ \E r \in Requests : CommitApproval(r)
<1>1. CASE UNCHANGED vars
  BY <1>1 DEF vars, questionVars
<1>2. CASE Next
  BY <1>2 DEF Next, Continue, UpdateAssessmentStatus, CreateQuestionSet,
     WriteGeneratedQuestions, IncrementQuestionSetIteration, ReadConfig,
     ReadQuestionSet, ReadQuestions, RejectOthers, RollBackApproval, SetReady, Publish,
     PublishFails, Fail, questionVars
<1> QED
  BY <1>1, <1>2

(* When a request commits, no question has a verdict yet.                  *)
LEMMA CommitFindsNoVerdict ==
  ASSUME IInv, NEW r \in Requests, CommitApproval(r)
  PROVE  approvedSets = {} /\ Approved = {} /\ Rejected = {}
  BY DEF IInv, OneConsistentApproval, CommitApproval, UniqueViolation

(* An approved assessment's verdicts are final.                            *)
THEOREM FinalVerdicts == Spec => VerdictsAreFinal
<1>1. [Next]_vars => [approvedSets # {} => wasApproved' = wasApproved]_vars
  BY OnlyCommitDecides DEF CommitApproval, UniqueViolation
<1> QED
  BY <1>1, PTL DEF Spec, VerdictsAreFinal

(* The commit decides every question its request read.                     *)
THEOREM CompleteVerdicts == Spec => NoneLeftUndecided
<1>1. IInv /\ [Next]_vars =>
        [\A a \in approvedSets' \ approvedSets :
           \A q \in request[a.id].shown : wasApproved'[q] # "unreviewed"]_vars
  <2> SUFFICES ASSUME IInv, [Next]_vars, NEW a \in approvedSets' \ approvedSets,
                      NEW q \in request[a.id].shown
               PROVE  wasApproved'[q] # "unreviewed"
    OBVIOUS
  <2>1. PICK r \in Requests : CommitApproval(r)
    BY OnlyCommitDecides DEF approvalVars
  <2>2. a.id = r
    BY <2>1 DEF CommitApproval
  <2>3. q \in Questions /\ q \in request[r].kept \cup request[r].rejected
    BY <2>1, <2>2 DEF CommitApproval, UniqueViolation, IInv, ReadValues, TypeOK, Locals
  <2>4. wasApproved'[q] = Verdict(r, q)
    BY <2>1, <2>3 DEF CommitApproval
  <2> QED
    BY <2>3, <2>4 DEF Verdict
<1> QED
  BY Inductive, <1>1, PTL DEF Spec, NoneLeftUndecided

(* Once the approving request has failed unannounced, only it could have   *)
(* announced the approval: nobody does.                                    *)
THEOREM LostAnnouncement == Spec => LostAnnouncementStaysLost
<1>1. IInv /\ [Next]_vars =>
        [(\E a \in approvedSets : pc[a.id] = "failed") /\ events = {} => events' = {}]_vars
  <2> SUFFICES ASSUME IInv, [Next]_vars, events = {},
                      NEW a \in approvedSets, pc[a.id] = "failed"
               PROVE  events' = {}
    OBVIOUS
  <2>1. \A r \in Requests : pc[r] # "publish"
    <3> SUFFICES ASSUME NEW r \in Requests, pc[r] = "publish" PROVE FALSE
      OBVIOUS
    <3>1. [id |-> r, set |-> request[r].set] = a
      BY DEF IInv, PastCommit, OneConsistentApproval
    <3>2. a.id = r
      BY <3>1
    <3> QED
      BY <3>2
  <2>2. \A r \in Requests : ~Publish(r) /\ ~PublishFails(r)
    BY <2>1 DEF Publish, PublishFails
  <2>3. CASE UNCHANGED vars
    BY <2>3 DEF vars
  <2>4. CASE Next
    BY <2>2, <2>4 DEF Next, Continue, UpdateAssessmentStatus, CreateQuestionSet,
       WriteGeneratedQuestions, IncrementQuestionSetIteration, ReadConfig,
       ReadQuestionSet, ReadQuestions, RejectOthers, CommitApproval,
       RollBackApproval, SetReady, Fail
  <2> QED
    BY <2>3, <2>4
<1> QED
  BY Inductive, <1>1, PTL DEF Spec, LostAnnouncementStaysLost

(* Once the approving request has made its status update or has failed,    *)
(* every other approval is rolled back before it reaches its own, so none  *)
(* makes the assessment ready for distribution again.                      *)
THEOREM StatusIsLeftAlone == Spec => LateApprovalsLeaveTheStatus
<1>1. IInv /\ [Next]_vars =>
        [/\ \E a \in approvedSets : pc[a.id] \in {"publish", "ok", "failed"}
         /\ status # "ready_for_distribution"
         => status' # "ready_for_distribution"]_vars
  <2> SUFFICES ASSUME IInv, [Next]_vars, status # "ready_for_distribution",
                      NEW a \in approvedSets, pc[a.id] \in {"publish", "ok", "failed"}
               PROVE  status' # "ready_for_distribution"
    OBVIOUS
  <2>1. \A r \in Requests : pc[r] # "set_ready"
    <3> SUFFICES ASSUME NEW r \in Requests, pc[r] = "set_ready" PROVE FALSE
      OBVIOUS
    <3>1. [id |-> r, set |-> request[r].set] = a
      BY DEF IInv, PastCommit, OneConsistentApproval
    <3>2. a.id = r
      BY <3>1
    <3> QED
      BY <3>2
  <2>2. status' = status \/ status' \in AgentStatuses
    <3>1. CASE UNCHANGED vars
      BY <3>1 DEF vars, configVars
    <3>2. CASE Next
      BY <2>1, <3>2 DEF Next, Continue, UpdateAssessmentStatus, CreateQuestionSet,
         WriteGeneratedQuestions, IncrementQuestionSetIteration, ReadConfig,
         ReadQuestionSet, ReadQuestions, RejectOthers, CommitApproval,
         RollBackApproval, SetReady, Publish, PublishFails, Fail, configVars
    <3> QED
      BY <3>1, <3>2
  <2> QED
    BY <2>2
<1> QED
  BY Inductive, <1>1, PTL DEF Spec, LateApprovalsLeaveTheStatus

-----------------------------------------------------------------------------
(* The participants' paper.  A ranking gives different questions different *)
(* numbers from 1 to their count, so by the pigeonhole principle it leaves *)
(* out none of these numbers.                                              *)
LEMMA RankingIsOnto ==
  ASSUME NEW kept, IsFiniteSet(kept), NEW sort \in Enumerations(kept)
  PROVE  {sort[q] : q \in kept} = 1..Cardinality(kept)
<1> DEFINE n == Cardinality(kept)
<1>1. n \in Nat
  BY FS_CardinalityType
<1>2. IsFiniteSet(1..n) /\ Cardinality(1..n) = n
  BY <1>1, FS_Interval
<1>3. sort \in Injection(kept, 1..n)
  BY DEF Enumerations, Injection, IsInjective
<1>4. sort \in Surjection(kept, 1..n)
  BY <1>2, <1>3, FS_Injection
<1> QED
  BY <1>4 DEF Surjection

(* A set with one row for each question kept has as many rows.             *)
LEMMA OneRowEach ==
  ASSUME NEW kept, IsFiniteSet(kept), NEW r, NEW sort
  PROVE  Cardinality({[aqs |-> r, question |-> q, sort_order |-> sort[q]] : q \in kept})
           = Cardinality(kept)
<1> DEFINE Row(q) == [aqs |-> r, question |-> q, sort_order |-> sort[q]]
           rows == {Row(q) : q \in kept}
           f == [q \in kept |-> Row(q)]
<1>1. \A p, q \in kept : Row(p) = Row(q) => p = q
  <2>1. \A q \in kept : Row(q).question = q
    OBVIOUS
  <2> QED
    BY <2>1
<1> HIDE DEF Row
<1>2. f \in Bijection(kept, rows)
  BY <1>1 DEF Bijection, Injection, IsInjective, Surjection
<1>3. ExistsBijection(kept, rows)
  BY <1>2 DEF ExistsBijection
<1> QED
  BY <1>3, FS_Bijection DEF Row

(* What a commit writes is a paper in order: it finds none before it.      *)
LEMMA CommitWritesAPaper ==
  ASSUME IInv, NEW r \in Requests, CommitApproval(r)
  PROVE  PaperInOrder'
<1> DEFINE kept == request[r].kept
<1>1. approvedQuestions = {}
  BY CommitFindsNoVerdict DEF IInv, OneConsistentApproval
<1>2. kept \subseteq Questions /\ IsFiniteSet(kept)
  <2>1. kept \subseteq Questions
    BY DEF IInv, TypeOK, Locals
  <2> QED
    BY <2>1, QuestionsAreFinite, FS_Subset
<1>3. PICK sort \in Enumerations(kept) :
        approvedQuestions' = approvedQuestions \cup
          {[aqs |-> r, question |-> q, sort_order |-> sort[q]] : q \in kept}
  BY DEF CommitApproval
<1> DEFINE Row(q) == [aqs |-> r, question |-> q, sort_order |-> sort[q]]
<1>4. approvedQuestions' = {Row(q) : q \in kept}
  BY <1>1, <1>3
<1>5. \A q \in kept : Row(q).question = q /\ Row(q).sort_order = sort[q]
  OBVIOUS
<1>6. Cardinality({Row(q) : q \in kept}) = Cardinality(kept)
  BY <1>2, OneRowEach
<1>7. {sort[q] : q \in kept} = 1..Cardinality(kept)
  BY <1>2, RankingIsOnto
<1>8. \A p, q \in kept : createdAt[p] < createdAt[q] => sort[p] < sort[q]
  BY DEF Enumerations
<1>9. createdAt' = createdAt
  BY DEF CommitApproval
<1> HIDE DEF kept, Row
<1>10. {c.sort_order : c \in approvedQuestions'} = {sort[q] : q \in kept}
  BY <1>4, <1>5
<1>11. \A c, d \in approvedQuestions' :
         createdAt'[c.question] < createdAt'[d.question] => c.sort_order < d.sort_order
  BY <1>4, <1>5, <1>8, <1>9
<1> QED
  BY <1>4, <1>6, <1>7, <1>10, <1>11 DEF PaperInOrder

(* A later batch brings questions that the paper does not have: those it   *)
(* has keep the time at which they were generated.                         *)
LEMMA PaperKeepsItsTimes ==
  ASSUME IInv, [Next]_vars, NEW c \in approvedQuestions
  PROVE  createdAt'[c.question] = createdAt[c.question]
<1>1. c.question \in Approved
  BY DEF IInv, OneConsistentApproval
<1>2. PICK a \in approvedSets : questionSet[c.question] = a.set
  BY <1>1 DEF IInv, OneConsistentApproval
<1>3. c.question \in Questions /\ questionSet[c.question] # NULL
  BY <1>1, <1>2, NullIsNoId DEF IInv, TypeOK, ApprovedSetRows, Approved
<1>4. \/ UNCHANGED createdAt
      \/ \E s \in QuestionSets, batch \in (SUBSET Questions) \ {{}}, t \in Times :
           WriteGeneratedQuestions(s, batch, t)
  <2>1. CASE UNCHANGED vars
    BY <2>1 DEF vars, questionVars
  <2>2. CASE Next
    BY <2>2 DEF Next, Continue, UpdateAssessmentStatus, CreateQuestionSet,
       IncrementQuestionSetIteration, ReadConfig, ReadQuestionSet, ReadQuestions,
       RejectOthers, CommitApproval, RollBackApproval, SetReady, Publish,
       PublishFails, Fail, questionVars
  <2> QED
    BY <2>1, <2>2
<1> QED
  BY <1>3, <1>4 DEF WriteGeneratedQuestions

(* The paper is numbered 1..n without a gap and follows the order in which *)
(* its questions were generated, whatever is generated after it.           *)
THEOREM PaperStaysInOrder == Spec => []PaperInOrder
<1>1. Init => PaperInOrder
  <2>1. Init => Cardinality(approvedQuestions) = 0
    BY FS_EmptySet DEF Init
  <2> QED
    BY <2>1 DEF Init, PaperInOrder
<1>2. IInv /\ PaperInOrder /\ [Next]_vars => PaperInOrder'
  <2> SUFFICES ASSUME IInv, PaperInOrder, [Next]_vars
               PROVE  PaperInOrder'
    OBVIOUS
  <2>1. CASE \E r \in Requests : CommitApproval(r)
    BY <2>1, CommitWritesAPaper
  <2>2. CASE UNCHANGED <<wasApproved, approvalVars>>
    <3>1. approvedQuestions' = approvedQuestions
      BY <2>2 DEF approvalVars
    <3>2. \A c \in approvedQuestions : createdAt'[c.question] = createdAt[c.question]
      BY PaperKeepsItsTimes
    <3> QED
      BY <3>1, <3>2 DEF PaperInOrder
  <2> QED
    BY <2>1, <2>2, OnlyCommitDecides
<1> QED
  BY Inductive, <1>1, <1>2, PTL DEF Spec

-----------------------------------------------------------------------------
(* The review implements the abstract decision.                            *)
THEOREM Refinement == Spec => RefinesReviewDecision
<1>1. Init => Decision!Init
  BY DEF Init, Decision!Init
<1>2. IInv /\ [Next]_vars => [Decision!Next]_Decision!decisionVars
  <2> SUFFICES ASSUME IInv, [Next]_vars
               PROVE  [Decision!Next]_Decision!decisionVars
    OBVIOUS
  <2>1. ASSUME NEW r \in Requests, CommitApproval(r)
        PROVE  Decision!Decide
    <3> DEFINE d == [kept |-> Approved', rejected |-> Rejected']
    <3>1. approvedSets = {} /\ approvedSets' # {} /\ UNCHANGED events
      BY <2>1, CommitFindsNoVerdict DEF CommitApproval
    <3>2. Approved' # {}
      <4>1. IInv'
        BY InductiveStep
      <4> QED
        BY <4>1, <3>1 DEF IInv, ApprovalRow
    <3>3. d \in Decision!Decisions /\ d.kept \cap d.rejected = {}
      BY <3>2 DEF Decision!Decisions, Approved, Rejected
    <3> QED
      BY <3>1, <3>3 DEF Decision!Decide
  <2>2. ASSUME NEW r \in Requests, Publish(r) \/ PublishFails(r)
        PROVE  Decision!Announce \/ UNCHANGED Decision!decisionVars
    <3>1. approvedSets # {} /\ Approved # {}
      BY <2>2 DEF Publish, PublishFails, IInv, PastCommit, ApprovalRow
    <3>2. [kept |-> Approved, rejected |-> Rejected] \in Decision!Decisions
      BY <3>1 DEF Decision!Decisions, Approved, Rejected
    <3>3. UNCHANGED <<approvedSets, Approved, Rejected>> /\ events \subseteq events'
      BY <2>2 DEF Publish, PublishFails, Approved, Rejected, questionVars, approvalVars
    <3>4. CASE events = {} /\ events' # {}
      BY <3>1, <3>2, <3>3, <3>4 DEF Decision!Announce
    <3>5. CASE events # {} \/ events' = {}
      BY <3>3, <3>5 DEF Decision!decisionVars
    <3> QED
      BY <3>4, <3>5
  <2>3. ASSUME UNCHANGED <<wasApproved, approvalVars, events>>
        PROVE  UNCHANGED Decision!decisionVars
    BY <2>3 DEF Decision!decisionVars, Approved, Rejected, approvalVars
  <2>4. CASE UNCHANGED vars
    BY <2>3, <2>4 DEF vars, questionVars
  <2>5. CASE Next
    <3>1. \/ UNCHANGED <<wasApproved, approvalVars, events>>
          \/ \E r \in Requests : CommitApproval(r) \/ Publish(r) \/ PublishFails(r)
      BY <2>5 DEF Next, Continue, UpdateAssessmentStatus, CreateQuestionSet,
         WriteGeneratedQuestions, IncrementQuestionSetIteration, ReadConfig,
         ReadQuestionSet, ReadQuestions, RejectOthers, RollBackApproval, SetReady, Fail, questionVars
    <3> QED
      BY <2>1, <2>2, <2>3, <3>1 DEF Decision!Next
  <2> QED
    BY <2>4, <2>5
<1> QED
  BY Inductive, <1>1, <1>2, PTL DEF Spec, RefinesReviewDecision, Decision!Spec
=============================================================================
