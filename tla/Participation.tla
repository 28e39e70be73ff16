--------------------------- MODULE Participation ---------------------------
(***************************************************************************)
(* Invitation, access and submission for one assessment's participants     *)
(* (routes/external.py send_invitations, access_assessment and             *)
(* submit_assessment).  Invitations are sent one statement per             *)
(* participant; access and submission share one submissions row per        *)
(* participant, which either of them creates.  Each await is a step.       *)
(***************************************************************************)
EXTENDS Integers, FiniteSets

CONSTANTS Participants,  \* ids of assessment_participants rows
          Questions,     \* ids of approved_questions rows
          Contents,      \* answer contents
          Invites, Accesses, Submits,  \* requests of the three routes
          AgentStatuses, \* statuses the other writers give the assessment
          Deadline,      \* assessment_configs.deadline, Never: NULL
          MaxTime,       \* bound on the clock
          NULL           \* no row, or SQL's NULL

Requests == Invites \cup Accesses \cup Submits

ASSUME TimeAssumption == MaxTime \in Nat /\ Deadline \in Nat

ASSUME NullIsNoValue == NULL \notin Contents \cup Nat \cup {"in_progress", "submitted"}

ASSUME RequestsAreOfOneRoute == /\ Invites \cap Accesses = {}
                                /\ Submits \cap (Invites \cup Accesses) = {}

VARIABLES
  now,         \* the clock
  status,      \* assessment_configs.status
  hasWorkflow, \* assessment_configs.workflow_id IS NOT NULL
  invitation,  \* assessment_participants.invitation_status
  submission,  \* participant_submissions.status, NULL where there is no row
  startedAt,   \* participant_submissions.started_at
  answers,     \* participant_answers.answer_content, NULL where no row
  pc,          \* where each request is
  request,     \* the inputs and local variables of each request
  events       \* messages handed to Pub/Sub

configVars == <<status, hasWorkflow>>
submissionVars == <<submission, startedAt, answers>>
vars == <<now, configVars, invitation, submissionVars, pc, request, events>>

-----------------------------------------------------------------------------
Statuses == AgentStatuses \cup {"ready_for_distribution", "assessment_active"}
PCs == {"idle", "read_participants", "send", "activate", "create", "accept",
        "reply", "submit", "publish", "ok", "refused", "failed"}
Times == 0..MaxTime

(* invited: the participants an invite selects, or the one whose token an  *)
(* access or a submission carries; todo: those not yet set to sent; given: *)
(* the answers submitted, NULL where there is none.                        *)
Locals == [invited : SUBSET Participants,
           todo    : SUBSET Participants,
           given   : [Questions -> Contents \cup {NULL}],
           publish : BOOLEAN]

NoAnswers == [q \in Questions |-> NULL]
NoLocals == [invited |-> {}, todo |-> {}, given |-> NoAnswers, publish |-> FALSE]

Events == [kind : {"invitation", "completed"}, by : Requests,
           participants : SUBSET Participants]

Init == /\ now = 0
        /\ status = "ready_for_distribution"
        /\ hasWorkflow \in BOOLEAN
        /\ invitation = [p \in Participants |-> "pending"]
        /\ submission = [p \in Participants |-> NULL]
        /\ startedAt = [p \in Participants |-> NULL]
        /\ answers = [p \in Participants |-> NoAnswers]
        /\ pc = [r \in Requests |-> "idle"]
        /\ request = [r \in Requests |-> NoLocals]
        /\ events = {}

Goto(r, label) == pc' = [pc EXCEPT ![r] = label]

-----------------------------------------------------------------------------
Tick == /\ now < MaxTime
        /\ now' = now + 1
        /\ UNCHANGED <<configVars, invitation, submissionVars, pc, request, events>>

(* UpdateAssessmentStatus of the orchestrator, with or without a workflow, *)
(* once submission.proto declares the rpc; the other writers of the status *)
(* (starts, approvals) are among its values.                               *)
UpdateAssessmentStatus(st, withWorkflow) ==
  /\ status' = st
  /\ hasWorkflow' = (hasWorkflow \/ withWorkflow)
  /\ UNCHANGED <<now, invitation, submissionVars, pc, request, events>>

-----------------------------------------------------------------------------
(* POST /assessments/{id}/invite                                           *)

InviteReadConfig(r) ==
  /\ pc[r] = "idle"
  /\ request' = [request EXCEPT ![r].publish = hasWorkflow]
  /\ Goto(r, "read_participants")
  /\ UNCHANGED <<now, configVars, invitation, submissionVars, events>>

(* selected: the participants named in the request, all when it names none.*)
InviteReadParticipants(r, selected) ==
  /\ pc[r] = "read_participants"
  /\ request' = [request EXCEPT ![r].invited = selected, ![r].todo = selected]
  /\ Goto(r, "send")
  /\ UNCHANGED <<now, configVars, invitation, submissionVars, events>>

(* One UPDATE per participant, each committed by itself; it overwrites     *)
(* whatever the status was.                                                *)
SendOne(r, p) ==
  /\ pc[r] = "send"
  /\ p \in request[r].todo
  /\ invitation' = [invitation EXCEPT ![p] = "sent"]
  /\ request' = [request EXCEPT ![r].todo = @ \ {p}]
  /\ UNCHANGED <<now, configVars, submissionVars, pc, events>>

(* A loop that leaves the last participant out.                            *)
SendTooFew(r) ==
  /\ pc[r] = "send"
  /\ Cardinality(request[r].todo) <= 1
  /\ Goto(r, "activate")
  /\ UNCHANGED <<now, configVars, invitation, submissionVars, request, events>>

SendDone(r) ==
  /\ pc[r] = "send"
  /\ request[r].todo = {}
  /\ Goto(r, "activate")
  /\ UNCHANGED <<now, configVars, invitation, submissionVars, request, events>>

Activate(r) ==
  /\ pc[r] = "activate"
  /\ status' = "assessment_active"
  /\ Goto(r, IF request[r].publish THEN "publish" ELSE "ok")
  /\ UNCHANGED <<now, hasWorkflow, invitation, submissionVars, request, events>>

-----------------------------------------------------------------------------
(* GET /participate/{id}                                                   *)

(* Refused when the assessment is not active or its deadline has passed;   *)
(* both are tested on the row just read, the writes come later.            *)
AccessReadConfig(r, p) ==
  /\ pc[r] = "idle"
  /\ request' = [request EXCEPT ![r].invited = {p}]
  /\ Goto(r, IF status = "assessment_active" /\ now <= Deadline THEN "create"
             ELSE "refused")
  /\ UNCHANGED <<now, configVars, invitation, submissionVars, events>>

(* ON CONFLICT ... DO UPDATE SET started_at, status                        *)
CreateSubmissionAfresh(p) ==
  /\ submission' = [submission EXCEPT ![p] = "in_progress"]
  /\ startedAt' = [startedAt EXCEPT ![p] = now]

(* repository.create_submission: INSERT ... ON CONFLICT DO UPDATE SET      *)
(* started_at = now().                                                     *)
CreateSubmission(p) ==
  /\ submission' = [submission EXCEPT ![p] = IF @ = NULL THEN "in_progress" ELSE @]
  /\ startedAt' = [startedAt EXCEPT ![p] = now]

(* An access that accepts the invitation where it should create the row.   *)
AccessWithoutRow(r) ==
  /\ pc[r] = "create"
  /\ invitation' = [p \in Participants |->
                      IF p \in request[r].invited THEN "accepted" ELSE invitation[p]]
  /\ Goto(r, "accept")
  /\ UNCHANGED <<now, configVars, submissionVars, request, events>>

AccessCreate(r) ==
  /\ pc[r] = "create"
  /\ \E p \in request[r].invited : CreateSubmission(p)
  /\ Goto(r, "accept")
  /\ UNCHANGED <<now, configVars, invitation, answers, request, events>>

AccessAccept(r) ==
  /\ pc[r] = "accept"
  /\ invitation' = [p \in Participants |->
                      IF p \in request[r].invited THEN "accepted" ELSE invitation[p]]
  /\ Goto(r, "reply")
  /\ UNCHANGED <<now, configVars, submissionVars, request, events>>

(* The reply reads the participants once more.                             *)
AccessReply(r) ==
  /\ pc[r] = "reply"
  /\ Goto(r, "ok")
  /\ UNCHANGED <<now, configVars, invitation, submissionVars, request, events>>

-----------------------------------------------------------------------------
(* POST /participate/{id}/submit: no test of the status, of the deadline   *)
(* or of an earlier submission.                                            *)

SubmitReadConfig(r, p, given) ==
  /\ pc[r] = "idle"
  /\ request' = [request EXCEPT ![r].invited = {p}, ![r].given = given,
                                ![r].publish = hasWorkflow]
  /\ Goto(r, "create")
  /\ UNCHANGED <<now, configVars, invitation, submissionVars, events>>

SubmitCreate(r) ==
  /\ pc[r] = "create"
  /\ \E p \in request[r].invited : CreateSubmission(p)
  /\ Goto(r, "submit")
  /\ UNCHANGED <<now, configVars, invitation, answers, request, events>>

(* The answers given replace all there were.                               *)
OverlayAll(given, old) == given

(* Each answer given replaces the one there is, the others stay.           *)
Overlay(given, old) ==
  [q \in Questions |-> IF given[q] = NULL THEN old[q] ELSE given[q]]

(* Another value of SubmissionStatus.                                      *)
EvaluatedStatus == "evaluated"

SubmittedStatus == "submitted"

(* One transaction: the answers and the status.                            *)
SubmitAnswers(r) ==
  /\ pc[r] = "submit"
  /\ \E p \in request[r].invited :
       /\ answers' = [answers EXCEPT ![p] = Overlay(request[r].given, @)]
       /\ submission' = [submission EXCEPT ![p] = SubmittedStatus]
  /\ Goto(r, IF request[r].publish THEN "publish" ELSE "ok")
  /\ UNCHANGED <<now, configVars, invitation, startedAt, request, events>>

-----------------------------------------------------------------------------
EventOf(r) == [kind |-> IF r \in Invites THEN "invitation" ELSE "completed",
               by |-> r, participants |-> request[r].invited]

Publish(r) ==
  /\ pc[r] = "publish"
  /\ events' = events \cup {EventOf(r)}
  /\ Goto(r, "ok")
  /\ UNCHANGED <<now, configVars, invitation, submissionVars, request>>

PublishFails(r) ==
  /\ pc[r] = "publish"
  /\ events' \in {events, events \cup {EventOf(r)}}
  /\ Goto(r, "failed")
  /\ UNCHANGED <<now, configVars, invitation, submissionVars, request>>

(* An exception handler that publishes the event of what it gave up.       *)
FailButPublish(r) ==
  /\ pc[r] \in PCs \ {"idle", "publish", "ok", "refused", "failed"}
  /\ Goto(r, "failed")
  /\ events' = events \cup {EventOf(r)}
  /\ UNCHANGED <<now, configVars, invitation, submissionVars, request>>

(* An answer upserted by itself, and then a failure.                       *)
FailHalfSubmitted(r) ==
  /\ pc[r] \in PCs \ {"idle", "publish", "ok", "refused", "failed"}
  /\ Goto(r, "failed")
  /\ answers' = [p \in Participants |->
                   IF pc[r] = "submit" /\ p \in request[r].invited
                   THEN Overlay(request[r].given, answers[p]) ELSE answers[p]]
  /\ UNCHANGED <<now, configVars, invitation, submission, startedAt, request, events>>

(* A database call raises, or the process stops: earlier statements stay.  *)
Fail(r) ==
  /\ pc[r] \in PCs \ {"idle", "publish", "ok", "refused", "failed"}
  /\ Goto(r, "failed")
  /\ UNCHANGED <<now, configVars, invitation, submissionVars, request, events>>

Next ==
  \/ Tick
  \/ \E st \in AgentStatuses, w \in BOOLEAN : UpdateAssessmentStatus(st, w)
  \/ \E r \in Invites :
       \/ InviteReadConfig(r)
       \/ \E selected \in SUBSET Participants : InviteReadParticipants(r, selected)
       \/ \E p \in Participants : SendOne(r, p)
       \/ SendDone(r)
       \/ Activate(r)
  \/ \E r \in Accesses :
       \/ \E p \in Participants : AccessReadConfig(r, p)
       \/ AccessCreate(r)
       \/ AccessAccept(r)
       \/ AccessReply(r)
  \/ \E r \in Submits :
       \/ \E p \in Participants, given \in [Questions -> Contents \cup {NULL}] \ {NoAnswers} :
            SubmitReadConfig(r, p, given)
       \/ SubmitCreate(r)
       \/ SubmitAnswers(r)
  \/ \E r \in Requests : Publish(r) \/ PublishFails(r) \/ Fail(r)

Spec == Init /\ [][Next]_vars

-----------------------------------------------------------------------------
(* Every variable keeps its type.                                          *)
TypeOK ==
  /\ now \in Times
  /\ status \in Statuses
  /\ hasWorkflow \in BOOLEAN
  /\ invitation \in [Participants -> {"pending", "sent", "accepted"}]
  /\ submission \in [Participants -> {NULL, "in_progress", "submitted"}]
  /\ startedAt \in [Participants -> Times \cup {NULL}]
  /\ answers \in [Participants -> [Questions -> Contents \cup {NULL}]]
  /\ pc \in [Requests -> PCs]
  /\ request \in [Requests -> Locals]
  /\ events \subseteq Events

(* Whoever is shown as having accepted has a submissions row, even when    *)
(* the access failed half-way or an invite ran at the same time.           *)
AcceptedHasSubmission ==
  \A p \in Participants : invitation[p] = "accepted" => submission[p] # NULL

(* Answers and the status "submitted" appear together: a submission that   *)
(* fails half-way leaves neither.                                          *)
AnswersAndStatusTogether ==
  \A p \in Participants : submission[p] = "submitted" <=> answers[p] # NoAnswers

(* Opening the link again, or a late create_submission of another request, *)
(* does not reopen a submission.                                           *)
SubmittedIsForGood ==
  [][\A p \in Participants :
       submission[p] = "submitted" => submission'[p] = "submitted"]_vars

(* A second submission never takes an answer away, it overwrites or adds.  *)
AnswersAreNotDropped ==
  [][\A p \in Participants, q \in Questions :
       answers[p][q] # NULL => answers'[p][q] # NULL]_vars

(* submission-completed tells the evaluator of answers that are there.     *)
CompletionFollowsAnswers ==
  \A e \in events : e.kind = "completed" =>
    \A p \in e.participants :
      /\ submission[p] = "submitted"
      /\ \A q \in Questions : request[e.by].given[q] # NULL => answers[p][q] # NULL

(* An invite that is announced or answered 200 reached every participant   *)
(* it selected.                                                            *)
InvitationsAreComplete ==
  \A r \in Invites :
    \/ pc[r] = "ok"
    \/ \E e \in events : e.by = r
    => \A p \in request[r].invited : invitation[p] # "pending"

(* However opened links, hand-ins and their failures interleave, what is   *)
(* stored of each participant is the life of one submission.               *)
Lifecycle == INSTANCE SubmissionLifecycle WITH
  stage <- submission,
  told  <- {p \in Participants : \E e \in events : /\ e.kind = "completed"
                                                  /\ p \in e.participants}
RefinesSubmissionLifecycle == Lifecycle!Spec
=============================================================================
