# A TLA+ development of the assessment submission service

The service (FastAPI and gRPC in one asyncio process, PostgreSQL, Pub/Sub,
Cloud Storage) keeps an assessment from its set-up to the participants'
reports. Its handlers hold no state of their own between two awaits except
local variables; everything that lasts is a row of PostgreSQL. What is hard to
get right is therefore between the awaits: a handler reads a row, awaits,
and writes on the strength of what it read, while other handlers, the agents'
gRPC calls and failures come in between. The modules here take each handler
apart at its awaits and let TLC look at every order of a small instance, and
TLAPS at every instance.

Sources are named relative to `src/`; `external.py`, `repository.py`,
`server.py`, `pubsub.py`, `storage.py`, `auth.py` and `pool.py` stand for
`src/submission_service/routes/external.py`, `.../db/repository.py`,
`.../grpc/server.py`, `.../services/` and `.../db/pool.py`.

## Inventory

| component | state | operations | what makes it correct |
|---|---|---|---|
| Question review | `question_sets`, `generated_questions`, `approved_question_sets`, `approved_questions`, `assessment_configs.status/workflow_id` | gRPC `CreateQuestionSet`, `WriteGeneratedQuestions`, `IncrementQuestionSetIteration`; REST `review/approve` | one approval per assessment, final verdicts, copies that match the flags, an announcement exactly for what was committed |
| Workflow start | `assessment_configs.status/workflow_id` | REST `start`, gRPC `StartWorkflow` (and `UpdateAssessmentStatus`, a handler without an rpc) | the assessment points to a workflow somebody was told of |
| Pub/Sub publisher | the topic, the cached client | `publish_*`, `_publish_async` | a return means stored; retries carry one event id; the call ends, cancelled or not |
| Participation | `assessment_participants`, `participant_submissions`, `participant_answers` | REST `invite`, `participate` (access), `submit` | answers and status together, nothing reopened or dropped, complete invitations |
| Evaluation and reports | `evaluations`, `evaluation_details`, `group_evaluations`, `participant_reports` | gRPC `CreateEvaluation`, `CreateGroupEvaluation`, `GetEvaluation`, `CreateReport`; REST list of reports | a completed row has all its details for good; a listed score is of the workflow and participant it is listed under |
| Materials and rubrics | blobs, `assessment_materials`, `assessment_rubrics`, the threads of the default executor | REST uploads, gRPC `UploadWebResearchMaterials` | a row leads to a blob, what is answered with success is listed, an upload ends |
| Assessment set-up | configuration, participants, groups, members, files | REST `create`, `launch` | a launch that starts is complete |
| Authentication | the cached JWKS key | `get_current_user`, `_fetch_jwks_key` | a token of the current key is accepted |
| Connection pool | the global `_pool` | `get_pool`, `close_pool` | one pool, made before the first call, closed after the last; who waits for a connection gets one if one gets free |
| Process lifespan | the two servers | start-up, shut-down | the order of the two ends; a shut-down ends unless statements that hang have the connections it needs |
| gRPC interceptor, configuration, wire format | none | | see "Not modelled" |

How they interact: every component writes `assessment_configs.status`, most
through the one unconditional `update_assessment_status` (`repository.py:125`);
an event a REST handler publishes makes the orchestrator's agents call back
over gRPC, and they keep calling while assessors and participants use the REST
side. Calls are retried by their callers, so any handler may run twice, at the
same time or one after the other.

The hard behaviours, each with its line, are the `hazards` of `PROJECT.json`.
The main ones: a test on a row that is stale when the
write happens (`external.py:377`, `:503`, `:516`, `:811`); several statements
that are no transaction (`:389-410`, `:532-550`, `:580-595`, `:826-830`); a
publication that fails after the commit it announces; a retry whose first
attempt had arrived (`pubsub.py:141`); two approvals, starts, submissions or
invitations of the same thing at once; a row and its details, or a blob and its
row, in two steps (`server.py:106`, `external.py:243`); threads that uploads and
publications share; and what the start, the stop and the memory of the process
do to calls under way.

## Modules

| module | what it is |
|---|---|
| `ReviewDecision` | abstract: one decision, kept for good, announced at most once |
| `QuestionReview` | the review, statement by statement; implements `ReviewDecision` |
| `QuestionReview_proofs` | its inductive invariant and theorems |
| `ApprovalTransaction` | the approval transaction row by row, with PostgreSQL's locks; takes the steps of `QuestionReview` |
| `ApprovalTransaction_proofs` | the proof of that, that somebody wins, and that waits end in cycles |
| `Publication` | abstract: what a handler may expect of one publish call |
| `PubSubPublisher` | the retry loop over a network that loses and delays; implements `Publication` |
| `PubSubPublisher_proofs` | deduplication, attempts, and the proof of the refinement |
| `WorkflowStart` | the two ways to start a workflow |
| `AssessmentSetup` | create and launch, commit by commit, composed with `WorkflowStart`, whose starts find the draft on the way |
| `AssessmentSetup_proofs` | proofs of the composition, and that it implements `WorkflowStart` |
| `SubmissionLifecycle` | abstract: a submission is opened once, handed in with its answers, never reopened, told of after |
| `Participation`, `Participation_proofs` | invite, access, submit; implements `SubmissionLifecycle` |
| `Marking` | abstract: an evaluation is opened, marked once and whole, and reported on under its own name |
| `Evaluation`, `Evaluation_proofs` | evaluations of participants and groups, replies, reports; implements `Marking` |
| `Materials`, `Materials_proofs` | uploads through the executor, web research rows |
| `ServiceProcess`, `ServiceProcess_proofs` | the process: start-up, shut-down, crash, pool, key cache |
| `MC*` | values of constants and the symmetry of the runs |

### How a module corresponds to the code

- **An await is a step.** `pc[r]` is the await at which request `r` is
  suspended, `request[r]` its local variables. One action runs from the
  resumption to the next await: it reads and writes the rows its one statement
  reads and writes. `map` in `PROJECT.json` gives the lines of each.
- **A transaction that reads nothing is one step.** `write_generated_questions`
  inserts a batch that appears at its commit; `submit_answers` only writes, under
  row locks that last to its commit, so two overlapping ones look like one after
  the other (or one is aborted: `Fail`). `approve_questions` takes two steps: its second UPDATE decides which
  batches it sees (`RejectOthers`), and its commit shows what it did
  (`CommitApproval`). That two are enough is what `ApprovalTransaction` is for:
  there each UPDATE locks its rows one by one, waits for rows of another
  approval, tests its condition again under READ COMMITTED, the INSERT waits
  for the other's index entry, and a deadlock is resolved by aborting one of
  the transactions in the cycle. `StepsOfTheReview` says that what is committed changes only as in
  `QuestionReview`.
- **A failure** (`Fail`) is an exception of a database call or the stop of the
  process: the statements before stay, the request never goes on. A process
  that restarts has lost its coroutines and nothing else, so a crash is `Fail`
  of each request under way. A commit whose answer is lost is the commit
  followed by `Fail`.
- **Publishing** is one step in the handlers' modules with the outcomes
  `Publication` allows: stored and returned, raised and stored, raised and not.
  `events` is what was handed to Pub/Sub and is in the topic or on its way
  there. `PubSubPublisher` shows the retry loop delivers just that contract.
- **Times.** `created_at` defaults to `now()`, the start of the transaction:
  equal within a batch, and earlier than that of a batch which began later and
  committed first. A batch thus gets any time of `Times`, whatever the order.
- **Ids** that `uuid4` draws are named by the request that draws them.
- **Left out:** texts, metadata, counts nobody in the service reads
  (`iteration_count`), logging, the shape of replies. Agents give an
  assessment no status that the review or the invitations own
  (`ReadyIsTheReviewsOwn`, `NobodyGoesBackToDraft`), as the callers that
  `reference/` describes do; the gRPC handler itself would take any.
  In `WorkflowStart` the orchestrator writes only workflow ids it was sent.
- **`UpdateAssessmentStatus`** of `WorkflowStart`, `Participation` and
  `Evaluation` translates a handler that `submission.proto` gives no rpc (see
  "Disagreements"): as built, the status is written by starts, approvals and
  invites only, and a restart is a gRPC `StartWorkflow`. The action
  adds behaviours and takes none away, so what holds with it holds without.

### QuestionReview

`setOrder`, `setWorkflow`, `setStatus` are the `question_sets` rows,
`questionSet`, `createdAt`, `wasApproved` the `generated_questions`,
`approvedSets` and `approvedQuestions` the two tables of copies. The approval
takes these steps: `ReadConfig`, `ReadQuestionSet` (the latest set of the
workflow just read), `ReadQuestions` (unreviewed ones less the removed),
`RejectOthers` and `CommitApproval` or `RollBackApproval` (its transaction),
`SetReady`, `Publish` or `PublishFails`. The questions kept are those of the
read; the transaction's first UPDATE tests nothing, its second rejects whatever
is still NULL when it starts. A batch that commits after that start and before the
commit is decided by nobody, then or later: `VerdictsAreFinal` says so, and
`NoneLeftUndecided` speaks of the questions the request had read.

`SetReady` is a statement of its own and tests nothing. `LateApprovalsLeaveTheStatus`
says that it is not for a request that was overtaken: once the approval has set
the status, no other takes an assessment that went on, to `assessment_active` say,
back to `ready_for_distribution`. The window between the commit of the approval that
won and its own `SetReady` is real: an invite in it is overwritten, and no text
of the repository says that it should not be.

### ApprovalTransaction

Requests start where `QuestionReview` has them at `approve`. `MarkRow` and
`RejectRow` are one row of the two UPDATEs, reached in any order; `BeginReject`
takes the second one's snapshot; `InsertSet`, `UniqueViolation` are the two
answers of the INSERT, which is enabled in neither form while another
transaction holds an uncommitted entry; `Commit` copies and commits.
`DeadlockVictim` is PostgreSQL's detector (external): an UPDATE waits at one of the rows it has not reached, any of which may
be the one, so the model aborts at least wherever PostgreSQL would. `Review`
maps a request at `reject` or `commit` to `QuestionReview`'s `commit`; the
locks, the rows still to do and the uncommitted changes have no image.

### PubSubPublisher, Publication

`Send`, `ResultReturns`, `AttemptRaises`, `Wake` are the body of the loop; a
message that was sent may be stored or lost at any later moment (`Store`,
`Lose`, modelled from how `google.cloud.pubsub_v1` is used), also after the
attempt or the whole call has raised. `NoPublisher` is the client that cannot be
made, outside the loop. `Cancel` is the `CancelledError` that a client's
cancellation, or the stop of the gRPC server after its grace period, raises out of
`future.result` or `sleep`: it is no `Exception`, so the loop does not catch it and
the call ends whatever attempts are left. What was sent may be stored all the same,
and for `Publication` such a call has raised. The library's own retries inside one future are not
distinguished from a slow attempt.

### WorkflowStart, AssessmentSetup

`ReadConfig`, `UpdateStatus`, `Publish`/`PublishFails` for both kinds of start;
only REST tests `draft`. `AssessmentSetup` puts them beside the two requests
that make an assessment. `stage` is where the request is; every action up to
`AddRubric` is one statement or upload, committed by itself; `SetupFails` may
come between any two. `launch_assessment` ends with the two steps of a start
that tests nothing, so `Launch` is one of `GrpcStarts`, and `StartWorkflow` is
where it begins. The draft is listed (`GET /assessments`) from its first INSERT
on, so the other starts (`OtherStart`) may come in at any later stage, and then
the launch replaces their workflow.

### Participation

Invite: `InviteReadConfig`, `InviteReadParticipants`, one `SendOne` per
participant, `SendDone`, `Activate`, `Publish`. Access: `AccessReadConfig`
(status and deadline), `AccessCreate`, `AccessAccept`, `AccessReply`. Submit:
`SubmitReadConfig`, `SubmitCreate`, `SubmitAnswers` (one transaction),
`Publish`. Access and submit share `CreateSubmission`, the upsert that sets
`started_at` again and leaves the status alone. `Lifecycle` maps a participant's
row to the stage of `SubmissionLifecycle` and the `submission.completed` events to
who was told; invitations, acceptance and requests under way have no image.

### Evaluation

`InsertEvaluation` is `CreateEvaluation`'s first statement, `WriteEvaluationDetails`
its transaction of details and status; a call without details skips it. No
constraint makes a row unique, so each call has a row of its own and
`EvaluationsOf` may give several, of which `GetEvaluation` takes any (`fetchrow`).
What agents send is external (`Calls`): details of their own, or the group's
scores with a `group_evaluation_id`. `UpsertGroupEvaluation` sets the score and
keeps the first reasoning. `JsonAgg` is the column as it arrives, text, and
`ReplyDetails` what the handler makes of it. `ReportsForAssessment` is the join
behind the assessor's list. `request`, `graded` and `replies` remember what was
sent and answered; the code keeps them in the calls only. `TheMarking` maps an
`evaluations` row to whose it is, its details to the marks once the row is
`completed`, and a reply that a report was made of to the report; what is not
completed has no marks there, so `Marking` allows no half-written set.

### Materials

An upload is submitted to the event loop's default executor (`Submit`), gets a
thread (`TakeJob`), stores its blob (`StoreBlob`, or `StoreFails`, after which the
blob may be there all the same) and inserts its row (`InsertRow`). A
publication's `future.result` occupies a thread of the same executor.
`BlobPath` is folder and file name, which is all a blob is known by: a later
upload of the name replaces it. `RegisterOne` is one INSERT of the web research
agent, committed by itself, in any order of the files; `RegisteredAll` is the answer after
the last, and `Fail` leaves what was inserted. `Batches` are repeated calls, which
register every file once more.

### ServiceProcess

`phase` is where `lifespan` is: `Boot` (get_pool), `StartGrpcServer`, then
`Sigterm`, `Drained` (uvicorn has answered its requests), `StopGrpcServer` (grace
period, then cancellation), `ClosePool`. `Crash` may come at any time and takes
the globals along. `GetPool` and `PoolMade` are the two halves of `get_pool`
around its await, `Acquire` the wait for one of the pool's `MaxSize` connections,
`InUse` who has one, `QueryEnds` the end of a statement, `ReadCachedKey`, `FetchAnswered`, `StoreKey` those of
`_fetch_jwks_key`; a token is the key it is signed with, keys are numbered in the
order of rotations. A request has one wait for a connection and one statement
for its several: it holds none between them. The JWKS is taken to list the one
key tokens are signed with, as `auth.py` does, which takes `keys[0]` whatever the
token's `kid` (`auth.py:47`).

The drain has no time limit: uvicorn waits for its requests, a request in
`pool.acquire` waits for a connection, a statement has no `command_timeout`, and
`stop_grpc_server`, which would cancel the agents' calls, comes after. Ten
statements that hang thus keep a REST request from its connection, and the process
from stopping. `DrainIsBlocked` is that state, and `ShutdownEnds` says that nothing else
keeps a shut-down from its end.

## Runs

| run | what it asks | bounds, and why they are enough |
|---|---|---|
| `review_restart` | approvals against restarts: a single consistent final approval, announced to the right workflow, `ReviewDecision` implemented | two of everything: two requests to overlap, two workflows to be switched between, two sets to choose the latest of, two questions to decide differently, two times. A third request meets what the second meets; the proofs drop the bound |
| `review_batches` | removed questions, order of the paper, undecided questions, and the status after a late approval | two requests, a restart, one set and two questions, each in a batch of its own or both in one (a tie), before, between or after the steps of both requests |
| `approval_transaction` | row locks, waits and deadlocks: every transaction ends, one commits unless it fails by itself, all wait only when some wait in a cycle, nothing is seen but `QuestionReview`'s two steps | two requests, three questions, every choice of what was written before, what each keeps and what comes later: two rows in opposite order make a deadlock, the third is a batch that comes in between. The three safety results are proved for all bounds |
| `review_all_others` | violation, see below | one request, two questions |
| `publisher` | deduplication, attempts and sleeps, `Publication`, termination, with calls cancelled at any await | two calls (to tell their messages apart), three attempts (the default of the code), four event ids (two are needed, more are there for a loop that would draw again) |
| `setup` | a complete launch, announced workflows, lost starts, the effect of each start, `WorkflowStart` implemented | two REST starts and one gRPC start around a create or a launch with a participant, a group of two of whom one is unknown, two files and a rubric: each loop has a second round or an element it passes over |
| `start_twice` | violation, see below | two REST starts |
| `participation` | complete invitations, acceptance with a row, answers with status, nothing reopened, completion after answers, `SubmissionLifecycle` implemented (nothing dropped) | two participants (a partial invitation), two questions (a second submission that answers the other one), one invite, one access, two submissions, a clock that passes the deadline once |
| `evaluation` | whole evaluations, group scores, the assessor's list, `Marking` implemented (final evaluations) | two calls (a retry, or two participants), two group writes (a second grading), two questions and scores, two workflows, one report; symmetric in all |
| `evaluation_details` | violation, see below | one call, one reply |
| `materials` | rows and blobs, answers and rows, uploads that end | two materials that may share their name, a rubric that may share it too, two publications that may hold both threads of the executor, one call of two web files (some inserted, some not) |
| `process` | one pool, refused tokens, a shut-down that ends | two starts of the process, two keys, two REST calls (overlapping fetches), two gRPC calls that may hang, and two connections, which they may both hold |

`MaxTime`, `Deadline`, `Times`, `MaxEventIds`, `MaxBoots`, `MaxKey` and the
finite request sets are the only bounds; `MaxSize` (10 in the code) and `Threads`
are limits of the program, with a smaller value. Six models stop without an error
(`CHECK_DEADLOCK FALSE`): `PubSubPublisher` when all calls are over and the network
is empty, `ApprovalTransaction` when all transactions have ended and all
questions are written, `AssessmentSetup` and `WorkflowStart` when all requests have
been answered, `Materials` when all uploads, publications and batches are done, and
`ServiceProcess` after its last stop: nothing is left to do. A deadlock of the
database is no deadlock of `ApprovalTransaction`, since
`WriteGeneratedQuestions` may still be enabled; `TransactionsEnd` is what
excludes it. Symmetry is used where all properties are safety properties.

### Fairness

`FairSetup` assumes weak fairness of
`Continue(r)`: the event loop resumes a coroutine whose await has returned, a
database call returns or raises, and a publication returns or raises. The last
is what `CallsEnd` shows of the retry loop, under weak fairness of `Loop(c)`:
the event loop, the executor thread, and the deadline `google.cloud.pubsub_v1`
gives each publish. `FairSetup` also goes on with the request that sets up
(`SetupStep`): each of its statements and uploads returns or raises.
`ApprovalTransaction` has the same fairness of
`Continue(r)`, which is enabled when the locks of a statement are free or when the
detector may abort `r`: a free lock is granted, a cycle is found.

`Materials` assumes weak fairness of `TakeJob` (the executor's free threads take
jobs, first in first out), of each job's end (an upload to Cloud Storage and
`future.result` have deadlines) and of the INSERT that follows an upload.
`UploadsEnd` is thus about the queue: no job of a full executor waits for
another. `ServiceProcess` assumes it of the shut-down's steps, which `lifespan`
takes one after the other (the grace period ends), and of what a REST request does
up to its statement, `Approach`: its fetch has a timeout of 10 seconds, and it gets
a connection when one is free. It assumes nothing of the agents' calls nor of the
end of any statement: all may hang. `ShutdownEnds` then holds because of the
grace period, or ends in `DrainIsBlocked`.

No fairness is assumed of agents, arrivals, failures or the network, so the
properties hold however the others write and whatever is lost. None of it
is strong: no step of a request is disabled again by another writer but
`Acquire`, by whoever takes the last connection. asyncpg serves its waiters in
order, and the model's calls are finitely many, so a connection that keeps
getting free is got.

### Disagreements between code and text

- `review_all_others`: a batch written between the read of the questions and the
  transaction is rejected by the second UPDATE though nobody removed it; the
  docstring of `approve_questions` says all others are approved.
- `start_twice`: two overlapping REST starts both pass the draft test and both
  publish; `reference/test.md:255` says the second gets a 400. It does once the
  first has written.
- `evaluation_details`: `json_agg` arrives as text, no codec being set on the
  pool (the one REST route that reads such a column decodes it itself,
  `external.py:473`), and `GetEvaluation` takes the details of a list only:
  a completed evaluation is answered without any. `reference/test.md:759` has one
  entry per question.

Four more were met on the way and have no run, being visible without one:

- Opening the link again moves `started_at`, also of a submitted row
  (`repository.py:493`; the step is `CreateSubmission` of `Participation`).
- An invite that fails on the way leaves some participants `sent` although
  `repository.py:5` has all multi-step operations in transactions (`SendOne` and `Fail`).
- `pubsub.py:157` and `reference/fix.md:336` say that the backoff is "2s, 4s, 8s". With
  the default of three attempts the loop sleeps twice, 2 and 4 seconds:
  nothing is slept after the last attempt, and the 8 would need a fourth.
  `AttemptsAreSpent` states what the code does.
- `proto/assessorflow/submission/v1/submission.proto:9-23` declares 13 rpcs, as
  `main.py:4` counts them. `UpdateAssessmentStatus`, `UpdateMaterialValidation` and
  `GetGroupMemberSubmissions` (`server.py:216-255`) are not among them and their messages do not
  exist; the Dockerfile, `build.sh` and CI generate the stubs from that file. The handlers are
  thus never called in the built program, though `reference/fix_1.md:161` and `:169` have two of
  them as fixed and `reference/test.md` tests them (T-G13 to T-G15);
  `reference/fix_1.md:191` knows that the messages are missing. In
  consequence no material ever gets a `readiness_status`, and `validation-status`
  (`external.py:351-356`) counts every listed material as pending and never
  answers `all_passed`. Were the rpc there, the handler would write any string, and
  all but `TERMINATE` and NULL would count as passed.

## Proofs

### QuestionReview

`QuestionReview_proofs` proves, for any number of workflows, sets, questions,
requests and times, and from the four assumptions of the module only (that there
are finitely many question ids, which are UUIDs, among them):

| theorem | property |
|---|---|
| `TypeCorrect` | `TypeOK` |
| `ApprovalConsistent` | `OneConsistentApproval` |
| `RemovedStayOut` | `RemovedNeverApproved` |
| `PaperStaysInOrder` | `PaperInOrder` |
| `AnnouncementsFollowCommits`, `SilenceIsReported` | `AnnouncedToTheReviewedWorkflow`, `OnlyAFailureIsSilent` |
| `ReadyHasAPaper` | `ReadyMeansApproved` |
| `FinalVerdicts`, `CompleteVerdicts` | `VerdictsAreFinal`, `NoneLeftUndecided` |
| `StatusIsLeftAlone` | `LateApprovalsLeaveTheStatus` |
| `LostAnnouncement` | `LostAnnouncementStaysLost` |
| `Refinement` | `RefinesReviewDecision` |

The argument. `OneConsistentApproval` is not inductive: to commit, a request
uses ids it read earlier, and nothing in the transaction checks them. `IInv`
adds what a suspended request still knows: the set it read exists and belongs to
the workflow it read (rows of `question_sets` never change either), the ids it
kept are questions of that set, none of them among the removed, and not empty;
those it rejects are of that set too, and each question it has read is kept or rejected;
a request past its commit is the one that owns the approved set; and as long as
there is no approved set no question has a verdict. The last part carries the
rest: since a commit needs `approvedSets = {}`, the questions it flips were
all unreviewed, however stale its read, so one commit cannot contradict another.
`Inductive` has a lemma per group of actions (`OtherWritersStep`,
`ReadingStep`, `CommitStep`, `SetReadyStep`, `PublishStep`); the action
properties and the refinement are read off the step that can break them.
`StatusIsLeftAlone` needs that the request at `set_ready` is the one that owns the
approved set: when the owner is past it, nobody is there.

`PaperStaysInOrder` needs the pigeonhole: a numbering of the kept questions in
`1..n` that gives no number twice gives each (`RankingIsOnto`), there is one row
per question (`OneRowEach`), so the commit writes a paper numbered without gaps
(`CommitWritesAPaper`), and since no step changes the `created_at` of a question of
the paper it stays in order (`PaperKeepsItsTimes`).

### ApprovalTransaction

`ApprovalTransaction_proofs` proves, for any number of requests and questions
and from `NullIsNoRequest`, and for the third from `RequestsAreFinite` (each holds one
of finitely many connections):

| theorem | property |
|---|---|
| `StepsRefine` | `StepsOfTheReview` |
| `Progress` (`Requests` not empty) | `SomebodyWins` |
| `WaitsAreCycles` | `WaitsEndInACycle` |

Here the hard step is the commit: `QuestionReview` rejects all that the second
UPDATE matched when it began, the code only the rows it could still change when
it reached them. `RejectsWhatItMatched` makes them equal whenever it matters:
as long as nobody has committed, a row the UPDATE reaches is still unreviewed,
and a request whose INSERT went through holds the only index entry, so nobody has
committed (`OneHolder`, `HolderIsFirst`). For `Progress`, a victim of the
detector has somebody in its cycle that waits for it; by `LocksAreBehind` that is
not itself, so one transaction at least is left.

`WaitsAreCycles` is the safety `TransactionsEnd` rests on: the detector finds cycles
only, so a wait that leads to no cycle would last for ever. The rows of an ended
transaction are free (`LocksOfTheRunning`), so whom a transaction may wait for is
running (`WaitsForTheRunning`). The rest is about graphs: among finitely many who
each wait for one of them, a smallest nonempty group that waits for nobody
outside (there is one, since strict inclusion is well-founded on finite sets)
is all waited for, and is the cycle (`SmallestClosedGroup`).

### Participation

`Participation_proofs`, for any participants, questions, contents, requests and
any clock, from the assumptions on its constants:

| theorem | property |
|---|---|
| `TypeCorrect` | `TypeOK` |
| `AcceptedSubmissions`, `AnswersAtomic` | `AcceptedHasSubmission`, `AnswersAndStatusTogether` |
| `CompletionAfterAnswers`, `CompleteInvitations` | `CompletionFollowsAnswers`, `InvitationsAreComplete` |
| `SubmittedStays`, `AnswersStay` | `SubmittedIsForGood`, `AnswersAreNotDropped` |
| `LifecycleRefined` | `RefinesSubmissionLifecycle` |

`RequestFacts` is what a suspended request may count on although it holds no
lock: past `create` its participant has a row, since rows are never deleted; past
the transaction the answers it gave are there, since no other submission drops
any; and of an invite, the selected participants who are not on its list any more
are not pending, since nobody sets one back to `pending`. The refinement uses the
same facts where an action is a step of the lifecycle at all: the upsert of
`AccessCreate` and `SubmitCreate` opens a row or changes nothing of it
(`CreateOpens`), `SubmitAnswers` hands in on a row that is there (`SubmitHandsIn`),
and an event is about a submitted row (`PublishTells`).

### Evaluation

`Evaluation_proofs`, for any workflows, participants, questions, scores, calls:
`TypeCorrect` (`TypeOK`), `WholeOrNothing` (`CompletedIsWhole`), `GroupScoreKept`
(`MembersHaveTheGroupScore`), `ListedScores` (`ListedScoresAreCurrent`),
`CompletedStays` (`CompletedIsFinal`) and `MarkingRefined` (`RefinesMarking`). `CompletedIsWhole` needs that a call at its
transaction has not completed its row (`Progress`), the group's scores that every
call, also an unfinished one, carries a score that is the group's or was
graded again (`GroupScores`), and the list that a reply, and then a report,
names a row of its own workflow and participant (`RepliesName`, `ReportsName`),
which no step changes. The refinement has a lemma for each step `Marking` has
(`CreateOpens`, `DetailsMark`, `ReportFiles`): a transaction of details marks a row
that has no marks because its call has not reached its end (`Progress`).

### Materials

`Materials_proofs`, for any uploads, names, files and threads, from
assumptions that the kinds of ids differ and `NULL` is none: `TypeCorrect` (`TypeOK`),
`RowsLeadSomewhere` (`RowsHaveBlobs`) and `SuccessIsListed`
(`AnsweredIsListed`). The crucial part of `IInv` is `Executor`: a job is in the
queue or in a thread, once. With it an upload that has a row never stores again
(`RowsFollow`), and no failing one takes a blob away, so the blob stays.

### AssessmentSetup

`AssessmentSetup_proofs`, for any starts, emails, groups, memberships and files:
`CurrentIsAnnounced` (`CurrentWorkflowIsAnnounced`), `LaunchIsComplete`
(`LaunchedIsComplete`), `LostStart` (`OnlyGrpcRepairsALostStart`), `SetupTypeCorrect`
(`SetupTypeOK`), `SetupImplementsStart` (`StartsAsIfAlone`), `AnsweredStand`
(`AnsweredStartsStand`) and `LaterStarts` (`LaterStartsAreRefused`). A step of the
set-up is one of a start, of an agent, or leaves the starts alone
(`StepOfTheStarts`), which gives the refinement and the cases of the others. The
first two need what has been committed at each stage (`Committed`) and that the
launch's own start is idle before the last. For the third, a start is lost when
the workflow set is announced by nobody and no REST start is under way: from then
on the status is not draft (`Announcements`), so a REST start that is still to
come is refused. `LaterStarts` says the same of every start that has been written:
only starts that overlap both succeed (they do, as the run `start_twice` shows),
one that comes later is refused as `reference/test.md:255` has it.

### ServiceProcess

`ServiceProcess_proofs`, for any calls, bounds and size of the pool (`SizeAssumption`): `OnePool`
(`StatementsHaveThePool`), `GoodTokensPass` (`RefusalsNeedARotation`) and
`ClosingWaitsForNobody`: no statement runs when `_pool.close()` begins, which is why
`ShutdownEnds` needs no fairness of the agents' calls.
`PoolOfPhase` says which states of the pool and of the calls each phase allows:
only the start-up is ever in `create_pool`, since no call is taken before it is
done. `SeenKeys`: the cached key and every answer under way are keys the service
had between the start of the process and now.

### PubSubPublisher

`PubSubPublisher_proofs`, for any calls and `MaxRetries` at least 1:
`Deduplicable` (`DeduplicableByEventId`), `Spent` (`AttemptsAreSpent`, with calls
cancelled wherever they are),
`Refinement` (`RefinesPublication`). An envelope's id is drawn once (`Envelopes`),
every message carries its call's envelope and an attempt already made
(`MessagesSent`), and the sleeps follow the attempts (`Attempts`). That a call
has no more messages than attempts is an injection of its messages into
`1..attempt[c]`.

### What is only model-checked

Everything about time (`CallsEnd`, `StartsTakeEffect`,
`TransactionsEnd`, `UploadsEnd`, `ShutdownEnds`), since the prover handles
neither fairness nor ENABLED. Of most of them the safety is proved that they
rest on: `WaitsAreCycles` for `TransactionsEnd`, `Executor` (in `IInv`) for `UploadsEnd`,
`AnsweredStand` for `StartsTakeEffect`, `ClosingWaitsForNobody` for `ShutdownEnds`,
`Spent` for `CallsEnd`. Every other property of a passing run is a theorem.

`ReadyMeansApproved`, `LostAnnouncementStaysLost`, `AnswersAreNotDropped`,
`CompletedIsFinal`, `AnsweredStartsStand`, `LaterStartsAreRefused` and the type
invariants are proved and in no run: TLC checks the stronger refinements
`RefinesSubmissionLifecycle` and `RefinesMarking` in place of the two in the middle,
and no run needs a type invariant that is proved for all its instances.

## Plan

What could follow, in order of weight:

1. A composition of review, participation and set-up over the one status column,
   with the assessments' `completed` that agents set: today each module takes the
   others' writes as any status of `AgentStatuses`, which is more than happens.
2. The refinements end to end: that `ApprovalTransaction`, preceded by the reads,
   implements `ReviewDecision`, from `StepsRefine` and `Refinement`.
3. An abstract executor for `Materials` and an abstract process for
   `ServiceProcess`, with their refinements proved.
4. An abstract `Scoreboard` for `Evaluation`, should the code choose one row of
   several.

## Not modelled

- `grpc/interceptor.py` logs each call and keeps nothing.
- Configuration and constants are read once; the constants appear as the status
  values of the modules.
- The wire format and the schema: protobuf code is generated, the constraints
  of `ddl.sql` are in the modules where a statement meets them.
- Routes and methods that only read (`GET` of assessments, participants,
  submissions, reports, `GetGroupMemberSubmissions`, the probes) have no state; a read
  that a later write depends on is part of its handler.
- `distribute_reports` reads, logs and answers: its body is a TODO.
- `download_file` of `storage.py` has no caller.
- `UpdateMaterialValidation`, which no rpc reaches, and `validation-status`, which reads
  what it would write.
- Other users of the default executor, such as `getaddrinfo` of a new
  connection: `Materials` has the uploads and the publications.
- What keeps a report to the evaluation it is of: `create_report` inserts the
  ids it is sent. In `Evaluation` the reporting agent sends ids it was answered.
- Duplicate rows of a repeated `UploadWebResearchMaterials`: `Materials` has them,
  and no text, hence no property, forbids them.
- The signed participant token is a placeholder in the code
  (`_extract_participant_from_token`) and taken as the participant it names.
