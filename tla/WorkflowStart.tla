--------------------------- MODULE WorkflowStart ---------------------------
(***************************************************************************)
(* Starting the workflow of one assessment.  POST .../start tests the      *)
(* draft status it read (routes/external.py), gRPC StartWorkflow tests     *)
(* nothing (grpc/server.py); both then write a fresh workflow id, in a     *)
(* statement of its own, and publish workflow.start.  Each await is a      *)
(* step, and any number of starts may be under way.                        *)
(***************************************************************************)
EXTENDS FiniteSets

CONSTANTS RestStarts,    \* POST /assessments/{id}/start requests
          GrpcStarts,    \* StartWorkflow calls
          AgentStatuses, \* statuses the orchestrator gives the assessment
          NULL           \* SQL's NULL

Starts == RestStarts \cup GrpcStarts

ASSUME NullIsNoStart == NULL \notin Starts

ASSUME StartKindsDiffer == RestStarts \cap GrpcStarts = {}

ASSUME NobodyGoesBackToDraft == "draft" \notin AgentStatuses

VARIABLES status,      \* assessment_configs.status
          workflow_id, \* assessment_configs.workflow_id
          pc,          \* where each start is
          events       \* workflow.start messages handed to Pub/Sub

vars == <<status, workflow_id, pc, events>>

-----------------------------------------------------------------------------
(* The workflow id a start draws (uuid4) is its own, so the start names it.*)
PCs == {"idle", "update", "publish", "ok", "refused", "failed"}

Init == /\ status = "draft"
        /\ workflow_id = NULL
        /\ pc = [r \in Starts |-> "idle"]
        /\ events = {}

Goto(r, label) == pc' = [pc EXCEPT ![r] = label]

(* A start that takes an assessment still in validation for a fresh one.   *)
MayStartInValidation(r) == r \in GrpcStarts \/ status \in {"draft", "material_validation"}

(* A launch and gRPC StartWorkflow test nothing.                            *)
MayStart(r) == r \in GrpcStarts \/ status = "draft"

ReadConfig(r) ==
  /\ pc[r] = "idle"
  /\ Goto(r, IF MayStart(r) THEN "update" ELSE "refused")
  /\ UNCHANGED <<status, workflow_id, events>>

(* The UPDATE has no condition on the status that was read.                *)
UpdateStatus(r) ==
  /\ pc[r] = "update"
  /\ status' = "material_validation"
  /\ workflow_id' = r
  /\ Goto(r, "publish")
  /\ UNCHANGED events

Publish(r) ==
  /\ pc[r] = "publish"
  /\ events' = events \cup {r}
  /\ Goto(r, "ok")
  /\ UNCHANGED <<status, workflow_id>>

(* A publication whose failure is swallowed.                               *)
PublishFailsSilently(r) ==
  /\ pc[r] = "publish"
  /\ Goto(r, "ok")
  /\ UNCHANGED <<status, workflow_id, events>>

(* All attempts raise; the message may have reached the topic all the same *)
(* (Publication).                                                          *)
PublishFails(r) ==
  /\ pc[r] = "publish"
  /\ events' \in {events, events \cup {r}}
  /\ Goto(r, "failed")
  /\ UNCHANGED <<status, workflow_id>>

(* The UPDATE raises or the process stops before it.                       *)
Fail(r) ==
  /\ pc[r] = "update"
  /\ Goto(r, "failed")
  /\ UNCHANGED <<status, workflow_id, events>>

(* UpdateAssessmentStatus: unconditional.  The orchestrator knows the      *)
(* workflow ids it received workflow.start for, and no others.  It reaches *)
(* the handler only once submission.proto declares the rpc.                *)
UpdateAssessmentStatus(st, w) ==
  /\ status' = st
  /\ workflow_id' = IF w = NULL THEN workflow_id ELSE w
  /\ UNCHANGED <<pc, events>>

Continue(r) == UpdateStatus(r) \/ Publish(r) \/ PublishFails(r)

(* An agent knows an assessment from its first workflow.start on.          *)
AgentStep == /\ events # {}
             /\ \E st \in AgentStatuses, w \in events \cup {NULL} :
                  UpdateAssessmentStatus(st, w)

Next == \/ \E r \in Starts : ReadConfig(r) \/ Continue(r) \/ Fail(r)
        \/ AgentStep

Spec == Init /\ [][Next]_vars

-----------------------------------------------------------------------------
Terminated == {"ok", "refused", "failed"}

(* Every variable keeps its type.                                          *)
TypeOK == /\ status \in AgentStatuses \cup {"draft", "material_validation"}
          /\ workflow_id \in Starts \cup {NULL}
          /\ pc \in [Starts -> PCs]
          /\ events \subseteq Starts

(* Whichever start wrote last, the workflow the assessment points to was   *)
(* announced, or is about to be, or its caller was answered an error.      *)
CurrentWorkflowIsAnnounced ==
  workflow_id # NULL =>
    workflow_id \in events \/ pc[workflow_id] \in {"publish", "failed"}

(* A start is lost when the assessment has left draft, no workflow.start   *)
(* is out and no REST start is under way.                                  *)
StartIsLost == /\ workflow_id # NULL
               /\ events = {}
               /\ \A r \in RestStarts : pc[r] \in Terminated \cup {"idle"}

(* From then on no REST start announces a workflow, however often it is    *)
(* tried: a failed publication is repaired by a start that tests nothing.  *)
OnlyGrpcRepairsALostStart == [](StartIsLost => [](events \subseteq GrpcStarts))

(* A start that went through the draft test is answered; and a start that  *)
(* is answered ok leaves an announced workflow behind for good.            *)
StartsTakeEffect ==
  \A r \in Starts :
    pc[r] = "update" ~> \/ pc[r] = "failed"
                        \/ pc[r] = "ok" /\ r \in events /\ status # "draft"

(* Its safety, whatever the fairness: a start answered ok was announced,   *)
(* and nobody has taken the assessment back to draft.                      *)
AnsweredStartsStand ==
  \A r \in Starts : pc[r] = "ok" => r \in events /\ status # "draft"

(* What the draft test does achieve (reference/test.md:255): a REST start  *)
(* that reads the row after any start has written it goes no further.      *)
LaterStartsAreRefused ==
  [][\A r \in RestStarts :
       workflow_id # NULL /\ pc[r] = "idle" => pc'[r] \in {"idle", "refused"}]_vars

(* "Start again -> 400 (status is no longer "draft")" (reference/test.md): *)
(* one start of an assessment succeeds.                                    *)
SecondStartIsRefused ==
  \A r, s \in RestStarts : pc[r] = "ok" /\ pc[s] = "ok" => r = s
=============================================================================
