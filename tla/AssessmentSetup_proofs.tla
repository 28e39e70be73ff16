----------------------- MODULE AssessmentSetup_proofs -----------------------
(***************************************************************************)
(* Proofs about AssessmentSetup, and with it about the starts of           *)
(* WorkflowStart, for any participants, groups, files and starts.          *)
(***************************************************************************)
EXTENDS AssessmentSetup, TLAPS

USE NullIsNoStart, StartKindsDiffer, NobodyGoesBackToDraft, LaunchTestsNothing,
    RubricIsGivenOrNot

StartTypes == /\ pc \in [Starts -> PCs]
              /\ events \subseteq Starts
              /\ workflow_id \in Starts \cup {NULL}

(* A workflow id is there once its start has written it, and the first one *)
(* takes the assessment out of draft for good.                             *)
Announcements ==
  /\ CurrentWorkflowIsAnnounced
  /\ \A r \in Starts : workflow_id = r \/ r \in events => pc[r] # "idle"
  /\ \A r \in Starts : r \in events \/ pc[r] = "publish" => workflow_id # NULL
  /\ workflow_id # NULL => status # "draft"

(* What the request has committed when it reaches a stage.                 *)
Committed ==
  /\ stage \in {"groups", "materials", "rubric", "start", "done"} =>
       /\ participants = Emails
       /\ members = {m \in handled : m[2] \in Emails}
       /\ groups \subseteq Groups /\ handled \subseteq Memberships
  /\ stage \in {"materials", "rubric", "start", "done"} =>
       groups = Groups /\ handled = Memberships
  /\ stage \in {"config", "participants"} => groups = {} /\ handled = {} /\ members = {}
  /\ stage \in {"materials", "rubric", "start"} => isLaunch
  /\ stage = "rubric" => HasRubric
  /\ materials \subseteq Files
  /\ stage \in {"rubric", "start", "done"} /\ isLaunch => materials = Files
  /\ stage \notin {"start", "done", "failed"} => rubrics = {}
  /\ stage \in {"start", "done"} /\ isLaunch => (HasRubric <=> rubrics # {})
  /\ rubrics \subseteq {"rubric"}

IInv == /\ StartTypes /\ Announcements
        /\ stage \in Stages
        /\ stage # "done" => pc[Launch] = "idle"
        /\ Committed

-----------------------------------------------------------------------------
LEMMA InductiveInit == SetupInit => IInv
<1> SUFFICES ASSUME SetupInit PROVE IInv
  OBVIOUS
<1>1. Launch \in Starts
  BY DEF Starts
<1>2. StartTypes /\ pc[Launch] = "idle"
  BY <1>1 DEF SetupInit, Init, StartTypes, PCs
<1>3. Announcements
  BY DEF SetupInit, Init, Announcements, CurrentWorkflowIsAnnounced
<1>4. Committed
  BY DEF SetupInit, Committed
<1> QED
  BY <1>2, <1>3, <1>4 DEF IInv, SetupInit, Stages

(* The steps of one start and of the agents, those of WorkflowStart.       *)
LEMMA StartStep ==
  ASSUME StartTypes, Announcements,
         \/ \E r \in Starts : ReadConfig(r) \/ Continue(r) \/ Fail(r)
         \/ AgentStep
  PROVE  /\ StartTypes' /\ Announcements'
         /\ events \subseteq events'
         /\ \A r \in Starts : pc[r] # "idle" => pc'[r] # "idle"
<1> USE DEF StartTypes, Announcements, CurrentWorkflowIsAnnounced
<1>1. ASSUME NEW r \in Starts, ReadConfig(r) \/ Fail(r)
      PROVE  /\ StartTypes' /\ Announcements' /\ events \subseteq events'
             /\ \A s \in Starts : pc[s] # "idle" => pc'[s] # "idle"
  <2>1. /\ UNCHANGED <<status, workflow_id, events>>
        /\ pc[r] \in {"idle", "update"}
        /\ \E label \in {"update", "refused", "failed"} : pc' = [pc EXCEPT ![r] = label]
    BY <1>1 DEF ReadConfig, Fail, Goto
  <2> QED
    BY <2>1 DEF PCs
<1>2. ASSUME NEW r \in Starts, UpdateStatus(r)
      PROVE  /\ StartTypes' /\ Announcements' /\ events \subseteq events'
             /\ \A s \in Starts : pc[s] # "idle" => pc'[s] # "idle"
  BY <1>2 DEF UpdateStatus, Goto, PCs
<1>3. ASSUME NEW r \in Starts, Publish(r) \/ PublishFails(r)
      PROVE  /\ StartTypes' /\ Announcements' /\ events \subseteq events'
             /\ \A s \in Starts : pc[s] # "idle" => pc'[s] # "idle"
  <2>1. /\ UNCHANGED <<status, workflow_id>> /\ pc[r] = "publish"
        /\ \/ pc' = [pc EXCEPT ![r] = "ok"] /\ events' = events \cup {r}
           \/ pc' = [pc EXCEPT ![r] = "failed"] /\ events' \in {events, events \cup {r}}
    BY <1>3 DEF Publish, PublishFails, Goto
  <2> QED
    BY <2>1 DEF PCs
<1>4. CASE AgentStep
  BY <1>4 DEF AgentStep, UpdateAssessmentStatus
<1> QED
  BY <1>1, <1>2, <1>3, <1>4 DEF Continue

(* The steps of the request itself.                                        *)
LEMMA RequestStep ==
  ASSUME IInv,
         \/ CreateAssessmentConfig \/ AddParticipants
         \/ \E g \in Groups : CreateGroup(g)
         \/ \E m \in Memberships : AddGroupMember(m)
         \/ GroupsDone
         \/ \E f \in Files : StoreBlob(f) \/ AddMaterial(f)
         \/ MaterialsDone \/ StoreRubric \/ AddRubric \/ SetupFails
  PROVE  IInv'
<1> USE DEF IInv
<1>1. UNCHANGED startVars
  BY DEF CreateAssessmentConfig, AddParticipants, CreateGroup, AddGroupMember,
     GroupsDone, StoreBlob, AddMaterial, MaterialsDone, StoreRubric, AddRubric, SetupFails
<1>2. StartTypes' /\ Announcements'
  BY <1>1 DEF StartTypes, Announcements, CurrentWorkflowIsAnnounced, startVars
<1>3. stage' \in Stages
  BY DEF CreateAssessmentConfig, AddParticipants, CreateGroup, AddGroupMember,
     GroupsDone, StoreBlob, AddMaterial, MaterialsDone, StoreRubric, AddRubric,
     SetupFails, Stages
<1>4. stage # "done"
  BY DEF CreateAssessmentConfig, AddParticipants, CreateGroup, AddGroupMember,
     GroupsDone, StoreBlob, AddMaterial, MaterialsDone, StoreRubric, AddRubric, SetupFails
<1>5. pc'[Launch] = "idle"
  BY <1>1, <1>4 DEF startVars
<1>6. Committed'
  <2> USE DEF Committed, fileVars, groupVars
  <2>1. CASE CreateAssessmentConfig \/ SetupFails
    BY <2>1 DEF CreateAssessmentConfig, SetupFails
  <2>2. CASE AddParticipants
    BY <2>2 DEF AddParticipants
  <2>3. ASSUME NEW g \in Groups, CreateGroup(g)
        PROVE  Committed'
    BY <2>3 DEF CreateGroup
  <2>4. ASSUME NEW m \in Memberships, AddGroupMember(m)
        PROVE  Committed'
    BY <2>4 DEF AddGroupMember
  <2>5. CASE GroupsDone
    BY <2>5 DEF GroupsDone
  <2>6. ASSUME NEW f \in Files, StoreBlob(f) \/ AddMaterial(f)
        PROVE  Committed'
    BY <2>6 DEF StoreBlob, AddMaterial
  <2>7. CASE MaterialsDone
    BY <2>7 DEF MaterialsDone
  <2>8. CASE StoreRubric \/ AddRubric
    BY <2>8 DEF StoreRubric, AddRubric
  <2> QED
    BY <2>1, <2>2, <2>3, <2>4, <2>5, <2>6, <2>7, <2>8
<1> QED
  BY <1>2, <1>3, <1>5, <1>6

LEMMA InductiveStep ==
  ASSUME IInv, [SetupNext]_allVars
  PROVE  IInv'
<1> USE DEF IInv
<1>0. Launch \in Starts
  BY DEF Starts
<1>1. CASE UNCHANGED allVars
  BY <1>1 DEF allVars, startVars, setupVars, groupVars, fileVars, StartTypes,
     Announcements, CurrentWorkflowIsAnnounced, Committed
<1>2. CASE StartWorkflow
  <2>1. StartTypes' /\ Announcements'
    BY <1>0, <1>2, StartStep DEF StartWorkflow
  <2>2. stage' = "done" /\ Committed'
    BY <1>2 DEF StartWorkflow, Committed, groupVars, fileVars
  <2> QED
    BY <2>1, <2>2 DEF Stages
<1>3. ASSUME UNCHANGED setupVars, StartTypes', Announcements',
             stage # "done" => pc'[Launch] = "idle"
      PROVE  IInv'
  BY <1>3 DEF setupVars, groupVars, fileVars, Committed
<1>4. ASSUME NEW r \in Starts, OtherStart(r)
      PROVE  IInv'
  <2>1. StartTypes' /\ Announcements'
    BY <1>4, StartStep DEF OtherStart
  <2>2. pc'[Launch] = pc[Launch]
    BY <1>0, <1>4 DEF OtherStart, ReadConfig, Goto, StartTypes
  <2> QED
    BY <1>3, <1>4, <2>1, <2>2 DEF OtherStart
<1>5. ASSUME NEW r \in Starts, (Continue(r) \/ Fail(r)) /\ UNCHANGED setupVars
      PROVE  IInv'
  <2>1. StartTypes' /\ Announcements'
    BY <1>5, StartStep
  <2>2. stage # "done" => r # Launch
    BY <1>5 DEF Continue, Fail, UpdateStatus, Publish, PublishFails
  <2>3. stage # "done" => pc'[Launch] = pc[Launch]
    BY <1>0, <1>5, <2>2 DEF Continue, Fail, UpdateStatus, Publish, PublishFails,
       Goto, StartTypes
  <2> QED
    BY <1>3, <1>5, <2>1, <2>3
<1>6. CASE AgentStep /\ UNCHANGED setupVars
  <2>1. StartTypes' /\ Announcements'
    BY <1>6, StartStep
  <2>2. pc' = pc
    BY <1>6 DEF AgentStep, UpdateAssessmentStatus
  <2> QED
    BY <1>3, <1>6, <2>1, <2>2
<1> QED
  BY <1>1, <1>2, <1>4, <1>5, <1>6, RequestStep DEF SetupNext, SetupStep

LEMMA Inductive == SetupSpec => []IInv
  BY InductiveInit, InductiveStep, PTL DEF SetupSpec

(* A step of the set-up is a step of a start, of an agent, or none of      *)
(* theirs.                                                                 *)
LEMMA StepOfTheStarts ==
  ASSUME [SetupNext]_allVars
  PROVE  \/ UNCHANGED startVars
         \/ \E r \in Starts : ReadConfig(r) \/ Continue(r) \/ Fail(r)
         \/ AgentStep
<1>1. Launch \in Starts
  BY DEF Starts
<1> QED
  BY <1>1 DEF SetupNext, SetupStep, CreateAssessmentConfig, AddParticipants,
     CreateGroup, AddGroupMember, GroupsDone, StoreBlob, AddMaterial,
     MaterialsDone, StoreRubric, AddRubric, SetupFails, StartWorkflow,
     OtherStart, allVars

-----------------------------------------------------------------------------
(* The assessment's own columns and the starts keep their types.           *)
LEMMA StartTypeStep ==
  ASSUME TypeOK, [SetupNext]_allVars
  PROVE  TypeOK'
<1> USE DEF TypeOK
<1>1. CASE UNCHANGED startVars
  BY <1>1 DEF startVars
<1>2. ASSUME NEW r \in Starts, ReadConfig(r) \/ Fail(r)
      PROVE  TypeOK'
  <2>1. \E label \in PCs : pc' = [pc EXCEPT ![r] = label]
    BY <1>2 DEF ReadConfig, Fail, Goto, PCs
  <2> QED
    BY <1>2, <2>1 DEF ReadConfig, Fail
<1>3. ASSUME NEW r \in Starts, Continue(r)
      PROVE  TypeOK'
  <2>1. \E label \in PCs : pc' = [pc EXCEPT ![r] = label]
    BY <1>3 DEF Continue, UpdateStatus, Publish, PublishFails, Goto, PCs
  <2> QED
    BY <1>3, <2>1 DEF Continue, UpdateStatus, Publish, PublishFails
<1>4. CASE AgentStep
  BY <1>4 DEF AgentStep, UpdateAssessmentStatus
<1> QED
  BY <1>1, <1>2, <1>3, <1>4, StepOfTheStarts

(* What the request commits is part of what it was asked for.              *)
LEMMA SetupTypeStep ==
  ASSUME SetupTypeOK, [SetupNext]_allVars
  PROVE  SetupTypeOK'
<1> USE DEF SetupTypeOK
<1>1. TypeOK'
  BY StartTypeStep
<1>2. CASE UNCHANGED setupVars
  BY <1>1, <1>2 DEF setupVars, groupVars, fileVars
<1>3. CASE \/ CreateAssessmentConfig \/ AddParticipants \/ GroupsDone \/ MaterialsDone
           \/ StartWorkflow \/ SetupFails
  BY <1>1, <1>3 DEF CreateAssessmentConfig, AddParticipants, GroupsDone, MaterialsDone,
     StartWorkflow, SetupFails, Stages, groupVars, fileVars
<1>4. ASSUME NEW g \in Groups, CreateGroup(g)
      PROVE  SetupTypeOK'
  BY <1>1, <1>4 DEF CreateGroup, fileVars
<1>5. ASSUME NEW m \in Memberships, AddGroupMember(m)
      PROVE  SetupTypeOK'
  BY <1>1, <1>5 DEF AddGroupMember, fileVars
<1>6. ASSUME NEW f \in Files, StoreBlob(f) \/ AddMaterial(f)
      PROVE  SetupTypeOK'
  BY <1>1, <1>6 DEF StoreBlob, AddMaterial, groupVars
<1>7. CASE StoreRubric \/ AddRubric
  BY <1>1, <1>7 DEF StoreRubric, AddRubric, Stages, groupVars
<1> QED
  BY <1>2, <1>3, <1>4, <1>5, <1>6, <1>7 DEF SetupNext, SetupStep, OtherStart, allVars

(* Every variable of the set-up keeps its type: no row without its blob,   *)
(* and no member that the loop has not gone through.                       *)
THEOREM SetupTypeCorrect == SetupSpec => []SetupTypeOK
<1>1. SetupInit => SetupTypeOK
  BY DEF SetupInit, Init, SetupTypeOK, TypeOK, Stages, PCs
<1> QED
  BY <1>1, SetupTypeStep, PTL DEF SetupSpec

(* A set-up implements WorkflowStart: what it does to the status, to the   *)
(* workflow and to the topic is done by a start or an agent of that module.*)
THEOREM SetupImplementsStart == SetupSpec => StartsAsIfAlone
<1>1. SetupInit => Init
  BY DEF SetupInit
<1>2. [SetupNext]_allVars => [Next]_vars
  BY StepOfTheStarts DEF Next, vars, startVars
<1> QED
  BY <1>1, <1>2, PTL DEF SetupSpec, Spec, StartsAsIfAlone

-----------------------------------------------------------------------------
(* Of concurrent starts and a launch, the one whose workflow id stays has  *)
(* told the agents, is about to, or was answered an error.                 *)
THEOREM CurrentIsAnnounced == SetupSpec => []CurrentWorkflowIsAnnounced
<1>1. IInv => CurrentWorkflowIsAnnounced
  BY DEF IInv, Announcements
<1> QED
  BY Inductive, <1>1, PTL

(* A start is answered ok after its publication, and no agent gives an     *)
(* assessment the status draft: an answered start, a launch among them,    *)
(* has taken effect for good.                                              *)
THEOREM AnsweredStand == SetupSpec => []AnsweredStartsStand
<1> DEFINE Told == \A r \in Starts : pc[r] = "ok" => r \in events
<1>1. SetupInit => Told
  BY DEF SetupInit, Init
<1>2. IInv /\ Told /\ [SetupNext]_allVars => Told'
  <2> SUFFICES ASSUME IInv, Told, [SetupNext]_allVars PROVE Told'
    OBVIOUS
  <2>1. CASE UNCHANGED startVars \/ AgentStep
    BY <2>1 DEF startVars, AgentStep, UpdateAssessmentStatus
  <2>2. ASSUME NEW r \in Starts, ReadConfig(r) \/ UpdateStatus(r) \/ Fail(r)
        PROVE  Told'
    <3>1. /\ UNCHANGED events
          /\ \E label \in {"update", "refused", "publish", "failed"} :
               pc' = [pc EXCEPT ![r] = label]
      BY <2>2 DEF ReadConfig, UpdateStatus, Fail, Goto
    <3> QED
      BY <3>1 DEF IInv, StartTypes
  <2>3. ASSUME NEW r \in Starts, Publish(r) \/ PublishFails(r)
        PROVE  Told'
    BY <2>3 DEF Publish, PublishFails, Goto, IInv, StartTypes
  <2> QED
    BY <2>1, <2>2, <2>3, StepOfTheStarts DEF Continue
<1>3. IInv /\ Told => AnsweredStartsStand
  BY DEF IInv, Announcements, AnsweredStartsStand
<1> QED
  BY <1>1, <1>2, <1>3, Inductive, PTL DEF SetupSpec

(* Once a start has written its workflow the draft test refuses every REST *)
(* start that has not made it yet: only starts that overlap both succeed.  *)
THEOREM LaterStarts == SetupSpec => LaterStartsAreRefused
<1>1. IInv /\ [SetupNext]_allVars =>
        [\A r \in RestStarts :
           workflow_id # NULL /\ pc[r] = "idle" => pc'[r] \in {"idle", "refused"}]_vars
  <2> SUFFICES ASSUME IInv, [SetupNext]_allVars, NEW r \in RestStarts,
                      workflow_id # NULL, pc[r] = "idle"
               PROVE  pc'[r] \in {"idle", "refused"}
    OBVIOUS
  <2>1. r \in Starts /\ ~MayStart(r)
    BY DEF IInv, Announcements, MayStart, Starts
  <2>2. CASE UNCHANGED startVars \/ AgentStep
    BY <2>2 DEF startVars, AgentStep, UpdateAssessmentStatus
  <2>3. ASSUME NEW s \in Starts, ReadConfig(s) \/ Continue(s) \/ Fail(s)
        PROVE  pc'[r] \in {"idle", "refused"}
    BY <2>1, <2>3 DEF ReadConfig, Continue, UpdateStatus, Publish, PublishFails, Fail,
       Goto, IInv, StartTypes
  <2> QED
    BY <2>2, <2>3, StepOfTheStarts
<1> QED
  BY <1>1, Inductive, PTL DEF SetupSpec, LaterStartsAreRefused

(* create_assessment answers, and launch_assessment starts, only after     *)
(* every part has been committed.                                          *)
THEOREM LaunchIsComplete == SetupSpec => []LaunchedIsComplete
<1>1. IInv => LaunchedIsComplete
  <2> SUFFICES ASSUME IInv, stage = "done" \/ workflow_id = Launch \/ Launch \in events
               PROVE  /\ participants = Emails
                      /\ groups = Groups
                      /\ members = {m \in Memberships : m[2] \in Emails}
                      /\ isLaunch => materials = Files /\ (HasRubric <=> rubrics # {})
    BY DEF LaunchedIsComplete
  <2>1. stage = "done"
    BY DEF IInv, Announcements, Starts
  <2> QED
    BY <2>1 DEF IInv, Committed
<1> QED
  BY Inductive, <1>1, PTL

(* The draft test refuses every REST start once a start has been written;  *)
(* those that had passed it are over when a start is lost.                 *)
THEOREM LostStart == SetupSpec => OnlyGrpcRepairsALostStart
<1> DEFINE Lost == /\ workflow_id # NULL
                   /\ events \subseteq GrpcStarts
                   /\ \A r \in RestStarts : pc[r] \in Terminated \cup {"idle"}
<1>1. StartIsLost => Lost
  BY DEF StartIsLost
<1>2. Lost => events \subseteq GrpcStarts
  OBVIOUS
<1>3. IInv /\ Lost /\ [SetupNext]_allVars => Lost'
  <2> SUFFICES ASSUME IInv, Lost, [SetupNext]_allVars PROVE Lost'
    OBVIOUS
  <2>1. status # "draft" /\ \A r \in RestStarts : r \in Starts /\ r \notin GrpcStarts
    BY DEF IInv, Announcements, Starts
  <2>2. CASE UNCHANGED startVars
    BY <2>2 DEF startVars
  <2>3. ASSUME NEW r \in Starts, ReadConfig(r)
        PROVE  Lost'
    <3>1. /\ UNCHANGED <<workflow_id, events>>
          /\ pc' = [pc EXCEPT ![r] = IF MayStart(r) THEN "update" ELSE "refused"]
      BY <2>3 DEF ReadConfig, Goto
    <3>2. r \in RestStarts => ~MayStart(r)
      BY <2>1 DEF MayStart
    <3> QED
      BY <2>1, <3>1, <3>2 DEF IInv, StartTypes, Terminated
  <2>4. ASSUME NEW r \in Starts, Continue(r) \/ Fail(r)
        PROVE  Lost'
    <3>1. r \in GrpcStarts /\ r \notin RestStarts
      BY <2>4 DEF Continue, Fail, UpdateStatus, Publish, PublishFails, Starts, Terminated
    <3>2. \A s \in RestStarts : pc'[s] = pc[s]
      BY <2>1, <2>4, <3>1 DEF Continue, Fail, UpdateStatus, Publish, PublishFails,
         Goto, IInv, StartTypes
    <3>3. workflow_id' # NULL /\ events' \subseteq GrpcStarts
      BY <2>4, <3>1 DEF Continue, Fail, UpdateStatus, Publish, PublishFails
    <3> QED
      BY <3>2, <3>3
  <2>5. CASE AgentStep
    BY <2>5 DEF AgentStep, UpdateAssessmentStatus, IInv, StartTypes
  <2> QED
    BY <2>2, <2>3, <2>4, <2>5, StepOfTheStarts
<1> HIDE DEF Lost
<1>4. IInv /\ Lost /\ [][SetupNext]_allVars /\ []IInv => [](events \subseteq GrpcStarts)
  BY <1>2, <1>3, PTL
<1> QED
  BY Inductive, <1>1, <1>4, PTL DEF SetupSpec, OnlyGrpcRepairsALostStart
=============================================================================
