--------------------------- MODULE AssessmentSetup ---------------------------
(***************************************************************************)
(* POST /assessments and POST /assessments/launch (routes/external.py):    *)
(* the configuration, the participants, each group, each member, each      *)
(* material and the rubric are committed one after the other, and a launch *)
(* ends with a start that tests no status.  The draft is listed as soon as *)
(* it is inserted, so the starts of WorkflowStart may run from then on.    *)
(***************************************************************************)
EXTENDS WorkflowStart

CONSTANTS Launch,      \* the launch as one of the starts without draft test
          Emails,      \* the participants requested
          Groups,      \* the groups requested
          Memberships, \* pairs of a group and an email, known or not
          Files,       \* the material files of a launch
          HasRubric    \* whether it has a rubric

ASSUME LaunchTestsNothing == Launch \in GrpcStarts

ASSUME RubricIsGivenOrNot == HasRubric \in BOOLEAN

ASSUME MembersAreOfGroups == \A m \in Memberships : m[1] \in Groups

VARIABLES stage,        \* where the request is
          isLaunch,     \* which of the two requests it is
          participants, \* assessment_participants rows
          groups,       \* participant_groups rows
          handled,      \* the memberships the loop has gone through
          members,      \* participant_group_members rows
          blobs,        \* files stored, the rubric among them
          materials,    \* assessment_materials rows
          rubrics       \* assessment_rubrics rows

startVars == <<status, workflow_id, pc, events>>
groupVars == <<groups, handled, members>>
fileVars == <<blobs, materials, rubrics>>
setupVars == <<stage, isLaunch, participants, groupVars, fileVars>>
allVars == <<startVars, setupVars>>

-----------------------------------------------------------------------------
Stages == {"config", "participants", "groups", "materials", "rubric", "start",
           "done", "failed"}

SetupInit == /\ Init
             /\ stage = "config"
             /\ isLaunch \in BOOLEAN
             /\ participants = {}
             /\ groups = {} /\ handled = {} /\ members = {}
             /\ blobs = {} /\ materials = {} /\ rubrics = {}

(* A launch that inserts the row as already started.                       *)
CreateStartedConfig ==
  /\ stage = "config"
  /\ stage' = "participants"
  /\ status' = IF isLaunch THEN "material_validation" ELSE status
  /\ UNCHANGED <<workflow_id, pc, events, isLaunch, participants, groupVars, fileVars>>

CreateAssessmentConfig ==
  /\ stage = "config"
  /\ stage' = "participants"
  /\ UNCHANGED <<startVars, isLaunch, participants, groupVars, fileVars>>

(* One transaction, ON CONFLICT DO NOTHING.                                *)
AddParticipants ==
  /\ stage = "participants"
  /\ participants' = Emails
  /\ stage' = "groups"
  /\ UNCHANGED <<startVars, isLaunch, groupVars, fileVars>>

MembersOf(g) == {m \in Memberships : m[1] = g}

(* A group is created when the members of those before it are in.          *)
CreateGroup(g) ==
  /\ stage = "groups"
  /\ g \in Groups \ groups
  /\ \A h \in groups : MembersOf(h) \subseteq handled
  /\ groups' = groups \cup {g}
  /\ UNCHANGED <<startVars, stage, isLaunch, participants, handled, members, fileVars>>

(* An email that is no participant's is passed over.                       *)
AddGroupMember(m) ==
  /\ stage = "groups"
  /\ m \in Memberships \ handled
  /\ m[1] \in groups
  /\ handled' = handled \cup {m}
  /\ members' = IF m[2] \in participants THEN members \cup {m} ELSE members
  /\ UNCHANGED <<startVars, stage, isLaunch, participants, groups, fileVars>>

(* A loop over the groups that ends with the last group, not its members.  *)
GroupsDoneEarly ==
  /\ stage = "groups"
  /\ groups = Groups
  /\ stage' = IF isLaunch THEN "materials" ELSE "done"
  /\ UNCHANGED <<startVars, isLaunch, participants, groupVars, fileVars>>

GroupsDone ==
  /\ stage = "groups"
  /\ groups = Groups /\ handled = Memberships
  /\ stage' = IF isLaunch THEN "materials" ELSE "done"
  /\ UNCHANGED <<startVars, isLaunch, participants, groupVars, fileVars>>

(* One file at a time: the blob, then the row.                             *)
StoreBlob(f) ==
  /\ stage = "materials" /\ f \in Files \ blobs
  /\ blobs \subseteq materials
  /\ blobs' = blobs \cup {f}
  /\ UNCHANGED <<startVars, stage, isLaunch, participants, groupVars, materials, rubrics>>

AddMaterial(f) ==
  /\ stage = "materials" /\ f \in blobs \ materials
  /\ materials' = materials \cup {f}
  /\ UNCHANGED <<startVars, stage, isLaunch, participants, groupVars, blobs, rubrics>>

MaterialsDone ==
  /\ stage = "materials" /\ materials = Files
  /\ stage' = IF HasRubric THEN "rubric" ELSE "start"
  /\ UNCHANGED <<startVars, isLaunch, participants, groupVars, fileVars>>

StoreRubric ==
  /\ stage = "rubric" /\ "rubric" \notin blobs
  /\ blobs' = blobs \cup {"rubric"}
  /\ UNCHANGED <<startVars, stage, isLaunch, participants, groupVars, materials, rubrics>>

AddRubric ==
  /\ stage = "rubric" /\ "rubric" \in blobs
  /\ rubrics' = {"rubric"}
  /\ stage' = "start"
  /\ UNCHANGED <<startVars, isLaunch, participants, groupVars, blobs, materials>>

(* The launch goes on as a start of WorkflowStart does.                    *)
StartWorkflow ==
  /\ stage = "start"
  /\ ReadConfig(Launch)
  /\ stage' = "done"
  /\ UNCHANGED <<isLaunch, participants, groupVars, fileVars>>

(* A file whose upload fails is passed over.                               *)
SkipOnFailure ==
  /\ stage \in Stages \ {"start", "done", "failed"}
  /\ stage' = CASE stage = "materials" -> "start"
                [] OTHER -> "failed"
  /\ UNCHANGED <<startVars, isLaunch, participants, groupVars, fileVars>>

(* A statement or an upload raises: what was committed stays.              *)
SetupFails ==
  /\ stage \in Stages \ {"start", "done", "failed"}
  /\ stage' = "failed"
  /\ UNCHANGED <<startVars, isLaunch, participants, groupVars, fileVars>>

(* The other starts know the assessment once it is inserted.               *)
OtherStart(r) ==
  /\ r # Launch /\ stage # "config"
  /\ ReadConfig(r)
  /\ UNCHANGED setupVars

SetupStep ==
  \/ CreateAssessmentConfig \/ AddParticipants
  \/ \E g \in Groups : CreateGroup(g)
  \/ \E m \in Memberships : AddGroupMember(m)
  \/ GroupsDone
  \/ \E f \in Files : StoreBlob(f) \/ AddMaterial(f)
  \/ MaterialsDone \/ StoreRubric \/ AddRubric \/ StartWorkflow

SetupNext ==
  \/ SetupStep \/ SetupFails
  \/ \E r \in Starts : OtherStart(r)
  \/ \E r \in Starts : (Continue(r) \/ Fail(r)) /\ UNCHANGED setupVars
  \/ AgentStep /\ UNCHANGED setupVars

SetupSpec == SetupInit /\ [][SetupNext]_allVars

FairSetup == /\ SetupSpec
             /\ WF_allVars(SetupStep)
             /\ \A r \in Starts : WF_allVars(Continue(r) /\ UNCHANGED setupVars)

-----------------------------------------------------------------------------
(* Every variable keeps its type.                                          *)
SetupTypeOK ==
  /\ TypeOK
  /\ stage \in Stages /\ isLaunch \in BOOLEAN
  /\ participants \subseteq Emails
  /\ groups \subseteq Groups
  /\ members \subseteq handled /\ handled \subseteq Memberships
  /\ materials \subseteq blobs \cap Files /\ rubrics \subseteq blobs \cap {"rubric"}
  /\ blobs \subseteq Files \cup {"rubric"}

(* An answered request has committed all it was asked for, and a launch    *)
(* that leaves draft, or tells an agent, has done so before: the failures  *)
(* in between leave a draft that this request never starts.                *)
LaunchedIsComplete ==
  stage = "done" \/ workflow_id = Launch \/ Launch \in events =>
    /\ participants = Emails
    /\ groups = Groups
    /\ members = {m \in Memberships : m[2] \in Emails}
    /\ isLaunch => materials = Files /\ (HasRubric <=> rubrics # {})

(* Whatever a request sets up, and however it fails on the way, the status *)
(* and the workflow of its assessment change as those of an assessment     *)
(* that is only started do: what WorkflowStart says of its starts is true  *)
(* of a launch and of the starts that overtake it.                         *)
StartsAsIfAlone == Spec
=============================================================================
