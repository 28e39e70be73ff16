------------------------------ MODULE Marking ------------------------------
(***************************************************************************)
(* What the evaluation of the participants promises, without the calls     *)
(* that make it: an evaluation is opened for one participant in one        *)
(* workflow, is given all its marks at once and never again, and a report  *)
(* is filed on an evaluation of its own participant and workflow.          *)
(***************************************************************************)
CONSTANTS Workflows, Participants, Questions, Scores,
          Evaluations, \* their ids
          Reports,     \* their ids
          NULL         \* no evaluation, no report, or no mark

VARIABLES opened,      \* whose each evaluation is, and in which workflow
          marks,       \* its marks, NULL until they are given
          filed        \* the evaluation each report is on

markingVars == <<opened, marks, filed>>

Subjects == [workflow : Workflows, participant : Participants]

Init == /\ opened = [e \in Evaluations |-> NULL]
        /\ marks = [e \in Evaluations |-> NULL]
        /\ filed = [r \in Reports |-> NULL]

Open(e) == /\ opened[e] = NULL
           /\ \E subject \in Subjects : opened' = [opened EXCEPT ![e] = subject]
           /\ UNCHANGED <<marks, filed>>

Mark(e) == /\ opened[e] \in Subjects
           /\ marks[e] = NULL
           /\ \E given \in [Questions -> Scores \cup {NULL}] :
                /\ \E q \in Questions : given[q] # NULL
                /\ marks' = [marks EXCEPT ![e] = given]
           /\ UNCHANGED <<opened, filed>>

File(r) == /\ filed[r] = NULL
           /\ \E e \in Evaluations :
                /\ opened[e] \in Subjects
                /\ filed' = [filed EXCEPT ![r] = [on |-> e, of |-> opened[e]]]
           /\ UNCHANGED <<opened, marks>>

Next == \/ \E e \in Evaluations : Open(e) \/ Mark(e)
        \/ \E r \in Reports : File(r)

Spec == Init /\ [][Next]_markingVars
=============================================================================
