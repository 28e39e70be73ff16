------------------------ MODULE SubmissionLifecycle ------------------------
(***************************************************************************)
(* What a participant's submission promises, without the requests that     *)
(* make it: it is opened once; each hand-in adds answers or replaces some  *)
(* and drops none, and makes it submitted in the same step; a submitted    *)
(* one is never opened again; and the evaluator is told of it only then.   *)
(***************************************************************************)
CONSTANTS Participants, Questions, Contents,
          NULL       \* no submission, or no answer

VARIABLES stage,     \* NULL, "in_progress" or "submitted"
          answers,   \* the answer to each question
          told       \* participants the evaluator has been told of

lifecycleVars == <<stage, answers, told>>

Init == /\ stage = [p \in Participants |-> NULL]
        /\ answers = [p \in Participants |-> [q \in Questions |-> NULL]]
        /\ told = {}

Open(p) == /\ stage[p] = NULL
           /\ stage' = [stage EXCEPT ![p] = "in_progress"]
           /\ UNCHANGED <<answers, told>>

Kept(old, new) == \A q \in Questions : old[q] # NULL => new[q] # NULL

HandIn(p) == /\ stage[p] # NULL
             /\ stage' = [stage EXCEPT ![p] = "submitted"]
             /\ \E new \in [Questions -> Contents \cup {NULL}] :
                  /\ Kept(answers[p], new)
                  /\ \E q \in Questions : new[q] # NULL
                  /\ answers' = [answers EXCEPT ![p] = new]
             /\ UNCHANGED told

Tell(p) == /\ stage[p] = "submitted"
           /\ told' = told \cup {p}
           /\ UNCHANGED <<stage, answers>>

Next == \E p \in Participants : Open(p) \/ HandIn(p) \/ Tell(p)

Spec == Init /\ [][Next]_lifecycleVars
=============================================================================
