---------------------------- MODULE Publication ----------------------------
(***************************************************************************)
(* What a handler may expect of "await pubsub.publish_...": if it returns, *)
(* the topic has stored the event; if it raises, nothing is known, and the *)
(* event may even be stored afterwards.  QuestionReview, WorkflowStart and *)
(* Participation publish in one step that allows these outcomes.           *)
(***************************************************************************)
CONSTANT Calls

VARIABLES outcome,  \* how far each call is
          stored    \* calls whose event the topic has stored

publicationVars == <<outcome, stored>>

Init == /\ outcome = [c \in Calls |-> "idle"]
        /\ stored = {}

Begin(c) == /\ outcome[c] = "idle"
            /\ outcome' = [outcome EXCEPT ![c] = "pending"]
            /\ UNCHANGED stored

Store(c) == /\ outcome[c] # "idle"
            /\ stored' = stored \cup {c}
            /\ UNCHANGED outcome

Return(c) == /\ outcome[c] = "pending"
             /\ c \in stored
             /\ outcome' = [outcome EXCEPT ![c] = "returned"]
             /\ UNCHANGED stored

Raise(c) == /\ outcome[c] \in {"idle", "pending"}
            /\ outcome' = [outcome EXCEPT ![c] = "raised"]
            /\ UNCHANGED stored

Next == \E c \in Calls : Begin(c) \/ Store(c) \/ Return(c) \/ Raise(c)

Spec == Init /\ [][Next]_publicationVars
=============================================================================
