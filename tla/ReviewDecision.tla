--------------------------- MODULE ReviewDecision ---------------------------
(***************************************************************************)
(* What the human review of one assessment promises, without the steps it  *)
(* takes: at most one decision is ever made, it keeps at least one         *)
(* question, it never changes, and it is announced at most once, after it  *)
(* was made.                                                               *)
(***************************************************************************)
CONSTANTS Questions,   \* the generated questions
          Undecided    \* stands for "no decision yet"

VARIABLES decision,    \* Undecided, or the kept and the rejected questions
          announced    \* the approval event was published

decisionVars == <<decision, announced>>

Decisions == [kept : (SUBSET Questions) \ {{}}, rejected : SUBSET Questions]

Init == decision = Undecided /\ announced = FALSE

Decide == /\ decision = Undecided
          /\ \E d \in Decisions : /\ d.kept \cap d.rejected = {}
                                  /\ decision' = d
          /\ UNCHANGED announced

Announce == /\ decision \in Decisions
            /\ ~announced
            /\ announced' = TRUE
            /\ UNCHANGED decision

Next == Decide \/ Announce

Spec == Init /\ [][Next]_decisionVars
=============================================================================
