------------------------ MODULE ApprovalTransaction ------------------------
(***************************************************************************)
(* The transaction of repository.approve_questions, row by row, as         *)
(* PostgreSQL runs it under READ COMMITTED: an UPDATE locks each row it    *)
(* changes until its transaction ends, waits for a row another one has     *)
(* locked, and then tests its condition again; an INSERT waits for an      *)
(* uncommitted row with its key.  Several requests approve the same set    *)
(* while batches are still written to it.  QuestionReview takes two steps  *)
(* for all this; here it is shown that nobody can tell the difference.     *)
(***************************************************************************)
EXTENDS Integers, FiniteSets

CONSTANTS Requests,   \* approve requests, each past its read of the set
          Questions,  \* ids of generated_questions rows of the set
          NULL        \* no transaction

ASSUME NullIsNoRequest == NULL \notin Requests \cup {"s", "w"}

(* Each holds a connection, and max_connections bounds those.              *)
ASSUME RequestsAreFinite == IsFiniteSet(Requests)

VARIABLES
  written,           \* questions whose batch is committed
  wasApproved,       \* generated_questions.was_approved, as committed
  approver,          \* the request whose approved_question_sets row is committed
  approvedQuestions, \* the committed approved_questions rows
  lock,              \* the transaction that has locked each row, or NULL
  inserted,          \* the transaction with an uncommitted row in the index
  pc,                \* the statement each transaction is at
  shown, kept,       \* what each request has read, and its argument
  todo,              \* rows the current UPDATE has not reached
  matched,           \* rows the second UPDATE found NULL when it began
  rejected           \* rows the second UPDATE has changed, not committed

readVars == <<shown, kept>>
tableVars == <<written, wasApproved, approver, approvedQuestions>>
vars == <<tableVars, lock, inserted, pc, readVars, todo, matched, rejected>>

-----------------------------------------------------------------------------
Verdicts == {"unreviewed", "approved", "rejected"}
PCs == {"mark", "reject", "commit", "committed", "rolled_back", "failed"}
Ended == {"committed", "rolled_back", "failed"}
None == [r \in Requests |-> {}]

(* Each request has read the questions there are and keeps some of them.   *)
Init == /\ written \in (SUBSET Questions) \ {{}}
        /\ wasApproved = [q \in Questions |-> "unreviewed"]
        /\ approver = NULL
        /\ approvedQuestions = {}
        /\ lock = [q \in Questions |-> NULL]
        /\ inserted = NULL
        /\ pc = [r \in Requests |-> "mark"]
        /\ shown = [r \in Requests |-> written]
        /\ kept \in [Requests -> (SUBSET written) \ {{}}]
        /\ todo = kept
        /\ matched = None
        /\ rejected = None

Goto(r, label) == pc' = [pc EXCEPT ![r] = label]

(* A batch of the agents' commits.                                         *)
WriteGeneratedQuestions(batch) ==
  /\ batch \cap written = {}
  /\ written' = written \cup batch
  /\ UNCHANGED <<wasApproved, approver, approvedQuestions, lock, inserted, pc,
                 readVars, todo, matched, rejected>>

(* The first UPDATE reaches a row, in any order.                           *)
MarkRow(r, q) ==
  /\ pc[r] = "mark"
  /\ q \in todo[r]
  /\ lock[q] = NULL
  /\ lock' = [lock EXCEPT ![q] = r]
  /\ todo' = [todo EXCEPT ![r] = @ \ {q}]
  /\ UNCHANGED <<tableVars, inserted, pc, readVars, matched, rejected>>

(* The second UPDATE begins: its snapshot holds the committed rows and     *)
(* those of its own transaction.                                           *)
BeginReject(r) ==
  LET open == {q \in written : wasApproved[q] = "unreviewed"} \ kept[r] IN
  /\ pc[r] = "mark"
  /\ todo[r] = {}
  /\ todo' = [todo EXCEPT ![r] = open]
  /\ matched' = [matched EXCEPT ![r] = open]
  /\ Goto(r, "reject")
  /\ UNCHANGED <<tableVars, lock, inserted, readVars, rejected>>

(* It reaches a row, and tests again that it is NULL.                      *)
RejectRow(r, q) ==
  /\ pc[r] = "reject"
  /\ q \in todo[r]
  /\ lock[q] = NULL
  /\ lock' = [lock EXCEPT ![q] = r]
  /\ todo' = [todo EXCEPT ![r] = @ \ {q}]
  /\ rejected' = IF wasApproved[q] = "unreviewed"
                 THEN [rejected EXCEPT ![r] = @ \cup {q}] ELSE rejected
  /\ UNCHANGED <<tableVars, inserted, pc, readVars, matched>>

(* A schema without the constraint.                                        *)
InsertAnyway(r) ==
  /\ pc[r] = "reject"
  /\ todo[r] = {}
  /\ inserted' = r
  /\ Goto(r, "commit")
  /\ UNCHANGED <<tableVars, lock, readVars, todo, matched, rejected>>

(* INSERT INTO approved_question_sets: the key is free.                    *)
InsertSet(r) ==
  /\ pc[r] = "reject"
  /\ todo[r] = {}
  /\ approver = NULL
  /\ inserted = NULL
  /\ inserted' = r
  /\ Goto(r, "commit")
  /\ UNCHANGED <<tableVars, lock, readVars, todo, matched, rejected>>

(* An end of a transaction that frees the key and forgets the rows.        *)
ReleaseTheKey(r) ==
  /\ lock' = lock
  /\ inserted' = IF inserted = r THEN NULL ELSE inserted

Release(r) ==
  /\ lock' = [q \in Questions |-> IF lock[q] = r THEN NULL ELSE lock[q]]
  /\ inserted' = IF inserted = r THEN NULL ELSE inserted

(* The copies, numbered, and the commit of everything.                     *)
Commit(r) ==
  /\ pc[r] = "commit"
  /\ wasApproved' = [q \in Questions |->
       IF q \in kept[r] THEN "approved"
       ELSE IF q \in rejected[r] THEN "rejected" ELSE wasApproved[q]]
  /\ approver' = r
  /\ \E sort \in [kept[r] -> 1..Cardinality(kept[r])] :
       /\ \A p, q \in kept[r] : p # q => sort[p] # sort[q]
       /\ approvedQuestions' =
            {[aqs |-> r, question |-> q, sort_order |-> sort[q]] : q \in kept[r]}
  /\ Release(r)
  /\ Goto(r, "committed")
  /\ UNCHANGED <<written, readVars, todo, matched, rejected>>

(* The transaction ends without a trace.                                   *)
Abort(r, label) ==
  /\ Release(r)
  /\ Goto(r, label)
  /\ UNCHANGED <<tableVars, readVars, todo, matched, rejected>>

(* The key is taken: the INSERT raises.                                    *)
UniqueViolation(r) ==
  /\ pc[r] = "reject"
  /\ todo[r] = {}
  /\ approver # NULL
  /\ Abort(r, "rolled_back")

-----------------------------------------------------------------------------
(* PostgreSQL's deadlock detector.                                         *)

(* The transactions r may be waiting for: an UPDATE waits at the first of  *)
(* its remaining rows, which may be any of them, the INSERT at the key.    *)
MayWaitFor(r) ==
  IF pc[r] \notin {"mark", "reject"} THEN {}
  ELSE IF todo[r] # {} THEN {lock[q] : q \in todo[r]} \ {NULL}
  ELSE IF pc[r] = "reject" THEN {inserted} \ {NULL} ELSE {}

(* Each of the group waits for one of it, and one of it waits for each.    *)
Deadlocked(group) ==
  \A r \in group : /\ MayWaitFor(r) \cap group # {}
                   /\ \E x \in group : r \in MayWaitFor(x)

(* A detector that is switched off.                                        *)
DetectNothing(r) == FALSE /\ Abort(r, "rolled_back")

(* A detector that aborts every transaction it finds waiting in a cycle.   *)
AbortAll(r) ==
  \E group \in SUBSET Requests :
    /\ r \in group /\ Deadlocked(group)
    /\ pc' = [x \in Requests |-> IF x \in group THEN "rolled_back" ELSE pc[x]]
    /\ lock' = [q \in Questions |-> IF lock[q] \in group THEN NULL ELSE lock[q]]
    /\ inserted' = IF inserted \in group THEN NULL ELSE inserted
    /\ UNCHANGED <<tableVars, readVars, todo, matched, rejected>>

DeadlockVictim(r) ==
  /\ \E group \in SUBSET Requests : r \in group /\ Deadlocked(group)
  /\ Abort(r, "rolled_back")

(* A statement raises, or the process stops.                               *)
Fail(r) == pc[r] \notin Ended /\ Abort(r, "failed")

Continue(r) ==
  \/ \E q \in Questions : MarkRow(r, q) \/ RejectRow(r, q)
  \/ BeginReject(r) \/ InsertSet(r) \/ Commit(r)
  \/ UniqueViolation(r) \/ DeadlockVictim(r)

Next == \/ \E batch \in (SUBSET Questions) \ {{}} : WriteGeneratedQuestions(batch)
        \/ \E r \in Requests : Continue(r) \/ Fail(r)

Spec == Init /\ [][Next]_vars

(* A statement whose locks are free proceeds; the detector finds cycles.   *)
FairSpec == Spec /\ \A r \in Requests : WF_vars(Continue(r))

-----------------------------------------------------------------------------
(* When all transactions have ended and none of them failed by itself, one *)
(* is committed: the victims of deadlocks and the losers of the INSERT     *)
(* never take the approval down with them.                                 *)
SomebodyWins ==
  (\A r \in Requests : pc[r] \in {"committed", "rolled_back"}) => approver # NULL

(* When every transaction still under way may be waiting for another one,  *)
(* some of them wait in a cycle: nobody waits for one that is gone or for  *)
(* somebody outside, and what is left the detector resolves.               *)
WaitsEndInACycle ==
  LET running == {r \in Requests : pc[r] \notin Ended} IN
  running # {} /\ (\A r \in running : MayWaitFor(r) # {}) =>
    \E group \in SUBSET running : group # {} /\ Deadlocked(group)

(* Requests that keep different questions block each other (one's kept row *)
(* is one the other rejects); every transaction ends all the same.         *)
TransactionsEnd == \A r \in Requests : <>(pc[r] \in Ended)

(* Where QuestionReview sees a request that is at this statement.          *)
ReviewPc(label) == IF label = "mark" THEN "approve"
                   ELSE IF label \in {"reject", "commit"} THEN "commit"
                   ELSE IF label = "committed" THEN "set_ready" ELSE "failed"

(* What others see of these transactions is what QuestionReview's two      *)
(* steps let them see: RejectOthers is the beginning of the second UPDATE, *)
(* and no lock, wait or new test of a row leaves a trace of its own.       *)
Review == INSTANCE QuestionReview WITH
  Workflows <- {"w"}, QuestionSets <- {"s"}, AgentStatuses <- {}, Times <- {0},
  status <- "draft", workflow_id <- "w",
  setOrder <- <<"s">>, setWorkflow <- [s \in {"s"} |-> "w"],
  setStatus <- [s \in {"s"} |-> IF approver = NULL THEN "generated" ELSE "approved"],
  questionSet <- [q \in Questions |-> IF q \in written THEN "s" ELSE NULL],
  createdAt <- [q \in Questions |-> 0],
  approvedSets <- IF approver = NULL THEN {} ELSE {[id |-> approver, set |-> "s"]},
  pc <- [r \in Requests |-> ReviewPc(pc[r])],
  request <- [r \in Requests |->
                [workflow |-> "w", set |-> "s", removed |-> shown[r] \ kept[r],
                 shown |-> shown[r], kept |-> kept[r], rejected |-> matched[r]]],
  events <- {}
StepsOfTheReview == [][Review!Next]_(Review!vars)
=============================================================================
