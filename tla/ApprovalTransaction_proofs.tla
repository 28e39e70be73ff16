--------------------- MODULE ApprovalTransaction_proofs ---------------------
(***************************************************************************)
(* Proofs that the transaction of ApprovalTransaction takes the steps of   *)
(* QuestionReview, and that of the approvals of one set somebody wins, for *)
(* any number of requests and questions.                                   *)
(***************************************************************************)
EXTENDS ApprovalTransaction, FiniteSetTheorems, TLAPS

USE NullIsNoRequest

Types == /\ written \subseteq Questions
         /\ wasApproved \in [Questions -> Verdicts]
         /\ approver \in Requests \cup {NULL}
         /\ lock \in [Questions -> Requests \cup {NULL}]
         /\ inserted \in Requests \cup {NULL}
         /\ pc \in [Requests -> PCs]
         /\ shown \in [Requests -> SUBSET Questions]
         /\ kept \in [Requests -> SUBSET Questions]
         /\ todo \in [Requests -> SUBSET Questions]
         /\ matched \in [Requests -> SUBSET Questions]
         /\ rejected \in [Requests -> SUBSET Questions]

(* Nothing is visible before the first commit.                             *)
NothingBefore == approver = NULL =>
                   /\ approvedQuestions = {}
                   /\ \A q \in Questions : wasApproved[q] = "unreviewed"

(* The key of the index is its holder's until the holder ends, and while   *)
(* somebody holds it nobody has committed.                                 *)
OneHolder == \A r \in Requests : pc[r] = "commit" <=> inserted = r
HolderIsFirst == inserted # NULL => approver = NULL

(* The second UPDATE changes the rows it matched unless somebody committed *)
(* in between, in which case the INSERT raises.                            *)
RejectsWhatItMatched ==
  \A r \in Requests :
    /\ pc[r] = "reject" /\ approver = NULL => matched[r] = rejected[r] \cup todo[r]
    /\ pc[r] = "commit" => matched[r] = rejected[r]
    /\ pc[r] = "mark" => rejected[r] = {}

IInv == Types /\ NothingBefore /\ OneHolder /\ HolderIsFirst /\ RejectsWhatItMatched

-----------------------------------------------------------------------------
LEMMA InductiveInit == Init => IInv
  BY DEF Init, IInv, Types, NothingBefore, OneHolder, HolderIsFirst,
     RejectsWhatItMatched, Verdicts, PCs, None

(* The end of a transaction without a commit frees what it held.           *)
LEMMA AbortStep ==
  ASSUME IInv, NEW r \in Requests, NEW label \in {"rolled_back", "failed"},
         Abort(r, label)
  PROVE  IInv'
<1> USE DEF IInv
<1>1. UNCHANGED <<tableVars, readVars, todo, matched, rejected>>
  BY DEF Abort
<1>2. pc' = [pc EXCEPT ![r] = label]
  BY DEF Abort, Goto
<1>3. /\ lock' \in [Questions -> Requests \cup {NULL}]
      /\ inserted' = IF inserted = r THEN NULL ELSE inserted
  BY DEF Abort, Release, Types
<1>4. Types'
  BY <1>1, <1>2, <1>3 DEF Types, PCs, tableVars, readVars
<1>5. NothingBefore' /\ HolderIsFirst'
  BY <1>1, <1>3 DEF NothingBefore, HolderIsFirst, tableVars
<1>6. OneHolder'
  BY <1>2, <1>3 DEF OneHolder, Types
<1>7. RejectsWhatItMatched'
  BY <1>1, <1>2 DEF RejectsWhatItMatched, Types, tableVars
<1> QED
  BY <1>4, <1>5, <1>6, <1>7

LEMMA CommitStep ==
  ASSUME IInv, NEW r \in Requests, Commit(r)
  PROVE  IInv'
<1> USE DEF IInv
<1>1. pc[r] = "commit" /\ inserted = r /\ approver = NULL
  BY DEF Commit, OneHolder, HolderIsFirst
<1>2. /\ approver' = r
      /\ pc' = [pc EXCEPT ![r] = "committed"]
      /\ inserted' = NULL
      /\ UNCHANGED <<written, readVars, todo, matched, rejected>>
  BY <1>1 DEF Commit, Goto, Release
<1>3. /\ lock' \in [Questions -> Requests \cup {NULL}]
      /\ wasApproved' \in [Questions -> Verdicts]
  BY DEF Commit, Release, Types, Verdicts
<1>4. Types'
  BY <1>2, <1>3 DEF Types, PCs, readVars
<1>5. NothingBefore' /\ HolderIsFirst'
  BY <1>2 DEF NothingBefore, HolderIsFirst
<1>6. OneHolder'
  BY <1>1, <1>2 DEF OneHolder, Types
<1>7. RejectsWhatItMatched'
  BY <1>2 DEF RejectsWhatItMatched, Types
<1> QED
  BY <1>4, <1>5, <1>6, <1>7

LEMMA InductiveStep == IInv /\ [Next]_vars => IInv'
<1> SUFFICES ASSUME IInv, [Next]_vars PROVE IInv'
  OBVIOUS
<1> USE DEF IInv
<1>1. CASE UNCHANGED vars
  BY <1>1 DEF vars, tableVars, readVars, Types, NothingBefore, OneHolder,
     HolderIsFirst, RejectsWhatItMatched
<1>2. ASSUME NEW batch \in SUBSET Questions, WriteGeneratedQuestions(batch)
      PROVE  IInv'
  BY <1>2 DEF WriteGeneratedQuestions, readVars, Types, NothingBefore, OneHolder,
     HolderIsFirst, RejectsWhatItMatched
<1>3. ASSUME NEW r \in Requests, NEW q \in Questions, MarkRow(r, q)
      PROVE  IInv'
  BY <1>3 DEF MarkRow, tableVars, readVars, Types, NothingBefore, OneHolder,
     HolderIsFirst, RejectsWhatItMatched
<1>4. ASSUME NEW r \in Requests, BeginReject(r)
      PROVE  IInv'
  <2> DEFINE open == {q \in written : wasApproved[q] = "unreviewed"} \ kept[r]
  <2>1. open \subseteq Questions
    BY DEF Types
  <2>2. /\ pc[r] = "mark" /\ pc' = [pc EXCEPT ![r] = "reject"]
        /\ todo' = [todo EXCEPT ![r] = open]
        /\ matched' = [matched EXCEPT ![r] = open]
        /\ UNCHANGED <<tableVars, lock, inserted, readVars, rejected>>
    BY <1>4 DEF BeginReject, Goto
  <2> HIDE DEF open
  <2>3. Types'
    BY <2>1, <2>2 DEF Types, PCs, tableVars, readVars
  <2>4. NothingBefore' /\ HolderIsFirst' /\ OneHolder'
    BY <2>2 DEF NothingBefore, HolderIsFirst, OneHolder, Types, tableVars
  <2>5. RejectsWhatItMatched'
    BY <2>2 DEF RejectsWhatItMatched, Types, tableVars
  <2> QED
    BY <2>3, <2>4, <2>5
<1>5. ASSUME NEW r \in Requests, NEW q \in Questions, RejectRow(r, q)
      PROVE  IInv'
  <2>1. /\ pc[r] = "reject" /\ q \in todo[r]
        /\ lock' = [lock EXCEPT ![q] = r]
        /\ todo' = [todo EXCEPT ![r] = todo[r] \ {q}]
        /\ UNCHANGED <<tableVars, inserted, pc, readVars, matched>>
    BY <1>5 DEF RejectRow
  <2>2. /\ rejected' \in [Requests -> SUBSET Questions]
        /\ \A x \in Requests \ {r} : rejected'[x] = rejected[x]
        /\ wasApproved[q] = "unreviewed" => rejected'[r] = rejected[r] \cup {q}
    BY <1>5 DEF RejectRow, Types
  <2>3. Types' /\ NothingBefore' /\ HolderIsFirst' /\ OneHolder'
    BY <2>1, <2>2 DEF Types, NothingBefore, HolderIsFirst, OneHolder, tableVars, readVars
  <2>4. RejectsWhatItMatched'
    BY <2>1, <2>2 DEF RejectsWhatItMatched, NothingBefore, Types, tableVars
  <2> QED
    BY <2>3, <2>4
<1>6. ASSUME NEW r \in Requests, InsertSet(r)
      PROVE  IInv'
  <2>1. /\ pc[r] = "reject" /\ todo[r] = {}
        /\ approver = NULL /\ inserted = NULL /\ inserted' = r
        /\ pc' = [pc EXCEPT ![r] = "commit"]
        /\ UNCHANGED <<tableVars, lock, readVars, todo, matched, rejected>>
    BY <1>6 DEF InsertSet, Goto
  <2>2. Types' /\ NothingBefore' /\ HolderIsFirst'
    BY <2>1 DEF Types, PCs, NothingBefore, HolderIsFirst, tableVars, readVars
  <2>3. OneHolder'
    BY <2>1 DEF OneHolder, Types
  <2>4. RejectsWhatItMatched'
    BY <2>1 DEF RejectsWhatItMatched, Types, tableVars
  <2> QED
    BY <2>2, <2>3, <2>4
<1>7. ASSUME NEW r \in Requests, UniqueViolation(r) \/ DeadlockVictim(r) \/ Fail(r)
      PROVE  IInv'
  BY <1>7, AbortStep DEF UniqueViolation, DeadlockVictim, Fail
<1> QED
  BY <1>1, <1>2, <1>3, <1>4, <1>5, <1>6, <1>7, CommitStep DEF Next, Continue

THEOREM Inductive == Spec => []IInv
<1> QED
  BY InductiveInit, InductiveStep, PTL DEF Spec

-----------------------------------------------------------------------------
(* The variables that QuestionReview sees are these, so a step that leaves *)
(* them alone is a stuttering step of it.                                  *)
LEMMA Unseen ==
  ASSUME UNCHANGED <<tableVars, shown, kept, matched>>,
         \A r \in Requests :
           pc'[r] = pc[r] \/ {pc[r], pc'[r]} \subseteq {"reject", "commit"}
  PROVE  UNCHANGED Review!vars
<1>1. UNCHANGED <<Review!configVars, Review!setVars, Review!questionVars,
                  Review!approvalVars>>
  BY DEF tableVars, Review!configVars, Review!setVars, Review!questionVars,
     Review!approvalVars
<1>2. \A r \in Requests : ReviewPc(pc'[r]) = ReviewPc(pc[r])
  BY DEF ReviewPc
<1>3. [r \in Requests |-> ReviewPc(pc'[r])] = [r \in Requests |-> ReviewPc(pc[r])]
  BY <1>2
<1> QED
  BY <1>1, <1>3 DEF Review!vars

LEMMA StepRefines ==
  ASSUME IInv, [Next]_vars
  PROVE  [Review!Next]_(Review!vars)
<1> USE DEF IInv
<1>1. CASE UNCHANGED vars
  BY <1>1, Unseen DEF vars, readVars
<1>2. ASSUME NEW batch \in (SUBSET Questions) \ {{}}, WriteGeneratedQuestions(batch)
      PROVE  Review!WriteGeneratedQuestions("s", batch, 0)
  <2>1. /\ \A q \in batch : q \in Questions /\ q \notin written
        /\ written' = written \cup batch
        /\ UNCHANGED <<wasApproved, approver, approvedQuestions, pc, shown, kept, matched>>
    BY <1>2 DEF WriteGeneratedQuestions, readVars
  <2> QED
    BY <2>1 DEF Review!WriteGeneratedQuestions, Review!configVars, Review!setVars,
       Review!approvalVars
<1>3. ASSUME NEW r \in Requests, NEW q \in Questions, MarkRow(r, q) \/ RejectRow(r, q)
      PROVE  UNCHANGED Review!vars
  BY <1>3, Unseen DEF MarkRow, RejectRow, readVars
<1>4. ASSUME NEW r \in Requests, BeginReject(r)
      PROVE  Review!RejectOthers(r)
  <2>1. /\ pc[r] = "mark" /\ pc' = [pc EXCEPT ![r] = "reject"]
        /\ matched' = [matched EXCEPT ![r] =
             {q \in written : wasApproved[q] = "unreviewed"} \ kept[r]]
        /\ UNCHANGED <<written, wasApproved, approver, approvedQuestions, shown, kept>>
    BY <1>4 DEF BeginReject, Goto, tableVars, readVars
  <2>2. Review!Unreviewed("s") = {q \in written : wasApproved[q] = "unreviewed"}
    BY DEF Review!Unreviewed, Types
  <2> QED
    BY <2>1, <2>2 DEF Review!RejectOthers, Review!Goto, Review!configVars,
       Review!setVars, Review!questionVars, Review!approvalVars, ReviewPc, Types
<1>5. ASSUME NEW r \in Requests, InsertSet(r)
      PROVE  UNCHANGED Review!vars
  BY <1>5, Unseen DEF InsertSet, Goto, readVars, Types
<1>6. ASSUME NEW r \in Requests, Commit(r)
      PROVE  Review!CommitApproval(r)
  <2>1. pc[r] = "commit" /\ inserted = r /\ approver = NULL
    BY <1>6 DEF Commit, OneHolder, HolderIsFirst
  <2>2. /\ approver' = r /\ r # NULL
        /\ pc' = [pc EXCEPT ![r] = "committed"]
        /\ wasApproved' = [q \in Questions |->
             IF q \in kept[r] THEN "approved"
             ELSE IF q \in matched[r] THEN "rejected" ELSE wasApproved[q]]
        /\ UNCHANGED <<written, shown, kept, matched>>
    BY <1>6, <2>1 DEF Commit, Goto, readVars, RejectsWhatItMatched
  <2>3. PICK sort \in [kept[r] -> 1..Cardinality(kept[r])] :
          /\ \A p, q \in kept[r] : p # q => sort[p] # sort[q]
          /\ approvedQuestions' =
               {[aqs |-> r, question |-> q, sort_order |-> sort[q]] : q \in kept[r]}
    BY <1>6 DEF Commit
  <2>4. Review!Cardinality(kept[r]) = Cardinality(kept[r])
    BY DEF Cardinality, Review!Cardinality
  <2>5. sort \in Review!Enumerations(kept[r])
    BY <2>3, <2>4 DEF Review!Enumerations, Types
  <2> DEFINE Locals(x) == [workflow |-> "w", set |-> "s", removed |-> shown[x] \ kept[x],
                           shown |-> shown[x], kept |-> kept[x], rejected |-> matched[x]]
             request == [x \in Requests |-> Locals(x)]
             sets == IF approver = NULL THEN {} ELSE {[id |-> approver, set |-> "s"]}
             status == [s \in {"s"} |-> IF approver = NULL THEN "generated" ELSE "approved"]
             place == [x \in Requests |-> ReviewPc(pc[x])]
  <2>6. /\ request[r].kept = kept[r] /\ request[r].set = "s"
        /\ request[r].rejected = matched[r]
    OBVIOUS
  <2>7. sets = {} /\ sets' = {[id |-> r, set |-> "s"]}
    BY <2>1, <2>2
  <2>8. status' = [status EXCEPT !["s"] = "approved"]
    BY <2>1, <2>2
  <2>9. place[r] = "commit" /\ place' = [place EXCEPT ![r] = "set_ready"]
    BY <2>1, <2>2 DEF ReviewPc, Types
  <2>10. \A q \in Questions : Review!Verdict(r, q) =
           IF q \in kept[r] THEN "approved"
           ELSE IF q \in matched[r] THEN "rejected" ELSE wasApproved[q]
    BY <2>6 DEF Review!Verdict
  <2>11. approvedQuestions' = approvedQuestions \cup
           {[aqs |-> r, question |-> q, sort_order |-> sort[q]] : q \in kept[r]}
    BY <2>1, <2>3 DEF NothingBefore
  <2>12. wasApproved' = [q \in Questions |-> Review!Verdict(r, q)]
    BY <2>2, <2>10
  <2>13. ~Review!UniqueViolation
    BY <2>1 DEF Review!UniqueViolation
  <2>14. UNCHANGED <<Review!configVars, written, request>>
    BY <2>2 DEF Review!configVars
  <2> QED
    BY <2>5, <2>6, <2>7, <2>8, <2>9, <2>11, <2>12, <2>13, <2>14
    DEF Review!CommitApproval, Review!Goto
<1>7. ASSUME NEW r \in Requests, UniqueViolation(r) \/ DeadlockVictim(r) \/ Fail(r)
      PROVE  Review!Fail(r)
  <2>1. pc[r] \in {"mark", "reject", "commit"}
    BY <1>7 DEF UniqueViolation, DeadlockVictim, Deadlocked, MayWaitFor, Fail, Types,
       PCs, Ended
  <2>2. PICK label \in {"rolled_back", "failed"} : Abort(r, label)
    BY <1>7 DEF UniqueViolation, DeadlockVictim, Fail
  <2>3. pc' = [pc EXCEPT ![r] = label] /\ UNCHANGED <<tableVars, readVars, matched>>
    BY <2>2 DEF Abort, Goto
  <2> QED
    BY <2>1, <2>2, <2>3 DEF Review!Fail, Review!Goto, Review!configVars,
       Review!setVars, Review!questionVars, Review!approvalVars, ReviewPc, tableVars,
       readVars, Types
<1>8. CASE \E batch \in (SUBSET Questions) \ {{}} : WriteGeneratedQuestions(batch)
  BY <1>8, <1>2 DEF Review!Next
<1>9. ASSUME NEW r \in Requests, Continue(r) \/ Fail(r)
      PROVE  [Review!Next]_(Review!vars)
  BY <1>9, <1>3, <1>4, <1>5, <1>6, <1>7 DEF Continue, Review!Next, Review!Continue
<1> QED
  BY <1>1, <1>8, <1>9 DEF Next

(* Whatever waits, deadlocks, failures and orders of rows PostgreSQL comes *)
(* up with, what others see of approve_questions is a step of              *)
(* QuestionReview or nothing: the two-step transaction of that module is   *)
(* the code's, for any number of requests and questions.                   *)
THEOREM StepsRefine == Spec => StepsOfTheReview
<1>1. IInv /\ [Next]_vars => [Review!Next]_(Review!vars)
  BY StepRefines
<1> QED
  BY <1>1, Inductive, PTL DEF Spec, StepsOfTheReview

-----------------------------------------------------------------------------
(* A transaction never waits for itself: the rows it has locked are behind *)
(* it, and those of the first UPDATE are not among those of the second.    *)
LocksAreBehind ==
  \A r \in Requests :
    /\ pc[r] = "mark" => todo[r] \subseteq kept[r]
    /\ \A q \in Questions : lock[q] = r =>
         q \notin todo[r] /\ (pc[r] = "mark" => q \in kept[r])

(* Before the first commit somebody is not a victim.                       *)
SomebodyIsLeft ==
  approver = NULL => \E r \in Requests : pc[r] \notin {"committed", "rolled_back"}

WinInv == IInv /\ LocksAreBehind /\ SomebodyIsLeft

LEMMA LocksStep ==
  ASSUME WinInv, [Next]_vars
  PROVE  LocksAreBehind'
<1> USE DEF WinInv, IInv
<1>1. CASE UNCHANGED vars
  BY <1>1 DEF vars, readVars, LocksAreBehind
<1>2. ASSUME NEW batch \in SUBSET Questions, WriteGeneratedQuestions(batch)
      PROVE  LocksAreBehind'
  BY <1>2 DEF WriteGeneratedQuestions, readVars, LocksAreBehind
<1>3. ASSUME NEW r \in Requests, NEW q \in Questions, RejectRow(r, q)
      PROVE  LocksAreBehind'
  BY <1>3 DEF RejectRow, readVars, LocksAreBehind, Types
<1>4. ASSUME NEW r \in Requests, BeginReject(r)
      PROVE  LocksAreBehind'
  BY <1>4 DEF BeginReject, Goto, readVars, LocksAreBehind, Types
<1>5. ASSUME NEW r \in Requests, InsertSet(r)
      PROVE  LocksAreBehind'
  BY <1>5 DEF InsertSet, Goto, readVars, LocksAreBehind, Types
<1>6. ASSUME NEW r \in Requests, NEW label \in {"committed", "rolled_back", "failed"},
             Release(r), Goto(r, label), UNCHANGED <<readVars, todo>>
      PROVE  LocksAreBehind'
  <2>1. \A q \in Questions, x \in Requests : lock'[q] = x => lock[q] = x /\ x # r
    BY <1>6 DEF Release, Types
  <2> QED
    BY <1>6, <2>1 DEF Goto, readVars, LocksAreBehind, Types
<1>7. ASSUME NEW r \in Requests, Commit(r)
      PROVE  LocksAreBehind'
  BY <1>7, <1>6 DEF Commit
<1>8. ASSUME NEW r \in Requests, UniqueViolation(r) \/ DeadlockVictim(r) \/ Fail(r)
      PROVE  LocksAreBehind'
  BY <1>8, <1>6 DEF UniqueViolation, DeadlockVictim, Fail, Abort
<1>9. ASSUME NEW r \in Requests, NEW q \in Questions, MarkRow(r, q)
      PROVE  LocksAreBehind'
  <2>1. lock' = [lock EXCEPT ![q] = r] /\ todo' = [todo EXCEPT ![r] = todo[r] \ {q}]
        /\ lock[q] = NULL /\ q \in todo[r] /\ UNCHANGED <<pc, kept>>
    BY <1>9 DEF MarkRow, readVars
  <2> QED
    BY <2>1 DEF LocksAreBehind, Types
<1> QED
  BY <1>1, <1>2, <1>3, <1>4, <1>5, <1>7, <1>8, <1>9 DEF Next, Continue

(* Who waits in a cycle waits for another one that has not ended.          *)
LEMMA VictimIsNotAlone ==
  ASSUME WinInv, NEW r \in Requests, DeadlockVictim(r)
  PROVE  \E x \in Requests \ {r} : pc[x] \notin Ended
<1> USE DEF WinInv, IInv
<1>1. PICK group \in SUBSET Requests : r \in group /\ Deadlocked(group)
  BY DEF DeadlockVictim
<1>2. PICK x \in group : r \in MayWaitFor(x)
  BY <1>1 DEF Deadlocked
<1>3. pc[x] \in {"mark", "reject"}
  BY <1>2 DEF MayWaitFor
<1>4. x # r
  <2>1. pc[r] \in {"mark", "reject"}
    BY <1>1 DEF Deadlocked, MayWaitFor
  <2>2. inserted # r
    BY <2>1 DEF OneHolder
  <2>3. \A q \in todo[r] : lock[q] # r
    BY DEF LocksAreBehind, Types
  <2> QED
    BY <1>2, <2>2, <2>3 DEF MayWaitFor
<1> QED
  BY <1>2, <1>3, <1>4 DEF Ended

LEMMA SomebodyStep ==
  ASSUME WinInv, [Next]_vars
  PROVE  SomebodyIsLeft'
<1> USE DEF WinInv, IInv
<1>1. SUFFICES ASSUME approver' = NULL
               PROVE  \E x \in Requests : pc'[x] \notin {"committed", "rolled_back"}
  BY DEF SomebodyIsLeft
<1>2. ASSUME UNCHANGED <<approver, pc>>
      PROVE  \E x \in Requests : pc'[x] \notin {"committed", "rolled_back"}
  BY <1>1, <1>2 DEF SomebodyIsLeft
<1>3. ASSUME NEW r \in Requests, NEW label \in PCs \ {"committed", "rolled_back"},
             Goto(r, label)
      PROVE  \E x \in Requests : pc'[x] \notin {"committed", "rolled_back"}
  BY <1>3 DEF Goto, Types, PCs
<1>4. CASE UNCHANGED vars \/ \E batch \in SUBSET Questions : WriteGeneratedQuestions(batch)
  BY <1>2, <1>4 DEF vars, tableVars, WriteGeneratedQuestions
<1>5. ASSUME NEW r \in Requests, NEW q \in Questions, MarkRow(r, q) \/ RejectRow(r, q)
      PROVE  \E x \in Requests : pc'[x] \notin {"committed", "rolled_back"}
  BY <1>2, <1>5 DEF MarkRow, RejectRow, tableVars
<1>6. ASSUME NEW r \in Requests, BeginReject(r) \/ InsertSet(r) \/ Fail(r)
      PROVE  \E x \in Requests : pc'[x] \notin {"committed", "rolled_back"}
  BY <1>3, <1>6 DEF BeginReject, InsertSet, Fail, Abort, PCs
<1>7. ASSUME NEW r \in Requests, Commit(r)
      PROVE  FALSE
  BY <1>1, <1>7, NullIsNoRequest DEF Commit
<1>8. ASSUME NEW r \in Requests, UniqueViolation(r)
      PROVE  FALSE
  BY <1>1, <1>8 DEF UniqueViolation, Abort, tableVars
<1>9. ASSUME NEW r \in Requests, DeadlockVictim(r)
      PROVE  \E x \in Requests : pc'[x] \notin {"committed", "rolled_back"}
  <2>1. PICK x \in Requests \ {r} : pc[x] \notin Ended
    BY <1>9, VictimIsNotAlone
  <2>2. pc'[x] = pc[x]
    BY <1>9, <2>1 DEF DeadlockVictim, Abort, Goto, Types
  <2> QED
    BY <2>1, <2>2 DEF Ended
<1> QED
  BY <1>4, <1>5, <1>6, <1>7, <1>8, <1>9 DEF Next, Continue

(* However the requests that approve one set block each other, the         *)
(* detector's victims and the losers of the INSERT never leave the set     *)
(* without an approval, for any number of requests and questions.          *)
THEOREM Progress ==
  ASSUME Requests # {}
  PROVE  Spec => []SomebodyWins
<1>1. Init => WinInv
  BY InductiveInit DEF Init, WinInv, LocksAreBehind, SomebodyIsLeft
<1>2. WinInv /\ [Next]_vars => WinInv'
  BY InductiveStep, LocksStep, SomebodyStep DEF WinInv
<1>3. WinInv => SomebodyWins
  BY DEF WinInv, SomebodyIsLeft, SomebodyWins
<1> QED
  BY <1>1, <1>2, <1>3, PTL DEF Spec

-----------------------------------------------------------------------------
(* Of finitely many who each wait for somebody among them, some wait in a  *)
(* cycle: take a smallest group that waits for nobody outside; those whom  *)
(* it waits for are such a group too, so they are all of it.               *)
LEMMA SmallestClosedGroup ==
  ASSUME NEW W, IsFiniteSet(W), W # {}, NEW F \in [W -> SUBSET W],
         \A r \in W : F[r] # {}
  PROVE  \E group \in SUBSET W :
           /\ group # {}
           /\ \A r \in group : F[r] \cap group # {} /\ \E x \in group : r \in F[x]
<1> DEFINE Closed == {group \in SUBSET W : group # {} /\ \A r \in group : F[r] \subseteq group}
<1>1. W \in Closed
  OBVIOUS
<1>2. IsWellFoundedOn(StrictSubsetOrdering(W), SUBSET W)
  BY FS_StrictSubsetOrderingWellFounded, FS_FiniteSubsetsOfFinite
<1>3. Closed \subseteq SUBSET W /\ Closed # {}
  BY <1>1
<1> HIDE DEF Closed
<1>4. PICK group \in Closed : \A other \in Closed : <<other, group>> \notin StrictSubsetOrdering(W)
  BY <1>2, <1>3, WFMin
<1> DEFINE WaitedFor == {y \in W : \E r \in group : y \in F[r]}
<1>5. /\ group \in SUBSET W /\ group # {}
      /\ \A r \in group : F[r] \subseteq group /\ F[r] # {}
  BY <1>4 DEF Closed
<1>6. WaitedFor \subseteq group /\ WaitedFor # {}
  BY <1>5
<1>7. \A y \in WaitedFor : F[y] \subseteq WaitedFor
  BY <1>5, <1>6
<1>8. WaitedFor \in Closed
  BY <1>6, <1>7 DEF Closed
<1> HIDE DEF WaitedFor
<1>9. WaitedFor = group
  BY <1>4, <1>5, <1>6, <1>8 DEF StrictSubsetOrdering
<1>10. \A r \in group : \E x \in group : r \in F[x]
  BY <1>9 DEF WaitedFor
<1> QED
  BY <1>5, <1>10

(* The rows of a transaction that has ended are free.                      *)
LocksOfTheRunning ==
  \A q \in Questions : lock[q] # NULL => pc[lock[q]] \notin Ended

WaitInv == IInv /\ LocksOfTheRunning

LEMMA RunningStep ==
  ASSUME WaitInv, [Next]_vars
  PROVE  LocksOfTheRunning'
<1> USE DEF WaitInv, IInv
<1>1. CASE UNCHANGED vars
  BY <1>1 DEF vars, LocksOfTheRunning
<1>2. ASSUME NEW batch \in SUBSET Questions, WriteGeneratedQuestions(batch)
      PROVE  LocksOfTheRunning'
  BY <1>2 DEF WriteGeneratedQuestions, LocksOfTheRunning
<1>3. ASSUME NEW r \in Requests, NEW q \in Questions, MarkRow(r, q) \/ RejectRow(r, q)
      PROVE  LocksOfTheRunning'
  <2>1. /\ pc[r] \notin Ended /\ pc' = pc
        /\ lock' = [lock EXCEPT ![q] = r]
    BY <1>3 DEF MarkRow, RejectRow, Ended
  <2> QED
    BY <2>1 DEF LocksOfTheRunning, Types
<1>4. ASSUME NEW r \in Requests, BeginReject(r) \/ InsertSet(r)
      PROVE  LocksOfTheRunning'
  <2>1. PICK label \in {"reject", "commit"} : Goto(r, label) /\ lock' = lock
    BY <1>4 DEF BeginReject, InsertSet
  <2> QED
    BY <2>1 DEF Goto, LocksOfTheRunning, Types, Ended
<1>5. ASSUME NEW r \in Requests, NEW label \in PCs, Release(r), Goto(r, label)
      PROVE  LocksOfTheRunning'
  <2>1. \A q \in Questions : lock'[q] # NULL => lock'[q] = lock[q] /\ lock[q] # r
    BY <1>5 DEF Release, Types
  <2>2. \A x \in Requests : x # r => pc'[x] = pc[x]
    BY <1>5 DEF Goto, Types
  <2> QED
    BY <2>1, <2>2 DEF LocksOfTheRunning, Types
<1>6. ASSUME NEW r \in Requests, Commit(r)
      PROVE  LocksOfTheRunning'
  BY <1>5, <1>6 DEF Commit, PCs
<1>7. ASSUME NEW r \in Requests, UniqueViolation(r) \/ DeadlockVictim(r) \/ Fail(r)
      PROVE  LocksOfTheRunning'
  BY <1>5, <1>7 DEF UniqueViolation, DeadlockVictim, Fail, Abort, PCs
<1> QED
  BY <1>1, <1>2, <1>3, <1>4, <1>6, <1>7 DEF Next, Continue

(* Whom a transaction may wait for has not ended.                          *)
LEMMA WaitsForTheRunning ==
  ASSUME WaitInv, NEW r \in Requests
  PROVE  MayWaitFor(r) \subseteq {x \in Requests : pc[x] \notin Ended}
<1> USE DEF WaitInv, IInv
<1>1. inserted # NULL => inserted \in Requests /\ pc[inserted] = "commit"
  BY DEF OneHolder, Types
<1>2. \A q \in Questions : lock[q] # NULL => lock[q] \in Requests /\ pc[lock[q]] \notin Ended
  BY DEF LocksOfTheRunning, Types
<1>3. todo[r] \subseteq Questions
  BY DEF Types
<1> QED
  BY <1>1, <1>2, <1>3 DEF MayWaitFor, Ended

(* Whatever orders of rows the two UPDATEs of any number of requests take, *)
(* the approvals of a set come to a stop only in a cycle, which the        *)
(* detector breaks: the safety that TransactionsEnd rests on.              *)
THEOREM WaitsAreCycles == Spec => []WaitsEndInACycle
<1>1. Init => WaitInv
  BY InductiveInit DEF Init, WaitInv, LocksOfTheRunning
<1>2. WaitInv /\ [Next]_vars => WaitInv'
  BY InductiveStep, RunningStep DEF WaitInv
<1>3. WaitInv => WaitsEndInACycle
  <2> DEFINE running == {r \in Requests : pc[r] \notin Ended}
             waits == [r \in running |-> MayWaitFor(r)]
  <2> SUFFICES ASSUME WaitInv, running # {}, \A r \in running : MayWaitFor(r) # {}
               PROVE  \E group \in SUBSET running : group # {} /\ Deadlocked(group)
    BY DEF WaitsEndInACycle
  <2>1. IsFiniteSet(running)
    BY RequestsAreFinite, FS_Subset
  <2>2. \A r \in running : MayWaitFor(r) \subseteq running
    BY WaitsForTheRunning
  <2>3. \A r \in running : waits[r] = MayWaitFor(r)
    OBVIOUS
  <2> HIDE DEF running
  <2>4. waits \in [running -> SUBSET running]
    BY <2>2
  <2>5. running # {} /\ \A r \in running : waits[r] # {}
    BY <2>3
  <2> HIDE DEF waits
  <2>6. PICK group \in SUBSET running :
          /\ group # {}
          /\ \A r \in group : waits[r] \cap group # {} /\ \E x \in group : r \in waits[x]
    BY <2>1, <2>4, <2>5, SmallestClosedGroup
  <2>7. Deadlocked(group)
    BY <2>3, <2>6 DEF Deadlocked
  <2> QED
    BY <2>6, <2>7
<1> QED
  BY <1>1, <1>2, <1>3, PTL DEF Spec
=============================================================================
