------------------------ MODULE Participation_proofs ------------------------
(***************************************************************************)
(* Proofs about Participation, for any participants, questions, answers    *)
(* and requests: what each route promises while the others run.            *)
(***************************************************************************)
EXTENDS Participation, TLAPS

USE NullIsNoValue, TimeAssumption, RequestsAreOfOneRoute

(* The invitations of r went out; the answers of r are in.                 *)
Invited(r) == \A p \in request[r].invited : invitation[p] # "pending"

Delivered(r) ==
  \A p \in request[r].invited :
    /\ submission[p] = "submitted"
    /\ \A q \in Questions : request[r].given[q] # NULL => answers[p][q] # NULL

Over == {"ok", "failed"}

InviteFacts(r) ==
  /\ pc[r] \in {"idle", "read_participants", "send", "activate", "publish"} \cup Over
  /\ pc[r] = "send" =>
       \A p \in request[r].invited \ request[r].todo : invitation[p] # "pending"
  /\ pc[r] \in {"activate", "publish", "ok"} => Invited(r)

AccessFacts(r) ==
  /\ pc[r] \in {"idle", "create", "accept", "reply", "refused"} \cup Over
  /\ pc[r] = "create" => \E p \in Participants : request[r].invited = {p}
  /\ pc[r] = "accept" => \A p \in request[r].invited : submission[p] # NULL

SubmitFacts(r) ==
  /\ pc[r] \in {"idle", "create", "submit", "publish"} \cup Over
  /\ pc[r] \in {"create", "submit"} => request[r].given # NoAnswers
  /\ pc[r] \in {"create", "submit", "publish"} =>
       \E p \in Participants : request[r].invited = {p}
  /\ pc[r] = "submit" => \A p \in request[r].invited : submission[p] # NULL
  /\ pc[r] \in {"publish", "ok"} => Delivered(r)

(* What an event says of its request stays true: the request is over.      *)
EventFacts(r) ==
  \A e \in events : e.by = r =>
    /\ r \notin Accesses
    /\ pc[r] \in Over
    /\ e.participants = request[r].invited
    /\ r \in Submits => Delivered(r)
    /\ r \in Invites => e.kind = "invitation" /\ Invited(r)

Facts(r) == /\ r \in Invites => InviteFacts(r)
            /\ r \in Accesses => AccessFacts(r)
            /\ r \in Submits => SubmitFacts(r)
            /\ EventFacts(r)

RequestFacts == \A r \in Requests : Facts(r)

IInv == TypeOK /\ AcceptedHasSubmission /\ AnswersAndStatusTogether /\ RequestFacts

(* What the statements of one request do not take from the others.         *)
Grows == \A p \in Participants :
  /\ invitation[p] # "pending" => invitation'[p] # "pending"
  /\ submission[p] # NULL => submission'[p] # NULL
  /\ submission[p] = "submitted" => submission'[p] = "submitted"
  /\ \A q \in Questions : answers[p][q] # NULL => answers'[p][q] # NULL

-----------------------------------------------------------------------------
LEMMA InductiveInit == Init => IInv
  BY DEF Init, IInv, TypeOK, AcceptedHasSubmission, AnswersAndStatusTogether,
     RequestFacts, Facts, InviteFacts, AccessFacts, SubmitFacts, EventFacts,
     Times, Statuses, PCs, Locals, NoLocals, NoAnswers, Events

(* An UPDATE of one answer keeps the others.                               *)
LEMMA OverlayKeeps ==
  ASSUME NEW given \in [Questions -> Contents \cup {NULL}],
         NEW old \in [Questions -> Contents \cup {NULL}]
  PROVE  /\ Overlay(given, old) \in [Questions -> Contents \cup {NULL}]
         /\ \A q \in Questions : old[q] # NULL => Overlay(given, old)[q] # NULL
         /\ \A q \in Questions : given[q] # NULL => Overlay(given, old)[q] # NULL
         /\ given # NoAnswers => Overlay(given, old) # NoAnswers
  BY DEF Overlay, NoAnswers

(* A step of one request, or of no request, leaves the facts about a       *)
(* request it does not move as they are.                                   *)
LEMMA OthersKeep ==
  ASSUME TypeOK, Grows, NEW s \in Requests, Facts(s),
         pc'[s] = pc[s], request'[s] = request[s],
         \A e \in events' : e.by = s => e \in events
  PROVE  Facts(s)'
<1> USE DEF Facts, Requests
<1>1. request[s] \in Locals
  BY DEF TypeOK
<1>2. Invited(s) => Invited(s)'
  BY <1>1 DEF Invited, Grows, Locals
<1>3. Delivered(s) => Delivered(s)'
  BY <1>1 DEF Delivered, Grows, Locals
<1>4. InviteFacts(s) => InviteFacts(s)'
  BY <1>1, <1>2 DEF InviteFacts, Grows, Locals, Over
<1>5. AccessFacts(s) => AccessFacts(s)'
  BY <1>1 DEF AccessFacts, Grows, Locals, Over
<1>6. SubmitFacts(s) => SubmitFacts(s)'
  BY <1>1, <1>3 DEF SubmitFacts, Grows, Locals, Over
<1>7. EventFacts(s) => EventFacts(s)'
  BY <1>2, <1>3 DEF EventFacts, Over
<1> QED
  BY <1>4, <1>5, <1>6, <1>7

(* A step that writes no row keeps what the rows say.                      *)
LEMMA RowsKept ==
  ASSUME IInv, UNCHANGED <<invitation, submissionVars>>
  PROVE  Grows /\ AcceptedHasSubmission' /\ AnswersAndStatusTogether'
  BY DEF IInv, Grows, AcceptedHasSubmission, AnswersAndStatusTogether, submissionVars

-----------------------------------------------------------------------------
(* The steps of one request.  Each lemma gives the types, what the rows    *)
(* keep, and the facts about the request that moves.                       *)

Moves(r) == /\ pc' = [pc EXCEPT ![r] = pc'[r]]
            /\ request' = [request EXCEPT ![r] = request'[r]]
            /\ \A e \in events' : e \in events \/ e.by = r

Kept(r) == /\ TypeOK'
           /\ Grows
           /\ AcceptedHasSubmission'
           /\ AnswersAndStatusTogether'
           /\ Moves(r)
           /\ Facts(r)'

(* The end of an invitation, an access or a submission.                    *)
LEMMA FailKeeps ==
  ASSUME IInv, NEW r \in Requests, Fail(r)
  PROVE  Kept(r)
<1> USE DEF IInv, Fail
<1>1. TypeOK'
  BY DEF TypeOK, Goto, PCs, configVars, submissionVars
<1>2. Grows /\ AcceptedHasSubmission' /\ AnswersAndStatusTogether'
  BY RowsKept DEF configVars
<1>3. pc[r] \notin Over /\ pc'[r] = "failed"
  BY DEF Goto, Over, TypeOK
<1>4. \A e \in events' : e.by # r
  BY <1>3 DEF RequestFacts, Facts, EventFacts
<1>5. Facts(r)'
  BY <1>3, <1>4 DEF Facts, InviteFacts, AccessFacts, SubmitFacts, EventFacts, Over
<1>6. Moves(r)
  BY <1>3 DEF Moves, Goto, TypeOK
<1> QED
  BY <1>1, <1>2, <1>5, <1>6 DEF Kept

LEMMA PublishKeeps ==
  ASSUME IInv, NEW r \in Requests, Publish(r) \/ PublishFails(r)
  PROVE  Kept(r)
<1> USE DEF IInv
<1>1. /\ pc[r] = "publish" /\ pc'[r] \in Over
      /\ pc' = [pc EXCEPT ![r] = pc'[r]]
      /\ UNCHANGED <<now, configVars, invitation, submissionVars, request>>
      /\ \A e \in events' : e \in events \/ e = EventOf(r)
  BY DEF Publish, PublishFails, Goto, TypeOK, Over
<1>2. r \in Invites \cup Submits
  BY <1>1 DEF RequestFacts, Facts, AccessFacts, Requests, Over
<1>3. request[r] \in Locals
  BY DEF TypeOK
<1>4. EventOf(r) \in Events /\ EventOf(r).by = r
  BY <1>3 DEF EventOf, Events, Locals
<1>5. TypeOK'
  BY <1>1, <1>4 DEF TypeOK, PCs, Over, configVars, submissionVars
<1>6. Grows /\ AcceptedHasSubmission' /\ AnswersAndStatusTogether'
  BY <1>1, RowsKept
<1>7. (r \in Invites => Invited(r)) /\ (r \in Submits => Delivered(r))
  BY <1>1 DEF RequestFacts, Facts, InviteFacts, SubmitFacts
<1>8. (r \in Invites => Invited(r)') /\ (r \in Submits => Delivered(r)')
  BY <1>1, <1>7 DEF Invited, Delivered, submissionVars
<1>9. \A e \in events : e.by # r
  BY <1>1 DEF RequestFacts, Facts, EventFacts, Over
<1>10. EventFacts(r)'
  BY <1>1, <1>2, <1>8, <1>9 DEF EventFacts, EventOf
<1>11. Facts(r)'
  BY <1>1, <1>2, <1>8, <1>10 DEF Facts, InviteFacts, SubmitFacts, Over
<1>12. Moves(r)
  BY <1>1, <1>4 DEF Moves, TypeOK
<1> QED
  BY <1>5, <1>6, <1>11, <1>12 DEF Kept

(* A step that moves r and writes neither a row nor an event, and leaves   *)
(* r's facts true, keeps everything.                                       *)
LEMMA LocalStep ==
  ASSUME IInv, NEW r \in Requests, NEW label \in PCs, NEW local \in Locals,
         pc[r] \notin Over,
         pc' = [pc EXCEPT ![r] = label],
         request' = [request EXCEPT ![r] = local],
         UNCHANGED <<now, hasWorkflow, invitation, submissionVars, events>>,
         status' \in Statuses,
         r \in Invites => InviteFacts(r)',
         r \in Accesses => AccessFacts(r)',
         r \in Submits => SubmitFacts(r)'
  PROVE  Kept(r)
<1> USE DEF IInv
<1>1. TypeOK'
  BY DEF TypeOK, submissionVars
<1>2. Grows /\ AcceptedHasSubmission' /\ AnswersAndStatusTogether'
  BY RowsKept
<1>3. \A e \in events : e.by # r
  BY DEF RequestFacts, Facts, EventFacts
<1>4. Facts(r)'
  BY <1>3 DEF Facts, EventFacts
<1>5. Moves(r)
  BY DEF Moves, TypeOK
<1> QED
  BY <1>1, <1>2, <1>4, <1>5 DEF Kept

LEMMA InviteKeeps ==
  ASSUME IInv, NEW r \in Invites,
         \/ InviteReadConfig(r)
         \/ \E selected \in SUBSET Participants : InviteReadParticipants(r, selected)
         \/ SendDone(r)
         \/ Activate(r)
  PROVE  Kept(r)
<1> USE DEF IInv, Requests
<1>0. r \in Requests /\ r \notin Accesses /\ r \notin Submits /\ request[r] \in Locals
  BY DEF TypeOK
<1> USE <1>0
<1>1. CASE InviteReadConfig(r)
  <2> DEFINE local == [request[r] EXCEPT !.publish = hasWorkflow]
  <2>1. local \in Locals
    BY DEF Locals, TypeOK
  <2>2. InviteFacts(r)'
    BY <1>1 DEF InviteReadConfig, Goto, InviteFacts, TypeOK
  <2> HIDE DEF local
  <2> QED
    BY <1>1, <2>1, <2>2, LocalStep DEF InviteReadConfig, Goto, local, PCs, Over, TypeOK, configVars
<1>2. ASSUME NEW selected \in SUBSET Participants, InviteReadParticipants(r, selected)
      PROVE  Kept(r)
  <2> DEFINE local == [request[r] EXCEPT !.invited = selected, !.todo = selected]
  <2>1. local \in Locals
    BY DEF Locals
  <2>2. request' = [request EXCEPT ![r] = local]
    BY <1>2 DEF InviteReadParticipants
  <2>3. request'[r].invited \ request'[r].todo = {}
    BY <2>1, <2>2 DEF TypeOK, Locals
  <2>4. InviteFacts(r)'
    BY <1>2, <2>3 DEF InviteReadParticipants, Goto, InviteFacts, TypeOK
  <2> HIDE DEF local
  <2> QED
    BY <1>2, <2>1, <2>2, <2>4, LocalStep DEF InviteReadParticipants, Goto, PCs, Over, TypeOK, configVars
<1>3. CASE SendDone(r)
  <2>1. Invited(r)
    BY <1>3 DEF SendDone, RequestFacts, Facts, InviteFacts, Invited
  <2>2. InviteFacts(r)'
    BY <1>3, <2>1 DEF SendDone, Goto, InviteFacts, Invited, TypeOK
  <2>3. request' = [request EXCEPT ![r] = request[r]]
    BY <1>3 DEF SendDone, TypeOK
  <2> QED
    BY <1>3, <2>2, <2>3, LocalStep DEF SendDone, Goto, PCs, Over, TypeOK, configVars
<1>4. CASE Activate(r)
  <2>1. Invited(r)
    BY <1>4 DEF Activate, RequestFacts, Facts, InviteFacts
  <2>2. pc'[r] \in {"publish", "ok"} /\ pc' = [pc EXCEPT ![r] = pc'[r]]
    BY <1>4 DEF Activate, Goto, TypeOK
  <2>3. InviteFacts(r)'
    BY <1>4, <2>1, <2>2 DEF Activate, InviteFacts, Invited, Over
  <2>4. request' = [request EXCEPT ![r] = request[r]]
    BY <1>4 DEF Activate, TypeOK
  <2> QED
    BY <1>4, <2>2, <2>3, <2>4, LocalStep DEF Activate, PCs, Over, Statuses
<1> QED
  BY <1>1, <1>2, <1>3, <1>4

LEMMA SendKeeps ==
  ASSUME IInv, NEW r \in Invites, NEW p \in Participants, SendOne(r, p)
  PROVE  Kept(r)
<1> USE DEF IInv, Requests
<1> DEFINE local == [request[r] EXCEPT !.todo = @ \ {p}]
<1>1. /\ request[r] \in Locals /\ local \in Locals
      /\ request' = [request EXCEPT ![r] = local]
  <2>1. request[r] \in Locals
    BY DEF TypeOK
  <2>2. local \in Locals
    BY <2>1 DEF Locals
  <2>3. request' = [request EXCEPT ![r] = local]
    BY DEF SendOne
  <2> QED
    BY <2>1, <2>2, <2>3
<1>2. invitation' = [invitation EXCEPT ![p] = "sent"]
  BY DEF SendOne
<1>3. UNCHANGED <<now, configVars, submissionVars, pc, events>> /\ pc[r] = "send"
  BY DEF SendOne
<1>4. TypeOK'
  BY <1>1, <1>2, <1>3 DEF TypeOK, configVars, submissionVars
<1>5. Grows /\ AcceptedHasSubmission' /\ AnswersAndStatusTogether'
  BY <1>2, <1>3 DEF TypeOK, Grows, AcceptedHasSubmission, AnswersAndStatusTogether, submissionVars
<1>6. /\ request'[r].invited = request[r].invited
      /\ request'[r].todo = request[r].todo \ {p}
  BY <1>1 DEF TypeOK, Locals
<1>7. \A x \in request[r].invited \ request[r].todo : invitation[x] # "pending"
  BY <1>3 DEF RequestFacts, Facts, InviteFacts
<1>8. \A x \in request'[r].invited \ request'[r].todo : invitation'[x] # "pending"
  BY <1>1, <1>2, <1>6, <1>7 DEF TypeOK, Locals
<1>9. InviteFacts(r)'
  BY <1>3, <1>8 DEF InviteFacts
<1>10. \A e \in events : e.by # r
  BY <1>3 DEF RequestFacts, Facts, EventFacts, Over
<1>11. Facts(r)'
  BY <1>3, <1>9, <1>10 DEF Facts, EventFacts
<1>12. Moves(r)
  BY <1>1, <1>3 DEF Moves, TypeOK
<1> QED
  BY <1>4, <1>5, <1>11, <1>12 DEF Kept

LEMMA AccessKeeps ==
  ASSUME IInv, NEW r \in Accesses,
         \/ \E p \in Participants : AccessReadConfig(r, p)
         \/ AccessReply(r)
  PROVE  Kept(r)
<1> USE DEF IInv, Requests
<1>0. r \in Requests /\ r \notin Invites /\ r \notin Submits /\ request[r] \in Locals
  BY DEF TypeOK
<1> USE <1>0
<1>1. ASSUME NEW p \in Participants, AccessReadConfig(r, p)
      PROVE  Kept(r)
  <2> DEFINE local == [request[r] EXCEPT !.invited = {p}]
  <2>1. local \in Locals
    BY DEF Locals
  <2>2. request' = [request EXCEPT ![r] = local]
    BY <1>1 DEF AccessReadConfig
  <2>3. /\ pc[r] = "idle" /\ pc'[r] \in {"create", "refused"}
        /\ pc' = [pc EXCEPT ![r] = pc'[r]]
    BY <1>1 DEF AccessReadConfig, Goto, TypeOK
  <2>4. request'[r].invited = {p}
    BY <2>1, <2>2 DEF TypeOK, Locals
  <2>5. AccessFacts(r)'
    BY <2>3, <2>4 DEF AccessFacts
  <2> HIDE DEF local
  <2> QED
    BY <1>1, <2>1, <2>2, <2>3, <2>5, LocalStep
       DEF AccessReadConfig, PCs, Over, TypeOK, configVars
<1>2. CASE AccessReply(r)
  <2>1. AccessFacts(r)'
    BY <1>2 DEF AccessReply, Goto, AccessFacts, Over, TypeOK
  <2>2. request' = [request EXCEPT ![r] = request[r]]
    BY <1>2 DEF AccessReply, TypeOK
  <2> QED
    BY <1>2, <2>1, <2>2, LocalStep DEF AccessReply, Goto, PCs, Over, TypeOK, configVars
<1> QED
  BY <1>1, <1>2

LEMMA AcceptKeeps ==
  ASSUME IInv, NEW r \in Accesses, AccessAccept(r)
  PROVE  Kept(r)
<1> USE DEF IInv, Requests
<1>0. r \in Requests /\ r \notin Invites /\ r \notin Submits /\ request[r] \in Locals
  BY DEF TypeOK
<1>1. /\ pc[r] = "accept" /\ pc' = [pc EXCEPT ![r] = "reply"]
      /\ UNCHANGED <<now, configVars, submissionVars, request, events>>
  BY DEF AccessAccept, Goto
<1>2. invitation' = [p \in Participants |->
                       IF p \in request[r].invited THEN "accepted" ELSE invitation[p]]
  BY DEF AccessAccept
<1>3. TypeOK'
  BY <1>1, <1>2 DEF TypeOK, PCs, configVars, submissionVars
<1>4. \A p \in request[r].invited : submission[p] # NULL
  BY <1>0, <1>1 DEF RequestFacts, Facts, AccessFacts
<1>5. Grows /\ AcceptedHasSubmission' /\ AnswersAndStatusTogether'
  BY <1>1, <1>2, <1>4 DEF TypeOK, Grows, AcceptedHasSubmission,
     AnswersAndStatusTogether, submissionVars
<1>6. \A e \in events : e.by # r
  BY <1>0, <1>1 DEF RequestFacts, Facts, EventFacts, Over
<1>7. Facts(r)'
  BY <1>0, <1>1, <1>6 DEF Facts, AccessFacts, EventFacts, TypeOK
<1>8. Moves(r)
  BY <1>0, <1>1 DEF Moves, TypeOK
<1> QED
  BY <1>3, <1>5, <1>7, <1>8 DEF Kept

(* create_submission, by an access and by a submission.                    *)
LEMMA CreateKeeps ==
  ASSUME IInv, NEW r \in Accesses \cup Submits,
         r \in Accesses => AccessCreate(r),
         r \in Submits => SubmitCreate(r)
  PROVE  Kept(r)
<1> USE DEF IInv, Requests
<1>0. r \in Requests /\ r \notin Invites /\ request[r] \in Locals
  BY DEF TypeOK
<1> DEFINE label == IF r \in Accesses THEN "accept" ELSE "submit"
<1>1. /\ pc[r] = "create" /\ pc' = [pc EXCEPT ![r] = label]
      /\ UNCHANGED <<now, configVars, invitation, answers, request, events>>
  BY DEF AccessCreate, SubmitCreate, Goto
<1>2. PICK p \in request[r].invited : CreateSubmission(p)
  BY DEF AccessCreate, SubmitCreate
<1>3. p \in Participants
  BY <1>0 DEF Locals
<1>4. TypeOK'
  BY <1>0, <1>1, <1>2, <1>3 DEF TypeOK, PCs, CreateSubmission, configVars
<1>5. Grows /\ AcceptedHasSubmission' /\ AnswersAndStatusTogether'
  BY <1>1, <1>2, <1>3 DEF TypeOK, Grows, AcceptedHasSubmission,
     AnswersAndStatusTogether, CreateSubmission
<1>6. request[r].invited = {p} /\ \A x \in request[r].invited : submission'[x] # NULL
  <2>1. request[r].invited = {p}
    BY <1>0, <1>1, <1>2 DEF RequestFacts, Facts, AccessFacts, SubmitFacts
  <2> QED
    BY <1>2, <1>3, <2>1 DEF CreateSubmission, TypeOK
<1>7. \A e \in events : e.by # r
  BY <1>0, <1>1 DEF RequestFacts, Facts, EventFacts, Over
<1>8. Facts(r)'
  BY <1>0, <1>1, <1>6, <1>7 DEF RequestFacts, Facts, AccessFacts, SubmitFacts, EventFacts, TypeOK, Over
<1>9. Moves(r)
  BY <1>0, <1>1 DEF Moves, TypeOK
<1> QED
  BY <1>4, <1>5, <1>8, <1>9 DEF Kept

LEMMA SubmitReads ==
  ASSUME IInv, NEW r \in Submits, NEW p \in Participants,
         NEW given \in [Questions -> Contents \cup {NULL}] \ {NoAnswers},
         SubmitReadConfig(r, p, given)
  PROVE  Kept(r)
<1> USE DEF IInv, Requests
<1>0. r \in Requests /\ r \notin Invites /\ r \notin Accesses /\ request[r] \in Locals
  BY DEF TypeOK
<1> DEFINE local == [request[r] EXCEPT !.invited = {p}, !.given = given,
                                       !.publish = hasWorkflow]
<1>1. local \in Locals /\ local.given = given /\ local.invited = {p}
  BY <1>0 DEF Locals, TypeOK
<1>2. request' = [request EXCEPT ![r] = local]
  BY DEF SubmitReadConfig
<1>3. pc[r] = "idle" /\ pc' = [pc EXCEPT ![r] = "create"]
  BY DEF SubmitReadConfig, Goto
<1> HIDE DEF local
<1>4. pc'[r] = "create" /\ request'[r].given # NoAnswers /\ request'[r].invited = {p}
  BY <1>0, <1>1, <1>2, <1>3 DEF TypeOK
<1>5. SubmitFacts(r)'
  BY <1>4 DEF SubmitFacts, NoAnswers, Over
<1> QED
  BY <1>0, <1>1, <1>2, <1>3, <1>5, LocalStep
     DEF SubmitReadConfig, PCs, Over, TypeOK, configVars

LEMMA SubmitKeeps ==
  ASSUME IInv, NEW r \in Submits, SubmitAnswers(r)
  PROVE  Kept(r)
<1> USE DEF IInv, Requests
<1>0. r \in Requests /\ r \notin Invites /\ r \notin Accesses /\ request[r] \in Locals
  BY DEF TypeOK
<1>1. /\ pc[r] = "submit" /\ pc'[r] \in {"publish", "ok"}
      /\ pc' = [pc EXCEPT ![r] = pc'[r]]
      /\ UNCHANGED <<now, configVars, invitation, startedAt, request, events>>
  BY <1>0 DEF SubmitAnswers, Goto, TypeOK
<1>2. PICK p \in request[r].invited :
        /\ answers' = [answers EXCEPT ![p] = Overlay(request[r].given, @)]
        /\ submission' = [submission EXCEPT ![p] = SubmittedStatus]
  BY DEF SubmitAnswers
<1>3. /\ p \in Participants
      /\ request[r].given \in [Questions -> Contents \cup {NULL}]
      /\ answers[p] \in [Questions -> Contents \cup {NULL}]
  BY <1>0 DEF Locals, TypeOK
<1>4. /\ request[r].given # NoAnswers
      /\ \E x \in Participants : request[r].invited = {x}
  BY <1>0, <1>1 DEF RequestFacts, Facts, SubmitFacts
<1> DEFINE new == Overlay(request[r].given, answers[p])
<1>5. /\ new \in [Questions -> Contents \cup {NULL}] /\ new # NoAnswers
      /\ \A q \in Questions : answers[p][q] # NULL => new[q] # NULL
      /\ \A q \in Questions : request[r].given[q] # NULL => new[q] # NULL
  BY <1>3, <1>4, OverlayKeeps
<1>6. /\ answers' = [answers EXCEPT ![p] = new]
      /\ submission' = [submission EXCEPT ![p] = "submitted"]
  BY <1>2 DEF SubmittedStatus
<1> HIDE DEF new
<1>7. TypeOK'
  BY <1>0, <1>1, <1>3, <1>5, <1>6 DEF TypeOK, PCs, configVars
<1>8. Grows
  BY <1>1, <1>3, <1>5, <1>6 DEF TypeOK, Grows
<1>9. AcceptedHasSubmission'
  BY <1>1, <1>3, <1>6 DEF TypeOK, AcceptedHasSubmission
<1>10. AnswersAndStatusTogether'
  BY <1>3, <1>5, <1>6 DEF TypeOK, AnswersAndStatusTogether, NoAnswers
<1>11. request[r].invited = {p}
  BY <1>3, <1>4
<1>12. Delivered(r)'
  BY <1>1, <1>3, <1>5, <1>6, <1>11 DEF TypeOK, Delivered
<1>13. \A e \in events : e.by # r
  BY <1>0, <1>1 DEF RequestFacts, Facts, EventFacts, Over
<1>14. Facts(r)'
  BY <1>0, <1>1, <1>3, <1>11, <1>12, <1>13 DEF Facts, SubmitFacts, EventFacts, Over
<1>15. Moves(r)
  BY <1>0, <1>1 DEF Moves, TypeOK
<1> QED
  BY <1>7, <1>8, <1>9, <1>10, <1>14, <1>15 DEF Kept

-----------------------------------------------------------------------------
(* What holds whatever step is taken: the invariant, and that no row goes  *)
(* back.                                                                   *)
StepKeeps == IInv' /\ Grows

LEMMA RequestStep ==
  ASSUME IInv, NEW r \in Requests, Kept(r)
  PROVE  StepKeeps
<1> USE DEF IInv, Kept
<1>1. ASSUME NEW s \in Requests
      PROVE  Facts(s)'
  <2>1. CASE s = r
    BY <2>1
  <2>2. CASE s # r
    <3>1. pc'[s] = pc[s] /\ request'[s] = request[s]
      BY <2>2 DEF Moves, TypeOK
    <3>2. \A e \in events' : e.by = s => e \in events
      BY <2>2 DEF Moves
    <3> QED
      BY <3>1, <3>2, OthersKeep DEF RequestFacts
  <2> QED
    BY <2>1, <2>2
<1> QED
  BY <1>1 DEF RequestFacts, StepKeeps

LEMMA InductiveStep ==
  ASSUME IInv, [Next]_vars
  PROVE  StepKeeps
<1> USE DEF IInv
<1>1. ASSUME UNCHANGED <<invitation, submissionVars, pc, request, events>>, TypeOK'
      PROVE  StepKeeps
  <2>1. Grows /\ AcceptedHasSubmission' /\ AnswersAndStatusTogether'
    BY <1>1, RowsKept
  <2>2. \A s \in Requests : Facts(s)'
    BY <1>1, <2>1, OthersKeep DEF RequestFacts
  <2> QED
    BY <1>1, <2>1, <2>2 DEF RequestFacts, StepKeeps
<1>2. CASE UNCHANGED vars
  <2>1. TypeOK'
    BY <1>2 DEF vars, TypeOK, configVars, submissionVars
  <2> QED
    BY <1>1, <1>2, <2>1 DEF vars
<1>3. CASE Tick
  <2>1. TypeOK'
    BY <1>3 DEF Tick, TypeOK, Times, configVars, submissionVars
  <2> QED
    BY <1>1, <1>3, <2>1 DEF Tick
<1>4. ASSUME NEW st \in AgentStatuses, NEW w \in BOOLEAN, UpdateAssessmentStatus(st, w)
      PROVE  StepKeeps
  <2>1. TypeOK'
    BY <1>4 DEF UpdateAssessmentStatus, TypeOK, Statuses, submissionVars
  <2> QED
    BY <1>1, <1>4, <2>1 DEF UpdateAssessmentStatus
<1>5. ASSUME NEW r \in Invites,
             \/ InviteReadConfig(r)
             \/ \E selected \in SUBSET Participants : InviteReadParticipants(r, selected)
             \/ \E p \in Participants : SendOne(r, p)
             \/ SendDone(r)
             \/ Activate(r)
      PROVE  StepKeeps
  BY <1>5, InviteKeeps, SendKeeps, RequestStep DEF Requests
<1>6. ASSUME NEW r \in Accesses,
             \/ \E p \in Participants : AccessReadConfig(r, p)
             \/ AccessCreate(r)
             \/ AccessAccept(r)
             \/ AccessReply(r)
      PROVE  StepKeeps
  <2>1. r \in Requests /\ r \notin Submits
    BY DEF Requests
  <2> QED
    BY <1>6, <2>1, AccessKeeps, AcceptKeeps, CreateKeeps, RequestStep
<1>7. ASSUME NEW r \in Submits,
             \/ \E p \in Participants, given \in [Questions -> Contents \cup {NULL}] \ {NoAnswers} :
                  SubmitReadConfig(r, p, given)
             \/ SubmitCreate(r)
             \/ SubmitAnswers(r)
      PROVE  StepKeeps
  <2>1. r \in Requests /\ r \notin Accesses
    BY DEF Requests
  <2> QED
    BY <1>7, <2>1, SubmitReads, SubmitKeeps, CreateKeeps, RequestStep
<1>8. ASSUME NEW r \in Requests, Publish(r) \/ PublishFails(r) \/ Fail(r)
      PROVE  StepKeeps
  BY <1>8, PublishKeeps, FailKeeps, RequestStep
<1> QED
  BY <1>2, <1>3, <1>4, <1>5, <1>6, <1>7, <1>8 DEF Next

LEMMA Inductive == Spec => []IInv
<1>1. IInv /\ [Next]_vars => IInv'
  BY InductiveStep DEF StepKeeps
<1> QED
  BY InductiveInit, <1>1, PTL DEF Spec

-----------------------------------------------------------------------------
(* Every variable keeps its type.                                          *)
THEOREM TypeCorrect == Spec => []TypeOK
<1>1. IInv => TypeOK
  BY DEF IInv
<1> QED
  BY Inductive, <1>1, PTL

(* An access creates the submissions row before it accepts the invitation, *)
(* and no route removes the row.                                           *)
THEOREM AcceptedSubmissions == Spec => []AcceptedHasSubmission
<1>1. IInv => AcceptedHasSubmission
  BY DEF IInv
<1> QED
  BY Inductive, <1>1, PTL

(* submit_answers writes the answers and the status in one transaction.    *)
THEOREM AnswersAtomic == Spec => []AnswersAndStatusTogether
<1>1. IInv => AnswersAndStatusTogether
  BY DEF IInv
<1> QED
  BY Inductive, <1>1, PTL

(* The submission is stored before submission-completed is published, and  *)
(* stays as it was announced.                                              *)
THEOREM CompletionAfterAnswers == Spec => []CompletionFollowsAnswers
<1>1. IInv => CompletionFollowsAnswers
  <2> SUFFICES ASSUME IInv, NEW e \in events, e.kind = "completed"
               PROVE  /\ e.participants = request[e.by].invited
                      /\ Delivered(e.by)
    BY DEF CompletionFollowsAnswers, Delivered
  <2>1. e.by \in Requests
    BY DEF IInv, TypeOK, Events
  <2>2. Facts(e.by)
    BY <2>1 DEF IInv, RequestFacts
  <2>3. e.by \in Submits
    <3>1. e.by \notin Accesses
      BY <2>2 DEF Facts, EventFacts
    <3> QED
      BY <2>1, <2>2, <3>1 DEF Facts, EventFacts, Requests
  <2> QED
    BY <2>2, <2>3 DEF Facts, EventFacts
<1> QED
  BY Inductive, <1>1, PTL

(* send_invitations updates every selected participant before it activates *)
(* the assessment, answers or publishes.                                   *)
THEOREM CompleteInvitations == Spec => []InvitationsAreComplete
<1>1. IInv => InvitationsAreComplete
  BY DEF IInv, RequestFacts, Facts, InviteFacts, EventFacts, Invited, Requests,
     InvitationsAreComplete
<1> QED
  BY Inductive, <1>1, PTL

(* create_submission leaves the status of a row that exists alone.         *)
THEOREM SubmittedStays == Spec => SubmittedIsForGood
<1>1. IInv /\ [Next]_vars =>
        [\A p \in Participants :
           submission[p] = "submitted" => submission'[p] = "submitted"]_vars
  BY InductiveStep DEF StepKeeps, Grows
<1> QED
  BY Inductive, <1>1, PTL DEF Spec, SubmittedIsForGood

(* submit_answers upserts the answers given and deletes none.              *)
THEOREM AnswersStay == Spec => AnswersAreNotDropped
<1>1. IInv /\ [Next]_vars =>
        [\A p \in Participants, q \in Questions :
           answers[p][q] # NULL => answers'[p][q] # NULL]_vars
  BY InductiveStep DEF StepKeeps, Grows
<1> QED
  BY Inductive, <1>1, PTL DEF Spec, AnswersAreNotDropped

-----------------------------------------------------------------------------
(* The refinement of SubmissionLifecycle.                                  *)

Told == {p \in Participants : \E e \in events : e.kind = "completed" /\ p \in e.participants}

(* A step that writes neither a submission nor an event of a hand-in.      *)
LEMMA LifecycleStutters ==
  ASSUME UNCHANGED <<submission, answers>>,
         \A e : e.kind = "completed" => (e \in events' <=> e \in events)
  PROVE  UNCHANGED Lifecycle!lifecycleVars
  BY DEF Lifecycle!lifecycleVars

(* create_submission opens a submission, or changes its started_at.        *)
LEMMA CreateOpens ==
  ASSUME IInv, NEW r \in Accesses \cup Submits, AccessCreate(r) \/ SubmitCreate(r)
  PROVE  [Lifecycle!Next]_(Lifecycle!lifecycleVars)
<1> USE DEF IInv
<1>1. PICK p \in request[r].invited : CreateSubmission(p)
  BY DEF AccessCreate, SubmitCreate
<1>2. p \in Participants
  BY DEF TypeOK, Locals, Requests
<1>3. UNCHANGED <<answers, events>>
  BY DEF AccessCreate, SubmitCreate
<1>4. CASE submission[p] = NULL
  <2>1. Lifecycle!Open(p)
    BY <1>1, <1>3, <1>4 DEF CreateSubmission, Lifecycle!Open
  <2> QED
    BY <1>2, <2>1 DEF Lifecycle!Next
<1>5. CASE submission[p] # NULL
  <2>1. submission' = submission
    BY <1>1, <1>2, <1>5 DEF CreateSubmission, TypeOK
  <2> QED
    BY <1>3, <2>1, LifecycleStutters
<1> QED
  BY <1>4, <1>5

(* submit_answers hands in.                                                *)
LEMMA SubmitHandsIn ==
  ASSUME IInv, NEW r \in Submits, SubmitAnswers(r)
  PROVE  Lifecycle!Next
<1> USE DEF IInv
<1>1. pc[r] = "submit" /\ UNCHANGED events /\ r \in Requests
  BY DEF SubmitAnswers, Requests
<1>2. PICK p \in request[r].invited :
        /\ answers' = [answers EXCEPT ![p] = Overlay(request[r].given, @)]
        /\ submission' = [submission EXCEPT ![p] = "submitted"]
  BY DEF SubmitAnswers, SubmittedStatus
<1>3. request[r].given # NoAnswers /\ submission[p] # NULL
  BY <1>1 DEF RequestFacts, Facts, SubmitFacts
<1>4. /\ p \in Participants
      /\ request[r].given \in [Questions -> Contents \cup {NULL}]
      /\ answers[p] \in [Questions -> Contents \cup {NULL}]
  BY <1>1 DEF Locals, TypeOK
<1> DEFINE new == Overlay(request[r].given, answers[p])
<1>5. /\ new \in [Questions -> Contents \cup {NULL}] /\ new # NoAnswers
      /\ Lifecycle!Kept(answers[p], new)
  BY <1>3, <1>4, OverlayKeeps DEF Lifecycle!Kept
<1>6. answers' = [answers EXCEPT ![p] = new]
  BY <1>2
<1> HIDE DEF new
<1>7. \E q \in Questions : new[q] # NULL
  BY <1>5 DEF NoAnswers
<1>8. Lifecycle!HandIn(p)
  BY <1>1, <1>2, <1>3, <1>5, <1>6, <1>7 DEF Lifecycle!HandIn
<1> QED
  BY <1>4, <1>8 DEF Lifecycle!Next

(* The publication of submission-completed tells the evaluator; that of an *)
(* invitation does not.                                                    *)
LEMMA PublishTells ==
  ASSUME IInv, NEW r \in Requests, Publish(r) \/ PublishFails(r)
  PROVE  [Lifecycle!Next]_(Lifecycle!lifecycleVars)
<1> USE DEF IInv
<1>1. /\ pc[r] = "publish"
      /\ UNCHANGED <<submission, answers>>
      /\ events' \in {events, events \cup {EventOf(r)}}
  BY DEF Publish, PublishFails, submissionVars
<1>2. CASE r \in Invites \/ events' = events
  <2>1. \A e : e.kind = "completed" => (e \in events' <=> e \in events)
    BY <1>1, <1>2 DEF EventOf
  <2> QED
    BY <1>1, <2>1, LifecycleStutters
<1>3. CASE r \notin Invites /\ events' = events \cup {EventOf(r)}
  <2>1. r \in Submits
    BY <1>1, <1>3 DEF RequestFacts, Facts, AccessFacts, Requests, Over
  <2>2. PICK p \in Participants : request[r].invited = {p}
    BY <1>1, <2>1 DEF RequestFacts, Facts, SubmitFacts
  <2>3. submission[p] = "submitted"
    BY <1>1, <2>1, <2>2 DEF RequestFacts, Facts, SubmitFacts, Delivered
  <2>4. EventOf(r).kind = "completed" /\ EventOf(r).participants = {p}
    BY <1>3, <2>2 DEF EventOf
  <2>5. Told' = Told \cup {p}
    BY <1>3, <2>2, <2>4 DEF Told
  <2>6. Lifecycle!Tell(p)
    BY <1>1, <2>3, <2>5 DEF Lifecycle!Tell, Told
  <2> QED
    BY <2>6 DEF Lifecycle!Next
<1> QED
  BY <1>1, <1>2, <1>3

(* Every step of a route, or of anybody else, is one of the lifecycle's.   *)
LEMMA LifecycleStep ==
  ASSUME IInv, [Next]_vars
  PROVE  [Lifecycle!Next]_(Lifecycle!lifecycleVars)
<1>1. CASE UNCHANGED <<submission, answers, events>>
  BY <1>1, LifecycleStutters
<1>2. ASSUME NEW r \in Accesses \cup Submits, AccessCreate(r) \/ SubmitCreate(r)
      PROVE  [Lifecycle!Next]_(Lifecycle!lifecycleVars)
  BY <1>2, CreateOpens
<1>3. ASSUME NEW r \in Submits, SubmitAnswers(r)
      PROVE  [Lifecycle!Next]_(Lifecycle!lifecycleVars)
  BY <1>3, SubmitHandsIn
<1>4. ASSUME NEW r \in Requests, Publish(r) \/ PublishFails(r)
      PROVE  [Lifecycle!Next]_(Lifecycle!lifecycleVars)
  BY <1>4, PublishTells
<1>5. \/ UNCHANGED <<submission, answers, events>>
      \/ \E r \in Accesses \cup Submits : AccessCreate(r) \/ SubmitCreate(r)
      \/ \E r \in Submits : SubmitAnswers(r)
      \/ \E r \in Requests : Publish(r) \/ PublishFails(r)
  BY DEF Next, vars, submissionVars, Tick, UpdateAssessmentStatus, InviteReadConfig,
     InviteReadParticipants, SendOne, SendDone, Activate, AccessReadConfig,
     AccessAccept, AccessReply, SubmitReadConfig, Fail
<1> QED
  BY <1>1, <1>2, <1>3, <1>4, <1>5

(* The routes implement the life of a submission: opened once, handed in   *)
(* without losing an answer, and announced when it is in.                  *)
THEOREM LifecycleRefined == Spec => RefinesSubmissionLifecycle
<1>1. Init => Lifecycle!Init
  BY DEF Init, Lifecycle!Init, NoAnswers
<1> QED
  BY Inductive, LifecycleStep, <1>1, PTL DEF Spec, RefinesSubmissionLifecycle, Lifecycle!Spec
=============================================================================
