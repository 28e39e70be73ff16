----------------------- MODULE PubSubPublisher_proofs -----------------------
(***************************************************************************)
(* Proofs about PubSubPublisher, for any calls and any number of attempts: *)
(* the event ids, the spent attempts, and the publication the handlers     *)
(* rely on.                                                                *)
(***************************************************************************)
EXTENDS PubSubPublisher, TLAPS, FiniteSetTheorems, SequenceTheorems

USE MaxRetriesAssumption

Delays == {2 ^ k : k \in 1..MaxRetries}

Types == /\ pc \in [Calls -> PCs]
         /\ envelope \in [Calls -> Nat]
         /\ attempt \in [Calls -> 0..MaxRetries]
         /\ sleeps \in [Calls -> Seq(Delays)]
         /\ drawn \in Nat
         /\ topic \cup inFlight \subseteq
              [call : Calls, event_id : Nat, attempt : 1..MaxRetries]

(* An envelope's event id was drawn for it alone.                          *)
Envelopes ==
  /\ \A c \in Calls : /\ envelope[c] = 0 <=> pc[c] = "idle"
                      /\ envelope[c] <= drawn
  /\ \A c, d \in Calls : envelope[c] = envelope[d] /\ envelope[c] # 0 => c = d

(* A message is its call's envelope, sent by an attempt made so far.       *)
MessagesSent ==
  \A m \in topic \cup inFlight :
    /\ pc[m.call] # "idle"
    /\ m.event_id = envelope[m.call]
    /\ m.attempt <= attempt[m.call]

(* Between two attempts a call has slept once, twice as long every time.   *)
Attempts ==
  \A c \in Calls :
    /\ \A i \in 1..Len(sleeps[c]) : sleeps[c][i] = 2 ^ i
    /\ pc[c] = "idle" => attempt[c] = 0 /\ sleeps[c] = <<>>
    /\ pc[c] \in {"send", "wait"} => attempt[c] # 0 /\ Len(sleeps[c]) = attempt[c] - 1
    /\ pc[c] = "sleep" =>
         attempt[c] # 0 /\ attempt[c] < MaxRetries /\ Len(sleeps[c]) = attempt[c]
    /\ pc[c] = "raised" =>
         \/ attempt[c] = MaxRetries /\ Len(sleeps[c]) = MaxRetries - 1
         \/ attempt[c] = 0 /\ sleeps[c] = <<>>

IInv == Types /\ Envelopes /\ MessagesSent /\ Attempts

-----------------------------------------------------------------------------
LEMMA InductiveInit == Init => IInv
<1> SUFFICES ASSUME Init PROVE IInv
  OBVIOUS
<1>1. <<>> \in Seq(Delays)
  BY EmptySeq
<1>2. Types
  BY <1>1 DEF Init, Types, PCs, Ended
<1>3. Envelopes /\ MessagesSent /\ Attempts
  BY EmptySeq DEF Init, Envelopes, MessagesSent, Attempts
<1> QED
  BY <1>2, <1>3 DEF IInv

(* The beginning of a call: its envelope is fresh.                         *)
LEMMA BeginStep ==
  ASSUME IInv, NEW c \in Calls, BuildEnvelope(c) \/ NoPublisher(c)
  PROVE  IInv'
<1> USE DEF IInv
<1>1. /\ pc[c] = "idle" /\ drawn' = drawn + 1
      /\ envelope' = [envelope EXCEPT ![c] = drawn + 1]
      /\ UNCHANGED <<sleeps, inFlight, topic>>
      /\ \/ pc' = [pc EXCEPT ![c] = "send"] /\ attempt' = [attempt EXCEPT ![c] = 1]
         \/ pc' = [pc EXCEPT ![c] = "raised"] /\ UNCHANGED attempt
  BY DEF BuildEnvelope, NoPublisher, Goto
<1>2. Types'
  <2>1. pc' \in [Calls -> PCs] /\ attempt' \in [Calls -> 0..MaxRetries]
    <3>1. 1 \in 0..MaxRetries /\ "send" \in PCs /\ "raised" \in PCs
      BY DEF PCs, Ended
    <3>2. pc' \in [Calls -> PCs]
      BY <1>1, <3>1 DEF Types
    <3>3. attempt' \in [Calls -> 0..MaxRetries]
      BY <1>1, <3>1 DEF Types
    <3> QED
      BY <3>2, <3>3
  <2>2. envelope' \in [Calls -> Nat] /\ drawn' \in Nat
    BY <1>1 DEF Types
  <2> QED
    BY <1>1, <2>1, <2>2 DEF Types
<1>3. Envelopes'
  <2>1. \A d \in Calls : envelope'[d] = IF d = c THEN drawn + 1 ELSE envelope[d]
    BY <1>1 DEF Types
  <2>2. \A d \in Calls : d # c => pc'[d] = pc[d]
    BY <1>1 DEF Types
  <2>3. pc'[c] # "idle"
    BY <1>1 DEF Types
  <2> QED
    BY <1>1, <2>1, <2>2, <2>3 DEF Types, Envelopes
<1>4. MessagesSent'
  <2> SUFFICES ASSUME NEW m \in topic \cup inFlight
               PROVE  /\ pc'[m.call] # "idle" /\ m.event_id = envelope'[m.call]
                      /\ m.attempt <= attempt'[m.call]
    BY <1>1 DEF MessagesSent
  <2>1. m.call \in Calls /\ m.call # c
    BY <1>1 DEF Types, MessagesSent
  <2>2. /\ pc'[m.call] = pc[m.call] /\ envelope'[m.call] = envelope[m.call]
        /\ attempt'[m.call] = attempt[m.call]
    BY <1>1, <2>1 DEF Types
  <2> QED
    BY <2>2 DEF MessagesSent
<1>5. Attempts'
  <2>1. sleeps[c] = <<>> /\ attempt[c] = 0 /\ Len(sleeps[c]) = 0
    BY <1>1, EmptySeq DEF Attempts
  <2>2. ASSUME NEW d \in Calls, d # c
        PROVE  pc'[d] = pc[d] /\ attempt'[d] = attempt[d] /\ sleeps'[d] = sleeps[d]
    BY <1>1, <2>2 DEF Types
  <2>3. /\ sleeps'[c] = <<>> /\ Len(sleeps'[c]) = 0
        /\ \/ pc'[c] = "send" /\ attempt'[c] = 1
           \/ pc'[c] = "raised" /\ attempt'[c] = 0
    BY <1>1, <2>1 DEF Types
  <2> QED
    BY <2>2, <2>3 DEF Attempts
<1> QED
  BY <1>2, <1>3, <1>4, <1>5

(* The steps of the retry loop, and its cancellation, keep the envelopes.  *)
LEMMA LoopStep ==
  ASSUME IInv, NEW c \in Calls, Loop(c) \/ Cancel(c)
  PROVE  IInv'
<1> USE DEF IInv
<1>1. CASE Send(c)
  <2> DEFINE m == [call |-> c, event_id |-> envelope[c], attempt |-> attempt[c]]
  <2>1. /\ pc[c] = "send" /\ pc' = [pc EXCEPT ![c] = "wait"]
        /\ inFlight' = inFlight \cup {m}
        /\ UNCHANGED <<client, envelope, attempt, sleeps, topic, drawn>>
    BY <1>1 DEF Send, Goto
  <2>2. attempt[c] \in 1..MaxRetries
    BY <2>1 DEF Types, Attempts
  <2>3. /\ m \in [call : Calls, event_id : Nat, attempt : 1..MaxRetries]
        /\ m.call = c /\ m.event_id = envelope[c] /\ m.attempt = attempt[c]
    BY <2>2 DEF Types
  <2> HIDE DEF m
  <2>4. Types'
    BY <2>1, <2>3 DEF Types, PCs, Ended
  <2>5. Envelopes'
    BY <2>1 DEF Types, Envelopes
  <2>6. \A d \in Calls : pc'[d] = "idle" => pc[d] = "idle"
    BY <2>1 DEF Types
  <2>7. MessagesSent'
    <3>1. \A n \in topic \cup inFlight : n.call \in Calls
      BY DEF Types
    <3>2. pc'[c] # "idle"
      BY <2>1 DEF Types
    <3> QED
      BY <2>1, <2>2, <2>3, <2>6, <3>1, <3>2 DEF MessagesSent
  <2>8. Attempts'
    BY <2>1 DEF Types, Attempts
  <2> QED
    BY <2>4, <2>5, <2>7, <2>8
<1>2. ASSUME pc[c] # "idle", pc'[c] # "idle", attempt[c] <= attempt'[c],
             \A d \in Calls : d # c => pc'[d] = pc[d] /\ attempt'[d] = attempt[d],
             pc' \in [Calls -> PCs], attempt' \in [Calls -> 0..MaxRetries],
             sleeps' \in [Calls -> Seq(Delays)],
             UNCHANGED <<envelope, drawn, topic, inFlight>>
      PROVE  Types' /\ Envelopes' /\ MessagesSent'
  <2>1. Types'
    BY <1>2 DEF Types
  <2>2. \A d \in Calls : pc'[d] = "idle" <=> pc[d] = "idle"
    BY <1>2
  <2>3. Envelopes'
    BY <1>2, <2>2 DEF Envelopes
  <2>4. MessagesSent'
    <3> SUFFICES ASSUME NEW m \in topic \cup inFlight
                 PROVE  /\ pc'[m.call] # "idle" /\ m.event_id = envelope[m.call]
                        /\ m.attempt <= attempt'[m.call]
      BY <1>2 DEF MessagesSent
    <3>1. /\ m.call \in Calls /\ m.attempt \in Nat
          /\ attempt[m.call] \in Nat /\ attempt'[m.call] \in Nat
      BY <1>2 DEF Types
    <3>2. /\ pc[m.call] # "idle" /\ m.event_id = envelope[m.call]
          /\ m.attempt <= attempt[m.call]
      BY DEF MessagesSent
    <3>3. CASE m.call = c
      BY <1>2, <3>1, <3>2, <3>3
    <3>4. CASE m.call # c
      BY <1>2, <3>1, <3>2, <3>4
    <3> QED
      BY <3>3, <3>4
  <2> QED
    BY <2>1, <2>3, <2>4
<1>3. ASSUME NEW label \in PCs \ {"idle"}, pc' = [pc EXCEPT ![c] = label], pc[c] # "idle",
             UNCHANGED <<envelope, attempt, inFlight, topic, drawn>>,
             sleeps' \in [Calls -> Seq(Delays)]
      PROVE  Types' /\ Envelopes' /\ MessagesSent'
  <2>1. /\ pc'[c] = label /\ pc' \in [Calls -> PCs]
        /\ \A d \in Calls : d # c => pc'[d] = pc[d] /\ attempt'[d] = attempt[d]
    BY <1>3 DEF Types
  <2>2. attempt' \in [Calls -> 0..MaxRetries] /\ attempt[c] <= attempt'[c]
    BY <1>3 DEF Types
  <2> QED
    BY <1>2, <1>3, <2>1, <2>2
<1>4. CASE ResultReturns(c)
  <2>1. /\ pc[c] = "wait" /\ pc' = [pc EXCEPT ![c] = "returned"]
        /\ UNCHANGED <<client, envelope, attempt, sleeps, inFlight, topic, drawn>>
    BY <1>4 DEF ResultReturns, Goto
  <2>2. sleeps' \in [Calls -> Seq(Delays)]
    BY <2>1 DEF Types
  <2>3. Types' /\ Envelopes' /\ MessagesSent'
    BY <1>3, <2>1, <2>2 DEF PCs, Ended
  <2>4. Attempts'
    BY <2>1 DEF Types, Attempts
  <2> QED
    BY <2>3, <2>4
<1>5. CASE AttemptRaises(c)
  <2>1. /\ pc[c] \in {"send", "wait"}
        /\ UNCHANGED <<client, envelope, attempt, inFlight, topic, drawn>>
    BY <1>5 DEF AttemptRaises
  <2>2. attempt[c] \in 1..MaxRetries /\ attempt'[c] = attempt[c]
    BY <2>1 DEF Types, Attempts
  <2>3. CASE LastAttempt(c)
    <3>1. pc' = [pc EXCEPT ![c] = "raised"] /\ sleeps' = sleeps
      BY <1>5, <2>3 DEF AttemptRaises, Goto
    <3>2. Types' /\ Envelopes' /\ MessagesSent'
      <4>1. sleeps' \in [Calls -> Seq(Delays)]
        BY <3>1 DEF Types
      <4> QED
        BY <1>3, <2>1, <3>1, <4>1 DEF PCs, Ended
    <3>3. attempt[c] = MaxRetries /\ Len(sleeps[c]) = MaxRetries - 1
      BY <2>1, <2>2, <2>3 DEF LastAttempt, Attempts
    <3>4. Attempts'
      BY <2>1, <3>1, <3>3 DEF Types, Attempts
    <3> QED
      BY <3>2, <3>4
  <2>4. CASE ~LastAttempt(c)
    <3> DEFINE longer == Append(sleeps[c], 2 ^ attempt[c])
    <3>1. /\ pc' = [pc EXCEPT ![c] = "sleep"]
          /\ sleeps' = [sleeps EXCEPT ![c] = longer]
      BY <1>5, <2>4 DEF AttemptRaises, Goto
    <3>2. sleeps[c] \in Seq(Delays) /\ 2 ^ attempt[c] \in Delays
      BY <2>2 DEF Types, Delays
    <3>3. /\ longer \in Seq(Delays) /\ Len(longer) = Len(sleeps[c]) + 1
          /\ \A i \in 1..Len(sleeps[c]) : longer[i] = sleeps[c][i]
          /\ longer[Len(sleeps[c]) + 1] = 2 ^ attempt[c]
      BY <3>2, AppendProperties
    <3> HIDE DEF longer
    <3>4. sleeps' \in [Calls -> Seq(Delays)]
      BY <3>1, <3>3 DEF Types
    <3>5. Types' /\ Envelopes' /\ MessagesSent'
      BY <1>3, <2>1, <3>1, <3>4 DEF PCs, Ended
    <3>6. attempt[c] < MaxRetries /\ Len(sleeps[c]) = attempt[c] - 1
      BY <2>1, <2>2, <2>4 DEF LastAttempt, Attempts
    <3>7. /\ pc'[c] = "sleep" /\ attempt'[c] = attempt[c]
          /\ sleeps'[c] = longer /\ Len(longer) = attempt[c]
      BY <2>1, <2>2, <3>1, <3>3, <3>6 DEF Types
    <3>8. \A d \in Calls : d # c => pc'[d] = pc[d] /\ sleeps'[d] = sleeps[d]
      BY <3>1 DEF Types
    <3>9. \A i \in 1..Len(longer) : longer[i] = 2 ^ i
      <4>1. \A i \in 1..Len(longer) : i \in 1..Len(sleeps[c]) \/ i = Len(sleeps[c]) + 1
        BY <2>2, <3>3, <3>6
      <4>2. attempt[c] = Len(sleeps[c]) + 1
        BY <2>2, <3>2, <3>6, LenProperties
      <4> QED
        BY <3>3, <4>1, <4>2 DEF Attempts
    <3>10. Attempts'
      <4> SUFFICES ASSUME NEW d \in Calls
                   PROVE  /\ \A i \in 1..Len(sleeps'[d]) : sleeps'[d][i] = 2 ^ i
                          /\ pc'[d] = "idle" => attempt'[d] = 0 /\ sleeps'[d] = <<>>
                          /\ pc'[d] \in {"send", "wait"} =>
                               attempt'[d] # 0 /\ Len(sleeps'[d]) = attempt'[d] - 1
                          /\ pc'[d] = "sleep" =>
                               /\ attempt'[d] # 0 /\ attempt'[d] < MaxRetries
                               /\ Len(sleeps'[d]) = attempt'[d]
                          /\ pc'[d] = "raised" =>
                               \/ attempt'[d] = MaxRetries /\ Len(sleeps'[d]) = MaxRetries - 1
                               \/ attempt'[d] = 0 /\ sleeps'[d] = <<>>
        BY DEF Attempts
      <4>1. CASE d = c
        BY <2>2, <3>6, <3>7, <3>9, <4>1
      <4>2. CASE d # c
        <5>1. pc'[d] = pc[d] /\ sleeps'[d] = sleeps[d] /\ attempt' = attempt
          BY <2>1, <3>8, <4>2
        <5> QED
          BY <5>1 DEF Attempts
      <4> QED
        BY <4>1, <4>2
    <3> QED
      BY <3>5, <3>10
  <2> QED
    BY <2>3, <2>4
<1>6. CASE Wake(c)
  <2>1. /\ pc[c] = "sleep" /\ pc' = [pc EXCEPT ![c] = "send"]
        /\ attempt' = [attempt EXCEPT ![c] = attempt[c] + 1]
        /\ UNCHANGED <<client, envelope, sleeps, inFlight, topic, drawn>>
    BY <1>6 DEF Wake, Goto
  <2>2. attempt[c] \in Nat /\ attempt[c] < MaxRetries /\ Len(sleeps[c]) = attempt[c]
    BY <2>1 DEF Types, Attempts
  <2>3. attempt[c] + 1 \in 1..MaxRetries
    BY <2>2
  <2>4. Types' /\ Envelopes' /\ MessagesSent'
    <3>1. /\ pc'[c] = "send" /\ pc' \in [Calls -> PCs]
          /\ sleeps' \in [Calls -> Seq(Delays)]
      BY <2>1 DEF Types, PCs, Ended
    <3>2. attempt'[c] = attempt[c] + 1 /\ attempt' \in [Calls -> 0..MaxRetries]
      BY <2>1, <2>3 DEF Types
    <3>3. \A d \in Calls : d # c => pc'[d] = pc[d] /\ attempt'[d] = attempt[d]
      BY <2>1 DEF Types
    <3> QED
      BY <1>2, <2>1, <2>2, <3>1, <3>2, <3>3
  <2>5. /\ pc'[c] = "send" /\ attempt'[c] = attempt[c] + 1 /\ sleeps' = sleeps
        /\ Len(sleeps[c]) = attempt[c]
    BY <2>1, <2>2 DEF Types
  <2>6. \A d \in Calls : d # c => pc'[d] = pc[d] /\ attempt'[d] = attempt[d]
    BY <2>1 DEF Types
  <2>7. Attempts'
    BY <2>1, <2>2, <2>5, <2>6 DEF Attempts
  <2> QED
    BY <2>4, <2>7
<1>7. CASE Cancel(c)
  <2>1. /\ pc[c] \in {"wait", "sleep"} /\ pc' = [pc EXCEPT ![c] = "cancelled"]
        /\ UNCHANGED <<client, envelope, attempt, sleeps, inFlight, topic, drawn>>
    BY <1>7 DEF Cancel, Goto
  <2>2. sleeps' \in [Calls -> Seq(Delays)]
    BY <2>1 DEF Types
  <2>3. Types' /\ Envelopes' /\ MessagesSent'
    BY <1>3, <2>1, <2>2 DEF PCs, Ended
  <2>4. Attempts'
    BY <2>1 DEF Types, Attempts
  <2> QED
    BY <2>3, <2>4
<1> QED
  BY <1>1, <1>4, <1>5, <1>6, <1>7 DEF Loop

(* The network stores or loses what was sent.                              *)
LEMMA NetworkStep ==
  ASSUME IInv, NEW m \in inFlight, Store(m) \/ Lose(m)
  PROVE  IInv'
<1> USE DEF IInv
<1>1. /\ topic' \cup inFlight' \subseteq topic \cup inFlight
      /\ UNCHANGED <<client, pc, envelope, attempt, sleeps, drawn>>
  BY DEF Store, Lose
<1>2. Types' /\ Envelopes' /\ Attempts'
  BY <1>1 DEF Types, Envelopes, Attempts
<1>3. MessagesSent'
  BY <1>1 DEF MessagesSent
<1> QED
  BY <1>2, <1>3

LEMMA InductiveStep ==
  ASSUME IInv, [Next]_vars
  PROVE  IInv'
<1>1. CASE UNCHANGED vars
  BY <1>1 DEF vars, IInv, Types, Envelopes, MessagesSent, Attempts
<1> QED
  BY <1>1, BeginStep, LoopStep, NetworkStep DEF Next

LEMMA Inductive == Spec => []IInv
  BY InductiveInit, InductiveStep, PTL DEF Spec

-----------------------------------------------------------------------------
(* _build_envelope runs once per call: one event_id for all its messages,  *)
(* and no other call's.                                                    *)
THEOREM Deduplicable == Spec => []DeduplicableByEventId
<1>1. IInv => DeduplicableByEventId
  <2> SUFFICES ASSUME IInv, NEW m \in topic \cup inFlight, NEW n \in topic \cup inFlight
               PROVE  m.call = n.call <=> m.event_id = n.event_id
    BY DEF DeduplicableByEventId
  <2>1. m.call \in Calls /\ n.call \in Calls
    BY DEF IInv, Types
  <2>2. m.event_id = envelope[m.call] /\ n.event_id = envelope[n.call] /\ m.event_id # 0
    BY <2>1 DEF IInv, MessagesSent, Envelopes
  <2> QED
    BY <2>1, <2>2 DEF IInv, Envelopes
<1> QED
  BY Inductive, <1>1, PTL

(* The messages of a call are numbered by its attempts.                    *)
LEMMA MessagesPerCall ==
  ASSUME IInv, NEW c \in Calls
  PROVE  Cardinality({m \in topic \cup inFlight : m.call = c}) <= attempt[c]
<1> DEFINE sent == {m \in topic \cup inFlight : m.call = c}
           number == [m \in sent |-> m.attempt]
<1>1. attempt[c] \in Nat
  BY DEF IInv, Types
<1>2. \A m \in sent :
        /\ m \in [call : Calls, event_id : Nat, attempt : 1..MaxRetries]
        /\ m.call = c /\ m.event_id = envelope[c] /\ m.attempt \in 1..attempt[c]
  BY <1>1 DEF IInv, Types, MessagesSent
<1>3. \A m, n \in sent : m.attempt = n.attempt => m = n
  BY <1>2
<1> HIDE DEF sent
<1>4. number \in Injection(sent, 1..attempt[c])
  BY <1>2, <1>3 DEF Injection, IsInjective
<1>5. IsFiniteSet(1..attempt[c]) /\ Cardinality(1..attempt[c]) = attempt[c]
  BY <1>1, FS_Interval
<1> HIDE DEF number
<1>6. Cardinality(sent) <= attempt[c]
  BY <1>4, <1>5, FS_Injection
<1> QED
  BY <1>6 DEF sent

(* The loop of _publish_async sends at most once per attempt, sleeps twice *)
(* as long after each but the last, and raises what they raised only after *)
(* max_retries of them; a cancelled call may have made any number.         *)
THEOREM Spent == Spec => []AttemptsAreSpent
<1>1. IInv => AttemptsAreSpent
  BY MessagesPerCall DEF IInv, Attempts, AttemptsAreSpent
<1> QED
  BY Inductive, <1>1, PTL

-----------------------------------------------------------------------------
(* A call that returns has its event stored; one that raises may have.     *)
THEOREM Refinement == Spec => RefinesPublication
<1> DEFINE Outcome == [c \in Calls |->
                         CASE pc[c] \in {"returned", "raised", "idle"} -> pc[c]
                           [] pc[c] = "cancelled" -> "raised"
                           [] OTHER -> "pending"]
           Stored == {m.call : m \in topic}
<1>1. Init => Channel!Init
  BY DEF Init, Channel!Init
<1>2. IInv /\ [Next]_vars => [Channel!Next]_Channel!publicationVars
  <2> SUFFICES ASSUME IInv, [Next]_vars
               PROVE  Channel!Next \/ UNCHANGED <<Outcome, Stored>>
    BY DEF Channel!publicationVars
  <2>1. ASSUME NEW c \in Calls, BuildEnvelope(c)
        PROVE  Channel!Begin(c)
    BY <2>1 DEF BuildEnvelope, Goto, IInv, Types, Channel!Begin
  <2>2. ASSUME NEW c \in Calls, NoPublisher(c)
        PROVE  Channel!Raise(c)
    BY <2>2 DEF NoPublisher, Goto, IInv, Types, Channel!Raise
  <2>3. ASSUME NEW c \in Calls, Send(c) \/ Wake(c)
        PROVE  UNCHANGED <<Outcome, Stored>>
    BY <2>3 DEF Send, Wake, Goto, IInv, Types
  <2>4. ASSUME NEW c \in Calls, ResultReturns(c)
        PROVE  Channel!Return(c)
    BY <2>4 DEF ResultReturns, Goto, IInv, Types, Channel!Return
  <2>5. ASSUME NEW c \in Calls, AttemptRaises(c)
        PROVE  Channel!Raise(c) \/ UNCHANGED <<Outcome, Stored>>
    <3>1. CASE LastAttempt(c)
      BY <2>5, <3>1 DEF AttemptRaises, Goto, IInv, Types, Channel!Raise
    <3>2. CASE ~LastAttempt(c)
      BY <2>5, <3>2 DEF AttemptRaises, Goto, IInv, Types
    <3> QED
      BY <3>1, <3>2
  <2>6. ASSUME NEW c \in Calls, Cancel(c)
        PROVE  Channel!Raise(c)
    BY <2>6 DEF Cancel, Goto, IInv, Types, Channel!Raise
  <2>7. ASSUME NEW m \in inFlight, Store(m)
        PROVE  m.call \in Calls /\ Channel!Store(m.call)
    <3>1. m.call \in Calls /\ pc[m.call] # "idle"
      BY DEF IInv, Types, MessagesSent
    <3>2. pc' = pc /\ topic' = topic \cup {m}
      BY <2>7 DEF Store
    <3> QED
      BY <3>1, <3>2 DEF Channel!Store
  <2>8. ASSUME NEW m \in inFlight, Lose(m)
        PROVE  UNCHANGED <<Outcome, Stored>>
    BY <2>8 DEF Lose
  <2>9. CASE UNCHANGED vars
    BY <2>9 DEF vars
  <2> HIDE DEF Outcome, Stored
  <2> QED
    BY <2>1, <2>2, <2>3, <2>4, <2>5, <2>6, <2>7, <2>8, <2>9 DEF Next, Loop, Channel!Next
<1> QED
  BY Inductive, <1>1, <1>2, PTL DEF Spec, RefinesPublication, Channel!Spec
=============================================================================
