-------------------------- MODULE PubSubPublisher --------------------------
(***************************************************************************)
(* services/pubsub.py: calls of the publish_* functions.  Each builds one  *)
(* envelope and hands it to _publish_async, which sends it up to           *)
(* MaxRetries times.  An attempt whose future raises may have reached the  *)
(* topic all the same, or reach it later, even after the call has raised.  *)
(* A call that is cancelled, by its caller or by the stop of the server,   *)
(* is so at one of its awaits, whatever attempts are left.                 *)
(***************************************************************************)
EXTENDS Integers, FiniteSets, Sequences

CONSTANTS Calls,       \* calls of publish_*
          MaxRetries,  \* the argument max_retries
          MaxEventIds  \* bound on the event ids ever drawn

ASSUME MaxRetriesAssumption == MaxRetries \in Nat \ {0}

VARIABLES client,    \* the process has made its PublisherClient
          pc,        \* where each call is
          envelope,  \* event_id of the envelope a call built, 0 before
          attempt,   \* the loop variable of _publish_async
          sleeps,    \* the delays each call has slept, in order
          inFlight,  \* messages sent and neither stored nor lost yet
          topic,     \* messages the topic has stored
          drawn      \* number of event ids drawn, each a fresh uuid4

vars == <<client, pc, envelope, attempt, sleeps, inFlight, topic, drawn>>

-----------------------------------------------------------------------------
EventIds == 1..MaxEventIds
Messages == [call : Calls, event_id : EventIds, attempt : 1..MaxRetries]
Ended == {"returned", "raised", "cancelled"}
PCs == {"idle", "send", "wait", "sleep"} \cup Ended

Init == /\ client = FALSE
        /\ pc = [c \in Calls |-> "idle"]
        /\ envelope = [c \in Calls |-> 0]
        /\ attempt = [c \in Calls |-> 0]
        /\ sleeps = [c \in Calls |-> <<>>]
        /\ inFlight = {}
        /\ topic = {}
        /\ drawn = 0

Goto(c, label) == pc' = [pc EXCEPT ![c] = label]

(* _build_envelope, once per call, and _get_publisher, whose client is     *)
(* made by the first call and kept for the life of the process.            *)
BuildEnvelope(c) ==
  /\ pc[c] = "idle"
  /\ drawn < MaxEventIds
  /\ drawn' = drawn + 1
  /\ envelope' = [envelope EXCEPT ![c] = drawn + 1]
  /\ client' = TRUE
  /\ attempt' = [attempt EXCEPT ![c] = 1]
  /\ Goto(c, "send")
  /\ UNCHANGED <<sleeps, inFlight, topic>>

(* The client cannot be made: the call raises outside the retry loop.      *)
NoPublisher(c) ==
  /\ pc[c] = "idle"
  /\ ~client
  /\ drawn < MaxEventIds
  /\ drawn' = drawn + 1
  /\ envelope' = [envelope EXCEPT ![c] = drawn + 1]
  /\ Goto(c, "raised")
  /\ UNCHANGED <<client, attempt, sleeps, inFlight, topic>>

(* An envelope rebuilt at every attempt.                                   *)
SendRebuilt(c) ==
  /\ pc[c] = "send"
  /\ drawn < MaxEventIds
  /\ drawn' = drawn + 1
  /\ inFlight' = inFlight \cup
       {[call |-> c, event_id |-> drawn + 1, attempt |-> attempt[c]]}
  /\ Goto(c, "wait")
  /\ UNCHANGED <<client, envelope, attempt, sleeps, topic>>

(* publisher.publish(topic, data)                                          *)
Send(c) ==
  /\ pc[c] = "send"
  /\ inFlight' = inFlight \cup
       {[call |-> c, event_id |-> envelope[c], attempt |-> attempt[c]]}
  /\ Goto(c, "wait")
  /\ UNCHANGED <<client, envelope, attempt, sleeps, topic, drawn>>

(* A publish whose future is not awaited.                                  *)
ResultNotAwaited(c) ==
  /\ pc[c] = "wait"
  /\ Goto(c, "returned")
  /\ UNCHANGED <<client, envelope, attempt, sleeps, inFlight, topic, drawn>>

(* future.result() returns: the topic has stored this attempt.             *)
ResultReturns(c) ==
  /\ pc[c] = "wait"
  /\ \E m \in topic : m.call = c /\ m.attempt = attempt[c]
  /\ Goto(c, "returned")
  /\ UNCHANGED <<client, envelope, attempt, sleeps, inFlight, topic, drawn>>

(* One attempt too many.                                                   *)
LastAttemptOffByOne(c) == attempt[c] > MaxRetries

LastAttempt(c) == attempt[c] >= MaxRetries

(* publish or future.result() raises: sleep 2**attempt seconds, or give up *)
(* and raise last_error.                                                   *)
AttemptRaises(c) ==
  /\ pc[c] \in {"send", "wait"}
  /\ IF LastAttempt(c)
     THEN Goto(c, "raised") /\ UNCHANGED sleeps
     ELSE /\ Goto(c, "sleep")
          /\ sleeps' = [sleeps EXCEPT ![c] = Append(@, 2 ^ attempt[c])]
  /\ UNCHANGED <<client, envelope, attempt, inFlight, topic, drawn>>

(* The retry loop starts over with the first attempt.                      *)
WakeFromStart(c) ==
  /\ pc[c] = "sleep"
  /\ attempt' = [attempt EXCEPT ![c] = 1]
  /\ sleeps' = [sleeps EXCEPT ![c] = <<>>]
  /\ Goto(c, "send")
  /\ UNCHANGED <<client, envelope, inFlight, topic, drawn>>

Wake(c) ==
  /\ pc[c] = "sleep"
  /\ attempt' = [attempt EXCEPT ![c] = @ + 1]
  /\ Goto(c, "send")
  /\ UNCHANGED <<client, envelope, sleeps, inFlight, topic, drawn>>

(* CancelledError out of future.result or sleep: no Exception, so that the *)
(* loop does not catch it.                                                 *)
Cancel(c) ==
  /\ pc[c] \in {"wait", "sleep"}
  /\ Goto(c, "cancelled")
  /\ UNCHANGED <<client, envelope, attempt, sleeps, inFlight, topic, drawn>>

-----------------------------------------------------------------------------
(* The network between the client and the topic.                           *)
Store(m) ==
  /\ topic' = topic \cup {m}
  /\ inFlight' = inFlight \ {m}
  /\ UNCHANGED <<client, pc, envelope, attempt, sleeps, drawn>>

Lose(m) ==
  /\ inFlight' = inFlight \ {m}
  /\ UNCHANGED <<client, pc, envelope, attempt, sleeps, topic, drawn>>

-----------------------------------------------------------------------------
Loop(c) == Send(c) \/ ResultReturns(c) \/ AttemptRaises(c) \/ Wake(c)

Next == \/ \E c \in Calls : BuildEnvelope(c) \/ NoPublisher(c) \/ Loop(c) \/ Cancel(c)
        \/ \E m \in inFlight : Store(m) \/ Lose(m)

Spec == Init /\ [][Next]_vars

(* The event loop and the executor run every call on; a future is resolved *)
(* in the end, since the client gives each publish a deadline.             *)
FairSpec == Spec /\ \A c \in Calls : WF_vars(Loop(c))

-----------------------------------------------------------------------------
(* Whatever is retried, lost and stored late, the messages of a call carry *)
(* one event_id and no other call has it: a subscriber that drops the      *)
(* event ids it has seen handles each call once.                           *)
DeduplicableByEventId ==
  \A m, n \in topic \cup inFlight : m.call = n.call <=> m.event_id = n.event_id

(* A call never puts more than one message per attempt on the network, and *)
(* raises an error of its attempts only after the last of them, having     *)
(* slept 2, 4, ... 2^(MaxRetries-1) seconds between them and not at all    *)
(* after the last: of the "2s, 4s, 8s" that pubsub.py:157 speaks of, three *)
(* attempts sleep the first two.  A call without a client raises before    *)
(* its first attempt, a cancelled one ends wherever it is.                 *)
AttemptsAreSpent ==
  \A c \in Calls :
    /\ Cardinality({m \in topic \cup inFlight : m.call = c}) <= attempt[c]
    /\ \A i \in 1..Len(sleeps[c]) : sleeps[c][i] = 2 ^ i
    /\ pc[c] = "raised" =>
         \/ attempt[c] = MaxRetries /\ Len(sleeps[c]) = MaxRetries - 1
         \/ attempt[c] = 0 /\ sleeps[c] = <<>>

(* The publication the handlers rely on, without attempts.                 *)
Channel == INSTANCE Publication WITH
  outcome <- [c \in Calls |->
                CASE pc[c] \in {"returned", "raised", "idle"} -> pc[c]
                  [] pc[c] = "cancelled" -> "raised"
                  [] OTHER -> "pending"],
  stored  <- {m.call : m \in topic}
RefinesPublication == Channel!Spec

(* Every call returns or raises, an error of its own or CancelledError.    *)
CallsEnd == \A c \in Calls : pc[c] # "idle" ~> pc[c] \in Ended
=============================================================================
