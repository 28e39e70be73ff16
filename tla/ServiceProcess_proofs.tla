------------------------ MODULE ServiceProcess_proofs ------------------------
(***************************************************************************)
(* Proofs about ServiceProcess, for any calls, any number of starts of the *)
(* process and of rotations of the key.                                    *)
(***************************************************************************)
EXTENDS ServiceProcess, TLAPS

USE BoundsAssumption, SizeAssumption, CallKindsDiffer

Phases == {"down", "starting", "serving", "draining", "stop_grpc", "close_pool"}

PCs == Waiting \cup {"idle", "ok", "failed", "401", "503"}

Types == /\ phase \in Phases /\ boots \in Nat
         /\ pool \in {"none", "open", "closing"} /\ pools \in Nat
         /\ jwksKey \in Nat /\ key \in Nat \ {0} /\ bootKey \in Nat
         /\ pc \in [Calls -> PCs]
         /\ token \in [Calls -> Nat]
         /\ answer \in [Calls -> Nat]

(* Who may be under way in a phase, and what pool there is then.           *)
PoolOfPhase ==
  /\ phase = "down" =>
       /\ pool = "none" /\ pools = 0 /\ jwksKey = NoKey
       /\ Active = {}
  /\ phase = "starting" =>
       /\ Active \subseteq {Lifespan}
       /\ pc[Lifespan] \in {"pool", "make"} => pool = "none" /\ pools = 0
       /\ pc[Lifespan] = "ok" => pool = "open" /\ pools = 1
       /\ pc[Lifespan] \in {"pool", "make", "ok"}
  /\ phase \in {"serving", "draining", "stop_grpc"} =>
       /\ pool = "open" /\ pools = 1
       /\ pc[Lifespan] = "ok"
       /\ \A c \in Calls : pc[c] # "make"
  /\ phase = "close_pool" => pools = 1 /\ Active = {}

(* Every key the process has seen was in force since it started.           *)
SeenKeys ==
  /\ bootKey <= key
  /\ jwksKey # NoKey => bootKey <= jwksKey /\ jwksKey <= key
  /\ \A c \in Calls : pc[c] = "fetched" => bootKey <= answer[c] /\ answer[c] <= key

IInv == Types /\ PoolOfPhase /\ SeenKeys

-----------------------------------------------------------------------------
LEMMA InductiveInit == Init => IInv
  BY DEF Init, IInv, Types, PoolOfPhase, SeenKeys, NoKey, Phases, PCs, Waiting, Active

(* The start-up and shut-down steps.                                       *)
LEMMA PhaseStep ==
  ASSUME IInv,
         \/ Boot \/ StartGrpcServer \/ Crash \/ Sigterm \/ Shutdown \/ RotateKey
  PROVE  IInv'
<1> USE DEF IInv, NoKey
<1>1. CASE Boot
  <2>1. /\ phase = "down" /\ phase' = "starting" /\ boots' = boots + 1
        /\ pc' = [pc EXCEPT ![Lifespan] = "pool"] /\ bootKey' = key
        /\ UNCHANGED <<poolVars, jwksKey, key, token, answer>>
    BY <1>1 DEF Boot, Goto
  <2>2. Lifespan \in Calls /\ Active = {}
    BY <2>1 DEF Calls, PoolOfPhase
  <2>3. Types'
    <3>1. "pool" \in PCs
      BY DEF PCs, Waiting
    <3>2. pc' \in [Calls -> PCs]
      BY <2>1, <3>1 DEF Types
    <3>3. phase' \in Phases /\ boots' \in Nat /\ bootKey' \in Nat
      BY <2>1 DEF Types, Phases
    <3> QED
      BY <2>1, <3>2, <3>3 DEF Types, poolVars
  <2>4. pc'[Lifespan] = "pool" /\ \A c \in Calls \ {Lifespan} : pc'[c] = pc[c]
    BY <2>1, <2>2 DEF Types
  <2>5. PoolOfPhase'
    <3>1. Active' \subseteq {Lifespan}
      BY <2>2, <2>4 DEF Active
    <3> QED
      BY <2>1, <2>4, <3>1 DEF PoolOfPhase, poolVars
  <2>6. SeenKeys'
    <3>1. \A c \in Calls : pc'[c] # "fetched"
      BY <2>2, <2>4 DEF Active, Waiting
    <3> QED
      BY <2>1, <3>1 DEF SeenKeys, PoolOfPhase, Types
  <2> QED
    BY <2>3, <2>5, <2>6
<1>2. CASE StartGrpcServer
  <2>1. phase = "starting" /\ pc[Lifespan] = "ok" /\ phase' = "serving"
        /\ UNCHANGED <<boots, poolVars, keyVars, callVars>>
    BY <1>2 DEF StartGrpcServer
  <2>2. \A c \in Calls : pc[c] # "make"
    BY <2>1 DEF PoolOfPhase, Active, Waiting
  <2> QED
    BY <2>1, <2>2 DEF Types, PoolOfPhase, SeenKeys, Phases, poolVars, keyVars, callVars
<1>3. CASE Crash
  <2>1. /\ phase' = "down" /\ pool' = "none" /\ pools' = 0 /\ jwksKey' = NoKey
        /\ pc' = [c \in Calls |-> IF c \in Active THEN "failed" ELSE pc[c]]
        /\ UNCHANGED <<boots, key, bootKey, token, answer>>
    BY <1>3 DEF Crash
  <2>2. Active' = {}
    BY <2>1 DEF Active, Waiting
  <2>3. Types'
    BY <2>1 DEF Types, Phases, PCs
  <2>4. PoolOfPhase'
    BY <2>1, <2>2 DEF PoolOfPhase
  <2>5. SeenKeys'
    BY <2>1 DEF SeenKeys
  <2> QED
    BY <2>3, <2>4, <2>5
<1>4. CASE Sigterm \/ Drained
  BY <1>4 DEF Sigterm, Drained, Types, PoolOfPhase, SeenKeys, Phases, poolVars,
     keyVars, callVars, Active
<1>5. CASE StopGrpcServer
  <2>1. /\ phase = "stop_grpc" /\ phase' = "close_pool" /\ pool' = "closing"
        /\ pc' = [c \in Calls |-> IF c \in Active THEN "failed" ELSE pc[c]]
        /\ UNCHANGED <<boots, pools, keyVars, token, answer>>
    BY <1>5 DEF StopGrpcServer
  <2>2. Active' = {}
    BY <2>1 DEF Active, Waiting
  <2>3. Types'
    BY <2>1 DEF Types, Phases, PCs, keyVars
  <2>4. PoolOfPhase'
    BY <2>1, <2>2 DEF PoolOfPhase
  <2>5. SeenKeys'
    BY <2>1 DEF SeenKeys, keyVars
  <2> QED
    BY <2>3, <2>4, <2>5
<1>6. CASE ClosePool
  BY <1>6 DEF ClosePool, InUse, Types, PoolOfPhase, SeenKeys, Phases, callVars, Active
<1>7. CASE RotateKey
  BY <1>7 DEF RotateKey, Types, PoolOfPhase, SeenKeys, poolVars, callVars, Active
<1> QED
  BY <1>1, <1>2, <1>3, <1>4, <1>5, <1>6, <1>7 DEF Shutdown

(* A call goes on: it stays, or ends.  What it does to the pool and to the *)
(* key is left to each step.                                               *)
LEMMA CallsInPhase ==
  ASSUME IInv, NEW c \in Calls, NEW label \in PCs,
         pc' = [pc EXCEPT ![c] = label], UNCHANGED <<phase, poolVars>>,
         c # Lifespan,
         label \in Waiting => phase \in {"serving", "draining", "stop_grpc"},
         label # "make", jwksKey' = jwksKey \/ phase # "down"
  PROVE  PoolOfPhase'
<1> USE DEF IInv
<1>1. pc'[c] = label /\ pc'[Lifespan] = pc[Lifespan]
  BY DEF Types, Calls
<1>2. Active' \subseteq Active \cup {c} /\ (label \notin Waiting => Active' \subseteq Active)
  BY DEF Types, Active
<1>3. \A d \in Calls : pc'[d] = "make" => pc[d] = "make"
  BY DEF Types
<1> QED
  BY <1>1, <1>2, <1>3 DEF PoolOfPhase, poolVars, Types, Phases

(* Only the start-up makes a pool; the calls under way have it.            *)
LEMMA WhoIsActive ==
  ASSUME IInv, NEW c \in Calls, pc[c] \in Waiting
  PROVE  /\ c = Lifespan => phase = "starting" /\ pc[c] \in {"pool", "make"}
         /\ c # Lifespan => /\ phase \in {"serving", "draining", "stop_grpc"}
                            /\ pool = "open" /\ pc[c] # "make"
<1>1. c \in Active
  BY DEF Active
<1>2. phase \notin {"down", "close_pool"}
  BY <1>1 DEF IInv, PoolOfPhase
<1>3. phase \in Phases
  BY DEF IInv, Types
<1>4. phase = "starting" => c = Lifespan
  BY <1>1 DEF IInv, PoolOfPhase
<1> QED
  BY <1>2, <1>3, <1>4 DEF IInv, PoolOfPhase, Phases, Waiting

(* The keys the handlers see.                                              *)
LEMMA KeyStep ==
  ASSUME IInv, NEW c \in Calls, NEW label \in PCs,
         c # Lifespan,
         label \in Waiting => phase \in {"serving", "draining", "stop_grpc"},
         label # "make", label # "fetched",
         phase # "down",
         pc' = [pc EXCEPT ![c] = label],
         token' \in [Calls -> Nat],
         jwksKey' = jwksKey \/ (pc[c] = "fetched" /\ jwksKey' = answer[c]),
         UNCHANGED <<phase, boots, poolVars, key, bootKey, answer>>
  PROVE  IInv'
<1> USE DEF IInv
<1>1. Types'
  <2>1. pc' \in [Calls -> PCs]
    BY DEF Types
  <2>2. jwksKey' \in Nat
    BY DEF Types
  <2> QED
    BY <2>1, <2>2 DEF Types, poolVars
<1>2. PoolOfPhase'
  BY CallsInPhase
<1>3. SeenKeys'
  <2>1. \A d \in Calls : pc'[d] = "fetched" => pc[d] = "fetched"
    BY DEF Types
  <2> QED
    BY <2>1 DEF SeenKeys, NoKey
<1> QED
  BY <1>1, <1>2, <1>3

LEMMA CallStepKeeps ==
  ASSUME IInv, NEW c \in Calls, RestArrives(c) \/ GrpcArrives(c) \/ CallStep(c)
  PROVE  IInv'
<1> USE DEF IInv
<1>0. {"auth", "fetch", "fetched", "pool", "make", "acquire", "query", "ok", "failed", "401", "503"}
        \subseteq PCs
  BY DEF PCs, Waiting
<1>1. CASE RestArrives(c)
  <2>1. PICK k \in 1..key : token' = [token EXCEPT ![c] = k]
    BY <1>1 DEF RestArrives
  <2>2. k \in Nat
    BY DEF Types
  <2>3. token' \in [Calls -> Nat]
    BY <2>1, <2>2 DEF Types
  <2>4. /\ c \in RestCalls /\ phase = "serving" /\ pc' = [pc EXCEPT ![c] = "auth"]
        /\ UNCHANGED <<phase, boots, poolVars, keyVars, answer>>
    BY <1>1 DEF RestArrives, Goto
  <2> QED
    BY <1>0, <2>3, <2>4, KeyStep DEF keyVars
<1>2. CASE GrpcArrives(c)
  <2>1. /\ c \in GrpcCalls /\ phase \in {"serving", "draining"}
        /\ pc' = [pc EXCEPT ![c] = "pool"]
        /\ UNCHANGED <<phase, boots, poolVars, keyVars, token, answer>>
    BY <1>2 DEF GrpcArrives, Goto
  <2>2. token' \in [Calls -> Nat]
    BY <2>1 DEF Types
  <2> QED
    BY <1>0, <2>1, <2>2, KeyStep DEF keyVars
<1>3. CASE ReadCachedKey(c) \/ StoreKey(c) \/ FetchFails(c)
  <2>1. pc[c] \in {"auth", "fetch", "fetched"}
    BY <1>3 DEF ReadCachedKey, StoreKey, FetchFails
  <2>2. c # Lifespan /\ phase \in {"serving", "draining", "stop_grpc"}
    BY <2>1, WhoIsActive DEF Waiting
  <2>3. \E label \in {"pool", "401", "fetch", "503"} : pc' = [pc EXCEPT ![c] = label]
    BY <1>3 DEF ReadCachedKey, StoreKey, FetchFails, Goto, Checked
  <2>4. /\ UNCHANGED <<phase, boots, poolVars, key, bootKey, token, answer>>
        /\ jwksKey' = jwksKey \/ (pc[c] = "fetched" /\ jwksKey' = answer[c])
    BY <1>3 DEF ReadCachedKey, StoreKey, FetchFails, keyVars
  <2>5. token' \in [Calls -> Nat]
    BY <2>4 DEF Types
  <2> QED
    BY <1>0, <2>2, <2>3, <2>4, <2>5, KeyStep
<1>4. CASE FetchAnswered(c)
  <2>1. /\ pc[c] = "fetch"
        /\ answer' = [answer EXCEPT ![c] = key]
        /\ pc' = [pc EXCEPT ![c] = "fetched"]
        /\ UNCHANGED <<phase, boots, poolVars, keyVars, token>>
    BY <1>4 DEF FetchAnswered, Goto
  <2>2. c # Lifespan /\ phase \in {"serving", "draining", "stop_grpc"}
    BY <2>1, WhoIsActive DEF Waiting
  <2>3. Types'
    <3>1. pc' \in [Calls -> PCs] /\ answer' \in [Calls -> Nat]
      BY <1>0, <2>1 DEF Types
    <3> QED
      BY <2>1, <3>1 DEF Types, poolVars, keyVars
  <2>4. PoolOfPhase'
    BY <1>0, <2>1, <2>2, CallsInPhase DEF keyVars
  <2>5. SeenKeys'
    <3>1. \A d \in Calls : pc'[d] = "fetched" =>
            answer'[d] = key \/ (pc[d] = "fetched" /\ answer'[d] = answer[d])
      BY <2>1 DEF Types
    <3> QED
      BY <2>1, <3>1 DEF SeenKeys, Types, keyVars
  <2> QED
    BY <2>3, <2>4, <2>5
<1>5. CASE GetPool(c)
  <2>1. /\ pc[c] = "pool"
        /\ pc' = [pc EXCEPT ![c] = IF pool = "none" THEN "make" ELSE "acquire"]
        /\ UNCHANGED <<phase, boots, poolVars, keyVars, token, answer>>
    BY <1>5 DEF GetPool, Goto
  <2>2. token' \in [Calls -> Nat]
    BY <2>1 DEF Types
  <2>3. CASE c # Lifespan
    <3>1. phase \in {"serving", "draining", "stop_grpc"} /\ pool = "open"
      BY <2>1, <2>3, WhoIsActive DEF Waiting
    <3>2. pc' = [pc EXCEPT ![c] = "acquire"]
      BY <2>1, <3>1
    <3> QED
      BY <1>0, <2>1, <2>2, <2>3, <3>1, <3>2, KeyStep DEF keyVars
  <2>4. CASE c = Lifespan
    <3>1. phase = "starting" /\ pool = "none" /\ pools = 0
      BY <2>1, <2>4, WhoIsActive DEF Waiting, PoolOfPhase
    <3>2. pc' = [pc EXCEPT ![c] = "make"] /\ pc'[Lifespan] = "make"
      BY <2>1, <2>4, <3>1 DEF Types
    <3>3. Types'
      BY <1>0, <2>1, <3>2 DEF Types, poolVars, keyVars
    <3>4. Active' \subseteq {Lifespan}
      BY <2>4, <3>1, <3>2 DEF Active, PoolOfPhase, Types
    <3>5. PoolOfPhase'
      BY <2>1, <3>1, <3>2, <3>4 DEF PoolOfPhase, poolVars
    <3>6. SeenKeys'
      BY <2>1, <3>2 DEF SeenKeys, Types, keyVars
    <3> QED
      BY <3>3, <3>5, <3>6
  <2> QED
    BY <2>3, <2>4
<1>6. CASE PoolMade(c)
  <2>1. /\ pc[c] = "make" /\ pool' = "open" /\ pools' = pools + 1
        /\ pc' = [pc EXCEPT ![c] = IF c = Lifespan THEN "ok" ELSE "acquire"]
        /\ UNCHANGED <<phase, boots, keyVars, token, answer>>
    BY <1>6 DEF PoolMade, Goto
  <2>2. c = Lifespan /\ phase = "starting" /\ pools = 0
    BY <2>1, WhoIsActive DEF Waiting, PoolOfPhase
  <2>3. pc' = [pc EXCEPT ![c] = "ok"] /\ pc'[Lifespan] = "ok" /\ pools' = 1
    BY <2>1, <2>2 DEF Types
  <2>4. Types'
    <3>1. pc' \in [Calls -> PCs]
      BY <1>0, <2>3 DEF Types
    <3> QED
      BY <2>1, <2>3, <3>1 DEF Types, keyVars
  <2>5. Active' \subseteq {Lifespan}
    BY <2>2, <2>3 DEF Active, PoolOfPhase, Types
  <2>6. PoolOfPhase'
    BY <2>1, <2>2, <2>3, <2>5 DEF PoolOfPhase
  <2>7. SeenKeys'
    BY <2>1, <2>3 DEF SeenKeys, Types, keyVars
  <2> QED
    BY <2>4, <2>6, <2>7
<1>7. CASE QueryEnds(c)
  <2>1. /\ pc[c] = "query"
        /\ \E outcome \in {"ok", "failed"} : pc' = [pc EXCEPT ![c] = outcome]
        /\ UNCHANGED <<phase, boots, poolVars, keyVars, token, answer>>
    BY <1>7 DEF QueryEnds, Goto
  <2>2. c # Lifespan /\ phase # "down"
    BY <2>1, WhoIsActive DEF Waiting
  <2>3. token' \in [Calls -> Nat]
    BY <2>1 DEF Types
  <2>4. "ok" \notin Waiting /\ "failed" \notin Waiting
    BY DEF Waiting
  <2> QED
    BY <1>0, <2>1, <2>2, <2>3, <2>4, KeyStep DEF keyVars
<1>8. CASE Acquire(c)
  <2>1. /\ pc[c] = "acquire"
        /\ pc' = [pc EXCEPT ![c] = IF pool = "open" THEN "query" ELSE "failed"]
        /\ UNCHANGED <<phase, boots, poolVars, keyVars, token, answer>>
    BY <1>8 DEF Acquire, Goto
  <2>2. c # Lifespan /\ phase \in {"serving", "draining", "stop_grpc"} /\ pool = "open"
    BY <2>1, WhoIsActive DEF Waiting
  <2>3. token' \in [Calls -> Nat] /\ pc' = [pc EXCEPT ![c] = "query"]
    BY <2>1, <2>2 DEF Types
  <2> QED
    BY <1>0, <2>1, <2>2, <2>3, KeyStep DEF keyVars
<1> QED
  BY <1>1, <1>2, <1>3, <1>4, <1>5, <1>6, <1>7, <1>8 DEF CallStep, Approach

LEMMA InductiveStep ==
  ASSUME IInv, [Next]_vars
  PROVE  IInv'
<1>1. CASE UNCHANGED vars
  BY <1>1 DEF vars, poolVars, keyVars, callVars, IInv, Types, PoolOfPhase, SeenKeys, Active
<1> QED
  BY <1>1, PhaseStep, CallStepKeeps DEF Next

LEMMA Inductive == Spec => []IInv
  BY InductiveInit, InductiveStep, PTL DEF Spec

-----------------------------------------------------------------------------
(* The pool lifespan makes before it serves, and closes after the servers  *)
(* have stopped, is the only one there is and open for every statement.    *)
THEOREM OnePool == Spec => []StatementsHaveThePool
<1>1. IInv => StatementsHaveThePool
  <2> SUFFICES ASSUME IInv PROVE StatementsHaveThePool
    OBVIOUS
  <2>1. pools <= 1
    BY DEF IInv, Types, Phases, PoolOfPhase
  <2>2. \A c \in Calls : pc[c] = "query" => pool = "open"
    BY WhoIsActive DEF Waiting
  <2> QED
    BY <2>1, <2>2 DEF StatementsHaveThePool
<1> QED
  BY Inductive, <1>1, PTL

(* When _pool.close() begins, no statement runs that it would wait for:    *)
(* the grace period has ended every call, and none can come in any more.   *)
THEOREM ClosingWaitsForNobody ==
  Spec => [](phase = "close_pool" => InUse = {})
<1>1. IInv => (phase = "close_pool" => InUse = {})
  BY DEF IInv, PoolOfPhase, Active, InUse, Waiting
<1> QED
  BY Inductive, <1>1, PTL

(* _fetch_jwks_key caches no key but one in force since the process        *)
(* started, so that until the next rotation it refuses no good token.      *)
THEOREM GoodTokensPass == Spec => RefusalsNeedARotation
<1>1. IInv /\ [Next]_vars =>
        [\A c \in RestCalls :
           pc'[c] = "401" /\ pc[c] # "401" /\ key = bootKey => token[c] # key]_vars
  <2> SUFFICES ASSUME IInv, [Next]_vars, NEW c \in RestCalls,
                      pc'[c] = "401", pc[c] # "401", key = bootKey
               PROVE  token[c] # key
    OBVIOUS
  <2>1. c \in Calls
    BY DEF Calls
  <2>2. ReadCachedKey(c) \/ StoreKey(c)
    <3>1. PICK d \in Calls : CallStep(d) \/ RestArrives(d) \/ GrpcArrives(d)
      BY <2>1 DEF Next, vars, callVars, Boot, StartGrpcServer, Crash, Sigterm,
         Shutdown, Drained, StopGrpcServer, ClosePool, RotateKey, Goto, IInv, Types
    <3>2. pc' = [pc EXCEPT ![d] = pc'[d]]
      BY <3>1 DEF CallStep, Approach, Acquire, RestArrives, GrpcArrives, ReadCachedKey, FetchAnswered,
         StoreKey, FetchFails, GetPool, PoolMade, QueryEnds, Goto, IInv, Types
    <3>3. d = c
      BY <2>1, <3>2 DEF IInv, Types
    <3> QED
      BY <2>1, <3>1, <3>3 DEF CallStep, Approach, Acquire, RestArrives, GrpcArrives, FetchAnswered,
         FetchFails, GetPool, PoolMade, QueryEnds, Goto, IInv, Types
  <2>3. CASE ReadCachedKey(c)
    <3>1. jwksKey # NoKey /\ token[c] # jwksKey
      BY <2>1, <2>3 DEF ReadCachedKey, Goto, Checked, IInv, Types
    <3> QED
      BY <3>1 DEF IInv, Types, SeenKeys
  <2>4. CASE StoreKey(c)
    <3>1. pc[c] = "fetched" /\ token[c] # answer[c]
      BY <2>1, <2>4 DEF StoreKey, Goto, Checked, IInv, Types
    <3> QED
      BY <2>1, <3>1 DEF IInv, Types, SeenKeys
  <2> QED
    BY <2>2, <2>3, <2>4
<1> QED
  BY Inductive, <1>1, PTL DEF Spec, RefusalsNeedARotation
=============================================================================
