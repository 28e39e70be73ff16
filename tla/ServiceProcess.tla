--------------------------- MODULE ServiceProcess ---------------------------
(***************************************************************************)
(* One process of the service: start-up, shut-down (main.py lifespan,      *)
(* grpc/server.py start_ and stop_grpc_server) and the two globals that    *)
(* handlers share, the connection pool (db/pool.py) and the cached JWKS    *)
(* key (services/auth.py), over crashes, restarts and rotations of the     *)
(* Identity Service's key.  Each await is a step.                          *)
(***************************************************************************)
EXTENDS Integers, FiniteSets

CONSTANTS RestCalls, \* requests of an assessor, with a token
          GrpcCalls, \* calls of an agent, without one
          Lifespan,  \* the start-up, the first caller of get_pool
          MaxSize,   \* connections of the pool at most
          MaxBoots,  \* bound on the number of starts of the process
          MaxKey     \* bound on the keys of the Identity Service

Calls == RestCalls \cup GrpcCalls \cup {Lifespan}

ASSUME SizeAssumption == MaxSize \in Nat \ {0}

ASSUME BoundsAssumption == MaxBoots \in Nat /\ MaxKey \in Nat \ {0}

ASSUME CallKindsDiffer == /\ Lifespan \notin RestCalls \cup GrpcCalls
                          /\ RestCalls \cap GrpcCalls = {}

VARIABLES phase,    \* where lifespan is
          boots,    \* starts of the process so far
          pool,     \* _pool: "none", "open" or "closing"
          pools,    \* how many pools the process has open
          jwksKey,  \* _jwks_key, NoKey: None
          key,      \* the key the Identity Service signs with
          bootKey,  \* what that was when the process started
          pc,       \* where each call is
          token,    \* the key its token is signed with
          answer    \* the key its fetch was answered

poolVars == <<pool, pools>>
keyVars == <<jwksKey, key, bootKey>>
callVars == <<pc, token, answer>>
vars == <<phase, boots, poolVars, keyVars, callVars>>

-----------------------------------------------------------------------------
NoKey == 0
Keys == 1..MaxKey

(* auth, fetch and fetched only of REST calls; make: in create_pool;       *)
(* acquire: waiting for a connection; query: in a statement, on one.       *)
Waiting == {"auth", "fetch", "fetched", "pool", "make", "acquire", "query"}
Active == {c \in Calls : pc[c] \in Waiting}
InUse == {c \in Calls : pc[c] = "query"}

Init == /\ phase = "down" /\ boots = 0
        /\ pool = "none" /\ pools = 0
        /\ jwksKey = NoKey /\ key = 1 /\ bootKey = 1
        /\ pc = [c \in Calls |-> "idle"]
        /\ token = [c \in Calls |-> NoKey]
        /\ answer = [c \in Calls |-> NoKey]

Goto(c, label) == pc' = [pc EXCEPT ![c] = label]

-----------------------------------------------------------------------------
(* lifespan before its yield: the pool, then the gRPC server, and with it  *)
(* the REST server of uvicorn.                                             *)

Boot ==
  /\ phase = "down" /\ boots < MaxBoots
  /\ phase' = "starting"
  /\ Goto(Lifespan, "pool")
  /\ boots' = boots + 1
  /\ bootKey' = key
  /\ UNCHANGED <<poolVars, jwksKey, key, token, answer>>

(* A start-up that does not wait for the pool.                             *)
StartGrpcServerAtOnce ==
  /\ phase = "starting"
  /\ phase' = "serving"
  /\ UNCHANGED <<boots, poolVars, keyVars, callVars>>

StartGrpcServer ==
  /\ phase = "starting" /\ pc[Lifespan] = "ok"
  /\ phase' = "serving"
  /\ UNCHANGED <<boots, poolVars, keyVars, callVars>>

(* A start-up step raises, or the process is killed: its globals and its   *)
(* connections are gone, its calls are not answered.                       *)
Crash ==
  /\ phase # "down"
  /\ phase' = "down"
  /\ pool' = "none" /\ pools' = 0 /\ jwksKey' = NoKey
  /\ pc' = [c \in Calls |-> IF c \in Active THEN "failed" ELSE pc[c]]
  /\ UNCHANGED <<boots, key, bootKey, token, answer>>

-----------------------------------------------------------------------------
(* After the yield.  uvicorn has answered the REST requests by then.       *)

Sigterm ==
  /\ phase = "serving"
  /\ phase' = "draining"
  /\ UNCHANGED <<boots, poolVars, keyVars, callVars>>

(* A shut-down that closes the pool while the gRPC server still runs.      *)
DrainedAndClosing ==
  /\ phase = "draining"
  /\ Active \cap RestCalls = {}
  /\ phase' = "close_pool" /\ pool' = "closing"
  /\ UNCHANGED <<boots, pools, keyVars, callVars>>

Drained ==
  /\ phase = "draining"
  /\ Active \cap RestCalls = {}
  /\ phase' = "stop_grpc"
  /\ UNCHANGED <<boots, poolVars, keyVars, callVars>>

(* server.stop that waits for the calls under way for as long as they take.*)
StopGrpcServerWithoutGrace ==
  /\ phase = "stop_grpc"
  /\ Active = {}
  /\ phase' = "close_pool" /\ pool' = "closing"
  /\ UNCHANGED <<boots, pools, keyVars, callVars>>

(* server.stop(grace=30): calls that have not ended by then are cancelled; *)
(* then _pool.close() begins.                                              *)
StopGrpcServer ==
  /\ phase = "stop_grpc"
  /\ pc' = [c \in Calls |-> IF c \in Active THEN "failed" ELSE pc[c]]
  /\ phase' = "close_pool" /\ pool' = "closing"
  /\ UNCHANGED <<boots, pools, keyVars, token, answer>>

(* Pool.close() waits for the connections in use; the process ends.        *)
ClosePool ==
  /\ phase = "close_pool"
  /\ InUse = {}
  /\ phase' = "down"
  /\ pool' = "none" /\ pools' = 0 /\ jwksKey' = NoKey
  /\ UNCHANGED <<boots, key, bootKey, callVars>>

-----------------------------------------------------------------------------
(* get_current_user and _fetch_jwks_key                                    *)

RotateKey ==
  /\ key < MaxKey
  /\ key' = key + 1
  /\ UNCHANGED <<phase, boots, poolVars, jwksKey, bootKey, callVars>>

RestArrives(c) ==
  /\ c \in RestCalls /\ phase = "serving" /\ pc[c] = "idle"
  /\ \E k \in 1..key : token' = [token EXCEPT ![c] = k]
  /\ Goto(c, "auth")
  /\ UNCHANGED <<phase, boots, poolVars, keyVars, answer>>

Checked(c, k) == IF token[c] = k THEN "pool" ELSE "401"

ReadCachedKey(c) ==
  /\ pc[c] = "auth"
  /\ Goto(c, IF jwksKey # NoKey THEN Checked(c, jwksKey) ELSE "fetch")
  /\ UNCHANGED <<phase, boots, poolVars, keyVars, token, answer>>

(* The Identity Service answers; the answer may arrive much later.         *)
FetchAnswered(c) ==
  /\ pc[c] = "fetch"
  /\ answer' = [answer EXCEPT ![c] = key]
  /\ Goto(c, "fetched")
  /\ UNCHANGED <<phase, boots, poolVars, keyVars, token>>

(* Several first calls fetch at the same time; the last to arrive stays.   *)
StoreKey(c) ==
  /\ pc[c] = "fetched"
  /\ jwksKey' = answer[c]
  /\ Goto(c, Checked(c, answer[c]))
  /\ UNCHANGED <<phase, boots, poolVars, key, bootKey, token, answer>>

(* A failure that is cached like an answer.                                *)
FetchFailsCached(c) ==
  /\ pc[c] \in {"fetch", "fetched"}
  /\ jwksKey' = MaxKey + 1
  /\ Goto(c, "503")
  /\ UNCHANGED <<phase, boots, poolVars, key, bootKey, token, answer>>

FetchFails(c) ==
  /\ pc[c] \in {"fetch", "fetched"}
  /\ Goto(c, "503")
  /\ UNCHANGED <<phase, boots, poolVars, keyVars, token, answer>>

-----------------------------------------------------------------------------
(* A gRPC call is taken until stop_grpc_server begins.                     *)
GrpcArrives(c) ==
  /\ c \in GrpcCalls /\ phase \in {"serving", "draining"} /\ pc[c] = "idle"
  /\ Goto(c, "pool")
  /\ UNCHANGED <<phase, boots, poolVars, keyVars, token, answer>>

(* get_pool                                                                *)
GetPool(c) ==
  /\ pc[c] = "pool"
  /\ Goto(c, IF pool = "none" THEN "make" ELSE "acquire")
  /\ UNCHANGED <<phase, boots, poolVars, keyVars, token, answer>>

(* create_pool returns: a second pool where another call made one too.     *)
PoolMade(c) ==
  /\ pc[c] = "make"
  /\ pool' = "open" /\ pools' = pools + 1
  /\ Goto(c, IF c = Lifespan THEN "ok" ELSE "acquire")
  /\ UNCHANGED <<phase, boots, keyVars, token, answer>>

(* pool.execute, pool.fetch and pool.acquire wait until a connection is    *)
(* free, for as long as that takes.                                        *)
Acquire(c) ==
  /\ pc[c] = "acquire"
  /\ Cardinality(InUse) < MaxSize
  /\ Goto(c, IF pool = "open" THEN "query" ELSE "failed")
  /\ UNCHANGED <<phase, boots, poolVars, keyVars, token, answer>>

(* A statement returns or raises; the pool sets no command_timeout.        *)
QueryEnds(c) ==
  /\ pc[c] = "query"
  /\ \E outcome \in IF pool = "open" THEN {"ok", "failed"} ELSE {"failed"} :
       Goto(c, outcome)
  /\ UNCHANGED <<phase, boots, poolVars, keyVars, token, answer>>

(* What a call does up to its statement.                                   *)
Approach(c) == \/ ReadCachedKey(c) \/ FetchAnswered(c) \/ StoreKey(c)
               \/ FetchFails(c) \/ GetPool(c) \/ PoolMade(c) \/ Acquire(c)

CallStep(c) == Approach(c) \/ QueryEnds(c)

Shutdown == Drained \/ StopGrpcServer \/ ClosePool

Next ==
  \/ Boot \/ StartGrpcServer \/ Crash \/ Sigterm \/ Shutdown \/ RotateKey
  \/ \E c \in Calls : RestArrives(c) \/ GrpcArrives(c) \/ CallStep(c)

Spec == Init /\ [][Next]_vars

(* Shut-down steps follow one another and the grace period runs out; a     *)
(* REST request's fetch ends (10 seconds) and it takes a connection that   *)
(* is free.  Statements may hang, and nothing is assumed of agents' calls. *)
FairSpec == /\ Spec
            /\ WF_vars(Shutdown)
            /\ \A c \in RestCalls : WF_vars(Approach(c))

-----------------------------------------------------------------------------
(* Whatever start-up, shut-down and the calls do: a statement runs on a    *)
(* pool that is open, and the process never has a second pool, whose       *)
(* connections nobody would close.                                         *)
StatementsHaveThePool ==
  /\ pools <= 1
  /\ \A c \in Calls : pc[c] = "query" => pool = "open"

(* While the Identity Service has not rotated its key since the process    *)
(* started, a token of its key is never refused, however fetches overlap   *)
(* and fail; a rotation makes the refusals last until the next start.      *)
RefusalsNeedARotation ==
  [][\A c \in RestCalls :
       pc'[c] = "401" /\ pc[c] # "401" /\ key = bootKey => token[c] # key]_vars

(* A request that uvicorn waits for is in a statement, or for a connection *)
(* while statements, of whatever calls, have all of them.                  *)
DrainIsBlocked ==
  /\ phase = "draining"
  /\ \E c \in RestCalls : \/ pc[c] = "query"
                          \/ pc[c] = "acquire" /\ Cardinality(InUse) = MaxSize

(* A process told to stop stops, although calls of agents may hang, unless *)
(* statements that never end keep a REST request from its answer: nothing  *)
(* bounds the drain, since uvicorn, acquire and statements have no time    *)
(* limit and the gRPC server, which would cancel, is stopped after it.     *)
ShutdownEnds == [](phase = "draining" => <>(phase = "down" \/ []DrainIsBlocked))
=============================================================================
