-------------------------- MODULE Materials_proofs --------------------------
(***************************************************************************)
(* Proofs about Materials, for any uploads, file names and threads: what a *)
(* row of the database promises of the bucket, and an answer of the rows.  *)
(***************************************************************************)
EXTENDS Materials, TLAPS, FiniteSetTheorems, SequenceTheorems

USE KindsDiffer, NullIsNoUpload, ThreadsAssumption

Paths == {"materials", "rubrics"} \X Names
Jobs == Uploads \cup Publications

(* A job is in the queue or in a thread, once, until it is over.           *)
Executor ==
  /\ IsFiniteSet(running)
  /\ \A c \in running : pc[c] = "job"
  /\ \A i \in 1..Len(queue) : pc[queue[i]] = "job" /\ queue[i] \notin running
  /\ \A i, j \in 1..Len(queue) : queue[i] = queue[j] => i = j

(* A blob is where its upload stores it.                                   *)
BlobsInPlace == \A path \in Paths : blobs[path] # NULL => BlobPath(blobs[path]) = path

(* A row is inserted after its blob is stored, and is the end of its       *)
(* upload, which never stores again.                                       *)
RowsFollow ==
  \A u \in Uploads : /\ pc[u] = "insert" \/ HasRow(u) => blobs[BlobPath(u)] # NULL
                     /\ HasRow(u) => pc[u] = "ok"

IInv == TypeOK /\ Executor /\ BlobsInPlace /\ RowsFollow /\ AnsweredIsListed

-----------------------------------------------------------------------------
LEMMA PathOf ==
  ASSUME TypeOK, NEW u \in Uploads
  PROVE  BlobPath(u) \in Paths
  BY DEF TypeOK, BlobPath, Folder, Paths

LEMMA InductiveInit == Init => IInv
<1> SUFFICES ASSUME Init PROVE IInv
  OBVIOUS
<1>1. queue \in Seq(Jobs) /\ Len(queue) = 0
  BY EmptySeq DEF Init
<1>2. IsFiniteSet(running) /\ Cardinality(running) = 0
  BY FS_EmptySet DEF Init
<1>3. TypeOK
  BY <1>1, <1>2 DEF Init, TypeOK, Jobs
<1>4. Executor
  BY <1>1, <1>2 DEF Init, Executor, Jobs
<1>5. BlobsInPlace /\ RowsFollow /\ AnsweredIsListed
  BY DEF Init, BlobsInPlace, RowsFollow, HasRow, AnsweredIsListed, Paths
<1> QED
  BY <1>3, <1>4, <1>5 DEF IInv

(* A step that touches neither bucket nor rows, and moves c, which has no  *)
(* row yet, keeps what they say; if it answers with success, c is no       *)
(* upload and lists all its files.                                         *)
LEMMA RowsUnmoved ==
  ASSUME IInv, NEW c \in Uploads \cup Publications \cup Batches,
         NEW label \in {"job", "register", "ok", "failed"},
         pc' = [pc EXCEPT ![c] = label], pc[c] \in {"idle", "job", "insert", "register"},
         label = "ok" => /\ c \notin Uploads
                         /\ c \in Batches => \A f \in WebFiles : <<c, f>> \in materials,
         UNCHANGED <<blobs, rowVars, name>>
  PROVE  BlobsInPlace' /\ RowsFollow' /\ AnsweredIsListed'
<1> USE DEF IInv
<1>1. BlobsInPlace'
  BY DEF BlobsInPlace, BlobPath, Folder
<1>2. RowsFollow'
  BY DEF TypeOK, RowsFollow, HasRow, BlobPath, Folder, rowVars
<1>3. AnsweredIsListed'
  BY DEF TypeOK, AnsweredIsListed, HasRow, rowVars
<1> QED
  BY <1>1, <1>2, <1>3

(* A job that ends makes room in the executor.                             *)
LEMMA JobEnds ==
  ASSUME IInv, NEW c \in running, running' = running \ {c},
         NEW label \in {"insert", "ok", "failed"}, pc' = [pc EXCEPT ![c] = label],
         UNCHANGED queue
  PROVE  Executor' /\ Cardinality(running') <= Threads
<1> USE DEF IInv
<1>1. IsFiniteSet(running') /\ Cardinality(running') = Cardinality(running) - 1
  BY FS_RemoveElement DEF Executor
<1>2. Cardinality(running) \in Nat
  BY FS_CardinalityType DEF Executor
<1>3. Cardinality(running') <= Threads
  BY <1>1, <1>2 DEF TypeOK
<1>4. \A i \in 1..Len(queue) : queue[i] \in Jobs /\ queue[i] # c
  BY LenProperties DEF TypeOK, Executor, Jobs
<1>5. \A d \in Jobs : d # c => pc'[d] = pc[d]
  BY DEF TypeOK, Jobs
<1>6. running \subseteq Jobs
  BY DEF TypeOK, Jobs
<1> QED
  BY <1>1, <1>3, <1>4, <1>5, <1>6 DEF Executor

LEMMA SubmitStep ==
  ASSUME IInv, NEW c \in Jobs, Submit(c)
  PROVE  IInv'
<1> USE DEF IInv
<1>1. /\ pc[c] = "idle" /\ queue' = Append(queue, c) /\ pc' = [pc EXCEPT ![c] = "job"]
      /\ UNCHANGED <<blobs, rowVars, name, running>>
  BY DEF Submit, Goto
<1>2. queue \in Seq(Jobs) /\ Len(queue) \in Nat
  BY LenProperties DEF TypeOK, Jobs
<1>3. /\ queue' \in Seq(Jobs) /\ Len(queue') = Len(queue) + 1
      /\ \A i \in 1..Len(queue) : queue'[i] = queue[i]
      /\ queue'[Len(queue) + 1] = c
  BY <1>1, <1>2, AppendProperties
<1>4. TypeOK'
  <2>1. pc' \in [Uploads \cup Publications \cup Batches ->
                   {"idle", "job", "insert", "register", "ok", "failed"}]
    BY <1>1 DEF TypeOK, Jobs
  <2> QED
    BY <1>1, <1>3, <2>1 DEF TypeOK, rowVars, Jobs
<1>5. Executor'
  <2>1. pc'[c] = "job" /\ \A d \in Jobs : pc[d] = "job" => pc'[d] = "job" /\ d # c
    BY <1>1 DEF TypeOK, Jobs
  <2>2. \A i \in 1..Len(queue) : queue[i] \in Jobs
    BY <1>2, LenProperties
  <2>3. running \subseteq Jobs
    BY DEF TypeOK, Jobs
  <2>4. ASSUME NEW i \in 1..Len(queue')
        PROVE  /\ pc'[queue'[i]] = "job" /\ queue'[i] \notin running'
               /\ \A j \in 1..Len(queue') : queue'[i] = queue'[j] => i = j
    <3>1. i \in 1..Len(queue) \/ i = Len(queue) + 1
      BY <1>2, <1>3
    <3>2. c \notin running
      BY <1>1 DEF Executor
    <3>3. \A j \in 1..Len(queue') : j \in 1..Len(queue) \/ j = Len(queue) + 1
      BY <1>2, <1>3
    <3>4. CASE i \in 1..Len(queue)
      BY <1>1, <1>3, <2>1, <2>2, <3>3, <3>4 DEF Executor
    <3>5. CASE i = Len(queue) + 1
      BY <1>1, <1>3, <2>1, <2>2, <3>2, <3>3, <3>5 DEF Executor
    <3> QED
      BY <3>1, <3>4, <3>5
  <2>5. \A d \in running' : pc'[d] = "job"
    BY <1>1, <2>1, <2>3 DEF Executor
  <2> QED
    BY <1>1, <2>4, <2>5 DEF Executor
<1>6. BlobsInPlace' /\ RowsFollow' /\ AnsweredIsListed'
  BY <1>1, RowsUnmoved DEF Jobs
<1> QED
  BY <1>4, <1>5, <1>6

LEMMA TakeStep ==
  ASSUME IInv, TakeJob
  PROVE  IInv'
<1> USE DEF IInv
<1>1. /\ queue # <<>> /\ Cardinality(running) < Threads
      /\ running' = running \cup {Head(queue)} /\ queue' = Tail(queue)
      /\ UNCHANGED <<blobs, rowVars, name, pc>>
  BY DEF TakeJob
<1>2. queue \in Seq(Jobs) /\ Len(queue) \in Nat \ {0}
  BY <1>1, EmptySeq DEF TypeOK, Jobs
<1>3. /\ queue' \in Seq(Jobs) /\ Len(queue') = Len(queue) - 1
      /\ \A i \in 1..Len(queue') : queue'[i] = queue[i + 1]
      /\ Head(queue) = queue[1] /\ Head(queue) \in Jobs
  BY <1>1, <1>2, HeadTailProperties
<1>4. /\ IsFiniteSet(running') /\ Cardinality(running) \in Nat
      /\ Cardinality(running') \in {Cardinality(running), Cardinality(running) + 1}
  BY <1>1, FS_AddElement, FS_CardinalityType DEF Executor
<1>5. TypeOK'
  <2>1. Cardinality(running') <= Threads
    BY <1>1, <1>4
  <2> QED
    BY <1>1, <1>3, <2>1 DEF TypeOK, rowVars, Jobs
<1>6. Executor'
  <2>1. \A i \in 1..Len(queue') : i + 1 \in 1..Len(queue) /\ i + 1 # 1
    BY <1>2, <1>3
  <2>2. 1 \in 1..Len(queue)
    BY <1>2
  <2>3. \A i \in 1..Len(queue') : pc'[queue'[i]] = "job" /\ queue'[i] \notin running'
    BY <1>1, <1>3, <2>1, <2>2 DEF Executor
  <2>4. \A i, j \in 1..Len(queue') : queue'[i] = queue'[j] => i = j
    <3> SUFFICES ASSUME NEW i \in 1..Len(queue'), NEW j \in 1..Len(queue'),
                        queue'[i] = queue'[j]
                 PROVE  i = j
      OBVIOUS
    <3>1. i + 1 = j + 1
      BY <1>3, <2>1 DEF Executor
    <3> QED
      BY <1>2, <1>3, <3>1
  <2>5. \A c \in running' : pc'[c] = "job"
    BY <1>1, <1>3, <2>2 DEF Executor
  <2> QED
    BY <1>4, <2>3, <2>4, <2>5 DEF Executor
<1>7. BlobsInPlace' /\ RowsFollow' /\ AnsweredIsListed'
  BY <1>1 DEF BlobsInPlace, RowsFollow, HasRow, AnsweredIsListed, BlobPath, Folder,
     rowVars
<1> QED
  BY <1>5, <1>6, <1>7

LEMMA ResultStep ==
  ASSUME IInv, NEW c \in Jobs, ResultReturns(c)
  PROVE  IInv'
<1> USE DEF IInv
<1>1. /\ c \in running /\ c \in Publications /\ running' = running \ {c}
      /\ pc' = [pc EXCEPT ![c] = "ok"]
      /\ UNCHANGED <<blobs, rowVars, name, queue>>
  BY DEF ResultReturns, Goto
<1>2. Executor' /\ Cardinality(running') <= Threads
  BY <1>1, JobEnds
<1>3. TypeOK'
  BY <1>1, <1>2 DEF TypeOK, rowVars
<1>4. BlobsInPlace' /\ RowsFollow' /\ AnsweredIsListed'
  BY <1>1, RowsUnmoved DEF Executor
<1> QED
  BY <1>2, <1>3, <1>4

(* An upload's job ends: the blob may be its content now.                  *)
LEMMA StoreStep ==
  ASSUME IInv, NEW u \in Jobs, StoreBlob(u) \/ StoreFails(u)
  PROVE  IInv'
<1> USE DEF IInv
<1>1. /\ u \in running /\ u \in Uploads /\ running' = running \ {u}
      /\ UNCHANGED <<rowVars, name, queue>>
  BY DEF StoreBlob, StoreFails
<1>2. PICK label \in {"insert", "failed"} : pc' = [pc EXCEPT ![u] = label]
  BY DEF StoreBlob, StoreFails, Goto
<1>3. PICK stored \in {u, blobs[BlobPath(u)]} :
        /\ blobs' = [blobs EXCEPT ![BlobPath(u)] = stored]
        /\ label = "insert" => stored = u
  BY <1>2, PathOf DEF StoreBlob, StoreFails, Goto, TypeOK
<1>4. BlobPath(u) \in Paths /\ blobs \in [Paths -> Uploads \cup {NULL}]
  BY <1>1, PathOf DEF TypeOK, Paths
<1>5. pc[u] = "job" /\ ~HasRow(u)
  BY <1>1 DEF Executor, RowsFollow
<1>6. Executor' /\ Cardinality(running') <= Threads
  BY <1>1, <1>2, JobEnds
<1>7. TypeOK'
  <2>1. blobs' \in [Paths -> Uploads \cup {NULL}]
    BY <1>1, <1>3, <1>4
  <2> QED
    BY <1>1, <1>2, <1>6, <2>1 DEF TypeOK, rowVars, Paths
<1>8. /\ \A path \in Paths : blobs'[path] = blobs[path] \/ (path = BlobPath(u) /\ blobs'[path] = u)
      /\ label = "insert" => blobs'[BlobPath(u)] = u
  BY <1>3, <1>4
<1>9. \A x \in Uploads : BlobPath(x)' = BlobPath(x) /\ BlobPath(x) \in Paths
  BY <1>1, PathOf DEF BlobPath, Folder
<1>10. BlobsInPlace'
  <2>1. ASSUME NEW path \in Paths, blobs'[path] # NULL
        PROVE  blobs'[path] \in Uploads /\ <<Folder(blobs'[path]), name[blobs'[path]]>> = path
    <3>1. blobs'[path] \in Uploads
      BY <1>7, <2>1 DEF TypeOK, Paths
    <3> QED
      BY <1>8, <2>1, <3>1 DEF BlobsInPlace, BlobPath
  <2> QED
    BY <1>1, <2>1 DEF BlobsInPlace, BlobPath, Folder, Paths
<1>11. RowsFollow'
  <2>1. \A x \in Uploads : HasRow(x)' <=> HasRow(x)
    BY <1>1 DEF HasRow, rowVars
  <2>2. \A x \in Uploads : x # u => pc'[x] = pc[x]
    BY <1>2 DEF TypeOK
  <2>3. pc'[u] = label
    BY <1>1, <1>2 DEF TypeOK
  <2>4. u # NULL
    BY <1>1
  <2> QED
    BY <1>5, <1>8, <1>9, <2>1, <2>2, <2>3, <2>4 DEF RowsFollow
<1>12. AnsweredIsListed'
  <2>1. \A x \in Uploads \cup Batches : pc'[x] = "ok" => pc[x] = "ok"
    BY <1>2 DEF TypeOK
  <2> QED
    BY <1>1, <2>1 DEF AnsweredIsListed, HasRow, rowVars
<1> QED
  BY <1>6, <1>7, <1>10, <1>11, <1>12

(* A row is inserted: its blob is there.                                   *)
LEMMA InsertStep ==
  ASSUME IInv, NEW u \in Uploads, InsertRow(u)
  PROVE  IInv'
<1> USE DEF IInv
<1>1. /\ pc[u] = "insert" /\ pc' = [pc EXCEPT ![u] = "ok"]
      /\ UNCHANGED <<blobs, name, queue, running>>
      /\ \/ u \in MaterialUploads /\ materials' = materials \cup {u} /\ UNCHANGED rubrics
         \/ u \in RubricUploads /\ rubrics' = rubrics \cup {u} /\ UNCHANGED materials
  BY DEF InsertRow, Goto, jobVars, Uploads
<1>2. TypeOK'
  BY <1>1 DEF TypeOK
<1>3. Executor'
  <2>1. \A i \in 1..Len(queue) : queue[i] \in Jobs
    BY LenProperties DEF TypeOK, Jobs
  <2>2. running \subseteq Jobs
    BY DEF TypeOK, Jobs
  <2>3. \A c \in Jobs : pc[c] = "job" <=> pc'[c] = "job"
    BY <1>1 DEF TypeOK, Jobs
  <2> QED
    BY <1>1, <2>1, <2>2, <2>3 DEF Executor
<1>4. BlobsInPlace'
  BY <1>1 DEF BlobsInPlace, BlobPath, Folder
<1>5. \A x \in Uploads \cup Batches : x # u => pc'[x] = pc[x]
  BY <1>1 DEF TypeOK
<1>6. \A x \in Uploads : HasRow(x)' <=> (HasRow(x) \/ x = u)
  BY <1>1 DEF HasRow
<1>7. RowsFollow'
  <2>1. pc'[u] = "ok"
    BY <1>1 DEF TypeOK
  <2>2. \A x \in Uploads : blobs'[BlobPath(x)'] = blobs[BlobPath(x)]
    BY <1>1 DEF BlobPath, Folder
  <2>3. blobs[BlobPath(u)] # NULL
    BY <1>1 DEF RowsFollow
  <2> QED
    BY <1>5, <1>6, <2>1, <2>2, <2>3 DEF RowsFollow
<1>8. AnsweredIsListed'
  <2>1. materials \subseteq materials' /\ u \notin Batches
    BY <1>1
  <2> QED
    BY <1>5, <1>6, <2>1 DEF AnsweredIsListed
<1> QED
  BY <1>2, <1>3, <1>4, <1>7, <1>8

(* The steps of a batch, and an INSERT that raises.                        *)
LEMMA ExecutorUnmoved ==
  ASSUME IInv, NEW c \in Uploads \cup Publications \cup Batches, pc[c] # "job",
         NEW label \in {"register", "ok", "failed"}, pc' = [pc EXCEPT ![c] = label], UNCHANGED jobVars
  PROVE  Executor'
<1> USE DEF IInv
<1>1. \A i \in 1..Len(queue) : queue[i] \in Jobs
  BY LenProperties DEF TypeOK, Jobs
<1>2. running \subseteq Jobs
  BY DEF TypeOK, Jobs
<1>3. \A d \in Jobs : pc[d] = "job" <=> pc'[d] = "job"
  BY DEF TypeOK, Jobs
<1> QED
  BY <1>1, <1>2, <1>3 DEF Executor, jobVars

LEMMA CallStep ==
  ASSUME IInv, NEW c \in Uploads \cup Batches,
         \/ c \in Batches /\ (BatchBegins(c) \/ RegisteredAll(c))
         \/ Fail(c)
  PROVE  IInv'
<1> USE DEF IInv
<1>1. /\ pc[c] \in {"idle", "insert", "register"}
      /\ UNCHANGED <<blobs, rowVars, name, jobVars>>
  BY DEF BatchBegins, RegisteredAll, Fail
<1>2. PICK label \in {"register", "ok", "failed"} : pc' = [pc EXCEPT ![c] = label]
  BY DEF BatchBegins, RegisteredAll, Fail, Goto
<1>3. label = "ok" => c \in Batches /\ \A f \in WebFiles : <<c, f>> \in materials
  BY <1>2 DEF TypeOK, BatchBegins, RegisteredAll, Fail, Goto
<1>4. TypeOK'
  BY <1>1, <1>2 DEF TypeOK, rowVars, jobVars
<1>5. Executor'
  BY <1>1, <1>2, ExecutorUnmoved DEF jobVars
<1>6. BlobsInPlace' /\ RowsFollow' /\ AnsweredIsListed'
  BY <1>1, <1>2, <1>3, RowsUnmoved
<1> QED
  BY <1>4, <1>5, <1>6

(* A web file is registered: its row is of no upload.                      *)
LEMMA RegisterStep ==
  ASSUME IInv, NEW b \in Batches, NEW f \in WebFiles, RegisterOne(b, f)
  PROVE  IInv'
<1> USE DEF IInv
<1>1. /\ materials' = materials \cup {<<b, f>>}
      /\ UNCHANGED <<blobs, rubrics, name, pc, queue, running>>
  BY DEF RegisterOne, jobVars
<1>2. <<b, f>> \in WebMaterials /\ <<b, f>> \notin Uploads
  BY DEF WebMaterials
<1>3. TypeOK'
  BY <1>1, <1>2 DEF TypeOK
<1>4. Executor' /\ BlobsInPlace'
  BY <1>1 DEF Executor, BlobsInPlace, BlobPath, Folder
<1>5. \A x \in Uploads : HasRow(x)' <=> HasRow(x)
  BY <1>1, <1>2 DEF HasRow
<1>6. RowsFollow'
  BY <1>1, <1>5 DEF RowsFollow, BlobPath, Folder
<1>7. AnsweredIsListed'
  BY <1>1, <1>5 DEF AnsweredIsListed
<1> QED
  BY <1>3, <1>4, <1>6, <1>7

LEMMA InductiveStep == IInv /\ [Next]_vars => IInv'
<1> SUFFICES ASSUME IInv, [Next]_vars PROVE IInv'
  OBVIOUS
<1>1. CASE TakeJob
  BY <1>1, TakeStep
<1>2. ASSUME NEW c \in Uploads \cup Publications, Submit(c) \/ WorkerStep(c)
      PROVE  IInv'
  BY <1>2, SubmitStep, ResultStep, StoreStep DEF WorkerStep, Jobs
<1>3. ASSUME NEW u \in Uploads, InsertRow(u) PROVE IInv'
  BY <1>3, InsertStep
<1>4. ASSUME NEW b \in Batches, BatchBegins(b) \/ RegisteredAll(b) PROVE IInv'
  BY <1>4, CallStep
<1>5. ASSUME NEW b \in Batches, NEW f \in WebFiles, RegisterOne(b, f) PROVE IInv'
  BY <1>5, RegisterStep
<1>6. ASSUME NEW c \in Uploads \cup Batches, Fail(c) PROVE IInv'
  BY <1>6, CallStep
<1>7. CASE UNCHANGED vars
  BY <1>7 DEF vars, rowVars, jobVars, IInv, TypeOK, Executor, BlobsInPlace, RowsFollow,
     HasRow, AnsweredIsListed, BlobPath, Folder
<1> QED
  BY <1>1, <1>2, <1>3, <1>4, <1>5, <1>6, <1>7 DEF Next

THEOREM Inductive == Spec => []IInv
<1> QED
  BY InductiveInit, InductiveStep, PTL DEF Spec

-----------------------------------------------------------------------------
(* Every variable keeps its type, and no more jobs of the executor run     *)
(* than it has threads.                                                    *)
THEOREM TypeCorrect == Spec => []TypeOK
<1>1. IInv => TypeOK
  BY DEF IInv
<1> QED
  BY Inductive, <1>1, PTL

(* The path of every row of materials and rubrics leads to content of its  *)
(* own table and name (upload_material and upload_rubric store first).     *)
THEOREM RowsLeadSomewhere == Spec => []RowsHaveBlobs
<1>1. IInv => RowsHaveBlobs
  <2> SUFFICES ASSUME IInv, NEW u \in Uploads, HasRow(u)
               PROVE  \E other \in Uploads : /\ blobs[BlobPath(u)] = other
                                             /\ Folder(other) = Folder(u)
                                             /\ name[other] = name[u]
    BY DEF RowsHaveBlobs, HasRow
  <2>1. BlobPath(u) \in Paths /\ blobs[BlobPath(u)] # NULL
    BY PathOf DEF IInv, RowsFollow
  <2>2. blobs[BlobPath(u)] \in Uploads
    BY <2>1 DEF IInv, TypeOK, Paths
  <2>3. BlobPath(blobs[BlobPath(u)]) = BlobPath(u)
    BY <2>1 DEF IInv, BlobsInPlace
  <2> QED
    BY <2>2, <2>3 DEF BlobPath
<1> QED
  BY Inductive, <1>1, PTL

(* A success that was answered is listed, whatever failed in between.      *)
THEOREM SuccessIsListed == Spec => []AnsweredIsListed
<1>1. IInv => AnsweredIsListed
  BY DEF IInv
<1> QED
  BY Inductive, <1>1, PTL
=============================================================================
