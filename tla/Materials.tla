------------------------------ MODULE Materials ------------------------------
(***************************************************************************)
(* Materials and rubrics of one assessment: the uploads (routes/external.py*)
(* and services/storage.py), which store a blob in a thread of the event   *)
(* loop's default executor and then insert a row; and the rows the web     *)
(* research agent registers.  A blob is found by folder and file name, a   *)
(* row by its id: two uploads of one name share the blob and have a row    *)
(* each.                                                                   *)
(***************************************************************************)
EXTENDS Naturals, Sequences, FiniteSets

CONSTANTS MaterialUploads, \* POST .../materials requests, and their rows
          RubricUploads,   \* POST .../rubrics requests, and their rows
          Names,           \* file names
          Publications,    \* calls of _publish_async
          WebFiles,        \* files of one UploadWebResearchMaterials call
          Batches,         \* such calls: the first and its repetitions
          Threads,         \* threads of the executor
          NULL             \* no blob

Uploads == MaterialUploads \cup RubricUploads

WebMaterials == Batches \X WebFiles

ASSUME ThreadsAssumption == Threads \in Nat \ {0}

ASSUME KindsDiffer == /\ MaterialUploads \cap RubricUploads = {}
                      /\ Publications \cap (Uploads \cup Batches) = {}
                      /\ Uploads \cap (WebMaterials \cup Batches) = {}

ASSUME NullIsNoUpload == NULL \notin Uploads

VARIABLES
  blobs,      \* the bucket: the upload whose content is at folder and name
  materials,  \* assessment_materials rows
  rubrics,    \* assessment_rubrics rows
  name,       \* the file name of each upload
  pc,         \* where each upload, publication and batch is
  queue,      \* jobs of the executor that wait for a thread
  running     \* jobs that have one

rowVars == <<materials, rubrics>>
jobVars == <<queue, running>>
vars == <<blobs, rowVars, name, pc, jobVars>>

-----------------------------------------------------------------------------
(* The blob's folder: "materials" or "rubrics".                            *)
Folder(u) == IF u \in RubricUploads THEN "rubrics" ELSE "materials"

BlobPath(u) == <<Folder(u), name[u]>>

Init == /\ blobs = [path \in {"materials", "rubrics"} \X Names |-> NULL]
        /\ materials = {}
        /\ rubrics = {}
        /\ name \in [Uploads -> Names]
        /\ pc = [c \in Uploads \cup Publications \cup Batches |-> "idle"]
        /\ queue = <<>>
        /\ running = {}

Goto(c, label) == pc' = [pc EXCEPT ![c] = label]

-----------------------------------------------------------------------------
(* run_in_executor: the event loop's default executor, which takes the     *)
(* uploads and the waiting for a publication's result.                     *)

Submit(c) ==
  /\ pc[c] = "idle"
  /\ c \in Uploads \cup Publications
  /\ queue' = Append(queue, c)
  /\ Goto(c, "job")
  /\ UNCHANGED <<blobs, rowVars, name, running>>

TakeJob ==
  /\ queue # <<>>
  /\ Cardinality(running) < Threads
  /\ running' = running \cup {Head(queue)}
  /\ queue' = Tail(queue)
  /\ UNCHANGED <<blobs, rowVars, name, pc>>

(* A job that waits for a second job of the same executor.                 *)
ResultNeedsAThread(c) ==
  /\ c \in running \cap Publications
  /\ Cardinality(running) < Threads
  /\ running' = running \ {c}
  /\ Goto(c, "ok")
  /\ UNCHANGED <<blobs, rowVars, name, queue>>

(* future.result returns or raises.                                        *)
ResultReturns(c) ==
  /\ c \in running \cap Publications
  /\ running' = running \ {c}
  /\ Goto(c, "ok")
  /\ UNCHANGED <<blobs, rowVars, name, queue>>

(* upload_from_string replaces the blob there is.                          *)
StoreBlob(u) ==
  /\ u \in running \cap Uploads
  /\ blobs' = [blobs EXCEPT ![BlobPath(u)] = u]
  /\ running' = running \ {u}
  /\ Goto(u, "insert")
  /\ UNCHANGED <<rowVars, name, queue>>

(* An upload error that is logged, not raised.                             *)
StoreFailsSilently(u) ==
  /\ u \in running \cap Uploads
  /\ running' = running \ {u}
  /\ Goto(u, "insert")
  /\ UNCHANGED <<blobs, rowVars, name, queue>>

(* The upload raises; the blob may be stored all the same.                 *)
StoreFails(u) ==
  /\ u \in running \cap Uploads
  /\ \E stored \in {u, blobs[BlobPath(u)]} : blobs' = [blobs EXCEPT ![BlobPath(u)] = stored]
  /\ running' = running \ {u}
  /\ Goto(u, "failed")
  /\ UNCHANGED <<rowVars, name, queue>>

(* add_material or add_rubric.                                             *)
InsertRow(u) ==
  /\ pc[u] = "insert"
  /\ IF u \in MaterialUploads
     THEN materials' = materials \cup {u} /\ UNCHANGED rubrics
     ELSE rubrics' = rubrics \cup {u} /\ UNCHANGED materials
  /\ Goto(u, "ok")
  /\ UNCHANGED <<blobs, name, jobVars>>

-----------------------------------------------------------------------------
(* UploadWebResearchMaterials: one INSERT per file, each committed by      *)
(* itself; a repeated call registers every file once more.                 *)

BatchBegins(b) ==
  /\ pc[b] = "idle"
  /\ Goto(b, "register")
  /\ UNCHANGED <<blobs, rowVars, name, jobVars>>

RegisterOne(b, f) ==
  /\ pc[b] = "register"
  /\ <<b, f>> \notin materials
  /\ materials' = materials \cup {<<b, f>>}
  /\ UNCHANGED <<blobs, rubrics, name, pc, jobVars>>

(* An answer given inside the loop over the files.                         *)
RegisteredSome(b) ==
  /\ pc[b] = "register"
  /\ \E f \in WebFiles : <<b, f>> \in materials
  /\ Goto(b, "ok")
  /\ UNCHANGED <<blobs, rowVars, name, jobVars>>

RegisteredAll(b) ==
  /\ pc[b] = "register"
  /\ \A f \in WebFiles : <<b, f>> \in materials
  /\ Goto(b, "ok")
  /\ UNCHANGED <<blobs, rowVars, name, jobVars>>

(* An INSERT raises.                                                       *)
Fail(c) ==
  /\ pc[c] \in {"insert", "register"}
  /\ Goto(c, "failed")
  /\ UNCHANGED <<blobs, rowVars, name, jobVars>>

-----------------------------------------------------------------------------
WorkerStep(c) == ResultReturns(c) \/ StoreBlob(c) \/ StoreFails(c)

Next ==
  \/ TakeJob
  \/ \E c \in Uploads \cup Publications : Submit(c) \/ WorkerStep(c)
  \/ \E u \in Uploads : InsertRow(u)
  \/ \E b \in Batches : BatchBegins(b) \/ (\E f \in WebFiles : RegisterOne(b, f))
                                       \/ RegisteredAll(b)
  \/ \E c \in Uploads \cup Batches : Fail(c)

Spec == Init /\ [][Next]_vars

(* Free threads take jobs, jobs end (a publication's future and an upload  *)
(* to Cloud Storage have deadlines), the event loop resumes handlers.      *)
FairSpec == /\ Spec
            /\ WF_vars(TakeJob)
            /\ \A c \in Uploads \cup Publications : WF_vars(WorkerStep(c))
            /\ \A u \in Uploads : WF_vars(InsertRow(u))

-----------------------------------------------------------------------------
(* Every variable keeps its type, and no more jobs run than threads.       *)
TypeOK ==
  /\ blobs \in [{"materials", "rubrics"} \X Names -> Uploads \cup {NULL}]
  /\ materials \subseteq MaterialUploads \cup WebMaterials
  /\ rubrics \subseteq RubricUploads
  /\ name \in [Uploads -> Names]
  /\ pc \in [Uploads \cup Publications \cup Batches ->
               {"idle", "job", "insert", "register", "ok", "failed"}]
  /\ queue \in Seq(Uploads \cup Publications)
  /\ running \subseteq Uploads \cup Publications
  /\ Cardinality(running) <= Threads

(* An upload's row is in the one table or in the other.                    *)
HasRow(u) == u \in materials \cup rubrics

(* "File exists in GCS at storage_path" (reference/test.md, T-5): the path *)
(* of every uploaded row leads to content of its own table and name, its   *)
(* own or that of another upload of the name, whatever was uploaded, and   *)
(* failed, in between.                                                     *)
RowsHaveBlobs ==
  \A u \in Uploads :
    HasRow(u) => \E other \in Uploads : /\ blobs[BlobPath(u)] = other
                                        /\ Folder(other) = Folder(u)
                                        /\ name[other] = name[u]

(* What was answered with success is listed, all of it: a call that fails  *)
(* after some of its INSERTs leaves rows behind, but says so.              *)
AnsweredIsListed ==
  /\ \A u \in Uploads : pc[u] = "ok" => HasRow(u)
  /\ \A b \in Batches : pc[b] = "ok" => \A f \in WebFiles : <<b, f>> \in materials

(* However many publications wait in the executor's threads, every upload  *)
(* that is made (each one is made once) is answered.                       *)
UploadsEnd == <>[](\A u \in Uploads : pc[u] \in {"idle", "ok", "failed"})
=============================================================================
