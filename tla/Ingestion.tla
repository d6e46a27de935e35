------------------------------- MODULE Ingestion -------------------------------
(***************************************************************************)
(* One document from upload to deletion: its row and chunks in the         *)
(* database, its blob in the storage, the ingestion job in the queue and   *)
(* the runs of that job (domains/documents, worker.py, core/queue.py).     *)
(* Documents share no row, blob or job, so one is modelled.                *)
(*                                                                         *)
(* The queue delivers at least once: the n-th delivery is run n.  A run is *)
(* a sequence of transactions; what it reads or deletes is what was        *)
(* committed at that statement, what it writes shows when it commits.      *)
(* A DELETE that waits for another run's row locks keeps the snapshot it   *)
(* was issued with, so the chunks it removes are fixed when it starts.     *)
(* An UPDATE of a row that is gone, and an INSERT that refers to one,      *)
(* raise.                                                                  *)
(***************************************************************************)
EXTENDS Naturals, FiniteSets

CONSTANTS MaxTries,     \* MAX_TRIES of the worker, max_attempts of the queue
          Regimes       \* the sets of faults to look at, one in a behaviour

AllFaults == {"api crash",    \* the API process dies during a request
              "kill",         \* a worker dies and the queue still has a try
              "last kill",    \* a worker dies on the last try
              "timeout",      \* ARQ's job_timeout cancels a run
              "duplicate",    \* the queue delivers again during a run
              "unreadable key"}  \* SECRET_ENCRYPTION_KEY is unset or was changed

ASSUME IngestionAssumption ==
    /\ MaxTries \in Nat \ {0}
    /\ Regimes \subseteq SUBSET AllFaults

Tries == 1 .. MaxTries

VARIABLES doc,        \* documents.status, or "none" before and "deleted" after
          chunks,     \* the runs whose chunks are committed
          blob,       \* the blob exists in the storage
          upload,     \* how far POST /documents has come
          delete,     \* how far DELETE /documents/{id} has come
          pending,    \* the queue holds a delivery of the job
          tries,      \* deliveries so far
          run,        \* the runs
          faults      \* what may go wrong outside the code, the same all along

vars == <<doc, chunks, blob, upload, delete, pending, tries, run, faults>>

Status == {"uploaded", "processing", "ready", "failed"}
Present == doc \in Status

Off == [pc |-> "off"]
Run == {Off}
       \cup [pc : {"resolve", "load", "delete"}]
       \cup [pc : {"mark", "start"}, seen : Status]
       \cup [pc : {"embed", "extract", "finish"}, doomed : SUBSET Tries]
       \cup [pc : {"commit", "done"}]

At(r, pc) == run[r].pc = pc
Go(r, next) == run' = [run EXCEPT ![r] = next]
RowsAndBlob == <<doc, chunks, blob>>
Requests == <<upload, delete>>
Queue == <<pending, tries>>
-----------------------------------------------------------------------------
(* POST /documents                                                          *)

\* The row is flushed but not committed while the blob is written.
UploadSave ==
    /\ upload = "start"
    /\ upload' = "saved"
    /\ blob' = TRUE
    /\ UNCHANGED <<doc, chunks, delete, Queue, run, faults>>

UploadCommit ==
    /\ upload = "saved"
    /\ upload' = "committed"
    /\ doc' = "uploaded"
    /\ UNCHANGED <<chunks, blob, delete, Queue, run, faults>>

UploadEnqueue ==
    /\ upload = "committed"
    /\ upload' = "done"
    /\ pending' = TRUE
    /\ UNCHANGED <<RowsAndBlob, delete, tries, run, faults>>

UploadCrash ==
    /\ "api crash" \in faults
    /\ upload \in {"saved", "committed"}
    /\ upload' = "crashed"
    /\ UNCHANGED <<RowsAndBlob, delete, Queue, run, faults>>
-----------------------------------------------------------------------------
(* DELETE /documents/{id}                                                   *)

DeleteLoad ==
    /\ delete \in {"idle", "crashed"}
    /\ Present
    /\ delete' = "loaded"
    /\ UNCHANGED <<RowsAndBlob, upload, Queue, run, faults>>

\* The blob goes before the transaction that deletes the rows commits.
DeleteBlob ==
    /\ delete = "loaded"
    /\ delete' = "blob gone"
    /\ blob' = FALSE
    /\ UNCHANGED <<doc, chunks, upload, Queue, run, faults>>

\* The foreign key cascades to chunks committed since the explicit DELETE.
DeleteCommit ==
    /\ delete = "blob gone"
    /\ delete' = "done"
    /\ doc' = "deleted"
    /\ chunks' = {}
    /\ UNCHANGED <<blob, upload, Queue, run, faults>>

DeleteCrash ==
    /\ "api crash" \in faults
    /\ delete \in {"loaded", "blob gone"}
    /\ delete' = "crashed"
    /\ UNCHANGED <<RowsAndBlob, upload, Queue, run, faults>>
-----------------------------------------------------------------------------
(* The queue                                                                *)

MayDeliver == pending /\ tries < MaxTries

Deliver ==
    /\ MayDeliver
    /\ tries' = tries + 1
    /\ pending' = FALSE
    /\ Go(tries + 1, [pc |-> "resolve"])
    /\ UNCHANGED <<RowsAndBlob, Requests, faults>>

Running == {r \in Tries : run[r] # Off}

Redeliver ==
    /\ "duplicate" \in faults
    /\ Running # {}
    /\ ~pending
    /\ pending' = TRUE
    /\ UNCHANGED <<RowsAndBlob, Requests, tries, run, faults>>

\* The job returns; the queue has yet to hear of it.
Return(r) == Go(r, [pc |-> "done"]) /\ UNCHANGED Queue

\* The queue forgets the job.
Acknowledge(r) ==
    /\ At(r, "done")
    /\ Go(r, Off)
    /\ UNCHANGED <<RowsAndBlob, Requests, Queue, faults>>

\* The job raised: ingest_document_job asks for another try, or lets the job
\* go to the dead letters after the last one.
Raise(r) ==
    /\ Go(r, Off)
    /\ pending' = (pending \/ r < MaxTries)
    /\ UNCHANGED tries
-----------------------------------------------------------------------------
(* run_ingest_job                                                           *)

\* Without an embedding provider the document is marked failed; a document
\* that is gone ends the job.  A stored key that decrypt_secret cannot read is
\* no ProviderNotConfigured: it raises, and the row stays as it is.
Resolve(r) ==
    /\ At(r, "resolve")
    /\ \/ "unreadable key" \in faults /\ Raise(r)
       \/ ~Present /\ Return(r)
       \/ /\ Present
          /\ \E pc \in {"mark", "start"} : Go(r, [pc |-> pc, seen |-> doc])
          /\ UNCHANGED Queue
    /\ UNCHANGED <<RowsAndBlob, Requests, faults>>

\* Writing the value a row was loaded with emits no UPDATE of the column.
Written(seen, status) ==
    IF seen = status THEN doc ELSE status

MarkFailed(r) ==
    /\ At(r, "mark")
    /\ \/ Present /\ doc' = Written(run[r].seen, "failed") /\ Return(r)
       \/ ~Present /\ UNCHANGED doc /\ Raise(r)
       \/ ~Present /\ UNCHANGED doc /\ run[r].seen = "failed" /\ Return(r)
    /\ UNCHANGED <<chunks, blob, Requests, faults>>

\* ingest_document: the status is committed before the pipeline starts.
StartProcessing(r) ==
    /\ At(r, "start")
    /\ IF Present \/ run[r].seen = "processing"
         THEN /\ doc' = Written(run[r].seen, "processing")
              /\ Go(r, [pc |-> "load"])
              /\ UNCHANGED Queue
         ELSE UNCHANGED doc /\ Raise(r)
    /\ UNCHANGED <<chunks, blob, Requests, faults>>

\* Mutant: the failure is only raised.
Fail_Silently(r) ==
    /\ Raise(r)
    /\ UNCHANGED <<RowsAndBlob, Requests, faults>>

\* Any exception of the pipeline: rollback, then the status is written
\* whatever it was, then the exception goes on to the queue.
Fail(r) ==
    /\ doc' = IF Present THEN "failed" ELSE doc
    /\ Raise(r)
    /\ UNCHANGED <<chunks, blob, Requests, faults>>

\* A missing blob, or one without text, fails the document.
LoadBlob(r) ==
    /\ At(r, "load")
    /\ \/ Fail(r)
       \/ /\ blob
          /\ Go(r, [pc |-> "delete"])
          /\ UNCHANGED <<RowsAndBlob, Requests, Queue, faults>>

\* delete_for_document: the chunks that are committed now.
ChunksToReplace == chunks

\* Mutant: the deletion is committed before the first batch.
DeleteChunks_Committed(r) ==
    /\ At(r, "delete")
    /\ chunks' = {}
    /\ Go(r, [pc |-> "embed", doomed |-> ChunksToReplace])
    /\ UNCHANGED <<doc, blob, Requests, Queue, faults>>

DeleteChunks(r) ==
    /\ At(r, "delete")
    /\ Go(r, [pc |-> "embed", doomed |-> ChunksToReplace])
    /\ UNCHANGED <<RowsAndBlob, Requests, Queue, faults>>

\* The batches are embedded and their chunks added; they commit together.
Embed(r) ==
    /\ At(r, "embed")
    /\ \/ Fail(r)
       \/ /\ \E pc \in {"extract", "finish"} :
                Go(r, [run[r] EXCEPT !.pc = pc])
          /\ UNCHANGED <<RowsAndBlob, Requests, Queue, faults>>

\* Mutant: the new chunks are not in the transaction.
Replaced_Lost(r) == chunks \ run[r].doomed

Replaced(r) == (chunks \ run[r].doomed) \cup {r}

\* ForeignKey("documents.id").
InsertAllowed == Present

\* _extract_metadata never fails the run, but the usage row of a failed
\* completion is committed at once, and the chunks with it.
Extract(r) ==
    /\ At(r, "extract")
    /\ \/ /\ Go(r, [run[r] EXCEPT !.pc = "finish"])
          /\ UNCHANGED <<RowsAndBlob, Requests, Queue, faults>>
       \/ /\ InsertAllowed
          /\ chunks' = Replaced(r)
          /\ Go(r, [pc |-> "commit"])
          /\ UNCHANGED <<doc, blob, Requests, Queue, faults>>
       \/ ~InsertAllowed /\ Fail(r)

\* STATUS_READY and the chunks commit together.
Finish(r) ==
    /\ At(r, "finish")
    /\ \/ Fail(r)
       \/ /\ InsertAllowed
          /\ doc' = "ready"
          /\ chunks' = Replaced(r)
          /\ Return(r)
          /\ UNCHANGED <<blob, Requests, faults>>

\* The same when the chunks are already committed.
FinishCommitted(r) ==
    /\ At(r, "commit")
    /\ \/ Fail(r)
       \/ /\ Present
          /\ doc' = "ready"
          /\ Return(r)
          /\ UNCHANGED <<chunks, blob, Requests, faults>>

\* The worker dies; the queue notices and delivers again if it may.
Kill(r) ==
    /\ run[r] # Off
    /\ IF tries < MaxTries THEN "kill" \in faults ELSE "last kill" \in faults
    /\ Go(r, Off)
    /\ pending' = TRUE
    /\ UNCHANGED <<RowsAndBlob, Requests, tries, faults>>

\* CancelledError is no Exception: nothing is written, and ARQ does not retry
\* a job that timed out.
TimeOut(r) ==
    /\ "timeout" \in faults
    /\ run[r] # Off
    /\ Go(r, Off)
    /\ UNCHANGED <<RowsAndBlob, Requests, Queue, faults>>
-----------------------------------------------------------------------------
Init ==
    /\ doc = "none"
    /\ chunks = {}
    /\ blob = FALSE
    /\ upload = "start"
    /\ delete = "idle"
    /\ pending = FALSE
    /\ tries = 0
    /\ run = [r \in Tries |-> Off]
    /\ faults \in Regimes

Step(r) ==
    \/ Resolve(r) \/ MarkFailed(r) \/ StartProcessing(r) \/ LoadBlob(r)
    \/ DeleteChunks(r) \/ Embed(r) \/ Extract(r) \/ Finish(r)
    \/ FinishCommitted(r) \/ Acknowledge(r)

Upload == UploadSave \/ UploadCommit \/ UploadEnqueue
Delete == DeleteLoad \/ DeleteBlob \/ DeleteCommit

Next ==
    \/ Upload \/ UploadCrash
    \/ Delete \/ DeleteCrash
    \/ Deliver \/ Redeliver
    \/ \E r \in Tries : Step(r) \/ Kill(r) \/ TimeOut(r)

Spec == Init /\ [][Next]_vars

\* The request that uploads goes on until it ends or crashes, the queue
\* delivers what it holds, and a run that is alive takes its next step (every
\* provider call times out).  Nobody has to delete the document.
Fairness ==
    /\ WF_vars(Upload)
    /\ WF_vars(Deliver)
    /\ \A r \in Tries : WF_vars(Step(r))

FairSpec == Spec /\ Fairness
-----------------------------------------------------------------------------
(* Properties.                                                              *)

TypeOK ==
    /\ doc \in Status \cup {"none", "deleted"}
    /\ chunks \subseteq Tries
    /\ blob \in BOOLEAN
    /\ upload \in {"start", "saved", "committed", "done", "crashed"}
    /\ delete \in {"idle", "loaded", "blob gone", "done", "crashed"}
    /\ pending \in BOOLEAN
    /\ tries \in 0 .. MaxTries
    /\ run \in [Tries -> Run]
    /\ faults \in Regimes

\* A document that search may use has its chunks, whatever runs overlapped,
\* failed or died on the way (RetrievalService reads only ready documents).
ReadyHasChunks == doc = "ready" => chunks # {}

\* Chunks never outlive or precede their document.
ChunksHaveDocument == chunks # {} => Present

\* The blob of a document is there until somebody starts to delete it, so a
\* retry can always load it.
BlobUntilDelete == Present /\ delete = "idle" => blob

\* "Idempotent: re-running replaces chunks": one set of chunks at most.
OneChunkSet == Cardinality(chunks) <= 1

\* A run that repeats the ingestion takes no chunk away before it has its own
\* to put there: once there is something to find, there is until the deletion.
NeverEmptied == [][chunks # {} /\ doc' # "deleted" => chunks' # {}]_vars

\* A document whose upload succeeded is settled in the end: ready, failed with
\* a message, or deleted, and no step unsettles it again.  It is not left
\* "uploaded" or "processing" by processes that die and are started again.
Settled == doc \in {"ready", "failed", "deleted"}
Settles == upload = "done" ~> Settled
SettlesForGood ==
    faults \subseteq {"api crash", "kill"} => (upload = "done" ~> []Settled)

\* "run_ingest_job already marked the document failed": where a job ends by
\* returning or raising, the queue does not give up a document that is waiting.
GivenUpIsMarked ==
    /\ upload = "done" /\ tries > 0 /\ ~pending /\ Running = {}
    /\ faults \cap {"timeout", "last kill"} = {}
    => Settled

\* As long as no two runs overlap, the document behaves as a user is promised.
Lifecycle == INSTANCE DocumentLifecycle
                WITH status <- doc, copies <- Cardinality(chunks)
KeepsLifecycle ==
    /\ Lifecycle!Init
    /\ [][ "duplicate" \notin faults => Lifecycle!Next ]_<<doc, Cardinality(chunks)>>

\* Row, chunks and blob of a document fit together whatever fails: what is ready
\* can be found, what can be found exists, and what exists can be ingested again.
IndexOK == TypeOK /\ ReadyHasChunks /\ ChunksHaveDocument /\ BlobUntilDelete
=============================================================================
