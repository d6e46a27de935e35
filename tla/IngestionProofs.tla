---------------------------- MODULE IngestionProofs ----------------------------
(***************************************************************************)
(* Theorems about Ingestion, for every number of tries and whatever goes   *)
(* wrong.                                                                  *)
(***************************************************************************)
EXTENDS Ingestion, FiniteSetTheorems, TLAPS

\* The queue knows nothing of a document before its upload is committed.
UploadFirst ==
    upload \in {"start", "saved"} =>
        /\ doc = "none"
        /\ ~pending
        /\ delete = "idle"
        /\ upload = "saved" => blob
        /\ \A r \in Tries : run[r] = Off

\* A run whose chunks are committed finds chunks when it announces the
\* document, be they its own or those of a run that replaced them.
CommittedHasChunks ==
    \A r \in Tries : At(r, "commit") /\ Present => chunks # {}

Inv ==
    /\ TypeOK
    /\ UploadFirst
    /\ ReadyHasChunks
    /\ ChunksHaveDocument
    /\ CommittedHasChunks
    /\ BlobUntilDelete

\* What every step of a run has in common.
RunStep(r) ==
    /\ run[r] # Off
    /\ \E next \in Run : /\ Go(r, next)
                         /\ next.pc = "commit" => chunks' # {}
    /\ doc' = doc \/ (Present /\ doc' \in Status)
    /\ chunks' = chunks \/ (Present /\ chunks' \subseteq Tries /\ chunks' # {})
    /\ doc' = "ready" => doc = "ready" \/ chunks' # {}
    /\ pending' \in BOOLEAN
    /\ UNCHANGED <<blob, upload, delete, tries, faults>>

LEMMA TriesNat == MaxTries \in Nat
  BY IngestionAssumption

LEMMA OffRun == Off \in Run /\ Off.pc = "off"
  BY DEF Run, Off

LEMMA PlainRun ==
    \A pc \in {"resolve", "load", "delete", "commit", "done"} :
        [pc |-> pc] \in Run /\ [pc |-> pc].pc = pc
  BY DEF Run

LEMMA SeenRun ==
    \A pc \in {"mark", "start"}, s \in Status :
        [pc |-> pc, seen |-> s] \in Run /\ [pc |-> pc, seen |-> s].pc = pc
  BY DEF Run

LEMMA DoomedRun ==
    \A pc \in {"embed", "extract", "finish"}, d \in SUBSET Tries :
        /\ [pc |-> pc, doomed |-> d] \in Run
        /\ [pc |-> pc, doomed |-> d].pc = pc
  BY DEF Run

\* A run that has chosen the chunks it replaces still has them as it goes on.
LEMMA HasDoomed ==
    ASSUME NEW s \in Run, s.pc \in {"embed", "extract", "finish"}
    PROVE  /\ s.doomed \subseteq Tries
           /\ \A pc \in {"embed", "extract", "finish"} :
                 /\ [s EXCEPT !.pc = pc] \in Run
                 /\ [s EXCEPT !.pc = pc].pc = pc
<1>1. s \in [pc : {"embed", "extract", "finish"}, doomed : SUBSET Tries]
  BY DEF Run, Off
<1>2. QED
  BY <1>1 DEF Run

LEMMA HasSeen ==
    ASSUME NEW s \in Run, s.pc \in {"mark", "start"}
    PROVE  s.seen \in Status
  BY DEF Run, Off

LEMMA OnTheWay ==
    ASSUME NEW r \in Tries, NEW pc, At(r, pc), pc # "off"
    PROVE  run[r] # Off
  BY OffRun DEF At

\* Every step of a run keeps the invariant.
LEMMA RunStepInv ==
    ASSUME Inv, NEW r \in Tries, RunStep(r)
    PROVE  Inv'
<1> PICK next \in Run : Go(r, next) /\ (next.pc = "commit" => chunks' # {})
  BY DEF RunStep
<1>1. upload \notin {"start", "saved"}
  BY DEF RunStep, Inv, UploadFirst
<1>2. UploadFirst'
  BY <1>1 DEF RunStep, UploadFirst
<1>3. Present' <=> Present
  BY DEF RunStep, Present, Status
<1>4. chunks' = {} => chunks = {}
  BY DEF RunStep
<1>5. TypeOK'
  <2>1. run' \in [Tries -> Run]
    BY DEF Inv, TypeOK, Go
  <2>2. chunks' \subseteq Tries
    BY DEF RunStep, Inv, TypeOK
  <2>3. doc' \in Status \cup {"none", "deleted"}
    BY DEF RunStep, Inv, TypeOK
  <2>4. QED
    BY <2>1, <2>2, <2>3 DEF RunStep, Inv, TypeOK
<1>6. ReadyHasChunks'
  BY <1>4 DEF RunStep, Inv, ReadyHasChunks
<1>7. ChunksHaveDocument'
  BY <1>3 DEF RunStep, Inv, ChunksHaveDocument
<1>8. CommittedHasChunks'
  <2> SUFFICES ASSUME NEW q \in Tries, At(q, "commit")', Present'
               PROVE  chunks' # {}
    BY DEF CommittedHasChunks
  <2>1. CASE q = r
    BY <2>1 DEF At, Go, Inv, TypeOK
  <2>2. CASE q # r
    <3>1. At(q, "commit")
      BY <2>2 DEF At, Go, Inv, TypeOK
    <3>2. QED
      BY <3>1, <1>3, <1>4 DEF Inv, CommittedHasChunks
  <2>3. QED
    BY <2>1, <2>2
<1>9. BlobUntilDelete'
  BY <1>3 DEF RunStep, Inv, BlobUntilDelete
<1>10. QED
  BY <1>2, <1>5, <1>6, <1>7, <1>8, <1>9 DEF Inv

\* Leaving the queue: to the caller, or by an exception.
LEMMA RaiseStep ==
    ASSUME Inv, NEW r \in Tries, Raise(r)
    PROVE  /\ Go(r, Off)
           /\ pending' \in BOOLEAN
           /\ UNCHANGED tries
  BY DEF Raise, Inv, TypeOK

LEMMA FailStep ==
    ASSUME Inv, NEW r \in Tries, run[r] # Off, Fail(r)
    PROVE  RunStep(r)
<1>1. Go(r, Off) /\ pending' \in BOOLEAN /\ UNCHANGED tries
  BY RaiseStep DEF Fail
<1>2. \E next \in Run : Go(r, next) /\ (next.pc = "commit" => chunks' # {})
  BY <1>1, OffRun
<1>3. QED
  BY <1>1, <1>2 DEF Fail, RunStep, Requests, Status

\* A run moves on and changes neither the row nor the chunks.
LEMMA QuietStep ==
    ASSUME Inv, NEW r \in Tries, run[r] # Off,
           NEW next \in Run, next.pc # "commit", Go(r, next),
           pending' \in BOOLEAN,
           UNCHANGED <<doc, chunks, blob, upload, delete, tries, faults>>
    PROVE  RunStep(r)
<1>1. \E n \in Run : Go(r, n) /\ (n.pc = "commit" => chunks' # {})
  OBVIOUS
<1>2. QED
  BY <1>1 DEF RunStep

LEMMA ResolveStep ==
    ASSUME Inv, NEW r \in Tries, Resolve(r)
    PROVE  RunStep(r)
<1>1. run[r] # Off
  BY OnTheWay DEF Resolve
<1>2. UNCHANGED <<doc, chunks, blob, upload, delete, faults>>
  BY DEF Resolve, RowsAndBlob, Requests
<1>3. PICK next \in Run : next.pc # "commit" /\ Go(r, next)
  <2>1. CASE Raise(r)
    BY <2>1, RaiseStep, OffRun
  <2>2. CASE ~Present /\ Return(r)
    BY <2>2, PlainRun DEF Return
  <2>3. CASE Present /\ \E pc \in {"mark", "start"} : Go(r, [pc |-> pc, seen |-> doc])
    <3>1. PICK pc \in {"mark", "start"} : Go(r, [pc |-> pc, seen |-> doc])
      BY <2>3
    <3>2. doc \in Status
      BY <2>3 DEF Present
    <3>3. QED
      BY <3>1, <3>2, SeenRun
  <2>4. QED
    BY <2>1, <2>2, <2>3 DEF Resolve
<1>4. pending' \in BOOLEAN /\ UNCHANGED tries
  <2>1. CASE Raise(r)
    BY <2>1, RaiseStep
  <2>2. CASE UNCHANGED Queue
    BY <2>2 DEF Queue, Inv, TypeOK
  <2>3. QED
    BY <2>1, <2>2 DEF Resolve, Return
<1>5. QED
  BY <1>1, <1>2, <1>3, <1>4, QuietStep

LEMMA MarkFailedStep ==
    ASSUME Inv, NEW r \in Tries, MarkFailed(r)
    PROVE  RunStep(r)
<1>1. run[r] # Off
  BY OnTheWay DEF MarkFailed
<1>2. \E next \in Run : Go(r, next) /\ (next.pc = "commit" => chunks' # {})
  BY PlainRun, OffRun, RaiseStep DEF MarkFailed, Return
<1>3. pending' \in BOOLEAN /\ UNCHANGED <<chunks, blob, upload, delete, tries, faults>>
  BY RaiseStep DEF MarkFailed, Return, Requests, Queue, Inv, TypeOK
<1>4. doc' = doc \/ (Present /\ doc' = "failed")
  BY DEF MarkFailed, Written
<1>5. QED
  BY <1>1, <1>2, <1>3, <1>4 DEF RunStep, Status

LEMMA StartProcessingStep ==
    ASSUME Inv, NEW r \in Tries, StartProcessing(r)
    PROVE  RunStep(r)
<1>1. run[r] # Off
  BY OnTheWay DEF StartProcessing
<1>2. \E next \in Run : Go(r, next) /\ (next.pc = "commit" => chunks' # {})
  BY PlainRun, OffRun, RaiseStep DEF StartProcessing
<1>3. pending' \in BOOLEAN /\ UNCHANGED <<chunks, blob, upload, delete, tries, faults>>
  BY RaiseStep DEF StartProcessing, Requests, Queue, Inv, TypeOK
<1>4. doc' = doc \/ (Present /\ doc' = "processing")
  BY DEF StartProcessing, Written
<1>5. QED
  BY <1>1, <1>2, <1>3, <1>4 DEF RunStep, Status

LEMMA LoadBlobStep ==
    ASSUME Inv, NEW r \in Tries, LoadBlob(r)
    PROVE  RunStep(r)
<1>1. run[r] # Off
  BY OnTheWay DEF LoadBlob
<1>2. CASE Fail(r)
  BY <1>1, <1>2, FailStep
<1>3. CASE /\ Go(r, [pc |-> "delete"])
           /\ UNCHANGED <<RowsAndBlob, Requests, Queue, faults>>
  BY <1>1, <1>3, QuietStep, PlainRun
     DEF RowsAndBlob, Requests, Queue, Inv, TypeOK
<1>4. QED
  BY <1>2, <1>3 DEF LoadBlob

LEMMA DeleteChunksStep ==
    ASSUME Inv, NEW r \in Tries, DeleteChunks(r)
    PROVE  RunStep(r)
<1>1. run[r] # Off
  BY OnTheWay DEF DeleteChunks
<1>2. chunks \in SUBSET Tries
  BY DEF Inv, TypeOK
<1>3. PICK next \in Run : next.pc # "commit" /\ Go(r, next)
  BY <1>2, DoomedRun DEF DeleteChunks, ChunksToReplace
<1>4. QED
  BY <1>1, <1>3, QuietStep
     DEF DeleteChunks, RowsAndBlob, Requests, Queue, Inv, TypeOK

LEMMA EmbedStep ==
    ASSUME Inv, NEW r \in Tries, Embed(r)
    PROVE  RunStep(r)
<1>1. run[r] # Off /\ run[r] \in Run /\ run[r].pc = "embed"
  BY OnTheWay DEF Embed, At, Inv, TypeOK
<1>2. CASE Fail(r)
  BY <1>1, <1>2, FailStep
<1>3. CASE /\ \E pc \in {"extract", "finish"} : Go(r, [run[r] EXCEPT !.pc = pc])
           /\ UNCHANGED <<RowsAndBlob, Requests, Queue, faults>>
  <2>1. PICK pc \in {"extract", "finish"} : Go(r, [run[r] EXCEPT !.pc = pc])
    BY <1>3
  <2>2. /\ [run[r] EXCEPT !.pc = pc] \in Run
        /\ [run[r] EXCEPT !.pc = pc].pc # "commit"
    BY <1>1, HasDoomed
  <2>3. QED
    BY <1>1, <1>3, <2>1, <2>2, QuietStep
       DEF RowsAndBlob, Requests, Queue, Inv, TypeOK
<1>4. QED
  BY <1>2, <1>3 DEF Embed

LEMMA ReplacedHasOwn ==
    ASSUME Inv, NEW r \in Tries
    PROVE  Replaced(r) \subseteq Tries /\ Replaced(r) # {}
  BY DEF Replaced, Inv, TypeOK

LEMMA ExtractStep ==
    ASSUME Inv, NEW r \in Tries, Extract(r)
    PROVE  RunStep(r)
<1>1. run[r] # Off /\ run[r] \in Run /\ run[r].pc = "extract"
  BY OnTheWay DEF Extract, At, Inv, TypeOK
<1>2. CASE /\ Go(r, [run[r] EXCEPT !.pc = "finish"])
           /\ UNCHANGED <<RowsAndBlob, Requests, Queue, faults>>
  <2>1. /\ [run[r] EXCEPT !.pc = "finish"] \in Run
        /\ [run[r] EXCEPT !.pc = "finish"].pc # "commit"
    BY <1>1, HasDoomed
  <2>2. QED
    BY <1>1, <1>2, <2>1, QuietStep
       DEF RowsAndBlob, Requests, Queue, Inv, TypeOK
<1>3. CASE /\ InsertAllowed
           /\ chunks' = Replaced(r)
           /\ Go(r, [pc |-> "commit"])
           /\ UNCHANGED <<doc, blob, Requests, Queue, faults>>
  <2>1. chunks' \subseteq Tries /\ chunks' # {}
    BY <1>3, ReplacedHasOwn
  <2>2. \E next \in Run : Go(r, next) /\ (next.pc = "commit" => chunks' # {})
    BY <1>3, <2>1, PlainRun
  <2>3. QED
    BY <1>1, <1>3, <2>1, <2>2
       DEF RunStep, InsertAllowed, Requests, Queue, Inv, TypeOK
<1>4. CASE Fail(r)
  BY <1>1, <1>4, FailStep
<1>5. QED
  BY <1>2, <1>3, <1>4 DEF Extract

LEMMA FinishStep ==
    ASSUME Inv, NEW r \in Tries, Finish(r)
    PROVE  RunStep(r)
<1>1. run[r] # Off
  BY OnTheWay DEF Finish
<1>2. CASE Fail(r)
  BY <1>1, <1>2, FailStep
<1>3. CASE /\ InsertAllowed
           /\ doc' = "ready"
           /\ chunks' = Replaced(r)
           /\ Return(r)
           /\ UNCHANGED <<blob, Requests, faults>>
  <2>1. chunks' \subseteq Tries /\ chunks' # {}
    BY <1>3, ReplacedHasOwn
  <2>2. \E next \in Run : Go(r, next) /\ (next.pc = "commit" => chunks' # {})
    BY <1>3, <2>1, PlainRun DEF Return
  <2>3. pending' \in BOOLEAN /\ UNCHANGED <<blob, upload, delete, tries>>
    BY <1>3 DEF Return, Requests, Queue, Inv, TypeOK
  <2>4. QED
    BY <1>1, <1>3, <2>1, <2>2, <2>3 DEF RunStep, InsertAllowed, Status
<1>4. QED
  BY <1>2, <1>3 DEF Finish

LEMMA FinishCommittedStep ==
    ASSUME Inv, NEW r \in Tries, FinishCommitted(r)
    PROVE  RunStep(r)
<1>1. run[r] # Off
  BY OnTheWay DEF FinishCommitted
<1>2. CASE Fail(r)
  BY <1>1, <1>2, FailStep
<1>3. CASE /\ Present
           /\ doc' = "ready"
           /\ Return(r)
           /\ UNCHANGED <<chunks, blob, Requests, faults>>
  <2>1. chunks' # {}
    BY <1>3 DEF FinishCommitted, Inv, CommittedHasChunks
  <2>2. \E next \in Run : Go(r, next) /\ (next.pc = "commit" => chunks' # {})
    BY <1>3, <2>1, PlainRun DEF Return
  <2>3. /\ pending' \in BOOLEAN
        /\ UNCHANGED <<chunks, blob, upload, delete, tries, faults>>
    BY <1>3 DEF Return, Requests, Queue, Inv, TypeOK
  <2>4. QED
    BY <1>1, <1>3, <2>1, <2>2, <2>3 DEF RunStep, Status
<1>4. QED
  BY <1>2, <1>3 DEF FinishCommitted

LEMMA OffStep ==
    ASSUME Inv, NEW r \in Tries, Acknowledge(r) \/ Kill(r) \/ TimeOut(r)
    PROVE  RunStep(r)
<1>1. run[r] # Off
  BY OnTheWay DEF Acknowledge, Kill, TimeOut
<1>2. Go(r, Off) /\ pending' \in BOOLEAN
  BY DEF Acknowledge, Kill, TimeOut, Queue, Inv, TypeOK
<1>3. UNCHANGED <<doc, chunks, blob, upload, delete, tries, faults>>
  BY DEF Acknowledge, Kill, TimeOut, Queue, RowsAndBlob, Requests
<1>4. QED
  BY <1>1, <1>2, <1>3, OffRun, QuietStep
-----------------------------------------------------------------------------
LEMMA InitInv == Init => Inv
<1> SUFFICES ASSUME Init
             PROVE  Inv
  OBVIOUS
<1>1. 0 \in 0 .. MaxTries
  BY TriesNat
<1>2. TypeOK
  BY <1>1, OffRun DEF Init, TypeOK
<1>3. CommittedHasChunks
  BY DEF Init, CommittedHasChunks, Present, Status
<1>4. UploadFirst /\ ReadyHasChunks /\ ChunksHaveDocument /\ BlobUntilDelete
  BY DEF Init, UploadFirst, ReadyHasChunks, ChunksHaveDocument,
         BlobUntilDelete, Present, Status
<1>5. QED
  BY <1>2, <1>3, <1>4 DEF Inv

\* The requests of the API keep the invariant.
LEMMA RequestInv ==
    ASSUME Inv, Upload \/ UploadCrash \/ Delete \/ DeleteCrash
    PROVE  Inv'
<1> USE DEF Inv, TypeOK, UploadFirst, ReadyHasChunks, ChunksHaveDocument,
            CommittedHasChunks, BlobUntilDelete, Present, Status, At,
            RowsAndBlob, Requests, Queue
<1>1. CASE UploadSave
  BY <1>1 DEF UploadSave
<1>2. CASE UploadCommit
  BY <1>2, OffRun DEF UploadCommit
<1>3. CASE UploadEnqueue
  BY <1>3 DEF UploadEnqueue
<1>4. CASE UploadCrash
  BY <1>4 DEF UploadCrash
<1>5. CASE DeleteLoad
  BY <1>5 DEF DeleteLoad
<1>6. CASE DeleteBlob
  BY <1>6 DEF DeleteBlob
<1>7. CASE DeleteCommit
  BY <1>7 DEF DeleteCommit
<1>8. CASE DeleteCrash
  BY <1>8 DEF DeleteCrash
<1>9. QED
  BY <1>1, <1>2, <1>3, <1>4, <1>5, <1>6, <1>7, <1>8 DEF Upload, Delete

LEMMA DeliverInv ==
    ASSUME Inv, Deliver
    PROVE  Inv'
<1>1. tries + 1 \in Tries /\ tries + 1 \in 0 .. MaxTries
  <2>1. tries \in 0 .. MaxTries /\ tries < MaxTries
    BY DEF Deliver, MayDeliver, Inv, TypeOK
  <2>2. QED
    BY <2>1, TriesNat DEF Tries
<1> DEFINE next == [pc |-> "resolve"]
<1>2. next \in Run /\ next.pc = "resolve"
  BY PlainRun
<1>3. run' \in [Tries -> Run]
  BY <1>1, <1>2 DEF Deliver, Go, Inv, TypeOK
<1>4. TypeOK'
  BY <1>1, <1>3 DEF Deliver, Inv, TypeOK, RowsAndBlob, Requests
<1>5. UploadFirst'
  BY DEF Deliver, MayDeliver, Inv, UploadFirst, Requests
<1>6. CommittedHasChunks'
  <2> SUFFICES ASSUME NEW q \in Tries, At(q, "commit")', Present'
               PROVE  chunks' # {}
    BY DEF CommittedHasChunks
  <2>1. q # tries + 1
    BY <1>1, <1>2 DEF At, Go, Deliver, Inv, TypeOK
  <2>2. At(q, "commit")
    BY <2>1 DEF At, Go, Deliver, Inv, TypeOK
  <2>3. QED
    BY <2>2 DEF Deliver, RowsAndBlob, Present, Inv, CommittedHasChunks
<1>7. ReadyHasChunks' /\ ChunksHaveDocument' /\ BlobUntilDelete'
  BY DEF Deliver, RowsAndBlob, Requests, Present, Inv, ReadyHasChunks,
         ChunksHaveDocument, BlobUntilDelete
<1>8. QED
  BY <1>4, <1>5, <1>6, <1>7 DEF Inv

LEMMA RedeliverInv ==
    ASSUME Inv, Redeliver
    PROVE  Inv'
<1>1. upload \notin {"start", "saved"}
  BY DEF Redeliver, Running, Inv, UploadFirst
<1>2. QED
  BY <1>1 DEF Redeliver, RowsAndBlob, Requests, Inv, TypeOK, UploadFirst,
              ReadyHasChunks, ChunksHaveDocument, CommittedHasChunks,
              BlobUntilDelete, Present, At

\* One step of the system keeps the invariant.
LEMMA NextInv == Inv /\ [Next]_vars => Inv'
<1> SUFFICES ASSUME Inv, [Next]_vars
             PROVE  Inv'
  OBVIOUS
<1>1. CASE Upload \/ UploadCrash \/ Delete \/ DeleteCrash
  BY <1>1, RequestInv
<1>2. CASE Deliver
  BY <1>2, DeliverInv
<1>3. CASE Redeliver
  BY <1>3, RedeliverInv
<1>4. ASSUME NEW r \in Tries, Step(r) \/ Kill(r) \/ TimeOut(r)
      PROVE  Inv'
  <2>1. RunStep(r)
    BY <1>4, ResolveStep, MarkFailedStep, StartProcessingStep, LoadBlobStep,
       DeleteChunksStep, EmbedStep, ExtractStep, FinishStep,
       FinishCommittedStep, OffStep DEF Step
  <2>2. QED
    BY <2>1, RunStepInv
<1>5. CASE UNCHANGED vars
  BY <1>5 DEF vars, Inv, TypeOK, UploadFirst, ReadyHasChunks,
              ChunksHaveDocument, CommittedHasChunks, BlobUntilDelete,
              Present, At
<1>6. QED
  BY <1>1, <1>2, <1>3, <1>4, <1>5 DEF Next

\* The inductive invariant, whatever dies, times out or overlaps.
THEOREM IngestionInvariant == Spec => []Inv
  BY InitInv, NextInv, PTL DEF Spec

\* The variables keep their types, whatever dies or is delivered twice.
THEOREM TypeCorrect == Spec => []TypeOK
<1>1. Inv => TypeOK
  BY DEF Inv
<1>2. QED
  BY <1>1, IngestionInvariant, PTL

\* Search never meets a ready document without chunks, nor chunks without a
\* document; a retry finds the blob until somebody deletes the document.
THEOREM IndexConsistent ==
    Spec => [](ReadyHasChunks /\ ChunksHaveDocument /\ BlobUntilDelete)
<1>1. Inv => ReadyHasChunks /\ ChunksHaveDocument /\ BlobUntilDelete
  BY DEF Inv
<1>2. QED
  BY <1>1, IngestionInvariant, PTL

\* No chunk outlives or precedes its document, whatever runs beside a deletion
\* (the foreign key's cascade, delete_document).
THEOREM ChunksAreOwned == Spec => []ChunksHaveDocument
<1>1. Inv => ChunksHaveDocument
  BY DEF Inv
<1>2. QED
  BY <1>1, IngestionInvariant, PTL

\* A retry can load the blob until somebody starts to delete the document
\* (upload_document saves it before the row, only delete_document removes it).
THEOREM BlobIsThere == Spec => []BlobUntilDelete
<1>1. Inv => BlobUntilDelete
  BY DEF Inv
<1>2. QED
  BY <1>1, IngestionInvariant, PTL

\* Ingesting again never takes a document out of the index.
THEOREM NeverEmptiedTheorem == Spec => NeverEmptied
<1>1. Inv /\ [Next]_vars =>
         [chunks # {} /\ doc' # "deleted" => chunks' # {}]_vars
  <2> SUFFICES ASSUME Inv, Next, chunks # {}, doc' # "deleted"
               PROVE  chunks' # {}
    OBVIOUS
  <2>1. CASE Upload \/ UploadCrash \/ Delete \/ DeleteCrash
    BY <2>1 DEF Upload, UploadSave, UploadCommit, UploadEnqueue, UploadCrash,
                Delete, DeleteLoad, DeleteBlob, DeleteCommit, DeleteCrash,
                RowsAndBlob
  <2>2. CASE Deliver \/ Redeliver
    BY <2>2 DEF Deliver, Redeliver, RowsAndBlob
  <2>3. ASSUME NEW r \in Tries, Step(r) \/ Kill(r) \/ TimeOut(r)
        PROVE  chunks' # {}
    <3>1. RunStep(r)
      BY <2>3, ResolveStep, MarkFailedStep, StartProcessingStep, LoadBlobStep,
         DeleteChunksStep, EmbedStep, ExtractStep, FinishStep,
         FinishCommittedStep, OffStep DEF Step
    <3>2. QED
      BY <3>1 DEF RunStep
  <2>4. QED
    BY <2>1, <2>2, <2>3 DEF Next
<1>2. QED
  BY <1>1, IngestionInvariant, PTL DEF Spec, NeverEmptied
-----------------------------------------------------------------------------
(* The refinement.  Without duplicates there is one run at a time, so what  *)
(* a run has read is still so when it uses it.                              *)

\* What a run may rely on, unless the document was deleted meanwhile.
Knows(s) ==
    /\ s.pc \in {"mark", "start"} => doc \in {s.seen, "deleted"}
    /\ s.pc \in {"load", "delete", "embed", "extract", "finish", "commit"}
          => doc \in {"processing", "deleted"}
    /\ s.pc \in {"embed", "extract", "finish"} => chunks \subseteq s.doomed

\* A delivery is in the queue or being run, and only after the upload.
OneAtATime ==
    /\ \A r, q \in Tries : run[r] # Off /\ run[q] # Off => r = q
    /\ pending => \A r \in Tries : run[r] = Off
    /\ upload = "committed" => ~pending /\ \A r \in Tries : run[r] = Off

OneSet == \A a, b \in chunks : a = b

Undisturbed ==
    /\ OneAtATime
    /\ OneSet
    /\ \A r \in Tries : Knows(run[r])
    /\ delete \in {"loaded", "blob gone"} => Present

\* A step of the implementation is one of the abstract document, or none.
Keeps == [Lifecycle!Next]_<<doc, Cardinality(chunks)>>

LEMMA OffKnows == \A r \in Tries : run[r] = Off => Knows(run[r])
  BY OffRun DEF Knows

\* The number of copies that the abstract document has.
LEMMA Copies ==
    /\ Cardinality({}) = 0
    /\ \A r \in Tries : Cardinality({r}) = 1
  BY FS_EmptySet, FS_Singleton

LEMMA KeepsUnchanged == UNCHANGED <<doc, chunks>> => Keeps
  BY DEF Keeps

\* One run steps, and all it has to show is what it knows afterwards.
LEMMA AloneStep ==
    ASSUME Inv, Undisturbed, NEW r \in Tries, RunStep(r),
           NEW next \in Run, Go(r, next), Knows(next)',
           pending' => next = Off, OneSet'
    PROVE  Undisturbed'
<1>1. \A q \in Tries : q # r => run[q] = Off /\ run'[q] = Off
  BY DEF RunStep, Undisturbed, OneAtATime, Go, Inv, TypeOK
<1>2. run'[r] = next
  BY DEF Go, Inv, TypeOK
<1>3. upload' # "committed"
  BY DEF RunStep, Undisturbed, OneAtATime
<1>4. OneAtATime'
  BY <1>1, <1>2, <1>3 DEF OneAtATime
<1>5. ASSUME NEW q \in Tries
      PROVE  Knows(run[q])'
  <2>1. CASE q = r
    BY <2>1, <1>2 DEF Knows
  <2>2. CASE q # r
    BY <2>2, <1>1, OffRun DEF Knows
  <2>3. QED
    BY <2>1, <2>2
<1>6. (delete \in {"loaded", "blob gone"} => Present)'
  BY DEF RunStep, Undisturbed, Present, Status
<1>7. QED
  BY <1>4, <1>5, <1>6 DEF Undisturbed

\* While a run is under way the queue is empty.
LEMMA NothingPending ==
    ASSUME Undisturbed, NEW r \in Tries, run[r] # Off
    PROVE  ~pending
  BY DEF Undisturbed, OneAtATime

\* A run that ends, whatever it writes of the status.
LEMMA EndStep ==
    ASSUME Inv, Undisturbed, NEW r \in Tries, RunStep(r), Go(r, Off),
           UNCHANGED chunks
    PROVE  Undisturbed'
<1>1. Knows(Off)'
  BY OffRun DEF Knows
<1>2. OneSet'
  BY DEF Undisturbed, OneSet
<1>3. QED
  BY <1>1, <1>2, OffRun, AloneStep

LEMMA FailKeeps ==
    ASSUME Inv, Undisturbed, NEW r \in Tries, run[r] # Off, Fail(r)
    PROVE  Undisturbed' /\ Keeps
<1>1. Undisturbed'
  BY FailStep, EndStep, RaiseStep DEF Fail
<1>2. Keeps
  BY DEF Fail, Keeps, Lifecycle!Next, Lifecycle!Fail, Lifecycle!Listed,
         Present, Status
<1>3. QED
  BY <1>1, <1>2

\* A run moves on within its transaction: nothing can be seen of it.
LEMMA UnseenKeeps ==
    ASSUME Inv, Undisturbed, NEW r \in Tries, RunStep(r),
           NEW next \in Run, Go(r, next), Knows(next),
           UNCHANGED <<doc, chunks, pending>>
    PROVE  Undisturbed' /\ Keeps
<1>1. Knows(next)' /\ OneSet'
  BY DEF Knows, Undisturbed, OneSet
<1>2. ~pending'
  BY NothingPending DEF RunStep
<1>3. QED
  BY <1>1, <1>2, AloneStep, KeepsUnchanged

LEMMA ResolveKeeps ==
    ASSUME Inv, Undisturbed, NEW r \in Tries, Resolve(r)
    PROVE  Undisturbed' /\ Keeps
<1>1. RunStep(r) /\ run[r] # Off
  BY ResolveStep, OnTheWay DEF Resolve
<1>2. UNCHANGED <<doc, chunks>>
  BY DEF Resolve, RowsAndBlob
<1>3. CASE Raise(r)
  BY <1>1, <1>2, <1>3, EndStep, RaiseStep, KeepsUnchanged
<1>4. CASE ~Present /\ Return(r)
  <2>1. PICK next \in Run : next.pc = "done" /\ Go(r, next)
    BY <1>4, PlainRun DEF Return
  <2>2. Knows(next)
    BY <2>1 DEF Knows
  <2>3. QED
    BY <1>1, <1>2, <1>4, <2>1, <2>2, UnseenKeeps DEF Return, Queue
<1>5. CASE /\ Present
           /\ \E pc \in {"mark", "start"} : Go(r, [pc |-> pc, seen |-> doc])
           /\ UNCHANGED Queue
  <2>1. PICK pc \in {"mark", "start"} : Go(r, [pc |-> pc, seen |-> doc])
    BY <1>5
  <2>2. PICK next \in Run : /\ next = [pc |-> pc, seen |-> doc]
                            /\ next.pc = pc /\ next.seen = doc
    BY <1>5, SeenRun DEF Present
  <2>3. Knows(next)
    BY <2>2 DEF Knows
  <2>4. QED
    BY <1>1, <1>2, <1>5, <2>1, <2>2, <2>3, UnseenKeeps DEF Queue
<1>6. QED
  BY <1>3, <1>4, <1>5 DEF Resolve

\* What a run has seen of a document that is still there is the truth.
LEMMA SeenIsTrue ==
    ASSUME Inv, Undisturbed, NEW r \in Tries, run[r].pc \in {"mark", "start"}
    PROVE  Present => run[r].seen = doc
  BY DEF Undisturbed, Knows, Present, Status

LEMMA MarkFailedKeeps ==
    ASSUME Inv, Undisturbed, NEW r \in Tries, MarkFailed(r)
    PROVE  Undisturbed' /\ Keeps
<1>1. RunStep(r) /\ run[r] # Off
  BY MarkFailedStep, OnTheWay DEF MarkFailed
<1>2. UNCHANGED chunks /\ (doc' = doc \/ (Present /\ doc' = "failed"))
  BY DEF MarkFailed, Written
<1>3. Keeps
  BY <1>2 DEF Keeps, Lifecycle!Next, Lifecycle!Fail, Lifecycle!Listed,
              Present, Status
<1>4. CASE Raise(r)
  BY <1>1, <1>2, <1>3, <1>4, EndStep, RaiseStep
<1>5. CASE Return(r)
  <2>1. PICK next \in Run : next.pc = "done" /\ Go(r, next)
    BY <1>5, PlainRun DEF Return
  <2>2. Knows(next)' /\ OneSet' /\ ~pending'
    BY <1>1, <1>2, <1>5, <2>1, NothingPending
       DEF Knows, Undisturbed, OneSet, Return, Queue
  <2>3. QED
    BY <1>1, <1>3, <2>1, <2>2, AloneStep
<1>6. QED
  BY <1>4, <1>5 DEF MarkFailed

LEMMA StartProcessingKeeps ==
    ASSUME Inv, Undisturbed, NEW r \in Tries, StartProcessing(r)
    PROVE  Undisturbed' /\ Keeps
<1>1. RunStep(r) /\ run[r] # Off /\ run[r].pc = "start"
  BY StartProcessingStep, OnTheWay DEF StartProcessing, At
<1>2. UNCHANGED chunks /\ (doc' = doc \/ (Present /\ doc' = "processing"))
  BY DEF StartProcessing, Written
<1>3. Keeps
  BY <1>2 DEF Keeps, Lifecycle!Next, Lifecycle!Process, Lifecycle!Listed,
              Present, Status
<1>4. CASE Raise(r)
  BY <1>1, <1>2, <1>3, <1>4, EndStep, RaiseStep
<1>5. CASE /\ Present \/ run[r].seen = "processing"
           /\ doc' = Written(run[r].seen, "processing")
           /\ Go(r, [pc |-> "load"])
           /\ UNCHANGED Queue
  <2>1. PICK next \in Run : next.pc = "load" /\ Go(r, next)
    BY <1>5, PlainRun
  <2>2. doc' \in {"processing", "deleted"}
    <3>1. CASE run[r].seen = "processing"
      BY <1>1, <1>5, <3>1 DEF Written, Undisturbed, Knows
    <3>2. CASE run[r].seen # "processing"
      BY <1>5, <3>2 DEF Written
    <3>3. QED
      BY <3>1, <3>2
  <2>3. Knows(next)' /\ OneSet' /\ ~pending'
    BY <1>1, <1>2, <1>5, <2>1, <2>2, NothingPending
       DEF Knows, Undisturbed, OneSet, Queue
  <2>4. QED
    BY <1>1, <1>3, <2>1, <2>3, AloneStep
<1>6. QED
  BY <1>4, <1>5 DEF StartProcessing

LEMMA LoadBlobKeeps ==
    ASSUME Inv, Undisturbed, NEW r \in Tries, LoadBlob(r)
    PROVE  Undisturbed' /\ Keeps
<1>1. RunStep(r) /\ run[r] # Off /\ run[r].pc = "load"
  BY LoadBlobStep, OnTheWay DEF LoadBlob, At
<1>2. CASE Fail(r)
  BY <1>1, <1>2, FailKeeps
<1>3. CASE /\ Go(r, [pc |-> "delete"])
           /\ UNCHANGED <<RowsAndBlob, Requests, Queue, faults>>
  <2>1. PICK next \in Run : next.pc = "delete" /\ Go(r, next)
    BY <1>3, PlainRun
  <2>2. Knows(next)
    BY <1>1, <2>1 DEF Knows, Undisturbed
  <2>3. QED
    BY <1>1, <1>3, <2>1, <2>2, UnseenKeeps DEF RowsAndBlob, Queue
<1>4. QED
  BY <1>2, <1>3 DEF LoadBlob

LEMMA DeleteChunksKeeps ==
    ASSUME Inv, Undisturbed, NEW r \in Tries, DeleteChunks(r)
    PROVE  Undisturbed' /\ Keeps
<1>1. RunStep(r) /\ run[r].pc = "delete"
  BY DeleteChunksStep DEF DeleteChunks, At
<1>2. PICK next \in Run : /\ next.pc = "embed" /\ next.doomed = chunks
                          /\ Go(r, next)
  <2>1. chunks \in SUBSET Tries
    BY DEF Inv, TypeOK
  <2>2. QED
    BY <2>1, DoomedRun DEF DeleteChunks, ChunksToReplace
<1>3. Knows(next)
  BY <1>1, <1>2 DEF Knows, Undisturbed
<1>4. QED
  BY <1>1, <1>2, <1>3, UnseenKeeps DEF DeleteChunks, RowsAndBlob, Queue

\* Embedding goes on with the same chunks to replace.
LEMMA ForwardKeeps ==
    ASSUME Inv, Undisturbed, NEW r \in Tries, RunStep(r),
           run[r].pc \in {"embed", "extract", "finish"},
           NEW pc \in {"embed", "extract", "finish"},
           Go(r, [run[r] EXCEPT !.pc = pc]),
           UNCHANGED <<RowsAndBlob, Requests, Queue, faults>>
    PROVE  Undisturbed' /\ Keeps
<1>1. run[r] \in Run
  BY DEF Inv, TypeOK
<1>2. [run[r] EXCEPT !.pc = pc].doomed = run[r].doomed
  BY <1>1 DEF Run, Off
<1>3. PICK next \in Run : /\ next.pc = pc /\ next.doomed = run[r].doomed
                          /\ Go(r, next)
  BY <1>1, <1>2, HasDoomed
<1>4. Knows(next)
  BY <1>3 DEF Knows, Undisturbed
<1>5. QED
  BY <1>3, <1>4, UnseenKeeps DEF RowsAndBlob, Queue

LEMMA EmbedKeeps ==
    ASSUME Inv, Undisturbed, NEW r \in Tries, Embed(r)
    PROVE  Undisturbed' /\ Keeps
<1>1. RunStep(r) /\ run[r] # Off /\ run[r].pc = "embed"
  BY EmbedStep, OnTheWay DEF Embed, At
<1>2. CASE Fail(r)
  BY <1>1, <1>2, FailKeeps
<1>3. CASE /\ \E pc \in {"extract", "finish"} : Go(r, [run[r] EXCEPT !.pc = pc])
           /\ UNCHANGED <<RowsAndBlob, Requests, Queue, faults>>
  BY <1>1, <1>3, ForwardKeeps
<1>4. QED
  BY <1>2, <1>3 DEF Embed

\* Nobody else's chunks are left once a run has replaced them.
LEMMA ReplacesAll ==
    ASSUME Undisturbed, NEW r \in Tries, run[r].pc \in {"extract", "finish"}
    PROVE  Replaced(r) = {r}
  BY DEF Undisturbed, Knows, Replaced

LEMMA ExtractKeeps ==
    ASSUME Inv, Undisturbed, NEW r \in Tries, Extract(r)
    PROVE  Undisturbed' /\ Keeps
<1>1. RunStep(r) /\ run[r] # Off /\ run[r].pc = "extract"
  BY ExtractStep, OnTheWay DEF Extract, At
<1>2. CASE /\ Go(r, [run[r] EXCEPT !.pc = "finish"])
           /\ UNCHANGED <<RowsAndBlob, Requests, Queue, faults>>
  BY <1>1, <1>2, ForwardKeeps
<1>3. CASE /\ InsertAllowed
           /\ chunks' = Replaced(r)
           /\ Go(r, [pc |-> "commit"])
           /\ UNCHANGED <<doc, blob, Requests, Queue, faults>>
  <2>1. doc = "processing" /\ doc' = doc
    BY <1>1, <1>3 DEF InsertAllowed, Present, Status, Undisturbed, Knows
  <2>2. chunks' = {r} /\ Cardinality(chunks') = 1
    BY <1>1, <1>3, ReplacesAll, Copies
  <2>3. Keeps
    BY <2>1, <2>2 DEF Keeps, Lifecycle!Next, Lifecycle!Index
  <2>4. PICK next \in Run : next.pc = "commit" /\ Go(r, next)
    BY <1>3, PlainRun
  <2>5. Knows(next)' /\ OneSet' /\ ~pending'
    BY <1>1, <1>3, <2>1, <2>2, <2>4, NothingPending DEF Knows, OneSet, Queue
  <2>6. QED
    BY <1>1, <2>3, <2>4, <2>5, AloneStep
<1>4. CASE Fail(r)
  BY <1>1, <1>4, FailKeeps
<1>5. QED
  BY <1>2, <1>3, <1>4 DEF Extract

\* The document is announced with one copy in the index.
LEMMA PublishKeeps ==
    ASSUME Inv, Undisturbed, NEW r \in Tries, RunStep(r), Return(r),
           doc = "processing", doc' = "ready",
           NEW q \in Tries, chunks' = {q}
    PROVE  Undisturbed' /\ Keeps
<1>1. Cardinality(chunks') = 1
  BY Copies
<1>2. Keeps
  BY <1>1 DEF Keeps, Lifecycle!Next, Lifecycle!Publish
<1>3. PICK next \in Run : next.pc = "done" /\ Go(r, next)
  BY PlainRun DEF Return
<1>4. Knows(next)' /\ OneSet' /\ ~pending'
  BY <1>3, NothingPending DEF Knows, OneSet, Return, Queue, RunStep
<1>5. QED
  BY <1>2, <1>3, <1>4, AloneStep

LEMMA FinishKeeps ==
    ASSUME Inv, Undisturbed, NEW r \in Tries, Finish(r)
    PROVE  Undisturbed' /\ Keeps
<1>1. RunStep(r) /\ run[r] # Off /\ run[r].pc = "finish"
  BY FinishStep, OnTheWay DEF Finish, At
<1>2. CASE Fail(r)
  BY <1>1, <1>2, FailKeeps
<1>3. CASE /\ InsertAllowed
           /\ doc' = "ready"
           /\ chunks' = Replaced(r)
           /\ Return(r)
           /\ UNCHANGED <<blob, Requests, faults>>
  <2>1. doc = "processing"
    BY <1>1, <1>3 DEF InsertAllowed, Present, Status, Undisturbed, Knows
  <2>2. chunks' = {r}
    BY <1>1, <1>3, ReplacesAll
  <2>3. QED
    BY <1>1, <1>3, <2>1, <2>2, PublishKeeps
<1>4. QED
  BY <1>2, <1>3 DEF Finish

LEMMA FinishCommittedKeeps ==
    ASSUME Inv, Undisturbed, NEW r \in Tries, FinishCommitted(r)
    PROVE  Undisturbed' /\ Keeps
<1>1. RunStep(r) /\ run[r] # Off /\ run[r].pc = "commit"
  BY FinishCommittedStep, OnTheWay DEF FinishCommitted, At
<1>2. CASE Fail(r)
  BY <1>1, <1>2, FailKeeps
<1>3. CASE /\ Present
           /\ doc' = "ready"
           /\ Return(r)
           /\ UNCHANGED <<chunks, blob, Requests, faults>>
  <2>1. doc = "processing"
    BY <1>1, <1>3 DEF Present, Status, Undisturbed, Knows
  <2>2. chunks # {} /\ chunks \subseteq Tries
    BY <1>1, <1>3 DEF Inv, TypeOK, CommittedHasChunks, At
  <2>3. PICK q \in Tries : chunks' = {q}
    BY <1>3, <2>2 DEF Undisturbed, OneSet
  <2>4. QED
    BY <1>1, <1>3, <2>1, <2>3, PublishKeeps
<1>4. QED
  BY <1>2, <1>3 DEF FinishCommitted

LEMMA OffKeeps ==
    ASSUME Inv, Undisturbed, NEW r \in Tries,
           Acknowledge(r) \/ Kill(r) \/ TimeOut(r)
    PROVE  Undisturbed' /\ Keeps
<1>1. Go(r, Off) /\ UNCHANGED <<doc, chunks>>
  BY DEF Acknowledge, Kill, TimeOut, RowsAndBlob
<1>2. QED
  BY <1>1, OffStep, EndStep, KeepsUnchanged

\* The runs go on as they were, and nothing can be seen.
LEMMA AsideKeeps ==
    ASSUME Undisturbed, UNCHANGED <<doc, chunks, run>>, OneAtATime',
           delete' \in {"loaded", "blob gone"} => Present
    PROVE  Undisturbed' /\ Keeps
<1>1. (\A r \in Tries : Knows(run[r]))'
  BY DEF Undisturbed, Knows
<1>2. OneSet' /\ (delete \in {"loaded", "blob gone"} => Present)'
  BY DEF Undisturbed, OneSet, Present
<1>3. QED
  BY <1>1, <1>2, KeepsUnchanged DEF Undisturbed

LEMMA RequestKeeps ==
    ASSUME Inv, Undisturbed, Upload \/ UploadCrash \/ Delete \/ DeleteCrash
    PROVE  Undisturbed' /\ Keeps
<1> USE DEF RowsAndBlob, Requests, Queue
<1>1. CASE UploadSave \/ UploadCrash \/ UploadEnqueue
  <2>1. UNCHANGED <<doc, chunks, run, delete>>
    BY <1>1 DEF UploadSave, UploadCrash, UploadEnqueue
  <2>2. OneAtATime'
    <3>1. CASE UploadSave
      BY <3>1 DEF UploadSave, Undisturbed, OneAtATime
    <3>2. CASE UploadCrash
      BY <3>2 DEF UploadCrash, Undisturbed, OneAtATime
    <3>3. CASE UploadEnqueue
      BY <3>3 DEF UploadEnqueue, Undisturbed, OneAtATime
    <3>4. QED
      BY <1>1, <3>1, <3>2, <3>3
  <2>3. QED
    BY <2>1, <2>2, AsideKeeps DEF Undisturbed
<1>2. CASE UploadCommit
  <2>1. doc = "none" /\ ~pending /\ \A r \in Tries : run[r] = Off
    BY <1>2 DEF UploadCommit, Inv, UploadFirst
  <2>2. Keeps
    BY <1>2, <2>1
       DEF UploadCommit, Keeps, Lifecycle!Next, Lifecycle!Accept
  <2>3. (\A r \in Tries : Knows(run[r]))'
    BY <1>2, <2>1, OffRun DEF UploadCommit, Knows
  <2>4. Undisturbed'
    BY <1>2, <2>1, <2>3
       DEF UploadCommit, Undisturbed, OneAtATime, OneSet, Present, Status
  <2>5. QED
    BY <2>2, <2>4
<1>3. CASE DeleteLoad \/ DeleteBlob \/ DeleteCrash
  <2>1. UNCHANGED <<doc, chunks, run, pending, upload>>
    BY <1>3 DEF DeleteLoad, DeleteBlob, DeleteCrash
  <2>2. OneAtATime'
    BY <2>1 DEF Undisturbed, OneAtATime
  <2>3. delete' \in {"loaded", "blob gone"} => Present
    BY <1>3 DEF DeleteLoad, DeleteBlob, DeleteCrash, Undisturbed
  <2>4. QED
    BY <2>1, <2>2, <2>3, AsideKeeps
<1>4. CASE DeleteCommit
  <2>1. Present
    BY <1>4 DEF DeleteCommit, Undisturbed
  <2>2. Keeps
    BY <1>4, <2>1, Copies
       DEF DeleteCommit, Keeps, Lifecycle!Next, Lifecycle!Remove,
           Lifecycle!Listed, Present, Status
  <2>3. (\A r \in Tries : Knows(run[r]))'
    BY <1>4 DEF DeleteCommit, Knows
  <2>4. Undisturbed'
    BY <1>4, <2>3 DEF DeleteCommit, Undisturbed, OneAtATime, OneSet
  <2>5. QED
    BY <2>2, <2>4
<1>5. QED
  BY <1>1, <1>2, <1>3, <1>4 DEF Upload, Delete

LEMMA DeliverKeeps ==
    ASSUME Inv, Undisturbed, Deliver
    PROVE  Undisturbed' /\ Keeps
<1>1. tries + 1 \in Tries
  <2>1. tries \in 0 .. MaxTries /\ tries < MaxTries
    BY DEF Deliver, MayDeliver, Inv, TypeOK
  <2>2. QED
    BY <2>1, TriesNat DEF Tries
<1>2. PICK next \in Run : next.pc = "resolve" /\ Go(tries + 1, next)
  BY PlainRun DEF Deliver
<1>3. \A q \in Tries : run[q] = Off
  BY DEF Deliver, MayDeliver, Undisturbed, OneAtATime
<1>4. \A q \in Tries : run'[q] = IF q = tries + 1 THEN next ELSE Off
  BY <1>1, <1>2, <1>3 DEF Go, Inv, TypeOK
<1>5. OneAtATime'
  BY <1>4 DEF Deliver, MayDeliver, Undisturbed, OneAtATime, Requests
<1>6. (\A q \in Tries : Knows(run[q]))'
  BY <1>2, <1>4, OffRun DEF Knows
<1>7. QED
  BY <1>5, <1>6, KeepsUnchanged
     DEF Deliver, Undisturbed, OneSet, Present, RowsAndBlob, Requests

\* What may go wrong is the same all along.
LEMMA SameFaults == Inv /\ [Next]_vars => faults' = faults
<1> SUFFICES ASSUME Inv, [Next]_vars
             PROVE  faults' = faults
  OBVIOUS
<1>1. CASE Upload \/ UploadCrash \/ Delete \/ DeleteCrash
  BY <1>1 DEF Upload, UploadSave, UploadCommit, UploadEnqueue, UploadCrash,
              Delete, DeleteLoad, DeleteBlob, DeleteCommit, DeleteCrash
<1>2. CASE Deliver \/ Redeliver
  BY <1>2 DEF Deliver, Redeliver
<1>3. ASSUME NEW r \in Tries, Step(r) \/ Kill(r) \/ TimeOut(r)
      PROVE  faults' = faults
  <2>1. RunStep(r)
    BY <1>3, ResolveStep, MarkFailedStep, StartProcessingStep, LoadBlobStep,
       DeleteChunksStep, EmbedStep, ExtractStep, FinishStep,
       FinishCommittedStep, OffStep DEF Step
  <2>2. QED
    BY <2>1 DEF RunStep
<1>4. QED
  BY <1>1, <1>2, <1>3 DEF Next, vars

\* One step of the system is one of the abstract document, or none.
LEMMA NextKeeps ==
    ASSUME Inv, Undisturbed, "duplicate" \notin faults, [Next]_vars
    PROVE  Undisturbed' /\ Keeps
<1>1. CASE Upload \/ UploadCrash \/ Delete \/ DeleteCrash
  BY <1>1, RequestKeeps
<1>2. CASE Deliver
  BY <1>2, DeliverKeeps
<1>3. CASE Redeliver
  BY <1>3 DEF Redeliver
<1>4. ASSUME NEW r \in Tries, Step(r) \/ Kill(r) \/ TimeOut(r)
      PROVE  Undisturbed' /\ Keeps
  BY <1>4, ResolveKeeps, MarkFailedKeeps, StartProcessingKeeps, LoadBlobKeeps,
     DeleteChunksKeeps, EmbedKeeps, ExtractKeeps, FinishKeeps,
     FinishCommittedKeeps, OffKeeps DEF Step
<1>5. CASE UNCHANGED vars
  BY <1>5, AsideKeeps DEF vars, Undisturbed, OneAtATime
<1>6. QED
  BY <1>1, <1>2, <1>3, <1>4, <1>5 DEF Next

Alone == "duplicate" \notin faults => Undisturbed

\* Where the queue does not deliver again while a run is under way, runs do not
\* disturb one another.
LEMMA AloneAlways == Spec => [](Inv /\ Alone)
<1>1. Init => Alone
  BY OffRun DEF Init, Alone, Undisturbed, OneAtATime, OneSet, Knows
<1>2. Inv /\ Alone /\ [Next]_vars => Alone'
  BY NextKeeps, SameFaults DEF Alone
<1>3. QED
  BY <1>1, <1>2, InitInv, NextInv, PTL DEF Spec

\* Unless the queue delivers again while a run is under way, the document
\* behaves as its users are promised, whatever crashes, dies or times out and
\* whether or not the stored keys can be read (run_ingest_job, ingest_document).
THEOREM LifecycleKept == Spec => KeepsLifecycle
<1>1. Init => Lifecycle!Init
  BY Copies DEF Init, Lifecycle!Init
<1>2. Inv /\ Alone /\ [Next]_vars
         => ["duplicate" \notin faults => Lifecycle!Next]_<<doc, Cardinality(chunks)>>
  BY NextKeeps DEF Alone, Keeps
<1>3. QED
  BY <1>1, <1>2, AloneAlways, PTL DEF Spec, KeepsLifecycle

\* Unless deliveries overlap, ingesting again replaces the chunks: there is one
\* set at most (ingest_document's docstring).
THEOREM ChunksReplaced == Spec => []("duplicate" \notin faults => OneChunkSet)
<1>1. Undisturbed => OneChunkSet
  <2> SUFFICES ASSUME Undisturbed PROVE OneChunkSet
    OBVIOUS
  <2>1. CASE chunks = {}
    BY <2>1, FS_EmptySet DEF OneChunkSet
  <2>2. CASE chunks # {}
    <3>1. PICK c \in chunks : TRUE
      BY <2>2
    <3>2. chunks = {c}
      BY <3>1 DEF Undisturbed, OneSet
    <3>3. Cardinality({c}) = 1
      BY FS_Singleton
    <3>4. QED
      BY <3>2, <3>3 DEF OneChunkSet
  <2>3. QED
    BY <2>1, <2>2
<1>2. Alone => ("duplicate" \notin faults => OneChunkSet)
  BY <1>1 DEF Alone
<1>3. QED
  BY <1>2, AloneAlways, PTL

\* Whatever fails, row, chunks and blob of a document fit together
\* (ingest_document, delete_document).
THEOREM IndexHolds == Spec => []IndexOK
<1>1. Inv => IndexOK
  BY DEF Inv, IndexOK
<1>2. QED
  BY <1>1, IngestionInvariant, PTL
=============================================================================
