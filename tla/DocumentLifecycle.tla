--------------------------- MODULE DocumentLifecycle ---------------------------
(***************************************************************************)
(* What a user of the library is promised of one document                  *)
(* (domains/documents): its status, and how many copies of its content the *)
(* search index holds.  Uploading, retrying, dying and redelivering are    *)
(* not visible here.                                                       *)
(***************************************************************************)
EXTENDS Naturals

VARIABLES status,   \* documents.status, "none" before and "deleted" after
          copies    \* complete sets of the document's chunks in the index

vars == <<status, copies>>

Listed == status \in {"uploaded", "processing", "ready", "failed"}

Init == status = "none" /\ copies = 0

Accept ==
    /\ status = "none"
    /\ status' = "uploaded"
    /\ UNCHANGED copies

\* Ingesting again is legal whatever came of the last time.
Process ==
    /\ Listed
    /\ status' = "processing"
    /\ UNCHANGED copies

\* The content is in the index before the document is announced.
Index ==
    /\ status = "processing"
    /\ copies' = 1
    /\ UNCHANGED status

Publish ==
    /\ status = "processing"
    /\ status' = "ready"
    /\ copies' = 1

\* What an earlier try put into the index stays.
Fail ==
    /\ Listed
    /\ status' = "failed"
    /\ UNCHANGED copies

\* Nothing of a deleted document can be found.
Remove ==
    /\ Listed
    /\ status' = "deleted"
    /\ copies' = 0

Next == Accept \/ Process \/ Index \/ Publish \/ Fail \/ Remove

Spec == Init /\ [][Next]_vars
=============================================================================
