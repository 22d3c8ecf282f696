---------------------------- MODULE MCRecordWriter ----------------------------
(***************************************************************************)
(* A video loop, a detection thread and the thread that answers control    *)
(* requests, a queue of two records and four seals: the two droppable      *)
(* producers compete for the last place, and the third overruns the limit. *)
(***************************************************************************)
EXTENDS RecordWriter

CONSTANTS video, meta, reply
===============================================================================
