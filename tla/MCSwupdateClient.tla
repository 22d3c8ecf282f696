--------------------------- MODULE MCSwupdateClient ---------------------------
(***************************************************************************)
(* Two uploads, so that one may overtake the other, images of one chunk,   *)
(* two unread progress messages and one crash of the daemon.               *)
(***************************************************************************)
EXTENDS SwupdateClient

CONSTANTS first, second
===============================================================================
