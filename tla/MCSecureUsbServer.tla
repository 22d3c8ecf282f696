-------------------------- MODULE MCSecureUsbServer --------------------------
(***************************************************************************)
(* One camera, a queue of one record, two ClientHellos and, besides them,  *)
(* one item from the host: enough for a session to be superseded while its *)
(* writer is blocked, a request or an upload is under way, or a record is  *)
(* cut short, or for the service to be stopped in the middle of it.        *)
(***************************************************************************)
EXTENDS SecureUsbServer

CONSTANT cam0
===============================================================================
