----------------------------- MODULE MCLocalTunnel -----------------------------
(***************************************************************************)
(* Two uploads over two connections, each a header and a chunk that the    *)
(* socket takes in two parts, and one descriptor that is opened elsewhere: *)
(* an upload may fail or be cancelled between the parts, the chunk may be  *)
(* sent again to a second handler, and the numbers of closed descriptors   *)
(* are given out again.                                                    *)
(***************************************************************************)
EXTENDS LocalTunnel
===============================================================================
