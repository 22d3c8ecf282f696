---------------------------- MODULE SecureChannel ----------------------------
(***************************************************************************)
(* What the device-to-host half of a secure USB session promises           *)
(* (SecureUsbServer.cpp, class RecordWriter): records reach the host in    *)
(* the order in which they were sealed, each once, with none missing in    *)
(* between.  The nonce of a record is an implicit counter on both ends,    *)
(* so a record out of place makes every later one unreadable.              *)
(*                                                                         *)
(* The records not yet delivered may be lost together, when the session    *)
(* ends; no other loss is allowed.                                         *)
(***************************************************************************)
EXTENDS Naturals, Sequences

CONSTANT Record      \* the sealed records a session can carry

VARIABLES
  sealed,            \* the records sealed so far, in the order of their seals
  delivered          \* the records the endpoint has handed to the host

chanVars == <<sealed, delivered>>

Init ==
  /\ sealed = <<>>
  /\ delivered = <<>>

\* A producer seals one more record.
Seal ==
  /\ sealed' \in Seq(Record)
  /\ Len(sealed') = Len(sealed) + 1
  /\ \A i \in 1 .. Len(sealed) : sealed'[i] = sealed[i]
  /\ UNCHANGED delivered

\* The host receives the oldest record it has not yet received.
Deliver ==
  /\ Len(delivered) < Len(sealed)
  /\ delivered' = Append(delivered, sealed[Len(delivered) + 1])
  /\ UNCHANGED sealed

Next == Seal \/ Deliver

Spec == Init /\ [][Next]_chanVars
==============================================================================
