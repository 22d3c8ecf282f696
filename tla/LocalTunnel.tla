------------------------------ MODULE LocalTunnel ------------------------------
(***************************************************************************)
(* The way of an update from the viewer to the device's update server:     *)
(* UpdateClient of host-ui/updateclient.cpp, the proxy of                  *)
(* host-ui/secureusbbridge.cpp, class LocalTunnel of                       *)
(* secure/SecureUsbServer.cpp and handle_connection() of                   *)
(* update/UpdateServer.cpp, during one secure session.                     *)
(*                                                                         *)
(* What the viewer sends crosses the session as a stream of records: the   *)
(* header of an upload, then its chunks.  On the device the worker thread  *)
(* (deliver) writes them into a socket pair, whose other end a handler     *)
(* thread reads; the pump thread carries the handler's replies back.       *)
(* deliver() and pump() share the descriptor update_ under a mutex, but    *)
(* pump() polls and reads a number it has copied before.  Descriptors are  *)
(* therefore numbers in a table, and the lowest free one is given out.     *)
(*                                                                         *)
(* With a control dispatcher control_ is never opened; only update_ is     *)
(* modelled.  Nothing on the way tells the device that the viewer has      *)
(* closed its connection.                                                  *)
(***************************************************************************)
EXTENDS Naturals, Sequences, FiniteSets

CONSTANTS
  MaxUploads,   \* bound on the uploads of the session
  Chunks,       \* how many chunks an image has
  MaxConns,     \* bound on the connections to the update server
  MaxFds,       \* size of the descriptor table
  MaxOthers     \* bound on descriptors opened elsewhere in the process

ASSUME ConstantsAssumption ==
  /\ MaxUploads \in Nat
  /\ Chunks \in Nat \ {0}
  /\ MaxConns \in Nat
  /\ MaxFds \in Nat
  /\ MaxOthers \in Nat

VARIABLES
  upload,     \* the upload UpdateClient works on, or did last
  client,     \* where it is: "idle", "header" (no ACK yet) or "stream"
  sent,       \* every record the viewer has sent, in order
  replies,    \* the replies on their way to it
  arrived,    \* how many records deliver() has been called with
  worker,     \* where deliver() is; "ended" after shutdown()
  attempt,    \* which of its two attempts
  written,    \* how many parts of the record this attempt has written
  update,     \* update_
  table,      \* the process's descriptors
  conns,      \* how many connections were opened
  toHandler,  \* data in each connection: a record and which part of it
  toTunnel,   \* replies in each connection
  handler,    \* where the handler of each connection is
  junk,       \* it has read part of a chunk where the header should be
  need,       \* how many parts of the announced size are missing
  taken,      \* history: what was read by which handler
  pump,       \* where pump() is
  snapshot,   \* its copy of update_
  file,       \* the file its read() is blocked in
  others,     \* how many descriptors were opened elsewhere
  orderly     \* history: nothing has come between the uploads so far

hostVars == <<upload, client, sent, replies>>
workVars == <<arrived, worker, attempt, written>>
handVars == <<handler, junk, need, taken>>
pumpVars == <<pump, snapshot, file>>
vars == <<upload, client, sent, replies, arrived, worker, attempt, written,
          update, table, conns, toHandler, toTunnel, handler, junk, need,
          taken, pump, snapshot, file, others, orderly>>

Conns == 1 .. MaxConns
Fds == 1 .. MaxFds
NoFd == 0
Free == <<0, "free">>
Other == <<0, "other">>
TunnelEnd(c) == <<c, "tunnel">>
HandlerEnd(c) == <<c, "handler">>
Files == {Free, Other} \cup (Conns \X {"tunnel", "handler"})

\* Chunk 0 of an upload is its header.  A socket takes it whole, and another
\* chunk in two parts, of which it may have taken one when the peer closes.
Item == [upload : 1 .. MaxUploads, chunk : 0 .. Chunks]
IsHeader(n) == sent[n].chunk = 0
Parts(n) == IF IsHeader(n) THEN 1 ELSE 2
Data == [record : 1 .. Len(sent), part : 1 .. 2]
Size == 2 * Chunks

(* What the descriptors, the pump's copy of them and the viewer's upload may be. *)
TypeOK ==
  /\ upload \in 0 .. MaxUploads
  /\ client \in {"idle", "header", "stream"}
  /\ sent \in Seq(Item)
  /\ replies \in Seq({"ok", "error", "stray"})
  /\ arrived \in 0 .. Len(sent)
  /\ worker \in {"idle", "open", "write", "ended"}
  /\ attempt \in 1 .. 3
  /\ written \in 0 .. 2
  /\ update \in Fds \cup {NoFd}
  /\ table \in [Fds -> Files]
  /\ conns \in 0 .. MaxConns
  /\ toHandler \in [Conns -> Seq(Data)]
  /\ toTunnel \in [Conns -> Seq({"ok", "error"})]
  /\ handler \in [Conns -> {"none", "header", "begin", "stream", "closing",
                            "closed"}]
  /\ junk \in [Conns -> BOOLEAN]
  /\ need \in [Conns -> 0 .. Size]
  /\ taken \in Seq([data : Data, conn : Conns])
  /\ pump \in {"snapshot", "poll", "read", "blocked", "close", "ended"}
  /\ snapshot \in Fds \cup {NoFd}
  /\ file \in Files
  /\ others \in 0 .. MaxOthers
  /\ orderly \in BOOLEAN

Init ==
  /\ upload = 0 /\ client = "idle" /\ sent = <<>> /\ replies = <<>>
  /\ arrived = 0 /\ worker = "idle" /\ attempt = 1 /\ written = 0
  /\ update = NoFd
  /\ table = [f \in Fds |-> Free] /\ conns = 0
  /\ toHandler = [c \in Conns |-> <<>>] /\ toTunnel = [c \in Conns |-> <<>>]
  /\ handler = [c \in Conns |-> "none"] /\ junk = [c \in Conns |-> FALSE]
  /\ need = [c \in Conns |-> 0] /\ taken = <<>>
  /\ pump = "snapshot" /\ snapshot = NoFd /\ file = Free /\ others = 0
  /\ orderly = TRUE

IsOpen(f) == \E n \in Fds : table[n] = f

\* Everything of earlier uploads is over, on the device and on the way.
Quiet ==
  /\ arrived = Len(sent)
  /\ worker = "idle"
  /\ update = NoFd
  /\ pump \in {"snapshot", "poll"}
  /\ replies = <<>>

-------------------------------------------------------------------------------
(***************************************************************************)
(* The viewer: UpdateClient behind the bridge's proxy.                     *)
(***************************************************************************)

\* uploadFile() and onConnected(): the header goes out.
StartUpload ==
  /\ worker # "ended"
  /\ client = "idle"
  /\ upload < MaxUploads
  /\ upload' = upload + 1
  /\ client' = "header"
  /\ sent' = Append(sent, [upload |-> upload + 1, chunk |-> 0])
  /\ orderly' = (orderly /\ Quiet)
  /\ UNCHANGED <<replies, workVars, update, table, conns, toHandler, toTunnel,
                 handVars, pumpVars, others>>

ChunksSent ==
  Cardinality({n \in 1 .. Len(sent) :
                 sent[n].upload = upload /\ ~IsHeader(n)})

\* writeNextChunk()
SendChunk ==
  /\ worker # "ended"
  /\ client = "stream"
  /\ ChunksSent < Chunks
  /\ sent' = Append(sent, [upload |-> upload, chunk |-> ChunksSent + 1])
  /\ UNCHANGED <<upload, client, replies, workVars, update, table, conns,
                 toHandler, toTunnel, handVars, pumpVars, others, orderly>>

\* onReadyRead(): the first reply is the ACK, the second the result.  The
\* proxy gives a reply to whichever client it has; to none, it is lost.
TakeReply ==
  /\ replies # <<>>
  /\ replies' = Tail(replies)
  /\ client' = IF client = "header" /\ Head(replies) = "ok" THEN "stream"
               ELSE "idle"
  /\ UNCHANGED <<upload, sent, workVars, update, table, conns, toHandler,
                 toTunnel, handVars, pumpVars, others, orderly>>

\* cancel(), or the viewer's file ends early.
Cancel ==
  /\ client # "idle"
  /\ client' = "idle"
  /\ orderly' = FALSE
  /\ UNCHANGED <<upload, sent, replies, workVars, update, table, conns,
                 toHandler, toTunnel, handVars, pumpVars, others>>

-------------------------------------------------------------------------------
(***************************************************************************)
(* LocalTunnel::deliver(), which holds the mutex until it returns.         *)
(***************************************************************************)

MutexFree == worker \in {"idle", "ended"}

DeliverBegins ==
  /\ worker = "idle"
  /\ arrived < Len(sent)
  /\ arrived' = arrived + 1
  /\ attempt' = 1
  /\ written' = 0
  /\ worker' = IF update = NoFd THEN "open" ELSE "write"
  /\ UNCHANGED <<hostVars, update, table, conns, toHandler, toTunnel, handVars,
                 pumpVars, others, orderly>>

LowestFree == CHOOSE n \in Fds : /\ table[n] = Free
                                 /\ \A m \in Fds : table[m] = Free => n <= m
Lowest2Free ==
  CHOOSE n \in Fds : /\ table[n] = Free /\ n # LowestFree
                     /\ \A m \in Fds \ {LowestFree} : table[m] = Free => n <= m
FreeFds == Cardinality({n \in Fds : table[n] = Free})

\* open_update_(): a socket pair, its first end with a new handler thread.
DeliverOpens ==
  /\ worker = "open"
  /\ conns < MaxConns
  /\ FreeFds >= 2
  /\ conns' = conns + 1
  /\ table' = [table EXCEPT ![LowestFree] = HandlerEnd(conns + 1),
                            ![Lowest2Free] = TunnelEnd(conns + 1)]
  /\ update' = Lowest2Free
  /\ handler' = [handler EXCEPT ![conns + 1] = "header"]
  /\ worker' = "write"
  /\ UNCHANGED <<hostVars, arrived, attempt, written, toHandler, toTunnel, junk,
                 need, taken, pumpVars, others, orderly>>

\* It fails, and the record is dropped.
DeliverGivesUp ==
  /\ worker = "open"
  /\ worker' = "idle"
  /\ orderly' = FALSE
  /\ UNCHANGED <<hostVars, arrived, attempt, written, update, table, conns,
                 toHandler, toTunnel, handVars, pumpVars, others>>

Peer == table[update][1]

WritePart ==
  /\ worker = "write"
  /\ IsOpen(HandlerEnd(Peer))
  /\ toHandler' = [toHandler EXCEPT ![Peer] =
                     Append(@, [record |-> arrived, part |-> written + 1])]
LastPart == written + 1 = Parts(arrived)

\* endpoint_write_all(): the socket takes a part while its peer is open.
DeliverWrites ==
  /\ WritePart
  /\ written' = written + 1
  /\ worker' = IF LastPart THEN "idle" ELSE "write"
  /\ UNCHANGED <<hostVars, arrived, attempt, update, table, conns, toTunnel,
                 handVars, pumpVars, others, orderly>>

\* EPIPE: close, and once more, from the beginning, with a fresh connection.
DeliverFails ==
  /\ worker = "write"
  /\ ~IsOpen(HandlerEnd(Peer))
  /\ table' = [table EXCEPT ![update] = Free]
  /\ update' = NoFd
  /\ attempt' = attempt + 1
  /\ written' = 0
  /\ worker' = IF attempt = 2 THEN "idle" ELSE "open"
  /\ UNCHANGED <<hostVars, arrived, conns, toHandler, toTunnel, handVars,
                 pumpVars, others, orderly>>

-------------------------------------------------------------------------------
(***************************************************************************)
(* LocalTunnel::pump(), which takes the mutex for its copy of update_ and  *)
(* for close_channel(), and for nothing in between.                        *)
(***************************************************************************)

TakeSnapshot ==
  /\ pump = "snapshot"
  /\ MutexFree
  /\ snapshot' = update
  /\ pump' = IF worker = "ended" THEN "ended" ELSE "poll"
  /\ UNCHANGED <<hostVars, workVars, update, table, conns, toHandler, toTunnel,
                 handVars, file, others, orderly>>

\* What poll() reports and read() returns at once on: data, or the peer has
\* closed.  A file opened elsewhere may do anything.
Readable(f) ==
  \/ f = Other
  \/ \E c \in 1 .. conns :
       \/ f = TunnelEnd(c) /\ (toTunnel[c] # <<>> \/ ~IsOpen(HandlerEnd(c))
                               \/ ~IsOpen(TunnelEnd(c)))
       \/ f = HandlerEnd(c) /\ (toHandler[c] # <<>> \/ ~IsOpen(TunnelEnd(c)))

Poll ==
  /\ pump = "poll"
  /\ pump' = IF snapshot # NoFd /\ Readable(table[snapshot]) THEN "read"
             ELSE "snapshot"
  /\ UNCHANGED <<hostVars, workVars, update, table, conns, toHandler, toTunnel,
                 handVars, snapshot, file, others, orderly>>

\* read() looks the number up again: it may be closed by now, or another file.
ReadBegins ==
  /\ pump = "read"
  /\ file' = table[snapshot]
  /\ pump' = IF table[snapshot] = Free THEN "close" ELSE "blocked"
  /\ UNCHANGED <<hostVars, workVars, update, table, conns, toHandler, toTunnel,
                 handVars, snapshot, others, orderly>>

\* It returns a reply of the handler; end of file; or, from the other end of
\* a connection, data that was meant for the handler.
ReadReturns ==
  /\ pump = "blocked"
  /\ Readable(file)
  /\ file' = Free
  /\ LET c == file[1]
         dry == \/ file = Other
                \/ file[2] = "tunnel" /\ toTunnel[c] = <<>>
                \/ file[2] = "handler" /\ toHandler[c] = <<>>
     IN  /\ pump' = IF dry THEN "close" ELSE "snapshot"
         /\ \/ dry /\ UNCHANGED <<replies, toHandler, toTunnel>>
            \/ /\ ~dry /\ file[2] = "tunnel"
               /\ replies' = Append(replies, Head(toTunnel[c]))
               /\ toTunnel' = [toTunnel EXCEPT ![c] = Tail(@)]
               /\ UNCHANGED toHandler
            \/ /\ ~dry /\ file[2] = "handler"
               /\ replies' = Append(replies, "stray")
               /\ toHandler' = [toHandler EXCEPT ![c] = Tail(@)]
               /\ UNCHANGED toTunnel
  /\ UNCHANGED <<upload, client, sent, workVars, update, table, conns,
                 handVars, snapshot, others, orderly>>

\* Mutant: the copy is closed, and not what update_ is by now.
CloseSnapshot ==
  /\ pump = "close"
  /\ MutexFree
  /\ table' = [table EXCEPT ![snapshot] = Free]
  /\ update' = NoFd
  /\ pump' = "snapshot"
  /\ UNCHANGED <<hostVars, workVars, conns, toHandler, toTunnel, handVars,
                 snapshot, file, others, orderly>>

\* close_channel() closes whatever update_ is by now.
CloseChannel ==
  /\ pump = "close"
  /\ MutexFree
  /\ table' = [f \in Fds |-> IF f = update THEN Free ELSE table[f]]
  /\ update' = NoFd
  /\ pump' = "snapshot"
  /\ UNCHANGED <<hostVars, workVars, conns, toHandler, toTunnel, handVars,
                 snapshot, file, others, orderly>>

\* Mutant: update_ is left open.
ShutdownForgets ==
  /\ worker = "idle"
  /\ worker' = "ended"
  /\ UNCHANGED <<hostVars, arrived, attempt, written, update, table, conns,
                 toHandler, toTunnel, handVars, pumpVars, others, orderly>>

\* shutdown(), when the session ends: nobody is in deliver() any more.
Shutdown ==
  /\ worker = "idle"
  /\ worker' = "ended"
  /\ table' = [f \in Fds |-> IF f = update THEN Free ELSE table[f]]
  /\ update' = NoFd
  /\ UNCHANGED <<hostVars, arrived, attempt, written, conns, toHandler,
                 toTunnel, handVars, pumpVars, others, orderly>>

-------------------------------------------------------------------------------
(***************************************************************************)
(* handle_connection(), one thread for each connection.                    *)
(***************************************************************************)

Reply(c, r) == toTunnel' = [toTunnel EXCEPT ![c] = Append(@, r)]
Step(c, at) == handler' = [handler EXCEPT ![c] = at]

\* A read of its socket returns the next data.
Read(c) ==
  /\ toHandler[c] # <<>>
  /\ toHandler' = [toHandler EXCEPT ![c] = Tail(@)]
  /\ taken' = Append(taken, [data |-> Head(toHandler[c]), conn |-> c])

\* read_line() finds a header.
ReadHeader(c) ==
  /\ handler[c] = "header"
  /\ Read(c)
  /\ IsHeader(Head(toHandler[c]).record)
  /\ ~junk[c]
  /\ Step(c, "begin")
  /\ need' = [need EXCEPT ![c] = Size]
  /\ UNCHANGED <<hostVars, workVars, update, table, conns, toTunnel, junk,
                 pumpVars, others, orderly>>

\* It finds a line that is none: (part of) a chunk, or a header behind one.
ReadBadHeader(c) ==
  /\ handler[c] = "header"
  /\ Read(c)
  /\ junk[c] \/ ~IsHeader(Head(toHandler[c]).record)
  /\ Step(c, "closing")
  /\ Reply(c, "error")
  /\ UNCHANGED <<hostVars, workVars, update, table, conns, junk, need, pumpVars,
                 others, orderly>>

\* Part of a chunk without a newline: it waits for more.
ReadPartOfLine(c) ==
  /\ handler[c] = "header"
  /\ Read(c)
  /\ ~IsHeader(Head(toHandler[c]).record)
  /\ junk' = [junk EXCEPT ![c] = TRUE]
  /\ UNCHANGED <<hostVars, workVars, update, table, conns, toTunnel, handler,
                 need, pumpVars, others, orderly>>

\* Mutant: a refusal is not answered.
BeginUnanswered(c) ==
  /\ handler[c] = "begin"
  /\ \/ Step(c, "stream") /\ Reply(c, "ok")
     \/ Step(c, "closing") /\ UNCHANGED toTunnel
  /\ UNCHANGED <<hostVars, workVars, update, table, conns, toHandler, junk,
                 need, taken, pumpVars, others, orderly>>

\* begin_stream_install() accepts, or refuses.
Begin(c) ==
  /\ handler[c] = "begin"
  /\ \/ Step(c, "stream") /\ Reply(c, "ok")
     \/ Step(c, "closing") /\ Reply(c, "error")
  /\ UNCHANGED <<hostVars, workVars, update, table, conns, toHandler, junk,
                 need, taken, pumpVars, others, orderly>>

\* The data goes to swupdate, and there is more to come.
Stream(c) ==
  /\ handler[c] = "stream"
  /\ Read(c)
  /\ need[c] > 1
  /\ need' = [need EXCEPT ![c] = @ - 1]
  /\ UNCHANGED <<hostVars, workVars, update, table, conns, toTunnel, handler,
                 junk, pumpVars, others, orderly>>

\* It completes the announced size.
StreamCompletes(c) ==
  /\ handler[c] = "stream"
  /\ Read(c)
  /\ need[c] = 1
  /\ need' = [need EXCEPT ![c] = 0]
  /\ Step(c, "closing")
  /\ Reply(c, "ok")
  /\ UNCHANGED <<hostVars, workVars, update, table, conns, junk, pumpVars,
                 others, orderly>>

\* swupdate does not take it.
StreamFails(c) ==
  /\ handler[c] = "stream"
  /\ Read(c)
  /\ Step(c, "closing")
  /\ Reply(c, "error")
  /\ UNCHANGED <<hostVars, workVars, update, table, conns, junk, need, pumpVars,
                 others, orderly>>

\* The tunnel has closed its end and everything is read.
EndOfFile(c) ==
  /\ handler[c] \in {"header", "stream"}
  /\ toHandler[c] = <<>>
  /\ ~IsOpen(TunnelEnd(c))
  /\ Step(c, "closing")
  /\ UNCHANGED <<hostVars, workVars, update, table, conns, toHandler, toTunnel,
                 junk, need, taken, pumpVars, others, orderly>>

\* The handler returns and closes its end; what it has not read is lost.
HandlerReturns(c) ==
  /\ handler[c] = "closing"
  /\ Step(c, "closed")
  /\ table' = [f \in Fds |-> IF table[f] = HandlerEnd(c) THEN Free ELSE table[f]]
  /\ toHandler' = [toHandler EXCEPT ![c] = <<>>]
  /\ UNCHANGED <<hostVars, workVars, update, conns, toTunnel, junk, need, taken,
                 pumpVars, others, orderly>>

\* Some other thread of the process opens a descriptor, and closes it again.
OtherOpens ==
  /\ others < MaxOthers
  /\ FreeFds > 0
  /\ others' = others + 1
  /\ orderly' = FALSE
  /\ table' = [table EXCEPT ![LowestFree] = Other]
  /\ UNCHANGED <<hostVars, workVars, update, conns, toHandler, toTunnel,
                 handVars, pumpVars>>

OtherCloses ==
  /\ \E f \in Fds : table[f] = Other /\ table' = [table EXCEPT ![f] = Free]
  /\ UNCHANGED <<hostVars, workVars, update, conns, toHandler, toTunnel,
                 handVars, pumpVars, others, orderly>>

-------------------------------------------------------------------------------
Viewer == StartUpload \/ SendChunk \/ TakeReply \/ Cancel

Deliver ==
  \/ DeliverBegins \/ DeliverOpens \/ DeliverGivesUp
  \/ DeliverWrites \/ DeliverFails

Pump == TakeSnapshot \/ Poll \/ ReadBegins \/ ReadReturns \/ CloseChannel

Handler(c) ==
  \/ ReadHeader(c) \/ ReadBadHeader(c) \/ ReadPartOfLine(c) \/ Begin(c)
  \/ Stream(c) \/ StreamCompletes(c) \/ StreamFails(c) \/ EndOfFile(c)
  \/ HandlerReturns(c)

Next ==
  \/ Viewer \/ Deliver \/ Pump \/ Shutdown
  \/ \E c \in Conns : Handler(c)
  \/ OtherOpens \/ OtherCloses

Spec == Init /\ [][Next]_vars

(***************************************************************************)
(* Fairness.  The threads run, and a viewer that is streaming goes on and  *)
(* reads its replies.  Nothing makes a viewer start or cancel, or the      *)
(* session end.                                                            *)
(***************************************************************************)
FairSpec ==
  /\ Spec
  /\ WF_vars(SendChunk) /\ WF_vars(TakeReply)
  /\ WF_vars(Deliver) /\ WF_vars(Pump)
  /\ \A c \in Conns : WF_vars(Handler(c))

-------------------------------------------------------------------------------
(***************************************************************************)
(* Properties.                                                             *)
(***************************************************************************)

(***************************************************************************)
(* update_ always is the tunnel's own end of the newest connection, and no *)
(* other connection's tunnel end is open: neither deliver() nor            *)
(* close_channel() ever closes a descriptor that is not the tunnel's, or   *)
(* loses one, whatever the pump has seen.                                  *)
(***************************************************************************)
DescriptorIsOwn ==
  \A f \in Fds, c \in Conns :
    (f = update \/ table[f] = TunnelEnd(c)) =>
      f = update /\ table[f] = TunnelEnd(conns)

(***************************************************************************)
(* A handler reads its data in the order of the records, nothing twice;    *)
(* and deliver()'s second attempt never sends to a new handler what an     *)
(* older one has read to the end.                                          *)
(***************************************************************************)
Before(d, e) ==
  d.record < e.record \/ (d.record = e.record /\ d.part < e.part)

TakenOnce ==
  \A i, j \in 1 .. Len(taken) :
    LET d == taken[i].data
        e == taken[j].data
    IN  /\ taken[i].conn = taken[j].conn /\ i < j => Before(d, e)
        /\ taken[i].conn < taken[j].conn /\ d.record = e.record
             => d.part < Parts(d.record)

OneUpload(c) ==
  \A i, j \in 1 .. Len(taken) :
    taken[i].conn = c /\ taken[j].conn = c
      => sent[taken[i].data.record].upload = sent[taken[j].data.record].upload

(***************************************************************************)
(* As long as no upload is cancelled and each begins when the last is over *)
(* on the device too, every upload comes to an end for the viewer,         *)
(* provided that the result of one that failed is not lost: deliver() may  *)
(* find the handler gone, and close the connection, before the pump has    *)
(* read what the handler said last.                                        *)
(***************************************************************************)
ReplyLost == \E c \in Conns : toTunnel[c] # <<>> /\ ~IsOpen(TunnelEnd(c))

UploadEnds ==
  [](orderly /\ worker # "ended" /\ ~ReplyLost) =>
    (client # "idle" ~> client = "idle")

(***************************************************************************)
(* When the session ends so do the pump and every handler, in whatever     *)
(* state the upload was; only a read of a descriptor that somebody else    *)
(* has opened meanwhile can keep the pump.                                 *)
(***************************************************************************)
SessionEndReachesAll ==
  worker = "ended" ~>
    /\ \A c \in Conns : handler[c] \in {"none", "closed"}
    /\ pump = "ended" \/ file = Other

(***************************************************************************)
(* "One connection = one upload."                                          *)
(***************************************************************************)
OneConnectionOneUpload == \A c \in Conns : OneUpload(c)
===============================================================================
