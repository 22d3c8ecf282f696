---------------------------- MODULE SecureUsbServer ----------------------------
(***************************************************************************)
(* The life of the device end of the secure USB transport: class           *)
(* SecureUsbServer of secure/SecureUsbServer.cpp, the sessions its worker  *)
(* serves, the threads each session owns, the GLib main loop that starts   *)
(* and stops it all, and the host.                                         *)
(*                                                                         *)
(* A session is named by the ClientHello that opened it.  The per-session  *)
(* state is a function of the session, so that a thread which outlived its *)
(* session would be seen.  What is sealed, queued and written in which     *)
(* order inside a session is RecordWriter's subject: here its queue is a   *)
(* counter, and its write either sits in the kernel or does not.           *)
(***************************************************************************)
EXTENDS Naturals, Sequences, SequencesExt

CONSTANTS
  Cameras,      \* the cameras, each with a video loop per session
  Pump,         \* the thread that runs LocalTunnel::pump()
  QueueLimit,   \* kQueueLimit, in records
  MaxHellos,    \* bound on the ClientHellos the host sends
  MaxItems,     \* bound on what it sends besides them
  MaxRecycles   \* bound on how often the endpoints are disabled

ASSUME ConstantsAssumption ==
  /\ Pump \notin Cameras
  /\ QueueLimit \in Nat \ {0}
  /\ MaxHellos \in Nat
  /\ MaxItems \in Nat
  /\ MaxRecycles \in Nat

Sessions == 1 .. MaxHellos
NoSession == 0
Helpers == Cameras \cup {Pump}

VARIABLES
  main,        \* the main loop: what it does about this server
  armed,       \* SIGUSR1 has its handler
  job,         \* the closure run_on_main_loop() has handed over
  worker,      \* where run() / serve_session() is
  after,       \* where it goes on once end_session() is done
  stream,      \* the WireBuffer, as whole items
  session,     \* the session it serves, or NoSession
  answering,   \* the ClientHello it is answering
  dead,        \* Session::dead
  writer,      \* the writer thread of each session
  queued,      \* how many records wait for it
  helper,      \* the other threads of each session
  silent,      \* last_inbound_ms is more than kHostSilenceMs ago
  update,      \* the tunnel's update_ descriptor is open
  host,        \* "there", or "gone" without a word
  arriving,    \* what the host has sent and the worker has not read
  items,       \* how many items other than a ClientHello it has sent
  hellos,      \* the last ClientHello it has sent
  answered,    \* the last ServerHello the host has taken
  recycles     \* how often the endpoints were disabled

mainVars == <<main, armed, job>>
workVars == <<worker, after, stream, session, answering>>
sessVars == <<dead, writer, queued, helper, silent, update>>
hostVars == <<host, arriving, items, hellos, answered, recycles>>
vars == <<main, armed, job, worker, after, stream, session, answering, dead,
          writer, queued, helper, silent, update, host, arriving, items,
          hellos, answered, recycles>>

MainStates == {"loop", "reloading", "quitting", "stopped", "killed"}
WorkerPCs == {"starting", "create", "open", "check", "read", "frame",
              "dispatch", "deliver", "respond", "reply", "failed", "signal",
              "join", "exited"}
WriterPCs == {"none", "unstarted", "check", "wait", "blocked", "exited"}

Item == [type : {"hello"}, id : Sessions]
        \cup [type : {"badhello", "request", "update", "garbage", "cut"},
               id : {NoSession}]

(* What a session's threads, the worker and the endpoints may be in. *)
TypeOK ==
  /\ main \in MainStates
  /\ armed \in BOOLEAN
  /\ job \in {"none", "queued", "done"}
  /\ worker \in WorkerPCs
  /\ after \in {"open", "check", "respond"}
  /\ stream \in Seq(Item)
  /\ session \in Sessions \cup {NoSession}
  /\ answering \in Sessions \cup {NoSession}
  /\ dead \in [Sessions -> BOOLEAN]
  /\ writer \in [Sessions -> WriterPCs]
  /\ queued \in [Sessions -> Nat]
  /\ helper \in [Sessions -> [Helpers -> {"none", "up", "done"}]]
  /\ silent \in [Sessions -> BOOLEAN]
  /\ update \in BOOLEAN
  /\ host \in {"there", "gone"}
  /\ arriving \in Seq(Item)
  /\ items \in Nat
  /\ hellos \in Sessions \cup {NoSession}
  /\ answered \in Sessions \cup {NoSession}
  /\ recycles \in Nat

Init ==
  /\ main = "loop" /\ armed = FALSE /\ job = "none"
  /\ worker = "starting" /\ after = "open"
  /\ stream = <<>> /\ session = NoSession /\ answering = NoSession
  /\ dead = [s \in Sessions |-> FALSE]
  /\ writer = [s \in Sessions |-> "none"]
  /\ queued = [s \in Sessions |-> 0]
  /\ helper = [s \in Sessions |-> [t \in Helpers |-> "none"]]
  /\ silent = [s \in Sessions |-> FALSE]
  /\ update = FALSE
  /\ host = "there" /\ arriving = <<>> /\ items = 0
  /\ hellos = NoSession /\ answered = NoSession /\ recycles = 0

stopping == main # "loop"
Running(s) == writer[s] \notin {"none", "exited"}

-------------------------------------------------------------------------------
(***************************************************************************)
(* The main loop: Application::run_on_main_loop(), reload() and run().     *)
(***************************************************************************)

\* The loop gets round to the closure of a control request.
RunJob ==
  /\ main = "loop"
  /\ job = "queued"
  /\ job' = "done"
  /\ UNCHANGED <<main, armed, workVars, sessVars, hostVars>>

\* SIGHUP or a reload request calls reload() from inside the loop, SIGTERM
\* ends the loop first; both come to SecureUsbServer::stop().
BeginStop ==
  /\ main = "loop"
  /\ main' \in {"reloading", "quitting"}
  /\ UNCHANGED <<armed, job, workVars, sessVars, hostVars>>

\* A queue of closures is only served from inside the loop, and a thread may
\* only run its closure itself when the loop has let go of its context.
LoopOwnsContext == main \in {"loop", "reloading"}

-------------------------------------------------------------------------------
(***************************************************************************)
(* The session's threads.                                                  *)
(***************************************************************************)

\* A video loop has an encoded frame for the endpoint, unless it is dropped.
CameraFrame(s, c) ==
  /\ helper[s][c] = "up"
  /\ queued[s] < QueueLimit
  /\ queued' = [queued EXCEPT ![s] = @ + 1]
  /\ UNCHANGED <<mainVars, workVars, dead, writer, helper, silent, update,
                 hostVars>>

\* enqueue() fails for a video loop or for the pump, which ends the session.
SealFails(s, t) ==
  /\ helper[s][t] = "up"
  /\ ~dead[s]
  /\ dead' = [dead EXCEPT ![s] = TRUE]
  /\ UNCHANGED <<mainVars, workVars, writer, queued, helper, silent, update,
                 hostVars>>

\* A video loop, or the pump, sees `dead`; the video loop lets its camera go.
HelperEnds(s, t) ==
  /\ helper[s][t] = "up"
  /\ dead[s]
  /\ helper' = [helper EXCEPT ![s][t] = "done"]
  /\ UNCHANGED <<mainVars, workVars, dead, writer, queued, silent, update,
                 hostVars>>

\* The update server hangs up and the pump closes update_.
UpdaterCloses ==
  /\ update
  /\ worker # "deliver"
  /\ session # NoSession
  /\ helper[session][Pump] = "up"
  /\ update' = FALSE
  /\ UNCHANGED <<mainVars, workVars, dead, writer, queued, helper, silent,
                 hostVars>>

\* kHostSilenceMs pass without a record from the host.
TimePasses(s) ==
  /\ Running(s)
  /\ ~silent[s]
  /\ silent' = [silent EXCEPT ![s] = TRUE]
  /\ UNCHANGED <<mainVars, workVars, dead, writer, queued, helper, update,
                 hostVars>>

WriterStarts(s) ==
  /\ writer[s] = "unstarted"
  /\ writer' = [writer EXCEPT ![s] = "check"]
  /\ UNCHANGED <<mainVars, workVars, dead, queued, helper, silent, update,
                 hostVars>>

\* Mutant: the watchdog ends the writer and forgets the session.
WriterChecksQuietly(s) ==
  /\ writer[s] = "check"
  /\ \/ /\ dead[s] \/ (silent[s] /\ ~update /\ worker # "deliver")
        /\ writer' = [writer EXCEPT ![s] = "exited"]
     \/ /\ ~dead[s] /\ (silent[s] => update /\ worker # "deliver")
        /\ writer' = [writer EXCEPT ![s] = "wait"]
  /\ UNCHANGED <<mainVars, workVars, dead, queued, helper, silent, update,
                 hostVars>>

\* The top of run()'s loop: dead, or the watchdog of writer_loop().  That one
\* asks for the tunnel's mutex, which deliver() holds while it writes.
WriterChecks(s) ==
  /\ writer[s] = "check"
  /\ \/ /\ dead[s]
        /\ writer' = [writer EXCEPT ![s] = "exited"]
        /\ UNCHANGED dead
     \/ /\ ~dead[s] /\ silent[s] /\ ~update /\ worker # "deliver"
        /\ writer' = [writer EXCEPT ![s] = "exited"]
        /\ dead' = [dead EXCEPT ![s] = TRUE]
     \/ /\ ~dead[s] /\ (silent[s] => update /\ worker # "deliver")
        /\ writer' = [writer EXCEPT ![s] = "wait"]
        /\ UNCHANGED dead
  /\ UNCHANGED <<mainVars, workVars, queued, helper, silent, update, hostVars>>

\* The 100 ms wait ends with a record, which is written, or without one.
WriterWaits(s) ==
  /\ writer[s] = "wait"
  /\ IF queued[s] > 0
     THEN /\ queued' = [queued EXCEPT ![s] = @ - 1]
          /\ writer' = [writer EXCEPT ![s] = "blocked"]
     ELSE /\ writer' = [writer EXCEPT ![s] = "check"]
          /\ UNCHANGED queued
  /\ UNCHANGED <<mainVars, workVars, dead, helper, silent, update, hostVars>>

-------------------------------------------------------------------------------
(***************************************************************************)
(* The worker: run() and serve_session().                                  *)
(***************************************************************************)

\* Mutant: a session is ended without interrupting its writer.
EndSessionUnsignalled(next) ==
  IF session = NoSession
  THEN worker' = next /\ UNCHANGED <<after, dead, update>>
  ELSE /\ dead' = [dead EXCEPT ![session] = TRUE]
       /\ after' = next
       /\ worker' = "join"
       /\ update' = FALSE

\* The first half of end_session(), before the code at `next`: dead = true,
\* and the writer, if it has started, is going to be signalled.  Otherwise
\* Session::shutdown() closes the tunnel at once.
EndSession(next) ==
  IF session = NoSession
  THEN worker' = next /\ UNCHANGED <<after, dead, update>>
  ELSE /\ dead' = [dead EXCEPT ![session] = TRUE]
       /\ after' = next
       /\ IF writer[session] = "unstarted"
          THEN worker' = "join" /\ update' = FALSE
          ELSE worker' = "signal" /\ UNCHANGED update

\* wake_until_exited() on the writer: a signal fails the write in the kernel.
SignalWriter ==
  /\ worker = "signal"
  /\ writer[session] = "blocked"
  /\ writer' = [writer EXCEPT ![session] = "exited"]
  /\ UNCHANGED <<mainVars, workVars, dead, queued, helper, silent, update,
                 hostVars>>

\* The writer has exited, and LocalTunnel::shutdown() closes update_.
WriterSignalled ==
  /\ worker = "signal"
  /\ writer[session] = "exited"
  /\ worker' = "join"
  /\ update' = FALSE
  /\ UNCHANGED <<mainVars, after, stream, session, answering, dead, writer,
                 queued, helper, silent, hostVars>>

\* Mutant: the video loops are left to end by themselves.
JoinWriterOnly ==
  /\ worker = "join"
  /\ writer[session] = "exited"
  /\ session' = NoSession
  /\ worker' = after
  /\ queued' = [queued EXCEPT ![session] = 0]
  /\ silent' = [silent EXCEPT ![session] = FALSE]
  /\ UNCHANGED <<mainVars, after, stream, answering, dead, writer, helper,
                 update, hostVars>>

\* The second half of end_session(): every thread of the session is joined,
\* and the session and its keys are gone.
Join ==
  /\ worker = "join"
  /\ writer[session] = "exited"
  /\ \A t \in Helpers : helper[session][t] = "done"
  /\ session' = NoSession
  /\ worker' = after
  /\ queued' = [queued EXCEPT ![session] = 0]
  /\ silent' = [silent EXCEPT ![session] = FALSE]
  /\ UNCHANGED <<mainVars, after, stream, answering, dead, writer, helper,
                 update, hostVars>>

\* run() begins with install_wake_signal().
WorkerStarts ==
  /\ worker = "starting"
  /\ armed' = TRUE
  /\ worker' = "create"
  /\ UNCHANGED <<main, job, after, stream, session, answering, sessVars,
                 hostVars>>

\* FfsGadget::create(), which ends the worker when it fails.
CreateGadget ==
  /\ worker = "create"
  /\ worker' \in {"open", "exited"}
  /\ UNCHANGED <<mainVars, after, stream, session, answering, sessVars,
                 hostVars>>

\* The loop of run(), and the endpoints opened anew for every round of it.
\* (When they cannot be opened the worker tries again: a stuttering step.)
OpenEndpoints ==
  /\ worker = "open"
  /\ worker' = IF stopping THEN "exited" ELSE "check"
  /\ stream' = <<>>
  /\ UNCHANGED <<mainVars, after, session, answering, sessVars, hostVars>>

\* Between two reads of the endpoint: a dead session or stop() ends
\* serve_session().
CheckSession ==
  /\ worker = "check"
  /\ IF stopping \/ (session # NoSession /\ dead[session])
     THEN EndSession("open")
     ELSE worker' = "read" /\ UNCHANGED <<after, dead, update>>
  /\ UNCHANGED <<mainVars, stream, session, answering, writer, queued, helper,
                 silent, hostVars>>

\* The read of the endpoint completes, with what has arrived so far, which
\* comes behind a record that is still cut short.
ReadEndpoint ==
  /\ worker = "read"
  /\ \E n \in 1 .. Len(arriving) :
       /\ stream' = stream \o SubSeq(arriving, 1, n)
       /\ arriving' = SubSeq(arriving, n + 1, Len(arriving))
  /\ worker' = "frame"
  /\ UNCHANGED <<mainVars, after, session, answering, sessVars, host, items,
                 hellos, answered, recycles>>

\* The read, or the write of a ServerHello, has failed: serve_session() ends.
LeaveSession ==
  /\ worker = "failed"
  /\ EndSession("open")
  /\ UNCHANGED <<mainVars, stream, session, answering, writer, queued, helper,
                 silent, hostVars>>

\* Nothing is left in the buffer.
FrameNothing ==
  /\ worker = "frame"
  /\ stream = <<>>
  /\ worker' = "check"
  /\ UNCHANGED <<mainVars, after, stream, session, answering, sessVars,
                 hostVars>>

\* Mutant: a ClientHello is only looked for while there is no session.
FrameHelloUnlessInSession ==
  /\ worker = "frame"
  /\ stream # <<>>
  /\ Head(stream).type \in {"hello", "badhello"}
  /\ IF session = NoSession
     THEN /\ worker' = "respond"
          /\ answering' = Head(stream).id
          /\ stream' = Tail(stream)
          /\ UNCHANGED <<after, dead, update>>
     ELSE /\ EndSession("check")
          /\ stream' = <<>>
          /\ UNCHANGED answering
  /\ UNCHANGED <<mainVars, session, writer, queued, helper, silent, hostVars>>

\* Mutant: the old session is only replaced, not ended.
FrameHelloReplaces ==
  /\ worker = "frame"
  /\ stream # <<>>
  /\ Head(stream).type \in {"hello", "badhello"}
  /\ answering' = Head(stream).id
  /\ stream' = Tail(stream)
  /\ worker' = "respond"
  /\ UNCHANGED <<mainVars, after, session, sessVars, hostVars>>

\* A ClientHello supersedes any live session.
FrameHello ==
  /\ worker = "frame"
  /\ stream # <<>>
  /\ Head(stream).type \in {"hello", "badhello"}
  /\ answering' = Head(stream).id
  /\ stream' = Tail(stream)
  /\ EndSession("respond")
  /\ UNCHANGED <<mainVars, session, writer, queued, helper, silent, hostVars>>

\* Bytes before any handshake are discarded.
FrameUnkeyed ==
  /\ worker = "frame"
  /\ stream # <<>>
  /\ Head(stream).type \notin {"hello", "badhello"}
  /\ session = NoSession
  /\ stream' = <<>>
  /\ worker' = "check"
  /\ UNCHANGED <<mainVars, after, session, answering, sessVars, hostVars>>

\* A record that cannot be framed or opened ends the session, and whatever
\* came with it is thrown away.
FrameGarbage ==
  /\ worker = "frame"
  /\ stream # <<>>
  /\ Head(stream).type = "garbage"
  /\ session # NoSession
  /\ stream' = <<>>
  /\ EndSession("check")
  /\ UNCHANGED <<mainVars, session, answering, writer, queued, helper, silent,
                 hostVars>>

\* WireBuffer::next() waits for the rest of a record that was cut short, and
\* takes whatever comes next for it, a ClientHello too.  Once its length is
\* reached with bytes of another item the record does not open.
FrameCut ==
  /\ worker = "frame"
  /\ stream # <<>>
  /\ Head(stream).type = "cut"
  /\ session # NoSession
  /\ \/ /\ worker' = "check"
        /\ UNCHANGED <<after, stream, dead, update>>
     \/ /\ Len(stream) > 1
        /\ stream' = <<>>
        /\ EndSession("check")
  /\ UNCHANGED <<mainVars, session, answering, writer, queued, helper, silent,
                 hostVars>>

\* A control request.  run_on_main_loop() queues it, or runs it here when
\* the loop has let go of its context.
FrameRequest ==
  /\ worker = "frame"
  /\ stream # <<>>
  /\ Head(stream).type = "request"
  /\ session # NoSession
  /\ stream' = Tail(stream)
  /\ silent' = [silent EXCEPT ![session] = FALSE]
  /\ IF LoopOwnsContext
     THEN /\ job' = "queued"
          /\ worker' = "dispatch"
          /\ UNCHANGED queued
     ELSE /\ queued' = [queued EXCEPT ![session] = @ + 1]
          /\ UNCHANGED <<job, worker>>
  /\ UNCHANGED <<main, armed, after, session, answering, dead, writer, helper,
                 update, hostVars>>

\* The request was handled; its reply is not droppable.
DispatchReturns ==
  /\ worker = "dispatch"
  /\ job = "done"
  /\ job' = "none"
  /\ worker' = "frame"
  /\ queued' = [queued EXCEPT ![session] = @ + 1]
  /\ UNCHANGED <<main, armed, after, stream, session, answering, dead, writer,
                 helper, silent, update, hostVars>>

\* Update data: deliver() takes the tunnel's mutex for the whole of its write
\* to the update server.
FrameUpdate ==
  /\ worker = "frame"
  /\ stream # <<>>
  /\ Head(stream).type = "update"
  /\ session # NoSession
  /\ stream' = Tail(stream)
  /\ silent' = [silent EXCEPT ![session] = FALSE]
  /\ worker' = "deliver"
  /\ UNCHANGED <<mainVars, after, session, answering, dead, writer, queued,
                 helper, update, hostVars>>

\* The update server takes the data, or both attempts to write it fail.
DeliverReturns ==
  /\ worker = "deliver"
  /\ update' \in BOOLEAN
  /\ worker' = "frame"
  /\ UNCHANGED <<mainVars, after, stream, session, answering, dead, writer,
                 queued, helper, silent, hostVars>>

\* DeviceHandshake::respond(), then the ServerHello goes to the endpoint.
Respond ==
  /\ worker = "respond"
  /\ worker' = IF answering = NoSession THEN "frame" ELSE "reply"
  /\ UNCHANGED <<mainVars, after, stream, session, answering, sessVars,
                 hostVars>>

-------------------------------------------------------------------------------
(***************************************************************************)
(* stop(), on the main loop's thread.                                      *)
(***************************************************************************)

\* Mutant: the signal does not abort the write of a ServerHello.
SignalReaderOnly ==
  /\ main \in {"reloading", "quitting"}
  /\ worker = "read"
  /\ worker' = "failed"
  /\ UNCHANGED <<mainVars, after, stream, session, answering, sessVars,
                 hostVars>>

\* wake_until_exited() sends the worker one of its signals.  It fails a read
\* or a ServerHello in the kernel, and a write to the update server if the
\* session is dead (the second attempt may still fit); it kills the process
\* if run() has not begun.  Anywhere else it has no effect.
SignalWorker ==
  /\ main \in {"reloading", "quitting"}
  /\ \/ /\ worker = "starting"
        /\ ~armed
        /\ main' = "killed"
        /\ UNCHANGED <<worker, update>>
     \/ /\ worker \in {"read", "reply"}
        /\ worker' = "failed"
        /\ UNCHANGED <<main, update>>
     \/ /\ worker = "deliver"
        /\ dead[session]
        /\ worker' = "frame"
        /\ update' \in BOOLEAN
        /\ UNCHANGED main
  /\ UNCHANGED <<armed, job, after, stream, session, answering, dead, writer,
                 queued, helper, silent, hostVars>>

\* The worker has exited and is joined.
StopReturns ==
  /\ main \in {"reloading", "quitting"}
  /\ worker = "exited"
  /\ main' = "stopped"
  /\ UNCHANGED <<armed, job, workVars, sessVars, hostVars>>

-------------------------------------------------------------------------------
(***************************************************************************)
(* The host, host-ui/secureusbbridge.cpp as the device sees it, and the    *)
(* cable.                                                                  *)
(***************************************************************************)

\* The host sends a ClientHello, at any time: a viewer that starts, or one
\* that has waited too long for an answer.
HostHello ==
  /\ host = "there"
  /\ hellos < MaxHellos
  /\ hellos' = hellos + 1
  /\ arriving' = Append(arriving, [type |-> "hello", id |-> hellos + 1])
  /\ UNCHANGED <<mainVars, workVars, sessVars, host, items, answered, recycles>>

\* It sends records once its last ClientHello is answered; anything else the
\* device receives is noise: a handshake it rejects, the start of a record
\* whose rest never comes, bytes that are no record.
HostSends ==
  /\ host = "there"
  /\ items < MaxItems
  /\ items' = items + 1
  /\ \E type \in {"badhello", "request", "update", "garbage", "cut"} :
       /\ type \in {"request", "update"} => answered = hellos /\ hellos # NoSession
       /\ arriving' = Append(arriving, [type |-> type, id |-> NoSession])
  /\ UNCHANGED <<mainVars, workVars, sessVars, host, hellos, answered, recycles>>

\* It reads the ServerHello, and the session begins.
HostTakesHello ==
  /\ host = "there"
  /\ worker = "reply"
  /\ answered' = answering
  /\ session' = answering
  /\ answering' = NoSession
  /\ worker' = "frame"
  /\ writer' = [writer EXCEPT ![answering] = "unstarted"]
  /\ helper' = [helper EXCEPT ![answering] = [t \in Helpers |-> "up"]]
  /\ UNCHANGED <<mainVars, after, stream, dead, queued, silent,
                 update, host, arriving, items, hellos, recycles>>

\* It reads a record.
HostTakesRecord(s) ==
  /\ host = "there"
  /\ writer[s] = "blocked"
  /\ writer' = [writer EXCEPT ![s] = "check"]
  /\ UNCHANGED <<mainVars, workVars, dead, queued, helper, silent, update,
                 hostVars>>

\* The viewer exits.  The endpoints do not notice.
HostLeaves ==
  /\ host = "there"
  /\ host' = "gone"
  /\ arriving' = <<>>
  /\ UNCHANGED <<mainVars, workVars, sessVars, items, hellos, answered, recycles>>

\* The cable is pulled or the interface reset: the endpoints are disabled
\* and everything that is blocked on them fails.
EndpointsDisabled ==
  /\ recycles < MaxRecycles
  /\ recycles' = recycles + 1
  /\ arriving' = <<>>
  /\ writer' = [s \in Sessions |->
                  IF writer[s] = "blocked" THEN "exited" ELSE writer[s]]
  /\ dead' = [s \in Sessions |-> dead[s] \/ writer[s] = "blocked"]
  /\ worker' = IF worker \in {"read", "reply"} THEN "failed" ELSE worker
  /\ UNCHANGED <<mainVars, after, stream, session, answering, queued, helper,
                 silent, update, host, items, hellos, answered>>

-------------------------------------------------------------------------------
Worker ==
  \/ SignalWriter \/ WriterSignalled \/ Join
  \/ WorkerStarts \/ CreateGadget \/ OpenEndpoints \/ CheckSession
  \/ LeaveSession
  \/ FrameNothing \/ FrameHello \/ FrameUnkeyed \/ FrameGarbage \/ FrameCut
  \/ FrameRequest \/ FrameUpdate \/ DispatchReturns \/ Respond

Writer(s) == WriterStarts(s) \/ WriterChecks(s) \/ WriterWaits(s)

Stop == SignalWorker \/ StopReturns

Session(s) ==
  \/ Writer(s)
  \/ TimePasses(s)
  \/ HostTakesRecord(s)
  \/ \E c \in Cameras : CameraFrame(s, c)
  \/ \E t \in Helpers : SealFails(s, t) \/ HelperEnds(s, t)

Host == HostHello \/ HostSends \/ HostTakesHello \/ HostLeaves

Next ==
  /\ main # "killed"
  /\ \/ RunJob \/ BeginStop \/ Stop
     \/ Worker \/ ReadEndpoint \/ DeliverReturns
     \/ \E s \in Sessions : Session(s)
     \/ UpdaterCloses
     \/ Host
     \/ EndpointsDisabled

Spec == Init /\ [][Next]_vars

(***************************************************************************)
(* Fairness.  Threads run and the main loop serves its queue; time passes  *)
(* for a host that is gone.  Nothing obliges the host to read, the update  *)
(* server to take its data, or anyone to stop the service.                 *)
(***************************************************************************)
FairSpec ==
  /\ Spec
  /\ WF_vars(RunJob)
  /\ WF_vars(Stop)
  /\ WF_vars(Worker)
  /\ WF_vars(ReadEndpoint)
  /\ \A s \in Sessions :
       /\ WF_vars(Writer(s))
       /\ WF_vars(host = "gone" /\ TimePasses(s))
       /\ \A t \in Helpers : WF_vars(HelperEnds(s, t))

-------------------------------------------------------------------------------
(***************************************************************************)
(* Properties.                                                             *)
(***************************************************************************)

Alive(s) == Running(s) \/ \E t \in Helpers : helper[s][t] = "up"

(***************************************************************************)
(* end_session() joins before it frees: no thread of a session lives on    *)
(* when another session, or none, is being served.  Otherwise a thread     *)
(* would use a freed Session, write to a closed endpoint, or hold a camera *)
(* that admits one consumer while the next session opens it.               *)
(***************************************************************************)
NoThreadOutlivesSession == \A s \in Sessions : Alive(s) => s = session

(***************************************************************************)
(* What the endpoint offers to the host is sealed under the keys of the    *)
(* ServerHello the host took last: a record of a superseded session never  *)
(* follows the answer to the handshake that superseded it.                 *)
(***************************************************************************)
OfferedUnderLastHello ==
  \A s \in Sessions : writer[s] = "blocked" => s = answered

(***************************************************************************)
(* end_session() ends, whether or not the host ever reads again: the       *)
(* signal frees the writer, and no other thread of a session waits on      *)
(* anything but `dead`.                                                    *)
(***************************************************************************)
TeardownEnds == worker \in {"signal", "join"} ~> worker \notin {"signal", "join"}

(***************************************************************************)
(* stop() returns, unless the worker is inside a handler: a control        *)
(* request whose closure the main loop will not run any more, or update    *)
(* data nobody takes.                                                      *)
(***************************************************************************)
StopHangsOnlyInHandlers ==
  main \in {"reloading", "quitting"} ~>
    \/ main \in {"stopped", "killed"}
    \/ [](worker = "dispatch" /\ job = "queued")
    \/ [](worker = "deliver")

CamerasReleased ==
  \A s \in Sessions, c \in Cameras : helper[s][c] # "up"

(***************************************************************************)
(* When the viewer leaves without a word the cameras are released, unless  *)
(* an upload stays open or a record is stuck in the endpoint, where the    *)
(* watchdog is not asked.                                                  *)
(***************************************************************************)
DepartureReleasesCameras ==
  host = "gone" ~>
    \/ []CamerasReleased
    \/ [](update \/ worker = "deliver")
    \/ \E s \in Sessions : [](writer[s] = "blocked")

(***************************************************************************)
(* A host that starts again, and reads, is answered: whatever the session  *)
(* before was doing -- a request in the main loop, an upload being         *)
(* written, a writer stuck in the endpoint, a silence that ends it -- the  *)
(* last ClientHello gets a ServerHello.  It must not be read in one piece  *)
(* with what was sent before it, where garbage takes it along, nor arrive  *)
(* behind a record cut short, which swallows it (until the silence of the  *)
(* host ends that session and the endpoints are opened anew); and the      *)
(* service and the endpoints have to stay up.                              *)
(***************************************************************************)
Undisturbed ==
  /\ main = "loop" /\ host = "there" /\ recycles = 0
  /\ worker # "exited"
  /\ \A i \in 1 .. Len(arriving) :
       /\ arriving[i].type # "garbage"
       /\ arriving[i].type = "hello" => i = 1
  /\ \A i, j \in 1 .. Len(stream) :
       i < j => ~(stream[i].type = "cut" /\ stream[j].type = "hello")

ReconnectIsAnswered ==
  (/\ []Undisturbed
   /\ WF_vars(HostTakesHello)
   /\ WF_vars(DeliverReturns))
     => (hellos = MaxHellos ~> answered = MaxHellos)

(***************************************************************************)
(* "A bare join here hung service shutdown": stop() always returns, as the *)
(* comment in it has it.                                                   *)
(***************************************************************************)
StopReturnsAlways ==
  main \in {"reloading", "quitting"} ~> main \in {"stopped", "killed"}

(***************************************************************************)
(* "This watchdog -- not an I/O failure -- is what stops the cameras": a   *)
(* viewer that leaves while no upload is open releases them.               *)
(***************************************************************************)
SilenceStopsCameras ==
  host = "gone" ~> \/ CamerasReleased
                   \/ [](update \/ worker = "deliver")
===============================================================================
