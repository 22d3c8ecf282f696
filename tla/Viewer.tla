------------------------------- MODULE Viewer -------------------------------
(* The viewer's window (MainWindow with its ControlClient, UpdateClient, panes and camera
   list) and the device it talks to: the control requests and their callbacks, the timers
   that chain one request to the next, the upload of an update and the reboot after it. Qt
   runs one handler at a time, so each is one action; what interleaves is the handlers, the
   timers, two TCP connections and the device.

   The device handles the requests of a connection in their order, in its main loop
   (ControlServer). Requests whose answer changes nothing here (exposure, gain, trigger,
   ISP, sync) are left out, and so is the calibration: nothing ever enables its button.
   External: Qt's sockets and timers, the user, the network. *)
EXTENDS Naturals, Sequences

CONSTANTS
  Cameras,       \* the panes
  FileChunks,    \* chunks of the update file
  BufferChunks,  \* kTargetBuffer, in chunks
  MaxPending,    \* bound: requests that wait when the user or the status timer adds one
  MaxTimers      \* bound: single shots that run when an upload begins

ASSUME ViewerAssumption ==
  /\ Cameras \subseteq Nat /\ 0 \in Cameras
  /\ FileChunks \in Nat \ {0} /\ BufferChunks \in Nat \ {0} /\ MaxPending \in Nat
  /\ MaxTimers \in Nat

VARIABLES
  m_connected,  \* between connectStreams() and disconnectStreams()
  socket,       \* of the ControlClient: "off", "connecting", "up"
  wire,         \* requests the device has not handled
  answers,      \* answers the viewer has not read
  late,         \* requests of an aborted connection the device has not handled
  statusTimer,
  list,         \* what filled the camera list: "default", "discovery", "status"
  visible,      \* the pane on top
  m_active,     \* panes that play
  upload,       \* the UpdateClient: "idle" or the step it is at
  written,      \* chunks read from the file
  m_sent,       \* chunks that have left
  autoReboot,   \* the check box
  pollTimers,   \* single shots of pollUpdateStatus()
  rebootTimers, \* single shots of sendReboot()
  watched,      \* an upload ended with the box ticked; neither the box nor the connection
                \* has changed since (history)
  enabled,      \* device: cameras[i].enabled
  update,       \* device: the state of the update
  rebootDue     \* device: the timer of the reboot method

panes == <<list, visible, m_active>>
control == <<socket, wire, answers, statusTimer>>
timers == <<pollTimers, rebootTimers>>
file == <<upload, written, m_sent>>
device == <<enabled, update, rebootDue>>
vars == <<m_connected, control, late, panes, file, autoReboot, timers, watched, device>>

SetStream(on) == [op |-> "set-stream", on |-> on]
SetZoom(c) == [op |-> "set-zoom", camera |-> c]
Request(name) == [op |-> name]
States == {"idle", "uploading", "installing", "success", "failure"}
Busy == {"uploading", "installing"}
m_busy == upload # "idle"

-----------------------------------------------------------------------------
(* Requests. One made without a connection fails at once, and its callback does nothing. *)
sendRequest(q) == wire' = IF socket = "up" THEN Append(wire, q) ELSE wire
Room == Len(wire) + Len(answers) <= MaxPending

pollUpdateStatus == sendRequest(Request("get-update-status"))
sendReboot == sendRequest(Request("reboot"))

(* populateCameraList(): the first camera that is enabled comes on top, or the first. *)
FirstEnabled(on) ==
  LET usable == {c \in Cameras : on[c]}
      among == IF usable = {} THEN Cameras ELSE usable
  IN  CHOOSE c \in among : \A d \in among : c <= d

restartPane(c) == m_active' = [m_active EXCEPT ![c] = TRUE]

-----------------------------------------------------------------------------
(* The control connection. *)

(* connectStreams(), once the transport has started: only the visible pane plays. *)
connectStreams ==
  /\ ~m_connected /\ m_connected' = TRUE
  /\ restartPane(visible)
  /\ socket' = "connecting"
  /\ UNCHANGED <<wire, answers, late, statusTimer, list, visible, file, autoReboot, timers,
                 watched, device>>

(* The socket is connected: the cameras are started, the status poll begins. *)
connected ==
  /\ socket = "connecting" /\ socket' = "up"
  /\ wire' = <<SetStream(TRUE), Request("get-status")>>
  /\ statusTimer' = TRUE
  /\ UNCHANGED <<m_connected, answers, late, panes, file, autoReboot, timers, watched,
                 device>>

(* errorOccurred() without a connection: nothing tries again. *)
connectFails ==
  /\ socket = "connecting" /\ socket' = "off"
  /\ statusTimer' = FALSE
  /\ UNCHANGED <<m_connected, wire, answers, late, panes, file, autoReboot, timers, watched,
                 device>>

\* Mutant: the handler forgets the status poll.
disconnectedKeepsPolling ==
  /\ socket' = "off" /\ wire' = <<>> /\ answers' = <<>>
  /\ statusTimer' = statusTimer
  /\ list' = "default"
  /\ watched' = FALSE

(* disconnected(), after the requests that wait have failed. *)
disconnected ==
  /\ socket' = "off" /\ wire' = <<>> /\ answers' = <<>>
  /\ statusTimer' = FALSE
  /\ list' = "default"
  /\ watched' = FALSE

(* The device closes, or the network does. *)
connectionDrops ==
  /\ socket = "up"
  /\ disconnected
  /\ UNCHANGED <<m_connected, late, visible, m_active, file, autoReboot, timers, device>>

(* disconnectStreams(): the cameras are stopped, which the device may learn after the next
   connection is open, or never. *)
disconnectStreams ==
  /\ m_connected /\ m_connected' = FALSE
  /\ late = <<>>
  /\ m_active' = [c \in Cameras |-> FALSE]
  /\ IF socket = "up"
     THEN disconnected /\ late' \in {<<>>, Append(wire, SetStream(FALSE))}
     ELSE /\ socket' = "off" /\ UNCHANGED <<wire, answers, statusTimer, list, watched, late>>
  /\ UNCHANGED <<visible, file, autoReboot, timers, device>>

-----------------------------------------------------------------------------
(* The user, and the timers. *)

(* The camera list: it has but its first row until something fills it. *)
selectCamera(c) ==
  /\ list # "default" \/ c = 0
  /\ visible' = c
  /\ IF m_connected THEN restartPane(c) ELSE UNCHANGED m_active
  /\ UNCHANGED <<m_connected, control, late, list, file, autoReboot, timers, watched, device>>

deviceFound ==
  /\ list # "status"
  /\ list' = "discovery" /\ visible' = FirstEnabled(enabled)
  /\ UNCHANGED <<m_connected, control, late, m_active, file, autoReboot, timers, watched,
                 device>>

cameraZoomChanged(c) ==
  /\ socket = "up" /\ Room
  /\ sendRequest(SetZoom(c))
  /\ UNCHANGED <<m_connected, socket, answers, statusTimer, late, panes, file, autoReboot,
                 timers, watched, device>>

pollStatus ==
  /\ statusTimer /\ Room
  /\ sendRequest(Request("get-status"))
  /\ UNCHANGED <<m_connected, socket, answers, statusTimer, late, panes, file, autoReboot,
                 timers, watched, device>>

rebootRequested ==
  /\ socket = "up" /\ Room
  /\ sendReboot
  /\ UNCHANGED <<m_connected, socket, answers, statusTimer, late, panes, file, autoReboot,
                 timers, watched, device>>

tickAutoReboot ==
  /\ autoReboot' = ~autoReboot /\ watched' = FALSE
  /\ UNCHANGED <<m_connected, control, late, panes, file, timers, device>>

pollTimerFires ==
  /\ pollTimers > 0 /\ pollTimers' = pollTimers - 1
  /\ pollUpdateStatus
  /\ UNCHANGED <<m_connected, socket, answers, statusTimer, late, panes, file, autoReboot,
                 rebootTimers, watched, device>>

(* It goes to whatever device is connected by then. *)
rebootTimerFires ==
  /\ rebootTimers > 0 /\ rebootTimers' = rebootTimers - 1
  /\ sendReboot
  /\ UNCHANGED <<m_connected, socket, answers, statusTimer, late, panes, file, autoReboot,
                 pollTimers, watched, device>>

-----------------------------------------------------------------------------
(* readLines(): the callback of the request. *)
Answered(op) == answers # <<>> /\ Head(answers).op = op /\ answers' = Tail(answers)

statusAnswered ==
  /\ Answered("get-status")
  /\ IF list = "status" THEN UNCHANGED <<list, visible>>
     ELSE list' = "status" /\ visible' = FirstEnabled(Head(answers).enabled)
  /\ UNCHANGED <<m_connected, socket, wire, statusTimer, late, m_active, file, autoReboot,
                 timers, watched, device>>

(* Zoom applies to new sessions, so the pane restarts. *)
zoomAnswered ==
  /\ Answered("set-zoom")
  /\ IF Head(answers).ok /\ m_connected THEN restartPane(Head(answers).camera)
     ELSE UNCHANGED m_active
  /\ UNCHANGED <<m_connected, socket, wire, statusTimer, late, list, visible, file,
                 autoReboot, timers, watched, device>>

\* Mutant: the poll goes on only until the upload is over.
RearmedWhileUploading(state) == state = "uploading"

(* The poll goes on while the update does; a success schedules the reboot. *)
Rearmed(state) == state \in Busy

updateAnswered ==
  /\ Answered("get-update-status")
  /\ LET state == Head(answers).state
     IN  /\ pollTimers' = IF Rearmed(state) THEN pollTimers + 1 ELSE pollTimers
         /\ rebootTimers' =
              IF state = "success" /\ autoReboot THEN rebootTimers + 1 ELSE rebootTimers
  /\ UNCHANGED <<m_connected, socket, wire, statusTimer, late, panes, file, autoReboot,
                 watched, device>>

-----------------------------------------------------------------------------
(* The upload, on a connection of its own. *)
uploadFile ==
  /\ socket = "up" /\ ~m_busy /\ Room /\ pollTimers + rebootTimers <= MaxTimers
  /\ upload' = "connecting" /\ m_sent' = 0 /\ written' = 0
  /\ watched' = FALSE
  /\ UNCHANGED <<m_connected, control, late, panes, autoReboot, timers, device>>

onConnected ==
  /\ upload = "connecting" /\ upload' = "header"
  /\ UNCHANGED <<m_connected, control, late, panes, written, m_sent, autoReboot, timers,
                 watched, device>>

Finished == upload' = "idle" /\ written' = 0 /\ m_sent' = 0

(* end_stream_install(): the device is done reading. *)
Ended == update' = IF update = "uploading" THEN "installing" ELSE update

(* The socket fails or closes, or a line is malformed. *)
uploadFails ==
  /\ m_busy /\ Finished
  /\ IF upload = "streaming" THEN Ended ELSE UNCHANGED update
  /\ UNCHANGED <<m_connected, control, late, panes, autoReboot, timers, watched, enabled,
                 rebootDue>>

(* writeNextChunk(): the buffer is topped up, from the file. *)
writeNextChunk(sent) ==
  written' = IF sent + BufferChunks < FileChunks THEN sent + BufferChunks ELSE FileChunks

(* The device acknowledges the header, or refuses: it is busy, or the updater is away. *)
headerAnswered ==
  /\ upload = "header"
  /\ \/ /\ update \notin Busy /\ update' = "uploading"
        /\ upload' = "streaming" /\ m_sent' = 0 /\ writeNextChunk(0)
     \/ update \notin Busy /\ update' = "failure" /\ Finished
     \/ update \in Busy /\ UNCHANGED update /\ Finished
  /\ UNCHANGED <<m_connected, control, late, panes, autoReboot, timers, watched, enabled,
                 rebootDue>>

\* Mutant: the buffer is filled once.
NeverTopUp(sent) == UNCHANGED written

(* What is to be done once `sent` chunks have left. *)
TopUp(sent) == IF sent < FileChunks THEN writeNextChunk(sent) ELSE UNCHANGED written

onBytesWritten ==
  /\ upload = "streaming" /\ m_sent < written
  /\ m_sent' = m_sent + 1
  /\ TopUp(m_sent + 1)
  /\ UNCHANGED <<m_connected, control, late, panes, upload, autoReboot, timers, watched,
                 device>>

(* The device has the whole file and says so; the viewer asks how the installation goes. *)
uploadFinished ==
  /\ upload = "streaming" /\ m_sent = FileChunks
  /\ Ended /\ Finished
  /\ pollUpdateStatus
  /\ watched' = (autoReboot /\ socket = "up")
  /\ UNCHANGED <<m_connected, socket, answers, statusTimer, late, panes, autoReboot, timers,
                 enabled, rebootDue>>

-----------------------------------------------------------------------------
(* The device. *)
Streams(q) == IF q.op = "set-stream" THEN [c \in Cameras |-> q.on] ELSE enabled
StatusAnswer == [op |-> "get-status", enabled |-> enabled]
UpdateAnswer == [op |-> "get-update-status", state |-> update]
ZoomAnswers(c) == {[op |-> "set-zoom", camera |-> c, ok |-> ok] : ok \in BOOLEAN}

(* dispatch_request(): the handler, then the answer. *)
handleRequest ==
  /\ wire # <<>> /\ wire' = Tail(wire)
  /\ LET q == Head(wire)
     IN  /\ enabled' = Streams(q)
         /\ rebootDue' = (rebootDue \/ q.op = "reboot")
         /\ CASE q.op = "get-status" -> answers' = Append(answers, StatusAnswer)
              [] q.op = "get-update-status" -> answers' = Append(answers, UpdateAnswer)
              [] q.op = "set-zoom" ->
                   answers' \in {Append(answers, a) : a \in ZoomAnswers(q.camera)}
              [] OTHER -> UNCHANGED answers
  /\ UNCHANGED <<m_connected, socket, statusTimer, late, panes, file, autoReboot, timers,
                 watched, update>>

handleLate ==
  /\ late # <<>> /\ late' = Tail(late)
  /\ enabled' = Streams(Head(late))
  /\ rebootDue' = (rebootDue \/ Head(late).op = "reboot")
  /\ UNCHANGED <<m_connected, control, panes, file, autoReboot, timers, watched, update>>

(* Two seconds after the answer; the cameras come up as the configuration says. *)
deviceReboots ==
  /\ rebootDue /\ rebootDue' = FALSE
  /\ update' = "idle" /\ late' = <<>>
  /\ enabled' \in [Cameras -> BOOLEAN]
  /\ Finished
  /\ IF socket = "up" THEN disconnected
     ELSE UNCHANGED <<control, list, watched>>
  /\ UNCHANGED <<m_connected, visible, m_active, autoReboot, timers>>

installs ==
  /\ update \in Busy
  /\ update' \in {"installing", "success", "failure"} \ {update}
  /\ UNCHANGED <<m_connected, control, late, panes, file, autoReboot, timers, watched,
                 enabled, rebootDue>>

-----------------------------------------------------------------------------
Init ==
  /\ m_connected = FALSE /\ socket = "off"
  /\ wire = <<>> /\ answers = <<>> /\ late = <<>>
  /\ statusTimer = FALSE
  /\ list = "default" /\ visible = 0 /\ m_active = [c \in Cameras |-> FALSE]
  /\ upload = "idle" /\ written = 0 /\ m_sent = 0
  /\ autoReboot = FALSE /\ pollTimers = 0 /\ rebootTimers = 0 /\ watched = FALSE
  /\ enabled \in [Cameras -> BOOLEAN] /\ update = "idle" /\ rebootDue = FALSE

User ==
  \/ connectStreams \/ disconnectStreams \/ deviceFound
  \/ \E c \in Cameras : selectCamera(c) \/ cameraZoomChanged(c)
  \/ rebootRequested \/ tickAutoReboot \/ uploadFile

Control ==
  \/ connected \/ connectFails \/ connectionDrops
  \/ statusAnswered \/ zoomAnswered \/ updateAnswered
  \/ pollStatus \/ pollTimerFires \/ rebootTimerFires

Upload ==
  onConnected \/ uploadFails \/ headerAnswered \/ onBytesWritten \/ uploadFinished

Device == handleRequest \/ handleLate \/ deviceReboots \/ installs

Next == User \/ Control \/ Upload \/ Device

Spec == Init /\ [][Next]_vars

(* Qt delivers what has arrived and fires its timers; the device handles what it is sent,
   and an installation ends. Nothing makes the user act or a connection fail. *)
Fairness ==
  /\ WF_vars(statusAnswered \/ zoomAnswered \/ updateAnswered)
  /\ WF_vars(pollTimerFires) /\ WF_vars(rebootTimerFires)
  /\ WF_vars(onConnected) /\ WF_vars(headerAnswered)
  /\ WF_vars(onBytesWritten) /\ WF_vars(uploadFinished)
  /\ WF_vars(handleRequest)
  /\ WF_vars(installs /\ update' \in {"success", "failure"})

FairSpec == Spec /\ Fairness

-----------------------------------------------------------------------------
(* State and limits have their types; one chunk of the buffer is never sent twice. *)
TypeOK ==
  /\ m_connected \in BOOLEAN /\ socket \in {"off", "connecting", "up"}
  /\ statusTimer \in BOOLEAN /\ list \in {"default", "discovery", "status"}
  /\ visible \in Cameras /\ m_active \in [Cameras -> BOOLEAN]
  /\ upload \in {"idle", "connecting", "header", "streaming"}
  /\ m_sent \in 0..written /\ written \in 0..FileChunks
  /\ autoReboot \in BOOLEAN /\ pollTimers \in Nat /\ rebootTimers \in Nat
  /\ enabled \in [Cameras -> BOOLEAN] /\ update \in States /\ rebootDue \in BOOLEAN

(* Nothing runs on behalf of a connection that is not there: no pane plays after
   disconnectStreams(), whatever answer or timer comes late, and no status is polled and no
   answer awaited without a control connection. *)
IdleWhenOffline ==
  /\ \A c \in Cameras : m_active[c] => m_connected
  /\ statusTimer \/ wire # <<>> \/ answers # <<>> => socket = "up"
  /\ socket # "off" => m_connected

(* docs/HOST-UI.md:41: "The selected stream opens immediately; selecting the other camera
   opens that stream on demand": the pane on top plays while the viewer is connected. *)
VisiblePlays == m_connected => m_active[visible]

(* docs/HOST-UI.md:130: "An auto-reboot checkbox reboots the device when the install
   succeeds": if the control connection stays and the box is left alone, an upload that
   ended is followed by the reboot, or its installation fails. *)
AutoReboots == watched ~> (rebootDue \/ ~watched \/ update = "failure")

(* An upload ends, whatever the sizes of file and buffer, if the device answers. *)
UploadEnds == m_busy ~> ~m_busy
=============================================================================
