# Camera application: a verification project

The repository is a camera for an Orin NX: a streamer on the device
(`embedded/`), a viewer on a PC (`host-ui/`), the record protocol both share
(`common/`), and the image that carries them (`yocto/`). This directory holds
TLA+ models of the parts of it that are hard to test, the TLC configurations
that check them, and proofs of the properties that matter most.

Paths below are those of the repository; `SecureUsbServer.cpp` and the other
device files are in `embedded/src/camera/`.

## 1. The system

### Components

| Component | State | Operations | Hard about it | Correct when | Model |
|---|---|---|---|---|---|
| **Session record writer** (`RecordWriter` in `secure/SecureUsbServer.cpp`, `SecureRecord.cpp`) | nonce counter, queue, `started_`, `exited_` | `enqueue()` by 4 kinds of threads; `run()`; `request_stop()` | nonce order must equal wire order under concurrency; a blocked kernel write must be interruptible | the host can open every record; the queue is bounded; shutdown ends | modelled |
| **Secure USB server** (`SecureUsbServer`, `Session`) | worker thread, current session, `dead`, `stop_requested_` | `run()`, `serve_session()`, `end_session()`, `stop()`, the silence watchdog | a session has 3 + 2·cameras threads that must all be gone before the next one; signals; a host that vanishes without a word | no thread outlives its session; teardown and reconnection always work | modelled |
| **Local tunnel** (`LocalTunnel`) | `control_`/`update_` descriptors under a mutex | `deliver()`, `pump()`, `shutdown()` | descriptors are polled without the mutex and may be replaced meanwhile | data of one upload never reaches another | modelled |
| **Video loops** (`video_loop`, `set_stream_enabled`, `refresh_launch`, `publish_source`, detection threads) | `stream_enabled_`, relaunch flags, `live_source_`, launch strings | start, relaunch, give up, stop | flags read and reset around slow calls, pointers published across threads | a viewer that asks for video gets it; a change of settings is never lost | partly |
| **Update client** (`update/SwupdateClient.cpp`) | `status_` shared by handlers and detached pollers | `begin_stream_install()`, `end_stream_install()`, `poll_completion()` | an external daemon that crashes; an upload that ends after its installation did | one writer of `status_`; it never stays busy; it tells the truth | partly |
| **Update server** (`update/UpdateServer.cpp`) | a thread per upload | `handle_connection()` | streams to the daemon while the next upload may start | see above | partly |
| **Application** (`core/Application.cpp`), **control dispatch** (`control/`) | the servers, the configuration, the GLib loop | start, `reload()`, shutdown; `run_on_main_loop()` | reload may fail half way, and its revert too; worker threads wait for the main loop, and it for them | the servers are those of the configuration; reload ends | partly |
| **FunctionFS gadget** (`secure/FfsGadget.cpp`, the boot script `usb-gadget.sh`) | the configfs tree, the controller it is bound to | `create()`, the destructor, `release_base_gadget()` | many failing steps, each to be undone; two programs on one tree; kills at any step | the gadget can be taken over from any state, and the network function comes back | modelled |
| **RTSP server** (`rtsp/`) | mounts, stall counters, launch strings, detection | media life, `check_stall()`, `disable_mount()`, `refresh_launch()` | watchdog against pipelines that pause and restart; settings against pipelines that come and go | a silent camera is disabled and only such a one; settings that were answered are in force | partly |
| **Control handlers** (`control/handlers/`) | settings of cameras and V4L2 devices | `apply()`, set-sync, set-stream, status | several devices, one of which fails; three places for one value | state reported is state set | partly |
| **Host bridge** (`host-ui/secureusbbridge.cpp`) | a local port per channel, clients, the cable | `start()`, worker, reader, `~Impl()` | three threads; clients come, go and are replaced while answers are under way | a reply reaches who asked; the USB handle outlives its users; the destructor returns | partly (with its clients) |
| **Host user interface** (`host-ui/`) | connection, timers, panes, upload | connect, poll, select, upload, reboot | late answers and timers of a connection that is gone | nothing acts for a connection that is gone; an update ends in its reboot | partly |
| **Sensor driver** (`vc_mipi_core.c`, `vc_mipi_camera.c`, `vc_mipi_modules.c`) | `vc_state`, limits, registers | probe, format, exposure, gain, frame rate, trigger, start, stop | integer arithmetic at its limits; registers written only sometimes; writes that fail | the registers are what `vc_state` says, and fit together | partly |
| **Wire framing and handshake** (`common/secure/`, `WireBuffer`) | an inbound byte buffer; key schedule | `take_record()`, `take_client_hello()`, `respond()` | resynchronising after padding and garbage | whole records come out as they were sent | partly: items are whole, garbage or cut short |
| Configuration, pipeline construction, discovery, base library, image build and tools | — | — | — | — | not modelled; section 8 |

### How they interact

The GLib main loop owns `Application`. It starts `SecureUsbServer`, whose
**worker** thread creates the gadget, reads the OUT endpoint, answers
handshakes and dispatches records. Control requests are carried back to the
main loop by `run_on_main_loop()`, on whose condition variable the worker
waits. Update data goes through `LocalTunnel::deliver()` to a socket pair whose
other end is a handler thread of `UpdateServer`, which streams into swupdate's
socket. Everything that goes to the host is sealed and queued by
`RecordWriter::enqueue()` and written to the IN endpoint by one **writer**
thread; producers are the video loops, their detection threads, the tunnel's
pump and the worker. A blocked endpoint call can only be ended by the host, by
the endpoints being disabled, or by `SIGUSR1` (`wake_until_exited()`).

In network mode the same GLib loop runs `RtspServer` instead, with a mount per
camera: GStreamer's client thread builds and drops pipelines, streaming threads
count their frames, detection threads take samples, and the main loop runs the
watchdog and the control requests. `Application::reload()` goes from one mode to
the other, and the USB gadget goes with it: the worker takes it over with
`FfsGadget::create()`, and gives it back when it is destroyed, next to the boot
script, which works on the same directory.

On the PC, `SecureUsbBridge` gives `ControlClient` and `UpdateClient` a local TCP
port each, and carries what they write to the device's session with a worker
thread; a reader thread blocks in the IN transfer. The clients are driven by
`MainWindow`, by Qt callbacks and timers in one thread.

Below all of it the sensor driver turns a sequence of V4L2 calls into register
writes over I2C.

### Interactions that bite

These are listed, each at its line, under `hazards` in `PROJECT.json`. In short:
seal and push must be one critical section; a signal that arrives just before
the system call has no effect and must be repeated; the end of a session has to
wait for threads that wait for each other's locks; the watchdog is asked in one
place only; the main loop can wait for a worker that waits for the main loop;
an installation can end, and another begin, while the handler of the first is
still streaming; the daemon can crash at any point of it; the tunnel's pump
polls numbers of descriptors that are closed and given out again meanwhile;
settings change between the copy of a description and the reset of its flag,
or between the storing of a value and the building of a pipeline from it; a
process is killed while the gadget is half made; a client of the bridge is
accepted after the destructor has shut the others down; an answer arrives when
the window it was for is gone; a register write fails among others.

## 2. The modules

| Module | What it is |
|---|---|
| `SecureChannel` | Abstract: what the device-to-host half of a session promises. Two variables, two actions. |
| `RecordWriter` | Class `RecordWriter`, its producers, `run()`, `Session::shutdown()`; implements `SecureChannel` with the identity on `sealed` and `delivered`. |
| `SecureUsbServer` | The server's worker, the sessions it serves with all their threads, the main loop, the host and the cable. |
| `SwupdateClient` | Uploads, pollers, the shared status, the daemon. |
| `LocalTunnel` | The way of an upload: viewer, `deliver()`, `pump()`, the handlers, and the descriptors they share. |
| `VideoLoop` | One camera: `video_loop()`, its detection thread, settings and set-stream from the main loop. |
| `UsbGadget` | The USB gadget in configfs and the steps of `FfsGadget` on it: operators on a record. |
| `Application` | The process, composed with the gadget, the boot script and systemd: start, reload and revert, the worker's `create()` and release, kills. Extends `UsbGadget`. |
| `RtspMounts` | Network mode: mounts, the watchdog, the settings and detection that go with a mount's pipeline. |
| `HostBridge` | The viewer's end of the cable: the bridge's three threads between local clients and the device. |
| `Viewer` | The window with its `ControlClient` and `UpdateClient`, and the device that answers them. |
| `SensorTable` | The table of sensors as `vc_mod_ctrl_init()` fills it in. |
| `SensorTiming` | The driver's arithmetic: periods, limits, shutter and trigger counts. |
| `SensorDriver` | The driver's calls over both, with register writes that may fail. |
| `RecordWriterProofs`, `SecureUsbServerProofs`, `SwupdateClientProofs`, `LocalTunnelProofs`, `ApplicationProofs`, `RtspMountsProofs` | Theorems about the module of that name. |
| `CameraProofs` | Theorems about `VideoLoop` and `SensorDriver`: a camera's thread, and the driver below it. |
| `HostSideProofs` | Theorems about `HostBridge` and `Viewer`. |
| `MC*` | Instances for TLC. |

`PROJECT.json` maps each definition to the lines it stands for. Where an action
has the name of a function it stands for that function; the others are named for
what they do.

### RecordWriter

`ordering` is the mutex `ordering_`; the critical section of `enqueue()` is
`Begin`, then `Seal` or `SealFails`, then `Push`. It is split because the
writer and the coordinator run in between; producers cannot, and the proof says
so. `queue` with its own mutex is accessed in single steps. `inflight` is the
record `run()` has popped and not finished writing. A record counts for one
unit of `kQueueLimit`. The cipher is its counter: `make_wire_record()` takes a
sequence number, and it can fail before it has taken one (oversize) or after
(cipher error), which is `nonceBurned`. `wake_until_exited()` is two actions,
`Signal`, which works only if the writer is in the kernel, and `StopReturns`.
The wait of `run()` is one step with two outcomes; the 100 ms timeout makes the
second always possible when the queue is empty.

### SecureUsbServer

A session is named by the ClientHello that opened it, and the state of its
threads is a function of the session, so that a thread which outlives its
session stays visible. `worker` is a program counter over `run()`,
`serve_session()` and `end_session()`: the two halves of the latter, signalling
the writer and joining the threads, are separate steps (`EndSession`, then
`SignalWriter` and `WriterSignalled`, then `Join`), and `after` remembers who
called. `stream` is the inbound `WireBuffer` as items: whole ones, `garbage`, which
ends the session and is discarded with all that follows, and `cut`, a record whose
rest is missing, for which the buffer takes whatever comes next, a ClientHello
too (`FrameCut`). What the buffer does byte by byte is left out. `job` is the closure of
`run_on_main_loop()`. Inside a session the writer's queue is a counter.
`deliver()` holds the tunnel's mutex throughout its write, which is why
`WriterChecks` and `UpdaterCloses` ask where the worker is.

The host (`host-ui/secureusbbridge.cpp`) is reduced to what the device can see of it:
it sends a ClientHello whenever it likes, records once it is answered, reads
when it likes, and can leave without a word. The endpoints can be disabled
under everybody, a bounded number of times.

### SwupdateClient

Every upload has a handler (`handle_connection()`) and a poller
(`poll_completion()`), and all share `state` (`status_.state`). `owner` is a
history variable, the upload whose `try_begin()` succeeded last. The daemon is
external: it accepts one job, may start it, report progress, finish, crash and
come back; it can only succeed with a whole image. It reports to the pollers
that are connected (`inbox`), and its GET_STATUS answer (`Status`) is computed
from its own state when asked. A poller that asks is at a place of its own
(`Asking`) until `poll_status()` returns, because that has no timeout; while the
daemon reads an image from a handler (`StreamsImage`) it need not answer. `waits`
is the poller's own counter, of silences or of polls; it concludes with a failure at
`MaxWaits`, 600 in the code. `install_from_file()` has no caller and is left out.

### LocalTunnel

`sent` is what the viewer (`UpdateClient`) has put into the session, a record
for the header of an upload and one for each chunk. The bridge and the records
in between keep order and lose nothing (`RecordWriter`, `SecureUsbServer`), so
`deliver()` takes them one after another (`arrived`). It is split where other
threads can see it: opening the socket pair (`DeliverOpens`), each part of the
write (`DeliverWrites`), the failure that closes and tries again
(`DeliverFails`). A chunk is written in two parts, because the handler may close
its end when it has read half of it. `table` is the process's descriptor
table. It matters because `pump()` copies `update_` under the mutex
(`TakeSnapshot`) and then polls and reads that number without it (`Poll`,
`ReadBegins`, `ReadReturns`); by then it may be free, another connection's, or a
file of some other thread (`OtherOpens`). `handle_connection()` is a handler for
each connection, from `read_line()` to its cleanup; whether the daemon takes
the image is left open here and is `SwupdateClient`'s subject. There is no
action by which the viewer's closing reaches the device, because there is no
code that does it.

### VideoLoop

`loop` is a program counter over `video_loop()`; the two `SCOPE_EXIT` blocks and
the destructors are `Withdraw`, `Join` and `Count` or `Delay`, in the order in
which they run. The settings of a camera are counted, not modelled: `config` is
how many changes the main loop has made, `launch` how many of them
`video_launch_` has, `running` how many the pipeline works with. A change is
`Change`, `Poke` and `PokeEnds` (`set_source_property()`, with `live_mutex_`),
`RefreshBegins`, `RefreshAssigned` and `RefreshFlags` (`refresh_launch()`). The
assignment to `video_launch_` is not protected from the copy in `describe()`:
a copy made during it may be `Torn`. `lost`, `cut` and `failed` are history
variables for the properties. A camera's frames, the start of a pipeline and
the end of its stream are free choices.

### UsbGadget and Application

The gadget is a record `g`: is there a controller, are the base functions there,
is it bound, is the FunctionFS function made, linked, mounted, and are its
descriptors written. The kernel's two rules are external: a configuration with a
FunctionFS function binds only when the function has descriptors, and closing
`ep0` of a bound one unbinds the whole gadget. `Application` lets three programs
work on it: the boot script (`usb_gadget_start`, `usb_gadget_bind`, tried again
by systemd), the main loop, and the server's worker, whose `create()` is one
action per step (`create_unbind` to `create_bind`). Any step may fail
(`create_fails`, and `create_refused` for what the system refuses by itself), and
the process may be killed at any point. What a start creates is computed by
`start_servers`, a set of outcomes per configuration: in network mode a missing
address or certificate is fatal, a missing discovery is not. A start that gives the
gadget back does so last, in two steps, for it may be killed between taking the
function out and binding what is left (`main` is "binding", then `start_bind`).
`reload()` is two
actions because it joins the worker in between; `reload_restart` holds the
revert, and the revert's failure. `hindered` and `orphaned` are history
variables that name the two premises of the properties.

### RtspMounts

The client thread builds a mount's pipeline (`construct`), hands it to
`on_media_configure()`, plays, pauses and ends it; the streaming thread counts
frames; `on_watchdog` is `check_stall()` over all mounts with `disable_mount()`.
`fresh` is `frames_ # last_frames_`, the only thing the counters are compared for.
A request is a handler on the main loop, a sequence of steps (`Begin`, `Done`)
between which the client thread may act; the watchdog may not, it is on the same
loop. Each handler's order is its own: set-exposure goes to the live source,
then stores, then refreshes the launch string; set-isp stores first; the V4L2
handlers ask the device, which may refuse, and store after that. `config`,
`launch` and `inForce` are the three places of one value. `excused` records why
what is in force may rightly differ: the pipeline was being built during the
request, or something was set past the configuration (set-control, a forgotten
override). `reload` and `restart` start afresh, but a V4L2 device keeps what it had.

### HostBridge

`ui` is the UI thread, in which `start()` and `~Impl()` run and the clients live:
none of them moves while it waits for the worker. The worker's `run()` is split
where others can act: `poll`, then `accept`, `recv_data` or `recv_end`, and
`send_record` for each channel, then `check` and `drain` with `write`. `hits` is
what `poll()` reported, used for a client that may have been replaced since.
Connections of a channel are numbered, so that an answer can be told from an
answer to the connection before. The device answers in order and may be
unplugged. `ControlClient` is there with what tells answers apart: `m_nextId`, which
outlives connections and sessions, `idOf`, the id a connection's request carries, and
`m_pending`. The bridge hands an answer to whoever holds the port; the callbacks
that are called are those whose id it carries (`CallbacksFor`), and `answered` records
with what. `missed` are the channels whose client was accepted after `~Impl()` shut
the others down.

### Viewer

Qt runs one handler at a time, so each is one action; callbacks, timers, the two
TCP connections and the device interleave. A single shot is counted
(`pollTimers`, `rebootTimers`), because several may run and none is cancelled.
`late` are requests of an aborted connection that the device handles after a new
one is open. `watched` is history: an upload ended with the box ticked, and
neither the box nor the connection has changed since.

### SensorTable, SensorTiming, SensorDriver

`SensorTable` translates the table, sensor by sensor; a clock that comes from
the module's EEPROM is `EEPROM` and filled in by the board. `SensorTiming` is the
arithmetic as pure operators. The code multiplies in 64 bits before it divides;
`MulDiv` and `FrameLines` give the same integers without the large product, as
TLC's are of 32 bits; `CountMax`, the largest trigger count, is 2^31 - 1 in the
run for the same reason, where the code's is 2^32 - 1. `SensorDriver` has an action for each call of the V4L2
framework and of the I2C core. `st` is `vc_state`, `limit` what the controls
offer, `hw` the registers in groups. The set F of groups whose write fails is
chosen for each call (`Failures`): none, one, or all. The order of the code
decides what such a call returns (`Reported`, `Failed`), and after it the
register is `Unknown`. `Reset` is what a register holds after power-up. Shutter and
frame length have the width of the sensor's registers, and what is written is the
value's lower bytes (`Low`, from `i2c_write_reg4()`); `vc_state` keeps the whole
value (`st.shs`, `st.vmax`). `Images` are those a call may be about: the first one of
the device tree, or, when the channel bypasses the VI for the ISP, that of the mode
`sensor_mode_id` names, with its binning if the tree gives one. A setting the code
refuses (binning, trigger, I/O, format) is an outcome of the call that reports an error.

## 3. The runs

| Run | Question | Bounds | States | Result |
|---|---|---|---|---|
| `record_writer` | Is what the host takes what was sealed, in order, and can the writer be stopped? | 3 producers (2 droppable, 1 fatal), queue limit 2, 4 seals | 64 000 | passes |
| `usb` | Does any thread or record of a session survive it; do sessions come down, `stop()` return, cameras stop, hosts get answers? | 1 camera, queue limit 1, 2 ClientHellos and 1 other item from the host, 1 reset of the endpoints | 287 000 | passes |
| `swupdate` | Has the status one writer, does busy end, is a refusal a failure? | 2 uploads, 1 chunk, 2 silences or polls, 2 unread messages, 1 crash | 1 090 000 | passes |
| `tunnel` | Does the tunnel own what it closes, do uploads and sessions end? | 2 uploads of a header and a chunk of 2 parts, 2 connections, 5 descriptors, 1 opened elsewhere | 199 000 | passes |
| `video` | Is a pipeline used only while it is up, are settings flagged, does the camera stop and come back? | 2 sessions, 2 changes, 2 calls of set-stream, `kBarrenLimit` 3 as in the code | 220 000 | passes |
| `application` | Do the servers match the configuration, and does the gadget survive failures, kills and reloads? | none: finite as it is | 12 000 | passes |
| `mounts` | Does the watchdog find the silent and only them, are settings in force? | 2 cameras, both V4L2 or one on Argus, 1 with detection, `kStallChecks` 2, 2 values, 2 requests per server | 1 009 000 | passes |
| `bridge` | Does the USB handle outlive its users, do answers find who asked, does the destructor return? | 2 channels with 2 connections and 1 per session, 2 control requests in all, 1 buffered record | 657 000 | passes |
| `viewer` | Does anything act for a connection that is gone, does an update end in its reboot, does an upload end? | 2 panes, file of 2 chunks, buffer of 1, a request or an upload of the user only when none waits | 264 000 | passes |
| `driver` | Do registers and `vc_state` agree over sequences of calls with failing writes? | 3 boards (IMX296, IMX565, IMX412), 1 call with failures | 395 000 | passes |
| `swupdate_success`, `mounts_detection` | Does what a document says hold? | as `swupdate` with 1 upload, as `mounts` | | violated; section 6 |

Why the bounds are enough. In `record_writer` the two droppable producers can
both find the last free place, and the third overruns the limit, so every order
of check, seal and push with a full queue occurs; four seals are two more than
the queue holds. In `usb` two ClientHellos are one session that replaces
another, and the item before, between or after them, which does not count as one of
them, can be a request, an upload, a hello that is refused, garbage or a cut record:
the second hello comes while the worker waits for the main loop, while `deliver()`
waits for the update server, and behind each of the others. A session is symmetric
to every other except for its place, so a third adds none, and the proof covers them all. One camera is enough for what is
checked of it, that it ends. The reset is in the same run as liveness, since what
must end must also end when the endpoints go away under it.
In `swupdate` two uploads suffice for one to overtake another, one crash
falls at every point, and a poller that counts to two has a silence that is not its last. In `tunnel` a chunk of two parts can fail in the middle
and be sent again, a second upload can meet the first one's connection, and the
second connection and the foreign file can get the numbers that the pump still
holds; five descriptors are enough for all of them at once. In `video` a
second change can fall into any step of the first one's rebuild, and what
survives a session (`relaunch_`, `stream_enabled_`, `video_launch_`) meets the
next. In `application` nothing is counted: every sequence of starts, reloads,
failures and kills is in the graph. In `mounts` one camera dies while the other
serves, which is what `on_watchdog()` tells apart; two periods are the smallest
limit that is not reached at once; the second request meets a setting that the
first left. In `bridge` the first channel's client can be replaced while the
second channel's is being served, at every step of the worker, and its second request is
of the same session or of the next. In `viewer` the
buffer is smaller than the file, so the top-up is needed, and the disconnect of
one session meets the connect of the next. With one more request or timer, the
graph is more than ten times as large; what that would add is several requests of
one kind in flight, which the chain of status polls already has. In `driver` the
boards are one with gain and binning whose row has registers of its own and that
has no master, one with two formats of different timing and black levels, and one
that is a slave and has exposures in its own clock; the requests include the longest
exposure, a frame rate whose frame the IMX412's two vmax registers do not hold
(1000 mHz) and one that they do, a gain past the sensor's, and formats, trigger
modes and binnings the board does not have.

Bounds that the code does not have are guards on the action of the environment or
the producer that advances the counter: `MaxSeals`, `MaxHellos`, `MaxItems`,
`MaxRecycles`, `MaxReports`, `MaxCrashes`, `MaxUploads`, `MaxConns`, `MaxOthers`,
`MaxSettings`, `MaxToggles`, `MaxSessions`, `MaxRequests`, `MaxClients`,
`MaxInbound`, `MaxPending`, `MaxTimers`, `MaxFaults`. `MaxWaits` is a constant of the
code, 600 there.

Deadlock is checked in `mounts`, where there is always a reload or a restart.
Elsewhere it is not: those systems rightly stop, when the session has ended, the
service has stopped, every upload is closed, the bound of the environment is
reached, or nobody does anything any more.

## 4. Properties

`PROJECT.json` states for each run which it checks; each has its comment in the
module. A module's `TypeOK` is proved, or checked by a run, or kept for the
reader.

* `WireOrderIsSealOrder` (refinement of `SecureChannel`), `PeerInSync`: the wire
  carries what was sealed, in nonce order.
* `QueueBounded`: only replies and update data may sit behind `QueueLimit`
  records, however many producers pass the check at once.
* `SilentAfterStop` (proved): after `shutdown()` nothing is written, even by a
  writer that had not started.
* `StopEnds`, `EverySealDelivered`: stopping ends with a host that never reads;
  to one that reads everything is delivered.
* `NoThreadOutlivesSession`, `OfferedUnderLastHello`: no thread or record of an
  old session meets a new one.
* `TeardownEnds`, `StopHangsOnlyInHandlers`, `DepartureReleasesCameras`,
  `ReconnectIsAnswered`: what always comes to an end, with the exceptions the
  code really has written into the formula.
* `PollerOwnsStatus`, `BusyHasAnEnd` (proved), `FailureIsReported`, `BusyEnds`:
  the status has one writer, busy always has a thread that will end it, and with
  a daemon that stays up a refused image is not a success. `BusyEnds` has two
  exceptions: a daemon that reports progress for ever, and `Unanswered`, a host that
  stalls in the middle of its image and with it the daemon's answers.
* `DescriptorIsOwn`: whatever the pump's copy names by now, the tunnel closes
  only its own end of the newest connection and loses none.
* `UploadEnds` (tunnel): an upload that is not cancelled, and starts when the last
  one is over on the device too, ends for the viewer. The formula leaves out one
  case the code really has: `deliver()` closes the connection of a failed upload
  before the pump has read the reply. `orderly` records the premise.
* `SessionEndReachesAll`: the pump and all handlers end with the session.
* `NothingOutlivesPipeline`, `StaleIsFlagged`, `GivenUpForAReason`: what the
  video loop, the detection thread and the main loop may assume of each other.
* `SessionEndFreesCamera`, `StreamComesBack`: the camera is released when it
  should be, and comes back unless it was given up.
* `ServersMatchConfig`: RTSP and secure USB never run together, and what runs is
  what the configuration says, through reloads that fail and reverts.
* `TakeOverFromAnyState`, `NetworkModeIsReachable`: whatever a killed process
  left, `create()` fails only for a reason of its own, and network mode gets its
  function back unless the gadget was left without a trace of who unbound it.
* `OnlySilentIsDead`, `SilentIsDisabled`: the watchdog in both directions. The
  first is an action property over a history of silence that the code does not keep.
* `SettingsAreInForce`: after every request the three places of a value agree,
  wherever the client thread's steps fell.
* `HandleOutlivesThreads`, `FailureEndsSession`, `DestroyEnds`: the end of a
  bridge, however it comes; the last names the one case in which it does not come.
* `AnswerIsOwn`: a control callback gets the answer to its own request though
  the bridge hands answers to whoever holds the port. What makes it true is that
  `m_nextId` goes on over connections and sessions; the mutant begins it anew.
* `IdleWhenOffline`, `AutoReboots`, `UploadEnds` (viewer): late answers and
  timers do nothing for a connection that is gone; the chain from an upload to
  its reboot is not broken by any state in between; the bounded buffer is always
  topped up.
* `SuccessMeansWritten`, `InSyncUnlessTold`: a start that returns 0 has written
  window, exposure and I/O, whatever failed before; as long as nothing has been
  reported, mode, gain, black level and the row's registers too.
* `ShutterInsideFrame`, `LimitsSettle`: as long as the computed frame fits the
  sensor's registers, exposure and frame length in them fit together; the second of two equal calls leaves the limits of the
  settings in force.

For each property `PROJECT.json` has a mutant, a small change to a modelled
definition of the kind a programmer could make, which breaks it.

## 5. Fairness

Only what the system schedules is fair. `RecordWriter`: a producer inside
`enqueue()` leaves it, the writer thread goes on, a coordinator that signals goes
on (the scheduler runs them and none holds a lock for ever). `SecureUsbServer`:
the same for the main loop, the worker, the writers and helpers, and a read
completes if data has arrived; time passes for a host that is gone.
`SwupdateClient`: pollers read what there is and count their silences; a request and
a GET_STATUS get an answer or an error, but only while the daemon reads no image.
No host has to send its image to the end, and no handler to leave one. `LocalTunnel`:
worker, pump and handlers run, and a viewer that is streaming goes on and reads
its replies; it need not start, or refrain from cancelling. `VideoLoop`: the
three threads run, and `pump()` and `pump_raw()` return within their timeouts;
no camera has to produce. `Application`: the controller is probed in the end,
systemd retries script and service, the main loop and the worker go on; no
reload, kill or failure has to come. `RtspMounts`: the main loop ends a handler
it has begun (weak), and its timer is dispatched however many requests compete
(strong: GLib serves sources of one priority in turn, and a timer that is due
does not go away). `HostBridge`: the worker runs, a transfer times out, the UI
thread comes back from what does not wait for the worker, and a client that has
connected writes what it came for. `Viewer`: Qt delivers callbacks and fires
timers, the device answers, an installation ends; nothing makes the user act or
a connection fail. Nothing makes the host read or send, the daemon work, update
data be taken, or anyone stop the service. Where a property needs the host to
read (`EverySealDelivered`, `ReconnectIsAnswered`), the assumption is in the
property's own formula. `SensorDriver` has no liveness: its calls are sequential.

## 6. Where code and words differ

Two runs state what a document says and end in a counterexample.

* `swupdate_success` (`SuccessMeansInstalled`): Success can be reported for an
  image that was not installed, over GET_STATUS before the daemon has begun, or
  when it crashes after START.
* `mounts_detection` (`ModelMeansDetection`): `refresh_launch()` builds the
  launch string without the detection branch that `start()` put in. After a setting
  that is put into it (set-zoom in the run; exposure, gain and ISP go the same way) the next
  pipeline of a camera with a model has no detection, until `start()` runs again, at
  a reload or a restart.

Further statements are definitions of the modules that no run checks; each is
false of its model, as TLC finds at once when it is made a property of the run
named.

* `StopReturnsAlways` (`usb`): `stop()` can hang. The worker waits in
  `run_on_main_loop()` for a closure that the main loop will not run because it is
  inside `reload()`, in `stop()`. Signals do not end a wait on a condition variable.
* `SilenceStopsCameras` (`usb`): the silence watchdog is asked between records
  only. If the viewer leaves while a record is in the endpoint the cameras stay up.
* `OneConnectionOneUpload` (`tunnel`): the connection of a cancelled upload stays
  open on the device, since nothing tells it. The header of the next upload is
  read by the old handler as image data. (Until then `update_` is open, which
  also keeps the silence watchdog from ending the session.)
* `RefreshIsSeen` (`video`): settings that change between `describe()` and
  `relaunch = false` are lost for the pipeline that is being built.
* `OnlyAbsentIsGivenUp` (`video`): a pipeline that is rebuilt or stopped before
  its first frame counts as barren; after three in a row a healthy camera is
  given up, and set-stream cannot bring it back before the next session.
* `FailureKeepsBase` (`application`): "Failure to expose the optional FunctionFS
  interface must never take down the established NCM RTSP path"
  (`Application.cpp:308`). When `create()` fails after it has linked the
  function, what it restores cannot be bound, and the device has no USB network.
* `VisiblePlays` (`viewer`): "selecting the other camera opens that stream on
  demand" (`docs/HOST-UI.md:41`). When discovery or a status answer fills the
  list, the pane that comes on top is not started.

Others were met while modelling. They are in the models as the code has them, or
just outside.

* *SIGUSR1* gets its handler in the worker thread, so `stop()` right after
  `start()` can send it with the default action and end the process
  (`SignalWorker` before `WorkerStarts`).
* *Update client*: "so we don't block forever if swupdate crashes or hangs"
  (`SwupdateClient.cpp:497`) is said of the progress socket only. `poll_status()` reads
  the control socket without a timeout (287), and the code's own comments say that
  this blocks while an image streams (472, 632). A host that stalls in the middle of
  its image leaves a poller that asks, and the client with it, busy for ever.
* *Secure USB*: a ClientHello is looked for at the front of the inbound buffer only. One
  behind garbage is discarded with it; one behind a record that was cut short is taken for
  its rest (`SecureUsbServer.cpp:955`), until the host's silence ends the session.
* *Application*: the detection sink looks its `ControlServer` up and then posts
  the raw pointer to the main loop (`Application.cpp:128`, 137), where a reload
  may have freed it. Not modelled.
* *Mounts*: a request is answered with success though the pipeline that is being
  built during it misses it (`excused`). Set-sync checks all sources first, but
  stores camera by camera, and a device that refuses leaves the ones before it
  changed (`TriggerHandler.cpp:59`). A pending snapshot is replaced by the next
  request (`Snapshot.cpp:34`).
* *Bridge*: `run()` uses the events polled for one client on the client that
  replaced it (`secureusbbridge.cpp:484`); `~Impl()` reads the worker's table of
  clients while the worker writes it, and hangs on a client accepted after its
  sweep (402-409).
* *Viewer*: the Calibrate button is enabled by nothing while the viewer is
  connected (`mainwindow.cpp:587`, 646, 826), so calibration is not modelled; if
  it could start, one that ends at once would leave the status poll stopped
  (408-411). "No dark reconnect" (627) fails when the set-stream of a disconnect
  arrives after that of the next connect (`handleLate`). The poll of an update is
  not taken up again after a reconnect, so its reboot is lost; a reboot timer
  that is running fires at whatever device is connected by then.
* *Driver*: the errors of `i2c_write_regs()` are dropped, and of the operating
  mode's two registers only the low one's error is kept (`vc_mipi_core.c:1361`),
  so a start can report success with a sensor in the wrong mode. Gain and
  black level are written again only by a start that resets the module, and the
  next start does not reset it if mode and binning are the new ones already, so
  what failed in between stays unwritten. `former_binning_mode` takes the new
  value whatever failed. A black level scaled for a format that is taken back stays. After ten
  attempts `vc_mod_wait_until_module_is_ready()` gives up and returns 0 all the
  same. A frame of more lines than the sensor's registers hold is written without its
  upper bytes (`vc_mipi_core.c:225`), and the shutter may then lie outside it:
  `framerate.min` is 0 (551), so that 1000 mHz asks the IMX412, with two bytes of vmax, for 123 854
  lines, of which 58 318 arrive. The gain is scaled from the control's range without
  its minimum (`vc_mipi_camera.c:387`). `vc_probe()` returns 0 when it failed, and `vc_remove()` dereferences what
  is not there (`vc_mipi_camera.c:994`); the model ends there. At the ends of the
  ranges, outside what the boards of the run ask for: 60 mHz on the IMX296 gives a
  vmax of more than 20 bits, IMX226's longest exposure overflows the trigger
  count, and a very low rate in SELF mode wraps the retrigger count.

## 7. Proofs

All hold for every value of the constants that satisfies the module's
assumption (`ConstantsAssumption`, `MountsAssumption`, `BridgeAssumption`,
`ViewerAssumption`; the application needs none; for the driver see below), and
use nothing else. Each invariant below is kept by every step, by one lemma with one case per
action. Every safety property and every action property that a passing run
checks is proved; what is left to TLC holds under fairness. Of three of those the
safety half is proved too: that something is always under way.

`RecordWriterProofs`, from type correctness (`TypeCorrect`) upwards:

* *LockInv*: a producer is between its limit check and its push exactly when it
  holds `ordering`. This is what makes the others inductive: the queue cannot
  grow between check and push.
* `QueueIsBounded` proves `QueueBounded`. That is not inductive alone, since
  nothing in it says that a producer about to push found room; *RoomInv* adds that the
  holder of the lock, if droppable, still has room. The writer only shortens the queue.
* `StoppedIsSilent` proves `SilentAfterStop`, by *StopInv*: a stopped session
  is dead, and its writer has exited or not begun.
* `OrderInvariant` and `WireOrder` prove the refinement. *OrderInv*: the sealed records are the
  delivered, the one in flight, the queued and the one being pushed, in this order,
  until the writer drops one by failing, after which it never delivers again.
* `PeerStaysInSync` proves `PeerInSync`, from the order and *NonceInv*: without a
  burned nonce the i-th sealed record has number i - 1.

`SecureUsbServerProofs`: `TypeCorrect`, and `EveryThreadIsJoined` and
`OnlyLastKeysAreOffered` from one invariant, *SessionInv*. What the two properties
leave out is where the worker is: it answers a ClientHello only without a
session, so that `end_session()` has joined by then; it signals and joins only a
session there is; and a session that is up is the one whose hello was answered
last. With that, a thread that runs is the current session's, and so is a record
in the endpoint. The number of sessions and cameras does not enter.

`SwupdateClientProofs`: `OnePoller` and `NeverBusyForNobody` prove
`PollerOwnsStatus` and `BusyHasAnEnd` from one invariant (`StatusInvariant`).
The strengthening: a handler waiting for the daemon's ACK owns the status, which is busy, and
has no poller yet; and an upload has no poller before its handler has got that far.
`FailureIsNoSuccess` proves `FailureIsReported` by *TruthInv*, which speaks of the
daemon as long as it has not crashed: it has one job at a time; an upload that has
not asked has heard nothing; a poller that listens hears of its own job, whose end
the messages in its inbox agree with. That a success was heard is not enough in
itself: what is read from the inbox has to be about the upload's own job, and
that takes all three.

`LocalTunnelProofs`: `TunnelOwnsWhatItCloses` proves `DescriptorIsOwn` by
*DescriptorInv*: `update_`, when set, is the tunnel's end of the newest
connection; no other number holds a tunnel's end; and it is set exactly where
`deliver()` relies on it. The lemma *GivenOut* says that the lowest free numbers
are free and different, which is all that `socketpair()` promises.

`CameraProofs`, part 1, on `VideoLoop`: type correctness, and each safety property
of the `video` run from an invariant of its own. *PhaseInv* says which of pipeline, sinks, detection thread, published
source and status exist at which point of the loop; the part that makes
`NothingOutlivesPipeline` inductive is that a handler which uses the source
excludes its withdrawal. *FlagInv* relates the three counts of settings while the
main loop is between two of its steps, which `StaleIsFlagged` does not look
at. *ReasonInv* carries the reason of a barren pipeline from its end to the count.

`ApplicationProofs`: `ServersFollowConfig` proves `ServersMatchConfig`; the lemma
*StartedRight* says what every outcome of a start leaves. `TakeOver` proves
`TakeOverFromAnyState` by *GadgetInv* (the base functions are there before any
process runs, and a controller stays) and *CreateInv* (unless it was hindered, the
gadget is unbound from `create()`'s first step to its last). `BoundGadgetsAreComplete` adds *LinkInv* and proves `BoundIsComplete`: a
gadget that is bound is one the host can enumerate.

`RtspMountsProofs`: `OnlyTheSilentDie` proves `OnlySilentIsDead` by *CountInv*:
the code's counter of stalls never runs ahead of the silence, which it cannot see.
`SettingsStay` proves `SettingsAreInForce` by *RequestInv*, which lists the stages a
request can be in, and *SettingInv*, which says at each of them which of
configuration, launch string and source have the new value already: while a
request is under way they differ, and each handler's order differs.

`CameraProofs`, part 2, on `SensorDriver`, for every board that `BoardKnown`
describes: any sensor of the table, any EEPROM whose modes have rows there and
which gives the clocks the table has not, any image size. `TableWellFormed` is a
statement about the table as it is in the source; TLC evaluates it, and the proofs
need nothing else of its 26 sensors. `DriverAssumption` also says that the clocks
leave a line of a microsecond at least (below that, `vc_core_update_controls()`
divides by 0). Requests are any natural numbers.

* `DriverTypeCorrect` proves `DriverTypeOK` by *BoardInv*. `DriverTypeOK` is not
  inductive: it allows formats, lanes and binnings that no row of the table has, and
  for those `RowOf` is nothing. *BoardInv* keeps the settings inside what the sensor
  has (`SettingsOK`), so that each call finds a row (lemma *RowFound*); *FrameLong*
  then keeps the unsigned subtractions of the frame length above 0.
* `ShutterFitsFrame` proves `ShutterInsideFrame`. The numbers are the lemma *ShutterFits*,
  for a row, a frame rate and an exposure at large. The registers hold their lower
  bytes only (`Low`), so an invariant relates the two to the values `vc_state` was left with:
  each register is those bytes, unless its write failed and left it unknown, or a
  reset cleared it. For values that fit, `Low` is the identity (*LowFits*); where they
  do not, nothing is claimed, because nothing holds.
* `LimitsAreSettled` proves `LimitsSettle` by *SettledFor*: after a call for a format
  the settings are those that this call makes of any settings. The first of two calls
  computes the limits too early, the second finds nothing to change.
* `StartHasWritten` proves `SuccessMeansWritten`. It is one step, `vc_start_streaming()`,
  and the proof is about its sequence of writes: none that comes later touches a
  register of an earlier one, but for the frame length, and what is reported is any
  failure among them.
* `SyncUnlessTold` proves `InSyncUnlessTold` by *SyncInv*, which holds between starts
  too: the registers that a start does not always write are already in step, from
  the first mode on; and while `former_binning_mode` is 0 the row's registers are
  those of the reset. Each setter that writes one of them without failing keeps it, and
  a reset that clears them is followed by the others.

`HostSideProofs`: `HandleIsLast` proves `HandleOutlivesThreads` by *ThreadInv*:
the worker is there from the ServerHello until it is joined, and ends only after
the reader. `AnswersAreOwn` proves `AnswerIsOwn` by *CallsInv*: every id that was given
is below `m_nextId`, no two requests of a session have the same, and only one that has an id waits for
its callback. `OfflineIsIdle` proves
`IdleWhenOffline`, which needs only the range of `m_active` to be inductive. Most
handlers are *Quiet*: they leave the connections alone and send only where there
is one; the others are those that open and close connections. Beyond what the runs
check:

* `BridgeTypeCorrect` by *BridgeInv*: `accept()` takes the head of a backlog without
  looking, which is right because what `poll()` announced stays there until the loop
  has come to it (*Announced*), and nobody else takes from it. `ViewerTypeCorrect` by
  *ViewerInv*, which types the queues of requests and answers.
* `DestroyIsNotHeldUp`, the safety half of `DestroyEnds`: while `~Impl()` is joining
  the worker, a client that the worker reads from or writes to has been shut down, and
  a reader that it joins has ended or been told to. The exception is the client
  accepted after the others were shut down, as in `DestroyEnds`. *WaitInv* follows
  the clients: none that is open when the join begins is outside `cut` and `missed`.
* `UploadNeverStarves`, that of the viewer's `UploadEnds`: while the file has not left,
  a chunk is on its way, whose `bytesWritten()` sends for more. It holds for every
  size of file and buffer, with the top-up after the acknowledgement and after each chunk.
* `UpdateNeverForgotten`, that of `AutoReboots`: from the end of an upload with the box
  ticked, a request, an answer or a timer that leads to the reboot is always
  there, as long as connection and box stay and the installation has not failed.
  *FollowInv* adds that such an update is on a connection and known to the device.
  The liveness property then needs fairness only to say that what is under way arrives.

Model-checked only:

* the properties that hold under fairness (`StopEnds`, `EverySealDelivered`,
  `TeardownEnds`, `StopHangsOnlyInHandlers`, `DepartureReleasesCameras`,
  `ReconnectIsAnswered`, `BusyEnds`, the two `UploadEnds`, `SessionEndReachesAll`,
  `SessionEndFreesCamera`, `StreamComesBack`, `NetworkModeIsReachable`,
  `SilentIsDisabled`, `FailureEndsSession`, `DestroyEnds`, `AutoReboots`): liveness
  and ENABLED are out of the prover's reach;
* the shape of the state of the application, tunnel and mounts (`TypeOK`), which
  their proofs do not need as a whole and no run spends a property on;
* that `TableWellFormed` is true of the table: TLC evaluates it. (Induction over data is
  out of the prover's reach; a proof would be the same enumeration.)

## 8. Not modelled

* Cryptography is taken for granted. Of the framing, items of the inbound stream
  are whole, garbage or cut short: `WireBuffer`'s bytes (among them `skip_zero_padding()`,
  `SecureWire.cpp:24`, which can also skip what is not padding) are sequential
  and a unit test reaches them.
* Configuration parsing, pipeline text, discovery, the wrappers of GLib, V4L2,
  procfs and systemd, and the image build keep no state worth a model.
* Snapshots, in both modes; `set_spec()`, `install_from_file()` and
  `run_install()`, which nothing calls.
* Addresses and TLS of the network servers; metrics, ping and status text.
* Decoders, panes' drawing and the seeding of widgets in the viewer; settings
  whose answers change nothing there; calibration.
* In the driver: sysfs, the controls that are compiled for other boards, the
  decoding of the EEPROM.
* Two locks that are not there: V4L2 controls and `s_stream` share none, so that
  two calls of the driver may overlap. `SensorDriver` runs one at a time.

## 9. What is left

1. `HostBridge` composed with `SecureUsbServer` as its device, in place of the
   free device and host that each has now.
2. `WireFraming`: `WireBuffer` as functions on sequences of bytes, against a
   reference parser over bounded inputs; the handshake's retries on both ends.
3. Snapshots in `VideoLoop` and `RtspMounts`.
4. Overlapping calls of the driver.
5. Theorems: the type invariants of application, tunnel and mounts; the safety halves
   of the other liveness properties, such as what keeps the device's `UploadEnds`,
   `TeardownEnds` and `StreamComesBack` from losing their only wake-up.
