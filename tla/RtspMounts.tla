----------------------------- MODULE RtspMounts -----------------------------
(* Network mode: one mount per camera, the stall watchdog over them, the face detection
   that goes with a mount's pipeline, and the requests that change a camera's settings
   (RtspServer, MountController, the sources and the control handlers that use them).
   Four kinds of thread meet here: the library's client thread builds and ends a pipeline,
   the pipeline's own thread counts its frames, the detection thread takes samples, and
   the main loop runs the watchdog and the requests, one at a time.

   External: the library (one shared pipeline per mount, built for a first client and
   ended with the last one), the sensors and their driver, systemd. Frame counters are
   compared with their last value only: fresh says whether they differ. One setting
   stands for exposure, gain, an ISP property or, on the V4L2 path, the trigger mode. *)
EXTENDS Naturals, Sequences, FiniteSets, FiniteSetsExt

CONSTANTS
  Cameras,        \* the enabled cameras, by index
  kStallChecks,   \* watchdog periods without a frame after which a camera is dead
  Detecting,      \* the cameras whose launch string start() gives a detect branch
  Sources,        \* the configurations to start from: which source each camera has
  Values,         \* what a setting may be
  Unset,          \* the value the configuration file leaves it at
  MaxRequests     \* bound: requests that a server is sent

ASSUME MountsAssumption ==
  /\ IsFiniteSet(Cameras) /\ Cameras # {} /\ Cameras \subseteq Nat
  /\ kStallChecks \in Nat \ {0}
  /\ Detecting \subseteq Cameras
  /\ Sources \subseteq [Cameras -> {"argus", "v4l2"}] /\ Sources # {}
  /\ Unset \in Values /\ MaxRequests \in Nat

VARIABLES
  source,     \* cam.source
  media,      \* the mount's pipeline: "none", "built", "ready" (described or paused),
              \* "playing", "stuck" (playing, but nothing comes out any more)
  known,      \* MountController::media_ and source_ are set
  dead,       \* disabled by the watchdog
  fresh,      \* frames_ # last_frames_, of a camera that is mounted
  stalled,    \* stalled_checks_
  exited,     \* the stall handler ended the process
  branch,     \* the factory's launch string has a detect branch
  detection,  \* of the pipeline: "none", "branch" (it has one), "thread" (and it is read)
  config,     \* the setting in the configuration
  launch,     \* the setting in the factory's launch string
  inForce,    \* the setting of the pipeline's source element, or of the V4L2 device
  asked,      \* requests so far
  request,    \* the request the main loop is in: what it does next, for which camera
  quiet,      \* history: watchdog periods in a row that found it playing, since its last frame
  excused     \* history: what is in force was set without the configuration, or missed a
              \* request: until the pipeline is built again, or the device is set again

mount == <<media, known, detection>>
checks == <<dead, fresh, stalled, exited, quiet>>
settings == <<source, branch, config, launch, inForce, asked, request, excused>>
vars == <<mount, checks, settings>>

Idle == [step |-> "idle"]
Busy(c) == request.step # "idle" /\ c \in request.cams

-----------------------------------------------------------------------------
(* The client thread. *)

(* A first client: the factory parses its launch string. The mount of a dead camera
   answers 404. *)
construct(c) ==
  /\ ~exited /\ media[c] = "none" /\ ~dead[c]
  /\ media' = [media EXCEPT ![c] = "built"]
  /\ detection' = [detection EXCEPT ![c] = IF branch[c] THEN "branch" ELSE "none"]
  /\ IF source[c] = "argus"
       THEN /\ inForce' = [inForce EXCEPT ![c] = launch[c]]
            /\ excused' = [excused EXCEPT ![c] = Busy(c)]
       ELSE UNCHANGED <<inForce, excused>>
  /\ UNCHANGED <<known, checks, source, branch, config, launch, asked, request>>

(* on_media_configure(): the mount takes note of pipeline and source, and starts the
   detection thread if the pipeline has the branch. *)
on_media_configure(c) ==
  /\ ~exited /\ media[c] = "built"
  /\ media' = [media EXCEPT ![c] = "ready"]
  /\ known' = [known EXCEPT ![c] = TRUE]
  /\ detection' = [detection EXCEPT ![c] = IF @ = "branch" THEN "thread" ELSE @]
  /\ UNCHANGED <<checks, settings>>

(* PLAY and PAUSE. *)
set_state(c) ==
  /\ ~exited /\ media[c] \in {"ready", "playing", "stuck"}
  /\ media' = [media EXCEPT ![c] = IF @ = "ready" THEN "playing" ELSE "ready"]
  /\ UNCHANGED <<known, detection, checks, settings>>

(* The last client leaves: on_media_unprepared() joins the detection thread. *)
on_media_unprepared(c) ==
  /\ ~exited /\ media[c] \in {"ready", "playing", "stuck"}
  /\ media' = [media EXCEPT ![c] = "none"]
  /\ known' = [known EXCEPT ![c] = FALSE]
  /\ detection' = [detection EXCEPT ![c] = "none"]
  /\ IF source[c] = "argus"
       THEN inForce' = [inForce EXCEPT ![c] = Unset] /\ excused' = [excused EXCEPT ![c] = FALSE]
       ELSE UNCHANGED <<inForce, excused>>
  /\ UNCHANGED <<checks, source, branch, config, launch, asked, request>>

(* The sensor or its pipeline stops delivering. *)
wedge(c) ==
  /\ ~exited /\ media[c] = "playing"
  /\ media' = [media EXCEPT ![c] = "stuck"]
  /\ UNCHANGED <<known, detection, checks, settings>>

mounted(c) == ~dead[c]

(* The pipeline's thread: on_payload_buffer() counts a frame once, at its first packet. *)
on_payload_buffer(c) ==
  /\ ~exited /\ media[c] = "playing"
  /\ fresh' = [fresh EXCEPT ![c] = mounted(c)]
  /\ quiet' = [quiet EXCEPT ![c] = 0]
  /\ UNCHANGED <<mount, dead, stalled, exited, settings>>

-----------------------------------------------------------------------------
(* The watchdog, a timer of the main loop. *)

(* Does check_stall() have a playing pipeline without a new frame before it? *)
Suspect(c) == mounted(c) /\ known[c] /\ media[c] \in {"playing", "stuck"} /\ ~fresh[c]

\* Mutant: a period that is no stall does not start the count again.
CountedOn(c) == IF Suspect(c) THEN stalled[c] + 1 ELSE stalled[c]

\* Mutant: the count does not go past the first silent period.
NeverTwice(c) == IF Suspect(c) THEN 1 ELSE IF mounted(c) THEN 0 ELSE stalled[c]

(* stalled_checks_ after check_stall(). *)
Checked(c) ==
  IF Suspect(c) THEN stalled[c] + 1 ELSE IF mounted(c) THEN 0 ELSE stalled[c]

(* on_watchdog(): every mount is checked, a stalled one is disabled; when none is left
   the stall handler ends the process. *)
on_watchdog ==
  /\ ~exited /\ request = Idle
  /\ stalled' = [c \in Cameras |-> Checked(c)]
  /\ dead' = [c \in Cameras |-> dead[c] \/ (Suspect(c) /\ Checked(c) >= kStallChecks)]
  /\ known' = [c \in Cameras |-> known[c] /\ ~dead'[c]]
  /\ fresh' = [c \in Cameras |-> FALSE]
  /\ exited' = \A c \in Cameras : dead'[c]
  /\ quiet' = [c \in Cameras |->
       IF dead[c] \/ media[c] \notin {"playing", "stuck"} THEN 0
       ELSE IF quiet[c] < kStallChecks THEN quiet[c] + 1 ELSE quiet[c]]
  /\ UNCHANGED <<media, detection, settings>>

-----------------------------------------------------------------------------
(* Requests: each is a handler on the main loop, between whose steps the client thread
   may build a pipeline or end one. A handler's steps are the rest of the sequence. *)

Begin(steps, c, v) ==
  request' = [step |-> Head(steps), rest |-> Tail(steps), cams |-> {c}, value |-> v]

Done(r) == IF r.rest = <<>> THEN Idle ELSE [r EXCEPT !.step = Head(r.rest), !.rest = Tail(r.rest)]

Ask == ~exited /\ request = Idle /\ asked < MaxRequests /\ asked' = asked + 1

(* set-exposure and set-gain, argus: the live source, the configuration, the launch. *)
set_exposure(c, v) ==
  /\ Ask /\ source[c] = "argus"
  /\ Begin(<<"source", "config", "launch">>, c, v)
  /\ UNCHANGED <<mount, checks, source, branch, config, launch, inForce, excused>>

(* set-isp: the configuration first. Forgetting an override leaves the live source. *)
set_isp(c, v) ==
  /\ Ask /\ source[c] = "argus"
  /\ Begin(IF v = Unset THEN <<"config", "launch">> ELSE <<"config", "source", "launch">>, c, v)
  /\ excused' = [excused EXCEPT ![c] = @ \/ (v = Unset)]
  /\ UNCHANGED <<mount, checks, source, branch, config, launch, inForce>>

(* set-zoom: for the next pipeline only, of either source. *)
set_zoom(c) ==
  /\ Ask
  /\ Begin(<<"launch">>, c, config[c])
  /\ UNCHANGED <<mount, checks, source, branch, config, launch, inForce, excused>>

(* set-exposure, set-gain and set-trigger on the V4L2 path: the device, then the
   configuration. *)
set_trigger(c, v) ==
  /\ Ask /\ source[c] = "v4l2"
  /\ Begin(<<"device", "config">>, c, v)
  /\ UNCHANGED <<mount, checks, source, branch, config, launch, inForce, excused>>

(* set-sync: after a look at every source, one camera after the other. *)
set_sync(v) ==
  /\ Ask /\ \A c \in Cameras : source[c] = "v4l2"
  /\ request' = [step |-> "device", rest |-> <<"config", "next">>, cams |-> Cameras, value |-> v]
  /\ UNCHANGED <<mount, checks, source, branch, config, launch, inForce, excused>>

(* set-control writes a control of the device, and nothing else. *)
set_control(c, v) ==
  /\ Ask /\ source[c] = "v4l2"
  /\ inForce' = [inForce EXCEPT ![c] = v]
  /\ excused' = [excused EXCEPT ![c] = @ \/ (v # config[c])]
  /\ UNCHANGED <<mount, checks, source, branch, config, launch, request>>

Camera == Min(request.cams)

(* set_source_property(): a no-op without a source. A pipeline that is built but not
   configured yet has none: it misses the request. *)
set_source_property ==
  /\ request.step = "source"
  /\ inForce' = [inForce EXCEPT ![Camera] = IF known[Camera] THEN request.value ELSE @]
  /\ excused' = [excused EXCEPT ![Camera] = @ \/ media[Camera] = "built"]
  /\ request' = Done(request)
  /\ UNCHANGED <<mount, checks, asked, source, branch, config, launch>>

\* Mutant: the configuration takes the value although the device refused it.
StoreAnyway ==
  /\ request.step = "device"
  /\ \/ /\ inForce' = [inForce EXCEPT ![Camera] = request.value]
        /\ excused' = [excused EXCEPT ![Camera] = FALSE]
     \/ UNCHANGED <<inForce, excused>>
  /\ request' = Done(request)
  /\ UNCHANGED <<mount, checks, asked, source, branch, config, launch>>

(* V4l2Device: the ioctl sets the control, or fails, and the request with it. *)
set_device ==
  /\ request.step = "device"
  /\ \/ /\ inForce' = [inForce EXCEPT ![Camera] = request.value]
        /\ excused' = [excused EXCEPT ![Camera] = FALSE]
        /\ request' = Done(request)
     \/ /\ request' = Idle
        /\ UNCHANGED <<inForce, excused>>
  /\ UNCHANGED <<mount, checks, asked, source, branch, config, launch>>

set_config ==
  /\ request.step = "config"
  /\ config' = [config EXCEPT ![Camera] = request.value]
  /\ request' = Done(request)
  /\ UNCHANGED <<mount, checks, asked, source, branch, launch, inForce, excused>>

(* RtspServer::refresh_launch(): built from the configuration, without the branch that
   start() had put in. *)
refresh_launch ==
  /\ request.step = "launch"
  /\ launch' = [launch EXCEPT ![Camera] = IF source[Camera] = "argus" THEN config[Camera] ELSE @]
  /\ branch' = [branch EXCEPT ![Camera] = FALSE]
  /\ request' = Done(request)
  /\ UNCHANGED <<mount, checks, asked, source, config, inForce, excused>>

(* set-sync goes on to the next camera. *)
next_camera ==
  /\ request.step = "next"
  /\ request' = IF request.cams = {Camera} THEN Idle
                ELSE [request EXCEPT !.cams = @ \ {Camera}, !.step = "device",
                                     !.rest = <<"config", "next">>]
  /\ UNCHANGED <<mount, checks, asked, source, branch, config, launch, inForce, excused>>

-----------------------------------------------------------------------------
(* A server that starts: mounts without pipelines, what the file says. A V4L2 device
   keeps what it was set to, as the file leaves it alone. *)
Fresh ==
  /\ media' = [c \in Cameras |-> "none"]
  /\ known' = [c \in Cameras |-> FALSE] /\ detection' = [c \in Cameras |-> "none"]
  /\ dead' = [c \in Cameras |-> FALSE] /\ fresh' = [c \in Cameras |-> FALSE]
  /\ stalled' = [c \in Cameras |-> 0] /\ exited' = FALSE
  /\ quiet' = [c \in Cameras |-> 0]
  /\ source' \in Sources
  /\ branch' = [c \in Cameras |-> c \in Detecting]
  /\ config' = [c \in Cameras |-> Unset] /\ launch' = [c \in Cameras |-> Unset]
  /\ asked' = 0 /\ request' = Idle
  /\ inForce' = [c \in Cameras |-> IF source'[c] = source[c] /\ source[c] = "v4l2" THEN inForce[c] ELSE Unset]
  /\ excused' = [c \in Cameras |-> inForce'[c] # Unset]

(* A reload replaces the RtspServer: its clients are closed, the new mounts start afresh,
   a dead camera's among them. *)
reload == ~exited /\ request = Idle /\ Fresh

(* systemd starts the service again. *)
restart == exited /\ Fresh

-----------------------------------------------------------------------------
Init ==
  /\ media = [c \in Cameras |-> "none"]
  /\ known = [c \in Cameras |-> FALSE] /\ detection = [c \in Cameras |-> "none"]
  /\ dead = [c \in Cameras |-> FALSE] /\ fresh = [c \in Cameras |-> FALSE]
  /\ stalled = [c \in Cameras |-> 0] /\ exited = FALSE
  /\ quiet = [c \in Cameras |-> 0]
  /\ source \in Sources
  /\ branch = [c \in Cameras |-> c \in Detecting]
  /\ config = [c \in Cameras |-> Unset] /\ launch = [c \in Cameras |-> Unset]
  /\ inForce = [c \in Cameras |-> Unset]
  /\ asked = 0 /\ request = Idle
  /\ excused = [c \in Cameras |-> FALSE]

Client(c) == construct(c) \/ on_media_configure(c) \/ set_state(c) \/ on_media_unprepared(c)

Request ==
  \/ \E c \in Cameras, v \in Values :
       set_exposure(c, v) \/ set_isp(c, v) \/ set_trigger(c, v) \/ set_control(c, v)
  \/ \E c \in Cameras : set_zoom(c)
  \/ \E v \in Values : set_sync(v)

Handler ==
  set_source_property \/ set_device \/ set_config \/ refresh_launch \/ next_camera

Next ==
  \/ \E c \in Cameras : Client(c) \/ wedge(c) \/ on_payload_buffer(c)
  \/ Request \/ Handler \/ on_watchdog \/ reload \/ restart

Spec == Init /\ [][Next]_vars

(* The main loop runs a handler to its end, and dispatches the watchdog's timer however
   many requests there are. *)
FairSpec == Spec /\ WF_vars(Handler) /\ SF_vars(on_watchdog)

-----------------------------------------------------------------------------
(* Properties. *)

(* What a mount of MountController is made of; stalled_checks_ stops at kStallChecks, where
   check_stall() disables the mount. *)
TypeOK ==
  /\ source \in [Cameras -> {"argus", "v4l2"}]
  /\ media \in [Cameras -> {"none", "built", "ready", "playing", "stuck"}]
  /\ known \in [Cameras -> BOOLEAN]
  /\ dead \in [Cameras -> BOOLEAN] /\ fresh \in [Cameras -> BOOLEAN]
  /\ stalled \in [Cameras -> 0..kStallChecks] /\ exited \in BOOLEAN
  /\ branch \in [Cameras -> BOOLEAN]
  /\ detection \in [Cameras -> {"none", "branch", "thread"}]
  /\ config \in [Cameras -> Values] /\ launch \in [Cameras -> Values]
  /\ inForce \in [Cameras -> Values]
  /\ quiet \in [Cameras -> 0..kStallChecks]
  /\ excused \in [Cameras -> BOOLEAN]

(* MountController.h: a camera that pushes "no buffer through its payloader for
   kStallChecks consecutive periods is declared dead", and nothing else is: a pipeline
   that was paused or ended, or a frame in between, starts the count again. *)
OnlySilentIsDead ==
  [][\A c \in Cameras : (dead'[c] /\ ~dead[c]) => quiet'[c] >= kStallChecks]_vars

(* RtspServer::on_watchdog(): a camera that stays silent while it should play is
   disabled, whatever the clients of the other one do. *)
SilentIsDisabled ==
  \A c \in Cameras :
    media[c] = "stuck" ~> (dead[c] \/ media[c] # "stuck")

(* What a request set is in force when it has been answered: at the pipeline that is
   being served, or at the device, and in the launch string of the next pipeline, however
   the clients came and went meanwhile; a request that failed changed nothing of its
   camera. Not when the pipeline was being built during the request, or when what is in
   force was last set past the configuration. *)
SettingsAreInForce ==
  \A c \in Cameras :
    (request = Idle /\ ~exited) =>
      /\ source[c] = "argus" => launch[c] = config[c]
      /\ ~excused[c] /\ (known[c] \/ source[c] = "v4l2") => inForce[c] = config[c]

(* EMBEDDED.md says of the detection model: "The file's presence is the enable switch". A
   client's pipeline has detection wherever start() put the branch in. *)
ModelMeansDetection ==
  \A c \in Detecting : known[c] => detection[c] = "thread"
=============================================================================
