---------------------------- MODULE Application ----------------------------
(* The camera-streamer process: which servers run, what a reload does to them, and how
   the worker of secure USB takes the USB gadget over and gives it back, with
   usb-gadget.sh and systemd next to it. The main loop is one thread; what it does
   between two joins is one action, and giving the gadget back at a start two. The
   worker's steps interleave with it and with the script, and the process may be
   killed between any two.

   External: systemd, the controller that appears, the reasons a bind, a mount or a
   certificate fails. What the servers do is in modules of their own; that a stop may
   wait for a handler for ever is shown in SecureUsbServer. *)
EXTENDS UsbGadget

VARIABLES
  g,          \* the gadget
  script,     \* usb-gadget.sh start: "boot", "boot_bind", "retry", "retry_bind", "ok"
  main,       \* "down", "binding" (in start_servers), "up" (in the main loop), "stopping" (joining the worker)
  todo,       \* what the main loop does after the join: "reload" or "exit"
  transports, \* config_.transports: "usb" or "network"
  previous,   \* the configuration reload() goes back to
  servers,    \* the servers that exist
  worker,     \* SecureUsbServer::run(): "none", a step of create(), "serving", "release", "rebind", "done"
  base_udc,   \* create(): was a controller there when it began?
  hindered,   \* did a system call of this create() fail, or the script bind meanwhile?
  orphaned    \* was the gadget left unbound with no trace of the function?

vars == <<g, script, main, todo, transports, previous, servers, worker, base_udc,
          hindered, orphaned>>

Creating == {"unbind", "function", "mount", "link", "publish", "bind"}
Network == {"rtsp", "control", "discovery", "update"}

scriptVars == <<script>>
mainVars == <<main, todo, transports, previous, servers>>
workerVars == <<worker, base_udc, hindered>>

-----------------------------------------------------------------------------
(* usb-gadget.sh start, at boot and again 5 s after each failure. *)

udc_appears ==
  /\ ~g.udc
  /\ g' = [g EXCEPT !.udc = TRUE]
  /\ UNCHANGED <<scriptVars, mainVars, workerVars, orphaned>>

usb_gadget_start ==
  /\ script \in {"boot", "retry"}
  /\ IF g.bound THEN script' = "ok" /\ UNCHANGED g
     ELSE /\ script' = IF script = "boot" THEN "boot_bind" ELSE "retry_bind"
          /\ g' = [g EXCEPT !.base = TRUE]
  /\ UNCHANGED <<mainVars, workerVars, orphaned>>

usb_gadget_bind ==
  /\ script \in {"boot_bind", "retry_bind"}
  /\ script' = IF Bindable(g) THEN "ok" ELSE "retry"
  /\ g' = Bind(g)
  /\ hindered' = (hindered \/ worker \in Creating)
  /\ UNCHANGED <<mainVars, worker, base_udc, orphaned>>

-----------------------------------------------------------------------------
(* Application::start_servers() for one configuration: the servers, the worker and the
   gadget it leaves. In network mode no address, no camera, no port or a bad
   certificate for RTSP or control is fatal; discovery and update may be missing. In
   usb mode nothing is: secure USB without a certificate gives the gadget back. *)

Refused == [ok |-> FALSE]
Secure(up) == [ok |-> TRUE, servers |-> up, worker |-> "unbind", main |-> "up", g |-> g]
HandedBack(up) == [ok |-> TRUE, servers |-> up, worker |-> "none",
                   main |-> IF Rebinds(g) THEN "binding" ELSE "up", g |-> release_base_gadget(g)]

start_servers(t) ==
  IF t = "network"
  THEN {Refused} \cup {HandedBack(Network \ lost) : lost \in SUBSET {"discovery", "update"}}
  ELSE {Secure({"update", "secure"} \cup more) : more \in SUBSET {"recovery"}} \cup
       {HandedBack({"update"} \cup more) : more \in SUBSET {"recovery"}}

\* Mutant: reverting starts the servers of before with the configuration that failed.
RunningAsIs(t, started) ==
  /\ main' = started.main /\ UNCHANGED transports
  /\ servers' = started.servers /\ worker' = started.worker /\ g' = started.g

Running(t, started) ==
  /\ main' = started.main /\ transports' = t
  /\ servers' = started.servers /\ worker' = started.worker /\ g' = started.g

NotRunning ==
  /\ main' = "down" /\ servers' = {} /\ worker' = "none"
  /\ UNCHANGED <<g, transports>>

Begun ==
  /\ base_udc' = (worker' = "unbind" /\ g'.udc)
  /\ hindered' = FALSE

(* Application::start(): systemd starts the service after the script's first try; a
   service that cannot start exits and is started again. *)
start ==
  /\ main = "down" /\ script \notin {"boot", "boot_bind"}
  /\ \E t \in {"usb", "network"} : \E r \in start_servers(t) : r.ok /\ Running(t, r)
  /\ Begun
  /\ UNCHANGED <<script, todo, previous, orphaned>>

(* start_servers() gives the gadget back, last of all: the end of release_base_gadget(). *)
start_bind ==
  /\ main = "binding"
  /\ main' = "up" /\ g' = Bind(g)
  /\ UNCHANGED <<script, todo, transports, previous, servers, workerVars, orphaned>>

(* SIGHUP or the reload method: the file is read, then stop_servers() joins the worker. *)
reload ==
  /\ main = "up"
  /\ main' = "stopping" /\ todo' = "reload"
  /\ previous' = transports
  /\ transports' \in {"usb", "network"}
  /\ UNCHANGED <<g, script, servers, workerVars, orphaned>>

on_signal ==
  /\ main = "up"
  /\ main' = "stopping" /\ todo' = "exit"
  /\ UNCHANGED <<g, script, transports, previous, servers, workerVars, orphaned>>

(* The rest of reload(), once the worker is joined: the new configuration, or the one
   before, or the end of the process. *)
reload_restart ==
  /\ main = "stopping" /\ todo = "reload" /\ worker \in {"none", "done"}
  /\ \E r \in start_servers(transports) :
       IF r.ok THEN Running(transports, r)
       ELSE \E s \in start_servers(previous) :
              IF s.ok THEN Running(previous, s) ELSE NotRunning
  /\ Begun
  /\ UNCHANGED <<script, todo, previous, orphaned>>

exit ==
  /\ main = "stopping" /\ todo = "exit" /\ worker \in {"none", "done"}
  /\ NotRunning
  /\ UNCHANGED <<script, todo, previous, base_udc, hindered, orphaned>>

(* The gadget is unbound, and there is no function in it that tells who did that. *)
Traceless == worker \in {"function", "rebind"} \/ main = "binding"

(* SIGKILL, the watchdog of systemd, or _exit() when every camera is dead: nothing is
   taken down, but the kernel closes ep0. *)
killed ==
  /\ main # "down"
  /\ main' = "down" /\ servers' = {} /\ worker' = "none"
  /\ g' = CloseEp0(g)
  /\ orphaned' = (orphaned \/ Traceless)
  /\ UNCHANGED <<script, todo, transports, previous, base_udc, hindered>>

-----------------------------------------------------------------------------
(* SecureUsbServer::run(): create() the gadget, serve until stopped, release it. *)

Proceed(from, to, made) ==
  /\ worker = from /\ worker' = to
  /\ g' = made
  /\ UNCHANGED <<script, mainVars, base_udc, hindered, orphaned>>

(* A system call of create() fails. When the controller appeared after create() began,
   nothing is restored. *)
create_fails ==
  /\ worker \in Creating
  /\ worker' = "done"
  /\ g' = restore(g, base_udc)
  /\ hindered' = TRUE
  /\ orphaned' = (orphaned \/ (~base_udc /\ Traceless))
  /\ UNCHANGED <<script, mainVars, base_udc>>

create_unbind == g.base /\ Proceed("unbind", "function", prepare_unbind(g))
create_function == Proceed("function", "mount", prepare_function(g))
create_mount == Proceed("mount", "link", prepare_mount(g))

(* A function cannot be linked into a bound gadget. *)
create_link == ~g.bound /\ Proceed("link", "publish", prepare_link(g))

create_publish == Proceed("publish", "bind", publish_descriptors(g))

create_bind == Bindable(g) /\ Proceed("bind", "serving", Bind(g))

\* Mutant: a gadget that is unbound already cannot be taken over.
RefusedUnbound == worker = "unbind" /\ ~g.bound /\ Proceed(worker, "done", restore(g, base_udc))

(* What the system refuses by itself: no gadget, a gadget that is bound or cannot be. *)
create_refused ==
  /\ \/ worker = "unbind" /\ ~g.base
     \/ worker = "link" /\ g.bound
     \/ worker = "bind" /\ ~Bindable(g)
  /\ Proceed(worker, "done", restore(g, base_udc))

(* stop(): the session ends, the destructor closes ep0 and gives the gadget back. *)
release_ep0 ==
  /\ main = "stopping"
  /\ Proceed("serving", "release", CloseEp0(g))

release_function == Proceed("release", "rebind", TakeOut(g))
release_bind == Proceed("rebind", "done", Bind(g))

-----------------------------------------------------------------------------
Init ==
  /\ g = [udc |-> FALSE, base |-> FALSE, bound |-> FALSE, function |-> FALSE,
          link |-> FALSE, mounted |-> FALSE, ep0 |-> "closed"]
  /\ script = "boot"
  /\ main = "down" /\ todo = "exit"
  /\ transports = "usb" /\ previous = "usb"
  /\ servers = {}
  /\ worker = "none" /\ base_udc = FALSE
  /\ hindered = FALSE /\ orphaned = FALSE

Script == usb_gadget_start \/ usb_gadget_bind
Main == start \/ start_bind \/ reload_restart \/ exit
Worker == \/ create_unbind \/ create_function \/ create_mount \/ create_link
          \/ create_publish \/ create_bind \/ create_refused
          \/ release_ep0 \/ release_function \/ release_bind

Next == udc_appears \/ Script \/ Main \/ reload \/ on_signal \/ killed \/ Worker \/ create_fails

Spec == Init /\ [][Next]_vars

(* systemd retries the script and starts the service; the worker and the main loop get on. *)
Fairness == WF_vars(udc_appears) /\ WF_vars(Script) /\ WF_vars(Main) /\ WF_vars(Worker)
FairSpec == Spec /\ Fairness

-----------------------------------------------------------------------------
(* Properties. *)

(* Types; a worker exists only in a process that runs in usb mode or is leaving it. *)
TypeOK ==
  /\ g \in Gadgets
  /\ script \in {"boot", "boot_bind", "retry", "retry_bind", "ok"}
  /\ main \in {"down", "binding", "up", "stopping"} /\ todo \in {"reload", "exit"}
  /\ transports \in {"usb", "network"} /\ previous \in {"usb", "network"}
  /\ servers \subseteq Network \cup {"recovery", "secure"}
  /\ worker \in {"none", "serving", "release", "rebind", "done"} \cup Creating
  /\ base_udc \in BOOLEAN /\ hindered \in BOOLEAN /\ orphaned \in BOOLEAN
  /\ (worker # "none") => (main # "down" /\ "secure" \in servers)

(* Application::reload(): after a reload that worked, one that was reverted, or a start,
   the servers are those of the configuration in config_: "Argus permits a single
   consumer per camera", so never RTSP and secure USB. *)
ServersMatchConfig ==
  main \in {"binding", "up"} =>
    /\ "rtsp" \in servers <=> transports = "network"
    /\ "control" \in servers <=> transports = "network"
    /\ {"recovery", "secure"} \cap servers # {} => transports = "usb"

(* FfsGadget::create(): "Treating it as fatal made secure USB unrecoverable until reboot".
   Whatever a killed process left behind, taking the gadget over fails only when a
   system call fails, there is no controller, or the script binds in between. *)
TakeOverFromAnyState ==
  (worker = "done" /\ main = "up") => hindered \/ ~base_udc

(* FfsGadget::release_base_gadget(): a device in network mode gets its USB network back,
   however it left usb mode - unless the process was killed, or create() failed without
   restoring, after it had unbound the gadget and before it had made the function, or
   after it had removed it and before it bound: that leaves no trace. *)
NetworkModeIsReachable ==
  (main = "up" /\ transports = "network" /\ ~orphaned)
    ~> (g.bound \/ main # "up" \/ orphaned)

(* While secure USB serves, its function is in the bound gadget and has its descriptors;
   at any time a bound gadget is one the host can enumerate. *)
BoundIsComplete ==
  /\ worker = "serving" => g.bound /\ g.link
  /\ g.bound => (g.base /\ g.udc /\ (g.link => g.ep0 = "ready"))

(* Application::start_servers(): "Failure to expose the optional FunctionFS interface must
   never take down the established NCM RTSP path." The code does not keep this: a create()
   that fails after the function was linked leaves the gadget unbound (see the README). *)
FailureKeepsBase ==
  (worker = "done" /\ main = "up" /\ base_udc) => g.bound
=============================================================================
