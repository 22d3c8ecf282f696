--------------------------- MODULE ApplicationProofs ---------------------------
(***************************************************************************)
(* Proofs about Application: whatever is started, reloaded, reverted or    *)
(* killed, and whatever the boot script does meanwhile, the servers are    *)
(* those of the configuration, and secure USB can take the gadget over     *)
(* from every state it is found in.                                        *)
(***************************************************************************)
EXTENDS Application, TLAPS

(***************************************************************************)
(* What start_servers() leaves when it succeeds, for each configuration:   *)
(* servers of its own transports only, and a worker about to unbind the    *)
(* gadget it was given, or a gadget with the function taken out.           *)
(***************************************************************************)
LEMMA StartedRight ==
  ASSUME NEW t \in {"usb", "network"}, NEW r \in start_servers(t), r.ok
  PROVE  /\ "rtsp" \in r.servers <=> t = "network"
         /\ "control" \in r.servers <=> t = "network"
         /\ {"recovery", "secure"} \cap r.servers # {} => t = "usb"
         /\ r.main \in {"binding", "up"}
         /\ \/ r.worker = "unbind" /\ r.main = "up" /\ r.g = g
            \/ r.worker = "none" /\ r.g \in {g, TakeOut(g)}
PROOF
  <1>1. CASE t = "network"
    <2>1. PICK lost \in SUBSET {"discovery", "update"} : r = HandedBack(Network \ lost)
      BY <1>1 DEF start_servers, Refused
    <2>2. /\ r.servers = Network \ lost /\ r.worker = "none" /\ r.main \in {"binding", "up"}
          /\ r.g = release_base_gadget(g)
      BY <2>1 DEF HandedBack
    <2> QED BY <1>1, <2>2 DEF Network, release_base_gadget
  <1>2. CASE t = "usb"
    <2>1. PICK more \in SUBSET {"recovery"} :
            r = Secure({"update", "secure"} \cup more) \/ r = HandedBack({"update"} \cup more)
      BY <1>2 DEF start_servers
    <2>2. \/ /\ r.servers = {"update", "secure"} \cup more /\ r.worker = "unbind"
             /\ r.main = "up" /\ r.g = g
          \/ /\ r.servers = {"update"} \cup more /\ r.worker = "none"
             /\ r.main \in {"binding", "up"} /\ r.g = release_base_gadget(g)
      BY <2>1 DEF Secure, HandedBack
    <2> QED BY <1>2, <2>2 DEF release_base_gadget
  <1> QED BY <1>1, <1>2

-------------------------------------------------------------------------------
(***************************************************************************)
(* ServersMatchConfig needs only that the configuration which reload()     *)
(* would go back to is one.                                                *)
(***************************************************************************)
ConfigInv ==
  /\ transports \in {"usb", "network"} /\ previous \in {"usb", "network"}
  /\ ServersMatchConfig

(***************************************************************************)
(* Every step keeps it.                                                    *)
(***************************************************************************)
LEMMA ConfigStep ==
  ASSUME ConfigInv, [Next]_vars
  PROVE  ConfigInv'
PROOF
  <1>1. ASSUME NEW t \in {"usb", "network"}, NEW r \in start_servers(t), r.ok,
               Running(t, r), previous' = previous
        PROVE  ConfigInv'
    BY <1>1, StartedRight DEF Running, ConfigInv, ServersMatchConfig
  <1>2. CASE start
    BY <1>1, <1>2 DEF start
  <1>3. CASE reload_restart
    <2>1. CASE NotRunning
      BY <1>3, <2>1 DEF reload_restart, NotRunning, ConfigInv, ServersMatchConfig
    <2> QED BY <1>1, <1>3, <2>1 DEF reload_restart, ConfigInv
  <1>4. CASE start_bind \/ reload \/ on_signal \/ exit \/ killed
    BY <1>4 DEF start_bind, reload, on_signal, exit, killed, NotRunning, ConfigInv,
                ServersMatchConfig
  <1>5. CASE UNCHANGED mainVars
    BY <1>5 DEF mainVars, ConfigInv, ServersMatchConfig
  <1>6. CASE udc_appears \/ Script \/ Worker \/ create_fails \/ UNCHANGED vars
    <2>1. UNCHANGED mainVars
      BY <1>6 DEF udc_appears, Script, usb_gadget_start, usb_gadget_bind, Worker, Proceed,
                  create_unbind, create_function, create_mount, create_link, create_publish,
                  create_bind, create_refused, release_ep0, release_function, release_bind,
                  create_fails, vars, mainVars
    <2> QED BY <1>5, <2>1
  <1> QED BY <1>2, <1>3, <1>4, <1>6 DEF Next, Main

(***************************************************************************)
(* ServersMatchConfig: a start, a reload that worked and one that was      *)
(* reverted leave the servers of config_, and never RTSP next to secure    *)
(* USB.                                                                    *)
(***************************************************************************)
THEOREM ServersFollowConfig == Spec => []ServersMatchConfig
<1>1. Init => ConfigInv
  BY DEF Init, ConfigInv, ServersMatchConfig
<1>2. ConfigInv /\ [Next]_vars => ConfigInv'
  BY ConfigStep
<1>3. ConfigInv => ServersMatchConfig
  BY DEF ConfigInv
<1> QED BY <1>1, <1>2, <1>3, PTL DEF Spec

-------------------------------------------------------------------------------
(***************************************************************************)
(* What create() can count on at each of its steps. The script has made    *)
(* the base gadget before any process runs; a controller that was there    *)
(* stays; and unless the script hindered it the gadget is unbound from     *)
(* create()'s first step to its last.                                      *)
(***************************************************************************)
GadgetInv ==
  /\ g \in Gadgets
  /\ g.bound => g.base
  /\ script # "boot" => g.base
  /\ base_udc => g.udc

CreateInv ==
  /\ base_udc \in BOOLEAN /\ hindered \in BOOLEAN
  /\ main # "down" => script # "boot"
  /\ worker # "none" => main \notin {"down", "binding"}
  /\ (worker \in {"function", "mount", "link", "publish", "bind"} /\ ~hindered) => ~g.bound
  /\ worker = "bind" => g.ep0 = "ready"
  /\ worker \in {"release", "rebind"} => main = "stopping"
  /\ TakeOverFromAnyState

(***************************************************************************)
(* What every operation on the gadget leaves alone.                        *)
(***************************************************************************)
LEMMA GadgetOperations ==
  ASSUME NEW h \in Gadgets, h.bound => h.base
  PROVE  \A k \in {Bind(h), Unbind(h), CloseEp0(h), TakeOut(h), Bind(TakeOut(h)), Bind(CloseEp0(h)),
                   prepare_unbind(h), prepare_function(h), prepare_mount(h), prepare_link(h),
                   publish_descriptors(h)} :
           k \in Gadgets /\ (k.bound => k.base) /\ k.base = h.base /\ k.udc = h.udc
PROOF
  <1> DEFINE Kept(k) == k \in Gadgets /\ (k.bound => k.base) /\ k.base = h.base /\ k.udc = h.udc
  <1>1. ASSUME NEW k, Kept(k)
        PROVE  Kept(Bind(k))
    BY <1>1 DEF Gadgets, Bind, Bindable
  <1>2. Kept(h)
    OBVIOUS
  <1>3. Kept(Unbind(h)) /\ Kept(prepare_unbind(h))
    BY DEF Gadgets, Unbind, prepare_unbind
  <1>4. Kept(CloseEp0(h))
    BY DEF Gadgets, CloseEp0
  <1>5. Kept(TakeOut(h))
    BY DEF Gadgets, TakeOut
  <1>6. Kept(prepare_function(h)) /\ Kept(prepare_mount(h))
    BY DEF Gadgets, prepare_function, prepare_mount
  <1>7. Kept(prepare_link(h)) /\ Kept(publish_descriptors(h))
    BY DEF Gadgets, prepare_link, publish_descriptors
  <1>8. Kept(Bind(h)) /\ Kept(Bind(TakeOut(h))) /\ Kept(Bind(CloseEp0(h)))
    BY <1>1, <1>2, <1>4, <1>5
  <1> HIDE DEF Kept
  <1>9. \A k \in {Bind(h), Unbind(h), CloseEp0(h), TakeOut(h), Bind(TakeOut(h)), Bind(CloseEp0(h)),
                  prepare_unbind(h), prepare_function(h), prepare_mount(h), prepare_link(h),
                  publish_descriptors(h)} : Kept(k)
    BY <1>3, <1>4, <1>5, <1>6, <1>7, <1>8
  <1> QED BY <1>9 DEF Kept

(***************************************************************************)
(* Starting servers keeps both: a worker starts at its first step.         *)
(***************************************************************************)
LEMMA StartKeeps ==
  ASSUME GadgetInv, CreateInv, NEW t \in {"usb", "network"}, NEW r \in start_servers(t), r.ok,
         Running(t, r), Begun, UNCHANGED script, script # "boot"
  PROVE  GadgetInv' /\ CreateInv'
PROOF
  <1>1. /\ g' \in {g, TakeOut(g)} /\ worker' \in {"none", "unbind"}
        /\ main' \in {"binding", "up"} /\ (worker' = "unbind" => main' = "up")
    BY StartedRight DEF Running
  <1>2. g' \in Gadgets /\ (g'.bound => g'.base) /\ g'.base = g.base /\ g'.udc = g.udc
    BY <1>1, GadgetOperations DEF GadgetInv
  <1>3. GadgetInv'
    BY <1>2 DEF GadgetInv, Begun
  <1>4. CreateInv'
    BY <1>1, <1>2 DEF CreateInv, Begun, TakeOverFromAnyState, Gadgets
  <1> QED BY <1>3, <1>4

(***************************************************************************)
(* A step of the worker that is not a failure.                             *)
(***************************************************************************)
LEMMA WorkerKeeps ==
  ASSUME GadgetInv, CreateInv, Worker
  PROVE  GadgetInv' /\ CreateInv'
PROOF
  <1>1. \E from \in Creating \cup {"serving", "release", "rebind"},
           to \in (Creating \cup {"serving", "release", "rebind", "done"}) \ {"unbind"},
           made \in {Bind(g), CloseEp0(g), Bind(CloseEp0(g)), TakeOut(g), prepare_unbind(g),
                     prepare_function(g), prepare_mount(g), prepare_link(g),
                     publish_descriptors(g)} : Proceed(from, to, made)
    BY DEF Worker, create_unbind, create_function, create_mount, create_link, create_publish,
           create_bind, create_refused, release_ep0, release_function, release_bind, restore,
           Creating
  <1>2. g' \in Gadgets /\ (g'.bound => g'.base) /\ g'.base = g.base /\ g'.udc = g.udc
    BY <1>1, GadgetOperations DEF Proceed, GadgetInv
  <1>3. UNCHANGED <<script, mainVars, base_udc, hindered>> /\ worker # "none"
    BY <1>1 DEF Proceed, Creating
  <1>4. GadgetInv'
    BY <1>2, <1>3 DEF GadgetInv
  <1>5. worker' \in {"release", "rebind"} => main = "stopping"
    BY <1>3 DEF CreateInv, Worker, Proceed, create_unbind, create_function, create_mount, create_link,
           create_publish, create_bind, create_refused, release_ep0, release_function, release_bind
  <1>6. (worker' \in {"function", "mount", "link", "publish", "bind"} /\ ~hindered) => ~g'.bound
    BY <1>3 DEF CreateInv, GadgetInv, Gadgets, Worker, Proceed, create_unbind, create_function,
           create_mount, create_link, create_publish, create_bind, create_refused, release_ep0,
           release_function, release_bind, prepare_unbind, prepare_function, prepare_mount,
           prepare_link, publish_descriptors, Unbind
  <1>7. worker' = "bind" => g'.ep0 = "ready"
    BY <1>3 DEF CreateInv, GadgetInv, Gadgets, Worker, Proceed, create_unbind, create_function,
           create_mount, create_link, create_publish, create_bind, create_refused, release_ep0,
           release_function, release_bind, publish_descriptors
  <1>8. (worker' = "done" /\ main = "up") => hindered \/ ~base_udc
    BY <1>3 DEF CreateInv, GadgetInv, Bindable, Worker, Proceed, create_unbind, create_function,
           create_mount, create_link, create_publish, create_bind, create_refused, release_ep0,
           release_function, release_bind
  <1> QED
    BY <1>3, <1>4, <1>5, <1>6, <1>7, <1>8 DEF CreateInv, TakeOverFromAnyState, mainVars

(***************************************************************************)
(* The three parts hold at first, and every step keeps the last two.       *)
(***************************************************************************)
LEMMA InitKept ==
  ASSUME Init
  PROVE  ConfigInv /\ GadgetInv /\ CreateInv
PROOF
  <1>1. g \in Gadgets /\ ~g.bound
    BY DEF Init, Gadgets
  <1> QED
    BY <1>1 DEF Init, ConfigInv, ServersMatchConfig, GadgetInv, CreateInv, TakeOverFromAnyState

(***************************************************************************)
(* One case for each action.                                               *)
(***************************************************************************)
LEMMA GadgetStep ==
  ASSUME ConfigInv, GadgetInv, CreateInv, [Next]_vars
  PROVE  GadgetInv' /\ CreateInv'
PROOF
  <1>1. CASE udc_appears
    BY <1>1 DEF udc_appears, GadgetInv, CreateInv, TakeOverFromAnyState, Gadgets, scriptVars,
                mainVars, workerVars
  <1>2. CASE usb_gadget_start
    BY <1>2 DEF usb_gadget_start, GadgetInv, CreateInv, TakeOverFromAnyState, Gadgets, mainVars,
                workerVars
  <1>3. CASE usb_gadget_bind
    <2>1. g' \in Gadgets /\ (g'.bound => g'.base) /\ g'.base = g.base /\ g'.udc = g.udc
      BY <1>3, GadgetOperations DEF usb_gadget_bind, GadgetInv
    <2>2. GadgetInv'
      BY <1>3, <2>1 DEF usb_gadget_bind, GadgetInv
    <2>3. hindered' \in BOOLEAN /\ (worker \in Creating => hindered') /\ (hindered => hindered')
      BY <1>3 DEF usb_gadget_bind, CreateInv
    <2>4. g'.ep0 = g.ep0
      BY <1>3 DEF usb_gadget_bind, Bind, GadgetInv, Gadgets
    <2> QED
      BY <1>3, <2>2, <2>3, <2>4 DEF usb_gadget_bind, CreateInv, TakeOverFromAnyState, Creating, mainVars
  <1>4. CASE start
    <2>1. PICK t \in {"usb", "network"} : \E r \in start_servers(t) : r.ok /\ Running(t, r)
      BY <1>4 DEF start
    <2> QED BY <1>4, <2>1, StartKeeps DEF start
  <1>5. CASE reload_restart
    <2>1. CASE NotRunning
      BY <1>5, <2>1 DEF reload_restart, NotRunning, Begun, GadgetInv, CreateInv, TakeOverFromAnyState
    <2>2. CASE ~NotRunning
      <3>1. PICK t \in {"usb", "network"} : \E r \in start_servers(t) : r.ok /\ Running(t, r)
        BY <1>5, <2>2 DEF reload_restart, ConfigInv
      <3>2. script # "boot"
        BY <1>5 DEF reload_restart, CreateInv
      <3> QED BY <1>5, <3>1, <3>2, StartKeeps DEF reload_restart
    <2> QED BY <2>1, <2>2
  <1>6. CASE reload \/ on_signal \/ exit
    BY <1>6 DEF reload, on_signal, exit, NotRunning, GadgetInv, CreateInv, TakeOverFromAnyState,
                workerVars
  <1>7. CASE killed
    <2>1. g' \in Gadgets /\ (g'.bound => g'.base) /\ g'.base = g.base /\ g'.udc = g.udc
      BY <1>7, GadgetOperations DEF killed, GadgetInv
    <2> QED BY <1>7, <2>1 DEF killed, GadgetInv, CreateInv, TakeOverFromAnyState
  <1>8. CASE create_fails
    <2>1. g' \in {CloseEp0(g), Bind(CloseEp0(g))}
      BY <1>8 DEF create_fails, restore
    <2>2. g' \in Gadgets /\ (g'.bound => g'.base) /\ g'.base = g.base /\ g'.udc = g.udc
      BY <2>1, GadgetOperations DEF GadgetInv
    <2> QED
      BY <1>8, <2>2 DEF create_fails, GadgetInv, CreateInv, TakeOverFromAnyState, Creating, mainVars
  <1>9. CASE Worker
    BY <1>9, WorkerKeeps
  <1>10. CASE UNCHANGED vars
    BY <1>10 DEF vars, GadgetInv, CreateInv, TakeOverFromAnyState
  <1>11. CASE start_bind
    <2>1. g' \in Gadgets /\ (g'.bound => g'.base) /\ g'.base = g.base /\ g'.udc = g.udc
      BY <1>11, GadgetOperations DEF start_bind, GadgetInv
    <2>2. g'.ep0 = g.ep0
      BY <1>11 DEF start_bind, Bind, GadgetInv, Gadgets
    <2>3. worker = "none"
      BY <1>11 DEF start_bind, CreateInv
    <2> QED
      BY <1>11, <2>1, <2>2, <2>3 DEF start_bind, GadgetInv, CreateInv, TakeOverFromAnyState,
                                      workerVars
  <1> QED
    BY <1>1, <1>2, <1>3, <1>4, <1>5, <1>6, <1>7, <1>8, <1>9, <1>10, <1>11
       DEF Next, Script, Main

(***************************************************************************)
(* TakeOverFromAnyState: create() gives up only when a system call failed, *)
(* the script bound the gadget in between or there was no controller.      *)
(***************************************************************************)
THEOREM TakeOver == Spec => []TakeOverFromAnyState
<1>1. Init => ConfigInv /\ GadgetInv /\ CreateInv
  BY InitKept
<1>2. ConfigInv /\ GadgetInv /\ CreateInv /\ [Next]_vars => GadgetInv' /\ CreateInv'
  BY GadgetStep
<1>3. CreateInv => TakeOverFromAnyState
  BY DEF CreateInv
<1>4. ConfigInv /\ [Next]_vars => ConfigInv'
  BY ConfigStep
<1> QED BY <1>1, <1>2, <1>3, <1>4, PTL DEF Spec

-------------------------------------------------------------------------------
(***************************************************************************)
(* While the worker builds it the gadget has the function linked from      *)
(* create()'s publishing step on; a bound gadget is one a host can         *)
(* enumerate.                                                              *)
(***************************************************************************)
LinkInv ==
  /\ worker \in {"publish", "bind", "serving"} => g.link
  /\ BoundIsComplete

(***************************************************************************)
(* Operations on a gadget that is complete when bound leave one that is.   *)
(***************************************************************************)
LEMMA CompleteOperations ==
  ASSUME NEW h \in Gadgets, h.bound => (h.base /\ h.udc /\ (h.link => h.ep0 = "ready"))
  PROVE  \A k \in {Bind(h), CloseEp0(h), TakeOut(h), Bind(TakeOut(h)), Bind(CloseEp0(h))} :
           k.bound => (k.base /\ k.udc /\ (k.link => k.ep0 = "ready"))
PROOF
  <1> DEFINE Complete(k) == k \in Gadgets /\ (k.bound => (k.base /\ k.udc /\ (k.link => k.ep0 = "ready")))
  <1>1. ASSUME NEW k, Complete(k)
        PROVE  Complete(Bind(k))
    BY <1>1 DEF Gadgets, Bind, Bindable
  <1>2. Complete(CloseEp0(h))
    BY DEF Gadgets, CloseEp0
  <1>3. Complete(TakeOut(h))
    BY DEF Gadgets, TakeOut
  <1>4. Complete(h)
    OBVIOUS
  <1> HIDE DEF Complete
  <1>5. \A k \in {Bind(h), CloseEp0(h), TakeOut(h), Bind(TakeOut(h)), Bind(CloseEp0(h))} : Complete(k)
    BY <1>1, <1>2, <1>3, <1>4
  <1> QED BY <1>5 DEF Complete

(***************************************************************************)
(* BoundIsComplete: while secure USB serves, its function is in the bound  *)
(* gadget, and no bound gadget has a function without descriptors.         *)
(***************************************************************************)
THEOREM BoundGadgetsAreComplete == Spec => []BoundIsComplete
<1> DEFINE Inv == ConfigInv /\ GadgetInv /\ CreateInv /\ LinkInv
<1>1. Init => LinkInv
  BY DEF Init, LinkInv, BoundIsComplete
<1>2. Inv /\ [Next]_vars => LinkInv'
  <2> SUFFICES ASSUME Inv, [Next]_vars PROVE LinkInv'
    OBVIOUS
  <2>0. \A k \in {Bind(g), CloseEp0(g), TakeOut(g), Bind(TakeOut(g)), Bind(CloseEp0(g))} :
          k.bound => (k.base /\ k.udc /\ (k.link => k.ep0 = "ready"))
    BY CompleteOperations DEF GadgetInv, LinkInv, BoundIsComplete
  <2>1. CASE udc_appears \/ usb_gadget_start
    BY <2>1 DEF udc_appears, usb_gadget_start, GadgetInv, Gadgets, LinkInv, BoundIsComplete, workerVars
  <2>2. CASE usb_gadget_bind
    <3>1. (g.bound => g'.bound) /\ g'.link = g.link
      BY <2>2 DEF usb_gadget_bind, Bind, GadgetInv, Gadgets
    <3> QED BY <2>0, <2>2, <3>1 DEF usb_gadget_bind, LinkInv, BoundIsComplete
  <2>3. CASE start \/ reload_restart
    <3>1. CASE NotRunning
      BY <3>1 DEF NotRunning, LinkInv, BoundIsComplete
    <3>2. CASE ~NotRunning
      <4>1. PICK t \in {"usb", "network"} : \E r \in start_servers(t) : r.ok /\ Running(t, r)
        BY <2>3, <3>2 DEF start, reload_restart, ConfigInv
      <4>2. g' \in {g, TakeOut(g)} /\ worker' \in {"none", "unbind"}
        BY <4>1, StartedRight DEF Running
      <4> QED BY <2>0, <4>2 DEF LinkInv, BoundIsComplete
    <3> QED BY <3>1, <3>2
  <2>4. CASE reload \/ on_signal \/ exit
    BY <2>4 DEF reload, on_signal, exit, NotRunning, LinkInv, BoundIsComplete, workerVars
  <2>5. CASE killed \/ create_fails
    BY <2>0, <2>5 DEF killed, create_fails, restore, LinkInv, BoundIsComplete
  <2>6. CASE create_unbind \/ create_function \/ create_mount \/ create_link \/ create_publish
    BY <2>6 DEF create_unbind, create_function, create_mount, create_link, create_publish, Proceed,
                prepare_unbind, prepare_function, prepare_mount, prepare_link, publish_descriptors,
                Unbind, GadgetInv, Gadgets, LinkInv, BoundIsComplete
  <2>7. CASE create_bind
    <3>1. g'.bound /\ g'.link = g.link /\ worker' = "serving" /\ worker = "bind" /\ g' = Bind(g)
      BY <2>7 DEF create_bind, Proceed, Bind, GadgetInv, Gadgets
    <3> QED BY <2>0, <3>1 DEF LinkInv, BoundIsComplete
  <2>8. CASE create_refused \/ release_ep0 \/ release_function \/ release_bind
    BY <2>0, <2>8 DEF create_refused, release_ep0, release_function, release_bind, Proceed, restore,
                      LinkInv, BoundIsComplete
  <2>9. CASE UNCHANGED vars
    BY <2>9 DEF vars, LinkInv, BoundIsComplete
  <2>10. CASE start_bind
    <3>1. g'.link = g.link /\ worker = "none" /\ worker' = "none"
      BY <2>10 DEF start_bind, Bind, GadgetInv, Gadgets, CreateInv, workerVars
    <3> QED BY <2>0, <2>10, <3>1 DEF start_bind, LinkInv, BoundIsComplete
  <2> QED
    BY <2>1, <2>2, <2>3, <2>4, <2>5, <2>6, <2>7, <2>8, <2>9, <2>10 DEF Next, Script, Main, Worker
<1>3. ConfigInv /\ [Next]_vars => ConfigInv'
  BY ConfigStep
<1>4. LinkInv => BoundIsComplete
  BY DEF LinkInv
<1>5. ConfigInv /\ GadgetInv /\ CreateInv /\ [Next]_vars => GadgetInv' /\ CreateInv'
  BY GadgetStep
<1>6. Init => ConfigInv /\ GadgetInv /\ CreateInv
  BY InitKept
<1> QED BY <1>1, <1>2, <1>3, <1>4, <1>5, <1>6, PTL DEF Spec
=============================================================================
