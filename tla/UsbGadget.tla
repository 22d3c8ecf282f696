----------------------------- MODULE UsbGadget -----------------------------
(* The USB gadget "vc-camera" in configfs and what the program and usb-gadget.sh do
   to it. The gadget carries the base functions, NCM network and ACM serial, and
   while secure USB runs the FunctionFS function ffs.secure. g is a record:

     udc       a USB device controller has been probed (first_udc() finds it)
     base      the gadget's directory with the base functions exists
     bound     the gadget is bound to the controller: the host sees it
     function  functions/ffs.secure exists
     link      configs/c.1/ffs.secure exists
     mounted   FunctionFS is mounted at /dev/ffs-secure
     ep0       "closed", or "ready": open, with descriptors written

   External: the kernel. It binds a configuration with a FunctionFS function only
   while the function has descriptors, and closing ep0 of a bound one unbinds the
   whole gadget. *)
EXTENDS Naturals

Gadgets == [udc : BOOLEAN, base : BOOLEAN, bound : BOOLEAN, function : BOOLEAN,
            link : BOOLEAN, mounted : BOOLEAN, ep0 : {"closed", "ready"}]

Bindable(g) == g.base /\ g.udc /\ ~g.bound /\ (g.link => g.ep0 = "ready")

(* The write of the controller's name to UDC, and of a newline. *)
Bind(g) == [g EXCEPT !.bound = g.bound \/ Bindable(g)]
Unbind(g) == [g EXCEPT !.bound = FALSE]

(* ep0 is closed, by the program or by its end. *)
CloseEp0(g) ==
  [g EXCEPT !.ep0 = "closed", !.bound = g.bound /\ ~(g.link /\ g.ep0 = "ready")]

\* Mutant: the gadget is left as the last owner of the function left it.
KeepGadget(g) == g

(* The function and every trace of it go. *)
TakeOut(g) == [g EXCEPT !.bound = FALSE, !.mounted = FALSE, !.link = FALSE, !.function = FALSE]

(* FfsGadget::release_base_gadget() up to its binding of what is left: take the function
   out, or do nothing when there is no trace of it. It binds when it saw a controller. *)
release_base_gadget(g) == IF ~g.link /\ ~g.function THEN g ELSE TakeOut(g)
Rebinds(g) == (g.link \/ g.function) /\ g.udc

(* FfsGadget::create(), step by step, each as it goes when it does not fail. *)
prepare_unbind(g) == Unbind(g)
prepare_function(g) == [g EXCEPT !.mounted = FALSE, !.function = TRUE]
prepare_mount(g) == [g EXCEPT !.mounted = TRUE]
prepare_link(g) == [g EXCEPT !.link = TRUE]
publish_descriptors(g) == [g EXCEPT !.ep0 = "ready"]

(* create() gives up: ep0 is closed and the gadget bound if that is possible. The base
   functions come back only when the function is not in the configuration yet. *)
restore(g, base_udc) == IF base_udc THEN Bind(CloseEp0(g)) ELSE CloseEp0(g)
=============================================================================
