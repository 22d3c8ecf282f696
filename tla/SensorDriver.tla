---------------------------- MODULE SensorDriver ----------------------------
(* The VC MIPI camera driver (vc_mipi_camera.c, vc_mipi_core.c): its copy of the
   settings (vc_state), the limits it offers, and the registers of the sensor and
   of the module's controller that it writes over I2C. One action is one call of
   the V4L2 framework or of the I2C core. Any register write may fail; a register
   whose write failed holds nobody knows what.

   External: what the registers do, the order set_mode, start_streaming in which
   the framework's s_stream calls the driver, and the module's EEPROM. *)
EXTENDS SensorTiming

CONSTANTS
  Boards,         \* a module and a device tree for each name: of the EEPROM id, clkTrigger,
                  \* clkPixel, shsBytes, modes; of the tree lanes, images, gain, trigger, io
  Requests,       \* what applications ask of a board: for each board sets format, exposure,
                  \* gain, blacklevel, framerate, io, trigger, binning
  MaxFaults,      \* bound: calls with a write that fails
  Reset,          \* model value: what a register holds after the module was powered up
  Unknown         \* model value: what it holds after a write to it failed

NoBinning == -1     \* an image of the device tree without binning_mode
NoMode == 0         \* vc_state.mode = 0xff
Filled(entry, eeprom) == IF entry = EEPROM THEN eeprom ELSE entry

(* What a board is: a sensor of the table, and an EEPROM whose modes have rows there (for
   others vc_core_get_mode() returns a row of zeros) and a data rate, and which gives the
   clocks and the shutter registers the table has not. A line takes a microsecond at
   least, or the largest frame rate would be divided by 0; so would a gain, if the device
   tree gave it a single value. *)
BoardKnown(m) ==
  LET sensor == vc_mod_ctrl_init[m.id]
      clkPixel == Filled(sensor.clkPixel, m.clkPixel)
  IN  /\ m.id \in DOMAIN vc_mod_ctrl_init
      /\ m.modes \in Seq([lanes : Lanes(sensor), format : Formats(sensor), type : STRING,
                          binning : Nat, rate : 1..CountMax])
      /\ m.modes # << >>
      /\ m.clkTrigger \in Nat /\ Filled(sensor.clkTrigger, m.clkTrigger) > 0
      /\ m.clkPixel \in Nat /\ clkPixel > 0
      /\ \A i \in DOMAIN sensor.modes : (sensor.modes[i].hmax * 1000000) \div clkPixel >= 1000
      /\ m.shsBytes \in DOMAIN Span
      /\ m.images \in Seq([height : Nat, binning : {NoBinning} \cup Nat]) /\ m.images # << >>
      /\ m.gain \in [min : Nat, max : Nat] /\ m.gain.min < m.gain.max
      /\ m.trigger \in TriggerModes /\ m.io \in 0..5

(* Applications may ask for any value of a control and any format. *)
RequestsTyped(r) ==
  /\ r.exposure \subseteq Nat /\ r.gain \subseteq Nat /\ r.blacklevel \subseteq Nat
  /\ r.framerate \subseteq Nat /\ r.io \subseteq Nat /\ r.binning \subseteq Nat
  /\ r.trigger \subseteq TriggerModes

ASSUME DriverAssumption ==
  /\ \A b \in DOMAIN Boards : BoardKnown(Boards[b]) /\ RequestsTyped(Requests[b])
  /\ MaxFaults \in Nat

VARIABLES
  bound,   \* "no", "failed" (vc_probe gave up and returned 0) or "ok"
  board,   \* the name of the module and its device tree
  st,      \* vc_state
  limit,   \* vc_ctrl.exposure.max and vc_ctrl.framerate.max
  hw,      \* the registers, by group
  call,    \* the last call: [op, ok, arg, again: was the one before the same?]
  told,    \* has a call reported an error since the probe?
  faults   \* calls with a write that failed so far

driverVars == <<bound, board, st, limit, hw, call, told, faults>>

(* The module's controller keeps its registers when it powers the sensor down. *)
SensorRegs == {"senL", "senM", "roi", "binRegs", "rowRegs", "shs", "vmax", "flash", "gain", "black"}
ModuleRegs == {"mode", "expo", "retrig", "io", "trig"}
Regs == SensorRegs \cup ModuleRegs

(* Which of a call's writes G fail: none, one, or - the bus is dead - all. "down", "up"
   and "ready" stand for power down and up and for a module that reports an error
   instead of getting ready. *)
Failures(G) == {{}} \cup (IF faults < MaxFaults THEN {G} \cup {{g} : g \in G} ELSE {})

cam == Boards[board]

(* vc_ctrl: the table's record with what the EEPROM has to give. *)
Ctrl == [b \in DOMAIN Boards |->
  [vc_mod_ctrl_init[Boards[b].id] EXCEPT !.clkTrigger = Filled(@, Boards[b].clkTrigger),
                                         !.clkPixel = Filled(@, Boards[b].clkPixel),
                                         !.shsBytes = Filled(@, Boards[b].shsBytes)]]
ctrl == Ctrl[board]

RowOf(s) == vc_core_get_mode(ctrl, s.lanes, s.format, s.binning)
VFactor(s) == vc_core_get_binning(ctrl, s).v

Written(regs, w, F) ==
  [g \in Regs |-> IF g \notin DOMAIN w THEN regs[g] ELSE IF g \in F THEN Unknown ELSE w[g]]
\* Mutant: the last write's result replaces those before it.
LastFailed(w, F) == F \cap DOMAIN w \cap {"gain", "black", "trig", "flash"} # {}

Failed(w, F) == F \cap DOMAIN w # {}

NoWrites == [g \in {} |-> Reset]

(* A call ends: F failed, the caller is told when ok is FALSE. Which call it was matters
   for set_mode and start. *)
Other == [op |-> "other", ok |-> TRUE, arg |-> NoMode, again |-> FALSE]

Return(op, arg, F, ok) ==
  /\ call' = IF op = "other" THEN Other
             ELSE [op |-> op, ok |-> ok, arg |-> arg, again |-> call.op = op /\ call.arg = arg]
  /\ told' = (told \/ (~ok /\ F # {}))
  /\ faults' = IF F = {} THEN faults ELSE faults + 1
  /\ UNCHANGED <<bound, board>>

-----------------------------------------------------------------------------
(* Limits and settings. *)

vc_core_update_controls(s) ==
  IF "INCREASE_FRAME_RATE" \in ctrl.flags
  THEN [exposure |-> vc_core_calculate_max_exposure(ctrl, RowOf(s), s.trigger),
        framerate |-> vc_core_calculate_max_frame_rate(ctrl, RowOf(s), VFactor(s), s.height)]
  ELSE limit

NoLimit == [exposure |-> 0, framerate |-> 0]

vc_core_state_init ==
  LET first == cam.modes[1] IN
  [ mode |-> NoMode, exposure |-> ctrl.exposure.def, gain |-> ctrl.gain.def,
    blacklevel |-> BlackDef(vc_core_get_mode(ctrl, first.lanes, first.format, 0)),
    framerate |-> 0, format |-> first.format, lanes |-> first.lanes, height |-> ctrl.height,
    io |-> {}, trigger |-> "DISABLE", trigReg |-> "DISABLE", binning |-> 0, former |-> 0,
    shs |-> 0, vmax |-> 0, streaming |-> FALSE ]

LanesKnown == \E i \in DOMAIN cam.modes : cam.modes[i].lanes = cam.lanes

TriggerFlags ==
  [ EXTERNAL |-> {"TRIGGER_EXTERNAL"}, PULSEWIDTH |-> {"TRIGGER_PULSEWIDTH"},
    SELF |-> {"TRIGGER_SELF", "TRIGGER_SELF_V2"}, SINGLE |-> {"TRIGGER_SINGLE"},
    SYNC |-> {"TRIGGER_SYNC", "TRIGGER_SLAVE"}, STREAM_EDGE |-> {"TRIGGER_STREAM_EDGE"},
    STREAM_LEVEL |-> {"TRIGGER_STREAM_LEVEL"}, OVERLAP |-> {"TRIGGER_OVERLAP"} ]

TriggerSupported(mode) == mode = "DISABLE" \/ TriggerFlags[mode] \cap ctrl.flags # {}
TriggerReg(mode) == IF mode = "OVERLAP" THEN "EXTERNAL" ELSE mode

IoBits == << {"FLASH"}, {"FLASH", "FLASH_LOW"}, {"TRIG_LOW"}, {"FLASH", "TRIG_LOW"},
             {"FLASH", "FLASH_LOW", "TRIG_LOW"} >>
IoExtra == IF "EXPOSURE_OMNIVISION" \in ctrl.flags THEN {"XTRIG"} ELSE {}

(* What the device tree says of trigger, I/O and lanes. *)
vc_init_io(s) ==
  [s EXCEPT !.trigger = IF TriggerSupported(cam.trigger) THEN cam.trigger ELSE @,
            !.trigReg = IF TriggerSupported(cam.trigger) THEN TriggerReg(cam.trigger) ELSE @,
            !.io = IF cam.io = 0 \/ "IO_ENABLED" \notin ctrl.flags THEN @
                   ELSE IoBits[cam.io] \cup IoExtra]

vc_init_lanes(s) == [s EXCEPT !.lanes = cam.lanes]

(* The limits the controls are offered with. *)
vc_init_tegra_controls(s) ==
  IF "INCREASE_FRAME_RATE" \in ctrl.flags THEN vc_core_update_controls(s)
  ELSE [exposure |-> ctrl.exposure.max, framerate |-> ctrl.framerateMax]

(* vc_probe() returns 0 whatever fails: an EEPROM that is not read or names no module the
   driver knows, or lanes the module does not have. *)
vc_probe ==
  /\ bound = "no"
  /\ \/ /\ LanesKnown
        /\ bound' = "ok"
        /\ st' = vc_init_lanes(vc_init_io(vc_core_state_init))
        /\ limit' = vc_init_tegra_controls(st')
     \/ bound' = "failed" /\ UNCHANGED <<st, limit>>
  /\ call' = Other
  /\ told' = FALSE
  /\ UNCHANGED <<board, hw, faults>>

(* Only a device that was probed is removed here: after a failed probe vc_remove()
   follows a null pointer. *)
vc_remove ==
  /\ bound = "ok"
  /\ bound' = "no"
  /\ st' = vc_core_state_init
  /\ limit' = NoLimit
  /\ call' = Other
  /\ UNCHANGED <<board, hw, told, faults>>

(* The image a call takes. When the channel bypasses the VI, for the ISP, it is the one of
   the mode sensor_mode_id names, with the binning the device tree gives this mode, if it
   gives one; otherwise it is the first one, and the binning stays. *)
Images == {[height |-> cam.images[1].height, binning |-> NoBinning]}
            \cup {cam.images[i] : i \in DOMAIN cam.images}

BinningFor(s, image) == IF image.binning = NoBinning THEN s.binning ELSE image.binning

(* The image, times the binning it will have, is in the frame. (The height stands for both
   its dimensions.) *)
vc_ready_to_stream(image) ==
  image.height * VFactor([st EXCEPT !.binning = BinningFor(st, image)]) <= ctrl.height

(* A format that no mode of the module has is refused, and its first mode's is taken. *)
vc_core_try_format(format) == \E i \in DOMAIN cam.modes : cam.modes[i].format = format

vc_core_set_format(s, format) ==
  [s EXCEPT !.format = IF vc_core_try_format(format) THEN format ELSE cam.modes[1].format]

(* An image of size 0 leaves the whole frame; a binning the module does not have is not
   taken. *)
vc_update_image_size_from_mode(s, image) ==
  IF image.height = 0 THEN [s EXCEPT !.height = ctrl.height]
  ELSE [s EXCEPT !.height = image.height,
                 !.binning = IF BinningFor(s, image) <= ctrl.maxBinning
                             THEN BinningFor(s, image) ELSE @]

\* Mutant: the limits are left as the old format had them.
SetModeOnly ==
  \E format \in Requests[board].format, image \in Images :
    /\ bound = "ok" /\ vc_ready_to_stream(image)
    /\ vc_core_try_format(format)
    /\ st' = [st EXCEPT !.format = format, !.height = image.height]
    /\ Return("set_mode", <<format, image>>, {}, TRUE)
    /\ UNCHANGED <<limit, hw>>

(* vc_set_mode(): the limits are computed from the old height and binning, then both
   are set. The result of vc_sen_set_binning_mode() is not used. *)
vc_set_mode ==
  \E format \in Requests[board].format, image \in Images :
    /\ bound = "ok" /\ vc_ready_to_stream(image)
    /\ limit' = vc_core_update_controls(vc_core_set_format(st, format))
    /\ st' = vc_update_image_size_from_mode(vc_core_set_format(st, format), image)
    /\ Return("set_mode", <<format, image>>, {}, vc_core_try_format(format))
    /\ UNCHANGED hw

vc_set_binning_mode ==
  \E binning \in Requests[board].binning :
    LET known == binning <= ctrl.maxBinning
    IN  /\ bound = "ok"
        /\ st' = IF known THEN [st EXCEPT !.binning = binning] ELSE st
        /\ Return("other", NoMode, {}, known)
        /\ UNCHANGED <<limit, hw>>

vc_set_trigger_mode ==
  \E mode \in Requests[board].trigger :
    LET new == [st EXCEPT !.trigger = mode, !.trigReg = TriggerReg(mode)]
    IN  /\ bound = "ok"
        /\ st' = IF TriggerSupported(mode) THEN new ELSE st
        /\ limit' = IF TriggerSupported(mode) THEN vc_core_update_controls(new) ELSE limit
        /\ Return("other", NoMode, {}, TriggerSupported(mode))
        /\ UNCHANGED hw

(* An unknown mode is refused, but may have added a bit to the mode that stays. *)
vc_set_io_mode ==
  \E mode \in Requests[board].io :
    LET known == mode = 0 \/ ("IO_ENABLED" \in ctrl.flags /\ mode \in DOMAIN IoBits)
    IN  /\ bound = "ok"
        /\ st' = [st EXCEPT !.io =
                    IF mode = 0 THEN {} ELSE IF "IO_ENABLED" \notin ctrl.flags THEN @
                    ELSE IF known THEN IoBits[mode] \cup IoExtra ELSE @ \cup IoExtra]
        /\ Return("other", NoMode, {}, known)
        /\ UNCHANGED <<limit, hw>>

(* The control's range, which the framework keeps a value in, is the device tree's; it is
   scaled to the length of the sensor's range, from 0. *)
Gain(value) ==
  ((ctrl.gain.max - ctrl.gain.min) * value) \div (cam.gain.max - cam.gain.min) + ctrl.gain.min

vc_set_gain ==
  \E value \in Requests[board].gain, F \in Failures({"gain"}) :
    LET w == [gain |-> Clamp(Gain(value), ctrl.gain)]
    IN  /\ bound = "ok" /\ value \in cam.gain.min..cam.gain.max
        /\ hw' = Written(hw, w, F)
        /\ st' = IF Failed(w, F) THEN st ELSE [st EXCEPT !.gain = w.gain]
        /\ Return("other", NoMode, F, ~Failed(w, F))
        /\ UNCHANGED limit

vc_set_black_level ==
  \E rel \in Requests[board].blacklevel, F \in Failures({"black"}) :
    LET w == [black |-> BlackAbs(RowOf(st), rel)]
    IN  /\ bound = "ok"
        /\ hw' = Written(hw, w, F)
        /\ st' = IF Failed(w, F) THEN st ELSE [st EXCEPT !.blacklevel = rel]
        /\ Return("other", NoMode, F, ~Failed(w, F))
        /\ UNCHANGED limit

-----------------------------------------------------------------------------
(* Exposure. *)

Clamped(exposure) == Clamp(exposure, [min |-> ctrl.exposure.min, max |-> limit.exposure])

Triggered(s) == /\ {"EXPOSURE_SONY", "EXPOSURE_NORMAL"} \cap ctrl.flags # {}
                /\ s.trigger \in {"EXTERNAL", "SINGLE", "SELF", "OVERLAP"}

(* vc_state.shs and vmax: the frame with this exposure in it, none when a trigger makes
   the exposure. *)
Frame(s, exposure) ==
  IF Triggered(s) \/ (s.trigger = "PULSEWIDTH" /\ "EXPOSURE_OMNIVISION" \notin ctrl.flags)
  THEN [shs |-> 0, vmax |-> 0]
  ELSE vc_calculate_exposure(ctrl, RowOf(s), VFactor(s), s.height, s.framerate, s.trigger, exposure)

(* The registers vc_sen_set_exposure() writes. The time between two triggers is not
   changed while the sensor streams, unless it is of the second kind. *)
ExposureWrites(s, exposure) ==
  IF Triggered(s)
  THEN LET n == vc_calculate_trig_exposure(ctrl, RowOf(s), s.framerate, s.trigger, exposure)
       IN  [g \in {"expo"} \cup (IF s.streaming /\ "TRIGGER_SELF_V2" \notin ctrl.flags
                                 THEN {} ELSE {"retrig"}) |->
              IF g = "expo" THEN n.expo ELSE n.retrigger]
  ELSE LET n == Frame(s, exposure)
           shs == Low(n.shs, ctrl.shsBytes)
           vmax == Low(n.vmax, ctrl.vmaxBytes)
       IN  IF "EXPOSURE_OMNIVISION" \in ctrl.flags
           THEN [shs |-> shs, vmax |-> vmax, flash |-> FlashDuration(exposure)]
           ELSE IF s.trigger = "PULSEWIDTH" THEN NoWrites ELSE [shs |-> shs, vmax |-> vmax]

(* What an exposure leaves in vc_state: the frame whatever failed, itself unless a write
   did. *)
Exposed(s, exposure, failed) ==
  [s EXCEPT !.exposure = IF failed THEN @ ELSE exposure,
            !.shs = Frame(s, exposure).shs, !.vmax = Frame(s, exposure).vmax]

(* vc_sen_set_exposure() with the frame rate s has. *)
SetExposure(s, exposure) ==
  LET w == ExposureWrites(s, Clamped(exposure)) IN
  \E F \in Failures(DOMAIN w) :
        /\ bound = "ok"
        /\ hw' = Written(hw, w, F)
        /\ st' = Exposed(s, Clamped(exposure), Failed(w, F))
        /\ Return("other", NoMode, F, ~Failed(w, F))
        /\ UNCHANGED limit

vc_set_exposure == \E exposure \in Requests[board].exposure : SetExposure(st, exposure)

vc_set_frame_rate ==
  \E framerate \in Requests[board].framerate :
    SetExposure(
      [st EXCEPT !.framerate = IF framerate > limit.framerate THEN limit.framerate ELSE framerate],
      st.exposure)

-----------------------------------------------------------------------------
(* Streaming. *)

ModeType(s) ==
  CASE s.trigger \in {"EXTERNAL", "PULSEWIDTH", "SELF", "SINGLE"} -> "TRIGGER"
    [] s.trigger = "OVERLAP" -> "TRIGGER_OVERLAP"
    [] s.trigger = "SYNC" /\ "TRIGGER_SLAVE" \in ctrl.flags -> "SLAVE"
    [] OTHER -> "STREAM"

(* The module's fastest mode for lanes, format, type and binning, or its first mode. *)
vc_mod_find_mode(s) ==
  LET bin == IF vc_core_get_binning(ctrl, s).useModMode THEN s.binning ELSE 0
      fit == {i \in DOMAIN cam.modes : /\ cam.modes[i].lanes = s.lanes
                                       /\ cam.modes[i].format = s.format
                                       /\ cam.modes[i].type = ModeType(s)
                                       /\ cam.modes[i].binning = bin}
  IN  IF fit = {} THEN 1
      ELSE CHOOSE i \in fit : \A j \in fit :
             \/ cam.modes[i].rate > cam.modes[j].rate
             \/ cam.modes[i].rate = cam.modes[j].rate /\ i <= j

\* Mutant: the binning the module was left with is forgotten.
OtherMode(s) == vc_mod_find_mode(s) # s.mode

(* vc_mod_set_mode(): the module is left alone when it is in that mode, its type need
   not be reset each time, and no binning has to be undone. *)
MustReset(s) ==
  \/ vc_mod_find_mode(s) # s.mode
  \/ s.former > 0 /\ s.binning = 0
  \/ ModeType(s) = "STREAM" /\ "RESET_STREAMMODE_ALWAYS" \in ctrl.flags
  \/ ModeType(s) \in {"TRIGGER", "TRIGGER_OVERLAP"} /\ "RESET_TRIGMODE_ALWAYS" \in ctrl.flags
  \/ ModeType(s) = "SLAVE"

ResetFails(F) == F \cap {"down", "mode", "up", "ready"} # {}

(* vc_mod_reset_module(): power down, write the mode, power up. *)
vc_mod_reset_module(regs, mode, F) ==
  [g \in Regs |->
     IF g \in SensorRegs THEN IF {"down", "up"} \cap F = {} THEN Reset ELSE Unknown
     ELSE IF g = "mode" THEN IF "mode" \in F THEN Unknown ELSE mode
     ELSE regs[g]]

(* The window the sensor reads out: the image times its binning. *)
vc_core_calculate_roi(s) == <<s.height, VFactor(s)>>

(* write_binning_mode_regs() has registers to write for a binned row. *)
HasRowRegs(s) == s.binning > 0 /\ "USE_BINNING_INDEX" \in ctrl.flags

(* vc_sen_set_roi(): the window, the registers of the binning, and with a binning the
   registers of its row. *)
RoiWrites(s) ==
  [g \in {"roi", "binRegs"} \cup (IF HasRowRegs(s) THEN {"rowRegs"} ELSE {}) |->
     CASE g = "roi" -> vc_core_calculate_roi(s)
       [] g = "binRegs" -> IF vc_core_get_binning(ctrl, s).useModMode THEN Reset ELSE s.binning
       [] g = "rowRegs" -> <<s.lanes, s.format, s.binning>>]

(* The errors of i2c_write_regs() are not looked at. *)
Reported(w, F) == (F \ {"binRegs"}) \cap DOMAIN w # {}

ModeWrites(value) == [g \in {"senL"} \cup (IF ctrl.modeHigh THEN {"senM"} ELSE {}) |-> value]

Operates(s) == "EXPOSURE_OMNIVISION" \notin ctrl.flags \/ s.trigger = "DISABLE"

IoWrites(s) ==
  IF "TRIGGER_SLAVE" \in ctrl.flags /\ s.trigger = "SYNC"
  THEN [io |-> {"XTRIG"}, trig |-> "DISABLE"] ELSE [io |-> s.io, trig |-> s.trigReg]

(* vc_sen_write_mode() to operating: the second register is written first, and its
   error is overwritten by the result of the first one. *)
OperatingReported(F) == "senL" \in F

(* vc_start_streaming(): mode, window, exposure, then - after a reset and only when
   nothing failed so far - gain and black level, and at last operating mode and I/O. A
   sensor that already streams is stopped in between (only the operating mode of one
   that does not operate shows it). *)
StartWith(reset, mode, roi, expo, restored, stop, oper, io) ==
  \E F \in Failures(DOMAIN roi \cup DOMAIN expo \cup DOMAIN stop \cup DOMAIN oper \cup DOMAIN io
                    \cup (IF reset THEN {"down", "mode", "up", "ready", "gain", "black"} ELSE {})) :
    LET base == IF reset THEN vc_mod_reset_module(hw, mode, F) ELSE hw
        early == \/ reset /\ ResetFails(F)
                 \/ Reported(roi, F) \/ Failed(expo, F)
        lost == IF reset /\ ~early THEN restored ELSE NoWrites
        late == Failed(lost, F) \/ (Operates(st) /\ OperatingReported(F)) \/ Failed(io, F)
    IN  /\ bound = "ok" /\ call.op = "set_mode" /\ call.ok
        /\ hw' = Written(Written(Written(Written(Written(Written(base, roi, F), expo, F),
                                                 lost, F), stop, F), oper, F), io, F)
        /\ st' = [Exposed(st, Clamped(st.exposure), Failed(expo, F)) EXCEPT
                     !.mode = IF reset /\ ~ResetFails(F) THEN mode ELSE @,
                     !.former = st.binning, !.streaming = TRUE]
        /\ Return("start", NoMode, F, ~early /\ ~late)
        /\ UNCHANGED limit

vc_start_streaming ==
  StartWith(MustReset(st), vc_mod_find_mode(st), RoiWrites(st),
            ExposureWrites(st, Clamped(st.exposure)),
            [gain |-> Clamp(st.gain, ctrl.gain), black |-> BlackAbs(RowOf(st), st.blacklevel)],
            IF st.streaming THEN ModeWrites("standby") ELSE NoWrites,
            IF Operates(st) THEN ModeWrites("operating") ELSE NoWrites, IoWrites(st))

vc_stop_streaming ==
  LET w == [g \in {"trig", "io"} |-> IF g = "trig" THEN "DISABLE" ELSE {}]
      standby == ModeWrites("standby")
  IN  \E F \in Failures(DOMAIN w \cup DOMAIN standby) :
        /\ bound = "ok" /\ st.streaming
        /\ hw' = Written(Written(hw, w, F), standby, F)
        /\ st' = [st EXCEPT !.streaming = FALSE]
        /\ Return("other", NoMode, F, F = {})
        /\ UNCHANGED limit

(* A trigger by hand. *)
vc_set_single_trigger ==
  \E F \in Failures({"trig"}) :
    LET w == [trig |-> "SINGLE"]
    IN  /\ bound = "ok"
        /\ hw' = Written(hw, w, F)
        /\ Return("other", NoMode, F, ~Failed(w, F))
        /\ UNCHANGED <<st, limit>>

-----------------------------------------------------------------------------
DriverInit ==
  /\ bound = "no"
  /\ board \in DOMAIN Boards
  /\ st = vc_core_state_init
  /\ limit = NoLimit
  /\ hw = [g \in Regs |-> Unknown]
  /\ call = Other
  /\ told = FALSE
  /\ faults = 0

DriverNext ==
  \/ vc_probe \/ vc_remove
  \/ vc_set_mode \/ vc_set_binning_mode \/ vc_set_trigger_mode \/ vc_set_io_mode
  \/ vc_set_gain \/ vc_set_black_level \/ vc_set_exposure \/ vc_set_frame_rate
  \/ vc_set_single_trigger \/ vc_start_streaming \/ vc_stop_streaming

DriverSpec == DriverInit /\ [][DriverNext]_driverVars

-----------------------------------------------------------------------------
(* Properties. *)

States == [ mode : Nat, exposure : Nat, gain : Nat, blacklevel : Nat, framerate : Nat,
            format : VcFormats, lanes : {1, 2, 4}, height : Nat,
            io : SUBSET {"FLASH", "FLASH_LOW", "TRIG_LOW", "XTRIG"}, trigger : TriggerModes,
            trigReg : TriggerModes \ {"OVERLAP"}, binning : 0..MaxBinnings - 1,
            former : 0..MaxBinnings - 1, shs : Nat, vmax : Nat, streaming : BOOLEAN ]

(* Types: the settings are of the sensor the driver found, exposure and gain within
   what the module offers; the registers have a value each. *)
DriverTypeOK ==
  /\ bound \in {"no", "failed", "ok"}
  /\ board \in DOMAIN Boards
  /\ st \in States
  /\ st.mode \in {NoMode} \cup DOMAIN cam.modes
  /\ st.binning <= ctrl.maxBinning
  /\ st.gain \in ctrl.gain.min..ctrl.gain.max
  /\ limit \in [exposure : Nat, framerate : Nat]
  /\ DOMAIN hw = Regs
  /\ faults \in 0..MaxFaults

(* The registers a successful start is to leave behind: the window, the exposure or the
   trigger counts, and I/O. Not among them: the binning registers, whose errors
   i2c_write_regs() drops, and the operating mode, whose error vc_sen_write_mode() drops. *)
StartRegisters(s) ==
  LET w == ExposureWrites(s, s.exposure)
  IN  /\ hw'["roi"] = vc_core_calculate_roi(s)
      /\ \A g \in DOMAIN w : hw'[g] = w[g]
      /\ hw'["io"] = IoWrites(s).io /\ hw'["trig"] = IoWrites(s).trig

(* vc_start_streaming(): whatever failed earlier, a start that returns 0 has written the
   window, the exposure and the I/O that vc_state has now. *)
SuccessMeansWritten ==
  [][(call'.op = "start" /\ call'.ok) => StartRegisters([st' EXCEPT !.streaming = st.streaming])]_driverVars

(* vc_mod_set_mode(), vc_start_streaming(): while no call has reported an error, a start
   also leaves the module in its mode, and gain, black level and the registers of a binned
   row as vc_state has them: a reset that clears them is followed by their being written,
   and a binning that is given up by a reset that clears its registers. (The black level
   may have been scaled for a format that was asked for meanwhile and given up again.) *)
InSyncUnlessTold ==
  [][(call'.op = "start" /\ ~told') =>
       /\ hw'["mode"] = st'.mode /\ st'.mode = vc_mod_find_mode(st')
       /\ hw'["gain"] = st'.gain
       /\ \E i \in DOMAIN ctrl.modes : hw'["black"] = BlackAbs(ctrl.modes[i], st'.blacklevel)
       /\ hw'["rowRegs"] = IF "rowRegs" \in DOMAIN RoiWrites(st')
                           THEN RoiWrites(st')["rowRegs"] ELSE Reset]_driverVars

(* vc_calculate_exposure(), i2c_write_reg4(): as long as the frame that was computed fits
   the registers, shutter and frame length in the sensor fit together: the exposure starts
   no earlier than the row allows and within the frame, whichever write failed. (With a
   master, TRIGGER_MODE_SYNC, the frame is a line shorter. What does not fit is written
   without its upper bytes: a low frame rate, which framerate.min = 0 allows, or a long
   exposure under a limit that was computed for another binning.) *)
ShutterInsideFrame ==
  (/\ hw["shs"] \notin {Reset, Unknown} /\ hw["vmax"] \notin {Reset, Unknown}
   /\ st.vmax # 0 /\ st.shs < Span[ctrl.shsBytes] /\ st.vmax < Span[ctrl.vmaxBytes]) =>
    /\ \E i \in DOMAIN ctrl.modes : ctrl.modes[i].vmaxMin <= hw["shs"]
    /\ hw["shs"] <= hw["vmax"] + (IF TriggerSupported("SYNC") THEN 1 ELSE 0)

(* vc_set_mode(): "Currently it is necessary to start streaming twice!" - the second of
   two calls for the same format computes the limits from the settings both leave. *)
LimitsSettle ==
  (call.op = "set_mode" /\ call.again) => limit = vc_core_update_controls(st)
=============================================================================
