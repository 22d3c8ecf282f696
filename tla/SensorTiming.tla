--------------------------- MODULE SensorTiming ---------------------------
(* The arithmetic of the VC MIPI driver (vc_mipi_core.c): line period, limits of
   exposure and frame rate, shutter and trigger counts. c is the vc_ctrl of a
   detected module (a record of SensorTable with its clocks filled in), mode a
   row of its table, st the vc_state.

   Times are in us, the frame rate in mHz, clocks in kHz. The source computes in
   64 bits what it then divides; the operators give the same integers with
   intermediate results that stay small. *)
EXTENDS Integers, SensorTable

CONSTANT CountMax       \* 0xffffffff, the largest count of the trigger unit

ASSUME CountMaxNat == CountMax \in Nat \ {0}

(* floor(a * b / d) without forming a * b, and the kernel's DIV_ROUND_CLOSEST. *)
MulDiv(a, b, d) == (a \div d) * b + ((a % d) * b) \div d
DIV_ROUND_CLOSEST(x, d) == (x + d \div 2) \div d

\* Mutant: the upper end of the range is not looked at.
ClampBelow(v, range) == IF v < range.min THEN range.min ELSE v

Clamp(v, range) == IF v < range.min THEN range.min ELSE IF v > range.max THEN range.max ELSE v

TriggerModes == {"DISABLE", "EXTERNAL", "PULSEWIDTH", "SELF", "SINGLE", "SYNC",
                 "STREAM_EDGE", "STREAM_LEVEL", "OVERLAP"}
StreamModes == {"DISABLE", "SYNC", "STREAM_EDGE", "STREAM_LEVEL"}

(* The first row for these lanes, this format and this binning. *)
vc_core_get_mode(c, lanes, format, binning) ==
  LET b == IF "USE_BINNING_INDEX" \in c.flags THEN binning ELSE 0
      rows == {i \in DOMAIN c.modes : /\ c.modes[i].lanes = lanes
                                      /\ c.modes[i].format = format
                                      /\ c.modes[i].binning = b}
  IN  c.modes[CHOOSE i \in rows : \A j \in rows : i <= j]

vc_core_get_binning(c, st) ==
  IF st.binning + 1 \in DOMAIN c.binnings THEN c.binnings[st.binning + 1]
  ELSE [useModMode |-> FALSE, h |-> 0, v |-> 0]

(* Duration of a line in ns: hmax * 10^9 / clk_pixel. *)
vc_core_calculate_period_1H(c, mode) == (mode.hmax * 1000000) \div c.clkPixel

vc_core_calculate_max_exposure(c, mode, trigger) ==
  IF trigger \in StreamModes
  THEN MulDiv(c.vmaxMax - mode.vmaxMin, vc_core_calculate_period_1H(c, mode), 1000)
  ELSE MulDiv(CountMax, 1000, c.clkTrigger)

(* A lower image needs fewer lines, when the sensor can use that. *)
vc_core_get_optimized_vmax(c, mode, v, height) ==
  LET full == IF v > 0 THEN c.height \div v ELSE c.height
  IN  IF mode.vmaxDef # 0 /\ "INCREASE_FRAME_RATE" \in c.flags /\ height < full
      THEN mode.vmaxDef - (full - height) ELSE mode.vmaxDef

vc_core_calculate_max_frame_rate(c, mode, v, height) ==
  1000000000 \div MulDiv(vc_core_get_optimized_vmax(c, mode, v, height),
                         vc_core_calculate_period_1H(c, mode), 1000)

(* floor(10^12 / framerate) \div period: the lines of a frame at that rate. *)
FrameLines(framerate, period) ==
  LET us == 1000000000 \div framerate
      ns == ((1000000000 % framerate) * 1000) \div framerate
  IN  (us \div period) * 1000 + ((us % period) * 1000 + ns) \div period

(* A frame is prolonged when the frame rate setting asks for it. *)
vc_core_calculate_vmax(optimized, framerate, period) ==
  IF framerate > 0 /\ FrameLines(framerate, period) > optimized
  THEN FrameLines(framerate, period) ELSE optimized

\* Mutant: a long exposure does not prolong the frame.
FrameKept(vmax, shsMin, lines, trigger) ==
  [shs |-> IF lines < vmax - shsMin THEN vmax - lines ELSE lines + shsMin, vmax |-> vmax]

(* The exposure starts shs lines after the frame and ends with it; a longer one
   prolongs the frame. A sensor that follows a master runs a line faster. *)
vc_calculate_exposure_sony(vmax, shsMin, lines, trigger) ==
  LET fits == lines < vmax - shsMin
      frame == IF fits THEN vmax ELSE shsMin + lines
  IN  [shs |-> IF fits THEN vmax - lines ELSE shsMin,
       vmax |-> IF trigger = "SYNC" THEN frame - 1 ELSE frame]

(* Here shs is the exposure itself. *)
vc_calculate_exposure_normal(vmax, shsMin, lines) ==
  [shs |-> IF lines < shsMin THEN shsMin ELSE lines,
   vmax |-> IF lines < shsMin \/ lines < vmax THEN vmax ELSE lines]

vc_calculate_exposure(c, mode, v, height, framerate, trigger, exposure) ==
  LET period == vc_core_calculate_period_1H(c, mode)
      vmax == vc_core_calculate_vmax(vc_core_get_optimized_vmax(c, mode, v, height),
                                     framerate, period)
      lines == MulDiv(exposure, 1000, period)
  IN  IF "EXPOSURE_SONY" \in c.flags
      THEN vc_calculate_exposure_sony(vmax, mode.vmaxMin, lines, trigger)
      ELSE vc_calculate_exposure_normal(vmax, mode.vmaxMin, lines)

(* i2c_write_reg4() writes the bytes of a value for which the sensor has registers. *)
Low(value, bytes) == value % Span[bytes]

(* What the flash of an OmniVision sensor is given: flash_factor is 109890. *)
FlashDuration(exposure) == MulDiv(exposure, 10989, 100000)

(* Counts of the trigger unit: exposure, and the time between two self triggers. *)
vc_calculate_trig_exposure(c, mode, framerate, trigger, exposure) ==
  LET least == MulDiv(mode.retrigger, 1000, c.clkTrigger)
      asked == IF framerate > 0 THEN 1000000000 \div framerate ELSE least
      frametime == IF asked < least THEN least ELSE asked
      between == IF trigger # "SELF" THEN least
                 ELSE IF "TRIGGER_SELF" \in c.flags THEN frametime
                 ELSE IF "TRIGGER_SELF_V2" \notin c.flags THEN frametime
                 ELSE IF frametime >= exposure THEN frametime - exposure ELSE 1
  IN  [expo |-> MulDiv(exposure, c.clkTrigger, 1000),
       retrigger |-> MulDiv(between, c.clkTrigger, 1000)]

(* What a control writes as black level: a share of 100000 of the row's maximum. *)
BlackAbs(mode, rel) == DIV_ROUND_CLOSEST(rel * mode.blackMax, 100000)
BlackDef(mode) == DIV_ROUND_CLOSEST(mode.blackDef * 100000, mode.blackMax + 1)
=============================================================================
