---------------------------- MODULE SensorTable ----------------------------
(* The table of camera sensors of the VC MIPI driver (vc_mipi_modules.c): for
   each module id the driver knows, what vc_mod_ctrl_init() writes in vc_ctrl.
   Register addresses are left out, except for what they decide: how many bytes
   the shs and vmax groups have, and whether the sensor's mode has a second register.
   Clocks are in kHz (every clock of the table is a multiple of 1000 Hz); the value
   EEPROM stands for what the module's EEPROM gives. *)
EXTENDS Naturals, Sequences, FiniteSets

EEPROM == 0

RAW08 == "RAW08"
RAW10 == "RAW10"
RAW12 == "RAW12"
RAW14 == "RAW14"

Control(min, max, def) == [min |-> min, max |-> max, def |-> def]

(* What vc_init_ctrl() sets before the sensor's own function runs. *)
vc_init_ctrl ==
  [ exposure |-> Control(1, 100000000, 10000), gain |-> Control(0, 255, 0),
    framerateMax |-> 1000000, width |-> 0, height |-> 0, flags |-> {},
    modes |-> << >>, vmaxMax |-> 0, vmaxBytes |-> 3, shsBytes |-> EEPROM, modeHigh |-> FALSE,
    binnings |-> << >>, maxBinning |-> 0,
    clkTrigger |-> EEPROM, clkPixel |-> EEPROM ]

(* A row MODE(index, lanes, format, binning, hmax, vmax min, vmax def, black level
   max, black level def, retrigger min); vmax's maximum is the sensor's. *)
Row(row) ==
  [ lanes |-> row[1], format |-> row[2], binning |-> row[3], hmax |-> row[4],
    vmaxMin |-> row[5], vmaxDef |-> row[6], blackMax |-> row[7],
    blackDef |-> row[8], retrigger |-> row[9] ]

MODE(rows) == [i \in DOMAIN rows |-> Row(rows[i])]

(* BINNING(h, v) leaves the binning to the module's own mode; BINNING_START writes
   a list of sensor registers. *)
BINNING(h, v) == [useModMode |-> TRUE, h |-> h, v |-> v]
BINNING_REGS(h, v) == [useModMode |-> FALSE, h |-> h, v |-> v]

FRAME(sensor, width, height) == [sensor EXCEPT !.width = width, !.height = height]

(* For 2x2 binning the binnings of the sensor are 0 (none) and 1. *)
Binned(sensor, none, two) ==
  [sensor EXCEPT !.binnings = <<none, two>>, !.maxBinning = 1,
                 !.flags = @ \cup {"USE_BINNING_INDEX"}]

imx183_base ==
  [vc_init_ctrl EXCEPT
     !.vmaxMax = 131071, \* 0x1ffff
     !.flags = {"EXPOSURE_SONY", "IO_ENABLED", "TRIGGER_EXTERNAL", "TRIGGER_SELF",
                "TRIGGER_SINGLE", "TRIGGER_SYNC", "RESET_TRIGMODE_ALWAYS"}]

imx252_base ==
  [vc_init_ctrl EXCEPT
     !.gain = Control(0, 511, 0), !.vmaxMax = 1048575, \* 0xfffff
     !.flags = {"EXPOSURE_SONY", "INCREASE_FRAME_RATE", "IO_ENABLED", "TRIGGER_EXTERNAL",
                "TRIGGER_PULSEWIDTH", "TRIGGER_SELF", "TRIGGER_SINGLE"}]

imx290_base ==
  [FRAME(vc_init_ctrl, 1920, 1080) EXCEPT
     !.vmaxMax = 262143, \* 0x3ffff
     !.clkTrigger = 74250, !.clkPixel = 74250,
     !.flags = {"EXPOSURE_SONY", "INCREASE_FRAME_RATE"}]

imx296_base ==
  [vc_init_ctrl EXCEPT
     !.gain = Control(0, 480, 0), !.vmaxMax = 1048575, !.modeHigh = TRUE,
     !.flags = {"EXPOSURE_SONY", "INCREASE_FRAME_RATE", "IO_ENABLED", "TRIGGER_EXTERNAL",
                "TRIGGER_PULSEWIDTH", "TRIGGER_SELF_V2", "RESET_TRIGMODE_ALWAYS"}]

(* Not a function of the source: what the functions of the IMX56x family share. *)
imx56x_base ==
  [vc_init_ctrl EXCEPT
     !.gain = Control(0, 480, 0), !.vmaxMax = 16777215, !.modeHigh = TRUE, \* 0xffffff
     !.flags = {"EXPOSURE_SONY", "RESET_TRIGMODE_ALWAYS", "PREGIUS_S", "INCREASE_FRAME_RATE",
                "IO_ENABLED", "TRIGGER_EXTERNAL", "TRIGGER_PULSEWIDTH", "TRIGGER_SELF",
                "TRIGGER_SINGLE"}]

With(sensor, flags) == [sensor EXCEPT !.flags = @ \cup flags]
Trig == {"RESET_TRIGMODE_ALWAYS"}

imx178 ==
  [FRAME(With(imx183_base, {"INCREASE_FRAME_RATE"}), 3072, 2048) EXCEPT
     !.gain = Control(0, 480, 0),
     !.modes = MODE(<<
       <<2, RAW08, 0, 680, 9, 2126, 255, 50, 2698560>>, <<2, RAW10, 0, 840, 9, 2126, 1023, 50, 2698560>>,
       <<2, RAW12, 0, 984, 9, 2126, 1023, 200, 2698560>>, <<2, RAW14, 0, 1156, 9, 2126, 4095, 800, 2698560>>,
       <<4, RAW08, 0, 600, 9, 2126, 255, 50, 2698560>>, <<4, RAW10, 0, 600, 9, 2126, 1023, 50, 2698560>>,
       <<4, RAW12, 0, 680, 9, 2126, 1023, 200, 2698560>>, <<4, RAW14, 0, 1156, 9, 2126, 4095, 800, 2698560>> >>)]

imx183 ==
  [FRAME(With(imx183_base, {"INCREASE_FRAME_RATE"}), 5440, 3648) EXCEPT
     !.gain = Control(0, 1957, 0), \* 0x7a5
     !.modes = MODE(<<
       <<2, RAW08, 0, 1440, 5, 3728, 255, 50, 3599997>>, <<2, RAW10, 0, 1440, 5, 3728, 255, 50, 3599997>>,
       <<2, RAW12, 0, 1724, 5, 3728, 255, 50, 3599997>>, <<4, RAW08, 0, 720, 5, 3728, 255, 50, 3599997>>,
       <<4, RAW10, 0, 720, 5, 3728, 255, 50, 3599997>>, <<4, RAW12, 0, 862, 5, 3728, 255, 50, 3599997>> >>)]

imx226 ==
  [FRAME(With(imx183_base, {"FORMAT_GBRG", "TRIGGER_STREAM_EDGE", "TRIGGER_STREAM_LEVEL"}),
         3904, 3000) EXCEPT
     !.gain = Control(0, 1957, 0), !.clkPixel = 72000,
     !.modes = MODE(<<
       <<2, RAW08, 0, 1072, 5, 3079, 255, 50, 2698560>>, <<2, RAW10, 0, 1072, 5, 3079, 255, 50, 2698560>>,
       <<2, RAW12, 0, 1288, 5, 3079, 255, 50, 2698560>>, <<4, RAW08, 0, 536, 5, 3079, 255, 50, 2698560>>,
       <<4, RAW10, 0, 536, 5, 3079, 255, 50, 2698560>>, <<4, RAW12, 0, 644, 5, 3079, 255, 50, 2698560>> >>)]

imx250 ==
  [FRAME(With(imx252_base, Trig), 2432, 2048) EXCEPT
     !.modes = MODE(<<
       <<2, RAW08, 0, 540, 10, 2094, 255, 15, 1580040>>, <<2, RAW10, 0, 660, 10, 2094, 1023, 60, 1580040>>,
       <<2, RAW12, 0, 780, 10, 2094, 4095, 240, 1580040>>, <<4, RAW08, 0, 350, 10, 2094, 255, 15, 1580040>>,
       <<4, RAW10, 0, 430, 10, 2094, 1023, 60, 1580040>>, <<4, RAW12, 0, 510, 10, 2094, 4095, 240, 1580040>> >>)]

imx252 ==
  [FRAME(With(imx252_base, {"TRIGGER_OVERLAP"}), 2048, 1536) EXCEPT
     !.modes = MODE(<<
       <<2, RAW08, 0, 460, 10, 1582, 255, 15, 1063754>>, <<2, RAW10, 0, 560, 10, 1582, 1023, 60, 1063754>>,
       <<2, RAW12, 0, 672, 10, 1582, 4095, 240, 1063754>>, <<4, RAW08, 0, 310, 10, 1582, 255, 15, 1063754>>,
       <<4, RAW10, 0, 380, 10, 1582, 1023, 60, 1063754>>, <<4, RAW12, 0, 444, 10, 1582, 4095, 240, 1063754>> >>)]

imx264 ==
  [FRAME(With(imx252_base, Trig), 2432, 2048) EXCEPT
     !.modes = MODE(<<
       <<2, RAW08, 0, 996, 10, 2100, 255, 15, 1580040>>, <<2, RAW10, 0, 996, 10, 2100, 1023, 60, 1580040>>,
       <<2, RAW12, 0, 996, 10, 2100, 4095, 240, 1580040>> >>)]

imx265 ==
  [FRAME(With(imx252_base, Trig), 2048, 1536) EXCEPT
     !.modes = MODE(<<
       <<2, RAW08, 0, 846, 10, 1587, 255, 255, 1580040>>, <<2, RAW10, 0, 846, 10, 1587, 1023, 1023, 1580040>>,
       <<2, RAW12, 0, 846, 10, 1587, 4095, 4095, 1580040>> >>)]

imx273 ==
  [Binned(FRAME(With(imx252_base, Trig), 1440, 1080), BINNING(0, 0), BINNING(2, 2)) EXCEPT
     !.modes = MODE(<<
       <<2, RAW08, 0, 336, 15, 1130, 255, 15, 519230>>, <<2, RAW10, 0, 420, 15, 1130, 1023, 60, 519230>>,
       <<2, RAW12, 0, 480, 15, 1130, 4095, 240, 519230>>, <<4, RAW08, 0, 238, 15, 1130, 255, 15, 519230>>,
       <<4, RAW10, 0, 290, 15, 1130, 1032, 60, 519230>>, <<4, RAW12, 0, 396, 15, 1130, 4095, 240, 519230>>,
       <<2, RAW08, 1, 336, 15, 586, 255, 15, 519230>>, <<2, RAW10, 1, 420, 15, 586, 1023, 60, 519230>>,
       <<2, RAW12, 1, 480, 15, 586, 4095, 240, 519230>>, <<4, RAW08, 1, 218, 15, 586, 255, 15, 519230>>,
       <<4, RAW10, 1, 250, 15, 586, 1032, 60, 519230>>, <<4, RAW12, 1, 396, 15, 586, 4095, 240, 519230>> >>)]

(* Rows of the 1920x1080 Starvis sensors: vmax 1..0x465 (1125). *)
imx290 ==
  [imx290_base EXCEPT !.modes = MODE(<<
     <<2, RAW10, 0, 550, 1, 1125, 511, 60, 0>>, <<2, RAW12, 0, 550, 1, 1125, 511, 240, 0>>,
     <<4, RAW10, 0, 550, 1, 1125, 511, 60, 0>>, <<4, RAW12, 0, 550, 1, 1125, 511, 240, 0>> >>)]

imx327 ==
  [imx290_base EXCEPT !.modes = MODE(<<
     <<2, RAW10, 0, 1100, 1, 1125, 511, 60, 0>>, <<2, RAW12, 0, 1100, 1, 1125, 511, 240, 0>>,
     <<4, RAW10, 0, 1100, 1, 1125, 511, 60, 0>>, <<4, RAW12, 0, 1100, 1, 1125, 511, 240, 0>> >>)]

imx462 ==
  [imx290_base EXCEPT !.gain = Control(0, 238, 0), !.modes = MODE(<<
     <<2, RAW10, 0, 1100, 1, 1125, 511, 60, 0>>, <<4, RAW10, 0, 550, 1, 1125, 511, 60, 0>> >>)]

imx296 ==
  [Binned(FRAME(imx296_base, 1440, 1080), BINNING(0, 0), BINNING(2, 2)) EXCEPT
     !.modes = MODE(<< <<1, RAW10, 0, 1100, 5, 1118, 1023, 60, 883008>>,
                       <<1, RAW10, 1, 1100, 5, 559, 1023, 60, 883008>> >>)]

imx297 ==
  [FRAME(imx296_base, 704, 540) EXCEPT
     !.modes = MODE(<< <<1, RAW10, 0, 1070, 5, 574, 511, 60, 883008>> >>)]

imx335 ==
  [FRAME(vc_init_ctrl, 2592, 1944) EXCEPT
     !.vmaxMax = 1048575,
     !.flags = {"EXPOSURE_SONY", "INCREASE_FRAME_RATE", "DOUBLE_HEIGHT", "IO_ENABLED"},
     !.modes = MODE(<<
       <<2, RAW10, 0, 550, 9, 4500, 1023, 50, 0>>, <<2, RAW12, 0, 550, 9, 4500, 1023, 50, 0>>,
       <<4, RAW10, 0, 275, 9, 4500, 1023, 50, 0>>, <<4, RAW12, 0, 275, 9, 4500, 1023, 50, 0>> >>)]

imx392 ==
  [FRAME(With(imx252_base, Trig), 1920, 1200) EXCEPT
     !.modes = MODE(<<
       <<2, RAW08, 0, 448, 10, 1252, 255, 15, 1063754>>, <<2, RAW10, 0, 530, 10, 1252, 1023, 60, 1063754>>,
       <<2, RAW12, 0, 624, 10, 1252, 4095, 240, 1063754>>, <<4, RAW08, 0, 294, 10, 1252, 255, 15, 1063754>>,
       <<4, RAW10, 0, 355, 10, 1252, 1023, 60, 1063754>>, <<4, RAW12, 0, 441, 10, 1252, 4095, 240, 1063754>> >>)]

(* Twelve rows: without binning vmax is 0x0c14 (3092), with any binning 0x0624 (1572). *)
imx412 ==
  [FRAME(vc_init_ctrl, 4032, 3040) EXCEPT
     !.gain = Control(0, 1023, 0), !.vmaxMax = 65535, !.vmaxBytes = 2, !.shsBytes = 2,
     !.clkTrigger = 27000, !.clkPixel = 27000,
     !.binnings = << BINNING_REGS(0, 0), BINNING_REGS(1, 2), BINNING_REGS(2, 2),
                     BINNING_REGS(4, 2), BINNING_REGS(8, 2), BINNING_REGS(16, 2) >>,
     !.maxBinning = 5,
     !.flags = {"RESET_STREAMMODE_ALWAYS", "RESET_TRIGMODE_ALWAYS", "EXPOSURE_NORMAL",
                "INCREASE_FRAME_RATE", "IO_ENABLED", "TRIGGER_SLAVE", "USE_BINNING_INDEX"},
     !.modes = MODE([i \in 1..12 |->
       << IF i % 2 = 1 THEN 2 ELSE 4, RAW10, (i - 1) \div 2, IF i % 2 = 1 THEN 436 ELSE 218,
          10, IF i <= 2 THEN 3092 ELSE 1572, 1023, 40, 0 >>])]

imx415 ==
  [FRAME(vc_init_ctrl, 3840, 2160) EXCEPT
     !.gain = Control(0, 240, 0), !.vmaxMax = 1048575, !.clkPixel = 74250,
     !.flags = {"EXPOSURE_SONY", "INCREASE_FRAME_RATE", "DOUBLE_HEIGHT", "FORMAT_GBRG", "IO_ENABLED"},
     !.modes = MODE(<< <<2, RAW10, 0, 1042, 8, 2250, 1023, 50, 0>>, <<4, RAW10, 0, 551, 8, 2250, 1023, 50, 0>> >>)]

imx540 ==
  [FRAME(vc_init_ctrl, 5312, 4600) EXCEPT
     !.gain = Control(0, 480, 0), !.vmaxMax = 16777215,
     !.flags = {"EXPOSURE_SONY", "RESET_TRIGMODE_ALWAYS", "INCREASE_FRAME_RATE", "TRIGGER_EXTERNAL",
                "IO_ENABLED", "TRIGGER_PULSEWIDTH", "TRIGGER_SELF", "TRIGGER_SINGLE"},
     !.modes = MODE(<<
       <<2, RAW08, 0, 1120, 8, 4708, 255, 15, 0>>, <<2, RAW10, 0, 1388, 8, 4706, 1023, 60, 0>>,
       <<2, RAW12, 0, 1648, 6, 4704, 4095, 240, 0>>, <<4, RAW08, 0, 716, 10, 4714, 255, 15, 0>>,
       <<4, RAW10, 0, 892, 10, 4714, 1023, 60, 0>>, <<4, RAW12, 0, 1067, 8, 4708, 4095, 240, 0>> >>)]

imx565 ==
  [Binned(FRAME(imx56x_base, 4128, 3000), BINNING_REGS(0, 0), BINNING_REGS(2, 2)) EXCEPT
     !.modes = MODE(<<
       <<2, RAW08, 0, 1070, 18, 3116, 255, 15, 2410776>>, <<2, RAW10, 0, 1328, 16, 3114, 1023, 60, 2990142>>,
       <<2, RAW12, 0, 1586, 14, 3110, 4095, 240, 3568752>>, <<4, RAW08, 0, 555, 30, 3136, 255, 15, 1256094>>,
       <<4, RAW10, 0, 684, 26, 3130, 1023, 60, 1546074>>, <<4, RAW12, 0, 812, 22, 3124, 4095, 240, 1833030>>,
       <<2, RAW08, 1, 554, 32, 1604, 255, 15, 638982>>, <<2, RAW10, 1, 683, 28, 1600, 1023, 60, 785808>>,
       <<2, RAW12, 1, 812, 24, 1592, 4095, 240, 931878>>, <<4, RAW08, 1, 297, 52, 1640, 255, 15, 347760>>,
       <<4, RAW10, 1, 361, 44, 1628, 1023, 60, 420552>>, <<4, RAW12, 1, 425, 40, 1620, 4095, 240, 493884>> >>)]

imx566 ==
  [Binned(FRAME(imx56x_base, 2848, 2848), BINNING_REGS(0, 0), BINNING_REGS(2, 2)) EXCEPT
     !.modes = MODE(<<
       <<2, RAW08, 0, 752, 24, 2968, 255, 15, 1612278>>, <<2, RAW10, 0, 930, 20, 2962, 1023, 60, 1991196>>,
       <<2, RAW12, 0, 1109, 18, 2956, 4095, 240, 2371194>>, <<4, RAW08, 0, 396, 40, 2992, 255, 15, 854172>>,
       <<4, RAW10, 0, 485, 34, 2982, 1023, 60, 1043334>>, <<4, RAW12, 0, 574, 30, 2976, 4095, 240, 1233144>>,
       <<2, RAW08, 1, 396, 40, 1540, 255, 15, 430812>>, <<2, RAW10, 1, 485, 36, 1532, 1023, 60, 524826>>,
       <<2, RAW12, 1, 575, 32, 1524, 4095, 240, 620568>>, <<4, RAW08, 1, 218, 72, 1588, 255, 15, 242892>>,
       <<4, RAW10, 1, 262, 60, 1568, 1023, 60, 288846>>, <<4, RAW12, 1, 307, 52, 1556, 4095, 240, 336690>> >>)]

imx567 ==
  [Binned(FRAME(imx56x_base, 2464, 2064), BINNING_REGS(0, 0), BINNING_REGS(2, 2)) EXCEPT
     !.modes = MODE(<<
       <<2, RAW08, 0, 656, 26, 2186, 255, 15, 1058562>>, <<2, RAW10, 0, 810, 22, 2180, 1023, 60, 1273590>>,
       <<2, RAW12, 0, 965, 20, 2176, 4095, 240, 1514484>>, <<4, RAW08, 0, 348, 46, 2216, 255, 15, 553716>>,
       <<4, RAW10, 0, 425, 38, 2206, 1023, 60, 673812>>, <<4, RAW12, 0, 502, 34, 2198, 4095, 240, 793692>>,
       <<2, RAW08, 1, 348, 48, 1160, 255, 15, 285444>>, <<2, RAW10, 1, 425, 40, 1148, 1023, 60, 346140>>,
       <<2, RAW12, 1, 503, 36, 1140, 4095, 240, 406782>>, <<4, RAW08, 1, 194, 80, 1208, 255, 15, 164214>>,
       <<4, RAW10, 1, 232, 68, 1192, 1023, 60, 194346>>, <<4, RAW12, 1, 271, 60, 1176, 4095, 240, 224640>> >>)]

(* The function of the IMX568 sets what the one of the IMX567 sets. *)
imx568 == imx567

imx585 ==
  [FRAME(vc_init_ctrl, 3840, 2160) EXCEPT
     !.vmaxMax = 131071, !.flags = {"EXPOSURE_SONY", "INCREASE_FRAME_RATE", "IO_ENABLED"},
     !.modes = MODE(<<
       <<2, RAW10, 0, 1100, 8, 2250, 1023, 50, 0>>, <<2, RAW12, 0, 1320, 8, 2250, 1023, 50, 0>>,
       <<4, RAW10, 0, 550, 8, 2250, 1023, 50, 0>>, <<4, RAW12, 0, 660, 8, 2250, 1023, 50, 0>> >>)]

imx900 ==
  [FRAME(imx56x_base, 2048, 1536) EXCEPT
     !.binnings = << BINNING_REGS(0, 0) >>,
     !.modes = MODE(<<
       <<2, RAW08, 0, 460, 99, 1816, 255, 15, 563060>>, <<2, RAW10, 0, 564, 99, 1816, 1023, 60, 688284>>,
       <<2, RAW12, 0, 667, 99, 1816, 4095, 240, 795528>>, <<4, RAW08, 0, 338, 99, 1816, 255, 15, 413694>>,
       <<4, RAW10, 0, 364, 99, 1816, 1023, 60, 444204>>, <<4, RAW12, 0, 610, 99, 1816, 4095, 240, 727542>> >>)]

ov7251 ==
  [FRAME(vc_init_ctrl, 640, 480) EXCEPT
     !.exposure = Control(1, 1000000, 10000), !.gain = Control(0, 1023, 0),
     !.vmaxMax = 65535, !.vmaxBytes = 2, !.flags = {"EXPOSURE_OMNIVISION", "IO_ENABLED"},
     !.modes = MODE(<< <<1, RAW08, 0, 772, 0, 598, 0, 0, 0>>, <<1, RAW10, 0, 772, 0, 598, 0, 0, 0>> >>)]

ov9281 ==
  [FRAME(vc_init_ctrl, 1280, 800) EXCEPT
     !.exposure = Control(146, 595000, 10000), !.gain = Control(16, 255, 16),
     !.vmaxMax = 65535, !.vmaxBytes = 2, !.clkTrigger = 25000, !.clkPixel = 25000,
     !.flags = {"EXPOSURE_OMNIVISION", "IO_ENABLED", "TRIGGER_EXTERNAL"},
     !.modes = MODE(<< <<2, RAW08, 0, 227, 16, 910, 0, 0, 0>>, <<2, RAW10, 0, 227, 16, 910, 0, 0, 0>> >>)]

(* The sensors the switch of vc_mod_ctrl_init() accepts; any other module id makes
   vc_core_init() fail. *)
vc_mod_ctrl_init ==
  [ IMX178 |-> imx178, IMX183 |-> imx183, IMX226 |-> imx226, IMX250 |-> imx250,
    IMX252 |-> imx252, IMX264 |-> imx264, IMX265 |-> imx265, IMX273 |-> imx273,
    IMX290 |-> imx290, IMX296 |-> imx296, IMX297 |-> imx297, IMX327 |-> imx327,
    IMX335 |-> imx335, IMX392 |-> imx392, IMX412 |-> imx412, IMX415 |-> imx415,
    IMX462 |-> imx462, IMX540 |-> imx540, IMX565 |-> imx565, IMX566 |-> imx566,
    IMX567 |-> imx567, IMX568 |-> imx568, IMX585 |-> imx585, IMX900 |-> imx900,
    OV7251 |-> ov7251, OV9281 |-> ov9281 ]

-----------------------------------------------------------------------------
(* What the driver's arithmetic takes for granted about a sensor. *)

MaxVcModes == 16
MaxBinnings == 8

(* How many values a group of 1, 2 or 3 registers of a byte holds. *)
Span == <<256, 65536, 16777216>>

Lanes(s) == {s.modes[i].lanes : i \in DOMAIN s.modes}
Formats(s) == {s.modes[i].format : i \in DOMAIN s.modes}

Binnings(s) == IF "USE_BINNING_INDEX" \in s.flags THEN 0..s.maxBinning ELSE {0}

(* vc_core_get_mode_index() finds exactly one row for whatever lanes, format and
   binning the setters let the state have. *)
RowsComplete(s) ==
  /\ Len(s.modes) <= MaxVcModes /\ Len(s.binnings) <= MaxBinnings
  /\ \A lanes \in Lanes(s), format \in Formats(s), binning \in Binnings(s) :
       \E i \in DOMAIN s.modes :
         /\ s.modes[i].lanes = lanes /\ s.modes[i].format = format
         /\ s.modes[i].binning = binning
         /\ \A j \in DOMAIN s.modes \ {i} :
              <<s.modes[j].lanes, s.modes[j].format, s.modes[j].binning>> # <<lanes, format, binning>>
  /\ s.maxBinning > 0 => Len(s.binnings) > s.maxBinning

(* A row has a line length, its limits are ordered, and its vmax fits the register. *)
RowsOrdered(s) ==
  \A i \in DOMAIN s.modes : LET row == s.modes[i] IN
    /\ row.hmax > 0
    /\ row.vmaxMin < row.vmaxDef /\ row.vmaxDef <= s.vmaxMax
    /\ s.vmaxMax < Span[s.vmaxBytes]
    /\ row.blackDef <= row.blackMax

(* The rows left below a full frame are at least vmax.min: the unsigned subtractions
   of vc_core_get_optimized_vmax() do not wrap. *)
HeightFits(s) ==
  \A i \in DOMAIN s.modes : LET row == s.modes[i]
                                v == IF row.binning > 0 THEN s.binnings[row.binning + 1].v ELSE 1
                            IN  "INCREASE_FRAME_RATE" \in s.flags =>
                                  row.vmaxDef >= s.height \div v + row.vmaxMin

(* Binning 0 is the full frame, every other one has its registers, and the rows of a
   sensor with binnings are indexed by them. The limits are computed from a vmax that is
   not 0. *)
BinningsIndexed(s) ==
  /\ s.maxBinning > 0 => "USE_BINNING_INDEX" \in s.flags
  /\ \A i \in DOMAIN s.binnings : s.binnings[i].v > 0 <=> i > 1
  /\ "INCREASE_FRAME_RATE" \in s.flags => \A i \in DOMAIN s.modes : s.modes[i].vmaxMin > 0

(* vc_ctrl, vc_mode and vc_binning. *)
VcFormats == {RAW08, RAW10, RAW12, RAW14}
VcModes ==
  [ lanes : {1, 2, 4}, format : VcFormats, binning : 0..MaxBinnings - 1, hmax : Nat,
    vmaxMin : Nat, vmaxDef : Nat, blackMax : Nat, blackDef : Nat, retrigger : Nat ]
VcBinnings == [useModMode : BOOLEAN, h : Nat, v : Nat]
VcControls == {range \in [min : Nat, max : Nat, def : Nat] : range.min <= range.def /\ range.def <= range.max}
VcCtrls ==
  [ exposure : VcControls, gain : VcControls, framerateMax : Nat, width : Nat, height : Nat,
    flags : SUBSET STRING, modes : Seq(VcModes), vmaxMax : Nat, vmaxBytes : DOMAIN Span,
    shsBytes : {EEPROM} \cup DOMAIN Span, modeHigh : BOOLEAN, binnings : Seq(VcBinnings), maxBinning : 0..MaxBinnings - 1,
    clkTrigger : Nat, clkPixel : Nat ]

WellFormed(s) ==
  s \in VcCtrls /\ RowsComplete(s) /\ RowsOrdered(s) /\ HeightFits(s) /\ BinningsIndexed(s)

ASSUME TableWellFormed == \A id \in DOMAIN vc_mod_ctrl_init : WellFormed(vc_mod_ctrl_init[id])
=============================================================================
