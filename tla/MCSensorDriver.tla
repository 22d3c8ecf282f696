-------------------------- MODULE MCSensorDriver --------------------------
(* Boards for TLC. The modes are those of the modules' EEPROMs, their clocks those the
   table of sensors or the EEPROM give. *)
EXTENDS SensorDriver

Mode(lanes, format, type, binning) ==
  [lanes |-> lanes, format |-> format, type |-> type, binning |-> binning, rate |-> 1]

Image(height, binning) == [height |-> height, binning |-> binning]

Board(id, clk, modes, lanes, images, least, trigger) ==
  [id |-> id, clkTrigger |-> clk, clkPixel |-> clk, shsBytes |-> 3, modes |-> modes,
   lanes |-> lanes, images |-> images, gain |-> [min |-> least, max |-> 48000],
   trigger |-> trigger, io |-> 1]

IMX296 == << Mode(1, RAW10, "STREAM", 0), Mode(1, RAW10, "TRIGGER", 0),
             Mode(1, RAW10, "STREAM", 1), Mode(1, RAW10, "TRIGGER", 1) >>
IMX565 == << Mode(2, RAW08, "STREAM", 0), Mode(2, RAW10, "STREAM", 0), Mode(2, RAW08, "TRIGGER", 0) >>
IMX412 == << Mode(4, RAW10, "STREAM", 0), Mode(4, RAW10, "SLAVE", 0) >>

(* The image of vc296's second mode is the whole frame. The gain of its control starts at
   24000 mdB (at 0 in the trees of the repository), so that the scaled one passes the
   sensor's maximum. *)
MCBoards ==
  [ vc296 |-> Board("IMX296", 74250, IMX296, 1, <<Image(540, NoBinning), Image(0, NoBinning)>>,
                    24000, "DISABLE"),
    vc565 |-> Board("IMX565", 74250, IMX565, 2, <<Image(1500, NoBinning)>>, 0, "DISABLE"),
    vc412 |-> Board("IMX412", EEPROM, IMX412, 4, <<Image(1520, 2)>>, 0, "SYNC") ]

Ask(format, exposure, gain, blacklevel, framerate, io, trigger, binning) ==
  [format |-> format, exposure |-> exposure, gain |-> gain, blacklevel |-> blacklevel,
   framerate |-> framerate, io |-> io, trigger |-> trigger, binning |-> binning]

Long == 2000000000

(* At 1000 mHz a frame of the IMX412 has more lines than its two vmax registers hold. *)
MCRequests ==
  [ vc296 |-> Ask({RAW10}, {}, {40000}, {}, {}, {}, {"SELF"}, {0, 1}),
    vc565 |-> Ask({RAW08, RAW10}, {}, {}, {50000}, {}, {}, {}, {0, 1}),
    vc412 |-> Ask({RAW10, RAW12}, {Long}, {}, {}, {1000, 10000}, {6}, {"SELF"}, {6}) ]

MCCountMax == 2147483647
=============================================================================
