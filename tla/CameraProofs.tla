---------------------------- MODULE CameraProofs ----------------------------
(***************************************************************************)
(* Proofs about the two halves of a camera on the device.                  *)
(*                                                                         *)
(* VideoLoop, the thread above the sensor: nothing outlives the pipeline   *)
(* it uses, settings that a pipeline has missed have been flagged or fell  *)
(* into the one gap, and a camera is only given up for a reason. For any   *)
(* number of settings, sessions and calls, and any kBarrenLimit.           *)
(*                                                                         *)
(* SensorDriver, the kernel driver below it: its settings stay those of    *)
(* the sensor, shutter and frame length fit together, the limits settle,   *)
(* and a start that reports no error has left the module as vc_state has   *)
(* it. For every board the table and an EEPROM can describe, all requests, *)
(* and any number of calls with writes that fail.                          *)
(***************************************************************************)
EXTENDS VideoLoop, SensorDriver, WellFoundedInduction, TLAPS

-----------------------------------------------------------------------------
(* Part 1: VideoLoop. *)


(***************************************************************************)
(* TypeOK in two halves, the truth values and the rest; barren reaches its *)
(* limit only as the loop gives up.                                        *)
(***************************************************************************)
Flags ==
  /\ dead \in BOOLEAN /\ produced \in BOOLEAN /\ sinks \in BOOLEAN
  /\ published \in BOOLEAN /\ streaming \in BOOLEAN /\ relaunch \in BOOLEAN
  /\ enabled \in BOOLEAN /\ lost \in BOOLEAN /\ cut \in BOOLEAN
  /\ failed \in BOOLEAN

Places ==
  /\ sessions \in 0 .. MaxSessions
  /\ loop \in {"off", "check", "describe", "clear", "start", "publish",
               "watch", "pull", "withdraw", "join", "count", "delay",
               "returned", "givenUp"}
  /\ barren \in 0 .. kBarrenLimit
  /\ pipe \in {"none", "object", "up"}
  /\ running \in Settings \cup {Torn}
  /\ detect \in {"none", "check", "pump", "done"}
  /\ main \in {"idle", "poke", "using", "refresh", "assigning", "flag"}
  /\ config \in Settings
  /\ launch \in Settings
  /\ toggles \in 0 .. MaxToggles
  /\ loop \notin {"givenUp", "off"} => barren < kBarrenLimit

(***************************************************************************)
(* The two halves make the whole.                                          *)
(***************************************************************************)
LEMMA TypeHalves == Flags /\ Places => TypeOK
  BY DEF TypeOK, Flags, Places

(***************************************************************************)
(* Every step leaves the truth values truth values.                        *)
(***************************************************************************)
LEMMA FlagsStep ==
  ASSUME Flags, [Next]_vars
  PROVE  Flags'
PROOF
  <1>1. CASE SessionStarts
    BY <1>1 DEF SessionStarts, Flags, sessionVars, pipeVars, mainVars, history
  <1>2. CASE SessionDies
    BY <1>2 DEF SessionDies, Flags, sessionVars, pipeVars, mainVars, history
  <1>3. CASE SessionEnds
    BY <1>3 DEF SessionEnds, Flags, sessionVars, pipeVars, mainVars, history
  <1>4. CASE Check
    BY <1>4 DEF Check, Flags, sessionVars, pipeVars, mainVars, history
  <1>5. CASE Describe
    BY <1>5 DEF Describe, Flags, sessionVars, pipeVars, mainVars, history
  <1>6. CASE Clear
    BY <1>6 DEF Clear, Flags, sessionVars, pipeVars, mainVars, history
  <1>7. CASE Start
    BY <1>7 DEF Start, Flags, sessionVars, pipeVars, mainVars, history
  <1>8. CASE StartFails
    BY <1>8 DEF StartFails, Flags, sessionVars, pipeVars, mainVars, history
  <1>9. CASE Publish
    BY <1>9 DEF Publish, Flags, sessionVars, pipeVars, mainVars, history
  <1>10. CASE Watch
    BY <1>10 DEF Watch, Flags, sessionVars, pipeVars, mainVars, history
  <1>11. CASE PullFrame
    BY <1>11 DEF PullFrame, Flags, sessionVars, pipeVars, mainVars, history
  <1>12. CASE PullNothing
    BY <1>12 DEF PullNothing, Flags, sessionVars, pipeVars, mainVars, history
  <1>13. CASE PullEnds
    BY <1>13 DEF PullEnds, Flags, sessionVars, pipeVars, mainVars, history
  <1>14. CASE Withdraw
    BY <1>14 DEF Withdraw, Flags, sessionVars, pipeVars, mainVars, history
  <1>15. CASE Join
    BY <1>15 DEF Join, Flags, sessionVars, pipeVars, mainVars, history
  <1>16. CASE Count
    BY <1>16 DEF Count, Flags, sessionVars, pipeVars, mainVars, history
  <1>17. CASE Delay
    BY <1>17 DEF Delay, Flags, sessionVars, pipeVars, mainVars, history
  <1>18. CASE DetectChecks
    BY <1>18 DEF DetectChecks, Flags, sessionVars, pipeVars, mainVars, history
  <1>19. CASE DetectPumps
    BY <1>19 DEF DetectPumps, Flags, sessionVars, pipeVars, mainVars, history
  <1>20. CASE SetStream
    BY <1>20 DEF SetStream, Flags, sessionVars, pipeVars, mainVars, history
  <1>21. CASE Change
    BY <1>21 DEF Change, Flags, sessionVars, pipeVars, mainVars, history
  <1>22. CASE Poke
    BY <1>22 DEF Poke, Flags, sessionVars, pipeVars, mainVars, history
  <1>23. CASE PokeEnds
    BY <1>23 DEF PokeEnds, Flags, sessionVars, pipeVars, mainVars, history
  <1>24. CASE RefreshBegins
    BY <1>24 DEF RefreshBegins, Flags, sessionVars, pipeVars, mainVars, history
  <1>25. CASE RefreshAssigned
    BY <1>25 DEF RefreshAssigned, Flags, sessionVars, pipeVars, mainVars, history
  <1>26. CASE RefreshFlags
    BY <1>26 DEF RefreshFlags, Flags, sessionVars, pipeVars, mainVars, history
  <1>27. CASE UNCHANGED vars
    BY <1>27 DEF vars, Flags, sessionVars, pipeVars, mainVars, history
  <1> QED
    BY <1>1, <1>2, <1>3, <1>4, <1>5, <1>6, <1>7, <1>8, <1>9, <1>10, <1>11,
       <1>12, <1>13, <1>14, <1>15, <1>16, <1>17, <1>18, <1>19, <1>20,
       <1>21, <1>22, <1>23, <1>24, <1>25, <1>26, <1>27
    DEF Next, Loop, Detect, Handler

(***************************************************************************)
(* Every step stays within the places and bounds.                          *)
(***************************************************************************)
LEMMA PlacesStep ==
  ASSUME ConstantsAssumption, Places, [Next]_vars
  PROVE  Places'
PROOF
  <1>1. CASE SessionStarts
    BY <1>1 DEF SessionStarts, Places, Settings, sessionVars, pipeVars, mainVars,
       history, ConstantsAssumption
  <1>2. CASE SessionDies
    BY <1>2 DEF SessionDies, Places, Settings, sessionVars, pipeVars, mainVars,
       history, ConstantsAssumption
  <1>3. CASE SessionEnds
    BY <1>3 DEF SessionEnds, Places, Settings, sessionVars, pipeVars, mainVars,
       history, ConstantsAssumption
  <1>4. CASE Check
    BY <1>4 DEF Check, Places, Settings, sessionVars, pipeVars, mainVars,
       history, ConstantsAssumption
  <1>5. CASE Describe
    BY <1>5 DEF Describe, Described, Places, Settings, sessionVars, pipeVars, mainVars,
       history, ConstantsAssumption
  <1>6. CASE Clear
    BY <1>6 DEF Clear, Places, Settings, sessionVars, pipeVars, mainVars,
       history, ConstantsAssumption
  <1>7. CASE Start
    BY <1>7 DEF Start, Places, Settings, sessionVars, pipeVars, mainVars,
       history, ConstantsAssumption
  <1>8. CASE StartFails
    BY <1>8 DEF StartFails, Places, Settings, sessionVars, pipeVars, mainVars,
       history, ConstantsAssumption
  <1>9. CASE Publish
    BY <1>9 DEF Publish, Places, Settings, sessionVars, pipeVars, mainVars,
       history, ConstantsAssumption
  <1>10. CASE Watch
    BY <1>10 DEF Watch, Places, Settings, sessionVars, pipeVars, mainVars,
       history, ConstantsAssumption
  <1>11. CASE PullFrame
    BY <1>11 DEF PullFrame, Places, Settings, sessionVars, pipeVars, mainVars,
       history, ConstantsAssumption
  <1>12. CASE PullNothing
    BY <1>12 DEF PullNothing, Places, Settings, sessionVars, pipeVars, mainVars,
       history, ConstantsAssumption
  <1>13. CASE PullEnds
    BY <1>13 DEF PullEnds, Places, Settings, sessionVars, pipeVars, mainVars,
       history, ConstantsAssumption
  <1>14. CASE Withdraw
    BY <1>14 DEF Withdraw, Places, Settings, sessionVars, pipeVars, mainVars,
       history, ConstantsAssumption
  <1>15. CASE Join
    BY <1>15 DEF Join, Places, Settings, sessionVars, pipeVars, mainVars,
       history, ConstantsAssumption
  <1>16. CASE Count
    BY <1>16 DEF Count, Places, Settings, sessionVars, pipeVars, mainVars,
       history, ConstantsAssumption
  <1>17. CASE Delay
    BY <1>17 DEF Delay, Places, Settings, sessionVars, pipeVars, mainVars,
       history, ConstantsAssumption
  <1>18. CASE DetectChecks
    BY <1>18 DEF DetectChecks, Places, Settings, sessionVars, pipeVars, mainVars,
       history, ConstantsAssumption
  <1>19. CASE DetectPumps
    BY <1>19 DEF DetectPumps, Places, Settings, sessionVars, pipeVars, mainVars,
       history, ConstantsAssumption
  <1>20. CASE SetStream
    BY <1>20 DEF SetStream, Places, Settings, sessionVars, pipeVars, mainVars,
       history, ConstantsAssumption
  <1>21. CASE Change
    BY <1>21 DEF Change, Places, Settings, sessionVars, pipeVars, mainVars,
       history, ConstantsAssumption
  <1>22. CASE Poke
    BY <1>22 DEF Poke, Places, Settings, sessionVars, pipeVars, mainVars,
       history, ConstantsAssumption
  <1>23. CASE PokeEnds
    BY <1>23 DEF PokeEnds, Places, Settings, sessionVars, pipeVars, mainVars,
       history, ConstantsAssumption
  <1>24. CASE RefreshBegins
    BY <1>24 DEF RefreshBegins, Places, Settings, sessionVars, pipeVars, mainVars,
       history, ConstantsAssumption
  <1>25. CASE RefreshAssigned
    BY <1>25 DEF RefreshAssigned, Places, Settings, sessionVars, pipeVars, mainVars,
       history, ConstantsAssumption
  <1>26. CASE RefreshFlags
    BY <1>26 DEF RefreshFlags, Places, Settings, sessionVars, pipeVars, mainVars,
       history, ConstantsAssumption
  <1>27. CASE UNCHANGED vars
    BY <1>27 DEF vars, Places, Settings, sessionVars, pipeVars, mainVars,
       history, ConstantsAssumption
  <1> QED
    BY <1>1, <1>2, <1>3, <1>4, <1>5, <1>6, <1>7, <1>8, <1>9, <1>10, <1>11,
       <1>12, <1>13, <1>14, <1>15, <1>16, <1>17, <1>18, <1>19, <1>20,
       <1>21, <1>22, <1>23, <1>24, <1>25, <1>26, <1>27
    DEF Next, Loop, Detect, Handler

(***************************************************************************)
(* Type correctness of the video loop (SecureUsbServer.cpp:529-673), its   *)
(* detection thread and the main loop: the counters stay within their      *)
(* bounds and barren within kBarrenLimit.                                  *)
(***************************************************************************)
THEOREM TypeCorrect == Spec => []TypeOK
PROOF
  <1>1. Init => Flags /\ Places
    <2>1. Init => Flags
      BY DEF Init, Flags
    <2>2. Init => Places
      BY ConstantsAssumption DEF Init, Places, Settings, ConstantsAssumption
    <2> QED
      BY <2>1, <2>2
  <1>2. Flags /\ Places /\ [Next]_vars => Flags' /\ Places'
    BY FlagsStep, PlacesStep, ConstantsAssumption
  <1> QED
    BY <1>1, <1>2, TypeHalves, PTL DEF Spec

(***************************************************************************)
(* Who exists when. The source is published exactly between publish() and  *)
(* its withdrawal, and a handler that uses it keeps live_mutex_, without   *)
(* which it is not withdrawn; the detection thread lives between its start *)
(* and its join, and the sinks no longer than the loop is in between.      *)
(***************************************************************************)
Playing == {"publish", "watch", "pull", "withdraw", "join"}
Published == {"watch", "pull", "withdraw"}

PhaseInv ==
  /\ loop \in Playing => pipe = "up"
  /\ sinks <=> loop \in Playing
  /\ detect # "none" => loop \in Playing
  /\ published <=> loop \in Published
  /\ main = "using" => published
  /\ streaming => loop \in Published

(***************************************************************************)
(* Every step preserves it.                                                *)
(***************************************************************************)
LEMMA PhaseStep ==
  ASSUME TypeOK, PhaseInv, [Next]_vars
  PROVE  PhaseInv'
PROOF
  <1>1. CASE SessionStarts
    BY <1>1 DEF SessionStarts, TypeOK, PhaseInv, Playing, Published,
       sessionVars, pipeVars, mainVars, history, LiveMutexFree
  <1>2. CASE SessionDies
    BY <1>2 DEF SessionDies, TypeOK, PhaseInv, Playing, Published,
       sessionVars, pipeVars, mainVars, history, LiveMutexFree
  <1>3. CASE SessionEnds
    BY <1>3 DEF SessionEnds, TypeOK, PhaseInv, Playing, Published,
       sessionVars, pipeVars, mainVars, history, LiveMutexFree
  <1>4. CASE Check
    BY <1>4 DEF Check, TypeOK, PhaseInv, Playing, Published,
       sessionVars, pipeVars, mainVars, history, LiveMutexFree
  <1>5. CASE Describe
    BY <1>5 DEF Describe, TypeOK, PhaseInv, Playing, Published,
       sessionVars, pipeVars, mainVars, history, LiveMutexFree
  <1>6. CASE Clear
    BY <1>6 DEF Clear, TypeOK, PhaseInv, Playing, Published,
       sessionVars, pipeVars, mainVars, history, LiveMutexFree
  <1>7. CASE Start
    BY <1>7 DEF Start, TypeOK, PhaseInv, Playing, Published,
       sessionVars, pipeVars, mainVars, history, LiveMutexFree
  <1>8. CASE StartFails
    BY <1>8 DEF StartFails, TypeOK, PhaseInv, Playing, Published,
       sessionVars, pipeVars, mainVars, history, LiveMutexFree
  <1>9. CASE Publish
    BY <1>9 DEF Publish, TypeOK, PhaseInv, Playing, Published,
       sessionVars, pipeVars, mainVars, history, LiveMutexFree
  <1>10. CASE Watch
    BY <1>10 DEF Watch, TypeOK, PhaseInv, Playing, Published,
       sessionVars, pipeVars, mainVars, history, LiveMutexFree
  <1>11. CASE PullFrame
    BY <1>11 DEF PullFrame, TypeOK, PhaseInv, Playing, Published,
       sessionVars, pipeVars, mainVars, history, LiveMutexFree
  <1>12. CASE PullNothing
    BY <1>12 DEF PullNothing, TypeOK, PhaseInv, Playing, Published,
       sessionVars, pipeVars, mainVars, history, LiveMutexFree
  <1>13. CASE PullEnds
    BY <1>13 DEF PullEnds, TypeOK, PhaseInv, Playing, Published,
       sessionVars, pipeVars, mainVars, history, LiveMutexFree
  <1>14. CASE Withdraw
    BY <1>14 DEF Withdraw, TypeOK, PhaseInv, Playing, Published,
       sessionVars, pipeVars, mainVars, history, LiveMutexFree
  <1>15. CASE Join
    BY <1>15 DEF Join, TypeOK, PhaseInv, Playing, Published,
       sessionVars, pipeVars, mainVars, history, LiveMutexFree
  <1>16. CASE Count
    BY <1>16 DEF Count, TypeOK, PhaseInv, Playing, Published,
       sessionVars, pipeVars, mainVars, history, LiveMutexFree
  <1>17. CASE Delay
    BY <1>17 DEF Delay, TypeOK, PhaseInv, Playing, Published,
       sessionVars, pipeVars, mainVars, history, LiveMutexFree
  <1>18. CASE DetectChecks
    BY <1>18 DEF DetectChecks, TypeOK, PhaseInv, Playing, Published,
       sessionVars, pipeVars, mainVars, history, LiveMutexFree
  <1>19. CASE DetectPumps
    BY <1>19 DEF DetectPumps, TypeOK, PhaseInv, Playing, Published,
       sessionVars, pipeVars, mainVars, history, LiveMutexFree
  <1>20. CASE SetStream
    BY <1>20 DEF SetStream, TypeOK, PhaseInv, Playing, Published,
       sessionVars, pipeVars, mainVars, history, LiveMutexFree
  <1>21. CASE Change
    BY <1>21 DEF Change, TypeOK, PhaseInv, Playing, Published,
       sessionVars, pipeVars, mainVars, history, LiveMutexFree
  <1>22. CASE Poke
    BY <1>22 DEF Poke, TypeOK, PhaseInv, Playing, Published,
       sessionVars, pipeVars, mainVars, history, LiveMutexFree
  <1>23. CASE PokeEnds
    BY <1>23 DEF PokeEnds, TypeOK, PhaseInv, Playing, Published,
       sessionVars, pipeVars, mainVars, history, LiveMutexFree
  <1>24. CASE RefreshBegins
    BY <1>24 DEF RefreshBegins, TypeOK, PhaseInv, Playing, Published,
       sessionVars, pipeVars, mainVars, history, LiveMutexFree
  <1>25. CASE RefreshAssigned
    BY <1>25 DEF RefreshAssigned, TypeOK, PhaseInv, Playing, Published,
       sessionVars, pipeVars, mainVars, history, LiveMutexFree
  <1>26. CASE RefreshFlags
    BY <1>26 DEF RefreshFlags, TypeOK, PhaseInv, Playing, Published,
       sessionVars, pipeVars, mainVars, history, LiveMutexFree
  <1>27. CASE UNCHANGED vars
    BY <1>27 DEF vars, TypeOK, PhaseInv, Playing, Published,
       sessionVars, pipeVars, mainVars, history, LiveMutexFree
  <1> QED
    BY <1>1, <1>2, <1>3, <1>4, <1>5, <1>6, <1>7, <1>8, <1>9, <1>10, <1>11,
       <1>12, <1>13, <1>14, <1>15, <1>16, <1>17, <1>18, <1>19, <1>20,
       <1>21, <1>22, <1>23, <1>24, <1>25, <1>26, <1>27
    DEF Next, Loop, Detect, Handler

(***************************************************************************)
(* Nothing uses a pipeline that is down: a poke of the source by a         *)
(* handler, the detection thread and the streaming status all end before   *)
(* it (SecureUsbServer.cpp:575-628, 744-761).                              *)
(***************************************************************************)
THEOREM PipelineOutlivesItsUsers == Spec => []NothingOutlivesPipeline
PROOF
  <1>1. Init => PhaseInv
    BY DEF Init, PhaseInv, Playing, Published
  <1>2. TypeOK /\ PhaseInv /\ [Next]_vars => PhaseInv'
    BY PhaseStep
  <1>3. PhaseInv => NothingOutlivesPipeline
    BY DEF PhaseInv, NothingOutlivesPipeline, Playing, Published
  <1> QED
    BY <1>1, <1>2, <1>3, TypeCorrect, PTL DEF Spec

(***************************************************************************)
(* How far the settings have got. Only while the main loop is inside a     *)
(* change does video_launch_ lack the last one; and unless                 *)
(* refresh_launch() is about to set the flag, a pipeline works with what   *)
(* is described or configured, or is flagged, or was described too early.  *)
(***************************************************************************)
Assigned == {"idle", "flag"}
Refreshing == {"assigning", "flag"}
Built == {"start", "publish", "watch", "pull"}

FlagInv ==
  /\ main \in Assigned => launch = config
  /\ main \notin Assigned => launch = config - 1 /\ config > 0
  /\ loop \in Built /\ main \notin Refreshing =>
       running = launch \/ running = config \/ relaunch \/ lost

(***************************************************************************)
(* Every step preserves it.                                                *)
(***************************************************************************)
LEMMA FlagStep ==
  ASSUME ConstantsAssumption, TypeOK, FlagInv, [Next]_vars
  PROVE  FlagInv'
PROOF
  <1>1. CASE SessionStarts
    BY <1>1 DEF SessionStarts, TypeOK, FlagInv, Settings, Assigned, Refreshing,
       Built, sessionVars, pipeVars, mainVars, history,
       ConstantsAssumption
  <1>2. CASE SessionDies
    BY <1>2 DEF SessionDies, TypeOK, FlagInv, Settings, Assigned, Refreshing,
       Built, sessionVars, pipeVars, mainVars, history,
       ConstantsAssumption
  <1>3. CASE SessionEnds
    BY <1>3 DEF SessionEnds, TypeOK, FlagInv, Settings, Assigned, Refreshing,
       Built, sessionVars, pipeVars, mainVars, history,
       ConstantsAssumption
  <1>4. CASE Check
    BY <1>4 DEF Check, TypeOK, FlagInv, Settings, Assigned, Refreshing,
       Built, sessionVars, pipeVars, mainVars, history,
       ConstantsAssumption
  <1>5. CASE Describe
    BY <1>5 DEF Describe, Described, TypeOK, FlagInv, Settings, Assigned, Refreshing,
       Built, sessionVars, pipeVars, mainVars, history,
       ConstantsAssumption
  <1>6. CASE Clear
    BY <1>6 DEF Clear, TypeOK, FlagInv, Settings, Assigned, Refreshing,
       Built, sessionVars, pipeVars, mainVars, history,
       ConstantsAssumption
  <1>7. CASE Start
    BY <1>7 DEF Start, TypeOK, FlagInv, Settings, Assigned, Refreshing,
       Built, sessionVars, pipeVars, mainVars, history,
       ConstantsAssumption
  <1>8. CASE StartFails
    BY <1>8 DEF StartFails, TypeOK, FlagInv, Settings, Assigned, Refreshing,
       Built, sessionVars, pipeVars, mainVars, history,
       ConstantsAssumption
  <1>9. CASE Publish
    BY <1>9 DEF Publish, TypeOK, FlagInv, Settings, Assigned, Refreshing,
       Built, sessionVars, pipeVars, mainVars, history,
       ConstantsAssumption
  <1>10. CASE Watch
    BY <1>10 DEF Watch, TypeOK, FlagInv, Settings, Assigned, Refreshing,
       Built, sessionVars, pipeVars, mainVars, history,
       ConstantsAssumption
  <1>11. CASE PullFrame
    BY <1>11 DEF PullFrame, TypeOK, FlagInv, Settings, Assigned, Refreshing,
       Built, sessionVars, pipeVars, mainVars, history,
       ConstantsAssumption
  <1>12. CASE PullNothing
    BY <1>12 DEF PullNothing, TypeOK, FlagInv, Settings, Assigned, Refreshing,
       Built, sessionVars, pipeVars, mainVars, history,
       ConstantsAssumption
  <1>13. CASE PullEnds
    BY <1>13 DEF PullEnds, TypeOK, FlagInv, Settings, Assigned, Refreshing,
       Built, sessionVars, pipeVars, mainVars, history,
       ConstantsAssumption
  <1>14. CASE Withdraw
    BY <1>14 DEF Withdraw, TypeOK, FlagInv, Settings, Assigned, Refreshing,
       Built, sessionVars, pipeVars, mainVars, history,
       ConstantsAssumption
  <1>15. CASE Join
    BY <1>15 DEF Join, TypeOK, FlagInv, Settings, Assigned, Refreshing,
       Built, sessionVars, pipeVars, mainVars, history,
       ConstantsAssumption
  <1>16. CASE Count
    BY <1>16 DEF Count, TypeOK, FlagInv, Settings, Assigned, Refreshing,
       Built, sessionVars, pipeVars, mainVars, history,
       ConstantsAssumption
  <1>17. CASE Delay
    BY <1>17 DEF Delay, TypeOK, FlagInv, Settings, Assigned, Refreshing,
       Built, sessionVars, pipeVars, mainVars, history,
       ConstantsAssumption
  <1>18. CASE DetectChecks
    BY <1>18 DEF DetectChecks, TypeOK, FlagInv, Settings, Assigned, Refreshing,
       Built, sessionVars, pipeVars, mainVars, history,
       ConstantsAssumption
  <1>19. CASE DetectPumps
    BY <1>19 DEF DetectPumps, TypeOK, FlagInv, Settings, Assigned, Refreshing,
       Built, sessionVars, pipeVars, mainVars, history,
       ConstantsAssumption
  <1>20. CASE SetStream
    BY <1>20 DEF SetStream, TypeOK, FlagInv, Settings, Assigned, Refreshing,
       Built, sessionVars, pipeVars, mainVars, history,
       ConstantsAssumption
  <1>21. CASE Change
    BY <1>21 DEF Change, TypeOK, FlagInv, Settings, Assigned, Refreshing,
       Built, sessionVars, pipeVars, mainVars, history,
       ConstantsAssumption
  <1>22. CASE Poke
    BY <1>22 DEF Poke, TypeOK, FlagInv, Settings, Assigned, Refreshing,
       Built, sessionVars, pipeVars, mainVars, history,
       ConstantsAssumption
  <1>23. CASE PokeEnds
    BY <1>23 DEF PokeEnds, TypeOK, FlagInv, Settings, Assigned, Refreshing,
       Built, sessionVars, pipeVars, mainVars, history,
       ConstantsAssumption
  <1>24. CASE RefreshBegins
    BY <1>24 DEF RefreshBegins, TypeOK, FlagInv, Settings, Assigned, Refreshing,
       Built, sessionVars, pipeVars, mainVars, history,
       ConstantsAssumption
  <1>25. CASE RefreshAssigned
    BY <1>25 DEF RefreshAssigned, TypeOK, FlagInv, Settings, Assigned, Refreshing,
       Built, sessionVars, pipeVars, mainVars, history,
       ConstantsAssumption
  <1>26. CASE RefreshFlags
    BY <1>26 DEF RefreshFlags, TypeOK, FlagInv, Settings, Assigned, Refreshing,
       Built, sessionVars, pipeVars, mainVars, history,
       ConstantsAssumption
  <1>27. CASE UNCHANGED vars
    BY <1>27 DEF vars, TypeOK, FlagInv, Settings, Assigned, Refreshing,
       Built, sessionVars, pipeVars, mainVars, history,
       ConstantsAssumption
  <1> QED
    BY <1>1, <1>2, <1>3, <1>4, <1>5, <1>6, <1>7, <1>8, <1>9, <1>10, <1>11,
       <1>12, <1>13, <1>14, <1>15, <1>16, <1>17, <1>18, <1>19, <1>20,
       <1>21, <1>22, <1>23, <1>24, <1>25, <1>26, <1>27
    DEF Next, Loop, Detect, Handler

(***************************************************************************)
(* A pipeline that streams with old settings has been asked to rebuild, or *)
(* they fell between describe() and relaunch = false                       *)
(* (SecureUsbServer.cpp:563-564, 637-641, 763-770).                        *)
(***************************************************************************)
THEOREM StaleSettingsAreFlagged == Spec => []StaleIsFlagged
PROOF
  <1>1. Init => FlagInv
    BY DEF Init, FlagInv, Assigned, Refreshing, Built
  <1>2. TypeOK /\ FlagInv /\ [Next]_vars => FlagInv'
    BY FlagStep, ConstantsAssumption
  <1>3. FlagInv => StaleIsFlagged
    BY DEF FlagInv, StaleIsFlagged, InPipeline, Assigned, Refreshing, Built
  <1> QED
    BY <1>1, <1>2, <1>3, TypeCorrect, PTL DEF Spec

(***************************************************************************)
(* Why a camera counts as barren: some pipeline of this session ended      *)
(* without a frame while the session lived.                                *)
(***************************************************************************)
ReasonInv ==
  /\ barren > 0 => failed \/ cut
  /\ loop \in {"withdraw", "join", "count"} /\ ~produced /\ ~dead =>
       failed \/ cut
  /\ loop = "givenUp" => failed \/ cut

(***************************************************************************)
(* Every step preserves it.                                                *)
(***************************************************************************)
LEMMA ReasonStep ==
  ASSUME ConstantsAssumption, TypeOK, ReasonInv, [Next]_vars
  PROVE  ReasonInv'
PROOF
  <1>1. CASE SessionStarts
    BY <1>1 DEF SessionStarts, TypeOK, ReasonInv, sessionVars, pipeVars, mainVars,
       history, ConstantsAssumption
  <1>2. CASE SessionDies
    BY <1>2 DEF SessionDies, TypeOK, ReasonInv, sessionVars, pipeVars, mainVars,
       history, ConstantsAssumption
  <1>3. CASE SessionEnds
    BY <1>3 DEF SessionEnds, TypeOK, ReasonInv, sessionVars, pipeVars, mainVars,
       history, ConstantsAssumption
  <1>4. CASE Check
    BY <1>4 DEF Check, TypeOK, ReasonInv, sessionVars, pipeVars, mainVars,
       history, ConstantsAssumption
  <1>5. CASE Describe
    BY <1>5 DEF Describe, TypeOK, ReasonInv, sessionVars, pipeVars, mainVars,
       history, ConstantsAssumption
  <1>6. CASE Clear
    BY <1>6 DEF Clear, TypeOK, ReasonInv, sessionVars, pipeVars, mainVars,
       history, ConstantsAssumption
  <1>7. CASE Start
    BY <1>7 DEF Start, TypeOK, ReasonInv, sessionVars, pipeVars, mainVars,
       history, ConstantsAssumption
  <1>8. CASE StartFails
    BY <1>8 DEF StartFails, TypeOK, ReasonInv, sessionVars, pipeVars, mainVars,
       history, ConstantsAssumption
  <1>9. CASE Publish
    BY <1>9 DEF Publish, TypeOK, ReasonInv, sessionVars, pipeVars, mainVars,
       history, ConstantsAssumption
  <1>10. CASE Watch
    BY <1>10 DEF Watch, TypeOK, ReasonInv, sessionVars, pipeVars, mainVars,
       history, ConstantsAssumption
  <1>11. CASE PullFrame
    BY <1>11 DEF PullFrame, TypeOK, ReasonInv, sessionVars, pipeVars, mainVars,
       history, ConstantsAssumption
  <1>12. CASE PullNothing
    BY <1>12 DEF PullNothing, TypeOK, ReasonInv, sessionVars, pipeVars, mainVars,
       history, ConstantsAssumption
  <1>13. CASE PullEnds
    BY <1>13 DEF PullEnds, TypeOK, ReasonInv, sessionVars, pipeVars, mainVars,
       history, ConstantsAssumption
  <1>14. CASE Withdraw
    BY <1>14 DEF Withdraw, TypeOK, ReasonInv, sessionVars, pipeVars, mainVars,
       history, ConstantsAssumption
  <1>15. CASE Join
    BY <1>15 DEF Join, TypeOK, ReasonInv, sessionVars, pipeVars, mainVars,
       history, ConstantsAssumption
  <1>16. CASE Count
    BY <1>16 DEF Count, TypeOK, ReasonInv, sessionVars, pipeVars, mainVars,
       history, ConstantsAssumption
  <1>17. CASE Delay
    BY <1>17 DEF Delay, TypeOK, ReasonInv, sessionVars, pipeVars, mainVars,
       history, ConstantsAssumption
  <1>18. CASE DetectChecks
    BY <1>18 DEF DetectChecks, TypeOK, ReasonInv, sessionVars, pipeVars, mainVars,
       history, ConstantsAssumption
  <1>19. CASE DetectPumps
    BY <1>19 DEF DetectPumps, TypeOK, ReasonInv, sessionVars, pipeVars, mainVars,
       history, ConstantsAssumption
  <1>20. CASE SetStream
    BY <1>20 DEF SetStream, TypeOK, ReasonInv, sessionVars, pipeVars, mainVars,
       history, ConstantsAssumption
  <1>21. CASE Change
    BY <1>21 DEF Change, TypeOK, ReasonInv, sessionVars, pipeVars, mainVars,
       history, ConstantsAssumption
  <1>22. CASE Poke
    BY <1>22 DEF Poke, TypeOK, ReasonInv, sessionVars, pipeVars, mainVars,
       history, ConstantsAssumption
  <1>23. CASE PokeEnds
    BY <1>23 DEF PokeEnds, TypeOK, ReasonInv, sessionVars, pipeVars, mainVars,
       history, ConstantsAssumption
  <1>24. CASE RefreshBegins
    BY <1>24 DEF RefreshBegins, TypeOK, ReasonInv, sessionVars, pipeVars, mainVars,
       history, ConstantsAssumption
  <1>25. CASE RefreshAssigned
    BY <1>25 DEF RefreshAssigned, TypeOK, ReasonInv, sessionVars, pipeVars, mainVars,
       history, ConstantsAssumption
  <1>26. CASE RefreshFlags
    BY <1>26 DEF RefreshFlags, TypeOK, ReasonInv, sessionVars, pipeVars, mainVars,
       history, ConstantsAssumption
  <1>27. CASE UNCHANGED vars
    BY <1>27 DEF vars, TypeOK, ReasonInv, sessionVars, pipeVars, mainVars,
       history, ConstantsAssumption
  <1> QED
    BY <1>1, <1>2, <1>3, <1>4, <1>5, <1>6, <1>7, <1>8, <1>9, <1>10, <1>11,
       <1>12, <1>13, <1>14, <1>15, <1>16, <1>17, <1>18, <1>19, <1>20,
       <1>21, <1>22, <1>23, <1>24, <1>25, <1>26, <1>27
    DEF Next, Loop, Detect, Handler

(***************************************************************************)
(* A camera that streams is never given up: only one of whose pipelines,   *)
(* in the same session, some ended without a frame                         *)
(* (SecureUsbServer.cpp:658-668).                                          *)
(***************************************************************************)
THEOREM NotGivenUpForNothing == Spec => []GivenUpForAReason
PROOF
  <1>1. Init => ReasonInv
    BY DEF Init, ReasonInv
  <1>2. TypeOK /\ ReasonInv /\ [Next]_vars => ReasonInv'
    BY ReasonStep, ConstantsAssumption
  <1>3. ReasonInv => GivenUpForAReason
    BY DEF ReasonInv, GivenUpForAReason
  <1> QED
    BY <1>1, <1>2, <1>3, TypeCorrect, PTL DEF Spec

-----------------------------------------------------------------------------
(* Part 2: SensorDriver. *)


(***************************************************************************)
(* The driver's vc_ctrl is the table's record with its clocks filled in,   *)
(* and what the table promises holds of it.                                *)
(***************************************************************************)
LineLasts(c) == \A i \in DOMAIN c.modes : vc_core_calculate_period_1H(c, c.modes[i]) >= 1000

SensorOK(c) == WellFormed(c) /\ LineLasts(c) /\ c.clkTrigger > 0 /\ c.clkPixel > 0

Completed(s, x, y, z) == [s EXCEPT !.clkTrigger = x, !.clkPixel = y, !.shsBytes = z]

(* Filling in the clocks and the shutter registers leaves the record one of the table's kind,
   and the rest of it alone. *)
LEMMA CompletedTyped ==
  ASSUME NEW s \in VcCtrls, NEW x \in Nat, NEW y \in Nat, NEW z \in DOMAIN Span
  PROVE  LET c == Completed(s, x, y, z)
         IN  /\ c \in VcCtrls
             /\ c.modes = s.modes /\ c.flags = s.flags /\ c.binnings = s.binnings
             /\ c.maxBinning = s.maxBinning /\ c.vmaxMax = s.vmaxMax /\ c.vmaxBytes = s.vmaxBytes
             /\ c.height = s.height /\ c.clkTrigger = x /\ c.clkPixel = y /\ c.shsBytes = z
PROOF
  <1>1. Completed(s, x, y, z) \in VcCtrls
    BY Zenon DEF VcCtrls, Completed
  <1> QED BY <1>1, SMT DEF VcCtrls, Completed

LEMMA CtrlFilled ==
  ASSUME NEW b \in DOMAIN Boards
  PROVE  /\ SensorOK(Ctrl[b]) /\ Ctrl[b].modes = vc_mod_ctrl_init[Boards[b].id].modes
         /\ Ctrl[b].shsBytes \in DOMAIN Span
PROOF
  <1> DEFINE s == vc_mod_ctrl_init[Boards[b].id]
             c == Ctrl[b]
  <1>1. BoardKnown(Boards[b])
    BY DriverAssumption
  <1>2. Boards[b].id \in DOMAIN vc_mod_ctrl_init
    BY <1>1 DEF BoardKnown
  <1>3. WellFormed(s)
    BY <1>2, TableWellFormed
  <1> HIDE DEF s
  <1>4. s \in VcCtrls
    BY <1>3 DEF WellFormed
  <1> DEFINE x == Filled(s.clkTrigger, Boards[b].clkTrigger)
             y == Filled(s.clkPixel, Boards[b].clkPixel)
             z == Filled(s.shsBytes, Boards[b].shsBytes)
  <1>5. c = Completed(s, x, y, z)
    BY DEF Ctrl, s, Completed
  <1>6. /\ x \in Nat /\ y \in Nat /\ x > 0 /\ y > 0 /\ z \in DOMAIN Span
        /\ \A i \in DOMAIN s.modes : (s.modes[i].hmax * 1000000) \div y >= 1000
    BY <1>1, <1>4 DEF BoardKnown, s, Filled, VcCtrls
  <1> HIDE DEF c, x, y, z
  <1>7. /\ c.modes = s.modes /\ c.flags = s.flags /\ c.binnings = s.binnings
        /\ c.maxBinning = s.maxBinning /\ c.vmaxMax = s.vmaxMax /\ c.vmaxBytes = s.vmaxBytes
        /\ c.height = s.height /\ c.clkTrigger = x /\ c.clkPixel = y /\ c.shsBytes = z
        /\ c \in VcCtrls
    <2>1. x \in Nat /\ y \in Nat /\ z \in DOMAIN Span
      BY <1>6
    <2> DEFINE k == Completed(s, x, y, z)
    <2>2. /\ k.modes = s.modes /\ k.flags = s.flags /\ k.binnings = s.binnings
          /\ k.maxBinning = s.maxBinning /\ k.vmaxMax = s.vmaxMax /\ k.vmaxBytes = s.vmaxBytes
          /\ k.height = s.height /\ k.clkTrigger = x /\ k.clkPixel = y /\ k.shsBytes = z
          /\ k \in VcCtrls
      BY <1>4, <2>1, CompletedTyped
    <2> HIDE DEF k
    <2> QED BY <1>5, <2>2 DEF k
  <1>8. RowsComplete(c) /\ RowsOrdered(c) /\ HeightFits(c) /\ BinningsIndexed(c)
    <2>1. RowsComplete(s) /\ RowsOrdered(s) /\ HeightFits(s) /\ BinningsIndexed(s)
      BY <1>3 DEF WellFormed
    <2>2. Lanes(c) = Lanes(s) /\ Formats(c) = Formats(s) /\ Binnings(c) = Binnings(s)
      BY <1>7 DEF Lanes, Formats, Binnings
    <2>3. RowsComplete(c)
      BY <1>7, <2>1, <2>2, SMT DEF RowsComplete
    <2>4. RowsOrdered(c)
      BY <1>7, <2>1, Zenon DEF RowsOrdered
    <2>5. HeightFits(c)
      BY <1>7, <2>1, Zenon DEF HeightFits
    <2>6. BinningsIndexed(c)
      BY <1>7, <2>1, Zenon DEF BinningsIndexed
    <2> QED BY <2>3, <2>4, <2>5, <2>6
  <1>9. LineLasts(c)
    BY <1>6, <1>7 DEF LineLasts, vc_core_calculate_period_1H
  <1> QED BY <1>6, <1>7, <1>8, <1>9 DEF SensorOK, WellFormed, c, s

(* The arithmetic of the driver stays in the naturals. *)
LEMMA DivNat ==
  ASSUME NEW a \in Nat, NEW b \in Nat, b > 0
  PROVE  a \div b \in Nat
OBVIOUS

LEMMA ModNat ==
  ASSUME NEW a \in Nat, NEW b \in Nat, b > 0
  PROVE  a % b \in Nat
OBVIOUS

LEMMA MulNat ==
  ASSUME NEW a \in Nat, NEW b \in Nat
  PROVE  a * b \in Nat
OBVIOUS

(* MulDiv() too, and a product of something with a line that lasts is not 0. *)
LEMMA MulDivNat ==
  ASSUME NEW a \in Nat, NEW b \in Nat, NEW d \in Nat, d > 0
  PROVE  MulDiv(a, b, d) \in Nat
PROOF
  <1>1. a \div d \in Nat /\ a % d \in Nat
    BY DivNat, ModNat
  <1>2. (a \div d) * b \in Nat /\ (a % d) * b \in Nat
    BY <1>1, MulNat
  <1>3. ((a % d) * b) \div d \in Nat
    BY <1>2, DivNat
  <1> QED BY <1>2, <1>3 DEF MulDiv

LEMMA MulDivPos ==
  ASSUME NEW a \in Nat, NEW b \in Nat, a > 0, b >= 1000
  PROVE  MulDiv(a, b, 1000) > 0
PROOF
  <1>1. /\ a \div 1000 \in Nat /\ a % 1000 \in Nat
        /\ (a \div 1000) * b \in Nat /\ (a % 1000) * b \in Nat
    BY MulNat
  <1>2. CASE a >= 1000
    <2>1. PICK k \in Nat : a \div 1000 = k + 1
      <3>1. a \div 1000 >= 1
        BY <1>2
      <3> QED BY <3>1, <1>1
    <2>2. (k + 1) * b = k * b + b /\ k * b \in Nat
      BY MulNat
    <2>3. ((a % 1000) * b) \div 1000 \in Nat
      BY <1>1, DivNat
    <2> QED BY <2>1, <2>2, <2>3 DEF MulDiv
  <1>3. CASE a < 1000
    <2>1. a % 1000 = a /\ a \div 1000 = 0
      BY <1>3
    <2>2. PICK k \in Nat : a = k + 1
      OBVIOUS
    <2>3. (k + 1) * b = k * b + b /\ k * b \in Nat
      BY MulNat
    <2>4. a * b >= 1000 /\ a * b \in Nat
      BY <2>2, <2>3
    <2>5. (a * b) \div 1000 >= 1
      BY <2>4
    <2> QED BY <2>1, <2>5, <1>1 DEF MulDiv
  <1> QED BY <1>2, <1>3

(* vc_core_get_mode() finds a row for what the setters let the state have, and not a row of
   zeros: RowsComplete has one, and one only. *)
LEMMA RowFound ==
  ASSUME NEW c, WellFormed(c), NEW lanes \in Lanes(c), NEW format \in Formats(c),
         NEW binning \in 0..c.maxBinning
  PROVE  \E i \in DOMAIN c.modes :
           /\ vc_core_get_mode(c, lanes, format, binning) = c.modes[i]
           /\ c.modes[i].binning = IF "USE_BINNING_INDEX" \in c.flags THEN binning ELSE 0
PROOF
  <1> DEFINE b == IF "USE_BINNING_INDEX" \in c.flags THEN binning ELSE 0
             rows == {i \in DOMAIN c.modes : /\ c.modes[i].lanes = lanes
                                             /\ c.modes[i].format = format
                                             /\ c.modes[i].binning = b}
  <1>1. b \in Binnings(c)
    BY DEF Binnings
  <1>2. c.modes \in Seq(VcModes)
    BY DEF WellFormed, VcCtrls
  <1>3. DOMAIN c.modes \subseteq Nat
    BY <1>2
  <1> HIDE DEF b
  <1>4. PICK i \in rows : \A j \in rows : j = i
    BY <1>1 DEF WellFormed, RowsComplete
  <1>5. \A j \in rows : i <= j
    BY <1>3, <1>4
  <1>6. vc_core_get_mode(c, lanes, format, binning) = c.modes[CHOOSE k \in rows : \A j \in rows : k <= j]
    BY DEF vc_core_get_mode, b
  <1>7. (CHOOSE k \in rows : \A j \in rows : k <= j) \in rows
    BY <1>5
  <1> QED BY <1>6, <1>7 DEF b

(***************************************************************************)
(* The row the driver reads in state s has the index i: it is the one of   *)
(* the state's binning.                                                    *)
(***************************************************************************)
RowFor(c, s, i) ==
  /\ s.binning \in 0..c.maxBinning /\ i \in DOMAIN c.modes
  /\ c.modes[i].binning = IF "USE_BINNING_INDEX" \in c.flags THEN s.binning ELSE 0

(* vc_core_get_optimized_vmax(): the lines left below a full frame are a number and at least
   vmax.min, whatever the height and the binning. The unsigned subtractions do not wrap. *)
LEMMA FrameLong ==
  ASSUME NEW c, WellFormed(c), NEW s, NEW i, RowFor(c, s, i), NEW height \in Nat
  PROVE  LET v == vc_core_get_binning(c, s).v
             vmax == vc_core_get_optimized_vmax(c, c.modes[i], v, height)
         IN  /\ v \in Nat /\ vmax \in Nat /\ vmax > 0 /\ vmax >= c.modes[i].vmaxMin
PROOF
  <1> DEFINE row == c.modes[i]
             v == vc_core_get_binning(c, s).v
             full == IF v > 0 THEN c.height \div v ELSE c.height
  <1> USE DEF RowFor
  <1>1. /\ c \in VcCtrls /\ c.modes \in Seq(VcModes) /\ c.binnings \in Seq(VcBinnings)
        /\ c.maxBinning \in Nat /\ c.height \in Nat
    BY DEF WellFormed, VcCtrls
  <1>2. row \in VcModes /\ row.vmaxMin \in Nat /\ row.vmaxDef \in Nat /\ row.binning \in Nat
    <2>1. row \in VcModes
      BY <1>1
    <2> QED BY <2>1, SMT DEF VcModes, MaxBinnings
  <1>3. row.vmaxMin < row.vmaxDef
    BY DEF WellFormed, RowsOrdered
  <1>4. v \in Nat /\ (v > 0 <=> s.binning > 0)
    <2>1. CASE s.binning + 1 \in DOMAIN c.binnings
      <3>1. c.binnings[s.binning + 1] \in VcBinnings
        BY <1>1, <2>1
      <3>2. c.binnings[s.binning + 1].v > 0 <=> s.binning + 1 > 1
        BY <2>1 DEF WellFormed, BinningsIndexed
      <3> QED BY <2>1, <3>1, <3>2, <1>1 DEF vc_core_get_binning, VcBinnings
    <2>2. CASE s.binning + 1 \notin DOMAIN c.binnings
      <3>1. s.binning = 0
        BY <1>1, <2>2 DEF WellFormed, RowsComplete
      <3> QED BY <2>2, <3>1 DEF vc_core_get_binning
    <2> QED BY <2>1, <2>2
  <1>5. s.binning > 0 => s.binning + 1 \in DOMAIN c.binnings /\ row.binning = s.binning
    BY <1>1 DEF WellFormed, RowsComplete, BinningsIndexed
  <1>6. full \in Nat
    BY <1>1, <1>4, DivNat
  <1>7. "INCREASE_FRAME_RATE" \in c.flags => row.vmaxDef >= full + row.vmaxMin /\ row.vmaxMin > 0
    <2> SUFFICES ASSUME "INCREASE_FRAME_RATE" \in c.flags
                 PROVE  row.vmaxDef >= full + row.vmaxMin /\ row.vmaxMin > 0
      OBVIOUS
    <2>1. row.vmaxMin > 0
      BY DEF WellFormed, BinningsIndexed
    <2>2. CASE s.binning > 0
      <3>1. v = c.binnings[row.binning + 1].v /\ row.binning > 0
        BY <1>5, <2>2 DEF vc_core_get_binning
      <3>2. row.vmaxDef >= c.height \div v + row.vmaxMin
        BY <3>1 DEF WellFormed, HeightFits
      <3> QED BY <2>1, <2>2, <3>2, <1>4
    <2>3. CASE s.binning = 0
      <3>1. row.binning = 0
        BY <2>3
      <3>2. row.vmaxDef >= c.height \div 1 + row.vmaxMin
        BY <3>1 DEF WellFormed, HeightFits
      <3>3. c.height \div 1 = c.height
        BY <1>1
      <3> QED BY <2>1, <2>3, <3>2, <3>3, <1>1, <1>4
    <2> QED BY <1>1, <2>2, <2>3
  <1> HIDE DEF v, full
  <1> DEFINE vmax == vc_core_get_optimized_vmax(c, row, v, height)
  <1>8. \/ vmax = row.vmaxDef
        \/ "INCREASE_FRAME_RATE" \in c.flags /\ height < full /\ vmax = row.vmaxDef - (full - height)
    BY SMT DEF vc_core_get_optimized_vmax, full
  <1> HIDE DEF row, vmax
  <1>9. vmax \in Nat /\ vmax > 0 /\ vmax >= row.vmaxMin
    BY <1>2, <1>3, <1>6, <1>7, <1>8, SMT
  <1> QED BY <1>4, <1>9 DEF v, vmax, row

(* vc_core_calculate_period_1H() never gives a line of less than a microsecond. *)
LEMMA LineLong ==
  ASSUME NEW c, SensorOK(c), NEW i \in DOMAIN c.modes
  PROVE  LET period == vc_core_calculate_period_1H(c, c.modes[i])
         IN  period \in Nat /\ period >= 1000
PROOF
  <1>1. c.modes[i] \in VcModes /\ c.clkPixel \in Nat /\ c.clkPixel > 0
    BY DEF SensorOK, WellFormed, VcCtrls
  <1>2. c.modes[i].hmax * 1000000 \in Nat
    BY <1>1 DEF VcModes
  <1>3. vc_core_calculate_period_1H(c, c.modes[i]) \in Nat
    BY <1>1, <1>2, DivNat DEF vc_core_calculate_period_1H
  <1> QED BY <1>3 DEF SensorOK, LineLasts

(* vc_core_calculate_max_exposure() and vc_core_calculate_max_frame_rate() divide by nothing
   that is 0. *)
LEMMA ExposureLimit ==
  ASSUME NEW c, SensorOK(c), NEW i \in DOMAIN c.modes, NEW trigger
  PROVE  vc_core_calculate_max_exposure(c, c.modes[i], trigger) \in Nat
PROOF
  <1> DEFINE row == c.modes[i]
             period == vc_core_calculate_period_1H(c, row)
             lines == c.vmaxMax - row.vmaxMin
  <1>1. period \in Nat
    BY LineLong
  <1>2. /\ c \in VcCtrls /\ row \in VcModes
        /\ row.vmaxMin < row.vmaxDef /\ row.vmaxDef <= c.vmaxMax
    BY DEF SensorOK, WellFormed, VcCtrls, RowsOrdered
  <1>3. lines \in Nat /\ c.clkTrigger \in Nat /\ c.clkTrigger > 0
    <2>1. /\ row.vmaxMin \in Nat /\ row.vmaxDef \in Nat
          /\ c.vmaxMax \in Nat /\ c.clkTrigger \in Nat
      BY <1>2, SMT DEF VcCtrls, VcModes
    <2> QED BY <1>2, <2>1, SMT DEF SensorOK
  <1> HIDE DEF period, lines
  <1>4. MulDiv(lines, period, 1000) \in Nat
    BY <1>1, <1>3, MulDivNat
  <1>5. MulDiv(CountMax, 1000, c.clkTrigger) \in Nat
    BY <1>3, CountMaxNat, MulDivNat
  <1> QED BY <1>4, <1>5 DEF vc_core_calculate_max_exposure, period, lines

LEMMA LimitsTyped ==
  ASSUME NEW c, SensorOK(c), NEW s, NEW i, RowFor(c, s, i), NEW height \in Nat
  PROVE  vc_core_calculate_max_frame_rate(c, c.modes[i], vc_core_get_binning(c, s).v, height) \in Nat
PROOF
  <1> DEFINE row == c.modes[i]
             period == vc_core_calculate_period_1H(c, row)
             vmax == vc_core_get_optimized_vmax(c, row, vc_core_get_binning(c, s).v, height)
  <1>1. period \in Nat /\ period >= 1000
    BY LineLong DEF RowFor
  <1>2. vmax \in Nat /\ vmax > 0
    BY FrameLong DEF SensorOK
  <1>3. MulDiv(vmax, period, 1000) \in Nat /\ MulDiv(vmax, period, 1000) > 0
    BY <1>1, <1>2, MulDivNat, MulDivPos
  <1> QED BY <1>3, DivNat DEF vc_core_calculate_max_frame_rate

(* The lines of a frame at some rate are a number. *)
LEMMA FrameLinesNat ==
  ASSUME NEW framerate \in Nat, framerate > 0, NEW period \in Nat, period > 0
  PROVE  FrameLines(framerate, period) \in Nat
PROOF
  <1> DEFINE us == 1000000000 \div framerate
             ns == ((1000000000 % framerate) * 1000) \div framerate
  <1>1. us \in Nat /\ 1000000000 % framerate \in Nat
    BY DivNat, ModNat
  <1>2. ns \in Nat
    BY <1>1, DivNat, MulNat
  <1> HIDE DEF us, ns
  <1>3. us \div period \in Nat /\ us % period \in Nat
    BY <1>1, DivNat, ModNat
  <1>4. ((us % period) * 1000 + ns) \div period \in Nat
    BY <1>2, <1>3, DivNat, MulNat
  <1> QED BY <1>3, <1>4 DEF FrameLines, us, ns

Slack(trigger) == IF trigger = "SYNC" THEN 1 ELSE 0

(* Shutter and frame length n fit together, for a row that allows least and that trigger. *)
Fits(n, least, trigger) ==
  /\ DOMAIN n = {"shs", "vmax"} /\ n.shs \in Nat /\ n.vmax \in Nat
  /\ least <= n.shs /\ n.shs <= n.vmax + Slack(trigger)

LEMMA ShutterFits ==
  ASSUME NEW c, SensorOK(c), NEW s, NEW i, RowFor(c, s, i), NEW height \in Nat, NEW framerate \in Nat, NEW trigger, NEW exposure \in Nat
  PROVE  Fits(vc_calculate_exposure(c, c.modes[i], vc_core_get_binning(c, s).v, height,
                                    framerate, trigger, exposure),
              c.modes[i].vmaxMin, trigger)
PROOF
  <1> DEFINE row == c.modes[i]
             period == vc_core_calculate_period_1H(c, row)
             least == vc_core_get_optimized_vmax(c, row, vc_core_get_binning(c, s).v, height)
             vmax == vc_core_calculate_vmax(least, framerate, period)
             lines == MulDiv(exposure, 1000, period)
             n == vc_calculate_exposure(c, row, vc_core_get_binning(c, s).v, height,
                                        framerate, trigger, exposure)
  <1>1. period \in Nat /\ period >= 1000
    BY LineLong DEF RowFor
  <1>2. least \in Nat /\ least > 0 /\ least >= row.vmaxMin
    BY FrameLong DEF SensorOK
  <1>3. row.vmaxMin \in Nat
    <2>1. row \in VcModes
      BY DEF SensorOK, WellFormed, VcCtrls, RowFor
    <2> QED BY <2>1 DEF VcModes
  <1> HIDE DEF period
  <1>4. lines \in Nat
    BY <1>1, MulDivNat
  <1>5. n = IF "EXPOSURE_SONY" \in c.flags
            THEN vc_calculate_exposure_sony(vmax, row.vmaxMin, lines, trigger)
            ELSE vc_calculate_exposure_normal(vmax, row.vmaxMin, lines)
    BY DEF vc_calculate_exposure, period
  <1> HIDE DEF least, lines, n
  <1>6. vmax \in Nat /\ vmax > 0 /\ vmax >= row.vmaxMin
    BY <1>1, <1>2, <1>3, FrameLinesNat DEF vc_core_calculate_vmax
  <1> HIDE DEF vmax, row
  <1>7. n \in [shs : Nat, vmax : Nat] /\ row.vmaxMin <= n.shs /\ n.shs <= n.vmax + Slack(trigger)
    <2>1. CASE "EXPOSURE_SONY" \in c.flags
      <3>1. n = vc_calculate_exposure_sony(vmax, row.vmaxMin, lines, trigger)
        BY <1>5, <2>1
      <3>2. CASE lines < vmax - row.vmaxMin
        BY <3>1, <3>2, <1>3, <1>4, <1>6 DEF vc_calculate_exposure_sony, Slack
      <3>3. CASE ~(lines < vmax - row.vmaxMin)
        BY <3>1, <3>3, <1>3, <1>4, <1>6 DEF vc_calculate_exposure_sony, Slack
      <3> QED BY <3>2, <3>3
    <2>2. CASE "EXPOSURE_SONY" \notin c.flags
      <3>1. n = vc_calculate_exposure_normal(vmax, row.vmaxMin, lines)
        BY <1>5, <2>2
      <3> QED BY <3>1, <1>3, <1>4, <1>6 DEF vc_calculate_exposure_normal, Slack
    <2> QED BY <2>1, <2>2
  <1>8. DOMAIN n = {"shs", "vmax"}
    BY <1>7
  <1>9. Fits(n, row.vmaxMin, trigger)
    BY <1>7, <1>8 DEF Fits
  <1> QED BY <1>9 DEF n, row

-----------------------------------------------------------------------------
(***************************************************************************)
(* The settings are those of the board: types, and lanes, format, binning  *)
(* and trigger that the sensor has.                                        *)
(***************************************************************************)
Supported(b, trigger) == trigger = "DISABLE" \/ TriggerFlags[trigger] \cap Ctrl[b].flags # {}

SettingsOK(b, s) ==
  /\ s \in States /\ Supported(b, s.trigger)
  /\ s.mode \in {NoMode} \cup DOMAIN Boards[b].modes
  /\ s.binning \in 0..Ctrl[b].maxBinning
  /\ s.gain \in Ctrl[b].gain.min..Ctrl[b].gain.max
  /\ s.lanes \in Lanes(Ctrl[b]) /\ s.format \in Formats(Ctrl[b])

LimitOK(l) == l \in [exposure : Nat, framerate : Nat]

ImageKinds == [height : Nat, binning : {NoBinning} \cup Nat]

(* What DriverAssumption and the table say of a board, in one place. *)
LEMMA BoardFacts ==
  ASSUME NEW b \in DOMAIN Boards
  PROVE  /\ SensorOK(Ctrl[b]) /\ Ctrl[b] \in VcCtrls
         /\ Boards[b].modes \in Seq([lanes : Lanes(Ctrl[b]), format : Formats(Ctrl[b]),
                                     type : STRING, binning : Nat, rate : 1..CountMax])
         /\ Boards[b].modes # << >>
         /\ Boards[b].images \in Seq(ImageKinds) /\ Boards[b].images # << >>
         /\ Boards[b].gain.min \in Nat /\ Boards[b].gain.max \in Nat
         /\ Boards[b].gain.min < Boards[b].gain.max
         /\ Boards[b].trigger \in TriggerModes /\ Boards[b].io \in 0..5
         /\ Ctrl[b].shsBytes \in DOMAIN Span /\ Ctrl[b].vmaxBytes \in DOMAIN Span
         /\ Lanes(Ctrl[b]) \subseteq {1, 2, 4} /\ Formats(Ctrl[b]) \subseteq VcFormats
PROOF
  <1> DEFINE s == vc_mod_ctrl_init[Boards[b].id]
             c == Ctrl[b]
  <1>1. SensorOK(c)
    BY CtrlFilled
  <1>2. c \in VcCtrls
    BY <1>1 DEF SensorOK, WellFormed
  <1>3. BoardKnown(Boards[b])
    BY DriverAssumption
  <1>4. s \in VcCtrls
    BY <1>3, TableWellFormed DEF BoardKnown, WellFormed
  <1>5. c.modes = s.modes
    BY CtrlFilled
  <1>6. Lanes(c) = Lanes(s) /\ Formats(c) = Formats(s)
    BY <1>5 DEF Lanes, Formats
  <1>7. \A i \in DOMAIN c.modes : c.modes[i].lanes \in {1, 2, 4} /\ c.modes[i].format \in VcFormats
    <2> SUFFICES ASSUME NEW i \in DOMAIN c.modes
                 PROVE  c.modes[i].lanes \in {1, 2, 4} /\ c.modes[i].format \in VcFormats
      OBVIOUS
    <2>1. c.modes \in Seq(VcModes)
      BY <1>2 DEF VcCtrls
    <2> HIDE DEF c
    <2>2. c.modes[i] \in VcModes
      BY <2>1
    <2> QED BY <2>2 DEF VcModes
  <1>8. Lanes(c) \subseteq {1, 2, 4} /\ Formats(c) \subseteq VcFormats
    BY <1>7 DEF Lanes, Formats
  <1>9. /\ Boards[b].modes \in Seq([lanes : Lanes(s), format : Formats(s),
                                     type : STRING, binning : Nat, rate : 1..CountMax])
        /\ Boards[b].modes # << >>
        /\ Boards[b].images \in Seq(ImageKinds) /\ Boards[b].images # << >>
        /\ Boards[b].gain \in [min : Nat, max : Nat] /\ Boards[b].gain.min < Boards[b].gain.max
        /\ Boards[b].trigger \in TriggerModes /\ Boards[b].io \in 0..5
    BY <1>3, SMT DEF BoardKnown, ImageKinds
  <1>10. c.shsBytes \in DOMAIN Span /\ c.vmaxBytes \in DOMAIN Span
    BY <1>2, CtrlFilled DEF VcCtrls
  <1>11. Boards[b].gain.min \in Nat /\ Boards[b].gain.max \in Nat
    BY <1>9
  <1> HIDE DEF s, c
  <1> QED BY <1>1, <1>2, <1>6, <1>8, <1>9, <1>10, <1>11, Zenon DEF c

(* The row the driver reads for the settings it has. *)
LEMMA RowIs ==
  ASSUME board \in DOMAIN Boards, NEW s, SettingsOK(board, s)
  PROVE  \E i \in DOMAIN ctrl.modes : RowOf(s) = ctrl.modes[i] /\ RowFor(ctrl, s, i)
PROOF
  <1>1. WellFormed(ctrl)
    BY BoardFacts DEF ctrl, SensorOK
  <1>2. s.lanes \in Lanes(ctrl) /\ s.format \in Formats(ctrl) /\ s.binning \in 0..ctrl.maxBinning
    BY DEF SettingsOK, ctrl
  <1> HIDE DEF ctrl
  <1> QED BY <1>1, <1>2, RowFound DEF RowOf, RowFor

(***************************************************************************)
(* The limits are numbers: no division by 0, no difference below it.       *)
(***************************************************************************)
LEMMA LimitsOK ==
  ASSUME board \in DOMAIN Boards, LimitOK(limit), NEW s, SettingsOK(board, s)
  PROVE  LimitOK(vc_core_update_controls(s))
PROOF
  <1>1. PICK i \in DOMAIN ctrl.modes : RowOf(s) = ctrl.modes[i] /\ RowFor(ctrl, s, i)
    BY RowIs
  <1>2. SensorOK(ctrl)
    BY BoardFacts DEF ctrl
  <1>3. s.height \in Nat
    BY DEF SettingsOK, States
  <1>4. vc_core_calculate_max_exposure(ctrl, RowOf(s), s.trigger) \in Nat
    BY <1>1, <1>2, ExposureLimit
  <1>5. vc_core_calculate_max_frame_rate(ctrl, RowOf(s), VFactor(s), s.height) \in Nat
    BY <1>1, <1>2, <1>3, LimitsTyped DEF VFactor
  <1> QED BY <1>4, <1>5 DEF vc_core_update_controls, LimitOK

(* DIV_ROUND_CLOSEST() of numbers is one. *)
LEMMA DivRoundNat ==
  ASSUME NEW x \in Nat, NEW d \in Nat, d > 0
  PROVE  DIV_ROUND_CLOSEST(x, d) \in Nat
PROOF
  <1>1. d \div 2 \in Nat
    BY DivNat
  <1>2. x + d \div 2 \in Nat
    BY <1>1
  <1> QED BY <1>2, DivNat DEF DIV_ROUND_CLOSEST

(* vc_core_state_init() sets what the board has. *)
LEMMA InitOK ==
  ASSUME board \in DOMAIN Boards
  PROVE  SettingsOK(board, vc_core_state_init) /\ vc_core_state_init.vmax = 0
PROOF
  <1> DEFINE first == cam.modes[1]
             c == Ctrl[board]
             row == vc_core_get_mode(c, first.lanes, first.format, 0)
  <1>1. /\ SensorOK(c) /\ c \in VcCtrls
        /\ first.lanes \in Lanes(c) /\ first.format \in Formats(c)
        /\ first.lanes \in {1, 2, 4} /\ first.format \in VcFormats
    <2>1. first \in [lanes : Lanes(c), format : Formats(c), type : STRING, binning : Nat,
                     rate : 1..CountMax]
      <3> DEFINE S == [lanes : Lanes(c), format : Formats(c), type : STRING, binning : Nat,
                       rate : 1..CountMax]
      <3>1. Boards[board].modes \in Seq(S) /\ Boards[board].modes # << >>
        BY BoardFacts
      <3> HIDE DEF S
      <3>2. Boards[board].modes[1] \in S
        BY <3>1
      <3> QED BY <3>2 DEF cam, S
    <2> QED BY <2>1, BoardFacts
  <1> HIDE DEF first
  <1>2. /\ c.gain \in VcControls /\ c.exposure \in VcControls /\ c.height \in Nat
        /\ c.maxBinning \in 0..MaxBinnings - 1
    BY <1>1 DEF VcCtrls
  <1>3. WellFormed(c) /\ 0 \in 0..c.maxBinning
    BY <1>1, <1>2 DEF SensorOK, MaxBinnings
  <1> HIDE DEF c
  <1>4. BlackDef(row) \in Nat
    <2>1. PICK i \in DOMAIN c.modes : row = c.modes[i]
      BY <1>1, <1>3, RowFound
    <2>2. c.modes[i] \in VcModes
      BY <1>1, <2>1 DEF VcCtrls
    <2> HIDE DEF row
    <2>3. row.blackDef * 100000 \in Nat /\ row.blackMax + 1 \in Nat /\ row.blackMax + 1 > 0
      BY <2>1, <2>2 DEF VcModes
    <2> QED BY <2>3, DivRoundNat DEF BlackDef
  <1> HIDE DEF row
  <1>5. vc_core_state_init =
          [ mode |-> NoMode, exposure |-> c.exposure.def, gain |-> c.gain.def,
            blacklevel |-> BlackDef(row),
            framerate |-> 0, format |-> first.format, lanes |-> first.lanes, height |-> c.height,
            io |-> {}, trigger |-> "DISABLE", trigReg |-> "DISABLE", binning |-> 0, former |-> 0,
            shs |-> 0, vmax |-> 0, streaming |-> FALSE ]
    BY DEF vc_core_state_init, ctrl, c, first, row
  <1> DEFINE s == vc_core_state_init
  <1>6. s \in States
    BY <1>1, <1>2, <1>4, <1>5, SMT
    DEF States, VcControls, NoMode, MaxBinnings, TriggerModes
  <1>7. /\ s.mode = NoMode /\ s.binning = 0 /\ s.gain = c.gain.def /\ s.lanes = first.lanes
        /\ s.format = first.format /\ s.trigger = "DISABLE" /\ s.vmax = 0
    BY <1>5
  <1> HIDE DEF s
  <1>8. s.gain \in c.gain.min..c.gain.max /\ s.binning \in 0..c.maxBinning
    BY <1>2, <1>3, <1>7 DEF VcControls
  <1> QED BY <1>1, <1>6, <1>7, <1>8 DEF SettingsOK, Supported, s, c

(***************************************************************************)
(* What each call does to the settings keeps them those of the board.      *)
(***************************************************************************)
IoSets == SUBSET {"FLASH", "FLASH_LOW", "TRIG_LOW", "XTRIG"}

(* The bits of an I/O mode, and the registers of a trigger mode. *)
LEMMA IoKnown ==
  /\ IoExtra \in IoSets
  /\ \A n \in DOMAIN IoBits : IoBits[n] \in IoSets
  /\ DOMAIN IoBits = 1..5
BY DEF IoExtra, IoBits, IoSets

LEMMA TriggerRegKnown ==
  ASSUME NEW mode \in TriggerModes
  PROVE  TriggerReg(mode) \in TriggerModes \ {"OVERLAP"}
BY DEF TriggerReg, TriggerModes

(* What the device tree adds in vc_probe(): a trigger it does not have and lanes it does not
   have are not taken. *)
LEMMA ProbedOK ==
  ASSUME board \in DOMAIN Boards, NEW s, SettingsOK(board, s), LanesKnown
  PROVE  LET t == vc_init_lanes(vc_init_io(s))
         IN  SettingsOK(board, t) /\ t.mode = s.mode /\ t.vmax = s.vmax
PROOF
  <1> DEFINE u == vc_init_io(s)
             t == vc_init_lanes(u)
             trigger == IF TriggerSupported(cam.trigger) THEN cam.trigger ELSE s.trigger
             trigReg == IF TriggerSupported(cam.trigger) THEN TriggerReg(cam.trigger) ELSE s.trigReg
             io == IF cam.io = 0 \/ "IO_ENABLED" \notin ctrl.flags THEN s.io
                   ELSE IoBits[cam.io] \cup IoExtra
  <1>1. s \in States
    BY DEF SettingsOK
  <1>2. trigger \in TriggerModes /\ trigReg \in TriggerModes \ {"OVERLAP"} /\ Supported(board, trigger)
    BY <1>1, BoardFacts, TriggerRegKnown DEF States, cam, SettingsOK, TriggerSupported, Supported, ctrl
  <1>3. io \in IoSets
    <2>1. s.io \in IoSets
      BY <1>1 DEF States, IoSets
    <2>2. cam.io \in 0..5
      BY BoardFacts DEF cam
    <2>3. cam.io # 0 => IoBits[cam.io] \in IoSets /\ IoExtra \in IoSets
      BY <2>2, IoKnown
    <2> QED BY <2>1, <2>3 DEF IoSets
  <1>4. cam.lanes \in Lanes(ctrl) /\ cam.lanes \in {1, 2, 4}
    <2>1. PICK i \in DOMAIN cam.modes : cam.modes[i].lanes = cam.lanes
      BY DEF LanesKnown
    <2> DEFINE S == [lanes : Lanes(ctrl), format : Formats(ctrl), type : STRING, binning : Nat,
                     rate : 1..CountMax]
    <2>2. cam.modes \in Seq(S)
      BY BoardFacts DEF cam, ctrl
    <2> HIDE DEF S
    <2>3. cam.modes[i] \in S
      BY <2>1, <2>2
    <2> QED BY <2>1, <2>3, BoardFacts DEF S, ctrl
  <1>5. u = [s EXCEPT !.trigger = trigger, !.trigReg = trigReg, !.io = io]
    BY DEF vc_init_io
  <1> HIDE DEF trigger, trigReg, io
  <1>6. u \in States
    <2>1. [s EXCEPT !.trigger = trigger, !.trigReg = trigReg, !.io = io] \in States
      BY <1>1, <1>2, <1>3, Zenon DEF States, IoSets
    <2> QED BY <1>5, <2>1
  <1> HIDE DEF u
  <1>7. t = [u EXCEPT !.lanes = cam.lanes]
    BY DEF vc_init_lanes
  <1>8. t \in States
    BY <1>4, <1>6, <1>7, SMT DEF States
  <1>9. /\ t.mode = s.mode /\ t.binning = s.binning /\ t.gain = s.gain /\ t.format = s.format
        /\ t.lanes = cam.lanes /\ t.trigger = trigger /\ t.vmax = s.vmax
    <2>1. /\ u.mode = s.mode /\ u.binning = s.binning /\ u.gain = s.gain /\ u.format = s.format
          /\ u.trigger = trigger /\ u.vmax = s.vmax
      BY <1>1, <1>5, <1>6, SMT DEF States
    <2>2. /\ t.mode = u.mode /\ t.binning = u.binning /\ t.gain = u.gain /\ t.format = u.format
          /\ t.lanes = cam.lanes /\ t.trigger = u.trigger /\ t.vmax = u.vmax
      BY <1>6, <1>7, SMT DEF States
    <2> QED BY <2>1, <2>2
  <1> HIDE DEF t
  <1>10. SettingsOK(board, t)
    BY <1>2, <1>4, <1>8, <1>9 DEF SettingsOK, ctrl
  <1> QED BY <1>9, <1>10 DEF t, u

(* The modes in the EEPROM name lanes and formats of the sensor. *)
LEMMA ModeKnown ==
  ASSUME board \in DOMAIN Boards
  PROVE  /\ 1 \in DOMAIN cam.modes /\ DOMAIN cam.modes \subseteq Nat \ {NoMode}
         /\ \A i \in DOMAIN cam.modes : /\ cam.modes[i].lanes \in Lanes(ctrl)
                                        /\ cam.modes[i].format \in Formats(ctrl)
                                        /\ cam.modes[i].rate \in 1..CountMax
PROOF
  <1> DEFINE S == [lanes : Lanes(ctrl), format : Formats(ctrl), type : STRING, binning : Nat,
                   rate : 1..CountMax]
  <1>1. cam.modes \in Seq(S) /\ cam.modes # << >>
    BY BoardFacts DEF cam, ctrl
  <1>2. \A m \in S : m.lanes \in Lanes(ctrl) /\ m.format \in Formats(ctrl) /\ m.rate \in 1..CountMax
    OBVIOUS
  <1> HIDE DEF S
  <1>3. \A i \in DOMAIN cam.modes : cam.modes[i] \in S
    BY <1>1
  <1>4. 1 \in DOMAIN cam.modes /\ DOMAIN cam.modes \subseteq Nat \ {NoMode}
    BY <1>1 DEF NoMode
  <1> QED BY <1>2, <1>3, <1>4

(* What a call leaves of the settings the module's state depends on, and of the frame the
   sensor was given. *)
Same(t, s) == t.mode = s.mode /\ t.gain = s.gain /\ t.blacklevel = s.blacklevel /\ t.former = s.former
SameFrame(t, s) == t.shs = s.shs /\ t.vmax = s.vmax

(* vc_core_set_format(), vc_update_image_size_from_mode(). *)
LEMMA FormatOK ==
  ASSUME board \in DOMAIN Boards, NEW s, SettingsOK(board, s), NEW format
  PROVE  LET t == vc_core_set_format(s, format)
         IN  /\ SettingsOK(board, t)
             /\ t.format = IF vc_core_try_format(format) THEN format ELSE cam.modes[1].format
             /\ t.lanes = s.lanes /\ t.height = s.height /\ t.binning = s.binning
             /\ t.trigger = s.trigger /\ Same(t, s) /\ SameFrame(t, s)
PROOF
  <1> DEFINE x == IF vc_core_try_format(format) THEN format ELSE cam.modes[1].format
             t == vc_core_set_format(s, format)
  <1>1. x \in Formats(ctrl)
    BY ModeKnown DEF vc_core_try_format
  <1>2. x \in VcFormats
    BY <1>1, BoardFacts DEF ctrl
  <1>3. t = [s EXCEPT !.format = x]
    BY DEF vc_core_set_format
  <1>4. s \in States
    BY DEF SettingsOK
  <1> HIDE DEF x, t
  <1>5. t \in States
    BY <1>2, <1>3, <1>4, SMT DEF States
  <1>6. /\ t.format = x /\ t.lanes = s.lanes /\ t.height = s.height /\ t.binning = s.binning
        /\ t.trigger = s.trigger /\ Same(t, s) /\ SameFrame(t, s)
    BY <1>3, <1>4, SMT DEF States, Same, SameFrame
  <1>7. SettingsOK(board, t)
    BY <1>1, <1>5, <1>6 DEF SettingsOK, Same, ctrl
  <1> QED BY <1>6, <1>7 DEF x, t

LEMMA ImageOK ==
  ASSUME board \in DOMAIN Boards, NEW s, SettingsOK(board, s), NEW image \in ImageKinds
  PROVE  LET t == vc_update_image_size_from_mode(s, image)
         IN  /\ SettingsOK(board, t)
             /\ t.format = s.format /\ t.lanes = s.lanes
             /\ t.height = IF image.height = 0 THEN ctrl.height ELSE image.height
             /\ t.binning = IF image.height # 0 /\ BinningFor(s, image) <= ctrl.maxBinning
                            THEN BinningFor(s, image) ELSE s.binning
             /\ t.trigger = s.trigger /\ Same(t, s) /\ SameFrame(t, s)
PROOF
  <1> DEFINE h == IF image.height = 0 THEN ctrl.height ELSE image.height
             b == IF image.height # 0 /\ BinningFor(s, image) <= ctrl.maxBinning
                  THEN BinningFor(s, image) ELSE s.binning
             t == vc_update_image_size_from_mode(s, image)
  <1>1. s \in States /\ s.binning \in 0..ctrl.maxBinning
    BY DEF SettingsOK, ctrl
  <1>2. ctrl.maxBinning \in 0..MaxBinnings - 1 /\ ctrl.height \in Nat
    BY BoardFacts DEF ctrl, VcCtrls
  <1>3. h \in Nat
    BY <1>2 DEF ImageKinds
  <1>4. b \in 0..ctrl.maxBinning
    <2>1. image.binning # NoBinning => image.binning \in Nat
      BY DEF ImageKinds
    <2> QED BY <1>1, <1>2, <2>1 DEF BinningFor, MaxBinnings
  <1>5. b \in 0..MaxBinnings - 1
    BY <1>2, <1>4 DEF MaxBinnings
  <1>6. t = [s EXCEPT !.height = h, !.binning = b]
    <2>1. CASE image.height = 0
      <3>1. t = [s EXCEPT !.height = ctrl.height]
        BY <2>1 DEF vc_update_image_size_from_mode
      <3>2. [s EXCEPT !.height = ctrl.height] = [s EXCEPT !.height = ctrl.height, !.binning = s.binning]
        BY <1>1 DEF States
      <3> QED BY <2>1, <3>1, <3>2
    <2>2. CASE image.height # 0
      BY <2>2 DEF vc_update_image_size_from_mode
    <2> QED BY <2>1, <2>2
  <1> HIDE DEF b, h, t
  <1>7. [s EXCEPT !.height = h, !.binning = b] \in States
    BY <1>1, <1>3, <1>5, Zenon DEF States
  <1>8. /\ t.format = s.format /\ t.lanes = s.lanes /\ t.height = h /\ t.binning = b
        /\ t.trigger = s.trigger /\ Same(t, s) /\ SameFrame(t, s)
    BY <1>1, <1>6, SMT DEF States, Same, SameFrame
  <1>9. SettingsOK(board, t)
    BY <1>4, <1>6, <1>7, <1>8 DEF SettingsOK, Same, ctrl
  <1> QED BY <1>8, <1>9 DEF b, h, t

(* Every image a call may take is one of those. *)
LEMMA ImageKnown ==
  ASSUME board \in DOMAIN Boards
  PROVE  Images \subseteq ImageKinds
PROOF
  <1>1. cam.images \in Seq(ImageKinds) /\ cam.images # << >>
    BY BoardFacts DEF cam
  <1>2. \A i \in DOMAIN cam.images : cam.images[i] \in ImageKinds
    BY <1>1
  <1>3. cam.images[1] \in ImageKinds
    BY <1>1
  <1>4. [height |-> cam.images[1].height, binning |-> NoBinning] \in ImageKinds
    BY <1>3 DEF ImageKinds
  <1> QED BY <1>2, <1>4 DEF Images

(* What is written, and the mode, depend on these settings only. *)
Agree(s, t) ==
  /\ s.lanes = t.lanes /\ s.format = t.format /\ s.height = t.height /\ s.binning = t.binning
  /\ s.trigger = t.trigger /\ s.trigReg = t.trigReg /\ s.io = t.io /\ s.framerate = t.framerate

(* One lemma for each setting: a value the setter lets through is one of the board's. *)
LEMMA SetBinning ==
  ASSUME board \in DOMAIN Boards, NEW s, SettingsOK(board, s), NEW x \in 0..ctrl.maxBinning
  PROVE  LET t == [s EXCEPT !.binning = x]
         IN  SettingsOK(board, t) /\ Same(t, s) /\ SameFrame(t, s)
PROOF
  <1> DEFINE t == [s EXCEPT !.binning = x]
  <1>1. s \in States /\ ctrl.maxBinning \in 0..MaxBinnings - 1
    BY BoardFacts DEF SettingsOK, ctrl, VcCtrls
  <1>2. x \in 0..MaxBinnings - 1
    BY <1>1 DEF MaxBinnings
  <1>3. t \in States
    BY <1>1, <1>2, SMT DEF States
  <1>4. /\ Same(t, s) /\ SameFrame(t, s) /\ t.lanes = s.lanes /\ t.format = s.format /\ t.trigger = s.trigger
        /\ t.binning = x
    BY <1>1, SMT DEF States, Same, SameFrame
  <1> HIDE DEF t
  <1>5. SettingsOK(board, t)
    BY <1>3, <1>4 DEF SettingsOK, Same, ctrl
  <1> QED BY <1>4, <1>5 DEF t

LEMMA SetTrigger ==
  ASSUME board \in DOMAIN Boards, NEW s, SettingsOK(board, s),
         NEW mode \in TriggerModes, TriggerSupported(mode)
  PROVE  LET t == [s EXCEPT !.trigger = mode, !.trigReg = TriggerReg(mode)]
         IN  SettingsOK(board, t) /\ Same(t, s) /\ SameFrame(t, s)
PROOF
  <1> DEFINE reg == TriggerReg(mode)
             t == [s EXCEPT !.trigger = mode, !.trigReg = reg]
  <1>1. s \in States /\ reg \in TriggerModes \ {"OVERLAP"}
    BY TriggerRegKnown DEF SettingsOK
  <1> HIDE DEF reg
  <1>2. t \in States
    BY <1>1, Zenon DEF States
  <1>3. /\ Same(t, s) /\ SameFrame(t, s) /\ t.lanes = s.lanes /\ t.format = s.format /\ t.trigger = mode
        /\ t.binning = s.binning
    BY <1>1, SMT DEF States, Same, SameFrame
  <1> HIDE DEF t
  <1>4. SettingsOK(board, t)
    BY <1>2, <1>3 DEF SettingsOK, Same, Supported, TriggerSupported, ctrl
  <1> QED BY <1>3, <1>4 DEF t, reg

LEMMA SetIo ==
  ASSUME board \in DOMAIN Boards, NEW s, SettingsOK(board, s), NEW x \in IoSets
  PROVE  LET t == [s EXCEPT !.io = x]
         IN  SettingsOK(board, t) /\ Same(t, s) /\ SameFrame(t, s)
PROOF
  <1> DEFINE t == [s EXCEPT !.io = x]
  <1>1. s \in States
    BY DEF SettingsOK
  <1>2. t \in States
    BY <1>1, SMT DEF States, IoSets
  <1>3. /\ Same(t, s) /\ SameFrame(t, s) /\ t.lanes = s.lanes /\ t.format = s.format /\ t.trigger = s.trigger
        /\ t.binning = s.binning
    BY <1>1, SMT DEF States, Same, SameFrame
  <1> HIDE DEF t
  <1>4. SettingsOK(board, t)
    BY <1>2, <1>3 DEF SettingsOK, Same
  <1> QED BY <1>3, <1>4 DEF t

(* The ranges of the controls. *)
LEMMA CtrlRanges ==
  ASSUME board \in DOMAIN Boards
  PROVE  /\ ctrl.gain.min \in Nat /\ ctrl.gain.max \in Nat /\ ctrl.gain.min <= ctrl.gain.max
         /\ ctrl.exposure.min \in Nat /\ ctrl.exposure.max \in Nat /\ ctrl.framerateMax \in Nat
         /\ ctrl.maxBinning \in Nat
PROOF
  <1>1. ctrl \in VcCtrls
    BY BoardFacts DEF ctrl
  <1>2. /\ ctrl.gain \in VcControls /\ ctrl.exposure \in VcControls /\ ctrl.framerateMax \in Nat
        /\ ctrl.maxBinning \in Nat
    BY <1>1 DEF VcCtrls, MaxBinnings
  <1> HIDE DEF ctrl
  <1>3. \A r \in VcControls : r.min \in Nat /\ r.max \in Nat /\ r.min <= r.max
    BY DEF VcControls
  <1> QED BY <1>2, <1>3

LEMMA SetGain ==
  ASSUME board \in DOMAIN Boards, NEW s, SettingsOK(board, s),
         NEW x \in ctrl.gain.min..ctrl.gain.max
  PROVE  LET t == [s EXCEPT !.gain = x]
         IN  /\ SettingsOK(board, t) /\ t.gain = x
             /\ t.mode = s.mode /\ t.blacklevel = s.blacklevel /\ t.former = s.former
             /\ SameFrame(t, s)
PROOF
  <1> DEFINE t == [s EXCEPT !.gain = x]
  <1>1. s \in States /\ x \in Nat
    BY CtrlRanges DEF SettingsOK
  <1>2. t \in States
    BY <1>1, SMT DEF States
  <1>3. /\ t.mode = s.mode /\ t.blacklevel = s.blacklevel /\ t.former = s.former /\ t.gain = x
        /\ t.lanes = s.lanes /\ t.format = s.format /\ t.trigger = s.trigger
        /\ t.binning = s.binning /\ SameFrame(t, s)
    BY <1>1, SMT DEF States, SameFrame
  <1> HIDE DEF t
  <1>4. SettingsOK(board, t)
    BY <1>2, <1>3 DEF SettingsOK, ctrl
  <1> QED BY <1>3, <1>4 DEF t

LEMMA SetBlack ==
  ASSUME board \in DOMAIN Boards, NEW s, SettingsOK(board, s), NEW x \in Nat
  PROVE  LET t == [s EXCEPT !.blacklevel = x]
         IN  /\ SettingsOK(board, t) /\ t.blacklevel = x
             /\ t.mode = s.mode /\ t.gain = s.gain /\ t.former = s.former
             /\ SameFrame(t, s)
PROOF
  <1> DEFINE t == [s EXCEPT !.blacklevel = x]
  <1>1. s \in States
    BY DEF SettingsOK
  <1>2. t \in States
    BY <1>1, SMT DEF States
  <1>3. /\ t.mode = s.mode /\ t.blacklevel = x /\ t.former = s.former /\ t.gain = s.gain
        /\ t.lanes = s.lanes /\ t.format = s.format /\ t.trigger = s.trigger
        /\ t.binning = s.binning /\ SameFrame(t, s)
    BY <1>1, SMT DEF States, SameFrame
  <1> HIDE DEF t
  <1>4. SettingsOK(board, t)
    BY <1>2, <1>3 DEF SettingsOK
  <1> QED BY <1>3, <1>4 DEF t

LEMMA SetRate ==
  ASSUME board \in DOMAIN Boards, NEW s, SettingsOK(board, s), NEW x \in Nat
  PROVE  LET t == [s EXCEPT !.framerate = x]
         IN  SettingsOK(board, t) /\ Same(t, s) /\ SameFrame(t, s)
PROOF
  <1> DEFINE t == [s EXCEPT !.framerate = x]
  <1>1. s \in States
    BY DEF SettingsOK
  <1>2. t \in States
    BY <1>1, SMT DEF States
  <1>3. /\ Same(t, s) /\ SameFrame(t, s) /\ t.lanes = s.lanes /\ t.format = s.format /\ t.trigger = s.trigger
        /\ t.binning = s.binning
    BY <1>1, SMT DEF States, Same, SameFrame
  <1> HIDE DEF t
  <1>4. SettingsOK(board, t)
    BY <1>2, <1>3 DEF SettingsOK, Same
  <1> QED BY <1>3, <1>4 DEF t

LEMMA SetStreaming ==
  ASSUME board \in DOMAIN Boards, NEW s, SettingsOK(board, s), NEW x \in BOOLEAN
  PROVE  LET t == [s EXCEPT !.streaming = x]
         IN  SettingsOK(board, t) /\ Same(t, s) /\ SameFrame(t, s)
PROOF
  <1> DEFINE t == [s EXCEPT !.streaming = x]
  <1>1. s \in States
    BY DEF SettingsOK
  <1>2. t \in States
    BY <1>1, Zenon DEF States
  <1>3. /\ Same(t, s) /\ SameFrame(t, s) /\ t.lanes = s.lanes /\ t.format = s.format /\ t.trigger = s.trigger
        /\ t.binning = s.binning
    BY <1>1, SMT DEF States, Same, SameFrame
  <1> HIDE DEF t
  <1>4. SettingsOK(board, t)
    BY <1>2, <1>3 DEF SettingsOK, Same
  <1> QED BY <1>3, <1>4 DEF t

(* vc_state.shs and vmax are numbers: there is a row, and the arithmetic stays in the naturals. *)
LEMMA FrameTyped ==
  ASSUME board \in DOMAIN Boards, NEW s, SettingsOK(board, s), NEW exposure \in Nat
  PROVE  Frame(s, exposure).shs \in Nat /\ Frame(s, exposure).vmax \in Nat
PROOF
  <1> DEFINE n == vc_calculate_exposure(ctrl, RowOf(s), VFactor(s), s.height, s.framerate,
                                        s.trigger, exposure)
  <1>1. PICK i \in DOMAIN ctrl.modes : RowOf(s) = ctrl.modes[i] /\ RowFor(ctrl, s, i)
    BY RowIs
  <1>2. SensorOK(ctrl) /\ s.height \in Nat /\ s.framerate \in Nat
    BY BoardFacts DEF ctrl, SettingsOK, States
  <1>3. Fits(n, ctrl.modes[i].vmaxMin, s.trigger)
    BY <1>1, <1>2, ShutterFits DEF VFactor
  <1> HIDE DEF n
  <1>4. n.shs \in Nat /\ n.vmax \in Nat
    BY <1>3 DEF Fits
  <1> QED BY <1>4 DEF Frame, n

(* What vc_sen_set_exposure() leaves in vc_state, failed or not. *)
LEMMA SetExposed ==
  ASSUME board \in DOMAIN Boards, NEW s, SettingsOK(board, s), NEW exposure \in Nat, NEW fails
  PROVE  LET t == Exposed(s, exposure, fails)
         IN  /\ SettingsOK(board, t) /\ Same(t, s) /\ Agree(t, s) /\ t.streaming = s.streaming
             /\ t.exposure = IF fails THEN s.exposure ELSE exposure
             /\ t.shs = Frame(s, exposure).shs /\ t.vmax = Frame(s, exposure).vmax
PROOF
  <1> DEFINE x == IF fails THEN s.exposure ELSE exposure
             shs == Frame(s, exposure).shs
             vmax == Frame(s, exposure).vmax
             t == Exposed(s, exposure, fails)
  <1>1. s \in States
    BY DEF SettingsOK
  <1>2. x \in Nat /\ shs \in Nat /\ vmax \in Nat
    BY <1>1, FrameTyped DEF States
  <1>3. t = [s EXCEPT !.exposure = x, !.shs = shs, !.vmax = vmax]
    BY DEF Exposed
  <1> HIDE DEF x, shs, vmax, t
  <1>4. [s EXCEPT !.exposure = x, !.shs = shs, !.vmax = vmax] \in States
    BY <1>1, <1>2, Zenon DEF States
  <1>5. /\ Same(t, s) /\ Agree(t, s) /\ t.streaming = s.streaming
        /\ t.exposure = x /\ t.shs = shs /\ t.vmax = vmax
    BY <1>1, <1>3, SMT DEF States, Same, Agree
  <1>6. SettingsOK(board, t)
    BY <1>3, <1>4, <1>5 DEF SettingsOK, Same, Agree
  <1> QED BY <1>5, <1>6 DEF x, shs, vmax, t

Started(s, mode, exposure, fails) ==
  [Exposed(s, exposure, fails) EXCEPT !.mode = mode, !.former = s.binning, !.streaming = TRUE]

(* What vc_start_streaming() writes into vc_state. *)
LEMMA SetStarted ==
  ASSUME board \in DOMAIN Boards, NEW s, SettingsOK(board, s),
         NEW mode \in {NoMode} \cup DOMAIN cam.modes, NEW exposure \in Nat, NEW fails
  PROVE  LET t == Started(s, mode, exposure, fails)
         IN  /\ SettingsOK(board, t)
             /\ t.mode = mode /\ t.former = s.binning
             /\ t.exposure = IF fails THEN s.exposure ELSE exposure
             /\ t.gain = s.gain /\ t.blacklevel = s.blacklevel /\ Agree(t, s)
             /\ t.shs = Frame(s, exposure).shs /\ t.vmax = Frame(s, exposure).vmax
PROOF
  <1> DEFINE u == Exposed(s, exposure, fails)
             t == Started(s, mode, exposure, fails)
  <1>1. /\ SettingsOK(board, u) /\ Same(u, s) /\ Agree(u, s)
        /\ u.exposure = IF fails THEN s.exposure ELSE exposure
        /\ u.shs = Frame(s, exposure).shs /\ u.vmax = Frame(s, exposure).vmax
    BY SetExposed
  <1>2. mode \in Nat
    BY ModeKnown DEF NoMode
  <1>3. s.binning \in 0..MaxBinnings - 1
    BY DEF SettingsOK, States
  <1>4. t = [u EXCEPT !.mode = mode, !.former = s.binning, !.streaming = TRUE]
    BY DEF Started
  <1> HIDE DEF u, t
  <1>5. u \in States
    BY <1>1 DEF SettingsOK
  <1>6. t \in States
    BY <1>2, <1>3, <1>4, <1>5, Zenon DEF States
  <1>7. /\ t.mode = mode /\ t.former = s.binning /\ t.exposure = u.exposure
        /\ t.gain = u.gain /\ t.blacklevel = u.blacklevel /\ Agree(t, u)
        /\ t.shs = u.shs /\ t.vmax = u.vmax
    BY <1>4, <1>5, SMT DEF States, Agree
  <1>8. SettingsOK(board, t)
    BY <1>1, <1>6, <1>7 DEF SettingsOK, Agree, cam
  <1> QED BY <1>1, <1>7, <1>8 DEF Same, Agree, u, t

(* The same when no write of the exposure failed. *)
LEMMA SetStartedWhole ==
  ASSUME board \in DOMAIN Boards, NEW s, SettingsOK(board, s),
         NEW mode \in {NoMode} \cup DOMAIN cam.modes, NEW exposure \in Nat
  PROVE  LET t == Started(s, mode, exposure, FALSE)
         IN  /\ SettingsOK(board, t) /\ t.mode = mode /\ t.former = s.binning
             /\ t.exposure = exposure /\ t.gain = s.gain /\ t.blacklevel = s.blacklevel
             /\ Agree(t, s)
PROOF
  <1> DEFINE fails == FALSE
             t == Started(s, mode, exposure, fails)
  <1>1. ~fails
    OBVIOUS
  <1> HIDE DEF fails
  <1>2. /\ SettingsOK(board, t) /\ t.mode = mode /\ t.former = s.binning
        /\ t.exposure = IF fails THEN s.exposure ELSE exposure
        /\ t.gain = s.gain /\ t.blacklevel = s.blacklevel /\ Agree(t, s)
    BY SetStarted
  <1>3. t.exposure = exposure
    <2> HIDE DEF t
    <2> QED BY <1>1, <1>2
  <1>4. t = Started(s, mode, exposure, FALSE)
    BY DEF fails
  <1> HIDE DEF t
  <1> QED BY <1>2, <1>3, <1>4

-----------------------------------------------------------------------------
(* The inductive invariant behind the types. *)
BoardInv ==
  /\ bound \in {"no", "failed", "ok"} /\ board \in DOMAIN Boards
  /\ SettingsOK(board, st) /\ LimitOK(limit)
  /\ DOMAIN hw = Regs /\ faults \in 0..MaxFaults

(* A call leaves the device what it is, and its faults counted. *)
LEMMA ReturnOK ==
  ASSUME BoardInv, NEW op, NEW arg, NEW G, NEW F \in Failures(G), NEW ok, Return(op, arg, F, ok)
  PROVE  /\ bound' = bound /\ board' = board /\ faults' \in 0..MaxFaults /\ F \subseteq G
         /\ Boards[board'] = cam /\ Ctrl[board'] = ctrl
PROOF
  <1>1. MaxFaults \in Nat
    BY DriverAssumption
  <1>2. F \subseteq G /\ (F # {} => faults < MaxFaults)
    BY DEF Failures
  <1>3. faults' \in 0..MaxFaults
    BY <1>1, <1>2 DEF Return, BoardInv
  <1> QED BY <1>2, <1>3 DEF Return, cam, ctrl

(* What applications ask for. *)
LEMMA RequestsKnown ==
  ASSUME board \in DOMAIN Boards
  PROVE  RequestsTyped(Requests[board])
BY DriverAssumption

(* vc_sen_set_gain(), vc_sen_set_exposure(): what is written is in its range. *)
LEMMA ClampedOK ==
  ASSUME BoardInv, NEW x \in Nat
  PROVE  Clamped(x) \in Nat /\ Clamp(x, ctrl.gain) \in ctrl.gain.min..ctrl.gain.max
PROOF
  <1>1. /\ ctrl.gain.min \in Nat /\ ctrl.gain.max \in Nat /\ ctrl.gain.min <= ctrl.gain.max
        /\ ctrl.exposure.min \in Nat
    BY CtrlRanges DEF BoardInv
  <1>2. limit.exposure \in Nat
    BY DEF BoardInv, LimitOK
  <1> HIDE DEF ctrl
  <1> QED BY <1>1, <1>2 DEF Clamped, Clamp

(* vc_ctrl_s_ctrl(): a gain of the control's range, scaled to the sensor's, is a number. *)
LEMMA GainNat ==
  ASSUME board \in DOMAIN Boards, NEW value \in Nat
  PROVE  Gain(value) \in Nat
PROOF
  <1> DEFINE length == ctrl.gain.max - ctrl.gain.min
             offered == cam.gain.max - cam.gain.min
  <1>1. length \in Nat /\ ctrl.gain.min \in Nat
    BY CtrlRanges
  <1>2. offered \in Nat /\ offered > 0
    <2>1. cam.gain.min \in Nat /\ cam.gain.max \in Nat /\ cam.gain.min < cam.gain.max
      BY BoardFacts DEF cam
    <2> HIDE DEF cam
    <2> QED BY <2>1
  <1> HIDE DEF length, offered
  <1>3. (length * value) \div offered \in Nat
    BY <1>1, <1>2, MulNat, DivNat
  <1>4. Gain(value) = (length * value) \div offered + ctrl.gain.min
    BY DEF Gain, length, offered
  <1> QED BY <1>1, <1>3, <1>4

(* What a list of writes leaves in each register. *)
LEMMA WrittenIs ==
  ASSUME NEW regs, NEW w, NEW F
  PROVE  /\ DOMAIN Written(regs, w, F) = Regs
         /\ \A g \in Regs : Written(regs, w, F)[g] =
              IF g \notin DOMAIN w THEN regs[g] ELSE IF g \in F THEN Unknown ELSE w[g]
BY DEF Written

(***************************************************************************)
(* What vc_sen_set_exposure() writes: counts of the trigger unit, or       *)
(* shutter and frame length, which then fit together.                      *)
(***************************************************************************)
ShutterOK(b, regs, frame) ==
  (/\ regs["shs"] \notin {Reset, Unknown} /\ regs["vmax"] \notin {Reset, Unknown}
   /\ frame.vmax # 0 /\ frame.shs < Span[Ctrl[b].shsBytes]
   /\ frame.vmax < Span[Ctrl[b].vmaxBytes]) =>
    /\ \E i \in DOMAIN Ctrl[b].modes : Ctrl[b].modes[i].vmaxMin <= regs["shs"]
    /\ regs["shs"] <= regs["vmax"] + (IF Supported(b, "SYNC") THEN 1 ELSE 0)

(* i2c_write_reg4(): a value that fits the registers is written whole. *)
LEMMA LowFits ==
  ASSUME NEW value \in Nat, NEW bytes \in DOMAIN Span, value < Span[bytes]
  PROVE  Low(value, bytes) = value
PROOF
  <1>1. Span[bytes] \in Nat /\ Span[bytes] > 0
    BY DEF Span
  <1> QED BY <1>1 DEF Low

LEMMA ExposureWritten ==
  ASSUME board \in DOMAIN Boards, NEW s, SettingsOK(board, s), NEW exposure \in Nat
  PROVE  LET w == ExposureWrites(s, exposure)
         IN  /\ DOMAIN w \subseteq {"expo", "retrig", "shs", "vmax", "flash"}
             /\ "shs" \in DOMAIN w <=> "vmax" \in DOMAIN w
             /\ "shs" \in DOMAIN w => ShutterOK(board, w, Frame(s, exposure))
             /\ "shs" \notin DOMAIN w => Frame(s, exposure).vmax = 0
PROOF
  <1> DEFINE w == ExposureWrites(s, exposure)
             n == vc_calculate_exposure(ctrl, RowOf(s), VFactor(s), s.height, s.framerate,
                                        s.trigger, exposure)
             f == Frame(s, exposure)
             pair == [shs |-> Low(f.shs, ctrl.shsBytes), vmax |-> Low(f.vmax, ctrl.vmaxBytes)]
             m == vc_calculate_trig_exposure(ctrl, RowOf(s), s.framerate, s.trigger, exposure)
             G == {"expo"} \cup (IF s.streaming /\ "TRIGGER_SELF_V2" \notin ctrl.flags
                                 THEN {} ELSE {"retrig"})
  <1>1. PICK i \in DOMAIN ctrl.modes : RowOf(s) = ctrl.modes[i] /\ RowFor(ctrl, s, i)
    BY RowIs
  <1>2. SensorOK(ctrl)
    BY BoardFacts DEF ctrl
  <1>3. s.height \in Nat /\ s.framerate \in Nat
    BY DEF SettingsOK, States
  <1>4. /\ DOMAIN n = {"shs", "vmax"} /\ n.shs \in Nat /\ n.vmax \in Nat
        /\ ctrl.modes[i].vmaxMin <= n.shs /\ n.shs <= n.vmax + Slack(s.trigger)
    <2> DEFINE x == vc_calculate_exposure(ctrl, ctrl.modes[i], vc_core_get_binning(ctrl, s).v,
                                          s.height, s.framerate, s.trigger, exposure)
    <2>1. Fits(x, ctrl.modes[i].vmaxMin, s.trigger)
      BY <1>1, <1>2, <1>3, ShutterFits
    <2>2. n = x
      BY <1>1 DEF VFactor
    <2> HIDE DEF n, x
    <2> QED BY <2>1, <2>2 DEF Fits
  <1>5. w = IF Triggered(s) THEN [g \in G |-> IF g = "expo" THEN m.expo ELSE m.retrigger]
            ELSE IF "EXPOSURE_OMNIVISION" \in ctrl.flags
                 THEN [shs |-> pair.shs, vmax |-> pair.vmax, flash |-> FlashDuration(exposure)]
                 ELSE IF s.trigger = "PULSEWIDTH" THEN NoWrites ELSE pair
    <2>1. /\ pair.shs = Low(f.shs, ctrl.shsBytes) /\ pair.vmax = Low(f.vmax, ctrl.vmaxBytes)
      OBVIOUS
    <2> HIDE DEF w, m, G
    <2>2. CASE Triggered(s)
      BY <2>2, Zenon DEF ExposureWrites, w, m, G
    <2>3. CASE ~Triggered(s)
      BY <2>1, <2>3, Zenon DEF ExposureWrites, w
    <2> QED BY <2>2, <2>3
  <1>6. s.trigger = "SYNC" => Supported(board, "SYNC")
    BY DEF SettingsOK
  <1>7. f = IF Triggered(s) \/ (s.trigger = "PULSEWIDTH" /\ "EXPOSURE_OMNIVISION" \notin ctrl.flags)
            THEN [shs |-> 0, vmax |-> 0] ELSE n
    BY Zenon DEF Frame
  <1>8. n.shs <= n.vmax + (IF Supported(board, "SYNC") THEN 1 ELSE 0)
    <2> HIDE DEF n
    <2> QED BY <1>4, <1>6 DEF Slack
  <1> HIDE DEF n, m, f
  <1>9. /\ DOMAIN pair = {"shs", "vmax"}
        /\ f = n /\ n.shs < Span[ctrl.shsBytes] => pair.shs = n.shs
        /\ f = n /\ n.vmax < Span[ctrl.vmaxBytes] => pair.vmax = n.vmax
    <2>1. ctrl.shsBytes \in DOMAIN Span /\ ctrl.vmaxBytes \in DOMAIN Span
      BY BoardFacts DEF ctrl
    <2> QED BY <1>4, <2>1, LowFits
  <1> HIDE DEF w, pair
  <1>10. ASSUME f = n, "shs" \in DOMAIN w, w["shs"] = pair.shs, w["vmax"] = pair.vmax
         PROVE  ShutterOK(board, w, f)
    BY <1>1, <1>4, <1>8, <1>9, <1>10 DEF ShutterOK, ctrl
  <1>11. CASE Triggered(s)
    <2>1. DOMAIN w = G
      BY <1>5, <1>11
    <2>2. f.vmax = 0
      BY <1>7, <1>11
    <2> QED BY <2>1, <2>2 DEF w, f
  <1>12. CASE ~Triggered(s) /\ "EXPOSURE_OMNIVISION" \in ctrl.flags
    <2>1. DOMAIN w = {"shs", "vmax", "flash"} /\ w["shs"] = pair.shs /\ w["vmax"] = pair.vmax
      BY <1>5, <1>12
    <2>2. f = n
      BY <1>7, <1>12
    <2> QED BY <1>10, <2>1, <2>2 DEF w, f
  <1>13. CASE /\ ~Triggered(s) /\ "EXPOSURE_OMNIVISION" \notin ctrl.flags
              /\ s.trigger = "PULSEWIDTH"
    <2>1. DOMAIN w = {} /\ f.vmax = 0
      BY <1>5, <1>7, <1>13 DEF NoWrites
    <2> QED BY <2>1 DEF w, f
  <1>14. CASE /\ ~Triggered(s) /\ "EXPOSURE_OMNIVISION" \notin ctrl.flags
              /\ s.trigger # "PULSEWIDTH"
    <2>1. w = pair /\ f = n
      BY <1>5, <1>7, <1>14
    <2> QED BY <1>9, <1>10, <2>1 DEF w, f
  <1> QED BY <1>11, <1>12, <1>13, <1>14

(* Shutter and frame length are written together or not at all, so they still fit when both
   are known. *)
LEMMA ShutterWritten ==
  ASSUME NEW b, NEW regs, NEW w, NEW F, NEW frame,
         "shs" \in DOMAIN w <=> "vmax" \in DOMAIN w,
         "shs" \in DOMAIN w => ShutterOK(b, w, frame),
         "shs" \notin DOMAIN w => ShutterOK(b, regs, frame)
  PROVE  ShutterOK(b, Written(regs, w, F), frame)
PROOF
  <1> DEFINE r == Written(regs, w, F)
  <1>1. /\ r["shs"] = IF "shs" \notin DOMAIN w THEN regs["shs"]
                      ELSE IF "shs" \in F THEN Unknown ELSE w["shs"]
        /\ r["vmax"] = IF "vmax" \notin DOMAIN w THEN regs["vmax"]
                       ELSE IF "vmax" \in F THEN Unknown ELSE w["vmax"]
    <2>1. "shs" \in Regs /\ "vmax" \in Regs
      BY DEF Regs, SensorRegs
    <2> QED BY <2>1, WrittenIs
  <1> HIDE DEF r
  <1>2. CASE "shs" \notin DOMAIN w
    <2>1. r["shs"] = regs["shs"] /\ r["vmax"] = regs["vmax"]
      BY <1>1, <1>2
    <2> QED BY <1>2, <2>1 DEF ShutterOK, r
  <1>3. CASE "shs" \in DOMAIN w
    <2>1. CASE "shs" \in F \/ "vmax" \in F
      BY <1>1, <1>3, <2>1 DEF ShutterOK, r
    <2>2. CASE "shs" \notin F /\ "vmax" \notin F
      <3>1. r["shs"] = w["shs"] /\ r["vmax"] = w["vmax"]
        BY <1>1, <1>3, <2>2
      <3> QED BY <1>3, <3>1 DEF ShutterOK, r
    <2> QED BY <2>1, <2>2
  <1> QED BY <1>2, <1>3


(* A set of numbers has a least one. *)
LEMMA LeastNat ==
  ASSUME NEW T, T \subseteq Nat, T # {}
  PROVE  \E i \in T : \A j \in T : i <= j
PROOF
  <1>1. PICK i \in T : \A j \in T : ~(<<j, i>> \in OpToRel(<, Nat))
    BY WFMin, NatLessThanWellFounded
  <1>2. \A j \in T : ~(j < i)
    BY <1>1, Zenon DEF OpToRel
  <1> QED BY <1>2

(***************************************************************************)
(* vc_mod_find_mode() returns a mode of the module.                        *)
(***************************************************************************)
LEMMA ModeFound ==
  ASSUME board \in DOMAIN Boards, NEW s
  PROVE  vc_mod_find_mode(s) \in DOMAIN cam.modes
PROOF
  <1> DEFINE bin == IF vc_core_get_binning(ctrl, s).useModMode THEN s.binning ELSE 0
             fit == {i \in DOMAIN cam.modes : /\ cam.modes[i].lanes = s.lanes
                                              /\ cam.modes[i].format = s.format
                                              /\ cam.modes[i].type = ModeType(s)
                                              /\ cam.modes[i].binning = bin}
             Best(i) == \A j \in fit : \/ cam.modes[i].rate > cam.modes[j].rate
                                       \/ cam.modes[i].rate = cam.modes[j].rate /\ i <= j
  <1>1. vc_mod_find_mode(s) = IF fit = {} THEN 1 ELSE CHOOSE i \in fit : Best(i)
    BY DEF vc_mod_find_mode
  <1>2. 1 \in DOMAIN cam.modes /\ DOMAIN cam.modes \subseteq Nat
    BY ModeKnown
  <1>3. \A i \in fit : cam.modes[i].rate \in Nat /\ cam.modes[i].rate <= CountMax /\ CountMax \in Nat
    BY ModeKnown, CountMaxNat
  <1>4. fit \subseteq DOMAIN cam.modes
    OBVIOUS
  <1> HIDE DEF fit
  <1>5. ASSUME fit # {}
        PROVE  \E i \in fit : Best(i)
    <2> DEFINE below == {CountMax - cam.modes[i].rate : i \in fit}
    <2>1. below \subseteq Nat /\ below # {}
      BY <1>3, <1>5
    <2>2. PICK d \in below : \A e \in below : d <= e
      BY <2>1, LeastNat
    <2>3. PICK k \in fit : d = CountMax - cam.modes[k].rate
      BY <2>2
    <2>4. ASSUME NEW j \in fit
          PROVE  cam.modes[j].rate <= cam.modes[k].rate
      <3>1. CountMax - cam.modes[j].rate \in below
        OBVIOUS
      <3>2. d <= CountMax - cam.modes[j].rate
        BY <2>2, <3>1
      <3> HIDE DEF below
      <3> QED BY <1>3, <2>3, <3>2
    <2> DEFINE fastest == {i \in fit : cam.modes[i].rate = cam.modes[k].rate}
    <2>5. fastest \subseteq Nat /\ fastest # {}
      BY <1>2, <1>4, <2>3
    <2>6. PICK i \in fastest : \A j \in fastest : i <= j
      BY <2>5, LeastNat
    <2>7. Best(i)
      <3> SUFFICES ASSUME NEW j \in fit
                   PROVE  \/ cam.modes[i].rate > cam.modes[j].rate
                          \/ cam.modes[i].rate = cam.modes[j].rate /\ i <= j
        OBVIOUS
      <3>1. cam.modes[i].rate = cam.modes[k].rate
        BY <2>6
      <3>2. CASE cam.modes[j].rate = cam.modes[k].rate
        BY <3>1, <3>2, <2>6
      <3>3. CASE cam.modes[j].rate # cam.modes[k].rate
        BY <3>1, <3>3, <1>3, <2>3, <2>4
      <3> QED BY <3>2, <3>3
    <2> QED BY <2>6, <2>7
  <1> HIDE DEF Best
  <1>6. fit # {} => (CHOOSE i \in fit : Best(i)) \in fit
    BY <1>5
  <1> QED BY <1>1, <1>2, <1>4, <1>6


-----------------------------------------------------------------------------
(* One lemma for each call that writes registers: what it leaves the settings. *)
LEMMA SetExposureOK ==
  ASSUME BoardInv, NEW s, SettingsOK(board, s), Same(s, st), NEW x \in Nat, SetExposure(s, x)
  PROVE  /\ BoardInv' /\ Same(st', st)
         /\ st'.shs = Frame(s, Clamped(x)).shs /\ st'.vmax = Frame(s, Clamped(x)).vmax
PROOF
  <1> DEFINE w == ExposureWrites(s, Clamped(x))
  <1>1. PICK F \in Failures(DOMAIN w) :
          /\ hw' = Written(hw, w, F)
          /\ st' = Exposed(s, Clamped(x), Failed(w, F))
          /\ Return("other", NoMode, F, ~Failed(w, F))
          /\ limit' = limit
    BY DEF SetExposure
  <1>2. Clamped(x) \in Nat
    BY ClampedOK
  <1> HIDE DEF w
  <1>3. bound' = bound /\ board' = board /\ faults' \in 0..MaxFaults
    BY <1>1, ReturnOK
  <1>4. DOMAIN hw' = Regs
    BY <1>1, WrittenIs
  <1>5. /\ SettingsOK(board, st') /\ Same(st', s)
        /\ st'.shs = Frame(s, Clamped(x)).shs /\ st'.vmax = Frame(s, Clamped(x)).vmax
    BY <1>1, <1>2, SetExposed DEF BoardInv
  <1> QED BY <1>1, <1>3, <1>4, <1>5 DEF BoardInv, Same

(* A start is one of the board's settings afterwards, whichever of its writes failed. *)
LEMMA StartOK ==
  ASSUME BoardInv, vc_start_streaming
  PROVE  /\ BoardInv'
         /\ st'.shs = Frame(st, Clamped(st.exposure)).shs
         /\ st'.vmax = Frame(st, Clamped(st.exposure)).vmax
PROOF
  <1>1. board \in DOMAIN Boards /\ SettingsOK(board, st)
    BY DEF BoardInv
  <1> DEFINE roi == RoiWrites(st)
             expo == ExposureWrites(st, Clamped(st.exposure))
             stop == IF st.streaming THEN ModeWrites("standby") ELSE NoWrites
             oper == IF Operates(st) THEN ModeWrites("operating") ELSE NoWrites
             io == IoWrites(st)
             G == DOMAIN roi \cup DOMAIN expo \cup DOMAIN stop \cup DOMAIN oper \cup DOMAIN io
                    \cup (IF MustReset(st) THEN {"down", "mode", "up", "ready", "gain", "black"} ELSE {})
             exposed(F) == Exposed(st, Clamped(st.exposure), Failed(expo, F))
  <1>2. PICK F \in Failures(G) :
          /\ \E ok : Return("start", NoMode, F, ok)
          /\ \E regs : hw' = Written(regs, io, F)
          /\ st' = [exposed(F) EXCEPT
                       !.mode = IF MustReset(st) /\ ~ResetFails(F) THEN vc_mod_find_mode(st) ELSE @,
                       !.former = st.binning, !.streaming = TRUE]
          /\ limit' = limit
    BY DEF vc_start_streaming, StartWith
  <1> HIDE DEF expo, G, io
  <1>3. Clamped(st.exposure) \in Nat
    BY <1>1, ClampedOK DEF SettingsOK, States
  <1>4. exposed(F).mode = st.mode
    BY <1>1, <1>3, SetExposed DEF Same
  <1> DEFINE mode == IF MustReset(st) /\ ~ResetFails(F) THEN vc_mod_find_mode(st) ELSE st.mode
  <1>5. st' = Started(st, mode, Clamped(st.exposure), Failed(expo, F))
    BY <1>2, <1>4 DEF Started
  <1>6. mode \in {NoMode} \cup DOMAIN cam.modes
    BY <1>1, ModeFound DEF SettingsOK, cam
  <1>7. /\ SettingsOK(board, st') /\ st'.shs = Frame(st, Clamped(st.exposure)).shs
        /\ st'.vmax = Frame(st, Clamped(st.exposure)).vmax
    <2> HIDE DEF mode
    <2> QED BY <1>1, <1>3, <1>5, <1>6, SetStarted
  <1>8. bound' = bound /\ board' = board /\ faults' \in 0..MaxFaults
    BY <1>2, ReturnOK
  <1>9. DOMAIN hw' = Regs
    BY <1>2, WrittenIs
  <1> QED BY <1>2, <1>7, <1>8, <1>9 DEF BoardInv

(* Every call preserves it, whichever of its writes fail. *)
LEMMA BoardStep ==
  ASSUME BoardInv, [DriverNext]_driverVars
  PROVE  BoardInv'
PROOF
  <1>1. /\ board \in DOMAIN Boards /\ SettingsOK(board, st) /\ LimitOK(limit) /\ DOMAIN hw = Regs
        /\ faults \in 0..MaxFaults /\ RequestsTyped(Requests[board])
    BY RequestsKnown DEF BoardInv
  <1>2. CASE vc_probe
    <2>1. CASE bound' = "failed"
      BY <1>1, <1>2, <2>1 DEF vc_probe, BoardInv
    <2>2. CASE LanesKnown /\ bound' = "ok" /\ st' = vc_init_lanes(vc_init_io(vc_core_state_init))
                /\ limit' = vc_init_tegra_controls(st')
      <3>1. SettingsOK(board, st')
        BY <1>1, <2>2, InitOK, ProbedOK
      <3>2. LimitOK(limit')
        <4>1. LimitOK(vc_core_update_controls(st'))
          BY <1>1, <3>1, LimitsOK
        <4>2. LimitOK([exposure |-> ctrl.exposure.max, framerate |-> ctrl.framerateMax])
          BY <1>1, CtrlRanges DEF LimitOK
        <4> QED BY <2>2, <4>1, <4>2 DEF vc_init_tegra_controls
      <3> QED BY <1>1, <1>2, <2>2, <3>1, <3>2 DEF vc_probe, BoardInv
    <2> QED BY <1>2, <2>1, <2>2 DEF vc_probe
  <1>3. CASE vc_remove
    BY <1>1, <1>3, InitOK DEF vc_remove, NoLimit, LimitOK, BoardInv
  <1>4. CASE vc_set_mode
    <2>1. PICK format \in Requests[board].format, image \in Images :
            /\ limit' = vc_core_update_controls(vc_core_set_format(st, format))
            /\ st' = vc_update_image_size_from_mode(vc_core_set_format(st, format), image)
            /\ Return("set_mode", <<format, image>>, {}, vc_core_try_format(format)) /\ hw' = hw
      BY <1>4 DEF vc_set_mode
    <2>2. SettingsOK(board, vc_core_set_format(st, format))
      BY <1>1, FormatOK
    <2>3. SettingsOK(board, st') /\ LimitOK(limit')
      BY <1>1, <2>1, <2>2, ImageKnown, ImageOK, LimitsOK
    <2> QED BY <1>1, <2>1, <2>3 DEF Return, BoardInv
  <1>5. CASE vc_set_binning_mode
    <2>1. PICK x \in Requests[board].binning :
            /\ st' = IF x <= ctrl.maxBinning THEN [st EXCEPT !.binning = x] ELSE st
            /\ Return("other", NoMode, {}, x <= ctrl.maxBinning) /\ limit' = limit /\ hw' = hw
      BY <1>5 DEF vc_set_binning_mode
    <2>2. x \in Nat
      BY <1>1 DEF RequestsTyped
    <2>3. ctrl.maxBinning \in Nat
      BY <1>1, CtrlRanges
    <2>4. SettingsOK(board, st')
      BY <1>1, <2>1, <2>2, <2>3, SetBinning
    <2> QED BY <1>1, <2>1, <2>4 DEF Return, BoardInv
  <1>6. CASE vc_set_trigger_mode
    <2> DEFINE New(mode) == [st EXCEPT !.trigger = mode, !.trigReg = TriggerReg(mode)]
    <2>1. PICK mode \in Requests[board].trigger :
            /\ st' = IF TriggerSupported(mode) THEN New(mode) ELSE st
            /\ limit' = IF TriggerSupported(mode) THEN vc_core_update_controls(New(mode)) ELSE limit
            /\ Return("other", NoMode, {}, TriggerSupported(mode)) /\ hw' = hw
      BY <1>6 DEF vc_set_trigger_mode
    <2>2. mode \in TriggerModes
      BY <1>1 DEF RequestsTyped
    <2>3. TriggerSupported(mode) => SettingsOK(board, New(mode))
      BY <1>1, <2>2, SetTrigger
    <2> HIDE DEF New
    <2>4. SettingsOK(board, st') /\ LimitOK(limit')
      BY <1>1, <2>1, <2>3, LimitsOK
    <2> QED BY <1>1, <2>1, <2>4 DEF Return, BoardInv
  <1>7. CASE vc_set_io_mode
    <2>1. PICK mode, ok, x :
            /\ st' = [st EXCEPT !.io = x]
            /\ x = (IF mode = 0 THEN {} ELSE IF "IO_ENABLED" \notin ctrl.flags THEN st.io
                    ELSE IF mode = 0 \/ ("IO_ENABLED" \in ctrl.flags /\ mode \in DOMAIN IoBits)
                         THEN IoBits[mode] \cup IoExtra ELSE st.io \cup IoExtra)
            /\ Return("other", NoMode, {}, ok) /\ limit' = limit /\ hw' = hw
      BY <1>7, Zenon DEF vc_set_io_mode
    <2>2. st.io \in IoSets
      BY <1>1 DEF SettingsOK, States, IoSets
    <2>3. x \in IoSets
      BY <2>1, <2>2, IoKnown DEF IoSets
    <2>4. SettingsOK(board, st')
      BY <1>1, <2>1, <2>3, SetIo
    <2> QED BY <1>1, <2>1, <2>4 DEF Return, BoardInv
  <1>8. CASE vc_set_gain
    <2>1. PICK value, F, w :
            /\ value \in Requests[board].gain /\ F \in Failures({"gain"})
            /\ w.gain = Clamp(Gain(value), ctrl.gain) /\ hw' = Written(hw, w, F)
            /\ st' \in {st, [st EXCEPT !.gain = w.gain]}
            /\ Return("other", NoMode, F, ~Failed(w, F)) /\ limit' = limit
      <3>1. PICK value \in Requests[board].gain, F \in Failures({"gain"}) :
              LET w == [gain |-> Clamp(Gain(value), ctrl.gain)]
              IN  /\ hw' = Written(hw, w, F)
                  /\ st' = IF Failed(w, F) THEN st ELSE [st EXCEPT !.gain = w.gain]
                  /\ Return("other", NoMode, F, ~Failed(w, F)) /\ limit' = limit
        BY <1>8 DEF vc_set_gain
      <3> DEFINE w == [gain |-> Clamp(Gain(value), ctrl.gain)]
      <3>2. w.gain = Clamp(Gain(value), ctrl.gain)
        OBVIOUS
      <3> HIDE DEF w
      <3> QED BY <3>1, <3>2 DEF w
    <2>2. w.gain \in ctrl.gain.min..ctrl.gain.max
      BY <1>1, <2>1, GainNat, ClampedOK DEF RequestsTyped
    <2>3. SettingsOK(board, st')
      BY <1>1, <2>1, <2>2, SetGain
    <2>4. bound' = bound /\ board' = board /\ faults' \in 0..MaxFaults /\ DOMAIN hw' = Regs
      BY <2>1, ReturnOK, WrittenIs
    <2> QED BY <1>1, <2>1, <2>3, <2>4 DEF BoardInv
  <1>9. CASE vc_set_black_level
    <2>1. PICK rel \in Requests[board].blacklevel, F \in Failures({"black"}) :
            LET w == [black |-> BlackAbs(RowOf(st), rel)]
            IN  /\ hw' = Written(hw, w, F)
                /\ st' = IF Failed(w, F) THEN st ELSE [st EXCEPT !.blacklevel = rel]
                /\ Return("other", NoMode, F, ~Failed(w, F)) /\ limit' = limit
      BY <1>9 DEF vc_set_black_level
    <2>2. rel \in Nat
      BY <1>1 DEF RequestsTyped
    <2>3. SettingsOK(board, st')
      BY <1>1, <2>1, <2>2, SetBlack
    <2>4. bound' = bound /\ board' = board /\ faults' \in 0..MaxFaults /\ DOMAIN hw' = Regs
      BY <2>1, ReturnOK, WrittenIs
    <2> QED BY <1>1, <2>1, <2>3, <2>4 DEF BoardInv
  <1>10. CASE vc_set_exposure
    <2>1. PICK x \in Requests[board].exposure : SetExposure(st, x)
      BY <1>10 DEF vc_set_exposure
    <2> QED BY <1>1, <2>1, SetExposureOK DEF RequestsTyped, Same
  <1>11. CASE vc_set_frame_rate
    <2>1. PICK rate, x :
            /\ rate \in Requests[board].framerate /\ x \in {rate, limit.framerate}
            /\ SetExposure([st EXCEPT !.framerate = x], st.exposure)
      BY <1>11 DEF vc_set_frame_rate
    <2>2. x \in Nat /\ st.exposure \in Nat
      BY <1>1, <2>1 DEF RequestsTyped, LimitOK, SettingsOK, States
    <2>3. SettingsOK(board, [st EXCEPT !.framerate = x]) /\ Same([st EXCEPT !.framerate = x], st)
      BY <1>1, <2>2, SetRate
    <2> QED BY <2>1, <2>2, <2>3, SetExposureOK
  <1>12. CASE vc_set_single_trigger
    <2>1. PICK F, w, ok :
            /\ F \in Failures({"trig"}) /\ hw' = Written(hw, w, F) /\ Return("other", NoMode, F, ok)
            /\ st' = st /\ limit' = limit
      BY <1>12, Zenon DEF vc_set_single_trigger
    <2>2. bound' = bound /\ board' = board /\ faults' \in 0..MaxFaults /\ DOMAIN hw' = Regs
      BY <2>1, ReturnOK, WrittenIs
    <2> QED BY <1>1, <2>1, <2>2 DEF BoardInv
  <1>13. CASE vc_start_streaming
    BY <1>13, StartOK
  <1>14. CASE vc_stop_streaming
    <2> DEFINE off == [g \in {"trig", "io"} |-> IF g = "trig" THEN "DISABLE" ELSE {}]
               standby == ModeWrites("standby")
    <2>1. PICK F \in Failures(DOMAIN off \cup DOMAIN standby) :
            /\ hw' = Written(Written(hw, off, F), standby, F)
            /\ st' = [st EXCEPT !.streaming = FALSE]
            /\ Return("other", NoMode, F, F = {}) /\ limit' = limit
      BY <1>14 DEF vc_stop_streaming
    <2> HIDE DEF off, standby
    <2>2. SettingsOK(board, st')
      BY <1>1, <2>1, SetStreaming
    <2>3. bound' = bound /\ board' = board /\ faults' \in 0..MaxFaults /\ DOMAIN hw' = Regs
      BY <2>1, ReturnOK, WrittenIs
    <2> QED BY <1>1, <2>1, <2>2, <2>3 DEF BoardInv
  <1>15. CASE UNCHANGED driverVars
    BY <1>1, <1>15 DEF driverVars, BoardInv
  <1> QED BY <1>2, <1>3, <1>4, <1>5, <1>6, <1>7, <1>8, <1>9, <1>10, <1>11, <1>12, <1>13, <1>14, <1>15
          DEF DriverNext

(* A driver starts with it. *)
LEMMA DriverStarts == DriverInit => BoardInv
PROOF
  <1> SUFFICES ASSUME DriverInit
               PROVE  BoardInv
    OBVIOUS
  <1>1. SettingsOK(board, st) /\ LimitOK(limit) /\ faults \in 0..MaxFaults
    BY InitOK, DriverAssumption DEF DriverInit, NoLimit, LimitOK
  <1> QED BY <1>1 DEF DriverInit, BoardInv

(* The driver's settings stay those of the sensor it found: a mode, a format, lanes, a binning and
   a gain the module has, limits that are numbers (vc_core_update_controls() divides by nothing that
   is 0 and subtracts nothing below it), one value in each register - for every board, every
   sequence of calls, and whichever writes fail. *)
THEOREM DriverTypeCorrect == DriverSpec => []DriverTypeOK
PROOF
  <1>1. DriverInit => BoardInv
    BY DriverStarts
  <1>2. BoardInv => DriverTypeOK
    <2> SUFFICES ASSUME BoardInv
                 PROVE  DriverTypeOK
      OBVIOUS
    <2>1. ctrl.maxBinning \in Nat
      BY CtrlRanges DEF BoardInv
    <2>2. st.binning <= ctrl.maxBinning
      BY <2>1 DEF BoardInv, SettingsOK, ctrl
    <2> QED BY <2>2 DEF BoardInv, SettingsOK, LimitOK, DriverTypeOK, cam, ctrl
  <1> QED BY <1>1, <1>2, BoardStep, PTL DEF DriverSpec


-----------------------------------------------------------------------------
(* Only vc_set_mode() leaves a call of that name behind, and no call changes the board. *)
LEMMA CallMade ==
  ASSUME [DriverNext]_driverVars
  PROVE  board' = board /\ (vc_set_mode \/ call'.op # "set_mode" \/ UNCHANGED driverVars)
PROOF
  <1>1. CASE vc_probe \/ vc_remove
    BY <1>1 DEF vc_probe, vc_remove, Other
  <1>2. CASE vc_set_mode \/ UNCHANGED driverVars
    BY <1>2 DEF vc_set_mode, Return, driverVars
  <1>3. ASSUME NEW op \in {"other", "start"}, NEW arg, NEW F, NEW ok, Return(op, arg, F, ok)
        PROVE  board' = board /\ call'.op # "set_mode"
    BY <1>3 DEF Return, Other
  <1>4. CASE \/ vc_set_binning_mode \/ vc_set_trigger_mode \/ vc_set_io_mode \/ vc_set_gain
             \/ vc_set_black_level \/ vc_set_exposure \/ vc_set_frame_rate \/ vc_set_single_trigger
             \/ vc_start_streaming \/ vc_stop_streaming
    <2>1. \/ \E arg, F, ok : Return("other", arg, F, ok)
          \/ \E arg, F, ok : Return("start", arg, F, ok)
      BY <1>4, Zenon DEF vc_set_binning_mode, vc_set_trigger_mode, vc_set_io_mode, vc_set_gain,
              vc_set_black_level, vc_set_exposure, vc_set_frame_rate, SetExposure,
              vc_set_single_trigger, vc_start_streaming, StartWith, vc_stop_streaming
    <2> QED BY <1>3, <2>1
  <1> QED BY <1>1, <1>2, <1>4 DEF DriverNext

(* Which registers the other writes are to. *)
LEMMA WriteDomains ==
  /\ \A s : DOMAIN RoiWrites(s) = {"roi", "binRegs"} \cup (IF HasRowRegs(s) THEN {"rowRegs"} ELSE {})
  /\ \A value : DOMAIN ModeWrites(value) \subseteq {"senL", "senM"}
  /\ \A s : DOMAIN IoWrites(s) = {"io", "trig"}
  /\ DOMAIN NoWrites = {}
BY DEF RoiWrites, ModeWrites, IoWrites, NoWrites

(* Nor do the other writes touch them. *)
LEMMA ShutterKept ==
  ASSUME NEW b, NEW regs, NEW w, NEW F, NEW frame, ShutterOK(b, regs, frame),
         "shs" \notin DOMAIN w, "vmax" \notin DOMAIN w
  PROVE  ShutterOK(b, Written(regs, w, F), frame)
BY ShutterWritten

(* A start writes both registers, or none and then has no frame. *)
LEMMA StartShutter ==
  ASSUME BoardInv, vc_start_streaming
  PROVE  ShutterOK(board, hw', st')
PROOF
  <1> DEFINE reset == MustReset(st)
             mode == vc_mod_find_mode(st)
             roi == RoiWrites(st)
             x == Clamped(st.exposure)
             expo == ExposureWrites(st, x)
             restored == [gain |-> Clamp(st.gain, ctrl.gain),
                          black |-> BlackAbs(RowOf(st), st.blacklevel)]
             stop == IF st.streaming THEN ModeWrites("standby") ELSE NoWrites
             oper == IF Operates(st) THEN ModeWrites("operating") ELSE NoWrites
             io == IoWrites(st)
  <1>1. PICK F :
          LET base == IF reset THEN vc_mod_reset_module(hw, mode, F) ELSE hw
              early == \/ reset /\ ResetFails(F)
                       \/ Reported(roi, F) \/ Failed(expo, F)
              anew == IF reset /\ ~early THEN restored ELSE NoWrites
          IN  hw' = Written(Written(Written(Written(Written(Written(base, roi, F), expo, F),
                                                    anew, F), stop, F), oper, F), io, F)
    BY Zenon DEF vc_start_streaming, StartWith
  <1> DEFINE base == IF reset THEN vc_mod_reset_module(hw, mode, F) ELSE hw
             early == \/ reset /\ ResetFails(F)
                      \/ Reported(roi, F) \/ Failed(expo, F)
             anew == IF reset /\ ~early THEN restored ELSE NoWrites
             r == Written(base, roi, F)
  <1>2. hw' = Written(Written(Written(Written(Written(r, expo, F), anew, F), stop, F), oper, F),
                      io, F)
    BY <1>1
  <1>3. st'.shs = Frame(st, x).shs /\ st'.vmax = Frame(st, x).vmax
    BY StartOK
  <1>4. /\ "shs" \in DOMAIN expo <=> "vmax" \in DOMAIN expo
        /\ "shs" \in DOMAIN expo => ShutterOK(board, expo, Frame(st, x))
        /\ "shs" \notin DOMAIN expo => Frame(st, x).vmax = 0
    <2>1. x \in Nat
      BY ClampedOK DEF BoardInv, SettingsOK, States
    <2> HIDE DEF x
    <2> QED BY <2>1, ExposureWritten DEF BoardInv
  <1>5. {"shs", "vmax"} \cap (DOMAIN stop \cup DOMAIN oper \cup DOMAIN io \cup DOMAIN anew) = {}
    <2>1. DOMAIN restored = {"gain", "black"}
      OBVIOUS
    <2> HIDE DEF restored
    <2> QED BY <2>1, WriteDomains, Zenon
  <1> HIDE DEF x, r, expo, anew, stop, oper, io
  <1>6. /\ "shs" \in DOMAIN expo => ShutterOK(board, expo, st')
        /\ "shs" \notin DOMAIN expo => ShutterOK(board, r, st')
    BY <1>3, <1>4 DEF ShutterOK
  <1>7. ShutterOK(board, Written(r, expo, F), st')
    BY <1>4, <1>6, ShutterWritten
  <1> QED BY <1>2, <1>5, <1>7, ShutterKept

(* A call that does not write an exposure leaves the frame in vc_state, or forgets it. *)
LEMMA FrameLeft ==
  ASSUME NEW b, NEW regs, NEW s, ShutterOK(b, regs, s), NEW t, SameFrame(t, s) \/ t.vmax = 0
  PROVE  ShutterOK(b, regs, t)
BY DEF ShutterOK, SameFrame

(* vc_calculate_exposure(), i2c_write_reg4(): whatever was asked, in whatever order, and
   whichever writes failed, shutter and frame length in the sensor fit together as long as
   the frame that was computed last has no more lines than the registers hold. *)
THEOREM ShutterFitsFrame == DriverSpec => []ShutterInsideFrame
PROOF
  <1> DEFINE Inv == BoardInv /\ ShutterOK(board, hw, st)
  <1>1. DriverInit => Inv
    <2> SUFFICES ASSUME DriverInit
                 PROVE  Inv
      OBVIOUS
    <2>1. hw["shs"] = Unknown
      BY DEF DriverInit, Regs, SensorRegs
    <2> QED BY <2>1, DriverStarts DEF ShutterOK
  <1>2. Inv /\ [DriverNext]_driverVars => Inv'
    <2> SUFFICES ASSUME Inv, [DriverNext]_driverVars
                 PROVE  Inv'
      OBVIOUS
    <2>1. BoardInv' /\ board' = board
      BY BoardStep, CallMade
    <2>2. board \in DOMAIN Boards /\ SettingsOK(board, st) /\ RequestsTyped(Requests[board])
      BY RequestsKnown DEF BoardInv
    <2>3. ASSUME SameFrame(st', st) \/ st'.vmax = 0, hw' = hw
          PROVE  Inv'
      BY <2>1, <2>3, FrameLeft
    <2>4. ASSUME SameFrame(st', st), ShutterOK(board, hw', st)
          PROVE  Inv'
      BY <2>1, <2>4, FrameLeft
    <2>5. CASE vc_probe \/ vc_remove
      <3>1. st' = st \/ st'.vmax = 0
        BY <2>2, <2>5, InitOK, ProbedOK DEF vc_probe, vc_remove
      <3> QED BY <2>3, <2>5, <3>1 DEF vc_probe, vc_remove, SameFrame
    <2>6. CASE vc_set_mode
      <3>1. PICK format \in Requests[board].format, image \in Images :
              /\ st' = vc_update_image_size_from_mode(vc_core_set_format(st, format), image)
              /\ hw' = hw
        BY <2>6 DEF vc_set_mode
      <3> DEFINE t == vc_core_set_format(st, format)
      <3>2. SettingsOK(board, t) /\ SameFrame(t, st)
        BY <2>2, FormatOK
      <3> HIDE DEF t
      <3>3. SameFrame(st', t)
        BY <2>2, <3>1, <3>2, ImageKnown, ImageOK DEF t
      <3> QED BY <2>3, <3>1, <3>2, <3>3 DEF SameFrame
    <2>7. CASE vc_set_binning_mode
      <3>1. PICK x \in Requests[board].binning :
              hw' = hw /\ st' = IF x <= ctrl.maxBinning THEN [st EXCEPT !.binning = x] ELSE st
        BY <2>7 DEF vc_set_binning_mode
      <3>2. x <= ctrl.maxBinning => SameFrame([st EXCEPT !.binning = x], st)
        BY <2>2, CtrlRanges, SetBinning DEF RequestsTyped
      <3> QED BY <2>3, <3>1, <3>2 DEF SameFrame
    <2>8. CASE vc_set_trigger_mode
      <3> DEFINE New(mode) == [st EXCEPT !.trigger = mode, !.trigReg = TriggerReg(mode)]
      <3>1. PICK mode \in Requests[board].trigger :
              hw' = hw /\ st' = IF TriggerSupported(mode) THEN New(mode) ELSE st
        BY <2>8 DEF vc_set_trigger_mode
      <3>2. TriggerSupported(mode) => SameFrame(New(mode), st)
        BY <2>2, SetTrigger DEF RequestsTyped
      <3> HIDE DEF New
      <3> QED BY <2>3, <3>1, <3>2 DEF SameFrame
    <2>9. CASE vc_set_io_mode
      <3>1. PICK x : hw' = hw /\ st' = [st EXCEPT !.io = x]
        BY <2>9, Zenon DEF vc_set_io_mode
      <3>2. SameFrame(st', st)
        BY <2>2, <3>1, SMT DEF SettingsOK, States, SameFrame
      <3> QED BY <2>3, <3>1, <3>2
    <2>10. CASE vc_set_gain
      <3> DEFINE W(x) == [gain |-> x]
      <3>1. PICK value \in Requests[board].gain, F \in Failures({"gain"}) :
              LET w == W(Clamp(Gain(value), ctrl.gain))
              IN  /\ hw' = Written(hw, w, F)
                  /\ st' = IF Failed(w, F) THEN st ELSE [st EXCEPT !.gain = w.gain]
        BY <2>10 DEF vc_set_gain
      <3> DEFINE w == W(Clamp(Gain(value), ctrl.gain))
                 x == w.gain
      <3>2. "shs" \notin DOMAIN w /\ "vmax" \notin DOMAIN w
        OBVIOUS
      <3> HIDE DEF w
      <3>3. hw' = Written(hw, w, F) /\ (st' = st \/ st' = [st EXCEPT !.gain = x])
        BY <3>1 DEF w
      <3> HIDE DEF x
      <3>4. SameFrame(st', st)
        BY <2>2, <3>3, SMT DEF SettingsOK, States, SameFrame
      <3> QED BY <2>4, <3>2, <3>3, <3>4, ShutterKept
    <2>11. CASE vc_set_black_level
      <3> DEFINE W(x) == [black |-> x]
      <3>1. PICK value \in Requests[board].blacklevel, F \in Failures({"black"}) :
              LET w == W(BlackAbs(RowOf(st), value))
              IN  /\ hw' = Written(hw, w, F)
                  /\ st' = IF Failed(w, F) THEN st ELSE [st EXCEPT !.blacklevel = value]
        BY <2>11 DEF vc_set_black_level
      <3> DEFINE w == W(BlackAbs(RowOf(st), value))
                 x == value
      <3>2. "shs" \notin DOMAIN w /\ "vmax" \notin DOMAIN w
        OBVIOUS
      <3> HIDE DEF w
      <3>3. hw' = Written(hw, w, F) /\ (st' = st \/ st' = [st EXCEPT !.blacklevel = x])
        BY <3>1 DEF w
      <3> HIDE DEF x
      <3>4. SameFrame(st', st)
        BY <2>2, <3>3, SMT DEF SettingsOK, States, SameFrame
      <3> QED BY <2>4, <3>2, <3>3, <3>4, ShutterKept
    <2>12. CASE vc_set_single_trigger
      <3>1. PICK F, w : /\ "shs" \notin DOMAIN w /\ "vmax" \notin DOMAIN w
                        /\ hw' = Written(hw, w, F) /\ st' = st
        BY <2>12 DEF vc_set_single_trigger
      <3> QED BY <2>4, <3>1, ShutterKept DEF SameFrame
    <2>13. CASE vc_stop_streaming
      <3> DEFINE off == [g \in {"trig", "io"} |-> IF g = "trig" THEN "DISABLE" ELSE {}]
                 standby == ModeWrites("standby")
      <3>1. PICK F : /\ hw' = Written(Written(hw, off, F), standby, F)
                     /\ st' = [st EXCEPT !.streaming = FALSE]
        BY <2>13 DEF vc_stop_streaming
      <3>2. {"shs", "vmax"} \cap (DOMAIN off \cup DOMAIN standby) = {}
        BY WriteDomains
      <3> HIDE DEF off, standby
      <3>3. SameFrame(st', st)
        BY <2>2, <3>1, SetStreaming
      <3> QED BY <2>4, <3>1, <3>2, <3>3, ShutterKept
    <2>14. ASSUME NEW s, SettingsOK(board, s), Same(s, st), SameFrame(s, st), NEW x \in Nat,
                  SetExposure(s, x)
           PROVE  Inv'
      <3> DEFINE w == ExposureWrites(s, Clamped(x))
                 f == Frame(s, Clamped(x))
      <3>1. PICK F : hw' = Written(hw, w, F)
        BY <2>14 DEF SetExposure
      <3>2. Clamped(x) \in Nat
        BY ClampedOK
      <3>3. /\ "shs" \in DOMAIN w <=> "vmax" \in DOMAIN w
            /\ "shs" \in DOMAIN w => ShutterOK(board, w, f)
            /\ "shs" \notin DOMAIN w => f.vmax = 0
        BY <2>2, <2>14, <3>2, ExposureWritten
      <3>4. st'.shs = f.shs /\ st'.vmax = f.vmax
        BY <2>14, SetExposureOK
      <3> HIDE DEF w, f
      <3>5. /\ "shs" \in DOMAIN w => ShutterOK(board, w, st')
            /\ "shs" \notin DOMAIN w => ShutterOK(board, hw, st')
        BY <3>3, <3>4 DEF ShutterOK
      <3> QED BY <2>1, <3>1, <3>3, <3>5, ShutterWritten
    <2>15. CASE vc_set_exposure
      <3>1. PICK x \in Requests[board].exposure : SetExposure(st, x)
        BY <2>15 DEF vc_set_exposure
      <3> QED BY <2>2, <2>14, <3>1 DEF RequestsTyped, Same, SameFrame
    <2>16. CASE vc_set_frame_rate
      <3>1. PICK rate, x :
              /\ rate \in Requests[board].framerate /\ x \in {rate, limit.framerate}
              /\ SetExposure([st EXCEPT !.framerate = x], st.exposure)
        BY <2>16 DEF vc_set_frame_rate
      <3> DEFINE s == [st EXCEPT !.framerate = x]
      <3>2. x \in Nat /\ st.exposure \in Nat
        BY <2>2, <3>1 DEF RequestsTyped, BoardInv, LimitOK, SettingsOK, States
      <3>3. SettingsOK(board, s) /\ Same(s, st) /\ SameFrame(s, st)
        BY <2>2, <3>2, SetRate
      <3> QED BY <2>14, <3>1, <3>2, <3>3
    <2>17. CASE vc_start_streaming
      BY <2>1, <2>17, StartShutter
    <2>18. CASE UNCHANGED driverVars
      BY <2>3, <2>18 DEF driverVars, SameFrame
    <2> QED BY <2>5, <2>6, <2>7, <2>8, <2>9, <2>10, <2>11, <2>12, <2>13, <2>15, <2>16, <2>17, <2>18
            DEF DriverNext
  <1>3. Inv => ShutterInsideFrame
    BY DEF ShutterOK, ShutterInsideFrame, Supported, TriggerSupported, ctrl
  <1> QED BY <1>1, <1>2, <1>3, PTL DEF DriverSpec


-----------------------------------------------------------------------------
(* After a call for a format and an image the settings are what this call makes of any. *)
SettledFor(b, s, format, image) ==
  /\ s.format = IF \E i \in DOMAIN Boards[b].modes : Boards[b].modes[i].format = format
                THEN format ELSE Boards[b].modes[1].format
  /\ s.height = IF image.height = 0 THEN Ctrl[b].height ELSE image.height
  /\ image.height # 0 /\ image.binning # NoBinning /\ image.binning <= Ctrl[b].maxBinning =>
       s.binning = image.binning

(* vc_set_mode() for what the settings are already settled for changes nothing. *)
LEMMA ModeSettles ==
  ASSUME BoardInv, NEW format, NEW image \in ImageKinds
  PROVE  LET t == vc_core_set_format(st, format)
         IN  /\ SettledFor(board, vc_update_image_size_from_mode(t, image), format, image)
             /\ SettledFor(board, st, format, image) =>
                  t = st /\ vc_update_image_size_from_mode(t, image) = st
PROOF
  <1> DEFINE t == vc_core_set_format(st, format)
             u == vc_update_image_size_from_mode(t, image)
  <1>1. board \in DOMAIN Boards /\ SettingsOK(board, st) /\ st \in States
    BY DEF BoardInv, SettingsOK
  <1>2. /\ SettingsOK(board, t)
        /\ t.format = IF vc_core_try_format(format) THEN format ELSE cam.modes[1].format
    BY <1>1, FormatOK
  <1>3. SettledFor(board, u, format, image)
    <2> HIDE DEF t
    <2>1. /\ u.format = t.format
          /\ u.height = IF image.height = 0 THEN ctrl.height ELSE image.height
          /\ u.binning = IF image.height # 0 /\ BinningFor(t, image) <= ctrl.maxBinning
                         THEN BinningFor(t, image) ELSE t.binning
      BY <1>1, <1>2, ImageOK
    <2> HIDE DEF u
    <2> QED BY <1>2, <2>1 DEF SettledFor, BinningFor, vc_core_try_format, cam, ctrl
  <1>4. ASSUME SettledFor(board, st, format, image)
        PROVE  t = st /\ u = st
    <2>1. t = st
      <3>1. t = [st EXCEPT !.format = st.format]
        BY <1>4 DEF SettledFor, vc_core_set_format, vc_core_try_format, cam
      <3> HIDE DEF t
      <3> QED BY <1>1, <3>1 DEF States
    <2> HIDE DEF t
    <2>2. u \in {[st EXCEPT !.height = st.height],
                 [st EXCEPT !.height = st.height, !.binning = st.binning]}
      <3>1. st.height = IF image.height = 0 THEN ctrl.height ELSE image.height
        BY <1>4 DEF SettledFor, ctrl
      <3>2. image.height # 0 =>
              (IF BinningFor(st, image) <= ctrl.maxBinning THEN BinningFor(st, image)
               ELSE st.binning) = st.binning
        BY <1>4 DEF SettledFor, BinningFor, ctrl
      <3> QED BY <2>1, <3>1, <3>2 DEF vc_update_image_size_from_mode
    <2> HIDE DEF u
    <2> QED BY <1>1, <2>1, <2>2 DEF States
  <1> QED BY <1>3, <1>4

(* vc_set_mode(): after the second of two calls for one format the limits are those of the
   settings, for every board and image. *)
THEOREM LimitsAreSettled == DriverSpec => []LimitsSettle
PROOF
  <1> DEFINE Settled == call.op = "set_mode" =>
                          \E format, image : call.arg = <<format, image>>
                                            /\ SettledFor(board, st, format, image)
             Inv == BoardInv /\ Settled /\ LimitsSettle
  <1>1. DriverInit => Inv
    BY DriverStarts DEF DriverInit, Other, LimitsSettle
  <1>2. Inv /\ [DriverNext]_driverVars => Inv'
    <2> SUFFICES ASSUME Inv, [DriverNext]_driverVars
                 PROVE  Inv'
      OBVIOUS
    <2>1. BoardInv' /\ board' = board
      BY BoardStep, CallMade
    <2>2. CASE UNCHANGED driverVars
      BY <2>1, <2>2 DEF driverVars, LimitsSettle, vc_core_update_controls, ctrl, RowOf, VFactor
    <2>3. CASE call'.op # "set_mode"
      BY <2>1, <2>3 DEF LimitsSettle
    <2>4. CASE vc_set_mode
      <3>1. PICK format \in Requests[board].format, image \in Images :
              /\ limit' = vc_core_update_controls(vc_core_set_format(st, format))
              /\ st' = vc_update_image_size_from_mode(vc_core_set_format(st, format), image)
              /\ Return("set_mode", <<format, image>>, {}, vc_core_try_format(format))
        BY <2>4 DEF vc_set_mode
      <3>2. /\ call'.op = "set_mode" /\ call'.arg = <<format, image>>
            /\ call'.again <=> call.op = "set_mode" /\ call.arg = <<format, image>>
            /\ image \in ImageKinds
        BY <3>1, ImageKnown DEF Return, BoardInv
      <3>3. Settled'
        BY <2>1, <3>1, <3>2, ModeSettles
      <3>4. ASSUME call'.again
            PROVE  (limit = vc_core_update_controls(st))'
        <4>1. SettledFor(board, st, format, image)
          BY <3>2, <3>4
        <4>2. st' = st /\ limit' = vc_core_update_controls(st)
          BY <3>1, <3>2, <4>1, ModeSettles
        <4> QED BY <2>1, <4>2 DEF vc_core_update_controls, ctrl, RowOf, VFactor
      <3> QED BY <2>1, <3>3, <3>4 DEF LimitsSettle
    <2> QED BY <2>2, <2>3, <2>4, CallMade
  <1>3. Inv => LimitsSettle
    OBVIOUS
  <1> QED BY <1>1, <1>2, <1>3, PTL DEF DriverSpec


-----------------------------------------------------------------------------
(***************************************************************************)
(* What a start leaves in each register: six layers of writes, of which    *)
(* only those of the operating mode (stop and oper) are to the same ones.  *)
(***************************************************************************)
Landed(w, g, F) == IF g \in F THEN Unknown ELSE w[g]

Stacked(base, roi, expo, anew, stop, oper, io, F) ==
  Written(Written(Written(Written(Written(Written(base, roi, F), expo, F), anew, F), stop, F),
                  oper, F), io, F)

StartWrites(roi, expo, anew, stop, oper, io) ==
  /\ DOMAIN roi \subseteq {"roi", "binRegs", "rowRegs"} /\ "roi" \in DOMAIN roi
  /\ DOMAIN expo \subseteq {"expo", "retrig", "shs", "vmax", "flash"}
  /\ DOMAIN anew = {} \/ DOMAIN anew = {"gain", "black"}
  /\ DOMAIN stop \subseteq {"senL", "senM"} /\ DOMAIN oper \subseteq {"senL", "senM"}
  /\ DOMAIN io = {"io", "trig"}

LayersLanded(regs, base, roi, expo, anew, io, F) ==
  /\ regs["roi"] = Landed(roi, "roi", F)
  /\ \A g \in DOMAIN expo : regs[g] = Landed(expo, g, F)
  /\ regs["io"] = Landed(io, "io", F) /\ regs["trig"] = Landed(io, "trig", F)
  /\ regs["mode"] = base["mode"]
  /\ regs["rowRegs"] = IF "rowRegs" \in DOMAIN roi THEN Landed(roi, "rowRegs", F)
                       ELSE base["rowRegs"]
  /\ regs["gain"] = IF "gain" \in DOMAIN anew THEN Landed(anew, "gain", F) ELSE base["gain"]
  /\ regs["black"] = IF "black" \in DOMAIN anew THEN Landed(anew, "black", F) ELSE base["black"]

(* One register of them. *)
LEMMA WrittenAt ==
  ASSUME NEW regs, NEW w, NEW F, NEW g \in Regs
  PROVE  Written(regs, w, F)[g] = IF g \notin DOMAIN w THEN regs[g] ELSE Landed(w, g, F)
BY DEF Written, Landed

(* Register by register, what the six layers leave. *)
LEMMA Layers ==
  ASSUME NEW base, NEW roi, NEW expo, NEW anew, NEW stop, NEW oper, NEW io, NEW F,
         StartWrites(roi, expo, anew, stop, oper, io)
  PROVE  LayersLanded(Stacked(base, roi, expo, anew, stop, oper, io, F), base, roi, expo, anew, io, F)
PROOF
  <1> DEFINE E == {"expo", "retrig", "shs", "vmax", "flash"}
             r1 == Written(base, roi, F)
             r2 == Written(r1, expo, F)
             r3 == Written(r2, anew, F)
             r4 == Written(r3, stop, F)
             r5 == Written(r4, oper, F)
             regs == Stacked(base, roi, expo, anew, stop, oper, io, F)
  <1> USE DEF StartWrites
  <1>1. /\ {"roi", "io", "trig", "mode", "rowRegs", "gain", "black"} \subseteq Regs
        /\ E \subseteq Regs
    BY DEF Regs, SensorRegs, ModuleRegs
  <1>2. regs = Written(r5, io, F)
    BY DEF Stacked
  <1> HIDE DEF regs
  <1>3. \A g \in Regs :
          /\ r1[g] = IF g \notin DOMAIN roi THEN base[g] ELSE Landed(roi, g, F)
          /\ r2[g] = IF g \notin DOMAIN expo THEN r1[g] ELSE Landed(expo, g, F)
          /\ r3[g] = IF g \notin DOMAIN anew THEN r2[g] ELSE Landed(anew, g, F)
          /\ regs[g] = IF g \notin DOMAIN io THEN r5[g] ELSE Landed(io, g, F)
    BY WrittenAt, <1>2
  <1>4. \A g \in Regs : g \notin {"senL", "senM"} => r4[g] = r3[g] /\ r5[g] = r4[g]
    BY WrittenAt
  <1> HIDE DEF r1, r2, r3, r4, r5
  <1>5. regs["roi"] = Landed(roi, "roi", F)
    BY <1>1, <1>3, <1>4
  <1>6. regs["io"] = Landed(io, "io", F) /\ regs["trig"] = Landed(io, "trig", F)
    BY <1>1, <1>3
  <1>7. ASSUME NEW g \in DOMAIN expo
        PROVE  regs[g] = Landed(expo, g, F)
    <2>1. g \in E
      OBVIOUS
    <2>2. g \in Regs
      BY <1>1, <2>1
    <2>3. g \notin {"senL", "senM", "io", "trig", "gain", "black"}
      BY <2>1
    <2>4. r2[g] = Landed(expo, g, F)
      BY <1>3, <2>2
    <2>5. r3[g] = r2[g] /\ regs[g] = r5[g]
      BY <1>3, <2>2, <2>3
    <2>6. r5[g] = r3[g]
      BY <1>4, <2>2, <2>3
    <2> QED BY <2>4, <2>5, <2>6
  <1>8. regs["mode"] = base["mode"]
    BY <1>1, <1>3, <1>4
  <1>9. regs["rowRegs"] = IF "rowRegs" \in DOMAIN roi THEN Landed(roi, "rowRegs", F) ELSE base["rowRegs"]
    BY <1>1, <1>3, <1>4
  <1>10. regs["gain"] = IF "gain" \in DOMAIN anew THEN Landed(anew, "gain", F) ELSE base["gain"]
    BY <1>1, <1>3, <1>4
  <1>11. regs["black"] = IF "black" \in DOMAIN anew THEN Landed(anew, "black", F) ELSE base["black"]
    BY <1>1, <1>3, <1>4
  <1> QED BY <1>5, <1>6, <1>7, <1>8, <1>9, <1>10, <1>11 DEF LayersLanded, regs

Restored == [gain |-> Clamp(st.gain, ctrl.gain), black |-> BlackAbs(RowOf(st), st.blacklevel)]

(* A start that reports no error: nothing of what it looks at failed. *)
LEMMA StartSucceeds ==
  ASSUME BoardInv, vc_start_streaming, call'.ok \/ ~told'
  PROVE  \E F : LET expo == ExposureWrites(st, Clamped(st.exposure))
                    base == IF MustReset(st) THEN vc_mod_reset_module(hw, vc_mod_find_mode(st), F)
                            ELSE hw
                IN  /\ LayersLanded(hw', base, RoiWrites(st), expo,
                                    IF MustReset(st) THEN Restored ELSE NoWrites, IoWrites(st), F)
                    /\ st' = Started(st, IF MustReset(st) THEN vc_mod_find_mode(st) ELSE st.mode,
                                     Clamped(st.exposure), FALSE)
                    /\ MustReset(st) => ~ResetFails(F) /\ "gain" \notin F /\ "black" \notin F
                    /\ F \cap {"roi", "rowRegs", "io", "trig"} \cap (DOMAIN RoiWrites(st) \cup {"io", "trig"}) = {}
                    /\ F \cap DOMAIN expo = {}
                    /\ bound = "ok" /\ bound' = bound /\ (~told' => ~told) /\ call'.op = "start"
PROOF
  <1> DEFINE reset == MustReset(st)
             mode == vc_mod_find_mode(st)
             roi == RoiWrites(st)
             expo == ExposureWrites(st, Clamped(st.exposure))
             restored == [gain |-> Clamp(st.gain, ctrl.gain),
                          black |-> BlackAbs(RowOf(st), st.blacklevel)]
             stop == IF st.streaming THEN ModeWrites("standby") ELSE NoWrites
             oper == IF Operates(st) THEN ModeWrites("operating") ELSE NoWrites
             io == IoWrites(st)
             base(F) == IF reset THEN vc_mod_reset_module(hw, mode, F) ELSE hw
             early(F) == \/ reset /\ ResetFails(F)
                         \/ Reported(roi, F) \/ Failed(expo, F)
             anew(F) == IF reset /\ ~early(F) THEN restored ELSE NoWrites
             late(F) == Failed(anew(F), F) \/ (Operates(st) /\ OperatingReported(F)) \/ Failed(io, F)
  <1>1. PICK F :
          /\ hw' = Stacked(base(F), roi, expo, anew(F), stop, oper, io, F)
          /\ st' = [Exposed(st, Clamped(st.exposure), Failed(expo, F)) EXCEPT
                       !.mode = IF reset /\ ~ResetFails(F) THEN mode ELSE @,
                       !.former = st.binning, !.streaming = TRUE]
          /\ Return("start", NoMode, F, ~early(F) /\ ~late(F)) /\ bound = "ok"
    BY DEF vc_start_streaming, StartWith, Stacked
  <1> HIDE DEF base
  <1>2. ~early(F) /\ ~late(F) /\ (~told' => ~told) /\ bound' = bound /\ call'.op = "start"
    <2>1. F = {} => ~early(F) /\ ~late(F)
      BY DEF ResetFails, Reported, Failed, OperatingReported
    <2> HIDE DEF early, late
    <2> QED BY <1>1, <2>1 DEF Return
  <1>3. /\ reset => ~ResetFails(F)
        /\ ~Reported(roi, F) /\ ~Failed(expo, F) /\ ~Failed(io, F) /\ ~Failed(anew(F), F)
        /\ anew(F) = IF reset THEN restored ELSE NoWrites
    BY <1>2
  <1>4. DOMAIN restored = {"gain", "black"} /\ restored = Restored
    BY DEF Restored
  <1> HIDE DEF restored, early, late
  <1>5. Clamped(st.exposure) \in Nat
    BY ClampedOK DEF BoardInv, SettingsOK, States
  <1>6. DOMAIN expo \subseteq {"expo", "retrig", "shs", "vmax", "flash"}
    BY <1>5, ExposureWritten DEF BoardInv
  <1>7. /\ DOMAIN roi \subseteq {"roi", "binRegs", "rowRegs"} /\ "roi" \in DOMAIN roi
        /\ DOMAIN stop \subseteq {"senL", "senM"} /\ DOMAIN oper \subseteq {"senL", "senM"}
        /\ DOMAIN io = {"io", "trig"}
    BY WriteDomains
  <1>8. DOMAIN anew(F) = {} \/ DOMAIN anew(F) = {"gain", "black"}
    BY <1>3, <1>4, WriteDomains
  <1> HIDE DEF expo, roi, stop, oper, io, anew
  <1>9. LayersLanded(hw', base(F), roi, expo, anew(F), io, F)
    <2>1. StartWrites(roi, expo, anew(F), stop, oper, io)
      BY <1>6, <1>7, <1>8 DEF StartWrites
    <2> QED BY <1>1, <2>1, Layers
  <1>10. st' = Started(st, IF reset THEN mode ELSE st.mode, Clamped(st.exposure), FALSE)
    <2>1. Exposed(st, Clamped(st.exposure), Failed(expo, F)).mode = st.mode
      BY <1>5, SetExposed DEF BoardInv, Same
    <2>2. Failed(expo, F) = FALSE
      BY <1>3 DEF Failed
    <2> QED BY <1>1, <1>3, <2>1, <2>2 DEF Started
  <1>11. /\ reset => "gain" \notin F /\ "black" \notin F
         /\ F \cap {"roi", "rowRegs", "io", "trig"} \cap (DOMAIN roi \cup {"io", "trig"}) = {}
         /\ F \cap DOMAIN expo = {}
    BY <1>3, <1>4, <1>7 DEF Failed, Reported
  <1>12. anew(F) = IF reset THEN Restored ELSE NoWrites
    BY <1>3, <1>4
  <1> QED BY <1>1, <1>2, <1>3, <1>9, <1>10, <1>11, <1>12, Zenon DEF base, expo, roi, io


(* Settings that agree are written alike. *)
LEMMA AgreeWrites ==
  ASSUME NEW s, NEW t, Agree(s, t)
  PROVE  /\ RowOf(s) = RowOf(t) /\ VFactor(s) = VFactor(t)
         /\ vc_core_calculate_roi(s) = vc_core_calculate_roi(t) /\ IoWrites(s) = IoWrites(t)
         /\ RoiWrites(s) = RoiWrites(t)
         /\ vc_mod_find_mode(s) = vc_mod_find_mode(t)
         /\ s.streaming = t.streaming => \A x : ExposureWrites(s, x) = ExposureWrites(t, x)
PROOF
  <1> USE DEF Agree
  <1>1. vc_core_get_binning(ctrl, s) = vc_core_get_binning(ctrl, t)
    BY DEF vc_core_get_binning
  <1>2. RowOf(s) = RowOf(t) /\ VFactor(s) = VFactor(t)
    BY <1>1 DEF RowOf, VFactor
  <1>3. vc_core_calculate_roi(s) = vc_core_calculate_roi(t) /\ IoWrites(s) = IoWrites(t)
    BY <1>2 DEF vc_core_calculate_roi, IoWrites
  <1>4. RoiWrites(s) = RoiWrites(t)
    BY <1>1, <1>3, Zenon DEF RoiWrites, HasRowRegs
  <1>5. ModeType(s) = ModeType(t)
    BY DEF ModeType
  <1>6. vc_mod_find_mode(s) = vc_mod_find_mode(t)
    <2> DEFINE bin(v) == IF vc_core_get_binning(ctrl, v).useModMode THEN v.binning ELSE 0
               fit(v) == {i \in DOMAIN cam.modes : /\ cam.modes[i].lanes = v.lanes
                                                   /\ cam.modes[i].format = v.format
                                                   /\ cam.modes[i].type = ModeType(v)
                                                   /\ cam.modes[i].binning = bin(v)}
               Best(T) == CHOOSE i \in T : \A j \in T :
                            \/ cam.modes[i].rate > cam.modes[j].rate
                            \/ cam.modes[i].rate = cam.modes[j].rate /\ i <= j
    <2>1. bin(s) = bin(t)
      BY <1>1
    <2> HIDE DEF bin
    <2>2. fit(s) = fit(t)
      BY <1>5, <2>1
    <2>3. \A v : vc_mod_find_mode(v) = IF fit(v) = {} THEN 1 ELSE Best(fit(v))
      BY DEF vc_mod_find_mode, bin
    <2> HIDE DEF fit, Best
    <2> QED BY <2>2, <2>3
  <1>7. ASSUME s.streaming = t.streaming, NEW x
        PROVE  ExposureWrites(s, x) = ExposureWrites(t, x)
    <2>1. Triggered(s) = Triggered(t)
      BY DEF Triggered
    <2>2. Frame(s, x) = Frame(t, x)
      BY <1>2, <2>1, Zenon DEF Frame
    <2> QED BY <1>2, <1>7, <2>1, <2>2, Zenon DEF ExposureWrites
  <1> QED BY <1>2, <1>3, <1>4, <1>6, <1>7

(* A start leaves the settings that are written as they were. *)
LEMMA StartAgrees ==
  ASSUME BoardInv, NEW mode \in {NoMode} \cup DOMAIN cam.modes, NEW x \in Nat
  PROVE  LET t == Started(st, mode, x, FALSE)
             u == [t EXCEPT !.streaming = st.streaming]
         IN  Agree(t, st) /\ Agree(u, st) /\ u.streaming = st.streaming /\ u.exposure = x
PROOF
  <1> DEFINE t == Started(st, mode, x, FALSE)
             u == [t EXCEPT !.streaming = st.streaming]
  <1>1. board \in DOMAIN Boards /\ SettingsOK(board, st)
    BY DEF BoardInv
  <1>2. t \in States /\ t.exposure = x /\ Agree(t, st)
    <2>1. SettingsOK(board, t) /\ t.exposure = x /\ Agree(t, st)
      BY <1>1, SetStartedWhole
    <2> HIDE DEF t
    <2> QED BY <2>1 DEF SettingsOK
  <1> HIDE DEF t
  <1>3. /\ u.lanes = t.lanes /\ u.format = t.format /\ u.height = t.height /\ u.binning = t.binning
        /\ u.trigger = t.trigger /\ u.trigReg = t.trigReg /\ u.io = t.io
        /\ u.framerate = t.framerate /\ u.exposure = t.exposure /\ u.streaming = st.streaming
    BY <1>2, SMT DEF States
  <1> HIDE DEF u
  <1> QED BY <1>2, <1>3 DEF Agree, t, u

(* Only vc_start_streaming() leaves a call of that name behind. *)
LEMMA OnlyStart ==
  ASSUME [DriverNext]_driverVars, call'.op = "start"
  PROVE  vc_start_streaming \/ UNCHANGED driverVars
PROOF
  <1>1. CASE vc_probe \/ vc_remove
    BY <1>1 DEF vc_probe, vc_remove, Other
  <1>2. CASE vc_set_mode
    BY <1>2 DEF vc_set_mode, Return
  <1>3. CASE \/ vc_set_binning_mode \/ vc_set_trigger_mode \/ vc_set_io_mode \/ vc_set_gain
             \/ vc_set_black_level \/ vc_set_exposure \/ vc_set_frame_rate \/ vc_set_single_trigger
             \/ vc_stop_streaming
    <2>1. PICK arg, F, ok : Return("other", arg, F, ok)
      BY <1>3, Zenon DEF vc_set_binning_mode, vc_set_trigger_mode, vc_set_io_mode, vc_set_gain,
              vc_set_black_level, vc_set_exposure, vc_set_frame_rate, SetExposure,
              vc_set_single_trigger, vc_stop_streaming
    <2> QED BY <2>1 DEF Return, Other
  <1> QED BY <1>1, <1>2, <1>3 DEF DriverNext

(* vc_start_streaming(): a start that returns 0 has written window, exposure and I/O, for every
   combination of writes that fail. *)
THEOREM StartHasWritten == DriverSpec => SuccessMeansWritten
PROOF
  <1> DEFINE Written1 == (call'.op = "start" /\ call'.ok) =>
                           StartRegisters([st' EXCEPT !.streaming = st.streaming])
  <1>1. BoardInv /\ [DriverNext]_driverVars => [Written1]_driverVars
    <2> SUFFICES ASSUME BoardInv, [DriverNext]_driverVars, call'.op = "start", call'.ok,
                        ~UNCHANGED driverVars
                 PROVE  StartRegisters([st' EXCEPT !.streaming = st.streaming])
      OBVIOUS
    <2>1. vc_start_streaming
      BY OnlyStart
    <2> DEFINE expo == ExposureWrites(st, Clamped(st.exposure))
               base(F) == IF MustReset(st) THEN vc_mod_reset_module(hw, vc_mod_find_mode(st), F)
                          ELSE hw
               anew == IF MustReset(st) THEN Restored ELSE NoWrites
               mode == IF MustReset(st) THEN vc_mod_find_mode(st) ELSE st.mode
               u == [st' EXCEPT !.streaming = st.streaming]
    <2>2. PICK F : /\ LayersLanded(hw', base(F), RoiWrites(st), expo, anew, IoWrites(st), F)
                   /\ st' = Started(st, mode, Clamped(st.exposure), FALSE)
                   /\ F \cap {"roi", "rowRegs", "io", "trig"}
                        \cap (DOMAIN RoiWrites(st) \cup {"io", "trig"}) = {}
                   /\ F \cap DOMAIN expo = {}
      BY <2>1, StartSucceeds
    <2>3. board \in DOMAIN Boards /\ SettingsOK(board, st)
      BY DEF BoardInv
    <2>4. Clamped(st.exposure) \in Nat
      BY <2>3, ClampedOK DEF SettingsOK, States
    <2>5. mode \in {NoMode} \cup DOMAIN cam.modes
      BY <2>3, ModeFound DEF SettingsOK, cam
    <2> HIDE DEF mode
    <2>6. Agree(u, st) /\ u.streaming = st.streaming /\ u.exposure = Clamped(st.exposure)
      BY <2>2, <2>4, <2>5, StartAgrees
    <2> HIDE DEF u
    <2>7. /\ ExposureWrites(u, u.exposure) = expo /\ IoWrites(u) = IoWrites(st)
          /\ vc_core_calculate_roi(u) = vc_core_calculate_roi(st)
      BY <2>6, AgreeWrites
    <2> HIDE DEF expo, base, anew
    <2>8. "roi" \in DOMAIN RoiWrites(st) /\ RoiWrites(st)["roi"] = vc_core_calculate_roi(st)
      BY DEF RoiWrites
    <2>9. hw'["roi"] = vc_core_calculate_roi(st)
      BY <2>2, <2>8 DEF LayersLanded, Landed
    <2>10. \A g \in DOMAIN expo : hw'[g] = expo[g]
      BY <2>2 DEF LayersLanded, Landed
    <2>11. hw'["io"] = IoWrites(st).io /\ hw'["trig"] = IoWrites(st).trig
      BY <2>2 DEF LayersLanded, Landed
    <2>12. StartRegisters(u)
      BY <2>7, <2>9, <2>10, <2>11 DEF StartRegisters
    <2> QED BY <2>12 DEF u
  <1> QED BY <1>1, DriverStarts, BoardStep, PTL DEF DriverSpec, SuccessMeansWritten


-----------------------------------------------------------------------------
(***************************************************************************)
(* While no call has reported an error, and once the module was given a    *)
(* mode, the registers that a start does not always write are as vc_state  *)
(* has them.                                                               *)
(***************************************************************************)
InStep(b, s, regs) ==
  /\ regs["mode"] = s.mode /\ regs["gain"] = s.gain
  /\ \E i \in DOMAIN Ctrl[b].modes : regs["black"] = BlackAbs(Ctrl[b].modes[i], s.blacklevel)
  /\ s.former = 0 => regs["rowRegs"] = Reset

SyncInv ==
  /\ bound # "ok" => st.mode = NoMode
  /\ ~told /\ st.mode # NoMode => InStep(board, st, hw)

(* A call that writes none of these registers, or writes them and all is well. *)
LEMMA SyncKept ==
  ASSUME SyncInv, bound = "ok", NEW op, NEW arg, NEW F, NEW ok, Return(op, arg, F, ok), Same(st', st),
         \A g \in {"mode", "gain", "black", "rowRegs"} : hw'[g] = hw[g]
  PROVE  SyncInv'
PROOF
  <1>1. bound' = "ok" /\ board' = board /\ (~told' => ~told)
    BY DEF Return
  <1>2. InStep(board, st, hw) => InStep(board, st', hw')
    BY DEF InStep, Same
  <1> QED BY <1>1, <1>2 DEF SyncInv, Same

(* What a start that reports no error leaves in these registers. *)
InSync ==
  /\ hw'["mode"] = st'.mode /\ st'.mode = vc_mod_find_mode(st')
  /\ hw'["gain"] = st'.gain
  /\ \E i \in DOMAIN ctrl.modes : hw'["black"] = BlackAbs(ctrl.modes[i], st'.blacklevel)
  /\ hw'["rowRegs"] = IF "rowRegs" \in DOMAIN RoiWrites(st')
                      THEN RoiWrites(st')["rowRegs"] ELSE Reset

(* A start that reports no error leaves the module as vc_state has it: after a reset since
   everything is written again, without one since it was before. *)
LEMMA StartInSync ==
  ASSUME BoardInv, SyncInv, vc_start_streaming, ~told'
  PROVE  InSync /\ SyncInv'
PROOF
  <1> DEFINE reset == MustReset(st)
             found == vc_mod_find_mode(st)
             expo == ExposureWrites(st, Clamped(st.exposure))
             base(F) == IF reset THEN vc_mod_reset_module(hw, found, F) ELSE hw
             anew == IF reset THEN Restored ELSE NoWrites
             mode == IF reset THEN found ELSE st.mode
  <1>1. PICK F : /\ LayersLanded(hw', base(F), RoiWrites(st), expo, anew, IoWrites(st), F)
                 /\ st' = Started(st, mode, Clamped(st.exposure), FALSE)
                 /\ reset => ~ResetFails(F) /\ "gain" \notin F /\ "black" \notin F
                 /\ F \cap {"roi", "rowRegs", "io", "trig"}
                      \cap (DOMAIN RoiWrites(st) \cup {"io", "trig"}) = {}
                 /\ bound = "ok" /\ bound' = bound /\ ~told
    BY StartSucceeds
  <1>2. /\ board \in DOMAIN Boards /\ SettingsOK(board, st) /\ board' = board
        /\ Clamped(st.exposure) \in Nat
    <2>1. board' = board
      BY DEF vc_start_streaming, StartWith, Return
    <2> QED BY <2>1, ClampedOK DEF BoardInv, SettingsOK, States
  <1>3. found \in DOMAIN cam.modes /\ found # NoMode /\ mode \in {NoMode} \cup DOMAIN cam.modes
    BY <1>2, ModeFound, ModeKnown DEF SettingsOK, cam
  <1>4. mode = found
    BY DEF MustReset
  <1> HIDE DEF mode, expo
  <1>5. /\ Agree(st', st) /\ st'.mode = mode /\ st'.former = st.binning /\ st'.gain = st.gain
        /\ st'.blacklevel = st.blacklevel
    <2> DEFINE x == Clamped(st.exposure)
               t == Started(st, mode, x, FALSE)
    <2>1. x \in Nat
      BY <1>2
    <2> HIDE DEF x
    <2>2. /\ t.mode = mode /\ t.former = st.binning /\ t.gain = st.gain
          /\ t.blacklevel = st.blacklevel
      BY <1>2, <1>3, <2>1, SetStartedWhole
    <2>3. Agree(t, st)
      BY <1>3, <2>1, StartAgrees
    <2>4. st' = t
      BY <1>1 DEF x
    <2> QED BY <2>2, <2>3, <2>4
  <1>6. vc_mod_find_mode(st') = found /\ RoiWrites(st') = RoiWrites(st)
    BY <1>5, AgreeWrites
  <1>7. ~reset => InStep(board, st, hw) /\ st.mode = found
    <2>1. ~reset => st.mode = found
      BY DEF MustReset
    <2> QED BY <1>1, <1>3, <2>1 DEF SyncInv
  <1>8. hw'["mode"] = found
    <2>1. hw'["mode"] = base(F)["mode"]
      BY <1>1 DEF LayersLanded
    <2>2. CASE reset
      <3>1. "mode" \in Regs /\ "mode" \notin SensorRegs /\ "mode" \notin F
        BY <1>1, <2>2 DEF ResetFails, Regs, ModuleRegs, SensorRegs
      <3> QED BY <2>1, <2>2, <3>1 DEF vc_mod_reset_module
    <2>3. CASE ~reset
      BY <2>1, <2>3, <1>7 DEF InStep
    <2> QED BY <2>2, <2>3
  <1>9. hw'["gain"] = st.gain
    <2>1. CASE reset
      <3>1. anew = Restored /\ "gain" \in DOMAIN Restored /\ Restored["gain"] = Clamp(st.gain, ctrl.gain)
        BY <2>1 DEF Restored
      <3>2. hw'["gain"] = Clamp(st.gain, ctrl.gain)
        BY <1>1, <2>1, <3>1 DEF LayersLanded, Landed
      <3>3. st.gain \in ctrl.gain.min..ctrl.gain.max
        BY <1>2 DEF SettingsOK, ctrl
      <3>4. Clamp(st.gain, ctrl.gain) = st.gain
        BY <1>2, <3>3, CtrlRanges DEF Clamp
      <3> QED BY <3>2, <3>4
    <2>2. CASE ~reset
      <3>1. hw'["gain"] = hw["gain"]
        BY <1>1, <2>2, WriteDomains DEF LayersLanded
      <3> QED BY <3>1, <2>2, <1>7 DEF InStep
    <2> QED BY <2>1, <2>2
  <1>10. \E i \in DOMAIN ctrl.modes : hw'["black"] = BlackAbs(ctrl.modes[i], st.blacklevel)
    <2>1. CASE reset
      <3>1. /\ anew = Restored /\ "black" \in DOMAIN Restored
            /\ Restored["black"] = BlackAbs(RowOf(st), st.blacklevel)
        BY <2>1 DEF Restored
      <3>2. hw'["black"] = BlackAbs(RowOf(st), st.blacklevel)
        BY <1>1, <2>1, <3>1 DEF LayersLanded, Landed
      <3> QED BY <1>2, <3>2, RowIs
    <2>2. CASE ~reset
      <3>1. hw'["black"] = hw["black"]
        BY <1>1, <2>2, WriteDomains DEF LayersLanded
      <3> QED BY <3>1, <2>2, <1>7 DEF InStep, ctrl
    <2> QED BY <2>1, <2>2
  <1>11. st.binning > 0 <=> "rowRegs" \in DOMAIN RoiWrites(st)
    <2>1. "rowRegs" \in DOMAIN RoiWrites(st) <=> HasRowRegs(st)
      <3>1. DOMAIN RoiWrites(st) = {"roi", "binRegs"} \cup (IF HasRowRegs(st) THEN {"rowRegs"} ELSE {})
        BY WriteDomains
      <3> QED BY <3>1
    <2>2. st.binning > 0 => "USE_BINNING_INDEX" \in ctrl.flags
      <3>1. st.binning \in 0..ctrl.maxBinning /\ ctrl.maxBinning \in Nat
        BY <1>2, CtrlRanges DEF SettingsOK, ctrl
      <3>2. ctrl.maxBinning > 0 => "USE_BINNING_INDEX" \in ctrl.flags
        BY <1>2, BoardFacts DEF ctrl, SensorOK, WellFormed, BinningsIndexed
      <3> QED BY <3>1, <3>2
    <2> QED BY <2>1, <2>2 DEF HasRowRegs
  <1>12. hw'["rowRegs"] = IF "rowRegs" \in DOMAIN RoiWrites(st) THEN RoiWrites(st)["rowRegs"] ELSE Reset
    <2>1. CASE "rowRegs" \in DOMAIN RoiWrites(st)
      BY <1>1, <2>1 DEF LayersLanded, Landed
    <2>2. CASE "rowRegs" \notin DOMAIN RoiWrites(st)
      <3>1. hw'["rowRegs"] = base(F)["rowRegs"]
        BY <1>1, <2>2 DEF LayersLanded
      <3>2. CASE reset
        <4>1. "rowRegs" \in SensorRegs /\ "rowRegs" \in Regs /\ {"down", "up"} \cap F = {}
          BY <1>1, <3>2 DEF ResetFails, Regs, SensorRegs
        <4> QED BY <2>2, <3>1, <3>2, <4>1 DEF vc_mod_reset_module
      <3>3. CASE ~reset
        <4>1. st.binning = 0
          <5>1. st.binning \in Nat
            BY <1>2, CtrlRanges DEF SettingsOK, ctrl
          <5> QED BY <1>11, <2>2, <5>1
        <4>2. st.former = 0
          <5>1. st.former \in Nat
            BY <1>2 DEF SettingsOK, States, MaxBinnings
          <5> QED BY <3>3, <4>1, <5>1 DEF MustReset
        <4> QED BY <1>7, <2>2, <3>1, <3>3, <4>2 DEF InStep
      <3> QED BY <3>2, <3>3
    <2> QED BY <2>1, <2>2
  <1>13. InSync
    BY <1>4, <1>5, <1>6, <1>8, <1>9, <1>10, <1>12 DEF InSync
  <1>14. InStep(board, st', hw')
    <2>1. st'.former = 0 => hw'["rowRegs"] = Reset
      BY <1>5, <1>11, <1>12
    <2> QED BY <1>4, <1>5, <1>8, <1>9, <1>10, <2>1 DEF InStep, ctrl
  <1> QED BY <1>1, <1>2, <1>13, <1>14 DEF SyncInv


(* Every call preserves it. *)
LEMMA SyncStep ==
  ASSUME BoardInv, SyncInv, [DriverNext]_driverVars
  PROVE  SyncInv'
PROOF
  <1>1. board \in DOMAIN Boards /\ SettingsOK(board, st) /\ RequestsTyped(Requests[board])
    BY RequestsKnown DEF BoardInv
  <1>2. vc_core_state_init.mode = NoMode
    BY DEF vc_core_state_init
  <1>3. {"mode", "gain", "black", "rowRegs", "trig", "io"} \subseteq Regs
    BY DEF Regs, SensorRegs, ModuleRegs
  <1>4. CASE vc_probe
    <2>1. st'.mode = NoMode
      <3>1. CASE st' = st
        BY <1>4, <3>1 DEF vc_probe, SyncInv
      <3>2. CASE LanesKnown /\ st' = vc_init_lanes(vc_init_io(vc_core_state_init))
        BY <1>1, <1>2, <3>2, InitOK, ProbedOK
      <3> QED BY <1>4, <3>1, <3>2 DEF vc_probe
    <2> QED BY <2>1 DEF SyncInv
  <1>5. CASE vc_remove
    BY <1>2, <1>5 DEF vc_remove, SyncInv
  <1>6. CASE vc_set_mode
    <2>1. PICK format \in Requests[board].format, image \in Images :
            /\ st' = vc_update_image_size_from_mode(vc_core_set_format(st, format), image)
            /\ Return("set_mode", <<format, image>>, {}, vc_core_try_format(format)) /\ hw' = hw
            /\ bound = "ok"
      BY <1>6 DEF vc_set_mode
    <2> DEFINE t == vc_core_set_format(st, format)
    <2>2. SettingsOK(board, t) /\ Same(t, st)
      BY <1>1, FormatOK
    <2> HIDE DEF t
    <2>3. Same(st', t)
      BY <1>1, <2>1, <2>2, ImageKnown, ImageOK DEF t
    <2>4. Same(st', st)
      BY <2>2, <2>3 DEF Same
    <2> QED BY <2>1, <2>4, SyncKept
  <1>7. CASE vc_set_binning_mode
    <2>1. PICK x \in Requests[board].binning :
            /\ st' = IF x <= ctrl.maxBinning THEN [st EXCEPT !.binning = x] ELSE st
            /\ Return("other", NoMode, {}, x <= ctrl.maxBinning) /\ hw' = hw /\ bound = "ok"
      BY <1>7 DEF vc_set_binning_mode
    <2>2. x <= ctrl.maxBinning => x \in 0..ctrl.maxBinning
      BY <1>1, <2>1, CtrlRanges DEF RequestsTyped
    <2>3. Same(st', st)
      <3>1. x <= ctrl.maxBinning => Same([st EXCEPT !.binning = x], st)
        BY <1>1, <2>2, SetBinning
      <3> QED BY <2>1, <3>1 DEF Same
    <2> QED BY <2>1, <2>3, SyncKept
  <1>8. CASE vc_set_trigger_mode
    <2> DEFINE New(mode) == [st EXCEPT !.trigger = mode, !.trigReg = TriggerReg(mode)]
    <2>1. PICK mode \in Requests[board].trigger :
            /\ st' = IF TriggerSupported(mode) THEN New(mode) ELSE st
            /\ Return("other", NoMode, {}, TriggerSupported(mode)) /\ hw' = hw /\ bound = "ok"
      BY <1>8 DEF vc_set_trigger_mode
    <2>2. mode \in TriggerModes
      BY <1>1 DEF RequestsTyped
    <2>3. TriggerSupported(mode) => Same(New(mode), st)
      BY <1>1, <2>2, SetTrigger
    <2> HIDE DEF New
    <2>4. Same(st', st)
      BY <2>1, <2>3 DEF Same
    <2> QED BY <2>1, <2>4, SyncKept
  <1>9. CASE vc_set_io_mode
    <2>1. PICK x, ok : /\ st' = [st EXCEPT !.io = x] /\ Return("other", NoMode, {}, ok) /\ hw' = hw
                       /\ bound = "ok"
      BY <1>9, Zenon DEF vc_set_io_mode
    <2>2. Same(st', st)
      BY <1>1, <2>1, SMT DEF SettingsOK, States, Same
    <2> QED BY <2>1, <2>2, SyncKept
  <1>10. CASE vc_set_gain
    <2> DEFINE W(x) == [gain |-> x]
    <2>1. PICK value \in Requests[board].gain, F \in Failures({"gain"}) :
            LET w == W(Clamp(Gain(value), ctrl.gain))
            IN  /\ hw' = Written(hw, w, F)
                /\ st' = IF Failed(w, F) THEN st ELSE [st EXCEPT !.gain = w.gain]
                /\ Return("other", NoMode, F, ~Failed(w, F)) /\ bound = "ok"
      BY <1>10 DEF vc_set_gain
    <2> DEFINE x == Clamp(Gain(value), ctrl.gain)
               w == W(x)
    <2>2. x \in ctrl.gain.min..ctrl.gain.max
      BY <1>1, GainNat, ClampedOK DEF RequestsTyped
    <2>3. DOMAIN w = {"gain"} /\ w.gain = x
      OBVIOUS
    <2> HIDE DEF x, w
    <2>4. /\ hw' = Written(hw, w, F) /\ Return("other", NoMode, F, ~Failed(w, F)) /\ bound = "ok"
          /\ Failed(w, F) => st' = st
          /\ ~Failed(w, F) => st' = [st EXCEPT !.gain = x]
      BY <2>1, <2>3 DEF w, x
    <2>5. CASE Failed(w, F)
      <3>1. told' /\ bound' = bound
        BY <2>4, <2>5 DEF Return, Failed
      <3> QED BY <2>4, <3>1 DEF SyncInv
    <2>6. CASE ~Failed(w, F)
      <3>1. /\ st'.gain = x /\ st'.mode = st.mode /\ st'.blacklevel = st.blacklevel
            /\ st'.former = st.former
        <4>1. st \in States
          BY <1>1 DEF SettingsOK
        <4> QED BY <2>4, <2>6, <4>1, SMT DEF States
      <3>2. /\ hw'["gain"] = x /\ hw'["mode"] = hw["mode"] /\ hw'["black"] = hw["black"]
            /\ hw'["rowRegs"] = hw["rowRegs"]
        BY <1>3, <2>3, <2>4, <2>6, WrittenIs DEF Failed
      <3>3. board' = board /\ bound' = bound /\ (~told' => ~told)
        BY <2>4 DEF Return
      <3> QED BY <2>4, <3>1, <3>2, <3>3 DEF SyncInv, InStep
    <2> QED BY <2>5, <2>6
  <1>11. CASE vc_set_black_level
    <2> DEFINE W(x) == [black |-> x]
    <2>1. PICK rel \in Requests[board].blacklevel, F \in Failures({"black"}) :
            LET w == W(BlackAbs(RowOf(st), rel))
            IN  /\ hw' = Written(hw, w, F)
                /\ st' = IF Failed(w, F) THEN st ELSE [st EXCEPT !.blacklevel = rel]
                /\ Return("other", NoMode, F, ~Failed(w, F)) /\ bound = "ok"
      BY <1>11 DEF vc_set_black_level
    <2> DEFINE x == BlackAbs(RowOf(st), rel)
               w == W(x)
    <2>2. rel \in Nat
      BY <1>1 DEF RequestsTyped
    <2>3. DOMAIN w = {"black"} /\ w.black = x
      OBVIOUS
    <2>4. /\ hw' = Written(hw, w, F) /\ Return("other", NoMode, F, ~Failed(w, F)) /\ bound = "ok"
          /\ Failed(w, F) => st' = st
          /\ ~Failed(w, F) => st' = [st EXCEPT !.blacklevel = rel]
      BY <2>1
    <2>5. \E i \in DOMAIN Ctrl[board].modes : x = BlackAbs(Ctrl[board].modes[i], rel)
      BY <1>1, RowIs DEF ctrl
    <2> HIDE DEF x, w
    <2>6. CASE Failed(w, F)
      <3>1. told' /\ bound' = bound
        BY <2>4, <2>6 DEF Return, Failed
      <3> QED BY <2>4, <3>1 DEF SyncInv
    <2>7. CASE ~Failed(w, F)
      <3>1. /\ st'.blacklevel = rel /\ st'.mode = st.mode /\ st'.gain = st.gain
            /\ st'.former = st.former
        <4>1. st \in States
          BY <1>1 DEF SettingsOK
        <4> QED BY <2>4, <2>7, <4>1, SMT DEF States
      <3>2. /\ hw'["black"] = x /\ hw'["mode"] = hw["mode"] /\ hw'["gain"] = hw["gain"]
            /\ hw'["rowRegs"] = hw["rowRegs"]
        BY <1>3, <2>3, <2>4, <2>7, WrittenIs DEF Failed
      <3>3. board' = board /\ bound' = bound /\ (~told' => ~told)
        BY <2>4 DEF Return
      <3> QED BY <2>4, <2>5, <3>1, <3>2, <3>3 DEF SyncInv, InStep
    <2> QED BY <2>6, <2>7
  <1>12. ASSUME NEW s, SettingsOK(board, s), Same(s, st), NEW x \in Nat, SetExposure(s, x)
         PROVE  SyncInv'
    <2> DEFINE w == ExposureWrites(s, Clamped(x))
    <2>1. PICK F : /\ hw' = Written(hw, w, F) /\ bound = "ok"
                   /\ Return("other", NoMode, F, ~Failed(w, F))
      BY <1>12 DEF SetExposure
    <2>2. Same(st', st)
      BY <1>12, SetExposureOK
    <2>3. DOMAIN w \subseteq {"expo", "retrig", "shs", "vmax", "flash"}
      BY <1>1, <1>12, ClampedOK, ExposureWritten
    <2> HIDE DEF w
    <2>4. \A g \in {"mode", "gain", "black", "rowRegs"} : hw'[g] = hw[g]
      BY <1>3, <2>1, <2>3, WrittenIs
    <2> QED BY <2>1, <2>2, <2>4, SyncKept
  <1>13. CASE vc_set_exposure
    <2>1. PICK x \in Requests[board].exposure : SetExposure(st, x)
      BY <1>13 DEF vc_set_exposure
    <2> QED BY <1>1, <1>12, <2>1 DEF RequestsTyped, Same
  <1>14. CASE vc_set_frame_rate
    <2>1. PICK rate, x :
            /\ rate \in Requests[board].framerate /\ x \in {rate, limit.framerate}
            /\ SetExposure([st EXCEPT !.framerate = x], st.exposure)
      BY <1>14 DEF vc_set_frame_rate
    <2>2. x \in Nat /\ st.exposure \in Nat
      BY <1>1, <2>1 DEF RequestsTyped, BoardInv, LimitOK, SettingsOK, States
    <2>3. SettingsOK(board, [st EXCEPT !.framerate = x]) /\ Same([st EXCEPT !.framerate = x], st)
      BY <1>1, <2>2, SetRate
    <2> QED BY <1>12, <2>1, <2>2, <2>3
  <1>15. CASE vc_set_single_trigger
    <2>1. PICK F, w, ok : /\ DOMAIN w = {"trig"} /\ hw' = Written(hw, w, F) /\ bound = "ok"
                          /\ Return("other", NoMode, F, ok) /\ st' = st
      BY <1>15 DEF vc_set_single_trigger
    <2>2. \A g \in {"mode", "gain", "black", "rowRegs"} : hw'[g] = hw[g]
      BY <1>3, <2>1, WrittenIs
    <2> QED BY <2>1, <2>2, SyncKept DEF Same
  <1>16. CASE vc_start_streaming
    <2>1. CASE ~told'
      BY <1>16, <2>1, StartInSync
    <2>2. CASE told'
      <3>1. bound = "ok" /\ bound' = bound
        BY <1>16 DEF vc_start_streaming, StartWith, Return
      <3> QED BY <2>2, <3>1 DEF SyncInv
    <2> QED BY <2>1, <2>2
  <1>17. CASE vc_stop_streaming
    <2> DEFINE off == [g \in {"trig", "io"} |-> IF g = "trig" THEN "DISABLE" ELSE {}]
               standby == ModeWrites("standby")
    <2>1. PICK F : /\ hw' = Written(Written(hw, off, F), standby, F)
                   /\ st' = [st EXCEPT !.streaming = FALSE] /\ bound = "ok"
                   /\ Return("other", NoMode, F, F = {})
      BY <1>17 DEF vc_stop_streaming
    <2>2. DOMAIN off = {"trig", "io"} /\ DOMAIN standby \subseteq {"senL", "senM"}
      BY WriteDomains
    <2> HIDE DEF off, standby
    <2>3. \A g \in {"mode", "gain", "black", "rowRegs"} : hw'[g] = hw[g]
      BY <1>3, <2>1, <2>2, WrittenIs
    <2>4. Same(st', st)
      BY <1>1, <2>1, SetStreaming
    <2> QED BY <2>1, <2>3, <2>4, SyncKept
  <1>18. CASE UNCHANGED driverVars
    BY <1>18 DEF driverVars, SyncInv
  <1> QED BY <1>4, <1>5, <1>6, <1>7, <1>8, <1>9, <1>10, <1>11, <1>13, <1>14, <1>15, <1>16, <1>17, <1>18
          DEF DriverNext

(* vc_mod_set_mode(), vc_start_streaming(): as long as no call reported an error, a start leaves
   mode, gain, black level and row registers as vc_state has them. *)
THEOREM SyncUnlessTold == DriverSpec => InSyncUnlessTold
PROOF
  <1> DEFINE Inv == BoardInv /\ SyncInv
             Told == (call'.op = "start" /\ ~told') => InSync
  <1>1. DriverInit => Inv
    <2>1. DriverInit => st.mode = NoMode
      BY DEF DriverInit, vc_core_state_init
    <2> QED BY <2>1, DriverStarts DEF SyncInv
  <1>2. Inv /\ [DriverNext]_driverVars => Inv'
    BY BoardStep, SyncStep
  <1>3. Inv /\ [DriverNext]_driverVars => [Told]_driverVars
    BY OnlyStart, StartInSync
  <1> QED BY <1>1, <1>2, <1>3, PTL DEF DriverSpec, InSyncUnlessTold, InSync
=============================================================================
