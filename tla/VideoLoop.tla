------------------------------- MODULE VideoLoop -------------------------------
(***************************************************************************)
(* One camera of the secure USB server: video_loop() of                    *)
(* secure/SecureUsbServer.cpp in each session, the detection thread it     *)
(* starts, and the main loop that changes settings and starts or stops     *)
(* the stream through set_source_property(), refresh_launch() and          *)
(* set_stream_enabled().                                                   *)
(*                                                                         *)
(* What the settings are is abstracted to how many there have been: config *)
(* counts the changes made on the main loop, launch is the state of        *)
(* video_launch_, running what the source of the current pipeline works    *)
(* with.  The cameras of a session share only its end, so one is enough.   *)
(*                                                                         *)
(* refresh_launch() assigns a string that video_loop() may be copying;     *)
(* that is a data race, and the copy may be the old, the new or Torn.  (It *)
(* may also crash the process, after which there is nothing to say.)       *)
(***************************************************************************)
EXTENDS Naturals

CONSTANTS
  kBarrenLimit,  \* pipelines in a row without a frame before giving up
  MaxSettings,   \* bound on changes of settings
  MaxToggles,    \* bound on calls of set_stream_enabled()
  MaxSessions,   \* bound on sessions
  Torn           \* a description copied during its assignment

ASSUME ConstantsAssumption ==
  /\ kBarrenLimit \in Nat \ {0}
  /\ MaxSettings \in Nat
  /\ MaxToggles \in Nat
  /\ MaxSessions \in Nat
  /\ Torn \notin Nat

VARIABLES
  sessions,   \* how many sessions there have been
  dead,       \* Session::dead
  loop,       \* where video_loop() is; "off" without a session
  barren,     \* its local of that name
  produced,   \* likewise
  pipe,       \* the pipeline: "none", "object" (not playing) or "up"
  running,    \* the settings its source works with
  sinks,      \* the transports it knows exist
  detect,     \* where the detection thread is
  published,  \* live_source_ is the pipeline
  streaming,  \* streaming_
  main,       \* where the main loop is in a change of settings
  config,     \* CameraConfig
  launch,     \* video_launch_
  relaunch,   \* relaunch_
  enabled,    \* stream_enabled_
  toggles,    \* how often it was set
  lost,       \* history: relaunch_ was reset for settings not described
  cut,        \* history: a pipeline was ended before its first frame
  failed      \* history: one ended by itself without a frame

sessionVars == <<sessions, dead>>
pipeVars == <<pipe, running, sinks, detect, published>>
mainVars == <<main, config, launch, enabled, toggles>>
history == <<lost, cut, failed>>
vars == <<sessions, dead, loop, barren, produced, pipe, running, sinks, detect,
          published, streaming, main, config, launch, relaunch, enabled,
          toggles, lost, cut, failed>>

Settings == 0 .. MaxSettings

(* What one camera's loop, its shared fields and its three threads may be in. *)
TypeOK ==
  /\ sessions \in 0 .. MaxSessions
  /\ dead \in BOOLEAN
  /\ loop \in {"off", "check", "describe", "clear", "start", "publish",
               "watch", "pull", "withdraw", "join", "count", "delay",
               "returned", "givenUp"}
  /\ barren \in 0 .. kBarrenLimit
  /\ produced \in BOOLEAN
  /\ pipe \in {"none", "object", "up"}
  /\ running \in Settings \cup {Torn}
  /\ sinks \in BOOLEAN
  /\ detect \in {"none", "check", "pump", "done"}
  /\ published \in BOOLEAN
  /\ streaming \in BOOLEAN
  /\ main \in {"idle", "poke", "using", "refresh", "assigning", "flag"}
  /\ config \in Settings
  /\ launch \in Settings
  /\ relaunch \in BOOLEAN
  /\ enabled \in BOOLEAN
  /\ toggles \in 0 .. MaxToggles
  /\ lost \in BOOLEAN
  /\ cut \in BOOLEAN
  /\ failed \in BOOLEAN

Init ==
  /\ sessions = 0 /\ dead = FALSE /\ loop = "off" /\ barren = 0
  /\ produced = FALSE /\ pipe = "none" /\ running = 0 /\ sinks = FALSE
  /\ detect = "none" /\ published = FALSE /\ streaming = FALSE
  /\ main = "idle" /\ config = 0 /\ launch = 0 /\ relaunch = FALSE
  /\ enabled = TRUE /\ toggles = 0
  /\ lost = FALSE /\ cut = FALSE /\ failed = FALSE

-------------------------------------------------------------------------------
(***************************************************************************)
(* The session.                                                            *)
(***************************************************************************)

\* serve_session() starts the thread; barren is its local.
SessionStarts ==
  /\ loop = "off"
  /\ sessions < MaxSessions
  /\ sessions' = sessions + 1
  /\ dead' = FALSE
  /\ loop' = "check"
  /\ barren' = 0
  /\ cut' = FALSE /\ failed' = FALSE
  /\ UNCHANGED <<produced, pipeVars, streaming, mainVars, relaunch, lost>>

\* It ends for whatever reason, a seal that fails in VideoSink among them.
SessionDies ==
  /\ loop # "off"
  /\ ~dead
  /\ dead' = TRUE
  /\ UNCHANGED <<sessions, loop, barren, produced, pipeVars, streaming, mainVars,
                 relaunch, history>>

\* end_session() joins the thread.
SessionEnds ==
  /\ dead
  /\ loop \in {"returned", "givenUp"}
  /\ loop' = "off"
  /\ UNCHANGED <<sessionVars, barren, produced, pipeVars, streaming, mainVars,
                 relaunch, history>>

-------------------------------------------------------------------------------
(***************************************************************************)
(* video_loop()                                                            *)
(***************************************************************************)

\* Mutant: a stopped camera ends its thread.
CheckReturns ==
  /\ loop = "check"
  /\ \/ /\ dead \/ ~enabled
        /\ loop' = "returned"
     \/ /\ ~dead /\ enabled
        /\ loop' = "describe"
  /\ UNCHANGED <<sessionVars, barren, produced, pipeVars, streaming, mainVars,
                 relaunch, history>>

\* The top of the loop; while set-stream has stopped the camera, it waits.
Check ==
  /\ loop = "check"
  /\ \/ /\ dead
        /\ loop' = "returned"
        /\ UNCHANGED barren
     \/ /\ ~dead /\ ~enabled
        /\ barren' = 0
        /\ UNCHANGED loop
     \/ /\ ~dead /\ enabled
        /\ loop' = "describe"
        /\ UNCHANGED barren
  /\ UNCHANGED <<sessionVars, produced, pipeVars, streaming, mainVars, relaunch,
                 history>>

Described == IF main = "assigning" THEN {launch, config, Torn} ELSE {launch}

Describe ==
  /\ loop = "describe"
  /\ running' \in Described
  /\ lost' = FALSE
  /\ loop' = "clear"
  /\ UNCHANGED <<sessionVars, barren, produced, pipe, sinks, detect, published,
                 streaming, mainVars, relaunch, cut, failed>>

\* relaunch = false, whatever has been asked for since the description.
Clear ==
  /\ loop = "clear"
  /\ relaunch' = FALSE
  /\ lost' = (running # launch /\ main \notin {"assigning", "flag"})
  /\ pipe' = "object"
  /\ produced' = FALSE
  /\ loop' = "start"
  /\ UNCHANGED <<sessionVars, barren, running, sinks, detect, published,
                 streaming, mainVars, cut, failed>>

\* pipeline.start(): it plays, with or without a detection branch, ...
Start ==
  /\ loop = "start"
  /\ pipe' = "up"
  /\ sinks' = TRUE
  /\ detect' \in {"none", "check"}
  /\ loop' = "publish"
  /\ UNCHANGED <<sessionVars, barren, produced, running, published, streaming,
                 mainVars, relaunch, history>>

\* ... or fails.
StartFails ==
  /\ loop = "start"
  /\ failed' = TRUE
  /\ loop' = "count"
  /\ UNCHANGED <<sessionVars, barren, produced, pipeVars, streaming, mainVars,
                 relaunch, lost, cut>>

\* live_mutex_ is held by set_source_property() while it uses the pipeline.
LiveMutexFree == main # "using"

Publish ==
  /\ loop = "publish"
  /\ LiveMutexFree
  /\ published' = TRUE
  /\ loop' = "watch"
  /\ UNCHANGED <<sessionVars, barren, produced, pipe, running, sinks, detect,
                 streaming, mainVars, relaunch, history>>

\* Mutant: nor is the end of the session.
WatchUntilTold ==
  /\ loop = "watch"
  /\ loop' = IF ~enabled \/ relaunch THEN "withdraw" ELSE "pull"
  /\ cut' = (cut \/ (~dead /\ ~produced /\ (~enabled \/ relaunch)))
  /\ UNCHANGED <<sessionVars, barren, produced, pipeVars, streaming, mainVars,
                 relaunch, lost, failed>>

\* The head of the inner loop.
Watch ==
  /\ loop = "watch"
  /\ loop' = IF dead \/ ~enabled \/ relaunch THEN "withdraw" ELSE "pull"
  /\ cut' = (cut \/ (~dead /\ ~produced /\ (~enabled \/ relaunch)))
  /\ UNCHANGED <<sessionVars, barren, produced, pipeVars, streaming, mainVars,
                 relaunch, lost, failed>>

\* pump() brings a frame to VideoSink, which reports it; ...
PullFrame ==
  /\ loop = "pull"
  /\ streaming' = TRUE
  /\ produced' = TRUE
  /\ loop' = IF dead THEN "withdraw" ELSE "watch"
  /\ UNCHANGED <<sessionVars, barren, pipeVars, mainVars, relaunch, history>>

\* ... or nothing within its time; ...
PullNothing ==
  /\ loop = "pull"
  /\ loop' = "watch"
  /\ UNCHANGED <<sessionVars, barren, produced, pipeVars, streaming, mainVars,
                 relaunch, history>>

\* ... or the stream has ended.
PullEnds ==
  /\ loop = "pull"
  /\ failed' = (failed \/ ~produced)
  /\ loop' = "withdraw"
  /\ UNCHANGED <<sessionVars, barren, produced, pipeVars, streaming, mainVars,
                 relaunch, lost, cut>>

\* Mutant: the source is withdrawn without the mutex.
WithdrawUnlocked ==
  /\ loop = "withdraw"
  /\ published' = FALSE
  /\ streaming' = FALSE
  /\ loop' = "join"
  /\ UNCHANGED <<sessionVars, barren, produced, pipe, running, sinks, detect,
                 mainVars, relaunch, history>>

\* The second SCOPE_EXIT runs first: publish(nullptr) and report(false).
Withdraw ==
  /\ loop = "withdraw"
  /\ LiveMutexFree
  /\ published' = FALSE
  /\ streaming' = FALSE
  /\ loop' = "join"
  /\ UNCHANGED <<sessionVars, barren, produced, pipe, running, sinks, detect,
                 mainVars, relaunch, history>>

\* Then the first: the detection thread is joined.  The sinks end here, the
\* pipeline, which still knows them, with the body of the outer loop.
Join ==
  /\ loop = "join"
  /\ detect \in {"none", "done"}
  /\ detect' = "none"
  /\ sinks' = FALSE
  /\ loop' = "count"
  /\ UNCHANGED <<sessionVars, barren, produced, pipe, running, published,
                 streaming, mainVars, relaunch, history>>

\* Mutant: a pipeline that streamed counts as well.
CountEvery ==
  /\ loop = "count"
  /\ \/ /\ dead
        /\ loop' = "returned" /\ pipe' = "none"
        /\ UNCHANGED barren
     \/ /\ ~dead /\ barren + 1 < kBarrenLimit
        /\ loop' = "delay"
        /\ barren' = barren + 1
        /\ UNCHANGED pipe
     \/ /\ ~dead /\ barren + 1 >= kBarrenLimit
        /\ loop' = "givenUp" /\ pipe' = "none"
        /\ barren' = barren + 1
  /\ UNCHANGED <<sessionVars, produced, running, sinks, detect, published,
                 streaming, mainVars, relaunch, history>>

\* After a pipeline: return, go on, or, if it has produced nothing, go on
\* after a delay, through which it is kept, or give the camera up.
Count ==
  /\ loop = "count"
  /\ \/ /\ dead
        /\ loop' = "returned" /\ pipe' = "none"
        /\ UNCHANGED barren
     \/ /\ ~dead /\ produced
        /\ loop' = "check" /\ pipe' = "none"
        /\ barren' = 0
     \/ /\ ~dead /\ ~produced /\ barren + 1 < kBarrenLimit
        /\ loop' = "delay"
        /\ barren' = barren + 1
        /\ UNCHANGED pipe
     \/ /\ ~dead /\ ~produced /\ barren + 1 >= kBarrenLimit
        /\ loop' = "givenUp" /\ pipe' = "none"
        /\ barren' = barren + 1
  /\ UNCHANGED <<sessionVars, produced, running, sinks, detect, published,
                 streaming, mainVars, relaunch, history>>

Delay ==
  /\ loop = "delay"
  /\ pipe' = "none"
  /\ loop' = "check"
  /\ UNCHANGED <<sessionVars, barren, produced, running, sinks, detect,
                 published, streaming, mainVars, relaunch, history>>

-------------------------------------------------------------------------------
(***************************************************************************)
(* The detection thread, between its tests of dead and detect_stop and in  *)
(* pump_raw(), which calls every sink.                                     *)
(***************************************************************************)

DetectStop == loop = "join"

DetectChecks ==
  /\ detect = "check"
  /\ detect' = IF dead \/ DetectStop THEN "done" ELSE "pump"
  /\ UNCHANGED <<sessionVars, loop, barren, produced, pipe, running, sinks,
                 published, streaming, mainVars, relaunch, history>>

DetectPumps ==
  /\ detect = "pump"
  /\ detect' = "check"
  /\ UNCHANGED <<sessionVars, loop, barren, produced, pipe, running, sinks,
                 published, streaming, mainVars, relaunch, history>>

-------------------------------------------------------------------------------
(***************************************************************************)
(* The main loop.                                                          *)
(***************************************************************************)

\* set_stream_enabled(), from set-stream.
SetStream ==
  /\ main = "idle"
  /\ toggles < MaxToggles
  /\ toggles' = toggles + 1
  /\ enabled' = ~enabled
  /\ UNCHANGED <<sessionVars, loop, barren, produced, pipeVars, streaming, main,
                 config, launch, relaunch, history>>

\* A handler changes the configuration of the camera.  Exposure, gain and ISP
\* settings are tried on the live source first, zoom is not.
Change ==
  /\ main = "idle"
  /\ config < MaxSettings
  /\ config' = config + 1
  /\ main' \in {"poke", "refresh"}
  /\ UNCHANGED <<sessionVars, loop, barren, produced, pipeVars, streaming,
                 launch, relaunch, enabled, toggles, history>>

\* set_source_property() takes live_mutex_ and looks for the pipeline ...
Poke ==
  /\ main = "poke"
  /\ main' = IF published THEN "using" ELSE "refresh"
  /\ UNCHANGED <<sessionVars, loop, barren, produced, pipeVars, streaming,
                 config, launch, relaunch, enabled, toggles, history>>

\* ... and sets one property of its source; what it missed before is missing
\* still.
PokeEnds ==
  /\ main = "using"
  /\ running' = IF running = config - 1 THEN config ELSE running
  /\ main' = "refresh"
  /\ UNCHANGED <<sessionVars, loop, barren, produced, pipe, sinks, detect,
                 published, streaming, config, launch, relaunch, enabled,
                 toggles, history>>

\* refresh_launch(): the assignment, ...
RefreshBegins ==
  /\ main = "refresh"
  /\ main' = "assigning"
  /\ UNCHANGED <<sessionVars, loop, barren, produced, pipeVars, streaming,
                 config, launch, relaunch, enabled, toggles, history>>

RefreshAssigned ==
  /\ main = "assigning"
  /\ launch' = config
  /\ main' = "flag"
  /\ UNCHANGED <<sessionVars, loop, barren, produced, pipeVars, streaming,
                 config, relaunch, enabled, toggles, history>>

\* Mutant: only a published pipeline is asked to rebuild.
RefreshFlagsIfUp ==
  /\ main = "flag"
  /\ relaunch' = (relaunch \/ published)
  /\ main' = "idle"
  /\ UNCHANGED <<sessionVars, loop, barren, produced, pipeVars, streaming,
                 config, launch, enabled, toggles, history>>

\* ... and the flag.
RefreshFlags ==
  /\ main = "flag"
  /\ relaunch' = TRUE
  /\ main' = "idle"
  /\ UNCHANGED <<sessionVars, loop, barren, produced, pipeVars, streaming,
                 config, launch, enabled, toggles, history>>

-------------------------------------------------------------------------------
Loop ==
  \/ Check \/ Describe \/ Clear \/ Start \/ StartFails \/ Publish
  \/ Watch \/ PullFrame \/ PullNothing \/ PullEnds
  \/ Withdraw \/ Join \/ Count \/ Delay

Detect == DetectChecks \/ DetectPumps

Handler == Poke \/ PokeEnds \/ RefreshBegins \/ RefreshAssigned \/ RefreshFlags

Next ==
  \/ SessionStarts \/ SessionDies \/ SessionEnds
  \/ Loop \/ Detect
  \/ SetStream \/ Change \/ Handler

Spec == Init /\ [][Next]_vars

(***************************************************************************)
(* Fairness.  The three threads run; pump() and pump_raw() return within   *)
(* their timeouts.  Nothing makes a camera produce, or anyone change it.   *)
(***************************************************************************)
FairSpec ==
  /\ Spec
  /\ WF_vars(Loop) /\ WF_vars(Detect) /\ WF_vars(Handler)
  /\ WF_vars(SessionEnds)

-------------------------------------------------------------------------------
(***************************************************************************)
(* Properties.                                                             *)
(***************************************************************************)

(***************************************************************************)
(* Nothing uses a pipeline that is not playing, or a sink that is gone:    *)
(* neither a handler on the main loop, which finds it without holding a    *)
(* reference, nor the detection thread; and the status never says          *)
(* streaming of a camera whose pipeline is down.                           *)
(***************************************************************************)
NothingOutlivesPipeline ==
  /\ published \/ main = "using" \/ detect # "none" \/ streaming => pipe = "up"
  /\ detect = "pump" => sinks

InPipeline == loop \in {"watch", "pull"}

(***************************************************************************)
(* A pipeline with old settings has been told to rebuild, unless they were *)
(* changed after its description and before the flag was reset.            *)
(***************************************************************************)
StaleIsFlagged ==
  InPipeline /\ main = "idle" => running = config \/ relaunch \/ lost

(***************************************************************************)
(* A camera is given up only if some pipeline of the session ended without *)
(* a frame: by itself, or because somebody had it stopped or rebuilt.      *)
(***************************************************************************)
GivenUpForAReason == loop = "givenUp" => failed \/ cut

(***************************************************************************)
(* When the session dies the loop ends, whoever is using its pipeline,     *)
(* and the camera is free.                                                 *)
(***************************************************************************)
SessionEndFreesCamera == dead ~> loop = "off" /\ pipe = "none"

(***************************************************************************)
(* "Off = the video loop parks and its pipeline (and sensor) is released": *)
(* after whatever it was doing.                                            *)
(***************************************************************************)
OffReleasesCamera == ~enabled ~> enabled \/ pipe = "none"

(***************************************************************************)
(* A camera that is enabled and was not given up gets its pipeline.        *)
(***************************************************************************)
StreamComesBack ==
  enabled /\ ~dead /\ loop # "off" ~>
    ~enabled \/ dead \/ InPipeline \/ loop = "givenUp"

(***************************************************************************)
(* "A live session picks it up within one pull timeout."                   *)
(***************************************************************************)
RefreshIsSeen ==
  InPipeline /\ main = "idle" => running = config \/ relaunch

(***************************************************************************)
(* "One that never produced a byte is a camera that is not there": none is *)
(* given up whose pipelines never failed.                                  *)
(***************************************************************************)
OnlyAbsentIsGivenUp == loop = "givenUp" => failed
===============================================================================
