--------------------------- MODULE RtspMountsProofs ---------------------------
(***************************************************************************)
(* Proofs about RtspMounts, for any cameras, any kStallChecks, any values  *)
(* of a setting and any number of requests: the watchdog disables only a   *)
(* camera that was silent while it played, and what a request has set is   *)
(* in force when it is answered.                                           *)
(***************************************************************************)
EXTENDS RtspMounts, WellFoundedInduction, TLAPS

(***************************************************************************)
(* The watchdog's part of TypeOK.                                          *)
(***************************************************************************)
CheckTypes ==
  /\ dead \in [Cameras -> BOOLEAN] /\ fresh \in [Cameras -> BOOLEAN]
  /\ stalled \in [Cameras -> Nat] /\ quiet \in [Cameras -> 0 .. kStallChecks]

(***************************************************************************)
(* The count of a mounted camera never runs ahead of its silence, unless a *)
(* frame has come since the last check, which will start the count again.  *)
(***************************************************************************)
CountInv ==
  \A c \in Cameras :
    ~dead[c] => /\ stalled[c] < kStallChecks
                /\ fresh[c] \/ stalled[c] <= quiet[c]

(***************************************************************************)
(* A check keeps the count behind the silence, and disables a camera only  *)
(* when both have reached the limit.                                       *)
(***************************************************************************)
LEMMA CheckStep ==
  ASSUME CheckTypes, CountInv, on_watchdog
  PROVE  /\ CheckTypes' /\ CountInv'
         /\ \A c \in Cameras : (dead'[c] /\ ~dead[c]) => quiet'[c] >= kStallChecks
PROOF
  <1>1. kStallChecks \in Nat \ {0}
    BY MountsAssumption
  <1>2. CheckTypes'
    BY <1>1 DEF CheckTypes, on_watchdog, Checked, Suspect, mounted
  <1>3. ASSUME NEW c \in Cameras, ~dead[c]
        PROVE  /\ dead'[c] => quiet'[c] >= kStallChecks
               /\ ~dead'[c] => stalled'[c] < kStallChecks /\ stalled'[c] <= quiet'[c]
    <2>1. /\ stalled'[c] = (IF Suspect(c) THEN stalled[c] + 1 ELSE 0)
          /\ dead'[c] <=> Suspect(c) /\ stalled[c] + 1 >= kStallChecks
      BY <1>3 DEF on_watchdog, Checked, mounted
    <2>2. quiet'[c] = (IF media[c] \notin {"playing", "stuck"} THEN 0
                       ELSE IF quiet[c] < kStallChecks THEN quiet[c] + 1 ELSE quiet[c])
      BY <1>3 DEF on_watchdog
    <2>3. Suspect(c) => media[c] \in {"playing", "stuck"} /\ ~fresh[c]
      BY DEF Suspect
    <2>4. stalled[c] < kStallChecks /\ (fresh[c] \/ stalled[c] <= quiet[c])
      BY <1>3 DEF CountInv
    <2>5. stalled[c] \in Nat /\ quiet[c] \in 0 .. kStallChecks
      BY DEF CheckTypes
    <2> QED BY <1>1, <2>1, <2>2, <2>3, <2>4, <2>5
  <1>4. \A c \in Cameras : dead[c] => dead'[c]
    BY DEF on_watchdog
  <1> QED BY <1>2, <1>3, <1>4 DEF CountInv

(***************************************************************************)
(* A frame, and every step that is not about the watchdog at all.          *)
(***************************************************************************)
LEMMA CountStep ==
  ASSUME CheckTypes, CountInv, [Next]_vars
  PROVE  CheckTypes' /\ CountInv'
PROOF
  <1>0. kStallChecks \in Nat \ {0}
    BY MountsAssumption
  <1>1. CASE on_watchdog
    BY <1>1, CheckStep
  <1>2. CASE \E c \in Cameras : on_payload_buffer(c)
    <2>1. PICK c \in Cameras : on_payload_buffer(c)
      BY <1>2
    <2>2. /\ UNCHANGED <<dead, stalled>>
          /\ fresh' = [fresh EXCEPT ![c] = ~dead[c]] /\ quiet' = [quiet EXCEPT ![c] = 0]
      BY <2>1 DEF on_payload_buffer, mounted
    <2>3. fresh' \in [Cameras -> BOOLEAN] /\ dead' \in [Cameras -> BOOLEAN]
      BY <2>2, Zenon DEF CheckTypes
    <2>4. stalled' \in [Cameras -> Nat] /\ quiet' \in [Cameras -> 0 .. kStallChecks]
      BY <1>0, <2>2 DEF CheckTypes
    <2>5. ASSUME NEW d \in Cameras, ~dead'[d]
          PROVE  stalled'[d] < kStallChecks /\ (fresh'[d] \/ stalled'[d] <= quiet'[d])
      <3>1. ~dead[d] /\ stalled'[d] = stalled[d]
        BY <2>2, <2>5
      <3>2. CASE d = c
        <4>1. fresh'[d] = ~dead[d]
          BY <2>2, <3>2, Zenon DEF CheckTypes
        <4> QED BY <3>1, <4>1 DEF CountInv
      <3>3. CASE d # c
        <4>1. fresh'[d] = fresh[d]
          BY <2>2, <3>3, Zenon DEF CheckTypes
        <4>2. quiet'[d] = quiet[d]
          BY <2>2, <3>3 DEF CheckTypes
        <4> QED BY <3>1, <4>1, <4>2 DEF CountInv
      <3> QED BY <3>2, <3>3
    <2> QED BY <2>3, <2>4, <2>5 DEF CheckTypes, CountInv
  <1>3. CASE Fresh
    BY <1>0, <1>3 DEF Fresh, CheckTypes, CountInv
  <1>4. CASE UNCHANGED checks
    BY <1>4 DEF checks, CheckTypes, CountInv
  <1>5. CASE \E c \in Cameras : Client(c) \/ wedge(c)
    BY <1>4, <1>5 DEF Client, construct, on_media_configure, set_state, on_media_unprepared, wedge
  <1>6. CASE Request
    BY <1>4, <1>6 DEF Request, set_exposure, set_isp, set_trigger, set_control, set_zoom, set_sync
  <1>7. CASE Handler
    BY <1>4, <1>7 DEF Handler, set_source_property, set_device, set_config, refresh_launch,
                      next_camera
  <1>8. CASE UNCHANGED vars
    BY <1>4, <1>8 DEF vars
  <1> QED
    BY <1>1, <1>2, <1>3, <1>5, <1>6, <1>7, <1>8 DEF Next, reload, restart

(***************************************************************************)
(* OnlySilentIsDead: on_watchdog() disables a camera only after            *)
(* kStallChecks periods in a row in which it played and sent nothing.      *)
(***************************************************************************)
THEOREM OnlyTheSilentDie == Spec => OnlySilentIsDead
<1>1. Init => CheckTypes /\ CountInv
  BY MountsAssumption DEF Init, CheckTypes, CountInv
<1>2. CheckTypes /\ CountInv /\ [Next]_vars => CheckTypes' /\ CountInv'
  BY CountStep
<1>3. CheckTypes /\ CountInv /\ [Next]_vars
        => [\A c \in Cameras : (dead'[c] /\ ~dead[c]) => quiet'[c] >= kStallChecks]_vars
  <2> SUFFICES ASSUME CheckTypes, CountInv, [Next]_vars, NEW c \in Cameras, dead'[c], ~dead[c]
               PROVE  quiet'[c] >= kStallChecks
    OBVIOUS
  <2>1. CASE on_watchdog
    BY <2>1, CheckStep
  <2>2. CASE UNCHANGED dead
    BY <2>2
  <2>3. CASE Fresh
    BY <2>3 DEF Fresh
  <2>4. CASE \E d \in Cameras : Client(d) \/ wedge(d) \/ on_payload_buffer(d)
    BY <2>4 DEF Client, construct, on_media_configure, set_state, on_media_unprepared, wedge,
                on_payload_buffer, checks
  <2>5. CASE Request
    BY <2>5 DEF Request, set_exposure, set_isp, set_trigger, set_control, set_zoom, set_sync, checks
  <2>6. CASE Handler
    BY <2>6 DEF Handler, set_source_property, set_device, set_config, refresh_launch,
                next_camera, checks
  <2>7. CASE UNCHANGED vars
    BY <2>7 DEF vars, checks
  <2> QED BY <2>1, <2>3, <2>4, <2>5, <2>6, <2>7 DEF Next, reload, restart
<1> QED BY <1>1, <1>2, <1>3, PTL DEF Spec, OnlySilentIsDead

-------------------------------------------------------------------------------
(***************************************************************************)
(* The camera a request is at is one of its cameras.                       *)
(***************************************************************************)
LEMMA CameraOfRequest ==
  ASSUME NEW S \in SUBSET Nat, S # {}
  PROVE  Min(S) \in S
PROOF
  <1>1. PICK x \in S : \A y \in S : ~ (<<y, x>> \in OpToRel(<, Nat))
    BY WFMin, NatLessThanWellFounded
  <1>2. \A y \in S : ~ (y < x)
    BY <1>1, Zenon DEF OpToRel
  <1>3. \A y \in S : x =< y
    BY <1>2
  <1> QED BY <1>3 DEF Min

(***************************************************************************)
(* A request is none, or has a camera to be at; its steps are those of one *)
(* of the handlers, which says of what kind its cameras are.               *)
(***************************************************************************)
ArgusStages ==
  {<<"source", <<"config", "launch">>>>, <<"config", <<"launch">>>>,
   <<"config", <<"source", "launch">>>>, <<"source", <<"launch">>>>}

V4l2Stages ==
  {<<"device", <<"config">>>>, <<"config", <<>>>>, <<"device", <<"config", "next">>>>,
   <<"config", <<"next">>>>, <<"next", <<>>>>}

Stage == <<request.step, request.rest>>

Requests ==
  [step : {"source", "config", "device", "launch", "next"},
   rest : {<<>>, <<"launch">>, <<"next">>, <<"config">>, <<"config", "launch">>,
           <<"source", "launch">>, <<"config", "next">>},
   cams : (SUBSET Cameras) \ {{}}, value : Values]

RequestInv ==
  \/ request = Idle
  \/ /\ request \in Requests
     /\ \/ Stage \in ArgusStages /\ \A c \in request.cams : source[c] = "argus"
        \/ Stage \in V4l2Stages /\ \A c \in request.cams : source[c] = "v4l2"
        \/ Stage = <<"launch", <<>>>>
     /\ Stage \in ArgusStages => request.cams = {Camera}
     /\ request.step = "launch" => request.cams = {Camera}

(***************************************************************************)
(* Is there a pipeline, or a device, whose setting can be told?            *)
(***************************************************************************)
Tracked(c) == ~excused[c] /\ (source[c] = "v4l2" \/ known[c] \/ media[c] = "built")

(* The camera the request is at, where the three copies of the setting may differ. *)
At(c) == request # Idle /\ c = Camera

(* Has the handler stored the new value? *)
Stored(s) == s \in {<<"source", <<"launch">>>>, <<"launch", <<>>>>}

(* Has it poked the pipeline or set the device? *)
Poked(s) ==
  s \in {<<"config", <<"launch">>>>, <<"config", <<>>>>, <<"config", <<"next">>>>,
         <<"launch", <<>>>>}

(* Is it about to change what is in force, the configuration being ahead already? *)
Ahead(s) == s = <<"source", <<"launch">>>>

Setting(c) ==
  /\ ~At(c) => /\ source[c] = "argus" => launch[c] = config[c]
               /\ Tracked(c) => inForce[c] = config[c]
  /\ At(c) => /\ (source[c] = "argus" /\ ~Stored(Stage)) => launch[c] = config[c]
              /\ Stored(Stage) => config[c] = request.value
              /\ (Poked(Stage) /\ Tracked(c)) => inForce[c] = request.value
              /\ (~Poked(Stage) /\ ~Ahead(Stage) /\ Tracked(c)) => inForce[c] = config[c]

SettingInv == \A c \in Cameras : Setting(c)

SettingTypes ==
  /\ source \in [Cameras -> {"argus", "v4l2"}]
  /\ media \in [Cameras -> {"none", "built", "ready", "playing", "stuck"}]
  /\ known \in [Cameras -> BOOLEAN] /\ excused \in [Cameras -> BOOLEAN]
  /\ config \in [Cameras -> Values] /\ launch \in [Cameras -> Values]
  /\ inForce \in [Cameras -> Values]

(***************************************************************************)
(* The stages, one by one.                                                 *)
(***************************************************************************)
LEMMA StageTable ==
  /\ \A s \in {<<"source", <<"config", "launch">>>>, <<"config", <<"source", "launch">>>>,
               <<"device", <<"config">>>>, <<"device", <<"config", "next">>>>, <<"next", <<>>>>} :
       ~Stored(s) /\ ~Poked(s) /\ ~Ahead(s)
  /\ \A s \in {<<"config", <<"launch">>>>, <<"config", <<>>>>, <<"config", <<"next">>>>} :
       ~Stored(s) /\ Poked(s) /\ ~Ahead(s)
  /\ Stored(<<"source", <<"launch">>>>) /\ ~Poked(<<"source", <<"launch">>>>)
  /\ Ahead(<<"source", <<"launch">>>>)
  /\ Stored(<<"launch", <<>>>>) /\ Poked(<<"launch", <<>>>>) /\ ~Ahead(<<"launch", <<>>>>)
  BY DEF Stored, Poked, Ahead

(***************************************************************************)
(* The camera of a request.                                                *)
(***************************************************************************)
LEMMA CameraIsOne ==
  ASSUME RequestInv, request # Idle
  PROVE  Camera \in request.cams /\ Camera \in Cameras
  BY CameraOfRequest, MountsAssumption DEF RequestInv, Requests, Camera

(***************************************************************************)
(* What is left of a handler after one of its steps.                       *)
(***************************************************************************)
LEMMA Rests ==
  /\ Head(<<"config", "launch">>) = "config" /\ Tail(<<"config", "launch">>) = <<"launch">>
  /\ Head(<<"source", "launch">>) = "source" /\ Tail(<<"source", "launch">>) = <<"launch">>
  /\ Head(<<"config", "next">>) = "config" /\ Tail(<<"config", "next">>) = <<"next">>
  /\ Head(<<"launch">>) = "launch" /\ Tail(<<"launch">>) = <<>>
  /\ Head(<<"config">>) = "config" /\ Tail(<<"config">>) = <<>>
  /\ Head(<<"next">>) = "next" /\ Tail(<<"next">>) = <<>>
  /\ Head(<<"device", "config">>) = "device" /\ Tail(<<"device", "config">>) = <<"config">>
  /\ Head(<<"source", "config", "launch">>) = "source"
  /\ Tail(<<"source", "config", "launch">>) = <<"config", "launch">>
  /\ Head(<<"config", "source", "launch">>) = "config"
  /\ Tail(<<"config", "source", "launch">>) = <<"source", "launch">>
  OBVIOUS

(***************************************************************************)
(* Rests of different lengths differ.                                      *)
(***************************************************************************)
LEMMA Different ==
  /\ \A x : <<x>> # <<>>
  /\ \A x, y : <<x, y>> # <<>>
  /\ \A x, y, z : <<x>> # <<y, z>>
  OBVIOUS

(***************************************************************************)
(* Done() takes a request to its next stage, for the same cameras, or ends *)
(* it.                                                                     *)
(***************************************************************************)
LEMMA Moves ==
  ASSUME RequestInv, request # Idle, request' = Done(request)
  PROVE  \/ request.rest = <<>> /\ request' = Idle
         \/ /\ request.rest # <<>>
            /\ request' \in Requests
            /\ request'.cams = request.cams /\ request'.value = request.value
            /\ request'.step = Head(request.rest) /\ request'.rest = Tail(request.rest)
PROOF
  <1>1. request \in Requests
    BY DEF RequestInv
  <1>2. CASE request.rest = <<>>
    BY <1>2 DEF Done
  <1>3. CASE request.rest # <<>>
    <2>1. request' = [request EXCEPT !.step = Head(request.rest), !.rest = Tail(request.rest)]
      BY <1>3 DEF Done
    <2>2. /\ Head(request.rest) \in {"source", "config", "device", "launch", "next"}
          /\ Tail(request.rest) \in {<<>>, <<"launch">>, <<"next">>, <<"config">>,
               <<"config", "launch">>, <<"source", "launch">>, <<"config", "next">>}
      BY <1>1, <1>3, Rests DEF Requests
    <2> QED BY <1>1, <1>3, <2>1, <2>2 DEF Requests
  <1> QED BY <1>2, <1>3

(***************************************************************************)
(* A request that has come to a step is none that is not there.            *)
(***************************************************************************)
LEMMA NotIdle ==
  ASSUME NEW r \in Requests
  PROVE  r # Idle
  BY DEF Requests, Idle

(***************************************************************************)
(* Every step keeps the settings in their types.                           *)
(***************************************************************************)
LEMMA TypesStep ==
  ASSUME SettingTypes, RequestInv, [Next]_vars
  PROVE  SettingTypes'
PROOF
  <1>0. Unset \in Values /\ Sources \subseteq [Cameras -> {"argus", "v4l2"}]
    BY MountsAssumption
  <1>1. CASE \E c \in Cameras : Client(c) \/ wedge(c)
    <2>1. PICK c \in Cameras : Client(c) \/ wedge(c)
      BY <1>1
    <2>2. CASE construct(c)
      BY <2>2 DEF construct, Busy, SettingTypes
    <2>3. CASE on_media_configure(c)
      BY <2>3 DEF on_media_configure, SettingTypes, settings
    <2>4. CASE set_state(c) \/ wedge(c)
      BY <2>4 DEF set_state, wedge, SettingTypes, settings
    <2>5. CASE on_media_unprepared(c)
      BY <1>0, <2>5 DEF on_media_unprepared, SettingTypes
    <2> QED BY <2>1, <2>2, <2>3, <2>4, <2>5 DEF Client
  <1>2. CASE \E c \in Cameras : on_payload_buffer(c)
    BY <1>2 DEF on_payload_buffer, SettingTypes, mount, settings
  <1>3. CASE Request
    <2>1. UNCHANGED <<source, media, known, config, launch>>
      BY <1>3 DEF Request, set_exposure, set_isp, set_trigger, set_control, set_zoom, set_sync, mount
    <2>2. inForce' \in [Cameras -> Values] /\ excused' \in [Cameras -> BOOLEAN]
      <3>1. ASSUME NEW c \in Cameras, NEW v \in Values, set_isp(c, v)
            PROVE  inForce' \in [Cameras -> Values] /\ excused' \in [Cameras -> BOOLEAN]
        BY <3>1 DEF set_isp, SettingTypes
      <3>2. ASSUME NEW c \in Cameras, NEW v \in Values, set_control(c, v)
            PROVE  inForce' \in [Cameras -> Values] /\ excused' \in [Cameras -> BOOLEAN]
        BY <3>2 DEF set_control, SettingTypes
      <3>3. CASE UNCHANGED <<inForce, excused>>
        BY <3>3 DEF SettingTypes
      <3> QED
        BY <1>3, <3>1, <3>2, <3>3 DEF Request, set_exposure, set_trigger, set_zoom, set_sync
    <2> QED BY <2>1, <2>2 DEF SettingTypes
  <1>4. CASE Handler
    <2>1. CASE set_source_property
      <3>1. request \in Requests
        BY <2>1 DEF set_source_property, RequestInv, Idle
      <3> QED BY <2>1, <3>1 DEF set_source_property, SettingTypes, Requests, mount
    <2>2. CASE set_device
      <3>1. request \in Requests
        BY <2>2 DEF set_device, RequestInv, Idle
      <3> QED BY <2>2, <3>1 DEF set_device, SettingTypes, Requests, mount
    <2>3. CASE set_config
      <3>1. request \in Requests
        BY <2>3 DEF set_config, RequestInv, Idle
      <3> QED BY <2>3, <3>1 DEF set_config, SettingTypes, Requests, mount
    <2>4. CASE refresh_launch
      <3>1. request # Idle
        BY <2>4 DEF refresh_launch, Idle
      <3> QED BY <2>4, <3>1, CameraIsOne DEF refresh_launch, SettingTypes, mount
    <2>5. CASE next_camera
      BY <2>5 DEF next_camera, SettingTypes, mount
    <2> QED BY <1>4, <2>1, <2>2, <2>3, <2>4, <2>5 DEF Handler
  <1>5. CASE on_watchdog
    BY <1>5 DEF on_watchdog, SettingTypes, settings
  <1>6. CASE Fresh
    BY <1>0, <1>6 DEF Fresh, SettingTypes
  <1>7. CASE UNCHANGED vars
    BY <1>7 DEF vars, mount, settings, SettingTypes
  <1> QED
    BY <1>1, <1>2, <1>3, <1>4, <1>5, <1>6, <1>7 DEF Next, reload, restart

(***************************************************************************)
(* A request that begins is at its camera, with a handler's first step.    *)
(***************************************************************************)
LEMMA Begins ==
  ASSUME NEW c \in Cameras, NEW v \in Values,
         NEW steps \in {<<"source", "config", "launch">>, <<"config", "launch">>,
                        <<"config", "source", "launch">>, <<"launch">>, <<"device", "config">>},
         Begin(steps, c, v)
  PROVE  /\ request' \in Requests /\ request'.cams = {c} /\ request'.value = v
         /\ request'.step = Head(steps) /\ request'.rest = Tail(steps)
PROOF
  <1>1. /\ Head(steps) \in {"source", "config", "device", "launch", "next"}
        /\ Tail(steps) \in {<<>>, <<"launch">>, <<"next">>, <<"config">>,
             <<"config", "launch">>, <<"source", "launch">>, <<"config", "next">>}
    BY Rests
  <1> QED BY <1>1 DEF Begin, Requests

(***************************************************************************)
(* A step within a handler leads to its next stage, for the same cameras.  *)
(***************************************************************************)
LEMMA AlongStages ==
  ASSUME RequestInv, request # Idle, request' = Done(request), request' # Idle, UNCHANGED source
  PROVE  /\ RequestInv'
         /\ request'.cams = request.cams /\ request'.value = request.value /\ Camera' = Camera
         /\ \/ /\ Stage = <<"source", <<"config", "launch">>>>
               /\ Stage' = <<"config", <<"launch">>>>
            \/ /\ Stage \in {<<"config", <<"launch">>>>, <<"source", <<"launch">>>>}
               /\ Stage' = <<"launch", <<>>>>
            \/ /\ Stage = <<"config", <<"source", "launch">>>>
               /\ Stage' = <<"source", <<"launch">>>>
            \/ Stage = <<"device", <<"config">>>> /\ Stage' = <<"config", <<>>>>
            \/ /\ Stage = <<"device", <<"config", "next">>>>
               /\ Stage' = <<"config", <<"next">>>>
            \/ Stage = <<"config", <<"next">>>> /\ Stage' = <<"next", <<>>>>
PROOF
  <1>1. /\ request.rest # <<>>
        /\ request' \in Requests /\ request'.cams = request.cams /\ request'.value = request.value
        /\ request'.step = Head(request.rest) /\ request'.rest = Tail(request.rest)
    BY Moves
  <1>2. Camera' = Camera
    BY <1>1 DEF Camera
  <1>3. Stage' = <<Head(request.rest), Tail(request.rest)>>
    BY <1>1 DEF Stage
  <1>4. CASE Stage \in ArgusStages
    <2>1. \/ /\ Stage = <<"source", <<"config", "launch">>>>
             /\ Stage' = <<"config", <<"launch">>>>
          \/ /\ Stage \in {<<"config", <<"launch">>>>, <<"source", <<"launch">>>>}
             /\ Stage' = <<"launch", <<>>>>
          \/ /\ Stage = <<"config", <<"source", "launch">>>>
             /\ Stage' = <<"source", <<"launch">>>>
      BY <1>3, <1>4, Rests DEF ArgusStages, Stage
    <2>2. request.cams = {Camera} /\ (Stage' \in ArgusStages \/ Stage' = <<"launch", <<>>>>)
      BY <1>4, <2>1 DEF RequestInv, ArgusStages
    <2>3. (\A c \in request.cams : source[c] = "argus") \/ Stage' = <<"launch", <<>>>>
      BY <1>4, <2>1 DEF RequestInv, ArgusStages, V4l2Stages
    <2> QED BY <1>1, <1>2, <2>1, <2>2, <2>3 DEF RequestInv
  <1>5. CASE Stage \in V4l2Stages
    <2>1. \/ Stage = <<"device", <<"config">>>> /\ Stage' = <<"config", <<>>>>
          \/ /\ Stage = <<"device", <<"config", "next">>>>
             /\ Stage' = <<"config", <<"next">>>>
          \/ Stage = <<"config", <<"next">>>> /\ Stage' = <<"next", <<>>>>
      BY <1>1, <1>3, <1>5, Rests DEF V4l2Stages, Stage
    <2>2. Stage \notin ArgusStages /\ Stage' \notin ArgusStages /\ Stage' \in V4l2Stages
      BY <2>1, Different DEF ArgusStages, V4l2Stages
    <2>3. Stage # <<"launch", <<>>>> /\ request'.step # "launch"
      BY <2>1 DEF Stage
    <2> QED BY <1>1, <1>2, <2>1, <2>2, <2>3 DEF RequestInv
  <1>6. CASE Stage = <<"launch", <<>>>>
    BY <1>1, <1>6 DEF Stage
  <1> QED BY <1>4, <1>5, <1>6 DEF RequestInv

(***************************************************************************)
(* A request in progress stays one of the handlers' until it ends.         *)
(***************************************************************************)
LEMMA RequestStep ==
  ASSUME SettingTypes, RequestInv, [Next]_vars
  PROVE  RequestInv'
PROOF
  <1>1. CASE Request
    <2>0. UNCHANGED source
      BY <1>1 DEF Request, set_exposure, set_isp, set_trigger, set_control, set_zoom, set_sync
    <2>1. ASSUME NEW c \in Cameras, NEW v \in Values,
                 NEW steps \in {<<"source", "config", "launch">>, <<"config", "launch">>,
                                <<"config", "source", "launch">>},
                 Begin(steps, c, v), source[c] = "argus"
          PROVE  RequestInv'
      <3>1. /\ request' \in Requests /\ request'.cams = {c}
            /\ <<request'.step, request'.rest>> \in ArgusStages
        BY <2>1, Begins, Rests DEF ArgusStages
      <3>2. Camera' = c
        BY <3>1, CameraOfRequest, MountsAssumption DEF Camera
      <3> QED BY <2>0, <2>1, <3>1, <3>2 DEF RequestInv, Stage
    <2>2. ASSUME NEW c \in Cameras, Begin(<<"launch">>, c, config[c])
          PROVE  RequestInv'
      <3>1. config[c] \in Values
        BY DEF SettingTypes
      <3>2. /\ request' \in Requests /\ request'.cams = {c}
            /\ request'.step = "launch" /\ request'.rest = <<>>
        BY <2>2, <3>1, Begins, Rests
      <3>3. Camera' = c
        BY <3>2, CameraOfRequest, MountsAssumption DEF Camera
      <3> QED BY <3>2, <3>3 DEF RequestInv, Stage
    <2>3. ASSUME NEW c \in Cameras, NEW v \in Values, Begin(<<"device", "config">>, c, v),
                 source[c] = "v4l2"
          PROVE  RequestInv'
      <3>1. /\ request' \in Requests /\ request'.cams = {c}
            /\ request'.step = "device" /\ request'.rest = <<"config">>
        BY <2>3, Begins, Rests
      <3>2. <<request'.step, request'.rest>> \in V4l2Stages
        BY <3>1 DEF V4l2Stages
      <3>3. <<request'.step, request'.rest>> \notin ArgusStages
        BY <3>1 DEF ArgusStages
      <3> QED BY <2>0, <2>3, <3>1, <3>2, <3>3 DEF RequestInv, Stage
    <2>4. ASSUME NEW v \in Values, set_sync(v)
          PROVE  RequestInv'
      <3>1. /\ request' \in Requests /\ request'.cams = Cameras
            /\ request'.step = "device" /\ request'.rest = <<"config", "next">>
        BY <2>4, MountsAssumption DEF set_sync, Requests
      <3>2. <<request'.step, request'.rest>> \in V4l2Stages
        BY <3>1 DEF V4l2Stages
      <3>3. <<request'.step, request'.rest>> \notin ArgusStages
        BY <3>1 DEF ArgusStages
      <3>4. \A c \in Cameras : source'[c] = "v4l2"
        BY <2>0, <2>4 DEF set_sync
      <3> QED BY <3>1, <3>2, <3>3, <3>4 DEF RequestInv, Stage
    <2>5. ASSUME NEW c \in Cameras, NEW v \in Values, set_control(c, v)
          PROVE  RequestInv'
      BY <2>0, <2>5 DEF set_control, Ask, RequestInv
    <2> QED
      BY <1>1, <2>1, <2>2, <2>3, <2>4, <2>5 DEF Request, set_exposure, set_isp, set_trigger, set_zoom
  <1>2. CASE set_source_property \/ set_config \/ refresh_launch
    <2>1. /\ request # Idle /\ request' = Done(request) /\ UNCHANGED source
          /\ request.step \in {"source", "config", "launch"}
      BY <1>2 DEF set_source_property, set_config, refresh_launch, Idle
    <2>2. CASE request' = Idle
      BY <2>2 DEF RequestInv
    <2>3. CASE request' # Idle
      BY <2>1, <2>3, AlongStages
    <2> QED BY <2>2, <2>3
  <1>3. CASE set_device
    <2>1. request # Idle /\ UNCHANGED source /\ request.step = "device"
      BY <1>3 DEF set_device, Idle
    <2>2. CASE request' = Idle
      BY <2>2 DEF RequestInv
    <2>3. CASE request' # Idle
      BY <1>3, <2>1, <2>3, AlongStages DEF set_device
    <2> QED BY <2>2, <2>3
  <1>4. CASE next_camera
    <2>1. request # Idle /\ UNCHANGED source /\ request.step = "next"
      BY <1>4 DEF next_camera, Idle
    <2>2. CASE request' = Idle
      BY <2>2 DEF RequestInv
    <2>3. CASE request' # Idle
      <3>1. request \in Requests /\ request.cams # {Camera}
        BY <1>4, <2>1, <2>3 DEF next_camera, RequestInv
      <3>2. \A c \in request.cams : source[c] = "v4l2"
        <4>1. Stage \notin ArgusStages /\ Stage # <<"launch", <<>>>>
          BY <2>1 DEF Stage, ArgusStages
        <4> QED BY <2>1, <4>1 DEF RequestInv
      <3>3. request.cams \ {Camera} \in (SUBSET Cameras) \ {{}}
        BY <2>1, <3>1, CameraIsOne DEF Requests
      <3>4. request' = [request EXCEPT !.cams = @ \ {Camera}, !.step = "device",
                                       !.rest = <<"config", "next">>]
        BY <1>4, <3>1 DEF next_camera
      <3>5. /\ request' \in Requests /\ request'.cams = request.cams \ {Camera}
            /\ request'.step = "device" /\ request'.rest = <<"config", "next">>
        BY <3>1, <3>3, <3>4 DEF Requests
      <3>6. <<request'.step, request'.rest>> \in V4l2Stages
        BY <3>5 DEF V4l2Stages
      <3>7. <<request'.step, request'.rest>> \notin ArgusStages
        BY <3>5 DEF ArgusStages
      <3> QED BY <2>1, <3>2, <3>5, <3>6, <3>7 DEF RequestInv, Stage
    <2> QED BY <2>2, <2>3
  <1>5. CASE Fresh
    BY <1>5 DEF Fresh, RequestInv
  <1>6. CASE UNCHANGED <<request, source>>
    BY <1>6 DEF RequestInv, Stage, Camera
  <1>7. CASE \E c \in Cameras : Client(c) \/ wedge(c) \/ on_payload_buffer(c)
    BY <1>6, <1>7 DEF Client, construct, on_media_configure, set_state, on_media_unprepared, wedge,
                on_payload_buffer, settings
  <1>8. CASE on_watchdog \/ UNCHANGED vars
    BY <1>6, <1>8 DEF on_watchdog, vars, settings
  <1> QED
    BY <1>1, <1>2, <1>3, <1>4, <1>5, <1>7, <1>8 DEF Next, Handler, reload, restart

(***************************************************************************)
(* A camera that a step neither reaches nor is at keeps its settings.      *)
(***************************************************************************)
LEMMA Untouched ==
  ASSUME NEW c \in Cameras, Setting(c), ~At(c), ~At(c)',
         source'[c] = source[c], launch'[c] = launch[c], config'[c] = config[c],
         Tracked(c)' => Tracked(c) /\ inForce'[c] = inForce[c]
  PROVE  Setting(c)'
  BY DEF Setting

(***************************************************************************)
(* Nor does a step outside the handlers, which the request does not see:   *)
(* what it begins to track is what it has just set.                        *)
(***************************************************************************)
LEMMA Aside ==
  ASSUME NEW c \in Cameras, Setting(c), UNCHANGED <<request, source, launch, config>>,
         Tracked(c)' => \/ Tracked(c) /\ inForce'[c] = inForce[c]
                        \/ ~At(c) /\ inForce'[c] = config[c]
  PROVE  Setting(c)'
PROOF
  <1>1. (At(c)' <=> At(c)) /\ Stage' = Stage
    BY DEF At, Camera, Stage
  <1> QED BY <1>1 DEF Setting

(***************************************************************************)
(* The client thread builds a pipeline from the launch string.             *)
(***************************************************************************)
LEMMA ClientKeeps ==
  ASSUME SettingTypes, RequestInv, SettingInv, NEW d \in Cameras, Client(d) \/ wedge(d)
  PROVE  SettingInv'
PROOF
  <1> SUFFICES ASSUME NEW c \in Cameras
               PROVE  Setting(c)'
    BY DEF SettingInv
  <1>0. Setting(c) /\ UNCHANGED <<request, source, launch, config>>
    BY DEF SettingInv, Client, construct, on_media_configure, set_state, on_media_unprepared,
           wedge, settings
  <1>1. CASE construct(d)
    <2>1. CASE c = d /\ source[d] = "argus"
      <3>1. inForce'[c] = launch[c] /\ excused'[c] = Busy(c)
        BY <1>1, <2>1 DEF construct, SettingTypes
      <3>2. At(c) => Busy(c)
        BY CameraIsOne DEF At, Busy, RequestInv, Requests
      <3>3. Tracked(c)' => ~At(c) /\ inForce'[c] = config[c]
        BY <1>0, <2>1, <3>1, <3>2 DEF Tracked, Setting
      <3> QED BY <1>0, <3>3, Aside
    <2>2. CASE ~(c = d /\ source[d] = "argus")
      <3>1. /\ inForce'[c] = inForce[c] /\ excused'[c] = excused[c] /\ known'[c] = known[c]
            /\ source[c] # "v4l2" => media'[c] = media[c]
        BY <1>1, <2>2 DEF construct, SettingTypes
      <3>2. Tracked(c)' => Tracked(c)
        BY <1>0, <3>1 DEF Tracked
      <3> QED BY <1>0, <3>1, <3>2, Aside
    <2> QED BY <2>1, <2>2
  <1>2. CASE on_media_configure(d)
    <2>1. UNCHANGED <<inForce, excused>>
      BY <1>2 DEF on_media_configure, settings
    <2>2. Tracked(c)' => Tracked(c)
      BY <1>0, <1>2, <2>1 DEF on_media_configure, Tracked, SettingTypes
    <2> QED BY <1>0, <2>1, <2>2, Aside
  <1>3. CASE set_state(d) \/ wedge(d)
    <2>1. UNCHANGED <<inForce, excused, known>>
      BY <1>3 DEF set_state, wedge, settings
    <2>2. media'[c] = "built" => media[c] = "built"
      BY <1>3 DEF set_state, wedge, SettingTypes
    <2>3. Tracked(c)' => Tracked(c)
      BY <1>0, <2>1, <2>2 DEF Tracked
    <2> QED BY <1>0, <2>1, <2>3, Aside
  <1>4. CASE on_media_unprepared(d)
    <2>1. CASE c = d /\ source[d] = "argus"
      <3>1. ~known'[c] /\ media'[c] = "none"
        BY <1>4, <2>1 DEF on_media_unprepared, SettingTypes
      <3>2. ~Tracked(c)'
        BY <1>0, <2>1, <3>1 DEF Tracked
      <3> QED BY <1>0, <3>2, Aside
    <2>2. CASE ~(c = d /\ source[d] = "argus")
      <3>1. /\ inForce'[c] = inForce[c] /\ excused'[c] = excused[c]
            /\ source[c] # "v4l2" => known'[c] = known[c] /\ media'[c] = media[c]
        BY <1>4, <2>2 DEF on_media_unprepared, SettingTypes
      <3>2. Tracked(c)' => Tracked(c)
        BY <1>0, <3>1 DEF Tracked, SettingTypes
      <3> QED BY <1>0, <3>1, <3>2, Aside
    <2> QED BY <2>1, <2>2
  <1> QED BY <1>1, <1>2, <1>3, <1>4 DEF Client

(***************************************************************************)
(* A request that begins finds its camera settled.                         *)
(***************************************************************************)
LEMMA BeginKeeps ==
  ASSUME SettingTypes, RequestInv, SettingInv, RequestInv', Request
  PROVE  SettingInv'
PROOF
  <1> SUFFICES ASSUME NEW c \in Cameras
               PROVE  Setting(c)'
    BY DEF SettingInv
  <1>0. /\ request = Idle /\ UNCHANGED <<source, media, known, launch, config>>
        /\ ~At(c)
        /\ source[c] = "argus" => launch[c] = config[c]
    BY DEF SettingInv, Setting, Request, set_exposure, set_isp, set_trigger, set_control, set_zoom,
           set_sync, Ask, At, mount
  <1>1. Tracked(c) => inForce[c] = config[c]
    BY <1>0 DEF SettingInv, Setting
  <1>2. ASSUME NEW d \in Cameras, NEW v \in Values, set_control(d, v)
        PROVE  Setting(c)'
    <2>1. request' = Idle /\ ~At(c)'
      BY <1>0, <1>2 DEF set_control, At
    <2>2. Tracked(c)' => inForce'[c] = config[c]
      <3>1. CASE c = d
        <4>1. inForce'[c] = v /\ excused'[c] = (excused[c] \/ v # config[c])
          BY <1>2, <3>1 DEF set_control, SettingTypes
        <4> QED BY <4>1 DEF Tracked
      <3>2. CASE c # d
        <4>1. inForce'[c] = inForce[c] /\ excused'[c] = excused[c]
          BY <1>2, <3>2 DEF set_control, SettingTypes
        <4> QED BY <1>0, <1>1, <4>1 DEF Tracked
      <3> QED BY <3>1, <3>2
    <2> QED BY <1>0, <2>1, <2>2 DEF Setting
  <1>3. ASSUME UNCHANGED inForce, Tracked(c)' => Tracked(c),
               At(c)' => \/ Stage' \in {<<"source", <<"config", "launch">>>>,
                                        <<"config", <<"source", "launch">>>>,
                                        <<"device", <<"config">>>>,
                                        <<"device", <<"config", "next">>>>}
                         \/ Stage' = <<"config", <<"launch">>>> /\ ~Tracked(c)'
                         \/ Stage' = <<"launch", <<>>>> /\ request'.value = config[c]
        PROVE  Setting(c)'
    BY <1>0, <1>1, <1>3, StageTable DEF Setting
  <1>4. ASSUME NEW d \in Cameras, NEW v \in Values, set_exposure(d, v) \/ set_trigger(d, v)
        PROVE  Setting(c)'
    <2>1. UNCHANGED <<inForce, excused>>
      BY <1>4 DEF set_exposure, set_trigger
    <2>2. Stage' \in {<<"source", <<"config", "launch">>>>, <<"device", <<"config">>>>}
      BY <1>4, Begins, Rests DEF set_exposure, set_trigger, Stage
    <2>3. Tracked(c)' => Tracked(c)
      BY <1>0, <2>1 DEF Tracked
    <2> QED BY <1>3, <2>1, <2>2, <2>3
  <1>5. ASSUME NEW d \in Cameras, NEW v \in Values, set_isp(d, v)
        PROVE  Setting(c)'
    <2>1. UNCHANGED inForce /\ excused'[c] = (excused[c] \/ (c = d /\ v = Unset))
      BY <1>5 DEF set_isp, SettingTypes
    <2>2. Tracked(c)' => Tracked(c)
      BY <1>0, <2>1 DEF Tracked
    <2>3. CASE v = Unset
      <3>1. /\ Stage' = <<"config", <<"launch">>>>
            /\ request' \in Requests /\ request'.cams = {d}
        BY <1>5, <2>3, Begins, Rests DEF set_isp, Stage
      <3>2. At(c)' => c = d
        BY <3>1, NotIdle, CameraOfRequest, MountsAssumption DEF At, Camera
      <3>3. At(c)' => ~Tracked(c)'
        BY <2>1, <2>3, <3>2 DEF Tracked
      <3> QED BY <1>3, <2>1, <2>2, <3>1, <3>3
    <2>4. CASE v # Unset
      <3>1. Stage' = <<"config", <<"source", "launch">>>>
        BY <1>5, <2>4, Begins, Rests DEF set_isp, Stage
      <3> QED BY <1>3, <2>1, <2>2, <3>1
    <2> QED BY <2>3, <2>4
  <1>6. ASSUME NEW d \in Cameras, set_zoom(d)
        PROVE  Setting(c)'
    <2>1. UNCHANGED <<inForce, excused>>
      BY <1>6 DEF set_zoom
    <2>2. Tracked(c)' => Tracked(c)
      BY <1>0, <2>1 DEF Tracked
    <2>3. config[d] \in Values
      BY DEF SettingTypes
    <2>4. /\ Stage' = <<"launch", <<>>>> /\ request' \in Requests /\ request'.cams = {d}
          /\ request'.value = config[d]
      BY <1>6, <2>3, Begins, Rests DEF set_zoom, Stage
    <2>5. At(c)' => c = d
      BY <2>4, NotIdle, CameraOfRequest, MountsAssumption DEF At, Camera
    <2> QED BY <1>3, <2>1, <2>2, <2>4, <2>5
  <1>7. ASSUME NEW v \in Values, set_sync(v)
        PROVE  Setting(c)'
    <2>1. UNCHANGED <<inForce, excused>>
      BY <1>7 DEF set_sync
    <2>2. Tracked(c)' => Tracked(c)
      BY <1>0, <2>1 DEF Tracked
    <2>3. Stage' = <<"device", <<"config", "next">>>>
      BY <1>7 DEF set_sync, Stage
    <2> QED BY <1>3, <2>1, <2>2, <2>3
  <1> QED BY <1>2, <1>4, <1>5, <1>6, <1>7 DEF Request

(***************************************************************************)
(* The stages a request can be at with its next step, and what ends it.    *)
(***************************************************************************)
LEMMA StageOfStep ==
  ASSUME RequestInv, request # Idle
  PROVE  /\ request.step = "source" =>
              /\ source[Camera] = "argus"
              /\ Stage \in {<<"source", <<"config", "launch">>>>, <<"source", <<"launch">>>>}
         /\ request.step = "config" =>
              \/ /\ source[Camera] = "argus"
                 /\ Stage \in {<<"config", <<"launch">>>>, <<"config", <<"source", "launch">>>>}
              \/ /\ source[Camera] = "v4l2"
                 /\ Stage \in {<<"config", <<>>>>, <<"config", <<"next">>>>}
         /\ request.step = "device" =>
              /\ source[Camera] = "v4l2"
              /\ Stage \in {<<"device", <<"config">>>>, <<"device", <<"config", "next">>>>}
         /\ request.step = "launch" => Stage = <<"launch", <<>>>>
         /\ request.step = "next" =>
              Stage = <<"next", <<>>>> /\ \A c \in request.cams : source[c] = "v4l2"
PROOF
  <1>1. Camera \in request.cams
    BY CameraIsOne
  <1>2. CASE Stage \in ArgusStages /\ \A c \in request.cams : source[c] = "argus"
    BY <1>1, <1>2 DEF ArgusStages, Stage
  <1>3. CASE Stage \in V4l2Stages /\ \A c \in request.cams : source[c] = "v4l2"
    BY <1>1, <1>3 DEF V4l2Stages, Stage
  <1>4. CASE Stage = <<"launch", <<>>>>
    BY <1>4 DEF Stage
  <1> QED BY <1>2, <1>3, <1>4 DEF RequestInv

(***************************************************************************)
(* After Done() the request has ended, or is at the same camera.           *)
(***************************************************************************)
LEMMA AfterDone ==
  ASSUME RequestInv, request # Idle, request' = Done(request), UNCHANGED source
  PROVE  /\ request' = Idle \/ (request' # Idle /\ Camera' = Camera /\ request'.value = request.value)
         /\ \/ request' = Idle
            \/ /\ Stage = <<"source", <<"config", "launch">>>>
               /\ Stage' = <<"config", <<"launch">>>>
            \/ /\ Stage \in {<<"config", <<"launch">>>>, <<"source", <<"launch">>>>}
               /\ Stage' = <<"launch", <<>>>>
            \/ /\ Stage = <<"config", <<"source", "launch">>>>
               /\ Stage' = <<"source", <<"launch">>>>
            \/ Stage = <<"device", <<"config">>>> /\ Stage' = <<"config", <<>>>>
            \/ /\ Stage = <<"device", <<"config", "next">>>>
               /\ Stage' = <<"config", <<"next">>>>
            \/ Stage = <<"config", <<"next">>>> /\ Stage' = <<"next", <<>>>>
         /\ request' = Idle => request.rest = <<>>
PROOF
  <1>1. request' = Idle => request.rest = <<>>
    BY Moves, NotIdle
  <1> QED BY <1>1, AlongStages

(***************************************************************************)
(* A step of a handler moves its camera's copies as the stage says.        *)
(***************************************************************************)
LEMMA HandlerKeeps ==
  ASSUME SettingTypes, RequestInv, SettingInv, Handler
  PROVE  SettingInv'
PROOF
  <1> SUFFICES ASSUME NEW c \in Cameras
               PROVE  Setting(c)'
    BY DEF SettingInv
  <1>0. /\ Setting(c) /\ request # Idle /\ UNCHANGED <<source, media, known>>
        /\ Camera \in Cameras
    BY CameraIsOne DEF SettingInv, Handler, set_source_property, set_device, set_config,
       refresh_launch, next_camera, Idle, mount
  <1>1. CASE next_camera
    <2>1. /\ Stage = <<"next", <<>>>> /\ UNCHANGED <<config, launch, inForce, excused>>
          /\ \A d \in request.cams : source[d] = "v4l2"
      BY <1>0, <1>1, StageOfStep DEF next_camera
    <2>2. Tracked(c)' => Tracked(c)
      BY <1>0, <2>1 DEF Tracked
    <2>3. /\ Tracked(c) => inForce[c] = config[c]
          /\ source[c] = "argus" => launch[c] = config[c]
      BY <1>0, <2>1, StageTable DEF Setting
    <2>4. request' # Idle => Stage' = <<"device", <<"config", "next">>>>
      <3>1. request \in Requests
        BY <1>0 DEF RequestInv
      <3> QED BY <1>1, <3>1 DEF next_camera, Requests, Stage
    <2> QED BY <1>0, <2>1, <2>2, <2>3, <2>4, StageTable DEF Setting, At
  <1>2. ASSUME ~next_camera, c # Camera
        PROVE  Setting(c)'
    <2>1. /\ config'[c] = config[c] /\ launch'[c] = launch[c] /\ inForce'[c] = inForce[c]
          /\ excused'[c] = excused[c]
      BY <1>2 DEF Handler, set_source_property, set_device, set_config, refresh_launch, SettingTypes
    <2>2. request' = Idle \/ request' = Done(request)
      BY <1>2 DEF Handler, set_source_property, set_device, set_config, refresh_launch
    <2>3. ~At(c) /\ ~At(c)'
      BY <1>0, <1>2, <2>2, AfterDone DEF At
    <2>4. Tracked(c)' => Tracked(c)
      BY <1>0, <2>1 DEF Tracked
    <2> QED BY <1>0, <2>1, <2>3, <2>4, Untouched
  <1>3. ASSUME c = Camera
        PROVE  At(c) /\ (At(c)' => request' # Idle) /\ (request' = Idle => ~At(c)')
    BY <1>0, <1>3 DEF At
  <1>4. CASE set_source_property /\ c = Camera
    <2>1. /\ UNCHANGED <<config, launch>> /\ request' = Done(request)
          /\ request.step = "source"
          /\ inForce'[c] = (IF known[c] THEN request.value ELSE inForce[c])
          /\ excused'[c] = (excused[c] \/ media[c] = "built")
      BY <1>4 DEF set_source_property, SettingTypes
    <2>2. source[c] = "argus"
      BY <1>0, <1>4, <2>1, StageOfStep
    <2>3. Tracked(c)' => Tracked(c) /\ inForce'[c] = request.value
      BY <1>0, <2>1, <2>2 DEF Tracked
    <2>4. request' # Idle /\ Camera' = Camera /\ request'.value = request.value
      BY <1>0, <2>1, AfterDone, StageOfStep, Different DEF Stage
    <2>5. CASE Stage = <<"source", <<"config", "launch">>>>
      <3>1. Stage' = <<"config", <<"launch">>>>
        BY <1>0, <2>1, <2>4, <2>5, AfterDone
      <3>2. launch[c] = config[c]
        BY <1>0, <1>3, <1>4, <2>2, <2>5, StageTable DEF Setting
      <3> QED BY <1>3, <1>4, <2>1, <2>3, <2>4, <3>1, <3>2, StageTable DEF Setting, At
    <2>6. CASE Stage = <<"source", <<"launch">>>>
      <3>1. Stage' = <<"launch", <<>>>>
        BY <1>0, <2>1, <2>4, <2>6, AfterDone
      <3>2. config[c] = request.value
        BY <1>0, <1>3, <1>4, <2>6, StageTable DEF Setting
      <3> QED BY <1>3, <1>4, <2>1, <2>3, <2>4, <3>1, <3>2, StageTable DEF Setting, At
    <2> QED BY <1>0, <2>1, <2>5, <2>6, StageOfStep
  <1>5. CASE set_config /\ c = Camera
    <2>1. /\ UNCHANGED <<launch, inForce, excused>> /\ request' = Done(request)
          /\ request.step = "config" /\ config'[c] = request.value
      BY <1>5 DEF set_config, SettingTypes
    <2>2. Tracked(c)' => Tracked(c)
      BY <1>0, <2>1 DEF Tracked
    <2>3. CASE source[c] = "argus" /\ Stage = <<"config", <<"launch">>>>
      <3>1. request' # Idle /\ Camera' = Camera /\ request'.value = request.value
        BY <1>0, <2>1, <2>3, AfterDone, Different DEF Stage
      <3>2. Stage' = <<"launch", <<>>>>
        BY <1>0, <2>1, <2>3, <3>1, AfterDone
      <3>3. Tracked(c) => inForce[c] = request.value
        BY <1>0, <1>3, <1>5, <2>3, StageTable DEF Setting
      <3> QED BY <1>3, <1>5, <2>1, <2>2, <3>1, <3>2, <3>3, StageTable DEF Setting, At
    <2>4. CASE source[c] = "argus" /\ Stage = <<"config", <<"source", "launch">>>>
      <3>1. request' # Idle /\ Camera' = Camera /\ request'.value = request.value
        BY <1>0, <2>1, <2>4, AfterDone, Different DEF Stage
      <3>2. Stage' = <<"source", <<"launch">>>>
        BY <1>0, <2>1, <2>4, <3>1, AfterDone
      <3> QED BY <1>3, <1>5, <2>1, <3>1, <3>2, StageTable DEF Setting, At
    <2>5. CASE source[c] = "v4l2" /\ Stage \in {<<"config", <<>>>>, <<"config", <<"next">>>>}
      <3>1. Tracked(c) => inForce[c] = request.value
        BY <1>0, <1>3, <1>5, <2>5, StageTable DEF Setting
      <3>2. request' # Idle => /\ Stage' = <<"next", <<>>>> /\ Camera' = Camera
        BY <1>0, <2>1, <2>5, AfterDone, Different DEF Stage
      <3>3. source'[c] # "argus"
        BY <1>0, <2>5
      <3> QED BY <1>3, <1>5, <2>1, <2>2, <3>1, <3>2, <3>3, StageTable DEF Setting, At
    <2> QED BY <1>0, <1>5, <2>1, <2>3, <2>4, <2>5, StageOfStep
  <1>6. CASE refresh_launch /\ c = Camera
    <2>1. /\ UNCHANGED <<config, inForce, excused>> /\ request' = Done(request)
          /\ request.step = "launch"
          /\ source[c] = "argus" => launch'[c] = config[c]
      BY <1>6 DEF refresh_launch, SettingTypes
    <2>2. Stage = <<"launch", <<>>>>
      BY <1>0, <2>1, StageOfStep
    <2>3. request' = Idle
      BY <2>1, <2>2 DEF Stage, Done
    <2>4. Tracked(c)' => inForce[c] = config[c]
      BY <1>0, <1>3, <1>6, <2>1, <2>2, StageTable DEF Setting, Tracked
    <2> QED BY <1>0, <1>3, <1>6, <2>1, <2>3, <2>4 DEF Setting
  <1>7. CASE set_device /\ c = Camera
    <2>1. /\ UNCHANGED <<config, launch>> /\ request.step = "device"
      BY <1>7 DEF set_device
    <2>2. /\ source[c] = "v4l2"
          /\ Stage \in {<<"device", <<"config">>>>, <<"device", <<"config", "next">>>>}
      BY <1>0, <1>7, <2>1, StageOfStep
    <2>3. CASE request' = Idle /\ UNCHANGED <<inForce, excused>>
      <3>1. Tracked(c) => inForce[c] = config[c]
        BY <1>0, <1>3, <1>7, <2>2, StageTable DEF Setting
      <3>2. Tracked(c)' => Tracked(c)
        BY <1>0, <2>3 DEF Tracked
      <3> QED BY <1>0, <1>3, <1>7, <2>1, <2>2, <2>3, <3>1, <3>2 DEF Setting
    <2>4. CASE request' = Done(request) /\ inForce' = [inForce EXCEPT ![Camera] = request.value]
      <3>1. inForce'[c] = request.value
        BY <1>7, <2>4 DEF SettingTypes
      <3>2. request' # Idle /\ Camera' = Camera /\ request'.value = request.value
        BY <1>0, <2>2, <2>4, AfterDone, Different DEF Stage
      <3>3. Stage' \in {<<"config", <<>>>>, <<"config", <<"next">>>>}
        BY <1>0, <2>2, <2>4, <3>2, AfterDone
      <3>4. source'[c] # "argus"
        BY <1>0, <2>2
      <3> QED BY <1>3, <1>7, <3>1, <3>2, <3>3, <3>4, StageTable DEF Setting, At
    <2> QED BY <1>7, <2>3, <2>4 DEF set_device
  <1> QED BY <1>1, <1>2, <1>4, <1>5, <1>6, <1>7 DEF Handler

(***************************************************************************)
(* The watchdog and the frames leave the settings alone.                   *)
(***************************************************************************)
LEMMA LoopKeeps ==
  ASSUME SettingInv, on_watchdog \/ (\E d \in Cameras : on_payload_buffer(d)) \/ UNCHANGED vars
  PROVE  SettingInv'
PROOF
  <1> SUFFICES ASSUME NEW c \in Cameras
               PROVE  Setting(c)'
    BY DEF SettingInv
  <1>1. Setting(c) /\ UNCHANGED <<request, source, launch, config, inForce, excused, media>>
    BY DEF SettingInv, on_watchdog, on_payload_buffer, vars, mount, settings
  <1>2. known'[c] => known[c]
    BY DEF on_watchdog, on_payload_buffer, vars, mount
  <1>3. Tracked(c)' => Tracked(c) /\ inForce'[c] = inForce[c]
    BY <1>1, <1>2 DEF Tracked
  <1> QED BY <1>1, <1>3, Aside

(***************************************************************************)
(* A server that starts knows what it set: nothing, or an excuse.          *)
(***************************************************************************)
LEMMA FreshKeeps ==
  ASSUME Fresh
  PROVE  SettingInv'
PROOF
  <1> SUFFICES ASSUME NEW c \in Cameras
               PROVE  Setting(c)'
    BY DEF SettingInv
  <1>1. request' = Idle /\ config'[c] = Unset /\ launch'[c] = Unset
    BY DEF Fresh
  <1>2. excused'[c] = (inForce'[c] # Unset)
    BY DEF Fresh
  <1> QED BY <1>1, <1>2 DEF Setting, Tracked, At

(***************************************************************************)
(* THEOREM: between two requests, what the configuration says of a camera  *)
(* is what its next pipeline is built with and what its pipeline or device *)
(* was set to, however the client thread's steps fell between those of the *)
(* handlers (RtspServer.cpp, ControlServer's handlers, MountController).   *)
(***************************************************************************)
THEOREM SettingsStay == Spec => []SettingsAreInForce
PROOF
<1>1. Init => SettingTypes /\ RequestInv /\ SettingInv
  <2> SUFFICES ASSUME Init
               PROVE  SettingTypes /\ RequestInv /\ SettingInv
    OBVIOUS
  <2>1. SettingTypes /\ RequestInv
    BY MountsAssumption DEF Init, SettingTypes, RequestInv
  <2>2. \A c \in Cameras : Setting(c)
    BY DEF Init, Setting, Tracked, At
  <2> QED BY <2>1, <2>2 DEF SettingInv
<1>2. SettingTypes /\ RequestInv /\ SettingInv /\ [Next]_vars
        => (SettingTypes /\ RequestInv /\ SettingInv)'
  <2> SUFFICES ASSUME SettingTypes, RequestInv, SettingInv, [Next]_vars
               PROVE  SettingTypes' /\ RequestInv' /\ SettingInv'
    OBVIOUS
  <2>1. SettingTypes' /\ RequestInv'
    BY TypesStep, RequestStep
  <2>2. SettingInv'
    <3>1. CASE \E d \in Cameras : Client(d) \/ wedge(d)
      BY <3>1, ClientKeeps
    <3>2. CASE Request
      BY <2>1, <3>2, BeginKeeps
    <3>3. CASE Handler
      BY <3>3, HandlerKeeps
    <3>4. CASE Fresh
      BY <3>4, FreshKeeps
    <3>5. CASE on_watchdog \/ (\E d \in Cameras : on_payload_buffer(d)) \/ UNCHANGED vars
      BY <3>5, LoopKeeps
    <3> QED BY <3>1, <3>2, <3>3, <3>4, <3>5 DEF Next, reload, restart
  <2> QED BY <2>1, <2>2
<1>3. SettingTypes /\ SettingInv => SettingsAreInForce
  <2> SUFFICES ASSUME SettingTypes, SettingInv, NEW c \in Cameras, request = Idle
               PROVE  /\ source[c] = "argus" => launch[c] = config[c]
                      /\ ~excused[c] /\ (known[c] \/ source[c] = "v4l2") => inForce[c] = config[c]
    BY DEF SettingsAreInForce
  <2>1. Setting(c) /\ ~At(c)
    BY DEF SettingInv, At
  <2> QED BY <2>1 DEF Setting, Tracked
<1> QED BY <1>1, <1>2, <1>3, PTL DEF Spec
=============================================================================
