------------------------- MODULE SecureUsbServerProofs -------------------------
(***************************************************************************)
(* Proofs about SecureUsbServer: for any number of cameras, of sessions    *)
(* and of items the host sends, and wherever stop(), a ClientHello or the  *)
(* endpoints' end falls, the threads there are belong to the session that  *)
(* is being served, and so does the record in the endpoint.                *)
(***************************************************************************)
EXTENDS SecureUsbServer, SequenceTheorems, TLAPS

(***************************************************************************)
(* Part of a sequence of items is one too.                                 *)
(***************************************************************************)
LEMMA Pieces ==
  ASSUME NEW q \in Seq(Item)
  PROVE  /\ q # <<>> => Head(q) \in Item /\ Tail(q) \in Seq(Item)
         /\ \A n \in 1 .. Len(q) :
              SubSeq(q, 1, n) \in Seq(Item) /\ SubSeq(q, n + 1, Len(q)) \in Seq(Item)
PROOF
  <1>1. q # <<>> => Head(q) \in Item /\ Tail(q) \in Seq(Item)
    BY HeadTailProperties
  <1>2. ASSUME NEW n \in 1 .. Len(q)
        PROVE  SubSeq(q, 1, n) \in Seq(Item) /\ SubSeq(q, n + 1, Len(q)) \in Seq(Item)
    <2>1. \A i \in 1 .. Len(q) : q[i] \in Item
      BY ElementOfSeq
    <2>2. Len(q) \in Nat
      BY LenProperties
    <2>3. SubSeq(q, 1, n) \in Seq(Item)
      BY <2>1, <2>2, SubSeqProperties
    <2>4. SubSeq(q, n + 1, Len(q)) \in Seq(Item)
      BY <2>1, <2>2, SubSeqProperties
    <2> QED BY <2>3, <2>4
  <1> QED BY <1>1, <1>2

(***************************************************************************)
(* What the items of the stream are about: a ClientHello names a session.  *)
(***************************************************************************)
LEMMA ItemIds == \A i \in Item : i.id \in Sessions \cup {NoSession}
  BY DEF Item

(***************************************************************************)
(* TypeOK holds at the start.                                              *)
(***************************************************************************)
LEMMA InitTypes == Init => TypeOK
PROOF
<1> SUFFICES ASSUME Init
             PROVE  TypeOK
  OBVIOUS
<1>1. /\ [t \in Helpers |-> "none"] \in [Helpers -> {"none", "up", "done"}]
      /\ <<>> \in Seq(Item)
  OBVIOUS
<1>2. /\ helper \in [Sessions -> [Helpers -> {"none", "up", "done"}]]
      /\ writer \in [Sessions -> WriterPCs] /\ stream \in Seq(Item) /\ arriving \in Seq(Item)
  BY <1>1 DEF Init, WriterPCs
<1> QED BY <1>2 DEF Init, TypeOK, MainStates, WorkerPCs

(***************************************************************************)
(* TypeOK is kept by every step.                                           *)
(***************************************************************************)
LEMMA TypeStep ==
  ASSUME TypeOK, [Next]_vars
  PROVE  TypeOK'
PROOF
  <1> USE ConstantsAssumption DEF TypeOK
  <1>1. ASSUME \/ RunJob \/ BeginStop \/ StopReturns
        PROVE  TypeOK'
    BY <1>1 DEF RunJob, BeginStop, StopReturns, MainStates, workVars, sessVars, hostVars
  <1>2. CASE SignalWorker
    BY <1>2 DEF SignalWorker, MainStates, WorkerPCs, hostVars
  <1>3. CASE SignalWriter
    BY <1>3 DEF SignalWriter, WriterPCs, mainVars, workVars, hostVars
  <1>4. CASE WriterSignalled
    BY <1>4 DEF WriterSignalled, WorkerPCs, mainVars, hostVars
  <1>5. CASE Join
    BY <1>5 DEF Join, WorkerPCs, mainVars, hostVars
  <1>6. CASE WorkerStarts \/ CreateGadget \/ FrameNothing \/ Respond
    BY <1>6 DEF WorkerStarts, CreateGadget, FrameNothing, Respond, WorkerPCs, mainVars, sessVars,
                hostVars
  <1>7. CASE OpenEndpoints
    <2>1. stream' \in Seq(Item) /\ worker' \in WorkerPCs
      BY <1>7 DEF OpenEndpoints, WorkerPCs
    <2> QED BY <1>7, <2>1 DEF OpenEndpoints, mainVars, sessVars, hostVars
  <1>8. ASSUME NEW next \in {"open", "check", "respond"}, EndSession(next)
        PROVE  /\ worker' \in WorkerPCs /\ after' \in {"open", "check", "respond"}
               /\ dead' \in [Sessions -> BOOLEAN] /\ update' \in BOOLEAN
    BY <1>8 DEF EndSession, WorkerPCs
  <1>9. CASE CheckSession
    <2>1. CASE EndSession("open")
      BY <1>8, <1>9, <2>1 DEF CheckSession, mainVars, hostVars
    <2>2. CASE worker' = "read" /\ UNCHANGED <<after, dead, update>>
      BY <1>9, <2>2 DEF CheckSession, WorkerPCs, mainVars, hostVars
    <2> QED BY <1>9, <2>1, <2>2 DEF CheckSession
  <1>10. CASE LeaveSession
    BY <1>8, <1>10 DEF LeaveSession, mainVars, hostVars
  <1>11. stream # <<>> =>
           Head(stream).id \in Sessions \cup {NoSession} /\ Tail(stream) \in Seq(Item)
    BY Pieces, ItemIds
  <1>12. CASE FrameHello
    BY <1>8, <1>11, <1>12 DEF FrameHello, mainVars, hostVars
  <1>13. CASE FrameUnkeyed
    BY <1>13 DEF FrameUnkeyed, WorkerPCs, mainVars, sessVars, hostVars
  <1>14. CASE FrameGarbage \/ FrameCut
    <2>1. UNCHANGED <<mainVars, session, answering, writer, queued, helper, silent, hostVars>>
      BY <1>14 DEF FrameGarbage, FrameCut
    <2>2. CASE stream' = <<>> /\ EndSession("check")
      BY <1>8, <2>1, <2>2 DEF mainVars, hostVars
    <2>3. CASE worker' = "check" /\ UNCHANGED <<after, stream, dead, update>>
      BY <2>1, <2>3 DEF WorkerPCs, mainVars, hostVars
    <2> QED BY <1>14, <2>2, <2>3 DEF FrameGarbage, FrameCut
  <1>15. CASE FrameRequest
    <2>1. Tail(stream) \in Seq(Item) /\ session \in Sessions
      BY <1>11, <1>15 DEF FrameRequest
    <2>2. queued' \in [Sessions -> Nat] /\ job' \in {"none", "queued", "done"}
          /\ worker' \in WorkerPCs
      BY <1>15, <2>1 DEF FrameRequest, WorkerPCs
    <2> QED BY <1>15, <2>1, <2>2 DEF FrameRequest, hostVars
  <1>16. CASE FrameUpdate
    BY <1>11, <1>16 DEF FrameUpdate, WorkerPCs, mainVars, hostVars
  <1>17. CASE DispatchReturns
    <2>1. worker' \in WorkerPCs /\ queued' = [queued EXCEPT ![session] = @ + 1]
      BY <1>17 DEF DispatchReturns, WorkerPCs
    <2>2. \A s \in Sessions : queued[s] \in Nat /\ queued[s] + 1 \in Nat
      OBVIOUS
    <2>3. queued' \in [Sessions -> Nat]
      BY <2>1, <2>2
    <2> QED BY <1>17, <2>1, <2>3 DEF DispatchReturns, hostVars
  <1>18. CASE DeliverReturns
    BY <1>18 DEF DeliverReturns, WorkerPCs, mainVars, hostVars
  <1>19. CASE ReadEndpoint
    <2>1. stream' \in Seq(Item) /\ arriving' \in Seq(Item)
      <3>1. PICK n \in 1 .. Len(arriving) :
              /\ stream' = stream \o SubSeq(arriving, 1, n)
              /\ arriving' = SubSeq(arriving, n + 1, Len(arriving))
        BY <1>19 DEF ReadEndpoint
      <3>2. SubSeq(arriving, 1, n) \in Seq(Item) /\ arriving' \in Seq(Item)
        BY <3>1, Pieces
      <3> QED BY <3>1, <3>2, ConcatProperties
    <2>2. worker' \in WorkerPCs
      BY <1>19 DEF ReadEndpoint, WorkerPCs
    <2> QED BY <1>19, <2>1, <2>2 DEF ReadEndpoint, mainVars, sessVars
  <1>20. CASE \E s \in Sessions : Session(s)
    <2>1. PICK s \in Sessions : Session(s)
      BY <1>20
    <2>2. CASE WriterStarts(s) \/ HostTakesRecord(s)
      BY <2>2 DEF WriterStarts, HostTakesRecord, WriterPCs, mainVars, workVars, hostVars
    <2>3. CASE TimePasses(s)
      BY <2>3 DEF TimePasses, mainVars, workVars, hostVars
    <2>4. CASE WriterChecks(s)
      BY <2>4 DEF WriterChecks, WriterPCs, mainVars, workVars, hostVars
    <2>5. CASE WriterWaits(s)
      <3>1. writer' \in [Sessions -> WriterPCs]
        BY <2>5 DEF WriterWaits, WriterPCs
      <3>2. queued[s] \in Nat /\ (queued[s] > 0 => queued[s] - 1 \in Nat)
        OBVIOUS
      <3>3. queued' \in [Sessions -> Nat]
        BY <2>5, <3>2 DEF WriterWaits
      <3> QED BY <2>5, <3>1, <3>3 DEF WriterWaits, mainVars, workVars, hostVars
    <2>6. ASSUME NEW c \in Cameras, CameraFrame(s, c)
          PROVE  TypeOK'
      <3>1. queued' \in [Sessions -> Nat]
        BY <2>6 DEF CameraFrame
      <3> QED BY <2>6, <3>1 DEF CameraFrame, mainVars, workVars, hostVars
    <2>7. ASSUME NEW t \in Helpers, SealFails(s, t)
          PROVE  TypeOK'
      BY <2>7 DEF SealFails, mainVars, workVars, hostVars
    <2>8. ASSUME NEW t \in Helpers, HelperEnds(s, t)
          PROVE  TypeOK'
      <3>1. helper' = [helper EXCEPT ![s] = [@ EXCEPT ![t] = "done"]]
        BY <2>8 DEF HelperEnds
      <3>2. helper[s] \in [Helpers -> {"none", "up", "done"}]
        OBVIOUS
      <3>3. [helper[s] EXCEPT ![t] = "done"] \in [Helpers -> {"none", "up", "done"}]
        BY <3>2
      <3>4. helper' \in [Sessions -> [Helpers -> {"none", "up", "done"}]]
        BY <3>1, <3>3
      <3> QED BY <2>8, <3>4 DEF HelperEnds, mainVars, workVars, hostVars
    <2> QED BY <2>1, <2>2, <2>3, <2>4, <2>5, <2>6, <2>7, <2>8 DEF Session, Writer
  <1>21. CASE UpdaterCloses
    BY <1>21 DEF UpdaterCloses, mainVars, workVars, hostVars
  <1>22. CASE EndpointsDisabled
    <2>1. /\ writer' \in [Sessions -> WriterPCs] /\ dead' \in [Sessions -> BOOLEAN]
          /\ worker' \in WorkerPCs
      BY <1>22 DEF EndpointsDisabled, WorkerPCs, WriterPCs
    <2>2. arriving' \in Seq(Item) /\ recycles' \in Nat
      BY <1>22 DEF EndpointsDisabled
    <2> QED BY <1>22, <2>1, <2>2 DEF EndpointsDisabled, mainVars
  <1>23. CASE HostHello
    <2>1. hellos + 1 \in Sessions
      BY <1>23 DEF HostHello, Sessions, NoSession
    <2>2. [type |-> "hello", id |-> hellos + 1] \in Item
      BY <2>1 DEF Item
    <2>3. arriving' \in Seq(Item)
      BY <1>23, <2>2, AppendProperties DEF HostHello
    <2> QED BY <1>23, <2>1, <2>3 DEF HostHello, mainVars, workVars, sessVars
  <1>24. CASE HostSends
    <2>1. \A type \in {"badhello", "request", "update", "garbage", "cut"} :
            [type |-> type, id |-> NoSession] \in Item
      BY DEF Item
    <2>2. arriving' \in Seq(Item)
      BY <1>24, <2>1, AppendProperties DEF HostSends
    <2>3. items' \in Nat
      BY <1>24 DEF HostSends
    <2> QED BY <1>24, <2>2, <2>3 DEF HostSends, mainVars, workVars, sessVars
  <1>25. CASE HostTakesHello
    <2>1. [t \in Helpers |-> "up"] \in [Helpers -> {"none", "up", "done"}]
      OBVIOUS
    <2>2. /\ helper' \in [Sessions -> [Helpers -> {"none", "up", "done"}]]
          /\ writer' \in [Sessions -> WriterPCs] /\ worker' \in WorkerPCs
      BY <1>25, <2>1 DEF HostTakesHello, WorkerPCs, WriterPCs
    <2> QED BY <1>25, <2>2 DEF HostTakesHello, NoSession, mainVars
  <1>26. CASE HostLeaves
    <2>1. arriving' \in Seq(Item)
      BY <1>26 DEF HostLeaves
    <2> QED BY <1>26, <2>1 DEF HostLeaves, mainVars, workVars, sessVars
  <1>27. CASE UNCHANGED vars
    BY <1>27 DEF vars
  <1> QED
    BY <1>1, <1>2, <1>3, <1>4, <1>5, <1>6, <1>7, <1>9, <1>10, <1>12, <1>13, <1>14, <1>15, <1>16,
       <1>17, <1>18, <1>19, <1>20, <1>21, <1>22, <1>23, <1>24, <1>25, <1>26, <1>27
       DEF Next, Stop, Worker, Host

(***************************************************************************)
(* THEOREM: TypeOK holds in every state.                                   *)
(***************************************************************************)
THEOREM TypeCorrect == Spec => []TypeOK
PROOF
<1>1. Init => TypeOK
  BY InitTypes
<1> QED BY <1>1, TypeStep, PTL DEF Spec

-------------------------------------------------------------------------------
(***************************************************************************)
(* Why no thread is left over: end_session() has joined before the worker  *)
(* answers, so a session begins when there is none; and it joins one that  *)
(* is there.  A session is that of the last ServerHello the host took.     *)
(***************************************************************************)
SessionInv ==
  /\ NoThreadOutlivesSession
  /\ worker \in {"respond", "reply"} => session = NoSession
  /\ worker = "reply" => answering # NoSession
  /\ worker \in {"signal", "join"} => session # NoSession
  /\ session # NoSession => session = answered

(***************************************************************************)
(* The first half of end_session(), whoever calls it, frees no thread.     *)
(***************************************************************************)
LEMMA EndSessionKeeps ==
  ASSUME TypeOK, SessionInv, NEW next \in {"open", "check", "respond"}, EndSession(next),
         UNCHANGED <<session, writer, helper, answered>>
  PROVE  SessionInv'
PROOF
  <1>1. NoThreadOutlivesSession'
    BY DEF SessionInv, NoThreadOutlivesSession, Alive, Running
  <1>2. \/ session = NoSession /\ worker' = next
        \/ session # NoSession /\ worker' \in {"join", "signal"}
    BY DEF EndSession
  <1> QED BY <1>1, <1>2 DEF SessionInv

LEMMA SessionStep ==
  ASSUME TypeOK, SessionInv, [Next]_vars
  PROVE  SessionInv'
PROOF
  <1>1. CASE /\ UNCHANGED <<session, answered, answering>>
             /\ \A s \in Sessions : Alive(s)' => Alive(s)
             /\ \/ worker' = worker
                \/ worker' \notin {"respond", "reply", "signal", "join"}
    <2>1. NoThreadOutlivesSession'
      BY <1>1 DEF SessionInv, NoThreadOutlivesSession
    <2> QED BY <1>1, <2>1 DEF SessionInv
  <1>2. ASSUME UNCHANGED <<writer, helper>>
        PROVE  \A s \in Sessions : Alive(s)' => Alive(s)
    BY <1>2 DEF Alive, Running
  <1>3. CASE RunJob \/ BeginStop \/ Stop
    BY <1>1, <1>2, <1>3 DEF RunJob, BeginStop, Stop, SignalWorker, StopReturns, workVars, sessVars,
                hostVars
  <1>4. CASE SignalWriter
    <2>1. \A s \in Sessions : Alive(s)' => Alive(s)
      BY <1>4 DEF SignalWriter, Alive, Running, TypeOK
    <2> QED BY <1>1, <1>4, <2>1 DEF SignalWriter, workVars, hostVars
  <1>5. CASE WriterSignalled
    BY <1>2, <1>5 DEF WriterSignalled, SessionInv, NoThreadOutlivesSession, hostVars
  <1>6. CASE Join
    <2>1. \A s \in Sessions : ~Alive(s)
      BY <1>6 DEF Join, SessionInv, NoThreadOutlivesSession, Alive, Running
    <2>2. \A s \in Sessions : ~Alive(s)'
      BY <1>6, <2>1 DEF Join, Alive, Running
    <2>3. session' = NoSession /\ worker' \in {"open", "check", "respond"}
      BY <1>6 DEF Join, TypeOK
    <2> QED BY <2>2, <2>3 DEF SessionInv, NoThreadOutlivesSession
  <1>7. CASE WorkerStarts \/ CreateGadget \/ OpenEndpoints \/ FrameNothing
    BY <1>1, <1>2, <1>7 DEF WorkerStarts, CreateGadget, OpenEndpoints, FrameNothing, sessVars,
                hostVars
  <1>8. CASE CheckSession \/ LeaveSession \/ FrameHello \/ FrameGarbage \/ FrameCut
    <2>1. UNCHANGED <<session, writer, helper, answered>>
      BY <1>8 DEF CheckSession, LeaveSession, FrameHello, FrameGarbage, FrameCut, hostVars
    <2>2. CASE \E next \in {"open", "check", "respond"} : EndSession(next)
      BY <2>1, <2>2, EndSessionKeeps
    <2>3. CASE worker' = "read" /\ CheckSession
      BY <1>1, <1>2, <2>1, <2>3 DEF CheckSession
    <2>4. CASE worker' = "check" /\ FrameCut
      BY <1>1, <1>2, <2>1, <2>4 DEF FrameCut
    <2> QED
      BY <1>8, <2>2, <2>3, <2>4 DEF CheckSession, LeaveSession, FrameHello, FrameGarbage, FrameCut
  <1>9. CASE FrameUnkeyed \/ FrameRequest \/ FrameUpdate \/ DispatchReturns \/ DeliverReturns
    BY <1>1, <1>2, <1>9 DEF FrameUnkeyed, FrameRequest, FrameUpdate, DispatchReturns,
                DeliverReturns, sessVars, hostVars
  <1>10. CASE Respond
    BY <1>2, <1>10 DEF Respond, SessionInv, NoThreadOutlivesSession, sessVars, hostVars
  <1>11. CASE ReadEndpoint
    BY <1>1, <1>2, <1>11 DEF ReadEndpoint, sessVars
  <1>12. CASE \E s \in Sessions : Session(s)
    <2>1. PICK s \in Sessions : Session(s)
      BY <1>12
    <2>2. CASE Writer(s) \/ TimePasses(s) \/ HostTakesRecord(s)
      <3>1. \A r \in Sessions : Alive(r)' => Alive(r)
        BY <2>2 DEF Writer, WriterStarts, WriterChecks, WriterWaits, TimePasses, HostTakesRecord,
                    Alive, Running, TypeOK
      <3> QED
        BY <1>1, <2>2, <3>1 DEF Writer, WriterStarts, WriterChecks, WriterWaits, TimePasses,
                    HostTakesRecord, workVars, hostVars
    <2>3. CASE \E c \in Cameras : CameraFrame(s, c)
      BY <1>1, <1>2, <2>3 DEF CameraFrame, workVars, hostVars
    <2>4. ASSUME NEW t \in Helpers, SealFails(s, t) \/ HelperEnds(s, t)
          PROVE  SessionInv'
      <3>1. \A r \in Sessions : Alive(r)' => Alive(r)
        BY <2>4 DEF SealFails, HelperEnds, Alive, Running, TypeOK
      <3> QED BY <1>1, <2>4, <3>1 DEF SealFails, HelperEnds, workVars, hostVars
    <2> QED BY <2>1, <2>2, <2>3, <2>4 DEF Session
  <1>13. CASE UpdaterCloses
    BY <1>1, <1>2, <1>13 DEF UpdaterCloses, workVars, hostVars
  <1>14. CASE EndpointsDisabled
    <2>1. \A s \in Sessions : Alive(s)' => Alive(s)
      BY <1>14 DEF EndpointsDisabled, Alive, Running, TypeOK
    <2> QED BY <1>1, <1>14, <2>1 DEF EndpointsDisabled
  <1>15. CASE HostHello \/ HostSends \/ HostLeaves
    BY <1>1, <1>2, <1>15 DEF HostHello, HostSends, HostLeaves, workVars, sessVars
  <1>16. CASE HostTakesHello
    <2>1. session = NoSession /\ answering \in Sessions
      BY <1>16 DEF HostTakesHello, SessionInv, TypeOK
    <2>2. \A s \in Sessions : ~Alive(s)
      BY <2>1 DEF SessionInv, NoThreadOutlivesSession, Sessions, NoSession
    <2>3. \A s \in Sessions : s # answering => ~Alive(s)'
      BY <1>16, <2>2 DEF HostTakesHello, Alive, Running, TypeOK
    <2>4. session' = answering /\ answered' = answering /\ worker' = "frame"
      BY <1>16 DEF HostTakesHello
    <2> QED BY <2>1, <2>3, <2>4 DEF SessionInv, NoThreadOutlivesSession
  <1>17. CASE UNCHANGED vars
    BY <1>1, <1>2, <1>17 DEF vars
  <1> QED
    BY <1>3, <1>4, <1>5, <1>6, <1>7, <1>8, <1>9, <1>10, <1>11, <1>12, <1>13, <1>14, <1>15, <1>16,
       <1>17 DEF Next, Worker, Host

(***************************************************************************)
(* The invariant holds throughout.                                         *)
(***************************************************************************)
LEMMA SessionInvariant == Spec => [](TypeOK /\ SessionInv)
PROOF
<1>1. Init => TypeOK /\ SessionInv
  <2>1. Init => TypeOK
    BY InitTypes
  <2>2. Init => SessionInv
    BY DEF Init, SessionInv, NoThreadOutlivesSession, Alive, Running
  <2> QED BY <2>1, <2>2
<1>2. TypeOK /\ SessionInv /\ [Next]_vars => (TypeOK /\ SessionInv)'
  BY TypeStep, SessionStep
<1> QED BY <1>1, <1>2, PTL DEF Spec

(***************************************************************************)
(* THEOREM: end_session() leaves no thread of a session behind, whatever   *)
(* ended it and whatever comes next.                                       *)
(***************************************************************************)
THEOREM EveryThreadIsJoined == Spec => []NoThreadOutlivesSession
PROOF
<1>1. TypeOK /\ SessionInv => NoThreadOutlivesSession
  BY DEF SessionInv
<1> QED BY <1>1, SessionInvariant, PTL

(***************************************************************************)
(* THEOREM: the record in the endpoint is sealed under the keys of the     *)
(* last ServerHello the host has taken.                                    *)
(***************************************************************************)
THEOREM OnlyLastKeysAreOffered == Spec => []OfferedUnderLastHello
PROOF
<1>1. TypeOK /\ SessionInv => OfferedUnderLastHello
  BY DEF SessionInv, NoThreadOutlivesSession, OfferedUnderLastHello, Alive, Running, Sessions,
         NoSession
<1> QED BY <1>1, SessionInvariant, PTL
=============================================================================
