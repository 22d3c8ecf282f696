-------------------------- MODULE SwupdateClientProofs --------------------------
(***************************************************************************)
(* Proofs about SwupdateClient: the shared status_ has one poller, and a   *)
(* busy status_ has somebody who will end it, for any number of uploads;   *)
(* and what a daemon that stays up failed to install is no success.        *)
(***************************************************************************)
EXTENDS SwupdateClient, SequenceTheorems, TLAPS

(***************************************************************************)
(* The inductive invariant.  The two properties are not inductive alone:   *)
(* an upload that waits for the daemon's answer must own status_, and have *)
(* no poller from before.                                                  *)
(***************************************************************************)
RequestOwns ==
  \A u \in Uploads : handler[u] = "request" => u = owner /\ state \in Busy

PollerIsFresh ==
  \A u \in Uploads :
    handler[u] \in {"header", "begin", "request"} => poller[u] = "none"

(***************************************************************************)
(* What the steps of the client preserve of the types.                     *)
(***************************************************************************)
Typed ==
  /\ owner \in Uploads \cup {Nobody}
  /\ handler \in [Uploads -> HandlerPCs]
  /\ poller \in [Uploads -> PollerPCs]

IInv == Typed /\ PollerOwnsStatus /\ BusyHasAnEnd /\ RequestOwns /\ PollerIsFresh

(***************************************************************************)
(* When the program starts there is no upload, and status_ is Idle.        *)
(***************************************************************************)
LEMMA InitIInv == Init => IInv
  BY DEF Init, IInv, Typed, PollerOwnsStatus, BusyHasAnEnd, RequestOwns,
     PollerIsFresh, HandlerPCs, PollerPCs, Listening, Asking, Busy

(***************************************************************************)
(* A poller that concludes leaves a status_ that nobody has to end.        *)
(***************************************************************************)
LEMMA ConcludeStep ==
  ASSUME IInv, NEW u \in Uploads, poller[u] \in Listening,
         NEW s \in {"Success", "Failure"}, Conclude(u, s),
         UNCHANGED <<owner, handler>>
  PROVE  IInv'
PROOF
  <1>1. state' \notin Busy
    BY DEF Conclude, Busy
  <1>2. Typed'
    BY DEF IInv, Typed, Conclude, PollerPCs, Listening
  <1>3. \A v \in Uploads : poller'[v] \notin Listening
    BY DEF IInv, Typed, PollerOwnsStatus, Conclude, PollerPCs, Listening, Asking
  <1>4. \A v \in Uploads : handler[v] # "request"
    BY DEF IInv, PollerOwnsStatus, RequestOwns, PollerIsFresh, Listening, Asking
  <1>5. PollerIsFresh'
    BY DEF IInv, Typed, PollerIsFresh, Conclude, Listening, Asking
  <1> QED
    BY <1>1, <1>2, <1>3, <1>4, <1>5
    DEF IInv, PollerOwnsStatus, BusyHasAnEnd, RequestOwns

(***************************************************************************)
(* A step that only moves status_ from Uploading to Installing changes     *)
(* nothing of the invariant.                                               *)
(***************************************************************************)
LEMMA StartSeenStep ==
  ASSUME IInv, UNCHANGED <<owner, handler, poller>>,
         state' = IF state = "Uploading" THEN "Installing" ELSE state
  PROVE  IInv'
  BY DEF IInv, Typed, PollerOwnsStatus, BusyHasAnEnd, RequestOwns,
     PollerIsFresh, Busy

(***************************************************************************)
(* A step that touches none of status_, the handlers and the pollers.      *)
(***************************************************************************)
LEMMA QuietStep ==
  ASSUME IInv, UNCHANGED <<state, owner, handler, poller>>
  PROVE  IInv'
  BY DEF IInv, Typed, PollerOwnsStatus, BusyHasAnEnd, RequestOwns, PollerIsFresh

(***************************************************************************)
(* The upload handlers: try_begin() only claims a status_ that is not      *)
(* busy, so no poller is left when the next one can start.                 *)
(***************************************************************************)
LEMMA HandlerStep ==
  ASSUME IInv, NEW u \in Uploads, Handler(u)
  PROVE  IInv'
PROOF
  <1> USE DEF IInv, Typed, PollerOwnsStatus, BusyHasAnEnd, RequestOwns,
          PollerIsFresh, HandlerPCs, PollerPCs, Listening, Asking, Busy
  <1>1. CASE ReadHeader(u)
    BY <1>1 DEF ReadHeader, daemonVars
  <1>2. CASE TryBegin(u)
    <2>1. CASE state \in Busy
      BY <1>2, <2>1 DEF TryBegin, daemonVars
    <2>2. CASE state \notin Busy
      <3>1. \A v \in Uploads : handler[v] # "request" /\ poller[v] \notin Listening
        BY <2>2
      <3>2. /\ state' = "Uploading" /\ owner' = u
            /\ handler' = [handler EXCEPT ![u] = "request"]
            /\ poller' = poller /\ poller[u] = "none"
        BY <1>2, <2>2 DEF TryBegin, daemonVars
      <3> QED
        BY <3>1, <3>2
    <2> QED
      BY <2>1, <2>2
  <1>3. CASE RequestAccepted(u)
    BY <1>3, ConstantsAssumption DEF RequestAccepted
  <1>4. CASE RequestRefused(u)
    BY <1>4 DEF RequestRefused, daemonVars
  <1>5. CASE StreamChunk(u)
    BY <1>5, QuietStep DEF StreamChunk, daemonVars
  <1>6. CASE StreamEnds(u)
    BY <1>6 DEF StreamEnds, daemonVars
  <1>7. CASE EndStream(u)
    BY <1>7 DEF EndStream, daemonVars
  <1> QED
    BY <1>1, <1>2, <1>3, <1>4, <1>5, <1>6, <1>7 DEF Handler

(***************************************************************************)
(* A poller that goes on listening, somewhere else.                        *)
(***************************************************************************)
LEMMA MoveStep ==
  ASSUME IInv, NEW u \in Uploads, poller[u] \in Listening,
         NEW pc \in Listening, poller' = [poller EXCEPT ![u] = pc],
         UNCHANGED <<state, owner, handler>>
  PROVE  IInv'
  BY DEF IInv, Typed, PollerOwnsStatus, BusyHasAnEnd, RequestOwns, PollerIsFresh,
         PollerPCs, Listening, Asking

(***************************************************************************)
(* An answer that settles the installation ends its poller.                *)
(***************************************************************************)
LEMMA SettledConcludes ==
  ASSUME NEW u \in Uploads, Settled(u)
  PROVE  \E s \in {"Success", "Failure"} : Conclude(u, s)
  BY DEF Settled

(***************************************************************************)
(* The poller threads: each of their endings gives status_ a terminal      *)
(* state in the same step.                                                 *)
(***************************************************************************)
LEMMA PollerStep ==
  ASSUME IInv, NEW u \in Uploads, Poller(u)
  PROVE  IInv'
PROOF
  <1>1. CASE Connect(u)
    <2>1. CASE Conclude(u, "Failure")
      BY <1>1, <2>1, ConcludeStep DEF Connect, Listening
    <2>2. CASE ~Conclude(u, "Failure")
      BY <1>1, <2>2 DEF Connect, IInv, Typed, PollerOwnsStatus, BusyHasAnEnd,
         RequestOwns, PollerIsFresh, PollerPCs, Listening, Asking
    <2> QED
      BY <2>1, <2>2
  <1>2. CASE Receive(u)
    <2>1. CASE Head(inbox[u]) = "success"
      BY <1>2, <2>1, ConcludeStep DEF Receive, Listening
    <2>2. CASE Head(inbox[u]) = "failure"
      BY <1>2, <2>2, ConcludeStep DEF Receive, Listening
    <2>3. CASE Head(inbox[u]) = "start"
      BY <1>2, <2>3, StartSeenStep DEF Receive
    <2>4. CASE Head(inbox[u]) = "idle"
      BY <1>2, <2>4, QuietStep DEF Receive
    <2> QED
      BY <1>2, <2>1, <2>2, <2>3, <2>4 DEF Receive
  <1>3. CASE Closed(u)
    <2>1. CASE sawStart[u]
      <3>1. poller' = [poller EXCEPT ![u] = "closed"] /\ poller[u] = "progress"
            /\ UNCHANGED <<state, owner, handler>>
        BY <1>3, <2>1 DEF Closed
      <3> QED BY <3>1, MoveStep DEF Listening, Asking
    <2>2. CASE ~sawStart[u]
      BY <1>3, <2>2, ConcludeStep DEF Closed, Listening
    <2> QED BY <2>1, <2>2
  <1>4. CASE ClosedAnswered(u)
    <2>1. PICK s \in {"Success", "Failure"} : Conclude(u, s)
      BY <1>4 DEF ClosedAnswered
    <2> QED
      BY <1>4, <2>1, ConcludeStep DEF ClosedAnswered, Listening, Asking
  <1>5. CASE Silence(u)
    <2>1. CASE Conclude(u, "Failure")
      BY <1>5, <2>1, ConcludeStep DEF Silence, Listening
    <2>2. CASE poller' = [poller EXCEPT ![u] = "silence"] /\ UNCHANGED state
      BY <1>5, <2>2, MoveStep DEF Silence, Listening, Asking
    <2>3. CASE UNCHANGED <<state, poller>>
      BY <1>5, <2>3, QuietStep DEF Silence
    <2> QED BY <1>5, <2>1, <2>2, <2>3 DEF Silence
  <1>6. CASE SilenceAnswered(u)
    <2>1. CASE \E s \in {"Success", "Failure"} : Conclude(u, s)
      BY <1>6, <2>1, ConcludeStep DEF SilenceAnswered, Listening, Asking
    <2>2. CASE poller' = [poller EXCEPT ![u] = "progress"] /\ UNCHANGED state
      BY <1>6, <2>2, MoveStep DEF SilenceAnswered, Listening, Asking
    <2> QED BY <1>6, <2>1, <2>2, SettledConcludes DEF SilenceAnswered
  <1>7. CASE PollControl(u)
    <2>1. CASE \E s \in {"Success", "Failure"} : Conclude(u, s)
      BY <1>7, <2>1, ConcludeStep DEF PollControl, Listening, Asking
    <2>2. CASE UNCHANGED <<state, poller>>
      BY <1>7, <2>2, QuietStep DEF PollControl
    <2>3. CASE /\ state' = IF state = "Uploading" THEN "Installing" ELSE state
               /\ UNCHANGED poller
      BY <1>7, <2>3, StartSeenStep DEF PollControl
    <2> QED BY <1>7, <2>1, <2>2, <2>3, SettledConcludes DEF PollControl
  <1> QED
    BY <1>1, <1>2, <1>3, <1>4, <1>5, <1>6, <1>7 DEF Poller

(***************************************************************************)
(* The daemon changes nothing of the client but what it has yet to read.   *)
(***************************************************************************)
LEMMA DaemonStep ==
  ASSUME IInv, Daemon
  PROVE  IInv'
  BY QuietStep DEF Daemon, DaemonStarts, DaemonProgresses, DaemonFinishes,
     DaemonCrashes, DaemonRestarts, clientVars

(***************************************************************************)
(* The inductive invariant holds in every behaviour.                       *)
(***************************************************************************)
THEOREM StatusInvariant == Spec => []IInv
PROOF
  <1>1. IInv /\ [Next]_vars => IInv'
    <2> SUFFICES ASSUME IInv, [Next]_vars PROVE IInv'
      OBVIOUS
    <2>1. CASE \E u \in Uploads : Handler(u)
      BY <2>1, HandlerStep
    <2>2. CASE \E u \in Uploads : Poller(u)
      BY <2>2, PollerStep
    <2>3. CASE Daemon
      BY <2>3, DaemonStep
    <2>4. CASE UNCHANGED vars
      BY <2>4, QuietStep DEF vars
    <2> QED
      BY <2>1, <2>2, <2>3, <2>4 DEF Next
  <1> QED
    BY <1>1, InitIInv, PTL DEF Spec

(***************************************************************************)
(* status_ is only ever written by the poller of the upload that claimed   *)
(* it: no two pollers run at once, however many uploads come and go.       *)
(***************************************************************************)
THEOREM OnePoller == Spec => []PollerOwnsStatus
  BY StatusInvariant, PTL DEF IInv

(***************************************************************************)
(* A busy client always has a thread that will give it a terminal state.   *)
(***************************************************************************)
THEOREM NeverBusyForNobody == Spec => []BusyHasAnEnd
  BY StatusInvariant, PTL DEF IInv

-------------------------------------------------------------------------------
(***************************************************************************)
(* The daemon that has not crashed: it works for one upload at a time, and *)
(* what a poller that still listens has heard, or may yet hear, is about   *)
(* the job of its own upload.                                              *)
(***************************************************************************)
Heard(u, message) == \E i \in 1 .. Len(inbox[u]) : inbox[u][i] = message
Started(u) == outcome[u] # "none" \/ (job = u /\ phase = "run")

DaemonTyped ==
  /\ inbox \in [Uploads -> Seq(Messages)]
  /\ outcome \in [Uploads -> {"none", "success", "failure", "lost"}]
  /\ sawStart \in [Uploads -> BOOLEAN] /\ subscribed \in [Uploads -> BOOLEAN]
  /\ job \in Uploads \cup {Nobody}
  /\ phase \in {"down", "idle", "accepted", "run"} /\ crashes \in Nat

OneJob ==
  /\ phase # "down" /\ (phase = "idle" <=> job = Nobody)
  /\ job # Nobody => outcome[job] = "none"

NothingYet(u) ==
  handler[u] \in {"header", "begin", "request"} =>
    outcome[u] = "none" /\ job # u /\ inbox[u] = <<>> /\ ~sawStart[u]

HearsItsOwn(u) ==
  poller[u] \in Listening =>
    /\ \/ job = u
       \/ job = Nobody /\ outcome[u] \in {"success", "failure"} /\ last = outcome[u]
    /\ sawStart[u] \/ Heard(u, "start") => Started(u)
    /\ Heard(u, "success") => outcome[u] = "success"
    /\ poller[u] # "closed"
    /\ poller[u] \in {"progress", "silence"} => subscribed[u]
    /\ poller[u] = "silence" => sawStart[u]

TellsTruth(u) ==
  u = owner /\ state = "Success" /\ poller[u] = "ended" => outcome[u] = "success"

TruthInv ==
  crashes = 0 =>
    OneJob /\ \A u \in Uploads : NothingYet(u) /\ HearsItsOwn(u) /\ TellsTruth(u)

(***************************************************************************)
(* What is heard once a message was added, or the oldest one was read.     *)
(***************************************************************************)
LEMMA Hearing ==
  ASSUME NEW q \in Seq(Messages)
  PROVE  /\ \A m \in Messages :
              /\ Append(q, m) \in Seq(Messages)
              /\ \A i \in 1 .. Len(Append(q, m)) :
                   Append(q, m)[i] = m \/ \E j \in 1 .. Len(q) : q[j] = Append(q, m)[i]
         /\ q # <<>> =>
              /\ Tail(q) \in Seq(Messages) /\ 1 \in 1 .. Len(q) /\ Head(q) = q[1]
              /\ \A i \in 1 .. Len(Tail(q)) : \E j \in 1 .. Len(q) : q[j] = Tail(q)[i]
PROOF
  <1>1. ASSUME NEW m \in Messages
        PROVE  /\ Append(q, m) \in Seq(Messages)
               /\ \A i \in 1 .. Len(Append(q, m)) :
                    Append(q, m)[i] = m \/ \E j \in 1 .. Len(q) : q[j] = Append(q, m)[i]
    BY AppendProperties
  <1>2. ASSUME q # <<>>
        PROVE  /\ Tail(q) \in Seq(Messages) /\ 1 \in 1 .. Len(q) /\ Head(q) = q[1]
               /\ \A i \in 1 .. Len(Tail(q)) : \E j \in 1 .. Len(q) : q[j] = Tail(q)[i]
    BY <1>2, HeadTailProperties, EmptySeq
  <1> QED BY <1>1, <1>2

(***************************************************************************)
(* Handlers: the daemon accepts an upload when no poller listens to it.    *)
(***************************************************************************)
LEMMA HandlerTruth ==
  ASSUME IInv, DaemonTyped, TruthInv, NEW u \in Uploads, Handler(u)
  PROVE  DaemonTyped' /\ TruthInv'
PROOF
  <1>1. CASE RequestAccepted(u)
    <2>1. /\ job' = u /\ phase' = "accepted" /\ phase = "idle" /\ handler[u] = "request"
          /\ handler' = [handler EXCEPT ![u] = "stream"]
          /\ poller' = [poller EXCEPT ![u] = "connect"]
          /\ UNCHANGED <<state, owner, sawStart, inbox, subscribed, last, outcome, crashes>>
      BY <1>1 DEF RequestAccepted
    <2>2. DaemonTyped'
      BY <2>1 DEF DaemonTyped
    <2>3. \A v \in Uploads : poller[v] \notin Listening
      BY <2>1 DEF IInv, RequestOwns, PollerOwnsStatus, PollerIsFresh, Listening, Asking
    <2>4. ASSUME crashes = 0
          PROVE  OneJob' /\ \A v \in Uploads : (NothingYet(v) /\ HearsItsOwn(v) /\ TellsTruth(v))'
      <3>1. OneJob /\ \A v \in Uploads : NothingYet(v) /\ HearsItsOwn(v) /\ TellsTruth(v)
        BY <2>4 DEF TruthInv
      <3>2. /\ outcome[u] = "none" /\ ~sawStart[u] /\ inbox[u] = <<>>
            /\ u # Nobody
        BY <2>1, <3>1, ConstantsAssumption DEF NothingYet
      <3>3. OneJob'
        BY <2>1, <3>2 DEF OneJob
      <3>4. ASSUME NEW v \in Uploads
            PROVE  (NothingYet(v) /\ HearsItsOwn(v) /\ TellsTruth(v))'
        <4>1. NothingYet(v)'
          BY <2>1, <3>1 DEF NothingYet, IInv, Typed
        <4>2. TellsTruth(v)'
          BY <2>1, <3>1 DEF TellsTruth, IInv, Typed
        <4>3. CASE v = u
          <5>1. ~Heard(u, "start")' /\ ~Heard(u, "success")'
            BY <2>1, <3>2 DEF Heard
          <5> QED BY <2>1, <3>2, <4>1, <4>2, <4>3, <5>1 DEF HearsItsOwn, IInv, Typed
        <4>4. CASE v # u
          BY <2>1, <2>3, <4>1, <4>2, <4>4 DEF HearsItsOwn, IInv, Typed
        <4> QED BY <4>3, <4>4
      <3> QED BY <3>3, <3>4
    <2> QED BY <2>1, <2>2, <2>4 DEF TruthInv
  <1>2. CASE ~RequestAccepted(u)
    <2>1. /\ UNCHANGED <<poller, sawStart, inbox, subscribed, job, phase, last, outcome, crashes>>
          /\ \A v \in Uploads :
               handler'[v] \in {"header", "begin", "request"} =>
                 handler[v] \in {"header", "begin", "request"}
      BY <1>2 DEF Handler, ReadHeader, TryBegin, RequestRefused, StreamChunk, StreamEnds, EndStream,
                  daemonVars, IInv, Typed
    <2>2. DaemonTyped'
      BY <2>1 DEF DaemonTyped
    <2>3. /\ OneJob => OneJob'
          /\ \A v \in Uploads : (NothingYet(v) => NothingYet(v)') /\ (HearsItsOwn(v) => HearsItsOwn(v)')
      BY <2>1 DEF OneJob, NothingYet, HearsItsOwn, Heard, Started
    <2>4. ASSUME NEW v \in Uploads, TellsTruth(v)
          PROVE  TellsTruth(v)'
      <3>1. CASE UNCHANGED <<owner, state>>
        BY <2>1, <2>4, <3>1 DEF TellsTruth
      <3>2. CASE state' # "Success"
        BY <3>2 DEF TellsTruth
      <3> QED
        BY <1>2, <3>1, <3>2 DEF Handler, ReadHeader, TryBegin, RequestRefused, StreamChunk,
                StreamEnds, EndStream, daemonVars
    <2> QED BY <2>1, <2>2, <2>3, <2>4 DEF TruthInv
  <1> QED BY <1>1, <1>2

(***************************************************************************)
(* Pollers: a success is concluded from what was heard or asked about the  *)
(* upload's own job, which had ended.                                      *)
(***************************************************************************)
LEMMA PollerTruth ==
  ASSUME IInv, DaemonTyped, TruthInv, NEW u \in Uploads, Poller(u)
  PROVE  DaemonTyped' /\ TruthInv'
PROOF
  <1>1. /\ UNCHANGED <<owner, handler, job, phase, last, outcome, crashes>>
        /\ poller[u] \in Listening
    BY DEF Poller, Connect, Receive, Closed, ClosedAnswered, Silence, SilenceAnswered, PollControl,
           daemonVars, Listening, Asking
  <1>2. \/ Receive(u)
        \/ Connect(u)
        \/ UNCHANGED <<inbox, sawStart, subscribed>>
    BY DEF Poller, Closed, ClosedAnswered, Silence, SilenceAnswered, PollControl
  <1>3. /\ DaemonTyped'
        /\ inbox' = inbox \/ (inbox[u] # <<>> /\ inbox' = [inbox EXCEPT ![u] = Tail(@)])
    <2>1. CASE Receive(u)
      <3>1. inbox[u] \in Seq(Messages) /\ inbox[u] # <<>> /\ inbox' = [inbox EXCEPT ![u] = Tail(@)]
        BY <2>1 DEF Receive, DaemonTyped
      <3>2. sawStart' \in [Uploads -> BOOLEAN] /\ UNCHANGED subscribed
        BY <2>1 DEF Receive, DaemonTyped
      <3>3. inbox' \in [Uploads -> Seq(Messages)]
        BY <3>1, Hearing DEF DaemonTyped
      <3> QED BY <1>1, <3>1, <3>2, <3>3 DEF DaemonTyped
    <2>2. CASE Connect(u)
      BY <1>1, <2>2 DEF Connect, DaemonTyped
    <2>3. CASE UNCHANGED <<inbox, sawStart, subscribed>>
      BY <1>1, <2>3 DEF DaemonTyped
    <2> QED BY <1>2, <2>1, <2>2, <2>3
  <1>4. ASSUME crashes = 0
        PROVE  OneJob' /\ \A v \in Uploads : (NothingYet(v) /\ HearsItsOwn(v) /\ TellsTruth(v))'
    <2>1. OneJob /\ \A v \in Uploads : NothingYet(v) /\ HearsItsOwn(v) /\ TellsTruth(v)
      BY <1>4 DEF TruthInv
    <2>2. OneJob'
      BY <1>1, <2>1 DEF OneJob
    <2>3. u = owner /\ \A v \in Uploads : v # u => poller[v] \notin Listening
      BY <1>1 DEF IInv, PollerOwnsStatus
    <2>4. ASSUME NEW v \in Uploads
          PROVE  NothingYet(v)'
      <3>1. handler[v] \in {"header", "begin", "request"} => v # u
        BY <1>1 DEF IInv, PollerIsFresh, Listening, Asking
      <3>2. v # u => inbox'[v] = inbox[v] /\ sawStart'[v] = sawStart[v]
        BY <1>2, <1>3 DEF Receive, Connect, DaemonTyped
      <3> QED BY <1>1, <2>1, <3>1, <3>2 DEF NothingYet
    <2>5. ASSUME NEW m \in {"start", "success"}, Heard(u, m)'
          PROVE  Heard(u, m)
      <3>1. inbox[u] \in Seq(Messages)
        BY DEF DaemonTyped
      <3>2. inbox'[u] = inbox[u] \/ (inbox[u] # <<>> /\ inbox'[u] = Tail(inbox[u]))
        BY <1>3 DEF DaemonTyped
      <3>3. PICK i \in 1..Len(inbox'[u]) : inbox'[u][i] = m
        BY <2>5 DEF Heard
      <3>4. CASE inbox'[u] = inbox[u]
        BY <3>3, <3>4 DEF Heard
      <3>5. CASE inbox[u] # <<>> /\ inbox'[u] = Tail(inbox[u])
        <4>1. i + 1 \in 1..Len(inbox[u]) /\ inbox[u][i + 1] = m
          BY <3>1, <3>3, <3>5
        <4> QED BY <4>1 DEF Heard
      <3> QED BY <3>2, <3>4, <3>5
    <2>6. ASSUME NEW v \in Uploads
          PROVE  HearsItsOwn(v)'
      <3>1. CASE v # u
        <4>1. poller'[v] = poller[v]
          BY <3>1 DEF Poller, Connect, Receive, Closed, ClosedAnswered, Silence, SilenceAnswered,
                      PollControl, Settled, Conclude, IInv, Typed
        <4> QED BY <2>3, <3>1, <4>1 DEF HearsItsOwn
      <3>2. CASE v = u
        <4>1. sawStart'[u] => sawStart[u] \/ Heard(u, "start")
          <5>1. Receive(u) /\ Head(inbox[u]) = "start" => Heard(u, "start")
            BY Hearing DEF Receive, Heard, DaemonTyped
          <5> QED BY <1>2, <5>1 DEF Receive, Connect, DaemonTyped
        <4>2. Started(u)' <=> Started(u)
          BY <1>1 DEF Started
        <4>3. /\ poller'[u] # "closed"
              /\ poller'[u] \in {"progress", "silence"} => subscribed'[u]
              /\ poller'[u] = "silence" => sawStart'[u]
          <5>0. HearsItsOwn(u) /\ poller[u] \in Listening
            BY <1>1, <2>1
          <5>1. CASE Connect(u)
            BY <5>1 DEF Connect, Conclude, DaemonTyped, IInv, Typed
          <5>2. CASE Closed(u) \/ ClosedAnswered(u)
            BY <5>0, <5>2 DEF Closed, ClosedAnswered, HearsItsOwn
          <5>3. CASE Receive(u)
            BY <5>0, <5>3 DEF Receive, Conclude, HearsItsOwn, IInv, Typed
          <5>4. CASE Silence(u)
            BY <5>0, <5>4 DEF Silence, Conclude, HearsItsOwn, IInv, Typed
          <5>5. CASE SilenceAnswered(u)
            <6>1. UNCHANGED <<subscribed, sawStart>> /\ subscribed[u] /\ sawStart[u]
              BY <5>0, <5>5 DEF SilenceAnswered, HearsItsOwn
            <6>2. poller'[u] # "closed"
              BY <5>5 DEF SilenceAnswered, Settled, Conclude, IInv, Typed
            <6> QED BY <6>1, <6>2
          <5>6. CASE PollControl(u)
            BY <5>6 DEF PollControl, Settled, Conclude, IInv, Typed
          <5> QED BY <5>1, <5>2, <5>3, <5>4, <5>5, <5>6 DEF Poller
        <4> QED BY <1>1, <2>1, <2>5, <3>2, <4>1, <4>2, <4>3 DEF HearsItsOwn
      <3> QED BY <3>1, <3>2
    <2>7. ASSUME state' = "Success", poller'[u] = "ended"
          PROVE  outcome[u] = "success"
      <3>0. state # "Success" /\ poller[u] # "ended" /\ HearsItsOwn(u)
        BY <1>1, <2>1 DEF IInv, PollerOwnsStatus, Busy, Listening, Asking
      <3>1. CASE Receive(u)
        <4>1. Head(inbox[u]) = "success"
          BY <2>7, <3>0, <3>1 DEF Receive, Conclude
        <4>2. Heard(u, "success")
          BY <3>1, <4>1, Hearing DEF Receive, Heard, DaemonTyped
        <4> QED BY <1>1, <3>0, <4>2 DEF HearsItsOwn
      <3>2. CASE Closed(u) \/ ClosedAnswered(u)
        BY <1>1, <3>0, <3>2 DEF Closed, ClosedAnswered, HearsItsOwn
      <3>3. CASE SilenceAnswered(u)
        <4>1. PICK answer \in Status \ {"installing"} :
                Conclude(u, IF Verdict(answer) = "failure" THEN "Failure" ELSE "Success")
          BY <2>7, <3>0, <3>3 DEF SilenceAnswered, Settled, Conclude
        <4>2. sawStart[u] /\ Verdict(answer) # "failure"
          BY <1>1, <2>7, <3>0, <3>3, <4>1 DEF SilenceAnswered, Conclude, HearsItsOwn
        <4>3. phase # "run"
          BY <4>1 DEF Status
        <4>4. outcome[u] # "none"
          BY <1>1, <3>0, <4>2, <4>3 DEF HearsItsOwn, Started
        <4>5. job = Nobody /\ last = outcome[u] /\ outcome[u] \in {"success", "failure"}
          BY <1>1, <2>1, <3>0, <4>4, ConstantsAssumption DEF HearsItsOwn, OneJob
        <4>6. Verdict(answer) = last
          BY <2>1, <4>1, <4>5 DEF Status, Verdict, OneJob
        <4> QED BY <4>2, <4>5, <4>6
      <3>4. CASE Connect(u) \/ Silence(u)
        BY <2>7, <3>0, <3>4 DEF Connect, Silence, Conclude
      <3>5. CASE PollControl(u)
        BY <2>7, <3>5 DEF PollControl, Settled, Conclude, IInv, Typed
      <3> QED BY <3>1, <3>2, <3>3, <3>4, <3>5 DEF Poller
    <2>8. \A v \in Uploads : TellsTruth(v)'
      BY <1>1, <2>3, <2>7 DEF TellsTruth
    <2> QED BY <2>2, <2>4, <2>6, <2>8
  <1> QED BY <1>1, <1>3, <1>4 DEF TruthInv

(***************************************************************************)
(* The daemon, which reports its one job to whoever listens.               *)
(***************************************************************************)
LEMMA ReportTruth ==
  ASSUME DaemonTyped, NEW m \in Messages, Report(m)
  PROVE  /\ inbox' \in [Uploads -> Seq(Messages)]
         /\ \A u \in Uploads :
              /\ poller[u] = "none" => inbox'[u] = inbox[u]
              /\ \A n : Heard(u, n)' => Heard(u, n) \/ n = m
PROOF
  <1>1. \A u \in Uploads : inbox[u] \in Seq(Messages)
    BY DEF DaemonTyped
  <1>2. inbox' \in [Uploads -> Seq(Messages)]
    BY <1>1, Hearing DEF Report, DaemonTyped
  <1>3. \A u \in Uploads : poller[u] = "none" => inbox'[u] = inbox[u]
    BY DEF Report
  <1>4. ASSUME NEW u \in Uploads, NEW n, Heard(u, n)'
        PROVE  Heard(u, n) \/ n = m
    <2>1. inbox'[u] = inbox[u] \/ inbox'[u] = Append(inbox[u], m)
      BY DEF Report
    <2> QED BY <1>1, <1>4, <2>1, Hearing DEF Heard
  <1> QED BY <1>2, <1>3, <1>4

LEMMA DaemonTruth ==
  ASSUME IInv, DaemonTyped, TruthInv, Daemon
  PROVE  DaemonTyped' /\ TruthInv'
PROOF
  <1>0. UNCHANGED <<state, owner, handler, poller, sawStart>>
    BY DEF Daemon, DaemonStarts, DaemonProgresses, DaemonFinishes, DaemonCrashes, DaemonRestarts,
           clientVars
  <1>1. CASE DaemonCrashes
    <2>1. DaemonTyped' /\ crashes' # 0
      BY <1>0, <1>1 DEF DaemonCrashes, clientVars, DaemonTyped
    <2> QED BY <2>1 DEF TruthInv
  <1>2. CASE DaemonRestarts
    <2>1. DaemonTyped'
      BY <1>0, <1>2 DEF DaemonRestarts, DaemonTyped
    <2>2. crashes # 0 /\ crashes' = crashes
      BY <1>2 DEF DaemonRestarts, TruthInv, OneJob
    <2> QED BY <2>1, <2>2 DEF TruthInv
  <1>3. \A u \in Uploads : handler[u] \in {"header", "begin", "request"} => poller[u] = "none"
    BY DEF IInv, PollerIsFresh
  <1>4. CASE DaemonStarts \/ DaemonProgresses
    <2>1. PICK m \in {"start", "idle"} :
            /\ Report(m) /\ m \in Messages
            /\ UNCHANGED <<subscribed, job, last, outcome, crashes>>
            /\ m = "start" => phase' = "run" /\ phase \in {"accepted", "run"}
            /\ m = "idle" => phase' = phase
            /\ phase = "run" => phase' = "run"
            /\ phase' = "idle" <=> phase = "idle"
            /\ phase' \in {"idle", "run"}
      BY <1>4 DEF DaemonStarts, DaemonProgresses, Messages
    <2>2. /\ DaemonTyped'
          /\ \A u \in Uploads :
               /\ poller[u] = "none" => inbox'[u] = inbox[u]
               /\ \A n : Heard(u, n)' => Heard(u, n) \/ n = m
      BY <1>0, <2>1, ReportTruth DEF DaemonTyped
    <2>3. ASSUME crashes = 0
          PROVE  OneJob' /\ \A v \in Uploads : (NothingYet(v) /\ HearsItsOwn(v) /\ TellsTruth(v))'
      <3>1. OneJob /\ \A v \in Uploads : NothingYet(v) /\ HearsItsOwn(v) /\ TellsTruth(v)
        BY <2>3 DEF TruthInv
      <3>2. OneJob'
        BY <2>1, <3>1 DEF OneJob
      <3>3. ASSUME NEW v \in Uploads
            PROVE  (NothingYet(v) /\ HearsItsOwn(v) /\ TellsTruth(v))'
        <4>1. NothingYet(v)'
          BY <1>0, <1>3, <2>1, <2>2, <3>1 DEF NothingYet
        <4>2. TellsTruth(v)'
          BY <1>0, <2>1, <3>1 DEF TellsTruth
        <4>3. Started(v) => Started(v)'
          BY <2>1 DEF Started
        <4>4. poller[v] \in Listening /\ m = "start" => Started(v)'
          BY <2>1, <3>1 DEF HearsItsOwn, OneJob, Started
        <4>5. HearsItsOwn(v)'
          BY <1>0, <2>1, <2>2, <3>1, <4>3, <4>4 DEF HearsItsOwn
        <4> QED BY <4>1, <4>2, <4>5
      <3> QED BY <3>2, <3>3
    <2> QED BY <2>1, <2>2, <2>3 DEF TruthInv
  <1>5. CASE DaemonFinishes
    <2>1. PICK result \in {"success", "failure"} :
            /\ last' = result /\ outcome' = [outcome EXCEPT ![job] = result]
            /\ Report(result) \/ UNCHANGED inbox
      BY <1>5 DEF DaemonFinishes
    <2>2. /\ phase = "run" /\ phase' = "idle" /\ job' = Nobody
          /\ UNCHANGED <<subscribed, crashes>> /\ result \in Messages
      BY <1>5 DEF DaemonFinishes, Messages
    <2>3. /\ inbox' \in [Uploads -> Seq(Messages)]
          /\ \A u \in Uploads :
               /\ poller[u] = "none" => inbox'[u] = inbox[u]
               /\ \A n : Heard(u, n)' => Heard(u, n) \/ n = result
      <3>1. CASE Report(result)
        BY <2>2, <3>1, ReportTruth
      <3>2. CASE UNCHANGED inbox
        BY <3>2 DEF DaemonTyped, Heard
      <3> QED BY <2>1, <3>1, <3>2
    <2>4. DaemonTyped'
      BY <1>0, <2>1, <2>2, <2>3 DEF DaemonTyped
    <2>5. ASSUME crashes = 0
          PROVE  OneJob' /\ \A v \in Uploads : (NothingYet(v) /\ HearsItsOwn(v) /\ TellsTruth(v))'
      <3>1. OneJob /\ \A v \in Uploads : NothingYet(v) /\ HearsItsOwn(v) /\ TellsTruth(v)
        BY <2>5 DEF TruthInv
      <3>2. job \in Uploads /\ outcome[job] = "none"
        BY <2>2, <3>1 DEF OneJob, DaemonTyped
      <3>3. OneJob'
        BY <2>2 DEF OneJob
      <3>4. ASSUME NEW v \in Uploads
            PROVE  (NothingYet(v) /\ HearsItsOwn(v) /\ TellsTruth(v))'
        <4>1. /\ v # job => outcome'[v] = outcome[v]
              /\ v = job => outcome'[v] = result
          BY <2>1, <3>2 DEF DaemonTyped
        <4>2. NothingYet(v)'
          BY <1>0, <1>3, <2>2, <2>3, <3>1, <4>1, ConstantsAssumption DEF NothingYet
        <4>3. TellsTruth(v)'
          BY <1>0, <3>1, <3>2, <4>1 DEF TellsTruth
        <4>4. ASSUME poller[v] \in Listening
              PROVE  /\ v = job /\ outcome'[v] = result /\ ~Heard(v, "success")
                     /\ poller[v] # "closed"
                     /\ poller[v] \in {"progress", "silence"} => subscribed[v]
                     /\ poller[v] = "silence" => sawStart[v]
          BY <3>1, <3>2, <4>1, <4>4, ConstantsAssumption DEF HearsItsOwn
        <4>5. HearsItsOwn(v)'
          BY <1>0, <2>1, <2>2, <2>3, <4>4 DEF HearsItsOwn, Started
        <4> QED BY <4>2, <4>3, <4>5
      <3> QED BY <3>3, <3>4
    <2> QED BY <2>2, <2>4, <2>5 DEF TruthInv
  <1> QED BY <1>1, <1>2, <1>4, <1>5 DEF Daemon

(***************************************************************************)
(* FailureIsReported: as long as the daemon has not crashed, a poller on   *)
(* the progress socket ends with Success only for an image that was        *)
(* installed, whether or not the daemon reported the end of its job.       *)
(***************************************************************************)
THEOREM FailureIsNoSuccess == Spec => []FailureIsReported
PROOF
<1>1. Init => DaemonTyped /\ TruthInv
  <2> SUFFICES ASSUME Init
               PROVE  DaemonTyped /\ TruthInv
    OBVIOUS
  <2>1. DaemonTyped
    BY DEF Init, DaemonTyped
  <2>2. OneJob
    BY DEF Init, OneJob
  <2>3. \A u \in Uploads : NothingYet(u) /\ HearsItsOwn(u) /\ TellsTruth(u)
    BY ConstantsAssumption DEF Init, NothingYet, HearsItsOwn, TellsTruth, Listening, Asking
  <2> QED BY <2>1, <2>2, <2>3 DEF TruthInv
<1>2. IInv /\ DaemonTyped /\ TruthInv /\ [Next]_vars => (DaemonTyped /\ TruthInv)'
  <2> SUFFICES ASSUME IInv, DaemonTyped, TruthInv, [Next]_vars
               PROVE  (DaemonTyped /\ TruthInv)'
    OBVIOUS
  <2>1. CASE \E u \in Uploads : Handler(u)
    BY <2>1, HandlerTruth
  <2>2. CASE \E u \in Uploads : Poller(u)
    BY <2>2, PollerTruth
  <2>3. CASE Daemon
    BY <2>3, DaemonTruth
  <2>4. CASE UNCHANGED vars
    <3>1. DaemonTyped'
      BY <2>4 DEF vars, clientVars, daemonVars, DaemonTyped
    <3>2. TruthInv'
      BY <2>4 DEF vars, clientVars, daemonVars, TruthInv, OneJob, NothingYet, HearsItsOwn, TellsTruth,
                  Heard, Started
    <3> QED BY <3>1, <3>2
  <2> QED BY <2>1, <2>2, <2>3, <2>4 DEF Next
<1>3. TruthInv => FailureIsReported
  BY DEF TruthInv, TellsTruth, FailureIsReported
<1> QED BY <1>1, <1>2, <1>3, StatusInvariant, PTL DEF Spec
===============================================================================
