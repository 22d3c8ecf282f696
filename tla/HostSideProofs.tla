--------------------------- MODULE HostSideProofs ---------------------------
(***************************************************************************)
(* Proofs about the viewer's end of the cable, for any number of channels, *)
(* connections, buffered records, cameras and chunks of an update.         *)
(*                                                                         *)
(* HostBridge: no thread of a session is left when its handle has been     *)
(* given back, however the session ended, a control callback is given the  *)
(* answer to its own request, every queue and socket keeps its type, and   *)
(* the destructor never waits for a worker that waits for a viewer.        *)
(* Viewer: nothing runs on behalf of a connection that is not there, every *)
(* variable keeps its type, an upload is never without a chunk under way,  *)
(* and an update that is watched is always on its way to its reboot.       *)
(***************************************************************************)
EXTENDS HostBridge, Viewer, WellFoundedInduction, TLAPS

(***************************************************************************)
(* The worker exists from the ServerHello on until ~Impl() has joined it,  *)
(* and it ends only when the reader has.                                   *)
(***************************************************************************)
ThreadInv ==
  /\ ui \in {"off", "bind", "hello", "retry", "answer"} => worker = "none" /\ reader = "none"
  /\ worker = "ended" => reader = "ended"

(***************************************************************************)
(* Every step of Next keeps it; GoOn leads from a channel to the next.     *)
(***************************************************************************)
LEMMA ThreadStep ==
  ASSUME ThreadInv, [BridgeNext]_bridgeVars
  PROVE  ThreadInv'
PROOF
  <1> USE DEF ThreadInv
  <1>1. CASE Start
    BY <1>1 DEF Start, claim, make_listeners, client_hello, complete, run, cable
  <1>2. CASE destroy
    BY <1>2 DEF destroy, run, cable
  <1>3. CASE Destroy
    <2>1. CASE sweep
      BY <2>1 DEF sweep, run, cable
    <2>2. CASE join_worker
      BY <2>2 DEF join_worker
    <2> QED BY <1>3, <2>1, <2>2 DEF Destroy
  <1>4. CASE Reader \/ reader_stops
    BY <1>4 DEF Reader, read_record, read_bad, read_failed, reader_stops, run
  <1>5. CASE Worker
    <2>1. CASE poll
      BY <2>1 DEF poll, cable
    <2>2. CASE accept
      BY <2>2 DEF accept, GoOn, cable
    <2>3. CASE recv_data \/ recv_end
      BY <2>3 DEF recv_data, recv_end, GoOn, cable
    <2>4. CASE send_record
      BY <2>4 DEF send_record, GoOn
    <2>5. CASE check \/ drain \/ write
      BY <2>5 DEF check, drain, write, run, cable
    <2>6. CASE leave_loop \/ join_reader
      BY <2>6 DEF leave_loop, join_reader, cable
    <2> QED BY <1>5, <2>1, <2>2, <2>3, <2>4, <2>5, <2>6 DEF Worker
  <1>6. CASE \E i \in Channels : connect(i) \/ write_request(i) \/ abort(i)
    BY <1>6 DEF connect, write_request, abort, run, cable
  <1>7. CASE UNCHANGED bridgeVars
    BY <1>7 DEF bridgeVars, run, cable
  <1> QED BY <1>1, <1>2, <1>3, <1>4, <1>5, <1>6, <1>7 DEF BridgeNext

(***************************************************************************)
(* HandleOutlivesThreads: ~Impl() gives the libusb handle back only when   *)
(* neither worker nor reader is there to use it, whichever way run() was   *)
(* left.                                                                   *)
(***************************************************************************)
THEOREM HandleIsLast == BridgeSpec => []HandleOutlivesThreads
<1>1. BridgeInit => ThreadInv
  BY DEF BridgeInit, ThreadInv
<1>2. ThreadInv /\ [BridgeNext]_bridgeVars => ThreadInv'
  BY ThreadStep
<1>3. ThreadInv => HandleOutlivesThreads
  BY DEF ThreadInv, HandleOutlivesThreads
<1> QED BY <1>1, <1>2, <1>3, PTL DEF BridgeSpec

-------------------------------------------------------------------------------
(* A set of numbers has a least one: FirstOf() and FirstEnabled() return it. *)
LEMMA LeastNat ==
  ASSUME NEW T, T \subseteq Nat, T # {}
  PROVE  \E i \in T : \A j \in T : i <= j
PROOF
  <1>1. PICK i \in T : \A j \in T : ~(<<j, i>> \in OpToRel(<, Nat))
    BY WFMin, NatLessThanWellFounded
  <1>2. \A j \in T : ~(j < i)
    BY <1>1, Zenon DEF OpToRel
  <1> QED BY <1>2

(* FirstOf() returns one of them. *)
LEMMA FirstIs ==
  ASSUME NEW T, T \subseteq Channels, T # {}
  PROVE  FirstOf(T) \in T
PROOF
  <1>1. \E i \in T : \A j \in T : i <= j
    BY LeastNat, BridgeAssumption
  <1> QED BY <1>1 DEF FirstOf

(***************************************************************************)
(* Behind BridgeTypeOK: the queues hold connections of their channel; what *)
(* poll() announced is still in the backlogs run() has yet to come to; and *)
(* what it sends comes from a client.                                      *)
(***************************************************************************)
Records == [channel : Channels, of : Ids] \cup {Bad}

Announced ==
  /\ worker \in {"accept", "recv", "send"} => hits.new \subseteq Channels
  /\ worker = "accept" => \A j \in hits.new : j >= at => backlog[j] # <<>>
  /\ worker \in {"recv", "send"} => \A j \in hits.new : j > at => backlog[j] # <<>>

BridgeInv ==
  /\ BridgeTypeOK /\ Announced
  /\ backlog \in [Channels -> Seq(Ids)] /\ asked \in [Channels -> Seq(Ids)]
  /\ inbound \in Seq(Records)
  /\ worker = "send" => clients[at] \in Ids
  /\ worker = "write" => hits.of \in Ids

(* GoOn leads to a channel, and leaves the announced ones it has not come to. *)
LEMMA GoOnTyped ==
  ASSUME BridgeInv, GoOn, NEW b, \A j \in Channels : j > at => (backlog[j] # <<>> => b[j] # <<>>),
         worker \in {"accept", "recv", "send"}
  PROVE  /\ at' \in Channels /\ worker' \in {"check", "accept"}
         /\ worker' = "accept" => /\ hits'.new \subseteq Channels
                                  /\ \A j \in hits'.new : j >= at' => b[j] # <<>>
PROOF
  <1>1. Channels \subseteq Nat /\ Channels # {} /\ at \in Channels
    BY BridgeAssumption DEF BridgeInv, BridgeTypeOK
  <1>2. CASE NextChannel(at) = {}
    <2>1. at' = FirstOf(Channels) /\ worker' = "check"
      BY <1>2 DEF GoOn
    <2>2. FirstOf(Channels) \in Channels
      BY <1>1, FirstIs
    <2> QED BY <2>1, <2>2
  <1>3. CASE NextChannel(at) # {}
    <2>1. FirstOf(NextChannel(at)) \in NextChannel(at)
      BY <1>1, <1>3, FirstIs DEF NextChannel
    <2>2. at' \in Channels /\ at' > at /\ worker' = "accept" /\ hits' = hits
      BY <1>3, <2>1 DEF GoOn, NextChannel
    <2>3. hits.new \subseteq Channels /\ \A j \in hits.new : j > at => backlog[j] # <<>>
      <3>1. CASE worker = "accept"
        <4>1. hits.new \subseteq Channels /\ \A j \in hits.new : j >= at => backlog[j] # <<>>
          BY <3>1 DEF BridgeInv, Announced
        <4>2. \A j \in hits.new : j > at => j >= at
          BY <1>1, <4>1
        <4> QED BY <4>1, <4>2
      <3>2. CASE worker \in {"recv", "send"}
        BY <3>2 DEF BridgeInv, Announced
      <3> QED BY <3>1, <3>2
    <2>4. ASSUME NEW j \in hits.new, j >= at' PROVE b[j] # <<>>
      <3>1. j \in Nat /\ at \in Nat /\ at' \in Nat
        BY <1>1, <2>2, <2>3
      <3>2. j > at
        BY <2>2, <2>4, <3>1
      <3> QED BY <2>3, <3>2
    <2> QED BY <2>2, <2>3, <2>4
  <1> QED BY <1>2, <1>3

(* The next connection of a channel has a number. *)
LEMMA NextConnection ==
  ASSUME NEW i \in Channels, NEW n \in Ids \cup {0}, n < MaxClients[i]
  PROVE  n + 1 \in Ids
PROOF
  <1>1. MaxClients[i] \in Nat /\ n \in Nat
    <2>1. Ids \subseteq Nat
      BY BridgeAssumption DEF Ids
    <2> QED BY <2>1, BridgeAssumption
  <1>2. n + 1 \in 1..MaxClients[i]
    BY <1>1
  <1> QED BY <1>2 DEF Ids

(* What is appended is of the kind the queue holds, and the queue is not empty then. *)
LEMMA AppendTyped ==
  ASSUME NEW S, NEW s \in Seq(S), NEW e \in S
  PROVE  Append(s, e) \in Seq(S) /\ Append(s, e) # <<>>
PROOF
  <1>1. Append(s, e) \in Seq(S) /\ Len(Append(s, e)) = Len(s) + 1
    OBVIOUS
  <1>2. Len(s) \in Nat /\ Len(<<>>) = 0
    OBVIOUS
  <1>3. Len(Append(s, e)) # Len(<<>>)
    BY <1>1, <1>2
  <1> QED BY <1>1, <1>3

(* Every step of the bridge keeps the invariant, which holds when it starts. *)
LEMMA BridgeStep ==
  ASSUME BridgeInv, [BridgeNext]_bridgeVars
  PROVE  BridgeInv'
PROOF
  <1>1. /\ Channels \subseteq Nat /\ FirstOf(Channels) \in Channels
        /\ None \in [Channels -> Ids \cup {0}]
    BY BridgeAssumption, FirstIs DEF None
  <1> USE DEF BridgeInv, BridgeTypeOK, Announced
  <1>2. CASE Start
    BY <1>2 DEF Start, claim, make_listeners, client_hello, complete, run, ends, viewer, cable
  <1>3. CASE destroy
    BY <1>1, <1>3 DEF destroy, run, ends, cable
  <1>4. CASE sweep
    BY <1>4 DEF sweep, run, viewer, cable
  <1>5. CASE join_worker
    <2>1. <<>> \in Seq(Ids) /\ <<>> \in Seq(Records)
      OBVIOUS
    <2>2. [i \in Channels |-> <<>>] \in [Channels -> Seq(Ids)]
      BY <2>1
    <2>3. /\ ui' = "off" /\ stopping' = FALSE /\ usbFailed' = FALSE /\ worker' = "none"
          /\ at' \in Channels /\ reader' \in {"none", "reading", "ended"}
          /\ clients' \in [Channels -> Ids \cup {0}] /\ connection' \in [Channels -> Ids \cup {0}]
          /\ opened' \in [Channels -> Ids \cup {0}] /\ missed' = {} /\ unread' = {} /\ cut' = {}
      BY <1>1, <1>5 DEF join_worker
    <2>4. /\ backlog' \in [Channels -> Seq(Ids)] /\ asked' \in [Channels -> Seq(Ids)]
          /\ inbound' \in Seq(Records)
      BY <1>5, <2>1, <2>2 DEF join_worker
    <2> QED BY <2>3, <2>4
  <1>6. CASE \E i \in Channels : read_record(i)
    <2>1. PICK i \in Channels : read_record(i)
      BY <1>6
    <2>2. Head(asked[i]) \in Ids /\ Tail(asked[i]) \in Seq(Ids)
      BY <2>1 DEF read_record
    <2>3. [channel |-> i, of |-> Head(asked[i])] \in Records
      BY <2>2 DEF Records
    <2>4. inbound' \in Seq(Records) /\ asked' \in [Channels -> Seq(Ids)]
      BY <2>1, <2>2, <2>3 DEF read_record
    <2> QED BY <2>1, <2>4 DEF read_record, run, ends, viewer
  <1>7. CASE read_bad
    <2>1. inbound' \in Seq(Records)
      BY <1>7 DEF read_bad, Records
    <2> QED BY <1>7, <2>1 DEF read_bad, run, ends, viewer
  <1>8. CASE read_failed \/ reader_stops
    BY <1>8 DEF read_failed, reader_stops, run, ends, viewer
  <1>9. CASE poll
    BY <1>1, <1>9 DEF poll, ends, viewer, cable
  <1>10. CASE accept
    <2>1. at \in hits.new => Head(backlog[at]) \in Ids /\ Tail(backlog[at]) \in Seq(Ids)
      BY <1>1, <1>10 DEF accept
    <2>2. /\ clients' \in [Channels -> Ids \cup {0}] /\ backlog' \in [Channels -> Seq(Ids)]
          /\ unread' \subseteq unread /\ cut' \subseteq cut /\ missed' \subseteq missed \cup {at}
          /\ \A j \in Channels : j # at => backlog'[j] = backlog[j]
      BY <1>10, <2>1 DEF accept
    <2>3. at' \in Channels /\ worker' \in {"recv", "check", "accept"} /\ Announced'
      <3>1. CASE worker' = "recv" /\ UNCHANGED <<at, hits>>
        <4>0. worker = "accept"
          BY <1>10 DEF accept
        <4>1. hits.new \subseteq Channels /\ \A j \in hits.new : j >= at => backlog[j] # <<>>
          BY <4>0
        <4>2. ASSUME NEW j \in hits.new, j > at PROVE backlog'[j] # <<>>
          <5>1. j \in Channels /\ j \in Nat /\ at \in Nat
            BY <1>1, <4>1
          <5>2. j >= at /\ j # at
            BY <4>2, <5>1
          <5>3. backlog[j] # <<>>
            BY <4>1, <5>2
          <5> QED BY <2>2, <5>1, <5>2, <5>3
        <4> QED BY <3>1, <4>1, <4>2
      <3>2. CASE GoOn
        <4>1. \A j \in Channels : j > at => (backlog[j] # <<>> => backlog'[j] # <<>>)
          BY <1>1, <2>2
        <4>2. /\ at' \in Channels /\ worker' \in {"check", "accept"}
              /\ worker' = "accept" => /\ hits'.new \subseteq Channels
                                       /\ \A j \in hits'.new : j >= at' => backlog'[j] # <<>>
          BY <1>10, <3>2, <4>1, GoOnTyped DEF accept
        <4> QED BY <4>2
      <3> QED BY <1>10, <3>1, <3>2 DEF accept
    <2> QED BY <1>10, <2>2, <2>3 DEF accept, cable
  <1>11. CASE recv_data
    BY <1>11 DEF recv_data, ends, viewer, cable
  <1>12. CASE recv_end
    <2>1. /\ at' \in Channels /\ worker' \in {"check", "accept"}
          /\ worker' = "accept" => /\ hits'.new \subseteq Channels
                                   /\ \A j \in hits'.new : j >= at' => backlog[j] # <<>>
      BY <1>12, GoOnTyped DEF recv_end
    <2>2. /\ clients' \in [Channels -> Ids \cup {0}] /\ unread' \subseteq unread
          /\ cut' \subseteq cut /\ missed' \subseteq missed
      BY <1>12 DEF recv_end, CloseClient
    <2> QED BY <1>12, <2>1, <2>2 DEF recv_end, cable
  <1>13. CASE send_record
    <2>1. unread' \subseteq unread /\ asked' \in [Channels -> Seq(Ids)]
      <3>1. clients[at] \in Ids /\ at \in Channels /\ asked[at] \in Seq(Ids)
        BY <1>13 DEF send_record
      <3>2. Append(asked[at], clients[at]) \in Seq(Ids)
        BY <3>1
      <3> QED BY <1>13, <3>1, <3>2 DEF send_record
    <2>2. CASE GoOn /\ UNCHANGED usbFailed
      <3>1. /\ at' \in Channels /\ worker' \in {"check", "accept"}
            /\ worker' = "accept" => /\ hits'.new \subseteq Channels
                                     /\ \A j \in hits'.new : j >= at' => backlog[j] # <<>>
        BY <1>13, <2>2, GoOnTyped DEF send_record
      <3> QED BY <1>13, <2>1, <2>2, <3>1 DEF send_record, ends
    <2>3. CASE usbFailed' = TRUE /\ worker' = "check" /\ UNCHANGED <<asked, at, hits>>
      BY <1>13, <2>1, <2>3 DEF send_record, ends
    <2> QED BY <1>13, <2>2, <2>3 DEF send_record
  <1>14. CASE check
    BY <1>14 DEF check, ends, viewer, cable
  <1>15. CASE drain
    <2>1. inbound # <<>> => Tail(inbound) \in Seq(Records) /\ Head(inbound) \in Records
      OBVIOUS
    <2>2. inbound # <<>> /\ Head(inbound) # Bad =>
            Head(inbound).channel \in Channels /\ Head(inbound).of \in Ids
      BY <2>1 DEF Records
    <2> QED BY <1>15, <2>1, <2>2 DEF drain, run, ends, viewer
  <1>16. CASE write
    <2>1. /\ clients' \in [Channels -> Ids \cup {0}] /\ unread' \subseteq unread
          /\ cut' \subseteq cut /\ missed' \subseteq missed
      BY <1>16 DEF write, CloseClient
    <2> QED BY <1>1, <1>16, <2>1 DEF write, cable
  <1>17. CASE leave_loop
    BY <1>17 DEF leave_loop, ends, viewer, cable
  <1>18. CASE join_reader
    BY <1>1, <1>18 DEF join_reader, viewer, cable
  <1>19. CASE \E i \in Channels : connect(i)
    <2>1. PICK i \in Channels : connect(i)
      BY <1>19
    <2>2. opened[i] + 1 \in Ids
      BY <2>1, NextConnection DEF connect
    <2>3. opened'[i] = opened[i] + 1
      BY <2>1 DEF connect
    <2>4. /\ opened' \in [Channels -> Ids \cup {0}] /\ connection' \in [Channels -> Ids \cup {0}]
          /\ backlog' \in [Channels -> Seq(Ids)]
          /\ \A j \in Channels : backlog[j] # <<>> => backlog'[j] # <<>>
      <3>0. /\ backlog' = [backlog EXCEPT ![i] = Append(@, opened'[i])]
            /\ connection' = [connection EXCEPT ![i] = opened'[i]]
            /\ opened' = [opened EXCEPT ![i] = @ + 1]
        BY <2>1 DEF connect
      <3>1. backlog[i] \in Seq(Ids) /\ backlog'[i] = Append(backlog[i], opened'[i])
        BY <3>0
      <3>2. backlog'[i] \in Seq(Ids) /\ backlog'[i] # <<>>
        BY <2>2, <2>3, <3>1, AppendTyped
      <3>3. \A j \in Channels : j # i => backlog'[j] = backlog[j]
        BY <3>0
      <3>4. DOMAIN backlog' = Channels /\ backlog' = [j \in Channels |-> backlog'[j]]
        BY <3>0
      <3>5. \A j \in Channels : backlog'[j] \in Seq(Ids) /\ (backlog[j] # <<>> => backlog'[j] # <<>>)
        BY <3>2, <3>3
      <3> QED BY <2>2, <2>3, <3>0, <3>4, <3>5
    <2> QED BY <2>1, <2>4 DEF connect, cable, run
  <1>20. CASE \E i \in Channels : write_request(i) \/ abort(i)
    <2>1. PICK i \in Channels : write_request(i) \/ abort(i)
      BY <1>20
    <2>2. connection[i] \in Ids
      BY <2>1 DEF write_request, abort
    <2>3. unread' \subseteq Channels \X Ids /\ connection' \in [Channels -> Ids \cup {0}]
      <3>1. \/ unread' \subseteq unread
            \/ unread' = unread \cup {<<i, connection[i]>>}
        BY <2>1 DEF write_request, abort
      <3>2. connection' = connection \/ connection' = [connection EXCEPT ![i] = 0]
        BY <2>1 DEF write_request, abort
      <3>3. <<i, connection[i]>> \in Channels \X Ids
        BY <2>1, <2>2
      <3>4. unread' \subseteq Channels \X Ids
        BY <3>1, <3>3
      <3>5. connection' \in [Channels -> Ids \cup {0}]
        BY <3>2
      <3> QED BY <3>4, <3>5
    <2> QED BY <2>1, <2>3 DEF write_request, abort, run, ends, cable
  <1>21. CASE UNCHANGED bridgeVars
    BY <1>21 DEF bridgeVars, run, ends, viewer, cable
  <1> QED
    BY <1>2, <1>3, <1>4, <1>5, <1>6, <1>7, <1>8, <1>9, <1>10, <1>11, <1>12, <1>13, <1>14, <1>15,
       <1>16, <1>17, <1>18, <1>19, <1>20, <1>21
    DEF BridgeNext, Destroy, Reader, Worker

LEMMA BridgeStarts == BridgeInit => BridgeInv
PROOF
  <1>1. FirstOf(Channels) \in Channels /\ None \in [Channels -> Ids \cup {0}]
    BY BridgeAssumption, FirstIs DEF None
  <1>2. <<>> \in Seq(Ids) /\ <<>> \in Seq(Records)
    OBVIOUS
  <1>3. [i \in Channels |-> <<>>] \in [Channels -> Seq(Ids)]
    BY <1>2
  <1> QED BY <1>1, <1>2, <1>3 DEF BridgeInit, BridgeInv, BridgeTypeOK, Announced

(***************************************************************************)
(* What the fields of Impl and the steps of its threads may be, and what   *)
(* stands in the listeners' and the device's queues: connections that were *)
(* opened, of the channel they belong to.                                  *)
(***************************************************************************)
THEOREM BridgeTypeCorrect == BridgeSpec => []BridgeTypeOK
<1>1. BridgeInit => BridgeInv
  BY BridgeStarts
<1>2. BridgeInv /\ [BridgeNext]_bridgeVars => BridgeInv'
  BY BridgeStep
<1>3. BridgeInv => BridgeTypeOK
  BY DEF BridgeInv
<1> QED BY <1>1, <1>2, <1>3, PTL DEF BridgeSpec

(***************************************************************************)
(* Why a callback gets its own answer: m_nextId is above every id that was *)
(* given, so that no two requests of a session carry the same, and only    *)
(* requests that carry one are in m_pending.                               *)
(***************************************************************************)
CallsInv ==
  /\ m_nextId \in Nat \ {0}
  /\ idOf \in [Ids -> Nat] /\ \A c \in Ids : idOf[c] < m_nextId
  /\ \A c, d \in Ids : idOf[c] # 0 /\ idOf[c] = idOf[d] => c = d
  /\ m_pending \subseteq {c \in Ids : idOf[c] # 0}
  /\ answered \in [Ids -> Ids \cup {0}] /\ AnswerIsOwn

LEMMA CallsStep ==
  ASSUME BridgeInv, CallsInv, [BridgeNext]_bridgeVars
  PROVE  CallsInv'
PROOF
  <1>1. CASE UNCHANGED calls
    BY <1>1 DEF calls, CallsInv, AnswerIsOwn
  <1>2. CASE write
    <2>1. CASE UNCHANGED <<m_pending, answered>>
      BY <1>1, <1>2, <2>1 DEF write, calls
    <2>2. CASE /\ m_pending' = m_pending \ CallbacksFor(hits.of)
               /\ answered' = [c \in Ids |->
                    IF c \in CallbacksFor(hits.of) THEN hits.of ELSE answered[c]]
      <3>1. hits.of \in Ids
        BY <1>2 DEF write, BridgeInv
      <3>2. \A c \in CallbacksFor(hits.of) : c = hits.of
        BY <3>1 DEF CallsInv, CallbacksFor
      <3>3. UNCHANGED <<m_nextId, idOf>>
        BY <1>2 DEF write
      <3> QED BY <2>2, <3>1, <3>2, <3>3 DEF CallsInv, AnswerIsOwn
    <2> QED BY <1>2, <2>1, <2>2 DEF write
  <1>3. CASE destroy \/ join_worker
    BY <1>3 DEF destroy, join_worker, CallsInv, AnswerIsOwn
  <1>4. CASE \E i \in Channels : connect(i)
    BY <1>1, <1>4 DEF connect
  <1>5. CASE \E i \in Channels : write_request(i)
    <2>1. PICK i \in Channels : write_request(i)
      BY <1>5
    <2>2. connection[i] \in Ids
      BY <2>1 DEF write_request, BridgeInv, BridgeTypeOK
    <2>3. CASE i = ControlChannel
      <3>1. /\ idOf' = [idOf EXCEPT ![connection[i]] = m_nextId]
            /\ m_nextId' = m_nextId + 1 /\ m_pending' = m_pending \cup {connection[i]}
            /\ answered' = answered
        BY <2>1, <2>3 DEF write_request
      <3>2. /\ m_nextId' \in Nat \ {0} /\ idOf' \in [Ids -> Nat]
            /\ \A c \in Ids : idOf'[c] < m_nextId'
        BY <2>2, <3>1 DEF CallsInv
      <3>3. \A c, d \in Ids : idOf'[c] # 0 /\ idOf'[c] = idOf'[d] => c = d
        BY <2>2, <3>1 DEF CallsInv
      <3>4. m_pending' \subseteq {c \in Ids : idOf'[c] # 0}
        BY <2>2, <3>1 DEF CallsInv
      <3> QED BY <3>1, <3>2, <3>3, <3>4 DEF CallsInv, AnswerIsOwn
    <2>4. CASE i # ControlChannel
      BY <1>1, <2>1, <2>4 DEF write_request, calls
    <2> QED BY <2>3, <2>4
  <1>6. CASE \E i \in Channels : abort(i)
    <2>1. m_pending' \subseteq m_pending /\ UNCHANGED <<m_nextId, idOf, answered>>
      BY <1>6 DEF abort
    <2> QED BY <2>1 DEF CallsInv, AnswerIsOwn
  <1>7. CASE Start
    BY <1>1, <1>7 DEF Start, claim, make_listeners, client_hello, complete, viewer
  <1>8. CASE sweep \/ Reader \/ reader_stops
    BY <1>1, <1>8 DEF sweep, Reader, read_record, read_bad, read_failed, reader_stops, viewer
  <1>9. CASE poll \/ accept \/ recv_data \/ recv_end \/ send_record \/ check \/ drain
    BY <1>1, <1>9 DEF poll, accept, recv_data, recv_end, send_record, check, drain, viewer
  <1>10. CASE leave_loop \/ join_reader \/ UNCHANGED bridgeVars
    BY <1>1, <1>10 DEF leave_loop, join_reader, bridgeVars, viewer
  <1> QED
    BY <1>2, <1>3, <1>4, <1>5, <1>6, <1>7, <1>8, <1>9, <1>10 DEF BridgeNext, Destroy, Worker

(***************************************************************************)
(* AnswerIsOwn: the answer to a request of a connection that is gone       *)
(* reaches whoever holds the port, but calls nobody's callback: its id was *)
(* taken out of m_pending, and no later request carries it.                *)
(***************************************************************************)
THEOREM AnswersAreOwn == BridgeSpec => []AnswerIsOwn
<1>1. BridgeInit => BridgeInv /\ CallsInv
  <2>1. BridgeInit => CallsInv
    BY DEF BridgeInit, CallsInv, AnswerIsOwn
  <2> QED BY <2>1, BridgeStarts
<1>2. BridgeInv /\ CallsInv /\ [BridgeNext]_bridgeVars => (BridgeInv /\ CallsInv)'
  BY BridgeStep, CallsStep
<1>3. CallsInv => AnswerIsOwn
  BY DEF CallsInv
<1> QED BY <1>1, <1>2, <1>3, PTL DEF BridgeSpec

(***************************************************************************)
(* While ~Impl() waits for the worker, the worker waits for nobody that    *)
(* will not come: a client it reads from or writes to has been shut down,  *)
(* and the reader it joins has been told to stop. The one it may wait for  *)
(* in vain is a client accepted after the others had been shut down.       *)
(***************************************************************************)
NobodyWaitsForTheUi ==
  ui = "join" =>
    /\ worker # "none"
    /\ worker \in {"recv", "write"} => ClientEnded(at) \/ at \in missed
    /\ worker = "join" => reader = "ended" \/ (reader = "reading" /\ stopping)

WaitInv ==
  /\ ui \in {"open", "sweep", "join"} => worker # "none" /\ reader # "none"
  /\ worker = "join" \/ ui \in {"sweep", "join"} => stopping
  /\ worker \in {"recv", "write"} => clients[at] # 0
  /\ ui = "join" => \A i \in Channels : clients[i] # 0 => i \in cut \cup missed

(* Every step keeps it; GoOn leaves the worker with no client to wait for. *)
LEMMA WaitStep ==
  ASSUME BridgeInv, WaitInv, [BridgeNext]_bridgeVars
  PROVE  WaitInv'
PROOF
  <1>1. at \in Channels /\ clients \in [Channels -> Ids \cup {0}]
    BY DEF BridgeInv, BridgeTypeOK
  <1> USE DEF WaitInv
  <1>2. CASE Start
    BY <1>2 DEF Start, claim, make_listeners, client_hello, complete, run, ends, viewer, cable
  <1>3. CASE destroy
    BY <1>3 DEF destroy, run, ends, cable
  <1>4. CASE Destroy
    <2>1. CASE sweep
      BY <2>1 DEF sweep, run, viewer, cable
    <2>2. CASE join_worker
      BY <2>2 DEF join_worker
    <2> QED BY <1>4, <2>1, <2>2 DEF Destroy
  <1>5. CASE Reader \/ reader_stops
    BY <1>5 DEF Reader, read_record, read_bad, read_failed, reader_stops, run, ends, viewer
  <1>6. CASE poll
    BY <1>6 DEF poll, ends, viewer, cable
  <1>7. CASE accept
    <2>1. ui' = ui /\ stopping' = stopping /\ reader' = reader /\ worker = "accept"
      BY <1>7 DEF accept, cable
    <2>2. /\ \A i \in Channels : i # at => /\ clients'[i] = clients[i]
                                           /\ i \in cut <=> i \in cut'
                                           /\ i \in missed <=> i \in missed'
          /\ UNCHANGED <<clients, cut, missed>> \/ (ui = "join" => at \in missed')
      BY <1>1, <1>7 DEF accept
    <2>3. \/ worker' = "recv" /\ at' = at /\ clients'[at] # 0
          \/ worker' \in {"check", "accept"}
      BY <1>7 DEF accept, GoOn
    <2>4. ui = "join" => \A i \in Channels : clients'[i] # 0 => i \in cut' \cup missed'
      BY <2>2
    <2> QED BY <2>1, <2>3, <2>4
  <1>8. CASE recv_data
    BY <1>8 DEF recv_data, ends, viewer, cable
  <1>9. CASE recv_end \/ write
    <2>1. \/ UNCHANGED <<clients, cut, missed>>
          \/ /\ clients' = [clients EXCEPT ![at] = 0]
             /\ cut' = cut \ {at} /\ missed' = missed \ {at}
      BY <1>9 DEF recv_end, write, CloseClient
    <2>2. /\ ui' = ui /\ stopping' = stopping /\ reader' = reader
          /\ worker # "none" /\ worker' \in {"check", "accept", "drain"}
      BY <1>9 DEF recv_end, write, GoOn, cable
    <2>3. ui = "join" => \A i \in Channels : clients'[i] # 0 => i \in cut' \cup missed'
      BY <1>1, <2>1
    <2> QED BY <2>2, <2>3
  <1>10. CASE send_record
    BY <1>10 DEF send_record, GoOn, ends
  <1>11. CASE check
    BY <1>11 DEF check, ends, viewer, cable
  <1>12. CASE drain
    BY <1>12 DEF drain, run, ends, viewer
  <1>13. CASE leave_loop
    BY <1>13 DEF leave_loop, ends, viewer, cable
  <1>14. CASE join_reader
    BY <1>14 DEF join_reader, None, viewer, cable
  <1>15. CASE \E i \in Channels : connect(i) \/ write_request(i) \/ abort(i)
    BY <1>15 DEF connect, write_request, abort, run, ends, cable
  <1>16. CASE UNCHANGED bridgeVars
    BY <1>16 DEF bridgeVars, run, ends, viewer, cable
  <1> QED
    BY <1>2, <1>3, <1>4, <1>5, <1>6, <1>7, <1>8, <1>9, <1>10, <1>11, <1>12, <1>13, <1>14, <1>15,
       <1>16
    DEF BridgeNext, Worker

(***************************************************************************)
(* ~Impl() (secureusbbridge.cpp:399-424) waits for a worker that can go    *)
(* on, whatever clients connected, wrote or were replaced before - but for *)
(* the one that came too late. DestroyEnds rests on it: what TLC adds is   *)
(* that the worker, going on, arrives.                                     *)
(***************************************************************************)
THEOREM DestroyIsNotHeldUp == BridgeSpec => []NobodyWaitsForTheUi
<1> DEFINE Inv == BridgeInv /\ WaitInv
<1>1. BridgeInit => Inv
  BY BridgeStarts DEF BridgeInit, WaitInv
<1>2. Inv /\ [BridgeNext]_bridgeVars => Inv'
  BY BridgeStep, WaitStep
<1>3. Inv => NobodyWaitsForTheUi
  BY DEF WaitInv, BridgeInv, BridgeTypeOK, NobodyWaitsForTheUi, ClientEnded
<1> QED BY <1>1, <1>2, <1>3, PTL DEF BridgeSpec

-------------------------------------------------------------------------------
(***************************************************************************)
(* Viewer. What runs is a pane for each camera that plays, the status      *)
(* poll, and what is under way on the control connection.                  *)
(***************************************************************************)
IdleInv == m_active \in [Cameras -> BOOLEAN] /\ IdleWhenOffline

(***************************************************************************)
(* A handler that leaves the connections as they are, starts no poll and   *)
(* sends only on a connection: what reads an answer has a connection       *)
(* already, and only what the user connected starts a pane.                *)
(***************************************************************************)
Quiet ==
  /\ UNCHANGED <<m_connected, socket, statusTimer>>
  /\ wire' # <<>> => wire # <<>> \/ socket = "up"
  /\ answers' # <<>> => answers # <<>> \/ wire # <<>>
  /\ \/ UNCHANGED m_active
     \/ m_connected /\ \E c \in DOMAIN m_active \cup {Head(answers).camera} : restartPane(c)

(* Such a handler keeps what a connection that is not there must not have. *)
LEMMA QuietStep ==
  ASSUME IdleInv, Quiet
  PROVE  IdleInv'
PROOF
  <1>1. statusTimer' \/ wire' # <<>> \/ answers' # <<>> => socket' = "up"
    BY DEF IdleInv, IdleWhenOffline, Quiet
  <1>2. socket' # "off" => m_connected'
    BY DEF IdleInv, IdleWhenOffline, Quiet
  <1>3. m_active' \in [Cameras -> BOOLEAN] /\ \A c \in Cameras : m_active'[c] => m_connected'
    BY DEF IdleInv, IdleWhenOffline, Quiet, restartPane
  <1> QED BY <1>1, <1>2, <1>3 DEF IdleInv, IdleWhenOffline

(* Every step of the viewer and of the device does. *)
LEMMA IdleStep ==
  ASSUME IdleInv, [Next]_vars
  PROVE  IdleInv'
PROOF
  <1> USE DEF IdleInv, IdleWhenOffline, control, panes
  <1>1. CASE User
    <2>1. CASE connectStreams
      BY <2>1 DEF connectStreams, restartPane
    <2>2. CASE disconnectStreams
      BY <2>2 DEF disconnectStreams, disconnected
    <2>3. CASE deviceFound \/ tickAutoReboot \/ uploadFile
      BY <2>3 DEF deviceFound, tickAutoReboot, uploadFile
    <2>4. CASE \E c \in Cameras : selectCamera(c)
      <3>1. PICK c \in Cameras : selectCamera(c)
        BY <2>4
      <3>2. c \in DOMAIN m_active
        OBVIOUS
      <3>3. Quiet
        BY <3>1, <3>2 DEF selectCamera, Quiet
      <3> QED BY <3>3, QuietStep
    <2>5. CASE rebootRequested \/ \E c \in Cameras : cameraZoomChanged(c)
      <3>1. Quiet
        BY <2>5 DEF rebootRequested, sendReboot, cameraZoomChanged, sendRequest, Quiet
      <3> QED BY <3>1, QuietStep
    <2> QED BY <1>1, <2>1, <2>2, <2>3, <2>4, <2>5 DEF User
  <1>2. CASE Control
    <2>1. CASE connected \/ connectFails \/ connectionDrops
      BY <2>1 DEF connected, connectFails, connectionDrops, disconnected
    <2>2. CASE statusAnswered \/ zoomAnswered \/ updateAnswered
      <3>1. Quiet
        BY <2>2 DEF statusAnswered, zoomAnswered, updateAnswered, Answered, Quiet
      <3> QED BY <3>1, QuietStep
    <2>3. CASE pollStatus \/ pollTimerFires \/ rebootTimerFires
      <3>1. Quiet
        BY <2>3 DEF pollStatus, pollTimerFires, rebootTimerFires, pollUpdateStatus,
                    sendReboot, sendRequest, Quiet
      <3> QED BY <3>1, QuietStep
    <2> QED BY <1>2, <2>1, <2>2, <2>3 DEF Control
  <1>3. CASE Upload
    <2>1. Quiet
      BY <1>3 DEF Upload, onConnected, uploadFails, headerAnswered, onBytesWritten,
                  uploadFinished, pollUpdateStatus, sendRequest, Quiet
    <2> QED BY <2>1, QuietStep
  <1>4. CASE Device
    <2>1. CASE handleRequest
      <3>1. Quiet
        BY <2>1 DEF handleRequest, Quiet
      <3> QED BY <3>1, QuietStep
    <2>2. CASE handleLate \/ installs
      BY <2>2 DEF handleLate, installs
    <2>3. CASE deviceReboots
      BY <2>3 DEF deviceReboots, disconnected
    <2> QED BY <1>4, <2>1, <2>2, <2>3 DEF Device
  <1>5. CASE UNCHANGED vars
    BY <1>5 DEF vars
  <1> QED BY <1>1, <1>2, <1>3, <1>4, <1>5 DEF Next

(***************************************************************************)
(* IdleWhenOffline: whatever answer, timer, failure or reboot comes late,  *)
(* no pane plays after disconnectStreams(), no status is polled and no     *)
(* answer awaited without a control connection.                            *)
(***************************************************************************)
THEOREM OfflineIsIdle == Spec => []IdleWhenOffline
<1>1. Init => IdleInv
  BY DEF Init, IdleInv, IdleWhenOffline
<1>2. IdleInv /\ [Next]_vars => IdleInv'
  BY IdleStep
<1>3. IdleInv => IdleWhenOffline
  BY DEF IdleInv
<1> QED BY <1>1, <1>2, <1>3, PTL DEF Spec

-------------------------------------------------------------------------------
(* What is under way on the control connection. *)
ControlRequests ==
  {SetStream(on) : on \in BOOLEAN} \cup {SetZoom(c) : c \in Cameras}
    \cup {Request(name) : name \in {"get-status", "get-update-status", "reboot"}}
ControlAnswers ==
  [op : {"get-status"}, enabled : [Cameras -> BOOLEAN]]
    \cup [op : {"get-update-status"}, state : States]
    \cup [op : {"set-zoom"}, camera : Cameras, ok : BOOLEAN]

ViewerTyped ==
  /\ TypeOK
  /\ wire \in Seq(ControlRequests) /\ late \in Seq(ControlRequests)
  /\ answers \in Seq(ControlAnswers)

(* While the file streams there is always a chunk on its way: without one no
   bytesWritten() would come, and nothing else tops the buffer up. *)
NeverStarved == upload = "streaming" /\ m_sent < FileChunks => m_sent < written

ViewerInv == ViewerTyped /\ NeverStarved

(* populateCameraList() selects a camera there is. *)
LEMMA FirstEnabledIs ==
  ASSUME NEW on
  PROVE  FirstEnabled(on) \in Cameras
PROOF
  <1> DEFINE usable == {c \in Cameras : on[c]}
             among == IF usable = {} THEN Cameras ELSE usable
  <1>1. among \subseteq Cameras /\ Cameras \subseteq Nat /\ among # {}
    BY ViewerAssumption
  <1>2. \E c \in among : \A d \in among : c <= d
    BY <1>1, LeastNat
  <1> HIDE DEF among
  <1>3. (CHOOSE c \in among : \A d \in among : c <= d) \in Cameras
    BY <1>1, <1>2
  <1> QED BY <1>3 DEF FirstEnabled, among, usable

(* A request goes to the end of what waits. *)
LEMMA RequestTyped ==
  ASSUME ViewerInv, NEW q \in ControlRequests, sendRequest(q)
  PROVE  wire' \in Seq(ControlRequests)
BY AppendTyped DEF ViewerInv, ViewerTyped, sendRequest

(* The requests the viewer makes. *)
LEMMA RequestsKnown ==
  /\ SetStream(TRUE) \in ControlRequests /\ SetStream(FALSE) \in ControlRequests
  /\ \A c \in Cameras : SetZoom(c) \in ControlRequests
  /\ \A name \in {"get-status", "get-update-status", "reboot"} : Request(name) \in ControlRequests
BY DEF ControlRequests

(* The first of what waits, and the rest. *)
LEMMA QueueTyped ==
  ASSUME NEW S, NEW s \in Seq(S), s # <<>>
  PROVE  Head(s) \in S /\ Tail(s) \in Seq(S)
OBVIOUS

(* A queue that is emptied, and the first requests of a connection. *)
LEMMA NoneTyped == \A S : <<>> \in Seq(S)
OBVIOUS

LEMMA PairTyped ==
  ASSUME NEW S, NEW a \in S, NEW b \in S
  PROVE  <<a, b>> \in Seq(S)
OBVIOUS

(* writeNextChunk(): as much as the file has and the buffer takes, and if there is more to
   be sent then more than has left. *)
LEMMA ToppedUp ==
  ASSUME NEW sent \in 0..FileChunks, writeNextChunk(sent)
  PROVE  written' \in 0..FileChunks /\ sent <= written' /\ (sent < FileChunks => sent < written')
BY ViewerAssumption DEF writeNextChunk

(* The counts of the upload stay in the file, and a chunk is under way. *)
LEMMA FileStep ==
  ASSUME ViewerInv, [Next]_vars
  PROVE  /\ upload' \in {"idle", "connecting", "header", "streaming"}
         /\ m_sent' \in 0..written' /\ written' \in 0..FileChunks /\ NeverStarved'
PROOF
  <1>1. /\ FileChunks \in Nat \ {0} /\ written \in 0..FileChunks /\ m_sent \in 0..written
        /\ upload \in {"idle", "connecting", "header", "streaming"}
    BY ViewerAssumption DEF ViewerInv, ViewerTyped, TypeOK
  <1>2. CASE UNCHANGED file
    BY <1>1, <1>2 DEF ViewerInv, NeverStarved, file
  <1>3. CASE uploadFile \/ onConnected
    BY <1>1, <1>3 DEF uploadFile, onConnected, NeverStarved
  <1>4. CASE uploadFails \/ uploadFinished \/ deviceReboots
    BY <1>1, <1>4 DEF uploadFails, uploadFinished, deviceReboots, Finished, NeverStarved
  <1>5. CASE headerAnswered
    <2>1. CASE upload' = "streaming" /\ m_sent' = 0 /\ writeNextChunk(0)
      BY <1>1, <2>1, ToppedUp DEF NeverStarved
    <2>2. CASE Finished
      BY <1>1, <2>2 DEF Finished, NeverStarved
    <2> QED BY <1>5, <2>1, <2>2 DEF headerAnswered
  <1>6. CASE onBytesWritten
    <2>1. m_sent + 1 \in 0..written /\ m_sent + 1 \in 0..FileChunks /\ m_sent' = m_sent + 1
          /\ upload' = upload
      BY <1>1, <1>6 DEF onBytesWritten
    <2>2. CASE m_sent + 1 < FileChunks
      <3>1. writeNextChunk(m_sent + 1)
        BY <1>6, <2>2 DEF onBytesWritten, TopUp
      <3> QED BY <1>1, <2>1, <2>2, <3>1, ToppedUp DEF NeverStarved
    <2>3. CASE ~(m_sent + 1 < FileChunks)
      BY <1>1, <1>6, <2>1, <2>3 DEF onBytesWritten, TopUp, NeverStarved
    <2> QED BY <2>2, <2>3
  <1>7. CASE User
    <2>1. uploadFile \/ UNCHANGED file
      BY <1>7 DEF User, connectStreams, disconnectStreams, deviceFound, selectCamera,
                  cameraZoomChanged, rebootRequested, tickAutoReboot
    <2> QED BY <1>2, <1>3, <2>1
  <1>8. CASE Control
    <2>1. UNCHANGED file
      BY <1>8 DEF Control, connected, connectFails, connectionDrops, statusAnswered, zoomAnswered,
                  updateAnswered, pollStatus, pollTimerFires, rebootTimerFires
    <2> QED BY <1>2, <2>1
  <1>9. CASE Upload
    BY <1>3, <1>4, <1>5, <1>6, <1>9 DEF Upload
  <1>10. CASE Device
    <2>1. deviceReboots \/ UNCHANGED file
      BY <1>10 DEF Device, handleRequest, handleLate, installs
    <2> QED BY <1>2, <1>4, <2>1
  <1> QED BY <1>2, <1>7, <1>8, <1>9, <1>10 DEF Next, vars

(* TypeOK but for the file. *)
ControlTyped ==
  /\ m_connected \in BOOLEAN /\ socket \in {"off", "connecting", "up"} /\ statusTimer \in BOOLEAN
  /\ autoReboot \in BOOLEAN /\ pollTimers \in Nat /\ rebootTimers \in Nat /\ rebootDue \in BOOLEAN
ListTyped ==
  /\ list \in {"default", "discovery", "status"} /\ visible \in Cameras
  /\ m_active \in [Cameras -> BOOLEAN]
  /\ enabled \in [Cameras -> BOOLEAN] /\ update \in States
QueuesTyped ==
  /\ wire \in Seq(ControlRequests) /\ late \in Seq(ControlRequests)
  /\ answers \in Seq(ControlAnswers)

(* What the device answers, and what a request makes of its cameras. *)
LEMMA AnswerTyped ==
  ASSUME ViewerInv, handleRequest
  PROVE  answers' \in Seq(ControlAnswers) /\ enabled' \in [Cameras -> BOOLEAN]
PROOF
  <1> DEFINE q == Head(wire)
  <1>1. /\ answers \in Seq(ControlAnswers) /\ enabled \in [Cameras -> BOOLEAN] /\ update \in States
        /\ q \in ControlRequests
    BY QueueTyped DEF ViewerInv, ViewerTyped, TypeOK, handleRequest
  <1>2. StatusAnswer \in ControlAnswers /\ UpdateAnswer \in ControlAnswers
    BY <1>1 DEF StatusAnswer, UpdateAnswer, ControlAnswers
  <1>3. q.op = "set-zoom" => ZoomAnswers(q.camera) \subseteq ControlAnswers
    <2>1. q.op = "set-zoom" => q.camera \in Cameras
      BY <1>1 DEF ControlRequests, SetStream, SetZoom, Request
    <2> QED BY <2>1 DEF ZoomAnswers, ControlAnswers
  <1>4. Streams(q) \in [Cameras -> BOOLEAN]
    <2>1. q.op = "set-stream" => q.on \in BOOLEAN
      BY <1>1 DEF ControlRequests, SetStream, SetZoom, Request
    <2> QED BY <1>1, <2>1 DEF Streams
  <1> HIDE DEF q
  <1>5. answers' = answers \/ \E a \in ControlAnswers : answers' = Append(answers, a)
    BY <1>2, <1>3 DEF handleRequest, q
  <1>6. enabled' = Streams(q)
    BY DEF handleRequest, q
  <1> QED BY <1>1, <1>4, <1>5, <1>6, AppendTyped

(* Every step of the viewer and of the device keeps the types. *)
LEMMA ViewerStep ==
  ASSUME ViewerInv, [Next]_vars
  PROVE  ViewerInv'
PROOF
  <1>1. ControlTyped /\ ListTyped /\ QueuesTyped
    BY DEF ViewerInv, ViewerTyped, TypeOK, ControlTyped, ListTyped, QueuesTyped
  <1>2. ControlTyped'
    <2> USE <1>1 DEF ControlTyped
    <2>1. CASE User
      BY <2>1 DEF User, connectStreams, disconnectStreams, disconnected, deviceFound, selectCamera,
                  cameraZoomChanged, rebootRequested, tickAutoReboot, uploadFile, control, timers, device
    <2>2. CASE Control
      <3>1. CASE connected \/ connectFails \/ connectionDrops
        BY <3>1 DEF connected, connectFails, connectionDrops, disconnected, timers, device
      <3>2. CASE statusAnswered \/ zoomAnswered \/ pollStatus
        BY <3>2 DEF statusAnswered, zoomAnswered, pollStatus, timers, device
      <3>3. CASE updateAnswered
        <4>1. /\ pollTimers' \in {pollTimers, pollTimers + 1}
              /\ rebootTimers' \in {rebootTimers, rebootTimers + 1}
              /\ UNCHANGED <<m_connected, socket, statusTimer, autoReboot, rebootDue>>
          BY <3>3 DEF updateAnswered, device
        <4> QED BY <4>1
      <3>4. CASE pollTimerFires \/ rebootTimerFires
        <4>1. /\ pollTimers' = pollTimers \/ (pollTimers > 0 /\ pollTimers' = pollTimers - 1)
              /\ rebootTimers' = rebootTimers \/ (rebootTimers > 0 /\ rebootTimers' = rebootTimers - 1)
              /\ UNCHANGED <<m_connected, socket, statusTimer, autoReboot, rebootDue>>
          BY <3>4 DEF pollTimerFires, rebootTimerFires, device
        <4> QED BY <4>1
      <3> QED BY <2>2, <3>1, <3>2, <3>3, <3>4 DEF Control
    <2>3. CASE Upload
      BY <2>3 DEF Upload, onConnected, uploadFails, headerAnswered, onBytesWritten, uploadFinished,
                  control, timers, device
    <2>4. CASE Device
      BY <2>4 DEF Device, handleRequest, handleLate, deviceReboots, disconnected, installs,
                  control, timers
    <2>5. CASE UNCHANGED vars
      BY <2>5 DEF vars, control, timers, device
    <2> QED BY <2>1, <2>2, <2>3, <2>4, <2>5 DEF Next
  <1>3. QueuesTyped'
    <2> USE <1>1 DEF QueuesTyped
    <2>1. CASE User
      <3>1. CASE disconnectStreams
        <4>1. Append(wire, SetStream(FALSE)) \in Seq(ControlRequests)
          BY RequestsKnown, AppendTyped
        <4> QED BY <3>1, <4>1, NoneTyped DEF disconnectStreams, disconnected
      <3>2. CASE \E c \in Cameras : cameraZoomChanged(c)
        <4>1. PICK c \in Cameras : cameraZoomChanged(c)
          BY <3>2
        <4> QED BY <4>1, RequestsKnown, RequestTyped DEF cameraZoomChanged
      <3>3. CASE rebootRequested
        BY <3>3, RequestsKnown, RequestTyped DEF rebootRequested, sendReboot
      <3>4. CASE UNCHANGED <<wire, late, answers>>
        BY <3>4
      <3>5. \/ disconnectStreams \/ rebootRequested \/ UNCHANGED <<wire, late, answers>>
            \/ \E c \in Cameras : cameraZoomChanged(c)
        BY <2>1 DEF User, connectStreams, deviceFound, selectCamera, tickAutoReboot, uploadFile, control
      <3> QED BY <3>1, <3>2, <3>3, <3>4, <3>5
    <2>2. CASE Control
      <3>1. CASE connected
        <4>1. <<SetStream(TRUE), Request("get-status")>> \in Seq(ControlRequests)
          BY RequestsKnown, PairTyped
        <4> QED BY <3>1, <4>1 DEF connected
      <3>2. CASE connectFails \/ connectionDrops
        BY <3>2, NoneTyped DEF connectFails, connectionDrops, disconnected
      <3>3. CASE statusAnswered \/ zoomAnswered \/ updateAnswered
        BY <3>3, QueueTyped DEF statusAnswered, zoomAnswered, updateAnswered, Answered
      <3>4. CASE pollStatus \/ pollTimerFires \/ rebootTimerFires
        BY <3>4, RequestsKnown, RequestTyped
        DEF pollStatus, pollTimerFires, rebootTimerFires, pollUpdateStatus, sendReboot
      <3> QED BY <2>2, <3>1, <3>2, <3>3, <3>4 DEF Control
    <2>3. CASE Upload
      <3>1. CASE uploadFinished
        BY <3>1, RequestsKnown, RequestTyped DEF uploadFinished, pollUpdateStatus
      <3>2. CASE onConnected \/ uploadFails \/ headerAnswered \/ onBytesWritten
        BY <3>2 DEF onConnected, uploadFails, headerAnswered, onBytesWritten, control
      <3> QED BY <2>3, <3>1, <3>2 DEF Upload
    <2>4. CASE Device
      <3>1. CASE handleRequest
        BY <3>1, AnswerTyped, QueueTyped DEF handleRequest
      <3>2. CASE handleLate
        BY <3>2, QueueTyped DEF handleLate, control
      <3>3. CASE deviceReboots \/ installs
        BY <3>3, NoneTyped DEF deviceReboots, disconnected, installs, control
      <3> QED BY <2>4, <3>1, <3>2, <3>3 DEF Device
    <2>5. CASE UNCHANGED vars
      BY <2>5 DEF vars, control
    <2> QED BY <2>1, <2>2, <2>3, <2>4, <2>5 DEF Next
  <1>4. ListTyped'
    <2> USE <1>1 DEF ListTyped
    <2>1. CASE User
      <3>1. CASE deviceFound
        BY <3>1, FirstEnabledIs DEF deviceFound, device
      <3>2. CASE \E c \in Cameras : selectCamera(c)
        BY <3>2 DEF selectCamera, restartPane, device
      <3>3. CASE connectStreams \/ disconnectStreams
        BY <3>3 DEF connectStreams, disconnectStreams, disconnected, restartPane, device
      <3>4. CASE (\E c \in Cameras : cameraZoomChanged(c)) \/ rebootRequested \/ tickAutoReboot \/ uploadFile
        BY <3>4 DEF cameraZoomChanged, rebootRequested, tickAutoReboot, uploadFile, panes, device
      <3> QED BY <2>1, <3>1, <3>2, <3>3, <3>4 DEF User
    <2>2. CASE Control
      <3>1. CASE connected \/ connectFails \/ connectionDrops
        BY <3>1 DEF connected, connectFails, connectionDrops, disconnected, panes, device
      <3>2. CASE statusAnswered
        BY <3>2, FirstEnabledIs DEF statusAnswered, device
      <3>3. CASE zoomAnswered
        BY <3>3 DEF zoomAnswered, restartPane, device
      <3>4. CASE updateAnswered \/ pollStatus \/ pollTimerFires \/ rebootTimerFires
        BY <3>4 DEF updateAnswered, pollStatus, pollTimerFires, rebootTimerFires, panes, device
      <3> QED BY <2>2, <3>1, <3>2, <3>3, <3>4 DEF Control
    <2>3. CASE Upload
      BY <2>3 DEF Upload, onConnected, uploadFails, headerAnswered, onBytesWritten, uploadFinished,
                  Ended, States, panes, device
    <2>4. CASE Device
      <3>1. CASE handleRequest
        BY <3>1, AnswerTyped DEF handleRequest, panes
      <3>2. CASE handleLate
        <4>1. Head(late) \in ControlRequests
          BY <3>2, QueueTyped DEF handleLate, QueuesTyped
        <4>2. Head(late).op = "set-stream" => Head(late).on \in BOOLEAN
          BY <4>1 DEF ControlRequests, SetStream, SetZoom, Request
        <4> QED BY <3>2, <4>2 DEF handleLate, Streams, panes
      <3>3. CASE deviceReboots \/ installs
        BY <3>3 DEF deviceReboots, disconnected, installs, States, panes
      <3> QED BY <2>4, <3>1, <3>2, <3>3 DEF Device
    <2>5. CASE UNCHANGED vars
      BY <2>5 DEF vars, panes, device
    <2> QED BY <2>1, <2>2, <2>3, <2>4, <2>5 DEF Next
  <1> QED
    BY <1>2, <1>3, <1>4, FileStep
    DEF ViewerInv, ViewerTyped, TypeOK, ControlTyped, ListTyped, QueuesTyped

LEMMA ViewerStarts == Init => ViewerInv
PROOF
  <1>1. 0 \in Cameras /\ FileChunks \in Nat \ {0}
    BY ViewerAssumption
  <1> QED BY <1>1, NoneTyped DEF Init, ViewerInv, ViewerTyped, TypeOK, NeverStarved, States

(***************************************************************************)
(* The window's and the device's state keep their types; among them, the   *)
(* camera on top is one there is, whatever a status answer says, and no    *)
(* more chunks are sent than were read, or read than the file has.         *)
(***************************************************************************)
THEOREM ViewerTypeCorrect == Spec => []TypeOK
<1>1. ViewerInv /\ [Next]_vars => ViewerInv'
  BY ViewerStep
<1>2. ViewerInv => TypeOK
  BY DEF ViewerInv, ViewerTyped
<1> QED BY <1>1, <1>2, ViewerStarts, PTL DEF Spec

(***************************************************************************)
(* Until the file has left, a chunk is on its way whose bytesWritten() will *)
(* call writeNextChunk() (updateclient.cpp:138-175), for every size of     *)
(* file and buffer: UploadEnds rests on it.                                *)
(***************************************************************************)
THEOREM UploadNeverStarves == Spec => []NeverStarved
<1>1. ViewerInv /\ [Next]_vars => ViewerInv'
  BY ViewerStep
<1>2. ViewerInv => NeverStarved
  BY DEF ViewerInv
<1> QED BY <1>1, <1>2, ViewerStarts, PTL DEF Spec

-------------------------------------------------------------------------------
(***************************************************************************)
(* What carries a watched update to its reboot: a request whose answer     *)
(* takes it up, an answer that sets the next timer, or the timer. At each  *)
(* step one hands it to the next; there is no other that would notice.     *)
(***************************************************************************)
Contains(s, S) == \E i \in DOMAIN s : s[i] \in S

Carrying == {Request("get-update-status"), Request("reboot")}
Promising ==
  {a \in ControlAnswers : a.op = "get-update-status" /\ a.state \in Busy \cup {"success"}}

UpdateIsFollowed ==
  watched =>
    \/ rebootDue \/ update = "failure"
    \/ Contains(wire, Carrying) \/ Contains(answers, Promising)
    \/ pollTimers > 0 \/ rebootTimers > 0

(* An update is watched on a connection, with the box ticked and the upload over; and the
   device knows of an update from its header on. *)
FollowInv ==
  /\ watched => socket = "up" /\ autoReboot /\ upload = "idle" /\ update # "idle"
  /\ upload = "streaming" => update # "idle"
  /\ UpdateIsFollowed

(* What waits in a queue goes on waiting when one more does. *)
LEMMA AppendContains ==
  ASSUME NEW T, NEW s \in Seq(T), NEW e \in T, NEW S, Contains(s, S) \/ e \in S
  PROVE  Contains(Append(s, e), S)
PROOF
  <1>1. /\ DOMAIN Append(s, e) = 1..(Len(s) + 1) /\ DOMAIN s = 1..Len(s) /\ Len(s) \in Nat
        /\ Append(s, e)[Len(s) + 1] = e /\ \A i \in 1..Len(s) : Append(s, e)[i] = s[i]
    OBVIOUS
  <1>2. CASE Contains(s, S)
    BY <1>1, <1>2 DEF Contains
  <1>3. CASE e \in S
    <2>1. Len(s) + 1 \in 1..(Len(s) + 1)
      BY <1>1
    <2> QED BY <1>1, <1>3, <2>1 DEF Contains
  <1> QED BY <1>2, <1>3

(* It goes on waiting when another is taken. *)
LEMMA TailContains ==
  ASSUME NEW T, NEW s \in Seq(T), s # <<>>, NEW S, Contains(s, S), Head(s) \notin S
  PROVE  Contains(Tail(s), S)
PROOF
  <1>1. /\ DOMAIN Tail(s) = 1..(Len(s) - 1) /\ DOMAIN s = 1..Len(s) /\ Len(s) \in Nat \ {0}
        /\ s[1] = Head(s) /\ \A i \in 1..(Len(s) - 1) : Tail(s)[i] = s[i + 1]
    OBVIOUS
  <1>2. PICK i \in DOMAIN s : s[i] \in S
    BY DEF Contains
  <1>3. i \in 2..Len(s)
    BY <1>1, <1>2
  <1>4. i - 1 \in 1..(Len(s) - 1) /\ (i - 1) + 1 = i
    BY <1>1, <1>3
  <1>5. Tail(s)[i - 1] = s[i]
    BY <1>1, <1>4
  <1> QED BY <1>1, <1>2, <1>4, <1>5 DEF Contains

(* A request that is sent is on the wire, and so are those before it. *)
LEMMA SentContains ==
  ASSUME ViewerInv, NEW q \in ControlRequests, sendRequest(q), NEW S
  PROVE  /\ Contains(wire, S) => Contains(wire', S)
         /\ socket = "up" /\ q \in S => Contains(wire', S)
PROOF
  <1>1. wire \in Seq(ControlRequests)
    BY DEF ViewerInv, ViewerTyped
  <1> QED BY <1>1, AppendContains DEF sendRequest

(* A handler that leaves the update and its reboot alone, and on the control connection does
   no more than send. *)
Bystander ==
  /\ UNCHANGED <<socket, upload, autoReboot, timers, watched, rebootDue>>
  /\ update' = update \/ (update \in Busy /\ update' # "idle")
  /\ Contains(wire, Carrying) => Contains(wire', Carrying)
  /\ Contains(answers, Promising) => Contains(answers', Promising)

(* Such a handler leaves the update with what carries it. *)
LEMMA BystanderStep ==
  ASSUME FollowInv, Bystander
  PROVE  FollowInv'
BY DEF FollowInv, UpdateIsFollowed, Bystander, timers, Busy

(* Every other step hands it on, or ends the watch. *)
LEMMA FollowStep ==
  ASSUME ViewerInv, IdleInv, FollowInv, [Next]_vars
  PROVE  FollowInv'
PROOF
  <1>1. /\ wire \in Seq(ControlRequests) /\ answers \in Seq(ControlAnswers)
        /\ pollTimers \in Nat /\ rebootTimers \in Nat /\ update \in States
    BY DEF ViewerInv, ViewerTyped, TypeOK
  <1>2. CASE ~watched' /\ (upload' = "streaming" => update' # "idle")
    BY <1>2 DEF FollowInv, UpdateIsFollowed
  <1>3. CASE User
    <2>1. CASE disconnectStreams \/ tickAutoReboot \/ uploadFile
      BY <1>2, <2>1 DEF disconnectStreams, disconnected, tickAutoReboot, uploadFile, FollowInv,
                        file, device
    <2>2. CASE connectStreams
      <3>1. ~watched
        BY <2>2 DEF connectStreams, FollowInv, IdleInv, IdleWhenOffline
      <3> QED BY <1>2, <2>2, <3>1 DEF connectStreams, FollowInv, file, device
    <2>3. CASE deviceFound \/ \E c \in Cameras : selectCamera(c)
      <3>1. Bystander
        BY <2>3 DEF deviceFound, selectCamera, Bystander, control, file, device
      <3> QED BY <3>1, BystanderStep
    <2>4. CASE \E c \in Cameras : cameraZoomChanged(c)
      <3>1. PICK c \in Cameras : cameraZoomChanged(c)
        BY <2>4
      <3>2. Bystander
        BY <3>1, RequestsKnown, SentContains DEF cameraZoomChanged, Bystander, file, device
      <3> QED BY <3>2, BystanderStep
    <2>5. CASE rebootRequested
      <3>1. Bystander
        BY <2>5, RequestsKnown, SentContains
        DEF rebootRequested, sendReboot, Bystander, file, device
      <3> QED BY <3>1, BystanderStep
    <2> QED BY <1>3, <2>1, <2>2, <2>3, <2>4, <2>5 DEF User
  <1>4. CASE Control
    <2>1. CASE connected \/ connectFails \/ connectionDrops
      BY <1>2, <2>1 DEF connected, connectFails, connectionDrops, disconnected, FollowInv,
                        file, device
    <2>2. CASE statusAnswered \/ zoomAnswered
      <3>1. answers # <<>> /\ answers' = Tail(answers) /\ Head(answers) \notin Promising
        BY <2>2 DEF statusAnswered, zoomAnswered, Answered, Promising
      <3>2. Contains(answers, Promising) => Contains(answers', Promising)
        BY <1>1, <3>1, TailContains
      <3>3. Bystander
        BY <2>2, <3>2 DEF statusAnswered, zoomAnswered, Bystander, file, device
      <3> QED BY <3>3, BystanderStep
    <2>3. CASE updateAnswered
      <3>1. /\ answers # <<>> /\ answers' = Tail(answers)
            /\ UNCHANGED <<socket, wire, upload, autoReboot, watched, update, rebootDue>>
        BY <2>3 DEF updateAnswered, Answered, file, device
      <3>2. pollTimers' >= pollTimers /\ rebootTimers' >= rebootTimers
        BY <1>1, <2>3 DEF updateAnswered
      <3>3. CASE Head(answers) \in Promising
        <4>1. watched => pollTimers' > 0 \/ rebootTimers' > 0
          BY <1>1, <2>3, <3>3 DEF updateAnswered, Rearmed, Promising, FollowInv
        <4> QED BY <3>1, <4>1 DEF FollowInv, UpdateIsFollowed
      <3>4. CASE Head(answers) \notin Promising
        <4>1. Contains(answers, Promising) => Contains(answers', Promising)
          BY <1>1, <3>1, <3>4, TailContains
        <4>2. pollTimers > 0 \/ rebootTimers > 0 => pollTimers' > 0 \/ rebootTimers' > 0
          BY <1>1, <3>2, <2>3 DEF updateAnswered
        <4> QED BY <3>1, <4>1, <4>2 DEF FollowInv, UpdateIsFollowed
      <3> QED BY <3>3, <3>4
    <2>4. CASE pollStatus
      <3>1. Bystander
        BY <2>4, RequestsKnown, SentContains DEF pollStatus, Bystander, file, device
      <3> QED BY <3>1, BystanderStep
    <2>5. CASE pollTimerFires \/ rebootTimerFires
      <3>1. UNCHANGED <<socket, upload, autoReboot, watched, update, rebootDue>>
        BY <2>5 DEF pollTimerFires, rebootTimerFires, file, device
      <3>2. socket = "up" => Contains(wire', Carrying)
        <4>1. Request("get-update-status") \in Carrying /\ Request("reboot") \in Carrying
          BY DEF Carrying
        <4> QED BY <2>5, <4>1, RequestsKnown, SentContains
            DEF pollTimerFires, rebootTimerFires, pollUpdateStatus, sendReboot
      <3> QED BY <3>1, <3>2 DEF FollowInv, UpdateIsFollowed
    <2> QED BY <1>4, <2>1, <2>2, <2>3, <2>4, <2>5 DEF Control
  <1>5. CASE Upload
    <2>1. CASE uploadFinished
      <3>1. Request("get-update-status") \in Carrying
        BY DEF Carrying
      <3>2. socket = "up" => Contains(wire', Carrying)
        BY <2>1, <3>1, RequestsKnown, SentContains DEF uploadFinished, pollUpdateStatus
      <3>3. /\ watched' => socket = "up" /\ autoReboot
            /\ upload' = "idle" /\ update' # "idle" /\ UNCHANGED <<socket, autoReboot>>
        BY <2>1 DEF uploadFinished, Finished, Ended, FollowInv
      <3> QED BY <3>2, <3>3 DEF FollowInv, UpdateIsFollowed
    <2>2. CASE onConnected \/ uploadFails \/ headerAnswered
      <3>1. ~watched /\ watched' = watched
        BY <2>2 DEF onConnected, uploadFails, headerAnswered, m_busy, FollowInv
      <3>2. upload' = "streaming" => update' # "idle"
        BY <2>2 DEF onConnected, uploadFails, headerAnswered, Finished
      <3> QED BY <1>2, <3>1, <3>2
    <2>3. CASE onBytesWritten
      <3>1. Bystander
        BY <2>3 DEF onBytesWritten, Bystander, control, device
      <3> QED BY <3>1, BystanderStep
    <2> QED BY <1>5, <2>1, <2>2, <2>3 DEF Upload
  <1>6. CASE Device
    <2>1. CASE handleRequest
      <3> DEFINE q == Head(wire)
      <3>1. /\ wire # <<>> /\ wire' = Tail(wire) /\ rebootDue' = (rebootDue \/ q.op = "reboot")
            /\ UNCHANGED <<socket, upload, autoReboot, timers, watched, update>>
        BY <2>1 DEF handleRequest, file
      <3>2. Contains(answers, Promising) => Contains(answers', Promising)
        <4>1. StatusAnswer \in ControlAnswers /\ UpdateAnswer \in ControlAnswers
          BY <1>1 DEF StatusAnswer, UpdateAnswer, ControlAnswers, ViewerInv, ViewerTyped, TypeOK
        <4>2. q.op = "set-zoom" => ZoomAnswers(q.camera) \subseteq ControlAnswers
          <5>1. q \in ControlRequests
            BY <1>1, <3>1, QueueTyped
          <5>2. q.op = "set-zoom" => q.camera \in Cameras
            BY <5>1 DEF ControlRequests, SetStream, SetZoom, Request
          <5> QED BY <5>2 DEF ZoomAnswers, ControlAnswers
        <4>3. answers' = answers \/ \E a \in ControlAnswers : answers' = Append(answers, a)
          BY <2>1, <4>1, <4>2 DEF handleRequest
        <4> QED BY <1>1, <4>3, AppendContains
      <3>3. CASE q = Request("reboot")
        <4>1. rebootDue'
          <5>1. q.op = "reboot"
            BY <3>3 DEF Request
          <5> QED BY <3>1, <5>1, Zenon
        <4> QED BY <3>1, <4>1 DEF FollowInv, UpdateIsFollowed
      <3>4. CASE q = Request("get-update-status")
        <4>1. answers' = Append(answers, UpdateAnswer)
          BY <2>1, <3>4 DEF handleRequest, Request
        <4>2. watched /\ update # "failure" => UpdateAnswer \in Promising
          BY <1>1 DEF UpdateAnswer, Promising, ControlAnswers, States, Busy, FollowInv
        <4>3. UpdateAnswer \in ControlAnswers
          BY <1>1 DEF UpdateAnswer, ControlAnswers
        <4>4. watched /\ update # "failure" => Contains(answers', Promising)
          BY <1>1, <4>1, <4>2, <4>3, AppendContains
        <4> QED BY <3>1, <4>4 DEF FollowInv, UpdateIsFollowed
      <3>5. CASE q \notin Carrying
        <4>1. Contains(wire, Carrying) => Contains(wire', Carrying)
          BY <1>1, <3>1, <3>5, TailContains
        <4> QED BY <3>1, <3>2, <4>1 DEF FollowInv, UpdateIsFollowed, timers
      <3> QED BY <3>3, <3>4, <3>5 DEF Carrying
    <2>2. CASE handleLate
      BY <2>2 DEF handleLate, FollowInv, UpdateIsFollowed, control, file, timers
    <2>3. CASE deviceReboots
      BY <1>2, <2>3 DEF deviceReboots, disconnected, Finished, FollowInv
    <2>4. CASE installs
      <3>1. Bystander
        BY <2>4 DEF installs, Bystander, Busy, control, file
      <3> QED BY <3>1, BystanderStep
    <2> QED BY <1>6, <2>1, <2>2, <2>3, <2>4 DEF Device
  <1>7. CASE UNCHANGED vars
    <2>1. Bystander
      BY <1>7 DEF vars, Bystander, control, file, device
    <2> QED BY <2>1, BystanderStep
  <1> QED BY <1>3, <1>4, <1>5, <1>6, <1>7 DEF Next

(***************************************************************************)
(* Once an upload has ended with the box ticked, something is always under *)
(* way that will bring the reboot about, for as long as the box and the    *)
(* connection stay and the installation has not failed: the chain of       *)
(* requests, answers and timers (mainwindow.cpp:832-874) has no gap.       *)
(* AutoReboots rests on it.                                                *)
(***************************************************************************)
THEOREM UpdateNeverForgotten == Spec => []UpdateIsFollowed
<1>1. Init => ViewerInv /\ IdleInv /\ FollowInv
  <2>1. Init => IdleInv /\ FollowInv
    BY DEF Init, IdleInv, IdleWhenOffline, FollowInv, UpdateIsFollowed
  <2> QED BY <2>1, ViewerStarts
<1>2. ViewerInv /\ IdleInv /\ FollowInv /\ [Next]_vars => (ViewerInv /\ IdleInv /\ FollowInv)'
  BY ViewerStep, IdleStep, FollowStep
<1>3. FollowInv => UpdateIsFollowed
  BY DEF FollowInv
<1> QED BY <1>1, <1>2, <1>3, PTL DEF Spec

===============================================================================
