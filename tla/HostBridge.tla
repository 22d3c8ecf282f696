----------------------------- MODULE HostBridge -----------------------------
(* The viewer's end of the cable (SecureUsbBridge): it opens a session with the device and
   gives the viewer's own clients, ControlClient and UpdateClient, a local TCP port each.
   Three threads: the UI thread, in which start() and ~Impl() run and in which the clients
   live, so that no client moves while it waits for the worker; the worker, which carries
   records between the clients and the cable; the reader, which blocks in the bulk IN
   transfer.

   External: libusb, the device (it answers requests in their order, sends what it likes,
   may be unplugged), the kernel's sockets. Video and metadata go to decoders and to a
   handler that keep no state here. *)
EXTENDS Naturals, Sequences, FiniteSets

CONSTANTS
  Channels,       \* kChannels, by index
  MaxClients,     \* bound: connections of each channel in one session
  MaxRequests,    \* bound: requests on the control port, of all sessions
  MaxInbound      \* bound: records in the WireBuffer

ASSUME BridgeAssumption ==
  /\ Channels \subseteq Nat /\ IsFiniteSet(Channels) /\ Channels # {}
  /\ MaxClients \in [Channels -> Nat] /\ MaxRequests \in Nat /\ MaxInbound \in Nat

VARIABLES
  ui,         \* the UI thread: "off", the steps of start(), "open", the steps of ~Impl()
  worker,     \* what the worker does next
  at,         \* the channel it is at, in run()'s loop or in drainInbound()
  hits,       \* what poll() reported: the channels with a connection, and with client data;
              \* in drainInbound(), the record to be written
  reader,     \* "none", "reading", "ended"
  stopping,
  usbFailed,
  backlog,    \* connections of a listener that are not accepted
  clients,    \* clients[i], 0: none
  connection, \* the UI's connection of a channel, 0: none
  opened,     \* connections of a channel so far
  spoke,      \* channels whose connection has written its request
  m_nextId,   \* ControlClient: the id of its next request, in whatever session
  idOf,       \* the id that the request of a control connection carries, 0: no request
  m_pending,  \* the control connections whose request waits for its callback
  answered,   \* what the callback of a connection was given: 0, or the request it answers
              \* (until ~Impl() begins)
  unread,     \* requests that clients wrote and the bridge has not read
  cut,        \* channels whose client ~Impl() has shut down
  missed,     \* channels whose client was accepted after ~Impl() shut the clients down
  asked,      \* requests that are with the device
  inbound     \* records in the WireBuffer: answers, or one that cannot be opened

run == <<worker, at, hits>>
ends == <<backlog, clients, cut, missed>>
calls == <<m_nextId, idOf, m_pending, answered>>
viewer == <<connection, opened, spoke, unread, calls>>
cable == <<reader, usbFailed, asked, inbound>>
bridgeVars == <<ui, stopping, run, ends, viewer, cable>>

Ids == UNION {1..MaxClients[i] : i \in Channels}
None == [i \in Channels |-> 0]
ControlChannel == CHOOSE i \in Channels : \A j \in Channels : i <= j
Bad == [bad |-> TRUE]
Nothing == [new |-> {}, data |-> {}]

-----------------------------------------------------------------------------
(* start(), on the UI thread: the interface, the two ports, the handshake. Each step may
   fail, and then ~Impl() takes back what there is. *)
claim ==
  /\ ui = "off"
  /\ ui' \in {"bind", "off"}
  /\ UNCHANGED <<stopping, run, ends, viewer, cable>>

(* Both ports are taken before the device is asked for a session. *)
make_listeners ==
  /\ ui = "bind"
  /\ ui' \in {"hello", "off"}
  /\ UNCHANGED <<stopping, run, ends, viewer, cable>>

(* Two attempts at the ClientHello. *)
client_hello ==
  /\ ui \in {"hello", "retry"}
  /\ ui' \in {"answer", IF ui = "hello" THEN "retry" ELSE "off"}
  /\ UNCHANGED <<stopping, run, ends, viewer, cable>>

(* The ServerHello opens the session: the worker starts, and starts the reader. *)
complete ==
  /\ ui = "answer"
  /\ \/ ui' = "off" /\ UNCHANGED <<worker, reader>>
     \/ ui' = "open" /\ worker' = "poll" /\ reader' = "reading"
  /\ UNCHANGED <<stopping, at, hits, ends, viewer, usbFailed, asked, inbound>>

-----------------------------------------------------------------------------
(* The clients, in the UI thread's event loop. A client has one socket. *)

\* Mutant: the ids of a connection begin anew.
ConnectAnew(i) ==
  /\ ui = "open" /\ worker # "ended" /\ connection[i] = 0 /\ opened[i] < MaxClients[i]
  /\ i = ControlChannel => m_nextId <= MaxRequests
  /\ opened' = [opened EXCEPT ![i] = @ + 1]
  /\ connection' = [connection EXCEPT ![i] = opened'[i]]
  /\ backlog' = [backlog EXCEPT ![i] = Append(@, opened'[i])]
  /\ m_nextId' = IF i = ControlChannel THEN 1 ELSE m_nextId
  /\ UNCHANGED <<ui, stopping, run, clients, cut, missed, spoke, unread, idOf, m_pending,
                 answered, cable>>

connect(i) ==
  /\ ui = "open" /\ worker # "ended" /\ connection[i] = 0 /\ opened[i] < MaxClients[i]
  /\ i = ControlChannel => m_nextId <= MaxRequests
  /\ opened' = [opened EXCEPT ![i] = @ + 1]
  /\ connection' = [connection EXCEPT ![i] = opened'[i]]
  /\ backlog' = [backlog EXCEPT ![i] = Append(@, opened'[i])]
  /\ UNCHANGED <<ui, stopping, run, clients, cut, missed, spoke, unread, calls, cable>>

(* A connected client writes what it came for: the viewer's first requests, the header of
   an upload. *)
write_request(i) ==
  /\ ui = "open" /\ connection[i] # 0
  /\ \/ clients[i] = connection[i]
     \/ \E k \in 1..Len(backlog[i]) : backlog[i][k] = connection[i]
  /\ i \notin spoke /\ spoke' = spoke \cup {i}
  /\ unread' = unread \cup {<<i, connection[i]>>}
  /\ IF i = ControlChannel
       THEN /\ idOf' = [idOf EXCEPT ![connection[i]] = m_nextId]
            /\ m_nextId' = m_nextId + 1
            /\ m_pending' = m_pending \cup {connection[i]}
       ELSE UNCHANGED <<idOf, m_nextId, m_pending>>
  /\ UNCHANGED <<ui, stopping, run, ends, connection, opened, answered, cable>>

(* abort(), or the socket says `disconnected`: what the bridge has not read may be lost, and
   failAllPending() calls the callbacks that wait. *)
abort(i) ==
  /\ ui = "open" /\ connection[i] # 0
  /\ unread' \in {unread, unread \ {<<i, connection[i]>>}}
  /\ connection' = [connection EXCEPT ![i] = 0] /\ spoke' = spoke \ {i}
  /\ m_pending' = IF i = ControlChannel THEN {} ELSE m_pending
  /\ UNCHANGED <<ui, stopping, run, ends, opened, m_nextId, idOf, answered, cable>>

-----------------------------------------------------------------------------
(* The reader, and the device behind it. *)

read_record(i) ==
  /\ reader = "reading" /\ asked[i] # <<>> /\ Len(inbound) < MaxInbound
  /\ asked' = [asked EXCEPT ![i] = Tail(@)]
  /\ inbound' = Append(inbound, [channel |-> i, of |-> Head(asked[i])])
  /\ UNCHANGED <<ui, stopping, run, ends, viewer, reader, usbFailed>>

(* A record that is cut short, or of another session. *)
read_bad ==
  /\ reader = "reading" /\ Len(inbound) < MaxInbound
  /\ inbound' = Append(inbound, Bad)
  /\ UNCHANGED <<ui, stopping, run, ends, viewer, reader, usbFailed, asked>>

read_failed ==
  /\ reader = "reading"
  /\ usbFailed' = TRUE /\ reader' = "ended"
  /\ UNCHANGED <<ui, stopping, run, ends, viewer, asked, inbound>>

(* A transfer times out after 250 ms, and the flag is looked at. *)
reader_stops ==
  /\ reader = "reading" /\ stopping
  /\ reader' = "ended"
  /\ UNCHANGED <<ui, stopping, run, ends, viewer, usbFailed, asked, inbound>>

-----------------------------------------------------------------------------
(* The worker. *)

(* Has the client of a channel ended the connection, or been shut down? *)
ClientEnded(i) == connection[i] # clients[i] \/ i \in cut

Readable(i) == clients[i] # 0 /\ (<<i, clients[i]>> \in unread \/ ClientEnded(i))

NextChannel(i) == {j \in Channels : j > i}
FirstOf(S) == CHOOSE i \in S : \A j \in S : i <= j

(* poll() does not wait. With nothing to stop for, run() goes through the channels. *)
poll ==
  /\ worker = "poll"
  /\ IF stopping THEN worker' = "exit" /\ UNCHANGED <<at, hits>>
     ELSE /\ worker' = "accept" /\ at' = FirstOf(Channels)
          /\ hits' = [new |-> {i \in Channels : backlog[i] # <<>>},
                      data |-> {i \in Channels : Readable(i)}]
  /\ UNCHANGED <<ui, stopping, ends, viewer, cable>>

GoOn ==
  IF NextChannel(at) = {}
  THEN worker' = "check" /\ at' = FirstOf(Channels) /\ hits' = Nothing
  ELSE worker' = "accept" /\ at' = FirstOf(NextChannel(at)) /\ UNCHANGED hits

(* A new client takes the place of the old one. What poll() said of the old one's socket
   is then taken to be about the new one's. *)
accept ==
  /\ worker = "accept"
  /\ IF at \in hits.new
       THEN /\ clients' = [clients EXCEPT ![at] = Head(backlog[at])]
            /\ backlog' = [backlog EXCEPT ![at] = Tail(@)]
            /\ unread' = unread \ {<<at, clients[at]>>} /\ cut' = cut \ {at}
            /\ missed' = IF ui = "join" THEN missed \cup {at} ELSE missed \ {at}
       ELSE UNCHANGED <<clients, backlog, unread, cut, missed>>
  /\ IF clients'[at] # 0 /\ at \in hits.data THEN worker' = "recv" /\ UNCHANGED <<at, hits>> ELSE GoOn
  /\ UNCHANGED <<ui, stopping, connection, opened, spoke, calls, cable>>

(* closeClient() *)
CloseClient(i) ==
  /\ clients' = [clients EXCEPT ![i] = 0] /\ unread' = unread \ {<<i, clients[i]>>}
  /\ cut' = cut \ {i} /\ missed' = missed \ {i}

(* recv() waits for data or for the end of the connection. *)
recv_data ==
  /\ worker = "recv" /\ <<at, clients[at]>> \in unread
  /\ worker' = "send"
  /\ UNCHANGED <<ui, stopping, at, hits, ends, viewer, cable>>

recv_end ==
  /\ worker = "recv" /\ ClientEnded(at)
  /\ CloseClient(at)
  /\ GoOn
  /\ UNCHANGED <<ui, stopping, backlog, connection, opened, spoke, calls, cable>>

\* Mutant: run() returns when a record cannot be sent.
SendOrReturn ==
  /\ worker = "send"
  /\ unread' = unread \ {<<at, clients[at]>>}
  /\ \/ asked' = [asked EXCEPT ![at] = Append(@, clients[at])] /\ GoOn /\ UNCHANGED usbFailed
     \/ worker' = "ended" /\ UNCHANGED <<asked, usbFailed, at, hits>>
  /\ UNCHANGED <<ui, stopping, ends, connection, opened, spoke, calls, reader, inbound>>

(* sendRecord(): the bulk OUT transfer ends within 60 seconds, or fails the session. *)
send_record ==
  /\ worker = "send"
  /\ unread' = unread \ {<<at, clients[at]>>}
  /\ \/ asked' = [asked EXCEPT ![at] = Append(@, clients[at])] /\ GoOn /\ UNCHANGED usbFailed
     \/ usbFailed' = TRUE /\ worker' = "check" /\ UNCHANGED <<asked, at, hits>>
  /\ UNCHANGED <<ui, stopping, ends, connection, opened, spoke, calls, reader, inbound>>

\* Mutant: run() does not look at usbFailed.
FailureUnseen ==
  /\ worker = "check"
  /\ worker' = "drain"
  /\ UNCHANGED <<ui, stopping, at, hits, ends, viewer, cable>>

(* After the channels: drainInbound(), unless the transfers have failed. *)
check ==
  /\ worker = "check"
  /\ worker' = IF usbFailed THEN "exit" ELSE "drain"
  /\ UNCHANGED <<ui, stopping, at, hits, ends, viewer, cable>>

(* drainInbound(): the next record. *)
drain ==
  /\ worker = "drain"
  /\ IF inbound = <<>> \/ Head(inbound) = Bad
       THEN worker' = (IF inbound = <<>> THEN "poll" ELSE "exit") /\ UNCHANGED <<inbound, at, hits>>
       ELSE /\ inbound' = Tail(inbound)
            /\ IF clients[Head(inbound).channel] = 0 THEN UNCHANGED run
               ELSE worker' = "write" /\ at' = Head(inbound).channel /\ hits' = Head(inbound)
  /\ UNCHANGED <<ui, stopping, ends, viewer, reader, usbFailed, asked>>

(* readLines(): the callbacks that wait for the id which an answer carries. *)
CallbacksFor(of) == {c \in m_pending : idOf[c] = idOf[of]}

(* writeAll() to a client: it blocks while the client does not read, which is when the UI
   thread waits, and fails at a connection that is closed or shut down. *)
write ==
  /\ worker = "write"
  /\ \/ /\ ClientEnded(at)
        /\ CloseClient(at)
        /\ UNCHANGED <<m_pending, answered>>
     \/ /\ ~ClientEnded(at) /\ (ui = "open" \/ at \in missed)
        /\ IF ui = "open" /\ at = ControlChannel
             THEN /\ m_pending' = m_pending \ CallbacksFor(hits.of)
                  /\ answered' = [c \in Ids |->
                       IF c \in CallbacksFor(hits.of) THEN hits.of ELSE answered[c]]
             ELSE UNCHANGED <<m_pending, answered>>
        /\ UNCHANGED <<clients, unread, cut, missed>>
  /\ worker' = "drain" /\ at' = FirstOf(Channels) /\ hits' = Nothing
  /\ UNCHANGED <<ui, stopping, backlog, connection, opened, spoke, m_nextId, idOf, cable>>

(* The end of run(): the reader is joined before the handle is given back. *)
leave_loop ==
  /\ worker = "exit"
  /\ stopping' = TRUE /\ worker' = "join"
  /\ UNCHANGED <<ui, at, hits, ends, viewer, cable>>

join_reader ==
  /\ worker = "join" /\ reader = "ended"
  /\ clients' = None /\ cut' = {} /\ missed' = {}
  /\ worker' = "ended"
  /\ UNCHANGED <<ui, stopping, at, hits, backlog, viewer, cable>>

-----------------------------------------------------------------------------
(* ~Impl(), on the UI thread: Disconnect, the end of the program, or a new Connect. *)

destroy ==
  /\ ui = "open"
  /\ ui' = "sweep" /\ stopping' = TRUE
  /\ answered' = [c \in Ids |-> 0] /\ opened' = None /\ spoke' = {}
  /\ UNCHANGED <<run, ends, connection, unread, m_nextId, idOf, m_pending, cable>>

\* Mutant: the worker is joined, the clients are not woken.
JoinAtOnce ==
  /\ ui = "sweep"
  /\ ui' = "join"
  /\ UNCHANGED <<stopping, run, ends, viewer, cable>>

(* The clients are shut down, to wake a worker that waits for one. *)
sweep ==
  /\ ui = "sweep"
  /\ cut' = {i \in Channels : clients[i] # 0}
  /\ ui' = "join"
  /\ UNCHANGED <<stopping, run, backlog, clients, missed, viewer, cable>>

(* The worker joined, what is left is closed and the handle given back. A worker that
   another thread runs on cannot be modelled further: what it left is kept. *)
join_worker ==
  /\ ui = "join" /\ worker = "ended"
  /\ ui' = "off" /\ stopping' = FALSE /\ usbFailed' = FALSE
  /\ worker' = "none" /\ at' = FirstOf(Channels) /\ hits' = Nothing
  /\ backlog' = [i \in Channels |-> <<>>] /\ clients' = None /\ cut' = {} /\ missed' = {}
  /\ connection' = None /\ opened' = None /\ spoke' = {} /\ unread' = {}
  /\ idOf' = [c \in Ids |-> 0] /\ m_pending' = {} /\ answered' = [c \in Ids |-> 0]
  /\ UNCHANGED m_nextId
  /\ asked' = [i \in Channels |-> <<>>] /\ inbound' = <<>>
  /\ reader' = IF reader = "ended" THEN "none" ELSE reader

-----------------------------------------------------------------------------
BridgeInit ==
  /\ ui = "off" /\ stopping = FALSE /\ usbFailed = FALSE
  /\ worker = "none" /\ at = FirstOf(Channels) /\ hits = Nothing
  /\ backlog = [i \in Channels |-> <<>>] /\ clients = None /\ cut = {} /\ missed = {}
  /\ connection = None /\ opened = None /\ spoke = {} /\ unread = {}
  /\ m_nextId = 1 /\ idOf = [c \in Ids |-> 0] /\ m_pending = {}
  /\ answered = [c \in Ids |-> 0]
  /\ asked = [i \in Channels |-> <<>>] /\ inbound = <<>>
  /\ reader = "none"

Start == claim \/ make_listeners \/ client_hello \/ complete
Destroy == sweep \/ join_worker
Reader == (\E i \in Channels : read_record(i)) \/ read_bad \/ read_failed
Worker ==
  \/ poll \/ accept \/ recv_data \/ recv_end \/ send_record \/ check \/ drain \/ write
  \/ leave_loop \/ join_reader

BridgeNext ==
  \/ Start \/ destroy \/ Destroy \/ Reader \/ reader_stops \/ Worker
  \/ \E i \in Channels : connect(i) \/ write_request(i) \/ abort(i)

BridgeSpec == BridgeInit /\ [][BridgeNext]_bridgeVars

(* The threads run; a client that is connected writes what it came for, as long as the UI
   thread is in its event loop. *)
BridgeFairSpec ==
  /\ BridgeSpec
  /\ WF_bridgeVars(Worker) /\ WF_bridgeVars(reader_stops) /\ WF_bridgeVars(Destroy)
  /\ \A i \in Channels : WF_bridgeVars(write_request(i))

-----------------------------------------------------------------------------
(* Properties. *)

(* What the fields of SecureUsbBridge::Impl and the steps of its threads may be. *)
BridgeTypeOK ==
  /\ ui \in {"off", "bind", "hello", "retry", "answer", "open", "sweep", "join"}
  /\ worker \in {"none", "poll", "accept", "recv", "send", "check", "drain", "write", "exit",
                 "join", "ended"}
  /\ at \in Channels /\ reader \in {"none", "reading", "ended"}
  /\ stopping \in BOOLEAN /\ usbFailed \in BOOLEAN
  /\ clients \in [Channels -> Ids \cup {0}] /\ connection \in [Channels -> Ids \cup {0}]
  /\ opened \in [Channels -> Ids \cup {0}] /\ missed \subseteq Channels
  /\ unread \subseteq Channels \X Ids /\ cut \subseteq Channels

(* secureusbbridge.cpp says of the reader that it is joined "before ~Impl frees the libusb
   handle", and of a failed send that a bare return skipped that join: whichever way the
   session ends, nobody uses a handle that was given back. *)
HandleOutlivesThreads == ui = "off" => reader = "none" /\ worker = "none"

(* The end of the transfers ends the session, so that isRunning() says so: the worker is
   never left waiting for a client. *)
FailureEndsSession == usbFailed ~> stopping

(* The UI thread comes back from ~Impl(), unless the worker waits for a client it accepted
   after the others had been shut down, and which only the UI thread could make speak. *)
DestroyEnds ==
  (ui = "join") ~> (ui # "join" \/ (worker = "recv" /\ at \in missed))

(* The bridge hands what the device answers to whoever holds the port: the answer to a
   request of a connection that is gone, too, after abort() and a new connection with its
   own request. ControlClient tells them apart by the ids, which it never gives twice: a
   callback is called with the answer to its own request or not at all. *)
AnswerIsOwn ==
  \A c \in Ids : answered[c] \in {0, c}
=============================================================================
