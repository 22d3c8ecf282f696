---------------------------- MODULE SwupdateClient ----------------------------
(***************************************************************************)
(* Installing an update: class SwupdateClient of update/SwupdateClient.cpp *)
(* with the threads that use it, the upload handlers of UpdateServer.cpp,  *)
(* and the swupdate daemon behind its sockets (external).                  *)
(*                                                                         *)
(* Every upload connection has a handler thread, handle_connection(), and, *)
(* once swupdate has accepted its image, a detached poller thread,         *)
(* poll_completion().  All of them share one status_.  The daemon may fail *)
(* an image, crash and come back at any time.                              *)
(*                                                                         *)
(* install_from_file() is left out: nothing calls it.  UpdateState::Done   *)
(* only occurs in answers of the daemon, where it is read as Success.      *)
(***************************************************************************)
EXTENDS Naturals, Sequences

CONSTANTS
  Uploads,     \* the upload connections of a behaviour
  Chunks,      \* how many pieces an image is streamed in
  MaxWaits,    \* 600: silences in a row, or polls of the control socket
  MaxReports,  \* bound on the unread progress messages of a poller
  MaxCrashes,  \* bound on the daemon's crashes
  Nobody       \* no upload

ASSUME ConstantsAssumption ==
  /\ Chunks \in Nat \ {0}
  /\ MaxWaits \in Nat \ {0}
  /\ MaxReports \in Nat
  /\ MaxCrashes \in Nat
  /\ Nobody \notin Uploads

VARIABLES
  state,      \* status_.state
  owner,      \* history: the upload whose try_begin() succeeded last
  handler,    \* where each upload's handle_connection() is
  sent,       \* how much of its image it has written to the daemon
  poller,     \* where each upload's poller thread is
  sawStart,   \* its saw_start
  waits,      \* its idle_count, or how often it has polled
  inbox,      \* progress messages it has not read
  subscribed, \* its progress connection is up
  job,        \* the upload the daemon works on, or Nobody
  phase,      \* what it does about it; "down" when it is not running
  last,       \* its last_result
  outcome,    \* history: what became of each upload at the daemon
  crashes     \* how often it has crashed

clientVars == <<state, owner, handler, sent, poller, sawStart, waits>>
daemonVars == <<job, phase, last, outcome, crashes>>
vars == <<state, owner, handler, sent, poller, sawStart, waits, inbox,
          subscribed, job, phase, last, outcome, crashes>>

Busy == {"Uploading", "Installing"}
States == Busy \cup {"Idle", "Success", "Failure"}
HandlerPCs == {"header", "begin", "request", "stream", "end", "closed"}
Asking == {"silence", "closed", "control"}
Listening == Asking \cup {"connect", "progress"}
PollerPCs == Listening \cup {"none", "ended", "ended by control"}
Messages == {"idle", "start", "success", "failure"}
Results == {"none", "success", "failure"}

(* What status_, the handlers, the pollers and the daemon may be in. *)
TypeOK ==
  /\ state \in States
  /\ owner \in Uploads \cup {Nobody}
  /\ handler \in [Uploads -> HandlerPCs]
  /\ sent \in [Uploads -> 0 .. Chunks]
  /\ poller \in [Uploads -> PollerPCs]
  /\ sawStart \in [Uploads -> BOOLEAN]
  /\ waits \in [Uploads -> 0 .. MaxWaits]
  /\ inbox \in [Uploads -> Seq(Messages)]
  /\ subscribed \in [Uploads -> BOOLEAN]
  /\ job \in Uploads \cup {Nobody}
  /\ phase \in {"down", "idle", "accepted", "run"}
  /\ last \in Results
  /\ outcome \in [Uploads -> {"none", "success", "failure", "lost"}]
  /\ crashes \in Nat

Init ==
  /\ state = "Idle" /\ owner = Nobody
  /\ handler = [u \in Uploads |-> "header"]
  /\ sent = [u \in Uploads |-> 0]
  /\ poller = [u \in Uploads |-> "none"]
  /\ sawStart = [u \in Uploads |-> FALSE]
  /\ waits = [u \in Uploads |-> 0]
  /\ inbox = [u \in Uploads |-> <<>>]
  /\ subscribed = [u \in Uploads |-> FALSE]
  /\ job = Nobody /\ phase = "idle" /\ last = "none"
  /\ outcome = [u \in Uploads |-> "none"]
  /\ crashes = 0

-------------------------------------------------------------------------------
(***************************************************************************)
(* handle_connection(), begin_stream_install() and end_stream_install().   *)
(***************************************************************************)

\* The header is read; one that is missing or bad ends the connection.
ReadHeader(u) ==
  /\ handler[u] = "header"
  /\ \E next \in {"begin", "closed"} : handler' = [handler EXCEPT ![u] = next]
  /\ UNCHANGED <<state, owner, sent, poller, sawStart, waits, inbox,
                 subscribed, daemonVars>>

\* Mutant: an installation that runs does not count as busy.
TryBeginWhileInstalling(u) ==
  /\ handler[u] = "begin"
  /\ IF state = "Uploading"
     THEN /\ handler' = [handler EXCEPT ![u] = "closed"]
          /\ UNCHANGED <<state, owner>>
     ELSE /\ state' = "Uploading"
          /\ owner' = u
          /\ handler' = [handler EXCEPT ![u] = "request"]
  /\ UNCHANGED <<sent, poller, sawStart, waits, inbox, subscribed, daemonVars>>

\* try_begin() checks and claims status_ under one lock.
TryBegin(u) ==
  /\ handler[u] = "begin"
  /\ IF state \in Busy
     THEN /\ handler' = [handler EXCEPT ![u] = "closed"]
          /\ UNCHANGED <<state, owner>>
     ELSE /\ state' = "Uploading"
          /\ owner' = u
          /\ handler' = [handler EXCEPT ![u] = "request"]
  /\ UNCHANGED <<sent, poller, sawStart, waits, inbox, subscribed, daemonVars>>

\* request_install() gets its ACK, and the poller thread starts.
RequestAccepted(u) ==
  /\ handler[u] = "request"
  /\ phase = "idle"
  /\ job' = u
  /\ phase' = "accepted"
  /\ handler' = [handler EXCEPT ![u] = "stream"]
  /\ poller' = [poller EXCEPT ![u] = "connect"]
  /\ UNCHANGED <<state, owner, sent, sawStart, waits, inbox, subscribed, last,
                 outcome, crashes>>

\* No socket, a NACK, or an error on the way.
RequestRefused(u) ==
  /\ handler[u] = "request"
  /\ state' = "Failure"
  /\ handler' = [handler EXCEPT ![u] = "closed"]
  /\ UNCHANGED <<owner, sent, poller, sawStart, waits, inbox, subscribed,
                 daemonVars>>

\* A chunk of the host goes to the daemon.
StreamChunk(u) ==
  /\ handler[u] = "stream"
  /\ sent[u] < Chunks
  /\ job = u
  /\ sent' = [sent EXCEPT ![u] = @ + 1]
  /\ UNCHANGED <<state, owner, handler, poller, sawStart, waits, inbox,
                 subscribed, daemonVars>>

\* The image is complete, or the host or the daemon has hung up: the handler
\* closes its end of the daemon's socket.
StreamEnds(u) ==
  /\ handler[u] = "stream"
  /\ handler' = [handler EXCEPT ![u] = "end"]
  /\ UNCHANGED <<state, owner, sent, poller, sawStart, waits, inbox,
                 subscribed, daemonVars>>

\* end_stream_install(), complete or not, and the final response.
EndStream(u) ==
  /\ handler[u] = "end"
  /\ state' = IF state = "Uploading" THEN "Installing" ELSE state
  /\ handler' = [handler EXCEPT ![u] = "closed"]
  /\ UNCHANGED <<owner, sent, poller, sawStart, waits, inbox, subscribed,
                 daemonVars>>

-------------------------------------------------------------------------------
(***************************************************************************)
(* poll_completion().                                                      *)
(***************************************************************************)

\* What GET_STATUS may answer: the daemon's state, or the notification of
\* the result it still has queued.  Nothing when it cannot be reached.
Status ==
  IF phase = "down" THEN {}
  ELSE IF phase = "run" THEN {"installing"}
  ELSE {"idle"} \cup (IF phase = "idle" /\ last # "none" THEN {last} ELSE {})

\* Mutant: an idle daemon is taken for one that has succeeded.
VerdictIdleIsDone(answer) == IF answer = "idle" THEN "success" ELSE answer

Verdict(answer) == IF answer = "idle" THEN last ELSE answer

\* The poller ends with `s` in status_, and its counter with it.
Conclude(u, s) ==
  /\ state' = s
  /\ waits' = [waits EXCEPT ![u] = 0]
  /\ poller' = [poller EXCEPT ![u] = IF @ = "control" THEN "ended by control"
                                     ELSE "ended"]

\* The progress socket is there, or GET_STATUS has to do instead; without
\* the progress socket's greeting there is no telling.
Connect(u) ==
  /\ poller[u] = "connect"
  /\ \/ /\ phase # "down"
        /\ poller' = [poller EXCEPT ![u] = "progress"]
        /\ subscribed' = [subscribed EXCEPT ![u] = TRUE]
        /\ UNCHANGED <<state, waits>>
     \/ /\ poller' = [poller EXCEPT ![u] = "control"]
        /\ UNCHANGED <<state, waits, subscribed>>
     \/ Conclude(u, "Failure") /\ UNCHANGED subscribed
  /\ UNCHANGED <<owner, handler, sent, sawStart, inbox, daemonVars>>

\* A progress message, which ends the silences.
Receive(u) ==
  /\ poller[u] = "progress"
  /\ inbox[u] # <<>>
  /\ inbox' = [inbox EXCEPT ![u] = Tail(@)]
  /\ waits' = [waits EXCEPT ![u] = 0]
  /\ \/ /\ Head(inbox[u]) = "success"
        /\ Conclude(u, "Success")
        /\ UNCHANGED sawStart
     \/ /\ Head(inbox[u]) = "failure"
        /\ Conclude(u, "Failure")
        /\ UNCHANGED sawStart
     \/ /\ Head(inbox[u]) = "start"
        /\ sawStart' = [sawStart EXCEPT ![u] = TRUE]
        /\ state' = IF state = "Uploading" THEN "Installing" ELSE state
        /\ UNCHANGED poller
     \/ /\ Head(inbox[u]) = "idle"
        /\ UNCHANGED <<state, poller, sawStart>>
  /\ UNCHANGED <<owner, handler, sent, subscribed, daemonVars>>

\* Mutant: a connection closed before the start leaves the state alone.
ClosedQuietly(u) ==
  /\ poller[u] = "progress"
  /\ inbox[u] = <<>>
  /\ ~subscribed[u]
  /\ poller' = [poller EXCEPT ![u] = IF sawStart[u] THEN "closed" ELSE "ended"]
  /\ UNCHANGED <<state, owner, handler, sent, sawStart, waits, inbox,
                 subscribed, daemonVars>>

\* The daemon has closed the progress connection: before the start that is a
\* failure, after it GET_STATUS is asked.
Closed(u) ==
  /\ poller[u] = "progress"
  /\ inbox[u] = <<>>
  /\ ~subscribed[u]
  /\ IF sawStart[u]
     THEN /\ poller' = [poller EXCEPT ![u] = "closed"]
          /\ UNCHANGED <<state, waits>>
     ELSE Conclude(u, "Failure")
  /\ UNCHANGED <<owner, handler, sent, sawStart, inbox, subscribed, daemonVars>>

\* It is taken for a success unless the daemon answers that it failed.
ClosedAnswered(u) ==
  /\ poller[u] = "closed"
  /\ \/ Conclude(u, IF phase # "down" /\ last = "failure" THEN "Failure"
                    ELSE "Success")
     \/ Conclude(u, "Success")
  /\ UNCHANGED <<owner, handler, sent, sawStart, inbox, subscribed, daemonVars>>

\* 60 s without a message.  After the start GET_STATUS is asked; before it
\* the last silence that is allowed ends the poller.
Silence(u) ==
  /\ poller[u] = "progress"
  /\ inbox[u] = <<>>
  /\ subscribed[u]
  /\ \/ /\ sawStart[u]
        /\ poller' = [poller EXCEPT ![u] = "silence"]
        /\ waits' = [waits EXCEPT ![u] = @ + 1]
        /\ UNCHANGED state
     \/ /\ ~sawStart[u]
        /\ waits[u] + 1 = MaxWaits
        /\ Conclude(u, "Failure")
     \/ /\ ~sawStart[u]
        /\ waits[u] + 1 < MaxWaits
        /\ waits' = [waits EXCEPT ![u] = @ + 1]
        /\ UNCHANGED <<state, poller>>
  /\ UNCHANGED <<owner, handler, sent, sawStart, inbox, subscribed, daemonVars>>

Settled(u) ==
  \E answer \in Status \ {"installing"} :
    Conclude(u, IF Verdict(answer) = "failure" THEN "Failure" ELSE "Success")

\* poll_status() returns: it settles the installation, or not, also because
\* it failed.
SilenceAnswered(u) ==
  /\ poller[u] = "silence"
  /\ \/ Settled(u)
     \/ /\ waits[u] = MaxWaits
        /\ Conclude(u, "Failure")
     \/ /\ waits[u] < MaxWaits
        /\ poller' = [poller EXCEPT ![u] = "progress"]
        /\ UNCHANGED <<state, waits>>
  /\ UNCHANGED <<owner, handler, sent, sawStart, inbox, subscribed, daemonVars>>

\* GET_STATUS instead of the progress socket, every second.  What settles
\* nothing is a poll that failed, an installation that runs, or an idle
\* daemon in the first five polls.
PollControl(u) ==
  /\ poller[u] = "control"
  /\ \/ Settled(u)
     \/ /\ waits[u] + 1 = MaxWaits
        /\ Conclude(u, "Failure")
     \/ /\ waits[u] + 1 < MaxWaits
        /\ waits' = [waits EXCEPT ![u] = @ + 1]
        /\ \/ UNCHANGED state
           \/ /\ "installing" \in Status
              /\ state' = IF state = "Uploading" THEN "Installing" ELSE state
        /\ UNCHANGED poller
  /\ UNCHANGED <<owner, handler, sent, sawStart, inbox, subscribed, daemonVars>>

-------------------------------------------------------------------------------
(***************************************************************************)
(* The swupdate daemon (external).                                         *)
(***************************************************************************)

\* It sends a progress message to every client that is connected.
Report(message) ==
  inbox' = [u \in Uploads |->
              IF subscribed[u] /\ poller[u] \in {"progress", "silence"}
              THEN Append(inbox[u], message)
              ELSE inbox[u]]

RoomToReport ==
  \A u \in Uploads : poller[u] \in Listening => Len(inbox[u]) < MaxReports

DaemonStarts ==
  /\ phase = "accepted"
  /\ RoomToReport
  /\ phase' = "run"
  /\ Report("start")
  /\ UNCHANGED <<clientVars, subscribed, job, last, outcome, crashes>>

\* More of the same: RUN, PROGRESS, SUBPROCESS; or, between two jobs, IDLE.
DaemonProgresses ==
  /\ phase \in {"run", "idle"}
  /\ RoomToReport
  /\ Report(IF phase = "run" THEN "start" ELSE "idle")
  /\ UNCHANGED <<clientVars, subscribed, job, phase, last, outcome, crashes>>

\* It can only succeed with the whole image; it may fail at any point.  The
\* code reckons with an end that is not reported.
DaemonFinishes ==
  /\ phase = "run"
  /\ RoomToReport
  /\ \E result \in {"success", "failure"} :
       /\ result = "success" => sent[job] = Chunks
       /\ last' = result
       /\ outcome' = [outcome EXCEPT ![job] = result]
       /\ Report(result) \/ UNCHANGED inbox
  /\ phase' = "idle"
  /\ job' = Nobody
  /\ UNCHANGED <<clientVars, subscribed, crashes>>

DaemonCrashes ==
  /\ phase # "down"
  /\ crashes < MaxCrashes
  /\ crashes' = crashes + 1
  /\ phase' = "down"
  /\ job' = Nobody
  /\ last' = "none"
  /\ outcome' = [u \in Uploads |-> IF u = job THEN "lost" ELSE outcome[u]]
  /\ subscribed' = [u \in Uploads |-> FALSE]
  /\ UNCHANGED <<clientVars, inbox>>

DaemonRestarts ==
  /\ phase = "down"
  /\ phase' = "idle"
  /\ UNCHANGED <<clientVars, inbox, subscribed, job, last, outcome, crashes>>

-------------------------------------------------------------------------------
Handler(u) ==
  \/ ReadHeader(u) \/ TryBegin(u) \/ RequestAccepted(u) \/ RequestRefused(u)
  \/ StreamChunk(u) \/ StreamEnds(u) \/ EndStream(u)

Poller(u) ==
  \/ Connect(u) \/ Receive(u) \/ Closed(u) \/ Silence(u)
  \/ ClosedAnswered(u) \/ SilenceAnswered(u) \/ PollControl(u)

Daemon ==
  \/ DaemonStarts \/ DaemonProgresses \/ DaemonFinishes
  \/ DaemonCrashes \/ DaemonRestarts

Next == (\E u \in Uploads : Handler(u) \/ Poller(u)) \/ Daemon

Spec == Init /\ [][Next]_vars

(***************************************************************************)
(* While the daemon reads an image from the handler it does not answer on  *)
(* its control socket ("which blocks during CPIO streaming"), and neither  *)
(* end of that image has a timeout.                                        *)
(***************************************************************************)
StreamsImage == job # Nobody /\ handler[job] = "stream"

(***************************************************************************)
(* Fairness.  A handler gets an answer to its request, and a poller to its *)
(* GET_STATUS, unless the daemon reads an image; a poller reads what there *)
(* is to read and counts its silences.  Neither the host nor the daemon    *)
(* has to do anything else.                                                *)
(***************************************************************************)
FairSpec ==
  /\ Spec
  /\ \A u \in Uploads :
       /\ WF_vars(~StreamsImage /\ (RequestAccepted(u) \/ RequestRefused(u)))
       /\ WF_vars(Connect(u) \/ Receive(u) \/ Silence(u) \/ Closed(u))
       /\ WF_vars(/\ ~StreamsImage
                  /\ ClosedAnswered(u) \/ SilenceAnswered(u) \/ PollControl(u))

-------------------------------------------------------------------------------
(***************************************************************************)
(* Properties.                                                             *)
(***************************************************************************)

(***************************************************************************)
(* A poller runs only for the upload that owns status_, and only while it  *)
(* is busy: two pollers never write into it, although a handler that was   *)
(* overtaken by the end of its installation may still be streaming while   *)
(* the next upload begins.                                                 *)
(***************************************************************************)
PollerOwnsStatus ==
  \A u \in Uploads : poller[u] \in Listening => u = owner /\ state \in Busy

(***************************************************************************)
(* "Without a terminal state here the client would stay busy forever":     *)
(* whenever it is busy, a thread is there that will give it one.           *)
(***************************************************************************)
BusyHasAnEnd ==
  state \in Busy =>
    /\ owner \in Uploads
    /\ handler[owner] = "request" \/ poller[owner] \in Listening

(***************************************************************************)
(* What a daemon that stays up failed to install is never a success for a  *)
(* poller that had the progress socket, even if the end is not reported.   *)
(***************************************************************************)
FailureIsReported ==
  \A u \in Uploads :
    (crashes = 0 /\ u = owner /\ state = "Success" /\ poller[u] = "ended")
      => outcome[u] # "failure"

(***************************************************************************)
(* Every installation comes to an end for the client, so an update can be  *)
(* tried again: the poller counts silences and polls, and nothing else can *)
(* hold it up but a daemon that reports progress for ever, or one that     *)
(* does not answer because a host has stalled in the middle of its image.  *)
(***************************************************************************)
Unanswered ==
  /\ StreamsImage
  /\ \E u \in Uploads : handler[u] = "request" \/ poller[u] \in Asking

BusyEnds ==
  <>[][~DaemonProgresses]_vars
    => (state \in Busy ~> state \notin Busy \/ []Unanswered)

(***************************************************************************)
(* "Success: installation completed successfully".                         *)
(***************************************************************************)
SuccessMeansInstalled ==
  state = "Success" => owner \in Uploads /\ outcome[owner] = "success"
===============================================================================
