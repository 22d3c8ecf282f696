----------------------------- MODULE RecordWriter -----------------------------
(***************************************************************************)
(* The outbound half of one secure USB session: class RecordWriter of      *)
(* secure/SecureUsbServer.cpp with the threads around it.                  *)
(*                                                                         *)
(* Several producer threads (the video loops, the detection threads, the   *)
(* tunnel pump and the thread that dispatches control requests) call       *)
(* enqueue(), which seals a record under the next nonce and appends it to  *)
(* a queue.  One writer thread, run(), drains the queue into the FunctionFS*)
(* endpoint, whose write blocks in the kernel until the host reads.  A     *)
(* coordinator thread ends the session: it sets `dead` and calls           *)
(* request_stop(), which interrupts the blocked write by a signal.         *)
(*                                                                         *)
(* One record stands for one unit of kQueueLimit.  The cipher is reduced   *)
(* to its counter: what matters of a sealed record is who sealed it and    *)
(* the sequence number its nonce was built from.                           *)
(***************************************************************************)
EXTENDS Naturals, Sequences

CONSTANTS
  Producers,    \* the threads that call enqueue()
  Droppable,    \* those that enqueue with droppable = true: video and meta
  Fatal,        \* those whose caller sets `dead` when enqueue() returns false
  QueueLimit,   \* kQueueLimit, in records
  MaxSeals,     \* bound on the seals of a behaviour
  NoOne         \* ordering_ is free

ASSUME ConstantsAssumption ==
  /\ Droppable \subseteq Producers
  /\ Fatal \subseteq Producers
  /\ QueueLimit \in Nat
  /\ MaxSeals \in Nat
  /\ NoOne \notin Producers

VARIABLES
  ordering,     \* holder of ordering_, the mutex that spans seal and push
  pc,           \* where each producer is in enqueue()
  pending,      \* the sequence number each producer sealed its record under
  nextNonce,    \* sequence_ of the encrypting SecureRecord
  nonceBurned,  \* a seal failed after it had taken its sequence number
  sealed,       \* history: the records sealed, in order
  queue,        \* queue_
  inflight,     \* the record run() has popped, as a sequence of length <= 1
  writer,       \* where the writer thread is in run()
  delivered,    \* history: the records the host has taken off the endpoint
  dead,         \* Session::dead
  stopper       \* where the coordinator is in Session::shutdown()

prodVars == <<ordering, pc, pending, nextNonce, nonceBurned, sealed>>
vars == <<ordering, pc, pending, nextNonce, nonceBurned, sealed, queue,
          inflight, writer, delivered, dead, stopper>>

Record == [from : Producers, nonce : Nat]

ProducerPCs == {"idle", "seal", "push", "failed"}
WriterPCs == {"unstarted", "check", "wait", "write", "blocked", "exited"}
StopperPCs == {"live", "signalling", "stopped"}

(***************************************************************************)
(* The type invariant.  The popped record exists exactly while run() is    *)
(* between its pop and the end of its write.                               *)
(***************************************************************************)
TypeOK ==
  /\ ordering \in Producers \cup {NoOne}
  /\ pc \in [Producers -> ProducerPCs]
  /\ pending \in [Producers -> Nat]
  /\ nextNonce \in Nat
  /\ nonceBurned \in BOOLEAN
  /\ sealed \in Seq(Record)
  /\ queue \in Seq(Record)
  /\ inflight \in Seq(Record)
  /\ Len(inflight) = IF writer \in {"write", "blocked"} THEN 1 ELSE 0
  /\ writer \in WriterPCs
  /\ delivered \in Seq(Record)
  /\ dead \in BOOLEAN
  /\ stopper \in StopperPCs

Init ==
  /\ ordering = NoOne
  /\ pc = [p \in Producers |-> "idle"]
  /\ pending = [p \in Producers |-> 0]
  /\ nextNonce = 0
  /\ nonceBurned = FALSE
  /\ sealed = <<>>
  /\ queue = <<>>
  /\ inflight = <<>>
  /\ writer = "unstarted"
  /\ delivered = <<>>
  /\ dead = FALSE
  /\ stopper = "live"

-------------------------------------------------------------------------------
(***************************************************************************)
(* enqueue().  Producers go on calling it until they notice `dead`, so     *)
(* none of its steps is guarded by it.                                     *)
(***************************************************************************)

\* Mutant: seal and push are no longer one critical section.
BeginUnordered(p) ==
  /\ pc[p] = "idle"
  /\ nextNonce < MaxSeals
  /\ pc' = [pc EXCEPT ![p] = "seal"]
  /\ UNCHANGED <<ordering, pending, nextNonce, nonceBurned, sealed, queue,
                 inflight, writer, delivered, dead, stopper>>

\* Mutant: the limit is off by one.
BeginOverLimit(p) ==
  /\ pc[p] = "idle"
  /\ nextNonce < MaxSeals
  /\ ordering = NoOne
  /\ p \in Droppable => Len(queue) <= QueueLimit
  /\ ordering' = p
  /\ pc' = [pc EXCEPT ![p] = "seal"]
  /\ UNCHANGED <<pending, nextNonce, nonceBurned, sealed, queue, inflight,
                 writer, delivered, dead, stopper>>

\* Take ordering_ and pass the limit check: the record is going to be sealed.
\* (A droppable record that does not pass is counted and forgotten before it
\* was sealed, and ordering_ is free again: a stuttering step.)
Begin(p) ==
  /\ pc[p] = "idle"
  /\ nextNonce < MaxSeals
  /\ ordering = NoOne
  /\ p \in Droppable => Len(queue) < QueueLimit
  /\ ordering' = p
  /\ pc' = [pc EXCEPT ![p] = "seal"]
  /\ UNCHANGED <<pending, nextNonce, nonceBurned, sealed, queue, inflight,
                 writer, delivered, dead, stopper>>

\* make_wire_record() succeeds: the record gets the next sequence number.
Seal(p) ==
  /\ pc[p] = "seal"
  /\ pc' = [pc EXCEPT ![p] = "push"]
  /\ pending' = [pending EXCEPT ![p] = nextNonce]
  /\ sealed' = Append(sealed, [from |-> p, nonce |-> nextNonce])
  /\ nextNonce' = nextNonce + 1
  /\ UNCHANGED <<ordering, nonceBurned, queue, inflight, writer, delivered,
                 dead, stopper>>

\* make_wire_record() fails and enqueue() returns false.  An oversize payload
\* is refused before next_nonce(); a cipher error comes after it, and the
\* sequence number is gone.  ordering_ is released before the caller reacts.
SealFails(p) ==
  /\ pc[p] = "seal"
  /\ \/ UNCHANGED <<nextNonce, nonceBurned>>
     \/ /\ nextNonce' = nextNonce + 1
        /\ nonceBurned' = TRUE
  /\ ordering' = NoOne
  /\ pc' = [pc EXCEPT ![p] = IF p \in Fatal THEN "failed" ELSE "idle"]
  /\ UNCHANGED <<pending, sealed, queue, inflight, writer, delivered, dead,
                 stopper>>

\* VideoSink::on_frame and LocalTunnel::pump end the session on a failure.
CallerEndsSession(p) ==
  /\ pc[p] = "failed"
  /\ pc' = [pc EXCEPT ![p] = "idle"]
  /\ dead' = TRUE
  /\ UNCHANGED <<ordering, pending, nextNonce, nonceBurned, sealed, queue,
                 inflight, writer, delivered, stopper>>

\* Mutant: the limit is checked after the seal, and the sealed record dropped.
PushOrDrop(p) ==
  /\ pc[p] = "push"
  /\ queue' = IF p \in Droppable /\ Len(queue) + 1 >= QueueLimit THEN queue
              ELSE Append(queue, [from |-> p, nonce |-> pending[p]])
  /\ ordering' = NoOne
  /\ pc' = [pc EXCEPT ![p] = "idle"]
  /\ UNCHANGED <<pending, nextNonce, nonceBurned, sealed, inflight, writer,
                 delivered, dead, stopper>>

\* Append to queue_ and release ordering_.
Push(p) ==
  /\ pc[p] = "push"
  /\ queue' = Append(queue, [from |-> p, nonce |-> pending[p]])
  /\ ordering' = NoOne
  /\ pc' = [pc EXCEPT ![p] = "idle"]
  /\ UNCHANGED <<pending, nextNonce, nonceBurned, sealed, inflight, writer,
                 delivered, dead, stopper>>

-------------------------------------------------------------------------------
(***************************************************************************)
(* run(), on the writer thread.                                            *)
(***************************************************************************)

\* run() begins: started_ = true.
WriterStart ==
  /\ writer = "unstarted"
  /\ writer' = "check"
  /\ UNCHANGED <<prodVars, queue, inflight, delivered, dead, stopper>>

\* while (!dead_), then should_end(): the host-silence watchdog may end the
\* session at any tick; which ones is SecureUsbServer's subject.
WriterCheck ==
  /\ writer = "check"
  /\ \/ dead /\ writer' = "exited" /\ UNCHANGED dead
     \/ ~dead /\ writer' = "exited" /\ dead' = TRUE
     \/ ~dead /\ writer' = "wait" /\ UNCHANGED dead
  /\ UNCHANGED <<prodVars, queue, inflight, delivered, stopper>>

\* wait_for() ends with a record to pop...
WriterPop ==
  /\ writer = "wait"
  /\ queue # <<>>
  /\ inflight' = <<Head(queue)>>
  /\ queue' = Tail(queue)
  /\ writer' = "write"
  /\ UNCHANGED <<prodVars, delivered, dead, stopper>>

\* ...or without, by its 100 ms timeout or because `dead` is set.
WriterIdles ==
  /\ writer = "wait"
  /\ queue = <<>>
  /\ writer' = "check"
  /\ UNCHANGED <<prodVars, queue, inflight, delivered, dead, stopper>>

\* endpoint_write_all() enters the kernel.
WriterBlocks ==
  /\ writer = "write"
  /\ writer' = "blocked"
  /\ UNCHANGED <<prodVars, queue, inflight, delivered, dead, stopper>>

\* The host reads the endpoint, which completes the blocked write.
HostTakes ==
  /\ writer = "blocked"
  /\ delivered' = Append(delivered, Head(inflight))
  /\ inflight' = <<>>
  /\ writer' = "check"
  /\ UNCHANGED <<prodVars, queue, dead, stopper>>

\* Mutant: run() ends after a failed write without telling the session.
WriteFailsQuietly ==
  /\ writer = "blocked"
  /\ writer' = "exited"
  /\ inflight' = <<>>
  /\ UNCHANGED <<prodVars, queue, delivered, dead, stopper>>

\* The endpoint is disabled under the write: the record is lost, the session
\* is over and run() ends.
WriteFails ==
  /\ writer = "blocked"
  /\ writer' = "exited"
  /\ dead' = TRUE
  /\ inflight' = <<>>
  /\ UNCHANGED <<prodVars, queue, delivered, stopper>>

-------------------------------------------------------------------------------
(***************************************************************************)
(* Session::shutdown() and RecordWriter::request_stop().                   *)
(***************************************************************************)

\* dead = true; a writer that has not set started_ is not waited for.
Shutdown ==
  /\ stopper = "live"
  /\ dead' = TRUE
  /\ stopper' = IF writer = "unstarted" THEN "stopped" ELSE "signalling"
  /\ UNCHANGED <<prodVars, queue, inflight, writer, delivered>>

\* Mutant: one signal, and then only waiting.
SignalOnce ==
  /\ stopper = "signalling"
  /\ writer # "exited"
  /\ stopper' = "stopped"
  /\ IF writer = "blocked"
     THEN writer' = "exited" /\ inflight' = <<>>
     ELSE UNCHANGED <<writer, inflight>>
  /\ UNCHANGED <<prodVars, queue, delivered, dead>>

\* wake_until_exited() sends one of its signals.  It only reaches a write
\* that is in the kernel; that one ends with EINTR, finds its abort flag set
\* and fails, and run() ends.  Sent at any other point it has no effect.
Signal ==
  /\ stopper = "signalling"
  /\ writer = "blocked"
  /\ writer' = "exited"
  /\ inflight' = <<>>
  /\ UNCHANGED <<prodVars, queue, delivered, dead, stopper>>

\* wake_until_exited() sees exited_.
StopReturns ==
  /\ stopper = "signalling"
  /\ writer = "exited"
  /\ stopper' = "stopped"
  /\ UNCHANGED <<prodVars, queue, inflight, writer, delivered, dead>>

-------------------------------------------------------------------------------
Enqueue(p) ==
  \/ Begin(p)
  \/ Seal(p)
  \/ SealFails(p)
  \/ CallerEndsSession(p)
  \/ Push(p)

Write ==
  \/ WriterStart
  \/ WriterCheck
  \/ WriterPop
  \/ WriterIdles
  \/ WriterBlocks

Stop == Shutdown \/ Signal \/ StopReturns

Next ==
  \/ \E p \in Producers : Enqueue(p)
  \/ Write
  \/ HostTakes
  \/ WriteFails
  \/ Stop

Spec == Init /\ [][Next]_vars

(***************************************************************************)
(* Fairness.  The threads run: a producer inside enqueue() leaves it, the  *)
(* writer thread goes on, a coordinator that has begun to signal goes on.  *)
(* Nothing obliges the host to read, the endpoint to fail, a producer to   *)
(* call enqueue() or anyone to end the session.                            *)
(***************************************************************************)
FairSpec ==
  /\ Spec
  /\ \A p \in Producers :
       WF_vars(Seal(p) \/ SealFails(p) \/ CallerEndsSession(p) \/ Push(p))
  /\ WF_vars(Write)
  /\ WF_vars(Signal \/ StopReturns)

-------------------------------------------------------------------------------
(***************************************************************************)
(* Properties.                                                             *)
(***************************************************************************)

(***************************************************************************)
(* The promise of "The ordering lock spans seal+queue so wire order        *)
(* matches seal order": the records the host takes are the sealed ones, in *)
(* the order of their seals, none twice and none skipped.                  *)
(***************************************************************************)
Channel == INSTANCE SecureChannel WITH Record <- Record, sealed <- sealed, delivered <- delivered
WireOrderIsSealOrder == Channel!Spec

(***************************************************************************)
(* The host, which counts records, can open every one it takes: the i-th   *)
(* carries sequence number i - 1.  Only a cipher failure can break this.   *)
(***************************************************************************)
PeerInSync ==
  ~nonceBurned => \A i \in 1 .. Len(delivered) : delivered[i].nonce = i - 1

(***************************************************************************)
(* Video cannot make the queue grow beyond kQueueLimit, however many       *)
(* producers pass the limit check at once: no droppable record ever sits   *)
(* behind QueueLimit others.  Replies and update data may.                 *)
(***************************************************************************)
QueueBounded ==
  \A i \in 1 .. Len(queue) : queue[i].from \in Droppable => i <= QueueLimit

(***************************************************************************)
(* Once shutdown() has returned the session writes nothing any more, so    *)
(* the ServerHello of the next one is not followed by a record under the   *)
(* old keys.  This includes a writer thread that had not started yet.      *)
(***************************************************************************)
SilentAfterStop == [][stopper = "stopped" => delivered' = delivered]_vars

(***************************************************************************)
(* Shutdown ends even if the host never reads again: a record that is      *)
(* popped or written while `dead` is set is interrupted.                   *)
(***************************************************************************)
StopEnds == stopper = "signalling" ~> (stopper = "stopped" /\ writer = "exited")

(***************************************************************************)
(* To a host that goes on reading, every sealed record is delivered unless *)
(* the session ends.                                                       *)
(***************************************************************************)
EverySealDelivered ==
  WF_vars(HostTakes) =>
    \A n \in 1 .. MaxSeals :
      Len(sealed) >= n ~> (Len(delivered) >= n \/ dead)
===============================================================================
