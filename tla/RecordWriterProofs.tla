-------------------------- MODULE RecordWriterProofs --------------------------
(***************************************************************************)
(* Proofs about RecordWriter, for every set of producers, every queue      *)
(* limit and every number of seals.                                        *)
(*                                                                         *)
(* The heart is OrderInv: as long as run() has not ended, the delivered    *)
(* records, the popped one, the queue and the record a producer has sealed *)
(* but not yet pushed are, in this order, exactly the sealed records.  It  *)
(* needs LockInv, that only the holder of ordering_ is between its seal    *)
(* and its push.                                                           *)
(***************************************************************************)
EXTENDS RecordWriter, TLAPS

\* Only the holder of ordering_ is inside the critical section.
LockInv ==
  \A p \in Producers : pc[p] \in {"seal", "push"} <=> ordering = p

\* One when a record is sealed and not yet pushed.
Unqueued == IF \E p \in Producers : pc[p] = "push" THEN 1 ELSE 0

OrderInv ==
  /\ Len(delivered) <= Len(sealed)
  /\ \A i \in 1 .. Len(delivered) : delivered[i] = sealed[i]
  /\ \A p \in Producers : pc[p] = "push" =>
       /\ Len(sealed) > 0
       /\ sealed[Len(sealed)] = [from |-> p, nonce |-> pending[p]]
  /\ writer # "exited" =>
       /\ Len(sealed) = Len(delivered) + Len(inflight) + Len(queue) + Unqueued
       /\ \A i \in 1 .. Len(inflight) : inflight[i] = sealed[Len(delivered) + i]
       /\ \A i \in 1 .. Len(queue) :
            queue[i] = sealed[Len(delivered) + Len(inflight) + i]

\* Sequence numbers are record positions until a cipher failure burns one.
NonceInv ==
  ~nonceBurned =>
    /\ nextNonce = Len(sealed)
    /\ \A i \in 1 .. Len(sealed) : sealed[i].nonce = i - 1

\* Room found by the limit check is still there at the push.
RoomInv ==
  \A p \in Producers :
    p \in Droppable /\ pc[p] \in {"seal", "push"} => Len(queue) < QueueLimit

\* A session that is being shut down is dead, and a finished shutdown leaves
\* no writer that could still write.
StopInv ==
  /\ stopper # "live" => dead
  /\ stopper = "stopped" => writer \in {"unstarted", "check", "exited"}

-------------------------------------------------------------------------------
(***************************************************************************)
(* What popping and pushing do to a queue, element by element.             *)
(***************************************************************************)
LEMMA HeadTail ==
  ASSUME NEW S, NEW s \in Seq(S), Len(s) > 0
  PROVE  /\ s # <<>>
         /\ Head(s) \in S /\ Head(s) = s[1]
         /\ Tail(s) \in Seq(S) /\ Len(Tail(s)) = Len(s) - 1
         /\ \A i \in 1 .. Len(s) - 1 : Tail(s)[i] = s[i + 1]
  OBVIOUS

(***************************************************************************)
(* What sealing and pushing do to a sequence, element by element.          *)
(***************************************************************************)
LEMMA Appending ==
  ASSUME NEW S, NEW s \in Seq(S), NEW e \in S
  PROVE  /\ Append(s, e) \in Seq(S)
         /\ Len(Append(s, e)) = Len(s) + 1
         /\ \A i \in 1 .. Len(s) : Append(s, e)[i] = s[i]
         /\ Append(s, e)[Len(s) + 1] = e
  OBVIOUS

-------------------------------------------------------------------------------
(***************************************************************************)
(* TypeOK: the shape of the state, and that the popped record exists       *)
(* exactly between the pop and the end of the write.                       *)
(***************************************************************************)
THEOREM TypeCorrect == Spec => []TypeOK
<1>1. Init => TypeOK
  <2> SUFFICES ASSUME Init
               PROVE  TypeOK
    OBVIOUS
  <2>1. Len(inflight) = IF writer \in {"write", "blocked"} THEN 1 ELSE 0
    BY DEF Init
  <2>2. /\ sealed \in Seq(Record) /\ queue \in Seq(Record)
        /\ inflight \in Seq(Record) /\ delivered \in Seq(Record)
    BY DEF Init
  <2>3. QED
    BY <2>1, <2>2 DEF Init, TypeOK, ProducerPCs, WriterPCs, StopperPCs
<1>2. TypeOK /\ [Next]_vars => TypeOK'
  <2> SUFFICES ASSUME TypeOK, [Next]_vars
               PROVE  TypeOK'
    OBVIOUS
  <2> USE ConstantsAssumption
          DEF TypeOK, ProducerPCs, WriterPCs, StopperPCs
  <2>1. ASSUME NEW p \in Producers, Begin(p)
        PROVE  TypeOK'
    BY <2>1 DEF Begin
  <2>2. ASSUME NEW p \in Producers, Seal(p)
        PROVE  TypeOK'
    <3>1. [from |-> p, nonce |-> nextNonce] \in Record
      BY DEF Record
    <3>2. QED
      BY <2>2, <3>1 DEF Seal
  <2>3. ASSUME NEW p \in Producers, SealFails(p)
        PROVE  TypeOK'
    <3>1. nonceBurned' \in BOOLEAN
      BY <2>3, Zenon DEF SealFails
    <3>2. nextNonce' \in Nat
      BY <2>3 DEF SealFails
    <3>3. QED
      BY <2>3, <3>1, <3>2 DEF SealFails
  <2>4. ASSUME NEW p \in Producers, CallerEndsSession(p)
        PROVE  TypeOK'
    BY <2>4 DEF CallerEndsSession
  <2>5. ASSUME NEW p \in Producers, Push(p)
        PROVE  TypeOK'
    <3>1. [from |-> p, nonce |-> pending[p]] \in Record
      BY DEF Record
    <3>2. QED
      BY <2>5, <3>1 DEF Push
  <2>6. CASE WriterStart
    BY <2>6 DEF WriterStart, prodVars
  <2>7. CASE WriterCheck
    BY <2>7 DEF WriterCheck, prodVars
  <2>8. CASE WriterPop
    BY <2>8 DEF WriterPop, prodVars
  <2>9. CASE WriterIdles
    BY <2>9 DEF WriterIdles, prodVars
  <2>10. CASE WriterBlocks
    BY <2>10 DEF WriterBlocks, prodVars
  <2>11. CASE HostTakes
    <3> HIDE DEF TypeOK
    <3>1. inflight \in Seq(Record) /\ Len(inflight) > 0
      BY <2>11 DEF HostTakes, TypeOK
    <3>2. Head(inflight) \in Record
      BY <3>1, HeadTail
    <3>3. delivered' \in Seq(Record)
      BY <2>11, <3>2, Appending DEF HostTakes, TypeOK
    <3>4. QED
      BY <2>11, <3>3 DEF HostTakes, prodVars, TypeOK
  <2>12. CASE WriteFails
    BY <2>12 DEF WriteFails, prodVars
  <2>13. CASE Shutdown
    BY <2>13 DEF Shutdown, prodVars
  <2>14. CASE Signal
    BY <2>14 DEF Signal, prodVars
  <2>15. CASE StopReturns
    BY <2>15 DEF StopReturns, prodVars
  <2>16. CASE UNCHANGED vars
    BY <2>16 DEF vars
  <2>17. QED
    BY <2>1, <2>2, <2>3, <2>4, <2>5, <2>6, <2>7, <2>8, <2>9, <2>10, <2>11,
       <2>12, <2>13, <2>14, <2>15, <2>16 DEF Next, Enqueue, Write, Stop
<1>3. QED
  BY <1>1, <1>2, PTL DEF Spec

-------------------------------------------------------------------------------
(***************************************************************************)
(* The writer, the host and the thread that stops them leave the producers *)
(* where they are.                                                         *)
(***************************************************************************)
LEMMA OthersLeaveProducers ==
  Write \/ HostTakes \/ WriteFails \/ Stop \/ UNCHANGED vars => UNCHANGED prodVars
BY DEF Write, WriterStart, WriterCheck, WriterPop, WriterIdles, WriterBlocks,
       HostTakes, WriteFails, Stop, Shutdown, Signal, StopReturns, vars, prodVars

(***************************************************************************)
(* ordering_ is a mutex: its holder alone seals and pushes.                *)
(***************************************************************************)
LEMMA LockStep == TypeOK /\ LockInv /\ [Next]_vars => LockInv'
<1> SUFFICES ASSUME TypeOK, LockInv, [Next]_vars
             PROVE  LockInv'
  OBVIOUS
<1> USE ConstantsAssumption DEF TypeOK, LockInv
<1>1. ASSUME NEW p \in Producers, Begin(p)
      PROVE  LockInv'
  BY <1>1 DEF Begin
<1>2. ASSUME NEW p \in Producers, Seal(p)
      PROVE  LockInv'
  BY <1>2 DEF Seal
<1>3. ASSUME NEW p \in Producers, SealFails(p)
      PROVE  LockInv'
  BY <1>3 DEF SealFails
<1>4. ASSUME NEW p \in Producers, CallerEndsSession(p)
      PROVE  LockInv'
  BY <1>4 DEF CallerEndsSession
<1>5. ASSUME NEW p \in Producers, Push(p)
      PROVE  LockInv'
  BY <1>5 DEF Push
<1>6. CASE UNCHANGED prodVars
  BY <1>6 DEF prodVars
<1>7. QED
  BY <1>1, <1>2, <1>3, <1>4, <1>5, <1>6, OthersLeaveProducers DEF Next, Enqueue

-------------------------------------------------------------------------------
(***************************************************************************)
(* The limit check stays valid until the push because no other producer    *)
(* can push in between; the writer only makes room.                        *)
(***************************************************************************)
LEMMA RoomStep ==
  TypeOK /\ LockInv /\ QueueBounded /\ RoomInv /\ [Next]_vars
    => QueueBounded' /\ RoomInv'
<1> SUFFICES ASSUME TypeOK, LockInv, QueueBounded, RoomInv, [Next]_vars
             PROVE  QueueBounded' /\ RoomInv'
  OBVIOUS
<1>q. queue \in Seq(Record) /\ QueueLimit \in Nat
  BY ConstantsAssumption DEF TypeOK
<1>1. ASSUME NEW p \in Producers, Begin(p)
      PROVE  QueueBounded' /\ RoomInv'
  BY <1>1, <1>q, ConstantsAssumption
     DEF Begin, QueueBounded, RoomInv, LockInv, TypeOK
<1>2. ASSUME NEW p \in Producers, Seal(p)
      PROVE  QueueBounded' /\ RoomInv'
  BY <1>2 DEF Seal, QueueBounded, RoomInv, TypeOK
<1>3. ASSUME NEW p \in Producers, SealFails(p)
      PROVE  QueueBounded' /\ RoomInv'
  BY <1>3 DEF SealFails, QueueBounded, RoomInv, TypeOK
<1>4. ASSUME NEW p \in Producers, CallerEndsSession(p)
      PROVE  QueueBounded' /\ RoomInv'
  BY <1>4 DEF CallerEndsSession, QueueBounded, RoomInv, TypeOK
<1>5. ASSUME NEW p \in Producers, Push(p)
      PROVE  QueueBounded' /\ RoomInv'
  <2> DEFINE r == [from |-> p, nonce |-> pending[p]]
  <2>1. r \in Record
    BY DEF TypeOK, Record
  <2>2. /\ Len(queue') = Len(queue) + 1
        /\ \A i \in 1 .. Len(queue) : queue'[i] = queue[i]
        /\ queue'[Len(queue) + 1] = r
    BY <1>5, <2>1, <1>q, Appending DEF Push
  <2>3. p \in Droppable => Len(queue) < QueueLimit
    BY <1>5 DEF Push, RoomInv
  <2>4. QueueBounded'
    BY <2>2, <2>3, <1>q, Z3 DEF QueueBounded
  <2>5. RoomInv'
    BY <1>5, ConstantsAssumption DEF Push, RoomInv, LockInv, TypeOK
  <2>6. QED
    BY <2>4, <2>5
<1>6. CASE WriterPop
  <2>1. Len(queue) > 0
    BY <1>6, <1>q DEF WriterPop
  <2>2. /\ Len(queue') = Len(queue) - 1
        /\ \A i \in 1 .. Len(queue) - 1 : queue'[i] = queue[i + 1]
    BY <1>6, <2>1, <1>q, HeadTail DEF WriterPop
  <2>3. QueueBounded'
    BY <2>1, <2>2, <1>q, Z3 DEF QueueBounded
  <2>4. RoomInv'
    BY <1>6, <2>2, <1>q DEF WriterPop, prodVars, RoomInv
  <2>5. QED
    BY <2>3, <2>4
<1>7. CASE UNCHANGED <<pc, queue>>
  BY <1>7 DEF QueueBounded, RoomInv
<1>8. QED
  BY <1>1, <1>2, <1>3, <1>4, <1>5, <1>6, <1>7
     DEF Next, Enqueue, Write, WriterStart, WriterCheck, WriterIdles,
         WriterBlocks, HostTakes, WriteFails, Stop, Shutdown, Signal,
         StopReturns, prodVars, vars

(***************************************************************************)
(* The queue never exceeds kQueueLimit with the records that may be dropped, *)
(* though the limit is checked before the record is sealed.                *)
(***************************************************************************)
THEOREM QueueIsBounded == Spec => []QueueBounded
<1>1. Init => LockInv /\ QueueBounded /\ RoomInv
  BY ConstantsAssumption DEF Init, LockInv, QueueBounded, RoomInv
<1>2. Spec => []TypeOK
  BY TypeCorrect
<1>3. QED
  BY <1>1, <1>2, LockStep, RoomStep, PTL DEF Spec

-------------------------------------------------------------------------------
(***************************************************************************)
(* No writing after shutdown() has returned.                               *)
(***************************************************************************)
LEMMA StopStep == TypeOK /\ StopInv /\ [Next]_vars => StopInv'
<1> SUFFICES ASSUME TypeOK, StopInv, [Next]_vars
             PROVE  StopInv'
  OBVIOUS
<1> USE DEF StopInv
<1>1. ASSUME NEW p \in Producers, Enqueue(p)
      PROVE  StopInv'
  BY <1>1 DEF Enqueue, Begin, Seal, SealFails, CallerEndsSession, Push
<1>2. CASE Write
  BY <1>2 DEF Write, WriterStart, WriterCheck, WriterPop, WriterIdles,
              WriterBlocks, prodVars
<1>3. CASE HostTakes \/ WriteFails
  BY <1>3 DEF HostTakes, WriteFails
<1>4. CASE Stop
  BY <1>4 DEF Stop, Shutdown, Signal, StopReturns, TypeOK, WriterPCs
<1>5. CASE UNCHANGED vars
  BY <1>5 DEF vars
<1>6. QED
  BY <1>1, <1>2, <1>3, <1>4, <1>5 DEF Next

\* SilentAfterStop: after shutdown() has returned nothing is delivered.
THEOREM StoppedIsSilent == Spec => SilentAfterStop
<1>1. Init => StopInv
  BY DEF Init, StopInv
<1>2. StopInv /\ [Next]_vars => [stopper = "stopped" => delivered' = delivered]_vars
  <2> SUFFICES ASSUME StopInv, Next, stopper = "stopped"
               PROVE  delivered' = delivered
    OBVIOUS
  <2>1. writer # "blocked"
    BY DEF StopInv
  <2>2. QED
    BY <2>1 DEF Next, Enqueue, Begin, Seal, SealFails, CallerEndsSession, Push,
                Write, WriterStart, WriterCheck, WriterPop, WriterIdles,
                WriterBlocks, HostTakes, WriteFails, Stop, Shutdown, Signal,
                StopReturns
<1>3. QED
  BY <1>1, <1>2, StopStep, TypeCorrect, PTL DEF Spec, SilentAfterStop

-------------------------------------------------------------------------------
(***************************************************************************)
(* Delivered, popped, queued and unpushed records make up the sealed ones. *)
(***************************************************************************)
LEMMA OrderStep == TypeOK /\ LockInv /\ OrderInv /\ [Next]_vars => OrderInv'
<1> SUFFICES ASSUME TypeOK, LockInv, OrderInv, [Next]_vars
             PROVE  OrderInv'
  OBVIOUS
<1>t. /\ sealed \in Seq(Record) /\ queue \in Seq(Record)
      /\ inflight \in Seq(Record) /\ delivered \in Seq(Record)
      /\ Unqueued \in {0, 1}
  BY DEF TypeOK, Unqueued
<1>1. ASSUME NEW p \in Producers, Begin(p)
      PROVE  OrderInv'
  <2>1. Unqueued' = Unqueued
    BY <1>1 DEF Begin, Unqueued, TypeOK
  <2>2. \A r \in Producers : pc'[r] = "push" => pc[r] = "push"
    BY <1>1 DEF Begin, TypeOK
  <2>3. QED
    BY <1>1, <2>1, <2>2 DEF Begin, OrderInv
<1>2. ASSUME NEW p \in Producers, Seal(p)
      PROVE  OrderInv'
  <2> DEFINE r == [from |-> p, nonce |-> nextNonce]
  <2>1. r \in Record
    BY DEF TypeOK, Record
  <2>2. /\ Len(sealed') = Len(sealed) + 1
        /\ \A i \in 1 .. Len(sealed) : sealed'[i] = sealed[i]
        /\ sealed'[Len(sealed) + 1] = r
    BY <1>2, <2>1, <1>t, Appending DEF Seal
  <2>3. \A o \in Producers : o # p => pc[o] # "push"
    BY <1>2, ConstantsAssumption DEF Seal, LockInv
  <2>4. Unqueued = 0 /\ Unqueued' = 1
    BY <1>2, <2>3 DEF Seal, Unqueued, TypeOK
  <2>5. \A o \in Producers : pc'[o] = "push" => o = p /\ pending'[o] = nextNonce
    BY <1>2, <2>3 DEF Seal, TypeOK
  <2>6. UNCHANGED <<queue, inflight, writer, delivered>>
    BY <1>2 DEF Seal
  <2>7. \A o \in Producers : pc'[o] = "push" =>
          /\ Len(sealed') > 0
          /\ sealed'[Len(sealed')] = [from |-> o, nonce |-> pending'[o]]
    BY <2>2, <2>5, <1>t
  <2>8. /\ Len(delivered') <= Len(sealed')
        /\ \A i \in 1 .. Len(delivered') : delivered'[i] = sealed'[i]
    BY <2>2, <2>6, <1>t DEF OrderInv
  <2>9. ASSUME writer' # "exited"
        PROVE  /\ Len(sealed') = Len(delivered') + Len(inflight') + Len(queue')
                                 + Unqueued'
               /\ \A i \in 1 .. Len(inflight') :
                    inflight'[i] = sealed'[Len(delivered') + i]
               /\ \A i \in 1 .. Len(queue') :
                    queue'[i] = sealed'[Len(delivered') + Len(inflight') + i]
    <3>1. Len(sealed) = Len(delivered) + Len(inflight) + Len(queue)
      BY <2>4, <2>6, <2>9, <1>t DEF OrderInv
    <3>2. \A i \in 1 .. Len(inflight) : inflight[i] = sealed'[Len(delivered) + i]
      BY <3>1, <2>2, <2>6, <2>9, <1>t DEF OrderInv
    <3>3. \A i \in 1 .. Len(queue) :
            queue[i] = sealed'[Len(delivered) + Len(inflight) + i]
      BY <3>1, <2>2, <2>6, <2>9, <1>t DEF OrderInv
    <3>4. QED
      BY <3>1, <3>2, <3>3, <2>2, <2>4, <2>6
  <2>10. QED
    BY <2>7, <2>8, <2>9 DEF OrderInv
<1>3. ASSUME NEW p \in Producers, SealFails(p) \/ CallerEndsSession(p)
      PROVE  OrderInv'
  <2>1. \A r \in Producers : pc'[r] = "push" <=> pc[r] = "push"
    BY <1>3 DEF SealFails, CallerEndsSession, TypeOK
  <2>2. Unqueued' = Unqueued
    BY <2>1 DEF Unqueued
  <2>3. UNCHANGED <<pending, sealed, queue, inflight, writer, delivered>>
    BY <1>3 DEF SealFails, CallerEndsSession
  <2>4. QED
    BY <2>1, <2>2, <2>3 DEF OrderInv
<1>4. ASSUME NEW p \in Producers, Push(p)
      PROVE  OrderInv'
  <2> DEFINE r == [from |-> p, nonce |-> pending[p]]
  <2>1. r \in Record
    BY DEF TypeOK, Record
  <2>2. /\ Len(queue') = Len(queue) + 1
        /\ \A i \in 1 .. Len(queue) : queue'[i] = queue[i]
        /\ queue'[Len(queue) + 1] = r
    BY <1>4, <2>1, <1>t, Appending DEF Push
  <2>3. \A o \in Producers : pc'[o] # "push"
    BY <1>4, ConstantsAssumption DEF Push, LockInv, TypeOK
  <2>4. Unqueued = 1 /\ Unqueued' = 0
    BY <1>4, <2>3 DEF Push, Unqueued
  <2>5. Len(sealed) > 0 /\ sealed[Len(sealed)] = r
    BY <1>4 DEF Push, OrderInv
  <2>6. UNCHANGED <<sealed, inflight, writer, delivered>>
    BY <1>4 DEF Push
  <2>7. ASSUME writer' # "exited"
        PROVE  /\ Len(sealed') = Len(delivered') + Len(inflight') + Len(queue')
                                 + Unqueued'
               /\ \A i \in 1 .. Len(inflight') :
                    inflight'[i] = sealed'[Len(delivered') + i]
               /\ \A i \in 1 .. Len(queue') :
                    queue'[i] = sealed'[Len(delivered') + Len(inflight') + i]
    <3>1. Len(sealed) = Len(delivered) + Len(inflight) + Len(queue) + 1
      BY <2>4, <2>6, <2>7 DEF OrderInv
    <3>2. \A i \in 1 .. Len(inflight) : inflight[i] = sealed[Len(delivered) + i]
      BY <2>6, <2>7 DEF OrderInv
    <3>3. \A i \in 1 .. Len(queue) :
            queue[i] = sealed[Len(delivered) + Len(inflight) + i]
      BY <2>6, <2>7 DEF OrderInv
    <3>4. \A i \in 1 .. Len(queue') :
            queue'[i] = sealed[Len(delivered) + Len(inflight) + i]
      <4> SUFFICES ASSUME NEW i \in 1 .. Len(queue')
                   PROVE  queue'[i] = sealed[Len(delivered) + Len(inflight) + i]
        OBVIOUS
      <4>1. CASE i \in 1 .. Len(queue)
        BY <4>1, <3>3, <2>2
      <4>2. CASE i = Len(queue) + 1
        BY <4>2, <3>1, <2>2, <2>5, <1>t
      <4>3. QED
        BY <4>1, <4>2, <2>2, <1>t
    <3>5. QED
      BY <3>1, <3>2, <3>4, <2>2, <2>4, <2>6, <1>t
  <2>8. QED
    BY <2>3, <2>6, <2>7 DEF OrderInv
<1>5. CASE WriterStart \/ WriterCheck \/ WriterIdles \/ WriterBlocks
  <2>1. UNCHANGED <<pc, pending, sealed, queue, inflight, delivered>>
    BY <1>5 DEF WriterStart, WriterCheck, WriterIdles, WriterBlocks, prodVars
  <2>2. Unqueued' = Unqueued
    BY <2>1 DEF Unqueued
  <2>3. writer' # "exited" => writer # "exited"
    BY <1>5 DEF WriterStart, WriterCheck, WriterIdles, WriterBlocks
  <2>4. QED
    BY <2>1, <2>2, <2>3 DEF OrderInv
<1>6. CASE WriterPop
  <2>1. Len(queue) > 0 /\ Len(inflight) = 0
    BY <1>6, <1>t DEF WriterPop, TypeOK
  <2>2. /\ Len(queue') = Len(queue) - 1
        /\ \A i \in 1 .. Len(queue) - 1 : queue'[i] = queue[i + 1]
        /\ Head(queue) = queue[1]
    BY <1>6, <2>1, <1>t, HeadTail DEF WriterPop
  <2>3. Len(inflight') = 1 /\ inflight'[1] = queue[1]
    BY <1>6, <2>2 DEF WriterPop
  <2>4. UNCHANGED <<pc, pending, sealed, delivered>> /\ writer # "exited"
    BY <1>6 DEF WriterPop, prodVars
  <2>5. Unqueued' = Unqueued
    BY <2>4 DEF Unqueued
  <2>6. /\ Len(sealed) = Len(delivered) + Len(inflight') + Len(queue') + Unqueued
        /\ \A i \in 1 .. Len(inflight') : inflight'[i] = sealed[Len(delivered) + i]
        /\ \A i \in 1 .. Len(queue') :
             queue'[i] = sealed[Len(delivered) + Len(inflight') + i]
    <3>1. Len(sealed) = Len(delivered) + Len(queue) + Unqueued
      BY <2>1, <2>4, <1>t DEF OrderInv
    <3>2. \A i \in 1 .. Len(queue) : queue[i] = sealed[Len(delivered) + i]
      BY <2>1, <2>4, <1>t DEF OrderInv
    <3>3. \A i \in 1 .. Len(inflight') : inflight'[i] = sealed[Len(delivered) + i]
      BY <3>2, <2>1, <2>3, <1>t
    <3>4. \A i \in 1 .. Len(queue') :
            queue'[i] = sealed[Len(delivered) + Len(inflight') + i]
      BY <3>2, <2>1, <2>2, <2>3, <1>t
    <3>5. QED
      BY <3>1, <3>3, <3>4, <2>1, <2>2, <2>3, <1>t
  <2>7. QED
    BY <2>4, <2>5, <2>6 DEF OrderInv
<1>7. CASE HostTakes
  <2>1. Len(inflight) = 1 /\ writer # "exited"
    BY <1>7 DEF HostTakes, TypeOK
  <2>2. Head(inflight) \in Record /\ Head(inflight) = inflight[1]
    <3>1. inflight \in Seq(Record) /\ Len(inflight) > 0
      BY <2>1, <1>t
    <3>2. QED
      BY <3>1, HeadTail
  <2>3. /\ Len(delivered') = Len(delivered) + 1
        /\ \A i \in 1 .. Len(delivered) : delivered'[i] = delivered[i]
        /\ delivered'[Len(delivered) + 1] = inflight[1]
    BY <1>7, <2>2, <1>t, Appending DEF HostTakes
  <2>4. UNCHANGED <<pc, pending, sealed, queue>> /\ Len(inflight') = 0
    BY <1>7 DEF HostTakes, prodVars
  <2>5. Unqueued' = Unqueued
    BY <2>4 DEF Unqueued
  <2>6. /\ Len(delivered') <= Len(sealed)
        /\ \A i \in 1 .. Len(delivered') : delivered'[i] = sealed[i]
    <3>1. /\ Len(sealed) = Len(delivered) + 1 + Len(queue) + Unqueued
          /\ inflight[1] = sealed[Len(delivered) + 1]
          /\ \A i \in 1 .. Len(delivered) : delivered[i] = sealed[i]
      BY <2>1, <1>t DEF OrderInv
    <3>2. Len(delivered) \in Nat /\ Len(queue) \in Nat
      BY <1>t
    <3>3. ASSUME NEW i \in 1 .. Len(delivered')
          PROVE  delivered'[i] = sealed[i]
      <4>1. CASE i \in 1 .. Len(delivered)
        BY <4>1, <3>1, <2>3
      <4>2. CASE i = Len(delivered) + 1
        BY <4>2, <3>1, <2>3
      <4>3. QED
        BY <4>1, <4>2, <3>2, <2>3
    <3>4. QED
      BY <3>1, <3>2, <3>3, <2>3, <1>t
  <2>7. /\ Len(sealed) = Len(delivered') + Len(inflight') + Len(queue) + Unqueued
        /\ \A i \in 1 .. Len(inflight') : inflight'[i] = sealed[Len(delivered') + i]
        /\ \A i \in 1 .. Len(queue) :
             queue[i] = sealed[Len(delivered') + Len(inflight') + i]
    <3>1. /\ Len(sealed) = Len(delivered) + 1 + Len(queue) + Unqueued
          /\ \A i \in 1 .. Len(queue) :
               queue[i] = sealed[Len(delivered) + 1 + i]
      BY <2>1, <1>t DEF OrderInv
    <3>2. Len(delivered) \in Nat /\ Len(queue) \in Nat
      BY <1>t
    <3>3. \A i \in 1 .. Len(queue) : Len(delivered') + Len(inflight') + i
                                     = Len(delivered) + 1 + i
      BY <3>2, <2>3, <2>4
    <3>4. QED
      BY <3>1, <3>2, <3>3, <2>3, <2>4, <1>t
  <2>8. QED
    BY <2>4, <2>5, <2>6, <2>7 DEF OrderInv
<1>8. CASE WriteFails \/ Signal
  BY <1>8 DEF WriteFails, Signal, prodVars, OrderInv
<1>9. CASE Shutdown \/ StopReturns \/ UNCHANGED vars
  <2>1. UNCHANGED <<pc, pending, sealed, queue, inflight, writer, delivered>>
    BY <1>9 DEF Shutdown, StopReturns, vars, prodVars
  <2>2. Unqueued' = Unqueued
    BY <2>1 DEF Unqueued
  <2>3. QED
    BY <2>1, <2>2 DEF OrderInv
<1>10. QED
  BY <1>1, <1>2, <1>3, <1>4, <1>5, <1>6, <1>7, <1>8, <1>9
     DEF Next, Enqueue, Write, Stop

(***************************************************************************)
(* Nothing is sealed, queued or delivered before the first enqueue().      *)
(***************************************************************************)
LEMMA OrderInit == Init => LockInv /\ OrderInv
<1> SUFFICES ASSUME Init
             PROVE  LockInv /\ OrderInv
  OBVIOUS
<1>1. LockInv /\ \A p \in Producers : pc[p] # "push"
  BY ConstantsAssumption DEF Init, LockInv
<1>2. Unqueued = 0
  BY <1>1 DEF Unqueued
<1>3. QED
  BY <1>1, <1>2 DEF Init, OrderInv

(***************************************************************************)
(* Until run() ends no sealed record is lost on its way to the endpoint.   *)
(***************************************************************************)
THEOREM OrderInvariant == Spec => [](TypeOK /\ LockInv /\ OrderInv)
BY OrderInit, TypeCorrect, LockStep, OrderStep, PTL DEF Spec

-------------------------------------------------------------------------------
(***************************************************************************)
(* RecordWriter implements SecureChannel: only Seal and HostTakes change   *)
(* what the channel sees.                                                  *)
(***************************************************************************)
LEMMA StepRefines ==
  TypeOK /\ LockInv /\ OrderInv /\ [Next]_vars
    => [Channel!Next]_(Channel!chanVars)
<1> SUFFICES ASSUME TypeOK, LockInv, OrderInv, [Next]_vars
             PROVE  Channel!Next \/ UNCHANGED <<sealed, delivered>>
  BY DEF Channel!chanVars
<1>t. /\ sealed \in Seq(Record) /\ queue \in Seq(Record)
      /\ inflight \in Seq(Record) /\ delivered \in Seq(Record)
      /\ Unqueued \in {0, 1}
  BY DEF TypeOK, Unqueued
<1>1. ASSUME NEW p \in Producers, Seal(p)
      PROVE  Channel!Seal
  <2>1. [from |-> p, nonce |-> nextNonce] \in Record
    BY DEF TypeOK, Record
  <2>2. /\ sealed' \in Seq(Record)
        /\ Len(sealed') = Len(sealed) + 1
        /\ \A i \in 1 .. Len(sealed) : sealed'[i] = sealed[i]
    BY <1>1, <2>1, <1>t, Appending DEF Seal
  <2>3. QED
    BY <1>1, <2>2 DEF Seal, Channel!Seal
<1>2. CASE HostTakes
  <2>1. Len(inflight) = 1 /\ writer # "exited"
    BY <1>2 DEF HostTakes, TypeOK
  <2>2. Head(inflight) = inflight[1]
    <3>1. inflight \in Seq(Record) /\ Len(inflight) > 0
      BY <2>1, <1>t
    <3>2. QED
      BY <3>1, HeadTail
  <2>3. /\ Len(sealed) = Len(delivered) + 1 + Len(queue) + Unqueued
        /\ inflight[1] = sealed[Len(delivered) + 1]
    BY <2>1, <1>t DEF OrderInv
  <2>4. Len(delivered) < Len(sealed)
    BY <2>3, <1>t
  <2>5. Channel!Deliver
    BY <1>2, <2>2, <2>3, <2>4 DEF HostTakes, prodVars, Channel!Deliver
  <2>6. QED
    BY <2>5 DEF Channel!Next
<1>3. ASSUME NEW p \in Producers,
             Begin(p) \/ SealFails(p) \/ CallerEndsSession(p) \/ Push(p)
      PROVE  UNCHANGED <<sealed, delivered>>
  BY <1>3 DEF Begin, SealFails, CallerEndsSession, Push
<1>4. CASE Write \/ WriteFails \/ Stop \/ UNCHANGED vars
  BY <1>4 DEF Write, WriterStart, WriterCheck, WriterPop, WriterIdles,
              WriterBlocks, WriteFails, Stop, Shutdown, Signal, StopReturns,
              prodVars, vars
<1>5. QED
  BY <1>1, <1>2, <1>3, <1>4 DEF Next, Enqueue, Channel!Next

\* Wire order is seal order, whatever the producers, the host and the
\* coordinator do and whenever they do it.
THEOREM WireOrder == Spec => WireOrderIsSealOrder
<1>1. Init => Channel!Init
  BY DEF Init, Channel!Init
<1>2. QED
  BY <1>1, OrderInvariant, StepRefines, PTL
     DEF Spec, WireOrderIsSealOrder, Channel!Spec

-------------------------------------------------------------------------------
(***************************************************************************)
(* Sequence numbers, and with the order of the wire the host's counter.    *)
(***************************************************************************)
LEMMA NonceStep == TypeOK /\ NonceInv /\ [Next]_vars => NonceInv'
<1> SUFFICES ASSUME TypeOK, NonceInv, [Next]_vars
             PROVE  NonceInv'
  OBVIOUS
<1>1. ASSUME NEW p \in Producers, Seal(p)
      PROVE  NonceInv'
  <2> DEFINE r == [from |-> p, nonce |-> nextNonce]
  <2>1. sealed \in Seq(Record) /\ r \in Record
    BY DEF TypeOK, Record
  <2>2. /\ Len(sealed') = Len(sealed) + 1
        /\ \A i \in 1 .. Len(sealed) : sealed'[i] = sealed[i]
        /\ sealed'[Len(sealed) + 1] = r
    BY <1>1, <2>1, Appending DEF Seal
  <2> HIDE DEF r
  <2>3. r.nonce = nextNonce
    BY DEF r
  <2>4. ASSUME ~nonceBurned
        PROVE  /\ nextNonce' = Len(sealed')
               /\ \A i \in 1 .. Len(sealed') : sealed'[i].nonce = i - 1
    <3>1. /\ nextNonce = Len(sealed)
          /\ \A i \in 1 .. Len(sealed) : sealed[i].nonce = i - 1
      BY <2>4 DEF NonceInv
    <3>2. Len(sealed) \in Nat /\ nextNonce' = nextNonce + 1
      BY <1>1, <2>1 DEF Seal
    <3>3. ASSUME NEW i \in 1 .. Len(sealed')
          PROVE  sealed'[i].nonce = i - 1
      <4>1. CASE i \in 1 .. Len(sealed)
        BY <4>1, <3>1, <2>2
      <4>2. CASE i = Len(sealed) + 1
        BY <4>2, <3>1, <3>2, <2>2, <2>3
      <4>3. QED
        BY <4>1, <4>2, <3>2, <2>2
    <3>4. QED
      BY <3>1, <3>2, <3>3, <2>2
  <2>5. nonceBurned' = nonceBurned
    BY <1>1 DEF Seal
  <2>6. QED
    BY <2>4, <2>5 DEF NonceInv
<1>2. ASSUME NEW p \in Producers, SealFails(p)
      PROVE  NonceInv'
  BY <1>2 DEF SealFails, NonceInv
<1>3. ASSUME NEW p \in Producers, Begin(p) \/ CallerEndsSession(p) \/ Push(p)
      PROVE  NonceInv'
  BY <1>3 DEF Begin, CallerEndsSession, Push, NonceInv
<1>4. CASE UNCHANGED prodVars
  BY <1>4 DEF prodVars, NonceInv
<1>5. QED
  BY <1>1, <1>2, <1>3, <1>4, OthersLeaveProducers DEF Next, Enqueue

\* The host opens every record it takes, as long as no cipher call failed.
THEOREM PeerStaysInSync == Spec => []PeerInSync
<1>1. Init => NonceInv
  BY DEF Init, NonceInv
<1>2. TypeOK /\ OrderInv /\ NonceInv => PeerInSync
  <2> SUFFICES ASSUME TypeOK, OrderInv, NonceInv, ~nonceBurned,
                      NEW i \in 1 .. Len(delivered)
               PROVE  delivered[i].nonce = i - 1
    BY DEF PeerInSync
  <2>1. Len(sealed) \in Nat /\ Len(delivered) \in Nat
    BY DEF TypeOK
  <2>2. i \in 1 .. Len(sealed) /\ delivered[i] = sealed[i]
    BY <2>1 DEF OrderInv
  <2>3. QED
    BY <2>2 DEF NonceInv
<1>3. QED
  BY <1>1, <1>2, NonceStep, OrderInvariant, PTL DEF Spec
===============================================================================
