---------------------------- MODULE LocalTunnelProofs ----------------------------
(***************************************************************************)
(* Proofs about LocalTunnel: for any number of uploads and connections and *)
(* any use of descriptors by the rest of the process, deliver(), pump()    *)
(* and shutdown() only ever close the tunnel's own descriptor.             *)
(***************************************************************************)
EXTENDS LocalTunnel, FiniteSetTheorems, WellFoundedInduction, TLAPS

(***************************************************************************)
(* open() and socketpair() give out free numbers, and two different ones.  *)
(***************************************************************************)
LEMMA Lowest ==
  ASSUME NEW S \in SUBSET Nat, S # {}
  PROVE  \E n \in S : \A m \in S : n <= m
PROOF
  <1>1. PICK x \in S : \A y \in S : ~ (<<y, x>> \in OpToRel(<, Nat))
    BY WFMin, NatLessThanWellFounded
  <1>2. \A y \in S : ~ (y < x)
    BY <1>1, Zenon DEF OpToRel
  <1> QED BY <1>2

FreeSet == {n \in Fds : table[n] = Free}

LEMMA GivenOut ==
  /\ FreeFds > 0 => LowestFree \in Fds /\ table[LowestFree] = Free
  /\ FreeFds >= 2 =>
       /\ LowestFree \in Fds /\ table[LowestFree] = Free
       /\ Lowest2Free \in Fds /\ table[Lowest2Free] = Free /\ Lowest2Free # LowestFree
PROOF
  <1>1. /\ IsFiniteSet(FreeSet) /\ FreeSet \in SUBSET Nat /\ FreeFds = Cardinality(FreeSet)
        /\ FreeFds \in Nat
    <2>1. IsFiniteSet(Fds) /\ Fds \subseteq Nat
      BY ConstantsAssumption, FS_Interval DEF Fds
    <2>2. FreeSet \subseteq Fds
      BY DEF FreeSet
    <2>3. IsFiniteSet(FreeSet)
      BY <2>1, <2>2, FS_Subset
    <2> QED BY <2>1, <2>2, <2>3, FS_CardinalityType DEF FreeSet, FreeFds
  <1>2. FreeFds > 0 => LowestFree \in FreeSet
    <2> SUFFICES ASSUME FreeFds > 0
                 PROVE  LowestFree \in FreeSet
      OBVIOUS
    <2>1. FreeSet # {}
      BY <1>1, FS_EmptySet
    <2>2. PICK n \in FreeSet : \A m \in FreeSet : n <= m
      BY <1>1, <2>1, Lowest
    <2>3. n \in Fds /\ table[n] = Free /\ \A m \in Fds : table[m] = Free => n <= m
      BY <2>2 DEF FreeSet
    <2> QED BY <2>3 DEF LowestFree, FreeSet
  <1>3. FreeFds >= 2 => Lowest2Free \in FreeSet /\ Lowest2Free # LowestFree
    <2> SUFFICES ASSUME FreeFds >= 2
                 PROVE  Lowest2Free \in FreeSet /\ Lowest2Free # LowestFree
      OBVIOUS
    <2>1. LowestFree \in FreeSet
      BY <1>1, <1>2
    <2>2. Cardinality(FreeSet \ {LowestFree}) = FreeFds - 1 /\ IsFiniteSet(FreeSet \ {LowestFree})
      BY <1>1, <2>1, FS_RemoveElement
    <2>3. FreeSet \ {LowestFree} # {}
      BY <1>1, <2>2, FS_EmptySet
    <2>4. PICK n \in FreeSet \ {LowestFree} : \A m \in FreeSet \ {LowestFree} : n <= m
      BY <1>1, <2>3, Lowest
    <2>5. /\ n \in Fds /\ table[n] = Free /\ n # LowestFree
          /\ \A m \in Fds \ {LowestFree} : table[m] = Free => n <= m
      BY <2>4 DEF FreeSet
    <2> QED BY <2>5 DEF Lowest2Free, FreeSet
  <1>4. FreeFds >= 2 => FreeFds > 0
    BY <1>1
  <1> QED BY <1>2, <1>3, <1>4 DEF FreeSet

-------------------------------------------------------------------------------
(***************************************************************************)
(* update_ is open exactly when deliver() thinks so, and no end of an      *)
(* earlier connection is left: what closes update_ closes the last one.    *)
(***************************************************************************)
DescriptorInv ==
  /\ table \in [Fds -> Files]
  /\ update \in Fds \cup {NoFd}
  /\ conns \in 0 .. MaxConns
  /\ update # NoFd => conns \in Conns /\ table[update] = TunnelEnd(conns)
  /\ \A f \in Fds, c \in Conns : table[f] = TunnelEnd(c) => f = update
  /\ worker = "open" => update = NoFd
  /\ worker = "write" => update # NoFd

(***************************************************************************)
(* The ends of a connection differ from each other, and from all else.     *)
(***************************************************************************)
LEMMA Ends ==
  /\ \A c, d : TunnelEnd(c) # HandlerEnd(d) /\ TunnelEnd(c) # Free /\ TunnelEnd(c) # Other
  /\ \A c, d : TunnelEnd(c) = TunnelEnd(d) => c = d
  /\ \A c \in Conns : TunnelEnd(c) \in Files /\ HandlerEnd(c) \in Files
  /\ Free \in Files /\ Other \in Files
  BY DEF TunnelEnd, HandlerEnd, Free, Other, Files

(***************************************************************************)
(* Closing update_, by whichever thread.                                   *)
(***************************************************************************)
LEMMA Closes ==
  ASSUME DescriptorInv, update' = NoFd, UNCHANGED conns, worker' # "write",
         table' \in [Fds -> Files],
         \A f \in Fds : table'[f] = IF f = update THEN Free ELSE table[f]
  PROVE  DescriptorInv'
  BY Ends DEF DescriptorInv

(***************************************************************************)
(* Steps that leave the tunnel's descriptor alone.                         *)
(***************************************************************************)
LEMMA LeavesAlone ==
  ASSUME DescriptorInv, UNCHANGED <<update, conns>>,
         table' \in [Fds -> Files],
         \A f \in Fds : table'[f] = table[f] \/ \A c \in Conns : TunnelEnd(c) \notin {table[f], table'[f]},
         \/ worker' = worker
         \/ worker' \notin {"open", "write"}
         \/ worker' = IF update = NoFd THEN "open" ELSE "write"
  PROVE  DescriptorInv'
PROOF
  <1>1. update # NoFd => table'[update] = table[update]
    BY DEF DescriptorInv
  <1>2. \A f \in Fds, c \in Conns : table'[f] = TunnelEnd(c) => table[f] = TunnelEnd(c)
    OBVIOUS
  <1> QED BY <1>1, <1>2 DEF DescriptorInv

(***************************************************************************)
(* deliver() opens a connection: it has none, and gets two free numbers.   *)
(***************************************************************************)
LEMMA Opens ==
  ASSUME DescriptorInv, DeliverOpens
  PROVE  DescriptorInv'
PROOF
  <1>1. conns + 1 \in Conns /\ conns' = conns + 1 /\ conns' \in 0 .. MaxConns
    BY ConstantsAssumption DEF DescriptorInv, DeliverOpens, Conns
  <1>2. /\ LowestFree \in Fds /\ Lowest2Free \in Fds /\ Lowest2Free # LowestFree
        /\ table[LowestFree] = Free
    BY GivenOut DEF DeliverOpens
  <1>3. /\ update' = Lowest2Free /\ worker' = "write" /\ update = NoFd
        /\ table' = [table EXCEPT ![LowestFree] = HandlerEnd(conns + 1),
                                  ![Lowest2Free] = TunnelEnd(conns + 1)]
    BY DEF DeliverOpens, DescriptorInv
  <1>4. /\ table' \in [Fds -> Files]
        /\ table'[Lowest2Free] = TunnelEnd(conns + 1)
        /\ table'[LowestFree] = HandlerEnd(conns + 1)
        /\ \A f \in Fds : f \notin {LowestFree, Lowest2Free} => table'[f] = table[f]
    BY <1>1, <1>2, <1>3, Ends DEF DescriptorInv
  <1>5. \A f \in Fds, c \in Conns : table[f] # TunnelEnd(c)
    BY <1>3 DEF DescriptorInv, Fds, NoFd
  <1>6. \A f \in Fds, c \in Conns : table'[f] = TunnelEnd(c) => f = Lowest2Free
    BY <1>4, <1>5, Ends
  <1>7. Lowest2Free # NoFd
    BY <1>2 DEF Fds, NoFd
  <1> QED BY <1>1, <1>2, <1>3, <1>4, <1>6, <1>7 DEF DescriptorInv

LEMMA DescriptorStep ==
  ASSUME DescriptorInv, [Next]_vars
  PROVE  DescriptorInv'
PROOF
  <1>0. table \in [Fds -> Files]
    BY DEF DescriptorInv
  <1>1. CASE Viewer
    BY <1>0, <1>1, LeavesAlone DEF Viewer, StartUpload, SendChunk, TakeReply, Cancel, workVars
  <1>2. CASE DeliverBegins \/ DeliverGivesUp \/ DeliverWrites
    BY <1>0, <1>2, LeavesAlone DEF DeliverBegins, DeliverGivesUp, DeliverWrites, WritePart
  <1>3. CASE DeliverOpens
    BY <1>3, Opens
  <1>4. CASE DeliverFails
    <2>1. table' = [table EXCEPT ![update] = Free] /\ update' = NoFd /\ UNCHANGED conns
          /\ worker' # "write"
      BY <1>4 DEF DeliverFails
    <2>2. /\ table' \in [Fds -> Files]
          /\ \A f \in Fds : table'[f] = IF f = update THEN Free ELSE table[f]
      BY <1>0, <2>1, Ends
    <2> QED BY <2>1, <2>2, Closes
  <1>5. CASE TakeSnapshot \/ Poll \/ ReadBegins \/ ReadReturns
    BY <1>0, <1>5, LeavesAlone DEF TakeSnapshot, Poll, ReadBegins, ReadReturns, workVars
  <1>6. CASE CloseChannel \/ Shutdown
    <2>1. table' = [f \in Fds |-> IF f = update THEN Free ELSE table[f]] /\ update' = NoFd
          /\ UNCHANGED conns /\ worker' # "write"
      BY <1>6 DEF CloseChannel, Shutdown, MutexFree, workVars
    <2>2. /\ table' \in [Fds -> Files]
          /\ \A f \in Fds : table'[f] = IF f = update THEN Free ELSE table[f]
      BY <1>0, <2>1, Ends
    <2> QED BY <2>1, <2>2, Closes
  <1>7. ASSUME NEW c \in Conns, Handler(c)
        PROVE  DescriptorInv'
    <2>1. CASE HandlerReturns(c)
      <3>1. table' = [f \in Fds |-> IF table[f] = HandlerEnd(c) THEN Free ELSE table[f]]
        BY <2>1 DEF HandlerReturns
      <3>2. /\ table' \in [Fds -> Files]
            /\ \A f \in Fds : table'[f] = table[f] \/ \A d \in Conns : TunnelEnd(d) \notin {table[f], table'[f]}
        BY <1>0, <3>1, Ends
      <3> QED BY <2>1, <3>2, LeavesAlone DEF HandlerReturns, workVars
    <2>2. CASE UNCHANGED <<table, update, conns, worker>>
      BY <1>0, <2>2, LeavesAlone
    <2> QED
      BY <1>7, <2>1, <2>2 DEF Handler, ReadHeader, ReadBadHeader, ReadPartOfLine, Begin, Stream,
                StreamCompletes, StreamFails, EndOfFile, workVars
  <1>8. CASE OtherOpens
    <2>1. LowestFree \in Fds /\ table[LowestFree] = Free
      BY <1>8, GivenOut DEF OtherOpens
    <2>2. /\ table' \in [Fds -> Files]
          /\ \A f \in Fds : table'[f] = table[f] \/ \A d \in Conns : TunnelEnd(d) \notin {table[f], table'[f]}
      BY <1>0, <1>8, <2>1, Ends DEF OtherOpens
    <2> QED BY <1>8, <2>2, LeavesAlone DEF OtherOpens, workVars
  <1>9. CASE OtherCloses
    <2>1. /\ table' \in [Fds -> Files]
          /\ \A f \in Fds : table'[f] = table[f] \/ \A d \in Conns : TunnelEnd(d) \notin {table[f], table'[f]}
      BY <1>0, <1>9, Ends DEF OtherCloses
    <2> QED BY <1>9, <2>1, LeavesAlone DEF OtherCloses, workVars
  <1>10. CASE UNCHANGED vars
    BY <1>0, <1>10, LeavesAlone DEF vars
  <1> QED
    BY <1>1, <1>2, <1>3, <1>4, <1>5, <1>6, <1>7, <1>8, <1>9, <1>10 DEF Next, Deliver, Pump

(***************************************************************************)
(* THEOREM: whatever number the pump copied and whoever has it by now, the *)
(* descriptor that is closed is the tunnel's end of the newest connection, *)
(* and no other end is left open.                                          *)
(***************************************************************************)
THEOREM TunnelOwnsWhatItCloses == Spec => []DescriptorIsOwn
PROOF
<1>1. Init => DescriptorInv
  BY Ends, ConstantsAssumption DEF Init, DescriptorInv
<1>2. DescriptorInv => DescriptorIsOwn
  <2> SUFFICES ASSUME DescriptorInv, NEW f \in Fds, NEW c \in Conns,
                      f = update \/ table[f] = TunnelEnd(c)
               PROVE  f = update /\ table[f] = TunnelEnd(conns)
    BY DEF DescriptorIsOwn
  <2>1. f = update /\ update # NoFd
    BY DEF DescriptorInv, Fds, NoFd
  <2> QED BY <2>1 DEF DescriptorInv
<1> QED BY <1>1, <1>2, DescriptorStep, PTL DEF Spec
=============================================================================
