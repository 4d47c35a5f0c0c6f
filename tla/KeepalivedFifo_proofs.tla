------------------------ MODULE KeepalivedFifo_proofs ------------------------
(***************************************************************************)
(* The wake-up protocol of keepalived-fifo, for any capacity of the queue, *)
(* any size of a batch that fits into it, and any number of messages and   *)
(* exceptions.                                                             *)
(***************************************************************************)
EXTENDS KeepalivedFifo, TLAPS

\* What the control points say about the counters.
Counted ==
    /\ queue \in 0..Capacity
    /\ batch \in 0..MaxBatch
    /\ reader \in ReaderAt
    /\ processor \in ProcessorAt
    /\ reader = "put" <=> batch > 0

\* A processor that is about to sleep without an event has seen the queue empty
\* (or left it by an exception): what is there now is part of the batch that
\* the reader is putting, after which it sets the event.
Announced ==
    processor \in {"loop", "wait"} /\ ~aborted /\ ~event /\ queue > 0
        => reader \in {"put", "set"} /\ queue + batch <= MaxBatch

FifoInv == Counted /\ Announced

\* Every step of the three threads keeps the invariant.
LEMMA FifoInvInductive ==
    ASSUME FifoInv, [Next]_vars
    PROVE  FifoInv'
<1> USE FifoAssumption DEF FifoInv, Counted, Announced, ReaderAt, ProcessorAt
<1>1. CASE Notify \/ UNCHANGED vars
  BY <1>1 DEF Notify, vars
<1>2. CASE ReaderLoop
  BY <1>2 DEF ReaderLoop
<1>3. CASE Read
  BY <1>3 DEF Read
<1>4. CASE Put
  BY <1>4 DEF Put
<1>5. CASE SetEvent
  BY <1>5 DEF SetEvent
<1>6. CASE ProcessorLoop \/ WaitEvent \/ ClearEvent
  BY <1>6 DEF ProcessorLoop, WaitEvent, ClearEvent
<1>7. CASE Drain
  BY <1>7 DEF Drain
<1>8. CASE Process \/ Raise
  BY <1>8 DEF Process, Raise
<1>9. CASE Sigterm \/ Main
  BY <1>9 DEF Sigterm, Main, JoinReader, JoinProcessor
<1> QED BY <1>1, <1>2, <1>3, <1>4, <1>5, <1>6, <1>7, <1>8, <1>9
        DEF Next, Reader, Processor

\* The invariant holds throughout.
LEMMA FifoInvariant == Spec => []FifoInv
<1>1. Init => FifoInv
  BY FifoAssumption
  DEF Init, FifoInv, Counted, Announced, ReaderAt, ProcessorAt
<1>2. FifoInv /\ [Next]_vars => FifoInv'
  BY FifoInvInductive
<1> QED BY <1>1, <1>2, PTL DEF Spec

\* No more notifications are read than were written; the other counters and
\* the control points keep their types.
THEOREM FifoTypes == Spec => []TypeOK
<1> DEFINE Written == sent \in 0..MaxMessages /\ pipe \in 0..sent /\ fails \in 0..MaxFails
           Flags == /\ event \in BOOLEAN /\ stopme \in BOOLEAN /\ aborted \in BOOLEAN
                    /\ main \in MainAt
<1>1. Init => Written /\ Flags
  <2>1. Init => Written
    BY FifoAssumption DEF Init
  <2>2. Init => Flags
    BY DEF Init, MainAt
  <2> QED BY <2>1, <2>2
<1>2. ASSUME FifoInv, Written, [Next]_vars
      PROVE  Written'
  <2>1. CASE Notify \/ Raise
    BY <1>2, <2>1, FifoAssumption DEF Notify, Raise
  <2>2. CASE Read
    BY <1>2, <2>2, FifoAssumption DEF Read
  <2>3. ASSUME UNCHANGED <<sent, pipe, fails>>
        PROVE  Written'
    BY <1>2, <2>3
  <2> HIDE DEF Written
  <2> QED BY <1>2, <2>1, <2>2, <2>3
          DEF Next, vars, Reader, ReaderLoop, Put, SetEvent, Processor, ProcessorLoop,
              WaitEvent, ClearEvent, Drain, Process, Sigterm, Main, JoinReader,
              JoinProcessor
<1>3. ASSUME Flags, [Next]_vars
      PROVE  Flags'
  <2>1. CASE SetEvent \/ ClearEvent \/ Raise
    BY <1>3, <2>1 DEF SetEvent, ClearEvent, Raise
  <2>2. CASE Sigterm \/ JoinReader \/ JoinProcessor
    BY <1>3, <2>2 DEF Sigterm, JoinReader, JoinProcessor, MainAt
  <2>3. ASSUME UNCHANGED <<event, stopme, aborted, main>>
        PROVE  Flags'
    BY <1>3, <2>3
  <2> HIDE DEF Flags
  <2> QED BY <1>3, <2>1, <2>2, <2>3
          DEF Next, vars, Notify, Reader, ReaderLoop, Read, Put, Processor,
              ProcessorLoop, WaitEvent, Drain, Process, Main
<1>4. FifoInv /\ Written /\ Flags => TypeOK
  BY FifoAssumption DEF FifoInv, Counted, TypeOK
<1> HIDE DEF Written, Flags
<1> QED BY <1>1, <1>2, <1>3, <1>4, FifoInvariant, PTL DEF Spec

\* No message waits in the queue for a processor that nobody will wake, unless
\* an exception left it there.
THEOREM WakeupNotLost == Spec => []NoLostWakeup
<1>1. FifoInv => NoLostWakeup
  BY DEF FifoInv, Announced, NoLostWakeup
<1> QED BY <1>1, FifoInvariant, PTL

\* Reader and processor wait for each other only after an exception.
THEOREM NoStallWithoutFailure == Spec => []StallNeedsFailure
<1>1. FifoInv => StallNeedsFailure
  BY FifoAssumption DEF FifoInv, Counted, Announced, StallNeedsFailure, Stalled
<1> QED BY <1>1, FifoInvariant, PTL

=============================================================================
