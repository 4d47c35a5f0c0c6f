--------------------------- MODULE KeepalivedFifo ---------------------------
(***************************************************************************)
(* keepalived-fifo: one thread reads the notifications of keepalived from  *)
(* a pipe and puts them into a bounded queue, another processes them, and  *)
(* the main thread ends both on SIGTERM.  The reader wakes the processor   *)
(* by an event that it sets after a whole batch.  The messages themselves  *)
(* are only counted; what their scripts do is left out except that they    *)
(* may raise.                                                              *)
(***************************************************************************)
EXTENDS Naturals

CONSTANTS
    Capacity,       \* Queue(maxsize=...)
    MaxBatch,       \* most lines in one os.read()
    MaxMessages,    \* notifications sent (bound)
    MaxFails        \* exceptions while a message is processed (bound)

ASSUME FifoAssumption ==
    /\ Capacity \in Nat \ {0}
    /\ MaxBatch \in 1..Capacity    \* 500 bytes hold less than 100 notifications
    /\ MaxMessages \in Nat
    /\ MaxFails \in Nat

VARIABLES
    sent,       \* notifications keepalived wrote
    pipe,       \* the ones not read yet
    queue,      \* length of message_queue
    event,      \* message_event
    stopme,     \* stopme
    reader,     \* where pipe_wait is
    batch,      \* lines of its message not yet put
    processor,  \* where pipe_process is
    main,       \* where sigterm_handle is
    fails,      \* exceptions so far
    aborted     \* history: an exception ended the last drain of the queue

vars == <<sent, pipe, queue, event, stopme, reader, batch, processor, main, fails,
          aborted>>

ReaderAt == {"loop", "read", "put", "set", "end"}
ProcessorAt == {"loop", "wait", "clear", "drain", "process", "end"}
MainAt == {"run", "joinReader", "joinProcessor", "end"}

Init ==
    /\ sent = 0 /\ pipe = 0 /\ queue = 0 /\ batch = 0 /\ fails = 0
    /\ event = FALSE /\ stopme = FALSE /\ aborted = FALSE
    /\ reader = "loop" /\ processor = "loop" /\ main = "run"

\* keepalived reports a transition.
Notify ==
    /\ sent < MaxMessages
    /\ sent' = sent + 1
    /\ pipe' = pipe + 1
    /\ UNCHANGED <<queue, event, stopme, reader, batch, processor, main, fails, aborted>>

-----------------------------------------------------------------------------
\* pipe_wait

ReaderLoop ==
    /\ reader = "loop"
    /\ reader' = IF stopme THEN "end" ELSE "read"
    /\ UNCHANGED <<sent, pipe, queue, event, stopme, batch, processor, main, fails,
                   aborted>>

\* The sleep and os.read(): an empty pipe is an error that is ignored.
Read ==
    /\ reader = "read"
    /\ IF pipe = 0 THEN reader' = "loop" /\ UNCHANGED <<pipe, batch>>
       ELSE \E n \in 1..MaxBatch :
              /\ n <= pipe
              /\ pipe' = pipe - n
              /\ batch' = n
              /\ reader' = "put"
    /\ UNCHANGED <<sent, queue, event, stopme, processor, main, fails, aborted>>

\* Mutant: the queue has no bound.
PutUnbounded ==
    /\ reader = "put"
    /\ queue' = queue + 1
    /\ batch' = batch - 1
    /\ reader' = IF batch = 1 THEN "set" ELSE "put"
    /\ UNCHANGED <<sent, pipe, event, stopme, processor, main, fails, aborted>>

\* message_queue.put() blocks while the queue is full.
Put ==
    /\ reader = "put"
    /\ queue < Capacity
    /\ queue' = queue + 1
    /\ batch' = batch - 1
    /\ reader' = IF batch = 1 THEN "set" ELSE "put"
    /\ UNCHANGED <<sent, pipe, event, stopme, processor, main, fails, aborted>>

\* Mutant: the event is not set.
SetNever ==
    /\ reader = "set"
    /\ reader' = "loop"
    /\ UNCHANGED <<sent, pipe, queue, event, stopme, batch, processor, main, fails,
                   aborted>>

SetEvent ==
    /\ reader = "set"
    /\ event' = TRUE
    /\ reader' = "loop"
    /\ UNCHANGED <<sent, pipe, queue, stopme, batch, processor, main, fails, aborted>>

-----------------------------------------------------------------------------
\* pipe_process

\* Mutant: the event is cleared after the queue was found empty.
ProcessorLoopClearing ==
    /\ processor = "loop"
    /\ processor' = IF stopme THEN "end" ELSE "wait"
    /\ event' = FALSE
    /\ UNCHANGED <<sent, pipe, queue, stopme, reader, batch, main, fails, aborted>>

ProcessorLoop ==
    /\ processor = "loop"
    /\ processor' = IF stopme THEN "end" ELSE "wait"
    /\ UNCHANGED <<sent, pipe, queue, event, stopme, reader, batch, main, fails, aborted>>

WaitEvent ==
    /\ processor = "wait"
    /\ event
    /\ processor' = "clear"
    /\ UNCHANGED <<sent, pipe, queue, event, stopme, reader, batch, main, fails, aborted>>

\* The event is cleared before the queue is read.
ClearEvent ==
    /\ processor = "clear"
    /\ event' = FALSE
    /\ aborted' = FALSE
    /\ processor' = "drain"
    /\ UNCHANGED <<sent, pipe, queue, stopme, reader, batch, main, fails>>

\* message_queue.empty() and get().
Drain ==
    /\ processor = "drain"
    /\ IF queue = 0 THEN processor' = "loop" /\ UNCHANGED queue
       ELSE processor' = "process" /\ queue' = queue - 1
    /\ UNCHANGED <<sent, pipe, event, stopme, reader, batch, main, fails, aborted>>

\* The scripts of one message.
Process ==
    /\ processor = "process"
    /\ processor' = "drain"
    /\ UNCHANGED <<sent, pipe, queue, event, stopme, reader, batch, main, fails, aborted>>

\* Something raises: the rest of the queue is left until the next event.
Raise ==
    /\ processor = "process"
    /\ fails < MaxFails
    /\ fails' = fails + 1
    /\ aborted' = TRUE
    /\ processor' = "loop"
    /\ UNCHANGED <<sent, pipe, queue, event, stopme, reader, batch, main>>

-----------------------------------------------------------------------------
\* sigterm_handle

Sigterm ==
    /\ main = "run"
    /\ stopme' = TRUE
    /\ main' = "joinReader"
    /\ UNCHANGED <<sent, pipe, queue, event, reader, batch, processor, fails, aborted>>

\* Mutant: the processor is not woken.
JoinReaderQuiet ==
    /\ main = "joinReader"
    /\ reader = "end"
    /\ main' = "joinProcessor"
    /\ UNCHANGED <<sent, pipe, queue, event, stopme, reader, batch, processor, fails,
                   aborted>>

JoinReader ==
    /\ main = "joinReader"
    /\ reader = "end"
    /\ event' = TRUE
    /\ main' = "joinProcessor"
    /\ UNCHANGED <<sent, pipe, queue, stopme, reader, batch, processor, fails, aborted>>

JoinProcessor ==
    /\ main = "joinProcessor"
    /\ processor = "end"
    /\ main' = "end"
    /\ UNCHANGED <<sent, pipe, queue, event, stopme, reader, batch, processor, fails,
                   aborted>>

-----------------------------------------------------------------------------
Reader == ReaderLoop \/ Read \/ Put \/ SetEvent
Processor == ProcessorLoop \/ WaitEvent \/ ClearEvent \/ Drain \/ Process \/ Raise
Main == JoinReader \/ JoinProcessor

Next == Notify \/ Reader \/ Processor \/ Sigterm \/ Main

Spec == Init /\ [][Next]_vars

\* The threads run.  Neither a notification nor SIGTERM has to come.
FairSpec == Spec /\ WF_vars(Reader) /\ WF_vars(Processor) /\ WF_vars(Main)

-----------------------------------------------------------------------------
TypeOK ==
    /\ sent \in 0..MaxMessages /\ pipe \in 0..MaxMessages
    /\ queue \in 0..Capacity /\ batch \in 0..MaxBatch /\ fails \in 0..MaxFails
    /\ event \in BOOLEAN /\ stopme \in BOOLEAN /\ aborted \in BOOLEAN
    /\ reader \in ReaderAt /\ processor \in ProcessorAt /\ main \in MainAt

\* The processor never sleeps over a message that nobody will wake it for: what
\* is in the queue when it waits was left by an exception, or the reader is on
\* its way to set the event.
NoLostWakeup ==
    processor = "wait" /\ ~event /\ queue > 0 /\ ~aborted => reader \in {"put", "set"}

\* Both threads wait for each other: the reader for a place in the queue, the
\* processor for the event that the reader would set.
Stalled == reader = "put" /\ queue = Capacity /\ processor = "wait" /\ ~event

\* They come to that only after an exception has left messages behind.
StallNeedsFailure == Stalled => aborted

\* While the program runs and no exception is the last word, the queue is
\* emptied again and again.
Served == <>[](~stopme /\ ~aborted) => []<>(queue = 0)

\* SIGTERM ends the program, even after exceptions, if the queue is never full:
\* a reader that is blocked in put() when the processor has ended stays there.
Stops == [](queue < Capacity) => (stopme ~> main = "end")

\* "handle SIGTERM signal to allow finish all messages processing": when the
\* program has ended, every message that was read has been processed, unless an
\* exception cut the last drain short.
FinishesAll == main = "end" /\ ~aborted => queue = 0

=============================================================================
