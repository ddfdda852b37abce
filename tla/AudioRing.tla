----------------------------- MODULE AudioRing -----------------------------
(***************************************************************************)
(* RingBuffer: the ring between the producer, the game thread that calls   *)
(* AudioBridge::ProcessAudio from the core's audio callback, and the       *)
(* consumer, the audio callback of the system.  Reads and writes do not    *)
(* take the mutex; it serves the condition variables, and Clear, which the *)
(* game thread calls between writes (a ROM loaded over a running game, a   *)
(* pause, a stop) while the consumer may be anywhere.                      *)
(*                                                                         *)
(* head_ and tail_ are size_t counters: Word values, Capacity divides      *)
(* Word.  A memcpy and the store that publishes it are one step, which     *)
(* DisjointCopies justifies.  A sample is the value head_ has when it is   *)
(* written.  Locals that are dead are 0.  The counters of overruns and     *)
(* underruns and the unbounded WriteWait and ReadWait, which nothing       *)
(* calls, are left out.                                                    *)
(***************************************************************************)
EXTENDS Integers, Sequences

CONSTANTS
  Capacity,   \* capacity_
  Word,       \* the number of values of size_t
  Requests    \* numbers of samples asked for, none above Capacity

ASSUME SizesFit ==
  /\ Capacity \in Nat \ {0} /\ Word \in Nat
  /\ Capacity < Word /\ Word % Capacity = 0
ASSUME RequestsFit == Requests \subseteq 1..Capacity

Producer == "producer"
Consumer == "consumer"
Nobody == "nobody"

VARIABLES
  head, tail,      \* head_, tail_
  slots,           \* buffer_
  running,         \* running_ of AudioBridge
  readerWaiting, writerWaiting,
  mutex,           \* owner of mutex_
  w, wn,           \* where the producer is, and the samples it has
  r, rn,           \* where the consumer is, and the samples asked for
  rblock,          \* it is in ReadWaitFor before its wait
  rt, rk,          \* the tail it has loaded, the samples it takes
  heard,           \* what a read that is about to return has read
  torn             \* a Clear has overlapped a read

ring == <<head, tail, slots>>
flags == <<running, readerWaiting, writerWaiting>>
writer == <<w, wn>>
reader == <<r, rn, rblock, rt, rk>>
vars == <<ring, flags, mutex, writer, reader, heard, torn>>

\* Subtraction and addition of size_t values.
Wrap(x) == IF x < 0 THEN x + Word ELSE IF x >= Word THEN x - Word ELSE x

Size == Wrap(head - tail)

FitsOneMore(n) == n <= Wrap(Capacity - Size) + 1   \* mutant: off by one
Fits(n) == n <= Wrap(Capacity - Size)

Enough(n) == n <= Size

Init ==
  /\ head = 0 /\ tail = 0
  /\ slots = [s \in 0..Capacity - 1 |-> 0]
  /\ running = TRUE
  /\ readerWaiting = FALSE /\ writerWaiting = FALSE
  /\ mutex = Nobody
  /\ w = "idle" /\ wn = 0
  /\ r = "idle" /\ rn = 0 /\ rblock = FALSE
  /\ rt = 0 /\ rk = 0
  /\ heard = <<>>
  /\ torn = FALSE
-----------------------------------------------------------------------------
(***************************************************************************)
(* The producer: Write and WriteWaitFor                                    *)
(***************************************************************************)
\* WriteWaitFor waits for space; Write drops samples that do not fit, which
\* changes nothing here.
WriterCalls(n, block) ==
  /\ w = "idle"
  /\ Fits(n) \/ block
  /\ wn' = n
  /\ w' = IF Fits(n) THEN "copy" ELSE "lock"
  /\ UNCHANGED <<ring, flags, mutex, reader, heard, torn>>

\* The memcpy into the ring and the store to head_, on the fast path without
\* the mutex, after a wait with it.
WriterPublishes ==
  /\ w \in {"copy", "copy_locked"}
  /\ slots' = [s \in 0..Capacity - 1 |->
                 LET i == (s - head) % Capacity
                 IN  IF i < wn THEN Wrap(head + i) ELSE slots[s]]
  /\ head' = Wrap(head + wn)
  /\ IF w = "copy_locked" THEN mutex' = Nobody /\ writerWaiting' = FALSE
                          ELSE UNCHANGED <<mutex, writerWaiting>>
  /\ w' = "look" /\ wn' = 0
  /\ UNCHANGED <<tail, running, readerWaiting, reader, heard, torn>>

\* What a relaxed load of a waiting flag leads to.  There is no fence between
\* the store to the counter and this load, so it may miss a flag just set.
Looked(flag) == IF flag THEN {"notify", "idle"} ELSE {"idle"}

WriterLooks ==
  /\ w = "look"
  /\ w' \in Looked(readerWaiting)
  /\ UNCHANGED <<ring, flags, mutex, wn, reader, heard, torn>>

\* A notification wakes a thread that sleeps.
Woken(l) == IF l = "asleep" THEN "woken" ELSE l

WriterNotifies ==
  /\ w = "notify"
  /\ mutex = Nobody
  /\ w' = "idle"
  /\ r' = Woken(r)
  /\ UNCHANGED <<ring, flags, mutex, wn, rn, rblock, rt, rk, heard, torn>>

\* One evaluation of the wait's predicate under the mutex: written, given up
\* (stopped, or out of time) or slept on.
WriterWaits ==
  /\ w \in {"lock", "woken", "expired"}
  /\ mutex = Nobody
  /\ \/ /\ ~running \/ (w = "expired" /\ ~Fits(wn))
        /\ writerWaiting' = FALSE
        /\ w' = "idle" /\ wn' = 0
        /\ UNCHANGED mutex
     \/ /\ running /\ Fits(wn)
        /\ mutex' = Producer
        /\ w' = "copy_locked"
        /\ writerWaiting' = TRUE
        /\ UNCHANGED wn
     \/ /\ running /\ ~Fits(wn) /\ w # "expired"
        /\ writerWaiting' = TRUE
        /\ w' = "asleep"
        /\ UNCHANGED <<mutex, wn>>
  /\ UNCHANGED <<ring, running, readerWaiting, reader, heard, torn>>

\* kAudioProducerMaxBlockMs are over; the deadline is that of the whole wait.
WriterExpires ==
  /\ w \in {"asleep", "woken"}
  /\ w' = "expired"
  /\ UNCHANGED <<ring, flags, mutex, wn, reader, heard, torn>>
-----------------------------------------------------------------------------
(***************************************************************************)
(* The game thread between writes: AudioBridge::Start, Reset, Pause, Stop, *)
(* and Clear.  The two stores of Clear are separate steps.                 *)
(***************************************************************************)
\* Between the stores of Clear, and between the load of tail_ and its store.
Clearing == w = "clear_tail"
Reading == r \in {"load", "copy"}

\* Start stores running_ with no Clear, and stores it back when it fails, as
\* do a Reset, a Pause and a Stop that the player refuses.
BridgeStarts ==
  /\ w = "idle"
  /\ running' \in BOOLEAN
  /\ UNCHANGED <<ring, readerWaiting, writerWaiting, mutex, writer, reader,
                 heard, torn>>

\* Reset leaves running_ true, Pause and Stop make it false.
ClearCalled ==
  /\ w = "idle"
  /\ running' \in BOOLEAN
  /\ w' = "clear"
  /\ UNCHANGED <<ring, readerWaiting, writerWaiting, mutex, wn, reader,
                 heard, torn>>

ClearHead ==
  /\ w = "clear"
  /\ mutex = Nobody
  /\ mutex' = Producer
  /\ head' = 0
  /\ torn' = (torn \/ Reading)
  /\ w' = "clear_tail"
  /\ UNCHANGED <<tail, slots, flags, wn, reader, heard>>

\* Mutant: Clear leaves the reader's counter alone.
ClearForgetsTail ==
  /\ w = "clear_tail"
  /\ mutex' = Nobody
  /\ torn' = (torn \/ Reading)
  /\ w' = "idle"
  /\ r' = Woken(r)
  /\ UNCHANGED <<head, tail, slots, flags, wn, rn, rblock, rt, rk, heard>>

ClearTail ==
  /\ w = "clear_tail"
  /\ mutex' = Nobody
  /\ tail' = 0
  /\ torn' = (torn \/ Reading)
  /\ w' = "idle"
  /\ r' = Woken(r)
  /\ UNCHANGED <<head, slots, flags, wn, rn, rblock, rt, rk, heard>>
-----------------------------------------------------------------------------
(***************************************************************************)
(* The consumer: Read and ReadWaitFor                                      *)
(***************************************************************************)
ReaderCalls(n, block) ==
  /\ r = "idle"
  /\ rn' = n /\ rblock' = block
  /\ rt' = tail
  /\ r' = "load"
  /\ torn' = (torn \/ Clearing)
  /\ UNCHANGED <<ring, flags, mutex, writer, rk, heard>>

Lesser(a, b) == IF a < b THEN a ELSE b

TakesAll(n, size) == n   \* mutant: takes what it was asked for
Takes(n, size) == Lesser(n, size)

\* With the head the reader loads it knows how much it may take; ReadWaitFor
\* takes less than it was asked for only after its wait.
ReaderLoads ==
  /\ r = "load"
  /\ LET size == Wrap(head - rt) IN
     \/ /\ ~rblock \/ rn <= size
        /\ rk' = Takes(rn, size)
        /\ r' = IF rk' = 0 THEN "idle" ELSE "copy"
        /\ rn' = 0 /\ rblock' = FALSE
     \/ /\ rblock /\ rn > size
        /\ r' = IF running THEN "lock" ELSE "reload"
        /\ UNCHANGED <<rn, rblock, rk>>
  /\ rt' = IF r' = "copy" THEN rt ELSE 0
  /\ UNCHANGED <<ring, flags, mutex, writer, heard, torn>>

ReaderReloads ==
  /\ r = "reload"
  /\ rblock' = FALSE
  /\ rt' = tail
  /\ r' = "load"
  /\ torn' = (torn \/ Clearing)
  /\ UNCHANGED <<ring, flags, mutex, writer, rn, rk, heard>>

\* The memcpy out of the ring and the store to tail_.
ReaderTakes ==
  /\ r = "copy"
  /\ heard' = [i \in 1..rk |-> slots[(rt + i - 1) % Capacity]]
  /\ tail' = Wrap(rt + rk)
  /\ r' = "look" /\ rt' = 0 /\ rk' = 0
  /\ UNCHANGED <<head, slots, flags, mutex, writer, rn, rblock, torn>>

ReaderLooks ==
  /\ r = "look"
  /\ r' \in Looked(writerWaiting)
  /\ heard' = <<>>
  /\ UNCHANGED <<ring, flags, mutex, writer, rn, rblock, rt, rk, torn>>

ReaderNotifies ==
  /\ r = "notify"
  /\ mutex = Nobody
  /\ r' = "idle"
  /\ w' = Woken(w)
  /\ UNCHANGED <<ring, flags, mutex, wn, rn, rblock, rt, rk, heard, torn>>

\* However the wait ends, the reader goes on without the mutex.
ReaderWaits ==
  /\ r \in {"lock", "woken", "expired"}
  /\ mutex = Nobody
  /\ LET over == ~running \/ Enough(rn) \/ r = "expired"
     IN  readerWaiting' = ~over /\ r' = IF over THEN "reload" ELSE "asleep"
  /\ UNCHANGED <<ring, running, writerWaiting, mutex, writer, rn, rblock, rt, rk,
                 heard, torn>>

\* Mutant: the wait is not bounded.
ReaderNeverExpires == FALSE /\ UNCHANGED vars

\* kAudioCallbackReadWaitMs are over.
ReaderExpires ==
  /\ r \in {"asleep", "woken"}
  /\ r' = "expired"
  /\ UNCHANGED <<ring, flags, mutex, writer, rn, rblock, rt, rk, heard, torn>>
-----------------------------------------------------------------------------
Next ==
  \/ \E n \in Requests, block \in BOOLEAN : WriterCalls(n, block) \/ ReaderCalls(n, block)
  \/ WriterPublishes \/ WriterLooks \/ WriterNotifies \/ WriterWaits \/ WriterExpires
  \/ BridgeStarts \/ ClearCalled \/ ClearHead \/ ClearTail
  \/ ReaderLoads \/ ReaderReloads \/ ReaderTakes \/ ReaderLooks
  \/ ReaderNotifies \/ ReaderWaits \/ ReaderExpires

Spec == Init /\ [][Next]_vars

(***************************************************************************)
(* Fairness: both threads go on and every wait runs out of time.  A thread *)
(* that waits for the mutex gets it some time: it is held for a copy or    *)
(* two stores, and the producer has a frame to run between its writes.     *)
(* New calls are not assumed.                                              *)
(***************************************************************************)
LiveSpec ==
  /\ Spec
  /\ WF_vars(WriterPublishes \/ WriterLooks \/ ClearTail) /\ WF_vars(WriterExpires)
  /\ WF_vars(ReaderLoads \/ ReaderReloads \/ ReaderTakes \/ ReaderLooks)
  /\ WF_vars(ReaderExpires)
  /\ SF_vars(WriterNotifies \/ WriterWaits \/ ClearHead)
  /\ SF_vars(ReaderNotifies \/ ReaderWaits)
-----------------------------------------------------------------------------
(***************************************************************************)
(* Properties                                                              *)
(***************************************************************************)
Counters == 0..Word - 1

RingTypeOK ==
  /\ head \in Counters /\ tail \in Counters
  /\ slots \in [0..Capacity - 1 -> Counters]
  /\ running \in BOOLEAN
  /\ readerWaiting \in BOOLEAN /\ writerWaiting \in BOOLEAN
  /\ mutex \in {Producer, Nobody}
  /\ w \in {"idle", "copy", "copy_locked", "look", "notify", "lock", "asleep",
            "woken", "expired", "clear", "clear_tail"}
  /\ wn \in 0..Capacity
  /\ r \in {"idle", "load", "reload", "copy", "look", "notify", "lock",
            "asleep", "woken", "expired"}
  /\ rn \in 0..Capacity /\ rblock \in BOOLEAN
  /\ rt \in Counters /\ rk \in 0..Capacity
  /\ torn \in BOOLEAN

\* No more samples in the ring than it has slots.
FillBounded == Clearing \/ Size <= Capacity

\* The fill level is bounded as long as no Clear has overlapped a read.
FillStaysBounded == ~torn => FillBounded

\* While both threads copy they are in different slots: what the callback
\* plays is never overwritten under it.
DisjointCopies ==
  ~torn /\ ~Clearing /\ w \in {"copy", "copy_locked"} /\ r = "copy" =>
     {(head + i) % Capacity : i \in 0..wn - 1}
       \cap {(rt + i) % Capacity : i \in 0..rk - 1} = {}

\* Every read and every write comes back, woken or not.
EveryCallReturns == /\ (r # "idle") ~> (r = "idle")
                    /\ (w # "idle") ~> (w = "idle")

\* The samples in the ring, in order.
Unread == [i \in 1..Size |-> slots[(tail + i - 1) % Capacity]]

Queue == INSTANCE AudioQueue WITH
           fifo <- IF Clearing THEN <<>> ELSE Unread, next <- head

\* The ring is a queue: every read returns the oldest samples, in order,
\* without loss or repetition.
ImplementsQueue == Queue!Spec
=============================================================================
