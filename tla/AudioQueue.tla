----------------------------- MODULE AudioQueue -----------------------------
(***************************************************************************)
(* What RingBuffer promises the core and the audio callback: a bounded     *)
(* first-in first-out queue of samples.  The samples are numbered in the   *)
(* order they are written, from 0 after each clear, modulo Word.           *)
(***************************************************************************)
EXTENDS Naturals, Sequences

CONSTANTS Capacity, Word

VARIABLES
  fifo,    \* the samples written and not yet read
  next,    \* the number of the next sample written
  heard,   \* what a read is about to return
  torn     \* the promise is off: a clear overlapped a read

qvars == <<fifo, next, heard, torn>>

Init == fifo = <<>> /\ next = 0 /\ heard = <<>> /\ torn = FALSE

Put(n) ==
  /\ Len(fifo) + n <= Capacity
  /\ fifo' = fifo \o [i \in 1..n |-> (next + i - 1) % Word]
  /\ next' = (next + n) % Word
  /\ UNCHANGED <<heard, torn>>

Get(n) ==
  /\ n <= Len(fifo)
  /\ heard' = SubSeq(fifo, 1, n)
  /\ fifo' = SubSeq(fifo, n + 1, Len(fifo))
  /\ UNCHANGED <<next, torn>>

Return == heard' = <<>> /\ UNCHANGED <<fifo, next, torn>>

Clear == fifo' = <<>> /\ next' = 0 /\ UNCHANGED <<heard, torn>>

\* Nothing is promised from here on.
Tear == torn'

Next == \/ \E n \in 1..Capacity : Put(n) \/ Get(n)
        \/ Return \/ Clear \/ Tear

Spec == Init /\ [][Next]_qvars
=============================================================================
