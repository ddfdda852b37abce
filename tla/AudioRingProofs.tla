-------------------------- MODULE AudioRingProofs --------------------------
(***************************************************************************)
(* For every capacity, every width of the counters and every set of        *)
(* request sizes: the ring is well typed, its fill level is bounded, and   *)
(* the two memcpys never meet, as long as no Clear overlaps a read.  So it *)
(* implements AudioQueue: publishing a copy is a Put, taking one a Get,    *)
(* the first store of Clear is the Clear, and every other step stutters.   *)
(***************************************************************************)
EXTENDS AudioRing, TLAPS, SequenceTheorems

\* What each thread knows while it holds a counter or a copy in its hands.
Copying == w \in {"copy", "copy_locked"}

FillOK == ~Clearing => Size <= Capacity
WriterOK == Copying => wn + Size <= Capacity
ReaderOK == /\ Reading => rt = tail
            /\ r = "copy" => rk <= Size
ClearOK == Clearing => head = 0 /\ ~Reading

RInv == /\ RingTypeOK
        /\ ~torn => FillOK /\ WriterOK /\ ReaderOK /\ ClearOK

-----------------------------------------------------------------------------
\* What the assumptions say of the sizes without mentioning the remainder.
LEMMA Sizes ==
  /\ Capacity \in Nat /\ 0 < Capacity
  /\ Word \in Nat /\ Capacity < Word
  /\ Requests \subseteq 1..Capacity
BY SizesFit, RequestsFit

\* Arithmetic of the counters.
LEMMA WrapType ==
  ASSUME NEW x \in Int, -Word < x, x < 2 * Word
  PROVE  Wrap(x) \in Counters
BY Sizes DEF Wrap, Counters

LEMMA SizeType ==
  ASSUME RingTypeOK
  PROVE  Size \in Counters
BY Sizes DEF RingTypeOK, Size, Wrap, Counters

LEMMA ModRange ==
  ASSUME NEW a \in Int
  PROVE  a % Capacity \in 0..Capacity - 1
BY Sizes

\* Publishing n samples adds n to the fill level, taking them subtracts n.
LEMMA SizeAfterPut ==
  ASSUME NEW h \in Counters, NEW t \in Counters, NEW n \in Nat,
         Wrap(h - t) + n <= Capacity
  PROVE  Wrap(Wrap(h + n) - t) = Wrap(h - t) + n
BY Sizes DEF Wrap, Counters

LEMMA SizeAfterGet ==
  ASSUME NEW h \in Counters, NEW t \in Counters, NEW n \in Nat,
         n <= Wrap(h - t)
  PROVE  Wrap(h - Wrap(t + n)) = Wrap(h - t) - n
BY Sizes DEF Wrap, Counters

\* As long as the fill level is bounded, Fits does not underflow.
LEMMA FitsMeansRoom ==
  ASSUME NEW n \in Nat, RingTypeOK, Size <= Capacity, Fits(n)
  PROVE  n + Size <= Capacity
BY Sizes, SizeType DEF Fits, Wrap, Counters
-----------------------------------------------------------------------------
\* Every variable keeps its type, whatever the threads do.
LEMMA TypeStep ==
  ASSUME RingTypeOK, [Next]_vars
  PROVE  RingTypeOK'
<1> USE DEF RingTypeOK, ring, flags, writer, reader, vars, Producer, Nobody
<1>0. 0 \in Counters /\ 0 \in 0..Capacity
  BY Sizes DEF Counters
<1>1. CASE UNCHANGED vars
  BY <1>1
<1>2. ASSUME NEW n \in Requests, NEW block \in BOOLEAN, WriterCalls(n, block)
      PROVE  RingTypeOK'
  <2>1. n \in 0..Capacity
    BY Sizes
  <2> QED
    BY <1>2, <2>1 DEF WriterCalls
<1>3. ASSUME NEW n \in Requests, NEW block \in BOOLEAN, ReaderCalls(n, block)
      PROVE  RingTypeOK'
  <2>1. n \in 0..Capacity
    BY Sizes
  <2> QED
    BY <1>3, <2>1 DEF ReaderCalls
<1>4. CASE WriterPublishes
  <2>1. ASSUME NEW i \in 0..Capacity
        PROVE  Wrap(head + i) \in Counters
    BY Sizes, WrapType DEF Counters
  <2>2. ASSUME NEW s \in 0..Capacity - 1
        PROVE  slots'[s] \in Counters
    <3> DEFINE i == (s - head) % Capacity
    <3>1. i \in 0..Capacity
      BY ModRange, Sizes DEF Counters
    <3>2. slots'[s] = IF i < wn THEN Wrap(head + i) ELSE slots[s]
      BY <1>4 DEF WriterPublishes
    <3> HIDE DEF i
    <3> QED
      BY <3>1, <3>2, <2>1
  <2>3. slots' \in [0..Capacity - 1 -> Counters]
    <3>1. slots' = [s \in 0..Capacity - 1 |-> slots'[s]]
      BY <1>4 DEF WriterPublishes
    <3> QED
      BY <2>2, <3>1
  <2>4. head' \in Counters
    BY <1>4, <2>1 DEF WriterPublishes
  <2>5. /\ UNCHANGED <<tail, running, readerWaiting, reader, torn>>
        /\ w' = "look" /\ wn' = 0
        /\ mutex' \in {mutex, Nobody} /\ writerWaiting' \in {writerWaiting, FALSE}
    BY <1>4 DEF WriterPublishes
  <2> QED
    BY <1>0, <2>3, <2>4, <2>5
<1>5. CASE WriterLooks
  BY <1>5 DEF WriterLooks, Looked
<1>6. CASE WriterNotifies
  BY <1>6 DEF WriterNotifies, Woken
<1>7. CASE WriterWaits
  <2>1. /\ w' \in {"idle", "copy_locked", "asleep"} /\ wn' \in {wn, 0}
        /\ mutex' \in {mutex, Producer} /\ writerWaiting' \in BOOLEAN
        /\ UNCHANGED <<ring, running, readerWaiting, reader, torn>>
    BY <1>7 DEF WriterWaits
  <2> QED
    BY <1>0, <2>1
<1>8. CASE WriterExpires
  BY <1>8 DEF WriterExpires
<1>9. CASE BridgeStarts
  BY <1>9 DEF BridgeStarts
<1>10. CASE ClearCalled
  BY <1>10 DEF ClearCalled
<1>11. CASE ClearHead
  BY <1>0, <1>11 DEF ClearHead, Reading
<1>12. CASE ClearTail
  BY <1>0, <1>12 DEF ClearTail, Reading, Woken
<1>13. CASE ReaderLoads
  <2>1. Wrap(head - rt) \in Counters
    BY Sizes, WrapType DEF Counters
  <2>2. Takes(rn, Wrap(head - rt)) \in 0..Capacity
    BY Sizes, <2>1 DEF Takes, Lesser, Counters
  <2>3. rk' \in 0..Capacity
    BY <1>13, <2>2 DEF ReaderLoads
  <2>4. /\ r' \in {"idle", "copy", "lock", "reload"} /\ rt' \in Counters
        /\ rn' \in 0..Capacity /\ rblock' \in BOOLEAN
    BY <1>0, <1>13 DEF ReaderLoads
  <2>5. UNCHANGED <<ring, flags, mutex, writer, torn>>
    BY <1>13 DEF ReaderLoads
  <2> QED
    BY <2>3, <2>4, <2>5
<1>14. CASE ReaderReloads
  BY <1>14 DEF ReaderReloads
<1>15. CASE ReaderTakes
  <2>1. Wrap(rt + rk) \in Counters
    BY Sizes, WrapType DEF Counters
  <2> QED
    BY <1>0, <1>15, <2>1 DEF ReaderTakes
<1>16. CASE ReaderLooks
  BY <1>16 DEF ReaderLooks, Looked
<1>17. CASE ReaderNotifies
  BY <1>17 DEF ReaderNotifies, Woken
<1>18. CASE ReaderWaits
  BY <1>18 DEF ReaderWaits
<1>19. CASE ReaderExpires
  BY <1>19 DEF ReaderExpires
<1> QED
  BY <1>1, <1>2, <1>3, <1>4, <1>5, <1>6, <1>7, <1>8, <1>9, <1>10, <1>11, <1>12,
     <1>13, <1>14, <1>15, <1>16, <1>17, <1>18, <1>19 DEF Next

\* The initial state satisfies the invariant.
LEMMA InitRInv == Init => RInv
<1> SUFFICES ASSUME Init
             PROVE  RInv
  OBVIOUS
<1>1. RingTypeOK
  <2>1. 0 \in Counters /\ 0 \in 0..Capacity
    BY Sizes DEF Counters
  <2>2. slots \in [0..Capacity - 1 -> Counters]
    BY <2>1 DEF Init
  <2> QED
    BY <2>1, <2>2 DEF Init, RingTypeOK, Nobody, Producer
<1>2. Size = 0
  BY Sizes DEF Init, Size, Wrap
<1> QED
  BY <1>1, <1>2, Sizes DEF Init, RInv, FillOK, WriterOK, ReaderOK, ClearOK,
                           Copying, Clearing, Reading

\* A step preserves what the threads know of the fill level, as long as no
\* Clear overlaps a read.
LEMMA FillStep ==
  ASSUME RInv, [Next]_vars, ~torn'
  PROVE  (FillOK /\ WriterOK /\ ReaderOK /\ ClearOK)'
<1> USE DEF FillOK, WriterOK, ReaderOK, ClearOK, Copying, Clearing, Reading,
            ring, flags, writer, reader, Producer, Nobody
<1>0. RingTypeOK /\ RingTypeOK'
  BY TypeStep DEF RInv
<1>t. torn \in BOOLEAN /\ head \in Counters /\ tail \in Counters
      /\ wn \in 0..Capacity /\ rk \in 0..Capacity /\ rn \in 0..Capacity
  BY <1>0 DEF RingTypeOK
<1>s. Size \in Counters
  BY <1>0, SizeType
<1>q. ASSUME UNCHANGED <<head, tail>>
      PROVE  Size' = Size
  BY <1>q DEF Size
\* The steps that leave both counters alone and begin no copy.
<1>f. ASSUME FillOK /\ WriterOK /\ ReaderOK /\ ClearOK,
             UNCHANGED <<head, tail>>, Clearing' <=> Clearing,
             Copying' => Copying, Reading' => Reading,
             r' = "copy" => r = "copy",
             UNCHANGED <<wn, rt, rk>>
      PROVE  (FillOK /\ WriterOK /\ ReaderOK /\ ClearOK)'
  BY <1>f, <1>q
<1>1. ~torn
  BY <1>0 DEF Next, vars, RingTypeOK, WriterCalls, ReaderCalls, WriterPublishes, WriterLooks,
     WriterNotifies, WriterWaits, WriterExpires, BridgeStarts, ClearCalled,
     ClearHead, ClearTail, ReaderLoads, ReaderReloads, ReaderTakes,
     ReaderLooks, ReaderNotifies, ReaderWaits, ReaderExpires
<1>2. FillOK /\ WriterOK /\ ReaderOK /\ ClearOK
  BY <1>1 DEF RInv
<1>3. CASE UNCHANGED vars
  BY <1>2, <1>3, <1>f DEF vars
<1>4. ASSUME NEW n \in Requests, NEW block \in BOOLEAN, WriterCalls(n, block)
      PROVE  (FillOK /\ WriterOK /\ ReaderOK /\ ClearOK)'
  <2>1. Size' = Size
    BY <1>4, <1>q DEF WriterCalls
  <2>2. Size <= Capacity
    BY <1>2, <1>4 DEF WriterCalls
  <2>3. w' = "copy" => n + Size <= Capacity
    BY <1>0, <1>4, <2>2, FitsMeansRoom, Sizes DEF WriterCalls
  <2> QED
    BY <1>2, <1>4, <2>1, <2>2, <2>3 DEF WriterCalls
<1>5. ASSUME NEW n \in Requests, NEW block \in BOOLEAN, ReaderCalls(n, block)
      PROVE  (FillOK /\ WriterOK /\ ReaderOK /\ ClearOK)'
  <2>1. Size' = Size
    BY <1>5, <1>q DEF ReaderCalls
  <2>2. ~Clearing
    BY <1>5 DEF ReaderCalls
  <2> QED
    BY <1>2, <1>5, <2>1, <2>2 DEF ReaderCalls
<1>6. CASE WriterPublishes
  <2>1. wn + Size <= Capacity /\ ~Clearing
    BY <1>2, <1>6 DEF WriterPublishes
  <2>2. Size' = Size + wn
    <3>1. Size' = Wrap(Wrap(head + wn) - tail)
      BY <1>6 DEF WriterPublishes, Size
    <3> QED
      BY <1>t, <1>s, <2>1, <3>1, SizeAfterPut DEF Size, Counters
  <2>3. /\ w' = "look" /\ UNCHANGED <<tail, r, rt, rk>>
    BY <1>6 DEF WriterPublishes
  <2> QED
    BY <1>2, <1>t, <1>s, <2>1, <2>2, <2>3, Sizes DEF Counters
<1>7. CASE WriterLooks
  BY <1>2, <1>7, <1>f DEF WriterLooks, Looked
<1>8. CASE WriterNotifies
  BY <1>2, <1>8, <1>f DEF WriterNotifies, Woken
<1>9. CASE WriterWaits
  <2>1. Size' = Size
    BY <1>9, <1>q DEF WriterWaits
  <2>2. Size <= Capacity
    BY <1>2, <1>9 DEF WriterWaits
  <2>3. w' = "copy_locked" => Fits(wn) /\ wn' = wn
    BY <1>9 DEF WriterWaits
  <2>4. w' = "copy_locked" => wn' + Size <= Capacity
    BY <1>0, <1>t, <2>2, <2>3, FitsMeansRoom
  <2>5. w' \in {"idle", "copy_locked", "asleep"} /\ UNCHANGED <<tail, r, rt, rk>>
    BY <1>9 DEF WriterWaits
  <2> QED
    BY <1>2, <2>1, <2>2, <2>4, <2>5
<1>10. CASE WriterExpires
  BY <1>2, <1>10, <1>f DEF WriterExpires
<1>11. CASE BridgeStarts
  BY <1>2, <1>11, <1>f DEF BridgeStarts
<1>12. CASE ClearCalled
  BY <1>2, <1>12, <1>f DEF ClearCalled
<1>13. CASE ClearHead
  BY <1>2, <1>13 DEF ClearHead
<1>14. CASE ClearTail
  <2>1. head' = 0 /\ tail' = 0 /\ w' = "idle" /\ ~Reading'
    BY <1>2, <1>14 DEF ClearTail, Woken
  <2>2. Size' = 0
    BY <2>1, Sizes DEF Size, Wrap
  <2> QED
    BY <2>1, <2>2, Sizes
<1>15. CASE ReaderLoads
  <2>1. r = "load" /\ Size' = Size /\ rt = tail
    BY <1>2, <1>15, <1>q DEF ReaderLoads
  <2>2. r' = "copy" => rk' <= Size /\ rt' = rt
    BY <1>t, <1>s, <1>15, <2>1 DEF ReaderLoads, Takes, Lesser, Size, Counters
  <2>3. r' # "load" /\ UNCHANGED <<head, tail, w, wn>>
    BY <1>15 DEF ReaderLoads
  <2> QED
    BY <1>2, <2>1, <2>2, <2>3
<1>16. CASE ReaderReloads
  <2>1. Size' = Size
    BY <1>16, <1>q DEF ReaderReloads
  <2>2. ~Clearing
    BY <1>16 DEF ReaderReloads
  <2> QED
    BY <1>2, <1>16, <2>1, <2>2 DEF ReaderReloads
<1>17. CASE ReaderTakes
  <2>1. rt = tail /\ rk <= Size /\ ~Clearing
    BY <1>2, <1>17 DEF ReaderTakes
  <2>2. Size' = Size - rk
    <3>1. Size' = Wrap(head - Wrap(tail + rk))
      BY <1>17, <2>1 DEF ReaderTakes, Size
    <3> QED
      BY <1>t, <2>1, <3>1, SizeAfterGet DEF Size
  <2>3. r' = "look" /\ UNCHANGED <<w, wn>>
    BY <1>17 DEF ReaderTakes
  <2> QED
    BY <1>2, <1>t, <1>s, <2>1, <2>2, <2>3, Sizes DEF Counters
<1>18. CASE ReaderLooks
  BY <1>2, <1>18, <1>f DEF ReaderLooks, Looked
<1>19. CASE ReaderNotifies
  BY <1>2, <1>19, <1>f DEF ReaderNotifies, Woken
<1>20. CASE ReaderWaits
  BY <1>2, <1>20, <1>f DEF ReaderWaits
<1>21. CASE ReaderExpires
  BY <1>2, <1>21, <1>f DEF ReaderExpires
<1> QED
  BY <1>3, <1>4, <1>5, <1>6, <1>7, <1>8, <1>9, <1>10, <1>11, <1>12, <1>13, <1>14,
     <1>15, <1>16, <1>17, <1>18, <1>19, <1>20, <1>21 DEF Next
-----------------------------------------------------------------------------
\* RInv holds in every reachable state: what WriterCalls and ReaderLoads have
\* computed of the fill level stays true until the copy is published.
THEOREM RingInvariance == Spec => []RInv
<1>1. RInv /\ [Next]_vars => RInv'
  BY TypeStep, FillStep DEF RInv
<1> QED
  BY InitRInv, <1>1, PTL DEF Spec

\* Every variable keeps its type: the counters stay size_t values, the slots
\* hold samples, and what a call asks for or takes fits the ring.
THEOREM RingTypeCorrect == Spec => []RingTypeOK
<1>1. RInv => RingTypeOK
  BY DEF RInv
<1> QED
  BY RingInvariance, <1>1, PTL

\* AvailableRead never exceeds capacity_ as long as no Clear has overlapped a
\* read, whatever the interleaving of Write, WriteWaitFor, Read, ReadWaitFor
\* and Clear.
THEOREM FillIsBounded == Spec => []FillStaysBounded
<1>1. RInv => FillStaysBounded
  BY DEF RInv, FillOK, FillStaysBounded, FillBounded
<1> QED
  BY RingInvariance, <1>1, PTL
-----------------------------------------------------------------------------
\* Numbers less than Capacity apart are in different slots.
LEMMA ModDistinct ==
  ASSUME NEW a \in Int, NEW b \in Int, a % Capacity = b % Capacity
  PROVE  \E q \in Int : a - b = Capacity * q
<1> DEFINE x == a \div Capacity
           y == b \div Capacity
<1>1. /\ x \in Int /\ a = Capacity * x + (a % Capacity)
      /\ y \in Int /\ b = Capacity * y + (b % Capacity)
  BY Sizes
<1>2. a % Capacity \in Int
  BY ModRange, Sizes
<1> HIDE DEF x, y
<1>3. a - b = Capacity * (x - y)
  BY <1>1, <1>2, Sizes
<1> QED
  BY <1>1, <1>3

\* No multiple of Capacity lies strictly between 0 and Capacity.
LEMMA NoMultipleBetween ==
  ASSUME NEW q \in Int, 0 < Capacity * q, Capacity * q < Capacity
  PROVE  FALSE
<1>1. CASE q <= 0
  BY <1>1, Sizes
<1>2. CASE q >= 1
  BY <1>2, Sizes
<1> QED
  BY <1>1, <1>2

\* A wrap-around of a counter leaves the slot it stands for alone.
LEMMA WordMultiple == \E k \in Int : Word = Capacity * k
<1> DEFINE d == Word \div Capacity
<1>1. Word % Capacity = 0
  BY SizesFit
<1>2. d \in Int /\ Word = Capacity * d + (Word % Capacity)
  BY Sizes
<1> HIDE DEF d
<1>3. Word = Capacity * d
  BY <1>1, <1>2, Sizes
<1> QED
  BY <1>2, <1>3

\* WriteDataInternal and ReadDataInternal never touch the same slot at the
\* same time, for every capacity: the producer fills the free part of the
\* ring, the consumer copies from the other, also across a wrap-around.
THEOREM CopiesAreDisjoint == Spec => []DisjointCopies
<1>1. RInv => DisjointCopies
  <2> SUFFICES ASSUME RInv, ~torn, ~Clearing, Copying, r = "copy",
                      NEW i \in 0..wn - 1, NEW j \in 0..rk - 1,
                      (head + i) % Capacity = (rt + j) % Capacity
               PROVE  FALSE
    BY DEF DisjointCopies, Copying
  <2>1. /\ wn + Size <= Capacity /\ rt = tail /\ rk <= Size
    BY DEF RInv, WriterOK, ReaderOK, Reading
  <2>2. /\ RingTypeOK /\ head \in Int /\ tail \in Int /\ wn \in Int /\ rk \in Int
        /\ Size \in Int
    BY SizeType, Sizes DEF RInv, RingTypeOK, Counters
  <2>3. PICK q \in Int : (head + i) - (tail + j) = Capacity * q
    BY <2>1, <2>2, ModDistinct
  <2>4. PICK k \in Int : Word = Capacity * k
    BY WordMultiple
  <2>5. Size \in {head - tail, head - tail + Word}
    BY <2>2, Sizes DEF Size, Wrap, RingTypeOK, Counters
  <2>6. 0 < Size + i - j /\ Size + i - j < Capacity
    BY <2>1, <2>2, Sizes
  <2>7. CASE Size = head - tail
    BY <2>2, <2>3, <2>6, <2>7, NoMultipleBetween, Sizes
  <2>8. CASE Size = head - tail + Word
    <3>1. Size + i - j = Capacity * (q + k)
      BY <2>2, <2>3, <2>4, <2>8, Sizes
    <3> QED
      BY <2>6, <3>1, NoMultipleBetween
  <2> QED
    BY <2>5, <2>7, <2>8
<1> QED
  BY RingInvariance, <1>1, PTL

-----------------------------------------------------------------------------
\* The ring is a queue.

\* A function on 1..n is a sequence of n elements.
LEMMA IsSeq ==
  ASSUME NEW n \in Nat, NEW f, f = [i \in 1..n |-> f[i]], NEW S,
         \A i \in 1..n : f[i] \in S
  PROVE  f \in Seq(S) /\ Len(f) = n
<1>1. f \in [1..n -> S] OBVIOUS
<1>2. f \in Seq(S) BY <1>1, SeqDef
<1>. QED  BY <1>1, <1>2, LenProperties

\* The remainder is determined.
LEMMA ModIs ==
  ASSUME NEW a \in Int, NEW q \in Int, NEW c \in 0..Capacity - 1, a = Capacity * q + c
  PROVE  a % Capacity = c
<1>1. a % Capacity \in 0..Capacity - 1 BY ModRange
<1> DEFINE x == a \div Capacity
<1>2. x \in Int /\ a = Capacity * x + (a % Capacity) BY Sizes
<1> HIDE DEF x
<1>3. Capacity * (q - x) = (a % Capacity) - c /\ Capacity * (x - q) = c - (a % Capacity)
  BY <1>1, <1>2, Sizes
<1>4. ~(0 < (a % Capacity) - c) /\ ~(0 < c - (a % Capacity))
  BY <1>1, <1>2, <1>3, NoMultipleBetween, Sizes
<1>. QED  BY <1>1, <1>4, Sizes

\* So multiples of Capacity do not change it.
LEMMA ModShift ==
  ASSUME NEW a \in Int, NEW q \in Int
  PROVE  (a + Capacity * q) % Capacity = a % Capacity
<1>1. a % Capacity \in 0..Capacity - 1 BY ModRange
<1> DEFINE x == a \div Capacity
<1>2. x \in Int /\ a = Capacity * x + (a % Capacity) BY Sizes
<1> HIDE DEF x
<1>3. Capacity * q \in Int /\ a + Capacity * q = Capacity * (x + q) + (a % Capacity)
  BY <1>1, <1>2, Sizes
<1>. QED  BY <1>1, <1>2, <1>3, ModIs

\* Nor does the wrap-around of a counter.
LEMMA ModWrap ==
  ASSUME NEW a \in Int, NEW i \in Int
  PROVE  (Wrap(a) + i) % Capacity = (a + i) % Capacity
<1>1. PICK k \in Int : Word = Capacity * k BY WordMultiple
<1>2. PICK q \in {-1, 0, 1} : Wrap(a) = a + Word * q BY Sizes DEF Wrap
<1>3. k * q \in Int /\ Wrap(a) + i = (a + i) + Capacity * (k * q) BY <1>1, <1>2, Sizes
<1>. QED  BY <1>3, ModShift

\* A counter that wraps around is taken modulo Word.
LEMMA WrapIsMod ==
  ASSUME NEW a \in 0..2 * Word - 1 PROVE Wrap(a) = a % Word
<1>1. CASE a < Word BY <1>1, Sizes DEF Wrap
<1>2. CASE a >= Word BY <1>2, Sizes DEF Wrap
<1>. QED  BY <1>1, <1>2, Sizes

-----------------------------------------------------------------------------
\* The samples of the queue.
Fifo == IF Clearing THEN <<>> ELSE Unread

\* The unread samples are a sequence of Size of them.
LEMMA UnreadIsSeq ==
  ASSUME RingTypeOK
  PROVE  /\ Unread \in Seq(Counters) /\ Len(Unread) = Size
         /\ \A i \in 1..Size : Unread[i] = slots[(tail + i - 1) % Capacity]
<1>0. tail \in Int /\ slots \in [0..Capacity - 1 -> Counters]
  BY Sizes DEF RingTypeOK, Counters
<1>1. Size \in Nat BY SizeType, Sizes DEF Counters
<1>2. \A i \in 1..Size : Unread[i] \in Counters
  <2>. SUFFICES ASSUME NEW i \in 1..Size PROVE Unread[i] \in Counters OBVIOUS
  <2>1. tail + i - 1 \in Int BY <1>0, <1>1
  <2>2. (tail + i - 1) % Capacity \in 0..Capacity - 1 BY <2>1, ModRange
  <2>. QED  BY <1>0, <2>2 DEF Unread
<1>3. Unread = [i \in 1..Size |-> Unread[i]] BY DEF Unread
<1>4. Unread \in Seq(Counters) /\ Len(Unread) = Size BY <1>1, <1>2, <1>3, IsSeq
<1>. QED  BY <1>4 DEF Unread

\* The same of the next state.
LEMMA UnreadIsSeqNext ==
  ASSUME RingTypeOK'
  PROVE  /\ Unread' \in Seq(Counters) /\ Len(Unread') = Size'
         /\ \A i \in 1..Size' : Unread'[i] = slots'[(tail' + i - 1) % Capacity]
<1>0. head' \in Counters /\ tail' \in Counters /\ slots' \in [0..Capacity - 1 -> Counters]
  BY DEF RingTypeOK, Counters
<1>1. Size' \in Nat
  <2>1. Size' = Wrap(head' - tail') BY DEF Size
  <2>. QED  BY <1>0, <2>1, WrapType, Sizes DEF Counters
<1>2. \A i \in 1..Size' : Unread'[i] \in Counters
  <2>. SUFFICES ASSUME NEW i \in 1..Size' PROVE Unread'[i] \in Counters OBVIOUS
  <2>1. tail' + i - 1 \in Int BY <1>0, <1>1, Sizes DEF Counters
  <2>2. (tail' + i - 1) % Capacity \in 0..Capacity - 1 BY <2>1, ModRange
  <2>. QED  BY <1>0, <2>2 DEF Unread
<1>3. Unread' = [i \in 1..Size' |-> Unread'[i]] BY DEF Unread
<1>4. Unread' \in Seq(Counters) /\ Len(Unread') = Size' BY <1>1, <1>2, <1>3, IsSeq
<1>. QED  BY <1>4 DEF Unread

\* Publishing a copy appends its samples.
LEMMA PublishesPut ==
  ASSUME RInv, RInv', ~torn, ~torn', WriterPublishes, wn # 0
  PROVE  Queue!Put(wn)
<1>1. /\ RingTypeOK /\ RingTypeOK'
      /\ head \in Counters /\ tail \in Counters /\ wn \in 1..Capacity
      /\ Size \in Nat /\ wn + Size <= Capacity /\ ~Clearing /\ ~Clearing'
  BY SizeType, Sizes DEF RInv, WriterOK, Copying, RingTypeOK, Counters, WriterPublishes,
     Clearing
<1>2. Size' = Size + wn
  <2>1. Size' = Wrap(Wrap(head + wn) - tail) BY DEF WriterPublishes, Size
  <2>. QED  BY <1>1, <2>1, SizeAfterPut DEF Size
<1> DEFINE new == [i \in 1..wn |-> (head + i - 1) % Word]
<1>3. \A i \in 1..wn : new[i] = Wrap(head + (i - 1)) /\ new[i] \in Counters
  <2>. SUFFICES ASSUME NEW i \in 1..wn
                PROVE  new[i] = Wrap(head + (i - 1)) /\ new[i] \in Counters
    OBVIOUS
  <2>1. head + (i - 1) \in 0..2 * Word - 1 BY <1>1, Sizes DEF Counters
  <2>2. (head + i - 1) % Word = Wrap(head + (i - 1)) BY <2>1, WrapIsMod, <1>1 DEF Counters
  <2>. QED  BY <2>1, <2>2, WrapType, Sizes
<1>4. new \in Seq(Counters) /\ Len(new) = wn
  BY <1>1, <1>3, IsSeq
<1>5. /\ Unread \in Seq(Counters) /\ Len(Unread) = Size
      /\ \A i \in 1..Size : Unread[i] = slots[(tail + i - 1) % Capacity]
  BY <1>1, UnreadIsSeq
<1>6. /\ Unread' \in Seq(Counters) /\ Len(Unread') = Size'
      /\ \A i \in 1..Size' : Unread'[i] = slots'[(tail' + i - 1) % Capacity]
  BY <1>1, UnreadIsSeqNext
\* The slot of an unread sample, counted from the head.
<1>7. PICK k \in Int : head = tail + Size + Capacity * k
  <2>1. PICK d \in Int : Word = Capacity * d BY WordMultiple
  <2>2. Size = head - tail \/ Size = head - tail + Word
    BY <1>1, Sizes DEF Size, Wrap, Counters
  <2>3. CASE Size = head - tail BY <1>1, <2>3, Sizes DEF Counters
  <2>4. CASE Size = head - tail + Word
    <3>1. -d \in Int /\ head = tail + Size + Capacity * (-d)
      BY <1>1, <2>1, <2>4, Sizes DEF Counters
    <3>. QED  BY <3>1
  <2>. QED  BY <2>2, <2>3, <2>4
<1>8. ASSUME NEW i \in 1..Size
      PROVE  slots'[(tail + i - 1) % Capacity] = slots[(tail + i - 1) % Capacity]
  <2> DEFINE s == (tail + i - 1) % Capacity
             j == (s - head) % Capacity
  <2>1. s \in 0..Capacity - 1 /\ tail + i - 1 \in Int
    BY <1>1, ModRange DEF Counters
  <2>2. j \in 0..Capacity - 1 BY <1>1, <2>1, ModRange DEF Counters
  <2>3. PICK p \in Int : tail + i - 1 = Capacity * p + s
    <3> DEFINE x == (tail + i - 1) \div Capacity
    <3>1. x \in Int /\ tail + i - 1 = Capacity * x + s BY <2>1, Sizes
    <3>. QED  BY <3>1
  <2>4. PICK q \in Int : s - head = Capacity * q + j
    <3> DEFINE x == (s - head) \div Capacity
    <3>0. s - head \in Int BY <1>1, <2>1 DEF Counters
    <3>1. x \in Int /\ s - head = Capacity * x + j BY <3>0, Sizes
    <3>. QED  BY <3>1
  <2>5. slots'[s] = IF j < wn THEN Wrap(head + j) ELSE slots[s]
    BY <2>1 DEF WriterPublishes
  <2> HIDE DEF s, j
  <2>6. Size - (i - 1) + j = Capacity * (-(p + q + k))
    BY <1>1, <1>7, <2>1, <2>2, <2>3, <2>4, Sizes DEF Counters
  <2>7. ~(j < wn)
    <3>. SUFFICES ASSUME j < wn PROVE FALSE OBVIOUS
    <3>1. 0 < Size - (i - 1) + j /\ Size - (i - 1) + j < Capacity
      BY <1>1, <2>2, Sizes
    <3>. QED  BY <2>6, <3>1, NoMultipleBetween
  <2>. QED  BY <2>5, <2>7 DEF s
<1>9. ASSUME NEW i \in 1..wn
      PROVE  slots'[(tail + (Size + i) - 1) % Capacity] = Wrap(head + (i - 1))
  <2> DEFINE s == (tail + (Size + i) - 1) % Capacity
  <2>0. tail + (Size + i) - 1 \in Int BY <1>1 DEF Counters
  <2>1. s \in 0..Capacity - 1 BY <2>0, ModRange
  <2>2. PICK p \in Int : tail + (Size + i) - 1 = Capacity * p + s
    <3> DEFINE x == (tail + (Size + i) - 1) \div Capacity
    <3>1. x \in Int /\ tail + (Size + i) - 1 = Capacity * x + s BY <2>0, Sizes
    <3>. QED  BY <3>1
  <2>3. slots'[s] = LET j == (s - head) % Capacity
                    IN  IF j < wn THEN Wrap(head + j) ELSE slots[s]
    BY <2>1 DEF WriterPublishes
  <2> HIDE DEF s
  <2>4. s - head = Capacity * (-(p + k)) + (i - 1)
    BY <1>1, <1>7, <2>1, <2>2, Sizes DEF Counters
  <2>5. (s - head) % Capacity = i - 1
    <3>1. -(p + k) \in Int /\ s - head \in Int /\ i - 1 \in 0..Capacity - 1
      BY <1>1, <2>1, Sizes DEF Counters
    <3>. QED  BY <2>4, <3>1, ModIs
  <2>6. i - 1 < wn BY <1>1
  <2>. QED  BY <2>3, <2>5, <2>6 DEF s
<1>10. Unread' = Unread \o new
  <2> DEFINE all == Unread \o new
  <2>1. /\ all \in Seq(Counters) /\ Len(all) = Size + wn
        /\ \A i \in 1..Size + wn : all[i] = IF i <= Size THEN Unread[i] ELSE new[i - Size]
    <3>. HIDE DEF new
    <3>. QED  BY <1>4, <1>5, ConcatProperties
  <2>2. ASSUME NEW i \in 1..Size + wn PROVE Unread'[i] = all[i]
    <3>0. tail' = tail BY DEF WriterPublishes
    <3>1. CASE i <= Size
      <4>1. i \in 1..Size BY <1>1, <3>1
      <4>. QED  BY <1>2, <1>5, <1>6, <1>8, <2>1, <3>0, <3>1, <4>1
    <3>2. CASE i > Size
      <4>1. i - Size \in 1..wn /\ Size + (i - Size) = i /\ i \in 1..Size' /\ ~(i <= Size)
        BY <1>1, <1>2, <3>2
      <4>2. all[i] = new[i - Size] BY <2>1, <4>1
      <4>3. new[i - Size] = Wrap(head + ((i - Size) - 1)) BY <1>3, <4>1
      <4>4. Unread'[i] = slots'[(tail + i - 1) % Capacity] BY <1>6, <3>0, <4>1
      <4>5. slots'[(tail + (Size + (i - Size)) - 1) % Capacity] = Wrap(head + ((i - Size) - 1))
        BY <1>9, <4>1
      <4>. QED  BY <4>1, <4>2, <4>3, <4>4, <4>5
    <3>. HIDE DEF all
    <3>. QED  BY <1>1, <3>1, <3>2
  <2>. HIDE DEF all
  <2>3. Len(Unread') = Len(all) BY <1>2, <1>6, <2>1
  <2>4. \A i \in 1..Len(Unread') : Unread'[i] = all[i] BY <1>2, <1>6, <2>2
  <2>. QED  BY <1>6, <2>1, <2>3, <2>4, SeqEqual DEF all
<1>11. head' = (head + wn) % Word
  <2>1. head + wn \in 0..2 * Word - 1 BY <1>1, Sizes DEF Counters
  <2>. QED  BY <2>1, WrapIsMod DEF WriterPublishes
<1>12. Len(Unread) + wn <= Capacity BY <1>1, <1>5
<1>. QED  BY <1>1, <1>10, <1>11, <1>12 DEF Queue!Put, WriterPublishes, Fifo, Clearing

\* Taking a copy removes the oldest samples.
LEMMA TakesGet ==
  ASSUME RInv, RInv', ~torn, ~torn', ReaderTakes, rk # 0
  PROVE  Queue!Get(rk)
<1>1. /\ RingTypeOK /\ RingTypeOK'
      /\ head \in Counters /\ tail \in Counters /\ rk \in 1..Capacity
      /\ Size \in Nat /\ rk <= Size /\ rt = tail /\ ~Clearing /\ ~Clearing'
  <2>1. RingTypeOK /\ RingTypeOK' /\ rk <= Size /\ rt = tail /\ ~Clearing /\ w' = w
    BY DEF RInv, ReaderOK, ClearOK, Reading, ReaderTakes, writer
  <2>2. head \in Counters /\ tail \in Counters /\ rk \in 0..Capacity
    BY <2>1 DEF RingTypeOK, Counters
  <2>. QED  BY <2>1, <2>2, SizeType, Sizes DEF Counters, Clearing
<1>2. Size' = Size - rk
  <2>1. Size' = Wrap(head - Wrap(tail + rk)) BY <1>1 DEF ReaderTakes, Size
  <2>. QED  BY <1>1, <2>1, SizeAfterGet DEF Size
<1>3. /\ Unread \in Seq(Counters) /\ Len(Unread) = Size
      /\ \A i \in 1..Size : Unread[i] = slots[(tail + i - 1) % Capacity]
  BY <1>1, UnreadIsSeq
<1>4. /\ Unread' \in Seq(Counters) /\ Len(Unread') = Size'
      /\ \A i \in 1..Size' : Unread'[i] = slots'[(tail' + i - 1) % Capacity]
  BY <1>1, UnreadIsSeqNext
<1>5. heard' = SubSeq(Unread, 1, rk)
  BY <1>1, <1>3 DEF ReaderTakes
<1>6. Unread' = SubSeq(Unread, rk + 1, Size)
  <2> DEFINE rest == SubSeq(Unread, rk + 1, Size)
  <2>1. /\ rest \in Seq(Counters) /\ Len(rest) = Size - rk
        /\ \A i \in 1..Size - rk : rest[i] = Unread[rk + i]
    <3>1. \A i \in rk + 1..Size : Unread[i] \in Counters BY <1>1, <1>3, ElementOfSeq
    <3>2. /\ rest \in Seq(Counters)
          /\ Len(rest) = IF rk + 1 <= Size THEN Size - (rk + 1) + 1 ELSE 0
          /\ \A i \in 1..Size - (rk + 1) + 1 : rest[i] = Unread[rk + 1 + i - 1]
      BY <1>1, <3>1, SubSeqProperties
    <3>. HIDE DEF rest
    <3>. QED  BY <1>1, <3>2
  <2>2. ASSUME NEW i \in 1..Size - rk PROVE Unread'[i] = rest[i]
    <3>1. /\ tail' = Wrap(tail + rk) /\ slots' = slots BY <1>1 DEF ReaderTakes
    <3>2. (Wrap(tail + rk) + (i - 1)) % Capacity = (tail + rk + (i - 1)) % Capacity
      BY <1>1, ModWrap DEF Counters
    <3>3. /\ Wrap(tail + rk) \in Int
          /\ Wrap(tail + rk) + i - 1 = Wrap(tail + rk) + (i - 1)
          /\ tail + (rk + i) - 1 = tail + rk + (i - 1)
          /\ rk + i \in 1..Size
      BY <1>1, Sizes DEF Wrap, Counters
    <3>4. i \in 1..Size' BY <1>2
    <3>5. Unread'[i] = slots[(tail + rk + (i - 1)) % Capacity] BY <1>4, <3>1, <3>2, <3>3, <3>4
    <3>6. Unread[rk + i] = slots[(tail + rk + (i - 1)) % Capacity] BY <1>3, <3>3
    <3>. HIDE DEF rest
    <3>. QED  BY <2>1, <3>5, <3>6
  <2>. HIDE DEF rest
  <2>3. Len(Unread') = Len(rest) BY <1>2, <1>4, <2>1
  <2>4. \A i \in 1..Len(Unread') : Unread'[i] = rest[i] BY <1>2, <1>4, <2>2
  <2>. QED  BY <1>4, <2>1, <2>3, <2>4, SeqEqual DEF rest
<1>. QED  BY <1>1, <1>3, <1>5, <1>6 DEF Queue!Get, ReaderTakes, Clearing

-----------------------------------------------------------------------------
\* Every step is one of the queue, or none.
LEMMA QueueStep ==
  ASSUME RInv, RInv', [Next]_vars PROVE [Queue!Next]_(Queue!qvars)
<1>. USE DEF ring, flags, writer, reader
<1>0. RingTypeOK /\ RingTypeOK' /\ torn \in BOOLEAN /\ torn' \in BOOLEAN
  BY DEF RInv, RingTypeOK
\* Steps that leave the ring alone.
<1>q. ASSUME UNCHANGED <<head, tail, slots, torn>>, Clearing' <=> Clearing
      PROVE  /\ heard' = heard => UNCHANGED Queue!qvars
             /\ heard' = <<>> => Queue!Return
  BY <1>q DEF Queue!qvars, Queue!Return, Unread, Size
<1>1. CASE torn' BY <1>1 DEF Queue!Next, Queue!Tear
<1>2. CASE ~torn'
  <2>1. ~torn
    BY <1>0, <1>2 DEF Next, vars, WriterCalls, ReaderCalls, WriterPublishes, WriterLooks,
       WriterNotifies, WriterWaits, WriterExpires, BridgeStarts, ClearCalled, ClearHead,
       ClearTail, ReaderLoads, ReaderReloads, ReaderTakes, ReaderLooks, ReaderNotifies,
       ReaderWaits, ReaderExpires
  <2>2. CASE UNCHANGED vars BY <1>q, <2>2 DEF vars, Clearing
  <2>3. ASSUME NEW n \in Requests, NEW block \in BOOLEAN,
               WriterCalls(n, block) \/ ReaderCalls(n, block)
        PROVE  UNCHANGED Queue!qvars
    BY <1>0, <1>2, <1>q, <2>1, <2>3 DEF WriterCalls, ReaderCalls, Clearing
  <2>4. CASE WriterPublishes
    <3>1. CASE wn = 0
      <4>1. UNCHANGED <<head, tail, heard, torn>> /\ ~Clearing /\ ~Clearing'
        BY <1>0, <2>4, <3>1, Sizes DEF WriterPublishes, Wrap, Counters, RingTypeOK, Clearing
      <4>2. slots' = slots
        <5>1. \A s \in 0..Capacity - 1 : slots'[s] = slots[s]
          <6>. SUFFICES ASSUME NEW s \in 0..Capacity - 1 PROVE slots'[s] = slots[s] OBVIOUS
          <6>1. s - head \in Int BY <1>0, Sizes DEF RingTypeOK, Counters
          <6>2. (s - head) % Capacity \in 0..Capacity - 1 BY <6>1, ModRange
          <6>. QED  BY <2>4, <3>1, <6>2 DEF WriterPublishes
        <5>2. /\ slots \in [0..Capacity - 1 -> Counters]
              /\ slots' \in [0..Capacity - 1 -> Counters]
          BY <1>0 DEF RingTypeOK, Counters
        <5>. QED  BY <5>1, <5>2, Sizes
      <4>. QED  BY <1>q, <4>1, <4>2
    <3>2. CASE wn # 0
      <4>1. Queue!Put(wn) BY <1>2, <2>1, <2>4, <3>2, PublishesPut
      <4>2. wn \in 1..Capacity BY <1>0, <3>2, Sizes DEF RingTypeOK
      <4>. QED  BY <4>1, <4>2 DEF Queue!Next
    <3>. QED  BY <3>1, <3>2
  <2>5. CASE WriterLooks BY <1>q, <2>5 DEF WriterLooks, Looked, Clearing
  <2>6. CASE WriterNotifies BY <1>q, <2>6 DEF WriterNotifies, Clearing
  <2>7. CASE WriterWaits BY <1>q, <2>7 DEF WriterWaits, Clearing
  <2>8. CASE WriterExpires BY <1>q, <2>8 DEF WriterExpires, Clearing
  <2>9. CASE BridgeStarts BY <1>q, <2>9 DEF BridgeStarts, Clearing
  <2>10. CASE ClearCalled BY <1>q, <2>10 DEF ClearCalled, Clearing
  <2>11. CASE ClearHead
    <3>1. Queue!Clear
      BY <1>0, <1>2, <2>1, <2>11 DEF Queue!Clear, ClearHead, Clearing
    <3>. QED  BY <3>1 DEF Queue!Next
  <2>12. CASE ClearTail
    <3>1. head = 0 /\ head' = 0 /\ tail' = 0 /\ Clearing /\ ~Clearing'
          /\ UNCHANGED <<heard, torn>>
      BY <1>0, <1>2, <2>1, <2>12 DEF RInv, ClearOK, ClearTail, Clearing
    <3>2. Size' = 0
      <4>1. Size' = Wrap(head' - tail') BY DEF Size
      <4>. QED  BY <3>1, <4>1, Sizes DEF Wrap
    <3>3. Unread' = <<>> BY <1>0, <3>2, UnreadIsSeqNext, EmptySeq
    <3>. QED  BY <3>1, <3>3 DEF Queue!qvars
  <2>13. CASE ReaderLoads BY <1>q, <2>13 DEF ReaderLoads, Clearing
  <2>14. CASE ReaderReloads
    BY <1>0, <1>2, <1>q, <2>1, <2>14 DEF ReaderReloads, Clearing
  <2>15. CASE ReaderTakes
    <3>1. CASE rk = 0
      <4>1. tail' = Wrap(tail) /\ heard' = <<>>
        BY <1>0, <2>1, <2>15, <3>1, Sizes
        DEF ReaderTakes, RInv, ReaderOK, Reading, RingTypeOK, Counters
      <4>2. tail' = tail BY <1>0, <4>1, Sizes DEF Wrap, RingTypeOK, Counters
      <4>. QED  BY <1>q, <2>15, <4>1, <4>2 DEF ReaderTakes, Clearing, Queue!Next
    <3>2. CASE rk # 0
      <4>1. Queue!Get(rk) BY <1>2, <2>1, <2>15, <3>2, TakesGet
      <4>2. rk \in 1..Capacity BY <1>0, <3>2, Sizes DEF RingTypeOK
      <4>. QED  BY <4>1, <4>2 DEF Queue!Next
    <3>. QED  BY <3>1, <3>2
  <2>16. CASE ReaderLooks
    BY <1>q, <2>16 DEF ReaderLooks, Clearing, Queue!Next
  <2>17. CASE ReaderNotifies
    <3>1. Clearing' <=> Clearing BY <2>17 DEF ReaderNotifies, Clearing, Woken
    <3>. QED  BY <1>q, <2>17, <3>1 DEF ReaderNotifies
  <2>18. CASE ReaderWaits BY <1>q, <2>18 DEF ReaderWaits, Clearing
  <2>19. CASE ReaderExpires BY <1>q, <2>19 DEF ReaderExpires, Clearing
  <2>. QED  BY <2>2, <2>3, <2>4, <2>5, <2>6, <2>7, <2>8, <2>9, <2>10, <2>11, <2>12, <2>13,
       <2>14, <2>15, <2>16, <2>17, <2>18, <2>19 DEF Next
<1>. QED  BY <1>0, <1>1, <1>2

\* The ring is empty at first.
LEMMA QueueInit == Init => Queue!Init
<1>. SUFFICES ASSUME Init PROVE Queue!Init OBVIOUS
<1>1. Size = 0 /\ head = 0 BY Sizes DEF Init, Size, Wrap
<1>2. RingTypeOK BY InitRInv DEF RInv
<1>3. Unread = <<>> BY <1>1, <1>2, UnreadIsSeq, EmptySeq
<1>. QED  BY <1>1, <1>3 DEF Queue!Init, Init

\* RingBuffer implements a bounded first-in first-out queue: whatever the two
\* threads do, every read returns the oldest samples, in order, without loss or
\* repetition, until a Clear overlaps a read.  For any capacity, any width of
\* the counters it divides, and across their wrap-around.
THEOREM RingIsQueue == Spec => ImplementsQueue
<1>1. RInv /\ RInv' /\ [Next]_vars => [Queue!Next]_(Queue!qvars) BY QueueStep
<1>. QED  BY <1>1, QueueInit, RingInvariance, PTL DEF Spec, ImplementsQueue, Queue!Spec
=============================================================================
