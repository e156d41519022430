--------------------------- MODULE KernelLogProofs ---------------------------
(***************************************************************************)
(* The kernel log: the ring holds the latest events unharmed, forgets no   *)
(* more than it must, and its readers hear an unbroken log, for all sizes  *)
(* of the ring, of headers and of messages.                                *)
(*                                                                         *)
(* The events of one lap around the buffer follow each other, so that      *)
(* their distances are those of their offsets in the log.  There are at    *)
(* most two laps in the ring: the one that is being written, and above the *)
(* write pointer what is left of the one before, up to its terminator.     *)
(***************************************************************************)
EXTENDS KernelLog, TLAPS

(* A message of length zero looks like a terminator.  The theorems are     *)
(* about logs without one.                                                 *)
NoEmptyMessage == \A text \in Messages : Len(text) # 0

(* The histories: every event takes its room in the log.                   *)
Histories ==
    /\ sent \in Seq(EventType) /\ Len(sent) = write_id
    /\ place \in Seq(Words) /\ Len(place) = write_id
    /\ offset \in Seq(Nat) /\ Len(offset) = write_id + 1
    /\ \A i \in 1..write_id :
         sent[i].length > 0 /\ offset[i + 1] = offset[i] + NEXT(sent[i])
    /\ \A i, j \in 1..write_id + 1 : i < j => offset[i] + NEXT(sent[i]) <= offset[j]

(* The lap that is being written begins with event first.                  *)
NewLap(first) ==
    /\ first \in 1..write_id + 1
    /\ write_ptr = offset[write_id + 1] - offset[first]
    /\ \A i \in first..write_id : place[i] = offset[i] - offset[first]

(* What is left of the lap before ends at the terminator end.              *)
OldLap(first, end) ==
    tail_id + 1 < first =>
      /\ end \in Words /\ end + RedzoneSize > RingSize /\ end + HeaderSize <= RingSize
      /\ ring[end].length = 0
      /\ \A i \in tail_id + 1..first - 1 : place[i] = end + offset[i] - offset[first]
      /\ tail_ptr >= write_ptr

Laps == \E first, end : NewLap(first) /\ OldLap(first, end)

EventsKept == \A i \in tail_id + 1..write_id : ring[place[i]] = sent[i]

(* The tail is at the oldest event, and there is one but at first.         *)
TailKept ==
    IF write_id = 0 THEN tail_ptr = 0 /\ tail_id = 0
    ELSE tail_id < write_id /\ tail_ptr = place[tail_id + 1]

(* There is room for a terminator, and for an event when one is written.   *)
RoomLeft ==
    /\ write_ptr \in Words /\ write_ptr + HeaderSize <= RingSize
    /\ phase = "write" => write_ptr + RedzoneSize <= RingSize
    /\ phase = "wrap" => write_ptr + RedzoneSize > RingSize
    /\ phase \in {"wrap", "write"} => event.length > 0 /\ write_id < MaxLogs

RingInv ==
    /\ TypeOK /\ Histories /\ Laps /\ EventsKept /\ TailKept /\ RoomLeft
    /\ RetainsWhatFits

(* A reader that was given nothing yet is where the tail is, or was; any   *)
(* other one is behind the event that it was given last.                   *)
ReaderKept(r) ==
    IF heard[r] = <<>>
      THEN read_id[r] <= tail_id /\ (read_id[r] = tail_id => read_ptr[r] = tail_ptr)
      ELSE /\ read_id[r] \in tail_id + 1..write_id
           /\ read_ptr[r] = place[read_id[r]] + NEXT(sent[read_id[r]])
           /\ Len(heard[r]) <= read_id[r]
           /\ heard[r] = SubSeq(sent, read_id[r] - Len(heard[r]) + 1, read_id[r])

(* Readers before the cursor have heard all, and so have all of them       *)
(* before the event is written.                                            *)
ReadersKept ==
    /\ heard \in [Readers -> Seq(EventType)]
    /\ \A r \in Readers : heard[r] # <<>> => \E i \in DOMAIN readers : readers[i] = r
    /\ \A i, j \in DOMAIN readers : readers[i] = readers[j] => i = j
    /\ \A i \in DOMAIN readers, r \in Readers : readers[i] = r =>
         /\ ReaderKept(r)
         /\ heard[r] # <<>> /\ (phase # "sync" \/ i < cur) => read_id[r] = write_id

-----------------------------------------------------------------------------
(* Multiples of the alignment.                                             *)
IsAligned(a) == a % Alignment = 0

(* What the assumption says of the sizes, headers and messages being       *)
(* aligned.                                                                *)
LEMMA Sizes ==
    /\ Alignment \in Nat \ {0} /\ HeaderSize \in Nat \ {0} /\ MaxLength \in Nat
    /\ RingSize \in Nat /\ RedzoneSize = MaxLength + 2 * HeaderSize
    /\ RingSize >= 3 * RedzoneSize /\ MaxLogs \in Nat
    /\ IsAligned(HeaderSize) /\ IsAligned(MaxLength) /\ IsAligned(RingSize)
BY KernelLogAssumption DEF RedzoneSize, IsAligned

(* An aligned number is a multiple of the alignment.                       *)
LEMMA Quotient ==
    ASSUME NEW a \in Int, IsAligned(a)
    PROVE  \E p \in Int : a = Alignment * p
<1>1. Alignment \in Nat \ {0} /\ a % Alignment = 0
  BY Sizes DEF IsAligned
<1>2. a = Alignment * (a \div Alignment) /\ a \div Alignment \in Int
  BY <1>1
<1> QED
  BY <1>2

(* A multiple of the alignment is aligned.                                 *)
LEMMA Multiple ==
    ASSUME NEW p \in Int
    PROVE  IsAligned(Alignment * p)
<1>1. Alignment \in Nat \ {0}
  BY Sizes
<1> QED
  BY <1>1 DEF IsAligned

(* Aligned numbers add up to an aligned number.                            *)
LEMMA AlignedSum ==
    ASSUME NEW a \in Int, NEW b \in Int, IsAligned(a), IsAligned(b)
    PROVE  IsAligned(a + b)
<1>1. PICK p \in Int : a = Alignment * p
  BY Quotient
<1>2. PICK q \in Int : b = Alignment * q
  BY Quotient
<1>3. Alignment \in Nat \ {0}
  BY Sizes
<1>4. a + b = Alignment * (p + q)
  BY <1>1, <1>2, <1>3
<1> QED
  BY <1>4, Multiple

(* Two aligned numbers are equal or at least the alignment apart.          *)
LEMMA AlignedGap ==
    ASSUME NEW a \in Int, NEW b \in Int, IsAligned(a), IsAligned(b), a < b + Alignment
    PROVE  a <= b
<1>1. PICK p \in Int : a = Alignment * p
  BY Quotient
<1>2. PICK q \in Int : b = Alignment * q
  BY Quotient
<1>3. Alignment \in Nat \ {0}
  BY Sizes
<1>4. Alignment * (p - q) < Alignment
  BY <1>1, <1>2, <1>3
<1>5. p - q < 1
  BY <1>3, <1>4
<1> QED
  BY <1>1, <1>2, <1>3, <1>5

(* ALIGN_END rounds up to the next aligned number.                         *)
LEMMA RoundedUp ==
    ASSUME NEW n \in Nat
    PROVE  /\ AlignEnd(n) \in Nat /\ AlignEnd(n) >= n /\ AlignEnd(n) < n + Alignment
           /\ IsAligned(AlignEnd(n))
<1>1. Alignment \in Nat \ {0}
  BY Sizes
<1> QED
  BY <1>1 DEF AlignEnd, IsAligned

(* The room that an event takes.                                           *)
LEMMA EventSize ==
    ASSUME NEW ev \in EventType
    PROVE  /\ NEXT(ev) \in Nat /\ IsAligned(NEXT(ev))
           /\ NEXT(ev) >= HeaderSize + ev.length /\ NEXT(ev) <= HeaderSize + MaxLength
           /\ ev.length \in Nat
<1>1. ev.length \in Nat /\ ev.length <= MaxLength
  BY Sizes DEF EventType
<1>2. PICK r : r = AlignEnd(ev.length)
  OBVIOUS
<1>3. r \in Nat /\ r >= ev.length /\ r < ev.length + Alignment /\ IsAligned(r)
  BY <1>1, <1>2, RoundedUp
<1>4. r <= MaxLength
  BY <1>1, <1>3, Sizes, AlignedGap
<1>5. IsAligned(HeaderSize + r)
  BY <1>3, Sizes, AlignedSum
<1> QED
  BY <1>1, <1>2, <1>3, <1>4, <1>5, Sizes DEF NEXT

(* The words of the ring are its aligned addresses.                        *)
LEMMA Word ==
    ASSUME NEW a \in Words
    PROVE  a \in Nat /\ a < RingSize /\ IsAligned(a)
BY Sizes DEF Words, IsAligned

(* An aligned distance leads from a word to a word, inside the ring.       *)
LEMMA WordFrom ==
    ASSUME NEW a \in Words, NEW n \in Nat, IsAligned(n), a + n < RingSize
    PROVE  a + n \in Words
<1>1. a \in Nat /\ IsAligned(a + n)
  BY Word, AlignedSum
<1> QED
  BY <1>1, Sizes DEF Words, IsAligned

-----------------------------------------------------------------------------
(* Types, taken out of the invariant once.                                 *)
LEMMA Types ==
    ASSUME RingInv
    PROVE  /\ ring \in [Words -> EventType]
           /\ write_ptr \in Words /\ write_ptr \in Nat /\ write_ptr + HeaderSize <= RingSize
           /\ tail_ptr \in Words /\ tail_ptr \in Nat
           /\ write_id \in Nat /\ tail_id \in Nat /\ tail_id <= write_id
           /\ \A i \in 1..write_id + 1 : offset[i] \in Nat
           /\ \A i \in 1..write_id : sent[i] \in EventType /\ place[i] \in Words
<1>1. TypeOK /\ Histories /\ RoomLeft
  BY DEF RingInv
<1>2. write_id \in Nat /\ tail_id \in Nat /\ tail_id <= write_id
  BY <1>1, Sizes DEF TypeOK
<1>3. write_ptr \in Words /\ tail_ptr \in Words /\ ring \in [Words -> EventType]
  BY <1>1 DEF TypeOK, RoomLeft
<1>4. \A i \in 1..write_id + 1 : offset[i] \in Nat
  BY <1>1, <1>2 DEF Histories
<1>5. \A i \in 1..write_id : sent[i] \in EventType /\ place[i] \in Words
  BY <1>1, <1>2 DEF Histories
<1> QED
  BY <1>1, <1>2, <1>3, <1>4, <1>5, Word DEF RoomLeft

(* Where the event i that the ring holds lies, and what follows it.        *)
LEMMA Follows ==
    ASSUME RingInv, NEW first, NEW end, NewLap(first), OldLap(first, end),
           NEW i \in tail_id + 1..write_id
    PROVE  /\ place[i] \in Words /\ place[i] \in Nat /\ NEXT(sent[i]) \in Nat
           /\ i < first =>
                /\ place[i] + NEXT(sent[i]) = IF i + 1 = first THEN end ELSE place[i + 1]
                /\ place[i] >= tail_ptr /\ tail_ptr >= write_ptr
                /\ place[i] + NEXT(sent[i]) <= end /\ end \in Words
           /\ i >= first =>
                /\ place[i] + NEXT(sent[i]) = IF i = write_id THEN write_ptr ELSE place[i + 1]
                /\ place[i] + NEXT(sent[i]) <= write_ptr
<1>1. /\ tail_id \in Nat /\ write_id \in Nat /\ i \in 1..write_id /\ first \in 1..write_id + 1
      /\ sent[i] \in EventType /\ place[i] \in Words /\ place[i] \in Nat
      /\ \A j \in 1..write_id + 1 : offset[j] \in Nat
  BY Types, Word DEF NewLap
<1>2. NEXT(sent[i]) \in Nat
  BY <1>1, EventSize
<1>3. /\ offset[i + 1] = offset[i] + NEXT(sent[i])
      /\ \A j \in 1..write_id + 1 : i < j => offset[i + 1] <= offset[j]
      /\ \A j \in 1..write_id + 1 : j < i => offset[j] <= offset[i]
  <2>1. Histories
    BY DEF RingInv
  <2>2. \A j \in 1..write_id : NEXT(sent[j]) \in Nat
    BY Types, EventSize
  <2>3. offset[i + 1] = offset[i] + NEXT(sent[i])
    BY <1>1, <2>1 DEF Histories
  <2>4. \A j, k \in 1..write_id + 1 : j < k => offset[j] + NEXT(sent[j]) <= offset[k]
    BY <2>1 DEF Histories
  <2> QED
    BY <1>1, <2>2, <2>3, <2>4
<1>4. ASSUME i < first
      PROVE  /\ place[i] + NEXT(sent[i]) = IF i + 1 = first THEN end ELSE place[i + 1]
             /\ place[i] >= tail_ptr /\ tail_ptr >= write_ptr
             /\ place[i] + NEXT(sent[i]) <= end /\ end \in Words
  <2>1. /\ end \in Words /\ tail_ptr >= write_ptr
        /\ \A j \in tail_id + 1..first - 1 : place[j] = end + offset[j] - offset[first]
    BY <1>1, <1>4 DEF OldLap
  <2>2. tail_ptr = place[tail_id + 1]
    BY <1>1 DEF RingInv, TailKept
  <2>3. end \in Nat
    BY <2>1, Word
  <2>4. /\ place[i] = end + offset[i] - offset[first]
        /\ place[tail_id + 1] = end + offset[tail_id + 1] - offset[first]
        /\ i + 1 # first => place[i + 1] = end + offset[i + 1] - offset[first]
    BY <1>1, <1>4, <2>1
  <2> QED
    BY <1>1, <1>2, <1>3, <1>4, <2>1, <2>2, <2>3, <2>4
<1>5. ASSUME i >= first
      PROVE  /\ place[i] + NEXT(sent[i]) = IF i = write_id THEN write_ptr ELSE place[i + 1]
             /\ place[i] + NEXT(sent[i]) <= write_ptr
  <2>1. /\ write_ptr = offset[write_id + 1] - offset[first]
        /\ place[i] = offset[i] - offset[first]
        /\ i # write_id => place[i + 1] = offset[i + 1] - offset[first]
    BY <1>1, <1>5 DEF NewLap
  <2> QED
    BY <1>1, <1>2, <1>3, <1>5, <2>1
<1> QED
  BY <1>1, <1>2, <1>4, <1>5

(* The walk from an event finds the one that follows.                      *)
LEMMA WalkFinds ==
    ASSUME RingInv, NEW i \in tail_id + 1..write_id, i < write_id
    PROVE  EventAt(place[i] + NEXT(sent[i])) = place[i + 1]
<1>1. PICK first, end : NewLap(first) /\ OldLap(first, end)
  BY DEF RingInv, Laps
<1>2. /\ tail_id \in Nat /\ write_id \in Nat /\ i \in 1..write_id /\ first \in 1..write_id + 1
  BY <1>1, Types DEF NewLap
<1>3. ring[place[i + 1]].length # 0
  <2>1. ring[place[i + 1]] = sent[i + 1]
    BY <1>2 DEF RingInv, EventsKept
  <2>2. sent[i + 1].length > 0
    BY <1>2 DEF RingInv, Histories
  <2> QED
    BY <2>1, <2>2
<1>4. CASE i + 1 = first
  <2>1. place[i] + NEXT(sent[i]) = end
    BY <1>1, <1>2, <1>4, Follows
  <2>2. ring[end].length = 0
    BY <1>1, <1>2, <1>4 DEF OldLap
  <2>3. place[i + 1] = 0
    <3>1. place[first] = offset[first] - offset[first] /\ offset[first] \in Nat
      BY <1>1, <1>2, <1>4, Types DEF NewLap
    <3> QED
      BY <1>4, <3>1
  <2> QED
    BY <2>1, <2>2, <2>3 DEF EventAt
<1>5. CASE i + 1 # first
  <2>1. place[i] + NEXT(sent[i]) = place[i + 1]
    BY <1>1, <1>2, <1>5, Follows
  <2> QED
    BY <1>3, <2>1 DEF EventAt
<1> QED
  BY <1>4, <1>5

(* push_tail drops an event of the old lap; the last event is not dropped, *)
(* since the ring has room for three redzones.                             *)
LEMMA PushTailStep ==
    ASSUME RingInv, PushTail
    PROVE  RingInv' /\ tail_id' = tail_id + 1 /\ tail_id' < write_id
<1>1. PICK first, end : NewLap(first) /\ OldLap(first, end)
  BY DEF RingInv, Laps
<1>2. /\ tail_id' = tail_id + 1 /\ tail_ptr' = EventAt(tail_ptr + NEXT(ring[tail_ptr]))
      /\ tail_ptr >= write_ptr /\ tail_ptr < write_ptr + RedzoneSize
      /\ UNCHANGED <<writeVars, readers, readVars, phase, event, cur, logVars>>
      /\ phase = "wrap" \/ (phase = "write" /\ write_id # 0)
  BY DEF PushTail, PointerIsInRedzone
<1>3. /\ tail_id \in Nat /\ write_id \in Nat /\ tail_ptr \in Nat /\ write_ptr \in Nat
      /\ first \in 1..write_id + 1 /\ \A i \in 1..write_id + 1 : offset[i] \in Nat
      /\ write_ptr = offset[write_id + 1] - offset[first]
  BY <1>1, Types DEF NewLap
<1>4. write_id # 0
  <2>1. CASE phase = "wrap"
    <3>1. write_ptr + RedzoneSize > RingSize
      BY <2>1 DEF RingInv, RoomLeft
    <3> QED
      BY <1>3, <3>1, Sizes
  <2> QED
    BY <1>2, <2>1
<1> DEFINE d == tail_id + 1
<1>5. tail_id < write_id /\ tail_ptr = place[d]
  BY <1>4 DEF RingInv, TailKept
<1>6. d \in 1..write_id /\ d \in tail_id + 1..write_id
  BY <1>3, <1>5
<1>7. ring[tail_ptr] = sent[d]
  BY <1>5, <1>6 DEF RingInv, EventsKept
<1> HIDE DEF d
<1>8. /\ NEXT(sent[d]) \in Nat /\ NEXT(sent[d]) >= HeaderSize
      /\ NEXT(sent[d]) <= HeaderSize + MaxLength
  BY <1>6, Types, EventSize, Sizes
<1>9. /\ d < first => /\ place[d] + NEXT(sent[d]) = IF d + 1 = first THEN end ELSE place[d + 1]
                      /\ end \in Words
      /\ d >= first => place[d] + NEXT(sent[d]) <= write_ptr
  BY <1>1, <1>6, Follows
<1>10. d < first
  BY <1>2, <1>3, <1>5, <1>6, <1>8, <1>9, Sizes
<1>11. /\ end \in Words /\ end \in Nat /\ end + RedzoneSize > RingSize
       /\ place[d] = end + offset[d] - offset[first]
  <2>1. tail_id + 1 < first /\ d \in tail_id + 1..first - 1
    BY <1>3, <1>6, <1>10 DEF d
  <2> QED
    BY <1>1, <2>1, Word DEF OldLap
<1>12. d < write_id
  <2>1. ASSUME d = write_id
        PROVE  FALSE
    <3>1. first = write_id + 1 /\ write_ptr = 0
      BY <1>3, <1>6, <1>10, <2>1
    <3>2. tail_ptr + NEXT(sent[d]) = end
      BY <1>5, <1>9, <1>10, <2>1, <3>1
    <3> QED
      BY <1>2, <1>3, <1>8, <1>11, <3>1, <3>2, Sizes
  <2> QED
    BY <1>3, <1>6, <2>1
<1>13. tail_ptr' = place[d + 1]
  BY <1>2, <1>5, <1>6, <1>7, <1>12, WalkFinds
<1>14. tail_ptr' \in Words
  BY <1>3, <1>6, <1>12, <1>13, Types
<1>15. /\ writeVars' = writeVars /\ logVars' = logVars
       /\ ring' = ring /\ write_ptr' = write_ptr /\ write_id' = write_id
       /\ sent' = sent /\ place' = place /\ offset' = offset
       /\ phase' = phase /\ event' = event
  BY <1>2 DEF writeVars, logVars
<1>16. TypeOK'
  BY <1>2, <1>3, <1>6, <1>12, <1>14, <1>15 DEF RingInv, TypeOK, readVars, d
<1>17. Histories'
  BY <1>15 DEF RingInv, Histories, NEXT
<1>18. Laps'
  <2>1. NewLap(first)'
    BY <1>1, <1>15 DEF NewLap
  <2>2. ASSUME tail_id' + 1 < first
        PROVE  tail_ptr' >= write_ptr /\ tail_id + 1 < first
    <3>1. d + 1 < first /\ tail_ptr' = place[d] + NEXT(sent[d])
      BY <1>2, <1>3, <1>9, <1>10, <1>13, <2>2 DEF d
    <3> QED
      BY <1>2, <1>3, <1>5, <1>6, <1>8, <1>10, <3>1 DEF d
  <2>3. OldLap(first, end)'
    BY <1>1, <1>2, <1>3, <1>15, <2>2 DEF OldLap
  <2> QED
    BY <2>1, <2>3 DEF Laps
<1>19. EventsKept' /\ RoomLeft'
  BY <1>2, <1>3, <1>15 DEF RingInv, EventsKept, RoomLeft
<1>20. TailKept'
  BY <1>2, <1>4, <1>12, <1>13, <1>15 DEF TailKept, d
<1>21. RetainsWhatFits'
  <2>1. offset[write_id + 1] - offset[d] = write_ptr + end - tail_ptr
    BY <1>3, <1>5, <1>6, <1>11
  <2>2. offset[write_id + 1] - offset[d] > RingSize - 2 * RedzoneSize
    BY <1>2, <1>3, <1>11, <2>1, Sizes
  <2> QED
    BY <1>2, <1>15, <2>2 DEF RetainsWhatFits, d
<1> QED
  BY <1>2, <1>12, <1>16, <1>17, <1>18, <1>19, <1>20, <1>21 DEF RingInv, d

(* The terminator goes behind the last event, and starts a new lap.        *)
LEMMA TerminatorStep ==
    ASSUME RingInv, WriteTerminator
    PROVE  RingInv'
<1>1. PICK first, end : NewLap(first) /\ OldLap(first, end)
  BY DEF RingInv, Laps
<1>2. /\ phase = "wrap" /\ phase' = "write" /\ write_ptr' = 0
      /\ ~ (tail_ptr >= write_ptr /\ tail_ptr < write_ptr + RedzoneSize)
      /\ ring' = [ring EXCEPT ![write_ptr].length = 0]
      /\ tail_ptr' = tail_ptr /\ tail_id' = tail_id /\ write_id' = write_id
      /\ sent' = sent /\ place' = place /\ offset' = offset /\ event' = event
      /\ readers' = readers /\ cur' = cur /\ read_ptr' = read_ptr /\ read_id' = read_id
  BY DEF WriteTerminator, PointerIsInRedzone, tailVars, logVars, readVars
<1>3. /\ tail_id \in Nat /\ write_id \in Nat /\ tail_ptr \in Nat /\ write_ptr \in Nat
      /\ write_ptr \in Words /\ ring \in [Words -> EventType]
      /\ first \in 1..write_id + 1 /\ \A i \in 1..write_id + 1 : offset[i] \in Nat
      /\ write_ptr = offset[write_id + 1] - offset[first]
      /\ tail_ptr < RingSize
  BY <1>1, Types, Word DEF NewLap
<1>4. write_ptr + RedzoneSize > RingSize /\ write_ptr + HeaderSize <= RingSize
  BY <1>2 DEF RingInv, RoomLeft
<1>5. tail_ptr < write_ptr /\ tail_id + 1 >= first
  <2>1. tail_ptr < write_ptr
    BY <1>2, <1>3, <1>4, Sizes
  <2> QED
    BY <1>1, <1>3, <2>1 DEF OldLap
<1>6. \A i \in tail_id + 1..write_id : place[i] \in Nat /\ place[i] < write_ptr
  <2>1. ASSUME NEW i \in tail_id + 1..write_id
        PROVE  place[i] \in Nat /\ place[i] < write_ptr
    <3>1. i >= first /\ sent[i] \in EventType
      BY <1>3, <1>5, Types
    <3>2. /\ place[i] \in Nat /\ NEXT(sent[i]) \in Nat /\ NEXT(sent[i]) >= HeaderSize
          /\ place[i] + NEXT(sent[i]) <= write_ptr
      BY <1>1, <3>1, Follows, EventSize, Sizes
    <3> QED
      BY <1>3, <3>2, Sizes
  <2> QED
    BY <2>1
<1>7. /\ ring' \in [Words -> EventType] /\ ring'[write_ptr].length = 0
      /\ \A a \in Words : a # write_ptr => ring'[a] = ring[a]
  <2>1. [ring[write_ptr] EXCEPT !.length = 0] \in EventType
    <3>1. ring[write_ptr] \in EventType /\ 0 \in 0..MaxLength
      BY <1>3, Sizes
    <3> QED
      BY <3>1 DEF EventType
  <2> QED
    BY <1>2, <1>3, <2>1
<1>8. TypeOK'
  <2>1. TypeOK
    BY DEF RingInv
  <2>2. write_ptr' \in 0..RingSize /\ phase' \in {"idle", "wrap", "write", "sync"}
    BY <1>2, Sizes
  <2> QED
    BY <1>2, <1>7, <2>1, <2>2 DEF TypeOK
<1>9. Histories'
  BY <1>2 DEF RingInv, Histories, NEXT
<1>10. Laps'
  <2>1. NewLap(write_id + 1)'
    BY <1>2, <1>3 DEF NewLap
  <2>2. \A i \in tail_id + 1..write_id : place[i] = offset[i] - offset[first]
    BY <1>1, <1>3, <1>5 DEF NewLap
  <2>3. PICK at, new : at = write_ptr /\ new = write_id + 1
    OBVIOUS
  <2>4. \A i \in tail_id' + 1..new - 1 : place'[i] = at + offset'[i] - offset'[new]
    BY <1>2, <1>3, <2>2, <2>3
  <2>5. OldLap(new, at)'
    BY <1>2, <1>3, <1>4, <1>7, <2>3, <2>4 DEF OldLap
  <2> QED
    BY <1>2, <2>1, <2>3, <2>5 DEF Laps
<1>11. EventsKept'
  <2>1. ASSUME NEW i \in tail_id + 1..write_id
        PROVE  ring'[place[i]] = sent[i]
    <3>1. place[i] \in Words /\ place[i] # write_ptr
      BY <1>1, <1>3, <1>6, Follows
    <3> QED
      BY <1>7, <3>1 DEF RingInv, EventsKept
  <2> QED
    BY <1>2, <2>1 DEF EventsKept
<1>12. TailKept' /\ RetainsWhatFits'
  BY <1>2 DEF RingInv, TailKept, RetainsWhatFits
<1>13. RoomLeft'
  <2>1. 0 \in Words
    BY Sizes DEF Words
  <2> QED
    BY <1>2, <2>1, Sizes DEF RingInv, RoomLeft
<1> QED
  BY <1>8, <1>9, <1>10, <1>11, <1>12, <1>13 DEF RingInv

(* Writing an event harms none that the ring holds.                        *)
LEMMA WriteEventStep ==
    ASSUME RingInv, WriteEvent
    PROVE  RingInv'
<1>1. PICK first, end : NewLap(first) /\ OldLap(first, end)
  BY DEF RingInv, Laps
<1>2. /\ phase = "write" /\ phase' = "sync" /\ cur' = 1
      /\ write_ptr' = write_ptr + NEXT(event) /\ write_id' = write_id + 1
      /\ tail_ptr' = tail_ptr /\ tail_id' = tail_id /\ event' = event
      /\ readers' = readers /\ read_ptr' = read_ptr /\ read_id' = read_id
      /\ write_id # 0 => ~ (tail_ptr >= write_ptr /\ tail_ptr < write_ptr + RedzoneSize)
  BY DEF WriteEvent, PointerIsInRedzone, tailVars, readVars
<1>3. /\ tail_id \in Nat /\ write_id \in Nat /\ tail_id <= write_id
      /\ tail_ptr \in Nat /\ write_ptr \in Nat
      /\ write_ptr \in Words /\ ring \in [Words -> EventType]
      /\ first \in 1..write_id + 1 /\ \A i \in 1..write_id + 1 : offset[i] \in Nat
      /\ write_ptr = offset[write_id + 1] - offset[first]
  BY <1>1, Types DEF NewLap
<1>4. /\ event \in EventType /\ event.length > 0 /\ write_id < MaxLogs
      /\ write_ptr + RedzoneSize <= RingSize
  BY <1>2 DEF RingInv, TypeOK, RoomLeft
<1>5. PICK size : size = NEXT(event)
  OBVIOUS
<1>6. /\ size \in Nat /\ IsAligned(size) /\ event.length \in Nat
      /\ size >= HeaderSize + event.length /\ size <= HeaderSize + MaxLength
  BY <1>4, <1>5, EventSize
<1>7. PICK n : n = write_id + 1
  OBVIOUS
<1>8. /\ sent' \in Seq(EventType) /\ Len(sent') = n /\ sent'[n] = event
      /\ \A i \in 1..write_id : sent'[i] = sent[i]
  <2>1. sent' = Append(sent, event)
    BY DEF WriteEvent
  <2>2. sent \in Seq(EventType) /\ Len(sent) = write_id
    BY DEF RingInv, Histories
  <2> QED
    BY <1>3, <1>4, <1>7, <2>1, <2>2
<1>9. /\ place' \in Seq(Words) /\ Len(place') = n /\ place'[n] = write_ptr
      /\ \A i \in 1..write_id : place'[i] = place[i]
  <2>1. place' = Append(place, write_ptr)
    BY DEF WriteEvent
  <2>2. place \in Seq(Words) /\ Len(place) = write_id
    BY DEF RingInv, Histories
  <2> QED
    BY <1>3, <1>7, <2>1, <2>2
<1>10. /\ offset' \in Seq(Nat) /\ Len(offset') = n + 1 /\ offset'[n + 1] = offset[n] + size
       /\ \A i \in 1..n : offset'[i] = offset[i]
  <2>1. offset' = Append(offset, offset[n] + size)
    BY <1>5, <1>7 DEF WriteEvent
  <2>2. offset \in Seq(Nat) /\ Len(offset) = n /\ offset[n] + size \in Nat
    BY <1>3, <1>6, <1>7 DEF RingInv, Histories
  <2> QED
    BY <1>3, <1>7, <2>1, <2>2
<1>11. Histories'
  <2>1. /\ \A i \in 1..write_id :
             sent[i].length > 0 /\ offset[i + 1] = offset[i] + NEXT(sent[i])
        /\ \A i, j \in 1..write_id + 1 : i < j => offset[i] + NEXT(sent[i]) <= offset[j]
    BY DEF RingInv, Histories
  <2>2. ASSUME NEW i \in 1..n
        PROVE  sent'[i].length > 0 /\ offset'[i + 1] = offset'[i] + NEXT(sent'[i])
    <3>1. CASE i = n
      BY <1>4, <1>5, <1>8, <1>10, <3>1
    <3>2. CASE i # n
      <4>1. i \in 1..write_id /\ i + 1 \in 1..n
        BY <1>3, <1>7, <3>2
      <4> QED
        BY <1>8, <1>10, <2>1, <4>1
    <3> QED
      BY <3>1, <3>2
  <2>3. ASSUME NEW i \in 1..n + 1, NEW j \in 1..n + 1, i < j
        PROVE  offset'[i] + NEXT(sent'[i]) <= offset'[j]
    <3>1. CASE j # n + 1
      <4>1. i \in 1..write_id /\ i \in 1..n /\ j \in 1..n /\ i \in 1..write_id + 1
            /\ j \in 1..write_id + 1
        BY <1>3, <1>7, <2>3, <3>1
      <4> QED
        BY <1>8, <1>10, <2>1, <2>3, <4>1
    <3>2. CASE j = n + 1 /\ i # n
      <4>1. i \in 1..write_id /\ i \in 1..n /\ n \in 1..write_id + 1 /\ i < n
            /\ i \in 1..write_id + 1
        BY <1>3, <1>7, <2>3, <3>2
      <4>2. offset'[i] + NEXT(sent'[i]) <= offset[n]
        BY <1>8, <1>10, <2>1, <4>1
      <4>3. offset[n] \in Nat /\ offset'[i] \in Nat /\ NEXT(sent'[i]) \in Nat
        BY <1>3, <1>8, <1>10, <4>1, Types, EventSize
      <4> QED
        BY <1>6, <1>10, <3>2, <4>2, <4>3
    <3>3. CASE j = n + 1 /\ i = n
      BY <1>3, <1>6, <1>5, <1>7, <1>8, <1>10, <3>3
    <3> QED
      BY <3>1, <3>2, <3>3
  <2> QED
    BY <1>2, <1>7, <1>8, <1>9, <1>10, <2>2, <2>3 DEF Histories
<1>12. /\ ring' \in [Words -> EventType] /\ ring'[write_ptr] = event
       /\ \A a \in Words : a < write_ptr \/ a >= write_ptr + RedzoneSize => ring'[a] = ring[a]
  <2>1. ring' = [a \in Words |->
                  IF a = write_ptr THEN event
                  ELSE IF a \in write_ptr + HeaderSize .. write_ptr + HeaderSize + event.length
                    THEN MessageWord ELSE ring[a]]
    BY DEF WriteEvent
  <2>2. MessageWord \in EventType
    <3>1. 1 \in 0..MaxLength
      BY <1>4, <1>6, Sizes DEF EventType
    <3> QED
      BY <3>1 DEF MessageWord, EventType
  <2>3. ASSUME NEW a \in Words, a < write_ptr \/ a >= write_ptr + RedzoneSize
        PROVE  /\ a # write_ptr
               /\ a \notin write_ptr + HeaderSize .. write_ptr + HeaderSize + event.length
    <3>1. a \in Nat
      BY Word
    <3> QED
      BY <1>3, <1>6, <2>3, <3>1, Sizes
  <2> QED
    BY <1>3, <1>4, <2>1, <2>2, <2>3
<1>13. tail_id + 1 < first => tail_ptr >= write_ptr + RedzoneSize
  BY <1>1, <1>2, <1>3, Sizes DEF OldLap
<1>14. ASSUME NEW i \in tail_id + 1..write_id
       PROVE  /\ i \in 1..write_id /\ place[i] \in Words
              /\ place[i] < write_ptr \/ place[i] >= write_ptr + RedzoneSize
              /\ i < first => place[i] <= end /\ end \in Words
  <2>1. i \in 1..write_id /\ sent[i] \in EventType
    BY <1>3, Types
  <2>2. NEXT(sent[i]) \in Nat /\ NEXT(sent[i]) >= HeaderSize
    BY <2>1, EventSize, Sizes
  <2>3. /\ place[i] \in Words /\ place[i] \in Nat
        /\ i < first => /\ place[i] >= tail_ptr /\ place[i] + NEXT(sent[i]) <= end
                        /\ end \in Words
        /\ i >= first => place[i] + NEXT(sent[i]) <= write_ptr
    BY <1>1, Follows
  <2>4. CASE i < first
    <3>1. tail_id + 1 < first
      BY <1>3, <2>1, <2>4
    <3>2. end \in Nat
      BY <2>3, <2>4, Word
    <3> QED
      BY <1>3, <1>13, <2>1, <2>2, <2>3, <2>4, <3>1, <3>2, Sizes
  <2>5. CASE i >= first
    BY <1>3, <2>1, <2>2, <2>3, <2>5, Sizes
  <2> QED
    BY <1>3, <2>1, <2>4, <2>5
<1>15. Laps'
  <2>1. NewLap(first)'
    <3>1. first \in 1..n + 1 /\ first \in 1..n
      BY <1>3, <1>7
    <3>2. write_ptr' = offset'[n + 1] - offset'[first]
      <4>1. write_ptr' = write_ptr + size /\ write_ptr = offset[n] - offset[first]
        BY <1>2, <1>3, <1>5, <1>7, Zenon
      <4>2. offset'[n + 1] = offset[n] + size /\ offset'[first] = offset[first]
        BY <1>10, <3>1, Zenon
      <4>3. offset[n] \in Nat /\ offset[first] \in Nat
        BY <1>3, <1>7
      <4> QED
        BY <1>6, <4>1, <4>2, <4>3
    <3>3. ASSUME NEW i \in first..n
          PROVE  place'[i] = offset'[i] - offset'[first]
      <4>1. CASE i = n
        BY <1>3, <1>7, <1>9, <1>10, <3>1, <4>1
      <4>2. CASE i # n
        <5>1. i \in first..write_id /\ i \in 1..write_id /\ i \in 1..n
          BY <1>3, <1>7, <4>2
        <5>2. place[i] = offset[i] - offset[first]
          BY <1>1, <5>1 DEF NewLap
        <5> QED
          BY <1>9, <1>10, <3>1, <5>1, <5>2
      <4> QED
        BY <4>1, <4>2
    <3> QED
      BY <1>2, <1>7, <3>1, <3>2, <3>3 DEF NewLap
  <2>2. ASSUME tail_id + 1 < first
        PROVE  OldLap(first, end)'
    <3>1. /\ end \in Words /\ end + RedzoneSize > RingSize /\ end + HeaderSize <= RingSize
          /\ ring[end].length = 0
          /\ \A i \in tail_id + 1..first - 1 : place[i] = end + offset[i] - offset[first]
      BY <1>1, <2>2 DEF OldLap
    <3>2. ring'[end] = ring[end]
      <4>1. tail_id + 1 \in tail_id + 1..write_id
        BY <1>3, <2>2
      <4>2. tail_ptr = place[tail_id + 1] /\ place[tail_id + 1] <= end
        BY <1>3, <1>14, <2>2, <4>1 DEF RingInv, TailKept
      <4>3. end >= write_ptr + RedzoneSize
        BY <1>3, <1>13, <2>2, <3>1, <4>2, Sizes, Word
      <4> QED
        BY <1>12, <3>1, <4>3
    <3>3. \A i \in tail_id + 1..first - 1 : place'[i] = end + offset'[i] - offset'[first]
      <4>1. \A i \in tail_id + 1..first - 1 : i \in 1..write_id /\ i \in 1..n
        BY <1>3, <1>7
      <4>2. first \in 1..n
        BY <1>3, <1>7
      <4> QED
        BY <1>9, <1>10, <3>1, <4>1, <4>2
    <3>4. tail_ptr >= write_ptr + size
      BY <1>3, <1>6, <1>13, <2>2, Sizes
    <3> QED
      BY <1>2, <1>5, <3>1, <3>2, <3>3, <3>4 DEF OldLap
  <2>3. tail_id + 1 >= first => OldLap(first, end)'
    BY <1>2, <1>3 DEF OldLap
  <2> QED
    BY <1>3, <2>1, <2>2, <2>3 DEF Laps
<1>16. EventsKept'
  <2>1. ASSUME NEW i \in tail_id + 1..n
        PROVE  ring'[place'[i]] = sent'[i]
    <3>1. CASE i = n
      BY <1>8, <1>9, <1>12, <3>1
    <3>2. CASE i # n
      <4>1. i \in tail_id + 1..write_id
        BY <1>3, <1>7, <3>2
      <4>2. ring[place[i]] = sent[i]
        BY <4>1 DEF RingInv, EventsKept
      <4> QED
        BY <1>8, <1>9, <1>12, <1>14, <4>1, <4>2
    <3> QED
      BY <3>1, <3>2
  <2> QED
    BY <1>2, <1>7, <2>1 DEF EventsKept
<1>17. TailKept'
  <2>1. CASE write_id = 0
    <3>1. tail_ptr = 0 /\ tail_id = 0
      BY <2>1 DEF RingInv, TailKept
    <3>2. write_ptr = 0
      BY <1>3, <2>1
    <3> QED
      BY <1>2, <1>7, <1>9, <2>1, <3>1, <3>2 DEF TailKept
  <2>2. CASE write_id # 0
    <3>1. tail_id < write_id /\ tail_ptr = place[tail_id + 1]
      BY <2>2 DEF RingInv, TailKept
    <3>2. tail_id + 1 \in 1..write_id
      BY <1>3, <3>1
    <3> QED
      BY <1>2, <1>3, <1>9, <3>1, <3>2 DEF TailKept
  <2> QED
    BY <2>1, <2>2
<1>18. RoomLeft'
  <2>1. write_ptr + size < RingSize /\ write_ptr + size + HeaderSize <= RingSize
    BY <1>3, <1>4, <1>6, Sizes
  <2>2. write_ptr + size \in Words
    BY <1>3, <1>6, <2>1, WordFrom
  <2> QED
    BY <1>2, <1>5, <2>1, <2>2 DEF RoomLeft
<1>19. RetainsWhatFits'
  <2>1. ASSUME tail_id > 0
        PROVE  offset'[n + 1] - offset'[tail_id] > RingSize - 2 * RedzoneSize
    <3>1. tail_id \in 1..n /\ n \in 1..write_id + 1 /\ tail_id \in 1..write_id + 1
      BY <1>3, <1>7, <2>1
    <3>2. offset[n] - offset[tail_id] > RingSize - 2 * RedzoneSize
      BY <1>7, <2>1 DEF RingInv, RetainsWhatFits
    <3>3. offset[n] \in Nat /\ offset[tail_id] \in Nat
      BY <1>3, <3>1
    <3>4. offset'[n + 1] = offset[n] + size /\ offset'[tail_id] = offset[tail_id]
      BY <1>10, <3>1
    <3> QED
      BY <1>6, <3>2, <3>3, <3>4, Sizes
  <2> QED
    BY <1>2, <1>7, <2>1 DEF RetainsWhatFits
<1>20. TypeOK'
  <2>1. write_ptr' \in 0..RingSize /\ write_id' \in 0..MaxLogs /\ tail_id' \in 0..write_id'
    BY <1>2, <1>3, <1>4, <1>5, <1>6, Sizes
  <2>2. readers \in Seq(Readers) /\ 1 \in 1..Len(readers) + 1
    BY DEF RingInv, TypeOK
  <2>3. read_id \in [Readers -> 0..write_id + 1]
    BY <1>3 DEF RingInv, TypeOK
  <2>4. read_ptr \in [Readers -> 0..RingSize] /\ tail_ptr \in Words
    BY DEF RingInv, TypeOK
  <2> QED
    BY <1>2, <1>4, <1>12, <2>1, <2>2, <2>3, <2>4 DEF TypeOK
<1> QED
  BY <1>11, <1>15, <1>16, <1>17, <1>18, <1>19, <1>20 DEF RingInv

(* The steps that leave the ring alone.                                    *)
LEMMA RingQuiet ==
    ASSUME RingInv, TypeOK', UNCHANGED <<tailVars, writeVars, logVars>>,
           (phase' = phase /\ event' = event) \/ phase' \notin {"wrap", "write"}
    PROVE  RingInv'
<1>1. /\ tail_ptr' = tail_ptr /\ tail_id' = tail_id
      /\ ring' = ring /\ write_ptr' = write_ptr /\ write_id' = write_id
      /\ sent' = sent /\ place' = place /\ offset' = offset
  BY DEF tailVars, writeVars, logVars
<1>2. Histories' /\ EventsKept' /\ TailKept' /\ RetainsWhatFits'
  BY <1>1 DEF RingInv, Histories, EventsKept, TailKept, RetainsWhatFits, NEXT
<1>3. Laps'
  <2>1. PICK first, end : NewLap(first) /\ OldLap(first, end)
    BY DEF RingInv, Laps
  <2>2. NewLap(first)' /\ OldLap(first, end)'
    BY <1>1, <2>1 DEF NewLap, OldLap
  <2> QED
    BY <2>2 DEF Laps
<1>4. RoomLeft'
  BY <1>1 DEF RingInv, RoomLeft
<1> QED
  BY <1>2, <1>3, <1>4 DEF RingInv

(* log_message begins, with a message that is not too long.                *)
LEMMA LogMessageStep ==
    ASSUME NoEmptyMessage, RingInv, NEW level \in LogLevels, NEW text \in Messages,
           LogMessage(level, text), Len(text) <= MaxLength, level <= 7
    PROVE  RingInv'
<1>1. /\ event' = Event(level, text) /\ write_id < MaxLogs
      /\ phase' = IF PointerIsInRedzone(RingSize) THEN "wrap" ELSE "write"
      /\ tail_ptr' = tail_ptr /\ tail_id' = tail_id
      /\ ring' = ring /\ write_ptr' = write_ptr /\ write_id' = write_id
      /\ sent' = sent /\ place' = place /\ offset' = offset
      /\ readers' = readers /\ read_ptr' = read_ptr /\ read_id' = read_id /\ cur' = cur
  BY DEF LogMessage, tailVars, writeVars, readVars, logVars
<1>2. event' \in EventType /\ event'.length > 0
  <2>1. Len(text) \in Nat /\ Len(text) # 0 /\ level \in Nat
    BY KernelLogAssumption DEF NoEmptyMessage
  <2>2. Len(text) \in 0..MaxLength /\ level \in 0..7
    BY <2>1, Sizes
  <2> QED
    BY <1>1, <2>1, <2>2 DEF Event, EventType
<1>3. TypeOK'
  BY <1>1, <1>2 DEF RingInv, TypeOK
<1>4. Histories' /\ EventsKept' /\ TailKept' /\ RetainsWhatFits'
  BY <1>1 DEF RingInv, Histories, EventsKept, TailKept, RetainsWhatFits, NEXT
<1>5. Laps'
  <2>1. PICK first, end : NewLap(first) /\ OldLap(first, end)
    BY DEF RingInv, Laps
  <2>2. NewLap(first)' /\ OldLap(first, end)'
    BY <1>1, <2>1 DEF NewLap, OldLap
  <2> QED
    BY <2>2 DEF Laps
<1>6. RoomLeft'
  <2>1. write_ptr \in Nat /\ write_ptr \in Words /\ write_ptr + HeaderSize <= RingSize
    BY Types
  <2>2. PointerIsInRedzone(RingSize) <=> write_ptr + RedzoneSize > RingSize
    BY <2>1, Sizes DEF PointerIsInRedzone
  <2>3. ~ (write_ptr + RedzoneSize > RingSize) => write_ptr + RedzoneSize <= RingSize
    BY <2>1, Sizes
  <2> QED
    BY <1>1, <1>2, <2>1, <2>2, <2>3 DEF RoomLeft
<1> QED
  BY <1>3, <1>4, <1>5, <1>6 DEF RingInv

-----------------------------------------------------------------------------
(* Parts of a sequence, when the sequence or the part grows.               *)
LEMMA SubSeqOfAppend ==
    ASSUME NEW S, NEW s \in Seq(S), NEW e \in S, NEW a \in Nat \ {0}, NEW b \in Nat,
           b <= Len(s)
    PROVE  SubSeq(Append(s, e), a, b) = SubSeq(s, a, b)
OBVIOUS

(* A run of a sequence, one element longer.                                *)
LEMMA SubSeqGrows ==
    ASSUME NEW S, NEW s \in Seq(S), NEW a \in Nat \ {0}, NEW b \in Nat,
           a <= b + 1, b < Len(s)
    PROVE  Append(SubSeq(s, a, b), s[b + 1]) = SubSeq(s, a, b + 1)
OBVIOUS

(* A reader is registered where the tail is.                               *)
LEMMA RegisterStep ==
    ASSUME RingInv, ReadersKept, NEW r \in Readers, RegisterReader(r)
    PROVE  RingInv' /\ ReadersKept'
<1>1. /\ phase = "idle" /\ phase' = phase /\ event' = event /\ cur' = cur
      /\ \A i \in DOMAIN readers : readers[i] # r
      /\ readers' = Append(readers, r) /\ heard' = heard
      /\ read_ptr' = [read_ptr EXCEPT ![r] = tail_ptr]
      /\ read_id' = [read_id EXCEPT ![r] = tail_id]
      /\ UNCHANGED <<tailVars, writeVars, logVars>>
  BY DEF RegisterReader
<1>2. /\ tail_ptr' = tail_ptr /\ tail_id' = tail_id /\ write_id' = write_id
      /\ ring' = ring /\ write_ptr' = write_ptr /\ sent' = sent /\ place' = place
  BY <1>1 DEF tailVars, writeVars, logVars
<1>3. /\ readers \in Seq(Readers) /\ cur \in 1..Len(readers) + 1
      /\ read_ptr \in [Readers -> 0..RingSize] /\ read_id \in [Readers -> 0..write_id]
  BY DEF RingInv, TypeOK
<1>4. /\ tail_ptr \in Nat /\ tail_ptr < RingSize /\ tail_id \in Nat /\ write_id \in Nat
      /\ tail_id <= write_id
  BY Types, Word
<1>5. /\ readers' \in Seq(Readers) /\ Len(readers') = Len(readers) + 1
      /\ DOMAIN readers' = DOMAIN readers \cup {Len(readers) + 1}
      /\ \A i \in DOMAIN readers : readers'[i] = readers[i]
      /\ readers'[Len(readers) + 1] = r
  BY <1>1, <1>3
<1>6. /\ read_ptr'[r] = tail_ptr /\ read_id'[r] = tail_id
      /\ \A q \in Readers : q # r => read_ptr'[q] = read_ptr[q] /\ read_id'[q] = read_id[q]
  BY <1>1, <1>3
<1>7. TypeOK'
  <2>1. read_ptr' \in [Readers -> 0..RingSize]
    BY <1>1, <1>3, <1>4, Sizes
  <2>2. read_id' \in [Readers -> 0..write_id]
    BY <1>1, <1>3, <1>4
  <2>3. cur \in 1..Len(readers') + 1
    BY <1>3, <1>5
  <2> QED
    BY <1>1, <1>2, <1>5, <2>1, <2>2, <2>3 DEF RingInv, TypeOK
<1>8. RingInv'
  BY <1>1, <1>7, RingQuiet
<1>9. heard[r] = <<>>
  BY <1>1 DEF ReadersKept
<1>10. ReaderKept(r)'
  BY <1>1, <1>2, <1>4, <1>6, <1>9 DEF ReaderKept
<1>11. ASSUME NEW i \in DOMAIN readers, NEW q \in Readers, readers[i] = q
       PROVE  ReaderKept(q)' /\ (heard'[q] # <<>> => read_id'[q] = write_id')
  <2>1. q # r /\ ReaderKept(q) /\ (heard[q] # <<>> => read_id[q] = write_id)
    BY <1>1, <1>11 DEF ReadersKept
  <2>2. read_ptr'[q] = read_ptr[q] /\ read_id'[q] = read_id[q] /\ heard'[q] = heard[q]
    BY <1>1, <1>6, <2>1
  <2> QED
    BY <1>2, <2>1, <2>2 DEF ReaderKept, NEXT
<1>12. ReadersKept'
  <2>1. \A i, j \in DOMAIN readers' : readers'[i] = readers'[j] => i = j
    BY <1>1, <1>5 DEF ReadersKept
  <2>2. \A q \in Readers : heard'[q] # <<>> => \E i \in DOMAIN readers' : readers'[i] = q
    BY <1>1, <1>5 DEF ReadersKept
  <2>3. heard' \in [Readers -> Seq(EventType)]
    BY <1>1 DEF ReadersKept
  <2>4. ASSUME NEW i \in DOMAIN readers', NEW q \in Readers, readers'[i] = q
        PROVE  ReaderKept(q)' /\ (heard'[q] # <<>> => read_id'[q] = write_id')
    <3>1. CASE i \in DOMAIN readers
      BY <1>5, <1>11, <2>4, <3>1
    <3>2. CASE i = Len(readers) + 1
      BY <1>1, <1>5, <1>9, <1>10, <2>4, <3>2
    <3> QED
      BY <1>5, <3>1, <3>2
  <2> QED
    BY <2>1, <2>2, <2>3, <2>4 DEF ReadersKept
<1> QED
  BY <1>8, <1>12

(* While the event is not written, all readers that were given something   *)
(* have heard all; they stay where they are.                               *)
LEMMA ReadersWait ==
    ASSUME RingInv, ReadersKept, UNCHANGED <<readers, readVars, logVars>>,
           tail_id' \in Nat, write_id' = write_id, phase # "sync",
           \/ tail_id' = tail_id /\ tail_ptr' = tail_ptr
           \/ tail_id' > tail_id /\ tail_id' < write_id
    PROVE  ReadersKept'
<1>1. /\ readers' = readers /\ read_ptr' = read_ptr /\ read_id' = read_id /\ heard' = heard
      /\ sent' = sent /\ place' = place
  BY DEF readVars, logVars
<1>2. /\ heard \in [Readers -> Seq(EventType)]
      /\ \A r \in Readers : heard[r] # <<>> => \E i \in DOMAIN readers : readers[i] = r
      /\ \A i, j \in DOMAIN readers : readers[i] = readers[j] => i = j
  BY DEF ReadersKept
<1>3. tail_id \in Nat /\ write_id \in Nat /\ read_id \in [Readers -> 0..write_id]
  BY Types DEF RingInv, TypeOK
<1>4. ASSUME NEW i \in DOMAIN readers, NEW r \in Readers, readers[i] = r
      PROVE  ReaderKept(r)' /\ (heard[r] # <<>> => read_id[r] = write_id)
  <2>1. ReaderKept(r) /\ (heard[r] # <<>> => read_id[r] = write_id)
    BY <1>4 DEF ReadersKept
  <2>2. CASE heard[r] = <<>>
    <3>1. read_id[r] <= tail_id /\ (read_id[r] = tail_id => read_ptr[r] = tail_ptr)
          /\ read_id[r] \in Nat
      BY <1>3, <2>1, <2>2 DEF ReaderKept
    <3>2. read_id[r] <= tail_id' /\ (read_id[r] = tail_id' => read_ptr[r] = tail_ptr')
      BY <1>3, <3>1
    <3> QED
      BY <1>1, <2>2, <3>2 DEF ReaderKept
  <2>3. CASE heard[r] # <<>>
    <3>1. read_id[r] = write_id /\ read_id[r] \in tail_id + 1..write_id
      BY <2>1, <2>3 DEF ReaderKept
    <3>2. tail_id < write_id
      BY <1>3, <3>1
    <3>3. tail_id' < write_id
      BY <3>2
    <3>4. PICK t : t = tail_id'
      OBVIOUS
    <3>5. t \in Nat /\ t < write_id
      BY <3>3, <3>4, Zenon
    <3>6. write_id \in t + 1..write_id
      BY <1>3, <3>5
    <3>7. write_id \in tail_id' + 1..write_id
      BY <3>4, <3>6
    <3> QED
      BY <1>1, <2>1, <2>3, <3>1, <3>7 DEF ReaderKept, NEXT
  <2> QED
    BY <2>1, <2>2, <2>3
<1> QED
  BY <1>1, <1>2, <1>4 DEF ReadersKept

(* A new event is out of the sight of all readers.                         *)
LEMMA ReadersWrite ==
    ASSUME RingInv, ReadersKept, WriteEvent
    PROVE  ReadersKept'
<1>1. /\ phase = "write" /\ phase' = "sync" /\ cur' = 1 /\ write_id' = write_id + 1
      /\ tail_ptr' = tail_ptr /\ tail_id' = tail_id
      /\ readers' = readers /\ read_ptr' = read_ptr /\ read_id' = read_id /\ heard' = heard
      /\ sent' = Append(sent, event) /\ place' = Append(place, write_ptr)
  BY DEF WriteEvent, tailVars, readVars
<1>2. /\ heard \in [Readers -> Seq(EventType)]
      /\ \A r \in Readers : heard[r] # <<>> => \E i \in DOMAIN readers : readers[i] = r
      /\ \A i, j \in DOMAIN readers : readers[i] = readers[j] => i = j
  BY DEF ReadersKept
<1>3. /\ tail_id \in Nat /\ write_id \in Nat /\ event \in EventType
      /\ readers \in Seq(Readers)
  BY Types DEF RingInv, TypeOK
<1>4. /\ sent \in Seq(EventType) /\ Len(sent) = write_id
      /\ place \in Seq(Words) /\ Len(place) = write_id /\ write_ptr \in Words
  BY Types DEF RingInv, Histories
<1>5. \A i \in 1..write_id : sent'[i] = sent[i] /\ place'[i] = place[i]
  BY <1>1, <1>3, <1>4
<1>6. ASSUME NEW i \in DOMAIN readers, NEW r \in Readers, readers[i] = r
      PROVE  ReaderKept(r)'
  <2>1. ReaderKept(r) /\ (heard[r] # <<>> => read_id[r] = write_id)
    BY <1>1, <1>6 DEF ReadersKept
  <2>2. CASE heard[r] = <<>>
    BY <1>1, <2>1, <2>2 DEF ReaderKept
  <2>3. CASE heard[r] # <<>>
    <3>1. /\ read_id[r] = write_id /\ write_id \in tail_id + 1..write_id
          /\ read_ptr[r] = place[write_id] + NEXT(sent[write_id])
          /\ Len(heard[r]) <= write_id
          /\ heard[r] = SubSeq(sent, write_id - Len(heard[r]) + 1, write_id)
      BY <2>1, <2>3 DEF ReaderKept
    <3>2. PICK a : a = write_id - Len(heard[r]) + 1
      OBVIOUS
    <3>3. Len(heard[r]) \in Nat /\ a \in Nat \ {0}
      BY <1>2, <1>3, <3>1, <3>2
    <3>4. SubSeq(sent', a, write_id) = SubSeq(sent, a, write_id)
      BY <1>1, <1>3, <1>4, <3>3, SubSeqOfAppend
    <3>5. sent'[write_id] = sent[write_id] /\ place'[write_id] = place[write_id]
      BY <1>3, <1>5, <3>1
    <3>6. write_id \in tail_id + 1..write_id + 1
      BY <1>3, <3>1
    <3> QED
      BY <1>1, <2>3, <3>1, <3>2, <3>4, <3>5, <3>6 DEF ReaderKept, NEXT
  <2> QED
    BY <2>2, <2>3
<1>7. \A i \in DOMAIN readers : ~ (i < 1)
  BY <1>3
<1> QED
  BY <1>1, <1>2, <1>6, <1>7 DEF ReadersKept

(* Where a reader starts, and the event that it finds there.               *)
LEMMA StartFinds ==
    ASSUME RingInv, NEW r \in Readers, ReaderKept(r)
    PROVE  LET at == ReaderStart(r)
           IN  /\ at.id \in tail_id..write_id
               /\ at.ptr \in 0..RingSize
               /\ IF heard[r] = <<>> THEN at.id = tail_id /\ at.ptr = tail_ptr
                                     ELSE at.id = read_id[r] /\ at.ptr = read_ptr[r]
               /\ at.id < write_id => EventAt(at.ptr) = place[at.id + 1]
<1> DEFINE at == ReaderStart(r)
<1>1. /\ tail_id \in Nat /\ write_id \in Nat /\ tail_id <= write_id
      /\ tail_ptr \in Words /\ tail_ptr \in 0..RingSize
      /\ read_id[r] \in 0..write_id /\ read_ptr[r] \in 0..RingSize
  BY Types, Word, Sizes DEF RingInv, TypeOK
<1>2. CASE heard[r] = <<>>
  <2>1. at.id = tail_id /\ at.ptr = tail_ptr
    BY <1>1, <1>2 DEF ReaderKept, ReaderStart
  <2>2. ASSUME tail_id < write_id
        PROVE  EventAt(tail_ptr) = place[tail_id + 1]
    <3>1. tail_ptr = place[tail_id + 1]
      BY <1>1, <2>2 DEF RingInv, TailKept
    <3>2. tail_id + 1 \in tail_id + 1..write_id /\ tail_id + 1 \in 1..write_id
      BY <1>1, <2>2
    <3>3. ring[tail_ptr] = sent[tail_id + 1]
      BY <3>1, <3>2 DEF RingInv, EventsKept
    <3>4. sent[tail_id + 1].length > 0
      BY <3>2 DEF RingInv, Histories
    <3>5. sent[tail_id + 1].length # 0
      BY <3>4
    <3> QED
      BY <3>1, <3>3, <3>5 DEF EventAt
  <2>3. tail_id \in tail_id..write_id
    BY <1>1
  <2> QED
    BY <1>1, <1>2, <2>1, <2>2, <2>3
<1>3. CASE heard[r] # <<>>
  <2>1. /\ read_id[r] \in tail_id + 1..write_id
        /\ read_ptr[r] = place[read_id[r]] + NEXT(sent[read_id[r]])
    BY <1>3 DEF ReaderKept
  <2>2. at.id = read_id[r] /\ at.ptr = read_ptr[r]
    BY <1>1, <2>1 DEF ReaderStart
  <2>3. ASSUME read_id[r] < write_id
        PROVE  EventAt(read_ptr[r]) = place[read_id[r] + 1]
    BY <2>1, <2>3, WalkFinds
  <2>4. read_id[r] \in tail_id..write_id
    BY <1>1, <2>1
  <2> QED
    BY <1>1, <1>3, <2>2, <2>3, <2>4
<1> QED
  BY <1>2, <1>3

(* The room behind an event is in the buffer.                              *)
LEMMA BehindEvent ==
    ASSUME RingInv, NEW k \in tail_id + 1..write_id
    PROVE  place[k] + NEXT(sent[k]) \in 0..RingSize
<1>1. PICK first, end : NewLap(first) /\ OldLap(first, end)
  BY DEF RingInv, Laps
<1>2. /\ place[k] \in Nat /\ NEXT(sent[k]) \in Nat
      /\ k < first => place[k] + NEXT(sent[k]) <= end /\ end \in Words
      /\ k >= first => place[k] + NEXT(sent[k]) <= write_ptr
  BY <1>1, Follows
<1>3. /\ first \in Nat /\ k \in Nat /\ write_ptr \in Nat /\ write_ptr < RingSize
      /\ RingSize \in Nat
  BY <1>1, Types, Word, Sizes DEF NewLap
<1>4. CASE k < first
  <2>1. end \in Nat /\ end < RingSize
    BY <1>2, <1>4, Word
  <2> QED
    BY <1>2, <1>3, <1>4, <2>1
<1>5. CASE k >= first
  BY <1>2, <1>3, <1>5
<1> QED
  BY <1>3, <1>4, <1>5

(* An iteration of sync_reader gives the reader the event that follows,    *)
(* or leaves a reader that has heard all for the next one.                 *)
LEMMA SyncStep ==
    ASSUME RingInv, ReadersKept, SyncReader
    PROVE  RingInv' /\ ReadersKept'
<1>1. /\ phase = "sync" /\ phase' = phase /\ event' = event
      /\ cur \in DOMAIN readers /\ readers' = readers
      /\ UNCHANGED <<tailVars, writeVars, logVars>>
  BY DEF SyncReader
<1>2. /\ tail_ptr' = tail_ptr /\ tail_id' = tail_id /\ write_id' = write_id
      /\ ring' = ring /\ write_ptr' = write_ptr /\ sent' = sent /\ place' = place
  BY <1>1 DEF tailVars, writeVars, logVars
<1>3. /\ tail_id \in Nat /\ write_id \in Nat /\ readers \in Seq(Readers)
      /\ cur \in 1..Len(readers) /\ readers[cur] \in Readers
      /\ read_ptr \in [Readers -> 0..RingSize] /\ read_id \in [Readers -> 0..write_id]
  BY <1>1, Types DEF RingInv, TypeOK
<1>4. PICK r \in Readers : r = readers[cur]
  BY <1>3
<1>5. /\ heard \in [Readers -> Seq(EventType)]
      /\ \A q \in Readers : heard[q] # <<>> => \E i \in DOMAIN readers : readers[i] = q
      /\ \A i, j \in DOMAIN readers : readers[i] = readers[j] => i = j
      /\ ReaderKept(r)
  BY <1>1, <1>4 DEF ReadersKept
<1>6. PICK at : at = ReaderStart(r)
  OBVIOUS
<1>7. /\ at.id \in tail_id..write_id /\ at.ptr \in 0..RingSize
      /\ IF heard[r] = <<>> THEN at.id = tail_id /\ at.ptr = tail_ptr
                            ELSE at.id = read_id[r] /\ at.ptr = read_ptr[r]
      /\ at.id < write_id => EventAt(at.ptr) = place[at.id + 1]
  BY <1>5, <1>6, StartFinds
<1>8. PICK k : k = at.id + 1
  OBVIOUS
<1>9. CASE at.id < write_id
  <2>1. k \in tail_id + 1..write_id /\ k \in 1..write_id /\ k - 1 = at.id
    <3>1. PICK id : id = at.id
      OBVIOUS
    <3>2. id \in tail_id..write_id /\ id < write_id /\ k = id + 1
      BY <1>7, <1>8, <1>9, <3>1
    <3>3. k \in tail_id + 1..write_id /\ k \in 1..write_id /\ k - 1 = id
      BY <1>3, <3>2
    <3> QED
      BY <3>1, <3>3
  <2>2. EventAt(at.ptr) = place[k] /\ ring[place[k]] = sent[k] /\ sent[k] \in EventType
    BY <1>7, <1>8, <1>9, <2>1, Types DEF RingInv, EventsKept
  <2>3. /\ read_ptr' = [read_ptr EXCEPT ![r] = place[k] + NEXT(sent[k])]
        /\ read_id' = [read_id EXCEPT ![r] = k]
        /\ heard' = [heard EXCEPT ![r] = Append(heard[r], sent[k])]
        /\ cur' = cur
    BY <1>4, <1>6, <1>8, <1>9, <2>2 DEF SyncReader
  <2>4. k \in 0..write_id /\ place[k] + NEXT(sent[k]) \in 0..RingSize
    BY <1>3, <2>1, BehindEvent
  <2>5. TypeOK'
    <3>1. read_ptr' \in [Readers -> 0..RingSize] /\ read_id' \in [Readers -> 0..write_id]
      BY <1>3, <2>3, <2>4
    <3> QED
      BY <1>1, <1>2, <2>3, <3>1 DEF RingInv, TypeOK, Words
  <2>6. RingInv'
    BY <1>1, <2>5, RingQuiet
  <2>7. heard' \in [Readers -> Seq(EventType)]
    BY <1>5, <2>2, <2>3
  <2>8. /\ read_ptr'[r] = place[k] + NEXT(sent[k]) /\ read_id'[r] = k
        /\ heard'[r] = Append(heard[r], sent[k])
    BY <1>3, <1>5, <2>3
  <2>9. \A q \in Readers : q # r =>
           read_ptr'[q] = read_ptr[q] /\ read_id'[q] = read_id[q] /\ heard'[q] = heard[q]
    BY <1>3, <1>5, <2>3
  <2>10. ReaderKept(r)'
    <3>1. sent \in Seq(EventType) /\ Len(sent) = write_id
      BY DEF RingInv, Histories
    <3>2. PICK n \in Nat : n = Len(heard[r])
      BY <1>5
    <3>3. heard'[r] # <<>> /\ Len(heard'[r]) = n + 1
      <4>1. PICK h \in Seq(EventType) : h = heard[r]
        BY <1>5
      <4>2. PICK e \in EventType : e = sent[k]
        BY <2>2
      <4>3. Append(h, e) # <<>> /\ Len(Append(h, e)) = Len(h) + 1
        BY <4>1, <4>2
      <4> QED
        BY <2>8, <3>2, <4>1, <4>2, <4>3
    <3>4. n + 1 <= k /\ heard[r] = SubSeq(sent, k - n, k - 1)
      <4>1. CASE heard[r] = <<>>
        <5>1. n = 0
          BY <3>2, <4>1
        <5> QED
          BY <2>1, <3>1, <4>1, <5>1
      <4>2. CASE heard[r] # <<>>
        <5>1. at.id = read_id[r]
          BY <1>7, <4>2
        <5>2. n <= read_id[r] /\ heard[r] = SubSeq(sent, read_id[r] - n + 1, read_id[r])
          BY <1>5, <3>2, <4>2 DEF ReaderKept
        <5>3. read_id[r] = k - 1 /\ read_id[r] - n + 1 = k - n
          BY <2>1, <5>1
        <5> QED
          BY <2>1, <5>2, <5>3
      <4> QED
        BY <4>1, <4>2
    <3>5. PICK a : a = k - n
      OBVIOUS
    <3>6. a \in Nat \ {0} /\ a = k - (n + 1) + 1 /\ k - 1 \in Nat /\ a <= k
      BY <2>1, <3>4, <3>5
    <3>7. Append(SubSeq(sent, a, k - 1), sent[k]) = SubSeq(sent, a, k)
      <4>1. PICK b \in Nat : b = k - 1
        BY <3>6
      <4>2. a <= b + 1 /\ b < Len(sent) /\ b + 1 = k
        BY <1>3, <2>1, <3>1, <3>6, <4>1
      <4>3. Append(SubSeq(sent, a, b), sent[b + 1]) = SubSeq(sent, a, b + 1)
        BY <3>1, <3>6, <4>2, SubSeqGrows
      <4> QED
        BY <4>1, <4>2, <4>3
    <3>8. heard'[r] = SubSeq(sent, k - (n + 1) + 1, k)
      BY <2>8, <3>4, <3>5, <3>6, <3>7
    <3> QED
      BY <1>2, <2>1, <2>8, <3>3, <3>4, <3>8 DEF ReaderKept, NEXT
  <2>11. ASSUME NEW i \in DOMAIN readers, NEW q \in Readers, readers[i] = q
         PROVE  /\ ReaderKept(q)'
                /\ heard'[q] # <<>> /\ i < cur => read_id'[q] = write_id
    <3>1. CASE q = r
      BY <1>1, <1>3, <1>4, <1>5, <2>10, <2>11, <3>1
    <3>2. CASE q # r
      <4>1. /\ ReaderKept(q)
            /\ heard[q] # <<>> /\ i < cur => read_id[q] = write_id
        BY <2>11 DEF ReadersKept
      <4>2. ReaderKept(q)'
        BY <1>2, <2>9, <3>2, <4>1 DEF ReaderKept, NEXT
      <4> QED
        BY <2>9, <3>2, <4>1, <4>2
    <3> QED
      BY <3>1, <3>2
  <2>12. \A q \in Readers : heard'[q] # <<>> => \E i \in DOMAIN readers : readers[i] = q
    BY <1>1, <1>4, <1>5, <2>9
  <2>13. ReadersKept'
    BY <1>1, <1>2, <1>5, <2>3, <2>7, <2>11, <2>12 DEF ReadersKept
  <2> QED
    BY <2>6, <2>13
<1>10. CASE ~ (at.id < write_id)
  <2>1. at.id = write_id
    BY <1>3, <1>7, <1>10
  <2>2. /\ read_ptr' = [read_ptr EXCEPT ![r] = at.ptr]
        /\ read_id' = [read_id EXCEPT ![r] = write_id]
        /\ heard' = heard /\ cur' = cur + 1
    BY <1>4, <1>6, <1>10, <2>1 DEF SyncReader
  <2>3. TypeOK'
    <3>1. read_ptr' \in [Readers -> 0..RingSize]
      BY <1>3, <1>7, <2>2
    <3>3. read_id' \in [Readers -> 0..write_id]
      BY <1>3, <1>7, <2>2
    <3>2. cur' \in 1..Len(readers) + 1
      BY <1>3, <2>2
    <3> QED
      BY <1>1, <1>2, <3>1, <3>2, <3>3 DEF RingInv, TypeOK, Words
  <2>4. RingInv'
    BY <1>1, <2>3, RingQuiet
  <2>5. read_ptr'[r] = at.ptr /\ read_id'[r] = write_id
    BY <1>3, <2>2
  <2>6. \A q \in Readers : q # r => read_ptr'[q] = read_ptr[q] /\ read_id'[q] = read_id[q]
    BY <1>3, <2>2
  <2>7. ReaderKept(r)'
    <3>1. CASE heard[r] = <<>>
      BY <1>2, <1>3, <1>7, <2>1, <2>2, <2>5, <3>1 DEF ReaderKept
    <3>2. CASE heard[r] # <<>>
      <4>1. read_id'[r] = read_id[r] /\ read_ptr'[r] = read_ptr[r]
        BY <1>7, <2>1, <2>5, <3>2
      <4> QED
        BY <1>2, <1>5, <2>2, <4>1 DEF ReaderKept, NEXT
    <3> QED
      BY <3>1, <3>2
  <2>8. ASSUME NEW i \in DOMAIN readers, NEW q \in Readers, readers[i] = q
        PROVE  /\ ReaderKept(q)'
               /\ heard[q] # <<>> /\ i < cur + 1 => read_id'[q] = write_id
    <3>1. CASE q = r
      BY <2>5, <2>7, <3>1
    <3>2. CASE q # r
      <4>1. /\ ReaderKept(q)
            /\ heard[q] # <<>> /\ i < cur => read_id[q] = write_id
        BY <2>8 DEF ReadersKept
      <4>2. ReaderKept(q)'
        BY <1>2, <2>2, <2>6, <3>2, <4>1 DEF ReaderKept, NEXT
      <4>3. i # cur /\ i \in Int
        BY <1>3, <1>4, <2>8, <3>2
      <4>4. i < cur + 1 => i < cur
        BY <1>3, <4>3
      <4> QED
        BY <2>6, <3>2, <4>1, <4>2, <4>4
    <3> QED
      BY <3>1, <3>2
  <2>9. ReadersKept'
    BY <1>1, <1>2, <1>5, <2>2, <2>8 DEF ReadersKept
  <2> QED
    BY <2>4, <2>9
<1> QED
  BY <1>9, <1>10

(* log_message and its return leave the readers where they are.            *)
LEMMA ReturnStep ==
    ASSUME RingInv, ReadersKept, Return
    PROVE  RingInv' /\ ReadersKept'
<1>1. /\ phase = "sync" /\ phase' = "idle" /\ event' = ZeroWord /\ cur' = 1
      /\ cur \notin DOMAIN readers /\ readers' = readers
      /\ UNCHANGED <<tailVars, writeVars, logVars>>
      /\ read_ptr' = read_ptr /\ read_id' = read_id /\ heard' = heard
  BY DEF Return, readVars
<1>2. /\ tail_ptr' = tail_ptr /\ tail_id' = tail_id /\ write_id' = write_id
      /\ ring' = ring /\ write_ptr' = write_ptr /\ sent' = sent /\ place' = place
  BY <1>1 DEF tailVars, writeVars, logVars
<1>3. ZeroWord \in EventType
  BY Sizes DEF ZeroWord, EventType
<1>4. readers \in Seq(Readers) /\ cur \in 1..Len(readers) + 1
  BY DEF RingInv, TypeOK
<1>5. TypeOK'
  <2>1. cur' \in 1..Len(readers) + 1
    BY <1>1, <1>4
  <2> QED
    BY <1>1, <1>2, <1>3, <2>1 DEF RingInv, TypeOK, Words
<1>6. RingInv'
  BY <1>1, <1>5, RingQuiet
<1>7. \A i \in DOMAIN readers : i < cur
  BY <1>1, <1>4
<1>8. ReadersKept'
  BY <1>1, <1>2, <1>7 DEF ReadersKept, ReaderKept, NEXT
<1> QED
  BY <1>6, <1>8

-----------------------------------------------------------------------------
LogInv == RingInv /\ ReadersKept

(* Nothing is logged yet, and nobody listens.                              *)
LEMMA InitLog ==
    ASSUME Init
    PROVE  LogInv
<1>1. /\ ring = [a \in Words |-> ZeroWord] /\ write_ptr = 0 /\ tail_ptr = 0
      /\ write_id = 0 /\ tail_id = 0 /\ readers = <<>>
      /\ read_ptr = [r \in Readers |-> 0] /\ read_id = [r \in Readers |-> 0]
      /\ phase = "idle" /\ event = ZeroWord /\ cur = 1
      /\ sent = <<>> /\ place = <<>> /\ offset = <<0>>
      /\ heard = [r \in Readers |-> <<>>]
  BY DEF Init
<1>2. ZeroWord \in EventType
  BY Sizes DEF ZeroWord, EventType
<1>3. RingSize \in Nat /\ RingSize > 0 /\ HeaderSize <= RingSize /\ HeaderSize \in Nat
  BY Sizes
<1>4. 0 \in Words
  BY <1>3, Sizes DEF Words
<1>5. TypeOK
  <2>1. ring \in [Words -> EventType]
    BY <1>1, <1>2
  <2>2. write_id \in 0..MaxLogs /\ tail_id \in 0..write_id /\ write_ptr \in 0..RingSize
    BY <1>1, <1>3, Sizes
  <2>3. readers \in Seq(Readers) /\ cur \in 1..Len(readers) + 1
    BY <1>1
  <2>4. read_ptr \in [Readers -> 0..RingSize] /\ read_id \in [Readers -> 0..write_id]
    BY <1>1, <1>3
  <2> QED
    BY <1>1, <1>2, <1>4, <2>1, <2>2, <2>3, <2>4 DEF TypeOK
<1>6. Histories
  <2>1. /\ sent \in Seq(EventType) /\ Len(sent) = 0 /\ place \in Seq(Words) /\ Len(place) = 0
        /\ offset \in Seq(Nat) /\ Len(offset) = 1
    BY <1>1
  <2> QED
    BY <1>1, <2>1 DEF Histories
<1>7. Laps
  <2>1. NewLap(1)
    BY <1>1 DEF NewLap
  <2>2. OldLap(1, 0)
    BY <1>1 DEF OldLap
  <2> QED
    BY <2>1, <2>2 DEF Laps
<1>8. EventsKept /\ TailKept /\ RetainsWhatFits
  BY <1>1 DEF EventsKept, TailKept, RetainsWhatFits
<1>9. RoomLeft
  BY <1>1, <1>3, <1>4 DEF RoomLeft
<1>10. ReadersKept
  BY <1>1 DEF ReadersKept
<1> QED
  BY <1>5, <1>6, <1>7, <1>8, <1>9, <1>10 DEF LogInv, RingInv

(* log_message begins.                                                     *)
LEMMA StartLogging ==
    ASSUME NoEmptyMessage, LogInv, NEW level \in LogLevels, NEW text \in Messages,
           LogMessage(level, text), Len(text) <= MaxLength, level <= 7
    PROVE  LogInv'
<1>1. RingInv /\ ReadersKept
  BY DEF LogInv
<1>2. RingInv'
  BY <1>1, LogMessageStep
<1>3. /\ phase = "idle" /\ tail_id' = tail_id /\ tail_ptr' = tail_ptr /\ write_id' = write_id
      /\ UNCHANGED <<readers, readVars, logVars>>
  BY DEF LogMessage, tailVars, writeVars
<1>4. tail_id' \in Nat /\ phase # "sync"
  BY <1>1, <1>3, Types
<1>5. phase' # "sync"
  BY DEF LogMessage
<1>6. ReadersKept'
  BY <1>1, <1>3, <1>4, <1>5, ReadersWait
<1> QED
  BY <1>2, <1>6 DEF LogInv

(* Every step preserves the invariant of the log.                          *)
LEMMA NextLog ==
    ASSUME NoEmptyMessage, LogInv, [Next]_vars
    PROVE  LogInv'
<1>1. RingInv /\ ReadersKept
  BY DEF LogInv
<1>2. LogLevels \subseteq Nat
  BY KernelLogAssumption
<1>3. ASSUME UNCHANGED vars
      PROVE  LogInv'
  <2>1. /\ UNCHANGED <<tailVars, writeVars, logVars>> /\ phase' = phase /\ event' = event
        /\ readers' = readers /\ cur' = cur
        /\ read_ptr' = read_ptr /\ read_id' = read_id /\ heard' = heard
    BY <1>3 DEF vars, readVars
  <2>2. /\ tail_ptr' = tail_ptr /\ tail_id' = tail_id /\ write_id' = write_id
        /\ ring' = ring /\ write_ptr' = write_ptr /\ sent' = sent /\ place' = place
    BY <2>1 DEF tailVars, writeVars, logVars
  <2>3. TypeOK'
    BY <1>1, <2>1, <2>2 DEF RingInv, TypeOK, Words
  <2>4. RingInv'
    BY <1>1, <2>1, <2>3, RingQuiet
  <2>5. ASSUME NEW r \in Readers
        PROVE  ReaderKept(r)' <=> ReaderKept(r)
    BY <2>1, <2>2 DEF ReaderKept, NEXT
  <2>6. ReadersKept'
    BY <1>1, <2>1, <2>2, <2>5 DEF ReadersKept
  <2> QED
    BY <2>4, <2>6 DEF LogInv
<1>4. ASSUME NEW r \in Readers, RegisterReader(r)
      PROVE  LogInv'
  BY <1>1, <1>4, RegisterStep DEF LogInv
<1>5. ASSUME NEW level \in LogLevels, NEW facility \in {0, 1}, NEW str \in Messages,
             Puts(level, facility, str)
      PROVE  LogInv'
  <2>1. CASE Len(str) > MaxLength \/ level > 7 \/ facility = 0
    BY <1>3, <1>5, <2>1 DEF Puts
  <2>2. CASE ~ (Len(str) > MaxLength \/ level > 7 \/ facility = 0)
    <3>1. LogMessage(level, str)
      BY <1>5, <2>2 DEF Puts
    <3>2. Len(str) <= MaxLength /\ level <= 7
      BY <1>2, <2>2, KernelLogAssumption
    <3> QED
      BY <3>1, <3>2, StartLogging
  <2> QED
    BY <2>1, <2>2
<1>6. ASSUME NEW level \in LogLevels \cap {0, 3, 4, 6}, NEW text \in Messages,
             KernelMessage(level, text)
      PROVE  LogInv'
  <2>1. LogMessage(level, text) /\ Len(text) <= MaxLength /\ level <= 7
    BY <1>6 DEF KernelMessage
  <2> QED
    BY <2>1, StartLogging
<1>7. CASE PushTail
  <2>1. RingInv' /\ tail_id' = tail_id + 1 /\ tail_id' < write_id
    BY <1>1, <1>7, PushTailStep
  <2>2. /\ phase # "sync" /\ phase' = phase /\ write_id' = write_id
        /\ UNCHANGED <<readers, readVars, logVars>>
    BY <1>7 DEF PushTail, writeVars
  <2>3. tail_id' \in Nat /\ tail_id' > tail_id
    BY <1>1, <2>1, Types
  <2>4. ReadersKept'
    BY <1>1, <2>1, <2>2, <2>3, ReadersWait
  <2> QED
    BY <2>1, <2>4 DEF LogInv
<1>8. CASE WriteTerminator
  <2>1. RingInv'
    BY <1>1, <1>8, TerminatorStep
  <2>2. /\ phase # "sync" /\ phase' # "sync" /\ write_id' = write_id
        /\ tail_id' = tail_id /\ tail_ptr' = tail_ptr
        /\ UNCHANGED <<readers, readVars, logVars>>
    BY <1>8 DEF WriteTerminator, tailVars
  <2>3. tail_id' \in Nat
    BY <1>1, <2>2, Types
  <2>4. ReadersKept'
    BY <1>1, <2>2, <2>3, ReadersWait
  <2> QED
    BY <2>1, <2>4 DEF LogInv
<1>9. CASE WriteEvent
  BY <1>1, <1>9, WriteEventStep, ReadersWrite DEF LogInv
<1>10. CASE SyncReader
  BY <1>1, <1>10, SyncStep DEF LogInv
<1>11. CASE Return
  BY <1>1, <1>11, ReturnStep DEF LogInv
<1> QED
  BY <1>3, <1>4, <1>5, <1>6, <1>7, <1>8, <1>9, <1>10, <1>11 DEF Next

(* The inductive invariant: the laps of the ring, the events in it, where  *)
(* its tail is, the room that is left, and where the readers are, at every *)
(* iteration of the loops of log_message.                                  *)
THEOREM LogInvHolds ==
    ASSUME NoEmptyMessage
    PROVE  Spec => []LogInv
<1>1. Init => LogInv
  BY InitLog
<1>2. LogInv /\ [Next]_vars => LogInv'
  BY NextLog
<1> QED
  BY <1>1, <1>2, PTL DEF Spec

(* The types.  The ids are bounded by write_id, so that push_tail and      *)
(* sync_reader end, and every pointer stays in the buffer.                 *)
THEOREM LogTypeCorrect ==
    ASSUME NoEmptyMessage
    PROVE  Spec => []TypeOK
<1>1. LogInv => TypeOK
  BY DEF LogInv, RingInv
<1> QED
  BY <1>1, LogInvHolds, PTL

(* What log_message writes, terminators and zero bytes included, never     *)
(* harms an event that the tail or a reader may still come to, and the     *)
(* walk from the tail finds these events one after the other.              *)
THEOREM RingCorrect ==
    ASSUME NoEmptyMessage
    PROVE  Spec => []RingHoldsTheLatest
<1>1. ASSUME LogInv
      PROVE  RingHoldsTheLatest
  <2>1. RingInv
    BY <1>1 DEF LogInv
  <2>2. ASSUME tail_id < write_id
        PROVE  EventAt(tail_ptr) = place[tail_id + 1]
    <3>1. tail_id \in Nat /\ write_id \in Nat
      BY <2>1, Types
    <3>2. tail_id + 1 \in tail_id + 1..write_id /\ tail_id + 1 \in 1..write_id
      BY <2>2, <3>1
    <3>3. tail_ptr = place[tail_id + 1] /\ ring[place[tail_id + 1]] = sent[tail_id + 1]
      BY <2>1, <2>2, <3>1, <3>2 DEF RingInv, TailKept, EventsKept
    <3>4. sent[tail_id + 1].length > 0
      BY <2>1, <3>2 DEF RingInv, Histories
    <3>5. sent[tail_id + 1].length # 0
      BY <3>4
    <3> QED
      BY <3>3, <3>5 DEF EventAt
  <2>3. ASSUME NEW i \in tail_id + 1..write_id
        PROVE  /\ ring[place[i]] = sent[i]
               /\ i < write_id => EventAt(place[i] + NEXT(sent[i])) = place[i + 1]
    <3>1. ring[place[i]] = sent[i]
      BY <2>1 DEF RingInv, EventsKept
    <3>2. i < write_id => EventAt(place[i] + NEXT(sent[i])) = place[i + 1]
      BY <2>1, WalkFinds
    <3> QED
      BY <3>1, <3>2
  <2> QED
    BY <2>2, <2>3 DEF RingHoldsTheLatest
<1> QED
  BY <1>1, LogInvHolds, PTL

(* push_tail drops an event only when the ring has no room for it.         *)
THEOREM RetentionCorrect ==
    ASSUME NoEmptyMessage
    PROVE  Spec => []RetainsWhatFits
<1>1. LogInv => RetainsWhatFits
  BY DEF LogInv, RingInv
<1> QED
  BY <1>1, LogInvHolds, PTL

(* sync_all_readers leaves every reader with an unbroken log that ends     *)
(* with the latest event.                                                  *)
THEOREM ReadersCorrect ==
    ASSUME NoEmptyMessage
    PROVE  Spec => []ReadersHearUnbrokenLog
<1>1. ASSUME LogInv
      PROVE  ReadersHearUnbrokenLog
  <2>1. RingInv /\ ReadersKept
    BY <1>1 DEF LogInv
  <2>2. SUFFICES ASSUME phase = "idle", NEW i \in DOMAIN readers, heard[readers[i]] # <<>>
                 PROVE  LET h == heard[readers[i]]
                            latest == SubSeq(sent, write_id - Len(h) + 1, write_id)
                        IN  /\ Len(h) <= write_id
                            /\ \A j \in DOMAIN h : latest[j].length > 0 => h[j] = latest[j]
                            /\ read_id[readers[i]] = write_id
    BY Zenon DEF ReadersHearUnbrokenLog
  <2>3. readers \in Seq(Readers)
    BY <2>1 DEF RingInv, TypeOK
  <2>4. PICK r \in Readers : r = readers[i]
    BY <2>2, <2>3
  <2>5. ReaderKept(r) /\ read_id[r] = write_id
    BY <2>1, <2>2, <2>4 DEF ReadersKept
  <2>6. /\ Len(heard[r]) <= write_id
        /\ heard[r] = SubSeq(sent, write_id - Len(heard[r]) + 1, write_id)
    BY <2>2, <2>4, <2>5 DEF ReaderKept
  <2> QED
    BY <2>4, <2>5, <2>6, Zenon
<1> QED
  BY <1>1, LogInvHolds, PTL
==============================================================================
