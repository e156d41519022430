--------------------------- MODULE SpinlockProofs ---------------------------
(***************************************************************************)
(* Proofs about the ticket lock, for every set of CPUs that is not larger  *)
(* than the number of values of half a lock word.                          *)
(***************************************************************************)
EXTENDS Spinlock, FiniteSetTheorems, TLAPS

(* Arithmetic of a half word: one more number served is one CPU less in    *)
(* line, and one more CPU in line is the next number.                      *)
LEMMA WrapInc ==
    ASSUME NEW s \in Half, NEW n \in Nat
    PROVE  /\ n < W => Wrap(s + (n + 1)) = Inc(Wrap(s + n))
           /\ 1 <= n /\ n <= W => Wrap(s + n) = Wrap(Inc(s) + (n - 1))
  BY SpinlockAssumption DEF Half, Wrap, Inc

(* A CPU that is about to take a ticket is not in line, so the line is     *)
(* shorter than the number of ticket values.                               *)
LEMMA RoomForOneMore ==
    ASSUME TicketInv, NEW c \in CPUs, pc[c] = "idle"
    PROVE  /\ Len(line) \in Nat
           /\ Len(line) < W
           /\ IsFiniteSet(InLine)
           /\ Cardinality(InLine \cup {c}) = Cardinality(InLine) + 1
<1>1. IsFiniteSet(InLine) /\ IsFiniteSet(CPUs)
  BY SpinlockAssumption, FS_Subset DEF InLine
<1>2. c \notin InLine
  BY DEF InLine
<1>3. Cardinality(InLine \cup {c}) = Cardinality(InLine) + 1
  BY <1>1, <1>2, FS_AddElement
<1>4. InLine \cup {c} \subseteq CPUs
  BY DEF InLine
<1>5. Cardinality(InLine \cup {c}) <= Cardinality(CPUs)
  BY <1>1, <1>4, FS_Subset
<1>6. Cardinality(CPUs) \in Nat /\ Cardinality(InLine) \in Nat
  BY <1>1, FS_CardinalityType
<1>7. Len(line) = Cardinality(InLine)
  BY DEF TicketInv, LineIsWaiting
<1> QED
  BY <1>1, <1>3, <1>5, <1>6, <1>7, SpinlockAssumption

(* Whoever has the lock, or may leave the polling loop, is at the head of  *)
(* the line: it is the only CPU whose ticket is being served.              *)
LEMMA ServedIsHead ==
    ASSUME TicketInv, NEW c \in CPUs, pc[c] # "idle", ticket[c] = serving
    PROVE  /\ Len(line) \in Nat
           /\ Len(line) >= 1
           /\ line[1] = c
<1>1. PICK i \in 1..Len(line) : line[i] = c
  BY DEF TicketInv, LineIsWaiting, InLine
<1>2. Len(line) \in Nat /\ Len(line) <= W
  <2>1. IsFiniteSet(CPUs) /\ InLine \subseteq CPUs
    BY SpinlockAssumption DEF InLine
  <2>2. Cardinality(InLine) <= Cardinality(CPUs)
    BY <2>1, FS_Subset
  <2>3. IsFiniteSet(InLine)
    BY <2>1, FS_Subset
  <2>4. Cardinality(CPUs) \in Nat /\ Cardinality(InLine) \in Nat
    BY <2>1, <2>3, FS_CardinalityType
  <2> QED
    BY <2>2, <2>4, SpinlockAssumption DEF TicketInv, LineIsWaiting
<1>3. serving = Wrap(serving + i - 1)
  BY <1>1 DEF TicketInv, TicketsConsecutive
<1>4. i = 1
  BY <1>1, <1>2, <1>3, SpinlockAssumption DEF Wrap, TicketInv, TypeOK, Half
<1> QED
  BY <1>1, <1>2, <1>4

(* The initial lock word, zero, satisfies the ticket invariant.            *)
LEMMA TicketInvInit == Init => TicketInv
<1> SUFFICES ASSUME Init PROVE TicketInv
  OBVIOUS
<1>1. TypeOK
  BY SpinlockAssumption DEF Init, TypeOK, Half
<1>2. InLine = {}
  BY DEF Init, InLine
<1>3. LineIsWaiting
  BY <1>2, FS_EmptySet DEF Init, LineIsWaiting
<1>4. TicketsConsecutive /\ HolderIsServed
  BY SpinlockAssumption DEF Init, TicketsConsecutive, HolderIsServed, HasLock, Wrap
<1> QED
  BY <1>1, <1>3, <1>4 DEF TicketInv

(* The locked xadd of spin_lock preserves the ticket invariant.            *)
LEMMA TakeTicketStep ==
    ASSUME TicketInv, NEW c \in CPUs, TakeTicket(c)
    PROVE  TicketInv'
<1> USE DEF TakeTicket
<1>1. TypeOK'
  BY SpinlockAssumption DEF TicketInv, TypeOK, Half, Inc
<1>2. /\ Len(line) \in Nat /\ Len(line) < W
      /\ Cardinality(InLine \cup {c}) = Cardinality(InLine) + 1
  BY RoomForOneMore, SMTT(30)
<1>3. InLine' = InLine \cup {c}
  BY DEF TicketInv, TypeOK, InLine
<1>4. /\ Len(line') = Len(line) + 1
      /\ \A i \in 1..Len(line) : line'[i] = line[i]
      /\ line'[Len(line) + 1] = c
  BY DEF TicketInv, TypeOK
<1>5. \A i \in 1..Len(line) : line[i] \in InLine /\ line[i] # c
  BY DEF TicketInv, LineIsWaiting, InLine
<1>6. LineIsWaiting'
  <2>1. \A i \in 1..Len(line') : line'[i] \in InLine'
    BY <1>2, <1>3, <1>4, <1>5
  <2>2. \A d \in InLine' : \E i \in 1..Len(line') : line'[i] = d
    <3> SUFFICES ASSUME NEW d \in InLine'
                 PROVE \E i \in 1..Len(line') : line'[i] = d
      OBVIOUS
    <3>1. CASE d = c
      BY <3>1, <1>2, <1>4
    <3>2. CASE d # c
      <4>1. PICK i \in 1..Len(line) : line[i] = d
        BY <3>2, <1>3 DEF TicketInv, LineIsWaiting
      <4> QED
        BY <4>1, <1>2, <1>4
    <3> QED
      BY <3>1, <3>2
  <2>3. \A i, j \in 1..Len(line') : line'[i] = line'[j] => i = j
    BY <1>2, <1>4, <1>5 DEF TicketInv, LineIsWaiting
  <2>4. Len(line') = Cardinality(InLine')
    BY <1>2, <1>3, <1>4 DEF TicketInv, LineIsWaiting
  <2> QED
    BY <2>1, <2>2, <2>3, <2>4 DEF LineIsWaiting
<1>7. TicketsConsecutive'
  <2>1. \A i \in 1..Len(line) : ticket'[line[i]] = ticket[line[i]]
    BY <1>5 DEF TicketInv, TypeOK
  <2>2. ticket'[c] = next
    BY DEF TicketInv, TypeOK
  <2>3. \A i \in 1..Len(line') : ticket'[line'[i]] = Wrap(serving + i - 1)
    BY <1>2, <1>4, <2>1, <2>2, SpinlockAssumption, SMTT(30)
       DEF TicketInv, TicketsConsecutive, TypeOK, Half, Wrap
  <2>4. next' = Wrap(serving + Len(line'))
    BY <1>2, <1>4, WrapInc DEF TicketInv, TicketsConsecutive, TypeOK
  <2> QED
    BY <2>3, <2>4 DEF TicketsConsecutive, Wrap
<1>8. HolderIsServed'
  BY DEF TicketInv, TypeOK, HolderIsServed, HasLock
<1> QED
  BY <1>1, <1>6, <1>7, <1>8 DEF TicketInv

(* Leaving the polling loop preserves the ticket invariant.                *)
LEMMA LeaveLoopStep ==
    ASSUME TicketInv, NEW c \in CPUs, LeaveLoop(c)
    PROVE  TicketInv'
<1> USE DEF LeaveLoop
<1>1. TypeOK' /\ InLine' = InLine
  BY DEF TicketInv, TypeOK, InLine
<1>2. LineIsWaiting'
  BY <1>1 DEF TicketInv, LineIsWaiting
<1>3. TicketsConsecutive'
  BY DEF TicketInv, TicketsConsecutive, Wrap
<1>4. HolderIsServed'
  BY DEF TicketInv, TypeOK, HolderIsServed, HasLock
<1> QED
  BY <1>1, <1>2, <1>3, <1>4 DEF TicketInv

(* The read half of the unlock preserves the ticket invariant.             *)
LEMMA UnlockReadStep ==
    ASSUME TicketInv, NEW c \in CPUs, UnlockRead(c)
    PROVE  TicketInv'
<1> USE DEF UnlockRead
<1>1. TypeOK' /\ InLine' = InLine
  BY DEF TicketInv, TypeOK, InLine
<1>2. LineIsWaiting'
  BY <1>1 DEF TicketInv, LineIsWaiting
<1>3. TicketsConsecutive'
  BY DEF TicketInv, TicketsConsecutive, Wrap
<1>4. HolderIsServed'
  BY DEF TicketInv, TypeOK, HolderIsServed, HasLock
<1> QED
  BY <1>1, <1>2, <1>3, <1>4 DEF TicketInv

(* The write half of the unlock preserves the ticket invariant: what it    *)
(* stores is one more than the number being served, because only the CPU   *)
(* at the head of the line writes the low half.                            *)
LEMMA UnlockWriteStep ==
    ASSUME TicketInv, NEW c \in CPUs, UnlockWrite(c)
    PROVE  TicketInv'
<1> USE DEF UnlockWrite
<1>1. ticket[c] = serving /\ read[c] = serving /\ pc[c] # "idle"
  BY DEF TicketInv, HolderIsServed, HasLock
<1>2. Len(line) \in Nat /\ Len(line) >= 1 /\ line[1] = c
  BY <1>1, ServedIsHead
<1>3. TypeOK'
  BY <1>2, SpinlockAssumption DEF TicketInv, TypeOK, Half, Inc
<1>4. InLine' = InLine \ {c} /\ c \in InLine
  BY <1>1 DEF TicketInv, TypeOK, InLine
<1>5. /\ Len(line') = Len(line) - 1
      /\ \A i \in 1..Len(line') : line'[i] = line[i + 1]
  BY <1>2 DEF TicketInv, TypeOK
<1>6. \A i \in 1..Len(line') : line[i + 1] # c
  BY <1>2, <1>5 DEF TicketInv, LineIsWaiting
<1>7. LineIsWaiting'
  <2>1. \A i \in 1..Len(line') : line'[i] \in InLine'
    BY <1>2, <1>4, <1>5, <1>6 DEF TicketInv, LineIsWaiting
  <2>2. \A d \in InLine' : \E i \in 1..Len(line') : line'[i] = d
    <3> SUFFICES ASSUME NEW d \in InLine'
                 PROVE \E i \in 1..Len(line') : line'[i] = d
      OBVIOUS
    <3>1. PICK i \in 1..Len(line) : line[i] = d
      BY <1>4 DEF TicketInv, LineIsWaiting
    <3>2. i # 1
      BY <3>1, <1>2, <1>4
    <3>3. i - 1 \in 1..Len(line') /\ line'[i - 1] = d
      BY <3>1, <3>2, <1>2, <1>5
    <3> QED
      BY <3>3
  <2>3. \A i, j \in 1..Len(line') : line'[i] = line'[j] => i = j
    BY <1>2, <1>5 DEF TicketInv, LineIsWaiting
  <2>4. Len(line') = Cardinality(InLine')
    <3>1. IsFiniteSet(InLine)
      BY SpinlockAssumption, FS_Subset DEF InLine
    <3>2. Cardinality(InLine \ {c}) = Cardinality(InLine) - 1
      BY <3>1, <1>4, FS_RemoveElement
    <3> QED
      BY <3>2, <1>4, <1>5 DEF TicketInv, LineIsWaiting
  <2> QED
    BY <2>1, <2>2, <2>3, <2>4 DEF LineIsWaiting
<1>8. serving' = Inc(serving)
  BY <1>1
<1>9. TicketsConsecutive'
  <2>1. \A i \in 1..Len(line') : ticket[line'[i]] = Wrap(serving + i)
    <3> SUFFICES ASSUME NEW i \in 1..Len(line')
                 PROVE ticket[line'[i]] = Wrap(serving + i)
      OBVIOUS
    <3>1. i + 1 \in 1..Len(line) /\ line'[i] = line[i + 1]
      BY <1>2, <1>5
    <3>2. ticket[line[i + 1]] = Wrap(serving + (i + 1) - 1)
      BY <3>1 DEF TicketInv, TicketsConsecutive
    <3>3. serving + (i + 1) - 1 = serving + i
      BY <1>2, <1>5 DEF TicketInv, TypeOK, Half
    <3> QED
      BY <3>1, <3>2, <3>3
  <2>2. Len(line) <= W
    <3>1. IsFiniteSet(CPUs) /\ InLine \subseteq CPUs
      BY SpinlockAssumption DEF InLine
    <3>2. IsFiniteSet(InLine) /\ Cardinality(InLine) <= Cardinality(CPUs)
      BY <3>1, FS_Subset
    <3>3. Cardinality(CPUs) \in Nat /\ Cardinality(InLine) \in Nat
      BY <3>1, <3>2, FS_CardinalityType
    <3> QED
      BY <3>2, <3>3, SpinlockAssumption DEF TicketInv, LineIsWaiting
  <2>3. \A i \in 1..Len(line') : Wrap(serving + i) = Wrap(serving' + i - 1)
    <3> SUFFICES ASSUME NEW i \in 1..Len(line')
                 PROVE Wrap(serving + i) = Wrap(serving' + i - 1)
      OBVIOUS
    <3>1. i \in Nat /\ 1 <= i /\ i <= W /\ W \in Nat
      BY <1>2, <1>5, <2>2, SpinlockAssumption
    <3>2. Wrap(serving + i) = Wrap(serving' + (i - 1))
      BY <3>1, <1>8, WrapInc DEF TicketInv, TypeOK
    <3>3. serving' + (i - 1) = serving' + i - 1
      BY <3>1, <1>3 DEF TypeOK, Half
    <3> QED
      BY <3>2, <3>3
  <2>4. next' = Wrap(serving' + Len(line'))
    <3>1. Wrap(serving + Len(line)) = Wrap(serving' + (Len(line) - 1))
      BY <1>2, <1>8, <2>2, WrapInc DEF TicketInv, TypeOK
    <3> QED
      BY <3>1, <1>5 DEF TicketInv, TicketsConsecutive
  <2> QED
    BY <2>1, <2>3, <2>4 DEF TicketsConsecutive, Wrap
<1>10. HolderIsServed'
  <2>1. \A d \in CPUs : HasLock(d) => d = c
    BY <1>2, ServedIsHead DEF HasLock, TicketInv, HolderIsServed
  <2> QED
    BY <2>1 DEF TicketInv, TypeOK, HolderIsServed, HasLock
<1> QED
  BY <1>3, <1>7, <1>9, <1>10 DEF TicketInv

(* The ticket invariant holds of every behaviour of the lock.              *)
THEOREM TicketInvariant == Spec => []TicketInv
<1>1. TicketInv /\ [Next]_vars => TicketInv'
  <2> SUFFICES ASSUME TicketInv, [Next]_vars PROVE TicketInv'
    OBVIOUS
  <2>1. ASSUME NEW c \in CPUs, TakeTicket(c) PROVE TicketInv'
    BY <2>1, TakeTicketStep
  <2>2. ASSUME NEW c \in CPUs, LeaveLoop(c) PROVE TicketInv'
    BY <2>2, LeaveLoopStep
  <2>3. ASSUME NEW c \in CPUs, UnlockRead(c) PROVE TicketInv'
    BY <2>3, UnlockReadStep
  <2>4. ASSUME NEW c \in CPUs, UnlockWrite(c) PROVE TicketInv'
    BY <2>4, UnlockWriteStep
  <2>5. CASE UNCHANGED vars
    BY <2>5, SMTT(30) DEF vars, TicketInv, TypeOK, LineIsWaiting, InLine,
       TicketsConsecutive, HolderIsServed, HasLock, Wrap
  <2> QED
    BY <2>1, <2>2, <2>3, <2>4, <2>5 DEF Next
<1> QED
  BY TicketInvInit, <1>1, PTL DEF Spec

(* No two CPUs ever have the lock, whatever W is as long as there are not  *)
(* more CPUs than ticket values.                                           *)
THEOREM TicketMutualExclusion == Spec => []MutualExclusion
<1>1. TicketInv => MutualExclusion
  <2> SUFFICES ASSUME TicketInv, NEW c \in CPUs, NEW d \in CPUs,
                      HasLock(c), HasLock(d)
               PROVE c = d
    BY DEF MutualExclusion
  <2>1. line[1] = c
    BY ServedIsHead DEF HasLock, TicketInv, HolderIsServed
  <2>2. line[1] = d
    BY ServedIsHead DEF HasLock, TicketInv, HolderIsServed
  <2> QED
    BY <2>1, <2>2
<1> QED
  BY TicketInvariant, <1>1, PTL

(* The ticket lock implements the abstract FIFO lock: an xadd is a request *)
(* at the end of the line, leaving the loop is the grant, the write of the *)
(* unlock is the release, and the read half of the unlock is invisible.    *)
THEOREM TicketLockIsFifo == Spec => ImplementsFifoLock
<1> DEFINE Held == {c \in CPUs : HasLock(c)}
<1>1. Init => Fifo!Init
  BY DEF Init, Fifo!Init, HasLock
<1>2. TicketInv /\ TicketInv' /\ [Next]_vars => [Fifo!Next]_Fifo!vars
  <2> SUFFICES ASSUME TicketInv, TicketInv', [Next]_vars
               PROVE [Fifo!Next]_Fifo!vars
    OBVIOUS
  <2>1. ASSUME NEW c \in CPUs, TakeTicket(c) PROVE Fifo!Ask(c)
    <3>1. ~Fifo!InLine(c)
      BY <2>1, SMTT(30) DEF TakeTicket, Fifo!InLine, TicketInv, LineIsWaiting, InLine
    <3>2. Held' = Held
      BY <2>1 DEF TakeTicket, HasLock, TicketInv, TypeOK
    <3> QED
      BY <2>1, <3>1, <3>2 DEF TakeTicket, Fifo!Ask
  <2>2. ASSUME NEW c \in CPUs, LeaveLoop(c) PROVE Fifo!Grant
    <3>1. line[1] = c /\ Len(line) \in Nat /\ Len(line) >= 1
      BY <2>2, ServedIsHead DEF LeaveLoop
    <3>2. line # <<>>
      BY <3>1
    <3>3. Held = {}
      <4> SUFFICES ASSUME NEW d \in CPUs, HasLock(d) PROVE FALSE
        OBVIOUS
      <4>1. line[1] = d
        BY ServedIsHead DEF HasLock, TicketInv, HolderIsServed
      <4> QED
        BY <4>1, <3>1, <2>2 DEF LeaveLoop, HasLock
    <3>4. Held' = {c} /\ Head(line) = c
      BY <2>2, <3>1, <3>3 DEF LeaveLoop, HasLock, TicketInv, TypeOK
    <3> QED
      BY <2>2, <3>2, <3>3, <3>4 DEF LeaveLoop, Fifo!Grant
  <2>3. ASSUME NEW c \in CPUs, UnlockRead(c) PROVE UNCHANGED Fifo!vars
    <3>1. Held' = Held
      BY <2>3 DEF UnlockRead, HasLock, TicketInv, TypeOK
    <3> QED
      BY <2>3, <3>1 DEF UnlockRead, Fifo!vars
  <2>4. ASSUME NEW c \in CPUs, UnlockWrite(c) PROVE Fifo!Release
    <3>1. Held # {}
      BY <2>4 DEF UnlockWrite, HasLock
    <3>2. Held' = {}
      <4> SUFFICES ASSUME NEW d \in CPUs, HasLock(d)' PROVE FALSE
        OBVIOUS
      <4>1. HasLock(d) /\ d # c
        BY <2>4 DEF UnlockWrite, HasLock, TicketInv, TypeOK
      <4>2. line[1] = d
        BY <4>1, ServedIsHead DEF HasLock, TicketInv, HolderIsServed
      <4>3. line[1] = c
        BY <2>4, ServedIsHead DEF UnlockWrite, HasLock, TicketInv, HolderIsServed
      <4> QED
        BY <4>1, <4>2, <4>3
    <3> QED
      BY <2>4, <3>1, <3>2 DEF UnlockWrite, Fifo!Release
  <2>5. CASE UNCHANGED vars
    BY <2>5 DEF vars, Fifo!vars, HasLock
  <2> QED
    BY <2>1, <2>2, <2>3, <2>4, <2>5 DEF Next, Fifo!Next
<1> QED
  BY <1>1, <1>2, TicketInvariant, PTL DEF Spec, ImplementsFifoLock, Fifo!Spec
=============================================================================
