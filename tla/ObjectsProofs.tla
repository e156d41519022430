--------------------------- MODULE ObjectsProofs ----------------------------
(***************************************************************************)
(* The destruction of kernel objects and of processes preserves the        *)
(* invariant of ObjectsCallProofs, which holds for any number of           *)
(* processes, threads, endpoints and descriptors when applications do not  *)
(* start threads of a process that was destroyed; and what follows from    *)
(* it.                                                                     *)
(***************************************************************************)
EXTENDS ObjectsCallProofs
-----------------------------------------------------------------------------
(* The tables give up references to the given calls: none, or those of a   *)
(* process that is being destroyed.                                        *)
MovesTo(calls) ==
    /\ calls \in Seq(Calls)
    /\ \A i \in 1..Len(calls) : calls[i].op \in {"close", "skip"}
    /\ \A x \in Objects :
         Cardinality(Slots(Tables, Refers(x))) =
           Cardinality(Slots(Tables', Refers(x))) + Cardinality(Positions(calls, DropCalls(x)))
    /\ \A e \in Endpoints :
         Cardinality(Slots(Tables, Receives(e))) =
           Cardinality(Slots(Tables', Receives(e))) + Cardinality(Positions(calls, CloseCalls(e)))
    /\ TablesOK'

(* A step that leaves the tables alone moves no reference.                 *)
LEMMA MovesNothing ==
    ASSUME ObjectsInv, Tables' = Tables
    PROVE  MovesTo(<<>>)
<1>1. <<>> \in Seq(Calls) /\ 1..Len(<<>>) = {}
  OBVIOUS
<1>2. \A C : Cardinality(Positions(<<>>, C)) = 0
  BY PositionsEmpty
<1>3. \A D : Slots(Tables', D) = Slots(Tables, D) /\ Cardinality(Slots(Tables, D)) \in Nat
  BY SlotsFinite
<1>4. TablesOK'
  BY DEF ObjectsInv, TablesOK
<1> QED
  BY <1>1, <1>2, <1>3, <1>4 DEF MovesTo

(* object_destroy of a process.                                            *)
LEMMA MovesTable ==
    ASSUME ObjectsInv, NEW p \in Processes, p \in live, ~destroyed[p],
           Cleared(Tables, Tables', p)
    PROVE  MovesTo(CloseDescriptors(p))
<1>1. /\ Tables \in TableType /\ desc[p] = Tables[p] /\ p \in Objects
      /\ \A o : FreeDesc \notin Refers(o) /\ FreeDesc \notin Receives(o)
  BY Types DEF ObjectsInv, Tables, Table, Objects
<1>2. ASSUME NEW d \in Descriptors, NEW o \in Objects
      PROVE  /\ CloseDescriptor(p, d) \in DropCalls(o) <=> d \in Refers(o)
             /\ CloseDescriptor(p, d) \in CloseCalls(o) <=> d \in Receives(o)
  BY <1>1 DEF CloseDescriptor, Call, Calls, Descriptors, DropCalls, CloseCalls, Refers, Receives
<1>3. /\ CloseDescriptors(p) \in Seq(Calls)
      /\ \A i \in 1..Len(CloseDescriptors(p)) : CloseDescriptors(p)[i].op \in {"close", "skip"}
  <2>1. ASSUME NEW i \in 1..DescNum
        PROVE  /\ CloseDescriptor(p, desc[p][DescNum - i]) \in Calls
               /\ CloseDescriptor(p, desc[p][DescNum - i]).op \in {"close", "skip"}
    <3> DEFINE d == desc[p][DescNum - i]
    <3>1. DescNum - i \in Fds
      BY ObjectsAssumption DEF Fds
    <3>2. d \in Descriptors /\ (d.state = "open" => d.object \in Objects)
      BY <1>1, <3>1 DEF ObjectsInv, TablesOK, TableType
    <3> HIDE DEF d
    <3>3. CloseDescriptor(p, d) \in Calls /\ CloseDescriptor(p, d).op \in {"close", "skip"}
      BY <1>1, <3>2 DEF CloseDescriptor, Call, Calls, Descriptors
    <3> QED
      BY <3>3 DEF d
  <2>2. DescNum \in Nat
    BY ObjectsAssumption
  <2> QED
    BY <2>1, <2>2 DEF CloseDescriptors
<1>4. ASSUME NEW o \in Objects
      PROVE  /\ Cardinality(Slots(Tables, Refers(o))) =
                  Cardinality(Slots(Tables', Refers(o)))
                    + Cardinality(Positions(CloseDescriptors(p), DropCalls(o)))
             /\ Cardinality(Slots(Tables, Receives(o))) =
                  Cardinality(Slots(Tables', Receives(o)))
                    + Cardinality(Positions(CloseDescriptors(p), CloseCalls(o)))
  BY <1>1, <1>2, SlotsCleared
<1>5. TablesOK'
  <2>1. \A q \in Processes, fd \in Fds :
          Tables'[q][fd].state = "open" => Tables'[q][fd] = Tables[q][fd]
    BY DEF Cleared, FreeDesc
  <2>2. ASSUME NEW q \in Processes, NEW e \in Fds, Tables'[q][e].state = "open"
        PROVE  /\ Tables'[q][e].object \in Objects
               /\ Tables'[q][e].perms \subseteq AllPerms(Tables'[q][e].object)
    BY <2>1, <2>2 DEF ObjectsInv, TablesOK
  <2>3. ASSUME NEW a \in Processes \X Fds, NEW b \in Processes \X Fds,
               Tables'[a[1]][a[2]].state = "open", Tables'[a[1]][a[2]].owner,
               Tables'[b[1]][b[2]].state = "open", Tables'[b[1]][b[2]].owner,
               Tables'[a[1]][a[2]].object = Tables'[b[1]][b[2]].object
        PROVE  a = b
    <3>1. /\ a[1] \in Processes /\ a[2] \in Fds
          /\ b[1] \in Processes /\ b[2] \in Fds
      OBVIOUS
    <3>2. /\ Tables'[a[1]][a[2]] = Tables[a[1]][a[2]]
          /\ Tables'[b[1]][b[2]] = Tables[b[1]][b[2]]
      BY <2>1, <2>3, <3>1
    <3> QED
      BY <2>3, <3>2 DEF ObjectsInv, TablesOK
  <2> QED
    BY <2>2, <2>3 DEF TablesOK
<1> QED
  BY <1>3, <1>4, <1>5 DEF MovesTo, Objects

(* object_destroy of any object.                                           *)
LEMMA DestroyMoves ==
    ASSUME ObjectsInv, NEW o \in Objects, o \in live, live' = live, desc' = desc,
           destroyed'[o], \A q \in Objects : q # o => destroyed'[q] = destroyed[q]
    PROVE  MovesTo(DestroyCalls(o))
<1>1. Processes \subseteq Objects /\ TypeOK
  BY DEF Objects, ObjectsInv
<1>2. CASE o \in Processes /\ ~destroyed[o]
  <2>1. Cleared(Tables, Tables', o)
    <3>1. ASSUME NEW q \in Processes, NEW fd \in Fds
          PROVE  Tables'[q][fd] = IF q = o THEN FreeDesc ELSE Tables[q][fd]
      BY <1>1, <1>2 DEF Tables, Table
    <3> QED
      BY <3>1 DEF Cleared
  <2> QED
    BY <1>2, <2>1, MovesTable DEF DestroyCalls
<1>3. CASE o \notin Processes \/ destroyed[o]
  <2>1. \A q \in Processes : destroyed'[q] = destroyed[q]
    BY <1>1, <1>3, Zenon DEF TypeOK
  <2>2. Tables' = Tables
    BY <1>1, <2>1, SameTables
  <2> QED
    BY <1>3, <2>2, MovesNothing DEF DestroyCalls
<1> QED
  BY <1>2, <1>3

(* EXIT_THREAD.  The calls in progress drop the references to the thread   *)
(* and its process; with the last thread the process is destroyed.         *)
LEMMA ExitStep ==
    ASSUME ObjectsInv, NEW t \in Threads, Exit(t)
    PROVE  ObjectsInv'
<1> DEFINE p == process[t]
           last == running[p] <= 1
           calls == IF last THEN DestroyCalls(p) ELSE <<>>
           ct == Call("unref", t, {})
           cp == Call("unref", p, {})
<1>1. TypeOK /\ work = <<>> /\ \A o \in live : refs[o] \in Nat /\ refs[o] > 0
  BY Caller DEF ObjectsInv, Exit
<1>2. /\ t \in live /\ p \in Processes /\ p \in live /\ ~destroyed[p]
  BY Caller DEF Exit
<1>3. t \in Objects /\ p \in Objects /\ p # t /\ t \notin Processes
  BY <1>2, ObjectsAssumption DEF Objects
<1>4. /\ t \in runs
      /\ runs' = runs \ {t}
      /\ running' = [running EXCEPT ![p] = @ - 1]
      /\ destroyed' = [destroyed EXCEPT ![p] = @ \/ last]
      /\ work' = <<ct, cp>> \o calls
      /\ UNCHANGED <<live, refs, receivers, desc, process, holds>>
  BY DEF Exit, Calling
<1>5. /\ ct \in Calls /\ ct.op = "unref" /\ ct.object = t
      /\ cp \in Calls /\ cp.op = "unref" /\ cp.object = p
  BY <1>3 DEF Call, Calls
<1>6. /\ \A o : ct \in DropCalls(o) <=> o = t
      /\ \A o : cp \in DropCalls(o) <=> o = p
      /\ \A o : ct \notin CloseCalls(o) /\ cp \notin CloseCalls(o)
  BY <1>5 DEF DropCalls, CloseCalls
<1>7. /\ t \in RunsOf(p) /\ IsFiniteSet(RunsOf(p)) /\ running[p] = Cardinality(RunsOf(p))
      /\ running[p] \in Nat /\ running[p] >= 1
  <2>1. t \in RunsOf(p)
    BY <1>4 DEF RunsOf
  <2>2. IsFiniteSet(RunsOf(p))
    BY <1>1, Types
  <2>3. running[p] = Cardinality(RunsOf(p))
    BY <1>2 DEF ObjectsInv, RunningCounted
  <2> QED
    BY <2>1, <2>2, <2>3, NonEmptyCounts
<1> HIDE DEF p, last, calls, ct, cp
<1>8. /\ destroyed' \in [Objects -> BOOLEAN]
      /\ \A o \in Objects : o # p => destroyed'[o] = destroyed[o]
      /\ destroyed'[p] <=> last
  BY <1>1, <1>2, <1>3, <1>4, Zenon DEF TypeOK, last
<1>9. /\ running' \in [Processes -> Nat]
      /\ \A q \in Processes : running'[q] = IF q = p THEN running[q] - 1 ELSE running[q]
  BY <1>1, <1>2, <1>4, <1>7 DEF TypeOK
<1>10. MovesTo(calls)
  <2>1. CASE last
    <3>1. live' = live /\ desc' = desc /\ destroyed'[p]
      BY <1>4, <1>8, <2>1
    <3>2. MovesTo(DestroyCalls(p))
      BY <1>2, <1>3, <1>8, <3>1, DestroyMoves
    <3> QED
      BY <2>1, <3>2 DEF calls
  <2>2. CASE ~last
    <3>1. \A q \in Processes : q \in Objects
      BY DEF Objects
    <3>2. \A q \in Processes : destroyed'[q] = destroyed[q]
      BY <1>1, <1>2, <1>8, <2>2, <3>1 DEF TypeOK
    <3>3. Tables' = Tables
      BY <1>1, <1>4, <3>2, SameTables
    <3> QED
      BY <2>2, <3>3, MovesNothing DEF calls
  <2> QED
    BY <2>1, <2>2
<1>11. calls \in Seq(Calls) /\ \A i \in 1..Len(calls) : calls[i].op \in {"close", "skip"}
  BY <1>10 DEF MovesTo
<1>12. <<ct, cp>> \in Seq(Calls)
  <2>1. ct \in Calls /\ cp \in Calls
    BY <1>5
  <2> QED
    BY <2>1
<1>13. TypeOK'
  <2>1. work' \in Seq(Calls)
    BY <1>4, <1>11, <1>12
  <2> QED
    BY <1>1, <1>4, <1>8, <1>9, <2>1 DEF TypeOK
<1>14. \A o \in Objects : Blocked(o)' = Blocked(o)
         /\ RunsOf(o) = IF o = t \/ o = p THEN RunsOf(o)' \cup {t} ELSE RunsOf(o)'
  BY <1>4 DEF Blocked, RunsOf, p
<1>15. \A o \in Objects : Cardinality(RunsOf(o)') \in Nat /\ Cardinality(RunsOf(o)) =
         IF o = t \/ o = p THEN Cardinality(RunsOf(o)') + 1 ELSE Cardinality(RunsOf(o)')
  <2>1. ASSUME NEW o \in Objects
        PROVE  /\ Cardinality(RunsOf(o)') \in Nat
               /\ Cardinality(RunsOf(o)' \cup {t}) = Cardinality(RunsOf(o)') + 1
    <3>1. IsFiniteSet(RunsOf(o)')
      <4>1. RunsOf(o)' \in SUBSET RunsOf(o) /\ IsFiniteSet(RunsOf(o))
        BY <1>1, <1>14, Types
      <4> QED
        BY <4>1, FS_Subset
    <3>2. t \notin RunsOf(o)'
      BY <1>4 DEF RunsOf
    <3> QED
      BY <3>1, <3>2, AddOne, FS_CardinalityType
  <2> QED
    BY <1>14, <2>1, Zenon
<1>16. ASSUME NEW C
       PROVE  /\ Cardinality(Positions(calls, C)) \in Nat
              /\ Cardinality(Positions(work', C)) =
                   (IF ct \in C THEN 1 ELSE 0) + (IF cp \in C THEN 1 ELSE 0)
                     + Cardinality(Positions(calls, C))
  <2>1. Cardinality(Positions(calls, C)) \in Nat
    BY <1>11, PositionsFinite
  <2>2. Cardinality(Positions(work', C)) =
          Cardinality(Positions(<<ct, cp>>, C)) + Cardinality(Positions(calls, C))
    <3>1. work' = <<ct, cp>> \o calls /\ <<ct, cp>> \in Seq(Calls) /\ calls \in Seq(Calls)
      BY <1>4, <1>11, <1>12
    <3> QED
      BY <3>1, PositionsConcat, Zenon
  <2>3. Cardinality(Positions(<<ct, cp>>, C)) =
          (IF ct \in C THEN 1 ELSE 0) + (IF cp \in C THEN 1 ELSE 0)
    BY PositionsTwo
  <2> QED
    BY <2>1, <2>2, <2>3
<1>17. Counted'
  <2>1. ASSUME NEW o \in Objects
        PROVE  refs'[o] = Cardinality(Slots(Tables', Refers(o)))
                            + Cardinality(Positions(work', DropCalls(o)))
                            + Cardinality(Blocked(o)') + Cardinality(RunsOf(o)')
    <3>1. refs[o] = Cardinality(Slots(Tables, Refers(o)))
                      + Cardinality(Positions(work, DropCalls(o)))
                      + Cardinality(Blocked(o)) + Cardinality(RunsOf(o))
      BY DEF ObjectsInv, Counted
    <3>2. /\ Cardinality(Slots(Tables', Refers(o))) \in Nat
          /\ Cardinality(Positions(work, DropCalls(o))) = 0
          /\ Cardinality(Blocked(o)) \in Nat
      BY <1>1, CountsNat, SlotsFinite, PositionsEmpty
    <3>3. Cardinality(Slots(Tables, Refers(o))) =
            Cardinality(Slots(Tables', Refers(o))) + Cardinality(Positions(calls, DropCalls(o)))
      BY <1>10 DEF MovesTo
    <3>4. /\ Cardinality(Positions(calls, DropCalls(o))) \in Nat
          /\ Cardinality(Positions(work', DropCalls(o))) =
               (IF o = t THEN 1 ELSE 0) + (IF o = p THEN 1 ELSE 0)
                 + Cardinality(Positions(calls, DropCalls(o)))
      BY <1>6, <1>16
    <3>5. Blocked(o)' = Blocked(o) /\ refs'[o] = refs[o]
      BY <1>4, <1>14
    <3> QED
      BY <1>3, <1>15, <3>1, <3>2, <3>3, <3>4, <3>5
  <2> QED
    BY <2>1 DEF Counted
<1>18. ReceiversCounted'
  <2>1. ASSUME NEW e \in Endpoints
        PROVE  receivers'[e] = Cardinality(Slots(Tables', Receives(e)))
                                 + Cardinality(Positions(work', CloseCalls(e)))
    <3>1. receivers[e] = Cardinality(Slots(Tables, Receives(e)))
                           + Cardinality(Positions(work, CloseCalls(e)))
      BY DEF ObjectsInv, ReceiversCounted
    <3>2. /\ Cardinality(Slots(Tables', Receives(e))) \in Nat
          /\ Cardinality(Positions(work, CloseCalls(e))) = 0
      BY <1>1, SlotsFinite, PositionsEmpty
    <3>3. Cardinality(Slots(Tables, Receives(e))) =
            Cardinality(Slots(Tables', Receives(e))) + Cardinality(Positions(calls, CloseCalls(e)))
      BY <1>10 DEF MovesTo
    <3>4. /\ Cardinality(Positions(calls, CloseCalls(e))) \in Nat
          /\ Cardinality(Positions(work', CloseCalls(e))) =
               Cardinality(Positions(calls, CloseCalls(e)))
      BY <1>6, <1>16
    <3>5. receivers'[e] = receivers[e]
      BY <1>4
    <3> QED
      BY <3>1, <3>2, <3>3, <3>4, <3>5
  <2> QED
    BY <2>1 DEF ReceiversCounted
<1>19. FreeUncounted' /\ ThreadsHaveProcess'
  BY <1>4 DEF ObjectsInv, FreeUncounted, ThreadsHaveProcess
<1>20. EndpointsHeard'
  <2>1. \A e \in Endpoints : e \in Objects /\ e # p
    BY <1>2, ObjectsAssumption DEF Objects
  <2>2. \A e \in Endpoints : destroyed'[e] = destroyed[e]
    BY <1>8, <2>1
  <2> QED
    BY <1>4, <2>2 DEF ObjectsInv, EndpointsHeard
<1>21. RunningCounted'
  <2>1. ASSUME NEW q \in Processes, q \in live
        PROVE  running'[q] = Cardinality(RunsOf(q)') /\ (destroyed'[q] => running'[q] = 0)
    <3>1. q \in Objects /\ q # t
      BY <1>3 DEF Objects
    <3>2. running[q] = Cardinality(RunsOf(q)) /\ (destroyed[q] => running[q] = 0)
      BY <2>1 DEF ObjectsInv, RunningCounted
    <3>3. CASE q # p
      BY <1>8, <1>9, <1>15, <3>1, <3>2, <3>3
    <3>4. CASE q = p
      BY <1>7, <1>8, <1>9, <1>15, <3>1, <3>2, <3>4 DEF last
    <3> QED
      BY <3>3, <3>4
  <2> QED
    BY <1>4, <2>1 DEF RunningCounted
<1>22. FreesPending'
  <2>1. \A i \in 1..Len(work') : work'[i].op \in {"unref", "close", "skip"}
    <3>1. Len(<<ct, cp>>) = 2 /\ \A i \in 1..2 : <<ct, cp>>[i].op = "unref"
      BY <1>5
    <3> QED
      BY <1>4, <1>11, <1>12, <3>1
  <2>2. \A o \in live' : refs'[o] # 0
    BY <1>1, <1>4
  <2> QED
    BY <2>1, <2>2 DEF FreesPending
<1>23. TablesOK'
  BY <1>10 DEF MovesTo
<1> QED
  BY <1>13, <1>17, <1>18, <1>19, <1>20, <1>21, <1>22, <1>23 DEF ObjectsInv

-----------------------------------------------------------------------------
(* object_close and object_sub_ref drop a reference to o.  The call is     *)
(* object_close of a descriptor that may receive if receive is true.       *)
DropsReference(o, receive) ==
    /\ work # <<>>
    /\ Innermost \in DropCalls(o)
    /\ receive \in BOOLEAN
    /\ receive <=> o \in Endpoints /\ Innermost \in CloseCalls(o)
    /\ receivers' = [e \in Endpoints |->
                       IF e = o /\ receive THEN receivers[e] - 1 ELSE receivers[e]]
    /\ destroyed' = [destroyed EXCEPT ![o] =
                       @ \/ refs[o] = 1 \/ (receive /\ receivers[o] <= 1)]
    /\ SubRef(o, Outer, DestroyCalls(o))
    /\ UNCHANGED <<live, running, desc, process, runs, holds>>

(* What it does, object by object.                                         *)
LEMMA DropEffect ==
    ASSUME ObjectsInv, NEW o \in Objects, NEW receive, DropsReference(o, receive)
    PROVE  /\ o \in live /\ refs[o] \in Nat /\ refs[o] >= 1
           /\ receive => receivers[o] \in Nat /\ receivers[o] >= 1
           /\ refs' \in [Objects -> Nat]
           /\ \A x \in Objects : refs'[x] = IF x = o THEN refs[x] - 1 ELSE refs[x]
           /\ receivers' \in [Endpoints -> Nat]
           /\ \A e \in Endpoints :
                receivers'[e] = IF e = o /\ receive THEN receivers[e] - 1 ELSE receivers[e]
           /\ destroyed' \in [Objects -> BOOLEAN]
           /\ \A x \in Objects : x # o => destroyed'[x] = destroyed[x]
           /\ destroyed'[o] <=> destroyed[o] \/ refs[o] = 1 \/ (receive /\ receivers[o] <= 1)
<1>1. TypeOK /\ work \in Seq(Calls) /\ work # <<>>
  BY DEF ObjectsInv, TypeOK, DropsReference
<1>2. Len(work) \in 1..Len(work) /\ work[Len(work)] \in DropCalls(o)
  BY <1>1, PositionsOuter DEF DropsReference, Innermost
<1>3. o \in live /\ refs[o] \in Nat /\ refs[o] >= 1
  BY <1>2, ReferredLive
<1>4. receive => receivers[o] \in Nat /\ receivers[o] >= 1
  <2>1. SUFFICES ASSUME receive PROVE receivers[o] \in Nat /\ receivers[o] >= 1
    OBVIOUS
  <2>2. o \in Endpoints /\ work[Len(work)] \in CloseCalls(o)
    BY <2>1 DEF DropsReference, Innermost
  <2>3. /\ Cardinality(Positions(work, CloseCalls(o))) \in Nat
        /\ Cardinality(Positions(work, CloseCalls(o))) # 0
    BY <1>1, <1>2, <2>2, PositionsFinite
  <2>4. Cardinality(Slots(Tables, Receives(o))) \in Nat
    BY SlotsFinite
  <2>5. receivers[o] = Cardinality(Slots(Tables, Receives(o)))
                         + Cardinality(Positions(work, CloseCalls(o)))
    BY <2>2 DEF ObjectsInv, ReceiversCounted
  <2> QED
    BY <2>3, <2>4, <2>5
<1>5. /\ refs' \in [Objects -> Nat]
      /\ \A x \in Objects : refs'[x] = IF x = o THEN refs[x] - 1 ELSE refs[x]
  <2>1. refs \in [Objects -> Nat] /\ refs' = [refs EXCEPT ![o] = @ - 1]
    BY <1>1 DEF TypeOK, DropsReference, SubRef
  <2> QED
    BY <1>3, <2>1
<1>6. /\ receivers' \in [Endpoints -> Nat]
      /\ \A e \in Endpoints :
           receivers'[e] = IF e = o /\ receive THEN receivers[e] - 1 ELSE receivers[e]
  <2>1. /\ receivers \in [Endpoints -> Nat]
        /\ receivers' = [e \in Endpoints |->
                           IF e = o /\ receive THEN receivers[e] - 1 ELSE receivers[e]]
    BY <1>1 DEF TypeOK, DropsReference
  <2> QED
    BY <1>4, <2>1
<1>7. /\ destroyed' \in [Objects -> BOOLEAN]
      /\ \A x \in Objects : x # o => destroyed'[x] = destroyed[x]
      /\ destroyed'[o] <=> destroyed[o] \/ refs[o] = 1 \/ (receive /\ receivers[o] <= 1)
  <2>1. /\ destroyed \in [Objects -> BOOLEAN]
        /\ destroyed' = [destroyed EXCEPT ![o] =
                           @ \/ refs[o] = 1 \/ (receive /\ receivers[o] <= 1)]
        /\ receive \in BOOLEAN
    BY <1>1 DEF TypeOK, DropsReference
  <2> QED
    BY <2>1, Zenon
<1> QED
  BY <1>3, <1>4, <1>5, <1>6, <1>7

(* The calls in progress afterwards.  Nothing but the dropped reference is *)
(* left of an object that is freed.                                        *)
LEMMA DropCallsOf ==
    ASSUME ObjectsInv, NEW o \in Objects, NEW receive, DropsReference(o, receive)
    PROVE  \E calls \in Seq(Calls), free \in Seq(Calls) :
             /\ MovesTo(calls)
             /\ free = IF refs[o] = 1 THEN <<Call("free", o, {})>> ELSE <<>>
             /\ work' = Outer \o (free \o calls)
             /\ refs[o] # 1 => calls = <<>>
<1>1. /\ o \in live /\ refs[o] \in Nat /\ refs[o] >= 1
      /\ \A x \in Objects : x # o => destroyed'[x] = destroyed[x]
      /\ destroyed'[o] <=> destroyed[o] \/ refs[o] = 1 \/ (receive /\ receivers[o] <= 1)
  BY DropEffect
<1>2. live' = live /\ desc' = desc /\ TypeOK /\ Outer \in Seq(Calls) /\ <<>> \in Seq(Calls)
  BY PositionsOuter DEF DropsReference, ObjectsInv, TypeOK
<1>3. Call("free", o, {}) \in Calls
  BY DEF Call, Calls
<1>4. CASE refs[o] = 1
  <2>1. MovesTo(DestroyCalls(o))
    BY <1>1, <1>2, <1>4, DestroyMoves
  <2>2. work' = Outer \o (<<Call("free", o, {})>> \o DestroyCalls(o))
    BY <1>4 DEF DropsReference, SubRef
  <2>3. DestroyCalls(o) \in Seq(Calls) /\ <<Call("free", o, {})>> \in Seq(Calls)
    BY <1>3, <2>1 DEF MovesTo
  <2> QED
    BY <1>4, <2>1, <2>2, <2>3, Zenon
<1>5. CASE refs[o] # 1
  <2>1. refs[o] > 1 /\ ~(refs[o] < 1)
    BY <1>1, <1>5
  <2>2. work' = Outer \o <<>>
    BY <1>5, <2>1, Zenon DEF DropsReference, SubRef
  <2>3. receive => o \in Endpoints
    BY DEF DropsReference
  <2>4. \A q \in Processes : q \in Objects /\ q \notin Endpoints
    BY ObjectsAssumption DEF Objects
  <2>5. \A q \in Processes : destroyed'[q] = destroyed[q]
    <3>1. destroyed \in [Objects -> BOOLEAN] /\ destroyed' \in [Objects -> BOOLEAN]
      BY <1>2, DropEffect DEF TypeOK
    <3> QED
      BY <1>1, <1>5, <2>3, <2>4, <3>1
  <2>6. MovesTo(<<>>)
    BY <1>2, <2>5, SameTables, MovesNothing
  <2>7. work' = Outer \o (<<>> \o <<>>)
    BY <1>2, <2>2
  <2> QED
    BY <1>2, <1>5, <2>6, <2>7, Zenon
<1> QED
  BY <1>4, <1>5, Zenon

(* Dropping a reference, and with it a receiver, preserves the invariant   *)
(* whether or not it was the last.                                         *)
LEMMA DropStep ==
    ASSUME ObjectsInv, NEW o \in Objects, NEW receive, DropsReference(o, receive)
    PROVE  ObjectsInv'
<1>1. PICK calls \in Seq(Calls), free \in Seq(Calls) :
        /\ MovesTo(calls)
        /\ free = IF refs[o] = 1 THEN <<Call("free", o, {})>> ELSE <<>>
        /\ work' = Outer \o (free \o calls)
        /\ refs[o] # 1 => calls = <<>>
  BY DropCallsOf, Zenon
<1> DEFINE f == Call("free", o, {})
           n == Len(work)
<1>2. /\ o \in live /\ refs[o] \in Nat /\ refs[o] >= 1
      /\ receive => receivers[o] \in Nat /\ receivers[o] >= 1
      /\ refs' \in [Objects -> Nat]
      /\ \A x \in Objects : refs'[x] = IF x = o THEN refs[x] - 1 ELSE refs[x]
      /\ receivers' \in [Endpoints -> Nat]
      /\ \A e \in Endpoints :
           receivers'[e] = IF e = o /\ receive THEN receivers[e] - 1 ELSE receivers[e]
      /\ destroyed' \in [Objects -> BOOLEAN]
      /\ \A x \in Objects : x # o => destroyed'[x] = destroyed[x]
      /\ destroyed'[o] <=> destroyed[o] \/ refs[o] = 1 \/ (receive /\ receivers[o] <= 1)
  BY DropEffect
<1>3. /\ TypeOK /\ work \in Seq(Calls) /\ work # <<>>
      /\ UNCHANGED <<live, running, desc, process, runs, holds>>
  BY DEF DropsReference, ObjectsInv, TypeOK
<1>4. /\ Outer \in Seq(Calls) /\ n \in Nat /\ n \in 1..n /\ Len(Outer) = n - 1
      /\ \A i \in 1..Len(Outer) : i \in 1..n /\ Outer[i] = work[i]
  BY <1>3, PositionsOuter
<1>5. /\ f.op = "free" /\ f.object = o /\ f \in Calls
      /\ \A x : f \notin DropCalls(x) /\ f \notin CloseCalls(x)
  BY DEF Call, Calls, DropCalls, CloseCalls
<1>6. TypeOK'
  <2>1. work' \in Seq(Calls)
    BY <1>1, <1>4
  <2> QED
    BY <1>2, <1>3, <2>1 DEF TypeOK
<1>7. ASSUME NEW C, f \notin C
      PROVE  /\ Cardinality(Positions(Outer, C)) \in Nat
             /\ Cardinality(Positions(calls, C)) \in Nat
             /\ Cardinality(Positions(work', C)) =
                  Cardinality(Positions(Outer, C)) + Cardinality(Positions(calls, C))
             /\ Cardinality(Positions(work, C)) =
                  Cardinality(Positions(Outer, C)) + (IF Innermost \in C THEN 1 ELSE 0)
  <2>1. Cardinality(Positions(Outer, C)) \in Nat /\ Cardinality(Positions(calls, C)) \in Nat
    BY <1>1, <1>4, PositionsFinite
  <2>2. Cardinality(Positions(free, C)) = 0
    BY <1>1, <1>7, PositionsOne, PositionsEmpty
  <2>3. Cardinality(Positions(free \o calls, C)) =
          Cardinality(Positions(free, C)) + Cardinality(Positions(calls, C))
    BY PositionsConcat
  <2>4. free \o calls \in Seq(Calls)
    OBVIOUS
  <2>5. Cardinality(Positions(Outer \o (free \o calls), C)) =
          Cardinality(Positions(Outer, C)) + Cardinality(Positions(free \o calls, C))
    <3> DEFINE r == free \o calls
    <3>1. Outer \in Seq(Calls) /\ r \in Seq(Calls)
      BY <1>4, <2>4
    <3> HIDE DEF r
    <3>2. Cardinality(Positions(Outer \o r, C)) =
            Cardinality(Positions(Outer, C)) + Cardinality(Positions(r, C))
      BY <3>1, PositionsConcat
    <3> QED
      BY <3>2 DEF r
  <2>6. Cardinality(Positions(work, C)) =
          Cardinality(Positions(Outer, C)) + (IF Innermost \in C THEN 1 ELSE 0)
    <3>1. work \in Seq(Calls) /\ work # <<>>
      BY <1>3
    <3> QED
      BY <3>1, PositionsOuter
  <2>7. work' = Outer \o (free \o calls)
    BY <1>1
  <2> QED
    BY <2>1, <2>2, <2>3, <2>5, <2>6, <2>7
<1>8. \A x : Blocked(x)' = Blocked(x) /\ RunsOf(x)' = RunsOf(x)
  BY <1>3 DEF Blocked, RunsOf
<1>9. Counted'
  <2>1. ASSUME NEW x \in Objects
        PROVE  refs'[x] = Cardinality(Slots(Tables', Refers(x)))
                            + Cardinality(Positions(work', DropCalls(x)))
                            + Cardinality(Blocked(x)') + Cardinality(RunsOf(x)')
    <3>1. refs[x] = Cardinality(Slots(Tables, Refers(x)))
                      + Cardinality(Positions(work, DropCalls(x)))
                      + Cardinality(Blocked(x)) + Cardinality(RunsOf(x))
      BY DEF ObjectsInv, Counted
    <3>2. /\ Cardinality(Slots(Tables', Refers(x))) \in Nat
          /\ Cardinality(Blocked(x)) \in Nat /\ Cardinality(RunsOf(x)) \in Nat
      BY <1>3, CountsNat, SlotsFinite
    <3>3. Cardinality(Slots(Tables, Refers(x))) =
            Cardinality(Slots(Tables', Refers(x))) + Cardinality(Positions(calls, DropCalls(x)))
      BY <1>1 DEF MovesTo
    <3>4. Innermost \in DropCalls(x) <=> x = o
      BY DEF DropsReference, DropCalls
    <3>5. /\ Cardinality(Positions(Outer, DropCalls(x))) \in Nat
          /\ Cardinality(Positions(calls, DropCalls(x))) \in Nat
          /\ Cardinality(Positions(work', DropCalls(x))) =
               Cardinality(Positions(Outer, DropCalls(x)))
                 + Cardinality(Positions(calls, DropCalls(x)))
          /\ Cardinality(Positions(work, DropCalls(x))) =
               Cardinality(Positions(Outer, DropCalls(x))) + (IF x = o THEN 1 ELSE 0)
      BY <1>5, <1>7, <3>4
    <3>6. refs'[x] = IF x = o THEN refs[x] - 1 ELSE refs[x]
      BY <1>2
    <3> QED
      BY <1>8, <3>1, <3>2, <3>3, <3>5, <3>6
  <2> QED
    BY <2>1 DEF Counted
<1>10. ReceiversCounted'
  <2>1. ASSUME NEW e \in Endpoints
        PROVE  receivers'[e] = Cardinality(Slots(Tables', Receives(e)))
                                 + Cardinality(Positions(work', CloseCalls(e)))
    <3>1. receivers[e] = Cardinality(Slots(Tables, Receives(e)))
                           + Cardinality(Positions(work, CloseCalls(e)))
      BY DEF ObjectsInv, ReceiversCounted
    <3>2. Cardinality(Slots(Tables', Receives(e))) \in Nat
      BY SlotsFinite
    <3>3. Cardinality(Slots(Tables, Receives(e))) =
            Cardinality(Slots(Tables', Receives(e))) + Cardinality(Positions(calls, CloseCalls(e)))
      BY <1>1 DEF MovesTo
    <3>4. Innermost \in CloseCalls(e) <=> e = o /\ receive
      <4>1. Innermost \in CloseCalls(e) => e = o
        BY DEF DropsReference, CloseCalls, DropCalls
      <4> QED
        BY <4>1 DEF DropsReference
    <3>5. /\ Cardinality(Positions(Outer, CloseCalls(e))) \in Nat
          /\ Cardinality(Positions(calls, CloseCalls(e))) \in Nat
          /\ Cardinality(Positions(work', CloseCalls(e))) =
               Cardinality(Positions(Outer, CloseCalls(e)))
                 + Cardinality(Positions(calls, CloseCalls(e)))
          /\ Cardinality(Positions(work, CloseCalls(e))) =
               Cardinality(Positions(Outer, CloseCalls(e))) + (IF e = o /\ receive THEN 1 ELSE 0)
      BY <1>5, <1>7, <3>4
    <3>6. receivers'[e] = IF e = o /\ receive THEN receivers[e] - 1 ELSE receivers[e]
      BY <1>2
    <3>7. CASE e = o /\ receive
      <4>1. receivers'[e] = receivers[e] - 1
            /\ Cardinality(Positions(work, CloseCalls(e))) =
                 Cardinality(Positions(Outer, CloseCalls(e))) + 1
        BY <3>5, <3>6, <3>7, Zenon
      <4> QED
        BY <3>1, <3>2, <3>3, <3>5, <4>1
    <3>8. CASE ~ (e = o /\ receive)
      <4>1. receivers'[e] = receivers[e]
            /\ Cardinality(Positions(work, CloseCalls(e))) =
                 Cardinality(Positions(Outer, CloseCalls(e))) + 0
        BY <3>5, <3>6, <3>8, Zenon
      <4> QED
        BY <3>1, <3>2, <3>3, <3>5, <4>1
    <3> QED
      BY <3>7, <3>8, Zenon
  <2> QED
    BY <2>1 DEF ReceiversCounted
<1>11. FreeUncounted' /\ ThreadsHaveProcess'
  <2>1. FreeUncounted'
    BY <1>2, <1>3, Zenon DEF ObjectsInv, FreeUncounted
  <2> QED
    BY <1>3, <2>1 DEF ObjectsInv, ThreadsHaveProcess
<1>12. RunningCounted'
  <2>1. ASSUME NEW q \in Processes, q \in live
        PROVE  running'[q] = Cardinality(RunsOf(q)') /\ (destroyed'[q] => running'[q] = 0)
    <3>1. q \in Objects /\ q \notin Endpoints
      BY ObjectsAssumption DEF Objects
    <3>2. /\ running[q] = Cardinality(RunsOf(q)) /\ (destroyed[q] => running[q] = 0)
          /\ running'[q] = running[q]
      BY <1>3, <2>1 DEF ObjectsInv, RunningCounted
    <3>3. CASE q # o \/ destroyed[q]
      BY <1>2, <1>8, <3>1, <3>2, <3>3
    <3>4. CASE q = o /\ ~destroyed[q] /\ destroyed'[q]
      <4>1. refs[o] = 1
        BY <1>2, <3>1, <3>4 DEF DropsReference
      <4>2. refs'[o] = 0
        BY <1>2, <4>1
      <4>3. refs'[o] = Cardinality(Slots(Tables', Refers(o)))
                            + Cardinality(Positions(work', DropCalls(o)))
                            + Cardinality(Blocked(o)') + Cardinality(RunsOf(o)')
        BY <1>9 DEF Counted
      <4>4. /\ Cardinality(Slots(Tables', Refers(o))) \in Nat
            /\ Cardinality(Positions(work', DropCalls(o))) \in Nat
            /\ Cardinality(Blocked(o)') \in Nat /\ Cardinality(RunsOf(o)') \in Nat
        <5>1. work' \in Seq(Calls)
          BY <1>6 DEF TypeOK
        <5>2. Cardinality(Positions(work', DropCalls(o))) \in Nat
          BY <5>1, PositionsFinite
        <5> QED
          BY <1>3, <1>8, <5>2, SlotsFinite, Types
      <4>5. Cardinality(RunsOf(o)') = 0
        BY <4>2, <4>3, <4>4
      <4> QED
        BY <1>8, <3>2, <3>4, <4>5
    <3> QED
      BY <1>8, <3>2, <3>3, <3>4
  <2> QED
    BY <1>3, <2>1 DEF RunningCounted
<1>13. EndpointsHeard'
  <2>1. ASSUME NEW e \in Endpoints, e \in live PROVE destroyed'[e] \/ receivers'[e] > 0
    <3>1. e \in Objects
      BY DEF Objects
    <3>2. destroyed[e] \/ receivers[e] > 0
      BY <2>1 DEF ObjectsInv, EndpointsHeard
    <3> QED
      BY <1>2, <3>1, <3>2
  <2> QED
    BY <1>3, <2>1 DEF EndpointsHeard
<1>14. FreesPending'
  <2> DEFINE m == Len(Outer)
             last == refs[o] = 1
  <2>1. \A i \in 1..Len(work) : /\ work[i].op # "panic"
                                /\ work[i].op = "free" =>
                                     /\ work[i].object \in live
                                     /\ refs[work[i].object] = 0
                                     /\ destroyed[work[i].object]
                                     /\ work[i].object # o
    BY <1>2 DEF ObjectsInv, FreesPending
  <2>2. /\ \A i \in 1..m : i \in 1..Len(work') /\ work'[i] = work[i] /\ i \in 1..Len(work)
        /\ last => m + 1 \in 1..Len(work') /\ work'[m + 1] = f
        /\ \A i \in 1..Len(work') :
             i \in 1..m \/ (last /\ i = m + 1) \/ work'[i].op \in {"close", "skip"}
    <3>1. \A i \in 1..Len(calls) : calls[i].op \in {"close", "skip"}
      BY <1>1 DEF MovesTo
    <3>2. CASE last
      <4>1. free = <<f>> /\ Len(free) = 1 /\ free[1] = f
        BY <1>1, <3>2
      <4>2. /\ free \o calls \in Seq(Calls) /\ Len(free \o calls) = Len(calls) + 1
            /\ (free \o calls)[1] = f
            /\ \A i \in 2..(Len(calls) + 1) : (free \o calls)[i].op \in {"close", "skip"}
        <5> HIDE DEF f
        <5> QED
          BY <3>1, <4>1
      <4>3. work' = Outer \o (free \o calls)
        BY <1>1
      <4> HIDE DEF f
      <4>4. /\ Len(work') = m + Len(calls) + 1
            /\ \A i \in 1..m : work'[i] = Outer[i]
            /\ \A i \in 1..(Len(calls) + 1) : work'[m + i] = (free \o calls)[i]
        <5> DEFINE r == free \o calls
        <5>1. /\ Outer \in Seq(Calls) /\ r \in Seq(Calls) /\ Len(calls) \in Nat
              /\ Len(r) = Len(calls) + 1 /\ work' = Outer \o r
          BY <1>4, <4>2, <4>3
        <5> HIDE DEF r
        <5>2. Len(work') = m + Len(r) /\ \A i \in 1..m : work'[i] = Outer[i]
          BY <5>1
        <5>3. \A i \in 1..Len(r) : work'[m + i] = r[i]
          BY <5>1
        <5> QED
          BY <5>1, <5>2, <5>3 DEF r
      <4>5. m \in Nat /\ Len(calls) \in Nat
        BY <1>4
      <4>6. \A i \in 1..Len(work') :
             i \in 1..m \/ i = m + 1 \/ (i - m \in 2..(Len(calls) + 1) /\ i = m + (i - m))
        BY <4>4, <4>5
      <4> HIDE DEF m
      <4>7. ASSUME NEW j \in 2..(Len(calls) + 1) PROVE work'[m + j].op \in {"close", "skip"}
        <5>1. j \in 1..(Len(calls) + 1)
          BY <4>5
        <5>2. work'[m + j] = (free \o calls)[j]
          BY <4>4, <5>1, Zenon
        <5>3. (free \o calls)[j].op \in {"close", "skip"}
          BY <4>2, Zenon
        <5> QED
          BY <5>2, <5>3, Zenon
      <4>8. work'[m + 1] = f
        BY <4>2, <4>4, <4>5
      <4>9. /\ m + 1 \in 1..Len(work')
            /\ \A i \in 1..m : i \in 1..Len(work')
        BY <4>4, <4>5
      <4>10. \A i \in 1..m : Outer[i] = work[i] /\ i \in 1..Len(work)
        BY <1>4 DEF m
      <4>11. \A i \in 1..Len(work') :
             i \in 1..m \/ i = m + 1 \/ work'[i].op \in {"close", "skip"}
        BY <4>6, <4>7
      <4> QED
        BY <3>2, <4>4, <4>8, <4>9, <4>10, <4>11, Zenon
    <3>3. CASE ~last
      <4>1. work' = Outer
        BY <1>1, <1>4, <3>3
      <4> QED
        BY <1>4, <3>3, <4>1
    <3> QED
      BY <3>2, <3>3
  <2> HIDE DEF f, m, last
  <2>3. \A i \in 1..Len(work') : work'[i].op # "panic"
    BY <1>5, <2>1, <2>2
  <2>4. ASSUME NEW i \in 1..Len(work'), work'[i].op = "free"
        PROVE  \/ i \in 1..m /\ i \in 1..Len(work) /\ work'[i] = work[i] /\ work[i].object # o
               \/ last /\ i = m + 1 /\ work'[i].object = o
    BY <1>5, <2>1, <2>2, <2>4
  <2>5. ASSUME NEW i \in 1..Len(work'), work'[i].op = "free"
        PROVE  /\ work'[i].object \in live'
               /\ refs'[work'[i].object] = 0
               /\ destroyed'[work'[i].object]
    <3>1. CASE i \in 1..Len(work) /\ work'[i] = work[i] /\ work[i].object # o
      <4>1. /\ work[i].object \in live /\ work[i].object \in Objects
            /\ refs[work[i].object] = 0 /\ destroyed[work[i].object]
        BY <1>3, <2>1, <2>5, <3>1 DEF TypeOK
      <4> QED
        BY <1>2, <1>3, <3>1, <4>1
    <3>2. CASE last /\ work'[i].object = o
      BY <1>2, <1>3, <3>2 DEF last
    <3> QED
      BY <2>4, <2>5, <3>1, <3>2
  <2>6. ASSUME NEW i \in 1..Len(work'), NEW j \in 1..Len(work'),
               work'[i].op = "free", work'[j].op = "free",
               work'[i].object = work'[j].object
        PROVE  i = j
    <3>1. CASE work'[i].object = o
      BY <2>4, <2>6, <3>1, Zenon
    <3>2. CASE work'[i].object # o
      <4>1. /\ i \in 1..Len(work) /\ work'[i] = work[i]
            /\ j \in 1..Len(work) /\ work'[j] = work[j]
        BY <2>4, <2>6, <3>2
      <4> QED
        BY <2>6, <4>1 DEF ObjectsInv, FreesPending
    <3> QED
      BY <3>1, <3>2
  <2>7. ASSUME NEW x \in live', refs'[x] = 0
        PROVE  \E i \in 1..Len(work') : work'[i].op = "free" /\ work'[i].object = x
    <3>1. x \in live /\ x \in Objects
      BY <1>3 DEF TypeOK
    <3>2. CASE x = o
      <4>1. last
        BY <1>2, <2>7, <3>2 DEF last
      <4> QED
        BY <1>5, <2>2, <3>2, <4>1
    <3>3. CASE x # o
      <4>1. refs[x] = 0
        BY <1>2, <2>7, <3>1, <3>3
      <4>2. PICK i \in 1..Len(work) : work[i].op = "free" /\ work[i].object = x
        BY <3>1, <4>1 DEF ObjectsInv, FreesPending
      <4>3. i # Len(work)
        BY <4>2 DEF DropsReference, Innermost, DropCalls
      <4>4. i \in 1..m
        BY <1>4, <4>3 DEF m
      <4> QED
        BY <2>2, <4>2, <4>4
    <3> QED
      BY <3>2, <3>3
  <2> QED
    BY <2>3, <2>5, <2>6, <2>7 DEF FreesPending
<1>15. TablesOK'
  BY <1>1 DEF MovesTo
<1> QED
  BY <1>6, <1>9, <1>10, <1>11, <1>12, <1>13, <1>14, <1>15 DEF ObjectsInv

(* object_close preserves the invariant.                                   *)
LEMMA ObjectCloseStep ==
    ASSUME ObjectsInv, ObjectClose
    PROVE  ObjectsInv'
<1> DEFINE o == Innermost.object
           receive == o \in Endpoints /\ "RECEIVE" \in Innermost.perms
<1>1. work \in Seq(Calls) /\ work # <<>>
  BY DEF ObjectClose, ObjectsInv, TypeOK
<1>2. Innermost \in Calls
  BY <1>1, PositionsOuter
<1>3. /\ o \in Objects /\ Innermost \in DropCalls(o) /\ receive \in BOOLEAN
      /\ receive <=> o \in Endpoints /\ Innermost \in CloseCalls(o)
  BY <1>2 DEF ObjectClose, Calls, DropCalls, CloseCalls
<1>4. DropsReference(o, receive)
  BY <1>1, <1>3 DEF ObjectClose, DropsReference
<1> QED
  BY <1>3, <1>4, DropStep

(* object_sub_ref preserves it.                                            *)
LEMMA ObjectSubRefStep ==
    ASSUME ObjectsInv, ObjectSubRef
    PROVE  ObjectsInv'
<1> DEFINE o == Innermost.object
<1>1. /\ work \in Seq(Calls) /\ work # <<>>
      /\ receivers \in [Endpoints -> Nat] /\ destroyed \in [Objects -> BOOLEAN]
  BY DEF ObjectSubRef, ObjectsInv, TypeOK
<1>2. Innermost \in Calls
  BY <1>1, PositionsOuter
<1>3. o \in Objects /\ Innermost \in DropCalls(o) /\ Innermost \notin CloseCalls(o)
  BY <1>2 DEF ObjectSubRef, Calls, DropCalls, CloseCalls
<1>4. receivers' = [e \in Endpoints |->
                      IF e = o /\ FALSE THEN receivers[e] - 1 ELSE receivers[e]]
  BY <1>1 DEF ObjectSubRef
<1>5. destroyed' = [destroyed EXCEPT ![o] = @ \/ refs[o] = 1 \/ (FALSE /\ receivers[o] <= 1)]
  BY DEF ObjectSubRef
<1>6. DropsReference(o, FALSE)
  BY <1>1, <1>3, <1>4, <1>5 DEF ObjectSubRef, DropsReference
<1> QED
  BY <1>3, <1>6, DropStep, Zenon

-----------------------------------------------------------------------------
(* A call that holds no reference returns: the free op of an object, or a  *)
(* descriptor that is passed over.                                         *)
Pops ==
    /\ work # <<>>
    /\ \/ Innermost.op = "free" /\ live' = live \ {Innermost.object}
       \/ Innermost.op = "skip" /\ live' = live
    /\ work' = Outer
    /\ UNCHANGED <<refs, destroyed, receivers, running, desc, process, runs, holds>>

(* The return of such a call preserves the invariant.                      *)
LEMMA PopStep ==
    ASSUME ObjectsInv, Pops
    PROVE  ObjectsInv'
<1> DEFINE n == Len(work)
           o == work[n].object
<1>1. /\ TypeOK /\ work \in Seq(Calls) /\ work # <<>> /\ work' = Outer
      /\ UNCHANGED <<refs, destroyed, receivers, running, desc, process, runs, holds>>
  BY DEF ObjectsInv, Pops, TypeOK
<1>2. /\ Outer \in Seq(Calls) /\ n \in Nat /\ n \in 1..n /\ Len(Outer) = n - 1
      /\ \A i \in 1..Len(Outer) : i \in 1..n /\ Outer[i] = work[i]
  BY <1>1, PositionsOuter
<1>3. /\ live' \subseteq live /\ work[n].op \in {"free", "skip"}
      /\ \A x \in live : x \notin live' => work[n].op = "free" /\ x = o
      /\ work[n].op = "free" => o \notin live'
  BY DEF Pops, Innermost
<1>4. \A x \in live : x \notin live' => destroyed[x] /\ refs[x] = 0
  BY <1>2, <1>3 DEF ObjectsInv, FreesPending
<1>5. TypeOK'
  BY <1>1, <1>2, <1>3 DEF TypeOK
<1>6. Tables' = Tables
  <2>1. \A p \in Processes : Table(p)' = Table(p)
    BY <1>1, <1>3, <1>4 DEF Table
  <2> QED
    BY <2>1 DEF Tables
<1>7. \A x : Blocked(x)' = Blocked(x) /\ RunsOf(x)' = RunsOf(x)
  BY <1>1 DEF Blocked, RunsOf
<1>8. ASSUME NEW C, \A c \in C : c.op \in {"close", "unref"}
      PROVE  Cardinality(Positions(work', C)) = Cardinality(Positions(work, C))
  <2>1. work[n] \notin C
    BY <1>3, <1>8
  <2>2. Positions(Outer, C) = Positions(work, C)
    BY <1>2, <2>1 DEF Positions
  <2> QED
    BY <1>1, <2>2
<1>9. Counted'
  <2>1. \A x : Cardinality(Positions(work', DropCalls(x))) =
                Cardinality(Positions(work, DropCalls(x)))
    BY <1>8 DEF DropCalls
  <2> QED
    BY <1>1, <1>6, <1>7, <2>1 DEF ObjectsInv, Counted
<1>10. ReceiversCounted'
  <2>1. \A e : Cardinality(Positions(work', CloseCalls(e))) =
                Cardinality(Positions(work, CloseCalls(e)))
    BY <1>8 DEF CloseCalls
  <2> QED
    BY <1>1, <1>6, <2>1 DEF ObjectsInv, ReceiversCounted
<1>11. FreeUncounted'
  BY <1>1, <1>3, <1>4 DEF ObjectsInv, FreeUncounted
<1>12. RunningCounted'
  BY <1>1, <1>3, <1>7 DEF ObjectsInv, RunningCounted
<1>13. ThreadsHaveProcess' /\ EndpointsHeard'
  BY <1>1, <1>3 DEF ObjectsInv, ThreadsHaveProcess, EndpointsHeard
<1>14. TablesOK'
  BY <1>6 DEF ObjectsInv, TablesOK
<1>15. FreesPending'
  <2> DEFINE m == Len(Outer)
  <2>1. \A i \in 1..m : i \in 1..n /\ i # n /\ work'[i] = work[i] /\ Outer[i] = work[i]
    BY <1>1, <1>2
  <2>2. m = Len(work')
    BY <1>1
  <2> HIDE DEF m, o
  <2>3. \A i \in 1..Len(work') : work'[i].op # "panic"
    BY <2>1, <2>2 DEF ObjectsInv, FreesPending
  <2>4. ASSUME NEW i \in 1..Len(work'), work'[i].op = "free"
        PROVE  /\ work'[i].object \in live'
               /\ refs'[work'[i].object] = 0
               /\ destroyed'[work'[i].object]
    <3>1. i \in 1..n /\ i # n /\ work'[i] = work[i]
      BY <2>1, <2>2
    <3>2. /\ work[i].object \in live
          /\ refs[work[i].object] = 0
          /\ destroyed[work[i].object]
      BY <2>4, <3>1 DEF ObjectsInv, FreesPending
    <3>3. work[n].op = "free" => work[i].object # o
      BY <1>2, <2>4, <3>1 DEF ObjectsInv, FreesPending, o
    <3>4. work[i].object \in live'
      BY <1>3, <3>2, <3>3
    <3> QED
      BY <1>1, <3>1, <3>2, <3>4
  <2>5. ASSUME NEW i \in 1..Len(work'), NEW j \in 1..Len(work'),
               work'[i].op = "free", work'[j].op = "free",
               work'[i].object = work'[j].object
        PROVE  i = j
    BY <2>1, <2>2, <2>5 DEF ObjectsInv, FreesPending
  <2>6. ASSUME NEW x \in live', refs'[x] = 0
        PROVE  \E i \in 1..Len(work') : work'[i].op = "free" /\ work'[i].object = x
    <3>1. x \in live /\ refs[x] = 0
      BY <1>1, <1>3, <2>6
    <3>2. PICK i \in 1..n : work[i].op = "free" /\ work[i].object = x
      BY <3>1 DEF ObjectsInv, FreesPending
    <3>3. i # n
      BY <1>3, <3>2 DEF o
    <3>4. i \in 1..m
      BY <1>2, <3>3 DEF m
    <3> QED
      BY <2>1, <2>2, <3>2, <3>4
  <2> QED
    BY <2>3, <2>4, <2>5, <2>6 DEF FreesPending
<1> QED
  BY <1>5, <1>9, <1>10, <1>11, <1>12, <1>13, <1>14, <1>15 DEF ObjectsInv

(* object_free preserves it.                                               *)
LEMMA ObjectFreeStep ==
    ASSUME ObjectsInv, ObjectFree
    PROVE  ObjectsInv'
<1>1. Pops
  BY DEF ObjectFree, Pops
<1> QED
  BY <1>1, PopStep

(* close_descriptors passes over a descriptor that is not open, which      *)
(* preserves the invariant.                                                *)
LEMMA SkipDescriptorStep ==
    ASSUME ObjectsInv, SkipDescriptor
    PROVE  ObjectsInv'
<1>1. Pops
  BY DEF SkipDescriptor, Pops, objectVars
<1> QED
  BY <1>1, PopStep

-----------------------------------------------------------------------------
(* The initial state satisfies the invariant.                              *)
LEMMA ObjectsInvInit == Init => ObjectsInv
<1> SUFFICES ASSUME Init PROVE ObjectsInv
  OBVIOUS
<1> DEFINE dp == OpenDesc(BootProcess, AllPerms(BootProcess), FALSE)
           dt == OpenDesc(BootThread, AllPerms(BootThread), FALSE)
<1>1. /\ BootProcess \in Processes /\ BootProcess \in Objects
      /\ BootThread \in Threads /\ BootThread \in Objects
      /\ BootProcess # BootThread /\ BootThread \notin Processes
      /\ BootProcess \notin Endpoints /\ BootThread \notin Endpoints
      /\ NULL \notin Objects
      /\ 0 \in Fds /\ 1 \in Fds
      /\ AllPerms(BootProcess) = {"OPEN", "CREATE_THREAD"}
      /\ AllPerms(BootThread) = {"START", "AWAIT"}
  BY ObjectsAssumption DEF Objects, AllPerms, Fds
<1>2. /\ dp \in Descriptors /\ dp.state = "open" /\ dp.object = BootProcess
      /\ dp.perms = AllPerms(BootProcess) /\ ~dp.owner
      /\ dt \in Descriptors /\ dt.state = "open" /\ dt.object = BootThread
      /\ dt.perms = AllPerms(BootThread) /\ ~dt.owner
  BY <1>1 DEF OpenDesc, Descriptors, Perms
<1>3. /\ FreeDesc \in Descriptors /\ FreeDesc.state = "free"
  BY DEF FreeDesc, Descriptors
<1>4. TypeOK
  <2>1. desc \in [Processes -> [Fds -> Descriptors]]
    BY <1>2, <1>3, Zenon DEF Init
  <2>2. live \subseteq Objects /\ refs \in [Objects -> Nat]
    BY <1>1 DEF Init
  <2>3. /\ destroyed \in [Objects -> BOOLEAN] /\ receivers \in [Endpoints -> Nat]
        /\ running \in [Processes -> Nat] /\ process \in [Threads -> Processes \cup {NULL}]
        /\ runs \subseteq Threads /\ holds \in [Threads -> Objects \cup {NULL}]
        /\ work \in Seq(Calls)
    BY <1>1 DEF Init
  <2> QED
    BY <2>1, <2>2, <2>3 DEF TypeOK
<1>5. \A p \in Processes, fd \in Fds : Tables[p][fd] =
        IF p = BootProcess /\ fd = 0 THEN dp
        ELSE IF p = BootProcess /\ fd = 1 THEN dt ELSE FreeDesc
  <2>1. ASSUME NEW p \in Processes PROVE p \notin live => p # BootProcess
    BY DEF Init
  <2>2. \A p \in Processes : ~destroyed[p]
    BY DEF Init, Objects
  <2>3. \A p \in Processes, fd \in Fds :
          Tables[p][fd] = IF p \in live THEN desc[p][fd] ELSE FreeDesc
    BY <2>2 DEF Tables, Table
  <2>4. \A p \in Processes, fd \in Fds : desc[p][fd] =
          IF p = BootProcess /\ fd = 0 THEN dp
          ELSE IF p = BootProcess /\ fd = 1 THEN dt ELSE FreeDesc
    BY DEF Init
  <2> HIDE DEF dp, dt
  <2> QED
    BY <2>1, <2>3, <2>4
<1> HIDE DEF dp, dt
<1>6. \A o : /\ dp \in Refers(o) <=> o = BootProcess
             /\ dt \in Refers(o) <=> o = BootThread
             /\ FreeDesc \notin Refers(o)
             /\ dp \notin Receives(o) /\ dt \notin Receives(o) /\ FreeDesc \notin Receives(o)
  BY <1>1, <1>2, <1>3 DEF Refers, Receives
<1>7. ASSUME NEW o \in Objects
      PROVE  Cardinality(Slots(Tables, Refers(o))) = IF o \in live THEN 1 ELSE 0
  <2>1. CASE o = BootProcess
    <3>1. Slots(Tables, Refers(o)) = {<<BootProcess, 0>>}
      BY <1>1, <1>5, <1>6, <2>1 DEF Slots
    <3> QED
      BY <2>1, <3>1, FS_Singleton, Zenon DEF Init
  <2>2. CASE o = BootThread
    <3>1. Slots(Tables, Refers(o)) = {<<BootProcess, 1>>}
      BY <1>1, <1>5, <1>6, <2>2 DEF Slots
    <3> QED
      BY <2>2, <3>1, FS_Singleton, Zenon DEF Init
  <2>3. CASE o \notin {BootProcess, BootThread}
    <3>1. Slots(Tables, Refers(o)) = {}
      BY <1>5, <1>6, <2>3 DEF Slots
    <3> QED
      BY <2>3, <3>1, FS_EmptySet DEF Init
  <2> QED
    BY <2>1, <2>2, <2>3
<1>8. ASSUME NEW o \in Objects
      PROVE  /\ Cardinality(Blocked(o)) = 0
             /\ Cardinality(RunsOf(o)) = IF o \in live THEN 1 ELSE 0
  <2>1. Blocked(o) = {}
    BY <1>1 DEF Blocked, Init
  <2>2. RunsOf(o) = IF o \in live THEN {BootThread} ELSE {}
    BY <1>1 DEF RunsOf, Init
  <2> QED
    BY <2>1, <2>2, FS_EmptySet, FS_Singleton, Zenon
<1>9. \A C : Cardinality(Positions(work, C)) = 0
  BY PositionsEmpty DEF Init
<1>10. Counted
  <2>1. \A o \in Objects : refs[o] = IF o \in live THEN 2 ELSE 0
    BY DEF Init
  <2> QED
    BY <1>7, <1>8, <1>9, <2>1 DEF Counted
<1>11. FreeUncounted
  BY DEF FreeUncounted, Init
<1>12. ReceiversCounted
  <2>1. \A e : Slots(Tables, Receives(e)) = {}
    BY <1>5, <1>6 DEF Slots
  <2>2. \A e : Cardinality(Slots(Tables, Receives(e))) = 0
    BY <2>1, FS_EmptySet
  <2> QED
    BY <1>9, <2>2 DEF ReceiversCounted, Init
<1>13. RunningCounted
  <2>1. \A p \in live \cap Processes : p = BootProcess /\ p \in Objects /\ p \in live
    BY <1>1 DEF Init
  <2> QED
    BY <1>1, <1>8, <2>1 DEF RunningCounted, Init
<1>14. ThreadsHaveProcess /\ EndpointsHeard
  <2>1. /\ live \cap Endpoints = {} /\ live \cap Threads = {BootThread}
        /\ process[BootThread] = BootProcess
    BY <1>1, ObjectsAssumption DEF Init
  <2> QED
    BY <1>1, <2>1 DEF ThreadsHaveProcess, EndpointsHeard
<1>15. TablesOK
  <2>1. \A p \in Processes, fd \in Fds : Tables[p][fd] \in {dp, dt, FreeDesc}
    BY <1>5
  <2>2. \A d \in {dp, dt, FreeDesc} : d.state = "open" =>
          d.object \in Objects /\ d.perms \subseteq AllPerms(d.object) /\ ~d.owner
    BY <1>1, <1>2, <1>3
  <2>3. \A c \in Processes \X Fds : c[1] \in Processes /\ c[2] \in Fds
    OBVIOUS
  <2> QED
    BY <2>1, <2>2, <2>3 DEF TablesOK
<1>16. FreesPending
  <2>1. work = <<>> /\ 1..Len(work) = {} /\ \A o \in live : refs[o] # 0
    BY <1>1 DEF Init
  <2> QED
    BY <2>1 DEF FreesPending
<1> QED
  BY <1>4, <1>10, <1>11, <1>12, <1>13, <1>14, <1>15, <1>16 DEF ObjectsInv

(* Applications start threads of processes that still exist.               *)
NoOrphans == "start_orphan" \notin AppMay

(* Every step preserves the invariant.                                     *)
LEMMA ObjectsInvNext ==
    ASSUME NoOrphans, ObjectsInv, [Next]_vars
    PROVE  ObjectsInv'
<1>1. ASSUME NEW t \in Threads, SystemCall(t) PROVE ObjectsInv'
  <2>1. ASSUME NEW fd \in Fds, AccessDestroyed(t, fd) PROVE ObjectsInv'
    BY <2>1, AccessDestroyedStep
  <2>2. ASSUME NEW fd \in Fds, NEW e \in Endpoints, CreateEndpoint(t, fd, e) PROVE ObjectsInv'
    BY <2>2, CreateEndpointStep
  <2>3. ASSUME NEW fd \in Fds, NEW p \in Processes, CreateProcess(t, fd, p) PROVE ObjectsInv'
    BY <2>3, CreateProcessStep
  <2>4. ASSUME NEW fd \in Fds, NEW pfd \in Fds, NEW u \in Threads, CreateThread(t, fd, pfd, u)
        PROVE  ObjectsInv'
    BY <2>4, CreateThreadStep
  <2>5. ASSUME NEW fd \in Fds, NEW pfd \in Fds, NEW src \in Fds, Dup(t, pfd, src, fd)
        PROVE  ObjectsInv'
    BY <2>5, DupStep
  <2>6. ASSUME NEW fd \in Fds, NEW owner \in Fds, NEW pfd \in Fds, NEW perms \in MintPerms,
               Mint(t, owner, perms, pfd, fd)
        PROVE  ObjectsInv'
    BY <2>6, MintStep
  <2>7. ASSUME NEW fd \in Fds, Close(t, fd) PROVE ObjectsInv'
    BY <2>7, CloseStep
  <2>8. ASSUME NEW fd \in Fds, Destroy(t, fd) PROVE ObjectsInv'
    BY <2>8, DestroyStep
  <2>9. ASSUME NEW fd \in Fds, StartThread(t, fd) PROVE ObjectsInv'
    BY <2>9, StartThreadStep DEF NoOrphans
  <2>10. ASSUME NEW fd \in Fds, Block(t, fd) PROVE ObjectsInv'
    BY <2>10, BlockStep
  <2>11. CASE Resume(t)
    BY <2>11, ResumeStep
  <2>12. CASE Exit(t)
    BY <2>12, ExitStep
  <2> QED
    BY <1>1, <2>1, <2>2, <2>3, <2>4, <2>5, <2>6, <2>7, <2>8, <2>9, <2>10, <2>11, <2>12
    DEF SystemCall
<1>2. CASE Unwind
  BY <1>2, ObjectCloseStep, ObjectSubRefStep, ObjectFreeStep, SkipDescriptorStep DEF Unwind
<1>3. CASE UNCHANGED vars
  <2>1. UNCHANGED <<live, refs, destroyed, receivers, running, desc, process, runs, holds, work>>
    BY <1>3 DEF vars, objectVars
  <2>2. \A o : Blocked(o)' = Blocked(o) /\ RunsOf(o)' = RunsOf(o)
    BY <2>1 DEF Blocked, RunsOf
  <2>3. TypeOK' /\ Tables' = Tables /\ TablesOK'
    BY <2>1, SameTables DEF ObjectsInv, TypeOK
  <2>4. Counted' /\ ReceiversCounted' /\ FreeUncounted'
    BY <2>1, <2>2, <2>3 DEF ObjectsInv, Counted, ReceiversCounted, FreeUncounted
  <2>5. RunningCounted' /\ ThreadsHaveProcess' /\ EndpointsHeard'
    BY <2>1, <2>2, ZenonT(40) DEF ObjectsInv, RunningCounted, ThreadsHaveProcess, EndpointsHeard
  <2>6. FreesPending'
    BY <2>1 DEF ObjectsInv, FreesPending
  <2> QED
    BY <2>3, <2>4, <2>5, <2>6 DEF ObjectsInv
<1> QED
  BY <1>1, <1>2, <1>3 DEF Next

(* Every reachable state of the objects satisfies ObjectsInv, for any      *)
(* processes, threads, endpoints and number of descriptors.                *)
THEOREM ObjectsInvariant == ASSUME NoOrphans PROVE Spec => []ObjectsInv
<1>1. ObjectsInv /\ [Next]_vars => ObjectsInv'
  BY ObjectsInvNext
<1> QED
  BY ObjectsInvInit, <1>1, PTL DEF Spec

(* The sets that the properties count.                                     *)
LEMMA References ==
    ASSUME ObjectsInv, NEW o \in Objects
    PROVE  /\ DescriptorsOf(o) = Slots(Tables, Refers(o))
           /\ Drops(o) = Positions(work, DropCalls(o))
           /\ {t \in Threads : holds[t] = o} = Blocked(o)
           /\ {t \in runs : o \in {t, process[t]}} = RunsOf(o)
<1>1. \A p \in Processes, fd \in Fds : Table(p)[fd] = Tables[p][fd] /\ Tables[p][fd] \in Descriptors
  BY Types DEF ObjectsInv, Tables, TableType
<1>2. DescriptorsOf(o) = Slots(Tables, Refers(o))
  BY <1>1 DEF DescriptorsOf, Slots, Refers
<1>3. \A i \in 1..Len(work) : work[i] \in Calls
  BY DEF ObjectsInv, TypeOK
<1>4. Drops(o) = Positions(work, DropCalls(o))
  BY <1>3 DEF Drops, Positions, DropCalls
<1> QED
  BY <1>2, <1>4 DEF Blocked, RunsOf

(* Type correctness of the model of kernel objects.                        *)
THEOREM ObjectsTypeOK == ASSUME NoOrphans PROVE Spec => []TypeOK
BY ObjectsInvariant, PTL DEF ObjectsInv

(* object->ref_count is exact in every state, those in the middle of       *)
(* close_descriptors included.                                             *)
THEOREM RefsAlwaysCounted == ASSUME NoOrphans PROVE Spec => []RefsCounted
<1>1. ObjectsInv => RefsCounted
  <2> SUFFICES ASSUME ObjectsInv, NEW o \in live
               PROVE  refs[o] = Cardinality(DescriptorsOf(o)) + Cardinality(Drops(o))
                                  + Cardinality({t \in Threads : holds[t] = o})
                                  + Cardinality({t \in runs : o \in {t, process[t]}})
    BY DEF RefsCounted
  <2>1. o \in Objects
    BY DEF ObjectsInv, TypeOK
  <2> QED
    BY <2>1, References DEF ObjectsInv, Counted
<1> QED
  BY <1>1, ObjectsInvariant, PTL

(* Memory that was freed is referred to by nothing, and has the counts     *)
(* that endpoint_new and process_new rely on.                              *)
THEOREM FreedNeverReferenced == ASSUME NoOrphans PROVE Spec => []FreedUnreferenced
<1>1. ObjectsInv => FreedUnreferenced
  <2> SUFFICES ASSUME ObjectsInv, NEW o \in Objects, o \notin live
               PROVE  /\ DescriptorsOf(o) = {}
                      /\ Drops(o) = {}
                      /\ \A t \in Threads : holds[t] # o
                      /\ \A t \in runs : o \notin {t, process[t]}
                      /\ refs[o] = 0
                      /\ o \in Endpoints => receivers[o] = 0
    BY DEF FreedUnreferenced
  <2>1. /\ \A p \in Processes, fd \in Fds : Tables[p][fd] \notin Refers(o)
        /\ \A i \in 1..Len(work) : work[i] \notin DropCalls(o)
        /\ Blocked(o) = {} /\ RunsOf(o) = {}
    BY ReferredLive
  <2>2. Slots(Tables, Refers(o)) = {} /\ Positions(work, DropCalls(o)) = {}
    BY <2>1 DEF Slots, Positions
  <2>3. refs[o] = 0
    BY DEF ObjectsInv, FreeUncounted
  <2>4. ASSUME o \in Endpoints PROVE receivers[o] = 0
    <3>1. Receives(o) \subseteq Refers(o) /\ CloseCalls(o) \subseteq DropCalls(o)
      BY DEF Receives, Refers, CloseCalls, DropCalls
    <3>2. Slots(Tables, Receives(o)) = {} /\ Positions(work, CloseCalls(o)) = {}
      BY <2>1, <3>1 DEF Slots, Positions
    <3> QED
      BY <2>4, <3>2, FS_EmptySet DEF ObjectsInv, ReceiversCounted
  <2>5. /\ \A t \in Threads : holds[t] # o
        /\ \A t \in runs : o \notin {t, process[t]}
    BY <2>1 DEF Blocked, RunsOf
  <2> QED
    BY <2>2, <2>3, <2>4, <2>5, References
<1> QED
  BY <1>1, ObjectsInvariant, PTL

(* Between system calls nothing is left without references, no endpoint    *)
(* waits that nobody can receive on, and no process was destroyed under a  *)
(* running thread.                                                         *)
THEOREM NeverLeavesBehind == ASSUME NoOrphans PROVE Spec => []NothingLeftBehind
<1>1. ObjectsInv => NothingLeftBehind
  <2> SUFFICES ASSUME ObjectsInv, work = <<>>
               PROVE  /\ \A o \in live : refs[o] > 0
                      /\ \A e \in live \cap Endpoints : ~destroyed[e] =>
                          \E d \in DescriptorsOf(e) : "RECEIVE" \in Table(d[1])[d[2]].perms
                      /\ \A p \in live \cap Processes :
                          /\ running[p] = Cardinality({t \in runs : process[t] = p})
                          /\ destroyed[p] => running[p] = 0
    BY DEF NothingLeftBehind
  <2>1. ASSUME NEW o \in live PROVE refs[o] > 0
    <3>1. refs[o] \in Nat /\ 1..Len(work) = {}
      BY DEF ObjectsInv, TypeOK
    <3>2. refs[o] # 0
      BY <3>1 DEF ObjectsInv, FreesPending
    <3> QED
      BY <3>1, <3>2
  <2>2. ASSUME NEW e \in live \cap Endpoints, ~destroyed[e]
        PROVE  \E d \in DescriptorsOf(e) : "RECEIVE" \in Table(d[1])[d[2]].perms
    <3>1. receivers[e] > 0
      BY <2>2 DEF ObjectsInv, EndpointsHeard
    <3>2. receivers[e] = Cardinality(Slots(Tables, Receives(e)))
                           + Cardinality(Positions(work, CloseCalls(e)))
      BY DEF ObjectsInv, ReceiversCounted
    <3>3. /\ Cardinality(Slots(Tables, Receives(e))) \in Nat
          /\ Cardinality(Positions(work, CloseCalls(e))) = 0
      BY SlotsFinite, PositionsEmpty
    <3>4. Cardinality(Slots(Tables, Receives(e))) # 0
      BY <3>1, <3>2, <3>3
    <3>5. PICK d \in Slots(Tables, Receives(e)) : TRUE
      BY <3>4, FS_EmptySet, Zenon
    <3>6. /\ d \in Processes \X Fds /\ d[1] \in Processes /\ Tables[d[1]][d[2]] \in Receives(e)
          /\ Tables[d[1]][d[2]] = Table(d[1])[d[2]]
      BY DEF Slots, Tables
    <3>7. /\ Tables[d[1]][d[2]] \in Refers(e)
          /\ "RECEIVE" \in Table(d[1])[d[2]].perms
      BY <3>6 DEF Receives, Refers
    <3>8. d \in DescriptorsOf(e)
      BY <3>6, <3>7 DEF DescriptorsOf, Refers
    <3> QED
      BY <3>7, <3>8
  <2>3. ASSUME NEW p \in live \cap Processes
        PROVE  /\ running[p] = Cardinality({t \in runs : process[t] = p})
               /\ destroyed[p] => running[p] = 0
    <3>1. \A t \in runs : t # p
      BY ObjectsAssumption DEF ObjectsInv, TypeOK
    <3>2. RunsOf(p) = {t \in runs : process[t] = p}
      BY <3>1 DEF RunsOf
    <3> QED
      BY <3>2, Zenon DEF ObjectsInv, RunningCounted
  <2> QED
    BY <2>1, <2>2, <2>3
<1> QED
  BY <1>1, ObjectsInvariant, PTL

(* An object has one owner descriptor at most, and descriptors grant       *)
(* nothing that the type of the object does not have.                      *)
THEOREM OwnerAlwaysUnique == ASSUME NoOrphans PROVE Spec => []OwnerUnique
<1>1. ObjectsInv => OwnerUnique
  <2> SUFFICES ASSUME ObjectsInv PROVE OwnerUnique
    OBVIOUS
  <2>1. ASSUME NEW o, NEW d \in DescriptorsOf(o)
        PROVE  /\ d \in Processes \X Fds /\ d[1] \in Processes /\ d[2] \in Fds
               /\ Tables[d[1]][d[2]] = Table(d[1])[d[2]]
               /\ Tables[d[1]][d[2]].state = "open" /\ Tables[d[1]][d[2]].object = o
    BY DEF DescriptorsOf, Tables
  <2>2. ASSUME NEW o \in Objects, NEW d \in DescriptorsOf(o)
        PROVE  Table(d[1])[d[2]].perms \subseteq AllPerms(o)
    <3>1. TablesOK
      BY DEF ObjectsInv
    <3>2. d[1] \in Processes /\ d[2] \in Fds /\ Tables[d[1]][d[2]] = Table(d[1])[d[2]]
      BY <2>1
    <3>3. Tables[d[1]][d[2]].state = "open" /\ Tables[d[1]][d[2]].object = o
      BY <2>1
    <3> QED
      BY <3>1, <3>2, <3>3 DEF TablesOK
  <2>3. ASSUME NEW o \in Objects, NEW c \in DescriptorsOf(o), NEW d \in DescriptorsOf(o),
               Table(c[1])[c[2]].owner, Table(d[1])[d[2]].owner
        PROVE  c = d
    <3>1. TablesOK
      BY DEF ObjectsInv
    <3>2. c \in Processes \X Fds /\ d \in Processes \X Fds
      BY <2>1
    <3> QED
      BY <2>1, <2>3, <3>1, <3>2 DEF TablesOK
  <2> QED
    BY <2>2, <2>3 DEF OwnerUnique
<1> QED
  BY <1>1, ObjectsInvariant, PTL

(* object_sub_ref never panics: no count is decremented below zero.        *)
THEOREM CountsStayNonNegative == ASSUME NoOrphans PROVE Spec => []CountsNeverNegative
<1>1. ObjectsInv => CountsNeverNegative
  BY DEF ObjectsInv, FreesPending, CountsNeverNegative
<1> QED
  BY <1>1, ObjectsInvariant, PTL
=============================================================================
