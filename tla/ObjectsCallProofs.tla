------------------------- MODULE ObjectsCallProofs --------------------------
(***************************************************************************)
(* The reference counts of kernel objects: the inductive invariant of      *)
(* Objects, what counting descriptors and calls in progress needs, and one *)
(* lemma for each system call that it is preserved.  ObjectsProofs does    *)
(* the rest.                                                               *)
(***************************************************************************)
EXTENDS Objects, FiniteSetTheorems, TLAPS

(* What holds references to an object, by kind: slots of the descriptor    *)
(* tables, calls in progress, blocked system calls and running threads.    *)
Tables == [p \in Processes |-> Table(p)]

Slots(T, D) == {s \in Processes \X Fds : T[s[1]][s[2]] \in D}
Refers(o) == {d \in Descriptors : d.state = "open" /\ d.object = o}
Receives(e) == {d \in Descriptors : d.state = "open" /\ d.object = e /\ "RECEIVE" \in d.perms}

Positions(s, C) == {i \in 1..Len(s) : s[i] \in C}
DropCalls(o) == {c \in Calls : c.op \in {"close", "unref"} /\ c.object = o}
CloseCalls(e) == {c \in Calls : c.op = "close" /\ c.object = e /\ "RECEIVE" \in c.perms}

Blocked(o) == {t \in Threads : holds[t] = o}
RunsOf(o) == {t \in runs : o \in {t, process[t]}}

(* The inductive invariant.  The counts are exact for all memory, and zero *)
(* for memory that is free.                                                *)
Counted == \A o \in Objects :
    refs[o] = Cardinality(Slots(Tables, Refers(o)))
                + Cardinality(Positions(work, DropCalls(o)))
                + Cardinality(Blocked(o)) + Cardinality(RunsOf(o))

FreeUncounted == \A o \in Objects \ live : refs[o] = 0

ReceiversCounted == \A e \in Endpoints :
    receivers[e] = Cardinality(Slots(Tables, Receives(e)))
                     + Cardinality(Positions(work, CloseCalls(e)))

(* A process with running threads is not destroyed, an endpoint without    *)
(* receivers is.                                                           *)
RunningCounted == \A p \in live \cap Processes :
    /\ running[p] = Cardinality(RunsOf(p))
    /\ destroyed[p] => running[p] = 0

ThreadsHaveProcess == \A u \in live \cap Threads : process[u] \in Processes

EndpointsHeard == \A e \in live \cap Endpoints : destroyed[e] \/ receivers[e] > 0

TablesOK ==
    /\ \A p \in Processes, fd \in Fds : Tables[p][fd].state = "open" =>
         /\ Tables[p][fd].object \in Objects
         /\ Tables[p][fd].perms \subseteq AllPerms(Tables[p][fd].object)
    /\ \A c, d \in Processes \X Fds :
         /\ Tables[c[1]][c[2]].state = "open" /\ Tables[c[1]][c[2]].owner
         /\ Tables[d[1]][d[2]].state = "open" /\ Tables[d[1]][d[2]].owner
         /\ Tables[c[1]][c[2]].object = Tables[d[1]][d[2]].object
         => c = d

(* An object that is about to be freed was destroyed, has no references    *)
(* and is freed once; an object without references is about to be freed.   *)
FreesPending ==
    /\ \A i \in 1..Len(work) : work[i].op # "panic"
    /\ \A i \in 1..Len(work) : work[i].op = "free" =>
         /\ work[i].object \in live
         /\ refs[work[i].object] = 0
         /\ destroyed[work[i].object]
    /\ \A i, j \in 1..Len(work) :
         work[i].op = "free" /\ work[j].op = "free" /\ work[i].object = work[j].object
           => i = j
    /\ \A o \in live : refs[o] = 0 =>
         \E i \in 1..Len(work) : work[i].op = "free" /\ work[i].object = o

ObjectsInv ==
    /\ TypeOK
    /\ Counted
    /\ FreeUncounted
    /\ ReceiversCounted
    /\ RunningCounted
    /\ ThreadsHaveProcess
    /\ EndpointsHeard
    /\ TablesOK
    /\ FreesPending

-----------------------------------------------------------------------------
(* The size of the union of two disjoint sets.                             *)
LEMMA DisjointUnion ==
    ASSUME NEW S, IsFiniteSet(S), NEW T, IsFiniteSet(T), S \cap T = {}
    PROVE  Cardinality(S \cup T) = Cardinality(S) + Cardinality(T)
<1>1. Cardinality(S \cup T) = Cardinality(S) + Cardinality(T) - Cardinality(S \cap T)
  BY FS_Union
<1>2. Cardinality(S) \in Nat /\ Cardinality(T) \in Nat /\ Cardinality(S \cap T) = 0
  BY FS_CardinalityType, FS_EmptySet
<1> QED
  BY <1>1, <1>2

(* A count of references from four places does not change when one of them *)
(* moves from the third place to the second.                               *)
LEMMA OneMoves ==
    \A a, b, d \in Nat : a + 0 + (b + 1) + d = a + 1 + b + d
OBVIOUS

(* The size of a set with one element more.                                *)
LEMMA AddOne ==
    ASSUME NEW S, IsFiniteSet(S), NEW x, x \notin S
    PROVE  Cardinality(S \cup {x}) = Cardinality(S) + 1
BY FS_AddElement

(* Counting positions of a stack of calls.                                 *)
LEMMA PositionsFinite ==
    ASSUME NEW s \in Seq(Calls), NEW C
    PROVE  /\ IsFiniteSet(Positions(s, C))
           /\ Cardinality(Positions(s, C)) \in Nat
           /\ Cardinality(Positions(s, C)) = 0 <=> \A i \in 1..Len(s) : s[i] \notin C
<1>1. Len(s) \in Nat
  OBVIOUS
<1>2. IsFiniteSet(1..Len(s))
  BY <1>1, FS_Interval
<1>3. Positions(s, C) \in SUBSET (1..Len(s))
  BY DEF Positions
<1>4. IsFiniteSet(Positions(s, C))
  BY <1>2, <1>3, FS_Subset
<1>5. Cardinality(Positions(s, C)) = 0 <=> Positions(s, C) = {}
  BY <1>4, FS_EmptySet
<1>6. Positions(s, C) = {} <=> \A i \in 1..Len(s) : s[i] \notin C
  BY DEF Positions
<1> QED
  BY <1>4, <1>5, <1>6, FS_CardinalityType

(* How many pending calls of a kind there are when one is pending.         *)
LEMMA PositionsOne ==
    ASSUME NEW c, NEW C
    PROVE  Cardinality(Positions(<<c>>, C)) = IF c \in C THEN 1 ELSE 0
<1>1. Positions(<<c>>, C) = IF c \in C THEN {1} ELSE {}
  BY DEF Positions
<1> QED
  BY <1>1, FS_Singleton, FS_EmptySet

(* The same for two pending calls.                                         *)
LEMMA PositionsTwo ==
    ASSUME NEW c, NEW d, NEW C
    PROVE  Cardinality(Positions(<<c, d>>, C)) =
             (IF c \in C THEN 1 ELSE 0) + (IF d \in C THEN 1 ELSE 0)
<1>1. Positions(<<c, d>>, C) =
        (IF c \in C THEN {1} ELSE {}) \cup (IF d \in C THEN {2} ELSE {})
  <2>1. Len(<<c, d>>) = 2 /\ <<c, d>>[1] = c /\ <<c, d>>[2] = d /\ 1..2 = {1, 2}
    OBVIOUS
  <2> QED
    BY <2>1 DEF Positions
<1>2. /\ IsFiniteSet({}) /\ Cardinality({}) = 0
      /\ IsFiniteSet({1}) /\ Cardinality({1}) = 1
      /\ IsFiniteSet({2}) /\ Cardinality({2}) = 1
  BY FS_EmptySet, FS_Singleton, Zenon
<1>3. Cardinality({1} \cup {2}) = 2
  BY <1>2, DisjointUnion
<1> QED
  BY <1>1, <1>2, <1>3

(* The same for none.                                                      *)
LEMMA PositionsEmpty ==
    ASSUME NEW C
    PROVE  Cardinality(Positions(<<>>, C)) = 0
<1>1. Positions(<<>>, C) = {}
  BY DEF Positions
<1> QED
  BY <1>1, FS_EmptySet

(* Pending calls of a kind add up over two lists of calls.                 *)
LEMMA PositionsConcat ==
    ASSUME NEW s \in Seq(Calls), NEW r \in Seq(Calls), NEW C
    PROVE  Cardinality(Positions(s \o r, C)) =
             Cardinality(Positions(s, C)) + Cardinality(Positions(r, C))
<1> DEFINE n == Len(s)
           A == Positions(s, C)
           B == Positions(r, C)
           B1 == {i \in (n+1)..(n + Len(r)) : r[i - n] \in C}
           f == [i \in B |-> i + n]
<1>1. n \in Nat /\ Len(r) \in Nat
  OBVIOUS
<1>2. /\ Len(s \o r) = n + Len(r)
      /\ \A i \in 1..n : (s \o r)[i] = s[i]
      /\ \A i \in (n+1)..(n + Len(r)) : (s \o r)[i] = r[i - n]
  BY <1>1
<1>3. Positions(s \o r, C) = A \cup B1
  BY <1>1, <1>2 DEF Positions
<1>4. A \cap B1 = {}
  BY <1>1 DEF Positions
<1>5. IsFiniteSet(A) /\ IsFiniteSet(B)
  BY PositionsFinite
<1>6. f \in Bijection(B, B1)
  <2>1. f \in [B -> B1]
    BY <1>1 DEF Positions
  <2>2. \A i, j \in B : f[i] = f[j] => i = j
    BY <1>1 DEF Positions
  <2>3. \A j \in B1 : \E i \in B : f[i] = j
    <3>1. ASSUME NEW j \in B1 PROVE j - n \in B /\ f[j - n] = j
      BY <1>1 DEF Positions
    <3> QED
      BY <3>1, Zenon
  <2> QED
    BY <2>1, <2>2, <2>3 DEF Bijection, Injection, Surjection, IsInjective
<1>7. IsFiniteSet(B1) /\ Cardinality(B1) = Cardinality(B)
  BY <1>5, <1>6, FS_Bijection DEF ExistsBijection
<1>8. Cardinality(A \cup B1) = Cardinality(A) + Cardinality(B1)
  <2> HIDE DEF A, B1
  <2> QED
    BY <1>4, <1>5, <1>7, DisjointUnion
<1> QED
  BY <1>3, <1>7, <1>8

(* The first n elements of a sequence.                                     *)
LEMMA Prefix ==
    ASSUME NEW S, NEW s \in Seq(S), NEW n \in 0..Len(s)
    PROVE  /\ SubSeq(s, 1, n) \in Seq(S)
           /\ Len(SubSeq(s, 1, n)) = n
           /\ \A i \in 1..n : i \in 1..Len(s) /\ SubSeq(s, 1, n)[i] = s[i]
<1>1. SubSeq(s, 1, n) \in Seq(S) /\ Len(SubSeq(s, 1, n)) = n
  OBVIOUS
<1>2. \A i \in 1..n : i \in 1..Len(s) /\ SubSeq(s, 1, n)[i] = s[i]
  OBVIOUS
<1> QED
  BY <1>1, <1>2

(* The pending calls are the innermost one and the outer ones.             *)
LEMMA PositionsOuter ==
    ASSUME work \in Seq(Calls), work # <<>>, NEW C
    PROVE  /\ Outer \in Seq(Calls) /\ Innermost \in Calls
           /\ Len(work) \in 1..Len(work) /\ Len(Outer) = Len(work) - 1
           /\ \A i \in 1..Len(Outer) : i \in 1..Len(work) /\ Outer[i] = work[i]
           /\ Cardinality(Positions(work, C)) =
                Cardinality(Positions(Outer, C)) + (IF Innermost \in C THEN 1 ELSE 0)
<1>1. Len(work) \in Nat \ {0}
  OBVIOUS
<1>2. Innermost \in Calls
  BY <1>1 DEF Innermost
<1>3. /\ Outer \in Seq(Calls) /\ Len(Outer) = Len(work) - 1
      /\ \A i \in 1..Len(Outer) : i \in 1..Len(work) /\ Outer[i] = work[i]
  <2>1. Len(work) - 1 \in 0..Len(work)
    BY <1>1
  <2> QED
    BY <2>1, Prefix, Zenon DEF Outer
<1>4. work = Outer \o <<Innermost>>
  <2>1. <<Innermost>> \in Seq(Calls)
    BY <1>2
  <2>2. /\ Outer \o <<Innermost>> \in Seq(Calls)
        /\ Len(Outer \o <<Innermost>>) = Len(work)
    BY <1>1, <1>3, <2>1
  <2>3. \A i \in 1..Len(work) : (Outer \o <<Innermost>>)[i] = work[i]
    BY <1>1, <1>3, <2>1 DEF Innermost
  <2> QED
    BY <2>2, <2>3
<1>5. Cardinality(Positions(Outer \o <<Innermost>>, C)) =
        Cardinality(Positions(Outer, C)) + Cardinality(Positions(<<Innermost>>, C))
  <2>1. <<Innermost>> \in Seq(Calls)
    BY <1>2
  <2> QED
    BY <1>3, <2>1, PositionsConcat, Zenon
<1> QED
  BY <1>1, <1>2, <1>3, <1>4, <1>5, PositionsOne

-----------------------------------------------------------------------------
(* Counting the slots of descriptor tables.                                *)
TableType == [Processes -> [Fds -> Descriptors]]

(* The sets of objects and of descriptors are finite.                      *)
LEMMA FiniteSets ==
    /\ IsFiniteSet(Processes) /\ IsFiniteSet(Threads) /\ IsFiniteSet(Endpoints)
    /\ IsFiniteSet(Fds) /\ IsFiniteSet(Processes \X Fds)
<1>1. IsFiniteSet(Processes) /\ IsFiniteSet(Threads) /\ IsFiniteSet(Endpoints)
  BY ObjectsAssumption, FS_Subset DEF Objects
<1>2. IsFiniteSet(Fds)
  BY ObjectsAssumption, FS_Interval DEF Fds
<1> QED
  BY <1>1, <1>2, FS_Product

(* The descriptors that satisfy a condition are finitely many, and none    *)
(* exactly when no slot of a table does.                                   *)
LEMMA SlotsFinite ==
    ASSUME NEW T, NEW D
    PROVE  /\ IsFiniteSet(Slots(T, D))
           /\ Cardinality(Slots(T, D)) \in Nat
           /\ Cardinality(Slots(T, D)) = 0 <=>
                \A p \in Processes, fd \in Fds : T[p][fd] \notin D
<1>1. Slots(T, D) \in SUBSET (Processes \X Fds)
  BY DEF Slots
<1>2. IsFiniteSet(Slots(T, D))
  BY <1>1, FiniteSets, FS_Subset
<1>3. Cardinality(Slots(T, D)) = 0 <=> Slots(T, D) = {}
  BY <1>2, FS_EmptySet
<1>4. Slots(T, D) = {} <=> \A p \in Processes, fd \in Fds : T[p][fd] \notin D
  <2>1. ASSUME Slots(T, D) = {}, NEW p \in Processes, NEW fd \in Fds PROVE T[p][fd] \notin D
    <3>1. <<p, fd>> \in Processes \X Fds /\ <<p, fd>>[1] = p /\ <<p, fd>>[2] = fd
      OBVIOUS
    <3> QED
      BY <2>1, <3>1 DEF Slots
  <2> QED
    BY <2>1 DEF Slots
<1> QED
  BY <1>2, <1>3, <1>4, FS_CardinalityType

(* One slot of a table changes, and starts or stops to be in D.            *)
LEMMA SlotKept ==
    ASSUME NEW T, NEW U, NEW D, NEW p \in Processes, NEW fd \in Fds,
           \A q \in Processes, e \in Fds : q # p \/ e # fd => U[q][e] = T[q][e],
           T[p][fd] \notin D, U[p][fd] \notin D
    PROVE  Cardinality(Slots(U, D)) = Cardinality(Slots(T, D))
<1>1. Slots(U, D) = Slots(T, D)
  BY DEF Slots
<1> QED
  BY <1>1

(* Writing one slot adds one descriptor to the count.                      *)
LEMMA SlotAdded ==
    ASSUME NEW T, NEW U, NEW D, NEW p \in Processes, NEW fd \in Fds,
           \A q \in Processes, e \in Fds : q # p \/ e # fd => U[q][e] = T[q][e],
           T[p][fd] \notin D, U[p][fd] \in D
    PROVE  Cardinality(Slots(U, D)) = Cardinality(Slots(T, D)) + 1
<1>1. Slots(U, D) = Slots(T, D) \cup {<<p, fd>>} /\ <<p, fd>> \notin Slots(T, D)
  BY DEF Slots
<1> QED
  BY <1>1, SlotsFinite, FS_AddElement, Zenon

(* The descriptors of a process that is destroyed become calls.            *)
Cleared(T, U, p) == \A q \in Processes, fd \in Fds :
    U[q][fd] = IF q = p THEN FreeDesc ELSE T[q][fd]

(* Clearing a table moves its descriptors to the calls that close them: no *)
(* reference is lost or counted twice.                                     *)
LEMMA SlotsCleared ==
    ASSUME NEW T \in TableType, NEW p \in Processes, desc[p] = T[p], NEW U, Cleared(T, U, p),
           NEW D, NEW C, FreeDesc \notin D,
           \A d \in Descriptors : CloseDescriptor(p, d) \in C <=> d \in D
    PROVE  Cardinality(Slots(T, D)) =
             Cardinality(Slots(U, D)) + Cardinality(Positions(CloseDescriptors(p), C))
<1> DEFINE A == Slots(U, D)
           B == {s \in Slots(T, D) : s[1] = p}
           P == Positions(CloseDescriptors(p), C)
           f == [i \in P |-> <<p, DescNum - i>>]
<1>1. DescNum \in Nat /\ \A i \in 1..DescNum : DescNum - i \in Fds
  BY ObjectsAssumption DEF Fds
<1>2. \A q \in Processes, fd \in Fds : U[q][fd] = IF q = p THEN FreeDesc ELSE T[q][fd]
  BY DEF Cleared
<1>3. /\ T[p] \in [Fds -> Descriptors]
      /\ \A fd \in Fds : T[p][fd] \in Descriptors
  BY DEF TableType
<1>4. Len(CloseDescriptors(p)) = DescNum
      /\ \A i \in 1..DescNum : CloseDescriptors(p)[i] = CloseDescriptor(p, T[p][DescNum - i])
  BY <1>1 DEF CloseDescriptors
<1>5. P = {i \in 1..DescNum : T[p][DescNum - i] \in D}
  BY <1>1, <1>3, <1>4 DEF Positions
<1>6. Slots(T, D) = A \cup B /\ A \cap B = {}
  BY <1>2 DEF Slots
<1>7. IsFiniteSet(A) /\ IsFiniteSet(B)
  <2>1. B \in SUBSET Slots(T, D)
    OBVIOUS
  <2> QED
    BY <2>1, SlotsFinite, FS_Subset
<1>8. IsFiniteSet(P)
  <2>1. P \in SUBSET (1..DescNum) /\ IsFiniteSet(1..DescNum)
    BY <1>1, <1>5, FS_Interval
  <2> QED
    BY <2>1, FS_Subset, Zenon
<1>9. f \in Bijection(P, B)
  <2>1. f \in [P -> B]
    BY <1>1, <1>5 DEF Slots
  <2>2. \A i, j \in P : f[i] = f[j] => i = j
    BY <1>1, <1>5
  <2>3. \A s \in B : \E i \in P : f[i] = s
    <3>1. ASSUME NEW s \in B PROVE DescNum - s[2] \in P /\ f[DescNum - s[2]] = s
      <4>1. s[2] \in Fds /\ s = <<p, s[2]>> /\ T[p][s[2]] \in D
        BY DEF Slots
      <4>2. DescNum - s[2] \in 1..DescNum /\ DescNum - (DescNum - s[2]) = s[2]
        BY <1>1, <4>1 DEF Fds
      <4> QED
        BY <1>5, <4>1, <4>2
    <3> QED
      BY <3>1, Zenon
  <2> QED
    BY <2>1, <2>2, <2>3, Zenon DEF Bijection, Injection, Surjection, IsInjective
<1>10. Cardinality(B) = Cardinality(P)
  BY <1>8, <1>9, FS_Bijection DEF ExistsBijection
<1> HIDE DEF A, B, P
<1>11. Cardinality(A \cup B) = Cardinality(A) + Cardinality(B)
  BY <1>6, <1>7, DisjointUnion
<1> QED
  BY <1>6, <1>10, <1>11 DEF A, P

-----------------------------------------------------------------------------
(* What the invariant says of single objects.                              *)
LEMMA NonEmptyCounts ==
    ASSUME NEW S, IsFiniteSet(S), NEW x \in S
    PROVE  Cardinality(S) \in Nat /\ Cardinality(S) > 0
<1>1. Cardinality(S) \in Nat /\ Cardinality(S) # 0
  BY FS_CardinalityType, FS_EmptySet
<1> QED
  BY <1>1

(* What the type invariant says of the operators that the counts are made  *)
(* of.                                                                     *)
LEMMA Types ==
    ASSUME TypeOK
    PROVE  /\ Tables \in TableType /\ FreeDesc \in Descriptors /\ DestroyedDesc \in Descriptors
           /\ \A o \in Objects : AllPerms(o) \subseteq Perms
           /\ \A o \in Objects : Owner(o) \in Descriptors
           /\ \A o : FreeDesc \notin Refers(o) /\ FreeDesc \notin Receives(o)
           /\ \A o : /\ IsFiniteSet(Blocked(o)) /\ Cardinality(Blocked(o)) \in Nat
                     /\ IsFiniteSet(RunsOf(o)) /\ Cardinality(RunsOf(o)) \in Nat
<1>1. FreeDesc \in Descriptors /\ DestroyedDesc \in Descriptors
  BY Zenon DEF FreeDesc, DestroyedDesc, Descriptors
<1>2. Tables \in TableType
  BY <1>1 DEF TypeOK, Tables, Table, TableType
<1>3. \A o \in Objects : AllPerms(o) \subseteq Perms
  BY ObjectsAssumption DEF AllPerms, Perms, Objects
<1>4. \A o \in Objects : Owner(o) \in Descriptors
  BY <1>3 DEF Owner, OpenDesc, Descriptors
<1>5. \A o : FreeDesc \notin Refers(o) /\ FreeDesc \notin Receives(o)
  BY DEF FreeDesc, Refers, Receives
<1>6. \A o : Blocked(o) \in SUBSET Threads /\ RunsOf(o) \in SUBSET Threads
  BY DEF TypeOK, Blocked, RunsOf
<1>7. \A o : IsFiniteSet(Blocked(o)) /\ IsFiniteSet(RunsOf(o))
  BY <1>6, FiniteSets, FS_Subset
<1>8. \A o : Cardinality(Blocked(o)) \in Nat /\ Cardinality(RunsOf(o)) \in Nat
  BY <1>7, FS_CardinalityType
<1> QED
  BY <1>1, <1>2, <1>3, <1>4, <1>5, <1>7, <1>8

(* Whatever holds a reference to an object, the object is allocated.       *)
LEMMA ReferredLive ==
    ASSUME ObjectsInv, NEW o \in Objects,
           \/ \E p \in Processes, fd \in Fds : Tables[p][fd] \in Refers(o)
           \/ \E i \in 1..Len(work) : work[i] \in DropCalls(o)
           \/ Blocked(o) # {}
           \/ RunsOf(o) # {}
    PROVE  o \in live /\ refs[o] \in Nat /\ refs[o] > 0
<1> DEFINE a == Cardinality(Slots(Tables, Refers(o)))
           b == Cardinality(Positions(work, DropCalls(o)))
           c == Cardinality(Blocked(o))
           d == Cardinality(RunsOf(o))
<1>1. /\ a \in Nat
      /\ a = 0 <=> \A p \in Processes, fd \in Fds : Tables[p][fd] \notin Refers(o)
  BY SlotsFinite
<1>2. /\ b \in Nat
      /\ b = 0 <=> \A i \in 1..Len(work) : work[i] \notin DropCalls(o)
  BY PositionsFinite DEF ObjectsInv, TypeOK
<1>3. c \in Nat /\ (c = 0 <=> Blocked(o) = {})
  BY Types, FS_EmptySet DEF ObjectsInv
<1>4. d \in Nat /\ (d = 0 <=> RunsOf(o) = {})
  BY Types, FS_EmptySet DEF ObjectsInv
<1>5. refs[o] = a + b + c + d
  BY DEF ObjectsInv, Counted
<1>6. a # 0 \/ b # 0 \/ c # 0 \/ d # 0
  BY <1>1, <1>2, <1>3, <1>4
<1> HIDE DEF a, b, c, d
<1>7. refs[o] \in Nat /\ refs[o] > 0
  BY <1>1, <1>2, <1>3, <1>4, <1>5, <1>6
<1> QED
  BY <1>7 DEF ObjectsInv, FreeUncounted

(* The thread that makes a system call, and its process.                   *)
LEMMA Caller ==
    ASSUME ObjectsInv, NEW t \in Threads, Calling(t)
    PROVE  /\ t \in live /\ process[t] \in Processes /\ process[t] \in live
           /\ ~destroyed[process[t]] /\ Tables[process[t]] = desc[process[t]]
           /\ work = <<>> /\ work \in Seq(Calls)
           /\ \A o \in live : refs[o] \in Nat /\ refs[o] > 0
<1>1. t \in runs /\ t \in Objects /\ work = <<>> /\ work \in Seq(Calls)
  BY DEF Calling, Objects, ObjectsInv, TypeOK
<1>2. t \in RunsOf(t) /\ t \in RunsOf(process[t])
  BY <1>1 DEF RunsOf
<1>3. t \in live
  BY <1>1, <1>2, ReferredLive
<1>4. process[t] \in Processes /\ process[t] \in Objects
  BY <1>3 DEF ObjectsInv, ThreadsHaveProcess, Objects
<1>5. process[t] \in live
  BY <1>2, <1>4, ReferredLive
<1>6. running[process[t]] > 0
  <2>1. IsFiniteSet(RunsOf(process[t]))
    BY Types DEF ObjectsInv
  <2> QED
    BY <1>2, <1>4, <1>5, <2>1, NonEmptyCounts DEF ObjectsInv, RunningCounted
<1>7. ~destroyed[process[t]]
  BY <1>4, <1>5, <1>6 DEF ObjectsInv, RunningCounted
<1>8. Tables[process[t]] = desc[process[t]]
  BY <1>4, <1>5, <1>7 DEF Tables, Table
<1>9. \A o \in live : refs[o] \in Nat /\ refs[o] > 0
  <2>1. ASSUME NEW o \in live PROVE refs[o] \in Nat /\ refs[o] # 0
    <3>1. refs[o] \in Nat
      BY DEF ObjectsInv, TypeOK
    <3>2. ~ \E i \in 1..Len(work) : TRUE
      BY <1>1
    <3> QED
      BY <3>1, <3>2 DEF ObjectsInv, FreesPending
  <2> QED
    BY <2>1
<1> QED
  BY <1>1, <1>3, <1>4, <1>5, <1>7, <1>8, <1>9

(* The object of an open descriptor.                                       *)
LEMMA OpenSlot ==
    ASSUME ObjectsInv, NEW p \in Processes, NEW fd \in Fds, Tables[p][fd].state = "open"
    PROVE  /\ Tables[p][fd] \in Descriptors
           /\ Tables[p][fd].object \in Objects /\ Tables[p][fd].object \in live
           /\ Tables[p][fd].perms \subseteq AllPerms(Tables[p][fd].object)
           /\ Tables[p][fd].perms \subseteq Perms
<1>1. Tables[p][fd] \in Descriptors
  BY Types DEF ObjectsInv, TableType
<1>2. /\ Tables[p][fd].object \in Objects
      /\ Tables[p][fd].perms \subseteq AllPerms(Tables[p][fd].object)
  BY DEF ObjectsInv, TablesOK
<1>3. Tables[p][fd] \in Refers(Tables[p][fd].object)
  BY <1>1 DEF Refers
<1>4. Tables[p][fd].object \in live
  BY <1>2, <1>3, ReferredLive
<1> QED
  BY <1>1, <1>2, <1>4 DEF Descriptors

(* Slot fd of process p becomes d, and no other slot changes.              *)
SlotBecomes(p, fd, d) ==
    /\ Tables'[p][fd] = d
    /\ \A q \in Processes, e \in Fds : q # p \/ e # fd => Tables'[q][e] = Tables[q][e]

(* Binding a new descriptor d in a slot that is free: the counts of the    *)
(* object follow.                                                          *)
Binds(p, fd, d) ==
    /\ Tables[p][fd].state = "free"
    /\ d.state = "open" /\ d.object \in Objects /\ d.perms \subseteq AllPerms(d.object)
    /\ d.owner => \A q \in Processes, e \in Fds :
                    Tables[q][e].state = "open" => Tables[q][e].object # d.object
    /\ SlotBecomes(p, fd, d)
    /\ ObjectOpen(d)
    /\ work' = work
    /\ \A o \in Objects : Blocked(o)' = Blocked(o) /\ RunsOf(o)' = RunsOf(o)

(* Binding a descriptor adds the reference, and the receiver, that the     *)
(* counts record.                                                          *)
LEMMA BindStep ==
    ASSUME ObjectsInv, NEW p \in Processes, NEW fd \in Fds, NEW d \in Descriptors,
           Binds(p, fd, d)
    PROVE  /\ Counted' /\ ReceiversCounted' /\ TablesOK'
           /\ refs' \in [Objects -> Nat] /\ receivers' \in [Endpoints -> Nat]
           /\ \A o \in Objects : refs'[o] = IF o = d.object THEN refs[o] + 1 ELSE refs[o]
           /\ \A e \in Endpoints : receivers'[e] >= receivers[e]
<1>1. /\ Tables \in TableType
      /\ refs \in [Objects -> Nat] /\ receivers \in [Endpoints -> Nat]
  BY Types DEF ObjectsInv, TypeOK
<1>2. /\ \A o \in Objects : refs'[o] = IF o = d.object THEN refs[o] + 1 ELSE refs[o]
      /\ refs' \in [Objects -> Nat]
  BY <1>1 DEF Binds, ObjectOpen
<1>3. /\ \A e \in Endpoints : receivers'[e] = IF e = d.object /\ "RECEIVE" \in d.perms
                                              THEN receivers[e] + 1 ELSE receivers[e]
      /\ receivers' \in [Endpoints -> Nat]
  BY <1>1 DEF Binds, ObjectOpen
<1>4. /\ Tables'[p][fd] = d
      /\ \A q \in Processes, e \in Fds : q # p \/ e # fd => Tables'[q][e] = Tables[q][e]
  BY DEF Binds, SlotBecomes
<1>5. \A o : /\ Tables[p][fd] \notin Refers(o) /\ Tables[p][fd] \notin Receives(o)
             /\ d \in Refers(o) <=> o = d.object
             /\ d \in Receives(o) <=> o = d.object /\ "RECEIVE" \in d.perms
  BY DEF Binds, Refers, Receives
<1>6. Counted'
  <2>1. ASSUME NEW o \in Objects
        PROVE  refs'[o] = Cardinality(Slots(Tables', Refers(o)))
                            + Cardinality(Positions(work', DropCalls(o)))
                            + Cardinality(Blocked(o)') + Cardinality(RunsOf(o)')
    <3>1. Cardinality(Slots(Tables', Refers(o))) =
            Cardinality(Slots(Tables, Refers(o))) + (IF o = d.object THEN 1 ELSE 0)
      <4>1. CASE o = d.object
        <5>1. Tables[p][fd] \notin Refers(o) /\ Tables'[p][fd] \in Refers(o)
          BY <1>5, <1>4, <4>1
        <5>2. Cardinality(Slots(Tables', Refers(o))) = Cardinality(Slots(Tables, Refers(o))) + 1
          BY <1>4, <5>1, SlotAdded, Zenon
        <5> QED
          BY <4>1, <5>2
      <4>2. CASE ~ (o = d.object)
        <5>1. Tables[p][fd] \notin Refers(o) /\ Tables'[p][fd] \notin Refers(o)
          BY <1>5, <1>4, <4>2
        <5>2. Cardinality(Slots(Tables', Refers(o))) = Cardinality(Slots(Tables, Refers(o)))
          BY <1>4, <5>1, SlotKept, ZenonT(40)
        <5> QED
          BY <4>2, <5>2, SlotsFinite
      <4> QED
        BY <4>1, <4>2
    <3>2. refs[o] = Cardinality(Slots(Tables, Refers(o)))
                      + Cardinality(Positions(work, DropCalls(o)))
                      + Cardinality(Blocked(o)) + Cardinality(RunsOf(o))
      BY DEF ObjectsInv, Counted
    <3>3. /\ Cardinality(Slots(Tables, Refers(o))) \in Nat
          /\ Cardinality(Positions(work, DropCalls(o))) \in Nat
          /\ Cardinality(Blocked(o)) \in Nat /\ Cardinality(RunsOf(o)) \in Nat
      BY SlotsFinite, PositionsFinite, Types DEF ObjectsInv, TypeOK
    <3> QED
      BY <1>2, <3>1, <3>2, <3>3 DEF Binds
  <2> QED
    BY <2>1 DEF Counted
<1>7. ReceiversCounted'
  <2>1. ASSUME NEW e \in Endpoints
        PROVE  receivers'[e] = Cardinality(Slots(Tables', Receives(e)))
                                 + Cardinality(Positions(work', CloseCalls(e)))
    <3>1. Cardinality(Slots(Tables', Receives(e))) =
            Cardinality(Slots(Tables, Receives(e)))
              + (IF e = d.object /\ "RECEIVE" \in d.perms THEN 1 ELSE 0)
      <4>1. CASE e = d.object /\ "RECEIVE" \in d.perms
        <5>1. Tables[p][fd] \notin Receives(e) /\ Tables'[p][fd] \in Receives(e)
          BY <1>5, <1>4, <4>1
        <5>2. Cardinality(Slots(Tables', Receives(e))) = Cardinality(Slots(Tables, Receives(e))) + 1
          BY <1>4, <5>1, SlotAdded, Zenon
        <5> QED
          BY <4>1, <5>2
      <4>2. CASE ~ (e = d.object /\ "RECEIVE" \in d.perms)
        <5>1. Tables[p][fd] \notin Receives(e) /\ Tables'[p][fd] \notin Receives(e)
          BY <1>5, <1>4, <4>2
        <5>2. Cardinality(Slots(Tables', Receives(e))) = Cardinality(Slots(Tables, Receives(e)))
          BY <1>4, <5>1, SlotKept, Zenon
        <5> QED
          BY <4>2, <5>2, SlotsFinite
      <4> QED
        BY <4>1, <4>2
    <3>2. receivers[e] = Cardinality(Slots(Tables, Receives(e)))
                           + Cardinality(Positions(work, CloseCalls(e)))
      BY DEF ObjectsInv, ReceiversCounted
    <3>3. /\ Cardinality(Slots(Tables, Receives(e))) \in Nat
          /\ Cardinality(Positions(work, CloseCalls(e))) \in Nat
      BY SlotsFinite, PositionsFinite DEF ObjectsInv, TypeOK
    <3> QED
      BY <1>3, <3>1, <3>2, <3>3 DEF Binds
  <2> QED
    BY <2>1 DEF ReceiversCounted
<1>8. TablesOK'
  <2>1. ASSUME NEW q \in Processes, NEW e \in Fds, Tables'[q][e].state = "open"
        PROVE  /\ Tables'[q][e].object \in Objects
               /\ Tables'[q][e].perms \subseteq AllPerms(Tables'[q][e].object)
    BY <1>4, <2>1 DEF ObjectsInv, TablesOK, Binds
  <2>2. ASSUME NEW b \in Processes \X Fds, NEW c \in Processes \X Fds,
               Tables'[b[1]][b[2]].state = "open", Tables'[b[1]][b[2]].owner,
               Tables'[c[1]][c[2]].state = "open", Tables'[c[1]][c[2]].owner,
               Tables'[b[1]][b[2]].object = Tables'[c[1]][c[2]].object
        PROVE  b = c
    <3>1. /\ b = <<b[1], b[2]>> /\ b[1] \in Processes /\ b[2] \in Fds
          /\ c = <<c[1], c[2]>> /\ c[1] \in Processes /\ c[2] \in Fds
      OBVIOUS
    <3>2. CASE b = <<p, fd>> \/ c = <<p, fd>>
      BY <1>4, <2>2, <3>1, <3>2 DEF Binds
    <3>3. CASE b # <<p, fd>> /\ c # <<p, fd>>
      BY <1>4, <2>2, <3>1, <3>3 DEF ObjectsInv, TablesOK
    <3> QED
      BY <3>2, <3>3
  <2> QED
    BY <2>1, <2>2 DEF TablesOK
<1> QED
  BY <1>1, <1>2, <1>3, <1>6, <1>7, <1>8

(* DUP and MINT: a descriptor that is no owner, in a process that is not   *)
(* destroyed.                                                              *)
BindsExisting(t, p, fd, d) ==
    /\ Calling(t)
    /\ p \in live /\ ~destroyed[p]
    /\ d.state = "open" /\ d.object \in live /\ d.perms \subseteq AllPerms(d.object)
    /\ ~d.owner
    /\ DescriptorOpen(p, fd, d)
    /\ UNCHANGED <<live, destroyed, running, process, runs, holds, work>>

(* A system call that binds a descriptor to an object that exists          *)
(* preserves the invariant.                                                *)
LEMMA BindExistingStep ==
    ASSUME ObjectsInv, NEW t \in Threads, NEW p \in Processes, NEW fd \in Fds,
           NEW d \in Descriptors, BindsExisting(t, p, fd, d)
    PROVE  ObjectsInv'
<1>1. TypeOK
  BY DEF ObjectsInv
<1>2. desc \in [Processes -> [Fds -> Descriptors]]
  BY <1>1 DEF TypeOK
<1>3. /\ desc[p][fd].state = "free" /\ desc' = [desc EXCEPT ![p][fd] = d]
      /\ ObjectOpen(d)
      /\ UNCHANGED <<live, destroyed, running, process, runs, holds, work>>
      /\ p \in live /\ ~destroyed[p] /\ d.object \in live /\ d.object \in Objects
  BY <1>1 DEF BindsExisting, DescriptorOpen, TypeOK
<1>4. desc' \in [Processes -> [Fds -> Descriptors]]
  BY <1>2, <1>3
<1>5. SlotBecomes(p, fd, d)
  BY <1>2, <1>3 DEF SlotBecomes, Tables, Table
<1>6. Binds(p, fd, d)
  <2>1. Tables[p][fd].state = "free"
    BY <1>3 DEF Tables, Table
  <2>2. \A o \in Objects : Blocked(o)' = Blocked(o) /\ RunsOf(o)' = RunsOf(o)
    BY <1>3 DEF Blocked, RunsOf
  <2> QED
    BY <1>3, <1>5, <2>1, <2>2 DEF Binds, BindsExisting
<1>7. /\ Counted' /\ ReceiversCounted' /\ TablesOK'
      /\ refs' \in [Objects -> Nat] /\ receivers' \in [Endpoints -> Nat]
      /\ \A o \in Objects : refs'[o] = IF o = d.object THEN refs[o] + 1 ELSE refs[o]
      /\ \A e \in Endpoints : receivers'[e] >= receivers[e]
  BY <1>6, BindStep
<1>8. TypeOK'
  BY <1>1, <1>3, <1>4, <1>7 DEF TypeOK
<1>9. FreeUncounted'
  BY <1>3, <1>7 DEF ObjectsInv, FreeUncounted
<1>10. RunningCounted' /\ ThreadsHaveProcess'
  BY <1>3 DEF ObjectsInv, RunningCounted, ThreadsHaveProcess, RunsOf
<1>11. EndpointsHeard'
  <2>1. \A e \in Endpoints : receivers[e] > 0 => receivers'[e] > 0
    BY <1>1, <1>7 DEF TypeOK
  <2> QED
    BY <1>3, <2>1 DEF ObjectsInv, EndpointsHeard
<1>12. FreesPending'
  <2>1. work' = <<>> /\ \A o \in live' : refs'[o] # 0
    <3>1. work = <<>> /\ \A o \in live : refs[o] \in Nat /\ refs[o] > 0 /\ o \in Objects
      BY <1>1, Caller DEF BindsExisting, TypeOK
    <3> QED
      BY <1>3, <1>7, <3>1
  <2> QED
    BY <2>1 DEF FreesPending
<1> QED
  BY <1>7, <1>8, <1>9, <1>10, <1>11, <1>12 DEF ObjectsInv

(* The descriptors that a system call of t finds.                          *)
LEMMA AccessedFd ==
    ASSUME ObjectsInv, NEW t \in Threads, Calling(t), NEW fd \in Fds
    PROVE  /\ Fd(t, fd) = Tables[process[t]][fd] /\ Fd(t, fd) \in Descriptors
           /\ Fd(t, fd).state = "open" =>
                /\ Fd(t, fd).object \in Objects /\ Fd(t, fd).object \in live
                /\ Fd(t, fd).perms \subseteq AllPerms(Fd(t, fd).object)
                /\ Fd(t, fd).perms \subseteq Perms
<1>1. process[t] \in Processes /\ Fd(t, fd) = Tables[process[t]][fd]
  BY Caller DEF Fd
<1>2. Fd(t, fd) \in Descriptors
  BY <1>1, Types DEF ObjectsInv, TableType
<1> QED
  BY <1>1, <1>2, OpenSlot

(* DUP preserves it.                                                       *)
LEMMA DupStep ==
    ASSUME ObjectsInv, NEW t \in Threads, NEW pfd \in Fds, NEW src \in Fds, NEW dest \in Fds,
           Dup(t, pfd, src, dest)
    PROVE  ObjectsInv'
<1> DEFINE p == Fd(t, pfd).object
<1>1. Calling(t)
  BY DEF Dup
<1>2. p \in Processes /\ p \in live /\ ~destroyed[p]
  BY <1>1, AccessedFd DEF Dup, Bindable, Accessible
<1>3. /\ Fd(t, src) \in Descriptors /\ Fd(t, src).state = "open"
      /\ Fd(t, src).object \in live
      /\ Fd(t, src).perms \subseteq AllPerms(Fd(t, src).object)
  BY <1>1, AccessedFd DEF Dup, Accessible
<1>4. BindsExisting(t, p, dest, Fd(t, src))
  BY <1>1, <1>2, <1>3 DEF Dup, BindsExisting
<1> QED
  BY <1>2, <1>3, <1>4, BindExistingStep

(* MINT preserves it.                                                      *)
LEMMA MintStep ==
    ASSUME ObjectsInv, NEW t \in Threads, NEW owner \in Fds, NEW perms \in MintPerms,
           NEW pfd \in Fds, NEW fd \in Fds, Mint(t, owner, perms, pfd, fd)
    PROVE  ObjectsInv'
<1> DEFINE p == Fd(t, pfd).object
           o == Fd(t, owner).object
           d == OpenDesc(o, perms, FALSE)
<1>1. Calling(t)
  BY DEF Mint
<1>2. p \in Processes /\ p \in live /\ ~destroyed[p]
  BY <1>1, AccessedFd DEF Mint, Bindable, Accessible
<1>3. o \in live /\ o \in Objects
  BY <1>1, AccessedFd DEF Mint, Accessible
<1>4. d \in Descriptors
  BY <1>3, ObjectsAssumption DEF OpenDesc, Descriptors
<1>5. BindsExisting(t, p, fd, d)
  BY <1>1, <1>2, <1>3, Zenon DEF Mint, BindsExisting, OpenDesc
<1> QED
  BY <1>2, <1>4, <1>5, BindExistingStep, Zenon

(* CREATE_ENDPOINT, CREATE_PROCESS and CREATE_THREAD: memory that is free  *)
(* becomes an object with one reference, from the owner descriptor.        *)
Creates(t, fd, o) ==
    /\ Calling(t)
    /\ o \notin live
    /\ live' = live \cup {o}
    /\ destroyed' = [destroyed EXCEPT ![o] = FALSE]
    /\ Fd(t, fd).state = "free"
    /\ desc' \in [Processes -> [Fds -> Descriptors]]
    /\ desc'[process[t]][fd] = Owner(o)
    /\ \A q \in Processes \ {o}, e \in Fds : q # process[t] \/ e # fd => desc'[q][e] = desc[q][e]
    /\ o \in Processes => desc'[o] = [i \in Fds |-> FreeDesc]
    /\ ObjectOpen(Owner(o))
    /\ running' \in [Processes -> Nat]
    /\ \A q \in Processes : running'[q] = IF q = o THEN 0 ELSE running[q]
    /\ process' \in [Threads -> Processes \cup {NULL}]
    /\ \A u \in Threads : IF u = o THEN process'[u] \in Processes ELSE process'[u] = process[u]
    /\ UNCHANGED <<runs, holds, work>>

(* A system call that creates an object and binds its owner preserves the  *)
(* invariant.                                                              *)
LEMMA CreateStep ==
    ASSUME ObjectsInv, NEW t \in Threads, NEW fd \in Fds, NEW o \in Objects, Creates(t, fd, o)
    PROVE  ObjectsInv'
<1> DEFINE p == process[t]
           d == Owner(o)
<1>1. TypeOK
  BY DEF ObjectsInv
<1>2. /\ p \in Processes /\ p \in live /\ ~destroyed[p] /\ Tables[p] = desc[p] /\ p # o
      /\ work = <<>> /\ \A x \in live : refs[x] \in Nat /\ refs[x] > 0
  BY Caller DEF Creates
<1>3. /\ d \in Descriptors /\ d.state = "open" /\ d.object = o /\ d.perms = AllPerms(o)
      /\ Tables \in TableType
  BY <1>1, Types DEF Owner, OpenDesc
<1>4. /\ \A q \in Processes, e \in Fds : Tables[q][e].state = "open" => Tables[q][e].object # o
      /\ Blocked(o) = {} /\ RunsOf(o) = {} /\ o \notin runs
  <2>1. ASSUME NEW q \in Processes, NEW e \in Fds, Tables[q][e].state = "open"
        PROVE  Tables[q][e].object # o
    BY <2>1, OpenSlot DEF Creates
  <2>2. Blocked(o) = {} /\ RunsOf(o) = {}
    BY ReferredLive DEF Creates
  <2>3. o \in runs => o \in RunsOf(o)
    BY DEF RunsOf
  <2> QED
    BY <2>1, <2>2, <2>3
<1>5. /\ destroyed' \in [Objects -> BOOLEAN] /\ ~destroyed'[o]
      /\ \A x \in Objects \ {o} : destroyed'[x] = destroyed[x]
  BY <1>1 DEF Creates, TypeOK
<1>6. SlotBecomes(p, fd, d)
  <2>1. Tables'[p][fd] = d
    BY <1>2, <1>5 DEF Creates, Tables, Table, Objects
  <2>2. ASSUME NEW q \in Processes, NEW e \in Fds, q # p \/ e # fd
        PROVE  Tables'[q][e] = Tables[q][e]
    <3>1. CASE q = o
      BY <1>5, <3>1 DEF Creates, Tables, Table
    <3>2. CASE q # o
      <4>1. (q \in live' /\ ~destroyed'[q]) <=> (q \in live /\ ~destroyed[q])
        BY <1>5, <3>2 DEF Creates, Objects
      <4>2. desc'[q][e] = desc[q][e]
        BY <2>2, <3>2 DEF Creates
      <4> QED
        BY <4>1, <4>2 DEF Tables, Table
    <3> QED
      BY <3>1, <3>2
  <2> QED
    BY <2>1, <2>2 DEF SlotBecomes
<1>7. \A x \in Objects : Blocked(x)' = Blocked(x) /\ RunsOf(x)' = RunsOf(x)
  <2>1. \A u \in runs : process'[u] = process[u]
    BY <1>1, <1>4 DEF Creates, TypeOK
  <2> QED
    BY <2>1 DEF Creates, Blocked, RunsOf
<1>8. Binds(p, fd, d)
  <2>1. Tables[p][fd].state = "free"
    BY <1>2 DEF Creates, Fd
  <2>2. ObjectOpen(d) /\ work' = work
    BY DEF Creates
  <2> HIDE DEF d
  <2> QED
    BY <1>3, <1>4, <1>6, <1>7, <2>1, <2>2 DEF Binds
<1>9. /\ Counted' /\ ReceiversCounted' /\ TablesOK'
      /\ refs' \in [Objects -> Nat] /\ receivers' \in [Endpoints -> Nat]
      /\ \A x \in Objects : refs'[x] = IF x = o THEN refs[x] + 1 ELSE refs[x]
      /\ \A e \in Endpoints : receivers'[e] >= receivers[e]
  BY <1>2, <1>3, <1>8, BindStep
<1>10. TypeOK'
  BY <1>1, <1>5, <1>9 DEF TypeOK, Creates
<1>11. FreeUncounted'
  BY <1>9 DEF ObjectsInv, FreeUncounted, Creates
<1>12. RunningCounted' /\ ThreadsHaveProcess'
  <2>1. ASSUME NEW q \in Processes, q \in live'
        PROVE  running'[q] = Cardinality(RunsOf(q)') /\ (destroyed'[q] => running'[q] = 0)
    <3>1. CASE q = o
      <4>1. RunsOf(q)' = {} /\ running'[q] = 0
        BY <1>4, <1>7, <3>1 DEF Creates
      <4> QED
        BY <4>1, FS_EmptySet
    <3>2. CASE q # o
      <4>1. /\ q \in live /\ RunsOf(q)' = RunsOf(q) /\ running'[q] = running[q]
            /\ destroyed'[q] = destroyed[q]
        BY <1>5, <1>7, <2>1, <3>2 DEF Creates, Objects
      <4> QED
        BY <4>1 DEF ObjectsInv, RunningCounted
    <3> QED
      BY <3>1, <3>2
  <2>2. ASSUME NEW u \in Threads, u \in live' PROVE process'[u] \in Processes
    BY <2>2 DEF ObjectsInv, ThreadsHaveProcess, Creates
  <2> QED
    BY <2>1, <2>2 DEF RunningCounted, ThreadsHaveProcess
<1>13. EndpointsHeard'
  <2>1. ASSUME NEW e \in Endpoints, e \in live', ~destroyed'[e] PROVE receivers'[e] > 0
    <3>1. receivers[e] \in Nat /\ receivers'[e] \in Nat
      BY <1>1, <1>9 DEF TypeOK
    <3>2. CASE e = o
      <4>1. "RECEIVE" \in AllPerms(o)
        BY <3>2, ObjectsAssumption DEF AllPerms, Objects
      <4>2. receivers'[e] = receivers[e] + 1
        BY <1>3, <3>2, <4>1 DEF Creates, ObjectOpen
      <4> QED
        BY <3>1, <4>2
    <3>3. CASE e # o
      <4>1. e \in live /\ ~destroyed[e]
        BY <1>5, <2>1, <3>3 DEF Creates, Objects
      <4>2. receivers[e] > 0
        BY <4>1 DEF ObjectsInv, EndpointsHeard
      <4> QED
        BY <1>9, <3>1, <4>2
    <3> QED
      BY <3>2, <3>3
  <2> QED
    BY <2>1 DEF EndpointsHeard
<1>14. FreesPending'
  <2>1. work' = <<>> /\ \A x \in live' : refs'[x] # 0
    <3>1. \A x \in live : x \in Objects
      BY <1>1 DEF TypeOK
    <3>2. refs[o] \in Nat
      BY <1>1 DEF TypeOK
    <3>3. live' = live \cup {o} /\ work' = work
      BY DEF Creates
    <3>4. refs'[o] # 0
      BY <1>2, <1>9, <3>2
    <3>5. ASSUME NEW x \in live PROVE refs'[x] # 0
      <4>1. x \in Objects /\ refs[x] # 0
        BY <1>2, <3>1
      <4>2. refs'[x] = refs[x] \/ x = o
        BY <1>9, <4>1
      <4> QED
        BY <3>4, <4>1, <4>2
    <3> QED
      BY <1>2, <3>3, <3>4, <3>5
  <2>2. 1..Len(work') = {}
    BY <2>1
  <2> QED
    BY <2>1, <2>2, Zenon DEF FreesPending
<1> QED
  BY <1>9, <1>10, <1>11, <1>12, <1>13, <1>14 DEF ObjectsInv

(* CREATE_ENDPOINT preserves it.                                           *)
LEMMA CreateEndpointStep ==
    ASSUME ObjectsInv, NEW t \in Threads, NEW fd \in Fds, NEW e \in Endpoints,
           CreateEndpoint(t, fd, e)
    PROVE  ObjectsInv'
<1>1. /\ process[t] \in Processes /\ e \in Objects /\ e \notin Processes /\ e \notin Threads
      /\ TypeOK /\ Owner(e) \in Descriptors
  BY Caller, Types, ObjectsAssumption, Zenon DEF CreateEndpoint, Objects, ObjectsInv
<1>2. /\ desc \in [Processes -> [Fds -> Descriptors]] /\ running \in [Processes -> Nat]
      /\ process \in [Threads -> Processes \cup {NULL}]
  BY <1>1 DEF TypeOK
<1>3. /\ desc[process[t]][fd].state = "free" /\ ObjectOpen(Owner(e))
      /\ desc' = [desc EXCEPT ![process[t]][fd] = Owner(e)]
      /\ UNCHANGED <<running, process, runs, holds, work>>
      /\ Calling(t) /\ e \notin live /\ live' = live \cup {e}
      /\ destroyed' = [destroyed EXCEPT ![e] = FALSE]
  BY DEF CreateEndpoint, DescriptorOpen
<1>4. /\ desc' \in [Processes -> [Fds -> Descriptors]]
      /\ desc'[process[t]][fd] = Owner(e)
      /\ \A q \in Processes, i \in Fds : q # process[t] \/ i # fd => desc'[q][i] = desc[q][i]
  BY <1>1, <1>2, <1>3
<1>5. Creates(t, fd, e)
  BY <1>1, <1>2, <1>3, <1>4 DEF Creates, Fd
<1> QED
  BY <1>1, <1>5, CreateStep

(* CREATE_PROCESS preserves it: the new table is empty.                    *)
LEMMA CreateProcessStep ==
    ASSUME ObjectsInv, NEW t \in Threads, NEW fd \in Fds, NEW p \in Processes,
           CreateProcess(t, fd, p)
    PROVE  ObjectsInv'
<1>1. /\ process[t] \in Processes /\ process[t] \in live /\ p \in Objects /\ p \notin Threads
      /\ TypeOK /\ Owner(p) \in Descriptors /\ FreeDesc \in Descriptors
  BY Caller, Types, ObjectsAssumption DEF CreateProcess, Objects, ObjectsInv
<1>2. /\ desc \in [Processes -> [Fds -> Descriptors]] /\ running \in [Processes -> Nat]
      /\ process \in [Threads -> Processes \cup {NULL}]
  BY <1>1 DEF TypeOK
<1>3. /\ Fd(t, fd).state = "free" /\ ObjectOpen(Owner(p))
      /\ desc' = [desc EXCEPT ![p] = [i \in Fds |-> FreeDesc], ![process[t]][fd] = Owner(p)]
      /\ running' = [running EXCEPT ![p] = 0]
      /\ UNCHANGED <<process, runs, holds, work>>
      /\ Calling(t) /\ p \notin live /\ live' = live \cup {p}
      /\ destroyed' = [destroyed EXCEPT ![p] = FALSE]
  BY DEF CreateProcess
<1>4. /\ desc' \in [Processes -> [Fds -> Descriptors]]
      /\ desc'[process[t]][fd] = Owner(p)
      /\ \A q \in Processes \ {p}, i \in Fds :
           q # process[t] \/ i # fd => desc'[q][i] = desc[q][i]
      /\ desc'[p] = [i \in Fds |-> FreeDesc]
  BY <1>1, <1>2, <1>3
<1>5. /\ running' \in [Processes -> Nat]
      /\ \A q \in Processes : running'[q] = IF q = p THEN 0 ELSE running[q]
  BY <1>2, <1>3
<1>6. Creates(t, fd, p)
  BY <1>1, <1>2, <1>3, <1>4, <1>5 DEF Creates
<1> QED
  BY <1>1, <1>6, CreateStep

(* CREATE_THREAD preserves it: the thread refers to its process.           *)
LEMMA CreateThreadStep ==
    ASSUME ObjectsInv, NEW t \in Threads, NEW fd \in Fds, NEW pfd \in Fds, NEW u \in Threads,
           CreateThread(t, fd, pfd, u)
    PROVE  ObjectsInv'
<1>1. /\ process[t] \in Processes /\ u \in Objects /\ u \notin Processes /\ u \notin Endpoints
      /\ TypeOK /\ Owner(u) \in Descriptors /\ Fd(t, pfd).object \in Processes
  BY Caller, Types, ObjectsAssumption DEF CreateThread, Objects, ObjectsInv
<1>2. /\ desc \in [Processes -> [Fds -> Descriptors]] /\ running \in [Processes -> Nat]
      /\ process \in [Threads -> Processes \cup {NULL}]
      /\ refs \in [Objects -> Nat] /\ receivers \in [Endpoints -> Nat]
  BY <1>1 DEF TypeOK
<1>3. /\ Fd(t, fd).state = "free" /\ refs' = [refs EXCEPT ![u] = 1]
      /\ desc' = [desc EXCEPT ![process[t]][fd] = Owner(u)]
      /\ process' = [process EXCEPT ![u] = Fd(t, pfd).object]
      /\ UNCHANGED <<receivers, running, runs, holds, work>>
      /\ Calling(t) /\ u \notin live /\ live' = live \cup {u}
      /\ destroyed' = [destroyed EXCEPT ![u] = FALSE]
  BY DEF CreateThread
<1>4. /\ desc' \in [Processes -> [Fds -> Descriptors]]
      /\ desc'[process[t]][fd] = Owner(u)
      /\ \A q \in Processes, i \in Fds : q # process[t] \/ i # fd => desc'[q][i] = desc[q][i]
  BY <1>1, <1>2, <1>3
<1>5. /\ process' \in [Threads -> Processes \cup {NULL}]
      /\ \A v \in Threads : IF v = u THEN process'[v] \in Processes ELSE process'[v] = process[v]
  BY <1>1, <1>2, <1>3
<1>6. ObjectOpen(Owner(u))
  <2>1. refs[u] = 0 /\ Owner(u).object = u
    BY <1>1, <1>3 DEF ObjectsInv, FreeUncounted, Owner, OpenDesc
  <2>2. refs' = [refs EXCEPT ![u] = @ + 1]
    BY <1>2, <1>3, <2>1
  <2>3. receivers = [e \in Endpoints |->
                       IF e = u /\ "RECEIVE" \in Owner(u).perms
                         THEN receivers[e] + 1 ELSE receivers[e]]
    BY <1>1, <1>2
  <2> QED
    BY <1>3, <2>1, <2>2, <2>3, ZenonT(40) DEF ObjectOpen
<1>7. Creates(t, fd, u)
  BY <1>1, <1>2, <1>3, <1>4, <1>5, <1>6 DEF Creates
<1> QED
  BY <1>1, <1>7, CreateStep

-----------------------------------------------------------------------------
(* CLOSE, and access to a descriptor whose object is destroyed: the slot   *)
(* gives up its reference, which a call in progress will drop.             *)
Unbinds(t, fd, d) ==
    /\ Calling(t)
    /\ d.state # "open"
    /\ desc' = [desc EXCEPT ![process[t]][fd] = d]
    /\ work' = IF Fd(t, fd).state = "open"
                 THEN <<Call("close", Fd(t, fd).object, Fd(t, fd).perms)>> ELSE <<>>
    /\ UNCHANGED <<objectVars, running, process, runs, holds>>

(* Closing a descriptor moves its reference to the call that drops it.     *)
LEMMA UnbindStep ==
    ASSUME ObjectsInv, NEW t \in Threads, NEW fd \in Fds, NEW d \in Descriptors,
           Unbinds(t, fd, d)
    PROVE  ObjectsInv'
<1> DEFINE p == process[t]
           x == Fd(t, fd)
           c == Call("close", x.object, x.perms)
<1>1. TypeOK /\ Calling(t)
  BY DEF ObjectsInv, Unbinds
<1>2. /\ p \in Processes /\ p \in live /\ ~destroyed[p] /\ Tables[p] = desc[p]
      /\ work = <<>> /\ \A o \in live : refs[o] \in Nat /\ refs[o] > 0
  BY <1>1, Caller
<1>3. /\ UNCHANGED <<live, refs, destroyed, receivers, running, process, runs, holds>>
      /\ desc' = [desc EXCEPT ![p][fd] = d] /\ d.state # "open"
      /\ work' = IF x.state = "open" THEN <<c>> ELSE <<>>
  BY DEF Unbinds, objectVars
<1>4. /\ x = Tables[p][fd] /\ x \in Descriptors
      /\ x.state = "open" => x.object \in Objects /\ x.object \in live /\ x.perms \subseteq Perms
  BY <1>1, AccessedFd
<1>5. SlotBecomes(p, fd, d)
  <2>1. desc \in [Processes -> [Fds -> Descriptors]]
    BY <1>1 DEF TypeOK
  <2> QED
    BY <1>2, <1>3, <2>1 DEF SlotBecomes, Tables, Table
<1>6. x.state = "open" => c \in Calls /\ c.op = "close" /\ c.object = x.object /\ c.perms = x.perms
  BY <1>4 DEF Call, Calls
<1>7. TypeOK'
  <2>1. desc' \in [Processes -> [Fds -> Descriptors]]
    BY <1>1, <1>2, <1>3 DEF TypeOK
  <2>2. work' \in Seq(Calls)
    BY <1>3, <1>6
  <2> QED
    BY <1>1, <1>3, <2>1, <2>2 DEF TypeOK
<1>8. /\ Tables'[p][fd] = d
      /\ \A q \in Processes, e \in Fds : q # p \/ e # fd => Tables'[q][e] = Tables[q][e]
  BY <1>5 DEF SlotBecomes
<1>9. \A o : /\ d \notin Refers(o) /\ d \notin Receives(o)
             /\ x \in Refers(o) <=> x.state = "open" /\ o = x.object
             /\ x \in Receives(o) <=> x.state = "open" /\ o = x.object /\ "RECEIVE" \in x.perms
  BY <1>3, <1>4 DEF Refers, Receives
<1>10. x.state = "open" => \A o :
         /\ c \in DropCalls(o) <=> o = x.object
         /\ c \in CloseCalls(o) <=> o = x.object /\ "RECEIVE" \in x.perms
  BY <1>6, ZenonT(40) DEF DropCalls, CloseCalls
<1>11. p \in Processes
  BY <1>2, ZenonT(40)
<1> HIDE DEF p, x, c
<1>12. Counted'
  <2>1. ASSUME NEW o \in Objects
        PROVE  Cardinality(Slots(Tables', Refers(o)))
                 + Cardinality(Positions(work', DropCalls(o)))
               = Cardinality(Slots(Tables, Refers(o))) + Cardinality(Positions(work, DropCalls(o)))
    <3>1. Cardinality(Positions(work, DropCalls(o))) = 0
      BY <1>2, PositionsEmpty
    <3>2. Cardinality(Slots(Tables', Refers(o))) \in Nat
      BY SlotsFinite
    <3>3. CASE x \in Refers(o)
      <4>1. Cardinality(Slots(Tables, Refers(o))) = Cardinality(Slots(Tables', Refers(o))) + 1
        <5>1. Tables[p][fd] \in Refers(o) /\ Tables'[p][fd] \notin Refers(o)
          BY <1>4, <1>8, <1>9, <3>3
        <5> QED
          BY <1>8, <1>11, <5>1, SlotAdded
      <4>2. Cardinality(Positions(work', DropCalls(o))) = 1
        BY <1>3, <1>9, <1>10, <3>3, PositionsOne
      <4> QED
        BY <3>1, <3>2, <4>1, <4>2
    <3>4. CASE x \notin Refers(o)
      <4>1. Cardinality(Slots(Tables', Refers(o))) = Cardinality(Slots(Tables, Refers(o)))
        <5>1. Tables[p][fd] \notin Refers(o) /\ Tables'[p][fd] \notin Refers(o)
          BY <1>4, <1>8, <1>9, <3>4
        <5> QED
          BY <1>8, <1>11, <5>1, SlotKept, Zenon
      <4>2. Cardinality(Positions(work', DropCalls(o))) = 0
        BY <1>3, <1>9, <1>10, <3>4, PositionsOne, PositionsEmpty
      <4> QED
        BY <3>1, <4>1, <4>2
    <3> QED
      BY <3>3, <3>4
  <2>2. ASSUME NEW o \in Objects
        PROVE  /\ Blocked(o)' = Blocked(o) /\ RunsOf(o)' = RunsOf(o)
               /\ refs'[o] = refs[o]
    BY <1>3 DEF Blocked, RunsOf
  <2> QED
    BY <2>1, <2>2 DEF ObjectsInv, Counted
<1>13. ReceiversCounted'
  <2>1. ASSUME NEW o \in Endpoints
        PROVE  Cardinality(Slots(Tables', Receives(o)))
                 + Cardinality(Positions(work', CloseCalls(o)))
               = Cardinality(Slots(Tables, Receives(o)))
                 + Cardinality(Positions(work, CloseCalls(o)))
    <3>1. Cardinality(Positions(work, CloseCalls(o))) = 0
      BY <1>2, PositionsEmpty, Zenon
    <3>2. Cardinality(Slots(Tables', Receives(o))) \in Nat
      BY SlotsFinite
    <3>3. CASE x \in Receives(o)
      <4>1. Cardinality(Slots(Tables, Receives(o))) = Cardinality(Slots(Tables', Receives(o))) + 1
        <5>1. Tables[p][fd] \in Receives(o) /\ Tables'[p][fd] \notin Receives(o)
          BY <1>4, <1>8, <1>9, <3>3
        <5> QED
          BY <1>8, <1>11, <5>1, SlotAdded, ZenonT(40)
      <4>2. Cardinality(Positions(work', CloseCalls(o))) = 1
        BY <1>3, <1>9, <1>10, <3>3, PositionsOne
      <4> QED
        BY <3>1, <3>2, <4>1, <4>2
    <3>4. CASE x \notin Receives(o)
      <4>1. Cardinality(Slots(Tables', Receives(o))) = Cardinality(Slots(Tables, Receives(o)))
        <5>1. Tables[p][fd] \notin Receives(o) /\ Tables'[p][fd] \notin Receives(o)
          BY <1>4, <1>8, <1>9, <3>4
        <5> QED
          BY <1>8, <1>11, <5>1, SlotKept, Zenon
      <4>2. Cardinality(Positions(work', CloseCalls(o))) = 0
        BY <1>3, <1>9, <1>10, <3>4, PositionsOne, PositionsEmpty
      <4> QED
        BY <3>1, <4>1, <4>2
    <3> QED
      BY <3>3, <3>4
  <2> QED
    BY <1>3, <2>1 DEF ObjectsInv, ReceiversCounted
<1>14. /\ FreeUncounted' /\ RunningCounted' /\ ThreadsHaveProcess' /\ EndpointsHeard'
  <2>1. \A o : RunsOf(o)' = RunsOf(o)
    BY <1>3 DEF RunsOf
  <2> QED
    BY <1>3, <2>1
    DEF ObjectsInv, FreeUncounted, RunningCounted, ThreadsHaveProcess, EndpointsHeard
<1>15. TablesOK'
  <2>1. \A q \in Processes, e \in Fds :
          Tables'[q][e].state = "open" => (q # p \/ e # fd) /\ Tables'[q][e] = Tables[q][e]
    BY <1>3, <1>8
  <2>2. ASSUME NEW q \in Processes, NEW e \in Fds, Tables'[q][e].state = "open"
        PROVE  /\ Tables'[q][e].object \in Objects
               /\ Tables'[q][e].perms \subseteq AllPerms(Tables'[q][e].object)
    BY <2>1, <2>2 DEF ObjectsInv, TablesOK
  <2>3. ASSUME NEW a \in Processes \X Fds, NEW b \in Processes \X Fds,
               Tables'[a[1]][a[2]].state = "open", Tables'[a[1]][a[2]].owner,
               Tables'[b[1]][b[2]].state = "open", Tables'[b[1]][b[2]].owner,
               Tables'[a[1]][a[2]].object = Tables'[b[1]][b[2]].object
        PROVE  a = b
    <3>1. /\ a[1] \in Processes /\ a[2] \in Fds
          /\ b[1] \in Processes /\ b[2] \in Fds
      OBVIOUS
    <3>2. /\ Tables'[a[1]][a[2]] = Tables[a[1]][a[2]]
          /\ Tables'[b[1]][b[2]] = Tables[b[1]][b[2]]
      BY <2>1, <2>3, <3>1, Zenon
    <3> QED
      BY <2>3, <3>2 DEF ObjectsInv, TablesOK
  <2> QED
    BY <2>2, <2>3 DEF TablesOK
<1>16. FreesPending'
  <2>1. \A i \in 1..Len(work') : work'[i].op = "close"
    BY <1>3, <1>6
  <2>2. \A o \in live' : refs'[o] # 0
    BY <1>2, <1>3
  <2> QED
    BY <2>1, <2>2 DEF FreesPending
<1> QED
  BY <1>7, <1>12, <1>13, <1>14, <1>15, <1>16 DEF ObjectsInv

(* CLOSE preserves the invariant.                                          *)
LEMMA CloseStep ==
    ASSUME ObjectsInv, NEW t \in Threads, NEW fd \in Fds, Close(t, fd)
    PROVE  ObjectsInv'
<1>1. FreeDesc \in Descriptors /\ FreeDesc.state # "open"
  BY Types DEF ObjectsInv, FreeDesc
<1>2. Unbinds(t, fd, FreeDesc)
  BY <1>1 DEF Close, Unbinds
<1> QED
  BY <1>1, <1>2, UnbindStep

(* The lookup of a descriptor whose object was destroyed closes it and     *)
(* preserves the invariant.                                                *)
LEMMA AccessDestroyedStep ==
    ASSUME ObjectsInv, NEW t \in Threads, NEW fd \in Fds, AccessDestroyed(t, fd)
    PROVE  ObjectsInv'
<1>1. DestroyedDesc \in Descriptors /\ DestroyedDesc.state # "open"
  BY Types DEF ObjectsInv, DestroyedDesc, FreeDesc
<1>2. Unbinds(t, fd, DestroyedDesc)
  BY <1>1 DEF AccessDestroyed, Unbinds
<1> QED
  BY <1>1, <1>2, UnbindStep

-----------------------------------------------------------------------------
(* Steps that leave the descriptors alone.                                 *)
LEMMA SameTables ==
    ASSUME TypeOK, live' = live, desc' = desc,
           \A p \in Processes : destroyed'[p] = destroyed[p]
    PROVE  Tables' = Tables /\ (TablesOK => TablesOK')
<1>1. Tables' = Tables
  BY DEF Tables, Table
<1>2. TablesOK => TablesOK'
  BY <1>1 DEF TablesOK
<1> QED
  BY <1>1, <1>2

(* With no call pending, no object waits to be freed.                      *)
LEMMA NothingPending ==
    ASSUME work' = <<>>, \A o \in live' : refs'[o] # 0
    PROVE  FreesPending'
<1>1. 1..Len(work') = {}
  OBVIOUS
<1> QED
  BY <1>1 DEF FreesPending

(* The four counts that make up a reference count are numbers.             *)
LEMMA CountsNat ==
    ASSUME TypeOK, NEW o \in Objects
    PROVE  /\ Cardinality(Slots(Tables, Refers(o))) \in Nat
           /\ Cardinality(Positions(work, DropCalls(o))) \in Nat
           /\ Cardinality(Blocked(o)) \in Nat /\ Cardinality(RunsOf(o)) \in Nat
<1>1. work \in Seq(Calls)
  BY DEF TypeOK
<1>2. Cardinality(Slots(Tables, Refers(o))) \in Nat
  BY SlotsFinite
<1>3. Cardinality(Positions(work, DropCalls(o))) \in Nat
  BY <1>1, PositionsFinite
<1> QED
  BY <1>2, <1>3, Types

(* DESTROY: the endpoint is marked, its references stay.                   *)
LEMMA DestroyStep ==
    ASSUME ObjectsInv, NEW t \in Threads, NEW fd \in Fds, Destroy(t, fd)
    PROVE  ObjectsInv'
<1> DEFINE e == Fd(t, fd).object
<1>1. TypeOK /\ work = <<>> /\ \A o \in live : refs[o] \in Nat /\ refs[o] > 0
  BY Caller DEF ObjectsInv, Destroy
<1>2. /\ e \in Endpoints /\ e \notin Processes
      /\ UNCHANGED <<live, refs, receivers, running, desc, process, runs, holds, work>>
      /\ destroyed' = [destroyed EXCEPT ![e] = TRUE]
  BY ObjectsAssumption DEF Destroy
<1> HIDE DEF e
<1>3. /\ destroyed' \in [Objects -> BOOLEAN]
      /\ \A o \in Objects : o # e => destroyed'[o] = destroyed[o]
      /\ destroyed'[e]
  BY <1>1, <1>2 DEF TypeOK, Objects
<1>4. TypeOK'
  BY <1>1, <1>2, <1>3 DEF TypeOK
<1>5. Tables' = Tables /\ TablesOK'
  <2>1. \A p \in Processes : p \in Objects /\ p # e
    BY <1>2 DEF Objects
  <2>2. \A p \in Processes : destroyed'[p] = destroyed[p]
    BY <1>3, <2>1
  <2>3. live' = live /\ desc' = desc
    BY <1>2
  <2> QED
    BY <1>1, <2>3, <2>2, SameTables DEF ObjectsInv
<1>6. \A o : Blocked(o)' = Blocked(o) /\ RunsOf(o)' = RunsOf(o)
  BY <1>2 DEF Blocked, RunsOf
<1>7. Counted' /\ ReceiversCounted'
  BY <1>2, <1>5, <1>6 DEF ObjectsInv, Counted, ReceiversCounted
<1>8. FreeUncounted' /\ ThreadsHaveProcess'
  BY <1>2 DEF ObjectsInv, FreeUncounted, ThreadsHaveProcess
<1>9. RunningCounted'
  BY <1>2, <1>3, <1>6 DEF ObjectsInv, RunningCounted, Objects
<1>10. EndpointsHeard'
  BY <1>2, <1>3 DEF ObjectsInv, EndpointsHeard, Objects
<1>11. FreesPending'
  BY <1>1, <1>2 DEF FreesPending
<1> QED
  BY <1>4, <1>5, <1>7, <1>8, <1>9, <1>10, <1>11 DEF ObjectsInv

(* START_THREAD: one more reference to the thread and to its process, for  *)
(* as long as it runs.                                                     *)
LEMMA StartThreadStep ==
    ASSUME ObjectsInv, NEW t \in Threads, NEW fd \in Fds, StartThread(t, fd),
           "start_orphan" \notin AppMay
    PROVE  ObjectsInv'
<1> DEFINE u == Fd(t, fd).object
           p == process[u]
<1>1. TypeOK /\ work = <<>> /\ \A o \in live : refs[o] \in Nat /\ refs[o] > 0
  BY Caller DEF ObjectsInv, StartThread
<1>2. /\ u \in Threads /\ u \notin runs /\ p \in live /\ ~destroyed[p]
      /\ running' = [running EXCEPT ![p] = @ + 1]
      /\ refs' = [refs EXCEPT ![p] = @ + 1, ![u] = @ + 1]
      /\ runs' = runs \cup {u}
      /\ UNCHANGED <<live, destroyed, receivers, desc, process, holds, work>>
  BY ZenonT(40) DEF StartThread
<1>3. u \in live /\ u \in Objects
  BY AccessedFd DEF StartThread, Accessible
<1>4. p \in Processes /\ p \in Objects /\ p # u /\ u \notin Processes
  BY <1>2, <1>3, ObjectsAssumption, Zenon DEF ObjectsInv, ThreadsHaveProcess, Objects
<1> HIDE DEF p, u
<1>5. /\ refs' \in [Objects -> Nat]
      /\ \A o \in Objects : refs'[o] = IF o = u \/ o = p THEN refs[o] + 1 ELSE refs[o]
  <2>1. refs \in [Objects -> Nat] /\ refs' = [refs EXCEPT ![p] = @ + 1, ![u] = @ + 1]
    BY <1>1, <1>2 DEF TypeOK
  <2> QED
    BY <1>3, <1>4, <2>1
<1>6. /\ running' \in [Processes -> Nat]
      /\ \A q \in Processes : running'[q] = IF q = p THEN running[q] + 1 ELSE running[q]
  BY <1>1, <1>2, <1>4 DEF TypeOK
<1>7. TypeOK'
  BY <1>1, <1>2, <1>5, <1>6 DEF TypeOK
<1>8. Tables' = Tables /\ TablesOK'
  BY <1>1, <1>2, SameTables DEF ObjectsInv
<1>9. \A o \in Objects : Blocked(o)' = Blocked(o)
        /\ RunsOf(o)' = IF o = u \/ o = p THEN RunsOf(o) \cup {u} ELSE RunsOf(o)
  BY <1>2, <1>4, Zenon DEF Blocked, RunsOf, p
<1>10. \A o \in Objects : Cardinality(RunsOf(o)') =
         IF o = u \/ o = p THEN Cardinality(RunsOf(o)) + 1 ELSE Cardinality(RunsOf(o))
  <2>1. ASSUME NEW o \in Objects
        PROVE  Cardinality(RunsOf(o) \cup {u}) = Cardinality(RunsOf(o)) + 1
    <3>1. IsFiniteSet(RunsOf(o))
      BY <1>1, Types
    <3>2. u \notin RunsOf(o)
      BY <1>2 DEF RunsOf
    <3> QED
      BY <3>1, <3>2, AddOne
  <2> QED
    BY <1>9, <2>1
<1>11. Counted'
  <2>1. ASSUME NEW o \in Objects
        PROVE  refs'[o] = Cardinality(Slots(Tables', Refers(o)))
                            + Cardinality(Positions(work', DropCalls(o)))
                            + Cardinality(Blocked(o)') + Cardinality(RunsOf(o)')
    <3>1. refs[o] = Cardinality(Slots(Tables, Refers(o)))
                      + Cardinality(Positions(work, DropCalls(o)))
                      + Cardinality(Blocked(o)) + Cardinality(RunsOf(o))
      BY DEF ObjectsInv, Counted
    <3>2. /\ Cardinality(Slots(Tables, Refers(o))) \in Nat
          /\ Cardinality(Positions(work, DropCalls(o))) \in Nat
          /\ Cardinality(Blocked(o)) \in Nat /\ Cardinality(RunsOf(o)) \in Nat
      BY <1>1, CountsNat
    <3>3. /\ Slots(Tables', Refers(o)) = Slots(Tables, Refers(o))
          /\ Positions(work', DropCalls(o)) = Positions(work, DropCalls(o))
          /\ Blocked(o)' = Blocked(o)
      BY <1>2, <1>8, <1>9
    <3> QED
      BY <1>5, <1>10, <3>1, <3>2, <3>3
  <2> QED
    BY <2>1 DEF Counted
<1>12. ReceiversCounted'
  BY <1>2, <1>8 DEF ObjectsInv, ReceiversCounted
<1>13. FreeUncounted' /\ ThreadsHaveProcess' /\ EndpointsHeard'
  BY <1>2, <1>3, <1>5 DEF ObjectsInv, FreeUncounted, ThreadsHaveProcess, EndpointsHeard
<1>14. RunningCounted'
  <2>1. ASSUME NEW q \in Processes, q \in live
        PROVE  running'[q] = Cardinality(RunsOf(q)') /\ (destroyed'[q] => running'[q] = 0)
    <3>1. q \in Objects /\ q # u
      BY <1>4 DEF Objects
    <3>2. running[q] = Cardinality(RunsOf(q)) /\ (destroyed[q] => running[q] = 0)
      BY <2>1 DEF ObjectsInv, RunningCounted
    <3> QED
      BY <1>2, <1>6, <1>10, <3>1, <3>2
  <2> QED
    BY <1>2, <2>1 DEF RunningCounted
<1>15. FreesPending'
  <2>1. \A o \in live' : refs'[o] # 0
    BY <1>1, <1>2, <1>5 DEF TypeOK
  <2>2. work' = <<>>
    BY <1>1, <1>2, Zenon
  <2> QED
    BY <2>1, <2>2, NothingPending
<1> QED
  BY <1>7, <1>8, <1>11, <1>12, <1>13, <1>14, <1>15 DEF ObjectsInv

(* A system call blocks with a reference to the object, or goes on and     *)
(* leaves it to a call in progress.                                        *)
LEMMA BlockStep ==
    ASSUME ObjectsInv, NEW t \in Threads, NEW fd \in Fds, Block(t, fd)
    PROVE  ObjectsInv'
<1> DEFINE u == Fd(t, fd).object
<1>1. TypeOK /\ work = <<>> /\ \A o \in live : refs[o] \in Nat /\ refs[o] > 0
  BY Caller DEF ObjectsInv, Block
<1>2. /\ t \in runs /\ holds[t] = NULL
      /\ refs' = [refs EXCEPT ![u] = @ + 1]
      /\ holds' = [holds EXCEPT ![t] = u]
      /\ UNCHANGED <<live, destroyed, receivers, running, desc, process, runs, work>>
  BY DEF Block, Calling
<1>3. u \in live /\ u \in Objects
  BY AccessedFd DEF Block, Accessible
<1>4. NULL \notin Objects
  BY ObjectsAssumption
<1> HIDE DEF u
<1>5. /\ refs' \in [Objects -> Nat]
      /\ \A o \in Objects : refs'[o] = IF o = u THEN refs[o] + 1 ELSE refs[o]
  BY <1>1, <1>2, <1>3 DEF TypeOK
<1>6. /\ holds' \in [Threads -> Objects \cup {NULL}]
      /\ \A v \in Threads : holds'[v] = IF v = t THEN u ELSE holds[v]
  BY <1>1, <1>2, <1>3 DEF TypeOK
<1>7. TypeOK'
  BY <1>1, <1>2, <1>5, <1>6 DEF TypeOK
<1>8. Tables' = Tables /\ TablesOK'
  BY <1>1, <1>2, SameTables DEF ObjectsInv
<1>9. \A o \in Objects : RunsOf(o)' = RunsOf(o)
        /\ Blocked(o)' = IF o = u THEN Blocked(o) \cup {t} ELSE Blocked(o)
  BY <1>2, <1>4, <1>6, Zenon DEF Blocked, RunsOf
<1>10. \A o \in Objects : Cardinality(Blocked(o)') =
         IF o = u THEN Cardinality(Blocked(o)) + 1 ELSE Cardinality(Blocked(o))
  <2>1. ASSUME NEW o \in Objects
        PROVE  Cardinality(Blocked(o) \cup {t}) = Cardinality(Blocked(o)) + 1
    <3>1. IsFiniteSet(Blocked(o))
      BY <1>1, Types
    <3>2. t \notin Blocked(o)
      BY <1>2, <1>4 DEF Blocked
    <3> QED
      BY <3>1, <3>2, AddOne
  <2> QED
    BY <1>9, <2>1
<1>11. Counted'
  <2>1. ASSUME NEW o \in Objects
        PROVE  refs'[o] = Cardinality(Slots(Tables', Refers(o)))
                            + Cardinality(Positions(work', DropCalls(o)))
                            + Cardinality(Blocked(o)') + Cardinality(RunsOf(o)')
    <3>1. refs[o] = Cardinality(Slots(Tables, Refers(o)))
                      + Cardinality(Positions(work, DropCalls(o)))
                      + Cardinality(Blocked(o)) + Cardinality(RunsOf(o))
      BY DEF ObjectsInv, Counted
    <3>2. /\ Cardinality(Slots(Tables, Refers(o))) \in Nat
          /\ Cardinality(Positions(work, DropCalls(o))) \in Nat
          /\ Cardinality(Blocked(o)) \in Nat /\ Cardinality(RunsOf(o)) \in Nat
      BY <1>1, CountsNat
    <3>3. /\ Slots(Tables', Refers(o)) = Slots(Tables, Refers(o))
          /\ Positions(work', DropCalls(o)) = Positions(work, DropCalls(o))
          /\ RunsOf(o)' = RunsOf(o)
      BY <1>2, <1>8, <1>9
    <3> QED
      BY <1>5, <1>10, <3>1, <3>2, <3>3
  <2> QED
    BY <2>1 DEF Counted
<1>12. ReceiversCounted'
  BY <1>2, <1>8 DEF ObjectsInv, ReceiversCounted
<1>13. FreeUncounted' /\ ThreadsHaveProcess' /\ EndpointsHeard'
  <2>1. FreeUncounted'
    BY <1>2, <1>3, <1>5 DEF ObjectsInv, FreeUncounted
  <2>2. ThreadsHaveProcess' /\ EndpointsHeard'
    BY <1>2 DEF ObjectsInv, ThreadsHaveProcess, EndpointsHeard
  <2> QED
    BY <2>1, <2>2
<1>14. RunningCounted'
  BY <1>2, <1>9 DEF ObjectsInv, RunningCounted, Objects
<1>15. FreesPending'
  <2>1. \A o \in live' : refs'[o] # 0
    BY <1>1, <1>2, <1>5 DEF TypeOK
  <2>2. work' = <<>>
    BY <1>1, <1>2
  <2> QED
    BY <2>1, <2>2, NothingPending
<1> QED
  BY <1>7, <1>8, <1>11, <1>12, <1>13, <1>14, <1>15 DEF ObjectsInv

(* The end of a call that blocked: the reference that the thread held is   *)
(* left to the call that drops it.                                         *)
LEMMA ResumeStep ==
    ASSUME ObjectsInv, NEW t \in Threads, Resume(t)
    PROVE  ObjectsInv'
<1> DEFINE u == holds[t]
           c == Call("unref", u, {})
<1>1. TypeOK /\ work = <<>> /\ \A o \in live : refs[o] \in Nat /\ refs[o] # 0
  <2>1. TypeOK /\ work = <<>> /\ 1..Len(work) = {}
    BY DEF ObjectsInv, Resume
  <2> QED
    BY <2>1, Zenon DEF ObjectsInv, TypeOK, FreesPending
<1>2. /\ u # NULL /\ u \in Objects
      /\ holds' = [holds EXCEPT ![t] = NULL]
      /\ work' = <<c>>
      /\ UNCHANGED <<live, refs, destroyed, receivers, running, desc, process, runs>>
  BY <1>1 DEF Resume, TypeOK, objectVars
<1>3. NULL \notin Objects
  BY ObjectsAssumption
<1>4. c \in Calls /\ c.op = "unref" /\ c.object = u
  BY <1>2, ZenonT(40) DEF Call, Calls
<1>5. /\ \A o : c \in DropCalls(o) <=> o = u
      /\ \A o : c \notin CloseCalls(o)
  BY <1>4 DEF DropCalls, CloseCalls
<1> HIDE DEF u, c
<1>6. /\ holds' \in [Threads -> Objects \cup {NULL}]
      /\ \A v \in Threads : holds'[v] = IF v = t THEN NULL ELSE holds[v]
  BY <1>1, <1>2 DEF TypeOK
<1>7. TypeOK'
  BY <1>1, <1>2, <1>4, <1>6 DEF TypeOK
<1>8. Tables' = Tables /\ TablesOK'
  BY <1>1, <1>2, SameTables DEF ObjectsInv
<1>9. \A o \in Objects : RunsOf(o)' = RunsOf(o)
        /\ Blocked(o) = IF o = u THEN Blocked(o)' \cup {t} ELSE Blocked(o)'
  BY <1>2, <1>3, <1>6, Zenon DEF Blocked, RunsOf, u
<1>10. \A o \in Objects : Cardinality(Blocked(o)) =
         IF o = u THEN Cardinality(Blocked(o)') + 1 ELSE Cardinality(Blocked(o)')
  <2>1. ASSUME NEW o \in Objects
        PROVE  Cardinality(Blocked(o)' \cup {t}) = Cardinality(Blocked(o)') + 1
    <3>1. IsFiniteSet(Blocked(o)')
      <4>1. Blocked(o)' \in SUBSET Blocked(o) /\ IsFiniteSet(Blocked(o))
        BY <1>1, <1>9, Types
      <4> QED
        BY <4>1, FS_Subset
    <3>2. t \notin Blocked(o)'
      BY <1>3, <1>6 DEF Blocked
    <3> QED
      BY <3>1, <3>2, AddOne
  <2> QED
    BY <1>9, <2>1
<1>11. Counted'
  <2>1. ASSUME NEW o \in Objects
        PROVE  refs'[o] = Cardinality(Slots(Tables', Refers(o)))
                            + Cardinality(Positions(work', DropCalls(o)))
                            + Cardinality(Blocked(o)') + Cardinality(RunsOf(o)')
    <3>1. refs[o] = Cardinality(Slots(Tables, Refers(o)))
                      + Cardinality(Positions(work, DropCalls(o)))
                      + Cardinality(Blocked(o)) + Cardinality(RunsOf(o))
      BY DEF ObjectsInv, Counted
    <3>2. /\ Cardinality(Slots(Tables, Refers(o))) \in Nat
          /\ Cardinality(Positions(work, DropCalls(o))) = 0
          /\ Cardinality(Blocked(o)') \in Nat /\ Cardinality(RunsOf(o)) \in Nat
      <4>1. Cardinality(Positions(work, DropCalls(o))) = 0
        BY <1>1, PositionsEmpty
      <4>2. IsFiniteSet(Blocked(o)')
        <5>1. Blocked(o)' \in SUBSET Blocked(o) /\ IsFiniteSet(Blocked(o))
          BY <1>1, <1>9, Types
        <5> QED
          BY <5>1, FS_Subset
      <4> QED
        BY <1>1, <4>1, <4>2, CountsNat, FS_CardinalityType
    <3>3. Cardinality(Positions(work', DropCalls(o))) = IF o = u THEN 1 ELSE 0
      <4>1. work' = <<c>> /\ (c \in DropCalls(o) <=> o = u)
        BY <1>2, <1>5, Zenon
      <4> QED
        BY <4>1, PositionsOne
    <3>4. Slots(Tables', Refers(o)) = Slots(Tables, Refers(o))
      BY <1>8, Zenon
    <3>5. RunsOf(o)' = RunsOf(o) /\ refs'[o] = refs[o]
      BY <1>2, <1>9, Zenon
    <3>6. Cardinality(Blocked(o)) =
            IF o = u THEN Cardinality(Blocked(o)') + 1 ELSE Cardinality(Blocked(o)')
      BY <1>10
    <3>7. CASE o = u
      <4>1. /\ Cardinality(Positions(work', DropCalls(o))) = 1
            /\ Cardinality(Blocked(o)) = Cardinality(Blocked(o)') + 1
        BY <3>3, <3>6, <3>7, Zenon
      <4>2. refs'[o] = Cardinality(Slots(Tables, Refers(o))) + 0
                         + (Cardinality(Blocked(o)') + 1) + Cardinality(RunsOf(o))
        BY <3>1, <3>2, <3>5, <4>1, Zenon
      <4>3. Cardinality(Slots(Tables, Refers(o))) + 0
              + (Cardinality(Blocked(o)') + 1) + Cardinality(RunsOf(o))
              = Cardinality(Slots(Tables, Refers(o))) + 1
                  + Cardinality(Blocked(o)') + Cardinality(RunsOf(o))
        BY <3>2, OneMoves, Zenon
      <4> QED
        BY <3>4, <3>5, <4>1, <4>2, <4>3, Zenon
    <3>8. CASE o # u
      <4>1. /\ Cardinality(Positions(work', DropCalls(o))) = 0
            /\ Cardinality(Blocked(o)) = Cardinality(Blocked(o)')
        BY <3>3, <3>6, <3>8, Zenon
      <4> QED
        BY <3>1, <3>2, <3>4, <3>5, <4>1, Zenon
    <3> QED
      BY <3>7, <3>8, Zenon
  <2> QED
    BY <2>1 DEF Counted
<1>12. ReceiversCounted'
  <2>1. \A e : /\ Cardinality(Positions(work, CloseCalls(e))) = 0
               /\ Cardinality(Positions(work', CloseCalls(e))) = 0
    BY <1>1, <1>2, <1>5, PositionsOne, PositionsEmpty
  <2> QED
    BY <1>2, <1>8, <2>1 DEF ObjectsInv, ReceiversCounted
<1>13. FreeUncounted' /\ ThreadsHaveProcess' /\ EndpointsHeard'
  BY <1>2 DEF ObjectsInv, FreeUncounted, ThreadsHaveProcess, EndpointsHeard
<1>14. RunningCounted'
  BY <1>2, <1>9 DEF ObjectsInv, RunningCounted, Objects
<1>15. FreesPending'
  <2>1. \A i \in 1..Len(work') : work'[i].op = "unref"
    BY <1>2, <1>4
  <2>2. \A o \in live' : refs'[o] # 0
    BY <1>1, <1>2
  <2> QED
    BY <2>1, <2>2 DEF FreesPending
<1> QED
  BY <1>7, <1>8, <1>11, <1>12, <1>13, <1>14, <1>15 DEF ObjectsInv
=============================================================================
