------------------------------ MODULE Objects -------------------------------
(***************************************************************************)
(* Kernel objects, their reference counts and the descriptors that refer   *)
(* to them: kernel/domain/entities/object.c, descriptor.c, process.c, the  *)
(* reference counting part of endpoint.c and thread.c, and the system      *)
(* calls that create, copy, close and destroy.                             *)
(*                                                                         *)
(* Interrupts are disabled in the kernel, so a system call is one action   *)
(* up to the references it drops.  A dropped reference may free an object, *)
(* which may close descriptors, which drops references: these calls nest,  *)
(* and work is their stack, run to its end before anything else happens.   *)
(*                                                                         *)
(* Which thread runs, and when a blocked one resumes, is left open here:   *)
(* Scheduler and Ipc say more.                                             *)
(***************************************************************************)
EXTENDS Integers, Sequences, FiniteSets

CONSTANTS Processes, Endpoints, Threads,  \* memory for objects of each type
          NULL,         \* the null pointer
          DescNum,      \* JINUE_DESC_NUM
          BootProcess,  \* process of the user space loader
          BootThread,   \* its thread
          MintPerms,    \* permission sets that applications ask for in MINT
          AppMay        \* see below

Objects == Processes \cup Endpoints \cup Threads
Fds == 0..(DescNum - 1)

Perms == {"SEND", "RECEIVE", "OPEN", "CREATE_THREAD", "START", "AWAIT"}

(* What the kernel lets applications do: start a thread of a process that  *)
(* was destroyed (process.c has a TODO for it).                            *)
AppFreedoms == {"start_orphan"}

ASSUME ObjectsAssumption ==
    /\ Processes \cap Endpoints = {}
    /\ Processes \cap Threads = {}
    /\ Endpoints \cap Threads = {}
    /\ NULL \notin Objects
    /\ IsFiniteSet(Objects)
    /\ BootProcess \in Processes
    /\ BootThread \in Threads
    /\ DescNum \in Nat /\ DescNum >= 2
    /\ MintPerms \subseteq SUBSET Perms
    /\ AppMay \subseteq AppFreedoms

(* object_type->all_permissions.  MAP and SIGNAL guard system calls that   *)
(* change no state modelled here.                                          *)
AllPerms(o) ==
    CASE o \in Endpoints -> {"SEND", "RECEIVE"}
      [] o \in Processes -> {"OPEN", "CREATE_THREAD"}
      [] o \in Threads -> {"START", "AWAIT"}

VARIABLES live,       \* the objects that are allocated
          refs,       \* object->ref_count
          destroyed,  \* OBJECT_FLAG_DESTROYED in object->flags
          receivers,  \* endpoint->receivers_count
          running,    \* process->running_threads_count
          desc,       \* process->descriptors
          process,    \* thread->process
          runs,       \* threads between thread_run and their exit
          holds,      \* the object a thread blocked in a system call refers to
          work        \* calls in progress, the innermost last

objectVars == <<live, refs, destroyed, receivers>>
vars == <<objectVars, running, desc, process, runs, holds, work>>

Descriptors ==
    [state : {"free", "open", "destroyed"}, object : Objects \cup {NULL},
     perms : SUBSET Perms, owner : BOOLEAN]

Calls == [op : {"close", "skip", "unref", "free", "panic"}, object : Objects, perms : SUBSET Perms]

TypeOK ==
    /\ live \subseteq Objects
    /\ refs \in [Objects -> Nat]
    /\ destroyed \in [Objects -> BOOLEAN]
    /\ receivers \in [Endpoints -> Nat]
    /\ running \in [Processes -> Nat]
    /\ desc \in [Processes -> [Fds -> Descriptors]]
    /\ process \in [Threads -> Processes \cup {NULL}]
    /\ runs \subseteq Threads
    /\ holds \in [Threads -> Objects \cup {NULL}]
    /\ work \in Seq(Calls)

FreeDesc == [state |-> "free", object |-> NULL, perms |-> {}, owner |-> FALSE]

(* The object of a descriptor marked destroyed is never looked at again.   *)
DestroyedDesc == [FreeDesc EXCEPT !.state = "destroyed"]

OpenDesc(o, perms, owner) ==
    [state |-> "open", object |-> o, perms |-> perms, owner |-> owner]

Owner(o) == OpenDesc(o, AllPerms(o), TRUE)

Call(op, o, perms) == [op |-> op, object |-> o, perms |-> perms]

(* kmain and exec: the loader has descriptors for its process and thread.  *)
Init ==
    /\ live = {BootProcess, BootThread}
    /\ refs = [o \in Objects |-> IF o \in live THEN 2 ELSE 0]
    /\ destroyed = [o \in Objects |-> FALSE]
    /\ receivers = [e \in Endpoints |-> 0]
    /\ running = [p \in Processes |-> IF p = BootProcess THEN 1 ELSE 0]
    /\ desc = [p \in Processes |-> [fd \in Fds |->
                 IF p = BootProcess /\ fd = 0
                   THEN OpenDesc(BootProcess, AllPerms(BootProcess), FALSE)
                 ELSE IF p = BootProcess /\ fd = 1
                   THEN OpenDesc(BootThread, AllPerms(BootThread), FALSE)
                 ELSE FreeDesc]]
    /\ process = [t \in Threads |-> IF t = BootThread THEN BootProcess ELSE NULL]
    /\ runs = {BootThread}
    /\ holds = [t \in Threads |-> NULL]
    /\ work = <<>>

-----------------------------------------------------------------------------
(* Thread t is in user space and calls the kernel.                         *)
Calling(t) == t \in runs /\ holds[t] = NULL /\ work = <<>>

(* descriptor_access_object: the open descriptor fd of the process of t,   *)
(* whose object is not destroyed.                                          *)
Fd(t, fd) == desc[process[t]][fd]

Accessible(t, fd) == Fd(t, fd).state = "open" /\ ~destroyed[Fd(t, fd).object]

(* A plausible mistake: the descriptor keeps its reference.                *)
AccessDestroyedKeeps(t, fd) ==
    /\ Calling(t)
    /\ Fd(t, fd).state = "open"
    /\ destroyed[Fd(t, fd).object]
    /\ desc' = [desc EXCEPT ![process[t]][fd] = DestroyedDesc]
    /\ UNCHANGED <<objectVars, running, process, runs, holds, work>>

(* descriptor_access_object finds the object destroyed: the descriptor     *)
(* gives up its reference and the system call, whichever it is, fails.     *)
AccessDestroyed(t, fd) ==
    /\ Calling(t)
    /\ Fd(t, fd).state = "open"
    /\ destroyed[Fd(t, fd).object]
    /\ desc' = [desc EXCEPT ![process[t]][fd] = DestroyedDesc]
    /\ work' = <<Call("close", Fd(t, fd).object, Fd(t, fd).perms)>>
    /\ UNCHANGED <<objectVars, running, process, runs, holds>>

(* A plausible mistake: the open op of endpoints is not called.            *)
ObjectOpenUncounted(d) ==
    /\ refs' = [refs EXCEPT ![d.object] = @ + 1]
    /\ UNCHANGED receivers

(* object_open, for a descriptor d.                                        *)
ObjectOpen(d) ==
    /\ refs' = [refs EXCEPT ![d.object] = @ + 1]
    /\ receivers' = [e \in Endpoints |->
                       IF e = d.object /\ "RECEIVE" \in d.perms
                         THEN receivers[e] + 1 ELSE receivers[e]]

(* descriptor_reserve_unused, then descriptor_open.                        *)
DescriptorOpen(p, fd, d) ==
    /\ desc[p][fd].state = "free"
    /\ desc' = [desc EXCEPT ![p][fd] = d]
    /\ ObjectOpen(d)

(* CREATE_ENDPOINT.  endpoint_new resets the flags alone: it relies on the *)
(* counts that the last user of the memory left.                           *)
CreateEndpoint(t, fd, e) ==
    /\ Calling(t)
    /\ e \notin live
    /\ live' = live \cup {e}
    /\ destroyed' = [destroyed EXCEPT ![e] = FALSE]
    /\ DescriptorOpen(process[t], fd, Owner(e))
    /\ UNCHANGED <<running, process, runs, holds, work>>

(* CREATE_PROCESS.  process_new resets the flags, not the reference count. *)
CreateProcess(t, fd, p) ==
    /\ Calling(t)
    /\ p \notin live
    /\ Fd(t, fd).state = "free"
    /\ live' = live \cup {p}
    /\ destroyed' = [destroyed EXCEPT ![p] = FALSE]
    /\ running' = [running EXCEPT ![p] = 0]
    /\ desc' = [desc EXCEPT ![p] = [i \in Fds |-> FreeDesc],
                            ![process[t]][fd] = Owner(p)]
    /\ ObjectOpen(Owner(p))
    /\ UNCHANGED <<process, runs, holds, work>>

(* CREATE_THREAD.  thread_new initializes the whole header.                *)
CreateThread(t, fd, pfd, u) ==
    /\ Calling(t)
    /\ Accessible(t, pfd)
    /\ Fd(t, pfd).object \in Processes
    /\ {"CREATE_THREAD", "OPEN"} \subseteq Fd(t, pfd).perms
    /\ u \notin live
    /\ live' = live \cup {u}
    /\ destroyed' = [destroyed EXCEPT ![u] = FALSE]
    /\ process' = [process EXCEPT ![u] = Fd(t, pfd).object]
    /\ Fd(t, fd).state = "free"
    /\ desc' = [desc EXCEPT ![process[t]][fd] = Owner(u)]
    /\ refs' = [refs EXCEPT ![u] = 1]
    /\ UNCHANGED <<receivers, running, runs, holds, work>>

(* A descriptor of a process in which new descriptors may be bound.        *)
Bindable(t, pfd) ==
    /\ Accessible(t, pfd)
    /\ Fd(t, pfd).object \in Processes
    /\ "OPEN" \in Fd(t, pfd).perms

(* A plausible mistake: owner descriptors are copied too.                  *)
DupOwner(t, pfd, src, dest) ==
    /\ Calling(t)
    /\ Bindable(t, pfd)
    /\ Accessible(t, src)
    /\ DescriptorOpen(Fd(t, pfd).object, dest, Fd(t, src))
    /\ UNCHANGED <<live, destroyed, running, process, runs, holds, work>>

(* DUP                                                                     *)
Dup(t, pfd, src, dest) ==
    /\ Calling(t)
    /\ Bindable(t, pfd)
    /\ Accessible(t, src)
    /\ ~Fd(t, src).owner
    /\ DescriptorOpen(Fd(t, pfd).object, dest, Fd(t, src))
    /\ UNCHANGED <<live, destroyed, running, process, runs, holds, work>>

(* MINT                                                                    *)
Mint(t, owner, perms, pfd, fd) ==
    /\ Calling(t)
    /\ Accessible(t, owner)
    /\ perms \subseteq AllPerms(Fd(t, owner).object)
    /\ perms # {}
    /\ Fd(t, owner).owner
    /\ Bindable(t, pfd)
    /\ DescriptorOpen(Fd(t, pfd).object, fd,
                      OpenDesc(Fd(t, owner).object, perms, FALSE))
    /\ UNCHANGED <<live, destroyed, running, process, runs, holds, work>>

(* CLOSE: descriptor_close.                                                *)
Close(t, fd) ==
    /\ Calling(t)
    /\ Fd(t, fd).state \in {"open", "destroyed"}
    /\ desc' = [desc EXCEPT ![process[t]][fd] = FreeDesc]
    /\ work' = IF Fd(t, fd).state = "open"
                 THEN <<Call("close", Fd(t, fd).object, Fd(t, fd).perms)>>
                 ELSE <<>>
    /\ UNCHANGED <<objectVars, running, process, runs, holds>>

(* DESTROY, of an endpoint.  destroy_op is in Ipc.                         *)
Destroy(t, fd) ==
    /\ Calling(t)
    /\ Accessible(t, fd)
    /\ Fd(t, fd).object \in Endpoints
    /\ Fd(t, fd).owner
    /\ destroyed' = [destroyed EXCEPT ![Fd(t, fd).object] = TRUE]
    /\ UNCHANGED <<live, refs, receivers, running, desc, process, runs, holds, work>>

(* START_THREAD: thread_is_starting.                                       *)
StartThread(t, fd) ==
    LET u == Fd(t, fd).object
        p == process[u]
    IN  /\ Calling(t)
        /\ Accessible(t, fd)
        /\ u \in Threads
        /\ "START" \in Fd(t, fd).perms
        /\ u \notin runs
        /\ (p \in live /\ ~destroyed[p]) \/ "start_orphan" \in AppMay
        /\ running' = [running EXCEPT ![p] = @ + 1]
        /\ refs' = [refs EXCEPT ![p] = @ + 1, ![u] = @ + 1]
        /\ runs' = runs \cup {u}
        /\ UNCHANGED <<live, destroyed, receivers, desc, process, holds, work>>

(* SEND, RECEIVE and AWAIT_THREAD, up to where they block: the reference   *)
(* of descriptor_access_object is kept until the call returns.             *)
Block(t, fd) ==
    /\ Calling(t)
    /\ Accessible(t, fd)
    /\ Fd(t, fd).perms \cap {"SEND", "RECEIVE", "AWAIT"} # {}
    /\ Fd(t, fd).object \in Threads => Fd(t, fd).object \in runs \ {t}
    /\ refs' = [refs EXCEPT ![Fd(t, fd).object] = @ + 1]
    /\ holds' = [holds EXCEPT ![t] = Fd(t, fd).object]
    /\ UNCHANGED <<live, destroyed, receivers, running, desc, process, runs, work>>

(* The end of these calls: descriptor_unreference_object.                  *)
Resume(t) ==
    /\ t \in runs
    /\ holds[t] # NULL
    /\ work = <<>>
    /\ holds' = [holds EXCEPT ![t] = NULL]
    /\ work' = <<Call("unref", holds[t], {})>>
    /\ UNCHANGED <<objectVars, running, desc, process, runs>>

-----------------------------------------------------------------------------
(* close_descriptors: object_close for each open descriptor of p, the      *)
(* first one last since work is a stack.                                   *)
CloseDescriptor(p, d) ==
    IF d.state = "open" THEN Call("close", d.object, d.perms) ELSE Call("skip", p, {})

CloseDescriptors(p) == [i \in 1..DescNum |-> CloseDescriptor(p, desc[p][DescNum - i])]

(* object_destroy on o: the calls that its destroy_op makes.               *)
DestroyCalls(o) ==
    IF o \in Processes /\ ~destroyed[o] THEN CloseDescriptors(o) ELSE <<>>

(* EXIT_THREAD: process_remove_running_thread, and the reference that      *)
(* machine_switch_and_unref_thread drops once another thread is switched   *)
(* to.  When there is no such thread the kernel has panicked before.       *)
Exit(t) ==
    LET p == process[t]
        last == running[p] <= 1
    IN  /\ Calling(t)
        /\ runs # {t}
        /\ runs' = runs \ {t}
        /\ running' = [running EXCEPT ![p] = @ - 1]
        /\ destroyed' = [destroyed EXCEPT ![p] = @ \/ last]
        /\ work' = <<Call("unref", t, {}), Call("unref", p, {})>>
                     \o (IF last THEN DestroyCalls(p) ELSE <<>>)
        /\ UNCHANGED <<live, refs, receivers, desc, process, holds>>

(* The call in progress, and the ones it returns to.                       *)
Innermost == work[Len(work)]
Outer == SubSeq(work, 1, Len(work) - 1)

(* A plausible mistake: off by one, the last reference but one frees.      *)
SubRefEarly(o, stack, calls) ==
    /\ refs' = [refs EXCEPT ![o] = @ - 1]
    /\ work' = stack \o CASE refs[o] > 2 -> <<>>
                           [] refs[o] = 2 -> <<Call("free", o, {})>>
                           [] refs[o] < 2 -> <<Call("free", o, {})>> \o calls

(* object_sub_ref on o, where stack holds the calls it returns to.  With   *)
(* the last reference the object is destroyed, which makes the given       *)
(* calls, and freed.                                                       *)
SubRef(o, stack, calls) ==
    /\ refs' = [refs EXCEPT ![o] = @ - 1]
    /\ work' = stack \o CASE refs[o] > 1 -> <<>>
                           [] refs[o] = 1 -> <<Call("free", o, {})>> \o calls
                           [] refs[o] < 1 -> <<Call("panic", o, {})>>

(* A plausible mistake: an endpoint is destroyed with its last reference   *)
(* only.                                                                   *)
ObjectCloseLastRef ==
    LET o == Innermost.object
        receive == o \in Endpoints /\ "RECEIVE" \in Innermost.perms
    IN  /\ work # <<>>
        /\ Innermost.op = "close"
        /\ receivers' = [e \in Endpoints |->
                           IF e = o /\ receive THEN receivers[e] - 1 ELSE receivers[e]]
        /\ destroyed' = [destroyed EXCEPT ![o] = @ \/ refs[o] = 1]
        /\ SubRef(o, Outer, DestroyCalls(o))
        /\ UNCHANGED <<live, running, desc, process, runs, holds>>

(* object_close: the close op of an endpoint destroys it when the last     *)
(* descriptor that may receive is closed.                                  *)
ObjectClose ==
    LET o == Innermost.object
        receive == o \in Endpoints /\ "RECEIVE" \in Innermost.perms
    IN  /\ work # <<>>
        /\ Innermost.op = "close"
        /\ receivers' = [e \in Endpoints |->
                           IF e = o /\ receive THEN receivers[e] - 1 ELSE receivers[e]]
        /\ destroyed' = [destroyed EXCEPT ![o] =
                           @ \/ refs[o] = 1 \/ (receive /\ receivers[o] <= 1)]
        /\ SubRef(o, Outer, DestroyCalls(o))
        /\ UNCHANGED <<live, running, desc, process, runs, holds>>

(* object_sub_ref                                                          *)
ObjectSubRef ==
    LET o == Innermost.object
    IN  /\ work # <<>>
        /\ Innermost.op = "unref"
        /\ destroyed' = [destroyed EXCEPT ![o] = @ \/ refs[o] = 1]
        /\ SubRef(o, Outer, DestroyCalls(o))
        /\ UNCHANGED <<live, receivers, running, desc, process, runs, holds>>

(* close_descriptors passes over a descriptor that is not open.            *)
SkipDescriptor ==
    /\ work # <<>>
    /\ Innermost.op = "skip"
    /\ work' = Outer
    /\ UNCHANGED <<objectVars, running, desc, process, runs, holds>>

(* The free op of the object type.                                         *)
ObjectFree ==
    /\ work # <<>>
    /\ Innermost.op = "free"
    /\ live' = live \ {Innermost.object}
    /\ work' = Outer
    /\ UNCHANGED <<refs, destroyed, receivers, running, desc, process, runs, holds>>

-----------------------------------------------------------------------------
SystemCall(t) ==
    \/ \E fd \in Fds :
        \/ AccessDestroyed(t, fd)
        \/ \E e \in Endpoints : CreateEndpoint(t, fd, e)
        \/ \E p \in Processes : CreateProcess(t, fd, p)
        \/ \E pfd \in Fds, u \in Threads : CreateThread(t, fd, pfd, u)
        \/ \E pfd, src \in Fds : Dup(t, pfd, src, fd)
        \/ \E owner, pfd \in Fds, perms \in MintPerms : Mint(t, owner, perms, pfd, fd)
        \/ Close(t, fd)
        \/ Destroy(t, fd)
        \/ StartThread(t, fd)
        \/ Block(t, fd)
    \/ Resume(t)
    \/ Exit(t)

Unwind == ObjectClose \/ ObjectSubRef \/ ObjectFree \/ SkipDescriptor

Next ==
    \/ \E t \in Threads : SystemCall(t)
    \/ Unwind

Spec == Init /\ [][Next]_vars
-----------------------------------------------------------------------------
(* The tables that refer to objects.  close_descriptors does not clear the *)
(* table of a destroyed process.                                           *)
Table(p) == IF p \in live /\ ~destroyed[p] THEN desc[p] ELSE [fd \in Fds |-> FreeDesc]

DescriptorsOf(o) ==
    {d \in Processes \X Fds :
        Table(d[1])[d[2]].state = "open" /\ Table(d[1])[d[2]].object = o}

(* Calls in progress that have yet to drop a reference to o.               *)
Drops(o) == {i \in 1..Len(work) : work[i].op \in {"close", "unref"} /\ work[i].object = o}

(* object->ref_count is the number of open descriptors that refer to o,    *)
(* system calls blocked on o, and running threads that are o or belong to  *)
(* it, whatever was created, copied, closed or destroyed, in what order.   *)
RefsCounted == \A o \in live : refs[o] =
    Cardinality(DescriptorsOf(o)) + Cardinality(Drops(o))
      + Cardinality({t \in Threads : holds[t] = o})
      + Cardinality({t \in runs : o \in {t, process[t]}})

(* No reference outlives its object: memory that is free is referred to by *)
(* no descriptor, no system call and no thread, and it has the counts the  *)
(* constructors rely on.                                                   *)
FreedUnreferenced == \A o \in Objects \ live :
    /\ DescriptorsOf(o) = {}
    /\ Drops(o) = {}
    /\ \A t \in Threads : holds[t] # o
    /\ \A t \in runs : o \notin {t, process[t]}
    /\ refs[o] = 0
    /\ o \in Endpoints => receivers[o] = 0

(* Once the system call that dropped it ends, an object without references *)
(* is freed, an endpoint on which nobody can receive any more is           *)
(* destroyed, so that nobody waits on it, and running_threads_count, whose *)
(* zero destroys a process, counts the threads that run in it: a process   *)
(* is never destroyed under a running thread.                              *)
NothingLeftBehind == work = <<>> =>
    /\ \A o \in live : refs[o] > 0
    /\ \A e \in live \cap Endpoints : ~destroyed[e] =>
        \E d \in DescriptorsOf(e) : "RECEIVE" \in Table(d[1])[d[2]].perms
    /\ \A p \in live \cap Processes :
        /\ running[p] = Cardinality({t \in runs : process[t] = p})
        /\ destroyed[p] => running[p] = 0

(* Only the call that creates an object makes an owner descriptor, so an   *)
(* object has at most one, and no other descriptor is given rights that    *)
(* its type does not have.                                                 *)
OwnerUnique == \A o \in Objects :
    /\ \A d \in DescriptorsOf(o) : Table(d[1])[d[2]].perms \subseteq AllPerms(o)
    /\ \A c, d \in DescriptorsOf(o) :
        Table(c[1])[c[2]].owner /\ Table(d[1])[d[2]].owner => c = d

(* object_sub_ref never finds that a count went below zero (its panic,     *)
(* "Object reference count decremented to negative value").                *)
CountsNeverNegative == \A i \in 1..Len(work) : work[i].op # "panic"
=============================================================================
