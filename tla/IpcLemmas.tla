----------------------------- MODULE IpcLemmas ------------------------------
(***************************************************************************)
(* What the operations of the scheduler do to the ready queue and to the   *)
(* states of threads, for any number of threads.  Each lemma about the     *)
(* scheduler says that an operation keeps its data well formed, and        *)
(* describes its effect on the states in the terms the callers need.  Then *)
(* the actions of Ipc that do not touch the queues of an endpoint, SEND,   *)
(* REPLY, REPLY_ERROR, the end of an endpoint and the end of a thread:     *)
(* they preserve the inductive invariant of Ipc.                           *)
(***************************************************************************)
EXTENDS Ipc, TLAPS

(* list_enqueue: the new element is in the queue, the others stay.         *)
LEMMA EnqueueFacts ==
    ASSUME NEW S, NEW q \in Seq(S), NEW x \in S
    PROVE  /\ Append(q, x) \in Seq(S)
           /\ Range(Append(q, x)) = Range(q) \cup {x}
           /\ IsInjective(q) /\ x \notin Range(q) => IsInjective(Append(q, x))
<1> DEFINE r == Append(q, x)
<1>1. /\ r \in Seq(S)
      /\ Len(q) \in Nat /\ DOMAIN q = 1..Len(q)
      /\ Len(r) = Len(q) + 1 /\ DOMAIN r = 1..(Len(q) + 1)
      /\ r[Len(q) + 1] = x
      /\ \A i \in 1..Len(q) : r[i] = q[i]
  OBVIOUS
<1> HIDE DEF r
<1>2. Range(r) = Range(q) \cup {x}
  BY <1>1 DEF Range
<1>3. ASSUME IsInjective(q), x \notin Range(q) PROVE IsInjective(r)
  BY <1>1, <1>3 DEF Range, IsInjective
<1> QED
  BY <1>1, <1>2, <1>3 DEF r

(* list_dequeue: the head leaves the queue, the others stay.               *)
LEMMA DequeueFacts ==
    ASSUME NEW S, NEW q \in Seq(S), q # <<>>
    PROVE  /\ Tail(q) \in Seq(S)
           /\ Head(q) \in S
           /\ Head(q) \in Range(q)
           /\ IsInjective(q) => /\ IsInjective(Tail(q))
                                /\ Range(Tail(q)) = Range(q) \ {Head(q)}
<1> DEFINE r == Tail(q)
           h == Head(q)
<1>1. /\ r \in Seq(S)
      /\ Len(q) \in Nat /\ Len(q) > 0 /\ DOMAIN q = 1..Len(q)
      /\ Len(r) = Len(q) - 1 /\ DOMAIN r = 1..(Len(q) - 1)
      /\ h = q[1] /\ h \in S
      /\ \A i \in 1..(Len(q) - 1) : r[i] = q[i + 1]
  OBVIOUS
<1> HIDE DEF r, h
<1>2. h \in Range(q)
  BY <1>1 DEF Range
<1>3. ASSUME IsInjective(q) PROVE IsInjective(r)
  <2> SUFFICES ASSUME NEW i \in 1..(Len(q) - 1), NEW j \in 1..(Len(q) - 1),
                      r[i] = r[j]
               PROVE i = j
    BY <1>1 DEF IsInjective
  <2>1. /\ i + 1 \in DOMAIN q /\ j + 1 \in DOMAIN q
        /\ q[i + 1] = q[j + 1]
    BY <1>1
  <2>2. i + 1 = j + 1
    BY <2>1, <1>3 DEF IsInjective
  <2> QED
    BY <2>2
<1>4. ASSUME IsInjective(q) PROVE Range(r) = Range(q) \ {h}
  <2>1. ASSUME NEW y \in Range(r) PROVE y \in Range(q) /\ y # h
    <3>1. PICK i \in 1..(Len(q) - 1) : y = r[i]
      BY <1>1 DEF Range
    <3>2. i + 1 \in 1..Len(q) /\ i + 1 # 1 /\ y = q[i + 1]
      BY <1>1, <3>1
    <3> QED
      BY <3>2, <1>1, <1>4 DEF Range, IsInjective
  <2>2. ASSUME NEW y \in Range(q), y # h PROVE y \in Range(r)
    <3>1. PICK i \in 1..Len(q) : y = q[i]
      BY <1>1 DEF Range
    <3>2. i - 1 \in 1..(Len(q) - 1) /\ r[i - 1] = y
      BY <1>1, <3>1, <2>2
    <3> QED
      BY <3>2, <1>1 DEF Range
  <2> QED
    BY <2>1, <2>2
<1> QED
  BY <1>1, <1>2, <1>3, <1>4 DEF r, h

(* A queue emptied onto another: the elements of both.                     *)
LEMMA ConcatFacts ==
    ASSUME NEW S, NEW q \in Seq(S), NEW r \in Seq(S)
    PROVE  /\ q \o r \in Seq(S)
           /\ Range(q \o r) = Range(q) \cup Range(r)
           /\ IsInjective(q) /\ IsInjective(r) /\ Range(q) \cap Range(r) = {}
                => IsInjective(q \o r)
<1> DEFINE s == q \o r
<1>1. /\ s \in Seq(S)
      /\ Len(q) \in Nat /\ DOMAIN q = 1..Len(q)
      /\ Len(r) \in Nat /\ DOMAIN r = 1..Len(r)
      /\ Len(s) = Len(q) + Len(r) /\ DOMAIN s = 1..(Len(q) + Len(r))
      /\ \A i \in 1..Len(q) : s[i] = q[i]
      /\ \A i \in (Len(q) + 1)..(Len(q) + Len(r)) : s[i] = r[i - Len(q)]
  OBVIOUS
<1> HIDE DEF s
<1>2. \A i \in 1..Len(r) : i + Len(q) \in DOMAIN s /\ s[i + Len(q)] = r[i]
  BY <1>1
<1>3. \A i \in DOMAIN s : \/ i \in DOMAIN q /\ s[i] = q[i]
                          \/ i - Len(q) \in DOMAIN r /\ s[i] = r[i - Len(q)]
  BY <1>1
<1>4. Range(s) = Range(q) \cup Range(r)
  <2>1. Range(q) \cup Range(r) \subseteq Range(s)
    <3>1. \A i \in DOMAIN q : i \in DOMAIN s /\ s[i] = q[i]
      BY <1>1
    <3>2. \A i \in DOMAIN r : \E j \in DOMAIN s : s[j] = r[i]
      BY <1>1, <1>2
    <3> QED
      BY <3>1, <3>2 DEF Range
  <2>2. Range(s) \subseteq Range(q) \cup Range(r)
    BY <1>3 DEF Range
  <2> QED
    BY <2>1, <2>2
<1>5. ASSUME IsInjective(q), IsInjective(r), Range(q) \cap Range(r) = {}
      PROVE  IsInjective(s)
  <2> SUFFICES ASSUME NEW i \in DOMAIN s, NEW j \in DOMAIN s, s[i] = s[j]
               PROVE i = j
    BY DEF IsInjective
  <2>1. CASE i \in DOMAIN q /\ s[i] = q[i] /\ j \in DOMAIN q /\ s[j] = q[j]
    BY <2>1, <1>5 DEF IsInjective
  <2>2. CASE /\ i - Len(q) \in DOMAIN r /\ s[i] = r[i - Len(q)]
             /\ j - Len(q) \in DOMAIN r /\ s[j] = r[j - Len(q)]
    <3>1. i - Len(q) = j - Len(q)
      BY <2>2, <1>5 DEF IsInjective
    <3> QED
      BY <3>1, <1>1
  <2>3. CASE /\ i \in DOMAIN q /\ s[i] = q[i]
             /\ j - Len(q) \in DOMAIN r /\ s[j] = r[j - Len(q)]
    BY <2>3, <1>5 DEF Range
  <2>4. CASE /\ i - Len(q) \in DOMAIN r /\ s[i] = r[i - Len(q)]
             /\ j \in DOMAIN q /\ s[j] = q[j]
    BY <2>4, <1>5 DEF Range
  <2> QED
    BY <1>3, <2>1, <2>2, <2>3, <2>4
<1> QED
  BY <1>1, <1>4, <1>5 DEF s

(* The empty queue, and a queue of one.                                    *)
LEMMA SmallQueueFacts ==
    /\ Range(<<>>) = {} /\ IsInjective(<<>>)
    /\ \A x : Range(<<x>>) = {x} /\ IsInjective(<<x>>)
BY DEF Range, IsInjective

-----------------------------------------------------------------------------
SchedOK == SchedTypeOK /\ ReadyQueueConsistent

Runnable == {"READY", "RUNNING"}

(* The credits that a thread is given stay within their bound.             *)
LEMMA CreditedType ==
    ASSUME SchedTypeOK, NEW t \in Threads
    PROVE  Credited(t) \in [Threads -> 0..MaxCredits]
BY SchedulerAssumption DEF SchedTypeOK, Credited

(* ready_thread makes blocked threads ready and leaves the others alone.   *)
LEMMA ReadyThreadsFacts ==
    ASSUME SchedOK, NEW woken \in Seq(Threads), IsInjective(woken),
           \A u \in Range(woken) : tstate[u] = "BLOCKED",
           ReadyThreads(woken)
    PROVE  /\ SchedOK'
           /\ current' = current
           /\ \A u \in Threads :
                tstate'[u] = IF u \in Range(woken) THEN "READY" ELSE tstate[u]
<1>1. /\ ready' = ready \o woken
      /\ current' = current
      /\ credits' = credits
      /\ \A u \in Threads :
           tstate'[u] = IF u \in Range(woken) THEN "READY" ELSE tstate[u]
  BY DEF ReadyThreads
<1>2. tstate' \in [Threads -> ThreadStates]
  BY DEF ReadyThreads, SchedOK, SchedTypeOK, ThreadStates
<1>3. ready \in Seq(Threads) /\ IsInjective(ready)
  BY DEF SchedOK, SchedTypeOK, ReadyQueueConsistent
<1>4. Range(woken) \subseteq Threads
  BY DEF Range
<1>5. Range(ready) \cap Range(woken) = {}
  BY <1>4 DEF SchedOK, ReadyQueueConsistent
<1>6. /\ ready' \in Seq(Threads) /\ IsInjective(ready')
      /\ Range(ready') = Range(ready) \cup Range(woken)
  BY <1>1, <1>3, <1>5, ConcatFacts
<1>7. SchedTypeOK'
  BY <1>1, <1>2, <1>6 DEF SchedOK, SchedTypeOK
<1>8. ReadyQueueConsistent'
  BY <1>1, <1>4, <1>6 DEF SchedOK, ReadyQueueConsistent
<1> QED
  BY <1>1, <1>7, <1>8 DEF SchedOK

(* block_current_thread_and_unlock and switch_from_exiting_thread take the *)
(* CPU from the current thread, which leaves no list, and give it to a     *)
(* ready thread; if there is none, no thread runs.                         *)
LEMMA SwitchAwayFacts ==
    ASSUME SchedOK, current # NULL,
           NEW s \in {"BLOCKED", "ZOMBIE"},
           NEW woken \in Seq(Threads), IsInjective(woken),
           \A u \in Range(woken) : tstate[u] = "BLOCKED",
           SwitchAway(s, woken)
    PROVE  /\ SchedOK'
           /\ tstate'[current] = s
           /\ \A u \in Range(woken) : tstate'[u] \in Runnable
           /\ \A u \in Threads \ (Range(woken) \cup {current}) :
                \/ tstate'[u] = tstate[u]
                \/ tstate[u] = "READY" /\ tstate'[u] = "RUNNING"
           /\ current' # NULL =>
                tstate[current'] = "READY" \/ current' \in Range(woken)
<1> DEFINE queue == ready \o woken
           to == IF queue = <<>> THEN NULL ELSE Head(queue)
<1>1. /\ current \in Threads /\ tstate[current] = "RUNNING"
      /\ ready \in Seq(Threads) /\ IsInjective(ready)
  BY DEF SchedOK, SchedTypeOK, ReadyQueueConsistent
<1>2. Range(woken) \subseteq Threads /\ Range(ready) \subseteq Threads
  BY <1>1 DEF Range
<1>3. Range(ready) \cap Range(woken) = {}
  BY <1>2 DEF SchedOK, ReadyQueueConsistent
<1>4. /\ queue \in Seq(Threads) /\ IsInjective(queue)
      /\ Range(queue) = Range(ready) \cup Range(woken)
  BY <1>1, <1>3, ConcatFacts
<1>5. current \notin Range(queue)
  BY <1>1, <1>2, <1>4 DEF SchedOK, ReadyQueueConsistent
<1>6. /\ current' = to
      /\ ready' = IF queue = <<>> THEN <<>> ELSE Tail(queue)
      /\ tstate' = [t \in Threads |->
                     IF t = to THEN "RUNNING"
                     ELSE IF t = current THEN s
                     ELSE IF t \in Range(woken) THEN "READY"
                     ELSE tstate[t]]
      /\ credits' = IF to = NULL THEN credits ELSE Credited(to)
  BY DEF SwitchAway
<1> HIDE DEF queue
<1>7. /\ to # NULL => to \in Range(queue) /\ to \in Threads
      /\ ready' \in Seq(Threads) /\ IsInjective(ready')
      /\ Range(ready') = Range(queue) \ {to}
  <2>1. CASE queue = <<>>
    BY <2>1, <1>6, SmallQueueFacts
  <2>2. CASE queue # <<>>
    BY <2>2, <1>4, <1>6, DequeueFacts, SchedulerAssumption
  <2> QED
    BY <2>1, <2>2
<1> HIDE DEF to
<1>8. to # current
  BY <1>1, <1>5, <1>7, SchedulerAssumption
<1>9. SchedTypeOK'
  <2>1. tstate' \in [Threads -> ThreadStates]
    BY <1>6 DEF SchedOK, SchedTypeOK, ThreadStates
  <2>2. credits' \in [Threads -> 0..MaxCredits]
    BY <1>6, <1>7, CreditedType DEF SchedOK, SchedTypeOK
  <2> QED
    BY <1>6, <1>7, <2>1, <2>2 DEF SchedTypeOK
<1>10. ReadyQueueConsistent'
  <2>1. ASSUME NEW t \in Threads
        PROVE  /\ t \in Range(ready') <=> tstate'[t] = "READY"
               /\ t = current' <=> tstate'[t] = "RUNNING"
    <3>1. tstate[t] = "RUNNING" <=> t = current
      BY DEF SchedOK, ReadyQueueConsistent
    <3>2. tstate[t] = "READY" <=> t \in Range(ready)
      BY DEF SchedOK, ReadyQueueConsistent
    <3> QED
      BY <1>4, <1>5, <1>6, <1>7, <1>8, <3>1, <3>2
  <2> QED
    BY <2>1, <1>7 DEF ReadyQueueConsistent
<1>11. \A u \in Threads \ (Range(woken) \cup {current}) :
          \/ tstate'[u] = tstate[u]
          \/ tstate[u] = "READY" /\ tstate'[u] = "RUNNING"
  <2> SUFFICES ASSUME NEW u \in Threads \ (Range(woken) \cup {current}), u = to
               PROVE tstate[u] = "READY" /\ tstate'[u] = "RUNNING"
    BY <1>6
  <2>1. u \in Range(ready)
    BY <1>4, <1>7, SchedulerAssumption
  <2> QED
    BY <2>1, <1>6 DEF SchedOK, ReadyQueueConsistent
<1>12. current' # NULL => tstate[current'] = "READY" \/ current' \in Range(woken)
  BY <1>4, <1>6, <1>7 DEF SchedOK, ReadyQueueConsistent
<1>13. \A u \in Range(woken) : tstate'[u] \in Runnable
  BY <1>2, <1>6, <1>1, <1>5, <1>4 DEF Runnable
<1> QED
  BY <1>1, <1>6, <1>8, <1>9, <1>10, <1>11, <1>12, <1>13 DEF SchedOK

(* The same when nobody is woken.                                          *)
LEMMA BlockFacts ==
    ASSUME SchedOK, current # NULL, SwitchAway("BLOCKED", <<>>)
    PROVE  /\ SchedOK'
           /\ tstate'[current] = "BLOCKED"
           /\ \A u \in Threads \ {current} :
                \/ tstate'[u] = tstate[u]
                \/ tstate[u] = "READY" /\ tstate'[u] = "RUNNING"
           /\ current' # NULL => tstate[current'] = "READY"
<1> DEFINE none == <<>>
<1>1. none \in Seq(Threads) /\ Range(none) = {} /\ IsInjective(none)
  BY SmallQueueFacts
<1>2. SwitchAway("BLOCKED", none)
  OBVIOUS
<1> HIDE DEF none
<1> QED
  BY <1>1, <1>2, SwitchAwayFacts

(* switch_to_thread: the current thread is ready, to runs.                 *)
LEMMA SwitchToFacts ==
    ASSUME SchedOK, current # NULL, NEW to \in Threads,
           tstate[to] = "BLOCKED", SwitchTo(to)
    PROVE  /\ SchedOK'
           /\ current' = to
           /\ tstate'[current] = "READY" /\ tstate'[to] = "RUNNING"
           /\ \A u \in Threads \ {current, to} : tstate'[u] = tstate[u]
<1>1. /\ current \in Threads /\ tstate[current] = "RUNNING"
      /\ ready \in Seq(Threads) /\ IsInjective(ready)
      /\ current \notin Range(ready) /\ to \notin Range(ready)
      /\ tstate \in [Threads -> ThreadStates]
  BY DEF SchedOK, SchedTypeOK, ReadyQueueConsistent
<1>2. /\ ready' \in Seq(Threads) /\ IsInjective(ready')
      /\ Range(ready') = Range(ready) \cup {current}
  BY <1>1, EnqueueFacts DEF SwitchTo
<1>3. /\ tstate' \in [Threads -> ThreadStates]
      /\ tstate'[current] = "READY" /\ tstate'[to] = "RUNNING"
      /\ \A u \in Threads \ {current, to} : tstate'[u] = tstate[u]
      /\ current' = to /\ credits' = credits
  BY <1>1 DEF SwitchTo, ThreadStates
<1>4. SchedTypeOK'
  BY <1>2, <1>3 DEF SchedOK, SchedTypeOK
<1>5. ReadyQueueConsistent'
  BY <1>1, <1>2, <1>3 DEF SchedOK, ReadyQueueConsistent
<1> QED
  BY <1>3, <1>4, <1>5 DEF SchedOK

(* switch_to_thread_and_block: the current thread is blocked, to runs.     *)
LEMMA SwitchToAndBlockFacts ==
    ASSUME SchedOK, current # NULL, NEW to \in Threads,
           tstate[to] = "BLOCKED", SwitchToAndBlock(to)
    PROVE  /\ SchedOK'
           /\ current' = to
           /\ tstate'[current] = "BLOCKED" /\ tstate'[to] = "RUNNING"
           /\ \A u \in Threads \ {current, to} : tstate'[u] = tstate[u]
<1>1. /\ current \in Threads /\ tstate[current] = "RUNNING"
      /\ current \notin Range(ready) /\ to \notin Range(ready)
      /\ tstate \in [Threads -> ThreadStates]
  BY DEF SchedOK, SchedTypeOK, ReadyQueueConsistent
<1>2. /\ tstate' \in [Threads -> ThreadStates]
      /\ tstate'[current] = "BLOCKED" /\ tstate'[to] = "RUNNING"
      /\ \A u \in Threads \ {current, to} : tstate'[u] = tstate[u]
      /\ current' = to /\ credits' = credits /\ ready' = ready
  BY <1>1 DEF SwitchToAndBlock, ThreadStates
<1>3. SchedTypeOK'
  BY <1>2 DEF SchedOK, SchedTypeOK
<1>4. ReadyQueueConsistent'
  BY <1>1, <1>2 DEF SchedOK, ReadyQueueConsistent
<1> QED
  BY <1>2, <1>3, <1>4 DEF SchedOK

(* reschedule: the current thread stays runnable, and so does the one that *)
(* takes its place.                                                        *)
LEMMA RescheduleFacts ==
    ASSUME SchedOK, current # NULL, Reschedule
    PROVE  /\ SchedOK'
           /\ current' \in Threads
           /\ \A u \in Threads : \/ tstate'[u] = tstate[u]
                                 \/ tstate[u] \in Runnable /\ tstate'[u] \in Runnable
<1>1. /\ current \in Threads /\ tstate[current] = "RUNNING"
      /\ ready \in Seq(Threads) /\ IsInjective(ready)
      /\ current \notin Range(ready)
      /\ tstate \in [Threads -> ThreadStates]
  BY DEF SchedOK, SchedTypeOK, ReadyQueueConsistent
<1>2. CASE credits[current] > 0
  BY <1>1, <1>2 DEF Reschedule, schedVars, SchedOK, SchedTypeOK, ReadyQueueConsistent
<1>3. CASE ~(credits[current] > 0) /\ ready = <<>>
  <2>1. /\ credits' = Credited(current)
        /\ current' = current /\ ready' = ready /\ tstate' = tstate
    BY <1>3 DEF Reschedule
  <2>2. credits' \in [Threads -> 0..MaxCredits]
    BY <2>1, <1>1, CreditedType DEF SchedOK
  <2> QED
    BY <2>1, <2>2, <1>1 DEF SchedOK, SchedTypeOK, ReadyQueueConsistent
<1>4. CASE ~(credits[current] > 0) /\ ready # <<>>
  <2> DEFINE to == Head(ready)
             rest == Tail(ready)
  <2>1. /\ credits' = Credited(to)
        /\ current' = to
        /\ ready' = Append(rest, current)
        /\ tstate' = [tstate EXCEPT ![current] = "READY", ![to] = "RUNNING"]
    BY <1>4 DEF Reschedule
  <2>2. /\ to \in Threads /\ to \in Range(ready)
        /\ rest \in Seq(Threads) /\ IsInjective(rest)
        /\ Range(rest) = Range(ready) \ {to}
    BY <1>1, <1>4, DequeueFacts
  <2> HIDE DEF to, rest
  <2>3. /\ ready' \in Seq(Threads) /\ IsInjective(ready')
        /\ Range(ready') = (Range(ready) \ {to}) \cup {current}
    BY <1>1, <2>1, <2>2, EnqueueFacts
  <2>4. credits' \in [Threads -> 0..MaxCredits]
    BY <2>1, <2>2, CreditedType DEF SchedOK
  <2>5. to # current /\ tstate[to] = "READY"
    BY <1>1, <2>2 DEF SchedOK, ReadyQueueConsistent
  <2>6. /\ tstate' \in [Threads -> ThreadStates]
        /\ tstate'[current] = "READY" /\ tstate'[to] = "RUNNING"
        /\ \A u \in Threads \ {current, to} : tstate'[u] = tstate[u]
    BY <1>1, <2>1, <2>2, <2>5 DEF ThreadStates
  <2>7. SchedTypeOK'
    BY <2>1, <2>2, <2>3, <2>4, <2>6 DEF SchedTypeOK
  <2>8. ReadyQueueConsistent'
    BY <1>1, <2>1, <2>2, <2>3, <2>5, <2>6 DEF SchedOK, ReadyQueueConsistent
  <2> QED
    BY <1>1, <2>1, <2>2, <2>5, <2>6, <2>7, <2>8 DEF SchedOK, Runnable
<1> QED
  BY <1>2, <1>3, <1>4

(* The timer tick and YIELD_THREAD change credits only.                    *)
LEMMA CreditStepFacts ==
    ASSUME SchedOK, current # NULL, SchedulerTick \/ YieldCurrentThread
    PROVE  SchedOK' /\ current' = current /\ tstate' = tstate
<1>1. current' = current /\ tstate' = tstate /\ ready' = ready
  BY DEF SchedulerTick, YieldCurrentThread
<1>2. credits' \in [Threads -> 0..MaxCredits]
  <2>1. /\ credits \in [Threads -> 0..MaxCredits]
        /\ MaxCredits \in Nat /\ current \in Threads
    BY SchedulerAssumption DEF SchedOK, SchedTypeOK
  <2>2. CASE SchedulerTick
    <3>1. \A t \in Threads : credits[t] > 0 => credits[t] - 1 \in 0..MaxCredits
      BY <2>1
    <3>2. credits' = [credits EXCEPT ![current] = IF @ > 0 THEN @ - 1 ELSE @]
      BY <2>2 DEF SchedulerTick
    <3>3. CASE credits[current] > 0
      <4>1. credits' = [credits EXCEPT ![current] = credits[current] - 1]
        BY <3>2, <3>3
      <4>2. credits[current] - 1 \in 0..MaxCredits
        BY <2>1, <3>1, <3>3
      <4> QED
        BY <2>1, <4>1, <4>2
    <3>4. CASE ~(credits[current] > 0)
      <4>1. credits' = [credits EXCEPT ![current] = credits[current]]
        BY <3>2, <3>4
      <4> QED
        BY <2>1, <4>1
    <3> QED
      BY <3>3, <3>4
  <2>3. CASE YieldCurrentThread
    BY <2>1, <2>3 DEF YieldCurrentThread
  <2> QED
    BY <2>2, <2>3
<1> QED
  BY <1>1, <1>2 DEF SchedOK, SchedTypeOK, ReadyQueueConsistent

-----------------------------------------------------------------------------
(* Nobody waits for the current thread to be woken: it is on no queue, it  *)
(* is not the client of a server and not the awaiter of a live thread.     *)
LEMMA CurrentFacts ==
    ASSUME IpcInv, NEW t \in Threads, current = t
    PROVE  /\ SchedOK
           /\ current # NULL
           /\ tstate[t] = "RUNNING"
           /\ t \notin Range(ready)
           /\ \A e \in Endpoints : t \notin Range(sendq[e]) /\ t \notin Range(recvq[e])
           /\ \A r \in Threads : sender[r] # t
           /\ \A u \in Threads : Alive(u) => awaiter[u] # t
<1>1. SchedOK
  BY DEF IpcInv, TypeOK, ListsConsistent, SchedOK
<1>2. current # NULL
  BY SchedulerAssumption
<1>3. tstate[t] = "RUNNING" /\ t \notin Range(ready)
  BY DEF IpcInv, ListsConsistent, ReadyQueueConsistent
<1>4. \A e \in Endpoints : t \notin Range(sendq[e]) /\ t \notin Range(recvq[e])
  BY <1>3 DEF IpcInv, ListsConsistent, Queued, Blocked
<1>5. \A r \in Threads : sender[r] # t
  BY <1>2, <1>3 DEF IpcInv, ServicedSendersWait, Blocked
<1>6. \A u \in Threads : Alive(u) => awaiter[u] # t
  BY <1>2, <1>3 DEF IpcInv, AwaitersReleased, Blocked
<1> QED
  BY <1>1, <1>2, <1>3, <1>4, <1>5, <1>6

(* AwaitersReleased is about who lives and who is blocked in thread_await. *)
LEMMA AwaitersFrame ==
    ASSUME IpcInv, awaiter' = awaiter,
           \A u \in Threads : Alive(u)' <=> Alive(u),
           \A u \in Threads : Blocked(u, "await")' <=> Blocked(u, "await")
    PROVE  AwaitersReleased'
BY DEF IpcInv, AwaitersReleased, TypeOK

(* The initial state: one thread, running, and empty queues.               *)
LEMMA IpcInvInit == Init => IpcInv
<1> SUFFICES ASSUME Init PROVE IpcInv
  OBVIOUS
<1> USE DEF Init, SchedInit
<1>1. TypeOK
  <2>1. <<>> \in Seq(Threads) /\ NoMessage \in Messages /\ "OK" \in Errnos
    BY DEF NoMessage, Messages, Errnos
  <2>2. SchedTypeOK
    BY <2>1, SchedulerAssumption, IpcAssumption DEF SchedTypeOK, ThreadStates
  <2> QED
    BY <2>1, <2>2, SchedulerAssumption, IpcAssumption DEF TypeOK, PCs
<1>2. ListsConsistent
  <2>1. ReadyQueueConsistent
    BY SmallQueueFacts, IpcAssumption DEF ReadyQueueConsistent
  <2> QED
    BY <2>1, SmallQueueFacts DEF ListsConsistent, Queued, Blocked, Alive
<1>3. ServicedSendersWait /\ AwaitersReleased
  BY DEF ServicedSendersWait, AwaitersReleased, Blocked
<1>4. NoMissedRendezvous
  BY DEF NoMissedRendezvous
<1>5. WakesWithOutcome
  BY SmallQueueFacts DEF WakesWithOutcome, Queued
<1> QED
  BY <1>1, <1>2, <1>3, <1>4, <1>5 DEF IpcInv

-----------------------------------------------------------------------------
(* Steps that only move the current thread about outside of IPC, and may   *)
(* exchange it for another runnable thread.                                *)
LEMMA QuietStep ==
    ASSUME IpcInv, NEW t \in Threads, current = t,
           pc[t] \notin {"none", "send", "receive"},
           NEW w \in {"user", "trapret", "close"}, Goto(t, w),
           SchedOK', current' # NULL,
           \A u \in Threads : \/ tstate'[u] = tstate[u]
                              \/ tstate[u] \in Runnable /\ tstate'[u] \in Runnable,
           UNCHANGED <<queueVars, callVars, sender, awaiter, exiting>>
    PROVE  IpcInv'
<1> USE DEF Goto, queueVars, callVars
<1>1. /\ pc \in [Threads -> PCs]
      /\ tstate[t] = "RUNNING"
      /\ pc'[t] = w /\ \A u \in Threads \ {t} : pc'[u] = pc[u]
      /\ tstate'[t] \in Runnable
      /\ \A u \in Threads : tstate'[u] = "BLOCKED" <=> tstate[u] = "BLOCKED"
      /\ \A u \in Threads : Alive(u)' <=> Alive(u)
  <2>1. pc \in [Threads -> PCs] /\ tstate[t] = "RUNNING"
    BY CurrentFacts DEF IpcInv, TypeOK
  <2>2. pc'[t] = w /\ \A u \in Threads \ {t} : pc'[u] = pc[u]
    BY <2>1
  <2>3. /\ tstate'[t] \in Runnable
        /\ \A u \in Threads : tstate'[u] = "BLOCKED" <=> tstate[u] = "BLOCKED"
        /\ \A u \in Threads : Alive(u)' <=> Alive(u)
    BY <2>1 DEF Runnable, Alive
  <2> QED
    BY <2>1, <2>2, <2>3
<1>2. TypeOK'
  BY <1>1 DEF IpcInv, TypeOK, SchedOK, PCs
<1>3. \A u \in Threads : \A where \in {"send", "receive"} :
        Blocked(u, where)' <=> Blocked(u, where)
  BY <1>1 DEF Blocked, Runnable
<1>4. ListsConsistent'
  BY <1>1, <1>3 DEF IpcInv, ListsConsistent, SchedOK, Queued, Runnable
<1>5. ServicedSendersWait'
  BY <1>1, <1>3 DEF IpcInv, ServicedSendersWait, Queued, TypeOK
<1>6. NoMissedRendezvous'
  BY DEF IpcInv, NoMissedRendezvous
<1>7. WakesWithOutcome'
  BY <1>1 DEF IpcInv, WakesWithOutcome, Queued
<1>8. AwaitersReleased'
  <2>1. \A u \in Threads : Blocked(u, "await")' <=> Blocked(u, "await")
    BY <1>1 DEF Blocked, Runnable
  <2> QED
    BY <1>1, <2>1, AwaitersFrame
<1> QED
  BY <1>2, <1>4, <1>5, <1>6, <1>7, <1>8 DEF IpcInv

(* A system call on something else, the timer tick, YIELD_THREAD, the end  *)
(* of handle_trap and the returns from thread_await and from CLOSE.        *)
LEMMA QuietActions ==
    ASSUME IpcInv, NEW t \in Threads,
           \/ OtherTrap(t) \/ Tick(t) \/ Yield(t) \/ TrapReturn(t)
           \/ AwaitReturn(t) \/ CloseReturn(t)
    PROVE  IpcInv'
<1>1. current = t
  BY DEF OtherTrap, Tick, Yield, TrapReturn, AwaitReturn, CloseReturn, At
<1>2. SchedOK /\ current # NULL
  BY <1>1, CurrentFacts
<1>3. CASE OtherTrap(t) \/ AwaitReturn(t) \/ CloseReturn(t)
  <2>1. SchedOK' /\ current' # NULL /\ tstate' = tstate
    BY <1>2, <1>3 DEF OtherTrap, AwaitReturn, CloseReturn, schedVars, SchedOK,
       SchedTypeOK, ReadyQueueConsistent
  <2> QED
    BY <1>1, <1>3, <2>1, QuietStep DEF OtherTrap, AwaitReturn, CloseReturn, At
<1>4. CASE Tick(t) \/ Yield(t)
  <2>1. SchedOK' /\ current' # NULL /\ tstate' = tstate
    BY <1>2, <1>4, CreditStepFacts DEF Tick, Yield
  <2> QED
    BY <1>1, <1>4, <2>1, QuietStep DEF Tick, Yield, At
<1>5. CASE TrapReturn(t)
  <2>1. /\ SchedOK' /\ current' # NULL
        /\ \A u \in Threads : \/ tstate'[u] = tstate[u]
                              \/ tstate[u] \in Runnable /\ tstate'[u] \in Runnable
    BY <1>2, <1>5, RescheduleFacts, SchedulerAssumption DEF TrapReturn
  <2> QED
    BY <1>1, <1>5, <2>1, QuietStep DEF TrapReturn, At
<1> QED
  BY <1>3, <1>4, <1>5

(* The end of send_message and the returns of receive_message.             *)
LEMMA EndCallStep ==
    ASSUME IpcInv, NEW t \in Threads,
           At(t, "send") \/ At(t, "receive"), EndCall(t), Goto(t, "trapret"),
           UNCHANGED <<schedVars, queueVars, awaiter, exiting>>,
           sender' = sender \/ sender' = [sender EXCEPT ![t] = NULL]
    PROVE  IpcInv'
<1> USE DEF Goto, queueVars, schedVars, At, EndCall
<1>1. /\ tstate[t] = "RUNNING" /\ current = t
      /\ \A e \in Endpoints : t \notin Range(sendq[e]) /\ t \notin Range(recvq[e])
      /\ \A r \in Threads : sender[r] # t
  BY CurrentFacts
<1>2. TypeOK'
  <2>1. NoMessage \in Messages /\ "OK" \in Errnos
    BY DEF NoMessage, Messages, Errnos
  <2> QED
    BY <1>1, <2>1 DEF IpcInv, TypeOK, SchedTypeOK, PCs
<1>3. /\ pc'[t] = "trapret" /\ \A u \in Threads \ {t} : pc'[u] = pc[u]
      /\ \A u \in Threads \ {t} : /\ ep'[u] = ep[u] /\ msg'[u] = msg[u]
                                  /\ room'[u] = room[u] /\ errno'[u] = errno[u]
                                  /\ sender'[u] = sender[u]
      /\ sender'[t] \in {sender[t], NULL}
  BY DEF IpcInv, TypeOK
<1>4. ListsConsistent'
  BY <1>1, <1>3 DEF IpcInv, ListsConsistent, ReadyQueueConsistent, Queued,
     Blocked, Alive
<1>5. ServicedSendersWait'
  <2>1. \A r \in Threads : sender'[r] # NULL =>
          sender'[r] = sender[r] /\ sender[r] \in Threads \ {t}
    BY <1>1, <1>3 DEF IpcInv, TypeOK
  <2>2. ASSUME NEW r \in Threads, sender'[r] # NULL
        PROVE  /\ Alive(r)'
               /\ Blocked(sender[r], "send")'
               /\ errno'[sender[r]] = "OK"
               /\ \A e \in Endpoints : ~Queued(sender[r], sendq[e])'
    BY <2>1, <2>2, <1>3 DEF IpcInv, ServicedSendersWait, Queued, Blocked, Alive
  <2> QED
    BY <2>1, <2>2 DEF IpcInv, ServicedSendersWait, Queued, Blocked
<1>6. NoMissedRendezvous'
  BY DEF IpcInv, NoMissedRendezvous
<1>7. WakesWithOutcome'
  <2>1. \A u \in Threads, e \in Endpoints : Queued(u, sendq[e])' =>
          msg'[u].kind = "request" /\ errno'[u] = "OK"
    BY <1>1, <1>3 DEF IpcInv, WakesWithOutcome, Queued
  <2>2. \A u \in Threads : pc'[u] = "send" /\ tstate'[u] # "BLOCKED" =>
          \/ errno'[u] # "OK"
          \/ msg'[u].kind = "reply" /\ msg'[u].size <= room'[u]
    <3> SUFFICES ASSUME NEW u \in Threads, pc'[u] = "send", tstate'[u] # "BLOCKED"
                 PROVE  \/ errno'[u] # "OK"
                        \/ msg'[u].kind = "reply" /\ msg'[u].size <= room'[u]
      OBVIOUS
    <3>1. /\ pc[u] = "send" /\ tstate[u] # "BLOCKED" /\ errno'[u] = errno[u]
          /\ msg'[u] = msg[u] /\ room'[u] = room[u]
      BY <1>3
    <3> QED
      BY <3>1 DEF IpcInv, WakesWithOutcome
  <2>3. \A u \in Threads : pc'[u] = "receive" /\ tstate'[u] # "BLOCKED" =>
          errno'[u] # "OK"
    BY <1>1, <1>3 DEF IpcInv, WakesWithOutcome
  <2> QED
    BY <2>1, <2>2, <2>3 DEF WakesWithOutcome
<1>8. AwaitersReleased'
  BY <1>1, <1>3 DEF IpcInv, AwaitersReleased, Blocked, Alive, TypeOK
<1> QED
  BY <1>2, <1>4, <1>5, <1>6, <1>7, <1>8 DEF IpcInv

(* The returns from SEND and from RECEIVE.                                 *)
LEMMA EndCallActions ==
    ASSUME IpcInv, NEW t \in Threads,
           \/ SendReturn(t) \/ ReceiveAborted(t)
           \/ ReceiveDelivers(t) \/ ReceiveScatterFails(t)
    PROVE  IpcInv'
BY EndCallStep DEF SendReturn, ReceiveAborted, ReceiveDelivers, ReceiveScatterFails

(* A step that blocks, wakes and queues no thread.                         *)
LEMMA ListsFrame ==
    ASSUME IpcInv, UNCHANGED <<current, tstate, ready, sendq, recvq, destroyed>>,
           UNCHANGED <<ep, errno, sender, awaiter>>,
           \A u \in Threads :
             pc'[u] = pc[u] \/ (tstate[u] = "RUNNING" /\ pc[u] # "none" /\ pc'[u] # "none")
    PROVE  /\ ListsConsistent' /\ ServicedSendersWait'
           /\ NoMissedRendezvous' /\ AwaitersReleased'
<1>1. /\ current' = current /\ tstate' = tstate /\ ready' = ready
      /\ sendq' = sendq /\ recvq' = recvq /\ destroyed' = destroyed
      /\ ep' = ep /\ errno' = errno /\ sender' = sender /\ awaiter' = awaiter
  OBVIOUS
<1>2. \A u \in Threads : Alive(u)' <=> Alive(u)
  BY <1>1 DEF Alive
<1>3. \A u \in Threads, where \in {"send", "receive", "await"} :
        Blocked(u, where)' <=> Blocked(u, where)
  BY <1>1 DEF Blocked
<1>4. sender \in [Threads -> Threads \cup {NULL}]
  BY DEF IpcInv, TypeOK
<1>5. ListsConsistent'
  <2>1. ListsConsistent
    BY DEF IpcInv
  <2>2. ReadyQueueConsistent'
    BY <1>1, <2>1 DEF ListsConsistent, ReadyQueueConsistent
  <2>3. ASSUME NEW u \in Threads
        PROVE  /\ Alive(u)' <=> pc'[u] # "none"
               /\ tstate'[u] = "BLOCKED" => pc'[u] \in {"send", "receive", "await"}
    BY <1>1, <1>2, <2>1 DEF ListsConsistent, Alive
  <2>4. ASSUME NEW u \in Threads, NEW e \in Endpoints
        PROVE  /\ Queued(u, sendq[e])' => Blocked(u, "send")' /\ ep'[u] = e
               /\ Queued(u, recvq[e])' <=> Blocked(u, "receive")' /\ ep'[u] = e
    <3>1. /\ Queued(u, sendq[e]) => Blocked(u, "send") /\ ep[u] = e
          /\ Queued(u, recvq[e]) <=> Blocked(u, "receive") /\ ep[u] = e
      BY <2>1 DEF ListsConsistent
    <3> QED
      BY <1>1, <1>3, <3>1 DEF Queued
  <2>5. \A e \in Endpoints : IsInjective(sendq[e]) /\ IsInjective(recvq[e])
    BY <2>1 DEF ListsConsistent
  <2> QED
    BY <1>1, <2>2, <2>3, <2>4, <2>5 DEF ListsConsistent
<1>6. ServicedSendersWait'
  <2>1. ServicedSendersWait
    BY DEF IpcInv
  <2>2. ASSUME NEW r \in Threads, sender[r] # NULL
        PROVE  /\ Alive(r)' /\ Blocked(sender[r], "send")' /\ errno'[sender'[r]] = "OK"
               /\ \A e \in Endpoints : ~Queued(sender[r], sendq[e])'
    <3>1. /\ Alive(r) /\ Blocked(sender[r], "send") /\ errno[sender[r]] = "OK"
          /\ \A e \in Endpoints : ~Queued(sender[r], sendq[e])
          /\ sender[r] \in Threads
      BY <1>4, <2>1, <2>2 DEF ServicedSendersWait
    <3>2. Blocked(sender[r], "send")'
      BY <1>1, <3>1 DEF Blocked
    <3>3. \A e \in Endpoints : ~Queued(sender[r], sendq[e])'
      BY <1>1, <3>1 DEF Queued
    <3> QED
      BY <1>1, <1>2, <3>1, <3>2, <3>3
  <2> QED
    BY <1>1, <2>1, <2>2 DEF ServicedSendersWait
<1>7. NoMissedRendezvous'
  BY <1>1 DEF IpcInv, NoMissedRendezvous
<1>8. AwaitersReleased'
  BY <1>1, <1>2, <1>3, AwaitersFrame
<1> QED
  BY <1>5, <1>6, <1>7, <1>8

(* The switch away from an exited thread.                                  *)
LEMMA ExitDoneStep ==
    ASSUME IpcInv, ExitDone
    PROVE  IpcInv'
<1>1. /\ exiting # NULL /\ exiting' = NULL /\ pc' = pc
      /\ current' = current /\ tstate' = tstate /\ ready' = ready /\ credits' = credits
      /\ sendq' = sendq /\ recvq' = recvq /\ destroyed' = destroyed
      /\ ep' = ep /\ msg' = msg /\ room' = room /\ errno' = errno
      /\ sender' = sender /\ awaiter' = awaiter
  BY DEF ExitDone, schedVars, queueVars, callVars
<1>2. TypeOK'
  BY <1>1 DEF IpcInv, TypeOK, SchedTypeOK
<1>3. /\ ListsConsistent' /\ ServicedSendersWait'
      /\ NoMissedRendezvous' /\ AwaitersReleased'
  BY <1>1, ListsFrame
<1>4. WakesWithOutcome'
  <2>1. WakesWithOutcome
    BY DEF IpcInv
  <2> QED
    BY <1>1, <2>1 DEF WakesWithOutcome, Queued
<1> QED
  BY <1>2, <1>3, <1>4 DEF IpcInv

-----------------------------------------------------------------------------
(* What the two branches of send_message have in common.                   *)
LEMMA SendFacts ==
    ASSUME IpcInv, NEW t \in Threads, NEW e \in Endpoints,
           NEW size \in Sizes, NEW cap \in Sizes, SendMessage(t, e, size, cap)
    PROVE  /\ ~destroyed[e] /\ destroyed' = destroyed
           /\ awaiter' = awaiter /\ exiting' = exiting /\ exiting = NULL
           /\ current = t /\ pc[t] = "user"
           /\ pc' \in [Threads -> PCs] /\ ep' \in [Threads -> Endpoints \cup {NULL}]
           /\ msg' \in [Threads -> Messages] /\ room' \in [Threads -> Nat]
           /\ errno' \in [Threads -> Errnos]
           /\ pc'[t] = "send" /\ ep'[t] = e /\ errno'[t] = "OK"
           /\ msg'[t].kind = "request"
           /\ \A u \in Threads \ {t} :
                /\ pc'[u] = pc[u] /\ ep'[u] = ep[u] /\ msg'[u] = msg[u]
                /\ room'[u] = room[u] /\ errno'[u] = errno[u]
<1>1. /\ pc \in [Threads -> PCs] /\ ep \in [Threads -> Endpoints \cup {NULL}]
      /\ msg \in [Threads -> Messages] /\ room \in [Threads -> Nat]
      /\ errno \in [Threads -> Errnos]
  BY DEF IpcInv, TypeOK
<1>2. /\ cap \in Nat /\ [kind |-> "request", size |-> size] \in Messages
      /\ "OK" \in Errnos /\ "send" \in PCs
  BY IpcAssumption DEF Messages, Errnos, PCs
<1> QED
  BY <1>1, <1>2 DEF SendMessage, At, Goto

(* send_message without a waiting receiver: the sender waits on send_list. *)
LEMMA SendWaits ==
    ASSUME IpcInv, NEW t \in Threads, NEW e \in Endpoints,
           NEW size \in Sizes, NEW cap \in Sizes, SendMessage(t, e, size, cap),
           recvq[e] = <<>>
    PROVE  IpcInv'
<1>1. /\ sendq' = [sendq EXCEPT ![e] = Append(sendq[e], t)]
      /\ SwitchAway("BLOCKED", <<>>)
      /\ recvq' = recvq /\ sender' = sender
  BY DEF SendMessage
<1>2. /\ ~destroyed[e] /\ destroyed' = destroyed
      /\ awaiter' = awaiter /\ exiting' = exiting /\ exiting = NULL
      /\ current = t /\ pc[t] = "user"
      /\ pc' \in [Threads -> PCs] /\ ep' \in [Threads -> Endpoints \cup {NULL}]
      /\ msg' \in [Threads -> Messages] /\ room' \in [Threads -> Nat]
      /\ errno' \in [Threads -> Errnos]
      /\ pc'[t] = "send" /\ ep'[t] = e /\ errno'[t] = "OK"
      /\ msg'[t].kind = "request"
      /\ \A u \in Threads \ {t} :
           /\ pc'[u] = pc[u] /\ ep'[u] = ep[u] /\ msg'[u] = msg[u]
           /\ room'[u] = room[u] /\ errno'[u] = errno[u]
  BY SendFacts
<1>3. /\ SchedOK /\ current # NULL /\ tstate[t] = "RUNNING"
      /\ \A d \in Endpoints : t \notin Range(sendq[d]) /\ t \notin Range(recvq[d])
      /\ \A r \in Threads : sender[r] # t
  BY <1>2, CurrentFacts
<1>4. /\ SchedOK' /\ tstate'[t] = "BLOCKED"
      /\ \A u \in Threads \ {t} :
           \/ tstate'[u] = tstate[u]
           \/ tstate[u] = "READY" /\ tstate'[u] = "RUNNING"
      /\ current' # NULL => tstate[current'] = "READY"
  BY <1>1, <1>2, <1>3, BlockFacts
<1>5. /\ sendq \in [Endpoints -> Seq(Threads)]
      /\ \A d \in Endpoints : IsInjective(sendq[d])
  BY DEF IpcInv, TypeOK, ListsConsistent
<1>6. /\ sendq' \in [Endpoints -> Seq(Threads)]
      /\ \A d \in Endpoints : IsInjective(sendq'[d])
      /\ Range(sendq'[e]) = Range(sendq[e]) \cup {t}
      /\ \A d \in Endpoints \ {e} : sendq'[d] = sendq[d]
  <2>1. /\ Append(sendq[e], t) \in Seq(Threads) /\ IsInjective(Append(sendq[e], t))
        /\ Range(Append(sendq[e], t)) = Range(sendq[e]) \cup {t}
    <3>1. /\ sendq[e] \in Seq(Threads) /\ IsInjective(sendq[e])
          /\ t \notin Range(sendq[e])
      BY <1>3, <1>5
    <3> QED
      BY <3>1, EnqueueFacts
  <2> QED
    BY <2>1, <1>1, <1>5
<1>7. TypeOK'
  BY <1>1, <1>2, <1>4, <1>6 DEF IpcInv, TypeOK, SchedOK
<1>8. \A u \in Threads : /\ Alive(u)' <=> Alive(u)
                         /\ u # t => (tstate'[u] = "BLOCKED" <=> tstate[u] = "BLOCKED")
  BY <1>3, <1>4 DEF Alive
<1>9. ListsConsistent'
  <2>1. ASSUME NEW u \in Threads
        PROVE  /\ Alive(u)' <=> pc'[u] # "none"
               /\ tstate'[u] = "BLOCKED" => pc'[u] \in {"send", "receive", "await"}
    BY <1>2, <1>4, <1>8, <1>3 DEF IpcInv, ListsConsistent, Alive
  <2>2. ASSUME NEW u \in Threads, NEW d \in Endpoints
        PROVE  /\ Queued(u, sendq[d])' => Blocked(u, "send")' /\ ep'[u] = d
               /\ Queued(u, recvq[d])' <=> Blocked(u, "receive")' /\ ep'[u] = d
    <3>1. CASE u = t
      BY <3>1, <1>1, <1>2, <1>3, <1>4, <1>6 DEF Queued, Blocked
    <3>2. CASE u # t
      <4>1. /\ Queued(u, sendq[d])' <=> Queued(u, sendq[d])
            /\ Queued(u, recvq[d])' <=> Queued(u, recvq[d])
        BY <3>2, <1>1, <1>6 DEF Queued
      <4>2. /\ ep'[u] = ep[u]
            /\ Blocked(u, "send")' <=> Blocked(u, "send")
            /\ Blocked(u, "receive")' <=> Blocked(u, "receive")
        BY <3>2, <1>2, <1>8 DEF Blocked
      <4> QED
        BY <4>1, <4>2 DEF IpcInv, ListsConsistent
    <3> QED
      BY <3>1, <3>2
  <2> QED
    BY <1>1, <1>4, <1>6, <2>1, <2>2 DEF IpcInv, ListsConsistent, SchedOK
<1>10. ServicedSendersWait'
  <2>1. \A r \in Threads : sender[r] # NULL => sender[r] \in Threads \ {t}
    BY <1>3 DEF IpcInv, TypeOK
  <2>2. ASSUME NEW r \in Threads, sender[r] # NULL
        PROVE  /\ Alive(r)'
               /\ Blocked(sender[r], "send")'
               /\ errno'[sender[r]] = "OK"
               /\ \A d \in Endpoints : ~Queued(sender[r], sendq[d])'
    <3>1. /\ Alive(r) /\ Blocked(sender[r], "send") /\ errno[sender[r]] = "OK"
          /\ \A d \in Endpoints : ~Queued(sender[r], sendq[d])
      BY <2>2 DEF IpcInv, ServicedSendersWait
    <3>2. errno'[sender[r]] = "OK" /\ Blocked(sender[r], "send")' /\ Alive(r)'
      BY <2>1, <2>2, <3>1, <1>1, <1>2, <1>8 DEF Blocked
    <3>3. \A d \in Endpoints : ~Queued(sender[r], sendq[d])'
      BY <2>1, <2>2, <3>1, <1>1, <1>6 DEF Queued
    <3> QED
      BY <3>2, <3>3
  <2> QED
    BY <2>2, <1>1 DEF IpcInv, ServicedSendersWait
<1>11. NoMissedRendezvous'
  BY <1>1, <1>2, <1>6 DEF IpcInv, NoMissedRendezvous
<1>12. WakesWithOutcome'
  <2>1. \A u \in Threads, d \in Endpoints : Queued(u, sendq[d])' =>
          msg'[u].kind = "request" /\ errno'[u] = "OK"
    <3> SUFFICES ASSUME NEW u \in Threads, NEW d \in Endpoints,
                        Queued(u, sendq[d])'
                 PROVE  msg'[u].kind = "request" /\ errno'[u] = "OK"
      OBVIOUS
    <3>1. CASE u = t
      BY <3>1, <1>2
    <3>2. CASE u # t
      <4>1. Queued(u, sendq[d])
        BY <3>2, <1>6 DEF Queued
      <4>2. msg'[u] = msg[u] /\ errno'[u] = errno[u]
        BY <3>2, <1>2
      <4> QED
        BY <4>1, <4>2 DEF IpcInv, WakesWithOutcome
    <3> QED
      BY <3>1, <3>2
  <2>2. ASSUME NEW u \in Threads, pc'[u] = "send", tstate'[u] # "BLOCKED"
        PROVE  \/ errno'[u] # "OK"
               \/ msg'[u].kind = "reply" /\ msg'[u].size <= room'[u]
    <3>1. u # t /\ pc[u] = "send" /\ tstate[u] # "BLOCKED"
      BY <2>2, <1>2, <1>4, <1>8
    <3>2. errno'[u] = errno[u] /\ msg'[u] = msg[u] /\ room'[u] = room[u]
      BY <3>1, <1>2
    <3> QED
      BY <3>1, <3>2 DEF IpcInv, WakesWithOutcome
  <2>3. ASSUME NEW u \in Threads, pc'[u] = "receive", tstate'[u] # "BLOCKED"
        PROVE  errno'[u] # "OK"
    <3>1. u # t
      BY <2>3, <1>2
    <3>2. pc[u] = "receive" /\ tstate[u] # "BLOCKED" /\ errno'[u] = errno[u]
      BY <2>3, <3>1, <1>2, <1>8
    <3>3. u # current
      BY <3>1, <1>2
    <3> QED
      BY <3>2, <3>3 DEF IpcInv, WakesWithOutcome
  <2> QED
    BY <2>1, <2>2, <2>3 DEF WakesWithOutcome
<1>13. AwaitersReleased'
  <2>1. \A u \in Threads : Blocked(u, "await")' <=> Blocked(u, "await")
    BY <1>2, <1>3, <1>8 DEF Blocked
  <2> QED
    BY <1>2, <1>8, <2>1, AwaitersFrame
<1> QED
  BY <1>7, <1>9, <1>10, <1>11, <1>12, <1>13 DEF IpcInv

(* send_message with a waiting receiver: the receiver leaves recv_list and *)
(* runs, with the sender to service.                                       *)
LEMMA SendDelivers ==
    ASSUME IpcInv, NEW t \in Threads, NEW e \in Endpoints,
           NEW size \in Sizes, NEW cap \in Sizes, SendMessage(t, e, size, cap),
           recvq[e] # <<>>
    PROVE  IpcInv'
<1>0. PICK r \in Threads : r = Head(recvq[e])
  BY DequeueFacts DEF IpcInv, TypeOK
<1>1. /\ recvq' = [recvq EXCEPT ![e] = Tail(recvq[e])]
      /\ sender' = [sender EXCEPT ![r] = t]
      /\ SwitchToAndBlock(r)
      /\ sendq' = sendq
  BY <1>0 DEF SendMessage
<1>2. /\ ~destroyed[e] /\ destroyed' = destroyed
      /\ awaiter' = awaiter /\ exiting' = exiting /\ exiting = NULL
      /\ current = t /\ pc[t] = "user"
      /\ pc' \in [Threads -> PCs] /\ ep' \in [Threads -> Endpoints \cup {NULL}]
      /\ msg' \in [Threads -> Messages] /\ room' \in [Threads -> Nat]
      /\ errno' \in [Threads -> Errnos]
      /\ pc'[t] = "send" /\ ep'[t] = e /\ errno'[t] = "OK"
      /\ msg'[t].kind = "request"
      /\ \A u \in Threads \ {t} :
           /\ pc'[u] = pc[u] /\ ep'[u] = ep[u] /\ msg'[u] = msg[u]
           /\ room'[u] = room[u] /\ errno'[u] = errno[u]
  BY SendFacts
<1>3. /\ SchedOK /\ current # NULL /\ tstate[t] = "RUNNING"
      /\ \A d \in Endpoints : t \notin Range(sendq[d]) /\ t \notin Range(recvq[d])
      /\ \A q \in Threads : sender[q] # t
  BY <1>2, CurrentFacts
<1>4. /\ recvq \in [Endpoints -> Seq(Threads)]
      /\ \A d \in Endpoints : IsInjective(recvq[d])
      /\ sender \in [Threads -> Threads \cup {NULL}]
  BY DEF IpcInv, TypeOK, ListsConsistent
<1>5. /\ r \in Threads /\ r \in Range(recvq[e])
      /\ Tail(recvq[e]) \in Seq(Threads) /\ IsInjective(Tail(recvq[e]))
      /\ Range(Tail(recvq[e])) = Range(recvq[e]) \ {r}
  BY <1>0, <1>4, DequeueFacts
<1>6. Blocked(r, "receive") /\ ep[r] = e /\ r # t
  BY <1>3, <1>5 DEF IpcInv, ListsConsistent, Queued
<1>7. /\ SchedOK' /\ current' = r
      /\ tstate'[t] = "BLOCKED" /\ tstate'[r] = "RUNNING"
      /\ \A u \in Threads \ {t, r} : tstate'[u] = tstate[u]
  BY <1>1, <1>2, <1>3, <1>5, <1>6, SwitchToAndBlockFacts DEF Blocked
<1>8. /\ recvq' \in [Endpoints -> Seq(Threads)]
      /\ \A d \in Endpoints : IsInjective(recvq'[d])
      /\ Range(recvq'[e]) = Range(recvq[e]) \ {r}
      /\ \A d \in Endpoints \ {e} : recvq'[d] = recvq[d]
  BY <1>1, <1>4, <1>5
<1>9. /\ sender' \in [Threads -> Threads \cup {NULL}]
      /\ sender'[r] = t /\ \A q \in Threads \ {r} : sender'[q] = sender[q]
  BY <1>1, <1>4, <1>5
<1>10. TypeOK'
  BY <1>1, <1>2, <1>7, <1>8, <1>9, SchedulerAssumption DEF IpcInv, TypeOK, SchedOK
<1>11. \A u \in Threads : Alive(u)' <=> Alive(u)
  BY <1>3, <1>6, <1>7 DEF Alive, Blocked
<1>12. ListsConsistent'
  <2>1. ASSUME NEW u \in Threads
        PROVE  /\ Alive(u)' <=> pc'[u] # "none"
               /\ tstate'[u] = "BLOCKED" => pc'[u] \in {"send", "receive", "await"}
    <3>1. /\ Alive(u) <=> pc[u] # "none"
          /\ tstate[u] = "BLOCKED" => pc[u] \in {"send", "receive", "await"}
      BY DEF IpcInv, ListsConsistent
    <3>2. CASE u = t
      <4>1. pc'[u] = "send" /\ Alive(u)
        BY <3>2, <1>2, <1>3 DEF Alive
      <4> QED
        BY <4>1, <1>11
    <3>3. CASE u # t
      <4>1. pc'[u] = pc[u] /\ (Alive(u)' <=> Alive(u))
        BY <3>3, <1>2, <1>11, Zenon
      <4>2. tstate'[u] = "BLOCKED" => tstate[u] = "BLOCKED"
        BY <3>3, <1>6, <1>7 DEF Blocked
      <4> QED
        BY <3>1, <4>1, <4>2
    <3> QED
      BY <3>2, <3>3, Zenon
  <2>2. ASSUME NEW u \in Threads, NEW d \in Endpoints
        PROVE  /\ Queued(u, sendq[d])' => Blocked(u, "send")' /\ ep'[u] = d
               /\ Queued(u, recvq[d])' <=> Blocked(u, "receive")' /\ ep'[u] = d
    <3>1. CASE u = t
      <4>1. Queued(u, recvq[d])' => Queued(u, recvq[d])
        BY <1>8 DEF Queued
      <4> QED
        BY <3>1, <4>1, <1>1, <1>2, <1>3, <1>7 DEF Queued, Blocked
    <3>2. CASE u = r
      <4>1. ~Queued(u, recvq[d])'
        BY <3>2, <1>6, <1>8 DEF IpcInv, ListsConsistent, Queued
      <4>2. ~Queued(u, sendq[d])'
        BY <3>2, <1>1, <1>6 DEF IpcInv, ListsConsistent, Queued, Blocked
      <4> QED
        BY <3>2, <4>1, <4>2, <1>7 DEF Blocked
    <3>3. CASE u # t /\ u # r
      <4>1. /\ Queued(u, sendq[d])' <=> Queued(u, sendq[d])
            /\ Queued(u, recvq[d])' <=> Queued(u, recvq[d])
        BY <3>3, <1>1, <1>8 DEF Queued
      <4>2. /\ ep'[u] = ep[u]
            /\ Blocked(u, "send")' <=> Blocked(u, "send")
            /\ Blocked(u, "receive")' <=> Blocked(u, "receive")
        BY <3>3, <1>2, <1>7 DEF Blocked
      <4> QED
        BY <4>1, <4>2 DEF IpcInv, ListsConsistent
    <3> QED
      BY <3>1, <3>2, <3>3
  <2> QED
    BY <1>1, <1>7, <1>8, <2>1, <2>2 DEF IpcInv, ListsConsistent, SchedOK
<1>13. ServicedSendersWait'
  <2>1. ASSUME NEW q \in Threads, sender'[q] # NULL
        PROVE  /\ Alive(q)'
               /\ Blocked(sender[q], "send")'
               /\ errno'[sender'[q]] = "OK"
               /\ \A d \in Endpoints : ~Queued(sender[q], sendq[d])'
    <3>1. CASE q = r
      <4>1. Alive(r)'
        BY <1>7 DEF Alive
      <4> QED
        BY <3>1, <4>1, <1>1, <1>2, <1>3, <1>7, <1>9 DEF Blocked, Queued
    <3>2. CASE q # r
      <4>1. /\ Alive(q) /\ Blocked(sender[q], "send") /\ errno[sender[q]] = "OK"
            /\ \A d \in Endpoints : ~Queued(sender[q], sendq[d])
            /\ sender'[q] = sender[q] /\ sender[q] \in Threads \ {t}
        BY <2>1, <3>2, <1>3, <1>9 DEF IpcInv, ServicedSendersWait, TypeOK
      <4>2. sender[q] # r
        BY <4>1, <1>6 DEF Blocked
      <4> QED
        BY <4>1, <4>2, <1>1, <1>2, <1>7, <1>11 DEF Blocked, Queued
    <3> QED
      BY <3>1, <3>2
  <2>2. \A q, p \in Threads : sender'[q] # NULL /\ sender'[q] = sender'[p] => q = p
    BY <1>3, <1>9 DEF IpcInv, ServicedSendersWait
  <2> QED
    BY <2>1, <2>2 DEF ServicedSendersWait
<1>14. NoMissedRendezvous'
  <2>1. sendq[e] = <<>>
    BY DEF IpcInv, NoMissedRendezvous
  <2> QED
    BY <2>1, <1>1, <1>2, <1>8 DEF IpcInv, NoMissedRendezvous
<1>15. WakesWithOutcome'
  <2>1. ASSUME NEW u \in Threads, NEW d \in Endpoints, Queued(u, sendq[d])'
        PROVE  msg'[u].kind = "request" /\ errno'[u] = "OK"
    <3>1. Queued(u, sendq[d]) /\ u # t
      BY <2>1, <1>1, <1>3 DEF Queued
    <3>2. msg'[u] = msg[u] /\ errno'[u] = errno[u]
      BY <3>1, <1>2
    <3> QED
      BY <3>1, <3>2 DEF IpcInv, WakesWithOutcome
  <2>2. ASSUME NEW u \in Threads, pc'[u] = "send", tstate'[u] # "BLOCKED"
        PROVE  \/ errno'[u] # "OK"
               \/ msg'[u].kind = "reply" /\ msg'[u].size <= room'[u]
    <3>1. u # t /\ pc[u] = "send" /\ tstate[u] # "BLOCKED"
      BY <2>2, <1>2, <1>6, <1>7 DEF Blocked
    <3>2. errno'[u] = errno[u] /\ msg'[u] = msg[u] /\ room'[u] = room[u]
      BY <3>1, <1>2
    <3> QED
      BY <3>1, <3>2 DEF IpcInv, WakesWithOutcome
  <2>3. ASSUME NEW u \in Threads, pc'[u] = "receive", tstate'[u] # "BLOCKED",
               errno'[u] = "OK"
        PROVE  /\ sender'[u] # NULL
               /\ msg'[sender'[u]].kind = "request"
               /\ ep'[sender'[u]] = ep'[u]
               /\ ~destroyed'[ep'[u]]
               /\ u = current' /\ exiting' = NULL
    <3>1. u = r
      <4> SUFFICES ASSUME u # r PROVE FALSE
        OBVIOUS
      <4>1. u # t /\ pc[u] = "receive" /\ tstate[u] # "BLOCKED" /\ errno[u] = "OK"
        BY <2>3, <1>2, <1>7
      <4> QED
        BY <4>1, <1>2 DEF IpcInv, WakesWithOutcome
    <3>2. sender'[u] = t /\ t # NULL /\ ep'[u] = e
      BY <3>1, <1>2, <1>6, <1>9, SchedulerAssumption
    <3>3. msg'[t].kind = "request" /\ ep'[t] = e /\ ~destroyed'[e]
      BY <1>2
    <3>4. u = current' /\ exiting' = NULL
      BY <3>1, <1>2, <1>7
    <3> QED
      BY <3>2, <3>3, <3>4
  <2> QED
    BY <2>1, <2>2, <2>3 DEF WakesWithOutcome
<1>16. AwaitersReleased'
  <2>1. \A u \in Threads : Blocked(u, "await")' <=> Blocked(u, "await")
    BY <1>2, <1>3, <1>6, <1>7 DEF Blocked
  <2> QED
    BY <1>2, <1>11, <2>1, AwaitersFrame
<1> QED
  BY <1>10, <1>12, <1>13, <1>14, <1>15, <1>16 DEF IpcInv

-----------------------------------------------------------------------------
(* A reply that fails may already have overwritten the message, but its    *)
(* sender is not on a queue any more and no receiver is about to read it.  *)
LEMMA ReplyFailsStep ==
    ASSUME IpcInv, NEW t \in Threads, NEW size \in Sizes, ReplyFails(t, size)
    PROVE  IpcInv'
<1>1. /\ current = t /\ exiting = NULL /\ pc[t] = "user" /\ sender[t] # NULL
      /\ msg' = [msg EXCEPT ![sender[t]] = [kind |-> "reply", size |-> size]]
      /\ pc' = [pc EXCEPT ![t] = "trapret"] /\ exiting' = exiting
      /\ current' = current /\ tstate' = tstate /\ ready' = ready /\ credits' = credits
      /\ sendq' = sendq /\ recvq' = recvq /\ destroyed' = destroyed
      /\ ep' = ep /\ room' = room /\ errno' = errno
      /\ sender' = sender /\ awaiter' = awaiter
  BY DEF ReplyFails, At, Goto, schedVars, queueVars
<1>2. TypeOK
  BY DEF IpcInv
<1>3. tstate[t] = "RUNNING"
  BY <1>1, CurrentFacts DEF At
<1>4. PICK s \in Threads : s = sender[t]
  BY <1>1, <1>2 DEF TypeOK
<1>5. /\ Blocked(s, "send") /\ s # t
      /\ \A e \in Endpoints : ~Queued(s, sendq[e])
      /\ \A r \in Threads : sender[r] = s => r = t
  BY <1>1, <1>3, <1>4 DEF IpcInv, ServicedSendersWait, Blocked
<1>6. /\ pc'[t] = "trapret" /\ \A u \in Threads \ {t} : pc'[u] = pc[u]
      /\ \A u \in Threads \ {s} : msg'[u] = msg[u]
  BY <1>1, <1>2, <1>4 DEF TypeOK
<1>7. TypeOK'
  <2>1. [kind |-> "reply", size |-> size] \in Messages
    BY IpcAssumption DEF Messages
  <2>2. msg' \in [Threads -> Messages] /\ pc' \in [Threads -> PCs]
    BY <1>1, <1>2, <2>1 DEF TypeOK, PCs
  <2> QED
    BY <1>1, <1>2, <1>6, <2>2 DEF TypeOK, SchedTypeOK
<1>8. \A u \in Threads :
        pc'[u] = pc[u] \/ (tstate[u] = "RUNNING" /\ pc[u] # "none" /\ pc'[u] # "none")
  BY <1>1, <1>3, <1>6
<1>9. /\ ListsConsistent' /\ ServicedSendersWait'
      /\ NoMissedRendezvous' /\ AwaitersReleased'
  BY <1>1, <1>8, ListsFrame
<1>10. WakesWithOutcome'
  <2>1. WakesWithOutcome
    BY DEF IpcInv
  <2>2. ASSUME NEW u \in Threads, NEW e \in Endpoints, Queued(u, sendq[e])'
        PROVE  msg'[u].kind = "request" /\ errno'[u] = "OK"
    <3>1. Queued(u, sendq[e])
      BY <1>1, <2>2 DEF Queued
    <3>2. u # s
      BY <1>5, <3>1
    <3>3. msg[u].kind = "request" /\ errno[u] = "OK"
      BY <2>1, <3>1 DEF WakesWithOutcome
    <3> QED
      BY <1>1, <1>6, <3>3, <3>2
  <2>3. ASSUME NEW u \in Threads, pc'[u] = "send", tstate'[u] # "BLOCKED"
        PROVE  \/ errno'[u] # "OK"
               \/ msg'[u].kind = "reply" /\ msg'[u].size <= room'[u]
    <3>1. u # t /\ u # s
      BY <1>1, <1>5, <1>6, <2>3 DEF Blocked
    <3>2. pc[u] = "send" /\ msg'[u] = msg[u]
      BY <1>6, <2>3, <3>1
    <3> QED
      BY <1>1, <2>1, <2>3, <3>2 DEF WakesWithOutcome
  <2>4. ASSUME NEW u \in Threads, pc'[u] = "receive", tstate'[u] # "BLOCKED"
        PROVE  errno'[u] # "OK"
    <3>1. u # t /\ pc[u] = "receive"
      BY <1>6, <2>4
    <3> QED
      BY <1>1, <2>1, <2>4, <3>1 DEF WakesWithOutcome
  <2> QED
    BY <2>2, <2>3, <2>4 DEF WakesWithOutcome
<1> QED
  BY <1>7, <1>9, <1>10 DEF IpcInv

(* A reply: the sender the current thread services gets its outcome and    *)
(* the CPU.                                                                *)
LEMMA ReplyStep ==
    ASSUME IpcInv, NEW t \in Threads, At(t, "user"),
           NEW s \in Threads, s = sender[t],
           sender' = [sender EXCEPT ![t] = NULL],
           SwitchTo(s), Goto(t, "trapret"),
           UNCHANGED <<queueVars, ep, room, awaiter, exiting>>,
           msg' \in [Threads -> Messages], errno' \in [Threads -> Errnos],
           \A u \in Threads \ {s} : msg'[u] = msg[u] /\ errno'[u] = errno[u],
           \/ errno'[s] # "OK"
           \/ msg'[s].kind = "reply" /\ msg'[s].size <= room[s]
    PROVE  IpcInv'
<1> USE DEF Goto, queueVars, At
<1>1. /\ SchedOK /\ tstate[t] = "RUNNING" /\ current = t /\ exiting = NULL
      /\ pc[t] = "user" /\ t # s /\ current # NULL
  BY CurrentFacts
<1>2. /\ Blocked(s, "send")
      /\ \A e \in Endpoints : ~Queued(s, sendq[e])
      /\ \A r \in Threads : sender[r] = s => r = t
  BY SchedulerAssumption DEF IpcInv, ServicedSendersWait
<1>3. /\ SchedOK'
      /\ current' = s
      /\ tstate'[t] = "READY" /\ tstate'[s] = "RUNNING"
      /\ \A u \in Threads \ {t, s} : tstate'[u] = tstate[u]
  BY <1>1, <1>2, SwitchToFacts DEF Blocked
<1>4. /\ pc'[t] = "trapret" /\ \A u \in Threads \ {t} : pc'[u] = pc[u]
      /\ sender'[t] = NULL /\ \A u \in Threads \ {t} : sender'[u] = sender[u]
  BY DEF IpcInv, TypeOK
<1>5. TypeOK'
  BY <1>1, <1>3 DEF IpcInv, TypeOK, SchedOK, PCs
<1>6. \A u \in Threads : Alive(u)' <=> Alive(u)
  BY <1>1, <1>2, <1>3 DEF Alive, Blocked
<1>7. ListsConsistent'
  <2>1. \A e \in Endpoints : \A u \in Range(sendq[e]) \cup Range(recvq[e]) :
          u \in Threads => u # s /\ u # t
    BY <1>1, <1>2 DEF IpcInv, ListsConsistent, Queued, Blocked
  <2> QED
    BY <1>1, <1>2, <1>3, <1>4, <1>6, <2>1
       DEF IpcInv, ListsConsistent, SchedOK, Queued, Blocked
<1>8. ServicedSendersWait'
  <2>1. \A r \in Threads : sender[r] \in Threads \cup {NULL} /\ sender[r] # t
    <3>1. \A r \in Threads : sender[r] # t
      BY <1>1, CurrentFacts
    <3> QED
      BY <3>1 DEF IpcInv, TypeOK
  <2>2. \A r \in Threads : sender'[r] # NULL =>
          /\ r # t /\ sender'[r] = sender[r]
          /\ sender[r] \in Threads \ {t, s}
    BY <1>2, <1>4, <2>1
  <2> QED
    BY <1>3, <1>4, <1>6, <2>2 DEF IpcInv, ServicedSendersWait, Queued, Blocked
<1>9. NoMissedRendezvous'
  BY DEF IpcInv, NoMissedRendezvous
<1>10. WakesWithOutcome'
  <2>1. \A u \in Threads, e \in Endpoints : Queued(u, sendq[e])' =>
          msg'[u].kind = "request" /\ errno'[u] = "OK"
    BY <1>2 DEF IpcInv, WakesWithOutcome, Queued
  <2>2. ASSUME NEW u \in Threads, pc'[u] = "send", tstate'[u] # "BLOCKED"
        PROVE  \/ errno'[u] # "OK"
               \/ msg'[u].kind = "reply" /\ msg'[u].size <= room'[u]
    <3>1. CASE u = s
      BY <3>1
    <3>2. CASE u # s
      BY <2>2, <3>2, <1>1, <1>3, <1>4 DEF IpcInv, WakesWithOutcome
    <3> QED
      BY <3>1, <3>2
  <2>3. \A u \in Threads : pc'[u] = "receive" /\ tstate'[u] # "BLOCKED" =>
          errno'[u] # "OK"
    BY <1>1, <1>2, <1>3, <1>4 DEF IpcInv, WakesWithOutcome, Blocked
  <2> QED
    BY <2>1, <2>2, <2>3 DEF WakesWithOutcome
<1>11. AwaitersReleased'
  <2>1. \A u \in Threads : Blocked(u, "await")' <=> Blocked(u, "await")
    BY <1>1, <1>2, <1>3, <1>4 DEF Blocked
  <2> QED
    BY <1>6, <2>1, AwaitersFrame
<1> QED
  BY <1>5, <1>7, <1>8, <1>9, <1>10, <1>11 DEF IpcInv

(* REPLY                                                                   *)
LEMMA ReplyToMessageStep ==
    ASSUME IpcInv, NEW t \in Threads, NEW size \in Sizes, ReplyToMessage(t, size)
    PROVE  IpcInv'
<1> DEFINE s == sender[t]
           reply == [kind |-> "reply", size |-> size]
<1>1. s \in Threads /\ reply \in Messages
  BY IpcAssumption DEF IpcInv, TypeOK, ReplyToMessage, Messages
<1>2. /\ msg' \in [Threads -> Messages] /\ errno' = errno
      /\ \A u \in Threads \ {s} : msg'[u] = msg[u]
      /\ msg'[s] = reply
  BY <1>1 DEF IpcInv, TypeOK, ReplyToMessage
<1>3. msg'[s].kind = "reply" /\ msg'[s].size <= room[s]
  <2>1. size <= room[s]
    BY DEF ReplyToMessage
  <2>2. reply.kind = "reply" /\ reply.size = size
    OBVIOUS
  <2> HIDE DEF s, reply
  <2> QED
    BY <1>2, <2>1, <2>2
<1> QED
  BY <1>1, <1>2, <1>3, ReplyStep DEF IpcInv, TypeOK, ReplyToMessage

(* REPLY_ERROR                                                             *)
LEMMA ReplyErrorToMessageStep ==
    ASSUME IpcInv, NEW t \in Threads, ReplyErrorToMessage(t)
    PROVE  IpcInv'
<1> DEFINE s == sender[t]
<1>1. s \in Threads
  BY DEF IpcInv, TypeOK, ReplyErrorToMessage
<1>2. /\ errno' \in [Threads -> Errnos] /\ msg' = msg
      /\ \A u \in Threads \ {s} : errno'[u] = errno[u]
      /\ errno'[s] = "EPROTO"
  BY <1>1 DEF IpcInv, TypeOK, ReplyErrorToMessage, Errnos
<1> QED
  BY <1>1, <1>2, ReplyStep DEF IpcInv, TypeOK, ReplyErrorToMessage

-----------------------------------------------------------------------------
(* destroy_op readies everybody who waits on the endpoint, with an error.  *)
(* It runs when no thread is in the middle of a RECEIVE that succeeds.     *)
LEMMA DestroyOpStep ==
    ASSUME IpcInv, NEW e \in Endpoints, DestroyOp(e),
           NEW t \in Threads, current = t,
           pc[t] = "receive" => errno[t] # "OK",
           pc' \in [Threads -> PCs], \A u \in Threads \ {t} : pc'[u] = pc[u],
           \/ pc'[t] = pc[t]
           \/ pc[t] \in {"user", "close"} /\ pc'[t] = "close"
    PROVE  IpcInv'
<1>0. PICK aborted : aborted = sendq[e] \o recvq[e]
  OBVIOUS
<1>1. /\ errno' = [u \in Threads |->
                     IF u \in Range(aborted) THEN "EIO" ELSE errno[u]]
      /\ ReadyThreads(aborted)
      /\ sendq' = [sendq EXCEPT ![e] = <<>>]
      /\ recvq' = [recvq EXCEPT ![e] = <<>>]
      /\ destroyed' = [destroyed EXCEPT ![e] = TRUE]
      /\ ep' = ep /\ msg' = msg /\ room' = room /\ sender' = sender
      /\ awaiter' = awaiter /\ exiting' = exiting
  BY <1>0 DEF DestroyOp
<1>2. /\ SchedOK /\ current # NULL /\ tstate[t] = "RUNNING"
      /\ \A d \in Endpoints : t \notin Range(sendq[d]) /\ t \notin Range(recvq[d])
  BY CurrentFacts
<1>3. /\ sendq \in [Endpoints -> Seq(Threads)] /\ recvq \in [Endpoints -> Seq(Threads)]
      /\ destroyed \in [Endpoints -> BOOLEAN] /\ errno \in [Threads -> Errnos]
      /\ \A d \in Endpoints : IsInjective(sendq[d]) /\ IsInjective(recvq[d])
  BY DEF IpcInv, TypeOK, ListsConsistent
<1>4. \A u \in Range(sendq[e]) : u \in Threads /\ Blocked(u, "send") /\ ep[u] = e
  <2>1. Range(sendq[e]) \subseteq Threads
    BY <1>3 DEF Range
  <2> QED
    BY <2>1 DEF IpcInv, ListsConsistent, Queued
<1>5. \A u \in Range(recvq[e]) : u \in Threads /\ Blocked(u, "receive") /\ ep[u] = e
  <2>1. Range(recvq[e]) \subseteq Threads
    BY <1>3 DEF Range
  <2> QED
    BY <2>1 DEF IpcInv, ListsConsistent, Queued
<1>6. /\ aborted \in Seq(Threads) /\ IsInjective(aborted)
      /\ Range(aborted) = Range(sendq[e]) \cup Range(recvq[e])
  <2>1. Range(sendq[e]) \cap Range(recvq[e]) = {}
    BY <1>4, <1>5 DEF Blocked
  <2> QED
    <3>1. /\ sendq[e] \in Seq(Threads) /\ IsInjective(sendq[e])
          /\ recvq[e] \in Seq(Threads) /\ IsInjective(recvq[e])
      BY <1>3
    <3> QED
      BY <2>1, <3>1, <1>0, ConcatFacts
<1>7. \A u \in Range(aborted) : tstate[u] = "BLOCKED"
  BY <1>4, <1>5, <1>6 DEF Blocked
<1>8. /\ SchedOK' /\ current' = current
      /\ \A u \in Threads :
           tstate'[u] = IF u \in Range(aborted) THEN "READY" ELSE tstate[u]
  BY <1>1, <1>2, <1>6, <1>7, ReadyThreadsFacts
<1>9. /\ sendq' \in [Endpoints -> Seq(Threads)] /\ recvq' \in [Endpoints -> Seq(Threads)]
      /\ destroyed' \in [Endpoints -> BOOLEAN] /\ errno' \in [Threads -> Errnos]
      /\ sendq'[e] = <<>> /\ recvq'[e] = <<>> /\ destroyed'[e] = TRUE
      /\ \A d \in Endpoints \ {e} : /\ sendq'[d] = sendq[d] /\ recvq'[d] = recvq[d]
                                    /\ destroyed'[d] = destroyed[d]
  BY <1>1, <1>3 DEF Errnos
<1>10. \A u \in Threads \ Range(aborted) : tstate'[u] = tstate[u] /\ errno'[u] = errno[u]
  BY <1>1, <1>8
<1>11. \A u \in Range(aborted) :
         /\ u \in Threads /\ tstate'[u] = "READY" /\ errno'[u] = "EIO"
         /\ u # t /\ pc[u] \in {"send", "receive"} /\ ep[u] = e
  BY <1>1, <1>2, <1>4, <1>5, <1>6, <1>8 DEF Blocked
<1>12. TypeOK'
  BY <1>1, <1>8, <1>9 DEF IpcInv, TypeOK, SchedOK
<1>13. \A u \in Threads : Alive(u)' <=> Alive(u)
  BY <1>7, <1>8 DEF Alive
<1>14. \A u \in Threads, d \in Endpoints : Queued(u, sendq[d])' =>
          Queued(u, sendq[d]) /\ d # e
  BY <1>9, SmallQueueFacts DEF Queued
<1>15. ListsConsistent'
  <2>1. ASSUME NEW u \in Threads
        PROVE  /\ Alive(u)' <=> pc'[u] # "none"
               /\ tstate'[u] = "BLOCKED" => pc'[u] \in {"send", "receive", "await"}
    BY <1>2, <1>8, <1>13 DEF IpcInv, ListsConsistent
  <2>2. ASSUME NEW u \in Threads, NEW d \in Endpoints
        PROVE  /\ Queued(u, sendq[d])' => Blocked(u, "send")' /\ ep'[u] = d
               /\ Queued(u, recvq[d])' <=> Blocked(u, "receive")' /\ ep'[u] = d
    <3>1. CASE d = e
      <4>1. ~Queued(u, sendq[d])' /\ ~Queued(u, recvq[d])'
        BY <3>1, <1>9, SmallQueueFacts DEF Queued
      <4>2. ~(Blocked(u, "receive")' /\ ep'[u] = d)
        <5> SUFFICES ASSUME Blocked(u, "receive")', ep'[u] = e PROVE FALSE
          BY <3>1
        <5>1. u \notin Range(aborted) /\ u # t
          BY <1>2, <1>8, <1>11 DEF Blocked
        <5>2. Blocked(u, "receive") /\ ep[u] = e
          BY <5>1, <1>1, <1>10 DEF Blocked
        <5> QED
          BY <5>1, <5>2, <1>6 DEF IpcInv, ListsConsistent, Queued
      <4> QED
        BY <4>1, <4>2
    <3>2. CASE d # e /\ u \in Range(aborted)
      <4>1. ~Queued(u, sendq[d]) /\ ~Queued(u, recvq[d])
        <5>1. /\ Queued(u, sendq[d]) => ep[u] = d
              /\ Queued(u, recvq[d]) => ep[u] = d
          BY DEF IpcInv, ListsConsistent
        <5> QED
          BY <3>2, <1>11, <5>1
      <4> QED
        BY <3>2, <4>1, <1>9, <1>11 DEF Queued, Blocked
    <3>3. CASE d # e /\ u = t
      BY <3>3, <1>2, <1>8, <1>9, <1>11 DEF Queued, Blocked
    <3>4. CASE d # e /\ u \notin Range(aborted) /\ u # t
      <4>1. /\ Queued(u, sendq[d])' <=> Queued(u, sendq[d])
            /\ Queued(u, recvq[d])' <=> Queued(u, recvq[d])
        BY <3>4, <1>9 DEF Queued
      <4>2. /\ ep'[u] = ep[u]
            /\ Blocked(u, "send")' <=> Blocked(u, "send")
            /\ Blocked(u, "receive")' <=> Blocked(u, "receive")
        BY <3>4, <1>1, <1>10 DEF Blocked
      <4> QED
        BY <4>1, <4>2 DEF IpcInv, ListsConsistent
    <3> QED
      BY <3>1, <3>2, <3>3, <3>4
  <2>3. \A d \in Endpoints : IsInjective(sendq'[d]) /\ IsInjective(recvq'[d])
    BY <1>3, <1>9, SmallQueueFacts
  <2> QED
    BY <1>8, <2>1, <2>2, <2>3 DEF ListsConsistent, SchedOK
<1>16. ServicedSendersWait'
  <2>1. ASSUME NEW q \in Threads, sender'[q] # NULL
        PROVE  /\ Alive(q)'
               /\ Blocked(sender[q], "send")'
               /\ errno'[sender'[q]] = "OK"
               /\ \A d \in Endpoints : ~Queued(sender[q], sendq[d])'
    <3>1. /\ Alive(q) /\ Blocked(sender[q], "send") /\ errno[sender[q]] = "OK"
          /\ \A d \in Endpoints : ~Queued(sender[q], sendq[d])
          /\ sender'[q] = sender[q] /\ sender[q] \in Threads
      BY <2>1, <1>1 DEF IpcInv, ServicedSendersWait, TypeOK
    <3>2. sender[q] \notin Range(aborted)
      BY <3>1, <1>5, <1>6 DEF Blocked, Queued
    <3>3. sender[q] # t
      BY <3>1, <1>2 DEF Blocked
    <3> QED
      BY <3>1, <3>2, <3>3, <1>10, <1>13, <1>14 DEF Blocked, Queued
  <2> QED
    BY <2>1, <1>1 DEF IpcInv, ServicedSendersWait
<1>17. NoMissedRendezvous'
  BY <1>9 DEF IpcInv, NoMissedRendezvous
<1>18. WakesWithOutcome'
  <2>1. ASSUME NEW u \in Threads, NEW d \in Endpoints, Queued(u, sendq[d])'
        PROVE  msg'[u].kind = "request" /\ errno'[u] = "OK"
    <3>1. Queued(u, sendq[d]) /\ d # e
      BY <2>1, <1>14
    <3>2. ep[u] = d
      BY <3>1 DEF IpcInv, ListsConsistent
    <3>3. u \notin Range(aborted)
      BY <3>1, <3>2, <1>11
    <3> QED
      BY <3>1, <3>3, <1>1, <1>10 DEF IpcInv, WakesWithOutcome
  <2>2. ASSUME NEW u \in Threads, pc'[u] = "send", tstate'[u] # "BLOCKED",
               errno'[u] = "OK"
        PROVE  msg'[u].kind = "reply" /\ msg'[u].size <= room'[u]
    <3>1. u \notin Range(aborted)
      BY <2>2, <1>11
    <3>2. pc[u] = "send"
      BY <2>2
    <3>3. tstate[u] # "BLOCKED" /\ errno[u] = "OK"
      BY <2>2, <3>1, <1>10
    <3> QED
      BY <3>2, <3>3, <1>1 DEF IpcInv, WakesWithOutcome
  <2>3. ASSUME NEW u \in Threads, pc'[u] = "receive", tstate'[u] # "BLOCKED"
        PROVE  errno'[u] # "OK"
    <3>1. CASE u \in Range(aborted)
      BY <3>1, <1>11
    <3>2. CASE u \notin Range(aborted)
      <4>1. tstate[u] # "BLOCKED" /\ pc[u] = "receive" /\ errno'[u] = errno[u]
        BY <2>3, <3>2, <1>10
      <4> QED
        BY <4>1 DEF IpcInv, WakesWithOutcome
    <3> QED
      BY <3>1, <3>2
  <2> QED
    BY <2>1, <2>2, <2>3 DEF WakesWithOutcome
<1>19. AwaitersReleased'
  <2>1. \A u \in Threads : Blocked(u, "await")' <=> Blocked(u, "await")
    BY <1>2, <1>8, <1>11 DEF Blocked
  <2> QED
    BY <1>1, <1>13, <2>1, AwaitersFrame
<1> QED
  BY <1>12, <1>15, <1>16, <1>17, <1>18, <1>19 DEF IpcInv

(* DESTROY and CLOSE, and the exit of the last thread of a process.        *)
LEMMA DestroyActions ==
    ASSUME IpcInv, NEW e \in Endpoints,
           \/ \E t \in Threads : DestroyEndpoint(t, e)
           \/ ExitDestroys(e)
    PROVE  IpcInv'
<1>1. ASSUME NEW t \in Threads, DestroyEndpoint(t, e) PROVE IpcInv'
  <2>1. DestroyOp(e) /\ current = t /\ pc[t] \in {"user", "close"}
    BY <1>1 DEF DestroyEndpoint, At
  <2>2. /\ pc' \in [Threads -> PCs] /\ pc'[t] = "close"
        /\ \A u \in Threads \ {t} : pc'[u] = pc[u]
    BY <1>1 DEF DestroyEndpoint, Goto, IpcInv, TypeOK, PCs
  <2> QED
    BY <2>1, <2>2, DestroyOpStep
<1>2. ASSUME ExitDestroys(e) PROVE IpcInv'
  <2>1. PICK t \in Threads : current = t
    BY <1>2 DEF ExitDestroys, IpcInv, TypeOK, SchedTypeOK
  <2>2. tstate[t] = "RUNNING"
    BY <2>1, CurrentFacts
  <2>3. pc[t] = "receive" => errno[t] # "OK"
    BY <1>2, <2>2 DEF ExitDestroys, IpcInv, WakesWithOutcome
  <2>4. DestroyOp(e) /\ pc' = pc /\ pc' \in [Threads -> PCs]
    BY <1>2 DEF ExitDestroys, IpcInv, TypeOK
  <2> QED
    BY <2>1, <2>3, <2>4, DestroyOpStep
<1> QED
  BY <1>1, <1>2

-----------------------------------------------------------------------------
(* The threads that a thread readies when it exits.                        *)
LEMMA PointedFacts ==
    ASSUME NEW p \in Threads \cup {NULL}
    PROVE  /\ Pointed(p) \in Seq(Threads)
           /\ IsInjective(Pointed(p))
           /\ Range(Pointed(p)) = {p} \ {NULL}
<1>1. CASE p = NULL
  BY <1>1, SmallQueueFacts DEF Pointed
<1>2. CASE p # NULL
  BY <1>2, SmallQueueFacts DEF Pointed
<1> QED
  BY <1>1, <1>2

(* The exit of a thread: its awaiter and the sender it services, if any,   *)
(* are ready, and nothing refers to it.                                    *)
LEMMA ThreadTerminateStep ==
    ASSUME IpcInv, NEW t \in Threads, ThreadTerminateCurrent(t)
    PROVE  IpcInv'
<1>0. PICK woken : woken = Pointed(awaiter[t]) \o Pointed(sender[t])
  OBVIOUS
<1>1. /\ At(t, "user")
      /\ errno' = [u \in Threads |-> IF u = sender[t] THEN "EIO" ELSE errno[u]]
      /\ sender' = [sender EXCEPT ![t] = NULL]
      /\ SwitchAway("ZOMBIE", woken)
      /\ exiting' = IF current' = NULL THEN NULL ELSE t
      /\ pc' = [pc EXCEPT ![t] = "none"]
      /\ sendq' = sendq /\ recvq' = recvq /\ destroyed' = destroyed
      /\ ep' = ep /\ msg' = msg /\ room' = room /\ awaiter' = awaiter
  BY <1>0 DEF ThreadTerminateCurrent, Goto, queueVars
<1>2. /\ SchedOK /\ current # NULL /\ tstate[t] = "RUNNING" /\ Alive(t)
      /\ current = t /\ exiting = NULL /\ pc[t] = "user"
      /\ \A u \in Threads : Alive(u) => awaiter[u] # t
      /\ \A d \in Endpoints : t \notin Range(sendq[d]) /\ t \notin Range(recvq[d])
      /\ \A r \in Threads : sender[r] # t
  BY <1>1, CurrentFacts DEF At, Alive
<1>3. /\ pc \in [Threads -> PCs] /\ errno \in [Threads -> Errnos]
      /\ sender \in [Threads -> Threads \cup {NULL}]
      /\ awaiter \in [Threads -> Threads \cup {NULL}]
  BY DEF IpcInv, TypeOK
<1>4. awaiter[t] # NULL => awaiter[t] \in Threads /\ Blocked(awaiter[t], "await")
  BY <1>2, <1>3 DEF IpcInv, AwaitersReleased
<1>5. sender[t] # NULL => /\ sender[t] \in Threads /\ Blocked(sender[t], "send")
                          /\ \A e \in Endpoints : ~Queued(sender[t], sendq[e])
  BY <1>3 DEF IpcInv, ServicedSendersWait
<1>6. /\ woken \in Seq(Threads) /\ IsInjective(woken)
      /\ Range(woken) = {awaiter[t], sender[t]} \ {NULL}
  <2>1. ({awaiter[t]} \ {NULL}) \cap ({sender[t]} \ {NULL}) = {}
    BY <1>4, <1>5 DEF Blocked
  <2> QED
    BY <2>1, <1>0, <1>3, PointedFacts, ConcatFacts
<1>7. /\ SchedOK' /\ tstate'[t] = "ZOMBIE"
      /\ \A u \in Range(woken) : tstate'[u] \in Runnable
      /\ \A u \in Threads \ (Range(woken) \cup {t}) :
           \/ tstate'[u] = tstate[u]
           \/ tstate[u] = "READY" /\ tstate'[u] = "RUNNING"
      /\ current' # NULL => tstate[current'] = "READY" \/ current' \in Range(woken)
  <2>1. \A u \in Range(woken) : tstate[u] = "BLOCKED"
    BY <1>4, <1>5, <1>6 DEF Blocked
  <2> QED
    BY <2>1, <1>1, <1>2, <1>6, SwitchAwayFacts
<1>8. /\ pc' \in [Threads -> PCs] /\ errno' \in [Threads -> Errnos]
      /\ sender' \in [Threads -> Threads \cup {NULL}]
      /\ pc'[t] = "none" /\ \A u \in Threads \ {t} : pc'[u] = pc[u]
      /\ sender'[t] = NULL /\ \A u \in Threads \ {t} : sender'[u] = sender[u]
      /\ \A u \in Threads : u # sender[t] => errno'[u] = errno[u]
      /\ sender[t] # NULL => errno'[sender[t]] = "EIO"
  BY <1>1, <1>3 DEF PCs, Errnos
<1>9. TypeOK'
  <2>1. TypeOK
    BY DEF IpcInv
  <2>2. SchedTypeOK'
    BY <1>7 DEF SchedOK
  <2>3. \A u \in Threads : pc'[u] \in {"send", "receive"} => ep'[u] \in Endpoints
    BY <1>1, <1>8, <2>1 DEF TypeOK
  <2>4. exiting' \in Threads \cup {NULL} /\ (exiting' # NULL => current' # NULL)
    BY <1>1
  <2> QED
    BY <1>1, <1>8, <2>1, <2>2, <2>3, <2>4 DEF TypeOK
<1>10. /\ \A u \in Threads \ {t} : Alive(u)' <=> Alive(u)
       /\ ~Alive(t)'
  BY <1>4, <1>5, <1>6, <1>7 DEF Alive, Blocked, Runnable
<1>11. \A u \in Threads :
         tstate'[u] = "BLOCKED" <=> tstate[u] = "BLOCKED" /\ u \notin Range(woken)
  <2> SUFFICES ASSUME NEW u \in Threads
               PROVE  tstate'[u] = "BLOCKED" <=>
                        tstate[u] = "BLOCKED" /\ u \notin Range(woken)
    OBVIOUS
  <2>1. CASE u = t
    BY <1>2, <1>7, <2>1
  <2>2. CASE u \in Range(woken)
    <3>1. tstate'[u] \in Runnable
      BY <1>7, <2>2
    <3> QED
      BY <2>2, <3>1 DEF Runnable
  <2>3. CASE u # t /\ u \notin Range(woken)
    <3>1. \/ tstate'[u] = tstate[u]
          \/ tstate[u] = "READY" /\ tstate'[u] = "RUNNING"
      BY <1>7, <2>3
    <3> QED
      BY <2>3, <3>1
  <2> QED
    BY <2>1, <2>2, <2>3
<1>12. ListsConsistent'
  <2>1. ASSUME NEW u \in Threads
        PROVE  /\ Alive(u)' <=> pc'[u] # "none"
               /\ tstate'[u] = "BLOCKED" => pc'[u] \in {"send", "receive", "await"}
    BY <1>2, <1>8, <1>10, <1>11, ZenonT(40) DEF IpcInv, ListsConsistent
  <2>2. ASSUME NEW u \in Threads, NEW d \in Endpoints
        PROVE  /\ Queued(u, sendq[d])' => Blocked(u, "send")' /\ ep'[u] = d
               /\ Queued(u, recvq[d])' <=> Blocked(u, "receive")' /\ ep'[u] = d
    <3>1. CASE u = t
      BY <3>1, <1>1, <1>2, <1>7 DEF Queued, Blocked
    <3>2. CASE u \in Range(woken)
      <4>1. ~Queued(u, sendq[d]) /\ ~Queued(u, recvq[d])
        <5>1. \/ Blocked(u, "await")
              \/ Blocked(u, "send") /\ ~Queued(u, sendq[d])
          BY <3>2, <1>4, <1>5, <1>6
        <5>2. /\ Queued(u, sendq[d]) => Blocked(u, "send")
              /\ Queued(u, recvq[d]) => Blocked(u, "receive")
          BY DEF IpcInv, ListsConsistent
        <5> QED
          BY <5>1, <5>2 DEF Blocked
      <4> QED
        BY <3>2, <4>1, <1>1, <1>11 DEF Queued, Blocked
    <3>3. CASE u # t /\ u \notin Range(woken)
      <4>1. /\ Queued(u, sendq[d])' <=> Queued(u, sendq[d])
            /\ Queued(u, recvq[d])' <=> Queued(u, recvq[d])
        BY <1>1 DEF Queued
      <4>2. /\ ep'[u] = ep[u]
            /\ Blocked(u, "send")' <=> Blocked(u, "send")
            /\ Blocked(u, "receive")' <=> Blocked(u, "receive")
        BY <3>3, <1>1, <1>8, <1>11 DEF Blocked
      <4> QED
        BY <4>1, <4>2 DEF IpcInv, ListsConsistent
    <3> QED
      BY <3>1, <3>2, <3>3
  <2> QED
    BY <1>1, <1>7, <2>1, <2>2, ZenonT(40) DEF IpcInv, ListsConsistent, SchedOK
<1>13. ServicedSendersWait'
  <2>1. ASSUME NEW q \in Threads, sender'[q] # NULL
        PROVE  /\ q # t /\ sender'[q] = sender[q]
               /\ Alive(q)'
               /\ Blocked(sender[q], "send")'
               /\ errno'[sender'[q]] = "OK"
               /\ \A d \in Endpoints : ~Queued(sender[q], sendq[d])'
    <3>1. /\ q # t /\ sender'[q] = sender[q] /\ sender[q] \in Threads \ {t}
      BY <2>1, <1>2, <1>3, <1>8
    <3>2. /\ Alive(q) /\ Blocked(sender[q], "send") /\ errno[sender[q]] = "OK"
          /\ \A d \in Endpoints : ~Queued(sender[q], sendq[d])
          /\ sender[q] # sender[t]
      BY <2>1, <3>1 DEF IpcInv, ServicedSendersWait
    <3>3. sender[q] \notin Range(woken)
      BY <3>2, <1>4, <1>6 DEF Blocked
    <3> QED
      BY <3>1, <3>2, <3>3, <1>1, <1>8, <1>10, <1>11 DEF Blocked, Queued
  <2> QED
    <3>1. \A q, p \in Threads : sender[q] # NULL /\ sender[q] = sender[p] => q = p
      BY DEF IpcInv, ServicedSendersWait
    <3>2. \A q, p \in Threads : sender'[q] # NULL /\ sender'[q] = sender'[p] => q = p
      BY <2>1, <3>1
    <3> QED
      BY <2>1, <3>2 DEF ServicedSendersWait
<1>14. NoMissedRendezvous'
  BY <1>1 DEF IpcInv, NoMissedRendezvous
<1>15. WakesWithOutcome'
  <2>1. ASSUME NEW u \in Threads, NEW d \in Endpoints, Queued(u, sendq[d])'
        PROVE  msg'[u].kind = "request" /\ errno'[u] = "OK"
    <3>1. Queued(u, sendq[d])
      BY <2>1, <1>1 DEF Queued
    <3>2. u # sender[t]
      BY <3>1, <1>5, SchedulerAssumption
    <3> QED
      BY <3>1, <3>2, <1>1, <1>8 DEF IpcInv, WakesWithOutcome
  <2>2. ASSUME NEW u \in Threads, pc'[u] \in {"send", "receive"},
               tstate'[u] # "BLOCKED", errno'[u] = "OK"
        PROVE  /\ u # t /\ u \notin Range(woken)
               /\ pc[u] = pc'[u] /\ tstate[u] # "BLOCKED" /\ errno[u] = "OK"
    <3>1. u # t /\ pc[u] = pc'[u]
      BY <2>2, <1>8
    <3>2. u # sender[t]
      BY <2>2, <1>8, SchedulerAssumption
    <3>3. u # awaiter[t]
      BY <2>2, <3>1, <1>4, SchedulerAssumption DEF Blocked
    <3>4. u \notin Range(woken)
      BY <3>2, <3>3, <1>6
    <3> QED
      BY <2>2, <3>1, <3>2, <3>4, <1>8, <1>11
  <2>3. ASSUME NEW u \in Threads, pc'[u] = "send", tstate'[u] # "BLOCKED",
               errno'[u] = "OK"
        PROVE  msg'[u].kind = "reply" /\ msg'[u].size <= room'[u]
    <3>1. pc[u] = "send" /\ tstate[u] # "BLOCKED" /\ errno[u] = "OK"
      BY <2>2, <2>3
    <3>2. msg[u].kind = "reply" /\ msg[u].size <= room[u]
      BY <3>1 DEF IpcInv, WakesWithOutcome
    <3> QED
      BY <1>1, <3>2
  <2>4. ASSUME NEW u \in Threads, pc'[u] = "receive", tstate'[u] # "BLOCKED"
        PROVE  errno'[u] # "OK"
    <3> SUFFICES ASSUME errno'[u] = "OK"
                 PROVE  FALSE
      OBVIOUS
    <3>1. u # t /\ pc[u] = "receive" /\ tstate[u] # "BLOCKED" /\ errno[u] = "OK"
      BY <2>2, <2>4
    <3>2. u = current
      BY <3>1 DEF IpcInv, WakesWithOutcome
    <3> QED
      BY <1>2, <3>1, <3>2
  <2> QED
    BY <2>1, <2>3, <2>4 DEF WakesWithOutcome
<1>16. AwaitersReleased'
  <2>1. ASSUME NEW u \in Threads, Alive(u)', awaiter'[u] # NULL
        PROVE  /\ Alive(u) /\ awaiter'[u] = awaiter[u]
               /\ Blocked(awaiter[u], "await")'
    <3>1. u # t /\ Alive(u) /\ awaiter'[u] = awaiter[u] /\ awaiter[u] \in Threads \ {t}
      BY <2>1, <1>1, <1>2, <1>3, <1>10
    <3>2. Blocked(awaiter[u], "await") /\ awaiter[u] # awaiter[t]
      <4>1. /\ \A v \in Threads : Alive(v) /\ awaiter[v] # NULL => Blocked(awaiter[v], "await")
            /\ \A v, w \in Threads :
                 Alive(v) /\ Alive(w) /\ awaiter[v] # NULL /\ awaiter[v] = awaiter[w] => v = w
        BY DEF IpcInv, AwaitersReleased
      <4> QED
        BY <2>1, <3>1, <1>2, <4>1
    <3>3. awaiter[u] \notin Range(woken)
      <4>1. pc[awaiter[u]] = "await"
        BY <3>2 DEF Blocked
      <4>2. sender[t] # NULL => pc[sender[t]] = "send"
        BY <1>5 DEF Blocked
      <4> QED
        BY <3>2, <4>1, <4>2, <1>6
    <3> QED
      BY <3>1, <3>2, <3>3, <1>1, <1>8, <1>11 DEF Blocked
  <2>2. ASSUME NEW u \in Threads, Blocked(u, "await")'
        PROVE  \E w \in Threads : Alive(w)' /\ awaiter'[w] = u
    <3>1. Blocked(u, "await") /\ u \notin Range(woken)
      BY <2>2, <1>8, <1>11 DEF Blocked
    <3>2. PICK w \in Threads : Alive(w) /\ awaiter[w] = u
      BY <3>1 DEF IpcInv, AwaitersReleased
    <3>3. w # t
      BY <3>1, <3>2, <1>6, SchedulerAssumption
    <3> QED
      BY <3>2, <3>3, <1>1, <1>10
  <2> QED
    BY <2>1, <2>2 DEF IpcInv, AwaitersReleased
<1> QED
  BY <1>9, <1>12, <1>13, <1>14, <1>15, <1>16 DEF IpcInv

=============================================================================
