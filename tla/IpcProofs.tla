----------------------------- MODULE IpcProofs ------------------------------
(***************************************************************************)
(* RECEIVE, START_THREAD and AWAIT_THREAD preserve the inductive invariant *)
(* of Ipc, RECEIVE whichever way it goes through its loop: a message       *)
(* taken, a message that does not fit sent back with an error, or the      *)
(* receiver blocked.  So every reachable state satisfies the invariant;    *)
(* and when applications reply before they receive again, no sender is     *)
(* ever out of reach.                                                      *)
(***************************************************************************)
EXTENDS IpcLemmas

-----------------------------------------------------------------------------
(* The list of the threads that two pointers point to.                     *)
LEMMA TwoPointed ==
    ASSUME NEW p \in Threads \cup {NULL}, NEW q \in Threads \cup {NULL}
    PROVE  Range(Pointed(p) \o Pointed(q)) = ({p} \ {NULL}) \cup ({q} \ {NULL})
<1>1. /\ Pointed(p) \in Seq(Threads) /\ Range(Pointed(p)) = {p} \ {NULL}
      /\ Pointed(q) \in Seq(Threads) /\ Range(Pointed(q)) = {q} \ {NULL}
  BY PointedFacts
<1> QED
  BY <1>1, ConcatFacts

(* What both ways through the head of the loop of receive_message start    *)
(* from: t is the receiver, e its endpoint, held the sender it keeps if it *)
(* blocks, and the threads in woken, none or its former sender, were given *)
(* an error.                                                               *)
ReceiveEntry(t, e, held, woken) ==
    /\ current = t /\ exiting = NULL
    /\ pc[t] \in {"user", "receive"}
    /\ ~destroyed[e]
    /\ pc' \in [Threads -> PCs] /\ pc'[t] = "receive"
    /\ ep' \in [Threads -> Endpoints \cup {NULL}] /\ ep'[t] = e
    /\ room' \in [Threads -> Nat]
    /\ errno' \in [Threads -> Errnos] /\ errno'[t] = "OK"
    /\ \A u \in Threads \ {t} :
         pc'[u] = pc[u] /\ ep'[u] = ep[u] /\ room'[u] = room[u]
    /\ woken \in Seq(Threads) /\ IsInjective(woken)
    /\ \A u \in Range(woken) :
         /\ u \in Threads /\ u = sender[t] /\ u # held
         /\ errno'[u] # "OK"
    /\ \A u \in Threads \ (Range(woken) \cup {t}) : errno'[u] = errno[u]
    /\ held \in {sender[t], NULL}
    /\ msg' = msg /\ destroyed' = destroyed /\ awaiter' = awaiter
    /\ exiting' = exiting

(* The woken thread, if any, was the client of t: blocked in send_message, *)
(* on no queue.                                                            *)
LEMMA ReceiveEntryFacts ==
    ASSUME IpcInv, NEW t \in Threads, NEW e \in Endpoints, NEW held, NEW woken,
           ReceiveEntry(t, e, held, woken)
    PROVE  /\ SchedOK /\ current # NULL /\ tstate[t] = "RUNNING" /\ Alive(t)
           /\ t \notin Range(woken)
           /\ \A u \in Range(woken) :
                /\ u \in Threads /\ Blocked(u, "send")
                /\ \A d \in Endpoints : ~Queued(u, sendq[d]) /\ ~Queued(u, recvq[d])
                /\ \A r \in Threads : sender[r] = u => r = t
           /\ \A d \in Endpoints : t \notin Range(sendq[d]) /\ t \notin Range(recvq[d])
           /\ \A r \in Threads : sender[r] # t
<1>1. /\ SchedOK /\ current # NULL /\ tstate[t] = "RUNNING" /\ Alive(t)
      /\ \A d \in Endpoints : t \notin Range(sendq[d]) /\ t \notin Range(recvq[d])
      /\ \A r \in Threads : sender[r] # t
  BY CurrentFacts DEF ReceiveEntry, Alive
<1>2. ASSUME NEW u \in Range(woken)
      PROVE  /\ u \in Threads /\ Blocked(u, "send") /\ u # t
             /\ \A d \in Endpoints : ~Queued(u, sendq[d]) /\ ~Queued(u, recvq[d])
             /\ \A r \in Threads : sender[r] = u => r = t
  <2>1. u \in Threads /\ u = sender[t] /\ sender[t] # NULL
    BY SchedulerAssumption DEF ReceiveEntry
  <2>2. /\ Blocked(u, "send") /\ \A d \in Endpoints : ~Queued(u, sendq[d])
        /\ \A r \in Threads : sender[r] = u => r = t
    BY <2>1 DEF IpcInv, ServicedSendersWait
  <2>3. \A d \in Endpoints : ~Queued(u, recvq[d])
    BY <2>1, <2>2 DEF IpcInv, ListsConsistent, Blocked
  <2> QED
    BY <1>1, <2>1, <2>2, <2>3 DEF Blocked
<1> QED
  BY <1>1, <1>2

(* ListsConsistent, for one thread and one endpoint.                       *)
LEMMA ListsPointwise ==
    ASSUME IpcInv, NEW u \in Threads, NEW d \in Endpoints
    PROVE  /\ Queued(u, sendq[d]) => Blocked(u, "send") /\ ep[u] = d
           /\ Queued(u, recvq[d]) <=> Blocked(u, "receive") /\ ep[u] = d
BY DEF IpcInv, ListsConsistent

(* A message waits on the endpoint: the receiver takes its sender.         *)
LEMMA ReceiveTakes ==
    ASSUME IpcInv, NEW t \in Threads, NEW e \in Endpoints, NEW held, NEW woken,
           ReceiveEntry(t, e, held, woken), ReceiveNext(t, e, held, woken),
           sendq[e] # <<>>
    PROVE  IpcInv'
<1>0. PICK h \in Threads : h = Head(sendq[e])
  BY DequeueFacts DEF IpcInv, TypeOK
<1>1. /\ sendq' = [sendq EXCEPT ![e] = Tail(sendq[e])]
      /\ sender' = [sender EXCEPT ![t] = h]
      /\ ReadyThreads(woken)
      /\ recvq' = recvq
  BY <1>0 DEF ReceiveNext
<1>2. /\ SchedOK /\ current # NULL /\ tstate[t] = "RUNNING" /\ Alive(t)
      /\ t \notin Range(woken)
      /\ \A u \in Range(woken) :
           /\ u \in Threads /\ Blocked(u, "send")
           /\ \A d \in Endpoints : ~Queued(u, sendq[d]) /\ ~Queued(u, recvq[d])
           /\ \A r \in Threads : sender[r] = u => r = t
      /\ \A d \in Endpoints : t \notin Range(sendq[d]) /\ t \notin Range(recvq[d])
      /\ \A r \in Threads : sender[r] # t
  BY ReceiveEntryFacts
<1>3. /\ SchedOK' /\ current' = current
      /\ \A u \in Threads :
           tstate'[u] = IF u \in Range(woken) THEN "READY" ELSE tstate[u]
  BY <1>1, <1>2, ReadyThreadsFacts DEF ReceiveEntry, Blocked
<1>4. /\ sendq \in [Endpoints -> Seq(Threads)]
      /\ \A d \in Endpoints : IsInjective(sendq[d])
      /\ sender \in [Threads -> Threads \cup {NULL}]
  BY DEF IpcInv, TypeOK, ListsConsistent
<1>5. /\ h \in Range(sendq[e])
      /\ Tail(sendq[e]) \in Seq(Threads) /\ IsInjective(Tail(sendq[e]))
      /\ Range(Tail(sendq[e])) = Range(sendq[e]) \ {h}
  BY <1>0, <1>4, DequeueFacts
<1>6. /\ sendq' \in [Endpoints -> Seq(Threads)]
      /\ \A d \in Endpoints : IsInjective(sendq'[d])
      /\ Range(sendq'[e]) = Range(sendq[e]) \ {h}
      /\ \A d \in Endpoints \ {e} : sendq'[d] = sendq[d]
      /\ sender' \in [Threads -> Threads \cup {NULL}]
      /\ sender'[t] = h /\ \A q \in Threads \ {t} : sender'[q] = sender[q]
  BY <1>1, <1>4, <1>5
<1>7. /\ Blocked(h, "send") /\ ep[h] = e /\ h # t /\ h \notin Range(woken)
      /\ msg[h].kind = "request" /\ errno[h] = "OK"
      /\ \A r \in Threads : sender[r] # h
  <2>1. Queued(h, sendq[e])
    BY <1>5 DEF Queued
  <2>2. Blocked(h, "send") /\ ep[h] = e /\ msg[h].kind = "request" /\ errno[h] = "OK"
    BY <2>1 DEF IpcInv, ListsConsistent, WakesWithOutcome
  <2>3. \A r \in Threads : sender[r] # h
    BY <2>1, SchedulerAssumption DEF IpcInv, ServicedSendersWait
  <2> QED
    BY <1>2, <2>1, <2>2, <2>3 DEF Blocked
<1>8. /\ \A u \in Threads : Alive(u)' <=> Alive(u)
      /\ \A u \in Threads :
           tstate'[u] = "BLOCKED" <=> tstate[u] = "BLOCKED" /\ u \notin Range(woken)
  BY <1>2, <1>3 DEF Alive, Blocked
<1> USE DEF ReceiveEntry
<1>9. TypeOK'
  BY <1>1, <1>3, <1>6 DEF IpcInv, TypeOK, SchedOK
<1>10. \A u \in Threads, d \in Endpoints : Queued(u, sendq[d])' =>
          Queued(u, sendq[d]) /\ ~(u = h)
  <2>1. \A d \in Endpoints \ {e} : ~Queued(h, sendq[d])
    BY <1>7 DEF IpcInv, ListsConsistent
  <2> SUFFICES ASSUME NEW u \in Threads, NEW d \in Endpoints, u \in Range(sendq'[d])
               PROVE  u \in Range(sendq[d]) /\ u # h
    BY DEF Queued
  <2>2. CASE d = e
    BY <2>2, <1>6
  <2>3. CASE d # e
    BY <2>1, <2>3, <1>6 DEF Queued
  <2> QED
    BY <2>2, <2>3
<1>11. ListsConsistent'
  <2>1. ASSUME NEW u \in Threads
        PROVE  /\ Alive(u)' <=> pc'[u] # "none"
               /\ tstate'[u] = "BLOCKED" => pc'[u] \in {"send", "receive", "await"}
    <3>1. CASE u = t
      BY <3>1, <1>2, <1>8
    <3>2. CASE u # t
      BY <3>2, <1>8 DEF IpcInv, ListsConsistent
    <3> QED
      BY <3>1, <3>2
  <2>2. ASSUME NEW u \in Threads, NEW d \in Endpoints
        PROVE  /\ Queued(u, sendq[d])' => Blocked(u, "send")' /\ ep'[u] = d
               /\ Queued(u, recvq[d])' <=> Blocked(u, "receive")' /\ ep'[u] = d
    <3>1. CASE u = t
      BY <3>1, <1>1, <1>2, <1>3, <1>10 DEF Queued, Blocked
    <3>2. CASE u \in Range(woken)
      <4>1. ~Queued(u, sendq[d])' /\ ~Queued(u, recvq[d])'
        BY <3>2, <1>1, <1>2, <1>10 DEF Queued
      <4> QED
        BY <3>2, <4>1, <1>8 DEF Blocked
    <3>3. CASE u # t /\ u \notin Range(woken)
      <4>1. /\ Queued(u, sendq[d])' => Queued(u, sendq[d])
            /\ Queued(u, recvq[d])' <=> Queued(u, recvq[d])
        BY <1>1, <1>10 DEF Queued
      <4>2. /\ ep'[u] = ep[u]
            /\ Blocked(u, "send")' <=> Blocked(u, "send")
            /\ Blocked(u, "receive")' <=> Blocked(u, "receive")
        BY <3>3, <1>8 DEF Blocked
      <4>3. /\ Queued(u, sendq[d]) => Blocked(u, "send") /\ ep[u] = d
            /\ Queued(u, recvq[d]) <=> Blocked(u, "receive") /\ ep[u] = d
        BY ListsPointwise
      <4> QED
        BY <4>1, <4>2, <4>3
    <3> QED
      BY <3>1, <3>2, <3>3
  <2> QED
    BY <1>1, <1>3, <1>6, <2>1, <2>2 DEF IpcInv, ListsConsistent, SchedOK
<1>12. ServicedSendersWait'
  <2>1. ASSUME NEW q \in Threads, sender'[q] # NULL
        PROVE  /\ Alive(q)'
               /\ Blocked(sender[q], "send")'
               /\ errno'[sender'[q]] = "OK"
               /\ \A d \in Endpoints : ~Queued(sender[q], sendq[d])'
    <3>1. CASE q = t
      <4>1. sender'[q] = h /\ Alive(q)'
        BY <3>1, <1>2, <1>6, <1>8
      <4>2. pc'[h] = "send" /\ tstate'[h] = "BLOCKED" /\ errno'[h] = "OK"
        BY <1>7, <1>8 DEF Blocked
      <4>3. \A d \in Endpoints : h \notin Range(sendq'[d])
        BY <1>10 DEF Queued
      <4> QED
        BY <4>1, <4>2, <4>3 DEF Blocked, Queued
    <3>2. CASE q # t
      <4>1. /\ Alive(q) /\ Blocked(sender[q], "send") /\ errno[sender[q]] = "OK"
            /\ \A d \in Endpoints : ~Queued(sender[q], sendq[d])
            /\ sender'[q] = sender[q] /\ sender[q] \in Threads \ {t}
        BY <2>1, <3>2, <1>2, <1>6 DEF IpcInv, ServicedSendersWait, TypeOK
      <4>2. sender[q] \notin Range(woken)
        BY <3>2, <1>2
      <4> QED
        BY <4>1, <4>2, <1>8, <1>10 DEF Blocked, Queued
    <3> QED
      BY <3>1, <3>2
  <2>2. ASSUME NEW q \in Threads, NEW p \in Threads,
               sender'[q] # NULL, sender'[q] = sender'[p]
        PROVE  q = p
    <3>1. CASE q = t \/ p = t
      BY <2>2, <3>1, <1>6, <1>7, ZenonT(40)
    <3>2. CASE q # t /\ p # t
      <4>1. sender[q] # NULL /\ sender[q] = sender[p]
        BY <2>2, <3>2, <1>6
      <4>2. \A a, b \in Threads : sender[a] # NULL /\ sender[a] = sender[b] => a = b
        BY DEF IpcInv, ServicedSendersWait
      <4> QED
        BY <4>1, <4>2
    <3> QED
      BY <3>1, <3>2
  <2> QED
    BY <2>1, <2>2 DEF ServicedSendersWait
<1>13. NoMissedRendezvous'
  <2>1. recvq[e] = <<>>
    BY DEF IpcInv, NoMissedRendezvous
  <2> QED
    BY <2>1, <1>1, <1>6 DEF IpcInv, NoMissedRendezvous
<1>14. WakesWithOutcome'
  <2>1. ASSUME NEW u \in Threads, NEW d \in Endpoints, Queued(u, sendq[d])'
        PROVE  msg'[u].kind = "request" /\ errno'[u] = "OK"
    <3>1. Queued(u, sendq[d]) /\ u # t /\ u \notin Range(woken)
      BY <2>1, <1>2, <1>10 DEF Queued
    <3> QED
      BY <3>1 DEF IpcInv, WakesWithOutcome
  <2>2. ASSUME NEW u \in Threads, pc'[u] = "send", tstate'[u] # "BLOCKED",
               errno'[u] = "OK"
        PROVE  msg'[u].kind = "reply" /\ msg'[u].size <= room'[u]
    <3>1. /\ u # t /\ u \notin Range(woken) /\ pc[u] = "send"
          /\ tstate[u] # "BLOCKED" /\ errno[u] = "OK" /\ room'[u] = room[u]
      BY <2>2, <1>8
    <3> QED
      BY <3>1 DEF IpcInv, WakesWithOutcome
  <2>3. ASSUME NEW u \in Threads, pc'[u] = "receive", tstate'[u] # "BLOCKED",
               errno'[u] = "OK"
        PROVE  /\ sender'[u] # NULL
               /\ msg'[sender'[u]].kind = "request"
               /\ ep'[sender'[u]] = ep'[u]
               /\ ~destroyed'[ep'[u]]
               /\ u = current' /\ exiting' = NULL
    <3>1. u = t
      <4> SUFFICES ASSUME u # t PROVE FALSE
        OBVIOUS
      <4>1. u \notin Range(woken)
        BY <2>3
      <4>2. pc[u] = "receive" /\ tstate[u] # "BLOCKED" /\ errno[u] = "OK"
        BY <2>3, <4>1, <1>8
      <4> QED
        BY <4>2 DEF IpcInv, WakesWithOutcome
    <3> QED
      BY <3>1, <1>3, <1>6, <1>7, SchedulerAssumption
  <2> QED
    BY <2>1, <2>2, <2>3 DEF WakesWithOutcome
<1>15. AwaitersReleased'
  <2>1. \A u \in Threads : Blocked(u, "await")' <=> Blocked(u, "await")
    BY <1>2, <1>8 DEF Blocked
  <2> QED
    BY <1>8, <2>1, AwaitersFrame
<1> QED
  BY <1>9, <1>11, <1>12, <1>13, <1>14, <1>15 DEF IpcInv

(* No message waits on the endpoint: the receiver waits on recv_list.      *)
LEMMA ReceiveWaits ==
    ASSUME IpcInv, NEW t \in Threads, NEW e \in Endpoints, NEW held, NEW woken,
           ReceiveEntry(t, e, held, woken), ReceiveNext(t, e, held, woken),
           sendq[e] = <<>>
    PROVE  IpcInv'
<1>1. /\ recvq' = [recvq EXCEPT ![e] = Append(recvq[e], t)]
      /\ sender' = [sender EXCEPT ![t] = held]
      /\ SwitchAway("BLOCKED", woken)
      /\ sendq' = sendq
  BY DEF ReceiveNext
<1>2. /\ SchedOK /\ current # NULL /\ tstate[t] = "RUNNING" /\ Alive(t)
      /\ t \notin Range(woken)
      /\ \A u \in Range(woken) :
           /\ u \in Threads /\ Blocked(u, "send")
           /\ \A d \in Endpoints : ~Queued(u, sendq[d]) /\ ~Queued(u, recvq[d])
           /\ \A r \in Threads : sender[r] = u => r = t
      /\ \A d \in Endpoints : t \notin Range(sendq[d]) /\ t \notin Range(recvq[d])
      /\ \A r \in Threads : sender[r] # t
  BY ReceiveEntryFacts
<1>3. /\ SchedOK' /\ tstate'[t] = "BLOCKED"
      /\ \A u \in Range(woken) : tstate'[u] \in Runnable
      /\ \A u \in Threads \ (Range(woken) \cup {t}) :
           \/ tstate'[u] = tstate[u]
           \/ tstate[u] = "READY" /\ tstate'[u] = "RUNNING"
  BY <1>1, <1>2, SwitchAwayFacts DEF ReceiveEntry, Blocked
<1>4. /\ recvq \in [Endpoints -> Seq(Threads)]
      /\ \A d \in Endpoints : IsInjective(recvq[d])
      /\ sender \in [Threads -> Threads \cup {NULL}]
  BY DEF IpcInv, TypeOK, ListsConsistent
<1>5. /\ Append(recvq[e], t) \in Seq(Threads) /\ IsInjective(Append(recvq[e], t))
      /\ Range(Append(recvq[e], t)) = Range(recvq[e]) \cup {t}
  <2>1. /\ recvq[e] \in Seq(Threads) /\ IsInjective(recvq[e])
        /\ t \notin Range(recvq[e])
    BY <1>2, <1>4
  <2> QED
    BY <2>1, EnqueueFacts
<1>6. /\ recvq' \in [Endpoints -> Seq(Threads)]
      /\ \A d \in Endpoints : IsInjective(recvq'[d])
      /\ Range(recvq'[e]) = Range(recvq[e]) \cup {t}
      /\ \A d \in Endpoints \ {e} : recvq'[d] = recvq[d]
      /\ sender' \in [Threads -> Threads \cup {NULL}]
      /\ sender'[t] = held /\ \A q \in Threads \ {t} : sender'[q] = sender[q]
  BY <1>1, <1>4, <1>5 DEF ReceiveEntry
<1>7. /\ \A u \in Threads : Alive(u)' <=> Alive(u)
      /\ \A u \in Threads \ {t} :
           tstate'[u] = "BLOCKED" <=> tstate[u] = "BLOCKED" /\ u \notin Range(woken)
  BY <1>2, <1>3 DEF Alive, Blocked, Runnable
<1>8. ASSUME NEW d \in Endpoints
       PROVE  /\ Queued(t, recvq[d])' <=> d = e
              /\ \A u \in Threads \ {t} :
                   Queued(u, recvq[d])' <=> Queued(u, recvq[d])
  <2>1. CASE d = e
    BY <2>1, <1>6 DEF Queued
  <2>2. CASE d # e
    BY <2>2, <1>2, <1>6 DEF Queued
  <2> QED
    BY <2>1, <2>2
<1> USE DEF ReceiveEntry
<1>9. TypeOK'
  BY <1>1, <1>3, <1>6, ZenonT(40) DEF IpcInv, TypeOK, SchedOK
<1>10. ListsConsistent'
  <2>1. ASSUME NEW u \in Threads
        PROVE  /\ Alive(u)' <=> pc'[u] # "none"
               /\ tstate'[u] = "BLOCKED" => pc'[u] \in {"send", "receive", "await"}
    <3>1. CASE u = t
      BY <3>1, <1>2, <1>7
    <3>2. CASE u # t
      BY <3>2, <1>7, ZenonT(40) DEF IpcInv, ListsConsistent
    <3> QED
      BY <3>1, <3>2
  <2>2. ASSUME NEW u \in Threads, NEW d \in Endpoints
        PROVE  /\ Queued(u, sendq[d])' => Blocked(u, "send")' /\ ep'[u] = d
               /\ Queued(u, recvq[d])' <=> Blocked(u, "receive")' /\ ep'[u] = d
    <3>1. CASE u = t
      <4>1. ~Queued(u, sendq[d])'
        BY <3>1, <1>1, <1>2 DEF Queued
      <4>2. Queued(u, recvq[d])' <=> d = e
        BY <3>1, <1>8
      <4> QED
        BY <3>1, <4>1, <4>2, <1>3 DEF Blocked
    <3>2. CASE u \in Range(woken)
      <4>1. ~Queued(u, sendq[d])' /\ ~Queued(u, recvq[d])'
        <5>1. u # t /\ ~Queued(u, sendq[d]) /\ ~Queued(u, recvq[d])
          BY <3>2, <1>2
        <5> QED
          BY <5>1, <1>1, <1>8 DEF Queued
      <4> QED
        BY <3>2, <4>1, <1>2, <1>7 DEF Blocked
    <3>3. CASE u # t /\ u \notin Range(woken)
      <4>1. /\ Queued(u, sendq[d])' <=> Queued(u, sendq[d])
            /\ Queued(u, recvq[d])' <=> Queued(u, recvq[d])
        BY <3>3, <1>1, <1>8 DEF Queued
      <4>2. /\ ep'[u] = ep[u]
            /\ Blocked(u, "send")' <=> Blocked(u, "send")
            /\ Blocked(u, "receive")' <=> Blocked(u, "receive")
        BY <3>3, <1>7 DEF Blocked
      <4>3. /\ Queued(u, sendq[d]) => Blocked(u, "send") /\ ep[u] = d
            /\ Queued(u, recvq[d]) <=> Blocked(u, "receive") /\ ep[u] = d
        BY ListsPointwise
      <4> QED
        BY <4>1, <4>2, <4>3
    <3> QED
      BY <3>1, <3>2, <3>3
  <2>3. ReadyQueueConsistent'
    BY <1>3 DEF SchedOK
  <2>4. \A d \in Endpoints : IsInjective(sendq'[d]) /\ IsInjective(recvq'[d])
    BY <1>1, <1>6 DEF IpcInv, ListsConsistent
  <2> HIDE DEF ReceiveEntry
  <2> QED
    BY <2>1, <2>2, <2>3, <2>4 DEF ListsConsistent
<1>11. ServicedSendersWait'
  <2>1. ASSUME NEW q \in Threads, sender'[q] # NULL
        PROVE  /\ sender'[q] = sender[q]
               /\ Alive(q)'
               /\ Blocked(sender[q], "send")'
               /\ errno'[sender'[q]] = "OK"
               /\ \A d \in Endpoints : ~Queued(sender[q], sendq[d])'
    <3>1. sender'[q] = sender[q] /\ sender[q] \in Threads \ {t}
      BY <2>1, <1>2, <1>4, <1>6
    <3>2. /\ Alive(q) /\ Blocked(sender[q], "send") /\ errno[sender[q]] = "OK"
          /\ \A d \in Endpoints : ~Queued(sender[q], sendq[d])
      BY <2>1, <3>1 DEF IpcInv, ServicedSendersWait
    <3>3. sender[q] \notin Range(woken)
      BY <2>1, <3>1, <1>2, <1>6
    <3> QED
      BY <3>1, <3>2, <3>3, <1>1, <1>7 DEF Blocked, Queued
  <2> QED
    BY <2>1 DEF IpcInv, ServicedSendersWait
<1>12. NoMissedRendezvous'
  BY <1>1, <1>6 DEF IpcInv, NoMissedRendezvous
<1>13. WakesWithOutcome'
  <2>1. ASSUME NEW u \in Threads, NEW d \in Endpoints, Queued(u, sendq[d])'
        PROVE  msg'[u].kind = "request" /\ errno'[u] = "OK"
    <3>1. Queued(u, sendq[d]) /\ u # t /\ u \notin Range(woken)
      BY <2>1, <1>1, <1>2 DEF Queued
    <3> QED
      BY <3>1 DEF IpcInv, WakesWithOutcome
  <2>2. ASSUME NEW u \in Threads, pc'[u] = "send", tstate'[u] # "BLOCKED",
               errno'[u] = "OK"
        PROVE  msg'[u].kind = "reply" /\ msg'[u].size <= room'[u]
    <3>1. /\ u # t /\ u \notin Range(woken) /\ pc[u] = "send"
          /\ tstate[u] # "BLOCKED" /\ errno[u] = "OK" /\ room'[u] = room[u]
      BY <2>2, <1>7
    <3> QED
      BY <3>1 DEF IpcInv, WakesWithOutcome
  <2>3. ASSUME NEW u \in Threads, pc'[u] = "receive", tstate'[u] # "BLOCKED"
        PROVE  errno'[u] # "OK"
    <3> SUFFICES ASSUME errno'[u] = "OK" PROVE FALSE
      OBVIOUS
    <3>1. u # t /\ u \notin Range(woken)
      BY <2>3, <1>3
    <3>2. pc[u] = "receive" /\ tstate[u] # "BLOCKED" /\ errno[u] = "OK"
      BY <2>3, <3>1, <1>7
    <3> QED
      BY <3>1, <3>2 DEF IpcInv, WakesWithOutcome
  <2> QED
    BY <2>1, <2>2, <2>3 DEF WakesWithOutcome
<1>14. AwaitersReleased'
  <2>1. \A u \in Threads : Blocked(u, "await")' <=> Blocked(u, "await")
    BY <1>2, <1>7 DEF Blocked
  <2> QED
    BY <1>7, <2>1, AwaitersFrame
<1> QED
  BY <1>9, <1>10, <1>11, <1>12, <1>13, <1>14 DEF IpcInv

(* RECEIVE, up to the first message or the wait for one.                   *)
LEMMA ReceiveMessageStep ==
    ASSUME IpcInv, NEW t \in Threads, NEW e \in Endpoints, NEW cap \in Sizes,
           ReceiveMessage(t, e, cap)
    PROVE  IpcInv'
<1> DEFINE none == <<>>
<1>1. none \in Seq(Threads) /\ IsInjective(none) /\ Range(none) = {}
  BY SmallQueueFacts
<1>2. ReceiveNext(t, e, sender[t], none)
  BY DEF ReceiveMessage
<1> HIDE DEF none
<1>3. /\ current = t /\ exiting = NULL /\ pc[t] = "user" /\ ~destroyed[e]
      /\ msg' = msg /\ destroyed' = destroyed /\ awaiter' = awaiter
      /\ exiting' = exiting
  BY DEF ReceiveMessage, At
<1>4. /\ pc' \in [Threads -> PCs] /\ pc'[t] = "receive"
      /\ ep' \in [Threads -> Endpoints \cup {NULL}] /\ ep'[t] = e
      /\ room' \in [Threads -> Nat]
      /\ errno' \in [Threads -> Errnos] /\ errno'[t] = "OK"
      /\ \A u \in Threads \ {t} : /\ pc'[u] = pc[u] /\ ep'[u] = ep[u]
                                  /\ room'[u] = room[u] /\ errno'[u] = errno[u]
  <2>1. cap \in Nat /\ "OK" \in Errnos /\ "receive" \in PCs
    BY IpcAssumption DEF Errnos, PCs
  <2> QED
    BY <2>1 DEF ReceiveMessage, Goto, IpcInv, TypeOK
<1>5. ReceiveEntry(t, e, sender[t], none)
  <2>1. \A u \in Range(none) :
          /\ u \in Threads /\ u = sender[t] /\ u # sender[t]
          /\ errno'[u] # "OK"
    BY <1>1, Zenon
  <2>2. \A u \in Threads \ (Range(none) \cup {t}) : errno'[u] = errno[u]
    BY <1>4
  <2>3. pc[t] \in {"user", "receive"} /\ sender[t] \in {sender[t], NULL}
    BY <1>3
  <2>4. \A u \in Threads \ {t} : pc'[u] = pc[u] /\ ep'[u] = ep[u] /\ room'[u] = room[u]
    BY <1>4
  <2> QED
    BY <1>1, <1>3, <1>4, <2>1, <2>2, <2>3, <2>4, Zenon DEF ReceiveEntry
<1> QED
  BY <1>2, <1>5, ReceiveTakes, ReceiveWaits

(* E2BIG: the sender fails and the receiver takes the next one or waits.   *)
LEMMA ReceiveTooBigStep ==
    ASSUME IpcInv, NEW t \in Threads, ReceiveTooBig(t)
    PROVE  IpcInv'
<1>1. /\ current = t /\ exiting = NULL /\ pc[t] = "receive" /\ errno[t] = "OK"
      /\ pc' = pc /\ ep' = ep /\ room' = room /\ msg' = msg
      /\ destroyed' = destroyed /\ awaiter' = awaiter /\ exiting' = exiting
      /\ errno' = [errno EXCEPT ![sender[t]] = "E2BIG"]
  BY DEF ReceiveTooBig, At
<1>2. tstate[t] = "RUNNING" /\ \A r \in Threads : sender[r] # t
  BY <1>1, CurrentFacts
<1>3. sender[t] # NULL /\ ~destroyed[ep[t]]
  BY <1>1, <1>2 DEF IpcInv, WakesWithOutcome
<1>4. PICK e \in Endpoints : e = ep[t]
  BY <1>1 DEF IpcInv, TypeOK
<1>5. PICK s \in Threads : s = sender[t]
  BY <1>3 DEF IpcInv, TypeOK
<1> DEFINE woken == <<s>>
<1>6. woken \in Seq(Threads) /\ IsInjective(woken) /\ Range(woken) = {s}
  BY SmallQueueFacts
<1>7. ReceiveNext(t, e, NULL, woken)
  BY <1>4, <1>5 DEF ReceiveTooBig
<1> HIDE DEF woken
<1>8. /\ errno' \in [Threads -> Errnos] /\ errno'[s] = "E2BIG"
      /\ \A u \in Threads \ {s} : errno'[u] = errno[u]
  BY <1>1, <1>5 DEF IpcInv, TypeOK, Errnos
<1>9. /\ pc \in [Threads -> PCs] /\ ep \in [Threads -> Endpoints \cup {NULL}]
      /\ room \in [Threads -> Nat]
  BY DEF IpcInv, TypeOK
<1>10. ReceiveEntry(t, e, NULL, woken)
  BY <1>1, <1>2, <1>3, <1>4, <1>5, <1>6, <1>8, <1>9, SchedulerAssumption
     DEF ReceiveEntry
<1> QED
  BY <1>7, <1>10, ReceiveTakes, ReceiveWaits

(* START_THREAD: a thread that was not alive is ready to run.              *)
LEMMA StartThreadStep ==
    ASSUME IpcInv, NEW t \in Threads, NEW v \in Threads, StartThread(t, v)
    PROVE  IpcInv'
<1> USE DEF StartThread, queueVars, callVars, At
<1>1. /\ SchedOK /\ current # NULL /\ tstate[t] = "RUNNING" /\ t # v
      /\ current = t /\ exiting = NULL /\ pc[t] = "user"
  BY CurrentFacts
<1>2. /\ tstate \in [Threads -> ThreadStates] /\ pc \in [Threads -> PCs]
      /\ credits \in [Threads -> 0..MaxCredits] /\ ready \in Seq(Threads)
      /\ sender \in [Threads -> Threads \cup {NULL}]
      /\ awaiter \in [Threads -> Threads \cup {NULL}]
  BY DEF IpcInv, TypeOK, SchedTypeOK
<1>3. /\ tstate' \in [Threads -> ThreadStates] /\ pc' \in [Threads -> PCs]
      /\ credits' \in [Threads -> 0..MaxCredits]
      /\ sender' \in [Threads -> Threads \cup {NULL}]
      /\ awaiter' \in [Threads -> Threads \cup {NULL}]
  <2>1. 0 \in 0..MaxCredits /\ "READY" \in ThreadStates
    BY SchedulerAssumption DEF ThreadStates
  <2>2. "trapret" \in PCs /\ "user" \in PCs
    BY DEF PCs
  <2> QED
    BY <1>2, <2>1, <2>2
<1>4. /\ tstate'[v] = "READY" /\ \A u \in Threads \ {v} : tstate'[u] = tstate[u]
      /\ sender'[v] = NULL /\ \A u \in Threads \ {v} : sender'[u] = sender[u]
      /\ awaiter'[v] = NULL /\ \A u \in Threads \ {v} : awaiter'[u] = awaiter[u]
      /\ pc'[t] = "trapret" /\ pc'[v] = "user"
      /\ \A u \in Threads \ {t, v} : pc'[u] = pc[u]
  BY <1>1, <1>2
<1>5. /\ v \notin Range(ready) /\ tstate[v] \in {"CREATED", "ZOMBIE"}
  BY <1>1 DEF SchedOK, ReadyQueueConsistent
<1>6. /\ ready' \in Seq(Threads) /\ IsInjective(ready')
      /\ Range(ready') = Range(ready) \cup {v}
  BY <1>1, <1>2, <1>5, EnqueueFacts DEF SchedOK, ReadyQueueConsistent
<1>0. /\ current' = current /\ exiting' = exiting /\ sendq' = sendq
      /\ recvq' = recvq /\ destroyed' = destroyed /\ ep' = ep /\ msg' = msg
      /\ room' = room /\ errno' = errno
  OBVIOUS
<1> HIDE DEF StartThread
<1> USE <1>0
<1>7. TypeOK'
  BY <1>1, <1>3, <1>4, <1>6 DEF IpcInv, TypeOK, SchedTypeOK
<1>8. ReadyQueueConsistent'
  BY <1>1, <1>4, <1>5, <1>6 DEF SchedOK, ReadyQueueConsistent
<1>9. \A u \in Threads \ {v} : Alive(u)' <=> Alive(u)
  BY <1>4 DEF Alive
<1>10. \A u \in Threads, where \in {"send", "receive", "await"} :
          Blocked(u, where)' <=> Blocked(u, where)
  BY <1>1, <1>4, <1>5 DEF Blocked
<1>11. ListsConsistent'
  <2>1. ASSUME NEW u \in Threads
        PROVE  /\ Alive(u)' <=> pc'[u] # "none"
               /\ tstate'[u] = "BLOCKED" => pc'[u] \in {"send", "receive", "await"}
    <3>1. CASE u = t \/ u = v
      BY <3>1, <1>1, <1>4 DEF Alive
    <3>2. CASE u # t /\ u # v
      BY <3>2, <1>4, <1>9 DEF IpcInv, ListsConsistent
    <3> QED
      BY <3>1, <3>2
  <2> QED
    BY <2>1, <1>8, <1>10 DEF IpcInv, ListsConsistent, Queued
<1>12. ServicedSendersWait'
  <2>1. ASSUME NEW q \in Threads, sender'[q] # NULL
        PROVE  /\ sender'[q] = sender[q] /\ q # v /\ sender[q] \in Threads
               /\ Alive(q)' /\ Alive(q)
    BY <2>1, <1>2, <1>4, <1>9 DEF IpcInv, ServicedSendersWait
  <2> QED
    BY <2>1, <1>10 DEF IpcInv, ServicedSendersWait, Queued
<1>13. NoMissedRendezvous'
  BY DEF IpcInv, NoMissedRendezvous
<1>14. WakesWithOutcome'
  <2>1. \A u \in Threads, d \in Endpoints : Queued(u, sendq[d])' =>
          msg'[u].kind = "request" /\ errno'[u] = "OK"
    BY DEF IpcInv, WakesWithOutcome, Queued
  <2>2. ASSUME NEW u \in Threads, pc'[u] \in {"send", "receive"},
               tstate'[u] # "BLOCKED"
        PROVE  pc[u] = pc'[u] /\ tstate[u] # "BLOCKED" /\ u \notin {t, v}
    BY <2>2, <1>4
  <2>3. ASSUME NEW u \in Threads, pc'[u] = "receive", tstate'[u] # "BLOCKED"
        PROVE  errno'[u] # "OK"
    <3>1. pc[u] = "receive" /\ tstate[u] # "BLOCKED" /\ u # current /\ errno' = errno
      BY <2>2, <2>3, <1>1
    <3>2. errno[u] # "OK"
      BY <3>1 DEF IpcInv, WakesWithOutcome
    <3> QED
      BY <3>1, <3>2
  <2>4. ASSUME NEW u \in Threads, pc'[u] = "send", tstate'[u] # "BLOCKED"
        PROVE  \/ errno'[u] # "OK"
               \/ msg'[u].kind = "reply" /\ msg'[u].size <= room'[u]
    BY <2>2, <2>4 DEF IpcInv, WakesWithOutcome
  <2> QED
    BY <2>1, <2>3, <2>4 DEF WakesWithOutcome
<1>15. AwaitersReleased'
  <2>1. ASSUME NEW u \in Threads, Alive(u)', awaiter'[u] # NULL
        PROVE  /\ Alive(u) /\ awaiter'[u] = awaiter[u]
               /\ awaiter[u] \in Threads
               /\ Blocked(awaiter[u], "await")'
    <3>1. /\ Alive(u) /\ awaiter'[u] = awaiter[u] /\ awaiter[u] \in Threads
      BY <2>1, <1>2, <1>4, <1>9
    <3>2. Blocked(awaiter[u], "await")
      BY <2>1, <3>1 DEF IpcInv, AwaitersReleased
    <3>3. awaiter[u] \notin {t, v}
      BY <3>2, <1>1, <1>5 DEF Blocked
    <3> QED
      BY <3>1, <3>2, <3>3, <1>4 DEF Blocked
  <2>2. ASSUME NEW u \in Threads, Blocked(u, "await")'
        PROVE  \E w \in Threads : Alive(w)' /\ awaiter'[w] = u
    <3>1. PICK w \in Threads : Alive(w) /\ awaiter[w] = u
      BY <2>2, <1>10 DEF IpcInv, AwaitersReleased
    <3>2. w # v
      BY <3>1, <1>5 DEF Alive
    <3> QED
      BY <3>1, <3>2, <1>4, <1>9
  <2> QED
    BY <2>1, <2>2 DEF IpcInv, AwaitersReleased
<1> QED
  BY <1>7, <1>11, <1>12, <1>13, <1>14, <1>15 DEF IpcInv

(* AWAIT_THREAD: the current thread becomes the awaiter, and blocks unless *)
(* the other thread has exited already.                                    *)
LEMMA ThreadAwaitStep ==
    ASSUME IpcInv, NEW t \in Threads, NEW v \in Threads, ThreadAwait(t, v)
    PROVE  IpcInv'
<1> USE DEF ThreadAwait, queueVars, callVars, At, Goto
<1>1. /\ SchedOK /\ current # NULL /\ tstate[t] = "RUNNING"
      /\ current = t /\ exiting = NULL /\ pc[t] = "user" /\ t # v
      /\ \A u \in Threads : Alive(u) => awaiter[u] # t
      /\ \A d \in Endpoints : t \notin Range(sendq[d]) /\ t \notin Range(recvq[d])
      /\ \A r \in Threads : sender[r] # t
  BY CurrentFacts
<1>2. /\ tstate \in [Threads -> ThreadStates] /\ pc \in [Threads -> PCs]
      /\ sender \in [Threads -> Threads \cup {NULL}]
      /\ awaiter \in [Threads -> Threads \cup {NULL}]
  BY DEF IpcInv, TypeOK, SchedTypeOK
<1>3. /\ awaiter' \in [Threads -> Threads \cup {NULL}] /\ pc' \in [Threads -> PCs]
      /\ awaiter'[v] = t /\ \A u \in Threads \ {v} : awaiter'[u] = awaiter[u]
      /\ pc'[t] \in {"trapret", "await"}
      /\ \A u \in Threads \ {t} : pc'[u] = pc[u]
  BY <1>2 DEF PCs
<1>4. /\ SchedOK'
      /\ \A u \in Threads \ {t} :
           \/ tstate'[u] = tstate[u]
           \/ tstate[u] = "READY" /\ tstate'[u] = "RUNNING"
      /\ \/ /\ tstate[v] = "ZOMBIE" /\ pc'[t] = "trapret"
            /\ tstate'[t] = "RUNNING" /\ current' = t
         \/ tstate[v] # "ZOMBIE" /\ pc'[t] = "await" /\ tstate'[t] = "BLOCKED"
  <2>1. CASE tstate[v] = "ZOMBIE"
    <3>1. UNCHANGED schedVars /\ pc'[t] = "trapret"
      BY <2>1, <1>2
    <3> QED
      BY <2>1, <3>1, <1>1
         DEF schedVars, SchedOK, SchedTypeOK, ReadyQueueConsistent
  <2>2. CASE tstate[v] # "ZOMBIE"
    <3>1. SwitchAway("BLOCKED", <<>>) /\ pc'[t] = "await"
      BY <2>2, <1>2
    <3> QED
      BY <2>2, <3>1, <1>1, BlockFacts
  <2> QED
    BY <2>1, <2>2
<1>5. TypeOK'
  BY <1>1, <1>3, <1>4 DEF IpcInv, TypeOK, SchedOK
<1>6. \A u \in Threads : Alive(u)' <=> Alive(u)
  BY <1>1, <1>4 DEF Alive
<1>7. \A u \in Threads, where \in {"send", "receive"} :
         Blocked(u, where)' <=> Blocked(u, where)
  BY <1>1, <1>3, <1>4 DEF Blocked
<1>8. ListsConsistent'
  <2>1. ASSUME NEW u \in Threads
        PROVE  /\ Alive(u)' <=> pc'[u] # "none"
               /\ tstate'[u] = "BLOCKED" => pc'[u] \in {"send", "receive", "await"}
    BY <1>1, <1>3, <1>4, <1>6 DEF IpcInv, ListsConsistent
  <2> QED
    BY <2>1, <1>4, <1>7 DEF IpcInv, ListsConsistent, Queued, SchedOK
<1>9. ServicedSendersWait'
  BY <1>2, <1>6, <1>7 DEF IpcInv, ServicedSendersWait, Queued
<1>10. NoMissedRendezvous'
  BY DEF IpcInv, NoMissedRendezvous
<1>11. WakesWithOutcome'
  <2>1. \A u \in Threads, d \in Endpoints : Queued(u, sendq[d])' =>
          msg'[u].kind = "request" /\ errno'[u] = "OK"
    BY DEF IpcInv, WakesWithOutcome, Queued
  <2>2. ASSUME NEW u \in Threads, pc'[u] \in {"send", "receive"},
               tstate'[u] # "BLOCKED"
        PROVE  pc[u] = pc'[u] /\ tstate[u] # "BLOCKED" /\ u # t
    BY <2>2, <1>3, <1>4
  <2>3. ASSUME NEW u \in Threads, pc'[u] = "receive", tstate'[u] # "BLOCKED"
        PROVE  errno'[u] # "OK"
    <3>1. pc[u] = "receive" /\ tstate[u] # "BLOCKED" /\ u # current /\ errno' = errno
      BY <2>2, <2>3, <1>1
    <3>2. errno[u] # "OK"
      BY <3>1 DEF IpcInv, WakesWithOutcome
    <3> QED
      BY <3>1, <3>2
  <2>4. ASSUME NEW u \in Threads, pc'[u] = "send", tstate'[u] # "BLOCKED"
        PROVE  \/ errno'[u] # "OK"
               \/ msg'[u].kind = "reply" /\ msg'[u].size <= room'[u]
    <3>1. WakesWithOutcome
      BY Zenon DEF IpcInv
    <3>2. /\ pc[u] = "send" /\ tstate[u] # "BLOCKED"
          /\ errno'[u] = errno[u] /\ msg'[u] = msg[u] /\ room'[u] = room[u]
      BY <2>2, <2>4
    <3> QED
      BY <3>1, <3>2 DEF WakesWithOutcome
  <2> QED
    BY <2>1, <2>3, <2>4 DEF WakesWithOutcome
<1>12. AwaitersReleased'
  <2>1. \A u \in Threads \ {t} : Blocked(u, "await")' <=> Blocked(u, "await")
    BY <1>3, <1>4 DEF Blocked
  <2>2. ASSUME NEW u \in Threads, Alive(u)', awaiter'[u] # NULL
        PROVE  /\ \/ u = v /\ awaiter'[u] = t
                  \/ u # v /\ awaiter'[u] = awaiter[u] /\ awaiter[u] \in Threads \ {t}
               /\ Alive(u)
               /\ Blocked(awaiter[u], "await")'
    <3>1. CASE u = v
      <4>1. tstate[v] # "ZOMBIE"
        BY <2>2, <3>1, <1>6 DEF Alive
      <4> QED
        BY <2>2, <3>1, <4>1, <1>3, <1>4, <1>6 DEF Blocked
    <3>2. CASE u # v
      <4>1. awaiter'[u] = awaiter[u] /\ Alive(u) /\ awaiter[u] # NULL
        <5>1. awaiter'[u] = awaiter[u] /\ Alive(u)
          BY <3>2, <2>2, <1>3, <1>6, Zenon
        <5> QED
          BY <5>1, <2>2, Zenon
      <4>2. awaiter[u] \in Threads \ {t}
        BY <4>1, <1>1, <1>2
      <4>3. Blocked(awaiter[u], "await")
        BY <4>1 DEF IpcInv, AwaitersReleased
      <4>4. Blocked(awaiter[u], "await")'
        BY <2>1, <4>1, <4>2, <4>3
      <4> QED
        BY <3>2, <4>1, <4>2, <4>4, Zenon
    <3> QED
      BY <3>1, <3>2
  <2>3. ASSUME NEW u \in Threads, Blocked(u, "await")'
        PROVE  \E w \in Threads : Alive(w)' /\ awaiter'[w] = u
    <3>1. CASE u = t
      <4>1. tstate[v] # "ZOMBIE"
        BY <2>3, <3>1, <1>4 DEF Blocked
      <4>2. Alive(v)'
        BY <4>1, <1>6 DEF Alive
      <4> QED
        BY <3>1, <4>2, <1>3
    <3>2. CASE u # t
      <4>1. PICK w \in Threads : Alive(w) /\ awaiter[w] = u
        BY <2>1, <2>3, <3>2 DEF IpcInv, AwaitersReleased
      <4>2. w # v
        BY <4>1, SchedulerAssumption
      <4> QED
        BY <4>1, <4>2, <1>3, <1>6
    <3> QED
      BY <3>1, <3>2
  <2>4. \A u, w \in Threads :
          Alive(u) /\ Alive(w) /\ awaiter[u] # NULL /\ awaiter[u] = awaiter[w]
            => u = w
    BY Zenon DEF IpcInv, AwaitersReleased
  <2>5. ASSUME NEW u \in Threads, NEW w \in Threads, Alive(u)', Alive(w)',
               awaiter'[u] # NULL, awaiter'[u] = awaiter'[w]
        PROVE  u = w
    BY <2>2, <2>4, <2>5
  <2>6. ASSUME NEW u \in Threads, Alive(u)', awaiter'[u] # NULL
        PROVE  Blocked(awaiter[u], "await")'
    BY <2>2, <2>6
  <2> QED
    BY <2>3, <2>5, <2>6 DEF AwaitersReleased
<1> QED
  BY <1>5, <1>8, <1>9, <1>10, <1>11, <1>12 DEF IpcInv

-----------------------------------------------------------------------------
(* Every reachable state of the IPC model satisfies IpcInv, for any number *)
(* of threads and endpoints and any message sizes.                         *)
THEOREM IpcInvariant == Spec => []IpcInv
<1>1. IpcInv /\ [Next]_vars => IpcInv'
  <2> SUFFICES ASSUME IpcInv, [Next]_vars PROVE IpcInv'
    OBVIOUS
  <2>1. ASSUME NEW t \in Threads, KernelStep(t) PROVE IpcInv'
    BY <2>1, QuietActions, EndCallActions, ReceiveTooBigStep DEF KernelStep
  <2>2. ASSUME NEW t \in Threads, UserStep(t) PROVE IpcInv'
    <3>1. CASE OtherTrap(t) \/ Tick(t) \/ Yield(t)
      BY <3>1, QuietActions
    <3>2. CASE \E e \in Endpoints, size, cap \in Sizes : SendMessage(t, e, size, cap)
      BY <3>2, SendWaits, SendDelivers
    <3>3. CASE \E e \in Endpoints, cap \in Sizes : ReceiveMessage(t, e, cap)
      BY <3>3, ReceiveMessageStep
    <3>4. CASE \E size \in Sizes : ReplyFails(t, size)
      BY <3>4, ReplyFailsStep
    <3>5. CASE \E size \in Sizes : ReplyToMessage(t, size)
      BY <3>5, ReplyToMessageStep
    <3>6. CASE ReplyErrorToMessage(t)
      BY <3>6, ReplyErrorToMessageStep
    <3>7. CASE \E e \in Endpoints : DestroyEndpoint(t, e)
      BY <3>7, DestroyActions
    <3>8. CASE \E u \in Threads : StartThread(t, u)
      BY <3>8, StartThreadStep
    <3>9. CASE ThreadTerminateCurrent(t)
      BY <3>9, ThreadTerminateStep
    <3>10. CASE \E u \in Threads : ThreadAwait(t, u)
      BY <3>10, ThreadAwaitStep
    <3> QED
      BY <2>2, <3>1, <3>2, <3>3, <3>4, <3>5, <3>6, <3>7, <3>8, <3>9, <3>10
         DEF UserStep
  <2>3. CASE \E e \in Endpoints : ExitDestroys(e)
    BY <2>3, DestroyActions
  <2>4. CASE ExitDone
    BY <2>4, ExitDoneStep
  <2>5. CASE UNCHANGED vars
    <3>1. /\ UNCHANGED <<current, tstate, ready, credits, pc, sendq, recvq, destroyed>>
          /\ UNCHANGED <<ep, msg, room, errno, sender, awaiter, exiting>>
      BY <2>5 DEF vars, schedVars, queueVars, callVars
    <3>2. TypeOK'
      BY <3>1 DEF IpcInv, TypeOK, SchedTypeOK
    <3>3. ListsConsistent' /\ ServicedSendersWait' /\ NoMissedRendezvous'
      BY <3>1 DEF IpcInv, ListsConsistent, ReadyQueueConsistent,
         ServicedSendersWait, NoMissedRendezvous, Queued, Blocked, Alive
    <3>4. WakesWithOutcome' /\ AwaitersReleased'
      BY <3>1 DEF IpcInv, WakesWithOutcome, AwaitersReleased, Queued, Blocked, Alive
    <3> QED
      BY <3>2, <3>3, <3>4 DEF IpcInv
  <2> QED
    BY <2>1, <2>2, <2>3, <2>4, <2>5 DEF Next, Halted
<1> QED
  BY IpcInvInit, <1>1, PTL DEF Spec

(* Type correctness of the IPC model.                                      *)
THEOREM IpcTypeOK == Spec => []TypeOK
BY IpcInvariant, PTL DEF IpcInv

(* No thread is ever on two lists, or twice on one: the list node that     *)
(* thread_t shares between the ready queue and the endpoints is safe.      *)
THEOREM ListsNeverCorrupted == Spec => []ListsConsistent
BY IpcInvariant, PTL DEF IpcInv

(* A serviced sender waits for its one server.                             *)
THEOREM ServicedSendersAlwaysWait == Spec => []ServicedSendersWait
BY IpcInvariant, PTL DEF IpcInv

(* Senders and receivers never wait for each other on the same endpoint.   *)
THEOREM RendezvousNeverMissed == Spec => []NoMissedRendezvous
BY IpcInvariant, PTL DEF IpcInv

(* A blocked send or receive is only woken with an outcome.                *)
THEOREM AlwaysWakesWithOutcome == Spec => []WakesWithOutcome
BY IpcInvariant, PTL DEF IpcInv

(* thread_await and thread_terminate_current never miss each other.        *)
THEOREM AwaitersAlwaysReleased == Spec => []AwaitersReleased
BY IpcInvariant, PTL DEF IpcInv

-----------------------------------------------------------------------------
(* A receiver that waits, or whose wait was aborted, services nobody.      *)
IdleReceivers == \A r \in Threads : pc[r] = "receive" =>
    /\ tstate[r] = "BLOCKED" => errno[r] = "OK"
    /\ tstate[r] = "BLOCKED" \/ errno[r] # "OK" => sender[r] = NULL

(* What keeps every sender reachable, next to IpcInv.                      *)
ReachInv == SendersReachable /\ IdleReceivers

(* Applications use neither freedom: they reply before they receive again, *)
(* and leave the buffers of a blocked RECEIVE alone.                       *)
NoFreedoms == AppMay = {}

(* A step that blocks nobody in send_message and takes no sender out of    *)
(* reach that stays blocked keeps every sender reachable.                  *)
LEMMA SendersKept ==
    ASSUME SendersReachable,
           \A u \in Threads : Blocked(u, "send")' =>
               /\ Blocked(u, "send") /\ ep'[u] = ep[u]
               /\ Queued(u, sendq[ep[u]]) =>
                    Queued(u, sendq[ep[u]])' \/ \E r \in Threads : sender'[r] = u
               /\ \A r \in Threads : sender[r] = u => \E q \in Threads : sender'[q] = u
    PROVE  SendersReachable'
BY DEF SendersReachable

(* Scheduling never blocks a thread other than the current one, and the    *)
(* threads that are readied or switched to do not stay blocked.            *)
LEMMA NobodyBlocks ==
    ASSUME SchedTypeOK, current \in Threads, NEW u \in Threads, u # current,
           tstate'[u] = "BLOCKED"
    PROVE  /\ UNCHANGED schedVars \/ SchedulerTick \/ YieldCurrentThread \/ Reschedule
                => tstate[u] = "BLOCKED"
           /\ \A woken : ReadyThreads(woken) => tstate[u] = "BLOCKED" /\ u \notin Range(woken)
           /\ \A s, woken : SwitchAway(s, woken) =>
                tstate[u] = "BLOCKED" /\ u \notin Range(woken)
           /\ \A to : SwitchTo(to) \/ SwitchToAndBlock(to) =>
                tstate[u] = "BLOCKED" /\ u # to
<1>1. ASSUME UNCHANGED schedVars \/ SchedulerTick \/ YieldCurrentThread
      PROVE  tstate[u] = "BLOCKED"
  BY <1>1 DEF schedVars, SchedulerTick, YieldCurrentThread
<1>2. ASSUME Reschedule PROVE tstate[u] = "BLOCKED"
  BY <1>2 DEF schedVars, Reschedule, SchedTypeOK
<1>3. ASSUME NEW woken, ReadyThreads(woken)
      PROVE  tstate[u] = "BLOCKED" /\ u \notin Range(woken)
  BY <1>3 DEF ReadyThreads
<1>4. ASSUME NEW s, NEW woken, SwitchAway(s, woken)
      PROVE  tstate[u] = "BLOCKED" /\ u \notin Range(woken)
  BY <1>4 DEF SwitchAway
<1>5. ASSUME NEW to, SwitchTo(to) \/ SwitchToAndBlock(to)
      PROVE  tstate[u] = "BLOCKED" /\ u # to
  BY <1>5 DEF SwitchTo, SwitchToAndBlock, SchedTypeOK
<1> QED
  BY <1>1, <1>2, <1>3, <1>4, <1>5

(* The steps that leave queues, calls and senders alone, but for the place *)
(* of the current thread, which is not about to wait.                      *)
LEMMA ReachQuiet ==
    ASSUME IpcInv, ReachInv, NEW t \in Threads,
           \/ OtherTrap(t) \/ Tick(t) \/ Yield(t) \/ TrapReturn(t)
           \/ AwaitReturn(t) \/ CloseReturn(t)
    PROVE  ReachInv'
<1>1. /\ current = t /\ pc \in [Threads -> PCs] /\ SchedTypeOK /\ tstate[t] = "RUNNING"
  BY CurrentFacts DEF IpcInv, TypeOK, OtherTrap, Tick, Yield, TrapReturn, AwaitReturn,
     CloseReturn, At
<1>2. /\ \A u \in Threads \ {t} : pc'[u] = pc[u]
      /\ pc'[t] \in {"user", "trapret"}
      /\ UNCHANGED <<sendq, ep, errno, sender>>
      /\ UNCHANGED schedVars \/ SchedulerTick \/ YieldCurrentThread \/ Reschedule
  BY <1>1 DEF OtherTrap, Tick, Yield, TrapReturn, AwaitReturn, CloseReturn, Goto,
     queueVars, callVars
<1>3. \A u \in Threads \ {t} : tstate'[u] = "BLOCKED" => tstate[u] = "BLOCKED"
  BY <1>1, <1>2, NobodyBlocks
<1>4. SendersReachable'
  BY <1>2, <1>3, SendersKept DEF ReachInv, Blocked, Queued
<1>5. IdleReceivers'
  BY <1>2, <1>3 DEF ReachInv, IdleReceivers
<1> QED
  BY <1>4, <1>5 DEF ReachInv

(* The end of a call: a RECEIVE that was aborted services nobody.          *)
LEMMA ReachEndCall ==
    ASSUME NoFreedoms, IpcInv, ReachInv, NEW t \in Threads,
           \/ SendReturn(t) \/ ReceiveAborted(t)
           \/ ReceiveDelivers(t) \/ ReceiveScatterFails(t)
    PROVE  ReachInv'
<1>1. /\ pc \in [Threads -> PCs] /\ sender \in [Threads -> Threads \cup {NULL}]
      /\ ep \in [Threads -> Endpoints \cup {NULL}] /\ errno \in [Threads -> Errnos]
  BY DEF IpcInv, TypeOK
<1>2. /\ \A u \in Threads \ {t} : pc'[u] = pc[u] /\ ep'[u] = ep[u] /\ errno'[u] = errno[u]
      /\ pc'[t] = "trapret"
      /\ UNCHANGED <<sendq, tstate>>
  BY <1>1 DEF SendReturn, ReceiveAborted, ReceiveDelivers, ReceiveScatterFails, Goto,
     EndCall, queueVars, schedVars
<1>3. \A r \in Threads : sender'[r] = sender[r]
  <2>1. CASE SendReturn(t) \/ ReceiveDelivers(t)
    BY <2>1 DEF SendReturn, ReceiveDelivers
  <2>2. CASE ReceiveAborted(t)
    <3>1. sender[t] = NULL
      BY <2>2 DEF ReceiveAborted, At, ReachInv, IdleReceivers
    <3> QED
      BY <1>1, <2>2, <3>1 DEF ReceiveAborted
  <2>3. CASE ReceiveScatterFails(t)
    BY <2>3 DEF ReceiveScatterFails, NoFreedoms
  <2> QED
    BY <2>1, <2>2, <2>3
<1>4. SendersReachable'
  BY <1>2, <1>3, SendersKept DEF ReachInv, Blocked, Queued
<1>5. IdleReceivers'
  BY <1>2, <1>3 DEF ReachInv, IdleReceivers
<1> QED
  BY <1>4, <1>5 DEF ReachInv

(* SEND: the sender is on the queue, or services of the receiver that      *)
(* waited, which serviced nobody, begin.                                   *)
LEMMA ReachSend ==
    ASSUME IpcInv, ReachInv, NEW t \in Threads, NEW e \in Endpoints,
           NEW size \in Sizes, NEW cap \in Sizes, SendMessage(t, e, size, cap)
    PROVE  ReachInv'
<1>1. /\ current = t /\ pc'[t] = "send" /\ ep'[t] = e
      /\ \A u \in Threads \ {t} : pc'[u] = pc[u] /\ ep'[u] = ep[u] /\ errno'[u] = errno[u]
  BY SendFacts
<1>2. /\ SchedTypeOK /\ sender \in [Threads -> Threads \cup {NULL}]
      /\ sendq \in [Endpoints -> Seq(Threads)] /\ recvq \in [Endpoints -> Seq(Threads)]
  BY DEF IpcInv, TypeOK
<1>3. /\ \A r \in Threads : sender[r] # NULL => sender'[r] = sender[r]
      /\ \A d \in Endpoints, u \in Threads : Queued(u, sendq[d]) => Queued(u, sendq[d])'
      /\ Queued(t, sendq[e])' \/ \E r \in Threads : sender'[r] = t
      /\ \A u \in Threads \ {t} : tstate'[u] = "BLOCKED" => tstate[u] = "BLOCKED"
      /\ \A r \in Threads : \/ sender'[r] = sender[r]
                            \/ tstate[r] = "BLOCKED" /\ tstate'[r] # "BLOCKED"
  <2>1. CASE recvq[e] = <<>>
    <3>1. /\ sendq' = [sendq EXCEPT ![e] = Append(@, t)]
          /\ SwitchAway("BLOCKED", <<>>) /\ sender' = sender
      BY <2>1 DEF SendMessage
    <3>2. Range(Append(sendq[e], t)) = Range(sendq[e]) \cup {t}
      BY <1>2, EnqueueFacts
    <3>3. \A d \in Endpoints, u \in Threads : Queued(u, sendq[d]) => Queued(u, sendq[d])'
      BY <1>2, <3>1, <3>2 DEF Queued
    <3>4. Queued(t, sendq[e])'
      BY <1>2, <3>1, <3>2 DEF Queued
    <3> QED
      BY <1>1, <1>2, <3>1, <3>3, <3>4, NobodyBlocks
  <2>2. CASE recvq[e] # <<>>
    <3>1. PICK r : r = Head(recvq[e])
      OBVIOUS
    <3>2. r \in Threads /\ r \in Range(recvq[e])
      BY <1>2, <2>2, <3>1, DequeueFacts
    <3>3. sender' = [sender EXCEPT ![r] = t] /\ SwitchToAndBlock(r) /\ sendq' = sendq
      BY <2>2, <3>1 DEF SendMessage
    <3>4. tstate[r] = "BLOCKED" /\ pc[r] = "receive"
      BY <3>2 DEF IpcInv, ListsConsistent, Queued, Blocked
    <3>5. sender[r] = NULL /\ r # t
      BY <1>1, <3>2, <3>4, CurrentFacts DEF ReachInv, IdleReceivers
    <3>6. \A u \in Threads \ {t} : tstate'[u] = "BLOCKED" => tstate[u] = "BLOCKED" /\ u # r
      BY <1>1, <1>2, <3>3, NobodyBlocks
    <3> QED
      BY <1>2, <3>2, <3>3, <3>4, <3>5, <3>6 DEF Queued
  <2> QED
    BY <2>1, <2>2
<1>4. SendersReachable'
  <2>1. ASSUME NEW u \in Threads, Blocked(u, "send")', u # t
        PROVE  Queued(u, sendq[ep[u]])' \/ \E r \in Threads : sender'[r] = u
    <3>1. Blocked(u, "send") /\ ep[u] \in Endpoints /\ u # NULL
      BY <1>1, <1>3, <2>1, SchedulerAssumption DEF Blocked, IpcInv, TypeOK
    <3> QED
      BY <1>1, <1>3, <2>1, <3>1 DEF ReachInv, SendersReachable
  <2> QED
    BY <1>1, <1>3, <2>1 DEF SendersReachable, Queued
<1>5. IdleReceivers'
  <2>1. ASSUME NEW r \in Threads, pc'[r] = "receive"
        PROVE  /\ tstate'[r] = "BLOCKED" => errno'[r] = "OK"
               /\ tstate'[r] = "BLOCKED" \/ errno'[r] # "OK" => sender'[r] = NULL
    <3>1. r # t /\ pc[r] = "receive"
      BY <1>1, <2>1
    <3> QED
      BY <1>1, <1>3, <3>1 DEF ReachInv, IdleReceivers
  <2> QED
    BY <2>1 DEF IdleReceivers
<1> QED
  BY <1>4, <1>5 DEF ReachInv

(* RECEIVE services nobody before it takes a sender off the queue; the one *)
(* that was too big is readied.                                            *)
LEMMA ReachReceiveNext ==
    ASSUME IpcInv, ReachInv, NEW t \in Threads, NEW e \in Endpoints, current = t,
           NEW woken, ReceiveNext(t, e, NULL, woken),
           t \notin Range(woken), sender[t] # NULL => sender[t] \in Range(woken),
           pc'[t] = "receive", errno'[t] = "OK",
           \A u \in Threads \ {t} : pc'[u] = pc[u] /\ ep'[u] = ep[u],
           \A u \in Threads \ {t} :
               errno'[u] = errno[u] \/ Blocked(u, "send")
    PROVE  ReachInv'
<1>1. /\ SchedTypeOK /\ sender \in [Threads -> Threads \cup {NULL}]
      /\ sendq \in [Endpoints -> Seq(Threads)]
  BY DEF IpcInv, TypeOK
<1>2. t \notin Range(woken) /\ tstate[t] = "RUNNING"
  BY CurrentFacts
<1>3. /\ \A r \in Threads \ {t} : sender'[r] = sender[r]
      /\ sendq[e] = <<>> => sender'[t] = NULL /\ sendq' = sendq
      /\ sendq[e] # <<>> => tstate'[t] = tstate[t]
      /\ \A d \in Endpoints, u \in Threads : Queued(u, sendq[d]) =>
           Queued(u, sendq[d])' \/ sender'[t] = u
      /\ \A u \in Threads \ {t} : tstate'[u] = "BLOCKED" =>
           tstate[u] = "BLOCKED" /\ u \notin Range(woken)
  <2>1. CASE sendq[e] # <<>>
    <3>1. /\ sendq' = [sendq EXCEPT ![e] = Tail(@)]
          /\ sender' = [sender EXCEPT ![t] = Head(sendq[e])]
          /\ ReadyThreads(woken)
      BY <2>1 DEF ReceiveNext
    <3>2. Range(Tail(sendq[e])) = Range(sendq[e]) \ {Head(sendq[e])}
      BY <1>1, <2>1, DequeueFacts DEF IpcInv, ListsConsistent
    <3>3. \A d \in Endpoints, u \in Threads : Queued(u, sendq[d]) =>
            Queued(u, sendq[d])' \/ sender'[t] = u
      BY <1>1, <3>1, <3>2 DEF Queued
    <3>4. tstate'[t] = tstate[t]
      BY <3>1, <1>2 DEF ReadyThreads
    <3> QED
      BY <1>1, <2>1, <3>1, <3>3, <3>4, NobodyBlocks
  <2>2. CASE sendq[e] = <<>>
    <3>1. sender' = [sender EXCEPT ![t] = NULL] /\ SwitchAway("BLOCKED", woken)
          /\ sendq' = sendq
      BY <2>2 DEF ReceiveNext
    <3> QED
      BY <1>1, <2>2, <3>1, NobodyBlocks DEF Queued
  <2> QED
    BY <2>1, <2>2
<1>4. SendersReachable'
  <2>1. ASSUME NEW u \in Threads, Blocked(u, "send")'
        PROVE  Queued(u, sendq[ep[u]])' \/ \E r \in Threads : sender'[r] = u
    <3>1. /\ u # t /\ u # NULL /\ Blocked(u, "send") /\ ep'[u] = ep[u] /\ ep[u] \in Endpoints
          /\ u \notin Range(woken)
      <4>1. u # t
        BY <2>1 DEF Blocked
      <4>2. Blocked(u, "send") /\ u \notin Range(woken) /\ ep'[u] = ep[u]
        BY <1>3, <2>1, <4>1 DEF Blocked
      <4> QED
        BY <4>1, <4>2, SchedulerAssumption DEF Blocked, IpcInv, TypeOK
    <3>2. CASE Queued(u, sendq[ep[u]])
      BY <1>3, <3>1, <3>2 DEF Queued
    <3>3. CASE \E r \in Threads : sender[r] = u
      <4>1. PICK r \in Threads : sender[r] = u
        BY <3>3, Zenon
      <4>2. r # t
        BY <3>1, <4>1, Zenon
      <4>3. sender'[r] = sender[r]
        BY <1>3, <4>2
      <4> QED
        BY <4>1, <4>3, Zenon
    <3> QED
      BY <3>1, <3>2, <3>3 DEF ReachInv, SendersReachable
  <2> QED
    BY <2>1 DEF SendersReachable, Queued
<1>5. IdleReceivers'
  <2>1. ASSUME NEW r \in Threads, pc'[r] = "receive"
        PROVE  /\ tstate'[r] = "BLOCKED" => errno'[r] = "OK"
               /\ tstate'[r] = "BLOCKED" \/ errno'[r] # "OK" => sender'[r] = NULL
    <3>1. CASE r = t
      BY <1>3, <1>2, <3>1
    <3>2. CASE r # t
      BY <1>3, <2>1, <3>2 DEF ReachInv, IdleReceivers, Blocked
    <3> QED
      BY <3>1, <3>2
  <2> QED
    BY <2>1 DEF IdleReceivers
<1> QED
  BY <1>4, <1>5 DEF ReachInv

(* RECEIVE keeps every sender reachable, both at its start and when a      *)
(* message does not fit.                                                   *)
LEMMA ReachReceive ==
    ASSUME NoFreedoms, IpcInv, ReachInv, NEW t \in Threads,
           ReceiveTooBig(t) \/ \E e \in Endpoints, cap \in Sizes : ReceiveMessage(t, e, cap)
    PROVE  ReachInv'
<1>1. /\ pc \in [Threads -> PCs] /\ sender \in [Threads -> Threads \cup {NULL}]
      /\ ep \in [Threads -> Endpoints \cup {NULL}] /\ errno \in [Threads -> Errnos]
  BY DEF IpcInv, TypeOK
<1>2. ASSUME NEW e \in Endpoints, NEW cap \in Sizes, ReceiveMessage(t, e, cap)
      PROVE  ReachInv'
  <2>1. current = t /\ sender[t] = NULL
    BY <1>2 DEF ReceiveMessage, At, NoFreedoms
  <2>2. ReceiveNext(t, e, NULL, <<>>)
    BY <1>2, <2>1 DEF ReceiveMessage
  <2>3. /\ pc'[t] = "receive" /\ errno'[t] = "OK"
        /\ \A u \in Threads \ {t} : pc'[u] = pc[u] /\ ep'[u] = ep[u] /\ errno'[u] = errno[u]
    BY <1>1, <1>2 DEF ReceiveMessage, Goto
  <2> QED
    BY <2>1, <2>2, <2>3, ReachReceiveNext, SmallQueueFacts
<1>3. ASSUME ReceiveTooBig(t) PROVE ReachInv'
  <2>1. /\ current = t /\ pc[t] = "receive" /\ errno[t] = "OK"
        /\ pc' = pc /\ ep' = ep /\ errno' = [errno EXCEPT ![sender[t]] = "E2BIG"]
    BY <1>3 DEF ReceiveTooBig, At
  <2>2. tstate[t] = "RUNNING" /\ sender[t] # t
    BY <2>1, CurrentFacts
  <2>3. /\ sender[t] # NULL /\ Blocked(sender[t], "send")
    BY <2>1, <2>2 DEF IpcInv, WakesWithOutcome, ServicedSendersWait
  <2>4. PICK s \in Threads : s = sender[t]
    BY <1>1, <2>3
  <2>5. PICK e \in Endpoints : e = ep[t]
    BY <2>1 DEF IpcInv, TypeOK
  <2>6. ReceiveNext(t, e, NULL, <<s>>)
    BY <1>3, <2>4, <2>5 DEF ReceiveTooBig
  <2>7. Range(<<s>>) = {s}
    BY SmallQueueFacts
  <2>8. errno'[t] = "OK" /\ \A u \in Threads \ {t} : errno'[u] = errno[u] \/ Blocked(u, "send")
    BY <1>1, <2>1, <2>2, <2>3, <2>4
  <2> QED
    BY <2>1, <2>2, <2>4, <2>6, <2>7, <2>8, ReachReceiveNext
<1> QED
  BY <1>2, <1>3

(* REPLY and REPLY_ERROR, failed or not: the sender that is let go runs.   *)
LEMMA ReachReply ==
    ASSUME IpcInv, ReachInv, NEW t \in Threads,
           \/ \E size \in Sizes : ReplyFails(t, size) \/ ReplyToMessage(t, size)
           \/ ReplyErrorToMessage(t)
    PROVE  ReachInv'
<1>1. /\ current = t /\ sender[t] \in Threads /\ pc \in [Threads -> PCs] /\ SchedTypeOK
      /\ sender \in [Threads -> Threads \cup {NULL}] /\ errno \in [Threads -> Errnos]
      /\ Blocked(sender[t], "send")
  BY DEF IpcInv, TypeOK, ServicedSendersWait, ReplyFails, ReplyToMessage,
     ReplyErrorToMessage, At
<1> DEFINE Lets ==
      /\ pc'[t] = "trapret" /\ sendq' = sendq /\ ep' = ep
      /\ \A u \in Threads \ {t} : pc'[u] = pc[u] /\ sender'[u] = sender[u]
      /\ \A u \in Threads \ {sender[t]} : errno'[u] = errno[u]
      /\ \/ sender' = sender /\ UNCHANGED schedVars
         \/ sender'[t] = NULL /\ SwitchTo(sender[t])
<1>2. Lets
  <2>1. ASSUME NEW size \in Sizes, ReplyFails(t, size)
        PROVE  Lets
    BY <1>1, <2>1 DEF ReplyFails, Goto, queueVars
  <2>2. ASSUME NEW size \in Sizes, ReplyToMessage(t, size)
        PROVE  Lets
    BY <1>1, <2>2 DEF ReplyToMessage, Goto, queueVars
  <2>3. CASE ReplyErrorToMessage(t)
    BY <1>1, <2>3 DEF ReplyErrorToMessage, Goto, queueVars
  <2> HIDE DEF Lets
  <2> QED
    BY <2>1, <2>2, <2>3
<1>3. \A u \in Threads \ {t} : tstate'[u] = "BLOCKED" =>
        tstate[u] = "BLOCKED" /\ (sender' = sender \/ u # sender[t])
  BY <1>1, <1>2, NobodyBlocks
<1>4. SendersReachable'
  <2>1. ASSUME NEW u \in Threads, Blocked(u, "send")'
        PROVE  /\ Blocked(u, "send")
               /\ \A r \in Threads : sender[r] = u => \E q \in Threads : sender'[q] = u
    <3>1. u # t /\ Blocked(u, "send") /\ (sender' = sender \/ u # sender[t])
      BY <1>2, <1>3, <2>1 DEF Blocked
    <3> QED
      BY <1>2, <3>1
  <2> QED
    BY <1>2, <2>1, SendersKept DEF ReachInv, Queued
<1>5. IdleReceivers'
  <2>1. ASSUME NEW r \in Threads, pc'[r] = "receive"
        PROVE  /\ tstate'[r] = "BLOCKED" => errno'[r] = "OK"
               /\ tstate'[r] = "BLOCKED" \/ errno'[r] # "OK" => sender'[r] = NULL
    <3>1. r # t /\ r # sender[t] /\ pc[r] = "receive"
      BY <1>1, <1>2, <2>1 DEF Blocked
    <3> QED
      BY <1>2, <1>3, <3>1 DEF ReachInv, IdleReceivers
  <2> QED
    BY <2>1 DEF IdleReceivers
<1> QED
  BY <1>4, <1>5 DEF ReachInv

(* The end of an endpoint: all who were queued on it are ready.            *)
LEMMA ReachDestroy ==
    ASSUME IpcInv, ReachInv, NEW e \in Endpoints,
           ExitDestroys(e) \/ \E t \in Threads : DestroyEndpoint(t, e)
    PROVE  ReachInv'
<1>1. PICK aborted : aborted = sendq[e] \o recvq[e]
  OBVIOUS
<1>2. /\ errno' = [u \in Threads |-> IF u \in Range(aborted) THEN "EIO" ELSE errno[u]]
      /\ ReadyThreads(aborted)
      /\ sendq' = [sendq EXCEPT ![e] = <<>>]
      /\ ep' = ep /\ sender' = sender
  BY <1>1 DEF ExitDestroys, DestroyEndpoint, DestroyOp
<1>3. /\ sendq \in [Endpoints -> Seq(Threads)] /\ recvq \in [Endpoints -> Seq(Threads)]
      /\ SchedTypeOK /\ pc \in [Threads -> PCs] /\ errno \in [Threads -> Errnos]
  BY DEF IpcInv, TypeOK
<1>4. Range(aborted) = Range(sendq[e]) \cup Range(recvq[e])
  BY <1>1, <1>3, ConcatFacts
<1>5. \A u \in Threads : pc'[u] = pc[u] \/ pc'[u] = "close"
  BY <1>3 DEF ExitDestroys, DestroyEndpoint, Goto
<1>6. \A u \in Threads : tstate'[u] = IF u \in Range(aborted) THEN "READY" ELSE tstate[u]
  BY <1>2 DEF ReadyThreads
<1>7. SendersReachable'
  <2>1. ASSUME NEW u \in Threads, Blocked(u, "send")'
        PROVE  Blocked(u, "send") /\ u \notin Range(sendq[e])
    BY <1>4, <1>5, <1>6, <2>1 DEF Blocked
  <2>2. ASSUME NEW u \in Threads, Blocked(u, "send")', Queued(u, sendq[ep[u]])
        PROVE  Queued(u, sendq[ep[u]])'
    <3>1. ep[u] \in Endpoints /\ ep[u] # e
      BY <2>1, <2>2 DEF Queued, IpcInv, TypeOK, Blocked
    <3> QED
      BY <1>2, <1>3, <2>2, <3>1 DEF Queued
  <2> QED
    BY <1>2, <2>1, <2>2, SendersKept DEF ReachInv
<1>8. IdleReceivers'
  <2>1. ASSUME NEW r \in Threads, pc'[r] = "receive"
        PROVE  /\ tstate'[r] = "BLOCKED" => errno'[r] = "OK"
               /\ tstate'[r] = "BLOCKED" \/ errno'[r] # "OK" => sender'[r] = NULL
    <3>1. pc[r] = "receive"
      BY <1>5, <2>1
    <3>2. CASE r \in Range(aborted)
      <4>1. tstate[r] = "BLOCKED"
        BY <1>4, <3>2 DEF IpcInv, ListsConsistent, Queued, Blocked
      <4> QED
        BY <1>2, <1>6, <3>1, <3>2, <4>1 DEF ReachInv, IdleReceivers
    <3>3. CASE r \notin Range(aborted)
      BY <1>2, <1>6, <3>1, <3>3 DEF ReachInv, IdleReceivers
    <3> QED
      BY <3>2, <3>3
  <2> QED
    BY <2>1 DEF IdleReceivers
<1> QED
  BY <1>7, <1>8 DEF ReachInv

(* START_THREAD, AWAIT_THREAD and the exit of a thread: a thread that does *)
(* not run services nobody, and one that exits lets its sender go.         *)
LEMMA ReachThread ==
    ASSUME IpcInv, ReachInv, NEW t \in Threads,
           \/ \E u \in Threads : StartThread(t, u) \/ ThreadAwait(t, u)
           \/ ThreadTerminateCurrent(t)
    PROVE  ReachInv'
<1>1. /\ current = t /\ pc[t] = "user" /\ pc \in [Threads -> PCs] /\ SchedTypeOK
      /\ sender \in [Threads -> Threads \cup {NULL}] /\ awaiter \in [Threads -> Threads \cup {NULL}]
  BY DEF IpcInv, TypeOK, StartThread, ThreadAwait, ThreadTerminateCurrent, At
<1>2. /\ sendq' = sendq /\ ep' = ep
      /\ \A u \in Threads : pc'[u] \in {"send", "receive"} => u # t /\ pc'[u] = pc[u]
  BY <1>1 DEF StartThread, ThreadAwait, ThreadTerminateCurrent, Goto, queueVars, callVars
<1>3. \A u \in Threads \ {t} : tstate'[u] = "BLOCKED" =>
        tstate[u] = "BLOCKED" /\ \A r \in Threads : sender[r] = u => sender'[r] = u
  <2>1. ASSUME NEW v \in Threads, StartThread(t, v), NEW u \in Threads \ {t},
               tstate'[u] = "BLOCKED"
        PROVE  tstate[u] = "BLOCKED" /\ \A r \in Threads : sender[r] = u => sender'[r] = u
    <3>1. sender[v] = NULL
      BY <2>1 DEF StartThread, IpcInv, ServicedSendersWait, Alive
    <3> QED
      BY <1>1, <2>1, <3>1, SchedulerAssumption DEF StartThread, SchedTypeOK
  <2>2. ASSUME NEW v \in Threads, ThreadAwait(t, v), NEW u \in Threads \ {t},
               tstate'[u] = "BLOCKED"
        PROVE  tstate[u] = "BLOCKED" /\ \A r \in Threads : sender[r] = u => sender'[r] = u
    BY <1>1, <2>2, NobodyBlocks DEF ThreadAwait
  <2>3. ASSUME ThreadTerminateCurrent(t), NEW u \in Threads \ {t}, tstate'[u] = "BLOCKED"
        PROVE  tstate[u] = "BLOCKED" /\ \A r \in Threads : sender[r] = u => sender'[r] = u
    <3>1. PICK woken : woken = Pointed(awaiter[t]) \o Pointed(sender[t])
      OBVIOUS
    <3>2. SwitchAway("ZOMBIE", woken) /\ sender' = [sender EXCEPT ![t] = NULL]
      BY <2>3, <3>1 DEF ThreadTerminateCurrent
    <3>3. Range(woken) = ({awaiter[t]} \ {NULL}) \cup ({sender[t]} \ {NULL})
      <4>1. awaiter[t] \in Threads \cup {NULL} /\ sender[t] \in Threads \cup {NULL}
        BY <1>1
      <4> QED
        BY <3>1, <4>1, TwoPointed, Zenon
    <3>4. tstate[u] = "BLOCKED" /\ u \notin Range(woken)
      BY <1>1, <2>3, <3>2, NobodyBlocks
    <3>5. sender[t] # u
      BY <3>3, <3>4, SchedulerAssumption
    <3>6. ASSUME NEW r \in Threads, sender[r] = u
          PROVE  sender'[r] = u
      <4>1. r # t
        BY <3>5, <3>6, Zenon
      <4> QED
        BY <1>1, <3>2, <3>6, <4>1
    <3> QED
      BY <3>4, <3>6, Zenon
  <2> QED
    BY <2>1, <2>2, <2>3
<1>4. \A r \in Threads : sender'[r] = NULL \/ sender'[r] = sender[r]
  BY <1>1 DEF StartThread, ThreadAwait, ThreadTerminateCurrent
<1>5. \A u \in Threads : pc'[u] = "receive" => errno'[u] = errno[u]
  <2>1. CASE ThreadTerminateCurrent(t)
    <3>1. sender[t] # NULL => pc[sender[t]] = "send"
      BY DEF IpcInv, ServicedSendersWait, Blocked
    <3> QED
      BY <1>1, <1>2, <2>1, <3>1, SchedulerAssumption DEF ThreadTerminateCurrent
  <2>2. CASE \E u \in Threads : StartThread(t, u) \/ ThreadAwait(t, u)
    BY <2>2 DEF StartThread, ThreadAwait, callVars
  <2> QED
    BY <2>1, <2>2
<1>6. SendersReachable'
  <2>1. ASSUME NEW u \in Threads, Blocked(u, "send")'
        PROVE  /\ Blocked(u, "send")
               /\ \A r \in Threads : sender[r] = u => \E q \in Threads : sender'[q] = u
    BY <1>2, <1>3, <2>1 DEF Blocked
  <2> QED
    BY <1>2, <2>1, SendersKept DEF ReachInv, Queued
<1>7. IdleReceivers'
  BY <1>2, <1>3, <1>4, <1>5 DEF ReachInv, IdleReceivers
<1> QED
  BY <1>6, <1>7 DEF ReachInv

(* Every thread blocked in send_message can be reached by a receiver, a    *)
(* reply, an exit or the end of its endpoint, provided that applications   *)
(* reply before they receive again and leave their buffers alone.          *)
THEOREM SendersAlwaysReachable == ASSUME NoFreedoms PROVE Spec => []SendersReachable
<1>1. Init => ReachInv
  BY DEF Init, SchedInit, ReachInv, SendersReachable, IdleReceivers, Blocked
<1>2. IpcInv /\ ReachInv /\ [Next]_vars => ReachInv'
  <2> SUFFICES ASSUME IpcInv, ReachInv, [Next]_vars PROVE ReachInv'
    OBVIOUS
  <2>1. ASSUME NEW t \in Threads, KernelStep(t) PROVE ReachInv'
    BY <2>1, ReachQuiet, ReachEndCall, ReachReceive DEF KernelStep
  <2>2. ASSUME NEW t \in Threads, UserStep(t) PROVE ReachInv'
    <3>1. CASE OtherTrap(t) \/ Tick(t) \/ Yield(t)
      BY <3>1, ReachQuiet
    <3>2. CASE \E e \in Endpoints, size, cap \in Sizes : SendMessage(t, e, size, cap)
      BY <3>2, ReachSend
    <3>3. CASE \E e \in Endpoints, cap \in Sizes : ReceiveMessage(t, e, cap)
      BY <3>3, ReachReceive
    <3>4. CASE \/ \E size \in Sizes : ReplyFails(t, size)
               \/ \E size \in Sizes : ReplyToMessage(t, size)
               \/ ReplyErrorToMessage(t)
      BY <3>4, ReachReply
    <3>5. CASE \E e \in Endpoints : DestroyEndpoint(t, e)
      BY <3>5, ReachDestroy
    <3>6. CASE \/ \E u \in Threads : StartThread(t, u)
               \/ ThreadTerminateCurrent(t)
               \/ \E u \in Threads : ThreadAwait(t, u)
      BY <3>6, ReachThread
    <3> QED
      BY <2>2, <3>1, <3>2, <3>3, <3>4, <3>5, <3>6 DEF UserStep
  <2>3. CASE \E e \in Endpoints : ExitDestroys(e)
    BY <2>3, ReachDestroy
  <2>4. CASE ExitDone \/ UNCHANGED vars
    BY <2>4 DEF ExitDone, vars, schedVars, queueVars, callVars, ReachInv, SendersReachable,
       IdleReceivers, Blocked, Queued
  <2> QED
    BY <2>1, <2>2, <2>3, <2>4 DEF Next, Halted
<1>3. ReachInv => SendersReachable
  BY DEF ReachInv
<1> QED
  BY <1>1, <1>2, <1>3, IpcInvariant, PTL DEF Spec
=============================================================================
