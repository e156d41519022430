------------------------------ MODULE KernelLog ------------------------------
(***************************************************************************)
(* The kernel log (kernel/domain/services/logging.c): log events of        *)
(* variable length in a ring buffer, written at write_ptr, the oldest one  *)
(* still there at tail_ptr; and the log readers that are brought up to     *)
(* date after every event.  The whole of log_message runs under            *)
(* logging_spinlock; the iterations of its loops are separate steps, and   *)
(* nothing else is enabled until it returns (phase).                       *)
(*                                                                         *)
(* Addresses are offsets in ring_buffer.  The ring is a function on the    *)
(* aligned addresses; the word of an event's header holds its length, its  *)
(* log level and, in the place of the words that follow, its text.         *)
(***************************************************************************)
EXTENDS Integers, Sequences

CONSTANTS RingSize,     \* RING_BUFFER_SIZE
          HeaderSize,   \* sizeof(log_event_t)
          Alignment,    \* EVENT_ALIGNMENT
          MaxLength,    \* JINUE_LOG_MAX_LENGTH
          Messages,     \* the strings that are logged
          LogLevels,    \* the log levels the callers ask for
          MaxLogs,      \* bound on the number of events logged
          Readers,      \* the log_reader_t of the drivers
          InitOut,      \* what the device of each reader shows at first
          DoLog(_, _, _)    \* the log function of a reader: its device after an event

RedzoneSize == MaxLength + 2 * HeaderSize

(* The sizes logging.c relies on: headers are aligned, the longest message *)
(* fills whole words, and the ring has room for three redzones.            *)
ASSUME KernelLogAssumption ==
    /\ Alignment \in Nat \ {0} /\ HeaderSize \in Nat \ {0}
    /\ MaxLength \in Nat /\ RingSize \in Nat /\ MaxLogs \in Nat
    /\ HeaderSize % Alignment = 0
    /\ MaxLength % Alignment = 0
    /\ RingSize % Alignment = 0
    /\ RingSize >= 3 * RedzoneSize
    /\ \A text \in Messages : Len(text) \in Nat
    /\ LogLevels \subseteq Nat

VARIABLES ring,         \* ring_buffer
          write_ptr, tail_ptr, write_id, tail_id,   \* state
          readers,      \* the list of registered readers
          read_ptr, read_id,    \* of each reader
          out,          \* what each reader's device shows
          phase,        \* how far log_message is; "idle" outside of it
          event,        \* the event that it writes
          cur,          \* the cursor of sync_all_readers
          sent,         \* history: the events logged, in order
          place,        \* history: the address each of them was written to
          offset,       \* history: the bytes that the events before each took
          heard         \* history: the events each reader was given

tailVars == <<tail_ptr, tail_id>>
writeVars == <<ring, write_ptr, write_id>>
readVars == <<read_ptr, read_id, out, heard>>
logVars == <<sent, place, offset>>
vars == <<tailVars, writeVars, readers, readVars, phase, event, cur, logVars>>

Words == {a \in 0..RingSize - 1 : a % Alignment = 0}
Event(level, text) == [length |-> Len(text), loglevel |-> level, text |-> text]

(* A word that holds no header: part of a message, or never written.       *)
MessageWord == [length |-> 1, loglevel |-> 0, text |-> <<>>]
ZeroWord == [length |-> 0, loglevel |-> 0, text |-> <<>>]

Init ==
    /\ ring = [a \in Words |-> ZeroWord]
    /\ write_ptr = 0 /\ tail_ptr = 0
    /\ write_id = 0 /\ tail_id = 0
    /\ readers = <<>>
    /\ read_ptr = [r \in Readers |-> 0]
    /\ read_id = [r \in Readers |-> 0]
    /\ out = InitOut
    /\ phase = "idle" /\ event = ZeroWord /\ cur = 1
    /\ sent = <<>> /\ place = <<>> /\ offset = <<0>>
    /\ heard = [r \in Readers |-> <<>>]

-----------------------------------------------------------------------------
(* initialize_log_reader and register_log_reader, which vga_init and       *)
(* init_uart16550a call one after the other.                               *)
RegisterReader(r) ==
    /\ phase = "idle"
    /\ \A i \in DOMAIN readers : readers[i] # r
    /\ readers' = Append(readers, r)
    /\ read_ptr' = [read_ptr EXCEPT ![r] = tail_ptr]
    /\ read_id' = [read_id EXCEPT ![r] = tail_id]
    /\ UNCHANGED <<tailVars, writeVars, out, heard, phase, event, cur, logVars>>

AlignEnd(n) == ((n + Alignment - 1) \div Alignment) * Alignment

(* The macro NEXT: the distance to the event that follows.                 *)
NEXT(ev) == HeaderSize + AlignEnd(ev.length)

(* A plausible mistake: room for the message only.                         *)
PointerIsInRedzoneShort(ptr) == ptr >= write_ptr /\ ptr < write_ptr + MaxLength

PointerIsInRedzone(ptr) == ptr >= write_ptr /\ ptr < write_ptr + RedzoneSize

(* A bound: an event without text, which the ring cannot tell from a       *)
(* terminator, is the last one.  The readers that were sent to the start   *)
(* of the buffer for it are no longer where their ids say.                 *)
EmptyLogged == write_id > 0 /\ sent[write_id].length = 0

(* log_message up to its first loop.  When too little room is left at the  *)
(* end of the buffer, a terminator is written and the event goes to the    *)
(* start; the tail is pushed away first from both places.                  *)
LogMessage(level, text) ==
    /\ phase = "idle" /\ write_id < MaxLogs /\ ~ EmptyLogged
    /\ event' = Event(level, text)
    /\ phase' = IF PointerIsInRedzone(RingSize) THEN "wrap" ELSE "write"
    /\ UNCHANGED <<tailVars, writeVars, readers, readVars, cur, logVars>>

(* Where the event is that a pointer has come to: terminators send the     *)
(* tail and the readers to the start.                                      *)
EventAt(ptr) == IF ring[ptr].length = 0 THEN 0 ELSE ptr

(* A plausible mistake: the tail is pushed wherever it is.                 *)
PushTailAnyway ==
    /\ phase \in {"wrap", "write"} /\ tail_id + 1 < write_id
    /\ tail_ptr' = EventAt(tail_ptr + NEXT(ring[tail_ptr]))
    /\ tail_id' = tail_id + 1
    /\ UNCHANGED <<writeVars, readers, readVars, phase, event, cur, logVars>>

(* An iteration of push_tail: the oldest event is dropped while the tail   *)
(* is in the redzone.  Before the first event there is nothing to push.    *)
PushTail ==
    /\ phase = "wrap" \/ (phase = "write" /\ write_id # 0)
    /\ PointerIsInRedzone(tail_ptr)
    /\ tail_ptr' = EventAt(tail_ptr + NEXT(ring[tail_ptr]))
    /\ tail_id' = tail_id + 1
    /\ UNCHANGED <<writeVars, readers, readVars, phase, event, cur, logVars>>

(* write_terminator and write_go_to_buffer_start.                          *)
WriteTerminator ==
    /\ phase = "wrap" /\ ~ PointerIsInRedzone(tail_ptr)
    /\ ring' = [ring EXCEPT ![write_ptr].length = 0]
    /\ write_ptr' = 0
    /\ phase' = "write"
    /\ UNCHANGED <<tailVars, write_id, readers, readVars, event, cur, logVars>>

(* The event as it is written: the header, and over the words that follow  *)
(* the message and the zero byte that vsnprintf puts at its end; then      *)
(* write_go_next.                                                          *)
WriteEvent ==
    /\ phase = "write" /\ (write_id # 0 => ~ PointerIsInRedzone(tail_ptr))
    /\ ring' = [a \in Words |->
                  IF a = write_ptr THEN event
                  ELSE IF a \in write_ptr + HeaderSize .. write_ptr + HeaderSize + event.length
                    THEN MessageWord ELSE ring[a]]
    /\ write_ptr' = write_ptr + NEXT(event)
    /\ write_id' = write_id + 1
    /\ sent' = Append(sent, event)
    /\ place' = Append(place, write_ptr)
    /\ offset' = Append(offset, offset[write_id + 1] + NEXT(event))
    /\ phase' = "sync" /\ cur' = 1
    /\ UNCHANGED <<tailVars, readers, readVars, event>>

(* A plausible mistake: a reader that fell behind is not moved to the tail.*)
ReaderStartStale(r) == [ptr |-> read_ptr[r], id |-> read_id[r]]

(* Where sync_reader starts: initialize_at_start moves a reader whose next *)
(* event is gone.                                                          *)
ReaderStart(r) ==
    IF read_id[r] < tail_id THEN [ptr |-> tail_ptr, id |-> tail_id]
                            ELSE [ptr |-> read_ptr[r], id |-> read_id[r]]

(* An iteration of sync_reader for the reader at the cursor, or the step   *)
(* of sync_all_readers to the next one.                                    *)
SyncReader ==
    /\ phase = "sync" /\ cur \in DOMAIN readers
    /\ LET r == readers[cur]
           at == ReaderStart(r)
           ptr == EventAt(at.ptr)
       IN  IF at.id < write_id
             THEN /\ read_ptr' = [read_ptr EXCEPT ![r] = ptr + NEXT(ring[ptr])]
                  /\ read_id' = [read_id EXCEPT ![r] = at.id + 1]
                  /\ out' = [out EXCEPT ![r] = DoLog(r, @, ring[ptr])]
                  /\ heard' = [heard EXCEPT ![r] = Append(@, ring[ptr])]
                  /\ cur' = cur
             ELSE /\ read_ptr' = [read_ptr EXCEPT ![r] = at.ptr]
                  /\ read_id' = [read_id EXCEPT ![r] = at.id]
                  /\ cur' = cur + 1
                  /\ UNCHANGED <<out, heard>>
    /\ UNCHANGED <<tailVars, writeVars, readers, phase, event, logVars>>

(* log_message releases the lock.                                          *)
Return ==
    /\ phase = "sync" /\ cur \notin DOMAIN readers
    /\ phase' = "idle" /\ event' = ZeroWord /\ cur' = 1
    /\ UNCHANGED <<tailVars, writeVars, readers, readVars, logVars>>

-----------------------------------------------------------------------------
(* A plausible mistake: the length of the string is not checked.           *)
PutsAnyLength(level, facility, str) ==
    IF level > 7 \/ facility = 0 THEN UNCHANGED vars ELSE LogMessage(level, str)

(* The system call PUTS: puts() in syscalls/puts.c, and log().             *)
Puts(level, facility, str) ==
    IF Len(str) > MaxLength \/ level > 7 \/ facility = 0
      THEN UNCHANGED vars   \* JINUE_EINVAL
      ELSE LogMessage(level, str)

(* info, warn, error and emergency, called by the kernel itself.  The      *)
(* kernel's own formats never give more than MaxLength characters.         *)
KernelMessage(level, text) ==
    /\ Len(text) <= MaxLength
    /\ LogMessage(level, text)

Next ==
    \/ \E r \in Readers : RegisterReader(r)
    \/ \E level \in LogLevels, facility \in {0, 1}, str \in Messages :
            Puts(level, facility, str)
    \/ \E level \in LogLevels \cap {0, 3, 4, 6}, text \in Messages :
            KernelMessage(level, text)
    \/ PushTail \/ WriteTerminator \/ WriteEvent \/ SyncReader \/ Return

Spec == Init /\ [][Next]_vars

-----------------------------------------------------------------------------
EventType == [length : 0..MaxLength, loglevel : 0..7, text : Messages \cup {<<>>}]

(* The types; in particular the loops of push_tail and sync_reader end,    *)
(* since an id never passes write_id.                                      *)
TypeOK ==
    /\ ring \in [Words -> EventType]
    /\ write_ptr \in 0..RingSize /\ tail_ptr \in Words
    /\ write_id \in 0..MaxLogs /\ tail_id \in 0..write_id
    /\ readers \in Seq(Readers) /\ cur \in 1..Len(readers) + 1
    /\ read_ptr \in [Readers -> 0..RingSize]
    /\ read_id \in [Readers -> 0..write_id]
    /\ phase \in {"idle", "wrap", "write", "sync"} /\ event \in EventType

(* The events tail_id .. write_id - 1 are in the ring, unharmed and in     *)
(* order, and a walk that starts at the tail and passes over terminators,  *)
(* as push_tail and sync_reader do, finds one after the other: what is     *)
(* written, the zero byte after a message and the terminators included,    *)
(* never overwrites an event that a reader may still be sent to.  An event *)
(* without text is in the ring and harms no other, but no walk finds it    *)
(* (tail_is_at_terminator, read_is_at_terminator).                         *)
RingHoldsTheLatest ==
    LET Finds(ptr, i) == sent[i].length > 0 => EventAt(ptr) = place[i]
    IN  /\ tail_id < write_id => Finds(tail_ptr, tail_id + 1)
        /\ \A i \in tail_id + 1..write_id :
             /\ ring[place[i]] = sent[i]
             /\ i < write_id => Finds(place[i] + NEXT(sent[i]), i + 1)

(* The ring forgets no more than it has to: the retained events and the    *)
(* one dropped last would not fit beside two redzones (push_tail).         *)
RetainsWhatFits ==
    tail_id > 0 =>
      offset[write_id + 1] - offset[tail_id] > RingSize - 2 * RedzoneSize

(* A reader is given an unbroken run of events that ends with the latest,  *)
(* whenever it registered and however far the ring has wrapped since       *)
(* (sync_reader); but in the place of an event without text it is given    *)
(* another one, of which nothing is said, nor of what follows it.          *)
ReadersHearUnbrokenLog ==
    phase = "idle" => \A i \in DOMAIN readers :
        LET h == heard[readers[i]]
            latest == SubSeq(sent, write_id - Len(h) + 1, write_id)
        IN  h # <<>> =>
              /\ Len(h) <= write_id
              /\ \A j \in DOMAIN h : latest[j].length > 0 => h[j] = latest[j]
              /\ read_id[readers[i]] = write_id
==============================================================================
