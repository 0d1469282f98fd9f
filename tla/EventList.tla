----------------------------- MODULE EventList ------------------------------
(***************************************************************************)
(* The event list of src/lib/event-lib.cpp and the heap of                 *)
(* src/lib/heap.cpp under it.  Every timer of the server is an event of    *)
(* this list; an owner (a REQUEST or a home server) has one pointer ev to  *)
(* its event.  The heap is an array of events with the smallest time in    *)
(* front, and each event knows its own place in the array, so that it can  *)
(* be taken out of the middle.  The readers are the sockets select() waits *)
(* for; fr_event_loop() copies them into a set of its own, waits, runs the *)
(* events that are due and then the handlers of the sockets that are ready.*)
(*                                                                         *)
(* Places count from 1 here and from 0 in the code.  Times are in          *)
(* microseconds, of which EvUsec make a second.                            *)
(***************************************************************************)
EXTENDS Integers, Sequences

CONSTANTS
    Owners, Nobody,
    MaxTime,        \* bound of the clock and of every time
    EvUsec,         \* USEC
    EvFds,          \* sockets the callers may open
    MaxReaders      \* FR_EV_MAX_FDS

ASSUME EventListAssumption ==
    /\ MaxTime \in Nat /\ EvUsec \in Nat \ {0}
    /\ EvFds \subseteq Nat /\ MaxReaders \in Nat \ {0}

VARIABLES
    heap,          \* hp->p: the events in the heap, named by their owners
    place,         \* ev->heap of each event
    when,          \* ev->when of each event
    ev,            \* the owners whose pointer is not NULL
    ev_now,        \* the time of day
    fired,         \* whose callback runs, or Nobody
    readers,       \* el->readers[].fd
    max_readers,
    loop           \* where fr_event_loop() is

timerVars == <<heap, place, when, ev, ev_now, fired>>
readerVars == <<readers, max_readers, loop>>
evVars == <<timerVars, readerVars>>

NoReader == -1
ReaderSlots == 0 .. MaxReaders - 1

\* pc: what comes next.  changed: el->changed.  master, ready: master_fds and
\* read_fds.  i: the slot looked at.  kept (history): the sockets that are watched
\* since select() was called.
Loop == [pc: {"select", "run", "dispatch", "handler"}, changed: BOOLEAN,
         master: SUBSET EvFds, ready: SUBSET EvFds, i: 0 .. MaxReaders,
         kept: SUBSET EvFds]

EvTypeOK ==
    /\ heap \in Seq(Owners)
    /\ place \in [Owners -> Nat]
    /\ when \in [Owners -> 0 .. MaxTime]
    /\ ev \subseteq Owners
    /\ ev_now \in 0 .. MaxTime
    /\ fired \in Owners \cup {Nobody}
    /\ readers \in [ReaderSlots -> EvFds \cup {NoReader}]
    /\ max_readers \in 0 .. MaxReaders
    /\ loop \in Loop

-----------------------------------------------------------------------------
HeapParent(i) == i \div 2
HeapLeft(i) == 2 * i

\* A heap with the places of its events: h.p and h.at.
Put(h, i, o) == [p |-> [h.p EXCEPT ![i] = o], at |-> [h.at EXCEPT ![o] = i]]

\* A turn of the loop of fr_heap_bubble: the event at place i changes places with
\* its parent, unless that is smaller.  w are the times.
BubbleTurn(x, w) ==
    LET h == x.h
        i == x.i
        o == h.p[i]
        up == h.p[HeapParent(i)]
    IN IF i = 1 \/ w[up] < w[o] THEN [h |-> Put(h, i, o), i |-> i]
       ELSE [h |-> Put(Put(h, i, up), HeapParent(i), o), i |-> HeapParent(i)]

\* The heap and the place of the event after so many turns; the turns after the
\* last one change nothing.
BubbleTurns(h, i, w) ==
    LET after[n \in 0 .. Len(h.p)] ==
          IF n = 0 THEN [h |-> h, i |-> i] ELSE BubbleTurn(after[n - 1], w)
    IN after

fr_heap_bubble(h, i, w) == BubbleTurns(h, i, w)[Len(h.p)].h

\* fr_heap_insert.
fr_heap_insert(h, o, w) ==
    fr_heap_bubble([h EXCEPT !.p = Append(@, o)], Len(h.p) + 1, w)

\* A turn of the loop of fr_heap_extract: the smaller child goes up into the hole
\* at place i, until that is a leaf.
SiftTurn(x) ==
    LET h == x.h
        l == HeapLeft(x.hole)
        c == IF l # Len(h.p) /\ when[h.p[l + 1]] < when[h.p[l]] THEN l + 1 ELSE l
    IN IF l > Len(h.p) THEN x ELSE [h |-> Put(h, x.hole, h.p[c]), hole |-> c]

SiftTurns(h, i) ==
    LET after[n \in 0 .. Len(h.p)] ==
          IF n = 0 THEN [h |-> h, hole |-> i] ELSE SiftTurn(after[n - 1])
    IN after

Sift(h, i) == SiftTurns(h, i)[Len(h.p)]

\* Mutant: the last event is put into the hole and left there.
ExtractNoBubble(h, o) ==
    LET s == Sift([h EXCEPT !.at[o] = 0], h.at[o])
        last == Len(h.p)
    IN [IF s.hole = last THEN s.h ELSE Put(s.h, s.hole, s.h.p[last]) EXCEPT !.p = SubSeq(@, 1, last - 1)]

\* fr_heap_extract of event o: from the place it says it has, the hole filled
\* with the last event.
fr_heap_extract(h, o) ==
    IF h.at[o] \notin 1 .. Len(h.p) THEN h
    ELSE LET s == Sift([h EXCEPT !.at[o] = 0], h.at[o])
             last == Len(h.p)
             g == [s.h EXCEPT !.p = SubSeq(@, 1, last - 1)]
         IN IF s.hole = last THEN g
            ELSE fr_heap_bubble([g EXCEPT !.p[s.hole] = s.h.p[last]], s.hole, when)

Heap == [p |-> heap, at |-> place]
SetHeap(h) == heap' = h.p /\ place' = h.at

-----------------------------------------------------------------------------
EvInit ==
    /\ heap = <<>>
    /\ place = [o \in Owners |-> 0]
    /\ when = [o \in Owners |-> 0]
    /\ ev = {}
    /\ ev_now = 0
    /\ fired = Nobody
    /\ readers = [s \in ReaderSlots |-> NoReader]
    /\ max_readers = 0
    /\ loop = [pc |-> "select", changed |-> TRUE, master |-> {}, ready |-> {}, i |-> 0,
               kept |-> {}]

\* fr_event_insert: an event the owner has is deleted first.
fr_event_insert(o, t) ==
    /\ when' = [when EXCEPT ![o] = t]
    /\ SetHeap(fr_heap_insert(IF o \in ev THEN fr_heap_extract(Heap, o) ELSE Heap, o, when'))
    /\ ev' = ev \cup {o}
    /\ fired' = Nobody
    /\ UNCHANGED <<ev_now, readerVars>>

Delete(o) ==
    /\ SetHeap(fr_heap_extract(Heap, o))
    /\ ev' = ev \ {o}
    /\ when' = [when EXCEPT ![o] = 0]
    /\ UNCHANGED <<ev_now, readerVars>>

fr_event_delete(o) ==
    /\ o \in ev
    /\ Delete(o)
    /\ fired' = Nobody

\* Mutant: the first event runs, due or not.
RunEarly ==
    /\ heap # <<>>
    /\ Delete(heap[1])
    /\ fired' = heap[1]

\* fr_event_run: the first event, if it is due, is deleted and its callback
\* runs, which may set and delete events.
fr_event_run ==
    /\ heap # <<>> /\ when[heap[1]] <= ev_now
    /\ Delete(heap[1])
    /\ fired' = heap[1]

\* fr_event_fd_insert: the first free slot up to max_readers, unless the
\* socket is found before it.
fr_event_fd_insert(fd) ==
    /\ max_readers < MaxReaders
    /\ \E s \in 0 .. max_readers :
         /\ readers[s] = NoReader /\ \A t \in 0 .. s - 1 : readers[t] \notin {NoReader, fd}
         /\ readers' = [readers EXCEPT ![s] = fd]
         /\ max_readers' = IF s = max_readers THEN s + 1 ELSE max_readers
    /\ loop' = [loop EXCEPT !.changed = TRUE]
    /\ UNCHANGED timerVars

\* fr_event_fd_delete.
fr_event_fd_delete(fd) ==
    /\ \E s \in 0 .. max_readers - 1 :
         /\ readers[s] = fd /\ \A t \in 0 .. s - 1 : readers[t] # fd
         /\ readers' = [readers EXCEPT ![s] = NoReader]
         /\ max_readers' = IF s + 1 = max_readers THEN s ELSE max_readers
    /\ loop' = [loop EXCEPT !.changed = TRUE, !.kept = @ \ {fd}]
    /\ UNCHANGED timerVars

Watched == {readers[s] : s \in ReaderSlots} \ {NoReader}

\* fr_event_loop: the set is made anew if the readers changed, and select()
\* says which sockets are ready.
Select ==
    /\ loop.pc = "select"
    /\ LET master == IF loop.changed THEN Watched ELSE loop.master
       IN \E ready \in SUBSET master :
            loop' = [loop EXCEPT !.pc = "run", !.changed = FALSE, !.master = master,
                                 !.ready = ready, !.kept = Watched]
    /\ UNCHANGED <<timerVars, readers, max_readers>>

\* The events that were due have run, and may have inserted sockets.
EventsHaveRun ==
    /\ loop.pc = "run"
    /\ loop' = [loop EXCEPT !.pc = IF loop.ready = {} THEN "select" ELSE "dispatch", !.i = 0]
    /\ UNCHANGED <<timerVars, readers, max_readers>>

\* The next slot: its handler is called if its socket is ready.
Dispatch ==
    /\ loop.pc = "dispatch"
    /\ loop' = IF loop.i >= max_readers THEN [loop EXCEPT !.pc = "select", !.i = 0]
               ELSE IF readers[loop.i] \in loop.ready
                 THEN [loop EXCEPT !.pc = "handler"]
               ELSE [loop EXCEPT !.i = @ + 1]
    /\ UNCHANGED <<timerVars, readers, max_readers>>

\* The handler returns; if it changed the readers the loop starts anew.
HandlerReturns ==
    /\ loop.pc = "handler"
    /\ loop' = IF loop.changed THEN [loop EXCEPT !.pc = "select", !.i = 0]
               ELSE [loop EXCEPT !.pc = "dispatch", !.i = @ + 1]
    /\ UNCHANGED <<timerVars, readers, max_readers>>

EvTick ==
    /\ ev_now < MaxTime
    /\ ev_now' = ev_now + 1
    /\ fired' = Nobody
    /\ UNCHANGED <<heap, place, when, ev, readerVars>>

TimerNext ==
    \/ \E o \in Owners : fr_event_delete(o) \/ \E t \in 0 .. MaxTime : fr_event_insert(o, t)
    \/ fr_event_run \/ EvTick

\* Sockets are opened by handlers and by events (proxy_id_alloc() for a packet
\* that is sent again), and closed by handlers; none that is watched is inserted
\* again.
ReaderNext ==
    \/ \E fd \in EvFds :
         \/ loop.pc \in {"run", "handler"} /\ fd \notin Watched /\ fr_event_fd_insert(fd)
         \/ loop.pc = "handler" /\ fr_event_fd_delete(fd)
    \/ Select \/ EventsHaveRun \/ Dispatch \/ HandlerReturns

EvNext == TimerNext \/ ReaderNext

EvSpec == EvInit /\ [][EvNext]_evVars

-----------------------------------------------------------------------------
\* The heap is ordered and every event knows its place, however events were
\* taken out of the middle: an event with a wrong place would leave a freed
\* event in the heap.
HeapIsExact ==
    /\ \A i \in 2 .. Len(heap) : when[heap[HeapParent(i)]] <= when[heap[i]]
    /\ \A i \in 1 .. Len(heap) : place[heap[i]] = i
    /\ ev = {heap[i] : i \in 1 .. Len(heap)}

\* The sockets below max_readers are those inserted and not deleted, each
\* once: fr_event_loop() looks no further.
ReadersAreWatched ==
    /\ \A s \in ReaderSlots : readers[s] # NoReader => s < max_readers
    /\ \A s, t \in ReaderSlots : readers[s] = readers[t] /\ readers[s] # NoReader => s = t

\* select() waits for the sockets that are watched, and a handler is called only
\* for one of them that was ready, not for another socket that got its number
\* while the loop was going on.
ReadyIsHandled ==
    /\ loop.pc = "run" /\ ~loop.changed => loop.master = Watched
    /\ loop.pc = "dispatch" /\ loop.i < max_readers /\ readers[loop.i] \in loop.ready =>
         readers[loop.i] \in loop.kept

\* How long fr_event_loop() waits in select() for an event due at t: seconds
\* and microseconds.
Wake(now, t) ==
    LET diff == (t \div EvUsec) - (now \div EvUsec)
        sec == IF diff > 0 THEN diff - 1 ELSE 0
        usec == (IF diff > 0 THEN (t % EvUsec) + EvUsec ELSE t % EvUsec) - (now % EvUsec)
    IN IF now >= t THEN <<0, 0>>
       ELSE IF usec >= EvUsec THEN <<sec + 1, usec - EvUsec>> ELSE <<sec, usec>>

\* select() sleeps exactly until the first event is due, with microseconds
\* in the range it accepts: never past it, and never in a busy loop before it,
\* in whatever part of a second the clock began to run.
WakesInTime ==
    heap # <<>> => \A began \in 0 .. EvUsec - 1 :
        LET now == began + ev_now
            due == began + when[heap[1]]
            w == Wake(now, due)
        IN /\ w[2] \in 0 .. EvUsec - 1
           /\ now < due => now + w[1] * EvUsec + w[2] = due

Abstract == INSTANCE Timers
    WITH Times <- 0 .. MaxTime, Never <- -1, clock <- ev_now, firing <- fired,
         due <- [o \in Owners |-> IF o \in ev THEN when[o] ELSE -1]

\* The heap of events implements the timers its users rely on.
ImplementsTimers == Abstract!Spec

\* The heap keeps its order and its places, and fr_event_loop() wakes in time and
\* calls the handlers of the sockets that are watched and ready, and no others.
LoopIsRight == EvTypeOK /\ HeapIsExact /\ WakesInTime /\ ReadersAreWatched /\ ReadyIsHandled

=============================================================================
