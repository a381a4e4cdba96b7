------------------------- MODULE NotificationOutbox -------------------------
(***************************************************************************)
(* The outbox of the notes to the accountability partner                   *)
(* (lib/data/services/notification_outbox.dart).  The queue lives in the   *)
(* preferences.  Every request enqueues a note and flushes the queue, and  *)
(* the dashboard's ticker flushes it every five seconds; no flush waits    *)
(* for another one.                                                        *)
(*                                                                         *)
(* Loading the queue, adding a note and saving it is one step: the         *)
(* preferences are in memory.  A flush loads the queue, posts the notes    *)
(* one after the other, and saves those that were not delivered over       *)
(* whatever the queue has become.                                          *)
(*                                                                         *)
(* Notes are numbered in the order in which they are enqueued.             *)
(***************************************************************************)
EXTENDS Naturals, Sequences

CONSTANTS
    MaxNotes,       \* bound of the model: notes that are enqueued
    MaxQueued,      \* _maxQueued
    Unusable,       \* notes to an address no connection can be opened to
    Flushes,        \* flushes that may be under way at the same time
    MaxLaunches     \* bound of the model: 1 + crashes

ASSUME BoundsAssumption == {MaxNotes, MaxQueued, MaxLaunches} \subseteq Nat \ {0}

VARIABLES
    queue,      \* notification_outbox_v1
    flushes,    \* of each flush: queued, what it has left of it, stillPending
    up,         \* the app runs
    launches,
    enqueued,   \* how many notes have been enqueued
    received,   \* history: notes the partner has got
    dropped,    \* history: notes that a full queue dropped
    raced       \* history: the queue changed under a flush

outside == <<up, launches>>
history == <<enqueued, received, dropped>>
vars == <<queue, flushes, outside, history, raced>>

NoteIds == 1..MaxNotes
Entries(s) == {s[i] : i \in DOMAIN s}

Idle == [stage |-> "idle", queued |-> <<>>, left |-> <<>>, stillPending |-> <<>>]
Sending(f) == flushes[f].stage = "sending"

Init ==
    /\ queue = <<>> /\ flushes = [f \in Flushes |-> Idle]
    /\ up = TRUE /\ launches = 1
    /\ enqueued = 0 /\ received = {} /\ dropped = {} /\ raced = FALSE

\* The queue becomes s; savers is the flush that saves it, or empty.
Save(s, savers) ==
    /\ queue' = s
    /\ raced' = (raced \/ (s # queue /\ \E f \in Flushes \ savers : Sending(f)))

\* The oldest notes make room.
Trimmed(s) ==
    IF Len(s) > MaxQueued THEN SubSeq(s, Len(s) - MaxQueued + 1, Len(s)) ELSE s

Enqueue ==
    LET longer == Append(queue, enqueued + 1) IN
    /\ up /\ enqueued < MaxNotes
    /\ enqueued' = enqueued + 1
    /\ Save(Trimmed(longer), {})
    /\ dropped' = dropped \cup (Entries(longer) \ Entries(Trimmed(longer)))
    /\ UNCHANGED <<flushes, outside, received>>

\* Broken variant, for the runs to reject: what is loaded is taken out.
BeginFlushTakes(f) ==
    /\ up /\ flushes[f] = Idle /\ queue # <<>>
    /\ flushes' = [flushes EXCEPT ![f] =
          [stage |-> "sending", queued |-> queue, left |-> queue, stillPending |-> <<>>]]
    /\ queue' = <<>>
    /\ UNCHANGED <<outside, history, raced>>

BeginFlush(f) ==
    /\ up /\ flushes[f] = Idle /\ queue # <<>>
    /\ flushes' = [flushes EXCEPT ![f] =
          [stage |-> "sending", queued |-> queue, left |-> queue, stillPending |-> <<>>]]
    /\ UNCHANGED <<queue, outside, history, raced>>

\* The post of the next note ends: with a 2xx answer, or not.
Posts(f, n) == Sending(f) /\ flushes[f].left # <<>> /\ n = Head(flushes[f].left)

Delivered(f, n) ==
    /\ Posts(f, n) /\ n \notin Unusable
    /\ received' = received \cup {n}
    /\ flushes' = [flushes EXCEPT ![f].left = Tail(@)]
    /\ UNCHANGED <<queue, outside, enqueued, dropped, raced>>

\* Broken variant, for the runs to reject: what was not delivered is forgotten.
NotDeliveredForgets(f, n) ==
    /\ Posts(f, n) /\ n \notin Unusable
    /\ flushes' = [flushes EXCEPT ![f].left = Tail(@)]
    /\ UNCHANGED <<queue, outside, history, raced>>

\* Another status, or an exception; the partner may have got the note.
NotDelivered(f, n) ==
    /\ Posts(f, n) /\ n \notin Unusable
    /\ received' \in {received, received \cup {n}}
    /\ flushes' = [flushes EXCEPT ![f].left = Tail(@), ![f].stillPending = Append(@, n)]
    /\ UNCHANGED <<queue, outside, enqueued, dropped, raced>>

\* What the client throws at an address without a host or with another scheme
\* is no Exception: it is not caught, and the flush ends without a save.
Throws(f, n) ==
    /\ Posts(f, n) /\ n \in Unusable
    /\ flushes' = [flushes EXCEPT ![f] = Idle]
    /\ UNCHANGED <<queue, outside, history, raced>>

\* Broken variant, for the runs to reject: what is left is put back at the end.
EndFlushAppends(f) ==
    /\ Sending(f) /\ flushes[f].left = <<>>
    /\ Save(queue \o flushes[f].stillPending, {f})
    /\ flushes' = [flushes EXCEPT ![f] = Idle]
    /\ UNCHANGED <<outside, history>>

EndFlush(f) ==
    /\ Sending(f) /\ flushes[f].left = <<>>
    /\ Save(flushes[f].stillPending, {f})
    /\ flushes' = [flushes EXCEPT ![f] = Idle]
    /\ UNCHANGED <<outside, history>>

Crash ==
    /\ up /\ launches < MaxLaunches
    /\ up' = FALSE
    /\ flushes' = [f \in Flushes |-> Idle]
    /\ UNCHANGED <<queue, launches, history, raced>>

Launch ==
    /\ ~up
    /\ up' = TRUE /\ launches' = launches + 1
    /\ UNCHANGED <<queue, flushes, history, raced>>

Flush(f) ==
    \/ BeginFlush(f) \/ EndFlush(f)
    \/ \E n \in NoteIds : Delivered(f, n) \/ NotDelivered(f, n) \/ Throws(f, n)

Next == Enqueue \/ Crash \/ Launch \/ \E f \in Flushes : Flush(f)

Spec == Init /\ [][Next]_vars

\* The ticker goes on, a post comes to an end, and a note that is posted again and
\* again is delivered at last.
Fairness ==
    /\ WF_vars(Launch)
    /\ \A f \in Flushes : WF_vars(Flush(f))
    /\ \A n \in NoteIds : SF_vars(\E f \in Flushes : Delivered(f, n))

FairSpec == Spec /\ Fairness

-----------------------------------------------------------------------------
(* Properties.                                                             *)

\* The type invariant.
TypeOK ==
    /\ queue \in Seq(NoteIds)
    /\ flushes \in [Flushes -> [stage : {"idle", "sending"}, queued : Seq(NoteIds),
                                left : Seq(NoteIds), stillPending : Seq(NoteIds)]]
    /\ up \in BOOLEAN /\ launches \in Nat
    /\ enqueued \in 0..MaxNotes
    /\ received \subseteq NoteIds /\ dropped \subseteq NoteIds
    /\ raced \in BOOLEAN

\* However flushes overwrite the queue under each other, it never holds a note
\* twice, keeps the order in which the notes were enqueued, so that a full queue
\* drops the oldest, and never outgrows its limit (enqueue, flush).
QueueInOrder ==
    /\ Len(queue) <= MaxQueued
    /\ \A i, j \in DOMAIN queue : i < j => queue[i] < queue[j]

\* A crash, an unreachable partner or an answer that is lost loses no note: as long
\* as the queue never changed under a flush, every note enqueued has been received
\* or dropped by a full queue, or still waits.
KeptUnlessRaced ==
    raced \/ 1..enqueued \subseteq Entries(queue) \cup received \cup dropped

\* And it gets through in the end, if no note to an unusable address stands before
\* it; behind one it waits until a full queue has dropped that one.
NoneUnusableUpTo(n) ==
    \E i \in DOMAIN queue : queue[i] = n /\ \A j \in 1..i : queue[j] \notin Unusable
ArrivesUnlessRaced ==
    \A n \in NoteIds : NoneUnusableUpTo(n) ~> raced \/ n \in received \cup dropped

=============================================================================
