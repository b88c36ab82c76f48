----------------------------- MODULE NotifyHub -----------------------------
(***************************************************************************)
(* The live badge of one reader: the transactions that notify him, the hub *)
(* they publish to, the streams his page holds, and the badge on the page. *)
(*                                                                         *)
(* The hub only says "look again".  It says so before the transaction has  *)
(* committed, to a channel with room for one wake, on a stream that may    *)
(* have been cut; the count itself is always read from the table.          *)
(***************************************************************************)
EXTENDS Naturals, FiniteSets

CONSTANTS
    Notes,      \* notifications for this reader
    Streams,    \* connections to /notifications/stream
    None

ASSUME NotesAssumption == IsFiniteSet(Notes)
ASSUME NoneAssumption == None \notin Streams \cup Nat

VARIABLES
    notes,      \* how far each notification has come
    handler,    \* the stream handlers: "ended", or at select, or writing an event
    subs,       \* the channels in the hub's map
    full,       \* those with a wake in their buffer
    stream,     \* the connection the page has open, as far as the page knows
    badge,      \* the page's badge: count shown, request in flight
    due         \* per channel: published there and not yet received (history)

vars == <<notes, handler, subs, full, stream, badge, due>>

\* publishing: inserted, the hub not called yet; inserted: published, the
\* transaction still open.
NoteStates == {"none", "publishing", "inserted", "unread", "read", "gone"}

Unread == {n \in Notes : notes[n] = "unread"}

\* request: nothing in flight, the badge asked for, or the answer on its way.
\* again: something called for a refresh in the meantime (htmx queues one).
Badges == [shown: Nat \cup {None}, request: {"idle", "asked", "answered"},
           count: Nat, again: BOOLEAN]

\* Every page is delivered with a badge that asks for its content on load.
Init ==
    /\ notes = [n \in Notes |-> "none"]
    /\ handler = [c \in Streams |-> "ended"]
    /\ subs = {} /\ full = {}
    /\ stream = None
    /\ badge = [shown |-> None, request |-> "asked", count |-> 0, again |-> FALSE]
    /\ due = [c \in Streams |-> {}]

-----------------------------------------------------------------------------
\* A transaction that notifies the reader.

Becomes(n, from, to) == notes[n] = from /\ notes' = [notes EXCEPT ![n] = to]

Insert(n) ==
    /\ Becomes(n, "none", "publishing")
    /\ UNCHANGED <<handler, subs, full, stream, badge, due>>

\* Faulty: sends wait for room in the channel.
PublishBlocks(n) ==
    /\ Becomes(n, "publishing", "inserted")
    /\ subs \cap full = {}
    /\ full' = full \cup subs
    /\ due' = [c \in Streams |-> IF c \in subs THEN due[c] \cup {n} ELSE due[c]]
    /\ UNCHANGED <<handler, subs, stream, badge>>

\* Faulty: the channels have no buffer, so only a handler at its select is woken.
PublishUnbuffered(n) ==
    /\ Becomes(n, "publishing", "inserted")
    /\ full' = full \cup {c \in subs : handler[c] = "select"}
    /\ due' = [c \in Streams |-> IF c \in subs THEN due[c] \cup {n} ELSE due[c]]
    /\ UNCHANGED <<handler, subs, stream, badge>>

\* Hub.Publish: a wake for every channel that has room.
Publish(n) ==
    /\ Becomes(n, "publishing", "inserted")
    /\ full' = full \cup subs
    /\ due' = [c \in Streams |-> IF c \in subs THEN due[c] \cup {n} ELSE due[c]]
    /\ UNCHANGED <<handler, subs, stream, badge>>

\* The rest of WithTx.
EndTx(n) ==
    /\ \/ Becomes(n, "inserted", "unread")
       \/ Becomes(n, "inserted", "gone")
    /\ UNCHANGED <<handler, subs, full, stream, badge, due>>

-----------------------------------------------------------------------------
\* The stream and its handler.

\* EventSource connects, and connects again whenever it lost the connection.
Connect(c) ==
    /\ stream = None /\ handler[c] = "ended"
    /\ stream' = c
    /\ handler' = [handler EXCEPT ![c] = "select"]
    /\ subs' = subs \cup {c}
    /\ UNCHANGED <<notes, full, badge, due>>

\* The page loses the connection; the server does not know yet.
Cut ==
    /\ stream # None
    /\ stream' = None
    /\ UNCHANGED <<notes, handler, subs, full, badge, due>>

Receive(c) ==
    /\ handler[c] = "select" /\ c \in full
    /\ handler' = [handler EXCEPT ![c] = "writing"]
    /\ full' = full \ {c}
    /\ due' = [due EXCEPT ![c] = {}]
    /\ UNCHANGED <<notes, subs, stream, badge>>

\* Something calls for a refresh of the badge.
Refreshed(b) ==
    IF b.request = "idle" THEN [b EXCEPT !.request = "asked"] ELSE [b EXCEPT !.again = TRUE]

\* The event arrives and the page raises notificationsRead, unless nobody is
\* there any more.
Write(c) ==
    /\ handler[c] = "writing"
    /\ handler' = [handler EXCEPT ![c] = "select"]
    /\ badge' = IF stream = c THEN Refreshed(badge) ELSE badge
    /\ UNCHANGED <<notes, subs, full, stream, due>>

\* Faulty: the handler returns without unsubscribing.
LeaveSubscribed(c) ==
    /\ handler[c] = "select" /\ stream # c
    /\ handler' = [handler EXCEPT ![c] = "ended"]
    /\ UNCHANGED <<notes, subs, full, stream, badge, due>>

\* ctx.Done(): the handler unsubscribes, and its channel is garbage.
Leave(c) ==
    /\ handler[c] = "select" /\ stream # c
    /\ handler' = [handler EXCEPT ![c] = "ended"]
    /\ subs' = subs \ {c}
    /\ full' = full \ {c}
    /\ due' = [due EXCEPT ![c] = {}]
    /\ UNCHANGED <<notes, stream, badge>>

-----------------------------------------------------------------------------
\* The page.

\* On the notifications page: the answer carries HX-Trigger, which refreshes
\* the badge.
MarkRead(n) ==
    /\ Becomes(n, "unread", "read")
    /\ badge' = Refreshed(badge)
    /\ UNCHANGED <<handler, subs, full, stream, due>>

\* Through the JSON API, or on another page.
MarkReadElsewhere(n) ==
    /\ Becomes(n, "unread", "read")
    /\ UNCHANGED <<handler, subs, full, stream, badge, due>>

\* every 20s
Poll ==
    /\ badge' = Refreshed(badge)
    /\ UNCHANGED <<notes, handler, subs, full, stream, due>>

\* Faulty: counts the notifications that were read as well.
CountAll == Cardinality({n \in Notes : notes[n] \in {"unread", "read"}})

\* What handleNotificationBadgeFragment counts.
Count == Cardinality(Unread)

ReadBadge ==
    /\ badge.request = "asked"
    /\ badge' = [badge EXCEPT !.request = "answered", !.count = Count]
    /\ UNCHANGED <<notes, handler, subs, full, stream, due>>

\* The fragment replaces the badge by a new one, which asks on load as the
\* first one did; what was queued goes with the old one.
Swap ==
    /\ badge.request = "answered"
    /\ badge' = [shown |-> badge.count, request |-> "asked", count |-> 0, again |-> FALSE]
    /\ UNCHANGED <<notes, handler, subs, full, stream, due>>

\* An error or no answer at all: the badge stays, and so do its triggers.
RequestFails ==
    /\ badge.request # "idle"
    /\ badge' = [badge EXCEPT !.request = IF badge.again THEN "asked" ELSE "idle",
                              !.count = 0, !.again = FALSE]
    /\ UNCHANGED <<notes, handler, subs, full, stream, due>>

Next ==
    \/ \E n \in Notes :
        \/ Insert(n)
        \/ Publish(n)
        \/ EndTx(n)
        \/ MarkRead(n)
        \/ MarkReadElsewhere(n)
    \/ \E c \in Streams :
        \/ Connect(c)
        \/ Receive(c)
        \/ Write(c)
        \/ Leave(c)
    \/ Cut
    \/ Poll
    \/ ReadBadge
    \/ Swap
    \/ RequestFails

Spec == Init /\ [][Next]_vars

\* A transaction runs to its end, the timer fires, and requests are answered
\* in the end though some fail.  Of the streams nothing is assumed: a write to
\* a client that does not read may hang.
Progress ==
    /\ \A n \in Notes : WF_vars(Publish(n)) /\ WF_vars(EndTx(n))
    /\ SF_vars(ReadBadge)
    /\ SF_vars(Swap)

FairSpec == Spec /\ Progress /\ WF_vars(Poll)

\* As long as the timer may not have fired yet.
BetweenPolls == Spec /\ Progress

-----------------------------------------------------------------------------
\* Correctness.

\* The state; the channels in the hub are those of running handlers, so the
\* map neither leaks nor lacks one (Subscribe, unsubscribe and the defer).
TypeOK ==
    /\ notes \in [Notes -> NoteStates]
    /\ handler \in [Streams -> {"ended", "select", "writing"}]
    /\ subs = {c \in Streams : handler[c] # "ended"}
    /\ full \subseteq subs
    /\ stream \in subs \cup {None}
    /\ badge \in Badges
    /\ due \in [Streams -> SUBSET Notes]

\* A wake that was dropped is covered by one still in the buffer: whatever a
\* handler is doing when the hub publishes, it will look again afterwards
\* (hub.go: the buffer of one and the default of the select).
NoWakeLost == \A c \in subs : due[c] # {} => c \in full

\* No stream holds up the transaction that publishes to it.
TransactionsEnd ==
    \A n \in Notes : notes[n] = "publishing" ~> notes[n] \in {"unread", "read", "gone"}

\* In spite of wakes that come before the commit, go to a stream that was cut
\* or are lost with it, and of answers overtaken by later changes, the badge
\* ends up showing the number of unread notifications.
BadgeFresh == <>[](badge.shown = Cardinality(Unread))

\* Once nothing changes any more, the badge asks again only when the timer
\* fires (handleNotificationStream's comment: a poll every 20s, and the push).
RestsBetweenPolls ==
    <>[](badge.request = "idle") \/ []<><<Poll>>_vars
=============================================================================
