---------------------------- MODULE Notifications ----------------------------
(***************************************************************************)
(* NotificationsService and its processor, for the services that send      *)
(* notifications (Subscriptions, Messages).                                *)
(*                                                                         *)
(* send is two awaits: the row is stored, then a 'deliver' job is put on   *)
(* the queue.  A sender walks through both with a request of its own; the  *)
(* operators below are the two steps.  Rows with the same user, content    *)
(* and read flag are not told apart, nor are jobs with the same payload.   *)
(***************************************************************************)
CONSTANT Recipients     \* the users who may be notified

VARIABLES
    inbox,      \* the Notification table: [user, about, isRead]
    deliver,    \* payloads of the jobs on the notifications queue: [user, about]
    \* Observations, read by no action:
    delivered,  \* payloads the processor has handled
    looked      \* users who have marked something of theirs as read

noteVars == <<inbox, deliver, delivered, looked>>

Payload(About) == [user: Recipients, about: About]

NotificationsTypeOK(About) ==
    /\ inbox \subseteq [user: Recipients, about: About, isRead: BOOLEAN]
    /\ deliver \subseteq Payload(About)
    /\ delivered \subseteq Payload(About)
    /\ looked \subseteq Recipients

NotificationsInit ==
    inbox = {} /\ deliver = {} /\ delivered = {} /\ looked = {}

-----------------------------------------------------------------------------
Unread(p) == [user |-> p.user, about |-> p.about, isRead |-> FALSE]

\* send, first await: notification.create.
Persist(p) ==
    /\ inbox' = inbox \cup {Unread(p)}
    /\ UNCHANGED <<deliver, delivered, looked>>

\* send, second await: the job carries the payload, not only the id.
Enqueue(p) ==
    /\ deliver' = deliver \cup {p}
    /\ UNCHANGED <<inbox, delivered, looked>>

\* handleDeliver; the delivery itself is a stub that logs.
HandleDeliver ==
    \E p \in deliver :
        /\ deliver' = deliver \ {p}
        /\ delivered' = delivered \cup {p}
        /\ UNCHANGED <<inbox, looked>>

OwnedBy(u) == {n \in inbox : n.user = u}

MarkAs(S) == (inbox \ S) \cup {[n EXCEPT !.isRead = TRUE] : n \in S}

\* markRead, by user u, of row n: no effect unless the row is u's.
MarkRead(u, n) ==
    /\ n \in inbox
    /\ inbox' = MarkAs({n} \cap OwnedBy(u))
    /\ looked' = looked \cup {u}
    /\ UNCHANGED <<deliver, delivered>>

MarkAllRead(u) ==
    /\ inbox' = MarkAs(OwnedBy(u))
    /\ looked' = looked \cup {u}
    /\ UNCHANGED <<deliver, delivered>>

NotificationsNext ==
    \/ HandleDeliver
    \/ \E u \in Recipients :
          MarkAllRead(u) \/ \E n \in inbox : MarkRead(u, n)

-----------------------------------------------------------------------------
\* For those who send: what goes out to a user, or is about to, is in the
\* user's list, too.
DeliveredIsStored ==
    \A p \in deliver \cup delivered :
        \E n \in inbox : n.user = p.user /\ n.about = p.about

\* And a notification is unread until its own user marks it.
ReadByItsUser == \A n \in inbox : n.isRead => n.user \in looked
=============================================================================
