------------------------------ MODULE Messages ------------------------------
(***************************************************************************)
(* MessagesService: the threads of orders between a buyer and a provider,  *)
(* with the notification each message causes.                              *)
(*                                                                         *)
(* assertOrderParticipant, which opens every operation, reads columns that *)
(* never change; it decides who may act here, and is merged into the step  *)
(* that follows it.                                                        *)
(***************************************************************************)
EXTENDS Database, Notifications

CONSTANTS
    OrderIds,       \* the orders of these two users
    MessageIds      \* primary keys of the Message table; bounds a behaviour

ASSUME TwoParties == \E x, y \in Recipients : x # y /\ Recipients = {x, y}
ASSUME MessageNullAssumption == Null \notin Recipients \cup OrderIds

VARIABLES
    thread,     \* the Message table
    sending,    \* the sendMessage request of a message: where it is
    \* Observations, read by no action:
    opened      \* the messages a participant has seen: those in a thread when
                \* the participant marked it as read

messageVars == <<thread, sending, opened>>
vars == <<noteVars, messageVars>>

\* The two participants are the users there are.
Participants == Recipients

MessageRow == [sender: Participants \cup {Null}, order: OrderIds \cup {Null},
               readAt: BOOLEAN]

\* readAt: is the time set.
NoMessage == [sender |-> Null, order |-> Null, readAt |-> FALSE]

MessagesTypeOK ==
    /\ NotificationsTypeOK(MessageIds)
    /\ thread \in [MessageIds -> MessageRow]
    /\ sending \in [MessageIds -> {"idle", "persist", "enqueue", "done", "died"}]
    /\ opened \in [Participants -> SUBSET MessageIds]

MessagesInit ==
    /\ NotificationsInit
    /\ thread = [m \in MessageIds |-> NoMessage]
    /\ sending = [m \in MessageIds |-> "idle"]
    /\ opened = [x \in Participants |-> {}]

-----------------------------------------------------------------------------
Stored(m) == thread[m].sender # Null

SendGoTo(m, from, to) ==
    sending[m] = from /\ sending' = [sending EXCEPT ![m] = to]

AfterInsert == "persist"

\* Mutant: the row is stored and the job never queued.
AfterPersist_Done == "done"

AfterPersist == "enqueue"

InsertMessage(m, x, o) ==
    /\ ~Stored(m)
    /\ SendGoTo(m, "idle", AfterInsert)
    /\ thread' = [thread EXCEPT ![m] =
           [sender |-> x, order |-> o, readAt |-> FALSE]]
    /\ UNCHANGED <<noteVars, opened>>

\* Mutant: the sender is told.
RecipientOf_Sender(m) == thread[m].sender

\* The other party.
RecipientOf(m) == CHOOSE y \in Participants : y # thread[m].sender

Notice(m) == [user |-> RecipientOf(m), about |-> m]

PersistNotice(m) ==
    /\ SendGoTo(m, "persist", AfterPersist)
    /\ Persist(Notice(m))
    /\ UNCHANGED <<thread, opened>>

EnqueueNotice(m) ==
    /\ SendGoTo(m, "enqueue", "done")
    /\ Enqueue(Notice(m))
    /\ UNCHANGED <<thread, opened>>

SendFail(m) ==
    /\ CanFail
    /\ sending[m] \in {"persist", "enqueue"}
    /\ sending' = [sending EXCEPT ![m] = "died"]
    /\ UNCHANGED <<noteVars, thread, opened>>

\* Mutant: the caller's own messages, too.
Received_Own(x, o) == {m \in MessageIds : thread[m].order = o}

\* The messages of order o that participant x got.
Received(x, o) ==
    {m \in MessageIds : thread[m].order = o /\ thread[m].sender # x}

MarkThreadRead(x, o) ==
    /\ thread' = [m \in MessageIds |->
           [thread[m] EXCEPT !.readAt = @ \/ m \in Received(x, o)]]
    /\ opened' = [opened EXCEPT ![x] =
           @ \cup {m \in MessageIds : thread[m].order = o}]
    /\ UNCHANGED <<noteVars, sending>>

SendProceed(m) == PersistNotice(m) \/ EnqueueNotice(m)

MessagesNext ==
    \/ NotificationsNext /\ UNCHANGED messageVars
    \/ \E m \in MessageIds :
          \/ \E x \in Participants, o \in OrderIds : InsertMessage(m, x, o)
          \/ SendProceed(m)
          \/ SendFail(m)
    \/ \E x \in Participants, o \in OrderIds : MarkThreadRead(x, o)

MessagesSpec == MessagesInit /\ [][MessagesNext]_vars

\* The event loop gives every request its next answer; Bull hands a waiting
\* job to the processor.
MessagesFairness ==
    /\ \A m \in MessageIds : WF_vars(SendProceed(m))
    /\ WF_vars(HandleDeliver /\ UNCHANGED messageVars)

FairMessagesSpec == MessagesSpec /\ MessagesFairness

-----------------------------------------------------------------------------
\* A message counts as read only when the party it was sent to has opened the
\* thread of its order since, and the notification about it only when that
\* party marked it; its sender, and other threads, do not count.
ReadByItsReceiver ==
    /\ \A m \in MessageIds : thread[m].readAt => m \in opened[RecipientOf(m)]
    /\ ReadByItsUser

\* Who is told of a message, in the list or by delivery, is the one who did
\* not write it; by then the message is there, and what is delivered is listed.
NoticeTrue ==
    /\ \A n \in inbox : Stored(n.about) /\ n.user # thread[n.about].sender
    /\ DeliveredIsStored

\* A stored message reaches the other party: the notification is handed to
\* delivery, unless the request dies in between; nothing repeats it then.
MessageIsDelivered ==
    \A m \in MessageIds :
        Stored(m) ~> sending[m] = "died" \/ Notice(m) \in delivered
=============================================================================
