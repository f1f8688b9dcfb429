---------------------------- MODULE NoticesProofs ----------------------------
(***************************************************************************)
(* The services whose work must come to an end: messages with their        *)
(* notifications, and subscriptions, for every set of messages, orders,    *)
(* users and slots and every term; and what of these and of the contract   *)
(* drafts carries over to the instance that composes the three.            *)
(***************************************************************************)
EXTENDS MCNotices, GroqCallersProofs

-----------------------------------------------------------------------------
(***************************************************************************)
(* Messages: types                                                         *)
(***************************************************************************)
\* Whoever sends, the recipient is the other one of the two.
LEMMA OtherParty ==
  ASSUME NEW x \in Participants \cup {Null},
         NEW y, y = (CHOOSE z \in Participants : z # x)
  PROVE  y \in Participants /\ y # x
<1>1. \E z \in Participants : z # x
  BY TwoParties DEF Participants
<1> QED
  BY <1>1

LEMMA RecipientTyped ==
  ASSUME MessagesTypeOK, NEW m \in MessageIds
  PROVE  /\ RecipientOf(m) \in Participants
         /\ RecipientOf(m) # thread[m].sender
         /\ Notice(m) \in Payload(MessageIds)
<1>1. thread[m].sender \in Participants \cup {Null}
  BY DEF MessagesTypeOK, MessageRow
<1>2. RecipientOf(m) \in Participants /\ RecipientOf(m) # thread[m].sender
  BY <1>1, OtherParty DEF RecipientOf
<1> QED
  BY <1>2 DEF Notice, Payload, Participants

LEMMA SendGoToTyped ==
  ASSUME MessagesTypeOK, NEW m \in MessageIds, NEW from,
         NEW to \in {"idle", "persist", "enqueue", "done", "died"},
         SendGoTo(m, from, to)
  PROVE  /\ sending' \in [MessageIds -> {"idle", "persist", "enqueue", "done", "died"}]
         /\ \A k \in MessageIds : sending'[k] = IF k = m THEN to ELSE sending[k]
  BY DEF SendGoTo, MessagesTypeOK

LEMMA NotificationStepTyped ==
  ASSUME MessagesTypeOK, NotificationsNext, UNCHANGED messageVars
  PROVE  MessagesTypeOK'
<1>1. UNCHANGED <<thread, sending, opened>>
  BY DEF messageVars
<1>2. /\ inbox \subseteq [user: Recipients, about: MessageIds, isRead: BOOLEAN]
      /\ deliver \subseteq Payload(MessageIds) /\ delivered \subseteq Payload(MessageIds)
      /\ looked \subseteq Recipients
  BY DEF MessagesTypeOK, NotificationsTypeOK
<1>3. \A S \in SUBSET inbox :
          MarkAs(S) \subseteq [user: Recipients, about: MessageIds, isRead: BOOLEAN]
  BY <1>2 DEF MarkAs
<1>4. CASE HandleDeliver
  <2>1. deliver' \subseteq Payload(MessageIds) /\ delivered' \subseteq Payload(MessageIds)
    BY <1>2, <1>4 DEF HandleDeliver
  <2> QED
    BY <1>1, <1>2, <1>4, <2>1 DEF HandleDeliver, MessagesTypeOK, NotificationsTypeOK
<1>5. ASSUME NEW u \in Recipients, MarkAllRead(u)
      PROVE  MessagesTypeOK'
  <2>1. OwnedBy(u) \in SUBSET inbox /\ looked' \subseteq Recipients
    BY <1>2, <1>5 DEF OwnedBy, MarkAllRead
  <2> QED
    BY <1>1, <1>2, <1>3, <1>5, <2>1 DEF MarkAllRead, MessagesTypeOK, NotificationsTypeOK
<1>6. ASSUME NEW u \in Recipients, NEW n \in inbox, MarkRead(u, n)
      PROVE  MessagesTypeOK'
  <2>1. {n} \cap OwnedBy(u) \in SUBSET inbox /\ looked' \subseteq Recipients
    BY <1>2, <1>6 DEF OwnedBy, MarkRead
  <2> QED
    BY <1>1, <1>2, <1>3, <1>6, <2>1 DEF MarkRead, MessagesTypeOK, NotificationsTypeOK
<1> QED
  BY <1>4, <1>5, <1>6 DEF NotificationsNext

LEMMA MessagesStepTyped ==
  ASSUME MessagesTypeOK, [MessagesNext]_vars
  PROVE  MessagesTypeOK'
<1>1. CASE NotificationsNext /\ UNCHANGED messageVars
  BY <1>1, NotificationStepTyped
<1>2. ASSUME NEW m \in MessageIds, NEW x \in Participants, NEW o \in OrderIds,
             InsertMessage(m, x, o)
      PROVE  MessagesTypeOK'
  <2>1. [sender |-> x, order |-> o, readAt |-> FALSE] \in MessageRow
    BY DEF MessageRow
  <2> QED
    BY <1>2, <2>1, SendGoToTyped
       DEF InsertMessage, AfterInsert, noteVars, MessagesTypeOK, NotificationsTypeOK
<1>3. ASSUME NEW m \in MessageIds, PersistNotice(m)
      PROVE  MessagesTypeOK'
  <2>1. Unread(Notice(m)) \in [user: Recipients, about: MessageIds, isRead: BOOLEAN]
    BY RecipientTyped DEF Unread, Notice, Participants
  <2> QED
    BY <1>3, <2>1, SendGoToTyped
       DEF PersistNotice, AfterPersist, Persist, MessagesTypeOK, NotificationsTypeOK
<1>4. ASSUME NEW m \in MessageIds, EnqueueNotice(m)
      PROVE  MessagesTypeOK'
  BY <1>4, RecipientTyped, SendGoToTyped
     DEF EnqueueNotice, Enqueue, MessagesTypeOK, NotificationsTypeOK
<1>5. ASSUME NEW m \in MessageIds, SendFail(m)
      PROVE  MessagesTypeOK'
  BY <1>5 DEF SendFail, noteVars, MessagesTypeOK, NotificationsTypeOK
<1>6. ASSUME NEW x \in Participants, NEW o \in OrderIds, MarkThreadRead(x, o)
      PROVE  MessagesTypeOK'
  <2>1. \A m \in MessageIds :
            [thread[m] EXCEPT !.readAt = @ \/ m \in Received(x, o)] \in MessageRow
    BY DEF MessagesTypeOK, MessageRow
  <2>2. thread' \in [MessageIds -> MessageRow]
    BY <1>6, <2>1 DEF MarkThreadRead
  <2>3. opened' \in [Participants -> SUBSET MessageIds]
    BY <1>6 DEF MarkThreadRead, MessagesTypeOK
  <2> QED
    BY <1>6, <2>2, <2>3 DEF MarkThreadRead, noteVars, MessagesTypeOK, NotificationsTypeOK
<1>7. CASE UNCHANGED vars
  BY <1>7 DEF vars, noteVars, messageVars, MessagesTypeOK, NotificationsTypeOK
<1> QED
  BY <1>1, <1>2, <1>3, <1>4, <1>5, <1>6, <1>7 DEF MessagesNext, SendProceed

LEMMA MessagesBegin ==
  ASSUME MessagesInit
  PROVE  MessagesTypeOK
<1>1. NoMessage \in MessageRow
  BY DEF NoMessage, MessageRow
<1> QED
  BY <1>1 DEF MessagesInit, NotificationsInit, MessagesTypeOK, NotificationsTypeOK

\* Every reachable state of messages and notifications is well typed.
THEOREM MessagesTypeCorrect == MessagesSpec => []MessagesTypeOK
<1>1. MessagesInit => MessagesTypeOK
  BY MessagesBegin
<1>2. MessagesTypeOK /\ [MessagesNext]_vars => MessagesTypeOK'
  BY MessagesStepTyped
<1> QED
  BY <1>1, <1>2, PTL DEF MessagesSpec

-----------------------------------------------------------------------------
(***************************************************************************)
(* Reading and telling                                                     *)
(***************************************************************************)
\* Is p in the list of the user it goes to.
Listed(p) == \E n \in inbox : n.user = p.user /\ n.about = p.about

\* A row that is not stored is empty; a request in flight is about a stored
\* message and, when it comes to the job, about a listed notification; and the
\* two properties.
Correspondence ==
    /\ \A m \in MessageIds :
          /\ ~Stored(m) => thread[m] = NoMessage
          /\ sending[m] # "idle" => Stored(m)
          /\ sending[m] = "enqueue" => Listed(Notice(m))
    /\ ReadByItsReceiver
    /\ NoticeTrue

\* The notifications alone: marking rows as read keeps what they are about.
LEMMA MarkAsKeeps ==
  ASSUME NEW S \in SUBSET inbox, MessagesTypeOK, inbox' = MarkAs(S)
  PROVE  /\ \A n \in inbox' : \E k \in inbox :
                /\ n.user = k.user /\ n.about = k.about
                /\ n.isRead => k.isRead \/ k \in S
         /\ \A k \in inbox : \E n \in inbox' : n.user = k.user /\ n.about = k.about
<1>1. \A n \in inbox : n = [user |-> n.user, about |-> n.about, isRead |-> n.isRead]
  BY DEF MessagesTypeOK, NotificationsTypeOK
<1> DEFINE read(n) == [n EXCEPT !.isRead = TRUE]
<1>2. \A n \in inbox : read(n).user = n.user /\ read(n).about = n.about
  BY <1>1
<1> HIDE DEF read
<1>3. inbox' = (inbox \ S) \cup {read(n) : n \in S}
  BY DEF MarkAs, read
<1>4. ASSUME NEW n \in inbox'
      PROVE  \E k \in inbox : /\ n.user = k.user /\ n.about = k.about
                              /\ n.isRead => k.isRead \/ k \in S
  <2>1. CASE n \in inbox \ S
    BY <2>1
  <2>2. CASE \E k \in S : n = read(k)
    BY <1>2, <2>2
  <2> QED
    BY <1>3, <1>4, <2>1, <2>2
<1>5. ASSUME NEW k \in inbox
      PROVE  \E n \in inbox' : n.user = k.user /\ n.about = k.about
  <2>1. CASE k \in S
    BY <1>2, <1>3, <2>1
  <2>2. CASE k \notin S
    BY <1>3, <2>2
  <2> QED
    BY <2>1, <2>2
<1> QED
  BY <1>4, <1>5

LEMMA NotificationStepCorresponds ==
  ASSUME MessagesTypeOK, Correspondence, NotificationsNext, UNCHANGED messageVars
  PROVE  Correspondence'
<1>1. UNCHANGED <<thread, sending, opened>>
  BY DEF messageVars
<1>2. \A m \in MessageIds :
          /\ Stored(m)' <=> Stored(m)
          /\ RecipientOf(m)' = RecipientOf(m)
          /\ Notice(m)' = Notice(m)
  BY <1>1 DEF Stored, RecipientOf, Notice
<1>3. /\ \A m \in MessageIds :
            /\ ~Stored(m)' => thread'[m] = NoMessage
            /\ sending'[m] # "idle" => Stored(m)'
      /\ \A m \in MessageIds : thread'[m].readAt => m \in opened'[RecipientOf(m)']
  BY <1>1, <1>2 DEF Correspondence, ReadByItsReceiver
<1>4. CASE HandleDeliver
  <2>1. inbox' = inbox /\ looked' = looked
    BY <1>4 DEF HandleDeliver
  <2>2. deliver' \cup delivered' \subseteq deliver \cup delivered
    BY <1>4 DEF HandleDeliver
  <2>3. \A m \in MessageIds : sending'[m] = "enqueue" => Listed(Notice(m))'
    BY <1>1, <1>2, <2>1 DEF Correspondence, Listed
  <2>4. ReadByItsReceiver'
    BY <1>3, <2>1 DEF Correspondence, ReadByItsReceiver, ReadByItsUser
  <2>5. NoticeTrue'
    BY <1>1, <2>1, <2>2 DEF Correspondence, NoticeTrue, DeliveredIsStored, Stored
  <2> QED
    BY <1>3, <2>3, <2>4, <2>5 DEF Correspondence
<1>5. ASSUME NEW u \in Recipients, NEW S \in SUBSET OwnedBy(u),
             inbox' = MarkAs(S), looked' = looked \cup {u},
             UNCHANGED <<deliver, delivered>>
      PROVE  Correspondence'
  <2>0. S \in SUBSET inbox
    BY DEF OwnedBy
  <2>1. /\ \A n \in inbox' : \E k \in inbox :
              /\ n.user = k.user /\ n.about = k.about
              /\ n.isRead => k.isRead \/ k \in S
        /\ \A k \in inbox : \E n \in inbox' : n.user = k.user /\ n.about = k.about
    BY <1>5, <2>0, MarkAsKeeps
  <2>2. \A k \in S : k.user = u
    BY DEF OwnedBy
  <2>3. \A m \in MessageIds : sending'[m] = "enqueue" => Listed(Notice(m))'
    <3> SUFFICES ASSUME NEW m \in MessageIds, sending[m] = "enqueue"
                 PROVE  Listed(Notice(m))'
      BY <1>1
    <3>1. PICK k \in inbox : k.user = Notice(m).user /\ k.about = Notice(m).about
      BY DEF Correspondence, Listed
    <3> QED
      BY <1>2, <2>1, <3>1 DEF Listed
  <2>4. ReadByItsReceiver'
    BY <1>3, <1>5, <2>1, <2>2 DEF Correspondence, ReadByItsReceiver, ReadByItsUser
  <2>5. NoticeTrue'
    <3>1. \A n \in inbox' : Stored(n.about)' /\ n.user # thread'[n.about].sender
      BY <1>1, <2>1 DEF Correspondence, NoticeTrue, Stored
    <3>2. ASSUME NEW p \in deliver' \cup delivered'
          PROVE  \E n \in inbox' : n.user = p.user /\ n.about = p.about
      <4>1. PICK k \in inbox : k.user = p.user /\ k.about = p.about
        BY <1>5 DEF Correspondence, NoticeTrue, DeliveredIsStored
      <4> QED
        BY <2>1, <4>1
    <3> QED
      BY <3>1, <3>2 DEF NoticeTrue, DeliveredIsStored
  <2> QED
    BY <1>3, <2>3, <2>4, <2>5 DEF Correspondence
<1>6. ASSUME NEW u \in Recipients, MarkAllRead(u)
      PROVE  Correspondence'
  BY <1>5, <1>6 DEF MarkAllRead
<1>7. ASSUME NEW u \in Recipients, NEW n \in inbox, MarkRead(u, n)
      PROVE  Correspondence'
  <2>1. {n} \cap OwnedBy(u) \in SUBSET OwnedBy(u)
    OBVIOUS
  <2> QED
    BY <1>5, <1>7, <2>1 DEF MarkRead
<1> QED
  BY <1>4, <1>6, <1>7 DEF NotificationsNext

\* A message is inserted: nothing was about it before.
LEMMA InsertCorresponds ==
  ASSUME MessagesTypeOK, Correspondence, NEW m \in MessageIds,
         NEW x \in Participants, NEW o \in OrderIds, InsertMessage(m, x, o)
  PROVE  Correspondence'
<1>1. /\ \A k \in MessageIds : sending'[k] = IF k = m THEN "persist" ELSE sending[k]
      /\ UNCHANGED <<inbox, deliver, delivered, looked, opened>>
  BY SendGoToTyped DEF InsertMessage, AfterInsert, noteVars
<1>2. \A k \in MessageIds :
          thread'[k] = IF k = m THEN [sender |-> x, order |-> o, readAt |-> FALSE]
                       ELSE thread[k]
  BY DEF InsertMessage, MessagesTypeOK
<1>3. ~Stored(m) /\ Stored(m)'
  BY <1>2, MessageNullAssumption DEF InsertMessage, Stored, Participants
<1>4. \A k \in MessageIds \ {m} :
          /\ Stored(k)' <=> Stored(k)
          /\ RecipientOf(k)' = RecipientOf(k)
          /\ Notice(k)' = Notice(k)
  BY <1>2 DEF Stored, RecipientOf, Notice
<1>5. \A n \in inbox : n.about \in MessageIds /\ n.about # m
  BY <1>3 DEF Correspondence, NoticeTrue, MessagesTypeOK, NotificationsTypeOK
<1>6. \A k \in MessageIds : sending'[k] = "enqueue" => Listed(Notice(k))'
  BY <1>1, <1>4 DEF Correspondence, Listed
<1>7. ReadByItsReceiver'
  <2>1. \A k \in MessageIds : thread'[k].readAt => k \in opened'[RecipientOf(k)']
    BY <1>1, <1>2, <1>4 DEF Correspondence, ReadByItsReceiver
  <2> QED
    BY <1>1, <2>1 DEF Correspondence, ReadByItsReceiver, ReadByItsUser
<1>8. NoticeTrue'
  BY <1>1, <1>2, <1>4, <1>5 DEF Correspondence, NoticeTrue, DeliveredIsStored, Stored
<1> QED
  BY <1>1, <1>2, <1>3, <1>4, <1>6, <1>7, <1>8 DEF Correspondence

\* The steps of send: the thread is left alone.
LEMMA SendCorresponds ==
  ASSUME MessagesTypeOK, Correspondence, NEW m \in MessageIds,
         SendProceed(m) \/ SendFail(m)
  PROVE  Correspondence'
<1>1. UNCHANGED <<thread, opened, looked>>
  BY DEF SendProceed, PersistNotice, EnqueueNotice, SendFail, Persist, Enqueue, noteVars
<1>2. \A k \in MessageIds :
          /\ Stored(k)' <=> Stored(k)
          /\ RecipientOf(k)' = RecipientOf(k)
          /\ Notice(k)' = Notice(k)
  BY <1>1 DEF Stored, RecipientOf, Notice
<1>3. Stored(m) /\ \A k \in MessageIds \ {m} : sending'[k] = sending[k]
  BY DEF Correspondence, SendProceed, PersistNotice, EnqueueNotice, SendFail, SendGoTo,
         MessagesTypeOK
<1>4. inbox' = inbox \cup {Unread(Notice(m))} \/ inbox' = inbox
  BY DEF SendProceed, PersistNotice, EnqueueNotice, SendFail, Persist, Enqueue, noteVars
<1>5. sending'[m] = "enqueue" => Listed(Notice(m))'
  <2>1. CASE PersistNotice(m)
    <3>1. Unread(Notice(m)) \in inbox'
      BY <2>1 DEF PersistNotice, Persist
    <3> QED
      BY <1>2, <3>1 DEF Listed, Unread
  <2>2. CASE EnqueueNotice(m) \/ SendFail(m)
    BY <2>2 DEF EnqueueNotice, SendFail, SendGoTo, MessagesTypeOK
  <2> QED
    BY <2>1, <2>2 DEF SendProceed
<1>6. \A k \in MessageIds :
          /\ ~Stored(k)' => thread'[k] = NoMessage
          /\ sending'[k] # "idle" => Stored(k)'
          /\ sending'[k] = "enqueue" => Listed(Notice(k))'
  BY <1>1, <1>2, <1>3, <1>4, <1>5 DEF Correspondence, Listed
<1>7. ReadByItsReceiver'
  BY <1>1, <1>2, <1>4 DEF Correspondence, ReadByItsReceiver, ReadByItsUser, Unread
<1>8. NoticeTrue'
  <2>1. Notice(m).user # thread[m].sender /\ Notice(m).about = m
    BY RecipientTyped DEF Notice
  <2>2. \A n \in inbox' : Stored(n.about)' /\ n.user # thread'[n.about].sender
    BY <1>1, <1>3, <1>4, <2>1 DEF Correspondence, NoticeTrue, Unread, Stored
  <2>3. \A p \in deliver' \cup delivered' :
            p \in deliver \cup delivered \/ (p = Notice(m) /\ Listed(Notice(m)))
    BY DEF SendProceed, PersistNotice, EnqueueNotice, SendFail, Persist, Enqueue,
           noteVars, SendGoTo, Correspondence
  <2> QED
    BY <1>4, <2>2, <2>3 DEF Correspondence, NoticeTrue, DeliveredIsStored, Listed
<1> QED
  BY <1>6, <1>7, <1>8 DEF Correspondence

\* A thread is marked: what its reader received is the reader's to read.
LEMMA MarkThreadCorresponds ==
  ASSUME MessagesTypeOK, Correspondence, NEW x \in Participants, NEW o \in OrderIds,
         MarkThreadRead(x, o)
  PROVE  Correspondence'
<1>1. UNCHANGED <<inbox, deliver, delivered, looked, sending>>
  BY DEF MarkThreadRead, noteVars
<1>2. \A m \in MessageIds :
          /\ thread'[m].sender = thread[m].sender
          /\ thread'[m].readAt <=> thread[m].readAt \/ m \in Received(x, o)
          /\ m \notin Received(x, o) => thread'[m] = thread[m]
  BY DEF MarkThreadRead, MessagesTypeOK, MessageRow
<1>3. \A m \in MessageIds :
          /\ Stored(m)' <=> Stored(m)
          /\ RecipientOf(m)' = RecipientOf(m)
          /\ Notice(m)' = Notice(m)
  BY <1>2 DEF Stored, RecipientOf, Notice
<1>4. ASSUME NEW m \in Received(x, o)
      PROVE  m \in MessageIds /\ Stored(m) /\ RecipientOf(m) = x /\ m \in opened'[x]
  <2>1. m \in MessageIds /\ thread[m].order = o /\ thread[m].sender # x
    BY DEF Received
  <2>2. Stored(m)
    BY <2>1, MessageNullAssumption DEF Correspondence, NoMessage
  <2>3. thread[m].sender \in Participants
    BY <2>1, <2>2 DEF Stored, MessagesTypeOK, MessageRow
  <2>4. RecipientOf(m) = x
    BY <2>1, <2>3, RecipientTyped, TwoParties DEF Participants
  <2>5. m \in opened'[x]
    BY <2>1 DEF MarkThreadRead, MessagesTypeOK
  <2> QED
    BY <2>1, <2>2, <2>4, <2>5
<1>5. \A y \in Participants : opened[y] \subseteq opened'[y]
  BY DEF MarkThreadRead, MessagesTypeOK
<1>6. ReadByItsReceiver'
  <2>1. \A m \in MessageIds : thread'[m].readAt => m \in opened'[RecipientOf(m)']
    BY <1>2, <1>3, <1>4, <1>5, RecipientTyped DEF Correspondence, ReadByItsReceiver
  <2> QED
    BY <1>1, <2>1 DEF Correspondence, ReadByItsReceiver, ReadByItsUser
<1>7. NoticeTrue'
  <2>1. \A n \in inbox : n.about \in MessageIds
    BY DEF MessagesTypeOK, NotificationsTypeOK
  <2> QED
    BY <1>1, <1>2, <2>1 DEF Correspondence, NoticeTrue, DeliveredIsStored, Stored
<1>8. \A m \in MessageIds :
          /\ ~Stored(m)' => thread'[m] = NoMessage
          /\ sending'[m] # "idle" => Stored(m)'
          /\ sending'[m] = "enqueue" => Listed(Notice(m))'
  BY <1>1, <1>2, <1>3, <1>4 DEF Correspondence, Listed
<1> QED
  BY <1>6, <1>7, <1>8 DEF Correspondence

LEMMA MessagesStepCorresponds ==
  ASSUME MessagesTypeOK, Correspondence, [MessagesNext]_vars
  PROVE  Correspondence'
<1>1. CASE UNCHANGED vars
  <2>1. UNCHANGED <<thread, sending, opened, inbox, deliver, delivered, looked>>
    BY <1>1 DEF vars, noteVars, messageVars
  <2> QED
    BY <2>1 DEF Correspondence, Stored, Listed, Notice, RecipientOf, ReadByItsReceiver,
                ReadByItsUser, NoticeTrue, DeliveredIsStored
<1> QED
  BY <1>1, NotificationStepCorresponds, InsertCorresponds, SendCorresponds,
     MarkThreadCorresponds DEF MessagesNext

\* Correspondence is inductive, given the types.
LEMMA MessagesInvariant == MessagesSpec => []Correspondence
<1>1. MessagesInit => Correspondence
  BY DEF MessagesInit, NotificationsInit, NoMessage, Correspondence, Stored,
         ReadByItsReceiver, ReadByItsUser, NoticeTrue, DeliveredIsStored
<1>2. MessagesTypeOK /\ Correspondence /\ [MessagesNext]_vars => Correspondence'
  BY MessagesStepCorresponds
<1> QED
  BY <1>1, <1>2, MessagesTypeCorrect, PTL DEF MessagesSpec

\* A message counts as read only when its receiver has opened the thread of its
\* order, a notification only when its user marked it: nobody reads for another,
\* and no thread for another.
THEOREM OnlyReceiversRead == MessagesSpec => []ReadByItsReceiver
<1>1. Correspondence => ReadByItsReceiver
  BY DEF Correspondence
<1> QED
  BY <1>1, MessagesInvariant, PTL

\* The notices are about stored messages and go to the party that did not
\* write them; nothing is delivered that is not listed.
THEOREM NoticesTrue == MessagesSpec => []NoticeTrue
<1>1. Correspondence => NoticeTrue
  BY DEF Correspondence
<1> QED
  BY <1>1, MessagesInvariant, PTL

-----------------------------------------------------------------------------
(***************************************************************************)
(* Subscriptions: types                                                    *)
(***************************************************************************)
\* The operation of a request gives its type.
LEMMA SubscriberTyped ==
  ASSUME SubscriptionsTypeOK, NEW r \in Requests
  PROVE  LET q == subReq[r]
         IN  /\ q.op \in {"update", "create"} => q.user \in Users /\ q.daysLeft \in DaysLeft
             /\ q.op = "cancel" => q.user \in Users
             /\ q.op \in {"update", "create", "cancel", "idle"}
<1>1. subReq[r] \in SubRequest
  BY DEF SubscriptionsTypeOK
<1> QED
  BY <1>1 DEF SubRequest, Idle

LEMMA DaysTyped ==
  /\ Term \in DaysLeft /\ 0 \in DaysLeft
  /\ \A d \in DaysLeft : OneLess(d) \in DaysLeft
  BY TermAssumption DEF DaysLeft, OneLess

LEMMA FinishTyped ==
  ASSUME SubscriptionsTypeOK, NEW r \in Requests, NEW row \in SubscriptionRow,
         subReq[r].user \in Users, Finish(r, row)
  PROVE  SubscriptionsTypeOK'
<1>1. Idle \in SubRequest
  BY DEF SubRequest
<1> QED
  BY <1>1 DEF Finish, SubscriptionsTypeOK

LEMMA RequestStepTyped ==
  ASSUME SubscriptionsTypeOK, NEW r \in Requests,
         \/ \E u \in Users : ReadForSubscribe(r, u) \/ ReadForCancel(r, u)
         \/ RequestProceed(r)
         \/ SubFail(r)
  PROVE  SubscriptionsTypeOK'
<1>0. Idle \in SubRequest
  BY DEF SubRequest
<1>1. ASSUME NEW u \in Users, ReadForSubscribe(r, u)
      PROVE  SubscriptionsTypeOK'
  <2> DEFINE q == [op |-> IF subs[u].status = Null THEN "create" ELSE "update",
                   user |-> u, daysLeft |-> Term]
  <2>1. q \in SubRequest
    BY DaysTyped DEF SubRequest
  <2> QED
    BY <1>1, <2>1 DEF ReadForSubscribe, Begin, SubscriptionsTypeOK
<1>2. ASSUME NEW u \in Users, ReadForCancel(r, u)
      PROVE  SubscriptionsTypeOK'
  <2>1. [op |-> "cancel", user |-> u] \in SubRequest
    BY DEF SubRequest
  <2> QED
    BY <1>2, <2>1 DEF ReadForCancel, Begin, SubscriptionsTypeOK
<1>3. ASSUME WriteSubscription(r)
      PROVE  SubscriptionsTypeOK'
  <2>1. subReq[r].user \in Users /\ subReq[r].daysLeft \in DaysLeft
    BY <1>3, SubscriberTyped DEF WriteSubscription
  <2>2. Subscribed(subReq[r]) \in SubscriptionRow
    BY <2>1 DEF Subscribed, SubscriptionRow
  <2> QED
    BY <1>3, <2>1, <2>2, FinishTyped DEF WriteSubscription
<1>4. ASSUME WriteCancellation(r)
      PROVE  SubscriptionsTypeOK'
  <2>1. subReq[r].user \in Users
    BY <1>4, SubscriberTyped DEF WriteCancellation
  <2>2. [subs[subReq[r].user] EXCEPT !.status = "CANCELLED", !.cancelledAt = TRUE]
            \in SubscriptionRow
    BY <2>1 DEF SubscriptionsTypeOK, SubscriptionRow
  <2> QED
    BY <1>4, <2>1, <2>2, FinishTyped DEF WriteCancellation
<1>5. ASSUME InsertRefused(r) \/ SubFail(r)
      PROVE  SubscriptionsTypeOK'
  BY <1>0, <1>5 DEF InsertRefused, SubFail, SubscriptionsTypeOK
<1> QED
  BY <1>1, <1>2, <1>3, <1>4, <1>5 DEF RequestProceed

LEMMA AwaitedTyped ==
  ASSUME SubscriptionsTypeOK, NEW u \in Users, NEW step, Awaited(step, u)
  PROVE  subs' \in [Users -> SubscriptionRow]
  BY DEF Awaited, SubscriptionsTypeOK, SubscriptionRow

\* Between two steps of a round the job has a row in hand.
InHand == job.step # 0 => job.cur \in Users

LEMMA JobStepTyped ==
  ASSUME SubscriptionsTypeOK, InHand,
         \/ Midnight
         \/ StartJob
         \/ \E u \in Users : NextRow(u)
         \/ NextStep
         \/ JobFail
  PROVE  SubscriptionsTypeOK' /\ InHand'
<1>0. NotRunning \in JobRun
  BY DEF NotRunning, JobRun
<1>1. CASE Midnight
  <2>1. subs' \in [Users -> SubscriptionRow]
    BY <1>1, DaysTyped DEF Midnight, SubscriptionsTypeOK, SubscriptionRow
  <2>2. ASSUME NEW r \in Requests
        PROVE  subReq'[r] \in SubRequest
    <3>1. subReq'[r] = IF subReq[r].op \in {"update", "create"}
                       THEN [subReq[r] EXCEPT !.daysLeft = OneLess(@)] ELSE subReq[r]
      BY <1>1 DEF Midnight
    <3>2. subReq[r] \in SubRequest
      BY DEF SubscriptionsTypeOK
    <3>3. CASE subReq[r] \in [op: {"update", "create"}, user: Users, daysLeft: DaysLeft]
      BY <3>1, <3>3, DaysTyped DEF SubRequest
    <3>4. CASE subReq[r].op \notin {"update", "create"}
      BY <3>1, <3>2, <3>4
    <3> QED
      BY <3>2, <3>3, <3>4 DEF SubRequest, Idle
  <2>3. subReq' \in [Requests -> SubRequest]
    BY <1>1, <2>2 DEF Midnight
  <2> QED
    BY <1>1, <2>1, <2>3 DEF Midnight, SubscriptionsTypeOK, InHand
<1>2. CASE StartJob
  <2> DEFINE listed == {u \in Users : Lapsed(subs[u])}
  <2>1. job' = [running |-> listed # {}, list |-> listed, cur |-> Null, step |-> 0]
    BY <1>2 DEF StartJob, NotRunning
  <2>2. (listed # {}) \in BOOLEAN /\ listed \subseteq Users
    OBVIOUS
  <2> HIDE DEF listed
  <2>3. job' \in JobRun /\ job'.step = 0
    BY <2>1, <2>2 DEF JobRun
  <2> QED
    BY <1>2, <2>3 DEF StartJob, SubscriptionsTypeOK, InHand
<1>3. ASSUME NEW u \in Users, NextRow(u)
      PROVE  SubscriptionsTypeOK' /\ InHand'
  <2> DEFINE rest == job.list \ {u}
  <2>1. job' = [running |-> job.running, list |-> rest, cur |-> u, step |-> 1]
    BY <1>3 DEF NextRow, SubscriptionsTypeOK, JobRun
  <2>2. job.running \in BOOLEAN /\ rest \subseteq Users
    BY DEF SubscriptionsTypeOK, JobRun
  <2> HIDE DEF rest
  <2>3. job' \in JobRun /\ job'.cur = u
    BY <2>1, <2>2 DEF JobRun
  <2>4. subs' \in [Users -> SubscriptionRow]
    BY <1>3, AwaitedTyped DEF NextRow
  <2> QED
    BY <1>3, <2>3, <2>4 DEF NextRow, Awaited, SubscriptionsTypeOK, InHand
<1>4. CASE NextStep
  <2>1. job.cur \in Users /\ job.step \in 1..2
    BY <1>4 DEF NextStep, InHand, SubscriptionsTypeOK, JobRun
  <2>2. job' \in JobRun /\ (job'.step # 0 => job'.cur = job.cur)
    <3> DEFINE more == job.list # {}
               s    == job.step + 1
    <3>0. job.list \subseteq Users /\ job.running \in BOOLEAN /\ more \in BOOLEAN
      BY DEF SubscriptionsTypeOK, JobRun
    <3>1. \/ job' = [job EXCEPT !.step = s] /\ s < 3
          \/ job' = [running |-> more, list |-> job.list, cur |-> Null, step |-> 0]
      BY <1>4 DEF NextStep, NotRunning, Steps
    <3>2. [job EXCEPT !.step = s] = [running |-> job.running, list |-> job.list,
                                     cur |-> job.cur, step |-> s]
      BY DEF SubscriptionsTypeOK, JobRun
    <3>3. s < 3 => s \in 0..2
      BY <2>1
    <3> HIDE DEF more, s
    <3> QED
      BY <2>1, <3>0, <3>1, <3>2, <3>3 DEF JobRun
  <2>3. subs' \in [Users -> SubscriptionRow]
    BY <1>4, <2>1, AwaitedTyped DEF NextStep
  <2> QED
    BY <1>4, <2>1, <2>2, <2>3 DEF NextStep, Awaited, SubscriptionsTypeOK, InHand
<1>5. CASE JobFail
  <2>1. NotRunning.step = 0 /\ job.list \subseteq Users
    BY DEF NotRunning, SubscriptionsTypeOK, JobRun
  <2> QED
    BY <1>0, <1>5, <2>1 DEF JobFail, SubscriptionsTypeOK, InHand
<1> QED
  BY <1>1, <1>2, <1>3, <1>4, <1>5

LEMMA SubscriptionsStepTyped ==
  ASSUME SubscriptionsTypeOK, InHand, [SubscriptionsNext]_subscriptionVars
  PROVE  SubscriptionsTypeOK' /\ InHand'
<1>1. ASSUME NEW r \in Requests,
             \/ \E u \in Users : ReadForSubscribe(r, u) \/ ReadForCancel(r, u)
             \/ RequestProceed(r)
             \/ SubFail(r)
      PROVE  SubscriptionsTypeOK' /\ InHand'
  <2>1. job' = job
    BY <1>1 DEF ReadForSubscribe, ReadForCancel, Begin, RequestProceed, Finish,
                WriteSubscription, InsertRefused, WriteCancellation, SubFail
  <2> QED
    BY <1>1, <2>1, RequestStepTyped DEF InHand
<1>2. ASSUME UNCHANGED subscriptionVars
      PROVE  SubscriptionsTypeOK' /\ InHand'
  BY <1>2 DEF subscriptionVars, SubscriptionsTypeOK, InHand
<1> QED
  BY <1>1, <1>2, JobStepTyped DEF SubscriptionsNext

LEMMA SubscriptionsBegin ==
  ASSUME SubscriptionsInit
  PROVE  SubscriptionsTypeOK /\ InHand
<1>1. NoSubscription \in SubscriptionRow
  BY DaysTyped DEF NoSubscription, SubscriptionRow
<1>2. Idle \in SubRequest
  BY DEF SubRequest
<1>3. NotRunning \in JobRun /\ NotRunning.step = 0
  BY DEF NotRunning, JobRun
<1> QED
  BY <1>1, <1>2, <1>3 DEF SubscriptionsInit, SubscriptionsTypeOK, InHand

\* Every reachable state is well typed; the days left of a row and of a
\* request stay within the term.
THEOREM SubscriptionsTypeCorrect == SubscriptionsSpec => []SubscriptionsTypeOK
<1>1. SubscriptionsInit => SubscriptionsTypeOK /\ InHand
  BY SubscriptionsBegin
<1>2. SubscriptionsTypeOK /\ InHand /\ [SubscriptionsNext]_subscriptionVars
          => SubscriptionsTypeOK' /\ InHand'
  BY SubscriptionsStepTyped
<1> QED
  BY <1>1, <1>2, PTL DEF SubscriptionsSpec

-----------------------------------------------------------------------------
(***************************************************************************)
(* Expiry                                                                  *)
(***************************************************************************)
\* An active subscription is not a cancelled one; what is still listed has
\* lapsed and nobody has renewed or cancelled it, unless it was overtaken;
\* and the property.
Expiry ==
    /\ \A u \in Users : subs[u].status = "ACTIVE" => ~subs[u].cancelledAt
    /\ \A u \in job.list \ overtaken : subs[u].daysLeft = 0 /\ ~subs[u].cancelledAt
    /\ ExpiredOnlyWhenLapsed

\* A user's write: it is overtaken, or the user is not listed and the row is
\* ACTIVE or CANCELLED.
LEMMA FinishKeepsExpiry ==
  ASSUME SubscriptionsTypeOK, Expiry, NEW r \in Requests, NEW row,
         subReq[r].user \in Users, Finish(r, row),
         row.status # "EXPIRED", row.status = "ACTIVE" => ~row.cancelledAt
  PROVE  Expiry'
<1> DEFINE u == subReq[r].user
<1>1. \A v \in Users : subs'[v] = IF v = u THEN row ELSE subs[v]
  BY DEF Finish, SubscriptionsTypeOK
<1>2. job' = job /\ job.list \subseteq Users
  BY DEF Finish, SubscriptionsTypeOK, JobRun
<1>3. \A v \in Users : v # u => (v \in overtaken' <=> v \in overtaken)
  BY DEF Finish
<1>4. u \in job.list => u \in overtaken'
  BY DEF Finish
<1> QED
  BY <1>1, <1>2, <1>3, <1>4 DEF Expiry, ExpiredOnlyWhenLapsed

\* The job's write: the row was listed.
LEMMA SubscriptionsStepKeepsExpiry ==
  ASSUME SubscriptionsTypeOK, InHand, Expiry, [SubscriptionsNext]_subscriptionVars
  PROVE  Expiry'
<1>1. ASSUME NEW r \in Requests, NEW u \in Users,
             ReadForSubscribe(r, u) \/ ReadForCancel(r, u)
      PROVE  Expiry'
  BY <1>1 DEF ReadForSubscribe, ReadForCancel, Begin, Expiry, ExpiredOnlyWhenLapsed
<1>2. ASSUME NEW r \in Requests, WriteSubscription(r)
      PROVE  Expiry'
  <2>1. subReq[r].user \in Users
    BY <1>2, SubscriberTyped DEF WriteSubscription
  <2> QED
    BY <1>2, <2>1, FinishKeepsExpiry DEF WriteSubscription, Subscribed
<1>3. ASSUME NEW r \in Requests, WriteCancellation(r)
      PROVE  Expiry'
  <2> DEFINE row == [subs[subReq[r].user] EXCEPT !.status = "CANCELLED",
                                                 !.cancelledAt = TRUE]
  <2>1. subReq[r].user \in Users
    BY <1>3, SubscriberTyped DEF WriteCancellation
  <2>2. row.status = "CANCELLED"
    BY <2>1 DEF SubscriptionsTypeOK, SubscriptionRow
  <2> QED
    BY <1>3, <2>1, <2>2, FinishKeepsExpiry DEF WriteCancellation
<1>4. ASSUME NEW r \in Requests, InsertRefused(r) \/ SubFail(r)
      PROVE  Expiry'
  BY <1>4 DEF InsertRefused, SubFail, Expiry, ExpiredOnlyWhenLapsed
<1>5. CASE Midnight
  <2>1. \A u \in Users : /\ subs'[u].status = subs[u].status
                         /\ subs'[u].cancelledAt = subs[u].cancelledAt
                         /\ subs'[u].daysLeft = OneLess(subs[u].daysLeft)
    BY <1>5 DEF Midnight, SubscriptionsTypeOK, SubscriptionRow
  <2>2. job.list \subseteq Users /\ job' = job /\ overtaken' = overtaken
    BY <1>5 DEF Midnight, SubscriptionsTypeOK, JobRun
  <2> QED
    BY <2>1, <2>2 DEF OneLess, Expiry, ExpiredOnlyWhenLapsed
<1>6. CASE StartJob
  <2>1. job'.list = {u \in Users : Lapsed(subs[u])}
    BY <1>6 DEF StartJob, NotRunning
  <2> QED
    BY <1>6, <2>1 DEF StartJob, Lapsed, Expiry, ExpiredOnlyWhenLapsed
<1>7. ASSUME NEW u \in Users, NextRow(u)
      PROVE  Expiry'
  <2>1. job'.list = job.list \ {u} /\ u \in job.list /\ overtaken' = overtaken
    BY <1>7 DEF NextRow, Awaited, SubscriptionsTypeOK, JobRun
  <2>2. \A v \in Users : subs'[v] = IF v = u THEN [subs[u] EXCEPT !.status = "EXPIRED"]
                                    ELSE subs[v]
    BY <1>7 DEF NextRow, Awaited, Steps, SubscriptionsTypeOK
  <2>3. /\ subs'[u].status = "EXPIRED" /\ subs'[u].daysLeft = subs[u].daysLeft
        /\ subs'[u].cancelledAt = subs[u].cancelledAt
    BY <2>2 DEF SubscriptionsTypeOK, SubscriptionRow
  <2>4. job.list \subseteq Users
    BY DEF SubscriptionsTypeOK, JobRun
  <2> QED
    BY <2>1, <2>2, <2>3, <2>4 DEF Expiry, ExpiredOnlyWhenLapsed
<1>8. CASE NextStep
  <2>1. job.step \in 1..2
    BY <1>8 DEF NextStep, SubscriptionsTypeOK, JobRun
  <2>2. Steps[job.step + 1] # "expire"
    BY <2>1 DEF Steps
  <2>3. subs' = subs /\ overtaken' = overtaken
    BY <1>8, <2>2 DEF NextStep, Awaited
  <2>4. job'.list = job.list
    BY <1>8 DEF NextStep, NotRunning, SubscriptionsTypeOK, JobRun
  <2> QED
    BY <2>3, <2>4 DEF Expiry, ExpiredOnlyWhenLapsed
<1>9. CASE JobFail
  BY <1>9 DEF JobFail, NotRunning, Expiry, ExpiredOnlyWhenLapsed
<1>10. CASE UNCHANGED subscriptionVars
  BY <1>10 DEF subscriptionVars, Expiry, ExpiredOnlyWhenLapsed
<1> QED
  BY <1>1, <1>2, <1>3, <1>4, <1>5, <1>6, <1>7, <1>8, <1>9, <1>10
     DEF SubscriptionsNext, RequestProceed

\* Whatever the users do while the job works off its list, however often it
\* fails and is run again: it expires a subscription only if that has lapsed
\* and is not cancelled, or if its user wrote it after it had been listed.
THEOREM OnlyLapsedExpires == SubscriptionsSpec => []ExpiredOnlyWhenLapsed
<1>1. SubscriptionsInit => SubscriptionsTypeOK /\ InHand /\ Expiry
  <2>1. SubscriptionsInit => Expiry
    BY DEF SubscriptionsInit, NoSubscription, NotRunning, Expiry,
           ExpiredOnlyWhenLapsed
  <2> QED
    BY <2>1, SubscriptionsBegin
<1>2. SubscriptionsTypeOK /\ InHand /\ Expiry /\ [SubscriptionsNext]_subscriptionVars
          => SubscriptionsTypeOK' /\ InHand' /\ Expiry'
  BY SubscriptionsStepTyped, SubscriptionsStepKeepsExpiry
<1>3. Expiry => ExpiredOnlyWhenLapsed
  BY DEF Expiry
<1> QED
  BY <1>1, <1>2, <1>3, PTL DEF SubscriptionsSpec

-----------------------------------------------------------------------------
(***************************************************************************)
(* The composition                                                         *)
(***************************************************************************)
\* A step of the instance is a step of each service, or none: what is proved
\* of a service alone holds of it among the others.
THEOREM NoticesServeEach ==
  NoticesSpec => MessagesSpec /\ SubscriptionsSpec /\ DraftsSpec
<1>1. NoticesInit => MessagesInit /\ SubscriptionsInit /\ DraftsInit
  BY DEF NoticesInit
<1>2. ASSUME [NoticesNext]_noticesVars
      PROVE  /\ [MessagesNext]_vars
             /\ [SubscriptionsNext]_subscriptionVars
             /\ [DraftsNext]_draftVars
  BY <1>2 DEF NoticesNext, noticesVars
<1> QED
  BY <1>1, <1>2, PTL DEF NoticesSpec, MessagesSpec, SubscriptionsSpec, DraftsSpec

\* The rows, the queues and the requests of all three have the types of their
\* columns and payloads.
THEOREM NoticesTypeCorrect == NoticesSpec => []NoticesTypeOK
<1>1. MessagesTypeOK /\ SubscriptionsTypeOK /\ DraftsTypeOK => NoticesTypeOK
  BY DEF NoticesTypeOK
<1> QED
  BY <1>1, NoticesServeEach, MessagesTypeCorrect, SubscriptionsTypeCorrect,
     DraftsTypeCorrect, PTL
=============================================================================
