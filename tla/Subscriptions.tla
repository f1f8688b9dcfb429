--------------------------- MODULE Subscriptions ---------------------------
(***************************************************************************)
(* SubscriptionsService, the nightly job SubscriptionsScheduler registers  *)
(* and SubscriptionsProcessor runs, and SubscriptionGuard.                 *)
(*                                                                         *)
(* The job lists the lapsed rows, then works the list off, three awaits to *)
(* a row, while users renew and cancel.  Dates are relative: a row carries *)
(* the days left until its expiresAt, so that time may pass for ever.  The *)
(* second daily job only reads rows and sends reminders; it is left out.   *)
(***************************************************************************)
EXTENDS Database, Naturals, Sequences

CONSTANTS
    Users,
    Requests,       \* slots: the requests of users that can be in flight
    Term            \* the days a plan lasts; every plan has the same

ASSUME TermAssumption == Term \in Nat \ {0}
ASSUME UsersAssumption == Null \notin Users

VARIABLES
    subs,       \* the Subscription table; status Null: no row
    subReq,     \* the request in each slot
    due,        \* is a check-expirations job waiting in the queue
    job,        \* the run of that job
    \* Observations, read by no action:
    overtaken,  \* users whose row they wrote while it was listed as expired
    skipped     \* users whose row was still listed when the last run broke off

subscriptionVars == <<subs, subReq, due, job, overtaken, skipped>>

DaysLeft == 0..Term

\* TRIAL, the default of the column, is never written.
SubscriptionRow ==
    [status: {Null, "ACTIVE", "CANCELLED", "EXPIRED"}, daysLeft: DaysLeft,
     cancelledAt: BOOLEAN]

NoSubscription == [status |-> Null, daysLeft |-> 0, cancelledAt |-> FALSE]

Idle == [op |-> "idle"]

SubRequest == [op: {"update", "create"}, user: Users, daysLeft: DaysLeft]
                  \cup [op: {"cancel"}, user: Users] \cup {Idle}

\* step: the position in Steps of the await the job is at; 0: between rows.
JobRun == [running: BOOLEAN, list: SUBSET Users, cur: Users \cup {Null},
           step: 0..2]

NotRunning == [running |-> FALSE, list |-> {}, cur |-> Null, step |-> 0]

SubscriptionsTypeOK ==
    /\ subs \in [Users -> SubscriptionRow]
    /\ subReq \in [Requests -> SubRequest]
    /\ due \in BOOLEAN
    /\ job \in JobRun
    /\ overtaken \subseteq Users
    /\ skipped \subseteq Users

SubscriptionsInit ==
    /\ subs = [u \in Users |-> NoSubscription]
    /\ subReq = [r \in Requests |-> Idle]
    /\ due = FALSE
    /\ job = NotRunning
    /\ overtaken = {}
    /\ skipped = {}

-----------------------------------------------------------------------------
(***************************************************************************)
(* createOrUpgrade and cancel.                                             *)
(***************************************************************************)
Begin(r, q) ==
    /\ subReq[r] = Idle
    /\ subReq' = [subReq EXCEPT ![r] = q]
    /\ UNCHANGED <<subs, due, job, overtaken, skipped>>

\* The request in slot r ends; its user's row becomes row.
Finish(r, row) ==
    LET u == subReq[r].user
    IN  /\ subReq' = [subReq EXCEPT ![r] = Idle]
        /\ subs' = [subs EXCEPT ![u] = row]
        /\ overtaken' = IF u \in job.list
                        THEN overtaken \cup {u} ELSE overtaken \ {u}
        /\ UNCHANGED <<due, job, skipped>>

\* The new expiry counts from the time of the request, not from the old one.
ReadForSubscribe(r, u) ==
    Begin(r, [op |-> IF subs[u].status = Null THEN "create" ELSE "update",
              user |-> u, daysLeft |-> Term])

\* Mutant: the status is left to the default of the column.
Subscribed_Default(q) ==
    [status |-> "TRIAL", daysLeft |-> q.daysLeft, cancelledAt |-> FALSE]

Subscribed(q) ==
    [status |-> "ACTIVE", daysLeft |-> q.daysLeft, cancelledAt |-> FALSE]

\* A user's row is unique: of two first subscriptions the second insert fails.
WriteSubscription(r) ==
    LET q == subReq[r]
    IN  /\ \/ q.op = "update"
           \/ q.op = "create" /\ subs[q.user].status = Null
        /\ Finish(r, Subscribed(q))

InsertRefused(r) ==
    /\ subReq[r].op = "create"
    /\ subs[subReq[r].user].status # Null
    /\ subReq' = [subReq EXCEPT ![r] = Idle]
    /\ UNCHANGED <<subs, due, job, overtaken, skipped>>

ReadForCancel(r, u) ==
    /\ subs[u].status \notin {Null, "CANCELLED"}
    /\ Begin(r, [op |-> "cancel", user |-> u])

WriteCancellation(r) ==
    /\ subReq[r].op = "cancel"
    /\ Finish(r, [subs[subReq[r].user] EXCEPT !.status = "CANCELLED",
                                              !.cancelledAt = TRUE])

SubFail(r) ==
    /\ CanFail
    /\ subReq[r] # Idle
    /\ subReq' = [subReq EXCEPT ![r] = Idle]
    /\ UNCHANGED <<subs, due, job, overtaken, skipped>>

-----------------------------------------------------------------------------
(***************************************************************************)
(* Midnight: the terms get shorter by a day and the repeatable job becomes *)
(* due; the processor runs it, one run at a time (processRenewals).        *)
(***************************************************************************)
OneLess(d) == IF d = 0 THEN 0 ELSE d - 1

Midnight ==
    /\ subs' = [u \in Users |-> [subs[u] EXCEPT !.daysLeft = OneLess(@)]]
    /\ subReq' = [r \in Requests |->
           IF subReq[r].op \in {"update", "create"}
           THEN [subReq[r] EXCEPT !.daysLeft = OneLess(@)] ELSE subReq[r]]
    /\ due' = TRUE
    /\ UNCHANGED <<job, overtaken, skipped>>

\* Mutant: the last day is taken for past.
Lapsed_LastDay(row) == row.status = "ACTIVE" /\ row.daysLeft <= 1

Lapsed(row) == row.status = "ACTIVE" /\ row.daysLeft = 0

StartJob ==
    LET listed == {u \in Users : Lapsed(subs[u])}
    IN  /\ due
        /\ ~job.running
        /\ due' = FALSE
        /\ job' = [NotRunning EXCEPT !.running = listed # {}, !.list = listed]
        /\ skipped' = {}
        /\ UNCHANGED <<subs, subReq, overtaken>>

\* Mutant: the user is told before the row is written.
Steps_TellFirst == <<"persist", "enqueue", "expire">>

\* The awaits of one round of the loop: the update, and the two of
\* notifications.send.
Steps == <<"expire", "persist", "enqueue">>

\* The update names the row by its id: EXPIRED, whatever the row is by now.
Awaited(step, u) ==
    /\ subs' = IF step = "expire"
               THEN [subs EXCEPT ![u].status = "EXPIRED"] ELSE subs
    /\ UNCHANGED <<subReq, due, overtaken, skipped>>

\* The first await of a round takes a row off the list.  The loop walks the
\* list in the order findMany gave it, which no orderBy fixes: any row may be
\* the next.
NextRow(u) ==
    /\ job.running
    /\ job.step = 0
    /\ u \in job.list
    /\ job' = [job EXCEPT !.list = @ \ {u}, !.cur = u, !.step = 1]
    /\ Awaited(Steps[1], u)

NextStep ==
    LET s == job.step + 1
    IN  /\ job.step # 0
        /\ job' = IF s < Len(Steps) THEN [job EXCEPT !.step = s]
                  ELSE [NotRunning EXCEPT !.running = job.list # {},
                                          !.list = job.list]
        /\ Awaited(Steps[s], job.cur)

\* An await throws: the loop ends there and the job has failed.  Or the
\* process stops: Bull finds the job stalled and runs it again.  The rows still
\* on the list wait for another run.
JobFail ==
    /\ CanFail
    /\ job.running
    /\ job' = NotRunning
    /\ due' \in {due, TRUE}
    /\ skipped' = job.list
    /\ UNCHANGED <<subs, subReq, overtaken>>

RequestProceed(r) ==
    WriteSubscription(r) \/ InsertRefused(r) \/ WriteCancellation(r)

SubscriptionsNext ==
    \/ \E r \in Requests :
          \/ \E u \in Users : ReadForSubscribe(r, u) \/ ReadForCancel(r, u)
          \/ RequestProceed(r)
          \/ SubFail(r)
    \/ Midnight
    \/ StartJob
    \/ \E u \in Users : NextRow(u)
    \/ NextStep
    \/ JobFail

SubscriptionsSpec == SubscriptionsInit /\ [][SubscriptionsNext]_subscriptionVars

\* A due job is started, and a run goes on from await to await, with whatever
\* row is next, to its end or to its failure.  No row is promised its turn: a
\* run may fail every night.
JobFairness ==
    /\ WF_subscriptionVars(StartJob)
    /\ WF_subscriptionVars(\E u \in Users : NextRow(u))
    /\ WF_subscriptionVars(NextStep)

\* And nights come.
FairSubscriptionsSpec ==
    SubscriptionsSpec /\ WF_subscriptionVars(Midnight) /\ JobFairness

-----------------------------------------------------------------------------
\* A subscription that has days left, or was cancelled, is not made EXPIRED,
\* unless its user renewed or cancelled it after the job had listed it.
ExpiredOnlyWhenLapsed ==
    \A u \in Users \ overtaken :
        subs[u].status = "EXPIRED" => /\ subs[u].daysLeft = 0
                                      /\ ~subs[u].cancelledAt

\* SubscriptionGuard: the status alone decides, not the date.
Admits(u) == subs[u].status = "ACTIVE"

\* Over for u: admitted by the guard, without a day left.
TermOver(u) == Admits(u) /\ subs[u].daysLeft = 0

\* The guard does not go on admitting a user whose term is over: a night comes,
\* and its run lists the row and makes it EXPIRED, unless the user renews, or
\* the run breaks off with the row still on its list.
LapsedIsRefused ==
    \A u \in Users : TermOver(u) ~> ~TermOver(u) \/ u \in skipped

(***************************************************************************)
(* What the documentation says and the code does not keep.                 *)
(***************************************************************************)
\* subscriptions.processor.ts: "expire ACTIVE subs past their expiresAt".
ExpiresOnlyPastDate ==
    \A u \in Users : subs[u].status = "EXPIRED" => subs[u].daysLeft = 0

\* From some night on every update of a row succeeds, and what ends a run
\* before its list is empty is a notification that fails.
OnlyNoticesFail == <>[][job.step = 0 => ~JobFail]_subscriptionVars

\* subscriptions.service.ts: "Expire subscriptions that are past their expiry
\* date": then the runs get to every row in the end.
EveryLapsedRowExpires ==
    OnlyNoticesFail => \A u \in Users : TermOver(u) ~> ~TermOver(u)
=============================================================================
