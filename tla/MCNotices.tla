----------------------------- MODULE MCNotices -----------------------------
(***************************************************************************)
(* Messages, subscriptions and contract drafts for TLC: the services whose *)
(* work must come to an end.  They keep no state together, so a behaviour  *)
(* of one is explored with the others at rest: serving is the service      *)
(* whose behaviour this is.  Days pass for the subscriptions only; of the  *)
(* rest nothing is enabled in a service at rest.                           *)
(***************************************************************************)
EXTENDS Messages, Subscriptions, Contracts

VARIABLE serving

noticesVars == <<serving, vars, subscriptionVars, draftVars>>

\* The model drafts with or without sections; with flags, none, or no list.
MCDraftReplies ==
    {[sections |-> TRUE, flags |-> "none"], [sections |-> FALSE, flags |-> "list"],
     [sections |-> TRUE, flags |-> "noList"]}

\* The types of all three.
NoticesTypeOK ==
    /\ MessagesTypeOK
    /\ SubscriptionsTypeOK
    /\ DraftsTypeOK

NoticesInit ==
    /\ serving \in {"messages", "subscriptions", "contracts"}
    /\ MessagesInit
    /\ SubscriptionsInit
    /\ DraftsInit

NoticesNext ==
    /\ UNCHANGED serving
    /\ \/ /\ serving = "messages"
          /\ MessagesNext
          /\ UNCHANGED <<subscriptionVars, draftVars>>
       \/ /\ serving = "subscriptions"
          /\ SubscriptionsNext
          /\ UNCHANGED <<vars, draftVars>>
       \/ /\ serving = "contracts"
          /\ DraftsNext
          /\ UNCHANGED <<vars, subscriptionVars>>

NoticesSpec == NoticesInit /\ [][NoticesNext]_noticesVars

FairNoticesSpec ==
    /\ NoticesSpec
    /\ MessagesFairness
    /\ DraftsFairness
    /\ JobFairness
    /\ WF_subscriptionVars(serving = "subscriptions" /\ Midnight)
=============================================================================
