-------------------------- MODULE ProvidersProofs --------------------------
(***************************************************************************)
(* A provider's profile for all sets of tags, items, fields and slots: the *)
(* types, that the tags of a provider are those asked for, and that the    *)
(* score is the one of the profile as it is.                               *)
(***************************************************************************)
EXTENDS Providers, FiniteSetTheorems, TLAPS

-----------------------------------------------------------------------------
(***************************************************************************)
(* Types                                                                   *)
(***************************************************************************)
\* What a request is about to relate to the provider is in the Tag table.
TagsUpserted ==
    \A r \in Requests :
        request[r].pc = "createTags" => request[r].tags \subseteq tagTable

\* A slot is typed by its pc.
LEMMA ProfileSlotTyped ==
  ASSUME ProvidersTypeOK, NEW r \in Requests
  PROVE  LET q == request[r]
         IN  /\ q.pc = "idle" => q = NoRequest
             /\ q.pc = "delete" => q \in Removing
             /\ q.pc \notin {"idle", "delete"} => q \in Updating
<1>1. request[r] \in Updating \cup Removing \cup {NoRequest}
  BY DEF ProvidersTypeOK
<1> QED
  BY <1>1 DEF Updating, Removing, NoRequest

LEMMA TripleCounted ==
  ASSUME NEW a, NEW b, NEW c, NEW S \in SUBSET {a, b, c}
  PROVE  Cardinality(S) \in 0..3
<1>1. /\ IsFiniteSet({}) /\ Cardinality({}) = 0
  BY FS_EmptySet
<1>2. IsFiniteSet({a}) /\ Cardinality({a}) = 1
  BY FS_Singleton
<1>3. /\ IsFiniteSet({a} \cup {b}) /\ Cardinality({a} \cup {b}) \in 0..2
  <2>1. /\ IsFiniteSet({a} \cup {b})
        /\ Cardinality({a} \cup {b}) =
              IF b \in {a} THEN Cardinality({a}) ELSE Cardinality({a}) + 1
    BY <1>2, FS_AddElement
  <2> QED
    BY <1>2, <2>1
<1>4. /\ IsFiniteSet(({a} \cup {b}) \cup {c})
      /\ Cardinality(({a} \cup {b}) \cup {c}) \in 0..3
  <2> DEFINE T == {a} \cup {b}
  <2> HIDE DEF T
  <2>1. /\ IsFiniteSet(T \cup {c})
        /\ Cardinality(T \cup {c}) =
              IF c \in T THEN Cardinality(T) ELSE Cardinality(T) + 1
    BY <1>3, FS_AddElement DEF T
  <2> QED
    BY <1>3, <2>1 DEF T
<1>5. {a, b, c} = ({a} \cup {b}) \cup {c}
  OBVIOUS
<1>6. Cardinality(S) <= Cardinality({a, b, c}) /\ IsFiniteSet(S)
  BY <1>4, <1>5, FS_Subset
<1>7. Cardinality(S) \in Nat
  BY <1>6, FS_CardinalityType
<1> QED
  BY <1>4, <1>5, <1>6, <1>7

\* Eight of the eleven checks are in this service's hands.
LEMMA PercentTyped ==
  ASSUME ProvidersTypeOK
  PROVE  Percent(Passed) \in 0..100
<1> DEFINE F == Cardinality(filled)
           K == Cardinality({k \in Kinds : items[k] # {}})
           D == IF dietaryTags # {} THEN 1 ELSE 0
<1>1. F \in 0..3
  <2>1. filled \in SUBSET {"bio", "businessName", "city"}
    BY FieldsAssumption DEF ProvidersTypeOK
  <2> QED
    BY <2>1, TripleCounted
<1>2. K \in 0..3
  <2>1. {k \in Kinds : items[k] # {}} \in
            SUBSET {"portfolioItems", "pricingItems", "availabilitySlots"}
    BY DEF Kinds
  <2> QED
    BY <2>1, TripleCounted
<1>3. D \in 0..1
  OBVIOUS
<1> HIDE DEF F, K, D
<1>4. 1 + F + K + D \in 0..8
  BY <1>1, <1>2, <1>3
<1>5. ASSUME NEW n \in 0..8
      PROVE  (200 * n + 11) \div 22 \in 0..100
  BY <1>5
<1>6. Passed = 1 + F + K + D
  BY DEF Passed, F, K, D
<1>7. Percent(Passed) = (200 * (1 + F + K + D) + 11) \div 22
  BY <1>6 DEF Percent, ChecksTotal
<1> QED
  BY <1>4, <1>5, <1>7

\* A slot at one of the awaits of updateProfile.
LEMMA UpdatingTyped ==
  ASSUME ProvidersTypeOK, NEW r \in Requests,
         request[r].pc \in {"deleteTags", "upsertTags", "createTags", "updateRow",
                            "computeScore", "writeScore"}
  PROVE  /\ request[r] \in Updating
         /\ request[r].tags \subseteq Tags
         /\ request[r].given \subseteq Fields /\ request[r].filling \subseteq Fields
         /\ request[r].score \in 0..100
<1>1. request[r] \in Updating
  BY ProfileSlotTyped
<1> QED
  BY <1>1 DEF Updating

\* Such a slot goes on to another await.
LEMMA StepToTyped ==
  ASSUME ProvidersTypeOK, NEW r \in Requests, NEW pc,
         NEW next \in {"upsertTags", "createTags", "updateRow", "computeScore"},
         pc \in {"deleteTags", "upsertTags", "createTags", "updateRow"},
         StepTo(r, pc, next)
  PROVE  /\ request' \in [Requests -> Updating \cup Removing \cup {NoRequest}]
         /\ request'[r].pc = next
         /\ request'[r].tags = request[r].tags
         /\ \A s \in Requests \ {r} : request'[s] = request[s]
<1>1. request[r] \in Updating
  BY UpdatingTyped DEF StepTo
<1>2. [request[r] EXCEPT !.pc = next] \in Updating
  BY <1>1 DEF Updating
<1>3. request' = [request EXCEPT ![r] = [request[r] EXCEPT !.pc = next]]
  BY DEF StepTo
<1>4. request'[r] = [request[r] EXCEPT !.pc = next]
  BY <1>3 DEF ProvidersTypeOK
<1>5. request'[r].pc = next /\ request'[r].tags = request[r].tags
  BY <1>1, <1>4 DEF Updating
<1> QED
  BY <1>2, <1>3, <1>5 DEF ProvidersTypeOK

\* A slot takes a request, or ends one.
LEMMA BecomeTyped ==
  ASSUME ProvidersTypeOK, NEW r \in Requests,
         NEW q \in Updating \cup Removing \cup {NoRequest}, Become(r, q)
  PROVE  /\ request' \in [Requests -> Updating \cup Removing \cup {NoRequest}]
         /\ request'[r] = q
         /\ \A s \in Requests \ {r} : request'[s] = request[s]
  BY DEF Become, ProvidersTypeOK

\* The types hold on, and so does what is upserted.
Typed == ProvidersTypeOK /\ TagsUpserted

LEMMA ProfileStepTyped ==
  ASSUME Typed, [ProvidersNext]_providerVars
  PROVE  Typed'
<1>1. ProvidersTypeOK /\ TagsUpserted
  BY DEF Typed
<1>2. NoRequest \in Updating \cup Removing \cup {NoRequest} /\ NoRequest.pc = "idle"
  BY DEF NoRequest
<1>3. ASSUME NEW r \in Requests, NEW withTags \in BOOLEAN, NEW tags \in SUBSET Tags,
             NEW given \in SUBSET Fields, NEW filling \in SUBSET given,
             ReadForUpdate(r, withTags, tags, given, filling)
      PROVE  Typed'
  <2> DEFINE q == [pc |-> IF withTags THEN "deleteTags" ELSE "updateRow",
                   tags |-> tags, given |-> given, filling |-> filling, score |-> 0]
  <2>1. q \in Updating /\ q.pc # "createTags"
    BY DEF Updating
  <2>2. Become(r, q)
    BY <1>3 DEF ReadForUpdate, BeginRequest
  <2> QED
    BY <1>1, <1>3, <2>1, <2>2, BecomeTyped
       DEF ReadForUpdate, ProvidersTypeOK, TagsUpserted, Typed
<1>4. ASSUME NEW r \in Requests, DeleteTags(r)
      PROVE  Typed'
  <2> DEFINE next == IF request[r].tags = {} THEN "updateRow" ELSE "upsertTags"
  <2>1. next \in {"upsertTags", "updateRow"} /\ StepTo(r, "deleteTags", next)
    BY <1>4 DEF DeleteTags
  <2>2. request[r].tags \subseteq Tags
    BY <1>1, <2>1, UpdatingTyped DEF StepTo
  <2>3. /\ asked' \subseteq Tags /\ intact' \in BOOLEAN /\ dietaryTags' = {}
        /\ touched' = TRUE /\ UNCHANGED <<tagTable, items, filled, score>>
    BY <1>1, <1>4, <2>2 DEF DeleteTags, Cleared, ProvidersTypeOK
  <2> HIDE DEF next
  <2> QED
    BY <1>1, <2>1, <2>3, StepToTyped DEF ProvidersTypeOK, TagsUpserted, Typed
<1>5. ASSUME NEW r \in Requests, UpsertTags(r)
      PROVE  Typed'
  <2>1. StepTo(r, "upsertTags", "createTags")
    BY <1>5 DEF UpsertTags
  <2>2. request[r].tags \subseteq Tags
    BY <1>1, <2>1, UpdatingTyped DEF StepTo
  <2>3. tagTable' = tagTable \cup request[r].tags
    BY <1>5 DEF UpsertTags, Upserted
  <2> QED
    BY <1>1, <1>5, <2>1, <2>2, <2>3, StepToTyped
       DEF UpsertTags, ProvidersTypeOK, TagsUpserted, Typed
<1>6. ASSUME NEW r \in Requests, CreateTags(r)
      PROVE  Typed'
  <2>1. StepTo(r, "createTags", "updateRow") /\ request[r].pc = "createTags"
    BY <1>6 DEF CreateTags, StepTo
  <2>2. request[r].tags \subseteq tagTable
    BY <1>1, <2>1 DEF TagsUpserted
  <2> QED
    BY <1>1, <1>6, <2>1, <2>2, StepToTyped
       DEF CreateTags, ProvidersTypeOK, TagsUpserted, Typed
<1>7. ASSUME NEW r \in Requests, UpdateRow(r)
      PROVE  Typed'
  <2>1. StepTo(r, "updateRow", "computeScore")
    BY <1>7 DEF UpdateRow
  <2>2. request[r].filling \subseteq Fields
    BY <1>1, <2>1, UpdatingTyped DEF StepTo
  <2> QED
    BY <1>1, <1>7, <2>1, <2>2, StepToTyped
       DEF UpdateRow, ProvidersTypeOK, TagsUpserted, Typed
<1>8. ASSUME NEW r \in Requests, ComputeScore(r)
      PROVE  Typed'
  <2> DEFINE q == [request[r] EXCEPT !.pc = "writeScore", !.score = Percent(Passed)]
  <2>1. request[r] \in Updating /\ Become(r, q)
    BY <1>1, <1>8, UpdatingTyped DEF ComputeScore
  <2>2. q \in Updating /\ q.pc = "writeScore"
    BY <1>1, <2>1, PercentTyped DEF Updating
  <2>3. touched' \in BOOLEAN
    BY <1>8 DEF ComputeScore
  <2> HIDE DEF q
  <2> QED
    BY <1>1, <1>8, <2>1, <2>2, <2>3, BecomeTyped
       DEF ComputeScore, ProvidersTypeOK, TagsUpserted, Typed
<1>9. ASSUME NEW r \in Requests, WriteScore(r)
      PROVE  Typed'
  <2>1. score' \in 0..100 /\ Become(r, NoRequest)
    BY <1>1, <1>9, UpdatingTyped DEF WriteScore, WrittenScore
  <2> QED
    BY <1>1, <1>2, <1>9, <2>1, BecomeTyped
       DEF WriteScore, ProvidersTypeOK, TagsUpserted, Typed
<1>10. ASSUME NEW r \in Requests, NEW k \in Kinds, NEW i \in ItemIds,
              ReadForRemoval(r, k, i)
       PROVE  Typed'
  <2> DEFINE q == [pc |-> "delete", kind |-> k, item |-> i]
  <2>1. q \in Removing /\ q.pc = "delete" /\ Become(r, q)
    BY <1>10 DEF ReadForRemoval, BeginRequest, Removing
  <2> QED
    BY <1>1, <1>10, <2>1, BecomeTyped
       DEF ReadForRemoval, ProvidersTypeOK, TagsUpserted, Typed
<1>11. ASSUME NEW r \in Requests, DeleteItem(r)
       PROVE  Typed'
  <2>1. Become(r, NoRequest) /\ items' \in [Kinds -> SUBSET ItemIds]
    BY <1>1, <1>11 DEF DeleteItem, ProvidersTypeOK
  <2> QED
    BY <1>1, <1>2, <1>11, <2>1, BecomeTyped
       DEF DeleteItem, ProvidersTypeOK, TagsUpserted, Typed
<1>12. ASSUME NEW r \in Requests, ProviderFail(r)
       PROVE  Typed'
  <2>1. Become(r, NoRequest) /\ intact' \in BOOLEAN /\ touched' \in BOOLEAN
    BY <1>12 DEF ProviderFail
  <2> QED
    BY <1>1, <1>2, <1>12, <2>1, BecomeTyped
       DEF ProviderFail, ProvidersTypeOK, TagsUpserted, Typed
<1>13. ASSUME NEW k \in Kinds, NEW i \in ItemIds, AddItem(k, i)
       PROVE  Typed'
  <2>1. items' \in [Kinds -> SUBSET ItemIds]
    BY <1>1, <1>13 DEF AddItem, ProvidersTypeOK
  <2> QED
    BY <1>1, <1>13, <2>1 DEF AddItem, ProvidersTypeOK, TagsUpserted, Typed
<1>14. ASSUME UNCHANGED providerVars
       PROVE  Typed'
  BY <1>1, <1>14 DEF providerVars, ProvidersTypeOK, TagsUpserted, Typed
<1> QED
  BY <1>3, <1>4, <1>5, <1>6, <1>7, <1>8, <1>9, <1>10, <1>11, <1>12, <1>13, <1>14
     DEF ProvidersNext

LEMMA ProfilesBegin ==
  ASSUME ProvidersInit
  PROVE  Typed
<1>1. NoRequest.pc = "idle"
  BY DEF NoRequest
<1> QED
  BY <1>1 DEF ProvidersInit, ProvidersTypeOK, TagsUpserted, Typed

\* Every reachable state of a profile is well typed; every tag it has is in the
\* Tag table, although that is filled and the relations are made by statements
\* of their own; the score is a percentage.
THEOREM ProvidersTypeCorrect == ProvidersSpec => []ProvidersTypeOK
<1>1. ProvidersInit => Typed
  BY ProfilesBegin
<1>2. Typed /\ [ProvidersNext]_providerVars => Typed'
  BY ProfileStepTyped
<1>3. Typed => ProvidersTypeOK
  BY DEF Typed
<1> QED
  BY <1>1, <1>2, <1>3, PTL DEF ProvidersSpec

-----------------------------------------------------------------------------
(***************************************************************************)
(* The tags                                                                *)
(***************************************************************************)
\* What is being related was asked for; where no two replacements have met
\* and none died, there is at most one of them under way, for the tags asked
\* for and on an empty table, or the tags are those asked for.
Syncing ==
    /\ dietaryTags \subseteq asked
    /\ \A r \in Requests : Replacing(request[r]) => request[r].tags \subseteq asked
    /\ intact =>
          /\ \A r, s \in Requests :
                Replacing(request[r]) /\ Replacing(request[s]) => r = s
          /\ \A r \in Requests :
                Replacing(request[r]) => request[r].tags = asked /\ dietaryTags = {}
          /\ (\A r \in Requests : ~Replacing(request[r])) => dietaryTags = asked

\* Steps that leave the tags and the replacements as they are.
LEMMA SyncingUntouched ==
  ASSUME Syncing, UNCHANGED <<dietaryTags, asked, intact>>,
         \A r \in Requests :
             \/ request'[r].pc = request[r].pc /\ request'[r].tags = request[r].tags
             \/ ~Replacing(request[r]) /\ ~Replacing(request'[r])
  PROVE  Syncing'
<1>1. \A r \in Requests :
          /\ Replacing(request[r])' <=> Replacing(request[r])
          /\ Replacing(request[r]) => request'[r].tags = request[r].tags
  BY DEF Replacing
<1> QED
  BY <1>1 DEF Syncing

LEMMA StepSyncing ==
  ASSUME ProvidersTypeOK, Syncing, [ProvidersNext]_providerVars
  PROVE  Syncing'
<1>1. ~Replacing(NoRequest) /\ NoRequest \in Updating \cup Removing \cup {NoRequest}
  BY DEF Replacing, NoRequest
<1>2. ASSUME NEW r \in Requests, NEW withTags \in BOOLEAN, NEW tags \in SUBSET Tags,
             NEW given \in SUBSET Fields, NEW filling \in SUBSET given,
             ReadForUpdate(r, withTags, tags, given, filling)
      PROVE  Syncing'
  <2> DEFINE q == [pc |-> IF withTags THEN "deleteTags" ELSE "updateRow",
                   tags |-> tags, given |-> given, filling |-> filling, score |-> 0]
  <2>1. ~Replacing(q) /\ ~Replacing(request[r])
    BY <1>1, <1>2 DEF ReadForUpdate, BeginRequest, Replacing
  <2>2. \A s \in Requests : request'[s] = IF s = r THEN q ELSE request[s]
    BY <1>2 DEF ReadForUpdate, BeginRequest, Become, ProvidersTypeOK
  <2> HIDE DEF q
  <2> QED
    BY <1>2, <2>1, <2>2, SyncingUntouched DEF ReadForUpdate
<1>3. ASSUME NEW r \in Requests, DeleteTags(r)
      PROVE  Syncing'
  <2> DEFINE next == IF request[r].tags = {} THEN "updateRow" ELSE "upsertTags"
             met  == {s \in Requests \ {r} : Replacing(request[s])}
  <2>1. /\ next \in {"upsertTags", "updateRow"} /\ StepTo(r, "deleteTags", next)
        /\ next = "updateRow" => request[r].tags = {}
    BY <1>3 DEF DeleteTags
  <2>2. /\ dietaryTags' = {} /\ intact' = (met = {})
        /\ asked' = IF met = {} THEN request[r].tags ELSE asked \cup request[r].tags
    BY <1>3 DEF DeleteTags, Cleared
  <2>3. /\ request'[r].pc = next /\ request'[r].tags = request[r].tags
        /\ \A s \in Requests \ {r} : request'[s] = request[s]
    <3> HIDE DEF next
    <3> QED
      BY <2>1, StepToTyped
  <2>4. Replacing(request'[r]) <=> next = "upsertTags"
    BY <2>1, <2>3 DEF Replacing
  <2> HIDE DEF next
  <2> QED
    BY <2>1, <2>2, <2>3, <2>4 DEF Syncing
<1>4. ASSUME NEW r \in Requests, UpsertTags(r)
      PROVE  Syncing'
  <2>1. StepTo(r, "upsertTags", "createTags")
    BY <1>4 DEF UpsertTags
  <2>2. /\ request'[r].pc = "createTags" /\ request'[r].tags = request[r].tags
        /\ \A s \in Requests \ {r} : request'[s] = request[s]
    BY <2>1, StepToTyped
  <2>3. Replacing(request[r]) /\ Replacing(request'[r])
    BY <2>1, <2>2 DEF StepTo, Replacing
  <2>4. UNCHANGED <<dietaryTags, asked, intact>>
    BY <1>4 DEF UpsertTags
  <2> QED
    BY <2>2, <2>3, <2>4 DEF Syncing
<1>5. ASSUME NEW r \in Requests, CreateTags(r)
      PROVE  Syncing'
  <2>1. StepTo(r, "createTags", "updateRow")
    BY <1>5 DEF CreateTags
  <2>2. /\ request'[r].pc = "updateRow"
        /\ \A s \in Requests \ {r} : request'[s] = request[s]
    BY <2>1, StepToTyped
  <2>3. Replacing(request[r]) /\ ~Replacing(request'[r])
    BY <2>1, <2>2 DEF StepTo, Replacing
  <2>4. dietaryTags' = dietaryTags \cup request[r].tags /\ UNCHANGED <<asked, intact>>
    BY <1>5 DEF CreateTags
  <2> QED
    BY <2>2, <2>3, <2>4 DEF Syncing
<1>6. ASSUME NEW r \in Requests, UpdateRow(r)
      PROVE  Syncing'
  <2>1. StepTo(r, "updateRow", "computeScore")
    BY <1>6 DEF UpdateRow
  <2>2. /\ request'[r].pc = "computeScore"
        /\ \A s \in Requests \ {r} : request'[s] = request[s]
    BY <2>1, StepToTyped
  <2>3. ~Replacing(request[r]) /\ ~Replacing(request'[r])
    BY <2>1, <2>2 DEF StepTo, Replacing
  <2> QED
    BY <1>6, <2>2, <2>3, SyncingUntouched DEF UpdateRow
<1>7. ASSUME NEW r \in Requests, ComputeScore(r)
      PROVE  Syncing'
  <2>1. /\ request[r].pc = "computeScore" /\ request[r] \in Updating
        /\ request' = [request EXCEPT ![r] =
               [request[r] EXCEPT !.pc = "writeScore", !.score = Percent(Passed)]]
    BY <1>7, UpdatingTyped DEF ComputeScore, Become
  <2>2. /\ request'[r].pc = "writeScore"
        /\ \A s \in Requests \ {r} : request'[s] = request[s]
    BY <2>1 DEF Updating, ProvidersTypeOK
  <2>3. ~Replacing(request[r]) /\ ~Replacing(request'[r])
    BY <2>1, <2>2 DEF Replacing
  <2> QED
    BY <1>7, <2>2, <2>3, SyncingUntouched DEF ComputeScore
<1>8. ASSUME NEW r \in Requests, WriteScore(r) \/ DeleteItem(r)
      PROVE  Syncing'
  <2>1. request[r].pc \in {"writeScore", "delete"} /\ Become(r, NoRequest)
    BY <1>8 DEF WriteScore, DeleteItem
  <2>2. request'[r] = NoRequest /\ \A s \in Requests \ {r} : request'[s] = request[s]
    BY <1>1, <2>1, BecomeTyped
  <2>3. ~Replacing(request[r])
    BY <2>1 DEF Replacing
  <2> QED
    BY <1>1, <1>8, <2>2, <2>3, SyncingUntouched DEF WriteScore, DeleteItem
<1>9. ASSUME NEW r \in Requests, NEW k \in Kinds, NEW i \in ItemIds,
             ReadForRemoval(r, k, i)
      PROVE  Syncing'
  <2> DEFINE q == [pc |-> "delete", kind |-> k, item |-> i]
  <2>1. ~Replacing(q) /\ ~Replacing(request[r])
    BY <1>1, <1>9 DEF ReadForRemoval, BeginRequest, Replacing
  <2>2. \A s \in Requests : request'[s] = IF s = r THEN q ELSE request[s]
    BY <1>9 DEF ReadForRemoval, BeginRequest, Become, ProvidersTypeOK
  <2> HIDE DEF q
  <2> QED
    BY <1>9, <2>1, <2>2, SyncingUntouched DEF ReadForRemoval
\* A replacement that dies leaves the table as it is, and is remembered.
<1>10. ASSUME NEW r \in Requests, ProviderFail(r)
       PROVE  Syncing'
  <2>1. Become(r, NoRequest)
    BY <1>10 DEF ProviderFail
  <2>2. request'[r] = NoRequest /\ \A s \in Requests \ {r} : request'[s] = request[s]
    BY <1>1, <2>1, BecomeTyped
  <2>3. intact' = (intact /\ ~Replacing(request[r])) /\ UNCHANGED <<dietaryTags, asked>>
    BY <1>10 DEF ProviderFail
  <2>4. CASE Replacing(request[r])
    BY <1>1, <2>2, <2>3, <2>4 DEF Syncing
  <2>5. CASE ~Replacing(request[r])
    <3>1. intact' = intact
      BY <2>3, <2>5 DEF ProvidersTypeOK
    <3> QED
      BY <1>1, <2>2, <2>3, <2>5, <3>1, SyncingUntouched
  <2> QED
    BY <2>4, <2>5
<1>11. ASSUME NEW k \in Kinds, NEW i \in ItemIds, AddItem(k, i)
       PROVE  Syncing'
  BY <1>11, SyncingUntouched DEF AddItem
<1>12. ASSUME UNCHANGED providerVars
       PROVE  Syncing'
  BY <1>12, SyncingUntouched DEF providerVars
<1> QED
  BY <1>2, <1>3, <1>4, <1>5, <1>6, <1>7, <1>8, <1>9, <1>10, <1>11, <1>12
     DEF ProvidersNext

\* However updates of one profile overlap and die: the provider has no tag that
\* nobody asked for, and once a replacement has run alone and to its end, the
\* provider has exactly the tags it asked for.
THEOREM TagsAreSynced == ProvidersSpec => []TagsSynced
<1>1. ProvidersInit => Syncing
  BY DEF ProvidersInit, NoRequest, Replacing, Syncing
<1>2. ProvidersTypeOK /\ Syncing /\ [ProvidersNext]_providerVars => Syncing'
  BY StepSyncing
<1>3. Syncing => TagsSynced
  BY DEF Syncing, TagsSynced
<1> QED
  BY <1>1, <1>2, <1>3, ProvidersTypeCorrect, PTL DEF ProvidersSpec

-----------------------------------------------------------------------------
(***************************************************************************)
(* The score                                                               *)
(***************************************************************************)
Storing(q) == q.pc = "writeScore"

\* As long as nothing that counts has changed, every update that is to store a
\* score has the one of the profile as it is; with none of them left, it is
\* stored.
ScoreInv ==
    ~touched =>
        /\ \A r \in Requests :
              Storing(request[r]) => request[r].score = Percent(Passed)
        /\ (\A r \in Requests : ~Storing(request[r])) => score = Percent(Passed)

\* Steps that leave alone what counts, and the scores that are to be stored.
LEMMA ScoreUntouched ==
  ASSUME ScoreInv, UNCHANGED <<dietaryTags, items, filled, score, touched>>,
         \A r \in Requests :
             \/ request'[r] = request[r]
             \/ ~Storing(request[r]) /\ ~Storing(request'[r])
  PROVE  ScoreInv'
<1>1. Percent(Passed)' = Percent(Passed)
  BY DEF Percent, Passed, ChecksTotal
<1>2. \A r \in Requests :
          /\ Storing(request[r])' <=> Storing(request[r])
          /\ Storing(request[r]) => request'[r] = request[r]
  BY DEF Storing
<1> QED
  BY <1>1, <1>2 DEF ScoreInv

\* After a step that changes what counts there is nothing to show.
LEMMA ScoreTouched ==
  ASSUME touched' = TRUE
  PROVE  ScoreInv'
  BY DEF ScoreInv

LEMMA StepScored ==
  ASSUME ProvidersTypeOK, ScoreInv, [ProvidersNext]_providerVars
  PROVE  ScoreInv'
<1>1. ~Storing(NoRequest) /\ NoRequest \in Updating \cup Removing \cup {NoRequest}
  BY DEF Storing, NoRequest
<1>2. ASSUME NEW r \in Requests, NEW withTags \in BOOLEAN, NEW tags \in SUBSET Tags,
             NEW given \in SUBSET Fields, NEW filling \in SUBSET given,
             ReadForUpdate(r, withTags, tags, given, filling)
      PROVE  ScoreInv'
  <2> DEFINE q == [pc |-> IF withTags THEN "deleteTags" ELSE "updateRow",
                   tags |-> tags, given |-> given, filling |-> filling, score |-> 0]
  <2>1. ~Storing(q) /\ ~Storing(request[r])
    BY <1>1, <1>2 DEF ReadForUpdate, BeginRequest, Storing
  <2>2. \A s \in Requests : request'[s] = IF s = r THEN q ELSE request[s]
    BY <1>2 DEF ReadForUpdate, BeginRequest, Become, ProvidersTypeOK
  <2> HIDE DEF q
  <2> QED
    BY <1>2, <2>1, <2>2, ScoreUntouched DEF ReadForUpdate
<1>3. ASSUME NEW r \in Requests,
             DeleteTags(r) \/ CreateTags(r) \/ UpdateRow(r) \/ DeleteItem(r)
      PROVE  ScoreInv'
  BY <1>3, ScoreTouched DEF DeleteTags, CreateTags, UpdateRow, DeleteItem
<1>4. ASSUME NEW r \in Requests, UpsertTags(r)
      PROVE  ScoreInv'
  <2>1. StepTo(r, "upsertTags", "createTags")
    BY <1>4 DEF UpsertTags
  <2>2. /\ request'[r].pc = "createTags"
        /\ \A s \in Requests \ {r} : request'[s] = request[s]
    BY <2>1, StepToTyped
  <2>3. ~Storing(request[r]) /\ ~Storing(request'[r])
    BY <2>1, <2>2 DEF StepTo, Storing
  <2> QED
    BY <1>4, <2>2, <2>3, ScoreUntouched DEF UpsertTags
\* The computation clears what was touched only if no older score is to be
\* stored after it.
<1>5. ASSUME NEW r \in Requests, ComputeScore(r)
      PROVE  ScoreInv'
  <2>1. /\ request[r].pc = "computeScore" /\ request[r] \in Updating
        /\ request' = [request EXCEPT ![r] =
               [request[r] EXCEPT !.pc = "writeScore", !.score = Percent(Passed)]]
    BY <1>5, UpdatingTyped DEF ComputeScore, Become
  <2>2. /\ Storing(request'[r]) /\ request'[r].score = Percent(Passed)
        /\ \A s \in Requests \ {r} : request'[s] = request[s]
    BY <2>1 DEF Updating, ProvidersTypeOK, Storing
  <2>3. Percent(Passed)' = Percent(Passed)
    BY <1>5 DEF ComputeScore, Percent, Passed, ChecksTotal
  <2>4. touched' = (touched /\ \E s \in Requests : Storing(request[s]))
    BY <1>5 DEF ComputeScore, Storing
  <2>5. ASSUME ~touched', NEW s \in Requests \ {r}, Storing(request[s])
        PROVE  request[s].score = Percent(Passed)
    BY <2>4, <2>5 DEF ScoreInv
  <2>6. ASSUME ~touched', NEW s \in Requests, Storing(request'[s])
        PROVE  request'[s].score = Percent(Passed)
    BY <2>2, <2>5, <2>6
  <2> QED
    BY <2>2, <2>3, <2>6 DEF ScoreInv
<1>6. ASSUME NEW r \in Requests, WriteScore(r)
      PROVE  ScoreInv'
  <2>1. /\ Storing(request[r]) /\ Become(r, NoRequest)
        /\ score' = request[r].score /\ touched' = touched
    BY <1>6 DEF WriteScore, WrittenScore, Storing
  <2>2. request'[r] = NoRequest /\ \A s \in Requests \ {r} : request'[s] = request[s]
    BY <1>1, <2>1, BecomeTyped
  <2>3. Percent(Passed)' = Percent(Passed)
    BY <1>6 DEF WriteScore, Percent, Passed, ChecksTotal
  <2> QED
    BY <1>1, <2>1, <2>2, <2>3 DEF ScoreInv
<1>7. ASSUME NEW r \in Requests, NEW k \in Kinds, NEW i \in ItemIds,
             ReadForRemoval(r, k, i)
      PROVE  ScoreInv'
  <2> DEFINE q == [pc |-> "delete", kind |-> k, item |-> i]
  <2>1. ~Storing(q) /\ ~Storing(request[r])
    BY <1>1, <1>7 DEF ReadForRemoval, BeginRequest, Storing
  <2>2. \A s \in Requests : request'[s] = IF s = r THEN q ELSE request[s]
    BY <1>7 DEF ReadForRemoval, BeginRequest, Become, ProvidersTypeOK
  <2> HIDE DEF q
  <2> QED
    BY <1>7, <2>1, <2>2, ScoreUntouched DEF ReadForRemoval
\* A score that is not stored is lost; whoever dies before leaves nothing.
<1>8. ASSUME NEW r \in Requests, ProviderFail(r)
      PROVE  ScoreInv'
  <2>1. /\ Become(r, NoRequest) /\ touched' = (touched \/ Storing(request[r]))
        /\ UNCHANGED <<dietaryTags, items, filled, score>>
    BY <1>8 DEF ProviderFail, Storing
  <2>2. request'[r] = NoRequest /\ \A s \in Requests \ {r} : request'[s] = request[s]
    BY <1>1, <2>1, BecomeTyped
  <2>3. CASE Storing(request[r])
    BY <2>1, <2>3, ScoreTouched
  <2>4. CASE ~Storing(request[r])
    <3>1. touched' = touched
      BY <2>1, <2>4 DEF ProvidersTypeOK
    <3> QED
      BY <1>1, <2>1, <2>2, <2>4, <3>1, ScoreUntouched
  <2> QED
    BY <2>3, <2>4
<1>9. ASSUME NEW k \in Kinds, NEW i \in ItemIds, AddItem(k, i)
      PROVE  ScoreInv'
  BY <1>9, ScoreTouched DEF AddItem
<1>10. ASSUME UNCHANGED providerVars
       PROVE  ScoreInv'
  BY <1>10, ScoreUntouched DEF providerVars
<1> QED
  BY <1>2, <1>3, <1>4, <1>5, <1>6, <1>7, <1>8, <1>9, <1>10 DEF ProvidersNext

\* computeCompletenessScore reads the profile at one await and stores the score
\* at the next, with other updates and removals in between: however they
\* overlap and die, once nothing that counts has changed since the computation
\* and no older score is still to be stored, the stored score is the one of the
\* profile as it is.
THEOREM ScoreStaysCurrent == ProvidersSpec => []ScoreIsCurrent
<1>1. ProvidersInit => ScoreInv
  BY DEF ProvidersInit, ScoreInv
<1>2. ProvidersTypeOK /\ ScoreInv /\ [ProvidersNext]_providerVars => ScoreInv'
  BY StepScored
<1>3. ScoreInv => ScoreIsCurrent
  BY DEF ScoreInv, ScoreIsCurrent, Storing
<1> QED
  BY <1>1, <1>2, <1>3, ProvidersTypeCorrect, PTL DEF ProvidersSpec
=============================================================================
