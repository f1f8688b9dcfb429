---------------------------- MODULE Matchmaking ----------------------------
(***************************************************************************)
(* MatchmakingService.rankProviders: a score for every candidate, and for  *)
(* the best of them the score the model gives instead.  Its only caller is *)
(* the search, which passes the location and the budget of the buyer and   *)
(* uses nothing but the scores of the result: the order of the result and  *)
(* the texts in it are left out.                                           *)
(***************************************************************************)
EXTENDS GroqClient, Sequences

CONSTANTS
    ProviderIds,
    TopNCount,      \* how many candidates the model is shown; 5 in the code
    Annotations     \* what the model may answer: functions from some of the
                    \* ids to a score, or to Undefined where an item has none

ASSUME TopNAssumption == TopNCount \in Nat \ {0}

ASSUME AnnotationsAssumption ==
    \A a \in Annotations : \A id \in DOMAIN a : a[id] \in Int \cup {Undefined}

VARIABLE rank   \* the ranking in each slot, with its program counter

-----------------------------------------------------------------------------
(***************************************************************************)
(* calculateDeterministicScore, in hundredths of a point.  Terms the       *)
(* search passes nothing for have their defaults: tags 10, response rate   *)
(* 10, of 100 in all.  A candidate p has averageRating in tenths; a price  *)
(* or budget of zero counts as not given.                                  *)
(***************************************************************************)
Positive(x) == x \notin {Undefined, 0}

CityScore(buyer, p) ==
    CASE Undefined \in {buyer.location, p.city} -> 1500
      [] buyer.location = p.city           -> 2500
      [] OTHER                             -> 0

RatingScore(p) == 25 * Min({100, 2 * p.averageRating})

\* Twenty points within the budget, falling to none at twice the budget.
PriceScore(buyer, p) ==
    CASE ~(Positive(buyer.budget) /\ Positive(p.basePrice)) -> 1500
      [] p.basePrice <= buyer.budget                        -> 2000
      [] OTHER -> Max({0, 4000 * buyer.budget - 2000 * p.basePrice})
                      \div buyer.budget

DeterministicScore(buyer, p) ==
    (CityScore(buyer, p) + RatingScore(p) + PriceScore(buyer, p) + 2050) \div 100

-----------------------------------------------------------------------------
\* What comes before j in the stable sort by score, descending.
Ahead(score, j) ==
    {i \in DOMAIN score : score[i] > score[j] \/ (score[i] = score[j] /\ i < j)}

\* Array.prototype.sort, where score[i] is the score of s[i].
Sorted(s, score) ==
    [k \in DOMAIN s |->
        s[CHOOSE j \in DOMAIN s : Cardinality(Ahead(score, j)) = k - 1]]

TopCandidates(s) == Range(SubSeq(s, 1, Min({TopNCount, Len(s)})))

\* Mutant: a candidate the model leaves out loses its score.
FinalScore_OrNothing(id, scores, annotations) ==
    IF id \in DOMAIN annotations THEN annotations[id] ELSE Undefined

\* An annotated candidate has the model's score, the others keep theirs.
FinalScore(id, scores, annotations) ==
    IF id \in DOMAIN annotations THEN annotations[id] ELSE scores[id]

AnnotationContents == Annotations \cup {Invalid}

\* candidates: the ids, best deterministic score first; scores: their scores,
\* deterministic until the model has answered; annotated: whose score is the
\* model's (an observation).
RankSlot ==
    [pc: {"ask", "done"}, candidates: Seq(ProviderIds),
     scores: UNION {[ids -> Int \cup {Undefined}] : ids \in SUBSET ProviderIds},
     annotated: SUBSET ProviderIds]
        \cup {[pc |-> "none"]}

NoRank == [pc |-> "none"]

RankingTypeOK == rank \in [Callers -> RankSlot]

RankingInit == rank = [c \in Callers |-> NoRank]

\* Candidates is the sequence of the candidates as the caller has them.
\* Without any, the model is not asked.
BeginRanking(c, buyer, Candidates) ==
    LET Det(p) == DeterministicScore(buyer, p)
        sorted == Sorted(Candidates,
                         [i \in DOMAIN Candidates |-> Det(Candidates[i])])
    IN  /\ rank[c] = NoRank
        /\ rank' = [rank EXCEPT ![c] =
               [pc |-> IF Candidates = <<>> THEN "done" ELSE "ask",
                candidates |-> [i \in DOMAIN sorted |-> sorted[i].id],
                scores |-> [id \in {p.id : p \in Range(sorted)} |->
                    Det(CHOOSE p \in Range(sorted) : p.id = id)],
                annotated |-> {}]]
        /\ IF Candidates = <<>> THEN UNCHANGED calls ELSE BeginChat(c)

AskForRanking(c) ==
    /\ rank[c].pc = "ask"
    /\ ChatProceeds(c, AnnotationContents)
    /\ UNCHANGED rank

TakeRanking(c) ==
    LET content == calls[c].content
        q   == rank[c]
        top == TopCandidates(q.candidates)
    IN  /\ q.pc = "ask"
        /\ Returned(c)
        /\ content \in Annotations
        /\ rank' = [rank EXCEPT ![c] =
               [q EXCEPT !.pc = "done",
                         !.scores = [id \in DOMAIN q.scores |->
                             IF id \in top THEN FinalScore(id, q.scores, content)
                             ELSE q.scores[id]],
                         !.annotated = top \cap DOMAIN content]]
        /\ ChatTaken(c)

\* No usable answer: all keep their deterministic score.
RankingUnavailable(c) ==
    /\ rank[c].pc = "ask"
    /\ Thrown(c) \/ (Returned(c) /\ calls[c].content \notin Annotations)
    /\ rank' = [rank EXCEPT ![c].pc = "done"]
    /\ ChatTaken(c)

RankingProceeds(c) ==
    \/ AskForRanking(c)
    \/ TakeRanking(c)
    \/ RankingUnavailable(c)

Ranked(c) == rank[c].pc = "done"

RankingTaken(c) == rank' = [rank EXCEPT ![c] = NoRank]
=============================================================================
