-------------------------- MODULE GroqCallersProofs --------------------------
(***************************************************************************)
(* The callers of the language model, for all numbers of slots, attempts,  *)
(* profiles and prices: the drafts of contracts, the parsing of queries,   *)
(* the search with its ranking, and the suggestion of prices.  What the    *)
(* model answers is nowhere restricted but by its JSON.                    *)
(***************************************************************************)
EXTENDS Search, Pricing, Contracts, FiniteSetTheorems, WellFoundedInduction,
        TLAPS

-----------------------------------------------------------------------------
(***************************************************************************)
(* The calls of the model                                                  *)
(***************************************************************************)
\* What a reply says is up to the callers.
CallRecord(Contents) ==
    [pc: {"none", "attempt", "backoff", "returned", "thrown"},
     attempt: Nat, elapsed: Nat, content: Contents]

\* A call that sleeps has made an attempt.
CallsInv ==
    \E Contents :
        /\ calls \in [Callers -> CallRecord(Contents)]
        /\ \A c \in Callers :
              calls[c].pc \in {"attempt", "backoff"} => calls[c].attempt >= 1

LEMMA CallsTyped ==
  ASSUME CallsInv
  PROVE  CallsTypeOK
  BY DEF CallsInv, CallRecord, CallsTypeOK, Call

\* A slot goes on to a call.
LEMMA CallGoesOn ==
  ASSUME CallsInv, NEW c \in Callers, NEW Contents, NEW call \in CallRecord(Contents),
         CallBecomes(c, call),
         call.pc \in {"attempt", "backoff"} => call.attempt >= 1
  PROVE  CallsInv'
<1>1. PICK Old :
          /\ calls \in [Callers -> CallRecord(Old)]
          /\ \A b \in Callers :
                calls[b].pc \in {"attempt", "backoff"} => calls[b].attempt >= 1
  BY DEF CallsInv
<1>2. /\ CallRecord(Old) \subseteq CallRecord(Old \cup Contents)
      /\ call \in CallRecord(Old \cup Contents)
  BY DEF CallRecord
<1>3. calls' \in [Callers -> CallRecord(Old \cup Contents)]
  BY <1>1, <1>2 DEF CallBecomes
<1>4. \A b \in Callers : calls'[b] = IF b = c THEN call ELSE calls[b]
  BY <1>1 DEF CallBecomes
<1> QED
  BY <1>1, <1>3, <1>4 DEF CallsInv

\* A number of subsets is a number.
LEMMA PowerTyped ==
  ASSUME NEW n \in Nat
  PROVE  2 ^ n \in Nat
<1>1. IsFiniteSet(1 .. n) /\ Cardinality(1 .. n) = n
  BY FS_Interval
<1>2. /\ IsFiniteSet(SUBSET (1 .. n))
      /\ Cardinality(SUBSET (1 .. n)) = 2 ^ Cardinality(1 .. n)
  BY <1>1, FS_SUBSET
<1> QED
  BY <1>1, <1>2, FS_CardinalityType

LEMMA MinMaxOfTwo ==
  ASSUME NEW a \in Int, NEW b \in Int
  PROVE  /\ Min({a, b}) \in {a, b} /\ Min({a, b}) <= a /\ Min({a, b}) <= b
         /\ Max({a, b}) \in {a, b} /\ Max({a, b}) >= a /\ Max({a, b}) >= b
<1>1. \E x \in {a, b} : \A y \in {a, b} : x =< y
  BY SMT
<1>2. \E x \in {a, b} : \A y \in {a, b} : x >= y
  BY SMT
<1> QED
  BY <1>1, <1>2 DEF Min, Max

LEMMA BackoffTyped ==
  ASSUME NEW attempt \in Nat, attempt >= 1
  PROVE  Backoff(attempt) \in Nat
<1>1. attempt - 1 \in Nat
  OBVIOUS
<1>2. PICK x \in Nat : x = 2 ^ (attempt - 1)
  BY <1>1, PowerTyped
<1>3. x \in Int /\ MaxBackoff \in Int /\ MaxBackoff \in Nat
  BY DEF MaxBackoff
<1>4. Min({x, MaxBackoff}) \in {x, MaxBackoff}
  BY <1>3, MinMaxOfTwo, Zenon
<1> QED
  BY <1>2, <1>3, <1>4 DEF Backoff

\* Everything a caller does to its call.
LEMMA CallStep ==
  ASSUME CallsInv, NEW c \in Callers,
         \/ BeginChat(c)
         \/ \E contents : ChatProceeds(c, contents)
         \/ ChatTaken(c)
  PROVE  CallsInv'
<1>1. PICK Contents :
          /\ calls \in [Callers -> CallRecord(Contents)]
          /\ \A b \in Callers :
                calls[b].pc \in {"attempt", "backoff"} => calls[b].attempt >= 1
  BY DEF CallsInv
<1>2. /\ calls[c] \in CallRecord(Contents)
      /\ calls[c].attempt \in Nat /\ calls[c].elapsed \in Nat
      /\ calls[c].content \in Contents
  BY <1>1 DEF CallRecord
<1>3. CASE BeginChat(c)
  <2> DEFINE call == IF MaxRetries = 0 THEN [calls[c] EXCEPT !.pc = "thrown"]
                     ELSE [calls[c] EXCEPT !.pc = "attempt", !.attempt = 1]
  <2>1. CallBecomes(c, call)
    BY <1>3 DEF BeginChat
  <2>2. call \in CallRecord(Contents)
    BY <1>2 DEF CallRecord
  <2>3. call.pc \in {"attempt", "backoff"} => call.attempt >= 1
    BY <1>2 DEF CallRecord
  <2> HIDE DEF call
  <2> QED
    BY <2>1, <2>2, <2>3, CallGoesOn
<1>4. ASSUME NEW contents, ChatProceeds(c, contents)
      PROVE  CallsInv'
  <2>1. CASE AttemptFails(c)
    <3> DEFINE call == [calls[c] EXCEPT !.pc = AfterFailure(calls[c]),
                                        !.elapsed = calls[c].elapsed + Timeout]
    <3>1. CallBecomes(c, call) /\ calls[c].attempt >= 1
      BY <1>1, <2>1 DEF AttemptFails
    <3>2. call \in CallRecord(Contents) /\ call.attempt = calls[c].attempt
      <4>1. calls[c].elapsed + Timeout \in Nat
        BY <1>2, TimeoutAssumption
      <4>2. AfterFailure(calls[c]) \in {"backoff", "thrown"}
        BY DEF AfterFailure
      <4> QED
        BY <1>2, <4>1, <4>2 DEF CallRecord
    <3> HIDE DEF call
    <3> QED
      BY <3>1, <3>2, CallGoesOn
  <2>2. ASSUME NEW content \in contents, ReplyArrives(c, content)
        PROVE  CallsInv'
    <3> DEFINE call == [calls[c] EXCEPT !.pc = "returned", !.content = content,
                                        !.elapsed = calls[c].elapsed + Timeout]
    <3>1. CallBecomes(c, call)
      BY <2>2 DEF ReplyArrives
    <3>2. call \in CallRecord(contents) /\ call.pc = "returned"
      <4>1. calls[c].elapsed + Timeout \in Nat
        BY <1>2, TimeoutAssumption
      <4> QED
        BY <1>2, <2>2, <4>1 DEF CallRecord
    <3> HIDE DEF call
    <3> QED
      BY <3>1, <3>2, CallGoesOn
  <2>3. CASE NextAttempt(c)
    <3> DEFINE call == [calls[c] EXCEPT !.pc = "attempt",
                            !.attempt = calls[c].attempt + 1,
                            !.elapsed = calls[c].elapsed + Backoff(calls[c].attempt)]
    <3>1. CallBecomes(c, call) /\ calls[c].attempt >= 1
      BY <1>1, <2>3 DEF NextAttempt
    <3>2. Backoff(calls[c].attempt) \in Nat
      BY <1>2, <3>1, BackoffTyped
    <3>3. call \in CallRecord(Contents) /\ call.attempt >= 1
      <4>1. /\ calls[c].elapsed + Backoff(calls[c].attempt) \in Nat
            /\ calls[c].attempt + 1 \in Nat /\ calls[c].attempt + 1 >= 1
        BY <1>2, <3>2
      <4> QED
        BY <1>2, <4>1 DEF CallRecord
    <3> HIDE DEF call
    <3> QED
      BY <3>1, <3>3, CallGoesOn
  <2> QED
    BY <1>4, <2>1, <2>2, <2>3 DEF ChatProceeds
<1>5. CASE ChatTaken(c)
  <2>1. CallBecomes(c, NoCall)
    BY <1>5 DEF ChatTaken
  <2>2. NoCall \in CallRecord({Undefined}) /\ NoCall.pc = "none"
    BY DEF NoCall, CallRecord
  <2> QED
    BY <2>1, <2>2, CallGoesOn
<1> QED
  BY <1>3, <1>4, <1>5

LEMMA CallsBegin ==
  ASSUME CallsInit
  PROVE  CallsInv
<1>1. NoCall \in CallRecord({Undefined}) /\ NoCall.pc = "none"
  BY DEF NoCall, CallRecord
<1>2. calls \in [Callers -> CallRecord({Undefined})] /\ \A c \in Callers : calls[c] = NoCall
  BY <1>1 DEF CallsInit
<1> QED
  BY <1>1, <1>2 DEF CallsInv

-----------------------------------------------------------------------------
(***************************************************************************)
(* The time of a call                                                      *)
(***************************************************************************)
\* Induction over the numbers, for sets: every set of numbers has a least.
LEMMA LeastNumber ==
  ASSUME NEW T, T \subseteq Nat, T # {}
  PROVE  \E x \in T : \A y \in T : x <= y
<1>1. IsWellFoundedOn({p \in Nat \X Nat : p[1] < p[2]}, Nat)
  BY NatLessThanWellFounded DEF OpToRel
<1>2. PICK x \in T : \A y \in T : <<y, x>> \notin {p \in Nat \X Nat : p[1] < p[2]}
  BY <1>1, WFMin, Zenon
<1>3. \A y \in T : ~(y < x) /\ y \in Nat /\ x \in Nat
  BY <1>2
<1> QED
  BY <1>3

LEMMA NumbersInduct ==
  ASSUME NEW S, 0 \in S, \A n \in Nat : n \in S => n + 1 \in S
  PROVE  Nat \subseteq S
<1>1. SUFFICES ASSUME Nat \ S # {}
               PROVE  FALSE
  OBVIOUS
<1>2. PICK x \in Nat \ S : \A y \in Nat \ S : x <= y
  BY <1>1, LeastNumber
<1>3. x # 0 /\ x - 1 \in Nat /\ x - 1 \notin Nat \ S
  BY <1>2
<1> QED
  BY <1>2, <1>3

\* The sleeps: 500 ms, 1, 2 and 4 s, then 8 s each.
LEMMA BackoffIs ==
  /\ Backoff(1) = 1 /\ Backoff(2) = 2 /\ Backoff(3) = 4 /\ Backoff(4) = 8
  /\ \A n \in Nat : n >= 5 => Backoff(n) = 16
<1>1. ASSUME NEW x \in Int
      PROVE  /\ x <= 16 => Min({x, 16}) = x
             /\ x >= 16 => Min({x, 16}) = 16
  <2>1. 16 \in Int
    OBVIOUS
  <2>2. Min({x, 16}) \in {x, 16} /\ Min({x, 16}) <= x /\ Min({x, 16}) <= 16
    BY <2>1, MinMaxOfTwo, Zenon
  <2> QED
    BY <2>2
<1>2. 2 ^ (1 - 1) = 1 /\ 2 ^ (2 - 1) = 2 /\ 2 ^ (3 - 1) = 4 /\ 2 ^ (4 - 1) = 8
  BY SMT
<1>3. ASSUME NEW n \in Nat, n >= 5
      PROVE  Backoff(n) = 16
  <2>1. PICK m \in Nat : m = n - 1 /\ m >= 4
    BY <1>3
  <2>2. PICK x \in Nat : x = 2 ^ m
    BY PowerTyped
  <2>3. 16 <= 2 ^ m
    <3>1. /\ IsFiniteSet(1 .. 4) /\ Cardinality(1 .. 4) = 4
          /\ IsFiniteSet(1 .. m) /\ Cardinality(1 .. m) = m
      <4>1. ASSUME NEW k \in Nat
            PROVE  IsFiniteSet(1 .. k) /\ Cardinality(1 .. k) = k
        BY FS_Interval
      <4> QED
        BY <4>1
    <3>2. /\ Cardinality(SUBSET (1 .. 4)) = 2 ^ 4
          /\ IsFiniteSet(SUBSET (1 .. m)) /\ Cardinality(SUBSET (1 .. m)) = 2 ^ m
      BY <3>1, FS_SUBSET
    <3>3. SUBSET (1 .. 4) \in SUBSET (SUBSET (1 .. m))
      BY <2>1
    <3>4. Cardinality(SUBSET (1 .. 4)) <= Cardinality(SUBSET (1 .. m))
      BY <3>2, <3>3, FS_Subset
    <3>5. 2 ^ 4 = 16
      BY SMT
    <3> QED
      BY <3>2, <3>4, <3>5
  <2>4. x \in Int /\ x >= 16
    BY <2>2, <2>3
  <2>5. Min({x, 16}) = 16
    BY <1>1, <2>4
  <2> QED
    BY <2>1, <2>2, <2>5 DEF Backoff, MaxBackoff
<1>4. Backoff(1) = Min({1, 16}) /\ Backoff(2) = Min({2, 16})
      /\ Backoff(3) = Min({4, 16}) /\ Backoff(4) = Min({8, 16})
  BY <1>2, Zenon DEF Backoff, MaxBackoff
<1> QED
  BY <1>1, <1>3, <1>4

\* The recursion of Slept has a solution, and Slept is it.
LEMMA SleptIs ==
  /\ Slept[0] = 0
  /\ \A n \in Nat : Slept[n] \in Nat /\ Slept[n + 1] = Slept[n] + Backoff(n + 1)
<1> DEFINE sum == [n \in Nat |-> IF n = 0 THEN 0 ELSE IF n = 1 THEN 1
                                 ELSE IF n = 2 THEN 3 ELSE IF n = 3 THEN 7
                                 ELSE 16 * n - 49]
<1>1. sum = [n \in Nat |-> IF n = 0 THEN 0 ELSE sum[n - 1] + Backoff(n)]
  <2>1. ASSUME NEW n \in Nat
        PROVE  sum[n] = IF n = 0 THEN 0 ELSE sum[n - 1] + Backoff(n)
    <3>1. CASE n = 0
      BY <3>1
    <3>2. CASE n \in 1 .. 4
      <4>1. n = 1 \/ n = 2 \/ n = 3 \/ n = 4
        BY <3>2
      <4> QED
        BY <4>1, BackoffIs
    <3>3. CASE n >= 5
      BY <3>3, BackoffIs
    <3> QED
      BY <3>1, <3>2, <3>3
  <2> QED
    BY <2>1
<1> HIDE DEF sum
<1>2. Slept = [n \in Nat |-> IF n = 0 THEN 0 ELSE Slept[n - 1] + Backoff(n)]
  BY <1>1, Zenon DEF Slept
<1>3. Slept[0] = 0
  BY <1>2
<1>4. \A n \in Nat : Slept[n + 1] = Slept[n] + Backoff(n + 1)
  BY <1>2
<1>5. Nat \subseteq {n \in Nat : Slept[n] \in Nat}
  <2>1. ASSUME NEW n \in Nat, Slept[n] \in Nat
        PROVE  Slept[n + 1] \in Nat
    <3>1. n + 1 \in Nat /\ n + 1 >= 1
      OBVIOUS
    <3>2. Backoff(n + 1) \in Nat
      BY <3>1, BackoffTyped
    <3> QED
      BY <1>4, <2>1, <3>2
  <2> DEFINE S == {n \in Nat : Slept[n] \in Nat}
  <2>2. 0 \in S /\ \A n \in Nat : n \in S => n + 1 \in S
    BY <1>3, <2>1
  <2> HIDE DEF S
  <2>3. Nat \subseteq S
    BY <2>2, NumbersInduct
  <2> QED
    BY <2>3 DEF S
<1> QED
  BY <1>3, <1>4, <1>5

LEMMA SleptGrows ==
  ASSUME NEW m \in Nat, NEW n \in Nat, m <= n
  PROVE  Slept[m] <= Slept[n]
<1> DEFINE S == {k \in Nat : Slept[m] <= Slept[m + k]}
<1>1. 0 \in S
  BY SleptIs
<1>2. ASSUME NEW k \in Nat, k \in S
      PROVE  k + 1 \in S
  <2>1. PICK j \in Nat : j = m + k
    OBVIOUS
  <2>2. Slept[j + 1] = Slept[j] + Backoff(j + 1) /\ Slept[j] \in Nat /\ Slept[m] \in Nat
    BY SleptIs
  <2>3. j + 1 \in Nat /\ j + 1 >= 1 /\ m + (k + 1) = j + 1
    BY <2>1
  <2>4. Backoff(j + 1) \in Nat
    BY <2>3, BackoffTyped
  <2>5. Slept[m] <= Slept[j]
    BY <1>2, <2>1
  <2>6. Slept[m] <= Slept[j + 1]
    BY <2>2, <2>4, <2>5
  <2> QED
    BY <2>3, <2>6
<1> HIDE DEF S
<1>3. Nat \subseteq S
  BY <1>1, <1>2, NumbersInduct
<1>4. n - m \in Nat /\ m + (n - m) = n
  OBVIOUS
<1> QED
  BY <1>3, <1>4 DEF S

\* So many attempts, with the sleeps before the last of them, fit.
LEMMA AttemptsFit ==
  ASSUME NEW a \in Nat, 1 <= a, a <= MaxRetries
  PROVE  a * Timeout + Slept[a - 1] <= Patience
<1>1. MaxRetries \in Nat /\ Timeout \in Nat
  BY MaxRetriesAssumption, TimeoutAssumption
<1>2. PICK i \in Nat, j \in Nat : i = a - 1 /\ j = MaxRetries - 1 /\ i <= j
  BY <1>1
<1>3. Slept[i] <= Slept[j] /\ Slept[i] \in Nat /\ Slept[j] \in Nat
  BY <1>2, SleptGrows, SleptIs
<1>4. a * Timeout <= MaxRetries * Timeout /\ a * Timeout \in Nat
      /\ MaxRetries * Timeout \in Nat
  BY <1>1
<1>5. Patience = MaxRetries * Timeout + Slept[j]
  BY <1>1, <1>2 DEF Patience
<1> QED
  BY <1>2, <1>3, <1>4, <1>5

LEMMA PatienceTyped == Patience \in Nat
<1>1. MaxRetries \in Nat /\ Timeout \in Nat /\ MaxRetries * Timeout \in Nat
  BY MaxRetriesAssumption, TimeoutAssumption
<1>2. CASE MaxRetries = 0
  BY <1>1, <1>2 DEF Patience
<1>3. CASE MaxRetries # 0
  <2>1. PICK j \in Nat : j = MaxRetries - 1
    BY <1>1, <1>3
  <2>2. Slept[j] \in Nat
    BY SleptIs
  <2> QED
    BY <1>1, <1>3, <2>1, <2>2 DEF Patience
<1> QED
  BY <1>2, <1>3

\* How long a call can have taken where it is.
Timed(call) ==
    /\ call.pc = "none" => call.attempt = 0 /\ call.elapsed = 0
    /\ call.pc = "attempt" =>
          /\ 1 <= call.attempt /\ call.attempt <= MaxRetries
          /\ call.elapsed <= (call.attempt - 1) * Timeout + Slept[call.attempt - 1]
    /\ call.pc = "backoff" =>
          /\ 1 <= call.attempt /\ call.attempt < MaxRetries
          /\ call.elapsed <= call.attempt * Timeout + Slept[call.attempt - 1]
    /\ call.pc \in {"returned", "thrown"} =>
          call.attempt <= MaxRetries /\ call.elapsed <= Patience

TimeInv == CallsInv /\ \A c \in Callers : Timed(calls[c])

LEMMA TimedGoesOn ==
  ASSUME TimeInv, CallsInv', NEW c \in Callers, NEW call, CallBecomes(c, call), Timed(call)
  PROVE  TimeInv'
<1>1. \A b \in Callers : calls'[b] = IF b = c THEN call ELSE calls[b]
  BY DEF TimeInv, CallsInv, CallBecomes
<1>2. \A b \in Callers : Timed(calls'[b])
  BY <1>1 DEF TimeInv
<1> QED
  BY <1>2 DEF TimeInv, Timed

\* Everything a caller does to its call keeps it in time.
LEMMA TimedStep ==
  ASSUME TimeInv, NEW c \in Callers,
         \/ BeginChat(c)
         \/ \E contents : ChatProceeds(c, contents)
         \/ ChatTaken(c)
  PROVE  TimeInv'
<1>1. CallsInv'
  BY CallStep DEF TimeInv
<1>2. MaxRetries \in Nat /\ Timeout \in Nat /\ Patience \in Nat
  BY MaxRetriesAssumption, TimeoutAssumption, PatienceTyped
<1>3. PICK Contents : calls \in [Callers -> CallRecord(Contents)]
  BY DEF TimeInv, CallsInv
<1>4. PICK old : old = calls[c] /\ old \in CallRecord(Contents) /\ Timed(old)
  BY <1>3 DEF TimeInv
<1>5. PICK a \in Nat, e \in Nat : a = old.attempt /\ e = old.elapsed
  BY <1>4 DEF CallRecord
<1>6. CASE BeginChat(c)
  <2>1. old.pc = "none" /\ a = 0 /\ e = 0
    BY <1>4, <1>5, <1>6 DEF BeginChat, Timed
  <2>2. CASE MaxRetries = 0
    <3>1. PICK call : call = [old EXCEPT !.pc = "thrown"]
      OBVIOUS
    <3>2. CallBecomes(c, call)
      BY <1>4, <1>6, <2>2, <3>1 DEF BeginChat
    <3>3. call.pc = "thrown" /\ call.attempt = 0 /\ call.elapsed = 0
      BY <1>4, <1>5, <2>1, <3>1 DEF CallRecord
    <3>4. Timed(call)
      BY <1>2, <3>3 DEF Timed
    <3> QED
      BY <1>1, <3>2, <3>4, TimedGoesOn
  <2>3. CASE MaxRetries # 0
    <3>1. PICK call : call = [old EXCEPT !.pc = "attempt", !.attempt = 1]
      OBVIOUS
    <3>2. CallBecomes(c, call)
      BY <1>4, <1>6, <2>3, <3>1 DEF BeginChat
    <3>3. call.pc = "attempt" /\ call.attempt = 1 /\ call.elapsed = 0
      BY <1>4, <1>5, <2>1, <3>1 DEF CallRecord
    <3>4. 0 <= (1 - 1) * Timeout + Slept[1 - 1] /\ 1 <= MaxRetries
      BY <1>2, <2>3, SleptIs
    <3>5. Timed(call)
      BY <3>3, <3>4 DEF Timed
    <3> QED
      BY <1>1, <3>2, <3>5, TimedGoesOn
  <2> QED
    BY <2>2, <2>3
\* What an attempt may take at most is still there when it starts.
<1>7. ASSUME old.pc = "attempt"
      PROVE  /\ 1 <= a /\ a <= MaxRetries
             /\ e + Timeout <= a * Timeout + Slept[a - 1]
             /\ e + Timeout <= Patience
  <2>1. 1 <= a /\ a <= MaxRetries /\ e <= (a - 1) * Timeout + Slept[a - 1]
    BY <1>4, <1>5, <1>7 DEF Timed
  <2>2. PICK i \in Nat : i = a - 1
    BY <2>1
  <2>3. PICK s \in Nat : s = Slept[i]
    BY SleptIs
  <2>4. PICK x \in Nat, y \in Nat : x = i * Timeout /\ y = a * Timeout
    BY <1>2
  <2>5. y = x + Timeout
    BY <1>2, <2>2, <2>4
  <2>6. y + s <= Patience
    BY <2>1, <2>2, <2>3, <2>4, AttemptsFit
  <2>7. e <= x + s
    BY <2>1, <2>2, <2>3, <2>4
  <2>8. e + Timeout <= y + s
    BY <1>2, <2>5, <2>7
  <2> QED
    BY <1>2, <2>1, <2>2, <2>3, <2>4, <2>6, <2>8
<1>8. ASSUME NEW contents, ChatProceeds(c, contents)
      PROVE  TimeInv'
  <2>1. CASE AttemptFails(c)
    <3>1. PICK call : call = [old EXCEPT !.pc = AfterFailure(old), !.elapsed = e + Timeout]
      OBVIOUS
    <3>2. CallBecomes(c, call) /\ old.pc = "attempt"
      BY <1>4, <1>5, <2>1, <3>1 DEF AttemptFails
    <3>3. /\ call.pc = AfterFailure(old) /\ call.attempt = a
          /\ call.elapsed = e + Timeout
      BY <1>4, <1>5, <3>1 DEF CallRecord
    <3>4. AfterFailure(old) = IF a < MaxRetries THEN "backoff" ELSE "thrown"
      BY <1>5 DEF AfterFailure
    <3>5. Timed(call)
      BY <1>7, <3>2, <3>3, <3>4 DEF Timed
    <3> QED
      BY <1>1, <3>2, <3>5, TimedGoesOn
  <2>2. ASSUME NEW content \in contents, ReplyArrives(c, content)
        PROVE  TimeInv'
    <3>1. PICK call : call = [old EXCEPT !.pc = "returned", !.content = content,
                                         !.elapsed = e + Timeout]
      OBVIOUS
    <3>2. CallBecomes(c, call) /\ old.pc = "attempt"
      BY <1>4, <1>5, <2>2, <3>1 DEF ReplyArrives
    <3>3. call.pc = "returned" /\ call.attempt = a /\ call.elapsed = e + Timeout
      BY <1>4, <1>5, <3>1 DEF CallRecord
    <3>4. Timed(call)
      BY <1>7, <3>2, <3>3 DEF Timed
    <3> QED
      BY <1>1, <3>2, <3>4, TimedGoesOn
  <2>3. CASE NextAttempt(c)
    <3>1. PICK call : call = [old EXCEPT !.pc = "attempt", !.attempt = a + 1,
                                         !.elapsed = e + Backoff(a)]
      OBVIOUS
    <3>2. CallBecomes(c, call) /\ old.pc = "backoff"
      BY <1>4, <1>5, <2>3, <3>1 DEF NextAttempt
    <3>3. call.pc = "attempt" /\ call.attempt = a + 1 /\ call.elapsed = e + Backoff(a)
      BY <1>4, <1>5, <3>1 DEF CallRecord
    <3>4. 1 <= a /\ a < MaxRetries /\ e <= a * Timeout + Slept[a - 1]
      BY <1>4, <1>5, <3>2 DEF Timed
    <3>5. Slept[a] = Slept[a - 1] + Backoff(a) /\ Slept[a] \in Nat /\ Slept[a - 1] \in Nat
      <4>1. PICK i \in Nat : i = a - 1 /\ i + 1 = a
        BY <3>4
      <4>2. Slept[i + 1] = Slept[i] + Backoff(i + 1) /\ Slept[i] \in Nat
        BY SleptIs
      <4> QED
        BY <4>1, <4>2, SleptIs
    <3>6. Backoff(a) \in Nat
      BY <3>4, BackoffTyped
    <3>7. PICK y \in Nat : y = a * Timeout
      BY <1>2
    <3>8. e + Backoff(a) <= y + Slept[a]
      BY <3>4, <3>5, <3>6, <3>7
    <3>9. (a + 1) - 1 = a /\ 1 <= a + 1 /\ a + 1 <= MaxRetries
      BY <1>2, <3>4
    <3>10. Timed(call)
      BY <3>3, <3>7, <3>8, <3>9 DEF Timed
    <3> QED
      BY <1>1, <3>2, <3>10, TimedGoesOn
  <2> QED
    BY <1>8, <2>1, <2>2, <2>3 DEF ChatProceeds
<1>9. CASE ChatTaken(c)
  <2>1. CallBecomes(c, NoCall)
    BY <1>9 DEF ChatTaken
  <2>2. Timed(NoCall)
    BY DEF NoCall, Timed
  <2> QED
    BY <1>1, <2>1, <2>2, TimedGoesOn
<1> QED
  BY <1>6, <1>8, <1>9

LEMMA TimesBegin ==
  ASSUME CallsInit
  PROVE  TimeInv
<1>1. \A c \in Callers : calls[c] = NoCall
  BY DEF CallsInit
<1> QED
  BY <1>1, CallsBegin DEF TimeInv, Timed, NoCall

\* In time where it is, a call is in time.
LEMMA TimesAreKept ==
  ASSUME TimeInv
  PROVE  CallInTime
<1>1. SUFFICES ASSUME NEW c \in Callers
               PROVE  /\ calls[c].attempt <= MaxRetries
                      /\ calls[c].elapsed <= Patience
                      /\ calls[c].pc = "attempt" => calls[c].elapsed + Timeout <= Patience
  BY DEF CallInTime
<1>2. MaxRetries \in Nat /\ Timeout \in Nat /\ Patience \in Nat
  BY MaxRetriesAssumption, TimeoutAssumption, PatienceTyped
<1>3. PICK Contents : calls[c] \in CallRecord(Contents)
  BY DEF TimeInv, CallsInv
<1>4. PICK a \in Nat, e \in Nat : a = calls[c].attempt /\ e = calls[c].elapsed
  BY <1>3 DEF CallRecord
<1>5. Timed(calls[c])
  BY DEF TimeInv
<1>6. calls[c].pc \in {"none", "attempt", "backoff", "returned", "thrown"}
  BY <1>3 DEF CallRecord
<1>7. CASE calls[c].pc = "attempt"
  <2>1. 1 <= a /\ a <= MaxRetries /\ e <= (a - 1) * Timeout + Slept[a - 1]
    BY <1>4, <1>5, <1>7 DEF Timed
  <2>2. PICK i \in Nat : i = a - 1
    BY <2>1
  <2>3. PICK s \in Nat : s = Slept[i]
    BY SleptIs
  <2>4. PICK x \in Nat, y \in Nat : x = i * Timeout /\ y = a * Timeout
    BY <1>2
  <2>5. y = x + Timeout
    BY <1>2, <2>2, <2>4
  <2>6. y + s <= Patience
    BY <2>1, <2>2, <2>3, <2>4, AttemptsFit
  <2>7. e <= x + s
    BY <2>1, <2>2, <2>3, <2>4
  <2> QED
    BY <1>2, <1>4, <2>1, <2>5, <2>6, <2>7
<1>8. CASE calls[c].pc = "backoff"
  <2>1. 1 <= a /\ a < MaxRetries /\ e <= a * Timeout + Slept[a - 1]
    BY <1>4, <1>5, <1>8 DEF Timed
  <2>2. a * Timeout + Slept[a - 1] <= Patience
    BY <1>2, <2>1, AttemptsFit
  <2>3. PICK i \in Nat : i = a - 1
    BY <2>1
  <2>4. PICK s \in Nat, y \in Nat : s = Slept[a - 1] /\ y = a * Timeout
    BY <1>2, <2>3, SleptIs
  <2> QED
    BY <1>2, <1>4, <1>8, <2>1, <2>2, <2>4
<1>9. CASE calls[c].pc \notin {"attempt", "backoff"}
  BY <1>2, <1>4, <1>5, <1>6, <1>9 DEF Timed
<1> QED
  BY <1>7, <1>8, <1>9

LEMMA DraftsInTime == DraftsSpec => []TimeInv
<1>1. DraftsInit => TimeInv
  BY TimesBegin DEF DraftsInit
<1>2. ASSUME TimeInv, [DraftsNext]_draftVars
      PROVE  TimeInv'
  <2>1. ASSUME UNCHANGED calls
        PROVE  TimeInv'
    BY <1>2, <2>1 DEF TimeInv, CallsInv, Timed
  <2>2. ASSUME NEW c \in Callers, DraftProceeds(c)
        PROVE  TimeInv'
    BY <1>2, <2>2, TimedStep
       DEF DraftProceeds, LoadTemplate, AskForDraft, TakeDraft, DraftUnavailable
  <2> QED
    BY <1>2, <2>1, <2>2 DEF DraftsNext, draftVars, BeginDraft, EndDraft
<1> QED
  BY <1>1, <1>2, PTL DEF DraftsSpec

LEMMA SearchesInTime == SearchSpec => []TimeInv
<1>1. SearchInit => TimeInv
  BY TimesBegin DEF SearchInit
<1>2. ASSUME TimeInv, [SearchNext]_searchVars
      PROVE  TimeInv'
  <2>1. ASSUME UNCHANGED calls
        PROVE  TimeInv'
    BY <1>2, <2>1 DEF TimeInv, CallsInv, Timed
  <2>2. ASSUME NEW c \in Callers, ParseProceeds(c)
        PROVE  TimeInv'
    BY <1>2, <2>1, <2>2, TimedStep
       DEF ParseProceeds, ParseHit, ParseMiss, AskForParse, TakeParse,
           ParseUnavailable, StoreParse
  <2>3. ASSUME NEW c \in Callers, Fetch(c)
        PROVE  TimeInv'
    BY <1>2, <2>1, <2>3, TimedStep DEF Fetch, BeginRanking
  <2>4. ASSUME NEW c \in Callers, RankingProceeds(c)
        PROVE  TimeInv'
    BY <1>2, <2>4, TimedStep
       DEF RankingProceeds, AskForRanking, TakeRanking, RankingUnavailable
  <2>5. ASSUME NEW c \in Callers, SearchProceeds(c)
        PROVE  TimeInv'
    BY <2>1, <2>2, <2>3, <2>4, <2>5
       DEF SearchProceeds, TakeParsed, FetchRefused, TakeRanked
  <2> QED
    BY <1>2, <2>1, <2>5
       DEF SearchNext, searchVars, BeginSearch, EndSearch, ParseExpires
<1> QED
  BY <1>1, <1>2, PTL DEF SearchSpec

LEMMA PricesInTime == PricingSpec => []TimeInv
<1>1. PricingInit => TimeInv
  BY TimesBegin DEF PricingInit
<1>2. ASSUME TimeInv, [PricingNext]_priceVars
      PROVE  TimeInv'
  <2>1. ASSUME UNCHANGED calls
        PROVE  TimeInv'
    BY <1>2, <2>1 DEF TimeInv, CallsInv, Timed
  <2>2. ASSUME NEW c \in Callers, PricingProceeds(c)
        PROVE  TimeInv'
    BY <1>2, <2>1, <2>2, TimedStep
       DEF PricingProceeds, PriceHit, PriceMiss, AskForOpinion, TakeOpinion,
           OpinionUnavailable, StoreSuggestion
  <2> QED
    BY <1>2, <2>1, <2>2
       DEF PricingNext, priceVars, BeginPricing, EndPricing, PriceExpires
<1> QED
  BY <1>1, <1>2, PTL DEF PricingSpec

\* chat, for every number of attempts and every timeout: a call makes no more
\* attempts than GROQ_MAX_RETRIES, and with what it sleeps between two of them it
\* ends in the time that leaves it, whoever calls: a draft, a search or a price.
THEOREM CallsEndInTime ==
  /\ DraftsSpec => []CallInTime
  /\ SearchSpec => []CallInTime
  /\ PricingSpec => []CallInTime
<1>1. TimeInv => CallInTime
  BY TimesAreKept
<1>2. DraftsSpec => []CallInTime
  BY <1>1, DraftsInTime, PTL
<1>3. SearchSpec => []CallInTime
  BY <1>1, SearchesInTime, PTL
<1>4. PricingSpec => []CallInTime
  BY <1>1, PricesInTime, PTL
<1> QED
  BY <1>2, <1>3, <1>4

-----------------------------------------------------------------------------
(***************************************************************************)
(* Drafts of contracts                                                     *)
(***************************************************************************)
\* A draft is answered for the order it was asked for.
DraftFlagged(q) ==
    q.pc = "answered" =>
        \/ ~q.order.noCancellation
        \/ q.draft.flags \cap {"prohibitsCancellation", "standardContract"} # {}

DraftingInv ==
    /\ DOMAIN drafting = Callers
    /\ \A c \in Callers : DraftFlagged(drafting[c])

\* A slot goes on to what is flagged as it should be.
LEMMA DraftGoesOn ==
  ASSUME DraftingInv, NEW c \in Callers, NEW q, DraftGoTo(c, q), DraftFlagged(q)
  PROVE  DraftingInv'
<1>1. DOMAIN drafting' = Callers
  BY DEF DraftGoTo, DraftingInv
<1>2. \A b \in Callers : drafting'[b] = IF b = c THEN q ELSE drafting[b]
  BY DEF DraftGoTo, DraftingInv
<1> QED
  BY <1>1, <1>2 DEF DraftingInv, DraftFlagged

LEMMA DraftStepFlagged ==
  ASSUME DraftingInv, [DraftsNext]_draftVars
  PROVE  DraftingInv'
<1>1. ASSUME NEW c \in Callers, NEW order \in Order, BeginDraft(c, order)
      PROVE  DraftingInv'
  <2>1. DraftFlagged([pc |-> "load", order |-> order])
    BY DEF DraftFlagged
  <2> QED
    BY <1>1, <2>1, DraftGoesOn DEF BeginDraft
<1>2. ASSUME NEW c \in Callers, LoadTemplate(c)
      PROVE  DraftingInv'
  <2> DEFINE q == [drafting[c] EXCEPT !.pc = "ask"]
  <2>1. drafting[c].pc = "load" /\ DraftGoTo(c, q)
    BY <1>2 DEF LoadTemplate
  <2>2. DraftFlagged(q)
    BY <2>1 DEF DraftFlagged
  <2> QED
    BY <2>1, <2>2, DraftGoesOn
<1>3. ASSUME NEW c \in Callers, AskForDraft(c)
      PROVE  DraftingInv'
  BY <1>3 DEF AskForDraft, DraftingInv
\* Silence of the model, or flags that are no list, do not get past the check.
<1>4. ASSUME NEW c \in Callers, TakeDraft(c)
      PROVE  DraftingInv'
  <2> DEFINE order == drafting[c].order
             reply == calls[c].content
             draft == IF Usable(reply, order) THEN Drafted(reply, order)
                      ELSE StandardContract
  <2>1. DraftGoTo(c, [pc |-> "answered", order |-> order, draft |-> draft])
    BY <1>4 DEF TakeDraft
  <2>2. CASE Usable(reply, order)
    BY <2>1, <2>2, DraftGoesOn DEF DraftFlagged, Drafted, RuleFlags
  <2>3. CASE ~Usable(reply, order)
    BY <2>1, <2>3, DraftGoesOn DEF DraftFlagged, StandardContract
  <2> QED
    BY <2>2, <2>3
<1>5. ASSUME NEW c \in Callers, DraftUnavailable(c)
      PROVE  DraftingInv'
  BY <1>5, DraftGoesOn DEF DraftUnavailable, DraftFlagged, StandardContract
<1>6. ASSUME NEW c \in Callers, EndDraft(c)
      PROVE  DraftingInv'
  BY <1>6, DraftGoesOn DEF EndDraft, DraftFlagged, NoDraft
<1>7. ASSUME UNCHANGED draftVars
      PROVE  DraftingInv'
  BY <1>7 DEF draftVars, DraftingInv
<1> QED
  BY <1>1, <1>2, <1>3, <1>4, <1>5, <1>6, <1>7 DEF DraftsNext, DraftProceeds

\* generateContract checks the cancellation terms itself, whatever the model
\* answers and however often it fails: a draft that forbids cancellation is
\* flagged for it, or is the standard contract and says so.
THEOREM CancellationsAreFlagged == DraftsSpec => []CancellationIsFlagged
<1>1. DraftsInit => DraftingInv
  BY DEF DraftsInit, DraftingInv, DraftFlagged, NoDraft
<1>2. DraftingInv /\ [DraftsNext]_draftVars => DraftingInv'
  BY DraftStepFlagged
<1>3. DraftingInv => CancellationIsFlagged
  BY DEF DraftingInv, DraftFlagged, CancellationIsFlagged
<1> QED
  BY <1>1, <1>2, <1>3, PTL DEF DraftsSpec

\* The type of the drafts, their calls and the templates that have been read.
THEOREM DraftsTypeCorrect == DraftsSpec => []DraftsTypeOK
<1> DEFINE Typed == /\ templates \subseteq ContractCategories
                    /\ drafting \in [Callers -> DraftSlot]
<1>1. DraftsInit => Typed
  BY DEF DraftsInit, DraftSlot
<1>2. ASSUME Typed, [DraftsNext]_draftVars
      PROVE  Typed'
  <2>1. ASSUME NEW c \in Callers, NEW q \in DraftSlot, DraftGoTo(c, q)
        PROVE  (drafting \in [Callers -> DraftSlot])'
    BY <1>2, <2>1 DEF DraftGoTo
  <2>2. \A order \in Order : ContractCategory(order.category) \in ContractCategories
    BY DEF ContractCategory, CategoryMap, ContractCategories
  <2>3. ASSUME NEW c \in Callers, NEW order \in Order, BeginDraft(c, order)
        PROVE  Typed'
    <3>1. [pc |-> "load", order |-> order] \in DraftSlot
      BY DEF DraftSlot
    <3> QED
      BY <1>2, <2>1, <2>3, <3>1 DEF BeginDraft
  <2>4. ASSUME NEW c \in Callers, LoadTemplate(c)
        PROVE  Typed'
    <3>1. /\ drafting[c].order \in Order
          /\ [drafting[c] EXCEPT !.pc = "ask"] \in DraftSlot
      BY <1>2, <2>4 DEF LoadTemplate, DraftSlot, NoDraft
    <3> QED
      BY <1>2, <2>1, <2>2, <2>4, <3>1 DEF LoadTemplate
  <2>5. ASSUME NEW order \in Order, NEW draft \in Draft
        PROVE  [pc |-> "answered", order |-> order, draft |-> draft] \in DraftSlot
    BY DEF DraftSlot
  <2>6. /\ StandardContract \in Draft
        /\ \A order \in Order : \A reply : Drafted(reply, order) \in Draft
    BY DEF StandardContract, Drafted, RuleFlags, Draft, DraftFlags
  <2>7. ASSUME NEW c \in Callers, drafting[c].pc = "ask"
        PROVE  drafting[c].order \in Order
    BY <1>2, <2>7 DEF DraftSlot, NoDraft
  <2>8. ASSUME NEW c \in Callers, TakeDraft(c)
        PROVE  Typed'
    <3> DEFINE draft == IF Usable(calls[c].content, drafting[c].order)
                        THEN Drafted(calls[c].content, drafting[c].order)
                        ELSE StandardContract
    <3>1. drafting[c].order \in Order
      BY <2>7, <2>8 DEF TakeDraft
    <3>2. draft \in Draft
      BY <2>6, <3>1
    <3>3. /\ DraftGoTo(c, [pc |-> "answered", order |-> drafting[c].order, draft |-> draft])
          /\ UNCHANGED templates
      BY <2>8 DEF TakeDraft
    <3> HIDE DEF draft
    <3> QED
      BY <1>2, <2>1, <2>5, <3>1, <3>2, <3>3
  <2>9. ASSUME NEW c \in Callers, DraftUnavailable(c)
        PROVE  Typed'
    BY <1>2, <2>1, <2>5, <2>6, <2>7, <2>9 DEF DraftUnavailable
  <2>10. ASSUME NEW c \in Callers, EndDraft(c)
         PROVE  Typed'
    BY <1>2, <2>1, <2>10 DEF EndDraft, DraftSlot
  <2>11. ASSUME NEW c \in Callers, AskForDraft(c)
         PROVE  Typed'
    BY <1>2, <2>11 DEF AskForDraft
  <2>12. ASSUME UNCHANGED draftVars
         PROVE  Typed'
    BY <1>2, <2>12 DEF draftVars
  <2> QED
    BY <1>2, <2>3, <2>4, <2>8, <2>9, <2>10, <2>11, <2>12 DEF DraftsNext, DraftProceeds
<1>3. TimeInv /\ Typed => DraftsTypeOK
  BY CallsTyped DEF TimeInv, DraftsTypeOK
<1> QED
  BY <1>1, <1>2, <1>3, DraftsInTime, PTL DEF DraftsSpec

-----------------------------------------------------------------------------
(***************************************************************************)
(* The parsing of queries, as the search composes it                       *)
(***************************************************************************)
\* What is about to be kept, and what is kept.
ParsingInv ==
    /\ ParsingTypeOK
    /\ \A c \in Callers :
          parse[c].pc = "store" => parse[c].result.filters # Undefined
    /\ CachedParseFits

\* A parse under way has a result, of its own query.
LEMMA ParseUnderWay ==
  ASSUME ParsingTypeOK, NEW c \in Callers, parse[c].pc # "none"
  PROVE  /\ parse[c].result \in ParsedFilters /\ Query(c) \in Queries
         /\ Fallback(Query(c)) \in ParsedFilters
         /\ Key(Query(c)) \in Keys
<1>1. parse[c].result \in ParsedFilters
  BY DEF ParsingTypeOK, ParseSlot
<1>2. Query(c) \in Queries
  BY <1>1 DEF Query, ParsedFilters
<1> QED
  BY <1>1, <1>2 DEF Fallback, ParsedFilters, Keys

\* Steps of a parse that leave the cache as it is.
LEMMA ParseGoesOn ==
  ASSUME ParsingInv, NEW c \in Callers, NEW q \in ParseSlot, UNCHANGED parseCache,
         parse' = [parse EXCEPT ![c] = q],
         q.pc = "store" => q.result.filters # Undefined
  PROVE  ParsingInv'
<1>1. ParsingTypeOK'
  BY DEF ParsingInv, ParsingTypeOK
<1>2. \A b \in Callers : parse'[b] = IF b = c THEN q ELSE parse[b]
  BY DEF ParsingInv, ParsingTypeOK
<1>3. CachedParseFits'
  BY DEF ParsingInv, CachedParseFits
<1> QED
  BY <1>1, <1>2, <1>3 DEF ParsingInv

LEMMA ParseProceedsFit ==
  ASSUME ParsingInv, NEW c \in Callers, ParseProceeds(c)
  PROVE  ParsingInv'
<1>1. CASE ParseHit(c) \/ ParseMiss(c) \/ ParseUnavailable(c)
  <2>1. PICK pc \in {"done", "ask"}, result \in ParsedFilters :
            ParseGoTo(c, pc, result)
    <3>1. parse[c].pc # "none"
      BY <1>1 DEF ParseHit, ParseMiss, ParseUnavailable
    <3>2. ParseHit(c) => parseCache[Key(Query(c))] \in ParsedFilters
      BY <3>1, ParseUnderWay DEF ParseHit, ParsingInv, ParsingTypeOK
    <3> QED
      BY <1>1, <3>1, <3>2, ParseUnderWay
         DEF ParseHit, ParseMiss, ParseUnavailable, ParsingInv
  <2>2. UNCHANGED parseCache
    BY <1>1 DEF ParseHit, ParseMiss, ParseUnavailable
  <2>3. parse' = [parse EXCEPT ![c] = [pc |-> pc, result |-> result]]
    BY <2>1 DEF ParseGoTo
  <2>4. [pc |-> pc, result |-> result] \in ParseSlot
    BY DEF ParseSlot
  <2> QED
    BY <2>2, <2>3, <2>4, ParseGoesOn
<1>2. CASE AskForParse(c)
  <2>1. UNCHANGED <<parse, parseCache>>
    BY <1>2 DEF AskForParse
  <2> QED
    BY <2>1 DEF ParsingInv, ParsingTypeOK, CachedParseFits
\* Only what passed the validation goes to the cache.
<1>3. CASE TakeParse(c)
  <2> DEFINE content == calls[c].content
             result  == IF content \in Parses
                        THEN [filters |-> content, rawQuery |-> Query(c)]
                        ELSE Fallback(Query(c))
             q       == [pc |-> AfterContent(content), result |-> result]
  <2>1. parse' = [parse EXCEPT ![c] = q] /\ UNCHANGED parseCache
    BY <1>3 DEF TakeParse, ParseGoTo
  <2>2. q.pc = "store" => q.result.filters # Undefined
    BY ParsesAssumption DEF AfterContent
  <2>3. parse[c].pc # "none"
    BY <1>3 DEF TakeParse
  <2>4. result \in ParsedFilters
    BY <2>3, ParseUnderWay DEF ParsingInv, ParsedFilters
  <2> HIDE DEF result
  <2>5. q \in ParseSlot
    BY <2>4 DEF AfterContent, ParseSlot
  <2> HIDE DEF q
  <2> QED
    BY <2>1, <2>2, <2>5, ParseGoesOn
<1>4. CASE StoreParse(c)
  <2> DEFINE r == parse[c].result
             k == Key(Query(c))
  <2>1. /\ parse[c].pc # "none"
        /\ r.filters # Undefined /\ Key(r.rawQuery) = k
        /\ ParseGoTo(c, "done", r)
        /\ \/ parseCache' = [parseCache EXCEPT ![k] = r]
           \/ UNCHANGED parseCache
    BY <1>4 DEF StoreParse, ParsingInv, Query
  <2>2. r \in ParsedFilters /\ k \in Keys
    BY <2>1, ParseUnderWay DEF ParsingInv
  <2> HIDE DEF r, k
  <2>3. /\ [pc |-> "done", result |-> r] \in ParseSlot
        /\ \A b \in Callers : parse'[b] =
              IF b = c THEN [pc |-> "done", result |-> r] ELSE parse[b]
    BY <2>1, <2>2 DEF ParseGoTo, ParsingInv, ParsingTypeOK, ParseSlot
  <2>6. ParsingTypeOK'
    BY <2>1, <2>2, <2>3 DEF ParseGoTo, ParsingInv, ParsingTypeOK
  <2>4. \A l \in Keys : parseCache'[l] = parseCache[l] \/ (l = k /\ parseCache'[l] = r)
    BY <2>1 DEF ParsingInv, ParsingTypeOK
  <2>5. CachedParseFits'
    BY <2>1, <2>4 DEF ParsingInv, CachedParseFits
  <2> QED
    BY <2>3, <2>5, <2>6 DEF ParsingInv
<1> QED
  BY <1>1, <1>2, <1>3, <1>4 DEF ParseProceeds

LEMMA SearchStepParses ==
  ASSUME ParsingInv, [SearchNext]_searchVars
  PROVE  ParsingInv'
<1>1. ASSUME UNCHANGED <<parse, parseCache>>
      PROVE  ParsingInv'
  BY <1>1 DEF ParsingInv, ParsingTypeOK, CachedParseFits
<1>2. ASSUME NEW c \in Callers, NEW dto \in Dtos, BeginSearch(c, dto)
      PROVE  ParsingInv'
  <2>1. CASE dto.q = Undefined
    BY <1>1, <1>2, <2>1 DEF BeginSearch
  <2>2. CASE dto.q # Undefined
    <3> DEFINE q == [pc |-> IF Blank(dto.q) THEN "done" ELSE "lookup",
                     result |-> Fallback(dto.q)]
    <3>1. parse' = [parse EXCEPT ![c] = q] /\ UNCHANGED parseCache
      BY <1>2, <2>2 DEF BeginSearch, BeginParse, ParseGoTo
    <3>2. q.pc # "store"
      OBVIOUS
    <3>3. dto.q \in Queries
      BY <2>2, DtosAssumption
    <3>4. q \in ParseSlot
      BY <3>3 DEF ParseSlot, Fallback, ParsedFilters
    <3> HIDE DEF q
    <3> QED
      BY <3>1, <3>2, <3>4, ParseGoesOn
  <2> QED
    BY <2>1, <2>2
<1>3. ASSUME NEW c \in Callers, TakeParsed(c)
      PROVE  ParsingInv'
  <2>1. parse' = [parse EXCEPT ![c] = NoParse] /\ UNCHANGED parseCache
    BY <1>3 DEF TakeParsed, ParseTaken
  <2>2. NoParse.pc # "store" /\ NoParse \in ParseSlot
    BY DEF NoParse, ParseSlot
  <2> QED
    BY <2>1, <2>2, ParseGoesOn
<1>4. ASSUME NEW c \in Callers, Fetch(c) \/ FetchRefused(c) \/ TakeRanked(c)
                                \/ EndSearch(c)
      PROVE  ParsingInv'
  BY <1>1, <1>4 DEF Fetch, FetchRefused, TakeRanked, EndSearch
<1>5. ASSUME NEW k \in Keys, ParseExpires(k)
      PROVE  ParsingInv'
  <2>1. parseCache' = [parseCache EXCEPT ![k] = Undefined] /\ UNCHANGED parse
    BY <1>5 DEF ParseExpires
  <2>2. ParsingTypeOK'
    BY <2>1 DEF ParsingInv, ParsingTypeOK
  <2>3. \A l \in Keys : parseCache'[l] = parseCache[l] \/ parseCache'[l] = Undefined
    BY <2>1 DEF ParsingInv, ParsingTypeOK
  <2>4. CachedParseFits'
    BY <2>3 DEF ParsingInv, CachedParseFits
  <2> QED
    BY <2>1, <2>2, <2>4 DEF ParsingInv
<1>6. ASSUME NEW c \in Callers, SearchProceeds(c)
      PROVE  ParsingInv'
  BY <1>1, <1>3, <1>4, <1>6, ParseProceedsFit DEF SearchProceeds
<1>7. ASSUME UNCHANGED searchVars
      PROVE  ParsingInv'
  BY <1>1, <1>7 DEF searchVars
<1> QED
  BY <1>2, <1>4, <1>5, <1>6, <1>7 DEF SearchNext

\* parseQuery keeps for an hour what the model answered: whatever goes wrong in
\* other requests, what a later one finds under its text is the validated
\* answer to a query with that text, never a fallback.
THEOREM CachedParsesFit == SearchSpec => []CachedParseFits
<1>1. SearchInit => ParsingInv
  BY DEF SearchInit, ParsingInit, ParsingInv, ParsingTypeOK, ParseSlot, NoParse,
         CachedParseFits
<1>2. ParsingInv /\ [SearchNext]_searchVars => ParsingInv'
  BY SearchStepParses
<1>3. ParsingInv => CachedParseFits
  BY DEF ParsingInv
<1> QED
  BY <1>1, <1>2, <1>3, PTL DEF SearchSpec

-----------------------------------------------------------------------------
(***************************************************************************)
(* Sorting                                                                 *)
(***************************************************************************)
\* The numbers of those ahead are as many as the places, and each is another.
LEMMA PlacesTaken ==
  ASSUME NEW n \in Nat, NEW score \in [1 .. n -> Int]
  PROVE  /\ \A j \in 1 .. n : Cardinality(Ahead(score, j)) \in 0 .. (n - 1)
         /\ \A i, j \in 1 .. n : i \in Ahead(score, j) =>
                Cardinality(Ahead(score, i)) < Cardinality(Ahead(score, j))
         /\ \A i, j \in 1 .. n :
                Cardinality(Ahead(score, i)) = Cardinality(Ahead(score, j)) => i = j
         /\ \A k \in 0 .. (n - 1) :
                \E j \in 1 .. n : Cardinality(Ahead(score, j)) = k
<1>1. IsFiniteSet(1 .. n) /\ Cardinality(1 .. n) = n
  BY FS_Interval
<1>2. IsFiniteSet(0 .. (n - 1)) /\ Cardinality(0 .. (n - 1)) = n
  BY FS_Interval
<1>3. ASSUME NEW j \in 1 .. n
      PROVE  IsFiniteSet(Ahead(score, j)) /\ Cardinality(Ahead(score, j)) \in 0 .. (n - 1)
  <2>1. Ahead(score, j) \in SUBSET ((1 .. n) \ {j})
    BY DEF Ahead
  <2>2. IsFiniteSet((1 .. n) \ {j}) /\ Cardinality((1 .. n) \ {j}) = n - 1
    BY <1>1, FS_RemoveElement
  <2>3. IsFiniteSet(Ahead(score, j)) /\ Cardinality(Ahead(score, j)) <= n - 1
    BY <2>1, <2>2, FS_Subset
  <2>4. Cardinality(Ahead(score, j)) \in Nat
    BY <2>3, FS_CardinalityType
  <2> QED
    BY <2>3, <2>4
<1>4. ASSUME NEW i \in 1 .. n, NEW j \in 1 .. n, i \in Ahead(score, j)
      PROVE  Cardinality(Ahead(score, i)) < Cardinality(Ahead(score, j))
  <2>1. Ahead(score, i) \in SUBSET (Ahead(score, j) \ {i})
    BY <1>4 DEF Ahead
  <2>2. /\ IsFiniteSet(Ahead(score, j) \ {i})
        /\ Cardinality(Ahead(score, j) \ {i}) = Cardinality(Ahead(score, j)) - 1
    BY <1>3, <1>4, FS_RemoveElement
  <2>3. Cardinality(Ahead(score, i)) <= Cardinality(Ahead(score, j)) - 1
    BY <2>1, <2>2, FS_Subset
  <2> QED
    BY <1>3, <2>3
<1>5. \A i, j \in 1 .. n : i = j \/ i \in Ahead(score, j) \/ j \in Ahead(score, i)
  BY DEF Ahead
<1>6. \A i, j \in 1 .. n :
          Cardinality(Ahead(score, i)) = Cardinality(Ahead(score, j)) => i = j
  <2>1. ASSUME NEW i \in 1 .. n, NEW j \in 1 .. n, i # j
        PROVE  Cardinality(Ahead(score, i)) # Cardinality(Ahead(score, j))
    <3>1. i \in Ahead(score, j) \/ j \in Ahead(score, i)
      BY <1>5, <2>1
    <3>2. Cardinality(Ahead(score, i)) \in Int /\ Cardinality(Ahead(score, j)) \in Int
      BY <1>3
    <3>3. \/ Cardinality(Ahead(score, i)) < Cardinality(Ahead(score, j))
          \/ Cardinality(Ahead(score, j)) < Cardinality(Ahead(score, i))
      BY <1>4, <3>1
    <3> QED
      BY <3>2, <3>3
  <2> QED
    BY <2>1
<1> DEFINE place == [j \in 1 .. n |-> Cardinality(Ahead(score, j))]
<1>7. place \in Injection(1 .. n, 0 .. (n - 1))
  BY <1>3, <1>6 DEF Injection, IsInjective
<1>8. place \in Surjection(1 .. n, 0 .. (n - 1))
  <2> HIDE DEF place
  <2> QED
    BY <1>1, <1>2, <1>7, FS_Injection
<1>9. \A k \in 0 .. (n - 1) : \E j \in 1 .. n : Cardinality(Ahead(score, j)) = k
  BY <1>8 DEF Surjection
<1> QED
  BY <1>3, <1>4, <1>6, <1>9

\* What is sorted is all there, and in order.
SortedFrom(n, s, score, from) ==
    /\ from \in [1 .. n -> 1 .. n]
    /\ Sorted(s, score) = [k \in 1 .. n |-> s[from[k]]]
    /\ \A j \in 1 .. n : \E k \in 1 .. n : from[k] = j
    /\ \A k, l \in 1 .. n : score[from[k]] > score[from[l]] => k < l

LEMMA SortedPermutes ==
  ASSUME NEW n \in Nat, NEW s, DOMAIN s = 1 .. n, NEW score \in [1 .. n -> Int]
  PROVE  \E from : SortedFrom(n, s, score, from)
<1> DEFINE At(k) == CHOOSE j \in 1 .. n : Cardinality(Ahead(score, j)) = k - 1
           from == [k \in 1 .. n |-> At(k)]
<1>1. \A k \in 1 .. n : At(k) \in 1 .. n /\ Cardinality(Ahead(score, At(k))) = k - 1
  <2>1. ASSUME NEW k \in 1 .. n
        PROVE  \E j \in 1 .. n : Cardinality(Ahead(score, j)) = k - 1
    <3>1. k - 1 \in 0 .. (n - 1)
      OBVIOUS
    <3> QED
      BY <3>1, PlacesTaken
  <2> QED
    BY <2>1
<1>2. Sorted(s, score) = [k \in 1 .. n |-> s[At(k)]]
  BY DEF Sorted
<1> HIDE DEF At
<1>3. \A j \in 1 .. n : \E k \in 1 .. n : At(k) = j
  <2>1. ASSUME NEW j \in 1 .. n
        PROVE  \E k \in 1 .. n : At(k) = j
    <3>1. Cardinality(Ahead(score, j)) \in 0 .. (n - 1)
      BY PlacesTaken
    <3>2. PICK m \in 0 .. (n - 1) : m = Cardinality(Ahead(score, j))
      BY <3>1
    <3>3. m + 1 \in 1 .. n /\ (m + 1) - 1 = m
      OBVIOUS
    <3>4. At(m + 1) \in 1 .. n /\ Cardinality(Ahead(score, At(m + 1))) = m
      BY <1>1, <3>3
    <3>5. At(m + 1) = j
      BY <3>2, <3>4, PlacesTaken
    <3> QED
      BY <3>3, <3>5
  <2> QED
    BY <2>1
<1>4. \A k, l \in 1 .. n : score[At(k)] > score[At(l)] => k < l
  <2>1. ASSUME NEW k \in 1 .. n, NEW l \in 1 .. n, score[At(k)] > score[At(l)]
        PROVE  k < l
    <3>1. At(k) \in Ahead(score, At(l))
      BY <1>1, <2>1 DEF Ahead
    <3>2. Cardinality(Ahead(score, At(k))) < Cardinality(Ahead(score, At(l)))
      BY <1>1, <3>1, PlacesTaken
    <3> QED
      BY <1>1, <3>2
  <2> QED
    BY <2>1
<1>5. SortedFrom(n, s, score, from)
  BY <1>1, <1>2, <1>3, <1>4 DEF SortedFrom
<1> QED
  BY <1>5

\* A part of a sequence, wherever it begins.
LEMMA PartOfSequence ==
  ASSUME NEW S, NEW s \in Seq(S), NEW m \in Nat \ {0}, NEW n \in Nat, n <= Len(s)
  PROVE  LET size == IF m <= n THEN n - m + 1 ELSE 0
         IN  SubSeq(s, m, n) = [i \in 1 .. size |-> s[i + m - 1]]
  OBVIOUS

-----------------------------------------------------------------------------
(***************************************************************************)
(* The filters and the scores of a search                                  *)
(***************************************************************************)
\* Whatever was parsed, the merged filters let nothing pass that the explicit
\* ones keep out.
LEMMA MergedIsStricter ==
  ASSUME NEW dto \in Dtos, NEW parsed, NEW p, Matches(p, MergedFilters(dto, parsed))
  PROVE  Matches(p, dto.filters)
<1> DEFINE f == MergedFilters(dto, parsed)
           g == dto.filters
<1>1. DOMAIN g = FilterNames
  BY DtosAssumption
<1>2. \A n \in FilterNames : g[n] # Undefined => f[n] = g[n]
  BY <1>1 DEF MergedFilters, Merge
<1> HIDE DEF f, g
<1>3. /\ g.category # Undefined => f.category = g.category
      /\ g.city # Undefined => f.city = g.city
      /\ g.rating # Undefined => f.rating = g.rating
      /\ g.minPrice # Undefined => f.minPrice = g.minPrice
      /\ g.maxPrice # Undefined => f.maxPrice = g.maxPrice
      /\ g.tags # Undefined => f.tags = g.tags
      /\ g.availableFrom # Undefined => f.availableFrom = g.availableFrom
      /\ g.availableTo # Undefined => f.availableTo = g.availableTo
  BY <1>2 DEF FilterNames
<1>4. Matches(p, f)
  BY DEF f
<1>5. /\ p.listed
      /\ g.category \in {Undefined, p.category}
      /\ g.city \in {Undefined, p.city}
      /\ AtLeast(p.averageRating, g.rating)
      /\ g.tags \notin {Undefined, {}} => p.tags \cap g.tags # {}
  BY <1>3, <1>4 DEF Matches, AtLeast
<1>6. <<g.minPrice, g.maxPrice>> # <<Undefined, Undefined>> =>
          \E price \in Range(p.prices) :
              AtLeast(price, g.minPrice) /\ AtMost(price, g.maxPrice)
  <2>1. ASSUME <<g.minPrice, g.maxPrice>> # <<Undefined, Undefined>>
        PROVE  \E price \in Range(p.prices) :
                   AtLeast(price, f.minPrice) /\ AtMost(price, f.maxPrice)
    <3>1. <<f.minPrice, f.maxPrice>> # <<Undefined, Undefined>>
      BY <1>3, <2>1
    <3> QED
      BY <1>4, <3>1 DEF Matches
  <2> QED
    BY <1>3, <2>1 DEF AtLeast, AtMost
<1>7. <<g.availableFrom, g.availableTo>> # <<Undefined, Undefined>> =>
          \E slot \in p.slots :
              /\ ~slot.isBooked
              /\ AtMost(slot.startTime, g.availableFrom)
              /\ AtLeast(slot.endTime, g.availableTo)
  <2>1. ASSUME <<g.availableFrom, g.availableTo>> # <<Undefined, Undefined>>
        PROVE  \E slot \in p.slots :
                   /\ ~slot.isBooked
                   /\ AtMost(slot.startTime, f.availableFrom)
                   /\ AtLeast(slot.endTime, f.availableTo)
    <3>1. <<f.availableFrom, f.availableTo>> # <<Undefined, Undefined>>
      BY <1>3, <2>1
    <3> QED
      BY <1>4, <3>1 DEF Matches
  <2> QED
    BY <1>3, <2>1 DEF AtLeast, AtMost
<1>8. Matches(p, g)
  BY <1>5, <1>6, <1>7 DEF Matches
<1> QED
  BY <1>8 DEF g

\* A budget below zero leaves no provider to score.
LEMMA ScoreIsNumber ==
  ASSUME NEW dto \in Dtos, NEW p \in Profiles, Matches(p, dto.filters)
  PROVE  DeterministicScore(Buyer(dto), Candidate(p)) \in Int
<1> DEFINE buyer == Buyer(dto)
           q     == Candidate(p)
<1>1. p.averageRating \in Nat /\ p.prices \in Seq(Nat)
  BY ProfilesAssumption
<1>2. /\ q.averageRating \in Nat
      /\ q.basePrice \in Nat \cup {Undefined}
  <2>1. CASE p.prices = <<>>
    BY <1>1, <2>1 DEF Candidate
  <2>2. CASE p.prices # <<>>
    <3>1. p.prices[1] \in Nat
      BY <1>1, <2>2
    <3> QED
      BY <1>1, <2>2, <3>1 DEF Candidate
  <2> QED
    BY <2>1, <2>2
<1>3. buyer.budget = Undefined \/ buyer.budget \in Nat
  <2>1. buyer.budget = dto.filters.maxPrice /\ buyer.budget \in Int \cup {Undefined}
    BY DtosAssumption DEF Buyer
  <2>2. ASSUME buyer.budget # Undefined
        PROVE  \E price \in Range(p.prices) : AtMost(price, buyer.budget)
    <3>1. <<dto.filters.minPrice, dto.filters.maxPrice>> # <<Undefined, Undefined>>
      BY <2>1, <2>2
    <3> QED
      BY <2>1, <3>1 DEF Matches
  <2>3. \A price \in Range(p.prices) : price \in Nat
    BY <1>1 DEF Range
  <2> QED
    BY <2>1, <2>2, <2>3 DEF AtMost
<1> HIDE DEF buyer, q
<1>4. CityScore(buyer, q) \in Int
  BY DEF CityScore
<1>5. RatingScore(q) \in Int
  <2> DEFINE x == 2 * q.averageRating
  <2>1. x \in Int /\ 100 \in Int
    BY <1>2
  <2> HIDE DEF x
  <2>2. Min({100, x}) \in {100, x}
    BY <2>1, MinMaxOfTwo, Zenon
  <2>3. Min({100, x}) \in Int
    BY <2>1, <2>2
  <2> QED
    BY <2>3 DEF RatingScore, x
<1>6. PriceScore(buyer, q) \in Int
  <2>1. CASE Positive(buyer.budget) /\ Positive(q.basePrice)
                 /\ ~(q.basePrice <= buyer.budget)
    <3>1. buyer.budget \in Nat \ {0} /\ q.basePrice \in Nat
      BY <1>2, <1>3, <2>1 DEF Positive
    <3>2. PICK over \in Int : over = 4000 * buyer.budget - 2000 * q.basePrice
      BY <3>1
    <3>0. 0 \in Int
      OBVIOUS
    <3>3. Max({0, over}) \in Int
      <4>1. Max({0, over}) \in {0, over}
        BY <3>0, MinMaxOfTwo, Zenon
      <4> QED
        BY <4>1
    <3>4. Max({0, over}) \div buyer.budget \in Int
      BY <3>1, <3>3
    <3> QED
      BY <2>1, <3>2, <3>4 DEF PriceScore
  <2> QED
    BY <2>1 DEF PriceScore
<1>7. DeterministicScore(buyer, q) \in Int
  <2> DEFINE points == CityScore(buyer, q) + RatingScore(q) + PriceScore(buyer, q) + 2050
  <2>1. points \in Int
    BY <1>4, <1>5, <1>6
  <2> HIDE DEF points
  <2>2. points \div 100 \in Int
    BY <2>1
  <2> QED
    BY <2>2 DEF DeterministicScore, points
<1> QED
  BY <1>7 DEF buyer, q

\* The page is of what matches.
LEMMA PageTyped ==
  ASSUME NEW dto \in Dtos, NEW matching \in SUBSET Profiles, NEW sortBy,
         NEW listing \in Listings(matching, sortBy)
  PROVE  \E n \in 0 .. Cardinality(Profiles) :
             PageOf(listing, dto) \in [1 .. n -> matching]
<1> DEFINE N == Cardinality(matching)
<1>1. N \in Nat /\ N <= Cardinality(Profiles) /\ Cardinality(Profiles) \in Nat
  BY ProfilesAssumption, FS_Subset, FS_CardinalityType
<1>2. listing \in [1 .. N -> matching]
  BY DEF Listings, SetToSeqs
<1> HIDE DEF N
<1>3. listing \in Seq(matching) /\ Len(listing) = N
  BY <1>1, <1>2
<1>4. dto.page \in Nat \ {0} /\ dto.limit \in Nat \ {0}
  BY DtosAssumption
<1>5. Skipped(dto) \in Nat
  <2>1. dto.page - 1 \in Nat /\ dto.limit \in Nat
    BY <1>4
  <2>2. \A a, b \in Nat : a * b \in Nat
    OBVIOUS
  <2> QED
    BY <2>1, <2>2 DEF Skipped
<1>6. PICK m \in Nat \ {0} : m = Skipped(dto) + 1
  BY <1>5
<1>7. PICK e \in Nat : e = Min({Skipped(dto) + dto.limit, Len(listing)}) /\ e <= N
  <2> DEFINE x == Skipped(dto) + dto.limit
  <2>1. x \in Nat /\ x \in Int /\ Len(listing) \in Nat /\ Len(listing) \in Int
    BY <1>1, <1>3, <1>4, <1>5
  <2> HIDE DEF x
  <2>2. /\ Min({x, Len(listing)}) \in {x, Len(listing)}
        /\ Min({x, Len(listing)}) <= Len(listing)
    BY <2>1, MinMaxOfTwo, Zenon
  <2>3. Min({x, Len(listing)}) \in Nat /\ Min({x, Len(listing)}) <= N
    BY <1>3, <2>1, <2>2
  <2> QED
    BY <2>3 DEF x
<1> DEFINE size == IF m <= e THEN e - m + 1 ELSE 0
<1>8. PageOf(listing, dto) = [i \in 1 .. size |-> listing[i + m - 1]]
  <2>1. SubSeq(listing, m, e) = [i \in 1 .. size |-> listing[i + m - 1]]
    <3>1. e <= Len(listing)
      BY <1>3, <1>7
    <3> QED
      BY <1>3, <3>1, PartOfSequence
  <2> QED
    BY <1>6, <1>7, <2>1 DEF PageOf
<1>9. \A i \in 1 .. size : i + m - 1 \in 1 .. N
  BY <1>1, <1>6, <1>7, SMTT(40)
<1>10. size \in 0 .. Cardinality(Profiles)
  BY <1>1, <1>7
<1> HIDE DEF size
<1>11. PageOf(listing, dto) \in [1 .. size -> matching]
  BY <1>2, <1>8, <1>9
<1> QED
  BY <1>10, <1>11

-----------------------------------------------------------------------------
(***************************************************************************)
(* The ranking of a page                                                   *)
(***************************************************************************)
Det(dto, p) == DeterministicScore(Buyer(dto), Candidate(p))

\* The page of a search is of providers that meet what the caller gave.
PageHonours(dto, page) ==
    \E n \in 0 .. Cardinality(Profiles) :
        page \in [1 .. n -> {p \in Profiles : Matches(p, dto.filters)}]

\* The ranking of a page: its providers have scores, and whom the model has
\* said nothing of has the deterministic one.
RankFits(dto, page, q) ==
    /\ q \in RankSlot \ {NoRank}
    /\ DOMAIN q.scores = {page[i].id : i \in DOMAIN page}
    /\ Range(q.candidates) = DOMAIN q.scores
    /\ q.annotated \subseteq DOMAIN q.scores
    /\ q.pc = "ask" => q.annotated = {}
    /\ \A i \in DOMAIN page :
          page[i].id \notin q.annotated => q.scores[page[i].id] = Det(dto, page[i])

LEMMA RankTyped ==
  ASSUME NEW dto, NEW page, NEW q, RankFits(dto, page, q)
  PROVE  /\ q \in [pc: {"ask", "done"}, candidates: Seq(ProviderIds),
                   scores: UNION {[ids -> Int \cup {Undefined}] :
                                      ids \in SUBSET ProviderIds},
                   annotated: SUBSET ProviderIds]
         /\ q.scores \in [DOMAIN q.scores -> Int \cup {Undefined}]
         /\ DOMAIN q.scores \subseteq ProviderIds
<1>1. q \in [pc: {"ask", "done"}, candidates: Seq(ProviderIds),
             scores: UNION {[ids -> Int \cup {Undefined}] :
                                ids \in SUBSET ProviderIds},
             annotated: SUBSET ProviderIds]
  BY DEF RankFits, RankSlot, NoRank
<1>2. PICK ids \in SUBSET ProviderIds : q.scores \in [ids -> Int \cup {Undefined}]
  BY <1>1
<1> QED
  BY <1>1, <1>2

\* The ranking begins with the deterministic scores, for whatever order the
\* candidates have when they are sorted by them.
LEMMA RankingBegins ==
  ASSUME NEW dto \in Dtos, NEW page, PageHonours(dto, page), NEW c \in Callers,
         DOMAIN rank = Callers,
         BeginRanking(c, Buyer(dto), [i \in DOMAIN page |-> Candidate(page[i])])
  PROVE  RankFits(dto, page, rank'[c])
<1>1. PICK n \in 0 .. Cardinality(Profiles) :
          page \in [1 .. n -> {p \in Profiles : Matches(p, dto.filters)}]
  BY DEF PageHonours
<1>2. n \in Nat /\ DOMAIN page = 1 .. n
  BY <1>1
<1>3. \A i \in 1 .. n :
          /\ page[i] \in Profiles /\ page[i].id \in ProviderIds
          /\ Det(dto, page[i]) \in Int
  BY <1>1, ProfilesAssumption, ScoreIsNumber DEF Det
<1> DEFINE cands == [i \in DOMAIN page |-> Candidate(page[i])]
           score == [i \in DOMAIN cands |-> DeterministicScore(Buyer(dto), cands[i])]
           sorted == Sorted(cands, score)
           ids == {p.id : p \in Range(sorted)}
<1>4. score \in [1 .. n -> Int]
  BY <1>2, <1>3 DEF Det
<1>5. PICK from : SortedFrom(n, cands, score, from)
  <2> HIDE DEF cands, score
  <2>1. DOMAIN cands = 1 .. n
    BY <1>2 DEF cands
  <2> QED
    BY <1>2, <1>4, <2>1, SortedPermutes
<1>6. \A i \in 1 .. n : Candidate(page[i]).id = page[i].id
  BY DEF Candidate
<1>7. /\ from \in [1 .. n -> 1 .. n]
      /\ sorted = [k \in 1 .. n |-> Candidate(page[from[k]])]
      /\ \A j \in 1 .. n : \E k \in 1 .. n : from[k] = j
  <2>1. /\ from \in [1 .. n -> 1 .. n]
        /\ sorted = [k \in 1 .. n |-> cands[from[k]]]
        /\ \A j \in 1 .. n : \E k \in 1 .. n : from[k] = j
    BY <1>5 DEF SortedFrom
  <2>2. \A i \in 1 .. n : cands[i] = Candidate(page[i])
    BY <1>2
  <2> HIDE DEF cands, sorted
  <2> QED
    BY <2>1, <2>2
<1>8. rank'[c] = [pc |-> IF cands = <<>> THEN "done" ELSE "ask",
                  candidates |-> [i \in DOMAIN sorted |-> sorted[i].id],
                  scores |-> [id \in ids |->
                      DeterministicScore(Buyer(dto),
                          CHOOSE p \in Range(sorted) : p.id = id)],
                  annotated |-> {}]
  BY DEF BeginRanking
<1> HIDE DEF cands, sorted, score
<1>9. ids = {page[i].id : i \in 1 .. n}
  <2>1. Range(sorted) = {Candidate(page[i]) : i \in 1 .. n}
    BY <1>7 DEF Range
  <2> QED
    BY <1>6, <2>1
<1>10. ASSUME NEW i \in 1 .. n
       PROVE  (CHOOSE p \in Range(sorted) : p.id = page[i].id) = Candidate(page[i])
  <2>1. Candidate(page[i]) \in Range(sorted)
    BY <1>7 DEF Range
  <2>2. \A p \in Range(sorted) : p.id = page[i].id => p = Candidate(page[i])
    <3>1. ASSUME NEW p \in Range(sorted), p.id = page[i].id
          PROVE  p = Candidate(page[i])
      <4>1. PICK k \in 1 .. n : p = Candidate(page[from[k]]) /\ from[k] \in 1 .. n
        BY <1>7 DEF Range
      <4>2. page[from[k]].id = page[i].id
        BY <1>6, <3>1, <4>1
      <4>3. page[from[k]] = page[i]
        BY <1>3, <4>1, <4>2, ProfilesAssumption
      <4> QED
        BY <4>1, <4>3
    <3> QED
      BY <3>1
  <2> QED
    BY <1>6, <2>1, <2>2
<1>11. \A id \in ids : DeterministicScore(Buyer(dto),
                           CHOOSE p \in Range(sorted) : p.id = id) \in Int
  <2>1. ASSUME NEW id \in ids
        PROVE  DeterministicScore(Buyer(dto),
                   CHOOSE p \in Range(sorted) : p.id = id) \in Int
    <3>1. PICK i \in 1 .. n : id = page[i].id
      BY <1>9, <2>1
    <3>2. (CHOOSE p \in Range(sorted) : p.id = id) = Candidate(page[i])
      BY <1>10, <3>1
    <3>3. DeterministicScore(Buyer(dto), Candidate(page[i])) \in Int
      BY <1>3 DEF Det
    <3> QED
      BY <3>2, <3>3
  <2> QED
    BY <2>1
<1>12. [i \in DOMAIN sorted |-> sorted[i].id] \in [1 .. n -> ProviderIds]
  BY <1>3, <1>6, <1>7, ZenonT(60)
<1>13. Range([i \in DOMAIN sorted |-> sorted[i].id]) = ids
  <2>1. DOMAIN sorted = 1 .. n
    BY <1>7
  <2>2. Range(sorted) = {sorted[i] : i \in 1 .. n}
    BY <2>1 DEF Range
  <2>3. Range([i \in DOMAIN sorted |-> sorted[i].id]) = {sorted[i].id : i \in 1 .. n}
    BY <2>1 DEF Range
  <2> QED
    BY <2>2, <2>3
<1>14. ids \in SUBSET ProviderIds
  BY <1>3, <1>9
<1> HIDE DEF ids
<1> DEFINE scores == [id \in ids |-> DeterministicScore(Buyer(dto),
                          CHOOSE p \in Range(sorted) : p.id = id)]
           candidates == [i \in DOMAIN sorted |-> sorted[i].id]
<1>15. scores \in [ids -> Int \cup {Undefined}] /\ candidates \in Seq(ProviderIds)
  <2>1. scores \in [ids -> Int \cup {Undefined}]
    BY <1>11
  <2> HIDE DEF scores
  <2>2. candidates \in Seq(ProviderIds)
    BY <1>2, <1>12
  <2> QED
    BY <2>1, <2>2
<1>16. \A i \in 1 .. n : page[i].id \in ids /\ scores[page[i].id] = Det(dto, page[i])
  <2>1. ASSUME NEW i \in 1 .. n
        PROVE  page[i].id \in ids /\ scores[page[i].id] = Det(dto, page[i])
    <3>1. page[i].id \in ids
      BY <1>9
    <3>2. scores[page[i].id] = DeterministicScore(Buyer(dto),
              CHOOSE p \in Range(sorted) : p.id = page[i].id)
      BY <3>1
    <3> QED
      BY <1>10, <3>1, <3>2 DEF Det
  <2> QED
    BY <2>1
<1> HIDE DEF scores, candidates
<1>17. rank'[c] = [pc |-> IF cands = <<>> THEN "done" ELSE "ask",
                   candidates |-> candidates, scores |-> scores, annotated |-> {}]
  BY <1>8 DEF ids, scores, candidates
<1>18. rank'[c] \in RankSlot \ {NoRank}
  BY <1>14, <1>15, <1>17 DEF RankSlot, NoRank
<1>19. Range(candidates) = ids
  BY <1>13 DEF candidates, ids
<1>20. ids = {page[i].id : i \in DOMAIN page}
  BY <1>2, <1>9
<1> QED
  BY <1>2, <1>15, <1>16, <1>17, <1>18, <1>19, <1>20 DEF RankFits

\* The model's answer counts for the top candidates it names.
LEMMA RankingTakes ==
  ASSUME NEW dto, NEW page, NEW c \in Callers, DOMAIN rank = Callers,
         RankFits(dto, page, rank[c]), TakeRanking(c)
  PROVE  RankFits(dto, page, rank'[c])
<1> DEFINE content == calls[c].content
           q   == rank[c]
           top == TopCandidates(q.candidates)
           scores == [id \in DOMAIN q.scores |->
                         IF id \in top THEN FinalScore(id, q.scores, content)
                         ELSE q.scores[id]]
<1>1. /\ content \in Annotations
      /\ rank'[c] = [q EXCEPT !.pc = "done", !.scores = scores,
                              !.annotated = top \cap DOMAIN content]
  BY DEF TakeRanking
<1>2. /\ q \in [pc: {"ask", "done"}, candidates: Seq(ProviderIds),
                scores: UNION {[ids -> Int \cup {Undefined}] :
                                   ids \in SUBSET ProviderIds},
                annotated: SUBSET ProviderIds]
      /\ q.scores \in [DOMAIN q.scores -> Int \cup {Undefined}]
      /\ DOMAIN q.scores \subseteq ProviderIds
  BY RankTyped
<1>3. top \subseteq DOMAIN q.scores
  <2>1. q.candidates \in Seq(ProviderIds) /\ Range(q.candidates) = DOMAIN q.scores
    BY <1>2 DEF RankFits
  <2>2. Len(q.candidates) \in Nat /\ Len(q.candidates) \in Int /\ TopNCount \in Int
    BY <2>1, TopNAssumption
  <2>3. /\ Min({TopNCount, Len(q.candidates)}) \in {TopNCount, Len(q.candidates)}
        /\ Min({TopNCount, Len(q.candidates)}) <= Len(q.candidates)
    BY <2>2, MinMaxOfTwo, Zenon
  <2>4. PICK m \in Nat : m = Min({TopNCount, Len(q.candidates)}) /\ m <= Len(q.candidates)
    BY <2>2, <2>3, TopNAssumption
  <2>5. \A i \in 1 .. m : i \in DOMAIN q.candidates
    BY <2>1, <2>4
  <2>6. top = {q.candidates[i] : i \in 1 .. m}
    <3>1. SubSeq(q.candidates, 1, m) = [i \in 1 .. m |-> q.candidates[i]]
      BY <2>1, <2>4
    <3> QED
      BY <2>4, <3>1 DEF TopCandidates, Range
  <2> QED
    BY <2>1, <2>5, <2>6 DEF Range
<1>4. \A id \in DOMAIN q.scores :
          /\ scores[id] \in Int \cup {Undefined}
          /\ id \notin top \cap DOMAIN content => scores[id] = q.scores[id]
  BY <1>1, <1>2, AnnotationsAssumption DEF FinalScore
<1>5. scores \in [DOMAIN q.scores -> Int \cup {Undefined}]
  BY <1>4
<1>6. /\ DOMAIN q.scores = {page[i].id : i \in DOMAIN page}
      /\ Range(q.candidates) = DOMAIN q.scores
      /\ \A i \in DOMAIN page :
            q.scores[page[i].id] = Det(dto, page[i])
  BY DEF TakeRanking, RankFits
<1> HIDE DEF top, scores, content
<1>7. /\ rank'[c] \in [pc: {"ask", "done"}, candidates: Seq(ProviderIds),
                        scores: UNION {[ids -> Int \cup {Undefined}] :
                                           ids \in SUBSET ProviderIds},
                        annotated: SUBSET ProviderIds]
      /\ rank'[c].pc = "done" /\ rank'[c].scores = scores
      /\ rank'[c].candidates = q.candidates
      /\ rank'[c].annotated = top \cap DOMAIN content
  BY <1>1, <1>2, <1>3, <1>5, ZenonT(60)
<1>8. DOMAIN scores = DOMAIN q.scores
  BY <1>5
<1>9. rank'[c] \in RankSlot \ {NoRank}
  BY <1>7 DEF RankSlot, NoRank
<1>10. \A i \in DOMAIN page : page[i].id \in DOMAIN q.scores
  BY <1>6
<1> QED
  BY <1>3, <1>4, <1>6, <1>7, <1>8, <1>9, <1>10 DEF RankFits

\* Steps of the ranking other than its end.
LEMMA RankingGoesOn ==
  ASSUME NEW dto, NEW page, NEW c \in Callers, DOMAIN rank = Callers,
         RankFits(dto, page, rank[c]), RankingProceeds(c)
  PROVE  RankFits(dto, page, rank'[c])
<1>1. CASE AskForRanking(c)
  BY <1>1 DEF AskForRanking
<1>2. CASE TakeRanking(c)
  BY <1>2, RankingTakes
<1>3. CASE RankingUnavailable(c)
  <2>1. rank'[c] = [rank[c] EXCEPT !.pc = "done"]
    BY <1>3 DEF RankingUnavailable
  <2>2. rank[c] \in [pc: {"ask", "done"}, candidates: Seq(ProviderIds),
                     scores: UNION {[ids -> Int \cup {Undefined}] :
                                        ids \in SUBSET ProviderIds},
                     annotated: SUBSET ProviderIds]
    BY RankTyped
  <2>3. /\ rank'[c] \in [pc: {"ask", "done"}, candidates: Seq(ProviderIds),
                         scores: UNION {[ids -> Int \cup {Undefined}] :
                                            ids \in SUBSET ProviderIds},
                         annotated: SUBSET ProviderIds]
        /\ rank'[c].pc = "done" /\ rank'[c].scores = rank[c].scores
        /\ rank'[c].candidates = rank[c].candidates
        /\ rank'[c].annotated = rank[c].annotated
    BY <2>1, <2>2
  <2>4. rank'[c] \in RankSlot \ {NoRank}
    BY <2>3 DEF RankSlot, NoRank
  <2> QED
    BY <2>3, <2>4 DEF RankFits
<1> QED
  BY <1>1, <1>2, <1>3 DEF RankingProceeds

\* An answered page is ordered by the deterministic scores where the model has
\* said nothing.
InOrder(dto, page, annotated) ==
    \A i, j \in DOMAIN page :
        /\ {page[i].id, page[j].id} \cap annotated = {}
        /\ Det(dto, page[i]) > Det(dto, page[j])
        => i < j

LEMMA RankedInOrder ==
  ASSUME NEW dto \in Dtos, NEW page, PageHonours(dto, page), NEW q,
         RankFits(dto, page, q)
  PROVE  LET score == [i \in DOMAIN page |-> OrZero(q.scores[page[i].id])]
         IN  /\ PageHonours(dto, Sorted(page, score))
             /\ InOrder(dto, Sorted(page, score), q.annotated)
<1> DEFINE score == [i \in DOMAIN page |-> OrZero(q.scores[page[i].id])]
           sorted == Sorted(page, score)
<1>1. PICK n \in 0 .. Cardinality(Profiles) :
          page \in [1 .. n -> {p \in Profiles : Matches(p, dto.filters)}]
  BY DEF PageHonours
<1>2. n \in Nat /\ DOMAIN page = 1 .. n
  BY <1>1
<1>3. q.scores \in [DOMAIN q.scores -> Int \cup {Undefined}]
  BY RankTyped
<1>4. \A i \in 1 .. n : page[i].id \in DOMAIN q.scores
  BY <1>2 DEF RankFits
<1>5. score \in [1 .. n -> Int]
  BY <1>2, <1>3, <1>4 DEF OrZero
<1>6. ASSUME NEW i \in 1 .. n, page[i].id \notin q.annotated
      PROVE  score[i] = Det(dto, page[i])
  <2>1. q.scores[page[i].id] = Det(dto, page[i])
    BY <1>2, <1>6 DEF RankFits
  <2>2. Det(dto, page[i]) \in Int
    BY <1>1, ScoreIsNumber DEF Det
  <2> QED
    BY <1>2, <2>1, <2>2, UndefinedAssumption DEF OrZero
<1> HIDE DEF score
<1>7. PICK from : SortedFrom(n, page, score, from)
  BY <1>2, <1>5, SortedPermutes
<1>8. /\ from \in [1 .. n -> 1 .. n]
      /\ sorted = [k \in 1 .. n |-> page[from[k]]]
      /\ \A k, l \in 1 .. n : score[from[k]] > score[from[l]] => k < l
  BY <1>7 DEF SortedFrom
<1> HIDE DEF sorted
<1>9. PageHonours(dto, sorted)
  <2>1. sorted \in [1 .. n -> {p \in Profiles : Matches(p, dto.filters)}]
    BY <1>1, <1>8
  <2> QED
    BY <2>1 DEF PageHonours
<1>10. ASSUME NEW k \in 1 .. n, NEW l \in 1 .. n,
              {sorted[k].id, sorted[l].id} \cap q.annotated = {},
              Det(dto, sorted[k]) > Det(dto, sorted[l])
       PROVE  k < l
  <2>1. /\ from[k] \in 1 .. n /\ from[l] \in 1 .. n
        /\ sorted[k] = page[from[k]] /\ sorted[l] = page[from[l]]
    BY <1>8
  <2>2. page[from[k]].id \notin q.annotated /\ page[from[l]].id \notin q.annotated
    BY <1>10, <2>1
  <2>3. score[from[k]] = Det(dto, sorted[k]) /\ score[from[l]] = Det(dto, sorted[l])
    BY <1>6, <2>1, <2>2
  <2> QED
    BY <1>8, <1>10, <2>3
<1>11. DOMAIN sorted = 1 .. n
  BY <1>8
<1>12. InOrder(dto, sorted, q.annotated)
  BY <1>10, <1>11 DEF InOrder
<1> QED
  BY <1>9, <1>12 DEF sorted, score

-----------------------------------------------------------------------------
(***************************************************************************)
(* Searches                                                                *)
(***************************************************************************)
\* A search has the ranking of its own page, and nobody else has one.
SlotFits(s, q) ==
    /\ s \in SearchSlot
    /\ s.pc \in {"rank", "answered"} => PageHonours(s.dto, s.page)
    /\ s.pc = "rank" => RankFits(s.dto, s.page, q)
    /\ s.pc # "rank" => q = NoRank
    /\ s.pc = "answered" /\ s.dto.sortBy \in {"ai", Undefined} =>
          InOrder(s.dto, s.page, s.annotated)

SearchInv ==
    /\ DOMAIN search = Callers /\ search = [c \in Callers |-> search[c]]
    /\ DOMAIN rank = Callers /\ rank = [c \in Callers |-> rank[c]]
    /\ \A c \in Callers : SlotFits(search[c], rank[c])

\* A slot is typed by its pc.
LEMMA SearchSlotTyped ==
  ASSUME NEW s \in SearchSlot
  PROVE  /\ s.pc = "none" => s = NoSearch
         /\ s.pc = "failed" => s \in [pc: {"failed"}, dto: Dtos]
         /\ s.pc \in {"parse", "fetch"} =>
               s \in [pc: {"parse", "fetch"}, dto: Dtos,
                      parsed: ParsedFilters \cup {Undefined}]
         /\ s.pc \in {"rank", "answered"} =>
               s \in [pc: {"rank", "answered"}, dto: Dtos,
                      page: UNION {[1 .. n -> Profiles] :
                                       n \in 0 .. Cardinality(Profiles)},
                      total: 0 .. Cardinality(Profiles), annotated: SUBSET Ids]
         /\ s.pc \in {"none", "failed", "parse", "fetch", "rank", "answered"}
  BY DEF SearchSlot, NoSearch

\* A slot goes on to what fits.
LEMMA SearchGoesOn ==
  ASSUME SearchInv, NEW c \in Callers, NEW s, NEW q, SlotFits(s, q),
         search' = [search EXCEPT ![c] = s],
         rank' = [rank EXCEPT ![c] = q]
  PROVE  SearchInv'
<1>1. \A b \in Callers : /\ search'[b] = IF b = c THEN s ELSE search[b]
                         /\ rank'[b] = IF b = c THEN q ELSE rank[b]
  BY DEF SearchInv
<1>2. \A b \in Callers : SlotFits(search'[b], rank'[b])
  BY <1>1 DEF SearchInv
<1>3. \A b \in Callers : SlotFits(search[b], rank[b])'
  <2>1. ASSUME NEW b \in Callers
        PROVE  SlotFits(search[b], rank[b])'
    BY <1>2 DEF SlotFits, RankFits, PageHonours, InOrder
  <2> QED
    BY <2>1
<1> QED
  BY <1>3 DEF SearchInv

\* Steps that leave the ranking as it is.
LEMMA SearchAloneGoesOn ==
  ASSUME SearchInv, NEW c \in Callers, NEW s, SlotFits(s, rank[c]),
         SearchGoTo(c, s), UNCHANGED rank
  PROVE  SearchInv'
<1>1. rank' = [rank EXCEPT ![c] = rank[c]]
  BY DEF SearchInv
<1>2. search' = [search EXCEPT ![c] = s]
  BY DEF SearchGoTo
<1> QED
  BY <1>1, <1>2, SearchGoesOn

LEMMA SearchBegins ==
  ASSUME SearchInv, NEW c \in Callers, NEW dto \in Dtos, BeginSearch(c, dto)
  PROVE  SearchInv'
<1> DEFINE s == [pc |-> IF dto.q = Undefined THEN "fetch" ELSE "parse",
                 dto |-> dto, parsed |-> Undefined]
<1>1. SearchGoTo(c, s) /\ UNCHANGED rank /\ search[c].pc = "none"
  BY DEF BeginSearch, NoSearch
<1>2. s \in SearchSlot /\ s.pc \in {"fetch", "parse"}
  BY DEF SearchSlot
<1>3. rank[c] = NoRank
  BY <1>1 DEF SearchInv, SlotFits
<1>4. SlotFits(s, rank[c])
  BY <1>2, <1>3 DEF SlotFits
<1> HIDE DEF s
<1> QED
  BY <1>1, <1>4, SearchAloneGoesOn

LEMMA SearchTakesParsed ==
  ASSUME SearchInv, ParsingInv, NEW c \in Callers, TakeParsed(c)
  PROVE  SearchInv'
<1> DEFINE s == [search[c] EXCEPT !.pc = "fetch", !.parsed = parse[c].result]
<1>1. /\ SearchGoTo(c, s) /\ UNCHANGED rank
      /\ search[c].pc = "parse" /\ parse[c].pc # "none"
  BY DEF TakeParsed, Parsed
<1>2. parse[c].result \in ParsedFilters
  BY <1>1, ParseUnderWay DEF ParsingInv
<1>3. search[c] \in [pc: {"parse", "fetch"}, dto: Dtos,
                     parsed: ParsedFilters \cup {Undefined}]
  BY <1>1, SearchSlotTyped DEF SearchInv, SlotFits
<1>4. s \in [pc: {"parse", "fetch"}, dto: Dtos, parsed: ParsedFilters \cup {Undefined}]
      /\ s.pc = "fetch"
  BY <1>2, <1>3
<1>5. rank[c] = NoRank
  BY <1>1 DEF SearchInv, SlotFits
<1> HIDE DEF s
<1>6. SlotFits(s, rank[c])
  BY <1>4, <1>5 DEF SlotFits, SearchSlot
<1> QED
  BY <1>1, <1>6, SearchAloneGoesOn

\* What is read for the merged filters meets the explicit ones.
LEMMA SearchFetches ==
  ASSUME SearchInv, NEW c \in Callers, Fetch(c)
  PROVE  SearchInv'
<1> DEFINE s        == search[c]
           filters  == Filters(c)
           matching == {p \in Profiles : Matches(p, filters)}
           ranks    == s.dto.sortBy \in {"ai", Undefined}
<1>1. s.pc = "fetch" /\ s.dto \in Dtos
  <2>1. s.pc = "fetch" /\ s \in SearchSlot
    BY DEF Fetch, SearchInv, SlotFits
  <2> QED
    BY <2>1, SearchSlotTyped
<1>2. PICK listing \in Listings(matching, s.dto.sortBy) :
          LET page == PageOf(listing, s.dto)
          IN  /\ SearchGoTo(c, [pc |-> IF ranks THEN "rank" ELSE "answered",
                                dto |-> s.dto, page |-> page,
                                total |-> Cardinality(matching),
                                annotated |-> {}])
              /\ IF ranks
                 THEN BeginRanking(c, Buyer(s.dto),
                          [i \in DOMAIN page |-> Candidate(page[i])])
                 ELSE UNCHANGED <<calls, rank>>
  BY DEF Fetch
<1> DEFINE page == PageOf(listing, s.dto)
           t    == [pc |-> IF ranks THEN "rank" ELSE "answered",
                    dto |-> s.dto, page |-> page, total |-> Cardinality(matching),
                    annotated |-> {}]
<1>3. \A p \in matching : Matches(p, s.dto.filters)
  BY <1>1, MergedIsStricter DEF Filters
<1>4. PICK n \in 0 .. Cardinality(Profiles) : page \in [1 .. n -> matching]
  <2>1. matching \in SUBSET Profiles
    OBVIOUS
  <2> HIDE DEF matching
  <2> QED
    BY <1>1, <2>1, PageTyped
<1>5. Cardinality(matching) \in 0 .. Cardinality(Profiles)
  <2>1. IsFiniteSet(matching) /\ Cardinality(matching) <= Cardinality(Profiles)
    BY ProfilesAssumption, FS_Subset
  <2>2. Cardinality(matching) \in Nat /\ Cardinality(Profiles) \in Nat
    BY <2>1, ProfilesAssumption, FS_CardinalityType
  <2> QED
    BY <2>1, <2>2
<1>6. PageHonours(s.dto, page)
  <2>1. page \in [1 .. n -> {p \in Profiles : Matches(p, s.dto.filters)}]
    BY <1>3, <1>4
  <2> HIDE DEF page
  <2> QED
    BY <2>1 DEF PageHonours
<1>7. page \in UNION {[1 .. m -> Profiles] : m \in 0 .. Cardinality(Profiles)}
  <2>1. page \in [1 .. n -> Profiles]
    BY <1>4
  <2> HIDE DEF page
  <2> QED
    BY <2>1
<1>8. SearchGoTo(c, t)
  BY <1>2
<1>9. ranks => BeginRanking(c, Buyer(s.dto), [i \in DOMAIN page |-> Candidate(page[i])])
  BY <1>2
<1>10. ~ranks => UNCHANGED rank
  BY <1>2
<1> HIDE DEF page, matching
<1>11. t \in SearchSlot
  BY <1>1, <1>5, <1>7 DEF SearchSlot
<1>12. /\ t.dto = s.dto /\ t.page = page
       /\ t.pc = IF ranks THEN "rank" ELSE "answered"
  OBVIOUS
<1> HIDE DEF t
<1>13. CASE ranks
  <2>1. RankFits(s.dto, page, rank'[c])
    BY <1>1, <1>6, <1>9, <1>13, RankingBegins DEF SearchInv
  <2>2. PICK q : rank' = [rank EXCEPT ![c] = q]
    BY <1>9, <1>13 DEF BeginRanking
  <2>3. rank'[c] = q
    BY <2>2 DEF SearchInv
  <2>4. SlotFits(t, q)
    BY <1>6, <1>11, <1>12, <1>13, <2>1, <2>3 DEF SlotFits
  <2>5. search' = [search EXCEPT ![c] = t]
    BY <1>8 DEF SearchGoTo
  <2> QED
    BY <2>2, <2>4, <2>5, SearchGoesOn
<1>14. CASE ~ranks
  <2>1. rank[c] = NoRank
    BY <1>1 DEF SearchInv, SlotFits
  <2>2. SlotFits(t, rank[c])
    BY <1>6, <1>11, <1>12, <1>14, <2>1 DEF SlotFits
  <2> QED
    BY <1>8, <1>10, <1>14, <2>2, SearchAloneGoesOn
<1> QED
  BY <1>13, <1>14

LEMMA SearchRefused ==
  ASSUME SearchInv, NEW c \in Callers, FetchRefused(c)
  PROVE  SearchInv'
<1> DEFINE s == [pc |-> "failed", dto |-> search[c].dto]
<1>1. SearchGoTo(c, s) /\ UNCHANGED rank /\ search[c].pc = "fetch"
  BY DEF FetchRefused
<1>2. search[c].dto \in Dtos /\ rank[c] = NoRank
  BY <1>1, SearchSlotTyped DEF SearchInv, SlotFits
<1>3. s \in SearchSlot /\ s.pc = "failed"
  BY <1>2 DEF SearchSlot
<1> HIDE DEF s
<1>4. SlotFits(s, rank[c])
  BY <1>2, <1>3 DEF SlotFits
<1> QED
  BY <1>1, <1>4, SearchAloneGoesOn

\* Only a search that waits for its ranking has one that goes on.
LEMMA SearchRanks ==
  ASSUME SearchInv, NEW c \in Callers, RankingProceeds(c), UNCHANGED search
  PROVE  SearchInv'
<1>1. rank[c].pc = "ask"
  BY DEF RankingProceeds, AskForRanking, TakeRanking, RankingUnavailable
<1>2. search[c].pc = "rank"
  BY <1>1 DEF SearchInv, SlotFits, NoRank
<1>3. PICK q : rank' = [rank EXCEPT ![c] = q]
  <2>1. CASE AskForRanking(c)
    <3>1. rank' = [rank EXCEPT ![c] = rank[c]]
      BY <2>1 DEF AskForRanking, SearchInv
    <3> QED
      BY <3>1
  <2>2. CASE TakeRanking(c)
    BY <2>2 DEF TakeRanking
  <2>3. CASE RankingUnavailable(c)
    <3>1. rank' = [rank EXCEPT ![c] = [rank[c] EXCEPT !.pc = "done"]]
      BY <2>3 DEF RankingUnavailable
    <3> QED
      BY <3>1
  <2> QED
    BY <2>1, <2>2, <2>3 DEF RankingProceeds
<1>4. rank'[c] = q /\ search' = [search EXCEPT ![c] = search[c]]
  BY <1>3 DEF SearchInv
<1>5. RankFits(search[c].dto, search[c].page, q)
  BY <1>2, <1>4, RankingGoesOn DEF SearchInv, SlotFits
<1>6. SlotFits(search[c], q)
  BY <1>2, <1>5 DEF SearchInv, SlotFits
<1> QED
  BY <1>3, <1>4, <1>6, SearchGoesOn

LEMMA SearchTakesRanked ==
  ASSUME SearchInv, NEW c \in Callers, TakeRanked(c)
  PROVE  SearchInv'
<1> DEFINE s     == search[c]
           q     == rank[c]
           score == [i \in DOMAIN s.page |-> OrZero(q.scores[s.page[i].id])]
           page  == Sorted(s.page, score)
           t     == [s EXCEPT !.pc = "answered", !.page = page,
                              !.annotated = q.annotated]
<1>1. /\ s.pc = "rank" /\ search' = [search EXCEPT ![c] = t]
      /\ rank' = [rank EXCEPT ![c] = NoRank]
  BY DEF TakeRanked, SearchGoTo, RankingTaken
<1>2. /\ PageHonours(s.dto, s.page) /\ RankFits(s.dto, s.page, q)
      /\ s \in SearchSlot
  BY <1>1 DEF SearchInv, SlotFits
<1>3. s \in [pc: {"rank", "answered"}, dto: Dtos,
             page: UNION {[1 .. n -> Profiles] : n \in 0 .. Cardinality(Profiles)},
             total: 0 .. Cardinality(Profiles), annotated: SUBSET Ids]
  BY <1>1, <1>2, SearchSlotTyped
<1>4. PageHonours(s.dto, page) /\ InOrder(s.dto, page, q.annotated)
  BY <1>2, <1>3, RankedInOrder
<1>5. q.annotated \in SUBSET Ids
  <2>1. q.annotated \subseteq {s.page[i].id : i \in DOMAIN s.page}
    BY <1>2 DEF RankFits
  <2>2. PICK n \in 0 .. Cardinality(Profiles) :
            s.page \in [1 .. n -> {p \in Profiles : Matches(p, s.dto.filters)}]
    BY <1>2 DEF PageHonours
  <2>3. \A i \in DOMAIN s.page : s.page[i] \in Profiles
    BY <2>2
  <2> QED
    BY <2>1, <2>3 DEF Ids
<1> HIDE DEF page
<1>6. page \in UNION {[1 .. n -> Profiles] : n \in 0 .. Cardinality(Profiles)}
  <2>1. PICK n \in 0 .. Cardinality(Profiles) :
            page \in [1 .. n -> {p \in Profiles : Matches(p, s.dto.filters)}]
    BY <1>4 DEF PageHonours
  <2>2. page \in [1 .. n -> Profiles]
    BY <2>1
  <2> QED
    BY <2>2
<1>7. /\ t \in [pc: {"rank", "answered"}, dto: Dtos,
                page: UNION {[1 .. n -> Profiles] : n \in 0 .. Cardinality(Profiles)},
                total: 0 .. Cardinality(Profiles), annotated: SUBSET Ids]
      /\ t.pc = "answered" /\ t.dto = s.dto /\ t.page = page
      /\ t.annotated = q.annotated
  BY <1>3, <1>5, <1>6
<1> HIDE DEF t
<1>8. SlotFits(t, NoRank)
  BY <1>4, <1>7 DEF SlotFits, SearchSlot
<1> QED
  BY <1>1, <1>8, SearchGoesOn

LEMMA SearchEnds ==
  ASSUME SearchInv, NEW c \in Callers, EndSearch(c)
  PROVE  SearchInv'
<1>1. /\ SearchGoTo(c, NoSearch) /\ UNCHANGED rank
      /\ search[c].pc \in {"answered", "failed"}
  BY DEF EndSearch
<1>2. rank[c] = NoRank
  BY <1>1 DEF SearchInv, SlotFits
<1>3. SlotFits(NoSearch, rank[c])
  BY <1>2 DEF SlotFits, SearchSlot, NoSearch
<1> QED
  BY <1>1, <1>3, SearchAloneGoesOn

LEMMA SearchUntouched ==
  ASSUME SearchInv, UNCHANGED <<rank, search>>
  PROVE  SearchInv'
<1>1. \A c \in Callers : SlotFits(search[c], rank[c])'
  BY DEF SearchInv
<1> QED
  BY <1>1 DEF SearchInv

LEMMA SearchStepFits ==
  ASSUME ParsingInv, SearchInv, [SearchNext]_searchVars
  PROVE  SearchInv'
<1>1. ASSUME NEW c \in Callers, SearchProceeds(c)
      PROVE  SearchInv'
  BY <1>1, SearchUntouched, SearchTakesParsed, SearchFetches, SearchRefused,
     SearchRanks, SearchTakesRanked DEF SearchProceeds
<1> QED
  BY <1>1, SearchBegins, SearchEnds, SearchUntouched DEF SearchNext, searchVars

LEMMA SearchesBegin ==
  ASSUME SearchInit
  PROVE  ParsingInv /\ SearchInv
<1>1. ParsingInv
  BY DEF SearchInit, ParsingInit, ParsingInv, ParsingTypeOK, ParseSlot, NoParse,
         CachedParseFits
<1>2. SlotFits(NoSearch, NoRank)
  BY DEF SlotFits, SearchSlot, NoSearch
<1>3. SearchInv
  BY <1>2 DEF SearchInit, RankingInit, SearchInv
<1> QED
  BY <1>1, <1>3

LEMMA SearchesFit == SearchSpec => [](ParsingInv /\ SearchInv)
<1>1. SearchInit => ParsingInv /\ SearchInv
  BY SearchesBegin
<1>2. ParsingInv /\ SearchInv /\ [SearchNext]_searchVars => (ParsingInv /\ SearchInv)'
  BY SearchStepParses, SearchStepFits
<1> QED
  BY <1>1, <1>2, PTL DEF SearchSpec

\* searchProviders merges what the model, or the cache of other users' parses,
\* reads out of the query with what the caller gave: whatever that is, every
\* provider on an answered page meets all the caller gave, and is listed, also
\* after the page has been sorted by the scores of the ranking.
THEOREM SearchesHonourCaller == SearchSpec => []SearchHonoursCaller
<1>1. SearchInv => SearchHonoursCaller
  <2>1. ASSUME SearchInv, NEW c \in Callers, search[c].pc = "answered"
        PROVE  \A p \in Range(search[c].page) : Matches(p, search[c].dto.filters)
    <3>1. PICK n \in 0 .. Cardinality(Profiles) :
              search[c].page \in
                  [1 .. n -> {p \in Profiles : Matches(p, search[c].dto.filters)}]
      BY <2>1 DEF SearchInv, SlotFits, PageHonours
    <3> QED
      BY <3>1 DEF Range
  <2> QED
    BY <2>1 DEF SearchHonoursCaller
<1> QED
  BY <1>1, SearchesFit, PTL

\* Whether the model answers, fails, or leaves candidates out, and however many
\* of them it is shown: among those it has said nothing of, an answered page has
\* the better deterministic score first.
THEOREM UnannotatedKeepTheirOrder == SearchSpec => []UnannotatedKeepOrder
<1>1. SearchInv => UnannotatedKeepOrder
  BY DEF SearchInv, SlotFits, InOrder, Det, UnannotatedKeepOrder
<1> QED
  BY <1>1, SearchesFit, PTL

\* The type of a search, its parse, its ranking, its calls and the cache.
THEOREM SearchTypeCorrect == SearchSpec => []SearchTypeOK
<1>1. ASSUME TimeInv, ParsingInv, SearchInv
      PROVE  SearchTypeOK
  <2>1. CallsTypeOK /\ ParsingTypeOK
    BY <1>1, CallsTyped DEF TimeInv, ParsingInv
  <2>2. search \in [Callers -> SearchSlot]
    BY <1>1 DEF SearchInv, SlotFits
  <2>3. ASSUME NEW c \in Callers, rank[c] # NoRank
        PROVE  /\ rank[c].pc \in {"ask", "done"}
               /\ Range(rank[c].candidates) = DOMAIN rank[c].scores
    <3>1. RankFits(search[c].dto, search[c].page, rank[c])
      BY <1>1, <2>3 DEF SearchInv, SlotFits
    <3>2. rank[c].pc \in {"ask", "done"}
      BY <3>1, RankTyped
    <3> QED
      BY <3>1, <3>2 DEF RankFits
  <2> QED
    BY <2>1, <2>2, <2>3 DEF SearchTypeOK
<1> QED
  BY <1>1, SearchesFit, SearchesInTime, PTL DEF SearchSpec

-----------------------------------------------------------------------------
(***************************************************************************)
(* Order statistics                                                        *)
(***************************************************************************)
Below(s, x) == {j \in DOMAIN s : s[j] < x}
UpTo(s, x)  == {j \in DOMAIN s : s[j] <= x}

\* A list of prices has as many places as it is long.
LEMMA PlacesCounted ==
  ASSUME NEW s \in Seq(Nat)
  PROVE  IsFiniteSet(DOMAIN s) /\ Cardinality(DOMAIN s) = Len(s)
<1>1. DOMAIN s = 1 .. Len(s) /\ Len(s) \in Nat
  OBVIOUS
<1> QED
  BY <1>1, FS_Interval, SMTT(40)

\* The parts of a list of prices that a price cuts it into.
LEMMA PartsCounted ==
  ASSUME NEW s \in Seq(Nat), NEW x \in Int
  PROVE  /\ IsFiniteSet(Below(s, x)) /\ Cardinality(Below(s, x)) \in 0 .. Len(s)
         /\ IsFiniteSet(UpTo(s, x)) /\ Cardinality(UpTo(s, x)) \in 0 .. Len(s)
<1>1. IsFiniteSet(DOMAIN s) /\ Cardinality(DOMAIN s) = Len(s)
  BY PlacesCounted
<1>2. Below(s, x) \in SUBSET DOMAIN s /\ UpTo(s, x) \in SUBSET DOMAIN s
  BY DEF Below, UpTo
<1>3. /\ IsFiniteSet(Below(s, x)) /\ Cardinality(Below(s, x)) <= Len(s)
      /\ IsFiniteSet(UpTo(s, x)) /\ Cardinality(UpTo(s, x)) <= Len(s)
  BY <1>1, <1>2, FS_Subset
<1> QED
  BY <1>3, FS_CardinalityType

\* There is an i-th smallest price, counted from zero.
LEMMA SmallestIs ==
  ASSUME NEW s \in Seq(Nat), NEW i \in 0 .. (Len(s) - 1)
  PROVE  LET x == Smallest(s, i)
         IN  /\ x \in Nat /\ x \in Range(s)
             /\ Cardinality(Below(s, x)) <= i /\ Cardinality(UpTo(s, x)) > i
<1> DEFINE n == Len(s)
           score == [j \in 1 .. n |-> 0 - s[j]]
<1>1. n \in Nat /\ DOMAIN s = 1 .. n /\ \A j \in 1 .. n : s[j] \in Nat
  OBVIOUS
<1>2. score \in [1 .. n -> Int]
  BY <1>1
<1>3. PICK j \in 1 .. n : Cardinality(Ahead(score, j)) = i
  <2> HIDE DEF score
  <2> QED
    BY <1>1, <1>2, PlacesTaken, ZenonT(60)
<1>4. s[j] \in Nat /\ s[j] \in Int /\ s[j] \in Range(s)
  BY <1>1 DEF Range
<1>5. Ahead(score, j) =
          {k \in 1 .. n : s[k] < s[j] \/ (s[k] = s[j] /\ k < j)}
  BY <1>1, SMTT(40) DEF Ahead
<1> HIDE DEF score
<1>6. IsFiniteSet(Ahead(score, j))
  <2>1. Ahead(score, j) \in SUBSET (1 .. n) /\ IsFiniteSet(1 .. n)
    BY <1>1, <1>5, FS_Interval
  <2> QED
    BY <2>1, FS_Subset
<1>7. Cardinality(Below(s, s[j])) <= i
  <2>1. Below(s, s[j]) \in SUBSET Ahead(score, j)
    BY <1>1, <1>5 DEF Below
  <2> QED
    BY <1>3, <1>6, <2>1, FS_Subset
<1>8. Cardinality(UpTo(s, s[j])) > i
  <2>1. Ahead(score, j) \cup {j} \in SUBSET UpTo(s, s[j])
    BY <1>1, <1>5 DEF UpTo
  <2>2. j \notin Ahead(score, j)
    BY <1>5
  <2>3. Cardinality(Ahead(score, j) \cup {j}) = i + 1
    BY <1>3, <1>6, <2>2, FS_AddElement
  <2>4. PICK x \in Nat : x = s[j]
    BY <1>4
  <2>5. IsFiniteSet(UpTo(s, x)) /\ Cardinality(UpTo(s, x)) \in 0 .. Len(s)
    <3>1. x \in Int
      OBVIOUS
    <3> QED
      BY <3>1, PartsCounted
  <2>6. i + 1 <= Cardinality(UpTo(s, x))
    <3>1. Ahead(score, j) \cup {j} \in SUBSET UpTo(s, x)
      BY <2>1, <2>4
    <3>2. Cardinality(Ahead(score, j) \cup {j}) <= Cardinality(UpTo(s, x))
      BY <2>5, <3>1, FS_Subset
    <3> QED
      BY <2>3, <3>2
  <2>7. i \in Int /\ Cardinality(UpTo(s, x)) \in Int
    BY <2>5
  <2>8. Cardinality(UpTo(s, x)) > i
    BY <2>6, <2>7
  <2> QED
    BY <2>4, <2>8
<1>9. \E x \in Range(s) :
          Cardinality(Below(s, x)) <= i /\ Cardinality(UpTo(s, x)) > i
  BY <1>4, <1>7, <1>8
<1>10. /\ Smallest(s, i) \in Range(s)
       /\ Cardinality(Below(s, Smallest(s, i))) <= i
       /\ Cardinality(UpTo(s, Smallest(s, i))) > i
  BY <1>9 DEF Smallest, Below, UpTo
<1> QED
  BY <1>1, <1>10 DEF Range

\* The prices in order: all of them numbers, and none after a greater one.
LEMMA OrderedAscends ==
  ASSUME NEW s \in Seq(Nat)
  PROVE  /\ Ordered(s) \in [0 .. (Len(s) - 1) -> Nat]
         /\ \A i, j \in 0 .. (Len(s) - 1) : i <= j => Ordered(s)[i] <= Ordered(s)[j]
         /\ \A i \in 0 .. (Len(s) - 1) :
               /\ Cardinality(Below(s, Ordered(s)[i])) <= i
               /\ Cardinality(UpTo(s, Ordered(s)[i])) > i
<1>1. \A i \in 0 .. (Len(s) - 1) : Ordered(s)[i] = Smallest(s, i)
  BY DEF Ordered
<1>2. DOMAIN Ordered(s) = 0 .. (Len(s) - 1)
  BY DEF Ordered
<1>3. \A i \in 0 .. (Len(s) - 1) :
          /\ Ordered(s)[i] \in Nat
          /\ Cardinality(Below(s, Ordered(s)[i])) <= i
          /\ Cardinality(UpTo(s, Ordered(s)[i])) > i
  BY <1>1, SmallestIs
<1>4. ASSUME NEW i \in 0 .. (Len(s) - 1), NEW j \in 0 .. (Len(s) - 1), i <= j,
             ~(Ordered(s)[i] <= Ordered(s)[j])
      PROVE  FALSE
  <2>1. PICK a \in Nat, b \in Nat : a = Ordered(s)[i] /\ b = Ordered(s)[j]
    BY <1>3
  <2>2. b < a /\ Cardinality(Below(s, a)) <= i /\ Cardinality(UpTo(s, b)) > j
    <3>1. ~(a <= b)
      BY <1>4, <2>1
    <3>2. Cardinality(Below(s, a)) <= i /\ Cardinality(UpTo(s, b)) > j
      BY <1>3, <2>1, Zenon
    <3> QED
      BY <3>1, <3>2
  <2>3. UpTo(s, b) \in SUBSET Below(s, a)
    <3>1. \A k \in DOMAIN s : s[k] \in Nat
      OBVIOUS
    <3> QED
      BY <2>2, <3>1 DEF UpTo, Below
  <2>4. /\ IsFiniteSet(Below(s, a)) /\ Cardinality(Below(s, a)) \in Int
        /\ Cardinality(UpTo(s, b)) \in Int
    <3>1. a \in Int /\ b \in Int
      OBVIOUS
    <3>2. Cardinality(Below(s, a)) \in 0 .. Len(s) /\ Cardinality(UpTo(s, b)) \in 0 .. Len(s)
      BY <3>1, PartsCounted
    <3> QED
      BY <3>1, <3>2, PartsCounted
  <2>5. Cardinality(UpTo(s, b)) <= Cardinality(Below(s, a))
    BY <2>3, <2>4, FS_Subset
  <2> QED
    BY <1>4, <2>2, <2>4, <2>5
<1>5. Ordered(s) \in [0 .. (Len(s) - 1) -> Nat]
  BY <1>2, <1>3 DEF Ordered
<1> QED
  BY <1>3, <1>4, <1>5

\* The median is a number; half of the prices are at most the lower of the two
\* it lies between, half at least the upper.
LEMMA MedianTyped ==
  ASSUME NEW s \in Seq(Nat), s # <<>>
  PROVE  /\ Median(s) \in Nat
         /\ \E a, b \in Nat :
               /\ a <= b
               /\ Median(s) = 40 * (a + b)
               /\ 2 * Cardinality(UpTo(s, a)) >= Len(s)
               /\ 2 * Cardinality(Below(s, b)) <= Len(s)
<1> DEFINE n   == Len(s)
           mid == n \div 2
           o   == Ordered(s)
<1>1. n \in Nat /\ n >= 1
  OBVIOUS
<1>2. /\ o \in [0 .. (n - 1) -> Nat]
      /\ \A i, j \in 0 .. (n - 1) : i <= j => o[i] <= o[j]
      /\ \A i \in 0 .. (n - 1) :
            Cardinality(Below(s, o[i])) <= i /\ Cardinality(UpTo(s, o[i])) > i
  BY OrderedAscends
<1>3. PICK m \in Nat : m = mid
  BY <1>1
<1>4. m \in 0 .. (n - 1)
  BY <1>1, <1>3
<1>5. ASSUME NEW x \in Nat
      PROVE  Cardinality(Below(s, x)) \in Int /\ Cardinality(UpTo(s, x)) \in Int
  <2>1. x \in Int
    OBVIOUS
  <2>2. Cardinality(Below(s, x)) \in 0 .. Len(s) /\ Cardinality(UpTo(s, x)) \in 0 .. Len(s)
    BY <2>1, PartsCounted
  <2> QED
    BY <2>2
<1>6. n % 2 = 1 => 2 * m + 1 = n
  BY <1>1, <1>3
<1>7. n % 2 # 1 => 2 * m = n
  BY <1>1, <1>3
<1>8. Median(s) = IF n % 2 = 1 THEN 80 * o[m] ELSE 40 * (o[m - 1] + o[m])
  BY <1>3 DEF Median
<1> HIDE DEF o, n, mid
<1>9. CASE n % 2 = 1
  <2>1. PICK a \in Nat : a = o[m]
    BY <1>2, <1>4
  <2>2. Cardinality(Below(s, a)) <= m /\ Cardinality(UpTo(s, a)) > m
    BY <1>2, <1>4, <2>1
  <2>3. Median(s) = 40 * (a + a)
    BY <1>8, <1>9, <2>1
  <2>4. 2 * Cardinality(UpTo(s, a)) >= n /\ 2 * Cardinality(Below(s, a)) <= n
    <3>1. Cardinality(Below(s, a)) \in Int /\ Cardinality(UpTo(s, a)) \in Int
      BY <1>5
    <3>2. 2 * m + 1 = n
      BY <1>6, <1>9
    <3> QED
      BY <1>1, <2>2, <3>1, <3>2
  <2>5. Median(s) \in Nat /\ a <= a
    BY <2>3
  <2> QED
    BY <2>3, <2>4, <2>5 DEF n
<1>10. CASE n % 2 # 1
  <2>1. m - 1 \in 0 .. (n - 1)
    BY <1>1, <1>4, <1>7, <1>10
  <2>2. PICK a \in Nat, b \in Nat : a = o[m - 1] /\ b = o[m]
    BY <1>2, <1>4, <2>1
  <2>3. a <= b
    BY <1>2, <1>4, <2>1, <2>2
  <2>4. Cardinality(Below(s, b)) <= m /\ Cardinality(UpTo(s, a)) > m - 1
    BY <1>2, <1>4, <2>1, <2>2
  <2>5. Median(s) = 40 * (a + b)
    BY <1>8, <1>10, <2>2
  <2>6. 2 * Cardinality(UpTo(s, a)) >= n /\ 2 * Cardinality(Below(s, b)) <= n
    <3>1. Cardinality(Below(s, b)) \in Int /\ Cardinality(UpTo(s, a)) \in Int
      BY <1>5
    <3>2. 2 * m = n
      BY <1>7, <1>10
    <3> QED
      BY <1>1, <2>4, <3>1, <3>2
  <2>7. Median(s) \in Nat
    BY <2>5
  <2> QED
    BY <2>3, <2>5, <2>6, <2>7 DEF n
<1> QED
  BY <1>9, <1>10

\* From u to v in quarters.
Between(u, v, r) == 80 * u + 20 * r * (v - u)

\* A quartile lies between two neighbours of the prices in order, r quarters of
\* the way from the lower to the upper, or is the greatest price.
LEMMA QuartileBetween ==
  ASSUME NEW s \in Seq(Nat), s # <<>>, NEW k \in {1, 3}
  PROVE  \E b \in 0 .. (Len(s) - 1), r \in 0 .. 3 :
            /\ 4 * b + r = (Len(s) - 1) * k
            /\ b + 1 \in 0 .. (Len(s) - 1) =>
                  Quartile(s, k) = Between(Ordered(s)[b], Ordered(s)[b + 1], r)
            /\ b + 1 \notin 0 .. (Len(s) - 1) => Quartile(s, k) = 80 * Ordered(s)[b]
<1>1. PICK n \in Nat : n = Len(s)
  OBVIOUS
<1>2. n >= 1
  BY <1>1
<1>3. PICK idx \in Nat : idx = (n - 1) * k
  BY <1>2
<1>4. idx <= 3 * (n - 1)
  BY <1>2, <1>3
<1>5. PICK b \in Nat, r \in 0 .. 3 : b = idx \div 4 /\ r = idx % 4
  OBVIOUS
<1>6. 4 * b + r = idx
  BY <1>5
<1>7. b \in 0 .. (n - 1)
  BY <1>2, <1>4, <1>6
<1>8. DOMAIN Ordered(s) = 0 .. (Len(s) - 1)
  BY DEF Ordered
<1>9. Quartile(s, k) = 80 * Ordered(s)[b] +
          IF b + 1 \in 0 .. (Len(s) - 1)
          THEN 20 * r * (Ordered(s)[b + 1] - Ordered(s)[b]) ELSE 0
  BY <1>1, <1>3, <1>5, <1>8, Zenon DEF Quartile
<1>10. b + 1 \in 0 .. (Len(s) - 1) =>
          Quartile(s, k) = Between(Ordered(s)[b], Ordered(s)[b + 1], r)
  BY <1>9, Zenon DEF Between
<1>11. b + 1 \notin 0 .. (Len(s) - 1) => Quartile(s, k) = 80 * Ordered(s)[b]
  <2>1. Ordered(s)[b] \in Nat
    BY <1>1, <1>7, OrderedAscends
  <2> QED
    BY <1>9, <2>1
<1> QED
  BY <1>1, <1>3, <1>6, <1>7, <1>10, <1>11

\* Between two numbers, in quarters: between them, and ascending.
LEMMA QuartersOfTheWay ==
  ASSUME NEW u \in Nat, NEW v \in Nat, u <= v, NEW r \in 0 .. 3, NEW t \in 0 .. 3, r <= t
  PROVE  /\ Between(u, v, r) \in Nat
         /\ 80 * u <= Between(u, v, r)
         /\ Between(u, v, r) <= 80 * v
         /\ Between(u, v, r) <= Between(u, v, t)
<1>1. PICK d \in Nat : d = v - u
  OBVIOUS
<1>2. v = u + d
  BY <1>1
<1>3. ASSUME NEW q \in 0 .. 3
      PROVE  20 * q * d \in Nat /\ 20 * q * d <= 60 * d
  <2>1. q = 0 \/ q = 1 \/ q = 2 \/ q = 3
    OBVIOUS
  <2> QED
    BY <2>1
<1>4. 20 * r * d <= 20 * t * d
  <2>1. r = 0 \/ r = 1 \/ r = 2 \/ r = 3
    OBVIOUS
  <2>2. t = 0 \/ t = 1 \/ t = 2 \/ t = 3
    OBVIOUS
  <2> QED
    BY <2>1, <2>2
<1>5. PICK x \in Nat, y \in Nat :
          x = 20 * r * d /\ y = 20 * t * d /\ x <= 60 * d /\ x <= y
  BY <1>3, <1>4
<1>6. Between(u, v, r) = 80 * u + x /\ Between(u, v, t) = 80 * u + y
  BY <1>1, <1>5 DEF Between
<1> QED
  BY <1>2, <1>5, <1>6

\* The quartiles are numbers, the first no greater than the third: what is
\* between them is never negative.
LEMMA IqrTyped ==
  ASSUME NEW s \in Seq(Nat), s # <<>>
  PROVE  Iqr(s) \in Nat
<1>1. PICK n \in Nat : n = Len(s) /\ n >= 1
  OBVIOUS
<1>2. PICK o \in [0 .. (n - 1) -> Nat] :
          o = Ordered(s) /\ \A i, j \in 0 .. (n - 1) : i <= j => o[i] <= o[j]
  BY <1>1, OrderedAscends
<1>3. ASSUME NEW k \in {1, 3}
      PROVE  \E b \in 0 .. (n - 1), r \in 0 .. 3 :
                /\ 4 * b + r = (n - 1) * k
                /\ b + 1 \in 0 .. (n - 1) => Quartile(s, k) = Between(o[b], o[b + 1], r)
                /\ b + 1 \notin 0 .. (n - 1) => Quartile(s, k) = 80 * o[b]
  <2>1. \E b \in 0 .. (Len(s) - 1), r \in 0 .. 3 :
            /\ 4 * b + r = (Len(s) - 1) * k
            /\ b + 1 \in 0 .. (Len(s) - 1) =>
                  Quartile(s, k) = Between(Ordered(s)[b], Ordered(s)[b + 1], r)
            /\ b + 1 \notin 0 .. (Len(s) - 1) => Quartile(s, k) = 80 * Ordered(s)[b]
    BY QuartileBetween
  <2>2. Len(s) = n /\ Ordered(s) = o
    BY <1>1, <1>2
  <2> QED
    BY <2>1, <2>2, Zenon
<1>4. PICK b \in 0 .. (n - 1), r \in 0 .. 3 :
          /\ 4 * b + r = (n - 1) * 1
          /\ b + 1 \in 0 .. (n - 1) => Quartile(s, 1) = Between(o[b], o[b + 1], r)
          /\ b + 1 \notin 0 .. (n - 1) => Quartile(s, 1) = 80 * o[b]
  BY <1>3
<1>5. PICK c \in 0 .. (n - 1), t \in 0 .. 3 :
          /\ 4 * c + t = (n - 1) * 3
          /\ c + 1 \in 0 .. (n - 1) => Quartile(s, 3) = Between(o[c], o[c + 1], t)
          /\ c + 1 \notin 0 .. (n - 1) => Quartile(s, 3) = 80 * o[c]
  BY <1>3
<1>6. b <= c /\ (b = c => r <= t)
  <2>1. 4 * b + r = (n - 1) * 1 /\ 4 * c + t = (n - 1) * 3
    BY <1>4, <1>5
  <2>2. 4 * b + r <= 4 * c + t
    BY <1>1, <2>1
  <2> QED
    BY <2>2
<1>7. ASSUME NEW i \in 0 .. (n - 1), NEW q \in 0 .. 3, NEW p \in 0 .. 3, q <= p,
             i + 1 \in 0 .. (n - 1)
      PROVE  /\ Between(o[i], o[i + 1], q) \in Nat
             /\ 80 * o[i] <= Between(o[i], o[i + 1], q)
             /\ Between(o[i], o[i + 1], q) <= 80 * o[i + 1]
             /\ Between(o[i], o[i + 1], q) <= Between(o[i], o[i + 1], p)
  <2>1. PICK u \in Nat, v \in Nat : u = o[i] /\ v = o[i + 1] /\ u <= v
    <3>1. o[i] \in Nat /\ o[i + 1] \in Nat /\ i <= i + 1
      BY <1>2, <1>7
    <3> QED
      BY <1>2, <1>7, <3>1
  <2>2. /\ Between(u, v, q) \in Nat
        /\ 80 * u <= Between(u, v, q)
        /\ Between(u, v, q) <= 80 * v
        /\ Between(u, v, q) <= Between(u, v, p)
    BY <1>7, <2>1, QuartersOfTheWay
  <2> QED
    BY <2>1, <2>2, Zenon
<1>8. o[b] \in Nat /\ o[c] \in Nat /\ r <= r /\ t <= t
  BY <1>2
<1>9. PICK low \in Nat : low = Quartile(s, 1)
  <2>1. CASE b + 1 \in 0 .. (n - 1)
    BY <1>4, <1>7, <1>8, <2>1
  <2>2. CASE b + 1 \notin 0 .. (n - 1)
    BY <1>4, <1>8, <2>2
  <2> QED
    BY <2>1, <2>2
<1>10. PICK high \in Nat : high = Quartile(s, 3) /\ 80 * o[c] <= high
  <2>1. CASE c + 1 \in 0 .. (n - 1)
    BY <1>5, <1>7, <1>8, <2>1
  <2>2. CASE c + 1 \notin 0 .. (n - 1)
    BY <1>5, <1>8, <2>2
  <2> QED
    BY <2>1, <2>2
<1>11. low <= high
  <2>1. CASE b = c
    <3>1. CASE b + 1 \in 0 .. (n - 1)
      <4>1. low = Between(o[b], o[b + 1], r) /\ high = Between(o[b], o[b + 1], t)
        BY <1>4, <1>5, <1>9, <1>10, <2>1, <3>1
      <4>2. Between(o[b], o[b + 1], r) <= Between(o[b], o[b + 1], t)
        BY <1>6, <1>7, <2>1, <3>1
      <4> QED
        BY <4>1, <4>2
    <3>2. CASE b + 1 \notin 0 .. (n - 1)
      BY <1>4, <1>5, <1>8, <1>9, <1>10, <2>1, <3>2
    <3> QED
      BY <3>1, <3>2
  <2>2. CASE b # c
    <3>1. b + 1 \in 0 .. (n - 1) /\ b + 1 <= c
      BY <1>1, <1>6, <2>2
    <3>2. low <= 80 * o[b + 1]
      <4>1. low = Between(o[b], o[b + 1], r)
        BY <1>4, <1>9, <3>1
      <4>2. Between(o[b], o[b + 1], r) <= 80 * o[b + 1]
        BY <1>7, <1>8, <3>1
      <4> QED
        BY <4>1, <4>2
    <3>3. PICK u \in Nat, v \in Nat : u = o[b + 1] /\ v = o[c] /\ u <= v
      BY <1>2, <3>1
    <3>4. low <= 80 * u /\ 80 * v <= high
      BY <1>10, <3>2, <3>3
    <3>5. 80 * u <= 80 * v
      BY <3>3
    <3> QED
      BY <3>4, <3>5
  <2> QED
    BY <2>1, <2>2
<1>12. PICK median \in Nat : median = Median(s)
  BY MedianTyped
<1>13. Iqr(s) = IF high = low THEN median \div 5 ELSE high - low
  BY <1>9, <1>10, <1>12, Zenon DEF Iqr
<1> QED
  BY <1>11, <1>13

-----------------------------------------------------------------------------
(***************************************************************************)
(* The suggestion of prices                                                *)
(***************************************************************************)
\* Rounded to whole prices, half of them up.
LEMMA RoundTyped ==
  ASSUME NEW m \in Nat
  PROVE  /\ Round(m, 80) \in Nat
         /\ 80 * Round(m, 80) <= m + 40 /\ m < 80 * Round(m, 80) + 40
<1>1. Round(m, 80) = (2 * m + 80) \div 160
  BY DEF Round
<1> QED
  BY <1>1

\* The statistical baseline of every request: numbers, the one recommended
\* being the median.
LEMMA BaselineTyped ==
  ASSUME NEW ctx \in Contexts
  PROVE  /\ Baseline(ctx) \in [Figures -> Nat]
         /\ ctx.prices # <<>> => Baseline(ctx).recommended = Round(Median(ctx.prices), 80)
<1>1. ctx.prices \in Seq(Nat)
  BY ContextsAssumption
<1> DEFINE s  == ctx.prices
           m0 == IF s = <<>> THEN 80 * Defaults(ctx.category).median ELSE Median(s)
           r0 == IF s = <<>> THEN 80 * Defaults(ctx.category).iqr ELSE Iqr(s)
<1>2. /\ Defaults(ctx.category).median \in Nat
      /\ Defaults(ctx.category).iqr \in Nat
  BY DEF Defaults
<1>3. PICK median \in Nat : median = m0
  <2>1. CASE s = <<>>
    BY <1>2, <2>1
  <2>2. CASE s # <<>>
    BY <1>1, <2>2, MedianTyped
  <2> QED
    BY <2>1, <2>2
<1>4. PICK iqr \in Nat : iqr = r0
  <2>1. CASE s = <<>>
    BY <1>2, <2>1
  <2>2. CASE s # <<>>
    BY <1>1, <2>2, IqrTyped
  <2> QED
    BY <2>1, <2>2
<1>5. PICK spread \in Nat : spread = (3 * iqr) \div 2
  OBVIOUS
<1>6. Lower(median, spread) \in Nat
  BY DEF Lower
<1>7. /\ Round(Lower(median, spread), 80) \in Nat
      /\ Round(median + spread, 80) \in Nat /\ Round(median, 80) \in Nat
  <2>1. median + spread \in Nat
    OBVIOUS
  <2> QED
    BY <1>6, <2>1, RoundTyped
<1>8. Baseline(ctx) = [suggestedMin |-> Round(Lower(median, spread), 80),
                       suggestedMax |-> Round(median + spread, 80),
                       recommended  |-> Round(median, 80)]
  BY <1>3, <1>4, <1>5, Zenon DEF Baseline
<1>9. s # <<>> => median = Median(s)
  BY <1>3
<1> HIDE DEF m0, r0
<1>10. Baseline(ctx) \in [Figures -> Nat]
  BY <1>7, <1>8 DEF Figures
<1> QED
  BY <1>8, <1>9, <1>10

\* Half of the prices are at most the rounded median, half at least, up to
\* the rounding.
LEMMA MedianHalves ==
  ASSUME NEW s \in Seq(Nat), NEW x \in Nat, s # <<>> => x = Round(Median(s), 80)
  PROVE  /\ 2 * Cardinality({i \in DOMAIN s : s[i] <= x}) >= Len(s)
         /\ 2 * Cardinality({i \in DOMAIN s : s[i] >= x - 1}) >= Len(s)
<1>1. /\ IsFiniteSet(DOMAIN s) /\ Cardinality(DOMAIN s) = Len(s)
      /\ Len(s) \in Nat /\ \A i \in DOMAIN s : s[i] \in Nat
  <2>1. Len(s) \in Nat
    OBVIOUS
  <2>2. IsFiniteSet(DOMAIN s) /\ Cardinality(DOMAIN s) = Len(s)
    BY PlacesCounted
  <2>3. \A i \in DOMAIN s : s[i] \in Nat
    OBVIOUS
  <2> QED
    BY <2>1, <2>2, <2>3
<1> DEFINE low  == {i \in DOMAIN s : s[i] <= x}
           high == {i \in DOMAIN s : s[i] >= x - 1}
<1>2. low \in SUBSET DOMAIN s /\ high \in SUBSET DOMAIN s
  OBVIOUS
<1>3. /\ IsFiniteSet(low) /\ Cardinality(low) \in Nat
      /\ IsFiniteSet(high) /\ Cardinality(high) \in Nat
  BY <1>1, <1>2, FS_Subset, FS_CardinalityType
<1>4. CASE s = <<>>
  <2>1. Len(s) = 0
    BY <1>4
  <2> HIDE DEF low, high
  <2>2. 2 * Cardinality(low) >= Len(s) /\ 2 * Cardinality(high) >= Len(s)
    BY <1>3, <2>1
  <2> QED
    BY <2>2 DEF low, high
<1>5. CASE s # <<>>
  <2>1. PICK a \in Nat, b \in Nat :
            /\ a <= b
            /\ Median(s) = 40 * (a + b)
            /\ 2 * Cardinality(UpTo(s, a)) >= Len(s)
            /\ 2 * Cardinality(Below(s, b)) <= Len(s)
    BY <1>5, MedianTyped
  <2>2. a <= x /\ x <= b
    <3>1. PICK m \in Nat : m = 40 * (a + b)
      OBVIOUS
    <3>2. x = Round(m, 80)
      BY <1>5, <2>1, <3>1
    <3>3. 80 * x <= m + 40 /\ m < 80 * x + 40
      BY <3>2, RoundTyped
    <3> QED
      BY <2>1, <3>1, <3>3
  <2>3. UpTo(s, a) \in SUBSET low
    BY <1>1, <2>2 DEF UpTo
  <2>4. DOMAIN s \ Below(s, b) \in SUBSET high
    BY <1>1, <2>2 DEF Below
  <2>5. Below(s, b) \in SUBSET DOMAIN s
    BY DEF Below
  <2> HIDE DEF low, high
  <2>6. /\ IsFiniteSet(Below(s, b)) /\ Cardinality(Below(s, b)) \in Int
        /\ Cardinality(UpTo(s, a)) \in Int
    <3>1. a \in Int /\ b \in Int
      OBVIOUS
    <3>2. Cardinality(Below(s, b)) \in 0 .. Len(s) /\ Cardinality(UpTo(s, a)) \in 0 .. Len(s)
      BY <3>1, PartsCounted
    <3> QED
      BY <3>1, <3>2, PartsCounted
  <2>7. Cardinality(UpTo(s, a)) <= Cardinality(low)
    BY <1>3, <2>3, FS_Subset
  <2>8. Cardinality(DOMAIN s \ Below(s, b)) = Len(s) - Cardinality(Below(s, b))
    <3>1. DOMAIN s \cap Below(s, b) = Below(s, b)
      BY <2>5
    <3>2. Cardinality(DOMAIN s \ Below(s, b)) =
              Cardinality(DOMAIN s) - Cardinality(DOMAIN s \cap Below(s, b))
      BY <1>1, <2>6, FS_Difference
    <3> QED
      BY <1>1, <3>1, <3>2
  <2>9. Cardinality(DOMAIN s \ Below(s, b)) <= Cardinality(high)
    BY <1>3, <2>4, FS_Subset
  <2>10. PICK len \in Nat, upTo \in Int, below \in Int, l \in Nat, h \in Nat :
             /\ len = Len(s) /\ l = Cardinality(low) /\ h = Cardinality(high)
             /\ upTo = Cardinality(UpTo(s, a)) /\ below = Cardinality(Below(s, b))
    BY <1>1, <1>3, <2>6
  <2>11. 2 * upTo >= len /\ 2 * below <= len /\ upTo <= l /\ len - below <= h
    BY <2>1, <2>7, <2>8, <2>9, <2>10, Zenon
  <2>12. 2 * l >= len /\ 2 * h >= len
    BY <2>11
  <2>13. 2 * Cardinality(low) >= Len(s) /\ 2 * Cardinality(high) >= Len(s)
    BY <2>10, <2>12, Zenon
  <2> QED
    BY <2>13 DEF low, high
<1> QED
  BY <1>4, <1>5

\* Whatever the model says, what it says is moved to within thirty percent.
LEMMA ClampNear ==
  ASSUME NEW x \in Int, NEW base \in Nat
  PROVE  /\ Clamp(x, base) \in Nat
         /\ 20 * Clamp(x, base) + 10 >= 14 * base
         /\ 20 * Clamp(x, base) <= 26 * base + 10
<1>1. 7 * base \in Int /\ 10 * x \in Int /\ 13 * base \in Int
  OBVIOUS
<1>2. PICK up \in Int : up = Max({7 * base, 10 * x})
  <2>1. Max({7 * base, 10 * x}) \in {7 * base, 10 * x}
    BY <1>1, MinMaxOfTwo, Zenon
  <2> QED
    BY <1>1, <2>1
<1>3. up >= 7 * base
  BY <1>1, <1>2, MinMaxOfTwo, Zenon
<1>4. PICK y \in Int : y = Min({13 * base, up})
  <2>1. Min({13 * base, up}) \in {13 * base, up}
    BY <1>1, MinMaxOfTwo, Zenon
  <2> QED
    BY <1>1, <2>1
<1>5. y \in {13 * base, up} /\ y <= 13 * base
  BY <1>1, <1>4, MinMaxOfTwo, Zenon
<1>6. y >= 7 * base
  BY <1>3, <1>5
<1>7. Clamp(x, base) = Round(y, 10)
  BY <1>2, <1>4, Zenon DEF Clamp
<1>8. Clamp(x, base) = (2 * y + 10) \div 20
  BY <1>7 DEF Round
<1> QED
  BY <1>5, <1>6, <1>8

\* Every figure is no number, or near the baseline of the request.
Near(ctx, suggestion) ==
    \A f \in Figures :
        LET base == Baseline(ctx)[f]
            x    == suggestion.figures[f]
        IN  x = NaN \/ (20 * x + 10 >= 14 * base /\ 20 * x <= 26 * base + 10)

\* The suggestion of a slot is of its request, from the fallback on.
PriceSlotFits(q) ==
    /\ q.pc # "none" => Near(q.ctx, q.suggestion)
    /\ q.pc = "lookup" => q.suggestion.figures = Baseline(q.ctx)

\* What is kept under a key is near the baseline of every request with it.
PricesKeptNear ==
    \A ctx \in Contexts :
        priceCache[KeyOf(ctx)] # Undefined => Near(ctx, priceCache[KeyOf(ctx)])

PricingInv ==
    /\ pricing \in [Callers -> PriceSlot]
    /\ priceCache \in [PriceKeys -> Suggestion \cup {Undefined}]
    /\ \A c \in Callers : PriceSlotFits(pricing[c])
    /\ PricesKeptNear

\* Requests with one key have one baseline: what is near for one is for all.
LEMMA OneKeyOneBaseline ==
  ASSUME NEW c1 \in Contexts, NEW c2 \in Contexts, KeyOf(c1) = KeyOf(c2), NEW suggestion,
         Near(c1, suggestion)
  PROVE  Near(c2, suggestion)
<1>1. c1.category = c2.category /\ c1.prices = c2.prices
  BY DEF KeyOf
<1>2. Baseline(c1) = Baseline(c2)
  BY <1>1, ZenonT(60) DEF Baseline
<1> QED
  BY <1>2, Zenon DEF Near

LEMMA KeysOfContexts ==
  ASSUME NEW ctx \in Contexts
  PROVE  KeyOf(ctx) \in PriceKeys
  BY DEF KeyOf, PriceKeys

\* The fallback is the baseline, and near itself.
LEMMA FallbackNear ==
  ASSUME NEW ctx \in Contexts, NEW suggestion,
         suggestion = [figures |-> Baseline(ctx), aiFallback |-> TRUE]
  PROVE  suggestion \in Suggestion /\ Near(ctx, suggestion)
<1>1. Baseline(ctx) \in [Figures -> Nat]
  BY BaselineTyped
<1>2. suggestion \in Suggestion
  BY <1>1 DEF Suggestion
<1>3. ASSUME NEW f \in Figures
      PROVE  /\ 20 * suggestion.figures[f] + 10 >= 14 * Baseline(ctx)[f]
             /\ 20 * suggestion.figures[f] <= 26 * Baseline(ctx)[f] + 10
  <2>1. PICK base \in Nat : base = Baseline(ctx)[f]
    BY <1>1
  <2>2. suggestion.figures[f] = base
    BY <2>1
  <2> QED
    BY <2>1, <2>2
<1> QED
  BY <1>2, <1>3 DEF Near

\* What the model says is near the baseline when it has been adjusted, with
\* the figures it leaves out and those that are no numbers.
LEMMA AdjustedNear ==
  ASSUME NEW ctx \in Contexts, NEW opinion \in Opinions, NEW suggestion,
         suggestion = [figures |-> Adjusted(opinion, Baseline(ctx)), aiFallback |-> FALSE]
  PROVE  suggestion \in Suggestion /\ Near(ctx, suggestion)
<1>1. Baseline(ctx) \in [Figures -> Nat]
  BY BaselineTyped
<1>2. ASSUME NEW f \in Figures
      PROVE  /\ suggestion.figures[f] \in Nat \cup {NaN}
             /\ \/ suggestion.figures[f] = NaN
                \/ /\ 20 * suggestion.figures[f] + 10 >= 14 * Baseline(ctx)[f]
                   /\ 20 * suggestion.figures[f] <= 26 * Baseline(ctx)[f] + 10
  <2>1. PICK base \in Nat : base = Baseline(ctx)[f]
    BY <1>1
  <2>2. suggestion.figures[f] =
            CASE opinion[f] = Undefined -> Clamp(base, base)
              [] opinion[f] = NaN       -> NaN
              [] OTHER                  -> Clamp(opinion[f], base)
    BY <2>1 DEF Adjusted
  <2>3. ASSUME NEW x \in Int, suggestion.figures[f] = Clamp(x, base)
        PROVE  /\ suggestion.figures[f] \in Nat
               /\ 20 * suggestion.figures[f] + 10 >= 14 * Baseline(ctx)[f]
               /\ 20 * suggestion.figures[f] <= 26 * Baseline(ctx)[f] + 10
    BY <2>1, <2>3, ClampNear, Zenon
  <2>4. CASE opinion[f] = Undefined
    <3>1. base \in Int /\ suggestion.figures[f] \in {Clamp(base, base), NaN}
      BY <2>2, <2>4
    <3> QED
      BY <2>3, <3>1
  <2>5. CASE opinion[f] # Undefined /\ opinion[f] # NaN
    <3>1. opinion[f] \in Int
      BY <2>5, OpinionsAssumption
    <3>2. suggestion.figures[f] = Clamp(opinion[f], base)
      BY <2>2, <2>5
    <3> QED
      BY <2>3, <3>1, <3>2
  <2>6. CASE opinion[f] # Undefined /\ opinion[f] = NaN
    BY <2>2, <2>6
  <2> QED
    BY <2>4, <2>5, <2>6
<1>3. suggestion \in Suggestion
  <2>1. suggestion.figures \in [Figures -> Nat \cup {NaN}]
    <3>1. suggestion.figures = [f \in Figures |-> suggestion.figures[f]]
      BY DEF Adjusted
    <3> HIDE DEF Figures
    <3> QED
      BY <1>2, <3>1
  <2> QED
    BY <2>1 DEF Suggestion
<1> QED
  BY <1>2, <1>3, Zenon DEF Near

\* A slot goes on, the cache stays.
LEMMA PricingGoesOn ==
  ASSUME PricingInv, NEW c \in Callers, NEW q \in PriceSlot, UNCHANGED priceCache,
         pricing' = [pricing EXCEPT ![c] = q], PriceSlotFits(q)
  PROVE  PricingInv'
<1>1. pricing' \in [Callers -> PriceSlot]
  BY DEF PricingInv
<1>2. \A b \in Callers : pricing'[b] = IF b = c THEN q ELSE pricing[b]
  BY DEF PricingInv
<1>3. \A b \in Callers : PriceSlotFits(pricing'[b])
  BY <1>2 DEF PricingInv
<1>4. PricesKeptNear'
  BY DEF PricingInv, PricesKeptNear
<1> QED
  BY <1>1, <1>3, <1>4 DEF PricingInv

\* The slot of a request under way.
LEMMA PriceSlotTyped ==
  ASSUME PricingInv, NEW c \in Callers, pricing[c].pc # "none"
  PROVE  /\ pricing[c].ctx \in Contexts /\ pricing[c].suggestion \in Suggestion
         /\ Near(pricing[c].ctx, pricing[c].suggestion)
         /\ pricing[c] \in [pc: {"lookup", "ask", "store", "answered"}, ctx: Contexts,
                            suggestion: Suggestion]
<1>1. pricing[c] \in [pc: {"lookup", "ask", "store", "answered"}, ctx: Contexts,
                      suggestion: Suggestion]
  BY DEF PricingInv, PriceSlot
<1>2. Near(pricing[c].ctx, pricing[c].suggestion)
  BY DEF PricingInv, PriceSlotFits
<1> QED
  BY <1>1, <1>2 DEF PriceSlot

\* It goes on with a suggestion near its baseline.
LEMMA PriceGoesOn ==
  ASSUME PricingInv, NEW c \in Callers, pricing[c].pc # "none", UNCHANGED priceCache,
         NEW pc \in {"ask", "store", "answered"}, NEW suggestion \in Suggestion,
         PriceGoTo(c, pc, suggestion), Near(pricing[c].ctx, suggestion)
  PROVE  PricingInv'
<1>1. PICK q : q = [pricing[c] EXCEPT !.pc = pc, !.suggestion = suggestion]
  OBVIOUS
<1>2. q \in PriceSlot /\ q.ctx = pricing[c].ctx /\ q.pc = pc /\ q.suggestion = suggestion
  BY <1>1, PriceSlotTyped DEF PriceSlot
<1>3. pricing' = [pricing EXCEPT ![c] = q]
  BY <1>1 DEF PriceGoTo
<1>4. PriceSlotFits(q)
  BY <1>2 DEF PriceSlotFits
<1> QED
  BY <1>2, <1>3, <1>4, PricingGoesOn

\* A request begins with the fallback at hand.
LEMMA PricingBegins ==
  ASSUME PricingInv, NEW c \in Callers, NEW ctx \in Contexts, BeginPricing(c, ctx)
  PROVE  PricingInv'
<1>1. PICK suggestion : suggestion = [figures |-> Baseline(ctx), aiFallback |-> TRUE]
  OBVIOUS
<1>2. suggestion \in Suggestion /\ Near(ctx, suggestion)
  BY <1>1, FallbackNear
<1>3. PICK q : q = [pc |-> "lookup", ctx |-> ctx, suggestion |-> suggestion]
  OBVIOUS
<1>4. pricing' = [pricing EXCEPT ![c] = q] /\ UNCHANGED priceCache
  BY <1>1, <1>3 DEF BeginPricing
<1>5. q \in PriceSlot
  BY <1>2, <1>3 DEF PriceSlot
<1>6. suggestion.figures = Baseline(ctx)
  BY <1>1
<1>7. PriceSlotFits(q)
  BY <1>2, <1>3, <1>6 DEF PriceSlotFits
<1> QED
  BY <1>4, <1>5, <1>7, PricingGoesOn

LEMMA PricingStep ==
  ASSUME PricingInv, NEW c \in Callers, PricingProceeds(c)
  PROVE  PricingInv'
\* What another request has left under the key is near this baseline, too.
<1>1. CASE PriceHit(c)
  <2>1. PICK ctx \in Contexts : ctx = pricing[c].ctx /\ pricing[c].pc # "none"
    BY <1>1, PriceSlotTyped DEF PriceHit
  <2>2. PICK suggestion : suggestion = priceCache[KeyOf(ctx)]
    OBVIOUS
  <2>3. /\ suggestion # Undefined /\ UNCHANGED priceCache
        /\ PriceGoTo(c, "answered", suggestion)
    BY <1>1, <2>1, <2>2 DEF PriceHit
  <2>4. suggestion \in Suggestion
    BY <2>2, <2>3, KeysOfContexts DEF PricingInv
  <2>5. Near(ctx, suggestion)
    BY <2>2, <2>3 DEF PricingInv, PricesKeptNear
  <2> QED
    BY <2>1, <2>3, <2>4, <2>5, PriceGoesOn
<1>2. CASE PriceMiss(c)
  <2>1. pricing[c].pc # "none" /\ UNCHANGED priceCache
        /\ PriceGoTo(c, "ask", pricing[c].suggestion)
    BY <1>2 DEF PriceMiss
  <2>2. pricing[c].suggestion \in Suggestion /\ Near(pricing[c].ctx, pricing[c].suggestion)
    BY <2>1, PriceSlotTyped
  <2> QED
    BY <2>1, <2>2, PriceGoesOn
<1>3. CASE AskForOpinion(c)
  BY <1>3 DEF AskForOpinion, PricingInv, PricesKeptNear
<1>4. CASE TakeOpinion(c)
  <2>1. PICK opinion \in Opinions, ctx \in Contexts :
            opinion = calls[c].content /\ ctx = pricing[c].ctx
    BY <1>4, PriceSlotTyped DEF TakeOpinion
  <2>2. PICK suggestion :
            suggestion = [figures |-> Adjusted(opinion, Baseline(ctx)), aiFallback |-> FALSE]
    OBVIOUS
  <2>3. suggestion \in Suggestion /\ Near(ctx, suggestion)
    BY <2>2, AdjustedNear
  <2>4. /\ pricing[c].pc # "none" /\ UNCHANGED priceCache
        /\ PriceGoTo(c, "store", suggestion)
    BY <1>4, <2>1, <2>2 DEF TakeOpinion
  <2> QED
    BY <2>1, <2>3, <2>4, PriceGoesOn
<1>5. CASE OpinionUnavailable(c)
  <2>1. pricing[c].pc # "none" /\ UNCHANGED priceCache
        /\ PriceGoTo(c, "answered", pricing[c].suggestion)
    BY <1>5 DEF OpinionUnavailable
  <2>2. pricing[c].suggestion \in Suggestion /\ Near(pricing[c].ctx, pricing[c].suggestion)
    BY <2>1, PriceSlotTyped
  <2> QED
    BY <2>1, <2>2, PriceGoesOn
<1>6. CASE StoreSuggestion(c)
  <2>1. PICK ctx \in Contexts, suggestion \in Suggestion :
            /\ ctx = pricing[c].ctx /\ suggestion = pricing[c].suggestion
            /\ pricing[c].pc # "none" /\ Near(ctx, suggestion)
    BY <1>6, PriceSlotTyped DEF StoreSuggestion
  <2>2. PriceGoTo(c, "answered", suggestion)
    BY <1>6, <2>1 DEF StoreSuggestion
  <2>3. PICK q : q = [pricing[c] EXCEPT !.pc = "answered", !.suggestion = suggestion]
    OBVIOUS
  <2>4. q \in PriceSlot /\ q.ctx = ctx /\ q.pc = "answered" /\ q.suggestion = suggestion
    BY <2>1, <2>3, PriceSlotTyped DEF PriceSlot
  <2>5. pricing' = [pricing EXCEPT ![c] = q]
    BY <2>2, <2>3 DEF PriceGoTo
  <2>6. PriceSlotFits(q)
    BY <2>1, <2>4 DEF PriceSlotFits
  <2>7. CASE UNCHANGED priceCache
    BY <2>4, <2>5, <2>6, <2>7, PricingGoesOn
  <2>8. CASE priceCache' = [priceCache EXCEPT ![KeyOf(ctx)] = suggestion]
    <3>1. KeyOf(ctx) \in PriceKeys
      BY KeysOfContexts
    <3>2. pricing' \in [Callers -> PriceSlot]
      BY <2>4, <2>5 DEF PricingInv
    <3>3. priceCache' \in [PriceKeys -> Suggestion \cup {Undefined}]
      BY <2>8, <3>1 DEF PricingInv
    <3>4. \A b \in Callers : pricing'[b] = IF b = c THEN q ELSE pricing[b]
      BY <2>5 DEF PricingInv
    <3>5. \A b \in Callers : PriceSlotFits(pricing'[b])
      BY <2>6, <3>4 DEF PricingInv
    <3>6. \A k \in PriceKeys : priceCache'[k] =
              IF k = KeyOf(ctx) THEN suggestion ELSE priceCache[k]
      BY <2>8 DEF PricingInv
    <3>7. ASSUME NEW other \in Contexts, priceCache'[KeyOf(other)] # Undefined
          PROVE  Near(other, priceCache'[KeyOf(other)])
      <4>1. KeyOf(other) \in PriceKeys
        BY KeysOfContexts
      <4>2. CASE KeyOf(other) = KeyOf(ctx)
        <5>1. Near(other, suggestion)
          BY <2>1, <4>2, OneKeyOneBaseline
        <5> QED
          BY <3>6, <4>1, <4>2, <5>1
      <4>3. CASE KeyOf(other) # KeyOf(ctx)
        <5>1. priceCache'[KeyOf(other)] = priceCache[KeyOf(other)]
          BY <3>6, <4>1, <4>3
        <5> QED
          BY <3>7, <5>1 DEF PricingInv, PricesKeptNear
      <4> QED
        BY <4>2, <4>3
    <3>8. PricesKeptNear'
      BY <3>7 DEF PricesKeptNear, Near
    <3> QED
      BY <3>2, <3>3, <3>5, <3>8 DEF PricingInv
  <2> QED
    BY <1>6, <2>1, <2>7, <2>8 DEF StoreSuggestion
<1> QED
  BY <1>1, <1>2, <1>3, <1>4, <1>5, <1>6 DEF PricingProceeds

LEMMA PricingNextFits ==
  ASSUME PricingInv, [PricingNext]_priceVars
  PROVE  PricingInv'
<1>1. ASSUME NEW c \in Callers, EndPricing(c)
      PROVE  PricingInv'
  <2>1. NoPricing \in PriceSlot /\ PriceSlotFits(NoPricing)
    BY DEF NoPricing, PriceSlot, PriceSlotFits
  <2>2. pricing' = [pricing EXCEPT ![c] = NoPricing] /\ UNCHANGED priceCache
    BY <1>1 DEF EndPricing
  <2> QED
    BY <2>1, <2>2, PricingGoesOn
<1>2. ASSUME NEW k \in PriceKeys, PriceExpires(k)
      PROVE  PricingInv'
  <2>1. /\ priceCache' \in [PriceKeys -> Suggestion \cup {Undefined}]
        /\ \A l \in PriceKeys : priceCache'[l] = IF l = k THEN Undefined ELSE priceCache[l]
    BY <1>2 DEF PriceExpires, PricingInv
  <2>2. ASSUME NEW ctx \in Contexts, priceCache'[KeyOf(ctx)] # Undefined
        PROVE  Near(ctx, priceCache'[KeyOf(ctx)])
    <3>1. priceCache'[KeyOf(ctx)] = priceCache[KeyOf(ctx)]
      BY <2>1, <2>2, KeysOfContexts
    <3> QED
      BY <2>2, <3>1 DEF PricingInv, PricesKeptNear
  <2>3. PricesKeptNear'
    BY <2>2 DEF PricesKeptNear, Near
  <2>4. pricing' = pricing
    BY <1>2 DEF PriceExpires
  <2>5. \A c \in Callers : PriceSlotFits(pricing'[c])
    BY <2>4 DEF PricingInv
  <2> QED
    BY <2>1, <2>3, <2>4, <2>5 DEF PricingInv
<1>3. ASSUME UNCHANGED priceVars
      PROVE  PricingInv'
  BY <1>3 DEF priceVars, PricingInv, PricesKeptNear
<1> QED
  BY <1>1, <1>2, <1>3, PricingBegins, PricingStep DEF PricingNext

LEMMA PricesFit == PricingSpec => []PricingInv
<1>1. ASSUME PricingInit
      PROVE  PricingInv
  <2>1. NoPricing \in PriceSlot /\ PriceSlotFits(NoPricing)
    BY DEF NoPricing, PriceSlot, PriceSlotFits
  <2>2. \A ctx \in Contexts : priceCache[KeyOf(ctx)] = Undefined
    BY <1>1, KeysOfContexts DEF PricingInit
  <2> QED
    BY <1>1, <2>1, <2>2 DEF PricingInit, PricingInv, PricesKeptNear
<1>2. PricingInv /\ [PricingNext]_priceVars => PricingInv'
  BY PricingNextFits
<1> QED
  BY <1>1, <1>2, PTL DEF PricingSpec

\* "Clamp Groq's output to +/-30% of the statistical baseline", for all prices
\* and whatever the model answers: a number that suggestPrice answers with is
\* that near to the baseline of its own request, although it may have been
\* computed for another one and kept; what is no number gets through.
THEOREM SuggestionsStayNear == PricingSpec => []SuggestionNearBaseline
<1>1. PricingInv => SuggestionNearBaseline
  BY DEF PricingInv, PriceSlotFits, Near, SuggestionNearBaseline
<1> QED
  BY <1>1, PricesFit, PTL

\* calculateStatisticalBaseline recommends a median, for every sequence of
\* comparable prices: half of them are at most the recommended price, half at
\* least, up to rounding.
THEOREM MediansSplit == PricingSpec => []MedianSplits
<1>1. ASSUME PricingInv
      PROVE  MedianSplits
  <2>1. SUFFICES ASSUME NEW c \in Callers, pricing[c].pc = "lookup",
                        NEW s, s = pricing[c].ctx.prices,
                        NEW x, x = pricing[c].suggestion.figures.recommended
                 PROVE  /\ 2 * Cardinality({i \in DOMAIN s : s[i] <= x}) >= Len(s)
                        /\ 2 * Cardinality({i \in DOMAIN s : s[i] >= x - 1}) >= Len(s)
    BY DEF MedianSplits
  <2>2. pricing[c].ctx \in Contexts
    BY <1>1, <2>1, PriceSlotTyped
  <2>3. s \in Seq(Nat)
    BY <2>1, <2>2, ContextsAssumption
  <2>4. x = Baseline(pricing[c].ctx).recommended
    BY <1>1, <2>1 DEF PricingInv, PriceSlotFits
  <2>5. x \in Nat
    BY <2>2, <2>4, BaselineTyped DEF Figures
  <2>6. s # <<>> => x = Round(Median(s), 80)
    BY <2>1, <2>2, <2>4, BaselineTyped
  <2> QED
    BY <2>3, <2>5, <2>6, MedianHalves
<1> QED
  BY <1>1, PricesFit, PTL

\* The type of the suggestions, their calls and their cache, for every number
\* of requests and prices.
THEOREM PricingTypeCorrect == PricingSpec => []PricingTypeOK
<1>1. TimeInv /\ PricingInv => PricingTypeOK
  BY CallsTyped DEF TimeInv, PricingInv, PricingTypeOK
<1> QED
  BY <1>1, PricesFit, PricesInTime, PTL DEF PricingSpec

=============================================================================
