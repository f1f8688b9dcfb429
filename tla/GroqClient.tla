----------------------------- MODULE GroqClient -----------------------------
(***************************************************************************)
(* GroqClientService.chat: the one door to the language model.  A call is  *)
(* tried up to MaxRetries times, each attempt is aborted after Timeout,    *)
(* and between two attempts the client sleeps, twice as long every time.   *)
(* The services that call it (SearchParsing, Matchmaking, Pricing,         *)
(* Contracts) compose their own steps with the ones of this module.        *)
(*                                                                         *)
(* Time is counted in units of the first backoff, 500 ms.                  *)
(***************************************************************************)
EXTENDS Naturals, FiniteSets, Functions, FiniteSetsExt

CONSTANTS
    Callers,    \* slots: the requests that can be in flight at once
    MaxRetries, \* GROQ_MAX_RETRIES; the code calls it the number of attempts
    Timeout,    \* GROQ_TIMEOUT_MS, in units
    Invalid,    \* content that is no JSON, or that its reader refuses
    Undefined   \* no value

ASSUME MaxRetriesAssumption == MaxRetries \in Nat
ASSUME TimeoutAssumption == Timeout \in Nat

\* undefined is no number.
ASSUME UndefinedAssumption == Undefined \notin Int

VARIABLE calls  \* the call of each slot, with its program counter

\* 8 s, the longest backoff.
MaxBackoff == 16

\* The sleep after a failed attempt.
Backoff(attempt) == Min({2 ^ (attempt - 1), MaxBackoff})

\* The sleeps after the first n attempts, together.
Slept[n \in Nat] == IF n = 0 THEN 0 ELSE Slept[n - 1] + Backoff(n)

\* The longest a call may take: every attempt times out, and the client
\* sleeps between two attempts, not after the last.
Patience ==
    MaxRetries * Timeout + (IF MaxRetries = 0 THEN 0 ELSE Slept[MaxRetries - 1])

\* pc: no call, an attempt is under way, the client sleeps, chat has returned
\* a reply, or it has thrown GroqUnavailableException.  elapsed is an
\* observation: the longest the call can have taken so far.
Call == [pc: {"none", "attempt", "backoff", "returned", "thrown"},
         attempt: Nat, elapsed: Nat]

NoCall == [pc |-> "none", attempt |-> 0, elapsed |-> 0, content |-> Undefined]

CallsInit == calls = [c \in Callers |-> NoCall]

-----------------------------------------------------------------------------
CallBecomes(c, call) == calls' = [calls EXCEPT ![c] = call]

\* With no attempts allowed the loop is skipped and the call throws.
BeginChat(c) ==
    LET call == calls[c]
    IN  /\ call.pc = "none"
        /\ CallBecomes(c, IF MaxRetries = 0 THEN [call EXCEPT !.pc = "thrown"]
                          ELSE [call EXCEPT !.pc = "attempt", !.attempt = 1])

\* Groq answers before the timer aborts the attempt.
ReplyArrives(c, content) ==
    LET call == calls[c]
    IN  /\ call.pc = "attempt"
        /\ CallBecomes(c, [call EXCEPT !.pc = "returned", !.content = content,
                                       !.elapsed = call.elapsed + Timeout])

\* Mutant: the client sleeps after the last attempt, too.
AfterFailure_AlwaysSleep(call) == "backoff"

\* Is there an attempt left?
AfterFailure(call) == IF call.attempt < MaxRetries THEN "backoff" ELSE "thrown"

\* The attempt fails: an error, or the abort of the timer.
AttemptFails(c) ==
    LET call == calls[c]
    IN  /\ call.pc = "attempt"
        /\ CallBecomes(c, [call EXCEPT !.pc = AfterFailure(call),
                                       !.elapsed = call.elapsed + Timeout])

NextAttempt(c) ==
    LET call == calls[c]
    IN  /\ call.pc = "backoff"
        /\ CallBecomes(c, [call EXCEPT !.pc = "attempt",
                                       !.attempt = call.attempt + 1,
                                       !.elapsed = call.elapsed + Backoff(call.attempt)])

\* contents: what the caller's prompt may be answered with.
ChatProceeds(c, contents) ==
    \/ AttemptFails(c)
    \/ \E content \in contents : ReplyArrives(c, content)
    \/ NextAttempt(c)

\* For the callers: chat is over with a content, or it threw; they take the
\* outcome and the slot is free for the next call.
Returned(c) == calls[c].pc = "returned"

\* Mutant: nobody catches the exception.
Thrown_Uncaught(c) == FALSE

Thrown(c) == calls[c].pc = "thrown"

ChatTaken(c) == CallBecomes(c, NoCall)

-----------------------------------------------------------------------------
\* The type of the calls; what a reply says is up to the callers.
CallsTypeOK ==
    \A c \in Callers :
        [pc |-> calls[c].pc, attempt |-> calls[c].attempt,
         elapsed |-> calls[c].elapsed] \in Call

\* A call ends in the time it is given: with the configured number of attempts
\* and the sleeps between them, none before the first or after the last.
CallInTime ==
    \A c \in Callers :
        LET call == calls[c]
        IN  /\ call.attempt <= MaxRetries
            /\ call.elapsed <= Patience
            /\ call.pc = "attempt" => call.elapsed + Timeout <= Patience
=============================================================================
