------------------------------ MODULE HttpClient ------------------------------
(***************************************************************************)
(* RetryableHTTPClient: one call of get() or post() against a source.  Two *)
(* layers retry: urllib3, out of one budget for every kind of failure, and *)
(* _request, which calls itself on a rate limit with a new budget.  Time   *)
(* is what the client sleeps and what the source asks it to wait; backoff  *)
(* without a Retry-After header counts as no time.                         *)
(***************************************************************************)
EXTENDS Integers

CONSTANTS
    MaxRetries,     \* Retry.total of a request
    MaxDepth,       \* nested _request calls that Python's stack has room for
    DefaultWait,    \* seconds to wait when the header tells none
    Wait            \* seconds that the source may ask for

ASSUME HttpClientAssumption ==
    /\ MaxRetries \in Nat
    /\ MaxDepth \in Nat
    /\ MaxRetries <= MaxDepth
    /\ DefaultWait \in Nat
    /\ Wait \subseteq Nat

VARIABLES
    pc,         \* where the call is
    left,       \* retries that urllib3 has left
    depth,      \* nested _request calls
    answer,     \* the last answer of the source
    sleep,      \* seconds of the last sleep
    outcome,    \* how the last call ended
    sends       \* history: requests sent for this call

hcVars == <<pc, left, depth, answer, sleep, outcome, sends>>

\* "broken" are 500, 502, 503 and 504, "limited" is 429, "tooLarge" 413, and
\* "refused" is every other error.  Retry-After gives seconds, a date, or
\* neither; no answer at all is "network".  "torn" is a response that urllib3
\* has no objection to and whose body breaks off or does not come in time.
Header == {"none", "seconds", "date", "garbled"}
Answer ==
    [kind : {"success", "refused", "network", "torn"}, after : {"none"},
     wait : {0}]
        \cup [kind : {"broken", "limited", "tooLarge"}, after : Header,
              wait : Wait]

\* A budget is never overdrawn, nesting stays within the stack.
HCTypeOK ==
    /\ pc \in {"idle", "sent", "answered", "waiting"}
    /\ left \in 0..MaxRetries
    /\ depth \in 0..MaxDepth
    /\ answer \in Answer
    /\ sleep \in Nat
    /\ outcome \in {"none", "returned", "raised"}
    /\ sends \in Nat

HCInit ==
    /\ pc = "idle"
    /\ left = MaxRetries
    /\ depth = 0
    /\ answer = [kind |-> "network", after |-> "none", wait |-> 0]
    /\ sleep = 0
    /\ outcome = "none"
    /\ sends = 0

-----------------------------------------------------------------------------
\* What the source asks for and what the layers make of it.

Due == IF answer.after \in {"seconds", "date"} THEN answer.wait ELSE 0

\* Mutation of Pause: the header is not read.
PauseDefault == DefaultWait

\* _handle_rate_limit: int() does not read a date.
Pause == IF answer.after = "seconds" THEN answer.wait ELSE DefaultWait

\* Retry.is_retry, and the errors of the connection.
ForUrllib ==
    \/ answer.kind \in {"network", "broken"}
    \/ /\ answer.kind \in {"limited", "tooLarge"}
       /\ answer.after # "none"
       /\ left > 0

-----------------------------------------------------------------------------
\* The call and the source.

Call ==
    /\ pc = "idle"
    /\ pc' = "sent"
    /\ left' = MaxRetries
    /\ depth' = 0
    /\ outcome' = "none"
    /\ sends' = 1
    /\ UNCHANGED <<answer, sleep>>

Respond(a) ==
    /\ pc = "sent"
    /\ pc' = "answered"
    /\ answer' = a
    /\ UNCHANGED <<left, depth, sleep, outcome, sends>>

End(how) ==
    /\ pc' = "idle"
    /\ outcome' = how
    /\ UNCHANGED <<left, depth, answer, sleep, sends>>

-----------------------------------------------------------------------------
\* What urllib3 does with an answer.

\* Mutation of Retry: one retry more than there are.
RetryOverdrawn ==
    /\ pc = "answered"
    /\ ForUrllib
    /\ pc' = "waiting"
    /\ left' = left - 1
    /\ sleep' = Due
    /\ UNCHANGED <<depth, answer, outcome, sends>>

\* Mutation of Retry: rate limits do not use up retries.
RetryFree ==
    /\ pc = "answered"
    /\ ForUrllib
    /\ left > 0
    /\ answer.after # "garbled"
    /\ pc' = "waiting"
    /\ left' = IF answer.kind = "limited" THEN left ELSE left - 1
    /\ sleep' = Due
    /\ UNCHANGED <<depth, answer, outcome, sends>>

Retry ==
    /\ pc = "answered"
    /\ ForUrllib
    /\ left > 0
    /\ answer.after # "garbled"
    /\ pc' = "waiting"
    /\ left' = left - 1
    /\ sleep' = Due
    /\ UNCHANGED <<depth, answer, outcome, sends>>

\* Mutation of GiveUp: max_retries is taken for the number of requests.
GiveUpEarly ==
    /\ pc = "answered"
    /\ ForUrllib
    /\ left <= 1 \/ answer.after = "garbled"
    /\ End("raised")

\* MaxRetryError, or InvalidHeader.
GiveUp ==
    /\ pc = "answered"
    /\ ForUrllib
    /\ left = 0 \/ answer.after = "garbled"
    /\ End("raised")

-----------------------------------------------------------------------------
\* What _request does with an answer that urllib3 lets through.

RateLimited ==
    /\ pc = "answered"
    /\ ~ForUrllib
    /\ answer.kind = "limited"

\* Mutation of HandleRateLimit: it sleeps, and looks at the same answer again.
HandleRateLimitLoops ==
    /\ RateLimited
    /\ depth < MaxDepth
    /\ sleep' = Pause
    /\ UNCHANGED <<pc, left, depth, answer, outcome, sends>>

HandleRateLimit ==
    /\ RateLimited
    /\ depth < MaxDepth
    /\ pc' = "waiting"
    /\ depth' = depth + 1
    /\ left' = MaxRetries
    /\ sleep' = Pause
    /\ UNCHANGED <<answer, outcome, sends>>

\* RecursionError.
TooDeep ==
    /\ RateLimited
    /\ depth = MaxDepth
    /\ End("raised")

\* The body is read when urllib3 has returned the response: session.request
\* raises, whatever retries are left.
BodyBreaks ==
    /\ pc = "answered"
    /\ answer.kind = "torn"
    /\ End("raised")

RaiseForStatus ==
    /\ pc = "answered"
    /\ ~ForUrllib
    /\ answer.kind \notin {"limited", "torn"}
    /\ End(IF answer.kind = "success" THEN "returned" ELSE "raised")

\* The sleep of either layer is over.
SendAgain ==
    /\ pc = "waiting"
    /\ pc' = "sent"
    /\ sends' = sends + 1
    /\ UNCHANGED <<left, depth, answer, sleep, outcome>>

-----------------------------------------------------------------------------
Handling ==
    \/ Retry
    \/ GiveUp
    \/ HandleRateLimit
    \/ TooDeep
    \/ BodyBreaks
    \/ RaiseForStatus
    \/ SendAgain

HCNext == Call \/ (\E a \in Answer : Respond(a)) \/ Handling

\* A source that does not answer within the timeout is an answer "network";
\* nobody has to call.
HCFairness ==
    /\ WF_hcVars(\E a \in Answer : Respond(a))
    /\ WF_hcVars(Handling)

HCSpec == HCInit /\ [][HCNext]_hcVars /\ HCFairness

-----------------------------------------------------------------------------
\* The two layers multiply: a call sends no more than the whole budget of
\* urllib3 for each _request on the stack.
SendsAreBounded == sends <= (depth + 1) * (MaxRetries + 1)

\* A call returns nothing but a success, one that came whole.  It fails for the
\* last answer alone where the source refuses the request, where a header cannot
\* be read, and where a body breaks off, which nothing retries; else only after
\* as many requests as one budget pays for.  Failures of the other kinds share
\* the budget: the first error of the network may be the last.
OutcomeIsEarned ==
    /\ outcome = "returned" => answer.kind = "success"
    /\ outcome = "raised" =>
         \/ answer.kind \in {"refused", "tooLarge", "torn"}
         \/ answer.after = "garbled"
         \/ sends > MaxRetries

\* Neither layer asks again before the source wants to be asked, except for
\* a date that is further away than the default wait of _request.
WaitsAsAsked ==
    pc = "waiting" =>
        sleep >= Due \/ (answer.after = "date" /\ sleep = DefaultWait)

\* The sync that called gets an answer or an exception, whatever the source
\* answers: also when it never stops to limit the rate.
CallEnds == pc # "idle" ~> pc = "idle"
=============================================================================
