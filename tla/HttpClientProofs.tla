--------------------------- MODULE HttpClientProofs ---------------------------
(***************************************************************************)
(* What a call of the HTTP client sends before it ends, and what it may    *)
(* end with, for every budget of retries, every depth of the stack and     *)
(* every wait that a source may ask for.                                   *)
(***************************************************************************)
EXTENDS HttpClient, TLAPS

\* Before the first call every budget is whole.
LEMMA TypesInit == HCInit => HCTypeOK
  BY HttpClientAssumption DEF HCInit, HCTypeOK, Answer

\* Every step keeps the types.
LEMMA TypesStep == HCTypeOK /\ [HCNext]_hcVars => HCTypeOK'
<1> SUFFICES ASSUME HCTypeOK, [HCNext]_hcVars PROVE HCTypeOK'
  OBVIOUS
<1> USE HttpClientAssumption DEF HCTypeOK
<1>1. CASE UNCHANGED hcVars
  BY <1>1 DEF hcVars
<1>2. CASE Call
  BY <1>2 DEF Call
<1>3. ASSUME NEW a \in Answer, Respond(a) PROVE HCTypeOK'
  BY <1>3 DEF Respond
<1>4. Due \in Nat /\ Pause \in Nat
  BY DEF Due, Pause, Answer
<1>5. CASE Retry
  BY <1>4, <1>5 DEF Retry
<1>6. CASE GiveUp \/ TooDeep \/ BodyBreaks \/ RaiseForStatus
  BY <1>6 DEF GiveUp, TooDeep, BodyBreaks, RaiseForStatus, RateLimited, End
<1>7. CASE HandleRateLimit
  BY <1>4, <1>7 DEF HandleRateLimit, RateLimited
<1>8. CASE SendAgain
  BY <1>8 DEF SendAgain
<1> QED
  BY <1>1, <1>2, <1>3, <1>5, <1>6, <1>7, <1>8 DEF HCNext, Handling

\* The budget of urllib3 is never overdrawn and the stack never exceeded,
\* whatever the source answers (HCTypeOK).
THEOREM HttpClientTypes == HCSpec => []HCTypeOK
  BY TypesInit, TypesStep, PTL DEF HCSpec

-----------------------------------------------------------------------------
\* What a call has sent follows from what it has spent: a request for each
\* _request on the stack and for each retry of the last one, and no more than
\* a whole budget for those before.  A retry that is still slept for is spent
\* already.
Slept == IF pc = "waiting" THEN 1 ELSE 0

SendsInv ==
    /\ HCTypeOK
    /\ pc # "idle" => outcome = "none"
    /\ (pc # "idle" \/ outcome # "none") =>
           /\ sends + Slept <= depth * (MaxRetries + 1) + (MaxRetries - left) + 1
           /\ sends + Slept >= depth + (MaxRetries - left) + 1
    /\ (pc = "idle" /\ outcome = "none") => sends = 0
    /\ OutcomeIsEarned

\* Nothing has been sent before the first call.
LEMMA SendsInit == HCInit => SendsInv
  BY TypesInit DEF HCInit, SendsInv, OutcomeIsEarned

\* A whole budget is what one _request more adds to the bound.
LEMMA OneMore ==
    ASSUME NEW d \in Nat, NEW m \in Nat
    PROVE  (d + 1) * (m + 1) = d * (m + 1) + (m + 1)
  OBVIOUS

\* Every step that spends a retry or a level of the stack sends once.
LEMMA SendsStep == SendsInv /\ [HCNext]_hcVars => SendsInv'
<1> SUFFICES ASSUME SendsInv, [HCNext]_hcVars PROVE SendsInv'
  OBVIOUS
<1> DEFINE bound == depth * (MaxRetries + 1)
<1>t. HCTypeOK /\ HCTypeOK'
  BY TypesStep DEF SendsInv
<1>b. bound \in Nat /\ depth \in Nat /\ left \in Nat /\ MaxRetries \in Nat /\ sends \in Nat
  BY <1>t, HttpClientAssumption DEF HCTypeOK
<1> USE HttpClientAssumption
<1>1. CASE UNCHANGED hcVars
  BY <1>1 DEF hcVars, SendsInv, Slept, OutcomeIsEarned, HCTypeOK
<1>2. CASE Call
  <2>1. depth' * (MaxRetries + 1) = 0
    BY <1>2 DEF Call
  <2> QED
    BY <1>2, <1>t, <2>1 DEF Call, SendsInv, Slept, OutcomeIsEarned
<1>3. ASSUME NEW a \in Answer, Respond(a) PROVE SendsInv'
  <2>1. depth' * (MaxRetries + 1) = bound
    BY <1>3 DEF Respond
  <2> QED
    BY <1>3, <1>t, <1>b, <2>1 DEF Respond, SendsInv, Slept, OutcomeIsEarned
<1>4. CASE Retry
  <2>1. depth' * (MaxRetries + 1) = bound
    BY <1>4 DEF Retry
  <2> QED
    BY <1>4, <1>t, <1>b, <2>1 DEF Retry, SendsInv, Slept, OutcomeIsEarned
<1>5. CASE GiveUp \/ TooDeep \/ BodyBreaks \/ RaiseForStatus
  <2>1. /\ UNCHANGED <<left, depth, answer, sends>>
        /\ pc = "answered"
        /\ pc' = "idle"
        /\ outcome' \in {"returned", "raised"}
    BY <1>5 DEF GiveUp, TooDeep, BodyBreaks, RaiseForStatus, RateLimited, End
  <2>2. depth' * (MaxRetries + 1) = bound
    BY <2>1
  <2>3. sends >= depth + (MaxRetries - left) + 1
    BY <2>1, <1>b DEF SendsInv, Slept
  <2>4. CASE GiveUp
    <3>1. outcome' = "raised" /\ (left = 0 \/ answer.after = "garbled")
      BY <2>4 DEF GiveUp, End
    <3>2. OutcomeIsEarned'
      BY <2>1, <2>3, <1>b, <3>1 DEF OutcomeIsEarned
    <3> QED
      BY <1>t, <1>b, <2>1, <2>2, <3>2 DEF SendsInv, Slept
  <2>5. CASE TooDeep
    <3>1. outcome' = "raised" /\ depth = MaxDepth
      BY <2>5 DEF TooDeep, End
    <3>2. sends > MaxRetries
      BY <2>3, <1>t, <1>b, <3>1 DEF HCTypeOK
    <3>3. OutcomeIsEarned'
      BY <2>1, <3>1, <3>2 DEF OutcomeIsEarned
    <3> QED
      BY <1>t, <1>b, <2>1, <2>2, <3>3 DEF SendsInv, Slept
  <2>6. CASE RaiseForStatus
    <3>1. /\ answer.kind \notin {"limited", "torn"}
          /\ answer.kind \notin {"network", "broken"}
          /\ outcome' = IF answer.kind = "success" THEN "returned" ELSE "raised"
      BY <2>6 DEF RaiseForStatus, End, ForUrllib
    <3>2. answer.kind \in {"success", "refused", "tooLarge"}
      BY <1>t, <3>1 DEF HCTypeOK, Answer
    <3>3. OutcomeIsEarned'
      BY <2>1, <3>1, <3>2 DEF OutcomeIsEarned
    <3> QED
      BY <1>t, <1>b, <2>1, <2>2, <3>3 DEF SendsInv, Slept
  <2>7. CASE BodyBreaks
    <3>1. outcome' = "raised" /\ answer.kind = "torn"
      BY <2>7 DEF BodyBreaks, End
    <3>2. OutcomeIsEarned'
      BY <2>1, <3>1 DEF OutcomeIsEarned
    <3> QED
      BY <1>t, <1>b, <2>1, <2>2, <3>2 DEF SendsInv, Slept
  <2> QED
    BY <1>5, <2>4, <2>5, <2>6, <2>7
<1>6. CASE HandleRateLimit
  <2>1. depth' * (MaxRetries + 1) = bound + (MaxRetries + 1)
    <3>1. depth' = depth + 1
      BY <1>6 DEF HandleRateLimit
    <3> QED
      BY <3>1, <1>b, OneMore
  <2> QED
    BY <1>6, <1>t, <1>b, <2>1
       DEF HandleRateLimit, RateLimited, SendsInv, Slept, OutcomeIsEarned, HCTypeOK
<1>7. CASE SendAgain
  <2>1. depth' * (MaxRetries + 1) = bound
    BY <1>7 DEF SendAgain
  <2> QED
    BY <1>7, <1>t, <1>b, <2>1 DEF SendAgain, SendsInv, Slept, OutcomeIsEarned
<1> QED
  BY <1>1, <1>2, <1>3, <1>4, <1>5, <1>6, <1>7 DEF HCNext, Handling

\* The invariant bounds what is sent.
LEMMA SendsImply == SendsInv => SendsAreBounded
<1> SUFFICES ASSUME SendsInv PROVE SendsAreBounded
  OBVIOUS
<1>1. /\ depth \in Nat /\ left \in Nat /\ MaxRetries \in Nat /\ sends \in Nat
      /\ depth * (MaxRetries + 1) \in Nat
  BY HttpClientAssumption DEF SendsInv, HCTypeOK
<1>2. sends <= depth * (MaxRetries + 1) + (MaxRetries + 1)
  BY <1>1 DEF SendsInv, Slept
<1> QED
  BY <1>1, <1>2, OneMore DEF SendsAreBounded

\* However the source mixes failures and rate limits, the two layers of retries
\* send no more than the product of their budgets (SendsAreBounded).
THEOREM RetriesAreBounded == HCSpec => []SendsAreBounded
  BY SendsInit, SendsStep, SendsImply, PTL DEF HCSpec

\* A call that fails has been refused, has met a header that cannot be read or
\* a body that breaks off, or has spent a budget (OutcomeIsEarned).
THEOREM OutcomesAreEarned == HCSpec => []OutcomeIsEarned
<1>1. SendsInv => OutcomeIsEarned
  BY DEF SendsInv
<1> QED
  BY <1>1, SendsInit, SendsStep, PTL DEF HCSpec

-----------------------------------------------------------------------------
\* Waiting. Whoever sleeps has just worked out for how long, from the answer it
\* still has.

WaitInv == HCTypeOK /\ WaitsAsAsked

\* Both layers wait as long as they read.
LEMMA WaitStep == WaitInv /\ [HCNext]_hcVars => WaitInv'
<1> SUFFICES ASSUME WaitInv, [HCNext]_hcVars PROVE WaitsAsAsked'
  BY TypesStep DEF WaitInv
<1>t. answer.wait \in Nat
  <2>1. answer.wait \in {0} \cup Wait
    BY DEF WaitInv, HCTypeOK, Answer
  <2>2. {0} \cup Wait \subseteq Nat
    BY HttpClientAssumption
  <2> QED
    BY <2>1, <2>2
<1> USE HttpClientAssumption DEF WaitInv, WaitsAsAsked, Due
<1>1. CASE UNCHANGED hcVars
  BY <1>1 DEF hcVars
<1>2. CASE Call \/ (\E a \in Answer : Respond(a)) \/ SendAgain
  BY <1>2 DEF Call, Respond, SendAgain
<1>3. CASE GiveUp \/ TooDeep \/ BodyBreaks \/ RaiseForStatus
  BY <1>3 DEF GiveUp, TooDeep, BodyBreaks, RaiseForStatus, RateLimited, End
<1>4. CASE Retry
  BY <1>4, <1>t DEF Retry
<1>5. CASE HandleRateLimit
  BY <1>5, <1>t DEF HandleRateLimit, Pause
<1> QED
  BY <1>1, <1>2, <1>3, <1>4, <1>5 DEF HCNext, Handling

\* Neither layer asks again before the source wants to be asked, except for a
\* date that is further away than the default wait (WaitsAsAsked).
THEOREM WaitsAreAsAsked == HCSpec => []WaitsAsAsked
<1>1. HCInit => WaitInv
  BY TypesInit DEF HCInit, WaitInv, WaitsAsAsked
<1>2. WaitInv => WaitsAsAsked
  BY DEF WaitInv
<1> QED
  BY <1>1, <1>2, WaitStep, PTL DEF HCSpec
=============================================================================
