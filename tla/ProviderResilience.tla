-------------------------- MODULE ProviderResilience ---------------------------
(****************************************************************************)
(* A paid provider as the code calls it: the vendor adapter that turns the  *)
(* vendor's errors into its own, the retry around it, and the circuit       *)
(* breaker around that.  One breaker serves every call of a process, and    *)
(* calls overlap.  The three ports (llm, stt, ocr) have decorators of their *)
(* own, alike but for the errors they tell apart; kind says whose this is.  *)
(****************************************************************************)
EXTENDS Naturals, FiniteSets

CONSTANTS
  Clients,    \* calls that may be under way at once
  Threshold   \* failureThreshold

VARIABLES
  kind,     \* which port: "llm", "stt" or "ocr"
  up,       \* whether the vendor answers
  breaker,  \* its state, its consecutive failures, whether it has cooled down
  request   \* [Clients -> where the call is]

resilienceVars == <<kind, up, breaker, request>>

Kinds == {"llm", "stt", "ocr"}
CallAttempts == 2   \* DEFAULT_RETRY_POLICY

\* What the vendor may do instead of answering; garbled is a response without
\* the output asked for.
Failures == {"unauthorized", "forbidden", "throttled", "slow", "bad_request", "not_found",
             "conflict", "server_error", "garbled"}

(***************************************************************************)
(* The adapters' mapError and parseResponse                                *)
(***************************************************************************)
AnthropicError(e) ==
  CASE e \in {"unauthorized", "forbidden"} -> "authentication"
    [] e = "throttled" -> "rate_limit"
    [] e = "slow" -> "timeout"
    [] e \in {"bad_request", "not_found"} -> "invalid_request"
    [] e = "garbled" -> "malformed_response"
    [] OTHER -> "unavailable"

\* One ApiError with an HTTP status, and nothing that tells a timeout.
GeminiError(e) ==
  CASE e \in {"unauthorized", "forbidden"} -> "authentication"
    [] e = "throttled" -> "rate_limit"
    [] e = "bad_request" -> "invalid_audio"
    [] e = "garbled" -> "malformed_response"
    [] OTHER -> "unavailable"

VisionError(e) ==
  CASE e \in {"unauthorized", "forbidden"} -> "authentication"
    [] e = "throttled" -> "rate_limit"
    [] e = "slow" -> "timeout"
    [] e \in {"bad_request", "not_found"} -> "invalid_image"
    [] e = "garbled" -> "malformed_response"
    [] OTHER -> "unavailable"

ErrorOf(e) ==
  CASE kind = "llm" -> AnthropicError(e)
    [] kind = "stt" -> GeminiError(e)
    [] kind = "ocr" -> VisionError(e)

(***************************************************************************)
(* RetryingLlmProvider, RetryingSttProvider, RetryingOcrProvider           *)
(***************************************************************************)
LlmIsFinal(err) == err \in {"authentication", "invalid_request"}
SttIsFinal(err) == err \in {"authentication", "invalid_audio"}
OcrIsFinal(err) == err \in {"authentication", "invalid_image"}

IsFinal(err) ==
  \/ kind = "llm" /\ LlmIsFinal(err)
  \/ kind = "stt" /\ SttIsFinal(err)
  \/ kind = "ocr" /\ OcrIsFinal(err)

GivesUp(c, err) == IsFinal(err) \/ request[c].attempt = CallAttempts

(***************************************************************************)
(* CircuitBreakerLlmProvider and its two mirrors                           *)
(***************************************************************************)
ClosedBreaker == [state |-> "closed", failures |-> 0, cooled |-> FALSE]

\* As if a probe's success only cleared the count.
AfterSuccessKept(b) == [b EXCEPT !.failures = 0]
AfterSuccess(b) == ClosedBreaker

\* consecutiveFailures counts no further than the threshold it is compared
\* with; openedAt is stamped anew by a failure that ends while already open.
AfterFailure(b) ==
  IF b.state = "half-open" THEN [b EXCEPT !.state = "open", !.cooled = FALSE]
  ELSE LET f == IF b.failures < Threshold THEN b.failures + 1 ELSE b.failures
       IN IF f = Threshold THEN [state |-> "open", failures |-> f, cooled |-> FALSE]
          ELSE [b EXCEPT !.failures = f]

NoRequest == [at |-> "idle", attempt |-> 1, probing |-> FALSE]

ResilienceInit ==
  /\ kind \in Kinds
  /\ up = TRUE
  /\ breaker = ClosedBreaker
  /\ request = [c \in Clients |-> NoRequest]

MayProbe == breaker.cooled

Reaches(c, b) ==
  /\ breaker' = b
  /\ request' = [request EXCEPT ![c] = [at |-> "vendor", attempt |-> 1,
                                        probing |-> b.state = "half-open"]]

Refuses(c) == request' = [request EXCEPT ![c].at = "refused"] /\ UNCHANGED breaker

Ends(c, b) ==
  /\ breaker' = b
  /\ request' = [request EXCEPT ![c] = NoRequest]

\* complete, transcribe, extractText: refused at once while open.
Calls(c) ==
  /\ request[c].at = "idle"
  /\ \/ breaker.state # "open" /\ Reaches(c, breaker)
     \/ breaker.state = "open" /\ MayProbe /\ Reaches(c, [breaker EXCEPT !.state = "half-open"])
     \/ breaker.state = "open" /\ ~ MayProbe /\ Refuses(c)
  /\ UNCHANGED <<kind, up>>

LearnsOfRefusal(c) ==
  /\ request[c].at = "refused"
  /\ Ends(c, breaker)
  /\ UNCHANGED <<kind, up>>

VendorAnswers(c) ==
  /\ request[c].at = "vendor"
  /\ up
  /\ Ends(c, AfterSuccess(breaker))
  /\ UNCHANGED <<kind, up>>

VendorFails(c) ==
  /\ request[c].at = "vendor"
  /\ ~ up
  /\ \E e \in Failures :
       IF GivesUp(c, ErrorOf(e)) THEN Ends(c, AfterFailure(breaker))
       ELSE request' = [request EXCEPT ![c].attempt = @ + 1] /\ UNCHANGED breaker
  /\ UNCHANGED <<kind, up>>

CoolsDown ==
  /\ breaker.state = "open" /\ ~ breaker.cooled
  /\ breaker' = [breaker EXCEPT !.cooled = TRUE]
  /\ UNCHANGED <<kind, up, request>>

VendorTurns == up' = ~ up /\ UNCHANGED <<kind, breaker, request>>

CallEnds(c) == VendorAnswers(c) \/ VendorFails(c) \/ LearnsOfRefusal(c)

ResilienceNext ==
  \/ \E c \in Clients : Calls(c) \/ CallEnds(c)
  \/ CoolsDown
  \/ VendorTurns

(***************************************************************************)
(* Properties                                                              *)
(***************************************************************************)
SomebodyCalls == \E c \in Clients : Calls(c)

\* The breaker never keeps a vendor out for good: once the vendor answers and
\* goes on answering, and somebody goes on calling, the breaker closes and
\* stays closed, whatever calls were under way when it opened.
BreakerRecovers ==
  <>[] up /\ []<> <<SomebodyCalls>>_resilienceVars => <>[] (breaker.state = "closed")
=============================================================================
