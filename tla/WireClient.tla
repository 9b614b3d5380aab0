----------------------------- MODULE WireClient -----------------------------
(***************************************************************************)
(* send_with_retry (cli/src/registry/pull.rs) and the bearer cache of      *)
(* AuthManager (cli/src/registry/auth.rs): the GETs of one pull session.   *)
(*                                                                         *)
(* A call sends one GET up to MAX_RETRIES + 1 times.  A 401 with a bearer  *)
(* challenge makes it fetch a token from the realm, once per call; the     *)
(* token is cached for the rest of the session.  The registry may fail,    *)
(* may answer what it likes, and may let a token expire at any time.       *)
(***************************************************************************)
EXTENDS Integers

CONSTANTS MaxRetries,   \* MAX_RETRIES
          MaxCalls,     \* bound: calls in a session
          MaxExpiries   \* bound: tokens that expire in a session

ASSUME BoundsAssumption == /\ MaxRetries \in Nat
                           /\ MaxCalls \in Nat \ {0}
                           /\ MaxExpiries \in Nat

NoToken == 0

\* Bound of the history counters: more requests than a call may send.
Many == MaxRetries + 2
Count(n) == IF n < Many THEN n + 1 ELSE n

VARIABLES
  pc,         \* "send", "dance" or how the current call ended
  calls,      \* calls started
  attempt,    \* the loop variable of send_with_retry
  lastErr,    \* last_err is Some
  danced,     \* did_dance_this_call
  cached,     \* cached_bearer of the registry, a token's number or NoToken
  sent,       \* auth_to_send: a token's number, or NoToken for the chain's credentials
  issued,     \* tokens the realm has issued
  valid,      \* the token that the registry accepts, or NoToken
  expiries,   \* tokens that have expired
  faults,     \* history: attempts of this call that failed in transit or with a 5xx
  sends,      \* history: requests sent by this call (both counted up to Many)
  dances      \* history: tokens fetched in the session

vars == <<pc, calls, attempt, lastErr, danced, cached, sent, issued, valid,
          expiries, faults, sends, dances>>

\* "response": the caller gets a response below 500; "serverError": a 5xx.
Returned == {"response", "serverError", "transportError", "authError"}
Ended == Returned \cup {"idle", "panicked"}

TypeOK ==
  /\ pc \in {"send", "dance"} \cup Ended
  /\ calls \in 0..MaxCalls
  /\ attempt \in 0..MaxRetries
  /\ lastErr \in BOOLEAN
  /\ danced \in BOOLEAN
  /\ issued \in 0..dances
  /\ cached \in 0..issued
  /\ sent \in 0..issued
  /\ valid \in {NoToken, issued}
  /\ expiries \in 0..MaxExpiries
  /\ faults \in 0..sends
  /\ sends \in 0..Many
  /\ dances \in Nat

Init ==
  /\ pc = "idle"
  /\ calls = 0
  /\ attempt = 0
  /\ lastErr = FALSE
  /\ danced = FALSE
  /\ cached = NoToken
  /\ sent = NoToken
  /\ issued = 0
  /\ valid = NoToken
  /\ expiries = 0
  /\ faults = 0
  /\ sends = 0
  /\ dances = 0

session == <<calls, cached, issued, valid, expiries, dances>>

\* The pull goes on to its next request.  After a 5xx or an error it has ended,
\* as it has after a 4xx that the caller does not expect.
Call ==
  /\ pc \in {"idle", "response"}
  /\ calls < MaxCalls
  /\ calls' = calls + 1
  /\ attempt' = 0
  /\ lastErr' = FALSE
  /\ danced' = FALSE
  /\ faults' = 0
  /\ sends' = 0
  /\ pc' = "send"
  /\ UNCHANGED <<cached, sent, issued, valid, expiries, dances>>

\* A request goes out under the cached token, or else under the credentials of
\* the provider chain.
Send == /\ pc = "send"
        /\ sends' = Count(sends)
        /\ sent' = cached

\* Mutant: the last retry is given away.
NextAttemptShort(otherwise) ==
  IF attempt + 1 < MaxRetries
  THEN attempt' = attempt + 1 /\ pc' = "send"
  ELSE UNCHANGED attempt /\ pc' = otherwise

\* The loop: one more attempt, or what becomes of the call without one.
NextAttempt(otherwise) ==
  IF attempt < MaxRetries
  THEN attempt' = attempt + 1 /\ pc' = "send"
  ELSE UNCHANGED attempt /\ pc' = otherwise

\* A response below 500 that is not a challenge: success, 404, refusal.
Respond ==
  /\ Send
  /\ pc' = "response"
  /\ UNCHANGED <<session, attempt, lastErr, danced, faults>>

\* Mutant: a 5xx starts the retry budget anew.
ServerErrorResets ==
  /\ Send
  /\ faults' = Count(faults)
  /\ attempt' = 0
  /\ UNCHANGED <<pc, session, lastErr, danced>>

\* 5xx: sleep_backoff and once more; the last one is handed to the caller.
ServerError ==
  /\ Send
  /\ faults' = Count(faults)
  /\ NextAttempt("serverError")
  /\ UNCHANGED <<session, lastErr, danced>>

\* No response: connection failure, or REQUEST_TIMEOUT.
TransportError ==
  /\ Send
  /\ faults' = Count(faults)
  /\ lastErr' = TRUE
  /\ NextAttempt("transportError")
  /\ UNCHANGED <<session, danced>>

\* 401 with a bearer challenge, to a request without a valid token.  The second
\* one of a call is the caller's.
Challenge ==
  /\ Send
  /\ sent' = NoToken \/ sent' # valid
  /\ pc' = IF danced THEN "response" ELSE "dance"
  /\ UNCHANGED <<session, attempt, lastErr, danced, faults>>

\* Mutant: the token is used once and forgotten.
TokenGrantedUncached ==
  /\ pc = "dance"
  /\ issued' = issued + 1
  /\ valid' = issued'
  /\ dances' = dances + 1
  /\ danced' = TRUE
  /\ NextAttempt(IF lastErr THEN "transportError" ELSE "panicked")
  /\ UNCHANGED <<calls, lastErr, cached, sent, expiries, faults, sends>>

\* Mutant: the request that follows the dance is not counted.
TokenGrantedFree ==
  /\ pc = "dance"
  /\ issued' = issued + 1
  /\ valid' = issued'
  /\ cached' = issued'
  /\ dances' = dances + 1
  /\ danced' = TRUE
  /\ pc' = "send"
  /\ UNCHANGED <<calls, attempt, lastErr, sent, expiries, faults, sends>>

\* Mutant: an earlier token, or none, is cached again.
TokenGrantedStale ==
  /\ pc = "dance"
  /\ issued' = issued + 1
  /\ valid' = issued'
  /\ cached' = issued
  /\ dances' = dances + 1
  /\ danced' = TRUE
  /\ NextAttempt(IF lastErr THEN "transportError" ELSE "panicked")
  /\ UNCHANGED <<calls, lastErr, sent, expiries, faults, sends>>

\* fetch_bearer_token succeeds: cache_bearer, and the loop goes on.  When that
\* was the last attempt the loop ends and last_err.expect(..) is evaluated.
TokenGranted ==
  /\ pc = "dance"
  /\ issued' = issued + 1
  /\ valid' = issued'
  /\ cached' = issued'
  /\ dances' = dances + 1
  /\ danced' = TRUE
  /\ NextAttempt(IF lastErr THEN "transportError" ELSE "panicked")
  /\ UNCHANGED <<calls, lastErr, sent, expiries, faults, sends>>

\* The realm refuses, cannot be reached, or answers something else.
TokenRefused ==
  /\ pc = "dance"
  /\ pc' = "authError"
  /\ UNCHANGED <<session, attempt, lastErr, danced, sent, faults, sends>>

\* The Authorization header cannot be built: the provider chain fails now that
\* it is walked again, or the credentials, or the token that the realm gave,
\* have a byte that no header may have.
HeaderRefused ==
  /\ pc = "send"
  /\ pc' = "authError"
  /\ UNCHANGED <<session, attempt, lastErr, danced, sent, faults, sends>>

\* The registry stops accepting the token.
Expire ==
  /\ valid # NoToken
  /\ expiries < MaxExpiries
  /\ expiries' = expiries + 1
  /\ valid' = NoToken
  /\ UNCHANGED <<pc, calls, attempt, lastErr, danced, cached, sent, issued, faults,
                 sends, dances>>

Work == \/ Respond \/ ServerError \/ TransportError \/ Challenge
        \/ TokenGranted \/ TokenRefused \/ HeaderRefused

Next == Call \/ Work \/ Expire

Spec == Init /\ [][Next]_vars

\* Every request and every exchange with the realm has a timeout.
FairSpec == Spec /\ WF_vars(Work)

-----------------------------------------------------------------------------
(* Correctness.                                                            *)

\* "Bounded": whatever the registry answers and whatever expires, a call sends
\* at most MAX_RETRIES + 1 requests.
SendsBounded == sends <= MaxRetries + 1

\* Retries do their work: a call gives up for a transient failure, and hands out
\* a 5xx, only if every attempt that the dance left it has failed.
TransientFailuresAbsorbed ==
  pc \in {"serverError", "transportError", "panicked"} =>
    faults + (IF danced THEN 1 ELSE 0) > MaxRetries

\* The bearer cache "is what spares every subsequent blob fetch from re-running
\* the dance": the session fetches one token, and one more for each that expires.
TokenSpared == dances <= 1 + expiries

\* "Reuse the provider-chain credentials as the realm-side basic auth": the realm
\* is asked with the credentials of the chain, never with a token it has issued,
\* as long as none has expired.  (After that it is asked with the expired token.)
RealmGetsCredentials == pc = "dance" /\ expiries = 0 => sent = NoToken

\* A call ends, whatever the registry answers and whichever tokens expire.
CallEnds == pc \in {"send", "dance"} ~> pc \in Ended

\* The message of expect(): "loop body sets last_err on every transport
\* failure", so that the loop is never left without an error to return.
NeverPanics == pc # "panicked"
=============================================================================
