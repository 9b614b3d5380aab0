-------------------------- MODULE WireClientProofs --------------------------
(***************************************************************************)
(* Theorems about WireClient, for every retry budget, any number of calls  *)
(* in a session and any number of tokens that expire in it.                *)
(***************************************************************************)
EXTENDS WireClient, TLAPS

Dance == IF danced THEN 1 ELSE 0
Accepted == IF valid = NoToken THEN 0 ELSE 1

\* Every turn of the loop behind the current one was a failure or the dance, and
\* sent one request.
Turns ==
  /\ pc = "send"  => faults + Dance = attempt /\ sends = attempt
  /\ pc = "dance" => ~danced /\ faults = attempt /\ sends = attempt + 1

\* What an ended call has used up.
UsedUp ==
  /\ pc \in Ended => sends <= MaxRetries + 1
  /\ pc \in {"serverError", "transportError", "panicked"} => faults + Dance > MaxRetries

\* The cached token is the newest, every token but an accepted one has expired,
\* and the dance is only begun when none is accepted.
Tokens ==
  /\ issued = dances
  /\ cached = issued
  /\ dances = expiries + Accepted
  /\ pc = "dance" => valid = NoToken /\ sent = cached

IInv == TypeOK /\ Turns /\ UsedUp /\ Tokens

-----------------------------------------------------------------------------
\* The initial state.
LEMMA InitIInv == Init => IInv
<1> SUFFICES ASSUME Init PROVE IInv
  OBVIOUS
<1>1. TypeOK
  <2>1. lastErr \in BOOLEAN /\ danced \in BOOLEAN
    BY Zenon DEF Init
  <2>2. pc \in {"send", "dance"} \cup Ended
    BY DEF Init, Ended
  <2>3. /\ calls = 0 /\ attempt = 0 /\ cached = 0 /\ sent = 0 /\ issued = 0
        /\ valid = 0 /\ expiries = 0 /\ faults = 0 /\ sends = 0 /\ dances = 0
    BY DEF Init, NoToken
  <2>4. QED
    BY <2>1, <2>2, <2>3, BoundsAssumption DEF TypeOK, NoToken, Many
<1>2. Turns /\ Tokens
  BY DEF Init, Turns, Tokens, Accepted, NoToken
<1>3. UsedUp
  BY BoundsAssumption DEF Init, UsedUp
<1>4. QED
  BY <1>1, <1>2, <1>3 DEF IInv

\* A new call starts the counting anew and keeps the token.
LEMMA CallKeeps == IInv /\ Call => IInv'
<1> SUFFICES ASSUME IInv, Call PROVE IInv'
  OBVIOUS
<1>1. TypeOK'
  <2>1. lastErr' \in BOOLEAN /\ danced' \in BOOLEAN
    BY Zenon DEF Call
  <2>2. /\ pc' = "send" /\ attempt' = 0 /\ faults' = 0 /\ sends' = 0
        /\ calls' = calls + 1 /\ calls < MaxCalls
        /\ UNCHANGED <<cached, sent, issued, valid, expiries, dances>>
    BY DEF Call
  <2>3. QED
    BY <2>1, <2>2, BoundsAssumption DEF IInv, TypeOK, Many
<1>2. Turns'
  <2>1. Dance' = 0
    BY DEF Call, Dance
  <2>2. QED
    BY <2>1 DEF Call, Turns
<1>3. UsedUp'
  BY BoundsAssumption DEF Call, UsedUp, Ended, Returned
<1>4. Tokens'
  BY DEF Call, IInv, Tokens, Accepted
<1>5. QED
  BY <1>1, <1>2, <1>3, <1>4 DEF IInv

\* Below the bound of the counters, which no call reaches, Count adds one.
LEMMA CountAdds == ASSUME NEW n \in Nat, n <= MaxRetries + 1 PROVE Count(n) = n + 1
  BY BoundsAssumption DEF Count, Many

\* An answer, or a failure, to a request that is sent.
LEMMA SendKeeps ==
  ASSUME IInv, Respond \/ ServerError \/ TransportError \/ Challenge
  PROVE  IInv'
<1>1. /\ pc = "send" /\ sent' = cached /\ sends' = sends + 1
      /\ sends = attempt /\ faults + Dance = attempt
      /\ UNCHANGED <<calls, cached, issued, valid, expiries, dances, danced>>
  BY CountAdds, BoundsAssumption
  DEF IInv, TypeOK, Turns, Respond, ServerError, TransportError, Challenge, Send, session
<1>2. faults <= MaxRetries /\ Count(faults) = faults + 1
  BY <1>1, CountAdds, BoundsAssumption DEF IInv, TypeOK, Dance
<1>3. CASE Respond
  BY <1>1, <1>3, BoundsAssumption
  DEF Respond, IInv, TypeOK, Turns, UsedUp, Tokens, Dance, Accepted, Ended, Returned,
      NoToken, Many, session
<1>4. CASE ServerError
  BY <1>1, <1>2, <1>4, BoundsAssumption
  DEF ServerError, NextAttempt, IInv, TypeOK, Turns, UsedUp, Tokens, Dance, Accepted,
      Ended, Returned, NoToken, Many, session
<1>5. CASE TransportError
  BY <1>1, <1>2, <1>5, BoundsAssumption
  DEF TransportError, NextAttempt, IInv, TypeOK, Turns, UsedUp, Tokens, Dance, Accepted,
      Ended, Returned, NoToken, Many, session
<1>6. CASE Challenge
  <2>1. valid = NoToken
    BY <1>1, <1>6 DEF Challenge, IInv, TypeOK, Tokens
  <2>2. QED
    BY <1>1, <1>6, <2>1, BoundsAssumption
    DEF Challenge, IInv, TypeOK, Turns, UsedUp, Tokens, Dance, Accepted, Ended, Returned,
        NoToken, Many, session
<1>7. QED
  BY <1>3, <1>4, <1>5, <1>6

\* A token of the realm, or none.
LEMMA DanceKeeps ==
  ASSUME IInv, TokenGranted \/ TokenRefused \/ HeaderRefused
  PROVE  IInv'
<1>1. CASE TokenGranted
  BY <1>1, BoundsAssumption
  DEF TokenGranted, NextAttempt, IInv, TypeOK, Turns, UsedUp, Tokens, Dance, Accepted,
      Ended, Returned, NoToken, Many
<1>2. CASE TokenRefused \/ HeaderRefused
  BY <1>2, BoundsAssumption
  DEF TokenRefused, HeaderRefused, IInv, TypeOK, Turns, UsedUp, Tokens, Dance, Accepted,
      Ended, Returned, NoToken, Many, session
<1>3. QED
  BY <1>1, <1>2

\* A token expires at any time.
LEMMA ExpireKeeps == IInv /\ Expire => IInv'
  BY BoundsAssumption DEF Expire, IInv, TypeOK, Turns, UsedUp, Tokens, Dance, Accepted,
                          Ended, Returned, NoToken, Many

LEMMA NextIInv == IInv /\ [Next]_vars => IInv'
<1>1. CASE UNCHANGED vars
  BY <1>1 DEF vars, IInv, TypeOK, Turns, UsedUp, Tokens, Dance, Accepted
<1>2. QED
  BY <1>1, CallKeeps, SendKeeps, DanceKeeps, ExpireKeeps DEF Next, Work

LEMMA Invariance == Spec => []IInv
<1>1. QED
  BY InitIInv, NextIInv, PTL DEF Spec

-----------------------------------------------------------------------------
\* Every variable keeps to its range; the loop variable of send_with_retry does.
THEOREM TypeCorrect == Spec => []TypeOK
<1>1. IInv => TypeOK
  BY DEF IInv
<1>2. QED
  BY <1>1, Invariance, PTL

\* send_with_retry: a call sends at most MAX_RETRIES + 1 requests, whatever the
\* registry answers.
THEOREM SendsAlwaysBounded == Spec => []SendsBounded
<1>1. IInv => SendsBounded
  BY BoundsAssumption DEF IInv, TypeOK, Turns, UsedUp, SendsBounded, Ended
<1>2. QED
  BY <1>1, Invariance, PTL

\* A call gives up only when failures and the dance have used up its attempts.
THEOREM FailuresAlwaysAbsorbed == Spec => []TransientFailuresAbsorbed
<1>1. IInv => TransientFailuresAbsorbed
  BY DEF IInv, UsedUp, TransientFailuresAbsorbed, Dance
<1>2. QED
  BY <1>1, Invariance, PTL

\* cache_bearer: a session fetches one token, and one for each that expires.
THEOREM TokenAlwaysSpared == Spec => []TokenSpared
<1>1. IInv => TokenSpared
  BY DEF IInv, TypeOK, Tokens, Accepted, TokenSpared
<1>2. QED
  BY <1>1, Invariance, PTL

\* fetch_bearer_token: until a token expires the realm sees only the credentials
\* of the provider chain.
THEOREM RealmAlwaysGetsCredentials == Spec => []RealmGetsCredentials
<1>1. IInv => RealmGetsCredentials
  BY DEF IInv, TypeOK, Tokens, Accepted, RealmGetsCredentials, NoToken
<1>2. QED
  BY <1>1, Invariance, PTL
=============================================================================
