---------------------------- MODULE OutboundCalls ----------------------------
(***************************************************************************)
(* Calls of other services.  Before a call is sent to an internal URL, an  *)
(* interceptor adds a token for its audience, the host.  Tokens are        *)
(* cached, and at most one is being fetched for an audience: who else      *)
(* needs it waits for the same fetch.                                      *)
(*                                                                         *)
(* The token itself is fetched with a call to an internal URL of the       *)
(* broker's, through the same HTTP client, and so the interceptor wants a  *)
(* token for that call too, whose audience is the broker.                  *)
(***************************************************************************)
EXTENDS Integers, FiniteSets

CONSTANTS
  Null,
  Calls,           \* calls in progress at the same time
  Services,        \* audiences of the calls
  Broker,          \* the audience of the calls for tokens
  MaxOFaults       \* failures, timeouts and tokens that expire (bound)

VARIABLES
  call,            \* per call: next step and audience
  token,           \* audiences a token is cached for
  fetch,           \* per audience: the step of the fetch that is in flight, or Null
  ofaults          \* budget spent

ovars == <<call, token, fetch, ofaults>>

Audiences == Services \cup {Broker}

OInit ==
  /\ call = [c \in Calls |-> [step |-> "idle", to |-> Null]]
  /\ token = {}
  /\ fetch = [a \in Audiences |-> Null]
  /\ ofaults = 0

OFault == ofaults < MaxOFaults /\ ofaults' = ofaults + 1

\* getToken: a token is cached, or is being fetched, or a fetch of it begins.
TokenAt(a) == a \in token

BeginFetch(a) == /\ a \notin token /\ fetch[a] = Null
                 /\ fetch' = [fetch EXCEPT ![a] = "authorize"]

Call(c) ==
  /\ call[c].step = "idle"
  /\ \E a \in Services : call' = [call EXCEPT ![c] = [step |-> "authorize", to |-> a]]
  /\ UNCHANGED <<token, fetch, ofaults>>

\* The interceptor of a call.
NeedToken(c) ==
  /\ call[c].step = "authorize"
  /\ BeginFetch(call[c].to)
  /\ UNCHANGED <<call, token, ofaults>>

Authorize(c) ==
  /\ call[c].step = "authorize" /\ TokenAt(call[c].to)
  /\ call' = [call EXCEPT ![c].step = "send"]
  /\ UNCHANGED <<token, fetch, ofaults>>

Send(c) ==
  /\ call[c].step = "send"
  /\ call' = [call EXCEPT ![c].step = "sent"]
  /\ UNCHANGED <<token, fetch, ofaults>>

\* The interceptor of a fetch: the token for the broker, which may be the one that
\* this very fetch is to bring.
FetchNeedsToken(a) ==
  /\ fetch[a] = "authorize"
  /\ BeginFetch(Broker)
  /\ UNCHANGED <<call, token, ofaults>>

FetchAuthorized(a) ==
  /\ fetch[a] = "authorize" /\ TokenAt(Broker)
  /\ fetch' = [fetch EXCEPT ![a] = "post"]
  /\ UNCHANGED <<call, token, ofaults>>

BrokerAnswers(a) ==
  /\ fetch[a] = "post"
  /\ token' = token \cup {a}
  /\ fetch' = [fetch EXCEPT ![a] = Null]
  /\ UNCHANGED <<call, ofaults>>

\* The post fails, or takes too long: so do all calls that wait for its token.
BrokerFails(a) ==
  /\ fetch[a] = "post" /\ OFault
  /\ fetch' = [fetch EXCEPT ![a] = Null]
  /\ call' = [c \in Calls |-> IF call[c].step = "authorize" /\ call[c].to = a
                              THEN [step |-> "failed", to |-> a] ELSE call[c]]
  /\ UNCHANGED token

\* The circuit breaker gives a call up; the fetch it waited for goes on.
BreakerTimesOut(c) ==
  /\ call[c].step \in {"authorize", "send"} /\ OFault
  /\ call' = [call EXCEPT ![c].step = "failed"]
  /\ UNCHANGED <<token, fetch>>

TokenExpires ==
  /\ OFault
  /\ \E a \in token : token' = token \ {a}
  /\ UNCHANGED <<call, fetch>>

CallStep(c) == NeedToken(c) \/ Authorize(c) \/ Send(c)

FetchStep(a) == FetchNeedsToken(a) \/ FetchAuthorized(a) \/ BrokerAnswers(a)

ONext ==
  \/ \E c \in Calls : Call(c) \/ NeedToken(c) \/ Authorize(c) \/ Send(c) \/ BreakerTimesOut(c)
  \/ \E a \in Audiences :
       FetchNeedsToken(a) \/ FetchAuthorized(a) \/ BrokerAnswers(a) \/ BrokerFails(a)
  \/ TokenExpires

\* The event loop runs every continuation, and the broker answers.
OSpec ==
  /\ OInit /\ [][ONext]_ovars
  /\ \A c \in Calls : WF_ovars(CallStep(c))
  /\ \A a \in Audiences : WF_ovars(FetchStep(a))

\* What the HTTP client promises ("Add OAuth2 JWT for ALL internal service calls"):
\* a call gets its token and is sent.
InternalCallIsSent ==
  \A c \in Calls : call[c].step = "authorize" ~> call[c].step = "sent"
=============================================================================
