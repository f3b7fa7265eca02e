------------------------------- MODULE Gateway -------------------------------
(***************************************************************************)
(* What a call passes on its way to a handler: the interceptors that       *)
(* SetupGRPCServer chains (internal/server/grpc.go, pkg/interceptor), for  *)
(* unary and for streaming methods, and the type assertions with which the *)
(* generated stub and the handlers take what the chain has left in the     *)
(* context.  A failed assertion is a panic, which nothing recovers.        *)
(*                                                                         *)
(* The service has no streaming method so far; its chain is in place and   *)
(* tested, and Streams may be empty.                                       *)
(***************************************************************************)
CONSTANTS
  Calls,       \* gRPC calls
  Streams,     \* those of streaming methods
  Conns,       \* mTLS connections
  ConnOf,      \* the connection of a call
  CommonName,  \* the common name in the certificate of a connection
  NoName,      \* an empty common name
  Networks,    \* what TrustedCIDRs may list
  None         \* nothing in the context

ASSUME GatewayAssumption ==
  /\ Streams \subseteq Calls
  /\ ConnOf \in [Calls -> Conns]
  /\ None \notin {CommonName[n] : n \in Conns} \union {"given", "generated"}

VARIABLES
  trusted,  \* the networks that TrustAddress*Interceptor closed over
  stage,    \* where a call is
  header,   \* its metadata
  ctx       \* its context, and what the stub will take for the service

gatewayVars == <<trusted, stage, header, ctx>>

\* x-request-id, and the networks that contain x-real-ip: none of them if the
\* address is missing or cannot be parsed.
Headers == [rid : {"blank", "given"}, ip : SUBSET Networks]

Names == {CommonName[n] : n \in Conns}
Contexts ==
  [rid : {None, "given", "generated"}, user : Names \union {None}, service : BOOLEAN]
Background == [rid |-> None, user |-> None, service |-> TRUE]

Interceptors == {"logging", "trust", "auth"}
Stages ==
  Interceptors \union {"none", "dispatch", "handling", "answered", "rejected", "panicked"}

GatewayInit ==
  /\ trusted = {}
  /\ stage = [c \in Calls |-> "none"]
  /\ header = [c \in Calls |-> [rid |-> "blank", ip |-> {}]]
  /\ ctx = [c \in Calls |-> Background]

\* Mutant of Chain: the address is checked before the call is logged.
TrustFirst ==
  [none |-> "trust", trust |-> "logging", logging |-> "auth", auth |-> "dispatch"]

\* ChainUnaryInterceptor and ChainStreamInterceptor have the same order.
Chain ==
  [none |-> "logging", logging |-> "trust", trust |-> "auth", auth |-> "dispatch"]

Unary == Calls \ Streams
User(c) == CommonName[ConnOf[c]]

\* A call goes from one stage to another, with a context derived from its own.
Pass(c, from, to, context) ==
  /\ stage[c] = from
  /\ stage' = [stage EXCEPT ![c] = to]
  /\ ctx' = [ctx EXCEPT ![c] = context]
  /\ UNCHANGED <<trusted, header>>

\* TLS has verified the client's certificate before the first call.
Arrive(c, h) ==
  /\ stage[c] = "none"
  /\ stage' = [stage EXCEPT ![c] = Chain["none"]]
  /\ header' = [header EXCEPT ![c] = h]
  /\ UNCHANGED <<trusted, ctx>>

-----------------------------------------------------------------------------
(* Logging, trusted address, authentication *)

\* Mutant of RequestID: a request id of blanks is one.
RequestIDUnchecked(c) == header[c].rid

\* A request id of blanks counts as none, and none is replaced by a new one.
RequestID(c) == IF header[c].rid = "blank" THEN "generated" ELSE header[c].rid

LoggingUnaryInterceptor(c) ==
  /\ c \in Unary
  /\ Pass(c, "logging", Chain["logging"], [ctx[c] EXCEPT !.rid = RequestID(c)])

LoggingStreamInterceptor(c) ==
  /\ c \in Streams
  /\ Pass(c, "logging", Chain["logging"], [ctx[c] EXCEPT !.rid = RequestID(c)])

\* checkTrustIP, unless no networks are configured.
Trusted(c) == trusted = {} \/ header[c].ip \intersect trusted # {}

TrustAddressUnaryInterceptor(c) ==
  /\ c \in Unary
  /\ Pass(c, "trust", IF Trusted(c) THEN Chain["trust"] ELSE "rejected", ctx[c])

\* With networks configured, the context is passed on in place of the service.
TrustAddressStreamInterceptor(c) ==
  /\ c \in Streams
  /\ Pass(c, "trust", IF Trusted(c) THEN Chain["trust"] ELSE "rejected",
          [ctx[c] EXCEPT !.service = (trusted = {})])

Admit(c) ==
  IF User(c) = NoName
    THEN Pass(c, "auth", "rejected", ctx[c])
    ELSE Pass(c, "auth", Chain["auth"], [ctx[c] EXCEPT !.user = User(c)])

\* Mutant of AuthUnaryInterceptor: the user is kept in a variable that the
\* calls being authenticated share.
AuthSharedUser(c) ==
  /\ c \in Unary
  /\ stage[c] = "auth"
  /\ User(c) # NoName
  /\ stage' = [stage EXCEPT ![c] = Chain["auth"]]
  /\ ctx' = [d \in Calls |-> IF stage[d] \in {"auth", "dispatch"}
                               THEN [ctx[d] EXCEPT !.user = User(c)] ELSE ctx[d]]
  /\ UNCHANGED <<trusted, header>>

\* Mutant of AuthUnaryInterceptor: the handler gets the old context.
AuthOldContext(c) ==
  /\ c \in Unary
  /\ Pass(c, "auth", IF User(c) = NoName THEN "rejected" ELSE Chain["auth"], ctx[c])

\* The first certificate of the connection names the user and bucket.
AuthUnaryInterceptor(c) == c \in Unary /\ Admit(c)

AuthStreamInterceptor(c) == c \in Streams /\ Admit(c)

-----------------------------------------------------------------------------
(* The handler *)

\* The stub asserts the type of the service, each handler that of its user.
Usable(context) == context.service /\ context.user # None

Dispatch(c) ==
  Pass(c, "dispatch", IF Usable(ctx[c]) THEN "handling" ELSE "panicked", ctx[c])

Answer(c) == Pass(c, "handling", "answered", ctx[c])

Intercept(c) ==
  \/ LoggingUnaryInterceptor(c)
  \/ LoggingStreamInterceptor(c)
  \/ TrustAddressUnaryInterceptor(c)
  \/ TrustAddressStreamInterceptor(c)
  \/ AuthUnaryInterceptor(c)
  \/ AuthStreamInterceptor(c)

GatewayStep(c) == Intercept(c) \/ Dispatch(c) \/ Answer(c)

InFlight(c) == stage[c] \in Interceptors \union {"dispatch", "handling"}
Panicked == \E c \in Calls : stage[c] = "panicked"

-----------------------------------------------------------------------------
(* Properties *)

\* Every variable keeps its type.
GatewayTypeOK ==
  /\ trusted \subseteq Networks
  /\ stage \in [Calls -> Stages]
  /\ header \in [Calls -> Headers]
  /\ ctx \in [Calls -> Contexts]

\* A handler works in the bucket of the user whose connection its call came
\* over, and only for addresses in a configured network, however many calls
\* of other users pass the chain at the same time.
HandlersServeTheirUser ==
  \A c \in Calls :
    stage[c] \in {"handling", "answered"} =>
      ctx[c].user = User(c) /\ User(c) # NoName /\ Trusted(c)

\* The type assertions of a unary handler on its context (the service and the
\* user) hold: the chain has put both there, for whichever call it is.  Of what
\* else a handler may panic is not the chain's.
ContextSuffices == \A c \in Unary : stage[c] # "panicked"

\* Whoever rejects a call can log the id it goes by: the id is there before
\* the first interceptor that may reject.
RejectionsAreTraceable ==
  \A c \in Calls : stage[c] \in {"handling", "rejected"} => ctx[c].rid # None
=============================================================================
