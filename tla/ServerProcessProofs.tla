------------------------- MODULE ServerProcessProofs -------------------------
(***************************************************************************)
(* Proofs about ServerProcess and Gateway, for every set of calls, users   *)
(* and networks.                                                           *)
(***************************************************************************)
EXTENDS ServerProcess, TLAPS

-----------------------------------------------------------------------------
(* The inductive invariant *)

\* What the chain has done for a call that is past an interceptor.
PassedLogging ==
  \A c \in Calls :
    stage[c] \in {"trust", "auth", "dispatch", "handling", "answered", "rejected"} =>
      ctx[c].rid # None

PassedTrust ==
  \A c \in Calls :
    stage[c] \in {"auth", "dispatch", "handling", "answered"} => Trusted(c)

PassedAuth ==
  \A c \in Calls :
    stage[c] \in {"dispatch", "handling", "answered"} =>
      ctx[c].user = User(c) /\ User(c) # NoName

\* A unary call keeps the service.
ServiceKept == \A c \in Unary : ctx[c].service

\* Calls come after Serve, Serve after Listen, and Listen after main is through.
StartsInOrder ==
  /\ \A c \in Calls : stage[c] # "none" => serve # "none"
  /\ serve # "none" => serverRun \notin {"none", "listen"}
  /\ serverRun # "none" => main \in {"wait", "complete"}

\* What main has checked before it starts Run.
ConfigChecked ==
  /\ main \in {"setup", "wait", "complete"} => cfg.ttl > 0 /\ cfg.chunkSize > 0
  /\ main \in {"wait", "complete"} => trusted = cfg.cidrs

GatewayInv ==
  /\ GatewayTypeOK
  /\ PassedLogging /\ PassedTrust /\ PassedAuth
  /\ ServiceKept /\ ContextSuffices

ProcessInv ==
  /\ ProcessTypeOK
  /\ StartsInOrder
  /\ ConfigChecked

-----------------------------------------------------------------------------
(* Lemmas *)

LEMMA ChainValues ==
  /\ Chain["none"] = "logging" /\ Chain["logging"] = "trust"
  /\ Chain["trust"] = "auth" /\ Chain["auth"] = "dispatch"
BY DEF Chain

LEMMA InitInvariant == ProcessInit => GatewayInv /\ ProcessInv
<1> SUFFICES ASSUME ProcessInit PROVE GatewayInv /\ ProcessInv
  OBVIOUS
<1> USE DEF ProcessInit, GatewayInit
<1>1. GatewayTypeOK
  BY DEF GatewayTypeOK, Stages, Interceptors, Headers, Contexts, Background
<1>2. PassedLogging /\ PassedTrust /\ PassedAuth
  BY DEF PassedLogging, PassedTrust, PassedAuth
<1>3. ServiceKept /\ ContextSuffices
  BY DEF ServiceKept, ContextSuffices, Unary, Background
<1>4. ProcessTypeOK
  BY DEF ProcessTypeOK, MainStates, RunStates, ServeStates, Configs, Numbers, Texts
<1>5. StartsInOrder /\ ConfigChecked
  BY DEF StartsInOrder, ConfigChecked
<1> QED BY <1>1, <1>2, <1>3, <1>4, <1>5 DEF GatewayInv, ProcessInv

\* A call that has arrived is before the logging interceptor.
LEMMA ArriveKeepsGateway ==
  ASSUME GatewayInv, NEW c \in Calls, NEW h \in Headers, Arrive(c, h)
  PROVE  GatewayInv'
<1> USE ChainValues DEF GatewayInv, GatewayTypeOK, Arrive
<1>1. GatewayTypeOK'
  BY DEF Stages, Interceptors
<1>2. PassedLogging' /\ PassedAuth'
  BY DEF PassedLogging, PassedAuth, User
<1>3. PassedTrust'
  BY DEF PassedTrust, Trusted
<1>4. ServiceKept' /\ ContextSuffices'
  BY DEF ServiceKept, ContextSuffices, Unary
<1> QED BY <1>1, <1>2, <1>3, <1>4

\* A call may go where its context is good for.
LEMMA PassKeepsGateway ==
  ASSUME GatewayInv, NEW c \in Calls, NEW from, NEW to \in Stages, NEW context \in Contexts,
         Pass(c, from, to, context),
         to \in {"trust", "auth", "dispatch", "handling", "answered", "rejected"} =>
           context.rid # None,
         to \in {"auth", "dispatch", "handling", "answered"} => Trusted(c),
         to \in {"dispatch", "handling", "answered"} =>
           context.user = User(c) /\ User(c) # NoName,
         c \in Unary => context.service /\ to # "panicked"
  PROVE  GatewayInv'
<1> USE DEF GatewayInv, GatewayTypeOK, Pass
<1>1. /\ stage'[c] = to /\ ctx'[c] = context
      /\ \A d \in Calls : d # c => stage'[d] = stage[d] /\ ctx'[d] = ctx[d]
  OBVIOUS
<1>2. GatewayTypeOK'
  OBVIOUS
<1>3. PassedLogging'
  BY <1>1 DEF PassedLogging
<1>4. PassedTrust'
  BY <1>1 DEF PassedTrust, Trusted
<1>5. PassedAuth'
  BY <1>1 DEF PassedAuth, User
<1>6. ServiceKept' /\ ContextSuffices'
  BY <1>1 DEF ServiceKept, ContextSuffices, Unary
<1> QED BY <1>2, <1>3, <1>4, <1>5, <1>6

\* Each interceptor leaves in the context what it is there for, and keeps what
\* was left before.
LEMMA StepKeepsGateway ==
  ASSUME GatewayInv, NEW c \in Calls, GatewayStep(c)
  PROVE  GatewayInv'
<1> USE ChainValues DEF GatewayInv, PassedLogging, PassedTrust, PassedAuth, ServiceKept,
    Stages, Interceptors
<1>1. ctx[c] \in Contexts /\ header[c] \in Headers
  BY DEF GatewayTypeOK
<1>2. CASE LoggingUnaryInterceptor(c) \/ LoggingStreamInterceptor(c)
  <2> DEFINE context == [ctx[c] EXCEPT !.rid = RequestID(c)]
  <2>1. Pass(c, "logging", "trust", context)
    BY <1>2 DEF LoggingUnaryInterceptor, LoggingStreamInterceptor
  <2>2. RequestID(c) \in {"given", "generated"}
    BY <1>1 DEF RequestID, Headers
  <2>3. /\ context \in Contexts /\ context.rid # None
        /\ context.service = ctx[c].service
    BY <1>1, <2>2, GatewayAssumption DEF Contexts
  <2> QED BY <2>1, <2>3, PassKeepsGateway
<1>3. CASE TrustAddressUnaryInterceptor(c)
  <2>1. PICK to \in {"auth", "rejected"} :
          Pass(c, "trust", to, ctx[c]) /\ (to = "auth" => Trusted(c))
    BY <1>3 DEF TrustAddressUnaryInterceptor
  <2>2. ctx[c].rid # None
    BY <2>1 DEF Pass
  <2> QED BY <1>1, <2>1, <2>2, PassKeepsGateway
<1>4. CASE TrustAddressStreamInterceptor(c)
  <2> DEFINE context == [ctx[c] EXCEPT !.service = (trusted = {})]
  <2>1. PICK to \in {"auth", "rejected"} :
          Pass(c, "trust", to, context) /\ (to = "auth" => Trusted(c))
    BY <1>4 DEF TrustAddressStreamInterceptor
  <2>2. context \in Contexts /\ context.rid = ctx[c].rid
    BY <1>1 DEF Contexts
  <2>3. ctx[c].rid # None /\ c \notin Unary
    BY <1>4, <2>1 DEF Pass, TrustAddressStreamInterceptor, Unary
  <2> QED BY <2>1, <2>2, <2>3, PassKeepsGateway
<1>5. CASE AuthUnaryInterceptor(c) \/ AuthStreamInterceptor(c)
  <2>1. Admit(c)
    BY <1>5 DEF AuthUnaryInterceptor, AuthStreamInterceptor
  <2>2. stage[c] = "auth" /\ ctx[c].rid # None /\ Trusted(c)
    BY <2>1 DEF Admit, Pass
  <2>3. CASE User(c) = NoName
    BY <1>1, <2>1, <2>2, <2>3, PassKeepsGateway DEF Admit
  <2>4. CASE User(c) # NoName
    <3> DEFINE context == [ctx[c] EXCEPT !.user = User(c)]
    <3>1. Pass(c, "auth", "dispatch", context)
      BY <2>1, <2>4 DEF Admit
    <3>2. User(c) \in Names
      BY GatewayAssumption DEF User, Names
    <3>3. /\ context \in Contexts /\ context.rid = ctx[c].rid
          /\ context.user = User(c) /\ context.service = ctx[c].service
      BY <1>1, <3>2 DEF Contexts
    <3> QED BY <2>2, <2>4, <3>1, <3>3, PassKeepsGateway
  <2> QED BY <2>3, <2>4
<1>6. CASE Dispatch(c)
  <2>1. PICK to \in {"handling", "panicked"} :
          Pass(c, "dispatch", to, ctx[c]) /\ (to = "panicked" => ~Usable(ctx[c]))
    BY <1>6 DEF Dispatch
  <2>2. /\ ctx[c].rid # None /\ Trusted(c)
        /\ ctx[c].user = User(c) /\ User(c) # NoName
    BY <2>1 DEF Pass
  <2>3. User(c) # None
    BY GatewayAssumption DEF User
  <2>4. c \in Unary => to # "panicked"
    BY <2>1, <2>2, <2>3 DEF Usable
  <2> QED BY <1>1, <2>1, <2>2, <2>4, PassKeepsGateway
<1>7. CASE Answer(c)
  <2>1. Pass(c, "handling", "answered", ctx[c]) /\ stage[c] = "handling"
    BY <1>7 DEF Answer, Pass
  <2> QED BY <1>1, <2>1, PassKeepsGateway
<1> QED BY <1>2, <1>3, <1>4, <1>5, <1>6, <1>7 DEF GatewayStep, Intercept

\* The networks are set before there is any call.
LEMMA SetupKeepsGateway ==
  ASSUME GatewayInv, \A c \in Calls : stage[c] = "none",
         UNCHANGED <<stage, header, ctx>>, trusted' \subseteq Networks
  PROVE  GatewayInv'
BY DEF GatewayInv, GatewayTypeOK, PassedLogging, PassedTrust, PassedAuth, ServiceKept,
       ContextSuffices, Unary

LEMMA FrameKeepsGateway ==
  ASSUME GatewayInv, UNCHANGED gatewayVars
  PROVE  GatewayInv'
BY DEF gatewayVars, GatewayInv, GatewayTypeOK, PassedLogging, PassedTrust, PassedAuth,
       ServiceKept, ContextSuffices, Unary, Trusted, User

\* main keeps both invariants.
LEMMA MainKeepsInvariant ==
  ASSUME GatewayInv, ProcessInv, Main \/ StartFails
  PROVE  GatewayInv' /\ ProcessInv'
<1> USE ProcessAssumption DEF ProcessInv, ProcessTypeOK, StartsInOrder, ConfigChecked,
    MainStep, MainStates, RunStates, ServeStates, InFlight
<1>1. CASE ParseServerConfig
  <2>1. cfg' \in Configs
    BY <1>1 DEF ParseServerConfig, Setting, FlagEntries, Configs, Texts
  <2>2. UNCHANGED gatewayVars
    BY <1>1 DEF ParseServerConfig, gatewayVars
  <2>3. ProcessInv'
    BY <1>1, <2>1 DEF ParseServerConfig
  <2> QED BY <2>2, <2>3, FrameKeepsGateway
<1>2. CASE NewMinioConnection \/ NewRedisConnection \/ StartFails
  <2>1. UNCHANGED gatewayVars
    BY <1>2 DEF NewMinioConnection, NewRedisConnection, StartFails, gatewayVars
  <2>2. ProcessInv'
    BY <1>2 DEF NewMinioConnection, NewRedisConnection, StartFails
  <2> QED BY <2>1, <2>2, FrameKeepsGateway
<1>3. CASE NewArtifactGRPCServer
  <2>1. UNCHANGED gatewayVars
    BY <1>3 DEF NewArtifactGRPCServer, gatewayVars
  <2>2. ProcessInv'
    BY <1>3 DEF NewArtifactGRPCServer
  <2> QED BY <2>1, <2>2, FrameKeepsGateway
<1>4. CASE SetupGRPCServer
  <2>1. CASE Malformed \in cfg.cidrs
    <3>1. UNCHANGED gatewayVars
      BY <1>4, <2>1 DEF SetupGRPCServer, gatewayVars
    <3>2. ProcessInv'
      BY <1>4, <2>1 DEF SetupGRPCServer
    <3> QED BY <3>1, <3>2, FrameKeepsGateway
  <2>2. CASE Malformed \notin cfg.cidrs
    <3>1. main = "setup" /\ serverRun = "none" /\ \A c \in Calls : stage[c] = "none"
      BY <1>4, <2>2 DEF SetupGRPCServer
    <3>2. trusted' = cfg.cidrs /\ cfg.cidrs \subseteq Networks
      BY <1>4, <2>2 DEF SetupGRPCServer, Configs, Texts
    <3>3. GatewayInv'
      BY <1>4, <2>2, <3>1, <3>2, SetupKeepsGateway DEF SetupGRPCServer
    <3>4. ProcessInv'
      BY <1>4, <2>2, <3>1, <3>2 DEF SetupGRPCServer
    <3> QED BY <3>3, <3>4
  <2> QED BY <2>1, <2>2
<1>5. CASE Shutdown
  <2>1. UNCHANGED gatewayVars
    BY <1>5 DEF Shutdown, gatewayVars
  <2>2. ProcessInv'
    BY <1>5 DEF Shutdown
  <2> QED BY <2>1, <2>2, FrameKeepsGateway
<1> QED BY <1>1, <1>2, <1>3, <1>4, <1>5 DEF Main

\* Run, the goroutine of Serve and the signal keep them.
LEMMA RunKeepsInvariant ==
  ASSUME GatewayInv, ProcessInv,
         Run \/ ListenFails \/ Serve \/ ServeReturns \/ Signal
  PROVE  GatewayInv' /\ ProcessInv'
<1> USE DEF ProcessInv, ProcessTypeOK, StartsInOrder, ConfigChecked,
    MainStates, RunStates, ServeStates, InFlight, gatewayVars
<1>1. UNCHANGED gatewayVars
  BY DEF Run, Listen, RequestStop, GracefulStop, RunReturns, ListenFails, Serve,
         ServeReturns, Signal, RunStep, ServeStep
<1>2. CASE Listen \/ ListenFails
  BY <1>1, <1>2, FrameKeepsGateway DEF Listen, ListenFails, RunStep
<1>3. CASE RequestStop \/ GracefulStop \/ RunReturns
  BY <1>1, <1>3, FrameKeepsGateway DEF RequestStop, GracefulStop, RunReturns, RunStep
<1>4. CASE Serve \/ ServeReturns
  BY <1>1, <1>4, FrameKeepsGateway DEF Serve, ServeReturns, ServeStep
<1>5. CASE Signal
  BY <1>1, <1>5, FrameKeepsGateway DEF Signal
<1> QED BY <1>2, <1>3, <1>4, <1>5 DEF Run

\* The calls keep them: none arrives before Serve, and so before main is through.
LEMMA CallKeepsInvariant ==
  ASSUME GatewayInv, ProcessInv, NEW c \in Calls, Accept(c) \/ Process(c)
  PROVE  GatewayInv' /\ ProcessInv'
<1> USE DEF ProcessInv, ProcessTypeOK, StartsInOrder, ConfigChecked,
    MainStates, RunStates, ServeStates, processVars
<1>1. CASE Accept(c)
  <2>1. PICK h \in Headers : Arrive(c, h)
    BY <1>1 DEF Accept
  <2>2. GatewayInv'
    BY <2>1, ArriveKeepsGateway
  <2>3. ProcessInv'
    BY <1>1, <2>1 DEF Accept, Arrive
  <2> QED BY <2>2, <2>3
<1>2. CASE Process(c)
  <2>1. GatewayStep(c) /\ UNCHANGED processVars
    BY <1>2 DEF Process
  <2>2. GatewayInv'
    BY <2>1, StepKeepsGateway
  <2>3. /\ InFlight(c) /\ UNCHANGED trusted
        /\ \A d \in Calls : d # c => stage'[d] = stage[d]
    BY <2>1 DEF GatewayInv, GatewayTypeOK, GatewayStep, Intercept, Dispatch, Answer,
                LoggingUnaryInterceptor, LoggingStreamInterceptor,
                TrustAddressUnaryInterceptor, TrustAddressStreamInterceptor,
                AuthUnaryInterceptor, AuthStreamInterceptor, Admit, Pass,
                InFlight, Interceptors
  <2>4. stage[c] # "none"
    BY <2>3 DEF InFlight, Interceptors
  <2>5. ProcessInv'
    BY <2>1, <2>3, <2>4
  <2> QED BY <2>2, <2>5
<1> QED BY <1>1, <1>2

\* A step that changes nothing keeps them.
LEMMA StutterKeepsInvariant ==
  ASSUME GatewayInv, ProcessInv, UNCHANGED allVars
  PROVE  GatewayInv' /\ ProcessInv'
<1>1. UNCHANGED gatewayVars
  BY DEF allVars
<1>2. ProcessInv'
  BY DEF allVars, gatewayVars, processVars, ProcessInv, ProcessTypeOK, StartsInOrder,
         ConfigChecked, InFlight
<1> QED BY <1>1, <1>2, FrameKeepsGateway

-----------------------------------------------------------------------------
(* Theorems *)

\* Gateway and process keep their invariants.
THEOREM ServerProcessInvariant == ProcessSpec => [](GatewayInv /\ ProcessInv)
<1>1. GatewayInv /\ ProcessInv /\ [ProcessNext]_allVars => GatewayInv' /\ ProcessInv'
  BY MainKeepsInvariant, RunKeepsInvariant, CallKeepsInvariant, StutterKeepsInvariant
  DEF ProcessNext
<1> QED BY <1>1, InitInvariant, PTL DEF ProcessSpec

\* Every variable of the calls keeps its type.
THEOREM GatewayTypesCorrect == ProcessSpec => []GatewayTypeOK
<1>1. GatewayInv => GatewayTypeOK
  BY DEF GatewayInv
<1> QED BY <1>1, ServerProcessInvariant, PTL

\* Every variable of the process keeps its type.
THEOREM ProcessTypesCorrect == ProcessSpec => []ProcessTypeOK
<1>1. ProcessInv => ProcessTypeOK
  BY DEF ProcessInv
<1> QED BY <1>1, ServerProcessInvariant, PTL

\* A handler works for the user of its own connection, from a trusted address.
THEOREM HandlersServe == ProcessSpec => []HandlersServeTheirUser
<1>1. GatewayInv => HandlersServeTheirUser
  BY DEF GatewayInv, PassedTrust, PassedAuth, HandlersServeTheirUser
<1> QED BY <1>1, ServerProcessInvariant, PTL

\* A unary call has the context that its handler asserts.
THEOREM UnaryContext == ProcessSpec => []ContextSuffices
<1>1. GatewayInv => ContextSuffices
  BY DEF GatewayInv
<1> QED BY <1>1, ServerProcessInvariant, PTL

\* Every call that is rejected has its request id.
THEOREM RejectionsTraceable == ProcessSpec => []RejectionsAreTraceable
<1>1. GatewayInv => RejectionsAreTraceable
  BY DEF GatewayInv, PassedLogging, RejectionsAreTraceable
<1> QED BY <1>1, ServerProcessInvariant, PTL

\* Nobody is served under a configuration that does not hold.
THEOREM ServedAsConfigured == ProcessSpec => []ServesAsConfigured
<1>1. ProcessInv => ServesAsConfigured
  BY DEF ProcessInv, StartsInOrder, ConfigChecked, ServesAsConfigured
<1> QED BY <1>1, ServerProcessInvariant, PTL
=============================================================================
