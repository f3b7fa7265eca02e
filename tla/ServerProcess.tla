---------------------------- MODULE ServerProcess ----------------------------
(***************************************************************************)
(* The life of the server process: run in cmd/server/main.go, with the     *)
(* configuration it reads, and GRPCServer.Run (internal/server/grpc.go),   *)
(* around the calls of Gateway.                                            *)
(*                                                                         *)
(* Three goroutines matter: main, which connects, starts Run and waits for *)
(* a signal; Run, which listens, waits for the same signal and stops the   *)
(* server gracefully; and the one that Serve runs in.  Nobody waits for    *)
(* Run, and the process ends when main does.                               *)
(***************************************************************************)
EXTENDS Gateway, Integers

CONSTANTS
  NotGiven,  \* a flag that is not on the command line
  Malformed  \* an entry of TrustedCIDRs that does not parse

ASSUME ProcessAssumption == Malformed \notin Networks /\ NotGiven \notin {0, 1}

VARIABLES
  main,      \* where run is
  serverRun, \* where GRPCServer.Run is
  serve,     \* where the goroutine of Serve is
  signalled, \* whether the context of signal.NotifyContext is done
  cfg        \* config.ServerConfig, as far as it matters

processVars == <<main, serverRun, serve, signalled, cfg>>
allVars == <<gatewayVars, processVars>>

MainStates ==
  {"config", "minio", "redis", "storage", "setup", "wait", "complete", "failed"}
RunStates == {"none", "listen", "wait", "drain", "join", "stopped", "failed"}
ServeStates == {"none", "starting", "accepting", "returned"}

\* A text of entries separated by commas is the set of its entries.
Texts == SUBSET (Networks \union {Malformed})
Numbers == {0, 1}
Configs == [ttl : Numbers, chunkSize : Numbers, cidrs : Texts]

ProcessInit ==
  /\ GatewayInit
  /\ main = "config"
  /\ serverRun = "none"
  /\ serve = "none"
  /\ signalled = FALSE
  /\ cfg = [ttl |-> 0, chunkSize |-> 0, cidrs |-> {}]

\* The process is gone when run has returned or a goroutine has panicked.
Ended == main \in {"complete", "failed"} \/ Panicked

MainStep(from, to) ==
  /\ ~Ended
  /\ main = from
  /\ main' = to
  /\ UNCHANGED <<stage, header, ctx, serve, signalled>>

-----------------------------------------------------------------------------
(* run: configuration and connections *)

\* Mutant of Setting: all flags are taken over, not those that were visited.
EveryFlag(environment, flag) == flag

\* A flag that is on the command line overrides the environment.
Setting(environment, flag) == IF flag = NotGiven THEN environment ELSE flag

\* The empty text is no network in the environment, where it is not parsed at
\* all, and one empty entry on the command line.
FlagEntries(text) == IF text = {} THEN {Malformed} ELSE text

ParseServerConfig ==
  /\ MainStep("config", "minio")
  /\ \E ttl, chunkSize \in Numbers, cidrs \in Texts :
       \E ttlFlag, chunkFlag \in Numbers \union {NotGiven} :
       \E cidrsFlag \in {FlagEntries(t) : t \in Texts} \union {NotGiven} :
         cfg' = [ttl |-> Setting(ttl, ttlFlag),
                 chunkSize |-> Setting(chunkSize, chunkFlag),
                 cidrs |-> Setting(cidrs, cidrsFlag)]
  /\ UNCHANGED <<trusted, serverRun>>

\* MinIO is probed, but one that does not answer is no error.
NewMinioConnection ==
  /\ MainStep("minio", "redis")
  /\ UNCHANGED <<trusted, serverRun, cfg>>

\* The connection to Redis is tried, under the context of the signals.
NewRedisConnection ==
  /\ ~signalled
  /\ MainStep("redis", "storage")
  /\ UNCHANGED <<trusted, serverRun, cfg>>

\* Mutant of NewArtifactGRPCServer: zero is accepted.
NewArtifactServerUnchecked ==
  /\ MainStep("storage", "setup")
  /\ UNCHANGED <<trusted, serverRun, cfg>>

NewArtifactGRPCServer ==
  /\ MainStep("storage", IF cfg.ttl > 0 /\ cfg.chunkSize > 0 THEN "setup" ELSE "failed")
  /\ UNCHANGED <<trusted, serverRun, cfg>>

\* Mutant of SetupGRPCServer: entries that do not parse are left out.
SetupSkippingMalformed ==
  /\ MainStep("setup", "wait")
  /\ trusted' = cfg.cidrs \ {Malformed}
  /\ serverRun' = "listen"
  /\ UNCHANGED cfg

\* prepareTrustedCIDRs rejects the list for one entry that does not parse.
\* Then main starts Run.
SetupGRPCServer ==
  IF Malformed \in cfg.cidrs
    THEN MainStep("setup", "failed") /\ UNCHANGED <<trusted, serverRun, cfg>>
    ELSE /\ MainStep("setup", "wait")
         /\ trusted' = cfg.cidrs
         /\ serverRun' = "listen"
         /\ UNCHANGED cfg

\* An environment variable, a host, a certificate or Redis is no good.
StartFails ==
  /\ \E from \in {"config", "minio", "redis", "setup"} : MainStep(from, "failed")
  /\ UNCHANGED <<trusted, serverRun, cfg>>

\* Mutant of Shutdown: main waits for Run.
ShutdownAfterRun ==
  /\ serverRun \in {"stopped", "failed"}
  /\ MainStep("wait", "complete")
  /\ UNCHANGED <<trusted, serverRun, cfg>>

\* main logs "Shutdown complete" and returns.
Shutdown ==
  /\ signalled
  /\ MainStep("wait", "complete")
  /\ UNCHANGED <<trusted, serverRun, cfg>>

\* A signal before NotifyContext kills the process.
Signal ==
  /\ ~Ended
  /\ IF main = "config"
       THEN main' = "failed" /\ UNCHANGED signalled
       ELSE signalled' = TRUE /\ UNCHANGED main
  /\ UNCHANGED <<gatewayVars, serverRun, serve, cfg>>

-----------------------------------------------------------------------------
(* GRPCServer.Run *)

RunStep(from, to) ==
  /\ ~Ended
  /\ serverRun = from
  /\ serverRun' = to
  /\ UNCHANGED <<gatewayVars, main, signalled, cfg>>

Listen ==
  /\ RunStep("listen", "wait")
  /\ serve' = "starting"

\* Only logged: the process stays, and serves nobody.
ListenFails ==
  /\ RunStep("listen", "failed")
  /\ UNCHANGED serve

ServeStep(from, to) ==
  /\ ~Ended
  /\ serve = from
  /\ serve' = to
  /\ UNCHANGED <<gatewayVars, main, serverRun, signalled, cfg>>

\* Serve refuses to start on a server that is stopped already, and otherwise
\* returns when the stop is over.
Serve == ServeStep("starting", IF serverRun = "wait" THEN "accepting" ELSE "returned")

ServeReturns == serverRun \in {"join", "stopped"} /\ ServeStep("accepting", "returned")

\* GracefulStop closes the listener and refuses new calls ...
RequestStop ==
  /\ signalled
  /\ RunStep("wait", "drain")
  /\ UNCHANGED serve

\* ... and waits for the handlers.
GracefulStop ==
  /\ \A c \in Calls : ~InFlight(c)
  /\ RunStep("drain", "join")
  /\ UNCHANGED serve

RunReturns ==
  /\ serve = "returned"
  /\ RunStep("join", "stopped")
  /\ UNCHANGED serve

-----------------------------------------------------------------------------
(* Calls *)

Accept(c) ==
  /\ ~Ended
  /\ serve = "accepting" /\ serverRun = "wait"
  /\ \E h \in Headers : Arrive(c, h)
  /\ UNCHANGED processVars

Process(c) ==
  /\ ~Ended
  /\ GatewayStep(c)
  /\ UNCHANGED processVars

Main ==
  \/ ParseServerConfig
  \/ NewMinioConnection
  \/ NewRedisConnection
  \/ NewArtifactGRPCServer
  \/ SetupGRPCServer
  \/ Shutdown

Run ==
  \/ Listen
  \/ RequestStop
  \/ GracefulStop
  \/ RunReturns

ProcessNext ==
  \/ Main \/ StartFails
  \/ Run \/ ListenFails
  \/ Serve \/ ServeReturns
  \/ Signal
  \/ \E c \in Calls : Accept(c) \/ Process(c)

ProcessSpec == ProcessInit /\ [][ProcessNext]_allVars

\* The goroutines of the process run, and Redis answers a PING or fails it.
\* Nothing is assumed of calls, whose handlers may hang.
FairProcessSpec ==
  /\ ProcessSpec
  /\ WF_allVars(Main \/ StartFails)
  /\ WF_allVars(Run \/ ListenFails)
  /\ WF_allVars(Serve \/ ServeReturns)

-----------------------------------------------------------------------------
(* Properties *)

\* Every variable keeps its type.
ProcessTypeOK ==
  /\ main \in MainStates
  /\ serverRun \in RunStates
  /\ serve \in ServeStates
  /\ signalled \in BOOLEAN
  /\ cfg \in Configs

\* A call is let in only by a server whose sessions have a TTL, whose default
\* chunk size divides, and which enforces every network it was configured
\* with, whichever of environment and command line they came from.
ServesAsConfigured ==
  \A c \in Calls : stage[c] # "none" =>
    cfg.ttl > 0 /\ cfg.chunkSize > 0 /\ trusted = cfg.cidrs

\* "Shutdown complete" (cmd/server/main.go:84): no call is left when main
\* reports this.
ShutdownIsComplete == main = "complete" => \A c \in Calls : ~InFlight(c)

\* A signal ends the process, whatever its handlers do.
SignalEndsProcess == signalled ~> Ended
=============================================================================
