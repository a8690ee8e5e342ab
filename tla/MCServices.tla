----------------------------- MODULE MCServices -----------------------------
(* The parts of the library that have threads or loops of their own and do *)
(* not share state with each other.  A behaviour is one of one part: the   *)
(* scene says of which; the others do not move and start in one state.     *)
EXTENDS ThreadPool, BlockingQueue, AsyncLogger, TimerThread, Connector, TcpServer, Socks5

MCRecordSizes == <<1, 2, 1>>

VARIABLE scene

Scenes == {"pool", "queue", "log", "timers", "connector", "server", "proxy"}

allVars == <<scene, poolVars, queueVars, logVars, timerThreadVars, connectorVars, serverVars, proxy>>

MCInit ==
  /\ scene \in Scenes
  /\ PoolInit /\ QueueInit /\ LogInit /\ TimerThreadInit /\ ConnectorInit /\ ServerInit
  /\ SocksInit /\ (scene = "proxy" \/ (proxy.script = << >> /\ ~proxy.auth /\ ~proxy.idles))

MCNext ==
  \/ /\ scene = "pool" /\ PoolNext
     /\ UNCHANGED <<scene, queueVars, logVars, timerThreadVars, connectorVars, serverVars, proxy>>
  \/ /\ scene = "queue" /\ QueueNext
     /\ UNCHANGED <<scene, poolVars, logVars, timerThreadVars, connectorVars, serverVars, proxy>>
  \/ /\ scene = "log" /\ LogNext
     /\ UNCHANGED <<scene, poolVars, queueVars, timerThreadVars, connectorVars, serverVars, proxy>>
  \/ /\ scene = "timers" /\ TimerThreadNext
     /\ UNCHANGED <<scene, poolVars, queueVars, logVars, connectorVars, serverVars, proxy>>
  \/ /\ scene = "connector" /\ ConnectorNext
     /\ UNCHANGED <<scene, poolVars, queueVars, logVars, timerThreadVars, serverVars, proxy>>
  \/ /\ scene = "server" /\ ServerNext
     /\ UNCHANGED <<scene, poolVars, queueVars, logVars, timerThreadVars, connectorVars, proxy>>
  \/ /\ scene = "proxy" /\ SocksNext
     /\ UNCHANGED <<scene, poolVars, queueVars, logVars, timerThreadVars, connectorVars, serverVars>>

MCSpec ==
  /\ MCInit /\ [][MCNext]_allVars
  /\ TimerThreadFairness /\ ConnectorFairness
=============================================================================
