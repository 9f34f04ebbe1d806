-------------------------- MODULE McpServers_proofs --------------------------
(***************************************************************************)
(* Type correctness, ServersAsConfigured and ToolsReachTheirServer of      *)
(* McpServers, for every set of servers, clients, configurations and       *)
(* tools.                                                                  *)
(*                                                                         *)
(* ServersAsConfigured says nothing while a reconcile is starting servers. *)
(* Asked says what is true then: a server that was looked at runs as the   *)
(* desired configuration says, one that was not as the old one did.        *)
(***************************************************************************)
EXTENDS McpServers, TLAPS

Running(s) == clients[s] # NoClient

\* No two servers share a client.
OwnClients == \A s, r \in Servers : Running(s) /\ clients[s] = clients[r] => s = r

\* While servers are started for the first time, and while a reconcile goes on
Asked ==
    /\ holder = "boot" => \A s \in todo : ~Running(s)
    /\ holder = "drop" =>
          /\ \A s \in todo : Running(s)
          /\ \A s \in Servers : Running(s) /\ ~want[s].on => s \in todo
    /\ holder = "ensure" =>
          /\ \A s \in todo : want[s].on
          /\ \A s \in Servers : Running(s) =>
                /\ want[s].on
                /\ launch[clients[s]] = IF s \in todo THEN configs[s].launch ELSE want[s].launch
    /\ holder \in {"refresh", "register"} => \A s \in todo : Running(s)

\* No refresh is at work.
Steady == holder \notin {"refresh", "register"}

IInv == McpTypeOK /\ OwnClients /\ Asked /\ ServersAsConfigured /\ ToolsReachTheirServer

-----------------------------------------------------------------------------
\* Initially no server runs.
LEMMA InitInv == McpInit => IInv
  <1> SUFFICES ASSUME McpInit PROVE IInv  OBVIOUS
  <1>1. McpTypeOK
    BY McpConstants DEF McpInit, McpTypeOK, Configs
  <1>2. OwnClients /\ Asked /\ ServersAsConfigured /\ ToolsReachTheirServer
    BY DEF McpInit, OwnClients, Running, Asked, ServersAsConfigured, ToolsReachTheirServer
  <1> QED  BY <1>1, <1>2 DEF IInv

\* Stopping a server leaves the others' clients, processes and tools as they are.
LEMMA Stopped ==
    ASSUME McpTypeOK, OwnClients, ToolsReachTheirServer, NEW s \in Servers, Running(s), Steady,
           StopServer(s), UNCHANGED handlers
    PROVE  /\ clients' \in [Servers -> Clients \cup {NoClient}]
           /\ launch' \in [Clients -> Launches \cup {Off}] /\ offers' \in [Clients -> SUBSET Tools]
           /\ proc' \in [Clients -> {"none", "up", "mute", "dead"}]
           /\ clients'[s] = NoClient
           /\ \A r \in Servers : Running(r)' => r # s /\ Running(r) /\ clients'[r] = clients[r]
                                                /\ launch'[clients[r]] = launch[clients[r]]
           /\ OwnClients' /\ ToolsReachTheirServer'
  <1>1. /\ clients' \in [Servers -> Clients \cup {NoClient}]
        /\ launch' \in [Clients -> Launches \cup {Off}] /\ offers' \in [Clients -> SUBSET Tools]
        /\ proc' \in [Clients -> {"none", "up", "mute", "dead"}]
        /\ clients'[s] = NoClient
    BY DEF McpTypeOK, StopServer
  <1>2. ASSUME NEW r \in Servers, Running(r)'
        PROVE  /\ r # s /\ Running(r) /\ clients'[r] = clients[r]
               /\ launch'[clients[r]] = launch[clients[r]] /\ offers'[clients[r]] = offers[clients[r]]
    <2>1. r # s /\ clients'[r] = clients[r] /\ Running(r)
      BY <1>2, <1>1 DEF McpTypeOK, StopServer, Running
    <2>2. clients[r] # clients[s] /\ clients[r] \in Clients
      BY <2>1 DEF OwnClients, McpTypeOK, Running
    <2> QED  BY <2>1, <2>2 DEF McpTypeOK, StopServer
  <1>3. OwnClients'
    BY <1>2 DEF OwnClients, Running
  <1>4. ToolsReachTheirServer'
    BY <1>2 DEF ToolsReachTheirServer, Running, Refreshing, Steady
  <1> QED  BY <1>1, <1>2, <1>3, <1>4

\* Starting a server gives it a client of its own with what it was started with, or
\* leaves everything as it is.
LEMMA Started ==
    ASSUME McpTypeOK, OwnClients, ToolsReachTheirServer, NEW s \in Servers, ~Running(s), Steady,
           NEW l \in Launches, StartServer(s, l)
    PROVE  /\ clients' \in [Servers -> Clients \cup {NoClient}]
           /\ launch' \in [Clients -> Launches \cup {Off}] /\ offers' \in [Clients -> SUBSET Tools]
           /\ proc' \in [Clients -> {"none", "up", "mute", "dead"}]
           /\ handlers' \in [Servers -> [Tools -> Clients \cup {NoClient}]] /\ faults' \in 0..MaxFaults
           /\ Running(s)' => launch'[clients'[s]] = l
           /\ \A r \in Servers \ {s} : /\ clients'[r] = clients[r]
                                       /\ Running(r) => launch'[clients[r]] = launch[clients[r]]
           /\ OwnClients' /\ ToolsReachTheirServer'
  <1>1. CASE Fault /\ UNCHANGED <<clients, handlers, processes>>
    BY <1>1, McpConstants DEF Fault, processes, McpTypeOK, OwnClients, ToolsReachTheirServer, Running, Refreshing,
       Steady
  <1>2. ASSUME NEW c \in Clients, NEW ts \in SUBSET Tools, Unused(c),
               clients' = [clients EXCEPT ![s] = c],
               proc' = [proc EXCEPT ![c] = "up"],
               launch' = [launch EXCEPT ![c] = l],
               offers' = [offers EXCEPT ![c] = ts],
               handlers' = [handlers EXCEPT ![s] = [t \in Tools |-> IF t \in ts THEN c ELSE @[t]]],
               UNCHANGED faults
        PROVE  /\ clients' \in [Servers -> Clients \cup {NoClient}]
               /\ launch' \in [Clients -> Launches \cup {Off}] /\ offers' \in [Clients -> SUBSET Tools]
               /\ proc' \in [Clients -> {"none", "up", "mute", "dead"}]
               /\ handlers' \in [Servers -> [Tools -> Clients \cup {NoClient}]] /\ faults' \in 0..MaxFaults
               /\ Running(s)' => launch'[clients'[s]] = l
               /\ \A r \in Servers \ {s} : /\ clients'[r] = clients[r]
                                           /\ Running(r) => launch'[clients[r]] = launch[clients[r]]
               /\ OwnClients' /\ ToolsReachTheirServer'
    <2>1. /\ clients' \in [Servers -> Clients \cup {NoClient}]
          /\ launch' \in [Clients -> Launches \cup {Off}] /\ offers' \in [Clients -> SUBSET Tools]
          /\ proc' \in [Clients -> {"none", "up", "mute", "dead"}] /\ faults' \in 0..MaxFaults
      BY <1>2 DEF McpTypeOK
    <2>2. handlers' \in [Servers -> [Tools -> Clients \cup {NoClient}]]
      BY <1>2 DEF McpTypeOK
    <2>3. clients'[s] = c /\ launch'[c] = l /\ offers'[c] = ts
          /\ \A t \in ts : handlers'[s][t] = c
      BY <1>2 DEF McpTypeOK
    <2>4. ASSUME NEW r \in Servers, r # s
          PROVE  /\ clients'[r] = clients[r] /\ clients[r] # c /\ handlers'[r] = handlers[r]
                 /\ Running(r) => /\ launch'[clients[r]] = launch[clients[r]]
                                  /\ offers'[clients[r]] = offers[clients[r]]
      BY <1>2, <2>4 DEF McpTypeOK, Unused, Running
    <2>5. OwnClients'
      BY <2>3, <2>4 DEF OwnClients, Running
    <2>6. ToolsReachTheirServer'
      BY <2>3, <2>4 DEF ToolsReachTheirServer, Running, Refreshing, Steady
    <2> QED  BY <2>1, <2>2, <2>3, <2>4, <2>5, <2>6
  <1> QED  BY <1>1, <1>2 DEF StartServer

-----------------------------------------------------------------------------
\* Steps that leave servers, clients and tools alone need only keep Asked and the
\* manager's configuration.
LEMMA QuietInv ==
    ASSUME IInv, McpTypeOK', UNCHANGED <<clients, handlers, launch, offers>>, Asked', ServersAsConfigured',
           Steady \/ UNCHANGED <<holder, todo>>
    PROVE  IInv'
  BY DEF IInv, OwnClients, Running, ToolsReachTheirServer, Refreshing, Steady

\* Reconcile, EnsureRest and Reconciled: before the first server, between the two loops,
\* after the last.
LEMMA ReconcileInv == ASSUME IInv, NEW w \in waiting, Reconcile(w) PROVE IInv'
  <1>1. McpTypeOK' /\ UNCHANGED <<clients, handlers, launch, offers>>
    BY DEF IInv, McpTypeOK, Reconcile, manager, processes
  <1>2. Asked'
    BY DEF IInv, McpTypeOK, Asked, Running, Reconcile, manager
  <1>3. ServersAsConfigured'
    BY DEF IInv, ServersAsConfigured, Reconcile, manager, processes
  <1>4. Steady
    BY DEF Reconcile, Steady
  <1> QED  BY <1>1, <1>2, <1>3, <1>4, QuietInv

\* What is left of the old servers runs as the old configuration says.
LEMMA EnsureRestInv == ASSUME IInv, EnsureRest PROVE IInv'
  <1>1. McpTypeOK' /\ UNCHANGED <<clients, handlers, launch, offers>>
    BY DEF IInv, McpTypeOK, EnsureRest, manager, processes
  <1>2. Asked'
    BY DEF IInv, Asked, ServersAsConfigured, Running, EnsureRest, manager, processes
  <1>3. ServersAsConfigured'
    BY DEF ServersAsConfigured, EnsureRest
  <1>4. Steady
    BY DEF EnsureRest, Steady
  <1> QED  BY <1>1, <1>2, <1>3, <1>4, QuietInv

\* All servers were looked at: they run as the desired configuration says.
LEMMA ReconciledInv == ASSUME IInv, Reconciled PROVE IInv'
  <1>1. McpTypeOK' /\ UNCHANGED <<clients, handlers, launch, offers>>
    BY DEF IInv, McpTypeOK, Reconciled, processes
  <1>2. Asked'
    BY DEF Asked, Reconciled
  <1>3. ServersAsConfigured'
    BY DEF IInv, Asked, ServersAsConfigured, Running, Reconciled, processes
  <1>4. Steady
    BY DEF Reconciled, Steady
  <1> QED  BY <1>1, <1>2, <1>3, <1>4, QuietInv

\* The other steps without a start or a stop
LEMMA AsideInv ==
    ASSUME IInv, HealthCycle \/ Unlock \/ AskReconcile \/ (\E c \in Clients : ProcessFails(c))
                 \/ (\E s \in Servers, c \in Settings : EditFile(s, c))
    PROVE  IInv'
  <1>1. CASE HealthCycle
    <2>1. McpTypeOK' /\ UNCHANGED <<clients, handlers, launch, offers>>
      BY <1>1 DEF IInv, McpTypeOK, HealthCycle, manager, processes
    <2>2. Asked' /\ ServersAsConfigured'
      BY <1>1 DEF IInv, Asked, ServersAsConfigured, HealthCycle, manager, processes
    <2>3. Steady
      BY <1>1 DEF HealthCycle, Steady
    <2> QED  BY <2>1, <2>2, <2>3, QuietInv
  <1>2. CASE Unlock
    <2>1. McpTypeOK' /\ UNCHANGED <<clients, handlers, launch, offers>>
      BY <1>2 DEF IInv, McpTypeOK, Unlock, manager, processes
    <2>2. Asked' /\ ServersAsConfigured'
      BY <1>2 DEF IInv, Asked, ServersAsConfigured, Unlock, manager, processes
    <2> QED  BY <1>2, <2>1, <2>2 DEF Unlock, IInv, OwnClients, Running, ToolsReachTheirServer, Refreshing
  <1>3. CASE AskReconcile
    <2>1. McpTypeOK' /\ UNCHANGED <<clients, handlers, launch, offers>>
      BY <1>3, McpConstants DEF IInv, McpTypeOK, AskReconcile, Edit, manager, processes, operation
    <2>2. Asked' /\ ServersAsConfigured'
      BY <1>3 DEF IInv, Asked, Running, ServersAsConfigured, AskReconcile, manager, processes, operation
    <2>3. UNCHANGED <<holder, todo>>
      BY <1>3 DEF AskReconcile, operation
    <2> QED  BY <2>1, <2>2, <2>3, QuietInv
  <1>4. ASSUME NEW c \in Clients, ProcessFails(c) PROVE IInv'
    <2>1. McpTypeOK' /\ UNCHANGED <<clients, handlers, launch, offers>>
      BY <1>4, McpConstants DEF IInv, McpTypeOK, ProcessFails, Fault, manager, operation
    <2>2. Asked' /\ ServersAsConfigured'
      BY <1>4 DEF IInv, Asked, Running, ServersAsConfigured, ProcessFails, manager, operation
    <2>3. UNCHANGED <<holder, todo>>
      BY <1>4 DEF ProcessFails, operation
    <2> QED  BY <2>1, <2>2, <2>3, QuietInv
  <1>5. ASSUME NEW s \in Servers, NEW c \in Settings, EditFile(s, c) PROVE IInv'
    <2>1. McpTypeOK' /\ UNCHANGED <<clients, handlers, launch, offers>>
      BY <1>5, McpConstants DEF IInv, McpTypeOK, Configs, EditFile, Edit, manager, processes, operation
    <2>2. Asked' /\ ServersAsConfigured'
      BY <1>5 DEF IInv, Asked, Running, ServersAsConfigured, EditFile, manager, processes, operation
    <2>3. UNCHANGED <<holder, todo>>
      BY <1>5 DEF EditFile, operation
    <2> QED  BY <2>1, <2>2, <2>3, QuietInv
  <1> QED  BY <1>1, <1>2, <1>3, <1>4, <1>5

-----------------------------------------------------------------------------
\* A server the desired configuration does not want is stopped.
LEMMA DropServerInv == ASSUME IInv, NEW s \in Servers, DropServer(s) PROVE IInv'
  <1>0. /\ Running(s) /\ StopServer(s) /\ UNCHANGED <<handlers, configs, holder, want>>
        /\ todo' = todo \ {s} /\ Steady
    BY DEF IInv, Asked, DropServer, Looked, Steady
  <1>1. /\ \A r \in Servers : Running(r)' => r # s /\ Running(r) /\ clients'[r] = clients[r]
                                             /\ launch'[clients[r]] = launch[clients[r]]
        /\ OwnClients' /\ ToolsReachTheirServer'
    BY <1>0, Stopped DEF IInv
  <1>2. McpTypeOK'
    BY <1>0, Stopped, McpConstants DEF IInv, McpTypeOK, DropServer
  <1>3. Asked'
    <2>1. \A r \in todo' : Running(r)'
      BY <1>0 DEF IInv, Asked, Running, StopServer, McpTypeOK, DropServer
    <2> QED  BY <2>1, <1>0, <1>1 DEF IInv, Asked, DropServer
  <1>4. ServersAsConfigured'
    BY <1>0, <1>1 DEF IInv, ServersAsConfigured, Running, DropServer
  <1> QED  BY <1>1, <1>2, <1>3, <1>4 DEF IInv

\* A wanted server is started, stopped to be started again, or left as it is.
LEMMA EnsureServerInv == ASSUME IInv, NEW s \in Servers, EnsureServer(s) PROVE IInv'
  <1>0. /\ holder = "ensure" /\ holder' = "ensure" /\ s \in todo
        /\ UNCHANGED <<file, configs, pings, holder, want, waiting, edits>> /\ Steady
    BY DEF EnsureServer, Steady
  <1>s. ServersAsConfigured'
    BY <1>0 DEF ServersAsConfigured
  <1>1. CASE ~Running(s) /\ StartServer(s, want[s].launch) /\ Looked(s)
    <2>1. want[s].launch \in Launches /\ want[s].on /\ todo' = todo \ {s}
      BY <1>0, <1>1 DEF IInv, McpTypeOK, Configs, Settings, Asked, Looked
    <2>2. /\ Running(s)' => launch'[clients'[s]] = want[s].launch
          /\ \A r \in Servers \ {s} : /\ clients'[r] = clients[r]
                                      /\ Running(r) => launch'[clients[r]] = launch[clients[r]]
          /\ OwnClients' /\ ToolsReachTheirServer'
      BY <1>0, <1>1, <2>1, Started DEF IInv
    <2>3. McpTypeOK'
      BY <1>0, <1>1, <2>1, Started DEF IInv, McpTypeOK
    <2>4. Asked'
      BY <1>0, <2>1, <2>2 DEF IInv, Asked, Running
    <2> QED  BY <2>2, <2>3, <2>4, <1>s DEF IInv
  <1>2. CASE Running(s) /\ configs[s].launch # want[s].launch /\ StopServer(s) /\ UNCHANGED <<handlers, faults, todo>>
    <2>1. /\ \A r \in Servers : Running(r)' => r # s /\ Running(r) /\ clients'[r] = clients[r]
                                               /\ launch'[clients[r]] = launch[clients[r]]
          /\ OwnClients' /\ ToolsReachTheirServer'
      BY <1>0, <1>2, Stopped DEF IInv
    <2>2. McpTypeOK'
      BY <1>0, <1>2, Stopped DEF IInv, McpTypeOK
    <2>3. Asked'
      BY <1>0, <1>2, <2>1 DEF IInv, Asked, Running
    <2> QED  BY <2>1, <2>2, <2>3, <1>s DEF IInv
  <1>3. CASE Running(s) /\ configs[s].launch = want[s].launch /\ Looked(s) /\ UNCHANGED <<clients, handlers, processes, faults>>
    <2>1. todo' = todo \ {s} /\ UNCHANGED <<clients, handlers, launch, offers>>
      BY <1>3 DEF Looked, processes
    <2>2. McpTypeOK'
      BY <1>0, <1>3, <2>1 DEF IInv, McpTypeOK, processes
    <2>3. Asked'
      BY <1>0, <1>3, <2>1 DEF IInv, Asked, Running
    <2> QED  BY <1>0, <2>1, <2>2, <2>3, <1>s, QuietInv
  <1> QED  BY <1>1, <1>2, <1>3 DEF EnsureServer, Running

\* Outside a reconcile a server is started as the manager has it configured: by the boot
\* or as the second half of a restart.
LEMMA StartInv ==
    ASSUME IInv, NEW s \in Servers, holder \in {"boot", "health", "restart"}, ~Running(s),
           StartServer(s, configs[s].launch), Looked(s),
           UNCHANGED <<file, configs, pings, holder, want, waiting, edits>>
    PROVE  IInv'
  <1>1. configs[s].launch \in Launches /\ todo' = todo \ {s} /\ Steady
    BY DEF IInv, McpTypeOK, Configs, Settings, Looked, Steady
  <1>2. /\ Running(s)' => launch'[clients'[s]] = configs[s].launch
        /\ \A r \in Servers \ {s} : /\ clients'[r] = clients[r]
                                    /\ Running(r) => launch'[clients[r]] = launch[clients[r]]
        /\ OwnClients' /\ ToolsReachTheirServer'
    BY <1>1, Started DEF IInv
  <1>3. McpTypeOK'
    BY <1>1, Started DEF IInv, McpTypeOK
  <1>4. Asked'
    BY <1>1, <1>2 DEF IInv, McpTypeOK, Asked, Running
  <1>5. ServersAsConfigured'
    BY <1>2 DEF IInv, ServersAsConfigured, Running
  <1> QED  BY <1>2, <1>3, <1>4, <1>5 DEF IInv

\* Outside a reconcile a server is stopped: the first half of a restart.
LEMMA StopInv ==
    ASSUME IInv, NEW s \in Servers, holder' \in {"health", "restart"}, holder # "ensure", Running(s),
           Steady, StopServer(s), pings' \in [Servers -> 0..MaxPings], todo' \subseteq Servers,
           edits' \in 0..MaxEdits, UNCHANGED <<file, configs, handlers, want, waiting, faults>>
    PROVE  IInv'
  <1>1. /\ \A r \in Servers : Running(r)' => r # s /\ Running(r) /\ clients'[r] = clients[r]
                                             /\ launch'[clients[r]] = launch[clients[r]]
        /\ OwnClients' /\ ToolsReachTheirServer'
    BY Stopped DEF IInv
  <1>2. McpTypeOK'
    BY Stopped DEF IInv, McpTypeOK
  <1>3. Asked'
    BY DEF Asked
  <1>4. ServersAsConfigured'
    BY <1>1 DEF IInv, ServersAsConfigured, Running
  <1> QED  BY <1>1, <1>2, <1>3, <1>4 DEF IInv

\* A ping counts, or stops the server.
LEMMA PingInv == ASSUME IInv, NEW s \in Servers, Ping(s) PROVE IInv'
  <1>0. /\ holder = "health" /\ holder' = "health" /\ Running(s)
        /\ UNCHANGED <<file, configs, handlers, want, waiting, faults, edits>>
        /\ Steady
    BY DEF Ping, Pinged, Running, Steady
  <1>1. pings' \in [Servers -> 0..MaxPings] /\ todo' \subseteq Servers /\ edits' \in 0..MaxEdits
    BY <1>0, McpConstants DEF IInv, McpTypeOK, Ping, Pinged, Looked
  <1>2. CASE StopServer(s)
    BY <1>0, <1>1, <1>2, StopInv
  <1>3. CASE UNCHANGED <<clients, processes>>
    <2>1. McpTypeOK' /\ UNCHANGED <<clients, handlers, launch, offers>>
      BY <1>0, <1>1, <1>3 DEF IInv, McpTypeOK, processes
    <2>2. Asked' /\ ServersAsConfigured'
      BY <1>0, <1>3 DEF IInv, Asked, ServersAsConfigured, processes
    <2> QED  BY <1>0, <2>1, <2>2, QuietInv
  <1> QED  BY <1>2, <1>3 DEF Ping, Pinged

\* A restart by command stops the server if it runs.
LEMMA RestartCommandInv == ASSUME IInv, NEW s \in Servers, RestartCommand(s) PROVE IInv'
  <1>0. /\ holder = "nobody" /\ holder' = "restart" /\ todo' \subseteq Servers
        /\ pings' \in [Servers -> 0..MaxPings] /\ edits' \in 0..MaxEdits
        /\ UNCHANGED <<file, configs, pings, handlers, want, waiting, faults>>
        /\ Steady
    BY McpConstants DEF IInv, McpTypeOK, RestartCommand, Edit, Steady
  <1>1. CASE Running(s) /\ StopServer(s)
    BY <1>0, <1>1, StopInv
  <1>2. CASE UNCHANGED <<clients, processes>>
    <2>1. McpTypeOK' /\ UNCHANGED <<clients, handlers, launch, offers>>
      BY <1>0, <1>2 DEF IInv, McpTypeOK, processes
    <2>2. Asked' /\ ServersAsConfigured'
      BY <1>0, <1>2 DEF IInv, Asked, ServersAsConfigured, processes
    <2> QED  BY <1>0, <2>1, <2>2, QuietInv
  <1> QED  BY <1>1, <1>2 DEF RestartCommand, Running

\* A refresh changes what the running client offers; until the tools are registered
\* nothing is said of its server, and the other servers have other clients.
LEMMA RefreshInv == ASSUME IInv, NEW s \in Servers, NEW ts \in SUBSET Tools, Refresh(s, ts) PROVE IInv'
  <1>0. /\ Running(s) /\ clients[s] \in Clients /\ Steady
        /\ offers' = [offers EXCEPT ![clients[s]] = ts] /\ holder' = "refresh" /\ todo' = {s}
        /\ UNCHANGED <<file, manager, handlers, launch, proc, want, waiting, faults, edits>>
    BY DEF IInv, McpTypeOK, Refresh, Running, Steady
  <1>1. McpTypeOK'
    BY <1>0 DEF IInv, McpTypeOK, manager
  <1>2. OwnClients' /\ ServersAsConfigured' /\ Asked'
    BY <1>0 DEF IInv, OwnClients, Running, ServersAsConfigured, Asked, manager, Refresh
  <1>3. ToolsReachTheirServer'
    <2> SUFFICES ASSUME NEW r \in Servers, Running(r), r # s
                 PROVE  offers'[clients[r]] = offers[clients[r]]
      BY <1>0 DEF IInv, ToolsReachTheirServer, Refreshing, Steady, Running, manager
    <2>1. clients[r] \in Clients /\ clients[r] # clients[s]
      BY DEF IInv, McpTypeOK, OwnClients, Running
    <2> QED  BY <1>0, <2>1 DEF IInv, McpTypeOK
  <1> QED  BY <1>1, <1>2, <1>3 DEF IInv

\* Its tools are taken out.
LEMMA UnregisterInv == ASSUME IInv, NEW s \in Servers, Unregister(s) PROVE IInv'
  <1>1. McpTypeOK'
    BY DEF IInv, McpTypeOK, Unregister, manager, processes
  <1>2. OwnClients' /\ ServersAsConfigured' /\ Asked'
    BY DEF IInv, OwnClients, Running, ServersAsConfigured, Asked, Unregister, manager, processes
  <1>3. ToolsReachTheirServer'
    BY DEF IInv, McpTypeOK, ToolsReachTheirServer, Refreshing, Unregister, manager, processes
  <1> QED  BY <1>1, <1>2, <1>3 DEF IInv

\* They are put behind the running client.
LEMMA RegisterInv == ASSUME IInv, NEW s \in Servers, Register(s) PROVE IInv'
  <1>0. /\ Running(s) /\ clients[s] \in Clients /\ holder = "register" /\ holder' = "register"
        /\ handlers' = [handlers EXCEPT
              ![s] = [t \in Tools |-> IF t \in offers[clients[s]] THEN clients[s] ELSE @[t]]]
        /\ todo' = todo \ {s} /\ offers[clients[s]] \subseteq Tools
        /\ UNCHANGED <<file, manager, processes, holder, want, waiting, faults, edits>>
    BY DEF IInv, McpTypeOK, Asked, Register, Looked, Running
  <1>1. McpTypeOK'
    BY <1>0 DEF IInv, McpTypeOK, manager, processes
  <1>2. OwnClients' /\ ServersAsConfigured' /\ Asked'
    BY <1>0 DEF IInv, OwnClients, Running, ServersAsConfigured, Asked, manager, processes
  <1>3. ToolsReachTheirServer'
    <2> SUFFICES ASSUME NEW r \in Servers, Running(r), ~Refreshing(r)', NEW t \in offers[clients[r]]
                 PROVE  handlers'[r][t] = clients[r]
      BY <1>0 DEF ToolsReachTheirServer, Running, manager, processes
    <2>1. CASE r = s
      BY <1>0, <2>1 DEF IInv, McpTypeOK
    <2>2. CASE r # s
      BY <1>0, <2>2 DEF IInv, McpTypeOK, ToolsReachTheirServer, Refreshing, Running
    <2> QED  BY <2>1, <2>2
  <1> QED  BY <1>1, <1>2, <1>3 DEF IInv

-----------------------------------------------------------------------------
\* Every step keeps the invariant.
LEMMA NextInv == IInv /\ [McpNext]_mcpVars => IInv'
  <1> SUFFICES ASSUME IInv, [McpNext]_mcpVars PROVE IInv'  OBVIOUS
  <1>1. ASSUME NEW s \in Servers, Boot(s) PROVE IInv'
    <2>1. ~Running(s)
      BY <1>1 DEF IInv, Asked, Boot
    <2> QED  BY <1>1, <2>1, StartInv DEF Boot
  <1>2. ASSUME NEW s \in Servers, Restart(s) PROVE IInv'
    BY <1>2, StartInv DEF Restart, Running
  <1>3. CASE UNCHANGED mcpVars
    <2>1. McpTypeOK' /\ UNCHANGED <<clients, handlers, launch, offers>>
      BY <1>3 DEF IInv, McpTypeOK, mcpVars, manager, processes, operation
    <2>2. Asked' /\ ServersAsConfigured'
      BY <1>3 DEF IInv, Asked, Running, ServersAsConfigured, mcpVars, manager, processes, operation
    <2>3. UNCHANGED <<holder, todo>>
      BY <1>3 DEF mcpVars, operation
    <2> QED  BY <2>1, <2>2, <2>3, QuietInv
  <1>4. CASE HolderStep
    BY <1>1, <1>2, <1>4, AsideInv, DropServerInv, EnsureServerInv, PingInv, EnsureRestInv, ReconciledInv,
       UnregisterInv, RegisterInv
       DEF HolderStep
  <1>5. CASE McpNext /\ ~HolderStep
    BY <1>5, AsideInv, ReconcileInv, RestartCommandInv, RefreshInv DEF McpNext
  <1> QED  BY <1>3, <1>4, <1>5

\* Every reachable state satisfies the invariant.
LEMMA Invariant == McpSpec => []IInv
  BY InitInv, NextInv, PTL DEF McpSpec

\* The variables of McpServers keep their types.
THEOREM McpTypeCorrect == McpSpec => []McpTypeOK
  <1>1. IInv => McpTypeOK  BY DEF IInv
  <1> QED  BY <1>1, Invariant, PTL

\* Between reconciles every server runs as the manager's configuration says, whatever
\* restarts, crashes and edits there were (server_manager.rs, reconcile and restart_server).
THEOREM RunsAsConfigured == McpSpec => []ServersAsConfigured
  <1>1. IInv => ServersAsConfigured  BY DEF IInv
  <1> QED  BY <1>1, Invariant, PTL

\* The tools of a running server are registered with the client that runs it, through
\* restarts and refreshes (server_manager.rs, start_server and refresh_server_tools).
THEOREM ToolsFollowTheirServer == McpSpec => []ToolsReachTheirServer
  <1>1. IInv => ToolsReachTheirServer  BY DEF IInv
  <1> QED  BY <1>1, Invariant, PTL
=============================================================================
