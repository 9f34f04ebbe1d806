----------------------------- MODULE McpServers -----------------------------
(***************************************************************************)
(* The MCP servers (mcp/server_manager.rs, mcp/client.rs): child processes *)
(* that offer tools.  The manager starts them, stops those the             *)
(* configuration does not want any more, pings them and restarts those     *)
(* that stop answering; their tools are registered with a handler that     *)
(* holds the client.                                                       *)
(*                                                                         *)
(* The manager has one mutex, held through a whole operation; processes    *)
(* and the user's edits of the configuration go on meanwhile.  A command   *)
(* of the desktop that applies the configuration (commands.rs) reads it    *)
(* before it waits for the mutex.  JSON-RPC, the tools' parameters and     *)
(* risk levels and the reports are left out.                               *)
(***************************************************************************)
EXTENDS Naturals, FiniteSets

CONSTANTS
    Servers,
    Clients,      \* McpClient objects; one that nothing holds is used again
    NoClient,
    Launches,     \* what a configuration runs: command, arguments, trust level
    Off,          \* what a client without a process runs
    Tools,
    MaxPings,     \* MAX_PING_FAILURES, 3 in the code
    MaxFaults,    \* bound on processes that die, hang or do not start
    MaxEdits      \* bound on edits, reconcile and restart commands

ASSUME McpConstants ==
    /\ NoClient \notin Clients /\ Off \notin Launches
    /\ MaxPings \in Nat \ {0} /\ MaxFaults \in Nat /\ MaxEdits \in Nat

VARIABLES
    file,       \* state.config.mcp.servers
    configs,    \* the manager's
    clients,    \* the client of each server that was started
    pings,      \* ping_failures
    handlers,   \* the tool registry: the client behind each server's tools
    launch,     \* what a client's process was started with
    offers,     \* the tools it advertised
    proc,       \* the process: none, up, mute, dead
    holder,     \* the operation that holds the mutex
    todo,       \* the servers its present loop has still to look at
    want,       \* desired_configs of a reconcile
    waiting,    \* the configurations read by commands that wait for the mutex
    faults, edits

Settings  == [launch : Launches, on : BOOLEAN]  \* a server without any is one that is off
Configs   == [Servers -> Settings]
processes == <<launch, offers, proc>>
operation == <<holder, todo, want>>
manager   == <<configs, clients, pings>>
mcpVars   == <<file, manager, handlers, processes, operation, waiting, faults, edits>>

McpTypeOK ==
    /\ file \in Configs /\ configs \in Configs /\ want \in Configs
    /\ waiting \subseteq Configs
    /\ clients \in [Servers -> Clients \cup {NoClient}]
    /\ pings \in [Servers -> 0..MaxPings]
    /\ handlers \in [Servers -> [Tools -> Clients \cup {NoClient}]]
    /\ launch \in [Clients -> Launches \cup {Off}]
    /\ offers \in [Clients -> SUBSET Tools]
    /\ proc \in [Clients -> {"none", "up", "mute", "dead"}]
    /\ holder \in {"nobody", "boot", "drop", "ensure", "health", "restart", "refresh", "register"}
    /\ todo \subseteq Servers
    /\ faults \in 0..MaxFaults /\ edits \in 0..MaxEdits

McpInit ==
    /\ file \in Configs /\ configs = file /\ want = file
    /\ waiting = {} /\ faults = 0 /\ edits = 0
    /\ clients = [s \in Servers |-> NoClient]
    /\ pings = [s \in Servers |-> 0]
    /\ handlers = [s \in Servers |-> [t \in Tools |-> NoClient]]
    /\ launch = [c \in Clients |-> Off]
    /\ offers = [c \in Clients |-> {}]
    /\ proc = [c \in Clients |-> "none"]
    /\ holder = "boot" /\ todo = {s \in Servers : file[s].on}

Fault == faults < MaxFaults /\ faults' = faults + 1
Edit  == edits < MaxEdits /\ edits' = edits + 1

\* Nothing holds the client: neither the manager nor a handler.
Unused(c) ==
    /\ proc[c] = "none"
    /\ \A s \in Servers : clients[s] # c /\ \A t \in Tools : handlers[s][t] # c

-----------------------------------------------------------------------------
\* McpClient::stop: the process is gone, by itself or killed.
StopServer(s) ==
    /\ proc' = [proc EXCEPT ![clients[s]] = "none"]
    /\ launch' = [launch EXCEPT ![clients[s]] = Off]
    /\ offers' = [offers EXCEPT ![clients[s]] = {}]
    /\ clients' = [clients EXCEPT ![s] = NoClient]

\* start_server: a new client starts the process and asks for its tools, which are
\* registered over the server's old ones; an old tool it does not offer stays.  A client
\* that fails is dropped and takes its process along.
StartServer(s, l) ==
    \/ \E c \in {d \in Clients : Unused(d)}, ts \in SUBSET Tools :
          /\ clients' = [clients EXCEPT ![s] = c]
          /\ proc' = [proc EXCEPT ![c] = "up"]
          /\ launch' = [launch EXCEPT ![c] = l]
          /\ offers' = [offers EXCEPT ![c] = ts]
          /\ handlers' = [handlers EXCEPT ![s] = [t \in Tools |-> IF t \in ts THEN c ELSE @[t]]]
          /\ UNCHANGED faults
    \/ Fault /\ UNCHANGED <<clients, handlers, processes>>

Looked(s) == todo' = todo \ {s}

\* start_all, at the start of the program; a server that fails twice is left out.
Boot(s) ==
    /\ holder = "boot" /\ s \in todo
    /\ StartServer(s, configs[s].launch)
    /\ Looked(s)
    /\ UNCHANGED <<file, configs, pings, holder, want, waiting, edits>>

\* reconcile: running servers that should not run are stopped first.
Reconcile(w) ==
    /\ holder = "nobody"
    /\ waiting' = waiting \ {w} /\ want' = w
    /\ holder' = "drop"
    /\ todo' = {s \in Servers : clients[s] # NoClient /\ ~w[s].on}
    /\ UNCHANGED <<file, manager, handlers, processes, faults, edits>>

DropServer(s) ==
    /\ holder = "drop" /\ s \in todo
    /\ StopServer(s)
    /\ pings' = [pings EXCEPT ![s] = 0]
    /\ Looked(s)
    /\ UNCHANGED <<file, configs, handlers, holder, want, waiting, faults, edits>>

EnsureRest ==
    /\ holder = "drop" /\ todo = {}
    /\ holder' = "ensure"
    /\ todo' = {s \in Servers : want[s].on}
    /\ UNCHANGED <<file, manager, handlers, processes, want, waiting, faults, edits>>

\* Those wanted are started; one that runs with another configuration is stopped, and
\* then it is one to be started.
EnsureServer(s) ==
    /\ holder = "ensure" /\ s \in todo
    /\ \/ clients[s] = NoClient /\ StartServer(s, want[s].launch) /\ Looked(s)
       \/ clients[s] # NoClient /\ configs[s].launch # want[s].launch
          /\ StopServer(s) /\ UNCHANGED <<handlers, faults, todo>>
       \/ clients[s] # NoClient /\ configs[s].launch = want[s].launch
          /\ Looked(s) /\ UNCHANGED <<clients, handlers, processes, faults>>
    /\ UNCHANGED <<file, configs, pings, holder, want, waiting, edits>>

\* A plausible slip: the new configuration is not kept.
ReconciledForgetting ==
    /\ holder = "ensure" /\ todo = {}
    /\ holder' = "nobody"
    /\ UNCHANGED <<file, manager, handlers, processes, todo, want, waiting, faults, edits>>

Reconciled ==
    /\ holder = "ensure" /\ todo = {}
    /\ configs' = want
    /\ holder' = "nobody"
    /\ UNCHANGED <<file, clients, pings, handlers, processes, todo, want, waiting, faults, edits>>

-----------------------------------------------------------------------------
\* The heartbeat looks at every client once.
HealthCycle ==
    /\ holder = "nobody"
    /\ holder' = "health"
    /\ todo' = {s \in Servers : clients[s] # NoClient}
    /\ UNCHANGED <<file, manager, handlers, processes, want, waiting, faults, edits>>

Pinged(s, failures) ==
    /\ holder = "health" /\ s \in todo /\ clients[s] # NoClient
    /\ \/ /\ proc[clients[s]] = "up"
          /\ pings' = [pings EXCEPT ![s] = 0] /\ Looked(s)
          /\ UNCHANGED <<clients, processes>>
       \/ /\ proc[clients[s]] # "up" /\ failures < MaxPings
          /\ pings' = [pings EXCEPT ![s] = failures] /\ Looked(s)
          /\ UNCHANGED <<clients, processes>>
       \/ /\ proc[clients[s]] # "up" /\ failures >= MaxPings
          /\ pings' = [pings EXCEPT ![s] = 0] /\ UNCHANGED todo
          /\ StopServer(s)
    /\ UNCHANGED <<file, configs, handlers, holder, want, waiting, faults, edits>>

\* A plausible slip: every cycle counts anew.
PingAnew(s) == Pinged(s, 1)

\* An answer clears the count of failures; too many in a row, and the server is stopped.
Ping(s) == Pinged(s, pings[s] + 1)

\* restart_server, the second half: the server is started as it is configured.
Restart(s) ==
    /\ holder \in {"health", "restart"} /\ s \in todo /\ clients[s] = NoClient
    /\ StartServer(s, configs[s].launch)
    /\ Looked(s)
    /\ UNCHANGED <<file, configs, pings, holder, want, waiting, edits>>

\* The same by command, of any server that is configured, also of one that is off.
RestartCommand(s) ==
    /\ holder = "nobody" /\ Edit
    /\ holder' = "restart" /\ todo' = {s}
    /\ \/ clients[s] # NoClient /\ StopServer(s)
       \/ clients[s] = NoClient /\ UNCHANGED <<clients, processes>>
    /\ UNCHANGED <<file, configs, pings, handlers, want, waiting, faults>>

Unlock ==
    /\ holder \in {"boot", "health", "restart", "register"} /\ todo = {}
    /\ holder' = "nobody"
    /\ UNCHANGED <<file, manager, handlers, processes, todo, want, waiting, faults, edits>>

\* refresh_server_tools: the tools are asked for again and kept by the client; a request
\* that fails changes nothing.
Refresh(s, ts) ==
    /\ holder = "nobody" /\ clients[s] # NoClient /\ proc[clients[s]] = "up"
    /\ offers' = [offers EXCEPT ![clients[s]] = ts]
    /\ holder' = "refresh" /\ todo' = {s}
    /\ UNCHANGED <<file, manager, handlers, launch, proc, want, waiting, faults, edits>>

\* unregister_category: all tools of the server go, older ones too.
Unregister(s) ==
    /\ holder = "refresh" /\ s \in todo
    /\ handlers' = [handlers EXCEPT ![s] = [t \in Tools |-> NoClient]]
    /\ holder' = "register"
    /\ UNCHANGED <<file, manager, processes, todo, want, waiting, faults, edits>>

\* A plausible slip: the category is cleared once more, after the registration.
RegisterThenClear(s) ==
    /\ holder = "register" /\ s \in todo
    /\ handlers' = [handlers EXCEPT ![s] = [t \in Tools |-> NoClient]]
    /\ Looked(s)
    /\ UNCHANGED <<file, manager, processes, holder, want, waiting, faults, edits>>

\* register_mcp_tool, for each of the tools the client has now.
Register(s) ==
    /\ holder = "register" /\ s \in todo
    /\ handlers' = [handlers EXCEPT
          ![s] = [t \in Tools |-> IF t \in offers[clients[s]] THEN clients[s] ELSE @[t]]]
    /\ Looked(s)
    /\ UNCHANGED <<file, manager, processes, holder, want, waiting, faults, edits>>

-----------------------------------------------------------------------------
\* The user edits the configuration; a command reads it, to apply it later.
EditFile(s, c) ==
    /\ Edit /\ c # file[s]
    /\ file' = [file EXCEPT ![s] = c]
    /\ UNCHANGED <<manager, handlers, processes, operation, waiting, faults>>

AskReconcile ==
    /\ file \notin waiting /\ Edit
    /\ waiting' = waiting \cup {file}
    /\ UNCHANGED <<file, manager, handlers, processes, operation, faults>>

\* A process dies, or hangs and comes back.
ProcessFails(c) ==
    /\ \/ Fault /\ proc[c] = "up" /\ proc' = [proc EXCEPT ![c] = "mute"]
       \/ Fault /\ proc[c] \in {"up", "mute"} /\ proc' = [proc EXCEPT ![c] = "dead"]
       \/ proc[c] = "mute" /\ proc' = [proc EXCEPT ![c] = "up"] /\ UNCHANGED faults
    /\ UNCHANGED <<file, manager, handlers, launch, offers, operation, waiting, edits>>

-----------------------------------------------------------------------------
HolderStep ==
    \/ \E s \in Servers : Boot(s) \/ DropServer(s) \/ EnsureServer(s) \/ Ping(s) \/ Restart(s)
                        \/ Unregister(s) \/ Register(s)
    \/ EnsureRest \/ Reconciled \/ Unlock

McpNext ==
    \/ HolderStep \/ HealthCycle
    \/ \E w \in waiting : Reconcile(w)
    \/ AskReconcile
    \/ \E s \in Servers :
          \/ RestartCommand(s)
          \/ \E ts \in SUBSET Tools : Refresh(s, ts)
          \/ \E c \in Settings : EditFile(s, c)
    \/ \E c \in Clients : ProcessFails(c)

McpSpec == McpInit /\ [][McpNext]_mcpVars

\* A request times out, a start comes to an end, and the heartbeat goes on.
McpFairness == WF_mcpVars(HolderStep) /\ WF_mcpVars(HealthCycle)

McpFair == McpSpec /\ McpFairness

-----------------------------------------------------------------------------
\* A server runs as the manager's configuration says, so that the next reconcile sees
\* every difference there is.  (One that is off may run: a restart command starts it.)
ServersAsConfigured ==
    holder # "ensure" =>
        \A s \in Servers : clients[s] # NoClient => launch[clients[s]] = configs[s].launch

Refreshing(s) == holder \in {"refresh", "register"} /\ s \in todo

\* The tools a server offers are called on the process that runs now, and not on one that
\* was replaced, whatever restarts and refreshes lie between; only while a refresh of this
\* server takes its tools out and puts them in again may they be missing.
ToolsReachTheirServer ==
    \A s \in Servers : clients[s] # NoClient /\ ~Refreshing(s) =>
        \A t \in offers[clients[s]] : handlers[s][t] = clients[s]

\* "Health monitoring with auto-restart on crash" (server_manager.rs:7), as far as it
\* goes: a client whose process is dead does not stay in place.
DeadServersLeave ==
    \A s \in Servers : []<>(clients[s] # NoClient => proc[clients[s]] # "dead")
=============================================================================
