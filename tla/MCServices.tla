----------------------------- MODULE MCServices -----------------------------
(***************************************************************************)
(* The front ends and the services on small instances, side by side: the   *)
(* modules share no state, so a behaviour exercises one of them, chosen at *)
(* the start.                                                              *)
(***************************************************************************)
EXTENDS TurnConsumer, TelegramPoll, HitlGateway, LocalChat, McpServers, VoiceTurns,
        GpuWatchdog

VARIABLE focus

mcVars == <<consumerVars, telegramVars, gatewayVars, chatVars, mcpVars, voiceVars,
            watchdogVars, focus>>

MCInit ==
    /\ focus \in {"desktop", "telegram", "gateway", "chat", "mcp", "voice", "watchdog"}
    /\ ConsumerInit /\ TelegramInit /\ GatewayInit /\ ChatInit /\ VoiceInit
    /\ McpInit /\ (focus # "mcp" => \A s \in Servers : file[s] = CHOOSE c \in Settings : ~c.on)
    /\ WatchdogInit /\ (focus # "watchdog" => load = 0 /\ params = CpuOnly)

MCNext ==
    /\ UNCHANGED focus
    /\ \/ /\ focus = "desktop" /\ ConsumerNext
          /\ UNCHANGED <<telegramVars, gatewayVars, chatVars, mcpVars,
                        voiceVars, watchdogVars>>
       \/ /\ focus = "telegram" /\ TelegramNext
          /\ UNCHANGED <<consumerVars, gatewayVars, chatVars, mcpVars,
                        voiceVars, watchdogVars>>
       \/ /\ focus = "gateway" /\ GatewayNext
          /\ UNCHANGED <<consumerVars, telegramVars, chatVars, mcpVars,
                        voiceVars, watchdogVars>>
       \/ /\ focus = "chat" /\ ChatNext
          /\ UNCHANGED <<consumerVars, telegramVars, gatewayVars, mcpVars,
                        voiceVars, watchdogVars>>
       \/ /\ focus = "mcp" /\ McpNext
          /\ UNCHANGED <<consumerVars, telegramVars, gatewayVars, chatVars,
                        voiceVars, watchdogVars>>
       \/ /\ focus = "voice" /\ VoiceNext
          /\ UNCHANGED <<consumerVars, telegramVars, gatewayVars, chatVars,
                        mcpVars, watchdogVars>>
       \/ /\ focus = "watchdog" /\ WatchdogNext
          /\ UNCHANGED <<consumerVars, telegramVars, gatewayVars, chatVars,
                        mcpVars, voiceVars>>

\* The fairness of each module, for its own behaviours.
MCSpec ==
    /\ MCInit /\ [][MCNext]_mcVars
    /\ \A t \in Turns : WF_consumerVars(focus = "desktop" /\ Consume(t))
    /\ \A b \in Bots : WF_telegramVars(focus = "telegram" /\ BotStep(b))
    /\ WF_telegramVars(focus = "telegram" /\ Relaunch)
    /\ \A r \in Requests :
          WF_gatewayVars(focus = "gateway" /\ (Receive(r) \/ Elapse(r) \/ GiveUp(r)))
    /\ \A c \in Callers :
          /\ WF_chatVars(focus = "chat" /\ CallStep(c))
          /\ WF_chatVars(focus = "chat" /\ \E k \in {"chat", "stream"} : Ask(c, k))
    /\ WF_mcpVars(focus = "mcp" /\ HolderStep)
    /\ WF_mcpVars(focus = "mcp" /\ HealthCycle)
    /\ \A t \in VTurns :
          /\ WF_voiceVars(focus = "voice" /\ TurnStep(t))
          /\ WF_voiceVars(focus = "voice" /\ Drain(t))
    /\ WF_voiceVars(focus = "voice" /\ LoopStep)
    /\ WF_voiceVars(focus = "voice" /\ (AbortPlayback \/ AbortSleeps))
    /\ WF_watchdogVars(focus = "watchdog" /\ Poll)
    /\ \A b \in Buckets : WF_watchdogVars(focus = "watchdog" /\ Expire(b))

\* One change of the server per hour and bucket
MCPerHour == [b \in Buckets |-> 1]
=============================================================================
