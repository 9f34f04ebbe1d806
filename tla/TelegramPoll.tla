---------------------------- MODULE TelegramPoll ----------------------------
(***************************************************************************)
(* The Telegram bridge (platform/telegram.rs) with the commands that start *)
(* and stop it (commands.rs): a polling loop asks the Bot API for updates, *)
(* handles them one after the other, each by a turn of the agent, and      *)
(* answers the approvals its own turns ask for.                            *)
(*                                                                         *)
(* Nothing of the loop is on disk: where it stands is last_update_id, and  *)
(* the server's record of it is the offset of the next request, which      *)
(* confirms all updates below.  Starting the bridge again replaces the     *)
(* old loop, which is only told to stop and goes on with its batch.  A     *)
(* panic (slicing a text inside a character) ends the loop, and with the   *)
(* release profile, whose panic is an abort, the program.                  *)
(***************************************************************************)
EXTENDS Naturals, Sequences, FiniteSets

CONSTANTS
    Bots,       \* polling loops; one that has ended is used again
    NoBot,
    MaxUpdates, \* bound on the messages users send
    Limit,      \* the "limit" of a request, 10 in the code
    Tries,      \* how often respond is tried, 20 in the code
    MaxUpsets,  \* bound on commands, failed requests and crashes
    Kinds       \* what a message may be: "ask", "aside", "poison"

ASSUME TelegramConstants ==
    /\ NoBot \notin Bots
    /\ MaxUpdates \in Nat /\ Limit \in Nat \ {0} /\ Tries \in Nat \ {0} /\ MaxUpsets \in Nat
    /\ Kinds \subseteq {"ask", "aside", "poison"}

VARIABLES
    sent,       \* the kinds of the updates so far; its indices are the update ids
    confirmed,  \* the server forgets every update up to this one
    bridge,     \* the loop in state.telegram_bridge
    bat,        \* where each loop stands
    bidden,     \* the loops told to stop
    last,       \* last_update_id
    batch,      \* the updates of the reply not yet taken
    asks,       \* the approval its turn waits for
    tried,      \* the answers tried in vain
    upsets,
    repeated,   \* history: some loop took an update again, or one before it
    served      \* history: the updates answered, refused or passed over

loops        == <<bat, last, batch, asks, tried, repeated>>
telegramVars == <<sent, confirmed, bridge, bidden, upsets, served, loops>>

Updates == 1..MaxUpdates
Greater(a, b) == IF a < b THEN b ELSE a
Lesser(a, b)  == IF a < b THEN a ELSE b

TelegramTypeOK ==
    /\ sent \in Seq(Kinds) /\ Len(sent) <= MaxUpdates
    /\ confirmed \in 0..MaxUpdates
    /\ bridge \in Bots \cup {NoBot}
    /\ bat \in [Bots -> {"off", "verify", "poll", "wait", "pause", "batch", "turn"}]
    /\ bidden \subseteq Bots
    /\ last \in [Bots -> 0..MaxUpdates]
    /\ batch \in [Bots -> Seq(Updates)]
    /\ asks \in [Bots -> {"no", "announced", "pending", "answered"}]
    /\ tried \in [Bots -> 0..Tries]
    /\ upsets \in 0..MaxUpsets
    /\ repeated \in BOOLEAN
    /\ served \subseteq Updates

TelegramInit ==
    /\ sent = <<>> /\ confirmed = 0
    /\ bridge = NoBot /\ bidden = {} /\ upsets = 0
    /\ bat = [b \in Bots |-> "off"]
    /\ last = [b \in Bots |-> 0]
    /\ batch = [b \in Bots |-> <<>>]
    /\ asks = [b \in Bots |-> "no"]
    /\ tried = [b \in Bots |-> 0]
    /\ repeated = FALSE /\ served = {}

At(b, p) == bat' = [bat EXCEPT ![b] = p]
Upset    == upsets < MaxUpsets /\ upsets' = upsets + 1
Alive(b) == b # NoBot /\ bat[b] # "off"

-----------------------------------------------------------------------------
\* A user writes to the bot.
Write(k) ==
    /\ Len(sent) < MaxUpdates
    /\ sent' = Append(sent, k)
    /\ UNCHANGED <<confirmed, bridge, bidden, upsets, served, loops>>

\* TelegramBridge::spawn, at the start of the program or by start_telegram_mcp, which
\* tells the loop it replaces to stop and does not wait for it.
SpawnAt(b, offset) ==
    /\ bat[b] = "off"
    /\ IF Alive(bridge) THEN Upset ELSE UNCHANGED upsets
    /\ bidden' = (bidden \cup {bridge}) \ {b, NoBot}
    /\ bridge' = b
    /\ At(b, "verify")
    /\ last' = [last EXCEPT ![b] = offset]
    /\ UNCHANGED <<sent, confirmed, served, batch, asks, tried, repeated>>

\* A plausible slip: a new loop resumes behind the last update any loop has taken.
SpawnResuming(b) ==
    SpawnAt(b, CHOOSE n \in {last[c] : c \in Bots} : \A c \in Bots : last[c] <= n)

Spawn(b) == SpawnAt(b, 0)

\* stop_telegram_mcp and the end of the program's runtime: the loop is told to stop.
StopBridge ==
    /\ bridge # NoBot /\ Upset
    /\ bidden' = bidden \cup {bridge}
    /\ bridge' = NoBot
    /\ UNCHANGED <<sent, confirmed, served, loops>>

\* Every loop is gone, whatever it was doing.
AllGone ==
    /\ bridge' = NoBot /\ bidden' = {}
    /\ bat' = [b \in Bots |-> "off"]
    /\ batch' = [b \in Bots |-> <<>>]
    /\ asks' = [b \in Bots |-> "no"]
    /\ tried' = [b \in Bots |-> 0]

\* The program dies.
Dies == Upset /\ AllGone /\ UNCHANGED <<sent, confirmed, served, last, repeated>>

-----------------------------------------------------------------------------
\* verify_bot_token, once; without an answer the loop never starts.
Verify(b) ==
    /\ bat[b] = "verify"
    /\ \/ At(b, "poll") /\ UNCHANGED upsets
       \/ Upset /\ At(b, "off")
    /\ UNCHANGED <<sent, confirmed, bridge, bidden, served, last, batch, asks, tried, repeated>>

\* A loop told to stop notices between two batches, during a poll or a backoff.
NoticeStop(b) ==
    /\ b \in bidden /\ bat[b] \in {"poll", "wait", "pause"}
    /\ At(b, "off")
    /\ UNCHANGED <<sent, confirmed, bridge, bidden, upsets, served, last, batch, asks, tried,
                   repeated>>

\* getUpdates reaches the server, which forgets all updates below the offset.
RequestFrom(b, offset) ==
    /\ bat[b] = "poll" /\ b \notin bidden
    /\ confirmed' = Greater(confirmed, offset - 1)
    /\ At(b, "wait")
    /\ UNCHANGED <<sent, bridge, bidden, upsets, served, last, batch, asks, tried, repeated>>

\* A plausible slip: the offset names the last update and not the one behind it.
RequestSame(b) == RequestFrom(b, Greater(last[b], 1))

Request(b) == RequestFrom(b, last[b] + 1)

\* Its answer: the oldest updates the server still has, or none when the poll is over.
Reply(b) ==
    /\ bat[b] = "wait"
    /\ LET n == Lesser(Limit, Len(sent) - confirmed)
       IN /\ batch' = [batch EXCEPT ![b] = [i \in 1..n |-> confirmed + i]]
          /\ At(b, IF n = 0 THEN "poll" ELSE "batch")
    /\ UNCHANGED <<sent, confirmed, bridge, bidden, upsets, served, last, asks, tried, repeated>>

\* Another loop polls too, and the server refuses; or the request fails.
Refused(b) ==
    /\ bat[b] = "wait"
    /\ \/ \E c \in Bots \ {b} : bat[c] = "wait" /\ UNCHANGED upsets
       \/ Upset
    /\ At(b, "pause")
    /\ UNCHANGED <<sent, confirmed, bridge, bidden, served, last, batch, asks, tried, repeated>>

EndPause(b) ==
    /\ bat[b] = "pause"
    /\ At(b, "poll")
    /\ UNCHANGED <<sent, confirmed, bridge, bidden, upsets, served, last, batch, asks, tried,
                   repeated>>

-----------------------------------------------------------------------------
\* The next update of the batch.
Takes(b, u) ==
    /\ bat[b] = "batch" /\ u = Head(batch[b])
    /\ last' = [last EXCEPT ![b] = u]
    /\ repeated' = (repeated \/ u <= last[b])

Onward(b, rest) == At(b, IF rest = <<>> THEN "poll" ELSE "batch")

\* No text, a chat that is not allowed, a command: answered or passed over at once.
TakeAside(b) ==
    LET u == Head(batch[b]) IN
    /\ Takes(b, u) /\ sent[u] = "aside"
    /\ served' = served \cup {u}
    /\ batch' = [batch EXCEPT ![b] = Tail(@)]
    /\ Onward(b, Tail(batch[b]))
    /\ UNCHANGED <<sent, confirmed, bridge, bidden, upsets, asks, tried>>

\* process_message: the turn of the agent begins.
TakeAsk(b) ==
    LET u == Head(batch[b]) IN
    /\ Takes(b, u) /\ sent[u] = "ask"
    /\ batch' = [batch EXCEPT ![b] = Tail(@)]
    /\ At(b, "turn")
    /\ UNCHANGED <<sent, confirmed, bridge, bidden, upsets, served, asks, tried>>

\* The log line slices the text at its 100th byte, which may be inside a character: the
\* loop's task ends (the bridge stays in place), or the whole program does.
TakePoison(b) ==
    LET u == Head(batch[b]) IN
    /\ Takes(b, u) /\ sent[u] = "poison"
    /\ \/ /\ At(b, "off")
          /\ batch' = [batch EXCEPT ![b] = <<>>]
          /\ UNCHANGED <<bridge, bidden, asks, tried>>
       \/ AllGone
    /\ UNCHANGED <<sent, confirmed, upsets, served>>

\* A RED call of the turn: the event goes out first, the entry of the gateway follows.
Announce(b) ==
    /\ bat[b] = "turn" /\ asks[b] = "no"
    /\ asks' = [asks EXCEPT ![b] = "announced"]
    /\ UNCHANGED <<sent, confirmed, bridge, bidden, upsets, served, bat, last, batch, tried,
                   repeated>>

Enter(b) ==
    /\ asks[b] = "announced"
    /\ asks' = [asks EXCEPT ![b] = "pending"]
    /\ UNCHANGED <<sent, confirmed, bridge, bidden, upsets, served, bat, last, batch, tried,
                   repeated>>

\* The bridge approves for an owner and denies for others: respond, tried again while
\* the gateway does not know the request.  The tries together (200 ms) are taken to
\* outlast the step between the event and the entry.
Confirm(b) ==
    /\ \/ asks[b] = "pending" /\ tried[b] < Tries
          /\ asks' = [asks EXCEPT ![b] = "answered"]
          /\ UNCHANGED tried
       \/ asks[b] = "announced" /\ tried[b] + 1 < Tries
          /\ tried' = [tried EXCEPT ![b] = @ + 1]
          /\ UNCHANGED asks
    /\ UNCHANGED <<sent, confirmed, bridge, bidden, upsets, served, bat, last, batch, repeated>>

\* The turn is over, or no model came up for it; what it said is sent.
TurnEnds(b) ==
    /\ bat[b] = "turn" /\ asks[b] \in {"no", "answered"}
    /\ served' = served \cup {last[b]}
    /\ asks' = [asks EXCEPT ![b] = "no"]
    /\ tried' = [tried EXCEPT ![b] = 0]
    /\ Onward(b, batch[b])
    /\ UNCHANGED <<sent, confirmed, bridge, bidden, upsets, last, batch, repeated>>

-----------------------------------------------------------------------------
BotStep(b) ==
    \/ Verify(b) \/ NoticeStop(b) \/ Request(b) \/ Reply(b) \/ Refused(b) \/ EndPause(b)
    \/ TakeAside(b) \/ TakeAsk(b) \/ TakePoison(b)
    \/ Announce(b) \/ Enter(b) \/ Confirm(b) \/ TurnEnds(b)

\* Somebody starts the bridge when none runs.
Relaunch == ~Alive(bridge) /\ \E b \in Bots : Spawn(b)

TelegramNext ==
    \/ \E k \in Kinds : Write(k)
    \/ \E b \in Bots : Spawn(b) \/ BotStep(b)
    \/ StopBridge \/ Dies

TelegramSpec == TelegramInit /\ [][TelegramNext]_telegramVars

\* The tasks run, the timers fire and the Bot API answers; the bridge does not stay off.
TelegramFairness ==
    /\ \A b \in Bots : WF_telegramVars(BotStep(b))
    /\ WF_telegramVars(Relaunch)

TelegramFair == TelegramSpec /\ TelegramFairness

-----------------------------------------------------------------------------
\* What the server has been told to forget has been served: no message is lost when the
\* program dies, is started again or runs two loops for a while.
NothingLost == \A u \in 1..confirmed : u \in served

\* A loop takes no update twice; only another loop, after a new start, may.
NoLoopRepeats == ~repeated

\* While the gateway holds a request of a Telegram turn, the bridge still means to
\* answer it: the answer does not run out before the request is there.
AnswerLands == \A b \in Bots : asks[b] = "pending" => tried[b] < Tries

\* The users' messages reach the agent in the end, through crashes, stops and failing
\* requests, as long as nothing before them brings the loop down ("polls for messages
\* and routes them through the agent loop", telegram.rs:1, has no such exception).
Sound(u) == u <= Len(sent) /\ \A i \in 1..u : sent[i] # "poison"
MessagesServed == []<>(\A u \in Updates : Sound(u) => u \in served)
=============================================================================
