---------------------------- MODULE SidecarBridge ----------------------------
(***************************************************************************)
(* The Python sidecar (sidecar/bridge.rs): one process that reads requests *)
(* line by line from its standard input and answers them one after the     *)
(* other on its standard output.  Callers enter their request in a map,    *)
(* write its line under the lock of stdin, and wait for the task that      *)
(* reads the answers to find them by their id.                             *)
(*                                                                         *)
(* A pipe holds only so much: a line that does not fit is written in part, *)
(* and the caller waits, with the lock, for room.  Callers give up after   *)
(* their time limit, or are dropped wherever they stand by a limit of      *)
(* their own.  A line has two pieces here, the second with the newline.    *)
(* The set-up of the Python environment, methods, parameters and the       *)
(* readiness flag, which nothing takes back, are left out.                 *)
(***************************************************************************)
EXTENDS Naturals, Sequences

CONSTANTS
    Askers,        \* callers of request; one that is done asks again
    NoAsker,
    Closer,        \* the one of them that is shutdown
    Room,          \* pieces the pipe holds
    MaxRequests    \* bound on next_id

ASSUME SidecarConstants ==
    Closer \in Askers /\ NoAsker \notin Askers /\ Room \in Nat \ {0, 1} /\ MaxRequests \in Nat

VARIABLES
    rat,       \* where each request stands
    id,        \* its id
    lastId,    \* the last id given out
    pending,   \* the ids in the map
    stdin,     \* whether the bridge has the pipe's end
    reader,    \* whether the task reads the answers
    writer,    \* who holds the lock of stdin
    pipe,      \* the pieces on their way to Python
    python,    \* the process
    line,      \* the pieces it has of a line
    busy,      \* the id of the request it works on, 0 without one
    answers,   \* the ids of the answers on their way back
    closing,   \* where shutdown stands
    torn,      \* history: the last line was left without its end by a dropped caller
    spoiled    \* history: the callers whose line began behind such a one

callers    == <<rat, id, lastId, pending>>
process    == <<python, line, busy, answers>>
channel    == <<stdin, reader, writer, pipe>>
bridgeVars == <<callers, channel, process, closing, torn, spoiled>>

Ids    == 1..MaxRequests
Piece  == Ids \X {"head", "tail"}

BridgeTypeOK ==
    /\ rat \in [Askers -> {"idle", "lock", "write", "rest", "wait"}]
    /\ id \in [Askers -> 0..MaxRequests] /\ lastId \in 0..MaxRequests
    /\ pending \subseteq Ids
    /\ {stdin, reader} \subseteq BOOLEAN /\ writer \in Askers \cup {NoAsker}
    /\ pipe \in Seq(Piece) /\ Len(pipe) <= Room
    /\ python \in {"none", "boot", "up", "dead"}
    /\ line \in Seq(Piece) /\ busy \in 0..MaxRequests /\ answers \in Seq(Ids)
    /\ closing \in {"no", "asks", "reaps", "done"}
    /\ torn \in BOOLEAN /\ spoiled \subseteq Askers

BridgeInit ==
    /\ rat = [c \in Askers |-> "idle"] /\ id = [c \in Askers |-> 0] /\ lastId = 0
    /\ pending = {}
    /\ stdin = FALSE /\ reader = FALSE /\ writer = NoAsker /\ pipe = <<>>
    /\ python = "none" /\ line = <<>> /\ busy = 0 /\ answers = <<>>
    /\ closing = "no" /\ torn = FALSE /\ spoiled = {}

Lives == python \in {"boot", "up"}
Moves(c, p) == rat' = [rat EXCEPT ![c] = p]

-----------------------------------------------------------------------------
\* spawn: the child and its pipes are stored, and a task reads its output.
SpawnPython ==
    /\ python = "none"
    /\ python' = "boot" /\ stdin' = TRUE /\ reader' = TRUE
    /\ UNCHANGED <<callers, writer, pipe, line, busy, answers, closing, torn, spoiled>>

\* A request gets its id and enters the map.  The shutdown asks once.
AskPython(c) ==
    /\ rat[c] = "idle" /\ lastId < MaxRequests
    /\ IF c = Closer THEN closing = "no" /\ closing' = "asks" ELSE UNCHANGED closing
    /\ lastId' = lastId + 1
    /\ id' = [id EXCEPT ![c] = lastId']
    /\ pending' = pending \cup {lastId'}
    /\ Moves(c, "lock") /\ spoiled' = spoiled \ {c}
    /\ UNCHANGED <<channel, process, torn>>

NoStdin(c) ==
    /\ rat[c] = "lock" /\ writer = NoAsker /\ ~stdin
    /\ pending' = pending \ {id[c]}
    /\ Moves(c, "idle")
    /\ UNCHANGED <<id, lastId, channel, process, closing, torn, spoiled>>

\* A plausible slip: the lock is not kept over the whole line.
TakeStdinShared(c) ==
    /\ rat[c] = "lock" /\ stdin
    /\ Moves(c, "write")
    /\ UNCHANGED <<id, lastId, pending, channel, process, closing, torn, spoiled>>

TakeStdin(c) ==
    /\ rat[c] = "lock" /\ writer = NoAsker /\ stdin
    /\ writer' = c
    /\ Moves(c, "write")
    /\ UNCHANGED <<id, lastId, pending, stdin, reader, pipe, process, closing, torn, spoiled>>

Begins(c) == spoiled' = (IF torn THEN spoiled \cup {c} ELSE spoiled)

\* write_all: the whole line, or what there is room for.
WriteLine(c) ==
    /\ rat[c] = "write" /\ Lives /\ Len(pipe) + 2 <= Room
    /\ pipe' = Append(Append(pipe, <<id[c], "head">>), <<id[c], "tail">>)
    /\ Moves(c, "wait") /\ writer' = NoAsker
    /\ Begins(c) /\ torn' = FALSE
    /\ UNCHANGED <<id, lastId, pending, stdin, reader, process, closing>>

WritePart(c) ==
    /\ rat[c] = "write" /\ Lives /\ Len(pipe) + 1 = Room
    /\ pipe' = Append(pipe, <<id[c], "head">>)
    /\ Moves(c, "rest")
    /\ Begins(c)
    /\ UNCHANGED <<id, lastId, pending, stdin, reader, writer, process, closing, torn>>

WriteRest(c) ==
    /\ rat[c] = "rest" /\ Lives /\ Len(pipe) < Room
    /\ pipe' = Append(pipe, <<id[c], "tail">>)
    /\ Moves(c, "wait") /\ writer' = NoAsker
    /\ torn' = FALSE
    /\ UNCHANGED <<id, lastId, pending, stdin, reader, process, closing, spoiled>>

\* The process is gone: the error leaves the entry in the map.
WriteFails(c) ==
    /\ rat[c] \in {"write", "rest"} /\ ~Lives
    /\ Moves(c, "idle") /\ writer' = NoAsker
    /\ UNCHANGED <<id, lastId, pending, stdin, reader, pipe, process, closing, torn, spoiled>>

\* The limit of 120 s, which leaves the entry as well.
NoAnswer(c) ==
    /\ rat[c] = "wait"
    /\ Moves(c, "idle")
    /\ UNCHANGED <<id, lastId, pending, channel, process, closing, torn, spoiled>>

\* The caller's own limit drops the request, the lock with it, wherever it stands.
RequestDropped(c) ==
    /\ rat[c] # "idle" /\ c # Closer
    /\ Moves(c, "idle")
    /\ writer' = (IF writer = c THEN NoAsker ELSE writer)
    /\ torn' = (torn \/ rat[c] = "rest")
    /\ UNCHANGED <<id, lastId, pending, stdin, reader, pipe, process, closing, spoiled>>

\* The reading task: the answer goes to whoever waits for its id.
Deliver ==
    /\ reader /\ answers # <<>>
    /\ answers' = Tail(answers)
    /\ pending' = pending \ {Head(answers)}
    /\ rat' = [c \in Askers |-> IF rat[c] = "wait" /\ id[c] = Head(answers)
                                THEN "idle" ELSE rat[c]]
    /\ UNCHANGED <<id, lastId, channel, python, line, busy, closing, torn, spoiled>>

-----------------------------------------------------------------------------
\* shutdown: its request is over; stdin is closed, the process waited for or killed, and
\* the reading task stopped.
CloseStdin ==
    /\ closing = "asks" /\ rat[Closer] = "idle" /\ writer = NoAsker
    /\ stdin' = FALSE
    /\ closing' = "reaps"
    /\ UNCHANGED <<callers, reader, writer, pipe, process, torn, spoiled>>

Ended == python' = "dead" /\ line' = <<>> /\ busy' = 0

Reap ==
    /\ closing = "reaps"
    /\ IF Lives THEN Ended /\ pipe' = <<>> ELSE UNCHANGED <<python, line, busy, pipe>>
    /\ reader' = FALSE
    /\ closing' = "done"
    /\ UNCHANGED <<callers, stdin, writer, answers, torn, spoiled>>

-----------------------------------------------------------------------------
\* External: the Python process (kria_modules.bridge).
Ready ==
    /\ python = "boot"
    /\ python' = "up"
    /\ UNCHANGED <<callers, channel, line, busy, answers, closing, torn, spoiled>>

\* A line that is no request is answered without an id, which nobody waits for.
Read ==
    /\ python = "up" /\ busy = 0 /\ pipe # <<>>
    /\ pipe' = Tail(pipe)
    /\ LET piece == Head(pipe)
       IN  \/ /\ piece[2] = "head"
              /\ line' = Append(line, piece) /\ UNCHANGED busy
           \/ /\ piece[2] = "tail"
              /\ line' = <<>>
              /\ busy' = (IF line = <<<<piece[1], "head">>>> THEN piece[1] ELSE 0)
    /\ UNCHANGED <<callers, stdin, reader, writer, python, answers, closing, torn, spoiled>>

\* Having answered the shutdown's request it ends.
Respond ==
    /\ python = "up" /\ busy # 0
    /\ answers' = Append(answers, busy)
    /\ \/ busy # id[Closer] /\ busy' = 0 /\ UNCHANGED <<python, line, pipe>>
       \/ busy = id[Closer] /\ Ended /\ pipe' = <<>>
    /\ UNCHANGED <<callers, stdin, reader, writer, closing, torn, spoiled>>

\* It fails, or its input has come to its end.
PythonEnds ==
    /\ Lives
    /\ Ended /\ pipe' = <<>>
    /\ UNCHANGED <<callers, stdin, reader, writer, answers, closing, torn, spoiled>>

-----------------------------------------------------------------------------
BridgeNext ==
    \/ SpawnPython \/ Deliver \/ CloseStdin \/ Reap
    \/ \E c \in Askers :
          \/ AskPython(c) \/ NoStdin(c) \/ TakeStdin(c)
          \/ WriteLine(c) \/ WritePart(c) \/ WriteRest(c) \/ WriteFails(c)
          \/ NoAnswer(c) \/ RequestDropped(c)
    \/ Ready \/ Read \/ Respond \/ PythonEnds

BridgeSpec == BridgeInit /\ [][BridgeNext]_bridgeVars

-----------------------------------------------------------------------------
\* No request is swallowed: while Python lives, what a caller waits for is on its way to
\* it, being worked on, or on its way back, whatever other callers do with the pipe; only
\* behind a line that a dropped caller has left without its end is it lost.
RequestsInTransit ==
    \A c \in Askers : rat[c] = "wait" /\ Lives /\ c \notin spoiled =>
        \/ <<id[c], "tail">> \in {pipe[i] : i \in DOMAIN pipe}
        \/ busy = id[c]
        \/ id[c] \in {answers[i] : i \in DOMAIN answers}
=============================================================================
