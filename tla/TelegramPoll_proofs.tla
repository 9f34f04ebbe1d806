------------------------- MODULE TelegramPoll_proofs -------------------------
(***************************************************************************)
(* Type correctness and the three invariants of TelegramPoll, for every    *)
(* number of loops, updates, tries and failures.                           *)
(*                                                                         *)
(* NothingLost needs what a loop knows: it has seen to every update up to  *)
(* the last it took, but for the one its turn is about, so the offset of   *)
(* its next request confirms none that is open.  The updates it still has  *)
(* in hand follow on one another, and all before the first are seen to.    *)
(***************************************************************************)
EXTENDS TelegramPoll, SequenceTheorems, TLAPS

Done(b, u) == u \in served \/ (bat[b] = "turn" /\ u = last[b])

LoopOK(b) ==
    /\ bat[b] \notin {"batch", "turn"} => batch[b] = <<>>
    /\ bat[b] = "batch" => batch[b] # <<>>
    /\ bat[b] = "wait" => last[b] <= confirmed
    /\ bat[b] # "off" => \A u \in 1..last[b] : Done(b, u)
    /\ batch[b] # <<>> => /\ last[b] < batch[b][1]
                          /\ \A u \in 1..(batch[b][1] - 1) : Done(b, u)
    /\ \A i \in 1..Len(batch[b]) : /\ batch[b][i] = batch[b][1] + (i - 1)
                                   /\ batch[b][i] <= Len(sent)
    /\ last[b] <= Len(sent)
    /\ bat[b] = "turn" => last[b] # 0

Tireless == \A b \in Bots : asks[b] # "answered" => tried[b] < Tries

IInv == /\ TelegramTypeOK /\ confirmed <= Len(sent)
        /\ \A b \in Bots : LoopOK(b)
        /\ NothingLost /\ NoLoopRepeats /\ Tireless

\* A loop that does not move stays as it should be, whatever the server and others do.
LEMMA Bystander ==
    ASSUME TelegramTypeOK, NEW b \in Bots, LoopOK(b),
           bat'[b] = bat[b], batch'[b] = batch[b], last'[b] = last[b],
           confirmed' \in Nat, confirmed <= confirmed', served \subseteq served',
           Len(sent') \in Nat, Len(sent) <= Len(sent')
    PROVE  LoopOK(b)'
  <1>1. \A u : Done(b, u) => Done(b, u)'
    BY DEF Done
  <1>2. Len(batch[b]) \in Nat /\ last[b] \in Nat /\ confirmed \in Nat /\ Len(sent) \in Nat
    BY TelegramConstants DEF TelegramTypeOK
  <1>3. batch[b] # <<>> => batch[b][1] \in Nat
    BY TelegramConstants DEF TelegramTypeOK, Updates
  <1>4. (bat[b] # "off" => \A u \in 1..last[b] : Done(b, u))'
    BY <1>1 DEF LoopOK
  <1>5. (batch[b] # <<>> => /\ last[b] < batch[b][1]
                            /\ \A u \in 1..(batch[b][1] - 1) : Done(b, u))'
    BY <1>1 DEF LoopOK
  <1>6. (\A i \in 1..Len(batch[b]) : batch[b][i] = batch[b][1] + (i - 1) /\ batch[b][i] <= Len(sent))'
    <2> SUFFICES ASSUME NEW i \in 1..Len(batch[b])
                 PROVE  batch[b][i] = batch[b][1] + (i - 1) /\ batch[b][i] <= Len(sent')
      OBVIOUS
    <2>1. batch[b][i] \in Nat
      BY TelegramConstants DEF TelegramTypeOK, Updates
    <2> QED  BY <1>2, <2>1 DEF LoopOK
  <1>7. (/\ bat[b] \notin {"batch", "turn"} => batch[b] = <<>>
         /\ bat[b] = "batch" => batch[b] # <<>>
         /\ bat[b] = "wait" => last[b] <= confirmed
         /\ last[b] <= Len(sent)
         /\ bat[b] = "turn" => last[b] # 0)'
    BY <1>2 DEF LoopOK
  <1> QED  BY <1>4, <1>5, <1>6, <1>7 DEF LoopOK

\* Initially no loop runs.
LEMMA InitInv == TelegramInit => IInv
  <1> SUFFICES ASSUME TelegramInit PROVE IInv  OBVIOUS
  <1>1. TelegramTypeOK
    <2>1. <<>> \in Seq(Kinds) /\ <<>> \in Seq(Updates) /\ Len(<<>>) = 0
      OBVIOUS
    <2>2. batch \in [Bots -> Seq(Updates)] /\ sent \in Seq(Kinds)
      BY <2>1, Zenon DEF TelegramInit
    <2>3. Len(sent) = 0
      BY <2>1 DEF TelegramInit
    <2>4. /\ confirmed \in 0..MaxUpdates /\ bridge \in Bots \cup {NoBot} /\ bidden \subseteq Bots
          /\ bat \in [Bots -> {"off", "verify", "poll", "wait", "pause", "batch", "turn"}]
          /\ last \in [Bots -> 0..MaxUpdates] /\ tried \in [Bots -> 0..Tries]
          /\ asks \in [Bots -> {"no", "announced", "pending", "answered"}]
          /\ upsets \in 0..MaxUpsets /\ repeated \in BOOLEAN /\ served \subseteq Updates
      <3>1. 0 \in 0..MaxUpdates /\ 0 \in 0..Tries /\ 0 \in 0..MaxUpsets
        BY TelegramConstants
      <3> QED  BY <3>1, Zenon DEF TelegramInit
    <2> QED  BY <2>2, <2>3, <2>4, TelegramConstants DEF TelegramTypeOK
  <1>2. \A b \in Bots : LoopOK(b)
    <2> SUFFICES ASSUME NEW b \in Bots PROVE LoopOK(b)  OBVIOUS
    <2>1. bat[b] = "off" /\ batch[b] = <<>> /\ last[b] = 0 /\ Len(sent) = 0 /\ Len(batch[b]) = 0
      BY DEF TelegramInit
    <2> QED  BY <2>1 DEF LoopOK
  <1>3. confirmed <= Len(sent) /\ NothingLost /\ NoLoopRepeats /\ Tireless
    BY TelegramConstants DEF TelegramInit, NothingLost, NoLoopRepeats, Tireless
  <1> QED  BY <1>1, <1>2, <1>3 DEF IInv

\* A new message only makes the server's list longer.
LEMMA WriteInv == ASSUME IInv, NEW k \in Kinds, Write(k) PROVE IInv'
  <1>1. sent' \in Seq(Kinds) /\ Len(sent') = Len(sent) + 1 /\ Len(sent) \in Nat /\ Len(sent') <= MaxUpdates
    BY TelegramConstants DEF IInv, TelegramTypeOK, Write
  <1>2. TelegramTypeOK'
    BY <1>1 DEF IInv, TelegramTypeOK, Write, loops
  <1>3. \A b \in Bots : LoopOK(b)'
    BY <1>1, Bystander DEF IInv, TelegramTypeOK, Write, loops
  <1>4. (confirmed <= Len(sent) /\ NothingLost /\ NoLoopRepeats /\ Tireless)'
    BY <1>1 DEF IInv, TelegramTypeOK, Write, loops, NothingLost, NoLoopRepeats, Tireless
  <1> QED  BY <1>2, <1>3, <1>4 DEF IInv

\* A new loop starts from nothing.
LEMMA SpawnInv == ASSUME IInv, NEW b \in Bots, Spawn(b) PROVE IInv'
  <1>1. TelegramTypeOK'
    BY TelegramConstants DEF IInv, TelegramTypeOK, Spawn, SpawnAt, At, Upset
  <1>2. ASSUME NEW c \in Bots PROVE LoopOK(c)'
    <2>1. CASE c = b
      <3>1. /\ bat[b] = "off" /\ bat'[b] = "verify" /\ last'[b] = 0
            /\ batch'[b] = batch[b] /\ sent' = sent /\ Len(sent) \in Nat
        BY <2>1 DEF IInv, TelegramTypeOK, Spawn, SpawnAt, At
      <3>2. batch[b] = <<>> /\ Len(batch[b]) = 0
        BY <3>1 DEF IInv, LoopOK
      <3> QED  BY <2>1, <3>1, <3>2 DEF LoopOK
    <2>2. CASE c # b
      BY <2>2, Bystander DEF IInv, TelegramTypeOK, Spawn, SpawnAt, At
    <2> QED  BY <2>1, <2>2
  <1>3. (confirmed <= Len(sent) /\ NothingLost /\ NoLoopRepeats /\ Tireless)'
    BY DEF IInv, Spawn, SpawnAt, NothingLost, NoLoopRepeats, Tireless
  <1> QED  BY <1>1, <1>2, <1>3 DEF IInv

\* A stop only tells; a crash leaves no loop.
LEMMA StopBridgeInv == ASSUME IInv, StopBridge PROVE IInv'
  <1>1. TelegramTypeOK'
    BY TelegramConstants DEF IInv, TelegramTypeOK, StopBridge, Upset, loops
  <1>2. \A b \in Bots : LoopOK(b)'
    BY Bystander DEF IInv, TelegramTypeOK, StopBridge, loops
  <1>3. (confirmed <= Len(sent) /\ NothingLost /\ NoLoopRepeats /\ Tireless)'
    BY DEF IInv, StopBridge, loops, NothingLost, NoLoopRepeats, Tireless
  <1> QED  BY <1>1, <1>2, <1>3 DEF IInv

\* With every loop off nothing is in hand.
LEMMA AllGoneInv ==
    ASSUME IInv, AllGone, UNCHANGED <<sent, confirmed, served>>, last' \in [Bots -> 0..MaxUpdates],
           \A b \in Bots : last'[b] <= Len(sent), repeated' = FALSE, upsets' \in 0..MaxUpsets
    PROVE  IInv'
  <1>1. TelegramTypeOK'
    <2>1. <<>> \in Seq(Updates)
      OBVIOUS
    <2>2. batch' \in [Bots -> Seq(Updates)]
      BY <2>1, Zenon DEF AllGone
    <2>3. /\ bridge' \in Bots \cup {NoBot} /\ bidden' \subseteq Bots
          /\ bat' \in [Bots -> {"off", "verify", "poll", "wait", "pause", "batch", "turn"}]
          /\ tried' \in [Bots -> 0..Tries]
          /\ asks' \in [Bots -> {"no", "announced", "pending", "answered"}]
      BY TelegramConstants DEF AllGone
    <2> QED  BY <2>2, <2>3 DEF IInv, TelegramTypeOK
  <1>2. \A b \in Bots : LoopOK(b)'
    BY DEF IInv, LoopOK, AllGone
  <1>3. (confirmed <= Len(sent) /\ NothingLost /\ NoLoopRepeats /\ Tireless)'
    BY TelegramConstants DEF IInv, AllGone, NothingLost, NoLoopRepeats, Tireless
  <1> QED  BY <1>1, <1>2, <1>3 DEF IInv

\* The program dies with all its loops.
LEMMA DiesInv == ASSUME IInv, Dies PROVE IInv'
  <1>1. upsets' \in 0..MaxUpsets
    BY TelegramConstants DEF IInv, TelegramTypeOK, Dies, Upset
  <1> QED  BY <1>1, AllGoneInv DEF IInv, LoopOK, TelegramTypeOK, NoLoopRepeats, Dies

\* The steps of a loop before it has a batch, but for the request and the reply.
LEMMA AsideInv ==
    ASSUME IInv, NEW b \in Bots, Verify(b) \/ NoticeStop(b) \/ Refused(b) \/ EndPause(b)
    PROVE  IInv'
  <1>1. /\ bat[b] \in {"verify", "poll", "wait", "pause"} /\ bat' = [bat EXCEPT ![b] = bat'[b]]
        /\ bat'[b] \in {"off", "poll", "pause"} /\ upsets' \in 0..MaxUpsets
        /\ UNCHANGED <<sent, confirmed, bridge, bidden, served, last, batch, asks, tried, repeated>>
    BY TelegramConstants DEF IInv, TelegramTypeOK, Verify, NoticeStop, Refused, EndPause, At, Upset
  <1>2. TelegramTypeOK'
    BY <1>1 DEF IInv, TelegramTypeOK
  <1>3. ASSUME NEW c \in Bots PROVE LoopOK(c)'
    <2>1. CASE c = b
      <3>1. bat'[b] \in {"off", "poll", "pause"} /\ batch[b] = <<>> /\ Len(batch[b]) = 0
        BY <1>1 DEF IInv, LoopOK
      <3>2. \A u \in 1..last[b] : u \in served
        BY <1>1 DEF IInv, LoopOK, Done
      <3>3. last[b] <= Len(sent)
        BY DEF IInv, LoopOK
      <3> QED  BY <2>1, <3>1, <3>2, <3>3, <1>1 DEF LoopOK, Done
    <2>2. CASE c # b
      BY <2>2, <1>1, Bystander DEF IInv, TelegramTypeOK
    <2> QED  BY <2>1, <2>2
  <1>4. (confirmed <= Len(sent) /\ NothingLost /\ NoLoopRepeats /\ Tireless)'
    BY <1>1 DEF IInv, NothingLost, NoLoopRepeats, Tireless
  <1> QED  BY <1>2, <1>3, <1>4 DEF IInv

\* The offset of a request confirms only what the loop has seen to.
LEMMA RequestInv == ASSUME IInv, NEW b \in Bots, Request(b) PROVE IInv'
  <1>1. /\ bat[b] = "poll" /\ bat' = [bat EXCEPT ![b] = "wait"]
        /\ last[b] \in 0..MaxUpdates /\ confirmed \in 0..MaxUpdates /\ Len(sent) \in Nat
        /\ confirmed' = IF confirmed < last[b] THEN last[b] ELSE confirmed
        /\ UNCHANGED <<sent, bridge, bidden, upsets, served, last, batch, asks, tried, repeated>>
    BY TelegramConstants DEF IInv, TelegramTypeOK, Request, RequestFrom, Greater, At
  <1>2. TelegramTypeOK'
    BY <1>1 DEF IInv, TelegramTypeOK
  <1>3. ASSUME NEW c \in Bots PROVE LoopOK(c)'
    <2>1. CASE c = b
      <3>0. batch[b] = <<>> /\ Len(<<>>) = 0
        BY <1>1 DEF IInv, LoopOK
      <3>1. bat'[b] = "wait" /\ batch[b] = <<>> /\ Len(batch[b]) = 0
        BY <1>1, <3>0 DEF IInv, TelegramTypeOK
      <3>2. \A u \in 1..last[b] : u \in served
        BY <1>1 DEF IInv, LoopOK, Done
      <3>3. last[b] <= Len(sent) /\ last[b] <= confirmed'
        BY <1>1 DEF IInv, LoopOK
      <3> QED  BY <2>1, <3>1, <3>2, <3>3, <1>1 DEF LoopOK, Done
    <2>2. CASE c # b
      BY <2>2, <1>1, Bystander DEF IInv, TelegramTypeOK
    <2> QED  BY <2>1, <2>2
  <1>4. \A u \in 1..last[b] : u \in served
    BY <1>1 DEF IInv, LoopOK, Done
  <1>5. (confirmed <= Len(sent) /\ NothingLost /\ NoLoopRepeats /\ Tireless)'
    BY <1>1, <1>4 DEF IInv, LoopOK, NothingLost, NoLoopRepeats, Tireless
  <1> QED  BY <1>2, <1>3, <1>5 DEF IInv

\* The reply holds the updates that follow on the confirmed ones.
LEMMA ReplyInv == ASSUME IInv, NEW b \in Bots, Reply(b) PROVE IInv'
  <1> DEFINE n == Lesser(Limit, Len(sent) - confirmed)
             new == [i \in 1..n |-> confirmed + i]
  <1>1. /\ n \in Nat /\ confirmed + n <= Len(sent) /\ Len(sent) <= MaxUpdates
        /\ confirmed \in Nat /\ Len(sent) \in Nat /\ MaxUpdates \in Nat
    BY TelegramConstants DEF IInv, TelegramTypeOK, Lesser
  <1>2. /\ bat[b] = "wait" /\ batch' = [batch EXCEPT ![b] = new]
        /\ bat' = [bat EXCEPT ![b] = IF n = 0 THEN "poll" ELSE "batch"]
        /\ UNCHANGED <<sent, confirmed, bridge, bidden, upsets, served, last, asks, tried, repeated>>
    BY DEF Reply, At
  <1> HIDE DEF n
  <1>3. new \in Seq(Updates) /\ Len(new) = n /\ (n = 0 => new = <<>>) /\ (n # 0 => new # <<>>)
        /\ \A i \in 1..n : new[i] = confirmed + i
    BY <1>1 DEF Updates
  <1> HIDE DEF new
  <1>4. TelegramTypeOK'
    BY <1>2, <1>3 DEF IInv, TelegramTypeOK
  <1>5. ASSUME NEW c \in Bots PROVE LoopOK(c)'
    <2>1. CASE c = b
      <3>1. batch'[b] = new /\ last'[b] = last[b] /\ last[b] \in Nat
            /\ bat'[b] = IF n = 0 THEN "poll" ELSE "batch"
        BY <1>2 DEF IInv, TelegramTypeOK
      <3>2. last[b] <= confirmed /\ last[b] <= Len(sent) /\ \A u \in 1..last[b] : u \in served
        BY <1>2 DEF IInv, LoopOK, Done
      <3>3. \A u \in 1..confirmed : u \in served
        BY DEF IInv, NothingLost
      <3> QED  BY <2>1, <3>1, <3>2, <3>3, <1>1, <1>2, <1>3 DEF LoopOK, Done
    <2>2. CASE c # b
      BY <2>2, <1>1, <1>2, Bystander DEF IInv, TelegramTypeOK
    <2> QED  BY <2>1, <2>2
  <1>6. (confirmed <= Len(sent) /\ NothingLost /\ NoLoopRepeats /\ Tireless)'
    BY <1>2 DEF IInv, NothingLost, NoLoopRepeats, Tireless
  <1> QED  BY <1>4, <1>5, <1>6 DEF IInv

\* What a loop knows of the update it takes and of the rest of its batch.
LEMMA Taking ==
    ASSUME IInv, NEW b \in Bots, bat[b] = "batch"
    PROVE  /\ Head(batch[b]) \in Updates /\ last[b] < Head(batch[b]) /\ Head(batch[b]) <= Len(sent)
           /\ \A u \in 1..(Head(batch[b]) - 1) : u \in served
           /\ Tail(batch[b]) \in Seq(Updates)
           /\ \A i \in 1..Len(Tail(batch[b])) : /\ Tail(batch[b])[i] = Head(batch[b]) + i
                                                /\ Tail(batch[b])[i] <= Len(sent)
           /\ Tail(batch[b]) # <<>> => Len(Tail(batch[b])) >= 1
  <1>1. batch[b] \in Seq(Updates) /\ batch[b] # <<>> /\ Head(batch[b]) = batch[b][1]
    BY DEF IInv, TelegramTypeOK, LoopOK
  <1>2. Head(batch[b]) \in Updates /\ Updates \subseteq Nat
    BY <1>1, TelegramConstants DEF Updates
  <1>3. Len(Tail(batch[b])) = Len(batch[b]) - 1 /\ Tail(batch[b]) \in Seq(Updates) /\ Len(batch[b]) \in Nat
        /\ Len(batch[b]) >= 1
        /\ \A i \in 1..Len(Tail(batch[b])) : Tail(batch[b])[i] = batch[b][i + 1]
    BY <1>1
  <1>4. \A i \in 1..Len(batch[b]) : batch[b][i] = batch[b][1] + (i - 1) /\ batch[b][i] <= Len(sent)
    BY DEF IInv, LoopOK
  <1>5. last[b] < Head(batch[b]) /\ \A u \in 1..(Head(batch[b]) - 1) : u \in served
    BY <1>1 DEF IInv, LoopOK, Done
  <1>6. \A i \in 1..Len(Tail(batch[b])) : i + 1 \in 1..Len(batch[b]) /\ (i + 1) - 1 = i
    BY <1>3
  <1> QED  BY <1>1, <1>2, <1>3, <1>4, <1>5, <1>6

\* A loop that takes an update, and with it a step of a batch: what is left to show is
\* where it stands then and that what it leaves is seen to.
LEMMA TakenInv ==
    ASSUME IInv, NEW b \in Bots, NEW u, Takes(b, u), batch' = [batch EXCEPT ![b] = Tail(@)],
           bat' = [bat EXCEPT ![b] = bat'[b]],
           served \subseteq served', served' \subseteq Updates,
           \/ bat'[b] = "turn"
           \/ u \in served' /\ bat'[b] = IF Tail(batch[b]) = <<>> THEN "poll" ELSE "batch",
           UNCHANGED <<sent, confirmed, bridge, bidden, upsets, asks, tried>>
    PROVE  IInv'
  <1> DEFINE rest == Tail(batch[b])
  <1>1. /\ bat[b] = "batch" /\ u = Head(batch[b]) /\ last' = [last EXCEPT ![b] = u]
        /\ repeated' = (repeated \/ u <= last[b])
    BY DEF Takes
  <1>2. /\ u \in Updates /\ u \in Nat /\ last[b] \in Nat /\ last[b] < u /\ u <= Len(sent) /\ Len(sent) \in Nat /\ u # 0
        /\ \A v \in 1..(u - 1) : v \in served
        /\ rest \in Seq(Updates) /\ (rest # <<>> => Len(rest) >= 1)
        /\ \A i \in 1..Len(rest) : rest[i] = u + i /\ rest[i] <= Len(sent)
    <2>1. Updates \subseteq Nat \ {0} /\ last[b] \in Nat /\ Len(sent) \in Nat
      BY TelegramConstants DEF IInv, TelegramTypeOK, Updates
    <2> QED  BY <1>1, <2>1, Taking
  <1>3. /\ batch' = [batch EXCEPT ![b] = rest] /\ sent' = sent /\ confirmed' = confirmed /\ bridge' = bridge
        /\ bidden' = bidden /\ upsets' = upsets /\ asks' = asks /\ tried' = tried
    OBVIOUS
  <1> HIDE DEF rest
  <1>4. TelegramTypeOK'
    <2>1. bat' \in [Bots -> {"off", "verify", "poll", "wait", "pause", "batch", "turn"}]
      BY DEF IInv, TelegramTypeOK
    <2>2. last' \in [Bots -> 0..MaxUpdates]
      BY <1>1, <1>2, TelegramConstants DEF IInv, TelegramTypeOK, Updates
    <2>3. batch' \in [Bots -> Seq(Updates)]
      BY <1>2, <1>3 DEF IInv, TelegramTypeOK
    <2>4. repeated' \in BOOLEAN
      BY <1>1, <1>2 DEF IInv, NoLoopRepeats
    <2> QED  BY <2>1, <2>2, <2>3, <2>4 DEF IInv, TelegramTypeOK
  <1>5. ASSUME NEW c \in Bots PROVE LoopOK(c)'
    <2>1. CASE c = b
      <3>1. batch'[b] = rest /\ last'[b] = u
        BY <1>1, <1>3 DEF IInv, TelegramTypeOK
      <3>2. \A v \in 1..u : Done(b, v)'
        BY <1>2, <3>1 DEF Done
      <3>3. bat'[b] \notin {"batch", "turn"} => rest = <<>>
        BY DEF rest
      <3>4. bat'[b] = "batch" => rest # <<>>
        BY DEF rest
      <3>5. bat'[b] # "wait"
        OBVIOUS
      <3>6. rest # <<>> => rest[1] = u + 1 /\ u < rest[1] /\ (rest[1] - 1) = u
        BY <1>2
      <3>7. \A i \in 1..Len(rest) : rest[i] = rest[1] + (i - 1)
        BY <1>2
      <3> QED  BY <2>1, <3>1, <3>2, <3>3, <3>4, <3>5, <3>6, <3>7, <1>2 DEF LoopOK
    <2>2. CASE c # b
      <3>1. bat'[c] = bat[c] /\ batch'[c] = batch[c] /\ last'[c] = last[c]
        BY <2>2, <1>1, <1>3 DEF IInv, TelegramTypeOK
      <3>2. confirmed \in Nat
        BY TelegramConstants DEF IInv, TelegramTypeOK
      <3> QED  BY <3>1, <3>2, <1>2, <1>3, Bystander DEF IInv
    <2> QED  BY <2>1, <2>2
  <1>6. (confirmed <= Len(sent) /\ NothingLost /\ Tireless)'
    BY <1>3 DEF IInv, NothingLost, Tireless
  <1>7. NoLoopRepeats'
    <2>1. ~(u <= last[b])
      BY <1>2
    <2> QED  BY <1>1, <2>1, Zenon DEF IInv, NoLoopRepeats
  <1> QED  BY <1>4, <1>5, <1>6, <1>7 DEF IInv

\* An update that needs no turn
LEMMA TakeAsideInv == ASSUME IInv, NEW b \in Bots, TakeAside(b) PROVE IInv'
  <1>1. Head(batch[b]) \in Updates
    BY Taking DEF TakeAside, Takes
  <1>2. bat' = [bat EXCEPT ![b] = bat'[b]] /\ bat'[b] = IF Tail(batch[b]) = <<>> THEN "poll" ELSE "batch"
    BY DEF IInv, TelegramTypeOK, TakeAside, Onward, At
  <1> QED  BY <1>1, <1>2, TakenInv DEF IInv, TelegramTypeOK, TakeAside

\* An update that begins a turn
LEMMA TakeAskInv == ASSUME IInv, NEW b \in Bots, TakeAsk(b) PROVE IInv'
  <1>1. bat' = [bat EXCEPT ![b] = bat'[b]] /\ bat'[b] = "turn" /\ served' = served
    BY DEF IInv, TelegramTypeOK, TakeAsk, At
  <1> QED  BY <1>1, TakenInv DEF IInv, TelegramTypeOK, TakeAsk

\* An update that brings the loop down
LEMMA TakePoisonInv == ASSUME IInv, NEW b \in Bots, TakePoison(b) PROVE IInv'
  <1> DEFINE u == Head(batch[b])
  <1>1. /\ bat[b] = "batch" /\ last' = [last EXCEPT ![b] = u] /\ repeated' = (repeated \/ u <= last[b])
        /\ UNCHANGED <<sent, confirmed, upsets, served>>
    BY DEF TakePoison, Takes
  <1>2. /\ u \in Updates /\ u \in Nat /\ last[b] \in Nat /\ last[b] < u /\ u <= Len(sent) /\ Len(sent) \in Nat
    <2>1. Updates \subseteq Nat \ {0} /\ last[b] \in Nat /\ Len(sent) \in Nat
      BY TelegramConstants DEF IInv, TelegramTypeOK, Updates
    <2> QED  BY <1>1, <2>1, Taking
  <1> HIDE DEF u
  <1>3. repeated' = FALSE
    <2>1. ~(u <= last[b])
      BY <1>2
    <2> QED  BY <1>1, <2>1, Zenon DEF IInv, NoLoopRepeats
  <1>4. last' \in [Bots -> 0..MaxUpdates] /\ \A c \in Bots : last'[c] <= Len(sent)
    BY <1>1, <1>2, TelegramConstants DEF IInv, TelegramTypeOK, LoopOK, Updates
  <1>5. CASE AllGone
    BY <1>1, <1>3, <1>4, <1>5, AllGoneInv DEF IInv, TelegramTypeOK
  <1>6. CASE bat' = [bat EXCEPT ![b] = "off"] /\ batch' = [batch EXCEPT ![b] = <<>>]
             /\ UNCHANGED <<bridge, bidden, asks, tried>>
    <2>0. <<>> \in Seq(Updates) /\ Len(<<>>) = 0
      OBVIOUS
    <2>1. batch' \in [Bots -> Seq(Updates)] /\ batch'[b] = <<>> /\ bat'[b] = "off"
      BY <1>6, <2>0 DEF IInv, TelegramTypeOK
    <2>2. TelegramTypeOK'
      BY <1>1, <1>3, <1>4, <1>6, <2>1 DEF IInv, TelegramTypeOK
    <2>3. ASSUME NEW c \in Bots PROVE LoopOK(c)'
      <3>1. CASE c = b
        BY <3>1, <2>0, <2>1, <1>1, <1>4 DEF LoopOK
      <3>2. CASE c # b
        BY <3>2, <1>1, <1>2, <1>6, Bystander DEF IInv, TelegramTypeOK
      <3> QED  BY <3>1, <3>2
    <2>4. (confirmed <= Len(sent) /\ NothingLost /\ NoLoopRepeats /\ Tireless)'
      BY <1>1, <1>3, <1>6 DEF IInv, NothingLost, NoLoopRepeats, Tireless
    <2> QED  BY <2>2, <2>3, <2>4 DEF IInv
  <1> QED  BY <1>5, <1>6 DEF TakePoison, At

\* The approval of a turn: the tries do not run out before the entry is there.
LEMMA ApprovalInv == ASSUME IInv, NEW b \in Bots, Announce(b) \/ Enter(b) \/ Confirm(b) PROVE IInv'
  <1>1. UNCHANGED <<sent, confirmed, bridge, bidden, upsets, served, bat, last, batch, repeated>>
    BY DEF Announce, Enter, Confirm
  <1>a. Tries \in Nat \ {0} /\ tried \in [Bots -> 0..Tries]
        /\ asks \in [Bots -> {"no", "announced", "pending", "answered"}]
    BY TelegramConstants DEF IInv, TelegramTypeOK
  <1>b. /\ tried' \in [Bots -> 0..Tries] /\ asks' \in [Bots -> {"no", "announced", "pending", "answered"}]
        /\ Tireless'
    <2>1. CASE Announce(b)
      BY <2>1, <1>a DEF IInv, Tireless, Announce
    <2>2. CASE Enter(b)
      BY <2>2, <1>a DEF IInv, Tireless, Enter
    <2>3. CASE Confirm(b)
      BY <2>3, <1>a DEF IInv, Tireless, Confirm
    <2> QED  BY <2>1, <2>2, <2>3
  <1>2. TelegramTypeOK' /\ Tireless'
    BY <1>1, <1>b DEF IInv, TelegramTypeOK
  <1>3. \A c \in Bots : LoopOK(c)'
    BY <1>1, Bystander DEF IInv, TelegramTypeOK
  <1>4. (confirmed <= Len(sent) /\ NothingLost /\ NoLoopRepeats)'
    BY <1>1 DEF IInv, NothingLost, NoLoopRepeats
  <1> QED  BY <1>2, <1>3, <1>4 DEF IInv

\* The end of a turn serves its update.
LEMMA TurnEndsInv == ASSUME IInv, NEW b \in Bots, TurnEnds(b) PROVE IInv'
  <1>1. /\ bat[b] = "turn" /\ served' = served \cup {last[b]}
        /\ bat' = [bat EXCEPT ![b] = IF batch[b] = <<>> THEN "poll" ELSE "batch"]
        /\ asks' = [asks EXCEPT ![b] = "no"] /\ tried' = [tried EXCEPT ![b] = 0]
        /\ UNCHANGED <<sent, confirmed, bridge, bidden, upsets, last, batch, repeated>>
    BY DEF TurnEnds, Onward, At
  <1>2. last[b] \in Updates
    <2>1. last[b] \in 0..MaxUpdates
      BY DEF IInv, TelegramTypeOK
    <2>2. last[b] # 0
      BY <1>1 DEF IInv, LoopOK
    <2> QED  BY <2>1, <2>2, TelegramConstants DEF Updates
  <1>3. TelegramTypeOK' /\ Tireless'
    BY <1>1, <1>2, TelegramConstants DEF IInv, TelegramTypeOK, Tireless
  <1>4. ASSUME NEW c \in Bots PROVE LoopOK(c)'
    <2>1. CASE c = b
      <3>1. \A u : Done(b, u) => Done(b, u)'
        BY <1>1 DEF Done
      <3>2. bat'[b] = IF batch[b] = <<>> THEN "poll" ELSE "batch"
        BY <1>1 DEF IInv, TelegramTypeOK
      <3> QED  BY <2>1, <1>1, <3>1, <3>2 DEF IInv, LoopOK
    <2>2. CASE c # b
      BY <2>2, <1>1, Bystander DEF IInv, TelegramTypeOK
    <2> QED  BY <2>1, <2>2
  <1>5. (confirmed <= Len(sent) /\ NothingLost /\ NoLoopRepeats)'
    BY <1>1 DEF IInv, NothingLost, NoLoopRepeats
  <1> QED  BY <1>3, <1>4, <1>5 DEF IInv

\* Every step keeps the invariant.
LEMMA NextInv == IInv /\ [TelegramNext]_telegramVars => IInv'
  <1> SUFFICES ASSUME IInv, [TelegramNext]_telegramVars PROVE IInv'  OBVIOUS
  <1>1. CASE UNCHANGED telegramVars
    <2>1. TelegramTypeOK' /\ (confirmed <= Len(sent) /\ NothingLost /\ NoLoopRepeats /\ Tireless)'
      BY <1>1 DEF IInv, TelegramTypeOK, NothingLost, NoLoopRepeats, Tireless, telegramVars, loops
    <2>2. \A c \in Bots : LoopOK(c)'
      BY <1>1, Bystander DEF IInv, TelegramTypeOK, telegramVars, loops
    <2> QED  BY <2>1, <2>2 DEF IInv
  <1>2. ASSUME NEW b \in Bots, BotStep(b) PROVE IInv'
    BY <1>2, AsideInv, RequestInv, ReplyInv, TakeAsideInv, TakeAskInv, TakePoisonInv, ApprovalInv,
       TurnEndsInv DEF BotStep
  <1> QED  BY <1>1, <1>2, WriteInv, SpawnInv, StopBridgeInv, DiesInv DEF TelegramNext

\* Every reachable state satisfies the invariant.
LEMMA Invariant == TelegramSpec => []IInv
  BY InitInv, NextInv, PTL DEF TelegramSpec

\* The variables of TelegramPoll keep their types.
THEOREM TelegramTypeCorrect == TelegramSpec => []TelegramTypeOK
  <1>1. IInv => TelegramTypeOK  BY DEF IInv
  <1> QED  BY <1>1, Invariant, PTL

\* The bot's server is never told to forget a message that was not seen to, through any
\* number of crashes, restarts and loops (telegram.rs, last_update_id).
THEOREM NoMessageLost == TelegramSpec => []NothingLost
  <1>1. IInv => NothingLost  BY DEF IInv
  <1> QED  BY <1>1, Invariant, PTL

\* No loop takes an update a second time (telegram.rs, the offset of getUpdates).
THEOREM NoUpdateTwice == TelegramSpec => []NoLoopRepeats
  <1>1. IInv => NoLoopRepeats  BY DEF IInv
  <1> QED  BY <1>1, Invariant, PTL

\* The answers to an approval do not run out before the gateway knows the request
\* (telegram.rs, the retries of respond).
THEOREM AnswersLand == TelegramSpec => []AnswerLands
  <1>1. IInv => AnswerLands  BY DEF IInv, Tireless, AnswerLands
  <1> QED  BY <1>1, Invariant, PTL
=============================================================================
