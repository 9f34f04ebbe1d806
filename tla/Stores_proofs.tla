---------------------------- MODULE Stores_proofs ----------------------------
(***************************************************************************)
(* Theorems about ServerInstall, ComfySidecar, ImageSwap and               *)
(* SidecarBridge, for every value of their constants, each from an         *)
(* inductive invariant of its own (InstallInv, ComfyInv, SwapInv,          *)
(* BridgeInv).                                                             *)
(***************************************************************************)
EXTENDS ServerInstall, ComfySidecar, ImageSwap, SidecarBridge, SequenceTheorems, TLAPS

-----------------------------------------------------------------------------
(***************************************************************************)
(* ServerInstall.  What a response still holds continues what the partial  *)
(* file has: that makes PartIsPrefix inductive.                            *)
(***************************************************************************)
Continues ==
    /\ step # "body" => body = <<>>
    /\ step = "body" => /\ Len(part) + Len(body) = Blocks
                        /\ \A i \in 1..Len(body) : body[i][2] = Len(part) + i

InstallInv == InstallTypeOK /\ PartIsPrefix /\ Continues

\* What a server sends from the n-th block on
LEMMA FromIs ==
    ASSUME InstallTypeOK, NEW n \in 1..Blocks
    PROVE  /\ From(n) \in Seq(Block) /\ Len(From(n)) = Blocks - (n - 1)
           /\ \A i \in 1..Len(From(n)) : From(n)[i] = <<upstream, n + i - 1>>
  <1> DEFINE r == [i \in 1..Blocks |-> <<upstream, i>>]
  <1>1. Blocks \in Nat \ {0} /\ upstream \in 1..Releases
    BY InstallConstants DEF InstallTypeOK
  <1>2. r \in Seq(Block) /\ Len(r) = Blocks
    BY <1>1 DEF Block
  <1>3. From(n) = SubSeq(r, n, Blocks)
    BY DEF From, Release
  <1>4. \A i \in 1..Blocks : r[i] = <<upstream, i>>
    OBVIOUS
  <1> HIDE DEF r
  <1>5. /\ SubSeq(r, n, Blocks) \in Seq(Block) /\ Len(SubSeq(r, n, Blocks)) = Blocks - (n - 1)
        /\ \A i \in 1..(Blocks - (n - 1)) : SubSeq(r, n, Blocks)[i] = r[n + i - 1]
    BY <1>1, <1>2, SubSeqProperties
  <1>6. \A i \in 1..(Blocks - (n - 1)) : n + i - 1 \in 1..Blocks
    BY <1>1
  <1> QED  BY <1>3, <1>4, <1>5, <1>6

\* The empty sequence is a sequence of blocks.
LEMMA NoBlocks == <<>> \in Seq(Block) /\ Len(<<>>) = 0
  OBVIOUS

\* Initially nothing is on disk.
LEMMA InstallInitInv == InstallInit => InstallInv
  <1> SUFFICES ASSUME InstallInit PROVE InstallInv  OBVIOUS
  <1>1. /\ step = "idle" /\ body = <<>> /\ part = <<>> /\ archive = <<>> /\ tries = 0 /\ upstream = 1
        /\ binary = "none" /\ upset = FALSE /\ verdict = "none"
    BY DEF InstallInit
  <1>2. part \in Seq(Block) /\ archive \in Seq(Block) /\ body \in Seq(Block) /\ Len(part) = 0
    BY <1>1, NoBlocks
  <1>3. tries \in 0..MaxRetries /\ upstream \in 1..Releases
    BY <1>1, InstallConstants
  <1>4. InstallTypeOK
    BY <1>1, <1>2, <1>3 DEF InstallTypeOK
  <1>5. PartIsPrefix
    BY <1>2, InstallConstants DEF PartIsPrefix
  <1>6. Continues
    BY <1>1 DEF Continues
  <1> QED  BY <1>4, <1>5, <1>6 DEF InstallInv

\* Steps that leave the partial file alone and take the response away, or had none
LEMMA NoBodyInv ==
    ASSUME InstallInv, part' = part, body' = <<>>, step' # "body", InstallTypeOK'
    PROVE  InstallInv'
  BY DEF InstallInv, PartIsPrefix, Continues

\* Another attempt or the end of the call: what has arrived stays.
LEMMA TryAgainInv ==
    ASSUME InstallInv, TryAgain, UNCHANGED <<upstream, disk>>, upset' \in BOOLEAN
    PROVE  InstallInv'
  <1>1. body' = <<>> /\ step' \in {"ask", "idle"} /\ tries' \in 0..MaxRetries
        /\ verdict' \in {"none", "ok", "failed"}
    <2>1. tries \in 0..MaxRetries /\ MaxRetries \in Nat /\ verdict \in {"none", "ok", "failed"}
      BY InstallConstants DEF InstallInv, InstallTypeOK
    <2>2. CASE tries < MaxRetries /\ tries' = tries + 1 /\ body' = <<>> /\ step' = "ask" /\ UNCHANGED verdict
      BY <2>1, <2>2
    <2>3. CASE CallEnds("failed")
      BY <2>1, <2>3 DEF CallEnds
    <2> QED  BY <2>2, <2>3 DEF TryAgain
  <1>2. body' \in Seq(Block)
    BY <1>1, NoBlocks
  <1>3. InstallTypeOK'
    BY <1>1, <1>2 DEF InstallInv, InstallTypeOK, disk
  <1> QED  BY <1>1, <1>3, NoBodyInv DEF disk

\* The rest of the file is on its way.
LEMMA ResumeInv == ASSUME InstallInv, Resume PROVE InstallInv'
  <1>0. Len(part) + 1 \in 1..Blocks /\ Len(part) \in Nat /\ Blocks \in Nat
    BY InstallConstants DEF InstallInv, InstallTypeOK, Resume
  <1>1. /\ body' \in Seq(Block) /\ Len(body') = Blocks - Len(part)
        /\ \A i \in 1..Len(body') : body'[i] = <<upstream, Len(part) + i>>
    <2>1. PICK n \in 1..Blocks : n = Len(part) + 1 /\ body' = From(n)
      BY <1>0 DEF Resume
    <2>2. /\ body' \in Seq(Block) /\ Len(body') = Blocks - (n - 1)
          /\ \A i \in 1..Len(body') : body'[i] = <<upstream, n + i - 1>>
      BY <2>1, FromIs DEF InstallInv
    <2>3. \A i \in 1..Len(body') : n + i - 1 = Len(part) + i
      BY <1>0, <2>1, <2>2
    <2> QED  BY <1>0, <2>1, <2>2, <2>3
  <1>2. InstallTypeOK'
    BY <1>1 DEF InstallInv, InstallTypeOK, Resume, disk
  <1>3. PartIsPrefix'
    BY DEF InstallInv, PartIsPrefix, Resume, disk
  <1>4. Continues'
    BY <1>0, <1>1 DEF Continues, Resume, disk
  <1> QED  BY <1>2, <1>3, <1>4 DEF InstallInv

\* The whole file is on its way, and the partial one is truncated.
LEMMA StartOverInv == ASSUME InstallInv, StartOver PROVE InstallInv'
  <1>0. 1 \in 1..Blocks /\ Blocks \in Nat
    BY InstallConstants
  <1>1. /\ body' \in Seq(Block) /\ Len(body') = Blocks
        /\ \A i \in 1..Len(body') : body'[i] = <<upstream, i>>
    BY <1>0, FromIs DEF InstallInv, StartOver
  <1>2. part' = <<>> /\ part' \in Seq(Block) /\ Len(part') = 0
    BY NoBlocks DEF StartOver
  <1>3. InstallTypeOK'
    BY <1>1, <1>2 DEF InstallInv, InstallTypeOK, StartOver
  <1>4. PartIsPrefix'
    BY <1>0, <1>2 DEF PartIsPrefix
  <1>5. Continues'
    BY <1>0, <1>1, <1>2 DEF Continues, StartOver
  <1> QED  BY <1>3, <1>4, <1>5 DEF InstallInv

\* The next block of the response is the next of the file.
LEMMA ReceiveInv == ASSUME InstallInv, Receive PROVE InstallInv'
  <1>1. /\ body \in Seq(Block) /\ body # <<>> /\ part \in Seq(Block) /\ Len(part) \in Nat /\ Len(body) \in Nat
        /\ Blocks \in Nat /\ Len(part) + Len(body) = Blocks
        /\ \A i \in 1..Len(body) : body[i][2] = Len(part) + i
        /\ \A i \in 1..Len(part) : part[i][2] = i
    BY InstallConstants DEF InstallInv, InstallTypeOK, PartIsPrefix, Continues, Receive
  <1>2. Len(body) >= 1 /\ Head(body) = body[1] /\ Head(body) \in Block
    BY <1>1
  <1>3. /\ body' \in Seq(Block) /\ Len(body') = Len(body) - 1
        /\ \A i \in 1..Len(body') : body'[i] = body[i + 1]
    BY <1>1, HeadTailProperties DEF Receive
  <1>4. /\ part' \in Seq(Block) /\ Len(part') = Len(part) + 1
        /\ \A i \in 1..Len(part) : part'[i] = part[i]
        /\ part'[Len(part) + 1] = body[1]
    BY <1>1, <1>2 DEF Receive
  <1>5. InstallTypeOK'
    BY <1>3, <1>4 DEF InstallInv, InstallTypeOK, Receive
  <1>6. PartIsPrefix'
    <2>1. Len(part') <= Blocks
      BY <1>1, <1>2, <1>4
    <2>2. ASSUME NEW i \in 1..(Len(part) + 1) PROVE part'[i][2] = i
      BY <1>1, <1>2, <1>4
    <2> QED  BY <2>1, <2>2, <1>1, <1>4 DEF PartIsPrefix
  <1>7. Continues'
    <2>1. Len(part') + Len(body') = Blocks
      BY <1>1, <1>3, <1>4
    <2>2. ASSUME NEW i \in 1..Len(body') PROVE body'[i][2] = Len(part') + i
      BY <1>1, <1>3, <1>4
    <2> QED  BY <2>1, <2>2 DEF Continues, Receive
  <1> QED  BY <1>5, <1>6, <1>7 DEF InstallInv

\* The file is complete, unpacked and copied.
LEMMA FinishInv == ASSUME InstallInv, Received \/ Rename \/ Unpack \/ Copied PROVE InstallInv'
  <1>1. CASE Received
    <2>1. body' = <<>> /\ body' = body /\ part' = part /\ step' = "hash"
      BY <1>1 DEF Received, disk
    <2>2. InstallTypeOK'
      BY <1>1, <2>1 DEF InstallInv, InstallTypeOK, Received, disk
    <2> QED  BY <2>1, <2>2, NoBodyInv
  <1>2. CASE Rename
    <2>1. body' = body /\ body = <<>> /\ step' = "unpack" /\ part' = <<>> /\ archive' = part
      BY <1>2 DEF InstallInv, Continues, Rename
    <2>2. part' \in Seq(Block) /\ Len(part') = 0
      BY <2>1, NoBlocks
    <2>3. InstallTypeOK'
      BY <1>2, <2>1, <2>2 DEF InstallInv, InstallTypeOK, Rename
    <2>4. PartIsPrefix' /\ Continues'
      BY <2>1, <2>2, InstallConstants DEF PartIsPrefix, Continues
    <2> QED  BY <2>3, <2>4 DEF InstallInv
  <1>3. CASE Unpack
    <2>1. body' = <<>> /\ part' = part /\ step' \in {"copy", "idle"}
      BY <1>3 DEF InstallInv, Continues, Unpack, CallEnds
    <2>2. body' \in Seq(Block)
      BY <2>1, NoBlocks
    <2>3. tries' \in 0..MaxRetries /\ binary' \in {"none", "torn", "whole"} /\ verdict' \in {"none", "ok", "failed"}
      BY <1>3, InstallConstants DEF InstallInv, InstallTypeOK, Unpack, CallEnds
    <2>4. InstallTypeOK'
      BY <1>3, <2>1, <2>2, <2>3 DEF InstallInv, InstallTypeOK, Unpack
    <2> QED  BY <2>1, <2>4, NoBodyInv
  <1>4. CASE Copied
    <2>1. body' = <<>> /\ part' = part /\ step' = "idle" /\ tries' = 0 /\ upstream' = upstream
          /\ archive' \in {<<>>, archive}
      BY <1>4 DEF Copied, CallEnds
    <2>2. body' \in Seq(Block) /\ archive' \in Seq(Block)
      BY <2>1, NoBlocks DEF InstallInv, InstallTypeOK
    <2>3. binary' \in {"none", "torn", "whole"} /\ verdict' \in {"none", "ok", "failed"} /\ upset' \in BOOLEAN
      BY <1>4 DEF InstallInv, InstallTypeOK, Copied, CallEnds
    <2>4. tries' \in 0..MaxRetries
      BY <2>1, InstallConstants
    <2>5. InstallTypeOK'
      BY <2>1, <2>2, <2>3, <2>4 DEF InstallInv, InstallTypeOK
    <2> QED  BY <2>1, <2>5, NoBodyInv
  <1> QED  BY <1>1, <1>2, <1>3, <1>4

\* The beginning of a call, a new release, a crash: the files stay.
LEMMA AroundInv == ASSUME InstallInv, Ensure \/ Publish \/ Crash PROVE InstallInv'
  <1>1. CASE Ensure
    <2>1. body' = body /\ body = <<>> /\ part' = part /\ step' # "body"
      BY <1>1 DEF InstallInv, Continues, Ensure, disk
    <2>2. InstallTypeOK'
      BY <1>1, <2>1 DEF InstallInv, InstallTypeOK, Ensure, disk
    <2> QED  BY <2>1, <2>2, NoBodyInv
  <1>2. CASE Publish
    <2>1. upstream' \in 1..Releases
      BY <1>2, InstallConstants DEF InstallInv, InstallTypeOK, Publish
    <2>2. InstallTypeOK'
      BY <1>2, <2>1 DEF InstallInv, InstallTypeOK, Publish, call, disk
    <2>3. PartIsPrefix' /\ Continues'
      BY <1>2 DEF InstallInv, PartIsPrefix, Continues, Publish, call, disk
    <2> QED  BY <2>2, <2>3 DEF InstallInv
  <1>3. CASE Crash
    <2>1. body' = <<>> /\ part' = part /\ step' = "idle" /\ body' \in Seq(Block) /\ tries' \in 0..MaxRetries
      BY <1>3, NoBlocks, InstallConstants DEF Crash, CallEnds, disk
    <2>2. InstallTypeOK'
      BY <1>3, <2>1 DEF InstallInv, InstallTypeOK, Crash, CallEnds, disk
    <2> QED  BY <2>1, <2>2, NoBodyInv
  <1> QED  BY <1>1, <1>2, <1>3

\* Every step keeps the invariant.
LEMMA InstallNextInv == InstallInv /\ [InstallNext]_installVars => InstallInv'
  <1> SUFFICES ASSUME InstallInv, [InstallNext]_installVars PROVE InstallInv'  OBVIOUS
  <1>1. CASE UNCHANGED installVars
    BY <1>1 DEF InstallInv, InstallTypeOK, PartIsPrefix, Continues, installVars, call, disk
  <1>2. CASE NothingLeft
    BY <1>2, TryAgainInv DEF NothingLeft, InstallInv, InstallTypeOK
  <1>3. CASE ConnectionFails
    BY <1>3, TryAgainInv DEF ConnectionFails
  <1> QED  BY <1>1, <1>2, <1>3, ResumeInv, StartOverInv, ReceiveInv, FinishInv, AroundInv DEF InstallNext

\* Every reachable state of ServerInstall satisfies its invariant.
LEMMA InstallInvariant == InstallSpec => []InstallInv
  BY InstallInitInv, InstallNextInv, PTL DEF InstallSpec

\* The variables of ServerInstall keep their types.
THEOREM InstallTypeCorrect == InstallSpec => []InstallTypeOK
  <1>1. InstallInv => InstallTypeOK  BY DEF InstallInv
  <1> QED  BY <1>1, InstallInvariant, PTL

\* A download resumed any number of times, whatever the server answers, has every block
\* once and in its place (infra/download.rs, download_attempt).
THEOREM PartsArePrefixes == InstallSpec => []PartIsPrefix
  <1>1. InstallInv => PartIsPrefix  BY DEF InstallInv
  <1> QED  BY <1>1, InstallInvariant, PTL

-----------------------------------------------------------------------------
(***************************************************************************)
(* ComfySidecar.  A process alive is left over, stored, or in the hands of *)
(* a call that is about to store or to kill it; a stop that no other call  *)
(* crossed is alone, and the state is STOPPED through it.                  *)
(***************************************************************************)
InHand(u) == uat[u] \in {"record", "store", "kill"}

Held == running \subseteq {Prior, stored} \cup {own[u] : u \in {v \in Users : InHand(v)}}

Points ==
    \A u \in Users : /\ uat[u] \in {"record", "store"} => own[u] # NoComfy
                     /\ u \in Jobs => uat[u] \notin {"stop", "kill"}

LoneStop ==
    \A u \in Users : uat[u] \in {"stop", "kill"} /\ ~shaken
        => comfy = "STOPPED" /\ \A v \in Users \ {u} : uat[v] = "idle"

ComfyInv == /\ ComfyTypeOK /\ Held /\ Points /\ LoneStop
            /\ StartingIsSomeones /\ ReadyServes

\* Initially nothing runs but what an earlier session left.
LEMMA ComfyInitInv == ComfyInit => ComfyInv
  <1> SUFFICES ASSUME ComfyInit PROVE ComfyInv  OBVIOUS
  <1>1. ComfyTypeOK
    BY ComfyConstants DEF ComfyInit, ComfyTypeOK, ComfyStates, UserPoints
  <1>2. Held /\ Points /\ LoneStop /\ StartingIsSomeones /\ ReadyServes
    BY DEF ComfyInit, Held, Points, LoneStop, StartingIsSomeones, ReadyServes
  <1> QED  BY <1>1, <1>2 DEF ComfyInv

\* A call begins.
LEMMA EnsureRunningInv == ASSUME ComfyInv, NEW u \in Jobs, EnsureRunning(u) PROVE ComfyInv'
  <1>1. ComfyTypeOK'
    BY ComfyConstants DEF ComfyInv, ComfyTypeOK, ComfyStates, UserPoints, processVars, EnsureRunning, UserAt, Users
  <1>2. Held'
    BY DEF ComfyInv, ComfyTypeOK, Held, Points, InHand, processVars, EnsureRunning, UserAt, Users
  <1>3. Points' /\ LoneStop'
    BY ComfyConstants DEF ComfyInv, ComfyTypeOK, Points, LoneStop, processVars, Users, EnsureRunning, UserAt, Users
  <1>4. StartingIsSomeones'
    BY DEF ComfyInv, ComfyTypeOK, Points, StartingIsSomeones, Starter, processVars, EnsureRunning, UserAt, Users
  <1>5. ReadyServes'
    BY DEF ComfyInv, ComfyTypeOK, Points, LoneStop, ReadyServes, Starter, processVars, EnsureRunning, UserAt, Users
  <1> QED  BY <1>1, <1>2, <1>3, <1>4, <1>5 DEF ComfyInv

\* The lockfile is read.
LEMMA ReadLockfileInv == ASSUME ComfyInv, NEW u \in Users, ReadLockfile(u) PROVE ComfyInv'
  <1>1. ComfyTypeOK'
    BY ComfyConstants DEF ComfyInv, ComfyTypeOK, ComfyStates, UserPoints, processVars, ReadLockfile, UserAt
  <1>2. Held'
    BY DEF ComfyInv, ComfyTypeOK, Held, Points, InHand, processVars, ReadLockfile, UserAt
  <1>3. Points' /\ LoneStop'
    BY ComfyConstants DEF ComfyInv, ComfyTypeOK, Points, LoneStop, processVars, Users, ReadLockfile, UserAt
  <1>4. StartingIsSomeones'
    BY DEF ComfyInv, ComfyTypeOK, Points, StartingIsSomeones, Starter, processVars, ReadLockfile, UserAt
  <1>5. ReadyServes'
    BY DEF ComfyInv, ComfyTypeOK, Points, LoneStop, ReadyServes, Starter, processVars, ReadLockfile, UserAt
  <1> QED  BY <1>1, <1>2, <1>3, <1>4, <1>5 DEF ComfyInv

\* A process that answers is taken over.
LEMMA AdoptInv == ASSUME ComfyInv, NEW u \in Users, Adopt(u) PROVE ComfyInv'
  <1>1. ComfyTypeOK'
    BY ComfyConstants DEF ComfyInv, ComfyTypeOK, ComfyStates, UserPoints, processVars, Adopt, Ends
  <1>2. Held'
    BY DEF ComfyInv, ComfyTypeOK, Held, Points, InHand, processVars, Adopt, Ends
  <1>3. Points' /\ LoneStop'
    BY ComfyConstants DEF ComfyInv, ComfyTypeOK, Points, LoneStop, processVars, Users, Adopt, Ends
  <1>4. StartingIsSomeones'
    BY DEF ComfyInv, ComfyTypeOK, Points, StartingIsSomeones, Starter, processVars, Adopt, Ends
  <1>5. ReadyServes'
    BY DEF ComfyInv, ComfyTypeOK, Points, LoneStop, ReadyServes, Starter, processVars, Adopt, Ends
  <1> QED  BY <1>1, <1>2, <1>3, <1>4, <1>5 DEF ComfyInv

\* Nothing answers, and the lockfile goes.
LEMMA FindNobodyInv == ASSUME ComfyInv, NEW u \in Users, FindNobody(u) PROVE ComfyInv'
  <1>1. ComfyTypeOK'
    BY ComfyConstants DEF ComfyInv, ComfyTypeOK, ComfyStates, UserPoints, processVars, FindNobody, UserAt
  <1>2. Held'
    BY DEF ComfyInv, ComfyTypeOK, Held, Points, InHand, processVars, FindNobody, UserAt
  <1>3. Points' /\ LoneStop'
    BY ComfyConstants DEF ComfyInv, ComfyTypeOK, Points, LoneStop, processVars, Users, FindNobody, UserAt
  <1>4. StartingIsSomeones'
    BY DEF ComfyInv, ComfyTypeOK, Points, StartingIsSomeones, Starter, processVars, FindNobody, UserAt
  <1>5. ReadyServes'
    BY DEF ComfyInv, ComfyTypeOK, Points, LoneStop, ReadyServes, Starter, processVars, FindNobody, UserAt
  <1> QED  BY <1>1, <1>2, <1>3, <1>4, <1>5 DEF ComfyInv

\* The installation is not there.
LEMMA InstallMissingInv == ASSUME ComfyInv, NEW u \in Users, InstallMissing(u) PROVE ComfyInv'
  <1>1. ComfyTypeOK'
    BY ComfyConstants DEF ComfyInv, ComfyTypeOK, ComfyStates, UserPoints, processVars, InstallMissing, Ends
  <1>2. Held'
    BY DEF ComfyInv, ComfyTypeOK, Held, Points, InHand, processVars, InstallMissing, Ends
  <1>3. Points' /\ LoneStop'
    BY ComfyConstants DEF ComfyInv, ComfyTypeOK, Points, LoneStop, processVars, Users, InstallMissing, Ends
  <1>4. StartingIsSomeones'
    BY DEF ComfyInv, ComfyTypeOK, Points, StartingIsSomeones, Starter, processVars, InstallMissing, Ends
  <1>5. ReadyServes'
    BY DEF ComfyInv, ComfyTypeOK, Points, LoneStop, ReadyServes, Starter, processVars, InstallMissing, Ends
  <1> QED  BY <1>1, <1>2, <1>3, <1>4, <1>5 DEF ComfyInv

\* The spawn fails, and STARTING stays.
LEMMA SpawnErrorInv == ASSUME ComfyInv, NEW u \in Users, SpawnError(u) PROVE ComfyInv'
  <1>1. ComfyTypeOK'
    BY ComfyConstants DEF ComfyInv, ComfyTypeOK, ComfyStates, UserPoints, processVars, SpawnError, Ends
  <1>2. Held'
    BY DEF ComfyInv, ComfyTypeOK, Held, Points, InHand, processVars, SpawnError, Ends
  <1>3. Points' /\ LoneStop'
    BY ComfyConstants DEF ComfyInv, ComfyTypeOK, Points, LoneStop, processVars, Users, SpawnError, Ends
  <1>4. StartingIsSomeones'
    BY DEF ComfyInv, ComfyTypeOK, Points, StartingIsSomeones, Starter, processVars, SpawnError, Ends
  <1>5. ReadyServes'
    BY DEF ComfyInv, ComfyTypeOK, Points, LoneStop, ReadyServes, Starter, processVars, SpawnError, Ends
  <1> QED  BY <1>1, <1>2, <1>3, <1>4, <1>5 DEF ComfyInv

\* A process comes to life in the hands of its call.
LEMMA SpawnInv == ASSUME ComfyInv, NEW u \in Users, Spawn(u) PROVE ComfyInv'
  <1>1. ComfyTypeOK'
    BY ComfyConstants DEF ComfyInv, ComfyTypeOK, ComfyStates, UserPoints, processVars, Spawn, UserAt
  <1>2. Held'
    BY DEF ComfyInv, ComfyTypeOK, Held, Points, InHand, processVars, Spawn, UserAt
  <1>3. Points' /\ LoneStop'
    BY ComfyConstants DEF ComfyInv, ComfyTypeOK, Points, LoneStop, processVars, Users, Spawn, UserAt
  <1>4. StartingIsSomeones'
    BY DEF ComfyInv, ComfyTypeOK, Points, StartingIsSomeones, Starter, processVars, Spawn, UserAt
  <1>5. ReadyServes'
    BY DEF ComfyInv, ComfyTypeOK, Points, LoneStop, ReadyServes, Starter, processVars, Spawn, UserAt
  <1> QED  BY <1>1, <1>2, <1>3, <1>4, <1>5 DEF ComfyInv

\* The lockfile is written.
LEMMA RecordPidInv == ASSUME ComfyInv, NEW u \in Users, RecordPid(u) PROVE ComfyInv'
  <1>1. ComfyTypeOK'
    BY ComfyConstants DEF ComfyInv, ComfyTypeOK, ComfyStates, UserPoints, processVars, RecordPid, UserAt
  <1>2. Held'
    BY DEF ComfyInv, ComfyTypeOK, Held, Points, InHand, processVars, RecordPid, UserAt
  <1>3. Points' /\ LoneStop'
    BY ComfyConstants DEF ComfyInv, ComfyTypeOK, Points, LoneStop, processVars, Users, RecordPid, UserAt
  <1>4. StartingIsSomeones'
    BY DEF ComfyInv, ComfyTypeOK, Points, StartingIsSomeones, Starter, processVars, RecordPid, UserAt
  <1>5. ReadyServes'
    BY DEF ComfyInv, ComfyTypeOK, Points, LoneStop, ReadyServes, Starter, processVars, RecordPid, UserAt
  <1> QED  BY <1>1, <1>2, <1>3, <1>4, <1>5 DEF ComfyInv

\* The process is stored, and the one stored before is killed.
LEMMA StoreChildInv == ASSUME ComfyInv, NEW u \in Users, StoreChild(u) PROVE ComfyInv'
  <1>1. ComfyTypeOK'
    BY ComfyConstants DEF ComfyInv, ComfyTypeOK, ComfyStates, UserPoints, processVars, StoreChild, UserAt, Killed
  <1>2. Held'
    BY DEF ComfyInv, ComfyTypeOK, Held, Points, InHand, processVars, StoreChild, UserAt, Killed
  <1>3. Points' /\ LoneStop'
    BY ComfyConstants DEF ComfyInv, ComfyTypeOK, Points, LoneStop, processVars, Users, StoreChild, UserAt, Killed
  <1>4. StartingIsSomeones'
    BY DEF ComfyInv, ComfyTypeOK, Points, StartingIsSomeones, Starter, processVars, StoreChild, UserAt, Killed
  <1>5. ReadyServes'
    BY DEF ComfyInv, ComfyTypeOK, Points, LoneStop, ReadyServes, Starter, processVars, StoreChild, UserAt, Killed
  <1> QED  BY <1>1, <1>2, <1>3, <1>4, <1>5 DEF ComfyInv

\* The wait is over without an answer.
LEMMA WaitFailsInv == ASSUME ComfyInv, NEW u \in Users, WaitFails(u) PROVE ComfyInv'
  <1>1. ComfyTypeOK'
    BY ComfyConstants DEF ComfyInv, ComfyTypeOK, ComfyStates, UserPoints, processVars, WaitFails, Ends
  <1>2. Held'
    BY DEF ComfyInv, ComfyTypeOK, Held, Points, InHand, processVars, WaitFails, Ends
  <1>3. Points' /\ LoneStop'
    BY ComfyConstants DEF ComfyInv, ComfyTypeOK, Points, LoneStop, processVars, Users, WaitFails, Ends
  <1>4. StartingIsSomeones'
    BY DEF ComfyInv, ComfyTypeOK, Points, StartingIsSomeones, Starter, processVars, WaitFails, Ends
  <1>5. ReadyServes'
    BY DEF ComfyInv, ComfyTypeOK, Points, LoneStop, ReadyServes, Starter, processVars, WaitFails, Ends
  <1> QED  BY <1>1, <1>2, <1>3, <1>4, <1>5 DEF ComfyInv

\* The stored child has not exited.
LEMMA CheckExitInv == ASSUME ComfyInv, NEW u \in Users, CheckExit(u) PROVE ComfyInv'
  <1>1. ComfyTypeOK'
    BY ComfyConstants DEF ComfyInv, ComfyTypeOK, ComfyStates, UserPoints, processVars, CheckExit, UserAt
  <1>2. Held'
    BY DEF ComfyInv, ComfyTypeOK, Held, Points, InHand, processVars, CheckExit, UserAt
  <1>3. Points' /\ LoneStop'
    BY ComfyConstants DEF ComfyInv, ComfyTypeOK, Points, LoneStop, processVars, Users, CheckExit, UserAt
  <1>4. StartingIsSomeones'
    BY DEF ComfyInv, ComfyTypeOK, Points, StartingIsSomeones, Starter, processVars, CheckExit, UserAt
  <1>5. ReadyServes'
    BY DEF ComfyInv, ComfyTypeOK, Points, LoneStop, ReadyServes, Starter, processVars, CheckExit, UserAt
  <1> QED  BY <1>1, <1>2, <1>3, <1>4, <1>5 DEF ComfyInv

\* No answer yet.
LEMMA PollAgainInv == ASSUME ComfyInv, NEW u \in Users, PollAgain(u) PROVE ComfyInv'
  <1>1. ComfyTypeOK'
    BY ComfyConstants DEF ComfyInv, ComfyTypeOK, ComfyStates, UserPoints, processVars, PollAgain, UserAt
  <1>2. Held'
    BY DEF ComfyInv, ComfyTypeOK, Held, Points, InHand, processVars, PollAgain, UserAt
  <1>3. Points' /\ LoneStop'
    BY ComfyConstants DEF ComfyInv, ComfyTypeOK, Points, LoneStop, processVars, Users, PollAgain, UserAt
  <1>4. StartingIsSomeones'
    BY DEF ComfyInv, ComfyTypeOK, Points, StartingIsSomeones, Starter, processVars, PollAgain, UserAt
  <1>5. ReadyServes'
    BY DEF ComfyInv, ComfyTypeOK, Points, LoneStop, ReadyServes, Starter, processVars, PollAgain, UserAt
  <1> QED  BY <1>1, <1>2, <1>3, <1>4, <1>5 DEF ComfyInv

\* The process answers.
LEMMA PollAnsweredInv == ASSUME ComfyInv, NEW u \in Users, PollAnswered(u) PROVE ComfyInv'
  <1>1. ComfyTypeOK'
    BY ComfyConstants DEF ComfyInv, ComfyTypeOK, ComfyStates, UserPoints, processVars, PollAnswered, Ends
  <1>2. Held'
    BY DEF ComfyInv, ComfyTypeOK, Held, Points, InHand, processVars, PollAnswered, Ends
  <1>3. Points' /\ LoneStop'
    BY ComfyConstants DEF ComfyInv, ComfyTypeOK, Points, LoneStop, processVars, Users, PollAnswered, Ends
  <1>4. StartingIsSomeones'
    BY DEF ComfyInv, ComfyTypeOK, Points, StartingIsSomeones, Starter, processVars, PollAnswered, Ends
  <1>5. ReadyServes'
    BY DEF ComfyInv, ComfyTypeOK, Points, LoneStop, ReadyServes, Starter, processVars, PollAnswered, Ends
  <1> QED  BY <1>1, <1>2, <1>3, <1>4, <1>5 DEF ComfyInv

\* A stop begins, alone or shaken.
LEMMA StopInv == ASSUME ComfyInv, NEW u \in Defrags, Stop(u) PROVE ComfyInv'
  <1>1. ComfyTypeOK'
    BY ComfyConstants DEF ComfyInv, ComfyTypeOK, ComfyStates, UserPoints, processVars, Stop, UserAt, Users
  <1>2. Held'
    BY DEF ComfyInv, ComfyTypeOK, Held, Points, InHand, processVars, Stop, UserAt, Users
  <1>3. Points' /\ LoneStop'
    BY ComfyConstants DEF ComfyInv, ComfyTypeOK, Points, LoneStop, processVars, Users, Stop, UserAt, Users
  <1>4. StartingIsSomeones'
    BY DEF ComfyInv, ComfyTypeOK, Points, StartingIsSomeones, Starter, processVars, Stop, UserAt, Users
  <1>5. ReadyServes'
    BY DEF ComfyInv, ComfyTypeOK, Points, LoneStop, ReadyServes, Starter, processVars, Stop, UserAt, Users
  <1> QED  BY <1>1, <1>2, <1>3, <1>4, <1>5 DEF ComfyInv

\* The stop takes the stored child.
LEMMA TakeComfyInv == ASSUME ComfyInv, NEW u \in Users, TakeComfy(u) PROVE ComfyInv'
  <1>1. ComfyTypeOK'
    BY ComfyConstants DEF ComfyInv, ComfyTypeOK, ComfyStates, UserPoints, processVars, TakeComfy, UserAt
  <1>2. Held'
    BY DEF ComfyInv, ComfyTypeOK, Held, Points, InHand, processVars, TakeComfy, UserAt
  <1>3. Points' /\ LoneStop'
    BY ComfyConstants DEF ComfyInv, ComfyTypeOK, Points, LoneStop, processVars, Users, TakeComfy, UserAt
  <1>4. StartingIsSomeones'
    BY DEF ComfyInv, ComfyTypeOK, Points, StartingIsSomeones, Starter, processVars, TakeComfy, UserAt
  <1>5. ReadyServes'
    BY DEF ComfyInv, ComfyTypeOK, Points, LoneStop, ReadyServes, Starter, processVars, TakeComfy, UserAt
  <1> QED  BY <1>1, <1>2, <1>3, <1>4, <1>5 DEF ComfyInv

\* The stop kills it.
LEMMA KillComfyInv == ASSUME ComfyInv, NEW u \in Users, KillComfy(u) PROVE ComfyInv'
  <1>1. ComfyTypeOK'
    BY ComfyConstants DEF ComfyInv, ComfyTypeOK, ComfyStates, UserPoints, processVars, KillComfy, UserAt, Killed
  <1>2. Held'
    BY DEF ComfyInv, ComfyTypeOK, Held, Points, InHand, processVars, KillComfy, UserAt, Killed
  <1>3. Points' /\ LoneStop'
    BY ComfyConstants DEF ComfyInv, ComfyTypeOK, Points, LoneStop, processVars, Users, KillComfy, UserAt, Killed
  <1>4. StartingIsSomeones'
    BY DEF ComfyInv, ComfyTypeOK, Points, StartingIsSomeones, Starter, processVars, KillComfy, UserAt, Killed
  <1>5. ReadyServes'
    BY DEF ComfyInv, ComfyTypeOK, Points, LoneStop, ReadyServes, Starter, processVars, KillComfy, UserAt, Killed
  <1> QED  BY <1>1, <1>2, <1>3, <1>4, <1>5 DEF ComfyInv

\* A call is dropped, and with it the process in its hands.
LEMMA CallDroppedInv == ASSUME ComfyInv, NEW u \in Jobs, CallDropped(u) PROVE ComfyInv'
  <1>1. ComfyTypeOK'
    BY ComfyConstants DEF ComfyInv, ComfyTypeOK, ComfyStates, UserPoints, processVars, CallDropped, Ends, Killed, Users
  <1>2. Held'
    BY DEF ComfyInv, ComfyTypeOK, Held, Points, InHand, processVars, CallDropped, Ends, Killed, Users
  <1>3. Points' /\ LoneStop'
    BY ComfyConstants DEF ComfyInv, ComfyTypeOK, Points, LoneStop, processVars, Users, CallDropped, Ends, Killed, Users
  <1>4. StartingIsSomeones'
    BY DEF ComfyInv, ComfyTypeOK, Points, StartingIsSomeones, Starter, processVars, CallDropped, Ends, Killed, Users
  <1>5. ReadyServes'
    BY DEF ComfyInv, ComfyTypeOK, Points, LoneStop, ReadyServes, Starter, processVars, CallDropped, Ends, Killed, Users
  <1> QED  BY <1>1, <1>2, <1>3, <1>4, <1>5 DEF ComfyInv

\* A process begins to answer.
LEMMA BootsInv == ASSUME ComfyInv, NEW p \in Comfys, Boots(p) PROVE ComfyInv'
  <1>1. ComfyTypeOK'
    BY ComfyConstants DEF ComfyInv, ComfyTypeOK, ComfyStates, UserPoints, processVars, Boots
  <1>2. Held'
    BY DEF ComfyInv, ComfyTypeOK, Held, Points, InHand, processVars, Boots
  <1>3. Points' /\ LoneStop'
    BY ComfyConstants DEF ComfyInv, ComfyTypeOK, Points, LoneStop, processVars, Users, Boots
  <1>4. StartingIsSomeones'
    BY DEF ComfyInv, ComfyTypeOK, Points, StartingIsSomeones, Starter, processVars, Boots
  <1>5. ReadyServes'
    BY DEF ComfyInv, ComfyTypeOK, Points, LoneStop, ReadyServes, Starter, processVars, Boots
  <1> QED  BY <1>1, <1>2, <1>3, <1>4, <1>5 DEF ComfyInv

\* A process dies by itself.
LEMMA ExitsInv == ASSUME ComfyInv, NEW p \in Comfys, Exits(p) PROVE ComfyInv'
  <1>1. ComfyTypeOK'
    BY ComfyConstants DEF ComfyInv, ComfyTypeOK, ComfyStates, UserPoints, processVars, Exits, Killed
  <1>2. Held'
    BY DEF ComfyInv, ComfyTypeOK, Held, Points, InHand, processVars, Exits, Killed
  <1>3. Points' /\ LoneStop'
    BY ComfyConstants DEF ComfyInv, ComfyTypeOK, Points, LoneStop, processVars, Users, Exits, Killed
  <1>4. StartingIsSomeones'
    BY DEF ComfyInv, ComfyTypeOK, Points, StartingIsSomeones, Starter, processVars, Exits, Killed
  <1>5. ReadyServes'
    BY DEF ComfyInv, ComfyTypeOK, Points, LoneStop, ReadyServes, Starter, processVars, Exits, Killed
  <1> QED  BY <1>1, <1>2, <1>3, <1>4, <1>5 DEF ComfyInv

\* Every step keeps the invariant.
LEMMA ComfyNextInv == ComfyInv /\ [ComfyNext]_comfyVars => ComfyInv'
  <1> SUFFICES ASSUME ComfyInv, [ComfyNext]_comfyVars PROVE ComfyInv'  OBVIOUS
  <1>1. CASE UNCHANGED comfyVars
    BY <1>1 DEF ComfyInv, ComfyTypeOK, Held, InHand, Points, LoneStop, StartingIsSomeones, ReadyServes, Starter,
                comfyVars, processVars
  <1>2. ASSUME NEW u \in Users, ComfyStep(u) PROVE ComfyInv'
    BY <1>2, ReadLockfileInv, AdoptInv, FindNobodyInv, InstallMissingInv, SpawnErrorInv, SpawnInv, RecordPidInv,
       StoreChildInv, CheckExitInv, WaitFailsInv, PollAgainInv, PollAnsweredInv, TakeComfyInv, KillComfyInv
       DEF ComfyStep
  <1> QED  BY <1>1, <1>2, EnsureRunningInv, CallDroppedInv, StopInv, BootsInv, ExitsInv DEF ComfyNext

\* Every reachable state of ComfySidecar satisfies its invariant.
LEMMA ComfyInvariant == ComfySpec => []ComfyInv
  BY ComfyInitInv, ComfyNextInv, PTL DEF ComfySpec

\* The variables of ComfySidecar keep their types; what answers is alive.
THEOREM ComfyTypeCorrect == ComfySpec => []ComfyTypeOK
  <1>1. ComfyInv => ComfyTypeOK  BY DEF ComfyInv
  <1> QED  BY <1>1, ComfyInvariant, PTL

\* No ComfyUI process goes astray, for any number of jobs, stops, dropped calls and
\* deaths (image/comfy.rs, start and stop).
THEOREM NoProcessAstray == ComfySpec => []NoStrayComfy
  <1>1. ComfyInv => NoStrayComfy  BY DEF ComfyInv, Held, NoStrayComfy
  <1> QED  BY <1>1, ComfyInvariant, PTL

\* Nobody waits for a start that nobody makes, but for the two ways to abandon one
\* (image/comfy.rs, ensure_running and start).
THEOREM StartsAreOwned == ComfySpec => []StartingIsSomeones
  <1>1. ComfyInv => StartingIsSomeones  BY DEF ComfyInv
  <1> QED  BY <1>1, ComfyInvariant, PTL

\* READY means that something answers, or soon will (image/comfy.rs, ensure_running).
THEOREM ReadyIsTrue == ComfySpec => []ReadyServes
  <1>1. ComfyInv => ReadyServes  BY DEF ComfyInv
  <1> QED  BY <1>1, ComfyInvariant, PTL

-----------------------------------------------------------------------------
(***************************************************************************)
(* ImageSwap.  One call at a time holds the lifecycle lock, and the        *)
(* operation of the contract is that call's (Locked); a job that nobody    *)
(* meddled with finds the model off the card from the end of its eviction  *)
(* to its drawing, and on a second attempt before that (Clear); a second   *)
(* attempt that evicts has company (Company); the model that is on the CPU *)
(* during an eviction not yet done, or at the end of a restore, is excused *)
(* (Excused).                                                              *)
(***************************************************************************)
Holds(j) == jat[j] \in {"evicting", "restoring"} \/ restorer[j] = "runs"

Locked ==
    /\ \A j, k \in Draws : Holds(j) /\ Holds(k) => j = k
    /\ \A j \in Draws : /\ jat[j] = "evicting" => op = "evict"
                        /\ jat[j] = "restoring" \/ restorer[j] = "runs" => op = "restore"
    /\ op = "evict" => \E j \in Draws : jat[j] = "evicting"
    /\ op = "restore" => \E j \in Draws : jat[j] = "restoring" \/ restorer[j] = "runs"
    /\ op = "none" <=> stage = "none"

Clear ==
    \A j \in Draws :
        /\ ~meddled[j]
        /\ \/ token[j] \/ jat[j] \in {"barrier", "pause"}
           \/ jat[j] = "acquire" /\ second[j]
           \/ jat[j] = "evicting" /\ stage = "good"
        => ~GpuResident

Company ==
    \A j \in Draws :
        /\ second[j] /\ jat[j] \in {"evict", "evicting", "barrier"} => meddled[j]
        /\ mode[j] = "cloud_then_local" /\ jat[j] = "cloud" => ~second[j]

Excused ==
    /\ layers = "cpu"
    /\ \/ op = "evict" /\ stage # "good"
       \/ op = "restore" /\ stage \in {"good", "bad"}
    => excused

SwapInv == SwapTypeOK /\ Locked /\ Clear /\ Company /\ Excused /\ NotStranded

\* Initially no job goes on.
LEMMA SwapInitInv == SwapInit => SwapInv
  <1> SUFFICES ASSUME SwapInit PROVE SwapInv  OBVIOUS
  <1>1. /\ layers \in Places /\ up = TRUE /\ op = "none" /\ stage = "none" /\ armed = TRUE /\ lingering = FALSE
        /\ hangs = 0 /\ degraded = FALSE /\ excused = (layers = "cpu")
        /\ \A j \in Draws : jat[j] = "idle" /\ mode[j] = "local_only" /\ second[j] = FALSE /\ token[j] = FALSE
                            /\ restorer[j] = "none" /\ meddled[j] = FALSE
    BY DEF SwapInit, ServerInit
  <1>2. /\ jat \in [Draws -> SwapPoints] /\ mode \in [Draws -> Modes]
        /\ restorer \in [Draws -> {"none", "waits", "runs"}] /\ hangs \in 0..MaxHangs
    BY SwapConstants DEF SwapInit, SwapPoints, Modes
  <1>3. /\ second \in [Draws -> BOOLEAN] /\ token \in [Draws -> BOOLEAN] /\ meddled \in [Draws -> BOOLEAN]
        /\ {up, armed, lingering, degraded, excused} \subseteq BOOLEAN
    BY Zenon DEF SwapInit, ServerInit
  <1>4. SwapTypeOK
    BY <1>1, <1>2, <1>3 DEF SwapTypeOK, Stages
  <1>5. Locked /\ Clear /\ Company /\ Excused
    BY <1>1 DEF Locked, Holds, Clear, Company, Excused
  <1>6. NotStranded
    BY <1>1 DEF NotStranded
  <1> QED  BY <1>4, <1>5, <1>6 DEF SwapInv

\* A job begins with what its mode and tier ask for.
LEMMA BeginInv ==
    ASSUME SwapInv, NEW j \in Draws, NEW m \in Modes, NEW tier \in {"a", "b", "c"},
           Begin(j, m, tier)
    PROVE  SwapInv'
  <1>1. SwapTypeOK'
    BY SwapConstants DEF SwapInv, SwapTypeOK, SwapPoints, Modes, Kinds, Stages, Places, serverSide, Begin, To
  <1>2. Locked'
    BY DEF SwapInv, SwapTypeOK, Locked, Holds, serverSide, Begin, To
  <1>3. Clear'
    BY DEF SwapInv, SwapTypeOK, Locked, Clear, Company, Holds, GpuResident, serverSide, Begin, To
  <1>4. Company'
    BY DEF SwapInv, SwapTypeOK, Clear, Company, GpuResident, serverSide, Begin, To
  <1>5. Excused'
    BY DEF SwapInv, SwapTypeOK, Locked, Holds, Excused, serverSide, Begin, To
  <1>6. NotStranded'
    BY DEF SwapInv, SwapTypeOK, Locked, Holds, Excused, NotStranded, Owes, serverSide, Begin, To
  <1> QED  BY <1>1, <1>2, <1>3, <1>4, <1>5, <1>6 DEF SwapInv

\* The cloud has answered or failed.
LEMMA CloudEndsInv == ASSUME SwapInv, NEW j \in Draws, CloudEnds(j) PROVE SwapInv'
  <1>1. SwapTypeOK'
    BY SwapConstants DEF SwapInv, SwapTypeOK, SwapPoints, Modes, Kinds, Stages, Places, serverSide, CloudEnds, To
  <1>2. Locked'
    BY DEF SwapInv, SwapTypeOK, Locked, Holds, serverSide, CloudEnds, To
  <1>3. Clear'
    BY DEF SwapInv, SwapTypeOK, Locked, Clear, Company, Holds, GpuResident, serverSide, CloudEnds, To
  <1>4. Company'
    BY DEF SwapInv, SwapTypeOK, Clear, Company, GpuResident, serverSide, CloudEnds, To
  <1>5. Excused'
    BY DEF SwapInv, SwapTypeOK, Locked, Holds, Excused, serverSide, CloudEnds, To
  <1>6. NotStranded'
    BY DEF SwapInv, SwapTypeOK, Locked, Holds, Excused, NotStranded, Owes, serverSide, CloudEnds, To
  <1> QED  BY <1>1, <1>2, <1>3, <1>4, <1>5, <1>6 DEF SwapInv

\* The model is not on the card: the token is granted.
LEMMA FastPathInv == ASSUME SwapInv, NEW j \in Draws, FastPath(j) PROVE SwapInv'
  <1>1. SwapTypeOK'
    BY SwapConstants DEF SwapInv, SwapTypeOK, SwapPoints, Modes, Kinds, Stages, Places, serverSide, FastPath, To,
       GrantToken
  <1>2. Locked'
    BY DEF SwapInv, SwapTypeOK, Locked, Holds, serverSide, FastPath, To, GrantToken
  <1>3. Clear'
    BY DEF SwapInv, SwapTypeOK, Locked, Clear, Company, Holds, GpuResident, serverSide, FastPath, To, GrantToken
  <1>4. Company'
    BY DEF SwapInv, SwapTypeOK, Clear, Company, GpuResident, serverSide, FastPath, To, GrantToken
  <1>5. Excused'
    BY DEF SwapInv, SwapTypeOK, Locked, Holds, Excused, serverSide, FastPath, To, GrantToken
  <1>6. NotStranded'
    BY DEF SwapInv, SwapTypeOK, Locked, Holds, Excused, NotStranded, Owes, serverSide, FastPath, To, GrantToken
  <1> QED  BY <1>1, <1>2, <1>3, <1>4, <1>5, <1>6 DEF SwapInv

\* The model is on the card; on a second attempt somebody put it there.
LEMMA WantEvictionInv == ASSUME SwapInv, NEW j \in Draws, WantEviction(j) PROVE SwapInv'
  <1>1. SwapTypeOK'
    BY SwapConstants DEF SwapInv, SwapTypeOK, SwapPoints, Modes, Kinds, Stages, Places, serverSide, WantEviction, To
  <1>2. Locked'
    BY DEF SwapInv, SwapTypeOK, Locked, Holds, serverSide, WantEviction, To
  <1>3. Clear'
    BY DEF SwapInv, SwapTypeOK, Locked, Clear, Company, Holds, GpuResident, serverSide, WantEviction, To
  <1>4. Company'
    BY DEF SwapInv, SwapTypeOK, Clear, Company, GpuResident, serverSide, WantEviction, To
  <1>5. Excused'
    BY DEF SwapInv, SwapTypeOK, Locked, Holds, Excused, serverSide, WantEviction, To
  <1>6. NotStranded'
    BY DEF SwapInv, SwapTypeOK, Locked, Holds, Excused, NotStranded, Owes, serverSide, WantEviction, To
  <1> QED  BY <1>1, <1>2, <1>3, <1>4, <1>5, <1>6 DEF SwapInv

\* It is on the CPU by now.
LEMMA EvictNoopInv == ASSUME SwapInv, NEW j \in Draws, EvictNoop(j) PROVE SwapInv'
  <1>1. SwapTypeOK'
    BY SwapConstants DEF SwapInv, SwapTypeOK, SwapPoints, Modes, Kinds, Stages, Places, serverSide, EvictNoop, To
  <1>2. Locked'
    BY DEF SwapInv, SwapTypeOK, Locked, Holds, serverSide, EvictNoop, To
  <1>3. Clear'
    BY DEF SwapInv, SwapTypeOK, Locked, Clear, Company, Holds, GpuResident, serverSide, EvictNoop, To
  <1>4. Company'
    BY DEF SwapInv, SwapTypeOK, Clear, Company, GpuResident, serverSide, EvictNoop, To
  <1>5. Excused'
    BY DEF SwapInv, SwapTypeOK, Locked, Holds, Excused, serverSide, EvictNoop, To
  <1>6. NotStranded'
    BY DEF SwapInv, SwapTypeOK, Locked, Holds, Excused, NotStranded, Owes, serverSide, EvictNoop, To
  <1> QED  BY <1>1, <1>2, <1>3, <1>4, <1>5, <1>6 DEF SwapInv

\* The eviction begins, under the lock, with the model on the card.
LEMMA EvictBeginsInv == ASSUME SwapInv, NEW j \in Draws, EvictBegins(j) PROVE SwapInv'
  <1>1. SwapTypeOK'
    BY SwapConstants DEF SwapInv, SwapTypeOK, SwapPoints, Modes, Kinds, Stages, Places, serverSide, EvictBegins, To,
       Take
  <1>2. Locked'
    BY DEF SwapInv, SwapTypeOK, Locked, Holds, serverSide, EvictBegins, To, Take
  <1>3. Clear'
    BY DEF SwapInv, SwapTypeOK, Locked, Clear, Company, Holds, GpuResident, serverSide, EvictBegins, To, Take
  <1>4. Company'
    BY DEF SwapInv, SwapTypeOK, Clear, Company, GpuResident, serverSide, EvictBegins, To, Take
  <1>5. Excused'
    BY DEF SwapInv, SwapTypeOK, Locked, Holds, Excused, serverSide, EvictBegins, To, Take
  <1>6. NotStranded'
    BY DEF SwapInv, SwapTypeOK, Locked, Holds, Excused, NotStranded, Owes, serverSide, EvictBegins, To, Take
  <1> QED  BY <1>1, <1>2, <1>3, <1>4, <1>5, <1>6 DEF SwapInv

\* The eviction is over: with the model off the card, or with nothing owed.
LEMMA EvictEndsInv == ASSUME SwapInv, NEW j \in Draws, EvictEnds(j) PROVE SwapInv'
  <1>1. SwapTypeOK'
    BY SwapConstants DEF SwapInv, SwapTypeOK, SwapPoints, Modes, Kinds, Stages, Places, serverSide, EvictEnds, To,
       LetGo, CountHang, LocalFailure
  <1>2. Locked'
    BY DEF SwapInv, SwapTypeOK, Locked, Holds, serverSide, EvictEnds, To, LetGo, CountHang, LocalFailure
  <1>3. Clear'
    BY DEF SwapInv, SwapTypeOK, Locked, Clear, Company, Holds, GpuResident, serverSide, EvictEnds, To, LetGo,
       CountHang, LocalFailure
  <1>4. Company'
    BY DEF SwapInv, SwapTypeOK, Clear, Company, GpuResident, serverSide, EvictEnds, To, LetGo, CountHang, LocalFailure
  <1>5. Excused'
    BY DEF SwapInv, SwapTypeOK, Locked, Holds, Excused, serverSide, EvictEnds, To, LetGo, CountHang, LocalFailure
  <1>6. NotStranded'
    BY DEF SwapInv, SwapTypeOK, Locked, Holds, Excused, NotStranded, Owes, serverSide, EvictEnds, To, LetGo,
       CountHang, LocalFailure
  <1> QED  BY <1>1, <1>2, <1>3, <1>4, <1>5, <1>6 DEF SwapInv

\* Enough memory is free.
LEMMA BarrierPassedInv == ASSUME SwapInv, NEW j \in Draws, BarrierPassed(j) PROVE SwapInv'
  <1>1. SwapTypeOK'
    BY SwapConstants DEF SwapInv, SwapTypeOK, SwapPoints, Modes, Kinds, Stages, Places, serverSide, BarrierPassed, To,
       GrantToken
  <1>2. Locked'
    BY DEF SwapInv, SwapTypeOK, Locked, Holds, serverSide, BarrierPassed, To, GrantToken
  <1>3. Clear'
    BY DEF SwapInv, SwapTypeOK, Locked, Clear, Company, Holds, GpuResident, serverSide, BarrierPassed, To, GrantToken
  <1>4. Company'
    BY DEF SwapInv, SwapTypeOK, Clear, Company, GpuResident, serverSide, BarrierPassed, To, GrantToken
  <1>5. Excused'
    BY DEF SwapInv, SwapTypeOK, Locked, Holds, Excused, serverSide, BarrierPassed, To, GrantToken
  <1>6. NotStranded'
    BY DEF SwapInv, SwapTypeOK, Locked, Holds, Excused, NotStranded, Owes, serverSide, BarrierPassed, To, GrantToken
  <1> QED  BY <1>1, <1>2, <1>3, <1>4, <1>5, <1>6 DEF SwapInv

\* It is not, in time.
LEMMA BarrierTimeoutInv == ASSUME SwapInv, NEW j \in Draws, BarrierTimeout(j) PROVE SwapInv'
  <1>1. SwapTypeOK'
    BY SwapConstants DEF SwapInv, SwapTypeOK, SwapPoints, Modes, Kinds, Stages, Places, serverSide, BarrierTimeout,
       To, CountHang, LocalFailure
  <1>2. Locked'
    BY DEF SwapInv, SwapTypeOK, Locked, Holds, serverSide, BarrierTimeout, To, CountHang, LocalFailure
  <1>3. Clear'
    BY DEF SwapInv, SwapTypeOK, Locked, Clear, Company, Holds, GpuResident, serverSide, BarrierTimeout, To, CountHang,
       LocalFailure
  <1>4. Company'
    BY DEF SwapInv, SwapTypeOK, Clear, Company, GpuResident, serverSide, BarrierTimeout, To, CountHang, LocalFailure
  <1>5. Excused'
    BY DEF SwapInv, SwapTypeOK, Locked, Holds, Excused, serverSide, BarrierTimeout, To, CountHang, LocalFailure
  <1>6. NotStranded'
    BY DEF SwapInv, SwapTypeOK, Locked, Holds, Excused, NotStranded, Owes, serverSide, BarrierTimeout, To, CountHang,
       LocalFailure
  <1> QED  BY <1>1, <1>2, <1>3, <1>4, <1>5, <1>6 DEF SwapInv

\* The second attempt.
LEMMA RetryInv == ASSUME SwapInv, NEW j \in Draws, Retry(j) PROVE SwapInv'
  <1>1. SwapTypeOK'
    BY SwapConstants DEF SwapInv, SwapTypeOK, SwapPoints, Modes, Kinds, Stages, Places, serverSide, Retry, To
  <1>2. Locked'
    BY DEF SwapInv, SwapTypeOK, Locked, Holds, serverSide, Retry, To
  <1>3. Clear'
    BY DEF SwapInv, SwapTypeOK, Locked, Clear, Company, Holds, GpuResident, serverSide, Retry, To
  <1>4. Company'
    BY DEF SwapInv, SwapTypeOK, Clear, Company, GpuResident, serverSide, Retry, To
  <1>5. Excused'
    BY DEF SwapInv, SwapTypeOK, Locked, Holds, Excused, serverSide, Retry, To
  <1>6. NotStranded'
    BY DEF SwapInv, SwapTypeOK, Locked, Holds, Excused, NotStranded, Owes, serverSide, Retry, To
  <1> QED  BY <1>1, <1>2, <1>3, <1>4, <1>5, <1>6 DEF SwapInv

\* The job draws.
LEMMA TakePermitInv == ASSUME SwapInv, NEW j \in Draws, TakePermit(j) PROVE SwapInv'
  <1>1. SwapTypeOK'
    BY SwapConstants DEF SwapInv, SwapTypeOK, SwapPoints, Modes, Kinds, Stages, Places, serverSide, TakePermit, To
  <1>2. Locked'
    BY DEF SwapInv, SwapTypeOK, Locked, Holds, serverSide, TakePermit, To
  <1>3. Clear'
    BY DEF SwapInv, SwapTypeOK, Locked, Clear, Company, Holds, GpuResident, serverSide, TakePermit, To
  <1>4. Company'
    BY DEF SwapInv, SwapTypeOK, Clear, Company, GpuResident, serverSide, TakePermit, To
  <1>5. Excused'
    BY DEF SwapInv, SwapTypeOK, Locked, Holds, Excused, serverSide, TakePermit, To
  <1>6. NotStranded'
    BY DEF SwapInv, SwapTypeOK, Locked, Holds, Excused, NotStranded, Owes, serverSide, TakePermit, To
  <1> QED  BY <1>1, <1>2, <1>3, <1>4, <1>5, <1>6 DEF SwapInv

\* With a token, the restore is next.
LEMMA DrawEndsInv == ASSUME SwapInv, NEW j \in Draws, DrawEnds(j) PROVE SwapInv'
  <1>1. SwapTypeOK'
    BY SwapConstants DEF SwapInv, SwapTypeOK, SwapPoints, Modes, Kinds, Stages, Places, serverSide, DrawEnds, To,
       LocalFailure
  <1>2. Locked'
    BY DEF SwapInv, SwapTypeOK, Locked, Holds, serverSide, DrawEnds, To, LocalFailure
  <1>3. Clear'
    BY DEF SwapInv, SwapTypeOK, Locked, Clear, Company, Holds, GpuResident, serverSide, DrawEnds, To, LocalFailure
  <1>4. Company'
    BY DEF SwapInv, SwapTypeOK, Clear, Company, GpuResident, serverSide, DrawEnds, To, LocalFailure
  <1>5. Excused'
    BY DEF SwapInv, SwapTypeOK, Locked, Holds, Excused, serverSide, DrawEnds, To, LocalFailure
  <1>6. NotStranded'
    BY DEF SwapInv, SwapTypeOK, Locked, Holds, Excused, NotStranded, Owes, serverSide, DrawEnds, To, LocalFailure
  <1> QED  BY <1>1, <1>2, <1>3, <1>4, <1>5, <1>6 DEF SwapInv

\* The model is on the card already.
LEMMA RestoreNoopInv == ASSUME SwapInv, NEW j \in Draws, RestoreNoop(j) PROVE SwapInv'
  <1>1. SwapTypeOK'
    BY SwapConstants DEF SwapInv, SwapTypeOK, SwapPoints, Modes, Kinds, Stages, Places, serverSide, RestoreNoop, To,
       AfterSwap, LocalFailure
  <1>2. Locked'
    BY DEF SwapInv, SwapTypeOK, Locked, Holds, serverSide, RestoreNoop, To, AfterSwap, LocalFailure
  <1>3. Clear'
    BY DEF SwapInv, SwapTypeOK, Locked, Clear, Company, Holds, GpuResident, serverSide, RestoreNoop, To, AfterSwap,
       LocalFailure
  <1>4. Company'
    BY DEF SwapInv, SwapTypeOK, Clear, Company, GpuResident, serverSide, RestoreNoop, To, AfterSwap, LocalFailure
  <1>5. Excused'
    BY DEF SwapInv, SwapTypeOK, Locked, Holds, Excused, serverSide, RestoreNoop, To, AfterSwap, LocalFailure
  <1>6. NotStranded'
    BY DEF SwapInv, SwapTypeOK, Locked, Holds, Excused, NotStranded, Owes, serverSide, RestoreNoop, To, AfterSwap,
       LocalFailure
  <1> QED  BY <1>1, <1>2, <1>3, <1>4, <1>5, <1>6 DEF SwapInv

\* The restore begins, under the lock.
LEMMA RestoreBeginsInv == ASSUME SwapInv, NEW j \in Draws, RestoreBegins(j) PROVE SwapInv'
  <1>1. SwapTypeOK'
    BY SwapConstants DEF SwapInv, SwapTypeOK, SwapPoints, Modes, Kinds, Stages, Places, serverSide, RestoreBegins, To,
       Take
  <1>2. Locked'
    BY DEF SwapInv, SwapTypeOK, Locked, Holds, serverSide, RestoreBegins, To, Take
  <1>3. Clear'
    BY DEF SwapInv, SwapTypeOK, Locked, Clear, Company, Holds, GpuResident, serverSide, RestoreBegins, To, Take
  <1>4. Company'
    BY DEF SwapInv, SwapTypeOK, Clear, Company, GpuResident, serverSide, RestoreBegins, To, Take
  <1>5. Excused'
    BY DEF SwapInv, SwapTypeOK, Locked, Holds, Excused, serverSide, RestoreBegins, To, Take
  <1>6. NotStranded'
    BY DEF SwapInv, SwapTypeOK, Locked, Holds, Excused, NotStranded, Owes, serverSide, RestoreBegins, To, Take
  <1> QED  BY <1>1, <1>2, <1>3, <1>4, <1>5, <1>6 DEF SwapInv

\* The restore is over; if the model is still on the CPU, there was no room or it failed.
LEMMA RestoreEndsInv == ASSUME SwapInv, NEW j \in Draws, RestoreEnds(j) PROVE SwapInv'
  <1>1. SwapTypeOK'
    BY SwapConstants DEF SwapInv, SwapTypeOK, SwapPoints, Modes, Kinds, Stages, Places, serverSide, RestoreEnds, To,
       AfterSwap, LocalFailure, LetGo
  <1>2. Locked'
    BY DEF SwapInv, SwapTypeOK, Locked, Holds, serverSide, RestoreEnds, To, AfterSwap, LocalFailure, LetGo
  <1>3. Clear'
    BY DEF SwapInv, SwapTypeOK, Locked, Clear, Company, Holds, GpuResident, serverSide, RestoreEnds, To, AfterSwap,
       LocalFailure, LetGo
  <1>4. Company'
    BY DEF SwapInv, SwapTypeOK, Clear, Company, GpuResident, serverSide, RestoreEnds, To, AfterSwap, LocalFailure,
       LetGo
  <1>5. Excused'
    BY DEF SwapInv, SwapTypeOK, Locked, Holds, Excused, serverSide, RestoreEnds, To, AfterSwap, LocalFailure, LetGo
  <1>6. NotStranded'
    BY DEF SwapInv, SwapTypeOK, Locked, Holds, Excused, NotStranded, Owes, serverSide, RestoreEnds, To, AfterSwap,
       LocalFailure, LetGo
  <1> QED  BY <1>1, <1>2, <1>3, <1>4, <1>5, <1>6 DEF SwapInv

\* A dropped job leaves its token to a task, or has no token.
LEMMA JobDroppedInv == ASSUME SwapInv, NEW j \in Draws, JobDropped(j) PROVE SwapInv'
  <1>1. SwapTypeOK'
    BY SwapConstants DEF SwapInv, SwapTypeOK, SwapPoints, Modes, Kinds, Stages, Places, serverSide, JobDropped, To,
       Unlock, Drop
  <1>2. Locked'
    BY DEF SwapInv, SwapTypeOK, Locked, Holds, serverSide, JobDropped, To, Unlock, Drop
  <1>3. Clear'
    BY DEF SwapInv, SwapTypeOK, Locked, Clear, Company, Holds, GpuResident, serverSide, JobDropped, To, Unlock, Drop
  <1>4. Company'
    BY DEF SwapInv, SwapTypeOK, Clear, Company, GpuResident, serverSide, JobDropped, To, Unlock, Drop
  <1>5. Excused'
    BY DEF SwapInv, SwapTypeOK, Locked, Holds, Excused, serverSide, JobDropped, To, Unlock, Drop
  <1>6. NotStranded'
    BY DEF SwapInv, SwapTypeOK, Locked, Holds, Excused, NotStranded, Owes, serverSide, JobDropped, To, Unlock, Drop
  <1> QED  BY <1>1, <1>2, <1>3, <1>4, <1>5, <1>6 DEF SwapInv

\* The task finds the model on the card.
LEMMA RestorerNoopInv == ASSUME SwapInv, NEW j \in Draws, RestorerNoop(j) PROVE SwapInv'
  <1>1. SwapTypeOK'
    BY SwapConstants DEF SwapInv, SwapTypeOK, SwapPoints, Modes, Kinds, Stages, Places, serverSide, RestorerNoop
  <1>2. Locked'
    BY DEF SwapInv, SwapTypeOK, Locked, Holds, serverSide, RestorerNoop
  <1>3. Clear'
    BY DEF SwapInv, SwapTypeOK, Locked, Clear, Company, Holds, GpuResident, serverSide, RestorerNoop
  <1>4. Company'
    BY DEF SwapInv, SwapTypeOK, Clear, Company, GpuResident, serverSide, RestorerNoop
  <1>5. Excused'
    BY DEF SwapInv, SwapTypeOK, Locked, Holds, Excused, serverSide, RestorerNoop
  <1>6. NotStranded'
    BY DEF SwapInv, SwapTypeOK, Locked, Holds, Excused, NotStranded, Owes, serverSide, RestorerNoop
  <1> QED  BY <1>1, <1>2, <1>3, <1>4, <1>5, <1>6 DEF SwapInv

\* The task restores, under the lock.
LEMMA RestorerBeginsInv == ASSUME SwapInv, NEW j \in Draws, RestorerBegins(j) PROVE SwapInv'
  <1>1. SwapTypeOK'
    BY SwapConstants DEF SwapInv, SwapTypeOK, SwapPoints, Modes, Kinds, Stages, Places, serverSide, RestorerBegins,
       Take
  <1>2. Locked'
    BY DEF SwapInv, SwapTypeOK, Locked, Holds, serverSide, RestorerBegins, Take
  <1>3. Clear'
    BY DEF SwapInv, SwapTypeOK, Locked, Clear, Company, Holds, GpuResident, serverSide, RestorerBegins, Take
  <1>4. Company'
    BY DEF SwapInv, SwapTypeOK, Clear, Company, GpuResident, serverSide, RestorerBegins, Take
  <1>5. Excused'
    BY DEF SwapInv, SwapTypeOK, Locked, Holds, Excused, serverSide, RestorerBegins, Take
  <1>6. NotStranded'
    BY DEF SwapInv, SwapTypeOK, Locked, Holds, Excused, NotStranded, Owes, serverSide, RestorerBegins, Take
  <1> QED  BY <1>1, <1>2, <1>3, <1>4, <1>5, <1>6 DEF SwapInv

\* The task has restored or failed.
LEMMA RestorerEndsInv == ASSUME SwapInv, NEW j \in Draws, RestorerEnds(j) PROVE SwapInv'
  <1>1. SwapTypeOK'
    BY SwapConstants DEF SwapInv, SwapTypeOK, SwapPoints, Modes, Kinds, Stages, Places, serverSide, RestorerEnds,
       LetGo
  <1>2. Locked'
    BY DEF SwapInv, SwapTypeOK, Locked, Holds, serverSide, RestorerEnds, LetGo
  <1>3. Clear'
    BY DEF SwapInv, SwapTypeOK, Locked, Clear, Company, Holds, GpuResident, serverSide, RestorerEnds, LetGo
  <1>4. Company'
    BY DEF SwapInv, SwapTypeOK, Clear, Company, GpuResident, serverSide, RestorerEnds, LetGo
  <1>5. Excused'
    BY DEF SwapInv, SwapTypeOK, Locked, Holds, Excused, serverSide, RestorerEnds, LetGo
  <1>6. NotStranded'
    BY DEF SwapInv, SwapTypeOK, Locked, Holds, Excused, NotStranded, Owes, serverSide, RestorerEnds, LetGo
  <1> QED  BY <1>1, <1>2, <1>3, <1>4, <1>5, <1>6 DEF SwapInv

\* The operation under the lock goes on; only the caller of an eviction is not meddled with by it.
LEMMA OperationProceedsInv == ASSUME SwapInv, OperationProceeds PROVE SwapInv'
  <1>1. SwapTypeOK'
    BY SwapConstants DEF SwapInv, SwapTypeOK, SwapPoints, Modes, Kinds, Stages, Places, serverSide, OperationProceeds,
       Disarm, TakeDown, Succeed, Fail, Meddle, Callers, jobVars
  <1>2. Locked'
    BY DEF SwapInv, SwapTypeOK, Locked, Holds, serverSide, OperationProceeds, Disarm, TakeDown, Succeed, Fail, Meddle,
       Callers, jobVars
  <1>3. Clear'
    BY DEF SwapInv, SwapTypeOK, Locked, Clear, Company, Holds, GpuResident, serverSide, OperationProceeds, Disarm,
       TakeDown, Succeed, Fail, Meddle, Callers, jobVars
  <1>4. Company'
    BY DEF SwapInv, SwapTypeOK, Clear, Company, GpuResident, serverSide, OperationProceeds, Disarm, TakeDown, Succeed,
       Fail, Meddle, Callers, jobVars
  <1>5. Excused'
    BY DEF SwapInv, SwapTypeOK, Locked, Holds, Excused, serverSide, OperationProceeds, Disarm, TakeDown, Succeed,
       Fail, Meddle, Callers, jobVars
  <1>6. NotStranded'
    BY DEF SwapInv, SwapTypeOK, Locked, Holds, Excused, NotStranded, Owes, serverSide, OperationProceeds, Disarm,
       TakeDown, Succeed, Fail, Meddle, Callers, jobVars
  <1> QED  BY <1>1, <1>2, <1>3, <1>4, <1>5, <1>6 DEF SwapInv

\* Another turn or a command takes the lock.
LEMMA OthersBeginInv == ASSUME SwapInv, NEW kind \in {"restart", "ensure", "stop"}, OthersBegin(kind) PROVE SwapInv'
  <1>1. SwapTypeOK'
    BY SwapConstants DEF SwapInv, SwapTypeOK, SwapPoints, Modes, Kinds, Stages, Places, serverSide, OthersBegin, Take,
       jobVars
  <1>2. Locked'
    BY DEF SwapInv, SwapTypeOK, Locked, Holds, serverSide, OthersBegin, Take, jobVars
  <1>3. Clear'
    BY DEF SwapInv, SwapTypeOK, Locked, Clear, Company, Holds, GpuResident, serverSide, OthersBegin, Take, jobVars
  <1>4. Company'
    BY DEF SwapInv, SwapTypeOK, Clear, Company, GpuResident, serverSide, OthersBegin, Take, jobVars
  <1>5. Excused'
    BY DEF SwapInv, SwapTypeOK, Locked, Holds, Excused, serverSide, OthersBegin, Take, jobVars
  <1>6. NotStranded'
    BY DEF SwapInv, SwapTypeOK, Locked, Holds, Excused, NotStranded, Owes, serverSide, OthersBegin, Take, jobVars
  <1> QED  BY <1>1, <1>2, <1>3, <1>4, <1>5, <1>6 DEF SwapInv

\* It gives the lock back.
LEMMA OthersEndInv == ASSUME SwapInv, OthersEnd PROVE SwapInv'
  <1>1. SwapTypeOK'
    BY SwapConstants DEF SwapInv, SwapTypeOK, SwapPoints, Modes, Kinds, Stages, Places, serverSide, OthersEnd, LetGo,
       jobVars
  <1>2. Locked'
    BY DEF SwapInv, SwapTypeOK, Locked, Holds, serverSide, OthersEnd, LetGo, jobVars
  <1>3. Clear'
    BY DEF SwapInv, SwapTypeOK, Locked, Clear, Company, Holds, GpuResident, serverSide, OthersEnd, LetGo, jobVars
  <1>4. Company'
    BY DEF SwapInv, SwapTypeOK, Clear, Company, GpuResident, serverSide, OthersEnd, LetGo, jobVars
  <1>5. Excused'
    BY DEF SwapInv, SwapTypeOK, Locked, Holds, Excused, serverSide, OthersEnd, LetGo, jobVars
  <1>6. NotStranded'
    BY DEF SwapInv, SwapTypeOK, Locked, Holds, Excused, NotStranded, Owes, serverSide, OthersEnd, LetGo, jobVars
  <1> QED  BY <1>1, <1>2, <1>3, <1>4, <1>5, <1>6 DEF SwapInv

\* The watchdog takes the server down or brings it up; every job is meddled with.
LEMMA WatchdogMovesInv == ASSUME SwapInv, WatchdogMoves PROVE SwapInv'
  <1>1. SwapTypeOK'
    BY SwapConstants DEF SwapInv, SwapTypeOK, SwapPoints, Modes, Kinds, Stages, Places, serverSide, WatchdogMoves,
       WatchdogActs, Meddle, jobVars
  <1>2. Locked'
    BY DEF SwapInv, SwapTypeOK, Locked, Holds, serverSide, WatchdogMoves, WatchdogActs, Meddle, jobVars
  <1>3. Clear'
    BY DEF SwapInv, SwapTypeOK, Locked, Clear, Company, Holds, GpuResident, serverSide, WatchdogMoves, WatchdogActs,
       Meddle, jobVars
  <1>4. Company'
    BY DEF SwapInv, SwapTypeOK, Clear, Company, GpuResident, serverSide, WatchdogMoves, WatchdogActs, Meddle, jobVars
  <1>5. Excused'
    BY DEF SwapInv, SwapTypeOK, Locked, Holds, Excused, serverSide, WatchdogMoves, WatchdogActs, Meddle, jobVars
  <1>6. NotStranded'
    BY DEF SwapInv, SwapTypeOK, Locked, Holds, Excused, NotStranded, Owes, serverSide, WatchdogMoves, WatchdogActs,
       Meddle, jobVars
  <1> QED  BY <1>1, <1>2, <1>3, <1>4, <1>5, <1>6 DEF SwapInv

\* A watchdog that was stopped is gone.
LEMMA WatchdogGoneInv == ASSUME SwapInv, WatchdogGone PROVE SwapInv'
  <1>1. SwapTypeOK'
    BY SwapConstants DEF SwapInv, SwapTypeOK, SwapPoints, Modes, Kinds, Stages, Places, serverSide, WatchdogGone,
       Fade, jobVars
  <1>2. Locked'
    BY DEF SwapInv, SwapTypeOK, Locked, Holds, serverSide, WatchdogGone, Fade, jobVars
  <1>3. Clear'
    BY DEF SwapInv, SwapTypeOK, Locked, Clear, Company, Holds, GpuResident, serverSide, WatchdogGone, Fade, jobVars
  <1>4. Company'
    BY DEF SwapInv, SwapTypeOK, Clear, Company, GpuResident, serverSide, WatchdogGone, Fade, jobVars
  <1>5. Excused'
    BY DEF SwapInv, SwapTypeOK, Locked, Holds, Excused, serverSide, WatchdogGone, Fade, jobVars
  <1>6. NotStranded'
    BY DEF SwapInv, SwapTypeOK, Locked, Holds, Excused, NotStranded, Owes, serverSide, WatchdogGone, Fade, jobVars
  <1> QED  BY <1>1, <1>2, <1>3, <1>4, <1>5, <1>6 DEF SwapInv

\* Every step keeps the invariant.
LEMMA SwapNextInv == SwapInv /\ [SwapNext]_swapVars => SwapInv'
  <1> SUFFICES ASSUME SwapInv, [SwapNext]_swapVars PROVE SwapInv'  OBVIOUS
  <1>1. CASE UNCHANGED swapVars
    BY <1>1 DEF SwapInv, SwapTypeOK, Locked, Holds, Clear, Company, Excused, NotStranded, Owes, GpuResident, swapVars,
                serverSide
  <1>2. ASSUME NEW j \in Draws, JobStep(j) PROVE SwapInv'
    BY <1>2, CloudEndsInv, FastPathInv, WantEvictionInv, EvictNoopInv, EvictBeginsInv, EvictEndsInv, BarrierPassedInv,
       BarrierTimeoutInv, RetryInv, TakePermitInv, DrawEndsInv, RestoreNoopInv, RestoreBeginsInv, RestoreEndsInv DEF JobStep
  <1>3. ASSUME NEW j \in Draws, RestorerStep(j) PROVE SwapInv'
    BY <1>3, RestorerNoopInv, RestorerBeginsInv, RestorerEndsInv DEF RestorerStep
  <1> QED  BY <1>1, <1>2, <1>3, BeginInv, JobDroppedInv, OperationProceedsInv, OthersBeginInv, OthersEndInv,
              WatchdogMovesInv, WatchdogGoneInv DEF SwapNext

\* Every reachable state of ImageSwap satisfies its invariant.
LEMMA SwapInvariant == SwapSpec => []SwapInv
  BY SwapInitInv, SwapNextInv, PTL DEF SwapSpec

\* The variables of ImageSwap keep their types.
THEOREM SwapTypeCorrect == SwapSpec => []SwapTypeOK
  <1>1. SwapInv => SwapTypeOK  BY DEF SwapInv
  <1> QED  BY <1>1, SwapInvariant, PTL

\* The model comes back to the card, but for the excuses the model names (image/swap.rs,
\* the EvictionToken).
THEOREM ModelComesBack == SwapSpec => []NotStranded
  <1>1. SwapInv => NotStranded  BY DEF SwapInv
  <1> QED  BY <1>1, SwapInvariant, PTL

\* A job that holds a token draws on a free card unless another actor moved the model
\* (image/orchestrator.rs, generate_with_swap).
THEOREM CardStaysFree == SwapSpec => []CardIsFree
  <1>1. SwapInv => CardIsFree  BY DEF SwapInv, Clear, CardIsFree
  <1> QED  BY <1>1, SwapInvariant, PTL

\* A hang is counted only for a job somebody meddled with (image/orchestrator.rs,
\* hang_count).
THEOREM HangsAreShared == SwapSpec => HangsNeedCompany
  <1>1. SwapInv /\ [SwapNext]_swapVars =>
            [hangs' > hangs => \E j \in Draws : second[j] /\ meddled[j] /\ jat'[j] # jat[j]]_swapVars
    <2> SUFFICES ASSUME SwapInv, SwapNext, hangs' > hangs
                 PROVE  \E j \in Draws : second[j] /\ meddled[j] /\ jat'[j] # jat[j]
      OBVIOUS
    <2>0. hangs \in Nat
      BY SwapConstants DEF SwapInv, SwapTypeOK
    <2>1. PICK j \in Draws : EvictEnds(j) \/ BarrierTimeout(j)
      <3>1. ASSUME NEW j \in Draws, JobStep(j) PROVE EvictEnds(j) \/ BarrierTimeout(j)
        BY <3>1, <2>0 DEF JobStep, CloudEnds, FastPath, WantEviction, EvictNoop, EvictBegins, BarrierPassed, Retry,
           TakePermit, DrawEnds, RestoreNoop, RestoreBegins, RestoreEnds
      <3>2. ASSUME NEW j \in Draws PROVE ~RestorerStep(j) /\ ~JobDropped(j)
        BY <2>0 DEF RestorerStep, RestorerNoop, RestorerBegins, RestorerEnds, JobDropped
      <3>3. ASSUME NEW j \in Draws, NEW m \in Modes, NEW tier \in {"a", "b", "c"} PROVE ~Begin(j, m, tier)
        BY <2>0 DEF Begin
      <3>4. /\ ~OperationProceeds /\ ~OthersEnd /\ ~WatchdogMoves /\ ~WatchdogGone
            /\ \A kind \in {"restart", "ensure", "stop"} : ~OthersBegin(kind)
        <4>1. ~UNCHANGED jobVars
          BY <2>0 DEF jobVars
        <4> QED  BY <4>1 DEF OperationProceeds, OthersBegin, OthersEnd, WatchdogMoves, WatchdogGone
      <3> QED  BY <3>1, <3>2, <3>3, <3>4 DEF SwapNext
    <2>2. second[j]
      BY <2>1, <2>0 DEF EvictEnds, BarrierTimeout, CountHang
    <2>3. meddled[j]
      BY <2>1, <2>2 DEF SwapInv, Company, EvictEnds, BarrierTimeout
    <2>4. jat'[j] # jat[j]
      BY <2>1, <2>2 DEF SwapInv, SwapTypeOK, EvictEnds, BarrierTimeout, To, LocalFailure
    <2> QED  BY <2>2, <2>3, <2>4
  <1> QED  BY <1>1, SwapInvariant, PTL DEF SwapSpec, HangsNeedCompany

-----------------------------------------------------------------------------
(***************************************************************************)
(* SidecarBridge.  What Python has of a line and what is in the pipe are   *)
(* one stream.  A line in it that begins behind the end of another one     *)
(* comes out whole; a caller in the middle of its line holds the lock, so  *)
(* that what it has written is the end of the stream.                      *)
(***************************************************************************)
Got(i) == IF i <= Len(line) THEN line[i] ELSE pipe[i - Len(line)]
Size == Len(line) + Len(pipe)

Clean(i) == i = 1 \/ Got(i - 1)[2] = "tail"
Whole(k) == \E i \in 1..(Size - 1) : /\ Got(i) = <<k, "head">> /\ Got(i + 1) = <<k, "tail">>
                                     /\ Clean(i)
Back(k) == k \in {answers[i] : i \in DOMAIN answers}

Exclusive == \A c \in Askers : /\ rat[c] \in {"write", "rest"} => writer = c
                               /\ rat[c] # "idle" => id[c] # 0
NotYet    == python = "none" => /\ pipe = <<>> /\ line = <<>> /\ ~stdin
                                /\ \A c \in Askers : rat[c] \in {"idle", "lock"}
OnlyHeads == \A i \in 1..Len(line) : line[i][2] = "head"
Waiting   == \A c \in Askers : rat[c] = "wait" /\ c \notin spoiled =>
                Whole(id[c]) \/ busy = id[c] \/ Back(id[c])
InRest    == \A c \in Askers : rat[c] = "rest" =>
                /\ Size > 0 /\ Got(Size) = <<id[c], "head">>
                /\ c \notin spoiled => Clean(Size)
AllEnded  == ~torn /\ (\A c \in Askers : rat[c] # "rest") => Size = 0 \/ Got(Size)[2] = "tail"

Stream == Lives => Waiting /\ InRest /\ AllEnded

BridgeInv == BridgeTypeOK /\ Exclusive /\ NotYet /\ OnlyHeads /\ Stream

\* The stream and its elements
LEMMA StreamTypes ==
    ASSUME BridgeTypeOK
    PROVE  /\ Len(line) \in Nat /\ Len(pipe) \in Nat /\ Size \in Nat
           /\ \A i \in 1..Size : Got(i) \in Piece
           /\ \A i \in 1..Len(line) : Got(i) = line[i] /\ line[i] \in Piece
           /\ \A i \in 1..Len(pipe) : Got(Len(line) + i) = pipe[i] /\ pipe[i] \in Piece
  <1>1. /\ line \in Seq(Piece) /\ pipe \in Seq(Piece)
    BY DEF BridgeTypeOK
  <1>2. Len(line) \in Nat /\ Len(pipe) \in Nat
    BY <1>1, LenProperties
  <1>3. /\ \A i \in 1..Len(line) : line[i] \in Piece
        /\ \A i \in 1..Len(pipe) : pipe[i] \in Piece
    BY <1>1, ElementOfSeq
  <1> HIDE DEF Piece
  <1> QED  BY <1>2, <1>3 DEF Got, Size

\* A piece more in the pipe
LEMMA Grow ==
    ASSUME BridgeTypeOK, NEW p \in Piece, pipe' = Append(pipe, p), line' = line
    PROVE  /\ pipe' \in Seq(Piece) /\ Len(pipe') = Len(pipe) + 1
           /\ Size' = Size + 1 /\ \A n : n = Size + 1 => Got(n)' = p
           /\ \A i \in 1..Size : Got(i)' = Got(i)
  <1>1. pipe \in Seq(Piece) /\ Len(line) \in Nat /\ Len(pipe) \in Nat
    BY StreamTypes DEF BridgeTypeOK
  <1>2. /\ pipe' \in Seq(Piece) /\ Len(pipe') = Len(pipe) + 1 /\ pipe'[Len(pipe) + 1] = p
        /\ \A i \in 1..Len(pipe) : pipe'[i] = pipe[i]
    BY <1>1, AppendProperties
  <1> HIDE DEF Piece
  <1> QED  BY <1>1, <1>2 DEF Got, Size

\* Two pieces more in the pipe
LEMMA GrowTwice ==
    ASSUME BridgeTypeOK, NEW p \in Piece, NEW q \in Piece,
           pipe' = Append(Append(pipe, p), q), line' = line
    PROVE  /\ pipe' \in Seq(Piece) /\ Len(pipe') = Len(pipe) + 2
           /\ Size' = Size + 2
           /\ \A n : (n = Size + 1 => Got(n)' = p) /\ (n = Size + 2 => Got(n)' = q)
           /\ \A i \in 1..Size : Got(i)' = Got(i)
  <1> DEFINE r == Append(pipe, p)
  <1>1. pipe \in Seq(Piece) /\ Len(line) \in Nat /\ Len(pipe) \in Nat
    BY StreamTypes DEF BridgeTypeOK
  <1>2. /\ r \in Seq(Piece) /\ Len(r) = Len(pipe) + 1 /\ r[Len(pipe) + 1] = p
        /\ \A i \in 1..Len(pipe) : r[i] = pipe[i]
    BY <1>1, AppendProperties
  <1> HIDE DEF r
  <1>3. pipe' = Append(r, q)
    BY DEF r
  <1>4. /\ pipe' \in Seq(Piece) /\ Len(pipe') = Len(r) + 1 /\ pipe'[Len(r) + 1] = q
        /\ \A i \in 1..Len(r) : pipe'[i] = r[i]
    BY <1>2, <1>3, AppendProperties
  <1>5. /\ Len(pipe') = Len(pipe) + 2 /\ pipe'[Len(pipe) + 2] = q /\ pipe'[Len(pipe) + 1] = p
        /\ \A i \in 1..Len(pipe) : pipe'[i] = pipe[i]
    BY <1>1, <1>2, <1>4
  <1>6. Size' = Size + 2 /\ \A i \in 1..Size : Got(i)' = Got(i)
    <2> HIDE DEF Piece
    <2> QED  BY <1>1, <1>5 DEF Got, Size
  <1>7. ASSUME NEW n, n = Size + 1 PROVE Got(n)' = p
    <2> HIDE DEF Piece
    <2> QED  BY <1>1, <1>5, <1>7 DEF Got, Size
  <1>8. ASSUME NEW n, n = Size + 2 PROVE Got(n)' = q
    <2> HIDE DEF Piece
    <2> QED  BY <1>1, <1>5, <1>8 DEF Got, Size
  <1> QED  BY <1>4, <1>5, <1>6, <1>7, <1>8

\* A whole line stays whole when the stream grows.
LEMMA WholeGrows ==
    ASSUME BridgeTypeOK, NEW n \in Nat, Size' = Size + n, \A i \in 1..Size : Got(i)' = Got(i), NEW k, Whole(k)
    PROVE  Whole(k)'
  <1>1. PICK i \in 1..(Size - 1) : /\ Got(i) = <<k, "head">> /\ Got(i + 1) = <<k, "tail">>
                                   /\ Clean(i)
    BY DEF Whole
  <1>2. Size \in Nat
    BY StreamTypes
  <1>3. i \in 1..(Size' - 1) /\ i \in 1..Size /\ i + 1 \in 1..Size /\ (i # 1 => i - 1 \in 1..Size)
    BY <1>1, <1>2
  <1>4. Got(i)' = <<k, "head">> /\ Got(i + 1)' = <<k, "tail">> /\ (i = 1 \/ Got(i - 1)'[2] = "tail")
    BY <1>1, <1>3 DEF Clean
  <1> QED  BY <1>3, <1>4 DEF Whole, Clean

\* A piece read that is no newline moves from the pipe to the line.
LEMMA Moved ==
    ASSUME BridgeTypeOK, pipe # <<>>, line' = Append(line, Head(pipe)), pipe' = Tail(pipe)
    PROVE  /\ line' \in Seq(Piece) /\ pipe' \in Seq(Piece) /\ Len(pipe') = Len(pipe) - 1
           /\ Len(line') = Len(line) + 1 /\ line'[Len(line) + 1] = Head(pipe)
           /\ \A i \in 1..Len(line) : line'[i] = line[i]
           /\ Size' = Size /\ \A i \in 1..Size : Got(i)' = Got(i)
  <1>1. /\ pipe \in Seq(Piece) /\ line \in Seq(Piece) /\ Len(line) \in Nat /\ Len(pipe) \in Nat \ {0}
    BY StreamTypes, EmptySeq DEF BridgeTypeOK
  <1>2. Head(pipe) \in Piece /\ Head(pipe) = pipe[1]
    BY <1>1, ElementOfSeq
  <1>3. /\ line' \in Seq(Piece) /\ Len(line') = Len(line) + 1 /\ line'[Len(line) + 1] = Head(pipe)
        /\ \A i \in 1..Len(line) : line'[i] = line[i]
    BY <1>1, <1>2, AppendProperties
  <1>4. /\ pipe' \in Seq(Piece) /\ Len(pipe') = Len(pipe) - 1
        /\ \A i \in 1..(Len(pipe) - 1) : pipe'[i] = pipe[i + 1]
    BY <1>1, HeadTailProperties
  <1> HIDE DEF Piece
  <1> QED  BY <1>1, <1>2, <1>3, <1>4 DEF Got, Size

\* A newline read takes the line out of the stream.
LEMMA Consumed ==
    ASSUME BridgeTypeOK, pipe # <<>>, line' = <<>>, pipe' = Tail(pipe)
    PROVE  /\ line' \in Seq(Piece) /\ pipe' \in Seq(Piece) /\ Len(pipe') = Len(pipe) - 1
           /\ Len(line') = 0 /\ Got(Len(line) + 1) = Head(pipe) /\ Head(pipe) \in Piece
           /\ Size' = Size - (Len(line) + 1) /\ Size > Len(line)
           /\ \A i \in 1..(Size - (Len(line) + 1)) : Got(i)' = Got(i + Len(line) + 1)
  <1>1. /\ pipe \in Seq(Piece) /\ Len(line) \in Nat /\ Len(pipe) \in Nat \ {0}
    BY StreamTypes, EmptySeq DEF BridgeTypeOK
  <1>2. Head(pipe) \in Piece /\ Head(pipe) = pipe[1]
    BY <1>1, ElementOfSeq
  <1>3. /\ pipe' \in Seq(Piece) /\ Len(pipe') = Len(pipe) - 1
        /\ \A i \in 1..(Len(pipe) - 1) : pipe'[i] = pipe[i + 1]
    BY <1>1, HeadTailProperties
  <1>4. line' \in Seq(Piece) /\ Len(line') = 0
    BY EmptySeq
  <1> HIDE DEF Piece
  <1> QED  BY <1>1, <1>2, <1>3, <1>4 DEF Got, Size

\* Steps that leave the stream alone keep what it says of the callers they leave alone.
LEMMA StreamKept ==
    ASSUME BridgeInv, UNCHANGED <<line, pipe>>
    PROVE  /\ OnlyHeads' /\ Size' = Size /\ \A i : Got(i)' = Got(i)
           /\ \A k : Whole(k)' <=> Whole(k)
  BY DEF BridgeInv, OnlyHeads, Size, Got, Whole, Clean

\* Initially there is nothing.
LEMMA BridgeInitInv == BridgeInit => BridgeInv
  <1> SUFFICES ASSUME BridgeInit PROVE BridgeInv  OBVIOUS
  <1>1. /\ <<>> \in Seq(Piece) /\ <<>> \in Seq(Ids) /\ Len(<<>>) = 0
    BY EmptySeq
  <1>2. BridgeTypeOK
    <2>1. Room \in Nat /\ MaxRequests \in Nat
      BY SidecarConstants
    <2>2. /\ pipe \in Seq(Piece) /\ Len(pipe) <= Room /\ line \in Seq(Piece)
          /\ answers \in Seq(Ids)
      <3> HIDE DEF Piece, Ids
      <3> QED  BY <1>1, <2>1 DEF BridgeInit
    <2>3. /\ rat \in [Askers -> {"idle", "lock", "write", "rest", "wait"}]
          /\ id \in [Askers -> 0..MaxRequests] /\ lastId \in 0..MaxRequests
          /\ pending \subseteq Ids /\ busy \in 0..MaxRequests
          /\ writer \in Askers \cup {NoAsker}
      BY <2>1 DEF BridgeInit
    <2>5. {stdin, reader} \subseteq BOOLEAN
      BY DEF BridgeInit
    <2>4. /\ python \in {"none", "boot", "up", "dead"}
          /\ closing \in {"no", "asks", "reaps", "done"}
          /\ torn \in BOOLEAN /\ spoiled \subseteq Askers
      BY DEF BridgeInit
    <2> QED  BY <2>2, <2>3, <2>4, <2>5 DEF BridgeTypeOK
  <1>3. Exclusive /\ NotYet /\ Stream
    BY DEF BridgeInit, Exclusive, NotYet, Stream, Lives
  <1>4. OnlyHeads
    BY <1>1 DEF BridgeInit, OnlyHeads
  <1> QED  BY <1>2, <1>3, <1>4 DEF BridgeInv

\* Every step keeps the types.
LEMMA BridgeTypes == BridgeInv /\ [BridgeNext]_bridgeVars => BridgeTypeOK'
  <1> SUFFICES ASSUME BridgeInv, [BridgeNext]_bridgeVars PROVE BridgeTypeOK'  OBVIOUS
  <1>0. BridgeTypeOK
    BY DEF BridgeInv
  <1>a. /\ Room \in Nat /\ MaxRequests \in Nat /\ Closer \in Askers
        /\ <<>> \in Seq(Piece) /\ Len(<<>>) = 0
    BY SidecarConstants, EmptySeq
  <1>b. ASSUME NEW c \in Askers, rat[c] # "idle"
        PROVE  <<id[c], "head">> \in Piece /\ <<id[c], "tail">> \in Piece
    BY <1>0, <1>b DEF BridgeInv, BridgeTypeOK, Exclusive, Piece, Ids
  <1>1. CASE UNCHANGED bridgeVars
    BY <1>0, <1>1 DEF BridgeTypeOK, bridgeVars, callers, channel, process
  <1>2. CASE SpawnPython \/ Ready \/ CloseStdin
    BY <1>0, <1>2 DEF SpawnPython, Ready, CloseStdin, BridgeTypeOK, callers, channel, process
  <1>3. CASE Reap \/ PythonEnds
    <2>1. /\ line' \in Seq(Piece) /\ pipe' \in Seq(Piece) /\ Len(pipe') <= Room
          /\ answers' \in Seq(Ids) /\ busy' \in 0..MaxRequests
          /\ python' \in {"none", "boot", "up", "dead"}
      <3> HIDE DEF Piece, Ids
      <3>1. CASE Reap
        <4>1. CASE Lives
          BY <1>0, <1>a, <3>1, <4>1 DEF Reap, Ended, BridgeTypeOK
        <4>2. CASE ~Lives
          BY <1>0, <1>a, <3>1, <4>2 DEF Reap, BridgeTypeOK
        <4> QED  BY <4>1, <4>2
      <3>2. CASE PythonEnds
        BY <1>0, <1>a, <3>2 DEF PythonEnds, Ended, BridgeTypeOK
      <3> QED  BY <1>3, <3>1, <3>2
    <2>2. /\ {stdin', reader'} \subseteq BOOLEAN /\ closing' \in {"no", "asks", "reaps", "done"}
          /\ UNCHANGED <<rat, id, lastId, pending, writer, torn, spoiled>>
      BY <1>0, <1>3 DEF Reap, PythonEnds, BridgeTypeOK, callers
    <2> QED  BY <1>0, <2>1, <2>2 DEF BridgeTypeOK
  <1>4. CASE Deliver
    <2>1. answers \in Seq(Ids) /\ answers # <<>>
      BY <1>0, <1>4 DEF Deliver, BridgeTypeOK
    <2>2. Tail(answers) \in Seq(Ids)
      BY <2>1, HeadTailProperties
    <2> QED  BY <1>0, <1>4, <2>2 DEF Deliver, BridgeTypeOK, channel
  <1>5. CASE Read
    <2>1. CASE Head(pipe)[2] = "head" /\ line' = Append(line, Head(pipe)) /\ UNCHANGED busy
      <3>1. line' \in Seq(Piece) /\ pipe' \in Seq(Piece) /\ Len(pipe') <= Room
        BY <1>0, <1>a, <1>5, <2>1, Moved, StreamTypes DEF Read, BridgeTypeOK
      <3> QED  BY <1>0, <1>5, <2>1, <3>1 DEF Read, BridgeTypeOK, callers
    <2>2. CASE /\ line' = <<>>
               /\ busy' = (IF line = <<<<Head(pipe)[1], "head">>>> THEN Head(pipe)[1] ELSE 0)
      <3>1. /\ line' \in Seq(Piece) /\ pipe' \in Seq(Piece) /\ Len(pipe') <= Room
            /\ Head(pipe) \in Piece
        BY <1>0, <1>a, <1>5, <2>2, Consumed, StreamTypes DEF Read, BridgeTypeOK
      <3>2. busy' \in 0..MaxRequests
        BY <2>2, <3>1, <1>a DEF Piece, Ids
      <3> QED  BY <1>0, <1>5, <3>1, <3>2 DEF Read, BridgeTypeOK, callers
    <2> QED  BY <1>5, <2>1, <2>2 DEF Read
  <1>6. CASE Respond
    <2>1. busy \in Ids /\ answers \in Seq(Ids)
      BY <1>0, <1>6 DEF Respond, BridgeTypeOK, Ids
    <2>2. answers' \in Seq(Ids)
      BY <1>6, <2>1, AppendProperties DEF Respond
    <2>3. /\ line' \in Seq(Piece) /\ pipe' \in Seq(Piece) /\ Len(pipe') <= Room
          /\ busy' \in 0..MaxRequests /\ python' \in {"none", "boot", "up", "dead"}
      <3> HIDE DEF Piece, Ids
      <3>1. CASE Ended /\ pipe' = <<>>
        BY <1>a, <3>1 DEF Ended
      <3>2. CASE busy' = 0 /\ UNCHANGED <<python, line, pipe>>
        BY <1>0, <1>a, <3>2 DEF BridgeTypeOK
      <3> QED  BY <1>6, <3>1, <3>2 DEF Respond
    <2> QED  BY <1>0, <1>6, <2>2, <2>3 DEF Respond, BridgeTypeOK, callers
  <1>7. ASSUME NEW c \in Askers,
               \/ AskPython(c) \/ NoStdin(c) \/ TakeStdin(c) \/ WriteFails(c)
               \/ NoAnswer(c) \/ RequestDropped(c)
        PROVE  BridgeTypeOK'
    <2>1. UNCHANGED <<stdin, reader, pipe, python, line, busy, answers>>
      BY <1>7 DEF AskPython, NoStdin, TakeStdin, WriteFails, NoAnswer, RequestDropped, channel, process
    <2>2. /\ rat' \in [Askers -> {"idle", "lock", "write", "rest", "wait"}]
          /\ writer' \in Askers \cup {NoAsker} /\ torn' \in BOOLEAN /\ spoiled' \subseteq Askers
          /\ closing' \in {"no", "asks", "reaps", "done"}
      <3> HIDE DEF Piece, Ids
      <3>1. CASE AskPython(c)
        BY <1>0, <3>1 DEF AskPython, Moves, BridgeTypeOK, channel
      <3>2. CASE NoStdin(c) \/ TakeStdin(c)
        BY <1>0, <3>2 DEF NoStdin, TakeStdin, Moves, BridgeTypeOK, channel
      <3>3. CASE WriteFails(c) \/ NoAnswer(c) \/ RequestDropped(c)
        BY <1>0, <3>3 DEF WriteFails, NoAnswer, RequestDropped, Moves, BridgeTypeOK, channel
      <3> QED  BY <1>7, <3>1, <3>2, <3>3
    <2>3. id' \in [Askers -> 0..MaxRequests] /\ lastId' \in 0..MaxRequests /\ pending' \subseteq Ids
      <3>1. CASE AskPython(c)
        BY <1>0, <1>a, <3>1 DEF AskPython, BridgeTypeOK, Ids
      <3>2. CASE ~AskPython(c)
        BY <1>0, <1>7, <3>2 DEF NoStdin, TakeStdin, WriteFails, NoAnswer, RequestDropped, BridgeTypeOK
      <3> QED  BY <3>1, <3>2
    <2> QED  BY <1>0, <2>1, <2>2, <2>3 DEF BridgeTypeOK
  <1>8. ASSUME NEW c \in Askers, WriteLine(c) PROVE BridgeTypeOK'
    <2>1. pipe' \in Seq(Piece) /\ Len(pipe') = Len(pipe) + 2
      BY <1>0, <1>b, <1>8, GrowTwice DEF WriteLine, process
    <2> QED  BY <1>0, <1>8, <2>1, StreamTypes DEF WriteLine, Begins, Moves, BridgeTypeOK, process
  <1>9. ASSUME NEW c \in Askers, WritePart(c) \/ WriteRest(c) PROVE BridgeTypeOK'
    <2>1. pipe' \in Seq(Piece) /\ Len(pipe') = Len(pipe) + 1
      BY <1>0, <1>b, <1>9, Grow DEF WritePart, WriteRest, process
    <2>2. Len(pipe') <= Room
      BY <1>0, <1>a, <1>9, <2>1, StreamTypes DEF WritePart, WriteRest
    <2> QED  BY <1>0, <1>9, <2>1, <2>2 DEF WritePart, WriteRest, Begins, Moves, BridgeTypeOK, process
  <1> QED  BY <1>1, <1>2, <1>3, <1>4, <1>5, <1>6, <1>7, <1>8, <1>9 DEF BridgeNext

\* The lock, the time before the process, and the line it has of a request.
LEMMA BridgeShape == BridgeInv /\ [BridgeNext]_bridgeVars => Exclusive' /\ NotYet' /\ OnlyHeads'
  <1> SUFFICES ASSUME BridgeInv, [BridgeNext]_bridgeVars PROVE Exclusive' /\ NotYet' /\ OnlyHeads'
    OBVIOUS
  <1>0. BridgeTypeOK /\ Exclusive /\ NotYet /\ OnlyHeads
    BY DEF BridgeInv
  <1>a. /\ NoAsker \notin Askers /\ \A c \in Askers : id[c] \in Nat
        /\ rat \in [Askers -> {"idle", "lock", "write", "rest", "wait"}] /\ lastId \in Nat
        /\ id \in [Askers -> 0..MaxRequests]
    BY <1>0, SidecarConstants DEF BridgeTypeOK
  <1>1. CASE UNCHANGED bridgeVars \/ SpawnPython \/ CloseStdin \/ Ready
    BY <1>0, <1>1 DEF bridgeVars, callers, channel, process, SpawnPython, CloseStdin, Ready,
       Exclusive, NotYet, OnlyHeads
  <1>2. CASE Reap
    <2>1. CASE Lives
      BY <1>0, <1>2, <2>1 DEF Reap, Ended, callers, Exclusive, NotYet, OnlyHeads
    <2>2. CASE ~Lives
      BY <1>0, <1>2, <2>2 DEF Reap, callers, Exclusive, NotYet, OnlyHeads
    <2> QED  BY <2>1, <2>2
  <1>3. CASE PythonEnds
    BY <1>0, <1>3 DEF PythonEnds, Ended, callers, Exclusive, NotYet, OnlyHeads
  <1>4. CASE Respond
    <2>1. CASE Ended /\ pipe' = <<>>
      BY <1>0, <1>4, <2>1 DEF Respond, Ended, callers, Exclusive, NotYet, OnlyHeads
    <2>2. CASE UNCHANGED <<python, line, pipe>>
      BY <1>0, <1>4, <2>2 DEF Respond, callers, Exclusive, NotYet, OnlyHeads
    <2> QED  BY <1>4, <2>1, <2>2 DEF Respond
  <1>5. CASE Deliver
    <2>1. \A c \in Askers : rat'[c] = rat[c] \/ (rat[c] = "wait" /\ rat'[c] = "idle")
      BY <1>a, <1>5 DEF Deliver
    <2> QED  BY <1>0, <1>5, <2>1 DEF Deliver, channel, Exclusive, NotYet, OnlyHeads
  <1>6. CASE Read
    <2>1. Exclusive' /\ NotYet'
      BY <1>0, <1>6 DEF Read, callers, Exclusive, NotYet
    <2>2. OnlyHeads'
      <3>1. CASE Head(pipe)[2] = "head" /\ line' = Append(line, Head(pipe))
        <4>1. /\ Len(line') = Len(line) + 1 /\ line'[Len(line) + 1] = Head(pipe)
              /\ \A i \in 1..Len(line) : line'[i] = line[i]
              /\ Len(line) \in Nat
          BY <1>0, <1>6, <3>1, Moved, StreamTypes DEF Read
        <4> QED  BY <1>0, <3>1, <4>1 DEF OnlyHeads
      <3>2. CASE line' = <<>>
        BY <3>2, EmptySeq DEF OnlyHeads
      <3> QED  BY <1>6, <3>1, <3>2 DEF Read
    <2> QED  BY <2>1, <2>2
  <1>7. ASSUME NEW c \in Askers,
               \/ AskPython(c) \/ NoStdin(c) \/ TakeStdin(c)
               \/ WriteLine(c) \/ WritePart(c) \/ WriteRest(c) \/ WriteFails(c)
               \/ NoAnswer(c) \/ RequestDropped(c)
        PROVE  Exclusive' /\ NotYet' /\ OnlyHeads'
    <2>1. line' = line /\ python' = python
      BY <1>7 DEF AskPython, NoStdin, TakeStdin, WriteLine, WritePart, WriteRest, WriteFails, NoAnswer,
         RequestDropped, process
    <2>2. CASE AskPython(c)
      BY <1>0, <1>a, <2>1, <2>2 DEF AskPython, Moves, channel, Exclusive, NotYet, OnlyHeads
    <2>3. CASE NoStdin(c) \/ TakeStdin(c)
      BY <1>0, <1>a, <2>1, <2>3 DEF NoStdin, TakeStdin, Moves, channel, Exclusive, NotYet, OnlyHeads
    <2>4. CASE WriteLine(c) \/ WritePart(c) \/ WriteRest(c)
      BY <1>0, <1>a, <2>1, <2>4 DEF WriteLine, WritePart, WriteRest, Moves, Lives, Exclusive, NotYet,
         OnlyHeads
    <2>5. CASE WriteFails(c) \/ NoAnswer(c)
      BY <1>0, <1>a, <2>1, <2>5 DEF WriteFails, NoAnswer, Moves, channel, Exclusive, NotYet, OnlyHeads
    <2>6. CASE RequestDropped(c)
      BY <1>0, <1>a, <2>1, <2>6 DEF RequestDropped, Moves, Exclusive, NotYet, OnlyHeads
    <2> QED  BY <1>7, <2>2, <2>3, <2>4, <2>5, <2>6
  <1> QED  BY <1>1, <1>2, <1>3, <1>4, <1>5, <1>6, <1>7 DEF BridgeNext

\* Steps that leave the stream alone, and no caller waiting for more than before
LEMMA Quiet ==
    ASSUME BridgeInv, Lives, UNCHANGED <<line, pipe>>,
           \A c \in Askers : rat'[c] = "wait" /\ c \notin spoiled' =>
              /\ rat[c] = "wait" /\ c \notin spoiled /\ id'[c] = id[c]
              /\ busy = id[c] \/ Back(id[c]) =>
                    busy' = id[c] \/ id[c] \in {answers'[i] : i \in DOMAIN answers'},
           \A c \in Askers : rat'[c] = "rest" =>
              rat[c] = "rest" /\ id'[c] = id[c] /\ (c \notin spoiled' => c \notin spoiled),
           ~torn' /\ (\A c \in Askers : rat'[c] # "rest") =>
              ~torn /\ (\A c \in Askers : rat[c] # "rest")
    PROVE  Stream'
  <1>1. /\ Waiting /\ InRest /\ AllEnded
        /\ Size' = Size /\ \A i : Got(i)' = Got(i)
        /\ \A k : Whole(k)' <=> Whole(k)
    BY StreamKept DEF BridgeInv, Stream
  <1>2. Waiting'
    <2> SUFFICES ASSUME NEW c \in Askers, rat'[c] = "wait", c \notin spoiled'
                 PROVE  (Whole(id[c]) \/ busy = id[c] \/ Back(id[c]))'
      BY DEF Waiting
    <2>1. Whole(id[c]) \/ busy = id[c] \/ Back(id[c])
      BY <1>1 DEF Waiting
    <2>2. id'[c] = id[c]
      OBVIOUS
    <2>3. CASE Whole(id[c])
      BY <1>1, <2>2, <2>3 DEF Whole, Clean
    <2>4. CASE busy = id[c] \/ Back(id[c])
      BY <2>2, <2>4 DEF Back
    <2> QED  BY <2>1, <2>3, <2>4
  <1>3. InRest'
    BY <1>1 DEF InRest, Clean
  <1>4. AllEnded'
    BY <1>1 DEF AllEnded
  <1> QED  BY <1>2, <1>3, <1>4 DEF Stream

\* Steps that put something at the end of the stream: whoever else waits finds it as before.
LEMMA Written ==
    ASSUME BridgeInv, Lives, NEW n \in Nat, Size' = Size + n, \A i \in 1..Size : Got(i)' = Got(i),
           UNCHANGED <<id, busy, answers>>, NEW c \in Askers,
           \A d \in Askers \ {c} : rat'[d] = rat[d] /\ (d \in spoiled' <=> d \in spoiled),
           rat'[c] = "wait" /\ c \notin spoiled' => Whole(id[c])'
    PROVE  Waiting'
  <1> SUFFICES ASSUME NEW d \in Askers, rat'[d] = "wait", d \notin spoiled'
               PROVE  (Whole(id[d]) \/ busy = id[d] \/ Back(id[d]))'
    BY DEF Waiting
  <1>1. CASE d = c
    BY <1>1
  <1>2. CASE d # c
    <2>1. Whole(id[d]) \/ busy = id[d] \/ Back(id[d])
      BY <1>2 DEF BridgeInv, Stream, Waiting
    <2>2. id'[d] = id[d] /\ busy' = busy /\ answers' = answers
      OBVIOUS
    <2>3. CASE Whole(id[d])
      <3> DEFINE k == id[d]
      <3>1. Whole(k)'
        <4>1. \A j : Whole(j) => Whole(j)'
          BY WholeGrows DEF BridgeInv
        <4> QED  BY <2>2, <2>3, <4>1
      <3> QED  BY <2>2, <3>1
    <2>4. CASE busy = id[d] \/ Back(id[d])
      BY <2>2, <2>4 DEF Back
    <2> QED  BY <2>1, <2>3, <2>4
  <1> QED  BY <1>1, <1>2

\* A line that begins when nobody is within one, and not behind a torn one, begins clean.
LEMMA BeginsClean ==
    ASSUME BridgeInv, Lives, NEW c \in Askers, rat[c] = "write", ~torn
    PROVE  Size = 0 \/ Got(Size)[2] = "tail"
  <1>1. \A d \in Askers : rat[d] # "rest"
    BY DEF BridgeInv, Exclusive
  <1> QED  BY <1>1 DEF BridgeInv, Stream, AllEnded

\* A line written at once is in the stream as a whole.
LEMMA LineWritten ==
    ASSUME BridgeInv, NEW c \in Askers, WriteLine(c)
    PROVE  Stream'
  <1>0. /\ BridgeTypeOK /\ Lives /\ rat[c] = "write" /\ Size \in Nat
        /\ <<id[c], "head">> \in Piece /\ <<id[c], "tail">> \in Piece
        /\ line' = line /\ UNCHANGED <<id, busy, answers>> /\ ~torn'
    BY StreamTypes DEF BridgeInv, WriteLine, BridgeTypeOK, Exclusive, Piece, Ids, process
  <1>1. /\ Size' = Size + 2
        /\ \A n : (n = Size + 1 => Got(n)' = <<id[c], "head">>)
                /\ (n = Size + 2 => Got(n)' = <<id[c], "tail">>)
        /\ \A i \in 1..Size : Got(i)' = Got(i)
    BY <1>0, GrowTwice DEF WriteLine
  <1>2. /\ \A d \in Askers \ {c} : rat'[d] = rat[d] /\ (d \in spoiled' <=> d \in spoiled)
        /\ rat'[c] = "wait"
        /\ c \notin spoiled' => ~torn
        /\ \A d \in Askers : rat'[d] # "rest"
    BY <1>0 DEF WriteLine, Begins, Moves, BridgeInv, BridgeTypeOK, Exclusive
  <1>3. ASSUME c \notin spoiled' PROVE Whole(id[c])'
    <2> DEFINE i == Size + 1
    <2>1. i \in 1..(Size' - 1) /\ (i # 1 => i - 1 \in 1..Size /\ i - 1 = Size)
      BY <1>0, <1>1
    <2>2. Size = 0 \/ Got(Size)[2] = "tail"
      BY <1>0, <1>2, <1>3, BeginsClean
    <2>3. i = 1 \/ (i - 1 \in 1..Size /\ Got(i - 1)[2] = "tail")
      BY <1>0, <2>1, <2>2
    <2>4. PICK j : j = i
      OBVIOUS
    <2> HIDE DEF i
    <2>5. /\ j \in 1..(Size' - 1) /\ Got(j)' = <<id[c], "head">> /\ Got(j + 1)' = <<id[c], "tail">>
          /\ j = 1 \/ (j - 1 \in 1..Size /\ Got(j - 1)[2] = "tail")
      BY <1>0, <1>1, <2>1, <2>3, <2>4 DEF i
    <2>6. j = 1 \/ Got(j - 1)'[2] = "tail"
      BY <1>1, <2>5
    <2>7. id' = id
      BY <1>0
    <2> QED  BY <2>5, <2>6, <2>7 DEF Whole, Clean
  <1>4. Waiting'
    BY <1>0, <1>1, <1>2, <1>3, Written
  <1>5. InRest'
    BY <1>2 DEF InRest
  <1>6. AllEnded'
    <2>1. PICK n : n = Size + 2 /\ n = Size'
      BY <1>1
    <2>2. Got(n)' = <<id[c], "tail">>
      BY <1>1, <2>1
    <2>3. Got(Size)' = <<id[c], "tail">>
      BY <2>1, <2>2 DEF Got
    <2> QED  BY <2>3 DEF AllEnded
  <1> QED  BY <1>4, <1>5, <1>6 DEF Stream

\* The beginning of a line, at the end of the stream
LEMMA PartWritten ==
    ASSUME BridgeInv, NEW c \in Askers, WritePart(c)
    PROVE  Stream'
  <1>0. /\ BridgeTypeOK /\ Lives /\ rat[c] = "write" /\ Size \in Nat
        /\ <<id[c], "head">> \in Piece
        /\ line' = line /\ UNCHANGED <<id, busy, answers>>
    BY StreamTypes DEF BridgeInv, WritePart, BridgeTypeOK, Exclusive, Piece, Ids, process
  <1>1. /\ Size' = Size + 1
        /\ \A n : n = Size + 1 => Got(n)' = <<id[c], "head">>
        /\ \A i \in 1..Size : Got(i)' = Got(i)
    BY <1>0, Grow DEF WritePart
  <1>2. /\ \A d \in Askers \ {c} : rat'[d] = rat[d] /\ (d \in spoiled' <=> d \in spoiled)
        /\ rat'[c] = "rest"
        /\ c \notin spoiled' => ~torn
        /\ \A d \in Askers : rat'[d] = "rest" => d = c
    BY <1>0 DEF WritePart, Begins, Moves, BridgeInv, BridgeTypeOK, Exclusive
  <1>3. Waiting'
    BY <1>0, <1>1, <1>2, Written
  <1>4. PICK n : n = Size + 1 /\ n = Size'
    BY <1>1
  <1>5. Got(n)' = <<id[c], "head">> /\ n > 0
    BY <1>0, <1>1, <1>4
  <1>6. Got(Size)' = <<id[c], "head">> /\ Size' > 0
    BY <1>4, <1>5 DEF Got
  <1>7. ASSUME c \notin spoiled' PROVE Clean(Size)'
    <2>1. Size = 0 \/ Got(Size)[2] = "tail"
      BY <1>0, <1>2, <1>7, BeginsClean
    <2>2. n = 1 \/ (n - 1 \in 1..Size /\ Got(n - 1)[2] = "tail")
      BY <1>0, <1>4, <2>1
    <2>3. n = 1 \/ Got(n - 1)'[2] = "tail"
      BY <1>1, <2>2
    <2> QED  BY <1>4, <2>3 DEF Clean, Got
  <1>8. InRest'
    <2>1. id' = id
      BY <1>0
    <2> QED  BY <1>2, <1>6, <1>7, <2>1 DEF InRest
  <1>9. AllEnded'
    BY <1>2 DEF AllEnded
  <1> QED  BY <1>3, <1>8, <1>9 DEF Stream

\* The end of a line, right behind its beginning
LEMMA RestWritten ==
    ASSUME BridgeInv, NEW c \in Askers, WriteRest(c)
    PROVE  Stream'
  <1>0. /\ BridgeTypeOK /\ Lives /\ rat[c] = "rest" /\ Size \in Nat
        /\ <<id[c], "tail">> \in Piece
        /\ line' = line /\ UNCHANGED <<id, busy, answers, spoiled>>
    BY StreamTypes DEF BridgeInv, WriteRest, BridgeTypeOK, Exclusive, Piece, Ids, process
  <1>1. /\ Size' = Size + 1
        /\ \A n : n = Size + 1 => Got(n)' = <<id[c], "tail">>
        /\ \A i \in 1..Size : Got(i)' = Got(i)
    BY <1>0, Grow DEF WriteRest
  <1>2. /\ \A d \in Askers \ {c} : rat'[d] = rat[d] /\ (d \in spoiled' <=> d \in spoiled)
        /\ \A d \in Askers : rat'[d] # "rest"
    BY <1>0 DEF WriteRest, Moves, BridgeInv, BridgeTypeOK, Exclusive
  <1>3. ASSUME c \notin spoiled' PROVE Whole(id[c])'
    <2>1. Size > 0 /\ Got(Size) = <<id[c], "head">> /\ Clean(Size)
      BY <1>0, <1>3 DEF BridgeInv, Stream, InRest
    <2>2. PICK j : j = Size
      OBVIOUS
    <2>3. /\ j \in 1..Size /\ j \in 1..(Size' - 1) /\ Got(j) = <<id[c], "head">>
          /\ j + 1 = Size + 1 /\ (j = 1 \/ (j - 1 \in 1..Size /\ Got(j - 1)[2] = "tail"))
      BY <1>0, <1>1, <2>1, <2>2 DEF Clean
    <2>4. /\ Got(j)' = <<id[c], "head">> /\ Got(j + 1)' = <<id[c], "tail">>
          /\ j = 1 \/ Got(j - 1)'[2] = "tail"
      BY <1>1, <2>3
    <2>5. id' = id
      BY <1>0
    <2> QED  BY <2>3, <2>4, <2>5 DEF Whole, Clean
  <1>4. Waiting'
    BY <1>0, <1>1, <1>2, <1>3, Written
  <1>5. InRest'
    BY <1>2 DEF InRest
  <1>6. AllEnded'
    <2>1. PICK n : n = Size + 1 /\ n = Size'
      BY <1>1
    <2>2. Got(n)' = <<id[c], "tail">>
      BY <1>1, <2>1
    <2>3. Got(Size)' = <<id[c], "tail">>
      BY <2>1, <2>2 DEF Got
    <2> QED  BY <2>3 DEF AllEnded
  <1> QED  BY <1>4, <1>5, <1>6 DEF Stream

\* Python reads a piece: a line that comes out whole becomes its work.
LEMMA PieceRead == BridgeInv /\ Read => Stream'
  <1> SUFFICES ASSUME BridgeInv, Read PROVE Stream'  OBVIOUS
  <1>0. /\ BridgeTypeOK /\ OnlyHeads /\ Lives /\ Waiting /\ InRest /\ AllEnded /\ busy = 0
        /\ \A c \in Askers : rat[c] # "idle" => id[c] # 0
        /\ Len(line) \in Nat /\ Len(pipe) \in Nat /\ Size \in Nat /\ pipe # <<>>
        /\ UNCHANGED <<rat, id, answers, torn, spoiled>>
    BY StreamTypes DEF BridgeInv, Stream, Exclusive, Read, Lives, callers
  <1>1. CASE Head(pipe)[2] = "head" /\ line' = Append(line, Head(pipe)) /\ UNCHANGED busy
    <2>1. Size' = Size /\ \A i \in 1..Size : Got(i)' = Got(i)
      BY <1>0, <1>1, Moved DEF Read
    <2>2. \A k : Whole(k) => Whole(k)'
      BY <1>0, <2>1, WholeGrows
    <2>3. Waiting'
      <3> SUFFICES ASSUME NEW c \in Askers, rat[c] = "wait", c \notin spoiled
                   PROVE  (Whole(id[c]) \/ busy = id[c] \/ Back(id[c]))'
        BY <1>0 DEF Waiting
      <3>1. CASE Whole(id[c])
        BY <1>0, <2>2, <3>1
      <3>2. CASE busy = id[c] \/ Back(id[c])
        BY <1>0, <1>1, <3>2 DEF Back
      <3> QED  BY <1>0, <3>1, <3>2 DEF Waiting
    <2>4. ASSUME Size > 0 PROVE Got(Size)' = Got(Size) /\ (Clean(Size) => Clean(Size)')
      <3>1. PICK j : j = Size
        OBVIOUS
      <3>2. j \in 1..Size /\ (j # 1 => j - 1 \in 1..Size)
        BY <1>0, <2>4, <3>1
      <3> QED  BY <2>1, <3>1, <3>2 DEF Clean, Got
    <2>5. InRest'
      BY <1>0, <2>1, <2>4 DEF InRest
    <2>6. AllEnded'
      BY <1>0, <2>1, <2>4 DEF AllEnded
    <2> QED  BY <2>3, <2>5, <2>6 DEF Stream
  <1>2. CASE /\ Head(pipe)[2] = "tail" /\ line' = <<>>
             /\ busy' = (IF line = <<<<Head(pipe)[1], "head">>>> THEN Head(pipe)[1] ELSE 0)
    <2> DEFINE m == Len(line) + 1
    <2>1. /\ Got(m) = Head(pipe) /\ Size' = Size - m /\ Size >= m /\ m \in Nat \ {0}
          /\ \A i \in 1..(Size - m) : Got(i)' = Got(i + m)
      <3>1. /\ Got(m) = Head(pipe) /\ Size' = Size - m /\ Size > Len(line)
            /\ \A i \in 1..(Size - m) : Got(i)' = Got(i + Len(line) + 1)
        BY <1>0, <1>2, Consumed DEF Read
      <3> QED  BY <1>0, <3>1
    <2>2. \A i \in 1..(m - 1) : Got(i)[2] = "head" /\ Got(i) = line[i]
      BY <1>0, StreamTypes DEF OnlyHeads
    <2>3. line \in Seq(Piece)
      BY <1>0 DEF BridgeTypeOK
    <2>4. ASSUME NEW c \in Askers, rat[c] = "wait", Whole(id[c])
          PROVE  Whole(id[c])' \/ busy' = id[c]
      <3>1. PICK i \in 1..(Size - 1) : /\ Got(i) = <<id[c], "head">> /\ Got(i + 1) = <<id[c], "tail">>
                                       /\ Clean(i)
        BY <2>4 DEF Whole
      <3>2. i # m /\ ~(i + 1 \in 1..(m - 1))
        BY <1>2, <2>1, <2>2, <3>1
      <3>3. CASE i + 1 = m
        <4>1. i \in 1..(m - 1) /\ (i # 1 => i - 1 \in 1..(m - 1))
          BY <2>1, <3>1, <3>3
        <4>2. i = 1
          BY <2>2, <3>1, <4>1 DEF Clean
        <4>3. Len(line) = 1 /\ line[1] = <<id[c], "head">> /\ Head(pipe) = <<id[c], "tail">>
          <5>1. Len(line) = 1
            <6>1. i = 1 /\ i + 1 = Len(line) + 1 /\ Len(line) \in Nat
              BY <1>0, <3>3, <4>2
            <6> QED  BY <6>1
          <5>2. line[1] = <<id[c], "head">>
            BY <2>2, <3>1, <4>1, <4>2
          <5>3. Head(pipe) = Got(i + 1)
            BY <2>1, <3>3
          <5> QED  BY <3>1, <5>1, <5>2, <5>3
        <4>4. line = <<<<id[c], "head">>>>
          <5>1. PICK h : h = <<id[c], "head">>
            OBVIOUS
          <5>2. line = [n \in 1..1 |-> line[n]]
            BY <2>3, <4>3, LenProperties
          <5>3. line = [n \in 1..1 |-> h]
            BY <4>3, <5>1, <5>2
          <5>4. <<h>> = [n \in 1..1 |-> h]
            OBVIOUS
          <5> QED  BY <5>1, <5>3, <5>4
        <4> QED  BY <1>2, <4>3, <4>4
      <3>4. CASE i > m
        <4>1. PICK j : j = i - m
          OBVIOUS
        <4>2. /\ j \in 1..(Size - m) /\ j + 1 \in 1..(Size - m) /\ j \in 1..(Size' - 1)
              /\ j + m = i /\ (j + 1) + m = i + 1 /\ i # 1
              /\ j # 1 => j - 1 \in 1..(Size - m) /\ (j - 1) + m = i - 1
          BY <1>0, <2>1, <3>1, <3>4, <4>1
        <4>3. /\ Got(j)' = <<id[c], "head">> /\ Got(j + 1)' = <<id[c], "tail">>
              /\ j # 1 => Got(j - 1)'[2] = "tail"
          BY <2>1, <3>1, <4>2 DEF Clean
        <4> QED  BY <1>0, <4>2, <4>3 DEF Whole, Clean
      <3> QED  BY <2>1, <3>1, <3>2, <3>3, <3>4
    <2>5. Waiting'
      <3> SUFFICES ASSUME NEW c \in Askers, rat[c] = "wait", c \notin spoiled
                   PROVE  (Whole(id[c]) \/ busy = id[c] \/ Back(id[c]))'
        BY <1>0 DEF Waiting
      <3>1. CASE Whole(id[c])
        BY <1>0, <2>4, <3>1
      <3>2. CASE Back(id[c])
        BY <1>0, <3>2 DEF Back
      <3> QED  BY <1>0, <3>1, <3>2 DEF Waiting
    <2>6. ASSUME Size > m
          PROVE  Size' > 0 /\ Got(Size)' = Got(Size) /\ (Clean(Size) => Clean(Size)')
      <3>1. PICK j : j = Size - m
        OBVIOUS
      <3>2. /\ j \in 1..(Size - m) /\ j = Size' /\ j + m = Size /\ j > 0
            /\ Size # 1 /\ (j # 1 => j - 1 \in 1..(Size - m) /\ (j - 1) + m = Size - 1)
        BY <1>0, <2>1, <2>6, <3>1
      <3>3. Got(j)' = Got(Size) /\ (j # 1 => Got(j - 1)' = Got(Size - 1))
        BY <2>1, <3>2
      <3> QED  BY <3>2, <3>3 DEF Clean, Got
    <2>7. InRest'
      <3> SUFFICES ASSUME NEW c \in Askers, rat[c] = "rest"
                   PROVE  /\ Size' > 0 /\ Got(Size)' = <<id[c], "head">>
                          /\ c \notin spoiled => Clean(Size)'
        BY <1>0 DEF InRest
      <3>1. Got(Size) = <<id[c], "head">> /\ (c \notin spoiled => Clean(Size))
        BY <1>0 DEF InRest
      <3>2. Size # m
        BY <1>2, <2>1, <3>1
      <3> QED  BY <1>0, <2>1, <2>6, <3>1, <3>2
    <2>8. AllEnded'
      <3> SUFFICES ASSUME Size = 0 \/ Got(Size)[2] = "tail"
                   PROVE  Size' = 0 \/ Got(Size)'[2] = "tail"
        BY <1>0 DEF AllEnded
      <3> QED  BY <1>0, <2>1, <2>6
    <2> QED  BY <2>5, <2>7, <2>8 DEF Stream
  <1> QED  BY <1>1, <1>2 DEF Read

\* Every step keeps what the stream says.
LEMMA BridgeStream == BridgeInv /\ [BridgeNext]_bridgeVars => Stream'
  <1> SUFFICES ASSUME BridgeInv, [BridgeNext]_bridgeVars, Lives' PROVE Stream'
    BY DEF Stream
  <1>0. /\ BridgeTypeOK /\ Exclusive /\ NotYet
        /\ rat \in [Askers -> {"idle", "lock", "write", "rest", "wait"}]
        /\ id \in [Askers -> 0..MaxRequests] /\ answers \in Seq(Ids)
    BY DEF BridgeInv, BridgeTypeOK
  <1>1. CASE SpawnPython
    <2>1. /\ \A c \in Askers : rat'[c] \in {"idle", "lock"}
          /\ line' = <<>> /\ pipe' = <<>>
      BY <1>0, <1>1 DEF SpawnPython, NotYet, callers
    <2>2. Size' = 0
      BY <2>1, EmptySeq DEF Size
    <2> QED  BY <2>1, <2>2 DEF Stream, Waiting, InRest, AllEnded
  <1>2. CASE UNCHANGED bridgeVars
    <2>1. Lives
      BY <1>2 DEF Lives, bridgeVars, process
    <2>2. UNCHANGED <<rat, id, line, pipe, busy, answers, torn, spoiled>>
      BY <1>2 DEF bridgeVars, callers, channel, process
    <2> QED  BY <2>1, <2>2, Quiet DEF Back
  <1>3. CASE CloseStdin \/ Ready
    <2>1. Lives
      BY <1>3 DEF Lives, CloseStdin, Ready, process
    <2>2. UNCHANGED <<rat, id, line, pipe, busy, answers, torn, spoiled>>
      BY <1>3 DEF CloseStdin, Ready, callers, channel, process
    <2> QED  BY <2>1, <2>2, Quiet DEF Back
  <1>4. CASE Reap
    BY <1>4 DEF Reap, Lives, Ended
  <1>5. CASE PythonEnds
    BY <1>5 DEF PythonEnds, Lives, Ended
  <1>6. CASE Deliver
    <2>1. Lives
      BY <1>6 DEF Lives, Deliver
    <2>2. answers # <<>> /\ answers' = Tail(answers)
      BY <1>6 DEF Deliver
    <2>3. \A c \in Askers : rat'[c] = (IF rat[c] = "wait" /\ id[c] = Head(answers)
                                      THEN "idle" ELSE rat[c])
      BY <1>0, <1>6 DEF Deliver
    <2>4. UNCHANGED <<line, pipe, id, busy, torn, spoiled>>
      BY <1>6 DEF Deliver, channel
    <2>5. ASSUME NEW k, Back(k), k # Head(answers)
          PROVE  k \in {answers'[i] : i \in DOMAIN answers'}
      <3>1. PICK i \in DOMAIN answers : answers[i] = k
        BY <2>5 DEF Back
      <3>2. i \in 1..Len(answers) /\ i # 1 /\ Len(answers) \in Nat
        BY <1>0, <2>2, <2>5, <3>1, LenProperties
      <3>3. /\ Len(answers') = Len(answers) - 1 /\ answers' \in Seq(Ids)
            /\ \A n \in 1..(Len(answers) - 1) : answers'[n] = answers[n + 1]
        BY <1>0, <2>2, HeadTailProperties
      <3>4. i - 1 \in 1..(Len(answers) - 1) /\ (i - 1) + 1 = i
        BY <3>2
      <3>5. i - 1 \in DOMAIN answers' /\ answers'[i - 1] = k
        BY <3>1, <3>3, <3>4, LenProperties
      <3> QED  BY <3>5
    <2> QED  BY <2>1, <2>3, <2>4, <2>5, Quiet
  <1>7. CASE Respond
    <2>1. CASE Ended
      BY <2>1 DEF Ended, Lives
    <2>2. CASE busy' = 0 /\ UNCHANGED <<python, line, pipe>>
      <3>1. Lives /\ UNCHANGED <<rat, id, torn, spoiled>> /\ busy \in Ids /\ answers' = Append(answers, busy)
        BY <1>0, <1>7, <2>2 DEF Respond, Lives, callers, BridgeTypeOK, Ids
      <3>2. ASSUME NEW k, busy = k \/ Back(k) PROVE k \in {answers'[i] : i \in DOMAIN answers'}
        <4>1. /\ Len(answers') = Len(answers) + 1 /\ answers'[Len(answers) + 1] = busy
              /\ \A i \in 1..Len(answers) : answers'[i] = answers[i]
              /\ answers' \in Seq(Ids) /\ Len(answers) \in Nat
          BY <1>0, <3>1, AppendProperties, LenProperties
        <4>2. DOMAIN answers' = 1..(Len(answers) + 1) /\ DOMAIN answers = 1..Len(answers)
          BY <1>0, <4>1, LenProperties
        <4>3. CASE busy = k
          <5>1. Len(answers) + 1 \in DOMAIN answers'
            BY <4>1, <4>2
          <5> QED  BY <4>1, <4>3, <5>1
        <4>4. CASE Back(k)
          <5>1. PICK i \in 1..Len(answers) : answers[i] = k
            BY <4>2, <4>4 DEF Back
          <5>2. i \in DOMAIN answers' /\ answers'[i] = k
            BY <4>1, <4>2, <5>1
          <5> QED  BY <5>2
        <4> QED  BY <3>2, <4>3, <4>4
      <3> QED  BY <2>2, <3>1, <3>2, Quiet
    <2> QED  BY <1>7, <2>1, <2>2 DEF Respond
  <1>8. CASE Read
    BY <1>8, PieceRead
  <1>9. ASSUME NEW c \in Askers,
               AskPython(c) \/ NoStdin(c) \/ TakeStdin(c) \/ NoAnswer(c) \/ RequestDropped(c)
        PROVE  Stream'
    <2>1. UNCHANGED <<line, pipe, python, busy, answers>>
      BY <1>9 DEF AskPython, NoStdin, TakeStdin, NoAnswer, RequestDropped, channel, process
    <2>2. Lives
      BY <2>1 DEF Lives
    <2>3. /\ \A d \in Askers \ {c} : rat'[d] = rat[d] /\ id'[d] = id[d] /\ (d \in spoiled' <=> d \in spoiled)
          /\ rat'[c] \in {"idle", "lock", "write"}
          /\ ~torn' => ~torn /\ rat[c] # "rest"
      <3>1. CASE AskPython(c)
        BY <1>0, <3>1 DEF AskPython, Moves
      <3>2. CASE NoStdin(c)
        BY <1>0, <3>2 DEF NoStdin, Moves
      <3>3. CASE TakeStdin(c)
        BY <1>0, <3>3 DEF TakeStdin, Moves
      <3>4. CASE NoAnswer(c)
        BY <1>0, <3>4 DEF NoAnswer, Moves
      <3>5. CASE RequestDropped(c)
        BY <1>0, <3>5 DEF RequestDropped, Moves
      <3> QED  BY <1>9, <3>1, <3>2, <3>3, <3>4, <3>5
    <2> QED  BY <2>1, <2>2, <2>3, Quiet DEF Back
  <1>10. ASSUME NEW c \in Askers, WriteLine(c) \/ WritePart(c) \/ WriteRest(c) PROVE Stream'
    BY <1>10, LineWritten, PartWritten, RestWritten
  <1>11. ASSUME NEW c \in Askers, WriteFails(c) PROVE Stream'
    BY <1>11 DEF WriteFails, Lives, process
  <1> QED  BY <1>1, <1>2, <1>3, <1>4, <1>5, <1>6, <1>7, <1>8, <1>9, <1>10, <1>11 DEF BridgeNext

\* The invariant of the bridge
LEMMA BridgeInvariance == BridgeSpec => []BridgeInv
  <1>1. BridgeInv /\ [BridgeNext]_bridgeVars => BridgeInv'
    BY BridgeTypes, BridgeShape, BridgeStream DEF BridgeInv
  <1> QED  BY BridgeInitInv, <1>1, PTL DEF BridgeSpec

\* The bridge's state keeps its types.
THEOREM BridgeTypeCorrect == BridgeSpec => []BridgeTypeOK
  <1>1. BridgeInv => BridgeTypeOK
    BY DEF BridgeInv
  <1> QED  BY <1>1, BridgeInvariance, PTL

\* Whatever other callers do with the pipe, what a caller waits for is on its way to Python,
\* being worked on, or on its way back (sidecar/bridge.rs request, and the task of spawn).
THEOREM NothingSwallowed == BridgeSpec => []RequestsInTransit
  <1>1. BridgeInv => RequestsInTransit
    <2> SUFFICES ASSUME BridgeInv, NEW c \in Askers, rat[c] = "wait", Lives, c \notin spoiled
                 PROVE  \/ <<id[c], "tail">> \in {pipe[i] : i \in DOMAIN pipe}
                        \/ busy = id[c]
                        \/ id[c] \in {answers[i] : i \in DOMAIN answers}
      BY DEF RequestsInTransit
    <2>1. Whole(id[c]) \/ busy = id[c] \/ Back(id[c])
      BY DEF BridgeInv, Stream, Waiting
    <2>2. CASE Whole(id[c])
      <3>0. /\ BridgeTypeOK /\ OnlyHeads /\ Len(line) \in Nat /\ Len(pipe) \in Nat
            /\ DOMAIN pipe = 1..Len(pipe)
        BY StreamTypes, LenProperties DEF BridgeInv, BridgeTypeOK
      <3>1. PICK i \in 1..(Size - 1) : Got(i + 1) = <<id[c], "tail">>
        BY <2>2 DEF Whole
      <3>2. i + 1 > Len(line)
        BY <3>0, <3>1 DEF OnlyHeads, Got
      <3>3. /\ (i + 1) - Len(line) \in DOMAIN pipe
            /\ pipe[(i + 1) - Len(line)] = <<id[c], "tail">>
        BY <3>0, <3>1, <3>2 DEF Got, Size
      <3> QED  BY <3>3
    <2> QED  BY <2>1, <2>2 DEF Back
  <1> QED  BY <1>1, BridgeInvariance, PTL
=============================================================================
