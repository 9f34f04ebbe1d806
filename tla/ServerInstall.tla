---------------------------- MODULE ServerInstall ----------------------------
(***************************************************************************)
(* The installation of llama-server: ensure_llama_server (llm/             *)
(* server_binary.rs) with a download that resumes what an earlier attempt, *)
(* call or run of the program has left (infra/download.rs).                *)
(*                                                                         *)
(* One call at a time, as the setup wizard makes them.  A file is the      *)
(* sequence of its blocks, each the block of some release.  The disk-space *)
(* check and a llama-server on the search path are left out.               *)
(***************************************************************************)
EXTENDS Naturals, Sequences

CONSTANTS
    Blocks,       \* length of the archive
    MaxRetries,   \* of a download, 5 in the code
    Releases      \* 1..Releases are published in turn behind the same address

ASSUME InstallConstants == Blocks \in Nat \ {0} /\ MaxRetries \in Nat /\ Releases \in Nat \ {0}

VARIABLES
    step,      \* where the call stands
    tries,     \* retries of the download
    body,      \* the response: the blocks of it to come
    upstream,  \* the latest release
    part,      \* the file being downloaded
    archive,   \* the file once it is complete
    binary,    \* the managed llama-server
    upset,     \* history: something has failed around the call
    verdict    \* history: how the last call ended

call        == <<step, tries, body>>
disk        == <<part, archive, binary>>
installVars == <<call, upstream, disk, upset, verdict>>

Block == (1..Releases) \X (1..Blocks)

Release(r) == [i \in 1..Blocks |-> <<r, i>>]

InstallTypeOK ==
    /\ step \in {"idle", "ask", "body", "hash", "unpack", "copy"}
    /\ tries \in 0..MaxRetries
    /\ upstream \in 1..Releases
    /\ part \in Seq(Block) /\ archive \in Seq(Block) /\ body \in Seq(Block)
    /\ binary \in {"none", "torn", "whole"}
    /\ upset \in BOOLEAN /\ verdict \in {"none", "ok", "failed"}

InstallInit ==
    /\ step = "idle" /\ tries = 0 /\ body = <<>>
    /\ upstream = 1
    /\ part = <<>> /\ archive = <<>> /\ binary = "none"
    /\ upset = FALSE /\ verdict = "none"

CallEnds(how) == step' = "idle" /\ tries' = 0 /\ body' = <<>> /\ verdict' = how

-----------------------------------------------------------------------------
\* A managed binary that exists is taken as it is.
Ensure ==
    /\ step = "idle"
    /\ upset' = FALSE
    /\ \/ binary # "none" /\ verdict' = "ok" /\ UNCHANGED step
       \/ binary = "none" /\ verdict' = "none" /\ step' = "ask"
    /\ UNCHANGED <<tries, body, upstream, disk>>

\* The attempt fails: another one, with what has arrived so far, or the end.
TryAgain ==
    \/ tries < MaxRetries /\ tries' = tries + 1 /\ body' = <<>> /\ step' = "ask" /\ UNCHANGED verdict
    \/ tries = MaxRetries /\ CallEnds("failed")

\* The latest release from its n-th block on.
From(n) == SubSeq(Release(upstream), n, Blocks)

\* 206, or 200 where nothing is there yet.
Resume ==
    /\ step = "ask" /\ Len(part) < Blocks
    /\ body' = From(Len(part) + 1) /\ step' = "body"
    /\ UNCHANGED <<tries, upstream, disk, upset, verdict>>

\* A plausible slip: what the server sends again is added to what is there.
StartOverAppending ==
    /\ step = "ask" /\ part # <<>>
    /\ body' = From(1) /\ step' = "body"
    /\ UNCHANGED <<tries, upstream, disk, upset, verdict>>

\* 200: the server ignores the range, so the partial file is truncated.
StartOver ==
    /\ step = "ask" /\ part # <<>>
    /\ part' = <<>>
    /\ body' = From(1) /\ step' = "body"
    /\ UNCHANGED <<tries, upstream, archive, binary, upset, verdict>>

\* 416: the file has no byte in the range.
NothingLeft ==
    /\ step = "ask" /\ Len(part) >= Blocks
    /\ TryAgain
    /\ UNCHANGED <<upstream, disk, upset>>

ConnectionFails ==
    /\ step \in {"ask", "body"}
    /\ TryAgain
    /\ upset' = TRUE
    /\ UNCHANGED <<upstream, disk>>

Receive ==
    /\ step = "body" /\ body # <<>>
    /\ part' = Append(part, Head(body)) /\ body' = Tail(body)
    /\ UNCHANGED <<step, tries, upstream, archive, binary, upset, verdict>>

Received ==
    /\ step = "body" /\ body = <<>>
    /\ step' = "hash"
    /\ UNCHANGED <<tries, body, upstream, disk, upset, verdict>>

\* The file is read through for a hash that nobody expects, and renamed.
Rename ==
    /\ step = "hash"
    /\ archive' = part /\ part' = <<>>
    /\ step' = "unpack"
    /\ UNCHANGED <<tries, body, upstream, binary, upset, verdict>>

\* extract_llama_server: an archive put together from two releases does not unpack.
Unpack ==
    /\ step = "unpack"
    /\ \/ /\ \E r \in 1..Releases : archive = Release(r)
          /\ step' = "copy" /\ binary' = "torn"
          /\ UNCHANGED <<tries, body, verdict>>
       \/ /\ \A r \in 1..Releases : archive # Release(r)
          /\ CallEnds("failed") /\ UNCHANGED binary
    /\ UNCHANGED <<upstream, part, archive, upset>>

\* The copy to its place ends, or the disk is full.
Copied ==
    /\ step = "copy"
    /\ \/ CallEnds("ok") /\ binary' = "whole" /\ archive' = <<>> /\ UNCHANGED upset
       \/ CallEnds("failed") /\ upset' = TRUE /\ UNCHANGED <<binary, archive>>
    /\ UNCHANGED <<upstream, part>>

-----------------------------------------------------------------------------
Publish ==
    /\ upstream < Releases
    /\ upstream' = upstream + 1
    /\ UNCHANGED <<call, disk, upset, verdict>>

\* The program ends wherever it is; the files stay.
Crash ==
    /\ CallEnds("none")
    /\ upset' = FALSE
    /\ UNCHANGED <<upstream, disk>>

InstallNext ==
    \/ Ensure \/ Resume \/ StartOver \/ NothingLeft \/ ConnectionFails
    \/ Receive \/ Received \/ Rename \/ Unpack \/ Copied
    \/ Publish \/ Crash

InstallSpec == InstallInit /\ [][InstallNext]_installVars

-----------------------------------------------------------------------------
\* What has been downloaded, in however many attempts, calls and runs of the program, is
\* the beginning of a file: no block is missing and none is there twice.
PartIsPrefix ==
    /\ Len(part) <= Blocks
    /\ \A i \in DOMAIN part : part[i][2] = i

\* "Resumable downloads" (download.rs:4): a call around which nothing fails does not fail,
\* whatever an earlier one has left.
CleanInstallSucceeds == verdict = "failed" => upset
=============================================================================
