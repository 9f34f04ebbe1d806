---------------------------- MODULE MCAgentTurns ----------------------------
(***************************************************************************)
(* Turns of one session.  The calls: a tool that runs on its own and names *)
(* a file, one that needs approval, an image, a Colab cell with the call   *)
(* that opens its connection (both unknown to the policy, hence RED), a    *)
(* blacklisted one, and the analysis a file result is routed to, which     *)
(* nobody mounts.                                                          *)
(***************************************************************************)
EXTENDS AgentTurns

CONSTANTS t1, t2, main, read, del, img, cell, open, ban, scan

MCSessionOf == [t \in Turns |-> main]
MCCalls     == {read, del, img, cell, open, ban, scan}
MCTier      == [c \in MCCalls |-> IF c \in {del, cell, open} THEN "RED"
                                  ELSE IF c = ban THEN "BLACK" ELSE "AUTO"]
MCRequests  == Turns \X (1 .. MaxAsks)
MCMountable == {MCCalls \ {scan}}

\* One turn in depth: every kind of call, over two rounds.
DeepProposals == [t \in Turns |->
    {<<read>>, <<del, del>>, <<img>>, <<cell>>, <<ban, scan>>}]

\* Two overlapping turns, each with a call to approve.
PairProposals == [t \in Turns |-> IF t = t1 THEN {<<del>>, <<cell>>} ELSE {<<read>>, <<del>>}]
=============================================================================
