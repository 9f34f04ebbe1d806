------------------------------ MODULE MCStores ------------------------------
(***************************************************************************)
(* ComfySidecar, MemoryIndex, ServerInstall and SidecarBridge on small     *)
(* instances, side by side: they share no state, so a behaviour exercises  *)
(* one of them, chosen at the start.                                       *)
(***************************************************************************)
EXTENDS ComfySidecar, MemoryIndex, ServerInstall, SidecarBridge

VARIABLE focus

mcVars == <<comfyVars, memoryVars, installVars, bridgeVars, focus>>

MCInit ==
    /\ focus \in {"comfy", "memory", "install", "sidecar"}
    /\ ComfyInit /\ (focus # "comfy" => ~lockfile /\ running = {})
    /\ MemoryInit /\ InstallInit /\ BridgeInit

MCNext ==
    /\ UNCHANGED focus
    /\ \/ /\ focus = "comfy" /\ ComfyNext
          /\ UNCHANGED <<memoryVars, installVars, bridgeVars>>
       \/ /\ focus = "memory" /\ MemoryNext
          /\ UNCHANGED <<comfyVars, installVars, bridgeVars>>
       \/ /\ focus = "install" /\ InstallNext
          /\ UNCHANGED <<comfyVars, memoryVars, bridgeVars>>
       \/ /\ focus = "sidecar" /\ BridgeNext
          /\ UNCHANGED <<comfyVars, memoryVars, installVars>>

MCSpec == MCInit /\ [][MCNext]_mcVars

\* Both documents are of one file.
MCNameOf == [d \in Docs |-> "file"]
MCMaxIds == [b \in Tables |-> IF b = "facts" THEN 1 ELSE 2]
=============================================================================
