------------------------------ MODULE MCParts ------------------------------
(***************************************************************************)
(* Model checking of the parts that share no state with each other: a      *)
(* behaviour is one of a single part, chosen at the start, and the states  *)
(* of the others rest.  Each part has its own bounds.                      *)
(***************************************************************************)
EXTENDS Prewarm, SubAgents, Worktrees, ToolBatch, Checkpoints, Gateway, Loops, McpServer,
        Terminal, Permissions

VARIABLE part

AllParts == {"slot", "subagent", "worktree", "tools", "checkpoint", "gateway", "loop", "mcp",
             "terminal", "permission"}

MCAuto == {TRUE, FALSE}

\* Permissions: the calls, the settings of a session, the rules of the user.
MCKinds ==
  [tool : {"bash"}, class : {"plain", "outside", "blocked"}]
    \cup [tool : {"computer"}, class : {"plain"}]
    \cup [tool : {"write", "read"}, class : {"outside"}]
MCModes ==
  {[autorun |-> FALSE, mismatch |-> FALSE, contained |-> b, remoteAutorun |-> b, bridge |-> TRUE] :
     b \in BOOLEAN}
MCPatterns == {[on |-> "all", tool |-> "bash", class |-> "outside"]}

partsVars == <<part, prewarmVars, subVars, treeVars, toolVars, checkVars,
               gatewayVars, loopVars, mcpVars, termVars, permVars>>

PartsInit ==
  /\ part \in AllParts
  /\ PrewarmInit /\ (part = "slot" \/ auto)
  /\ SubInit /\ TreeInit /\ ToolInit /\ CheckInit /\ GatewayInit /\ LoopInit /\ McpInit
  /\ TermInit /\ (part = "terminal" \/ ~screen.alt)
  /\ PermInit /\ (part = "permission" \/ mode.contained)

PartsNext ==
  /\ UNCHANGED part
  /\ \/ /\ part = "slot" /\ PrewarmNext
        /\ UNCHANGED <<subVars, treeVars, toolVars, checkVars,
                       gatewayVars, loopVars, mcpVars, termVars, permVars>>
     \/ /\ part = "subagent" /\ SubNext
        /\ UNCHANGED <<prewarmVars, treeVars, toolVars, checkVars,
                       gatewayVars, loopVars, mcpVars, termVars, permVars>>
     \/ /\ part = "worktree" /\ TreeNext
        /\ UNCHANGED <<prewarmVars, subVars, toolVars, checkVars,
                       gatewayVars, loopVars, mcpVars, termVars, permVars>>
     \/ /\ part = "tools" /\ ToolNext
        /\ UNCHANGED <<prewarmVars, subVars, treeVars, checkVars,
                       gatewayVars, loopVars, mcpVars, termVars, permVars>>
     \/ /\ part = "checkpoint" /\ CheckNext
        /\ UNCHANGED <<prewarmVars, subVars, treeVars, toolVars,
                       gatewayVars, loopVars, mcpVars, termVars, permVars>>
     \/ /\ part = "gateway" /\ GatewayNext
        /\ UNCHANGED <<prewarmVars, subVars, treeVars, toolVars,
                       checkVars, loopVars, mcpVars, termVars, permVars>>
     \/ /\ part = "loop" /\ LoopNext
        /\ UNCHANGED <<prewarmVars, subVars, treeVars, toolVars,
                       checkVars, gatewayVars, mcpVars, termVars, permVars>>
     \/ /\ part = "mcp" /\ McpNext
        /\ UNCHANGED <<prewarmVars, subVars, treeVars, toolVars,
                       checkVars, gatewayVars, loopVars, termVars, permVars>>
     \/ /\ part = "terminal" /\ TermNext
        /\ UNCHANGED <<prewarmVars, subVars, treeVars, toolVars,
                       checkVars, gatewayVars, loopVars, mcpVars, permVars>>
     \/ /\ part = "permission" /\ PermNext
        /\ UNCHANGED <<prewarmVars, subVars, treeVars, toolVars,
                       checkVars, gatewayVars, loopVars, mcpVars, termVars>>

\* The fairness of the parts that have a liveness property (PrewarmFairness,
\* ToolFairness and PermFairness), asked for only where the part is chosen.
PartsFairness ==
  /\ WF_prewarmVars(part = "slot" /\ GoesOn)
  /\ \A p \in 1..MaxPrewarms : WF_prewarmVars(part = "slot" /\ p \in DOMAIN jobs /\ JobEnds(p))
  /\ \A a \in Reducers : WF_prewarmVars(part = "slot" /\ (SummaryEnds(a) \/ SummaryFails(a)))
  /\ WF_toolVars(part = "tools" /\ BatchSteps)
  /\ WF_permVars(part = "permission" /\ QuestionAnswered)

PartsSpec == PartsInit /\ [][PartsNext]_partsVars /\ PartsFairness

\* The types of all parts.
PartsTypeOK ==
  /\ PrewarmTypeOK /\ SubTypeOK /\ TreeTypeOK /\ ToolTypeOK
  /\ CheckTypeOK /\ GatewayTypeOK /\ LoopTypeOK /\ McpTypeOK /\ TermTypeOK
  /\ PermTypeOK
=============================================================================
