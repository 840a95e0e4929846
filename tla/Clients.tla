-------------------------------- MODULE Clients --------------------------------
(***************************************************************************)
(* The API's and the browser's clients side by side: the operator's console  *)
(* with the case it works on, the console's queues, the mobile application's *)
(* walkthrough, the panels' storage and the web walkthrough. They share no   *)
(* state, so a behaviour is one of one of them: "client" says whose, and     *)
(* everything that belongs to the others stays as it begins.                 *)
(***************************************************************************)
EXTENDS PilotConsole, PilotQueue, MobilePreview, PanelStorage, UserWalkthrough

VARIABLE client

clientVars ==
  <<client, caseVars, consoleVars, queueVars, previewVars, panelVars, walkthroughVars>>

ClientsInit ==
  /\ client \in {"console", "queue", "preview", "panel", "walkthrough"}
  /\ Init /\ ConsoleInit /\ PreviewFresh /\ WalkthroughInit
  /\ QueueInit /\ (client # "queue" => queue = "cases")
  /\ StorageInit /\ (client # "panel" => panel = "bank")

ConsoleMoves ==
  /\ client = "console" /\ ConsoleStep
  /\ UNCHANGED <<client, queueVars, previewVars, panelVars, walkthroughVars>>
QueueMoves ==
  /\ client = "queue" /\ QueueStep
  /\ UNCHANGED <<client, caseVars, consoleVars, previewVars, panelVars, walkthroughVars>>
PreviewMoves ==
  /\ client = "preview" /\ PreviewStep
  /\ UNCHANGED <<client, caseVars, consoleVars, queueVars, panelVars, walkthroughVars>>
PanelMoves ==
  /\ client = "panel" /\ StorageStep
  /\ UNCHANGED <<client, caseVars, consoleVars, queueVars, previewVars, walkthroughVars>>
WalkthroughMoves ==
  /\ client = "walkthrough" /\ WalkthroughStep
  /\ UNCHANGED <<client, caseVars, consoleVars, queueVars, previewVars, panelVars>>

ClientsNext ==
  \/ ConsoleMoves \/ QueueMoves \/ PreviewMoves \/ PanelMoves \/ WalkthroughMoves
ClientsSpec == ClientsInit /\ [][ClientsNext]_clientVars

\* Type correctness of every client.
ClientsTypeOK ==
  /\ FundingTypeOK /\ ConsoleTypeOK /\ QueueTypeOK
  /\ PreviewTypeOK /\ StorageTypeOK /\ WalkthroughTypeOK
================================================================================
