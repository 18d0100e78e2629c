-------------------------- MODULE MCMerchantConsole --------------------------
(***************************************************************************)
(* The merchant's console.  Its concerns keep their state apart from each  *)
(* other, in the browser and at the back end, so that a behaviour of all   *)
(* is a mixture of behaviours of each: here a behaviour stays with one.    *)
(***************************************************************************)
EXTENDS MerchantSession, MerchantLists, MerchantBanking, MerchantProfile,
        MerchantFigures, VirtualTerminal, RoutingTrace, Copilot

VARIABLE concern        \* the one that moves

consoleVars ==
    <<vars, listVars, bankVars, profileVars, figureVars, terminalVars, traceVars,
      copilotVars, concern>>

\* The others stay in one of their initial states.
ConsoleInit ==
    /\ concern \in {"session", "lists", "banking", "profile", "figures", "terminal",
                    "routing", "copilot"}
    /\ Init /\ ListsInit /\ BankInit /\ ProfileInit /\ FiguresInit /\ TerminalInit
    /\ TraceInit /\ CopilotInit
    /\ concern # "session" => cleared = {}
    /\ concern # "lists" => subject = "keys"
    /\ concern # "profile" => ~merchant.on
    /\ concern # "routing" => paid = 0
    /\ concern # "copilot" => ~isAdmin

ConsoleNext ==
    /\ UNCHANGED concern
    /\ \/ /\ concern = "session" /\ Next
          /\ UNCHANGED <<listVars, bankVars, profileVars, figureVars,
                         terminalVars, traceVars, copilotVars>>
       \/ /\ concern = "lists" /\ ListsNext
          /\ UNCHANGED <<vars, bankVars, profileVars, figureVars,
                         terminalVars, traceVars, copilotVars>>
       \/ /\ concern = "banking" /\ BankNext
          /\ UNCHANGED <<vars, listVars, profileVars, figureVars,
                         terminalVars, traceVars, copilotVars>>
       \/ /\ concern = "profile" /\ ProfileNext
          /\ UNCHANGED <<vars, listVars, bankVars, figureVars,
                         terminalVars, traceVars, copilotVars>>
       \/ /\ concern = "figures" /\ FiguresNext
          /\ UNCHANGED <<vars, listVars, bankVars, profileVars,
                         terminalVars, traceVars, copilotVars>>
       \/ /\ concern = "terminal" /\ TerminalNext
          /\ UNCHANGED <<vars, listVars, bankVars, profileVars,
                         figureVars, traceVars, copilotVars>>
       \/ /\ concern = "routing" /\ TraceNext
          /\ UNCHANGED <<vars, listVars, bankVars, profileVars,
                         figureVars, terminalVars, copilotVars>>
       \/ /\ concern = "copilot" /\ CopilotNext
          /\ UNCHANGED <<vars, listVars, bankVars, profileVars,
                         figureVars, terminalVars, traceVars>>

ConsoleSpec == ConsoleInit /\ [][ConsoleNext]_consoleVars /\ Fairness /\ FiguresFairness

=============================================================================
