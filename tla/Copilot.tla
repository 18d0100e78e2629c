-------------------------------- MODULE Copilot --------------------------------
(***************************************************************************)
(* The assistant on every page of the dashboards.  Its answers may carry   *)
(* an action, shown as a card that a person confirms or cancels; a         *)
(* confirmed one is sent to the back end with the administrator's token,   *)
(* which a merchant does not have.  One index says which card is being     *)
(* executed and disables its button, although several may be.  What is     *)
(* said is left out: a message is the state of the action it carries.      *)
(***************************************************************************)
EXTENDS ConsoleBounds, Sequences

CONSTANTS
    MaxQuestions,   \* bound: questions asked
    Presses         \* bound: confirmations, each made once

ASSUME CopilotAssumption == MaxQuestions \in Nat

VARIABLES
    isAdmin,
    messages,   \* the chat: one actionResult for each message, "none" without an action
    isTyping,
    executing,  \* executingIdx, 0 for null
    questions,      \* questions so far
    press,      \* what became of each confirmation
    crossed     \* history: cards that were being executed when executing moved on

copilotVars == <<isAdmin, messages, isTyping, executing, questions, press, crossed>>

InExecution == {"sent", "done", "refused"}

CopilotInit ==
    /\ isAdmin \in BOOLEAN
    /\ messages = <<"none">>
    /\ isTyping = FALSE
    /\ executing = 0
    /\ questions = 0
    /\ press = [b \in Presses |-> [card |-> 0, step |-> "unused"]]
    /\ crossed = {}

HandleSubmit ==
    /\ ~isTyping /\ questions < MaxQuestions
    /\ messages' = Append(messages, "none")
    /\ isTyping' = TRUE
    /\ questions' = questions + 1
    /\ UNCHANGED <<isAdmin, executing, press, crossed>>

\* The reads for the context may fail; the model answers with or without an
\* action, and an error is an answer too.
QuestionAnswered(action) ==
    /\ isTyping
    /\ messages' = Append(messages, action)
    /\ isTyping' = FALSE
    /\ UNCHANGED <<isAdmin, executing, questions, press, crossed>>

Cards == {i \in 1..Len(messages) : messages[i] = "pending"}
Executed == {press[b].card : b \in {b \in Presses : press[b].step \in InExecution}}

\* Mutant: the button is not disabled.
Confirmable_NotDisabled == Cards
Confirmable == Cards \ {executing}

HandleExecuteAction(b, i) ==
    /\ press[b].step = "unused"
    /\ i \in Confirmable
    /\ executing' = i
    /\ press' = [press EXCEPT ![b] = [card |-> i, step |-> "sent"]]
    /\ crossed' = crossed \cup (Executed \ {i})
    /\ UNCHANGED <<isAdmin, messages, isTyping, questions>>

\* The card says cancelled, whatever is under way for it.
Cancel(i) ==
    /\ i \in Cards
    /\ messages' = [messages EXCEPT ![i] = "error"]
    /\ UNCHANGED <<isAdmin, isTyping, executing, questions, press, crossed>>

\* Without the token the back end refuses; with it, it may refuse as well.
ServeAction(b, outcome) ==
    /\ press[b].step = "sent"
    /\ outcome = "done" => isAdmin
    /\ press' = [press EXCEPT ![b].step = outcome]
    /\ UNCHANGED <<isAdmin, messages, isTyping, executing, questions, crossed>>

\* The outcome is put on the card and told in a message of its own.
Tell(b, result) ==
    /\ messages' = Append([messages EXCEPT ![press[b].card] = result], "none")
    /\ executing' = 0
    /\ press' = [press EXCEPT ![b].step = "over"]
    /\ crossed' = crossed \cup (Executed \ {press[b].card})
    /\ UNCHANGED <<isAdmin, isTyping, questions>>

ActionAnswered(b) ==
    \/ press[b].step = "done" /\ Tell(b, "success")
    \/ press[b].step = "refused" /\ Tell(b, "error")

\* The answer is lost, of an action that was carried out or not.
ActionLost(b) == press[b].step \in InExecution /\ Tell(b, "error")

CopilotNext ==
    \/ HandleSubmit
    \/ \E action \in {"none", "pending"} : QuestionAnswered(action)
    \/ \E i \in 1..Len(messages) : Cancel(i)
    \/ \E b \in Presses :
          \/ \E i \in 1..Len(messages) : HandleExecuteAction(b, i)
          \/ \E outcome \in {"done", "refused"} : ServeAction(b, outcome)
          \/ ActionAnswered(b) \/ ActionLost(b)

CopilotSpec == CopilotInit /\ [][CopilotNext]_copilotVars

-----------------------------------------------------------------------------
\* The disabled button keeps an action from being executed twice, as long as
\* no other card is confirmed or answered while it is under way: that moves
\* the one index on and frees the button of the first.
TwiceNeedsAnother ==
    \A b, c \in Presses :
        /\ b # c
        /\ press[b].step # "unused" /\ press[c].step # "unused"
        /\ press[b].card = press[c].card
        => press[b].card \in crossed

=============================================================================
