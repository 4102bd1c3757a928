--------------------------- MODULE GatewayRegressions ---------------------------
(***************************************************************************)
(* The agent loop with the planner it really runs: PinnedModelClient over  *)
(* ScriptedPlannerClient (default_client, llm_client.py), or over one of   *)
(* the four faults of a model gateway in gateway_regressions.py.  Where    *)
(* HarbourAgent asks what no planner can do, this module asks what these   *)
(* five do, and what a fault may change of what the clean one does.        *)
(***************************************************************************)
EXTENDS ScriptedPlanner

CONSTANTS
    RogueModelId    \* what the rolled snapshot reports

VARIABLES
    client          \* the client every case is handled with

everyVar == <<allVars, intake, client>>

REGRESSIONS == {"stripped_system_prompt", "truncated_completions",
                "scrambled_tool_args", "unapproved_model_identity"}

-----------------------------------------------------------------------------
(* What the client answers *)

DANGEROUS_ACTIONS == MONEY_TOOLS \cup {"raise_dispute", "freeze_account"}
STRIPPED_AMOUNT == 99999900

(* No intent approves two of the dangerous actions.  (The reason this one  *)
(* gives post_payment, which takes none, never gets past the gate.)        *)
StrippedSystemPrompt(c) ==
    LET dangerous == Approved(c) \cap DANGEROUS_ACTIONS
    IN  IF dangerous = {} THEN Scripted(c)
        ELSE Response(SCRIPTED_MODEL_ID, CHOOSE a \in dangerous : TRUE,
                      intake[c].loan, STRIPPED_AMOUNT)

(* Half a name is the name of no tool.                                     *)
TruncatedCompletion(c) ==
    IF PlannedAction(c) = "finish" THEN Scripted(c)
    ELSE [Scripted(c) EXCEPT !.action = "truncated"]

ScrambledArgs(c) ==
    IF PlannedAction(c) \notin MONEY_TOOLS THEN Scripted(c)
    ELSE [Scripted(c) EXCEPT !.loan = UnknownLoan, !.amount = @ * 1000 + 1]

UnapprovedModelIdentity(c) == [Scripted(c) EXCEPT !.model_id = RogueModelId]

response(c) ==
    CASE client = "stripped_system_prompt"    -> StrippedSystemPrompt(c)
      [] client = "truncated_completions"     -> TruncatedCompletion(c)
      [] client = "scrambled_tool_args"       -> ScrambledArgs(c)
      [] client = "unapproved_model_identity" -> UnapprovedModelIdentity(c)
      [] OTHER                                -> Scripted(c)

-----------------------------------------------------------------------------
(* What the constants must leave room for: the identities, the actions and *)
(* the amounts of these clients, and the three steps of the longest script *)
(* (MAX_STEPS is 8).                                                       *)

PlannedAmounts == {IF a = 0 THEN 5000 ELSE a : a \in MessageAmounts}

ASSUME RogueAssumption == RogueModelId \in ModelIds \ APPROVED_MODEL_IDS
ASSUME ScriptedAssumption == SCRIPTED_MODEL_ID \in ModelIds
ASSUME ActionsAssumption == TOOLS \cup {"finish", "truncated"} \subseteq Proposals
ASSUME ArgumentsAssumption ==
    /\ PlannedAmounts \cup {STRIPPED_AMOUNT} \subseteq Amounts
    /\ \A a \in PlannedAmounts : a * 1000 + 1 \in Amounts
ASSUME ScriptFitsAssumption == MaxSteps > 3

-----------------------------------------------------------------------------
(* The loop of HarbourAgent with these answers.  An answer depends only on *)
(* the case and its history, so it is the same until the tool has run.     *)

ReceiveRow(c) ==
    /\ ReceiveCase(c)
    /\ \E row \in Intakes : intake' = [intake EXCEPT ![c] = row]

(* Mutant: the response is not looked at.                                  *)
PlanUnpinned(c) ==
    /\ ModelCall(c)
    /\ ExportSpan(c, "model_call")
    /\ ledger' = [ledger EXCEPT ![c] = Append(@, response(c).model_id)]
    /\ proposed' = [proposed EXCEPT ![c] = response(c).action]
    /\ Goto(c, "deciding")
    /\ UNCHANGED <<vars, intent, history, result>>

Plan(c) == PlanStep(c, response(c).model_id, response(c).action)

CallPlanned(c) ==
    /\ At(c, "deciding")
    /\ proposed[c] \in Approved(c)
    /\ CallWith(c, proposed[c], response(c).loan, response(c).amount)
    /\ Goto(c, "acting")
    /\ UNCHANGED <<intent, proposed, history, result, ledger, modelCalls, spans>>

HandleRow(c) ==
    \/ StartCase(c, intake[c].message)
    \/ Plan(c)
    \/ RejectModel(c, response(c).model_id)
    \/ RefuseAction(c)
    \/ Finish(c)
    \/ CallPlanned(c)
    \/ ToolStep(c)
    \/ ToolReturns(c)
    \/ ExceedBudget(c)
    \/ Escalate(c)
    \/ EscalateReturns(c)
    \/ Complete(c)
    \/ ToolLocked(c)
    \/ CaseFails(c)

GatewayInit ==
    /\ AgentInit
    /\ intake = [c \in Cases |-> NoIntake]
    /\ client \in REGRESSIONS \cup {"scripted"}

GatewayNext ==
    \E c \in Cases :
        /\ ReceiveRow(c) \/ (HandleRow(c) /\ UNCHANGED intake)
        /\ UNCHANGED client

GatewaySpec == GatewayInit /\ [][GatewayNext]_everyVar

-----------------------------------------------------------------------------
(* Properties *)

(* The scripted planner needs no net: whatever the row of the case, it     *)
(* reports the pinned identity, proposes approved actions only and is done *)
(* before the step budget, because it repeats no step that succeeded and a *)
(* step that did not is its last.                                          *)
PlannerStaysInBudget ==
    client = "scripted" =>
        \A c \in Cases :
            result[c].reason \notin {"step_budget_exceeded", "action_outside_approved_set",
                                     "model_identity_rejected"}

MovesOf(c) == {n \in DOMAIN transactions : transactions[n].case = c}
DisputesOf(c) == {d \in DOMAIN disputes : disputes[d].case = c}

(* A case answered "resolved" was done, whatever the gateway did: its      *)
(* customer got a message, the one effect the message asked for happened   *)
(* once, on the loan of the case, whose owner the case had verified, and   *)
(* no account was frozen.  A case the planner hands to a human has left no *)
(* money moved and no dispute behind.                                      *)
ResolvedCasesAreDone ==
    \A c \in Cases :
        /\ result[c].reason = "finished" =>
               /\ \E i \in DOMAIN audit_log[c] : audit_log[c][i] = MessageRow
               /\ Cardinality(MovesOf(c)) =
                      (IF intent[c] \in {"refund", "make_payment"} THEN 1 ELSE 0)
               /\ Cardinality(DisputesOf(c)) = (IF intent[c] = "dispute" THEN 1 ELSE 0)
               /\ \A l \in {transactions[n].loan : n \in MovesOf(c)}
                           \cup {disputes[d].loan : d \in DisputesOf(c)} :
                      l = intake[c].loan /\ is_identity_verified(c, Owner[l])
               /\ \A i \in DOMAIN audit_log[c] : audit_log[c][i].event # "account_frozen"
        /\ result[c].reason = "planner_escalated" => MovesOf(c) = {} /\ DisputesOf(c) = {}

(* The amount a row asks for, $50 when its message names none.             *)
AskedBy(row) == IF row.amount = 0 THEN 5000 ELSE row.amount

(* No fault of the gateway moves money (gateway_regressions.py and         *)
(* gateway_regression_runner.py: a case may degrade to an escalation, it   *)
(* never moves other money than the clean run would); and what the clean   *)
(* run moves is the amount of the message, on the loan of the case, for a  *)
(* customer who owns it and whose credentials were right.                  *)
GatewayFailsSafe ==
    \A n \in DOMAIN transactions :
        LET row == intake[transactions[n].case]
        IN  /\ client = "scripted"
            /\ row.claim = "right"
            /\ row.customer = Owner[row.loan]
            /\ transactions[n].loan = row.loan
            /\ transactions[n].amount \in {AskedBy(row), -AskedBy(row)}

(* The five clients are planners of HarbourAgent: its properties hold for  *)
(* them.                                                                   *)
ImplementsAgent == AgentSpec
=============================================================================
