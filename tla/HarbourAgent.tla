----------------------------- MODULE HarbourAgent -----------------------------
(***************************************************************************)
(* handle_case (agent.py) over the tools of HarbourTools, one per case,    *)
(* called by post_case (service.py) on a thread and a connection of its    *)
(* own.  The planner is any model behind PinnedModelClient: at each step   *)
(* it may report any identity and propose any action with any arguments    *)
(* (a planner's argument wins over the case's own, _with_case_context).    *)
(* What keeps a case safe is therefore the loop and the tools alone.       *)
(***************************************************************************)
EXTENDS HarbourTools

CONSTANTS
    MaxSteps,       \* MAX_STEPS
    Messages,       \* what the intent rules find in customers' messages
    ModelIds,       \* the identities responses report
    Proposals       \* the actions planners propose

VARIABLES
    pc,         \* where handle_case is
    intent,     \* classified once, before any tool output exists
    proposed,   \* response.action
    history,    \* the steps taken, also CaseResult.steps
    result,     \* CaseResult's status and final_reason
    ledger,     \* the model ids of the ledger entries of the case
    modelCalls, \* how often plan_step was called
    spans       \* the spans exported so far

agentVars == <<pc, intent, proposed, history, result, ledger, modelCalls, spans>>
allVars == <<vars, agentVars>>

ASSUME MaxStepsAssumption == MaxSteps \in Nat \ {0}
ASSUME MessagesAssumption == Messages \subseteq SUBSET INTENTS
ASSUME AnyCallerAssumption == CallerTools = TOOLS /\ CallerRows = CallerEventRows
(* Enough requests for every case to take all its steps: case_received,    *)
(* the steps, a refusal and the escalation.                                *)
ASSUME EnoughRequestsAssumption == MaxRequests >= Cardinality(Cases) * (MaxSteps + 3)

Reasons == {"finished", "planner_escalated", "step_budget_exceeded", "tool_denied",
            "tool_error", "action_outside_approved_set", "model_identity_rejected"}

Result(status, reason) == [status |-> status, reason |-> reason]
(* Mutant: every step is recorded as ok.                                   *)
OkEntry(action, outcome) == [action |-> action, outcome |-> "ok"]
HistoryEntry(action, outcome) == [action |-> action, outcome |-> outcome]
Span(name, status) == [name |-> name, status |-> status]

At(c, where) == pc[c] = where
Goto(c, where) == pc' = [pc EXCEPT ![c] = where]
Approved(c) == ApprovedActions(intent[c])

-----------------------------------------------------------------------------
(* post_case, then handle_case up to the loop                              *)

ReceiveCase(c) ==
    /\ At(c, "absent")
    /\ OpenCase(c)
    /\ Goto(c, "received")
    /\ UNCHANGED <<intent, proposed, history, result, ledger, modelCalls, spans>>

StartCase(c, message) ==
    /\ At(c, "received")
    /\ CallerRow(c, CaseReceivedRow)
    /\ intent' = [intent EXCEPT ![c] = classify_intent(message)]
    /\ Goto(c, "planning")
    /\ UNCHANGED <<proposed, history, result, ledger, modelCalls, spans>>

-----------------------------------------------------------------------------
(* The loop: a model call, its gates, a tool call                          *)

(* Mutant: the range is one too long.                                      *)
OneModelCallMore(c) ==
    /\ At(c, "planning")
    /\ Len(history[c]) <= MaxSteps
    /\ modelCalls' = [modelCalls EXCEPT ![c] = @ + 1]

ModelCall(c) ==
    /\ At(c, "planning")
    /\ Len(history[c]) < MaxSteps
    /\ modelCalls' = [modelCalls EXCEPT ![c] = @ + 1]

(* Mutant: a status cases does not have.                                   *)
RefusedWith(c, reason) ==
    /\ result' = [result EXCEPT ![c] = Result("refused", reason)]
    /\ Goto(c, "escalating")

(* The case stops here: escalate, then return this result.                 *)
StopWith(c, reason) ==
    /\ result' = [result EXCEPT ![c] = Result("escalated", reason)]
    /\ Goto(c, "escalating")

(* Tracer.span: a span whose body is left by return or by its end is ok,   *)
(* whatever status the body set before.                                    *)
ExportSpan(c, name) == spans' = [spans EXCEPT ![c] = Append(@, Span(name, "ok"))]

PlanStep(c, id, action) ==
    /\ ModelCall(c)
    /\ check_model_identity(id)
    /\ ExportSpan(c, "model_call")
    /\ ledger' = [ledger EXCEPT ![c] = Append(@, id)]
    /\ proposed' = [proposed EXCEPT ![c] = action]
    /\ Goto(c, "deciding")
    /\ UNCHANGED <<vars, intent, history, result>>

RejectModel(c, id) ==
    /\ ModelCall(c)
    /\ ~check_model_identity(id)
    /\ CallerRow(c, ModelRejectedRow)
    /\ StopWith(c, "model_identity_rejected")
    /\ UNCHANGED <<intent, proposed, history, ledger, spans>>

RefuseAction(c) ==
    /\ At(c, "deciding")
    /\ proposed[c] \notin Approved(c) \cup {"finish"}
    /\ CallerRow(c, DeniedRow("action_outside_approved_set"))
    /\ StopWith(c, "action_outside_approved_set")
    /\ UNCHANGED <<intent, proposed, history, ledger, modelCalls, spans>>

Finish(c) ==
    /\ At(c, "deciding")
    /\ proposed[c] = "finish"
    /\ result' = [result EXCEPT ![c] = Result("resolved", "finished")]
    /\ Goto(c, "completing")
    /\ UNCHANGED <<vars, intent, proposed, history, ledger, modelCalls, spans>>

(* Mutant: the loop calls whatever the planner proposes.                   *)
CallAnyTool(c) ==
    /\ At(c, "deciding")
    /\ BeginCall(c, proposed[c])
    /\ Goto(c, "acting")
    /\ UNCHANGED <<intent, proposed, history, result, ledger, modelCalls, spans>>

CallTool(c) ==
    /\ At(c, "deciding")
    /\ proposed[c] \in Approved(c)
    /\ BeginCall(c, proposed[c])
    /\ Goto(c, "acting")
    /\ UNCHANGED <<intent, proposed, history, result, ledger, modelCalls, spans>>

(* The rest of a call that has begun, by the loop or by _escalate.         *)
ToolStep(c) ==
    /\ ContinueCall(c)
    /\ UNCHANGED agentVars

RecordStep(c) ==
    history' = [history EXCEPT ![c] = Append(@, HistoryEntry(proposed[c], call[c].outcome))]

(* Mutant: a denied call is one more step.                                 *)
GoOnAfterRefusal(c) ==
    /\ call[c].outcome \in {"denied", "error"}
    /\ Goto(c, "planning")
    /\ UNCHANGED <<result, spans>>

AfterRefusal(c) ==
    /\ \/ call[c].outcome = "denied" /\ StopWith(c, "tool_denied")
       \/ call[c].outcome = "error" /\ StopWith(c, "tool_error")
    /\ UNCHANGED spans

AfterSuccess(c) ==
    /\ call[c].outcome = "ok"
    /\ IF proposed[c] = "escalate_to_human"
       THEN /\ result' = [result EXCEPT ![c] = Result("escalated", "planner_escalated")]
            /\ Goto(c, "completing")
       ELSE Goto(c, "planning") /\ UNCHANGED result
    /\ ExportSpan(c, "tool_call")

(* The tool has returned or raised.                                        *)
ToolReturns(c) ==
    /\ At(c, "acting")
    /\ call[c].pc = "idle"
    /\ RecordStep(c)
    /\ AfterRefusal(c) \/ AfterSuccess(c)
    /\ UNCHANGED <<vars, intent, proposed, ledger, modelCalls>>

(* Mutant: the budget is noticed one step late.                            *)
ExceedBudgetLate(c) ==
    /\ At(c, "planning")
    /\ Len(history[c]) > MaxSteps
    /\ StopWith(c, "step_budget_exceeded")
    /\ UNCHANGED <<vars, intent, proposed, history, ledger, modelCalls, spans>>

ExceedBudget(c) ==
    /\ At(c, "planning")
    /\ Len(history[c]) = MaxSteps
    /\ StopWith(c, "step_budget_exceeded")
    /\ UNCHANGED <<vars, intent, proposed, history, ledger, modelCalls, spans>>

-----------------------------------------------------------------------------
(* The ways out                                                            *)

Escalate(c) ==
    /\ At(c, "escalating")
    /\ escalate_to_human(c)
    /\ Goto(c, "escalated")
    /\ UNCHANGED <<intent, proposed, history, result, ledger, modelCalls, spans>>

(* The escalation of a refused or failed step runs inside the span of that *)
(* step and returns at once; the budget's falls through to the final       *)
(* update of the case.                                                     *)
EscalateReturns(c) ==
    /\ At(c, "escalated")
    /\ call[c] = Idle("ok")
    /\ IF result[c].reason = "step_budget_exceeded"
       THEN Goto(c, "completing") /\ UNCHANGED vars
       ELSE Goto(c, "answered") /\ SessionEnds(c)
    /\ CASE result[c].reason = "model_identity_rejected" -> ExportSpan(c, "model_call")
         [] result[c].reason \in {"tool_denied", "tool_error"} -> ExportSpan(c, "tool_call")
         [] OTHER -> UNCHANGED spans
    /\ UNCHANGED <<intent, proposed, history, result, ledger, modelCalls>>

(* Mutants: the last update always resolves, and is skipped.               *)
CompleteResolved(c) ==
    /\ At(c, "completing")
    /\ CompleteCase(c, "resolved")
    /\ Goto(c, "answered")
    /\ UNCHANGED <<intent, proposed, history, result, ledger, modelCalls, spans>>

NeverComplete(c) ==
    /\ At(c, "completing")
    /\ SessionEnds(c)
    /\ Goto(c, "answered")
    /\ UNCHANGED <<intent, proposed, history, result, ledger, modelCalls, spans>>

Complete(c) ==
    /\ At(c, "completing")
    /\ CompleteCase(c, result[c].status)
    /\ Goto(c, "answered")
    /\ UNCHANGED <<intent, proposed, history, result, ledger, modelCalls, spans>>

(* "database is locked" inside a tool called by the loop is one more tool  *)
(* error.                                                                  *)
ToolLocked(c) ==
    /\ \/ At(c, "acting") /\ call[c].pc # "idle" /\ UNCHANGED pc
       \/ At(c, "deciding") /\ proposed[c] \in Approved(c) /\ Goto(c, "acting")
    /\ DatabaseLocked(c)
    /\ UNCHANGED <<intent, proposed, history, result, ledger, modelCalls, spans>>

(* Anywhere else, _escalate included, it leaves handle_case; so does the   *)
(* end of the process.  The request fails and nothing takes the case up.   *)
CaseFails(c) ==
    /\ pc[c] \notin {"absent", "answered", "failed"}
    /\ SessionEnds(c)
    /\ Goto(c, "failed")
    /\ UNCHANGED <<intent, proposed, history, result, ledger, modelCalls, spans>>

-----------------------------------------------------------------------------
AgentInit ==
    /\ Init
    /\ pc = [c \in Cases |-> "absent"]
    /\ intent = [c \in Cases |-> "unclear"]
    /\ proposed = [c \in Cases |-> "none"]
    /\ history = [c \in Cases |-> <<>>]
    /\ result = [c \in Cases |-> Result("in_progress", "none")]
    /\ ledger = [c \in Cases |-> <<>>]
    /\ modelCalls = [c \in Cases |-> 0]
    /\ spans = [c \in Cases |-> <<>>]

(* What the thread of case c does by itself.                               *)
HandleCase(c) ==
    \/ \E m \in Messages : StartCase(c, m)
    \/ \E id \in ModelIds, a \in Proposals : PlanStep(c, id, a)
    \/ \E id \in ModelIds : RejectModel(c, id)
    \/ RefuseAction(c)
    \/ Finish(c)
    \/ CallTool(c)
    \/ ToolStep(c)
    \/ ToolReturns(c)
    \/ ExceedBudget(c)
    \/ Escalate(c)
    \/ EscalateReturns(c)
    \/ Complete(c)

AgentNext ==
    \E c \in Cases : ReceiveCase(c) \/ HandleCase(c) \/ ToolLocked(c) \/ CaseFails(c)

AgentSpec == AgentInit /\ [][AgentNext]_allVars

(* A thread that has started is scheduled until it is done: the calls it   *)
(* makes return (the planner's included) or raise.                         *)
FairSpec == AgentSpec /\ \A c \in Cases : WF_allVars(HandleCase(c))

-----------------------------------------------------------------------------
(* Properties *)

AgentTypeOK ==
    /\ TypeOK
    /\ pc \in [Cases -> {"absent", "received", "planning", "deciding", "acting", "escalating",
                         "escalated", "completing", "answered", "failed"}]
    /\ intent \in [Cases -> INTENTS]
    /\ proposed \in [Cases -> Proposals \cup {"none"}]
    /\ history \in [Cases -> Seq([action : TOOLS, outcome : {"ok", "denied", "error"}])]
    /\ result \in [Cases -> [status : {"in_progress", "resolved", "escalated"},
                             reason : Reasons \cup {"none"}]]
    /\ ledger \in [Cases -> Seq(ModelIds)]
    /\ modelCalls \in [Cases -> Nat]
    /\ spans \in [Cases -> Seq([name : {"model_call", "tool_call"}, status : {"ok", "error"}])]

(* Whatever the planner proposes, every tool that ran in a case was        *)
(* approved for its customer's message, or is the escalation; so money     *)
(* moves by a refund only in a refund case, no fee is ever charged, and an *)
(* account is frozen, its call logged or not, only where fraud is feared.  *)
OnlyApprovedToolsRun ==
    \A c \in Cases : \A i \in DOMAIN audit_log[c] :
        /\ audit_log[c][i].event \in {"tool_call", "money_moved"} =>
               audit_log[c][i].tool \in Approved(c) \cup {"escalate_to_human"}
        /\ audit_log[c][i].event = "account_frozen" => "freeze_account" \in Approved(c)

IsRefusal(row) ==
    \/ row.event \in {"policy_denied", "model_identity_rejected"}
    \/ row.event = "tool_call" /\ row.outcome = "denied"

IsEscalation(row) ==
    \/ row.event = "escalated"
    \/ row.event = "tool_call" /\ row.tool = "escalate_to_human"

(* The loop fails closed: after the first refusal on the trail, be it of   *)
(* an action, a tool call or a model, the only thing that ever happens in  *)
(* the case is its escalation, and the case is never answered "resolved".  *)
(* A call that raised leaves no row, and may have moved money before: no   *)
(* step follows it either.                                                 *)
FailsClosed ==
    \A c \in Cases :
        /\ \A i \in DOMAIN audit_log[c] :
               IsRefusal(audit_log[c][i]) =>
                   /\ result[c].status # "resolved"
                   /\ \A j \in i + 1 .. Len(audit_log[c]) :
                          IsRefusal(audit_log[c][j]) \/ IsEscalation(audit_log[c][j])
        /\ \A n \in DOMAIN history[c] :
               history[c][n].outcome # "ok" =>
                   n = Len(history[c]) /\ result[c].status = "escalated"

(* What the client of POST /case is told is what the database says: the    *)
(* status, an escalation on record exactly if the answer is "escalated",   *)
(* and a completion time exactly on the answers that reach the last        *)
(* update of handle_case.  A case that handle_case did not end can be told *)
(* from an answered one: it has no completion time and is not "resolved",  *)
(* but "received", or "escalated" if that is on its trail.                 *)
AnswerMatchesRecord ==
    \A c \in Cases :
        LET escalated == \E i \in DOMAIN audit_log[c] : audit_log[c][i].event = "escalated"
        IN  /\ pc[c] = "answered" =>
                   /\ cases[c].status = result[c].status
                   /\ result[c].status = "escalated" <=> escalated
                   /\ cases[c].completed <=>
                          result[c].reason \in {"finished", "planner_escalated", "step_budget_exceeded"}
            /\ pc[c] = "failed" =>
                   /\ cases[c].status = IF escalated THEN "escalated" ELSE "received"
                   /\ ~cases[c].completed

CallRows(trail) == {i \in DOMAIN trail : trail[i].event = "tool_call"}
Nth(trail, i) == Cardinality({j \in CallRows(trail) : j <= i})

(* The steps reported to the client and the tool_call rows of the trail    *)
(* tell the same story, in the same order, between two steps: the nth row  *)
(* is of the nth step, and only a call that raised, which ends the case,   *)
(* has no row.                                                             *)
HistoryMatchesTrail ==
    \A c \in Cases : pc[c] \in {"planning", "deciding", "escalating"} =>
        /\ \A i \in CallRows(audit_log[c]) :
               LET n == Nth(audit_log[c], i)
               IN  /\ n \in DOMAIN history[c]
                   /\ history[c][n].action = audit_log[c][i].tool
                   /\ history[c][n].outcome = audit_log[c][i].outcome
        /\ \A n \in DOMAIN history[c] :
               history[c][n].outcome # "error" => n <= Cardinality(CallRows(audit_log[c]))

(* A case never costs more than its budget of model calls, whatever the    *)
(* planner does; its ledger names approved models only, and what it does   *)
(* not name is the one response that was rejected, which was paid for too  *)
(* (policy.md section 5 has every model call in it).                       *)
CostIsContained ==
    \A c \in Cases :
        /\ modelCalls[c] <= MaxSteps
        /\ modelCalls[c] =
               Len(ledger[c]) + (IF result[c].reason = "model_identity_rejected" THEN 1 ELSE 0)
        /\ \A n \in DOMAIN ledger[c] : ledger[c][n] \in APPROVED_MODEL_IDS

(* An escalated case stays escalated: the last update of handle_case never *)
(* turns it back.                                                          *)
EscalationIsFinal ==
    [][\A c \in Cases : cases[c].status = "escalated" => cases'[c].status = "escalated"]_allVars

(* Every case received is answered, or its thread failed: nothing takes a  *)
(* case up again whose thread has failed.                                  *)
EveryCaseIsAnswered ==
    \A c \in Cases : pc[c] = "received" ~> pc[c] \in {"answered", "failed"}

-----------------------------------------------------------------------------
(* What the repository says of a case and the loop does not ensure         *)

(* policy.md section 2: no case may issue more than one refund.  The       *)
(* refunds are counted per loan, and a customer may have two.              *)
OneRefundPerCase ==
    \A m, n \in DOMAIN transactions :
        /\ transactions[m].type = "refund" /\ transactions[n].type = "refund"
        /\ transactions[m].case = transactions[n].case
        => m = n

(* agent.py gives the span of a denied or failed tool call the status      *)
(* "error"; the tracer overwrites it.                                      *)
FailedCallsHaveErrorSpans ==
    \A c \in Cases :
        pc[c] = "answered" /\ result[c].reason \in {"tool_denied", "tool_error"} =>
            \E n \in DOMAIN spans[c] : spans[c][n] = Span("tool_call", "error")
=============================================================================
