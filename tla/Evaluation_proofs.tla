---------------------------- MODULE Evaluation_proofs ----------------------------
(***************************************************************************)
(* The published cases end as their authors said, for any loans, owners    *)
(* and planner budgets, and any of the instances of a published case.      *)
(***************************************************************************)
EXTENDS Evaluation, GatewayRegressions_proofs, Totals_proofs

-----------------------------------------------------------------------------
(* What a case has done follows its message *)

(* The intent of a case is that of its message, once it is started.        *)
IntentOK(c) ==
    pc[c] \notin {"absent", "received", "failed"} => intent[c] = classify_intent(intake[c].message)

(* Loans are frozen only in a case of fraud, disputes raised only in a     *)
(* case of dispute.                                                        *)
FrozenOK(l) ==
    loans[l] = "charged_off" =>
        \E e \in Cases : pc[e] \notin {"absent", "received"} /\ intent[e] = "fraud_or_freeze"

DisputesOK(c) ==
    DisputesOf(c) # {} => pc[c] \notin {"absent", "received"} /\ intent[c] = "dispute"

(* A refund is positive and of a refund case, a payment negative and of    *)
(* its own.                                                                *)
SignOK(move) ==
    /\ pc[move.case] \notin {"absent", "received"}
    /\ \/ /\ intent[move.case] = "refund" /\ move.type = "refund"
          /\ move.amount = AskedBy(intake[move.case])
       \/ /\ intent[move.case] = "make_payment" /\ move.type = "payment"
          /\ move.amount = -AskedBy(intake[move.case])

(* The status of a result follows its reason.                              *)
ReasonOK(c) ==
    /\ result[c].status = "in_progress" <=> result[c].reason = "none"
    /\ result[c].status = "resolved" <=> result[c].reason = "finished"
    /\ result[c].reason = "finished" =>
           pc[c] \notin {"absent", "received"} /\ intent[c] \notin {"unclear", "fraud_or_freeze"}

OutcomeInv ==
    /\ \A c \in Cases : IntentOK(c) /\ DisputesOK(c) /\ ReasonOK(c)
    /\ \A l \in Loans : FrozenOK(l)
    /\ \A n \in DOMAIN transactions : SignOK(transactions[n])

(* Once started, a case keeps its intent and its row.                      *)
LEMMA IntentStays ==
    ASSUME AgentTypeOK, LoopInv, GatewayInv, NEW c \in Cases, GatewayStep(c), NEW e \in Cases,
           pc[e] \notin {"absent", "received"}
    PROVE  /\ pc'[e] \notin {"absent", "received"}
           /\ intent'[e] = intent[e] /\ intake'[e] = intake[e]
<1>1. AgentStep(c)
  BY GatewayStepIsAgents
<1>2. intake'[e] = intake[e]
  BY GatewayTypesStep
<1>3. CASE e # c
  BY <1>1, <1>2, <1>3, OthersStay
<1>4. CASE e = c
  <2>1. pc'[c] \notin {"absent", "received"}
    BY <1>1, <1>4, OnlyStartsOnce
  <2>2. ~StartCase(c, intake[c].message)
    BY <1>4 DEF StartCase, At
  <2>3. intent'[c] = intent[c]
    BY <2>2, GatewaySteps DEF LoopGoesOn, ReceiveRow, ReceiveCase, Plan, PlanStep, RejectModel, RefuseAction,
          Finish, ToolStep, agentVars, ToolReturns, ExceedBudget, Escalate, EscalateReturns, Complete,
          ToolLocked, CaseFails, CallPlanned
  <2> QED BY <1>2, <1>4, <2>1, <2>3
<1> QED BY <1>3, <1>4

LEMMA IntentStep ==
    ASSUME AgentTypeOK, LoopInv, GatewayInv, NEW c \in Cases, GatewayStep(c), IntentOK(c)
    PROVE  IntentOK(c)'
<1>0. LoopTypes /\ AgentStep(c)
  BY GatewayStepIsAgents DEF AgentTypeOK, LoopTypes
<1>1. CASE pc[c] \notin {"absent", "received"}
  <2>1. pc[c] = "failed" => pc'[c] = "failed"
    <3> SUFFICES ASSUME pc[c] = "failed" PROVE pc'[c] = "failed"
      OBVIOUS
    <3>1. ~ToolStep(c) \/ pc' = pc
      BY DEF ToolStep, agentVars
    <3> QED BY <3>1, GatewaySteps DEF LoopGoesOn, ReceiveRow, ReceiveCase, StartCase, Plan, PlanStep,
          RejectModel, ModelCall, RefuseAction, Finish, ToolReturns, ExceedBudget, Escalate, EscalateReturns,
          Complete, ToolLocked, CaseFails, CallPlanned, At
  <2> QED BY <1>1, <2>1, IntentStays DEF IntentOK
<1>2. CASE pc[c] = "received"
  <2>1. CASE StartCase(c, intake[c].message)
    <3>1. intent'[c] = classify_intent(intake[c].message) /\ intake'[c] = intake[c]
      BY <1>0, <1>2, <2>1, GatewayTypesStep DEF StartCase, LoopTypes
    <3> QED BY <3>1 DEF IntentOK
  <2>2. CASE ToolStep(c) \/ CaseFails(c)
    <3>1. pc'[c] \in {"received", "failed"}
      BY <1>0, <1>2, <2>2 DEF ToolStep, agentVars, CaseFails, Goto, LoopTypes
    <3> QED BY <3>1 DEF IntentOK
  <2> QED BY <1>2, <2>1, <2>2, GatewaySteps DEF LoopGoesOn, ReceiveRow, ReceiveCase, Plan, PlanStep,
          RejectModel, ModelCall, RefuseAction, Finish, ToolReturns, ExceedBudget, Escalate, EscalateReturns,
          Complete, ToolLocked, CallPlanned, At
<1>3. CASE pc[c] = "absent"
  <2>1. ReceiveCase(c)
    BY <1>0, <1>3, CaseComes DEF LoopInv
  <2>2. pc'[c] = "received"
    BY <1>0, <2>1 DEF ReceiveCase, Goto, LoopTypes
  <2> QED BY <2>2 DEF IntentOK
<1> QED BY <1>1, <1>2, <1>3

LEMMA CallLeavesLoans ==
    ASSUME NEW c, NEW tool, NEW l, NEW amount, CallWith(c, tool, l, amount)
    PROVE  UNCHANGED loans
<1>1. CASE bad_arguments(c, tool)
  BY <1>1 DEF bad_arguments, Raised, db
<1>2. CASE tool \in LoanTools /\ CallOnLoan(c, tool, l, amount)
  <2>1. CASE require_identity_verified(c, tool, l) \/ freeze_account_read(c, l)
             \/ read_tool(c, tool, l \in Loans)
    BY <2>1 DEF require_identity_verified, freeze_account_read, read_tool, Denied, Logged, Raised, db
  <2>2. CASE post_payment(c, l, amount) \/ issue_refund(c, l, amount)
    BY <2>2 DEF post_payment, issue_refund, Raised, Denied, MoveMoney, db
  <2>3. CASE raise_dispute(c, l, intake[c].customer)
    BY <2>3 DEF raise_dispute, Raised, db
  <2> QED BY <1>1, <1>2, <2>1, <2>2, <2>3 DEF CallOnLoan
<1>3. CASE VerifyClaim(c)
  <2>1. ASSUME NEW p \in BOOLEAN, NEW q \in BOOLEAN, verify_identity(c, intake[c].customer, p, q)
        PROVE  UNCHANGED loans
    BY <2>1 DEF verify_identity, Raised, db
  <2>2. CASE bad_arguments(c, "verify_identity")
    BY <2>2 DEF bad_arguments, Raised, db
  <2> QED BY <1>3, <2>1, <2>2 DEF VerifyClaim
<1>4. CASE escalate_to_human(c) \/ send_customer_message(c)
  BY <1>4 DEF escalate_to_human, send_customer_message, Logged, db
<1> QED BY <1>2, <1>3, <1>4 DEF CallWith

LEMMA FreezesForFraud ==
    ASSUME AgentTypeOK, NEW c \in Cases, "freeze_account" \in Approved(c)
    PROVE  intent[c] = "fraud_or_freeze"
<1>1. intent[c] \in {"fraud_or_freeze", "refund", "dispute", "payoff_quote",
                     "make_payment", "balance_inquiry", "unclear"}
  BY IntentValues DEF AgentTypeOK
<1> QED BY <1>1 DEF Approved, ApprovedActions, RuleActions, UNIVERSAL_ACTIONS

(* A step that changes a loan is the freeze of a case of fraud.            *)
LEMMA WhoFreezes ==
    ASSUME AgentTypeOK, LoopInv, NEW c \in Cases, GatewayStep(c), loans' # loans
    PROVE  /\ freeze_account_update(c) /\ ToolStep(c) /\ pc[c] = "acting" /\ UNCHANGED <<pc, intent>>
           /\ proposed[c] = "freeze_account" /\ intent[c] = "fraud_or_freeze"
<1>0. LoopOK(c)
  BY DEF LoopInv
<1>1. ~CallPlanned(c)
  BY CallLeavesLoans DEF CallPlanned
<1>2. ~(\/ ReceiveRow(c) \/ StartCase(c, intake[c].message) \/ Plan(c)
        \/ RejectModel(c, response(c).model_id))
  BY DEF ReceiveRow, ReceiveCase, OpenCase, StartCase, Plan, PlanStep, RejectModel, CallerRow, db, vars
<1>3. ~(\/ RefuseAction(c) \/ Finish(c) \/ ToolReturns(c) \/ ExceedBudget(c) \/ EscalateReturns(c))
  BY DEF RefuseAction, CallerRow, Finish, ToolReturns, ExceedBudget, EscalateReturns, SessionEnds, db, vars
<1>4. ~(Escalate(c) \/ Complete(c) \/ ToolLocked(c) \/ CaseFails(c))
  BY DEF Escalate, escalate_to_human, Complete, CompleteCase, ToolLocked, DatabaseLocked,
         Raised, CaseFails, SessionEnds, db
<1>5. ToolStep(c)
  BY <1>1, <1>2, <1>3, <1>4, GatewaySteps DEF LoopGoesOn
<1>6. freeze_account_update(c) /\ call[c].pc = "freezing" /\ UNCHANGED <<pc, intent>>
  BY <1>5 DEF ToolStep, ContinueCall, resolve_dispute_update, freeze_account_update, LogCall, db,
              Continue, agentVars
<1>7. /\ Idle("denied").pc = "idle" /\ Idle("error").pc = "idle" /\ Idle("ok").pc = "idle"
  BY DEF Idle
<1>8. \A t : call[c] \in Underway(t) => t = "freeze_account"
  BY <1>6, <1>7 DEF Underway
<1>9. pc[c] = "acting" /\ proposed[c] = "freeze_account" /\ proposed[c] \in Approved(c)
  BY <1>0, <1>6, <1>7, <1>8 DEF LoopOK
<1> QED BY <1>5, <1>6, <1>9, FreezesForFraud

LEMMA FrozenStep ==
    ASSUME AgentTypeOK, LoopInv, GatewayInv, NEW c \in Cases, GatewayStep(c),
           \A l \in Loans : FrozenOK(l), NEW l \in Loans
    PROVE  FrozenOK(l)'
<1>1. CASE loans' = loans
  BY <1>1, IntentStays DEF FrozenOK
<1>2. CASE loans' # loans
  BY <1>2, WhoFreezes DEF FrozenOK
<1> QED BY <1>1, <1>2

LEMMA DisputesForDispute ==
    ASSUME AgentTypeOK, NEW c \in Cases
    PROVE  /\ "raise_dispute" \in Approved(c) => intent[c] = "dispute"
           /\ "issue_refund" \in Approved(c) => intent[c] = "refund"
           /\ "post_payment" \in Approved(c) => intent[c] = "make_payment"
<1>1. intent[c] \in {"fraud_or_freeze", "refund", "dispute", "payoff_quote",
                     "make_payment", "balance_inquiry", "unclear"}
  BY IntentValues DEF AgentTypeOK
<1> QED BY <1>1 DEF Approved, ApprovedActions, RuleActions, UNIVERSAL_ACTIONS

LEMMA DisputesStep ==
    ASSUME AgentTypeOK, LoopInv, GatewayInv, NEW c \in Cases, GatewayStep(c), NEW e \in Cases, DisputesOK(e)
    PROVE  DisputesOK(e)'
<1>1. CASE DisputesOf(e)' = DisputesOf(e)
  BY <1>1, IntentStays DEF DisputesOK
<1>2. CASE DisputesOf(e)' # DisputesOf(e)
  <2>1. e = c /\ CallPlanned(c) /\ proposed[c] = "raise_dispute"
    BY <1>2, CallLeavesDisputes
  <2>2. pc[c] = "deciding" /\ proposed[c] \in Approved(c)
    BY <2>1, PlannedCall
  <2>3. intent[c] = "dispute"
    BY <2>1, <2>2, DisputesForDispute
  <2> QED BY <2>1, <2>2, <2>3, IntentStays DEF DisputesOK
<1> QED BY <1>1, <1>2

(* A payment is written with a minus, a refund without.                    *)
LEMMA MoneyCallSigns ==
    ASSUME NEW c, NEW tool \in {"post_payment", "issue_refund"}, NEW l, NEW amount,
           CallWith(c, tool, l, amount), transactions' # transactions
    PROVE  \/ tool = "post_payment" /\ transactions' = Append(transactions, MoveRow(c, l, "payment", -amount))
           \/ tool = "issue_refund" /\ transactions' = Append(transactions, MoveRow(c, l, "refund", amount))
<1>1. CallOnLoan(c, tool, l, amount)
  BY DEF CallWith
<1>2. ~bad_arguments(c, tool) /\ ~require_identity_verified(c, tool, l) /\ ~read_tool(c, tool, l \in Loans)
  BY DEF bad_arguments, require_identity_verified, Denied, Raised, read_tool, Logged, db
<1>3. CASE l \in Loans /\ tool = "post_payment" /\ post_payment(c, l, amount)
  BY <1>3 DEF post_payment, AskGated, Raised, MoveMoney, MoveRow, db
<1>4. CASE l \in Loans /\ tool = "issue_refund" /\ issue_refund(c, l, amount)
  BY <1>4 DEF issue_refund, AskGated, Raised, Denied, MoveMoney, MoveRow, db
<1> QED BY <1>1, <1>2, <1>3, <1>4 DEF CallOnLoan

LEMMA SignStep ==
    ASSUME AgentTypeOK, LoopInv, GatewayInv, NEW c \in Cases, GatewayStep(c),
           \A n \in DOMAIN transactions : SignOK(transactions[n]),
           NEW n \in DOMAIN transactions'
    PROVE  SignOK(transactions[n])'
<1>0. transactions \in Seq(Transactions)
  BY DEF AgentTypeOK, TypeOK
<1> DEFINE Fine(move) ==
        /\ pc'[move.case] \notin {"absent", "received"}
        /\ \/ /\ intent'[move.case] = "refund" /\ move.type = "refund"
              /\ move.amount = AskedBy(intake'[move.case])
           \/ /\ intent'[move.case] = "make_payment" /\ move.type = "payment"
              /\ move.amount = -AskedBy(intake'[move.case])
<1>1. ASSUME NEW m \in DOMAIN transactions
      PROVE  Fine(transactions[m])
  <2>1. transactions[m].case \in Cases
    <3>1. transactions[m] \in Transactions
      BY <1>0
    <3> QED BY <3>1 DEF Transactions
  <2>2. SignOK(transactions[m])
    OBVIOUS
  <2> QED BY <2>1, <2>2, IntentStays DEF SignOK
<1>2. CASE UNCHANGED transactions
  BY <1>1, <1>2 DEF SignOK
<1>3. CASE transactions' # transactions
  <2>1. /\ CallPlanned(c) /\ client = "scripted"
        /\ proposed[c] \in {"post_payment", "issue_refund"}
    BY <1>3, WhoMoves
  <2>2. /\ pc[c] = "deciding" /\ proposed[c] \in Approved(c)
        /\ CallWith(c, proposed[c], intake[c].loan, AskedBy(intake[c]))
    BY <2>1, PlannedCall, ScriptedAnswer DEF PlannedAmount, AskedBy
  <2>3. /\ pc'[c] \notin {"absent", "received"} /\ intent'[c] = intent[c]
        /\ intake'[c] = intake[c]
    BY <2>2, IntentStays
  <2>4. \E type, a : /\ transactions' = Append(transactions, MoveRow(c, intake[c].loan, type, a))
                     /\ \/ intent[c] = "make_payment" /\ type = "payment" /\ a = -AskedBy(intake[c])
                        \/ intent[c] = "refund" /\ type = "refund" /\ a = AskedBy(intake[c])
    BY <1>3, <2>1, <2>2, MoneyCallSigns, DisputesForDispute
  <2>5. PICK type, a : /\ transactions' = Append(transactions, MoveRow(c, intake[c].loan, type, a))
                       /\ \/ intent[c] = "make_payment" /\ type = "payment" /\ a = -AskedBy(intake[c])
                          \/ intent[c] = "refund" /\ type = "refund" /\ a = AskedBy(intake[c])
    BY <2>4
  <2> DEFINE row == MoveRow(c, intake[c].loan, type, a)
  <2>6. row.case = c /\ row.type = type /\ row.amount = a
    BY DEF MoveRow
  <2> HIDE DEF row
  <2>7. Fine(row)
    BY <2>3, <2>5, <2>6
  <2>8. transactions'[n] = row \/ (n \in DOMAIN transactions /\ transactions'[n] = transactions[n])
    BY <1>0, <2>5, AppendProperties DEF row
  <2> HIDE DEF Fine
  <2>9. Fine(transactions'[n])
    BY <1>1, <2>7, <2>8
  <2> USE DEF Fine
  <2> QED BY <2>9 DEF SignOK
<1> QED BY <1>2, <1>3

LEMMA ReasonStep ==
    ASSUME AgentTypeOK, LoopInv, GatewayInv, NEW c \in Cases, GatewayStep(c), ScriptOK(c), DoneOK(c), ReasonOK(c)
    PROVE  ReasonOK(c)'
<1>0. LoopTypes
  BY DEF AgentTypeOK, LoopTypes
<1>1. CASE result'[c] = result[c]
  BY <1>1, IntentStays DEF ReasonOK
<1>2. CASE RejectModel(c, response(c).model_id) \/ RefuseAction(c) \/ ExceedBudget(c)
  BY <1>0, <1>2 DEF RejectModel, RefuseAction, ExceedBudget, StopWith, Result, LoopTypes, ReasonOK
<1>3. CASE ToolReturns(c) /\ (AfterRefusal(c) \/ (AfterSuccess(c) /\ proposed[c] = "escalate_to_human"))
  BY <1>0, <1>3 DEF AfterRefusal, AfterSuccess, StopWith, Result, LoopTypes, ReasonOK
<1>4. CASE Finish(c)
  <2>1. pc[c] = "deciding" /\ result'[c] = Result("resolved", "finished")
    BY <1>0, <1>4 DEF Finish, At, LoopTypes
  <2>2. IsDone(c, proposed[c])
    BY <1>4, FinishMeansDone
  <2> QED BY <2>1, <2>2, IntentStays DEF Result, IsDone, ReasonOK
<1> QED BY <1>1, <1>2, <1>3, <1>4, ReasonsGiven

LEMMA GatewayInitOutcome == GatewayInit => OutcomeInv
<1> SUFFICES ASSUME GatewayInit
             PROVE  OutcomeInv
  OBVIOUS
<1>1. transactions = <<>> /\ disputes = <<>> /\ loans \in [Loans -> SeededStatuses]
  BY DEF GatewayInit, AgentInit, Init
<1>2. ASSUME NEW c \in Cases
      PROVE  IntentOK(c) /\ DisputesOK(c) /\ ReasonOK(c)
  <2>1. pc[c] = "absent" /\ result[c] = Result("in_progress", "none")
    BY DEF GatewayInit, AgentInit
  <2>2. DisputesOf(c) = {}
    BY <1>1 DEF DisputesOf
  <2> QED BY <2>1, <2>2 DEF IntentOK, DisputesOK, ReasonOK, Result
<1>3. \A l \in Loans : FrozenOK(l)
  BY <1>1, SeededAssumption DEF FrozenOK
<1> QED BY <1>1, <1>2, <1>3 DEF OutcomeInv

GatewayInvs == AgentTypeOK /\ LoopInv /\ GatewayInv /\ ScriptInv /\ DoneInv

LEMMA OutcomeInvIsInvariant ==
    GatewayInvs /\ OutcomeInv /\ [GatewayNext]_everyVar => OutcomeInv'
<1> SUFFICES ASSUME GatewayInvs, OutcomeInv, [GatewayNext]_everyVar
             PROVE  OutcomeInv'
  OBVIOUS
<1>1. CASE UNCHANGED everyVar
  <2>1. UNCHANGED <<pc, intent, intake, loans, disputes, transactions, result>>
    BY <1>1 DEF everyVar, allVars, vars, agentVars
  <2> QED BY <2>1 DEF OutcomeInv, IntentOK, DisputesOK, ReasonOK, FrozenOK, SignOK, DisputesOf
<1>2. ASSUME NEW c \in Cases, GatewayStep(c)
      PROVE  OutcomeInv'
  <2>0. AgentTypeOK /\ LoopInv /\ GatewayInv /\ ScriptOK(c) /\ DoneOK(c)
    BY DEF GatewayInvs, ScriptInv, DoneInv
  <2>1. ASSUME NEW e \in Cases
        PROVE  IntentOK(e)' /\ DisputesOK(e)' /\ ReasonOK(e)'
    <3>0. IntentOK(e) /\ DisputesOK(e) /\ ReasonOK(e)
      BY DEF OutcomeInv
    <3>1. CASE e = c
      BY <1>2, <2>0, <3>0, <3>1, IntentStep, DisputesStep, ReasonStep
    <3>2. CASE e # c
      <4>1. pc'[e] = pc[e] /\ intent'[e] = intent[e] /\ result'[e] = result[e]
        BY <1>2, <2>0, <3>2, GatewayStepIsAgents, OthersStay
      <4>2. pc[e] # "absent" => intake'[e] = intake[e]
        BY <1>2, <2>0, GatewayTypesStep
      <4> QED BY <1>2, <2>0, <3>0, <4>1, <4>2, DisputesStep DEF IntentOK, ReasonOK
    <3> QED BY <3>1, <3>2
  <2>2. \A l \in Loans : FrozenOK(l)'
    BY <1>2, <2>0, FrozenStep DEF OutcomeInv
  <2>3. \A n \in DOMAIN transactions' : SignOK(transactions[n])'
    BY <1>2, <2>0, SignStep DEF OutcomeInv
  <2> QED BY <2>1, <2>2, <2>3 DEF OutcomeInv
<1> QED BY <1>1, <1>2 DEF GatewayNext, GatewayStep

LEMMA GatewayInvsHold == GatewaySpec => [](GatewayInvs /\ OutcomeInv /\ MovesOK)
<1>1. GatewayInit => GatewayInvs /\ OutcomeInv /\ MovesOK
  <2>1. GatewayInit => MovesOK
    BY DEF GatewayInit, AgentInit, Init, MovesOK
  <2> QED BY <2>1, GatewayInitInv, GatewayInitScript, GatewayInitDone, GatewayInitOutcome DEF GatewayInvs
<1>2. GatewayInvs /\ OutcomeInv /\ MovesOK /\ [GatewayNext]_everyVar => (GatewayInvs /\ OutcomeInv /\ MovesOK)'
  <2>1. GatewayInvs /\ [GatewayNext]_everyVar => GatewayInvs'
    BY GatewayInvIsInvariant, ScriptInvIsInvariant, DoneInvIsInvariant DEF GatewayInvs
  <2>2. GatewayInvs /\ MovesOK /\ [GatewayNext]_everyVar => MovesOK'
    BY MovesInvariant DEF GatewayInvs
  <2> QED BY <2>1, <2>2, OutcomeInvIsInvariant
<1> QED BY <1>1, <1>2, PTL DEF GatewaySpec

-----------------------------------------------------------------------------
(* A case that is not disturbed goes well                                  *)

Identified == {"refund", "dispute", "make_payment"}

(* The default planner, no database lock, a loan of the case's customer,   *)
(* and credentials where the script asks for them.                         *)
Undisturbed(c) ==
    /\ client = "scripted" /\ faults = 0 /\ pc[c] # "absent"
    /\ intake[c].loan \in Loans /\ intake[c].customer = Owner[intake[c].loan]
    /\ classify_intent(intake[c].message) \in Identified => intake[c].claim # "none"

(* What the steps taken have left behind them.                             *)
Told(c, taken) ==
    /\ "verify_identity" \in taken /\ intake[c].claim = "right" => FoundVerified(c)
    /\ "freeze_account" \in taken => loans[intake[c].loan] = "charged_off"

(* Why a call may be denied, and why a case may be given to a human.       *)
OverLimit(c) == intent[c] = "refund" /\ AskedBy(intake[c]) > REFUND_AUTO_LIMIT_CENTS

Handed(c) ==
    \/ intent[c] = "unclear"
    \/ intent[c] = "fraud_or_freeze" /\ loans[intake[c].loan] = "charged_off"
    \/ intent[c] \in Identified /\ intake[c].claim # "right"

CallOK(c) ==
    /\ call[c] # Idle("error")
    /\ call[c] = Idle("denied") => OverLimit(c)
    /\ call[c].pc = "freezing" => call[c].loan = intake[c].loan
    /\ call[c] # Idle("denied") /\ call[c].pc # "freezing" => Told(c, called(c) \cup {proposed[c]})
    /\ proposed[c] = "escalate_to_human" => Handed(c)

Justified(c) ==
    /\ result[c].reason \in {"none", "finished", "planner_escalated", "tool_denied"}
    /\ result[c].reason = "planner_escalated" => Handed(c)
    /\ result[c].reason = "tool_denied" => OverLimit(c)

GoesWell(c) ==
    /\ pc[c] \in {"planning", "deciding", "acting"} => Told(c, called(c))
    /\ pc[c] = "acting" => CallOK(c)
    /\ Justified(c)

WellInv == \A c \in Cases : Undisturbed(c) => GoesWell(c)

LEMMA FaultsGrow ==
    ASSUME AgentTypeOK, LoopInv, GatewayInv, NEW c \in Cases, GatewayStep(c), faults' = 0
    PROVE  faults = 0 /\ ~ToolLocked(c)
<1>1. Step(c) \/ UNCHANGED vars
  BY GatewayStepIsAgents, LoopUsesTools DEF LoopInv
<1>2. faults \in Nat /\ TypeOK
  BY DEF AgentTypeOK, TypeOK
<1>3. faults = 0
  BY <1>1, <1>2, StepTrace DEF Trace, TellsAll, LeavesEffect, LogsEffect, Locks, Ends, Opens, vars
<1>4. ~ToolLocked(c)
  BY <1>2 DEF ToolLocked, DatabaseLocked
<1> QED BY <1>3, <1>4

LEMMA FreezesLast ==
    ASSUME AgentTypeOK, LoopInv, NEW c \in Cases, GatewayStep(c), NEW l \in Loans, loans[l] = "charged_off"
    PROVE  loans'[l] = "charged_off"
<1>1. CASE loans' # loans
  BY <1>1, WhoFreezes DEF freeze_account_update, AgentTypeOK, TypeOK
<1> QED BY <1>1

LEMMA WasUndisturbed ==
    ASSUME AgentTypeOK, LoopInv, GatewayInv, NEW c \in Cases, GatewayStep(c), NEW e \in Cases,
           Undisturbed(e)', pc[e] # "absent"
    PROVE  Undisturbed(e) /\ intake'[e] = intake[e] /\ ~ToolLocked(c)
<1>1. intake'[e] = intake[e] /\ client' = client
  BY GatewayTypesStep DEF GatewayStep
<1>2. faults = 0 /\ ~ToolLocked(c)
  BY FaultsGrow DEF Undisturbed
<1> QED BY <1>1, <1>2 DEF Undisturbed

(* What was known of a case stays known.                                   *)
LEMMA KnownStays ==
    ASSUME AgentTypeOK, LoopInv, GatewayInv, NEW c \in Cases, GatewayStep(c), NEW e \in Cases,
           pc[e] \notin {"absent", "received"}, intake[e].loan \in Loans
    PROVE  /\ Handed(e) => Handed(e)'
           /\ OverLimit(e) => OverLimit(e)'
           /\ \A taken : Told(e, taken) =>
                  /\ "verify_identity" \in taken /\ intake[e].claim = "right" => FoundVerified(e)'
                  /\ "freeze_account" \in taken => loans'[intake[e].loan] = "charged_off"
<1>1. intent'[e] = intent[e] /\ intake'[e] = intake[e]
  BY IntentStays
<1>2. loans[intake[e].loan] = "charged_off" => loans'[intake[e].loan] = "charged_off"
  BY FreezesLast
<1>3. FoundVerified(e) => FoundVerified(e)'
  BY GatewayStepIsAgents, RowsStay DEF FoundVerified
<1> QED BY <1>1, <1>2, <1>3 DEF Handed, OverLimit, Told

LEMMA VerifiedRowTypes ==
    ASSUME NEW row \in AuditRows, row.event = "identity_verified"
    PROVE  row.customer \in Customers
<1>1. row \in IdentityRows
  BY DEF AuditRows, IdentityRows, MoneyRows, RaisedRows, ResolvedRows, FrozenRows, DeniedRows, ToolCallRows,
         PlainRows, CallerEventRows, EscalatedRow, MessageRow, CaseReceivedRow, ModelRejectedRow, DeniedRow
<1> QED BY <1>1 DEF IdentityRows

(* The gate opens to a case whose trail tells of its customer.             *)
LEMMA GateIsOpen ==
    ASSUME AgentTypeOK, GatewayInv, TrailIsInTable, NEW c \in Cases, FoundVerified(c),
           intake[c].loan \in Loans, intake[c].customer = Owner[intake[c].loan]
    PROVE  GateOpen(c, intake[c].loan)
<1>1. PICK i \in DOMAIN audit_log[c] : audit_log[c][i].event = "identity_verified" /\ audit_log[c][i].verified
  BY DEF FoundVerified
<1>2. audit_log[c][i] \in AuditRows
  BY ElementOfSeq DEF AgentTypeOK, TypeOK
<1>3. audit_log[c][i].customer \in Customers
  BY <1>1, <1>2, VerifiedRowTypes
<1>4. is_identity_verified(c, audit_log[c][i].customer)
  BY <1>1, <1>3 DEF TrailIsInTable, OnTrail
<1>5. PICK v \in identity_verifications : v.case = c /\ v.verified
  BY <1>4 DEF is_identity_verified
<1>6. v.customer = intake[c].customer
  BY <1>5 DEF GatewayInv, VerificationOK
<1> QED BY <1>5, <1>6 DEF GateOpen, is_identity_verified

(* Steps behind the gate come after an identity check that went well, and  *)
(* money not before it.                                                    *)
LEMMA GatedSteps ==
    ASSUME AgentTypeOK, NEW c \in Cases, FollowsScript(c), TakesStep(c, proposed[c]), proposed[c] \in GATED_TOOLS
    PROVE  FoundVerified(c)
<1> DEFINE k == Len(history[c])
           m == Len(Steps(c))
<1>1. /\ k \in Nat /\ m \in 0 .. 3 /\ DOMAIN Steps(c) = 1 .. m
      /\ k < m /\ proposed[c] = Steps(c)[k + 1]
      /\ intent[c] \in INTENTS
  BY CalledSteps DEF TakesStep, AgentTypeOK
<1>2. k > 0 /\ VerifiesFirst(c) => FoundVerified(c)
  BY DEF TakesStep
<1> HIDE DEF k
<1>3. k + 1 \in DOMAIN Steps(c)
  BY <1>1
<1>4. proposed[c] # "resolve_dispute"
  <2>1. Steps(c)[k + 1] \in ApprovedActions(intent[c])
    BY <1>1, <1>3, ScriptSteps DEF Steps
  <2>2. intent[c] \in {"fraud_or_freeze", "refund", "dispute", "payoff_quote",
                       "make_payment", "balance_inquiry", "unclear"}
    BY <1>1, IntentValues
  <2>3. "resolve_dispute" \notin ApprovedActions(intent[c])
    BY <2>2 DEF ApprovedActions, RuleActions, UNIVERSAL_ACTIONS
  <2> QED BY <1>1, <2>1, <2>3
<1>5. proposed[c] \in MONEY_TOOLS \/ proposed[c] = "raise_dispute"
  BY <1>4 DEF GATED_TOOLS
<1>6. k + 1 = 2 /\ Steps(c)[1] = "verify_identity"
  BY <1>1, <1>3, <1>5, ScriptEffects DEF Steps
<1>7. k > 0 /\ VerifiesFirst(c)
  BY <1>1, <1>6 DEF VerifiesFirst
<1> QED BY <1>2, <1>7

LEMMA CallsApart ==
    /\ Idle("error") # Idle("denied") /\ Idle("ok") \notin {Idle("error"), Idle("denied")}
    /\ \A o : Idle(o).pc = "idle"
    /\ \A tool : Logging(tool).pc = "logging"
    /\ \A l, prior : Freezing(l, prior).pc = "freezing" /\ Freezing(l, prior).loan = l
BY DEF Idle, Logging, Freezing

(* What a call in an undisturbed case comes to.                            *)
GoesOnWell(c) == call'[c].pc = "logging" \/ call'[c] = Idle("ok")

LEMMA IdentityCall ==
    ASSUME AgentTypeOK, GatewayInv, NEW c \in Cases, Undisturbed(c), intake[c].claim # "none", VerifyClaim(c)
    PROVE  GoesOnWell(c) /\ (intake[c].claim = "right" => FoundVerified(c)')
<1>0. TypeOK /\ intake[c].customer \in Customers /\ intake[c].customer # "none"
  BY OwnerAssumption, NullAssumption DEF AgentTypeOK, Undisturbed
<1>1. PICK p \in BOOLEAN, q \in BOOLEAN : /\ (p /\ q) <=> intake[c].claim = "right"
                                         /\ verify_identity(c, intake[c].customer, p, q)
  BY <1>0 DEF VerifyClaim
<1> DEFINE row == IdentityRow(intake[c].customer, p /\ q)
<1>2. Committed(c, "verify_identity", row)
  BY <1>0, <1>1 DEF verify_identity
<1>3. row \in AuditRows /\ row.event = "identity_verified" /\ (row.verified <=> p /\ q)
  BY <1>0, RowTypes DEF IdentityRow
<1> HIDE DEF row
<1>4. call'[c] = Logging("verify_identity") /\ append_audit(c, <<row>>)
  BY <1>0, <1>2, Becomes DEF Committed
<1>5. \E i \in DOMAIN audit_log'[c] : audit_log'[c][i] = row
  BY <1>0, <1>3, <1>4, AppendedOne
<1> QED BY <1>1, <1>3, <1>4, <1>5, CallsApart DEF GoesOnWell, FoundVerified

LEMMA GatedCall ==
    ASSUME AgentTypeOK, GatewayInv, NEW c \in Cases, Undisturbed(c),
           NEW tool \in {"post_payment", "issue_refund", "raise_dispute"},
           CallOnLoan(c, tool, intake[c].loan, AskedBy(intake[c])),
           GateOpen(c, intake[c].loan), tool = "issue_refund" => MovesOf(c) = {}
    PROVE  \/ GoesOnWell(c)
           \/ tool = "issue_refund" /\ call'[c] = Idle("denied") /\ AskedBy(intake[c]) > REFUND_AUTO_LIMIT_CENTS
<1>0. TypeOK /\ intake[c].loan \in Loans /\ intake[c].loan # "none" /\ intake[c].customer \in Customers
  BY OwnerAssumption, NullAssumption DEF AgentTypeOK, Undisturbed
<1>1. AskedBy(intake[c]) \in Nat /\ AskedBy(intake[c]) > 0
  <2>1. intake[c].amount \in Nat
    BY MessageAmountsAssumption DEF GatewayInv, GatewayTypeOK, Undisturbed, Intakes
  <2> QED BY <2>1 DEF AskedBy
<1>2. \A t, row : Committed(c, t, row) => GoesOnWell(c)
  BY <1>0, Becomes, CallsApart DEF Committed, GoesOnWell
<1>3. ~require_identity_verified(c, tool, intake[c].loan) /\ ~read_tool(c, tool, intake[c].loan \in Loans)
  BY DEF require_identity_verified, read_tool, READ_TOOLS
<1>4. CASE tool = "post_payment" /\ post_payment(c, intake[c].loan, AskedBy(intake[c]))
  BY <1>1, <1>2, <1>4 DEF post_payment, MoveMoney
<1>5. CASE tool = "issue_refund" /\ issue_refund(c, intake[c].loan, AskedBy(intake[c]))
  <2>1. prior_refunds(c, intake[c].loan) = {}
    BY <1>5 DEF prior_refunds, MovesOf
  <2> QED BY <1>0, <1>1, <1>2, <1>5, <2>1, Becomes
          DEF issue_refund, MoveMoney, Denied, refund_within_auto_limit, REFUND_AUTO_LIMIT_CENTS
<1>6. CASE tool = "raise_dispute" /\ raise_dispute(c, intake[c].loan, intake[c].customer)
  BY <1>0, <1>2, <1>6 DEF raise_dispute
<1> QED BY <1>0, <1>3, <1>4, <1>5, <1>6 DEF CallOnLoan

(* The call an undisturbed case makes: it goes on, it freezes its loan, or *)
(* it asks for more than may be refunded without a human.                  *)
LEMMA OrdinaryCall ==
    ASSUME AgentTypeOK, LoopInv, GatewayInv, TrailIsInTable, NEW c \in Cases, ScriptOK(c), DoneOK(c),
           IntentOK(c), Undisturbed(c), CallPlanned(c)
    PROVE  \/ /\ GoesOnWell(c) /\ proposed[c] # "freeze_account"
              /\ proposed[c] = "verify_identity" /\ intake[c].claim = "right" => FoundVerified(c)'
           \/ proposed[c] = "freeze_account" /\ call'[c] = Freezing(intake[c].loan, loans[intake[c].loan])
           \/ proposed[c] = "issue_refund" /\ call'[c] = Idle("denied") /\ OverLimit(c)
<1>0. TypeOK /\ intake[c].loan \in Loans /\ intake[c].loan # "none" /\ intake[c].customer = Owner[intake[c].loan]
  BY NullAssumption DEF AgentTypeOK, Undisturbed
<1>1. pc[c] = "deciding" /\ proposed[c] \in Approved(c)
  BY PlannedCall
<1>2. Straight(c) /\ FollowsScript(c)
  BY <1>1 DEF Undisturbed, Straight, ScriptOK
<1>3. CallWith(c, proposed[c], intake[c].loan, AskedBy(intake[c]))
  <2>1. response(c).loan = intake[c].loan /\ response(c).amount = AskedBy(intake[c])
    BY ScriptedAnswer DEF Undisturbed, PlannedAmount, AskedBy
  <2> QED BY <2>1, PlannedCall
<1>4. \A tool, row : Committed(c, tool, row) => GoesOnWell(c)
  BY <1>0, Becomes, CallsApart DEF Committed, GoesOnWell
<1>5. \A tool, rows : Logged(c, tool, rows) => GoesOnWell(c)
  BY <1>0, Becomes DEF Logged, GoesOnWell
<1>6. CASE proposed[c] = "verify_identity" /\ VerifyClaim(c)
  <2>1. intent[c] = classify_intent(intake[c].message)
    BY <1>1 DEF IntentOK
  <2>2. intent[c] \in Identified
    <3>1. intent[c] \in {"fraud_or_freeze", "refund", "dispute", "payoff_quote",
                         "make_payment", "balance_inquiry", "unclear"}
      BY IntentValues DEF AgentTypeOK
    <3> QED BY <1>1, <1>6, <3>1 DEF Identified, Approved, ApprovedActions, RuleActions, UNIVERSAL_ACTIONS
  <2>3. intake[c].claim # "none"
    BY <2>1, <2>2 DEF Undisturbed
  <2> QED BY <1>6, <2>3, IdentityCall
<1>7. CASE proposed[c] = "escalate_to_human" /\ escalate_to_human(c)
  BY <1>4, <1>7 DEF escalate_to_human
<1>8. CASE proposed[c] = "send_customer_message" /\ send_customer_message(c)
  BY <1>5, <1>8 DEF send_customer_message
<1>9. CASE CallOnLoan(c, proposed[c], intake[c].loan, AskedBy(intake[c]))
  <2>1. proposed[c] \in GATED_TOOLS => GateOpen(c, intake[c].loan) /\ TakesStep(c, proposed[c])
    <3> SUFFICES ASSUME proposed[c] \in GATED_TOOLS
                 PROVE  GateOpen(c, intake[c].loan) /\ TakesStep(c, proposed[c])
      OBVIOUS
    <3>1. ~HandsOver(c, proposed[c])
      BY DEF HandsOver, GATED_TOOLS, MONEY_TOOLS
    <3>2. TakesStep(c, proposed[c])
      BY <1>1, <1>2, <3>1, ActsOnScript
    <3> QED BY <1>0, <1>2, <3>2, GatedSteps, GateIsOpen
  <2>2. ~require_identity_verified(c, proposed[c], intake[c].loan)
    BY <2>1 DEF require_identity_verified
  <2>3. CASE proposed[c] \in {"post_payment", "issue_refund", "raise_dispute"}
    <3>1. TakesStep(c, proposed[c]) /\ GateOpen(c, intake[c].loan)
      BY <2>1, <2>3 DEF GATED_TOOLS, MONEY_TOOLS
    <3>2. proposed[c] = "issue_refund" => MovesOf(c) = {}
      <4>1. proposed[c] = "issue_refund" => called(c) \cap MONEY_TOOLS = {}
        BY <1>2, <3>1, ScriptTaken DEF MONEY_TOOLS
      <4> QED BY <1>1, <1>2, <4>1 DEF DoneOK, Effects
    <3>3. proposed[c] = "issue_refund" => intent[c] = "refund"
      BY <1>1, DisputesForDispute
    <3>4. \/ GoesOnWell(c)
          \/ proposed[c] = "issue_refund" /\ call'[c] = Idle("denied")
             /\ AskedBy(intake[c]) > REFUND_AUTO_LIMIT_CENTS
      BY <1>9, <2>3, <3>1, <3>2, GatedCall
    <3> QED BY <2>3, <3>3, <3>4 DEF OverLimit
  <2>4. CASE proposed[c] = "freeze_account" /\ freeze_account_read(c, intake[c].loan)
    <3>1. call'[c] = Freezing(intake[c].loan, loans[intake[c].loan])
      BY <1>0, <2>4, Becomes DEF freeze_account_read
    <3> QED BY <2>4, <3>1
  <2>5. CASE read_tool(c, proposed[c], intake[c].loan \in Loans)
    BY <1>0, <1>5, <2>5 DEF read_tool, READ_TOOLS
  <2> QED BY <1>0, <1>9, <2>2, <2>3, <2>4, <2>5 DEF CallOnLoan
<1> QED BY <1>3, <1>6, <1>7, <1>8, <1>9 DEF CallWith

(* The default planner gives a case to a human only when it has no script, *)
(* the loan is frozen, or the credentials were not right.                  *)
LEMMA EscalationIsHanded ==
    ASSUME AgentTypeOK, GatewayInv, NEW c \in Cases, IntentOK(c), Undisturbed(c), pc[c] = "deciding",
           Told(c, called(c)), ScriptOK(c), proposed[c] = "escalate_to_human"
    PROVE  Handed(c)
<1>0. PlannedAction(c) = "escalate_to_human"
  BY ScriptedAnswer DEF Undisturbed, GatewayInv, AnswerOK
<1>1. Straight(c) /\ FollowsScript(c) /\ intent[c] \in INTENTS
  BY DEF Undisturbed, Straight, ScriptOK, AgentTypeOK
<1>2. CASE "verify_identity" \in called(c) /\ ~Verified(c)
  <2>1. intake[c].claim # "right"
    BY <1>2 DEF Told, Verified
  <2>2. PICK n \in DOMAIN Script[intent[c]] : Script[intent[c]][n] = "verify_identity"
    <3>1. PICK n \in DOMAIN history[c] : history[c][n].action = "verify_identity"
      BY <1>2 DEF called
    <3>2. n \in DOMAIN Steps(c)
      BY <1>1, CalledSteps DEF FollowsScript
    <3> QED BY <1>1, <3>1, <3>2 DEF FollowsScript, Steps
  <2>3. intent[c] \in Identified
    BY <1>1, <2>2, IntentValues DEF Script, Identified
  <2> QED BY <2>1, <2>3 DEF Handed
<1>3. CASE NextStep(c) = "escalate_to_human"
  <2>1. Missing(c) = {}
    BY <1>1, <1>3, FirstMissing, ScriptSteps DEF Missing
  <2>2. intent[c] \in {"unclear", "fraud_or_freeze"}
    BY <1>3, <2>1 DEF NextStep, LastStep
  <2>3. intent[c] = "fraud_or_freeze" => "freeze_account" \in called(c)
    BY <2>1 DEF Missing, Script
  <2> QED BY <2>2, <2>3 DEF Told, Handed
<1> QED BY <1>0, <1>2, <1>3 DEF PlannedAction

(* What the steps taken have left stays there.                             *)
LEMMA TellsMore ==
    ASSUME AgentTypeOK, LoopInv, GatewayInv, NEW c \in Cases, GatewayStep(c), pc[c] \notin {"absent", "received"},
           intake[c].loan \in Loans, NEW taken, Told(c, taken), called(c)' = taken
    PROVE  Told(c, called(c))'
<1>1. intake'[c] = intake[c]
  BY IntentStays
<1> QED BY <1>1, KnownStays DEF Told

LEMMA JustifiedStays ==
    ASSUME AgentTypeOK, LoopInv, GatewayInv, NEW c \in Cases, GatewayStep(c), NEW e \in Cases,
           result'[e] = result[e], Justified(e), intake[e].loan \in Loans,
           pc[e] \in {"absent", "received"} => result[e].reason = "none"
    PROVE  Justified(e)'
<1>1. CASE pc[e] \in {"absent", "received"}
  BY <1>1 DEF Justified
<1>2. CASE pc[e] \notin {"absent", "received"}
  BY <1>2, KnownStays DEF Justified
<1> QED BY <1>1, <1>2

LEMMA CallGoesWell ==
    ASSUME AgentTypeOK, LoopInv, GatewayInv, TrailIsInTable, NEW c \in Cases, GatewayStep(c),
           ScriptOK(c), DoneOK(c), IntentOK(c), Undisturbed(c), GoesWell(c), CallPlanned(c)
    PROVE  GoesWell(c)'
<1>0. pc[c] = "deciding" /\ UNCHANGED <<history, proposed, result>> /\ intake[c].loan \in Loans
  BY DEF CallPlanned, At, Undisturbed
<1>2. called(c)' = called(c)
  BY <1>0 DEF called
<1>3. Told(c, called(c)) /\ Justified(c)
  BY <1>0 DEF GoesWell
<1>4. intake'[c] = intake[c]
  BY <1>0, IntentStays
<1>5. Told(c, called(c))'
  BY <1>0, <1>2, <1>3, TellsMore
<1>6. Justified(c)'
  BY <1>0, <1>3, JustifiedStays
<1>7. proposed[c] = "escalate_to_human" => Handed(c)'
  BY <1>0, <1>3, EscalationIsHanded, KnownStays
<1>8. OverLimit(c) => OverLimit(c)'
  BY <1>0, KnownStays
<1>9. CASE /\ GoesOnWell(c) /\ proposed[c] # "freeze_account"
           /\ proposed[c] = "verify_identity" /\ intake[c].claim = "right" => FoundVerified(c)'
  <2>1. call'[c] \notin {Idle("error"), Idle("denied")} /\ call'[c].pc # "freezing"
    BY <1>9, CallsApart DEF GoesOnWell
  <2>2. Told(c, called(c) \cup {proposed[c]})'
    BY <1>0, <1>2, <1>4, <1>5, <1>9 DEF Told
  <2> QED BY <1>0, <1>5, <1>6, <1>7, <2>1, <2>2 DEF GoesWell, CallOK
<1>10. CASE call'[c] = Freezing(intake[c].loan, loans[intake[c].loan])
  <2>1. call'[c] \notin {Idle("error"), Idle("denied")} /\ call'[c].pc = "freezing"
        /\ call'[c].loan = intake[c].loan
    BY <1>10, CallsApart
  <2> QED BY <1>4, <1>0, <1>5, <1>6, <1>7, <2>1 DEF GoesWell, CallOK
<1>11. CASE call'[c] = Idle("denied") /\ OverLimit(c)
  <2>1. call'[c] # Idle("error") /\ call'[c].pc # "freezing"
    BY <1>11, CallsApart
  <2> QED BY <1>0, <1>5, <1>6, <1>7, <1>8, <1>11, <2>1 DEF GoesWell, CallOK
<1> QED BY <1>9, <1>10, <1>11, OrdinaryCall

(* Freezing its loan and writing the row of the call is all that is left.  *)
LEMMA ToolStepGoesWell ==
    ASSUME AgentTypeOK, LoopInv, GatewayInv, NEW c \in Cases, GatewayStep(c),
           Undisturbed(c), GoesWell(c), ToolStep(c)
    PROVE  GoesWell(c)'
<1>0. TypeOK /\ LoopOK(c) /\ intake[c].loan \in Loans /\ intake[c].loan \in DOMAIN loans
      /\ UNCHANGED <<pc, history, proposed, result>>
  BY DEF AgentTypeOK, LoopInv, Undisturbed, ToolStep, agentVars, TypeOK
<1>1. call[c].pc \in {"resolving", "freezing", "logging"}
  BY DEF ToolStep, ContinueCall, Continue, resolve_dispute_update, freeze_account_update, LogCall
<1>2. call[c] # Idle("denied")
  BY <1>1, CallsApart
<1>3. GoesOnWell(c)
  BY <1>0, Becomes, CallsApart
     DEF ToolStep, ContinueCall, resolve_dispute_update, freeze_account_update, LogCall, Committed, GoesOnWell
<1>4. call'[c] \notin {Idle("error"), Idle("denied")} /\ call'[c].pc # "freezing"
  BY <1>3, CallsApart DEF GoesOnWell
<1>5. pc[c] \in {"acting", "escalated"}
  BY <1>0, <1>1 DEF LoopOK
<1>6. called(c)' = called(c) /\ intake'[c] = intake[c]
  BY <1>0, <1>5, IntentStays DEF called
<1>7. Justified(c)'
  BY <1>0, <1>5, JustifiedStays DEF GoesWell
<1>8. CASE pc[c] = "acting"
  <2>1. CallOK(c) /\ Told(c, called(c))
    BY <1>8 DEF GoesWell
  <2>2. Told(c, called(c))'
    BY <1>0, <1>6, <1>8, <2>1, TellsMore
  <2>3. Told(c, called(c) \cup {proposed[c]})'
    <3>1. CASE call[c].pc # "freezing"
      <4>1. Told(c, called(c) \cup {proposed[c]})
        BY <1>2, <2>1, <3>1 DEF CallOK
      <4> QED BY <1>0, <1>6, <1>8, <4>1, KnownStays DEF Told
    <3>2. CASE call[c].pc = "freezing"
      <4>1. freeze_account_update(c) /\ call[c].loan = intake[c].loan
        BY <2>1, <3>2 DEF CallOK, ToolStep, ContinueCall, Continue, resolve_dispute_update, LogCall
      <4>2. loans'[intake[c].loan] = "charged_off"
        BY <1>0, <4>1 DEF freeze_account_update
      <4>3. proposed[c] # "verify_identity"
        BY <1>0, <1>8, <3>2, CallsApart DEF LoopOK, Underway
      <4> QED BY <1>0, <1>6, <2>2, <4>2, <4>3 DEF Told
    <3> QED BY <3>1, <3>2
  <2>4. proposed[c] = "escalate_to_human" => Handed(c)'
    BY <1>0, <1>8, <2>1, KnownStays DEF CallOK
  <2> QED BY <1>0, <1>4, <1>7, <1>8, <2>2, <2>3, <2>4 DEF GoesWell, CallOK
<1> QED BY <1>0, <1>5, <1>7, <1>8 DEF GoesWell

LEMMA ReturnGoesWell ==
    ASSUME AgentTypeOK, LoopInv, GatewayInv, NEW c \in Cases, GatewayStep(c),
           Undisturbed(c), GoesWell(c), ToolReturns(c)
    PROVE  GoesWell(c)'
<1>0. LoopTypes /\ LoopOK(c) /\ pc[c] = "acting" /\ intake[c].loan \in Loans /\ call[c].pc = "idle"
  BY DEF AgentTypeOK, LoopTypes, LoopInv, Undisturbed, ToolReturns, At
<1>1. CallOK(c) /\ Justified(c)
  BY <1>0 DEF GoesWell
<1>2. call[c] \in {Idle("ok"), Idle("denied"), Idle("error")}
  BY <1>0 DEF LoopOK, Underway
<1>3. /\ Handed(c) => Handed(c)'
      /\ OverLimit(c) => OverLimit(c)'
  BY <1>0, KnownStays
<1>4. CASE AfterRefusal(c)
  <2>1. call[c] = Idle("denied")
    BY <1>1, <1>2, <1>4 DEF CallOK, AfterRefusal, Idle
  <2>2. pc'[c] = "escalating" /\ result'[c].reason = "tool_denied"
    BY <1>0, <1>4, <2>1 DEF AfterRefusal, StopWith, Goto, Result, LoopTypes, Idle
  <2> QED BY <1>1, <1>3, <2>1, <2>2 DEF CallOK, GoesWell, Justified
<1>5. CASE AfterSuccess(c)
  <2>1. call[c] # Idle("denied") /\ call[c].pc # "freezing"
    BY <1>0, <1>5 DEF AfterSuccess, Idle
  <2>2. CASE proposed[c] = "escalate_to_human"
    <3>1. pc'[c] = "completing" /\ result'[c].reason = "planner_escalated"
      BY <1>0, <1>5, <2>2 DEF AfterSuccess, Goto, Result, LoopTypes
    <3> QED BY <1>1, <1>3, <2>2, <3>1 DEF CallOK, GoesWell, Justified
  <2>3. CASE proposed[c] # "escalate_to_human"
    <3>1. pc'[c] = "planning" /\ UNCHANGED result
      BY <1>0, <1>5, <2>3 DEF AfterSuccess, Goto, LoopTypes
    <3>2. Told(c, called(c) \cup {proposed[c]})
      BY <1>1, <2>1 DEF CallOK
    <3>3. called(c)' = called(c) \cup {proposed[c]}
      BY <1>5, SuccessTaken
    <3>4. Told(c, called(c))'
      BY <1>0, <3>2, <3>3, TellsMore
    <3>5. Justified(c)'
      BY <1>0, <1>1, <3>1, JustifiedStays
    <3> QED BY <3>1, <3>4, <3>5 DEF GoesWell
  <2> QED BY <2>2, <2>3
<1> QED BY <1>4, <1>5 DEF ToolReturns

(* A step of an undisturbed case leaves it well.                           *)
LEMMA WellStep ==
    ASSUME AgentTypeOK, LoopInv, GatewayInv, TrailIsInTable, NEW c \in Cases, GatewayStep(c),
           ScriptOK(c), DoneOK(c), IntentOK(c), ReasonOK(c),
           Undisturbed(c) => GoesWell(c), Undisturbed(c)'
    PROVE  GoesWell(c)'
<1>0. LoopTypes /\ LoopOK(c)
  BY DEF AgentTypeOK, LoopTypes, LoopInv
<1>1. pc[c] \in {"absent", "received"} => result[c].reason = "none"
  BY <1>0 DEF LoopOK, ReasonOK
<1>2. CASE pc[c] = "absent"
  <2>1. ReceiveCase(c)
    BY <1>0, <1>2, GatewayStepIsAgents, CaseComes
  <2>2. pc'[c] = "received" /\ UNCHANGED result
    BY <1>0, <2>1 DEF ReceiveCase, Goto, LoopTypes
  <2> QED BY <1>1, <1>2, <2>2 DEF GoesWell, Justified
<1>3. CASE pc[c] # "absent"
  <2>0. Undisturbed(c) /\ GoesWell(c) /\ ~ToolLocked(c) /\ client = "scripted" /\ intake[c].loan \in Loans
    BY <1>3, WasUndisturbed DEF Undisturbed
  <2>1. ~ReceiveRow(c)
    BY <1>3 DEF ReceiveRow, ReceiveCase, At
  <2>2. CASE StartCase(c, intake[c].message)
    <3>1. pc[c] = "received" /\ pc'[c] = "planning" /\ UNCHANGED <<history, result>>
      BY <1>0, <2>2 DEF StartCase, At, Goto, LoopTypes
    <3>2. called(c)' = {}
      BY <3>1 DEF ScriptOK, called
    <3>3. Justified(c)'
      BY <1>1, <2>0, <3>1, JustifiedStays DEF GoesWell
    <3> QED BY <3>1, <3>2, <3>3 DEF GoesWell, Told
  <2>3. CASE Plan(c)
    <3>1. pc[c] = "planning" /\ pc'[c] = "deciding" /\ UNCHANGED <<history, result>>
      BY <1>0, <2>3 DEF Plan, PlanStep, ModelCall, At, Goto, LoopTypes
    <3>2. called(c)' = called(c)
      BY <3>1 DEF called
    <3>3. Told(c, called(c))'
      BY <2>0, <3>1, <3>2, TellsMore DEF GoesWell
    <3>4. Justified(c)'
      BY <2>0, <3>1, JustifiedStays DEF GoesWell
    <3> QED BY <3>1, <3>3, <3>4 DEF GoesWell
  <2>4. CASE CallPlanned(c) \/ ToolStep(c) \/ ToolReturns(c)
    BY <2>0, <2>4, CallGoesWell, ToolStepGoesWell, ReturnGoesWell
  <2>5. CASE Finish(c)
    <3>1. pc'[c] = "completing" /\ result'[c].reason = "finished"
      BY <1>0, <2>5 DEF Finish, Goto, Result, LoopTypes
    <3> QED BY <3>1 DEF GoesWell, Justified
  <2>6. CASE Escalate(c) \/ EscalateReturns(c) \/ Complete(c) \/ CaseFails(c)
    <3>1. pc'[c] \in {"escalated", "completing", "answered", "failed"} /\ UNCHANGED result
      BY <1>0, <2>6 DEF Escalate, EscalateReturns, Complete, CaseFails, Goto, LoopTypes
    <3>2. Justified(c)'
      BY <1>1, <2>0, <3>1, JustifiedStays DEF GoesWell
    <3> QED BY <3>1, <3>2 DEF GoesWell
  <2>7. ~RejectModel(c, response(c).model_id) /\ ~RefuseAction(c) /\ ~ExceedBudget(c)
    BY <2>0, ScriptedAnswersPass
  <2> QED BY <2>0, <2>1, <2>2, <2>3, <2>4, <2>5, <2>6, <2>7, GatewaySteps DEF LoopGoesOn
<1> QED BY <1>2, <1>3

(* The others see nothing of it but a loan that is frozen.                 *)
LEMMA OtherGoesWell ==
    ASSUME AgentTypeOK, LoopInv, GatewayInv, NEW c \in Cases, GatewayStep(c), NEW e \in Cases, e # c,
           ReasonOK(e), IntentOK(e), Undisturbed(e) => GoesWell(e), Undisturbed(e)'
    PROVE  GoesWell(e)'
<1>0. LoopOK(e) /\ AgentStep(c)
  BY GatewayStepIsAgents DEF LoopInv
<1>1. /\ pc'[e] = pc[e] /\ history'[e] = history[e] /\ proposed'[e] = proposed[e]
      /\ result'[e] = result[e] /\ call'[e] = call[e]
  BY <1>0, OthersStay
<1>2. called(e)' = called(e) /\ pc[e] # "absent"
  BY <1>1 DEF called, Undisturbed
<1>3. Undisturbed(e) /\ GoesWell(e) /\ intake'[e] = intake[e] /\ intake[e].loan \in Loans
  BY <1>2, WasUndisturbed DEF Undisturbed
<1>4. pc[e] \in {"absent", "received"} => result[e].reason = "none"
  BY <1>0 DEF LoopOK, ReasonOK
<1>5. Justified(e)'
  BY <1>1, <1>3, <1>4, JustifiedStays DEF GoesWell
<1>6. CASE pc[e] \in {"planning", "deciding", "acting"}
  <2>1. /\ Told(e, called(e)) => Told(e, called(e))'
        /\ Told(e, called(e) \cup {proposed[e]}) => Told(e, called(e) \cup {proposed[e]})'
    BY <1>1, <1>2, <1>3, <1>6, KnownStays DEF Told
  <2>2. pc[e] = "acting" /\ CallOK(e) => CallOK(e)'
    BY <1>1, <1>3, <1>6, <2>1, KnownStays DEF CallOK
  <2> QED BY <1>1, <1>3, <1>5, <1>6, <2>1, <2>2 DEF GoesWell
<1>7. CASE pc[e] \notin {"planning", "deciding", "acting"}
  BY <1>1, <1>5, <1>7 DEF GoesWell
<1> QED BY <1>6, <1>7

LEMMA GatewayInitWell == GatewayInit => WellInv
BY DEF GatewayInit, AgentInit, WellInv, Undisturbed

LEMMA WellInvIsInvariant ==
    GatewayInvs /\ OutcomeInv /\ TrailIsInTable /\ WellInv /\ [GatewayNext]_everyVar => WellInv'
<1> SUFFICES ASSUME GatewayInvs, OutcomeInv, TrailIsInTable, WellInv, [GatewayNext]_everyVar,
                    NEW e \in Cases, Undisturbed(e)'
             PROVE  GoesWell(e)'
  BY DEF WellInv
<1>1. CASE UNCHANGED everyVar
  <2>1. UNCHANGED <<client, faults, pc, intake, intent, history, proposed, result, call, loans, audit_log>>
    BY <1>1 DEF everyVar, allVars, vars, agentVars
  <2>2. called(e)' = called(e) /\ FoundVerified(e)' = FoundVerified(e) /\ Undisturbed(e)
    BY <2>1 DEF called, FoundVerified, Undisturbed
  <2>3. GoesWell(e)
    BY <2>2 DEF WellInv
  <2> QED BY <2>1, <2>2, <2>3 DEF GoesWell, CallOK, Told, Justified, Handed, OverLimit
<1>2. ASSUME NEW c \in Cases, GatewayStep(c)
      PROVE  GoesWell(e)'
  <2>1. /\ AgentTypeOK /\ LoopInv /\ GatewayInv /\ ScriptOK(e) /\ DoneOK(e)
        /\ IntentOK(e) /\ ReasonOK(e) /\ (Undisturbed(e) => GoesWell(e))
    BY DEF GatewayInvs, ScriptInv, DoneInv, OutcomeInv, WellInv
  <2>2. CASE e = c
    BY <1>2, <2>1, <2>2, WellStep
  <2>3. CASE e # c
    BY <1>2, <2>1, <2>3, OtherGoesWell
  <2> QED BY <2>2, <2>3
<1> QED BY <1>1, <1>2 DEF GatewayNext, GatewayStep

-----------------------------------------------------------------------------
(* What is found of a case on a database of its own *)

LEMMA ChangesInTable ==
    ASSUME TypeOK, NEW l
    PROVE  /\ Changes(transactions, l) \in Seq(Int)
           /\ Len(Changes(transactions, l)) = Len(transactions)
           /\ \A n \in 1 .. Len(transactions) :
                  Changes(transactions, l)[n] =
                      (IF transactions[n].loan = l THEN transactions[n].amount ELSE 0)
<1>1. transactions \in Seq(Transactions) /\ \A row \in Transactions : row.amount \in Int
  BY DEF TypeOK, Transactions
<1> QED BY <1>1, ChangesOfRows

LEMMA BalanceOfNone ==
    ASSUME TypeOK, NEW l, transactions = <<>>
    PROVE  Balance(transactions, l) = 0
<1>1. Len(transactions) = 0
  OBVIOUS
<1> QED BY <1>1, ChangesInTable, SumsSteps DEF Balance, Total

LEMMA BalanceOfOne ==
    ASSUME TypeOK, NEW l, Len(transactions) = 1, transactions[1].loan = l
    PROVE  Balance(transactions, l) = transactions[1].amount
<1> DEFINE changes == Changes(transactions, l)
<1>1. 1 \in 1 .. Len(transactions) /\ transactions \in Seq(Transactions)
  BY DEF TypeOK
<1>2. transactions[1].amount \in Int
  <2>1. transactions[1] \in Transactions
    BY <1>1, ElementOfSeq
  <2> QED BY <2>1 DEF Transactions
<1>3. changes \in Seq(Int) /\ Len(changes) = 1 /\ changes[1] = transactions[1].amount
  BY <1>1, ChangesInTable
<1> HIDE DEF changes
<1>4. Sums(changes)[0] = 0 /\ Sums(changes)[1] = Sums(changes)[1 - 1] + changes[1]
  BY <1>3, SumsSteps
<1>5. Sums(changes)[1] = transactions[1].amount
  BY <1>2, <1>3, <1>4
<1> QED BY <1>3, <1>5 DEF Balance, Total, changes

(* The case alone in its database.                                         *)
OnItsOwn(c) ==
    /\ GatewayInvs /\ OutcomeInv /\ MovesOK /\ WellInv /\ TransactionsMatchAudit /\ RefundsWithinPolicy
    /\ pc[c] = "answered" /\ HasItsOwnDatabase(c) /\ Undisturbed(c)

LEMMA AllItsOwn ==
    ASSUME NEW c \in Cases, OnItsOwn(c)
    PROVE  /\ MovesOf(c) = 1 .. Len(transactions) /\ Len(transactions) \in Nat
           /\ Cardinality(MovesOf(c)) = Len(transactions)
           /\ \A n \in DOMAIN transactions :
                  /\ MoveOK(transactions[n]) /\ SignOK(transactions[n]) /\ transactions[n].case = c
           /\ (\E i \in DOMAIN audit_log[c] : audit_log[c][i].event = "money_moved") <=> transactions # <<>>
<1>0. TypeOK
  BY DEF OnItsOwn, GatewayInvs, AgentTypeOK
<1>1. Len(transactions) \in Nat /\ DOMAIN transactions = 1 .. Len(transactions)
  BY <1>0, LenProperties DEF TypeOK
<1>2. \A n \in DOMAIN transactions :
          MoveOK(transactions[n]) /\ SignOK(transactions[n]) /\ transactions[n].case = c
  <2> SUFFICES ASSUME NEW n \in DOMAIN transactions
               PROVE  MoveOK(transactions[n]) /\ SignOK(transactions[n]) /\ transactions[n].case = c
    OBVIOUS
  <2>1. MoveOK(transactions[n]) /\ SignOK(transactions[n])
    BY DEF OnItsOwn, MovesOK, OutcomeInv
  <2>2. transactions[n].case \in Cases
    <3>1. n \in 1 .. Len(transactions) /\ transactions \in Seq(Transactions)
      BY <1>0, <1>1 DEF TypeOK
    <3>2. transactions[n] \in Transactions
      BY <3>1, ElementOfSeq
    <3> QED BY <3>2 DEF Transactions
  <2> QED BY <2>1, <2>2 DEF MoveOK, OnItsOwn, HasItsOwnDatabase
<1>3. MovesOf(c) = 1 .. Len(transactions)
  BY <1>1, <1>2 DEF MovesOf
<1>4. Cardinality(MovesOf(c)) = Len(transactions)
  <2> DEFINE k == Len(transactions)
  <2>1. k \in Int /\ k >= 0 /\ 1 \in Int
    BY <1>1
  <2> HIDE DEF k
  <2>2. Cardinality(1 .. k) = (IF 1 > k THEN 0 ELSE k - 1 + 1)
    BY <2>1, FS_Interval
  <2>3. Cardinality(1 .. k) = k
    BY <2>1, <2>2
  <2> QED BY <1>3, <2>3 DEF k
<1>5. (\E i \in DOMAIN audit_log[c] : audit_log[c][i].event = "money_moved") <=> transactions # <<>>
  <2>1. ASSUME NEW i \in DOMAIN audit_log[c], audit_log[c][i].event = "money_moved"
        PROVE  transactions # <<>>
    BY <2>1 DEF OnItsOwn, TransactionsMatchAudit, Reports
  <2>2. ASSUME transactions # <<>>
        PROVE  \E i \in DOMAIN audit_log[c] : audit_log[c][i].event = "money_moved"
    <3>1. 1 \in DOMAIN transactions
      BY <1>0, <2>2, EmptySeq DEF TypeOK
    <3>2. ReportedOnce(audit_log[c], 1)
      BY <1>2, <3>1 DEF OnItsOwn, TransactionsMatchAudit
    <3> QED BY <3>2 DEF ReportedOnce
  <2> QED BY <2>1, <2>2
<1> QED BY <1>1, <1>2, <1>3, <1>4, <1>5

(* Why it ended as it did.                                                 *)
LEMMA ReasonFound ==
    ASSUME NEW c \in Cases, OnItsOwn(c)
    PROVE  /\ intent[c] = classify_intent(intake[c].message)
           /\ \/ result[c].status = "resolved" /\ result[c].reason = "finished"
                 /\ intent[c] \notin {"unclear", "fraud_or_freeze"}
              \/ result[c].status = "escalated" /\ result[c].reason = "planner_escalated" /\ Handed(c)
              \/ result[c].status = "escalated" /\ result[c].reason = "tool_denied" /\ OverLimit(c)
<1>1. IntentOK(c) /\ ReasonOK(c) /\ LoopOK(c) /\ Justified(c) /\ pc[c] = "answered"
  BY DEF OnItsOwn, GatewayInvs, LoopInv, OutcomeInv, WellInv, GoesWell
<1>2. intent[c] = classify_intent(intake[c].message)
  BY <1>1 DEF IntentOK
<1>3. result[c].status \in {"resolved", "escalated"}
  BY <1>1 DEF LoopOK
<1>4. result[c].reason \in {"finished", "planner_escalated", "tool_denied"}
  BY <1>1, <1>3 DEF ReasonOK, Justified
<1> QED BY <1>1, <1>2, <1>3, <1>4 DEF ReasonOK, Justified

LEMMA FrozenFound ==
    ASSUME NEW c \in Cases, OnItsOwn(c)
    PROVE  loans[intake[c].loan] = "charged_off" <=> intent[c] = "fraud_or_freeze"
<1>1. FrozenOK(intake[c].loan)
  BY DEF OnItsOwn, OutcomeInv, Undisturbed
<1>2. loans[intake[c].loan] = "charged_off" => intent[c] = "fraud_or_freeze"
  BY <1>1 DEF FrozenOK, OnItsOwn, HasItsOwnDatabase
<1>3. intent[c] = "fraud_or_freeze" => loans[intake[c].loan] = "charged_off"
  BY ReasonFound DEF Handed, OverLimit, Identified
<1> QED BY <1>2, <1>3

LEMMA DisputesFound ==
    ASSUME NEW c \in Cases, OnItsOwn(c)
    PROVE  DisputesOf(c) # {} <=> result[c].reason = "finished" /\ intent[c] = "dispute"
<1>1. DisputesOK(c) /\ Done(c)
  BY DEF OnItsOwn, OutcomeInv, GatewayInvs, DoneInv, DoneOK
<1>2. CASE result[c].reason = "finished"
  BY <1>1, <1>2, FS_EmptySet DEF Done, DisputesOK
<1>3. CASE result[c].reason # "finished"
  BY <1>1, <1>3, ReasonFound DEF Done, DisputesOK, OverLimit
<1> QED BY <1>2, <1>3

(* The money moved, and the change of the balance.                         *)
LEMMA MovesFound ==
    ASSUME NEW c \in Cases, OnItsOwn(c)
    PROVE  /\ transactions # <<>> <=>
                  result[c].reason = "finished" /\ intent[c] \in {"refund", "make_payment"}
           /\ transactions = <<>> => Balance(transactions, intake[c].loan) = 0
           /\ transactions # <<>> =>
                  /\ intake[c].claim = "right"
                  /\ Balance(transactions, intake[c].loan) =
                         (IF intent[c] = "refund" THEN AskedBy(intake[c]) ELSE -AskedBy(intake[c]))
                  /\ intent[c] = "refund" => AskedBy(intake[c]) <= REFUND_AUTO_LIMIT_CENTS
<1>0. TypeOK /\ Done(c)
  BY DEF OnItsOwn, GatewayInvs, AgentTypeOK, DoneInv, DoneOK
<1>1. /\ MovesOf(c) = 1 .. Len(transactions) /\ Len(transactions) \in Nat
      /\ Cardinality(MovesOf(c)) = Len(transactions)
  BY AllItsOwn
<1>2. transactions = <<>> <=> Len(transactions) = 0
  BY <1>0, EmptySeq DEF TypeOK
<1>3. transactions # <<>> =>
          /\ intake[c].claim = "right" /\ transactions[1].loan = intake[c].loan
          /\ intent[c] \in {"refund", "make_payment"}
          /\ transactions[1].amount =
                 (IF intent[c] = "refund" THEN AskedBy(intake[c]) ELSE -AskedBy(intake[c]))
          /\ intent[c] = "refund" => AskedBy(intake[c]) <= REFUND_AUTO_LIMIT_CENTS
  <2> SUFFICES ASSUME transactions # <<>>
               PROVE  /\ intake[c].claim = "right" /\ transactions[1].loan = intake[c].loan
                      /\ intent[c] \in {"refund", "make_payment"}
                      /\ transactions[1].amount =
                             (IF intent[c] = "refund" THEN AskedBy(intake[c]) ELSE -AskedBy(intake[c]))
                      /\ intent[c] = "refund" => AskedBy(intake[c]) <= REFUND_AUTO_LIMIT_CENTS
    OBVIOUS
  <2>1. 1 \in DOMAIN transactions
    BY <1>0, EmptySeq DEF TypeOK
  <2>2. MoveOK(transactions[1]) /\ SignOK(transactions[1]) /\ transactions[1].case = c
    BY <2>1, AllItsOwn
  <2>3. transactions[1].type = "refund" => transactions[1].amount <= REFUND_AUTO_LIMIT_CENTS
    BY <2>1 DEF OnItsOwn, RefundsWithinPolicy
  <2> QED BY <2>2, <2>3 DEF MoveOK, SignOK
<1>4. transactions # <<>> => result[c].reason = "finished"
  <2> SUFFICES ASSUME transactions # <<>>, result[c].reason # "finished"
               PROVE  FALSE
    OBVIOUS
  <2>1. result[c].reason = "tool_denied" /\ OverLimit(c)
    <3>1. MovesOf(c) # {}
      BY <1>1, <1>2
    <3> QED BY <1>0, <3>1, ReasonFound DEF Done
  <2>2. intent[c] = "refund" /\ AskedBy(intake[c]) \in Nat /\ AskedBy(intake[c]) > REFUND_AUTO_LIMIT_CENTS
    <3>1. intake[c].amount \in Nat
      BY MessageAmountsAssumption DEF OnItsOwn, GatewayInvs, GatewayInv, GatewayTypeOK, Undisturbed, Intakes
    <3> QED BY <2>1, <3>1 DEF OverLimit, AskedBy
  <2> QED BY <1>3, <2>2 DEF REFUND_AUTO_LIMIT_CENTS
<1>5. result[c].reason = "finished" => Len(transactions) = (IF intent[c] \in {"refund", "make_payment"} THEN 1 ELSE 0)
  BY <1>0, <1>1 DEF Done
<1>6. transactions = <<>> => Balance(transactions, intake[c].loan) = 0
  BY <1>0, BalanceOfNone
<1>7. transactions # <<>> => Balance(transactions, intake[c].loan) = transactions[1].amount
  BY <1>0, <1>2, <1>3, <1>4, <1>5, BalanceOfOne
<1> QED BY <1>2, <1>3, <1>4, <1>5, <1>6, <1>7

-----------------------------------------------------------------------------
(* The published cases *)

LEMMA NothingFound == classify_intent({}) = "unclear"
BY DEF classify_intent

(* A message in which one rule finds its pattern has the intent of it.     *)
LEMMA OneFound ==
    ASSUME NEW rule \in {"fraud_or_freeze", "refund", "dispute", "payoff_quote",
                         "make_payment", "balance_inquiry"}
    PROVE  classify_intent({rule}) = rule
<1>1. PICK k \in 1 .. 6 : INTENT_RULES[k] = rule
  BY DEF INTENT_RULES
<1>2. Len(INTENT_RULES) = 6
  BY DEF INTENT_RULES
<1>3. \A i, j \in 1 .. 6 : INTENT_RULES[i] = INTENT_RULES[j] => i = j
  BY DEF INTENT_RULES
<1> DEFINE First(i) == /\ INTENT_RULES[i] \in {rule}
                       /\ \A j \in 1 .. i - 1 : INTENT_RULES[j] \notin {rule}
<1>4. First(k)
  BY <1>1, <1>3
<1>5. (CHOOSE i \in 1 .. 6 : First(i)) \in 1 .. 6 /\ First(CHOOSE i \in 1 .. 6 : First(i))
  BY <1>4
<1>6. INTENT_RULES[CHOOSE i \in 1 .. 6 : First(i)] = rule
  BY <1>5
<1>7. \E i \in 1 .. Len(INTENT_RULES) : INTENT_RULES[i] \in {rule}
  BY <1>1, <1>2
<1> QED BY <1>2, <1>6, <1>7 DEF classify_intent

(* The goals, field by field.  (Of fields in general first: the records    *)
(* hold truth values, which the solver does not take for values.)          *)
LEMMA EffectFields ==
    /\ Disputed = Outcome("resolved", 0, FALSE, TRUE, FALSE)
    /\ Frozen = Outcome("escalated", 0, FALSE, FALSE, TRUE)
<1> DEFINE D(t, f) == [Outcome("resolved", 0, f, f, f) EXCEPT !.dispute_created = t]
                          = Outcome("resolved", 0, f, t, f)
           F(t, f) == [Outcome("escalated", 0, f, f, f) EXCEPT !.account_frozen = t]
                          = Outcome("escalated", 0, f, f, t)
<1>1. \A t, f : D(t, f)
  BY SMT DEF Outcome
<1>2. \A t, f : F(t, f)
  BY SMT DEF Outcome
<1> HIDE DEF D, F
<1>3. D(TRUE, FALSE) /\ F(TRUE, FALSE)
  BY <1>1, <1>2
<1>4. Disputed = Outcome("resolved", 0, FALSE, TRUE, FALSE)
  BY <1>3 DEF D, Disputed, Resolved
<1>5. Frozen = Outcome("escalated", 0, FALSE, FALSE, TRUE)
  BY <1>3 DEF F, Frozen, Escalated
<1> QED BY <1>4, <1>5

LEMMA MovesFields ==
    ASSUME NEW a
    PROVE  Moves(a) = Outcome("resolved", a, TRUE, FALSE, FALSE)
<1> DEFINE M(t, f) == [Outcome("resolved", 0, f, f, f) EXCEPT !.balance_delta_cents = a, !.money_moved = t]
                          = Outcome("resolved", a, t, f, f)
<1>1. ASSUME NEW t, NEW f
      PROVE  M(t, f)
  <2> DEFINE r == Outcome("resolved", 0, f, f, f)
  <2>1. [r EXCEPT !.balance_delta_cents = a] = Outcome("resolved", a, f, f, f)
    BY DEF Outcome
  <2>2. [Outcome("resolved", a, f, f, f) EXCEPT !.money_moved = t] = Outcome("resolved", a, t, f, f)
    BY DEF Outcome
  <2>3. [r EXCEPT !.balance_delta_cents = a, !.money_moved = t]
            = [[r EXCEPT !.balance_delta_cents = a] EXCEPT !.money_moved = t]
    <3> HIDE DEF r
    <3> QED OBVIOUS
  <2> QED BY <2>1, <2>2, <2>3
<1> HIDE DEF M
<1>2. M(TRUE, FALSE)
  BY <1>1
<1> QED BY <1>2 DEF M, Moves, Resolved

(* What is found of a case, by its intent and the row it came with.        *)
LEMMA FoundByIntent ==
    ASSUME NEW c \in Cases, OnItsOwn(c)
    PROVE  /\ intent[c] = "unclear" => actual(c) = Escalated
           /\ intent[c] = "fraud_or_freeze" => actual(c) = Frozen
           /\ intent[c] \in {"payoff_quote", "balance_inquiry"} => actual(c) = Resolved
           /\ intent[c] = "dispute" /\ intake[c].claim = "right" => actual(c) = Disputed
           /\ intent[c] = "make_payment" /\ intake[c].claim = "right" => actual(c) = Moves(-AskedBy(intake[c]))
           /\ intent[c] = "refund" /\ intake[c].claim = "wrong" => actual(c) = Escalated
           /\ intent[c] = "refund" /\ intake[c].claim = "right" =>
                  IF AskedBy(intake[c]) > REFUND_AUTO_LIMIT_CENTS THEN actual(c) = Escalated
                  ELSE actual(c) = Moves(AskedBy(intake[c]))
<1> DEFINE moved == \E i \in DOMAIN audit_log[c] : audit_log[c][i].event = "money_moved"
           disputed == DisputesOf(c) # {}
           frozen == loans[intake[c].loan] = "charged_off"
           asked == AskedBy(intake[c])
           resolved == result[c].reason = "finished"
<1>0. actual(c) = Outcome(result[c].status, Balance(transactions, intake[c].loan), moved, disputed, frozen)
  BY DEF actual
<1>1. moved \in BOOLEAN /\ disputed \in BOOLEAN /\ frozen \in BOOLEAN
  OBVIOUS
<1>2. asked \in Nat
  <2>1. intake[c].amount \in Nat
    BY MessageAmountsAssumption DEF OnItsOwn, GatewayInvs, GatewayInv, GatewayTypeOK, Undisturbed, Intakes
  <2> QED BY <2>1 DEF AskedBy
<1>3. moved <=> resolved /\ intent[c] \in {"refund", "make_payment"}
  BY AllItsOwn, MovesFound
<1>4. disputed <=> resolved /\ intent[c] = "dispute"
  BY DisputesFound
<1>5. frozen <=> intent[c] = "fraud_or_freeze"
  BY FrozenFound
<1>6. /\ ~moved => Balance(transactions, intake[c].loan) = 0
      /\ moved => /\ intake[c].claim = "right"
                  /\ Balance(transactions, intake[c].loan) = (IF intent[c] = "refund" THEN asked ELSE -asked)
                  /\ intent[c] = "refund" => asked <= REFUND_AUTO_LIMIT_CENTS
  BY AllItsOwn, MovesFound
<1>7. /\ resolved => result[c].status = "resolved" /\ intent[c] \notin {"unclear", "fraud_or_freeze"}
      /\ ~resolved => result[c].status = "escalated" /\ (Handed(c) \/ OverLimit(c))
  BY ReasonFound
<1> HIDE DEF moved, disputed, frozen, resolved, asked
<1>8. /\ Handed(c) => \/ intent[c] \in {"unclear", "fraud_or_freeze"}
                      \/ intent[c] \in {"refund", "dispute", "make_payment"} /\ intake[c].claim # "right"
      /\ OverLimit(c) => intent[c] = "refund" /\ asked > REFUND_AUTO_LIMIT_CENTS
  BY DEF Handed, OverLimit, Identified, asked
<1>9. asked > REFUND_AUTO_LIMIT_CENTS => ~(asked <= REFUND_AUTO_LIMIT_CENTS)
  BY <1>2 DEF REFUND_AUTO_LIMIT_CENTS
<1>10. CASE intent[c] \in {"unclear", "fraud_or_freeze"}
  <2>1. ~resolved /\ moved = FALSE /\ disputed = FALSE /\ frozen = (intent[c] = "fraud_or_freeze")
    BY <1>1, <1>3, <1>4, <1>5, <1>7, <1>10
  <2> QED BY <1>0, <1>6, <1>7, <1>10, <2>1, EffectFields DEF Resolved, Escalated
<1>11. CASE intent[c] \in {"payoff_quote", "balance_inquiry"}
  <2>1. resolved /\ moved = FALSE /\ disputed = FALSE /\ frozen = FALSE
    BY <1>1, <1>3, <1>4, <1>5, <1>7, <1>8, <1>11
  <2> QED BY <1>0, <1>6, <1>7, <1>11, <2>1 DEF Resolved
<1>12. CASE intent[c] = "dispute"
  <2>1. moved = FALSE /\ frozen = FALSE /\ disputed = resolved
    BY <1>1, <1>3, <1>4, <1>5, <1>12 DEF resolved
  <2>2. intake[c].claim = "right" => resolved
    BY <1>7, <1>8, <1>12
  <2>3. intake[c].claim = "right" => disputed = TRUE
    BY <1>1, <1>4, <1>12, <2>2
  <2> QED BY <1>0, <1>6, <1>7, <1>12, <2>1, <2>2, <2>3, EffectFields DEF Resolved, Escalated
<1>13. CASE intent[c] = "make_payment"
  <2>1. disputed = FALSE /\ frozen = FALSE
    BY <1>1, <1>4, <1>5, <1>13
  <2>2. intake[c].claim = "right" => resolved /\ moved = TRUE
    BY <1>1, <1>3, <1>7, <1>8, <1>13
  <2>3. intake[c].claim = "right" => Balance(transactions, intake[c].loan) = -asked
    BY <1>6, <1>13, <2>2
  <2>4. intake[c].claim = "right" => actual(c) = Outcome("resolved", -asked, TRUE, FALSE, FALSE)
    BY <1>0, <1>7, <2>1, <2>2, <2>3
  <2> QED BY <1>13, <2>4, MovesFields DEF asked
<1>14. CASE intent[c] = "refund"
  <2>1. disputed = FALSE /\ frozen = FALSE
    BY <1>1, <1>4, <1>5, <1>14
  <2>2. CASE resolved
    <3>1. moved = TRUE
      BY <1>1, <1>3, <1>14, <2>2
    <3>2. /\ intake[c].claim = "right" /\ Balance(transactions, intake[c].loan) = asked
          /\ ~(asked > REFUND_AUTO_LIMIT_CENTS)
      BY <1>6, <1>9, <1>14, <3>1
    <3>3. actual(c) = Outcome("resolved", asked, TRUE, FALSE, FALSE)
      BY <1>0, <1>7, <2>1, <2>2, <3>1, <3>2
    <3> QED BY <1>14, <3>2, <3>3, MovesFields DEF asked
  <2>3. CASE ~resolved
    <3>1. moved = FALSE
      BY <1>1, <1>3, <2>3
    <3>2. actual(c) = Escalated
      BY <1>0, <1>6, <1>7, <2>1, <2>3, <3>1 DEF Escalated
    <3>3. intake[c].claim = "right" => asked > REFUND_AUTO_LIMIT_CENTS
      BY <1>7, <1>8, <1>14, <2>3
    <3> QED BY <1>14, <3>2, <3>3 DEF asked
  <2> QED BY <2>2, <2>3
<1> QED BY <1>10, <1>11, <1>12, <1>13, <1>14

LEMMA GoalIsMet ==
    ASSUME NEW c \in Cases, OnItsOwn(c), NEW published \in build_cases, IsRunOf(c, published)
    PROVE  actual(c) = published.goal
<1> DEFINE i == intent[c]
           asked == AskedBy(intake[c])
<1>1. i = classify_intent(published.found)
  BY ReasonFound DEF IsRunOf
<1>2. asked = (IF published.amount = 0 THEN 5000 ELSE published.amount)
  BY DEF IsRunOf, AskedBy
<1>3. intake[c].claim = published.claim
  BY DEF IsRunOf
<1>4. ASSUME NEW rule \in {"fraud_or_freeze", "refund", "dispute", "payoff_quote",
                           "make_payment", "balance_inquiry"},
             published.found = {rule}
      PROVE  i = rule
  BY <1>1, <1>4, OneFound
<1> HIDE DEF i, asked
<1>5. CASE published \in {Published({"balance_inquiry"}, 0, "none", Resolved),
                          Published({"payoff_quote"}, 0, "none", Resolved)}
  <2>1. i \in {"payoff_quote", "balance_inquiry"} /\ published.goal = Resolved
    BY <1>4, <1>5 DEF Published
  <2> QED BY <2>1, FoundByIntent DEF i
<1>6. CASE published = Published({"refund"}, 3000, "wrong", Escalated)
  <2>1. i = "refund" /\ intake[c].claim = "wrong" /\ published.goal = Escalated
    BY <1>3, <1>4, <1>6 DEF Published
  <2> QED BY <2>1, FoundByIntent DEF i
<1>7. CASE published = Published({"refund"}, REFUND_AUTO_LIMIT_CENTS + 50000, "right", Escalated)
  <2>1. i = "refund" /\ intake[c].claim = "right" /\ published.goal = Escalated
    BY <1>3, <1>4, <1>7 DEF Published
  <2>2. asked > REFUND_AUTO_LIMIT_CENTS
    BY <1>2, <1>7 DEF Published, REFUND_AUTO_LIMIT_CENTS
  <2> QED BY <2>1, <2>2, FoundByIntent DEF i, asked
<1>8. CASE published = Published({"dispute"}, 0, "right", Disputed)
  <2>1. i = "dispute" /\ intake[c].claim = "right" /\ published.goal = Disputed
    BY <1>3, <1>4, <1>8 DEF Published
  <2> QED BY <2>1, FoundByIntent DEF i
<1>9. CASE published = Published({"fraud_or_freeze"}, 0, "none", Frozen)
  <2>1. i = "fraud_or_freeze" /\ published.goal = Frozen
    BY <1>4, <1>9 DEF Published
  <2> QED BY <2>1, FoundByIntent DEF i
<1>10. CASE published = Published({}, 0, "none", Escalated)
  <2>1. i = "unclear" /\ published.goal = Escalated
    BY <1>1, <1>10, NothingFound DEF Published
  <2> QED BY <2>1, FoundByIntent DEF i
<1>11. ASSUME NEW a \in {1500, 2500, 5000, 20000}, published = Published({"refund"}, a, "right", Moves(a))
       PROVE  actual(c) = published.goal
  <2>1. i = "refund" /\ intake[c].claim = "right" /\ published.goal = Moves(a)
    BY <1>3, <1>4, <1>11 DEF Published
  <2>2. asked = a /\ ~(asked > REFUND_AUTO_LIMIT_CENTS)
    BY <1>2, <1>11 DEF Published, REFUND_AUTO_LIMIT_CENTS
  <2> QED BY <2>1, <2>2, FoundByIntent DEF i, asked
<1>12. ASSUME NEW a \in {5000, 10000, 2500}, published = Published({"make_payment"}, a, "right", Moves(-a))
       PROVE  actual(c) = published.goal
  <2>1. i = "make_payment" /\ intake[c].claim = "right" /\ published.goal = Moves(-a)
    BY <1>3, <1>4, <1>12 DEF Published
  <2>2. asked = a
    BY <1>2, <1>12 DEF Published
  <2> QED BY <2>1, <2>2, FoundByIntent DEF i, asked
<1> QED BY <1>5, <1>6, <1>7, <1>8, <1>9, <1>10, <1>11, <1>12 DEF build_cases

(* The credentials are there where the script asks for them.               *)
LEMMA PublishedAreUndisturbed ==
    ASSUME NEW c \in Cases, NEW published \in build_cases, IsRunOf(c, published),
           client = "scripted", faults = 0, pc[c] # "absent"
    PROVE  Undisturbed(c)
<1>1. published.claim = "none" => published.found \in {{"balance_inquiry"}, {"payoff_quote"}, {"fraud_or_freeze"}, {}}
  BY DEF build_cases, Published
<1>2. classify_intent(published.found) \in Identified => published.claim # "none"
  BY <1>1, OneFound, NothingFound DEF Identified
<1> QED BY <1>2 DEF IsRunOf, Undisturbed

(* Every published case, run alone by the default planner, ends as its     *)
(* author said: the balance, the trail, the disputes, the loan and the     *)
(* answer, whatever loan of whatever customer it is run on.                *)
THEOREM PublishedAreMet == GatewaySpec => []PublishedGoalsAreMet
<1>1. ImplementsAgent <=> AgentSpec
  BY DEF ImplementsAgent
<1>2. GatewaySpec => [](TrailIsInTable /\ TransactionsMatchAudit /\ RefundsWithinPolicy)
  BY <1>1, GatewayImplementsAgent, LoopImplementsTools, VerifiedInTable, MoneyIsOnRecord,
     RefundsAreLimited, PTL
<1>3. GatewaySpec => []WellInv
  <2>1. GatewayInvs /\ OutcomeInv /\ MovesOK /\ TrailIsInTable /\ TransactionsMatchAudit /\ RefundsWithinPolicy
            /\ WellInv /\ [GatewayNext]_everyVar => WellInv'
    BY WellInvIsInvariant
  <2> QED BY <1>2, <2>1, GatewayInitWell, GatewayInvsHold, PTL DEF GatewaySpec
<1>4. GatewayInvs /\ OutcomeInv /\ MovesOK /\ WellInv /\ TransactionsMatchAudit /\ RefundsWithinPolicy
          => PublishedGoalsAreMet
  <2> SUFFICES ASSUME GatewayInvs, OutcomeInv, MovesOK, WellInv, TransactionsMatchAudit, RefundsWithinPolicy,
                      client = "scripted", faults = 0, NEW c \in Cases, NEW published \in build_cases,
                      pc[c] = "answered", HasItsOwnDatabase(c), IsRunOf(c, published)
               PROVE  actual(c) = published.goal
    BY DEF PublishedGoalsAreMet
  <2>1. OnItsOwn(c)
    BY PublishedAreUndisturbed DEF OnItsOwn
  <2> QED BY <2>1, GoalIsMet
<1> QED BY <1>2, <1>3, <1>4, GatewayInvsHold, PTL
=============================================================================
