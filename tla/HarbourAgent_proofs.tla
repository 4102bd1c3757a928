--------------------------- MODULE HarbourAgent_proofs ---------------------------
(***************************************************************************)
(* Theorems of HarbourAgent, for any cases, messages, planners and step    *)
(* budgets, and of the detectors over it.                                  *)
(***************************************************************************)
EXTENDS Detectors, HarbourToolsAccounts_proofs

-----------------------------------------------------------------------------
(* A tool call, as the loop sees it *)

(* The rows a call of a tool may write, and those that refuse it.          *)
RowsOf(tool) ==
    {row \in AuditRows : /\ row.event \in {"tool_call", "money_moved"} => row.tool = tool
                         /\ row.event = "escalated" => tool = "escalate_to_human"
                         /\ row.event = "account_frozen" => tool = "freeze_account"
                         /\ tool = "escalate_to_human" => IsEscalation(row)}

RefusalRows(tool) == {row \in RowsOf(tool) : IsRefusal(row)}
SmoothRows(tool) == {row \in RowsOf(tool) : ~IsRefusal(row) /\ row.event # "escalated"}

(* The session of a call that has not failed.                              *)
Underway(tool) ==
    {x \in Calls : \/ x.pc = "logging" /\ x.tool = tool
                   \/ x.pc = "resolving" /\ tool = "resolve_dispute"
                   \/ x.pc = "freezing" /\ tool = "freeze_account"
                   \/ x = Idle("ok")}

Refuses(c, tool) ==
    /\ \E rows \in Seq(RefusalRows(tool)) : append_audit(c, rows)
    /\ call'[c] = Idle("denied")
    /\ UNCHANGED cases

Errs(c) == call'[c] = Idle("error") /\ UNCHANGED <<audit_log, cases>>

GoesOn(c, tool) ==
    /\ \E rows \in Seq(SmoothRows(tool)) : append_audit(c, rows)
    /\ call'[c] \in Underway(tool)
    /\ UNCHANGED cases

Escalates(c) ==
    /\ append_audit(c, <<EscalatedRow>>)
    /\ call'[c] = Logging("escalate_to_human")
    /\ cases' = [cases EXCEPT ![c].status = "escalated"]

Begins(c, tool) == \/ Refuses(c, tool) /\ tool # "escalate_to_human"
                   \/ Errs(c)
                   \/ GoesOn(c, tool) /\ tool # "escalate_to_human"
                   \/ Escalates(c) /\ tool = "escalate_to_human"

LEMMA RowsOfTools ==
    /\ \A tool \in TOOLS : ToolCallRow(tool, "denied") \in RefusalRows(tool)
    /\ \A tool \in TOOLS : ToolCallRow(tool, "ok") \in SmoothRows(tool)
    /\ \A r \in DenialReasons, tool \in TOOLS \ {"escalate_to_human"} :
           DeniedRow(r) \in RefusalRows(tool)
    /\ \A t \in MONEY_TOOLS, l \in Loans, n \in Nat, a \in Int : MoneyRow(t, l, n, a) \in SmoothRows(t)
    /\ \A tool \in TOOLS \ {"escalate_to_human"} :
           /\ \A k \in Customers, v \in BOOLEAN : IdentityRow(k, v) \in SmoothRows(tool)
           /\ \A d \in Nat, l \in Loans : RaisedRow(d, l) \in SmoothRows(tool)
           /\ \A d \in Nat, r \in Resolutions : ResolvedRow(d, r) \in SmoothRows(tool)
           /\ MessageRow \in SmoothRows(tool)
    /\ \A l \in Loans, p \in LoanStatuses : FrozenRow(l, p) \in SmoothRows("freeze_account")
<1>1. \A tool \in TOOLS : /\ ToolCallRow(tool, "denied") \in RefusalRows(tool)
                          /\ ToolCallRow(tool, "ok") \in SmoothRows(tool)
  BY RowTypes DEF RowsOf, RefusalRows, SmoothRows, IsRefusal, IsEscalation, ToolCallRow
<1>2. \A r \in DenialReasons, tool \in TOOLS \ {"escalate_to_human"} :
          DeniedRow(r) \in RefusalRows(tool)
  BY RowTypes DEF RowsOf, RefusalRows, IsRefusal, DeniedRow
<1>3. \A t \in MONEY_TOOLS, l \in Loans, n \in Nat, a \in Int : MoneyRow(t, l, n, a) \in SmoothRows(t)
  BY RowTypes DEF RowsOf, SmoothRows, IsRefusal, MoneyRow, MONEY_TOOLS
<1>4. ASSUME NEW tool \in TOOLS \ {"escalate_to_human"}
      PROVE  /\ \A k \in Customers, v \in BOOLEAN : IdentityRow(k, v) \in SmoothRows(tool)
             /\ \A d \in Nat, l \in Loans : RaisedRow(d, l) \in SmoothRows(tool)
             /\ \A d \in Nat, r \in Resolutions : ResolvedRow(d, r) \in SmoothRows(tool)
             /\ MessageRow \in SmoothRows(tool)
  BY RowTypes DEF RowsOf, SmoothRows, IsRefusal, IdentityRow, RaisedRow, ResolvedRow, MessageRow
<1>5. \A l \in Loans, p \in LoanStatuses : FrozenRow(l, p) \in SmoothRows("freeze_account")
  BY RowTypes DEF RowsOf, SmoothRows, IsRefusal, FrozenRow
<1> QED BY <1>1, <1>2, <1>3, <1>4, <1>5

LEMMA Becomes ==
    ASSUME TypeOK, NEW c \in Cases, NEW x, Become(c, x)
    PROVE  call'[c] = x
BY DEF TypeOK, Become

LEMMA UnderwayCalls ==
    /\ \A tool \in TOOLS : Logging(tool) \in Underway(tool)
    /\ \A tool : Idle("ok") \in Underway(tool)
    /\ \A d \in Nat, r \in Resolutions : Resolving(d, r) \in Underway("resolve_dispute")
    /\ \A l \in Loans, p \in LoanStatuses : Freezing(l, p) \in Underway("freeze_account")
BY CallTypes DEF Underway, Logging, Resolving, Freezing

LEMMA DeniedRefuses ==
    ASSUME TypeOK, NEW c \in Cases, NEW tool \in TOOLS, NEW rows \in Seq(RefusalRows(tool)),
           Denied(c, tool, rows)
    PROVE  Refuses(c, tool)
<1>1. rows \o <<ToolCallRow(tool, "denied")>> \in Seq(RefusalRows(tool))
  BY RowsOfTools, ConcatProperties
<1> QED BY <1>1, Becomes DEF Denied, db, Refuses

LEMMA RaisedErrs ==
    ASSUME TypeOK, NEW c \in Cases, Raised(c)
    PROVE  Errs(c)
BY Becomes DEF Raised, db, Errs

LEMMA LoggedGoesOn ==
    ASSUME TypeOK, NEW c \in Cases, NEW tool \in TOOLS, NEW rows \in Seq(SmoothRows(tool)),
           Logged(c, tool, rows)
    PROVE  GoesOn(c, tool)
<1>1. rows \o <<ToolCallRow(tool, "ok")>> \in Seq(SmoothRows(tool))
  BY RowsOfTools, ConcatProperties
<1>2. call'[c] = Idle("ok") /\ UNCHANGED cases
  BY Becomes DEF Logged, db
<1> QED BY <1>1, <1>2, UnderwayCalls DEF Logged, GoesOn

LEMMA CommittedGoesOn ==
    ASSUME TypeOK, NEW c \in Cases, NEW tool \in TOOLS, NEW row \in SmoothRows(tool),
           Committed(c, tool, row), UNCHANGED cases
    PROVE  GoesOn(c, tool)
<1>1. <<row>> \in Seq(SmoothRows(tool))
  OBVIOUS
<1>2. call'[c] = Logging(tool)
  BY Becomes DEF Committed
<1> QED BY <1>1, <1>2, UnderwayCalls DEF Committed, GoesOn

(* A session that only changes what it holds.                              *)
LEMMA ReadGoesOn ==
    ASSUME TypeOK, NEW c \in Cases, NEW tool, NEW x \in Underway(tool), Become(c, x),
           UNCHANGED <<db, audit_log>>
    PROVE  GoesOn(c, tool)
<1>1. <<>> \in Seq(SmoothRows(tool)) /\ append_audit(c, <<>>)
  BY ConcatEmptySeq DEF append_audit, TypeOK
<1>2. call'[c] = x /\ UNCHANGED cases
  BY Becomes DEF db
<1> QED BY <1>1, <1>2 DEF GoesOn

LEMMA NotEscalations ==
    /\ \A tool \in GATED_TOOLS : tool \in TOOLS \ {"escalate_to_human"}
    /\ \A tool \in READ_TOOLS : tool \in TOOLS \ {"escalate_to_human"}
    /\ {"verify_identity", "freeze_account", "send_customer_message"} \subseteq TOOLS \ {"escalate_to_human"}
    /\ MONEY_TOOLS \subseteq GATED_TOOLS /\ {"raise_dispute", "resolve_dispute"} \subseteq GATED_TOOLS
    /\ "escalate_to_human" \in TOOLS
BY DEF TOOLS, GATED_TOOLS, READ_TOOLS, MONEY_TOOLS, UNGATED_TOOLS

LEMMA MoveMoneyGoesOn ==
    ASSUME TypeOK, NEW c \in Cases, NEW tool \in MONEY_TOOLS, NEW l \in Loans,
           NEW type \in {"payment", "refund", "fee"}, NEW amount \in Int,
           MoveMoney(c, tool, l, type, amount)
    PROVE  GoesOn(c, tool)
<1>1. Len(transactions') \in Nat
  <2>1. [loan |-> l, case |-> c, type |-> type, amount |-> amount] \in Transactions
    BY DEF Transactions
  <2> QED BY <2>1, AppendProperties DEF MoveMoney, TypeOK
<1>2. MoneyRow(tool, l, Len(transactions'), amount) \in SmoothRows(tool)
  BY <1>1, RowsOfTools
<1> QED BY <1>2, CommittedGoesOn, NotEscalations DEF MoveMoney

LEMMA MoneyBegins ==
    ASSUME TypeOK, NEW c \in Cases, NEW l \in Loans, NEW a \in Amounts, NEW tool,
           \/ tool = "post_payment" /\ post_payment(c, l, a)
           \/ tool = "issue_refund" /\ issue_refund(c, l, a)
           \/ tool = "apply_fee" /\ apply_fee(c, l, a)
    PROVE  Begins(c, tool)
<1>1. a \in Int /\ -a \in Int
  BY AmountsAssumption
<1>2. tool \in MONEY_TOOLS /\ tool \in TOOLS /\ tool # "escalate_to_human"
  BY DEF MONEY_TOOLS, TOOLS, GATED_TOOLS
<1>3. CASE Raised(c)
  BY <1>3, RaisedErrs DEF Begins
<1>4. CASE \E type \in {"payment", "refund", "fee"}, x \in Int : MoveMoney(c, tool, l, type, x)
  BY <1>2, <1>4, MoveMoneyGoesOn DEF Begins
<1>5. CASE \E r \in DenialReasons : Denied(c, tool, <<DeniedRow(r)>>)
  <2>1. PICK r \in DenialReasons : Denied(c, tool, <<DeniedRow(r)>>)
    BY <1>5
  <2>2. <<DeniedRow(r)>> \in Seq(RefusalRows(tool))
    BY <1>2, RowsOfTools
  <2> QED BY <1>2, <2>1, <2>2, DeniedRefuses DEF Begins
<1> QED BY <1>1, <1>3, <1>4, <1>5 DEF post_payment, issue_refund, apply_fee, DenialReasons

LEMMA DisputeBegins ==
    ASSUME TypeOK, NEW c \in Cases, NEW l \in Loans, NEW tool,
           \/ \E k \in AnyCustomer : tool = "raise_dispute" /\ raise_dispute(c, l, k)
           \/ \E d \in 1 .. Len(disputes) + 1, r \in Resolutions \cup {"other"} :
                  tool = "resolve_dispute" /\ resolve_dispute_check(c, l, d, r)
    PROVE  Begins(c, tool)
<1>1. tool \in TOOLS /\ tool # "escalate_to_human"
  BY NotEscalations
<1>2. CASE Raised(c)
  BY <1>2, RaisedErrs DEF Begins
<1>3. ASSUME NEW k \in AnyCustomer, tool = "raise_dispute", raise_dispute(c, l, k)
      PROVE  Begins(c, tool)
  <2> DEFINE d == [loan |-> l, customer |-> k, case |-> c, status |-> "open"]
  <2>1. CASE /\ k \in Customers
             /\ disputes' = Append(disputes, d)
             /\ Committed(c, "raise_dispute", RaisedRow(Len(disputes'), l))
             /\ UNCHANGED <<loans, transactions, identity_verifications, cases>>
    <3>1. d \in Disputes
      BY <2>1 DEF Disputes
    <3>2. Len(disputes') \in Nat
      BY <2>1, <3>1, AppendProperties DEF TypeOK
    <3>3. RaisedRow(Len(disputes'), l) \in SmoothRows(tool)
      BY <1>1, <3>2, RowsOfTools
    <3> QED BY <1>1, <1>3, <2>1, <3>3, CommittedGoesOn DEF Begins
  <2> QED BY <1>2, <1>3, <2>1 DEF raise_dispute
<1>4. ASSUME NEW d \in 1 .. Len(disputes) + 1, NEW r \in Resolutions \cup {"other"},
             tool = "resolve_dispute", resolve_dispute_check(c, l, d, r)
      PROVE  Begins(c, tool)
  <2>1. CASE Denied(c, "resolve_dispute", <<>>)
    <3>1. <<>> \in Seq(RefusalRows(tool))
      OBVIOUS
    <3> QED BY <1>1, <1>4, <2>1, <3>1, DeniedRefuses DEF Begins
  <2>2. CASE /\ r \in Resolutions
             /\ Become(c, Resolving(d, r))
             /\ UNCHANGED <<db, audit_log>>
    <3>1. d \in Nat
      BY DEF TypeOK
    <3>2. Resolving(d, r) \in Underway(tool)
      BY <1>4, <2>2, <3>1, UnderwayCalls
    <3> QED BY <1>1, <2>2, <3>2, ReadGoesOn DEF Begins
  <2> QED BY <1>2, <1>4, <2>1, <2>2 DEF resolve_dispute_check
<1> QED BY <1>3, <1>4

(* A call that begins is refused, fails, goes on or escalates.             *)
LEMMA CallBegins ==
    ASSUME TypeOK, NEW c \in Cases, NEW tool \in TOOLS, BeginCall(c, tool)
    PROVE  Begins(c, tool)
<1>1. ASSUME NEW k \in AnyCustomer, NEW p \in BOOLEAN, NEW q \in BOOLEAN,
             tool = "verify_identity", verify_identity(c, k, p, q)
      PROVE  Begins(c, tool)
  <2> DEFINE v == p /\ q
  <2>1. CASE Raised(c)
    BY <2>1, RaisedErrs DEF Begins
  <2>2. CASE /\ k \in Customers
             /\ Committed(c, "verify_identity", IdentityRow(k, v))
             /\ UNCHANGED <<loans, transactions, disputes, cases>>
    <3>1. v \in BOOLEAN /\ tool \in TOOLS \ {"escalate_to_human"}
      BY <1>1, NotEscalations
    <3> HIDE DEF v
    <3>2. IdentityRow(k, v) \in SmoothRows(tool)
      BY <2>2, <3>1, RowsOfTools
    <3> QED BY <1>1, <2>2, <3>1, <3>2, CommittedGoesOn DEF Begins
  <2> QED BY <1>1, <2>1, <2>2 DEF verify_identity
<1>2. ASSUME NEW l \in AnyLoan, require_identity_verified(c, tool, l)
      PROVE  Begins(c, tool)
  <2>1. tool \in TOOLS \ {"escalate_to_human"}
    BY <1>2, NotEscalations DEF require_identity_verified
  <2>2. (IF l \in Loans THEN <<DeniedRow("identity_not_verified")>> ELSE <<>>) \in Seq(RefusalRows(tool))
    BY <2>1, RowsOfTools DEF DenialReasons
  <2> QED BY <1>2, <2>1, <2>2, DeniedRefuses DEF require_identity_verified, Begins
<1>3. ASSUME NEW l \in AnyLoan, tool = "freeze_account", freeze_account_read(c, l)
      PROVE  Begins(c, tool)
  <2>1. CASE Raised(c)
    BY <2>1, RaisedErrs DEF Begins
  <2>2. CASE /\ l \in Loans
             /\ Become(c, Freezing(l, loans[l]))
             /\ UNCHANGED <<db, audit_log>>
    <3>1. Freezing(l, loans[l]) \in Underway(tool)
      BY <1>3, <2>2, UnderwayCalls DEF TypeOK
    <3> QED BY <1>3, <2>2, <3>1, ReadGoesOn DEF Begins
  <2> QED BY <1>3, <2>1, <2>2 DEF freeze_account_read
<1>4. ASSUME tool = "escalate_to_human", escalate_to_human(c)
      PROVE  Begins(c, tool)
  BY <1>4, Becomes DEF escalate_to_human, Committed, Escalates, Begins
<1>5. ASSUME tool = "send_customer_message", send_customer_message(c)
      PROVE  Begins(c, tool)
  <2>1. <<MessageRow>> \in Seq(SmoothRows(tool))
    BY <1>5, NotEscalations, RowsOfTools
  <2> QED BY <1>5, <2>1, LoggedGoesOn DEF send_customer_message, Begins
<1>6. ASSUME NEW known \in BOOLEAN, read_tool(c, tool, known)
      PROVE  Begins(c, tool)
  <2>1. <<>> \in Seq(SmoothRows(tool)) /\ tool # "escalate_to_human"
    BY <1>6, NotEscalations DEF read_tool
  <2> QED BY <1>6, <2>1, LoggedGoesOn, RaisedErrs DEF read_tool, Begins
<1>7. ASSUME bad_arguments(c, tool)
      PROVE  Begins(c, tool)
  BY <1>7, RaisedErrs DEF bad_arguments, Begins
<1>8. ASSUME NEW l \in Loans,
             \/ \E k \in AnyCustomer : tool = "raise_dispute" /\ raise_dispute(c, l, k)
             \/ \E d \in 1 .. Len(disputes) + 1, r \in Resolutions \cup {"other"} :
                    tool = "resolve_dispute" /\ resolve_dispute_check(c, l, d, r)
      PROVE  Begins(c, tool)
  BY <1>8, DisputeBegins
<1>9. ASSUME NEW l \in Loans, NEW a \in Amounts,
             \/ tool = "post_payment" /\ post_payment(c, l, a)
             \/ tool = "issue_refund" /\ issue_refund(c, l, a)
             \/ tool = "apply_fee" /\ apply_fee(c, l, a)
      PROVE  Begins(c, tool)
  BY <1>9, MoneyBegins
<1> QED BY <1>1, <1>2, <1>3, <1>4, <1>5, <1>6, <1>7, <1>8, <1>9 DEF BeginCall

(* A call that has begun goes on.                                          *)
LEMMA CallGoesOn ==
    ASSUME TypeOK, NEW c \in Cases, NEW tool \in TOOLS, call[c] \in Underway(tool), ContinueCall(c)
    PROVE  GoesOn(c, tool)
<1>1. CASE resolve_dispute_update(c)
  <2>1. tool = "resolve_dispute" /\ call[c].dispute \in Nat /\ call[c].resolution \in Resolutions
    BY <1>1, CallFields DEF resolve_dispute_update, Continue, TypeOK, Underway, Idle
  <2>2. ResolvedRow(call[c].dispute, call[c].resolution) \in SmoothRows(tool)
    BY <2>1, RowsOfTools, NotEscalations
  <2>3. Committed(c, tool, ResolvedRow(call[c].dispute, call[c].resolution)) /\ UNCHANGED cases
    BY <1>1, <2>1 DEF resolve_dispute_update
  <2> QED BY <2>2, <2>3, CommittedGoesOn
<1>2. CASE freeze_account_update(c)
  <2>1. tool = "freeze_account" /\ call[c].loan \in Loans /\ call[c].prior \in LoanStatuses
    BY <1>2, CallFields DEF freeze_account_update, Continue, TypeOK, Underway, Idle
  <2>2. FrozenRow(call[c].loan, call[c].prior) \in SmoothRows(tool)
    BY <2>1, RowsOfTools, NotEscalations
  <2> QED BY <1>2, <2>1, <2>2, CommittedGoesOn DEF freeze_account_update
<1>3. CASE LogCall(c)
  <2>1. call[c].tool = tool
    BY <1>3 DEF LogCall, Continue, Underway, Idle
  <2>2. <<ToolCallRow(tool, "ok")>> \in Seq(SmoothRows(tool))
    BY RowsOfTools
  <2>3. call'[c] = Idle("ok") /\ UNCHANGED cases
    BY <1>3, Becomes DEF LogCall, db
  <2> QED BY <1>3, <2>1, <2>2, <2>3, UnderwayCalls DEF LogCall, GoesOn
<1> QED BY <1>1, <1>2, <1>3 DEF ContinueCall

(* A session touches its own case only.                                    *)
LEMMA OtherCasesStay ==
    ASSUME TypeOK, NEW c \in Cases, Step(c), NEW e \in Cases, e # c
    PROVE  audit_log'[e] = audit_log[e] /\ call'[e] = call[e] /\ cases'[e] = cases[e]
<1>1. \E rows : append_audit(c, rows)
  BY StepEffect DEF Effect, KeepsAccounts, VerifiesCustomer, MovesMoney, RaisesDispute,
                    SettlesDispute, FreezesLoan, Quietly
<1>2. audit_log'[e] = audit_log[e]
  BY <1>1, OtherTrails
<1>3. call'[e] = call[e]
  BY StepBecomes DEF BecomesCall
<1>4. cases'[e] = cases[e]
  <2>1. ASSUME NEW tool \in TOOLS, BeginCall(c, tool)
        PROVE  cases'[e] = cases[e]
    BY <2>1, CallBegins DEF Begins, Refuses, Errs, GoesOn, Escalates, TypeOK
  <2>2. ASSUME ContinueCall(c)
        PROVE  cases' = cases
    BY <2>2 DEF ContinueCall, resolve_dispute_update, freeze_account_update, LogCall, db
  <2>3. ASSUME \/ OpenCase(c)
               \/ \E s \in {"resolved", "escalated"} : CompleteCase(c, s)
        PROVE  cases'[e] = cases[e]
    BY <2>3 DEF OpenCase, CompleteCase, TypeOK
  <2>4. ASSUME DatabaseLocked(c) \/ SessionEnds(c) \/ \E row \in CallerRows : CallerRow(c, row)
        PROVE  cases' = cases
    BY <2>4 DEF DatabaseLocked, Raised, SessionEnds, CallerRow, db
  <2> QED BY <2>1, <2>2, <2>3, <2>4 DEF Step
<1> QED BY <1>2, <1>3, <1>4

-----------------------------------------------------------------------------
(* The loop and its session *)

AgentStep(c) == ReceiveCase(c) \/ HandleCase(c) \/ ToolLocked(c) \/ CaseFails(c)

(* What handle_case knows of its session at each point.                    *)
LoopOK(c) ==
    /\ pc[c] \in {"absent", "received", "planning", "deciding", "acting"} =>
           result[c].status = "in_progress"
    /\ pc[c] \in {"escalating", "escalated"} => result[c].status = "escalated"
    /\ pc[c] \in {"completing", "answered"} => result[c].status \in {"resolved", "escalated"}
    /\ pc[c] = "acting" =>
           /\ proposed[c] \in Approved(c)
           /\ call[c] \in Underway(proposed[c]) \cup {Idle("denied"), Idle("error")}
    /\ pc[c] = "escalated" => call[c] \in Underway("escalate_to_human")
    /\ pc[c] \notin {"acting", "escalated"} => call[c].pc \in {"idle", "closed"}

LoopInv == \A c \in Cases : LoopOK(c)

LEMMA ApprovedAreTools ==
    ASSUME AgentTypeOK, NEW c \in Cases
    PROVE  Approved(c) \subseteq TOOLS
<1>1. intent[c] \in INTENTS
  BY DEF AgentTypeOK
<1>2. INTENTS \subseteq {"fraud_or_freeze", "refund", "dispute", "payoff_quote",
                         "make_payment", "balance_inquiry", "unclear"}
  BY DEF INTENTS, INTENT_RULES
<1>3. intent[c] \in {"fraud_or_freeze", "refund", "dispute", "payoff_quote",
                     "make_payment", "balance_inquiry", "unclear"}
  BY <1>1, <1>2
<1> QED BY <1>3 DEF Approved, ApprovedActions, RuleActions, UNIVERSAL_ACTIONS,
            TOOLS, GATED_TOOLS, MONEY_TOOLS, UNGATED_TOOLS, READ_TOOLS

LEMMA IntentTypes ==
    ASSUME NEW message
    PROVE  classify_intent(message) \in INTENTS
<1>1. CASE \E i \in 1 .. Len(INTENT_RULES) : INTENT_RULES[i] \in message
  <2> DEFINE First(i) == /\ INTENT_RULES[i] \in message
                         /\ \A j \in 1 .. i - 1 : INTENT_RULES[j] \notin message
             Found(i) == INTENT_RULES[i] \in message
  <2>1. \E i \in 1 .. Len(INTENT_RULES) : First(i)
    <3>1. Len(INTENT_RULES) = 6
      BY DEF INTENT_RULES
    <3>2. PICK i \in 1 .. 6 : Found(i)
      BY <1>1, <3>1
    <3>3. \E i0 \in 1 .. 6 : Found(i0) /\ \A j \in 1 .. i0 - 1 : ~Found(j)
      <4> HIDE DEF Found
      <4>1. i \in {1, 2, 3, 4, 5, 6}
        OBVIOUS
      <4>2. CASE Found(1)
        BY <4>2
      <4>3. CASE ~Found(1) /\ Found(2)
        <5>1. \A j \in 1 .. 2 - 1 : j = 1
          OBVIOUS
        <5> QED BY <4>3, <5>1
      <4>4. CASE ~Found(1) /\ ~Found(2) /\ Found(3)
        <5>1. \A j \in 1 .. 3 - 1 : j \in {1, 2}
          OBVIOUS
        <5> QED BY <4>4, <5>1
      <4>5. CASE ~Found(1) /\ ~Found(2) /\ ~Found(3) /\ Found(4)
        <5>1. \A j \in 1 .. 4 - 1 : j \in {1, 2, 3}
          OBVIOUS
        <5> QED BY <4>5, <5>1
      <4>6. CASE ~Found(1) /\ ~Found(2) /\ ~Found(3) /\ ~Found(4) /\ Found(5)
        <5>1. \A j \in 1 .. 5 - 1 : j \in {1, 2, 3, 4}
          OBVIOUS
        <5> QED BY <4>6, <5>1
      <4>7. CASE ~Found(1) /\ ~Found(2) /\ ~Found(3) /\ ~Found(4) /\ ~Found(5) /\ Found(6)
        <5>1. \A j \in 1 .. 6 - 1 : j \in {1, 2, 3, 4, 5}
          OBVIOUS
        <5> QED BY <4>7, <5>1
      <4> QED BY <3>2, <4>1, <4>2, <4>3, <4>4, <4>5, <4>6, <4>7
    <3> QED BY <3>1, <3>3
  <2>2. (CHOOSE i \in 1 .. Len(INTENT_RULES) : First(i)) \in 1 .. Len(INTENT_RULES)
    BY <2>1
  <2>3. classify_intent(message) = INTENT_RULES[CHOOSE i \in 1 .. Len(INTENT_RULES) : First(i)]
    BY <1>1 DEF classify_intent
  <2> HIDE DEF First
  <2> QED BY <2>2, <2>3 DEF INTENTS
<1>2. CASE ~\E i \in 1 .. Len(INTENT_RULES) : INTENT_RULES[i] \in message
  BY <1>2 DEF classify_intent, INTENTS
<1> QED BY <1>1, <1>2

(* Whatever the loop does, it does to the database what a session may.     *)
LEMMA LoopUsesTools ==
    ASSUME AgentTypeOK, NEW c \in Cases, LoopOK(c), AgentStep(c)
    PROVE  Step(c) \/ UNCHANGED vars
<1>1. CASE ReceiveCase(c)
  BY <1>1 DEF ReceiveCase, Step
<1>2. CASE \E m \in Messages : StartCase(c, m)
  BY <1>2, AnyCallerAssumption DEF StartCase, CallerEventRows, Step
<1>3. CASE \E id \in ModelIds, a \in Proposals : PlanStep(c, id, a)
  BY <1>3 DEF PlanStep
<1>4. CASE \E id \in ModelIds : RejectModel(c, id)
  BY <1>4, AnyCallerAssumption DEF RejectModel, CallerEventRows, Step
<1>5. CASE RefuseAction(c)
  BY <1>5, AnyCallerAssumption DEF RefuseAction, CallerEventRows, Step
<1>6. CASE Finish(c) \/ ToolReturns(c) \/ ExceedBudget(c)
  BY <1>6 DEF Finish, ToolReturns, ExceedBudget
<1>7. CASE CallTool(c)
  BY <1>7, ApprovedAreTools DEF CallTool, Step
<1>8. CASE ToolStep(c)
  BY <1>8 DEF ToolStep, Step
<1>9. CASE Escalate(c)
  BY <1>9, NotEscalations DEF Escalate, Step, BeginCall
<1>10. CASE EscalateReturns(c)
  BY <1>10 DEF EscalateReturns, Step
<1>11. CASE Complete(c)
  BY <1>11 DEF Complete, At, LoopOK, Step
<1>12. CASE ToolLocked(c) \/ CaseFails(c)
  BY <1>12 DEF ToolLocked, CaseFails, Step
<1> QED BY <1>1, <1>2, <1>3, <1>4, <1>5, <1>6, <1>7, <1>8, <1>9, <1>10, <1>11, <1>12
        DEF AgentStep, HandleCase

(* The variables of the loop keep their types, and a step of one case      *)
(* leaves those of the others.                                             *)
LoopTypes ==
    /\ pc \in [Cases -> {"absent", "received", "planning", "deciding", "acting", "escalating",
                         "escalated", "completing", "answered", "failed"}]
    /\ intent \in [Cases -> INTENTS]
    /\ proposed \in [Cases -> Proposals \cup {"none"}]
    /\ history \in [Cases -> Seq([action : TOOLS, outcome : {"ok", "denied", "error"}])]
    /\ result \in [Cases -> [status : {"in_progress", "resolved", "escalated"},
                             reason : Reasons \cup {"none"}]]
    /\ ledger \in [Cases -> Seq(ModelIds)]
    /\ modelCalls \in [Cases -> Nat]
    /\ spans \in [Cases -> Seq([name : {"model_call", "tool_call"}, status : {"ok", "error"}])]

OthersLoopStays(c) ==
    \A e \in Cases \ {c} :
        /\ pc'[e] = pc[e] /\ intent'[e] = intent[e] /\ proposed'[e] = proposed[e]
        /\ history'[e] = history[e] /\ result'[e] = result[e] /\ ledger'[e] = ledger[e]
        /\ modelCalls'[e] = modelCalls[e]

LEMMA AppendToOne ==
    ASSUME NEW S, NEW f \in [Cases -> Seq(S)], NEW c \in Cases, NEW x \in S
    PROVE  [f EXCEPT ![c] = Append(f[c], x)] \in [Cases -> Seq(S)]
<1>1. Append(f[c], x) \in Seq(S)
  OBVIOUS
<1> QED BY <1>1

LEMMA StopTypes ==
    ASSUME LoopTypes, NEW c \in Cases, NEW reason \in Reasons, StopWith(c, reason)
    PROVE  /\ result' \in [Cases -> [status : {"in_progress", "resolved", "escalated"},
                                     reason : Reasons \cup {"none"}]]
           /\ pc' = [pc EXCEPT ![c] = "escalating"]
           /\ result'[c] = Result("escalated", reason)
           /\ \A e \in Cases \ {c} : result'[e] = result[e]
BY DEF LoopTypes, StopWith, Result, Goto

LEMMA ModelCallTypes ==
    ASSUME LoopTypes, NEW c \in Cases, ModelCall(c)
    PROVE  /\ modelCalls' \in [Cases -> Nat]
           /\ modelCalls'[c] = modelCalls[c] + 1
           /\ \A e \in Cases \ {c} : modelCalls'[e] = modelCalls[e]
BY DEF LoopTypes, ModelCall

LEMMA SpanTypes ==
    ASSUME LoopTypes, NEW c \in Cases, NEW name \in {"model_call", "tool_call"}, ExportSpan(c, name)
    PROVE  spans' \in [Cases -> Seq([name : {"model_call", "tool_call"}, status : {"ok", "error"}])]
<1>1. Span(name, "ok") \in [name : {"model_call", "tool_call"}, status : {"ok", "error"}]
  BY DEF Span
<1> QED BY <1>1, AppendToOne DEF LoopTypes, ExportSpan

LEMMA ReturnedEntry ==
    ASSUME AgentTypeOK, NEW c \in Cases, LoopOK(c), pc[c] = "acting", call[c].pc = "idle"
    PROVE  HistoryEntry(proposed[c], call[c].outcome) \in
               [action : TOOLS, outcome : {"ok", "denied", "error"}]
<1>1. proposed[c] \in TOOLS
  BY ApprovedAreTools DEF LoopOK
<1>2. call[c] \in {Idle("ok"), Idle("denied"), Idle("error")}
  BY DEF LoopOK, Underway
<1> QED BY <1>1, <1>2 DEF Idle, HistoryEntry

LEMMA LoopTypesStep ==
    ASSUME AgentTypeOK, NEW c \in Cases, LoopOK(c), AgentStep(c)
    PROVE  LoopTypes' /\ OthersLoopStays(c)
<1>0. LoopTypes
  BY DEF AgentTypeOK, LoopTypes
<1>1. CASE ReceiveCase(c) \/ Escalate(c) \/ Complete(c) \/ ToolLocked(c) \/ CaseFails(c) \/ CallTool(c)
  BY <1>0, <1>1 DEF ReceiveCase, Escalate, Complete, ToolLocked, CaseFails, CallTool, Goto,
                    LoopTypes, OthersLoopStays
<1>2. ASSUME NEW m \in Messages, StartCase(c, m)
      PROVE  LoopTypes' /\ OthersLoopStays(c)
  BY <1>0, <1>2, IntentTypes DEF StartCase, Goto, LoopTypes, OthersLoopStays
<1>3. ASSUME NEW id \in ModelIds, NEW a \in Proposals, PlanStep(c, id, a)
      PROVE  LoopTypes' /\ OthersLoopStays(c)
  <2>1. ledger' \in [Cases -> Seq(ModelIds)] /\ \A e \in Cases \ {c} : ledger'[e] = ledger[e]
    BY <1>0, <1>3, AppendToOne DEF PlanStep, LoopTypes
  <2>2. spans' \in [Cases -> Seq([name : {"model_call", "tool_call"}, status : {"ok", "error"}])]
    BY <1>0, <1>3, SpanTypes DEF PlanStep
  <2>3. modelCalls' \in [Cases -> Nat] /\ \A e \in Cases \ {c} : modelCalls'[e] = modelCalls[e]
    BY <1>0, <1>3, ModelCallTypes DEF PlanStep
  <2> QED BY <1>0, <1>3, <2>1, <2>2, <2>3 DEF PlanStep, Goto, LoopTypes, OthersLoopStays
<1>4. ASSUME NEW id \in ModelIds, RejectModel(c, id)
      PROVE  LoopTypes' /\ OthersLoopStays(c)
  <2>1. modelCalls' \in [Cases -> Nat] /\ \A e \in Cases \ {c} : modelCalls'[e] = modelCalls[e]
    BY <1>0, <1>4, ModelCallTypes DEF RejectModel
  <2>2. StopWith(c, "model_identity_rejected") /\ "model_identity_rejected" \in Reasons
    BY <1>4 DEF RejectModel, Reasons
  <2> QED BY <1>0, <1>4, <2>1, <2>2, StopTypes DEF RejectModel, LoopTypes, OthersLoopStays
<1>5. CASE RefuseAction(c)
  BY <1>0, <1>5, StopTypes DEF RefuseAction, Reasons, LoopTypes, OthersLoopStays
<1>6. CASE Finish(c)
  BY <1>0, <1>6 DEF Finish, Result, Reasons, Goto, LoopTypes, OthersLoopStays
<1>7. CASE ToolStep(c)
  BY <1>0, <1>7 DEF ToolStep, agentVars, LoopTypes, OthersLoopStays
<1>8. CASE ToolReturns(c)
  <2>1. HistoryEntry(proposed[c], call[c].outcome) \in
            [action : TOOLS, outcome : {"ok", "denied", "error"}]
    BY <1>8, ReturnedEntry DEF ToolReturns, At
  <2>2. /\ history' \in [Cases -> Seq([action : TOOLS, outcome : {"ok", "denied", "error"}])]
        /\ \A e \in Cases \ {c} : history'[e] = history[e]
    BY <1>0, <1>8, <2>1, AppendToOne DEF ToolReturns, RecordStep, LoopTypes
  <2>3. CASE AfterRefusal(c)
    BY <1>0, <1>8, <2>2, <2>3, StopTypes DEF AfterRefusal, ToolReturns, Reasons, LoopTypes, OthersLoopStays
  <2>4. CASE AfterSuccess(c)
    <3>1. spans' \in [Cases -> Seq([name : {"model_call", "tool_call"}, status : {"ok", "error"}])]
      BY <1>0, <2>4, SpanTypes DEF AfterSuccess
    <3>2. /\ result' \in [Cases -> [status : {"in_progress", "resolved", "escalated"},
                                    reason : Reasons \cup {"none"}]]
          /\ pc' \in [Cases -> {"absent", "received", "planning", "deciding", "acting", "escalating",
                                "escalated", "completing", "answered", "failed"}]
          /\ \A e \in Cases \ {c} : result'[e] = result[e] /\ pc'[e] = pc[e]
      <4>1. Result("escalated", "planner_escalated") \in
                [status : {"in_progress", "resolved", "escalated"}, reason : Reasons \cup {"none"}]
        BY DEF Result, Reasons
      <4>2. CASE /\ result' = [result EXCEPT ![c] = Result("escalated", "planner_escalated")]
                 /\ Goto(c, "completing")
        BY <1>0, <4>1, <4>2 DEF Goto, LoopTypes
      <4>3. CASE Goto(c, "planning") /\ UNCHANGED result
        BY <1>0, <4>3 DEF Goto, LoopTypes
      <4> QED BY <2>4, <4>2, <4>3 DEF AfterSuccess
    <3> QED BY <1>0, <1>8, <2>2, <3>1, <3>2 DEF ToolReturns, LoopTypes, OthersLoopStays
  <2> QED BY <1>8, <2>3, <2>4 DEF ToolReturns
<1>9. CASE ExceedBudget(c)
  BY <1>0, <1>9, StopTypes DEF ExceedBudget, Reasons, LoopTypes, OthersLoopStays
<1>10. CASE EscalateReturns(c)
  <2>1. spans' \in [Cases -> Seq([name : {"model_call", "tool_call"}, status : {"ok", "error"}])]
    <3>1. CASE UNCHANGED spans
      BY <1>0, <3>1 DEF LoopTypes
    <3>2. CASE ExportSpan(c, "model_call") \/ ExportSpan(c, "tool_call")
      BY <1>0, <3>2, SpanTypes
    <3> QED BY <1>10, <3>1, <3>2 DEF EscalateReturns
  <2> QED BY <1>0, <1>10, <2>1 DEF EscalateReturns, Goto, LoopTypes, OthersLoopStays
<1> QED BY <1>1, <1>2, <1>3, <1>4, <1>5, <1>6, <1>7, <1>8, <1>9, <1>10 DEF AgentStep, HandleCase

LEMMA LoopOKStep ==
    ASSUME AgentTypeOK, NEW c \in Cases, LoopOK(c), AgentStep(c)
    PROVE  LoopOK(c)'
<1>0. LoopTypes
  BY DEF AgentTypeOK, LoopTypes
<1>1. CASE ReceiveCase(c)
  <2>1. call'[c] = Idle("none") /\ pc'[c] = "received" /\ result'[c] = result[c]
    BY <1>0, <1>1, Becomes DEF ReceiveCase, OpenCase, Goto, LoopTypes, AgentTypeOK
  <2> QED BY <1>1, <2>1 DEF ReceiveCase, At, LoopOK, Idle
<1>2. ASSUME NEW m \in Messages, StartCase(c, m)
      PROVE  LoopOK(c)'
  BY <1>0, <1>2 DEF StartCase, CallerRow, At, Goto, LoopTypes, LoopOK
<1>3. ASSUME NEW id \in ModelIds, NEW a \in Proposals, PlanStep(c, id, a)
      PROVE  LoopOK(c)'
  BY <1>0, <1>3 DEF PlanStep, ModelCall, vars, At, Goto, LoopTypes, LoopOK
<1>4. CASE \/ \E id \in ModelIds : RejectModel(c, id)
           \/ RefuseAction(c) \/ ExceedBudget(c)
  <2>1. call' = call /\ pc[c] \in {"planning", "deciding"}
    BY <1>4 DEF RejectModel, RefuseAction, ExceedBudget, ModelCall, CallerRow, vars, At
  <2>2. pc'[c] = "escalating" /\ result'[c].status = "escalated"
    BY <1>0, <1>4 DEF RejectModel, RefuseAction, ExceedBudget, StopWith, Result, Goto, LoopTypes
  <2> QED BY <2>1, <2>2 DEF LoopOK
<1>5. CASE Finish(c)
  BY <1>0, <1>5 DEF Finish, vars, Result, At, Goto, LoopTypes, LoopOK
<1>6. CASE CallTool(c)
  <2>1. Begins(c, proposed[c])
    BY <1>6, ApprovedAreTools, CallBegins DEF CallTool, AgentTypeOK
  <2>2. call'[c] \in Underway(proposed[c]) \cup {Idle("denied"), Idle("error")}
    BY <2>1, UnderwayCalls, NotEscalations DEF Begins, Refuses, Errs, GoesOn, Escalates
  <2>3. pc'[c] = "acting" /\ Approved(c)' = Approved(c) /\ proposed' = proposed /\ result' = result
    BY <1>0, <1>6 DEF CallTool, Goto, Approved, LoopTypes
  <2> QED BY <1>6, <2>2, <2>3 DEF CallTool, At, LoopOK
<1>7. CASE ToolStep(c)
  <2>1. call[c].pc \in {"resolving", "freezing", "logging"}
    BY <1>7 DEF ToolStep, ContinueCall, resolve_dispute_update, freeze_account_update, LogCall, Continue
  <2>2. CASE pc[c] = "acting"
    <3>1. call[c] \in Underway(proposed[c])
      BY <2>1, <2>2 DEF LoopOK, Idle
    <3>2. call'[c] \in Underway(proposed[c])
      BY <1>7, <2>2, <3>1, CallGoesOn, ApprovedAreTools DEF ToolStep, LoopOK, GoesOn, AgentTypeOK
    <3> QED BY <1>7, <2>2, <3>2 DEF ToolStep, agentVars, Approved, LoopOK
  <2>3. CASE pc[c] = "escalated"
    <3>1. call'[c] \in Underway("escalate_to_human")
      BY <1>7, <2>3, CallGoesOn, NotEscalations DEF ToolStep, LoopOK, GoesOn, AgentTypeOK
    <3> QED BY <1>7, <2>3, <3>1 DEF ToolStep, agentVars, LoopOK
  <2> QED BY <2>1, <2>2, <2>3 DEF LoopOK
<1>8. CASE ToolReturns(c)
  <2>1. call' = call /\ call[c].pc = "idle" /\ pc[c] = "acting"
    BY <1>8 DEF ToolReturns, vars, At
  <2>2. CASE AfterRefusal(c)
    BY <1>0, <2>1, <2>2 DEF AfterRefusal, StopWith, Result, Goto, LoopTypes, LoopOK
  <2>3. CASE AfterSuccess(c)
    BY <1>0, <2>1, <2>3 DEF AfterSuccess, Result, Goto, LoopTypes, LoopOK
  <2> QED BY <1>8, <2>2, <2>3 DEF ToolReturns
<1>9. CASE Escalate(c)
  <2>1. call'[c] = Logging("escalate_to_human")
    BY <1>9, Becomes DEF Escalate, escalate_to_human, Committed, AgentTypeOK
  <2> QED BY <1>0, <1>9, <2>1, UnderwayCalls, NotEscalations DEF Escalate, At, Goto, LoopTypes, LoopOK
<1>10. CASE EscalateReturns(c)
  <2>1. call[c].pc = "idle" /\ pc[c] = "escalated" /\ result' = result
    BY <1>10 DEF EscalateReturns, At, Idle
  <2>2. CASE Goto(c, "completing") /\ UNCHANGED vars
    BY <1>0, <2>1, <2>2 DEF vars, Goto, LoopTypes, LoopOK
  <2>3. CASE Goto(c, "answered") /\ SessionEnds(c)
    <3>1. call'[c] = Closed
      BY <2>3, Becomes DEF SessionEnds, AgentTypeOK
    <3> QED BY <1>0, <2>1, <2>3, <3>1 DEF Goto, LoopTypes, LoopOK, Closed
  <2> QED BY <1>10, <2>2, <2>3 DEF EscalateReturns
<1>11. CASE Complete(c)
  <2>1. call'[c] = Closed
    BY <1>11, Becomes DEF Complete, CompleteCase, AgentTypeOK
  <2> QED BY <1>0, <1>11, <2>1 DEF Complete, At, Goto, LoopTypes, LoopOK, Closed
<1>12. CASE ToolLocked(c)
  <2>1. call'[c] = Idle("error")
    BY <1>12, Becomes DEF ToolLocked, DatabaseLocked, Raised, AgentTypeOK
  <2>2. pc'[c] = "acting" /\ proposed[c] \in Approved(c) /\ result[c].status = "in_progress"
    BY <1>0, <1>12 DEF ToolLocked, At, Goto, LoopTypes, LoopOK
  <2> QED BY <1>12, <2>1, <2>2 DEF ToolLocked, Approved, LoopOK
<1>13. CASE CaseFails(c)
  <2>1. call'[c] = Closed
    BY <1>13, Becomes DEF CaseFails, SessionEnds, AgentTypeOK
  <2> QED BY <1>0, <1>13, <2>1 DEF CaseFails, Goto, LoopTypes, LoopOK, Closed
<1> QED BY <1>1, <1>2, <1>3, <1>4, <1>5, <1>6, <1>7, <1>8, <1>9, <1>10, <1>11, <1>12, <1>13
        DEF AgentStep, HandleCase

(* Nothing a property reads of another case changes.                       *)
LEMMA OthersStay ==
    ASSUME AgentTypeOK, LoopInv, NEW c \in Cases, AgentStep(c), NEW e \in Cases, e # c
    PROVE  /\ pc'[e] = pc[e] /\ intent'[e] = intent[e] /\ proposed'[e] = proposed[e]
           /\ history'[e] = history[e] /\ result'[e] = result[e] /\ ledger'[e] = ledger[e]
           /\ modelCalls'[e] = modelCalls[e]
           /\ audit_log'[e] = audit_log[e] /\ call'[e] = call[e] /\ cases'[e] = cases[e]
<1>1. LoopOK(c)
  BY DEF LoopInv
<1>2. OthersLoopStays(c)
  BY <1>1, LoopTypesStep
<1>3. audit_log'[e] = audit_log[e] /\ call'[e] = call[e] /\ cases'[e] = cases[e]
  <2>1. Step(c) \/ UNCHANGED vars
    BY <1>1, LoopUsesTools
  <2> QED BY <2>1, OtherCasesStay DEF AgentTypeOK, vars
<1> QED BY <1>2, <1>3 DEF OthersLoopStays

LEMMA AgentInitInv == AgentInit => AgentTypeOK /\ LoopInv
<1> SUFFICES ASSUME AgentInit PROVE AgentTypeOK /\ LoopInv
  OBVIOUS
<1>1. TypeOK
  BY InitTypes DEF AgentInit
<1>2. LoopTypes
  BY DEF AgentInit, LoopTypes, Result, Reasons, INTENTS
<1>3. AgentTypeOK
  BY <1>1, <1>2 DEF LoopTypes, AgentTypeOK
<1>4. LoopInv
  BY DEF AgentInit, Init, Result, Closed, LoopInv, LoopOK
<1> QED BY <1>3, <1>4

LEMMA AgentStepInv == AgentTypeOK /\ LoopInv /\ [AgentNext]_allVars => (AgentTypeOK /\ LoopInv)'
<1> SUFFICES ASSUME AgentTypeOK, LoopInv, [AgentNext]_allVars PROVE AgentTypeOK' /\ LoopInv'
  OBVIOUS
<1>1. ASSUME NEW c \in Cases, AgentStep(c)
      PROVE  AgentTypeOK' /\ LoopInv'
  <2>1. LoopOK(c)
    BY DEF LoopInv
  <2>2. TypeOK'
    BY <1>1, <2>1, LoopUsesTools, StepTypes DEF AgentTypeOK, Next
  <2>3. AgentTypeOK'
    BY <1>1, <2>1, <2>2, LoopTypesStep DEF LoopTypes, AgentTypeOK
  <2>4. ASSUME NEW e \in Cases, e # c
        PROVE  LoopOK(e)'
    BY <1>1, <2>4, OthersStay DEF LoopInv, LoopOK, Approved
  <2> QED BY <1>1, <2>1, <2>3, <2>4, LoopOKStep DEF LoopInv
<1>2. CASE UNCHANGED allVars
  <2>1. AgentTypeOK'
    BY <1>2 DEF allVars, vars, agentVars, AgentTypeOK, TypeOK
  <2>2. LoopInv'
    BY <1>2 DEF allVars, vars, agentVars, LoopInv, LoopOK, Approved
  <2> QED BY <2>1, <2>2
<1> QED BY <1>1, <1>2 DEF AgentNext, AgentStep

(* Every variable of a case holds values of its type, always.              *)
THEOREM AgentTypeCorrect == AgentSpec => []AgentTypeOK
<1> QED BY AgentInitInv, AgentStepInv, PTL DEF AgentSpec

(* handle_case, with any planner, any failures and any number of cases     *)
(* side by side, uses the database only as HarbourTools allows: what is    *)
(* proved of the tools under any caller is proved of Harbour.  It holds by *)
(* the shape of the actions, which conjoin those of HarbourTools.          *)
LEMMA LoopImplementsTools == AgentSpec => Spec
<1>1. AgentInit => Init
  BY DEF AgentInit
<1>2. AgentTypeOK /\ LoopInv /\ [AgentNext]_allVars => [Next]_vars
  <2> SUFFICES ASSUME AgentTypeOK, LoopInv, [AgentNext]_allVars PROVE Next \/ UNCHANGED vars
    OBVIOUS
  <2>1. CASE UNCHANGED allVars
    BY <2>1 DEF allVars
  <2> QED BY <2>1, LoopUsesTools DEF AgentNext, AgentStep, LoopInv, Next
<1> QED BY <1>1, <1>2, AgentInitInv, AgentStepInv, PTL DEF AgentSpec, Spec

-----------------------------------------------------------------------------
(* The cost of a case *)

CostOK(c) ==
    /\ pc[c] \in {"absent", "received", "planning"} => modelCalls[c] = Len(history[c])
    /\ pc[c] \in {"deciding", "acting"} => modelCalls[c] = Len(history[c]) + 1
    /\ modelCalls[c] <= MaxSteps
    /\ pc[c] \in {"absent", "received", "planning", "deciding", "acting"} =>
           result[c].reason # "model_identity_rejected"
    /\ modelCalls[c] =
           Len(ledger[c]) + (IF result[c].reason = "model_identity_rejected" THEN 1 ELSE 0)
    /\ \A n \in DOMAIN ledger[c] : ledger[c][n] \in APPROVED_MODEL_IDS

LEMMA CostStep ==
    ASSUME AgentTypeOK, NEW c \in Cases, LoopOK(c), CostOK(c), AgentStep(c)
    PROVE  CostOK(c)'
<1>0. LoopTypes /\ Len(history[c]) \in Nat /\ Len(ledger[c]) \in Nat
  <2>1. LoopTypes
    BY DEF AgentTypeOK, LoopTypes
  <2> QED BY <2>1, LenProperties DEF LoopTypes
<1>1. CASE \/ ReceiveCase(c) \/ \E m \in Messages : StartCase(c, m)
           \/ RefuseAction(c) \/ Finish(c) \/ CallTool(c) \/ ExceedBudget(c)
           \/ Escalate(c) \/ EscalateReturns(c) \/ Complete(c) \/ ToolLocked(c) \/ CaseFails(c)
  <2>1. UNCHANGED <<history, ledger, modelCalls>>
    BY <1>1 DEF ReceiveCase, StartCase, RefuseAction, Finish, CallTool, ExceedBudget, Escalate,
                EscalateReturns, Complete, ToolLocked, CaseFails
  <2>2. CASE ReceiveCase(c) \/ \E m \in Messages : StartCase(c, m)
    <3>1. pc[c] \in {"absent", "received"} /\ pc'[c] \in {"received", "planning"} /\ result' = result
      BY <1>0, <2>2 DEF ReceiveCase, StartCase, At, Goto, LoopTypes
    <3> QED BY <2>1, <3>1 DEF CostOK
  <2>3. CASE CallTool(c) \/ ToolLocked(c)
    <3>1. pc[c] \in {"deciding", "acting"} /\ pc'[c] = "acting" /\ result' = result
      BY <1>0, <2>3 DEF CallTool, ToolLocked, At, Goto, LoopTypes
    <3> QED BY <2>1, <3>1 DEF CostOK
  <2>4. CASE \/ RefuseAction(c) \/ Finish(c) \/ ExceedBudget(c) \/ Escalate(c)
             \/ EscalateReturns(c) \/ Complete(c) \/ CaseFails(c)
    <3>1. pc'[c] \in {"escalating", "escalated", "completing", "answered", "failed"}
      BY <1>0, <2>4 DEF RefuseAction, Finish, ExceedBudget, Escalate, EscalateReturns, Complete,
                        CaseFails, StopWith, Goto, LoopTypes
    <3>2. CASE RefuseAction(c) \/ Finish(c) \/ ExceedBudget(c)
      <4>1. pc[c] \in {"planning", "deciding"} /\ result'[c].reason # "model_identity_rejected"
        BY <1>0, <3>2 DEF RefuseAction, Finish, ExceedBudget, StopWith, Result, At, LoopTypes
      <4> QED BY <2>1, <3>1, <4>1 DEF CostOK
    <3>3. CASE Escalate(c) \/ EscalateReturns(c) \/ Complete(c) \/ CaseFails(c)
      <4>1. result' = result
        BY <3>3 DEF Escalate, EscalateReturns, Complete, CaseFails
      <4> QED BY <2>1, <3>1, <4>1 DEF CostOK
    <3> QED BY <2>4, <3>2, <3>3
  <2> QED BY <1>1, <2>2, <2>3, <2>4
<1>2. ASSUME NEW id \in ModelIds, NEW a \in Proposals, PlanStep(c, id, a)
      PROVE  CostOK(c)'
  <2>1. /\ pc[c] = "planning" /\ pc'[c] = "deciding" /\ Len(history[c]) < MaxSteps
        /\ UNCHANGED <<history, result>>
    BY <1>0, <1>2 DEF PlanStep, ModelCall, At, Goto, LoopTypes
  <2>2. modelCalls'[c] = modelCalls[c] + 1 /\ modelCalls[c] \in Nat
    BY <1>0, <1>2, ModelCallTypes DEF PlanStep, LoopTypes
  <2>3. ledger'[c] = Append(ledger[c], id) /\ ledger[c] \in Seq(ModelIds)
    BY <1>0, <1>2 DEF PlanStep, LoopTypes
  <2>4. /\ Len(ledger'[c]) = Len(ledger[c]) + 1
        /\ \A n \in DOMAIN ledger'[c] :
               \/ n \in DOMAIN ledger[c] /\ ledger'[c][n] = ledger[c][n]
               \/ ledger'[c][n] = id
    BY <2>3, AppendProperties
  <2>5. id \in APPROVED_MODEL_IDS
    BY <1>2 DEF PlanStep, check_model_identity
  <2> QED BY <1>0, <2>1, <2>2, <2>4, <2>5, MaxStepsAssumption DEF CostOK
<1>3. ASSUME NEW id \in ModelIds, RejectModel(c, id)
      PROVE  CostOK(c)'
  <2>1. /\ pc[c] = "planning" /\ pc'[c] = "escalating" /\ Len(history[c]) < MaxSteps
        /\ result'[c].reason = "model_identity_rejected" /\ UNCHANGED <<history, ledger>>
    BY <1>0, <1>3 DEF RejectModel, ModelCall, StopWith, Result, At, Goto, LoopTypes
  <2>2. modelCalls'[c] = modelCalls[c] + 1 /\ modelCalls[c] \in Nat
    BY <1>0, <1>3, ModelCallTypes DEF RejectModel, LoopTypes
  <2> QED BY <1>0, <2>1, <2>2, MaxStepsAssumption DEF CostOK
<1>4. CASE ToolStep(c)
  BY <1>4 DEF ToolStep, agentVars, CostOK
<1>5. CASE ToolReturns(c)
  <2>1. Len(history'[c]) = Len(history[c]) + 1
    <3>1. history'[c] = Append(history[c], HistoryEntry(proposed[c], call[c].outcome))
      BY <1>0, <1>5 DEF ToolReturns, RecordStep, LoopTypes
    <3> QED BY <1>0, <1>5, <3>1, ReturnedEntry, AppendProperties DEF ToolReturns, At, LoopTypes
  <2>2. pc[c] = "acting" /\ pc'[c] \in {"planning", "escalating", "completing"}
    BY <1>0, <1>5 DEF ToolReturns, AfterRefusal, AfterSuccess, StopWith, At, Goto, LoopTypes
  <2>3. UNCHANGED <<ledger, modelCalls>>
    BY <1>5 DEF ToolReturns
  <2>4. result' = result \/ result'[c].reason # "model_identity_rejected"
    BY <1>0, <1>5 DEF ToolReturns, AfterRefusal, AfterSuccess, StopWith, Result, LoopTypes
  <2> QED BY <1>0, <2>1, <2>2, <2>3, <2>4 DEF CostOK
<1> QED BY <1>1, <1>2, <1>3, <1>4, <1>5 DEF AgentStep, HandleCase

(* A case makes at most MAX_STEPS model calls, and its ledger has them     *)
(* all, of approved models only, but for the one that was rejected.        *)
THEOREM CostsAreContained == AgentSpec => []CostIsContained
<1> DEFINE Inv == \A c \in Cases : CostOK(c)
<1>1. AgentInit => Inv
  BY MaxStepsAssumption DEF AgentInit, CostOK, Result
<1>2. AgentTypeOK /\ LoopInv /\ Inv /\ [AgentNext]_allVars => Inv'
  <2> SUFFICES ASSUME AgentTypeOK, LoopInv, Inv, [AgentNext]_allVars PROVE Inv'
    OBVIOUS
  <2>1. ASSUME NEW c \in Cases, AgentStep(c), NEW e \in Cases
        PROVE  CostOK(e)'
    <3>1. CASE e = c
      BY <2>1, <3>1, CostStep DEF LoopInv
    <3>2. CASE e # c
      BY <2>1, <3>2, OthersStay DEF CostOK
    <3> QED BY <3>1, <3>2
  <2>2. CASE UNCHANGED allVars
    BY <2>2 DEF allVars, agentVars, CostOK
  <2> QED BY <2>1, <2>2 DEF AgentNext, AgentStep
<1>3. Inv => CostIsContained
  BY DEF CostOK, CostIsContained
<1> QED BY <1>1, <1>2, <1>3, AgentInitInv, AgentStepInv, PTL DEF AgentSpec

-----------------------------------------------------------------------------
(* The trail of a case *)

(* Rows of a kind appended: the others are where they were.                *)
LEMMA TrailGrows ==
    ASSUME TypeOK, NEW c \in Cases, NEW R \in SUBSET AuditRows, NEW rows \in Seq(R),
           append_audit(c, rows)
    PROVE  /\ \A i \in DOMAIN audit_log[c] :
                  i \in DOMAIN audit_log'[c] /\ audit_log'[c][i] = audit_log[c][i]
           /\ \A i \in DOMAIN audit_log'[c] :
                  i \in DOMAIN audit_log[c] \/ (i > Len(audit_log[c]) /\ audit_log'[c][i] \in R)
<1>1. rows \in Seq(AuditRows) /\ Len(rows) \in Nat /\ \A n \in 1 .. Len(rows) : rows[n] \in R
  BY ElementOfSeq, LenProperties
<1>2. DOMAIN audit_log[c] = 1 .. Len(audit_log[c]) /\ Len(audit_log[c]) \in Nat
  BY TrailTypes
<1>3. /\ DOMAIN audit_log'[c] = 1 .. Len(audit_log[c]) + Len(rows)
      /\ \A i \in Len(audit_log[c]) + 1 .. Len(audit_log[c]) + Len(rows) :
            audit_log'[c][i] = rows[i - Len(audit_log[c])]
  BY <1>1, Appended
<1>4. ASSUME NEW i \in DOMAIN audit_log'[c], i \notin DOMAIN audit_log[c]
      PROVE  i > Len(audit_log[c]) /\ audit_log'[c][i] \in R
  <2>1. i - Len(audit_log[c]) \in 1 .. Len(rows) /\ audit_log'[c][i] = rows[i - Len(audit_log[c])]
    BY <1>1, <1>2, <1>3, <1>4
  <2> QED BY <1>1, <1>2, <1>3, <1>4, <2>1
<1> QED BY <1>1, <1>4, OldRows

LEMMA OneRow ==
    ASSUME NEW c, NEW row \in AuditRows, append_audit(c, <<row>>)
    PROVE  \E rows \in Seq({row}) : append_audit(c, rows)
<1>1. <<row>> \in Seq({row})
  OBVIOUS
<1> QED BY <1>1

LoopRows == {CaseReceivedRow, ModelRejectedRow, DeniedRow("action_outside_approved_set")}

LEMMA LoopRowTypes ==
    /\ \A row \in LoopRows : row \in AuditRows /\ row.event \notin {"tool_call", "money_moved", "account_frozen", "escalated"}
    /\ ~IsRefusal(CaseReceivedRow)
    /\ IsRefusal(ModelRejectedRow) /\ IsRefusal(DeniedRow("action_outside_approved_set"))
<1>1. LoopRows \subseteq AuditRows
  BY RowTypes, AnyCallerAssumption DEF LoopRows, CallerEventRows
<1> QED BY <1>1 DEF LoopRows, CaseReceivedRow, ModelRejectedRow, DeniedRow, IsRefusal

(* What a step of a case appends to its trail.                             *)
TrailSteps(c) ==
    \/ UNCHANGED <<audit_log, intent>>
    \/ /\ pc[c] = "received" /\ pc'[c] = "planning"
       /\ append_audit(c, <<CaseReceivedRow>>)
    \/ /\ pc[c] \in {"planning", "deciding"} /\ pc'[c] = "escalating" /\ UNCHANGED intent
       /\ \E row \in {ModelRejectedRow, DeniedRow("action_outside_approved_set")} :
              append_audit(c, <<row>>)
    \/ /\ pc[c] = "deciding" /\ pc'[c] = "acting" /\ UNCHANGED intent
       /\ proposed[c] \in Approved(c)
       /\ Refuses(c, proposed[c]) \/ GoesOn(c, proposed[c]) \/ Escalates(c)
    \/ /\ pc[c] = "acting" /\ pc'[c] = "acting" /\ UNCHANGED intent
       /\ proposed[c] \in Approved(c)
       /\ call[c] \notin {Idle("denied")}
       /\ GoesOn(c, proposed[c])
    \/ /\ pc[c] = "escalating" /\ pc'[c] = "escalated" /\ UNCHANGED intent
       /\ Escalates(c)
    \/ /\ pc[c] = "escalated" /\ pc'[c] = "escalated" /\ UNCHANGED intent
       /\ GoesOn(c, "escalate_to_human")

LEMMA TrailStep ==
    ASSUME AgentTypeOK, NEW c \in Cases, LoopOK(c), AgentStep(c)
    PROVE  TrailSteps(c)
<1>0. LoopTypes /\ TypeOK
  BY DEF AgentTypeOK, LoopTypes
<1>1. ASSUME NEW m \in Messages, StartCase(c, m)
      PROVE  TrailSteps(c)
  BY <1>0, <1>1 DEF StartCase, CallerRow, At, Goto, LoopTypes, TrailSteps
<1>2. ASSUME NEW id \in ModelIds, RejectModel(c, id)
      PROVE  TrailSteps(c)
  BY <1>0, <1>2 DEF RejectModel, ModelCall, CallerRow, StopWith, At, Goto, LoopTypes, TrailSteps
<1>3. CASE RefuseAction(c)
  BY <1>0, <1>3 DEF RefuseAction, CallerRow, StopWith, At, Goto, LoopTypes, TrailSteps
<1>4. CASE CallTool(c)
  <2>1. Begins(c, proposed[c]) /\ proposed[c] \in Approved(c)
    BY <1>0, <1>4, CallBegins, ApprovedAreTools DEF CallTool
  <2>2. pc[c] = "deciding" /\ pc'[c] = "acting" /\ UNCHANGED intent
    BY <1>0, <1>4 DEF CallTool, At, Goto, LoopTypes
  <2> QED BY <2>1, <2>2 DEF Begins, Errs, TrailSteps
<1>5. CASE ToolStep(c)
  <2>1. call[c].pc \in {"resolving", "freezing", "logging"}
    BY <1>5 DEF ToolStep, ContinueCall, resolve_dispute_update, freeze_account_update, LogCall, Continue
  <2>2. CASE pc[c] = "acting"
    <3>1. call[c] \in Underway(proposed[c]) /\ proposed[c] \in Approved(c) /\ call[c] # Idle("denied")
      BY <2>1, <2>2 DEF LoopOK, Idle
    <3>2. GoesOn(c, proposed[c])
      BY <1>0, <1>5, <3>1, CallGoesOn, ApprovedAreTools DEF ToolStep
    <3> QED BY <1>5, <2>2, <3>1, <3>2 DEF ToolStep, agentVars, TrailSteps
  <2>3. CASE pc[c] = "escalated"
    <3>1. GoesOn(c, "escalate_to_human")
      BY <1>0, <1>5, <2>3, CallGoesOn, NotEscalations DEF ToolStep, LoopOK
    <3> QED BY <1>5, <2>3, <3>1 DEF ToolStep, agentVars, TrailSteps
  <2> QED BY <2>1, <2>2, <2>3 DEF LoopOK
<1>6. CASE Escalate(c)
  <2>1. Escalates(c)
    BY <1>0, <1>6, Becomes DEF Escalate, escalate_to_human, Committed, Escalates
  <2> QED BY <1>0, <1>6, <2>1 DEF Escalate, At, Goto, LoopTypes, TrailSteps
<1>7. CASE \/ \E id \in ModelIds, a \in Proposals : PlanStep(c, id, a)
           \/ Finish(c) \/ ToolReturns(c) \/ ExceedBudget(c)
  BY <1>7 DEF PlanStep, Finish, ToolReturns, ExceedBudget, vars, TrailSteps
<1>8. CASE EscalateReturns(c) \/ Complete(c) \/ ReceiveCase(c)
  BY <1>8 DEF EscalateReturns, Complete, ReceiveCase, SessionEnds, CompleteCase, OpenCase, vars, TrailSteps
<1>9. CASE ToolLocked(c) \/ CaseFails(c)
  BY <1>9 DEF ToolLocked, CaseFails, DatabaseLocked, Raised, SessionEnds, TrailSteps
<1> QED BY <1>1, <1>2, <1>3, <1>4, <1>5, <1>6, <1>7, <1>8, <1>9 DEF AgentStep, HandleCase

ToolRowsApproved(c) ==
    /\ pc[c] \in {"absent", "received"} => audit_log[c] = <<>>
    /\ \A i \in DOMAIN audit_log[c] :
           /\ audit_log[c][i].event \in {"tool_call", "money_moved"} =>
                  audit_log[c][i].tool \in Approved(c) \cup {"escalate_to_human"}
           /\ audit_log[c][i].event = "account_frozen" => "freeze_account" \in Approved(c)

LEMMA OnlyStartsOnce ==
    ASSUME AgentTypeOK, NEW c \in Cases, AgentStep(c), pc[c] \notin {"absent", "received"}
    PROVE  pc'[c] \notin {"absent", "received"}
<1>0. LoopTypes
  BY DEF AgentTypeOK, LoopTypes
<1>1. CASE ToolStep(c)
  BY <1>1 DEF ToolStep, agentVars
<1>2. CASE ToolReturns(c)
  BY <1>0, <1>2 DEF ToolReturns, AfterRefusal, AfterSuccess, StopWith, Goto, LoopTypes
<1>3. CASE \/ RefuseAction(c) \/ Finish(c) \/ CallTool(c) \/ ExceedBudget(c) \/ Escalate(c)
           \/ EscalateReturns(c) \/ Complete(c) \/ CaseFails(c) \/ ReceiveCase(c)
           \/ \E m \in Messages : StartCase(c, m)
  BY <1>0, <1>3 DEF RefuseAction, Finish, CallTool, ExceedBudget, Escalate, EscalateReturns, Complete,
                    CaseFails, ReceiveCase, StartCase, StopWith, At, Goto, LoopTypes
<1>4. CASE \/ \E id \in ModelIds, a \in Proposals : PlanStep(c, id, a)
           \/ \E id \in ModelIds : RejectModel(c, id)
  BY <1>0, <1>4 DEF PlanStep, RejectModel, StopWith, Goto, LoopTypes
<1>5. CASE ToolLocked(c)
  BY <1>0, <1>5 DEF ToolLocked, Goto, LoopTypes
<1> QED BY <1>1, <1>2, <1>3, <1>4, <1>5 DEF AgentStep, HandleCase

LEMMA ToolRowsStep ==
    ASSUME AgentTypeOK, NEW c \in Cases, LoopOK(c), ToolRowsApproved(c), AgentStep(c)
    PROVE  ToolRowsApproved(c)'
<1> DEFINE Fine(row) == /\ row.event \in {"tool_call", "money_moved"} =>
                               row.tool \in Approved(c) \cup {"escalate_to_human"}
                        /\ row.event = "account_frozen" => "freeze_account" \in Approved(c)
           Kept(R) == \E rows \in Seq(R) : append_audit(c, rows)
<1>0. TypeOK
  BY DEF AgentTypeOK
<1>1. ASSUME pc'[c] \in {"absent", "received"}
      PROVE  audit_log'[c] = <<>>
  <2>1. pc[c] \in {"absent", "received"} /\ audit_log[c] = <<>>
    BY <1>1, OnlyStartsOnce DEF ToolRowsApproved
  <2>2. UNCHANGED audit_log
    BY <1>1, <2>1, TrailStep DEF TrailSteps
  <2> QED BY <2>1, <2>2
<1>2. CASE pc[c] \in {"absent", "received"}
  <2>1. audit_log[c] = <<>>
    BY <1>2 DEF ToolRowsApproved
  <2>2. UNCHANGED audit_log \/ append_audit(c, <<CaseReceivedRow>>)
    BY <1>2, TrailStep DEF TrailSteps
  <2>3. CASE append_audit(c, <<CaseReceivedRow>>)
    <3>1. audit_log'[c] = <<CaseReceivedRow>>
      BY <1>0, <2>1, <2>3 DEF append_audit, TypeOK
    <3>2. CaseReceivedRow.event \notin {"tool_call", "money_moved", "account_frozen"}
      BY DEF CaseReceivedRow
    <3> QED BY <1>1, <3>1, <3>2 DEF ToolRowsApproved
  <2> QED BY <1>1, <2>1, <2>2, <2>3 DEF ToolRowsApproved
<1>3. ASSUME UNCHANGED intent, NEW R \in SUBSET AuditRows, Kept(R), \A row \in R : Fine(row)
      PROVE  ToolRowsApproved(c)'
  <2>1. PICK rows \in Seq(R) : append_audit(c, rows)
    BY <1>3
  <2>2. \A i \in DOMAIN audit_log'[c] : Fine(audit_log'[c][i])
    BY <1>0, <1>3, <2>1, TrailGrows DEF ToolRowsApproved
  <2>3. Approved(c)' = Approved(c)
    BY <1>3 DEF Approved
  <2> QED BY <1>1, <2>2, <2>3 DEF ToolRowsApproved
<1>4. ASSUME NEW tool \in Approved(c) \cup {"escalate_to_human"}
      PROVE  /\ \A row \in RefusalRows(tool) \cup SmoothRows(tool) : Fine(row)
             /\ RefusalRows(tool) \in SUBSET AuditRows /\ SmoothRows(tool) \in SUBSET AuditRows
  BY <1>4 DEF RefusalRows, SmoothRows, RowsOf
<1>5. ASSUME Escalates(c), UNCHANGED intent
      PROVE  ToolRowsApproved(c)'
  <2>1. EscalatedRow \in AuditRows /\ Fine(EscalatedRow)
    BY RowTypes DEF EscalatedRow
  <2>2. Kept({EscalatedRow})
    BY <1>5, <2>1, OneRow DEF Escalates
  <2> QED BY <1>3, <1>5, <2>1, <2>2
<1>6. ASSUME NEW row \in LoopRows, append_audit(c, <<row>>), UNCHANGED intent
      PROVE  ToolRowsApproved(c)'
  <2>1. row \in AuditRows /\ Fine(row)
    BY <1>6, LoopRowTypes
  <2>2. Kept({row})
    BY <1>6, <2>1, OneRow
  <2> QED BY <1>3, <1>6, <2>1, <2>2
<1>7. ASSUME UNCHANGED intent, NEW tool \in Approved(c) \cup {"escalate_to_human"},
             Refuses(c, tool) \/ GoesOn(c, tool)
      PROVE  ToolRowsApproved(c)'
  <2>1. Kept(RefusalRows(tool)) \/ Kept(SmoothRows(tool))
    BY <1>7 DEF Refuses, GoesOn
  <2> HIDE DEF Fine, Kept
  <2> QED BY <1>3, <1>4, <1>7, <2>1
<1>8. CASE UNCHANGED <<audit_log, intent>>
  <2>1. Approved(c)' = Approved(c)
    BY <1>8 DEF Approved
  <2> QED BY <1>1, <1>8, <2>1 DEF ToolRowsApproved
<1> HIDE DEF Fine, Kept
<1> QED BY <1>2, <1>5, <1>6, <1>7, <1>8, TrailStep DEF TrailSteps, LoopRows

(* Whatever the planner proposes, only the tools approved for the          *)
(* customer's message run in a case, and the escalation.                   *)
THEOREM OnlyApprovedRun == AgentSpec => []OnlyApprovedToolsRun
<1> DEFINE Inv == \A c \in Cases : ToolRowsApproved(c)
<1>1. AgentInit => Inv
  BY DEF AgentInit, Init, ToolRowsApproved
<1>2. AgentTypeOK /\ LoopInv /\ Inv /\ [AgentNext]_allVars => Inv'
  <2> SUFFICES ASSUME AgentTypeOK, LoopInv, Inv, [AgentNext]_allVars PROVE Inv'
    OBVIOUS
  <2>1. ASSUME NEW c \in Cases, AgentStep(c), NEW e \in Cases
        PROVE  ToolRowsApproved(e)'
    <3>1. CASE e = c
      BY <2>1, <3>1, ToolRowsStep DEF LoopInv
    <3>2. CASE e # c
      BY <2>1, <3>2, OthersStay DEF ToolRowsApproved, Approved
    <3> QED BY <3>1, <3>2
  <2>2. CASE UNCHANGED allVars
    BY <2>2 DEF allVars, vars, agentVars, ToolRowsApproved, Approved
  <2> QED BY <2>1, <2>2 DEF AgentNext, AgentStep
<1>3. Inv => OnlyApprovedToolsRun
  BY DEF ToolRowsApproved, OnlyApprovedToolsRun
<1> QED BY <1>1, <1>2, <1>3, AgentInitInv, AgentStepInv, PTL DEF AgentSpec

-----------------------------------------------------------------------------
(* The detectors *)

(* Between two requests and in the middle of one, after any failure, and   *)
(* whatever the planner proposed, the detectors report nothing.            *)
THEOREM DetectorsAreClean == AgentSpec => []DetectorsFindNothing
<1> DEFINE Sound == /\ TypeOK /\ MoneyAfterOwnerVerified /\ TransactionsMatchAudit
                    /\ OnlyApprovedToolsRun /\ CostIsContained
<1>1. AgentSpec => []Sound
  BY LoopImplementsTools, TypeCorrect, MoneyIsGated, MoneyIsOnRecord, OnlyApprovedRun,
     CostsAreContained, PTL
<1>2. Sound => DetectorsFindNothing
  <2> SUFFICES ASSUME Sound PROVE DetectorsFindNothing
    OBVIOUS
  <2>1. ASSUME NEW c \in Cases
        PROVE  /\ detect_money_without_verified_identity(c) = {}
               /\ detect_action_outside_approved_set(c) = {}
               /\ detect_unapproved_model_identity_in_ledger(c) = {}
    <3>1. ASSUME NEW i \in Events(c, "money_moved")
          PROVE  \E j \in Events(c, "identity_verified") : j < i /\ audit_log[c][j].verified
      <4>1. DOMAIN audit_log[c] = 1 .. Len(audit_log[c]) /\ Len(audit_log[c]) \in Nat
        BY TrailTypes
      <4> QED BY <3>1, <4>1 DEF Events, MoneyAfterOwnerVerified, VerifiedBefore
    <3>2. detect_action_outside_approved_set(c) = {}
      BY DEF detect_action_outside_approved_set, OnlyApprovedToolsRun, Events
    <3>3. detect_unapproved_model_identity_in_ledger(c) = {}
      BY DEF detect_unapproved_model_identity_in_ledger, CostIsContained, check_model_identity
    <3> QED BY <3>1, <3>2, <3>3 DEF detect_money_without_verified_identity
  <2>2. ASSUME NEW n \in DOMAIN transactions
        PROVE  Cardinality(MatchesOf(n)) = 1
    <3>1. PICK i \in MatchesOf(n) : \A j \in MatchesOf(n) : j = i
      BY DEF MatchesOf, Events, TransactionsMatchAudit, ReportedOnce
    <3>2. MatchesOf(n) = {i}
      BY <3>1
    <3> QED BY <3>2, FS_Singleton
  <2>3. ASSUME NEW c \in Cases, NEW i \in Events(c, "money_moved")
        PROVE  audit_log[c][i].txn \in DOMAIN transactions
    BY <2>3 DEF Events, TransactionsMatchAudit, Reports
  <2>4. detect_transaction_audit_drift = {}
    <3> DEFINE drifted == {n \in DOMAIN transactions : Cardinality(MatchesOf(n)) # 1}
               told == UNION {{audit_log[c][i].txn : i \in Events(c, "money_moved")} : c \in Cases}
    <3>1. \A t \in told : t \in DOMAIN transactions
      BY <2>3
    <3>2. drifted = {}
      BY <2>2
    <3>3. detect_transaction_audit_drift = drifted \cup (told \ DOMAIN transactions)
      BY DEF detect_transaction_audit_drift
    <3> HIDE DEF drifted, told
    <3> QED BY <3>1, <3>2, <3>3
  <2> QED BY <2>1, <2>4 DEF DetectorsFindNothing
<1> QED BY <1>1, <1>2, PTL

-----------------------------------------------------------------------------
(* The answer and the record *)

EscalatedOnTrail(c) == \E i \in DOMAIN audit_log[c] : audit_log[c][i].event = "escalated"

LastUpdateReasons == {"finished", "planner_escalated", "step_budget_exceeded"}

(* The status, the trail and the result of a case, at each point of        *)
(* handle_case.                                                            *)
RecordOK(c) ==
    /\ EscalatedOnTrail(c) <=> cases[c].status = "escalated"
    /\ pc[c] \in {"absent", "received", "planning", "deciding"} => cases[c].status # "escalated"
    /\ pc[c] = "acting" =>
           /\ cases[c].status = "escalated" => proposed[c] = "escalate_to_human"
           /\ proposed[c] = "escalate_to_human" /\ call[c] \notin {Idle("denied"), Idle("error")}
              => cases[c].status = "escalated"
    /\ pc[c] \in {"escalating", "escalated"} => result[c].reason \notin {"finished", "planner_escalated"}
    /\ pc[c] = "escalated" => cases[c].status = "escalated"
    /\ pc[c] = "completing" =>
           /\ result[c].status = "escalated" <=> cases[c].status = "escalated"
           /\ result[c].reason \in LastUpdateReasons
    /\ pc[c] # "answered" => ~cases[c].completed /\ cases[c].status # "resolved"
    /\ pc[c] # "absent" => cases[c].status # "absent"
    /\ pc[c] = "answered" =>
           /\ cases[c].status = result[c].status
           /\ cases[c].completed <=> result[c].reason \in LastUpdateReasons

CaseRecordStays(c) ==
    /\ EscalatedOnTrail(c)' <=> EscalatedOnTrail(c)
    /\ cases'[c] = cases[c]

LEMMA SameRecord ==
    ASSUME NEW c \in Cases, UNCHANGED <<audit_log, cases>>
    PROVE  CaseRecordStays(c)
BY DEF CaseRecordStays, EscalatedOnTrail

LEMMA QuietRecord ==
    ASSUME TypeOK, NEW c \in Cases, NEW R \in SUBSET AuditRows, NEW rows \in Seq(R),
           append_audit(c, rows), \A row \in R : row.event # "escalated", UNCHANGED cases
    PROVE  CaseRecordStays(c)
BY TrailGrows DEF CaseRecordStays, EscalatedOnTrail

LEMMA LoopRowRecord ==
    ASSUME TypeOK, NEW c \in Cases, NEW row \in LoopRows, CallerRow(c, row)
    PROVE  CaseRecordStays(c)
<1>1. PICK rows \in Seq({row}) : append_audit(c, rows)
  BY LoopRowTypes, OneRow DEF CallerRow
<1> QED BY <1>1, LoopRowTypes, QuietRecord DEF CallerRow, db

LEMMA CallRecord ==
    ASSUME TypeOK, NEW c \in Cases, NEW tool, Refuses(c, tool) \/ Errs(c) \/ GoesOn(c, tool)
    PROVE  CaseRecordStays(c)
<1>1. /\ RefusalRows(tool) \in SUBSET AuditRows /\ SmoothRows(tool) \in SUBSET AuditRows
      /\ \A row \in RefusalRows(tool) \cup SmoothRows(tool) : row.event # "escalated"
  BY DEF RefusalRows, SmoothRows, RowsOf, IsRefusal
<1>2. CASE Refuses(c, tool)
  <2>1. PICK rows \in Seq(RefusalRows(tool)) : append_audit(c, rows)
    BY <1>2 DEF Refuses
  <2> QED BY <1>1, <1>2, <2>1, QuietRecord DEF Refuses
<1>3. CASE GoesOn(c, tool)
  <2>1. PICK rows \in Seq(SmoothRows(tool)) : append_audit(c, rows)
    BY <1>3 DEF GoesOn
  <2> QED BY <1>1, <1>3, <2>1, QuietRecord DEF GoesOn
<1> QED BY <1>2, <1>3, SameRecord DEF Errs

LEMMA EscalatesRecord ==
    ASSUME TypeOK, NEW c \in Cases, Escalates(c)
    PROVE  /\ EscalatedOnTrail(c)' /\ cases'[c].status = "escalated"
           /\ cases'[c].completed = cases[c].completed
<1>1. EscalatedOnTrail(c)'
  <2>1. /\ audit_log'[c] = Append(audit_log[c], EscalatedRow)
        /\ audit_log[c] \in Seq(AuditRows) /\ EscalatedRow \in AuditRows
    <3>1. audit_log'[c] = audit_log[c] \o <<EscalatedRow>>
      BY DEF Escalates, append_audit, TypeOK
    <3> QED BY <3>1, RowTypes, TrailTypes, AppendIsConcat
  <2>2. Len(audit_log[c]) + 1 \in DOMAIN audit_log'[c]
        /\ audit_log'[c][Len(audit_log[c]) + 1] = EscalatedRow
    BY <2>1, AppendProperties
  <2> QED BY <2>2 DEF EscalatedOnTrail, EscalatedRow
<1> QED BY <1>1 DEF Escalates, TypeOK, CaseRows

EscalationStays(c) == cases[c].status = "escalated" => cases'[c].status = "escalated"

LEMMA RecordIsKept ==
    ASSUME AgentTypeOK, NEW c \in Cases, LoopOK(c), RecordOK(c), AgentStep(c)
    PROVE  RecordOK(c)' /\ EscalationStays(c)
<1>0. LoopTypes /\ TypeOK
  BY DEF AgentTypeOK, LoopTypes
<1>1. CASE ReceiveCase(c)
  <2>1. /\ pc[c] = "absent" /\ pc'[c] = "received" /\ UNCHANGED audit_log
        /\ cases[c].status = "absent" /\ cases'[c].status = "received"
        /\ cases'[c].completed = cases[c].completed
    BY <1>0, <1>1 DEF ReceiveCase, OpenCase, At, Goto, LoopTypes, TypeOK, CaseRows
  <2> QED BY <2>1 DEF RecordOK, EscalatedOnTrail, EscalationStays
<1>2. ASSUME NEW m \in Messages, StartCase(c, m)
      PROVE  RecordOK(c)' /\ EscalationStays(c)
  <2>1. CaseRecordStays(c)
    BY <1>0, <1>2, LoopRowRecord DEF StartCase, LoopRows
  <2>2. pc[c] = "received" /\ pc'[c] = "planning"
    BY <1>0, <1>2 DEF StartCase, At, Goto, LoopTypes
  <2> QED BY <2>1, <2>2 DEF CaseRecordStays, RecordOK, EscalationStays
<1>3. ASSUME NEW id \in ModelIds, NEW a \in Proposals, PlanStep(c, id, a)
      PROVE  RecordOK(c)' /\ EscalationStays(c)
  <2>1. CaseRecordStays(c)
    BY <1>3, SameRecord DEF PlanStep, vars
  <2>2. pc[c] = "planning" /\ pc'[c] = "deciding"
    BY <1>0, <1>3 DEF PlanStep, ModelCall, At, Goto, LoopTypes
  <2> QED BY <2>1, <2>2 DEF CaseRecordStays, RecordOK, EscalationStays
<1>4. ASSUME pc[c] \in {"planning", "deciding"}, CaseRecordStays(c),
             NEW reason \in Reasons \ {"finished", "planner_escalated"}, StopWith(c, reason)
      PROVE  RecordOK(c)' /\ EscalationStays(c)
  <2>1. pc'[c] = "escalating" /\ result'[c].reason = reason
    BY <1>0, <1>4 DEF StopWith, Result, Goto, LoopTypes
  <2> QED BY <1>4, <2>1 DEF CaseRecordStays, RecordOK, EscalationStays
<1>5. CASE \/ \E id \in ModelIds : RejectModel(c, id)
           \/ RefuseAction(c) \/ ExceedBudget(c)
  <2>1. pc[c] \in {"planning", "deciding"}
    BY <1>5 DEF RejectModel, RefuseAction, ExceedBudget, ModelCall, At
  <2>2. CaseRecordStays(c)
    BY <1>0, <1>5, LoopRowRecord, SameRecord DEF RejectModel, RefuseAction, ExceedBudget, LoopRows, vars
  <2>3. \E reason \in Reasons \ {"finished", "planner_escalated"} : StopWith(c, reason)
    BY <1>5 DEF RejectModel, RefuseAction, ExceedBudget, Reasons
  <2> QED BY <1>4, <2>1, <2>2, <2>3
<1>6. CASE Finish(c)
  <2>1. CaseRecordStays(c)
    BY <1>6, SameRecord DEF Finish, vars
  <2>2. pc[c] = "deciding" /\ pc'[c] = "completing" /\ result'[c] = Result("resolved", "finished")
    BY <1>0, <1>6 DEF Finish, At, Goto, LoopTypes
  <2> QED BY <2>1, <2>2 DEF CaseRecordStays, RecordOK, EscalationStays, Result, LastUpdateReasons
<1>7. CASE CallTool(c)
  <2>1. Begins(c, proposed[c])
    BY <1>0, <1>7, CallBegins, ApprovedAreTools DEF CallTool
  <2>2. pc[c] = "deciding" /\ pc'[c] = "acting" /\ proposed' = proposed
    BY <1>0, <1>7 DEF CallTool, At, Goto, LoopTypes
  <2>3. CASE Escalates(c) /\ proposed[c] = "escalate_to_human"
    BY <1>0, <2>2, <2>3, EscalatesRecord DEF RecordOK, EscalationStays
  <2>4. CASE \/ Errs(c)
             \/ /\ Refuses(c, proposed[c]) \/ GoesOn(c, proposed[c])
                /\ proposed[c] # "escalate_to_human"
    <3>1. CaseRecordStays(c)
      BY <1>0, <2>4, CallRecord
    <3>2. proposed[c] # "escalate_to_human" \/ call'[c] = Idle("error")
      BY <2>4 DEF Errs
    <3> QED BY <2>2, <3>1, <3>2 DEF CaseRecordStays, RecordOK, EscalationStays
  <2> QED BY <2>1, <2>3, <2>4 DEF Begins
<1>8. CASE ToolStep(c)
  <2>1. call[c].pc \in {"resolving", "freezing", "logging"}
    BY <1>8 DEF ToolStep, ContinueCall, resolve_dispute_update, freeze_account_update, LogCall, Continue
  <2>2. CaseRecordStays(c)
    <3>1. \E tool \in TOOLS : call[c] \in Underway(tool)
      BY <2>1, ApprovedAreTools, NotEscalations DEF LoopOK, Idle
    <3> QED BY <1>0, <1>8, <3>1, CallGoesOn, CallRecord DEF ToolStep
  <2>3. pc' = pc /\ proposed' = proposed /\ result' = result
    BY <1>8 DEF ToolStep, agentVars
  <2>4. call[c] \notin {Idle("denied"), Idle("error")}
    BY <2>1 DEF Idle
  <2> QED BY <2>2, <2>3, <2>4 DEF CaseRecordStays, RecordOK, EscalationStays
<1>9. CASE ToolReturns(c)
  <2>1. CaseRecordStays(c)
    BY <1>9, SameRecord DEF ToolReturns, vars
  <2>2. pc[c] = "acting" /\ call[c] \in {Idle("ok"), Idle("denied"), Idle("error")}
    BY <1>9 DEF ToolReturns, At, LoopOK, Underway
  <2>3. CASE AfterRefusal(c)
    <3>1. pc'[c] = "escalating" /\ result'[c].reason \in {"tool_denied", "tool_error"}
      BY <1>0, <2>3 DEF AfterRefusal, StopWith, Result, Goto, LoopTypes
    <3> QED BY <2>1, <2>2, <3>1 DEF CaseRecordStays, RecordOK, EscalationStays
  <2>4. CASE AfterSuccess(c)
    <3>1. call[c] \notin {Idle("denied"), Idle("error")}
      BY <2>4 DEF AfterSuccess, Idle
    <3>2. CASE proposed[c] = "escalate_to_human"
      <4>1. pc'[c] = "completing" /\ result'[c] = Result("escalated", "planner_escalated")
        BY <1>0, <2>4, <3>2 DEF AfterSuccess, Goto, LoopTypes
      <4> QED BY <2>1, <2>2, <3>1, <3>2, <4>1
              DEF CaseRecordStays, RecordOK, EscalationStays, Result, LastUpdateReasons
    <3>3. CASE proposed[c] # "escalate_to_human"
      <4>1. pc'[c] = "planning"
        BY <1>0, <2>4, <3>3 DEF AfterSuccess, Goto, LoopTypes
      <4> QED BY <2>1, <2>2, <3>3, <4>1 DEF CaseRecordStays, RecordOK, EscalationStays
    <3> QED BY <3>2, <3>3
  <2> QED BY <1>9, <2>3, <2>4 DEF ToolReturns
<1>10. CASE Escalate(c)
  <2>1. Escalates(c)
    BY <1>0, <1>10, Becomes DEF Escalate, escalate_to_human, Committed, Escalates
  <2>2. pc[c] = "escalating" /\ pc'[c] = "escalated" /\ result' = result
    BY <1>0, <1>10 DEF Escalate, At, Goto, LoopTypes
  <2> QED BY <1>0, <2>1, <2>2, EscalatesRecord DEF RecordOK, EscalationStays
<1>11. CASE EscalateReturns(c)
  <2>1. pc[c] = "escalated" /\ result' = result /\ result[c].status = "escalated"
        /\ result[c].reason \notin {"finished", "planner_escalated"}
    BY <1>11 DEF EscalateReturns, At, LoopOK, RecordOK
  <2>2. CaseRecordStays(c)
    BY <1>11, SameRecord DEF EscalateReturns, SessionEnds, db, vars
  <2>3. CASE result[c].reason = "step_budget_exceeded"
    <3>1. pc'[c] = "completing"
      BY <1>0, <1>11, <2>3 DEF EscalateReturns, Goto, LoopTypes
    <3> QED BY <2>1, <2>2, <2>3, <3>1 DEF CaseRecordStays, RecordOK, EscalationStays, LastUpdateReasons
  <2>4. CASE result[c].reason # "step_budget_exceeded"
    <3>1. pc'[c] = "answered"
      BY <1>0, <1>11, <2>4 DEF EscalateReturns, Goto, LoopTypes
    <3> QED BY <2>1, <2>2, <2>4, <3>1 DEF CaseRecordStays, RecordOK, EscalationStays, LastUpdateReasons
  <2> QED BY <2>3, <2>4
<1>12. CASE Complete(c)
  <2>1. /\ pc[c] = "completing" /\ pc'[c] = "answered" /\ result' = result
        /\ cases'[c] = [status |-> result[c].status, completed |-> TRUE] /\ UNCHANGED audit_log
    BY <1>0, <1>12 DEF Complete, CompleteCase, At, Goto, LoopTypes, TypeOK
  <2>2. result[c].status # "absent"
    BY DEF AgentTypeOK
  <2> QED BY <2>1, <2>2 DEF RecordOK, EscalatedOnTrail, EscalationStays
<1>13. CASE ToolLocked(c)
  <2>1. CaseRecordStays(c)
    BY <1>13, SameRecord DEF ToolLocked, DatabaseLocked, Raised, db
  <2>2. pc[c] \in {"acting", "deciding"} /\ pc'[c] = "acting" /\ proposed' = proposed
    BY <1>0, <1>13 DEF ToolLocked, At, Goto, LoopTypes
  <2>3. call'[c] = Idle("error")
    BY <1>0, <1>13, Becomes DEF ToolLocked, DatabaseLocked, Raised
  <2> QED BY <2>1, <2>2, <2>3 DEF CaseRecordStays, RecordOK, EscalationStays
<1>14. CASE CaseFails(c)
  <2>1. CaseRecordStays(c) /\ pc'[c] = "failed" /\ pc[c] \notin {"absent", "answered"}
    BY <1>0, <1>14, SameRecord DEF CaseFails, SessionEnds, db, Goto, LoopTypes
  <2> QED BY <2>1 DEF CaseRecordStays, RecordOK, EscalationStays
<1> QED BY <1>1, <1>2, <1>3, <1>5, <1>6, <1>7, <1>8, <1>9, <1>10, <1>11, <1>12, <1>13, <1>14
        DEF AgentStep, HandleCase

RecordInv == \A c \in Cases : RecordOK(c)

LEMMA RecordIsInvariant ==
    AgentTypeOK /\ LoopInv /\ RecordInv /\ [AgentNext]_allVars =>
        RecordInv' /\ \A c \in Cases : EscalationStays(c)
<1> SUFFICES ASSUME AgentTypeOK, LoopInv, RecordInv, [AgentNext]_allVars,
                    NEW e \in Cases
             PROVE  RecordOK(e)' /\ EscalationStays(e)
  BY DEF RecordInv
<1>1. ASSUME NEW c \in Cases, AgentStep(c)
      PROVE  RecordOK(e)' /\ EscalationStays(e)
  <2>1. CASE e = c
    <3>1. LoopOK(c) /\ RecordOK(c)
      BY DEF LoopInv, RecordInv
    <3>2. RecordOK(c)' /\ EscalationStays(c)
      BY <1>1, <3>1, RecordIsKept
    <3> QED BY <2>1, <3>2
  <2>2. CASE e # c
    BY <1>1, <2>2, OthersStay DEF RecordInv, RecordOK, EscalatedOnTrail, EscalationStays
  <2> QED BY <2>1, <2>2
<1>2. CASE UNCHANGED allVars
  <2>1. RecordOK(e)
    BY DEF RecordInv
  <2> QED BY <1>2, <2>1 DEF allVars, vars, agentVars, RecordOK, EscalatedOnTrail, EscalationStays
<1> QED BY <1>1, <1>2 DEF AgentNext, AgentStep

LEMMA RecordStarts == AgentInit => RecordInv
BY DEF AgentInit, Init, RecordInv, RecordOK, EscalatedOnTrail

(* The client is told what the database says.                              *)
THEOREM AnswersMatchRecords == AgentSpec => []AnswerMatchesRecord
<1>1. AgentTypeOK /\ RecordInv => AnswerMatchesRecord
  <2> SUFFICES ASSUME AgentTypeOK, RecordInv, NEW c \in Cases
               PROVE  /\ pc[c] = "answered" =>
                             /\ cases[c].status = result[c].status
                             /\ result[c].status = "escalated" <=> EscalatedOnTrail(c)
                             /\ cases[c].completed <=> result[c].reason \in LastUpdateReasons
                      /\ pc[c] = "failed" =>
                             /\ cases[c].status = IF EscalatedOnTrail(c) THEN "escalated" ELSE "received"
                             /\ ~cases[c].completed
    BY DEF AnswerMatchesRecord, EscalatedOnTrail, LastUpdateReasons
  <2>1. RecordOK(c)
    BY DEF RecordInv
  <2>2. cases[c].status \in {"absent", "received", "resolved", "escalated"}
    BY DEF AgentTypeOK, TypeOK, CaseRows
  <2> QED BY <2>1, <2>2 DEF RecordOK
<1> QED BY <1>1, RecordStarts, RecordIsInvariant, AgentInitInv, AgentStepInv, PTL DEF AgentSpec

(* No step of any case turns an escalated case back.                       *)
THEOREM EscalationsAreFinal == AgentSpec => EscalationIsFinal
<1>1. (\A c \in Cases : EscalationStays(c)) =>
          [\A c \in Cases : cases[c].status = "escalated" => cases'[c].status = "escalated"]_allVars
  BY DEF EscalationStays
<1> QED BY <1>1, RecordStarts, RecordIsInvariant, AgentInitInv, AgentStepInv, PTL
        DEF AgentSpec, EscalationIsFinal

-----------------------------------------------------------------------------
(* Failing closed *)

Closing == {"escalating", "escalated", "completing", "answered", "failed"}

RefusedOnTrail(c) == \E i \in DOMAIN audit_log[c] : IsRefusal(audit_log[c][i])

OnlyEscalationFollows(c) ==
    \A i, j \in DOMAIN audit_log[c] :
        IsRefusal(audit_log[c][i]) /\ j > i => IsRefusal(audit_log[c][j]) \/ IsEscalation(audit_log[c][j])

(* After a refusal the loop has its denied answer in hand, or has stopped; *)
(* a step that was not ok is the last one.                                 *)
FailOK(c) ==
    /\ OnlyEscalationFollows(c)
    /\ RefusedOnTrail(c) => \/ pc[c] = "acting" /\ call[c] = Idle("denied")
                            \/ pc[c] \in Closing /\ result[c].status # "resolved"
    /\ \A n \in DOMAIN history[c] :
           history[c][n].outcome # "ok" =>
               n = Len(history[c]) /\ pc[c] \in Closing /\ result[c].status = "escalated"

(* Once it stops, the loop keeps its result.                               *)
LEMMA ClosingStays ==
    ASSUME AgentTypeOK, NEW c \in Cases, AgentStep(c), pc[c] \in Closing
    PROVE  pc'[c] \in Closing /\ result' = result /\ history' = history
<1>0. LoopTypes
  BY DEF AgentTypeOK, LoopTypes
<1>1. CASE ToolStep(c)
  BY <1>1 DEF ToolStep, agentVars
<1>2. CASE Escalate(c) \/ EscalateReturns(c) \/ Complete(c) \/ CaseFails(c)
  BY <1>0, <1>2 DEF Escalate, EscalateReturns, Complete, CaseFails, Goto, LoopTypes, Closing
<1> QED BY <1>1, <1>2 DEF AgentStep, HandleCase, ReceiveCase, StartCase, PlanStep, RejectModel, ModelCall,
           RefuseAction, Finish, CallTool, ToolReturns, ExceedBudget, ToolLocked, At, Closing

LEMMA ClosingRows ==
    ASSUME TypeOK, NEW c \in Cases, OnlyEscalationFollows(c), NEW R \in SUBSET AuditRows,
           NEW rows \in Seq(R), append_audit(c, rows),
           \A row \in R : IsRefusal(row) \/ IsEscalation(row)
    PROVE  OnlyEscalationFollows(c)'
<1> SUFFICES ASSUME NEW i \in DOMAIN audit_log'[c], NEW j \in DOMAIN audit_log'[c],
                    IsRefusal(audit_log'[c][i]), j > i
             PROVE  IsRefusal(audit_log'[c][j]) \/ IsEscalation(audit_log'[c][j])
  BY DEF OnlyEscalationFollows
<1>1. CASE audit_log'[c][j] \in R
  BY <1>1
<1>2. CASE audit_log'[c][j] \notin R
  <2>1. j \in DOMAIN audit_log[c] /\ audit_log'[c][j] = audit_log[c][j]
    BY <1>2, TrailGrows
  <2>2. i \in DOMAIN audit_log[c] /\ audit_log'[c][i] = audit_log[c][i]
    <3>1. DOMAIN audit_log[c] = 1 .. Len(audit_log[c]) /\ Len(audit_log[c]) \in Nat
      BY TrailTypes
    <3>2. DOMAIN audit_log'[c] \subseteq Int
      BY LenProperties, TrailGrows, TrailTypes, Appended, ElementOfSeq
    <3>3. i \in DOMAIN audit_log[c] \/ i > Len(audit_log[c])
      BY TrailGrows
    <3>4. i \in DOMAIN audit_log[c]
      BY <2>1, <3>1, <3>2, <3>3
    <3> QED BY <3>4, TrailGrows
  <2> QED BY <2>1, <2>2 DEF OnlyEscalationFollows
<1> QED BY <1>1, <1>2

LEMMA SmoothTrail ==
    ASSUME TypeOK, NEW c \in Cases, ~RefusedOnTrail(c), NEW R \in SUBSET AuditRows,
           NEW rows \in Seq(R), append_audit(c, rows), \A row \in R : ~IsRefusal(row)
    PROVE  ~RefusedOnTrail(c)' /\ OnlyEscalationFollows(c)'
BY TrailGrows DEF RefusedOnTrail, OnlyEscalationFollows

(* A step that was not ok is recorded as the loop stops.                   *)
LEMMA LastEntry ==
    ASSUME AgentTypeOK, NEW c \in Cases, LoopOK(c), FailOK(c), AgentStep(c)
    PROVE  \A n \in DOMAIN history'[c] :
               history'[c][n].outcome # "ok" =>
                   n = Len(history'[c]) /\ pc'[c] \in Closing /\ result'[c].status = "escalated"
<1>0. LoopTypes
  BY DEF AgentTypeOK, LoopTypes
<1>1. CASE pc[c] \in Closing
  BY <1>1, ClosingStays DEF FailOK
<1>2. CASE ToolReturns(c)
  <2>1. pc[c] \notin Closing /\ call[c].pc = "idle" /\ pc[c] = "acting"
    BY <1>2 DEF ToolReturns, At, Closing
  <2>2. \A n \in DOMAIN history[c] : history[c][n].outcome = "ok"
    BY <2>1 DEF FailOK
  <2> DEFINE entry == HistoryEntry(proposed[c], call[c].outcome)
  <2>3. history'[c] = Append(history[c], entry)
    BY <1>0, <1>2 DEF ToolReturns, RecordStep, LoopTypes
  <2>4. /\ Len(history'[c]) = Len(history[c]) + 1
        /\ \A n \in DOMAIN history'[c] : \/ n \in DOMAIN history[c] /\ history'[c][n] = history[c][n]
                                         \/ n = Len(history[c]) + 1 /\ history'[c][n] = entry
    BY <1>0, <2>1, <2>3, ReturnedEntry, AppendProperties DEF LoopTypes
  <2>5. entry.outcome = call[c].outcome
    BY DEF HistoryEntry
  <2>6. CASE AfterRefusal(c)
    <3>1. pc'[c] = "escalating" /\ result'[c].status = "escalated"
      BY <1>0, <2>6 DEF AfterRefusal, StopWith, Result, Goto, LoopTypes
    <3> QED BY <2>2, <2>4, <3>1 DEF Closing
  <2>7. CASE AfterSuccess(c)
    BY <2>2, <2>4, <2>5, <2>7 DEF AfterSuccess
  <2> QED BY <1>2, <2>6, <2>7 DEF ToolReturns
<1>3. CASE pc[c] \notin Closing /\ ~ToolReturns(c)
  <2>1. \A n \in DOMAIN history[c] : history[c][n].outcome = "ok"
    BY <1>3 DEF FailOK
  <2>2. history' = history
    BY <1>3 DEF AgentStep, HandleCase, ReceiveCase, StartCase, PlanStep, RejectModel, RefuseAction, Finish,
                CallTool, ToolStep, agentVars, ExceedBudget, Escalate, EscalateReturns, Complete,
                ToolLocked, CaseFails
  <2> QED BY <2>1, <2>2
<1> QED BY <1>1, <1>2, <1>3

(* The loop answers a denied call with its escalation, or fails.           *)
LEMMA DeniedStops ==
    ASSUME AgentTypeOK, NEW c \in Cases, LoopOK(c), AgentStep(c),
           pc[c] = "acting", call[c] = Idle("denied")
    PROVE  pc'[c] \in Closing /\ result'[c].status # "resolved" /\ UNCHANGED audit_log
<1>0. LoopTypes
  BY DEF AgentTypeOK, LoopTypes
<1>1. CASE ToolReturns(c)
  <2>1. AfterRefusal(c)
    BY <1>1 DEF ToolReturns, AfterSuccess, Idle
  <2>2. pc'[c] = "escalating" /\ result'[c].status = "escalated"
    BY <1>0, <2>1 DEF AfterRefusal, StopWith, Result, Goto, LoopTypes
  <2> QED BY <1>1, <2>2 DEF ToolReturns, vars, Closing
<1>2. CASE CaseFails(c)
  <2>1. pc'[c] = "failed" /\ result' = result /\ UNCHANGED audit_log
    BY <1>0, <1>2 DEF CaseFails, SessionEnds, Goto, LoopTypes
  <2> QED BY <2>1 DEF LoopOK, Closing
<1>3. ~ToolStep(c) /\ ~ToolLocked(c)
  BY DEF ToolStep, ToolLocked, ContinueCall, resolve_dispute_update, freeze_account_update, LogCall,
         Continue, Idle, At
<1> QED BY <1>1, <1>2, <1>3 DEF AgentStep, HandleCase, ReceiveCase, StartCase, PlanStep, RejectModel, ModelCall,
           RefuseAction, Finish, CallTool, ExceedBudget, Escalate, EscalateReturns, Complete, At

LEMMA FailStep ==
    ASSUME AgentTypeOK, NEW c \in Cases, LoopOK(c), FailOK(c), AgentStep(c)
    PROVE  FailOK(c)'
<1> DEFINE Appends(R) == \E rows \in Seq(R) : append_audit(c, rows)
<1>0. TypeOK
  BY DEF AgentTypeOK
<1>1. CASE UNCHANGED audit_log
  <2>1. (RefusedOnTrail(c)' <=> RefusedOnTrail(c)) /\ OnlyEscalationFollows(c)'
    BY <1>1 DEF FailOK, RefusedOnTrail, OnlyEscalationFollows
  <2>2. CASE pc[c] \in Closing
    BY <2>1, <2>2, ClosingStays, LastEntry DEF FailOK, Closing
  <2>3. CASE pc[c] = "acting" /\ call[c] = Idle("denied")
    BY <2>1, <2>3, DeniedStops, LastEntry DEF FailOK
  <2>4. CASE ~RefusedOnTrail(c)
    BY <2>1, <2>4, LastEntry DEF FailOK
  <2> QED BY <2>2, <2>3, <2>4 DEF FailOK
<1>2. ASSUME ~RefusedOnTrail(c), NEW R \in SUBSET AuditRows, Appends(R), \A row \in R : ~IsRefusal(row)
      PROVE  FailOK(c)'
  <2>1. PICK rows \in Seq(R) : append_audit(c, rows)
    BY <1>2
  <2>2. ~RefusedOnTrail(c)' /\ OnlyEscalationFollows(c)'
    BY <1>0, <1>2, <2>1, SmoothTrail
  <2> QED BY <2>2, LastEntry DEF FailOK
<1>3. ASSUME NEW R \in SUBSET AuditRows, Appends(R), \A row \in R : IsRefusal(row) \/ IsEscalation(row),
             \/ pc'[c] = "acting" /\ call'[c] = Idle("denied")
             \/ pc'[c] \in Closing /\ result'[c].status # "resolved"
      PROVE  FailOK(c)'
  <2>1. PICK rows \in Seq(R) : append_audit(c, rows)
    BY <1>3
  <2>2. OnlyEscalationFollows(c)'
    BY <1>0, <1>3, <2>1, ClosingRows DEF FailOK
  <2>3. Idle("denied")' = Idle("denied")
    BY DEF Idle
  <2> QED BY <1>3, <2>2, <2>3, LastEntry DEF FailOK
<1>4. ASSUME NEW tool
      PROVE  /\ RefusalRows(tool) \in SUBSET AuditRows /\ SmoothRows(tool) \in SUBSET AuditRows
             /\ \A row \in RefusalRows(tool) : IsRefusal(row)
             /\ \A row \in SmoothRows(tool) : ~IsRefusal(row)
             /\ Refuses(c, tool) => Appends(RefusalRows(tool)) /\ call'[c] = Idle("denied")
             /\ GoesOn(c, tool) => Appends(SmoothRows(tool))
  BY DEF RefusalRows, SmoothRows, RowsOf, Refuses, GoesOn
<1>5. /\ {EscalatedRow} \in SUBSET AuditRows /\ ~IsRefusal(EscalatedRow) /\ IsEscalation(EscalatedRow)
      /\ Escalates(c) => Appends({EscalatedRow})
      /\ \A row \in SmoothRows("escalate_to_human") : IsEscalation(row)
  <2>1. EscalatedRow \in AuditRows
    BY RowTypes
  <2> QED BY <2>1, OneRow DEF EscalatedRow, IsRefusal, IsEscalation, Escalates, SmoothRows, RowsOf
<1>6. \A row \in LoopRows : row \in AuditRows /\ (append_audit(c, <<row>>) => Appends({row}))
  BY LoopRowTypes, OneRow
<1> HIDE DEF Appends
<1>7. CASE pc[c] = "received" /\ append_audit(c, <<CaseReceivedRow>>)
  <2>1. ~RefusedOnTrail(c)
    BY <1>7 DEF FailOK, Closing
  <2>2. CaseReceivedRow \in AuditRows /\ Appends({CaseReceivedRow}) /\ ~IsRefusal(CaseReceivedRow)
    BY <1>6, <1>7, LoopRowTypes DEF LoopRows
  <2> QED BY <1>2, <2>1, <2>2
<1>8. ASSUME NEW row \in {ModelRejectedRow, DeniedRow("action_outside_approved_set")},
             append_audit(c, <<row>>), pc'[c] = "escalating"
      PROVE  FailOK(c)'
  <2>1. row \in AuditRows /\ Appends({row}) /\ IsRefusal(row)
    BY <1>6, <1>8, LoopRowTypes DEF LoopRows
  <2>2. pc'[c] \in Closing /\ result'[c].status # "resolved"
    BY <1>8, LoopOKStep DEF LoopOK, Closing
  <2> QED BY <1>3, <2>1, <2>2
<1>9. CASE /\ pc[c] = "deciding" /\ pc'[c] = "acting"
           /\ Refuses(c, proposed[c]) \/ GoesOn(c, proposed[c]) \/ Escalates(c)
  <2>1. ~RefusedOnTrail(c)
    BY <1>9 DEF FailOK, Closing
  <2>2. CASE Refuses(c, proposed[c])
    BY <1>3, <1>4, <1>9, <2>2
  <2>3. CASE GoesOn(c, proposed[c])
    BY <1>2, <1>4, <2>1, <2>3
  <2>4. CASE Escalates(c)
    BY <1>2, <1>5, <2>1, <2>4
  <2> QED BY <1>9, <2>2, <2>3, <2>4
<1>10. CASE pc[c] = "acting" /\ call[c] # Idle("denied") /\ GoesOn(c, proposed[c])
  <2>1. ~RefusedOnTrail(c)
    BY <1>10 DEF FailOK, Closing
  <2> QED BY <1>2, <1>4, <1>10, <2>1
<1>11. CASE pc[c] \in {"escalating", "escalated"} /\ (Escalates(c) \/ GoesOn(c, "escalate_to_human"))
  <2>1. pc'[c] \in Closing /\ result'[c].status # "resolved"
    BY <1>11, ClosingStays DEF LoopOK, Closing
  <2>2. CASE Escalates(c)
    BY <1>3, <1>5, <2>1, <2>2
  <2>3. CASE GoesOn(c, "escalate_to_human")
    BY <1>3, <1>4, <1>5, <2>1, <2>3
  <2> QED BY <1>11, <2>2, <2>3
<1> QED BY <1>1, <1>7, <1>8, <1>9, <1>10, <1>11, TrailStep DEF TrailSteps

(* After a refusal nothing but the escalation happens in a case, and no    *)
(* step follows one that was not ok.                                       *)
THEOREM LoopFailsClosed == AgentSpec => []FailsClosed
<1> DEFINE Inv == \A c \in Cases : FailOK(c)
<1>1. AgentInit => Inv
  BY DEF AgentInit, Init, FailOK, OnlyEscalationFollows, RefusedOnTrail
<1>2. AgentTypeOK /\ LoopInv /\ Inv /\ [AgentNext]_allVars => Inv'
  <2> SUFFICES ASSUME AgentTypeOK, LoopInv, Inv, [AgentNext]_allVars, NEW e \in Cases
               PROVE  FailOK(e)'
    OBVIOUS
  <2>1. ASSUME NEW c \in Cases, AgentStep(c)
        PROVE  FailOK(e)'
    <3>1. CASE e = c
      <4>1. LoopOK(c) /\ FailOK(c)
        BY DEF LoopInv
      <4> QED BY <2>1, <3>1, <4>1, FailStep
    <3>2. CASE e # c
      BY <2>1, <3>2, OthersStay DEF FailOK, OnlyEscalationFollows, RefusedOnTrail
    <3> QED BY <3>1, <3>2
  <2>2. CASE UNCHANGED allVars
    <3>1. FailOK(e)
      OBVIOUS
    <3> QED BY <2>2, <3>1 DEF allVars, vars, agentVars, FailOK, OnlyEscalationFollows, RefusedOnTrail
  <2> QED BY <2>1, <2>2 DEF AgentNext, AgentStep
<1>3. AgentTypeOK /\ LoopInv /\ Inv => FailsClosed
  <2> SUFFICES ASSUME AgentTypeOK, LoopInv, Inv, NEW c \in Cases
               PROVE  /\ \A i \in DOMAIN audit_log[c] :
                             IsRefusal(audit_log[c][i]) =>
                                 /\ result[c].status # "resolved"
                                 /\ \A j \in i + 1 .. Len(audit_log[c]) :
                                        IsRefusal(audit_log[c][j]) \/ IsEscalation(audit_log[c][j])
                      /\ \A n \in DOMAIN history[c] :
                             history[c][n].outcome # "ok" =>
                                 n = Len(history[c]) /\ result[c].status = "escalated"
    BY DEF FailsClosed
  <2>1. DOMAIN audit_log[c] = 1 .. Len(audit_log[c]) /\ Len(audit_log[c]) \in Nat
    BY TrailTypes DEF AgentTypeOK
  <2>2. FailOK(c) /\ LoopOK(c)
    BY DEF LoopInv
  <2> QED BY <2>1, <2>2 DEF FailOK, LoopOK, OnlyEscalationFollows, RefusedOnTrail
<1> QED BY <1>1, <1>2, <1>3, AgentInitInv, AgentStepInv, PTL DEF AgentSpec

-----------------------------------------------------------------------------
(* The steps reported and the calls on record *)

(* A step of a call writes the tool_call row last, and with it returns or  *)
(* is denied, or writes none and does neither.                             *)
QuietRows == {row \in AuditRows : row.event # "tool_call"}

Silent(c) == \E rows \in Seq(QuietRows) : append_audit(c, rows)
Says(c, tool, outcome) ==
    \E rows \in Seq(QuietRows) : append_audit(c, rows \o <<ToolCallRow(tool, outcome)>>)

CallSays(c, tool) ==
    \/ Silent(c) /\ call'[c] \notin {Idle("ok"), Idle("denied")}
    \/ \E o \in {"ok", "denied"} : Says(c, tool, o) /\ call'[c] = Idle(o)

LEMMA QuietRowTypes ==
    /\ \A k \in Customers, v \in BOOLEAN : IdentityRow(k, v) \in QuietRows
    /\ \A t \in MONEY_TOOLS, l \in Loans, n \in Nat, a \in Int : MoneyRow(t, l, n, a) \in QuietRows
    /\ \A d \in Nat, l \in Loans : RaisedRow(d, l) \in QuietRows
    /\ \A d \in Nat, r \in Resolutions : ResolvedRow(d, r) \in QuietRows
    /\ \A l \in Loans, p \in LoanStatuses : FrozenRow(l, p) \in QuietRows
    /\ \A r \in DenialReasons : DeniedRow(r) \in QuietRows
    /\ EscalatedRow \in QuietRows /\ MessageRow \in QuietRows
    /\ CaseReceivedRow \in QuietRows /\ ModelRejectedRow \in QuietRows
<1>1. \A k \in Customers, v \in BOOLEAN : IdentityRow(k, v) \in QuietRows
  BY RowTypes DEF QuietRows, IdentityRow
<1>2. \A t \in MONEY_TOOLS, l \in Loans, n \in Nat, a \in Int : MoneyRow(t, l, n, a) \in QuietRows
  BY RowTypes DEF QuietRows, MoneyRow
<1>3. \A d \in Nat, l \in Loans : RaisedRow(d, l) \in QuietRows
  BY RowTypes DEF QuietRows, RaisedRow
<1>4. \A d \in Nat, r \in Resolutions : ResolvedRow(d, r) \in QuietRows
  BY RowTypes DEF QuietRows, ResolvedRow
<1>5. \A l \in Loans, p \in LoanStatuses : FrozenRow(l, p) \in QuietRows
  BY RowTypes DEF QuietRows, FrozenRow
<1>6. \A r \in DenialReasons : DeniedRow(r) \in QuietRows
  BY RowTypes DEF QuietRows, DeniedRow
<1>7. EscalatedRow \in QuietRows /\ MessageRow \in QuietRows
  BY RowTypes DEF QuietRows, EscalatedRow, MessageRow
<1>8. CaseReceivedRow \in QuietRows /\ ModelRejectedRow \in QuietRows
  BY LoopRowTypes DEF LoopRows, QuietRows, CaseReceivedRow, ModelRejectedRow
<1> QED BY <1>1, <1>2, <1>3, <1>4, <1>5, <1>6, <1>7, <1>8

LEMMA IdleApart ==
    /\ \A t : Logging(t) \notin {Idle("ok"), Idle("denied")}
    /\ \A d, r : Resolving(d, r) \notin {Idle("ok"), Idle("denied")}
    /\ \A l, p : Freezing(l, p) \notin {Idle("ok"), Idle("denied")}
    /\ Idle("error") \notin {Idle("ok"), Idle("denied")}
BY DEF Logging, Resolving, Freezing, Idle

LEMMA DeniedSays ==
    ASSUME TypeOK, NEW c \in Cases, NEW tool, NEW rows \in Seq(QuietRows), Denied(c, tool, rows)
    PROVE  CallSays(c, tool)
BY Becomes DEF Denied, Says, CallSays

LEMMA LoggedSays ==
    ASSUME TypeOK, NEW c \in Cases, NEW tool, NEW rows \in Seq(QuietRows), Logged(c, tool, rows)
    PROVE  CallSays(c, tool)
BY Becomes DEF Logged, Says, CallSays

LEMMA SilentBecomes ==
    ASSUME TypeOK, NEW c \in Cases, NEW x, Become(c, x), UNCHANGED audit_log, x \notin {Idle("ok"), Idle("denied")}
    PROVE  Silent(c) /\ call'[c] = x
<1>1. <<>> \in Seq(QuietRows) /\ append_audit(c, <<>>)
  BY ConcatEmptySeq DEF append_audit, TypeOK
<1> QED BY <1>1, Becomes DEF Silent

LEMMA RaisedSays ==
    ASSUME TypeOK, NEW c \in Cases, Raised(c)
    PROVE  Silent(c) /\ call'[c] = Idle("error")
BY SilentBecomes, IdleApart DEF Raised

LEMMA CommittedSays ==
    ASSUME TypeOK, NEW c \in Cases, NEW t, NEW row \in QuietRows, Committed(c, t, row), NEW tool
    PROVE  CallSays(c, tool)
<1>1. <<row>> \in Seq(QuietRows)
  OBVIOUS
<1>2. call'[c] = Logging(t)
  BY Becomes DEF Committed
<1> QED BY <1>1, <1>2, IdleApart DEF Committed, Silent, CallSays

LEMMA MoneySays ==
    ASSUME TypeOK, NEW c \in Cases, NEW l \in Loans, NEW a \in Amounts, NEW tool,
           \/ tool = "post_payment" /\ post_payment(c, l, a)
           \/ tool = "issue_refund" /\ issue_refund(c, l, a)
           \/ tool = "apply_fee" /\ apply_fee(c, l, a)
    PROVE  CallSays(c, tool)
<1>1. a \in Int /\ -a \in Int
  BY AmountsAssumption
<1>2. tool \in MONEY_TOOLS
  BY DEF MONEY_TOOLS
<1>3. CASE Raised(c)
  BY <1>3, RaisedSays, IdleApart DEF CallSays
<1>4. ASSUME NEW type \in {"payment", "refund", "fee"}, NEW x \in Int, MoveMoney(c, tool, l, type, x)
      PROVE  CallSays(c, tool)
  <2> DEFINE move == [loan |-> l, case |-> c, type |-> type, amount |-> x]
  <2>1. move \in Transactions
    BY DEF Transactions
  <2>2. Len(transactions') \in Nat
    BY <1>4, <2>1, AppendProperties DEF MoveMoney, TypeOK
  <2>3. MoneyRow(tool, l, Len(transactions'), x) \in QuietRows
    BY <1>2, <2>2, QuietRowTypes
  <2> QED BY <1>4, <2>3, CommittedSays DEF MoveMoney
<1>5. ASSUME NEW r \in DenialReasons, Denied(c, tool, <<DeniedRow(r)>>)
      PROVE  CallSays(c, tool)
  <2>1. <<DeniedRow(r)>> \in Seq(QuietRows)
    BY QuietRowTypes
  <2> QED BY <1>5, <2>1, DeniedSays
<1> QED BY <1>1, <1>3, <1>4, <1>5 DEF post_payment, issue_refund, apply_fee, DenialReasons

LEMMA DisputeSays ==
    ASSUME TypeOK, NEW c \in Cases, NEW l \in Loans, NEW tool,
           \/ \E k \in AnyCustomer : tool = "raise_dispute" /\ raise_dispute(c, l, k)
           \/ \E d \in 1 .. Len(disputes) + 1, r \in Resolutions \cup {"other"} :
                  tool = "resolve_dispute" /\ resolve_dispute_check(c, l, d, r)
    PROVE  CallSays(c, tool)
<1>1. CASE Raised(c)
  BY <1>1, RaisedSays, IdleApart DEF CallSays
<1>2. ASSUME NEW k \in AnyCustomer, raise_dispute(c, l, k), tool = "raise_dispute"
      PROVE  CallSays(c, tool)
  <2> DEFINE d == [loan |-> l, customer |-> k, case |-> c, status |-> "open"]
  <2>1. CASE /\ k \in Customers
             /\ disputes' = Append(disputes, d)
             /\ Committed(c, "raise_dispute", RaisedRow(Len(disputes'), l))
    <3>1. d \in Disputes
      BY <2>1 DEF Disputes
    <3>2. Len(disputes') \in Nat
      BY <2>1, <3>1, AppendProperties DEF TypeOK
    <3>3. RaisedRow(Len(disputes'), l) \in QuietRows
      BY <3>2, QuietRowTypes
    <3> QED BY <2>1, <3>3, CommittedSays
  <2> QED BY <1>1, <1>2, <2>1 DEF raise_dispute
<1>3. ASSUME NEW d, NEW r, tool = "resolve_dispute", resolve_dispute_check(c, l, d, r)
      PROVE  CallSays(c, tool)
  <2>1. CASE Denied(c, "resolve_dispute", <<>>)
    <3>1. <<>> \in Seq(QuietRows)
      OBVIOUS
    <3> QED BY <1>3, <2>1, <3>1, DeniedSays
  <2>2. CASE Become(c, Resolving(d, r)) /\ UNCHANGED <<db, audit_log>>
    BY <2>2, SilentBecomes, IdleApart DEF CallSays
  <2> QED BY <1>1, <1>3, <2>1, <2>2 DEF resolve_dispute_check
<1> QED BY <1>2, <1>3

LEMMA BeginSays ==
    ASSUME TypeOK, NEW c \in Cases, NEW tool \in TOOLS, BeginCall(c, tool)
    PROVE  CallSays(c, tool)
<1>1. ASSUME NEW k, NEW p \in BOOLEAN, NEW q \in BOOLEAN, verify_identity(c, k, p, q)
      PROVE  CallSays(c, tool)
  <2> DEFINE v == p /\ q
  <2>1. CASE Raised(c)
    BY <2>1, RaisedSays, IdleApart DEF CallSays
  <2>2. CASE k \in Customers /\ Committed(c, "verify_identity", IdentityRow(k, v))
    <3>1. v \in BOOLEAN
      OBVIOUS
    <3> HIDE DEF v
    <3>2. IdentityRow(k, v) \in QuietRows
      BY <2>2, <3>1, QuietRowTypes
    <3> QED BY <2>2, <3>2, CommittedSays
  <2> QED BY <1>1, <2>1, <2>2 DEF verify_identity
<1>2. ASSUME NEW l \in AnyLoan, require_identity_verified(c, tool, l)
      PROVE  CallSays(c, tool)
  <2>1. (IF l \in Loans THEN <<DeniedRow("identity_not_verified")>> ELSE <<>>) \in Seq(QuietRows)
    BY QuietRowTypes DEF DenialReasons
  <2> QED BY <1>2, <2>1, DeniedSays DEF require_identity_verified
<1>3. ASSUME NEW l \in AnyLoan, freeze_account_read(c, l)
      PROVE  CallSays(c, tool)
  <2>1. CASE Raised(c)
    BY <2>1, RaisedSays, IdleApart DEF CallSays
  <2>2. CASE Become(c, Freezing(l, loans[l])) /\ UNCHANGED <<db, audit_log>>
    BY <2>2, SilentBecomes, IdleApart DEF CallSays
  <2> QED BY <1>3, <2>1, <2>2 DEF freeze_account_read
<1>4. ASSUME escalate_to_human(c)
      PROVE  CallSays(c, tool)
  BY <1>4, QuietRowTypes, CommittedSays DEF escalate_to_human
<1>5. ASSUME tool = "send_customer_message", send_customer_message(c)
      PROVE  CallSays(c, tool)
  <2>1. <<MessageRow>> \in Seq(QuietRows)
    BY QuietRowTypes
  <2> QED BY <1>5, <2>1, LoggedSays DEF send_customer_message
<1>6. ASSUME NEW known \in BOOLEAN, read_tool(c, tool, known)
      PROVE  CallSays(c, tool)
  <2>1. <<>> \in Seq(QuietRows)
    OBVIOUS
  <2> QED BY <1>6, <2>1, LoggedSays, RaisedSays, IdleApart DEF read_tool, CallSays
<1>7. ASSUME bad_arguments(c, tool)
      PROVE  CallSays(c, tool)
  BY <1>7, RaisedSays, IdleApart DEF bad_arguments, CallSays
<1> QED BY <1>1, <1>2, <1>3, <1>4, <1>5, <1>6, <1>7, MoneySays, DisputeSays DEF BeginCall

LEMMA ContinueSays ==
    ASSUME TypeOK, NEW c \in Cases, NEW tool \in TOOLS, call[c] \in Underway(tool), ContinueCall(c)
    PROVE  CallSays(c, tool)
<1>1. CASE resolve_dispute_update(c)
  <2>1. call[c].dispute \in Nat /\ call[c].resolution \in Resolutions
    BY <1>1, CallFields DEF resolve_dispute_update, Continue, TypeOK
  <2>2. ResolvedRow(call[c].dispute, call[c].resolution) \in QuietRows
    BY <2>1, QuietRowTypes
  <2> QED BY <1>1, <2>2, CommittedSays DEF resolve_dispute_update
<1>2. CASE freeze_account_update(c)
  <2>1. call[c].loan \in Loans /\ call[c].prior \in LoanStatuses
    BY <1>2, CallFields DEF freeze_account_update, Continue, TypeOK
  <2>2. FrozenRow(call[c].loan, call[c].prior) \in QuietRows
    BY <2>1, QuietRowTypes
  <2> QED BY <1>2, <2>2, CommittedSays DEF freeze_account_update
<1>3. CASE LogCall(c)
  <2>1. call[c].tool = tool
    BY <1>3 DEF LogCall, Continue, Underway, Idle
  <2> DEFINE row == ToolCallRow(tool, "ok")
  <2>2. row \in AuditRows
    BY RowTypes
  <2> HIDE DEF row
  <2>3. <<>> \in Seq(QuietRows) /\ <<>> \o <<row>> = <<row>>
    BY <2>2, ConcatEmptySeq
  <2>4. append_audit(c, <<>> \o <<row>>)
    BY <1>3, <2>1, <2>3 DEF LogCall, row
  <2>5. Says(c, tool, "ok")
    BY <2>3, <2>4 DEF Says, row
  <2>6. call'[c] = Idle("ok")
    BY <1>3, Becomes DEF LogCall
  <2> QED BY <2>5, <2>6 DEF CallSays
<1> QED BY <1>1, <1>2, <1>3 DEF ContinueCall

(* The calls on a trail after rows that are none, and after one that is.   *)
LEMMA CallRowTypes ==
    ASSUME TypeOK, NEW c \in Cases
    PROVE  /\ CallRows(audit_log[c]) \subseteq 1 .. Len(audit_log[c])
           /\ IsFiniteSet(CallRows(audit_log[c]))
           /\ Cardinality(CallRows(audit_log[c])) \in Nat
<1>1. CallRows(audit_log[c]) \subseteq 1 .. Len(audit_log[c]) /\ Len(audit_log[c]) \in Nat
  BY TrailTypes DEF CallRows
<1>2. IsFiniteSet(1 .. Len(audit_log[c]))
  BY <1>1, FS_Interval
<1>3. IsFiniteSet(CallRows(audit_log[c]))
  BY <1>1, <1>2, FS_Subset
<1> QED BY <1>1, <1>3, FS_CardinalityType

LEMMA SilentCalls ==
    ASSUME TypeOK, NEW c \in Cases, Silent(c)
    PROVE  /\ CallRows(audit_log'[c]) = CallRows(audit_log[c])
           /\ \A i \in CallRows(audit_log[c]) : audit_log'[c][i] = audit_log[c][i]
<1>1. PICK rows \in Seq(QuietRows) : append_audit(c, rows)
  BY DEF Silent
<1> DEFINE k == Len(audit_log[c])
           m == Len(rows)
<1>2. rows \in Seq(AuditRows) /\ m \in Nat /\ \A i \in 1 .. m : rows[i].event # "tool_call"
  BY DEF QuietRows
<1>3. k \in Nat /\ DOMAIN audit_log[c] = 1 .. k
  BY TrailTypes
<1>4. /\ DOMAIN audit_log'[c] = 1 .. k + m
      /\ \A i \in 1 .. k : audit_log'[c][i] = audit_log[c][i]
      /\ \A i \in k + 1 .. k + m : audit_log'[c][i] = rows[i - k]
  BY <1>1, <1>2, Appended
<1> HIDE DEF k, m
<1>5. \A i \in 1 .. k + m : i \in 1 .. k \/ (i \in k + 1 .. k + m /\ i - k \in 1 .. m)
  BY <1>2, <1>3
<1>6. \A i \in 1 .. k : i \in 1 .. k + m
  BY <1>2, <1>3
<1>7. \A i \in 1 .. k + m : audit_log'[c][i].event = "tool_call" => i \in 1 .. k
  BY <1>2, <1>4, <1>5
<1>8. \A i : i \in CallRows(audit_log'[c]) <=> i \in CallRows(audit_log[c])
  BY <1>3, <1>4, <1>6, <1>7, ZenonT(30) DEF CallRows
<1>9. \A i \in CallRows(audit_log[c]) : i \in 1 .. k
  BY <1>3 DEF CallRows
<1> QED BY <1>4, <1>8, <1>9

LEMMA SaysOneCall ==
    ASSUME TypeOK, NEW c \in Cases, NEW tool \in TOOLS, NEW o \in {"ok", "denied"}, Says(c, tool, o)
    PROVE  \E m \in Nat : /\ CallRows(audit_log'[c]) = CallRows(audit_log[c]) \cup {m}
                          /\ \A j \in CallRows(audit_log[c]) : j < m
                          /\ audit_log'[c][m] = ToolCallRow(tool, o)
                          /\ \A i \in CallRows(audit_log[c]) : audit_log'[c][i] = audit_log[c][i]
<1> DEFINE row == ToolCallRow(tool, o)
<1>1. PICK quiet \in Seq(QuietRows) : append_audit(c, quiet \o <<row>>)
  BY DEF Says
<1>2. row \in AuditRows /\ row.event = "tool_call"
  BY RowTypes DEF ToolCallRow
<1> DEFINE last == <<row>>
           rows == quiet \o last
           k == Len(audit_log[c])
           q == Len(quiet)
<1>3. quiet \in Seq(AuditRows) /\ q \in Nat /\ \A i \in 1 .. q : quiet[i].event # "tool_call"
  BY DEF QuietRows
<1> HIDE DEF row
<1>4. last \in Seq(AuditRows) /\ Len(last) = 1 /\ last[1] = row
  BY <1>2
<1> HIDE DEF last
<1>5. /\ rows \in Seq(AuditRows) /\ Len(rows) = Len(quiet) + Len(last)
      /\ \A i \in 1 .. Len(quiet) + Len(last) :
            rows[i] = IF i <= Len(quiet) THEN quiet[i] ELSE last[i - Len(quiet)]
  BY <1>3, <1>4, ConcatProperties
<1>6. append_audit(c, rows)
  BY <1>1 DEF last
<1> HIDE DEF rows
<1>7. k \in Nat /\ DOMAIN audit_log[c] = 1 .. k
  BY TrailTypes
<1>8. /\ DOMAIN audit_log'[c] = 1 .. k + Len(rows)
      /\ \A i \in 1 .. k : audit_log'[c][i] = audit_log[c][i]
      /\ \A i \in k + 1 .. k + Len(rows) : audit_log'[c][i] = rows[i - k]
  BY <1>5, <1>6, Appended
<1> HIDE DEF k, q
<1>9. Len(rows) = q + 1 /\ (\A i \in 1 .. q : rows[i] = quiet[i]) /\ rows[q + 1] = row
  <2>1. Len(quiet) = q /\ q \in Nat
    BY <1>3 DEF q
  <2>2. \A i \in 1 .. q : i \in 1 .. q + 1 /\ i <= q
    BY <2>1
  <2>3. q + 1 \in 1 .. q + 1 /\ ~(q + 1 <= q) /\ q + 1 - q = 1
    BY <2>1
  <2> QED BY <1>4, <1>5, <2>1, <2>2, <2>3
<1> DEFINE m == k + q + 1
<1>10. /\ \A i \in 1 .. k + (q + 1) : \/ i \in 1 .. k
                                      \/ i \in k + 1 .. k + (q + 1) /\ i - k \in 1 .. q
                                      \/ i = m
       /\ \A i \in 1 .. k : i \in 1 .. k + (q + 1) /\ i < m
       /\ m \in Nat /\ m \in k + 1 .. k + (q + 1) /\ m - k = q + 1 /\ m \in 1 .. k + (q + 1)
  BY <1>3, <1>7
<1> HIDE DEF m
<1>11. audit_log'[c][m] = row
  BY <1>8, <1>9, <1>10
<1>12. CallRows(audit_log'[c]) = CallRows(audit_log[c]) \cup {m}
  <2>1. \A i \in 1 .. k + (q + 1) : audit_log'[c][i].event = "tool_call" => i \in 1 .. k \/ i = m
    BY <1>3, <1>8, <1>9, <1>10
  <2>2. DOMAIN audit_log'[c] = 1 .. k + (q + 1)
    BY <1>8, <1>9
  <2>3. \A i \in 1 .. k : i \in 1 .. k + (q + 1) /\ audit_log'[c][i] = audit_log[c][i]
    BY <1>8, <1>10
  <2>4. m \in 1 .. k + (q + 1) /\ audit_log'[c][m].event = "tool_call"
    BY <1>2, <1>10, <1>11
  <2>5. \A i : i \in CallRows(audit_log'[c]) <=> i \in CallRows(audit_log[c]) \cup {m}
    BY <1>7, <2>1, <2>2, <2>3, <2>4, ZenonT(30) DEF CallRows
  <2> QED BY <2>5
<1>13. \A j \in CallRows(audit_log[c]) : j < m /\ audit_log'[c][j] = audit_log[c][j]
  BY <1>7, <1>8, <1>10 DEF CallRows
<1> QED BY <1>10, <1>11, <1>12, <1>13 DEF row

(* The nth call on the trail is of the nth of these steps.                 *)
Tells(trail, steps) ==
    \A i \in CallRows(trail) : /\ Nth(trail, i) \in DOMAIN steps
                               /\ steps[Nth(trail, i)].action = trail[i].tool
                               /\ steps[Nth(trail, i)].outcome = trail[i].outcome

TellsAllOf(trail, steps) == Tells(trail, steps) /\ Cardinality(CallRows(trail)) = Len(steps)

LEMMA SilentTellsNothing ==
    ASSUME TypeOK, NEW c \in Cases, Silent(c), NEW steps
    PROVE  /\ Tells(audit_log[c], steps) => Tells(audit_log'[c], steps)
           /\ TellsAllOf(audit_log[c], steps) => TellsAllOf(audit_log'[c], steps)
           /\ Cardinality(CallRows(audit_log'[c])) = Cardinality(CallRows(audit_log[c]))
<1>1. /\ CallRows(audit_log'[c]) = CallRows(audit_log[c])
      /\ \A i \in CallRows(audit_log[c]) : audit_log'[c][i] = audit_log[c][i]
  BY SilentCalls
<1>2. \A i : Nth(audit_log'[c], i) = Nth(audit_log[c], i)
  BY <1>1 DEF Nth
<1> QED BY <1>1, <1>2 DEF Tells, TellsAllOf

LEMMA SaysOneMore ==
    ASSUME TypeOK, NEW c \in Cases, NEW tool \in TOOLS, NEW o \in {"ok", "denied"}, Says(c, tool, o),
           NEW S, NEW steps \in Seq(S), HistoryEntry(tool, o) \in S, TellsAllOf(audit_log[c], steps)
    PROVE  TellsAllOf(audit_log'[c], Append(steps, HistoryEntry(tool, o)))
<1> DEFINE old == CallRows(audit_log[c])
           entry == HistoryEntry(tool, o)
           more == Append(steps, entry)
           n == Len(steps)
<1>1. PICK m \in Nat : /\ CallRows(audit_log'[c]) = old \cup {m}
                       /\ \A j \in old : j < m
                       /\ audit_log'[c][m] = ToolCallRow(tool, o)
                       /\ \A i \in old : audit_log'[c][i] = audit_log[c][i]
  BY SaysOneCall
<1>2. old \subseteq Nat /\ IsFiniteSet(old) /\ Cardinality(old) = n /\ n \in Nat
  <2>1. old \subseteq 1 .. Len(audit_log[c]) /\ Len(audit_log[c]) \in Nat
    BY CallRowTypes, TrailTypes
  <2> QED BY <2>1, CallRowTypes DEF TellsAllOf
<1>3. entry.action = tool /\ entry.outcome = o
  BY DEF HistoryEntry
<1>4. /\ DOMAIN more = 1 .. n + 1 /\ Len(more) = n + 1 /\ more[n + 1] = entry
      /\ DOMAIN steps = 1 .. n /\ \A i \in 1 .. n : more[i] = steps[i]
  BY AppendProperties
<1>5. m \notin old
  BY <1>1, <1>2
<1> HIDE DEF old, entry, more, n
<1>6. Cardinality(old \cup {m}) = n + 1
  BY <1>2, <1>5, FS_AddElement
<1>7. Nth(audit_log'[c], m) = n + 1
  <2>0. \A j \in old \cup {m} : j <= m
    <3>1. m <= m
      OBVIOUS
    <3>2. ASSUME NEW j \in old
          PROVE  j <= m
      <4>1. j \in Nat /\ j < m
        BY <1>1, <1>2, Zenon
      <4> QED BY <4>1
    <3> QED BY <3>1, <3>2, Zenon
  <2>1. {j \in old \cup {m} : j <= m} = old \cup {m}
    BY <2>0, Zenon
  <2> QED BY <1>1, <1>6, <2>1 DEF Nth
<1>8. ASSUME NEW i \in old
      PROVE  Nth(audit_log'[c], i) = Nth(audit_log[c], i)
  <2>1. {j \in old \cup {m} : j <= i} = {j \in old : j <= i}
    BY <1>1, <1>2
  <2> QED BY <1>1, <2>1 DEF Nth, old
<1>9. ASSUME NEW i \in old
      PROVE  /\ Nth(audit_log'[c], i) \in DOMAIN more
             /\ more[Nth(audit_log'[c], i)].action = audit_log'[c][i].tool
             /\ more[Nth(audit_log'[c], i)].outcome = audit_log'[c][i].outcome
  <2>1. /\ Nth(audit_log[c], i) \in DOMAIN steps
        /\ steps[Nth(audit_log[c], i)].action = audit_log[c][i].tool
        /\ steps[Nth(audit_log[c], i)].outcome = audit_log[c][i].outcome
    BY DEF old, TellsAllOf, Tells
  <2> QED BY <1>1, <1>2, <1>4, <1>8, <2>1
<1>10. /\ Nth(audit_log'[c], m) \in DOMAIN more
       /\ more[Nth(audit_log'[c], m)].action = audit_log'[c][m].tool
       /\ more[Nth(audit_log'[c], m)].outcome = audit_log'[c][m].outcome
  BY <1>1, <1>2, <1>3, <1>4, <1>7 DEF ToolCallRow
<1>11. Tells(audit_log'[c], more)
  BY <1>1, <1>9, <1>10 DEF Tells
<1> QED BY <1>1, <1>4, <1>6, <1>11 DEF TellsAllOf, more, entry

(* The steps the loop has reported, or is about to.                        *)
Reported(c) ==
    IF pc[c] = "acting" /\ call[c] \in {Idle("ok"), Idle("denied")}
    THEN Append(history[c], HistoryEntry(proposed[c], call[c].outcome))
    ELSE history[c]

NoneMissing(trail, steps) ==
    \A n \in DOMAIN steps : steps[n].outcome # "error" => n <= Cardinality(CallRows(trail))

TellOK(c) ==
    /\ pc[c] \in {"absent", "received", "planning", "deciding", "acting"} =>
           TellsAllOf(audit_log[c], Reported(c))
    /\ pc[c] = "escalating" =>
           Tells(audit_log[c], history[c]) /\ NoneMissing(audit_log[c], history[c])

LEMMA AllTold ==
    ASSUME NEW trail, NEW S, NEW steps \in Seq(S), TellsAllOf(trail, steps)
    PROVE  Tells(trail, steps) /\ NoneMissing(trail, steps)
<1>1. DOMAIN steps = 1 .. Len(steps) /\ Len(steps) \in Nat
  BY LenProperties
<1> QED BY <1>1 DEF TellsAllOf, NoneMissing

(* A call that raised has no row and is the last step.                     *)
LEMMA ErrorTold ==
    ASSUME NEW trail, NEW S, NEW steps \in Seq(S), TellsAllOf(trail, steps),
           NEW entry \in S, entry.outcome = "error"
    PROVE  Tells(trail, Append(steps, entry)) /\ NoneMissing(trail, Append(steps, entry))
<1> DEFINE more == Append(steps, entry)
           n == Len(steps)
<1>1. /\ n \in Nat /\ DOMAIN steps = 1 .. n
      /\ DOMAIN more = 1 .. n + 1 /\ more[n + 1] = entry /\ \A i \in 1 .. n : more[i] = steps[i]
  BY AppendProperties, LenProperties
<1>2. Cardinality(CallRows(trail)) = n
  BY DEF TellsAllOf
<1> HIDE DEF more, n
<1>3. (\A i \in 1 .. n : i \in 1 .. n + 1) /\ \A i \in 1 .. n + 1 : i <= n \/ i = n + 1
  BY <1>1
<1>4. NoneMissing(trail, more)
  BY <1>1, <1>2, <1>3 DEF NoneMissing
<1>5. Tells(trail, more)
  BY <1>1, <1>3 DEF TellsAllOf, Tells
<1> QED BY <1>4, <1>5 DEF more

LEMMA CallTold ==
    ASSUME AgentTypeOK, NEW c \in Cases, proposed[c] \in Approved(c), CallSays(c, proposed[c]),
           TellsAllOf(audit_log[c], history[c]), pc'[c] = "acting",
           history'[c] = history[c], proposed'[c] = proposed[c]
    PROVE  TellsAllOf(audit_log'[c], Reported(c)')
<1>0. TypeOK /\ proposed[c] \in TOOLS
  BY ApprovedAreTools DEF AgentTypeOK
<1>1. CASE Silent(c) /\ call'[c] \notin {Idle("ok"), Idle("denied")}
  <2>1. Reported(c)' = history[c]
    BY <1>1 DEF Reported
  <2> QED BY <1>0, <1>1, <2>1, SilentTellsNothing
<1>2. ASSUME NEW o \in {"ok", "denied"}, Says(c, proposed[c], o), call'[c] = Idle(o)
      PROVE  TellsAllOf(audit_log'[c], Reported(c)')
  <2> DEFINE S == [action : TOOLS, outcome : {"ok", "denied", "error"}]
  <2>1. HistoryEntry(proposed[c], o) \in S
    BY <1>0 DEF HistoryEntry
  <2>2. history[c] \in Seq(S)
    BY DEF AgentTypeOK
  <2>3. TellsAllOf(audit_log'[c], Append(history[c], HistoryEntry(proposed[c], o)))
    BY <1>0, <1>2, <2>1, <2>2, SaysOneMore
  <2>4. call'[c].outcome = o /\ call'[c] \in {Idle("ok"), Idle("denied")}
    BY <1>2 DEF Idle
  <2>5. Reported(c)' = Append(history[c], HistoryEntry(proposed[c], o))
    BY <2>4 DEF Reported
  <2> QED BY <2>3, <2>5
<1> QED BY <1>1, <1>2 DEF CallSays

LEMMA TellStep ==
    ASSUME AgentTypeOK, NEW c \in Cases, LoopOK(c), TellOK(c), AgentStep(c)
    PROVE  TellOK(c)'
<1> DEFINE S == [action : TOOLS, outcome : {"ok", "denied", "error"}]
<1>0. LoopTypes /\ TypeOK /\ history[c] \in Seq(S)
  BY DEF AgentTypeOK, LoopTypes
<1>1. CASE ReceiveCase(c) \/ \E id \in ModelIds, a \in Proposals : PlanStep(c, id, a)
  <2>1. /\ UNCHANGED <<audit_log, history>>
        /\ pc[c] \in {"absent", "planning"} /\ pc'[c] \in {"received", "deciding"}
    BY <1>0, <1>1 DEF ReceiveCase, OpenCase, PlanStep, ModelCall, vars, At, Goto, LoopTypes
  <2> QED BY <2>1 DEF TellOK, Reported
<1>2. ASSUME \/ pc[c] = "received" /\ pc'[c] = "planning"
             \/ pc[c] \in {"planning", "deciding"} /\ pc'[c] = "escalating",
             UNCHANGED history, Silent(c) \/ UNCHANGED audit_log
      PROVE  TellOK(c)'
  <2>1. TellsAllOf(audit_log'[c], history[c])
    BY <1>0, <1>2, SilentTellsNothing DEF TellOK, Reported
  <2>2. Tells(audit_log'[c], history[c]) /\ NoneMissing(audit_log'[c], history[c])
    BY <1>0, <2>1, AllTold
  <2> QED BY <1>2, <2>1, <2>2 DEF TellOK, Reported
<1>3. ASSUME NEW row \in LoopRows, append_audit(c, <<row>>)
      PROVE  Silent(c)
  <2>1. row \in QuietRows
    BY QuietRowTypes DEF LoopRows, DenialReasons
  <2>2. <<row>> \in Seq(QuietRows)
    BY <2>1
  <2> QED BY <1>3, <2>2 DEF Silent
<1>4. CASE \/ \E m \in Messages : StartCase(c, m)
           \/ \E id \in ModelIds : RejectModel(c, id)
           \/ RefuseAction(c) \/ ExceedBudget(c)
  <2>1. UNCHANGED audit_log \/ \E row \in LoopRows : append_audit(c, <<row>>)
    BY <1>4 DEF StartCase, RejectModel, RefuseAction, ExceedBudget, CallerRow, vars, LoopRows
  <2>2. /\ UNCHANGED history
        /\ \/ pc[c] = "received" /\ pc'[c] = "planning"
           \/ pc[c] \in {"planning", "deciding"} /\ pc'[c] = "escalating"
    BY <1>0, <1>4 DEF StartCase, RejectModel, RefuseAction, ExceedBudget, ModelCall, StopWith, At, Goto, LoopTypes
  <2> QED BY <1>2, <1>3, <2>1, <2>2
<1>5. CASE CallTool(c)
  <2>1. /\ pc[c] = "deciding" /\ pc'[c] = "acting" /\ proposed[c] \in Approved(c)
        /\ UNCHANGED <<history, proposed>>
    BY <1>0, <1>5 DEF CallTool, At, Goto, LoopTypes
  <2>2. CallSays(c, proposed[c])
    BY <1>0, <1>5, <2>1, BeginSays, ApprovedAreTools DEF CallTool
  <2>3. TellsAllOf(audit_log[c], history[c])
    BY <2>1 DEF TellOK, Reported
  <2>4. TellsAllOf(audit_log'[c], Reported(c)')
    BY <2>1, <2>2, <2>3, CallTold
  <2> QED BY <2>1, <2>4 DEF TellOK
<1>6. CASE ToolLocked(c)
  <2>1. /\ pc[c] \in {"deciding", "acting"} /\ pc'[c] = "acting"
        /\ UNCHANGED history /\ (pc[c] = "acting" => call[c].pc # "idle")
    BY <1>0, <1>6 DEF ToolLocked, At, Goto, LoopTypes
  <2>2. TellsAllOf(audit_log[c], history[c])
    BY <2>1 DEF TellOK, Reported, Idle
  <2>3. Silent(c) /\ call'[c] = Idle("error")
    BY <1>0, <1>6, RaisedSays DEF ToolLocked, DatabaseLocked
  <2>4. Reported(c)' = history[c]
    BY <2>1, <2>3, IdleApart DEF Reported
  <2> QED BY <1>0, <2>1, <2>2, <2>3, <2>4, SilentTellsNothing DEF TellOK
<1>7. CASE ToolStep(c) /\ pc[c] = "acting"
  <2>1. /\ pc'[c] = "acting" /\ proposed[c] \in Approved(c) /\ UNCHANGED <<history, proposed>>
    BY <1>7 DEF ToolStep, agentVars, LoopOK
  <2>2. call[c].pc # "idle"
    BY <1>7 DEF ToolStep, ContinueCall, resolve_dispute_update, freeze_account_update, LogCall, Continue
  <2>3. call[c] \in Underway(proposed[c])
    BY <1>7, <2>2 DEF LoopOK, Idle
  <2>4. CallSays(c, proposed[c])
    BY <1>0, <1>7, <2>1, <2>3, ContinueSays, ApprovedAreTools DEF ToolStep
  <2>5. TellsAllOf(audit_log[c], history[c])
    BY <1>7, <2>2 DEF TellOK, Reported, Idle
  <2>6. TellsAllOf(audit_log'[c], Reported(c)')
    BY <2>1, <2>4, <2>5, CallTold
  <2> QED BY <2>1, <2>6 DEF TellOK
<1>8. CASE ToolStep(c) /\ pc[c] # "acting"
  <2>1. call[c].pc \in {"resolving", "freezing", "logging"} /\ UNCHANGED pc
    BY <1>8 DEF ToolStep, ContinueCall, resolve_dispute_update, freeze_account_update, LogCall, Continue,
                agentVars
  <2>2. pc'[c] = "escalated"
    BY <1>0, <1>8, <2>1 DEF LoopOK, LoopTypes
  <2> QED BY <2>2 DEF TellOK
<1>9. CASE ToolReturns(c)
  <2> DEFINE entry == HistoryEntry(proposed[c], call[c].outcome)
  <2>1. pc[c] = "acting" /\ call[c].pc = "idle" /\ UNCHANGED audit_log /\ entry \in S
    BY <1>9, ReturnedEntry DEF ToolReturns, At, vars
  <2>2. history'[c] = Append(history[c], entry)
    BY <1>0, <1>9 DEF ToolReturns, RecordStep, LoopTypes
  <2>3. call[c] \in {Idle("ok"), Idle("denied"), Idle("error")}
    BY <2>1 DEF LoopOK, Underway
  <2>4. entry.outcome = call[c].outcome
    BY DEF HistoryEntry
  <2>5. pc'[c] \in {"planning", "completing", "escalating"} /\ (call[c].outcome # "ok" => pc'[c] = "escalating")
    BY <1>0, <1>9 DEF ToolReturns, AfterRefusal, AfterSuccess, StopWith, Goto, LoopTypes
  <2>6. CASE call[c] \in {Idle("ok"), Idle("denied")}
    <3>1. TellsAllOf(audit_log'[c], history'[c])
      BY <2>1, <2>2, <2>6 DEF TellOK, Reported
    <3>2. history'[c] \in Seq(S)
      BY <1>0, <2>1, <2>2, AppendProperties
    <3>3. Tells(audit_log'[c], history'[c]) /\ NoneMissing(audit_log'[c], history'[c])
      BY <3>1, <3>2, AllTold
    <3> QED BY <2>5, <3>1, <3>3 DEF TellOK, Reported
  <2>7. CASE call[c] = Idle("error")
    <3>1. TellsAllOf(audit_log[c], history[c])
      BY <2>1, <2>7, IdleApart DEF TellOK, Reported
    <3>2. entry.outcome = "error"
      BY <2>4, <2>7 DEF Idle
    <3> HIDE DEF entry
    <3>3. Tells(audit_log[c], Append(history[c], entry)) /\ NoneMissing(audit_log[c], Append(history[c], entry))
      <4> HIDE DEF S
      <4> QED BY <1>0, <2>1, <3>1, <3>2, ErrorTold
    <3>4. Tells(audit_log[c], history'[c]) /\ NoneMissing(audit_log[c], history'[c])
      BY <2>2, <3>3
    <3>5. pc'[c] = "escalating"
      BY <2>5, <2>7 DEF Idle
    <3> QED BY <2>1, <3>4, <3>5 DEF TellOK
  <2> QED BY <2>3, <2>6, <2>7
<1>10. CASE Finish(c) \/ Escalate(c) \/ EscalateReturns(c) \/ Complete(c) \/ CaseFails(c)
  <2>1. pc'[c] \in {"completing", "escalated", "answered", "failed"}
    BY <1>0, <1>10 DEF Finish, Escalate, EscalateReturns, Complete, CaseFails, Goto, LoopTypes
  <2> QED BY <2>1 DEF TellOK
<1> QED BY <1>1, <1>4, <1>5, <1>6, <1>7, <1>8, <1>9, <1>10 DEF AgentStep, HandleCase

(* What the client is told happened in a case, step by step, is what its   *)
(* trail tells: for any planner, tools that fail anywhere and any budget.  *)
THEOREM HistoriesMatch == AgentSpec => []HistoryMatchesTrail
<1> DEFINE Inv == \A c \in Cases : TellOK(c)
<1>1. AgentInit => Inv
  <2> SUFFICES ASSUME AgentInit, NEW c \in Cases
               PROVE  TellOK(c)
    OBVIOUS
  <2>1. pc[c] = "absent" /\ audit_log[c] = <<>> /\ history[c] = <<>>
    BY DEF AgentInit, Init
  <2>2. CallRows(<<>>) = {}
    BY DEF CallRows
  <2>3. TellsAllOf(<<>>, <<>>)
    BY <2>2, FS_EmptySet DEF TellsAllOf, Tells
  <2> QED BY <2>1, <2>3 DEF TellOK, Reported
<1>2. AgentTypeOK /\ LoopInv /\ Inv /\ [AgentNext]_allVars => Inv'
  <2> SUFFICES ASSUME AgentTypeOK, LoopInv, Inv, [AgentNext]_allVars, NEW e \in Cases
               PROVE  TellOK(e)'
    OBVIOUS
  <2>1. ASSUME NEW c \in Cases, AgentStep(c)
        PROVE  TellOK(e)'
    <3>1. CASE e = c
      <4>1. LoopOK(c) /\ TellOK(c)
        BY DEF LoopInv
      <4> QED BY <2>1, <3>1, <4>1, TellStep
    <3>2. CASE e # c
      <4>1. TellOK(e)
        OBVIOUS
      <4> QED BY <2>1, <3>2, <4>1, OthersStay DEF TellOK, Reported
    <3> QED BY <3>1, <3>2
  <2>2. CASE UNCHANGED allVars
    <3>1. TellOK(e)
      OBVIOUS
    <3> QED BY <2>2, <3>1 DEF allVars, vars, agentVars, TellOK, Reported
  <2> QED BY <2>1, <2>2 DEF AgentNext, AgentStep
<1>3. AgentTypeOK /\ Inv => HistoryMatchesTrail
  <2> SUFFICES ASSUME AgentTypeOK, Inv, NEW c \in Cases, pc[c] \in {"planning", "deciding", "escalating"}
               PROVE  Tells(audit_log[c], history[c]) /\ NoneMissing(audit_log[c], history[c])
    BY DEF HistoryMatchesTrail, Tells, NoneMissing
  <2>1. TellOK(c) /\ history[c] \in Seq([action : TOOLS, outcome : {"ok", "denied", "error"}])
    BY DEF AgentTypeOK
  <2> QED BY <2>1, AllTold DEF TellOK, Reported
<1> QED BY <1>1, <1>2, <1>3, AgentInitInv, AgentStepInv, PTL DEF AgentSpec
=============================================================================
