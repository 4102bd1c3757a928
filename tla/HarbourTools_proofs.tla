-------------------------- MODULE HarbourTools_proofs --------------------------
(***************************************************************************)
(* Theorems of HarbourTools, for any sessions, customers, loans, amounts   *)
(* and bounds.                                                             *)
(***************************************************************************)
EXTENDS HarbourTools, SequenceTheorems, TLAPS

-----------------------------------------------------------------------------
(* Types *)

(* Every row a tool or the loop writes is a row of audit_log.              *)
LEMMA RowTypes ==
    /\ \A k \in Customers, v \in BOOLEAN : IdentityRow(k, v) \in AuditRows
    /\ \A t \in MONEY_TOOLS, l \in Loans, n \in Nat, a \in Int : MoneyRow(t, l, n, a) \in AuditRows
    /\ \A d \in Nat, l \in Loans : RaisedRow(d, l) \in AuditRows
    /\ \A d \in Nat, r \in Resolutions : ResolvedRow(d, r) \in AuditRows
    /\ \A l \in Loans, p \in LoanStatuses : FrozenRow(l, p) \in AuditRows
    /\ \A r \in DenialReasons : DeniedRow(r) \in AuditRows
    /\ \A t \in TOOLS, o \in {"ok", "denied"} : ToolCallRow(t, o) \in AuditRows
    /\ EscalatedRow \in AuditRows /\ MessageRow \in AuditRows
    /\ CallerRows \subseteq AuditRows
<1>1. \A k \in Customers, v \in BOOLEAN : IdentityRow(k, v) \in IdentityRows
  BY DEF IdentityRow, IdentityRows
<1>2. \A t \in MONEY_TOOLS, l \in Loans, n \in Nat, a \in Int : MoneyRow(t, l, n, a) \in MoneyRows
  BY DEF MoneyRow, MoneyRows
<1>3. \A d \in Nat, l \in Loans : RaisedRow(d, l) \in RaisedRows
  BY DEF RaisedRow, RaisedRows
<1>4. \A d \in Nat, r \in Resolutions : ResolvedRow(d, r) \in ResolvedRows
  BY DEF ResolvedRow, ResolvedRows
<1>5. \A l \in Loans, p \in LoanStatuses : FrozenRow(l, p) \in FrozenRows
  BY DEF FrozenRow, FrozenRows
<1>6. \A r \in DenialReasons : DeniedRow(r) \in DeniedRows
  BY DEF DeniedRow, DeniedRows
<1>7. \A t \in TOOLS, o \in {"ok", "denied"} : ToolCallRow(t, o) \in ToolCallRows
  BY DEF ToolCallRow, ToolCallRows
<1>8. {EscalatedRow, MessageRow} \cup CallerRows \subseteq PlainRows
  BY CallerRowsAssumption DEF PlainRows
<1> QED BY <1>1, <1>2, <1>3, <1>4, <1>5, <1>6, <1>7, <1>8 DEF AuditRows

(* Rows appended to one case's chain leave audit_log a log.                *)
LEMMA AppendTypes ==
    ASSUME TypeOK, NEW c \in Cases, NEW rows \in Seq(AuditRows), append_audit(c, rows)
    PROVE  audit_log' \in [Cases -> Seq(AuditRows)]
<1>1. audit_log[c] \o rows \in Seq(AuditRows)
  BY ConcatProperties DEF TypeOK
<1> QED BY <1>1 DEF append_audit, TypeOK

LEMMA BecomeTypes ==
    ASSUME TypeOK, NEW c \in Cases, NEW doing \in Calls, Become(c, doing)
    PROVE  call' \in [Cases -> Calls]
BY DEF Become, TypeOK

LEMMA CallTypes ==
    /\ \A o \in {"none", "ok", "denied", "error"} : Idle(o) \in Calls
    /\ \A t \in TOOLS : Logging(t) \in Calls
    /\ \A d \in Nat, r \in Resolutions : Resolving(d, r) \in Calls
    /\ \A l \in Loans, p \in LoanStatuses : Freezing(l, p) \in Calls
    /\ Closed \in Calls
<1>1. \A o \in {"none", "ok", "denied", "error"} : Idle(o) \in IdleCalls
  BY DEF Idle, IdleCalls
<1>2. \A t \in TOOLS : Logging(t) \in LoggingCalls
  BY DEF Logging, LoggingCalls
<1>3. \A d \in Nat, r \in Resolutions : Resolving(d, r) \in ResolvingCalls
  BY DEF Resolving, ResolvingCalls
<1>4. \A l \in Loans, p \in LoanStatuses : Freezing(l, p) \in FreezingCalls
  BY DEF Freezing, FreezingCalls
<1> QED BY <1>1, <1>2, <1>3, <1>4 DEF Calls

(* A row replaced in a table leaves a table.                               *)
LEMMA ReplaceRow ==
    ASSUME NEW S, NEW s \in Seq(S), NEW i \in DOMAIN s, NEW x \in S
    PROVE  [s EXCEPT ![i] = x] \in Seq(S)
OBVIOUS

LEMMA ReplaceNoRow ==
    ASSUME NEW S, NEW s \in Seq(S), NEW i, i \notin DOMAIN s, NEW x
    PROVE  [s EXCEPT ![i] = x] = s
OBVIOUS

(* What a session in the middle of a call holds.                           *)
LEMMA CallFields ==
    ASSUME NEW x \in Calls
    PROVE  /\ x.pc = "logging" => x.tool \in TOOLS
           /\ x.pc = "resolving" => x.dispute \in Nat /\ x.resolution \in Resolutions
           /\ x.pc = "freezing" => x.loan \in Loans /\ x.prior \in LoanStatuses
BY DEF Calls, IdleCalls, LoggingCalls, ResolvingCalls, FreezingCalls, Closed

(* The four ways a call ends or goes on keep the types.                    *)
LEMMA DeniedTypes ==
    ASSUME TypeOK, NEW c \in Cases, NEW tool \in TOOLS, NEW rows \in Seq(AuditRows),
           Denied(c, tool, rows), requests' \in Nat, faults' = faults
    PROVE  TypeOK'
<1>1. rows \o <<ToolCallRow(tool, "denied")>> \in Seq(AuditRows)
  BY RowTypes, ConcatProperties
<1>2. audit_log' \in [Cases -> Seq(AuditRows)]
  BY <1>1, AppendTypes DEF Denied
<1>3. call' \in [Cases -> Calls]
  BY BecomeTypes, CallTypes DEF Denied
<1> QED BY <1>2, <1>3 DEF Denied, db, TypeOK

LEMMA RaisedTypes ==
    ASSUME TypeOK, NEW c \in Cases, Raised(c), requests' \in Nat, faults' \in Nat
    PROVE  TypeOK'
<1>1. call' \in [Cases -> Calls]
  BY BecomeTypes, CallTypes DEF Raised
<1> QED BY <1>1 DEF Raised, db, TypeOK

LEMMA LoggedTypes ==
    ASSUME TypeOK, NEW c \in Cases, NEW tool \in TOOLS, NEW rows \in Seq(AuditRows),
           Logged(c, tool, rows), requests' \in Nat, faults' = faults
    PROVE  TypeOK'
<1>1. rows \o <<ToolCallRow(tool, "ok")>> \in Seq(AuditRows)
  BY RowTypes, ConcatProperties
<1>2. audit_log' \in [Cases -> Seq(AuditRows)]
  BY <1>1, AppendTypes DEF Logged
<1>3. call' \in [Cases -> Calls]
  BY BecomeTypes, CallTypes DEF Logged
<1> QED BY <1>2, <1>3 DEF Logged, db, TypeOK

LEMMA CommittedTypes ==
    ASSUME TypeOK, NEW c \in Cases, NEW tool \in TOOLS, NEW row \in AuditRows,
           Committed(c, tool, row)
    PROVE  audit_log' \in [Cases -> Seq(AuditRows)] /\ call' \in [Cases -> Calls]
<1>1. <<row>> \in Seq(AuditRows)
  OBVIOUS
<1>2. audit_log' \in [Cases -> Seq(AuditRows)]
  BY <1>1, AppendTypes DEF Committed
<1> QED BY <1>2, BecomeTypes, CallTypes DEF Committed

LEMMA AskTypes ==
    ASSUME TypeOK, NEW c \in Cases, NEW tool, Ask(c, tool)
    PROVE  requests' \in Nat /\ faults' = faults /\ faults' \in Nat
BY DEF Ask, Request, TypeOK

LEMMA MoveMoneyTypes ==
    ASSUME TypeOK, NEW c \in Cases, NEW tool \in MONEY_TOOLS, NEW l \in Loans,
           NEW type \in {"payment", "refund", "fee"}, NEW amount \in Int,
           MoveMoney(c, tool, l, type, amount), requests' \in Nat, faults' = faults
    PROVE  TypeOK'
<1> DEFINE t == [loan |-> l, case |-> c, type |-> type, amount |-> amount]
<1>1. t \in Transactions
  BY DEF Transactions
<1>2. transactions' \in Seq(Transactions) /\ Len(transactions') \in Nat
  BY <1>1, AppendProperties DEF MoveMoney, TypeOK
<1>3. MoneyRow(tool, l, Len(transactions'), amount) \in AuditRows
  BY <1>2, RowTypes
<1>4. tool \in TOOLS
  BY DEF TOOLS, GATED_TOOLS
<1>5. audit_log' \in [Cases -> Seq(AuditRows)] /\ call' \in [Cases -> Calls]
  BY <1>3, <1>4, CommittedTypes DEF MoveMoney
<1> QED BY <1>2, <1>5 DEF MoveMoney, TypeOK

(* One lemma per tool that writes more than its own tool_call row.         *)
LEMMA VerifyIdentityTypes ==
    ASSUME TypeOK, NEW c \in Cases, NEW k \in AnyCustomer,
           NEW last4ok \in BOOLEAN, NEW dobok \in BOOLEAN, verify_identity(c, k, last4ok, dobok)
    PROVE  TypeOK'
<1> DEFINE verified == last4ok /\ dobok
<1>1. requests' \in Nat /\ faults' = faults /\ faults' \in Nat
  BY AskTypes DEF verify_identity
<1>2. CASE k \notin Customers /\ Raised(c)
  BY <1>1, <1>2, RaisedTypes
<1>3. CASE /\ k \in Customers
           /\ identity_verifications' =
                  identity_verifications \cup {[case |-> c, customer |-> k, verified |-> verified]}
           /\ Committed(c, "verify_identity", IdentityRow(k, verified))
           /\ UNCHANGED <<loans, transactions, disputes, cases>>
  <2>1. verified \in BOOLEAN
    OBVIOUS
  <2>2. IdentityRow(k, verified) \in AuditRows
    BY <1>3, <2>1, RowTypes
  <2>3. audit_log' \in [Cases -> Seq(AuditRows)] /\ call' \in [Cases -> Calls]
    BY <1>3, <2>2, CommittedTypes DEF TOOLS, UNGATED_TOOLS
  <2>4. [case |-> c, customer |-> k, verified |-> verified] \in Verifications
    BY <1>3, <2>1 DEF Verifications
  <2> QED BY <1>1, <1>3, <2>3, <2>4 DEF TypeOK
<1> QED BY <1>2, <1>3 DEF verify_identity

LEMMA GateTypes ==
    ASSUME TypeOK, NEW c \in Cases, NEW tool, NEW l \in AnyLoan,
           require_identity_verified(c, tool, l)
    PROVE  TypeOK'
<1>1. requests' \in Nat /\ faults' = faults /\ tool \in TOOLS
  BY AskTypes DEF require_identity_verified, TOOLS
<1>2. (IF l \in Loans THEN <<DeniedRow("identity_not_verified")>> ELSE <<>>) \in Seq(AuditRows)
  BY RowTypes DEF DenialReasons
<1> QED BY <1>1, <1>2, DeniedTypes DEF require_identity_verified

LEMMA MoneyTypes ==
    ASSUME TypeOK, NEW c \in Cases, NEW l \in Loans, NEW a \in Amounts,
           post_payment(c, l, a) \/ issue_refund(c, l, a) \/ apply_fee(c, l, a)
    PROVE  TypeOK'
<1>1. requests' \in Nat /\ faults' = faults /\ faults' \in Nat
  BY AskTypes DEF post_payment, issue_refund, apply_fee, AskGated
<1>2. a \in Int /\ -a \in Int
  BY AmountsAssumption
<1>3. CASE post_payment(c, l, a)
  <2>1. CASE Raised(c)
    BY <1>1, <2>1, RaisedTypes
  <2>2. CASE MoveMoney(c, "post_payment", l, "payment", -a)
    BY <1>1, <1>2, <2>2, MoveMoneyTypes DEF MONEY_TOOLS
  <2> QED BY <1>3, <2>1, <2>2 DEF post_payment
<1>4. CASE issue_refund(c, l, a)
  <2>1. CASE Raised(c)
    BY <1>1, <2>1, RaisedTypes
  <2>2. \A r \in DenialReasons : <<DeniedRow(r)>> \in Seq(AuditRows)
    BY RowTypes
  <2>3. CASE Denied(c, "issue_refund", <<DeniedRow("over_auto_limit")>>)
    BY <1>1, <2>2, <2>3, DeniedTypes DEF DenialReasons, TOOLS, GATED_TOOLS, MONEY_TOOLS
  <2>4. CASE Denied(c, "issue_refund", <<DeniedRow("second_refund_in_case")>>)
    BY <1>1, <2>2, <2>4, DeniedTypes DEF DenialReasons, TOOLS, GATED_TOOLS, MONEY_TOOLS
  <2>5. CASE MoveMoney(c, "issue_refund", l, "refund", a)
    BY <1>1, <1>2, <2>5, MoveMoneyTypes DEF MONEY_TOOLS
  <2> QED BY <1>4, <2>1, <2>3, <2>4, <2>5 DEF issue_refund
<1>5. CASE apply_fee(c, l, a)
  <2>1. CASE Raised(c)
    BY <1>1, <2>1, RaisedTypes
  <2>2. CASE MoveMoney(c, "apply_fee", l, "fee", a)
    BY <1>1, <1>2, <2>2, MoveMoneyTypes DEF MONEY_TOOLS
  <2> QED BY <1>5, <2>1, <2>2 DEF apply_fee
<1> QED BY <1>3, <1>4, <1>5

LEMMA RaiseDisputeTypes ==
    ASSUME TypeOK, NEW c \in Cases, NEW l \in Loans, NEW k \in AnyCustomer, raise_dispute(c, l, k)
    PROVE  TypeOK'
<1>1. requests' \in Nat /\ faults' = faults /\ faults' \in Nat
  BY AskTypes DEF raise_dispute, AskGated
<1>2. CASE Raised(c)
  BY <1>1, <1>2, RaisedTypes
<1> DEFINE d == [loan |-> l, customer |-> k, case |-> c, status |-> "open"]
<1>3. CASE /\ k \in Customers
           /\ disputes' = Append(disputes, d)
           /\ Committed(c, "raise_dispute", RaisedRow(Len(disputes'), l))
           /\ UNCHANGED <<loans, transactions, identity_verifications, cases>>
  <2>1. d \in Disputes
    BY <1>3 DEF Disputes
  <2>2. disputes' \in Seq(Disputes) /\ Len(disputes') \in Nat
    BY <1>3, <2>1, AppendProperties DEF TypeOK
  <2>3. RaisedRow(Len(disputes'), l) \in AuditRows
    BY <2>2, RowTypes
  <2>4. audit_log' \in [Cases -> Seq(AuditRows)] /\ call' \in [Cases -> Calls]
    BY <1>3, <2>3, CommittedTypes DEF TOOLS, GATED_TOOLS
  <2> QED BY <1>1, <1>3, <2>2, <2>4 DEF TypeOK
<1> QED BY <1>2, <1>3 DEF raise_dispute

LEMMA ResolveCheckTypes ==
    ASSUME TypeOK, NEW c \in Cases, NEW l \in Loans, NEW d \in 1 .. Len(disputes) + 1,
           NEW r \in Resolutions \cup {"other"}, resolve_dispute_check(c, l, d, r)
    PROVE  TypeOK'
<1>1. requests' \in Nat /\ faults' = faults /\ faults' \in Nat
  BY AskTypes DEF resolve_dispute_check, AskGated
<1>2. CASE Denied(c, "resolve_dispute", <<>>)
  <2>1. <<>> \in Seq(AuditRows)
    OBVIOUS
  <2> QED BY <1>1, <1>2, <2>1, DeniedTypes DEF TOOLS, GATED_TOOLS
<1>3. CASE Raised(c)
  BY <1>1, <1>3, RaisedTypes
<1>4. CASE /\ r \in Resolutions
           /\ Become(c, Resolving(d, r))
           /\ UNCHANGED <<db, audit_log>>
  <2>1. d \in Nat
    BY DEF TypeOK
  <2>2. call' \in [Cases -> Calls]
    BY <1>4, <2>1, BecomeTypes, CallTypes
  <2> QED BY <1>1, <1>4, <2>2 DEF db, TypeOK
<1> QED BY <1>2, <1>3, <1>4 DEF resolve_dispute_check

LEMMA ResolveUpdateTypes ==
    ASSUME TypeOK, NEW c \in Cases, resolve_dispute_update(c)
    PROVE  TypeOK'
<1> DEFINE d == call[c].dispute
           r == call[c].resolution
<1>1. d \in Nat /\ r \in Resolutions
  BY CallFields DEF resolve_dispute_update, Continue, TypeOK
<1>2. disputes' \in Seq(Disputes)
  <2>1. \A x \in Disputes : [x EXCEPT !.status = r] \in Disputes
    BY <1>1 DEF Disputes
  <2>2. disputes' = [disputes EXCEPT ![d] = [disputes[d] EXCEPT !.status = r]]
    BY ZenonT(30) DEF resolve_dispute_update
  <2>3. CASE d \in DOMAIN disputes
    <3>1. [disputes[d] EXCEPT !.status = r] \in Disputes
      BY <2>1, <2>3, ElementOfSeq DEF TypeOK
    <3> QED BY <2>2, <2>3, <3>1, ReplaceRow DEF TypeOK
  <2>4. CASE d \notin DOMAIN disputes
    BY <2>2, <2>4, ReplaceNoRow DEF TypeOK
  <2> QED BY <2>3, <2>4
<1>3. audit_log' \in [Cases -> Seq(AuditRows)] /\ call' \in [Cases -> Calls]
  BY <1>1, RowTypes, CommittedTypes DEF resolve_dispute_update, TOOLS, GATED_TOOLS
<1> QED BY <1>2, <1>3 DEF resolve_dispute_update, Continue, TypeOK

LEMMA FreezeTypes ==
    ASSUME TypeOK, NEW c \in Cases,
           (\E l \in AnyLoan : freeze_account_read(c, l)) \/ freeze_account_update(c)
    PROVE  TypeOK'
<1>1. ASSUME NEW l \in AnyLoan, freeze_account_read(c, l)
      PROVE  TypeOK'
  <2>1. requests' \in Nat /\ faults' = faults /\ faults' \in Nat
    BY <1>1, AskTypes DEF freeze_account_read
  <2>2. CASE Raised(c)
    BY <2>1, <2>2, RaisedTypes
  <2>3. CASE /\ l \in Loans
             /\ Become(c, Freezing(l, loans[l]))
             /\ UNCHANGED <<db, audit_log>>
    <3>1. call' \in [Cases -> Calls]
      BY <2>3, BecomeTypes, CallTypes DEF TypeOK
    <3> QED BY <2>1, <2>3, <3>1 DEF db, TypeOK
  <2> QED BY <1>1, <2>2, <2>3 DEF freeze_account_read
<1>2. CASE freeze_account_update(c)
  <2>1. call[c].loan \in Loans /\ call[c].prior \in LoanStatuses
    BY <1>2, CallFields DEF freeze_account_update, Continue, TypeOK
  <2>2. loans' \in [Loans -> LoanStatuses]
    BY <1>2 DEF freeze_account_update, TypeOK, LoanStatuses
  <2>3. audit_log' \in [Cases -> Seq(AuditRows)] /\ call' \in [Cases -> Calls]
    BY <1>2, <2>1, RowTypes, CommittedTypes DEF freeze_account_update, TOOLS, UNGATED_TOOLS
  <2> QED BY <1>2, <2>2, <2>3 DEF freeze_account_update, Continue, TypeOK
<1> QED BY <1>1, <1>2

LEMMA EscalateTypes ==
    ASSUME TypeOK, NEW c \in Cases, escalate_to_human(c)
    PROVE  TypeOK'
<1>1. requests' \in Nat /\ faults' = faults /\ faults' \in Nat
  BY AskTypes DEF escalate_to_human
<1>2. cases' \in [Cases -> CaseRows]
  <2>1. [cases[c] EXCEPT !.status = "escalated"] \in CaseRows
    BY DEF TypeOK, CaseRows
  <2> QED BY <2>1 DEF escalate_to_human, TypeOK
<1>3. audit_log' \in [Cases -> Seq(AuditRows)] /\ call' \in [Cases -> Calls]
  BY RowTypes, CommittedTypes DEF escalate_to_human, TOOLS, UNGATED_TOOLS
<1> QED BY <1>1, <1>2, <1>3 DEF escalate_to_human, TypeOK

LEMMA MessageAndReadTypes ==
    ASSUME TypeOK, NEW c \in Cases, NEW tool \in TOOLS,
           \/ send_customer_message(c)
           \/ \E known \in BOOLEAN : read_tool(c, tool, known)
           \/ bad_arguments(c, tool)
    PROVE  TypeOK'
<1>1. requests' \in Nat /\ faults' = faults /\ faults' \in Nat
  BY AskTypes DEF send_customer_message, read_tool, bad_arguments
<1>2. <<>> \in Seq(AuditRows) /\ <<MessageRow>> \in Seq(AuditRows)
  BY RowTypes
<1>3. CASE send_customer_message(c)
  BY <1>1, <1>2, <1>3, LoggedTypes DEF send_customer_message, TOOLS, UNGATED_TOOLS
<1>4. ASSUME NEW known \in BOOLEAN, read_tool(c, tool, known)
      PROVE  TypeOK'
  BY <1>1, <1>2, <1>4, LoggedTypes, RaisedTypes DEF read_tool
<1>5. CASE bad_arguments(c, tool)
  BY <1>1, <1>5, RaisedTypes DEF bad_arguments
<1> QED BY <1>3, <1>4, <1>5

LEMMA BeginCallTypes ==
    ASSUME TypeOK, NEW c \in Cases, NEW tool \in TOOLS, BeginCall(c, tool)
    PROVE  TypeOK'
BY VerifyIdentityTypes, GateTypes, MoneyTypes, RaiseDisputeTypes, ResolveCheckTypes,
   FreezeTypes, EscalateTypes, MessageAndReadTypes DEF BeginCall

LEMMA ContinueCallTypes ==
    ASSUME TypeOK, NEW c \in Cases, ContinueCall(c)
    PROVE  TypeOK'
<1>1. CASE LogCall(c)
  <2>1. call[c].tool \in TOOLS
    BY <1>1, CallFields DEF LogCall, Continue, TypeOK
  <2>2. <<ToolCallRow(call[c].tool, "ok")>> \in Seq(AuditRows)
    BY <2>1, RowTypes
  <2>3. audit_log' \in [Cases -> Seq(AuditRows)] /\ call' \in [Cases -> Calls]
    BY <1>1, <2>2, AppendTypes, BecomeTypes, CallTypes DEF LogCall
  <2> QED BY <1>1, <2>3 DEF LogCall, Continue, db, TypeOK
<1> QED BY <1>1, ResolveUpdateTypes, FreezeTypes DEF ContinueCall

LEMMA SessionTypes ==
    ASSUME TypeOK, NEW c \in Cases,
           \/ DatabaseLocked(c)
           \/ OpenCase(c)
           \/ \E row \in CallerRows : CallerRow(c, row)
           \/ \E s \in {"resolved", "escalated"} : CompleteCase(c, s)
           \/ SessionEnds(c)
    PROVE  TypeOK'
<1>1. CASE DatabaseLocked(c)
  <2>1. requests' \in Nat /\ faults' \in Nat /\ Raised(c)
    BY <1>1 DEF DatabaseLocked, Request, TypeOK
  <2> QED BY <2>1, RaisedTypes
<1>2. CASE OpenCase(c)
  <2>1. [cases[c] EXCEPT !.status = "received"] \in CaseRows
    BY DEF TypeOK, CaseRows
  <2>2. cases' \in [Cases -> CaseRows]
    BY <1>2, <2>1 DEF OpenCase, TypeOK
  <2>3. call' \in [Cases -> Calls]
    BY <1>2, BecomeTypes, CallTypes DEF OpenCase
  <2> QED BY <1>2, <2>2, <2>3 DEF OpenCase, TypeOK
<1>3. ASSUME NEW row \in CallerRows, CallerRow(c, row)
      PROVE  TypeOK'
  <2>1. <<row>> \in Seq(AuditRows)
    BY RowTypes
  <2>2. audit_log' \in [Cases -> Seq(AuditRows)]
    BY <1>3, <2>1, AppendTypes DEF CallerRow
  <2> QED BY <1>3, <2>2 DEF CallerRow, Request, db, TypeOK
<1>4. ASSUME NEW s \in {"resolved", "escalated"}, CompleteCase(c, s)
      PROVE  TypeOK'
  <2>1. [status |-> s, completed |-> TRUE] \in CaseRows
    BY DEF CaseRows
  <2>2. cases' \in [Cases -> CaseRows]
    BY <1>4, <2>1 DEF CompleteCase, TypeOK
  <2>3. call' \in [Cases -> Calls]
    BY <1>4, BecomeTypes, CallTypes DEF CompleteCase
  <2> QED BY <1>4, <2>2, <2>3 DEF CompleteCase, Continue, TypeOK
<1>5. CASE SessionEnds(c)
  <2>1. call' \in [Cases -> Calls]
    BY <1>5, BecomeTypes, CallTypes DEF SessionEnds
  <2> QED BY <1>5, <2>1 DEF SessionEnds, db, TypeOK
<1> QED BY <1>1, <1>2, <1>3, <1>4, <1>5

LEMMA InitTypes == Init => TypeOK
<1> SUFFICES ASSUME Init PROVE TypeOK
  OBVIOUS
<1>1. loans \in [Loans -> LoanStatuses]
  BY SeededAssumption DEF Init, LoanStatuses
<1>2. cases \in [Cases -> CaseRows]
  BY DEF Init, CaseRows
<1>3. audit_log \in [Cases -> Seq(AuditRows)] /\ call \in [Cases -> Calls]
  BY CallTypes DEF Init
<1> QED BY <1>1, <1>2, <1>3 DEF Init, TypeOK

LEMMA StepTypes == TypeOK /\ [Next]_vars => TypeOK'
<1> SUFFICES ASSUME TypeOK, [Next]_vars PROVE TypeOK'
  OBVIOUS
<1>1. ASSUME NEW c \in Cases, Step(c) PROVE TypeOK'
  BY <1>1, BeginCallTypes, ContinueCallTypes, SessionTypes DEF Step
<1>2. CASE UNCHANGED vars
  BY <1>2 DEF vars, TypeOK
<1> QED BY <1>1, <1>2 DEF Next

(* Every table and every session holds values of its type, always.         *)
THEOREM TypeCorrect == Spec => []TypeOK
<1> QED BY InitTypes, StepTypes, PTL DEF Spec

-----------------------------------------------------------------------------
(* The shapes of a step.  As far as money is concerned a step verifies     *)
(* someone, moves money through an open gate, or leaves transactions and   *)
(* identity_verifications alone and appends rows of neither kind.          *)

OtherRows == {row \in AuditRows : row.event \notin {"money_moved", "identity_verified"}}

VerifyStep(c) ==
    \E k \in Customers, v \in BOOLEAN :
        /\ identity_verifications' =
               identity_verifications \cup {[case |-> c, customer |-> k, verified |-> v]}
        /\ append_audit(c, <<IdentityRow(k, v)>>)
        /\ UNCHANGED transactions

MoneyStep(c) ==
    \E tool \in MONEY_TOOLS, l \in Loans, type \in {"payment", "refund", "fee"}, a \in Int :
        /\ is_identity_verified(c, Owner[l])
        /\ type = "refund" => 0 < a /\ a <= REFUND_AUTO_LIMIT_CENTS /\ prior_refunds(c, l) = {}
        /\ transactions' = Append(transactions, [loan |-> l, case |-> c, type |-> type, amount |-> a])
        /\ append_audit(c, <<MoneyRow(tool, l, Len(transactions) + 1, a)>>)
        /\ UNCHANGED identity_verifications

QuietStep(c) ==
    /\ \E rows \in Seq(OtherRows) : append_audit(c, rows)
    /\ UNCHANGED <<transactions, identity_verifications>>

LEMMA OtherRowTypes ==
    /\ \A d \in Nat, l \in Loans : RaisedRow(d, l) \in OtherRows
    /\ \A d \in Nat, r \in Resolutions : ResolvedRow(d, r) \in OtherRows
    /\ \A l \in Loans, p \in LoanStatuses : FrozenRow(l, p) \in OtherRows
    /\ \A r \in DenialReasons : DeniedRow(r) \in OtherRows
    /\ \A t \in TOOLS, o \in {"ok", "denied"} : ToolCallRow(t, o) \in OtherRows
    /\ EscalatedRow \in OtherRows /\ MessageRow \in OtherRows
    /\ CallerRows \subseteq OtherRows
<1>1. CallerRows \subseteq OtherRows
  <2>1. \A row \in CallerEventRows : row.event \notin {"money_moved", "identity_verified"}
    BY DEF CallerEventRows, CaseReceivedRow, ModelRejectedRow, DeniedRow
  <2> QED BY <2>1, RowTypes, CallerRowsAssumption DEF OtherRows
<1> QED BY <1>1, RowTypes DEF OtherRows, RaisedRow, ResolvedRow, FrozenRow, DeniedRow,
                             ToolCallRow, EscalatedRow, MessageRow

(* A step that leaves the trails alone appends nothing to them.            *)
LEMMA NoRows ==
    ASSUME TypeOK, NEW c \in Cases, UNCHANGED audit_log
    PROVE  \E rows \in Seq(OtherRows) : append_audit(c, rows)
<1>1. <<>> \in Seq(OtherRows) /\ audit_log[c] \o <<>> = audit_log[c]
  BY ConcatEmptySeq DEF TypeOK
<1>2. append_audit(c, <<>>)
  BY <1>1 DEF append_audit, TypeOK
<1> QED BY <1>1, <1>2

LEMMA RaisedShape ==
    ASSUME TypeOK, NEW c \in Cases, Raised(c)
    PROVE  QuietStep(c)
BY NoRows DEF Raised, db, QuietStep

LEMMA DeniedShape ==
    ASSUME NEW c \in Cases, NEW tool \in TOOLS, NEW rows \in Seq(OtherRows), Denied(c, tool, rows)
    PROVE  QuietStep(c)
<1>1. rows \o <<ToolCallRow(tool, "denied")>> \in Seq(OtherRows)
  BY OtherRowTypes, ConcatProperties
<1> QED BY <1>1 DEF Denied, db, QuietStep

LEMMA LoggedShape ==
    ASSUME NEW c \in Cases, NEW tool \in TOOLS, NEW rows \in Seq(OtherRows), Logged(c, tool, rows)
    PROVE  QuietStep(c)
<1>1. rows \o <<ToolCallRow(tool, "ok")>> \in Seq(OtherRows)
  BY OtherRowTypes, ConcatProperties
<1> QED BY <1>1 DEF Logged, db, QuietStep

LEMMA CommittedShape ==
    ASSUME NEW c \in Cases, NEW tool, NEW row \in OtherRows, Committed(c, tool, row),
           UNCHANGED <<transactions, identity_verifications>>
    PROVE  QuietStep(c)
<1>1. <<row>> \in Seq(OtherRows)
  OBVIOUS
<1> QED BY <1>1 DEF Committed, QuietStep

LEMMA MoveMoneyShape ==
    ASSUME TypeOK, NEW c \in Cases, NEW tool \in MONEY_TOOLS, NEW l \in Loans,
           NEW type \in {"payment", "refund", "fee"}, NEW a \in Int,
           type = "refund" => 0 < a /\ a <= REFUND_AUTO_LIMIT_CENTS /\ prior_refunds(c, l) = {},
           is_identity_verified(c, Owner[l]), MoveMoney(c, tool, l, type, a)
    PROVE  MoneyStep(c)
<1> DEFINE t == [loan |-> l, case |-> c, type |-> type, amount |-> a]
<1>1. Len(transactions') = Len(transactions) + 1
  <2>1. t \in Transactions
    BY DEF Transactions
  <2> QED BY <2>1, AppendProperties DEF MoveMoney, TypeOK
<1>2. append_audit(c, <<MoneyRow(tool, l, Len(transactions) + 1, a)>>)
  BY <1>1 DEF MoveMoney, Committed
<1> QED BY <1>2 DEF MoveMoney, MoneyStep

LEMMA MoneyCallShape ==
    ASSUME TypeOK, NEW c \in Cases, NEW l \in Loans, NEW a \in Amounts,
           post_payment(c, l, a) \/ issue_refund(c, l, a) \/ apply_fee(c, l, a)
    PROVE  QuietStep(c) \/ MoneyStep(c)
<1>1. is_identity_verified(c, Owner[l])
  BY DEF post_payment, issue_refund, apply_fee, AskGated, GateOpen
<1>2. a \in Int /\ -a \in Int
  BY AmountsAssumption
<1>3. CASE post_payment(c, l, a)
  BY <1>1, <1>2, <1>3, RaisedShape, MoveMoneyShape DEF post_payment, MONEY_TOOLS
<1>4. CASE issue_refund(c, l, a)
  <2>1. CASE Raised(c)
    BY <2>1, RaisedShape
  <2>2. \A r \in DenialReasons : <<DeniedRow(r)>> \in Seq(OtherRows)
    BY OtherRowTypes
  <2>3. "issue_refund" \in TOOLS /\ "issue_refund" \in MONEY_TOOLS
    BY DEF TOOLS, GATED_TOOLS, MONEY_TOOLS
  <2>4. CASE Denied(c, "issue_refund", <<DeniedRow("over_auto_limit")>>)
    BY <2>2, <2>3, <2>4, DeniedShape DEF DenialReasons
  <2>5. CASE Denied(c, "issue_refund", <<DeniedRow("second_refund_in_case")>>)
    BY <2>2, <2>3, <2>5, DeniedShape DEF DenialReasons
  <2>6. CASE /\ refund_within_auto_limit(a)
             /\ prior_refunds(c, l) = {}
             /\ MoveMoney(c, "issue_refund", l, "refund", a)
    <3>1. 0 < a /\ a <= REFUND_AUTO_LIMIT_CENTS
      BY <2>6 DEF refund_within_auto_limit
    <3> QED BY <1>1, <1>2, <2>3, <2>6, <3>1, MoveMoneyShape
  <2> QED BY <1>4, <2>1, <2>4, <2>5, <2>6 DEF issue_refund
<1>5. CASE apply_fee(c, l, a)
  BY <1>1, <1>2, <1>5, RaisedShape, MoveMoneyShape DEF apply_fee, MONEY_TOOLS
<1> QED BY <1>3, <1>4, <1>5

LEMMA StepShape ==
    ASSUME TypeOK, NEW c \in Cases, Step(c)
    PROVE  QuietStep(c) \/ VerifyStep(c) \/ MoneyStep(c)
<1>1. <<>> \in Seq(OtherRows) /\ <<MessageRow>> \in Seq(OtherRows)
  BY OtherRowTypes
<1>2. ASSUME NEW tool \in TOOLS, BeginCall(c, tool)
      PROVE  QuietStep(c) \/ VerifyStep(c) \/ MoneyStep(c)
  <2>1. ASSUME NEW k \in AnyCustomer, NEW p \in BOOLEAN, NEW q \in BOOLEAN,
               verify_identity(c, k, p, q)
        PROVE  QuietStep(c) \/ VerifyStep(c)
    <3>1. CASE Raised(c)
      BY <3>1, RaisedShape
    <3> DEFINE v == p /\ q
    <3>2. CASE /\ k \in Customers
               /\ identity_verifications' =
                      identity_verifications \cup {[case |-> c, customer |-> k, verified |-> v]}
               /\ Committed(c, "verify_identity", IdentityRow(k, v))
               /\ UNCHANGED <<loans, transactions, disputes, cases>>
      <4>1. v \in BOOLEAN
        OBVIOUS
      <4> HIDE DEF v
      <4> QED BY <3>2, <4>1 DEF Committed, VerifyStep
    <3> QED BY <2>1, <3>1, <3>2 DEF verify_identity
  <2>2. ASSUME NEW l \in AnyLoan, require_identity_verified(c, tool, l)
        PROVE  QuietStep(c)
    <3>1. (IF l \in Loans THEN <<DeniedRow("identity_not_verified")>> ELSE <<>>) \in Seq(OtherRows)
      BY OtherRowTypes DEF DenialReasons
    <3> QED BY <2>2, <3>1, DeniedShape DEF require_identity_verified
  <2>3. ASSUME NEW l \in Loans, NEW k \in AnyCustomer, raise_dispute(c, l, k)
        PROVE  QuietStep(c)
    <3>1. CASE Raised(c)
      BY <3>1, RaisedShape
    <3> DEFINE d == [loan |-> l, customer |-> k, case |-> c, status |-> "open"]
    <3>2. CASE /\ k \in Customers
               /\ disputes' = Append(disputes, d)
               /\ Committed(c, "raise_dispute", RaisedRow(Len(disputes'), l))
               /\ UNCHANGED <<loans, transactions, identity_verifications, cases>>
      <4>1. d \in Disputes
        BY <3>2 DEF Disputes
      <4>2. Len(disputes') \in Nat
        BY <3>2, <4>1, AppendProperties DEF TypeOK
      <4> QED BY <3>2, <4>2, OtherRowTypes, CommittedShape
    <3> QED BY <2>3, <3>1, <3>2 DEF raise_dispute
  <2>4. ASSUME NEW l \in Loans, NEW d, NEW r, resolve_dispute_check(c, l, d, r)
        PROVE  QuietStep(c)
    <3>1. CASE Denied(c, "resolve_dispute", <<>>)
      BY <1>1, <3>1, DeniedShape DEF TOOLS, GATED_TOOLS
    <3>2. CASE Raised(c)
      BY <3>2, RaisedShape
    <3>3. CASE UNCHANGED <<db, audit_log>>
      BY <3>3, NoRows DEF db, QuietStep
    <3> QED BY <2>4, <3>1, <3>2, <3>3 DEF resolve_dispute_check
  <2>5. ASSUME NEW l \in AnyLoan, freeze_account_read(c, l)
        PROVE  QuietStep(c)
    <3>1. CASE Raised(c)
      BY <3>1, RaisedShape
    <3>2. CASE UNCHANGED <<db, audit_log>>
      BY <3>2, NoRows DEF db, QuietStep
    <3> QED BY <2>5, <3>1, <3>2 DEF freeze_account_read
  <2>6. ASSUME escalate_to_human(c)
        PROVE  QuietStep(c)
    BY <2>6, OtherRowTypes, CommittedShape DEF escalate_to_human
  <2>7. ASSUME send_customer_message(c)
        PROVE  QuietStep(c)
    BY <1>1, <2>7, LoggedShape DEF send_customer_message, TOOLS, UNGATED_TOOLS
  <2>8. ASSUME NEW known \in BOOLEAN, read_tool(c, tool, known)
        PROVE  QuietStep(c)
    BY <1>1, <2>8, LoggedShape, RaisedShape DEF read_tool
  <2>9. ASSUME bad_arguments(c, tool)
        PROVE  QuietStep(c)
    BY <2>9, RaisedShape DEF bad_arguments
  <2> QED BY <1>2, <2>1, <2>2, <2>3, <2>4, <2>5, <2>6, <2>7, <2>8, <2>9, MoneyCallShape DEF BeginCall
<1>3. ASSUME ContinueCall(c)
      PROVE  QuietStep(c)
  <2>1. CASE resolve_dispute_update(c)
    <3>1. call[c].dispute \in Nat /\ call[c].resolution \in Resolutions
      BY <2>1, CallFields DEF resolve_dispute_update, Continue, TypeOK
    <3>2. Committed(c, "resolve_dispute", ResolvedRow(call[c].dispute, call[c].resolution))
      BY <2>1 DEF resolve_dispute_update
    <3> QED BY <2>1, <3>1, <3>2, OtherRowTypes, CommittedShape DEF resolve_dispute_update
  <2>2. CASE freeze_account_update(c)
    <3>1. call[c].loan \in Loans /\ call[c].prior \in LoanStatuses
      BY <2>2, CallFields DEF freeze_account_update, Continue, TypeOK
    <3> QED BY <2>2, <3>1, OtherRowTypes, CommittedShape DEF freeze_account_update
  <2>3. CASE LogCall(c)
    <3>1. call[c].tool \in TOOLS
      BY <2>3, CallFields DEF LogCall, Continue, TypeOK
    <3>2. <<ToolCallRow(call[c].tool, "ok")>> \in Seq(OtherRows)
      BY <3>1, OtherRowTypes
    <3> QED BY <2>3, <3>2 DEF LogCall, db, QuietStep
  <2> QED BY <1>3, <2>1, <2>2, <2>3 DEF ContinueCall
<1>4. ASSUME NEW row \in CallerRows, CallerRow(c, row)
      PROVE  QuietStep(c)
  <2>1. <<row>> \in Seq(OtherRows)
    BY OtherRowTypes
  <2> QED BY <1>4, <2>1 DEF CallerRow, db, QuietStep
<1>5. ASSUME DatabaseLocked(c)
      PROVE  QuietStep(c)
  BY <1>5, RaisedShape DEF DatabaseLocked
<1>6. ASSUME \/ OpenCase(c) \/ SessionEnds(c)
             \/ \E s \in {"resolved", "escalated"} : CompleteCase(c, s)
      PROVE  QuietStep(c)
  BY <1>6, NoRows DEF OpenCase, SessionEnds, CompleteCase, db, QuietStep
<1> QED BY <1>2, <1>3, <1>4, <1>5, <1>6 DEF Step

(* What an append does to the trails: the rows of every case stay where    *)
(* they are, and only the new ones follow.                                 *)
LEMMA TrailTypes ==
    ASSUME TypeOK, NEW e \in Cases
    PROVE  /\ audit_log[e] \in Seq(AuditRows)
           /\ Len(audit_log[e]) \in Nat
           /\ DOMAIN audit_log[e] = 1 .. Len(audit_log[e])
BY LenProperties DEF TypeOK

LEMMA OtherTrails ==
    ASSUME TypeOK, NEW c \in Cases, NEW rows, append_audit(c, rows), NEW e \in Cases, e # c
    PROVE  audit_log'[e] = audit_log[e]
BY DEF append_audit, TypeOK

LEMMA Appended ==
    ASSUME TypeOK, NEW c \in Cases, NEW rows \in Seq(AuditRows), append_audit(c, rows)
    PROVE  /\ audit_log'[c] \in Seq(AuditRows)
           /\ Len(audit_log'[c]) = Len(audit_log[c]) + Len(rows)
           /\ DOMAIN audit_log'[c] = 1 .. Len(audit_log[c]) + Len(rows)
           /\ \A i \in 1 .. Len(audit_log[c]) : audit_log'[c][i] = audit_log[c][i]
           /\ \A i \in Len(audit_log[c]) + 1 .. Len(audit_log[c]) + Len(rows) :
                 audit_log'[c][i] = rows[i - Len(audit_log[c])]
<1>1. audit_log[c] \in Seq(AuditRows) /\ audit_log'[c] = audit_log[c] \o rows
  BY DEF append_audit, TypeOK
<1>2. /\ audit_log'[c] \in Seq(AuditRows)
      /\ Len(audit_log'[c]) = Len(audit_log[c]) + Len(rows)
      /\ \A i \in 1 .. Len(audit_log[c]) + Len(rows) :
            audit_log'[c][i] = IF i <= Len(audit_log[c]) THEN audit_log[c][i]
                                                         ELSE rows[i - Len(audit_log[c])]
  BY <1>1, ConcatProperties
<1>3. Len(audit_log[c]) \in Nat /\ Len(rows) \in Nat
  BY <1>1, LenProperties
<1>4. DOMAIN audit_log'[c] = 1 .. Len(audit_log'[c])
  BY <1>2, LenProperties
<1>5. \A i \in 1 .. Len(audit_log[c]) :
        i \in 1 .. Len(audit_log[c]) + Len(rows) /\ i <= Len(audit_log[c])
  BY <1>3
<1>6. \A i \in Len(audit_log[c]) + 1 .. Len(audit_log[c]) + Len(rows) :
        i \in 1 .. Len(audit_log[c]) + Len(rows) /\ ~(i <= Len(audit_log[c]))
  BY <1>3
<1> QED BY <1>2, <1>4, <1>5, <1>6

LEMMA OldRows ==
    ASSUME TypeOK, NEW c \in Cases, NEW rows \in Seq(AuditRows), append_audit(c, rows),
           NEW e \in Cases
    PROVE  \A i \in DOMAIN audit_log[e] :
              i \in DOMAIN audit_log'[e] /\ audit_log'[e][i] = audit_log[e][i]
<1>1. CASE e = c
  <2>1. /\ DOMAIN audit_log'[c] = 1 .. Len(audit_log[c]) + Len(rows)
        /\ \A i \in 1 .. Len(audit_log[c]) : audit_log'[c][i] = audit_log[c][i]
    BY Appended
  <2>2. DOMAIN audit_log[c] = 1 .. Len(audit_log[c]) /\ Len(audit_log[c]) \in Nat
    BY TrailTypes
  <2>3. Len(rows) \in Nat
    BY LenProperties
  <2> QED BY <1>1, <2>1, <2>2, <2>3
<1>2. CASE e # c
  BY <1>2, OtherTrails
<1> QED BY <1>1, <1>2

(* Other rows leave the rows of money and of identity where they were.     *)
LEMMA NoMoneyAppended ==
    ASSUME TypeOK, NEW c \in Cases, NEW rows \in Seq(OtherRows), append_audit(c, rows)
    PROVE  \A e \in Cases : \A i \in DOMAIN audit_log'[e] :
               audit_log'[e][i].event \in {"money_moved", "identity_verified"} => i \in DOMAIN audit_log[e]
<1>1. rows \in Seq(AuditRows) /\ \A n \in 1 .. Len(rows) : rows[n].event \notin {"money_moved", "identity_verified"}
  BY DEF OtherRows
<1>2. SUFFICES ASSUME NEW e \in Cases, NEW i \in DOMAIN audit_log'[e],
                      audit_log'[e][i].event \in {"money_moved", "identity_verified"}
               PROVE  i \in DOMAIN audit_log[e]
  OBVIOUS
<1>3. CASE e # c
  BY <1>1, <1>3, OtherTrails
<1>4. CASE e = c
  <2>1. DOMAIN audit_log[c] = 1 .. Len(audit_log[c]) /\ Len(audit_log[c]) \in Nat
    BY TrailTypes
  <2>2. Len(rows) \in Nat
    BY <1>1, LenProperties
  <2>3. /\ DOMAIN audit_log'[c] = 1 .. Len(audit_log[c]) + Len(rows)
        /\ \A n \in Len(audit_log[c]) + 1 .. Len(audit_log[c]) + Len(rows) :
              audit_log'[c][n] = rows[n - Len(audit_log[c])]
    BY <1>1, Appended
  <2>4. SUFFICES ASSUME i > Len(audit_log[c]) PROVE FALSE
    BY <1>2, <1>4, <2>1, <2>2, <2>3
  <2>5. i - Len(audit_log[c]) \in 1 .. Len(rows) /\ audit_log'[c][i] = rows[i - Len(audit_log[c])]
    BY <1>4, <2>1, <2>2, <2>3, <2>4
  <2> QED BY <1>1, <1>2, <1>4, <2>5
<1> QED BY <1>3, <1>4

(* One row appended: it is the last one of its case, the others are old.   *)
LEMMA AppendedOne ==
    ASSUME TypeOK, NEW c \in Cases, NEW row \in AuditRows, append_audit(c, <<row>>)
    PROVE  /\ Len(audit_log[c]) + 1 \in DOMAIN audit_log'[c]
           /\ audit_log'[c][Len(audit_log[c]) + 1] = row
           /\ \A e \in Cases : \A i \in DOMAIN audit_log'[e] :
                 i \in DOMAIN audit_log[e] \/ (e = c /\ i = Len(audit_log[c]) + 1)
<1> DEFINE rows == <<row>>
<1>1. rows \in Seq(AuditRows) /\ Len(rows) = 1 /\ rows[1] = row /\ append_audit(c, rows)
  OBVIOUS
<1>2. DOMAIN audit_log[c] = 1 .. Len(audit_log[c]) /\ Len(audit_log[c]) \in Nat
  BY TrailTypes
<1> HIDE DEF rows
<1>3. /\ DOMAIN audit_log'[c] = 1 .. Len(audit_log[c]) + Len(rows)
      /\ \A i \in Len(audit_log[c]) + 1 .. Len(audit_log[c]) + Len(rows) :
            audit_log'[c][i] = rows[i - Len(audit_log[c])]
  BY <1>1, Appended
<1>4. \A e \in Cases : e # c => audit_log'[e] = audit_log[e]
  BY <1>1, OtherTrails
<1> QED BY <1>1, <1>2, <1>3, <1>4

-----------------------------------------------------------------------------
(* Money moves only after verification *)

(* Why the gate's reading of identity_verifications says something about   *)
(* the trail: a successful verification is on it.                          *)
OnTrail(trail, k) ==
    \E j \in DOMAIN trail : /\ trail[j].event = "identity_verified"
                            /\ trail[j].customer = k
                            /\ trail[j].verified

VerifiedOnTrail ==
    \A v \in identity_verifications : v.verified => OnTrail(audit_log[v.case], v.customer)

MoneyInv == VerifiedOnTrail /\ MoneyAfterOwnerVerified

LEMMA StillOnTrail ==
    ASSUME TypeOK, NEW c \in Cases, NEW rows \in Seq(AuditRows), append_audit(c, rows),
           NEW e \in Cases, NEW k, OnTrail(audit_log[e], k)
    PROVE  OnTrail(audit_log'[e], k)
BY OldRows DEF OnTrail

LEMMA StillBefore ==
    ASSUME TypeOK, NEW c \in Cases, NEW rows \in Seq(AuditRows), append_audit(c, rows),
           NEW e \in Cases, NEW k, NEW i \in DOMAIN audit_log[e],
           VerifiedBefore(audit_log[e], i, k)
    PROVE  VerifiedBefore(audit_log'[e], i, k)
<1>1. 1 .. i - 1 \subseteq DOMAIN audit_log[e]
  BY TrailTypes
<1> QED BY <1>1, OldRows DEF VerifiedBefore

(* Old rows and old verifications keep what they say.                      *)
LEMMA OldMoney ==
    ASSUME TypeOK, MoneyInv, NEW c \in Cases, NEW rows \in Seq(AuditRows), append_audit(c, rows)
    PROVE  /\ \A v \in identity_verifications : v.verified => OnTrail(audit_log'[v.case], v.customer)
           /\ \A e \in Cases : \A i \in DOMAIN audit_log[e] :
                 audit_log'[e][i].event = "money_moved" =>
                     VerifiedBefore(audit_log'[e], i, Owner[audit_log'[e][i].loan])
<1>1. \A v \in identity_verifications : v.case \in Cases
  BY DEF TypeOK, Verifications
<1>2. \A v \in identity_verifications : v.verified => OnTrail(audit_log'[v.case], v.customer)
  BY <1>1, StillOnTrail DEF MoneyInv, VerifiedOnTrail
<1>3. \A e \in Cases : \A i \in DOMAIN audit_log[e] :
        audit_log'[e][i].event = "money_moved" =>
            VerifiedBefore(audit_log'[e], i, Owner[audit_log'[e][i].loan])
  BY OldRows, StillBefore DEF MoneyInv, MoneyAfterOwnerVerified
<1> QED BY <1>2, <1>3

LEMMA QuietMoney ==
    ASSUME TypeOK, MoneyInv, NEW c \in Cases, QuietStep(c)
    PROVE  MoneyInv'
<1>1. PICK rows \in Seq(OtherRows) : append_audit(c, rows)
  BY DEF QuietStep
<1>2. rows \in Seq(AuditRows) /\ \A n \in 1 .. Len(rows) : rows[n].event # "money_moved"
  BY DEF OtherRows
<1>3. VerifiedOnTrail'
  BY <1>1, <1>2, OldMoney DEF QuietStep, VerifiedOnTrail
<1>4. \A e \in Cases : \A i \in DOMAIN audit_log'[e] :
        audit_log'[e][i].event = "money_moved" => i \in DOMAIN audit_log[e]
  BY <1>1, NoMoneyAppended
<1>5. MoneyAfterOwnerVerified'
  BY <1>1, <1>2, <1>4, OldMoney DEF MoneyAfterOwnerVerified
<1> QED BY <1>3, <1>5 DEF MoneyInv

LEMMA VerifyMoney ==
    ASSUME TypeOK, MoneyInv, NEW c \in Cases, VerifyStep(c)
    PROVE  MoneyInv'
<1>1. PICK k \in Customers, v \in BOOLEAN :
        /\ identity_verifications' =
               identity_verifications \cup {[case |-> c, customer |-> k, verified |-> v]}
        /\ append_audit(c, <<IdentityRow(k, v)>>)
  BY DEF VerifyStep
<1>2. IdentityRow(k, v) \in AuditRows /\ <<IdentityRow(k, v)>> \in Seq(AuditRows)
  BY RowTypes
<1>3. v => OnTrail(audit_log'[c], k)
  <2> DEFINE n == Len(audit_log[c]) + 1
  <2>1. n \in DOMAIN audit_log'[c] /\ audit_log'[c][n] = IdentityRow(k, v)
    BY <1>1, <1>2, AppendedOne
  <2> HIDE DEF n
  <2> QED BY <2>1 DEF OnTrail, IdentityRow
<1>4. VerifiedOnTrail'
  <2>1. \A w \in identity_verifications : w.verified => OnTrail(audit_log'[w.case], w.customer)
    BY <1>1, <1>2, OldMoney
  <2>2. \A w \in identity_verifications' :
          w \in identity_verifications \/ w = [case |-> c, customer |-> k, verified |-> v]
    BY <1>1
  <2> QED BY <1>3, <2>1, <2>2 DEF VerifiedOnTrail
<1>5. ASSUME NEW e \in Cases, NEW i \in DOMAIN audit_log'[e], audit_log'[e][i].event = "money_moved"
      PROVE  i \in DOMAIN audit_log[e]
  BY <1>1, <1>2, <1>5, AppendedOne DEF IdentityRow
<1>6. MoneyAfterOwnerVerified'
  BY <1>1, <1>2, <1>5, OldMoney DEF MoneyAfterOwnerVerified
<1> QED BY <1>4, <1>6 DEF MoneyInv

LEMMA MovedMoney ==
    ASSUME TypeOK, MoneyInv, NEW c \in Cases, MoneyStep(c)
    PROVE  MoneyInv'
<1>1. PICK tool \in MONEY_TOOLS, l \in Loans, a \in Int :
        /\ is_identity_verified(c, Owner[l])
        /\ append_audit(c, <<MoneyRow(tool, l, Len(transactions) + 1, a)>>)
        /\ UNCHANGED identity_verifications
  BY DEF MoneyStep
<1> DEFINE row == MoneyRow(tool, l, Len(transactions) + 1, a)
           n == Len(audit_log[c]) + 1
<1>2. row \in AuditRows /\ <<row>> \in Seq(AuditRows) /\ row.loan = l
  <2>1. Len(transactions) + 1 \in Nat
    BY LenProperties DEF TypeOK
  <2>2. row \in AuditRows
    BY <2>1, RowTypes
  <2> QED BY <2>2 DEF MoneyRow
<1> HIDE DEF row
<1>3. VerifiedOnTrail'
  BY <1>1, <1>2, OldMoney DEF row, VerifiedOnTrail
<1>4. VerifiedBefore(audit_log'[c], n, Owner[l])
  <2>1. OnTrail(audit_log[c], Owner[l])
    BY <1>1 DEF is_identity_verified, MoneyInv, VerifiedOnTrail
  <2>2. PICK j \in DOMAIN audit_log[c] : /\ audit_log[c][j].event = "identity_verified"
                                         /\ audit_log[c][j].customer = Owner[l]
                                         /\ audit_log[c][j].verified
    BY <2>1 DEF OnTrail
  <2>3. audit_log'[c][j] = audit_log[c][j]
    BY <1>1, <1>2, OldRows DEF row
  <2>4. j \in 1 .. n - 1
    BY TrailTypes
  <2> QED BY <2>2, <2>3, <2>4 DEF VerifiedBefore
<1>5. ASSUME NEW e \in Cases, NEW i \in DOMAIN audit_log'[e], audit_log'[e][i].event = "money_moved"
      PROVE  VerifiedBefore(audit_log'[e], i, Owner[audit_log'[e][i].loan])
  <2>1. CASE i \in DOMAIN audit_log[e]
    BY <1>1, <1>2, <1>5, <2>1, OldMoney DEF row
  <2>2. CASE e = c /\ i = n
    <3>1. audit_log'[c][n] = row
      BY <1>1, <1>2, AppendedOne DEF row
    <3> QED BY <1>2, <1>4, <2>2, <3>1
  <2> QED BY <1>1, <1>2, <1>5, <2>1, <2>2, AppendedOne DEF row
<1> QED BY <1>3, <1>5 DEF MoneyInv, MoneyAfterOwnerVerified

LEMMA MoneyInvHolds == Spec => []MoneyInv
<1>1. Init => MoneyInv
  BY DEF Init, MoneyInv, VerifiedOnTrail, MoneyAfterOwnerVerified
<1>2. TypeOK /\ MoneyInv /\ [Next]_vars => MoneyInv'
  <2> SUFFICES ASSUME TypeOK, MoneyInv, [Next]_vars PROVE MoneyInv'
    OBVIOUS
  <2>1. ASSUME NEW c \in Cases, Step(c) PROVE MoneyInv'
    BY <2>1, StepShape, QuietMoney, VerifyMoney, MovedMoney
  <2>2. CASE UNCHANGED vars
    BY <2>2 DEF vars, MoneyInv, VerifiedOnTrail, MoneyAfterOwnerVerified
  <2> QED BY <2>1, <2>2 DEF Next
<1> QED BY <1>1, <1>2, TypeCorrect, PTL DEF Spec

(* On every trail, the money that moved on a loan was moved after the      *)
(* loan's owner was verified in the same case.                             *)
THEOREM MoneyIsGated == Spec => []MoneyAfterOwnerVerified
<1>1. MoneyInv => MoneyAfterOwnerVerified
  BY DEF MoneyInv
<1> QED BY <1>1, MoneyInvHolds, PTL

(* And the other way: who is verified on a trail is so in the table.       *)
TrailIsInTable ==
    \A c \in Cases, k \in Customers : OnTrail(audit_log[c], k) => is_identity_verified(c, k)

LEMMA VerifiedInTable == Spec => []TrailIsInTable
<1>1. Init => TrailIsInTable
  BY DEF Init, TrailIsInTable, OnTrail
<1>2. TypeOK /\ TrailIsInTable /\ [Next]_vars => TrailIsInTable'
  <2> SUFFICES ASSUME TypeOK, TrailIsInTable, [Next]_vars, NEW e \in Cases, NEW k \in Customers,
                      OnTrail(audit_log'[e], k)
               PROVE  is_identity_verified(e, k)'
    BY DEF TrailIsInTable
  <2>1. PICK i \in DOMAIN audit_log'[e] : /\ audit_log'[e][i].event = "identity_verified"
                                         /\ audit_log'[e][i].customer = k
                                         /\ audit_log'[e][i].verified
    BY DEF OnTrail
  <2>2. ASSUME i \in DOMAIN audit_log[e], audit_log'[e][i] = audit_log[e][i],
               identity_verifications \subseteq identity_verifications'
        PROVE  is_identity_verified(e, k)'
    BY <2>1, <2>2 DEF TrailIsInTable, OnTrail, is_identity_verified
  <2>3. ASSUME NEW c \in Cases, NEW rows \in Seq(AuditRows), append_audit(c, rows),
               i \in DOMAIN audit_log[e], identity_verifications \subseteq identity_verifications'
        PROVE  is_identity_verified(e, k)'
    BY <2>2, <2>3, OldRows
  <2>4. ASSUME NEW c \in Cases, QuietStep(c)
        PROVE  is_identity_verified(e, k)'
    <3>1. PICK rows \in Seq(OtherRows) : append_audit(c, rows)
      BY <2>4 DEF QuietStep
    <3>2. rows \in Seq(AuditRows)
      BY DEF OtherRows
    <3> QED BY <2>1, <2>3, <2>4, <3>1, <3>2, NoMoneyAppended DEF QuietStep
  <2>5. ASSUME NEW c \in Cases, NEW row \in AuditRows, append_audit(c, <<row>>),
               identity_verifications \subseteq identity_verifications'
        PROVE  is_identity_verified(e, k)' \/ (e = c /\ audit_log'[e][i] = row)
    <3>1. <<row>> \in Seq(AuditRows)
      OBVIOUS
    <3> QED BY <2>1, <2>3, <2>5, <3>1, AppendedOne
  <2>6. ASSUME NEW c \in Cases, VerifyStep(c)
        PROVE  is_identity_verified(e, k)'
    <3>1. PICK x \in Customers, v \in BOOLEAN :
              /\ identity_verifications' =
                     identity_verifications \cup {[case |-> c, customer |-> x, verified |-> v]}
              /\ append_audit(c, <<IdentityRow(x, v)>>)
      BY <2>6 DEF VerifyStep
    <3>2. CASE e = c /\ audit_log'[e][i] = IdentityRow(x, v)
      <4> DEFINE found == [case |-> c, customer |-> x, verified |-> v]
      <4>1. IdentityRow(x, v).customer = x /\ (IdentityRow(x, v).verified <=> v)
        BY DEF IdentityRow
      <4>2. x = k /\ v
        BY <2>1, <3>2, <4>1
      <4>3. found \in identity_verifications'
        BY <3>1
      <4>4. found.case = e /\ found.customer = k /\ found.verified
        BY <3>2, <4>2
      <4> QED BY <4>3, <4>4 DEF is_identity_verified
    <3>3. IdentityRow(x, v) \in AuditRows
      BY RowTypes
    <3> QED BY <2>5, <3>1, <3>2, <3>3
  <2>7. ASSUME NEW c \in Cases, MoneyStep(c)
        PROVE  is_identity_verified(e, k)'
    <3>1. PICK tool \in MONEY_TOOLS, l \in Loans, a \in Int :
              append_audit(c, <<MoneyRow(tool, l, Len(transactions) + 1, a)>>)
      BY <2>7 DEF MoneyStep
    <3> DEFINE row == MoneyRow(tool, l, Len(transactions) + 1, a)
    <3>2. Len(transactions) + 1 \in Nat
      BY LenProperties DEF TypeOK
    <3>3. row \in AuditRows /\ row.event = "money_moved"
      BY <3>2, RowTypes DEF MoneyRow
    <3> HIDE DEF row
    <3> QED BY <2>1, <2>5, <2>7, <3>1, <3>3 DEF MoneyStep, row
  <2>8. CASE UNCHANGED vars
    BY <2>1, <2>2, <2>8 DEF vars
  <2> QED BY <2>4, <2>6, <2>7, <2>8, StepShape DEF Next
<1> QED BY <1>1, <1>2, TypeCorrect, PTL DEF Spec

-----------------------------------------------------------------------------
(* Refunds *)

(* The transactions after one more, and the new one's fields.              *)
LEMMA AppendedMove ==
    ASSUME TypeOK, NEW c \in Cases, NEW l \in Loans,
           NEW type \in {"payment", "refund", "fee"}, NEW a \in Int,
           transactions' = Append(transactions, [loan |-> l, case |-> c, type |-> type, amount |-> a])
    PROVE  LET n == Len(transactions) + 1
           IN  /\ n \in Nat /\ n \notin DOMAIN transactions
               /\ DOMAIN transactions' = DOMAIN transactions \cup {n}
               /\ \A m \in DOMAIN transactions : transactions'[m] = transactions[m]
               /\ transactions'[n].loan = l
               /\ transactions'[n].case = c
               /\ transactions'[n].type = type
               /\ transactions'[n].amount = a
<1> DEFINE t == [loan |-> l, case |-> c, type |-> type, amount |-> a]
           n == Len(transactions) + 1
<1>1. t \in Transactions /\ transactions \in Seq(Transactions)
  BY DEF Transactions, TypeOK
<1>2. /\ Len(transactions) \in Nat
      /\ DOMAIN transactions = 1 .. Len(transactions)
  BY <1>1, LenProperties
<1>3. t.loan = l /\ t.case = c /\ t.type = type /\ t.amount = a
  OBVIOUS
<1>4. transactions' = Append(transactions, t)
  OBVIOUS
<1> HIDE DEF t
<1>5. /\ Len(transactions') = n
      /\ \A m \in 1 .. Len(transactions) : transactions'[m] = transactions[m]
      /\ transactions'[n] = t
      /\ transactions' \in Seq(Transactions)
  BY <1>1, <1>4, AppendProperties
<1>6. DOMAIN transactions' = 1 .. n
  BY <1>5, LenProperties
<1> QED BY <1>2, <1>3, <1>5, <1>6

(* A case refunds a loan at most once, within the limit, and only a loan   *)
(* whose owner it verified.  Inductive by itself: the count reads the      *)
(* table the property is about, and no verification is ever taken back.    *)
THEOREM RefundsAreLimited == Spec => []RefundsWithinPolicy
<1>1. Init => RefundsWithinPolicy
  BY DEF Init, RefundsWithinPolicy
<1>2. TypeOK /\ RefundsWithinPolicy /\ [Next]_vars => RefundsWithinPolicy'
  <2> SUFFICES ASSUME TypeOK, RefundsWithinPolicy, [Next]_vars PROVE RefundsWithinPolicy'
    OBVIOUS
  <2>1. CASE UNCHANGED transactions /\ identity_verifications \subseteq identity_verifications'
    BY <2>1 DEF RefundsWithinPolicy, is_identity_verified
  <2>2. ASSUME NEW c \in Cases, MoneyStep(c) PROVE RefundsWithinPolicy'
    <3>1. PICK l \in Loans, type \in {"payment", "refund", "fee"}, a \in Int :
            /\ is_identity_verified(c, Owner[l]) /\ UNCHANGED identity_verifications
            /\ type = "refund" => 0 < a /\ a <= REFUND_AUTO_LIMIT_CENTS /\ prior_refunds(c, l) = {}
            /\ transactions' = Append(transactions, [loan |-> l, case |-> c, type |-> type, amount |-> a])
      BY <2>2 DEF MoneyStep
    <3> DEFINE n == Len(transactions) + 1
    <3>2. /\ n \in Nat /\ n \notin DOMAIN transactions
          /\ DOMAIN transactions' = DOMAIN transactions \cup {n}
          /\ \A m \in DOMAIN transactions : transactions'[m] = transactions[m]
          /\ transactions'[n].loan = l
          /\ transactions'[n].case = c
          /\ transactions'[n].type = type
          /\ transactions'[n].amount = a
      BY <3>1, AppendedMove
    <3> HIDE DEF n
    <3>3. \A m \in DOMAIN transactions :
            /\ transactions[m].type = "refund"
            /\ transactions[m].case = c
            /\ transactions[m].loan = l
            => type # "refund"
      BY <3>1 DEF prior_refunds
    <3>4. \A m \in DOMAIN transactions' :
            transactions'[m].type = "refund" =>
                0 < transactions'[m].amount /\ transactions'[m].amount <= REFUND_AUTO_LIMIT_CENTS
      BY <3>1, <3>2 DEF RefundsWithinPolicy
    <3>5. \A m, k \in DOMAIN transactions' :
            /\ transactions'[m].type = "refund" /\ transactions'[k].type = "refund"
            /\ transactions'[m].case = transactions'[k].case
            /\ transactions'[m].loan = transactions'[k].loan
            => m = k
      BY <3>2, <3>3 DEF RefundsWithinPolicy
    <3>6. \A m \in DOMAIN transactions' :
            transactions'[m].type = "refund" =>
                is_identity_verified(transactions[m].case, Owner[transactions[m].loan])'
      BY <3>1, <3>2 DEF RefundsWithinPolicy, is_identity_verified
    <3> QED BY <3>4, <3>5, <3>6 DEF RefundsWithinPolicy
  <2>3. ASSUME NEW c \in Cases, Step(c) PROVE RefundsWithinPolicy'
    BY <2>1, <2>2, <2>3, StepShape DEF QuietStep, VerifyStep
  <2> QED BY <2>1, <2>3 DEF Next, vars
<1> QED BY <1>1, <1>2, TypeCorrect, PTL DEF Spec

-----------------------------------------------------------------------------
(* Transactions and trails *)

LEMMA CaseOfMove ==
    ASSUME TypeOK, NEW n \in DOMAIN transactions
    PROVE  transactions[n].case \in Cases
<1>1. transactions[n] \in Transactions
  BY ElementOfSeq, LenProperties DEF TypeOK
<1> QED BY <1>1 DEF Transactions

(* Rows that are not of money report nothing.                              *)
LEMMA OthersMatch ==
    ASSUME TypeOK, TransactionsMatchAudit, NEW c \in Cases, NEW rows \in Seq(AuditRows),
           append_audit(c, rows), UNCHANGED transactions,
           \A e \in Cases : \A i \in DOMAIN audit_log'[e] :
               audit_log'[e][i].event = "money_moved" => i \in DOMAIN audit_log[e]
    PROVE  TransactionsMatchAudit'
<1>2. \A e \in Cases : \A i \in DOMAIN audit_log[e] :
        i \in DOMAIN audit_log'[e] /\ audit_log'[e][i] = audit_log[e][i]
  BY OldRows
<1>3. \A e \in Cases : \A i \in DOMAIN audit_log'[e] :
        audit_log'[e][i].event = "money_moved" =>
            i \in DOMAIN audit_log[e] /\ audit_log'[e][i] = audit_log[e][i]
  BY <1>2
<1>4. \A e \in Cases : \A i \in DOMAIN audit_log'[e] :
        audit_log'[e][i].event = "money_moved" => Reports(audit_log'[e][i], e, transactions')
  BY <1>3 DEF TransactionsMatchAudit
<1>5. ASSUME NEW n \in DOMAIN transactions'
      PROVE  ReportedOnce(audit_log'[transactions'[n].case], n)
  <2> DEFINE e == transactions[n].case
  <2>1. e \in Cases /\ transactions'[n].case = e
    BY <1>5, CaseOfMove
  <2>2. ReportedOnce(audit_log[e], n)
    BY <1>5 DEF TransactionsMatchAudit
  <2> HIDE DEF e
  <2>3. ReportedOnce(audit_log'[e], n)
    BY <1>2, <1>3, <2>1, <2>2 DEF ReportedOnce
  <2> QED BY <2>1, <2>3
<1> QED BY <1>4, <1>5 DEF TransactionsMatchAudit

(* A transaction and the row that reports it.                              *)
LEMMA MoneyMatches ==
    ASSUME TypeOK, TransactionsMatchAudit, NEW c \in Cases, MoneyStep(c)
    PROVE  TransactionsMatchAudit'
<1> DEFINE n == Len(transactions) + 1
           p == Len(audit_log[c]) + 1
<1>1. PICK tool \in MONEY_TOOLS, l \in Loans, type \in {"payment", "refund", "fee"}, a \in Int :
        /\ transactions' = Append(transactions, [loan |-> l, case |-> c, type |-> type, amount |-> a])
        /\ append_audit(c, <<MoneyRow(tool, l, n, a)>>)
  BY DEF MoneyStep
<1> DEFINE row == MoneyRow(tool, l, n, a)
<1>2. /\ n \in Nat /\ n \notin DOMAIN transactions
      /\ DOMAIN transactions' = DOMAIN transactions \cup {n}
      /\ \A m \in DOMAIN transactions : transactions'[m] = transactions[m]
      /\ transactions'[n].loan = l /\ transactions'[n].case = c /\ transactions'[n].amount = a
  BY <1>1, AppendedMove
<1>3. row \in AuditRows
  BY <1>2, RowTypes
<1>4. row.event = "money_moved" /\ row.loan = l /\ row.txn = n /\ row.amount = a
  BY DEF MoneyRow
<1>5. append_audit(c, <<row>>)
  BY <1>1
<1> HIDE DEF row, n
<1>6. /\ p \in DOMAIN audit_log'[c] /\ audit_log'[c][p] = row
      /\ \A e \in Cases : \A i \in DOMAIN audit_log'[e] :
            i \in DOMAIN audit_log[e] \/ (e = c /\ i = p)
  BY <1>3, <1>5, AppendedOne
<1>7. \A e \in Cases : \A i \in DOMAIN audit_log[e] :
        i \in DOMAIN audit_log'[e] /\ audit_log'[e][i] = audit_log[e][i]
  <2>1. <<row>> \in Seq(AuditRows)
    BY <1>3
  <2> QED BY <1>5, <2>1, OldRows
<1> HIDE DEF p
<1>8. \A e \in Cases : \A i \in DOMAIN audit_log[e] :
        audit_log[e][i].event = "money_moved" => Reports(audit_log[e][i], e, transactions)
  BY DEF TransactionsMatchAudit
<1>9. ASSUME NEW e \in Cases, NEW i \in DOMAIN audit_log'[e], audit_log'[e][i].event = "money_moved"
      PROVE  Reports(audit_log'[e][i], e, transactions')
  <2>1. CASE i \in DOMAIN audit_log[e]
    BY <1>2, <1>7, <1>8, <1>9, <2>1 DEF Reports
  <2>2. CASE e = c /\ i = p
    BY <1>2, <1>4, <1>6, <2>2 DEF Reports
  <2> QED BY <1>6, <2>1, <2>2
<1>10. ASSUME NEW m \in DOMAIN transactions'
       PROVE  ReportedOnce(audit_log'[transactions'[m].case], m)
  <2>1. CASE m = n
    <3>1. \A i \in DOMAIN audit_log[c] :
            audit_log[c][i].event = "money_moved" => audit_log[c][i].txn # n
      BY <1>2, <1>8 DEF Reports
    <3>2. ReportedOnce(audit_log'[c], n)
      BY <1>4, <1>6, <1>7, <3>1 DEF ReportedOnce
    <3> QED BY <1>2, <2>1, <3>2
  <2>2. CASE m \in DOMAIN transactions
    <3> DEFINE e == transactions[m].case
    <3>1. e \in Cases /\ transactions'[m].case = e /\ m # n
      BY <1>2, <2>2, CaseOfMove
    <3>2. ReportedOnce(audit_log[e], m)
      BY <2>2 DEF TransactionsMatchAudit
    <3> HIDE DEF e
    <3>3. ReportedOnce(audit_log'[e], m)
      BY <1>4, <1>6, <1>7, <3>1, <3>2 DEF ReportedOnce
    <3> QED BY <3>1, <3>3
  <2> QED BY <1>2, <2>1, <2>2
<1> QED BY <1>9, <1>10 DEF TransactionsMatchAudit

(* The transactions and the rows of money on the trails are in one-to-one  *)
(* correspondence, in case, loan and amount.                               *)
THEOREM MoneyIsOnRecord == Spec => []TransactionsMatchAudit
<1>1. Init => TransactionsMatchAudit
  BY DEF Init, TransactionsMatchAudit
<1>2. TypeOK /\ TransactionsMatchAudit /\ [Next]_vars => TransactionsMatchAudit'
  <2> SUFFICES ASSUME TypeOK, TransactionsMatchAudit, [Next]_vars PROVE TransactionsMatchAudit'
    OBVIOUS
  <2>1. ASSUME NEW c \in Cases, QuietStep(c) PROVE TransactionsMatchAudit'
    <3>1. PICK rows \in Seq(OtherRows) : append_audit(c, rows)
      BY <2>1 DEF QuietStep
    <3>2. rows \in Seq(AuditRows)
      BY DEF OtherRows
    <3> QED BY <2>1, <3>1, <3>2, NoMoneyAppended, OthersMatch DEF QuietStep
  <2>2. ASSUME NEW c \in Cases, VerifyStep(c) PROVE TransactionsMatchAudit'
    <3>1. PICK k \in Customers, v \in BOOLEAN :
            append_audit(c, <<IdentityRow(k, v)>>) /\ UNCHANGED transactions
      BY <2>2 DEF VerifyStep
    <3> DEFINE row == IdentityRow(k, v)
    <3>2. row \in AuditRows /\ row.event = "identity_verified" /\ append_audit(c, <<row>>)
      BY <3>1, RowTypes DEF IdentityRow
    <3> HIDE DEF row
    <3>3. \A e \in Cases : \A i \in DOMAIN audit_log'[e] :
              audit_log'[e][i].event = "money_moved" => i \in DOMAIN audit_log[e]
      BY <3>2, AppendedOne
    <3>4. <<row>> \in Seq(AuditRows)
      BY <3>2
    <3> QED BY <3>1, <3>2, <3>3, <3>4, OthersMatch
  <2>3. ASSUME NEW c \in Cases, Step(c) PROVE TransactionsMatchAudit'
    BY <2>1, <2>2, <2>3, StepShape, MoneyMatches
  <2>4. CASE UNCHANGED vars
    BY <2>4 DEF vars, TransactionsMatchAudit
  <2> QED BY <2>3, <2>4 DEF Next
<1> QED BY <1>1, <1>2, TypeCorrect, PTL DEF Spec
=============================================================================
