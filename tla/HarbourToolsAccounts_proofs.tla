----------------------- MODULE HarbourToolsAccounts_proofs -----------------------
(***************************************************************************)
(* More theorems of HarbourTools: the freezes and the disputes are those   *)
(* on record, the tools implement ServicingContract, and every effect that *)
(* was not logged is accounted for by a failure.                           *)
(***************************************************************************)
EXTENDS HarbourTools_proofs, FiniteSetTheorems

-----------------------------------------------------------------------------
(* What a step does to the account tables *)

CalmRows == {row \in AuditRows : row.event # "account_frozen"}

Quietly(c) == \E rows \in Seq(CalmRows) : append_audit(c, rows)

KeepsAccounts(c) ==
    Quietly(c) /\ UNCHANGED <<loans, transactions, disputes, identity_verifications>>

VerifiesCustomer(c) ==
    /\ Quietly(c)
    /\ \E k \in Customers, v \in BOOLEAN :
           identity_verifications' =
               identity_verifications \cup {[case |-> c, customer |-> k, verified |-> v]}
    /\ UNCHANGED <<loans, transactions, disputes>>

Moved(c, l, type, a) ==
    transactions' = Append(transactions, [loan |-> l, case |-> c, type |-> type, amount |-> a])

MovesMoney(c) ==
    /\ Quietly(c)
    /\ \E l \in Loans, a \in Amounts :
           /\ is_identity_verified(c, Owner[l])
           /\ \/ a > 0 /\ Moved(c, l, "payment", -a)
              \/ a > 0 /\ Moved(c, l, "fee", a)
              \/ /\ refund_within_auto_limit(a)
                 /\ prior_refunds(c, l) = {}
                 /\ Moved(c, l, "refund", a)
    /\ UNCHANGED <<loans, disputes, identity_verifications>>

RaisesDispute(c) ==
    /\ \E l \in Loans, k \in Customers :
           /\ is_identity_verified(c, Owner[l])
           /\ disputes' = Append(disputes, [loan |-> l, customer |-> k, case |-> c, status |-> "open"])
           /\ append_audit(c, <<RaisedRow(Len(disputes) + 1, l)>>)
    /\ UNCHANGED <<loans, transactions, identity_verifications>>

SettlesDispute(c) ==
    /\ call[c].pc = "resolving"
    /\ disputes' = [disputes EXCEPT ![call[c].dispute].status = call[c].resolution]
    /\ append_audit(c, <<ResolvedRow(call[c].dispute, call[c].resolution)>>)
    /\ UNCHANGED <<loans, transactions, identity_verifications>>

FreezesLoan(c) ==
    /\ call[c].pc = "freezing" /\ call'[c].pc # "freezing"
    /\ \E l \in Loans, p \in LoanStatuses :
           /\ l = call[c].loan /\ p = call[c].prior
           /\ loans' = [loans EXCEPT ![l] = "charged_off"]
           /\ append_audit(c, <<FrozenRow(l, p)>>)
    /\ UNCHANGED <<transactions, disputes, identity_verifications>>

Effect(c) == \/ KeepsAccounts(c) \/ VerifiesCustomer(c) \/ MovesMoney(c)
             \/ RaisesDispute(c) \/ SettlesDispute(c) \/ FreezesLoan(c)

LEMMA CalmRowTypes ==
    /\ \A k \in Customers, v \in BOOLEAN : IdentityRow(k, v) \in CalmRows
    /\ \A t \in MONEY_TOOLS, l \in Loans, n \in Nat, a \in Int : MoneyRow(t, l, n, a) \in CalmRows
    /\ \A d \in Nat, l \in Loans : RaisedRow(d, l) \in CalmRows
    /\ \A d \in Nat, r \in Resolutions : ResolvedRow(d, r) \in CalmRows
    /\ \A r \in DenialReasons : DeniedRow(r) \in CalmRows
    /\ \A t \in TOOLS, o \in {"ok", "denied"} : ToolCallRow(t, o) \in CalmRows
    /\ EscalatedRow \in CalmRows /\ MessageRow \in CalmRows
    /\ CallerRows \subseteq CalmRows
<1>1. CallerRows \subseteq CalmRows
  <2>1. \A row \in CallerEventRows : row.event # "account_frozen"
    BY DEF CallerEventRows, CaseReceivedRow, ModelRejectedRow, DeniedRow
  <2> QED BY <2>1, RowTypes, CallerRowsAssumption DEF CalmRows
<1> QED BY <1>1, RowTypes DEF CalmRows, IdentityRow, MoneyRow, RaisedRow, ResolvedRow,
                             DeniedRow, ToolCallRow, EscalatedRow, MessageRow

LEMMA OneCalmRow ==
    ASSUME NEW c, NEW row \in CalmRows, append_audit(c, <<row>>)
    PROVE  Quietly(c)
<1>1. <<row>> \in Seq(CalmRows)
  OBVIOUS
<1> QED BY <1>1 DEF Quietly

LEMMA NoRowIsQuiet ==
    ASSUME TypeOK, NEW c \in Cases, UNCHANGED audit_log
    PROVE  Quietly(c)
<1>1. <<>> \in Seq(CalmRows) /\ audit_log[c] \o <<>> = audit_log[c]
  BY ConcatEmptySeq DEF TypeOK
<1>2. append_audit(c, <<>>)
  BY <1>1 DEF append_audit, TypeOK
<1> QED BY <1>1, <1>2 DEF Quietly

(* The ways a call ends that leave the account tables alone.               *)
LEMMA RaisedKeeps ==
    ASSUME TypeOK, NEW c \in Cases, Raised(c)
    PROVE  KeepsAccounts(c)
BY NoRowIsQuiet DEF Raised, db, KeepsAccounts

LEMMA DeniedKeeps ==
    ASSUME NEW c \in Cases, NEW tool \in TOOLS, NEW rows \in Seq(CalmRows), Denied(c, tool, rows)
    PROVE  KeepsAccounts(c)
<1>1. rows \o <<ToolCallRow(tool, "denied")>> \in Seq(CalmRows)
  BY CalmRowTypes, ConcatProperties
<1> QED BY <1>1 DEF Denied, db, KeepsAccounts, Quietly

LEMMA LoggedKeeps ==
    ASSUME NEW c \in Cases, NEW tool \in TOOLS, NEW rows \in Seq(CalmRows), Logged(c, tool, rows)
    PROVE  KeepsAccounts(c)
<1>1. rows \o <<ToolCallRow(tool, "ok")>> \in Seq(CalmRows)
  BY CalmRowTypes, ConcatProperties
<1> QED BY <1>1 DEF Logged, db, KeepsAccounts, Quietly

(* One lemma per tool that writes to them.                                 *)
LEMMA VerifyEffect ==
    ASSUME TypeOK, NEW c \in Cases, NEW k \in AnyCustomer, NEW p \in BOOLEAN, NEW q \in BOOLEAN,
           verify_identity(c, k, p, q)
    PROVE  Effect(c)
<1> DEFINE v == p /\ q
<1>1. CASE Raised(c)
  BY <1>1, RaisedKeeps DEF Effect
<1>2. CASE /\ k \in Customers
           /\ identity_verifications' =
                  identity_verifications \cup {[case |-> c, customer |-> k, verified |-> v]}
           /\ Committed(c, "verify_identity", IdentityRow(k, v))
           /\ UNCHANGED <<loans, transactions, disputes, cases>>
  <2>1. v \in BOOLEAN
    OBVIOUS
  <2> HIDE DEF v
  <2>2. Quietly(c)
    BY <1>2, <2>1, CalmRowTypes, OneCalmRow DEF Committed
  <2> QED BY <1>2, <2>1, <2>2 DEF VerifiesCustomer, Effect
<1> QED BY <1>1, <1>2 DEF verify_identity

LEMMA MoveMoneyQuiet ==
    ASSUME TypeOK, NEW c \in Cases, NEW tool \in MONEY_TOOLS, NEW l \in Loans,
           NEW type \in {"payment", "refund", "fee"}, NEW a \in Int, MoveMoney(c, tool, l, type, a)
    PROVE  /\ Quietly(c) /\ Moved(c, l, type, a)
           /\ UNCHANGED <<loans, disputes, identity_verifications>>
<1>1. Len(transactions') \in Nat
  <2>1. [loan |-> l, case |-> c, type |-> type, amount |-> a] \in Transactions
    BY DEF Transactions
  <2> QED BY <2>1, AppendProperties DEF MoveMoney, TypeOK
<1>2. Quietly(c)
  BY <1>1, CalmRowTypes, OneCalmRow DEF MoveMoney, Committed
<1> QED BY <1>2 DEF MoveMoney, Moved

LEMMA MoneyEffect ==
    ASSUME TypeOK, NEW c \in Cases, NEW l \in Loans, NEW a \in Amounts,
           post_payment(c, l, a) \/ issue_refund(c, l, a) \/ apply_fee(c, l, a)
    PROVE  Effect(c)
<1>1. is_identity_verified(c, Owner[l])
  BY DEF post_payment, issue_refund, apply_fee, AskGated, GateOpen
<1>2. a \in Int /\ -a \in Int
  BY AmountsAssumption
<1>3. CASE post_payment(c, l, a)
  <2>1. CASE Raised(c)
    BY <2>1, RaisedKeeps DEF Effect
  <2>2. CASE a > 0 /\ MoveMoney(c, "post_payment", l, "payment", -a)
    BY <1>1, <1>2, <2>2, MoveMoneyQuiet DEF MONEY_TOOLS, MovesMoney, Effect
  <2> QED BY <1>3, <2>1, <2>2 DEF post_payment
<1>4. CASE issue_refund(c, l, a)
  <2>1. CASE Raised(c)
    BY <2>1, RaisedKeeps DEF Effect
  <2>2. \A r \in DenialReasons : <<DeniedRow(r)>> \in Seq(CalmRows)
    BY CalmRowTypes
  <2>3. "issue_refund" \in TOOLS /\ "issue_refund" \in MONEY_TOOLS
    BY DEF TOOLS, GATED_TOOLS, MONEY_TOOLS
  <2>4. CASE Denied(c, "issue_refund", <<DeniedRow("over_auto_limit")>>)
    BY <2>2, <2>3, <2>4, DeniedKeeps DEF DenialReasons, Effect
  <2>5. CASE Denied(c, "issue_refund", <<DeniedRow("second_refund_in_case")>>)
    BY <2>2, <2>3, <2>5, DeniedKeeps DEF DenialReasons, Effect
  <2>6. CASE /\ refund_within_auto_limit(a)
             /\ prior_refunds(c, l) = {}
             /\ MoveMoney(c, "issue_refund", l, "refund", a)
    BY <1>1, <1>2, <2>3, <2>6, MoveMoneyQuiet DEF MovesMoney, Effect
  <2> QED BY <1>4, <2>1, <2>4, <2>5, <2>6 DEF issue_refund
<1>5. CASE apply_fee(c, l, a)
  <2>1. CASE Raised(c)
    BY <2>1, RaisedKeeps DEF Effect
  <2>2. CASE a > 0 /\ MoveMoney(c, "apply_fee", l, "fee", a)
    BY <1>1, <1>2, <2>2, MoveMoneyQuiet DEF MONEY_TOOLS, MovesMoney, Effect
  <2> QED BY <1>5, <2>1, <2>2 DEF apply_fee
<1> QED BY <1>3, <1>4, <1>5

LEMMA RaiseEffect ==
    ASSUME TypeOK, NEW c \in Cases, NEW l \in Loans, NEW k \in AnyCustomer, raise_dispute(c, l, k)
    PROVE  Effect(c)
<1>1. is_identity_verified(c, Owner[l])
  BY DEF raise_dispute, AskGated, GateOpen
<1>2. CASE Raised(c)
  BY <1>2, RaisedKeeps DEF Effect
<1> DEFINE d == [loan |-> l, customer |-> k, case |-> c, status |-> "open"]
<1>3. CASE /\ k \in Customers
           /\ disputes' = Append(disputes, d)
           /\ Committed(c, "raise_dispute", RaisedRow(Len(disputes'), l))
           /\ UNCHANGED <<loans, transactions, identity_verifications, cases>>
  <2>1. d \in Disputes
    BY <1>3 DEF Disputes
  <2>2. Len(disputes') = Len(disputes) + 1
    BY <1>3, <2>1, AppendProperties DEF TypeOK
  <2>3. append_audit(c, <<RaisedRow(Len(disputes) + 1, l)>>)
    BY <1>3, <2>2 DEF Committed
  <2> QED BY <1>1, <1>3, <2>3 DEF RaisesDispute, Effect
<1> QED BY <1>2, <1>3 DEF raise_dispute

(* Every step of a session has one of the six effects.                     *)
LEMMA StepEffect ==
    ASSUME TypeOK, NEW c \in Cases, Step(c)
    PROVE  Effect(c)
<1>1. <<>> \in Seq(CalmRows) /\ <<MessageRow>> \in Seq(CalmRows)
  BY CalmRowTypes
<1>2. ASSUME NEW tool \in TOOLS, BeginCall(c, tool)
      PROVE  Effect(c)
  <2>1. ASSUME NEW l \in AnyLoan, require_identity_verified(c, tool, l)
        PROVE  KeepsAccounts(c)
    <3>1. (IF l \in Loans THEN <<DeniedRow("identity_not_verified")>> ELSE <<>>) \in Seq(CalmRows)
      BY CalmRowTypes DEF DenialReasons
    <3> QED BY <2>1, <3>1, DeniedKeeps DEF require_identity_verified
  <2>2. ASSUME NEW l \in Loans, NEW d, NEW r, resolve_dispute_check(c, l, d, r)
        PROVE  KeepsAccounts(c)
    <3>1. CASE Denied(c, "resolve_dispute", <<>>)
      BY <1>1, <3>1, DeniedKeeps DEF TOOLS, GATED_TOOLS
    <3>2. CASE Raised(c)
      BY <3>2, RaisedKeeps
    <3>3. CASE UNCHANGED <<db, audit_log>>
      BY <3>3, NoRowIsQuiet DEF db, KeepsAccounts
    <3> QED BY <2>2, <3>1, <3>2, <3>3 DEF resolve_dispute_check
  <2>3. ASSUME NEW l \in AnyLoan, freeze_account_read(c, l)
        PROVE  KeepsAccounts(c)
    <3>1. CASE Raised(c)
      BY <3>1, RaisedKeeps
    <3>2. CASE UNCHANGED <<db, audit_log>>
      BY <3>2, NoRowIsQuiet DEF db, KeepsAccounts
    <3> QED BY <2>3, <3>1, <3>2 DEF freeze_account_read
  <2>4. ASSUME escalate_to_human(c)
        PROVE  KeepsAccounts(c)
    BY <2>4, CalmRowTypes, OneCalmRow DEF escalate_to_human, Committed, KeepsAccounts
  <2>5. ASSUME send_customer_message(c)
        PROVE  KeepsAccounts(c)
    BY <1>1, <2>5, LoggedKeeps DEF send_customer_message, TOOLS, UNGATED_TOOLS
  <2>6. ASSUME NEW known \in BOOLEAN, read_tool(c, tool, known)
        PROVE  KeepsAccounts(c)
    BY <1>1, <2>6, LoggedKeeps, RaisedKeeps DEF read_tool
  <2>7. ASSUME bad_arguments(c, tool)
        PROVE  KeepsAccounts(c)
    BY <2>7, RaisedKeeps DEF bad_arguments
  <2> QED BY <1>2, <2>1, <2>2, <2>3, <2>4, <2>5, <2>6, <2>7, VerifyEffect, MoneyEffect, RaiseEffect
          DEF BeginCall, Effect
<1>3. ASSUME ContinueCall(c)
      PROVE  Effect(c)
  <2>1. CASE resolve_dispute_update(c)
    BY <2>1 DEF resolve_dispute_update, Continue, Committed, SettlesDispute, Effect
  <2>2. CASE freeze_account_update(c)
    <3>1. call[c].loan \in Loans /\ call[c].prior \in LoanStatuses
      BY <2>2, CallFields DEF freeze_account_update, Continue, TypeOK
    <3>2. call'[c] = Logging("freeze_account")
      BY <2>2 DEF freeze_account_update, Committed, Become, TypeOK
    <3>3. call'[c].pc # "freezing"
      BY <3>2 DEF Logging
    <3> QED BY <2>2, <3>1, <3>3 DEF freeze_account_update, Continue, Committed, FreezesLoan, Effect
  <2>3. CASE LogCall(c)
    <3>1. call[c].tool \in TOOLS
      BY <2>3, CallFields DEF LogCall, Continue, TypeOK
    <3>2. ToolCallRow(call[c].tool, "ok") \in CalmRows
      BY <3>1, CalmRowTypes
    <3> QED BY <2>3, <3>2, OneCalmRow DEF LogCall, db, KeepsAccounts, Effect
  <2> QED BY <1>3, <2>1, <2>2, <2>3 DEF ContinueCall
<1>4. ASSUME NEW row \in CallerRows, CallerRow(c, row)
      PROVE  KeepsAccounts(c)
  BY <1>4, CalmRowTypes, OneCalmRow DEF CallerRow, db, KeepsAccounts
<1>5. ASSUME DatabaseLocked(c)
      PROVE  KeepsAccounts(c)
  BY <1>5, RaisedKeeps DEF DatabaseLocked
<1>6. ASSUME \/ OpenCase(c) \/ SessionEnds(c)
             \/ \E s \in {"resolved", "escalated"} : CompleteCase(c, s)
      PROVE  KeepsAccounts(c)
  BY <1>6, NoRowIsQuiet DEF OpenCase, SessionEnds, CompleteCase, db, KeepsAccounts
<1> QED BY <1>2, <1>3, <1>4, <1>5, <1>6 DEF Step, Effect

-----------------------------------------------------------------------------
(* Disputes *)

(* What a session holds between the SELECT of resolve_dispute and its      *)
(* UPDATE stays true of the tables: the dispute is there, and the owner of *)
(* its loan was verified by this case.                                     *)
ResolverMayTouch ==
    \A c \in Cases : call[c].pc = "resolving" =>
        /\ call[c].dispute \in DOMAIN disputes
        /\ is_identity_verified(c, Owner[disputes[call[c].dispute].loan])

BecomesCall(c) ==
    /\ \A e \in Cases \ {c} : call'[e] = call[e]
    /\ call'[c].pc = "resolving" =>
           /\ call'[c].dispute \in DOMAIN disputes
           /\ is_identity_verified(c, Owner[disputes[call'[c].dispute].loan])
    /\ call'[c].pc = "freezing" => call'[c].prior = loans[call'[c].loan]

LEMMA BecomesOther ==
    ASSUME TypeOK, NEW c \in Cases, NEW x, x.pc \notin {"resolving", "freezing"}, Become(c, x)
    PROVE  BecomesCall(c)
BY DEF TypeOK, Become, BecomesCall

LEMMA OtherCalls ==
    /\ \A o : Idle(o).pc \notin {"resolving", "freezing"}
    /\ \A t : Logging(t).pc \notin {"resolving", "freezing"}
    /\ Closed.pc \notin {"resolving", "freezing"}
BY DEF Idle, Logging, Closed

(* How a call ends does not depend on what it was.                         *)
LEMMA EndsCall ==
    ASSUME TypeOK, NEW c \in Cases,
           \/ Raised(c)
           \/ \E tool, rows : Denied(c, tool, rows) \/ Logged(c, tool, rows)
           \/ \E tool, row : Committed(c, tool, row)
    PROVE  BecomesCall(c)
BY BecomesOther, OtherCalls DEF Raised, Denied, Logged, Committed

LEMMA StepBecomes ==
    ASSUME TypeOK, NEW c \in Cases, Step(c)
    PROVE  BecomesCall(c)
<1>1. ASSUME NEW tool \in TOOLS, BeginCall(c, tool)
      PROVE  BecomesCall(c)
  <2>1. ASSUME NEW l \in Loans, NEW d, NEW r, resolve_dispute_check(c, l, d, r)
        PROVE  BecomesCall(c)
    <3>1. CASE Denied(c, "resolve_dispute", <<>>) \/ Raised(c)
      BY <3>1, EndsCall
    <3>2. CASE IsOpenDisputeOf(d, l) /\ Become(c, Resolving(d, r))
      <4>1. d \in DOMAIN disputes /\ is_identity_verified(c, Owner[disputes[d].loan])
        BY <2>1, <3>2 DEF resolve_dispute_check, AskGated, GateOpen, IsOpenDisputeOf
      <4>2. call'[c] = Resolving(d, r) /\ \A e \in Cases \ {c} : call'[e] = call[e]
        BY <3>2 DEF Become, TypeOK
      <4> QED BY <4>1, <4>2 DEF Resolving, BecomesCall
    <3> QED BY <2>1, <3>1, <3>2 DEF resolve_dispute_check
  <2>2. ASSUME NEW l \in AnyLoan, freeze_account_read(c, l)
        PROVE  BecomesCall(c)
    <3>1. CASE Raised(c)
      BY <3>1, EndsCall
    <3>2. CASE Become(c, Freezing(l, loans[l]))
      <4>1. call'[c] = Freezing(l, loans[l]) /\ \A e \in Cases \ {c} : call'[e] = call[e]
        BY <3>2 DEF Become, TypeOK
      <4> QED BY <4>1 DEF Freezing, BecomesCall
    <3> QED BY <2>2, <3>1, <3>2 DEF freeze_account_read
  <2>3. ASSUME NEW l \in Loans, NEW a \in Amounts,
               post_payment(c, l, a) \/ issue_refund(c, l, a) \/ apply_fee(c, l, a)
        PROVE  BecomesCall(c)
    BY <2>3, EndsCall DEF post_payment, issue_refund, apply_fee, MoveMoney
  <2>4. ASSUME NEW k, NEW p, NEW q, verify_identity(c, k, p, q)
        PROVE  BecomesCall(c)
    BY <2>4, EndsCall DEF verify_identity
  <2>5. ASSUME NEW l, NEW k, raise_dispute(c, l, k)
        PROVE  BecomesCall(c)
    BY <2>5, EndsCall DEF raise_dispute
  <2>6. ASSUME \/ \E l \in AnyLoan : require_identity_verified(c, tool, l)
               \/ escalate_to_human(c) \/ send_customer_message(c) \/ bad_arguments(c, tool)
               \/ \E known \in BOOLEAN : read_tool(c, tool, known)
        PROVE  BecomesCall(c)
    BY <2>6, EndsCall DEF require_identity_verified, escalate_to_human, send_customer_message,
                          bad_arguments, read_tool
  <2> QED BY <1>1, <2>1, <2>2, <2>3, <2>4, <2>5, <2>6 DEF BeginCall
<1>2. ASSUME ContinueCall(c)
      PROVE  BecomesCall(c)
  BY <1>2, EndsCall, BecomesOther, OtherCalls
     DEF ContinueCall, resolve_dispute_update, freeze_account_update, LogCall
<1>3. ASSUME NEW row \in CallerRows, CallerRow(c, row)
      PROVE  BecomesCall(c)
  BY <1>3 DEF CallerRow, Request, BecomesCall
<1>4. ASSUME DatabaseLocked(c) \/ OpenCase(c) \/ SessionEnds(c)
             \/ \E s \in {"resolved", "escalated"} : CompleteCase(c, s)
      PROVE  BecomesCall(c)
  BY <1>4, EndsCall, BecomesOther, OtherCalls DEF DatabaseLocked, OpenCase, SessionEnds, CompleteCase
<1> QED BY <1>1, <1>2, <1>3, <1>4 DEF Step

(* The disputes after one more, and the new one's fields.                  *)
LEMMA AppendedDispute ==
    ASSUME TypeOK, NEW c \in Cases, NEW l \in Loans, NEW k \in Customers,
           disputes' = Append(disputes, [loan |-> l, customer |-> k, case |-> c, status |-> "open"])
    PROVE  LET n == Len(disputes) + 1
           IN  /\ n \in Nat
               /\ DOMAIN disputes' = DOMAIN disputes \cup {n}
               /\ \A d \in DOMAIN disputes : disputes'[d] = disputes[d]
               /\ disputes'[n].loan = l
               /\ disputes'[n].case = c
               /\ disputes'[n].status = "open"
<1> DEFINE t == [loan |-> l, customer |-> k, case |-> c, status |-> "open"]
           n == Len(disputes) + 1
<1>1. t \in Disputes /\ disputes \in Seq(Disputes) /\ disputes' = Append(disputes, t)
  BY DEF Disputes, TypeOK
<1>2. t.loan = l /\ t.case = c /\ t.status = "open"
  OBVIOUS
<1> HIDE DEF t
<1>3. Len(disputes) \in Nat /\ DOMAIN disputes = 1 .. Len(disputes)
  BY <1>1, LenProperties
<1>4. /\ Len(disputes') = n
      /\ \A d \in 1 .. Len(disputes) : disputes'[d] = disputes[d]
      /\ disputes'[n] = t
      /\ disputes' \in Seq(Disputes)
  BY <1>1, AppendProperties
<1>5. DOMAIN disputes' = 1 .. n
  BY <1>4, LenProperties
<1> QED BY <1>2, <1>3, <1>4, <1>5

(* Settling a dispute changes its status and nothing else.                 *)
LEMMA SettledDispute ==
    ASSUME TypeOK, ResolverMayTouch, NEW c \in Cases, SettlesDispute(c)
    PROVE  LET d == call[c].dispute
           IN  /\ d \in DOMAIN disputes /\ d \in Nat /\ call[c].resolution \in Resolutions
               /\ DOMAIN disputes' = DOMAIN disputes
               /\ \A e \in DOMAIN disputes \ {d} : disputes'[e] = disputes[e]
               /\ disputes'[d].loan = disputes[d].loan
               /\ disputes'[d].case = disputes[d].case
               /\ disputes'[d].status = call[c].resolution
<1> DEFINE d == call[c].dispute
           r == call[c].resolution
<1>1. d \in DOMAIN disputes /\ d \in Nat /\ r \in Resolutions
  BY CallFields DEF SettlesDispute, ResolverMayTouch, TypeOK
<1>2. disputes' = [disputes EXCEPT ![d] = [disputes[d] EXCEPT !.status = r]]
  BY ZenonT(30) DEF SettlesDispute
<1>3. disputes[d] \in Disputes
  BY <1>1, ElementOfSeq, LenProperties DEF TypeOK
<1> DEFINE x == [disputes[d] EXCEPT !.status = r]
<1>4. x.loan = disputes[d].loan /\ x.case = disputes[d].case /\ x.status = r
  BY <1>3 DEF Disputes
<1>5. disputes' = [disputes EXCEPT ![d] = x]
  BY <1>2
<1> HIDE DEF x, r
<1>6. disputes'[d] = x /\ DOMAIN disputes' = DOMAIN disputes
  BY <1>1, <1>5 DEF TypeOK
<1>7. \A e \in DOMAIN disputes \ {d} : disputes'[e] = disputes[e]
  BY <1>5 DEF TypeOK
<1> QED BY <1>1, <1>4, <1>6, <1>7 DEF r

(* No step takes a dispute or a verification away, or moves a dispute to   *)
(* another loan or case.                                                   *)
LEMMA TablesGrow ==
    ASSUME TypeOK, ResolverMayTouch, NEW c \in Cases, Effect(c)
    PROVE  /\ \A d \in DOMAIN disputes : /\ d \in DOMAIN disputes'
                                         /\ disputes'[d].loan = disputes[d].loan
                                         /\ disputes'[d].case = disputes[d].case
           /\ identity_verifications \subseteq identity_verifications'
<1>1. CASE UNCHANGED disputes /\ identity_verifications \subseteq identity_verifications'
  BY <1>1
<1>2. CASE RaisesDispute(c)
  BY <1>2, AppendedDispute DEF RaisesDispute
<1>3. CASE SettlesDispute(c)
  BY <1>3, SettledDispute DEF SettlesDispute
<1> QED BY <1>1, <1>2, <1>3 DEF Effect, KeepsAccounts, VerifiesCustomer, MovesMoney, FreezesLoan

LEMMA ResolverStep ==
    ASSUME TypeOK, ResolverMayTouch, NEW c \in Cases, Step(c)
    PROVE  ResolverMayTouch'
<1>1. /\ \A d \in DOMAIN disputes : d \in DOMAIN disputes' /\ disputes'[d].loan = disputes[d].loan
      /\ identity_verifications \subseteq identity_verifications'
  BY StepEffect, TablesGrow
<1>2. ASSUME NEW e \in Cases, call'[e].pc = "resolving"
      PROVE  /\ call'[e].dispute \in DOMAIN disputes
             /\ is_identity_verified(e, Owner[disputes[call'[e].dispute].loan])
  BY <1>2, StepBecomes DEF BecomesCall, ResolverMayTouch
<1>3. ASSUME NEW e \in Cases, call'[e].pc = "resolving"
      PROVE  /\ call'[e].dispute \in DOMAIN disputes'
             /\ \E v \in identity_verifications' :
                    /\ v.case = e /\ v.verified
                    /\ v.customer = Owner[disputes'[call'[e].dispute].loan]
  BY <1>1, <1>2, <1>3 DEF is_identity_verified
<1> QED BY <1>3 DEF ResolverMayTouch, is_identity_verified

(* The two halves of DisputesOnRecord, of one dispute and any log.         *)
RaisedIn(log, d, c, l) ==
    \E i \in DOMAIN log[c] : log[c][i] = RaisedRow(d, l) /\ VerifiedBefore(log[c], i, Owner[l])

SettledIn(log, d, r, l) ==
    \E c \in Cases : \E i \in DOMAIN log[c] :
        log[c][i] = ResolvedRow(d, r) /\ VerifiedBefore(log[c], i, Owner[l])

DisputesInv == MoneyInv /\ ResolverMayTouch /\ DisputesOnRecord

LEMMA RecordStays ==
    ASSUME TypeOK, NEW c \in Cases, NEW rows \in Seq(AuditRows), append_audit(c, rows),
           NEW d, NEW l
    PROVE  /\ \A e \in Cases : RaisedIn(audit_log, d, e, l) => RaisedIn(audit_log', d, e, l)
           /\ \A r : SettledIn(audit_log, d, r, l) => SettledIn(audit_log', d, r, l)
<1>1. \A e \in Cases : \A i \in DOMAIN audit_log[e] :
        /\ i \in DOMAIN audit_log'[e] /\ audit_log'[e][i] = audit_log[e][i]
        /\ VerifiedBefore(audit_log[e], i, Owner[l]) => VerifiedBefore(audit_log'[e], i, Owner[l])
  BY OldRows, StillBefore
<1> QED BY <1>1 DEF RaisedIn, SettledIn

(* The row a verified case appends comes after the verification.           *)
LEMMA NewRowVerified ==
    ASSUME TypeOK, VerifiedOnTrail, NEW c \in Cases, NEW row \in AuditRows, append_audit(c, <<row>>),
           NEW k, is_identity_verified(c, k)
    PROVE  \E i \in DOMAIN audit_log'[c] :
               audit_log'[c][i] = row /\ VerifiedBefore(audit_log'[c], i, k)
<1> DEFINE n == Len(audit_log[c]) + 1
<1>1. n \in DOMAIN audit_log'[c] /\ audit_log'[c][n] = row
  BY AppendedOne
<1>2. PICK j \in DOMAIN audit_log[c] : /\ audit_log[c][j].event = "identity_verified"
                                       /\ audit_log[c][j].customer = k
                                       /\ audit_log[c][j].verified
  BY DEF is_identity_verified, VerifiedOnTrail, OnTrail
<1>3. audit_log'[c][j] = audit_log[c][j]
  <2>1. <<row>> \in Seq(AuditRows)
    OBVIOUS
  <2> QED BY <2>1, OldRows
<1>4. j \in 1 .. n - 1
  BY TrailTypes
<1>5. VerifiedBefore(audit_log'[c], n, k)
  BY <1>2, <1>3, <1>4 DEF VerifiedBefore
<1> QED BY <1>1, <1>5

LEMMA FieldsOfDispute ==
    ASSUME TypeOK, NEW d \in DOMAIN disputes
    PROVE  disputes[d].case \in Cases /\ disputes[d].loan \in Loans
<1>1. disputes[d] \in Disputes
  BY ElementOfSeq, LenProperties DEF TypeOK
<1> QED BY <1>1 DEF Disputes

(* What is on record of the disputes there were stays on record.           *)
LEMMA OldDisputesOnRecord ==
    ASSUME TypeOK, DisputesOnRecord, NEW c \in Cases, NEW rows \in Seq(AuditRows),
           append_audit(c, rows), NEW d \in DOMAIN disputes
    PROVE  /\ RaisedIn(audit_log', d, disputes[d].case, disputes[d].loan)
           /\ disputes[d].status # "open" =>
                  SettledIn(audit_log', d, disputes[d].status, disputes[d].loan)
<1>1. /\ RaisedIn(audit_log, d, disputes[d].case, disputes[d].loan)
      /\ disputes[d].status # "open" =>
             SettledIn(audit_log, d, disputes[d].status, disputes[d].loan)
  BY DEF DisputesOnRecord, RaisedIn, SettledIn
<1> QED BY <1>1, FieldsOfDispute, RecordStays

LEMMA SameDisputesOnRecord ==
    ASSUME TypeOK, DisputesOnRecord, NEW c \in Cases, NEW rows \in Seq(AuditRows),
           append_audit(c, rows), UNCHANGED disputes
    PROVE  DisputesOnRecord'
BY OldDisputesOnRecord DEF DisputesOnRecord, RaisedIn, SettledIn

LEMMA RaisedOnRecord ==
    ASSUME TypeOK, DisputesInv, NEW c \in Cases, RaisesDispute(c)
    PROVE  DisputesOnRecord'
<1> DEFINE n == Len(disputes) + 1
<1>1. PICK l \in Loans, k \in Customers :
          /\ is_identity_verified(c, Owner[l])
          /\ disputes' = Append(disputes, [loan |-> l, customer |-> k, case |-> c, status |-> "open"])
          /\ append_audit(c, <<RaisedRow(n, l)>>)
  BY DEF RaisesDispute
<1>2. /\ n \in Nat
      /\ DOMAIN disputes' = DOMAIN disputes \cup {n}
      /\ \A d \in DOMAIN disputes : disputes'[d] = disputes[d]
      /\ disputes'[n].loan = l /\ disputes'[n].case = c /\ disputes'[n].status = "open"
  BY <1>1, AppendedDispute
<1> HIDE DEF n
<1>3. RaisedRow(n, l) \in AuditRows /\ <<RaisedRow(n, l)>> \in Seq(AuditRows)
  BY <1>2, RowTypes
<1>4. RaisedIn(audit_log', n, c, l)
  BY <1>1, <1>3, NewRowVerified DEF DisputesInv, MoneyInv, RaisedIn
<1>5. ASSUME NEW d \in DOMAIN disputes
      PROVE  /\ RaisedIn(audit_log', d, disputes[d].case, disputes[d].loan)
             /\ disputes[d].status # "open" =>
                    SettledIn(audit_log', d, disputes[d].status, disputes[d].loan)
  <2> DEFINE rows == <<RaisedRow(n, l)>>
  <2>1. rows \in Seq(AuditRows) /\ append_audit(c, rows)
    BY <1>1, <1>3
  <2> HIDE DEF rows
  <2> QED BY <2>1, OldDisputesOnRecord DEF DisputesInv
<1>6. ASSUME NEW d \in DOMAIN disputes'
      PROVE  /\ RaisedIn(audit_log', d, disputes'[d].case, disputes'[d].loan)
             /\ disputes'[d].status # "open" =>
                    SettledIn(audit_log', d, disputes'[d].status, disputes'[d].loan)
  BY <1>2, <1>4, <1>5
<1> QED BY <1>6 DEF DisputesOnRecord, RaisedIn, SettledIn

LEMMA SettledOnRecord ==
    ASSUME TypeOK, DisputesInv, NEW c \in Cases, SettlesDispute(c)
    PROVE  DisputesOnRecord'
<1> DEFINE d == call[c].dispute
           r == call[c].resolution
<1>1. /\ d \in DOMAIN disputes /\ d \in Nat /\ r \in Resolutions
      /\ DOMAIN disputes' = DOMAIN disputes
      /\ \A e \in DOMAIN disputes \ {d} : disputes'[e] = disputes[e]
      /\ disputes'[d].loan = disputes[d].loan
      /\ disputes'[d].case = disputes[d].case
      /\ disputes'[d].status = r
  BY SettledDispute DEF DisputesInv
<1>2. append_audit(c, <<ResolvedRow(d, r)>>) /\ is_identity_verified(c, Owner[disputes[d].loan])
  BY DEF SettlesDispute, DisputesInv, ResolverMayTouch
<1> HIDE DEF d, r
<1>3. ResolvedRow(d, r) \in AuditRows /\ <<ResolvedRow(d, r)>> \in Seq(AuditRows)
  BY <1>1, RowTypes
<1>4. SettledIn(audit_log', d, r, disputes[d].loan)
  BY <1>2, <1>3, NewRowVerified DEF DisputesInv, MoneyInv, SettledIn
<1>5. ASSUME NEW e \in DOMAIN disputes
      PROVE  /\ RaisedIn(audit_log', e, disputes[e].case, disputes[e].loan)
             /\ disputes[e].status # "open" =>
                    SettledIn(audit_log', e, disputes[e].status, disputes[e].loan)
  <2> DEFINE rows == <<ResolvedRow(d, r)>>
  <2>1. rows \in Seq(AuditRows) /\ append_audit(c, rows)
    BY <1>2, <1>3
  <2> HIDE DEF rows
  <2> QED BY <2>1, OldDisputesOnRecord DEF DisputesInv
<1>6. ASSUME NEW e \in DOMAIN disputes'
      PROVE  /\ RaisedIn(audit_log', e, disputes'[e].case, disputes'[e].loan)
             /\ disputes'[e].status # "open" =>
                    SettledIn(audit_log', e, disputes'[e].status, disputes'[e].loan)
  BY <1>1, <1>4, <1>5
<1> QED BY <1>6 DEF DisputesOnRecord, RaisedIn, SettledIn

LEMMA StepDisputes ==
    ASSUME TypeOK, DisputesInv, NEW c \in Cases, Step(c)
    PROVE  DisputesInv'
<1>1. MoneyInv' /\ ResolverMayTouch'
  BY StepShape, QuietMoney, VerifyMoney, MovedMoney, ResolverStep DEF DisputesInv
<1>2. CASE RaisesDispute(c) \/ SettlesDispute(c)
  BY <1>1, <1>2, RaisedOnRecord, SettledOnRecord DEF DisputesInv
<1>3. CASE Quietly(c) /\ UNCHANGED disputes
  <2>1. \E rows \in Seq(AuditRows) : append_audit(c, rows)
    BY <1>3 DEF Quietly, CalmRows
  <2> QED BY <1>1, <1>3, <2>1, SameDisputesOnRecord DEF DisputesInv
<1>4. CASE FreezesLoan(c)
  <2>1. PICK l \in Loans, p \in LoanStatuses : append_audit(c, <<FrozenRow(l, p)>>)
    BY <1>4 DEF FreezesLoan
  <2>2. <<FrozenRow(l, p)>> \in Seq(AuditRows)
    BY RowTypes
  <2> QED BY <1>1, <1>4, <2>1, <2>2, SameDisputesOnRecord DEF DisputesInv, FreezesLoan
<1> QED BY <1>2, <1>3, <1>4, StepEffect DEF Effect, KeepsAccounts, VerifiesCustomer, MovesMoney

(* Every dispute was raised, and leaves "open" only, by a call on record   *)
(* in a case that had verified the owner of the disputed loan: through the *)
(* gap between resolve_dispute's SELECT and its UPDATE too, and with any   *)
(* number of sessions settling the same dispute.                           *)
THEOREM DisputesAreOnRecord == Spec => []DisputesOnRecord
<1>1. Init => DisputesInv
  BY DEF Init, DisputesInv, MoneyInv, VerifiedOnTrail, MoneyAfterOwnerVerified,
         ResolverMayTouch, DisputesOnRecord, Closed
<1>2. TypeOK /\ DisputesInv /\ [Next]_vars => DisputesInv'
  <2> SUFFICES ASSUME TypeOK, DisputesInv, [Next]_vars PROVE DisputesInv'
    OBVIOUS
  <2>1. CASE UNCHANGED vars
    BY <2>1 DEF vars, DisputesInv, MoneyInv, VerifiedOnTrail, MoneyAfterOwnerVerified,
                ResolverMayTouch, is_identity_verified, DisputesOnRecord
  <2> QED BY <2>1, StepDisputes DEF Next
<1>3. DisputesInv => DisputesOnRecord
  BY DEF DisputesInv
<1> QED BY <1>1, <1>2, <1>3, TypeCorrect, PTL DEF Spec

-----------------------------------------------------------------------------
(* Freezes *)

FrozenIn(log, l) ==
    \E c \in Cases : \E i \in DOMAIN log[c] :
        log[c][i].event = "account_frozen" /\ log[c][i].loan = l

(* Calm rows leave the freezes on record what they were.                   *)
LEMMA CalmFreezes ==
    ASSUME TypeOK, NEW c \in Cases, Quietly(c), NEW l
    PROVE  FrozenIn(audit_log', l) <=> FrozenIn(audit_log, l)
<1>1. PICK rows \in Seq(CalmRows) : append_audit(c, rows)
  BY DEF Quietly
<1>2. rows \in Seq(AuditRows) /\ \A n \in 1 .. Len(rows) : rows[n].event # "account_frozen"
  BY DEF CalmRows
<1>3. \A e \in Cases : \A i \in DOMAIN audit_log[e] :
        i \in DOMAIN audit_log'[e] /\ audit_log'[e][i] = audit_log[e][i]
  BY <1>1, <1>2, OldRows
<1>4. ASSUME NEW e \in Cases, NEW i \in DOMAIN audit_log'[e], audit_log'[e][i].event = "account_frozen"
      PROVE  i \in DOMAIN audit_log[e]
  <2>1. CASE e # c
    BY <1>1, <2>1, OtherTrails
  <2>2. CASE e = c
    <3>1. DOMAIN audit_log[c] = 1 .. Len(audit_log[c]) /\ Len(audit_log[c]) \in Nat
      BY TrailTypes
    <3>2. Len(rows) \in Nat
      BY <1>2, LenProperties
    <3>3. /\ DOMAIN audit_log'[c] = 1 .. Len(audit_log[c]) + Len(rows)
          /\ \A n \in Len(audit_log[c]) + 1 .. Len(audit_log[c]) + Len(rows) :
                audit_log'[c][n] = rows[n - Len(audit_log[c])]
      BY <1>1, <1>2, Appended
    <3>4. SUFFICES ASSUME i > Len(audit_log[c]) PROVE FALSE
      BY <1>4, <2>2, <3>1, <3>2, <3>3
    <3>5. i - Len(audit_log[c]) \in 1 .. Len(rows) /\ audit_log'[c][i] = rows[i - Len(audit_log[c])]
      BY <1>4, <2>2, <3>1, <3>2, <3>3, <3>4
    <3> QED BY <1>2, <1>4, <2>2, <3>5
  <2> QED BY <2>1, <2>2
<1> QED BY <1>3, <1>4 DEF FrozenIn

LEMMA FreezeOnRecord ==
    ASSUME TypeOK, FrozenIffOnRecord, NEW c \in Cases, FreezesLoan(c)
    PROVE  FrozenIffOnRecord'
<1>1. PICK l \in Loans, p \in LoanStatuses :
          loans' = [loans EXCEPT ![l] = "charged_off"] /\ append_audit(c, <<FrozenRow(l, p)>>)
  BY DEF FreezesLoan
<1> DEFINE row == FrozenRow(l, p)
           n == Len(audit_log[c]) + 1
<1>2. row \in AuditRows /\ row.event = "account_frozen" /\ row.loan = l
  BY RowTypes DEF FrozenRow
<1>3. append_audit(c, <<row>>)
  BY <1>1
<1> HIDE DEF row
<1>4. <<row>> \in Seq(AuditRows)
  BY <1>2
<1>5. /\ n \in DOMAIN audit_log'[c] /\ audit_log'[c][n] = row
      /\ \A e \in Cases : \A i \in DOMAIN audit_log'[e] :
            i \in DOMAIN audit_log[e] \/ (e = c /\ i = n)
  BY <1>2, <1>3, AppendedOne
<1>6. \A e \in Cases : \A i \in DOMAIN audit_log[e] :
        i \in DOMAIN audit_log'[e] /\ audit_log'[e][i] = audit_log[e][i]
  BY <1>3, <1>4, OldRows
<1> HIDE DEF n
<1>7. FrozenIn(audit_log', l)
  BY <1>2, <1>5 DEF FrozenIn
<1>8. \A m \in Loans \ {l} : FrozenIn(audit_log', m) <=> FrozenIn(audit_log, m)
  BY <1>2, <1>5, <1>6 DEF FrozenIn
<1>9. loans'[l] = "charged_off" /\ \A m \in Loans \ {l} : loans'[m] = loans[m]
  BY <1>1 DEF TypeOK
<1> QED BY <1>7, <1>8, <1>9 DEF FrozenIffOnRecord, FrozenIn

(* A loan is charged off exactly when some case has its freeze on record.  *)
THEOREM FreezesAreOnRecord == Spec => []FrozenIffOnRecord
<1>1. Init => FrozenIffOnRecord
  BY SeededAssumption DEF Init, FrozenIffOnRecord
<1>2. TypeOK /\ FrozenIffOnRecord /\ [Next]_vars => FrozenIffOnRecord'
  <2> SUFFICES ASSUME TypeOK, FrozenIffOnRecord, [Next]_vars PROVE FrozenIffOnRecord'
    OBVIOUS
  <2>1. CASE UNCHANGED vars
    BY <2>1 DEF vars, FrozenIffOnRecord
  <2>2. ASSUME NEW c \in Cases, Quietly(c), UNCHANGED loans PROVE FrozenIffOnRecord'
    BY <2>2, CalmFreezes DEF FrozenIffOnRecord, FrozenIn
  <2>3. ASSUME NEW c \in Cases, RaisesDispute(c) PROVE Quietly(c)
    <3>1. Len(disputes) + 1 \in Nat
      BY LenProperties DEF TypeOK
    <3> QED BY <2>3, <3>1, CalmRowTypes, OneCalmRow DEF RaisesDispute
  <2>4. ASSUME NEW c \in Cases, SettlesDispute(c) PROVE Quietly(c)
    <3>1. call[c].dispute \in Nat /\ call[c].resolution \in Resolutions
      BY <2>4, CallFields DEF SettlesDispute, TypeOK
    <3> QED BY <2>4, <3>1, CalmRowTypes, OneCalmRow DEF SettlesDispute
  <2>5. ASSUME NEW c \in Cases, Step(c) PROVE FrozenIffOnRecord'
    BY <2>2, <2>3, <2>4, <2>5, StepEffect, FreezeOnRecord
       DEF Effect, KeepsAccounts, VerifiesCustomer, MovesMoney, RaisesDispute, SettlesDispute
  <2> QED BY <2>1, <2>5 DEF Next
<1> QED BY <1>1, <1>2, TypeCorrect, PTL DEF Spec

(* Some freeze of loan l has put status s on record.                       *)
Recorded(log, l, s) ==
    \E c \in Cases : \E i \in DOMAIN log[c] : log[c][i] = FrozenRow(l, s)

(* One status that is not "charged_off" is on record for loan l.           *)
OneStatus(log, l) ==
    \E s \in LoanStatuses \ {"charged_off"} :
        \A q \in LoanStatuses \ {"charged_off"} : Recorded(log, l, q) <=> q = s

LEMMA OneStatusIsOverwritten ==
    ASSUME NEW l \in Loans
    PROVE  OneStatus(audit_log, l) <=>
               \E s \in LoanStatuses \ {"charged_off"} :
                   {row.prior : row \in FreezesOf(l)} \ {"charged_off"} = {s}
<1>1. \A q \in LoanStatuses : FrozenRow(l, q) \in FreezesOf(l) <=> Recorded(audit_log, l, q)
  BY DEF FreezesOf, OnSomeTrail, Recorded
<1>2. \A row \in FreezesOf(l) : \E q \in LoanStatuses : row = FrozenRow(l, q) /\ row.prior = q
  BY DEF FreezesOf, FrozenRow
<1>3. \A q \in LoanStatuses : FrozenRow(l, q).prior = q
  BY DEF FrozenRow
<1> DEFINE priors == {row.prior : row \in FreezesOf(l)}
<1>4. \A q : q \in priors <=> q \in LoanStatuses /\ Recorded(audit_log, l, q)
  <2> TAKE q
  <2>1. ASSUME q \in priors PROVE q \in LoanStatuses /\ Recorded(audit_log, l, q)
    BY <1>1, <1>2, <2>1
  <2>2. ASSUME q \in LoanStatuses, Recorded(audit_log, l, q) PROVE q \in priors
    BY <1>1, <1>3, <2>2
  <2> QED BY <2>1, <2>2
<1> HIDE DEF priors
<1>5. ASSUME NEW s \in LoanStatuses \ {"charged_off"}
      PROVE  priors \ {"charged_off"} = {s} <=>
                 \A q \in LoanStatuses \ {"charged_off"} : Recorded(audit_log, l, q) <=> q = s
  BY <1>4, Zenon
<1> QED BY <1>5 DEF OneStatus, priors

(* What a session that is about to freeze a loan has read: the status the  *)
(* loan has, unless it was frozen in between; then that status is the one  *)
(* on record.                                                              *)
FreezerHasRead ==
    \A c \in Cases : call[c].pc = "freezing" =>
        LET l == call[c].loan
            p == call[c].prior
        IN  IF p = "charged_off" THEN loans[l] = "charged_off"
            ELSE IF loans[l] = "charged_off" THEN Recorded(audit_log, l, p)
            ELSE p = loans[l]

FreezeInv ==
    /\ FrozenIffOnRecord
    /\ FreezerHasRead
    /\ \A l \in Loans : loans[l] = "charged_off" => OneStatus(audit_log, l)

LEMMA NotRecordedYet ==
    ASSUME FrozenIffOnRecord, NEW l \in Loans, loans[l] # "charged_off", NEW q
    PROVE  ~Recorded(audit_log, l, q)
BY DEF FrozenIffOnRecord, Recorded, FrozenRow

LEMMA CalmRecorded ==
    ASSUME TypeOK, NEW c \in Cases, Quietly(c), NEW l, NEW q
    PROVE  Recorded(audit_log', l, q) <=> Recorded(audit_log, l, q)
<1>1. PICK rows \in Seq(CalmRows) : append_audit(c, rows)
  BY DEF Quietly
<1>2. rows \in Seq(AuditRows) /\ \A n \in 1 .. Len(rows) : rows[n].event # "account_frozen"
  BY DEF CalmRows
<1>3. \A e \in Cases : \A i \in DOMAIN audit_log[e] :
        i \in DOMAIN audit_log'[e] /\ audit_log'[e][i] = audit_log[e][i]
  BY <1>1, <1>2, OldRows
<1>4. FrozenRow(l, q).event = "account_frozen"
  BY DEF FrozenRow
<1>5. ASSUME NEW e \in Cases, NEW i \in DOMAIN audit_log'[e], audit_log'[e][i] = FrozenRow(l, q)
      PROVE  i \in DOMAIN audit_log[e]
  <2>1. CASE e # c
    BY <1>1, <2>1, OtherTrails
  <2>2. CASE e = c
    <3>1. DOMAIN audit_log[c] = 1 .. Len(audit_log[c]) /\ Len(audit_log[c]) \in Nat
      BY TrailTypes
    <3>2. Len(rows) \in Nat
      BY <1>2, LenProperties
    <3>3. /\ DOMAIN audit_log'[c] = 1 .. Len(audit_log[c]) + Len(rows)
          /\ \A n \in Len(audit_log[c]) + 1 .. Len(audit_log[c]) + Len(rows) :
                audit_log'[c][n] = rows[n - Len(audit_log[c])]
      BY <1>1, <1>2, Appended
    <3>4. SUFFICES ASSUME i > Len(audit_log[c]) PROVE FALSE
      BY <1>5, <2>2, <3>1, <3>2, <3>3
    <3>5. i - Len(audit_log[c]) \in 1 .. Len(rows) /\ audit_log'[c][i] = rows[i - Len(audit_log[c])]
      BY <1>5, <2>2, <3>1, <3>2, <3>3, <3>4
    <3> QED BY <1>2, <1>4, <1>5, <2>2, <3>5
  <2> QED BY <2>1, <2>2
<1> QED BY <1>3, <1>5 DEF Recorded

(* A freeze puts the status its session had read on record.                *)
LEMMA FreezeRecords ==
    ASSUME TypeOK, NEW c \in Cases, NEW l \in Loans, NEW p \in LoanStatuses,
           append_audit(c, <<FrozenRow(l, p)>>), NEW m, NEW q
    PROVE  Recorded(audit_log', m, q) <=> Recorded(audit_log, m, q) \/ (m = l /\ q = p)
<1> DEFINE row == FrozenRow(l, p)
           n == Len(audit_log[c]) + 1
<1>1. row \in AuditRows /\ append_audit(c, <<row>>)
  BY RowTypes
<1>2. row = FrozenRow(m, q) <=> m = l /\ q = p
  <2>1. /\ row.loan = l /\ row.prior = p
        /\ FrozenRow(m, q).loan = m /\ FrozenRow(m, q).prior = q
    BY DEF FrozenRow
  <2> QED BY <2>1
<1> HIDE DEF row
<1>3. <<row>> \in Seq(AuditRows)
  BY <1>1
<1>4. /\ n \in DOMAIN audit_log'[c] /\ audit_log'[c][n] = row
      /\ \A e \in Cases : \A i \in DOMAIN audit_log'[e] :
            i \in DOMAIN audit_log[e] \/ (e = c /\ i = n)
  BY <1>1, AppendedOne
<1>5. \A e \in Cases : \A i \in DOMAIN audit_log[e] :
        i \in DOMAIN audit_log'[e] /\ audit_log'[e][i] = audit_log[e][i]
  BY <1>1, <1>3, OldRows
<1> HIDE DEF n
<1> QED BY <1>2, <1>4, <1>5 DEF Recorded

LEMMA FreezeKeepsInv ==
    ASSUME TypeOK, FreezeInv, NEW c \in Cases, Step(c), FreezesLoan(c)
    PROVE  FreezeInv'
<1>1. PICK l \in Loans, p \in LoanStatuses :
          /\ l = call[c].loan /\ p = call[c].prior
          /\ loans' = [loans EXCEPT ![l] = "charged_off"] /\ append_audit(c, <<FrozenRow(l, p)>>)
  BY DEF FreezesLoan
<1>2. loans'[l] = "charged_off" /\ \A m \in Loans \ {l} : loans'[m] = loans[m]
  BY <1>1 DEF TypeOK
<1>3. \A m, q : Recorded(audit_log', m, q) <=> Recorded(audit_log, m, q) \/ (m = l /\ q = p)
  BY <1>1, FreezeRecords
<1>4. FrozenIffOnRecord'
  BY FreezeOnRecord DEF FreezeInv
<1>5. IF p = "charged_off" THEN loans[l] = "charged_off"
      ELSE IF loans[l] = "charged_off" THEN Recorded(audit_log, l, p)
      ELSE p = loans[l]
  BY <1>1 DEF FreezeInv, FreezerHasRead, FreezesLoan
<1>6. loans[l] # "charged_off" => \A q : ~Recorded(audit_log, l, q)
  BY NotRecordedYet DEF FreezeInv
<1>7. ASSUME NEW m \in Loans, loans'[m] = "charged_off" PROVE OneStatus(audit_log', m)
  <2>1. CASE m # l
    BY <1>2, <1>3, <1>7, <2>1 DEF FreezeInv, OneStatus
  <2>2. CASE m = l /\ loans[l] # "charged_off"
    BY <1>3, <1>5, <1>6, <2>2 DEF OneStatus
  <2>3. CASE m = l /\ loans[l] = "charged_off"
    BY <1>3, <1>5, <2>3 DEF FreezeInv, OneStatus
  <2> QED BY <2>1, <2>2, <2>3
<1>8. ASSUME NEW e \in Cases, call'[e].pc = "freezing"
      PROVE  IF call'[e].prior = "charged_off" THEN loans'[call'[e].loan] = "charged_off"
             ELSE IF loans'[call'[e].loan] = "charged_off"
                  THEN Recorded(audit_log', call'[e].loan, call'[e].prior)
             ELSE call'[e].prior = loans'[call'[e].loan]
  <2>1. e # c /\ call'[e] = call[e]
    BY <1>8, StepBecomes DEF FreezesLoan, BecomesCall
  <2>2. call[e].loan \in Loans
    BY <1>8, <2>1, CallFields DEF TypeOK
  <2>3. IF call[e].prior = "charged_off" THEN loans[call[e].loan] = "charged_off"
        ELSE IF loans[call[e].loan] = "charged_off"
             THEN Recorded(audit_log, call[e].loan, call[e].prior)
        ELSE call[e].prior = loans[call[e].loan]
    BY <1>8, <2>1 DEF FreezeInv, FreezerHasRead
  <2>4. CASE call[e].loan # l
    BY <1>2, <1>3, <2>1, <2>2, <2>3, <2>4
  <2>5. CASE call[e].loan = l
    <3>1. call[e].prior # "charged_off" => Recorded(audit_log', l, call[e].prior)
      BY <1>3, <1>5, <2>3, <2>5
    <3> QED BY <1>2, <2>1, <2>5, <3>1
  <2> QED BY <2>4, <2>5
<1> QED BY <1>4, <1>7, <1>8 DEF FreezeInv, FreezerHasRead

LEMMA CalmKeepsInv ==
    ASSUME TypeOK, FreezeInv, NEW c \in Cases, Step(c), Quietly(c), UNCHANGED loans
    PROVE  FreezeInv'
<1>1. \A m, q : Recorded(audit_log', m, q) <=> Recorded(audit_log, m, q)
  BY CalmRecorded
<1>2. FrozenIffOnRecord'
  BY CalmFreezes DEF FreezeInv, FrozenIffOnRecord, FrozenIn
<1>3. \A m \in Loans : loans'[m] = "charged_off" => OneStatus(audit_log', m)
  BY <1>1 DEF FreezeInv, OneStatus
<1>4. ASSUME NEW e \in Cases, call'[e].pc = "freezing"
      PROVE  IF call'[e].prior = "charged_off" THEN loans'[call'[e].loan] = "charged_off"
             ELSE IF loans'[call'[e].loan] = "charged_off"
                  THEN Recorded(audit_log', call'[e].loan, call'[e].prior)
             ELSE call'[e].prior = loans'[call'[e].loan]
  <2>1. CASE e = c
    BY <1>4, <2>1, StepBecomes DEF BecomesCall
  <2>2. CASE e # c
    <3>1. call'[e] = call[e]
      BY <2>2, StepBecomes DEF BecomesCall
    <3> QED BY <1>1, <1>4, <3>1 DEF FreezeInv, FreezerHasRead
  <2> QED BY <2>1, <2>2
<1> QED BY <1>2, <1>3, <1>4 DEF FreezeInv, FreezerHasRead

(* Of every frozen loan, the trails hold one status to walk it back to:    *)
(* the status is read outside the transaction, but the only thing that can *)
(* make it stale is another freeze, which has put the same one on record.  *)
THEOREM FreezesCanBeWalkedBack == Spec => []OverwrittenStatusIsOnRecord
<1>1. Init => FreezeInv
  BY SeededAssumption DEF Init, FreezeInv, FrozenIffOnRecord, FreezerHasRead, Closed
<1>2. TypeOK /\ FreezeInv /\ [Next]_vars => FreezeInv'
  <2> SUFFICES ASSUME TypeOK, FreezeInv, [Next]_vars PROVE FreezeInv'
    OBVIOUS
  <2>1. CASE UNCHANGED vars
    BY <2>1 DEF vars, FreezeInv, FrozenIffOnRecord, FreezerHasRead
  <2>2. ASSUME NEW c \in Cases, RaisesDispute(c) PROVE Quietly(c)
    <3>1. Len(disputes) + 1 \in Nat
      BY LenProperties DEF TypeOK
    <3> QED BY <2>2, <3>1, CalmRowTypes, OneCalmRow DEF RaisesDispute
  <2>3. ASSUME NEW c \in Cases, SettlesDispute(c) PROVE Quietly(c)
    <3>1. call[c].dispute \in Nat /\ call[c].resolution \in Resolutions
      BY <2>3, CallFields DEF SettlesDispute, TypeOK
    <3> QED BY <2>3, <3>1, CalmRowTypes, OneCalmRow DEF SettlesDispute
  <2>4. ASSUME NEW c \in Cases, Step(c) PROVE FreezeInv'
    BY <2>2, <2>3, <2>4, StepEffect, CalmKeepsInv, FreezeKeepsInv
       DEF Effect, KeepsAccounts, VerifiesCustomer, MovesMoney, RaisesDispute, SettlesDispute
  <2> QED BY <2>1, <2>4 DEF Next
<1>3. FreezeInv => OverwrittenStatusIsOnRecord
  BY OneStatusIsOverwritten DEF FreezeInv, OverwrittenStatusIsOnRecord
<1> QED BY <1>1, <1>2, <1>3, TypeCorrect, PTL DEF Spec

-----------------------------------------------------------------------------
(* The servicing contract.  A commit of the tool layer is one step of it,  *)
(* and every other step leaves what it talks about.                        *)

VerifiedPairs == {<<v.case, v.customer>> : v \in {w \in identity_verifications : w.verified}}
FrozenLoans == {l \in Loans : loans[l] = "charged_off"}

ContractStep == Contract!Next \/ UNCHANGED <<VerifiedPairs, transactions, disputes, FrozenLoans>>

LEMMA PairOfVerification ==
    ASSUME NEW c, NEW k, is_identity_verified(c, k)
    PROVE  <<c, k>> \in VerifiedPairs
BY DEF is_identity_verified, VerifiedPairs

LEMMA VerifyMaps ==
    ASSUME NEW c \in Cases, VerifiesCustomer(c)
    PROVE  ContractStep
<1>1. PICK k \in Customers, v \in BOOLEAN :
          identity_verifications' =
              identity_verifications \cup {[case |-> c, customer |-> k, verified |-> v]}
  BY DEF VerifiesCustomer
<1>2. UNCHANGED <<transactions, disputes, FrozenLoans>>
  BY DEF VerifiesCustomer, FrozenLoans
<1>3. CASE v
  <2> DEFINE w == [case |-> c, customer |-> k, verified |-> v]
  <2>1. w.case = c /\ w.customer = k /\ w.verified = TRUE
    BY <1>3
  <2>2. identity_verifications' = identity_verifications \cup {w}
    BY <1>1
  <2> HIDE DEF w
  <2>3. VerifiedPairs' = VerifiedPairs \cup {<<c, k>>}
    BY <2>1, <2>2 DEF VerifiedPairs
  <2> QED BY <1>2, <2>3 DEF ContractStep, Contract!Next, Contract!Verify, VerifiedPairs, FrozenLoans
<1>4. CASE ~v
  <2>1. VerifiedPairs' = VerifiedPairs
    BY <1>1, <1>4 DEF VerifiedPairs
  <2> QED BY <1>2, <2>1 DEF ContractStep
<1> QED BY <1>3, <1>4

LEMMA MoneyMaps ==
    ASSUME NEW c \in Cases, MovesMoney(c)
    PROVE  Contract!Next
<1>1. PICK l \in Loans, a \in Amounts :
          /\ is_identity_verified(c, Owner[l])
          /\ \/ a > 0 /\ Moved(c, l, "payment", -a)
             \/ a > 0 /\ Moved(c, l, "fee", a)
             \/ /\ refund_within_auto_limit(a)
                /\ prior_refunds(c, l) = {}
                /\ Moved(c, l, "refund", a)
  BY DEF MovesMoney
<1>2. <<c, Owner[l]>> \in VerifiedPairs /\ UNCHANGED <<VerifiedPairs, disputes, FrozenLoans>>
  BY <1>1, PairOfVerification DEF MovesMoney, VerifiedPairs, FrozenLoans
<1>3. \A type, x : Moved(c, l, type, x) => Contract!Move(c, l, type, x)
  BY <1>2 DEF Moved, Contract!Move, Contract!MayTouch, VerifiedPairs, FrozenLoans
<1>4. prior_refunds(c, l) = {} =>
          ~ \E n \in DOMAIN transactions :
               /\ transactions[n].case = c /\ transactions[n].loan = l
               /\ transactions[n].type = "refund"
  BY DEF prior_refunds
<1>5. Contract!Pay(c, l, a) \/ Contract!Charge(c, l, a) \/ Contract!Refund(c, l, a)
  BY <1>1, <1>3, <1>4
     DEF Contract!Pay, Contract!Charge, Contract!Refund,
         refund_within_auto_limit, Contract!refund_within_auto_limit,
         REFUND_AUTO_LIMIT_CENTS, Contract!REFUND_AUTO_LIMIT_CENTS
<1> QED BY <1>5 DEF Contract!Next

LEMMA RaiseMaps ==
    ASSUME NEW c \in Cases, RaisesDispute(c)
    PROVE  Contract!Next
<1>1. PICK l \in Loans, k \in Customers :
          /\ is_identity_verified(c, Owner[l])
          /\ disputes' = Append(disputes, [loan |-> l, customer |-> k, case |-> c, status |-> "open"])
  BY DEF RaisesDispute
<1>2. <<c, Owner[l]>> \in VerifiedPairs /\ UNCHANGED <<VerifiedPairs, transactions, FrozenLoans>>
  BY <1>1, PairOfVerification DEF RaisesDispute, VerifiedPairs, FrozenLoans
<1>3. Contract!Claim(c, l, k)
  BY <1>1, <1>2 DEF Contract!Claim, Contract!MayTouch, VerifiedPairs, FrozenLoans
<1> QED BY <1>3 DEF Contract!Next

LEMMA SettleMaps ==
    ASSUME TypeOK, ResolverMayTouch, NEW c \in Cases, SettlesDispute(c)
    PROVE  Contract!Next
<1> DEFINE d == call[c].dispute
           r == call[c].resolution
<1>1. d \in DOMAIN disputes /\ r \in {"resolved", "rejected"}
  BY SettledDispute DEF Resolutions
<1>2. is_identity_verified(c, Owner[disputes[d].loan])
  BY DEF SettlesDispute, ResolverMayTouch
<1>3. disputes' = [disputes EXCEPT ![d].status = r]
  BY DEF SettlesDispute
<1> HIDE DEF d, r
<1>4. /\ <<c, Owner[disputes[d].loan]>> \in VerifiedPairs
      /\ UNCHANGED <<VerifiedPairs, transactions, FrozenLoans>>
  BY <1>2, PairOfVerification DEF SettlesDispute, VerifiedPairs, FrozenLoans
<1>5. Contract!Settle(c, d, r)
  BY <1>1, <1>3, <1>4, ZenonT(30) DEF Contract!Settle, Contract!MayTouch, VerifiedPairs, FrozenLoans
<1> QED BY <1>1, <1>5 DEF Contract!Next

LEMMA FreezeMaps ==
    ASSUME TypeOK, NEW c \in Cases, FreezesLoan(c)
    PROVE  Contract!Next
<1>1. PICK l \in Loans : loans' = [loans EXCEPT ![l] = "charged_off"]
  BY DEF FreezesLoan
<1>2. FrozenLoans' = FrozenLoans \cup {l}
  BY <1>1 DEF FrozenLoans, TypeOK
<1>3. UNCHANGED <<VerifiedPairs, transactions, disputes>>
  BY DEF FreezesLoan, VerifiedPairs
<1>4. Contract!Freeze(l)
  BY <1>2, <1>3 DEF Contract!Freeze, VerifiedPairs, FrozenLoans
<1> QED BY <1>4 DEF Contract!Next

LEMMA EffectMaps ==
    ASSUME TypeOK, ResolverMayTouch, NEW c \in Cases, Step(c)
    PROVE  ContractStep
<1>1. CASE KeepsAccounts(c)
  BY <1>1 DEF KeepsAccounts, ContractStep, VerifiedPairs, FrozenLoans
<1> QED BY <1>1, StepEffect, VerifyMaps, MoneyMaps, RaiseMaps, SettleMaps, FreezeMaps
        DEF Effect, ContractStep

(* The tools, with their checks and their transactions cut apart, with     *)
(* sessions running side by side, refused the database or dying anywhere,  *)
(* implement the servicing contract.                                       *)
THEOREM ToolsKeepContract == Spec => ImplementsContract
<1>1. Init => Contract!Init
  BY SeededAssumption DEF Init, Contract!Init
<1>2. Init => ResolverMayTouch
  BY DEF Init, ResolverMayTouch, Closed
<1>3. TypeOK /\ ResolverMayTouch /\ [Next]_vars => ResolverMayTouch'
  <2>1. CASE UNCHANGED vars
    BY <2>1 DEF vars, ResolverMayTouch, is_identity_verified
  <2> QED BY <2>1, ResolverStep DEF Next
<1>4. TypeOK /\ ResolverMayTouch /\ [Next]_vars => [Contract!Next]_(Contract!vars)
  <2> SUFFICES ASSUME TypeOK, ResolverMayTouch, [Next]_vars PROVE ContractStep
    BY DEF ContractStep, Contract!vars, VerifiedPairs, FrozenLoans
  <2>1. CASE UNCHANGED vars
    BY <2>1 DEF vars, ContractStep, VerifiedPairs, FrozenLoans
  <2> QED BY <2>1, EffectMaps DEF Next
<1> QED BY <1>1, <1>2, <1>3, <1>4, TypeCorrect, PTL DEF Spec, ImplementsContract, Contract!Spec

-----------------------------------------------------------------------------
(* Effects and their tool_call rows *)

PlainEvents == {row \in AuditRows : row.event \notin EffectEvents}

OkRow(row) == row.event = "tool_call" /\ row.outcome = "ok"

(* Rows that tell of no effect without its tool_call row.                  *)
Covered(rows) ==
    \A n \in DOMAIN rows :
        rows[n].event \in EffectEvents => n + 1 \in DOMAIN rows /\ OkRow(rows[n + 1])

(* What a step does to a session, its trail and the count of failures.     *)
TellsAll(c) ==
    /\ call[c].pc = "idle" /\ call'[c].pc \in {"idle", "resolving", "freezing"}
    /\ faults' = faults
    /\ \E rows \in Seq(AuditRows) : Covered(rows) /\ append_audit(c, rows)

LeavesEffect(c) ==
    /\ call[c].pc \in {"idle", "resolving", "freezing"} /\ call'[c].pc = "logging"
    /\ faults' = faults
    /\ \E row \in AuditRows : row.event \in EffectEvents /\ append_audit(c, <<row>>)

LogsEffect(c) ==
    /\ call[c].pc = "logging" /\ call'[c].pc = "idle"
    /\ faults' = faults
    /\ \E row \in AuditRows : OkRow(row) /\ append_audit(c, <<row>>)

Locks(c) ==
    /\ call[c].pc # "closed" /\ call'[c].pc = "idle"
    /\ faults' = faults + 1
    /\ UNCHANGED audit_log

Ends(c) ==
    /\ call[c].pc # "closed" /\ call'[c].pc = "closed"
    /\ faults' = faults
    /\ UNCHANGED audit_log

Opens(c) ==
    /\ cases[c].status = "absent" /\ call'[c].pc = "idle"
    /\ cases'[c].status # "absent"
    /\ faults' = faults
    /\ UNCHANGED audit_log

Trace(c) == \/ TellsAll(c) \/ LeavesEffect(c) \/ LogsEffect(c)
            \/ Locks(c) \/ Ends(c) \/ Opens(c)

LEMMA PlainRowTypes ==
    /\ CallerRows \subseteq PlainEvents
    /\ \A tool \in TOOLS, o \in {"ok", "denied"} : ToolCallRow(tool, o) \in PlainEvents
    /\ \A r \in DenialReasons : DeniedRow(r) \in PlainEvents
<1>1. CallerEventRows \subseteq PlainEvents
  <2>1. CallerEventRows \subseteq AuditRows
    BY DEF AuditRows, PlainRows
  <2>2. \A row \in CallerEventRows : row.event \notin EffectEvents
    BY DEF CallerEventRows, EffectEvents, CaseReceivedRow, ModelRejectedRow, DeniedRow
  <2> QED BY <2>1, <2>2 DEF PlainEvents
<1> QED BY <1>1, RowTypes, CallerRowsAssumption DEF PlainEvents, EffectEvents, ToolCallRow, DeniedRow

LEMMA PlainIsCovered ==
    ASSUME NEW rows \in Seq(PlainEvents)
    PROVE  rows \in Seq(AuditRows) /\ Covered(rows)
<1>1. \A n \in DOMAIN rows : rows[n] \in PlainEvents
  BY ElementOfSeq
<1>2. rows \in Seq(AuditRows)
  BY DEF PlainEvents
<1> QED BY <1>1, <1>2 DEF PlainEvents, Covered

LEMMA CallPcs ==
    ASSUME TypeOK, NEW c \in Cases, NEW x, Become(c, x)
    PROVE  call'[c].pc = x.pc
BY DEF TypeOK, Become

LEMMA PcOf ==
    /\ \A o : Idle(o).pc = "idle"
    /\ \A t : Logging(t).pc = "logging"
    /\ \A d, r : Resolving(d, r).pc = "resolving"
    /\ \A l, p : Freezing(l, p).pc = "freezing"
    /\ Closed.pc = "closed"
BY DEF Idle, Logging, Resolving, Freezing, Closed

LEMMA DeniedTells ==
    ASSUME TypeOK, NEW c \in Cases, NEW tool \in TOOLS, NEW rows \in Seq(PlainEvents), Ask(c, tool),
           Denied(c, tool, rows)
    PROVE  TellsAll(c)
<1>1. rows \o <<ToolCallRow(tool, "denied")>> \in Seq(PlainEvents)
  BY PlainRowTypes, ConcatProperties
<1> QED BY <1>1, PlainIsCovered, CallPcs, PcOf DEF Denied, Ask, Request, TellsAll

LEMMA SilentTells ==
    ASSUME TypeOK, NEW c \in Cases, call[c].pc = "idle", call'[c].pc \in {"idle", "resolving", "freezing"},
           faults' = faults, UNCHANGED audit_log
    PROVE  TellsAll(c)
<1>1. <<>> \in Seq(AuditRows) /\ Covered(<<>>)
  BY DEF Covered
<1>2. append_audit(c, <<>>)
  BY ConcatEmptySeq DEF append_audit, TypeOK
<1> QED BY <1>1, <1>2 DEF TellsAll

LEMMA RaisedTells ==
    ASSUME TypeOK, NEW c \in Cases, NEW tool, Ask(c, tool), Raised(c)
    PROVE  TellsAll(c)
BY SilentTells, CallPcs, PcOf DEF Raised, Ask, Request

LEMMA CommittedLeaves ==
    ASSUME TypeOK, NEW c \in Cases, NEW tool, NEW row \in AuditRows, Committed(c, tool, row),
           row.event \in EffectEvents, faults' = faults,
           call[c].pc \in {"idle", "resolving", "freezing"}
    PROVE  LeavesEffect(c)
BY CallPcs, PcOf DEF Committed, LeavesEffect

LEMMA MovesLeave ==
    ASSUME TypeOK, NEW c \in Cases, NEW tool \in MONEY_TOOLS, NEW l \in Loans, NEW type, NEW amount \in Int,
           type \in {"payment", "refund", "fee"}, Ask(c, tool), MoveMoney(c, tool, l, type, amount)
    PROVE  LeavesEffect(c)
<1>1. Len(transactions') \in Nat
  <2>1. [loan |-> l, case |-> c, type |-> type, amount |-> amount] \in Transactions
    BY DEF Transactions
  <2> QED BY <2>1, AppendProperties DEF MoveMoney, TypeOK
<1>2. MoneyRow(tool, l, Len(transactions'), amount) \in AuditRows
  BY <1>1, RowTypes
<1>3. MoneyRow(tool, l, Len(transactions'), amount).event \in EffectEvents
  BY DEF MoneyRow, EffectEvents
<1> QED BY <1>2, <1>3, CommittedLeaves DEF MoveMoney, Ask, Request

LEMMA MoneyTrace ==
    ASSUME TypeOK, NEW c \in Cases, NEW l \in Loans, NEW a \in Amounts,
           post_payment(c, l, a) \/ issue_refund(c, l, a) \/ apply_fee(c, l, a)
    PROVE  Trace(c)
<1>1. a \in Int /\ -a \in Int
  BY AmountsAssumption
<1>2. MONEY_TOOLS \subseteq TOOLS /\ {"post_payment", "issue_refund", "apply_fee"} = MONEY_TOOLS
  BY DEF MONEY_TOOLS, TOOLS, GATED_TOOLS
<1>3. ASSUME NEW tool \in MONEY_TOOLS, NEW r \in DenialReasons, Ask(c, tool),
             Denied(c, tool, <<DeniedRow(r)>>)
      PROVE  Trace(c)
  <2>1. <<DeniedRow(r)>> \in Seq(PlainEvents)
    BY PlainRowTypes
  <2> QED BY <1>2, <1>3, <2>1, DeniedTells DEF Trace
<1>4. ASSUME NEW tool \in MONEY_TOOLS, Ask(c, tool), Raised(c)
      PROVE  Trace(c)
  BY <1>4, RaisedTells DEF Trace
<1>5. ASSUME NEW tool \in MONEY_TOOLS, Ask(c, tool), NEW type \in {"payment", "refund", "fee"},
             NEW x \in Int, MoveMoney(c, tool, l, type, x)
      PROVE  Trace(c)
  BY <1>5, MovesLeave DEF Trace
<1> QED BY <1>1, <1>2, <1>3, <1>4, <1>5
        DEF post_payment, issue_refund, apply_fee, AskGated, DenialReasons

LEMMA DisputeTrace ==
    ASSUME TypeOK, NEW c \in Cases, NEW l \in Loans,
           \/ \E k \in AnyCustomer : raise_dispute(c, l, k)
           \/ \E d, r : resolve_dispute_check(c, l, d, r)
    PROVE  Trace(c)
<1>0. {"raise_dispute", "resolve_dispute"} \subseteq TOOLS
  BY DEF TOOLS, GATED_TOOLS
<1>1. ASSUME NEW tool \in TOOLS, Ask(c, tool), Raised(c)
      PROVE  Trace(c)
  BY <1>1, RaisedTells DEF Trace
<1>2. ASSUME NEW k \in AnyCustomer, raise_dispute(c, l, k)
      PROVE  Trace(c)
  <2>1. CASE Raised(c)
    BY <1>0, <1>1, <1>2, <2>1 DEF raise_dispute, AskGated
  <2>2. CASE /\ k \in Customers
             /\ disputes' = Append(disputes, [loan |-> l, customer |-> k, case |-> c, status |-> "open"])
             /\ Committed(c, "raise_dispute", RaisedRow(Len(disputes'), l))
    <3>1. [loan |-> l, customer |-> k, case |-> c, status |-> "open"] \in Disputes
      BY <2>2 DEF Disputes
    <3>2. Len(disputes') \in Nat
      BY <2>2, <3>1, AppendProperties DEF TypeOK
    <3>3. RaisedRow(Len(disputes'), l) \in AuditRows /\ RaisedRow(Len(disputes'), l).event \in EffectEvents
      BY <3>2, RowTypes DEF RaisedRow, EffectEvents
    <3> QED BY <1>2, <2>2, <3>3, CommittedLeaves DEF raise_dispute, AskGated, Ask, Request, Trace
  <2> QED BY <1>2, <2>1, <2>2 DEF raise_dispute
<1>3. ASSUME NEW d, NEW r, resolve_dispute_check(c, l, d, r)
      PROVE  Trace(c)
  <2>0. Ask(c, "resolve_dispute")
    BY <1>3 DEF resolve_dispute_check, AskGated
  <2>1. CASE Denied(c, "resolve_dispute", <<>>)
    <3>1. <<>> \in Seq(PlainEvents)
      OBVIOUS
    <3> QED BY <1>0, <2>0, <2>1, <3>1, DeniedTells DEF Trace
  <2>2. CASE Become(c, Resolving(d, r)) /\ UNCHANGED <<db, audit_log>>
    BY <2>0, <2>2, SilentTells, CallPcs, PcOf DEF Ask, Request, Trace
  <2> QED BY <1>0, <1>1, <1>3, <2>0, <2>1, <2>2 DEF resolve_dispute_check
<1> QED BY <1>2, <1>3

LEMMA BeginTrace ==
    ASSUME TypeOK, NEW c \in Cases, NEW tool \in TOOLS, BeginCall(c, tool)
    PROVE  Trace(c)
<1>1. ASSUME NEW k, NEW p \in BOOLEAN, NEW q \in BOOLEAN, verify_identity(c, k, p, q)
      PROVE  Trace(c)
  <2> DEFINE v == p /\ q
  <2>1. CASE Raised(c)
    BY <1>1, <2>1, RaisedTells DEF verify_identity, Trace
  <2>2. CASE k \in Customers /\ Committed(c, "verify_identity", IdentityRow(k, v))
    <3>1. v \in BOOLEAN
      OBVIOUS
    <3> HIDE DEF v
    <3>2. IdentityRow(k, v) \in AuditRows /\ IdentityRow(k, v).event \in EffectEvents
      BY <2>2, <3>1, RowTypes DEF IdentityRow, EffectEvents
    <3> QED BY <1>1, <2>2, <3>2, CommittedLeaves DEF verify_identity, Ask, Request, Trace
  <2> QED BY <1>1, <2>1, <2>2 DEF verify_identity
<1>2. ASSUME NEW l \in AnyLoan, require_identity_verified(c, tool, l)
      PROVE  Trace(c)
  <2>1. (IF l \in Loans THEN <<DeniedRow("identity_not_verified")>> ELSE <<>>) \in Seq(PlainEvents)
    BY PlainRowTypes DEF DenialReasons
  <2> QED BY <1>2, <2>1, DeniedTells DEF require_identity_verified, Trace
<1>3. ASSUME NEW l \in AnyLoan, freeze_account_read(c, l)
      PROVE  Trace(c)
  <2>1. CASE Raised(c)
    BY <1>3, <2>1, RaisedTells DEF freeze_account_read, Trace
  <2>2. CASE Become(c, Freezing(l, loans[l])) /\ UNCHANGED <<db, audit_log>>
    BY <1>3, <2>2, SilentTells, CallPcs, PcOf DEF freeze_account_read, Ask, Request, Trace
  <2> QED BY <1>3, <2>1, <2>2 DEF freeze_account_read
<1>4. ASSUME escalate_to_human(c)
      PROVE  Trace(c)
  <2>1. EscalatedRow \in AuditRows /\ EscalatedRow.event \in EffectEvents
    BY RowTypes DEF EscalatedRow, EffectEvents
  <2> QED BY <1>4, <2>1, CommittedLeaves DEF escalate_to_human, Ask, Request, Trace
<1>5. ASSUME NEW rows \in {<<>>, <<MessageRow>>}, NEW t \in TOOLS, Ask(c, t), Logged(c, t, rows)
      PROVE  Trace(c)
  <2> DEFINE ok == ToolCallRow(t, "ok")
  <2>1. ok \in AuditRows /\ MessageRow \in AuditRows /\ OkRow(ok) /\ ok.event \notin EffectEvents
    BY RowTypes DEF ToolCallRow, OkRow, EffectEvents
  <2>2. append_audit(c, rows \o <<ok>>) /\ call'[c].pc = "idle"
    BY <1>5, CallPcs, PcOf DEF Logged
  <2> HIDE DEF ok
  <2>3. CASE rows = <<>>
    <3>1. <<ok>> \in Seq(AuditRows) /\ Covered(<<ok>>) /\ rows \o <<ok>> = <<ok>>
      BY <2>1, <2>3, ConcatEmptySeq DEF Covered
    <3> QED BY <1>5, <2>2, <3>1 DEF Ask, Request, TellsAll, Trace
  <2>4. CASE rows = <<MessageRow>>
    <3> DEFINE both == <<MessageRow>> \o <<ok>>
    <3>1. /\ both \in Seq(AuditRows) /\ Len(both) = 2
          /\ both[2] = ok
      BY <2>1, ConcatProperties
    <3> HIDE DEF both
    <3>2. Covered(both)
      <4>1. DOMAIN both = 1 .. 2
        BY <3>1, LenProperties
      <4>2. ASSUME NEW n \in DOMAIN both, both[n].event \in EffectEvents
            PROVE  n = 1
        BY <2>1, <3>1, <4>1, <4>2
      <4> QED BY <2>1, <3>1, <4>1, <4>2 DEF Covered
    <3>3. append_audit(c, both)
      BY <2>2, <2>4 DEF both
    <3> QED BY <1>5, <2>2, <3>1, <3>2, <3>3 DEF Ask, Request, TellsAll, Trace
  <2> QED BY <1>5, <2>3, <2>4
<1>6. ASSUME send_customer_message(c) \/ \E known \in BOOLEAN : read_tool(c, tool, known)
      PROVE  Trace(c)
  <2>1. "send_customer_message" \in TOOLS
    BY DEF TOOLS, UNGATED_TOOLS
  <2> QED BY <1>5, <1>6, <2>1, RaisedTells DEF send_customer_message, read_tool, Trace
<1>7. ASSUME bad_arguments(c, tool)
      PROVE  Trace(c)
  BY <1>7, RaisedTells DEF bad_arguments, Trace
<1> QED BY <1>1, <1>2, <1>3, <1>4, <1>6, <1>7, MoneyTrace, DisputeTrace DEF BeginCall

LEMMA StepTrace ==
    ASSUME TypeOK, NEW c \in Cases, Step(c)
    PROVE  Trace(c)
<1>1. CASE resolve_dispute_update(c)
  <2>1. call[c].pc = "resolving" /\ call[c].dispute \in Nat /\ call[c].resolution \in Resolutions
    BY <1>1, CallFields DEF resolve_dispute_update, Continue, TypeOK
  <2>2. ResolvedRow(call[c].dispute, call[c].resolution) \in AuditRows
        /\ ResolvedRow(call[c].dispute, call[c].resolution).event \in EffectEvents
    BY <2>1, RowTypes DEF ResolvedRow, EffectEvents
  <2> QED BY <1>1, <2>1, <2>2, CommittedLeaves DEF resolve_dispute_update, Continue, Trace
<1>2. CASE freeze_account_update(c)
  <2>1. call[c].pc = "freezing" /\ call[c].loan \in Loans /\ call[c].prior \in LoanStatuses
    BY <1>2, CallFields DEF freeze_account_update, Continue, TypeOK
  <2>2. FrozenRow(call[c].loan, call[c].prior) \in AuditRows
        /\ FrozenRow(call[c].loan, call[c].prior).event \in EffectEvents
    BY <2>1, RowTypes DEF FrozenRow, EffectEvents
  <2> QED BY <1>2, <2>1, <2>2, CommittedLeaves DEF freeze_account_update, Continue, Trace
<1>3. CASE LogCall(c)
  <2>1. call[c].pc = "logging" /\ call[c].tool \in TOOLS /\ call'[c].pc = "idle"
    BY <1>3, CallFields, CallPcs, PcOf DEF LogCall, Continue, TypeOK
  <2>2. ToolCallRow(call[c].tool, "ok") \in AuditRows /\ OkRow(ToolCallRow(call[c].tool, "ok"))
    BY <2>1, RowTypes DEF ToolCallRow, OkRow
  <2> QED BY <1>3, <2>1, <2>2 DEF LogCall, Continue, LogsEffect, Trace
<1>4. CASE DatabaseLocked(c)
  BY <1>4, CallPcs, PcOf DEF DatabaseLocked, Raised, Request, Locks, Trace
<1>5. CASE OpenCase(c)
  <2>1. call'[c].pc = "idle"
    BY <1>5, CallPcs, PcOf DEF OpenCase
  <2>2. cases'[c].status = "received"
    BY <1>5 DEF OpenCase, TypeOK, CaseRows
  <2> QED BY <1>5, <2>1, <2>2 DEF OpenCase, Opens, Trace
<1>6. ASSUME NEW row \in CallerRows, CallerRow(c, row)
      PROVE  Trace(c)
  <2>1. <<row>> \in Seq(PlainEvents)
    BY PlainRowTypes
  <2>2. append_audit(c, <<row>>) /\ call[c].pc = "idle" /\ call' = call /\ faults' = faults
    BY <1>6 DEF CallerRow, Request
  <2> QED BY <2>1, <2>2, PlainIsCovered DEF TellsAll, Trace
<1>7. CASE SessionEnds(c) \/ \E s \in {"resolved", "escalated"} : CompleteCase(c, s)
  BY <1>7, CallPcs, PcOf DEF SessionEnds, CompleteCase, Continue, Ends, Trace
<1> QED BY <1>1, <1>2, <1>3, <1>4, <1>5, <1>6, <1>7, BeginTrace DEF Step, ContinueCall

(* The unlogged effects of a case, by the failures so far and by where its *)
(* session is: only a call in flight has its effect at the trail's end.    *)
InFlight(c) == IF call[c].pc \in {"logging", "closed"} THEN 1 ELSE 0

UnloggedOK(c) ==
    /\ Cardinality(Unlogged(c)) <= faults + InFlight(c)
    /\ call[c].pc = "logging" => Len(audit_log[c]) \in Unlogged(c)
    /\ faults = 0 => Unlogged(c) \subseteq {Len(audit_log[c])}
    /\ cases[c].status = "absent" => call[c].pc = "closed" /\ audit_log[c] = <<>>

LEMMA PlacesAreFinite ==
    ASSUME NEW trail \in Seq(AuditRows), NEW places \in SUBSET DOMAIN trail
    PROVE  IsFiniteSet(places) /\ Cardinality(places) \in Nat
<1>1. DOMAIN trail = 1 .. Len(trail) /\ Len(trail) \in Nat
  BY LenProperties
<1>2. IsFiniteSet(1 .. Len(trail))
  BY <1>1, FS_Interval
<1>3. IsFiniteSet(places)
  BY <1>1, <1>2, FS_Subset
<1> QED BY <1>3, FS_CardinalityType

LEMMA UnloggedIsFinite ==
    ASSUME TypeOK, NEW c \in Cases
    PROVE  IsFiniteSet(Unlogged(c)) /\ Cardinality(Unlogged(c)) \in Nat
BY PlacesAreFinite DEF TypeOK, Unlogged

(* Appended rows leave no old effect without the row it had.               *)
LEMMA OldUnlogged ==
    ASSUME TypeOK, NEW c \in Cases, NEW rows \in Seq(AuditRows), append_audit(c, rows),
           NEW i \in Unlogged(c)', i \in DOMAIN audit_log[c]
    PROVE  i \in Unlogged(c)
<1>1. \A j \in DOMAIN audit_log[c] : j \in DOMAIN audit_log'[c] /\ audit_log'[c][j] = audit_log[c][j]
  BY OldRows
<1> QED BY <1>1 DEF Unlogged

LEMMA TellsUnlogged ==
    ASSUME TypeOK, NEW c \in Cases, NEW rows \in Seq(AuditRows), append_audit(c, rows), Covered(rows)
    PROVE  Unlogged(c)' \subseteq Unlogged(c)
<1> SUFFICES ASSUME NEW i \in Unlogged(c)', i \notin DOMAIN audit_log[c] PROVE FALSE
  BY OldUnlogged
<1> DEFINE n == i - Len(audit_log[c])
<1>1. /\ Len(audit_log[c]) \in Nat /\ DOMAIN audit_log[c] = 1 .. Len(audit_log[c])
      /\ Len(rows) \in Nat /\ DOMAIN rows = 1 .. Len(rows)
  BY TrailTypes, LenProperties
<1>2. /\ DOMAIN audit_log'[c] = 1 .. Len(audit_log[c]) + Len(rows)
      /\ \A j \in Len(audit_log[c]) + 1 .. Len(audit_log[c]) + Len(rows) :
            audit_log'[c][j] = rows[j - Len(audit_log[c])]
  BY Appended
<1>3. i \in DOMAIN audit_log'[c] /\ audit_log'[c][i].event \in EffectEvents
  BY DEF Unlogged
<1>4. n \in DOMAIN rows /\ audit_log'[c][i] = rows[n]
  BY <1>1, <1>2, <1>3
<1>5. n + 1 \in DOMAIN rows /\ OkRow(rows[n + 1])
  BY <1>3, <1>4 DEF Covered
<1>6. i + 1 \in DOMAIN audit_log'[c] /\ audit_log'[c][i + 1] = rows[n + 1]
  <2>1. i + 1 \in Len(audit_log[c]) + 1 .. Len(audit_log[c]) + Len(rows)
    <3>1. i \in Int
      BY <1>1, <1>2, <1>3
    <3>2. i + 1 - Len(audit_log[c]) \in 1 .. Len(rows)
      BY <1>1, <1>5, <3>1
    <3> QED BY <1>1, <3>1, <3>2
  <2> DEFINE j == i + 1
  <2>2. j \in Len(audit_log[c]) + 1 .. Len(audit_log[c]) + Len(rows) /\ j - Len(audit_log[c]) = n + 1
    BY <1>1, <1>2, <1>3, <2>1
  <2> HIDE DEF j, n
  <2>3. audit_log'[c][j] = rows[n + 1] /\ j \in DOMAIN audit_log'[c]
    BY <1>1, <1>2, <2>2
  <2> QED BY <2>3 DEF j
<1> QED BY <1>5, <1>6 DEF Unlogged, OkRow

LEMMA EffectUnlogged ==
    ASSUME TypeOK, NEW c \in Cases, NEW row \in AuditRows, append_audit(c, <<row>>),
           row.event \in EffectEvents
    PROVE  /\ Len(audit_log'[c]) = Len(audit_log[c]) + 1
           /\ Len(audit_log'[c]) \in Unlogged(c)'
           /\ Unlogged(c)' \subseteq Unlogged(c) \cup {Len(audit_log'[c])}
<1> DEFINE rows == <<row>>
<1>0. rows \in Seq(AuditRows) /\ Len(rows) = 1 /\ append_audit(c, rows)
  OBVIOUS
<1>1. Len(audit_log[c]) \in Nat /\ DOMAIN audit_log[c] = 1 .. Len(audit_log[c])
  BY TrailTypes
<1> HIDE DEF rows
<1>2. /\ Len(audit_log'[c]) = Len(audit_log[c]) + 1
      /\ DOMAIN audit_log'[c] = 1 .. Len(audit_log[c]) + 1
  BY <1>0, Appended
<1>3. audit_log'[c][Len(audit_log[c]) + 1] = row
  BY AppendedOne
<1>4. Len(audit_log'[c]) \in Unlogged(c)'
  BY <1>1, <1>2, <1>3 DEF Unlogged
<1>5. ASSUME NEW i \in Unlogged(c)'
      PROVE  i \in Unlogged(c) \cup {Len(audit_log'[c])}
  <2>1. i \in DOMAIN audit_log'[c]
    BY DEF Unlogged
  <2>2. CASE i \in DOMAIN audit_log[c]
    BY <1>0, <1>5, <2>2, OldUnlogged
  <2>3. CASE i \notin DOMAIN audit_log[c]
    BY <1>1, <1>2, <2>1, <2>3
  <2> QED BY <2>2, <2>3
<1> QED BY <1>2, <1>4, <1>5

LEMMA LoggedUnlogged ==
    ASSUME TypeOK, NEW c \in Cases, NEW row \in AuditRows, append_audit(c, <<row>>), OkRow(row)
    PROVE  Unlogged(c)' \subseteq Unlogged(c) \ {Len(audit_log[c])}
<1> DEFINE rows == <<row>>
<1>0. rows \in Seq(AuditRows) /\ append_audit(c, rows) /\ Covered(rows)
  BY DEF Covered, OkRow, EffectEvents
<1> HIDE DEF rows
<1>1. Unlogged(c)' \subseteq Unlogged(c)
  BY <1>0, TellsUnlogged
<1>2. /\ Len(audit_log[c]) + 1 \in DOMAIN audit_log'[c]
      /\ audit_log'[c][Len(audit_log[c]) + 1] = row
  BY AppendedOne
<1>3. Len(audit_log[c]) \notin Unlogged(c)'
  BY <1>2 DEF Unlogged, OkRow
<1> QED BY <1>1, <1>3

LEMMA CasesStay ==
    ASSUME NEW c \in Cases, Step(c), ~OpenCase(c), ~\E s \in {"resolved", "escalated"} : CompleteCase(c, s)
    PROVE  cases' = cases \/ cases' = [cases EXCEPT ![c].status = "escalated"]
<1>1. ASSUME NEW tool, BeginCall(c, tool), ~escalate_to_human(c)
      PROVE  cases' = cases
  <2>1. ASSUME \/ \E l, a : post_payment(c, l, a) \/ issue_refund(c, l, a) \/ apply_fee(c, l, a)
               \/ \E l, k : raise_dispute(c, l, k)
               \/ \E l, d, r : resolve_dispute_check(c, l, d, r)
        PROVE  cases' = cases
    BY <2>1 DEF post_payment, issue_refund, apply_fee, raise_dispute, resolve_dispute_check, MoveMoney,
                Denied, Raised, db
  <2>2. ASSUME \/ \E k, p, q : verify_identity(c, k, p, q)
               \/ \E l : require_identity_verified(c, tool, l) \/ freeze_account_read(c, l)
               \/ send_customer_message(c) \/ bad_arguments(c, tool)
               \/ \E known : read_tool(c, tool, known)
        PROVE  cases' = cases
    BY <2>2 DEF verify_identity, require_identity_verified, freeze_account_read, send_customer_message,
                bad_arguments, read_tool, Denied, Raised, Logged, db
  <2> QED BY <1>1, <2>1, <2>2 DEF BeginCall
<1>2. escalate_to_human(c) => cases' = [cases EXCEPT ![c].status = "escalated"]
  BY DEF escalate_to_human
<1>3. ContinueCall(c) \/ DatabaseLocked(c) \/ SessionEnds(c) \/ (\E row \in CallerRows : CallerRow(c, row))
          => cases' = cases
  BY DEF ContinueCall, resolve_dispute_update, freeze_account_update, LogCall, DatabaseLocked, Raised,
         SessionEnds, CallerRow, db
<1> QED BY <1>1, <1>2, <1>3 DEF Step

(* A session that takes a step has its case row.                           *)
LEMMA AbsentNoMore ==
    ASSUME TypeOK, NEW c \in Cases, UnloggedOK(c), Step(c)
    PROVE  cases'[c].status # "absent"
<1>1. CASE OpenCase(c)
  BY <1>1 DEF OpenCase, TypeOK, CaseRows
<1>2. CASE \E s \in {"resolved", "escalated"} : CompleteCase(c, s)
  BY <1>2 DEF CompleteCase, TypeOK
<1>3. CASE ~OpenCase(c) /\ ~\E s \in {"resolved", "escalated"} : CompleteCase(c, s)
  <2>1. call[c].pc # "closed"
    BY <1>3 DEF Step, ContinueCall, resolve_dispute_update, freeze_account_update, LogCall, Continue,
                DatabaseLocked, Request, CallerRow, SessionEnds, BeginCall, verify_identity,
                require_identity_verified, post_payment, issue_refund, apply_fee, raise_dispute,
                resolve_dispute_check, freeze_account_read, escalate_to_human, send_customer_message,
                read_tool, bad_arguments, AskGated, Ask
  <2>2. cases[c].status # "absent"
    BY <2>1 DEF UnloggedOK
  <2>3. cases' = cases \/ cases' = [cases EXCEPT ![c].status = "escalated"]
    BY <1>3, CasesStay
  <2> QED BY <2>2, <2>3 DEF TypeOK, CaseRows
<1> QED BY <1>1, <1>2, <1>3

LEMMA UnloggedStep ==
    ASSUME TypeOK, NEW c \in Cases, UnloggedOK(c), Step(c)
    PROVE  UnloggedOK(c)'
<1>1. TypeOK'
  BY StepTypes DEF Next
<1>2. /\ IsFiniteSet(Unlogged(c)) /\ Cardinality(Unlogged(c)) \in Nat
      /\ IsFiniteSet(Unlogged(c)') /\ Cardinality(Unlogged(c)') \in Nat
      /\ faults \in Nat
  <2>1. audit_log'[c] \in Seq(AuditRows)
    BY <1>1 DEF TypeOK
  <2>2. Unlogged(c)' \in SUBSET DOMAIN audit_log'[c]
    BY DEF Unlogged
  <2> QED BY <2>1, <2>2, UnloggedIsFinite, PlacesAreFinite DEF TypeOK
<1>3. cases'[c].status # "absent"
  BY AbsentNoMore
<1>4. ASSUME Unlogged(c)' \subseteq Unlogged(c)
      PROVE  Cardinality(Unlogged(c)') <= Cardinality(Unlogged(c))
  BY <1>2, <1>4, FS_Subset
<1>5. ASSUME call[c].pc \in {"idle", "resolving", "freezing"}, faults = 0
      PROVE  Unlogged(c) = {}
  <2>1. InFlight(c) = 0
    BY <1>5 DEF InFlight
  <2>2. Cardinality(Unlogged(c)) = 0
    BY <1>2, <1>5, <2>1 DEF UnloggedOK
  <2> QED BY <1>2, <2>2, FS_EmptySet
<1>6. CASE TellsAll(c)
  <2>1. Unlogged(c)' \subseteq Unlogged(c)
    BY <1>6, TellsUnlogged DEF TellsAll
  <2>2. InFlight(c) = 0 /\ InFlight(c)' = 0
    BY <1>6 DEF TellsAll, InFlight
  <2>3. Cardinality(Unlogged(c)') <= faults' + InFlight(c)'
    BY <1>2, <1>4, <1>6, <2>1, <2>2 DEF TellsAll, UnloggedOK
  <2> QED BY <1>3, <1>5, <1>6, <2>1, <2>3 DEF TellsAll, UnloggedOK
<1>7. CASE LeavesEffect(c)
  <2> DEFINE last == Len(audit_log'[c])
  <2>1. last \in Unlogged(c)' /\ Unlogged(c)' \subseteq Unlogged(c) \cup {last}
    BY <1>7, EffectUnlogged DEF LeavesEffect
  <2>2. Cardinality(Unlogged(c)') <= Cardinality(Unlogged(c)) + 1
    <3> HIDE DEF last
    <3>1. /\ IsFiniteSet(Unlogged(c) \cup {last})
          /\ Cardinality(Unlogged(c) \cup {last}) <= Cardinality(Unlogged(c)) + 1
      <4>1. /\ IsFiniteSet(Unlogged(c) \cup {last})
            /\ Cardinality(Unlogged(c) \cup {last}) =
                   IF last \in Unlogged(c) THEN Cardinality(Unlogged(c)) ELSE Cardinality(Unlogged(c)) + 1
        BY <1>2, FS_AddElement
      <4>2. Cardinality(Unlogged(c)) <= Cardinality(Unlogged(c)) + 1
        BY <1>2
      <4> QED BY <1>2, <4>1, <4>2
    <3>2. Cardinality(Unlogged(c)') <= Cardinality(Unlogged(c) \cup {last})
      BY <2>1, <3>1, FS_Subset
    <3>3. Cardinality(Unlogged(c) \cup {last}) \in Nat
      BY <3>1, FS_CardinalityType
    <3> QED BY <1>2, <3>1, <3>2, <3>3
  <2>3. InFlight(c) = 0 /\ InFlight(c)' = 1
    BY <1>7 DEF LeavesEffect, InFlight
  <2>4. Cardinality(Unlogged(c)') <= faults' + InFlight(c)'
    BY <1>2, <1>7, <2>2, <2>3 DEF LeavesEffect, UnloggedOK
  <2>5. faults' = 0 => Unlogged(c)' \subseteq {last}
    BY <1>5, <1>7, <2>1 DEF LeavesEffect
  <2> QED BY <1>3, <2>1, <2>4, <2>5 DEF UnloggedOK
<1>8. CASE LogsEffect(c)
  <2> DEFINE last == Len(audit_log[c])
  <2>1. last \in Unlogged(c) /\ Unlogged(c)' \subseteq Unlogged(c) \ {last}
    BY <1>8, LoggedUnlogged DEF LogsEffect, UnloggedOK
  <2>2. Cardinality(Unlogged(c)') <= Cardinality(Unlogged(c)) - 1
    <3>1. /\ IsFiniteSet(Unlogged(c) \ {last})
          /\ Cardinality(Unlogged(c) \ {last}) = Cardinality(Unlogged(c)) - 1
      BY <1>2, <2>1, FS_RemoveElement
    <3> QED BY <2>1, <3>1, FS_Subset
  <2>3. InFlight(c) = 1 /\ InFlight(c)' = 0
    BY <1>8 DEF LogsEffect, InFlight
  <2>4. Cardinality(Unlogged(c)') <= faults' + InFlight(c)'
    BY <1>2, <1>8, <2>2, <2>3 DEF LogsEffect, UnloggedOK
  <2>5. faults' = 0 => Unlogged(c)' = {}
    BY <1>8, <2>1 DEF LogsEffect, UnloggedOK
  <2> QED BY <1>3, <1>8, <2>4, <2>5 DEF LogsEffect, UnloggedOK
<1>9. CASE Locks(c)
  <2>1. Unlogged(c)' = Unlogged(c)
    BY <1>9 DEF Locks, Unlogged
  <2>2. InFlight(c) \in {0, 1} /\ InFlight(c)' = 0
    BY <1>9 DEF Locks, InFlight
  <2>3. Cardinality(Unlogged(c)') <= faults' + InFlight(c)'
    BY <1>2, <1>9, <2>1, <2>2 DEF Locks, UnloggedOK
  <2>4. faults' # 0
    BY <1>2, <1>9 DEF Locks
  <2> QED BY <1>3, <1>9, <2>3, <2>4 DEF Locks, UnloggedOK
<1>10. CASE Ends(c)
  <2>1. Unlogged(c)' = Unlogged(c) /\ Len(audit_log'[c]) = Len(audit_log[c])
    BY <1>10 DEF Ends, Unlogged
  <2>2. InFlight(c) \in {0, 1} /\ InFlight(c)' = 1
    BY <1>10 DEF Ends, InFlight
  <2>3. Cardinality(Unlogged(c)') <= faults' + InFlight(c)'
    BY <1>2, <1>10, <2>1, <2>2 DEF Ends, UnloggedOK
  <2> QED BY <1>3, <1>10, <2>1, <2>3 DEF Ends, UnloggedOK
<1>11. CASE Opens(c)
  <2>1. audit_log[c] = <<>> /\ Unlogged(c)' = Unlogged(c)
    BY <1>11 DEF Opens, UnloggedOK, Unlogged
  <2>2. Unlogged(c) = {}
    BY <2>1 DEF Unlogged
  <2>3. InFlight(c)' = 0
    BY <1>11 DEF Opens, InFlight
  <2>4. Cardinality(Unlogged(c)') <= faults' + InFlight(c)'
    BY <1>2, <1>11, <2>1, <2>2, <2>3, FS_EmptySet DEF Opens
  <2> QED BY <1>3, <1>11, <2>1, <2>2, <2>4 DEF Opens, UnloggedOK
<1> QED BY <1>6, <1>7, <1>8, <1>9, <1>10, <1>11, StepTrace DEF Trace

(* A step changes the trail and the session of its own case, and the       *)
(* count of failures only grows.                                           *)
LEMMA OthersUnlogged ==
    ASSUME TypeOK, NEW c \in Cases, UnloggedOK(c), Step(c), NEW e \in Cases, e # c, UnloggedOK(e)
    PROVE  UnloggedOK(e)'
<1>1. \E rows : append_audit(c, rows)
  BY StepEffect DEF Effect, KeepsAccounts, VerifiesCustomer, MovesMoney, RaisesDispute,
                    SettlesDispute, FreezesLoan, Quietly
<1>2. audit_log'[e] = audit_log[e] /\ call'[e] = call[e]
  BY <1>1, OtherTrails, StepBecomes DEF BecomesCall
<1>3. cases'[e] = cases[e]
  <2>1. CASE OpenCase(c) \/ \E s \in {"resolved", "escalated"} : CompleteCase(c, s)
    BY <2>1 DEF OpenCase, CompleteCase, TypeOK
  <2> QED BY <2>1, CasesStay DEF TypeOK
<1>4. faults \in Nat /\ faults' \in Nat /\ faults' >= faults
  <2>1. faults \in Nat
    BY DEF TypeOK
  <2> QED BY <2>1, StepTrace DEF Trace, TellsAll, LeavesEffect, LogsEffect, Locks, Ends, Opens
<1>5. Unlogged(e)' = Unlogged(e) /\ InFlight(e)' = InFlight(e) /\ InFlight(e) \in Nat
  BY <1>2 DEF Unlogged, InFlight
<1>6. Cardinality(Unlogged(e)) \in Nat
  BY UnloggedIsFinite
<1>7. Cardinality(Unlogged(e)') <= faults' + InFlight(e)'
  BY <1>4, <1>5, <1>6 DEF UnloggedOK
<1> QED BY <1>2, <1>3, <1>4, <1>5, <1>7 DEF UnloggedOK

(* Every effect without its tool_call row is accounted for by a failure.   *)
THEOREM UnloggedAreFailures == Spec => []UnloggedEffectsAreFailures
<1> DEFINE Inv == \A c \in Cases : UnloggedOK(c)
<1>1. Init => Inv
  <2> SUFFICES ASSUME Init, NEW c \in Cases PROVE UnloggedOK(c)
    OBVIOUS
  <2>1. audit_log[c] = <<>> /\ call[c].pc = "closed" /\ faults = 0
    BY DEF Init, Closed
  <2>2. Unlogged(c) = {}
    BY <2>1 DEF Unlogged
  <2> QED BY <2>1, <2>2, FS_EmptySet DEF UnloggedOK, InFlight
<1>2. TypeOK /\ Inv /\ [Next]_vars => Inv'
  <2> SUFFICES ASSUME TypeOK, Inv, [Next]_vars, NEW e \in Cases PROVE UnloggedOK(e)'
    OBVIOUS
  <2>0. UnloggedOK(e)
    OBVIOUS
  <2>1. ASSUME NEW c \in Cases, Step(c)
        PROVE  UnloggedOK(e)'
    <3>1. UnloggedOK(c)
      OBVIOUS
    <3> HIDE DEF Inv
    <3> QED BY <2>0, <2>1, <3>1, UnloggedStep, OthersUnlogged
  <2>2. CASE UNCHANGED vars
    BY <2>0, <2>2 DEF vars, UnloggedOK, Unlogged, InFlight
  <2> QED BY <2>1, <2>2 DEF Next
<1>3. TypeOK /\ Inv => UnloggedEffectsAreFailures
  <2> SUFFICES ASSUME TypeOK, Inv, NEW c \in Cases
               PROVE  /\ call[c].pc = "idle" /\ faults = 0 => Unlogged(c) = {}
                      /\ faults = 0 => Unlogged(c) \subseteq {Len(audit_log[c])}
                      /\ Cardinality(Unlogged(c)) <=
                             faults + (IF call[c].pc \in {"logging", "closed"} THEN 1 ELSE 0)
    BY DEF UnloggedEffectsAreFailures
  <2>1. UnloggedOK(c)
    OBVIOUS
  <2>2. IsFiniteSet(Unlogged(c)) /\ Cardinality(Unlogged(c)) \in Nat
    BY UnloggedIsFinite
  <2> QED BY <2>1, <2>2, FS_EmptySet DEF UnloggedOK, InFlight
<1> QED BY <1>1, <1>2, <1>3, TypeCorrect, PTL DEF Spec
=============================================================================
