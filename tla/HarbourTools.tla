----------------------------- MODULE HarbourTools -----------------------------
(***************************************************************************)
(* The tool layer of Harbour over its SQLite database: the tables of       *)
(* db.py, the decorators of policy_engine.py and the fourteen tools of     *)
(* tools/.  Each case is served by one session, a database connection of   *)
(* its own, and sessions run concurrently (the service's handlers are      *)
(* threads).  The caller of the tools is free: any session may ask for any *)
(* tool with any arguments, in any order; HarbourAgent replaces it by the  *)
(* agent loop.                                                             *)
(*                                                                         *)
(* A step is what one commit makes visible.  A tool whose reads concern    *)
(* only rows of its own case (which no other session writes) does its      *)
(* checks and its transaction in one step; resolve_dispute and             *)
(* freeze_account read rows other sessions write, outside their            *)
(* transaction, and are cut there.  The tool_call row of a call is         *)
(* written after the tool's own transaction has committed: LogCall.        *)
(***************************************************************************)
EXTENDS HarbourPolicy, FiniteSets

CONSTANTS
    Cases, Customers, Loans,
    Owner,            \* the customer each loan belongs to
    UnknownCustomer,  \* ids with no row in customers and in loans
    UnknownLoan,
    SeededStatuses,   \* the statuses loans are seeded with
    Amounts,          \* the amounts, in cents, callers ask for
    CallerTools,      \* the tools callers ask for
    CallerRows,       \* the audit rows callers write themselves
    MaxRequests,      \* bound: requests of all sessions together
    MaxFaults         \* bound: "database is locked" errors

VARIABLES
    loans,                   \* loans.status
    transactions,            \* in commit order; a row's id is its position
    disputes,                \* likewise
    identity_verifications,
    cases,                   \* cases.status and whether completed_at is set
    audit_log,               \* the rows of each case, in seq order
    call,                    \* what each case's session is doing
    requests, faults         \* counters for the bounds

db == <<loans, transactions, disputes, identity_verifications, cases>>
vars == <<loans, transactions, disputes, identity_verifications, cases,
          audit_log, call, requests, faults>>

ASSUME OwnerAssumption == Owner \in [Loans -> Customers]
ASSUME UnknownAssumption == UnknownLoan \notin Loans /\ UnknownCustomer \notin Customers
ASSUME SeededAssumption == SeededStatuses \subseteq {"active", "delinquent"}
ASSUME AmountsAssumption == Amounts \subseteq Int
ASSUME CallerToolsAssumption == CallerTools \subseteq TOOLS
ASSUME BoundsAssumption == MaxRequests \in Nat /\ MaxFaults \in Nat

-----------------------------------------------------------------------------
(* Rows *)

LoanStatuses == {"active", "delinquent", "paid_off", "charged_off"}
Resolutions == {"resolved", "rejected"}

Transactions == [loan : Loans, case : Cases,
                 type : {"payment", "refund", "fee"}, amount : Int]
Disputes == [loan : Loans, customer : Customers, case : Cases,
             status : {"open"} \cup Resolutions]
Verifications == [case : Cases, customer : Customers, verified : BOOLEAN]
CaseRows == [status : {"absent", "received", "resolved", "escalated"}, completed : BOOLEAN]

(* The audit rows, each with the part of its payload a property looks at.  *)
IdentityRow(k, v)          == [event |-> "identity_verified", customer |-> k, verified |-> v]
MoneyRow(tool, l, n, a)    == [event |-> "money_moved", tool |-> tool, loan |-> l,
                               txn |-> n, amount |-> a]
RaisedRow(d, l)            == [event |-> "dispute_raised", dispute |-> d, loan |-> l]
ResolvedRow(d, r)          == [event |-> "dispute_resolved", dispute |-> d, resolution |-> r]
FrozenRow(l, prior)        == [event |-> "account_frozen", loan |-> l, prior |-> prior]
EscalatedRow               == [event |-> "escalated"]
MessageRow                 == [event |-> "message_sent"]
DeniedRow(reason)          == [event |-> "policy_denied", reason |-> reason]
ToolCallRow(tool, outcome) == [event |-> "tool_call", tool |-> tool, outcome |-> outcome]
CaseReceivedRow            == [event |-> "case_received"]
ModelRejectedRow           == [event |-> "model_identity_rejected"]

DenialReasons == {"identity_not_verified", "over_auto_limit", "second_refund_in_case",
                  "action_outside_approved_set"}

IdentityRows == [event : {"identity_verified"}, customer : Customers, verified : BOOLEAN]
MoneyRows    == [event : {"money_moved"}, tool : MONEY_TOOLS, loan : Loans,
                 txn : Nat, amount : Int]
RaisedRows   == [event : {"dispute_raised"}, dispute : Nat, loan : Loans]
ResolvedRows == [event : {"dispute_resolved"}, dispute : Nat, resolution : Resolutions]
FrozenRows   == [event : {"account_frozen"}, loan : Loans, prior : LoanStatuses]
DeniedRows   == [event : {"policy_denied"}, reason : DenialReasons]
ToolCallRows == [event : {"tool_call"}, tool : TOOLS, outcome : {"ok", "denied"}]
CallerEventRows == {CaseReceivedRow, ModelRejectedRow, DeniedRow("action_outside_approved_set")}
PlainRows    == {EscalatedRow, MessageRow} \cup CallerEventRows

AuditRows == IdentityRows \cup MoneyRows \cup RaisedRows \cup ResolvedRows \cup FrozenRows
             \cup DeniedRows \cup ToolCallRows \cup PlainRows

ASSUME CallerRowsAssumption == CallerRows \subseteq CallerEventRows

(* What a session is doing between two commits: nothing (with the outcome  *)
(* of its last call), about to write the tool_call row of a call whose     *)
(* effect has committed, or holding values read before a transaction.      *)
Idle(outcome)         == [pc |-> "idle", outcome |-> outcome]
Logging(tool)         == [pc |-> "logging", tool |-> tool]
Resolving(d, r)       == [pc |-> "resolving", dispute |-> d, resolution |-> r]
Freezing(l, prior)    == [pc |-> "freezing", loan |-> l, prior |-> prior]
Closed                == [pc |-> "closed"]

IdleCalls      == [pc : {"idle"}, outcome : {"none", "ok", "denied", "error"}]
LoggingCalls   == [pc : {"logging"}, tool : TOOLS]
ResolvingCalls == [pc : {"resolving"}, dispute : Nat, resolution : Resolutions]
FreezingCalls  == [pc : {"freezing"}, loan : Loans, prior : LoanStatuses]

Calls == IdleCalls \cup LoggingCalls \cup ResolvingCalls \cup FreezingCalls \cup {Closed}

-----------------------------------------------------------------------------
(* Reads *)

(* Mutants: the query without its customer, and without its case.          *)
VerifiedAnyCustomer(c, k) == \E v \in identity_verifications : v.case = c /\ v.verified
VerifiedAnyCase(c, k) == \E v \in identity_verifications : v.customer = k /\ v.verified

is_identity_verified(c, k) ==
    \E v \in identity_verifications : v.case = c /\ v.customer = k /\ v.verified

(* Mutant: the count forgets this case's refunds.                          *)
RefundsOfOtherCases(c, l) ==
    {n \in DOMAIN transactions : transactions[n].loan = l /\ transactions[n].case # c}

prior_refunds(c, l) ==
    {n \in DOMAIN transactions : /\ transactions[n].loan = l
                                 /\ transactions[n].case = c
                                 /\ transactions[n].type = "refund"}

(* Mutant: the decorator is missing.                                       *)
GateAlwaysOpen(c, l) == l \in Loans

GateOpen(c, l) == l \in Loans /\ is_identity_verified(c, Owner[l])

-----------------------------------------------------------------------------
(* How a call ends *)

append_audit(c, rows) == audit_log' = [audit_log EXCEPT ![c] = @ \o rows]

Become(c, doing) == call' = [call EXCEPT ![c] = doing]

(* PolicyDenied: the denial rows and the tool_call row commit together.    *)
Denied(c, tool, rows) ==
    /\ append_audit(c, rows \o <<ToolCallRow(tool, "denied")>>)
    /\ Become(c, Idle("denied"))
    /\ UNCHANGED db

(* Any other exception: rolled back, no row.                               *)
Raised(c) == Become(c, Idle("error")) /\ UNCHANGED <<db, audit_log>>

(* The tool's transaction committed; its tool_call row is still to come.   *)
Committed(c, tool, row) ==
    /\ append_audit(c, <<row>>)
    /\ Become(c, Logging(tool))

(* Rows the tool left uncommitted and its tool_call row commit together.   *)
Logged(c, tool, rows) ==
    /\ append_audit(c, rows \o <<ToolCallRow(tool, "ok")>>)
    /\ Become(c, Idle("ok"))
    /\ UNCHANGED db

Request(c) ==
    /\ call[c].pc = "idle"
    /\ requests < MaxRequests
    /\ requests' = requests + 1

Ask(c, tool) == tool \in CallerTools /\ Request(c) /\ UNCHANGED faults

Continue(c, pc) == call[c].pc = pc /\ UNCHANGED <<requests, faults>>

-----------------------------------------------------------------------------
(* identity.py *)

verify_identity(c, k, last4ok, dobok) ==
    /\ Ask(c, "verify_identity")
    /\ \/ k \notin Customers /\ Raised(c)
       \/ LET verified == last4ok /\ dobok
          IN  /\ k \in Customers
              /\ identity_verifications' =
                     identity_verifications \cup {[case |-> c, customer |-> k, verified |-> verified]}
              /\ Committed(c, "verify_identity", IdentityRow(k, verified))
              /\ UNCHANGED <<loans, transactions, disputes, cases>>

-----------------------------------------------------------------------------
(* policy_engine.py: the gate around the five gated tools *)

require_identity_verified(c, tool, l) ==
    /\ tool \in GATED_TOOLS
    /\ Ask(c, tool)
    /\ ~GateOpen(c, l)
    /\ Denied(c, tool, IF l \in Loans THEN <<DeniedRow("identity_not_verified")>> ELSE <<>>)

AskGated(c, tool, l) == Ask(c, tool) /\ GateOpen(c, l)

-----------------------------------------------------------------------------
(* money.py.  A payment is negative, a refund and a fee positive.          *)

(* Mutant: the row names the transaction before this one.                  *)
MoveMoneyStaleId(c, tool, l, type, amount) ==
    /\ transactions' = Append(transactions, [loan |-> l, case |-> c, type |-> type, amount |-> amount])
    /\ Committed(c, tool, MoneyRow(tool, l, Len(transactions), amount))
    /\ UNCHANGED <<loans, disputes, identity_verifications, cases>>

MoveMoney(c, tool, l, type, amount) ==
    /\ transactions' = Append(transactions, [loan |-> l, case |-> c, type |-> type, amount |-> amount])
    /\ Committed(c, tool, MoneyRow(tool, l, Len(transactions'), amount))
    /\ UNCHANGED <<loans, disputes, identity_verifications, cases>>

post_payment(c, l, amount) ==
    /\ AskGated(c, "post_payment", l)
    /\ \/ amount <= 0 /\ Raised(c)
       \/ amount > 0 /\ MoveMoney(c, "post_payment", l, "payment", -amount)

issue_refund(c, l, amount) ==
    /\ AskGated(c, "issue_refund", l)
    /\ \/ amount <= 0 /\ Raised(c)
       \/ /\ amount > 0
          /\ ~refund_within_auto_limit(amount)
          /\ Denied(c, "issue_refund", <<DeniedRow("over_auto_limit")>>)
       \/ /\ refund_within_auto_limit(amount)
          /\ prior_refunds(c, l) # {}
          /\ Denied(c, "issue_refund", <<DeniedRow("second_refund_in_case")>>)
       \/ /\ refund_within_auto_limit(amount)
          /\ prior_refunds(c, l) = {}
          /\ MoveMoney(c, "issue_refund", l, "refund", amount)

apply_fee(c, l, amount) ==
    /\ AskGated(c, "apply_fee", l)
    /\ \/ amount <= 0 /\ Raised(c)
       \/ amount > 0 /\ MoveMoney(c, "apply_fee", l, "fee", amount)

-----------------------------------------------------------------------------
(* disputes.py *)

raise_dispute(c, l, k) ==
    /\ AskGated(c, "raise_dispute", l)
    /\ \/ k \notin Customers /\ Raised(c)   \* the foreign key
       \/ /\ k \in Customers
          /\ disputes' = Append(disputes, [loan |-> l, customer |-> k, case |-> c, status |-> "open"])
          /\ Committed(c, "raise_dispute", RaisedRow(Len(disputes'), l))
          /\ UNCHANGED <<loans, transactions, identity_verifications, cases>>

IsOpenDisputeOf(d, l) ==
    d \in DOMAIN disputes /\ disputes[d].loan = l /\ disputes[d].status = "open"

(* The SELECT and the checks on what it returned.                          *)
resolve_dispute_check(c, l, d, resolution) ==
    /\ AskGated(c, "resolve_dispute", l)
    /\ \/ ~IsOpenDisputeOf(d, l) /\ Denied(c, "resolve_dispute", <<>>)
       \/ IsOpenDisputeOf(d, l) /\ resolution \notin Resolutions /\ Raised(c)
       \/ /\ IsOpenDisputeOf(d, l)
          /\ resolution \in Resolutions
          /\ Become(c, Resolving(d, resolution))
          /\ UNCHANGED <<db, audit_log>>

(* Mutant: the UPDATE names no dispute_id.                                 *)
ResolveEveryDispute(c) ==
    /\ Continue(c, "resolving")
    /\ disputes' = [d \in DOMAIN disputes |-> [disputes[d] EXCEPT !.status = call[c].resolution]]
    /\ Committed(c, "resolve_dispute", ResolvedRow(call[c].dispute, call[c].resolution))
    /\ UNCHANGED <<loans, transactions, identity_verifications, cases>>

(* The transaction; its UPDATE does not look at the status again.          *)
resolve_dispute_update(c) ==
    /\ Continue(c, "resolving")
    /\ LET d == call[c].dispute
           r == call[c].resolution
       IN  /\ disputes' = [disputes EXCEPT ![d].status = r]
           /\ Committed(c, "resolve_dispute", ResolvedRow(d, r))
    /\ UNCHANGED <<loans, transactions, identity_verifications, cases>>

-----------------------------------------------------------------------------
(* ops.py *)

freeze_account_read(c, l) ==
    /\ Ask(c, "freeze_account")
    /\ \/ l \notin Loans /\ Raised(c)
       \/ /\ l \in Loans
          /\ Become(c, Freezing(l, loans[l]))
          /\ UNCHANGED <<db, audit_log>>

(* Mutant: the UPDATE names no loan_id.                                    *)
FreezeEveryLoan(c) ==
    /\ Continue(c, "freezing")
    /\ loans' = [l \in Loans |-> "charged_off"]
    /\ Committed(c, "freeze_account", FrozenRow(call[c].loan, call[c].prior))
    /\ UNCHANGED <<transactions, disputes, identity_verifications, cases>>

(* Mutant: the row is written from the loan as the UPDATE left it.         *)
FreezeRecordsNewStatus(c) ==
    /\ Continue(c, "freezing")
    /\ loans' = [loans EXCEPT ![call[c].loan] = "charged_off"]
    /\ Committed(c, "freeze_account", FrozenRow(call[c].loan, loans'[call[c].loan]))
    /\ UNCHANGED <<transactions, disputes, identity_verifications, cases>>

freeze_account_update(c) ==
    /\ Continue(c, "freezing")
    /\ loans' = [loans EXCEPT ![call[c].loan] = "charged_off"]
    /\ Committed(c, "freeze_account", FrozenRow(call[c].loan, call[c].prior))
    /\ UNCHANGED <<transactions, disputes, identity_verifications, cases>>

escalate_to_human(c) ==
    /\ Ask(c, "escalate_to_human")
    /\ cases' = [cases EXCEPT ![c].status = "escalated"]
    /\ Committed(c, "escalate_to_human", EscalatedRow)
    /\ UNCHANGED <<loans, transactions, disputes, identity_verifications>>

send_customer_message(c) ==
    /\ Ask(c, "send_customer_message")
    /\ Logged(c, "send_customer_message", <<MessageRow>>)

-----------------------------------------------------------------------------
(* reads.py: nothing but the tool_call row, or ValueError on an unknown id *)

read_tool(c, tool, known) ==
    /\ tool \in READ_TOOLS
    /\ Ask(c, tool)
    /\ IF known \/ tool \in {"get_loans_for_customer", "get_transaction_history"}
       THEN Logged(c, tool, <<>>)
       ELSE Raised(c)

(* Any tool called without an argument it needs: TypeError before its body.*)
bad_arguments(c, tool) == Ask(c, tool) /\ Raised(c)

-----------------------------------------------------------------------------
(* The end of a call, and the session around it *)

(* Mutants: audited writes no row on success, and one with another word.   *)
NoRowOnSuccess(c) ==
    /\ Continue(c, "logging")
    /\ Become(c, Idle("ok"))
    /\ UNCHANGED <<db, audit_log>>

SuccessRow(c) ==
    /\ Continue(c, "logging")
    /\ append_audit(c, <<ToolCallRow(call[c].tool, "success")>>)
    /\ Become(c, Idle("ok"))
    /\ UNCHANGED db

(* audited's tool_call row, committed by the caller.                       *)
LogCall(c) ==
    /\ Continue(c, "logging")
    /\ append_audit(c, <<ToolCallRow(call[c].tool, "ok")>>)
    /\ Become(c, Idle("ok"))
    /\ UNCHANGED db

(* A write that waited for another connection longer than the busy timeout *)
(* raises OperationalError: what was not committed is rolled back.         *)
DatabaseLocked(c) ==
    /\ faults < MaxFaults
    /\ faults' = faults + 1
    /\ \/ Request(c)
       \/ call[c].pc \in {"resolving", "freezing", "logging"} /\ UNCHANGED requests
    /\ Raised(c)

(* post_case: the case row is committed before the session is used.        *)
OpenCase(c) ==
    /\ cases[c].status = "absent"
    /\ cases' = [cases EXCEPT ![c].status = "received"]
    /\ Become(c, Idle("none"))
    /\ UNCHANGED <<loans, transactions, disputes, identity_verifications, audit_log, requests, faults>>

(* handle_case writes some audit rows itself ...                           *)
CallerRow(c, row) ==
    /\ row \in CallerRows
    /\ Request(c)
    /\ append_audit(c, <<row>>)
    /\ UNCHANGED <<db, call, faults>>

(* ... and the final status of the case.                                   *)
CompleteCase(c, status) ==
    /\ Continue(c, "idle")
    /\ cases' = [cases EXCEPT ![c] = [status |-> status, completed |-> TRUE]]
    /\ Become(c, Closed)
    /\ UNCHANGED <<loans, transactions, disputes, identity_verifications, audit_log>>

(* The caller returned, an exception left it, or the process died: in      *)
(* every case the connection is gone with what it had not committed.       *)
SessionEnds(c) ==
    /\ call[c].pc # "closed"
    /\ Become(c, Closed)
    /\ UNCHANGED <<db, audit_log, requests, faults>>

-----------------------------------------------------------------------------
Init ==
    /\ loans \in [Loans -> SeededStatuses]
    /\ transactions = <<>>
    /\ disputes = <<>>
    /\ identity_verifications = {}
    /\ cases = [c \in Cases |-> [status |-> "absent", completed |-> FALSE]]
    /\ audit_log = [c \in Cases |-> <<>>]
    /\ call = [c \in Cases |-> Closed]
    /\ requests = 0
    /\ faults = 0

AnyLoan == Loans \cup {UnknownLoan}
AnyCustomer == Customers \cup {UnknownCustomer}

(* A session asks for a tool, with any arguments.                          *)
BeginCall(c, tool) ==
    \/ \E k \in AnyCustomer, last4ok, dobok \in BOOLEAN :
           tool = "verify_identity" /\ verify_identity(c, k, last4ok, dobok)
    \/ \E l \in AnyLoan : require_identity_verified(c, tool, l)
    \/ \E l \in Loans, a \in Amounts :
           \/ tool = "post_payment" /\ post_payment(c, l, a)
           \/ tool = "issue_refund" /\ issue_refund(c, l, a)
           \/ tool = "apply_fee" /\ apply_fee(c, l, a)
    \/ \E l \in Loans, k \in AnyCustomer : tool = "raise_dispute" /\ raise_dispute(c, l, k)
    \/ \E l \in Loans, d \in 1 .. Len(disputes) + 1, r \in Resolutions \cup {"other"} :
           tool = "resolve_dispute" /\ resolve_dispute_check(c, l, d, r)
    \/ \E l \in AnyLoan : tool = "freeze_account" /\ freeze_account_read(c, l)
    \/ tool = "escalate_to_human" /\ escalate_to_human(c)
    \/ tool = "send_customer_message" /\ send_customer_message(c)
    \/ \E known \in BOOLEAN : read_tool(c, tool, known)
    \/ bad_arguments(c, tool)

(* The rest of a call that has begun.                                      *)
ContinueCall(c) == resolve_dispute_update(c) \/ freeze_account_update(c) \/ LogCall(c)

Step(c) ==
    \/ \E tool \in TOOLS : BeginCall(c, tool)
    \/ ContinueCall(c)
    \/ DatabaseLocked(c)
    \/ OpenCase(c)
    \/ \E row \in CallerRows : CallerRow(c, row)
    \/ \E s \in {"resolved", "escalated"} : CompleteCase(c, s)
    \/ SessionEnds(c)

Next == \E c \in Cases : Step(c)

Spec == Init /\ [][Next]_vars

-----------------------------------------------------------------------------
(* Properties *)

(* Every variable holds rows and session states of its table.              *)
TypeOK ==
    /\ loans \in [Loans -> LoanStatuses]
    /\ transactions \in Seq(Transactions)
    /\ disputes \in Seq(Disputes)
    /\ identity_verifications \in SUBSET Verifications
    /\ cases \in [Cases -> CaseRows]
    /\ audit_log \in [Cases -> Seq(AuditRows)]
    /\ call \in [Cases -> Calls]
    /\ requests \in Nat
    /\ faults \in Nat

(* Row i of a trail comes after a successful verification of customer k.   *)
VerifiedBefore(trail, i, k) ==
    \E j \in 1 .. i - 1 : /\ trail[j].event = "identity_verified"
                          /\ trail[j].customer = k
                          /\ trail[j].verified

(* No money moves on a loan before the loan's own customer, not just any   *)
(* customer, was verified in the same case: the audit trail alone shows    *)
(* it, row order included.  The gate reads identity_verifications, so this *)
(* relates the two tables through crashes, locks and other sessions.       *)
MoneyAfterOwnerVerified ==
    \A c \in Cases : \A i \in DOMAIN audit_log[c] :
        audit_log[c][i].event = "money_moved" => VerifiedBefore(audit_log[c], i, Owner[audit_log[c][i].loan])

(* A row of money of case c, and the transaction it names.                 *)
Reports(row, c, moves) ==
    /\ row.txn \in DOMAIN moves
    /\ moves[row.txn].case = c
    /\ moves[row.txn].loan = row.loan
    /\ moves[row.txn].amount = row.amount

ReportedOnce(trail, n) ==
    \E i \in DOMAIN trail :
        /\ trail[i].event = "money_moved" /\ trail[i].txn = n
        /\ \A j \in DOMAIN trail : trail[j].event = "money_moved" /\ trail[j].txn = n => j = i

(* The transactions table and the money_moved rows never drift apart: each *)
(* row reports one transaction of its own case, loan and amount, and each  *)
(* transaction is reported by exactly one row of its case, wherever a      *)
(* session dies or is refused the database (detectors, transaction/audit   *)
(* drift).                                                                 *)
TransactionsMatchAudit ==
    /\ \A c \in Cases : \A i \in DOMAIN audit_log[c] :
           audit_log[c][i].event = "money_moved" => Reports(audit_log[c][i], c, transactions)
    /\ \A n \in DOMAIN transactions : ReportedOnce(audit_log[transactions[n].case], n)

(* The refunds of one case on one loan: at most one, within the automatic  *)
(* limit, on a loan whose owner the case verified (policy section 2, per   *)
(* loan as money.py counts).                                               *)
RefundsWithinPolicy ==
    /\ \A n \in DOMAIN transactions :
           transactions[n].type = "refund" =>
               0 < transactions[n].amount /\ transactions[n].amount <= REFUND_AUTO_LIMIT_CENTS
    /\ \A m, n \in DOMAIN transactions :
           /\ transactions[m].type = "refund" /\ transactions[n].type = "refund"
           /\ transactions[m].case = transactions[n].case
           /\ transactions[m].loan = transactions[n].loan
           => m = n
    /\ \A n \in DOMAIN transactions :
           transactions[n].type = "refund" =>
               is_identity_verified(transactions[n].case, Owner[transactions[n].loan])

(* The disputes table and the trails agree: every dispute was raised, and  *)
(* leaves "open" only by a settlement on record that gave it its status,   *)
(* each in a case that had verified the owner of the disputed loan.        *)
DisputesOnRecord ==
    \A d \in DOMAIN disputes :
        /\ \E i \in DOMAIN audit_log[disputes[d].case] :
               /\ audit_log[disputes[d].case][i] = RaisedRow(d, disputes[d].loan)
               /\ VerifiedBefore(audit_log[disputes[d].case], i, Owner[disputes[d].loan])
        /\ disputes[d].status # "open" =>
               \E c \in Cases : \E i \in DOMAIN audit_log[c] :
                   /\ audit_log[c][i] = ResolvedRow(d, disputes[d].status)
                   /\ VerifiedBefore(audit_log[c], i, Owner[disputes[d].loan])

(* A loan is charged off if and only if some case has the freeze on        *)
(* record: nothing else freezes a loan and nothing lifts a freeze.         *)
FrozenIffOnRecord ==
    \A l \in Loans :
        loans[l] = "charged_off" <=>
            \E c \in Cases : \E i \in DOMAIN audit_log[c] :
                audit_log[c][i].event = "account_frozen" /\ audit_log[c][i].loan = l

OnSomeTrail(row) == \E c \in Cases : \E i \in DOMAIN audit_log[c] : audit_log[c][i] = row

FreezesOf(l) == {row \in {FrozenRow(l, prior) : prior \in LoanStatuses} : OnSomeTrail(row)}

(* A human can walk a freeze back (freeze_account has no inverse): the     *)
(* trails name one status that the freezes of a loan have overwritten,     *)
(* although it is read before the transaction, and others may freeze the   *)
(* loan in between or again later.                                         *)
OverwrittenStatusIsOnRecord ==
    \A l \in Loans :
        loans[l] = "charged_off" =>
            \E s \in LoanStatuses \ {"charged_off"} :
                {row.prior : row \in FreezesOf(l)} \ {"charged_off"} = {s}

EffectEvents == {"identity_verified", "money_moved", "dispute_raised", "dispute_resolved",
                 "account_frozen", "escalated", "message_sent"}

(* The positions of effects in case c's chain whose tool_call row does not *)
(* follow them.                                                            *)
Unlogged(c) ==
    {i \in DOMAIN audit_log[c] :
        /\ audit_log[c][i].event \in EffectEvents
        /\ ~ /\ i + 1 \in DOMAIN audit_log[c]
             /\ audit_log[c][i + 1].event = "tool_call"
             /\ audit_log[c][i + 1].outcome = "ok"}

(* An effect without its tool_call row is the trace of one failure: the    *)
(* call in flight, the session that ended there, or one refused write.     *)
UnloggedEffectsAreFailures ==
    \A c \in Cases :
        /\ call[c].pc = "idle" /\ faults = 0 => Unlogged(c) = {}
        /\ faults = 0 => Unlogged(c) \subseteq {Len(audit_log[c])}
        /\ Cardinality(Unlogged(c)) <=
               faults + (IF call[c].pc \in {"logging", "closed"} THEN 1 ELSE 0)

(* The tools keep the servicing contract.                                  *)
Contract == INSTANCE ServicingContract WITH
    verified <- {<<v.case, v.customer>> : v \in {w \in identity_verifications : w.verified}},
    moves    <- transactions,
    claims   <- disputes,
    frozen   <- {l \in Loans : loans[l] = "charged_off"}

ImplementsContract == Contract!Spec

-----------------------------------------------------------------------------
(* What the repository says of the tools and they do not do                *)

(* policy.md section 1: a gated call writes its identity-verification      *)
(* outcome and the money-moving event in the same transaction.  Rows of    *)
(* one transaction are neighbours in the case's chain; verify_identity is  *)
(* a call of its own, with its own transaction and tool_call row.          *)
IdentityAndMoneyTogether ==
    \A c \in Cases : \A i \in DOMAIN audit_log[c] :
        audit_log[c][i].event = "money_moved" =>
            i > 1 /\ audit_log[c][i - 1].event = "identity_verified"

(* A dispute is resolved once: the second resolve_dispute is denied        *)
(* (test_raise_and_resolve_dispute).  Two sessions can both read "open".   *)
DisputeResolvedOnce ==
    \A c, e \in Cases : \A i \in DOMAIN audit_log[c], j \in DOMAIN audit_log[e] :
        /\ audit_log[c][i].event = "dispute_resolved"
        /\ audit_log[e][j].event = "dispute_resolved"
        /\ audit_log[c][i].dispute = audit_log[e][j].dispute
        => c = e /\ i = j
=============================================================================
