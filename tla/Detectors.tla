------------------------------- MODULE Detectors -------------------------------
(***************************************************************************)
(* The detectors of detectors/invariants.py, which look for defects in the *)
(* evidence alone: the audit rows, the transactions and the ledger.  Each  *)
(* is the set of its findings.  The repository runs them on the databases  *)
(* of finished cases; here they look at every state the database is ever   *)
(* committed in.  detect_audit_chain_tampering is verify_audit_chain of    *)
(* HarbourDatabase; detect_unattributed_cost looks for a ledger entry      *)
(* without a case, which this ledger cannot have, and at costs, which are  *)
(* not modelled.                                                           *)
(***************************************************************************)
EXTENDS HarbourAgent

Events(c, event) == {i \in DOMAIN audit_log[c] : audit_log[c][i].event = event}

(* A verification of any customer will do.                                 *)
detect_money_without_verified_identity(c) ==
    {i \in Events(c, "money_moved") :
        ~\E j \in Events(c, "identity_verified") : j < i /\ audit_log[c][j].verified}

(* The approved actions are those of the case_received row, which is       *)
(* written as the intent is set; a call before that row is not looked at.  *)
detect_action_outside_approved_set(c) ==
    {i \in Events(c, "tool_call") :
        /\ audit_log[c][i].outcome = "ok"
        /\ \E j \in Events(c, "case_received") : j < i
        /\ audit_log[c][i].tool \notin Approved(c) \cup {"escalate_to_human"}}

MatchesOf(n) ==
    {i \in Events(transactions[n].case, "money_moved") :
        audit_log[transactions[n].case][i].txn = n}

(* Transactions not told exactly once by their case, and rows that tell of *)
(* a transaction there is not.                                             *)
detect_transaction_audit_drift ==
    {n \in DOMAIN transactions : Cardinality(MatchesOf(n)) # 1}
    \cup ((UNION {{audit_log[c][i].txn : i \in Events(c, "money_moved")} : c \in Cases})
          \ DOMAIN transactions)

detect_unapproved_model_identity_in_ledger(c) ==
    {n \in DOMAIN ledger[c] : ~check_model_identity(ledger[c][n])}

-----------------------------------------------------------------------------
(* Properties *)

(* run_detectors.py wants a clean report over the finished published       *)
(* cases.  It is clean whenever the detectors are run: in the middle of a  *)
(* case, after a crash or a locked database, and whatever was proposed.    *)
DetectorsFindNothing ==
    /\ \A c \in Cases : /\ detect_money_without_verified_identity(c) = {}
                        /\ detect_action_outside_approved_set(c) = {}
                        /\ detect_unapproved_model_identity_in_ledger(c) = {}
    /\ detect_transaction_audit_drift = {}
=============================================================================
