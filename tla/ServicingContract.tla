-------------------------- MODULE ServicingContract --------------------------
(***************************************************************************)
(* What Harbour promises about a customer's account, with no database, no  *)
(* audit log and no sessions: which cases have verified whom, the money    *)
(* moved, the disputes and the frozen loans, and what may change them.     *)
(* HarbourTools implements it.                                             *)
(***************************************************************************)
EXTENDS HarbourPolicy

CONSTANTS Cases, Customers, Loans, Owner, Amounts

VARIABLES
    verified,   \* the <<case, customer>> pairs verified so far
    moves,      \* the money moved, in order
    claims,     \* the disputes, in order
    frozen      \* the loans frozen

vars == <<verified, moves, claims, frozen>>

Init == verified = {} /\ moves = <<>> /\ claims = <<>> /\ frozen = {}

MayTouch(c, l) == <<c, Owner[l]>> \in verified

Verify(c, k) ==
    /\ verified' = verified \cup {<<c, k>>}
    /\ UNCHANGED <<moves, claims, frozen>>

Move(c, l, type, amount) ==
    /\ MayTouch(c, l)
    /\ moves' = Append(moves, [loan |-> l, case |-> c, type |-> type, amount |-> amount])
    /\ UNCHANGED <<verified, claims, frozen>>

Pay(c, l, amount) == amount > 0 /\ Move(c, l, "payment", -amount)

Charge(c, l, amount) == amount > 0 /\ Move(c, l, "fee", amount)

Refund(c, l, amount) ==
    /\ refund_within_auto_limit(amount)
    /\ ~ \E n \in DOMAIN moves :
          moves[n].case = c /\ moves[n].loan = l /\ moves[n].type = "refund"
    /\ Move(c, l, "refund", amount)

Claim(c, l, k) ==
    /\ MayTouch(c, l)
    /\ claims' = Append(claims, [loan |-> l, customer |-> k, case |-> c, status |-> "open"])
    /\ UNCHANGED <<verified, moves, frozen>>

(* A dispute may be settled by whoever may touch the loan, any number of   *)
(* times; it is never reopened.                                            *)
Settle(c, d, resolution) ==
    /\ d \in DOMAIN claims
    /\ MayTouch(c, claims[d].loan)
    /\ claims' = [claims EXCEPT ![d].status = resolution]
    /\ UNCHANGED <<verified, moves, frozen>>

(* Anyone may freeze a loan; there is no way back.                         *)
Freeze(l) ==
    /\ frozen' = frozen \cup {l}
    /\ UNCHANGED <<verified, moves, claims>>

Next ==
    \/ \E c \in Cases, k \in Customers : Verify(c, k)
    \/ \E c \in Cases, l \in Loans, a \in Amounts : Pay(c, l, a) \/ Charge(c, l, a) \/ Refund(c, l, a)
    \/ \E c \in Cases, l \in Loans, k \in Customers : Claim(c, l, k)
    \/ \E c \in Cases, d \in DOMAIN claims, r \in {"resolved", "rejected"} : Settle(c, d, r)
    \/ \E l \in Loans : Freeze(l)

Spec == Init /\ [][Next]_vars
=============================================================================
