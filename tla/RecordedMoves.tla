---------------------------- MODULE RecordedMoves ----------------------------
(***************************************************************************)
(* What one commit of the database does, with no connections, locks, hash  *)
(* chain or transactions: money moves together with the row that reports   *)
(* it and the balance it leaves, and other rows are noted one or two at a  *)
(* time.  HarbourTools takes these steps as atomic; HarbourDatabase        *)
(* implements them statement by statement.                                 *)
(***************************************************************************)
EXTENDS MoneyRows

VARIABLES
    moves,   \* the transactions table, in commit order
    trail    \* the columns of each case's audit rows

vars == <<moves, trail>>

-----------------------------------------------------------------------------
Init == moves = Seeded /\ trail = [c \in Cases |-> <<>>]

Move(c, l, a) ==
    /\ moves' = Append(moves, MoveOf(c, l, a))
    /\ trail' = [trail EXCEPT ![c] = Append(@, Moved(l, a, Balance(moves', l)))]

Note(c, notes) ==
    /\ trail' = [trail EXCEPT ![c] = @ \o notes]
    /\ UNCHANGED moves

Next ==
    \E c \in Cases :
        \/ \E l \in Loans, a \in Amounts : Move(c, l, a)
        \/ \E e \in Events : Note(c, <<Noted(e)>>)
        \/ \E e, f \in Events : Note(c, <<Noted(e), Noted(f)>>)

Spec == Init /\ [][Next]_vars
=============================================================================
