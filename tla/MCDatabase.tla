------------------------------ MODULE MCDatabase ------------------------------
(* An instance of HarbourDatabase for TLC: two cases, each with its own    *)
(* connection, and one loan on which $30 are owed at first.                *)
EXTENDS HarbourDatabase, TLC

CONSTANTS s1, s2, c1, c2, l1

MCSessions == {s1, s2}
MCCases == {c1, c2}
MCServes == s1 :> c1 @@ s2 :> c2
MCLoans == {l1}
(* One event stands for all: no definition names another.                  *)
MCEvents == {"tool_call"}
MCSeeded == <<[case |-> "SEED", loan |-> l1, amount |-> 10000],
              [case |-> "SEED", loan |-> l1, amount |-> -7000]>>
(* The payoff first quoted, a smaller payment, as much as the processing   *)
(* fee, and more.                                                          *)
MCAmounts == {-5500, -1000, 2500, 4000}
=============================================================================
