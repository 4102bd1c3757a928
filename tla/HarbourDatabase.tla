--------------------------- MODULE HarbourDatabase ---------------------------
(***************************************************************************)
(* The database below the tools, one SQL statement at a time: connect,     *)
(* transaction, append_audit, verify_audit_chain and loan_balance_cents    *)
(* (db.py), and the statements of the money tools that call them.  A       *)
(* connection reads the committed rows and its own.  Its first INSERT      *)
(* opens a transaction, which holds SQLite's one write lock until it       *)
(* commits, rolls back or the connection is gone; another writer waits,    *)
(* and past the busy timeout its statement raises.  A SELECT outside a     *)
(* transaction is one of its own: append_audit may read the last hash long *)
(* before it inserts.                                                      *)
(*                                                                         *)
(* A digest is the sequence of the texts hashed into it, one for each row: *)
(* SHA-256 is taken to have no collisions.  What a row gives to be hashed  *)
(* is one text, its columns written one after the other.                   *)
(***************************************************************************)
EXTENDS MoneyRows

CONSTANTS
    Sessions,
    Serves,      \* the case a session's connection was opened for
    Times,       \* what the clock may show
    None,
    MaxCalls     \* bound: the calls of all sessions together

VARIABLES
    transactions,   \* the committed rows
    audit_log,      \* the committed rows of each case, in seq order
    pending,        \* the rows each connection has written and not committed
    writer,         \* the session that holds the write lock
    session,        \* what each session is doing
    quoted,         \* the last payoff each session was told
    calls           \* counter for the bound

dbVars == <<transactions, audit_log, pending, writer, session, quoted, calls>>

ASSUME ServesAssumption == Serves \in [Sessions -> Cases]
(* post_case makes a new case id and a new connection for every request.   *)
ASSUME OneConnectionPerCase == \A s, t \in Sessions : Serves[s] = Serves[t] => s = t
ASSUME NoneAssumption == None \notin Sessions \cup Loans
ASSUME AmountsAssumption == Amounts \subseteq Int
ASSUME EventsAssumption == "money_moved" \notin Events
ASSUME MaxCallsAssumption == MaxCalls \in Nat
ASSUME TimesAssumption == Times # {}
(* seed.py: disbursements and payments of a case of their own.             *)
ASSUME SeededAssumption ==
    Seeded \in Seq([case : {"SEED"}, loan : Loans, amount : Int])

-----------------------------------------------------------------------------
(* The hash chain *)

GENESIS_HASH == <<>>

Stamp(t) == <<[time |-> t]>>

(* The previous hash has always the same length, and a trail one case_id.  *)
hash_row(prev, columns, created_at) ==
    Append(prev, columns.event_type \o columns.payload_json \o created_at)

AuditRow(prev, columns, created_at) ==
    [columns |-> columns, created_at |-> created_at, prev_hash |-> prev,
     hash |-> hash_row(prev, columns, created_at)]

LastHash(rows) == IF rows = <<>> THEN GENESIS_HASH ELSE rows[Len(rows)].hash

(* Mutant: the row itself unchecked.                                       *)
VerifyLinksOnly(rows) ==
    \A i \in DOMAIN rows : rows[i].prev_hash = (IF i = 1 THEN GENESIS_HASH ELSE rows[i - 1].hash)

verify_audit_chain(rows) ==
    \A i \in DOMAIN rows :
        /\ rows[i].prev_hash = (IF i = 1 THEN GENESIS_HASH ELSE rows[i - 1].hash)
        /\ rows[i].hash = hash_row(rows[i].prev_hash, rows[i].columns, rows[i].created_at)

-----------------------------------------------------------------------------
(* What a connection sees, and what it may do *)

Nothing == [moves |-> <<>>, rows |-> <<>>]

SeenMoves(s) == transactions \o pending[s].moves
SeenRows(s) == audit_log[Serves[s]] \o pending[s].rows

(* Mutant: the balance of what this case moved.                            *)
BalanceOfCase(s, l) ==
    Balance(SelectSeq(SeenMoves(s), LAMBDA m : m.case \in {"SEED", Serves[s]}), l)

loan_balance_cents(s, l) == Balance(SeenMoves(s), l)

PROCESSING_FEE_CENTS == 2500

(* Mutant: no max.                                                         *)
PayoffOfCredit(balance) ==
    balance + (IF balance > 0 THEN PROCESSING_FEE_CENTS ELSE 0)

(* calculate_payoff: max(0, balance), and the fee if anything is owed.     *)
Payoff(balance) == IF balance > 0 THEN balance + PROCESSING_FEE_CENTS ELSE 0

CanWrite(s) == writer \in {None, s}

Become(s, state) == session' = [session EXCEPT ![s] = state]

Idle                     == [pc |-> "idle"]
Reporting(l, a)          == [pc |-> "reporting", loan |-> l, amount |-> a]
Selecting(columns)       == [pc |-> "selecting", columns |-> columns]
Inserting(columns, prev) == [pc |-> "inserting", columns |-> columns, prev |-> prev]
Open                     == [pc |-> "open"]
Closed                   == [pc |-> "closed"]

NewCall == calls < MaxCalls /\ calls' = calls + 1

(* The connection's transaction is over, committed or not.                 *)
Release(s) ==
    /\ pending' = [pending EXCEPT ![s] = Nothing]
    /\ writer' = IF writer = s THEN None ELSE writer

-----------------------------------------------------------------------------
(* A money tool: INSERT INTO transactions, the balance, the audit row and  *)
(* the commit, in one transaction.                                         *)

(* Mutant: an autocommit connection, and no transaction().                 *)
InsertMoveAutocommit(s, l, a) ==
    /\ session[s] = Idle
    /\ CanWrite(s)
    /\ NewCall
    /\ transactions' = Append(transactions, MoveOf(Serves[s], l, a))
    /\ Become(s, Reporting(l, a))
    /\ UNCHANGED <<audit_log, pending, writer, quoted>>

InsertMove(s, l, a) ==
    /\ session[s] = Idle
    /\ CanWrite(s)
    /\ NewCall
    /\ writer' = s
    /\ pending' = [pending EXCEPT ![s].moves = Append(@, MoveOf(Serves[s], l, a))]
    /\ Become(s, Reporting(l, a))
    /\ UNCHANGED <<transactions, audit_log, quoted>>

ReadBalance(s) ==
    /\ session[s].pc = "reporting"
    /\ LET l == session[s].loan
       IN  Become(s, Selecting(Moved(l, session[s].amount, loan_balance_cents(s, l))))
    /\ UNCHANGED <<transactions, audit_log, pending, writer, quoted, calls>>

(* Any other row; a denial has two, and its caller commits them together.  *)
Record(s, event) ==
    /\ \/ session[s] = Idle /\ NewCall
       \/ /\ session[s] = Open
          /\ pending[s].moves = <<>>
          /\ Len(pending[s].rows) = 1
          /\ UNCHANGED calls
    /\ Become(s, Selecting(Noted(event)))
    /\ UNCHANGED <<transactions, audit_log, pending, writer, quoted>>

-----------------------------------------------------------------------------
(* append_audit *)

(* Mutant: the last hash is looked for among the committed rows only.      *)
SelectCommittedHash(s) ==
    /\ session[s].pc = "selecting"
    /\ Become(s, Inserting(session[s].columns, LastHash(audit_log[Serves[s]])))
    /\ UNCHANGED <<transactions, audit_log, pending, writer, quoted, calls>>

SelectLastHash(s) ==
    /\ session[s].pc = "selecting"
    /\ Become(s, Inserting(session[s].columns, LastHash(SeenRows(s))))
    /\ UNCHANGED <<transactions, audit_log, pending, writer, quoted, calls>>

InsertRow(s) ==
    /\ session[s].pc = "inserting"
    /\ CanWrite(s)
    /\ writer' = s
    /\ \E t \in Times :
           pending' = [pending EXCEPT ![s].rows =
                          Append(@, AuditRow(session[s].prev, session[s].columns, Stamp(t)))]
    /\ Become(s, Open)
    /\ UNCHANGED <<transactions, audit_log, quoted, calls>>

(* The INSERT waited longer than the busy timeout: it raises.              *)
Locked(s) ==
    /\ session[s].pc = "inserting"
    /\ ~CanWrite(s)
    /\ Become(s, Idle)
    /\ UNCHANGED <<transactions, audit_log, pending, writer, quoted, calls>>

-----------------------------------------------------------------------------
(* The end of a transaction, and of a connection *)

Commit(s) ==
    /\ session[s] = Open
    /\ transactions' = SeenMoves(s)
    /\ audit_log' = [audit_log EXCEPT ![Serves[s]] = SeenRows(s)]
    /\ Release(s)
    /\ Become(s, Idle)
    /\ UNCHANGED <<quoted, calls>>

(* Mutant: transaction() lets the exception through without a rollback.    *)
NoRollback(s) ==
    /\ pending[s].moves # <<>>
    /\ Become(s, Idle)
    /\ UNCHANGED <<transactions, audit_log, pending, writer, quoted, calls>>

(* An exception in the body of transaction().                              *)
Rollback(s) ==
    /\ pending[s].moves # <<>>
    /\ Release(s)
    /\ Become(s, Idle)
    /\ UNCHANGED <<transactions, audit_log, quoted, calls>>

(* conn.close() or the end of the process.                                 *)
Close(s) ==
    /\ session[s] # Closed
    /\ Release(s)
    /\ Become(s, Closed)
    /\ UNCHANGED <<transactions, audit_log, quoted, calls>>

(* calculate_payoff, of the loan as models.get_loan reads it.  At is how   *)
(* many transactions there were.                                           *)
Quote(s, l) ==
    /\ session[s] = Idle
    /\ NewCall
    /\ quoted' = [quoted EXCEPT ![s] = [loan |-> l, payoff |-> Payoff(loan_balance_cents(s, l)),
                                        at |-> Len(transactions)]]
    /\ UNCHANGED <<transactions, audit_log, pending, writer, session>>

-----------------------------------------------------------------------------
NoQuote == [loan |-> None, payoff |-> 0, at |-> 0]

DatabaseInit ==
    /\ transactions = Seeded
    /\ audit_log = [c \in Cases |-> <<>>]
    /\ pending = [s \in Sessions |-> Nothing]
    /\ writer = None
    /\ session = [s \in Sessions |-> Idle]
    /\ quoted = [s \in Sessions |-> NoQuote]
    /\ calls = 0

(* What a session does of itself once a call has begun.                    *)
Proceed(s) ==
    ReadBalance(s) \/ SelectLastHash(s) \/ InsertRow(s) \/ Locked(s) \/ Commit(s)

DatabaseNext ==
    \E s \in Sessions :
        \/ \E l \in Loans, a \in Amounts : InsertMove(s, l, a)
        \/ \E e \in Events : Record(s, e)
        \/ \E l \in Loans : Quote(s, l)
        \/ Proceed(s)
        \/ Rollback(s)
        \/ Close(s)

DatabaseSpec == DatabaseInit /\ [][DatabaseNext]_dbVars

(* Statements return or raise; the thread that called them runs.           *)
FairDatabaseSpec == DatabaseSpec /\ \A s \in Sessions : WF_dbVars(Proceed(s))

-----------------------------------------------------------------------------
(* Properties *)

Moves == [case : Cases \cup {"SEED"}, loan : Loans, amount : Int]
EventNames == {"money_moved"} \cup Events
Payloads == [loan : Loans, amount : Int, new_balance : Int] \cup [noted : Events]
Pieces == [event : EventNames] \cup Payloads \cup [time : Times]
Columns == [event_type : Seq([event : EventNames]), payload_json : Seq(Payloads)]
Hashes == Seq(Seq(Pieces))
AuditRows == [columns : Columns, created_at : Seq([time : Times]),
              prev_hash : Hashes, hash : Hashes]
States == [pc : {"idle", "open", "closed"}]
          \cup [pc : {"reporting"}, loan : Loans, amount : Amounts]
          \cup [pc : {"selecting"}, columns : Columns]
          \cup [pc : {"inserting"}, columns : Columns, prev : Hashes]

DatabaseTypeOK ==
    /\ transactions \in Seq(Moves)
    /\ audit_log \in [Cases -> Seq(AuditRows)]
    /\ pending \in [Sessions -> [moves : Seq(Moves), rows : Seq(AuditRows)]]
    /\ writer \in Sessions \cup {None}
    /\ session \in [Sessions -> States]
    /\ quoted \in [Sessions -> [loan : Loans \cup {None}, payoff : Nat, at : Nat]]
    /\ calls \in Nat

(* Every trail verifies at every moment, although the last hash is read    *)
(* one statement or one transaction before the row that links to it, and   *)
(* whatever is refused, rolled back or cut off in between.                 *)
ChainsVerify == \A c \in Cases : verify_audit_chain(audit_log[c])

(* The trail with other columns and another time in row i.                 *)
WrittenOver(rows, i, columns, created_at) ==
    [rows EXCEPT ![i] = [columns |-> columns, created_at |-> created_at,
                         prev_hash |-> rows[i].prev_hash, hash |-> rows[i].hash]]

(* The trails with a row written over: by another that append_audit might  *)
(* have written there.                                                     *)
Rewritten(rows, i) ==
    {WrittenOver(rows, i, x, Stamp(t)) :
        x \in {rows[j].columns : j \in DOMAIN rows} \cup {Noted(e) : e \in Events}
              \cup {Moved(l, a, 0) : l \in Loans, a \in Amounts},
        t \in Times} \ {rows}
Swapped(rows, i) == [rows EXCEPT ![i] = rows[i + 1], ![i + 1] = rows[i]]
Without(rows, i) == SubSeq(rows, 1, i - 1) \o SubSeq(rows, i + 1, Len(rows))

(* verify_audit_chain finds every row that was replaced by another of the  *)
(* kind append_audit writes, its time alone included, two neighbours that  *)
(* were swapped, and a row that was taken out, except at the end: although *)
(* nothing in the digest says where one column ends.                       *)
ChangesAreFound ==
    \A c \in Cases : \A i \in DOMAIN audit_log[c] :
        /\ \A rows \in Rewritten(audit_log[c], i) : ~verify_audit_chain(rows)
        /\ i < Len(audit_log[c]) =>
               /\ ~verify_audit_chain(Swapped(audit_log[c], i))
               /\ ~verify_audit_chain(Without(audit_log[c], i))

Charges(rows, l) ==
    [n \in DOMAIN rows |-> IF rows[n].loan = l /\ rows[n].amount > 0 THEN rows[n].amount ELSE 0]
Raised(rows, l) == Total(Charges(rows, l))

(* A customer who pays the payoff that was quoted owes nothing then, even  *)
(* if others moved money on the loan meanwhile: they may have paid any     *)
(* amount, and charged or refunded up to the processing fee, which the     *)
(* quote includes and no row ever charges.                                 *)
PaidQuoteSettles ==
    \A s \in Sessions : \A n \in quoted[s].at + 1 .. Len(transactions) :
        LET l == quoted[s].loan
        IN  /\ transactions[n].loan = l
            /\ quoted[s].payoff > 0
            /\ transactions[n].amount = -quoted[s].payoff
            /\ Raised(SubSeq(transactions, quoted[s].at + 1, n), l) <= PROCESSING_FEE_CENTS
            => Payoff(Balance(SubSeq(transactions, 1, n), l)) = 0

(* Nobody holds the write lock for ever: a session that took it commits,   *)
(* rolls back or is gone, so the others' writes get their turn.            *)
LockIsReleased == \A s \in Sessions : writer = s ~> writer # s

(* With its statements taken together, a transaction is one step.          *)
Recorded == INSTANCE RecordedMoves WITH
    moves <- transactions,
    trail <- [c \in Cases |-> [i \in DOMAIN audit_log[c] |-> audit_log[c][i].columns]]

ImplementsRecordedMoves == Recorded!Spec

-----------------------------------------------------------------------------
(* What the repository says of the chain and it does not do                *)

(* The trail with the name of row i's event moved into its payload: no     *)
(* query for its event finds the row, and its payload cannot be parsed.    *)
Shifted(rows, i) ==
    LET columns == rows[i].columns
    IN  WrittenOver(rows, i, [event_type |-> <<>>,
                              payload_json |-> columns.event_type \o columns.payload_json],
                    rows[i].created_at)

(* "A single corrupted or reordered row makes this return False"           *)
(* (verify_audit_chain).  The columns are hashed with nothing between      *)
(* them, so moving the end of one into the next leaves the digest as it is.*)
CorruptedRowIsFound ==
    \A c \in Cases : \A i \in DOMAIN audit_log[c] :
        ~verify_audit_chain(Shifted(audit_log[c], i))
=============================================================================
