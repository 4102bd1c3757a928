------------------------- MODULE HarbourDatabase_proofs -------------------------
(***************************************************************************)
(* Theorems of HarbourDatabase, for any connections that serve a case      *)
(* each, any cases, loans, amounts, events, seed and number of calls.      *)
(***************************************************************************)
EXTENDS HarbourDatabase, Totals_proofs

-----------------------------------------------------------------------------
(* Types *)

RowColumns == {Moved(l, a, b) : l \in Loans, a \in Amounts, b \in Int} \cup {Noted(e) : e \in Events}
RowTimes == {Stamp(t) : t \in Times}
RowHashes == Seq(Seq(Pieces))
Rows == [columns : RowColumns, created_at : RowTimes, prev_hash : RowHashes, hash : RowHashes]
Writes == [moves : Seq(Moves), rows : Seq(Rows)]

PlainStates == [pc : {"idle", "open", "closed"}]
ReportingStates == [pc : {"reporting"}, loan : Loans, amount : Amounts]
SelectingStates == [pc : {"selecting"}, columns : RowColumns]
InsertingStates == [pc : {"inserting"}, columns : RowColumns, prev : RowHashes]
SessionStates == PlainStates \cup ReportingStates \cup SelectingStates \cup InsertingStates

Types ==
    /\ transactions \in Seq(Moves)
    /\ audit_log \in [Cases -> Seq(Rows)]
    /\ pending \in [Sessions -> Writes]
    /\ session \in [Sessions -> SessionStates]

LEMMA StateTypes ==
    /\ Idle \in SessionStates /\ Open \in SessionStates /\ Closed \in SessionStates
    /\ \A l \in Loans, a \in Amounts : Reporting(l, a) \in SessionStates
    /\ \A x \in RowColumns : Selecting(x) \in SessionStates
    /\ \A x \in RowColumns, h \in RowHashes : Inserting(x, h) \in SessionStates
<1>1. Idle \in PlainStates /\ Open \in PlainStates /\ Closed \in PlainStates
  BY DEF Idle, Open, Closed, PlainStates
<1>2. \A l \in Loans, a \in Amounts : Reporting(l, a) \in ReportingStates
  BY DEF Reporting, ReportingStates
<1>3. \A x \in RowColumns : Selecting(x) \in SelectingStates
  BY DEF Selecting, SelectingStates
<1>4. \A x \in RowColumns, h \in RowHashes : Inserting(x, h) \in InsertingStates
  BY DEF Inserting, InsertingStates
<1> QED BY <1>1, <1>2, <1>3, <1>4 DEF SessionStates

(* What a session in the middle of a call holds.                           *)
LEMMA StateFields ==
    ASSUME NEW x \in SessionStates
    PROVE  /\ x.pc = "reporting" => x.loan \in Loans /\ x.amount \in Amounts
           /\ x.pc = "selecting" => x.columns \in RowColumns
           /\ x.pc = "inserting" => x.columns \in RowColumns /\ x.prev \in RowHashes
BY DEF SessionStates, PlainStates, ReportingStates, SelectingStates, InsertingStates

LEMMA ColumnTypes ==
    /\ \A l \in Loans, a \in Amounts, b \in Int : Moved(l, a, b) \in RowColumns
    /\ \A e \in Events : Noted(e) \in RowColumns
    /\ \A t \in Times : Stamp(t) \in RowTimes
BY DEF RowColumns, RowTimes

(* Each column is one piece, and so is a time.                             *)
LEMMA OnePieceEach ==
    /\ \A x \in RowColumns :
           \E p \in [event : EventNames], q \in Payloads :
               x = [event_type |-> <<p>>, payload_json |-> <<q>>]
    /\ \A u \in RowTimes : \E r \in [time : Times] : u = <<r>>
<1>1. ASSUME NEW l \in Loans, NEW a \in Amounts, NEW b \in Int
      PROVE  \E p \in [event : EventNames], q \in Payloads :
                 Moved(l, a, b) = [event_type |-> <<p>>, payload_json |-> <<q>>]
  <2>1. Event("money_moved") \in [event : EventNames]
    BY DEF Event, EventNames
  <2>2. [loan |-> l, amount |-> a, new_balance |-> b] \in Payloads
    BY AmountsAssumption DEF Payloads
  <2> QED BY <2>1, <2>2 DEF Moved
<1>2. ASSUME NEW e \in Events
      PROVE  \E p \in [event : EventNames], q \in Payloads :
                 Noted(e) = [event_type |-> <<p>>, payload_json |-> <<q>>]
  <2>1. Event(e) \in [event : EventNames] /\ [noted |-> e] \in Payloads
    BY DEF Event, EventNames, Payloads
  <2> QED BY <2>1 DEF Noted
<1>3. \A t \in Times : \E r \in [time : Times] : Stamp(t) = <<r>>
  BY DEF Stamp
<1> QED BY <1>1, <1>2, <1>3 DEF RowColumns, RowTimes

(* What append_audit hashes of a row: its three pieces, from which the     *)
(* columns and the time can be read.                                       *)
TextOf(x, u) == x.event_type \o x.payload_json \o u

LEMMA ConcatOfThree ==
    ASSUME NEW S, NEW p \in S, NEW q \in S, NEW r \in S
    PROVE  /\ <<p>> \o <<q>> \o <<r>> \in Seq(S)
           /\ Len(<<p>> \o <<q>> \o <<r>>) = 3
           /\ (<<p>> \o <<q>> \o <<r>>)[1] = p
           /\ (<<p>> \o <<q>> \o <<r>>)[2] = q
           /\ (<<p>> \o <<q>> \o <<r>>)[3] = r
<1>1. <<p>> \in Seq(S) /\ <<q>> \in Seq(S) /\ <<r>> \in Seq(S)
  OBVIOUS
<1>2. Len(<<p>>) = 1 /\ Len(<<q>>) = 1 /\ Len(<<r>>) = 1
      /\ <<p>>[1] = p /\ <<q>>[1] = q /\ <<r>>[1] = r
  OBVIOUS
<1> DEFINE two == <<p>> \o <<q>>
<1>3. two \in Seq(S) /\ Len(two) = 2 /\ two[1] = p /\ two[2] = q
  BY <1>1, <1>2, ConcatProperties
<1> HIDE DEF two
<1>4. two \o <<r>> \in Seq(S) /\ Len(two \o <<r>>) = 3
      /\ (two \o <<r>>)[1] = p /\ (two \o <<r>>)[2] = q /\ (two \o <<r>>)[3] = r
  BY <1>1, <1>2, <1>3, ConcatProperties
<1> QED BY <1>4 DEF two

LEMMA TextTells ==
    ASSUME NEW x \in RowColumns, NEW u \in RowTimes, NEW y \in RowColumns, NEW v \in RowTimes
    PROVE  /\ TextOf(x, u) \in Seq(Pieces)
           /\ TextOf(x, u) = TextOf(y, v) => x = y /\ u = v
<1>1. PICK p \in [event : EventNames], q \in Payloads, r \in [time : Times] :
          x = [event_type |-> <<p>>, payload_json |-> <<q>>] /\ u = <<r>>
  BY OnePieceEach
<1>2. PICK p2 \in [event : EventNames], q2 \in Payloads, r2 \in [time : Times] :
          y = [event_type |-> <<p2>>, payload_json |-> <<q2>>] /\ v = <<r2>>
  BY OnePieceEach
<1>3. /\ p \in Pieces /\ q \in Pieces /\ r \in Pieces
      /\ p2 \in Pieces /\ q2 \in Pieces /\ r2 \in Pieces
  BY DEF Pieces
<1>4. TextOf(x, u) = <<p>> \o <<q>> \o <<r>> /\ TextOf(y, v) = <<p2>> \o <<q2>> \o <<r2>>
  BY <1>1, <1>2 DEF TextOf
<1>5. TextOf(x, u) \in Seq(Pieces)
  BY <1>3, <1>4, ConcatOfThree
<1>6. TextOf(x, u) = TextOf(y, v) => p = p2 /\ q = q2 /\ r = r2
  <2> DEFINE t == <<p>> \o <<q>> \o <<r>>
             t2 == <<p2>> \o <<q2>> \o <<r2>>
  <2>1. t[1] = p /\ t[2] = q /\ t[3] = r /\ t2[1] = p2 /\ t2[2] = q2 /\ t2[3] = r2
    BY <1>3, ConcatOfThree
  <2>2. TextOf(x, u) = t /\ TextOf(y, v) = t2
    BY <1>4
  <2> HIDE DEF t, t2
  <2> QED BY <2>1, <2>2
<1> QED BY <1>1, <1>2, <1>5, <1>6

LEMMA MoveTypes ==
    ASSUME NEW c \in Cases, NEW l \in Loans, NEW a \in Amounts
    PROVE  MoveOf(c, l, a) \in Moves
BY AmountsAssumption DEF MoveOf, Moves

LEMMA ChangesType ==
    ASSUME NEW rows \in Seq(Moves), NEW l
    PROVE  /\ Changes(rows, l) \in Seq(Int) /\ Len(Changes(rows, l)) = Len(rows)
           /\ \A n \in 1 .. Len(rows) :
                  Changes(rows, l)[n] = (IF rows[n].loan = l THEN rows[n].amount ELSE 0)
<1>1. \A row \in Moves : row.amount \in Int
  BY DEF Moves
<1> QED BY <1>1, ChangesOfRows

LEMMA BalanceType ==
    ASSUME NEW rows \in Seq(Moves), NEW l
    PROVE  Balance(rows, l) \in Int
BY ChangesType, TotalIsInt DEF Balance

(* A row linked to any hash is a row, and the last hash of rows is a hash. *)
LEMMA AuditRowTypes ==
    ASSUME NEW h \in RowHashes, NEW x \in RowColumns, NEW u \in RowTimes
    PROVE  AuditRow(h, x, u) \in Rows
<1>1. hash_row(h, x, u) \in RowHashes
  BY TextTells, AppendProperties DEF hash_row, RowHashes, TextOf
<1> QED BY <1>1 DEF AuditRow, Rows

LEMMA LastHashTypes ==
    ASSUME NEW rows \in Seq(Rows)
    PROVE  LastHash(rows) \in RowHashes
<1>1. CASE rows = <<>>
  BY <1>1 DEF LastHash, GENESIS_HASH, RowHashes
<1>2. CASE rows # <<>>
  <2>1. rows[Len(rows)] \in Rows
    BY <1>2
  <2> QED BY <1>2, <2>1 DEF LastHash, Rows
<1> QED BY <1>1, <1>2

LEMMA NothingType == Nothing \in Writes
<1>1. /\ <<>> \in Seq(Moves)
      /\ <<>> \in Seq(Rows)
  OBVIOUS
<1> QED BY <1>1 DEF Nothing, Writes

(* What a connection sees, typed.                                          *)
LEMMA SeenTypes ==
    ASSUME Types, NEW s \in Sessions
    PROVE  /\ Serves[s] \in Cases
           /\ pending[s] \in Writes
           /\ SeenMoves(s) \in Seq(Moves)
           /\ SeenRows(s) \in Seq(Rows)
           /\ \A l \in Loans : loan_balance_cents(s, l) \in Int
<1>1. Serves[s] \in Cases /\ pending[s] \in Writes
  BY ServesAssumption DEF Types
<1>2. pending[s].moves \in Seq(Moves) /\ pending[s].rows \in Seq(Rows)
  BY <1>1 DEF Writes
<1>3. SeenMoves(s) \in Seq(Moves)
  BY <1>2, ConcatProperties DEF SeenMoves, Types
<1>4. SeenRows(s) \in Seq(Rows)
  BY <1>1, <1>2, ConcatProperties DEF SeenRows, Types
<1> QED BY <1>1, <1>3, <1>4, BalanceType DEF loan_balance_cents

LEMMA BecomeTypes ==
    ASSUME Types, NEW s \in Sessions, NEW x \in SessionStates, Become(s, x)
    PROVE  session' \in [Sessions -> SessionStates]
BY DEF Become, Types

LEMMA ReleaseTypes ==
    ASSUME Types, NEW s \in Sessions, Release(s)
    PROVE  pending' \in [Sessions -> Writes]
BY NothingType DEF Release, Types

(* The row InsertRow writes, and the rows it is added to.                  *)
LEMMA InsertTypes ==
    ASSUME Types, NEW s \in Sessions, InsertRow(s)
    PROVE  /\ \E u \in RowTimes :
                  /\ AuditRow(session[s].prev, session[s].columns, u) \in Rows
                  /\ pending' = [pending EXCEPT ![s].rows =
                                     Append(@, AuditRow(session[s].prev, session[s].columns, u))]
           /\ pending' \in [Sessions -> Writes]
<1>1. session[s] \in SessionStates /\ session[s].pc = "inserting"
  BY DEF Types, InsertRow
<1>0. PICK u \in RowTimes : pending' = [pending EXCEPT ![s].rows =
                                Append(@, AuditRow(session[s].prev, session[s].columns, u))]
  BY ColumnTypes DEF InsertRow
<1> DEFINE row == AuditRow(session[s].prev, session[s].columns, u)
<1>2. row \in Rows
  BY <1>1, StateFields, AuditRowTypes
<1>3. pending[s] \in [moves : Seq(Moves), rows : Seq(Rows)]
  BY DEF Types, Writes
<1>4. Append(pending[s].rows, row) \in Seq(Rows)
  BY <1>2, <1>3, AppendProperties
<1>5. [pending[s] EXCEPT !.rows = Append(pending[s].rows, row)] \in Writes
  BY <1>3, <1>4 DEF Writes
<1>6. pending' = [pending EXCEPT ![s] = [pending[s] EXCEPT !.rows = Append(pending[s].rows, row)]]
  BY <1>0 DEF Types
<1> QED BY <1>0, <1>2, <1>5, <1>6 DEF Types

LEMMA InsertMoveTypes ==
    ASSUME Types, NEW s \in Sessions, NEW l \in Loans, NEW a \in Amounts, InsertMove(s, l, a)
    PROVE  pending' \in [Sessions -> Writes]
<1> DEFINE move == MoveOf(Serves[s], l, a)
<1>1. move \in Moves
  BY SeenTypes, MoveTypes
<1>2. pending[s] \in [moves : Seq(Moves), rows : Seq(Rows)]
  BY DEF Types, Writes
<1>3. Append(pending[s].moves, move) \in Seq(Moves)
  BY <1>1, <1>2, AppendProperties
<1>4. [pending[s] EXCEPT !.moves = Append(pending[s].moves, move)] \in Writes
  BY <1>2, <1>3 DEF Writes
<1>5. pending' = [pending EXCEPT ![s] = [pending[s] EXCEPT !.moves = Append(pending[s].moves, move)]]
  BY DEF InsertMove, Types
<1> QED BY <1>4, <1>5 DEF Types

LEMMA InitTypes == DatabaseInit => Types
<1> SUFFICES ASSUME DatabaseInit PROVE Types
  OBVIOUS
<1>1. transactions \in Seq(Moves)
  <2>1. [case : {"SEED"}, loan : Loans, amount : Int] \subseteq Moves
    BY DEF Moves
  <2> QED BY <2>1, SeededAssumption, SeqMonotonic DEF DatabaseInit
<1>2. audit_log \in [Cases -> Seq(Rows)]
  <2>1. <<>> \in Seq(Rows)
    OBVIOUS
  <2> QED BY <2>1 DEF DatabaseInit
<1> QED BY <1>1, <1>2, NothingType, StateTypes DEF DatabaseInit, Types

LEMMA StepTypes == Types /\ [DatabaseNext]_dbVars => Types'
<1> SUFFICES ASSUME Types, [DatabaseNext]_dbVars PROVE Types'
  OBVIOUS
<1>1. CASE UNCHANGED dbVars
  BY <1>1 DEF dbVars, Types
<1>2. ASSUME NEW s \in Sessions, NEW l \in Loans, NEW a \in Amounts, InsertMove(s, l, a)
      PROVE  Types'
  <2>1. Reporting(l, a) \in SessionStates
    BY StateTypes
  <2>2. session' \in [Sessions -> SessionStates]
    BY <1>2, <2>1, BecomeTypes DEF InsertMove
  <2> QED BY <1>2, <2>2, InsertMoveTypes DEF InsertMove, Types
<1>3. ASSUME NEW s \in Sessions, NEW e \in Events, Record(s, e)
      PROVE  Types'
  <2>1. Selecting(Noted(e)) \in SessionStates
    BY StateTypes, ColumnTypes
  <2>2. session' \in [Sessions -> SessionStates]
    BY <1>3, <2>1, BecomeTypes DEF Record
  <2> QED BY <1>3, <2>2 DEF Record, Types
<1>4. ASSUME NEW s \in Sessions, NEW l \in Loans, Quote(s, l)
      PROVE  Types'
  BY <1>4 DEF Quote, Types
<1>5. ASSUME NEW s \in Sessions, ReadBalance(s)
      PROVE  Types'
  <2>1. session[s] \in SessionStates /\ session[s].pc = "reporting"
    BY <1>5 DEF ReadBalance, Types
  <2> DEFINE x == Moved(session[s].loan, session[s].amount, loan_balance_cents(s, session[s].loan))
  <2>2. x \in RowColumns
    BY <2>1, StateFields, SeenTypes, ColumnTypes
  <2>3. Selecting(x) \in SessionStates
    BY <2>2, StateTypes
  <2>4. Become(s, Selecting(x))
    BY <1>5 DEF ReadBalance
  <2>5. session' \in [Sessions -> SessionStates]
    BY <2>3, <2>4, BecomeTypes
  <2> QED BY <1>5, <2>5 DEF ReadBalance, Types
<1>6. ASSUME NEW s \in Sessions, SelectLastHash(s)
      PROVE  Types'
  <2>1. session[s] \in SessionStates /\ session[s].pc = "selecting"
    BY <1>6 DEF SelectLastHash, Types
  <2>2. Inserting(session[s].columns, LastHash(SeenRows(s))) \in SessionStates
    BY <2>1, StateFields, SeenTypes, LastHashTypes, StateTypes
  <2>3. session' \in [Sessions -> SessionStates]
    BY <1>6, <2>2, BecomeTypes DEF SelectLastHash
  <2> QED BY <1>6, <2>3 DEF SelectLastHash, Types
<1>7. ASSUME NEW s \in Sessions, InsertRow(s)
      PROVE  Types'
  <2>1. session' \in [Sessions -> SessionStates]
    BY <1>7, StateTypes, BecomeTypes DEF InsertRow
  <2> QED BY <1>7, <2>1, InsertTypes DEF InsertRow, Types
<1>8. ASSUME NEW s \in Sessions, Locked(s)
      PROVE  Types'
  <2>1. session' \in [Sessions -> SessionStates]
    BY <1>8, StateTypes, BecomeTypes DEF Locked
  <2> QED BY <1>8, <2>1 DEF Locked, Types
<1>9. ASSUME NEW s \in Sessions, Commit(s)
      PROVE  Types'
  <2>1. session' \in [Sessions -> SessionStates]
    BY <1>9, StateTypes, BecomeTypes DEF Commit
  <2>2. pending' \in [Sessions -> Writes]
    BY <1>9, ReleaseTypes DEF Commit
  <2>3. transactions' \in Seq(Moves) /\ audit_log' \in [Cases -> Seq(Rows)]
    BY <1>9, SeenTypes DEF Commit, Types
  <2> QED BY <2>1, <2>2, <2>3 DEF Types
<1>10. ASSUME NEW s \in Sessions, Rollback(s)
       PROVE  Types'
  <2>1. session' \in [Sessions -> SessionStates]
    BY <1>10, StateTypes, BecomeTypes DEF Rollback
  <2> QED BY <1>10, <2>1, ReleaseTypes DEF Rollback, Types
<1>11. ASSUME NEW s \in Sessions, Close(s)
       PROVE  Types'
  <2>1. session' \in [Sessions -> SessionStates]
    BY <1>11, StateTypes, BecomeTypes DEF Close
  <2> QED BY <1>11, <2>1, ReleaseTypes DEF Close, Types
<1> QED BY <1>1, <1>2, <1>3, <1>4, <1>5, <1>6, <1>7, <1>8, <1>9, <1>10, <1>11
        DEF DatabaseNext, Proceed

-----------------------------------------------------------------------------
(* The hash chain.  The rows a connection sees verify too, its own         *)
(* uncommitted ones included, and a hash it has read is still the last     *)
(* one it sees when it inserts: nobody else writes the trail of its case.  *)

ChainInv ==
    /\ Types
    /\ \A c \in Cases : verify_audit_chain(audit_log[c])
    /\ \A s \in Sessions : verify_audit_chain(SeenRows(s))
    /\ \A s \in Sessions : session[s].pc = "inserting" => session[s].prev = LastHash(SeenRows(s))

(* append_audit, given the last hash, extends a chain that verifies.       *)
LEMMA AppendVerifies ==
    ASSUME NEW rows \in Seq(Rows), verify_audit_chain(rows), NEW x \in RowColumns, NEW u \in RowTimes
    PROVE  verify_audit_chain(Append(rows, AuditRow(LastHash(rows), x, u)))
<1> DEFINE row == AuditRow(LastHash(rows), x, u)
           longer == Append(rows, row)
<1>1. row \in Rows
  BY LastHashTypes, AuditRowTypes
<1>2. /\ Len(longer) = Len(rows) + 1
      /\ longer \in Seq(Rows)
      /\ \A i \in 1 .. Len(rows) : longer[i] = rows[i]
      /\ longer[Len(rows) + 1] = row
  BY <1>1, AppendProperties
<1> HIDE DEF longer
<1>3. row.prev_hash = LastHash(rows) /\ row.hash = hash_row(row.prev_hash, row.columns, row.created_at)
  BY DEF AuditRow
<1> HIDE DEF row
<1>4. Len(rows) \in Nat /\ DOMAIN rows = 1 .. Len(rows) /\ DOMAIN longer = 1 .. Len(rows) + 1
  BY <1>2
<1>5. ASSUME NEW i \in 1 .. Len(rows)
      PROVE  /\ longer[i].prev_hash = (IF i = 1 THEN GENESIS_HASH ELSE longer[i - 1].hash)
             /\ longer[i].hash = hash_row(longer[i].prev_hash, longer[i].columns, longer[i].created_at)
  <2>1. longer[i] = rows[i] /\ (i # 1 => longer[i - 1] = rows[i - 1])
    BY <1>2, <1>4
  <2> QED BY <1>4, <2>1 DEF verify_audit_chain
<1>6. row.prev_hash = (IF Len(rows) + 1 = 1 THEN GENESIS_HASH ELSE longer[Len(rows)].hash)
  <2>1. CASE rows = <<>>
    BY <1>3, <2>1 DEF LastHash
  <2>2. CASE rows # <<>>
    <3>1. Len(rows) # 0 /\ Len(rows) \in 1 .. Len(rows)
      BY <1>4, <2>2
    <3> QED BY <1>2, <1>3, <2>2, <3>1 DEF LastHash
  <2> QED BY <2>1, <2>2
<1>7. \A i \in 1 .. Len(rows) + 1 : i \in 1 .. Len(rows) \/ i = Len(rows) + 1
  BY <1>4
<1>8. (Len(rows) + 1) - 1 = Len(rows)
  BY <1>4
<1>9. verify_audit_chain(longer)
  BY <1>2, <1>3, <1>4, <1>5, <1>6, <1>7, <1>8 DEF verify_audit_chain
<1> QED BY <1>9 DEF longer, row

(* A row added to what is uncommitted is added to what is seen.            *)
LEMMA ConcatAppend ==
    ASSUME NEW front \in Seq(Rows), NEW back \in Seq(Rows), NEW x \in Rows
    PROVE  front \o Append(back, x) = Append(front \o back, x)
OBVIOUS

(* What a session sees is the same after a step of which it, the trail of  *)
(* its case and its uncommitted rows are no part.                          *)
LEMMA SameRowsSeen ==
    ASSUME NEW s \in Sessions,
           audit_log'[Serves[s]] = audit_log[Serves[s]], pending'[s].rows = pending[s].rows
    PROVE  SeenRows(s)' = SeenRows(s)
BY DEF SeenRows

(* After a commit, a rollback or the end of the connection, only what is   *)
(* committed is seen.                                                      *)
LEMMA OnlyCommittedSeen ==
    ASSUME Types, Types', NEW s \in Sessions, Release(s)
    PROVE  SeenRows(s)' = audit_log'[Serves[s]]
<1>1. pending'[s].rows = <<>>
  BY DEF Release, Nothing, Types
<1>2. audit_log'[Serves[s]] \in Seq(Rows)
  BY SeenTypes DEF Types
<1> QED BY <1>1, <1>2, ConcatEmptySeq DEF SeenRows

LEMMA ReleaseOthers ==
    ASSUME Types, NEW s \in Sessions, NEW t \in Sessions, t # s, Release(s)
    PROVE  pending'[t] = pending[t]
BY DEF Release, Types

LEMMA BecomeOthers ==
    ASSUME Types, NEW s \in Sessions, NEW x, Become(s, x)
    PROVE  /\ session'[s] = x
           /\ \A t \in Sessions \ {s} : session'[t] = session[t]
BY DEF Become, Types

LEMMA InitChain == DatabaseInit => ChainInv
<1> SUFFICES ASSUME DatabaseInit PROVE ChainInv
  OBVIOUS
<1>1. Types
  BY InitTypes
<1>2. verify_audit_chain(<<>>)
  BY DEF verify_audit_chain
<1>3. \A c \in Cases : audit_log[c] = <<>>
  BY DEF DatabaseInit
<1>4. \A s \in Sessions : SeenRows(s) = <<>> /\ session[s].pc = "idle"
  BY ServesAssumption DEF DatabaseInit, SeenRows, Nothing, Idle
<1> QED BY <1>1, <1>2, <1>3, <1>4 DEF ChainInv

(* Steps that only change what a session is about to do.                   *)
LEMMA ChainWhenNoRowsChange ==
    ASSUME ChainInv, Types', UNCHANGED audit_log,
           \A s \in Sessions : pending'[s].rows = pending[s].rows,
           \A s \in Sessions : session'[s].pc = "inserting" =>
               session'[s] = session[s] \/ session'[s].prev = LastHash(SeenRows(s))
    PROVE  ChainInv'
<1>1. \A s \in Sessions : SeenRows(s)' = SeenRows(s)
  BY DEF SeenRows
<1> QED BY <1>1 DEF ChainInv

(* A session lets its uncommitted rows go, as a rollback or a close does.  *)
LEMMA ChainWhenRowsVanish ==
    ASSUME ChainInv, Types', UNCHANGED audit_log, NEW s \in Sessions, Release(s),
           NEW x, Become(s, x), x.pc # "inserting"
    PROVE  ChainInv'
<1>1. SeenRows(s)' = audit_log[Serves[s]]
  BY OnlyCommittedSeen DEF ChainInv
<1>2. \A t \in Sessions \ {s} : SeenRows(t)' = SeenRows(t) /\ session'[t] = session[t]
  BY ReleaseOthers, BecomeOthers DEF ChainInv, SeenRows
<1>3. session'[s].pc # "inserting"
  BY BecomeOthers DEF ChainInv
<1> QED BY <1>1, <1>2, <1>3, SeenTypes DEF ChainInv

LEMMA StepChain == ChainInv /\ [DatabaseNext]_dbVars => ChainInv'
<1> SUFFICES ASSUME ChainInv, [DatabaseNext]_dbVars PROVE ChainInv'
  OBVIOUS
<1>0. Types /\ Types'
  BY StepTypes DEF ChainInv
<1>1. CASE UNCHANGED dbVars
  BY <1>0, <1>1, ChainWhenNoRowsChange DEF dbVars
<1>2. ASSUME NEW s \in Sessions, NEW l \in Loans, NEW a \in Amounts, InsertMove(s, l, a)
      PROVE  ChainInv'
  <2>1. \A t \in Sessions : pending'[t].rows = pending[t].rows
    BY <1>0, <1>2 DEF InsertMove, Types, Writes
  <2>2. \A t \in Sessions : session'[t].pc = "inserting" => session'[t] = session[t]
    BY <1>0, <1>2, BecomeOthers DEF InsertMove, Reporting
  <2> QED BY <1>0, <1>2, <2>1, <2>2, ChainWhenNoRowsChange DEF InsertMove
<1>3. ASSUME NEW s \in Sessions, NEW e \in Events, Record(s, e)
      PROVE  ChainInv'
  <2>1. \A t \in Sessions : session'[t].pc = "inserting" => session'[t] = session[t]
    BY <1>0, <1>3, BecomeOthers DEF Record, Selecting
  <2> QED BY <1>0, <1>3, <2>1, ChainWhenNoRowsChange DEF Record
<1>4. ASSUME NEW s \in Sessions, NEW l \in Loans, Quote(s, l)
      PROVE  ChainInv'
  BY <1>0, <1>4, ChainWhenNoRowsChange DEF Quote
<1>5. ASSUME NEW s \in Sessions, ReadBalance(s)
      PROVE  ChainInv'
  <2>1. \A t \in Sessions : session'[t].pc = "inserting" => session'[t] = session[t]
    BY <1>0, <1>5, BecomeOthers DEF ReadBalance, Selecting
  <2> QED BY <1>0, <1>5, <2>1, ChainWhenNoRowsChange DEF ReadBalance
<1>6. ASSUME NEW s \in Sessions, SelectLastHash(s)
      PROVE  ChainInv'
  <2>1. \A t \in Sessions : session'[t].pc = "inserting" =>
            session'[t] = session[t] \/ session'[t].prev = LastHash(SeenRows(t))
    BY <1>0, <1>6, BecomeOthers DEF SelectLastHash, Inserting
  <2> QED BY <1>0, <1>6, <2>1, ChainWhenNoRowsChange DEF SelectLastHash
<1>7. ASSUME NEW s \in Sessions, InsertRow(s)
      PROVE  ChainInv'
  <2>0. PICK u \in RowTimes :
            /\ AuditRow(session[s].prev, session[s].columns, u) \in Rows
            /\ pending' = [pending EXCEPT ![s].rows =
                               Append(@, AuditRow(session[s].prev, session[s].columns, u))]
    BY <1>0, <1>7, InsertTypes
  <2> DEFINE row == AuditRow(session[s].prev, session[s].columns, u)
  <2>1. /\ session[s].pc = "inserting"
        /\ session[s].columns \in RowColumns
        /\ session[s].prev = LastHash(SeenRows(s))
    BY <1>0, <1>7, StateFields DEF InsertRow, Types, ChainInv
  <2>2. row \in Rows
    BY <2>0
  <2>3. SeenRows(s)' = Append(SeenRows(s), row)
    <3>1. pending'[s].rows = Append(pending[s].rows, row)
      BY <1>0, <2>0 DEF Types, Writes
    <3>2. audit_log[Serves[s]] \in Seq(Rows) /\ pending[s].rows \in Seq(Rows)
      BY <1>0, SeenTypes DEF Types, Writes
    <3>3. audit_log' = audit_log
      BY <1>7 DEF InsertRow
    <3>4. audit_log[Serves[s]] \o Append(pending[s].rows, row)
              = Append(audit_log[Serves[s]] \o pending[s].rows, row)
      BY <2>2, <3>2, ConcatAppend
    <3>5. SeenRows(s)' = audit_log[Serves[s]] \o Append(pending[s].rows, row)
      BY <3>1, <3>3 DEF SeenRows
    <3>6. SeenRows(s) = audit_log[Serves[s]] \o pending[s].rows
      BY DEF SeenRows
    <3> QED BY <3>4, <3>5, <3>6
  <2>4. verify_audit_chain(SeenRows(s))'
    <3>1. SeenRows(s) \in Seq(Rows) /\ verify_audit_chain(SeenRows(s))
      BY <1>0, SeenTypes DEF ChainInv
    <3>2. verify_audit_chain(Append(SeenRows(s), row))
      BY <2>1, <3>1, AppendVerifies
    <3> QED BY <2>3, <3>2 DEF verify_audit_chain
  <2>5. \A t \in Sessions \ {s} : SeenRows(t)' = SeenRows(t) /\ session'[t] = session[t]
    BY <1>0, <1>7, <2>0, BecomeOthers DEF InsertRow, SeenRows, Types
  <2>6. session'[s].pc # "inserting"
    BY <1>0, <1>7, BecomeOthers DEF InsertRow, Open
  <2>7. audit_log' = audit_log
    BY <1>7 DEF InsertRow
  <2> QED BY <1>0, <2>4, <2>5, <2>6, <2>7 DEF ChainInv
<1>8. ASSUME NEW s \in Sessions, Locked(s)
      PROVE  ChainInv'
  <2>1. \A t \in Sessions : session'[t].pc = "inserting" => session'[t] = session[t]
    BY <1>0, <1>8, BecomeOthers DEF Locked, Idle
  <2> QED BY <1>0, <1>8, <2>1, ChainWhenNoRowsChange DEF Locked
<1>9. ASSUME NEW s \in Sessions, Commit(s)
      PROVE  ChainInv'
  <2>1. audit_log'[Serves[s]] = SeenRows(s)
    BY <1>0, <1>9, SeenTypes DEF Commit, Types
  <2>2. \A c \in Cases \ {Serves[s]} : audit_log'[c] = audit_log[c]
    BY <1>0, <1>9 DEF Commit, Types
  <2>3. SeenRows(s)' = SeenRows(s)
    BY <1>0, <1>9, <2>1, OnlyCommittedSeen DEF Commit
  <2>4. \A t \in Sessions \ {s} : Serves[t] \in Cases \ {Serves[s]}
    BY OneConnectionPerCase, ServesAssumption
  <2>5. \A t \in Sessions \ {s} : SeenRows(t)' = SeenRows(t) /\ session'[t] = session[t]
    BY <1>0, <1>9, <2>2, <2>4, ReleaseOthers, BecomeOthers DEF Commit, SeenRows
  <2>6. session'[s].pc # "inserting"
    BY <1>0, <1>9, BecomeOthers DEF Commit, Idle
  <2>7. \A c \in Cases : verify_audit_chain(audit_log'[c])
    BY <2>1, <2>2 DEF ChainInv
  <2>8. \A t \in Sessions : verify_audit_chain(SeenRows(t)')
    BY <2>3, <2>5 DEF ChainInv
  <2>9. \A t \in Sessions : session'[t].pc = "inserting" => session'[t].prev = LastHash(SeenRows(t)')
    BY <2>5, <2>6 DEF ChainInv
  <2> QED BY <1>0, <2>7, <2>8, <2>9 DEF ChainInv, verify_audit_chain, LastHash
<1>10. ASSUME NEW s \in Sessions, Rollback(s)
       PROVE  ChainInv'
  <2>1. Idle.pc # "inserting"
    BY DEF Idle
  <2> QED BY <1>0, <1>10, <2>1, ChainWhenRowsVanish DEF Rollback
<1>11. ASSUME NEW s \in Sessions, Close(s)
       PROVE  ChainInv'
  <2>1. Closed.pc # "inserting"
    BY DEF Closed
  <2> QED BY <1>0, <1>11, <2>1, ChainWhenRowsVanish DEF Close
<1> QED BY <1>1, <1>2, <1>3, <1>4, <1>5, <1>6, <1>7, <1>8, <1>9, <1>10, <1>11
        DEF DatabaseNext, Proceed

(* Every case's trail verifies at every moment (verify_audit_chain): two   *)
(* writers of one chain, the last hash read before a transaction, rows     *)
(* rolled back and connections cut off never break a link.                 *)
THEOREM TrailsVerify == DatabaseSpec => []ChainsVerify
<1>1. ChainInv => ChainsVerify
  BY DEF ChainInv, ChainsVerify
<1> QED BY InitChain, StepChain, <1>1, PTL DEF DatabaseSpec

-----------------------------------------------------------------------------
(* A transaction is one step.  What a session has written so far, with     *)
(* what it is about to write, is always on the way to a commit that        *)
(* RecordedMoves allows; and while it has written anything, it alone may   *)
(* write, so the balance it has read stays true.                           *)

IsMove(s, moves, x) ==
    \E l \in Loans, a \in Amounts :
        /\ moves = <<MoveOf(Serves[s], l, a)>>
        /\ x = Moved(l, a, Balance(transactions \o moves, l))

IsNote(x) == \E e \in Events : x = Noted(e)

(* A money row, one note, or the second of two.                            *)
IsNext(s, x) ==
    \/ pending[s].rows = <<>> /\ IsMove(s, pending[s].moves, x)
    \/ pending[s].rows = <<>> /\ pending[s].moves = <<>> /\ IsNote(x)
    \/ /\ pending[s].moves = <<>> /\ IsNote(x)
       /\ \E r \in Rows : pending[s].rows = <<r>> /\ IsNote(r.columns)

IsWhole(s) ==
    \/ \E r \in Rows : pending[s].rows = <<r>> /\ IsMove(s, pending[s].moves, r.columns)
    \/ /\ pending[s].moves = <<>>
       /\ \E r \in Rows : pending[s].rows = <<r>> /\ IsNote(r.columns)
    \/ /\ pending[s].moves = <<>>
       /\ \E r, q \in Rows : /\ pending[s].rows = <<r, q>>
                             /\ IsNote(r.columns) /\ IsNote(q.columns)

Shape(s) ==
    /\ pending[s].moves # <<>> \/ pending[s].rows # <<>> => writer = s
    /\ session[s].pc \in {"idle", "closed"} => pending[s].moves = <<>> /\ pending[s].rows = <<>>
    /\ session[s].pc = "reporting" =>
           /\ pending[s].rows = <<>>
           /\ pending[s].moves = <<MoveOf(Serves[s], session[s].loan, session[s].amount)>>
    /\ session[s].pc \in {"selecting", "inserting"} => IsNext(s, session[s].columns)
    /\ session[s].pc = "open" => IsWhole(s)

ShapeInv == Types /\ \A s \in Sessions : Shape(s)

(* The session states are records of their kind.                           *)
LEMMA StateKinds ==
    /\ Idle.pc = "idle" /\ Open.pc = "open" /\ Closed.pc = "closed"
    /\ \A l, a : /\ Reporting(l, a).pc = "reporting"
                 /\ Reporting(l, a).loan = l /\ Reporting(l, a).amount = a
    /\ \A x : Selecting(x).pc = "selecting" /\ Selecting(x).columns = x
    /\ \A x, h : Inserting(x, h).pc = "inserting" /\ Inserting(x, h).columns = x
BY DEF Idle, Open, Closed, Reporting, Selecting, Inserting

(* A step of another session leaves this one's shape: either the moves are *)
(* the same, or this session has read no balance.                          *)
LEMMA ShapeOfOthers ==
    ASSUME NEW t \in Sessions, Shape(t),
           session'[t] = session[t], pending'[t] = pending[t], writer = t => writer' = t,
           pending[t].moves # <<>> => transactions' = transactions
    PROVE  Shape(t)'
<1>1. \A x : IsMove(t, pending[t].moves, x) => IsMove(t, pending[t].moves, x)'
  <2> SUFFICES ASSUME NEW x, IsMove(t, pending[t].moves, x)
               PROVE  IsMove(t, pending[t].moves, x)'
    OBVIOUS
  <2>1. pending[t].moves # <<>>
    BY DEF IsMove
  <2> QED BY <2>1 DEF IsMove
<1>2. \A x : IsNext(t, x) => IsNext(t, x)'
  BY <1>1 DEF IsNext, IsNote
<1>3. IsWhole(t) => IsWhole(t)'
  BY <1>1 DEF IsWhole, IsNote
<1> QED BY <1>2, <1>3 DEF Shape

LEMMA InitShape == DatabaseInit => ShapeInv
<1> SUFFICES ASSUME DatabaseInit PROVE ShapeInv
  OBVIOUS
<1>1. \A s \in Sessions : /\ session[s] = Idle
                         /\ pending[s].moves = <<>> /\ pending[s].rows = <<>>
  BY DEF DatabaseInit, Nothing
<1> QED BY <1>1, StateKinds, InitTypes DEF ShapeInv, Shape

(* A session that has let go of what it wrote.                             *)
LEMMA ShapeReleased ==
    ASSUME Types, NEW s \in Sessions, Release(s),
           NEW x, Become(s, x), x.pc \in {"idle", "closed"}
    PROVE  Shape(s)'
<1>1. pending'[s].moves = <<>> /\ pending'[s].rows = <<>>
  BY DEF Release, Nothing, Types
<1>2. session'[s] = x
  BY BecomeOthers
<1> QED BY <1>1, <1>2 DEF Shape

LEMMA ReleaseKeepsWriter ==
    ASSUME NEW s \in Sessions, NEW t \in Sessions \ {s}, Release(s), writer = t
    PROVE  writer' = t
BY DEF Release

LEMMA CanWriteMeansNoOther ==
    ASSUME NEW s \in Sessions, NEW t \in Sessions \ {s}, CanWrite(s)
    PROVE  writer # t
BY NoneAssumption DEF CanWrite

(* What a session that is not the writer has written: nothing.             *)
LEMMA OnlyWriterHasWritten ==
    ASSUME NEW s \in Sessions, Shape(s), writer # s
    PROVE  pending[s].moves = <<>> /\ pending[s].rows = <<>>
BY DEF Shape

LEMMA ShapeInsertMove ==
    ASSUME ShapeInv, NEW s \in Sessions, NEW l \in Loans, NEW a \in Amounts, InsertMove(s, l, a)
    PROVE  Shape(s)'
<1>1. pending[s].moves = <<>> /\ pending[s].rows = <<>>
  BY StateKinds DEF InsertMove, ShapeInv, Shape
<1>2. /\ pending'[s].moves = Append(pending[s].moves, MoveOf(Serves[s], l, a))
      /\ pending'[s].rows = pending[s].rows
  BY DEF InsertMove, ShapeInv, Types, Writes
<1>3. pending'[s].moves = <<MoveOf(Serves[s], l, a)>>
  BY <1>1, <1>2
<1>4. session'[s] = Reporting(l, a)
  BY BecomeOthers DEF InsertMove, ShapeInv
<1>5. writer' = s
  BY DEF InsertMove
<1> QED BY <1>1, <1>2, <1>3, <1>4, <1>5, StateKinds DEF Shape

LEMMA ShapeReadBalance ==
    ASSUME ShapeInv, NEW s \in Sessions, ReadBalance(s)
    PROVE  Shape(s)'
<1>1. PICK l \in Loans, a \in Amounts : l = session[s].loan /\ a = session[s].amount
  BY StateFields DEF ReadBalance, ShapeInv, Types
<1>2. /\ pending[s].rows = <<>>
      /\ pending[s].moves = <<MoveOf(Serves[s], l, a)>>
      /\ writer = s
  BY <1>1 DEF ReadBalance, ShapeInv, Shape
<1>3. session'[s] = Selecting(Moved(l, a, Balance(transactions \o pending[s].moves, l)))
  BY <1>1, BecomeOthers DEF ReadBalance, ShapeInv, loan_balance_cents, SeenMoves
<1>4. UNCHANGED <<transactions, pending, writer>>
  BY DEF ReadBalance
<1>5. /\ session'[s].pc = "selecting"
      /\ session'[s].columns = Moved(l, a, Balance(transactions' \o pending'[s].moves, l))
  BY <1>3, <1>4, StateKinds
<1>6. pending'[s].moves = <<MoveOf(Serves[s], l, a)>> /\ pending'[s].rows = <<>>
  BY <1>2, <1>4
<1>7. IsMove(s, pending[s].moves, session[s].columns)'
  BY <1>5, <1>6 DEF IsMove
<1>8. IsNext(s, session[s].columns)'
  BY <1>6, <1>7 DEF IsNext
<1> QED BY <1>2, <1>4, <1>5, <1>6, <1>8 DEF Shape

LEMMA ShapeRecord ==
    ASSUME ShapeInv, NEW s \in Sessions, NEW e \in Events, Record(s, e)
    PROVE  Shape(s)'
<1>1. session'[s] = Selecting(Noted(e))
  BY BecomeOthers DEF Record, ShapeInv
<1>2. session'[s].pc = "selecting" /\ session'[s].columns = Noted(e)
  BY <1>1, StateKinds
<1>3. UNCHANGED <<transactions, pending, writer>>
  BY DEF Record
<1>4. IsNote(Noted(e))
  BY DEF IsNote
<1>5. IsNext(s, Noted(e))
  <2>1. CASE session[s] = Idle
    BY <1>4, <2>1, StateKinds DEF ShapeInv, Shape, IsNext
  <2>2. CASE session[s] = Open /\ pending[s].moves = <<>> /\ Len(pending[s].rows) = 1
    <3>1. IsWhole(s)
      BY <2>2, StateKinds DEF ShapeInv, Shape
    <3>2. ~\E x : IsMove(s, pending[s].moves, x)
      BY <2>2 DEF IsMove
    <3>3. ~\E r, q \in Rows : pending[s].rows = <<r, q>>
      BY <2>2
    <3> QED BY <1>4, <2>2, <3>1, <3>2, <3>3 DEF IsWhole, IsNext
  <2> QED BY <2>1, <2>2 DEF Record
<1>6. IsNext(s, Noted(e))'
  BY <1>3, <1>5 DEF IsNext, IsMove, IsNote
<1>7. pending[s].moves # <<>> \/ pending[s].rows # <<>> => writer = s
  BY DEF ShapeInv, Shape
<1> QED BY <1>2, <1>3, <1>6, <1>7 DEF Shape

LEMMA ShapeSelectLastHash ==
    ASSUME ShapeInv, NEW s \in Sessions, SelectLastHash(s)
    PROVE  Shape(s)'
<1>1. session'[s] = Inserting(session[s].columns, LastHash(SeenRows(s)))
  BY BecomeOthers DEF SelectLastHash, ShapeInv
<1>2. session'[s].pc = "inserting" /\ session'[s].columns = session[s].columns
  BY <1>1, StateKinds
<1>3. UNCHANGED <<transactions, pending, writer>>
  BY DEF SelectLastHash
<1>4. IsNext(s, session[s].columns)
  BY DEF SelectLastHash, ShapeInv, Shape
<1>5. \A x : IsNext(s, x) => IsNext(s, x)'
  BY <1>3 DEF IsNext, IsMove, IsNote
<1>6. pending[s].moves # <<>> \/ pending[s].rows # <<>> => writer = s
  BY DEF ShapeInv, Shape
<1> QED BY <1>2, <1>3, <1>4, <1>5, <1>6 DEF Shape

(* Two rows, written one after the other.                                  *)
LEMMA AppendTwo ==
    ASSUME NEW S, NEW r \in S, NEW q \in S
    PROVE  Append(<<r>>, q) = <<r, q>>
<1>1. <<r>> \in Seq(S) /\ Len(<<r>>) = 1 /\ <<r>>[1] = r
  OBVIOUS
<1>2. <<r, q>> \in Seq(S) /\ Len(<<r, q>>) = 2 /\ <<r, q>>[1] = r /\ <<r, q>>[2] = q
  OBVIOUS
<1> DEFINE t == Append(<<r>>, q)
<1>3. t \in Seq(S) /\ Len(t) = 2 /\ t[1] = r /\ t[2] = q
  BY <1>1, AppendProperties
<1> HIDE DEF t
<1>4. \A i \in 1 .. 2 : t[i] = <<r, q>>[i]
  BY <1>2, <1>3
<1>5. t = <<r, q>>
  BY <1>2, <1>3, <1>4, SeqEqual
<1> QED BY <1>5 DEF t

(* The row just inserted makes what was on its way whole.                  *)
LEMMA ShapeInsertRow ==
    ASSUME ShapeInv, NEW s \in Sessions, InsertRow(s)
    PROVE  Shape(s)'
<1>1. session[s].pc = "inserting"
  BY DEF InsertRow
<1>0. PICK u \in RowTimes :
          /\ AuditRow(session[s].prev, session[s].columns, u) \in Rows
          /\ pending' = [pending EXCEPT ![s].rows =
                             Append(@, AuditRow(session[s].prev, session[s].columns, u))]
  BY InsertTypes DEF ShapeInv
<1>2. PICK row \in Rows : row = AuditRow(session[s].prev, session[s].columns, u)
  BY <1>0
<1>3. row.columns = session[s].columns
  BY <1>2 DEF AuditRow
<1>4. /\ pending'[s].moves = pending[s].moves
      /\ pending'[s].rows = Append(pending[s].rows, row)
  BY <1>0, <1>2 DEF ShapeInv, Types, Writes
<1>5. writer' = s /\ transactions' = transactions
  BY DEF InsertRow
<1>6. session'[s].pc = "open"
  BY BecomeOthers, StateKinds DEF InsertRow, ShapeInv
<1>7. IsNext(s, row.columns)
  BY <1>1, <1>3 DEF ShapeInv, Shape
<1>8. IsWhole(s)'
  <2>1. CASE pending[s].rows = <<>> /\ IsMove(s, pending[s].moves, row.columns)
    <3>1. pending'[s].rows = <<row>>
      BY <1>4, <2>1
    <3>2. IsMove(s, pending[s].moves, row.columns)'
      BY <1>4, <1>5, <2>1 DEF IsMove
    <3> QED BY <3>1, <3>2 DEF IsWhole
  <2>2. CASE pending[s].rows = <<>> /\ pending[s].moves = <<>> /\ IsNote(row.columns)
    <3>1. pending'[s].rows = <<row>>
      BY <1>4, <2>2
    <3> QED BY <1>4, <2>2, <3>1 DEF IsWhole, IsNote
  <2>3. CASE /\ pending[s].moves = <<>> /\ IsNote(row.columns)
             /\ \E r \in Rows : pending[s].rows = <<r>> /\ IsNote(r.columns)
    <3>1. PICK r \in Rows : pending[s].rows = <<r>> /\ IsNote(r.columns)
      BY <2>3
    <3>2. Append(<<r>>, row) = <<r, row>>
      BY AppendTwo
    <3>3. pending'[s].rows = <<r, row>>
      BY <1>4, <3>1, <3>2
    <3> QED BY <1>4, <2>3, <3>1, <3>3 DEF IsWhole, IsNote
  <2> QED BY <1>7, <2>1, <2>2, <2>3 DEF IsNext
<1> QED BY <1>5, <1>6, <1>8 DEF Shape

(* A commit without money leaves the transactions as they were.            *)
LEMMA CommitOfNoMoves ==
    ASSUME Types, NEW s \in Sessions, Commit(s), pending[s].moves = <<>>
    PROVE  transactions' = transactions
<1>1. transactions \in Seq(Moves)
  BY DEF Types
<1> QED BY <1>1, ConcatEmptySeq DEF Commit, SeenMoves

LEMMA StepShape == ShapeInv /\ [DatabaseNext]_dbVars => ShapeInv'
<1> SUFFICES ASSUME ShapeInv, [DatabaseNext]_dbVars
             PROVE  \A t \in Sessions : Shape(t)'
  BY StepTypes DEF ShapeInv
<1>0. Types /\ \A t \in Sessions : Shape(t)
  BY DEF ShapeInv
<1>1. CASE UNCHANGED dbVars
  BY <1>0, <1>1, ShapeOfOthers DEF dbVars
<1>2. ASSUME NEW s \in Sessions, NEW l \in Loans, NEW a \in Amounts, InsertMove(s, l, a),
             NEW t \in Sessions
      PROVE  Shape(t)'
  <2>1. CASE t = s
    BY <1>2, <2>1, ShapeInsertMove
  <2>2. CASE t # s
    <3>1. session'[t] = session[t] /\ pending'[t] = pending[t]
      BY <1>0, <1>2, <2>2, BecomeOthers DEF InsertMove, Types
    <3> QED BY <1>0, <1>2, <2>2, <3>1, CanWriteMeansNoOther, ShapeOfOthers DEF InsertMove
  <2> QED BY <2>1, <2>2
<1>3. ASSUME NEW s \in Sessions, NEW e \in Events, Record(s, e), NEW t \in Sessions
      PROVE  Shape(t)'
  <2>1. CASE t # s
    BY <1>0, <1>3, <2>1, BecomeOthers, ShapeOfOthers DEF Record
  <2> QED BY <1>3, <2>1, ShapeRecord
<1>4. ASSUME NEW s \in Sessions, NEW l \in Loans, Quote(s, l), NEW t \in Sessions
      PROVE  Shape(t)'
  BY <1>0, <1>4, ShapeOfOthers DEF Quote
<1>5. ASSUME NEW s \in Sessions, ReadBalance(s), NEW t \in Sessions
      PROVE  Shape(t)'
  <2>1. CASE t # s
    BY <1>0, <1>5, <2>1, BecomeOthers, ShapeOfOthers DEF ReadBalance
  <2> QED BY <1>5, <2>1, ShapeReadBalance
<1>6. ASSUME NEW s \in Sessions, SelectLastHash(s), NEW t \in Sessions
      PROVE  Shape(t)'
  <2>1. CASE t # s
    BY <1>0, <1>6, <2>1, BecomeOthers, ShapeOfOthers DEF SelectLastHash
  <2> QED BY <1>6, <2>1, ShapeSelectLastHash
<1>7. ASSUME NEW s \in Sessions, InsertRow(s), NEW t \in Sessions
      PROVE  Shape(t)'
  <2>1. CASE t # s
    <3>1. session'[t] = session[t] /\ pending'[t] = pending[t]
      BY <1>0, <1>7, <2>1, BecomeOthers DEF InsertRow, Types
    <3> QED BY <1>0, <1>7, <2>1, <3>1, CanWriteMeansNoOther, ShapeOfOthers DEF InsertRow
  <2> QED BY <1>7, <2>1, ShapeInsertRow
<1>8. ASSUME NEW s \in Sessions, Locked(s), NEW t \in Sessions
      PROVE  Shape(t)'
  <2>1. CASE t # s
    BY <1>0, <1>8, <2>1, BecomeOthers, ShapeOfOthers DEF Locked
  <2>2. CASE t = s
    <3>1. pending[s].moves = <<>> /\ pending[s].rows = <<>>
      BY <1>0, <1>8, OnlyWriterHasWritten DEF Locked, CanWrite
    <3>2. session'[s].pc = "idle" /\ pending' = pending
      BY <1>0, <1>8, BecomeOthers, StateKinds DEF Locked
    <3> QED BY <2>2, <3>1, <3>2 DEF Shape
  <2> QED BY <2>1, <2>2
<1>9. ASSUME NEW s \in Sessions, Commit(s), NEW t \in Sessions
      PROVE  Shape(t)'
  <2>1. CASE t # s
    <3>1. session'[t] = session[t] /\ pending'[t] = pending[t]
      BY <1>0, <1>9, <2>1, BecomeOthers, ReleaseOthers DEF Commit
    <3>2. pending[t].moves # <<>> => transactions' = transactions
      <4> SUFFICES ASSUME pending[t].moves # <<>> PROVE transactions' = transactions
        OBVIOUS
      <4>1. writer = t
        BY <1>0 DEF Shape
      <4>2. pending[s].moves = <<>>
        BY <1>0, <2>1, <4>1, OnlyWriterHasWritten
      <4> QED BY <1>0, <1>9, <4>2, CommitOfNoMoves
    <3> QED BY <1>0, <1>9, <2>1, <3>1, <3>2, ReleaseKeepsWriter, ShapeOfOthers DEF Commit
  <2>2. CASE t = s
    BY <1>0, <1>9, <2>2, ShapeReleased, StateKinds DEF Commit
  <2> QED BY <2>1, <2>2
<1>10. ASSUME NEW s \in Sessions, Rollback(s), NEW t \in Sessions
       PROVE  Shape(t)'
  <2>1. CASE t # s
    BY <1>0, <1>10, <2>1, BecomeOthers, ReleaseOthers, ReleaseKeepsWriter, ShapeOfOthers DEF Rollback
  <2>2. CASE t = s
    BY <1>0, <1>10, <2>2, ShapeReleased, StateKinds DEF Rollback
  <2> QED BY <2>1, <2>2
<1>11. ASSUME NEW s \in Sessions, Close(s), NEW t \in Sessions
       PROVE  Shape(t)'
  <2>1. CASE t # s
    BY <1>0, <1>11, <2>1, BecomeOthers, ReleaseOthers, ReleaseKeepsWriter, ShapeOfOthers DEF Close
  <2>2. CASE t = s
    BY <1>0, <1>11, <2>2, ShapeReleased, StateKinds DEF Close
  <2> QED BY <2>1, <2>2
<1> QED BY <1>1, <1>2, <1>3, <1>4, <1>5, <1>6, <1>7, <1>8, <1>9, <1>10, <1>11
        DEF DatabaseNext, Proceed

(* RecordedMoves counts a balance as HarbourDatabase does, and its rows    *)
(* and transactions are the same.                                          *)
LEMMA SameBalance == \A rows, l : Recorded!Balance(rows, l) = Balance(rows, l)
BY DEF Balance, Recorded!Balance, Changes, Recorded!Changes, Total, Recorded!Total,
       Sums, Recorded!Sums

LEMMA SameRows ==
    /\ \A c, l, a : Recorded!MoveOf(c, l, a) = MoveOf(c, l, a)
    /\ \A l, a, b : Recorded!Moved(l, a, b) = Moved(l, a, b)
    /\ \A e : Recorded!Noted(e) = Noted(e)
BY DEF MoveOf, Recorded!MoveOf, Moved, Recorded!Moved, Noted, Recorded!Noted, Event, Recorded!Event

(* The columns of rows, as the refinement mapping takes them.              *)
ColumnsOf(rows) == [i \in DOMAIN rows |-> rows[i].columns]
Trail == [c \in Cases |-> ColumnsOf(audit_log[c])]

(* What sequences of columns are, element by element.                      *)
LEMMA ColumnsProps ==
    ASSUME NEW R, NEW C, \A x \in R : x.columns \in C, NEW rows \in Seq(R)
    PROVE  ColumnsOf(rows) \in Seq(C) /\ Len(ColumnsOf(rows)) = Len(rows)
           /\ \A i \in 1 .. Len(rows) : ColumnsOf(rows)[i] = rows[i].columns
<1>1. DOMAIN rows = 1 .. Len(rows) /\ Len(rows) \in Nat
  OBVIOUS
<1>2. \A i \in 1 .. Len(rows) : rows[i].columns \in C
  OBVIOUS
<1>3. ColumnsOf(rows) = [i \in 1 .. Len(rows) |-> rows[i].columns]
  BY <1>1 DEF ColumnsOf
<1> HIDE DEF ColumnsOf
<1> QED BY <1>1, <1>2, <1>3, IsASeq

LEMMA ColumnsOfConcat ==
    ASSUME NEW R, NEW C, \A x \in R : x.columns \in C, NEW rows \in Seq(R), NEW more \in Seq(R)
    PROVE  ColumnsOf(rows \o more) = ColumnsOf(rows) \o ColumnsOf(more)
<1> DEFINE all == rows \o more
           s == ColumnsOf(rows)
           t == ColumnsOf(more)
<1>1. /\ all \in Seq(R) /\ Len(all) = Len(rows) + Len(more)
      /\ \A i \in 1 .. Len(all) : all[i] = IF i <= Len(rows) THEN rows[i] ELSE more[i - Len(rows)]
  BY ConcatProperties
<1>2. /\ s \in Seq(C) /\ Len(s) = Len(rows)
      /\ \A i \in 1 .. Len(rows) : s[i] = rows[i].columns
  BY ColumnsProps
<1>3. /\ t \in Seq(C) /\ Len(t) = Len(more)
      /\ \A i \in 1 .. Len(more) : t[i] = more[i].columns
  BY ColumnsProps
<1>4. /\ ColumnsOf(all) \in Seq(C) /\ Len(ColumnsOf(all)) = Len(all)
      /\ \A i \in 1 .. Len(all) : ColumnsOf(all)[i] = all[i].columns
  BY <1>1, ColumnsProps
<1> HIDE DEF s, t, all
<1>5. s \in Seq(C) /\ t \in Seq(C)
  BY <1>2, <1>3
<1>6. /\ s \o t \in Seq(C) /\ Len(s \o t) = Len(s) + Len(t)
      /\ \A i \in 1 .. Len(s) + Len(t) : (s \o t)[i] = IF i <= Len(s) THEN s[i] ELSE t[i - Len(s)]
  BY <1>5, ConcatProperties
<1>7. Len(s) = Len(rows) /\ Len(t) = Len(more)
  BY <1>2, <1>3
<1>8. ASSUME NEW i \in 1 .. Len(all) PROVE ColumnsOf(all)[i] = (s \o t)[i]
  <2>0. /\ Len(rows) \in Nat /\ Len(more) \in Nat /\ Len(all) = Len(rows) + Len(more)
        /\ i \in Int /\ 1 <= i /\ i <= Len(all)
    BY <1>1
  <2>1. CASE i <= Len(rows)
    <3>1. i \in 1 .. Len(rows)
      BY <2>0, <2>1
    <3> QED BY <1>1, <1>2, <1>4, <1>6, <1>7, <2>1, <3>1
  <2>2. CASE ~(i <= Len(rows))
    <3>1. i - Len(rows) \in 1 .. Len(more)
      BY <2>0, <2>2
    <3> QED BY <1>1, <1>3, <1>4, <1>6, <1>7, <2>2, <3>1
  <2> QED BY <2>1, <2>2
<1>9. ColumnsOf(all) = s \o t
  BY <1>1, <1>4, <1>8, <1>6, <1>7, SeqEqual
<1> QED BY <1>9 DEF all, s, t

LEMMA ColumnsOfRows ==
    /\ \A r \in Rows : ColumnsOf(<<r>>) = <<r.columns>>
    /\ \A r, q \in Rows : ColumnsOf(<<r, q>>) = <<r.columns, q.columns>>
BY DEF ColumnsOf

(* The steps of RecordedMoves, of the mapped trail.                        *)
LEMMA MoveMaps ==
    ASSUME NEW c \in Cases, NEW l \in Loans, NEW a \in Amounts,
           transactions' = Append(transactions, MoveOf(c, l, a)),
           Trail' = [Trail EXCEPT ![c] = Append(Trail[c], Moved(l, a, Balance(transactions', l)))]
    PROVE  Recorded!Move(c, l, a)
BY SameBalance, SameRows DEF Recorded!Move, Trail, ColumnsOf

LEMMA NoteMaps ==
    ASSUME NEW c \in Cases, NEW notes, transactions' = transactions,
           Trail' = [Trail EXCEPT ![c] = Trail[c] \o notes]
    PROVE  Recorded!Note(c, notes)
BY DEF Recorded!Note, Trail, ColumnsOf

(* A commit adds the columns of the session's rows to its case's trail.    *)
LEMMA CommitTrail ==
    ASSUME Types, NEW s \in Sessions, Commit(s)
    PROVE  /\ Trail' = [Trail EXCEPT ![Serves[s]] = Trail[Serves[s]] \o ColumnsOf(pending[s].rows)]
           /\ Trail[Serves[s]] \in Seq(RowColumns)
<1>1. /\ Serves[s] \in Cases
      /\ audit_log[Serves[s]] \in Seq(Rows) /\ pending[s].rows \in Seq(Rows)
  BY SeenTypes DEF Types, Writes
<1>2. \A x \in Rows : x.columns \in RowColumns
  BY DEF Rows
<1>3. ColumnsOf(audit_log[Serves[s]] \o pending[s].rows)
          = ColumnsOf(audit_log[Serves[s]]) \o ColumnsOf(pending[s].rows)
  BY <1>1, <1>2, ColumnsOfConcat
<1>4. audit_log' = [audit_log EXCEPT ![Serves[s]] = audit_log[Serves[s]] \o pending[s].rows]
  BY DEF Commit, SeenRows
<1>5. /\ audit_log'[Serves[s]] = audit_log[Serves[s]] \o pending[s].rows
      /\ \A c \in Cases \ {Serves[s]} : audit_log'[c] = audit_log[c]
  BY <1>1, <1>4 DEF Types
<1>6. Trail' = [c \in Cases |-> ColumnsOf(audit_log'[c])]
  BY DEF Trail, ColumnsOf
<1>7. Trail[Serves[s]] = ColumnsOf(audit_log[Serves[s]])
  BY <1>1 DEF Trail
<1>8. Trail' = [Trail EXCEPT ![Serves[s]] = Trail[Serves[s]] \o ColumnsOf(pending[s].rows)]
  BY <1>1, <1>3, <1>5, <1>6, <1>7 DEF Trail
<1>9. Trail[Serves[s]] \in Seq(RowColumns)
  BY <1>1, <1>2, <1>7, ColumnsProps
<1> QED BY <1>8, <1>9

(* A commit is one move of money with its row, one note, or two.           *)
LEMMA CommitMaps ==
    ASSUME ShapeInv, NEW s \in Sessions, Commit(s)
    PROVE  Recorded!Next
<1>1. Types /\ Serves[s] \in Cases /\ IsWhole(s)
  BY StateKinds, SeenTypes DEF ShapeInv, Shape, Commit
<1>2. transactions \in Seq(Moves) /\ transactions' = transactions \o pending[s].moves
  BY <1>1 DEF Types, Commit, SeenMoves
<1> DEFINE c == Serves[s]
<1>3. CASE \E r \in Rows : pending[s].rows = <<r>> /\ IsMove(s, pending[s].moves, r.columns)
  <2>1. PICK r \in Rows : pending[s].rows = <<r>> /\ IsMove(s, pending[s].moves, r.columns)
    BY <1>3
  <2>2. PICK l \in Loans, a \in Amounts :
            /\ pending[s].moves = <<MoveOf(c, l, a)>>
            /\ r.columns = Moved(l, a, Balance(transactions', l))
    BY <1>2, <2>1 DEF IsMove
  <2>3. MoveOf(c, l, a) \in Moves
    BY <1>1, MoveTypes
  <2>4. transactions' = Append(transactions, MoveOf(c, l, a))
    BY <1>2, <2>2, <2>3, AppendIsConcat
  <2>5. ColumnsOf(pending[s].rows) = <<r.columns>> /\ r.columns \in RowColumns
    BY <2>1, ColumnsOfRows DEF Rows
  <2>6. Trail[c] \o <<r.columns>> = Append(Trail[c], r.columns)
    BY <1>1, <2>5, CommitTrail, AppendIsConcat
  <2>7. Trail' = [Trail EXCEPT ![c] = Append(Trail[c], Moved(l, a, Balance(transactions', l)))]
    BY <1>1, <2>2, <2>5, <2>6, CommitTrail
  <2>8. Recorded!Move(c, l, a)
    BY <1>1, <2>4, <2>7, MoveMaps
  <2> QED BY <1>1, <2>8 DEF Recorded!Next
<1>4. CASE /\ pending[s].moves = <<>>
           /\ \E r \in Rows : pending[s].rows = <<r>> /\ IsNote(r.columns)
  <2>1. PICK r \in Rows, e \in Events : pending[s].rows = <<r>> /\ r.columns = Noted(e)
    BY <1>4 DEF IsNote
  <2>2. transactions' = transactions
    BY <1>1, <1>4, CommitOfNoMoves
  <2>3. ColumnsOf(pending[s].rows) = <<Noted(e)>>
    BY <2>1, ColumnsOfRows
  <2>4. Recorded!Note(c, <<Noted(e)>>)
    BY <1>1, <2>2, <2>3, CommitTrail, NoteMaps
  <2> QED BY <1>1, <2>4, SameRows DEF Recorded!Next
<1>5. CASE /\ pending[s].moves = <<>>
           /\ \E r, q \in Rows : /\ pending[s].rows = <<r, q>>
                                 /\ IsNote(r.columns) /\ IsNote(q.columns)
  <2>1. PICK r \in Rows, q \in Rows, e \in Events, f \in Events :
            pending[s].rows = <<r, q>> /\ r.columns = Noted(e) /\ q.columns = Noted(f)
    BY <1>5 DEF IsNote
  <2>2. transactions' = transactions
    BY <1>1, <1>5, CommitOfNoMoves
  <2>3. ColumnsOf(pending[s].rows) = <<Noted(e), Noted(f)>>
    BY <2>1, ColumnsOfRows
  <2>4. Recorded!Note(c, <<Noted(e), Noted(f)>>)
    BY <1>1, <2>2, <2>3, CommitTrail, NoteMaps
  <2> QED BY <1>1, <2>4, SameRows DEF Recorded!Next
<1> QED BY <1>1, <1>3, <1>4, <1>5 DEF IsWhole

LEMMA InitMaps == DatabaseInit => Recorded!Init
<1> SUFFICES ASSUME DatabaseInit PROVE Recorded!Init
  OBVIOUS
<1>1. \A c \in Cases : audit_log[c] = <<>>
  BY DEF DatabaseInit
<1>2. ColumnsOf(<<>>) = <<>>
  BY DEF ColumnsOf
<1>3. \A c \in Cases : ColumnsOf(audit_log[c]) = <<>>
  BY <1>1, <1>2
<1>4. Trail = [c \in Cases |-> <<>>]
  BY <1>3 DEF Trail
<1> QED BY <1>4 DEF DatabaseInit, Recorded!Init, Trail, ColumnsOf

(* Every other step leaves what is committed.                              *)
LEMMA StepMaps == ShapeInv /\ [DatabaseNext]_dbVars => [Recorded!Next]_(Recorded!vars)
<1> SUFFICES ASSUME ShapeInv, [DatabaseNext]_dbVars
             PROVE  Recorded!Next \/ UNCHANGED <<transactions, audit_log>>
  BY DEF Recorded!vars
<1>1. CASE \E s \in Sessions : Commit(s)
  BY <1>1, CommitMaps
<1>2. CASE \E s \in Sessions : ReadBalance(s) \/ SelectLastHash(s) \/ InsertRow(s) \/ Locked(s)
  BY <1>2 DEF ReadBalance, SelectLastHash, InsertRow, Locked
<1>3. CASE \E s \in Sessions : \/ \E l \in Loans, a \in Amounts : InsertMove(s, l, a)
                               \/ \E e \in Events : Record(s, e)
                               \/ \E l \in Loans : Quote(s, l)
  BY <1>3 DEF InsertMove, Record, Quote
<1>4. CASE \E s \in Sessions : Rollback(s) \/ Close(s)
  BY <1>4 DEF Rollback, Close
<1>5. CASE UNCHANGED dbVars
  BY <1>5 DEF dbVars
<1> QED BY <1>1, <1>2, <1>3, <1>4, <1>5 DEF DatabaseNext, Proceed

(* The statements of transaction(), append_audit and the money tools       *)
(* implement one atomic step per commit, with the balance in the row the   *)
(* true one at the commit, whatever other connections do in between.       *)
THEOREM TransactionsAreSteps == DatabaseSpec => ImplementsRecordedMoves
<1> QED BY InitShape, StepShape, InitMaps, StepMaps, PTL
        DEF DatabaseSpec, ImplementsRecordedMoves, Recorded!Spec

-----------------------------------------------------------------------------
(* What verify_audit_chain finds.  A hash is longer than the one it was    *)
(* computed from, and tells the row it was computed with, if the row is of *)
(* the kind append_audit writes.                                           *)

LEMMA HashesTell ==
    ASSUME NEW h \in RowHashes, NEW x \in RowColumns, NEW u \in RowTimes,
           NEW y \in RowColumns, NEW v \in RowTimes
    PROVE  /\ hash_row(h, x, u) = hash_row(h, y, v) => x = y /\ u = v
           /\ hash_row(h, x, u) \in RowHashes
           /\ Len(hash_row(h, x, u)) = Len(h) + 1 /\ Len(h) \in Nat
<1>1. hash_row(h, x, u) = Append(h, TextOf(x, u)) /\ hash_row(h, y, v) = Append(h, TextOf(y, v))
  BY DEF hash_row, TextOf
<1>2. TextOf(x, u) \in Seq(Pieces) /\ TextOf(y, v) \in Seq(Pieces)
  BY TextTells
<1>3. hash_row(h, x, u) = hash_row(h, y, v) => TextOf(x, u) = TextOf(y, v)
  <2> DEFINE g == TextOf(x, u)
             g2 == TextOf(y, v)
  <2>1. g \in Seq(Pieces) /\ g2 \in Seq(Pieces) /\ h \in Seq(Seq(Pieces))
    BY <1>2 DEF RowHashes
  <2> HIDE DEF g, g2
  <2>2. Append(h, g) = Append(h, g2) => g = g2
    BY <2>1, AppendInjective
  <2> QED BY <1>1, <2>2 DEF g, g2
<1>4. /\ hash_row(h, x, u) \in RowHashes
      /\ Len(hash_row(h, x, u)) = Len(h) + 1 /\ Len(h) \in Nat
  BY <1>1, <1>2, AppendProperties, LenProperties DEF RowHashes
<1> QED BY <1>3, <1>4, TextTells

(* The links of a trail that verifies.                                     *)
LEMMA LinkedRows ==
    ASSUME NEW rows \in Seq(Rows), verify_audit_chain(rows), NEW i \in DOMAIN rows
    PROVE  /\ rows[i] \in Rows
           /\ rows[i].columns \in RowColumns /\ rows[i].created_at \in RowTimes
           /\ rows[i].prev_hash \in RowHashes /\ rows[i].hash \in RowHashes
           /\ rows[i].hash = hash_row(rows[i].prev_hash, rows[i].columns, rows[i].created_at)
           /\ rows[i].prev_hash = (IF i = 1 THEN GENESIS_HASH ELSE rows[i - 1].hash)
           /\ Len(rows[i].hash) = Len(rows[i].prev_hash) + 1 /\ Len(rows[i].prev_hash) \in Nat
<1>1. rows[i] \in Rows
  OBVIOUS
<1>2. /\ rows[i].columns \in RowColumns /\ rows[i].created_at \in RowTimes
      /\ rows[i].prev_hash \in RowHashes /\ rows[i].hash \in RowHashes
  BY <1>1 DEF Rows
<1>3. /\ rows[i].hash = hash_row(rows[i].prev_hash, rows[i].columns, rows[i].created_at)
      /\ rows[i].prev_hash = (IF i = 1 THEN GENESIS_HASH ELSE rows[i - 1].hash)
  BY DEF verify_audit_chain
<1> QED BY <1>1, <1>2, <1>3, HashesTell

LEMMA RewrittenIsFound ==
    ASSUME NEW rows \in Seq(Rows), verify_audit_chain(rows), NEW i \in DOMAIN rows,
           NEW x \in RowColumns, NEW u \in RowTimes,
           x # rows[i].columns \/ u # rows[i].created_at
    PROVE  ~verify_audit_chain(WrittenOver(rows, i, x, u))
<1> DEFINE other == WrittenOver(rows, i, x, u)
<1>1. /\ i \in DOMAIN other
      /\ other[i] = [columns |-> x, created_at |-> u,
                     prev_hash |-> rows[i].prev_hash, hash |-> rows[i].hash]
  BY DEF WrittenOver
<1>2. i \in DOMAIN other
  BY <1>1
<1>3. /\ other[i].columns = x /\ other[i].created_at = u
      /\ other[i].prev_hash = rows[i].prev_hash /\ other[i].hash = rows[i].hash
  BY <1>1
<1> HIDE DEF other
<1>4. verify_audit_chain(other) => rows[i].hash = hash_row(rows[i].prev_hash, x, u)
  BY <1>2, <1>3 DEF verify_audit_chain
<1> QED BY <1>4, LinkedRows, HashesTell DEF other

LEMMA SwappedIsFound ==
    ASSUME NEW rows \in Seq(Rows), verify_audit_chain(rows), NEW i \in DOMAIN rows, i < Len(rows)
    PROVE  ~verify_audit_chain(Swapped(rows, i))
<1> DEFINE other == Swapped(rows, i)
<1>1. i + 1 \in DOMAIN rows /\ i + 1 # 1 /\ (i + 1) - 1 = i /\ i # i + 1
  OBVIOUS
<1>2. other[i] = rows[i + 1] /\ other[i + 1] = rows[i] /\ DOMAIN other = DOMAIN rows
  BY <1>1 DEF Swapped
<1> HIDE DEF other
<1>3. verify_audit_chain(other) => rows[i].prev_hash = rows[i + 1].hash
  BY <1>1, <1>2 DEF verify_audit_chain
<1>4. rows[i + 1].prev_hash = rows[i].hash
  BY <1>1, LinkedRows
<1>5. /\ Len(rows[i].hash) = Len(rows[i].prev_hash) + 1 /\ Len(rows[i].prev_hash) \in Nat
      /\ Len(rows[i + 1].hash) = Len(rows[i + 1].prev_hash) + 1
  BY <1>1, LinkedRows
<1> QED BY <1>3, <1>4, <1>5 DEF other

LEMMA WithoutIsFound ==
    ASSUME NEW rows \in Seq(Rows), verify_audit_chain(rows), NEW i \in DOMAIN rows, i < Len(rows)
    PROVE  ~verify_audit_chain(Without(rows, i))
<1> DEFINE front == SubSeq(rows, 1, i - 1)
           back == SubSeq(rows, i + 1, Len(rows))
           other == front \o back
<1>1. /\ Len(rows) \in Nat /\ DOMAIN rows = 1 .. Len(rows) /\ i \in Nat /\ i >= 1
      /\ i + 1 \in DOMAIN rows /\ i + 1 # 1 /\ (i + 1) - 1 = i
  BY LenProperties
<1>2. /\ front \in Seq(Rows) /\ Len(front) = i - 1 /\ \A n \in 1 .. i - 1 : front[n] = rows[n]
      /\ back \in Seq(Rows) /\ Len(back) = Len(rows) - i /\ back[1] = rows[i + 1]
  BY <1>1
<1> HIDE DEF front, back
<1>3. /\ DOMAIN other = 1 .. Len(rows) - 1
      /\ other[i] = rows[i + 1]
      /\ i # 1 => other[i - 1] = rows[i - 1]
  <2>1. Len(other) = Len(front) + Len(back) /\ other \in Seq(Rows)
    BY <1>2, ConcatProperties
  <2>0. /\ Len(front) = i - 1 /\ Len(back) = Len(rows) - i
        /\ i \in Nat /\ i >= 1 /\ Len(rows) \in Nat /\ i < Len(rows)
    BY <1>1, <1>2
  <2>2. DOMAIN other = 1 .. Len(rows) - 1
    <3>1. DOMAIN other = 1 .. Len(other)
      BY <2>1, LenProperties
    <3>2. Len(other) = Len(rows) - 1
      BY <2>0, <2>1
    <3> QED BY <3>1, <3>2
  <2>3. \A n \in 1 .. Len(front) + Len(back) :
            other[n] = IF n <= Len(front) THEN front[n] ELSE back[n - Len(front)]
    BY <1>2, ConcatProperties
  <2>4. other[i] = rows[i + 1]
    <3>1. i \in 1 .. Len(front) + Len(back) /\ ~(i <= Len(front)) /\ i - Len(front) = 1
      BY <2>0
    <3> HIDE DEF other
    <3> QED BY <1>2, <2>3, <3>1
  <2>5. ASSUME i # 1
        PROVE  other[i - 1] = rows[i - 1]
    <3>1. i - 1 \in 1 .. Len(front) + Len(back) /\ i - 1 <= Len(front) /\ i - 1 \in 1 .. i - 1
      BY <2>0, <2>5
    <3> HIDE DEF other
    <3> QED BY <1>2, <2>3, <3>1
  <2> QED BY <2>2, <2>4, <2>5
<1> HIDE DEF other
<1>4. i \in DOMAIN other
  BY <1>1, <1>3
<1>5. verify_audit_chain(other) =>
          rows[i + 1].prev_hash = (IF i = 1 THEN GENESIS_HASH ELSE rows[i - 1].hash)
  BY <1>3, <1>4 DEF verify_audit_chain
<1>6. /\ rows[i].prev_hash = (IF i = 1 THEN GENESIS_HASH ELSE rows[i - 1].hash)
      /\ Len(rows[i].hash) = Len(rows[i].prev_hash) + 1 /\ Len(rows[i].prev_hash) \in Nat
  BY LinkedRows
<1>7. rows[i + 1].prev_hash = rows[i].hash
  BY <1>1, LinkedRows
<1>8. ~verify_audit_chain(other)
  BY <1>5, <1>6, <1>7
<1> QED BY <1>8 DEF other, front, back, Without

(* verify_audit_chain finds every row of a trail that was replaced, in its *)
(* columns or its time, by what append_audit might have written there,     *)
(* that changed places with the next or, except at the end, was taken out. *)
(* That the text hashed tells where its pieces end is what it rests on:    *)
(* CorruptedRowIsFound is what fails of rows append_audit cannot write.    *)
THEOREM TamperingIsFound == DatabaseSpec => []ChangesAreFound
<1>1. ChainInv => ChangesAreFound
  <2> SUFFICES ASSUME ChainInv, NEW c \in Cases, NEW i \in DOMAIN audit_log[c]
               PROVE  /\ \A rows \in Rewritten(audit_log[c], i) : ~verify_audit_chain(rows)
                      /\ i < Len(audit_log[c]) =>
                             /\ ~verify_audit_chain(Swapped(audit_log[c], i))
                             /\ ~verify_audit_chain(Without(audit_log[c], i))
    BY DEF ChangesAreFound
  <2>1. audit_log[c] \in Seq(Rows) /\ verify_audit_chain(audit_log[c])
    BY DEF ChainInv, Types
  <2>2. ASSUME NEW rows \in Rewritten(audit_log[c], i)
        PROVE  ~verify_audit_chain(rows)
    <3>1. PICK x \in {audit_log[c][j].columns : j \in DOMAIN audit_log[c]} \cup {Noted(e) : e \in Events}
                     \cup {Moved(l, a, 0) : l \in Loans, a \in Amounts},
               t \in Times :
              /\ rows = WrittenOver(audit_log[c], i, x, Stamp(t))
              /\ rows # audit_log[c]
      <4>1. /\ rows # audit_log[c]
            /\ rows \in {WrittenOver(audit_log[c], i, x, Stamp(t)) :
                            x \in {audit_log[c][j].columns : j \in DOMAIN audit_log[c]}
                                  \cup {Noted(e) : e \in Events}
                                  \cup {Moved(l, a, 0) : l \in Loans, a \in Amounts},
                            t \in Times}
        BY <2>2 DEF Rewritten
      <4> QED BY <4>1
    <3>2. x \in RowColumns
      <4>1. \A j \in DOMAIN audit_log[c] : audit_log[c][j].columns \in RowColumns
        BY <2>1, LinkedRows
      <4>2. 0 \in Int
        OBVIOUS
      <4> QED BY <3>1, <4>1, <4>2, ColumnTypes
    <3>3. Stamp(t) \in RowTimes
      BY ColumnTypes
    <3>4. x # audit_log[c][i].columns \/ Stamp(t) # audit_log[c][i].created_at
      <4> SUFFICES ASSUME x = audit_log[c][i].columns, Stamp(t) = audit_log[c][i].created_at
                   PROVE  rows = audit_log[c]
        BY <3>1
      <4>1. audit_log[c][i] \in [columns : RowColumns, created_at : RowTimes,
                                 prev_hash : RowHashes, hash : RowHashes]
        <5>1. audit_log[c][i] \in Rows
          BY <2>1
        <5> QED BY <5>1 DEF Rows
      <4>2. audit_log[c][i] = [columns |-> x, created_at |-> Stamp(t),
                               prev_hash |-> audit_log[c][i].prev_hash, hash |-> audit_log[c][i].hash]
        BY <4>1
      <4> QED BY <2>1, <3>1, <4>2 DEF WrittenOver
    <3> DEFINE u == Stamp(t)
    <3>5. /\ rows = WrittenOver(audit_log[c], i, x, u)
          /\ u \in RowTimes /\ (x # audit_log[c][i].columns \/ u # audit_log[c][i].created_at)
      BY <3>1, <3>3, <3>4
    <3> HIDE DEF u
    <3>6. ~verify_audit_chain(WrittenOver(audit_log[c], i, x, u))
      BY <2>1, <3>2, <3>5, RewrittenIsFound
    <3> QED BY <3>5, <3>6
  <2> QED BY <2>1, <2>2, SwappedIsFound, WithoutIsFound
<1> QED BY InitChain, StepChain, <1>1, PTL DEF DatabaseSpec

-----------------------------------------------------------------------------
(* Quotes.  While a session is idle it sees what is committed, so what a   *)
(* quote says is the payoff of the first rows of transactions, which no    *)
(* step takes back.                                                        *)

Quotes == [loan : Loans \cup {None}, payoff : Nat, at : Nat]

(* The balance after the first n transactions.                             *)
BalanceAt(l, n) == Sums(Changes(transactions, l))[n]

QuoteOK(s) ==
    /\ quoted[s].at <= Len(transactions)
    /\ quoted[s].payoff > 0 =>
           /\ quoted[s].loan \in Loans
           /\ quoted[s].payoff = Payoff(BalanceAt(quoted[s].loan, quoted[s].at))

QuoteInv ==
    /\ writer \in Sessions \cup {None}
    /\ quoted \in [Sessions -> Quotes]
    /\ calls \in Nat
    /\ \A s \in Sessions : QuoteOK(s)

LEMMA PayoffType == \A b \in Int : Payoff(b) \in Nat
BY DEF Payoff, PROCESSING_FEE_CENTS

(* The balance of the first rows, while rows are only added.               *)
LEMMA BalanceOfFirst ==
    ASSUME NEW rows \in Seq(Moves), NEW more \in Seq(Moves), NEW n \in Nat,
           n <= Len(rows), n <= Len(more), \A i \in 1 .. n : more[i] = rows[i], NEW l
    PROVE  Sums(Changes(more, l))[n] = Sums(Changes(rows, l))[n]
<1> DEFINE v == Changes(more, l)
           w == Changes(rows, l)
<1>1. /\ v \in Seq(Int) /\ w \in Seq(Int) /\ n <= Len(v) /\ n <= Len(w)
      /\ Len(rows) \in Nat /\ Len(more) \in Nat
  BY ChangesType, LenProperties
<1>2. ASSUME NEW i \in 1 .. n
      PROVE  v[i] = w[i]
  <2>1. i \in 1 .. Len(rows) /\ i \in 1 .. Len(more) /\ more[i] = rows[i]
    BY <1>1
  <2>2. v[i] = (IF more[i].loan = l THEN more[i].amount ELSE 0)
    BY <2>1, ChangesType
  <2>3. w[i] = (IF rows[i].loan = l THEN rows[i].amount ELSE 0)
    BY <2>1, ChangesType
  <2> QED BY <2>1, <2>2, <2>3
<1> HIDE DEF v, w
<1>3. Sums(v)[n] = Sums(w)[n]
  BY <1>1, <1>2, SameSums
<1> QED BY <1>3 DEF v, w

LEMMA BalanceIsSum ==
    ASSUME NEW rows \in Seq(Moves), NEW l
    PROVE  Balance(rows, l) = Sums(Changes(rows, l))[Len(rows)]
BY ChangesType DEF Balance, Total

(* No step takes back a transaction.                                       *)
LEMMA MovesStay ==
    ASSUME Types, [DatabaseNext]_dbVars
    PROVE  /\ transactions' \in Seq(Moves) /\ Len(transactions) <= Len(transactions')
           /\ Len(transactions) \in Nat /\ Len(transactions') \in Nat
           /\ \A i \in 1 .. Len(transactions) : transactions'[i] = transactions[i]
<1>1. transactions \in Seq(Moves) /\ transactions' \in Seq(Moves)
  BY StepTypes DEF Types
<1>2. UNCHANGED transactions \/ \E s \in Sessions : Commit(s)
  BY DEF DatabaseNext, dbVars, Proceed, InsertMove, Record, Quote, ReadBalance, SelectLastHash, InsertRow,
         Locked, Rollback, Close
<1>3. ASSUME NEW s \in Sessions, Commit(s)
      PROVE  /\ Len(transactions) <= Len(transactions')
             /\ \A i \in 1 .. Len(transactions) : transactions'[i] = transactions[i]
  <2> DEFINE own == pending[s].moves
  <2>1. own \in Seq(Moves) /\ transactions' = transactions \o own
    BY <1>3, SeenTypes DEF Commit, SeenMoves, Writes
  <2> HIDE DEF own
  <2>2. Len(transactions') = Len(transactions) + Len(own) /\ Len(own) \in Nat /\ Len(transactions) \in Nat
    BY <1>1, <2>1, ConcatProperties, LenProperties
  <2>3. \A i \in 1 .. Len(transactions) + Len(own) :
            transactions'[i] = IF i <= Len(transactions) THEN transactions[i] ELSE own[i - Len(transactions)]
    BY <1>1, <2>1, ConcatProperties
  <2> QED BY <2>2, <2>3
<1>4. UNCHANGED transactions =>
          /\ Len(transactions) <= Len(transactions')
          /\ \A i \in 1 .. Len(transactions) : transactions'[i] = transactions[i]
  BY <1>1, LenProperties
<1>5. Len(transactions) \in Nat /\ Len(transactions') \in Nat
  BY <1>1, LenProperties
<1> QED BY <1>1, <1>2, <1>3, <1>4, <1>5

LEMMA InitQuotes == DatabaseInit => QuoteInv
<1> SUFFICES ASSUME DatabaseInit PROVE QuoteInv
  OBVIOUS
<1>1. NoQuote \in Quotes /\ NoQuote.at = 0 /\ NoQuote.payoff = 0
  BY DEF NoQuote, Quotes
<1>2. Len(transactions) \in Nat
  BY InitTypes, LenProperties DEF Types
<1>3. \A s \in Sessions : quoted[s] = NoQuote
  BY DEF DatabaseInit
<1>4. \A s \in Sessions : QuoteOK(s)
  BY <1>1, <1>2, <1>3 DEF QuoteOK
<1>5. quoted \in [Sessions -> Quotes]
  BY <1>1 DEF DatabaseInit
<1> QED BY <1>4, <1>5 DEF DatabaseInit, QuoteInv

(* A quote, once given, stays true of the rows it was computed from.       *)
LEMMA QuoteStays ==
    ASSUME Types, QuoteInv, [DatabaseNext]_dbVars, NEW s \in Sessions, quoted'[s] = quoted[s]
    PROVE  QuoteOK(s)'
<1> DEFINE at == quoted[s].at
           l == quoted[s].loan
<1>1. at \in Nat /\ at <= Len(transactions)
  BY DEF QuoteInv, Quotes, QuoteOK
<1>2. /\ transactions \in Seq(Moves) /\ transactions' \in Seq(Moves)
      /\ at <= Len(transactions')
      /\ \A i \in 1 .. at : transactions'[i] = transactions[i]
  BY <1>1, MovesStay DEF Types
<1> HIDE DEF at, l
<1>3. Sums(Changes(transactions', l))[at] = Sums(Changes(transactions, l))[at]
  BY <1>1, <1>2, BalanceOfFirst
<1>4. BalanceAt(l, at)' = BalanceAt(l, at)
  BY <1>3 DEF BalanceAt, l, at
<1> QED BY <1>2, <1>4 DEF QuoteInv, QuoteOK, l, at

LEMMA QuoteIsTrue ==
    ASSUME ShapeInv, NEW s \in Sessions, NEW l \in Loans, Quote(s, l)
    PROVE  /\ quoted' = [quoted EXCEPT ![s] = [loan |-> l, payoff |-> Payoff(BalanceAt(l, Len(transactions))),
                                               at |-> Len(transactions)]]
           /\ Payoff(BalanceAt(l, Len(transactions))) \in Nat
<1>1. Types /\ transactions \in Seq(Moves)
  BY DEF ShapeInv, Types
<1>2. pending[s].moves = <<>>
  BY StateKinds DEF Quote, ShapeInv, Shape
<1>3. SeenMoves(s) = transactions
  BY <1>1, <1>2, ConcatEmptySeq DEF SeenMoves
<1>4. loan_balance_cents(s, l) = BalanceAt(l, Len(transactions))
  BY <1>1, <1>3, BalanceIsSum DEF loan_balance_cents, BalanceAt
<1>5. loan_balance_cents(s, l) \in Int
  BY <1>1, SeenTypes
<1> QED BY <1>4, <1>5, PayoffType DEF Quote

LEMMA StepQuotes == ShapeInv /\ QuoteInv /\ [DatabaseNext]_dbVars => QuoteInv'
<1> SUFFICES ASSUME ShapeInv, QuoteInv, [DatabaseNext]_dbVars PROVE QuoteInv'
  OBVIOUS
<1>0. Types
  BY DEF ShapeInv
<1>1. writer' \in Sessions \cup {None} /\ calls' \in Nat
  BY DEF QuoteInv, DatabaseNext, dbVars, Proceed, InsertMove, Record, Quote, ReadBalance, SelectLastHash,
         InsertRow, Locked, Commit, Rollback, Close, Release, NewCall
<1>2. CASE UNCHANGED quoted
  <2>1. \A s \in Sessions : QuoteOK(s)'
    BY <1>0, <1>2, QuoteStays
  <2> QED BY <1>1, <1>2, <2>1 DEF QuoteInv
<1>3. ASSUME NEW s \in Sessions, NEW l \in Loans, Quote(s, l)
      PROVE  QuoteInv'
  <2> DEFINE new == [loan |-> l, payoff |-> Payoff(BalanceAt(l, Len(transactions))),
                     at |-> Len(transactions)]
  <2>1. quoted' = [quoted EXCEPT ![s] = new] /\ new.payoff \in Nat
    BY <1>3, QuoteIsTrue
  <2>2. transactions' = transactions /\ Len(transactions) \in Nat
    BY <1>0, <1>3, LenProperties DEF Quote, Types
  <2>3. new \in Quotes
    BY <2>1, <2>2 DEF Quotes
  <2>4. quoted' \in [Sessions -> Quotes]
    <3> HIDE DEF new
    <3> QED BY <2>1, <2>3 DEF QuoteInv
  <2>5. QuoteOK(s)'
    <3>1. quoted'[s] = new
      <4> HIDE DEF new
      <4> QED BY <2>1 DEF QuoteInv
    <3> QED BY <2>2, <3>1 DEF QuoteOK, BalanceAt
  <2>6. ASSUME NEW t \in Sessions \ {s}
        PROVE  QuoteOK(t)'
    <3>1. quoted'[t] = quoted[t]
      <4> HIDE DEF new
      <4> QED BY <2>1 DEF QuoteInv
    <3> QED BY <1>0, <3>1, QuoteStays
  <2> QED BY <1>1, <2>4, <2>5, <2>6 DEF QuoteInv
<1>4. UNCHANGED quoted \/ \E s \in Sessions, l \in Loans : Quote(s, l)
  BY DEF DatabaseNext, dbVars, Proceed, InsertMove, Record, ReadBalance, SelectLastHash,
         InsertRow, Locked, Commit, Rollback, Close
<1> QED BY <1>2, <1>3, <1>4

LEMMA QuoteInvIsInvariant == DatabaseSpec => [](ShapeInv /\ QuoteInv)
<1> QED BY InitShape, StepShape, InitQuotes, StepQuotes, PTL DEF DatabaseSpec

LEMMA ColumnsTyped ==
    /\ RowColumns \subseteq Columns /\ RowTimes \subseteq Seq([time : Times])
    /\ Rows \subseteq AuditRows /\ SessionStates \subseteq States
<1>1. RowColumns \subseteq Columns
  <2> SUFFICES ASSUME NEW x \in RowColumns
               PROVE  x \in Columns
    OBVIOUS
  <2>1. PICK p \in [event : EventNames], q \in Payloads :
            x = [event_type |-> <<p>>, payload_json |-> <<q>>]
    BY OnePieceEach
  <2>2. <<p>> \in Seq([event : EventNames]) /\ <<q>> \in Seq(Payloads)
    OBVIOUS
  <2> QED BY <2>1, <2>2 DEF Columns
<1>2. RowTimes \subseteq Seq([time : Times])
  <2> SUFFICES ASSUME NEW u \in RowTimes
               PROVE  u \in Seq([time : Times])
    OBVIOUS
  <2>1. PICK r \in [time : Times] : u = <<r>>
    BY OnePieceEach
  <2> QED BY <2>1
<1>3. Rows \subseteq AuditRows
  BY <1>1, <1>2 DEF Rows, AuditRows, RowHashes, Hashes
<1>4. SessionStates \subseteq States
  <2>1. SelectingStates \subseteq [pc : {"selecting"}, columns : Columns]
    BY <1>1 DEF SelectingStates
  <2>2. InsertingStates \subseteq [pc : {"inserting"}, columns : Columns, prev : Hashes]
    BY <1>1 DEF InsertingStates, RowHashes, Hashes
  <2> QED BY <2>1, <2>2 DEF SessionStates, PlainStates, ReportingStates, States
<1> QED BY <1>1, <1>2, <1>3, <1>4

(* Every statement leaves every table, connection and quote its type: all  *)
(* balances are integers, and no payoff is negative.                       *)
THEOREM DatabaseTypeCorrect == DatabaseSpec => []DatabaseTypeOK
<1>1. ShapeInv /\ QuoteInv => DatabaseTypeOK
  <2> SUFFICES ASSUME Types, QuoteInv
               PROVE  DatabaseTypeOK
    BY DEF ShapeInv
  <2>1. Seq(Rows) \subseteq Seq(AuditRows)
    BY ColumnsTyped, SeqMonotonic
  <2>2. audit_log \in [Cases -> Seq(AuditRows)]
    BY <2>1 DEF Types
  <2>3. pending \in [Sessions -> [moves : Seq(Moves), rows : Seq(AuditRows)]]
    BY <2>1 DEF Types, Writes
  <2>4. session \in [Sessions -> States]
    BY ColumnsTyped DEF Types
  <2> QED BY <2>2, <2>3, <2>4 DEF Types, QuoteInv, Quotes, DatabaseTypeOK
<1> QED BY QuoteInvIsInvariant, <1>1, PTL

(* What others move after a quote adds no more to the balance than their   *)
(* charges.                                                                *)
LEMMA RaisedTypes ==
    ASSUME NEW rows \in Seq(Moves), NEW l
    PROVE  /\ Charges(rows, l) \in Seq(Int) /\ Len(Charges(rows, l)) = Len(rows)
           /\ Raised(rows, l) = Sums(Charges(rows, l))[Len(rows)]
           /\ \A n \in 1 .. Len(rows) :
                  /\ Changes(rows, l)[n] <= Charges(rows, l)[n]
                  /\ rows[n].amount < 0 => Charges(rows, l)[n] = 0
<1> DEFINE up == Charges(rows, l)
           N == Len(rows)
<1>1. N \in Nat /\ DOMAIN rows = 1 .. N
  BY LenProperties
<1>2. ASSUME NEW n \in 1 .. N
      PROVE  rows[n].amount \in Int
  <2>1. rows[n] \in Moves
    BY <1>2, ElementOfSeq
  <2> QED BY <2>1 DEF Moves
<1>3. up \in [1 .. N -> Int]
  BY <1>1, <1>2 DEF Charges
<1>4. \A n \in 1 .. N : up[n] = (IF rows[n].loan = l /\ rows[n].amount > 0 THEN rows[n].amount ELSE 0)
  BY <1>1 DEF Charges
<1>5. \A n \in 1 .. N : Changes(rows, l)[n] <= up[n] /\ (rows[n].amount < 0 => up[n] = 0)
  <2> SUFFICES ASSUME NEW n \in 1 .. N
               PROVE  Changes(rows, l)[n] <= up[n] /\ (rows[n].amount < 0 => up[n] = 0)
    OBVIOUS
  <2>1. Changes(rows, l)[n] = (IF rows[n].loan = l THEN rows[n].amount ELSE 0)
    BY ChangesType
  <2>2. up[n] = (IF rows[n].loan = l /\ rows[n].amount > 0 THEN rows[n].amount ELSE 0)
    BY <1>4
  <2> HIDE DEF up, N
  <2> QED BY <1>2, <2>1, <2>2
<1>6. Raised(rows, l) = Total(up)
  BY DEF Raised
<1> HIDE DEF up
<1>7. up \in Seq(Int) /\ Len(up) = N
  <2> HIDE DEF N
  <2> QED BY <1>1, <1>3
<1>8. Raised(rows, l) = Sums(up)[N]
  BY <1>6, <1>7 DEF Total
<1> QED BY <1>5, <1>7, <1>8 DEF up

LEMMA GrowthIsRaised ==
    ASSUME Types, NEW l, NEW at \in Nat, NEW n \in at + 1 .. Len(transactions), transactions[n].amount < 0,
           transactions[n].loan = l
    PROVE  /\ Raised(SubSeq(transactions, at + 1, n), l) \in Int
           /\ BalanceAt(l, n) \in Int /\ BalanceAt(l, at) \in Int /\ transactions[n].amount \in Int
           /\ BalanceAt(l, n) <=
                  (BalanceAt(l, at) + Raised(SubSeq(transactions, at + 1, n), l)) + transactions[n].amount
<1> DEFINE after == SubSeq(transactions, at + 1, n)
           up == Charges(after, l)
           w == Changes(transactions, l)
           m == (n - at) - 1
           a == transactions[n].amount
<1>1. /\ transactions \in Seq(Moves) /\ Len(transactions) \in Nat
      /\ m \in Nat /\ (at + m) + 1 = n /\ (at + m) + 1 <= Len(transactions) /\ at + m \in Nat
      /\ n \in 1 .. Len(transactions) /\ at + m <= Len(transactions)
      /\ at \in 0 .. Len(transactions)
      /\ at + (m + 1) = n /\ m + 1 \in 1 .. m + 1 /\ m <= m + 1
      /\ \A k \in 1 .. m + 1 : at + k \in 1 .. Len(transactions)
  BY LenProperties DEF Types
<1>2. /\ after \in Seq(Moves) /\ Len(after) = m + 1
      /\ \A k \in 1 .. m + 1 : after[k] = transactions[at + k]
  <2>1. \A i \in at + 1 .. n : transactions[i] \in Moves
    <3>1. \A i \in at + 1 .. n : i \in 1 .. Len(transactions)
      BY <1>1
    <3> QED BY <1>1, <3>1, ElementOfSeq
  <2>2. /\ after \in Seq(Moves) /\ Len(after) = IF at + 1 <= n THEN n - (at + 1) + 1 ELSE 0
        /\ \A i \in 1 .. n - (at + 1) + 1 : after[i] = transactions[at + 1 + i - 1]
    BY <1>1, <2>1, SubSeqProperties
  <2>3. n - (at + 1) + 1 = m + 1 /\ at + 1 <= n /\ \A i \in 1 .. m + 1 : at + 1 + i - 1 = at + i
    BY <1>1
  <2> HIDE DEF after, m
  <2> QED BY <2>2, <2>3
<1> HIDE DEF after, m
<1>3. /\ up \in Seq(Int) /\ Len(up) = m + 1 /\ Raised(after, l) = Sums(up)[m + 1]
      /\ \A k \in 1 .. m + 1 : Changes(after, l)[k] <= up[k] /\ (after[k].amount < 0 => up[k] = 0)
  BY <1>2, RaisedTypes
<1> HIDE DEF up
<1>4. w \in Seq(Int) /\ Len(w) = Len(transactions) /\ w[n] = a
  BY <1>1, ChangesType
<1>5. ASSUME NEW k \in 1 .. m
      PROVE  w[at + k] <= up[k]
  <2>1. k \in 1 .. m + 1 /\ at + k \in 1 .. Len(transactions)
    BY <1>1
  <2>2. w[at + k] = (IF transactions[at + k].loan = l THEN transactions[at + k].amount ELSE 0)
    BY <1>1, <2>1, ChangesType
  <2>3. Changes(after, l)[k] = (IF after[k].loan = l THEN after[k].amount ELSE 0)
    BY <1>2, <2>1, ChangesType
  <2>4. after[k] = transactions[at + k] /\ Changes(after, l)[k] <= up[k]
    BY <1>2, <1>3, <2>1
  <2> QED BY <2>2, <2>3, <2>4
<1> HIDE DEF w
<1>6. Sums(w)[at + m] <= Sums(w)[at] + Sums(up)[m]
  <2>1. at + m <= Len(w) /\ m <= Len(up)
    BY <1>1, <1>3, <1>4
  <2> QED BY <1>1, <1>3, <1>4, <1>5, <2>1, SumsGrowLess
<1>7. /\ Sums(w)[n] = Sums(w)[at + m] + a
      /\ Sums(w)[n] \in Int /\ Sums(w)[at + m] \in Int /\ a \in Int
  <2>1. (at + m) + 1 <= Len(w)
    BY <1>1, <1>4
  <2> HIDE DEF a
  <2>2. /\ Sums(w)[(at + m) + 1] = Sums(w)[at + m] + w[(at + m) + 1]
        /\ Sums(w)[at + m] \in Int /\ Sums(w)[(at + m) + 1] \in Int /\ w[(at + m) + 1] \in Int
    BY <1>1, <1>4, <2>1, SumsStep
  <2> QED BY <1>1, <1>4, <2>2
<1>8. /\ Sums(up)[m + 1] = Sums(up)[m] + up[m + 1]
      /\ Sums(up)[m] \in Int /\ Sums(up)[m + 1] \in Int /\ up[m + 1] \in Int
  <2>1. m + 1 <= Len(up)
    BY <1>1, <1>3
  <2> QED BY <1>1, <1>3, <2>1, SumsStep
<1>9. up[m + 1] = 0
  <2>1. after[m + 1] = transactions[n]
    BY <1>1, <1>2
  <2> QED BY <1>1, <1>3, <2>1
<1>10. Sums(w)[at] \in Int
  BY <1>1, <1>4, SumsSteps
<1> HIDE DEF a
<1>11. Sums(w)[n] <= (Sums(w)[at] + Sums(up)[m + 1]) + a
  <2> DEFINE x == Sums(w)[at + m]
             y == Sums(w)[at]
             z == Sums(up)[m]
  <2>1. x <= y + z /\ x \in Int /\ y \in Int /\ z \in Int /\ a \in Int
    BY <1>6, <1>7, <1>8, <1>10
  <2>2. Sums(w)[n] = x + a /\ Sums(up)[m + 1] = z + 0
    BY <1>7, <1>8, <1>9
  <2> HIDE DEF x, y, z
  <2>3. x + a <= (y + (z + 0)) + a
    BY <2>1
  <2> QED BY <2>2, <2>3 DEF y
<1> QED BY <1>3, <1>7, <1>8, <1>10, <1>11 DEF after, w, a, BalanceAt

(* The customer who pays what was quoted is quits, whatever others pay,    *)
(* and refund or charge within the fee, in between.                        *)
THEOREM QuotesSettle == DatabaseSpec => []PaidQuoteSettles
<1>1. ShapeInv /\ QuoteInv => PaidQuoteSettles
  <2> SUFFICES ASSUME Types, QuoteInv, NEW s \in Sessions,
                      NEW n \in quoted[s].at + 1 .. Len(transactions), NEW l, l = quoted[s].loan,
                      transactions[n].loan = l, quoted[s].payoff > 0,
                      transactions[n].amount = -quoted[s].payoff,
                      Raised(SubSeq(transactions, quoted[s].at + 1, n), l) <= PROCESSING_FEE_CENTS
               PROVE  Payoff(Balance(SubSeq(transactions, 1, n), l)) = 0
    BY DEF ShapeInv, PaidQuoteSettles
  <2> DEFINE at == quoted[s].at
             paid == quoted[s].payoff
             raised == Raised(SubSeq(transactions, at + 1, n), l)
  <2>1. at \in Nat /\ paid \in Nat /\ paid = Payoff(BalanceAt(l, at))
    BY DEF QuoteInv, Quotes, QuoteOK
  <2>2. transactions[n].amount < 0
    BY <2>1
  <2>3. /\ raised \in Int /\ BalanceAt(l, n) \in Int /\ BalanceAt(l, at) \in Int
        /\ BalanceAt(l, n) <= (BalanceAt(l, at) + raised) + transactions[n].amount
    BY <2>1, <2>2, GrowthIsRaised
  <2>4. Balance(SubSeq(transactions, 1, n), l) = BalanceAt(l, n)
    <3> DEFINE first == SubSeq(transactions, 1, n)
    <3>1. n \in Nat /\ n <= Len(transactions) /\ transactions \in Seq(Moves)
      BY <2>1, LenProperties DEF Types
    <3>2. first \in Seq(Moves) /\ Len(first) = n /\ \A i \in 1 .. n : first[i] = transactions[i]
      BY <3>1
    <3> HIDE DEF first
    <3>3. Sums(Changes(first, l))[n] = Sums(Changes(transactions, l))[n]
      BY <3>1, <3>2, BalanceOfFirst
    <3> QED BY <3>2, <3>3, BalanceIsSum DEF first, BalanceAt
  <2> HIDE DEF at, paid, raised
  <2>5. BalanceAt(l, n) <= 0
    <3>1. BalanceAt(l, at) > 0 /\ paid = BalanceAt(l, at) + 2500 /\ raised <= 2500
      BY <2>1, <2>3 DEF Payoff, PROCESSING_FEE_CENTS, paid, raised, at
    <3>2. transactions[n].amount = -paid
      BY DEF paid
    <3> QED BY <2>1, <2>3, <3>1, <3>2
  <2> QED BY <2>3, <2>4, <2>5 DEF Payoff
<1> QED BY QuoteInvIsInvariant, <1>1, PTL
=============================================================================
