# A verification of Harbour

Harbour is a loan-servicing support agent: a customer's message becomes a case,
a planner (a language model, or the scripted stand-in) proposes one action at a
time, and fourteen policy-gated tools act on a SQLite database that keeps the
loans, the money and a per-case audit trail.  This directory holds TLA+ modules
of the parts that decide what may happen to a customer's account, TLC
configurations that check them on small instances, and proofs that the TLA+
proof system checks for every value of the constants.  Paths below are relative
to the root of the repository.

## 1. The system

| Component | State it keeps | Operations | Correct when |
|---|---|---|---|
| database (`src/harbour/db.py`) | seven tables; the audit rows are hash-chained per case | `init_db`, `transaction`, `append_audit`, `verify_audit_chain`, `loan_balance_cents` | what belongs together is committed together; chains never fork |
| gate and auditing (`policy_engine.py`) | none | `require_identity_verified`, `audited`, the refund limit, the pinned model ids | no gated body runs unverified; every call leaves its rows |
| identity (`tools/identity.py`) | `identity_verifications` | `verify_identity` | a result, good or bad, is on record |
| money (`tools/money.py`) | `transactions` | `post_payment`, `issue_refund`, `apply_fee` | money and trail agree; refunds within policy |
| disputes (`tools/disputes.py`) | `disputes` | `raise_dispute`, `resolve_dispute` | a dispute is settled by a recorded settlement, once |
| operations (`tools/ops.py`) | `loans.status`, `cases.status` | `freeze_account`, `escalate_to_human`, `send_customer_message` | a freeze is on record and is not lifted |
| reads (`tools/reads.py`, `models.py`) | none | five lookups | they change nothing but the trail |
| agent loop (`agent.py`) | the steps of a case, its result | `handle_case`, `_escalate` | it stays in the approved set, fails closed, ends, and answers what the database says |
| model client (`llm_client.py`) | none | `classify_intent`, `PinnedModelClient`, `ScriptedPlannerClient` | an unapproved identity never reaches the loop |
| service (`service.py`) | the database file | start-up, `POST /case`, `GET /case/{id}` | each request has its own connection; every case is answered |
| tracing, ledger (`tracing.py`, `ledger.py`) | two append-only files | `span`, `record` | cost and outcome can be attributed to a case |
| gateway regressions (`gateway_regressions.py`) | none | four clients that corrupt the planner's answers | none of them moves money |
| detectors (`detectors/`) | none | four scans of a database, two of the ledger | they find nothing on what the code wrote |
| evaluation (`eval_support.py`, `eval/`, `cases/`) | a fresh database per case | `build_cases`, `run_one_case` | every published case reaches its goal state |
| seed, contract check, scripts | files | start-up and offline | see `PROJECT.json`, where each is listed with its status |

How they interact.  `post_case` runs on a worker thread with a database
connection of its own, inserts and commits the case row and calls `handle_case`
on the same connection.  `handle_case` classifies the message once, then loops:
the planner proposes, the loop checks the proposal against the approved actions,
`call_tool` runs the tool, whose decorators read and write the same connection,
and the loop commits.  Two cases meet only in the database: in the loans, the
transactions and the disputes.  SQLite has one writer at a time; a writer that
waits longer than the busy timeout gets `OperationalError: database is locked`.

What is hard here:

- *Interleaving.*  `resolve_dispute` and `freeze_account` read a row that other
  sessions write, and open their transaction afterwards.
- *Partial failure.*  A tool commits its own rows; the `tool_call` row that
  `audited` writes is committed later by the loop.  A crash or a locked database
  can fall between the two.
- *Ordering.*  Rows of one call come from three modules, and four early returns
  of `handle_case` bypass its last update.
- *An untrusted planner.*  It may propose any action with any arguments under
  any identity, and its arguments win over the case's own.
- *Bounds.*  The refund limit, the refunds of a case, the step budget.
- *Statements between commits.*  `append_audit` reads the last hash in one
  statement and links to it in another; a balance is put on record before the
  transaction it belongs to commits; one lock serves every writer.
- *Starts, crashes and retries.*  A start checks for the database file, creates it
  and seeds it in three steps; a client that missed its answer posts again.

`PROJECT.json` lists each of these under "hazards", at its line, with the
properties that cover it.

## 2. The modules

```
HarbourPolicy        constants and pure functions of the policy
  ServicingContract  what Harbour promises about an account
  HarbourTools       the tools over the database, any caller   implements ServicingContract
    HarbourAgent     handle_case over any planner              implements HarbourTools
      Detectors          the detectors over the evidence of any state
      ScriptedPlanner    what the default planner answers
        GatewayRegressions  handle_case over that planner and over four faulty
                            gateways                           implements HarbourAgent
          Evaluation     the published cases and their goal states
    HarbourTools_proofs, HarbourToolsAccounts_proofs           theorems
      HarbourAgent_proofs  of the loop and the detectors       theorems
        GatewayRegressions_proofs  of the planner and the gateways  theorems
          Evaluation_proofs  of the published cases            theorems
Totals               the balance of a loan
  Totals_proofs      what a sum is, of rows however many       lemmas
  MoneyRows          rows as balances and chains depend on them
    RecordedMoves    what one commit does
    HarbourDatabase  connections, statement by statement       implements RecordedMoves
      HarbourDatabase_proofs                                   theorems
HarbourService       starts, crashes, requests and clients
  HarbourService_proofs                                        theorems
MCTools, MCAgent, MCGateway, MCDatabase, MCService   instances for TLC
```

Three views of one system, joined where they meet: `HarbourTools` takes a commit
as one step, and `HarbourDatabase` shows that the statements below a commit
implement such a step (`RecordedMoves`); `HarbourService` takes the handling of a
case as three steps (its row, its first audit row, its final status), which are
`OpenCase`, `CallerRow` and `CompleteCase` or `Escalate` of the views above.

**HarbourPolicy** has the tools and the gated ones (`tools/__init__.py`), the
refund limit, the pinned model ids and the intent rules.  A message is the set
of rules whose pattern it contains, since that is all `classify_intent` can see;
the first rule in order wins.

**ServicingContract** is the abstract specification: who is verified in which
case, the money moved, the disputes and the frozen loans.  It has no database,
no trail, no sessions and no failures.  It says what may happen, and no more
than the code ensures: a dispute may be settled twice, a freeze stops nothing.

**HarbourTools** is the tool layer.  Correspondence:

| TLA+ | code |
|---|---|
| `loans`, `transactions`, `disputes`, `identity_verifications`, `cases` | the committed tables; a transaction's or dispute's id is its position |
| `audit_log[c]` | the committed audit rows of case c in `seq` order, with the payload the properties read |
| `call[c]` | what the session of case c is doing between two commits: "idle" with the outcome of its last call, "logging" (the effect is committed, its `tool_call` row is not), "resolving" and "freezing" (values read before a transaction), "closed" (no connection) |
| `verify_identity` ... `read_tool` | the tools of the same names, with their decorators |
| `require_identity_verified` | the refusal of the five gated tools |
| `Denied`, `Raised`, `Committed`, `Logged` | the four ways a call ends: `PolicyDenied`; any other exception; a transaction committed with the `tool_call` row to come; only audit rows to write |
| `LogCall` | `audited`'s row after a success, with the caller's commit |
| `DatabaseLocked` | a write that waits too long |
| `OpenCase`, `CallerRow`, `CompleteCase`, `SessionEnds` | what `post_case` and `handle_case` do to the database themselves; a session's end, a crash included |

A step is what one commit makes visible.  Uncommitted rows are seen by nobody
else and vanish with the connection, so the statements before a commit are one
step with it.  The gate, the refund count and the trail of a case concern rows
of that case alone, which no other session writes, so reading them earlier than
the commit makes no difference; the two reads that other sessions can make stale
are steps of their own.  The caller of the tools is free to ask for anything, in
any order; whether credentials match, and whether an id a read tool is given
exists, are free choices.

**HarbourAgent** adds `handle_case`: `pc` is where it is, `proposed` is the
planner's action, `history` the list it shares with `CaseResult.steps`,
`result` the status and reason, and `ledger`, `modelCalls` and `spans` what the
two exports receive.  Its database steps *are* actions of HarbourTools.  The
planner is any planner: `PlanStep` and `RejectModel` choose the identity and the
action, and `CallTool` the arguments.  `CaseFails` is every way a thread of
`post_case` ends without an answer: an exception outside the tool call, or the
end of the process.  A span is recorded with its name and exported status; spans
that close while an exception leaves `handle_case`, and the span around the
whole case, are not recorded.

**ScriptedPlanner** has the planner Harbour runs by default.  It is a function of
the case's row (`intake`: customer, loan, how the claimed credentials compare,
the message and its amount, all but the message optional and none of them checked) and
of the steps taken.  Each intent has a `Script`, the steps it takes one after
the other until each has succeeded; a failed verification ends it.
`CallWith` is `_with_case_context` and the call: the tool gets the case's own
loan, customer and credentials unless the answer names others, and raises where
one is missing.  What a row leaves out is "none", which stands for NULL and is no
key of a table (`NullAssumption`).

**GatewayRegressions** is the state machine: the loop of `HarbourAgent` with
`client` answering, the scripted planner or one of the four faults in front of it,
behind the pin.  An answer depends on nothing that changes between the model
call and the tool call, so `response` is written once and used for both.

**Detectors** has the four detectors that read trails, transactions and the
ledger, each as the set of what it finds.  The repository runs them on the
databases of finished cases; here they are asked in every state, so also between
two steps of a case and after a crash.

**Totals** is `loan_balance_cents`: the sum of what each transaction changes on a
loan, as a recursive function.  `HarbourDatabase` and `Evaluation` use it, and
`Totals_proofs` is all the proofs need of it.

**Evaluation** has the published cases as records: what the case's rule finds in its
message, the amount, how the credentials compare, and the goal state.  `actual`
is what `run_one_case` observes after `handle_case`, whose database is its own
(`HasItsOwnDatabase`: `init_db(path, fresh=True)`).  A published case is one of
the intake rows `GatewayRegressions` starts from.  The check that
`gateway_regression_runner.py` makes of the faulty clients, that no money moved,
is part of `GatewayFailsSafe`.

**HarbourDatabase** takes the database apart.

| TLA+ | code |
|---|---|
| `transactions`, `audit_log` | the committed rows; `audit_log[c]` with hashes |
| `pending[s]`, `writer` | what a connection has written and not committed; who holds SQLite's write lock, from the first INSERT to the end of the transaction |
| `session[s]` | which statement comes next, with the values read so far |
| `InsertMove`, `ReadBalance`, `SelectLastHash`, `InsertRow`, `Commit` | the statements of a money tool, in order |
| `Record` | the start of any other audit row; a denial writes two before the commit |
| `Locked`, `Rollback`, `Close` | an INSERT past the busy timeout; an exception inside `transaction()`; the end of the connection, a crash included |
| `Quote` | `calculate_payoff` |

Python's `sqlite3` opens a transaction at the first INSERT, not at a SELECT, so the
last hash of a row that is not of money is read outside it.  A hash is the sequence
of the texts hashed into it, one for each row: equal only for equal input, as
SHA-256 is taken to be.  The text of a row is its columns one after the other with
nothing between them (`_hash_row`): columns are sequences of pieces, and `hash_row`
concatenates them, so two rows may have the same text.  What `append_audit` writes
is a name, a JSON object and a number, and from these the text tells where each
begins; of other rows it need not, which is what `CorruptedRowIsFound` shows.  The
hash of the previous row has a fixed length, and the case id is the same in every
row of a chain.  Every session has a case of its own (`OneConnectionPerCase`), as
`post_case` makes a new case id and a new connection for each request;
`ChainsVerify` needs it.  Sessions that post a row without money and one with, many
times over, stand for any of the tools.

**HarbourService** has the processes that run `create_app`.  `files` is every
database file there ever was and `path` the one that is found at `DB_PATH`: a file
that `init_db(fresh=True)` unlinks lives on for those who have it open.
`CheckFileExists` ... `CommitSeed` are the steps of a start: between looking for
the file (`LookAgain`) and unlinking it (`UnlinkFile`) another start may have done
so, and a start fails when it waits too long for a lock (`LockedOut`).  `GetConn`
... `FinishCase` are those of a POST, each of which may fail (`FailCase`), and
`Post`, `Answer`, `Miss`, `FindNobody` a client that posts its case, up to
`MaxTries` times, and does not wait for a process that serves.  `Crash` ends a
process with its threads anywhere.  Two history variables, `interrupted` and
`overlapped`, say whether a crash has hit a start after the file was there, and
whether two starts were under way at once.

## 3. What the runs check

Passing runs:

| Run | Instance | Properties |
|---|---|---|
| `tools_money` | 2 cases, 2 customers with a loan each, the money tools, the ungated tools and the caller's rows, amounts 0, limit, limit + 1; 3 requests, 1 fault | `TypeOK`, `MoneyAfterOwnerVerified`, `TransactionsMatchAudit`, `RefundsWithinPolicy`, `UnloggedEffectsAreFailures`, `FrozenIffOnRecord`, `OverwrittenStatusIsOnRecord`, `ImplementsContract` |
| `tools_disputes` | 2 cases on one loan, verification and the dispute tools; 5 requests | `DisputesOnRecord`, `ImplementsContract` |
| `agent_one_case` | 1 case, 2 customers, 2 loans, every intent, any proposal, an approved and an unapproved identity, 3 steps, 1 fault | `AgentTypeOK`, `OnlyApprovedToolsRun`, `FailsClosed`, `AnswerMatchesRecord`, `HistoryMatchesTrail`, `CostIsContained`, `DetectorsFindNothing`, `EscalationIsFinal`, `EveryCaseIsAnswered` |
| `planner_and_gateway` | 1 case, every intake row over 2 customers, 2 loans, unknown and missing ones, right, wrong and missing credentials, amounts none, limit, limit + 1 and those published; 5 clients, 8 steps, 1 fault | `PlannerStaysInBudget`, `ResolvedCasesAreDone`, `GatewayFailsSafe`, `PublishedGoalsAreMet`, `ImplementsAgent` |
| `database` | 2 connections with a case each on one loan of $30; a payment of the first payoff and a smaller one, a charge of the fee's size and a larger one, rows without money, a clock of two times; 3 calls | `DatabaseTypeOK`, `ChainsVerify`, `ChangesAreFound`, `PaidQuoteSettles`, `LockIsReleased`, `ImplementsRecordedMoves` |
| `service` | 2 processes, 1 client with 2 tries, 2 crashes | `ServiceTypeOK`, `AnswersCanBeLookedUp`, `SeededUnlessInterrupted`, `StartsComeToServe` |

The properties in words:

- `MoneyAfterOwnerVerified`: on a trail, a `money_moved` row follows a successful
  verification of the loan's own customer in the same case.  (The repository's
  detector asks only for a verification of *some* customer.)
- `TransactionsMatchAudit`: the transactions and the `money_moved` rows are in
  one-to-one correspondence, in case, loan and amount.
- `RefundsWithinPolicy`: a case refunds a loan at most once, never above the
  limit, and only a loan whose owner it has verified.
- `UnloggedEffectsAreFailures`: an effect without its `tool_call` row is the
  trace of the call in flight, of the end of the session, or of a locked
  database, and of nothing else.
- `DisputesOnRecord`: every dispute was raised, and every settlement made, on
  record, in a case that had verified the owner of the disputed loan.
- `FrozenIffOnRecord`: a loan is charged off exactly when some trail has its
  freeze.
- `OverwrittenStatusIsOnRecord`: of all the freezes of a loan, in whatever cases
  and on however old a read, one status can be told that they overwrote; a human
  who walks the freeze back needs it.
- `ImplementsContract`: refinement, step by step.
- `OnlyApprovedToolsRun`: whatever the planner proposes, what ran was approved
  for the customer's message, or was the escalation; an account is frozen only if
  the message approves that, whether or not the call was logged.
- `FailsClosed`: nothing but the escalation follows a refusal or an error.
- `AnswerMatchesRecord`: the client is told what the database says; and the
  completion time, which four of the early returns never write, is set exactly
  for the three other reasons.  A case whose thread failed, which nothing takes up
  again, can be told from an answered one: it is neither resolved nor completed,
  and it is escalated only if its trail has the escalation.
- `HistoryMatchesTrail`: the steps reported and the `tool_call` rows agree.
- `CostIsContained`: the budget of model calls; and the ledger has every call, of
  approved models only, but for the one response that was rejected.
- `EscalationIsFinal`, `EveryCaseIsAnswered`: the status that is never turned back,
  and termination.

- `PlannerStaysInBudget`: the default planner never needs the loop's nets: it
  exhausts no budget, proposes nothing outside the approved set, and its identity is
  pinned.
- `ResolvedCasesAreDone`: whatever the gateway did, a case answered "resolved"
  has sent its message and had its one effect once, on its own loan, whose owner
  it had verified, and has frozen nothing; a case handed to a human by the planner
  has moved no money and raised no dispute.
- `GatewayFailsSafe`: under a fault no money moves at all; under the clean client
  what moves is the message's amount, on the case's own loan, for the customer
  who owns it and gave the right credentials.
- `ImplementsAgent`: the five clients are planners of `HarbourAgent`, so what its
  runs show of any planner holds of them.

- `DetectorsFindNothing`: the repository's own detectors are silent in every
  state, not only after finished cases.
- `PublishedGoalsAreMet`: every published case, run by the default planner on a
  database of its own, ends as its author said.
- `ChainsVerify`: every trail verifies at every moment.  `ChangesAreFound`: a row
  replaced by another that `append_audit` might have written, its time alone
  included, two neighbours swapped, or a row taken out that is not the last is
  found by `verify_audit_chain`.  (Rows cut off at the end leave a chain that
  verifies; nothing in the code stores its length.  A row whose columns are no
  longer a name, a JSON object and a number may verify too: `claim_corrupted_row`.)
- `PaidQuoteSettles`: who pays the payoff that was quoted owes nothing then, even
  if others moved money on the loan meanwhile, as long as these raised the balance
  by no more than the processing fee the quote includes.  (No row ever charges
  that fee; paying the quote leaves a credit.)
- `LockIsReleased`: a session that took the write lock gives it back.
- `ImplementsRecordedMoves`: a commit is one atomic move of money with the row
  that reports it and the true balance after it, or one or two other rows.
- `AnswersCanBeLookedUp`: after an answer, `GET /case` finds that case, with the
  status of the answer and a trail, through crashes, restarts and the late handlers
  of earlier tries.
- `SeededUnlessInterrupted`: a process that serves finds the schema and one seed.
  Both hold unless starts overlapped: `RUNBOOK.md:28` runs one process, and two
  starts at once can unlink each other's file.
- `StartsComeToServe`: starts that overlap do not all fail: as long as no process
  crashes, one of those that have begun comes to serve, although each may unlink
  another's file, find its own unlinked or seeded already, or wait for a lock in vain.

Each property is also run against a mutant of the code's model that breaks it
(`PROJECT.json`, "mutants"): a dropped condition of a query, a missing decorator,
a stale id, a loop that goes on after a refusal, a range one too long.

Where the repository says one thing and does another, a run states what it says
and TLC shows the behaviour that refutes it:

| Run | Said | Shown |
|---|---|---|
| `claim_identity_and_money` | `policy.md:37-40`: verification outcome and money row are one transaction | they are two, with a `tool_call` row between them |
| `claim_dispute_once` | `tests/test_tools.py:168-171`: a second resolution is denied | two sessions that read "open" both resolve (the test is sequential; no intent approves `resolve_dispute`, so the sessions are callers of the tools other than the loop) |
| `claim_one_refund` | `policy.md:49`: one refund per case | one per loan and case |
| `claim_corrupted_row` | `db.py:220-223`: a single corrupted row makes `verify_audit_chain` return False | the columns are hashed with nothing between them: with its event type moved into its payload, a row still verifies |
| `claim_error_spans` | `agent.py:182`, `agent.py:197` mark a span "error" | `tracing.py:86` exports it as "ok" |
| `claim_seeded_when_opened` | `RUNBOOK.md:33-34`: a fresh database is seeded the first time it is opened | a start that ends after `init_db` leaves a file no later start seeds |

Three texts are imprecise in ways the model shows without a run of their own.
`policy.md:86` says that every model call is logged to the ledger: a response with
an unapproved identity is not (`agent.py:127-138` returns first), and
`CostIsContained` says that nothing else is missing.  Of `policy_engine.py`, lines
163-167 say that a denied call is a `tool_call` row followed by the gate's
`policy_denied` row: in `require_identity_verified` and `Denied` the gate's row
comes first.  Line 156 says that every tool gets a `tool_call` row: `Raised` writes
none, and `UnloggedEffectsAreFailures` says which committed effects are left without
one.

### Bounds

`MaxRequests` bounds the calls of all sessions together and `MaxFaults` the locked
databases; ends of sessions are not bounded.  Three requests are enough for a
verification, a money call and one that must be refused, in one or two sessions;
five for two sessions that verify, and one that raises a dispute both resolve.  In
the agent's runs `MaxRequests` is large enough never to bind (the assumption
`EnoughRequestsAssumption`), and `MaxSteps` stands for `MAX_STEPS` = 8: three steps
are a verification, a gated call and one more, and enough for termination, since the
loop treats every step alike.  What another case can do to one that is handled is to
hold the lock, which is the fault, or to change a loan or a dispute, which the loop
does not look at: one case is enough for the agent.  `planner_and_gateway` runs with
the code's own eight, since whether the planner's scripts fit is the question there.
Loans are seeded "active" in the runs: no tool reads the status except to record it.
The two cases of a tool run are symmetric where a cfg says so, as neither the
specification nor the properties name a case.  Three calls are enough in `database`
for a quote, a move by another connection and the payment of the quote, and for two
connections that both want the lock while a third row is written.  Three calls are
also enough for a chain with rows before and after the one that is replaced, swapped
or taken out.  Two tries and two crashes are enough in `service` for a start that is
interrupted and a handler that outlives, or dies under, its client's patience.
Deadlock is not checked, because the system stops when every session is closed, and
because the bounds run out.

### Fairness

Fairness matters to liveness only.  `EveryCaseIsAnswered` assumes weak fairness
of each thread's own steps (`HandleCase`): the operating system schedules a
runnable thread, and the calls it makes return or raise.  `plan_step` is such a
call; the default planner is a local function.  Nothing is assumed of new
cases, locks or failures.  A case whose thread failed counts as ended: nothing
in the code takes it up again.  `LockIsReleased` assumes the same of a session
that has begun a call (`Proceed`): its next statement returns or raises, with no
fairness for rollbacks, closes or new calls.  `StartsComeToServe` assumes it of a
start that has begun (`Proceed`): its next call returns or raises.  Nothing in the
repository starts a process again or makes a client post, so neither is assumed: a
process that is down or whose start failed may stay so, and a crash ends what the
property asks for.

## 4. What is proved

`HarbourTools_proofs` proves, for any cases, customers, loans, owners, amounts,
callers and bounds, from the named assumptions of `HarbourTools` only:

- `TypeCorrect`: `Spec => []TypeOK`.  `TypeOK` is inductive.  The proof has a
  lemma for each kind of row and each action.
- `MoneyIsGated`: `Spec => []MoneyAfterOwnerVerified`.  The property alone is
  not inductive: the gate reads the table `identity_verifications`, the property
  the trail.  `MoneyInv` adds `VerifiedOnTrail`, that every successful
  verification in the table is on the trail of its case.  A lemma, `StepShape`,
  reduces the actions to three shapes for trails: `VerifyStep` (a verification
  and its row), `MoneyStep` (a row of money behind an open gate) and `QuietStep`
  (rows that are neither).  `QuietMoney`, `VerifyMoney` and `MovedMoney` show
  that each shape keeps `MoneyInv`.  `VerifiedInTable` is the converse of
  `VerifiedOnTrail`: a verification on a trail is in the table, so the gate opens
  to whoever was told he is verified.
- `RefundsAreLimited`: `Spec => []RefundsWithinPolicy`.  Inductive by itself:
  `MoneyStep` carries what `issue_refund` found before it moved the money.
- `MoneyIsOnRecord`: `Spec => []TransactionsMatchAudit`.  Inductive by itself:
  `OthersMatch` for rows that are not of money (`NoMoneyAppended`), and
  `MoneyMatches` for a transaction and its row, whose id is new on every trail
  because the rows already there name transactions that exist.

`HarbourToolsAccounts_proofs` proves the rest of what the tools promise, with
`MoneyInv` in hand.  Its lemma `StepEffect` says that every step of a session does
one of six things to the accounts: nothing, verify a customer, move money, raise,
settle or freeze.

- `DisputesAreOnRecord`: `Spec => []DisputesOnRecord`.  `ResolverMayTouch` carries
  what `resolve_dispute` has found from its SELECT to its UPDATE: the dispute exists
  and the case has verified the owner of its loan, whatever others did meanwhile.
- `FreezesAreOnRecord`: `Spec => []FrozenIffOnRecord`, inductive by itself.
- `FreezesCanBeWalkedBack`: `Spec => []OverwrittenStatusIsOnRecord`.  `FreezeInv` says
  of a session between its SELECT and its UPDATE what the status it has read was, and
  that it is stale only if the loan's freeze is already on record (`FreezerHasRead`).
- `ToolsKeepContract`: `Spec => ImplementsContract`.  Each of the six effects is a
  step of `ServicingContract` under the mapping, or a stutter; `ResolverMayTouch` is
  what lets a settlement map.
- `UnloggedAreFailures`: `Spec => []UnloggedEffectsAreFailures`.  `UnloggedOK` counts
  the effects without a `tool_call` row against the failures there were and the one
  call in flight.  A second decomposition, `StepTrace`, says what a step writes
  on a trail: an effect, its log, neither, or nothing because it is refused the
  lock, ends, or opens.

`HarbourAgent_proofs` proves of `handle_case`, with any planner, any messages, any
`MaxSteps` and any number of cases side by side:

- `AgentTypeCorrect`: the loop's types.  The lemma `LoopImplementsTools`, that a
  behaviour of the loop is one of the tools, brings over everything proved of the
  tools; it holds by the shape of the definitions, since every database step of the
  loop is an action of `HarbourTools`, and no run checks it.  `LoopInv` says where
  the session of a case can be at each point of the loop, so that a tool that
  returns is the one that was called.
- `DetectorsAreClean`: `AgentSpec => []DetectorsFindNothing`: each detector's
  question is answered by a theorem of the tools, brought over by
  `LoopImplementsTools`, or by `CostIsContained` for the models in the ledger.
- `CostsAreContained`: `CostOK` ties the model calls to the length of the history.
- `OnlyApprovedRun`: `ToolRowsApproved`, on the rows a call of a tool can write
  (`RowsOf`), with `TrailStep` for what a step of the loop does to a trail.
- `AnswersMatchRecords` and `EscalationsAreFinal`: `RecordOK` relates the status in
  `cases`, the escalation on the trail and the result in hand at each point of the
  loop; a case is escalated in the table exactly when its trail says so.
- `LoopFailsClosed`: `FailOK`: a refusal on the trail is either the answer the loop
  is about to read, or the loop has stopped without resolving.
- `HistoriesMatch`: `AgentSpec => []HistoryMatchesTrail`.  Trail and history are
  written at different steps, so they agree only with the step counted in that
  the tool has returned and the loop has not yet recorded (`Reported`).  `TellOK`
  says that the nth `tool_call` row is of the nth such step and that no row is
  missing, but for a step that raised, which is the last.

`GatewayRegressions_proofs` proves of the default planner and the four faulty
gateways, for any intake rows, amounts, failures and number of cases, with room for
the answers in the constants and more than the three steps of the longest script
(`ScriptFitsAssumption`; the code's `MAX_STEPS` is 8):

- `GatewayImplementsAgent`: `GatewaySpec => ImplementsAgent`, so every theorem above
  holds behind the five clients.  `GatewayInv` is what the rest needs: that an
  answer about to be acted upon is still what the client answers (`AnswerOK`), and
  that whoever was verified gave the right credentials in the row of his case, to a
  client that lets the planner ask for them (`VerificationOK`).
- `GatewayMovesNothingElse`: `GatewaySpec => []GatewayFailsSafe`.  `MoveOK` says of each
  transaction when it is made what the property says of it later: a gate that is
  open to a money tool is open to the customer of the case
  (`GateOpensForCustomer`), by `VerificationOK`, and the one fault that could get
  there names a loan that does not exist.
- `PlannerNeedsNoNet`: `GatewaySpec => []PlannerStaysInBudget`.  `ScriptOK` says that
  the history is a prefix of the script of the intent, all of it successful
  (`FollowsScript`), and that the next action is the next step, the hand-over or the
  end (`TakesStep`, `HandsOver`, `IsDone`).  It is stated of every client but the
  stripped one (`Straight`), because the next theorem needs it of them.
- `ResolvedMeansDone`: `GatewaySpec => []ResolvedCasesAreDone`.  `DoneOK` ties the
  steps in the history to the rows in the tables (`Effects`): one move if a money
  tool is among them, one dispute if `raise_dispute` is, the message's row if it was
  sent.  A step whose effect is committed and whose row is not counts as taken, as
  the case can then only go on, or fail.

`Evaluation_proofs` proves `PublishedAreMet`: `GatewaySpec => []PublishedGoalsAreMet`, for
any loan and owner of a published case.  Three invariants carry it.  `OutcomeInv`
says what may be found in the tables given the intents: a frozen loan needs a case
of fraud, a dispute one of dispute, and a move is a refund or a payment of the
amount asked.  `WellInv` says that a case nobody disturbs goes well: it is denied
only for a refund over the limit, and handed over only if its message was unclear,
its account is frozen, or its credentials were wrong (`Justified`); here
`VerifiedInTable` is what opens the gate (`GateIsOpen`).  `DoneInv` says what was done.
`FoundByIntent` puts them together into what `run_one_case` observes, given the
intent and the answer, and the proof ends with a look at each published case.

`HarbourDatabase_proofs` proves, for any connections that serve a case each, any
cases, loans, amounts, events, seed and number of calls:

- `TrailsVerify`: `DatabaseSpec => []ChainsVerify`.  Committed chains alone are
  not inductive.  `ChainInv` adds that what each connection *sees*, its
  uncommitted rows included, verifies, and that a hash it has read is still the
  last one it sees when it inserts; that one connection serves a case is what
  keeps the second part.  `AppendVerifies` is the step of the chain.
- `TamperingIsFound`: `DatabaseSpec => []ChangesAreFound`, from `ChainInv`: a row that
  was rewritten, swapped with the next, or taken out is at odds with its own hash or
  the hash its successor was chained to (`RewrittenIsFound`, `SwappedIsFound`,
  `WithoutIsFound`).  That two rows `append_audit` may have written have different
  texts is a lemma (`TextTells`) of the concatenation, not an assumption on hashes.
- `TransactionsAreSteps`: `DatabaseSpec => ImplementsRecordedMoves`.  `ShapeInv`
  says what a session has written at each statement: no rows without the lock,
  one move before its balance is read, and when it may commit, one move with the
  row of the balance it leaves, one note, or two.  A commit then maps to a step of
  `RecordedMoves` (`CommitMaps`) and every other step to a stutter (`StepMaps`).

- `DatabaseTypeCorrect`: `DatabaseSpec => []DatabaseTypeOK`.  The proofs above work
  with `Types`, in which a balance is the balance of some transactions; that it is
  an integer comes from `Totals_proofs`.
- `QuotesSettle`: `DatabaseSpec => []PaidQuoteSettles`.  `QuoteInv` says that a quote is
  the payoff of the balance after the transactions there were (`BalanceAt`), which
  later ones do not change.  Between two numbers of rows the balance grows by no
  more than the moves between them (`SumsGrowLess`), and paying takes off the rest.

`Totals_proofs` proves of sums of any length that they are integers (`TotalIsInt`),
what one more row adds (`TotalOfAppend`), that they depend on the rows alone
(`SameSums`), and that they grow less where every row adds less (`SumsGrowLess`).
This is induction over data, and it is done without an induction rule that takes
an operator: a set of naturals that is not empty has a least element (`WFMin` of
`WellFoundedInduction`), so a claim, given as the set it holds on, has no least
counterexample (`UpTo`).

`HarbourService_proofs` proves, for any processes, clients, tries and crashes:

- `ServiceTypeCorrect`: `Spec => []ServiceTypeOK`.  `Types` adds that whoever is past
  its connect has a file there was (`Placed`), and that the write lock lets one
  process seed a file, and only an unseeded one (`OneSeeding`).
- `StartsSeed`: `Spec => []SeededUnlessInterrupted`, from `Orderly` and `Seeded`.
  `Orderly` describes starts that do not overlap: one at a time, none while a
  process serves, and a file that stays at the path for as long as anybody has it.
- `AnswersStay`: `Spec => []AnswersCanBeLookedUp`, from `Orderly` and `Written`: what a
  handler has in hand is what its row says, and the row of a post that was answered
  is touched by nobody again, a late handler of an earlier try included.

The assumptions are named where the constants are declared, and TLC evaluates each
of them in a run.  Those that say more than what set a constant is from:
`UnknownAssumption` and `NullAssumption` (a wrong id and NULL are no keys),
`OneConnectionPerCase`, `EnoughRequestsAssumption` (the bound on requests never binds
the loop), `RogueAssumption` (the rolled snapshot is not pinned), `ScriptedAssumption`,
`ActionsAssumption` and `ArgumentsAssumption` (the any-planner of `HarbourAgent` can say
what the five clients say), `MessageAmountsAssumption` (a message names no negative
amount) and `ScriptFitsAssumption`.

Every invariant, action property and refinement of the passing runs is stated by a
theorem.  Only model-checked are the three liveness properties,
`EveryCaseIsAnswered`, `LockIsReleased` and `StartsComeToServe`: they rest on fairness,
and so on ENABLED, which is out of the prover's reach.  The runs that refute a
claim are TLC's by nature.

## 5. What is not modelled

- The wording of messages, rationales and reasons, token estimates, the
  arithmetic of costs in floating point and with it `detect_unattributed_cost`.
- The random rows of the seed: they stand as constants.  That the seed's keys are
  the same every time is modelled.
- The validation of request bodies, the shapes of responses and the latency that
  `contract_check/check.py` measures; the report files and exit codes of the offline
  scripts; `scripts/reproduce.sh`.
- SQLite itself: its write lock, snapshots and rollback are taken as documented.
  The `-wal` and `-shm` files that `init_db(fresh=True)` also unlinks, and a database
  file deleted by hand while the service runs, are not modelled.
- The ids, times and nesting of spans, and the span around a case.
- Case ids, transaction ids and dispute ids are fresh: collisions of UUIDs are not
  modelled.
- A freeze changes `loans.status`, and no tool reads it before money moves: the
  contract says no more than that.

What could be proved next: what is left of `PublishedAreMet` under a locked database
(the goal state, or an escalation that moved nothing more), and that the lists of
`Detectors` are complete, a detector finding what a faulty trail holds and not only
nothing on a good one.
