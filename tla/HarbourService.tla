---------------------------- MODULE HarbourService ----------------------------
(***************************************************************************)
(* The service around the agent: processes that run create_app and then    *)
(* serve POST /case and GET /case (service.py), the database file they     *)
(* create and seed when it is not there (init_db, seed_database), and      *)
(* clients that post a case, may lose the answer, and may post it again.   *)
(* Processes crash anywhere, and whoever runs them may start them again.   *)
(*                                                                         *)
(* A file that is unlinked is lost to those who open the path later, not   *)
(* to those who have it open: files is every file there ever was, path the *)
(* one that is at DB_PATH now.  What handle_case does with a case is       *)
(* HarbourAgent; here it commits a trail and a final status.               *)
(***************************************************************************)
EXTENDS Integers, Sequences, FiniteSets

CONSTANTS
    Processes,
    Clients,
    MaxTries,      \* bound: how often a client posts its case
    MaxCrashes     \* bound

VARIABLES
    path,          \* the file at DB_PATH, 0 when there is none
    files,
    process,
    client,
    handler,       \* the thread of each POST
    interrupted,   \* whether a crash has hit a start that had created the file
    overlapped,    \* whether a process has started while another was starting
    crashes        \* counter for the bound

vars == <<path, files, process, client, handler, interrupted, overlapped, crashes>>

ASSUME BoundsAssumption == MaxTries \in Nat \ {0} /\ MaxCrashes \in Nat

Posts == Clients \X (1 .. MaxTries)

(* The row of a case, and whether its audit trail has rows.                *)
NoCase == [status |-> "none", trail |-> FALSE]
EmptyFile == [schema |-> FALSE, seeds |-> 0,
              cases |-> [h \in Posts |-> NoCase]]

Down == [pc |-> "down", file |-> 0]
Starting(p) == process[p].pc \in {"fresh", "unlink", "connect", "schema", "seed", "commit"}
Serving(p) == process[p].pc = "serving"

BecomeProcess(p, where, f) == process' = [process EXCEPT ![p] = [pc |-> where, file |-> f]]

-----------------------------------------------------------------------------
(* create_app *)

(* Mutant: every start is a fresh one.                                     *)
CheckIsAlwaysFresh(p) ==
    /\ process[p].pc \in {"down", "failed"}
    /\ BecomeProcess(p, "fresh", 0)
    /\ UNCHANGED <<path, files, client, handler, interrupted, overlapped, crashes>>

CheckFileExists(p) ==
    /\ process[p].pc \in {"down", "failed"}
    /\ BecomeProcess(p, IF path = 0 THEN "fresh" ELSE "serving", 0)
    /\ overlapped' = (overlapped \/ \E q \in Processes : Starting(q))
    /\ UNCHANGED <<path, files, client, handler, interrupted, crashes>>

(* Mutant: the file is unlinked whether it is there or not.                *)
UnlinkWithoutLooking(p) ==
    /\ process[p].pc = "fresh"
    /\ BecomeProcess(p, "unlink", 0)
    /\ UNCHANGED <<path, files, client, handler, interrupted, overlapped, crashes>>

(* init_db(fresh=True) looks again, and unlinks what it finds.             *)
LookAgain(p) ==
    /\ process[p].pc = "fresh"
    /\ BecomeProcess(p, IF path = 0 THEN "connect" ELSE "unlink", 0)
    /\ UNCHANGED <<path, files, client, handler, interrupted, overlapped, crashes>>

(* Another start may have unlinked it first: FileNotFoundError.            *)
UnlinkFile(p) ==
    /\ process[p].pc = "unlink"
    /\ path' = 0
    /\ BecomeProcess(p, IF path = 0 THEN "failed" ELSE "connect", 0)
    /\ UNCHANGED <<files, client, handler, interrupted, overlapped, crashes>>

(* connect creates the file if there is none.                              *)
Connect(p) ==
    /\ process[p].pc = "connect"
    /\ IF path = 0
       THEN files' = Append(files, EmptyFile) /\ path' = Len(files) + 1
       ELSE UNCHANGED <<files, path>>
    /\ BecomeProcess(p, "schema", path')
    /\ UNCHANGED <<client, handler, interrupted, overlapped, crashes>>

CreateSchema(p) ==
    /\ process[p].pc = "schema"
    /\ files' = [files EXCEPT ![process[p].file].schema = TRUE]
    /\ BecomeProcess(p, "seed", process[p].file)
    /\ UNCHANGED <<path, client, handler, interrupted, overlapped, crashes>>

Seeding(f) == \E q \in Processes : process[q] = [pc |-> "commit", file |-> f]

(* Mutant: INSERT OR REPLACE.                                              *)
SeedOnTop(p) ==
    /\ process[p].pc = "seed"
    /\ ~Seeding(process[p].file)
    /\ BecomeProcess(p, "commit", process[p].file)
    /\ UNCHANGED <<path, files, client, handler, interrupted, overlapped, crashes>>

(* The seed is pseudo-random with a fixed seed: its keys are the same      *)
(* every time, and inserting them twice raises IntegrityError, which ends  *)
(* the start.  An open seeding has the write lock.                         *)
SeedDatabase(p) ==
    /\ process[p].pc = "seed"
    /\ LET f == process[p].file
       IN  /\ ~Seeding(f)
           /\ IF files[f].seeds > 0 THEN BecomeProcess(p, "failed", 0)
                                    ELSE BecomeProcess(p, "commit", f)
    /\ UNCHANGED <<path, files, client, handler, interrupted, overlapped, crashes>>

(* Others who may hold a lock on f: a start that has it open, or a process *)
(* that serves, which opens the path for every request.                    *)
Contended(p, f) ==
    \E q \in Processes \ {p} :
        \/ Serving(q)
        \/ process[q].pc \in {"schema", "seed", "commit"} /\ process[q].file = f

(* "database is locked": the pragma journal_mode, a statement of the       *)
(* schema or the first INSERT of the seed waited past the busy timeout.    *)
LockedOut(p) ==
    /\ \/ process[p].pc = "connect" /\ path # 0 /\ Contended(p, path)
       \/ process[p].pc \in {"schema", "seed"} /\ Contended(p, process[p].file)
    /\ BecomeProcess(p, "failed", 0)
    /\ UNCHANGED <<path, files, client, handler, interrupted, overlapped, crashes>>

CommitSeed(p) ==
    /\ process[p].pc = "commit"
    /\ files' = [files EXCEPT ![process[p].file].seeds = @ + 1]
    /\ BecomeProcess(p, "serving", 0)
    /\ UNCHANGED <<path, client, handler, interrupted, overlapped, crashes>>

(* The process dies with its threads and with what they had not committed. *)
Crash(p) ==
    /\ crashes < MaxCrashes
    /\ process[p].pc # "down"
    /\ crashes' = crashes + 1
    /\ process' = [process EXCEPT ![p] = Down]
    /\ handler' = [h \in Posts |-> IF handler[h].process = p
                                   THEN [handler[h] EXCEPT !.pc = "ended"] ELSE handler[h]]
    /\ interrupted' = (interrupted \/ process[p].pc \in {"schema", "seed", "commit"})
    /\ UNCHANGED <<path, files, client, overlapped>>

-----------------------------------------------------------------------------
(* post_case and get_case *)

BecomeHandler(h, where) == handler' = [handler EXCEPT ![h].pc = where]
CaseOf(h) == files[handler[h].file].cases[h]

(* init_db(fresh=False): a file and its schema, never a seed.              *)
GetConn(h) ==
    /\ handler[h].pc = "accepted"
    /\ IF path = 0
       THEN files' = Append(files, [EmptyFile EXCEPT !.schema = TRUE]) /\ path' = Len(files) + 1
       ELSE files' = [files EXCEPT ![path].schema = TRUE] /\ UNCHANGED path
    /\ handler' = [handler EXCEPT ![h].pc = "connected", ![h].file = path']
    /\ UNCHANGED <<process, client, interrupted, overlapped, crashes>>

SetCase(h, row) == files' = [files EXCEPT ![handler[h].file].cases[h] = row]

InsertCase(h) ==
    /\ handler[h].pc = "connected"
    /\ SetCase(h, [status |-> "received", trail |-> FALSE])
    /\ BecomeHandler(h, "inserted")
    /\ UNCHANGED <<path, process, client, interrupted, overlapped, crashes>>

BeginCase(h) ==
    /\ handler[h].pc = "inserted"
    /\ SetCase(h, [CaseOf(h) EXCEPT !.trail = TRUE])
    /\ BecomeHandler(h, "handling")
    /\ UNCHANGED <<path, process, client, interrupted, overlapped, crashes>>

(* Mutant: the answer is given and the final status not committed.         *)
FinishUncommitted(h, status) ==
    /\ handler[h].pc = "handling"
    /\ handler' = [handler EXCEPT ![h].pc = "replying", ![h].reply = status]
    /\ UNCHANGED <<path, files, process, client, interrupted, overlapped, crashes>>

FinishCase(h, status) ==
    /\ handler[h].pc = "handling"
    /\ SetCase(h, [CaseOf(h) EXCEPT !.status = status])
    /\ handler' = [handler EXCEPT ![h].pc = "replying", ![h].reply = status]
    /\ UNCHANGED <<path, process, client, interrupted, overlapped, crashes>>

(* An exception in get_conn, where the file may be locked, in the INSERT   *)
(* or out of handle_case: 500, and what there is of the case stays.        *)
FailCase(h) ==
    /\ handler[h].pc \in {"accepted", "connected", "inserted", "handling"}
    /\ BecomeHandler(h, "ended")
    /\ UNCHANGED <<path, files, process, client, interrupted, overlapped, crashes>>

(* 404 is NoCase.                                                          *)
get_case(h) == IF path = 0 THEN NoCase ELSE files[path].cases[h]

-----------------------------------------------------------------------------
(* A client: one case.  It may post again what was not answered, and gets  *)
(* a new case then (CONTRACT.md: no idempotency); nothing says it will.    *)

Waiting(k) == client[k].pc = "waiting"
Current(k) == <<k, client[k].tries>>

Post(k, p) ==
    /\ client[k].pc = "ready"
    /\ client[k].tries < MaxTries
    /\ Serving(p)
    /\ client' = [client EXCEPT ![k].pc = "waiting", ![k].tries = @ + 1]
    /\ handler' = [handler EXCEPT ![<<k, client[k].tries + 1>>] =
                       [pc |-> "accepted", process |-> p, file |-> 0, reply |-> "none"]]
    /\ UNCHANGED <<path, files, process, interrupted, overlapped, crashes>>

Answer(k) ==
    /\ Waiting(k)
    /\ handler[Current(k)].pc = "replying"
    /\ client' = [client EXCEPT ![k].pc = "answered"]
    /\ BecomeHandler(Current(k), "ended")
    /\ UNCHANGED <<path, files, process, interrupted, overlapped, crashes>>

(* An error, a broken connection or a timeout: the client cannot tell how  *)
(* far the handler got, nor does the handler know that nobody listens.     *)
Miss(k) ==
    /\ Waiting(k)
    /\ client' = [client EXCEPT ![k].pc = IF client[k].tries < MaxTries THEN "ready" ELSE "gave_up"]
    /\ UNCHANGED <<path, files, process, handler, interrupted, overlapped, crashes>>

(* ConnectError: nobody serves, and the client does not wait for it.       *)
FindNobody(k) ==
    /\ client[k].pc = "ready"
    /\ client[k].tries < MaxTries
    /\ ~\E p \in Processes : Serving(p)
    /\ client' = [client EXCEPT ![k].pc = IF client[k].tries + 1 < MaxTries THEN "ready" ELSE "gave_up",
                                ![k].tries = @ + 1]
    /\ UNCHANGED <<path, files, process, handler, interrupted, overlapped, crashes>>

-----------------------------------------------------------------------------
Init ==
    /\ path = 0
    /\ files = <<>>
    /\ process = [p \in Processes |-> Down]
    /\ client = [k \in Clients |-> [pc |-> "ready", tries |-> 0]]
    /\ handler = [h \in Posts |-> [pc |-> "none", process |-> "none", file |-> 0, reply |-> "none"]]
    /\ interrupted = FALSE
    /\ overlapped = FALSE
    /\ crashes = 0

(* What a start does of itself once it has begun.                          *)
Proceed(p) ==
    \/ LookAgain(p) \/ UnlinkFile(p) \/ Connect(p) \/ CreateSchema(p)
    \/ SeedDatabase(p) \/ CommitSeed(p) \/ LockedOut(p)

Start(p) == CheckFileExists(p) \/ Proceed(p)

Finish(h) == \E s \in {"resolved", "escalated"} : FinishCase(h, s)

Handle(h) == GetConn(h) \/ InsertCase(h) \/ BeginCase(h) \/ Finish(h)

Next ==
    \/ \E p \in Processes : Start(p) \/ Crash(p)
    \/ \E h \in Posts : Handle(h) \/ FailCase(h)
    \/ \E k \in Clients : (\E p \in Processes : Post(k, p)) \/ Answer(k) \/ Miss(k) \/ FindNobody(k)

Spec == Init /\ [][Next]_vars

(* A call that has begun returns or raises.  Nothing in the repository     *)
(* starts a process again, or makes a client post.                         *)
FairSpec == Spec /\ \A p \in Processes : WF_vars(Proceed(p))

-----------------------------------------------------------------------------
(* Properties *)

ServiceTypeOK ==
    /\ path \in 0 .. Len(files)
    /\ files \in Seq([schema : BOOLEAN, seeds : {0, 1},
                      cases : [Posts -> [status : {"none", "received", "resolved", "escalated"},
                                         trail : BOOLEAN]]])
    /\ process \in [Processes -> [pc : {"down", "failed", "fresh", "unlink", "connect", "schema",
                                        "seed", "commit", "serving"},
                                  file : 0 .. Len(files)]]
    /\ client \in [Clients -> [pc : {"ready", "waiting", "answered", "gave_up"},
                               tries : 0 .. MaxTries]]
    /\ handler \in [Posts -> [pc : {"none", "accepted", "connected", "inserted", "handling",
                                    "replying", "ended"},
                              process : Processes \cup {"none"}, file : 0 .. Len(files),
                              reply : {"none", "resolved", "escalated"}]]
    /\ interrupted \in BOOLEAN /\ overlapped \in BOOLEAN
    /\ crashes \in Nat

(* Whatever was answered can be looked up (check_post_then_get_roundtrip): *)
(* the case of the very POST that was answered, with the status of the     *)
(* answer and a trail that is not empty, after crashes and restarts of     *)
(* every process and after late answers to earlier tries - unless two      *)
(* starts overlapped: one can unlink the file the other serves.            *)
AnswersCanBeLookedUp ==
    ~overlapped => \A k \in Clients : client[k].pc = "answered" =>
        get_case(Current(k)) = [status |-> handler[Current(k)].reply, trail |-> TRUE]

(* A process that serves finds the schema and one seed in the database,    *)
(* unless starts overlapped, or one was interrupted after it had created   *)
(* the file: no later start repairs that.                                  *)
SeededUnlessInterrupted ==
    ~interrupted /\ ~overlapped => \A p \in Processes : Serving(p) =>
        path # 0 /\ files[path].schema /\ files[path].seeds = 1

(* Starts that overlap do not all fail: as long as no process crashes, a   *)
(* start that has begun comes to serve, or another does, although one may  *)
(* unlink the file of another, find it unlinked or seeded already, or wait *)
(* for its lock in vain.                                                   *)
StartsComeToServe ==
    \A p \in Processes : Starting(p) ~> (\E q \in Processes : Serving(q)) \/ crashes > 0

-----------------------------------------------------------------------------
(* What the repository says of a start and it does not do                  *)

(* RUNBOOK.md: a fresh database is seeded automatically the first time it  *)
(* is opened.  One whose first start did not live to commit never is.      *)
ServedDatabaseIsSeeded ==
    \A p \in Processes : Serving(p) => path # 0 /\ files[path].seeds = 1
=============================================================================
