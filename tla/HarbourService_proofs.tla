-------------------------- MODULE HarbourService_proofs --------------------------
(***************************************************************************)
(* Theorems of HarbourService, for any processes, clients, tries and       *)
(* crashes: the types, the seed that a serving process finds, and the      *)
(* answers that can be looked up.                                          *)
(***************************************************************************)
EXTENDS HarbourService, SequenceTheorems, TLAPS

-----------------------------------------------------------------------------
(* Files *)

CaseRows == [status : {"none", "received", "resolved", "escalated"}, trail : BOOLEAN]
Files == [schema : BOOLEAN, seeds : {0, 1}, cases : [Posts -> CaseRows]]

LEMMA EmptyFileType ==
    EmptyFile \in Files /\ [EmptyFile EXCEPT !.schema = TRUE] \in Files
BY DEF EmptyFile, Files, CaseRows, NoCase

LEMMA UpdatedFile ==
    ASSUME NEW f \in 1 .. Len(files), files \in Seq(Files), NEW x \in Files,
           files' = [files EXCEPT ![f] = x]
    PROVE  /\ files' \in Seq(Files) /\ Len(files') = Len(files)
           /\ files'[f] = x
           /\ \A g \in 1 .. Len(files) : g # f => files'[g] = files[g]
<1>1. DOMAIN files = 1 .. Len(files) /\ Len(files) \in Nat
  BY LenProperties
<1>2. files' \in [1 .. Len(files) -> Files]
  BY <1>1, ElementOfSeq
<1> QED BY <1>1, <1>2, LenProperties, SeqDef

LEMMA AddedFile ==
    ASSUME files \in Seq(Files), NEW x \in Files, files' = Append(files, x)
    PROVE  /\ files' \in Seq(Files) /\ Len(files') = Len(files) + 1
           /\ files'[Len(files) + 1] = x
           /\ \A g \in 1 .. Len(files) : files'[g] = files[g]
BY AppendProperties

-----------------------------------------------------------------------------
(* Types *)

(* A start holds a file from connect on, a handler from GetConn on.  The   *)
(* write lock keeps a file to one seeding, which found it unseeded.        *)
Placed ==
    /\ \A p \in Processes :
           process[p].pc \in {"schema", "seed", "commit"} => process[p].file \in 1 .. Len(files)
    /\ \A h \in Posts :
           handler[h].pc \in {"connected", "inserted", "handling", "replying"} =>
               handler[h].file \in 1 .. Len(files)
    /\ \A k \in Clients : client[k].pc \in {"waiting", "answered"} => client[k].tries # 0

OneSeeding ==
    /\ \A p \in Processes : process[p].pc = "commit" => files[process[p].file].seeds = 0
    /\ \A p, q \in Processes :
           process[p].pc = "commit" /\ process[q].pc = "commit" /\ process[p].file = process[q].file
           => p = q

Types == ServiceTypeOK /\ Placed /\ OneSeeding

ProcessPlaces == {"down", "failed", "fresh", "unlink", "connect", "schema", "seed", "commit", "serving"}

(* The states of a process, a handler and a client when there are n files. *)
ProcessStates(n) == [pc : ProcessPlaces, file : 0 .. n]

HandlerStates(n) ==
    [pc : {"none", "accepted", "connected", "inserted", "handling", "replying", "ended"},
     process : Processes \cup {"none"}, file : 0 .. n,
     reply : {"none", "resolved", "escalated"}]

ClientStates == [pc : {"ready", "waiting", "answered", "gave_up"}, tries : 0 .. MaxTries]

LEMMA TypesParts ==
    ServiceTypeOK <=> /\ path \in 0 .. Len(files) /\ files \in Seq(Files)
                      /\ process \in [Processes -> ProcessStates(Len(files))]
                      /\ handler \in [Posts -> HandlerStates(Len(files))]
                      /\ client \in [Clients -> ClientStates]
                      /\ interrupted \in BOOLEAN /\ overlapped \in BOOLEAN /\ crashes \in Nat
BY DEF ServiceTypeOK, Files, CaseRows, ProcessPlaces, ProcessStates, HandlerStates, ClientStates

LEMMA Widen ==
    ASSUME NEW n \in Nat, NEW m \in Nat, n <= m
    PROVE  /\ ProcessStates(n) \subseteq ProcessStates(m)
           /\ HandlerStates(n) \subseteq HandlerStates(m)
<1>1. 0 .. n \subseteq 0 .. m
  OBVIOUS
<1> QED BY <1>1 DEF ProcessStates, HandlerStates

(* The three ways a step leaves the files, each with what it keeps: every  *)
(* file that there was stays, with its seeds.                              *)
FilesGrow ==
    /\ files' \in Seq(Files) /\ Len(files') \in Nat /\ Len(files) \in Nat
    /\ Len(files) <= Len(files')

SeedsKept ==
    /\ FilesGrow
    /\ \A f \in 1 .. Len(files) : files'[f].seeds = files[f].seeds

LEMMA FileFields ==
    ASSUME files \in Seq(Files), NEW f \in 1 .. Len(files)
    PROVE  /\ files[f] \in Files
           /\ files[f].seeds \in {0, 1} /\ files[f].cases \in [Posts -> CaseRows]
           /\ [files[f] EXCEPT !.schema = TRUE] \in Files
           /\ \A h \in Posts, row \in CaseRows :
                  [files[f] EXCEPT !.cases = [files[f].cases EXCEPT ![h] = row]] \in Files
           /\ files[f].seeds = 0 => [files[f] EXCEPT !.seeds = files[f].seeds + 1] \in Files
<1>1. files[f] \in Files
  BY ElementOfSeq
<1>2. /\ files[f].seeds \in {0, 1} /\ files[f].cases \in [Posts -> CaseRows]
      /\ [files[f] EXCEPT !.schema = TRUE] \in Files
  BY <1>1 DEF Files
<1>3. ASSUME NEW h \in Posts, NEW row \in CaseRows
      PROVE  [files[f] EXCEPT !.cases = [files[f].cases EXCEPT ![h] = row]] \in Files
  <2>1. [files[f].cases EXCEPT ![h] = row] \in [Posts -> CaseRows]
    BY <1>2
  <2> QED BY <1>1, <2>1 DEF Files
<1>4. ASSUME files[f].seeds = 0
      PROVE  [files[f] EXCEPT !.seeds = files[f].seeds + 1] \in Files
  <2>1. files[f].seeds + 1 \in {0, 1}
    BY <1>4
  <2> QED BY <1>1, <2>1 DEF Files
<1> QED BY <1>1, <1>2, <1>3, <1>4

LEMMA SameFiles ==
    ASSUME files \in Seq(Files), UNCHANGED files
    PROVE  SeedsKept
BY LenProperties DEF SeedsKept, FilesGrow

LEMMA NewFile ==
    ASSUME files \in Seq(Files), NEW x \in Files, files' = Append(files, x)
    PROVE  SeedsKept /\ Len(files') = Len(files) + 1 /\ files'[Len(files')] = x
<1>1. Len(files) \in Nat
  BY LenProperties
<1>2. /\ files' \in Seq(Files) /\ Len(files') = Len(files) + 1
      /\ files'[Len(files) + 1] = x
      /\ \A g \in 1 .. Len(files) : files'[g] = files[g]
  BY AddedFile
<1> QED BY <1>1, <1>2 DEF SeedsKept, FilesGrow

(* A schema or a row written to a file.                                    *)
LEMMA WrittenFile ==
    ASSUME files \in Seq(Files), NEW f \in 1 .. Len(files), NEW x \in Files,
           x.seeds = files[f].seeds, files' = [files EXCEPT ![f] = x]
    PROVE  SeedsKept /\ Len(files') = Len(files) /\ files'[f] = x
<1>1. Len(files) \in Nat
  BY LenProperties
<1>2. /\ files' \in Seq(Files) /\ Len(files') = Len(files)
      /\ files'[f] = x
      /\ \A g \in 1 .. Len(files) : g # f => files'[g] = files[g]
  BY UpdatedFile
<1> QED BY <1>1, <1>2 DEF SeedsKept, FilesGrow

(* The types of a step, by the files there are after it.                   *)
LEMMA TypesKept ==
    ASSUME FilesGrow,
           path' \in 0 .. Len(files'),
           process' \in [Processes -> ProcessStates(Len(files'))],
           handler' \in [Posts -> HandlerStates(Len(files'))],
           client' \in [Clients -> ClientStates],
           interrupted' \in BOOLEAN, overlapped' \in BOOLEAN, crashes' \in Nat
    PROVE  ServiceTypeOK'
BY DEF ServiceTypeOK, FilesGrow, Files, CaseRows, ProcessPlaces, ProcessStates, HandlerStates,
       ClientStates

(* The states that were, by the files there are after a step.              *)
LEMMA StatesKept ==
    ASSUME ServiceTypeOK, FilesGrow
    PROVE  /\ process \in [Processes -> ProcessStates(Len(files'))]
           /\ handler \in [Posts -> HandlerStates(Len(files'))]
           /\ client \in [Clients -> ClientStates]
<1>1. /\ ProcessStates(Len(files)) \subseteq ProcessStates(Len(files'))
      /\ HandlerStates(Len(files)) \subseteq HandlerStates(Len(files'))
  BY Widen DEF FilesGrow
<1> QED BY <1>1, TypesParts

(* A step of a start: one process moves on, and the files keep their seeds. *)
LEMMA StartStep ==
    ASSUME Types, SeedsKept, NEW p \in Processes, NEW ACTION f, f \in 0 .. Len(files'),
           NEW where \in ProcessPlaces, BecomeProcess(p, where, f),
           where \in {"schema", "seed", "commit"} => f # 0,
           where = "commit" => /\ f <= Len(files) /\ files[f].seeds = 0
                               /\ ~\E q \in Processes : process[q].pc = "commit" /\ process[q].file = f,
           UNCHANGED <<handler, client, interrupted, crashes>>,
           path' \in 0 .. Len(files'), overlapped' \in BOOLEAN
    PROVE  Types'
<1>1. /\ Len(files') \in Nat /\ Len(files) \in Nat /\ Len(files) <= Len(files') /\ FilesGrow
      /\ \A g \in 1 .. Len(files) : files'[g].seeds = files[g].seeds
  BY DEF SeedsKept, FilesGrow
<1>2. /\ process \in [Processes -> ProcessStates(Len(files'))]
      /\ handler \in [Posts -> HandlerStates(Len(files'))]
      /\ client \in [Clients -> ClientStates]
      /\ interrupted \in BOOLEAN /\ crashes \in Nat
  BY <1>1, TypesParts, StatesKept DEF Types
<1>3. [pc |-> where, file |-> f] \in ProcessStates(Len(files'))
  BY DEF ProcessStates
<1>4. /\ process' \in [Processes -> ProcessStates(Len(files'))]
      /\ process'[p].pc = where /\ process'[p].file = f
      /\ \A q \in Processes \ {p} : process'[q] = process[q]
  BY <1>2, <1>3 DEF BecomeProcess
<1>5. ServiceTypeOK'
  BY <1>1, <1>2, <1>4, TypesKept
<1>6. Placed'
  BY <1>1, <1>4 DEF Placed, Types
<1>7. OneSeeding'
  BY <1>1, <1>4 DEF OneSeeding, Placed, Types
<1> QED BY <1>5, <1>6, <1>7 DEF Types

(* A step of the handlers and the clients.                                 *)
LEMMA CaseStep ==
    ASSUME Types, SeedsKept, UNCHANGED <<process, interrupted, overlapped, crashes>>,
           path' \in 0 .. Len(files'),
           handler' \in [Posts -> HandlerStates(Len(files'))],
           \A h \in Posts : handler'[h].pc \in {"connected", "inserted", "handling", "replying"} =>
                                handler'[h].file # 0,
           client' \in [Clients -> ClientStates],
           \A k \in Clients : client'[k].pc \in {"waiting", "answered"} => client'[k].tries # 0
    PROVE  Types'
<1>1. /\ Len(files') \in Nat /\ Len(files) \in Nat /\ Len(files) <= Len(files') /\ FilesGrow
      /\ \A g \in 1 .. Len(files) : files'[g].seeds = files[g].seeds
  BY DEF SeedsKept, FilesGrow
<1>2. /\ process \in [Processes -> ProcessStates(Len(files'))]
      /\ interrupted \in BOOLEAN /\ overlapped \in BOOLEAN /\ crashes \in Nat
  BY <1>1, TypesParts, StatesKept DEF Types
<1>3. ServiceTypeOK'
  BY <1>1, <1>2, TypesKept
<1>4. \A h \in Posts : handler'[h].file \in 0 .. Len(files')
  BY DEF HandlerStates
<1>5. Placed'
  BY <1>1, <1>4 DEF Placed, Types
<1>6. OneSeeding'
  BY <1>1 DEF OneSeeding, Placed, Types
<1> QED BY <1>3, <1>5, <1>6 DEF Types

(* The steps of a start *)

LEMMA CheckTypes ==
    ASSUME Types, NEW p \in Processes, CheckFileExists(p)
    PROVE  Types'
<1> DEFINE where == IF path = 0 THEN "fresh" ELSE "serving"
<1>1. SeedsKept /\ files' = files /\ path \in 0 .. Len(files) /\ Len(files) \in Nat
      /\ overlapped \in BOOLEAN
  BY SameFiles, TypesParts, LenProperties DEF CheckFileExists, Types
<1>2. where \in ProcessPlaces /\ where \notin {"schema", "seed", "commit"}
  BY DEF ProcessPlaces
<1>3. /\ BecomeProcess(p, where, 0) /\ UNCHANGED <<path, handler, client, interrupted, crashes>>
      /\ overlapped' \in BOOLEAN
  BY <1>1 DEF CheckFileExists
<1> HIDE DEF where
<1> QED BY <1>1, <1>2, <1>3, StartStep

LEMMA LookTypes ==
    ASSUME Types, NEW p \in Processes, LookAgain(p)
    PROVE  Types'
<1> DEFINE where == IF path = 0 THEN "connect" ELSE "unlink"
<1>1. SeedsKept /\ files' = files /\ path \in 0 .. Len(files) /\ Len(files) \in Nat
      /\ overlapped \in BOOLEAN
  BY SameFiles, TypesParts, LenProperties DEF LookAgain, Types
<1>2. where \in ProcessPlaces /\ where \notin {"schema", "seed", "commit"}
  BY DEF ProcessPlaces
<1>3. BecomeProcess(p, where, 0) /\ UNCHANGED <<path, handler, client, interrupted, overlapped, crashes>>
  BY DEF LookAgain
<1> HIDE DEF where
<1> QED BY <1>1, <1>2, <1>3, StartStep

LEMMA UnlinkTypes ==
    ASSUME Types, NEW p \in Processes, UnlinkFile(p)
    PROVE  Types'
<1> DEFINE where == IF path = 0 THEN "failed" ELSE "connect"
<1>1. SeedsKept /\ files' = files /\ Len(files) \in Nat /\ overlapped \in BOOLEAN
  BY SameFiles, TypesParts, LenProperties DEF UnlinkFile, Types
<1>2. where \in ProcessPlaces /\ where \notin {"schema", "seed", "commit"}
  BY DEF ProcessPlaces
<1>3. /\ BecomeProcess(p, where, 0) /\ path' = 0
      /\ UNCHANGED <<handler, client, interrupted, overlapped, crashes>>
  BY DEF UnlinkFile
<1> HIDE DEF where
<1> QED BY <1>1, <1>2, <1>3, StartStep

LEMMA LockedTypes ==
    ASSUME Types, NEW p \in Processes, LockedOut(p)
    PROVE  Types'
<1>1. SeedsKept /\ files' = files /\ path \in 0 .. Len(files) /\ Len(files) \in Nat
      /\ overlapped \in BOOLEAN
  BY SameFiles, TypesParts, LenProperties DEF LockedOut, Types
<1>2. /\ BecomeProcess(p, "failed", 0)
      /\ UNCHANGED <<path, handler, client, interrupted, overlapped, crashes>>
  BY DEF LockedOut
<1> QED BY <1>1, <1>2, StartStep DEF ProcessPlaces

(* The file a process connects to is at the path, and it is not none.      *)
LEMMA ConnectsTo ==
    ASSUME files \in Seq(Files), path \in 0 .. Len(files), NEW x \in Files,
           IF path = 0
           THEN files' = Append(files, x) /\ path' = Len(files) + 1
           ELSE UNCHANGED <<files, path>>
    PROVE  SeedsKept /\ path' \in 1 .. Len(files')
<1>1. CASE path = 0
  BY <1>1, NewFile, LenProperties DEF SeedsKept, FilesGrow
<1>2. CASE path # 0
  BY <1>2, SameFiles, LenProperties
<1> QED BY <1>1, <1>2

LEMMA ConnectTypes ==
    ASSUME Types, NEW p \in Processes, Connect(p)
    PROVE  Types'
<1>1. SeedsKept /\ path' \in 1 .. Len(files') /\ overlapped \in BOOLEAN
  BY ConnectsTo, TypesParts, EmptyFileType DEF Connect, Types
<1>2. /\ BecomeProcess(p, "schema", path')
      /\ UNCHANGED <<handler, client, interrupted, overlapped, crashes>>
  BY DEF Connect
<1> QED BY <1>1, <1>2, StartStep DEF ProcessPlaces

LEMMA SchemaTypes ==
    ASSUME Types, NEW p \in Processes, CreateSchema(p)
    PROVE  Types'
<1> DEFINE f == process[p].file
           x == [files[f] EXCEPT !.schema = TRUE]
<1>1. f \in 1 .. Len(files) /\ files \in Seq(Files) /\ path \in 0 .. Len(files)
      /\ overlapped \in BOOLEAN
  BY TypesParts DEF Types, Placed, CreateSchema
<1>2. x \in Files /\ x.seeds = files[f].seeds
  BY <1>1, FileFields DEF Files
<1>3. files' = [files EXCEPT ![f] = x]
  BY DEF CreateSchema
<1>4. /\ BecomeProcess(p, "seed", f)
      /\ UNCHANGED <<path, handler, client, interrupted, overlapped, crashes>>
  BY DEF CreateSchema
<1> HIDE DEF f, x
<1>5. SeedsKept /\ Len(files') = Len(files)
  BY <1>1, <1>2, <1>3, WrittenFile
<1> QED BY <1>1, <1>4, <1>5, StartStep DEF ProcessPlaces

(* What holds the write lock of a file is a process in its seeding.        *)
LEMMA SeedingIs ==
    ASSUME ServiceTypeOK, NEW f
    PROVE  Seeding(f) <=> \E q \in Processes : process[q].pc = "commit" /\ process[q].file = f
<1>1. ASSUME NEW q \in Processes
      PROVE  process[q] = [pc |-> "commit", file |-> f]
               <=> process[q].pc = "commit" /\ process[q].file = f
  <2>1. process[q] \in [pc : ProcessPlaces, file : 0 .. Len(files)]
    BY TypesParts DEF ProcessStates
  <2> QED BY <2>1
<1> QED BY <1>1 DEF Seeding

LEMMA SeedTypes ==
    ASSUME Types, NEW p \in Processes, SeedDatabase(p)
    PROVE  Types'
<1>1. /\ SeedsKept /\ files' = files /\ path \in 0 .. Len(files) /\ Len(files) \in Nat
      /\ overlapped \in BOOLEAN /\ process[p].file \in 1 .. Len(files)
  BY SameFiles, TypesParts, LenProperties DEF SeedDatabase, Types, Placed
<1>2. UNCHANGED <<path, handler, client, interrupted, overlapped, crashes>>
  BY DEF SeedDatabase
<1>3. CASE BecomeProcess(p, "failed", 0)
  BY <1>1, <1>2, <1>3, StartStep DEF ProcessPlaces
<1>4. CASE /\ files[process[p].file].seeds = 0 /\ ~Seeding(process[p].file)
           /\ BecomeProcess(p, "commit", process[p].file)
  <2>1. ~\E q \in Processes : process[q].pc = "commit" /\ process[q].file = process[p].file
    BY <1>4, SeedingIs DEF Types
  <2> QED BY <1>1, <1>2, <1>4, <2>1, StartStep DEF ProcessPlaces
<1>5. files[process[p].file].seeds > 0 \/ files[process[p].file].seeds = 0
  <2>1. files \in Seq(Files)
    BY TypesParts DEF Types
  <2>2. files[process[p].file].seeds \in {0, 1}
    BY <1>1, <2>1, FileFields
  <2> QED BY <2>2
<1> QED BY <1>3, <1>4, <1>5 DEF SeedDatabase

(* The one step that changes a seed, of a file no other process seeds.     *)
LEMMA CommitTypes ==
    ASSUME Types, NEW p \in Processes, CommitSeed(p)
    PROVE  Types'
<1> DEFINE f == process[p].file
           x == [files[f] EXCEPT !.seeds = files[f].seeds + 1]
<1>1. /\ f \in 1 .. Len(files) /\ files \in Seq(Files) /\ path \in 0 .. Len(files)
      /\ process[p].pc = "commit" /\ files[f].seeds = 0
      /\ Len(files) \in Nat
  BY TypesParts, LenProperties DEF Types, Placed, OneSeeding, CommitSeed
<1>2. x \in Files
  BY <1>1, FileFields
<1>3. files' = [files EXCEPT ![f] = x]
  BY DEF CommitSeed
<1>4. /\ BecomeProcess(p, "serving", 0)
      /\ UNCHANGED <<path, handler, client, interrupted, overlapped, crashes>>
  BY DEF CommitSeed
<1>5. \A q \in Processes : process[q].pc = "commit" /\ process[q].file = f => q = p
  BY <1>1 DEF Types, OneSeeding
<1> HIDE DEF f, x
<1>6. /\ files' \in Seq(Files) /\ Len(files') = Len(files)
      /\ \A g \in 1 .. Len(files) : g # f => files'[g] = files[g]
  BY <1>1, <1>2, <1>3, UpdatedFile
<1>7. FilesGrow
  BY <1>1, <1>6 DEF FilesGrow
<1>8. /\ process \in [Processes -> ProcessStates(Len(files'))]
      /\ handler \in [Posts -> HandlerStates(Len(files'))]
      /\ client \in [Clients -> ClientStates]
      /\ interrupted \in BOOLEAN /\ overlapped \in BOOLEAN /\ crashes \in Nat
  BY <1>7, TypesParts, StatesKept DEF Types
<1>9. /\ process' \in [Processes -> ProcessStates(Len(files'))]
      /\ process'[p].pc = "serving"
      /\ \A q \in Processes \ {p} : process'[q] = process[q]
  BY <1>1, <1>4, <1>6, <1>8 DEF BecomeProcess, ProcessStates, ProcessPlaces
<1>10. ServiceTypeOK'
  BY <1>1, <1>4, <1>6, <1>7, <1>8, <1>9, TypesKept
<1>11. Placed'
  BY <1>4, <1>6, <1>9 DEF Placed, Types
<1>12. OneSeeding'
  BY <1>5, <1>6, <1>9 DEF OneSeeding, Placed, Types
<1> QED BY <1>10, <1>11, <1>12 DEF Types

LEMMA CrashTypes ==
    ASSUME Types, NEW p \in Processes, Crash(p)
    PROVE  Types'
<1>1. /\ path \in 0 .. Len(files) /\ files \in Seq(Files) /\ Len(files) \in Nat
      /\ process \in [Processes -> ProcessStates(Len(files))]
      /\ handler \in [Posts -> HandlerStates(Len(files))]
      /\ client \in [Clients -> ClientStates]
      /\ interrupted \in BOOLEAN /\ overlapped \in BOOLEAN /\ crashes \in Nat
  BY TypesParts, LenProperties DEF Types
<1>2. FilesGrow /\ UNCHANGED <<path, files, client, overlapped>>
  BY <1>1, SameFiles DEF Crash, SeedsKept
<1>3. Down \in ProcessStates(Len(files))
  BY <1>1 DEF Down, ProcessStates, ProcessPlaces
<1>4. /\ process' \in [Processes -> ProcessStates(Len(files))]
      /\ process'[p].pc = "down"
      /\ \A q \in Processes \ {p} : process'[q] = process[q]
  BY <1>1, <1>3 DEF Crash, Down
<1>5. ASSUME NEW s \in HandlerStates(Len(files))
      PROVE  [s EXCEPT !.pc = "ended"] \in HandlerStates(Len(files))
  BY DEF HandlerStates
<1>6. /\ handler' \in [Posts -> HandlerStates(Len(files))]
      /\ \A h \in Posts : handler'[h].pc = "ended" \/ handler'[h] = handler[h]
  BY <1>1, <1>5 DEF Crash, HandlerStates
<1>7. interrupted' \in BOOLEAN /\ crashes' \in Nat
  BY <1>1 DEF Crash
<1>8. ServiceTypeOK'
  BY <1>1, <1>2, <1>4, <1>6, <1>7, TypesKept
<1>9. Placed'
  BY <1>2, <1>4, <1>6 DEF Placed, Types
<1>10. OneSeeding'
  BY <1>2, <1>4 DEF OneSeeding, Types
<1> QED BY <1>8, <1>9, <1>10 DEF Types

(* The steps of a case *)

LEMMA HandlerFields ==
    ASSUME NEW n \in Nat, NEW s \in HandlerStates(n)
    PROVE  /\ \A f \in 0 .. n :
                  [s EXCEPT !.pc = "connected", !.file = f] \in HandlerStates(n)
           /\ \A where \in {"inserted", "handling", "replying", "ended"},
                 reply \in {s.reply, "resolved", "escalated"} :
                  /\ [s EXCEPT !.pc = where, !.reply = reply] \in HandlerStates(n)
                  /\ [s EXCEPT !.pc = where, !.reply = reply].file = s.file
BY DEF HandlerStates

LEMMA HandlerStep ==
    ASSUME Types, SeedsKept, UNCHANGED <<process, client, interrupted, overlapped, crashes>>,
           path' \in 0 .. Len(files'), NEW h \in Posts, NEW ACTION s,
           s \in HandlerStates(Len(files')), handler' = [handler EXCEPT ![h] = s],
           s.pc \in {"connected", "inserted", "handling", "replying"} => s.file # 0
    PROVE  Types'
<1>1. /\ handler \in [Posts -> HandlerStates(Len(files'))]
      /\ client \in [Clients -> ClientStates]
  BY StatesKept DEF Types, SeedsKept
<1>2. /\ handler' \in [Posts -> HandlerStates(Len(files'))]
      /\ \A g \in Posts : handler'[g] = s \/ handler'[g] = handler[g]
  BY <1>1
<1>3. \A g \in Posts : handler'[g].pc \in {"connected", "inserted", "handling", "replying"} =>
                         handler'[g].file # 0
  BY <1>2, LenProperties DEF Types, Placed
<1>4. \A k \in Clients : client[k].pc \in {"waiting", "answered"} => client[k].tries # 0
  BY DEF Types, Placed
<1> QED BY <1>1, <1>2, <1>3, <1>4, CaseStep

LEMMA GetConnTypes ==
    ASSUME Types, NEW h \in Posts, GetConn(h)
    PROVE  Types'
<1> DEFINE x == [EmptyFile EXCEPT !.schema = TRUE]
           s == [handler[h] EXCEPT !.pc = "connected", !.file = path']
<1>1. /\ path \in 0 .. Len(files) /\ files \in Seq(Files) /\ Len(files) \in Nat
      /\ handler \in [Posts -> HandlerStates(Len(files))]
      /\ UNCHANGED <<process, client, interrupted, overlapped, crashes>>
  BY TypesParts, LenProperties DEF Types, GetConn
<1>2. SeedsKept /\ path' \in 1 .. Len(files')
  <2>1. CASE path = 0
    <3>1. x \in Files /\ files' = Append(files, x) /\ path' = Len(files) + 1
      BY <2>1, EmptyFileType DEF GetConn
    <3> HIDE DEF x
    <3>2. SeedsKept /\ Len(files') = Len(files) + 1
      BY <1>1, <3>1, NewFile
    <3> QED BY <1>1, <3>1, <3>2
  <2>2. CASE path # 0
    <3> DEFINE y == [files[path] EXCEPT !.schema = TRUE]
    <3>1. path \in 1 .. Len(files) /\ files' = [files EXCEPT ![path] = y] /\ path' = path
      BY <1>1, <2>2 DEF GetConn
    <3>2. y \in Files /\ y.seeds = files[path].seeds
      BY <1>1, <3>1, FileFields DEF Files
    <3> HIDE DEF y
    <3>3. SeedsKept /\ Len(files') = Len(files)
      BY <1>1, <3>1, <3>2, WrittenFile
    <3> QED BY <3>1, <3>3
  <2> QED BY <2>1, <2>2
<1>3. handler' = [handler EXCEPT ![h] = s]
  BY <1>1 DEF GetConn
<1>4. s \in HandlerStates(Len(files')) /\ s.file # 0 /\ path' \in 0 .. Len(files')
  <2>1. handler[h] \in HandlerStates(Len(files')) /\ Len(files') \in Nat
    BY <1>2, StatesKept DEF Types, SeedsKept, FilesGrow
  <2>2. path' \in 0 .. Len(files') /\ path' # 0
    BY <1>2, <2>1
  <2>3. s.file = path'
    BY <2>1 DEF HandlerStates
  <2> QED BY <2>1, <2>2, <2>3, HandlerFields
<1> HIDE DEF s
<1> QED BY <1>1, <1>2, <1>3, <1>4, HandlerStep

(* A row set in the file of a handler that has one.                        *)
LEMMA SetTypes ==
    ASSUME Types, NEW h \in Posts, handler[h].file # 0, NEW STATE row, row \in CaseRows, SetCase(h, row)
    PROVE  /\ SeedsKept /\ Len(files') = Len(files)
           /\ files' = [files EXCEPT ![handler[h].file] =
                            [files[handler[h].file] EXCEPT
                                 !.cases = [files[handler[h].file].cases EXCEPT ![h] = row]]]
<1> DEFINE f == handler[h].file
           x == [files[f] EXCEPT !.cases = [files[f].cases EXCEPT ![h] = row]]
<1>1. /\ files \in Seq(Files) /\ f \in 1 .. Len(files)
  BY TypesParts, LenProperties DEF Types, HandlerStates
<1>2. x \in Files /\ x.seeds = files[f].seeds
  BY <1>1, FileFields DEF Files
<1>3. files' = [files EXCEPT ![f] = x]
  BY DEF SetCase
<1> HIDE DEF f, x
<1>4. SeedsKept /\ Len(files') = Len(files)
  BY <1>1, <1>2, <1>3, WrittenFile
<1> QED BY <1>3, <1>4 DEF f, x

(* The row of a case in the file its handler has open.                     *)
LEMMA CaseOfType ==
    ASSUME Types, NEW h \in Posts,
           handler[h].pc \in {"connected", "inserted", "handling", "replying"}
    PROVE  /\ handler[h].file \in 1 .. Len(files)
           /\ CaseOf(h) \in CaseRows
<1>1. files \in Seq(Files) /\ handler[h].file \in 1 .. Len(files)
  BY TypesParts DEF Types, Placed
<1> QED BY <1>1, FileFields DEF CaseOf

(* A step of a handler that writes its case, or nothing.                   *)
LEMMA MoveStep ==
    ASSUME Types, NEW h \in Posts,
           handler[h].pc \in {"connected", "inserted", "handling", "replying"},
           SeedsKept, Len(files') = Len(files),
           UNCHANGED <<path, process, client, interrupted, overlapped, crashes>>,
           NEW where \in {"inserted", "handling", "replying", "ended"},
           NEW reply \in {handler[h].reply, "resolved", "escalated"},
           handler' = [handler EXCEPT ![h].pc = where, ![h].reply = reply]
    PROVE  Types'
<1> DEFINE s == [handler[h] EXCEPT !.pc = where, !.reply = reply]
<1>1. /\ path \in 0 .. Len(files) /\ handler \in [Posts -> HandlerStates(Len(files))]
      /\ handler[h].file \in 1 .. Len(files) /\ Len(files) \in Nat
  BY TypesParts, LenProperties DEF Types, Placed
<1>2. s \in HandlerStates(Len(files')) /\ s.file # 0
  <2>1. handler[h] \in HandlerStates(Len(files))
    BY <1>1
  <2>2. s \in HandlerStates(Len(files)) /\ s.file = handler[h].file
    BY <1>1, <2>1, HandlerFields
  <2> QED BY <1>1, <2>2
<1>3. handler' = [handler EXCEPT ![h] = s]
  BY <1>1
<1> HIDE DEF s
<1> QED BY <1>1, <1>2, <1>3, HandlerStep

LEMMA InsertTypes ==
    ASSUME Types, NEW h \in Posts, InsertCase(h)
    PROVE  Types'
<1> DEFINE row == [status |-> "received", trail |-> FALSE]
<1>1. handler[h].pc = "connected" /\ handler[h].file # 0 /\ row \in CaseRows /\ SetCase(h, row)
  BY CaseOfType DEF InsertCase, CaseRows
<1> HIDE DEF row
<1>2. SeedsKept /\ Len(files') = Len(files)
  BY <1>1, SetTypes
<1>3. handler' = [handler EXCEPT ![h].pc = "inserted", ![h].reply = handler[h].reply]
  BY TypesParts DEF Types, InsertCase, BecomeHandler, HandlerStates
<1>4. UNCHANGED <<path, process, client, interrupted, overlapped, crashes>>
  BY DEF InsertCase
<1> QED BY <1>1, <1>2, <1>3, <1>4, MoveStep

LEMMA BeginTypes ==
    ASSUME Types, NEW h \in Posts, BeginCase(h)
    PROVE  Types'
<1> DEFINE row == [CaseOf(h) EXCEPT !.trail = TRUE]
<1>1. handler[h].pc = "inserted" /\ handler[h].file # 0 /\ row \in CaseRows /\ SetCase(h, row)
  <2>1. handler[h].pc = "inserted" /\ SetCase(h, row)
    BY DEF BeginCase
  <2>2. CaseOf(h) \in CaseRows /\ handler[h].file \in 1 .. Len(files)
    BY <2>1, CaseOfType
  <2>3. row \in CaseRows
    BY <2>2 DEF CaseRows
  <2> QED BY <2>1, <2>2, <2>3
<1> HIDE DEF row
<1>2. SeedsKept /\ Len(files') = Len(files)
  BY <1>1, SetTypes
<1>3. handler' = [handler EXCEPT ![h].pc = "handling", ![h].reply = handler[h].reply]
  BY TypesParts DEF Types, BeginCase, BecomeHandler, HandlerStates
<1>4. UNCHANGED <<path, process, client, interrupted, overlapped, crashes>>
  BY DEF BeginCase
<1> QED BY <1>1, <1>2, <1>3, <1>4, MoveStep

LEMMA FinishTypes ==
    ASSUME Types, NEW h \in Posts, NEW status \in {"resolved", "escalated"}, FinishCase(h, status)
    PROVE  Types'
<1> DEFINE row == [CaseOf(h) EXCEPT !.status = status]
<1>1. handler[h].pc = "handling" /\ handler[h].file # 0 /\ row \in CaseRows /\ SetCase(h, row)
  BY CaseOfType DEF FinishCase, CaseRows
<1> HIDE DEF row
<1>2. SeedsKept /\ Len(files') = Len(files)
  BY <1>1, SetTypes
<1>3. handler' = [handler EXCEPT ![h].pc = "replying", ![h].reply = status]
  BY DEF FinishCase
<1>4. UNCHANGED <<path, process, client, interrupted, overlapped, crashes>>
  BY DEF FinishCase
<1> QED BY <1>1, <1>2, <1>3, <1>4, MoveStep

LEMMA FailTypes ==
    ASSUME Types, NEW h \in Posts, FailCase(h)
    PROVE  Types'
<1> DEFINE s == [handler[h] EXCEPT !.pc = "ended"]
<1>1. /\ path \in 0 .. Len(files) /\ handler \in [Posts -> HandlerStates(Len(files))]
      /\ SeedsKept /\ files' = files
  BY TypesParts, SameFiles DEF Types, FailCase
<1>2. s \in HandlerStates(Len(files)) /\ s.pc = "ended"
  <2>1. handler[h] \in HandlerStates(Len(files))
    BY <1>1
  <2> QED BY <2>1 DEF HandlerStates
<1>3. handler' = [handler EXCEPT ![h] = s]
  BY <1>1 DEF FailCase, BecomeHandler
<1>4. UNCHANGED <<path, process, client, interrupted, overlapped, crashes>>
  BY DEF FailCase
<1> HIDE DEF s
<1> QED BY <1>1, <1>2, <1>3, <1>4, HandlerStep

(* The steps of a client *)

LEMMA ClientStep ==
    ASSUME Types, UNCHANGED <<path, files, process, interrupted, overlapped, crashes>>,
           NEW k \in Clients, NEW where \in {"ready", "waiting", "answered", "gave_up"},
           NEW tries \in 0 .. MaxTries,
           where \in {"waiting", "answered"} => tries # 0,
           client' = [client EXCEPT ![k].pc = where, ![k].tries = tries],
           handler' \in [Posts -> HandlerStates(Len(files))],
           \A h \in Posts : handler'[h] = handler[h] \/ handler'[h].pc \in {"accepted", "ended"}
    PROVE  Types'
<1>1. /\ path \in 0 .. Len(files) /\ files \in Seq(Files) /\ client \in [Clients -> ClientStates]
  BY TypesParts DEF Types
<1>2. SeedsKept
  BY <1>1, SameFiles
<1>3. \A h \in Posts : handler'[h].pc \in {"connected", "inserted", "handling", "replying"} =>
                         handler'[h].file # 0
  BY <1>1, LenProperties DEF Types, Placed
<1>4. /\ client' \in [Clients -> ClientStates]
      /\ \A j \in Clients : client'[j].pc \in {"waiting", "answered"} => client'[j].tries # 0
  <2> DEFINE s == [client[k] EXCEPT !.pc = where, !.tries = tries]
  <2>0. client[k] \in ClientStates
    BY <1>1
  <2>1. s \in ClientStates /\ s.pc = where /\ s.tries = tries
    BY <2>0 DEF ClientStates
  <2>2. client' = [client EXCEPT ![k] = s]
    BY <1>1
  <2> HIDE DEF s
  <2> QED BY <1>1, <2>1, <2>2 DEF Types, Placed
<1> QED BY <1>1, <1>2, <1>3, <1>4, CaseStep

(* The try of a client that waits or was answered is one of its tries.     *)
LEMMA CurrentPost ==
    ASSUME Types, NEW k \in Clients, client[k].pc \in {"waiting", "answered"}
    PROVE  Current(k) \in Posts
BY TypesParts DEF Types, Placed, ClientStates, Current, Posts

LEMMA PostTypes ==
    ASSUME Types, NEW k \in Clients, NEW p \in Processes, Post(k, p)
    PROVE  Types'
<1> DEFINE tries == client[k].tries + 1
           s == [pc |-> "accepted", process |-> p, file |-> 0, reply |-> "none"]
<1>1. /\ handler \in [Posts -> HandlerStates(Len(files))] /\ client \in [Clients -> ClientStates]
      /\ Len(files) \in Nat
  BY TypesParts, LenProperties DEF Types
<1>2. tries \in 0 .. MaxTries /\ tries # 0 /\ <<k, tries>> \in Posts
  BY <1>1, BoundsAssumption DEF Post, ClientStates, Posts
<1>3. s \in HandlerStates(Len(files)) /\ s.pc = "accepted"
  BY <1>1 DEF HandlerStates
<1>4. handler' = [handler EXCEPT ![<<k, tries>>] = s]
  BY DEF Post
<1>5. client' = [client EXCEPT ![k].pc = "waiting", ![k].tries = tries]
  BY <1>1 DEF Post
<1>6. UNCHANGED <<path, files, process, interrupted, overlapped, crashes>>
  BY DEF Post
<1> HIDE DEF tries, s
<1>7. /\ handler' \in [Posts -> HandlerStates(Len(files))]
      /\ \A h \in Posts : handler'[h] = handler[h] \/ handler'[h].pc \in {"accepted", "ended"}
  BY <1>1, <1>2, <1>3, <1>4
<1> QED BY <1>2, <1>5, <1>6, <1>7, ClientStep

LEMMA AnswerTypes ==
    ASSUME Types, NEW k \in Clients, Answer(k)
    PROVE  Types'
<1>1. /\ handler \in [Posts -> HandlerStates(Len(files))] /\ client \in [Clients -> ClientStates]
  BY TypesParts DEF Types
<1>2. client[k].tries \in 0 .. MaxTries /\ client[k].tries # 0 /\ client[k].pc = "waiting"
  BY <1>1 DEF Answer, Waiting, Types, Placed, ClientStates
<1>3. client' = [client EXCEPT ![k].pc = "answered", ![k].tries = client[k].tries]
  BY <1>1 DEF Answer, ClientStates
<1>4. /\ handler' \in [Posts -> HandlerStates(Len(files))]
      /\ \A h \in Posts : handler'[h] = handler[h] \/ handler'[h].pc = "ended"
  BY <1>1 DEF Answer, BecomeHandler, HandlerStates
<1>5. UNCHANGED <<path, files, process, interrupted, overlapped, crashes>>
  BY DEF Answer
<1> QED BY <1>2, <1>3, <1>4, <1>5, ClientStep

LEMMA MissTypes ==
    ASSUME Types, NEW k \in Clients, Miss(k)
    PROVE  Types'
<1> DEFINE where == IF client[k].tries < MaxTries THEN "ready" ELSE "gave_up"
<1>1. /\ handler \in [Posts -> HandlerStates(Len(files))] /\ client \in [Clients -> ClientStates]
  BY TypesParts DEF Types
<1>2. client[k].tries \in 0 .. MaxTries /\ where \in {"ready", "gave_up"}
  BY <1>1 DEF ClientStates
<1>3. client' = [client EXCEPT ![k].pc = where, ![k].tries = client[k].tries]
  BY <1>1 DEF Miss, ClientStates
<1>4. UNCHANGED <<path, files, process, handler, interrupted, overlapped, crashes>>
  BY DEF Miss
<1> HIDE DEF where
<1> QED BY <1>1, <1>2, <1>3, <1>4, ClientStep

LEMMA NobodyTypes ==
    ASSUME Types, NEW k \in Clients, FindNobody(k)
    PROVE  Types'
<1> DEFINE tries == client[k].tries + 1
           where == IF tries < MaxTries THEN "ready" ELSE "gave_up"
<1>1. /\ handler \in [Posts -> HandlerStates(Len(files))] /\ client \in [Clients -> ClientStates]
  BY TypesParts DEF Types
<1>2. tries \in 0 .. MaxTries /\ where \in {"ready", "gave_up"}
  BY <1>1, BoundsAssumption DEF FindNobody, ClientStates
<1>3. client' = [client EXCEPT ![k].pc = where, ![k].tries = tries]
  BY <1>1 DEF FindNobody
<1>4. UNCHANGED <<path, files, process, handler, interrupted, overlapped, crashes>>
  BY DEF FindNobody
<1> HIDE DEF where, tries
<1> QED BY <1>1, <1>2, <1>3, <1>4, ClientStep

-----------------------------------------------------------------------------
LEMMA InitTypes == Init => Types
<1> SUFFICES ASSUME Init PROVE Types
  OBVIOUS
<1>1. files \in Seq(Files) /\ Len(files) = 0 /\ path = 0
  BY DEF Init
<1>2. process \in [Processes -> ProcessStates(0)] /\ \A p \in Processes : process[p].pc = "down"
  BY DEF Init, Down, ProcessStates, ProcessPlaces
<1>3. handler \in [Posts -> HandlerStates(0)] /\ \A h \in Posts : handler[h].pc = "none"
  BY DEF Init, HandlerStates
<1>4. client \in [Clients -> ClientStates] /\ \A k \in Clients : client[k].pc = "ready"
  BY BoundsAssumption DEF Init, ClientStates
<1>5. interrupted = FALSE /\ overlapped = FALSE /\ crashes = 0
  BY DEF Init
<1>6. ServiceTypeOK
  <2>1. /\ path \in 0 .. Len(files)
        /\ process \in [Processes -> ProcessStates(Len(files))]
        /\ handler \in [Posts -> HandlerStates(Len(files))]
    BY <1>1, <1>2, <1>3
  <2>2. interrupted \in BOOLEAN /\ overlapped \in BOOLEAN /\ crashes \in Nat
    BY <1>5
  <2> QED BY <1>1, <1>4, <2>1, <2>2, TypesParts
<1> QED BY <1>2, <1>3, <1>4, <1>6 DEF Types, Placed, OneSeeding

(* The steps there are.                                                    *)
LEMMA StepCases ==
    ASSUME [Next]_vars
    PROVE  \/ \E p \in Processes :
                  \/ CheckFileExists(p) \/ LookAgain(p) \/ UnlinkFile(p) \/ Connect(p)
                  \/ CreateSchema(p) \/ SeedDatabase(p) \/ CommitSeed(p) \/ LockedOut(p) \/ Crash(p)
           \/ \E h \in Posts :
                  \/ GetConn(h) \/ InsertCase(h) \/ BeginCase(h) \/ FailCase(h)
                  \/ \E s \in {"resolved", "escalated"} : FinishCase(h, s)
           \/ \E k \in Clients :
                  (\E p \in Processes : Post(k, p)) \/ Answer(k) \/ Miss(k) \/ FindNobody(k)
           \/ UNCHANGED vars
BY DEF Next, Start, Proceed, Handle, Finish

LEMMA StutterTypes == Types /\ UNCHANGED vars => Types'
BY DEF Types, ServiceTypeOK, Placed, OneSeeding, vars, Posts

LEMMA NextTypes == Types /\ [Next]_vars => Types'
BY StepCases, StutterTypes, CheckTypes, LookTypes, UnlinkTypes, ConnectTypes, SchemaTypes,
   SeedTypes, CommitTypes, LockedTypes, CrashTypes, GetConnTypes, InsertTypes, BeginTypes,
   FinishTypes, FailTypes, PostTypes, AnswerTypes, MissTypes, NobodyTypes

LEMMA AlwaysTypes == Spec => []Types
BY InitTypes, NextTypes, PTL DEF Spec

(* Every file, process, handler and client keeps its type: a start that is *)
(* past connect and a thread that is past get_conn have a file there was   *)
(* once, and no file is ever seeded twice, whatever crashes and overlaps.  *)
THEOREM ServiceTypeCorrect == Spec => []ServiceTypeOK
<1>1. Types => ServiceTypeOK
  BY DEF Types
<1> QED BY <1>1, AlwaysTypes, PTL

-----------------------------------------------------------------------------
(* Starts that do not overlap.  The first start that gets as far as        *)
(* connect makes the file; from then on it stays at the path, and whoever  *)
(* serves or handles a case has that file.                                 *)

Open(h) == handler[h].pc \in {"connected", "inserted", "handling", "replying"}

Orderly ==
    /\ \A p, q \in Processes : Starting(p) /\ Starting(q) => p = q
    /\ \A p \in Processes :
           /\ process[p].pc \in {"fresh", "unlink", "connect"} => path = 0
           /\ process[p].pc \in {"schema", "seed", "commit"} => path # 0 /\ process[p].file = path
           /\ Serving(p) => path # 0 /\ \A q \in Processes : ~Starting(q)
    /\ \A h \in Posts :
           /\ handler[h].pc \notin {"none", "ended"} => path # 0
           /\ Open(h) => handler[h].file = path

OrderlyInv == ~overlapped => Orderly

(* A start that moves on while it is the only one.                         *)
LEMMA OrderlyStart ==
    ASSUME Types, Orderly, NEW p \in Processes, NEW ACTION f, NEW where \in ProcessPlaces,
           BecomeProcess(p, where, f), UNCHANGED handler,
           Starting(p) \/ (where \in {"fresh", "serving"} /\ \A q \in Processes : ~Starting(q)),
           where \in {"fresh", "unlink", "connect"} => path' = 0,
           where \in {"schema", "seed", "commit"} => path' # 0 /\ f = path',
           where = "serving" => path' # 0,
           path # 0 => path' = path
    PROVE  Orderly'
<1>1. /\ process'[p].pc = where /\ process'[p].file = f
      /\ \A q \in Processes \ {p} : process'[q] = process[q]
  BY TypesParts DEF Types, BecomeProcess
<1>2. \A q \in Processes \ {p} : ~Starting(q)' /\ (Serving(q)' <=> Serving(q))
  BY <1>1 DEF Orderly, Starting, Serving
<1>3. \A q, r \in Processes : Starting(q)' /\ Starting(r)' => q = r
  BY <1>2
<1>4. \A h \in Posts : /\ handler'[h].pc \notin {"none", "ended"} => path' # 0
                       /\ Open(h)' => handler'[h].file = path'
  BY DEF Orderly, Open
<1>5. /\ process'[p].pc \in {"fresh", "unlink", "connect"} => path' = 0
      /\ process'[p].pc \in {"schema", "seed", "commit"} => path' # 0 /\ process'[p].file = path'
      /\ Serving(p)' => path' # 0 /\ \A q \in Processes : ~Starting(q)'
  BY <1>1, <1>2 DEF Serving, Starting
<1>6. ASSUME NEW q \in Processes \ {p}
      PROVE  /\ process'[q].pc \in {"fresh", "unlink", "connect"} => path' = 0
             /\ process'[q].pc \in {"schema", "seed", "commit"} => path' # 0 /\ process'[q].file = path'
             /\ Serving(q)' => path' # 0 /\ \A r \in Processes : ~Starting(r)'
  <2>1. process'[q].pc \notin {"fresh", "unlink", "connect", "schema", "seed", "commit"}
    BY <1>2 DEF Starting
  <2>2. ASSUME Serving(q)'
        PROVE  path' # 0 /\ ~Starting(p)'
    <3>1. path # 0 /\ ~Starting(p) /\ path' = path
      BY <1>2, <2>2 DEF Orderly
    <3> QED BY <1>1, <3>1 DEF Starting
  <2> QED BY <1>2, <2>1, <2>2
<1>7. \A q \in Processes :
          /\ process'[q].pc \in {"fresh", "unlink", "connect"} => path' = 0
          /\ process'[q].pc \in {"schema", "seed", "commit"} => path' # 0 /\ process'[q].file = path'
          /\ Serving(q)' => path' # 0 /\ \A r \in Processes : ~Starting(r)'
  BY <1>5, <1>6
<1> QED BY <1>3, <1>4, <1>7 DEF Orderly

(* A step of the cases, when there is a file.                              *)
LEMMA OrderlyCase ==
    ASSUME Orderly, UNCHANGED <<process, path>>,
           \A h \in Posts : \/ handler'[h] = handler[h]
                            \/ path # 0 /\ (Open(h)' => handler'[h].file = path)
    PROVE  Orderly'
BY DEF Orderly, Open, Starting, Serving

(* The only start there is, with nobody serving, waits for no lock.        *)
LEMMA NotLockedOut ==
    ASSUME Orderly, NEW p \in Processes, LockedOut(p)
    PROVE  FALSE
<1>1. Starting(p)
  BY DEF LockedOut, Starting
<1>2. ASSUME NEW f, Contended(p, f)
      PROVE  FALSE
  <2>1. PICK q \in Processes \ {p} : Serving(q) \/ Starting(q)
    BY <1>2 DEF Contended, Starting
  <2> QED BY <1>1, <2>1 DEF Orderly
<1> QED BY <1>2 DEF LockedOut

LEMMA OrderlyStarts ==
    ASSUME Types, OrderlyInv, ~overlapped', NEW p \in Processes, Start(p)
    PROVE  Orderly' /\ ~overlapped /\ (path # 0 => path' = path)
<1>0. overlapped \in BOOLEAN
  BY TypesParts DEF Types
<1>1. ~overlapped /\ UNCHANGED handler
  <2>1. CASE CheckFileExists(p)
    BY <1>0, <2>1 DEF CheckFileExists
  <2>2. CASE LookAgain(p) \/ UnlinkFile(p) \/ Connect(p)
    BY <2>2 DEF LookAgain, UnlinkFile, Connect
  <2>3. CASE CreateSchema(p) \/ SeedDatabase(p) \/ CommitSeed(p) \/ LockedOut(p)
    BY <2>3 DEF CreateSchema, SeedDatabase, CommitSeed, LockedOut
  <2> QED BY <2>1, <2>2, <2>3 DEF Start, Proceed
<1>2. Orderly
  BY <1>1 DEF OrderlyInv
<1>3. CASE CheckFileExists(p)
  <2>1. \A q \in Processes : ~Starting(q)
    BY <1>3 DEF CheckFileExists
  <2>2. path' = path
    BY <1>3 DEF CheckFileExists
  <2>3. CASE path = 0
    BY <1>1, <1>2, <1>3, <2>1, <2>2, <2>3, OrderlyStart DEF CheckFileExists, ProcessPlaces
  <2>4. CASE path # 0
    BY <1>1, <1>2, <1>3, <2>1, <2>2, <2>4, OrderlyStart DEF CheckFileExists, ProcessPlaces
  <2> QED BY <2>3, <2>4
<1>4. CASE UnlinkFile(p)
  <2>1. Starting(p) /\ path = 0
    BY <1>2, <1>4 DEF UnlinkFile, Starting, Orderly
  <2> QED BY <1>1, <1>2, <1>4, <2>1, OrderlyStart DEF UnlinkFile, ProcessPlaces
<1>9. CASE LookAgain(p)
  <2>1. Starting(p) /\ path = 0
    BY <1>2, <1>9 DEF LookAgain, Starting, Orderly
  <2> QED BY <1>1, <1>2, <1>9, <2>1, OrderlyStart DEF LookAgain, ProcessPlaces
<1>10. CASE LockedOut(p)
  BY <1>2, <1>10, NotLockedOut
<1>5. CASE Connect(p)
  <2>1. Starting(p) /\ path = 0
    BY <1>2, <1>5 DEF Connect, Starting, Orderly
  <2>2. path' # 0
    BY <1>5, <2>1, TypesParts, LenProperties DEF Connect, Types
  <2> QED BY <1>1, <1>2, <1>5, <2>1, <2>2, OrderlyStart DEF Connect, ProcessPlaces
<1>6. CASE CreateSchema(p)
  <2>1. Starting(p) /\ path # 0 /\ process[p].file = path /\ path' = path
    BY <1>2, <1>6 DEF CreateSchema, Starting, Orderly
  <2> QED BY <1>1, <1>2, <1>6, <2>1, OrderlyStart DEF CreateSchema, ProcessPlaces
<1>7. CASE SeedDatabase(p)
  <2>1. Starting(p) /\ path # 0 /\ process[p].file = path /\ path' = path
    BY <1>2, <1>7 DEF SeedDatabase, Starting, Orderly
  <2>2. BecomeProcess(p, "failed", 0) \/ BecomeProcess(p, "commit", path)
    BY <1>7, <2>1 DEF SeedDatabase
  <2> QED BY <1>1, <1>2, <2>1, <2>2, OrderlyStart DEF ProcessPlaces
<1>8. CASE CommitSeed(p)
  <2>1. Starting(p) /\ path # 0 /\ path' = path
    BY <1>2, <1>8 DEF CommitSeed, Starting, Orderly
  <2> QED BY <1>1, <1>2, <1>8, <2>1, OrderlyStart DEF CommitSeed, ProcessPlaces
<1> QED BY <1>3, <1>4, <1>5, <1>6, <1>7, <1>8, <1>9, <1>10 DEF Start, Proceed

LEMMA OrderlyCrash ==
    ASSUME Types, Orderly, NEW p \in Processes, Crash(p)
    PROVE  Orderly'
<1>1. /\ process'[p].pc = "down" /\ path' = path
      /\ \A q \in Processes \ {p} : process'[q] = process[q]
  BY TypesParts DEF Types, Crash, Down
<1>2. \A h \in Posts : handler'[h].pc = "ended" \/ handler'[h] = handler[h]
  BY TypesParts DEF Types, Crash, HandlerStates
<1>3. \A h \in Posts : /\ handler'[h].pc \notin {"none", "ended"} => path' # 0
                       /\ Open(h)' => handler'[h].file = path'
  BY <1>1, <1>2 DEF Orderly, Open
<1> QED BY <1>1, <1>3 DEF Orderly, Starting, Serving

(* What a step of the cases does to the handlers.                          *)
CaseStepOf(h) ==
    \/ GetConn(h) \/ InsertCase(h) \/ BeginCase(h) \/ FailCase(h)
    \/ \E s \in {"resolved", "escalated"} : FinishCase(h, s)

ClientStepOf(k) == (\E p \in Processes : Post(k, p)) \/ Answer(k) \/ Miss(k) \/ FindNobody(k)

LEMMA CasesLeave ==
    ASSUME NEW h \in Posts, CaseStepOf(h)
    PROVE  UNCHANGED <<process, client, interrupted, overlapped, crashes>>
<1>1. CASE GetConn(h) \/ InsertCase(h) \/ BeginCase(h)
  BY <1>1 DEF GetConn, InsertCase, BeginCase
<1>2. CASE FailCase(h) \/ \E s \in {"resolved", "escalated"} : FinishCase(h, s)
  BY <1>2 DEF FailCase, FinishCase
<1> QED BY <1>1, <1>2 DEF CaseStepOf

LEMMA ClientsLeave ==
    ASSUME NEW k \in Clients, ClientStepOf(k)
    PROVE  UNCHANGED <<path, files, process, interrupted, overlapped, crashes>>
<1>1. CASE \E p \in Processes : Post(k, p)
  BY <1>1 DEF Post
<1>2. CASE Answer(k) \/ Miss(k) \/ FindNobody(k)
  BY <1>2 DEF Answer, Miss, FindNobody
<1> QED BY <1>1, <1>2 DEF ClientStepOf

(* A handler that was accepted found a file at the path.                   *)
LEMMA OrderlyCases ==
    ASSUME Types, Orderly, NEW h \in Posts, CaseStepOf(h)
    PROVE  Orderly' /\ path # 0 /\ path' = path
<1>1. /\ handler \in [Posts -> HandlerStates(Len(files))] /\ UNCHANGED process
  BY TypesParts, CasesLeave DEF Types
<1>2. CASE GetConn(h)
  <2>1. path # 0 /\ path' = path
    BY <1>2 DEF GetConn, Orderly
  <2>2. \A g \in Posts \ {h} : handler'[g] = handler[g]
    BY <1>1, <1>2 DEF GetConn
  <2>3. handler'[h].file = path
    BY <1>1, <1>2, <2>1 DEF GetConn, HandlerStates
  <2>4. \A g \in Posts : \/ handler'[g] = handler[g]
                         \/ path # 0 /\ (Open(g)' => handler'[g].file = path)
    BY <2>1, <2>2, <2>3
  <2> QED BY <1>1, <2>1, <2>4, OrderlyCase
<1>4. CASE FailCase(h)
  <2>1. path # 0 /\ path' = path
    BY <1>4 DEF FailCase, Orderly
  <2>2. \A g \in Posts : handler'[g] = handler[g] \/ handler'[g].pc = "ended"
    BY <1>1, <1>4 DEF FailCase, BecomeHandler, HandlerStates
  <2>3. \A g \in Posts : \/ handler'[g] = handler[g]
                         \/ path # 0 /\ (Open(g)' => handler'[g].file = path)
    BY <2>1, <2>2 DEF Open
  <2> QED BY <1>1, <2>1, <2>3, OrderlyCase
<1>3. CASE ~GetConn(h) /\ ~FailCase(h)
  <2>1. Open(h) /\ path' = path
    BY <1>3 DEF CaseStepOf, Open, InsertCase, BeginCase, FinishCase
  <2>2. path # 0 /\ handler[h].file = path
    BY <2>1 DEF Orderly, Open
  <2>3. \A g \in Posts : handler'[g].file = handler[g].file
    <3>1. CASE \E s \in {"resolved", "escalated"} : FinishCase(h, s)
      BY <1>1, <3>1 DEF FinishCase, HandlerStates
    <3>2. CASE InsertCase(h) \/ BeginCase(h)
      <4>1. \E where \in {"inserted", "handling"} : BecomeHandler(h, where)
        BY <3>2 DEF InsertCase, BeginCase
      <4> QED BY <1>1, <4>1 DEF BecomeHandler, HandlerStates
    <3> QED BY <1>3, <3>1, <3>2 DEF CaseStepOf
  <2>4. \A g \in Posts \ {h} : handler'[g] = handler[g]
    BY <1>1, <1>3 DEF CaseStepOf, InsertCase, BeginCase, FinishCase, BecomeHandler
  <2>5. \A g \in Posts : \/ handler'[g] = handler[g]
                         \/ path # 0 /\ (Open(g)' => handler'[g].file = path)
    BY <2>2, <2>3, <2>4
  <2> QED BY <1>1, <2>1, <2>2, <2>5, OrderlyCase
<1> QED BY <1>2, <1>3, <1>4

LEMMA OrderlyClients ==
    ASSUME Types, Orderly, NEW k \in Clients, ClientStepOf(k)
    PROVE  Orderly' /\ path' = path
<1>1. /\ handler \in [Posts -> HandlerStates(Len(files))] /\ UNCHANGED <<process, path>>
  BY TypesParts, ClientsLeave DEF Types
<1>2. CASE \E p \in Processes : Post(k, p)
  <2>1. path # 0
    BY <1>2 DEF Post, Orderly
  <2>2. \A g \in Posts : handler'[g] = handler[g] \/ handler'[g].pc = "accepted"
    BY <1>1, <1>2 DEF Post
  <2>3. \A g \in Posts : \/ handler'[g] = handler[g]
                         \/ path # 0 /\ (Open(g)' => handler'[g].file = path)
    BY <2>1, <2>2 DEF Open
  <2> QED BY <1>1, <2>3, OrderlyCase
<1>3. CASE Answer(k)
  <2>1. \A g \in Posts : handler'[g] = handler[g] \/ handler'[g].pc = "ended"
    BY <1>1, <1>3 DEF Answer, BecomeHandler, HandlerStates
  <2> QED BY <1>1, <2>1 DEF Orderly, Open, Starting, Serving
<1>4. CASE Miss(k) \/ FindNobody(k)
  <2>1. \A g \in Posts : handler'[g] = handler[g]
    BY <1>4 DEF Miss, FindNobody
  <2> QED BY <1>1, <2>1, OrderlyCase
<1> QED BY <1>2, <1>3, <1>4 DEF ClientStepOf

(* The steps there are, by who takes them.                                 *)
LEMMA StepsBy ==
    ASSUME [Next]_vars
    PROVE  \/ \E p \in Processes : Start(p) \/ Crash(p)
           \/ \E h \in Posts : CaseStepOf(h)
           \/ \E k \in Clients : ClientStepOf(k)
           \/ UNCHANGED vars
BY DEF Next, Handle, Finish, CaseStepOf, ClientStepOf

LEMMA NextOrderly ==
    ASSUME Types, OrderlyInv, [Next]_vars
    PROVE  OrderlyInv'
<1> SUFFICES ASSUME ~overlapped' PROVE Orderly'
  BY DEF OrderlyInv
<1>1. CASE \E p \in Processes : Start(p)
  BY <1>1, OrderlyStarts
<1>2. CASE \E p \in Processes : Crash(p)
  <2>1. ~overlapped
    BY <1>2 DEF Crash
  <2> QED BY <1>2, <2>1, OrderlyCrash DEF OrderlyInv
<1>3. CASE \E h \in Posts : CaseStepOf(h)
  BY <1>3, OrderlyCases, CasesLeave DEF OrderlyInv
<1>4. CASE \E k \in Clients : ClientStepOf(k)
  BY <1>4, OrderlyClients, ClientsLeave DEF OrderlyInv
<1>5. CASE UNCHANGED vars
  BY <1>5 DEF OrderlyInv, Orderly, Open, Starting, Serving, vars, Posts
<1> QED BY <1>1, <1>2, <1>3, <1>4, <1>5, StepsBy

LEMMA AlwaysOrderly == Spec => []OrderlyInv
<1>1. Init => OrderlyInv
  BY DEF Init, OrderlyInv, Orderly, Open, Starting, Serving, Down
<1> QED BY <1>1, NextOrderly, AlwaysTypes, PTL DEF Spec

-----------------------------------------------------------------------------
(* What the cases do to the files: no file loses its seed or its schema,   *)
(* and a handler writes no row but its own.                                *)

SchemaKept == \A f \in 1 .. Len(files) : files[f].schema => files'[f].schema
RowKept(g) == \A f \in 1 .. Len(files) : files'[f].cases[g] = files[f].cases[g]

LEMMA SetFiles ==
    ASSUME Types, NEW h \in Posts, handler[h].file # 0, NEW STATE row, row \in CaseRows, SetCase(h, row)
    PROVE  /\ SeedsKept /\ SchemaKept
           /\ \A g \in Posts \ {h} : RowKept(g)
           /\ files'[handler[h].file].cases[h] = row
<1> DEFINE f == handler[h].file
           x == [files[f] EXCEPT !.cases = [files[f].cases EXCEPT ![h] = row]]
<1>1. /\ files \in Seq(Files) /\ f \in 1 .. Len(files) /\ files[f].cases \in [Posts -> CaseRows]
      /\ files[f] \in Files
  <2>1. files \in Seq(Files) /\ f \in 1 .. Len(files)
    BY TypesParts, LenProperties DEF Types, HandlerStates
  <2> QED BY <2>1, FileFields
<1>2. /\ x \in Files /\ x.schema = files[f].schema
      /\ x.cases = [files[f].cases EXCEPT ![h] = row]
  BY <1>1, FileFields DEF Files
<1>3. files' = [files EXCEPT ![f] = x] /\ SeedsKept
  BY SetTypes DEF SetCase
<1>4. /\ x.cases[h] = row
      /\ \A g \in Posts \ {h} : x.cases[g] = files[f].cases[g]
  BY <1>1, <1>2
<1> HIDE DEF f, x
<1>5. /\ files'[f] = x
      /\ \A g \in 1 .. Len(files) : g # f => files'[g] = files[g]
  BY <1>1, <1>2, <1>3, UpdatedFile
<1>6. SchemaKept
  BY <1>2, <1>5 DEF SchemaKept
<1>7. \A g \in Posts \ {h} : RowKept(g)
  BY <1>4, <1>5 DEF RowKept
<1> QED BY <1>3, <1>4, <1>5, <1>6, <1>7 DEF f

LEMMA GetConnFiles ==
    ASSUME Types, NEW h \in Posts, GetConn(h)
    PROVE  /\ SeedsKept /\ SchemaKept
           /\ \A g \in Posts : RowKept(g)
<1>1. /\ path \in 0 .. Len(files) /\ files \in Seq(Files) /\ Len(files) \in Nat
  BY TypesParts, LenProperties DEF Types
<1>2. CASE path = 0
  <2> DEFINE x == [EmptyFile EXCEPT !.schema = TRUE]
  <2>1. x \in Files /\ files' = Append(files, x)
    BY <1>2, EmptyFileType DEF GetConn
  <2> HIDE DEF x
  <2>2. SeedsKept /\ \A g \in 1 .. Len(files) : files'[g] = files[g]
    BY <1>1, <2>1, NewFile, AddedFile
  <2> QED BY <2>2 DEF SchemaKept, RowKept
<1>3. CASE path # 0
  <2> DEFINE y == [files[path] EXCEPT !.schema = TRUE]
  <2>1. path \in 1 .. Len(files) /\ files' = [files EXCEPT ![path] = y] /\ path' = path
    BY <1>1, <1>3 DEF GetConn
  <2>2. /\ y \in Files /\ y.seeds = files[path].seeds /\ y.schema = TRUE
        /\ y.cases = files[path].cases
    BY <1>1, <2>1, FileFields DEF Files
  <2> HIDE DEF y
  <2>3. /\ SeedsKept /\ files'[path] = y
        /\ \A g \in 1 .. Len(files) : g # path => files'[g] = files[g]
    BY <1>1, <2>1, <2>2, WrittenFile, UpdatedFile
  <2> QED BY <2>2, <2>3 DEF SchemaKept, RowKept
<1> QED BY <1>2, <1>3

(* What a handler that moves on leaves in its row.                         *)
LEMMA HandlerRows ==
    ASSUME Types, NEW h \in Posts
    PROVE  /\ InsertCase(h) => \E row \in CaseRows : SetCase(h, row)
           /\ BeginCase(h) => \E row \in CaseRows : SetCase(h, row) /\ row.trail = TRUE
           /\ \A s \in {"resolved", "escalated"} : FinishCase(h, s) =>
                  \E row \in CaseRows : SetCase(h, row) /\ row.trail = CaseOf(h).trail
                                                        /\ row.status = s
<1>1. InsertCase(h) => \E row \in CaseRows : SetCase(h, row)
  BY DEF InsertCase, CaseRows
<1>2. ASSUME BeginCase(h)
      PROVE  \E row \in CaseRows : SetCase(h, row) /\ row.trail = TRUE
  <2>1. CaseOf(h) \in CaseRows
    BY <1>2, CaseOfType DEF BeginCase
  <2>2. [CaseOf(h) EXCEPT !.trail = TRUE] \in CaseRows /\ [CaseOf(h) EXCEPT !.trail = TRUE].trail = TRUE
    BY <2>1 DEF CaseRows
  <2> QED BY <1>2, <2>2 DEF BeginCase
<1>3. ASSUME NEW s \in {"resolved", "escalated"}, FinishCase(h, s)
      PROVE  \E row \in CaseRows : SetCase(h, row) /\ row.trail = CaseOf(h).trail /\ row.status = s
  <2>1. CaseOf(h) \in CaseRows
    BY <1>3, CaseOfType DEF FinishCase
  <2>2. /\ [CaseOf(h) EXCEPT !.status = s] \in CaseRows
        /\ [CaseOf(h) EXCEPT !.status = s].trail = CaseOf(h).trail
        /\ [CaseOf(h) EXCEPT !.status = s].status = s
    BY <2>1 DEF CaseRows
  <2> QED BY <1>3, <2>2 DEF FinishCase
<1> QED BY <1>1, <1>2, <1>3

LEMMA CaseFiles ==
    ASSUME Types, NEW h \in Posts, CaseStepOf(h)
    PROVE  /\ SeedsKept /\ SchemaKept
           /\ \A g \in Posts \ {h} : RowKept(g)
<1>1. CASE GetConn(h)
  BY <1>1, GetConnFiles
<1>2. CASE FailCase(h)
  BY <1>2, TypesParts, SameFiles DEF Types, FailCase, SchemaKept, RowKept
<1>3. ASSUME NEW STATE row, row \in CaseRows, SetCase(h, row), Open(h)
      PROVE  SeedsKept /\ SchemaKept /\ \A g \in Posts \ {h} : RowKept(g)
  <2>1. handler[h].file # 0
    BY <1>3, CaseOfType DEF Open
  <2> QED BY <1>3, <2>1, SetFiles
<1>4. CASE InsertCase(h) \/ BeginCase(h) \/ \E s \in {"resolved", "escalated"} : FinishCase(h, s)
  <2>1. Open(h)
    BY <1>4 DEF Open, InsertCase, BeginCase, FinishCase
  <2>2. \E row \in CaseRows : SetCase(h, row)
    BY <1>4, HandlerRows
  <2> QED BY <1>3, <2>1, <2>2
<1> QED BY <1>1, <1>2, <1>4 DEF CaseStepOf

-----------------------------------------------------------------------------
(* The seed *)

Seeded ==
    /\ \A p \in Processes :
           /\ process[p].pc \in {"schema", "seed", "commit"} => files[path].seeds = 0
           /\ process[p].pc \in {"seed", "commit"} => files[path].schema
    /\ path # 0 /\ (\A p \in Processes : ~Starting(p)) =>
           files[path].schema /\ files[path].seeds = 1

SeededInv == ~interrupted /\ ~overlapped => Seeded

LEMMA SeededStarts ==
    ASSUME Types, Orderly, Seeded, NEW p \in Processes, Start(p), ~overlapped'
    PROVE  Seeded'
<1>1. /\ path \in 0 .. Len(files) /\ files \in Seq(Files) /\ Len(files) \in Nat
      /\ process \in [Processes -> ProcessStates(Len(files))] /\ overlapped \in BOOLEAN
  BY TypesParts, LenProperties DEF Types
<1>2. \A where, f : BecomeProcess(p, where, f) =>
          /\ process'[p].pc = where
          /\ \A q \in Processes \ {p} : process'[q] = process[q]
  BY <1>1 DEF BecomeProcess
<1>3. CASE CheckFileExists(p)
  <2>1. \A q \in Processes : ~Starting(q)
    BY <1>1, <1>3 DEF CheckFileExists
  <2>2. /\ path' = path /\ files' = files
        /\ process'[p].pc = IF path = 0 THEN "fresh" ELSE "serving"
        /\ \A q \in Processes \ {p} : process'[q] = process[q]
    BY <1>2, <1>3 DEF CheckFileExists
  <2> QED BY <2>1, <2>2 DEF Seeded, Starting
<1> SUFFICES ASSUME ~CheckFileExists(p) PROVE Seeded'
  BY <1>3
<1>4. \A q \in Processes \ {p} : ~Starting(q)
  BY DEF Start, Proceed, Orderly, Starting, LookAgain, UnlinkFile, Connect, CreateSchema,
         SeedDatabase, CommitSeed, LockedOut
<1>5. CASE UnlinkFile(p)
  <2>1. /\ path' = 0 /\ process'[p].pc \in {"connect", "failed"}
        /\ \A q \in Processes \ {p} : process'[q] = process[q]
    BY <1>2, <1>5 DEF UnlinkFile
  <2> QED BY <1>4, <2>1 DEF Seeded, Starting
<1>10. CASE LookAgain(p)
  <2>1. /\ path' = path /\ path = 0 /\ process'[p].pc = "connect"
        /\ \A q \in Processes \ {p} : process'[q] = process[q]
    BY <1>2, <1>10 DEF LookAgain, Orderly
  <2> QED BY <1>4, <2>1 DEF Seeded, Starting
<1>11. CASE LockedOut(p)
  BY <1>11, NotLockedOut
<1>6. CASE Connect(p)
  <2>1. /\ process'[p].pc = "schema" /\ path = 0
        /\ \A q \in Processes \ {p} : process'[q] = process[q]
    BY <1>2, <1>6 DEF Connect, Orderly
  <2>2. path' = Len(files) + 1 /\ files' = Append(files, EmptyFile)
    BY <1>6, <2>1 DEF Connect
  <2>3. files'[path'] = EmptyFile
    BY <1>1, <2>2, AddedFile, EmptyFileType
  <2>4. files'[path'].seeds = 0
    BY <2>3 DEF EmptyFile
  <2> QED BY <1>4, <2>1, <2>4 DEF Seeded, Starting
<1>7. CASE CreateSchema(p)
  <2> DEFINE y == [files[path] EXCEPT !.schema = TRUE]
  <2>1. /\ process'[p].pc = "seed" /\ path' = path
        /\ \A q \in Processes \ {p} : process'[q] = process[q]
    BY <1>2, <1>7 DEF CreateSchema
  <2>2. /\ path # 0 /\ process[p].file = path /\ files[path].seeds = 0
    BY <1>7 DEF CreateSchema, Orderly, Seeded
  <2>3. path \in 1 .. Len(files) /\ files' = [files EXCEPT ![path] = y]
    BY <1>1, <1>7, <2>2 DEF CreateSchema
  <2>4. y \in Files /\ y.seeds = 0 /\ y.schema = TRUE
    <3>1. files[path] \in Files /\ y \in Files
      BY <1>1, <2>2, <2>3, FileFields
    <3> QED BY <2>2, <3>1 DEF Files
  <2> HIDE DEF y
  <2>5. files'[path] = y
    BY <1>1, <2>3, <2>4, UpdatedFile
  <2> QED BY <1>4, <2>1, <2>4, <2>5 DEF Seeded, Starting
<1>8. CASE SeedDatabase(p)
  <2>1. path # 0 /\ process[p].file = path /\ files[path].seeds = 0 /\ files[path].schema
    BY <1>8 DEF SeedDatabase, Orderly, Seeded
  <2>2. ~Seeding(path)
    <3>1. \A q \in Processes : process[q].pc # "commit"
      BY <1>4, <1>8 DEF SeedDatabase, Starting
    <3> QED BY <3>1, SeedingIs DEF Types
  <2>3. BecomeProcess(p, "commit", path) /\ path' = path /\ files' = files
    BY <1>8, <2>1, <2>2 DEF SeedDatabase
  <2>4. /\ process'[p].pc = "commit"
        /\ \A q \in Processes \ {p} : process'[q] = process[q]
    BY <1>2, <2>3
  <2> QED BY <1>4, <2>1, <2>3, <2>4 DEF Seeded, Starting
<1>9. CASE CommitSeed(p)
  <2> DEFINE y == [files[path] EXCEPT !.seeds = files[path].seeds + 1]
  <2>1. /\ process'[p].pc = "serving" /\ path' = path
        /\ \A q \in Processes \ {p} : process'[q] = process[q]
    BY <1>2, <1>9 DEF CommitSeed
  <2>2. path # 0 /\ process[p].file = path /\ files[path].seeds = 0 /\ files[path].schema
    BY <1>9 DEF CommitSeed, Orderly, Seeded
  <2>3. path \in 1 .. Len(files) /\ files' = [files EXCEPT ![path] = y]
    BY <1>1, <1>9, <2>2 DEF CommitSeed
  <2>4. y \in Files /\ y.seeds = 1 /\ y.schema
    <3>1. files[path] \in Files /\ y \in Files
      BY <1>1, <2>2, <2>3, FileFields
    <3> QED BY <2>2, <3>1 DEF Files
  <2> HIDE DEF y
  <2>5. files'[path] = y
    BY <1>1, <2>3, <2>4, UpdatedFile
  <2> QED BY <1>4, <2>1, <2>4, <2>5 DEF Seeded, Starting
<1> QED BY <1>5, <1>6, <1>7, <1>8, <1>9, <1>10, <1>11 DEF Start, Proceed

LEMMA SeededCrash ==
    ASSUME Types, Orderly, Seeded, NEW p \in Processes, Crash(p), ~interrupted'
    PROVE  Seeded'
<1>1. /\ process'[p].pc = "down" /\ path' = path /\ files' = files
      /\ \A q \in Processes \ {p} : process'[q] = process[q]
  BY TypesParts DEF Types, Crash, Down
<1>2. process[p].pc \notin {"schema", "seed", "commit"}
  BY TypesParts DEF Types, Crash
<1>3. Starting(p) => path = 0
  BY <1>2 DEF Orderly, Starting
<1> QED BY <1>1, <1>3 DEF Seeded, Starting

LEMMA SeededCase ==
    ASSUME Types, Seeded, UNCHANGED <<process, path>>, path # 0, SeedsKept, SchemaKept
    PROVE  Seeded'
<1>1. path \in 1 .. Len(files)
  BY TypesParts, LenProperties DEF Types
<1>2. files'[path].seeds = files[path].seeds /\ (files[path].schema => files'[path].schema)
  BY <1>1 DEF SeedsKept, SchemaKept
<1> QED BY <1>2 DEF Seeded, Starting

LEMMA NextSeeded ==
    ASSUME Types, OrderlyInv, SeededInv, [Next]_vars
    PROVE  SeededInv'
<1> SUFFICES ASSUME ~interrupted', ~overlapped' PROVE Seeded'
  BY DEF SeededInv
<1>0. interrupted \in BOOLEAN /\ overlapped \in BOOLEAN
  BY TypesParts DEF Types
<1>1. ASSUME NEW p \in Processes, Start(p)
      PROVE  Seeded'
  <2>1. ~overlapped
    BY <1>1, OrderlyStarts
  <2>2. interrupted' = interrupted
    BY <1>1 DEF Start, Proceed, CheckFileExists, LookAgain, UnlinkFile, Connect, CreateSchema,
                SeedDatabase, CommitSeed, LockedOut
  <2> QED BY <1>1, <2>1, <2>2, SeededStarts DEF OrderlyInv, SeededInv
<1>2. ASSUME NEW p \in Processes, Crash(p)
      PROVE  Seeded'
  <2>1. ~overlapped /\ ~interrupted
    BY <1>0, <1>2 DEF Crash
  <2> QED BY <1>2, <2>1, SeededCrash DEF OrderlyInv, SeededInv
<1>3. ASSUME NEW h \in Posts, CaseStepOf(h)
      PROVE  Seeded'
  <2>1. ~overlapped /\ ~interrupted /\ UNCHANGED process
    BY <1>3, CasesLeave
  <2>2. path # 0 /\ path' = path
    BY <1>3, <2>1, OrderlyCases DEF OrderlyInv
  <2> QED BY <1>3, <2>1, <2>2, CaseFiles, SeededCase DEF SeededInv
<1>4. ASSUME NEW k \in Clients, ClientStepOf(k)
      PROVE  Seeded'
  BY <1>4, ClientsLeave DEF SeededInv, Seeded, Starting
<1>5. CASE UNCHANGED vars
  BY <1>5 DEF SeededInv, Seeded, Starting, vars
<1> QED BY <1>1, <1>2, <1>3, <1>4, <1>5, StepsBy

LEMMA AlwaysSeeded == Spec => []SeededInv
<1>1. Init => SeededInv
  BY DEF Init, SeededInv, Seeded, Starting, Down
<1> QED BY <1>1, NextSeeded, AlwaysOrderly, AlwaysTypes, PTL DEF Spec

(* A process that serves finds the schema and exactly one seed in the      *)
(* database, for any number of processes, crashes and restarts, as long as *)
(* no two starts overlapped and no crash hit a start that had already      *)
(* created the file: the two exceptions are all there are.                 *)
THEOREM StartsSeed == Spec => []SeededUnlessInterrupted
<1>1. OrderlyInv /\ SeededInv => SeededUnlessInterrupted
  BY DEF OrderlyInv, SeededInv, SeededUnlessInterrupted, Orderly, Seeded
<1> QED BY <1>1, AlwaysOrderly, AlwaysSeeded, PTL

-----------------------------------------------------------------------------
(* Answers *)

Settled(k) ==
    /\ client[k].pc = "answered" /\ path # 0
    /\ handler[Current(k)].pc = "ended"
    /\ files[path].cases[Current(k)].trail = TRUE
    /\ files[path].cases[Current(k)].status = handler[Current(k)].reply

Written ==
    /\ \A h \in Posts :
           /\ handler[h].pc \in {"handling", "replying"} => CaseOf(h).trail = TRUE
           /\ handler[h].pc = "replying" => CaseOf(h).status = handler[h].reply
    /\ \A k \in Clients : client[k].pc = "answered" => Settled(k)

WrittenInv == ~overlapped => Written

(* What a step may do to the row and the handler of a post: leave both     *)
(* alone, end the handler, or move on a handler that has not ended.        *)
Untouched(h) ==
    /\ RowKept(h)
    /\ \/ handler'[h] = handler[h]
       \/ handler'[h].pc = "ended" /\ handler'[h].reply = handler[h].reply

Progresses(h) ==
    /\ \A k \in Clients : client[k].pc = "answered" => Current(k) # h
    /\ handler'[h].pc \in {"handling", "replying"} => CaseOf(h)'.trail = TRUE
    /\ handler'[h].pc = "replying" => CaseOf(h)'.status = handler'[h].reply

LEMMA WrittenStep ==
    ASSUME Types, Written, path # 0 => path' = path,
           \A h \in Posts : Untouched(h) \/ Progresses(h),
           \A k \in Clients : client'[k].pc = "answered" =>
               client'[k] = client[k] \/ Settled(k)'
    PROVE  Written'
<1>1. ASSUME NEW h \in Posts
      PROVE  /\ handler'[h].pc \in {"handling", "replying"} => CaseOf(h)'.trail = TRUE
             /\ handler'[h].pc = "replying" => CaseOf(h)'.status = handler'[h].reply
  <2>1. CASE Progresses(h)
    BY <2>1 DEF Progresses
  <2>2. CASE Untouched(h) /\ handler'[h].pc \in {"handling", "replying"}
    <3>1. handler'[h] = handler[h] /\ RowKept(h)
      BY <2>2 DEF Untouched
    <3>2. handler[h].file \in 1 .. Len(files)
      BY <2>2, <3>1, CaseOfType
    <3>3. CaseOf(h)' = CaseOf(h)
      BY <3>1, <3>2 DEF CaseOf, RowKept
    <3> QED BY <3>1, <3>3 DEF Written
  <2> QED BY <2>1, <2>2
<1>2. ASSUME NEW k \in Clients, client'[k].pc = "answered"
      PROVE  Settled(k)'
  <2>1. CASE client'[k] = client[k]
    <3>1. Settled(k) /\ path' = path /\ Current(k)' = Current(k) /\ Current(k) \in Posts
      BY <1>2, <2>1, CurrentPost DEF Written, Settled, Current
    <3>2. Untouched(Current(k))
      BY <1>2, <2>1, <3>1 DEF Progresses
    <3>3. path \in 1 .. Len(files)
      BY <3>1, TypesParts, LenProperties DEF Types, Settled
    <3>4. /\ files'[path].cases[Current(k)] = files[path].cases[Current(k)]
          /\ handler'[Current(k)].pc = "ended"
          /\ handler'[Current(k)].reply = handler[Current(k)].reply
      BY <3>1, <3>2, <3>3 DEF Untouched, RowKept, Settled
    <3> QED BY <1>2, <3>1, <3>4 DEF Settled
  <2> QED BY <1>2, <2>1
<1> QED BY <1>1, <1>2 DEF Written

(* A start writes no row.                                                  *)
LEMMA StartRows ==
    ASSUME Types, NEW p \in Processes, Start(p)
    PROVE  \A h \in Posts : RowKept(h)
<1>1. /\ path \in 0 .. Len(files) /\ files \in Seq(Files)
  BY TypesParts DEF Types
<1>2. CASE CheckFileExists(p) \/ LookAgain(p) \/ UnlinkFile(p) \/ SeedDatabase(p) \/ LockedOut(p)
  BY <1>2 DEF CheckFileExists, LookAgain, UnlinkFile, SeedDatabase, LockedOut, RowKept
<1>3. CASE Connect(p)
  <2>1. files' = files \/ files' = Append(files, EmptyFile)
    BY <1>3 DEF Connect
  <2>2. \A g \in 1 .. Len(files) : files'[g] = files[g]
    BY <1>1, <2>1, AddedFile, EmptyFileType
  <2> QED BY <2>2 DEF RowKept
<1>4. ASSUME NEW STATE y, y \in Files, y.cases = files[process[p].file].cases,
             process[p].file \in 1 .. Len(files),
             files' = [files EXCEPT ![process[p].file] = y]
      PROVE  \A h \in Posts : RowKept(h)
  BY <1>1, <1>4, UpdatedFile DEF RowKept
<1>5. CASE CreateSchema(p)
  <2> DEFINE f == process[p].file
             y == [files[f] EXCEPT !.schema = TRUE]
  <2>1. f \in 1 .. Len(files) /\ files' = [files EXCEPT ![f] = y]
    BY <1>5 DEF CreateSchema, Types, Placed
  <2>2. files[f] \in Files /\ y \in Files
    BY <1>1, <2>1, FileFields
  <2>3. y.cases = files[f].cases
    BY <2>2 DEF Files
  <2> HIDE DEF y
  <2> QED BY <1>4, <2>1, <2>2, <2>3
<1>6. CASE CommitSeed(p)
  <2> DEFINE f == process[p].file
             y == [files[f] EXCEPT !.seeds = files[f].seeds + 1]
  <2>1. f \in 1 .. Len(files) /\ files' = [files EXCEPT ![f] = y] /\ files[f].seeds = 0
    BY <1>6 DEF CommitSeed, Types, Placed, OneSeeding
  <2>2. files[f] \in Files /\ y \in Files
    BY <1>1, <2>1, FileFields
  <2>3. y.cases = files[f].cases
    BY <2>2 DEF Files
  <2> HIDE DEF y
  <2> QED BY <1>4, <2>1, <2>2, <2>3
<1> QED BY <1>2, <1>3, <1>5, <1>6 DEF Start, Proceed

LEMMA WrittenStarts ==
    ASSUME Types, OrderlyInv, Written, NEW p \in Processes, Start(p), ~overlapped'
    PROVE  Written'
<1>1. path # 0 => path' = path
  BY OrderlyStarts
<1>2. UNCHANGED <<handler, client>>
  BY DEF Start, Proceed, CheckFileExists, LookAgain, UnlinkFile, Connect, CreateSchema,
         SeedDatabase, CommitSeed, LockedOut
<1>3. \A h \in Posts : Untouched(h)
  BY <1>2, StartRows DEF Untouched
<1> QED BY <1>1, <1>2, <1>3, WrittenStep

LEMMA WrittenCrash ==
    ASSUME Types, Written, NEW p \in Processes, Crash(p)
    PROVE  Written'
<1>1. UNCHANGED <<path, files, client>>
  BY DEF Crash
<1>2. \A h \in Posts : \/ handler'[h] = handler[h]
                       \/ handler'[h].pc = "ended" /\ handler'[h].reply = handler[h].reply
  BY TypesParts DEF Types, Crash, HandlerStates
<1>3. \A h \in Posts : Untouched(h)
  BY <1>1, <1>2 DEF Untouched, RowKept
<1> QED BY <1>1, <1>3, WrittenStep

LEMMA WrittenCases ==
    ASSUME Types, Orderly, Written, NEW h \in Posts, CaseStepOf(h)
    PROVE  Written'
<1>1. path' = path /\ client' = client /\ \A g \in Posts \ {h} : RowKept(g)
  BY OrderlyCases, CasesLeave, CaseFiles
<1>2. handler \in [Posts -> HandlerStates(Len(files))]
  BY TypesParts DEF Types
<1>3. \A g \in Posts \ {h} : handler'[g] = handler[g]
  BY <1>2 DEF CaseStepOf, GetConn, InsertCase, BeginCase, FailCase, FinishCase, BecomeHandler
<1>4. \A g \in Posts \ {h} : Untouched(g)
  BY <1>1, <1>3 DEF Untouched
<1>5. handler[h].pc # "ended"
  BY DEF CaseStepOf, GetConn, InsertCase, BeginCase, FailCase, FinishCase
<1>6. \A k \in Clients : client[k].pc = "answered" => Current(k) # h
  BY <1>5 DEF Written, Settled
<1>7. ASSUME NEW STATE row, row \in CaseRows, SetCase(h, row), Open(h), handler'[h].file = handler[h].file
      PROVE  CaseOf(h)' = row
  <2>1. handler[h].file # 0
    BY <1>7, CaseOfType DEF Open
  <2> QED BY <1>7, <2>1, SetFiles DEF CaseOf
<1>8. Progresses(h)
  <2>1. CASE GetConn(h) \/ InsertCase(h) \/ FailCase(h)
    <3>1. handler'[h].pc \notin {"handling", "replying"}
      BY <1>2, <2>1 DEF GetConn, InsertCase, FailCase, BecomeHandler, HandlerStates
    <3> QED BY <1>6, <3>1 DEF Progresses
  <2>2. CASE BeginCase(h)
    <3>1. Open(h) /\ handler'[h].file = handler[h].file /\ handler'[h].pc = "handling"
      BY <1>2, <2>2 DEF BeginCase, Open, BecomeHandler, HandlerStates
    <3>2. CaseOf(h)'.trail = TRUE
      BY <1>7, <2>2, <3>1, HandlerRows
    <3> QED BY <1>6, <3>1, <3>2 DEF Progresses
  <2>3. ASSUME NEW s \in {"resolved", "escalated"}, FinishCase(h, s)
        PROVE  Progresses(h)
    <3>1. /\ Open(h) /\ handler'[h].file = handler[h].file
          /\ handler'[h].pc = "replying" /\ handler'[h].reply = s
      BY <1>2, <2>3 DEF FinishCase, Open, HandlerStates
    <3>2. CaseOf(h).trail = TRUE
      BY <2>3 DEF FinishCase, Written
    <3>3. CaseOf(h)'.trail = TRUE /\ CaseOf(h)'.status = s
      BY <1>7, <2>3, <3>1, <3>2, HandlerRows
    <3> QED BY <1>6, <3>1, <3>3 DEF Progresses
  <2> QED BY <2>1, <2>2, <2>3 DEF CaseStepOf
<1> QED BY <1>1, <1>4, <1>8, WrittenStep

LEMMA WrittenClients ==
    ASSUME Types, Orderly, Written, NEW k \in Clients, ClientStepOf(k)
    PROVE  Written'
<1>1. /\ path' = path /\ files' = files
      /\ handler \in [Posts -> HandlerStates(Len(files))] /\ client \in [Clients -> ClientStates]
  BY TypesParts, ClientsLeave DEF Types
<1>2. \A h \in Posts : RowKept(h)
  BY <1>1 DEF RowKept
<1>3. ASSUME NEW p \in Processes, Post(k, p)
      PROVE  Written'
  <2> DEFINE new == <<k, client[k].tries + 1>>
  <2>1. \A j \in Clients : client'[j].pc = "answered" => client'[j] = client[j]
    BY <1>1, <1>3 DEF Post, ClientStates
  <2>2. \A h \in Posts : h # new => Untouched(h)
    BY <1>1, <1>2, <1>3 DEF Untouched, Post
  <2>3. ASSUME new \in Posts
        PROVE  Progresses(new)
    <3>1. handler'[new].pc = "accepted"
      BY <1>1, <1>3, <2>3 DEF Post
    <3>2. \A j \in Clients : client[j].pc = "answered" => Current(j) # new
      BY <1>3 DEF Post, Current
    <3> QED BY <3>1, <3>2 DEF Progresses
  <2> HIDE DEF new
  <2> QED BY <1>1, <2>1, <2>2, <2>3, WrittenStep
<1>4. CASE Answer(k)
  <2>1. /\ Current(k) \in Posts /\ handler[Current(k)].pc = "replying"
        /\ Current(k)' = Current(k)
    BY <1>1, <1>4, CurrentPost DEF Answer, Waiting, Current, ClientStates
  <2>2. /\ \A h \in Posts \ {Current(k)} : handler'[h] = handler[h]
        /\ handler'[Current(k)].pc = "ended"
        /\ handler'[Current(k)].reply = handler[Current(k)].reply
    BY <1>1, <1>4, <2>1 DEF Answer, BecomeHandler, HandlerStates
  <2>3. \A h \in Posts : Untouched(h)
    BY <1>2, <2>2 DEF Untouched
  <2>4. /\ client'[k].pc = "answered"
        /\ \A j \in Clients \ {k} : client'[j] = client[j]
    BY <1>1, <1>4 DEF Answer, ClientStates
  <2>5. path # 0 /\ handler[Current(k)].file = path
    BY <2>1 DEF Orderly, Open
  <2>6. /\ files[path].cases[Current(k)].trail = TRUE
        /\ files[path].cases[Current(k)].status = handler[Current(k)].reply
    BY <2>1, <2>5 DEF Written, CaseOf
  <2>7. Settled(k)'
    BY <1>1, <2>1, <2>2, <2>4, <2>5, <2>6 DEF Settled
  <2> QED BY <1>1, <2>3, <2>4, <2>7, WrittenStep
<1>5. CASE Miss(k) \/ FindNobody(k)
  <2>1. \A h \in Posts : Untouched(h)
    BY <1>2, <1>5 DEF Untouched, Miss, FindNobody
  <2>2. \A j \in Clients : client'[j].pc = "answered" => client'[j] = client[j]
    BY <1>1, <1>5 DEF Miss, FindNobody, ClientStates
  <2> QED BY <1>1, <2>1, <2>2, WrittenStep
<1> QED BY <1>3, <1>4, <1>5 DEF ClientStepOf

LEMMA NextWritten ==
    ASSUME Types, OrderlyInv, WrittenInv, [Next]_vars
    PROVE  WrittenInv'
<1> SUFFICES ASSUME ~overlapped' PROVE Written'
  BY DEF WrittenInv
<1>1. ASSUME NEW p \in Processes, Start(p)
      PROVE  Written'
  BY <1>1, OrderlyStarts, WrittenStarts DEF WrittenInv
<1>2. ASSUME NEW p \in Processes, Crash(p)
      PROVE  Written'
  <2>1. ~overlapped
    BY <1>2 DEF Crash
  <2> QED BY <1>2, <2>1, WrittenCrash DEF WrittenInv
<1>3. ASSUME NEW h \in Posts, CaseStepOf(h)
      PROVE  Written'
  BY <1>3, CasesLeave, WrittenCases DEF OrderlyInv, WrittenInv
<1>4. ASSUME NEW k \in Clients, ClientStepOf(k)
      PROVE  Written'
  BY <1>4, ClientsLeave, WrittenClients DEF OrderlyInv, WrittenInv
<1>5. CASE UNCHANGED vars
  BY <1>5 DEF WrittenInv, Written, Settled, Current, CaseOf, vars, Posts
<1> QED BY <1>1, <1>2, <1>3, <1>4, <1>5, StepsBy

LEMMA AlwaysWritten == Spec => []WrittenInv
<1>1. Init => WrittenInv
  BY DEF Init, WrittenInv, Written
<1> QED BY <1>1, NextWritten, AlwaysOrderly, AlwaysTypes, PTL DEF Spec

(* Whatever was answered can be looked up under the case of the very POST  *)
(* that was answered, with the status of the answer and a trail, for any   *)
(* clients, tries, processes, crashes and late answers, as long as no two  *)
(* starts overlapped.                                                      *)
THEOREM AnswersStay == Spec => []AnswersCanBeLookedUp
<1>1. Types /\ WrittenInv => AnswersCanBeLookedUp
  <2> SUFFICES ASSUME Types, WrittenInv, ~overlapped, NEW k \in Clients, client[k].pc = "answered"
               PROVE  get_case(Current(k)) = [status |-> handler[Current(k)].reply, trail |-> TRUE]
    BY DEF AnswersCanBeLookedUp
  <2>1. Settled(k) /\ Current(k) \in Posts
    BY CurrentPost DEF WrittenInv, Written
  <2>2. path \in 1 .. Len(files) /\ files \in Seq(Files)
    BY <2>1, TypesParts, LenProperties DEF Types, Settled
  <2>3. files[path].cases[Current(k)] \in CaseRows
    BY <2>1, <2>2, FileFields
  <2>4. files[path].cases[Current(k)] = [status |-> handler[Current(k)].reply, trail |-> TRUE]
    BY <2>1, <2>3 DEF Settled, CaseRows
  <2> QED BY <2>2, <2>4 DEF get_case
<1> QED BY <1>1, AlwaysTypes, AlwaysWritten, PTL
=============================================================================
