--------------------------------- MODULE Cli ---------------------------------
(***************************************************************************)
(* The commands `d2ip dump`, `d2ip resolve` and `d2ip export` of           *)
(* cmd/d2ip/main.go, several at a time on one machine: the first two share *)
(* the local copy of dlc.dat (SourceStore), the last two the database, and *)
(* exports share the output directory (FileExporter).  A pipeline run of   *)
(* the daemon uses the store in the same way as `resolve` does.            *)
(*                                                                         *)
(* A version of dlc.dat stands for the addresses its domains resolve to,   *)
(* and the database for the set of versions it has addresses of: nothing   *)
(* is ever removed by these commands.  An export consists of what the      *)
(* database holds and of the -agg level it was asked for.                  *)
(***************************************************************************)
EXTENDS SourceStore, FileExporter

CONSTANTS
  AggLevels,    \* the levels that an export is asked for
  MaxCommands,  \* bound: commands started in one behaviour
  MaxFaults     \* bound: deaths, failures, removals and releases

Garbled == 0    \* what a file that is not one version parses to, if it parses

\* Every process may run any command.
ASSUME ProcessAssumption == Writers = Users
ASSUME ContentAssumption ==
  /\ Contents = (SUBSET (Versions \cup {Garbled})) \X AggLevels
  /\ Nothing \notin Contents
ASSUME BoundAssumption == MaxCommands \in Nat /\ MaxFaults \in Nat

VARIABLES
  command,          \* [Users -> record]: what each process is doing
  db,               \* the versions that the database has addresses of
  commands, faults  \* counters, for the bounds

cliVars == <<command, db, commands, faults>>

vars == <<storeVars, exportVars, cliVars>>

\* "fetch" inside store.Get, "load" after it, "upsert" before the results are
\* stored, "export" inside FileExporter.Write.
Idle == [name |-> "none", pc |-> "idle", loaded |-> {}]

Init ==
  /\ StoreInit /\ ExportInit
  /\ command = [p \in Users |-> Idle]
  /\ db = {}
  /\ commands = 0 /\ faults = 0

Faultless == UNCHANGED faults

Fault == faults < MaxFaults /\ faults' = faults + 1

-----------------------------------------------------------------------------
(* dump and resolve *)

\* The command starts with a store of its own.
Start(p, name) ==
  /\ command[p].pc = "idle" /\ commands < MaxCommands
  /\ NewHTTPStore(p)
  /\ command' = [command EXCEPT ![p] = [Idle EXCEPT !.name = name, !.pc = "fetch"]]
  /\ commands' = commands + 1
  /\ UNCHANGED <<exportVars, db, faults>>

\* A step of store.Get that goes well.
Fetch(p) ==
  /\ \/ GetCached(p) \/ NotModified(p) \/ Accepted(p)
     \/ Create(p) \/ Write(p) \/ Rename(p) \/ saveMetadata(p)
     \/ temp = 0 /\ RenameFails(p)
  /\ UNCHANGED <<exportVars, cliVars>>

\* A step of it that does not.
FetchFails(p) ==
  /\ \/ RequestFails(p) \/ DownloadFails(p) \/ saveMetadataFails(p)
     \/ temp # 0 /\ RenameFails(p)
  /\ Fault
  /\ UNCHANGED <<exportVars, command, db, commands>>

\* Ended(p): the process exits, in one of several ways.
Ended(p) == command' = [command EXCEPT ![p] = Idle]

\* Get failed, or it succeeded without metadata and slicing the empty digest
\* panics.
FetchFatal(p) ==
  /\ store[p].pc = "failed" \/ (store[p].pc = "ok" /\ store[p].current = 0)
  /\ StoreReleased(p)
  /\ Ended(p)
  /\ UNCHANGED <<exportVars, db, commands, faults>>

\* What the file parses to: one version, or, if it is a mixture, rules that no
\* version has, unless the parser notices.
Parsed(body) ==
  {<<v>> : v \in {w \in Versions : body = Whole(w)}}
    \cup IF \E v \in Versions : body = Whole(v) THEN {} ELSE {<<Garbled>>, << >>}

\* provider.Load and Select: the file that has the name now.  dump prints the
\* rules and is done; so is resolve when no rule can be resolved.
Load(p) ==
  /\ store[p].pc = "ok" /\ store[p].current # 0
  /\ StoreReleased(p)
  /\ IF cached = 0 THEN Ended(p)
     ELSE \E r \in Parsed(data[cached]) :
            IF r = << >> \/ command[p].name = "dump" THEN Ended(p)
            ELSE \/ command' = [command EXCEPT ![p].pc = "upsert", ![p].loaded = {r[1]}]
                 \/ Ended(p)
  /\ UNCHANGED <<exportVars, db, commands, faults>>

\* The results are stored; a batch that fails is logged and given up.
UpsertBatch(p) ==
  /\ command[p].pc = "upsert"
  /\ \/ db' = db \cup command[p].loaded /\ Faultless
     \/ UNCHANGED db /\ Fault
  /\ Ended(p)
  /\ UNCHANGED <<storeVars, exportVars, commands>>

-----------------------------------------------------------------------------
(* export *)

\* Snapshot, Aggregate and the beginning of Write.
StartExport(p, agg) ==
  /\ command[p].pc = "idle" /\ commands < MaxCommands
  /\ WriteBegins(p, <<db, agg>>)
  /\ command' = [command EXCEPT ![p] = [Idle EXCEPT !.name = "export", !.pc = "export"]]
  /\ commands' = commands + 1
  /\ UNCHANGED <<storeVars, db, faults>>

\* A step of Write that goes well.
Exporting(p) ==
  /\ WriteStep(p)
  /\ IF write'[p].pc = "error" THEN Fault ELSE Faultless
  /\ UNCHANGED <<storeVars, command, db, commands>>

\* Write has returned; the command prints its report or its error.
ExportEnds(p) ==
  /\ write[p].pc \in {"done", "error"}
  /\ WriterReleased(p)
  /\ Ended(p)
  /\ UNCHANGED <<storeVars, db, commands, faults>>

-----------------------------------------------------------------------------
(* Surroundings *)

\* A process dies at any point.
Dies(p) ==
  /\ command[p].pc # "idle"
  /\ StoreDies(p) /\ WriterDies(p)
  /\ Ended(p)
  /\ Fault
  /\ UNCHANGED <<db, commands>>

Released(v) ==
  /\ Publish(v)
  /\ Fault
  /\ UNCHANGED <<exportVars, command, db, commands>>

\* The local copy of dlc.dat or an exported file is removed.
Removed ==
  /\ \/ FileRemoved /\ UNCHANGED exportVars
     \/ UNCHANGED storeVars /\ \E f \in Names : ExportRemoved(f)
  /\ Fault
  /\ UNCHANGED <<command, db, commands>>

\* All commands of the behaviour have been given and have ended.
Quiet ==
  /\ commands = MaxCommands /\ \A p \in Users : command[p].pc = "idle"
  /\ UNCHANGED vars

Next ==
  \/ \E p \in Users :
       \/ \E name \in {"dump", "resolve"} : Start(p, name)
       \/ Fetch(p) \/ FetchFails(p) \/ FetchFatal(p) \/ Load(p) \/ UpsertBatch(p)
       \/ \E agg \in AggLevels : StartExport(p, agg)
       \/ Exporting(p) \/ ExportEnds(p) \/ Dies(p)
  \/ \E v \in Versions : Released(v)
  \/ Removed \/ Quiet

Spec == Init /\ [][Next]_vars

-----------------------------------------------------------------------------
(* Properties *)

\* Every variable has the type its declaration gives it.
TypeOK ==
  /\ StoreTypeOK /\ ExportTypeOK
  /\ command \in [Users -> [name : {"none", "dump", "resolve", "export"},
                            pc : {"idle", "fetch", "upsert", "export"},
                            loaded : SUBSET (Versions \cup {Garbled})]]
  /\ db \subseteq Versions \cup {Garbled}
  /\ commands \in 0 .. MaxCommands /\ faults \in 0 .. MaxFaults
=============================================================================
