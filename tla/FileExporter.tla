---------------------------- MODULE FileExporter ----------------------------
(***************************************************************************)
(* internal/exporter.FileExporter, which `d2ip export` uses: ipv4.txt and  *)
(* ipv6.txt, each with a .sha256 sidecar that decides whether the file has *)
(* to be written.  A content stands for itself and for its digest.  The    *)
(* temporary has a name of its own in every call, so the steps up to its   *)
(* close are one.                                                          *)
(***************************************************************************)
EXTENDS Integers, Sequences

CONSTANTS
  Writers,    \* the processes that export
  Contents,   \* what an export may consist of
  Nothing     \* no file, or a sidecar that is missing or empty

\* Write exports the families in this order.
Families == <<"ipv4", "ipv6">>

Names == {"ipv4", "ipv6"}

VARIABLES
  file,     \* [Names -> Contents \cup {Nothing}]: the exported files
  sha,      \* [Names -> Contents \cup {Nothing}]: their sidecars
  write,    \* [Writers -> record]: the call of Write in progress
  skewed    \* history: [Names -> BOOLEAN], file and sidecar may have been
            \* separated

exportVars == <<file, sha, write, skewed>>

\* "temp" before the temporary is complete, "compare" before the sidecar is
\* read, "rename", "sidecar", and "done" or "error" when Write has returned.
NoWrite == [pc |-> "off", fam |-> 1, content |-> Nothing, changed |-> FALSE,
            unchanged |-> TRUE, alone |-> TRUE]

ExportInit ==
  /\ file = [f \in Names |-> Nothing]
  /\ sha = [f \in Names |-> Nothing]
  /\ write = [p \in Writers |-> NoWrite]
  /\ skewed = [f \in Names |-> FALSE]

Fam(p) == Families[write[p].fam]

\* The other calls that have read f's sidecar and not yet written it.
Contending(p, f) ==
  {q \in Writers \ {p} : write[q].pc \in {"rename", "sidecar"} /\ Fam(q) = f}

-----------------------------------------------------------------------------

WriteBegins(p, c) ==
  /\ write[p].pc = "off"
  /\ write' = [write EXCEPT ![p] = [NoWrite EXCEPT !.pc = "temp", !.content = c]]
  /\ UNCHANGED <<file, sha, skewed>>

\* Create, write, sync and close the temporary.
TempWritten(p) ==
  /\ write[p].pc = "temp"
  /\ write' = [write EXCEPT ![p].pc = "compare"]
  /\ UNCHANGED <<file, sha, skewed>>

\* After the comparison: p goes on, and it and its contenders know of each
\* other (`alone` is history).
Compared(p, changed) ==
  LET others == Contending(p, Fam(p))
  IN write' = [q \in Writers |->
       CASE q = p         -> [write[p] EXCEPT !.pc = IF changed THEN "rename" ELSE "sidecar",
                                              !.changed = changed, !.alone = others = {}]
         [] q \in others  -> [write[q] EXCEPT !.alone = FALSE]
         [] OTHER         -> write[q]]

\* Mutant: a file that exists is taken for unchanged.
CompareWithFile(p) ==
  /\ write[p].pc = "compare"
  /\ Compared(p, file[Fam(p)] = Nothing)
  /\ UNCHANGED <<file, sha, skewed>>

\* The sidecar is read and compared with the digest of the temporary, which
\* is removed if they agree.
Compare(p) ==
  /\ write[p].pc = "compare"
  /\ Compared(p, sha[Fam(p)] # write[p].content)
  /\ UNCHANGED <<file, sha, skewed>>

\* os.Rename, then Chmod and fsyncDir.  The file is replaced although one of
\* those may yet fail.
RenameTemp(p) ==
  /\ write[p].pc = "rename"
  /\ file' = [file EXCEPT ![Fam(p)] = write[p].content]
  /\ \/ /\ write' = [write EXCEPT ![p].pc = "sidecar"]
        /\ UNCHANGED skewed
     \/ /\ write' = [write EXCEPT ![p].pc = "error"]
        /\ skewed' = [skewed EXCEPT ![Fam(p)] = TRUE]
  /\ UNCHANGED sha

\* The sidecar is written.  A call that had the file to itself and replaced
\* it leaves the two in agreement, whatever they were before.
SidecarWritten(p) ==
  /\ write[p].pc = "sidecar"
  /\ sha' = [sha EXCEPT ![Fam(p)] = write[p].content]
  /\ skewed' = [skewed EXCEPT ![Fam(p)] = ~write[p].alone \/ (@ /\ ~write[p].changed)]
  /\ write' = [write EXCEPT ![p].unchanged = @ /\ ~write[p].changed,
                            ![p].pc = IF write[p].fam < Len(Families) THEN "temp" ELSE "done",
                            ![p].fam = IF @ < Len(Families) THEN @ + 1 ELSE @]
  /\ UNCHANGED file

\* The context is done, or the temporary, its rename or the sidecar fails.
\* os.WriteFile may have emptied the sidecar by then.
WriteFails(p) ==
  /\ write[p].pc \in {"temp", "rename", "sidecar"}
  /\ sha' \in IF write[p].pc = "sidecar" THEN {sha, [sha EXCEPT ![Fam(p)] = Nothing]}
              ELSE {sha}
  /\ skewed' = [skewed EXCEPT ![Fam(p)] = @ \/ (write[p].pc = "sidecar" /\ write[p].changed)]
  /\ write' = [write EXCEPT ![p].pc = "error"]
  /\ UNCHANGED file

\* The process dies, with the same possible effects.
WriterDies(p) ==
  /\ sha' \in IF write[p].pc = "sidecar" THEN {sha, [sha EXCEPT ![Fam(p)] = Nothing]}
              ELSE {sha}
  /\ skewed' = [skewed EXCEPT ![Fam(p)] = @ \/ (write[p].pc = "sidecar" /\ write[p].changed)]
  /\ write' = [write EXCEPT ![p] = NoWrite]
  /\ UNCHANGED file

WriterReleased(p) ==
  /\ write' = [write EXCEPT ![p] = NoWrite]
  /\ UNCHANGED <<file, sha, skewed>>

\* Someone removes an exported file and leaves its sidecar.  writeFamily looks
\* at the sidecar alone, never at the file; a call between the two no longer has
\* the file to itself.
ExportRemoved(f) ==
  /\ file[f] # Nothing
  /\ file' = [file EXCEPT ![f] = Nothing]
  /\ skewed' = [skewed EXCEPT ![f] = TRUE]
  /\ write' = [q \in Writers |->
                 IF write[q].pc = "sidecar" /\ Fam(q) = f
                 THEN [write[q] EXCEPT !.alone = FALSE] ELSE write[q]]
  /\ UNCHANGED sha

WriteStep(p) ==
  TempWritten(p) \/ Compare(p) \/ RenameTemp(p) \/ SidecarWritten(p) \/ WriteFails(p)

-----------------------------------------------------------------------------
(* Properties *)

\* The variables of the exporter have their types.
ExportTypeOK ==
  /\ file \in [Names -> Contents \cup {Nothing}]
  /\ sha \in [Names -> Contents \cup {Nothing}]
  /\ write \in [Writers -> [pc : {"off", "temp", "compare", "rename", "sidecar", "done", "error"},
                            fam : 1 .. Len(Families), content : Contents \cup {Nothing},
                            changed : BOOLEAN, unchanged : BOOLEAN, alone : BOOLEAN]]
  /\ skewed \in [Names -> BOOLEAN]

\* When Write is through with a family, the file has the content it was given,
\* also when it was judged unchanged and not written.  That judgement rests on
\* the sidecar.  Three things make it wrong: a call that ended between the
\* rename and the sidecar, two calls for the file at once, and the removal of
\* the file with its sidecar left; the next call that replaces the file alone
\* puts it right (exporter.go:159-197).
ExportLands ==
  [][\A p \in Writers :
       write[p].pc = "sidecar" /\ write'[p].pc \in {"temp", "done"} =>
         skewed[Fam(p)] \/ skewed'[Fam(p)] \/ file'[Fam(p)] = write[p].content]_exportVars
=============================================================================
