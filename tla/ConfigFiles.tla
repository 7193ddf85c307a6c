---------------------------- MODULE ConfigFiles -----------------------------
(***************************************************************************)
(* The configuration files and those who read and write them: the editor   *)
(* of the page (ServersPage.vue), the handlers that save, import and       *)
(* export (src/internal/app/service.go) with the steps of atomicWriteFile, *)
(* and whoever else edits the files on the machine.                        *)
(*                                                                         *)
(* A refresh of the scanner is one step here and its interleavings are the *)
(* matter of ConfigScanner; what the text of a file means is that of       *)
(* ConfigText: a text has the file it was written for and a revision, and  *)
(* a file in the process of being written holds a part of one.             *)
(***************************************************************************)
EXTENDS Naturals

CONSTANTS
  Paths,      \* configuration files in the scanned directories
  Kinds,      \* what may stand at the paths to begin with
  Revisions,  \* of a text
  Handlers,   \* requests that save or import; a bound for TLC
  Reads,      \* calls of readConfigFile by the page; a bound for TLC
  None        \* no file, no text, no request

Text  == [of : Paths, rev : Revisions, whole : {TRUE}]
Piece == [of : Paths, rev : Revisions, whole : BOOLEAN]
Job   == [path : Paths, text : Text]

ASSUME KindsAssumption == Kinds \subseteq [Paths -> {"file", "readonly", "link"}]
ASSUME NoneAssumption == None \notin Piece \cup Job

VARIABLES
  disk,     \* the files: a piece of text, or None
  kind,     \* what stands at a path: "file", "readonly" or "link"
  list,     \* the scanner's cache: "absent", "readonly" or "writable"
  temp,     \* the temporary file of each handler
  handler,  \* the requests under way
  bundle,   \* the last configuration exported, per path
  page,     \* the editor
  reads,    \* its calls of readConfigFile
  ours,     \* history: the file replaced or removed last was replaced by the panel
  late      \* history: an answer came to an editor opened for another call since

vars == <<disk, kind, list, temp, handler, bundle, page, reads, ours, late>>

Free == [op |-> "none", todo |-> {}, file |-> None, written |-> FALSE]
NoRead == [at |-> "idle"]

TypeOK ==
  /\ disk \in [Paths -> Piece \cup {None}]
  /\ kind \in [Paths -> {"file", "readonly", "link"}]
  /\ list \in [Paths -> {"absent", "readonly", "writable"}]
  /\ temp \in [Handlers -> Piece \cup {None}]
  /\ handler \in [Handlers -> {Free} \cup [op : {"save", "import"}, todo : SUBSET Job,
                                             file : Job \cup {None}, written : BOOLEAN]]
  /\ \A h \in Handlers : handler[h].written => handler[h].file # None
  /\ bundle \in [Paths -> Piece \cup {None}]
  /\ page \in [open : BOOLEAN, editing : Paths \cup {None}, content : Piece \cup {None},
               writable : BOOLEAN, saving : BOOLEAN]
  /\ reads \in [Reads -> {NoRead} \cup [at : {"sent", "failed"}, path : Paths]
                           \cup [at : {"served"}, path : Paths, text : Piece,
                               writable : BOOLEAN]]
  /\ ours \in BOOLEAN /\ late \in BOOLEAN

\* What a scan finds; isFileWritable follows a link.
Scanned ==
  [p \in Paths |-> IF disk[p] = None THEN "absent"
                   ELSE IF kind[p] = "readonly" THEN "readonly" ELSE "writable"]

NoTexts == [p \in Paths |-> None]

Init ==
  /\ disk \in {d \in [Paths -> Text \cup {None}] : \A p \in Paths : d[p] # None => d[p].of = p}
  /\ kind \in Kinds
  /\ \A p \in Paths : disk[p] = None => kind[p] = "file"
  /\ list = Scanned
  /\ temp = [h \in Handlers |-> None]
  /\ handler = [h \in Handlers |-> Free]
  /\ bundle = NoTexts
  /\ page = [open |-> FALSE, editing |-> None, content |-> None,
             writable |-> FALSE, saving |-> FALSE]
  /\ reads = [r \in Reads |-> NoRead]
  /\ ours = FALSE /\ late = FALSE

-----------------------------------------------------------------------------
(* The editor of the page *)

Saving == \E h \in Handlers : handler[h].op = "save"

\* openEditConfig, up to its await; earlier calls may still be under way.
OpenEditor(r, p) ==
  /\ reads[r] = NoRead
  /\ page' = [page EXCEPT !.open = TRUE, !.editing = p, !.saving = TRUE]
  /\ reads' = [reads EXCEPT ![r] = [at |-> "sent", path |-> p]]
  /\ UNCHANGED <<disk, kind, list, temp, handler, bundle, ours, late>>

\* ReadConfigFile
ServeRead(r) ==
  /\ reads[r].at = "sent"
  /\ LET p == reads[r].path
     IN  reads' = [reads EXCEPT ![r] =
           IF list[p] = "absent" \/ disk[p] = None THEN [at |-> "failed", path |-> p]
           ELSE [at |-> "served", path |-> p, text |-> disk[p], writable |-> list[p] = "writable"]]
  /\ UNCHANGED <<disk, kind, list, temp, handler, bundle, page, ours, late>>

\* openEditConfig, after its await
ReadArrives(r) ==
  /\ reads[r].at = "served"
  /\ page' = [page EXCEPT !.content = reads[r].text, !.writable = reads[r].writable,
                          !.saving = FALSE]
  /\ reads' = [reads EXCEPT ![r] = NoRead]
  /\ late' = (late \/ (page.open /\ reads[r].path # page.editing))
  /\ UNCHANGED <<disk, kind, list, temp, handler, bundle, ours>>

Mutant_StaysOpen(r) ==
  /\ reads[r].at = "failed"
  /\ page' = [page EXCEPT !.saving = FALSE]
  /\ reads' = [reads EXCEPT ![r] = NoRead]
  /\ UNCHANGED <<disk, kind, list, temp, handler, bundle, ours, late>>
ReadFails(r) ==
  /\ reads[r].at = "failed"
  /\ page' = [page EXCEPT !.open = FALSE, !.saving = FALSE]
  /\ reads' = [reads EXCEPT ![r] = NoRead]
  /\ UNCHANGED <<disk, kind, list, temp, handler, bundle, ours, late>>

CloseEditor ==
  /\ page.open
  /\ page' = [page EXCEPT !.open = FALSE]
  /\ UNCHANGED <<disk, kind, list, temp, handler, bundle, reads, ours, late>>

\* saveConfig of a text that was edited, and what SaveConfigFile looks up.
Submit(h) ==
  /\ handler[h] = Free
  /\ page.open /\ page.writable /\ ~page.saving
  /\ list[page.editing] = "writable"
  /\ \E rev \in Revisions :
       handler' = [handler EXCEPT ![h] =
         [Free EXCEPT !.op = "save",
            !.todo = {[path |-> page.editing, text |-> [page.content EXCEPT !.rev = rev]]}]]
  /\ page' = [page EXCEPT !.saving = TRUE]
  /\ UNCHANGED <<disk, kind, list, temp, bundle, reads, ours, late>>

\* The answer of a save arrives, at an editor that waits for a text or not.
SaveAnswered ==
  /\ page' = [page EXCEPT !.saving = FALSE]
  /\ late' = (late \/ (page.open /\ \E r \in Reads : reads[r] # NoRead))

Answered(h) ==
  IF handler[h].op = "save" THEN SaveAnswered ELSE UNCHANGED <<page, late>>

-----------------------------------------------------------------------------
(* atomicWriteFile, for a save or for each file of an import *)

Writing(h) == handler[h].op \in {"save", "import"}

Mutant_OneName(h) == CHOOSE g \in Handlers : TRUE
\* os.CreateTemp gives each call a file of its own.
TempOf(h) == h

Taken(h, job) == [handler[h] EXCEPT !.todo = @ \ {job}, !.file = job]

Mutant_StillWritten(h) ==
  IF handler[h].op = "save" THEN Free ELSE [handler[h] EXCEPT !.file = None]
\* A save answers with the error and refreshes nothing; an import goes on.
GivenUp(h) ==
  IF handler[h].op = "save" THEN Free
  ELSE [handler[h] EXCEPT !.file = None, !.written = FALSE]

Refused(h, job) ==
  IF handler[h].op = "save" THEN Free ELSE [handler[h] EXCEPT !.todo = @ \ {job}]

\* The target is a symbolic link.
RefuseLink(h) ==
  /\ Writing(h) /\ handler[h].file = None
  /\ \E job \in handler[h].todo :
       /\ kind[job.path] = "link"
       /\ handler' = [handler EXCEPT ![h] = Refused(h, job)]
  /\ Answered(h)
  /\ UNCHANGED <<disk, kind, list, temp, bundle, reads, ours>>

CreateTemp(h) ==
  /\ Writing(h) /\ handler[h].file = None
  /\ \E job \in handler[h].todo :
       /\ kind[job.path] # "link"
       /\ handler' = [handler EXCEPT ![h] = Taken(h, job)]
       /\ temp' = [temp EXCEPT ![TempOf(h)] = [job.text EXCEPT !.whole = FALSE]]
  /\ UNCHANGED <<disk, kind, list, bundle, page, reads, ours, late>>

WriteTemp(h) ==
  /\ Writing(h) /\ handler[h].file # None /\ ~handler[h].written
  /\ temp' = [temp EXCEPT ![TempOf(h)] = handler[h].file.text]
  /\ handler' = [handler EXCEPT ![h].written = TRUE]
  /\ UNCHANGED <<disk, kind, list, bundle, page, reads, ours, late>>

\* No room, or no right to the directory, and the removal of what was begun.
WriteFails(h) ==
  /\ Writing(h) /\ handler[h].file # None
  /\ temp' = [temp EXCEPT ![TempOf(h)] = None]
  /\ handler' = [handler EXCEPT ![h] = GivenUp(h)]
  /\ Answered(h)
  /\ UNCHANGED <<disk, kind, list, bundle, reads, ours>>

\* A rename asks nothing of the file it replaces, not even that it be writable.
Rename(h) ==
  /\ Writing(h) /\ handler[h].written /\ temp[TempOf(h)] # None
  /\ disk' = [disk EXCEPT ![handler[h].file.path] = temp[TempOf(h)]]
  /\ kind' = [kind EXCEPT ![handler[h].file.path] = "file"]
  /\ temp' = [temp EXCEPT ![TempOf(h)] = None]
  /\ handler' = [handler EXCEPT ![h].file = None, ![h].written = FALSE]
  /\ ours' = TRUE
  /\ UNCHANGED <<list, bundle, page, reads, late>>

\* RefreshNow and the answer of SaveConfigFile or ImportConfig
Finish(h) ==
  /\ Writing(h) /\ handler[h].todo = {} /\ handler[h].file = None
  /\ list' = Scanned
  /\ handler' = [handler EXCEPT ![h] = Free]
  /\ Answered(h)
  /\ UNCHANGED <<disk, kind, temp, bundle, reads, ours>>

-----------------------------------------------------------------------------
(* Export and import, and the world *)

\* ImportConfig of the bundle exported last.
BeginImport(h) ==
  /\ handler[h] = Free
  /\ handler' = [handler EXCEPT ![h] =
       [Free EXCEPT !.op = "import",
                    !.todo = {[path |-> p, text |-> bundle[p]] :
                                p \in {q \in Paths : bundle[q] # None}}]]
  /\ UNCHANGED <<disk, kind, list, temp, bundle, page, reads, ours, late>>

\* ExportConfig reads the listed files one by one, each as it is; the model reads
\* them together, for nothing here tells such a bundle from another.
Export ==
  /\ bundle' = [p \in Paths |-> IF list[p] = "absent" THEN None ELSE disk[p]]
  /\ UNCHANGED <<disk, kind, list, temp, handler, page, reads, ours, late>>

Rescan ==
  /\ list' = Scanned
  /\ UNCHANGED <<disk, kind, temp, handler, bundle, page, reads, ours, late>>

\* The panel is killed and starts anew; the page stays where it is.
Kill ==
  /\ list' = Scanned
  /\ temp' = [h \in Handlers |-> None]
  /\ handler' = [h \in Handlers |-> Free]
  /\ reads' = [r \in Reads |-> IF reads[r].at = "sent" THEN [reads[r] EXCEPT !.at = "failed"]
                                ELSE reads[r]]
  /\ IF Saving THEN SaveAnswered ELSE UNCHANGED <<page, late>>
  /\ UNCHANGED <<disk, kind, bundle, ours>>

\* Somebody at the machine replaces a file with a text of its own, or removes it.
Edited(p) ==
  /\ \/ \E rev \in Revisions :
          /\ disk' = [disk EXCEPT ![p] = [of |-> p, rev |-> rev, whole |-> TRUE]]
          /\ UNCHANGED kind
     \/ /\ disk' = [disk EXCEPT ![p] = None]
        /\ kind' = [kind EXCEPT ![p] = "file"]
  /\ ours' = FALSE
  /\ UNCHANGED <<list, temp, handler, bundle, page, reads, late>>

Next ==
  \/ \E r \in Reads :
       \/ \E p \in Paths : OpenEditor(r, p)
       \/ ServeRead(r) \/ ReadArrives(r) \/ ReadFails(r)
  \/ CloseEditor
  \/ \E h \in Handlers :
       \/ Submit(h) \/ RefuseLink(h) \/ CreateTemp(h) \/ WriteTemp(h)
       \/ WriteFails(h) \/ Rename(h) \/ Finish(h)
       \/ BeginImport(h)
  \/ Export
  \/ Rescan
  \/ Kill
  \/ \E p \in Paths : Edited(p)

Spec == Init /\ [][Next]_vars

-----------------------------------------------------------------------------
(* Properties *)

\* The text of one file is never saved over another: a read or a save that
\* fails, an editor closed while it waits and opened again, a refresh, an import
\* or an export in between bring none to a file it was not written for, until an
\* answer is late: that of a read comes to an editor opened for another file
\* since, or that of a save to one that waits for its text.
TextsStayWithTheirFile == ~late => \A p \in Paths : disk[p] # None => disk[p].of = p

\* What the page does not keep: after a late answer it offers to save the text
\* of the one file under the name of the other.
TextsNeverStray == \A p \in Paths : disk[p] # None => disk[p].of = p

Asked == [h \in Handlers |->
            IF Writing(h) THEN handler[h].todo \cup ({handler[h].file} \ {None}) ELSE {}]

Abstract == INSTANCE FileWrites
  WITH files <- disk, asked <- Asked, Requests <- Handlers, Texts <- Text, NoFile <- None

\* A save or an import replaces each file it was asked for at once, whole, at
\* most once and before its answer, or leaves it alone, and touches no other.
Implements == Abstract!FSpec

\* The comment of ImportConfig: what is not writable is skipped. The code does
\* not keep it: a rename replaces a read-only file of a writable directory.
ReadOnlyFilesAreSkipped ==
  [][\A h \in Handlers : handler[h].op = "import" /\ handler[h].written /\ Rename(h)
       => kind[handler[h].file.path] # "readonly"]_vars
=============================================================================
