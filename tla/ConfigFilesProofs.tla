-------------------------- MODULE ConfigFilesProofs --------------------------
(***************************************************************************)
(* For any number of files, revisions, requests and reads: saves and       *)
(* imports replace files as FileWrites promises, and until an answer to    *)
(* the editor is late no text is saved over another file.                  *)
(***************************************************************************)
EXTENDS ConfigFiles, TLAPS

Maybe(T) == T \cup {None}

Working == [op : {"save", "import"}, todo : SUBSET Job, file : Maybe(Job), written : BOOLEAN]
Waiting == [at : {"sent", "failed"}, path : Paths]
Served  == [at : {"served"}, path : Paths, text : Text, writable : BOOLEAN]

(* What TypeOK says of the requests and the disk, with whole texts where   *)
(* no write is under way: this is what atomicWriteFile achieves.           *)
FilesAreWhole ==
  /\ disk \in [Paths -> Maybe(Text)]
  /\ bundle \in [Paths -> Maybe(Text)]
  /\ temp \in [Handlers -> Maybe(Piece)]
  /\ handler \in [Handlers -> {Free} \cup Working]

(* A temporary file that is complete holds what its request was asked, and *)
(* a request replaces no file twice.                                       *)
WritesWhatWasAsked ==
  \A h \in Handlers :
    Writing(h) => /\ handler[h].file \notin handler[h].todo
                  /\ handler[h].written => /\ handler[h].file # None
                                           /\ temp[h] = handler[h].file.text

(* The editor saves only what it has read.                                 *)
EditorIsReady ==
  /\ page \in [open : BOOLEAN, editing : Maybe(Paths), content : Maybe(Text),
               writable : BOOLEAN, saving : BOOLEAN]
  /\ reads \in [Reads -> {NoRead} \cup Waiting \cup Served]
  /\ page.writable => page.content # None
  /\ page.open => page.editing \in Paths

WInv == FilesAreWhole /\ WritesWhatWasAsked /\ EditorIsReady

-----------------------------------------------------------------------------
LEMMA JobFields ==
  ASSUME NEW job \in Job
  PROVE  /\ job # None /\ job.path \in Paths /\ job.text \in Text
         /\ job.text \in Piece /\ job.text # None
BY NoneAssumption DEF Job, Text, Piece

LEMMA WorkingFields ==
  ASSUME FilesAreWhole, NEW h \in Handlers, Writing(h)
  PROVE  /\ handler[h] \in Working /\ handler[h].todo \subseteq Job
         /\ handler[h].file # None => handler[h].file \in Job
<1>1. Free.op = "none"
  BY DEF Free
<1>2. handler[h] # Free
  BY <1>1 DEF Writing
<1> QED BY <1>2 DEF FilesAreWhole, Working, Maybe

(* What a read has brought.                                                *)
LEMMA ReadFields ==
  ASSUME EditorIsReady, NEW r \in Reads
  PROVE  /\ reads[r].at = "served" => reads[r] \in Served
         /\ reads[r].at \in {"sent", "failed"} => reads[r] \in Waiting
         /\ NoRead.at = "idle"
<1>1. NoRead.at = "idle"
  BY DEF NoRead
<1>2. \A w \in Waiting : w.at \in {"sent", "failed"}
  BY DEF Waiting
<1>3. \A s \in Served : s.at = "served"
  BY DEF Served
<1>4. reads[r] \in {NoRead} \cup Waiting \cup Served
  BY DEF EditorIsReady
<1> QED BY <1>1, <1>2, <1>3, <1>4

LEMMA InitWInv == Init => WInv
<1> SUFFICES ASSUME Init PROVE WInv
  OBVIOUS
<1>1. FilesAreWhole
  BY DEF Init, FilesAreWhole, Maybe, NoTexts
<1>2. WritesWhatWasAsked
  BY DEF Init, WritesWhatWasAsked, Writing, Free
<1>3. EditorIsReady
  BY DEF Init, EditorIsReady, Maybe
<1> QED BY <1>1, <1>2, <1>3 DEF WInv

-----------------------------------------------------------------------------
(* Steps of a request on its own: what a place it may go to must satisfy.  *)
LEMMA RequestMoves ==
  ASSUME WInv, NEW h \in Handlers, NEW w \in {Free} \cup Working, NEW t \in Maybe(Piece),
         handler' = [handler EXCEPT ![h] = w], temp' = [temp EXCEPT ![h] = t],
         disk' \in [Paths -> Maybe(Text)], bundle' = bundle,
         w \in Working =>
           /\ w.file \notin w.todo
           /\ w.written => w.file # None /\ t = w.file.text
  PROVE  FilesAreWhole' /\ WritesWhatWasAsked'
<1>1. /\ handler' \in [Handlers -> {Free} \cup Working] /\ temp' \in [Handlers -> Maybe(Piece)]
      /\ \A g \in Handlers : /\ handler'[g] = IF g = h THEN w ELSE handler[g]
                             /\ temp'[g] = IF g = h THEN t ELSE temp[g]
  BY DEF WInv, FilesAreWhole
<1>2. FilesAreWhole'
  BY <1>1 DEF WInv, FilesAreWhole
<1>3. Free.op = "none"
  BY DEF Free
<1>4. WritesWhatWasAsked'
  <2> SUFFICES ASSUME NEW g \in Handlers, Writing(g)'
               PROVE  /\ handler'[g].file \notin handler'[g].todo
                      /\ handler'[g].written => /\ handler'[g].file # None
                                                /\ temp'[g] = handler'[g].file.text
    BY DEF WritesWhatWasAsked
  <2>1. CASE g = h
    BY <1>1, <1>3, <2>1 DEF Writing
  <2>2. CASE g # h
    BY <1>1, <2>2 DEF WInv, WritesWhatWasAsked, Writing
  <2> QED BY <2>1, <2>2
<1> QED BY <1>2, <1>4

(* The steps of atomicWriteFile.                                           *)
LEMMA WriteStep ==
  ASSUME WInv, NEW h \in Handlers,
         \/ RefuseLink(h) \/ CreateTemp(h) \/ WriteTemp(h)
         \/ WriteFails(h) \/ Rename(h) \/ Finish(h)
  PROVE  FilesAreWhole' /\ WritesWhatWasAsked'
<1>1. Writing(h)
  BY DEF RefuseLink, CreateTemp, WriteTemp, WriteFails, Rename, Finish
<1>2. /\ handler[h] \in Working /\ handler[h].todo \subseteq Job
      /\ handler[h].file # None => handler[h].file \in Job
      /\ temp[h] \in Maybe(Piece) /\ disk \in [Paths -> Maybe(Text)]
      /\ temp = [temp EXCEPT ![h] = temp[h]]
  BY <1>1, WorkingFields DEF WInv, FilesAreWhole
<1>3. /\ handler[h].file \notin handler[h].todo
      /\ handler[h].written => handler[h].file # None /\ temp[h] = handler[h].file.text
  BY <1>1 DEF WInv, WritesWhatWasAsked
<1>4. TempOf(h) = h
  BY DEF TempOf
<1> DEFINE Moves(w, t) ==
      /\ w \in {Free} \cup Working /\ t \in Maybe(Piece)
      /\ handler' = [handler EXCEPT ![h] = w] /\ temp' = [temp EXCEPT ![h] = t]
      /\ w \in Working => /\ w.file \notin w.todo
                          /\ w.written => w.file # None /\ t = w.file.text
<1>5. ASSUME NEW w, NEW t, Moves(w, t), disk' \in [Paths -> Maybe(Text)], bundle' = bundle
      PROVE  FilesAreWhole' /\ WritesWhatWasAsked'
  BY <1>5, RequestMoves
<1>7. Free \notin Working
  BY DEF Free, Working
<1> HIDE DEF Moves
<1>8. CASE RefuseLink(h)
  <2>1. PICK job \in handler[h].todo : handler' = [handler EXCEPT ![h] = Refused(h, job)]
    BY <1>8 DEF RefuseLink
  <2>2. handler[h].file = None /\ UNCHANGED <<disk, bundle, temp>>
    BY <1>8 DEF RefuseLink
  <2>3. CASE handler[h].op = "save"
    <3>1. handler' = [handler EXCEPT ![h] = Free]
      BY <2>1, <2>3 DEF Refused
    <3> QED BY <1>2, <1>5, <1>7, <2>2, <3>1 DEF Moves
  <2>4. CASE handler[h].op # "save"
    <3> DEFINE w == [handler[h] EXCEPT !.todo = @ \ {job}]
    <3>1. handler' = [handler EXCEPT ![h] = w]
      BY <2>1, <2>4 DEF Refused
    <3>2. /\ w \in Working /\ w.todo = handler[h].todo \ {job}
          /\ w.file = handler[h].file /\ w.written = handler[h].written
      BY <1>2 DEF Working
    <3> HIDE DEF w
    <3>3. Moves(w, temp[h])
      BY <1>2, <1>3, <2>2, <3>1, <3>2 DEF Moves
    <3> QED BY <1>2, <1>5, <2>2, <3>3
  <2> QED BY <2>3, <2>4
<1>9. CASE CreateTemp(h)
  <2>1. PICK job \in handler[h].todo :
          /\ handler' = [handler EXCEPT ![h] = Taken(h, job)]
          /\ temp' = [temp EXCEPT ![h] = [job.text EXCEPT !.whole = FALSE]]
    BY <1>4, <1>9 DEF CreateTemp
  <2>2. handler[h].file = None /\ UNCHANGED <<disk, bundle>>
    BY <1>9 DEF CreateTemp
  <2> DEFINE w == Taken(h, job)
             t == [job.text EXCEPT !.whole = FALSE]
  <2>3. job \in Job
    BY <1>2, <2>1
  <2>4. t \in Maybe(Piece)
    BY <2>3, JobFields DEF Text, Piece, Maybe
  <2>5. /\ w \in Working /\ w.todo = handler[h].todo \ {job}
        /\ w.file = job /\ w.written = handler[h].written
    BY <1>2, <2>3 DEF Taken, Working, Maybe
  <2>6. handler[h].written = FALSE
    BY <1>2, <1>3, <2>2 DEF Working
  <2> HIDE DEF w, t
  <2>7. Moves(w, t)
    BY <2>1, <2>4, <2>5, <2>6 DEF Moves, w, t
  <2> QED BY <1>2, <1>5, <2>2, <2>7
<1>10. CASE WriteTemp(h)
  <2> DEFINE w == [handler[h] EXCEPT !.written = TRUE]
  <2>1. /\ handler[h].file # None /\ UNCHANGED <<disk, bundle>>
        /\ handler' = [handler EXCEPT ![h] = w]
        /\ temp' = [temp EXCEPT ![h] = handler[h].file.text]
    BY <1>4, <1>10 DEF WriteTemp
  <2>2. /\ w \in Working /\ w.todo = handler[h].todo /\ w.file = handler[h].file
    BY <1>2 DEF Working
  <2>3. handler[h].file.text \in Maybe(Piece)
    BY <1>2, <2>1, JobFields DEF Maybe
  <2> HIDE DEF w
  <2>4. Moves(w, handler[h].file.text)
    BY <1>3, <2>1, <2>2, <2>3 DEF Moves
  <2> QED BY <1>2, <1>5, <2>1, <2>4
<1>11. CASE WriteFails(h)
  <2>1. /\ handler' = [handler EXCEPT ![h] = GivenUp(h)] /\ temp' = [temp EXCEPT ![h] = None]
        /\ UNCHANGED <<disk, bundle>>
    BY <1>4, <1>11 DEF WriteFails
  <2>2. CASE handler[h].op = "save"
    <3>1. GivenUp(h) = Free
      BY <2>2 DEF GivenUp
    <3>2. Moves(Free, None)
      BY <1>7, <2>1, <3>1 DEF Moves, Maybe
    <3> QED BY <1>2, <1>5, <2>1, <3>2
  <2>3. CASE handler[h].op # "save"
    <3> DEFINE w == [handler[h] EXCEPT !.file = None, !.written = FALSE]
    <3>1. GivenUp(h) = w
      BY <2>3 DEF GivenUp
    <3>2. w \in Working /\ w.todo = handler[h].todo /\ w.file = None /\ w.written = FALSE
      BY <1>2 DEF Working, Maybe
    <3> HIDE DEF w
    <3>3. Moves(w, None)
      BY <1>2, <2>1, <3>1, <3>2, NoneAssumption DEF Moves, Maybe
    <3> QED BY <1>2, <1>5, <2>1, <3>3
  <2> QED BY <2>2, <2>3
<1>12. CASE Rename(h)
  <2> DEFINE w == [handler[h] EXCEPT !.file = None, !.written = FALSE]
  <2>1. /\ handler[h].written /\ handler' = [handler EXCEPT ![h] = w]
        /\ temp' = [temp EXCEPT ![h] = None] /\ bundle' = bundle
        /\ disk' = [disk EXCEPT ![handler[h].file.path] = temp[h]]
    BY <1>2, <1>4, <1>12 DEF Rename, WInv, FilesAreWhole, Working
  <2>2. handler[h].file \in Job /\ temp[h] = handler[h].file.text
    BY <1>2, <1>3, <2>1
  <2>3. disk' \in [Paths -> Maybe(Text)]
    BY <1>2, <2>1, <2>2, JobFields DEF Maybe
  <2>4. w \in Working /\ w.todo = handler[h].todo /\ w.file = None /\ w.written = FALSE
    BY <1>2 DEF Working, Maybe
  <2> HIDE DEF w
  <2>5. Moves(w, None)
    BY <1>2, <2>1, <2>4, NoneAssumption DEF Moves, Maybe
  <2> QED BY <1>5, <2>1, <2>3, <2>5
<1>13. CASE Finish(h)
  <2>1. handler' = [handler EXCEPT ![h] = Free] /\ UNCHANGED <<disk, temp, bundle>>
    BY <1>13 DEF Finish
  <2>2. Moves(Free, temp[h])
    BY <1>2, <1>7, <2>1 DEF Moves
  <2> QED BY <1>2, <1>5, <2>1, <2>2
<1> QED BY <1>8, <1>9, <1>10, <1>11, <1>12, <1>13

(* Steps that begin a request, or end all of them.                         *)
LEMMA BeginStep ==
  ASSUME WInv, NEW h \in Handlers, Submit(h) \/ BeginImport(h)
  PROVE  /\ FilesAreWhole' /\ WritesWhatWasAsked'
         /\ \E todo \in SUBSET Job, op \in {"save", "import"} :
              handler' = [handler EXCEPT ![h] = [Free EXCEPT !.op = op, !.todo = todo]]
<1>1. /\ disk \in [Paths -> Maybe(Text)] /\ temp[h] \in Maybe(Piece)
      /\ temp = [temp EXCEPT ![h] = temp[h]] /\ bundle \in [Paths -> Maybe(Text)]
  BY DEF WInv, FilesAreWhole
<1>2. UNCHANGED <<disk, temp, bundle>>
  BY DEF Submit, BeginImport
<1> DEFINE w(op, todo) == [Free EXCEPT !.op = op, !.todo = todo]
<1>3. ASSUME NEW op \in {"save", "import"}, NEW todo \in SUBSET Job,
             handler' = [handler EXCEPT ![h] = w(op, todo)]
      PROVE  FilesAreWhole' /\ WritesWhatWasAsked'
  <2>1. /\ w(op, todo) \in Working /\ w(op, todo).file = None
        /\ w(op, todo).todo = todo /\ w(op, todo).written = FALSE
    BY DEF Free, Working, Maybe
  <2>2. None \notin todo
    BY NoneAssumption
  <2> HIDE DEF w
  <2> QED BY <1>1, <1>2, <1>3, <2>1, <2>2, RequestMoves
<1>4. CASE Submit(h)
  <2>1. PICK rev \in Revisions :
          handler' = [handler EXCEPT ![h] = [Free EXCEPT !.op = "save",
            !.todo = {[path |-> page.editing, text |-> [page.content EXCEPT !.rev = rev]]}]]
    BY <1>4 DEF Submit
  <2>2. page.editing \in Paths /\ page.content \in Text
    BY <1>4 DEF Submit, WInv, EditorIsReady, Maybe
  <2> DEFINE todo == {[path |-> page.editing, text |-> [page.content EXCEPT !.rev = rev]]}
  <2>3. todo \in SUBSET Job
    <3>1. [page.content EXCEPT !.rev = rev] \in Text
      BY <2>2 DEF Text
    <3> QED BY <2>2, <3>1 DEF Job
  <2>4. handler' = [handler EXCEPT ![h] = w("save", todo)]
    BY <2>1
  <2> HIDE DEF todo
  <2> QED BY <1>3, <2>3, <2>4
<1>5. CASE BeginImport(h)
  <2> DEFINE todo == {[path |-> p, text |-> bundle[p]] : p \in {q \in Paths : bundle[q] # None}}
  <2>1. todo \in SUBSET Job
    BY <1>1 DEF Job, Maybe
  <2>2. handler' = [handler EXCEPT ![h] = w("import", todo)]
    BY <1>5 DEF BeginImport
  <2> HIDE DEF todo
  <2> QED BY <1>3, <2>1, <2>2
<1> QED BY <1>4, <1>5

(* The other steps write no temporary file.                                *)
LEMMA OtherStep ==
  ASSUME WInv,
         \/ Export \/ Rescan \/ Kill \/ CloseEditor \/ UNCHANGED vars
         \/ \E p \in Paths : Edited(p)
         \/ \E r \in Reads :
              \/ \E p \in Paths : OpenEditor(r, p)
              \/ ServeRead(r) \/ ReadArrives(r) \/ ReadFails(r)
  PROVE  FilesAreWhole' /\ WritesWhatWasAsked'
<1>0. /\ disk \in [Paths -> Maybe(Text)] /\ bundle \in [Paths -> Maybe(Text)]
      /\ None \in Maybe(Text) /\ None \in Maybe(Piece)
  BY DEF WInv, FilesAreWhole, Maybe
<1>1. ASSUME UNCHANGED <<temp, handler>>, disk' \in [Paths -> Maybe(Text)],
             bundle' \in [Paths -> Maybe(Text)]
      PROVE  FilesAreWhole' /\ WritesWhatWasAsked'
  BY <1>1 DEF WInv, FilesAreWhole, WritesWhatWasAsked, Writing
<1>2. CASE Export
  BY <1>0, <1>1, <1>2 DEF Export
<1>3. CASE Kill
  <2>1. Free.op = "none"
    BY DEF Free
  <2>2. /\ temp' = [h \in Handlers |-> None] /\ handler' = [h \in Handlers |-> Free]
        /\ UNCHANGED <<disk, bundle>>
    BY <1>3 DEF Kill
  <2> QED BY <1>0, <2>1, <2>2 DEF FilesAreWhole, WritesWhatWasAsked, Writing
<1>4. ASSUME NEW p \in Paths, Edited(p) PROVE FilesAreWhole' /\ WritesWhatWasAsked'
  <2>1. UNCHANGED <<temp, handler, bundle>>
    BY <1>4 DEF Edited
  <2>2. \E text \in Maybe(Text) : disk' = [disk EXCEPT ![p] = text]
    BY <1>4 DEF Edited, Text, Maybe
  <2>3. disk' \in [Paths -> Maybe(Text)]
    BY <1>0, <2>2
  <2> QED BY <1>0, <1>1, <2>1, <2>3
<1>5. CASE \/ Rescan \/ CloseEditor \/ UNCHANGED vars
           \/ \E r \in Reads :
                \/ \E p \in Paths : OpenEditor(r, p)
                \/ ServeRead(r) \/ ReadArrives(r) \/ ReadFails(r)
  <2>1. UNCHANGED <<temp, handler, disk, bundle>>
    BY <1>5 DEF Rescan, CloseEditor, vars, OpenEditor, ServeRead, ReadArrives, ReadFails
  <2> QED BY <1>0, <1>1, <2>1
<1> QED BY <1>2, <1>3, <1>4, <1>5

-----------------------------------------------------------------------------
(* Steps of the editor                                                     *)

LEMMA EditorStep == WInv /\ [Next]_vars => EditorIsReady'
<1> SUFFICES ASSUME WInv, [Next]_vars PROVE EditorIsReady'
  OBVIOUS
<1> DEFINE Pages == [open : BOOLEAN, editing : Maybe(Paths), content : Maybe(Text),
                     writable : BOOLEAN, saving : BOOLEAN]
           Calls == {NoRead} \cup Waiting \cup Served
           Good(g) == /\ g \in Pages
                      /\ g.writable => g.content # None
                      /\ g.open => g.editing \in Paths
<1>0. /\ Good(page) /\ reads \in [Reads -> Calls] /\ disk \in [Paths -> Maybe(Text)]
      /\ None \notin Text
  BY NoneAssumption DEF WInv, EditorIsReady, FilesAreWhole, Text, Piece
<1>1. ASSUME Good(page'), reads' \in [Reads -> Calls] PROVE EditorIsReady'
  BY <1>1 DEF EditorIsReady
<1>2. Good([page EXCEPT !.saving = FALSE]) /\ Good([page EXCEPT !.saving = TRUE])
      /\ Good([page EXCEPT !.open = FALSE]) /\ Good([page EXCEPT !.open = FALSE, !.saving = FALSE])
  BY <1>0
<1>3. ASSUME NEW r \in Reads, NEW c \in Calls, reads' = [reads EXCEPT ![r] = c]
      PROVE  reads' \in [Reads -> Calls]
  BY <1>0, <1>3
<1> HIDE DEF Good
<1>4. ASSUME NEW r \in Reads, NEW p \in Paths, OpenEditor(r, p) PROVE EditorIsReady'
  <2>1. Good([page EXCEPT !.open = TRUE, !.editing = p, !.saving = TRUE])
    BY <1>0 DEF Good, Maybe
  <2>2. [at |-> "sent", path |-> p] \in Calls
    BY DEF Waiting
  <2>3. /\ page' = [page EXCEPT !.open = TRUE, !.editing = p, !.saving = TRUE]
        /\ reads' = [reads EXCEPT ![r] = [at |-> "sent", path |-> p]]
    BY <1>4 DEF OpenEditor
  <2> HIDE DEF Calls
  <2> QED BY <1>1, <1>3, <2>1, <2>2, <2>3
<1>5. ASSUME NEW r \in Reads, ServeRead(r) PROVE EditorIsReady'
  <2> DEFINE p == reads[r].path
             c == IF list[p] = "absent" \/ disk[p] = None THEN [at |-> "failed", path |-> p]
                  ELSE [at |-> "served", path |-> p, text |-> disk[p],
                        writable |-> list[p] = "writable"]
  <2>1. p \in Paths
    BY <1>5, ReadFields DEF ServeRead, WInv, Waiting
  <2>2. c \in Calls
    <3>1. CASE list[p] = "absent" \/ disk[p] = None
      BY <2>1, <3>1 DEF Waiting
    <3>2. CASE ~(list[p] = "absent" \/ disk[p] = None)
      <4>1. disk[p] \in Text
        BY <1>0, <2>1, <3>2 DEF Maybe
      <4>2. (list[p] = "writable") \in BOOLEAN
        OBVIOUS
      <4>3. c = [at |-> "served", path |-> p, text |-> disk[p],
                 writable |-> list[p] = "writable"]
        BY <3>2
      <4> HIDE DEF p
      <4> QED BY <2>1, <4>1, <4>2, <4>3 DEF Served
    <3> QED BY <3>1, <3>2
  <2>3. page' = page /\ reads' = [reads EXCEPT ![r] = c]
    BY <1>5 DEF ServeRead
  <2> HIDE DEF c, p, Calls
  <2> QED BY <1>0, <1>1, <1>3, <2>2, <2>3
<1>6. ASSUME NEW r \in Reads, ReadArrives(r) PROVE EditorIsReady'
  <2>1. reads[r].text \in Text /\ reads[r].writable \in BOOLEAN
    BY <1>6, ReadFields DEF ReadArrives, WInv, Served
  <2>2. Good([page EXCEPT !.content = reads[r].text, !.writable = reads[r].writable,
                          !.saving = FALSE])
    BY <1>0, <2>1 DEF Good, Maybe
  <2>3. /\ page' = [page EXCEPT !.content = reads[r].text, !.writable = reads[r].writable,
                                !.saving = FALSE]
        /\ reads' = [reads EXCEPT ![r] = NoRead]
    BY <1>6 DEF ReadArrives
  <2> QED BY <1>1, <1>3, <2>2, <2>3
<1>7. ASSUME NEW r \in Reads, ReadFails(r) PROVE EditorIsReady'
  BY <1>1, <1>2, <1>3, <1>7 DEF ReadFails
<1>8. ASSUME reads' = reads,
             \/ page' = page
             \/ page' = [page EXCEPT !.saving = FALSE]
             \/ page' = [page EXCEPT !.saving = TRUE]
             \/ page' = [page EXCEPT !.open = FALSE]
      PROVE  EditorIsReady'
  <2> HIDE DEF Calls
  <2> QED BY <1>0, <1>1, <1>2, <1>8
<1>9. CASE Kill
  <2>1. ASSUME NEW r \in Reads
        PROVE  (IF reads[r].at = "sent" THEN [reads[r] EXCEPT !.at = "failed"] ELSE reads[r])
                 \in Calls
    <3>1. CASE reads[r].at = "sent"
      BY <3>1, ReadFields DEF WInv, Waiting
    <3>2. CASE reads[r].at # "sent"
      BY <1>0, <3>2
    <3> QED BY <3>1, <3>2
  <2>2. reads' \in [Reads -> Calls]
    <3> HIDE DEF Calls
    <3> QED BY <1>9, <2>1 DEF Kill
  <2>3. Good(page')
    BY <1>0, <1>2, <1>9 DEF Kill, SaveAnswered
  <2> QED BY <1>1, <2>2, <2>3
<1>10. CASE CloseEditor
  BY <1>8, <1>10 DEF CloseEditor
<1>11. ASSUME NEW h \in Handlers,
              \/ Submit(h) \/ RefuseLink(h) \/ CreateTemp(h) \/ WriteTemp(h)
              \/ WriteFails(h) \/ Rename(h) \/ Finish(h) \/ BeginImport(h)
       PROVE  EditorIsReady'
  BY <1>8, <1>11 DEF Submit, RefuseLink, CreateTemp, WriteTemp, WriteFails, Rename,
                     Finish, BeginImport, Answered, SaveAnswered
<1>12. CASE \/ Export \/ Rescan \/ UNCHANGED vars \/ \E p \in Paths : Edited(p)
  BY <1>8, <1>12 DEF Export, Rescan, Edited, vars
<1> QED BY <1>4, <1>5, <1>6, <1>7, <1>9, <1>10, <1>11, <1>12 DEF Next

LEMMA StepWInv == WInv /\ [Next]_vars => WInv'
<1> SUFFICES ASSUME WInv, [Next]_vars PROVE FilesAreWhole' /\ WritesWhatWasAsked'
  BY EditorStep DEF WInv
<1> QED BY WriteStep, BeginStep, OtherStep DEF Next

LEMMA WritesInvariant == Spec => []WInv
BY InitWInv, StepWInv, PTL DEF Spec

-----------------------------------------------------------------------------
(* The refinement: what a request may still replace is its list and the    *)
(* file it is writing.                                                     *)
LEMMA StepRefines ==
  ASSUME WInv, [Next]_vars
  PROVE  \/ UNCHANGED <<disk, Asked, ours>>
         \/ Abstract!Drop
         \/ \E h \in Handlers : Abstract!Replace(h)
         \/ \E h \in Handlers : (Submit(h) \/ BeginImport(h)) /\ Abstract!Ask(h)
         \/ \E p \in Paths : Edited(p) /\ Abstract!Outside(p)
<1> DEFINE Left(w) == IF w.op \in {"save", "import"} THEN w.todo \cup ({w.file} \ {None}) ELSE {}
<1>1. /\ Asked = [h \in Handlers |-> Left(handler[h])]
      /\ Asked' = [h \in Handlers |-> Left(handler'[h])]
  BY DEF Asked, Writing
<1>2. Asked \in [Handlers -> SUBSET Job]
  <2>1. \A h \in Handlers : Asked[h] \in SUBSET Job
    BY WorkingFields DEF WInv, Asked
  <2> QED BY <1>1, <2>1
<1>3. Left(Free) = {}
  BY DEF Free
<1>4. handler = [h \in Handlers |-> handler[h]]
  BY DEF WInv, FilesAreWhole
<1> HIDE DEF Left
<1>5. ASSUME NEW h \in Handlers, NEW w, handler' = [handler EXCEPT ![h] = w]
      PROVE  Asked' = [Asked EXCEPT ![h] = Left(w)]
  BY <1>1, <1>4, <1>5
<1>6. ASSUME NEW h \in Handlers, NEW w, handler' = [handler EXCEPT ![h] = w],
             Left(w) \subseteq Asked[h], UNCHANGED <<disk, ours>>
      PROVE  Abstract!Drop
  <2>1. Asked' = [Asked EXCEPT ![h] = Left(w)]
    BY <1>5, <1>6
  <2>2. Asked' \in [Handlers -> SUBSET Job] /\ \A g \in Handlers : Asked'[g] \subseteq Asked[g]
    BY <1>2, <1>6, <2>1
  <2> QED BY <1>6, <2>2 DEF Abstract!Drop, Abstract!Job, Job
<1>same. ASSUME NEW h \in Handlers, NEW w, handler' = [handler EXCEPT ![h] = w],
                Left(w) = Asked[h], UNCHANGED <<disk, ours>>
         PROVE  UNCHANGED <<disk, Asked, ours>>
  <2>1. Asked' = [Asked EXCEPT ![h] = Asked[h]]
    BY <1>5, <1>same
  <2>2. Asked' = Asked
    BY <1>2, <2>1
  <2> QED BY <1>same, <2>2
<1>7. ASSUME NEW h \in Handlers, Submit(h) \/ BeginImport(h) PROVE Abstract!Ask(h)
  <2>1. PICK todo \in SUBSET Job, op \in {"save", "import"} :
          handler' = [handler EXCEPT ![h] = [Free EXCEPT !.op = op, !.todo = todo]]
    BY <1>7, BeginStep
  <2>2. Left([Free EXCEPT !.op = op, !.todo = todo]) = todo
    BY DEF Free, Left
  <2>3. handler[h] = Free /\ UNCHANGED <<disk, ours>>
    BY <1>7 DEF Submit, BeginImport
  <2>4. Asked' = [Asked EXCEPT ![h] = todo] /\ Asked[h] = {}
    BY <1>1, <1>3, <1>5, <2>1, <2>2, <2>3
  <2>5. Asked'[h] = todo
    BY <1>2, <2>4
  <2> QED BY <2>3, <2>4, <2>5 DEF Abstract!Ask, Abstract!Job, Job
<1>8. ASSUME NEW h \in Handlers, Writing(h)
      PROVE  /\ handler[h] \in Working /\ Asked[h] = handler[h].todo \cup ({handler[h].file} \ {None})
             /\ \A job \in handler[h].todo : job \in Job
             /\ handler[h].file # None => handler[h].file \in Job
  BY <1>8, WorkingFields DEF WInv, Asked
<1>9. ASSUME NEW h \in Handlers, RefuseLink(h) PROVE Abstract!Drop
  <2>1. PICK job \in handler[h].todo : handler' = [handler EXCEPT ![h] = Refused(h, job)]
    BY <1>9 DEF RefuseLink
  <2>2. Left(Refused(h, job)) \subseteq Asked[h]
    BY <1>3, <1>8, <1>9 DEF RefuseLink, Refused, Left, Working
  <2>3. UNCHANGED <<disk, ours>>
    BY <1>9 DEF RefuseLink
  <2> QED BY <1>6, <2>1, <2>2, <2>3
<1>10. ASSUME NEW h \in Handlers, CreateTemp(h) PROVE UNCHANGED <<disk, Asked, ours>>
  <2>1. PICK job \in handler[h].todo : handler' = [handler EXCEPT ![h] = Taken(h, job)]
    BY <1>10 DEF CreateTemp
  <2>2. Writing(h) /\ handler[h].file = None /\ UNCHANGED <<disk, ours>>
    BY <1>10 DEF CreateTemp
  <2>3. job # None
    BY <1>8, <2>2, JobFields
  <2>4. Left(Taken(h, job)) = Asked[h]
    <3>1. /\ Taken(h, job).op = handler[h].op /\ Taken(h, job).file = job
          /\ Taken(h, job).todo = handler[h].todo \ {job}
      BY <1>8, <2>2 DEF Taken, Working
    <3>2. Left(Taken(h, job)) = (handler[h].todo \ {job}) \cup ({job} \ {None})
      BY <2>2, <3>1 DEF Left, Writing
    <3>3. Asked[h] = handler[h].todo
      BY <1>8, <2>2
    <3> QED BY <2>3, <3>2, <3>3
  <2> QED BY <1>same, <2>1, <2>2, <2>4
<1>11. ASSUME NEW h \in Handlers, WriteTemp(h) PROVE UNCHANGED <<disk, Asked, ours>>
  <2>1. /\ Writing(h) /\ UNCHANGED <<disk, ours>>
        /\ handler' = [handler EXCEPT ![h] = [handler[h] EXCEPT !.written = TRUE]]
    BY <1>11 DEF WriteTemp
  <2>2. Left([handler[h] EXCEPT !.written = TRUE]) = Asked[h]
    BY <1>8, <2>1 DEF Left, Working, Writing
  <2> QED BY <1>same, <2>1, <2>2
<1>12. ASSUME NEW h \in Handlers, WriteFails(h) PROVE Abstract!Drop
  <2>1. /\ Writing(h) /\ UNCHANGED <<disk, ours>>
        /\ handler' = [handler EXCEPT ![h] = GivenUp(h)]
    BY <1>12 DEF WriteFails
  <2>2. Left(GivenUp(h)) \subseteq Asked[h]
    BY <1>3, <1>8, <2>1 DEF GivenUp, Left, Working
  <2> QED BY <1>6, <2>1, <2>2
<1>13. ASSUME NEW h \in Handlers, Rename(h) PROVE Abstract!Replace(h)
  <2> DEFINE job == handler[h].file
             w == [handler[h] EXCEPT !.file = None, !.written = FALSE]
  <2>1. /\ Writing(h) /\ handler[h].written /\ ours' = TRUE
        /\ disk' = [disk EXCEPT ![job.path] = temp[h]]
    BY <1>13 DEF Rename, TempOf
  <2>2. handler' = [handler EXCEPT ![h] = w]
    BY <1>8, <1>13, <2>1 DEF Rename, WInv, FilesAreWhole, Working
  <2>3. job \notin handler[h].todo /\ job \in Job /\ temp[h] = job.text
    BY <1>8, <2>1 DEF WInv, WritesWhatWasAsked
  <2>4. Left(w) = Asked[h] \ {job} /\ job \in Asked[h]
    BY <1>8, <2>1, <2>3, JobFields DEF Left, Working, Writing
  <2>5. Asked' = [Asked EXCEPT ![h] = Asked[h] \ {job}]
    <3> HIDE DEF w
    <3> QED BY <1>5, <2>2, <2>4
  <2>6. disk' = [disk EXCEPT ![job.path] = job.text]
    BY <2>1, <2>3
  <2> HIDE DEF job
  <2> QED BY <2>1, <2>4, <2>5, <2>6 DEF Abstract!Replace
<1>14. ASSUME NEW h \in Handlers, Finish(h) PROVE UNCHANGED <<disk, Asked, ours>>
  <2>1. /\ Writing(h) /\ handler[h].todo = {} /\ handler[h].file = None
        /\ handler' = [handler EXCEPT ![h] = Free] /\ UNCHANGED <<disk, ours>>
    BY <1>14 DEF Finish
  <2>2. Asked[h] = {}
    BY <1>8, <2>1
  <2> QED BY <1>3, <1>same, <2>1, <2>2
<1>15. CASE Kill
  <2>1. \A h \in Handlers : handler'[h] = Free
    BY <1>15 DEF Kill
  <2>2. Asked' \in [Handlers -> SUBSET Job] /\ \A h \in Handlers : Asked'[h] \subseteq Asked[h]
    BY <1>1, <1>3, <2>1
  <2>3. UNCHANGED <<disk, ours>>
    BY <1>15 DEF Kill
  <2> QED BY <2>2, <2>3 DEF Abstract!Drop, Abstract!Job, Job
<1>16. ASSUME NEW p \in Paths, Edited(p) PROVE Abstract!Outside(p)
  <2>1. \E text \in Maybe(Text) : disk' = [disk EXCEPT ![p] = text]
    BY <1>16 DEF Edited, Text, Maybe
  <2>2. ours' = FALSE /\ Asked' = Asked
    BY <1>1, <1>16 DEF Edited
  <2> QED BY <2>1, <2>2 DEF Abstract!Outside, Maybe
<1>17. CASE \/ Export \/ Rescan \/ CloseEditor \/ UNCHANGED vars
            \/ \E r \in Reads :
                 \/ \E p \in Paths : OpenEditor(r, p)
                 \/ ServeRead(r) \/ ReadArrives(r) \/ ReadFails(r)
  <2>1. UNCHANGED <<handler, disk, ours>>
    BY <1>17 DEF Export, Rescan, CloseEditor, vars, OpenEditor, ServeRead, ReadArrives, ReadFails
  <2> QED BY <1>1, <2>1
<1> QED BY <1>7, <1>9, <1>10, <1>11, <1>12, <1>13, <1>14, <1>15, <1>16, <1>17 DEF Next

(* However saves, imports, kills and edits overlap, the panel replaces the *)
(* configuration files as FileWrites promises.                             *)
THEOREM SavesAreAtomic == Spec => Implements
<1>1. Init => Abstract!FInit
  BY DEF Init, Abstract!FInit, Asked, Writing, Free
<1>2. WInv /\ [Next]_vars => [Abstract!FNext]_(Abstract!fvars)
  BY StepRefines DEF Abstract!FNext, Abstract!fvars
<1> QED BY <1>1, <1>2, WritesInvariant, PTL
    DEF Spec, Implements, Abstract!FSpec

-----------------------------------------------------------------------------
(* The texts, until an answer is late                                      *)

(* Whatever waits to be written was written for the file it goes to.       *)
TextsMatch ==
  ~late =>
    /\ \A p \in Paths : disk[p] # None => disk[p].of = p
    /\ \A p \in Paths : bundle[p] # None => bundle[p].of = p
    /\ \A h \in Handlers : \A job \in Asked[h] : job.text.of = job.path

(* A read brings the text of the file it was asked for, and an open editor *)
(* shows that of the file edited whenever a text can be saved, or could be *)
(* if no save were under way.                                              *)
Quiet == \A r \in Reads : reads[r] = NoRead
Shown == page.open /\ page.writable /\ (~page.saving \/ Quiet) =>
           page.content.of = page.editing
EditorMatches ==
  ~late => /\ \A r \in Reads : reads[r].at = "served" => reads[r].text.of = reads[r].path
           /\ Shown

IInv == WInv /\ TextsMatch /\ EditorMatches

LEMMA InitIInv == Init => IInv
<1> SUFFICES ASSUME Init PROVE TextsMatch /\ EditorMatches
  BY InitWInv DEF IInv
<1>1. TextsMatch
  BY DEF Init, TextsMatch, Asked, Writing, Free, NoTexts
<1>2. EditorMatches
  BY DEF Init, EditorMatches, NoRead, Shown
<1> QED BY <1>1, <1>2

LEMMA LateStays ==
  ASSUME [Next]_vars, ~late'
  PROVE  ~late
BY DEF Next, vars, OpenEditor, ServeRead, ReadArrives, ReadFails, CloseEditor, Submit,
       RefuseLink, CreateTemp, WriteTemp, WriteFails, Rename, Finish, BeginImport,
       Export, Rescan, Kill, Edited, Answered, SaveAnswered

LEMMA TextsStep ==
  ASSUME IInv, [Next]_vars
  PROVE  TextsMatch'
<1> SUFFICES ASSUME ~late' PROVE TextsMatch'
  BY DEF TextsMatch
<1>late. ~late
  BY LateStays
<1>0. /\ disk \in [Paths -> Maybe(Text)] /\ bundle \in [Paths -> Maybe(Text)]
      /\ Asked = [h \in Handlers |-> Asked[h]]
      /\ \A p \in Paths : disk[p] # None => disk[p].of = p
      /\ \A p \in Paths : bundle[p] # None => bundle[p].of = p
      /\ \A h \in Handlers : \A job \in Asked[h] : job.text.of = job.path
  BY <1>late DEF IInv, WInv, FilesAreWhole, TextsMatch, Asked
<1>1. \A p \in Paths : bundle'[p] # None => bundle'[p].of = p
  <2>1. CASE Export
    BY <1>0, <2>1 DEF Export
  <2>2. CASE ~Export
    <3>1. bundle' = bundle
      BY <2>2 DEF Next, vars, OpenEditor, ServeRead, ReadArrives, ReadFails, CloseEditor, Submit,
                  RefuseLink, CreateTemp, WriteTemp, WriteFails, Rename, Finish, BeginImport,
                  Rescan, Kill, Edited
    <3> QED BY <1>0, <3>1
  <2> QED BY <2>1, <2>2
<1> DEFINE Disk == \A p \in Paths : disk'[p] # None => disk'[p].of = p
           Jobs == \A h \in Handlers : \A job \in Asked'[h] : job.text.of = job.path
<1>2. Disk /\ Jobs => TextsMatch'
  BY <1>1 DEF TextsMatch
<1>3. CASE UNCHANGED <<disk, Asked, ours>>
  BY <1>0, <1>2, <1>3
<1>4. CASE Abstract!Drop
  BY <1>0, <1>2, <1>4 DEF Abstract!Drop
<1>5. ASSUME NEW h \in Handlers, Abstract!Replace(h) PROVE TextsMatch'
  <2>1. PICK job \in Asked[h] : /\ disk' = [disk EXCEPT ![job.path] = job.text]
                                /\ Asked' = [Asked EXCEPT ![h] = Asked[h] \ {job}]
    BY <1>5 DEF Abstract!Replace
  <2>2. Disk
    BY <1>0, <2>1
  <2>3. \A g \in Handlers : Asked'[g] \subseteq Asked[g]
    BY <1>0, <2>1
  <2> QED BY <1>0, <1>2, <2>2, <2>3
<1>6. ASSUME NEW h \in Handlers, Submit(h) \/ BeginImport(h), Abstract!Ask(h) PROVE TextsMatch'
  <2>1. disk' = disk /\ \A g \in Handlers \ {h} : Asked'[g] = Asked[g]
    BY <1>0, <1>6 DEF Abstract!Ask
  <2>2. \A job \in Asked'[h] : job.text.of = job.path
    <3>1. \A job \in Asked'[h] : job \in handler'[h].todo \/ job = handler'[h].file
      BY DEF Asked
    <3>2. handler'[h].file = None /\ None \notin Asked'[h]
      <4>1. \E todo \in SUBSET Job, op \in {"save", "import"} :
              handler' = [handler EXCEPT ![h] = [Free EXCEPT !.op = op, !.todo = todo]]
        BY <1>6, BeginStep DEF IInv
      <4>2. handler'[h].file = None
        BY <4>1 DEF Free, IInv, WInv, FilesAreWhole
      <4>3. Asked'[h] \in SUBSET Job
        BY <1>6 DEF Abstract!Ask, Abstract!Job, Job
      <4> QED BY <4>2, <4>3, NoneAssumption
    <3>3. ASSUME NEW job \in handler'[h].todo PROVE job.text.of = job.path
      <4>1. CASE Submit(h)
        <5>1. page.content.of = page.editing /\ page.content \in Text
          BY <1>late, <4>1 DEF Submit, IInv, EditorMatches, Shown, WInv, EditorIsReady, Maybe
        <5>2. \E rev \in Revisions :
                job = [path |-> page.editing, text |-> [page.content EXCEPT !.rev = rev]]
          BY <3>3, <4>1 DEF Submit, IInv, WInv, FilesAreWhole, Free
        <5>3. PICK rev \in Revisions :
                job = [path |-> page.editing, text |-> [page.content EXCEPT !.rev = rev]]
          BY <5>2
        <5>4. [page.content EXCEPT !.rev = rev].of = page.content.of
          BY <5>1 DEF Text
        <5> QED BY <5>1, <5>3, <5>4
      <4>2. CASE BeginImport(h)
        <5>1. \E p \in Paths : bundle[p] # None /\ job = [path |-> p, text |-> bundle[p]]
          BY <3>3, <4>2 DEF BeginImport, IInv, WInv, FilesAreWhole, Free
        <5> QED BY <1>0, <5>1
      <4> QED BY <1>6, <4>1, <4>2
    <3> QED BY <3>1, <3>2, <3>3
  <2> QED BY <1>0, <1>2, <2>1, <2>2
<1>7. ASSUME NEW p \in Paths, Edited(p), Abstract!Outside(p) PROVE TextsMatch'
  <2>1. Asked' = Asked
    BY <1>7 DEF Abstract!Outside
  <2>2. Disk
    BY <1>0, <1>7 DEF Edited
  <2> QED BY <1>0, <1>2, <2>1, <2>2
<1> QED BY <1>3, <1>4, <1>5, <1>6, <1>7, StepRefines DEF IInv

LEMMA MatchStep ==
  ASSUME IInv, [Next]_vars
  PROVE  EditorMatches'
<1> SUFFICES ASSUME ~late' PROVE EditorMatches'
  BY DEF EditorMatches
<1> DEFINE Rightful(c) == c.at = "served" => c.text.of = c.path
<1>0. /\ page \in [open : BOOLEAN, editing : Maybe(Paths), content : Maybe(Text),
                    writable : BOOLEAN, saving : BOOLEAN]
      /\ reads \in [Reads -> {NoRead} \cup Waiting \cup Served]
  BY DEF IInv, WInv, EditorIsReady
<1>1. /\ \A r \in Reads : Rightful(reads[r])
      /\ Shown
      /\ \A p \in Paths : disk[p] # None => disk[p].of = p
  BY LateStays DEF IInv, EditorMatches, TextsMatch
<1>2. ASSUME \A r \in Reads : Rightful(reads'[r]), Shown' PROVE EditorMatches'
  BY <1>2 DEF EditorMatches
<1>3. Rightful(NoRead)
  BY DEF NoRead
<1> HIDE DEF Rightful
<1>4. ASSUME NEW r \in Reads, NEW c, Rightful(c), reads' = [reads EXCEPT ![r] = c]
      PROVE  \A q \in Reads : Rightful(reads'[q])
  BY <1>0, <1>1, <1>4
\* Steps that leave the reads alone.
<1>5. ASSUME reads' = reads,
             \/ page' = page
             \/ page' = [page EXCEPT !.open = FALSE]
             \/ page' = [page EXCEPT !.saving = TRUE] /\ ~page.saving
      PROVE  EditorMatches'
  BY <1>0, <1>1, <1>2, <1>5 DEF Shown, Quiet
<1>6. ASSUME SaveAnswered, reads' = reads PROVE EditorMatches'
  <2>1. page' = [page EXCEPT !.saving = FALSE] /\ (page.open => Quiet)
    BY <1>6 DEF SaveAnswered, Quiet
  <2> QED BY <1>0, <1>1, <1>2, <1>6, <2>1 DEF Shown
<1>7. ASSUME NEW h \in Handlers, Answered(h), reads' = reads PROVE EditorMatches'
  BY <1>5, <1>6, <1>7 DEF Answered
<1>8. ASSUME NEW h \in Handlers,
             \/ Submit(h) \/ RefuseLink(h) \/ CreateTemp(h) \/ WriteTemp(h)
             \/ WriteFails(h) \/ Rename(h) \/ Finish(h) \/ BeginImport(h)
      PROVE  EditorMatches'
  <2>1. CASE RefuseLink(h) \/ WriteFails(h) \/ Finish(h)
    BY <1>7, <2>1 DEF RefuseLink, WriteFails, Finish
  <2>2. CASE CreateTemp(h) \/ WriteTemp(h) \/ Rename(h) \/ BeginImport(h)
    BY <1>5, <2>2 DEF CreateTemp, WriteTemp, Rename, BeginImport
  <2>3. CASE Submit(h)
    BY <1>5, <2>3 DEF Submit
  <2> QED BY <1>8, <2>1, <2>2, <2>3
<1>9. ASSUME NEW r \in Reads, NEW p \in Paths, OpenEditor(r, p) PROVE EditorMatches'
  <2> DEFINE c == [at |-> "sent", path |-> p]
  <2>1. /\ reads' = [reads EXCEPT ![r] = c]
        /\ page' = [page EXCEPT !.open = TRUE, !.editing = p, !.saving = TRUE]
    BY <1>9 DEF OpenEditor
  <2>2. Rightful(c) /\ c # NoRead
    BY DEF Rightful, NoRead
  <2>3. page'.saving /\ reads'[r] # NoRead
    BY <1>0, <2>1, <2>2
  <2>4. Shown'
    BY <2>3 DEF Shown, Quiet
  <2> HIDE DEF c
  <2> QED BY <1>2, <1>4, <2>1, <2>2, <2>4
<1>10. ASSUME NEW r \in Reads, ServeRead(r) PROVE EditorMatches'
  <2> DEFINE p == reads[r].path
             c == IF list[p] = "absent" \/ disk[p] = None THEN [at |-> "failed", path |-> p]
                  ELSE [at |-> "served", path |-> p, text |-> disk[p],
                        writable |-> list[p] = "writable"]
  <2>1. reads[r].at = "sent" /\ reads' = [reads EXCEPT ![r] = c] /\ page' = page
    BY <1>10 DEF ServeRead
  <2>2. reads[r] # NoRead /\ disk[p] # None => disk[p].of = p
    BY <1>1, <2>1, ReadFields DEF IInv, WInv, NoRead, Waiting
  <2>3. Rightful(c) /\ c # NoRead
    <3> HIDE DEF p
    <3>1. CASE list[p] = "absent" \/ disk[p] = None
      BY <3>1 DEF Rightful, NoRead
    <3>2. CASE ~(list[p] = "absent" \/ disk[p] = None)
      BY <2>2, <2>1, <3>2 DEF Rightful, NoRead
    <3> QED BY <3>1, <3>2
  <2> HIDE DEF c, p
  <2>4. reads'[r] # NoRead
    BY <1>0, <2>1, <2>3
  <2>5. Shown'
    BY <1>1, <2>1, <2>2, <2>4 DEF Shown, Quiet, NoRead
  <2> QED BY <1>2, <1>4, <2>1, <2>3, <2>5
<1>11. ASSUME NEW r \in Reads, ReadArrives(r) PROVE EditorMatches'
  <2>1. /\ reads' = [reads EXCEPT ![r] = NoRead] /\ reads[r].at = "served"
        /\ page' = [page EXCEPT !.content = reads[r].text, !.writable = reads[r].writable,
                                !.saving = FALSE]
        /\ page.open => reads[r].path = page.editing
    BY <1>11 DEF ReadArrives
  <2>2. reads[r].text.of = reads[r].path
    BY <1>1, <2>1 DEF Rightful
  <2>3. Shown'
    BY <1>0, <2>1, <2>2 DEF Shown
  <2> QED BY <1>2, <1>3, <1>4, <2>1, <2>3
<1>12. ASSUME NEW r \in Reads, ReadFails(r) PROVE EditorMatches'
  <2>1. /\ reads' = [reads EXCEPT ![r] = NoRead]
        /\ page' = [page EXCEPT !.open = FALSE, !.saving = FALSE]
    BY <1>12 DEF ReadFails
  <2>2. Shown'
    BY <1>0, <2>1 DEF Shown
  <2> QED BY <1>2, <1>3, <1>4, <2>1, <2>2
<1>13. CASE Kill
  <2>1. reads' = [r \in Reads |-> IF reads[r].at = "sent"
                                  THEN [reads[r] EXCEPT !.at = "failed"] ELSE reads[r]]
    BY <1>13 DEF Kill
  <2>2. ASSUME NEW r \in Reads
        PROVE  /\ Rightful(reads'[r])
               /\ reads'[r] = NoRead <=> reads[r] = NoRead
    <3>1. CASE reads[r].at = "sent"
      <4>1. reads[r] \in Waiting /\ reads'[r] = [reads[r] EXCEPT !.at = "failed"]
        BY <2>1, <3>1, ReadFields DEF IInv, WInv
      <4>2. reads'[r].at = "failed"
        BY <4>1 DEF Waiting
      <4> QED BY <3>1, <4>2 DEF Rightful, NoRead
    <3>2. CASE reads[r].at # "sent"
      BY <1>1, <2>1, <3>2
    <3> QED BY <3>1, <3>2
  <2>3. Quiet' <=> Quiet
    BY <2>2 DEF Quiet
  <2>4. Shown'
    <3>1. CASE Saving
      <4>1. page' = [page EXCEPT !.saving = FALSE] /\ (page.open => Quiet)
        BY <1>13, <3>1 DEF Kill, SaveAnswered, Quiet
      <4> QED BY <1>0, <1>1, <4>1 DEF Shown
    <3>2. CASE ~Saving
      BY <1>1, <1>13, <2>3, <3>2 DEF Kill, Shown
    <3> QED BY <3>1, <3>2
  <2> QED BY <1>2, <2>2, <2>4
<1>14. CASE \/ CloseEditor \/ Export \/ Rescan \/ UNCHANGED vars \/ \E p \in Paths : Edited(p)
  BY <1>5, <1>14 DEF CloseEditor, Export, Rescan, Edited, vars
<1> QED BY <1>8, <1>9, <1>10, <1>11, <1>12, <1>13, <1>14 DEF Next

LEMMA InductiveInvariant == Spec => []IInv
<1>1. IInv /\ [Next]_vars => IInv'
  BY StepWInv, TextsStep, MatchStep DEF IInv
<1> QED BY <1>1, InitIInv, PTL DEF Spec

(* What a scan lists and what stands at a path.                            *)
PathsTyped ==
  /\ kind \in [Paths -> {"file", "readonly", "link"}]
  /\ list \in [Paths -> {"absent", "readonly", "writable"}]
  /\ ours \in BOOLEAN /\ late \in BOOLEAN

LEMMA PathsInvariant == Spec => []PathsTyped
<1>1. Scanned \in [Paths -> {"absent", "readonly", "writable"}]
  BY DEF Scanned
<1>2. Init => PathsTyped
  BY <1>1, KindsAssumption DEF Init, PathsTyped
<1>3. PathsTyped /\ [Next]_vars => PathsTyped'
  <2> SUFFICES ASSUME PathsTyped, [Next]_vars PROVE PathsTyped'
    OBVIOUS
  <2>1. list' \in {list, Scanned} /\ ours' \in {ours, TRUE, FALSE}
    BY DEF Next, vars, OpenEditor, ServeRead, ReadArrives, ReadFails, CloseEditor, Submit,
           RefuseLink, CreateTemp, WriteTemp, WriteFails, Rename, Finish, BeginImport,
           Export, Rescan, Kill, Edited
  <2>2. kind' = kind \/ \E p : kind' = [kind EXCEPT ![p] = "file"]
    BY DEF Next, vars, OpenEditor, ServeRead, ReadArrives, ReadFails, CloseEditor, Submit,
           RefuseLink, CreateTemp, WriteTemp, WriteFails, Rename, Finish, BeginImport,
           Export, Rescan, Kill, Edited
  <2>3. late' \in BOOLEAN
    BY DEF Next, vars, OpenEditor, ServeRead, ReadArrives, ReadFails, CloseEditor, Submit,
           RefuseLink, CreateTemp, WriteTemp, WriteFails, Rename, Finish, BeginImport,
           Export, Rescan, Kill, Edited, Answered, SaveAnswered, PathsTyped
  <2> QED BY <1>1, <2>1, <2>2, <2>3 DEF PathsTyped
<1> QED BY <1>2, <1>3, PTL DEF Spec

(* Files, requests, editor and reads stay in their ranges.                 *)
THEOREM TypeCorrect == Spec => []TypeOK
<1>1. ASSUME WInv, PathsTyped PROVE TypeOK
  <2>1. Maybe(Text) \subseteq Piece \cup {None} /\ Text \subseteq Piece
    BY DEF Maybe, Text, Piece
  <2>2. disk \in [Paths -> Piece \cup {None}] /\ bundle \in [Paths -> Piece \cup {None}]
    BY <1>1, <2>1 DEF WInv, FilesAreWhole
  <2>3. temp \in [Handlers -> Piece \cup {None}]
    BY <1>1 DEF WInv, FilesAreWhole, Maybe
  <2>4. /\ handler \in [Handlers -> {Free} \cup [op : {"save", "import"}, todo : SUBSET Job,
                                                file : Job \cup {None}, written : BOOLEAN]]
        /\ \A h \in Handlers : handler[h].written => handler[h].file # None
    <3>1. \A h \in Handlers : ~Writing(h) => handler[h] = Free
      BY <1>1 DEF WInv, FilesAreWhole, Working, Writing
    <3>2. Free.written = FALSE
      BY DEF Free
    <3>3. \A h \in Handlers : handler[h].written => handler[h].file # None
      BY <1>1, <3>1, <3>2 DEF WInv, WritesWhatWasAsked
    <3> QED BY <1>1, <3>3 DEF WInv, FilesAreWhole, Working, Maybe
  <2>5. page \in [open : BOOLEAN, editing : Paths \cup {None}, content : Piece \cup {None},
                  writable : BOOLEAN, saving : BOOLEAN]
    BY <1>1, <2>1 DEF WInv, EditorIsReady, Maybe
  <2>6. reads \in [Reads -> {NoRead} \cup [at : {"sent", "failed"}, path : Paths]
                           \cup [at : {"served"}, path : Paths, text : Piece,
                                writable : BOOLEAN]]
    <3>1. Served \subseteq [at : {"served"}, path : Paths, text : Piece, writable : BOOLEAN]
      BY <2>1 DEF Served
    <3> QED BY <1>1, <3>1 DEF WInv, EditorIsReady, Waiting
  <2> QED BY <1>1, <2>2, <2>3, <2>4, <2>5, <2>6 DEF PathsTyped, TypeOK
<1> QED BY <1>1, WritesInvariant, PathsInvariant, PTL

(* Until an answer is late no text is saved over another file, however the *)
(* editor is closed and opened while calls are under way.                  *)
THEOREM TextsStay == Spec => []TextsStayWithTheirFile
<1>1. IInv => TextsStayWithTheirFile
  BY DEF IInv, TextsMatch, TextsStayWithTheirFile
<1> QED BY <1>1, InductiveInvariant, PTL
=============================================================================
