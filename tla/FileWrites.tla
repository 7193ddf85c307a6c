----------------------------- MODULE FileWrites -----------------------------
(***************************************************************************)
(* What the panel promises of the configuration files, whatever            *)
(* atomicWriteFile and ImportConfig do to keep it: a request asks for some *)
(* files to be replaced; each of them is replaced at once, at most once,   *)
(* with the whole of what was asked, between the request and its answer,   *)
(* or is left alone; and no other file is touched.                         *)
(***************************************************************************)
CONSTANTS
  Paths,      \* configuration files
  Requests,   \* requests under way at a time
  Texts,      \* whole contents
  NoFile      \* no file

VARIABLES
  files,      \* [Paths -> Texts or NoFile]
  asked,      \* what each request may still replace: [Requests -> SUBSET Job]
  ours        \* the last file replaced or removed was replaced for a request

fvars == <<files, asked, ours>>

Job == [path : Paths, text : Texts]

FInit ==
  /\ files \in [Paths -> Texts \cup {NoFile}]
  /\ asked = [r \in Requests |-> {}]
  /\ ours = FALSE

Ask(r) ==
  /\ asked[r] = {}
  /\ asked'[r] \in SUBSET Job
  /\ asked' = [asked EXCEPT ![r] = asked'[r]]
  /\ UNCHANGED <<files, ours>>

Replace(r) ==
  \E job \in asked[r] :
    /\ files' = [files EXCEPT ![job.path] = job.text]
    /\ asked' = [asked EXCEPT ![r] = @ \ {job}]
    /\ ours' = TRUE

\* Skipped, failed, or cut off with the process: what is dropped stays undone.
Drop ==
  /\ asked' \in [Requests -> SUBSET Job]
  /\ \A r \in Requests : asked'[r] \subseteq asked[r]
  /\ UNCHANGED <<files, ours>>

\* Somebody else writes.
Outside(p) ==
  /\ \E text \in Texts \cup {NoFile} : files' = [files EXCEPT ![p] = text]
  /\ ours' = FALSE
  /\ UNCHANGED asked

FNext ==
  \/ \E r \in Requests : Ask(r) \/ Replace(r)
  \/ Drop
  \/ \E p \in Paths : Outside(p)

FSpec == FInit /\ [][FNext]_fvars
=============================================================================
