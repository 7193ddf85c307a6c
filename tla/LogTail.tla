------------------------------ MODULE LogTail -------------------------------
(***************************************************************************)
(* The last lines of a log that is being written (tailLines in             *)
(* src/internal/frpc/runtime.go): the file is read from its end in blocks  *)
(* that know nothing of lines, while frpc goes on appending to it.         *)
(*                                                                         *)
(* A text the call holds is the set of the places in the file that its     *)
(* bytes come from, in their order: to append a text is to join the sets,  *)
(* and two lines that read the same are told apart.                        *)
(***************************************************************************)
EXTENDS Naturals, Sequences

CONSTANTS
  Bytes,      \* characters of a line
  Newline,    \* the end of one
  BlockSize,  \* blockSize
  MaxTail,    \* bound: lines asked for
  MaxSize     \* bound: bytes of the log

ASSUME LogAssumption ==
  /\ Newline \notin Bytes
  /\ BlockSize \in Nat \ {0} /\ MaxTail \in Nat \ {0} /\ MaxSize \in Nat

VARIABLES
  log,    \* the file
  tail    \* the call of tailLines

logVars == <<log, tail>>

\* size is what Stat said, left what the loop over the parts has still to see,
\* lines are newest first until the end.
NotAsked == [pc |-> "idle"]

LogInit ==
  /\ log \in UNION {[1..size -> Bytes \cup {Newline}] : size \in 0..MaxSize}
  /\ tail = NotAsked

Open(n) ==
  /\ tail = NotAsked
  /\ tail' = [pc |-> "read", n |-> n, size |-> Len(log), pos |-> Len(log), upto |-> Len(log),
              left |-> {}, remainder |-> {}, lines |-> <<>>]
  /\ UNCHANGED log

\* Of strings.Split(text, "\n"): where it cuts, the first part, the last one, and
\* the text without the last one.
Ends(text)        == {i \in text : log[i] = Newline}
FirstPart(text)   == {i \in text : \A e \in Ends(text) : i < e}
LastPart(text)    == {i \in text : \A e \in Ends(text) : e < i}
WithoutLast(text) == {i \in text : \E e \in Ends(text) : i < e}

Mutant_RemainderLost(from) == (from + 1)..tail.pos
\* A block, and what the one after it has begun with.
Chunk(from) == ((from + 1)..tail.pos) \cup tail.remainder

\* The part before the first newline waits for the next block.
ReadBlock ==
  /\ tail.pc = "read" /\ Ends(tail.left) = {}
  /\ tail.pos > 0 /\ Len(tail.lines) <= tail.n
  /\ LET from == IF tail.pos < BlockSize THEN 0 ELSE tail.pos - BlockSize
     IN  tail' = [tail EXCEPT !.pos = from, !.upto = tail.pos, !.left = Chunk(from),
                              !.remainder = FirstPart(Chunk(from))]
  /\ UNCHANGED log

\* A blank part of the last block, while there is no line.
BlankAtTheEnd ==
  LastPart(tail.left) = {} /\ tail.upto = tail.size /\ tail.lines = <<>>

SkipBlank ==
  /\ tail.pc = "read" /\ Ends(tail.left) # {} /\ BlankAtTheEnd
  /\ tail' = [tail EXCEPT !.left = WithoutLast(@)]
  /\ UNCHANGED log

TakeLine ==
  /\ tail.pc = "read" /\ Ends(tail.left) # {} /\ ~BlankAtTheEnd
  /\ tail' = [tail EXCEPT !.lines = Append(@, LastPart(tail.left)),
                          !.left = IF Len(tail.lines) + 1 >= tail.n THEN {} ELSE WithoutLast(@)]
  /\ UNCHANGED log

\* At most n of the lines, oldest first.
Finish ==
  /\ tail.pc = "read" /\ Ends(tail.left) = {} /\ (tail.pos = 0 \/ Len(tail.lines) > tail.n)
  /\ LET all   == IF Len(tail.lines) < tail.n /\ tail.remainder # {}
                  THEN Append(tail.lines, tail.remainder) ELSE tail.lines
         count == IF Len(all) < tail.n THEN Len(all) ELSE tail.n
     IN  tail' = [pc |-> "done", n |-> tail.n, size |-> tail.size,
                  lines |-> [i \in 1..count |-> all[count + 1 - i]]]
  /\ UNCHANGED log

\* frpc writes on.
AppendToLog ==
  /\ tail.pc # "done" /\ Len(log) < MaxSize
  /\ \E byte \in Bytes \cup {Newline} : log' = Append(log, byte)
  /\ UNCHANGED tail

LogNext == ReadBlock \/ SkipBlank \/ TakeLine \/ Finish \/ AppendToLog
             \/ \E n \in 1..MaxTail : Open(n)

LogSpec == LogInit /\ [][LogNext]_logVars

-----------------------------------------------------------------------------
(* Properties *)

\* A line of the file, as it was asked for, stands between two of these that
\* have none in between.
Cuts == Ends(1..tail.size) \cup {0, tail.size + 1}

Line(cut, next) == (cut + 1)..(next - 1)

IsLine(cut, next) == cut < next /\ Line(cut, next) \cap Cuts = {}

Blank(places) == \A i \in places : log[i] = Newline

(* The answer is a run of whole lines that stood in the file when it was   *)
(* asked for, none cut, joined, missing or twice, wherever the blocks cut  *)
(* the file and whatever is appended meanwhile.  Only blank lines come     *)
(* after it, and it is as long as asked unless only blank ones are before. *)
TailIsTheEnd ==
  tail.pc = "done" =>
    LET count == Len(tail.lines)
    IN  \E cuts \in [0..count -> Cuts] :
          /\ \A i \in 1..count : /\ IsLine(cuts[i - 1], cuts[i])
                                 /\ tail.lines[i] = Line(cuts[i - 1], cuts[i])
          /\ Blank((cuts[count] + 1)..tail.size)
          /\ count = tail.n \/ Blank(1..(cuts[0] - 1))
=============================================================================
