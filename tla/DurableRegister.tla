--------------------------- MODULE DurableRegister ---------------------------
(***************************************************************************)
(* What the panel expects of its state file, whatever Store.save does to   *)
(* provide it: a register that holds whole values only.  A write replaces  *)
(* the value at once; a crash of the process loses nothing but the memory; *)
(* after a power loss the register holds the last value the disk has       *)
(* settled on or a later one, complete.                                    *)
(***************************************************************************)
EXTENDS Naturals

CONSTANTS
  Values,     \* contents of the panel's state
  Loaded,     \* Loaded[v]: the state Open builds from a file that holds v
  Fresh,      \* the state of a first start
  NoFile,     \* no state file yet
  Down        \* the process is not running

VARIABLES
  mem,        \* the state in memory, or Down
  stable,     \* what a restart of the process finds
  possible    \* what a power loss may leave

rvars == <<mem, stable, possible>>

RInit ==
  /\ mem = Down
  /\ stable \in Values \cup {NoFile}
  /\ possible = {stable}

Recover ==
  /\ mem = Down
  /\ mem' = IF stable = NoFile THEN Fresh ELSE Loaded[stable]
  /\ UNCHANGED <<stable, possible>>

Modify ==
  /\ mem # Down
  /\ mem' \in Values
  /\ UNCHANGED <<stable, possible>>

Write ==
  /\ mem # Down
  /\ stable' = mem
  /\ possible' = possible \cup {mem}
  /\ UNCHANGED mem

Settle ==
  /\ possible' = {stable}
  /\ UNCHANGED <<mem, stable>>

Crash ==
  /\ mem' = Down
  /\ UNCHANGED <<stable, possible>>

PowerLoss ==
  /\ mem' = Down
  /\ stable' \in possible
  /\ possible' = {stable'}

RNext == Recover \/ Modify \/ Write \/ Settle \/ Crash \/ PowerLoss

RSpec == RInit /\ [][RNext]_rvars
=============================================================================
