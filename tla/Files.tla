------------------------------- MODULE Files -------------------------------
(***************************************************************************)
(* What the commands of pcapdigger share: every run of a command is a      *)
(* process of its own, several may be alive at once, any of them may be    *)
(* killed between two of its steps, and all of them work on the files      *)
(* under ~/.config/pcapdigger without a lock.                              *)
(*                                                                         *)
(* os.WriteFile is two steps: the file is opened with O_TRUNC, and the     *)
(* bytes are written at offset 0 of whatever is there by then.  The files  *)
(* written this way are small: a write succeeds whole or not at all.       *)
(***************************************************************************)
CONSTANT Runs   \* the runs of commands, each started at most once

VARIABLE pc     \* where each run stands

Ended == {"ok", "failed", "dead"}

Live(p) == pc[p] \notin Ended \cup {"idle"}

Goto(p, step) == pc' = [pc EXCEPT ![p] = step]

\* Some run other than p stands at one of the steps.
OtherAt(p, steps) == \E q \in Runs \ {p} : pc[q] \in steps

\* The run is killed.  What it has written stays as it is.
Killed(p) == Live(p) /\ Goto(p, "dead")

(***************************************************************************)
(* The contents of a file that holds one value of a set.                   *)
(***************************************************************************)
Absent  == [is |-> "absent"]
Empty   == [is |-> "empty"]     \* truncated, nothing written since
Garbled == [is |-> "garbled"]   \* the end of a longer text sticks out behind a shorter one

Whole(v) == [is |-> "whole", value |-> v]

FileOf(S) == {Absent, Empty, Garbled} \cup {Whole(v) : v \in S}

\* What a write of v may leave in a file that holds old: over another text,
\* all depends on which of the two is longer.
Written(old, v) == IF old \in {Empty, Whole(v)} THEN {Whole(v)} ELSE {Whole(v), Garbled}
=============================================================================
