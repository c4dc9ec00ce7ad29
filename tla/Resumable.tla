------------------------------ MODULE Resumable ------------------------------
(***************************************************************************)
(* What a resumable conversion promises, whatever the import tool, the     *)
(* batches, the failures and the restarts: a chunk is either still to do,  *)
(* and then its output files may be rewritten any number of times, or      *)
(* done, and then it has an output file and neither the record nor any of  *)
(* its files is touched again, by this run or by a later one.  Several     *)
(* chunks may become done in one step (one commit of the state store).     *)
(***************************************************************************)
CONSTANTS Chunk, Dest, NoFile

VARIABLES
    done,                   \* the chunks durably recorded as converted
    out                     \* out[c][d]: the file of chunk c at destination d

vars == <<done, out>>

Init ==
    /\ done = {}
    /\ out = [c \in Chunk |-> [d \in Dest |-> NoFile]]

\* Work on a chunk that is still to do writes one of its files.
Write(c, d) ==
    /\ c \notin done
    /\ \A x \in Chunk, y \in Dest : <<x, y>> # <<c, d>> => out'[x][y] = out[x][y]
    /\ UNCHANGED done

\* A set of chunks, each with a file somewhere, is recorded at once.
Finish(S) ==
    /\ S # {}
    /\ S \cap done = {}
    /\ \A c \in S : \E d \in Dest : out[c][d] # NoFile
    /\ done' = done \cup S
    /\ UNCHANGED out

Next ==
    \/ \E c \in Chunk, d \in Dest : Write(c, d)
    \/ \E S \in SUBSET Chunk : Finish(S)

Spec == Init /\ [][Next]_vars
=============================================================================
