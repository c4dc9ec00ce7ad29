----------------------------- MODULE Recoverable -----------------------------
(***************************************************************************)
(* What a record of finished chunks is worth that may be lost, when notes  *)
(* of what was finished are left beside the files.  A chunk is finished    *)
(* only when its file is whole, and as long as it is, nobody touches that  *)
(* file.  A note is made of finished chunks only; it outlives the record,  *)
(* and is not taken back when work on the chunk begins anew.  After the    *)
(* record is lost, the notes bring back chunks whose files are still       *)
(* whole; only after a second loss may a note be older than its file.      *)
(***************************************************************************)
EXTENDS Naturals

CONSTANT Chunk

VARIABLES
    done,                   \* the chunks recorded as finished
    whole,                  \* the chunks whose file is whole
    noted,                  \* the chunks a note calls finished
    losses                  \* how often the record was lost

vars == <<done, whole, noted, losses>>

Init ==
    /\ done = {}
    /\ whole = {}
    /\ noted = {}
    /\ losses = 0

\* Work on a chunk that is not finished makes its file whole, or breaks it.
Write(c) ==
    /\ c \notin done
    /\ whole' \in {whole \cup {c}, whole \ {c}}
    /\ UNCHANGED <<done, noted, losses>>

\* Chunks whose files are whole are recorded at once.
Finish(S) ==
    /\ S \subseteq whole
    /\ done' = done \cup S
    /\ UNCHANGED <<whole, noted, losses>>

\* A note is made of a finished chunk; it may take the place of others.
Note(c) ==
    /\ c \in done
    /\ c \in noted'
    /\ noted' \subseteq noted \cup {c}
    /\ UNCHANGED <<done, whole, losses>>

Lose ==
    /\ done' = {}
    /\ losses' = losses + 1
    /\ UNCHANGED <<whole, noted>>

\* Chunks are recorded again, all at once, for the notes made of them.
Recover(S) ==
    /\ losses > 0
    /\ S \subseteq noted
    /\ losses = 1 => S \subseteq whole
    /\ done' = done \cup S
    /\ UNCHANGED <<whole, noted, losses>>

Next ==
    \/ \E c \in Chunk : Write(c) \/ Note(c)
    \/ \E S \in SUBSET Chunk : Finish(S) \/ Recover(S)
    \/ Lose

Spec == Init /\ [][Next]_vars
=============================================================================
