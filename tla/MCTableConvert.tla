--------------------------- MODULE MCTableConvert ---------------------------
(***************************************************************************)
(* An instance of TableConvert for TLC: a table in two partitions, the     *)
(* first in a tablespace the DDL names and in one it does not, the second  *)
(* in one with a mixed-case name; and a table converted as a whole.        *)
(***************************************************************************)
EXTENDS TableConvert, TLC

CONSTANTS parts, whole,             \* tables
          p1, p2, w,                \* chunks: two of parts, one of whole
          a, b, m                   \* tablespaces; m has a mixed-case name

MCChunksOf == parts :> <<p1, p2>> @@ whole :> <<w>>
MCRows == p1 :> 1 @@ p2 :> 1 @@ w :> 1
MCNeeds == p1 :> {a, b} @@ p2 :> {m} @@ w :> {a}
=============================================================================
