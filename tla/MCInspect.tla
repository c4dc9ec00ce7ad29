------------------------------ MODULE MCInspect ------------------------------
(***************************************************************************)
(* An instance of Inspect for TLC: a materialized view, a table in two     *)
(* partitions one of which has subpartitions, an external table and a      *)
(* table with a column of a user-defined type.  The composite table has a  *)
(* policy with a standalone function, a trigger, a key and the columns,    *)
(* the view a policy of its own, the external table one whose function is  *)
(* in a package.                                                           *)
(***************************************************************************)
EXTENDS Inspect, TLC

CONSTANTS mv, fact, feed, Obj,      \* tables; Obj and OBJ differ in case
          trg, fk,                  \* a trigger and a key of fact
          pol, pkg, mvp,            \* policies of fact, feed and mv
          fun, mvfun,               \* functions of pol and of mvp
          txt, key                  \* byte columns of fact; key partitions it

Number == [type |-> "NUMBER", owner |-> NoOwner, hidden |-> FALSE]
Xml == [type |-> "XMLTYPE", owner |-> "PUBLIC", hidden |-> FALSE]
Address == [type |-> "ADDRESS_T", owner |-> "APP", hidden |-> FALSE]
Helper == [type |-> "BFILE", owner |-> NoOwner, hidden |-> TRUE]

Plain == [type |-> "TABLE", columns |-> {Number}, partitions |-> <<>>]
MCDump ==
    mv :> Plain
    @@ fact :> [type |-> "TABLE", columns |-> {Number, Xml, Helper},
                partitions |-> <<[name |-> "P1", subs |-> <<"S1", "S2">>],
                                 [name |-> "P2", subs |-> <<>>]>>]
    @@ feed :> [type |-> "EXTERNAL", columns |-> {Number}, partitions |-> <<>>]
    @@ Obj :> [type |-> "TABLE", columns |-> {Address}, partitions |-> <<>>]

MCOn == trg :> fact @@ fk :> fact @@ pol :> fact @@ pkg :> feed @@ mvp :> mv
            @@ txt :> fact @@ key :> fact
MCFunctionOf == pol :> fun @@ pkg :> NoFunction @@ mvp :> mvfun
MCUpper == [t \in {mv, fact, feed, Obj} |-> IF t = Obj THEN "OBJ" ELSE t]
MCConfig == "OBJ" :> "whole" @@ mv :> "none"
=============================================================================
