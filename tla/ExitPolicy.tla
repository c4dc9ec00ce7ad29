----------------------------- MODULE ExitPolicy -----------------------------
(***************************************************************************)
(* How the exit of an import tool is judged (datapump/_exit_policy.py):    *)
(* from the return code and the ORA codes found in the output.             *)
(***************************************************************************)
EXTENDS Naturals

\* KNOWN_ORA_CODES: those that are FATAL at any return code.
FatalCodes == {1017, 1031, 28000, 31693, 39083, 39126}

\* The policies of the two import tools; neither names a fatal return code.
ImpdpPolicy == [warning |-> {2, 5}, fatal |-> {}, promote |-> FatalCodes]
LegacyImpPolicy == [warning |-> {2}, fatal |-> {}, promote |-> FatalCodes]

\* ToolExitPolicy.classify; the order of its tests is the order here.
Classify(policy, returncode, codes) ==
    IF returncode = 0 THEN "success"
    ELSE IF /\ returncode \notin policy.fatal
            /\ returncode \in policy.warning
            /\ codes \cap policy.promote = {}
         THEN "warning"
         ELSE "fatal"
=============================================================================
