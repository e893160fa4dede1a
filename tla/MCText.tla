------------------------------ MODULE MCText ------------------------------
(***************************************************************************)
(* FormatOutput and Syslog in one run, one after the other, since neither  *)
(* knows of the other: texts for a player go through the word wrap, and    *)
(* behind one of them, which leaves the line empty, the log is written.    *)
(***************************************************************************)
EXTENDS FormatOutput, Syslog

Init == FInit /\ LInit

\* Of all the ends of a text, one.
Formatted ==
    /\ char = "end" /\ rest = MaxText /\ count = 0 /\ col = 0
    /\ width = 10 /\ shown = 0 /\ ~WW

Next ==
    \/ FNext /\ UNCHANGED lvars
    \/ Formatted /\ LNext /\ UNCHANGED fvars

Spec == Init /\ [][Next]_<<fvars, lvars>> /\ WF_fvars(format_output)
=============================================================================
