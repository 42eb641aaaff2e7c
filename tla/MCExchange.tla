------------------------------ MODULE MCExchange ------------------------------
(***************************************************************************)
(* Exchange on small instances; the unit of time is 15s.                    *)
(***************************************************************************)
EXTENDS Exchange

Command(name, window, settle) == [name |-> name, window |-> window, settle |-> settle]

\* Each command: without sleeping, with a settle time, a window, and both
AllCommands ==
    {Command("healthz", 0, 0), Command("screenshot", 0, 1), Command("eval", 0, 0),
     Command("probe", 2, 0), Command("burst", 1, 1)}

\* A probe of 30s, and one of 60s
Probes == {Command("probe", 2, 0), Command("probe", 4, 0)}
=============================================================================
