--------------------------- MODULE MCBreakpointHit ---------------------------
EXTENDS BreakpointHit

\* no hitCondition; "0", a truthy string that parses to zero; "1"; "-1",
\* which int() accepts and SetIgnoreCount refuses
MCHitReqs ==
    { [str |-> "none", val |-> 0], [str |-> "int", val |-> 0],
      [str |-> "int", val |-> 1], [str |-> "int", val |-> -1] }
=============================================================================
