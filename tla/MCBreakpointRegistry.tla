------------------------ MODULE MCBreakpointRegistry ------------------------
EXTENDS BreakpointRegistry

CONSTANTS f1, n1

MCFiles == {f1}
MCLines == {1, 2}
MCFnNames == {n1}
\* plain; script condition with a log message; native condition with an
\* ignore count
MCReqSettings ==
    { [cond |-> "none",   log |-> FALSE, ign |-> FALSE, ovf |-> FALSE],
      [cond |-> "script", log |-> TRUE,  ign |-> FALSE, ovf |-> FALSE],
      [cond |-> "native", log |-> FALSE, ign |-> TRUE,  ovf |-> FALSE] }
\* and a script condition with a negative hitCondition ("-1"), which
\* SetIgnoreCount refuses
MCReqSettingsOvf ==
    MCReqSettings \cup
    { [cond |-> "script", log |-> FALSE, ign |-> TRUE, ovf |-> TRUE] }
MCFilters == { {"cpp_throw"}, {"cpp_catch", "rust_panic"} }
=============================================================================
