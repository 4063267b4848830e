--------------------------- MODULE BreakpointSettings ---------------------------
(***************************************************************************)
(* What set_bp_condition (debugsession.py 474-510) promises for one        *)
(* breakpoint, as one atomic step: the view BreakpointRegistry takes of it *)
(* (SetBpConditionInfo and SetBpConditionNative there). sinfo is what the  *)
(* BreakpointInfo holds: a script condition or none, a log message, a      *)
(* non-zero ignore count. snat says whether LLDB holds a native condition. *)
(*                                                                         *)
(* BreakpointHit, where set_bp_condition is a sequence of steps racing     *)
(* should_stop_on_bp on LLDB's thread, implements this specification.     *)
(***************************************************************************)

\* The settings of a request entry, in the registry's terms.
Settings == [cond : {"none", "native", "script"}, log : BOOLEAN, ign : BOOLEAN]

VARIABLES sinfo, snat

svars == <<sinfo, snat>>

\* BreakpointInfo(bp_id) beside a breakpoint LLDB has just created.
Init ==
    /\ sinfo = [cond |-> "none", log |-> FALSE, ign |-> FALSE]
    /\ snat = FALSE

\* The reset (477-483) clears LLDB's native condition only when the
\* BreakpointInfo held a script condition or an ignore count; a native
\* condition in the request is then set again.
NativeAfter(s) ==
    IF s.cond = "native" THEN TRUE
    ELSE IF sinfo.cond # "none" \/ sinfo.ign THEN FALSE
    ELSE snat

\* set_bp_condition returns: the request's settings replace the old ones.
Apply(s) ==
    /\ sinfo' = [cond |-> IF s.cond = "script" THEN "script" ELSE "none",
                 log |-> s.log, ign |-> s.ign]
    /\ snat' = NativeAfter(s)

\* set_bp_condition raises OverflowError at SetIgnoreCount (503): the
\* condition and the rejected count are stored, the old log message stays.
\* BreakpointRegistry takes both outcomes, Apply as SetBpConditionInfo and
\* this one as SetBpConditionFailsInfo.
ApplyFails(s) ==
    /\ s.ign
    /\ sinfo' = [cond |-> IF s.cond = "script" THEN "script" ELSE "none",
                 log |-> sinfo.log, ign |-> TRUE]
    /\ snat' = NativeAfter(s)

Next == \E s \in Settings : Apply(s) \/ ApplyFails(s)

Spec == Init /\ [][Next]_svars
=============================================================================
