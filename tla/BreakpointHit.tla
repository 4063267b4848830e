---------------------------- MODULE BreakpointHit ----------------------------
(***************************************************************************)
(* One breakpoint of the target, seen from two threads of the adapter.    *)
(*                                                                         *)
(* The event loop runs set_bp_condition (debugsession.py 474-510) when a   *)
(* setBreakpoints or setFunctionBreakpoints request reapplies the          *)
(* breakpoint's condition, hit condition and log message. LLDB's private  *)
(* state thread runs should_stop_on_bp (599-637), through the script      *)
(* callback on_breakpoint_hit (1472), each time the debuggee hits the      *)
(* breakpoint. A request may arrive while the debuggee runs, and the two  *)
(* threads share the BreakpointInfo and the SBBreakpoint. CPython may      *)
(* switch threads between any two bytecodes, so each step below is one    *)
(* access to the shared state, and the steps of the two threads           *)
(* interleave.                                                             *)
(*                                                                         *)
(* LLDB's side of a hit is modelled from its documented behaviour: a      *)
(* native condition that is false means the breakpoint was not hit; a    *)
(* positive ignore count is decremented and the hit is skipped; otherwise *)
(* the script callback, if any, decides, and an exception in it, or a     *)
(* callback with no function, means stop.                                 *)
(***************************************************************************)
EXTENDS Integers

CONSTANTS
    CondReqs,   \* condition kinds a request carries: "none", "native",
                \* "script" (compiles), "bad" (fails to compile)
    HitReqs,    \* hitCondition strings: [str |-> "none" | "junk" | "int",
                \* val |-> the integer an "int" string parses to]
    MaxIgnore   \* the largest ignore count a request asks for

ASSUME HitAssumption ==
    /\ CondReqs \subseteq {"none", "native", "script", "bad"}
    /\ MaxIgnore \in Nat
    /\ \A x \in HitReqs : /\ x.str \in {"none", "junk", "int"}
                          /\ x.val \in Int /\ x.val <= MaxIgnore

\* A setBreakpoints entry as set_bp_condition reads it.
Requests == [cond : CondReqs, hit : HitReqs, log : BOOLEAN]

\* Outcomes of the evaluations a hit's frame decides: the native condition,
\* the script condition and the formatting of the log message.
CondResults == {"true", "false", "raise"}
LogResults == {"ok", "raise"}

VARIABLES
    info,       \* the BreakpointInfo: condition, ignore_count, log_message
    lldb,       \* the SBBreakpoint: native condition set, ignore count,
                \* script callback ("none", "empty" or "hit")
    setPc,      \* set_bp_condition's next step on the event loop
    req,        \* the request set_bp_condition is applying, or applied last
    h,          \* should_stop_on_bp on LLDB's thread: next step, the
                \* frame's evaluation results, the loaded ignore count
    lastOk,     \* the last set_bp_condition returned normally
    outcome     \* ghost: the last hit's result, whether no request step
                \* ran while it was in flight, and its frame's results

vars == <<info, lldb, setPc, req, h, lastOk, outcome>>

NoRequest == [cond |-> "none", hit |-> [str |-> "none", val |-> 0], log |-> FALSE]

\* The integer the hitCondition string asks LLDB to skip, 0 for none.
ReqIgnore(r) == IF r.hit.str = "int" THEN r.hit.val ELSE 0

\* SWIG converts the argument of SetIgnoreCount to uint32_t and raises
\* OverflowError for a value out of range; the model enumerates the
\* negative side of that range.
Uint32(n) == n >= 0

IdleHit == [pc |-> "idle", clean |-> TRUE, n |-> TRUE, c |-> "true",
            l |-> "ok", v |-> 0]

\* The values BreakpointInfo.ignore_count can hold: 0, or what int() made
\* of a request's hitCondition, in range or not.
IgnoreVals == {0} \cup {x.val : x \in HitReqs}

NoOutcome == [res |-> "none", clean |-> TRUE, n |-> TRUE, c |-> "true", l |-> "ok"]

TypeOK ==
    /\ info \in [cond : {"none", "script"}, ign : IgnoreVals, log : BOOLEAN]
    /\ lldb \in [cond : BOOLEAN, ign : 0..MaxIgnore, cb : {"none", "empty", "hit"}]
    /\ setPc \in {"idle", "cond", "ign", "log", "cb"}
    /\ req \in Requests \cup {NoRequest}
    /\ h \in [pc : {"idle", "check", "load", "store", "cond", "log"}, clean : BOOLEAN,
              n : BOOLEAN, c : CondResults, l : LogResults, v : IgnoreVals]
    /\ lastOk \in BOOLEAN
    /\ outcome \in [res : {"none", "filtered", "ignored", "stopped", "continued"},
                    clean : BOOLEAN, n : BOOLEAN, c : CondResults, l : LogResults]

\* A fresh BreakpointInfo (BreakpointInfo.__init__) beside a breakpoint
\* LLDB has just created.
Init ==
    /\ info = [cond |-> "none", ign |-> 0, log |-> FALSE]
    /\ lldb = [cond |-> FALSE, ign |-> 0, cb |-> "none"]
    /\ setPc = "idle"
    /\ req = NoRequest
    /\ h = IdleHit
    /\ lastOk = TRUE
    /\ outcome = NoOutcome

\* A step of set_bp_condition while a hit is in flight makes that hit one
\* whose decision may mix the old and the new settings.
Interrupt == h' = IF h.pc = "idle" THEN h ELSE [h EXCEPT !.clean = FALSE]

-----------------------------------------------------------------------------
(* set_bp_condition, on the event loop                                     *)

\* Mutant: the reset of lines 477-483 keyed on the condition alone, so a
\* stale ignore count survives a request that has none.
BeginSetBpConditionCondOnly(r) ==
    /\ setPc = "idle"
    /\ req' = r
    /\ IF info.cond # "none"
         THEN /\ info' = [info EXCEPT !.cond = "none", !.ign = 0]
              /\ lldb' = [lldb EXCEPT !.cond = FALSE, !.cb = "empty"]
         ELSE UNCHANGED <<info, lldb>>
    /\ setPc' = "cond"
    /\ outcome' = NoOutcome
    /\ Interrupt
    /\ UNCHANGED lastOk

\* Lines 474-483: a BreakpointInfo holding a script condition or an
\* ignore count is reset, and so are LLDB's condition and callback; LLDB's
\* ignore count is left as it is.
BeginSetBpCondition(r) ==
    /\ setPc = "idle"
    /\ req' = r
    /\ IF info.cond # "none" \/ info.ign # 0
         THEN /\ info' = [info EXCEPT !.cond = "none", !.ign = 0]
              /\ lldb' = [lldb EXCEPT !.cond = FALSE, !.cb = "empty"]
         ELSE UNCHANGED <<info, lldb>>
    /\ setPc' = "cond"
    /\ outcome' = NoOutcome
    /\ Interrupt
    /\ UNCHANGED lastOk

\* Lines 485-496: a native condition goes to LLDB, a script condition that
\* compiles to the BreakpointInfo; one that does not compile is dropped.
SetCondition ==
    /\ setPc = "cond"
    /\ lldb' = IF req.cond = "native" THEN [lldb EXCEPT !.cond = TRUE] ELSE lldb
    /\ info' = IF req.cond = "script" THEN [info EXCEPT !.cond = "script"] ELSE info
    /\ setPc' = "ign"
    /\ Interrupt
    /\ UNCHANGED <<req, lastOk, outcome>>

\* Mutant: SetIgnoreCount as if the binding took any int, storing a
\* negative count in LLDB.
SetIgnoreCountNoOverflow ==
    /\ setPc = "ign"
    /\ \/ /\ req.hit.str = "int"
          /\ info' = [info EXCEPT !.ign = req.hit.val]
          /\ lldb' = [lldb EXCEPT !.ign = req.hit.val]
          /\ setPc' = "log"
          /\ UNCHANGED lastOk
       \/ /\ req.hit.str \in {"none", "junk"}
          /\ setPc' = "log"
          /\ UNCHANGED <<info, lldb, lastOk>>
    /\ Interrupt
    /\ UNCHANGED <<req, outcome>>

\* Lines 498-504: the parsed count is stored, then given to LLDB; a string
\* that is not an integer only writes to the console. A count out of
\* uint32 range raises OverflowError from SetIgnoreCount, which the
\* except ValueError does not catch: set_bp_condition ends there, its
\* request fails, and the log message and the callback are not set.
SetIgnoreCount ==
    /\ setPc = "ign"
    /\ \/ /\ req.hit.str = "int"
          /\ info' = [info EXCEPT !.ign = req.hit.val]
          /\ IF Uint32(req.hit.val)
               THEN /\ lldb' = [lldb EXCEPT !.ign = req.hit.val]
                    /\ setPc' = "log"
                    /\ UNCHANGED lastOk
               ELSE /\ setPc' = "idle"
                    /\ lastOk' = FALSE
                    /\ UNCHANGED lldb
       \/ /\ req.hit.str \in {"none", "junk"}
          /\ setPc' = "log"
          /\ UNCHANGED <<info, lldb, lastOk>>
    /\ Interrupt
    /\ UNCHANGED <<req, outcome>>

\* Line 506.
SetLogMessage ==
    /\ setPc = "log"
    /\ info' = [info EXCEPT !.log = req.log]
    /\ setPc' = "cb"
    /\ Interrupt
    /\ UNCHANGED <<lldb, req, lastOk, outcome>>

\* Mutant: the callback installed only for a condition or an ignore
\* count, as if a log message needed no callback.
SetCallbackNoLog ==
    /\ setPc = "cb"
    /\ lldb' = IF info.cond # "none" \/ info.ign # 0
                 THEN [lldb EXCEPT !.cb = "hit"] ELSE lldb
    /\ setPc' = "idle"
    /\ lastOk' = TRUE
    /\ Interrupt
    /\ UNCHANGED <<info, req, outcome>>

\* Lines 508-510: the callback is installed when the BreakpointInfo has
\* anything for it to do; set_bp_condition returns.
SetCallback ==
    /\ setPc = "cb"
    /\ lldb' = IF info.cond # "none" \/ info.log \/ info.ign # 0
                 THEN [lldb EXCEPT !.cb = "hit"] ELSE lldb
    /\ setPc' = "idle"
    /\ lastOk' = TRUE
    /\ Interrupt
    /\ UNCHANGED <<info, req, outcome>>

-----------------------------------------------------------------------------
(* A hit, on LLDB's private state thread                                   *)

\* The decision res is made for the hit hh: the thread is idle again.
Finish(res, hh) ==
    /\ outcome' = [res |-> res, clean |-> hh.clean, n |-> hh.n, c |-> hh.c, l |-> hh.l]
    /\ h' = IdleHit

\* The debuggee reaches the breakpoint. LLDB evaluates a native condition,
\* then consumes the ignore count, then calls on_breakpoint_hit (1472-1473)
\* if the callback is installed. The frame fixes what the native condition,
\* the script condition and the log message evaluate to.
HitArrives ==
    /\ h.pc = "idle"
    /\ \E n \in BOOLEAN, c \in CondResults, l \in LogResults :
         LET fresh == [pc |-> "idle", clean |-> setPc = "idle", n |-> n,
                       c |-> c, l |-> l, v |-> 0]
         IN \/ /\ lldb.cond /\ ~n
               /\ Finish("filtered", fresh)
               /\ UNCHANGED lldb
            \/ /\ ~(lldb.cond /\ ~n) /\ lldb.ign > 0
               /\ lldb' = [lldb EXCEPT !.ign = @ - 1]
               /\ Finish("ignored", fresh)
            \/ /\ ~(lldb.cond /\ ~n) /\ lldb.ign = 0 /\ lldb.cb = "hit"
               /\ h' = [fresh EXCEPT !.pc = "check"]
               /\ UNCHANGED <<lldb, outcome>>
            \/ /\ ~(lldb.cond /\ ~n) /\ lldb.ign = 0 /\ lldb.cb # "hit"
               /\ Finish("stopped", fresh)
               /\ UNCHANGED lldb
    /\ UNCHANGED <<info, setPc, req, lastOk>>

\* Line 605: "if bp_info.ignore_count:".
CbCheckIgnore ==
    /\ h.pc = "check"
    /\ h' = [h EXCEPT !.pc = IF info.ign # 0 THEN "load" ELSE "cond"]
    /\ UNCHANGED <<info, lldb, setPc, req, lastOk, outcome>>

\* Mutant: the count given back to LLDB at 606 counts the current hit
\* again, one more than the request asked to skip.
CbLoadIgnorePlusOne ==
    /\ h.pc = "load"
    /\ h' = [h EXCEPT !.pc = "store", !.v = info.ign + 1]
    /\ UNCHANGED <<info, lldb, setPc, req, lastOk, outcome>>

\* Line 606, the argument: bp_info.ignore_count is read again.
CbLoadIgnore ==
    /\ h.pc = "load"
    /\ h' = [h EXCEPT !.pc = "store", !.v = info.ign]
    /\ UNCHANGED <<info, lldb, setPc, req, lastOk, outcome>>

\* Line 606, the call: LLDB's ignore count is set back to the loaded value.
\* A negative value raises OverflowError out of the callback: stop.
CbStoreIgnore ==
    /\ h.pc = "store"
    /\ \/ /\ Uint32(h.v)
          /\ lldb' = [lldb EXCEPT !.ign = h.v]
          /\ h' = [h EXCEPT !.pc = "cond"]
          /\ UNCHANGED outcome
       \/ /\ ~Uint32(h.v)
          /\ Finish("stopped", h)
          /\ UNCHANGED lldb
    /\ UNCHANGED <<info, setPc, req, lastOk>>

\* Lines 608-613: a false script condition continues, one that raises stops.
CbCondition ==
    /\ h.pc = "cond"
    /\ \/ /\ info.cond = "script" /\ h.c = "false"
          /\ Finish("continued", h)
       \/ /\ info.cond = "script" /\ h.c = "raise"
          /\ Finish("stopped", h)
       \/ /\ info.cond = "none" \/ h.c = "true"
          /\ h' = [h EXCEPT !.pc = "log"]
          /\ UNCHANGED outcome
    /\ UNCHANGED <<info, lldb, setPc, req, lastOk>>

\* Lines 615-637: a log message is formatted and printed and the debuggee
\* continues; a formatting error, or no message, stops.
CbLogMessage ==
    /\ h.pc = "log"
    /\ Finish(IF info.log /\ h.l = "ok" THEN "continued" ELSE "stopped", h)
    /\ UNCHANGED <<info, lldb, setPc, req, lastOk>>

Next ==
    \/ \E r \in Requests : BeginSetBpCondition(r)
    \/ SetCondition \/ SetIgnoreCount \/ SetLogMessage \/ SetCallback
    \/ HitArrives \/ CbCheckIgnore \/ CbLoadIgnore \/ CbStoreIgnore
    \/ CbCondition \/ CbLogMessage

Spec == Init /\ [][Next]_vars

-----------------------------------------------------------------------------
(* Refinement of BreakpointSettings                                        *)

\* Between requests, the BreakpointInfo and LLDB's native condition as they
\* are. While set_bp_condition runs, what it will leave once it returns or
\* raises: its first step is the abstract step, the others stutter.
AbsInfo ==
    IF setPc = "idle"
      THEN [cond |-> info.cond, log |-> info.log, ign |-> info.ign # 0]
      ELSE [cond |-> IF req.cond = "script" THEN "script" ELSE "none",
            log |-> IF Uint32(ReqIgnore(req)) THEN req.log ELSE info.log,
            ign |-> ReqIgnore(req) # 0]

AbsNat == IF setPc # "idle" /\ req.cond = "native" THEN TRUE ELSE lldb.cond

Abstract == INSTANCE BreakpointSettings WITH sinfo <- AbsInfo, snat <- AbsNat

-----------------------------------------------------------------------------
(* Properties                                                              *)

\* The decision the spec (section 4.2, "Stop evaluation") asks of a hit of
\* a breakpoint set by request r, for a frame with the given results: a
\* false native condition is no hit; a false script condition continues;
\* a log message that formats continues; an evaluation that raises, and
\* everything else, stops. The checks are made in this order.
Decide(r, n, c, l) ==
    IF r.cond = "native" /\ ~n THEN "filtered"
    ELSE IF r.cond = "script" /\ c = "false" THEN "continue"
    ELSE IF r.cond = "script" /\ c = "raise" THEN "stop"
    ELSE IF r.log /\ l = "ok" THEN "continue"
    ELSE "stop"

\* No spurious stop: a hit that ran while no set_bp_condition step ran,
\* after a set_bp_condition that returned normally, stops the debuggee
\* only when the applied request's decision for its frame is to stop. A
\* tracepoint never halts and a false condition never halts, whatever
\* the earlier requests left in the BreakpointInfo and in LLDB.
NoSpuriousStop ==
    (outcome.res = "stopped" /\ outcome.clean /\ lastOk /\ setPc = "idle")
        => Decide(req, outcome.n, outcome.c, outcome.l) = "stop"

\* set_bp_condition, interleaved with hits on LLDB's thread, is the atomic
\* settings update BreakpointRegistry assumes: every step leaves the
\* BreakpointInfo and LLDB's native condition as one whole application of
\* a request would, or as the previous one left them.
SettingsRefined == Abstract!Spec

\* LLDB holds what the last request asked for: once set_bp_condition has
\* returned normally and no hit is in flight, LLDB has a native condition
\* only if the request gave one, and skips at most as many hits as the
\* request's hitCondition asks.
OptionsApplied ==
    (setPc = "idle" /\ h.pc = "idle" /\ lastOk)
        => /\ lldb.cond = (req.cond = "native")
           /\ lldb.ign <= ReqIgnore(req)
=============================================================================
