------------------------- MODULE BreakpointRegistry -------------------------
(***************************************************************************)
(* The breakpoint registry of the debug session (src/adapter/             *)
(* debugsession.py): the per-file line index (line_breakpoints), the       *)
(* function index (fn_breakpoints), the BreakpointInfo table               *)
(* (breakpoints), the LLDB target's breakpoints, and the queue of          *)
(* breakpoint events that the listener thread hands to the event loop.     *)
(*                                                                         *)
(* Requests and queued events run on one thread (the event loop), so a     *)
(* queued event is handled only between two requests.  The reconciliation *)
(* loops of setBreakpoints and setFunctionBreakpoints are split into one   *)
(* step per line or name, taken in any order, because a step may raise     *)
(* and end the handler with the earlier steps done and the later ones not. *)
(* Debugger commands typed in the console (evaluate in repl context)       *)
(* create and delete breakpoints with breakpoint events enabled.           *)
(***************************************************************************)
EXTENDS Integers, FiniteSets, Sequences

CONSTANTS
    Files,      \* source files and disassembly views breakpoints are set in
    DasmFiles,  \* the disassembly views among them (set_dasm_breakpoints)
    Lines,      \* line numbers a request may name
    FnNames,    \* function names (or '/re ' patterns) a request may name
    ReqSettings,\* condition / logMessage / hitCondition combinations requested
    Filters,    \* exception filter sets setExceptionBreakpoints may receive
    MaxBp,      \* LLDB hands out breakpoint ids 1..MaxBp in this model
    MapRaises   \* whether mapping a location to a local path may raise

\* What a request asks of one breakpoint: a condition in the native dialect
\* (handed to LLDB), in a script dialect (compiled into bp_info.condition),
\* or none; a log message; a hit condition (ignore count), and whether
\* that count is an integer SetIgnoreCount refuses (out of uint32 range).
Settings == {s \in [cond : {"none", "native", "script"}, log : BOOLEAN,
                    ign : BOOLEAN, ovf : BOOLEAN] : s.ovf => s.ign}

ExcFilters == {"cpp_throw", "cpp_catch", "rust_panic"}

ASSUME BRAssumption ==
    /\ Files # {}
    /\ DasmFiles \subseteq Files
    /\ Lines \subseteq Nat \ {0}
    /\ IsFiniteSet(Lines)
    /\ ReqSettings \subseteq Settings
    /\ Filters \subseteq SUBSET ExcFilters
    /\ IsFiniteSet(FnNames)
    /\ MaxBp \in Nat
    /\ MapRaises \in BOOLEAN

Ids == 1 .. MaxBp
NoBp == 0           \* an index has no entry (LLDB never gives out id 0)
IdOrNone == Ids \cup {NoBp}

\* A BreakpointInfo; has = FALSE stands for "no entry in self.breakpoints".
InfoRec == [has : BOOLEAN, exc : BOOLEAN, cond : {"none", "script"},
            log : BOOLEAN, ign : BOOLEAN]
NoInfo == [has |-> FALSE, exc |-> FALSE, cond |-> "none", log |-> FALSE,
           ign |-> FALSE]
\* BreakpointInfo(bp_id)
NewInfo == [NoInfo EXCEPT !.has = TRUE]

Event == [type : {"added", "removed"}, id : Ids]

VARIABLES
    backend,     \* ids of the breakpoints the LLDB target holds
    natCond,     \* natCond[id]: a native condition is set on LLDB breakpoint id
    nextId,      \* the id LLDB gives the next breakpoint it creates
    lineBps,     \* self.line_breakpoints: file -> line -> id
    fnBps,       \* self.fn_breakpoints: name -> id
    bpInfo,      \* self.breakpoints: id -> BreakpointInfo
    bpEvents,    \* the listener receives breakpoint-changed events
    events,      \* breakpoint events queued for the event loop, oldest first
    req,         \* the reconciliation in progress, or cmd = "none"
    response,    \* the last response sent to the client
    consoleMade  \* history: ids of breakpoints created by console commands

vars == <<backend, natCond, nextId, lineBps, fnBps, bpInfo, bpEvents, events,
          req, response, consoleMade>>

Keys == Lines \cup FnNames
EmptyFn == [k \in {} |-> NoBp]
Idle == [cmd |-> "none", file |-> CHOOSE f \in Files : TRUE,
         args |-> EmptyFn, old |-> EmptyFn, del |-> {}, add |-> {}]

-----------------------------------------------------------------------------
(* set_bp_condition(bp, req): what it leaves in the BreakpointInfo and on   *)
(* the LLDB breakpoint.  The old script condition and ignore count are      *)
(* cleared, together with the native condition, only when one of the two   *)
(* was set; the new settings are then applied.                             *)

\* Mutant: the condition kind is stored as given, native included.
SetBpConditionInfoRaw(i, s) ==
    [i EXCEPT !.cond = s.cond, !.ign = s.ign, !.log = s.log]

SetBpConditionInfo(i, s) ==
    [i EXCEPT !.cond = IF s.cond = "script" THEN "script" ELSE "none",
              !.ign = s.ign,
              !.log = s.log]

\* set_bp_condition raises OverflowError at SetIgnoreCount (503): the
\* condition and the count are stored, the old log message stays.
SetBpConditionFailsInfo(i, s) ==
    [i EXCEPT !.cond = IF s.cond = "script" THEN "script" ELSE "none",
              !.ign = TRUE]

SetBpConditionNative(nc, i, s) ==
    IF s.cond = "native" THEN TRUE
    ELSE IF i.cond # "none" \/ i.ign THEN FALSE
    ELSE nc

\* An LLDB operation that creates or deletes a breakpoint queues an event
\* for the listener when it listens for breakpoint events.
Notify(type, id) ==
    IF bpEvents THEN Append(events, [type |-> type, id |-> id]) ELSE events

\* The handler ends (normally, or by an exception caught in handle_message):
\* the finally clause re-enables breakpoint events and a response is sent.
EndRequest(cmd, ok) ==
    /\ bpEvents' = TRUE
    /\ req' = Idle
    /\ response' = [cmd |-> cmd, success |-> ok]

-----------------------------------------------------------------------------
(* DEBUG_setBreakpoints, source or disassembly view f, request args r       *)
(* (line -> settings).  The handler disables breakpoint events and sets up  *)
(* the two loops: delete the indexed lines absent from the request, then    *)
(* add or update each requested line.                                      *)
\* Mutant: breakpoint events stay enabled during the reconciliation.
SetBreakpointsStartEventsOn(f, r) ==
    /\ req.cmd = "none"
    /\ nextId + Cardinality(DOMAIN r) <= MaxBp + 1
    /\ req' = [cmd |-> "setBreakpoints", file |-> f, args |-> r,
               old |-> lineBps[f],
               del |-> {l \in Lines : lineBps[f][l] # NoBp /\ l \notin DOMAIN r},
               add |-> DOMAIN r]
    /\ UNCHANGED <<backend, natCond, nextId, lineBps, fnBps, bpInfo, events,
                   response, consoleMade, bpEvents>>

\* Mutant: every indexed line is deleted, requested or not.
SetBreakpointsStartDeleteAll(f, r) ==
    /\ req.cmd = "none"
    /\ nextId + Cardinality(DOMAIN r) <= MaxBp + 1
    /\ bpEvents' = FALSE
    /\ req' = [cmd |-> "setBreakpoints", file |-> f, args |-> r,
               old |-> lineBps[f],
               del |-> {l \in Lines : lineBps[f][l] # NoBp},
               add |-> DOMAIN r]
    /\ UNCHANGED <<backend, natCond, nextId, lineBps, fnBps, bpInfo, events,
                   response, consoleMade>>

SetBreakpointsStart(f, r) ==
    /\ req.cmd = "none"
    /\ nextId + Cardinality(DOMAIN r) <= MaxBp + 1
    /\ bpEvents' = FALSE
    /\ req' = [cmd |-> "setBreakpoints", file |-> f, args |-> r,
               old |-> lineBps[f],
               del |-> {l \in Lines : lineBps[f][l] # NoBp /\ l \notin DOMAIN r},
               add |-> DOMAIN r]
    /\ UNCHANGED <<backend, natCond, nextId, lineBps, fnBps, bpInfo, events,
                   response, consoleMade>>

\* One pass of the deletion loop: BreakpointDelete, del file_bps[line],
\* del self.breakpoints[bp_id]; the last raises KeyError when the
\* BreakpointInfo is already gone, which ends the handler.
\* Mutant: the BreakpointInfo is not deleted with the breakpoint.
SetBreakpointsDeleteKeepInfo(l) ==
    LET f == req.file
        id == lineBps[f][l]
    IN /\ req.cmd = "setBreakpoints"
       /\ l \in req.del
       /\ backend' = backend \ {id}
       /\ events' = IF id \in backend THEN Notify("removed", id) ELSE events
       /\ lineBps' = [lineBps EXCEPT ![f][l] = NoBp]
       /\ req' = [req EXCEPT !.del = @ \ {l}]
       /\ UNCHANGED <<natCond, nextId, fnBps, consoleMade, bpInfo, bpEvents,
                      response>>

SetBreakpointsDelete(l) ==
    LET f == req.file
        id == lineBps[f][l]
    IN /\ req.cmd = "setBreakpoints"
       /\ l \in req.del
       /\ backend' = backend \ {id}
       /\ events' = IF id \in backend THEN Notify("removed", id) ELSE events
       /\ lineBps' = [lineBps EXCEPT ![f][l] = NoBp]
       /\ bpInfo' = [bpInfo EXCEPT ![id] = NoInfo]
       /\ IF bpInfo[id].has
            THEN /\ req' = [req EXCEPT !.del = @ \ {l}]
                 /\ UNCHANGED <<bpEvents, response>>
            ELSE EndRequest("setBreakpoints", FALSE)
       /\ UNCHANGED <<natCond, nextId, fnBps, consoleMade>>

\* One pass of set_source_breakpoints / set_dasm_breakpoints for a line that
\* is already indexed: FindBreakpointByID, then set_bp_condition.  For a
\* deleted breakpoint LLDB returns an invalid SBBreakpoint whose id is 0;
\* self.breakpoints[bp.GetID()] raises KeyError when there is no entry.
\* Mutant: a reused breakpoint keeps its old settings (no set_bp_condition).
SetBreakpointsUpdateNoReapply(l) ==
    LET id == lineBps[req.file][l]
    IN /\ req.cmd = "setBreakpoints"
       /\ req.del = {}
       /\ l \in req.add
       /\ id # NoBp
       /\ IF id \in backend /\ bpInfo[id].has
            THEN /\ req' = [req EXCEPT !.add = @ \ {l}]
                 /\ UNCHANGED <<bpEvents, response>>
            ELSE EndRequest("setBreakpoints", FALSE)
       /\ UNCHANGED <<backend, nextId, lineBps, fnBps, events, consoleMade,
                      bpInfo, natCond>>

SetBreakpointsUpdate(l) ==
    LET f == req.file
        id == lineBps[f][l]
        s == req.args[l]
    IN /\ req.cmd = "setBreakpoints"
       /\ req.del = {}
       /\ l \in req.add
       /\ id # NoBp
       /\ IF id \in backend /\ bpInfo[id].has
            THEN /\ natCond' = [natCond EXCEPT
                                  ![id] = SetBpConditionNative(@, bpInfo[id], s)]
                 /\ IF s.ovf
                      THEN /\ bpInfo' = [bpInfo EXCEPT
                                            ![id] = SetBpConditionFailsInfo(@, s)]
                           /\ EndRequest("setBreakpoints", FALSE)
                      ELSE /\ bpInfo' = [bpInfo EXCEPT
                                            ![id] = SetBpConditionInfo(@, s)]
                           /\ req' = [req EXCEPT !.add = @ \ {l}]
                           /\ UNCHANGED <<bpEvents, response>>
            ELSE /\ EndRequest("setBreakpoints", FALSE)
                 /\ UNCHANGED <<bpInfo, natCond>>
       /\ UNCHANGED <<backend, nextId, lineBps, fnBps, events, consoleMade>>

\* One pass for a new line: create the breakpoint (by file name and line, or
\* by address in a disassembly view), register BreakpointInfo(bp_id), then
\* for a source file map each resolved location to a local path, which may
\* raise; otherwise set_bp_condition and file_bps[line] = bp_id.
\* Mutant: the new breakpoint is never put in the line index.
SetBreakpointsCreateNoIndex(l) ==
    LET f == req.file
        id == nextId
        s == req.args[l]
    IN /\ req.cmd = "setBreakpoints"
       /\ req.del = {}
       /\ l \in req.add
       /\ lineBps[f][l] = NoBp
       /\ nextId <= MaxBp
       /\ backend' = backend \cup {id}
       /\ nextId' = nextId + 1
       /\ events' = Notify("added", id)
       /\ bpInfo' = [bpInfo EXCEPT ![id] = SetBpConditionInfo(NewInfo, s)]
       /\ natCond' = [natCond EXCEPT ![id] = SetBpConditionNative(FALSE, NewInfo, s)]
       /\ req' = [req EXCEPT !.add = @ \ {l}]
       /\ UNCHANGED <<bpEvents, response, lineBps, fnBps, consoleMade>>

SetBreakpointsCreate(l) ==
    LET f == req.file
        id == nextId
        s == req.args[l]
    IN /\ req.cmd = "setBreakpoints"
       /\ req.del = {}
       /\ l \in req.add
       /\ lineBps[f][l] = NoBp
       /\ nextId <= MaxBp
       /\ backend' = backend \cup {id}
       /\ nextId' = nextId + 1
       /\ events' = Notify("added", id)
       /\ \/ /\ ~s.ovf
             /\ bpInfo' = [bpInfo EXCEPT ![id] = SetBpConditionInfo(NewInfo, s)]
             /\ natCond' = [natCond EXCEPT
                              ![id] = SetBpConditionNative(FALSE, NewInfo, s)]
             /\ lineBps' = [lineBps EXCEPT ![f][l] = id]
             /\ req' = [req EXCEPT !.add = @ \ {l}]
             /\ UNCHANGED <<bpEvents, response>>
          \/ /\ s.ovf
             /\ bpInfo' = [bpInfo EXCEPT ![id] = SetBpConditionFailsInfo(NewInfo, s)]
             /\ natCond' = [natCond EXCEPT
                              ![id] = SetBpConditionNative(FALSE, NewInfo, s)]
             /\ EndRequest("setBreakpoints", FALSE)
             /\ UNCHANGED lineBps
          \/ /\ MapRaises
             /\ f \notin DasmFiles
             /\ bpInfo' = [bpInfo EXCEPT ![id] = NewInfo]
             /\ natCond' = [natCond EXCEPT ![id] = FALSE]
             /\ EndRequest("setBreakpoints", FALSE)
             /\ UNCHANGED lineBps
       /\ UNCHANGED <<fnBps, consoleMade>>

SetBreakpointsDone ==
    /\ req.cmd = "setBreakpoints"
    /\ req.del = {}
    /\ req.add = {}
    /\ EndRequest("setBreakpoints", TRUE)
    /\ UNCHANGED <<backend, natCond, nextId, lineBps, fnBps, bpInfo, events,
                   consoleMade>>

-----------------------------------------------------------------------------
(* DEBUG_setFunctionBreakpoints, request args r (name -> settings).         *)
SetFunctionBreakpointsStart(r) ==
    /\ req.cmd = "none"
    /\ nextId + Cardinality(DOMAIN r) <= MaxBp + 1
    /\ bpEvents' = FALSE
    /\ req' = [cmd |-> "setFunctionBreakpoints", file |-> Idle.file,
               args |-> r, old |-> fnBps,
               del |-> {n \in FnNames : fnBps[n] # NoBp /\ n \notin DOMAIN r},
               add |-> DOMAIN r]
    /\ UNCHANGED <<backend, natCond, nextId, lineBps, fnBps, bpInfo, events,
                   response, consoleMade>>

\* BreakpointDelete, del self.fn_breakpoints[name], del self.breakpoints[bp_id].
SetFunctionBreakpointsDelete(n) ==
    LET id == fnBps[n]
    IN /\ req.cmd = "setFunctionBreakpoints"
       /\ n \in req.del
       /\ backend' = backend \ {id}
       /\ events' = IF id \in backend THEN Notify("removed", id) ELSE events
       /\ fnBps' = [fnBps EXCEPT ![n] = NoBp]
       /\ bpInfo' = [bpInfo EXCEPT ![id] = NoInfo]
       /\ IF bpInfo[id].has
            THEN /\ req' = [req EXCEPT !.del = @ \ {n}]
                 /\ UNCHANGED <<bpEvents, response>>
            ELSE EndRequest("setFunctionBreakpoints", FALSE)
       /\ UNCHANGED <<natCond, nextId, lineBps, consoleMade>>

\* A name already indexed: FindBreakpointByID and make_bp_resp, and no
\* set_bp_condition.  make_bp_resp maps the enabled locations of a live
\* breakpoint to local paths, which may raise.
SetFunctionBreakpointsKeep(n) ==
    LET id == fnBps[n]
    IN /\ req.cmd = "setFunctionBreakpoints"
       /\ req.del = {}
       /\ n \in req.add
       /\ id # NoBp
       /\ \/ /\ req' = [req EXCEPT !.add = @ \ {n}]
             /\ UNCHANGED <<bpEvents, response>>
          \/ /\ MapRaises
             /\ id \in backend
             /\ bpInfo[id].has
             /\ EndRequest("setFunctionBreakpoints", FALSE)
       /\ UNCHANGED <<backend, natCond, nextId, lineBps, fnBps, bpInfo, events,
                      consoleMade>>

\* A new name: BreakpointCreateByName (or ByRegex), index it, register
\* BreakpointInfo(bp_id), set_bp_condition, then make_bp_resp, which may raise.
SetFunctionBreakpointsCreate(n) ==
    LET id == nextId
        s == req.args[n]
    IN /\ req.cmd = "setFunctionBreakpoints"
       /\ req.del = {}
       /\ n \in req.add
       /\ fnBps[n] = NoBp
       /\ nextId <= MaxBp
       /\ backend' = backend \cup {id}
       /\ nextId' = nextId + 1
       /\ events' = Notify("added", id)
       /\ fnBps' = [fnBps EXCEPT ![n] = id]
       /\ natCond' = [natCond EXCEPT ![id] = SetBpConditionNative(FALSE, NewInfo, s)]
       /\ \/ /\ ~s.ovf
             /\ bpInfo' = [bpInfo EXCEPT ![id] = SetBpConditionInfo(NewInfo, s)]
             /\ \/ /\ req' = [req EXCEPT !.add = @ \ {n}]
                   /\ UNCHANGED <<bpEvents, response>>
                \/ /\ MapRaises
                   /\ EndRequest("setFunctionBreakpoints", FALSE)
          \/ /\ s.ovf
             /\ bpInfo' = [bpInfo EXCEPT ![id] = SetBpConditionFailsInfo(NewInfo, s)]
             /\ EndRequest("setFunctionBreakpoints", FALSE)
       /\ UNCHANGED <<lineBps, consoleMade>>

SetFunctionBreakpointsDone ==
    /\ req.cmd = "setFunctionBreakpoints"
    /\ req.del = {}
    /\ req.add = {}
    /\ EndRequest("setFunctionBreakpoints", TRUE)
    /\ UNCHANGED <<backend, natCond, nextId, lineBps, fnBps, bpInfo, events,
                   consoleMade>>

-----------------------------------------------------------------------------
(* DEBUG_setExceptionBreakpoints with filters fs: with events disabled,     *)
(* delete every breakpoint whose BreakpointInfo is flagged exception_bp,    *)
(* then create one for C++ throw/catch and one for rust_panic as selected,  *)
(* each with a BreakpointInfo flagged exception_bp.  No step can raise.     *)
NumExceptionBps(fs) ==
    (IF fs \cap {"cpp_throw", "cpp_catch"} # {} THEN 1 ELSE 0)
    + (IF "rust_panic" \in fs THEN 1 ELSE 0)

SetExceptionBreakpoints(fs) ==
    LET old == {id \in Ids : bpInfo[id].has /\ bpInfo[id].exc}
        new == nextId .. (nextId + NumExceptionBps(fs) - 1)
    IN /\ req.cmd = "none"
       /\ nextId + NumExceptionBps(fs) <= MaxBp + 1
       /\ backend' = (backend \ old) \cup new
       /\ nextId' = nextId + NumExceptionBps(fs)
       /\ bpInfo' = [id \in Ids |->
                       IF id \in new THEN [NewInfo EXCEPT !.exc = TRUE]
                       ELSE IF id \in old THEN NoInfo
                       ELSE bpInfo[id]]
       /\ natCond' = [id \in Ids |-> IF id \in new THEN FALSE ELSE natCond[id]]
       /\ response' = [cmd |-> "setExceptionBreakpoints", success |-> TRUE]
       /\ UNCHANGED <<lineBps, fnBps, bpEvents, events, req, consoleMade>>

-----------------------------------------------------------------------------
(* DEBUG_evaluate in repl context runs an LLDB command; "breakpoint set"   *)
(* and "breakpoint delete" change the target's breakpoints with events on. *)
ConsoleCreate ==
    /\ req.cmd = "none"
    /\ nextId <= MaxBp
    /\ backend' = backend \cup {nextId}
    /\ nextId' = nextId + 1
    /\ natCond' = [natCond EXCEPT ![nextId] = FALSE]
    /\ events' = Notify("added", nextId)
    /\ consoleMade' = consoleMade \cup {nextId}
    /\ response' = [cmd |-> "evaluate", success |-> TRUE]
    /\ UNCHANGED <<lineBps, fnBps, bpInfo, bpEvents, req>>

ConsoleDelete(id) ==
    /\ req.cmd = "none"
    /\ id \in backend
    /\ backend' = backend \ {id}
    /\ events' = Notify("removed", id)
    /\ response' = [cmd |-> "evaluate", success |-> TRUE]
    /\ UNCHANGED <<natCond, nextId, lineBps, fnBps, bpInfo, bpEvents, req,
                   consoleMade>>

(* notify_breakpoint, run by the event loop between requests: "added"      *)
(* registers a fresh BreakpointInfo, "removed" deletes it (KeyError, logged *)
(* by the event loop, when there is none).  Other breakpoint event types    *)
(* only send a client event.                                               *)
HandleBreakpointEvent ==
    LET e == Head(events)
    IN /\ req.cmd = "none"
       /\ events # <<>>
       /\ events' = Tail(events)
       /\ bpInfo' = [bpInfo EXCEPT ![e.id] =
                       IF e.type = "added" THEN NewInfo ELSE NoInfo]
       /\ UNCHANGED <<backend, natCond, nextId, lineBps, fnBps, bpEvents, req,
                      response, consoleMade>>

-----------------------------------------------------------------------------
Init ==
    /\ backend = {}
    /\ natCond = [id \in Ids |-> FALSE]
    /\ nextId = 1
    /\ lineBps = [f \in Files |-> [l \in Lines |-> NoBp]]
    /\ fnBps = [n \in FnNames |-> NoBp]
    /\ bpInfo = [id \in Ids |-> NoInfo]
    /\ bpEvents = TRUE
    /\ events = <<>>
    /\ req = Idle
    /\ response = [cmd |-> "none", success |-> TRUE]
    /\ consoleMade = {}

Next ==
    \/ \E f \in Files, L \in SUBSET Lines :
          \E r \in [L -> ReqSettings] : SetBreakpointsStart(f, r)
    \/ \E l \in Lines : \/ SetBreakpointsDelete(l)
                        \/ SetBreakpointsUpdate(l)
                        \/ SetBreakpointsCreate(l)
    \/ SetBreakpointsDone
    \/ \E N \in SUBSET FnNames :
          \E r \in [N -> ReqSettings] : SetFunctionBreakpointsStart(r)
    \/ \E n \in FnNames : \/ SetFunctionBreakpointsDelete(n)
                          \/ SetFunctionBreakpointsKeep(n)
                          \/ SetFunctionBreakpointsCreate(n)
    \/ SetFunctionBreakpointsDone
    \/ \E fs \in Filters : SetExceptionBreakpoints(fs)
    \/ ConsoleCreate
    \/ \E id \in Ids : ConsoleDelete(id)
    \/ HandleBreakpointEvent

Spec == Init /\ [][Next]_vars

-----------------------------------------------------------------------------
(***************************************************************************)
(* Properties                                                              *)
(***************************************************************************)

Responses == [cmd : {"none", "setBreakpoints", "setFunctionBreakpoints",
                     "setExceptionBreakpoints", "evaluate"},
              success : BOOLEAN]

\* The shape of the request record: the lines or names still to delete and
\* to add, and the settings requested for each.
ReqOK(q) ==
    /\ DOMAIN q = {"cmd", "file", "args", "old", "del", "add"}
    /\ q.cmd \in {"none", "setBreakpoints", "setFunctionBreakpoints"}
    /\ q.file \in Files
    /\ q.del \subseteq Keys
    /\ q.add \subseteq DOMAIN q.args
    /\ \A k \in DOMAIN q.args : q.args[k] \in ReqSettings

TypeOK ==
    /\ backend \subseteq Ids
    /\ natCond \in [Ids -> BOOLEAN]
    /\ nextId \in 1 .. MaxBp + 1
    /\ lineBps \in [Files -> [Lines -> IdOrNone]]
    /\ fnBps \in [FnNames -> IdOrNone]
    /\ bpInfo \in [Ids -> InfoRec]
    /\ bpEvents \in BOOLEAN
    /\ events \in Seq(Event)
    /\ ReqOK(req)
    /\ response \in Responses
    /\ consoleMade \subseteq Ids

Pending(type, id) ==
    \E k \in 1 .. Len(events) : events[k] = [type |-> type, id |-> id]

Indexed(id) ==
    \/ \E f \in Files, l \in Lines : lineBps[f][l] = id
    \/ \E n \in FnNames : fnBps[n] = id

\* The BreakpointInfo table and the target's breakpoints agree, up to the
\* events still queued: a BreakpointInfo belongs to a live breakpoint unless
\* the breakpoint's "removed" event is pending, and a live breakpoint has a
\* BreakpointInfo unless its "added" event is pending.  This is the pairing
\* of deletions in setBreakpoints, setFunctionBreakpoints and
\* setExceptionBreakpoints with the console's deletions and notify_breakpoint.
InfoPaired ==
    /\ \A id \in Ids : bpInfo[id].has => id \in backend \/ Pending("removed", id)
    /\ \A id \in backend : bpInfo[id].has \/ Pending("added", id)

\* No breakpoint the adapter created is lost: every live breakpoint with a
\* BreakpointInfo that is not an exception breakpoint is reachable from the
\* line or function index (so a later reconciliation can delete it), unless
\* a console command created it.
NoOrphan ==
    \A id \in backend :
        bpInfo[id].has /\ ~bpInfo[id].exc => Indexed(id) \/ id \in consoleMade

\* An "added" event still queued is for a breakpoint that has no
\* BreakpointInfo yet, so handling it (BreakpointInfo(bp_id)) cannot wipe the
\* condition, log message or exception flag that a request set.  It rests on
\* disable_bp_events around every reconciliation.
NoStaleAdded ==
    \A k \in 1 .. Len(events) :
        events[k].type = "added" => ~bpInfo[events[k].id].has

\* The settings a request asks for, as set_bp_condition records them in the
\* BreakpointInfo (a native condition lives on the LLDB breakpoint instead).
InfoMatches(i, s) ==
    /\ i.has
    /\ i.cond = (IF s.cond = "script" THEN "script" ELSE "none")
    /\ i.log = s.log
    /\ i.ign = s.ign

\* A step that ends a setBreakpoints request with a success response.
SetBreakpointsSucceeded ==
    /\ req.cmd = "setBreakpoints"
    /\ req'.cmd = "none"
    /\ response'.success

\* A setBreakpoints request that succeeds reconciles exactly: lines absent
\* from the request lose their index entry and their breakpoint, lines
\* indexed before keep their breakpoint id, and new lines get a live
\* breakpoint that is none of the old ones.
ReconcileExact ==
    [][SetBreakpointsSucceeded =>
        LET f == req.file
            old == req.old
            L == DOMAIN req.args
        IN /\ \A l \in Lines \ L :
                 /\ lineBps'[f][l] = NoBp
                 /\ old[l] # NoBp => old[l] \notin backend'
           /\ \A l \in L :
                 IF old[l] # NoBp
                 THEN lineBps'[f][l] = old[l]
                 ELSE /\ lineBps'[f][l] \in backend'
                      /\ \A m \in Lines : old[m] # lineBps'[f][l]
      ]_vars

\* A setBreakpoints request that succeeds leaves every requested line with
\* the script condition, log message and ignore count it asked for, whether
\* the breakpoint is new or reused.
LineSettingsReapplied ==
    [][SetBreakpointsSucceeded =>
        \A l \in DOMAIN req.args :
            InfoMatches(bpInfo'[lineBps'[req.file][l]], req.args[l])
      ]_vars

\* A step that ends a setFunctionBreakpoints request with a success response.
SetFunctionBreakpointsSucceeded ==
    /\ req.cmd = "setFunctionBreakpoints"
    /\ req'.cmd = "none"
    /\ response'.success

\* The spec (4.2): function breakpoints follow the same reapply discipline as
\* line breakpoints, so a successful setFunctionBreakpoints leaves every
\* requested name with the settings it asked for.
FnSettingsReapplied ==
    [][SetFunctionBreakpointsSucceeded =>
        \A n \in DOMAIN req.args :
            InfoMatches(bpInfo'[fnBps'[n]], req.args[n])
      ]_vars

\* The spec (3, 4.2): reconciling a requested set against the index deletes
\* the absent breakpoints and creates the missing ones; no well-formed
\* setBreakpoints request fails.
SetBreakpointsSucceeds ==
    response.cmd = "setBreakpoints" => response.success

=============================================================================
