---------------------- MODULE BreakpointRegistryProofs ----------------------
(***************************************************************************)
(* Proofs about the breakpoint registry (BreakpointRegistry), for every    *)
(* value of the constants that satisfies BRAssumption.                     *)
(***************************************************************************)
EXTENDS BreakpointRegistry, TLAPS

USE BRAssumption

\* Appending an event for a breakpoint id keeps the queue a sequence of events.
LEMMA NotifyType ==
    ASSUME events \in Seq(Event), NEW t \in {"added", "removed"}, NEW id \in Ids
    PROVE  Notify(t, id) \in Seq(Event)
<1>1. [type |-> t, id |-> id] \in Event
  BY DEF Event
<1>2. Append(events, [type |-> t, id |-> id]) \in Seq(Event)
  BY <1>1
<1>3. QED
  BY <1>2 DEF Notify

\* set_bp_condition keeps a BreakpointInfo a BreakpointInfo.
LEMMA SetBpConditionType ==
    ASSUME NEW i \in InfoRec, NEW s \in Settings, NEW nc \in BOOLEAN
    PROVE  /\ SetBpConditionInfo(i, s) \in InfoRec
           /\ SetBpConditionFailsInfo(i, s) \in InfoRec
           /\ SetBpConditionNative(nc, i, s) \in BOOLEAN
<1>1. s.log \in BOOLEAN /\ s.ign \in BOOLEAN
  BY DEF Settings
<1>2. SetBpConditionInfo(i, s) \in InfoRec
  BY <1>1 DEF SetBpConditionInfo, InfoRec
<1>5. SetBpConditionFailsInfo(i, s) \in InfoRec
  BY DEF SetBpConditionFailsInfo, InfoRec
<1>3. SetBpConditionNative(nc, i, s) \in BOOLEAN
  <2>1. CASE s.cond = "native"
    BY <2>1 DEF SetBpConditionNative
  <2>2. CASE s.cond # "native" /\ (i.cond # "none" \/ i.ign)
    BY <2>2 DEF SetBpConditionNative
  <2>3. CASE s.cond # "native" /\ ~(i.cond # "none" \/ i.ign)
    BY <2>3 DEF SetBpConditionNative
  <2>4. QED
    BY <2>1, <2>2, <2>3
<1>4. QED
  BY <1>2, <1>3, <1>5

LEMMA IdleType == ReqOK(Idle) /\ Idle.cmd = "none"
<1>1. (CHOOSE f \in Files : TRUE) \in Files
  OBVIOUS
<1>2. DOMAIN EmptyFn = {}
  BY DEF EmptyFn
<1>3. QED
  BY <1>1, <1>2 DEF Idle, ReqOK

\* Finishing one line or name of a reconciliation keeps the request's shape.
LEMMA ReqStepType ==
    ASSUME NEW q, ReqOK(q), NEW k
    PROVE  /\ ReqOK([q EXCEPT !.del = @ \ {k}])
           /\ ReqOK([q EXCEPT !.add = @ \ {k}])
BY DEF ReqOK

-----------------------------------------------------------------------------
(* Type correctness: every step of the registry keeps TypeOK.               *)

LEMMA InitTypeOK == Init => TypeOK
BY IdleType DEF Init, TypeOK, NoInfo, InfoRec, IdOrNone, Ids, Responses

\* The end of a handler leaves the request idle and a well-formed response.
LEMMA EndRequestType ==
    ASSUME NEW cmd \in {"setBreakpoints", "setFunctionBreakpoints"},
           NEW ok \in BOOLEAN, EndRequest(cmd, ok)
    PROVE  ReqOK(req') /\ bpEvents' \in BOOLEAN /\ response' \in Responses
BY IdleType DEF EndRequest, Responses

LEMMA NoInfoType == NoInfo \in InfoRec /\ NewInfo \in InfoRec
                    /\ [NewInfo EXCEPT !.exc = TRUE] \in InfoRec
BY DEF NoInfo, NewInfo, InfoRec

LEMMA NextTypeOK == TypeOK /\ [Next]_vars => TypeOK'
<1> SUFFICES ASSUME TypeOK, [Next]_vars PROVE TypeOK'
  OBVIOUS
<1> USE DEF TypeOK
<1>1. ASSUME NEW f \in Files, NEW L \in SUBSET Lines,
             NEW r \in [L -> ReqSettings], SetBreakpointsStart(f, r)
      PROVE  TypeOK'
  <2>1. ReqOK(req')
    BY <1>1 DEF SetBreakpointsStart, ReqOK, Keys
  <2>2. QED
    BY <1>1, <2>1 DEF SetBreakpointsStart
<1>2. ASSUME NEW l \in Lines, SetBreakpointsDelete(l) PROVE TypeOK'
  <2> DEFINE id == lineBps[req.file][l]
  <2>1. req.file \in Files /\ id \in IdOrNone
    BY DEF ReqOK
  <2>2. events' \in Seq(Event)
    BY <1>2, <2>1, NotifyType DEF SetBreakpointsDelete
  <2>3. lineBps' \in [Files -> [Lines -> IdOrNone]]
    BY <1>2, <2>1 DEF SetBreakpointsDelete, IdOrNone
  <2>4. bpInfo' \in [Ids -> InfoRec]
    BY <1>2, NoInfoType DEF SetBreakpointsDelete
  <2>5. ReqOK(req') /\ bpEvents' \in BOOLEAN /\ response' \in Responses
    <3>1. CASE bpInfo[id].has
      <4>1. ReqOK([req EXCEPT !.del = @ \ {l}])
        BY ReqStepType
      <4>2. QED
        BY <1>2, <3>1, <4>1 DEF SetBreakpointsDelete
    <3>2. CASE ~bpInfo[id].has
      BY <1>2, <3>2, EndRequestType DEF SetBreakpointsDelete
    <3>3. QED
      BY <3>1, <3>2
  <2>6. QED
    BY <1>2, <2>2, <2>3, <2>4, <2>5 DEF SetBreakpointsDelete
<1>3. ASSUME NEW l \in Lines, SetBreakpointsUpdate(l) PROVE TypeOK'
  <2> DEFINE id == lineBps[req.file][l]
             s == req.args[l]
  <2>1. s \in Settings /\ req.file \in Files
    BY <1>3 DEF SetBreakpointsUpdate, ReqOK
  <2>2. CASE id \in backend /\ bpInfo[id].has
    <3>1. id \in Ids /\ bpInfo[id] \in InfoRec /\ natCond[id] \in BOOLEAN
      BY <2>2
    <3>2. /\ SetBpConditionInfo(bpInfo[id], s) \in InfoRec
          /\ SetBpConditionFailsInfo(bpInfo[id], s) \in InfoRec
          /\ SetBpConditionNative(natCond[id], bpInfo[id], s) \in BOOLEAN
      BY <2>1, <3>1, SetBpConditionType
    <3>3. natCond' \in [Ids -> BOOLEAN]
      BY <1>3, <2>2, <3>2 DEF SetBreakpointsUpdate
    <3>4. ReqOK([req EXCEPT !.add = @ \ {l}])
      BY ReqStepType
    <3>5. CASE s.ovf
      <4>1. bpInfo' \in [Ids -> InfoRec]
        BY <1>3, <2>2, <3>2, <3>5 DEF SetBreakpointsUpdate
      <4>2. ReqOK(req') /\ bpEvents' \in BOOLEAN /\ response' \in Responses
        BY <1>3, <2>2, <3>5, EndRequestType DEF SetBreakpointsUpdate
      <4>3. QED
        BY <1>3, <2>2, <3>3, <3>5, <4>1, <4>2 DEF SetBreakpointsUpdate
    <3>6. CASE ~s.ovf
      <4>1. bpInfo' \in [Ids -> InfoRec]
        BY <1>3, <2>2, <3>2, <3>6 DEF SetBreakpointsUpdate
      <4>2. QED
        BY <1>3, <2>2, <3>3, <3>4, <3>6, <4>1 DEF SetBreakpointsUpdate
    <3>7. QED
      BY <3>5, <3>6
  <2>3. CASE ~(id \in backend /\ bpInfo[id].has)
    BY <1>3, <2>3, EndRequestType DEF SetBreakpointsUpdate
  <2>4. QED
    BY <2>2, <2>3
<1>4. ASSUME NEW l \in Lines, SetBreakpointsCreate(l) PROVE TypeOK'
  <2> DEFINE s == req.args[l]
  <2>1. s \in Settings /\ nextId \in Ids /\ req.file \in Files
    BY <1>4 DEF SetBreakpointsCreate, Ids, ReqOK
  <2>2. events' \in Seq(Event) /\ backend' \subseteq Ids
        /\ nextId' \in 1 .. MaxBp + 1
    BY <1>4, <2>1, NotifyType DEF SetBreakpointsCreate, Ids
  <2>3. /\ SetBpConditionInfo(NewInfo, s) \in InfoRec
        /\ SetBpConditionFailsInfo(NewInfo, s) \in InfoRec
        /\ SetBpConditionNative(FALSE, NewInfo, s) \in BOOLEAN
    BY <2>1, NoInfoType, SetBpConditionType
  <2>4. ReqOK([req EXCEPT !.add = @ \ {l}])
    BY ReqStepType
  <2>5. CASE /\ bpInfo' = [bpInfo EXCEPT ![nextId] = SetBpConditionInfo(NewInfo, s)]
             /\ natCond' = [natCond EXCEPT
                              ![nextId] = SetBpConditionNative(FALSE, NewInfo, s)]
             /\ lineBps' = [lineBps EXCEPT ![req.file][l] = nextId]
             /\ req' = [req EXCEPT !.add = @ \ {l}]
             /\ UNCHANGED <<bpEvents, response>>
    BY <1>4, <2>1, <2>2, <2>3, <2>4, <2>5 DEF SetBreakpointsCreate, IdOrNone
  <2>6. CASE /\ bpInfo' = [bpInfo EXCEPT ![nextId] = NewInfo]
             /\ natCond' = [natCond EXCEPT ![nextId] = FALSE]
             /\ EndRequest("setBreakpoints", FALSE)
             /\ UNCHANGED lineBps
    BY <1>4, <2>2, <2>6, NoInfoType, EndRequestType DEF SetBreakpointsCreate
  <2>7. CASE /\ bpInfo' = [bpInfo EXCEPT ![nextId] = SetBpConditionFailsInfo(NewInfo, s)]
             /\ natCond' = [natCond EXCEPT
                              ![nextId] = SetBpConditionNative(FALSE, NewInfo, s)]
             /\ EndRequest("setBreakpoints", FALSE)
             /\ UNCHANGED lineBps
    BY <1>4, <2>2, <2>3, <2>7, EndRequestType DEF SetBreakpointsCreate
  <2>8. QED
    BY <1>4, <2>5, <2>6, <2>7 DEF SetBreakpointsCreate
<1>5. CASE SetBreakpointsDone
  BY <1>5, EndRequestType DEF SetBreakpointsDone
<1>6. ASSUME NEW N \in SUBSET FnNames, NEW r \in [N -> ReqSettings],
             SetFunctionBreakpointsStart(r)
      PROVE  TypeOK'
  <2>1. ReqOK(req')
    BY <1>6, IdleType DEF SetFunctionBreakpointsStart, ReqOK, Keys
  <2>2. QED
    BY <1>6, <2>1 DEF SetFunctionBreakpointsStart
<1>7. ASSUME NEW n \in FnNames, SetFunctionBreakpointsDelete(n) PROVE TypeOK'
  <2> DEFINE id == fnBps[n]
  <2>1. id \in IdOrNone
    OBVIOUS
  <2>2. events' \in Seq(Event)
    BY <1>7, <2>1, NotifyType DEF SetFunctionBreakpointsDelete
  <2>3. fnBps' \in [FnNames -> IdOrNone] /\ bpInfo' \in [Ids -> InfoRec]
    BY <1>7, NoInfoType DEF SetFunctionBreakpointsDelete, IdOrNone
  <2>4. ReqOK(req') /\ bpEvents' \in BOOLEAN /\ response' \in Responses
    <3>1. CASE bpInfo[id].has
      <4>1. ReqOK([req EXCEPT !.del = @ \ {n}])
        BY ReqStepType
      <4>2. QED
        BY <1>7, <3>1, <4>1 DEF SetFunctionBreakpointsDelete
    <3>2. CASE ~bpInfo[id].has
      BY <1>7, <3>2, EndRequestType DEF SetFunctionBreakpointsDelete
    <3>3. QED
      BY <3>1, <3>2
  <2>5. QED
    BY <1>7, <2>2, <2>3, <2>4 DEF SetFunctionBreakpointsDelete
<1>8. ASSUME NEW n \in FnNames, SetFunctionBreakpointsKeep(n) PROVE TypeOK'
  <2>1. ReqOK([req EXCEPT !.add = @ \ {n}])
    BY ReqStepType
  <2>2. ReqOK(req') /\ bpEvents' \in BOOLEAN /\ response' \in Responses
    BY <1>8, <2>1, EndRequestType DEF SetFunctionBreakpointsKeep
  <2>3. QED
    BY <1>8, <2>2 DEF SetFunctionBreakpointsKeep
<1>9. ASSUME NEW n \in FnNames, SetFunctionBreakpointsCreate(n) PROVE TypeOK'
  <2> DEFINE s == req.args[n]
  <2>1. s \in Settings /\ nextId \in Ids
    BY <1>9 DEF SetFunctionBreakpointsCreate, Ids, ReqOK
  <2>2. events' \in Seq(Event) /\ backend' \subseteq Ids
        /\ nextId' \in 1 .. MaxBp + 1
    BY <1>9, <2>1, NotifyType DEF SetFunctionBreakpointsCreate, Ids
  <2>3. /\ SetBpConditionInfo(NewInfo, s) \in InfoRec
        /\ SetBpConditionFailsInfo(NewInfo, s) \in InfoRec
        /\ SetBpConditionNative(FALSE, NewInfo, s) \in BOOLEAN
    BY <2>1, NoInfoType, SetBpConditionType
  <2>4. bpInfo' \in [Ids -> InfoRec] /\ natCond' \in [Ids -> BOOLEAN]
    <3>1. natCond' \in [Ids -> BOOLEAN]
      BY <1>9, <2>1, <2>3 DEF SetFunctionBreakpointsCreate
    <3>2. CASE s.ovf
      BY <1>9, <2>1, <2>3, <3>2 DEF SetFunctionBreakpointsCreate
    <3>3. CASE ~s.ovf
      BY <1>9, <2>1, <2>3, <3>3 DEF SetFunctionBreakpointsCreate
    <3>4. QED
      BY <3>1, <3>2, <3>3
  <2>5. fnBps' \in [FnNames -> IdOrNone]
    BY <1>9, <2>1 DEF SetFunctionBreakpointsCreate, IdOrNone
  <2>6. ReqOK([req EXCEPT !.add = @ \ {n}])
    BY ReqStepType
  <2>7. ReqOK(req') /\ bpEvents' \in BOOLEAN /\ response' \in Responses
    BY <1>9, <2>6, EndRequestType DEF SetFunctionBreakpointsCreate
  <2>8. QED
    BY <1>9, <2>2, <2>4, <2>5, <2>7 DEF SetFunctionBreakpointsCreate
<1>10. CASE SetFunctionBreakpointsDone
  BY <1>10, EndRequestType DEF SetFunctionBreakpointsDone
<1>11. ASSUME NEW fs \in Filters, SetExceptionBreakpoints(fs) PROVE TypeOK'
  <2>1. NumExceptionBps(fs) \in 0 .. 2
    BY DEF NumExceptionBps
  <2>2. backend' \subseteq Ids /\ nextId' \in 1 .. MaxBp + 1
    BY <1>11, <2>1 DEF SetExceptionBreakpoints, Ids
  <2>3. bpInfo' \in [Ids -> InfoRec] /\ natCond' \in [Ids -> BOOLEAN]
    BY <1>11, NoInfoType DEF SetExceptionBreakpoints
  <2>4. response' \in Responses
    BY <1>11 DEF SetExceptionBreakpoints, Responses
  <2>5. QED
    BY <1>11, <2>2, <2>3, <2>4 DEF SetExceptionBreakpoints
<1>12. CASE ConsoleCreate
  BY <1>12, NotifyType DEF ConsoleCreate, Ids, Responses
<1>13. ASSUME NEW id \in Ids, ConsoleDelete(id) PROVE TypeOK'
  BY <1>13, NotifyType DEF ConsoleDelete, Responses
<1>14. CASE HandleBreakpointEvent
  <2>1. Head(events) \in Event /\ Tail(events) \in Seq(Event)
    BY <1>14 DEF HandleBreakpointEvent
  <2>2. bpInfo' \in [Ids -> InfoRec]
    BY <1>14, <2>1, NoInfoType DEF HandleBreakpointEvent, Event
  <2>3. QED
    BY <1>14, <2>1, <2>2 DEF HandleBreakpointEvent
<1>15. CASE UNCHANGED vars
  BY <1>15 DEF vars
<1>16. QED
  BY <1>1, <1>2, <1>3, <1>4, <1>5, <1>6, <1>7, <1>8, <1>9, <1>10, <1>11,
     <1>12, <1>13, <1>14, <1>15 DEF Next

\* The registry's variables keep their types in every reachable state.
THEOREM TypeCorrect == Spec => []TypeOK
BY InitTypeOK, NextTypeOK, PTL DEF Spec

=============================================================================
