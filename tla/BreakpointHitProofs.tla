-------------------------- MODULE BreakpointHitProofs --------------------------
(***************************************************************************)
(* Proofs about set_bp_condition racing should_stop_on_bp, for every value *)
(* of the constants that satisfies HitAssumption: type correctness, no     *)
(* spurious stop (NoSpuriousStop), and that the stepwise set_bp_condition  *)
(* implements the atomic BreakpointSettings update (SettingsRefined).      *)
(***************************************************************************)
EXTENDS BreakpointHit, TLAPS

USE HitAssumption

\* The condition kind the BreakpointInfo keeps for a request: a script
\* condition that compiles, or none.
CondKind(r) == IF r.cond = "script" THEN "script" ELSE "none"

(***************************************************************************)
(* How far set_bp_condition has got.  A request that returned normally     *)
(* (lastOk with the event loop idle) has done every step.                  *)
(***************************************************************************)
Applied == setPc = "idle" /\ lastOk

CondDone == setPc \in {"ign", "log", "cb"} \/ Applied

IgnDone == setPc \in {"log", "cb"} \/ Applied

LogDone == setPc = "cb" \/ Applied

\* What each step of set_bp_condition leaves, up to the end of the request.
SetInv ==
    /\ setPc \in {"cond", "ign"} => info.ign = 0
    /\ setPc = "cond" => info.cond = "none"
    /\ CondDone => info.cond = CondKind(req) /\ (req.cond = "native" => lldb.cond)
    /\ IgnDone => info.ign = ReqIgnore(req) /\ Uint32(info.ign)
    /\ LogDone => info.log = req.log
    /\ Applied => (lldb.cb # "hit" => info.cond = "none" /\ ~info.log /\ info.ign = 0)

(***************************************************************************)
(* A hit no request step has overlapped (clean) started with the event     *)
(* loop idle, passed LLDB's native condition, and reads the BreakpointInfo *)
(* as it was when it arrived.                                              *)
(***************************************************************************)
HitInv ==
    /\ h.pc # "idle" /\ h.clean => setPc = "idle" /\ (lldb.cond => h.n)
    /\ h.pc = "store" /\ h.clean => h.v = info.ign
    /\ h.pc = "log" /\ h.clean => info.cond = "none" \/ h.c = "true"

\* A hit decided while a request runs, or before it began, is not clean.
OutInv == setPc # "idle" => outcome.res = "none" \/ ~outcome.clean

HInv == TypeOK /\ SetInv /\ HitInv /\ OutInv /\ NoSpuriousStop

-----------------------------------------------------------------------------
(* Type correctness                                                        *)

\* The ignore counts a request can carry are integers no larger than
\* MaxIgnore; a count SetIgnoreCount accepts is one LLDB can hold.
LEMMA IgnoreValsInt ==
    /\ IgnoreVals \subseteq Int
    /\ \A v \in IgnoreVals : v <= MaxIgnore
    /\ \A v \in IgnoreVals : Uint32(v) => v \in 0 .. MaxIgnore
BY DEF IgnoreVals, Uint32

LEMMA ReqIgnoreVals ==
    ASSUME NEW r \in Requests \cup {NoRequest}
    PROVE  ReqIgnore(r) \in IgnoreVals
BY DEF ReqIgnore, IgnoreVals, Requests, NoRequest

LEMMA InitTypeOK == Init => TypeOK
BY DEF Init, TypeOK, IdleHit, NoOutcome, NoRequest, IgnoreVals, CondResults,
       LogResults

\* The idle hit, and the record Finish leaves, are well typed.
LEMMA FinishType ==
    ASSUME NEW res \in {"filtered", "ignored", "stopped", "continued"},
           NEW hh \in [pc : {"idle", "check", "load", "store", "cond", "log"},
                       clean : BOOLEAN, n : BOOLEAN, c : CondResults,
                       l : LogResults, v : IgnoreVals],
           Finish(res, hh), TypeOK
    PROVE  /\ h' \in [pc : {"idle", "check", "load", "store", "cond", "log"},
                      clean : BOOLEAN, n : BOOLEAN, c : CondResults,
                      l : LogResults, v : IgnoreVals]
           /\ outcome' \in [res : {"none", "filtered", "ignored", "stopped", "continued"},
                            clean : BOOLEAN, n : BOOLEAN, c : CondResults,
                            l : LogResults]
BY DEF Finish, IdleHit, IgnoreVals, CondResults, LogResults

LEMMA InterruptType ==
    ASSUME TypeOK, Interrupt
    PROVE  h' \in [pc : {"idle", "check", "load", "store", "cond", "log"},
                   clean : BOOLEAN, n : BOOLEAN, c : CondResults,
                   l : LogResults, v : IgnoreVals]
BY DEF Interrupt, TypeOK

LEMMA NextTypeOK == TypeOK /\ [Next]_vars => TypeOK'
<1> SUFFICES ASSUME TypeOK, [Next]_vars PROVE TypeOK'
  OBVIOUS
<1> DEFINE HRec == [pc : {"idle", "check", "load", "store", "cond", "log"},
                    clean : BOOLEAN, n : BOOLEAN, c : CondResults,
                    l : LogResults, v : IgnoreVals]
           ORec == [res : {"none", "filtered", "ignored", "stopped", "continued"},
                    clean : BOOLEAN, n : BOOLEAN, c : CondResults, l : LogResults]
<1>0. /\ h \in HRec /\ outcome \in ORec /\ req \in Requests \cup {NoRequest}
      /\ info \in [cond : {"none", "script"}, ign : IgnoreVals, log : BOOLEAN]
      /\ lldb \in [cond : BOOLEAN, ign : 0 .. MaxIgnore, cb : {"none", "empty", "hit"}]
  BY DEF TypeOK
<1>1. ASSUME NEW r \in Requests, BeginSetBpCondition(r) PROVE TypeOK'
  <2>1. h' \in HRec
    BY <1>1, InterruptType DEF BeginSetBpCondition
  <2>2. outcome' \in ORec
    BY <1>1 DEF BeginSetBpCondition, NoOutcome, CondResults, LogResults
  <2>3. info' \in [cond : {"none", "script"}, ign : IgnoreVals, log : BOOLEAN]
    <3>1. 0 \in IgnoreVals
      BY DEF IgnoreVals
    <3>2. CASE info.cond # "none" \/ info.ign # 0
      <4>1. info' = [info EXCEPT !.cond = "none", !.ign = 0]
        BY <1>1, <3>2 DEF BeginSetBpCondition
      <4>2. QED
        BY <1>0, <3>1, <4>1
    <3>3. CASE ~(info.cond # "none" \/ info.ign # 0)
      BY <1>0, <1>1, <3>3 DEF BeginSetBpCondition
    <3>4. QED
      BY <3>2, <3>3
  <2>4. lldb' \in [cond : BOOLEAN, ign : 0 .. MaxIgnore, cb : {"none", "empty", "hit"}]
    <3>1. CASE info.cond # "none" \/ info.ign # 0
      <4>1. lldb' = [lldb EXCEPT !.cond = FALSE, !.cb = "empty"]
        BY <1>1, <3>1 DEF BeginSetBpCondition
      <4>2. QED
        BY <1>0, <4>1
    <3>2. CASE ~(info.cond # "none" \/ info.ign # 0)
      <4>1. lldb' = lldb
        BY <1>1, <3>2 DEF BeginSetBpCondition
      <4>2. QED
        BY <1>0, <4>1
    <3>3. QED
      BY <3>1, <3>2
  <2>5. req' \in Requests \cup {NoRequest} /\ setPc' = "cond" /\ lastOk' = lastOk
    BY <1>1 DEF BeginSetBpCondition
  <2>6. QED
    BY <1>0, <2>1, <2>2, <2>3, <2>4, <2>5 DEF TypeOK
<1>2. CASE SetCondition
  <2>1. h' \in HRec
    BY <1>2, InterruptType DEF SetCondition
  <2>2. QED
    BY <1>0, <1>2, <2>1 DEF SetCondition, TypeOK
<1>3. CASE SetIgnoreCount
  <2>1. h' \in HRec
    BY <1>3, InterruptType DEF SetIgnoreCount
  <2>2. CASE req.hit.str = "int"
    <3>1. req \in Requests
      BY <1>0, <2>2 DEF NoRequest
    <3>2. req.hit.val \in IgnoreVals
      BY <3>1 DEF Requests, IgnoreVals
    <3>3. info' \in [cond : {"none", "script"}, ign : IgnoreVals, log : BOOLEAN]
      BY <1>0, <1>3, <2>2, <3>2 DEF SetIgnoreCount
    <3>4. lldb' \in [cond : BOOLEAN, ign : 0 .. MaxIgnore, cb : {"none", "empty", "hit"}]
      BY <1>0, <1>3, <2>2, <3>2, IgnoreValsInt DEF SetIgnoreCount
    <3>5. setPc' \in {"idle", "log"} /\ lastOk' \in BOOLEAN
      BY <1>0, <1>3, <2>2 DEF SetIgnoreCount, TypeOK
    <3>6. QED
      BY <1>0, <1>3, <2>1, <3>3, <3>4, <3>5 DEF SetIgnoreCount, TypeOK
  <2>3. CASE req.hit.str # "int"
    BY <1>0, <1>3, <2>1, <2>3 DEF SetIgnoreCount, TypeOK
  <2>4. QED
    BY <2>2, <2>3
<1>4. CASE SetLogMessage
  <2>1. h' \in HRec
    BY <1>4, InterruptType DEF SetLogMessage
  <2>2. req.log \in BOOLEAN
    <3>1. CASE req \in Requests
      BY <3>1 DEF Requests
    <3>2. CASE req = NoRequest
      BY <3>2 DEF NoRequest
    <3>3. QED
      BY <1>0, <3>1, <3>2
  <2>3. QED
    BY <1>0, <1>4, <2>1, <2>2 DEF SetLogMessage, TypeOK
<1>5. CASE SetCallback
  <2>1. h' \in HRec
    BY <1>5, InterruptType DEF SetCallback
  <2>2. QED
    BY <1>0, <1>5, <2>1 DEF SetCallback, TypeOK
<1>6. CASE HitArrives
  <2>1. PICK n \in BOOLEAN, c \in CondResults, l \in LogResults :
          LET fresh == [pc |-> "idle", clean |-> setPc = "idle", n |-> n,
                        c |-> c, l |-> l, v |-> 0]
          IN \/ /\ lldb.cond /\ ~n
                /\ Finish("filtered", fresh)
                /\ UNCHANGED lldb
             \/ /\ ~(lldb.cond /\ ~n) /\ lldb.ign > 0
                /\ lldb' = [lldb EXCEPT !.ign = @ - 1]
                /\ Finish("ignored", fresh)
             \/ /\ ~(lldb.cond /\ ~n) /\ lldb.ign = 0 /\ lldb.cb = "hit"
                /\ h' = [fresh EXCEPT !.pc = "check"]
                /\ UNCHANGED <<lldb, outcome>>
             \/ /\ ~(lldb.cond /\ ~n) /\ lldb.ign = 0 /\ lldb.cb # "hit"
                /\ Finish("stopped", fresh)
                /\ UNCHANGED lldb
    BY <1>6 DEF HitArrives
  <2> DEFINE fresh == [pc |-> "idle", clean |-> setPc = "idle", n |-> n,
                       c |-> c, l |-> l, v |-> 0]
  <2>2. fresh \in HRec
    BY DEF IgnoreVals
  <2>3. h' \in HRec /\ outcome' \in ORec
    BY <1>0, <2>1, <2>2, FinishType
  <2>4. lldb' \in [cond : BOOLEAN, ign : 0 .. MaxIgnore, cb : {"none", "empty", "hit"}]
    BY <1>0, <2>1
  <2>5. QED
    BY <1>6, <2>3, <2>4 DEF HitArrives, TypeOK
<1>7. CASE CbCheckIgnore
  BY <1>0, <1>7 DEF CbCheckIgnore, TypeOK
<1>8. CASE CbLoadIgnore
  <2>1. h' \in HRec
    BY <1>0, <1>8 DEF CbLoadIgnore
  <2>2. QED
    BY <1>0, <1>8, <2>1 DEF CbLoadIgnore, TypeOK
<1>9. CASE CbStoreIgnore
  <2>1. h.v \in IgnoreVals
    BY <1>0
  <2>2. h' \in HRec /\ outcome' \in ORec
    BY <1>0, <1>9, FinishType DEF CbStoreIgnore
  <2>3. lldb' \in [cond : BOOLEAN, ign : 0 .. MaxIgnore, cb : {"none", "empty", "hit"}]
    BY <1>0, <1>9, <2>1, IgnoreValsInt DEF CbStoreIgnore
  <2>4. QED
    BY <1>9, <2>2, <2>3 DEF CbStoreIgnore, TypeOK
<1>10. CASE CbCondition
  <2>1. h' \in HRec /\ outcome' \in ORec
    BY <1>0, <1>10, FinishType DEF CbCondition
  <2>2. QED
    BY <1>10, <2>1 DEF CbCondition, TypeOK
<1>11. CASE CbLogMessage
  <2>1. h' \in HRec /\ outcome' \in ORec
    BY <1>0, <1>11, FinishType DEF CbLogMessage
  <2>2. QED
    BY <1>11, <2>1 DEF CbLogMessage, TypeOK
<1>12. CASE UNCHANGED vars
  BY <1>12 DEF vars, TypeOK
<1>13. QED
  BY <1>1, <1>2, <1>3, <1>4, <1>5, <1>6, <1>7, <1>8, <1>9, <1>10, <1>11,
     <1>12 DEF Next

\* Every state of set_bp_condition racing hits is well typed: in
\* particular LLDB's ignore count is never negative, because
\* SetIgnoreCount and line 606's store raise OverflowError instead.
THEOREM TypeCorrect == Spec => []TypeOK
<1>1. Init => TypeOK
  BY InitTypeOK
<1>2. TypeOK /\ [Next]_vars => TypeOK'
  BY NextTypeOK
<1>3. QED
  BY <1>1, <1>2, PTL DEF Spec

-----------------------------------------------------------------------------
(* No spurious stop                                                        *)

\* A step of the hit's thread changes neither the BreakpointInfo, nor the
\* request, nor LLDB's condition and callback: what set_bp_condition did
\* stays done.
LEMMA SetInvKept ==
    ASSUME SetInv, UNCHANGED <<info, req, setPc, lastOk>>,
           lldb'.cond = lldb.cond, lldb'.cb = lldb.cb
    PROVE  SetInv'
BY DEF SetInv, Applied, CondDone, IgnDone, LogDone

\* A step of set_bp_condition leaves no clean hit in flight.
LEMMA InterruptHitInv ==
    ASSUME TypeOK, Interrupt
    PROVE  HitInv'
BY DEF Interrupt, HitInv, TypeOK

\* The order of the checks in should_stop_on_bp: a hit that passed the
\* native condition, whose script condition did not decide, and whose log
\* message did not continue, stops.
LEMMA DecideStop ==
    ASSUME NEW r, NEW n, NEW c, NEW l,
           r.cond = "native" => n,
           r.cond = "script" => c \notin {"false"},
           ~(r.cond = "script" /\ c = "raise") => ~(r.log /\ l = "ok")
    PROVE  Decide(r, n, c, l) = "stop"
BY DEF Decide

LEMMA InitHInv == Init => HInv
<1> SUFFICES ASSUME Init PROVE HInv
  OBVIOUS
<1>1. TypeOK
  BY InitTypeOK
<1>2. SetInv
  BY DEF Init, SetInv, Applied, CondDone, IgnDone, LogDone, CondKind,
         NoRequest, ReqIgnore, Uint32
<1>3. HitInv /\ OutInv /\ NoSpuriousStop
  BY DEF Init, HitInv, OutInv, NoSpuriousStop, IdleHit, NoOutcome
<1>4. QED
  BY <1>1, <1>2, <1>3 DEF HInv

LEMMA NextHInv == HInv /\ [Next]_vars => HInv'
<1> SUFFICES ASSUME TypeOK, SetInv, HitInv, OutInv, NoSpuriousStop, [Next]_vars
             PROVE  SetInv' /\ HitInv' /\ OutInv' /\ NoSpuriousStop'
  BY NextTypeOK DEF HInv
<1>0. /\ req \in Requests \cup {NoRequest}
      /\ info \in [cond : {"none", "script"}, ign : IgnoreVals, log : BOOLEAN]
      /\ lldb \in [cond : BOOLEAN, ign : 0 .. MaxIgnore, cb : {"none", "empty", "hit"}]
      /\ lastOk \in BOOLEAN
      /\ h \in [pc : {"idle", "check", "load", "store", "cond", "log"},
               clean : BOOLEAN, n : BOOLEAN, c : CondResults,
               l : LogResults, v : IgnoreVals]
  BY DEF TypeOK
<1>1. ASSUME NEW r \in Requests, BeginSetBpCondition(r)
      PROVE  SetInv' /\ HitInv' /\ OutInv' /\ NoSpuriousStop'
  <2>1. setPc' = "cond" /\ info'.cond = "none" /\ info'.ign = 0
    BY <1>0, <1>1 DEF BeginSetBpCondition
  <2>2. SetInv'
    BY <2>1 DEF SetInv, Applied, CondDone, IgnDone, LogDone
  <2>3. HitInv'
    BY <1>1, InterruptHitInv DEF BeginSetBpCondition
  <2>4. outcome' = NoOutcome
    BY <1>1 DEF BeginSetBpCondition
  <2>5. QED
    BY <2>2, <2>3, <2>4 DEF OutInv, NoSpuriousStop, NoOutcome
<1>2. CASE SetCondition
  <2>1. setPc = "cond" /\ setPc' = "ign" /\ UNCHANGED <<req, lastOk, outcome>>
        /\ info'.ign = info.ign /\ info'.log = info.log
        /\ info'.cond = (IF req.cond = "script" THEN "script" ELSE info.cond)
        /\ lldb'.cond = (req.cond = "native" \/ lldb.cond)
    BY <1>0, <1>2 DEF SetCondition
  <2>2. info.ign = 0 /\ info.cond = "none"
    BY <2>1 DEF SetInv
  <2>3. SetInv'
    BY <2>1, <2>2 DEF SetInv, Applied, CondDone, IgnDone, LogDone, CondKind
  <2>4. HitInv'
    BY <1>2, InterruptHitInv DEF SetCondition
  <2>5. QED
    BY <2>1, <2>3, <2>4 DEF OutInv, NoSpuriousStop
<1>3. CASE SetIgnoreCount
  <2>1. /\ setPc = "ign" /\ UNCHANGED <<req, outcome>>
        /\ info'.cond = info.cond /\ info'.log = info.log /\ lldb'.cond = lldb.cond
    BY <1>0, <1>3 DEF SetIgnoreCount
  <2>2. info.ign = 0 /\ info.cond = CondKind(req) /\ (req.cond = "native" => lldb.cond)
    BY <2>1 DEF SetInv, CondDone
  <2>3. HitInv'
    BY <1>3, InterruptHitInv DEF SetIgnoreCount
  <2>4. OutInv /\ setPc # "idle"
    BY <2>1
  <2>5. CASE req.hit.str = "int" /\ Uint32(req.hit.val)
    <3>1. setPc' = "log" /\ info'.ign = req.hit.val
      BY <1>0, <1>3, <2>5 DEF SetIgnoreCount
    <3>2. SetInv'
      BY <2>1, <2>2, <2>5, <3>1 DEF SetInv, Applied, CondDone, IgnDone, LogDone,
                                   ReqIgnore
    <3>3. QED
      BY <2>1, <2>3, <2>4, <3>1, <3>2 DEF OutInv, NoSpuriousStop
  <2>6. CASE req.hit.str = "int" /\ ~Uint32(req.hit.val)
    <3>1. setPc' = "idle" /\ lastOk' = FALSE
      BY <1>3, <2>6 DEF SetIgnoreCount
    <3>2. QED
      BY <2>3, <3>1 DEF SetInv, Applied, CondDone, IgnDone, LogDone, OutInv,
                        NoSpuriousStop
  <2>7. CASE req.hit.str # "int"
    <3>1. setPc' = "log" /\ info'.ign = info.ign
      BY <1>3, <2>7 DEF SetIgnoreCount
    <3>2. ReqIgnore(req) = 0 /\ Uint32(0)
      BY <2>7 DEF ReqIgnore, Uint32
    <3>3. SetInv'
      BY <2>1, <2>2, <3>1, <3>2 DEF SetInv, Applied, CondDone, IgnDone, LogDone
    <3>4. QED
      BY <2>1, <2>3, <2>4, <3>1, <3>3 DEF OutInv, NoSpuriousStop
  <2>8. QED
    BY <2>5, <2>6, <2>7
<1>4. CASE SetLogMessage
  <2>1. /\ setPc = "log" /\ setPc' = "cb" /\ UNCHANGED <<req, lastOk, outcome, lldb>>
        /\ info' = [info EXCEPT !.log = req.log]
    BY <1>4 DEF SetLogMessage
  <2>2. SetInv'
    BY <1>0, <2>1 DEF SetInv, Applied, CondDone, IgnDone, LogDone
  <2>3. HitInv'
    BY <1>4, InterruptHitInv DEF SetLogMessage
  <2>4. QED
    BY <2>1, <2>2, <2>3 DEF OutInv, NoSpuriousStop
<1>5. CASE SetCallback
  <2>1. /\ setPc = "cb" /\ setPc' = "idle" /\ lastOk' = TRUE
        /\ UNCHANGED <<req, outcome, info>>
        /\ lldb'.cond = lldb.cond
        /\ (info.cond # "none" \/ info.log \/ info.ign # 0) => lldb'.cb = "hit"
    BY <1>0, <1>5 DEF SetCallback
  <2>2. SetInv'
    BY <2>1 DEF SetInv, Applied, CondDone, IgnDone, LogDone
  <2>3. HitInv'
    BY <1>5, InterruptHitInv DEF SetCallback
  <2>4. outcome.res = "none" \/ ~outcome.clean
    BY <2>1 DEF OutInv
  <2>5. QED
    BY <2>1, <2>2, <2>3, <2>4 DEF OutInv, NoSpuriousStop
<1>6. CASE HitArrives
  <2>1. UNCHANGED <<info, setPc, req, lastOk>> /\ lldb'.cond = lldb.cond
        /\ lldb'.cb = lldb.cb
    BY <1>0, <1>6 DEF HitArrives
  <2>2. SetInv'
    BY <2>1, SetInvKept
  <2>3. PICK n \in BOOLEAN, c \in CondResults, l \in LogResults :
          LET fresh == [pc |-> "idle", clean |-> setPc = "idle", n |-> n,
                        c |-> c, l |-> l, v |-> 0]
          IN \/ /\ lldb.cond /\ ~n
                /\ Finish("filtered", fresh)
             \/ /\ ~(lldb.cond /\ ~n) /\ lldb.ign > 0
                /\ Finish("ignored", fresh)
             \/ /\ ~(lldb.cond /\ ~n) /\ lldb.cb = "hit"
                /\ h' = [fresh EXCEPT !.pc = "check"]
                /\ UNCHANGED outcome
             \/ /\ ~(lldb.cond /\ ~n) /\ lldb.cb # "hit"
                /\ Finish("stopped", fresh)
    BY <1>6 DEF HitArrives
  <2> DEFINE fresh == [pc |-> "idle", clean |-> setPc = "idle", n |-> n,
                       c |-> c, l |-> l, v |-> 0]
  <2>4. ASSUME NEW res \in {"filtered", "ignored"}, Finish(res, fresh)
        PROVE  HitInv' /\ OutInv' /\ NoSpuriousStop'
    <3>1. h' = IdleHit /\ outcome'.res = res /\ outcome'.clean = (setPc = "idle")
      BY <2>4 DEF Finish
    <3>2. QED
      BY <2>1, <2>2, <3>1 DEF IdleHit, HitInv, OutInv, NoSpuriousStop
  <2>5. CASE ~(lldb.cond /\ ~n) /\ h' = [fresh EXCEPT !.pc = "check"]
             /\ UNCHANGED outcome
    <3>1. h'.pc = "check" /\ h'.clean = (setPc = "idle") /\ h'.n = n
      BY <2>5
    <3>2. HitInv'
      BY <2>1, <2>5, <3>1 DEF HitInv
    <3>3. QED
      BY <2>1, <2>2, <2>5, <3>2 DEF OutInv, NoSpuriousStop
  <2>6. CASE ~(lldb.cond /\ ~n) /\ lldb.cb # "hit" /\ Finish("stopped", fresh)
    <3>1. h' = IdleHit /\ outcome' = [res |-> "stopped", clean |-> setPc = "idle",
                                      n |-> n, c |-> c, l |-> l]
      BY <2>6 DEF Finish
    <3>2. HitInv' /\ OutInv'
      BY <2>1, <3>1 DEF HitInv, OutInv, IdleHit
    <3>3. ASSUME Applied PROVE Decide(req, n, c, l) = "stop"
      <4>1. info.cond = "none" /\ ~info.log /\ info.cond = CondKind(req)
            /\ info.log = req.log /\ (req.cond = "native" => lldb.cond)
        BY <2>6, <3>3 DEF SetInv, CondDone, LogDone
      <4>2. req.cond # "script" /\ ~req.log /\ (req.cond = "native" => n)
        BY <2>6, <4>1 DEF CondKind
      <4>3. QED
        BY <4>2, DecideStop
    <3>4. QED
      BY <2>1, <2>2, <3>1, <3>2, <3>3 DEF NoSpuriousStop, Applied
  <2>7. QED
    BY <2>2, <2>3, <2>4, <2>5, <2>6
<1>7. CASE CbCheckIgnore
  <2>1. UNCHANGED <<info, lldb, setPc, req, lastOk, outcome>>
        /\ h' = [h EXCEPT !.pc = IF info.ign # 0 THEN "load" ELSE "cond"]
    BY <1>7 DEF CbCheckIgnore
  <2>2. SetInv'
    BY <2>1, SetInvKept
  <2>3. h'.pc \in {"load", "cond"} /\ h'.clean = h.clean /\ h'.n = h.n
        /\ h.pc = "check"
    BY <1>0, <1>7, <2>1 DEF CbCheckIgnore
  <2>4. HitInv'
    BY <2>1, <2>3 DEF HitInv
  <2>5. QED
    BY <2>1, <2>2, <2>4 DEF OutInv, NoSpuriousStop
<1>8. CASE CbLoadIgnore
  <2>1. UNCHANGED <<info, lldb, setPc, req, lastOk, outcome>>
        /\ h' = [h EXCEPT !.pc = "store", !.v = info.ign]
    BY <1>8 DEF CbLoadIgnore
  <2>2. SetInv'
    BY <2>1, SetInvKept
  <2>3. h'.pc = "store" /\ h'.v = info.ign /\ h'.clean = h.clean /\ h'.n = h.n
        /\ h.pc = "load"
    BY <1>0, <1>8, <2>1 DEF CbLoadIgnore
  <2>4. HitInv'
    BY <2>1, <2>3 DEF HitInv
  <2>5. QED
    BY <2>1, <2>2, <2>4 DEF OutInv, NoSpuriousStop
<1>9. CASE CbStoreIgnore
  <2>1. h.pc = "store" /\ UNCHANGED <<info, setPc, req, lastOk>>
    BY <1>9 DEF CbStoreIgnore
  <2>2. CASE Uint32(h.v) /\ lldb' = [lldb EXCEPT !.ign = h.v]
             /\ h' = [h EXCEPT !.pc = "cond"] /\ UNCHANGED outcome
    <3>1. lldb'.cond = lldb.cond /\ lldb'.cb = lldb.cb
      BY <1>0, <2>2
    <3>2. SetInv'
      BY <2>1, <3>1, SetInvKept
    <3>3. h'.pc = "cond" /\ h'.clean = h.clean /\ h'.n = h.n
      BY <1>0, <2>2
    <3>4. HitInv'
      BY <2>1, <3>1, <3>3 DEF HitInv
    <3>5. QED
      BY <2>1, <2>2, <3>2, <3>4 DEF OutInv, NoSpuriousStop
  <2>3. CASE ~Uint32(h.v) /\ Finish("stopped", h) /\ UNCHANGED lldb
    <3>1. h' = IdleHit /\ outcome'.res = "stopped" /\ outcome'.clean = h.clean
      BY <2>3 DEF Finish
    <3>2. SetInv'
      BY <2>1, <2>3, SetInvKept
    <3>3. HitInv' /\ OutInv'
      BY <2>1, <3>1 DEF HitInv, OutInv, IdleHit
    \* A clean hit loaded the count set_bp_condition stored, which is in
    \* uint32 range once it has returned normally.
    <3>4. ~(h.clean /\ Applied)
      BY <2>1, <2>3 DEF HitInv, SetInv, IgnDone
    <3>5. QED
      BY <2>1, <3>1, <3>2, <3>3, <3>4 DEF NoSpuriousStop, Applied
  <2>4. QED
    BY <1>9, <2>2, <2>3 DEF CbStoreIgnore
<1>10. CASE CbCondition
  <2>1. h.pc = "cond" /\ UNCHANGED <<info, lldb, setPc, req, lastOk>>
    BY <1>10 DEF CbCondition
  <2>2. SetInv'
    BY <2>1, SetInvKept
  <2>3. ASSUME NEW res \in {"continued", "stopped"}, Finish(res, h),
               res = "stopped" => info.cond = "script" /\ h.c = "raise"
        PROVE  HitInv' /\ OutInv' /\ NoSpuriousStop'
    <3>1. h' = IdleHit /\ outcome' = [res |-> res, clean |-> h.clean, n |-> h.n,
                                      c |-> h.c, l |-> h.l]
      BY <2>3 DEF Finish
    <3>2. HitInv' /\ OutInv'
      BY <2>1, <3>1 DEF HitInv, OutInv, IdleHit
    <3>3. ASSUME res = "stopped", Applied PROVE Decide(req, h.n, h.c, h.l) = "stop"
      <4>1. info.cond = CondKind(req)
        BY <3>3 DEF SetInv, CondDone
      <4>2. req.cond = "script" /\ h.c = "raise"
        BY <2>3, <3>3, <4>1 DEF CondKind
      <4>3. QED
        BY <4>2 DEF Decide
    <3>4. QED
      BY <2>1, <3>1, <3>2, <3>3 DEF NoSpuriousStop, Applied
  <2>4. CASE (info.cond = "none" \/ h.c = "true") /\ h' = [h EXCEPT !.pc = "log"]
             /\ UNCHANGED outcome
    <3>1. h'.pc = "log" /\ h'.clean = h.clean /\ h'.n = h.n /\ h'.c = h.c
      BY <1>0, <2>4
    <3>2. HitInv'
      BY <2>1, <2>4, <3>1 DEF HitInv
    <3>3. QED
      BY <2>1, <2>2, <2>4, <3>2 DEF OutInv, NoSpuriousStop
  <2>5. QED
    BY <1>10, <2>2, <2>3, <2>4 DEF CbCondition
<1>11. CASE CbLogMessage
  <2> DEFINE res == IF info.log /\ h.l = "ok" THEN "continued" ELSE "stopped"
  <2>1. h.pc = "log" /\ UNCHANGED <<info, lldb, setPc, req, lastOk>>
        /\ h' = IdleHit
        /\ outcome' = [res |-> res, clean |-> h.clean, n |-> h.n, c |-> h.c, l |-> h.l]
    BY <1>11 DEF CbLogMessage, Finish
  <2>2. SetInv'
    BY <2>1, SetInvKept
  <2>3. HitInv' /\ OutInv'
    BY <2>1 DEF HitInv, OutInv, IdleHit
  \* A clean hit that reached the log message passed every earlier check of
  \* the request it was made for.
  <2>4. ASSUME res = "stopped", h.clean, Applied
        PROVE  Decide(req, h.n, h.c, h.l) = "stop"
    <3>1. /\ info.cond = CondKind(req) /\ info.log = req.log
          /\ (req.cond = "native" => lldb.cond)
      BY <2>4 DEF SetInv, CondDone, LogDone
    <3>2. (lldb.cond => h.n) /\ (info.cond = "none" \/ h.c = "true")
      BY <2>1, <2>4 DEF HitInv
    <3>3. /\ req.cond = "native" => h.n
          /\ req.cond = "script" => h.c \notin {"false"}
          /\ ~(req.log /\ h.l = "ok")
      BY <2>4, <3>1, <3>2 DEF CondKind
    <3>4. QED
      BY <3>3, DecideStop
  <2>5. QED
    BY <2>1, <2>2, <2>3, <2>4 DEF NoSpuriousStop, Applied
<1>12. CASE UNCHANGED vars
  BY <1>12 DEF vars, SetInv, Applied, CondDone, IgnDone, LogDone, HitInv,
               OutInv, NoSpuriousStop
<1>13. QED
  BY <1>1, <1>2, <1>3, <1>4, <1>5, <1>6, <1>7, <1>8, <1>9, <1>10, <1>11,
     <1>12 DEF Next

\* No spurious stop, for every value of the constants: a hit that no
\* set_bp_condition step overlapped, after a set_bp_condition that returned
\* normally, stops the debuggee only when the applied request asks for a
\* stop; a tracepoint, or a false condition, never halts the debuggee.
THEOREM NoSpuriousStopHolds == Spec => []NoSpuriousStop
<1>1. Init => HInv
  BY InitHInv
<1>2. HInv /\ [Next]_vars => HInv'
  BY NextHInv
<1>3. HInv => NoSpuriousStop
  BY DEF HInv
<1>4. QED
  BY <1>1, <1>2, <1>3, PTL DEF Spec

-----------------------------------------------------------------------------
(* Refinement of BreakpointSettings                                        *)

\* The abstract settings a request stands for: a condition that does not
\* compile is no condition.
ReqSettings(r) ==
    [cond |-> IF r.cond \in {"native", "script"} THEN r.cond ELSE "none",
     log |-> r.log, ign |-> ReqIgnore(r) # 0]

LEMMA InitRefined == Init => Abstract!Init
<1> SUFFICES ASSUME Init PROVE Abstract!Init
  OBVIOUS
<1>1. AbsInfo = [cond |-> "none", log |-> FALSE, ign |-> FALSE]
  BY DEF Init, AbsInfo
<1>2. AbsNat = FALSE
  BY DEF Init, AbsNat
<1>3. QED
  BY <1>1, <1>2 DEF Abstract!Init

\* A step that leaves alone whether set_bp_condition runs, its request, the
\* BreakpointInfo's log message and LLDB's condition, where those are all
\* the mapping reads, is an abstract stutter.
LEMMA AbsKept ==
    ASSUME (setPc' = "idle") = (setPc = "idle"), req' = req, lldb'.cond = lldb.cond,
           setPc = "idle" => info' = info,
           setPc # "idle" /\ ~Uint32(ReqIgnore(req)) => info'.log = info.log
    PROVE  UNCHANGED <<AbsInfo, AbsNat>>
BY DEF AbsInfo, AbsNat

\* set_bp_condition's last step, or the step that raises, leaves what the
\* mapping said it would.
LEMMA AbsReturn ==
    ASSUME TypeOK, SetInv, setPc # "idle", setPc' = "idle", req' = req,
           lldb'.cond = lldb.cond, info'.cond = info.cond,
           CondDone,
           \/ lastOk' /\ info' = info /\ LogDone /\ IgnDone
           \/ /\ ~Uint32(ReqIgnore(req)) /\ ReqIgnore(req) \in Int
              /\ info'.ign = ReqIgnore(req) /\ info'.log = info.log
    PROVE  UNCHANGED <<AbsInfo, AbsNat>>
<1>1. info.cond = CondKind(req) /\ (req.cond = "native" => lldb.cond)
  BY DEF SetInv
<1>2. AbsNat' = AbsNat
  BY <1>1 DEF AbsNat
<1>3. CASE lastOk' /\ info' = info /\ LogDone /\ IgnDone
  <2>1. info.ign = ReqIgnore(req) /\ Uint32(info.ign) /\ info.log = req.log
    BY <1>3 DEF SetInv
  <2>2. QED
    BY <1>1, <1>2, <1>3, <2>1 DEF AbsInfo, CondKind
<1>4. CASE ~Uint32(ReqIgnore(req)) /\ ReqIgnore(req) \in Int
           /\ info'.ign = ReqIgnore(req) /\ info'.log = info.log
  <2>1. ReqIgnore(req) # 0
    BY <1>4 DEF Uint32
  <2>2. QED
    BY <1>1, <1>2, <1>4, <2>1 DEF AbsInfo, CondKind
<1>5. QED
  BY <1>3, <1>4

LEMMA NextRefined == HInv /\ [Next]_vars => [Abstract!Next]_<<AbsInfo, AbsNat>>
<1> SUFFICES ASSUME TypeOK, SetInv, [Next]_vars
             PROVE  [Abstract!Next]_<<AbsInfo, AbsNat>>
  BY DEF HInv
<1>0. /\ req \in Requests \cup {NoRequest}
      /\ info \in [cond : {"none", "script"}, ign : IgnoreVals, log : BOOLEAN]
      /\ lldb \in [cond : BOOLEAN, ign : 0 .. MaxIgnore, cb : {"none", "empty", "hit"}]
  BY DEF TypeOK
<1>1. ASSUME NEW r \in Requests, BeginSetBpCondition(r)
      PROVE  Abstract!Next
  <2> DEFINE s == ReqSettings(r)
  <2>1. s \in Abstract!Settings
    BY HitAssumption DEF ReqSettings, Requests, Abstract!Settings
  <2>2. ReqIgnore(r) \in Int
    BY ReqIgnoreVals, IgnoreValsInt
  <2>3. /\ AbsInfo = [cond |-> info.cond, log |-> info.log, ign |-> info.ign # 0]
        /\ AbsNat = lldb.cond
    BY <1>1 DEF BeginSetBpCondition, AbsInfo, AbsNat
  <2>4. /\ info'.log = info.log
        /\ lldb'.cond = IF info.cond # "none" \/ info.ign # 0 THEN FALSE ELSE lldb.cond
        /\ setPc' = "cond" /\ req' = r
    BY <1>0, <1>1 DEF BeginSetBpCondition
  <2>5. AbsNat' = Abstract!NativeAfter(s)
    BY <2>3, <2>4 DEF AbsNat, Abstract!NativeAfter, ReqSettings
  <2>6. CASE Uint32(ReqIgnore(r))
    <3>1. Abstract!Apply(s)
      BY <2>4, <2>5, <2>6 DEF Abstract!Apply, AbsInfo, ReqSettings
    <3>2. QED
      BY <2>1, <3>1 DEF Abstract!Next
  <2>7. CASE ~Uint32(ReqIgnore(r))
    <3>0. ReqIgnore(r) # 0
      BY <2>2, <2>7 DEF Uint32
    <3>1. s.ign
      BY <3>0 DEF ReqSettings
    <3>2. Abstract!ApplyFails(s)
      BY <2>3, <2>4, <2>5, <2>7, <3>1 DEF Abstract!ApplyFails, AbsInfo, ReqSettings
    <3>3. QED
      BY <2>1, <3>2 DEF Abstract!Next
  <2>8. QED
    BY <2>6, <2>7
<1>2. ASSUME SetCondition PROVE UNCHANGED <<AbsInfo, AbsNat>>
  <2>1. setPc' # "idle" /\ req' = req
    BY <1>2 DEF SetCondition
  <2>2. AbsInfo' = AbsInfo
    BY <1>0, <1>2, <2>1 DEF SetCondition, AbsInfo
  <2>3. AbsNat' = AbsNat
    BY <1>0, <1>2, <2>1 DEF SetCondition, AbsNat
  <2>4. QED
    BY <2>2, <2>3
<1>3. ASSUME SetIgnoreCount PROVE UNCHANGED <<AbsInfo, AbsNat>>
  <2>1. CASE req.hit.str = "int" /\ ~Uint32(req.hit.val)
    <3>1. req \in Requests
      BY <1>0, <2>1 DEF NoRequest
    <3>2. /\ ~Uint32(ReqIgnore(req)) /\ ReqIgnore(req) \in Int
          /\ ReqIgnore(req) = req.hit.val
      BY <3>1, <2>1, HitAssumption DEF ReqIgnore, Requests
    <3>2a. /\ info'.ign = ReqIgnore(req) /\ info'.log = info.log
           /\ info'.cond = info.cond
      BY <1>0, <1>3, <2>1, <3>2 DEF SetIgnoreCount
    <3>3. /\ setPc = "ign" /\ setPc' = "idle" /\ req' = req
          /\ lldb'.cond = lldb.cond
      BY <1>3, <2>1 DEF SetIgnoreCount
    <3>4. CondDone
      BY <3>3 DEF CondDone
    <3>5. QED
      BY <3>2, <3>2a, <3>3, <3>4, <1>0, AbsReturn DEF TypeOK
  <2>2. CASE ~(req.hit.str = "int" /\ ~Uint32(req.hit.val))
    <3>1. /\ setPc = "ign" /\ setPc' = "log" /\ req' = req
          /\ lldb'.cond = lldb.cond /\ info'.log = info.log
      BY <1>0, <1>3, <2>2 DEF SetIgnoreCount
    <3>2. QED
      BY <3>1, AbsKept
  <2>3. QED
    BY <2>1, <2>2
<1>4. ASSUME SetLogMessage PROVE UNCHANGED <<AbsInfo, AbsNat>>
  <2>1. /\ setPc = "log" /\ setPc' = "cb" /\ req' = req /\ lldb' = lldb
    BY <1>4 DEF SetLogMessage
  <2>2. Uint32(ReqIgnore(req))
    <3>1. IgnDone
      BY <2>1 DEF IgnDone
    <3>2. QED
      BY <3>1 DEF SetInv
  <2>3. QED
    BY <2>1, <2>2, AbsKept
<1>5. ASSUME SetCallback PROVE UNCHANGED <<AbsInfo, AbsNat>>
  <2>1. /\ setPc = "cb" /\ setPc' = "idle" /\ req' = req /\ info' = info
        /\ lastOk' /\ lldb'.cond = lldb.cond
    BY <1>0, <1>5 DEF SetCallback
  <2>2. CondDone /\ IgnDone /\ LogDone
    BY <2>1 DEF CondDone, IgnDone, LogDone
  <2>3. QED
    BY <2>1, <2>2, AbsReturn
<1>6. ASSUME UNCHANGED <<info, setPc, req>>, lldb'.cond = lldb.cond
      PROVE  UNCHANGED <<AbsInfo, AbsNat>>
  BY <1>6, AbsKept
<1>7. CASE HitArrives
  <2>1. lldb'.cond = lldb.cond
    BY <1>0, <1>7 DEF HitArrives
  <2>2. QED
    BY <1>6, <1>7, <2>1 DEF HitArrives
<1>8. CASE CbCheckIgnore \/ CbLoadIgnore \/ CbCondition \/ CbLogMessage
  BY <1>6, <1>8 DEF CbCheckIgnore, CbLoadIgnore, CbCondition, CbLogMessage
<1>9. CASE CbStoreIgnore
  <2>1. lldb'.cond = lldb.cond
    BY <1>0, <1>9 DEF CbStoreIgnore
  <2>2. QED
    BY <1>6, <1>9, <2>1 DEF CbStoreIgnore
<1>10. CASE UNCHANGED vars
  BY <1>6, <1>10 DEF vars
<1>99. QED
  BY <1>1, <1>2, <1>3, <1>4, <1>5, <1>7, <1>8, <1>9, <1>10 DEF Next

\* set_bp_condition, a sequence of steps racing should_stop_on_bp, refines
\* the one atomic step BreakpointRegistry takes it for, for every value of
\* the constants: under AbsInfo and AbsNat its first step applies the
\* request (or fails with an out-of-range ignore count), every other step
\* of it and of the hit callback leaves the abstract settings alone.
THEOREM SettingsRefinedHolds == Spec => SettingsRefined
<1>1. Init => Abstract!Init
  BY InitRefined
<1>2. HInv /\ [Next]_vars => [Abstract!Next]_<<AbsInfo, AbsNat>>
  BY NextRefined
<1>3. Init => HInv
  BY InitHInv
<1>4. HInv /\ [Next]_vars => HInv'
  BY NextHInv
<1>5. QED
  BY <1>1, <1>2, <1>3, <1>4, PTL DEF Spec, SettingsRefined, Abstract!Spec,
     Abstract!svars
=============================================================================
