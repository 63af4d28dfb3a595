------------------------------- MODULE PipelineProofs -------------------------------
(***************************************************************************)
(* Proofs about Pipeline, for every number of buffers, of events and of      *)
(* failing ioctls: the pumps, the streams and the LED go together, and the    *)
(* pollinator monitors what they need.                                       *)
(***************************************************************************)
EXTENDS Pipeline, StreamLemmas, FiniteSetTheorems

USE MaxHostEventsAssumption, MaxFaultsAssumption

-----------------------------------------------------------------------------
(* Nodes *)

Both == {"output", "input"}

(* A node with the ends E after f failed ioctls *)
NodeOK(n, E, f) == n \in [E -> Fields] /\ \A e \in E : Coherent(n[e], f)

LeavesNode(out, E, f) == out.faults \in Nat /\ NodeOK(out.st, E, f + out.faults)

LEMMA OutcomeLeavesNode ==
  ASSUME NEW f \in Nat, NEW E, NEW n, NEW r, NEW k \in Nat, NodeOK(n, E, f + k),
         NEW out, out = Outcome(n, r, k)
  PROVE  LeavesNode(out, E, f)
<1>1. out.st = n
  BY OutcomeIs
<1>2. out.faults = k
  BY OutcomeIs
<1> QED BY <1>1, <1>2, Zenon DEF LeavesNode

LEMMA MoreFaultsNode ==
  ASSUME NEW f \in Nat, NEW k \in Nat, NEW E, NEW n, NodeOK(n, E, f)
  PROVE  NodeOK(n, E, f + k)
BY MoreFaults DEF NodeOK

LEMMA CoherentFields ==
  ASSUME NEW s, NEW f, Coherent(s, f)
  PROVE  s \in Fields
BY DEF Coherent, Stream

(* An operation on one end has come to one of its outcomes. *)
EndDone(o, n, E, e, outcomes, f) ==
  /\ LeavesNode(o, E, f)
  /\ e \notin E => o = Outcome(n, 0, 0)
  /\ e \in E => \E out \in outcomes : o.ret = out.ret /\ o.st[e] = out.st
  /\ \A x \in E \ {e} : o.st[x] = n[x]

LEMMA OnEndLeaves ==
  ASSUME NEW f \in Nat, NEW E \in SUBSET Both, NEW n, NodeOK(n, E, f), NEW e \in Both,
         NEW outcomes, e \in E => \A out \in outcomes : Leaves(out, f),
         NEW o \in OnEnd(n, e, outcomes)
  PROVE  EndDone(o, n, E, e, outcomes, f)
<1>1. DOMAIN n = E
  BY DEF NodeOK
<1>2. CASE e \notin E
  <2>1. OnEnd(n, e, outcomes) = {Outcome(n, 0, 0)}
    BY <1>1, <1>2, Zenon DEF OnEnd
  <2>2. o = Outcome(n, 0, 0)
    BY <2>1
  <2>3. LeavesNode(o, E, f)
    <3>1. NodeOK(n, E, f + 0)
      BY MoreFaultsNode
    <3> QED BY <2>2, <3>1, OutcomeLeavesNode
  <2>4. o.st = n
    BY <2>2, OutcomeIs
  <2> QED BY <1>2, <2>2, <2>3, <2>4 DEF EndDone
<1>3. CASE e \in E
  <2>1. PICK out \in outcomes : o = Outcome([n EXCEPT ![e] = out.st], out.ret, out.faults)
    BY <1>1, <1>3, Zenon DEF OnEnd
  <2> DEFINE m == [n EXCEPT ![e] = out.st]
  <2>2. out.faults \in Nat /\ Coherent(out.st, f + out.faults)
    BY <1>3 DEF Leaves
  <2>3. NodeOK(n, E, f + out.faults)
    BY <2>2, MoreFaultsNode
  <2>4. out.st \in Fields
    BY <2>2, CoherentFields
  <2>5. m \in [E -> Fields] /\ m[e] = out.st /\ \A x \in E \ {e} : m[x] = n[x]
    BY <1>3, <2>4 DEF NodeOK
  <2>6. o = Outcome(m, out.ret, out.faults)
    BY <2>1
  <2> HIDE DEF m
  <2>7. NodeOK(m, E, f + out.faults)
    BY <2>2, <2>3, <2>5 DEF NodeOK
  <2>8. LeavesNode(o, E, f)
    BY <2>2, <2>6, <2>7, OutcomeLeavesNode
  <2>9. o.st = m
    BY <2>6, OutcomeIs
  <2>10. o.ret = out.ret
    BY <2>6, OutcomeIs
  <2> QED BY <1>3, <2>5, <2>8, <2>9, <2>10 DEF EndDone
<1> QED BY <1>2, <1>3

(* Operations on both ends, one after the other, each of which leaves its     *)
(* stream coherent                                                            *)
LEMMA StopEnd ==
  ASSUME NEW f \in Nat, NEW E \in SUBSET Both, NEW n, NodeOK(n, E, f),
         NEW e \in Both, NEW o \in OnEnd(n, e, deviceStreamStop(n[e]))
  PROVE  LeavesNode(o, E, f) /\ (e \notin E => o = Outcome(n, 0, 0))
<1>1. e \in E => \A out \in deviceStreamStop(n[e]) : Leaves(out, f)
  BY StopKeeps, KeepsLeaves DEF NodeOK
<1>2. EndDone(o, n, E, e, deviceStreamStop(n[e]), f)
  BY <1>1, OnEndLeaves
<1> QED BY <1>2 DEF EndDone

EndStarted(o, n, E, e, f) ==
  /\ LeavesNode(o, E, f)
  /\ e \notin E => o = Outcome(n, 0, 0)
  /\ e \in E /\ o.ret = 0 => o.st[e].state = "STREAMING"
  /\ e \in E /\ n[e].state = "STREAMING" => o.ret # 0 /\ o.st = n
  /\ \A x \in E \ {e} : o.st[x] = n[x]

LEMMA StartEnd ==
  ASSUME NEW f \in Nat, NEW E \in SUBSET Both, NEW n, NodeOK(n, E, f),
         NEW e \in Both, NEW o \in OnEnd(n, e, deviceStreamStart(n[e]))
  PROVE  EndStarted(o, n, E, e, f)
<1>1. e \in E => \A out \in deviceStreamStart(n[e]) : Leaves(out, f)
  BY StartLeaves DEF NodeOK
<1>2. EndDone(o, n, E, e, deviceStreamStart(n[e]), f)
  BY <1>1, OnEndLeaves
<1>3. e \in E => \A out \in deviceStreamStart(n[e]) :
        /\ out.ret = 0 => out.st.state = "STREAMING"
        /\ n[e].state = "STREAMING" => out.ret # 0 /\ out.st = n[e]
  BY StartReturns DEF NodeOK
<1>4. ASSUME e \in E, n[e].state = "STREAMING" PROVE o.st = n
  <2>1. o.st[e] = n[e]
    BY <1>2, <1>3, <1>4 DEF EndDone
  <2>2. o.st \in [E -> Fields] /\ n \in [E -> Fields]
    BY <1>2 DEF EndDone, LeavesNode, NodeOK
  <2>3. \A x \in E : o.st[x] = n[x]
    BY <1>2, <2>1 DEF EndDone
  <2> QED BY <2>2, <2>3
<1> QED BY <1>2, <1>3, <1>4 DEF EndDone, EndStarted

LEMMA NodeStopLeaves ==
  ASSUME NEW f \in Nat, NEW E \in SUBSET Both, NEW n, NodeOK(n, E, f),
         NEW o \in nodeStop(n)
  PROVE  LeavesNode(o, E, f)
<1> DEFINE Outs == OnEnd(n, "output", deviceStreamStop(n["output"]))
           Ins(out) == OnEnd(out.st, "input", deviceStreamStop(out.st["input"]))
<1>0. PICK out \in Outs : \E in \in Ins(out) : \E r : o = Outcome(in.st, r, out.faults + in.faults)
  BY Zenon DEF nodeStop
<1>1a. PICK in \in Ins(out) : \E r : o = Outcome(in.st, r, out.faults + in.faults)
  BY <1>0
<1>1. PICK r : o = Outcome(in.st, r, out.faults + in.faults)
  BY <1>1a
<1>2. LeavesNode(out, E, f)
  BY StopEnd DEF Both
<1>3. out.faults \in Nat /\ f + out.faults \in Nat /\ NodeOK(out.st, E, f + out.faults)
  BY <1>2 DEF LeavesNode
<1>4. LeavesNode(in, E, f + out.faults)
  BY <1>3, StopEnd DEF Both
<1>5. /\ out.faults + in.faults \in Nat
      /\ NodeOK(in.st, E, f + (out.faults + in.faults))
  <2>1. in.faults \in Nat /\ NodeOK(in.st, E, (f + out.faults) + in.faults)
    BY <1>4 DEF LeavesNode
  <2>2. (f + out.faults) + in.faults = f + (out.faults + in.faults)
    BY <1>3, <2>1
  <2> QED BY <1>3, <2>1, <2>2
<1> QED BY <1>1, <1>5, OutcomeLeavesNode

LEMMA NodeStartLeaves ==
  ASSUME NEW f \in Nat, NEW E \in SUBSET Both, NEW n, NodeOK(n, E, f),
         NEW o \in nodeStart(n)
  PROVE  /\ LeavesNode(o, E, f)
         /\ o.ret = 0 => \A e \in E : o.st[e].state = "STREAMING"
         /\ E = {"input"} /\ n["input"].state = "STREAMING" => o.ret # 0 /\ o.st = n
<1> DEFINE Outs == OnEnd(n, "output", deviceStreamStart(n["output"]))
           Ins(out) == OnEnd(out.st, "input", deviceStreamStart(out.st["input"]))
           Undos(in) == OnEnd(in.st, "output", deviceStreamStop(in.st["output"]))
           Ends(out, in) ==
             IF in.ret = 0 THEN {Outcome(in.st, 0, out.faults + in.faults)}
             ELSE {Outcome(undo.st, in.ret, out.faults + in.faults + undo.faults) :
                     undo \in Undos(in)}
           After(out) == IF out.ret # 0 THEN {out}
                         ELSE UNION {Ends(out, in) : in \in Ins(out)}
<1>0. nodeStart(n) = UNION {After(out) : out \in Outs}
  BY Zenon DEF nodeStart
<1>1. PICK out \in Outs : o \in After(out)
  BY <1>0
<1>2. /\ LeavesNode(out, E, f)
      /\ "output" \notin E => out = Outcome(n, 0, 0)
      /\ "output" \in E /\ out.ret = 0 => out.st["output"].state = "STREAMING"
  <2>1. EndStarted(out, n, E, "output", f)
    BY StartEnd DEF Both
  <2> QED BY <2>1 DEF EndStarted
<1>3. "output" \notin E => out.ret = 0 /\ out.st = n
  BY <1>2, OutcomeIs
<1>4. CASE out.ret # 0
  <2>1. o = out
    BY <1>1, <1>4, Zenon
  <2> QED BY <1>2, <1>3, <1>4, <2>1
<1>5. ASSUME out.ret = 0, NEW in \in Ins(out), o \in Ends(out, in)
      PROVE  /\ LeavesNode(o, E, f)
             /\ o.ret = 0 => \A e \in E : o.st[e].state = "STREAMING"
             /\ E = {"input"} /\ n["input"].state = "STREAMING" => o.ret # 0 /\ o.st = n
  <2>1. out.faults \in Nat /\ f + out.faults \in Nat /\ NodeOK(out.st, E, f + out.faults)
    BY <1>2 DEF LeavesNode
  <2>2. /\ LeavesNode(in, E, f + out.faults)
        /\ "input" \notin E => in = Outcome(out.st, 0, 0)
        /\ "input" \in E /\ in.ret = 0 => in.st["input"].state = "STREAMING"
        /\ "input" \in E /\ out.st["input"].state = "STREAMING" => in.ret # 0 /\ in.st = out.st
        /\ \A x \in E \ {"input"} : in.st[x] = out.st[x]
    <3>1. EndStarted(in, out.st, E, "input", f + out.faults)
      BY <2>1, StartEnd DEF Both
    <3> QED BY <3>1 DEF EndStarted
  <2>3. /\ in.faults \in Nat /\ out.faults + in.faults \in Nat
        /\ NodeOK(in.st, E, f + (out.faults + in.faults))
    <3>1. in.faults \in Nat /\ NodeOK(in.st, E, (f + out.faults) + in.faults)
      BY <2>2 DEF LeavesNode
    <3>2. (f + out.faults) + in.faults = f + (out.faults + in.faults)
      BY <2>1, <3>1
    <3> QED BY <2>1, <3>1, <3>2
  <2>4. CASE in.ret = 0 /\ o = Outcome(in.st, 0, out.faults + in.faults)
    <3>1. LeavesNode(o, E, f)
      BY <2>3, <2>4, OutcomeLeavesNode
    <3>2. o.st = in.st
      BY <2>4, OutcomeIs
    <3>3. \A e \in E : e = "output" \/ e = "input"
      BY DEF Both
    <3>4. \A e \in E : in.st[e].state = "STREAMING"
      BY <1>2, <1>5, <2>2, <2>4, <3>3
    <3>5. ~(E = {"input"} /\ n["input"].state = "STREAMING")
      BY <1>3, <2>2, <2>4
    <3> QED BY <3>1, <3>2, <3>4, <3>5
  <2>5. ASSUME in.ret # 0, NEW undo \in Undos(in),
               o = Outcome(undo.st, in.ret, out.faults + in.faults + undo.faults)
        PROVE  /\ LeavesNode(o, E, f) /\ o.ret # 0
               /\ E = {"input"} /\ n["input"].state = "STREAMING" => o.st = n
    <3> DEFINE k == out.faults + in.faults
    <3>1. k \in Nat /\ f + k \in Nat
      BY <2>3
    <3>2. LeavesNode(undo, E, f + k) /\ ("output" \notin E => undo = Outcome(in.st, 0, 0))
      BY <2>3, <3>1, StopEnd DEF Both
    <3>3. o = Outcome(undo.st, in.ret, k + undo.faults)
      BY <2>5
    <3> HIDE DEF k
    <3>4. k + undo.faults \in Nat /\ NodeOK(undo.st, E, f + (k + undo.faults))
      <4>1. undo.faults \in Nat /\ NodeOK(undo.st, E, (f + k) + undo.faults)
        BY <3>2 DEF LeavesNode
      <4>2. (f + k) + undo.faults = f + (k + undo.faults)
        BY <3>1, <4>1
      <4> QED BY <3>1, <4>1, <4>2
    <3>5. LeavesNode(o, E, f)
      BY <3>3, <3>4, OutcomeLeavesNode
    <3>6. o.ret = in.ret /\ o.st = undo.st
      BY <3>3, OutcomeIs
    <3>7. "output" \notin E => undo.st = in.st
      BY <3>2, OutcomeIs
    <3>8. E = {"input"} /\ n["input"].state = "STREAMING" => o.st = n
      BY <1>3, <2>2, <3>6, <3>7
    <3> QED BY <2>5, <3>5, <3>6, <3>8
  <2>6. CASE in.ret = 0
    <3>1. o = Outcome(in.st, 0, out.faults + in.faults)
      BY <1>5, <2>6, Zenon
    <3> QED BY <2>4, <2>6, <3>1
  <2>7. CASE in.ret # 0
    <3>1. PICK undo \in Undos(in) :
            o = Outcome(undo.st, in.ret, out.faults + in.faults + undo.faults)
      BY <1>5, <2>7, Zenon
    <3> QED BY <2>5, <2>7, <3>1
  <2> QED BY <2>6, <2>7
<1>6. CASE out.ret = 0
  <2>1. PICK in \in Ins(out) : o \in Ends(out, in)
    BY <1>1, <1>6, Zenon
  <2> QED BY <1>5, <1>6, <2>1
<1> QED BY <1>4, <1>6

-----------------------------------------------------------------------------
(* The four nodes *)

Names == {"cam", "isp", "enc", "uvc"}

NodeEnds(k) == IF k = "cam" THEN {"output"} ELSE IF k = "uvc" THEN {"input"} ELSE Both

NodesOK(ns, f) ==
  /\ ns = [k \in Names |-> ns[k]]
  /\ \A k \in Names : NodeOK(ns[k], NodeEnds(k), f)

Runs(ns, k) == \A e \in NodeEnds(k) : ns[k][e].state = "STREAMING"

LEMMA EndsOfNodes == \A k \in Names : NodeEnds(k) \in SUBSET Both
BY DEF NodeEnds, Both

LEMMA OrderOfNodes ==
  /\ Len(Order) = 4 /\ Order[1] = "uvc"
  /\ \A j \in 1..4 : Order[j] \in Names
  /\ \A k \in Names : \E j \in 1..4 : k = Order[j]
BY DEF Order, Names

LEMMA MoreFaultsNodes ==
  ASSUME NEW f \in Nat, NEW k \in Nat, NEW ns, NodesOK(ns, f)
  PROVE  NodesOK(ns, f + k)
BY MoreFaultsNode DEF NodesOK

(* One node changes. *)
NodeChanged(ms, ns, k, out, f) ==
  /\ NodesOK(ms, f + out.faults)
  /\ ms[k] = out.st
  /\ \A j \in Names \ {k} : ms[j] = ns[j]

LEMMA NodeChanges ==
  ASSUME NEW f \in Nat, NEW ns, NodesOK(ns, f), NEW k \in Names,
         NEW out, LeavesNode(out, NodeEnds(k), f), NEW ms, ms = [ns EXCEPT ![k] = out.st]
  PROVE  NodeChanged(ms, ns, k, out, f)
<1>1. /\ ms = [j \in Names |-> ms[j]]
      /\ ms[k] = out.st
      /\ \A j \in Names \ {k} : ms[j] = ns[j]
  BY DEF NodesOK
<1>2. out.faults \in Nat /\ NodeOK(out.st, NodeEnds(k), f + out.faults)
  BY DEF LeavesNode
<1>3. NodesOK(ns, f + out.faults)
  BY <1>2, MoreFaultsNodes
<1>4. \A j \in Names : NodeOK(ms[j], NodeEnds(j), f + out.faults)
  BY <1>1, <1>2, <1>3 DEF NodesOK
<1>5. NodesOK(ms, f + out.faults)
  BY <1>1, <1>4 DEF NodesOK
<1> QED BY <1>1, <1>5 DEF NodeChanged

-----------------------------------------------------------------------------
(* The invariant: the pumps exist only while every node runs, but for a stop  *)
(* in progress; the LED follows the pumps but for the end of a start or stop. *)

Ready == {"poll", "events", "pumps", "start", "exited"}

PumpsFit ==
  /\ pumps /\ pc # "stop" => \A k \in Names : Runs(nodes, k)
  /\ pc = "start" => \A j \in 1..4 : j < step => Runs(nodes, Order[j])
  /\ pc = "start" /\ step > 1 => ~pumps
  /\ pc = "monitor" => pumps
  /\ pc = "unmonitor" => ~pumps

LedFits ==
  /\ pc \in Ready => (led.enabled <=> pumps) /\ (pumps \/ led.on)
  /\ pc \in {"stop", "unmonitor"} => ~led.enabled /\ led.on

Types ==
  /\ pumps \in BOOLEAN /\ led \in [enabled : BOOLEAN, on : BOOLEAN]
  /\ step \in 1..6 /\ pc \in Ready \cup {"stop", "monitor", "unmonitor"}
  /\ faults \in 0..MaxFaults

IInv == Types /\ NodesOK(nodes, faults) /\ PumpsFit /\ LedFits

LEMMA InitCoherent ==
  ASSUME NEW capture \in BOOLEAN
  PROVE  Coherent(streamInit(capture), 0)
BY DEF Coherent, Stream, Fields, States, streamInit

LEMMA PreparedCoherent ==
  ASSUME NEW capture \in BOOLEAN
  PROVE  Coherent(Prepared(capture), 0)
<1> DEFINE s == streamInit(capture)
           p == Prepared(capture)
<1>1. s \in Fields /\ s.queued = {} /\ ~s.on
  BY DEF Fields, States, streamInit
<1>2. p = [s EXCEPT !.state = "PREPARED", !.count = Requested,
                    !.alloc = Requested, !.made = Requested]
  BY DEF Prepared
<1> HIDE DEF s, p
<1>3. p \in Fields
  BY <1>1, <1>2, RequestedAssumption DEF Fields, States
<1>4. /\ p.state = "PREPARED" /\ p.count = Requested /\ p.alloc = Requested /\ p.made = Requested
      /\ p.queued = {} /\ ~p.on
  BY <1>1, <1>2 DEF Fields
<1>5. Coherent(p, 0)
  BY <1>3, <1>4, RequestedAssumption DEF Coherent, Stream
<1> QED BY <1>5 DEF p

LEMMA NodeIsOK ==
  ASSUME NEW E, NEW n, n = [e \in E |-> n[e]], NEW f, \A e \in E : Coherent(n[e], f)
  PROVE  NodeOK(n, E, f)
<1>1. \A e \in E : n[e] \in Fields
  BY CoherentFields
<1>2. n \in [E -> Fields]
  BY <1>1
<1> QED BY <1>2 DEF NodeOK

LEMMA Initially == Init => IInv
<1> SUFFICES ASSUME Init PROVE IInv
  OBVIOUS
<1>1. Types /\ PumpsFit /\ LedFits
  <2>1. ~pumps /\ pumps \in BOOLEAN /\ led = ledInit /\ pc = "poll" /\ step = 1 /\ faults = 0
    BY DEF Init
  <2>2. led \in [enabled : BOOLEAN, on : BOOLEAN] /\ ~led.enabled /\ led.on
    BY <2>1 DEF ledInit
  <2> QED BY <2>1, <2>2 DEF Types, PumpsFit, LedFits, Ready
<1>2. nodes = [k \in Names |-> nodes[k]]
  BY DEF Init, Names
<1> DEFINE P == Prepared(TRUE)
           Q == Prepared(FALSE)
           U == streamInit(FALSE)
<1>3. Coherent(P, 0) /\ Coherent(Q, 0) /\ Coherent(U, 0)
  BY PreparedCoherent, InitCoherent
<1>4. /\ nodes["cam"] = [output |-> P]
      /\ nodes["isp"] = [output |-> P, input |-> Q]
      /\ nodes["enc"] = [output |-> P, input |-> Q]
      /\ nodes["uvc"] = [input |-> U]
  BY DEF Init
<1> HIDE DEF P, Q, U
<1>5. ASSUME NEW n, n = [output |-> P] PROVE NodeOK(n, {"output"}, 0)
  <2>1. n = [e \in {"output"} |-> n[e]] /\ n["output"] = P
    BY <1>5
  <2> QED BY <1>3, <2>1, NodeIsOK
<1>6. ASSUME NEW n, n = [output |-> P, input |-> Q] PROVE NodeOK(n, Both, 0)
  <2>1. n = [e \in Both |-> n[e]] /\ n["output"] = P /\ n["input"] = Q
    BY <1>6 DEF Both
  <2>2. \A e \in Both : e = "output" \/ e = "input"
    BY DEF Both
  <2> QED BY <1>3, <2>1, <2>2, NodeIsOK
<1>7. ASSUME NEW n, n = [input |-> U] PROVE NodeOK(n, {"input"}, 0)
  <2>1. n = [e \in {"input"} |-> n[e]] /\ n["input"] = U
    BY <1>7
  <2> QED BY <1>3, <2>1, NodeIsOK
<1>8. NodesOK(nodes, 0)
  <2>1. /\ NodeOK(nodes["cam"], {"output"}, 0)
        /\ NodeOK(nodes["isp"], Both, 0)
        /\ NodeOK(nodes["enc"], Both, 0)
        /\ NodeOK(nodes["uvc"], {"input"}, 0)
    BY <1>4, <1>5, <1>6, <1>7
  <2> QED BY <1>2, <2>1 DEF NodesOK, Names, NodeEnds
<1>9. faults = 0
  BY DEF Init
<1> QED BY <1>1, <1>8, <1>9 DEF IInv

-----------------------------------------------------------------------------
(* The steps *)

(* The steps that leave the streams, the pumps and the place in a start or    *)
(* stop alone, at the cost of an ioctl that fails or not *)
LEMMA WaitKeeps ==
  ASSUME IInv, UNCHANGED <<nodes, pumps, step>>,
         faults' = faults \/ (faults < MaxFaults /\ faults' = faults + 1),
         pc \in {"poll", "events", "pumps"}, pc' \in {"poll", "events", "pumps", "exited"},
         led' \in [enabled : BOOLEAN, on : BOOLEAN], led'.enabled = led.enabled,
         led.enabled \/ led'.on = led.on
  PROVE  IInv'
<1>1. faults \in 0..MaxFaults /\ faults' \in 0..MaxFaults
  BY DEF IInv, Types
<1>2. Types'
  BY <1>1 DEF IInv, Types, Ready
<1>3. NodesOK(nodes, faults)'
  <2>1. NodesOK(nodes, faults) /\ faults \in Nat
    BY <1>1 DEF IInv
  <2>2. NodesOK(nodes, faults + 1)
    BY <2>1, MoreFaultsNodes
  <2> QED BY <2>1, <2>2
<1>4. PumpsFit'
  <2>1. \A k \in Names : Runs(nodes, k)' <=> Runs(nodes, k)
    BY DEF Runs
  <2> QED BY <2>1 DEF IInv, PumpsFit
<1>5. LedFits'
  BY DEF IInv, LedFits, Ready
<1> QED BY <1>2, <1>3, <1>4, <1>5 DEF IInv

LEMMA PollKeeps == IInv /\ (Poll \/ PollFailed) => IInv'
<1> SUFFICES ASSUME IInv, Poll \/ PollFailed PROVE IInv'
  OBVIOUS
<1>1. /\ UNCHANGED <<nodes, pumps, step>> /\ pc = "poll"
      /\ pc' \in {"events", "pumps", "exited"}
      /\ faults' = faults \/ (faults < MaxFaults /\ faults' = faults + 1)
  BY DEF Poll, PollFailed
<1>2. led \in [enabled : BOOLEAN, on : BOOLEAN]
  BY DEF IInv, Types
<1>3. PICK half \in {0, 1} : led' = ledBlinkUpdate(led, half)
  BY DEF Poll, PollFailed
<1>4. /\ led' \in [enabled : BOOLEAN, on : BOOLEAN] /\ led'.enabled = led.enabled
      /\ led.enabled \/ led'.on = led.on
  BY <1>2, <1>3 DEF ledBlinkUpdate, ledUpdate
<1> QED BY <1>1, <1>4, WaitKeeps

LEMMA IdleKeeps ==
  ASSUME IInv, UNCHANGED <<nodes, pumps, step, led>>,
         faults' = faults \/ (faults < MaxFaults /\ faults' = faults + 1),
         pc \in {"poll", "events", "pumps"}, pc' \in {"poll", "events", "pumps"}
  PROVE  IInv'
BY WaitKeeps DEF IInv, Types

(* Preparing a stream that streams leaves it alone, with an error.            *)
LEMMA PrepareStreaming ==
  ASSUME NEW s, s.state = "STREAMING", NEW out \in deviceStreamPrepare(s)
  PROVE  out.st = s
<1>1. deviceStreamPrepare(s) = {Outcome(s, -EBUSY, 0)}
  BY Zenon DEF deviceStreamPrepare
<1>2. out = Outcome(s, -EBUSY, 0)
  BY <1>1
<1> QED BY <1>2, OutcomeIs

LEMMA StreamonKeeps == IInv /\ EventStreamon => IInv'
<1> SUFFICES ASSUME IInv, EventStreamon PROVE IInv'
  OBVIOUS
<1>1. PICK out \in deviceStreamPrepare(nodes["uvc"]["input"]) :
        Spends(out) /\ nodes' = [nodes EXCEPT !.uvc.input = out.st]
  BY DEF EventStreamon, uvcPrepare
<1>2. faults \in Nat /\ NodesOK(nodes, faults) /\ NodeOK(nodes["uvc"], {"input"}, faults)
  <2>1. "uvc" \in Names /\ NodeEnds("uvc") = {"input"}
    BY DEF Names, NodeEnds
  <2> QED BY <2>1 DEF IInv, Types, NodesOK
<1>3. Leaves(out, faults)
  BY <1>2, PrepareKeeps, KeepsLeaves DEF NodeOK
<1> DEFINE n == [nodes["uvc"] EXCEPT !["input"] = out.st]
<1>4. out.faults \in Nat /\ Coherent(out.st, faults + out.faults)
  BY <1>3 DEF Leaves
<1>5. n \in [{"input"} -> Fields] /\ n["input"] = out.st
  BY <1>2, <1>4, CoherentFields DEF NodeOK
<1>6. nodes' = [nodes EXCEPT !["uvc"] = n]
  BY <1>1
<1> HIDE DEF n
<1>7. NodeOK(n, {"input"}, faults + out.faults)
  BY <1>4, <1>5 DEF NodeOK
<1>8. PICK o : o = Outcome(n, 0, out.faults)
  OBVIOUS
<1>9. LeavesNode(o, {"input"}, faults)
  BY <1>2, <1>4, <1>7, <1>8, OutcomeLeavesNode
<1>10. o.st = n /\ o.faults = out.faults
  BY <1>8, OutcomeIs
<1>11. /\ NodesOK(nodes', faults + out.faults)
      /\ nodes'["uvc"] = n
      /\ \A j \in Names \ {"uvc"} : nodes'[j] = nodes[j]
  <2>1. "uvc" \in Names /\ NodeEnds("uvc") = {"input"}
    BY DEF Names, NodeEnds
  <2>2. nodes' = [nodes EXCEPT !["uvc"] = o.st]
    BY <1>6, <1>10
  <2>3. NodeChanged(nodes', nodes, "uvc", o, faults)
    BY <1>2, <1>9, <2>1, <2>2, NodeChanges
  <2> QED BY <1>10, <2>3 DEF NodeChanged
<1>12. Types' /\ faults' = faults + out.faults
  BY <1>1, <1>4 DEF IInv, Types, Ready, EventStreamon, Spends
<1>13. pumps => \A k \in Names : Runs(nodes', k)
  <2> SUFFICES ASSUME pumps, NEW k \in Names PROVE Runs(nodes', k)
    OBVIOUS
  <2>1. Runs(nodes, k) /\ Runs(nodes, "uvc")
    BY DEF IInv, PumpsFit, EventStreamon, Names
  <2>2. nodes["uvc"]["input"].state = "STREAMING"
    BY <2>1 DEF Runs, NodeEnds
  <2>3. out.st = nodes["uvc"]["input"]
    BY <2>2, PrepareStreaming
  <2>4. CASE k = "uvc"
    BY <1>5, <1>11, <2>2, <2>3, <2>4 DEF Runs, NodeEnds
  <2>5. CASE k # "uvc"
    BY <1>11, <2>1, <2>5 DEF Runs
  <2> QED BY <2>4, <2>5
<1>14. PumpsFit'
  BY <1>13 DEF IInv, PumpsFit, EventStreamon
<1>15. LedFits'
  BY DEF IInv, LedFits, EventStreamon, Ready
<1> QED BY <1>11, <1>12, <1>14, <1>15 DEF IInv

LEMMA StreamoffKeeps == IInv /\ EventStreamoff => IInv'
<1> SUFFICES ASSUME IInv, EventStreamoff PROVE IInv'
  OBVIOUS
<1>1. /\ UNCHANGED <<nodes, pumps, faults>> /\ pc' = "stop" /\ step' = 1
      /\ led' = ledBlinkEnable(led, FALSE)
  BY DEF EventStreamoff
<1>2. led' \in [enabled : BOOLEAN, on : BOOLEAN] /\ ~led'.enabled /\ led'.on
  BY <1>1 DEF IInv, Types, ledBlinkEnable, ledUpdate
<1>3. Types'
  <2>1. pumps' \in BOOLEAN
    BY <1>1 DEF IInv, Types
  <2>2. step' \in 1..6 /\ faults' \in 0..MaxFaults
    BY <1>1 DEF IInv, Types
  <2> QED BY <1>1, <1>2, <2>1, <2>2 DEF Types
<1>4. PumpsFit' /\ LedFits'
  BY <1>1, <1>2 DEF PumpsFit, LedFits, Ready
<1> QED BY <1>1, <1>3, <1>4 DEF IInv

(* A node is started or stopped.                                              *)
LEMMA NodeStep ==
  ASSUME IInv, NEW k \in Names, NEW out, LeavesNode(out, NodeEnds(k), faults),
         faults + out.faults <= MaxFaults, faults' = faults + out.faults,
         nodes' = [nodes EXCEPT ![k] = out.st]
  PROVE  NodeChanged(nodes', nodes, k, out, faults) /\ faults' \in 0..MaxFaults
<1>1. faults \in Nat /\ NodesOK(nodes, faults)
  BY DEF IInv, Types
<1>2. out.faults \in Nat
  BY DEF LeavesNode
<1>3. NodeChanged(nodes', nodes, k, out, faults)
  BY <1>1, NodeChanges
<1> QED BY <1>1, <1>2, <1>3

LEMMA StartNodeKeeps == IInv /\ StartNode => IInv'
<1> SUFFICES ASSUME IInv, StartNode PROVE IInv'
  OBVIOUS
<1> DEFINE k == Order[step]
<1>1. PICK out \in nodeStart(nodes[k]) :
        /\ Spends(out)
        /\ nodes' = [nodes EXCEPT ![k] = out.st]
        /\ IF out.ret = 0 THEN step' = step + 1 /\ UNCHANGED pc
                          ELSE pc' = "events" /\ step' = 1
  BY DEF StartNode
<1>2. /\ pc = "start" /\ step \in 1..4 /\ UNCHANGED <<pumps, led>>
      /\ faults + out.faults <= MaxFaults /\ faults' = faults + out.faults
  BY <1>1, OrderOfNodes DEF StartNode, IInv, Types, Spends
<1>3. k \in Names /\ (step = 1 => k = "uvc")
  BY <1>2, OrderOfNodes
<1> HIDE DEF k
<1>4. /\ LeavesNode(out, NodeEnds(k), faults)
      /\ out.ret = 0 => \A e \in NodeEnds(k) : out.st[e].state = "STREAMING"
      /\ NodeEnds(k) = {"input"} /\ nodes[k]["input"].state = "STREAMING"
           => out.ret # 0 /\ out.st = nodes[k]
  <2>1. NodeOK(nodes[k], NodeEnds(k), faults) /\ faults \in Nat
    BY <1>3 DEF IInv, NodesOK, Types
  <2>2. NodeEnds(k) \in SUBSET Both
    BY <1>3, EndsOfNodes
  <2> QED BY <2>1, <2>2, NodeStartLeaves
<1>5. /\ NodeChanged(nodes', nodes, k, out, faults)
      /\ faults' \in 0..MaxFaults
  BY <1>1, <1>2, <1>3, <1>4, NodeStep
<1>6. /\ NodesOK(nodes', faults') /\ nodes'[k] = out.st
      /\ \A j \in Names \ {k} : nodes'[j] = nodes[j]
  BY <1>2, <1>5 DEF NodeChanged
<1>7. Types'
  BY <1>1, <1>2, <1>5 DEF IInv, Types, Ready
<1>8. LedFits'
  BY <1>1, <1>2 DEF IInv, LedFits, Ready
<1>9. pumps => out.ret # 0 /\ out.st = nodes[k]
  <2> SUFFICES ASSUME pumps PROVE out.ret # 0 /\ out.st = nodes[k]
    OBVIOUS
  <2>1. step = 1 /\ Runs(nodes, "uvc")
    BY <1>2 DEF IInv, PumpsFit, Names
  <2>2. k = "uvc"
    BY <1>3, <2>1
  <2> QED BY <1>4, <2>1, <2>2 DEF Runs, NodeEnds
<1>10. \A j \in Names : pumps /\ Runs(nodes, j) => Runs(nodes', j)
  BY <1>6, <1>9 DEF Runs
<1>11. out.ret = 0 => Runs(nodes', k) /\ \A j \in Names : Runs(nodes, j) => Runs(nodes', j)
  BY <1>4, <1>6 DEF Runs
<1>12. PumpsFit'
  <2>1. CASE out.ret = 0
    <3>1. step' = step + 1 /\ pc' = "start" /\ ~pumps'
      BY <1>1, <1>2, <1>9, <2>1
    <3>2. \A j \in 1..4 : j < step' => Runs(nodes', Order[j])
      <4> SUFFICES ASSUME NEW j \in 1..4, j < step + 1 PROVE Runs(nodes', Order[j])
        BY <3>1
      <4>1. CASE j = step
        BY <1>11, <2>1, <4>1 DEF k
      <4>2. CASE j < step
        <5>1. Runs(nodes, Order[j])
          BY <1>2, <4>2 DEF IInv, PumpsFit
        <5> QED BY <1>11, <2>1, <5>1, OrderOfNodes
      <4> QED BY <1>2, <4>1, <4>2
    <3> QED BY <3>1, <3>2 DEF PumpsFit
  <2>2. CASE out.ret # 0
    <3>1. pc' = "events" /\ pumps' = pumps
      BY <1>1, <1>2, <2>2
    <3>2. pumps => \A j \in Names : Runs(nodes', j)
      BY <1>2, <1>10 DEF IInv, PumpsFit
    <3> QED BY <3>1, <3>2 DEF PumpsFit
  <2> QED BY <2>1, <2>2
<1> QED BY <1>6, <1>7, <1>8, <1>12 DEF IInv

LEMMA StartPumpsKeeps == IInv /\ StartPumps => IInv'
<1> SUFFICES ASSUME IInv, StartPumps PROVE IInv'
  OBVIOUS
<1>1. /\ pc = "start" /\ step > 4 /\ pumps' = TRUE /\ pc' = "monitor" /\ step' = 1
      /\ UNCHANGED <<nodes, led, faults>>
  BY OrderOfNodes DEF StartPumps
<1>2. \A j \in Names : Runs(nodes, j)
  <2>1. \A j \in 1..4 : Runs(nodes, Order[j])
    BY <1>1 DEF IInv, PumpsFit, Types
  <2> QED BY <2>1, OrderOfNodes
<1>3. Types' /\ LedFits'
  BY <1>1 DEF IInv, Types, LedFits, Ready
<1>4. PumpsFit'
  <2>1. \A j \in Names : Runs(nodes', j)
    BY <1>1, <1>2
  <2> QED BY <1>1, <2>1 DEF PumpsFit
<1> QED BY <1>1, <1>3, <1>4 DEF IInv

LEMMA StopNodeKeeps == IInv /\ StopNode => IInv'
<1> SUFFICES ASSUME IInv, StopNode PROVE IInv'
  OBVIOUS
<1> DEFINE k == Order[step]
<1>1. PICK out \in nodeStop(nodes[k]) : Spends(out) /\ nodes' = [nodes EXCEPT ![k] = out.st]
  BY DEF StopNode
<1>2. /\ pc = "stop" /\ pc' = "stop" /\ step \in 1..4 /\ step' = step + 1
      /\ UNCHANGED <<pumps, led>>
      /\ faults + out.faults <= MaxFaults /\ faults' = faults + out.faults
  BY <1>1, OrderOfNodes DEF StopNode, IInv, Types, Spends
<1>3. k \in Names
  BY <1>2, OrderOfNodes
<1> HIDE DEF k
<1>4. LeavesNode(out, NodeEnds(k), faults)
  <2>1. NodeOK(nodes[k], NodeEnds(k), faults) /\ faults \in Nat
    BY <1>3 DEF IInv, NodesOK, Types
  <2>2. NodeEnds(k) \in SUBSET Both
    BY <1>3, EndsOfNodes
  <2> QED BY <2>1, <2>2, NodeStopLeaves
<1>5. NodeChanged(nodes', nodes, k, out, faults) /\ faults' \in 0..MaxFaults
  BY <1>1, <1>2, <1>3, <1>4, NodeStep
<1>6. NodesOK(nodes', faults')
  BY <1>2, <1>5 DEF NodeChanged
<1>7. Types'
  BY <1>2, <1>5 DEF IInv, Types, Ready
<1>8. PumpsFit' /\ LedFits'
  BY <1>2 DEF IInv, PumpsFit, LedFits, Ready
<1> QED BY <1>6, <1>7, <1>8 DEF IInv

LEMMA StopPumpsKeeps == IInv /\ StopPumps => IInv'
<1> SUFFICES ASSUME IInv, StopPumps PROVE IInv'
  OBVIOUS
<1>1. /\ pc = "stop" /\ pumps' = FALSE /\ pc' = "unmonitor" /\ step' = 1
      /\ UNCHANGED <<nodes, led, faults>>
  BY DEF StopPumps
<1>2. Types'
  <2>1. led' \in [enabled : BOOLEAN, on : BOOLEAN] /\ faults' \in 0..MaxFaults
    BY <1>1 DEF IInv, Types
  <2>2. pumps' \in BOOLEAN
    BY <1>1
  <2>3. step' \in 1..6 /\ pc' \in Ready \cup {"stop", "monitor", "unmonitor"}
    BY <1>1
  <2> QED BY <2>1, <2>2, <2>3 DEF Types
<1>3. PumpsFit'
  BY <1>1 DEF PumpsFit
<1>4. LedFits'
  BY <1>1 DEF IInv, LedFits, Ready
<1> QED BY <1>1, <1>2, <1>3, <1>4 DEF IInv

(* The steps of the registrations, and those of the host *)
LEMMA SameRuns ==
  ASSUME UNCHANGED nodes
  PROVE  \A k : Runs(nodes, k)' <=> Runs(nodes, k)
BY DEF Runs

LEMMA RegisterKeeps == IInv /\ Register => IInv'
<1> SUFFICES ASSUME IInv, Register PROVE IInv'
  OBVIOUS
<1>1. /\ pc \in {"monitor", "unmonitor"} /\ step <= 5 /\ step' = step + 1
      /\ UNCHANGED <<nodes, pumps, led, pc, faults>>
  <2>1. DOMAIN Registrations = {"monitor", "unmonitor"}
    BY DEF Registrations
  <2>2. Len(Registrations["monitor"]) = 5 /\ Len(Registrations["unmonitor"]) = 5
    BY DEF Registrations
  <2> QED BY <2>1, <2>2 DEF Register
<1>2. Types' /\ LedFits'
  BY <1>1 DEF IInv, Types, LedFits, Ready
<1>3. PumpsFit'
  BY <1>1, SameRuns DEF IInv, PumpsFit
<1> QED BY <1>1, <1>2, <1>3 DEF IInv

LEMMA RegisterDoneKeeps == IInv /\ RegisterDone => IInv'
<1> SUFFICES ASSUME IInv, RegisterDone PROVE IInv'
  OBVIOUS
<1>1. /\ pc \in {"monitor", "unmonitor"} /\ pc' = "events" /\ step' = 1
      /\ led' = IF pc = "monitor" THEN ledBlinkEnable(led, TRUE) ELSE led
      /\ UNCHANGED <<nodes, pumps, faults>>
  <2>1. DOMAIN Registrations = {"monitor", "unmonitor"}
    BY DEF Registrations
  <2> QED BY <2>1 DEF RegisterDone
<1>2. /\ led' \in [enabled : BOOLEAN, on : BOOLEAN]
      /\ pc = "monitor" => led'.enabled
      /\ pc = "unmonitor" => ~led'.enabled /\ led'.on
  BY <1>1 DEF IInv, Types, LedFits, ledBlinkEnable, ledUpdate
<1>3. Types' /\ LedFits'
  <2>1. pumps' \in BOOLEAN /\ (pc = "monitor" => pumps') /\ (pc = "unmonitor" => ~pumps')
    BY <1>1 DEF IInv, Types, PumpsFit
  <2>2. step' \in 1..6 /\ faults' \in 0..MaxFaults
    BY <1>1 DEF IInv, Types
  <2>3. Types'
    BY <1>1, <1>2, <2>1, <2>2 DEF Types, Ready
  <2>4. LedFits'
    BY <1>1, <1>2, <2>1 DEF LedFits, Ready
  <2> QED BY <2>3, <2>4
<1>4. PumpsFit'
  BY <1>1, SameRuns DEF IInv, PumpsFit
<1> QED BY <1>1, <1>3, <1>4 DEF IInv

LEMMA SameKeeps ==
  ASSUME IInv, UNCHANGED <<nodes, pumps, led, pc, step, faults>>
  PROVE  IInv'
<1>1. Types' /\ LedFits'
  BY DEF IInv, Types, LedFits
<1>2. PumpsFit'
  BY SameRuns DEF IInv, PumpsFit
<1> QED BY <1>1, <1>2 DEF IInv

LEMMA Invariant == IInv /\ [Next]_vars => IInv'
<1> SUFFICES ASSUME IInv, [Next]_vars PROVE IInv'
  OBVIOUS
<1>1. CASE RunPumps
  BY <1>1, IdleKeeps DEF RunPumps
<1>2. CASE EventsDone \/ EventsFailed \/ EventSetup
  BY <1>2, IdleKeeps DEF EventsDone, EventsFailed, EventSetup
<1>3. CASE HostToggle \/ HostControl
  BY <1>3, SameKeeps DEF HostToggle, HostControl, HostEvent
<1>4. CASE Exited \/ UNCHANGED vars
  BY <1>4, SameKeeps DEF Exited, vars
<1> QED BY <1>1, <1>2, <1>3, <1>4, PollKeeps, StreamonKeeps, StreamoffKeeps,
           StartNodeKeeps, StartPumpsKeeps, StopNodeKeeps, StopPumpsKeeps, RegisterKeeps,
           RegisterDoneKeeps DEF Next, pipelineProcess

-----------------------------------------------------------------------------
(* Theorems *)

(* pumpPump runs only while every stream it moves buffers between streams, in *)
(* the program's eyes and in the driver's, after any failed starts and stops  *)
(* and any events (main.c:242-297, 353).                                      *)
THEOREM PumpsMoveLiveStreams == Spec => []PumpsOnLiveStreams
<1>1. IInv => PumpsOnLiveStreams
  <2> SUFFICES ASSUME IInv, pumps, pc # "stop", NEW s \in Streams
               PROVE  s.state = "STREAMING" /\ s.on
    BY DEF PumpsOnLiveStreams, AllStreaming
  <2>1. NodesOK(nodes, faults) /\ \A k \in Names : Runs(nodes, k)
    BY DEF IInv, PumpsFit
  <2>2. PICK k \in Names : s \in Range(nodes[k])
    BY <2>1 DEF Streams, NodesOK
  <2>3. PICK e \in NodeEnds(k) : s = nodes[k][e]
    BY <2>1, <2>2 DEF Range, NodesOK, NodeOK
  <2> QED BY <2>1, <2>3 DEF Runs, NodesOK, NodeOK, Coherent
<1> QED BY <1>1, Initially, Invariant, PTL DEF Spec

(* pipelineStart creates pumps only where there are none (main.c:243-245).    *)
THEOREM PumpsNeverLeak == Spec => []NoPumpLeak
<1>1. IInv => NoPumpLeak
  BY DEF IInv, PumpsFit, NoPumpLeak
<1> QED BY <1>1, Initially, Invariant, PTL DEF Spec

(* The LED blinks just while there are pumps and is lit otherwise (main.c:    *)
(* 283, 290; Led.c).                                                          *)
THEOREM LedTellsTheUser == Spec => []LedShowsPumps
<1>1. IInv => LedShowsPumps
  BY DEF IInv, LedFits, Ready, LedShowsPumps
<1> QED BY <1>1, Initially, Invariant, PTL DEF Spec

-----------------------------------------------------------------------------
(* The pollinator *)

Growing == INSTANCE ArrayProofs WITH Uninit <- Uninitialized

Fds == {CamFd, IspInFd, IspOutFd, EncFd, UvcFd}

BitNames == {CAM_TO_ISP, ISP_TO_ENC, ENC_TO_UVC, UVC_EVENTS}

Slot == [fd : Fds \cup {NoFd}, bits : SUBSET BitNames]

(* An array of slots that were written and have their memory, no more of them *)
(* than there are descriptors *)
Slotted(a) ==
  /\ a \in Growing!Arrays(Slot) /\ a.size <= 5
  /\ \A i \in 0..a.size-1 : a.data[i] \in Slot

(* The table and the epoll set point at each other. *)
Linked(a, epoll) ==
  /\ DOMAIN epoll \subseteq Fds
  /\ \A fd \in DOMAIN epoll : /\ epoll[fd].index \in 0..a.size-1 /\ a.data[epoll[fd].index].fd = fd
                              /\ epoll[fd].events # {}
  /\ \A i \in 0..a.size-1 : a.data[i].fd # NoFd =>
       a.data[i].fd \in DOMAIN epoll /\ epoll[a.data[i].fd].index = i

Table(p) == Slotted(p.fds) /\ Linked(p.fds, p.epoll)

(* What a descriptor is monitored for, as in Registrations *)
Monitored(p, fd) ==
  IF fd \in DOMAIN p.epoll THEN <<p.epoll[fd].events, p.fds.data[p.epoll[fd].index].bits>>
                           ELSE <<{}, {}>>

LEMMA FdsAre == Fds = {3, 4, 5, 6, 7} /\ NoFd = -1 /\ NoFd \notin Fds
BY DEF Fds, CamFd, IspInFd, IspOutFd, EncFd, UvcFd, NoFd

LEMMA ArrayIs ==
  ASSUME NEW a, Slotted(a)
  PROVE  /\ a = [data |-> a.data, size |-> a.size, capacity |-> a.capacity, item_size |-> a.item_size]
         /\ a.size \in 0..5 /\ a.capacity \in Nat /\ a.item_size \in Nat \ {0} /\ a.size <= a.capacity
         /\ a.data \in [0..a.capacity-1 -> Slot \cup {Uninitialized}]
BY DEF Slotted, Growing!Arrays

LEMMA ArrayMade ==
  ASSUME NEW a, NEW d, NEW n \in Nat, NEW c \in Nat, NEW z \in Nat \ {0}, n <= c,
         d \in [0..c-1 -> Slot \cup {Uninitialized}],
         a = [data |-> d, size |-> n, capacity |-> c, item_size |-> z]
  PROVE  a \in Growing!Arrays(Slot)
<1>1. d \in UNION {[0..m-1 -> Slot \cup {Uninitialized}] : m \in Nat}
  OBVIOUS
<1>2. a.data = d /\ a.size = n /\ a.capacity = c /\ a.item_size = z
  OBVIOUS
<1>3. a \in [data : UNION {[0..m-1 -> Slot \cup {Uninitialized}] : m \in Nat}, size : Nat,
             capacity : Nat, item_size : Nat \ {0}]
  BY <1>1
<1> QED BY <1>2, <1>3 DEF Growing!Arrays

(* The descriptors of the epoll set are those of the table, each once.        *)
LEMMA FindsLinked ==
  ASSUME NEW p, Table(p), NEW fd \in Fds
  PROVE  /\ fd \in DOMAIN p.epoll => findPfd(p, fd) = p.epoll[fd].index
         /\ fd \notin DOMAIN p.epoll => findPfd(p, fd) = -1
<1> DEFINE At == {i \in Slots(p) : p.fds.data[i].fd = fd}
<1>1. fd # NoFd /\ p.fds.size \in Nat
  BY FdsAre, ArrayIs DEF Table
<1>2. CASE fd \in DOMAIN p.epoll
  <2> DEFINE k == p.epoll[fd].index
  <2>1. k \in At /\ k \in Nat
    BY <1>1, <1>2 DEF Table, Linked, Slots
  <2>2. \A i \in At : i = k
    BY <1>1 DEF Table, Linked, Slots
  <2> HIDE DEF k
  <2>3. At = {k}
    BY <2>1, <2>2
  <2> HIDE DEF At
  <2>4. Min(At) = k
    BY <2>1, <2>3 DEF Min
  <2>5. findPfd(p, fd) = k
    BY <2>1, <2>4 DEF findPfd, At
  <2> QED BY <1>2, <2>5 DEF k
<1>3. CASE fd \notin DOMAIN p.epoll
  <2>1. At = {}
    BY <1>1, <1>3 DEF Table, Linked, Slots
  <2> QED BY <1>3, <2>1 DEF findPfd
<1> QED BY <1>2, <1>3

LEMMA TableAgreement ==
  ASSUME NEW p, Table(p)
  PROVE  TableAgrees(p)
<1>1. NoFd \notin Fds /\ DOMAIN p.epoll \subseteq Fds
  BY FdsAre DEF Table, Linked
<1>2. DOMAIN p.epoll = {p.fds.data[i].fd : i \in Slots(p)} \ {NoFd}
  BY <1>1 DEF Table, Linked, Slots
<1>3. \A fd \in DOMAIN p.epoll : p.epoll[fd].index = findPfd(p, fd)
  BY <1>1, FindsLinked
<1>4. ASSUME NEW i \in Slots(p), NEW j \in Slots(p), p.fds.data[i].fd = p.fds.data[j].fd,
             p.fds.data[i].fd # NoFd
      PROVE  i = j
  BY <1>4 DEF Table, Linked, Slots
<1> QED BY <1>2, <1>3, <1>4 DEF TableAgrees

(* Five slots hold the five descriptors, so that one not monitored finds room. *)
LEMMA RoomLeft ==
  ASSUME NEW p, Table(p), NEW fd \in Fds, fd \notin DOMAIN p.epoll,
         \A i \in Slots(p) : p.fds.data[i].fd # NoFd
  PROVE  p.fds.size < 5
<1> DEFINE g(i) == p.fds.data[i].fd
<1>1. p.fds.size \in 0..5
  BY ArrayIs DEF Table
<1>2. \A i \in Slots(p) : g(i) \in Fds \ {fd} /\ p.epoll[g(i)].index = i
  BY DEF Table, Linked, Slots
<1> SUFFICES ASSUME p.fds.size = 5 PROVE FALSE
  BY <1>1
<1>3. 0 \in Slots(p) /\ 1 \in Slots(p) /\ 2 \in Slots(p) /\ 3 \in Slots(p) /\ 4 \in Slots(p)
  BY DEF Slots
<1> HIDE DEF g
<1>4. \A i, j \in Slots(p) : g(i) = g(j) => i = j
  BY <1>2
<1>5. g(0) # g(1) /\ g(0) # g(2) /\ g(0) # g(3) /\ g(0) # g(4) /\ g(1) # g(2) /\ g(1) # g(3) /\ g(1) # g(4)
      /\ g(2) # g(3) /\ g(2) # g(4) /\ g(3) # g(4)
  BY <1>3, <1>4
<1> QED BY <1>2, <1>3, <1>5, FdsAre

(* The slot that a descriptor gets: its own, or one that no other has; the    *)
(* other slots are kept.                                                      *)
Chosen(p, fd, slot) ==
  /\ slot.fds \in Growing!Arrays(Slot) /\ slot.fds.size <= 5 /\ slot.fds.size >= p.fds.size
  /\ slot.index \in 0..slot.fds.size-1
  /\ \A i \in 0..slot.fds.size-1 : i # slot.index =>
       i \in Slots(p) /\ slot.fds.data[i] = p.fds.data[i]
  /\ slot.index \in Slots(p) => p.fds.data[slot.index].fd \in {NoFd, fd}
  /\ fd \in DOMAIN p.epoll => slot.index = p.epoll[fd].index

LEMMA AppendSame ==
  ASSUME NEW a, NEW item
  PROVE  arrayAppend(a, item) = Growing!arrayAppend(a, item)
BY DEF arrayAppend, Growing!arrayAppend, arrayReserve, Growing!arrayReserve, Growth, Growing!Growth

LEMMA Allocates ==
  ASSUME NEW p, Table(p), NEW fd \in Fds, fd \notin DOMAIN p.epoll
  PROVE  Chosen(p, fd, allocPfd(p))
<1> DEFINE Free == {i \in Slots(p) : p.fds.data[i].fd < 0}
           s == allocPfd(p)
<1>1. /\ p.fds.size \in 0..5 /\ p.fds \in Growing!Arrays(Slot)
      /\ \A i \in Slots(p) : p.fds.data[i] \in Slot
  BY ArrayIs DEF Table, Slotted, Slots
<1>2. \A i \in Slots(p) : p.fds.data[i].fd < 0 <=> p.fds.data[i].fd = NoFd
  BY <1>1, FdsAre DEF Slot
<1>3. CASE Free = {}
  <2> DEFINE b == arrayAppend(p.fds, Uninitialized)
  <2>1. \A i \in Slots(p) : p.fds.data[i].fd # NoFd
    BY <1>2, <1>3
  <2>2. p.fds.size < 5
    BY <2>1, RoomLeft
  <2>3. /\ b \in Growing!Arrays(Slot) /\ b.size = p.fds.size + 1
        /\ \A i \in 0..p.fds.size-1 : b.data[i] = p.fds.data[i]
    BY <1>1, AppendSame, Growing!AppendKeeps
  <2>4. s = [index |-> p.fds.size, fds |-> b]
    BY <1>3, Zenon DEF allocPfd
  <2> HIDE DEF b, s
  <2>5. s.index = p.fds.size /\ s.fds = b
    BY <2>4
  <2> QED BY <1>1, <2>2, <2>3, <2>5 DEF Chosen, Slots, s
<1>4. CASE Free # {}
  <2>1. Free \subseteq Nat
    BY <1>1 DEF Slots
  <2>2. Min(Free) \in Free
    <3> HIDE DEF Free
    <3>1. \E n \in Free : \A m \in Free : n <= m
      BY <1>4, <2>1, LeastNumber
    <3> QED BY <3>1, Zenon DEF Min
  <2>3. s = [index |-> Min(Free), fds |-> p.fds]
    BY <1>4, Zenon DEF allocPfd
  <2>4. Min(Free) \in Slots(p) /\ p.fds.data[Min(Free)].fd = NoFd
    BY <1>2, <2>2
  <2> HIDE DEF Free, s
  <2>5. s.index = Min(Free) /\ s.fds = p.fds
    BY <2>3
  <2> QED BY <1>1, <2>4, <2>5 DEF Chosen, Slots, s
<1> QED BY <1>3, <1>4

Filled(p, slot, fd, evs, bits) ==
  [fds |-> [slot.fds EXCEPT !.data[slot.index] = [fd |-> fd, bits |-> bits]],
   epoll |-> [g \in DOMAIN p.epoll \cup {fd} |->
                IF g = fd THEN [index |-> slot.index, events |-> evs] ELSE p.epoll[g]]]

(* The descriptors' slots after one of them has been written *)
LEMMA Fills ==
  ASSUME NEW p, Table(p), NEW fd \in Fds, NEW evs, evs # {}, NEW bits \in SUBSET BitNames,
         NEW slot, Chosen(p, fd, slot), NEW q, q = Filled(p, slot, fd, evs, bits)
  PROVE  /\ Table(q) /\ Monitored(q, fd) = <<evs, bits>>
         /\ \A g \in Fds \ {fd} : Monitored(q, g) = Monitored(p, g)
<1> DEFINE a == slot.fds
           k == slot.index
           x == [fd |-> fd, bits |-> bits]
           data == [a.data EXCEPT ![k] = x]
           n == a.size
<1>1. /\ a = [data |-> a.data, size |-> a.size, capacity |-> a.capacity, item_size |-> a.item_size]
      /\ a.size \in 0..5 /\ a.capacity \in Nat /\ a.item_size \in Nat \ {0} /\ a.size <= a.capacity
      /\ a.data \in [0..a.capacity-1 -> Slot \cup {Uninitialized}]
  <2>1. a \in Growing!Arrays(Slot) /\ a.size <= 5
    BY DEF Chosen
  <2> HIDE DEF a
  <2>2. a.size \in Nat
    BY <2>1 DEF Growing!Arrays
  <2> QED BY <2>1, <2>2 DEF Growing!Arrays
<1>2. k \in 0..n-1 /\ p.fds.size \in 0..5 /\ p.fds.size <= n /\ n \in 0..5
  BY <1>1, ArrayIs DEF Chosen, Table
<1>3. x \in Slot /\ x.fd = fd /\ x.bits = bits
  BY DEF Slot
<1>4. q.fds = [data |-> data, size |-> a.size, capacity |-> a.capacity, item_size |-> a.item_size]
  <2>1. q.fds = [a EXCEPT !.data = data]
    BY DEF data, Filled
  <2> HIDE DEF data, a, k
  <2> QED BY <1>1, <2>1
<1>5. /\ data \in [0..a.capacity-1 -> Slot \cup {Uninitialized}] /\ data[k] = x
      /\ \A i \in 0..n-1 : i # k => data[i] = a.data[i]
  BY <1>1, <1>2, <1>3
<1>6. \A i \in 0..n-1 : i # k => i \in Slots(p) /\ data[i] = p.fds.data[i] /\ data[i] \in Slot
  BY <1>5 DEF Chosen, Table, Slotted, Slots
<1>7. /\ DOMAIN q.epoll = DOMAIN p.epoll \cup {fd}
      /\ q.epoll[fd] = [index |-> k, events |-> evs]
      /\ \A g \in DOMAIN p.epoll : g # fd => q.epoll[g] = p.epoll[g]
  BY DEF k, Filled
<1>8. q.epoll[fd].index = k /\ q.epoll[fd].events = evs
  BY <1>7
<1>9. q.fds.data = data /\ q.fds.size = n
  BY <1>4
<1>10. Slotted(q.fds)
  <2>1. q.fds \in Growing!Arrays(Slot)
    <3> HIDE DEF data, a, n
    <3> QED BY <1>1, <1>4, <1>5, ArrayMade
  <2>2. \A i \in 0..n-1 : data[i] \in Slot
    BY <1>3, <1>5, <1>6
  <2>3. q.fds.size <= 5
    BY <1>1, <1>9
  <2> HIDE DEF data
  <2> QED BY <1>9, <2>1, <2>2, <2>3 DEF Slotted
<1>11. /\ k \in Slots(p) => p.fds.data[k].fd \in {NoFd, fd}
       /\ fd \in DOMAIN p.epoll => k = p.epoll[fd].index
  BY DEF Chosen
<1> HIDE DEF data, n, x, k
<1>12. ASSUME NEW g \in DOMAIN p.epoll, g # fd
       PROVE  /\ g \in Fds /\ g # NoFd /\ p.epoll[g].index \in 0..n-1 /\ p.epoll[g].index # k
              /\ data[p.epoll[g].index].fd = g /\ p.epoll[g].events # {}
              /\ data[p.epoll[g].index] = p.fds.data[p.epoll[g].index]
  <2>1. /\ g \in Fds /\ p.epoll[g].index \in Slots(p) /\ p.fds.data[p.epoll[g].index].fd = g
        /\ p.epoll[g].events # {}
    BY DEF Table, Linked, Slots
  <2>2. g # NoFd
    BY <2>1, FdsAre
  <2>3. p.epoll[g].index \in 0..n-1 /\ p.epoll[g].index # k
    <3>1. p.epoll[g].index \in 0..n-1
      BY <1>2, <2>1 DEF Slots
    <3>2. p.epoll[g].index # k
      BY <1>11, <1>12, <2>1, <2>2
    <3> QED BY <3>1, <3>2
  <2> QED BY <1>6, <2>1, <2>2, <2>3
<1>13. ASSUME NEW i \in 0..n-1, i # k, data[i].fd # NoFd
       PROVE  data[i].fd # fd /\ data[i].fd \in DOMAIN p.epoll /\ p.epoll[data[i].fd].index = i
  <2>1. data[i].fd \in DOMAIN p.epoll /\ p.epoll[data[i].fd].index = i
    BY <1>6, <1>13 DEF Table, Linked, Slots
  <2> QED BY <1>11, <1>13, <2>1
<1>14. Linked(q.fds, q.epoll)
  <2>1. DOMAIN q.epoll \subseteq Fds
    BY <1>7 DEF Table, Linked
  <2>2. ASSUME NEW g \in DOMAIN q.epoll
        PROVE  /\ q.epoll[g].index \in 0..n-1 /\ data[q.epoll[g].index].fd = g
               /\ q.epoll[g].events # {}
    <3>1. CASE g = fd
      BY <1>2, <1>3, <1>5, <1>8, <3>1
    <3>2. CASE g # fd
      BY <1>7, <1>12, <3>2
    <3> QED BY <3>1, <3>2
  <2>3. ASSUME NEW i \in 0..n-1, data[i].fd # NoFd
        PROVE  data[i].fd \in DOMAIN q.epoll /\ q.epoll[data[i].fd].index = i
    <3>1. CASE i = k
      BY <1>3, <1>5, <1>7, <1>8, <3>1
    <3>2. CASE i # k
      BY <1>7, <1>13, <2>3, <3>2
    <3> QED BY <3>1, <3>2
  <2> QED BY <1>9, <2>1, <2>2, <2>3 DEF Linked
<1>15. Monitored(q, fd) = <<evs, bits>>
  BY <1>3, <1>5, <1>7, <1>8, <1>9 DEF Monitored
<1>16. ASSUME NEW g \in Fds, g # fd PROVE Monitored(q, g) = Monitored(p, g)
  <2>1. CASE g \in DOMAIN p.epoll
    <3>1. /\ q.epoll[g] = p.epoll[g] /\ g \in DOMAIN q.epoll
          /\ data[p.epoll[g].index] = p.fds.data[p.epoll[g].index]
      BY <1>7, <1>12, <1>16, <2>1
    <3>2. Monitored(q, g) = <<q.epoll[g].events, data[q.epoll[g].index].bits>>
      BY <1>9, <3>1 DEF Monitored
    <3>3. Monitored(p, g) = <<p.epoll[g].events, p.fds.data[p.epoll[g].index].bits>>
      BY <2>1 DEF Monitored
    <3> QED BY <3>1, <3>2, <3>3
  <2>2. CASE g \notin DOMAIN p.epoll
    BY <1>7, <1>16, <2>2 DEF Monitored
  <2> QED BY <2>1, <2>2
<1> QED BY <1>10, <1>14, <1>15, <1>16 DEF Table

LEMMA Removes ==
  ASSUME NEW p, Table(p), NEW fd \in Fds, NEW q, q = pollinatorRemoveFd(p, fd)
  PROVE  /\ Table(q) /\ Monitored(q, fd) = <<{}, {}>>
         /\ \A g \in Fds \ {fd} : Monitored(q, g) = Monitored(p, g)
<1>1. CASE fd \notin DOMAIN p.epoll
  <2>1. findPfd(p, fd) = -1
    BY <1>1, FindsLinked
  <2>2. q = p
    BY <2>1 DEF pollinatorRemoveFd
  <2> QED BY <1>1, <2>2 DEF Monitored
<1>2. CASE fd \in DOMAIN p.epoll
  <2> DEFINE a == p.fds
             k == findPfd(p, fd)
             x == [a.data[k] EXCEPT !.fd = NoFd]
             data == [a.data EXCEPT ![k] = x]
             n == a.size
  <2>1. /\ a = [data |-> a.data, size |-> a.size, capacity |-> a.capacity, item_size |-> a.item_size]
        /\ a.size \in 0..5 /\ a.capacity \in Nat /\ a.item_size \in Nat \ {0} /\ a.size <= a.capacity
        /\ a.data \in [0..a.capacity-1 -> Slot \cup {Uninitialized}]
    BY ArrayIs DEF Table
  <2>0. k = p.epoll[fd].index
    BY <1>2, FindsLinked
  <2>2. k = p.epoll[fd].index /\ k \in 0..n-1 /\ a.data[k].fd = fd /\ a.data[k] \in Slot
    BY <1>2, FindsLinked, <2>0 DEF Table, Linked, Slotted
  <2>3. x \in Slot /\ x.fd = NoFd
    BY <2>2 DEF Slot
  <2>4. q = [fds |-> [a EXCEPT !.data = data], epoll |-> Restrict(p.epoll, DOMAIN p.epoll \ {fd})]
    <3>1. ~(k < 0)
      BY <2>1, <2>2
    <3> QED BY <3>1 DEF pollinatorRemoveFd
  <2> HIDE DEF k
  <2>5. q.fds = [data |-> data, size |-> a.size, capacity |-> a.capacity, item_size |-> a.item_size]
    <3> HIDE DEF data
    <3> QED BY <2>1, <2>4
  <2>6. /\ data \in [0..a.capacity-1 -> Slot \cup {Uninitialized}] /\ data[k] = x
        /\ \A i \in 0..n-1 : i # k => data[i] = a.data[i]
    <3> HIDE DEF x
    <3> QED BY <2>1, <2>2, <2>3
  <2>7. /\ DOMAIN q.epoll = DOMAIN p.epoll \ {fd}
        /\ \A g \in DOMAIN p.epoll : g # fd => q.epoll[g] = p.epoll[g]
    <3> HIDE DEF data
    <3> QED BY <2>4 DEF Restrict
  <2>8. q.fds.data = data /\ q.fds.size = n
    BY <2>5
  <2> HIDE DEF data, x, n
  <2>9. Slotted(q.fds)
    <3>1. q.fds \in Growing!Arrays(Slot)
      BY <2>1, <2>5, <2>6, ArrayMade
    <3>2. \A i \in 0..n-1 : data[i] \in Slot
      BY <2>3, <2>6 DEF Table, Slotted, n
    <3> QED BY <2>1, <2>8, <3>1, <3>2 DEF Slotted, n
  <2>10. ASSUME NEW g \in DOMAIN p.epoll, g # fd
         PROVE  /\ g \in Fds /\ p.epoll[g].index \in 0..n-1 /\ p.epoll[g].index # k
                /\ data[p.epoll[g].index].fd = g /\ p.epoll[g].events # {}
                /\ data[p.epoll[g].index] = a.data[p.epoll[g].index]
    <3>1. /\ g \in Fds /\ p.epoll[g].index \in 0..n-1 /\ a.data[p.epoll[g].index].fd = g
          /\ p.epoll[g].events # {}
      BY DEF Table, Linked, n
    <3>2. p.epoll[g].index # k
      BY <2>2, <2>10, <3>1
    <3> QED BY <2>6, <3>1, <3>2
  <2>11. ASSUME NEW i \in 0..n-1, data[i].fd # NoFd
         PROVE  data[i].fd # fd /\ data[i].fd \in DOMAIN p.epoll /\ p.epoll[data[i].fd].index = i
    <3>1. i # k
      BY <2>3, <2>6, <2>11
    <3>2. data[i].fd \in DOMAIN p.epoll /\ p.epoll[data[i].fd].index = i
      BY <2>6, <2>11, <3>1 DEF Table, Linked, n
    <3> QED BY <2>2, <3>1, <3>2
  <2>12. Linked(q.fds, q.epoll)
    <3>1. DOMAIN q.epoll \subseteq Fds
      BY <2>7 DEF Table, Linked
    <3>2. \A g \in DOMAIN q.epoll : /\ q.epoll[g].index \in 0..n-1 /\ data[q.epoll[g].index].fd = g
                                    /\ q.epoll[g].events # {}
      BY <2>7, <2>10
    <3>3. \A i \in 0..n-1 : data[i].fd # NoFd =>
            data[i].fd \in DOMAIN q.epoll /\ q.epoll[data[i].fd].index = i
      BY <2>7, <2>11
    <3> QED BY <2>8, <3>1, <3>2, <3>3 DEF Linked
  <2>13. Monitored(q, fd) = <<{}, {}>>
    BY <2>7 DEF Monitored
  <2>14. ASSUME NEW g \in Fds, g # fd PROVE Monitored(q, g) = Monitored(p, g)
    <3>1. CASE g \in DOMAIN p.epoll
      BY <2>7, <2>8, <2>10, <2>14, <3>1 DEF Monitored
    <3>2. CASE g \notin DOMAIN p.epoll
      BY <2>7, <2>14, <3>2 DEF Monitored
    <3> QED BY <3>1, <3>2
  <2> QED BY <2>9, <2>12, <2>13, <2>14 DEF Table
<1> QED BY <1>1, <1>2

(* pollinatorMonitorFd changes what its descriptor is monitored for, and no   *)
(* other's; the table keeps its links and its bound (pollinator.c:50-121).    *)
LEMMA MonitorLeaves ==
  ASSUME NEW p, Table(p), NEW fd \in Fds, NEW evs, NEW bits \in SUBSET BitNames,
         evs = {} => bits = {}, NEW q, q = pollinatorMonitorFd(p, fd, evs, bits)
  PROVE  /\ Table(q) /\ Monitored(q, fd) = <<evs, bits>>
         /\ \A g \in Fds \ {fd} : Monitored(q, g) = Monitored(p, g)
<1>1. CASE evs = {}
  <2>1. q = pollinatorRemoveFd(p, fd) /\ bits = {}
    BY <1>1 DEF pollinatorMonitorFd
  <2> QED BY <1>1, <2>1, Removes
<1>2. CASE evs # {}
  <2> DEFINE found == findPfd(p, fd)
             slot == IF found < 0 THEN allocPfd(p) ELSE [index |-> found, fds |-> p.fds]
  <2>1. q = Filled(p, slot, fd, evs, bits)
    BY <1>2, Zenon DEF pollinatorMonitorFd, Filled
  <2>2. Chosen(p, fd, slot)
    <3>1. CASE fd \notin DOMAIN p.epoll
      <4>1. slot = allocPfd(p)
        BY <3>1, FindsLinked
      <4> QED BY <3>1, <4>1, Allocates
    <3>2. CASE fd \in DOMAIN p.epoll
      <4>0. found = p.epoll[fd].index /\ p.fds.size \in 0..5
        BY <3>2, FindsLinked, ArrayIs DEF Table
      <4>1. /\ found \in Slots(p) /\ found \in Nat
            /\ p.fds.data[found].fd = fd /\ p.fds.size \in 0..5
        <5> HIDE DEF found
        <5> QED BY <3>2, <4>0 DEF Table, Linked, Slots
      <4> HIDE DEF found
      <4>2. slot = [index |-> found, fds |-> p.fds]
        BY <4>1
      <4> HIDE DEF slot
      <4>3. slot.index = found /\ slot.fds = p.fds
        BY <4>2
      <4> QED BY <4>0, <4>1, <4>3 DEF Chosen, Slots, Table, Slotted
    <3> QED BY <3>1, <3>2
  <2> HIDE DEF slot
  <2> QED BY <1>2, <2>1, <2>2, Fills
<1> QED BY <1>1, <1>2

-----------------------------------------------------------------------------
(* The registrations: the descriptors are monitored as the pumps need it, but *)
(* for those that a start or a stop in progress has not come to.              *)

Entry(mode, k) == <<Registrations[mode][k][2], Registrations[mode][k][3]>>

EntriesFit ==
  \A k \in 1..5 :
    LET m == Monitored(pol, k + 2)
    IN  /\ pc \notin {"monitor", "unmonitor"} =>
             m = Entry(IF pumps THEN "monitor" ELSE "unmonitor", k)
        /\ pc = "monitor" => m = Entry(IF k < step THEN "monitor" ELSE "unmonitor", k)
        /\ pc = "unmonitor" => m = Entry("unmonitor", k) \/ (k >= step /\ m = Entry("monitor", k))

EventTypes == {"STREAMON", "STREAMOFF", "SETUP"}

LoopTypes ==
  /\ fd_bits \subseteq BitNames /\ events \in Seq(EventTypes)
  /\ edge \in BOOLEAN /\ wants \in BOOLEAN

MInv == IInv /\ Table(pol) /\ EntriesFit /\ LoopTypes

LEMMA ModesAre ==
  /\ DOMAIN Registrations = {"monitor", "unmonitor"}
  /\ \A mode \in {"monitor", "unmonitor"} :
       /\ Len(Registrations[mode]) = 5
       /\ \A k \in 1..5 : /\ Registrations[mode][k][1] = k + 2 /\ k + 2 \in Fds
                          /\ Registrations[mode][k][3] \in SUBSET BitNames
                          /\ Registrations[mode][k][2] = {} => Registrations[mode][k][3] = {}
<1>1. DOMAIN Registrations = {"monitor", "unmonitor"}
  BY DEF Registrations
<1>2. ASSUME NEW mode \in {"monitor", "unmonitor"}, NEW k \in 1..5
      PROVE  /\ Registrations[mode][k][1] = k + 2 /\ k + 2 \in Fds
             /\ Registrations[mode][k][3] \in SUBSET BitNames
             /\ Registrations[mode][k][2] = {} => Registrations[mode][k][3] = {}
  <2>1. k = 1 \/ k = 2 \/ k = 3 \/ k = 4 \/ k = 5
    OBVIOUS
  <2>2. CASE mode = "monitor"
    <3> DEFINE R == Registrations["monitor"]
    <3>1. /\ R[1] = <<3, Transfer, {CAM_TO_ISP}>> /\ R[2] = <<4, Transfer, {CAM_TO_ISP}>>
          /\ R[3] = <<5, Transfer, {ISP_TO_ENC}>> /\ R[4] = <<6, Transfer, {ISP_TO_ENC, ENC_TO_UVC}>>
          /\ R[5] = <<7, Transfer \cup {"EXCEPT"}, {ENC_TO_UVC, UVC_EVENTS}>>
      BY DEF Registrations, CamFd, IspInFd, IspOutFd, EncFd, UvcFd
    <3>2. Transfer # {} /\ Transfer \cup {"EXCEPT"} # {}
      BY DEF Transfer
    <3> HIDE DEF R
    <3>3. /\ R[k][1] = k + 2 /\ k + 2 \in Fds /\ R[k][3] \in SUBSET BitNames
          /\ R[k][2] = {} => R[k][3] = {}
      <4>1. \A j \in 1..5 : k = j => R[k] = R[j]
        OBVIOUS
      <4> HIDE DEF R
      <4> QED BY <2>1, <3>1, <3>2, <4>1, FdsAre DEF BitNames
    <3> QED BY <2>2, <3>3 DEF R
  <2>3. CASE mode = "unmonitor"
    <3> DEFINE R == Registrations["unmonitor"]
    <3>1. /\ R[1] = <<3, {}, {}>> /\ R[2] = <<4, {}, {}>> /\ R[3] = <<5, {}, {}>>
          /\ R[4] = <<6, {}, {}>> /\ R[5] = <<7, {"EXCEPT"}, {UVC_EVENTS}>>
      BY DEF Registrations, CamFd, IspInFd, IspOutFd, EncFd, UvcFd
    <3>2. {"EXCEPT"} # {}
      OBVIOUS
    <3> HIDE DEF R
    <3>3. /\ R[k][1] = k + 2 /\ k + 2 \in Fds /\ R[k][3] \in SUBSET BitNames
          /\ R[k][2] = {} => R[k][3] = {}
      <4>1. \A j \in 1..5 : k = j => R[k] = R[j]
        OBVIOUS
      <4> HIDE DEF R
      <4> QED BY <2>1, <3>1, <3>2, <4>1, FdsAre DEF BitNames
    <3> QED BY <2>3, <3>3 DEF R
  <2> QED BY <2>2, <2>3
<1>3. \A mode \in {"monitor", "unmonitor"} : Len(Registrations[mode]) = 5
  BY DEF Registrations
<1> QED BY <1>1, <1>2, <1>3

(* A queue of the driver's stays one of events. *)
LEMMA QueueEventKeeps ==
  ASSUME NEW q \in Seq(EventTypes), NEW type \in EventTypes
  PROVE  QueueEvent(q, type) \in Seq(EventTypes)
<1> DEFINE Same == {i \in 1..Len(q) : q[i] = type}
           shifted == [i \in 1..Len(q)-1 |-> IF i < Min(Same) THEN q[i] ELSE q[i + 1]]
           kept == IF Cardinality(Same) < MaxOfType THEN q ELSE shifted
<1>1. kept \in Seq(EventTypes)
  <2>1. CASE Len(q) = 0
    <3>1. Same = {}
      BY <2>1
    <3>2. Cardinality(Same) = 0
      BY <3>1, FS_EmptySet
    <3> HIDE DEF Same
    <3> QED BY <3>2 DEF MaxOfType
  <2>2. CASE Len(q) > 0
    <3> DEFINE m == Min(Same)
               n == Len(q) - 1
    <3>1. shifted = [i \in 1..n |-> IF i < m THEN q[i] ELSE q[i + 1]]
      OBVIOUS
    <3> HIDE DEF m, Same
    <3>2. \A i \in 1..n : q[i] \in EventTypes /\ q[i + 1] \in EventTypes
      OBVIOUS
    <3>3. n \in Nat
      BY <2>2
    <3> HIDE DEF n, shifted
    <3>4. shifted \in [1..n -> EventTypes]
      BY <3>1, <3>2
    <3>5. shifted \in Seq(EventTypes)
      BY <3>3, <3>4
    <3> QED BY <3>5
  <2> QED BY <2>1, <2>2
<1>2. QueueEvent(q, type) = Append(kept, type)
  BY Zenon DEF QueueEvent
<1> HIDE DEF kept
<1> QED BY <1>1, <1>2

LEMMA TailKeeps ==
  ASSUME LoopTypes, events # << >>, events' = Tail(events), UNCHANGED <<fd_bits, edge, wants>>
  PROVE  LoopTypes'
BY DEF LoopTypes

(* What every step but those of the registrations leaves as it is *)
LEMMA EntriesStay ==
  ASSUME EntriesFit, UNCHANGED <<pol, pumps>>,
         pc \notin {"monitor", "unmonitor"}, pc' \notin {"monitor", "unmonitor"}
  PROVE  EntriesFit'
BY DEF EntriesFit

(* The bits that the callbacks set are those of the table. *)
LEMMA PollBits ==
  ASSUME NEW p, Table(p), NEW ready \in SUBSET DOMAIN p.epoll
  PROVE  pollinatorPoll(p, ready) \subseteq BitNames
<1>1. \A fd \in ready : p.fds.data[p.epoll[fd].index].bits \subseteq BitNames
  BY DEF Table, Linked, Slotted, Slot
<1> QED BY <1>1 DEF pollinatorPoll

LEMMA RegisterFits == MInv /\ Register => Table(pol)' /\ EntriesFit' /\ LoopTypes'
<1> SUFFICES ASSUME MInv, Register PROVE Table(pol)' /\ EntriesFit' /\ LoopTypes'
  OBVIOUS
<1> DEFINE r == Registrations[pc][step]
<1>1. /\ pc \in {"monitor", "unmonitor"} /\ step \in 1..5 /\ pc' = pc /\ step' = step + 1
      /\ pol' = pollinatorMonitorFd(pol, r[1], r[2], r[3])
      /\ edge' = (edge \/ (r[1] = UvcFd /\ events # << >>))
      /\ UNCHANGED <<pumps, events, wants, fd_bits>>
  <2>1. pc \in {"monitor", "unmonitor"} /\ step <= 5 /\ step \in 1..6
    BY ModesAre DEF Register, MInv, IInv, Types
  <2> HIDE DEF r
  <2>2. /\ pol' = pollinatorMonitorFd(pol, r[1], r[2], r[3])
        /\ edge' = (edge \/ (r[1] = UvcFd /\ events # << >>))
    BY DEF Register, r
  <2>3. step' = step + 1 /\ UNCHANGED <<pc, pumps, events, wants, fd_bits>>
    BY DEF Register, hostVars
  <2> QED BY <2>1, <2>2, <2>3
<1>2. /\ r[1] = step + 2 /\ step + 2 \in Fds /\ r[3] \in SUBSET BitNames
      /\ r[2] = {} => r[3] = {}
  BY <1>1, ModesAre
<1>3. Entry(pc, step) = <<r[2], r[3]>>
  BY DEF Entry
<1> HIDE DEF r
<1>4. /\ Table(pol') /\ Monitored(pol', step + 2) = <<r[2], r[3]>>
      /\ \A g \in Fds \ {step + 2} : Monitored(pol', g) = Monitored(pol, g)
  <2>1. pol' = pollinatorMonitorFd(pol, step + 2, r[2], r[3]) /\ Table(pol)
    BY <1>1, <1>2 DEF MInv
  <2> QED BY <1>2, <2>1, MonitorLeaves
<1>5. EntriesFit'
  <2> SUFFICES ASSUME NEW k \in 1..5
               PROVE  LET m == Monitored(pol', k + 2)
                      IN  /\ pc = "monitor" => m = Entry(IF k < step + 1 THEN "monitor" ELSE "unmonitor", k)
                          /\ pc = "unmonitor" => m = Entry("unmonitor", k) \/ (k >= step + 1 /\ m = Entry("monitor", k))
    BY <1>1 DEF EntriesFit
  <2>1. CASE k = step
    BY <1>1, <1>3, <1>4, <2>1
  <2>2. CASE k # step
    <3>1. k + 2 \in Fds \ {step + 2}
      BY <1>1, <2>2, ModesAre
    <3>2. Monitored(pol', k + 2) = Monitored(pol, k + 2)
      BY <1>4, <3>1
    <3>3. (k < step + 1 <=> k < step) /\ (k >= step + 1 <=> k >= step)
      BY <1>1, <2>2
    <3> QED BY <3>2, <3>3 DEF MInv, EntriesFit
  <2> QED BY <2>1, <2>2
<1>6. LoopTypes'
  BY <1>1 DEF MInv, LoopTypes
<1> QED BY <1>4, <1>5, <1>6

LEMMA RegisterDoneFits == MInv /\ RegisterDone => Table(pol)' /\ EntriesFit' /\ LoopTypes'
<1> SUFFICES ASSUME MInv, RegisterDone PROVE Table(pol)' /\ EntriesFit' /\ LoopTypes'
  OBVIOUS
<1>1. /\ pc \in {"monitor", "unmonitor"} /\ step = 6 /\ pc' = "events"
      /\ UNCHANGED <<pol, pumps, events, edge, wants, fd_bits>>
  BY ModesAre DEF RegisterDone, hostVars, MInv, IInv, Types
<1>2. (pc = "monitor" => pumps) /\ (pc = "unmonitor" => ~pumps)
  BY DEF MInv, IInv, PumpsFit
<1>3. EntriesFit'
  <2> SUFFICES ASSUME NEW k \in 1..5
               PROVE  Monitored(pol, k + 2) = Entry(IF pumps THEN "monitor" ELSE "unmonitor", k)
    BY <1>1 DEF EntriesFit
  <2>1. k < step /\ ~(k >= step)
    BY <1>1
  <2> QED BY <1>1, <1>2, <2>1 DEF MInv, EntriesFit
<1> QED BY <1>1, <1>3 DEF MInv, LoopTypes

(* All nodes stream and the pumps are there, before anything is monitored for *)
(* them; or the pumps are gone, and all is still monitored.                   *)
LEMMA PumpsChangeFits ==
  ASSUME MInv, StartPumps \/ StopPumps
  PROVE  Table(pol)' /\ EntriesFit' /\ LoopTypes'
<1>1. UNCHANGED <<pol, events, edge, wants, fd_bits>> /\ step' = 1
  BY DEF StartPumps, StopPumps, hostVars
<1>2. EntriesFit'
  <2>1. CASE StartPumps
    <3>1. pc = "start" /\ pc' = "monitor" /\ ~pumps
      BY <2>1, OrderOfNodes DEF StartPumps, MInv, IInv, PumpsFit, Types
    <3> SUFFICES ASSUME NEW k \in 1..5
                 PROVE  Monitored(pol, k + 2) = Entry(IF k < 1 THEN "monitor" ELSE "unmonitor", k)
      BY <1>1, <3>1 DEF EntriesFit
    <3>2. ~(k < 1)
      OBVIOUS
    <3> QED BY <3>1, <3>2 DEF MInv, EntriesFit
  <2>2. CASE StopPumps
    <3>1. pc = "stop" /\ pc' = "unmonitor"
      BY <2>2 DEF StopPumps
    <3> SUFFICES ASSUME NEW k \in 1..5
                 PROVE  \/ Monitored(pol, k + 2) = Entry("unmonitor", k)
                        \/ k >= 1 /\ Monitored(pol, k + 2) = Entry("monitor", k)
      BY <1>1, <3>1 DEF EntriesFit
    <3>2. k >= 1
      OBVIOUS
    <3>3. pumps = TRUE \/ pumps = FALSE
      BY DEF MInv, IInv, Types
    <3> QED BY <3>1, <3>2, <3>3 DEF MInv, EntriesFit
  <2> QED BY <2>1, <2>2
<1> QED BY <1>1, <1>2 DEF MInv, LoopTypes

LEMMA HostFits ==
  ASSUME MInv, HostToggle \/ HostControl
  PROVE  Table(pol)' /\ EntriesFit' /\ LoopTypes'
<1>1. UNCHANGED <<pol, pumps, pc, step, fd_bits>> /\ edge' = TRUE
  BY DEF HostToggle, HostControl, HostEvent
<1>2. events \in Seq(EventTypes) /\ wants \in BOOLEAN /\ wants' \in BOOLEAN
  BY DEF MInv, LoopTypes, HostToggle, HostControl
<1>3. PICK type \in EventTypes : events' = QueueEvent(events, type)
  BY DEF HostToggle, HostControl, HostEvent, EventTypes
<1>4. events' \in Seq(EventTypes)
  BY <1>2, <1>3, QueueEventKeeps
<1>5. EntriesFit'
  BY <1>1 DEF MInv, EntriesFit
<1> QED BY <1>1, <1>2, <1>4, <1>5 DEF MInv, LoopTypes

LEMMA EventFits ==
  ASSUME MInv, EventSetup \/ EventStreamon \/ EventStreamoff
  PROVE  Table(pol)' /\ EntriesFit' /\ LoopTypes'
<1>1. /\ UNCHANGED <<pol, pumps, fd_bits, edge, wants>> /\ pc = "events"
      /\ pc' \in {"events", "pumps", "start", "stop"}
      /\ events # << >> /\ events' = Tail(events)
  BY DEF EventSetup, EventStreamon, EventStreamoff, hostVars
<1>2. EntriesFit'
  BY <1>1, EntriesStay DEF MInv
<1>3. LoopTypes'
  BY <1>1, TailKeeps DEF MInv
<1> QED BY <1>1, <1>2, <1>3 DEF MInv

LEMMA PollFits ==
  MInv /\ (Poll \/ PollFailed) => Table(pol)' /\ EntriesFit' /\ LoopTypes'
<1> SUFFICES ASSUME MInv, Poll \/ PollFailed PROVE Table(pol)' /\ EntriesFit' /\ LoopTypes'
  OBVIOUS
<1>1. /\ UNCHANGED <<pol, pumps, events, wants>> /\ edge' \in {FALSE, edge} /\ pc = "poll"
      /\ pc' \in {"events", "pumps", "exited"}
  BY DEF Poll, PollFailed, hostVars
<1>2. fd_bits' = {} \/ \E ready \in SUBSET DOMAIN pol.epoll : fd_bits' = pollinatorPoll(pol, ready)
  BY DEF Poll, PollFailed
<1>3. fd_bits' \subseteq BitNames
  BY <1>2, PollBits DEF MInv
<1>4. EntriesFit'
  BY <1>1, EntriesStay DEF MInv
<1> QED BY <1>1, <1>3, <1>4 DEF MInv, LoopTypes

LEMMA OtherFits ==
  ASSUME MInv, RunPumps \/ EventsDone \/ EventsFailed \/ StartNode \/ StopNode
  PROVE  Table(pol)' /\ EntriesFit' /\ LoopTypes'
<1>1. /\ UNCHANGED <<pol, pumps, fd_bits, events, edge, wants>>
      /\ pc \notin {"monitor", "unmonitor"} /\ pc' \notin {"monitor", "unmonitor"}
  BY DEF RunPumps, EventsDone, EventsFailed, StartNode, StopNode, hostVars
<1>2. EntriesFit'
  BY <1>1, EntriesStay DEF MInv
<1> QED BY <1>1, <1>2 DEF MInv, LoopTypes

LEMMA MonitorsInvariant == MInv /\ [Next]_vars => MInv'
<1> SUFFICES ASSUME MInv, [Next]_vars PROVE MInv'
  OBVIOUS
<1>1. IInv'
  BY Invariant DEF MInv
<1>2. CASE Exited \/ UNCHANGED vars
  BY <1>2 DEF Exited, vars, hostVars, MInv, EntriesFit, LoopTypes, IInv, Types, NodesOK, PumpsFit, LedFits
<1>3. CASE Next /\ ~Exited
  <2>1. Table(pol)' /\ EntriesFit' /\ LoopTypes'
    BY <1>3, RegisterFits, RegisterDoneFits, PumpsChangeFits, HostFits, EventFits, PollFits, OtherFits
       DEF Next, pipelineProcess
  <2> QED BY <1>1, <2>1 DEF MInv
<1> QED BY <1>2, <1>3

LEMMA MonitorsInitially == Init => MInv
<1> SUFFICES ASSUME Init PROVE MInv
  OBVIOUS
<1> DEFINE p == pollinatorCreate
<1>1. Table(p)
  <2>1. p.fds = [data |-> [i \in {} |-> Uninitialized], size |-> 0, capacity |-> 0, item_size |-> 32]
        /\ p.epoll = << >>
    BY DEF pollinatorCreate, arrayInit, SlotSize
  <2>2. DOMAIN p.epoll = {}
    BY <2>1
  <2> DEFINE d == [i \in {} |-> Uninitialized]
  <2>3. d \in [0..0-1 -> Slot \cup {Uninitialized}]
    OBVIOUS
  <2>4. p.fds = [data |-> d, size |-> 0, capacity |-> 0, item_size |-> 32]
    BY <2>1
  <2> HIDE DEF d, p
  <2>5. p.fds \in Growing!Arrays(Slot)
    <3>1. 0 \in Nat /\ 32 \in Nat \ {0} /\ 0 <= 0
      OBVIOUS
    <3> QED BY <2>3, <2>4, <3>1, ArrayMade
  <2>6. p.fds.size = 0
    BY <2>4
  <2> QED BY <2>2, <2>5, <2>6 DEF Table, Slotted, Linked
<1>2. pol = pollinatorMonitorFd(p, UvcFd, {"EXCEPT"}, {UVC_EVENTS})
  BY DEF Init
<1>3. \A fd \in Fds : Monitored(p, fd) = <<{}, {}>>
  BY DEF Monitored, pollinatorCreate
<1> HIDE DEF p
<1>4. /\ Table(pol) /\ Monitored(pol, UvcFd) = <<{"EXCEPT"}, {UVC_EVENTS}>>
      /\ \A g \in Fds \ {UvcFd} : Monitored(pol, g) = <<{}, {}>>
  <2>1. UvcFd \in Fds /\ {UVC_EVENTS} \in SUBSET BitNames /\ {"EXCEPT"} # {}
    BY DEF Fds, BitNames
  <2>2. /\ Table(pol) /\ Monitored(pol, UvcFd) = <<{"EXCEPT"}, {UVC_EVENTS}>>
        /\ \A g \in Fds \ {UvcFd} : Monitored(pol, g) = Monitored(p, g)
    BY <1>1, <1>2, <2>1, MonitorLeaves
  <2> QED BY <1>3, <2>2
<1>5. pc = "poll" /\ ~pumps /\ fd_bits = {} /\ events = << >> /\ edge = FALSE /\ wants = FALSE
  BY DEF Init
<1>6. EntriesFit
  <2> SUFFICES ASSUME NEW k \in 1..5 PROVE Monitored(pol, k + 2) = Entry("unmonitor", k)
    BY <1>5 DEF EntriesFit
  <2>1. CASE k = 5
    BY <1>4, <2>1 DEF Entry, Registrations, UvcFd
  <2>2. CASE k # 5
    <3>1. k = 1 \/ k = 2 \/ k = 3 \/ k = 4
      BY <2>2
    <3>2. k + 2 \in Fds \ {UvcFd}
      BY <3>1, FdsAre DEF UvcFd
    <3>3. Entry("unmonitor", k) = <<{}, {}>>
      BY <3>1 DEF Entry, Registrations
    <3> QED BY <1>4, <3>2, <3>3
  <2> QED BY <2>1, <2>2
<1>7. LoopTypes
  <2>1. << >> \in Seq(EventTypes)
    OBVIOUS
  <2> QED BY <1>5, <2>1 DEF LoopTypes
<1> QED BY <1>4, <1>6, <1>7, Initially DEF MInv

(* The loop's variables keep their types.                                     *)
THEOREM PipelineTypeOK == Spec => []TypeOK
<1>1. MInv => TypeOK
  <2> SUFFICES ASSUME MInv PROVE TypeOK
    OBVIOUS
  <2>1. NodesOK(nodes, faults)
    BY DEF MInv, IInv
  <2>2. DOMAIN nodes = Range(Order)
    <3>1. DOMAIN nodes = Names
      BY <2>1 DEF NodesOK
    <3>2. Range(Order) = Names
      BY OrderOfNodes DEF Range, Order, Names
    <3> QED BY <3>1, <3>2
  <2>3. ASSUME NEW s \in Streams PROVE s.state \in States /\ s.queued \subseteq 0..s.made-1
    <3>1. PICK k \in Names : s \in Range(nodes[k])
      BY <2>1 DEF Streams, NodesOK
    <3>2. PICK e \in NodeEnds(k) : s = nodes[k][e]
      BY <2>1, <3>1 DEF Range, NodesOK, NodeOK
    <3>3. Coherent(s, faults)
      BY <2>1, <3>2 DEF NodesOK, NodeOK
    <3> QED BY <3>3 DEF Coherent, Stream, Fields
  <2>4. Range(events) \subseteq EventTypes
    BY DEF MInv, LoopTypes, Range
  <2>5. /\ pumps \in BOOLEAN /\ led \in [enabled : BOOLEAN, on : BOOLEAN]
        /\ step \in 1..6 /\ pc \in Ready \cup {"stop", "monitor", "unmonitor"}
        /\ faults \in 0..MaxFaults
    BY DEF MInv, IInv, Types
  <2>6. edge \in BOOLEAN /\ wants \in BOOLEAN /\ fd_bits \subseteq BitNames
    BY DEF MInv, LoopTypes
  <2>7. {pumps, edge, wants} \subseteq BOOLEAN
    BY <2>5, <2>6
  <2>8. pc \in {"poll", "events", "start", "stop", "monitor", "unmonitor", "pumps", "exited"}
    BY <2>5 DEF Ready
  <2> QED BY <2>2, <2>3, <2>4, <2>5, <2>6, <2>7, <2>8 DEF TypeOK, EventTypes, BitNames
<1> QED BY <1>1, MonitorsInitially, MonitorsInvariant, PTL DEF Spec

(* The pollinator's table and the epoll set point at each other through every *)
(* start and stop, those that fail included: no epoll_ctl of pollinator.c     *)
(* fails, and no event finds the slot of another descriptor.                  *)
THEOREM TableAgreesWithEpoll == Spec => []MonitorAgrees
<1>1. MInv => MonitorAgrees
  BY TableAgreement DEF MInv, MonitorAgrees
<1> QED BY <1>1, MonitorsInitially, MonitorsInvariant, PTL DEF Spec

(* The table never has more slots than there are descriptors, and always the  *)
(* memory for them, after any number of starts and stops (pollinator.c:50-59, *)
(* array.h:52-64).                                                            *)
THEOREM TableStaysSmall == Spec => []TableBounded
<1>1. MInv => TableBounded
  <2> SUFFICES ASSUME MInv PROVE TableBounded
    OBVIOUS
  <2>1. Slotted(pol.fds)
    BY DEF MInv, Table
  <2>2. pol.fds.size \in 0..5 /\ pol.fds.size <= pol.fds.capacity
    BY <2>1, ArrayIs
  <2> QED BY <2>2 DEF TableBounded
<1> QED BY <1>1, MonitorsInitially, MonitorsInvariant, PTL DEF Spec

(* A descriptor's callback leaves its bits. *)
LEMMA BitsOf ==
  ASSUME NEW p, NEW fd, NEW evs, evs # {}, NEW bits, Monitored(p, fd) = <<evs, bits>>
  PROVE  fd \in DOMAIN p.epoll /\ p.epoll[fd].events = evs /\ pollinatorPoll(p, {fd}) = bits
<1>1. fd \in DOMAIN p.epoll
  BY DEF Monitored
<1>2. <<p.epoll[fd].events, p.fds.data[p.epoll[fd].index].bits>> = <<evs, bits>>
  BY <1>1 DEF Monitored
<1>3. p.epoll[fd].events = evs /\ p.fds.data[p.epoll[fd].index].bits = bits
  BY <1>2
<1>4. pollinatorPoll(p, {fd}) = UNION {p.fds.data[p.epoll[fd].index].bits}
  BY DEF pollinatorPoll
<1> QED BY <1>1, <1>3, <1>4

(* Whenever the loop waits, the transfers are monitored, each with the bits   *)
(* of its pumps, just if there are pumps, and the gadget's events always are: *)
(* no start or stop, however it failed, leaves the loop deaf to the host or   *)
(* awake for pumps it has not (main.c:247-281, 301-324).                      *)
THEOREM LoopListens == Spec => []MonitorsPumps
<1>1. MInv => MonitorsPumps
  <2> SUFFICES ASSUME MInv, pc = "poll"
               PROVE  /\ DOMAIN pol.epoll = {UvcFd} \cup (IF pumps THEN {CamFd, IspInFd, IspOutFd, EncFd} ELSE {})
                      /\ "EXCEPT" \in pol.epoll[UvcFd].events
                      /\ pollinatorPoll(pol, {UvcFd}) = {UVC_EVENTS} \cup (IF pumps THEN {ENC_TO_UVC} ELSE {})
                      /\ pumps => pollinatorPoll(pol, {EncFd}) = {ISP_TO_ENC, ENC_TO_UVC}
    BY DEF MonitorsPumps
  <2> DEFINE mode == IF pumps THEN "monitor" ELSE "unmonitor"
  <2>1. \A k \in 1..5 : Monitored(pol, k + 2) = Entry(mode, k)
    BY DEF MInv, EntriesFit
  <2> HIDE DEF mode
  <2>2. /\ Monitored(pol, CamFd) = Entry(mode, 1) /\ Monitored(pol, IspInFd) = Entry(mode, 2)
        /\ Monitored(pol, IspOutFd) = Entry(mode, 3) /\ Monitored(pol, EncFd) = Entry(mode, 4)
        /\ Monitored(pol, UvcFd) = Entry(mode, 5)
    <3>1. 1 \in 1..5 /\ 2 \in 1..5 /\ 3 \in 1..5 /\ 4 \in 1..5 /\ 5 \in 1..5
      OBVIOUS
    <3> QED BY <2>1, <3>1 DEF CamFd, IspInFd, IspOutFd, EncFd, UvcFd
  <2>3. DOMAIN pol.epoll \subseteq Fds /\ \A fd \in DOMAIN pol.epoll : pol.epoll[fd].events # {}
    BY DEF MInv, Table, Linked
  <2>4. CASE pumps
    <3>1. /\ Entry(mode, 1) = <<Transfer, {CAM_TO_ISP}>> /\ Entry(mode, 2) = <<Transfer, {CAM_TO_ISP}>>
          /\ Entry(mode, 3) = <<Transfer, {ISP_TO_ENC}>>
          /\ Entry(mode, 4) = <<Transfer, {ISP_TO_ENC, ENC_TO_UVC}>>
          /\ Entry(mode, 5) = <<Transfer \cup {"EXCEPT"}, {ENC_TO_UVC, UVC_EVENTS}>>
      BY <2>4 DEF mode, Entry, Registrations
    <3>2. Transfer # {} /\ Transfer \cup {"EXCEPT"} # {}
      BY DEF Transfer
    <3>3. /\ CamFd \in DOMAIN pol.epoll /\ IspInFd \in DOMAIN pol.epoll /\ IspOutFd \in DOMAIN pol.epoll
          /\ EncFd \in DOMAIN pol.epoll /\ pollinatorPoll(pol, {EncFd}) = {ISP_TO_ENC, ENC_TO_UVC}
          /\ UvcFd \in DOMAIN pol.epoll /\ pol.epoll[UvcFd].events = Transfer \cup {"EXCEPT"}
          /\ pollinatorPoll(pol, {UvcFd}) = {ENC_TO_UVC, UVC_EVENTS}
      <4>1. CamFd \in DOMAIN pol.epoll
        BY <2>2, <3>1, <3>2, BitsOf
      <4>2. IspInFd \in DOMAIN pol.epoll
        BY <2>2, <3>1, <3>2, BitsOf
      <4>3. IspOutFd \in DOMAIN pol.epoll
        BY <2>2, <3>1, <3>2, BitsOf
      <4>4. EncFd \in DOMAIN pol.epoll /\ pollinatorPoll(pol, {EncFd}) = {ISP_TO_ENC, ENC_TO_UVC}
        <5>1. Monitored(pol, EncFd) = <<Transfer, {ISP_TO_ENC, ENC_TO_UVC}>>
          BY <2>2, <3>1
        <5> QED BY <3>2, <5>1, BitsOf
      <4>5. /\ UvcFd \in DOMAIN pol.epoll /\ pol.epoll[UvcFd].events = Transfer \cup {"EXCEPT"}
            /\ pollinatorPoll(pol, {UvcFd}) = {ENC_TO_UVC, UVC_EVENTS}
        <5>1. Monitored(pol, UvcFd) = <<Transfer \cup {"EXCEPT"}, {ENC_TO_UVC, UVC_EVENTS}>>
          BY <2>2, <3>1
        <5> QED BY <3>2, <5>1, BitsOf
      <4> QED BY <4>1, <4>2, <4>3, <4>4, <4>5
    <3>4. DOMAIN pol.epoll = {UvcFd} \cup {CamFd, IspInFd, IspOutFd, EncFd}
      BY <2>3, <3>3 DEF Fds
    <3> QED BY <2>4, <3>3, <3>4
  <2>5. CASE ~pumps
    <3>1. /\ Entry(mode, 1) = <<{}, {}>> /\ Entry(mode, 2) = <<{}, {}>>
          /\ Entry(mode, 3) = <<{}, {}>> /\ Entry(mode, 4) = <<{}, {}>>
          /\ Entry(mode, 5) = <<{"EXCEPT"}, {UVC_EVENTS}>>
      BY <2>5 DEF mode, Entry, Registrations
    <3>2. /\ UvcFd \in DOMAIN pol.epoll /\ pol.epoll[UvcFd].events = {"EXCEPT"}
          /\ pollinatorPoll(pol, {UvcFd}) = {UVC_EVENTS}
      BY <2>2, <3>1, BitsOf
    <3>3. ASSUME NEW fd, Monitored(pol, fd) = <<{}, {}>> PROVE fd \notin DOMAIN pol.epoll
      BY <2>3, <3>3 DEF Monitored
    <3>4. /\ CamFd \notin DOMAIN pol.epoll /\ IspInFd \notin DOMAIN pol.epoll
          /\ IspOutFd \notin DOMAIN pol.epoll /\ EncFd \notin DOMAIN pol.epoll
      BY <2>2, <3>1, <3>3
    <3>5. DOMAIN pol.epoll = {UvcFd}
      BY <2>3, <3>2, <3>4 DEF Fds
    <3> QED BY <2>5, <3>2, <3>5
  <2> QED BY <2>4, <2>5
<1> QED BY <1>1, MonitorsInitially, MonitorsInvariant, PTL DEF Spec
====================================================================================
