----------------------------------- MODULE Node -----------------------------------
(***************************************************************************)
(* Node.c: a node of the pipeline has an output stream (CAPTURE), an input   *)
(* stream (OUTPUT) or both, started and stopped together.  A node is a       *)
(* function from the ends it has to their streams; an outcome carries the    *)
(* node in place of a stream.                                                *)
(***************************************************************************)
EXTENDS DeviceStream

(* The outcomes for a node of an operation on one of its ends, from those for *)
(* the stream; an end that is NULL is skipped.                                *)
OnEnd(node, end, outcomes) ==
  IF end \notin DOMAIN node
  THEN {Outcome(node, 0, 0)}
  ELSE {Outcome([node EXCEPT ![end] = out.st], out.ret, out.faults) : out \in outcomes}

(* The output starts first, and is stopped again when the input fails; what   *)
(* that stop returns is ignored.                                              *)
nodeStart(node) ==
  UNION {IF out.ret # 0 THEN {out}
         ELSE UNION {IF in.ret = 0 THEN {Outcome(in.st, 0, out.faults + in.faults)}
                     ELSE {Outcome(undo.st, in.ret, out.faults + in.faults + undo.faults) :
                             undo \in OnEnd(in.st, "output", deviceStreamStop(in.st.output))} :
                       in \in OnEnd(out.st, "input", deviceStreamStart(out.st.input))} :
           out \in OnEnd(node, "output", deviceStreamStart(node.output))}

(* Mutant of nodeStop: the input is not stopped. *)
nodeStopOutput(node) == OnEnd(node, "output", deviceStreamStop(node.output))

(* Both ends are stopped, whatever the first one returns. *)
nodeStop(node) ==
  UNION {{Outcome(in.st, IF out.ret # 0 THEN out.ret ELSE in.ret, out.faults + in.faults) :
            in \in OnEnd(out.st, "input", deviceStreamStop(out.st.input))} :
           out \in OnEnd(node, "output", deviceStreamStop(node.output))}
====================================================================================
