------------------------------- MODULE Requests -------------------------------
(***************************************************************************)
(* What the endpoints of javahost_main.py have in common.                  *)
(*                                                                         *)
(* The panel serves requests side by side and starts jobs beside them.     *)
(* An endpoint validates its input, does one operation step by step and    *)
(* turns any exception into an error answer; nothing orders two requests   *)
(* unless the operation itself takes a lock.                               *)
(***************************************************************************)
EXTENDS Naturals, FiniteSets

CONSTANTS
    Request,
    Faults      \* io: a write, rename or removal fails    tool: nginx, a service or the panel refuses,
                \* or its answer is lost
                \* kill: the process of a request dies

ASSUME FaultsAssumption == Faults \subseteq {"io", "tool", "kill"}

VARIABLES
    op,         \* what each request is asked to do
    pc,
    alone       \* history: no request has begun while another one was busy

reqVars == <<op, pc, alone>>

Answer  == {"done", "refused", "failed", "dead"}
Busy(r) == pc[r] \notin {"idle"} \cup Answer
Resting == \A r \in Request : ~Busy(r)

NoRequest ==
    /\ op = [r \in Request |-> [do |-> "none"]]
    /\ pc = [r \in Request |-> "idle"]
    /\ alone = TRUE

\* The next step of a request.
Goto(r, l) == pc' = [pc EXCEPT ![r] = l] /\ UNCHANGED <<op, alone>>

Begin(r, o, l) ==
    /\ pc[r] = "idle"
    /\ op' = [op EXCEPT ![r] = o]
    /\ pc' = [pc EXCEPT ![r] = l]
    /\ alone' = (alone /\ Resting)

Failing(r, f, l) == f \in Faults /\ Goto(r, l)

Dies(r) == Busy(r) /\ Failing(r, "kill", "dead")
==============================================================================
