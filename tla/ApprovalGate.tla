---------------------------- MODULE ApprovalGate ----------------------------
(***************************************************************************)
(* What the proposal pipeline promises about one tool call: a call that    *)
(* needs confirmation is granted only after a person was asked, a call is  *)
(* granted or denied once, and only a granted call runs.  DomainExecutor   *)
(* is the pipeline that has to keep this promise.                          *)
(***************************************************************************)

CONSTANTS Proposals,    \* tool calls, one proposal id each
          Confirm       \* the ones whose tool has requires_confirmation

VARIABLE gate           \* gate[p]: what has been decided about call p

GateStates == {"new", "asked", "granted", "denied", "ran"}

Init == gate = [p \in Proposals |-> "new"]

Move(p, from, to) == gate[p] = from /\ gate' = [gate EXCEPT ![p] = to]

\* The call is shown to a person.
Ask(p) == p \in Confirm /\ Move(p, "new", "asked")

\* The policy grants a call that needs no confirmation.
GrantByPolicy(p) == p \notin Confirm /\ Move(p, "new", "granted")

\* A person grants a call.
GrantByUser(p) == Move(p, "asked", "granted")

\* Validation, the state gate, the duplicate check or a person denies a call.
Deny(p) == Move(p, "new", "denied") \/ Move(p, "asked", "denied")

\* The handler of the tool starts.
Run(p) == Move(p, "granted", "ran")

Next == \E p \in Proposals :
          Ask(p) \/ GrantByPolicy(p) \/ GrantByUser(p) \/ Deny(p) \/ Run(p)

Spec == Init /\ [][Next]_gate

=============================================================================
