-------------------------- MODULE OrderedExecution --------------------------
(***************************************************************************)
(* What an Agent run promises to the chain: stages are handed over in      *)
(* dependency order.  A stage is sent only once every stage it depends on  *)
(* is final; what was sent or final stays so.  The run, its statuses and   *)
(* its page do not appear here.                                            *)
(***************************************************************************)
CONSTANT Stage

VARIABLES dependsOn, sent, final

vars == <<dependsOn, sent, final>>

Init ==
  /\ dependsOn \in [Stage -> SUBSET Stage]
  /\ sent = {} /\ final = {}

Send(s) ==
  /\ dependsOn[s] \subseteq final
  /\ sent' = sent \cup {s}
  /\ UNCHANGED <<dependsOn, final>>

Finish(s) ==
  /\ s \in sent
  /\ final' = final \cup {s}
  /\ UNCHANGED <<dependsOn, sent>>

Next == \E s \in Stage : Send(s) \/ Finish(s)

Spec == Init /\ [][Next]_vars
=============================================================================
