---------------------------- MODULE SerialService ----------------------------
(***************************************************************************)
(* What the manager promises its clients: requests are taken one at a      *)
(* time, each is answered at most once, and an answer is final.            *)
(***************************************************************************)
CONSTANTS Slots

VARIABLES
  stage,    \* stage[s]: "new", "waiting", "running" or "answered"
  answer    \* answer[s]: "none" until s is answered

serviceVars == <<stage, answer>>

Answers == {"ok", "failed", "evicted", "timeout", "refused", "cancelled"}

Init ==
  /\ stage = [s \in Slots |-> "new"]
  /\ answer = [s \in Slots |-> "none"]

Accept(s) ==
  /\ stage[s] = "new"
  /\ stage' = [stage EXCEPT ![s] = "waiting"]
  /\ UNCHANGED answer

\* Only one request runs, and it starts running before anybody answers it
\* or after its client stopped waiting for the answer.
Start(s) ==
  /\ stage[s] = "waiting"
  /\ \A t \in Slots : stage[t] # "running"
  /\ stage' = [stage EXCEPT ![s] = "running"]
  /\ UNCHANGED answer

\* A result comes from running; every other answer may come at any time,
\* and several waiting requests may be turned away together.
Reply(S) ==
  /\ \A s \in S : answer[s] = "none"
  /\ \E a \in Answers :
       /\ a = "ok" => \A s \in S : stage[s] = "running"
       /\ answer' = [s \in Slots |-> IF s \in S THEN a ELSE answer[s]]
  /\ stage' = [s \in Slots |-> IF s \in S THEN "answered" ELSE stage[s]]

Next ==
  \/ \E s \in Slots : Accept(s) \/ Start(s)
  \/ \E S \in (SUBSET Slots) \ {{}} : Reply(S)

SerialSpec == Init /\ [][Next]_serviceVars
==============================================================================
