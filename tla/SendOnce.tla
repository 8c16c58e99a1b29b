------------------------------ MODULE SendOnce ------------------------------
(***************************************************************************)
(* What a governed email execution promises its caller: under one          *)
(* idempotency key a message is handed over at most once; an execution     *)
(* that failed handed nothing over and may be tried again, one that is     *)
(* done handed it over, and one in doubt is never tried again.             *)
(***************************************************************************)
EXTENDS Naturals

CONSTANT Keys

VARIABLES state, sent

vars == <<state, sent>>

Init ==
    /\ state = [k \in Keys |-> "open"]
    /\ sent = [k \in Keys |-> 0]

Start(k) ==
    /\ state[k] \in {"open", "failed"} /\ sent[k] = 0
    /\ state' = [state EXCEPT ![k] = "running"]
    /\ UNCHANGED sent

HandOver(k) ==
    /\ state[k] \in {"running", "doubtful"} /\ sent[k] = 0
    /\ sent' = [sent EXCEPT ![k] = 1]
    /\ UNCHANGED state

Doubt(k) ==
    /\ state[k] = "running"
    /\ state' = [state EXCEPT ![k] = "doubtful"]
    /\ UNCHANGED sent

Finish(k) ==
    /\ state[k] \in {"running", "doubtful"} /\ sent[k] = 1
    /\ state' = [state EXCEPT ![k] = "done"]
    /\ UNCHANGED sent

Fail(k) ==
    /\ state[k] = "running" /\ sent[k] = 0
    /\ state' = [state EXCEPT ![k] = "failed"]
    /\ UNCHANGED sent

Next == \E k \in Keys : Start(k) \/ HandOver(k) \/ Doubt(k) \/ Finish(k) \/ Fail(k)

Spec == Init /\ [][Next]_vars
=============================================================================
