----------------------------- MODULE MCBilling -----------------------------
(* Instances of the commercial subscription for TLC.                        *)
EXTENDS BillingEvents, TLC

BillingSymmetry == Permutations(Subs) \cup Permutations(Plans) \cup Permutations(Hooks)

\* Bounds.  Two requests at a time, and only while there is one session and at most
\* four events; with two sessions there are at most four events.
Sessions == {k \in Subs : stripe[k].status # "none"}
UnderWay == {s \in Clerks \cup Hooks : ~At(s, "idle")}
OverlapBound ==
    LET short == Len(events) < MaxEvents
        single == Cardinality(Sessions) <= 1
    IN  /\ short \/ single
        /\ Cardinality(UnderWay) <= IF short /\ single THEN 2 ELSE 1
=============================================================================
