----------------------------- MODULE MCMessages -----------------------------
(***************************************************************************)
(* Two server processes, one request in flight on each, and a payload with *)
(* an ordinary message, an opt-out, or both in either order.               *)
(***************************************************************************)
EXTENDS InboundMessages

CONSTANTS s1, s2, m1, stop

ServersMC == {s1, s2}

(* A request slot is named for its process. *)
RequestsMC == ServersMC
ServerOfMC == [r \in RequestsMC |-> r]

(* Every combination of faults for the short payload and for the one in    *)
(* which an opt-out hides a message; the payload in which the message      *)
(* comes first with one kind of fault at a time.                           *)
ScenariosMC ==
    ((SUBSET Faults) \X {<<m1>>, <<stop, m1>>})
        \cup ({{}, {"redis"}, {"crash"}} \X {<<m1, stop>>})
=============================================================================
