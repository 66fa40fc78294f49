----------------------------- MODULE MCTwoRails -----------------------------
(***************************************************************************)
(* Instances of TwoRails for TLC.  The slots of the Xendit webhook are     *)
(* pairs of a worker and an event, those of the other rail triples with    *)
(* the endpoint called.                                                    *)
(***************************************************************************)
EXTENDS TwoRails, TLC

CONSTANTS w1, w2, e1, e2, a1

NoDelivery  == {}
OneDelivery == {<<w1, e1>>}

(* One callback at each endpoint.                                          *)
BothEndpoints == {<<w2, e1, "checkout">>, <<w2, e2, "qris">>}

(* One callback, at the endpoint with the weaker guard.                    *)
OneCallback == {<<w2, e2, "checkout">>}

(* One callback, at the endpoint that also stops at cancelled orders.      *)
CallbackAtQris == {<<w2, e2, "qris">>}

AllSlots == Deliveries \cup Callbacks

WorkerOfSlot == [d \in Deliveries |-> d[1]]
EventOfSlot  == [d \in Deliveries |-> d[2]]

WorkerOfCallback == [c \in Callbacks |-> c[1]]
EventOfCallback  == [c \in Callbacks |-> c[2]]
KindOfCallback   == [c \in Callbacks |-> c[3]]
=============================================================================
