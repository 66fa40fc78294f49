-------------------------- MODULE MCXenditWebhook --------------------------
(***************************************************************************)
(* Instances of XenditWebhook for TLC.  A slot is a pair of a worker and   *)
(* an event, so every event may arrive at every worker of the instance.    *)
(***************************************************************************)
EXTENDS XenditWebhook, TLC

CONSTANTS w1, w2, e1, e2

(* Two events of one payment (an invoice and its QR code) at two workers.  *)
TwoEvents == {<<w1, e1>>, <<w2, e2>>}

(* The same with the first event delivered twice (or, with e2 in NonPaid,  *)
(* a payment delivered twice and a notice that is no payment).             *)
Duplicate == {<<w1, e1>>, <<w2, e1>>, <<w2, e2>>}

(* One event delivered twice.                                              *)
SameEvent == {<<w1, e1>>, <<w2, e1>>}

WorkerOfSlot == [d \in Deliveries |-> d[1]]
EventOfSlot  == [d \in Deliveries |-> d[2]]
=============================================================================
