------------------------ MODULE Subscriptions_proofs ------------------------
(***************************************************************************)
(* Proofs about Subscriptions: its types, that commissions are booked once *)
(* but for activations that could not see one another, and that a recorded *)
(* period is served but for the three causes PaidPeriodIsServed names.     *)
(***************************************************************************)
EXTENDS Subscriptions, TLAPS

Dating == {"insert"} \cup Late

(* The ledger follows the rows of an invoice whose activations saw one     *)
(* another: one of them at most is before the row, and one between the row *)
(* and the ledger.                                                         *)
BookOf(i) ==
    /\ ledger[i] <= 1
    /\ ~Recorded(i) => ledger[i] = 0
    /\ \A s \in Servers :
          /\ On(s, i, Early) => ~Recorded(i)
          /\ On(s, i, {"ledger"}) => Recorded(i) /\ ledger[i] = 0
    /\ \A s, t \in Servers :
          On(s, i, Early \cup {"ledger"}) /\ On(t, i, Early \cup {"ledger"}) => s = t

BookInv == \A i \in Invoices \ unseen : BookOf(i)

(* What an activation has done before it comes where it is.                *)
OrderInv ==
    /\ \A s \in Servers :
          /\ Doing(s, Late) => [invoice |-> work[s].invoice, until |-> work[s].until] \in active
          /\ Doing(s, Dating) /\ invoice[work[s].invoice].upgrade => work[s].invoice \in upgradeComms
          /\ Doing(s, {"commission"}) => invoice[work[s].invoice].upgrade
          /\ Doing(s, Early \cup Late) => invoice[work[s].invoice].state = "paid"
    /\ \A x \in active :
          /\ invoice[x.invoice].state = "paid"
          /\ invoice[x.invoice].upgrade => x.invoice \in upgradeComms

(* No end date lies further ahead than a whole period, and a date earlier  *)
(* than the tenant's is that of an upgrade that is behind.                 *)
DateInv ==
    /\ tenant.until <= day + Period
    /\ \A i \in Invoices :
          /\ invoice[i].until # 0 => invoice[i].upgrade
          /\ invoice[i].until <= day + Period
          /\ invoice[i].until # 0 /\ invoice[i].until < tenant.until => i \in behind
    /\ merchantUntil <= day + Period
    /\ \A s \in Servers :
          Doing(s, Dating) =>
              /\ work[s].until <= day + Period
              /\ ~invoice[work[s].invoice].upgrade => work[s].until = day + Period
              /\ work[s].until < tenant.until => work[s].invoice \in behind

PlanInv == BookInv /\ OrderInv /\ DateInv /\ PaidPeriodIsServed

-----------------------------------------------------------------------------
(* The types                                                               *)

(* What a step of an activation makes of work.                             *)
LEMMA WorkTyped ==
  ASSUME PlanTypeOK, NEW s \in Servers, Doing(s, Early \cup Late)
  PROVE  /\ work[s] \in Busy /\ work[s].invoice \in Invoices /\ work[s].until \in Nat
         /\ \A step \in Early \cup Late : Proceeds(s, step) => work' \in [Servers -> {Idle} \cup Busy]
         /\ \A u \in Nat : Dates(s, u) => work' \in [Servers -> {Idle} \cup Busy]
         /\ Stops(s) => work' \in [Servers -> {Idle} \cup Busy]
<1>1. work[s] \in {Idle} \cup Busy
  BY DEF PlanTypeOK
<1>2. work[s] \in Busy
  BY <1>1 DEF Doing, Idle, Early, Late
<1>3. ASSUME NEW step \in Early \cup Late
      PROVE  [work[s] EXCEPT !.step = step] \in Busy
  BY <1>2 DEF Busy
<1>4. work[s].invoice \in Invoices /\ work[s].until \in Nat
  BY <1>2 DEF Busy
<1>5. ASSUME NEW step \in Early \cup Late, Proceeds(s, step)
      PROVE  work' \in [Servers -> {Idle} \cup Busy]
  BY <1>3, <1>5 DEF PlanTypeOK, Proceeds
<1>6. ASSUME NEW u \in Nat, Dates(s, u)
      PROVE  work' \in [Servers -> {Idle} \cup Busy]
  <2>1. work' = [work EXCEPT ![s] = [work[s] EXCEPT !.step = "insert", !.until = u]]
    BY <1>6 DEF Dates, PlanTypeOK
  <2>2. [work[s] EXCEPT !.step = "insert", !.until = u] \in Busy
    BY <1>2 DEF Busy, Early
  <2>3. QED
    BY <2>1, <2>2 DEF PlanTypeOK
<1>7. Stops(s) => work' \in [Servers -> {Idle} \cup Busy]
  BY DEF PlanTypeOK, Stops
<1>8. QED
  BY <1>2, <1>4, <1>5, <1>6, <1>7

LEMMA TypeInit == PlanInit => PlanTypeOK
BY PlanAssumption DEF PlanInit, PlanTypeOK, Bills, Row

LEMMA TypeStep == PlanTypeOK /\ [PlanNext]_planVars => PlanTypeOK'
<1> SUFFICES ASSUME PlanTypeOK, [PlanNext]_planVars PROVE PlanTypeOK'
  OBVIOUS
<1> USE PlanAssumption
<1>1. CASE Midnight
  BY <1>1 DEF Midnight, PlanTypeOK, moneyVars, dateVars, pastVars
<1>2. ASSUME NEW i \in Invoices, Pay(i) PROVE PlanTypeOK'
  <2>1. [invoice[i] EXCEPT !.state = "paid"] \in Bills
    BY DEF PlanTypeOK, Bills
  <2>2. invoice' \in [Invoices -> Bills]
    BY <1>2, <2>1 DEF Pay, PlanTypeOK
  <2>3. QED
    BY <1>2, <2>2 DEF Pay, PlanTypeOK, moneyVars, dateVars, pastVars
<1>3. ASSUME NEW i \in Invoices, NEW upgrade \in BOOLEAN, Issue(i, upgrade) PROVE PlanTypeOK'
  <2>1. Quotes \subseteq Nat
    BY DEF Quotes, PlanTypeOK
  <2>2. PICK u \in Nat : invoice' = [invoice EXCEPT ![i] =
              [state |-> "open", upgrade |-> upgrade, until |-> u, on |-> day]]
    BY <1>3, <2>1 DEF Issue
  <2>3. invoice' \in [Invoices -> Bills]
    BY <2>2 DEF PlanTypeOK, Bills
  <2>4. QED
    BY <1>3, <2>3 DEF Issue, PlanTypeOK, moneyVars, dateVars, pastVars
<1>4. ASSUME NEW s \in Servers, NEW i \in Invoices, Activate(s, i) PROVE PlanTypeOK'
  <2>1. /\ [step |-> "commission", invoice |-> i, until |-> 0] \in Busy
        /\ [step |-> "insert", invoice |-> i, until |-> day + Period] \in Busy
    BY DEF Busy, Early, PlanTypeOK
  <2>2. work' \in [Servers -> {Idle} \cup Busy]
    BY <1>4, <2>1 DEF Activate, PlanTypeOK
  <2>3. QED
    BY <1>4, <2>2 DEF Activate, PlanTypeOK, moneyVars, dateVars
<1>5. ASSUME NEW s \in Servers, Commission(s) PROVE PlanTypeOK'
  <2>1. work[s].invoice \in Invoices
    BY <1>5, WorkTyped DEF Commission, Doing, Early
  <2>2. PICK u \in Nat : Dates(s, u)
    BY <1>5, <2>1 DEF Commission, PlanTypeOK, Bills
  <2>3. work' \in [Servers -> {Idle} \cup Busy]
    BY <1>5, <2>2, WorkTyped DEF Commission, Doing, Early
  <2>4. QED
    BY <1>5, <2>1, <2>3 DEF Commission, PlanTypeOK, dateVars
<1>6. ASSUME NEW s \in Servers, InsertActive(s) PROVE PlanTypeOK'
  <2>1. work[s].invoice \in Invoices /\ work[s].until \in Nat
        /\ work' \in [Servers -> {Idle} \cup Busy]
    BY <1>6, WorkTyped DEF InsertActive, Doing, Early, Late
  <2>2. QED
    BY <1>6, <2>1 DEF InsertActive, PlanTypeOK, Row, moneyVars, dateVars, pastVars
<1>7. ASSUME NEW s \in Servers, Book(s) PROVE PlanTypeOK'
  <2>1. work[s].invoice \in Invoices /\ work' \in [Servers -> {Idle} \cup Busy]
    BY <1>7, WorkTyped DEF Book, Doing, Late
  <2>2. ledger' \in [Invoices -> Nat]
    BY <1>7, <2>1 DEF Book, PlanTypeOK
  <2>3. QED
    BY <1>7, <2>1, <2>2 DEF Book, PlanTypeOK, dateVars, pastVars
<1>8. ASSUME NEW s \in Servers, UpdateMerchant(s) PROVE PlanTypeOK'
  <2>1. work[s].until \in Nat /\ work' \in [Servers -> {Idle} \cup Busy]
    BY <1>8, WorkTyped DEF UpdateMerchant, Doing, Late
  <2>2. QED
    BY <1>8, <2>1 DEF UpdateMerchant, PlanTypeOK, moneyVars, pastVars
<1>9. ASSUME NEW s \in Servers, UpdateTenant(s) PROVE PlanTypeOK'
  <2>1. work[s].until \in Nat /\ work' \in [Servers -> {Idle} \cup Busy]
    BY <1>9, WorkTyped DEF UpdateTenant, Doing, Late
  <2>2. Dated \subseteq Invoices
    BY DEF Dated
  <2>3. QED
    BY <1>9, <2>1, <2>2 DEF UpdateTenant, PlanTypeOK, moneyVars
<1>10. ASSUME NEW s \in Servers, Raises(s) PROVE PlanTypeOK'
  <2>1. work' \in [Servers -> {Idle} \cup Busy]
    BY <1>10, WorkTyped DEF Raises, Doing
  <2>2. QED
    BY <1>10, <2>1 DEF Raises, PlanTypeOK, moneyVars, dateVars, pastVars
<1>11. ASSUME NEW s \in Servers, StopsHalfWay(s) PROVE PlanTypeOK'
  <2>1. work[s].invoice \in Invoices /\ work' \in [Servers -> {Idle} \cup Busy]
    BY <1>11, WorkTyped DEF StopsHalfWay, Doing
  <2>2. QED
    BY <1>11, <2>1 DEF StopsHalfWay, PlanTypeOK, moneyVars, dateVars
<1>12. CASE UNCHANGED planVars
  BY <1>12 DEF planVars, PlanTypeOK, moneyVars, dateVars, pastVars
<1>13. QED
  BY <1>1, <1>2, <1>3, <1>4, <1>5, <1>6, <1>7, <1>8, <1>9, <1>10, <1>11, <1>12 DEF PlanNext

(* Every variable keeps its type, for any processes, invoices and bounds.  *)
THEOREM PlanTypeCorrect == PlanSpec => []PlanTypeOK
<1>1. QED
  BY TypeInit, TypeStep, PTL DEF PlanSpec

-----------------------------------------------------------------------------
(* Where a step of an activation leaves the processes                      *)

LEMMA StepNames ==
  /\ {"commission", "insert"} \subseteq Early \cup Late
  /\ {"ledger", "merchant", "tenant"} \subseteq Late
BY DEF Early, Late

LEMMA Moves ==
  ASSUME PlanTypeOK, NEW s \in Servers
  PROVE  /\ \A step \in Late : Doing(s, Early \cup Late) /\ Proceeds(s, step) =>
               /\ work'[s].step = step
               /\ work'[s].invoice = work[s].invoice /\ work'[s].until = work[s].until
               /\ \A t \in Servers \ {s} : work'[t] = work[t]
         /\ \A u \in Nat : Doing(s, Early \cup Late) /\ Dates(s, u) =>
               /\ work'[s].step = "insert"
               /\ work'[s].invoice = work[s].invoice /\ work'[s].until = u
               /\ \A t \in Servers \ {s} : work'[t] = work[t]
         /\ Stops(s) => work'[s] = Idle /\ \A t \in Servers \ {s} : work'[t] = work[t]
<1>1. ASSUME NEW step \in Late, Doing(s, Early \cup Late), Proceeds(s, step)
      PROVE  /\ work'[s].step = step
             /\ work'[s].invoice = work[s].invoice /\ work'[s].until = work[s].until
             /\ \A t \in Servers \ {s} : work'[t] = work[t]
  <2>1. work[s] \in Busy
    BY <1>1, WorkTyped
  <2>2. work' = [work EXCEPT ![s] = [work[s] EXCEPT !.step = step]]
    BY <1>1 DEF Proceeds
  <2>3. work'[s] = [work[s] EXCEPT !.step = step]
    BY <2>2 DEF PlanTypeOK
  <2>4. QED
    BY <2>1, <2>2, <2>3 DEF PlanTypeOK, Busy
<1>2. ASSUME NEW u \in Nat, Doing(s, Early \cup Late), Dates(s, u)
      PROVE  /\ work'[s].step = "insert"
             /\ work'[s].invoice = work[s].invoice /\ work'[s].until = u
             /\ \A t \in Servers \ {s} : work'[t] = work[t]
  <2>1. work[s] \in Busy
    BY <1>2, WorkTyped
  <2>2. work' = [work EXCEPT ![s] = [work[s] EXCEPT !.step = "insert", !.until = u]]
    BY <1>2 DEF Dates, PlanTypeOK
  <2>3. work'[s] = [work[s] EXCEPT !.step = "insert", !.until = u]
    BY <2>2 DEF PlanTypeOK
  <2>4. QED
    BY <2>1, <2>2, <2>3 DEF PlanTypeOK, Busy
<1>3. Stops(s) => work'[s] = Idle /\ \A t \in Servers \ {s} : work'[t] = work[t]
  BY DEF Stops, PlanTypeOK
<1>4. QED
  BY <1>1, <1>2, <1>3

-----------------------------------------------------------------------------
(* Commissions                                                             *)

LEMMA BookStep ==
  ASSUME PlanTypeOK, BookInv, [PlanNext]_planVars
  PROVE  BookInv'
<1> USE DEF BookInv, BookOf, On, Recorded
<1>1. CASE Midnight
  BY <1>1 DEF Midnight, Doing, moneyVars, pastVars
<1>2. ASSUME NEW i \in Invoices, Pay(i) PROVE BookInv'
  BY <1>2 DEF Pay, Doing, moneyVars, pastVars
<1>3. ASSUME NEW i \in Invoices, NEW upgrade \in BOOLEAN, Issue(i, upgrade) PROVE BookInv'
  BY <1>3 DEF Issue, Doing, moneyVars, pastVars
<1>4. ASSUME NEW s \in Servers, NEW i \in Invoices, Activate(s, i) PROVE BookInv'
  <2>1. /\ work'[s].step \in Early /\ work'[s].invoice = i
        /\ \A t \in Servers \ {s} : work'[t] = work[t]
        /\ UNCHANGED <<active, ledger>> /\ unseen \subseteq unseen'
    BY <1>4 DEF Activate, PlanTypeOK, Early, moneyVars
  <2>2. i \in unseen' \/ (~Recorded(i) /\ \A t \in Servers : ~On(t, i, Early))
    BY <1>4 DEF Activate
  <2>3. ASSUME NEW j \in Invoices \ unseen' PROVE BookOf(j)'
    <3>1. CASE j = i
      <4>1. ~Recorded(i) /\ \A t \in Servers : ~On(t, i, Early \cup {"ledger"})
        BY <2>1, <2>2, <2>3, <3>1 DEF Doing
      <4>2. QED
        BY <2>1, <2>3, <3>1, <4>1 DEF Doing, Early
    <3>2. CASE j # i
      BY <2>1, <2>3, <3>2 DEF Doing
    <3>3. QED
      BY <3>1, <3>2
  <2>4. QED
    BY <2>3
<1>5. ASSUME NEW s \in Servers, Commission(s) PROVE BookInv'
  <2>1. work[s].invoice \in Invoices /\ Doing(s, Early \cup Late)
    BY <1>5, WorkTyped DEF Commission, Doing, Early
  <2>2. PICK u \in Nat : Dates(s, u)
    BY <1>5, <2>1, PlanAssumption DEF Commission, PlanTypeOK, Bills
  <2>3. /\ work'[s].step = "insert" /\ work[s].step = "commission"
        /\ work'[s].invoice = work[s].invoice
        /\ \A t \in Servers \ {s} : work'[t] = work[t]
    BY <1>5, <2>1, <2>2, Moves DEF Commission, Doing
  <2>4. QED
    BY <1>5, <2>3 DEF Commission, Doing, Early
<1>6. ASSUME NEW s \in Servers, InsertActive(s) PROVE BookInv'
  <2>1. /\ work'[s].step = "ledger" /\ work[s].step = "insert"
        /\ work'[s].invoice = work[s].invoice
        /\ \A t \in Servers \ {s} : work'[t] = work[t]
    BY <1>6, Moves, StepNames DEF InsertActive, Doing
  <2>2. \A j \in Invoices : Recorded(j)' <=> (Recorded(j) \/ j = work[s].invoice)
    <3> DEFINE row == [invoice |-> work[s].invoice, until |-> work[s].until]
    <3>1. active' = active \cup {row} /\ row.invoice = work[s].invoice
      BY <1>6 DEF InsertActive
    <3>2. QED
      BY <3>1
  <2>3. ASSUME NEW j \in Invoices \ unseen PROVE BookOf(j)'
    <3>1. CASE j = work[s].invoice
      BY <1>6, <2>1, <2>2, <2>3, <3>1 DEF InsertActive, Doing, Early, moneyVars
    <3>2. CASE j # work[s].invoice
      BY <1>6, <2>1, <2>2, <2>3, <3>2 DEF InsertActive, Doing, Early, moneyVars
    <3>3. QED
      BY <3>1, <3>2
  <2>4. QED
    BY <1>6, <2>3 DEF InsertActive, pastVars
<1>7. ASSUME NEW s \in Servers, Book(s) PROVE BookInv'
  <2>1. /\ work'[s].step = "merchant" /\ work[s].step = "ledger"
        /\ work'[s].invoice = work[s].invoice
        /\ \A t \in Servers \ {s} : work'[t] = work[t]
    BY <1>7, Moves, StepNames DEF Book, Doing
  <2>2. /\ \A j \in Invoices : j # work[s].invoice => ledger'[j] = ledger[j]
        /\ work[s].invoice \in Invoices => ledger'[work[s].invoice] \in {ledger[work[s].invoice], ledger[work[s].invoice] + 1}
    BY <1>7 DEF Book, PlanTypeOK
  <2>3. ASSUME NEW j \in Invoices \ unseen PROVE BookOf(j)'
    <3>1. CASE j = work[s].invoice
      BY <1>7, <2>1, <2>2, <2>3, <3>1 DEF Book, Doing, Early
    <3>2. CASE j # work[s].invoice
      BY <1>7, <2>1, <2>2, <2>3, <3>2 DEF Book, Doing, Early
    <3>3. QED
      BY <3>1, <3>2
  <2>4. QED
    BY <1>7, <2>3 DEF Book, pastVars
<1>8. ASSUME NEW s \in Servers, UpdateMerchant(s) PROVE BookInv'
  <2>1. /\ work'[s].step = "tenant"
        /\ \A t \in Servers \ {s} : work'[t] = work[t]
    BY <1>8, Moves, StepNames DEF UpdateMerchant, Doing
  <2>2. QED
    BY <1>8, <2>1 DEF UpdateMerchant, Doing, Early, moneyVars, pastVars
<1>9. ASSUME NEW s \in Servers, Stops(s), UNCHANGED <<active, ledger, unseen>> PROVE BookInv'
  <2>1. work'[s] = Idle /\ \A t \in Servers \ {s} : work'[t] = work[t]
    BY <1>9, Moves
  <2>2. QED
    BY <1>9, <2>1 DEF Doing, Early, Idle
<1>10. ASSUME NEW s \in Servers, UpdateTenant(s) \/ Raises(s) \/ StopsHalfWay(s) PROVE BookInv'
  BY <1>9, <1>10 DEF UpdateTenant, Raises, StopsHalfWay, moneyVars, pastVars
<1>11. CASE UNCHANGED planVars
  BY <1>11 DEF planVars, Doing, moneyVars, pastVars
<1>12. QED
  BY <1>1, <1>2, <1>3, <1>4, <1>5, <1>6, <1>7, <1>8, <1>10, <1>11 DEF PlanNext

-----------------------------------------------------------------------------
(* Rows and what precedes them                                             *)

LEMMA OrderStep ==
  ASSUME PlanTypeOK, OrderInv, [PlanNext]_planVars
  PROVE  OrderInv'
<1> USE DEF OrderInv, Dating
<1>1. CASE Midnight
  BY <1>1 DEF Midnight, Doing, moneyVars
<1>2. ASSUME NEW i \in Invoices, Pay(i) PROVE OrderInv'
  <2>1. /\ \A j \in Invoices : /\ invoice'[j].upgrade = invoice[j].upgrade
                               /\ invoice[j].state = "paid" => invoice'[j].state = "paid"
        /\ UNCHANGED <<active, upgradeComms, work>>
    BY <1>2 DEF Pay, PlanTypeOK, Bills, moneyVars
  <2>2. /\ \A x \in active : x.invoice \in Invoices
        /\ \A s \in Servers : Doing(s, Early \cup Late) => work[s].invoice \in Invoices
    BY WorkTyped DEF PlanTypeOK, Row
  <2>3. QED
    BY <2>1, <2>2, StepNames DEF Doing
<1>3. ASSUME NEW i \in Invoices, NEW upgrade \in BOOLEAN, Issue(i, upgrade) PROVE OrderInv'
  <2>1. /\ \A j \in Invoices : j # i => invoice'[j] = invoice[j]
        /\ invoice[i].state # "paid"
        /\ UNCHANGED <<active, upgradeComms, work>>
    BY <1>3 DEF Issue, PlanTypeOK, moneyVars
  <2>2. /\ \A x \in active : x.invoice \in Invoices
        /\ \A s \in Servers : Doing(s, Early \cup Late) => work[s].invoice \in Invoices
    BY WorkTyped DEF PlanTypeOK, Row
  <2>3. QED
    BY <2>1, <2>2, StepNames DEF Doing
<1>4. ASSUME NEW s \in Servers, NEW i \in Invoices, Activate(s, i) PROVE OrderInv'
  <2>1. /\ work'[s].step = (IF invoice[i].upgrade THEN "commission" ELSE "insert")
        /\ work'[s].invoice = i /\ invoice[i].state = "paid"
        /\ \A t \in Servers \ {s} : work'[t] = work[t]
        /\ UNCHANGED <<active, upgradeComms, invoice>>
    BY <1>4 DEF Activate, PlanTypeOK, moneyVars
  <2>2. QED
    BY <2>1 DEF Doing, Early, Late
<1>5. ASSUME NEW s \in Servers, Commission(s) PROVE OrderInv'
  <2>1. work[s].invoice \in Invoices /\ Doing(s, Early \cup Late)
    BY <1>5, WorkTyped DEF Commission, Doing, Early
  <2>2. PICK u \in Nat : Dates(s, u)
    BY <1>5, <2>1, PlanAssumption DEF Commission, PlanTypeOK, Bills
  <2>3. /\ work'[s].step = "insert" /\ work'[s].invoice = work[s].invoice
        /\ \A t \in Servers \ {s} : work'[t] = work[t]
        /\ upgradeComms' = upgradeComms \cup {work[s].invoice}
        /\ UNCHANGED <<active, invoice>>
    BY <1>5, <2>1, <2>2, Moves DEF Commission
  <2>4. QED
    BY <2>1, <2>3 DEF Doing, Early, Late
<1>6. ASSUME NEW s \in Servers, InsertActive(s) PROVE OrderInv'
  <2>1. /\ work'[s].step = "ledger" /\ work[s].step = "insert"
        /\ work'[s].invoice = work[s].invoice /\ work'[s].until = work[s].until
        /\ \A t \in Servers \ {s} : work'[t] = work[t]
    BY <1>6, Moves, StepNames DEF InsertActive, Doing
  <2> DEFINE row == [invoice |-> work[s].invoice, until |-> work[s].until]
  <2>2. active' = active \cup {row} /\ row.invoice = work[s].invoice
        /\ UNCHANGED <<upgradeComms, invoice>>
    BY <1>6 DEF InsertActive, moneyVars
  <2>3. /\ invoice[row.invoice].state = "paid"
        /\ invoice[row.invoice].upgrade => row.invoice \in upgradeComms
    BY <2>1, <2>2 DEF Doing, Early
  <2>4. \A x \in active' :
          /\ invoice[x.invoice].state = "paid"
          /\ invoice[x.invoice].upgrade => x.invoice \in upgradeComms
    BY <2>2, <2>3
  <2>5. [invoice |-> work'[s].invoice, until |-> work'[s].until] = row
    BY <2>1
  <2>6. QED
    BY <2>1, <2>2, <2>3, <2>4, <2>5 DEF Doing, Early, Late
<1>7. ASSUME NEW s \in Servers, NEW step \in {"merchant", "tenant"}, Doing(s, Late), Proceeds(s, step),
             UNCHANGED <<active, upgradeComms, invoice>>
      PROVE  OrderInv'
  <2>1. /\ work'[s].step = step
        /\ work'[s].invoice = work[s].invoice /\ work'[s].until = work[s].until
        /\ \A t \in Servers \ {s} : work'[t] = work[t]
    BY <1>7, Moves, StepNames DEF Doing
  <2>2. QED
    BY <1>7, <2>1 DEF Doing, Early, Late
<1>8. ASSUME NEW s \in Servers, Book(s) \/ UpdateMerchant(s) PROVE OrderInv'
  BY <1>7, <1>8 DEF Book, UpdateMerchant, Doing, Late, moneyVars
<1>9. ASSUME NEW s \in Servers, UpdateTenant(s) \/ Raises(s) \/ StopsHalfWay(s) PROVE OrderInv'
  <2>1. work'[s] = Idle /\ \A t \in Servers \ {s} : work'[t] = work[t]
    BY <1>9, Moves DEF UpdateTenant, Raises, StopsHalfWay
  <2>2. QED
    BY <1>9, <2>1 DEF UpdateTenant, Raises, StopsHalfWay, Doing, Early, Late, Idle, moneyVars
<1>10. CASE UNCHANGED planVars
  BY <1>10 DEF planVars, Doing, moneyVars
<1>11. QED
  BY <1>1, <1>2, <1>3, <1>4, <1>5, <1>6, <1>8, <1>9, <1>10 DEF PlanNext

-----------------------------------------------------------------------------
(* Dates                                                                   *)

LEMMA QuoteBounds ==
  ASSUME PlanTypeOK, tenant.until <= day + Period, NEW u \in Quotes
  PROVE  u \in Nat /\ u <= day + Period /\ u >= tenant.until
BY PlanAssumption DEF Quotes, PlanTypeOK

LEMMA DateStep ==
  ASSUME PlanTypeOK, OrderInv, DateInv, [PlanNext]_planVars
  PROVE  DateInv'
<1> USE PlanAssumption DEF DateInv, Dating
<1>1. CASE Midnight
  <2>1. \A s \in Servers : ~Doing(s, Dating)'
    BY <1>1 DEF Midnight, Doing, Idle, Late
  <2>2. /\ day' = day + 1 /\ day \in Nat /\ tenant.until \in Nat /\ merchantUntil \in Nat
        /\ \A i \in Invoices : invoice[i].until \in Nat
        /\ UNCHANGED <<invoice, tenant, merchantUntil, behind>>
    BY <1>1 DEF Midnight, PlanTypeOK, Bills, dateVars, pastVars
  <2>3. /\ tenant'.until <= day' + Period
        /\ merchantUntil' <= day' + Period
    BY <2>2
  <2>4. ASSUME NEW i \in Invoices
        PROVE  /\ invoice'[i].until # 0 => invoice'[i].upgrade
               /\ invoice'[i].until <= day' + Period
               /\ invoice'[i].until # 0 /\ invoice'[i].until < tenant'.until => i \in behind'
    BY <2>2
  <2>5. QED
    BY <2>1, <2>3, <2>4
<1>2. ASSUME NEW i \in Invoices, Pay(i) PROVE DateInv'
  <2>1. /\ \A j \in Invoices : invoice'[j].upgrade = invoice[j].upgrade /\ invoice'[j].until = invoice[j].until
        /\ UNCHANGED <<day, tenant, merchantUntil, work, behind>>
    BY <1>2 DEF Pay, PlanTypeOK, Bills, dateVars, pastVars
  <2>2. \A s \in Servers : Doing(s, Dating) => work[s].invoice \in Invoices
    BY WorkTyped, StepNames DEF Doing
  <2>3. QED
    BY <2>1, <2>2 DEF Doing
<1>3. ASSUME NEW i \in Invoices, NEW upgrade \in BOOLEAN, Issue(i, upgrade) PROVE DateInv'
  <2>1. /\ \A j \in Invoices : j # i => invoice'[j] = invoice[j]
        /\ invoice[i].state # "paid"
        /\ UNCHANGED <<day, tenant, merchantUntil, work, behind>>
    BY <1>3 DEF Issue, PlanTypeOK, dateVars, pastVars
  <2>2. PICK u \in IF upgrade THEN Quotes \cup {0} ELSE {0} :
            invoice'[i] = [state |-> "open", upgrade |-> upgrade, until |-> u, on |-> day]
    BY <1>3 DEF Issue, PlanTypeOK
  <2>3. u = 0 \/ (upgrade /\ u \in Nat /\ u <= day + Period /\ u >= tenant.until)
    BY <2>2, QuoteBounds
  <2>4. \A s \in Servers : Doing(s, Dating) => work[s].invoice \in Invoices /\ work[s].invoice # i
    BY <2>1, WorkTyped, StepNames DEF Doing, OrderInv
  <2>5. QED
    BY <2>1, <2>2, <2>3, <2>4 DEF Doing, PlanTypeOK
<1>4. ASSUME NEW s \in Servers, NEW i \in Invoices, Activate(s, i) PROVE DateInv'
  <2>1. /\ work'[s].step = (IF invoice[i].upgrade THEN "commission" ELSE "insert")
        /\ work'[s].invoice = i
        /\ ~invoice[i].upgrade => work'[s].until = day + Period
        /\ \A t \in Servers \ {s} : work'[t] = work[t]
        /\ UNCHANGED <<day, invoice, tenant, merchantUntil, behind>>
    BY <1>4 DEF Activate, PlanTypeOK, dateVars
  <2>2. day \in Nat /\ tenant.until \in Nat
    BY DEF PlanTypeOK
  <2>3. Doing(s, Dating)' => ~invoice[i].upgrade /\ work'[s].until = day + Period
    BY <2>1 DEF Doing, Late
  <2>4. QED
    BY <2>1, <2>2, <2>3 DEF Doing
<1>5. ASSUME NEW s \in Servers, Commission(s) PROVE DateInv'
  <2>1. work[s].invoice \in Invoices /\ Doing(s, Early \cup Late) /\ invoice[work[s].invoice].upgrade
    BY <1>5, WorkTyped DEF Commission, Doing, Early, OrderInv
  <2>2. PICK u \in Nat : /\ Dates(s, u) /\ u <= day + Period
                         /\ u < tenant.until => work[s].invoice \in behind'
    BY <1>5, <2>1 DEF Commission, PlanTypeOK, Bills
  <2>3. /\ work'[s].step = "insert" /\ work'[s].invoice = work[s].invoice /\ work'[s].until = u
        /\ \A t \in Servers \ {s} : work'[t] = work[t]
        /\ UNCHANGED <<day, invoice, tenant, merchantUntil>> /\ behind \subseteq behind'
    BY <1>5, <2>1, <2>2, Moves DEF Commission, dateVars
  <2>4. QED
    BY <2>1, <2>2, <2>3 DEF Doing
<1>6. ASSUME NEW s \in Servers, NEW step \in Late, Doing(s, Dating), Proceeds(s, step),
             UNCHANGED <<day, invoice, tenant, behind>>,
             merchantUntil' \in {merchantUntil, work[s].until}
      PROVE  DateInv'
  <2>1. /\ work'[s].step = step
        /\ work'[s].invoice = work[s].invoice /\ work'[s].until = work[s].until
        /\ \A t \in Servers \ {s} : work'[t] = work[t]
    BY <1>6, Moves, StepNames DEF Doing
  <2>2. QED
    BY <1>6, <2>1 DEF Doing
<1>7. ASSUME NEW s \in Servers, InsertActive(s) \/ Book(s) \/ UpdateMerchant(s) PROVE DateInv'
  BY <1>6, <1>7, StepNames DEF InsertActive, Book, UpdateMerchant, Doing, dateVars, pastVars
<1>8. ASSUME NEW s \in Servers, UpdateTenant(s) PROVE DateInv'
  <2>1. work'[s] = Idle /\ \A t \in Servers \ {s} : work'[t] = work[t]
    BY <1>8, Moves DEF UpdateTenant
  <2>2. /\ work[s].until \in Nat /\ work[s].until <= day + Period
        /\ tenant'.until = work[s].until /\ tenant.until \in Nat
        /\ UNCHANGED <<day, invoice, merchantUntil>> /\ behind \subseteq behind'
    BY <1>8, WorkTyped, StepNames DEF UpdateTenant, Doing, PlanTypeOK
  <2>3. \/ tenant'.until <= tenant.until
        \/ behind' = behind \cup Dated
    BY <1>8, <2>2 DEF UpdateTenant
  <2>4. \A i \in Invoices : invoice[i].until # 0 => i \in Dated
    BY DEF Dated
  <2>5. \A t \in Servers : Doing(t, Dating) /\ invoice[work[t].invoice].upgrade => work[t].invoice \in Dated
    BY WorkTyped, StepNames DEF Dated, On, Doing
  <2>6. \A i \in Invoices : invoice'[i].until # 0 /\ invoice'[i].until < tenant'.until => i \in behind'
    BY <2>2, <2>3, <2>4 DEF PlanTypeOK, Bills
  <2>7. ASSUME NEW t \in Servers, Doing(t, Dating)'
        PROVE  /\ work'[t].until <= day' + Period
               /\ ~invoice'[work'[t].invoice].upgrade => work'[t].until = day' + Period
               /\ work'[t].until < tenant'.until => work'[t].invoice \in behind'
    <3>1. t # s /\ Doing(t, Dating) /\ work'[t] = work[t]
      BY <2>1, <2>7 DEF Doing, Idle, Late
    <3>2. work[t].until \in Nat
      BY <3>1, WorkTyped, StepNames DEF Doing
    <3>3. CASE invoice[work[t].invoice].upgrade
      <4>1. work'[t].until <= day' + Period
        BY <2>2, <3>1
      <4>2. CASE behind' = behind \cup Dated
        BY <2>2, <2>5, <3>1, <3>3, <4>1, <4>2
      <4>3. CASE tenant'.until <= tenant.until
        <5>1. work[t].until < tenant'.until => work[t].until < tenant.until
          BY <2>2, <3>2, <4>3
        <5>2. QED
          BY <2>2, <3>1, <3>3, <4>1, <5>1
      <4>4. QED
        BY <2>3, <4>2, <4>3
    <3>4. CASE ~invoice[work[t].invoice].upgrade
      BY <2>2, <3>1, <3>2, <3>4 DEF PlanTypeOK
    <3>5. QED
      BY <3>3, <3>4
  <2>8. QED
    BY <2>2, <2>6, <2>7
<1>9. ASSUME NEW s \in Servers, Raises(s) \/ StopsHalfWay(s) PROVE DateInv'
  <2>1. work'[s] = Idle /\ \A t \in Servers \ {s} : work'[t] = work[t]
    BY <1>9, Moves DEF Raises, StopsHalfWay
  <2>2. QED
    BY <1>9, <2>1 DEF Raises, StopsHalfWay, Doing, Late, Idle, dateVars, pastVars
<1>10. CASE UNCHANGED planVars
  BY <1>10 DEF planVars, Doing, dateVars, pastVars
<1>11. QED
  BY <1>1, <1>2, <1>3, <1>4, <1>5, <1>7, <1>8, <1>9, <1>10 DEF PlanNext

-----------------------------------------------------------------------------
(* Periods                                                                 *)

ServedOf(x) ==
    \/ tenant.until >= x.until
    \/ \E s \in Servers : On(s, x.invoice, Late) /\ work[s].until = x.until
    \/ x.invoice \in cut
    \/ \E i \in behind : Recorded(i)

(* Steps that do not touch what PaidPeriodIsServed looks at.               *)
LEMMA StillServed ==
  ASSUME NEW x, ServedOf(x),
         UNCHANGED tenant, active \subseteq active', cut \subseteq cut', behind \subseteq behind',
         \A s \in Servers : Doing(s, Late) =>
             /\ Doing(s, Late)'
             /\ work'[s].invoice = work[s].invoice /\ work'[s].until = work[s].until
  PROVE  ServedOf(x)'
BY DEF ServedOf, On, Doing, Recorded

LEMMA ServedStep ==
  ASSUME PlanTypeOK, OrderInv, DateInv, PaidPeriodIsServed, [PlanNext]_planVars
  PROVE  PaidPeriodIsServed'
<1>1. \A x \in active : ServedOf(x)
  BY DEF PaidPeriodIsServed, ServedOf
<1>2. SUFFICES ASSUME NEW x \in active' PROVE ServedOf(x)'
  BY DEF PaidPeriodIsServed, ServedOf
<1>3. CASE UNCHANGED <<active, tenant, cut, behind, work>>
  BY <1>1, <1>2, <1>3, StillServed DEF Doing
<1>4. CASE Midnight \/ UNCHANGED planVars \/ \E i \in Invoices : Pay(i) \/ \E upgrade \in BOOLEAN : Issue(i, upgrade)
  BY <1>3, <1>4 DEF Midnight, Pay, Issue, planVars, dateVars, pastVars
<1>5. ASSUME NEW s \in Servers, NEW i \in Invoices, Activate(s, i) PROVE ServedOf(x)'
  <2>1. /\ work[s] = Idle /\ \A t \in Servers \ {s} : work'[t] = work[t]
        /\ UNCHANGED <<active, tenant, cut, behind>>
    BY <1>5 DEF Activate, PlanTypeOK, dateVars
  <2>2. QED
    BY <1>1, <1>2, <2>1, StillServed DEF Doing, Idle, Late
<1>6. ASSUME NEW s \in Servers, Commission(s) PROVE ServedOf(x)'
  <2>1. work[s].invoice \in Invoices /\ Doing(s, Early \cup Late) /\ ~Doing(s, Late)
    BY <1>6, WorkTyped DEF Commission, Doing, Early, Late
  <2>2. PICK u \in Nat : Dates(s, u)
    BY <1>6, <2>1, PlanAssumption DEF Commission, PlanTypeOK, Bills
  <2>3. /\ \A t \in Servers \ {s} : work'[t] = work[t]
        /\ UNCHANGED <<active, tenant, cut>> /\ behind \subseteq behind'
    BY <1>6, <2>1, <2>2, Moves DEF Commission, dateVars
  <2>4. QED
    BY <1>1, <1>2, <2>1, <2>3, StillServed DEF Doing
<1>7. ASSUME NEW s \in Servers, InsertActive(s) PROVE ServedOf(x)'
  <2>1. /\ work'[s].step = "ledger" /\ work[s].step = "insert"
        /\ work'[s].invoice = work[s].invoice /\ work'[s].until = work[s].until
        /\ \A t \in Servers \ {s} : work'[t] = work[t]
    BY <1>7, Moves, StepNames DEF InsertActive, Doing
  <2> DEFINE row == [invoice |-> work[s].invoice, until |-> work[s].until]
  <2>2. active' = active \cup {row} /\ UNCHANGED <<tenant, cut, behind>>
    BY <1>7 DEF InsertActive, dateVars, pastVars
  <2>3. CASE x \in active
    BY <1>1, <2>1, <2>2, <2>3, StillServed DEF Doing, Late
  <2>4. CASE x = row
    <3>1. On(s, x.invoice, Late)' /\ work'[s].until = x.until
      BY <2>1, <2>4, StepNames DEF On, Doing
    <3>2. QED
      BY <3>1 DEF ServedOf
  <2>5. QED
    BY <1>2, <2>2, <2>3, <2>4
<1>8. ASSUME NEW s \in Servers, Book(s) \/ UpdateMerchant(s) PROVE ServedOf(x)'
  <2>1. PICK step \in {"merchant", "tenant"} : Proceeds(s, step)
    BY <1>8 DEF Book, UpdateMerchant
  <2>2. Doing(s, Late) /\ UNCHANGED <<active, tenant, cut, behind>>
    BY <1>8, StepNames DEF Book, UpdateMerchant, Doing, dateVars, pastVars
  <2>3. /\ work'[s].step = step
        /\ work'[s].invoice = work[s].invoice /\ work'[s].until = work[s].until
        /\ \A t \in Servers \ {s} : work'[t] = work[t]
    BY <2>1, <2>2, Moves, StepNames DEF Doing
  <2>4. \A t \in Servers : Doing(t, Late) => /\ Doing(t, Late)'
                                           /\ work'[t].invoice = work[t].invoice
                                           /\ work'[t].until = work[t].until
    BY <2>3, StepNames DEF Doing
  <2>5. QED
    BY <1>1, <1>2, <2>2, <2>4, StillServed
<1>9. ASSUME NEW s \in Servers, UpdateTenant(s) PROVE ServedOf(x)'
  <2>1. /\ work'[s] = Idle /\ \A t \in Servers \ {s} : work'[t] = work[t]
        /\ work[s].step = "tenant" /\ tenant'.until = work[s].until
        /\ UNCHANGED <<active, cut>> /\ behind \subseteq behind'
    BY <1>9, Moves DEF UpdateTenant, Doing
  <2>2. work[s].until \in Nat /\ tenant.until \in Nat /\ x.until \in Nat
    BY <1>2, <2>1, WorkTyped, StepNames DEF Doing, PlanTypeOK, Row
  <2>3. CASE work[s].until < tenant.until
    <3>1. work[s].invoice \in behind
      BY <2>1, <2>3, StepNames DEF DateInv, Doing, Dating
    <3>2. Recorded(work[s].invoice)
      <4> DEFINE row == [invoice |-> work[s].invoice, until |-> work[s].until]
      <4>1. row \in active /\ row.invoice = work[s].invoice
        BY <2>1, StepNames DEF OrderInv, Doing
      <4>2. QED
        BY <4>1 DEF Recorded
    <3>3. QED
      BY <2>1, <3>1, <3>2 DEF ServedOf, Recorded
  <2>4. CASE work[s].until >= tenant.until
    <3>1. CASE tenant.until >= x.until
      BY <2>1, <2>2, <2>4, <3>1 DEF ServedOf
    <3>2. CASE \E t \in Servers : On(t, x.invoice, Late) /\ work[t].until = x.until
      <4>1. PICK t \in Servers : On(t, x.invoice, Late) /\ work[t].until = x.until
        BY <3>2
      <4>2. CASE t = s
        BY <2>1, <2>2, <4>1, <4>2 DEF ServedOf
      <4>3. CASE t # s
        BY <2>1, <4>1, <4>3 DEF ServedOf, On, Doing
      <4>4. QED
        BY <4>2, <4>3
    <3>3. CASE x.invoice \in cut \/ \E i \in behind : Recorded(i)
      BY <2>1, <3>3 DEF ServedOf, Recorded
    <3>4. QED
      BY <1>1, <1>2, <2>1, <3>1, <3>2, <3>3 DEF ServedOf
  <2>5. QED
    BY <2>2, <2>3, <2>4
<1>10. ASSUME NEW s \in Servers, Raises(s) PROVE ServedOf(x)'
  <2>1. /\ ~Doing(s, Late) /\ \A t \in Servers \ {s} : work'[t] = work[t]
        /\ UNCHANGED <<active, tenant, cut, behind>>
    BY <1>10, Moves DEF Raises, Doing, Early, Late, dateVars, pastVars
  <2>2. QED
    BY <1>1, <1>2, <2>1, StillServed DEF Doing
<1>11. ASSUME NEW s \in Servers, StopsHalfWay(s) PROVE ServedOf(x)'
  <2>1. /\ \A t \in Servers \ {s} : work'[t] = work[t]
        /\ UNCHANGED <<active, tenant, behind>> /\ cut' = cut \cup {work[s].invoice}
    BY <1>11, Moves DEF StopsHalfWay, dateVars
  <2>2. CASE \E t \in Servers : On(t, x.invoice, Late) /\ work[t].until = x.until
    BY <2>1, <2>2 DEF ServedOf, On, Doing
  <2>3. CASE ~\E t \in Servers : On(t, x.invoice, Late) /\ work[t].until = x.until
    BY <1>1, <1>2, <2>1, <2>3 DEF ServedOf, Recorded
  <2>4. QED
    BY <2>2, <2>3
<1>12. QED
  BY <1>4, <1>5, <1>6, <1>7, <1>8, <1>9, <1>10, <1>11 DEF PlanNext

-----------------------------------------------------------------------------
(* The invariant                                                           *)

LEMMA InvInit == PlanInit => PlanInv
<1> SUFFICES ASSUME PlanInit PROVE PlanInv
  OBVIOUS
<1>1. \A s \in Servers : work[s].step = "idle"
  BY DEF PlanInit, Idle
<1>2. BookInv
  BY <1>1 DEF BookInv, BookOf, PlanInit, Recorded, On, Doing, Early
<1>3. OrderInv
  BY <1>1 DEF OrderInv, PlanInit, Doing, Dating, Early, Late
<1>4. DateInv
  BY <1>1, PlanAssumption DEF DateInv, PlanInit, Doing, Dating, Late
<1>5. PaidPeriodIsServed
  BY DEF PaidPeriodIsServed, PlanInit
<1>6. QED
  BY <1>2, <1>3, <1>4, <1>5 DEF PlanInv

(* Rows, ledger and dates keep the relations above in every behaviour.     *)
THEOREM PlanInvariant == PlanSpec => []PlanInv
<1>1. PlanTypeOK /\ PlanInv /\ [PlanNext]_planVars => PlanInv'
  BY BookStep, OrderStep, DateStep, ServedStep DEF PlanInv
<1>2. QED
  BY InvInit, <1>1, PlanTypeCorrect, PTL DEF PlanSpec

(* A commission is booked twice only by activations that could not see one *)
(* another, and no upgrade is recorded without its affiliate's row.        *)
THEOREM CommissionsAlwaysDue == PlanSpec => []CommissionsAreDue
<1>1. PlanTypeOK /\ PlanInv => CommissionsAreDue
  BY DEF PlanTypeOK, PlanInv, BookInv, BookOf, OrderInv, CommissionsAreDue
<1>2. QED
  BY <1>1, PlanTypeCorrect, PlanInvariant, PTL

(* What was paid for and recorded is served, up to the three named causes. *)
THEOREM PaidPeriodsAreServed == PlanSpec => []PaidPeriodIsServed
<1>1. PlanInv => PaidPeriodIsServed
  BY DEF PlanInv
<1>2. QED
  BY <1>1, PlanInvariant, PTL
=============================================================================
