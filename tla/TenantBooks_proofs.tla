------------------------ MODULE TenantBooks_proofs ------------------------
(***************************************************************************)
(* Proofs about TenantBooks, for any number of processes and contacts, any *)
(* quota and pack, any bounds on jobs and any deployment.                  *)
(***************************************************************************)
EXTENDS TenantBooks, TLAPS

-----------------------------------------------------------------------------
(* Type correctness                                                        *)

(* The changes of the record keep it a record of its type.                 *)
LEMMA ChangesStayTyped ==
    ASSUME NEW books \in Books
    PROVE  /\ Charged(books) \in Books /\ ToppedUp(books) \in Books
           /\ [books EXCEPT !.lite = TRUE] \in Books /\ Reminded(books) \in Books
           /\ Listed(books) \in Books
<1>1. /\ books.remaining \in Nat /\ books.overage \in Nat /\ books.used \in Nat
      /\ books.listed \in Nat /\ books.lite \in BOOLEAN /\ books.reminded \in BOOLEAN
  BY DEF Books
<1>2. /\ books.remaining + PackSize \in Nat /\ books.overage + PackSize \in Nat
      /\ books.listed + 1 \in Nat
  BY <1>1, BooksAssumption
<1>3. ToppedUp(books) \in Books /\ Reminded(books) \in Books /\ Listed(books) \in Books
  BY <1>1, <1>2 DEF Books, ToppedUp, Reminded, Listed
<1>4. CASE books.remaining = 0
  <2>1. books.used + 1 \in Nat /\ 0 \in Nat
    BY <1>1
  <2>2. Charged(books) = [books EXCEPT !.remaining = 0, !.used = books.used + 1]
    BY <1>4 DEF Charged, Books
  <2>3. QED
    BY <1>1, <1>3, <2>1, <2>2 DEF Books
<1>5. CASE books.remaining # 0
  <2>1. books.used + 1 \in Nat /\ books.remaining - 1 \in Nat
    BY <1>1, <1>5
  <2>2. Charged(books) = [books EXCEPT !.remaining = books.remaining - 1, !.used = books.used + 1]
    BY <1>5 DEF Charged, Books
  <2>3. QED
    BY <1>1, <1>3, <2>1, <2>2 DEF Books
<1>6. QED
  BY <1>4, <1>5

(* The record of a new tenant has its type.                                *)
LEMMA NewBooksTyped == NewBooks \in Books
BY BooksAssumption DEF NewBooks, Books

(* A new tenant's variables have their types.                              *)
LEMMA BooksTypeInit == BooksInit => BooksTypeOK
<1> SUFFICES ASSUME BooksInit PROVE BooksTypeOK
  OBVIOUS
<1>1. PICK x \in Deployments : trouble = x[1] /\ oneDatabase = x[2]
  BY DEF BooksInit
<1>2. x \in (SUBSET Troubles) \X BOOLEAN
  BY BooksAssumption
<1>3. trouble \subseteq Troubles /\ oneDatabase \in BOOLEAN
  BY <1>1, <1>2
<1>4. /\ metadata \in Books
      /\ job \in [Processes -> Jobs]
      /\ copy \in [Processes -> Books]
  BY NewBooksTyped DEF BooksInit, Jobs
<1>5. QED
  BY <1>3, <1>4 DEF BooksInit, BooksTypeOK

(* The record and the notes about copies, which Write and NotWritten set.  *)
RecordTypeOK == metadata \in Books /\ stale \subseteq Processes /\ lost \in BOOLEAN

(* Writing the record, or failing to, keeps the types of what it sets.     *)
LEMMA WriteStaysTyped ==
    ASSUME RecordTypeOK, NEW p \in Processes, NEW books \in Books,
           Write(p, books) \/ NotWritten(p)
    PROVE  RecordTypeOK'
<1>1. CASE Write(p, books)
  <2>1. metadata' \in Books /\ stale' \subseteq Processes
    BY <1>1 DEF Write
  <2>2. lost' \in BOOLEAN
    BY <1>1 DEF Write
  <2>3. QED
    BY <2>1, <2>2 DEF RecordTypeOK
<1>2. CASE NotWritten(p)
  BY <1>2 DEF NotWritten, RecordTypeOK
<1>3. QED
  BY <1>1, <1>2

(* A process goes on with another job, with or without the copy it has.    *)
LEMMA JobsStayTyped ==
    ASSUME NEW p \in Processes, NEW next \in Jobs,
           job \in [Processes -> Jobs], copy \in [Processes -> Books], metadata \in Books
    PROVE  /\ Become(p, next) => job' \in [Processes -> Jobs]
           /\ Drop(p) => copy' \in [Processes -> Books]
           /\ Read(p, next) => job' \in [Processes -> Jobs] /\ copy' \in [Processes -> Books]
BY NewBooksTyped DEF Become, Drop, Read

(* Every step keeps every variable in its type.                            *)
LEMMA BooksTypeStep == BooksTypeOK /\ [BooksNext]_booksVars => BooksTypeOK'
<1> SUFFICES ASSUME BooksTypeOK, [BooksNext]_booksVars PROVE BooksTypeOK'
  OBVIOUS
<1> USE DEF tableVars, countVars, notesVars
<1>a. /\ RecordTypeOK
      /\ \A j \in {"free", "charge", "topup", "invoice", "tier", "retier", "deliver",
                   "scan", "flag", "mail"} : j \in Jobs
  BY DEF BooksTypeOK, RecordTypeOK, Jobs, Fulfilling, Scanning
<1>1. ASSUME NEW p \in Processes, NEW c \in Contacts, ChargeBegins(p, c) \/ WindowEnds(p, c)
      PROVE  BooksTypeOK'
  <2>1. window' \in [Processes -> SUBSET Contacts]
    BY <1>1 DEF BooksTypeOK, ChargeBegins, WindowEnds
  <2>2. stale' \subseteq Processes
    BY <1>1 DEF BooksTypeOK, ChargeBegins, WindowEnds, Read
  <2>3. job' \in [Processes -> Jobs] /\ copy' \in [Processes -> Books]
    BY <1>1, <1>a, JobsStayTyped DEF BooksTypeOK, ChargeBegins, WindowEnds
  <2>4. QED
    BY <1>1, <2>1, <2>2, <2>3 DEF BooksTypeOK, ChargeBegins, WindowEnds
<1>2. ASSUME NEW p \in Processes, ChargeWrites(p)
      PROVE  BooksTypeOK'
  <2>1. RecordTypeOK'
    BY <1>2, <1>a, ChangesStayTyped, WriteStaysTyped DEF BooksTypeOK, ChargeWrites
  <2>2. job' \in [Processes -> Jobs] /\ copy' \in [Processes -> Books]
    BY <1>2, <1>a, JobsStayTyped DEF BooksTypeOK, ChargeWrites
  <2>3. QED
    BY <1>2, <2>1, <2>2 DEF BooksTypeOK, RecordTypeOK, ChargeWrites
<1>3. ASSUME NEW p \in Processes, TopUpBegins(p) \/ TierReads(p) \/ ScanBegins(p)
      PROVE  BooksTypeOK'
  <2>1. stale' \subseteq Processes
    BY <1>3 DEF BooksTypeOK, TopUpBegins, TierReads, ScanBegins, Read
  <2>2. job' \in [Processes -> Jobs] /\ copy' \in [Processes -> Books]
    BY <1>3, <1>a, JobsStayTyped DEF BooksTypeOK, TopUpBegins, TierReads, ScanBegins
  <2>3. slipped' \in BOOLEAN
    BY <1>3 DEF BooksTypeOK, TopUpBegins, TierReads, ScanBegins
  <2>4. QED
    BY <1>3, <2>1, <2>2, <2>3 DEF BooksTypeOK, TopUpBegins, TierReads, ScanBegins
<1>4. ASSUME NEW p \in Processes, TopUpWrites(p)
      PROVE  BooksTypeOK'
  <2>1. RecordTypeOK'
    BY <1>4, <1>a, ChangesStayTyped, WriteStaysTyped DEF BooksTypeOK, TopUpWrites
  <2>2. job' \in [Processes -> Jobs]
    BY <1>4, <1>a, JobsStayTyped DEF BooksTypeOK, TopUpWrites
  <2>3. copy' \in [Processes -> Books]
    <3>1. ToppedUp(copy[p]) \in Books /\ copy \in [Processes -> Books]
      BY ChangesStayTyped DEF BooksTypeOK
    <3>2. copy' = [copy EXCEPT ![p] = ToppedUp(copy[p])] \/ Drop(p)
      BY <1>4, <3>1 DEF TopUpWrites
    <3>3. QED
      BY <3>1, <3>2, NewBooksTyped DEF Drop
  <2>4. QED
    BY <1>4, <2>1, <2>2, <2>3 DEF BooksTypeOK, RecordTypeOK, TopUpWrites
<1>5. ASSUME NEW p \in Processes, InvoiceWritten(p)
      PROVE  BooksTypeOK'
  <2>1. RecordTypeOK'
    <3>1. Listed(copy[p]) \in Books
      BY ChangesStayTyped DEF BooksTypeOK
    <3>2. QED
      BY <1>5, <1>a, <3>1, WriteStaysTyped DEF BooksTypeOK, InvoiceWritten
  <2>2. job' \in [Processes -> Jobs] /\ copy' \in [Processes -> Books]
    BY <1>5, <1>a, JobsStayTyped DEF BooksTypeOK, InvoiceWritten
  <2>3. QED
    BY <1>5, <2>1, <2>2 DEF BooksTypeOK, RecordTypeOK, InvoiceWritten
<1>6. ASSUME NEW p \in Processes, FulfilmentBegins(p)
      PROVE  BooksTypeOK'
  BY <1>6, <1>a DEF BooksTypeOK, FulfilmentBegins, Become
<1>7. ASSUME NEW p \in Processes, TierWrites(p)
      PROVE  BooksTypeOK'
  <2>1. RecordTypeOK'
    BY <1>7, <1>a, ChangesStayTyped, WriteStaysTyped DEF BooksTypeOK, TierWrites
  <2>2. job' \in [Processes -> Jobs] /\ copy' \in [Processes -> Books]
    BY <1>7, <1>a, JobsStayTyped DEF BooksTypeOK, TierWrites
  <2>3. QED
    BY <1>7, <2>1, <2>2 DEF BooksTypeOK, RecordTypeOK, TierWrites
<1>8. ASSUME NEW p \in Processes, Deliver(p) \/ NothingToDeliver(p)
      PROVE  BooksTypeOK'
  <2>1. job' \in [Processes -> Jobs]
    BY <1>8, <1>a DEF BooksTypeOK, Deliver, NothingToDeliver, Become
  <2>2. CASE NothingToDeliver(p)
    BY <2>1, <2>2 DEF BooksTypeOK, NothingToDeliver
  <2>3. CASE Deliver(p)
    <3>1. delivered' \subseteq {"postgres", "supabase"}
      BY <2>3 DEF BooksTypeOK, Deliver
    <3>2. unmarked' \in BOOLEAN
      BY <2>3 DEF BooksTypeOK, Deliver
    <3>3. QED
      BY <2>1, <2>3, <3>1, <3>2 DEF BooksTypeOK, Deliver
  <2>4. QED
    BY <1>8, <2>2, <2>3
<1>9. ASSUME NEW p \in Processes, ProcessDies(p)
      PROVE  BooksTypeOK'
  <2>1. slipped' \in BOOLEAN
    BY <1>9 DEF BooksTypeOK, ProcessDies
  <2>2. QED
    BY <1>9, <1>a, <2>1, NewBooksTyped DEF BooksTypeOK, ProcessDies, Become, Drop
<1>10. ASSUME NEW p \in Processes, Remind(p) \/ RemindsNot(p)
      PROVE  BooksTypeOK'
  <2>1. job' \in [Processes -> Jobs] /\ copy' \in [Processes -> Books]
    BY <1>10, <1>a, JobsStayTyped DEF BooksTypeOK, Remind, RemindsNot
  <2>2. reminders' \in Nat
    BY <1>10 DEF BooksTypeOK, Remind, RemindsNot
  <2>3. slipped' \in BOOLEAN
    <3>1. slipped' \in {slipped, TRUE}
      BY <1>10 DEF Remind, RemindsNot
    <3>2. QED
      BY <3>1 DEF BooksTypeOK
  <2>4. stale' \subseteq Processes
    BY <1>10 DEF BooksTypeOK, Remind, RemindsNot
  <2>5. QED
    BY <1>10, <2>1, <2>2, <2>3, <2>4 DEF BooksTypeOK, Remind, RemindsNot
<1>11. ASSUME NEW p \in Processes, ScanWrites(p)
      PROVE  BooksTypeOK'
  <2>1. RecordTypeOK'
    BY <1>11, <1>a, ChangesStayTyped, WriteStaysTyped DEF BooksTypeOK, ScanWrites
  <2>2. job' \in [Processes -> Jobs] /\ copy' \in [Processes -> Books]
    BY <1>11, <1>a, JobsStayTyped DEF BooksTypeOK, ScanWrites
  <2>3. slipped' \in BOOLEAN
    BY <1>11 DEF BooksTypeOK, ScanWrites
  <2>4. QED
    BY <1>11, <2>1, <2>2, <2>3 DEF BooksTypeOK, RecordTypeOK, ScanWrites
<1>12. CASE UNCHANGED booksVars
  BY <1>12 DEF BooksTypeOK, booksVars
<1>13. QED
  BY <1>1, <1>2, <1>3, <1>4, <1>5, <1>6, <1>7, <1>8, <1>9, <1>10, <1>11, <1>12
     DEF BooksNext, ChargeNext, TopUpNext, FulfilNext, ScanNext

(* In every state all variables of the tenant's books have their types.    *)
THEOREM BooksTypeCorrect == BooksSpec => []BooksTypeOK
BY BooksTypeInit, BooksTypeStep, PTL DEF BooksSpec

-----------------------------------------------------------------------------
(* How the record and its copies change                                    *)

(* A copy out of date or not, every step but a write leaves the record as  *)
(* it is, and a write puts there the changed copy of the process.          *)
RecordChanges(p) ==
    \/ UNCHANGED metadata
    \/ /\ job[p] = "charge" /\ metadata' = Charged(copy[p]) /\ charges' = charges + 1
    \/ /\ job[p] = "topup" /\ metadata' = ToppedUp(copy[p]) /\ credits' = credits + 1
    \/ /\ job[p] = "invoice" /\ metadata' = Listed(copy[p])
    \/ /\ job[p] = "retier" /\ metadata' = [copy[p] EXCEPT !.lite = TRUE]
    \/ /\ job[p] = "flag" /\ metadata' = Reminded(copy[p])
    \/ /\ job[p] = "mail" /\ metadata' = copy[p]

(* A process holds what it held, the record, what it wrote, or nothing.    *)
CopyChanges(p) ==
    \/ UNCHANGED copy
    \/ copy' = [copy EXCEPT ![p] = metadata]
    \/ copy' = [copy EXCEPT ![p] = NewBooks]
    \/ /\ job[p] = "topup" /\ credits' = credits + 1
       /\ copy' = [copy EXCEPT ![p] = ToppedUp(copy[p])]

(* Every step is one of these changes of the record and of the copies.     *)
LEMMA StepsChangeBooks ==
    ASSUME BooksTypeOK, NEW p \in Processes,
           ChargeNext(p) \/ TopUpNext(p) \/ FulfilNext(p) \/ ScanNext(p) \/ ProcessDies(p)
    PROVE  /\ RecordChanges(p) /\ CopyChanges(p)
           /\ charges' \in {charges, charges + 1} /\ credits' \in {credits, credits + 1}
<1> USE DEF RecordChanges, CopyChanges, tableVars, countVars, Read, Drop, Write, NotWritten
<1>1. CASE \E c \in Contacts : ChargeBegins(p, c) \/ WindowEnds(p, c)
  BY <1>1 DEF ChargeBegins, WindowEnds
<1>2. CASE ChargeWrites(p)
  BY <1>2 DEF ChargeWrites
<1>3. CASE TopUpBegins(p) \/ TopUpWrites(p)
  BY <1>3 DEF TopUpBegins, TopUpWrites, BooksTypeOK
<1>4. CASE InvoiceWritten(p)
  BY <1>4 DEF InvoiceWritten
<1>5. CASE FulfilmentBegins(p) \/ TierReads(p) \/ TierWrites(p)
  BY <1>5 DEF FulfilmentBegins, TierReads, TierWrites
<1>6. CASE Deliver(p) \/ NothingToDeliver(p) \/ ProcessDies(p)
  BY <1>6 DEF Deliver, NothingToDeliver, ProcessDies
<1>7. CASE ScanBegins(p) \/ Remind(p) \/ RemindsNot(p)
  BY <1>7 DEF ScanBegins, Remind, RemindsNot
<1>8. CASE ScanWrites(p)
  BY <1>8 DEF ScanWrites
<1>9. QED
  BY <1>1, <1>2, <1>3, <1>4, <1>5, <1>6, <1>7, <1>8
     DEF ChargeNext, TopUpNext, FulfilNext, ScanNext

(* A process that is about to write an invoice has just topped its copy up *)
(* or holds what it held.                                                  *)
InvoiceAhead(p) ==
    \A q \in Processes : job'[q] = "invoice" =>
        \/ job[q] = "invoice" /\ copy'[q] = copy[q]
        \/ q = p /\ copy'[q] = ToppedUp(copy[q])

LEMMA InvoicesAhead ==
    ASSUME BooksTypeOK, NEW p \in Processes,
           ChargeNext(p) \/ TopUpNext(p) \/ FulfilNext(p) \/ ScanNext(p) \/ ProcessDies(p)
    PROVE  InvoiceAhead(p)
<1>1. SUFFICES ASSUME NEW q \in Processes, job'[q] = "invoice"
               PROVE  \/ job[q] = "invoice" /\ copy'[q] = copy[q]
                      \/ q = p /\ copy'[q] = ToppedUp(copy[q])
  BY DEF InvoiceAhead
<1> USE DEF Read, Become
<1>2. job \in [Processes -> Jobs] /\ copy \in [Processes -> Books]
  BY DEF BooksTypeOK
<1>3. ASSUME NEW next \in Jobs \ {"invoice"}, Become(p, next), CopyChanges(p)
      PROVE  job[q] = "invoice" /\ copy'[q] = copy[q]
  <2>1. q # p /\ job[q] = "invoice"
    BY <1>1, <1>2, <1>3
  <2>2. QED
    BY <1>2, <1>3, <2>1 DEF CopyChanges
<1>4. CopyChanges(p)
  BY StepsChangeBooks
<1>5. CASE UNCHANGED <<job, copy>>
  BY <1>1, <1>5
<1>6. CASE \E next \in Jobs \ {"invoice"} : Become(p, next)
  BY <1>3, <1>4, <1>6
<1>7. CASE TopUpWrites(p)
  <2>1. CASE Become(p, "invoice") /\ copy' = [copy EXCEPT ![p] = ToppedUp(copy[p])]
    <3>1. CASE q = p
      BY <1>2, <2>1, <3>1
    <3>2. CASE q # p
      BY <1>1, <1>2, <2>1, <3>2
    <3>3. QED
      BY <3>1, <3>2
  <2>2. CASE Become(p, "free")
    BY <1>6, <2>2 DEF Jobs
  <2>3. QED
    BY <1>7, <2>1, <2>2 DEF TopUpWrites
<1>8. CASE ChargeNext(p)
  BY <1>5, <1>6, <1>8 DEF ChargeNext, ChargeBegins, ChargeWrites, WindowEnds, Jobs
<1>9. CASE TopUpBegins(p) \/ InvoiceWritten(p) \/ ProcessDies(p)
  BY <1>6, <1>9 DEF TopUpBegins, InvoiceWritten, ProcessDies, Jobs
<1>10. CASE FulfilNext(p)
  BY <1>6, <1>10 DEF FulfilNext, FulfilmentBegins, TierReads, TierWrites, Deliver,
                     NothingToDeliver, Jobs, Fulfilling
<1>11. CASE ScanNext(p)
  BY <1>6, <1>11 DEF ScanNext, ScanBegins, Remind, RemindsNot, ScanWrites, Jobs, Scanning
<1>12. QED
  BY <1>7, <1>8, <1>9, <1>10, <1>11 DEF TopUpNext

-----------------------------------------------------------------------------
(* The balance                                                             *)

(* One more top-up is one more pack.                                       *)
LEMMA OneMorePack ==
    ASSUME NEW n \in Nat
    PROVE  PackSize * (n + 1) = PackSize * n + PackSize /\ PackSize * n \in Nat
BY BooksAssumption

(* What BalanceIsCoherent says of the record, for any record.              *)
Coherent(books) ==
    /\ books.remaining + books.used >= BaseQuota + books.overage
    /\ books.remaining <= BaseQuota + books.overage
    /\ PackSize * books.listed <= books.overage

(* A record with the sessions of one more invoice than it lists.           *)
Unlisted(books) == PackSize * books.listed + PackSize <= books.overage

(* The record and every copy of it are coherent, and a copy whose invoice  *)
(* is to be written has its sessions.                                      *)
BalanceInv ==
    /\ Coherent(metadata)
    /\ \A p \in Processes : Coherent(copy[p])
    /\ \A p \in Processes : job[p] = "invoice" => Unlisted(copy[p])

(* Charging, topping up and listing what was topped up keep a record       *)
(* coherent.                                                               *)
LEMMA ChangesStayCoherent ==
    ASSUME NEW books \in Books, Coherent(books)
    PROVE  Coherent(Charged(books)) /\ Coherent(ToppedUp(books)) /\ Unlisted(ToppedUp(books))
           /\ Coherent([books EXCEPT !.lite = TRUE]) /\ Coherent(Reminded(books))
           /\ (Unlisted(books) => Coherent(Listed(books)))
<1>1. /\ books.remaining \in Nat /\ books.overage \in Nat /\ books.used \in Nat
      /\ books.listed \in Nat /\ BaseQuota \in Nat /\ PackSize \in Nat
  BY BooksAssumption DEF Books
<1>a. /\ PackSize * books.listed \in Nat
      /\ PackSize * (books.listed + 1) = PackSize * books.listed + PackSize
  BY <1>1, OneMorePack
<1>2. /\ Coherent(ToppedUp(books)) /\ Unlisted(ToppedUp(books))
  <2>1. /\ ToppedUp(books).remaining = books.remaining + PackSize
        /\ ToppedUp(books).overage = books.overage + PackSize
        /\ ToppedUp(books).used = books.used /\ ToppedUp(books).listed = books.listed
    BY DEF ToppedUp, Books
  <2>2. QED
    BY <1>1, <1>a, <2>1 DEF Coherent, Unlisted
<1>3. Coherent([books EXCEPT !.lite = TRUE]) /\ Coherent(Reminded(books))
  BY DEF Coherent, Reminded, Books
<1>4. Coherent(Charged(books))
  <2>1. /\ Charged(books).overage = books.overage /\ Charged(books).listed = books.listed
        /\ Charged(books).used = books.used + 1
        /\ Charged(books).remaining = IF books.remaining = 0 THEN 0 ELSE books.remaining - 1
    BY DEF Charged, Books
  <2>2. QED
    BY <1>1, <2>1 DEF Coherent
<1>5. ASSUME Unlisted(books) PROVE Coherent(Listed(books))
  <2>1. /\ Listed(books).overage = books.overage /\ Listed(books).listed = books.listed + 1
        /\ Listed(books).used = books.used /\ Listed(books).remaining = books.remaining
    BY DEF Listed, Books
  <2>2. QED
    BY <1>1, <1>a, <1>5, <2>1 DEF Coherent, Unlisted
<1>6. QED
  BY <1>2, <1>3, <1>4, <1>5

(* A new tenant's balance is coherent.                                     *)
LEMMA NewBooksCoherent == Coherent(NewBooks)
<1>1. PackSize * 0 = 0
  BY BooksAssumption
<1>2. QED
  BY <1>1, BooksAssumption DEF Coherent, NewBooks

LEMMA BalanceInit == BooksInit => BalanceInv
BY NewBooksCoherent DEF BooksInit, BalanceInv

(* Every step keeps the record and the copies coherent.                    *)
LEMMA BalanceStep == BooksTypeOK /\ BalanceInv /\ [BooksNext]_booksVars => BalanceInv'
<1> SUFFICES ASSUME BooksTypeOK, BalanceInv, [BooksNext]_booksVars PROVE BalanceInv'
  OBVIOUS
<1>1. CASE UNCHANGED booksVars
  BY <1>1 DEF BalanceInv, booksVars, tableVars
<1>2. ASSUME NEW p \in Processes, RecordChanges(p), CopyChanges(p), InvoiceAhead(p)
      PROVE  BalanceInv'
  <2>1. copy[p] \in Books /\ Coherent(copy[p]) /\ Coherent(metadata) /\ Coherent(NewBooks)
    BY NewBooksCoherent DEF BooksTypeOK, BalanceInv
  <2>2. Coherent(metadata')
    BY <1>2, <2>1, ChangesStayCoherent DEF RecordChanges, BalanceInv
  <2>3. ASSUME NEW q \in Processes PROVE Coherent(copy'[q])
    BY <1>2, <2>1, ChangesStayCoherent DEF CopyChanges, BooksTypeOK, BalanceInv
  <2>4. ASSUME NEW q \in Processes, job'[q] = "invoice" PROVE Unlisted(copy'[q])
    BY <1>2, <2>1, <2>4, ChangesStayCoherent DEF InvoiceAhead, BalanceInv
  <2>5. QED
    BY <2>2, <2>3, <2>4 DEF BalanceInv, Coherent, Unlisted
<1>3. QED
  BY <1>1, <1>2, StepsChangeBooks, InvoicesAhead DEF BooksNext

(* However the writers interleave, fail and die, the record's sessions     *)
(* left, used and bought add up.                                           *)
THEOREM BalanceAlwaysCoherent == BooksSpec => []BalanceIsCoherent
<1>1. BooksInit => BooksTypeOK /\ BalanceInv
  BY BooksTypeInit, BalanceInit
<1>2. BooksTypeOK /\ BalanceInv /\ [BooksNext]_booksVars => (BooksTypeOK /\ BalanceInv)'
  BY BooksTypeStep, BalanceStep
<1>3. BalanceInv => BalanceIsCoherent
  BY DEF BalanceInv, Coherent, BalanceIsCoherent
<1>4. QED
  BY <1>1, <1>2, <1>3, PTL DEF BooksSpec

-----------------------------------------------------------------------------
(* Nothing is invented                                                     *)

(* A record books no more than happened.                                   *)
Backed(books) == books.used <= charges /\ books.overage <= PackSize * credits

(* The record and every copy of it are backed.                             *)
BackedInv == Backed(metadata) /\ \A p \in Processes : Backed(copy[p])

(* A new tenant has booked nothing.                                        *)
LEMMA BackedInit == BooksInit => BackedInv
BY BooksAssumption DEF BooksInit, BackedInv, Backed, NewBooks

(* Every step leaves the record and the copies backed.                     *)
LEMMA BackedStep == BooksTypeOK /\ BackedInv /\ [BooksNext]_booksVars => BackedInv'
<1> SUFFICES ASSUME BooksTypeOK, BackedInv, [BooksNext]_booksVars PROVE BackedInv'
  OBVIOUS
<1>1. CASE UNCHANGED booksVars
  BY <1>1 DEF BackedInv, Backed, booksVars, tableVars, countVars
<1>2. ASSUME NEW p \in Processes, RecordChanges(p), CopyChanges(p),
             charges' \in {charges, charges + 1}, credits' \in {credits, credits + 1}
      PROVE  BackedInv'
  <2> DEFINE More(books) == books.used <= charges' /\ books.overage <= PackSize * credits'
  <2>1. /\ charges \in Nat /\ credits \in Nat /\ PackSize \in Nat
        /\ PackSize * (credits + 1) = PackSize * credits + PackSize
        /\ PackSize * credits \in Nat
    BY OneMorePack, BooksAssumption DEF BooksTypeOK
  <2>2. ASSUME NEW books \in Books, Backed(books) PROVE More(books)
    <3>1. books.used \in Nat /\ books.overage \in Nat
      BY DEF Books
    <3>2. QED
      BY <1>2, <2>1, <2>2, <3>1 DEF Backed
  <2>3. ASSUME NEW books \in Books, Backed(books), charges' = charges + 1
        PROVE  More(Charged(books))
    <3>1. /\ books.used \in Nat /\ books.overage \in Nat
          /\ Charged(books).used = books.used + 1 /\ Charged(books).overage = books.overage
      BY DEF Books, Charged
    <3>2. QED
      BY <1>2, <2>1, <2>3, <3>1 DEF Backed
  <2>4. ASSUME NEW books \in Books, Backed(books), credits' = credits + 1
        PROVE  More(ToppedUp(books))
    <3>1. /\ books.used \in Nat /\ books.overage \in Nat
          /\ ToppedUp(books).used = books.used /\ ToppedUp(books).overage = books.overage + PackSize
      BY DEF Books, ToppedUp
    <3>2. QED
      BY <1>2, <2>1, <2>4, <3>1 DEF Backed
  <2>5. ASSUME NEW books \in Books, Backed(books)
        PROVE  More([books EXCEPT !.lite = TRUE]) /\ More(Reminded(books)) /\ More(Listed(books))
    BY <2>2, <2>5 DEF Books, Reminded, Listed
  <2>6. /\ copy[p] \in Books /\ Backed(copy[p])
        /\ metadata \in Books /\ Backed(metadata)
        /\ NewBooks \in Books /\ Backed(NewBooks)
    BY <2>1, NewBooksTyped DEF BooksTypeOK, BackedInv, Backed, NewBooks
  <2>7. More(metadata')
    BY <1>2, <2>2, <2>3, <2>4, <2>5, <2>6 DEF RecordChanges
  <2>8. ASSUME NEW q \in Processes PROVE More(copy'[q])
    <3>1. copy[q] \in Books /\ Backed(copy[q])
      BY DEF BooksTypeOK, BackedInv
    <3>2. \/ copy'[q] \in {copy[q], metadata, NewBooks}
          \/ credits' = credits + 1 /\ copy'[q] = ToppedUp(copy[p])
      BY <1>2 DEF CopyChanges, BooksTypeOK
    <3>3. QED
      BY <2>2, <2>4, <2>6, <3>1, <3>2
  <2>9. QED
    BY <2>7, <2>8 DEF BackedInv, Backed
<1>3. QED
  BY <1>1, <1>2, StepsChangeBooks DEF BooksNext

(* However the writers interleave, fail and die, no session is booked as   *)
(* used or bought that was not.                                            *)
THEOREM NothingIsInvented == BooksSpec => []NothingInvented
<1>1. BooksInit => BooksTypeOK /\ BackedInv
  BY BooksTypeInit, BackedInit
<1>2. BooksTypeOK /\ BackedInv /\ [BooksNext]_booksVars => (BooksTypeOK /\ BackedInv)'
  BY BooksTypeStep, BackedStep
<1>3. BackedInv => NothingInvented
  BY DEF BackedInv, Backed, NothingInvented
<1>4. QED
  BY <1>1, <1>2, <1>3, PTL DEF BooksSpec

-----------------------------------------------------------------------------
(* What is lost                                                            *)

(* Until a stale copy is written, the record is exact and a copy that is   *)
(* not stale, and may still be written, is the record.                     *)
FreshInv ==
    ~lost => /\ metadata.used = charges /\ metadata.overage = PackSize * credits
             /\ \A p \in Processes : Holds(p) /\ p \notin stale => copy[p] = metadata

(* A new tenant's record is exact and nobody has a copy.                   *)
LEMMA FreshInit == BooksInit => FreshInv
BY BooksAssumption DEF BooksInit, FreshInv, NewBooks, Holds, Scanning

(* A write of a copy that is not stale keeps the rest of the record.       *)
LEMMA FreshWrite ==
    ASSUME BooksTypeOK, FreshInv, NEW p \in Processes, Holds(p), NEW books,
           Write(p, books), ~lost'
    PROVE  ~lost /\ copy[p] = metadata /\ metadata' = books
           /\ metadata.used = charges /\ metadata.overage = PackSize * credits
BY DEF FreshInv, Write

(* Every step keeps the invariant.                                         *)
LEMMA FreshStep == BooksTypeOK /\ FreshInv /\ [BooksNext]_booksVars => FreshInv'
<1> SUFFICES ASSUME BooksTypeOK, FreshInv, [BooksNext]_booksVars, ~lost'
             PROVE  /\ metadata'.used = charges' /\ metadata'.overage = PackSize * credits'
                    /\ \A q \in Processes : Holds(q)' /\ q \notin stale' => copy'[q] = metadata'
  BY DEF FreshInv
<1> USE DEF tableVars, countVars, notesVars
<1>1. ASSUME NEW p \in Processes, UNCHANGED <<metadata, charges, credits, lost>>,
             \A q \in Processes \ {p} :
                 job'[q] = job[q] /\ copy'[q] = copy[q] /\ (q \in stale' <=> q \in stale),
             Holds(p)' => copy'[p] = metadata \/ p \in stale' \/
                          (Holds(p) /\ copy'[p] = copy[p] /\ p \notin stale)
      PROVE  /\ metadata'.used = charges' /\ metadata'.overage = PackSize * credits'
             /\ \A q \in Processes : Holds(q)' /\ q \notin stale' => copy'[q] = metadata'
  BY <1>1 DEF FreshInv, Holds, Scanning
<1>2. ASSUME NEW p \in Processes, NEW books, Holds(p), Write(p, books),
             books.used = charges', books.overage = PackSize * credits',
             \A q \in Processes \ {p} : job'[q] = job[q],
             Holds(p)' => copy'[p] = books
      PROVE  /\ metadata'.used = charges' /\ metadata'.overage = PackSize * credits'
             /\ \A q \in Processes : Holds(q)' /\ q \notin stale' => copy'[q] = metadata'
  BY <1>2 DEF Write, Holds, Scanning
<1>3. ASSUME NEW p \in Processes, NEW c \in Contacts, ChargeBegins(p, c) \/ WindowEnds(p, c)
      PROVE  /\ metadata'.used = charges' /\ metadata'.overage = PackSize * credits'
             /\ \A q \in Processes : Holds(q)' /\ q \notin stale' => copy'[q] = metadata'
  BY <1>1, <1>3 DEF ChargeBegins, WindowEnds, Read, Become, Holds, Scanning, BooksTypeOK, FreshInv
<1>4. ASSUME NEW p \in Processes, ChargeWrites(p)
      PROVE  /\ metadata'.used = charges' /\ metadata'.overage = PackSize * credits'
             /\ \A q \in Processes : Holds(q)' /\ q \notin stale' => copy'[q] = metadata'
  <2>1. CASE Write(p, Charged(copy[p])) /\ charges' = charges + 1
    <3>1. Holds(p)
      BY <1>4 DEF ChargeWrites, Holds, Scanning
    <3>2. copy[p] = metadata /\ metadata.used = charges /\ metadata.overage = PackSize * credits
      BY <2>1, <3>1, FreshWrite
    <3>3. Charged(copy[p]).used = charges + 1 /\ Charged(copy[p]).overage = PackSize * credits
      BY <3>2 DEF Charged, Books, BooksTypeOK
    <3>4. QED
      BY <1>2, <1>4, <2>1, <3>1, <3>3 DEF ChargeWrites, Become, Holds, Scanning, BooksTypeOK
  <2>2. CASE NotWritten(p) /\ UNCHANGED charges
    BY <1>1, <1>4, <2>2 DEF ChargeWrites, NotWritten, Become, Drop, Holds, Scanning, BooksTypeOK
  <2>3. QED
    BY <1>4, <2>1, <2>2 DEF ChargeWrites
<1>5. ASSUME NEW p \in Processes, TopUpBegins(p) \/ TierReads(p) \/ ScanBegins(p)
      PROVE  /\ metadata'.used = charges' /\ metadata'.overage = PackSize * credits'
             /\ \A q \in Processes : Holds(q)' /\ q \notin stale' => copy'[q] = metadata'
  BY <1>1, <1>5 DEF TopUpBegins, TierReads, ScanBegins, Read, Become, Holds, Scanning,
                    BooksTypeOK, FreshInv
<1>6. ASSUME NEW p \in Processes, TopUpWrites(p)
      PROVE  /\ metadata'.used = charges' /\ metadata'.overage = PackSize * credits'
             /\ \A q \in Processes : Holds(q)' /\ q \notin stale' => copy'[q] = metadata'
  <2>1. CASE Write(p, ToppedUp(copy[p])) /\ credits' = credits + 1
    <3>1. Holds(p)
      BY <1>6 DEF TopUpWrites, Holds, Scanning
    <3>2. copy[p] = metadata /\ metadata.used = charges /\ metadata.overage = PackSize * credits
      BY <2>1, <3>1, FreshWrite
    <3>3. /\ ToppedUp(copy[p]).used = charges
          /\ ToppedUp(copy[p]).overage = PackSize * credits + PackSize
      BY <3>2 DEF ToppedUp, Books, BooksTypeOK
    <3>4. PackSize * credits' = PackSize * credits + PackSize
      BY <2>1, OneMorePack DEF BooksTypeOK
    <3>5. Holds(p)' => copy'[p] = ToppedUp(copy[p])
      BY <1>6, <2>1 DEF TopUpWrites, Become, Holds, Scanning, BooksTypeOK, Write, NotWritten
    <3>6. \A q \in Processes \ {p} : job'[q] = job[q]
      BY <1>6 DEF TopUpWrites, Become, BooksTypeOK
    <3>7. charges' = charges
      BY <1>6 DEF TopUpWrites
    <3>8. QED
      BY <1>2, <2>1, <3>1, <3>3, <3>4, <3>5, <3>6, <3>7
  <2>2. CASE NotWritten(p) /\ UNCHANGED credits /\ Become(p, "free") /\ Drop(p)
    BY <1>1, <1>6, <2>2 DEF TopUpWrites, NotWritten, Become, Drop, Holds, Scanning, BooksTypeOK
  <2>3. QED
    BY <1>6, <2>1, <2>2 DEF TopUpWrites
<1>7. ASSUME NEW p \in Processes, InvoiceWritten(p)
      PROVE  /\ metadata'.used = charges' /\ metadata'.overage = PackSize * credits'
             /\ \A q \in Processes : Holds(q)' /\ q \notin stale' => copy'[q] = metadata'
  <2>1. CASE Write(p, Listed(copy[p]))
    <3>1. Holds(p)
      BY <1>7 DEF InvoiceWritten, Holds, Scanning
    <3>2. copy[p] = metadata /\ metadata.used = charges /\ metadata.overage = PackSize * credits
      BY <2>1, <3>1, FreshWrite
    <3>3. Listed(copy[p]).used = charges /\ Listed(copy[p]).overage = PackSize * credits
      BY <3>2 DEF Listed, Books, BooksTypeOK
    <3>4. QED
      BY <1>2, <1>7, <2>1, <3>1, <3>3 DEF InvoiceWritten, Become, Holds, Scanning, BooksTypeOK
  <2>2. CASE NotWritten(p)
    BY <1>1, <1>7, <2>2 DEF InvoiceWritten, NotWritten, Become, Drop, Holds, Scanning, BooksTypeOK
  <2>3. QED
    BY <1>7, <2>1, <2>2 DEF InvoiceWritten
<1>8. ASSUME NEW p \in Processes,
             FulfilmentBegins(p) \/ Deliver(p) \/ NothingToDeliver(p) \/ ProcessDies(p)
      PROVE  /\ metadata'.used = charges' /\ metadata'.overage = PackSize * credits'
             /\ \A q \in Processes : Holds(q)' /\ q \notin stale' => copy'[q] = metadata'
  <2>1. UNCHANGED <<metadata, charges, credits, lost>> /\ ~Holds(p)'
    BY <1>8 DEF FulfilmentBegins, Deliver, NothingToDeliver, ProcessDies, Become, Holds, Scanning, BooksTypeOK
  <2>2. \A q \in Processes \ {p} :
            job'[q] = job[q] /\ copy'[q] = copy[q] /\ (q \in stale' <=> q \in stale)
    BY <1>8 DEF FulfilmentBegins, Deliver, NothingToDeliver, ProcessDies, Become, Drop, BooksTypeOK
  <2>3. QED
    BY <1>1, <2>1, <2>2
<1>9. ASSUME NEW p \in Processes, TierWrites(p)
      PROVE  /\ metadata'.used = charges' /\ metadata'.overage = PackSize * credits'
             /\ \A q \in Processes : Holds(q)' /\ q \notin stale' => copy'[q] = metadata'
  <2>1. CASE Write(p, [copy[p] EXCEPT !.lite = TRUE])
    <3>1. Holds(p)
      BY <1>9 DEF TierWrites, Holds, Scanning
    <3>2. copy[p] = metadata /\ metadata.used = charges /\ metadata.overage = PackSize * credits
      BY <2>1, <3>1, FreshWrite
    <3>3. /\ [copy[p] EXCEPT !.lite = TRUE].used = charges
          /\ [copy[p] EXCEPT !.lite = TRUE].overage = PackSize * credits
      BY <3>2 DEF Books, BooksTypeOK
    <3>4. /\ metadata' = [copy[p] EXCEPT !.lite = TRUE]
          /\ charges' = charges /\ credits' = credits
          /\ stale' = {q \in Processes \ {p} : Holds(q)}
      BY <1>9, <2>1 DEF TierWrites, Write
    <3>5. job' = [job EXCEPT ![p] = "deliver"]
      BY <1>9 DEF TierWrites, Become
    <3>6. ~Holds(p)' /\ \A q \in Processes \ {p} : Holds(q)' => Holds(q)
      BY <3>5 DEF Holds, Scanning, BooksTypeOK
    <3>7. metadata'.used = charges' /\ metadata'.overage = PackSize * credits'
      BY <3>3, <3>4
    <3>8. \A q \in Processes : ~(Holds(q)' /\ q \notin stale')
      BY <3>4, <3>6
    <3>9. QED
      BY <3>7, <3>8
  <2>2. CASE NotWritten(p)
    BY <1>1, <1>9, <2>2 DEF TierWrites, NotWritten, Become, Drop, Holds, Scanning, BooksTypeOK
  <2>3. QED
    BY <1>9, <2>1, <2>2 DEF TierWrites
<1>10. ASSUME NEW p \in Processes, Remind(p) \/ RemindsNot(p)
      PROVE  /\ metadata'.used = charges' /\ metadata'.overage = PackSize * credits'
             /\ \A q \in Processes : Holds(q)' /\ q \notin stale' => copy'[q] = metadata'
  <2>1. UNCHANGED <<metadata, charges, credits, lost>>
    BY <1>10 DEF Remind, RemindsNot
  <2>2. \A q \in Processes \ {p} :
            job'[q] = job[q] /\ copy'[q] = copy[q] /\ (q \in stale' <=> q \in stale)
    BY <1>10 DEF Remind, RemindsNot, Become, Drop, BooksTypeOK
  <2>3. Holds(p) /\ (Holds(p)' => copy'[p] = copy[p] /\ (p \in stale' <=> p \in stale))
    BY <1>10 DEF Remind, RemindsNot, Become, Holds, Scanning, BooksTypeOK
  <2>4. QED
    BY <1>1, <2>1, <2>2, <2>3
<1>11. ASSUME NEW p \in Processes, ScanWrites(p)
      PROVE  /\ metadata'.used = charges' /\ metadata'.overage = PackSize * credits'
             /\ \A q \in Processes : Holds(q)' /\ q \notin stale' => copy'[q] = metadata'
  <2> DEFINE books == IF job[p] = "flag" THEN Reminded(copy[p]) ELSE copy[p]
  <2>1. Holds(p) /\ job' = [job EXCEPT ![p] = "free"] /\ UNCHANGED <<charges, credits>>
    BY <1>11 DEF ScanWrites, Holds, Scanning, Become
  <2>2. ~Holds(p)' /\ \A q \in Processes \ {p} : job'[q] = job[q]
    BY <2>1 DEF Holds, Scanning, BooksTypeOK
  <2>3. CASE Write(p, books)
    <3>1. copy[p] = metadata /\ metadata.used = charges /\ metadata.overage = PackSize * credits
      BY <2>1, <2>3, FreshWrite
    <3>2. books.used = charges' /\ books.overage = PackSize * credits'
      BY <2>1, <3>1 DEF Reminded, Books, BooksTypeOK
    <3>3. QED
      BY <1>2, <2>1, <2>2, <2>3, <3>2
  <2>4. CASE NotWritten(p)
    BY <1>1, <1>11, <2>1, <2>2, <2>4 DEF ScanWrites, NotWritten, Drop, BooksTypeOK
  <2>5. QED
    BY <1>11, <2>3, <2>4 DEF ScanWrites
<1>12. CASE UNCHANGED booksVars
  BY <1>12 DEF booksVars, FreshInv, Holds
<1>13. QED
  BY <1>3, <1>4, <1>5, <1>6, <1>7, <1>8, <1>9, <1>10, <1>11, <1>12
     DEF BooksNext, ChargeNext, TopUpNext, FulfilNext, ScanNext

(* A written charge or top-up is only ever lost to a copy that was out of  *)
(* date when it was written back.                                          *)
THEOREM OnlyStaleCopiesLose == BooksSpec => []LostOnlyToStaleCopies
<1>1. BooksInit => BooksTypeOK /\ FreshInv
  BY BooksTypeInit, FreshInit
<1>2. BooksTypeOK /\ FreshInv /\ [BooksNext]_booksVars => (BooksTypeOK /\ FreshInv)'
  BY BooksTypeStep, FreshStep
<1>3. FreshInv => LostOnlyToStaleCopies
  BY DEF FreshInv, LostOnlyToStaleCopies
<1>4. QED
  BY <1>1, <1>2, <1>3, PTL DEF BooksSpec

-----------------------------------------------------------------------------
(* Goods: with one database, fulfilments one after the other and DELIVERED *)
(* always written, a fulfilment is at work only while nothing is sent off, *)
(* and what was sent off is DELIVERED in both places it is read from.      *)
Undisturbed == oneDatabase /\ ~beside /\ ~unmarked

SendsInv ==
    /\ ~beside => \A p, q \in Processes :
                     job[p] \in Fulfilling /\ job[q] \in Fulfilling => p = q
    /\ Undisturbed => \A p \in Processes : job[p] \in Fulfilling => sends = 0
    /\ Undisturbed /\ sends > 0 => {"postgres", "supabase"} \subseteq delivered
    /\ Undisturbed => sends <= 1

LEMMA SendsInit == BooksInit => SendsInv
  BY DEF BooksInit, SendsInv, Fulfilling

(* A step that sends nothing, begins no fulfilment and only moves a        *)
(* process's job within, into or out of the same kind.                     *)
LEMMA SendsUntouched ==
  ASSUME BooksTypeOK, SendsInv,
         UNCHANGED <<oneDatabase, beside, unmarked, sends, delivered>>,
         \A q \in Processes : job'[q] \in Fulfilling => job[q] \in Fulfilling
  PROVE  SendsInv'
<1>1. Undisturbed' <=> Undisturbed
  BY DEF Undisturbed
<1>2. QED
  BY <1>1 DEF SendsInv

LEMMA SendsStep ==
  BooksTypeOK /\ SendsInv /\ [BooksNext]_booksVars => SendsInv'
<1> SUFFICES ASSUME BooksTypeOK, SendsInv, [BooksNext]_booksVars
             PROVE  SendsInv'
  OBVIOUS
<1>1. ASSUME NEW p \in Processes, NEW c \in Contacts, ChargeBegins(p, c) \/ WindowEnds(p, c)
      PROVE  SendsInv'
  <2>1. UNCHANGED <<oneDatabase, beside, unmarked, sends, delivered>>
    BY <1>1 DEF ChargeBegins, WindowEnds, tableVars, countVars, notesVars
  <2>2. \A q \in Processes : job'[q] \in Fulfilling => job[q] \in Fulfilling
    BY <1>1 DEF ChargeBegins, WindowEnds, Read, Become, Fulfilling, BooksTypeOK
  <2>3. QED
    BY <2>1, <2>2, SendsUntouched
<1>2. ASSUME NEW p \in Processes,
             ChargeWrites(p) \/ TopUpBegins(p) \/ TopUpWrites(p) \/ InvoiceWritten(p)
      PROVE  SendsInv'
  <2>1. UNCHANGED <<oneDatabase, beside, unmarked, sends, delivered>>
    BY <1>2 DEF ChargeWrites, TopUpBegins, TopUpWrites, InvoiceWritten, tableVars, countVars
  <2>2. \A q \in Processes : job'[q] \in Fulfilling => job[q] \in Fulfilling
    BY <1>2 DEF ChargeWrites, TopUpBegins, TopUpWrites, InvoiceWritten, Read, Become,
                Fulfilling, BooksTypeOK
  <2>3. QED
    BY <2>1, <2>2, SendsUntouched
<1>3. ASSUME NEW p \in Processes, FulfilmentBegins(p)
      PROVE  SendsInv'
  <2>1. /\ UNCHANGED <<oneDatabase, unmarked, sends, delivered>>
        /\ job' = [job EXCEPT ![p] = "tier"] /\ job[p] = "free"
        /\ beside' = (beside \/ \E q \in Processes : job[q] \in Fulfilling)
    BY <1>3 DEF FulfilmentBegins, Become, tableVars, countVars
  <2>2. \E source \in {"postgres", "supabase"} : source \notin delivered
    BY <1>3 DEF FulfilmentBegins
  <2>3. \A q \in Processes \ {p} : job'[q] = job[q]
    BY <2>1 DEF BooksTypeOK
  <2>4. CASE \E q \in Processes : job[q] \in Fulfilling
    BY <2>1, <2>4 DEF SendsInv, Undisturbed
  <2>5. CASE \A q \in Processes : job[q] \notin Fulfilling
    <3>1. (beside' <=> beside) /\ (Undisturbed' <=> Undisturbed)
      BY <2>1, <2>5 DEF Undisturbed
    <3>2. \A q \in Processes : job'[q] \in Fulfilling => q = p
      BY <2>3, <2>5
    <3>3. Undisturbed => ~(sends > 0)
      BY <2>2 DEF SendsInv
    <3>4. Undisturbed => sends = 0
      BY <3>3 DEF BooksTypeOK
    <3>5. QED
      BY <2>1, <3>1, <3>2, <3>4 DEF SendsInv
  <2>6. QED
    BY <2>4, <2>5
<1>4. ASSUME NEW p \in Processes, TierReads(p) \/ TierWrites(p)
      PROVE  SendsInv'
  <2>1. UNCHANGED <<oneDatabase, beside, unmarked, sends, delivered>>
    BY <1>4 DEF TierReads, TierWrites, tableVars, countVars
  <2>2. \A q \in Processes : job'[q] \in Fulfilling => job[q] \in Fulfilling
    BY <1>4 DEF TierReads, TierWrites, Read, Become, Fulfilling, BooksTypeOK
  <2>3. QED
    BY <2>1, <2>2, SendsUntouched
<1>5. ASSUME NEW p \in Processes, Deliver(p)
      PROVE  SendsInv'
  <2>1. /\ UNCHANGED <<oneDatabase, beside>>
        /\ job' = [job EXCEPT ![p] = "free"] /\ job[p] = "deliver"
        /\ sends' = sends + 1
    BY <1>5 DEF Deliver, Become
  <2>2. \A q \in Processes : job'[q] \in Fulfilling => job[q] \in Fulfilling /\ q # p
    BY <2>1 DEF BooksTypeOK, Fulfilling
  <2>3. ~beside => \A q \in Processes : job'[q] \notin Fulfilling
    BY <2>1, <2>2 DEF SendsInv, Fulfilling
  <2>4. CASE unmarked' = TRUE
    BY <2>1, <2>3, <2>4 DEF SendsInv, Undisturbed
  <2>5. CASE /\ delivered' = delivered \cup {"supabase"}
                               \cup (IF oneDatabase THEN {"postgres"} ELSE {})
             /\ UNCHANGED unmarked
    <3>1. Undisturbed' <=> Undisturbed
      BY <2>1, <2>5 DEF Undisturbed
    <3>2. Undisturbed => sends = 0
      BY <2>1 DEF SendsInv, Fulfilling
    <3>3. Undisturbed' => sends' <= 1
      BY <2>1, <3>1, <3>2
    <3>4. Undisturbed' => {"postgres", "supabase"} \subseteq delivered'
      BY <2>5, <3>1 DEF Undisturbed
    <3>5. ~beside' => \A q \in Processes : job'[q] \notin Fulfilling
      BY <2>1, <2>3
    <3>6. QED
      BY <3>3, <3>4, <3>5 DEF SendsInv, Undisturbed
  <2>6. QED
    BY <1>5, <2>4, <2>5 DEF Deliver
<1>6. ASSUME NEW p \in Processes, NothingToDeliver(p) \/ ProcessDies(p)
      PROVE  SendsInv'
  <2>1. UNCHANGED <<oneDatabase, beside, unmarked, sends, delivered>>
    BY <1>6 DEF NothingToDeliver, ProcessDies, tableVars, countVars, notesVars
  <2>2. \A q \in Processes : job'[q] \in Fulfilling => job[q] \in Fulfilling
    BY <1>6 DEF NothingToDeliver, ProcessDies, Become, Fulfilling, BooksTypeOK
  <2>3. QED
    BY <2>1, <2>2, SendsUntouched
<1>7. ASSUME NEW p \in Processes,
             ScanBegins(p) \/ Remind(p) \/ RemindsNot(p) \/ ScanWrites(p)
      PROVE  SendsInv'
  <2>1. UNCHANGED <<oneDatabase, beside, unmarked, sends, delivered>>
    BY <1>7 DEF ScanBegins, Remind, RemindsNot, ScanWrites, tableVars, countVars, notesVars
  <2>2. \A q \in Processes : job'[q] \in Fulfilling => job[q] \in Fulfilling
    BY <1>7 DEF ScanBegins, Remind, RemindsNot, ScanWrites, Read, Become, Fulfilling, BooksTypeOK
  <2>3. QED
    BY <2>1, <2>2, SendsUntouched
<1>8. CASE UNCHANGED booksVars
  BY <1>8, SendsUntouched DEF booksVars, tableVars, countVars, notesVars
<1>9. QED
  BY <1>1, <1>2, <1>3, <1>4, <1>5, <1>6, <1>7, <1>8
     DEF BooksNext, ChargeNext, TopUpNext, FulfilNext, ScanNext

(* The goods of an order are sent off twice only with two databases, two   *)
(* fulfilments beside each other, or a DELIVERED that was not written.     *)
THEOREM SentTwiceNeedsACause == BooksSpec => []SentTwiceOnlyUnmarked
<1>1. BooksInit => BooksTypeOK /\ SendsInv
  BY BooksTypeInit, SendsInit
<1>2. BooksTypeOK /\ SendsInv /\ [BooksNext]_booksVars => (BooksTypeOK /\ SendsInv)'
  BY BooksTypeStep, SendsStep
<1>3. BooksTypeOK /\ SendsInv => SentTwiceOnlyUnmarked
  BY DEF BooksTypeOK, SendsInv, Undisturbed, SentTwiceOnlyUnmarked
<1>4. QED
  BY <1>1, <1>2, <1>3, PTL DEF BooksSpec

-----------------------------------------------------------------------------
(* Reminders: with one scan at a time whose flag is written, and no stale  *)
(* copy written back, a reminder that was sent is flagged in the record or *)
(* about to be, and a scan that finds no flag is the first to send.        *)
Flagged == ~lost /\ ~slipped

RemindInv ==
    /\ ~slipped => \A p, q \in Processes :
                      job[p] \in Scanning /\ job[q] \in Scanning => p = q
    /\ Flagged => /\ reminders <= 1
                  /\ \A p \in Processes :
                        job[p] = "scan" /\ ~copy[p].reminded => reminders = 0
                  /\ \/ reminders = 0 \/ metadata.reminded
                     \/ \E p \in Processes : job[p] = "flag"

LEMMA RemindInit == BooksInit => RemindInv
BY DEF BooksInit, RemindInv, Scanning

(* The writers that are no scan keep the flag of the record they read.     *)
LEMMA OthersKeepTheFlag ==
    ASSUME BooksTypeOK, FreshInv, ~lost', NEW p \in Processes,
           ChargeNext(p) \/ TopUpNext(p) \/ FulfilNext(p)
    PROVE  ~lost /\ metadata'.reminded = metadata.reminded
<1> USE DEF tableVars, countVars, notesVars
<1>1. ASSUME NEW books, Holds(p), Write(p, books), books.reminded = copy[p].reminded
      PROVE  ~lost /\ metadata'.reminded = metadata.reminded
  BY <1>1, FreshWrite
<1>2. /\ copy[p] \in Books
      /\ Charged(copy[p]).reminded = copy[p].reminded
      /\ ToppedUp(copy[p]).reminded = copy[p].reminded
      /\ Listed(copy[p]).reminded = copy[p].reminded
      /\ [copy[p] EXCEPT !.lite = TRUE].reminded = copy[p].reminded
  BY DEF BooksTypeOK, Books, Charged, ToppedUp, Listed
<1>3. CASE UNCHANGED <<metadata, lost>>
  BY <1>3
<1>4. CASE ChargeWrites(p)
  BY <1>1, <1>2, <1>3, <1>4 DEF ChargeWrites, NotWritten, Holds
<1>5. CASE TopUpWrites(p)
  BY <1>1, <1>2, <1>3, <1>5 DEF TopUpWrites, NotWritten, Holds
<1>6. CASE InvoiceWritten(p)
  BY <1>1, <1>2, <1>3, <1>6 DEF InvoiceWritten, NotWritten, Holds
<1>7. CASE TierWrites(p)
  BY <1>1, <1>2, <1>3, <1>7 DEF TierWrites, NotWritten, Holds
<1>8. CASE \/ \E c \in Contacts : ChargeBegins(p, c) \/ WindowEnds(p, c)
           \/ TopUpBegins(p) \/ FulfilmentBegins(p) \/ TierReads(p)
           \/ Deliver(p) \/ NothingToDeliver(p)
  BY <1>3, <1>8 DEF ChargeBegins, WindowEnds, TopUpBegins, FulfilmentBegins, TierReads,
                    Deliver, NothingToDeliver
<1>9. QED
  BY <1>4, <1>5, <1>6, <1>7, <1>8 DEF ChargeNext, TopUpNext, FulfilNext

(* The writers that are no scan leave the scans alone.                     *)
LEMMA OthersLeaveScans ==
    ASSUME BooksTypeOK, NEW p \in Processes,
           ChargeNext(p) \/ TopUpNext(p) \/ FulfilNext(p)
    PROVE  /\ UNCHANGED <<reminders, slipped>>
           /\ (job[p] \notin Scanning /\ job'[p] \notin Scanning) \/ job' = job
           /\ \A q \in Processes \ {p} : job'[q] = job[q] /\ copy'[q] = copy[q]
           /\ job' = job => copy' = copy
<1> USE DEF tableVars, countVars, notesVars, Scanning, Read, Become, Drop, BooksTypeOK
<1>1. CASE \E c \in Contacts : ChargeBegins(p, c) \/ WindowEnds(p, c)
  BY <1>1 DEF ChargeBegins, WindowEnds
<1>2. CASE ChargeWrites(p) \/ TopUpBegins(p) \/ InvoiceWritten(p)
  BY <1>2 DEF ChargeWrites, TopUpBegins, InvoiceWritten
<1>3. CASE TopUpWrites(p)
  BY <1>3 DEF TopUpWrites
<1>4. CASE FulfilmentBegins(p) \/ TierReads(p) \/ TierWrites(p)
  BY <1>4 DEF FulfilmentBegins, TierReads, TierWrites
<1>5. CASE Deliver(p) \/ NothingToDeliver(p)
  BY <1>5 DEF Deliver, NothingToDeliver
<1>6. QED
  BY <1>1, <1>2, <1>3, <1>4, <1>5 DEF ChargeNext, TopUpNext, FulfilNext

(* A step that sends no reminder and begins no scan, that keeps the flag   *)
(* unless a stale copy is written, and loses no flag on its way there.     *)
LEMMA RemindersUntouched ==
    ASSUME BooksTypeOK, RemindInv, UNCHANGED reminders, ~slipped' => ~slipped,
           ~lost' => ~lost,
           ~lost' /\ ~slipped' => metadata'.reminded = metadata.reminded \/ metadata'.reminded,
           \A q \in Processes : job'[q] \in Scanning =>
               /\ job[q] \in Scanning
               /\ job'[q] = "scan" => job[q] = "scan" /\ copy'[q] = copy[q],
           ~lost' /\ ~slipped' =>
               \A q \in Processes : job[q] = "flag" => job'[q] = "flag" \/ metadata'.reminded
    PROVE  RemindInv'
<1>1. Flagged' => Flagged
  BY DEF Flagged
<1>2. ASSUME Flagged'
      PROVE  \A p \in Processes :
                 job'[p] = "scan" /\ ~copy'[p].reminded => reminders' = 0
  BY <1>1, <1>2 DEF RemindInv, Scanning
<1>3. ASSUME Flagged'
      PROVE  reminders' = 0 \/ metadata'.reminded \/ \E p \in Processes : job'[p] = "flag"
  BY <1>1, <1>3 DEF RemindInv, Flagged
<1>4. QED
  BY <1>1, <1>2, <1>3 DEF RemindInv

(* Every step keeps the invariant.                                         *)
LEMMA RemindStep ==
    BooksTypeOK /\ FreshInv /\ RemindInv /\ [BooksNext]_booksVars => RemindInv'
<1> SUFFICES ASSUME BooksTypeOK, FreshInv, RemindInv, [BooksNext]_booksVars
             PROVE  RemindInv'
  OBVIOUS
<1> USE DEF tableVars, countVars, notesVars
<1>1. ASSUME NEW p \in Processes, ChargeNext(p) \/ TopUpNext(p) \/ FulfilNext(p)
      PROVE  RemindInv'
  <2>1. ~lost' => ~lost /\ metadata'.reminded = metadata.reminded
    BY <1>1, OthersKeepTheFlag
  <2>2. UNCHANGED <<reminders, slipped>>
    BY <1>1, OthersLeaveScans
  <2>3. \A q \in Processes : job'[q] \in Scanning =>
            job[q] \in Scanning /\ job'[q] = job[q] /\ copy'[q] = copy[q]
    BY <1>1, OthersLeaveScans
  <2>4. \A q \in Processes : job[q] = "flag" => job'[q] = "flag"
    BY <1>1, OthersLeaveScans DEF Scanning
  <2>5. QED
    BY <2>1, <2>2, <2>3, <2>4, RemindersUntouched
<1>2. ASSUME NEW p \in Processes, ScanBegins(p)
      PROVE  RemindInv'
  <2>1. /\ UNCHANGED <<metadata, lost, reminders>>
        /\ job[p] = "free" /\ job' = [job EXCEPT ![p] = "scan"]
        /\ copy' = [copy EXCEPT ![p] = metadata]
        /\ slipped' = (slipped \/ \E q \in Processes : job[q] \in Scanning)
    BY <1>2 DEF ScanBegins, Read, Become
  <2>2. CASE slipped \/ \E q \in Processes : job[q] \in Scanning
    BY <2>1, <2>2 DEF RemindInv, Flagged
  <2>3. CASE ~slipped /\ \A q \in Processes : job[q] \notin Scanning
    <3>1. \A q \in Processes : job'[q] \in Scanning => q = p
      BY <2>1, <2>3 DEF BooksTypeOK
    <3>2. /\ job'[p] = "scan" /\ copy'[p] = metadata
          /\ \A q \in Processes : job[q] # "flag"
      BY <2>1, <2>3 DEF BooksTypeOK, Scanning
    <3>3. Flagged' => Flagged
      BY <2>1, <2>3 DEF Flagged
    <3>4. Flagged => reminders = 0 \/ metadata.reminded
      BY <3>2 DEF RemindInv
    <3>5. QED
      BY <2>1, <3>1, <3>2, <3>3, <3>4 DEF RemindInv, Scanning
  <2>4. QED
    BY <2>2, <2>3
<1>3. ASSUME NEW p \in Processes, Remind(p)
      PROVE  RemindInv'
  <2>1. /\ UNCHANGED <<metadata, lost, slipped, copy>>
        /\ job[p] = "scan" /\ ~copy[p].reminded
        /\ job' = [job EXCEPT ![p] = "flag"] /\ reminders' = reminders + 1
    BY <1>3 DEF Remind, Become
  <2>2. job'[p] = "flag" /\ \A q \in Processes \ {p} : job'[q] = job[q]
    BY <2>1 DEF BooksTypeOK
  <2>3. \A q \in Processes : job'[q] \in Scanning => job[q] \in Scanning
    BY <2>1, <2>2 DEF Scanning
  <2>4. Flagged' <=> Flagged
    BY <2>1 DEF Flagged
  <2>5. Flagged => reminders = 0 /\ \A q \in Processes : job[q] \in Scanning => q = p
    BY <2>1 DEF RemindInv, Flagged, Scanning
  <2>6. Flagged => reminders' <= 1
    BY <2>1, <2>5
  <2>7. Flagged => \A q \in Processes : job'[q] # "scan"
    BY <2>2, <2>5 DEF Scanning
  <2>8. ~slipped' => ~slipped
    BY <2>1
  <2>9. QED
    BY <2>2, <2>3, <2>4, <2>6, <2>7, <2>8 DEF RemindInv
<1>4. ASSUME NEW p \in Processes, RemindsNot(p)
      PROVE  RemindInv'
  <2>1. /\ UNCHANGED <<metadata, lost>>
        /\ job[p] = "scan" /\ job'[p] \in {"mail", "free"}
        /\ \A q \in Processes \ {p} : job'[q] = job[q] /\ copy'[q] = copy[q]
    BY <1>4 DEF RemindsNot, Become, Drop, BooksTypeOK
  <2>2. CASE slipped' = TRUE
    BY <2>2 DEF RemindInv, Flagged
  <2>3. CASE UNCHANGED <<reminders, slipped>>
    BY <2>1, <2>3, RemindersUntouched DEF Scanning
  <2>4. QED
    BY <1>4, <2>2, <2>3 DEF RemindsNot
<1>5. ASSUME NEW p \in Processes, ScanWrites(p)
      PROVE  RemindInv'
  <2>1. /\ job[p] \in {"flag", "mail"} /\ job' = [job EXCEPT ![p] = "free"]
        /\ UNCHANGED reminders
    BY <1>5 DEF ScanWrites, Become
  <2>2. job'[p] = "free" /\ \A q \in Processes \ {p} : job'[q] = job[q] /\ copy'[q] = copy[q]
    BY <1>5, <2>1 DEF ScanWrites, Drop, BooksTypeOK
  <2>3. CASE Write(p, Reminded(copy[p])) /\ UNCHANGED slipped
    <3>1. metadata'.reminded /\ (~lost' => ~lost)
      BY <2>3 DEF Write, Reminded, BooksTypeOK, Books
    <3>2. QED
      BY <2>1, <2>2, <2>3, <3>1, RemindersUntouched DEF Scanning
  <2>4. CASE job[p] = "mail" /\ Write(p, copy[p]) /\ UNCHANGED slipped
    <3>1. ~lost' => ~lost /\ metadata' = metadata
      BY <2>1, <2>4, FreshWrite DEF Holds, Scanning
    <3>2. QED
      BY <2>1, <2>2, <2>4, <3>1, RemindersUntouched DEF Scanning
  <2>5. CASE NotWritten(p) /\ slipped' = (slipped \/ job[p] = "flag")
    <3>1. CASE job[p] = "flag"
      BY <2>5, <3>1 DEF RemindInv, Flagged
    <3>2. CASE job[p] = "mail"
      BY <2>1, <2>2, <2>5, <3>2, RemindersUntouched DEF Scanning, NotWritten
    <3>3. QED
      BY <2>1, <3>1, <3>2
  <2>6. QED
    BY <1>5, <2>3, <2>4, <2>5 DEF ScanWrites
<1>6. ASSUME NEW p \in Processes, ProcessDies(p)
      PROVE  RemindInv'
  <2>1. /\ UNCHANGED <<metadata, lost, reminders>>
        /\ slipped' = (slipped \/ job[p] = "flag")
        /\ job'[p] = "free"
        /\ \A q \in Processes \ {p} : job'[q] = job[q] /\ copy'[q] = copy[q]
    BY <1>6 DEF ProcessDies, Become, Drop, BooksTypeOK
  <2>2. CASE slipped \/ job[p] = "flag"
    BY <2>1, <2>2 DEF RemindInv, Flagged
  <2>3. CASE ~slipped /\ job[p] # "flag"
    BY <2>1, <2>3, RemindersUntouched DEF Scanning
  <2>4. QED
    BY <2>2, <2>3
<1>7. CASE UNCHANGED booksVars
  BY <1>7 DEF booksVars, RemindInv, Flagged
<1>8. QED
  BY <1>1, <1>2, <1>3, <1>4, <1>5, <1>6, <1>7 DEF BooksNext, ScanNext

(* However the writers interleave, fail and die, the merchant is reminded  *)
(* twice only with two scans at once, a flag that was not written, or a    *)
(* stale copy that was.                                                    *)
THEOREM RemindedTwiceNeedsACause == BooksSpec => []RemindedTwiceOnlySlipped
<1>1. BooksInit => BooksTypeOK /\ FreshInv /\ RemindInv
  BY BooksTypeInit, FreshInit, RemindInit
<1>2. BooksTypeOK /\ FreshInv /\ RemindInv /\ [BooksNext]_booksVars
        => (BooksTypeOK /\ FreshInv /\ RemindInv)'
  BY BooksTypeStep, FreshStep, RemindStep
<1>3. BooksTypeOK /\ RemindInv => RemindedTwiceOnlySlipped
  BY DEF BooksTypeOK, RemindInv, Flagged, RemindedTwiceOnlySlipped
<1>4. QED
  BY <1>1, <1>2, <1>3, PTL DEF BooksSpec

-----------------------------------------------------------------------------
(* A tenant whose jobs all run in one process                              *)

(* There is no second process.                                             *)
OneProcess == \A p, q \in Processes : p = q

(* The inductive invariant of a process alone: no copy is out of date, no  *)
(* fulfilment is beside another, and DELIVERED is not written only when    *)
(* Supabase fails.                                                         *)
AloneInv ==
    /\ stale = {} /\ ~lost
    /\ ~beside
    /\ unmarked => Fails("supabase")

(* What a process alone promises: no charge and no top-up is lost, and the *)
(* goods and the reminder go out twice only after a call that failed.      *)
AlonePromise ==
    /\ metadata.used = charges
    /\ metadata.overage = PackSize * credits
    /\ oneDatabase /\ sends > 1 => Fails("supabase")
    /\ reminders > 1 => slipped

(* A write of the only process makes no copy stale.                        *)
LEMMA AloneWrite ==
    ASSUME OneProcess, AloneInv, NEW p \in Processes, NEW books,
           Write(p, books) \/ NotWritten(p)
    PROVE  stale' = {} /\ ~lost'
<1>1. \A q \in Processes : q = p
  BY DEF OneProcess
<1>2. stale' = {}
  <2>1. CASE Write(p, books)
    BY <1>1, <2>1 DEF Write
  <2>2. CASE NotWritten(p)
    BY <2>2 DEF AloneInv, NotWritten
  <2> QED
    BY <2>1, <2>2
<1>3. p \notin stale /\ ~lost
  BY DEF AloneInv
<1>4. ~lost'
  BY <1>3, Zenon DEF Write, NotWritten
<1> QED
  BY <1>2, <1>4

(* Every step of the only process keeps AloneInv.                          *)
LEMMA AloneStep == OneProcess /\ AloneInv /\ [BooksNext]_booksVars => AloneInv'
<1> SUFFICES ASSUME OneProcess, AloneInv, [BooksNext]_booksVars PROVE AloneInv'
  OBVIOUS
<1> USE DEF tableVars, countVars, notesVars
<1>1. CASE UNCHANGED booksVars
  BY <1>1 DEF booksVars, AloneInv, Fails
<1>2. CASE \E p \in Processes : ChargeNext(p) \/ TopUpNext(p) \/ FulfilNext(p)
                                    \/ ScanNext(p) \/ ProcessDies(p)
  <2> PICK p \in Processes : ChargeNext(p) \/ TopUpNext(p) \/ FulfilNext(p)
                                \/ ScanNext(p) \/ ProcessDies(p)
    BY <1>2
  <2>1. CASE ChargeNext(p)
    <3>1. stale' = {} /\ ~lost'
      BY <2>1, AloneWrite
         DEF AloneInv, ChargeNext, ChargeBegins, WindowEnds, ChargeWrites, Read
    <3>2. UNCHANGED <<trouble, beside, unmarked>>
      BY <2>1 DEF ChargeNext, ChargeBegins, WindowEnds, ChargeWrites
    <3> QED
      BY <3>1, <3>2 DEF AloneInv, Fails
  <2>2. CASE TopUpNext(p)
    <3>1. stale' = {} /\ ~lost'
      BY <2>2, AloneWrite
         DEF AloneInv, TopUpNext, TopUpBegins, TopUpWrites, InvoiceWritten, Read
    <3>2. UNCHANGED <<trouble, beside, unmarked>>
      BY <2>2 DEF TopUpNext, TopUpBegins, TopUpWrites, InvoiceWritten
    <3> QED
      BY <3>1, <3>2 DEF AloneInv, Fails
  <2>3. CASE FulfilNext(p)
    <3>1. stale' = {} /\ ~lost'
      BY <2>3, AloneWrite
         DEF AloneInv, FulfilNext, FulfilmentBegins, TierReads, TierWrites, Deliver,
             NothingToDeliver, Read
    <3>2. ~beside' /\ UNCHANGED trouble
      <4>1. ~beside
        BY DEF AloneInv
      <4>2. FulfilmentBegins(p) => \A q \in Processes : job[q] \notin Fulfilling
        BY DEF OneProcess, FulfilmentBegins, Fulfilling
      <4>3. CASE FulfilmentBegins(p)
        <5>1. beside' = (beside \/ \E q \in Processes : job[q] \in Fulfilling)
          BY <4>3 DEF FulfilmentBegins
        <5>2. UNCHANGED trouble
          BY <4>3 DEF FulfilmentBegins
        <5> QED
          BY <4>1, <4>2, <4>3, <5>1, <5>2, Zenon
      <4>4. CASE TierReads(p) \/ TierWrites(p) \/ Deliver(p) \/ NothingToDeliver(p)
        BY <4>1, <4>4 DEF TierReads, TierWrites, Deliver, NothingToDeliver
      <4> QED
        BY <2>3, <4>3, <4>4 DEF FulfilNext
    <3>3. unmarked' => unmarked \/ Fails("supabase")
      BY <2>3 DEF FulfilNext, FulfilmentBegins, TierReads, TierWrites, Deliver,
                  NothingToDeliver
    <3> QED
      BY <3>1, <3>2, <3>3 DEF AloneInv, Fails
  <2>4. CASE ScanNext(p)
    <3>1. stale' = {} /\ ~lost'
      BY <2>4, AloneWrite
         DEF AloneInv, ScanNext, ScanBegins, Remind, RemindsNot, ScanWrites, Read
    <3>2. UNCHANGED <<trouble, beside, unmarked>>
      BY <2>4 DEF ScanNext, ScanBegins, Remind, RemindsNot, ScanWrites
    <3> QED
      BY <3>1, <3>2 DEF AloneInv, Fails
  <2>5. CASE ProcessDies(p)
    BY <2>5 DEF AloneInv, Fails, ProcessDies
  <2> QED
    BY <2>1, <2>2, <2>3, <2>4, <2>5
<1> QED
  BY <1>1, <1>2 DEF BooksNext

(* decrement_session_quota_if_eligible, increment_session_quota, the       *)
(* fulfilment and the reminder worker: as long as one process does all     *)
(* jobs of a tenant, one after the other, every charge and every top-up    *)
(* that was written stays in the record whatever fails and whenever the    *)
(* process dies, and nothing is sent a second time without an error.       *)
THEOREM OneProcessLosesNothing == OneProcess => (BooksSpec => []AlonePromise)
<1> SUFFICES ASSUME OneProcess PROVE BooksSpec => []AlonePromise
  OBVIOUS
<1>1. BooksInit => AloneInv
  BY DEF BooksInit, AloneInv
<1>2. AloneInv /\ [BooksNext]_booksVars => AloneInv'
  BY AloneStep
<1>3. /\ LostOnlyToStaleCopies /\ SentTwiceOnlyUnmarked
      /\ RemindedTwiceOnlySlipped /\ AloneInv
      => AlonePromise
  BY DEF LostOnlyToStaleCopies, SentTwiceOnlyUnmarked, RemindedTwiceOnlySlipped, AloneInv,
         AlonePromise
<1> QED
  BY <1>1, <1>2, <1>3, OnlyStaleCopiesLose, SentTwiceNeedsACause, RemindedTwiceNeedsACause,
     PTL DEF BooksSpec
=============================================================================
