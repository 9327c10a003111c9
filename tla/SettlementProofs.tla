--------------------------- MODULE SettlementProofs ---------------------------
(***************************************************************************)
(* What holds of Settlement for any number of invoices, threads, statement *)
(* lines and installments, and any amounts.                                *)
(***************************************************************************)
EXTENDS Settlement, FiniteSetTheorems, TLAPS

-----------------------------------------------------------------------------
(* Sums.  The library's induction theorems cannot be applied to an operator *)
(* of ours, but its least-element theorem can: a claim about every part of  *)
(* a finite set that failed would fail of a smallest part.                  *)

\* What a claim about every part of a finite set is proved by: were it false of
\* some part, it would be false of a smallest one.
LEMMA SmallestPart ==
  ASSUME NEW S, IsFiniteSet(S), NEW B, B \subseteq SUBSET S, B # {}
  PROVE  \E T \in B : \A U \in B : U \subseteq T => U = T
<1>1. IsWellFoundedOn(StrictSubsetOrdering(S), SUBSET S)
  BY FS_FiniteSubsetsOfFinite, FS_StrictSubsetOrderingWellFounded
<1>2. PICK T \in B : \A U \in B : <<U, T>> \notin StrictSubsetOrdering(S)
  BY <1>1, WFMin
<1> QED
  BY <1>2 DEF StrictSubsetOrdering

\* The element a sum over s adds first.
First(s) == CHOOSE x \in s : TRUE

\* g tells the sum of f over every part of S.
Sums(f, S, g) ==
  g = [s \in SUBSET S |-> IF s = {} THEN 0 ELSE f[First(s)] + g[s \ {First(s)}]]

\* The sums the fold of the library takes.
SumsOf(f, S) == CHOOSE g : Sums(f, S, g)

\* SumFunctionOnSet is that fold.
LEMMA SumUnfolds ==
  \A f, S : SumFunctionOnSet(f, S) = SumsOf(f, S)[S]
BY DEF SumFunctionOnSet, FoldFunctionOnSet, MapThenFoldSet, Sums, SumsOf, First

\* A set that is not empty has a first element.
LEMMA FirstIn == \A s : s # {} => First(s) \in s
BY DEF First

\* What a sum over a part is does not depend on the whole.
LEMMA SumsAgree ==
  ASSUME NEW f, NEW S, IsFiniteSet(S), NEW T, NEW g, NEW h, Sums(f, S, g), Sums(f, T, h)
  PROVE  \A s \in SUBSET (S \cap T) : g[s] = h[s]
<1> DEFINE B == {s \in SUBSET (S \cap T) : g[s] # h[s]}
<1>1. SUFFICES ASSUME B # {} PROVE FALSE
  OBVIOUS
<1>3. PICK s \in B : \A u \in B : u \subseteq s => u = s
  <2>1. B \subseteq SUBSET S
    OBVIOUS
  <2> HIDE DEF B
  <2> QED
    BY <1>1, <2>1, SmallestPart
<1>4. /\ g[s] = IF s = {} THEN 0 ELSE f[First(s)] + g[s \ {First(s)}]
      /\ h[s] = IF s = {} THEN 0 ELSE f[First(s)] + h[s \ {First(s)}]
  BY DEF Sums
<1>5. s # {} => s \ {First(s)} \notin B
  BY <1>3, FirstIn
<1> QED
  BY <1>3, <1>4, <1>5

\* Every finite set has a sum over each of its parts.
LEMMA SumsExist ==
  ASSUME NEW f, NEW S, IsFiniteSet(S)
  PROVE  Sums(f, S, SumsOf(f, S))
<1> DEFINE B == {T \in SUBSET S : ~\E g : Sums(f, T, g)}
<1>1. SUFFICES ASSUME B # {} PROVE FALSE
  BY DEF SumsOf
<1>2. PICK T \in B : \A U \in B : U \subseteq T => U = T
  <2>1. B \subseteq SUBSET S
    OBVIOUS
  <2> HIDE DEF B
  <2> QED
    BY <1>1, <2>1, SmallestPart
<1>3. ASSUME NEW U \in SUBSET T, U # T PROVE Sums(f, U, SumsOf(f, U))
  <2>1. \E g : Sums(f, U, g)
    BY <1>2, <1>3
  <2> QED
    BY <2>1 DEF SumsOf
<1> DEFINE part(s) == SumsOf(f, s \ {First(s)})[s \ {First(s)}]
           h == [s \in SUBSET T |-> IF s = {} THEN 0 ELSE f[First(s)] + part(s)]
<1>4. ASSUME NEW s \in SUBSET T, s # {} PROVE h[s \ {First(s)}] = part(s)
  <2> DEFINE u == s \ {First(s)}
  <2>1. u \in SUBSET T /\ u # T
    BY <1>4, FirstIn
  <2>2. Sums(f, u, SumsOf(f, u))
    BY <1>3, <2>1
  <2> HIDE DEF u
  <2>3. SumsOf(f, u)[u] = IF u = {} THEN 0 ELSE f[First(u)] + SumsOf(f, u)[u \ {First(u)}]
    BY <2>2 DEF Sums
  <2>4. CASE u = {}
    BY <2>1, <2>3, <2>4 DEF u
  <2>5. CASE u # {}
    <3>1. u \ {First(u)} \in SUBSET T /\ u \ {First(u)} # T /\ IsFiniteSet(u)
      BY <2>1, <2>5, FirstIn, FS_Subset
    <3>2. Sums(f, u \ {First(u)}, SumsOf(f, u \ {First(u)}))
      BY <1>3, <3>1
    <3>3. SumsOf(f, u)[u \ {First(u)}] = part(u)
      BY <2>2, <3>1, <3>2, SumsAgree
    <3> QED
      BY <2>1, <2>3, <2>5, <3>3 DEF u
  <2> QED
    BY <2>4, <2>5
<1>5. Sums(f, T, h)
  BY <1>4 DEF Sums
<1> QED
  BY <1>2, <1>5

\* A sum is taken one element at a time.
LEMMA SumStep ==
  ASSUME NEW f, NEW S, IsFiniteSet(S)
  PROVE  SumFunctionOnSet(f, S) =
           IF S = {} THEN 0
           ELSE f[First(S)] + SumFunctionOnSet(f, S \ {First(S)})
<1>1. SumsOf(f, S)[S] = IF S = {} THEN 0 ELSE f[First(S)] + SumsOf(f, S)[S \ {First(S)}]
  <2>1. Sums(f, S, SumsOf(f, S))
    BY SumsExist
  <2> QED
    BY <2>1 DEF Sums
<1>2. SumsOf(f, S)[S \ {First(S)}] = SumsOf(f, S \ {First(S)})[S \ {First(S)}]
  <2>1. IsFiniteSet(S \ {First(S)})
    BY FS_RemoveElement
  <2> QED
    BY <2>1, SumsExist, SumsAgree
<1> QED
  BY <1>1, <1>2, SumUnfolds

\* Nothing adds up to nothing.
LEMMA SumEmpty == \A f : SumFunctionOnSet(f, {}) = 0
BY SumStep, FS_EmptySet

\* Integers add up to an integer.
LEMMA SumType ==
  ASSUME NEW f, NEW S, IsFiniteSet(S), \A x \in S : f[x] \in Int
  PROVE  SumFunctionOnSet(f, S) \in Int
<1> DEFINE B == {T \in SUBSET S : SumFunctionOnSet(f, T) \notin Int}
<1>1. SUFFICES ASSUME B # {} PROVE FALSE
  OBVIOUS
<1>2. PICK T \in B : \A U \in B : U \subseteq T => U = T
  <2>1. B \subseteq SUBSET S
    OBVIOUS
  <2> HIDE DEF B
  <2> QED
    BY <1>1, <2>1, SmallestPart
<1>3. IsFiniteSet(T)
  BY FS_Subset
<1>4. T # {}
  BY SumEmpty
<1>5. First(T) \in T /\ T \ {First(T)} \notin B /\ T \ {First(T)} \in SUBSET S
  BY <1>2, <1>4, FirstIn
<1>6. SumFunctionOnSet(f, T) = f[First(T)] + SumFunctionOnSet(f, T \ {First(T)})
  BY <1>3, <1>4, SumStep
<1> QED
  BY <1>5, <1>6

\* Any element may be added last.
LEMMA SumRemove ==
  ASSUME NEW f, NEW S, IsFiniteSet(S), \A x \in S : f[x] \in Int, NEW y \in S
  PROVE  SumFunctionOnSet(f, S) = f[y] + SumFunctionOnSet(f, S \ {y})
<1> DEFINE Sum(T) == SumFunctionOnSet(f, T)
           B == {T \in SUBSET S : \E x \in T : Sum(T) # f[x] + Sum(T \ {x})}
<1>1. SUFFICES ASSUME B # {} PROVE FALSE
  OBVIOUS
<1>2. PICK T \in B : \A U \in B : U \subseteq T => U = T
  <2>1. B \subseteq SUBSET S
    OBVIOUS
  <2> HIDE DEF B
  <2> QED
    BY <1>1, <2>1, SmallestPart
<1>3. PICK x \in T : Sum(T) # f[x] + Sum(T \ {x})
  OBVIOUS
<1> DEFINE c == First(T)
<1>4. /\ \A U \in SUBSET S : IsFiniteSet(U) /\ Sum(U) \in Int
  BY FS_Subset, SumType
<1>5. c \in T /\ Sum(T) = f[c] + Sum(T \ {c})
  BY <1>4, FirstIn, SumStep
<1>6. x # c
  BY <1>3, <1>5
<1>7. T \ {c} \notin B /\ T \ {x} \notin B
  BY <1>2, <1>5
<1>8. Sum(T \ {c}) = f[x] + Sum((T \ {c}) \ {x})
  BY <1>6, <1>7
<1>9. Sum(T \ {x}) = f[c] + Sum((T \ {x}) \ {c})
  BY <1>5, <1>6, <1>7
<1>10. (T \ {x}) \ {c} = (T \ {c}) \ {x}
  OBVIOUS
<1>11. f[x] \in Int /\ f[c] \in Int /\ Sum((T \ {c}) \ {x}) \in Int
  BY <1>4, <1>5
<1>12. /\ Sum(T) = f[c] + Sum(T \ {c})
       /\ Sum(T) # f[x] + Sum(T \ {x})
  BY <1>3, <1>5
<1>13. Sum(T \ {x}) = f[c] + Sum((T \ {c}) \ {x})
  BY <1>9, <1>10
<1> HIDE DEF Sum, c, B
<1> QED
  BY <1>8, <1>11, <1>12, <1>13

\* Larger parts add up to more.
LEMMA SumMonotone ==
  ASSUME NEW f, NEW g, NEW S, IsFiniteSet(S),
         \A x \in S : f[x] \in Int /\ g[x] \in Int /\ f[x] <= g[x]
  PROVE  SumFunctionOnSet(f, S) <= SumFunctionOnSet(g, S)
<1> DEFINE B == {T \in SUBSET S : ~(SumFunctionOnSet(f, T) <= SumFunctionOnSet(g, T))}
<1>1. SUFFICES ASSUME B # {} PROVE FALSE
  OBVIOUS
<1>2. PICK T \in B : \A U \in B : U \subseteq T => U = T
  <2>1. B \subseteq SUBSET S
    OBVIOUS
  <2> HIDE DEF B
  <2> QED
    BY <1>1, <2>1, SmallestPart
<1>3. IsFiniteSet(T)
  BY FS_Subset
<1>4. T # {}
  BY SumEmpty
<1>5. First(T) \in T /\ T \ {First(T)} \notin B /\ T \ {First(T)} \in SUBSET S
  BY <1>2, <1>4, FirstIn
<1>6. /\ SumFunctionOnSet(f, T) = f[First(T)] + SumFunctionOnSet(f, T \ {First(T)})
      /\ SumFunctionOnSet(g, T) = g[First(T)] + SumFunctionOnSet(g, T \ {First(T)})
  BY <1>3, <1>4, SumStep
<1>7. /\ SumFunctionOnSet(f, T \ {First(T)}) \in Int
      /\ SumFunctionOnSet(g, T \ {First(T)}) \in Int
      /\ f[First(T)] \in Int /\ g[First(T)] \in Int /\ f[First(T)] <= g[First(T)]
  BY <1>3, <1>5, FS_RemoveElement, SumType
<1> QED
  BY <1>5, <1>6, <1>7

\* Only what is added up matters.
LEMMA SumSame ==
  ASSUME NEW f, NEW g, NEW S, IsFiniteSet(S), \A x \in S : f[x] \in Int /\ f[x] = g[x]
  PROVE  SumFunctionOnSet(f, S) = SumFunctionOnSet(g, S)
<1>1. /\ SumFunctionOnSet(f, S) \in Int /\ SumFunctionOnSet(g, S) \in Int
  BY SumType
<1>2. /\ SumFunctionOnSet(f, S) <= SumFunctionOnSet(g, S)
      /\ SumFunctionOnSet(g, S) <= SumFunctionOnSet(f, S)
  BY SumMonotone
<1> QED
  BY <1>1, <1>2

\* Adding parts that are not negative makes no sum smaller.
LEMMA SumOfMore ==
  ASSUME NEW f, NEW S, NEW T, IsFiniteSet(T), S \subseteq T,
         \A x \in T : f[x] \in Int, \A x \in T \ S : f[x] >= 0
  PROVE  SumFunctionOnSet(f, S) <= SumFunctionOnSet(f, T)
<1> DEFINE Sum(U) == SumFunctionOnSet(f, U)
           B == {U \in SUBSET T : S \subseteq U /\ ~(Sum(S) <= Sum(U))}
<1>0. \A U \in SUBSET T : IsFiniteSet(U) /\ Sum(U) \in Int
  BY FS_Subset, SumType
<1>1. SUFFICES ASSUME B # {} PROVE FALSE
  OBVIOUS
<1>2. PICK U \in B : \A V \in B : V \subseteq U => V = U
  <2>1. B \subseteq SUBSET T
    OBVIOUS
  <2> HIDE DEF B
  <2> QED
    BY <1>1, <2>1, SmallestPart
<1>3. U # S
  BY <1>0
<1>4. PICK x \in U : x \notin S
  BY <1>3
<1>5. U \ {x} \notin B /\ U \ {x} \in SUBSET T /\ S \subseteq U \ {x}
  BY <1>2, <1>4
<1>6. Sum(U) = f[x] + Sum(U \ {x})
  BY <1>0, SumRemove
<1>7. Sum(U) \in Int /\ Sum(U \ {x}) \in Int /\ Sum(S) \in Int /\ f[x] \in Int /\ f[x] >= 0
  BY <1>0, <1>4, <1>5
<1> HIDE DEF Sum
<1> QED
  BY <1>5, <1>6, <1>7

\* Two sets that share nothing add up separately.
LEMMA SumUnion ==
  ASSUME NEW f, NEW S, NEW T, IsFiniteSet(S), IsFiniteSet(T), S \cap T = {},
         \A x \in S \cup T : f[x] \in Int
  PROVE  SumFunctionOnSet(f, S \cup T) = SumFunctionOnSet(f, S) + SumFunctionOnSet(f, T)
<1> DEFINE Sum(U) == SumFunctionOnSet(f, U)
           B == {U \in SUBSET T : Sum(S \cup U) # Sum(S) + Sum(U)}
<1>0. \A U \in SUBSET T : /\ IsFiniteSet(U) /\ IsFiniteSet(S \cup U)
                          /\ Sum(U) \in Int /\ Sum(S \cup U) \in Int
  <2> SUFFICES ASSUME NEW U \in SUBSET T
               PROVE  /\ IsFiniteSet(U) /\ IsFiniteSet(S \cup U)
                      /\ Sum(U) \in Int /\ Sum(S \cup U) \in Int
    OBVIOUS
  <2>1. IsFiniteSet(U) /\ IsFiniteSet(S \cup U)
    BY FS_Subset, FS_Union
  <2> QED
    BY <2>1, SumType
<1>1. SUFFICES ASSUME B # {} PROVE FALSE
  OBVIOUS
<1>2. PICK U \in B : \A V \in B : V \subseteq U => V = U
  <2>1. B \subseteq SUBSET T
    OBVIOUS
  <2> HIDE DEF B
  <2> QED
    BY <1>1, <2>1, SmallestPart
<1>3. Sum(S) \in Int /\ Sum({}) = 0
  BY SumType, SumEmpty
<1>4. U # {}
  <2>1. S \cup {} = S
    OBVIOUS
  <2>2. Sum(S \cup {}) = Sum(S) + Sum({})
    BY <1>3, <2>1
  <2> QED
    BY <2>2
<1>5. PICK x \in U : TRUE
  BY <1>4
<1>6. U \ {x} \notin B /\ U \ {x} \in SUBSET T
  BY <1>2, <1>5
<1>7. Sum(U) = f[x] + Sum(U \ {x})
  BY <1>0, SumRemove
<1>8. Sum(S \cup U) = f[x] + Sum(S \cup (U \ {x}))
  <2>1. (S \cup U) \ {x} = S \cup (U \ {x})
    OBVIOUS
  <2>2. x \in S \cup U /\ \A y \in S \cup U : f[y] \in Int
    OBVIOUS
  <2>3. Sum(S \cup U) = f[x] + Sum((S \cup U) \ {x})
    BY <1>0, <2>2, SumRemove
  <2> QED
    BY <2>1, <2>3
<1>9. Sum(S \cup (U \ {x})) = Sum(S) + Sum(U \ {x})
  BY <1>6
<1>10. f[x] \in Int /\ Sum(U \ {x}) \in Int
  BY <1>0, <1>6
<1>11. Sum(S \cup U) # Sum(S) + Sum(U)
  OBVIOUS
<1> HIDE DEF Sum
<1> QED
  BY <1>3, <1>7, <1>8, <1>9, <1>10, <1>11
-----------------------------------------------------------------------------
(* The rows requests write.                                                *)

\* The default plan of a course is a plan: every part is an amount.
LEMMA DefaultPlanType == DefaultPlan \in [Installments -> InstallmentRows]
<1>1. \A n \in 1..InstallmentCount : Split(Price, InstallmentCount)[n] \in Nat
  <2> DEFINE part == Price \div InstallmentCount
  <2>1. InstallmentCount \in Nat \ {0} /\ Price \in Nat
    BY BoundsAssumption
  <2>2. part \in Nat /\ part * InstallmentCount <= Price
    BY <2>1
  <2>3. part * (InstallmentCount - 1) = part * InstallmentCount - part
    BY <2>1, <2>2
  <2>4. Price - part * (InstallmentCount - 1) \in Nat
    BY <2>1, <2>2, <2>3
  <2> QED
    BY <2>2, <2>4 DEF Split
<1> QED
  BY <1>1 DEF DefaultPlan, InstallmentRows, Installments

\* A refunded payment row is still a payment row, for the same invoice and amount.
LEMMA AfterRefundType ==
  ASSUME NEW row \in PaymentRows, NEW j \in Jobs
  PROVE  /\ AfterRefund(row, j) \in PaymentRows
         /\ AfterRefund(row, j).inv = row.inv
         /\ AfterRefund(row, j).amount = row.amount
         /\ row.status # "absent" /\ j.saw # "absent" => AfterRefund(row, j).status # "absent"
<1>1. j.amt \in Nat
  BY DEF Jobs
<1> QED
  BY <1>1 DEF AfterRefund, PaymentRows

\* What request w's transaction sees is made of rows like any other.
LEMMA SeenType ==
  ASSUME TypeOK, NEW w \in Workers
  PROVE  /\ PaymentsSeen(w) \in [Keys -> PaymentRows]
         /\ InvoicesSeen(w) \in [Invoices -> InvoiceRows]
         /\ InstallmentsSeen(w) \in [Installments -> InstallmentRows]
<1> USE DEF TypeOK
<1>1. PaymentsSeen(w) \in [Keys -> PaymentRows]
  <2>1. CASE Settling(w)
    BY <2>1 DEF PaymentsSeen, PaymentRows, Jobs
  <2>2. CASE ~Settling(w) /\ job[w].op = "refund"
    <3>1. job[w].key \in Keys => AfterRefund(payment[job[w].key], job[w]) \in PaymentRows
      BY AfterRefundType
    <3> QED
      BY <2>2, <3>1 DEF PaymentsSeen
  <2> QED
    BY <2>1, <2>2 DEF PaymentsSeen
<1>2. InvoicesSeen(w) \in [Invoices -> InvoiceRows]
  <2>1. CASE WritesInvoice(w)
    BY <2>1, ZenonT(60) DEF InvoicesSeen, InvoiceRows
  <2>2. CASE ~WritesInvoice(w) /\ job[w].op = "delete"
    <3>1. ASSUME NEW row \in InvoiceRows
          PROVE  [row EXCEPT !.on = Balance] \in InvoiceRows
      BY DEF InvoiceRows
    <3> QED
      BY <2>2, <3>1 DEF InvoicesSeen
  <2> QED
    BY <2>1, <2>2 DEF InvoicesSeen
<1>3. InstallmentsSeen(w) \in [Installments -> InstallmentRows]
  <2>1. CASE ~WritesInstallment(w) \/ job[w].op = "plan"
    BY <2>1, DefaultPlanType DEF InstallmentsSeen
  <2>2. CASE WritesInstallment(w) /\ job[w].op # "plan"
    <3>1. job[w].on \in Installments /\ job[w].amt \in Nat
      BY <2>2 DEF WritesInstallment, Jobs
    <3>2. Settling(w) \/ job[w].op \in {"waive", "delete", "update", "add"}
      BY <2>2 DEF WritesInstallment, EditOps
    <3>3. ASSUME NEW row \in InstallmentRows
          PROVE  InstallmentAfter(row, w) \in InstallmentRows
      BY <3>1, <3>2 DEF InstallmentAfter, InstallmentRows, Settling, SettleOps
    <3> QED
      BY <2>2, <3>1, <3>3 DEF InstallmentsSeen
  <2> QED
    BY <2>1, <2>2
<1> QED
  BY <1>1, <1>2, <1>3

-----------------------------------------------------------------------------
(* Type correctness.                                                       *)

\* Starting a well-typed request, ending one, or moving one on keeps the types.
LEMMA JobType ==
  ASSUME TypeOK, NEW w \in Workers
  PROVE  /\ Idle \in Jobs
         /\ \A request \in Jobs : Start(w, request) => TypeOK'
         /\ \A step \in Steps : Go(w, step) => job' \in [Workers -> Jobs]
         /\ Finish(w) => job' \in [Workers -> Jobs]
<1>1. Idle \in Jobs
  BY DEF Idle, Jobs, AllOps, Steps
<1>2. \A request \in Jobs : Start(w, request) => TypeOK'
  BY DEF TypeOK, Start, tables, gateway
<1>3. \A step \in Steps : Go(w, step) => job' \in [Workers -> Jobs]
  <2>1. ASSUME NEW step \in Steps PROVE [job[w] EXCEPT !.step = step] \in Jobs
    BY DEF TypeOK, Jobs
  <2> QED
    BY <2>1 DEF TypeOK, Go
<1>4. Finish(w) => job' \in [Workers -> Jobs]
  BY <1>1 DEF TypeOK, Finish
<1> QED
  BY <1>1, <1>2, <1>3, <1>4

\* The tables, the gateways and the requests start out with their types.
LEMMA TypeInit == Init => TypeOK
<1> SUFFICES ASSUME Init PROVE TypeOK
  OBVIOUS
<1>1. installment \in [Installments -> InstallmentRows]
  BY DefaultPlanType DEF Init, InstallmentRows
<1>2. job \in [Workers -> Jobs]
  BY DEF Init, Idle, Jobs, AllOps, Steps
<1> QED
  BY <1>1, <1>2 DEF Init, TypeOK, InvoiceRows, PaymentRows, CreditRows

-----------------------------------------------------------------------------
(* The inductive invariant.  Money on the books came through a gateway     *)
(* because the request that booked it carries the gateway's report, and no *)
(* payment is written over because two open transactions never hold one    *)
(* key and the key of an open settlement is still free.                    *)

\* A request that settles carries what the gateway said of its own invoice.
Backed(j) == Borne(j.key, j.inv, j.amt)

RequestOK(j) ==
  /\ j.op \in SettleOps => j.inv \in Invoices /\ invoice[j.inv].status # "absent"
  /\ j.op \in SettleOps /\ j.step # "cancel" => j.key \in Keys /\ Backed(j)
  /\ j.step \in {"lookup", "mark"} => j.op \in SettleOps
  /\ j.step \in {"quote", "gateway"} => j.op \in CreateOps
  /\ j.step = "mark" => Recorded(j.key) /\ payment[j.key].amount >= invoice[j.inv].amount
  /\ j.op = "refund" => j.key \in Keys /\ Recorded(j.key) /\ j.saw # "absent"

\* An open transaction that is about to commit a new payment.
Books(j) == j.op \in SettleOps /\ j.step \in {"rest", "sum", "plan", "row", "commit"}

LocksOK ==
  \A w \in Workers : Books(job[w]) =>
    /\ ~Recorded(job[w].key)
    /\ \A v \in Workers \ {w} : Books(job[v]) => job[v].key # job[w].key

LinksOK ==
  /\ \A k \in Keys : Recorded(k) =>
       payment[k].inv \in Invoices /\ invoice[payment[k].inv].status # "absent"
  /\ \A w \in Workers : RequestOK(job[w])

IInv == TypeOK /\ LinksOK /\ LocksOK /\ RecordedIsCollected /\ PaidInvoiceCovered

-----------------------------------------------------------------------------
(* Type correctness of a step.                                             *)

\* What a gateway says is a payment id and an amount, and the invoice bears it out.
LEMMA ReportType ==
  ASSUME TypeOK, NEW i \in Invoices, NEW report \in Reports(i)
  PROVE  /\ report.key \in Keys /\ report.amount \in Nat
         /\ Borne(report.key, i, report.amount) /\ Names(report.key, i)
<1>1. CASE Golomt(i)
  <2>1. PICK c \in Credits : /\ i \in credit[c].names
                             /\ report = [key |-> LineKey(c, i), amount |-> credit[c].amount]
    BY <1>1 DEF Reports
  <2>2. report.key = LineKey(c, i) /\ report.amount = credit[c].amount
    BY <2>1
  <2>3. LineKey(c, i) \in {c, i} /\ credit[c].amount \in Nat
    BY DEF LineKey, TypeOK, CreditRows
  <2> QED
    BY <1>1, <2>1, <2>2, <2>3 DEF Keys, Borne, Names
<1>2. CASE ~Golomt(i)
  <2>0. collected[i] > 0
    BY <1>2 DEF Reports
  <2>1. PICK id \in PaymentIds(i), said \in SaidPaid(i) : report = [key |-> id, amount |-> said]
    BY <1>2 DEF Reports
  <2>2. report.key = id /\ report.amount = said
    BY <2>1
  <2>3. collected[i] \in Nat /\ invoice[i].amount \in Nat
    BY DEF TypeOK, InvoiceRows
  <2>4. said \in Nat /\ (said <= collected[i] \/ ("silent" \in mix /\ said = invoice[i].amount))
    BY <2>3 DEF SaidPaid
  <2>5. id \in Keys /\ Names(id, i)
    BY DEF PaymentIds, Keys, Names
  <2> QED
    BY <1>2, <2>0, <2>2, <2>4, <2>5 DEF Borne
<1> QED
  BY <1>1, <1>2

\* Requests arrive well-typed.
LEMMA TypeArrival ==
  ASSUME TypeOK, LinksOK, NEW w \in Workers, Arrival(w)
  PROVE  TypeOK'
<1>0. \A request \in Jobs : Start(w, request) => TypeOK'
  BY JobType
<1>1. ASSUME NEW i \in Invoices, Ask(w, i) \/ SwitchGateway(w, i) PROVE TypeOK'
  <2>1. \A report \in Reports(i) : report.key \in Keys /\ report.amount \in Nat
    BY ReportType
  <2>2. invoice[i].on \in Installments \cup {Balance, Public} /\ invoice[i].status \in
          {"absent", "pending", "paid", "cancelled"}
    BY DEF InvoiceRows, TypeOK
  <2>3. ASSUME NEW report \in Reports(i)
        PROVE  [Idle EXCEPT !.op = "settle", !.step = "lookup", !.inv = i,
                             !.key = report.key, !.amt = report.amount,
                             !.on = invoice[i].on, !.saw = invoice[i].status] \in Jobs
    BY <2>1, <2>2 DEF Idle, Jobs, AllOps, SettleOps, Steps
  <2>4. [Idle EXCEPT !.op = "switch", !.inv = i, !.on = Public, !.saw = "pending",
                     !.step = "cancel"] \in Jobs
    BY DEF Idle, Jobs, AllOps, SettleOps, Steps
  <2>5. ASSUME NEW report \in Reports(i)
        PROVE  [Idle EXCEPT !.op = "switch", !.inv = i, !.on = Public, !.saw = "pending",
                            !.step = "lookup", !.key = report.key, !.amt = report.amount]
                 \in Jobs
    BY <2>1 DEF Idle, Jobs, AllOps, SettleOps, Steps
  <2>6. CASE Ask(w, i)
    BY <1>0, <2>3, <2>6 DEF Ask
  <2>7. CASE SwitchGateway(w, i)
    <3>1. CASE Start(w, [Idle EXCEPT !.op = "switch", !.inv = i, !.on = Public,
                                      !.saw = "pending", !.step = "cancel"])
      BY <1>0, <2>4, <3>1
    <3>2. ASSUME NEW report \in Reports(i),
                 Start(w, [Idle EXCEPT !.op = "switch", !.inv = i, !.on = Public,
                             !.saw = "pending", !.step = "lookup", !.key = report.key,
                             !.amt = report.amount])
          PROVE  TypeOK'
      BY <1>0, <2>5, <3>2
    <3> QED
      BY <2>7, <3>1, <3>2 DEF SwitchGateway
  <2> QED
    BY <1>1, <2>6, <2>7
<1>2. ASSUME NEW n \in Installments, NEW amount \in Amounts, BeginAdd(w, n, amount)
      PROVE  TypeOK'
  <2>0. amount \in Nat
    BY DEF Amounts
  <2>1. [Idle EXCEPT !.op = "add", !.step = "flush", !.on = n, !.amt = amount] \in Jobs
    BY <2>0 DEF Idle, Jobs, AllOps, EditOps, Steps
  <2> QED
    BY <1>0, <1>2, <2>1 DEF BeginAdd
<1>3. ASSUME NEW op \in {"update", "waive", "delete"}, NEW n \in Installments,
             NEW amount \in Nat, BeginEdit(w, op, n, amount)
      PROVE  TypeOK'
  <2>1. installment[n].amount \in Nat
    BY DEF InstallmentRows, TypeOK
  <2>2. [Idle EXCEPT !.op = op, !.step = "flush", !.on = n, !.amt = amount,
                     !.was = installment[n].amount] \in Jobs
    BY <2>1 DEF Idle, Jobs, AllOps, EditOps, Steps
  <2> QED
    BY <1>0, <1>3, <2>2 DEF BeginEdit
<1>4. ASSUME NEW k \in Keys, NEW total \in Amounts, BeginRefund(w, k, total)
      PROVE  TypeOK'
  <2>0. total \in Nat
    BY DEF Amounts
  <2>1. /\ payment[k].inv \in Invoices
        /\ payment[k].refunded \in Nat
        /\ payment[k].status \in {"absent", "paid", "partially_refunded", "refunded"}
    BY <1>4 DEF PaymentRows, TypeOK, LinksOK, Recorded, BeginRefund
  <2>2. invoice[payment[k].inv].on \in Installments \cup {Balance, Public}
    BY <2>1 DEF InvoiceRows, TypeOK
  <2>3. [Idle EXCEPT !.op = "refund", !.step = "flush", !.key = k, !.amt = total,
                     !.on = invoice[payment[k].inv].on,
                     !.was = payment[k].refunded, !.saw = payment[k].status] \in Jobs
    BY <2>0, <2>1, <2>2 DEF Idle, Jobs, AllOps, Steps
  <2> QED
    BY <1>0, <1>4, <2>3 DEF BeginRefund
<1>5. ASSUME BeginView(w) \/ BeginPlan(w) PROVE TypeOK'
  <2>1. [Idle EXCEPT !.op = "view", !.step = "sum"] \in Jobs
    BY DEF Idle, Jobs, AllOps, Steps
  <2>0. 1 \in Installments
    BY BoundsAssumption DEF Installments
  <2>2. [Idle EXCEPT !.op = "plan", !.step = "flush", !.on = 1] \in Jobs
    BY <2>0 DEF Idle, Jobs, AllOps, EditOps, Steps
  <2> QED
    BY <1>0, <1>5, <2>1, <2>2 DEF BeginView, BeginPlan
<1>6. ASSUME NEW n \in Installments, BeginInstallmentInvoice(w, n) PROVE TypeOK'
  <2>1. installment[n].amount \in Nat
    BY DEF InstallmentRows, TypeOK
  <2>2. [Idle EXCEPT !.op = "create", !.step = "gateway", !.on = n,
                     !.amt = installment[n].amount] \in Jobs
    BY <2>1 DEF Idle, Jobs, AllOps, CreateOps, Steps
  <2> QED
    BY <1>0, <1>6, <2>2 DEF BeginInstallmentInvoice
<1>7. ASSUME NEW amount \in Amounts \cup {0},
             BeginBalanceInvoice(w, amount) \/ BeginPublicInvoice(w, amount)
      PROVE  TypeOK'
  <2>0. amount \in Nat
    BY DEF Amounts
  <2>1. [Idle EXCEPT !.op = "create", !.step = "sum", !.amt = amount] \in Jobs
    BY <2>0 DEF Idle, Jobs, AllOps, CreateOps, Steps
  <2>2. [Idle EXCEPT !.op = "checkout", !.step = "gateway", !.on = Public,
                     !.amt = amount] \in Jobs
    BY <2>0 DEF Idle, Jobs, AllOps, CreateOps, Steps
  <2> QED
    BY <1>0, <1>7, <2>1, <2>2 DEF BeginBalanceInvoice, BeginPublicInvoice
<1> QED
  BY <1>1, <1>2, <1>3, <1>4, <1>5, <1>6, <1>7 DEF Arrival, Amounts

\* The request that holds its first rows.
LEMMA LockedJob ==
  ASSUME NEW w \in Workers, job[w] \in Jobs,
         Settling(w) => Marks(w) \in Installments \cup {Balance, Public}
  PROVE  /\ Locked(w) \in Jobs
         /\ Locked(w).op = job[w].op /\ Locked(w).inv = job[w].inv
         /\ Locked(w).key = job[w].key /\ Locked(w).amt = job[w].amt
         /\ Locked(w).was = job[w].was /\ Locked(w).saw = job[w].saw
         /\ Locked(w).on = IF Settling(w) THEN Marks(w) ELSE job[w].on
         /\ Locked(w).step = IF RowsRemain(w) THEN "rest"
                             ELSE IF NeedsLedger(w) THEN "sum" ELSE "commit"
<1> DEFINE step == IF RowsRemain(w) THEN "rest"
                   ELSE IF NeedsLedger(w) THEN "sum" ELSE "commit"
           on == IF Settling(w) THEN Marks(w) ELSE job[w].on
<1>1. step \in Steps /\ on \in Installments \cup {Balance, Public}
  BY DEF Steps, Jobs
<1>2. Locked(w) = [job[w] EXCEPT !.step = step, !.on = on]
  BY DEF Locked
<1> HIDE DEF step, on
<1>3. /\ Locked(w) \in Jobs /\ Locked(w).step = step /\ Locked(w).on = on
      /\ Locked(w).op = job[w].op /\ Locked(w).inv = job[w].inv
      /\ Locked(w).key = job[w].key /\ Locked(w).amt = job[w].amt
      /\ Locked(w).was = job[w].was /\ Locked(w).saw = job[w].saw
  BY <1>1, <1>2 DEF Jobs
<1> QED
  BY <1>3 DEF step, on

\* A settlement marks its invoice's installment, or none.
LEMMA LockedOn ==
  ASSUME IInv, NEW w \in Workers, Settling(w)
  PROVE  Marks(w) \in Installments \cup {Balance, Public}
<1>1. job[w].inv \in Invoices /\ invoice \in [Invoices -> InvoiceRows]
  BY DEF IInv, TypeOK, LinksOK, RequestOK, Settling
<1> QED
  BY <1>1 DEF Marks, InvoiceRows

\* A request's own steps keep the types.
LEMMA TypeProgress ==
  ASSUME TypeOK, LinksOK, NEW w \in Workers, Progress(w) \/ Abort(w)
  PROVE  TypeOK'
<1>0. /\ \A step \in Steps : Go(w, step) => job' \in [Workers -> Jobs]
      /\ Finish(w) => job' \in [Workers -> Jobs]
  BY JobType
<1>1. ASSUME job' \in [Workers -> Jobs], UNCHANGED <<tables, gateway>>
      PROVE  TypeOK'
  BY <1>1 DEF TypeOK, tables, gateway
<1>2. ASSUME job' \in [Workers -> Jobs], UNCHANGED gateway, UNCHANGED <<payment, installment>>,
             invoice' \in [Invoices -> InvoiceRows]
      PROVE  TypeOK'
  BY <1>2 DEF TypeOK, gateway
<1>3. CASE Lookup(w)
  BY <1>0, <1>1, <1>3 DEF Lookup, Steps
<1>4. CASE MarkInvoicePaid(w) \/ CancelInvoice(w)
  <2>1. \A i \in Invoices \cup {None}, status \in {"paid", "cancelled"} :
          [invoice EXCEPT ![i].status = status] \in [Invoices -> InvoiceRows]
    BY DEF TypeOK, InvoiceRows
  <2>2. job[w].inv \in Invoices \cup {None}
    BY DEF TypeOK, Jobs
  <2>3. invoice \in [Invoices -> InvoiceRows]
    BY DEF TypeOK
  <2>4. invoice' \in [Invoices -> InvoiceRows]
    BY <1>4, <2>1, <2>2, <2>3 DEF MarkInvoicePaid, CancelInvoice
  <2> QED
    BY <1>0, <1>2, <1>4, <2>4 DEF MarkInvoicePaid, CancelInvoice
<1>5. CASE Flush(w)
  <2>1. CASE Refused(w)
    BY <1>0, <1>1, <1>5, <2>1 DEF Flush
  <2>2. CASE ~Refused(w)
    <3>1. job[w] \in Jobs /\ job \in [Workers -> Jobs]
      BY DEF TypeOK
    <3>2. Settling(w) => Marks(w) \in Installments \cup {Balance, Public}
      BY <3>1 DEF Marks, TypeOK, LinksOK, RequestOK, Settling, InvoiceRows, Jobs
    <3>3. Locked(w) \in Jobs
      BY <3>1, <3>2, LockedJob
    <3>4. job' \in [Workers -> Jobs]
      BY <1>5, <2>2, <3>1, <3>3 DEF Flush
    <3> QED
      BY <1>1, <1>5, <3>4 DEF Flush
  <2> QED
    BY <2>1, <2>2
<1>6. CASE SumPayments(w) \/ SumPlan(w) \/ ReadLedger(w)
  BY <1>0, <1>1, <1>6 DEF SumPayments, SumPlan, ReadLedger, Steps
<1>7. CASE Commit(w)
  <2>1. CASE LedgerClash(w)
    <3>1. UNCHANGED <<tables, gateway>> /\ Finish(w)
      BY <1>7, <2>1 DEF Commit
    <3> QED
      BY <1>0, <1>1, <3>1
  <2>2. CASE ~LedgerClash(w)
    <3>1. /\ payment' = PaymentsSeen(w)
          /\ invoice' = InvoicesSeen(w)
          /\ installment' = InstallmentsSeen(w)
          /\ UNCHANGED gateway
          /\ Go(w, "cancel") \/ Finish(w)
      BY <1>7, <2>2 DEF Commit
    <3>2. job' \in [Workers -> Jobs]
      BY <1>0, <3>1 DEF Steps
    <3> QED
      BY <3>1, <3>2, SeenType DEF TypeOK, gateway
  <2> QED
    BY <2>1, <2>2
<1>8. CASE Quote(w)
  <2>1. \A value \in Figures : value \in Nat
    BY BoundsAssumption DEF Figures
  <2>2. ASSUME NEW value \in Figures,
               job' = [job EXCEPT ![w] = [@ EXCEPT !.step = "gateway", !.amt = value]]
        PROVE  job' \in [Workers -> Jobs]
    <3>1. job[w] \in Jobs /\ job \in [Workers -> Jobs]
      BY DEF TypeOK
    <3>2. [job[w] EXCEPT !.step = "gateway", !.amt = value] \in Jobs
      BY <2>1, <3>1 DEF Jobs, Steps
    <3> QED
      BY <2>2, <3>1, <3>2
  <2> QED
    BY <1>0, <1>1, <1>8, <2>2 DEF Quote
<1>9. ASSUME NEW i \in Invoices, RaiseInvoice(w, i) PROVE TypeOK'
  <2>1. [status |-> "pending", on |-> job[w].on, amount |-> job[w].amt] \in InvoiceRows
    BY DEF TypeOK, Jobs, InvoiceRows
  <2>2. [invoice EXCEPT ![i] = [status |-> "pending", on |-> job[w].on,
                                amount |-> job[w].amt]] \in [Invoices -> InvoiceRows]
    BY <2>1 DEF TypeOK
  <2>3. invoice \in [Invoices -> InvoiceRows]
    BY DEF TypeOK
  <2> QED
    BY <1>0, <1>2, <1>9, <2>2, <2>3 DEF RaiseInvoice, tables
<1>10. CASE Abort(w)
  BY <1>0, <1>1, <1>10 DEF Abort
<1>11. CASE LockInvoice(w) \/ LockRest(w) \/ BreakCircle(w)
  BY <1>0, <1>1, <1>11 DEF LockInvoice, LockRest, BreakCircle, Steps
<1> QED
  BY <1>3, <1>4, <1>5, <1>6, <1>7, <1>8, <1>9, <1>10, <1>11 DEF Progress

\* Nor do the buyer and the bank disturb them.
LEMMA TypeWorld ==
  ASSUME TypeOK, World
  PROVE  TypeOK'
<1>0. \A amount \in Amounts : amount \in Nat
  BY DEF Amounts
<1>1. ASSUME NEW i \in Invoices, NEW amount \in Amounts, BuyerPays(i, amount) PROVE TypeOK'
  <2>1. \A c \in Credits :
          [credit EXCEPT ![c] = [names |-> {i}, amount |-> amount, own |-> TRUE]]
            \in [Credits -> CreditRows]
    BY <1>0 DEF TypeOK, CreditRows
  <2>2. credit' \in [Credits -> CreditRows]
    BY <1>1, <2>1 DEF BuyerPays, TypeOK
  <2> QED
    BY <1>0, <1>1, <2>2 DEF BuyerPays, TypeOK, tables
<1>2. ASSUME NEW c \in Credits, NEW named \in SUBSET Invoices, NEW amount \in Amounts,
             BankPosts(c, named, amount)
      PROVE  TypeOK'
  <2>1. \A own \in BOOLEAN :
          [credit EXCEPT ![c] = [names |-> named, amount |-> amount, own |-> own]]
            \in [Credits -> CreditRows]
    BY <1>0 DEF TypeOK, CreditRows
  <2>2. credit' \in [Credits -> CreditRows]
    BY <1>2, <2>1 DEF BankPosts
  <2> QED
    BY <1>2, <2>2 DEF BankPosts, TypeOK, tables
<1> QED
  BY <1>1, <1>2 DEF World

-----------------------------------------------------------------------------
(* Preservation, by the kind of step.                                      *)

\* What the gateway bears out it goes on bearing out: money only comes in, a line or
\* a payment once listed stays, and an invoice keeps its amount.
BorneNow(k, i, amount) ==
  IF Golomt(i)
  THEN \E c \in Credits : /\ i \in credit'[c].names /\ amount = credit'[c].amount
                          /\ k = IF credit'[c].own THEN c ELSE i
  ELSE /\ k = i \/ \E c \in Credits : k = c /\ i \in credit'[c].names
       /\ collected'[i] > 0
       /\ amount <= collected'[i] \/ ("silent" \in mix /\ amount = invoice'[i].amount)

LEMMA BorneStands ==
  ASSUME TypeOK, TypeOK', NEW i \in Invoices, NEW k, NEW amount \in Nat,
         collected'[i] >= collected[i], invoice'[i].amount = invoice[i].amount,
         \A c \in Credits : credit[c].names # {} => credit'[c] = credit[c],
         Borne(k, i, amount)
  PROVE  BorneNow(k, i, amount)
<1>1. CASE Golomt(i)
  BY <1>1 DEF Borne, BorneNow, LineKey
<1>2. CASE ~Golomt(i)
  <2>1. collected[i] \in Nat /\ collected'[i] \in Nat
    BY DEF TypeOK
  <2>2. \A c \in Credits : i \in credit[c].names => i \in credit'[c].names
    OBVIOUS
  <2>3. k = i \/ \E c \in Credits : k = c /\ i \in credit[c].names
    BY <1>2 DEF Borne, PaymentIds
  <2>4. collected[i] > 0 /\ (amount <= collected[i] \/ ("silent" \in mix /\ amount = invoice[i].amount))
    BY <1>2 DEF Borne
  <2> QED
    BY <1>2, <2>1, <2>2, <2>3, <2>4 DEF BorneNow
<1> QED
  BY <1>1, <1>2

\* A payment that is borne out names its invoice.
LEMMA BorneNames ==
  ASSUME NEW k, NEW i, NEW amount, Borne(k, i, amount)
  PROVE  Names(k, i)
BY DEF Borne, Names, LineKey, PaymentIds

\* A step that touches no table: request w becomes j.
LEMMA QuietStep ==
  ASSUME IInv, TypeOK', NEW w \in Workers, NEW j, RequestOK(j),
         UNCHANGED <<mix, invoice, payment, collected, credit>>,
         job' = [job EXCEPT ![w] = j],
         Books(j) => /\ ~Recorded(j.key)
                     /\ \A v \in Workers \ {w} : Books(job[v]) => job[v].key # j.key
  PROVE  IInv'
<1>1. \A v \in Workers : job'[v] = IF v = w THEN j ELSE job[v]
  BY DEF IInv, TypeOK
<1>2. \A v \in Workers : RequestOK(job'[v])
  BY <1>1 DEF IInv, LinksOK
<1>3. LinksOK'
  BY <1>2 DEF IInv, LinksOK, RequestOK, Backed, Recorded, Borne, Golomt, LineKey, PaymentIds
<1>4. LocksOK'
  BY <1>1 DEF IInv, LocksOK, Books, Recorded
<1>5. RecordedIsCollected'
  BY DEF IInv, RecordedIsCollected, Recorded, Borne, Golomt, LineKey, PaymentIds
<1>6. PaidInvoiceCovered'
  BY DEF IInv, PaidInvoiceCovered, Recorded, Names
<1> QED
  BY <1>3, <1>4, <1>5, <1>6 DEF IInv

\* A step that ends request w, or sends it on to retire its invoice, and writes
\* tables: recorded payments stand, a new one is the request's own, invoices keep
\* their amounts, and one that turns paid is covered.
LEMMA WriteStep ==
  ASSUME IInv, TypeOK', NEW w \in Workers, NEW j, UNCHANGED <<mix, collected, credit>>,
         job' = [job EXCEPT ![w] = j],
         j = Idle \/ (job[w].op \in SettleOps /\ j = [job[w] EXCEPT !.step = "cancel"]),
         \A i \in Invoices : invoice[i].status # "absent" =>
           invoice'[i].status # "absent" /\ invoice'[i].amount = invoice[i].amount,
         \A k \in Keys : Recorded(k) =>
           /\ payment'[k].status # "absent"
           /\ payment'[k].inv = payment[k].inv /\ payment'[k].amount = payment[k].amount,
         \A k \in Keys : ~Recorded(k) /\ payment'[k].status # "absent" =>
           /\ Books(job[w]) /\ k = job[w].key
           /\ payment'[k].inv = job[w].inv /\ payment'[k].amount = job[w].amt,
         \A i \in Invoices : invoice'[i].status = "paid" =>
           \/ invoice[i].status = "paid"
           \/ /\ invoice[i].status # "absent"
              /\ \E k \in Keys : /\ payment'[k].status # "absent" /\ Names(k, i)
                                 /\ payment'[k].amount >= invoice[i].amount
  PROVE  IInv'
<1>1. \A v \in Workers : job'[v] = IF v = w THEN j ELSE job[v]
  BY DEF IInv, TypeOK
<1>2. \A k \in Keys : payment'[k].status # "absent" =>
        payment'[k].inv \in Invoices /\ invoice'[payment'[k].inv].status # "absent"
  BY DEF IInv, LinksOK, RequestOK, Recorded, Books
<1>a. ASSUME NEW i \in Invoices, invoice[i].status # "absent",
             NEW k, NEW amount \in Nat, Borne(k, i, amount)
      PROVE  BorneNow(k, i, amount)
  <2>1. /\ collected'[i] >= collected[i] /\ invoice'[i].amount = invoice[i].amount
        /\ \A c \in Credits : credit'[c] = credit[c]
    BY <1>a DEF IInv, TypeOK
  <2> QED
    BY <1>a, <2>1, BorneStands DEF IInv
<1>b. \A v \in Workers : job[v].amt \in Nat
  BY DEF IInv, TypeOK, Jobs
<1>3. \A v \in Workers \ {w} : RequestOK(job[v])'
  <2> SUFFICES ASSUME NEW v \in Workers \ {w} PROVE RequestOK(job[v])'
    OBVIOUS
  <2>1. job'[v] = job[v] /\ RequestOK(job[v]) /\ job[v].amt \in Nat
    BY <1>1, <1>b DEF IInv, LinksOK
  <2>2. CASE job[v].op \in SettleOps /\ job[v].step # "cancel"
    <3>1. job[v].inv \in Invoices /\ invoice[job[v].inv].status # "absent" /\ Backed(job[v])
      BY <2>1, <2>2 DEF RequestOK
    <3>2. BorneNow(job[v].key, job[v].inv, job[v].amt)
      BY <1>a, <2>1, <3>1 DEF Backed
    <3>3. Backed(job[v])'
      BY <2>1, <3>2 DEF Backed, Borne, BorneNow, Golomt, LineKey, PaymentIds
    <3> QED
      BY <2>1, <3>1, <3>3 DEF RequestOK, Recorded
  <2>3. CASE ~(job[v].op \in SettleOps /\ job[v].step # "cancel")
    BY <2>1, <2>3 DEF RequestOK, Recorded
  <2> QED
    BY <2>2, <2>3
<1>4. RequestOK(job[w])'
  <2>1. CASE j = Idle
    BY <1>1, <2>1 DEF RequestOK, Idle, SettleOps
  <2>2. CASE job[w].op \in SettleOps /\ j = [job[w] EXCEPT !.step = "cancel"]
    <3>1. j.op = job[w].op /\ j.inv = job[w].inv /\ j.step = "cancel"
      BY <2>2 DEF IInv, TypeOK, Jobs
    <3>2. j.inv \in Invoices /\ invoice'[j.inv].status # "absent"
      BY <2>2, <3>1 DEF RequestOK, IInv, LinksOK
    <3>3. job'[w] = j /\ j.op # "refund"
      BY <1>1, <2>2, <3>1 DEF SettleOps
    <3> QED
      BY <3>1, <3>2, <3>3 DEF RequestOK
  <2> QED
    BY <2>1, <2>2
<1>5. LinksOK'
  BY <1>2, <1>3, <1>4 DEF LinksOK, Recorded
<1>6. LocksOK'
  <2>1. ~Books(j)
    BY DEF Books, Idle, SettleOps, IInv, TypeOK, Jobs
  <2> QED
    BY <1>1, <2>1 DEF IInv, LocksOK, LinksOK, RequestOK, Books, Recorded
<1>7. RecordedIsCollected'
  <2> SUFFICES ASSUME NEW k \in Keys, payment'[k].status # "absent"
               PROVE  BorneNow(k, payment'[k].inv, payment'[k].amount)
    BY DEF RecordedIsCollected, Recorded, Borne, BorneNow, Golomt, LineKey, PaymentIds
  <2>0. \A n \in Keys : payment[n].amount \in Nat
    BY DEF IInv, TypeOK, PaymentRows
  <2>1. CASE Recorded(k)
    <3>1. payment[k].inv \in Invoices /\ invoice[payment[k].inv].status # "absent"
      BY <2>1 DEF IInv, LinksOK
    <3>2. Borne(k, payment[k].inv, payment[k].amount)
      BY <2>1 DEF IInv, RecordedIsCollected
    <3> QED
      BY <1>a, <2>0, <2>1, <3>1, <3>2
  <2>2. CASE ~Recorded(k)
    <3>1. RequestOK(job[w]) /\ Books(job[w]) /\ k = job[w].key
      BY <2>2 DEF IInv, LinksOK
    <3>2. /\ Backed(job[w]) /\ job[w].inv \in Invoices
          /\ invoice[job[w].inv].status # "absent"
      BY <3>1 DEF RequestOK, Books
    <3> QED
      BY <1>a, <1>b, <2>2, <3>1, <3>2 DEF Backed
  <2> QED
    BY <2>1, <2>2
<1>8. PaidInvoiceCovered'
  BY DEF IInv, PaidInvoiceCovered, Recorded, Names
<1> QED
  BY <1>5, <1>6, <1>7, <1>8 DEF IInv

-----------------------------------------------------------------------------
(* Preservation, action by action.                                         *)

\* The tables start out empty.
LEMMA InvInit == Init => IInv
<1> SUFFICES ASSUME Init PROVE IInv
  OBVIOUS
<1>1. TypeOK
  BY TypeInit
<1>2. \A w \in Workers : job[w] = Idle
  BY DEF Init
<1>3. RequestOK(Idle) /\ ~Books(Idle)
  BY DEF RequestOK, Books, Idle, SettleOps
<1> QED
  BY <1>1, <1>2, <1>3 DEF Init, IInv, LinksOK, LocksOK, RecordedIsCollected,
                          PaidInvoiceCovered, Recorded

\* A request may arrive if it claims nothing the tables do not bear out.
LEMMA StartStep ==
  ASSUME IInv, TypeOK', NEW w \in Workers, NEW j, Start(w, j), RequestOK(j), ~Books(j)
  PROVE  IInv'
<1>1. UNCHANGED <<mix, invoice, payment, collected, credit>> /\ job' = [job EXCEPT ![w] = j]
  BY DEF Start, tables, gateway
<1> QED
  BY <1>1, QuietStep

\* A request may end at any time without a trace.
LEMMA FinishStep ==
  ASSUME IInv, TypeOK', NEW w \in Workers, Finish(w), UNCHANGED <<tables, gateway>>
  PROVE  IInv'
<1>1. RequestOK(Idle) /\ ~Books(Idle)
  BY DEF RequestOK, Books, Idle, SettleOps
<1>2. UNCHANGED <<mix, invoice, payment, collected, credit>> /\ job' = [job EXCEPT ![w] = Idle]
  BY DEF Finish, tables, gateway
<1> QED
  BY <1>1, <1>2, QuietStep

\* A request may move on to a step that claims nothing new.
LEMMA GoStep ==
  ASSUME IInv, TypeOK', NEW w \in Workers, NEW step \in Steps, Go(w, step),
         UNCHANGED <<tables, gateway>>,
         step \in {"lookup", "mark"} => Settling(w),
         step \in {"quote", "gateway"} => job[w].op \in CreateOps,
         step = "mark" => /\ Recorded(job[w].key)
                          /\ payment[job[w].key].amount >= invoice[job[w].inv].amount,
         ~At(w, "cancel"),
         step \in {"rest", "sum", "plan", "row", "commit"} => Flushed(w)
  PROVE  IInv'
<1> DEFINE j == [job[w] EXCEPT !.step = step]
<1>1. job[w] \in Jobs /\ RequestOK(job[w])
  BY DEF IInv, TypeOK, LinksOK
<1>2. /\ j.step = step /\ j.op = job[w].op /\ j.inv = job[w].inv /\ j.key = job[w].key
      /\ j.amt = job[w].amt /\ j.saw = job[w].saw
  BY <1>1 DEF Jobs
<1>3. UNCHANGED <<mix, invoice, payment, collected, credit>> /\ job' = [job EXCEPT ![w] = j]
  BY DEF Go, tables, gateway
<1> HIDE DEF j
<1>4. RequestOK(j)
  BY <1>1, <1>2 DEF RequestOK, Backed, Settling, At
<1>5. Books(j) => Books(job[w])
  BY <1>2 DEF Books, Flushed
<1>6. Books(j) => /\ ~Recorded(j.key)
                  /\ \A v \in Workers \ {w} : Books(job[v]) => job[v].key # j.key
  BY <1>2, <1>5 DEF IInv, LocksOK
<1> QED
  BY <1>3, <1>4, <1>6, QuietStep

\* Every request that arrives carries what it just read.
LEMMA InvArrival ==
  ASSUME IInv, NEW w \in Workers, Arrival(w)
  PROVE  IInv'
<1>0. TypeOK'
  BY TypeArrival DEF IInv
<1>1. ASSUME NEW i \in Invoices, Ask(w, i) \/ SwitchGateway(w, i) PROVE IInv'
  <2>1. ASSUME NEW report \in Reports(i)
        PROVE  report.key \in Keys /\ Borne(report.key, i, report.amount)
    BY ReportType DEF IInv
  <2>2. CASE Ask(w, i)
    <3>1. PICK report \in Reports(i) :
            Start(w, [Idle EXCEPT !.op = "settle", !.step = "lookup", !.inv = i,
                                  !.key = report.key, !.amt = report.amount,
                                  !.on = invoice[i].on, !.saw = invoice[i].status])
      BY <2>2 DEF Ask
    <3> DEFINE j == [Idle EXCEPT !.op = "settle", !.step = "lookup", !.inv = i,
                                  !.key = report.key, !.amt = report.amount,
                                  !.on = invoice[i].on, !.saw = invoice[i].status]
    <3>2. /\ j.op = "settle" /\ j.step = "lookup" /\ j.inv = i /\ j.key = report.key
          /\ j.amt = report.amount
      BY DEF Idle
    <3>3. Start(w, j) /\ invoice[i].status # "absent"
      BY <3>1, <2>2 DEF Ask
    <3> HIDE DEF j
    <3>4. RequestOK(j) /\ ~Books(j)
      BY <2>1, <3>2, <3>3 DEF RequestOK, Books, Backed, SettleOps
    <3> QED
      BY <1>0, <3>3, <3>4, StartStep
  <2>3. CASE SwitchGateway(w, i)
    <3> DEFINE request == [Idle EXCEPT !.op = "switch", !.inv = i, !.on = Public,
                                       !.saw = "pending"]
    <3>1. CASE Start(w, [request EXCEPT !.step = "cancel"])
      <4> DEFINE j == [request EXCEPT !.step = "cancel"]
      <4>1. j.op = "switch" /\ j.step = "cancel" /\ j.inv = i
        BY DEF Idle
      <4>2. Start(w, j) /\ invoice[i].status # "absent"
        BY <3>1, <2>3 DEF SwitchGateway
      <4> HIDE DEF j
      <4>3. RequestOK(j) /\ ~Books(j)
        BY <4>1, <4>2 DEF RequestOK, Books, SettleOps
      <4> QED
        BY <1>0, <4>2, <4>3, StartStep
    <3>2. ASSUME NEW report \in Reports(i),
                 Start(w, [request EXCEPT !.step = "lookup", !.key = report.key,
                                          !.amt = report.amount])
          PROVE  IInv'
      <4> DEFINE j == [request EXCEPT !.step = "lookup", !.key = report.key,
                                      !.amt = report.amount]
      <4>1. /\ j.op = "switch" /\ j.step = "lookup" /\ j.inv = i /\ j.key = report.key
            /\ j.amt = report.amount
        BY DEF Idle
      <4>2. Start(w, j) /\ invoice[i].status # "absent"
        BY <3>2, <2>3 DEF SwitchGateway
      <4> HIDE DEF j
      <4>3. RequestOK(j) /\ ~Books(j)
        BY <2>1, <4>1, <4>2 DEF RequestOK, Books, Backed, SettleOps
      <4> QED
        BY <1>0, <4>2, <4>3, StartStep
    <3> QED
      BY <2>3, <3>1, <3>2 DEF SwitchGateway
  <2> QED
    BY <1>1, <2>2, <2>3
<1>2. ASSUME NEW k \in Keys, NEW total \in Amounts, BeginRefund(w, k, total)
      PROVE  IInv'
  <2> DEFINE j == [Idle EXCEPT !.op = "refund", !.step = "flush", !.key = k, !.amt = total,
                           !.on = invoice[payment[k].inv].on,
                           !.was = payment[k].refunded, !.saw = payment[k].status]
  <2>1. j.op = "refund" /\ j.step = "flush" /\ j.key = k /\ j.saw = payment[k].status
    BY DEF Idle
  <2>2. Start(w, j) /\ Recorded(k)
    BY <1>2 DEF BeginRefund, Recorded
  <2> HIDE DEF j
  <2>3. RequestOK(j) /\ ~Books(j)
    BY <2>1, <2>2 DEF RequestOK, Books, SettleOps, Recorded
  <2> QED
    BY <1>0, <2>2, <2>3, StartStep
<1>3. ASSUME NEW j, Start(w, j), j.op \notin SettleOps \cup {"refund"},
             j.step \in {"flush", "sum"} \/ (j.step = "gateway" /\ j.op \in CreateOps)
      PROVE  IInv'
  <2>1. RequestOK(j) /\ ~Books(j)
    BY <1>3 DEF RequestOK, Books
  <2> QED
    BY <1>0, <1>3, <2>1, StartStep
<1>4. ASSUME NEW n \in Installments, NEW amount \in Amounts, BeginAdd(w, n, amount)
      PROVE  IInv'
  BY <1>3, <1>4 DEF BeginAdd, Idle, SettleOps
<1>5. ASSUME NEW op \in {"update", "waive", "delete"}, NEW n \in Installments,
             NEW amount, BeginEdit(w, op, n, amount)
      PROVE  IInv'
  BY <1>3, <1>5 DEF BeginEdit, Idle, SettleOps
<1>6. ASSUME BeginView(w) \/ BeginPlan(w) PROVE IInv'
  BY <1>3, <1>6 DEF BeginView, BeginPlan, Idle, SettleOps
<1>7. ASSUME NEW n \in Installments, BeginInstallmentInvoice(w, n) PROVE IInv'
  BY <1>3, <1>7 DEF BeginInstallmentInvoice, Idle, SettleOps, CreateOps
<1>8. ASSUME NEW amount, BeginBalanceInvoice(w, amount) \/ BeginPublicInvoice(w, amount)
      PROVE  IInv'
  BY <1>3, <1>8 DEF BeginBalanceInvoice, BeginPublicInvoice, Idle, SettleOps, CreateOps
<1> QED
  BY <1>1, <1>2, <1>4, <1>5, <1>6, <1>7, <1>8 DEF Arrival

\* A flush that is granted its rows makes w the only one about to book its key.
LEMMA InvFlush ==
  ASSUME IInv, TypeOK', NEW w \in Workers, Flush(w)
  PROVE  IInv'
<1>1. CASE Refused(w)
  BY <1>1, FinishStep DEF Flush
<1>2. CASE ~Refused(w)
  <2> DEFINE j == Locked(w)
  <2>1. job[w] \in Jobs /\ RequestOK(job[w])
    BY DEF IInv, TypeOK, LinksOK
  <2>2. /\ j.op = job[w].op /\ j.inv = job[w].inv /\ j.key = job[w].key
        /\ j.amt = job[w].amt /\ j.saw = job[w].saw /\ j.step \in {"rest", "sum", "commit"}
    <3>1. Settling(w) => Marks(w) \in Installments \cup {Balance, Public}
      BY <2>1 DEF Marks, IInv, TypeOK, RequestOK, Settling, InvoiceRows, Jobs
    <3> QED
      BY <2>1, <3>1, LockedJob
  <2>3. UNCHANGED <<mix, invoice, payment, collected, credit>> /\ job' = [job EXCEPT ![w] = j]
    BY <1>2 DEF Flush, tables, gateway
  <2>4. job[w].step = "flush" /\ WaitsFor(w) = {}
    BY DEF Flush, At
  <2> HIDE DEF j
  <2>5. RequestOK(j)
    BY <2>1, <2>2, <2>4 DEF RequestOK, Backed
  <2>6. Books(j) => ~Recorded(j.key)
    BY <1>2, <2>2 DEF Books, Refused, Settling, Recorded
  <2>7. ASSUME Books(j), NEW v \in Workers \ {w}, Books(job[v])
        PROVE  job[v].key # j.key
    BY <2>2, <2>4, <2>7 DEF Books, WaitsFor, HoldsPayment, At, Flushed, WritesPayment, Settling
  <2> QED
    BY <2>3, <2>5, <2>6, <2>7, QuietStep
<1> QED
  BY <1>1, <1>2

\* What a commit writes: recorded payments keep their invoice and amount, a new
\* one is the settlement's own, and an invoice turns paid with its full payment.
LEMMA CommitWrites ==
  ASSUME IInv, NEW w \in Workers, At(w, "commit")
  PROVE  /\ \A i \in Invoices : invoice[i].status # "absent" =>
              /\ InvoicesSeen(w)[i].status # "absent"
              /\ InvoicesSeen(w)[i].amount = invoice[i].amount
         /\ \A k \in Keys : Recorded(k) =>
              /\ PaymentsSeen(w)[k].status # "absent"
              /\ PaymentsSeen(w)[k].inv = payment[k].inv
              /\ PaymentsSeen(w)[k].amount = payment[k].amount
         /\ \A k \in Keys : ~Recorded(k) /\ PaymentsSeen(w)[k].status # "absent" =>
              /\ Books(job[w]) /\ k = job[w].key
              /\ PaymentsSeen(w)[k].inv = job[w].inv
              /\ PaymentsSeen(w)[k].amount = job[w].amt
         /\ \A i \in Invoices : InvoicesSeen(w)[i].status = "paid" =>
              \/ invoice[i].status = "paid"
              \/ /\ invoice[i].status # "absent"
                 /\ \E k \in Keys : /\ PaymentsSeen(w)[k].status # "absent"
                                    /\ Names(k, i)
                                    /\ PaymentsSeen(w)[k].amount >= invoice[i].amount
<1>0. /\ job[w] \in Jobs /\ RequestOK(job[w]) /\ job[w].step = "commit"
      /\ invoice \in [Invoices -> InvoiceRows] /\ payment \in [Keys -> PaymentRows]
  BY DEF IInv, TypeOK, LinksOK, At
<1>1. CASE Settling(w)
  <2>1. /\ Books(job[w]) /\ job[w].inv \in Invoices /\ job[w].key \in Keys
        /\ invoice[job[w].inv].status # "absent" /\ ~Recorded(job[w].key)
    BY <1>0, <1>1 DEF Books, Settling, RequestOK, IInv, LocksOK
  <2>2. \A k \in Keys : PaymentsSeen(w)[k] =
          IF k = job[w].key
          THEN [status |-> "paid", inv |-> job[w].inv, amount |-> job[w].amt, refunded |-> 0]
          ELSE payment[k]
    BY <1>0, <1>1, <2>1 DEF PaymentsSeen
  <2>3. job[w].op # "delete"
    BY <1>1 DEF Settling, SettleOps
  <2>4. \A i \in Invoices : InvoicesSeen(w)[i] =
          IF WritesInvoice(w) /\ i = job[w].inv
          THEN [invoice[i] EXCEPT !.status = "paid"] ELSE invoice[i]
    BY <1>0, <2>1, <2>3 DEF InvoicesSeen
  <2>5. \A i \in Invoices : /\ [invoice[i] EXCEPT !.status = "paid"].status = "paid"
                            /\ [invoice[i] EXCEPT !.status = "paid"].amount = invoice[i].amount
    BY <1>0 DEF InvoiceRows
  <2>6. WritesInvoice(w) => job[w].amt >= invoice[job[w].inv].amount
    BY <1>0, <2>1 DEF WritesInvoice, Short, Jobs, InvoiceRows
  <2>7. \A k \in Keys : Recorded(k) => k # job[w].key
    BY <2>1
  <2>8. /\ PaymentsSeen(w)[job[w].key].status = "paid"
        /\ PaymentsSeen(w)[job[w].key].inv = job[w].inv
        /\ PaymentsSeen(w)[job[w].key].amount = job[w].amt
    BY <2>1, <2>2
  <2>9. \A i \in Invoices : invoice[i].status # "absent" =>
          /\ InvoicesSeen(w)[i].status # "absent"
          /\ InvoicesSeen(w)[i].amount = invoice[i].amount
    BY <2>4, <2>5
  <2>10. \A k \in Keys : Recorded(k) =>
           /\ PaymentsSeen(w)[k].status # "absent"
           /\ PaymentsSeen(w)[k].inv = payment[k].inv
           /\ PaymentsSeen(w)[k].amount = payment[k].amount
    BY <2>2, <2>7 DEF Recorded
  <2>11. \A k \in Keys : ~Recorded(k) /\ PaymentsSeen(w)[k].status # "absent" =>
           /\ Books(job[w]) /\ k = job[w].key
           /\ PaymentsSeen(w)[k].inv = job[w].inv
           /\ PaymentsSeen(w)[k].amount = job[w].amt
    BY <2>1, <2>2, <2>8 DEF Recorded
  <2>12. ASSUME NEW i \in Invoices, InvoicesSeen(w)[i].status = "paid",
                invoice[i].status # "paid"
         PROVE  /\ invoice[i].status # "absent"
                /\ PaymentsSeen(w)[job[w].key].status # "absent"
                /\ Names(job[w].key, i)
                /\ PaymentsSeen(w)[job[w].key].amount >= invoice[i].amount
    <3>1. i = job[w].inv /\ WritesInvoice(w)
      BY <2>4, <2>12
    <3>2. Names(job[w].key, i)
      BY <1>0, <2>1, <3>1, BorneNames DEF RequestOK, Books, Backed
    <3> QED
      BY <2>1, <2>6, <2>8, <3>1, <3>2
  <2> QED
    BY <2>1, <2>9, <2>10, <2>11, <2>12
<1>2. CASE ~Settling(w)
  <2>1. \A k \in Keys : /\ (PaymentsSeen(w)[k].status # "absent") <=> Recorded(k)
                        /\ PaymentsSeen(w)[k].inv = payment[k].inv
                        /\ PaymentsSeen(w)[k].amount = payment[k].amount
    <3>1. CASE job[w].op = "refund"
      <4>1. job[w].key \in Keys /\ Recorded(job[w].key) /\ job[w].saw # "absent"
        BY <1>0, <3>1 DEF RequestOK
      <4>2. /\ AfterRefund(payment[job[w].key], job[w]).status # "absent"
            /\ AfterRefund(payment[job[w].key], job[w]).inv = payment[job[w].key].inv
            /\ AfterRefund(payment[job[w].key], job[w]).amount = payment[job[w].key].amount
        BY <1>0, <4>1, AfterRefundType DEF Recorded
      <4>3. \A k \in Keys : PaymentsSeen(w)[k] =
              IF k = job[w].key THEN AfterRefund(payment[k], job[w]) ELSE payment[k]
        BY <1>0, <1>2, <3>1, <4>1 DEF PaymentsSeen
      <4> QED
        BY <4>1, <4>2, <4>3 DEF Recorded
    <3>2. CASE job[w].op # "refund"
      BY <1>2, <3>2 DEF PaymentsSeen, Recorded
    <3> QED
      BY <3>1, <3>2
  <2>2. \A i \in Invoices : /\ InvoicesSeen(w)[i].status = invoice[i].status
                            /\ InvoicesSeen(w)[i].amount = invoice[i].amount
    <3>1. ~WritesInvoice(w)
      BY <1>2 DEF WritesInvoice
    <3>2. \A i \in Invoices : /\ [invoice[i] EXCEPT !.on = Balance].status = invoice[i].status
                              /\ [invoice[i] EXCEPT !.on = Balance].amount = invoice[i].amount
      BY <1>0 DEF InvoiceRows
    <3> QED
      BY <3>1, <3>2 DEF InvoicesSeen
  <2> QED
    BY <2>1, <2>2 DEF Recorded
<1> QED
  BY <1>1, <1>2

\* A commit books the settlement, or the database refuses it whole.
LEMMA InvCommit ==
  ASSUME IInv, TypeOK', NEW w \in Workers, Commit(w)
  PROVE  IInv'
<1>1. CASE LedgerClash(w)
  <2>1. Finish(w) /\ UNCHANGED <<tables, gateway>>
    BY <1>1 DEF Commit
  <2> QED
    BY <2>1, FinishStep
<1>2. CASE ~LedgerClash(w)
  <2>1. /\ payment' = PaymentsSeen(w) /\ invoice' = InvoicesSeen(w)
        /\ UNCHANGED <<mix, collected, credit>> /\ At(w, "commit")
        /\ IF StillToCancel(w) THEN Go(w, "cancel") ELSE Finish(w)
    BY <1>2 DEF Commit, gateway
  <2>2. PICK j : /\ job' = [job EXCEPT ![w] = j]
                 /\ \/ j = Idle
                    \/ job[w].op \in SettleOps /\ j = [job[w] EXCEPT !.step = "cancel"]
    <3>1. CASE StillToCancel(w)
      <4>1. job' = [job EXCEPT ![w] = [job[w] EXCEPT !.step = "cancel"]]
        BY <2>1, <3>1 DEF Go
      <4>2. job[w].op \in SettleOps
        BY <3>1 DEF StillToCancel, SettleOps
      <4> QED
        BY <4>1, <4>2
    <3>2. CASE ~StillToCancel(w)
      BY <2>1, <3>2 DEF Finish
    <3> QED
      BY <3>1, <3>2
  <2>3. \A i \in Invoices : invoice[i].status # "absent" =>
          invoice'[i].status # "absent" /\ invoice'[i].amount = invoice[i].amount
    BY <2>1, CommitWrites
  <2>4. \A k \in Keys : Recorded(k) =>
          /\ payment'[k].status # "absent"
          /\ payment'[k].inv = payment[k].inv /\ payment'[k].amount = payment[k].amount
    BY <2>1, CommitWrites
  <2>5. \A k \in Keys : ~Recorded(k) /\ payment'[k].status # "absent" =>
          /\ Books(job[w]) /\ k = job[w].key
          /\ payment'[k].inv = job[w].inv /\ payment'[k].amount = job[w].amt
    BY <2>1, CommitWrites
  <2>6. \A i \in Invoices : invoice'[i].status = "paid" =>
          \/ invoice[i].status = "paid"
          \/ /\ invoice[i].status # "absent"
             /\ \E k \in Keys : /\ payment'[k].status # "absent" /\ Names(k, i)
                                /\ payment'[k].amount >= invoice[i].amount
    BY <2>1, CommitWrites
  <2> QED
    BY <2>1, <2>2, <2>3, <2>4, <2>5, <2>6, WriteStep
<1> QED
  BY <1>1, <1>2

\* A payment that is already recorded in full covers the invoice it settles, and
\* retiring an invoice turns none paid.
LEMMA InvMark ==
  ASSUME IInv, TypeOK', NEW w \in Workers, MarkInvoicePaid(w) \/ CancelInvoice(w)
  PROVE  IInv'
<1>0. /\ job[w] \in Jobs /\ RequestOK(job[w])
      /\ invoice \in [Invoices -> InvoiceRows] /\ payment \in [Keys -> PaymentRows]
  BY DEF IInv, TypeOK, LinksOK
<1>1. /\ payment' = payment /\ UNCHANGED <<mix, collected, credit>>
      /\ job' = [job EXCEPT ![w] = Idle]
  BY DEF MarkInvoicePaid, CancelInvoice, Finish, gateway
<1>2. \A i \in Invoices, status \in {"paid", "cancelled"} :
        /\ [invoice[i] EXCEPT !.status = status].status = status
        /\ [invoice[i] EXCEPT !.status = status].amount = invoice[i].amount
  BY <1>0 DEF InvoiceRows
<1>3. CASE CancelInvoice(w)
  <2>1. \A i \in Invoices :
          invoice'[i] = IF i = job[w].inv THEN [invoice[i] EXCEPT !.status = "cancelled"]
                        ELSE invoice[i]
    BY <1>0, <1>3 DEF CancelInvoice
  <2>2. \A i \in Invoices : invoice[i].status # "absent" =>
          invoice'[i].status # "absent" /\ invoice'[i].amount = invoice[i].amount
    BY <1>2, <2>1
  <2>3. \A i \in Invoices : invoice'[i].status = "paid" => invoice[i].status = "paid"
    BY <1>2, <2>1
  <2> QED
    BY <1>1, <2>2, <2>3, WriteStep DEF Recorded
<1>4. CASE MarkInvoicePaid(w)
  <2>1. /\ job[w].op \in SettleOps /\ job[w].inv \in Invoices /\ job[w].key \in Keys
        /\ invoice[job[w].inv].status # "absent" /\ Backed(job[w])
        /\ Recorded(job[w].key)
        /\ payment[job[w].key].amount >= invoice[job[w].inv].amount
    BY <1>0, <1>4 DEF MarkInvoicePaid, At, RequestOK
  <2>2. Names(job[w].key, job[w].inv)
    BY <2>1, BorneNames DEF Backed
  <2>3. \A i \in Invoices :
          \/ invoice'[i] = invoice[i]
          \/ i = job[w].inv /\ invoice'[i] = [invoice[i] EXCEPT !.status = "paid"]
    BY <1>0, <1>4 DEF MarkInvoicePaid
  <2>4. \A i \in Invoices : invoice[i].status # "absent" =>
          invoice'[i].status # "absent" /\ invoice'[i].amount = invoice[i].amount
    BY <1>2, <2>3
  <2>5. \A i \in Invoices : invoice'[i].status = "paid" =>
          \/ invoice[i].status = "paid"
          \/ i = job[w].inv
    BY <2>3
  <2>6. \A i \in Invoices : invoice'[i].status = "paid" =>
          \/ invoice[i].status = "paid"
          \/ /\ invoice[i].status # "absent"
             /\ \E k \in Keys : /\ payment'[k].status # "absent" /\ Names(k, i)
                                /\ payment'[k].amount >= invoice[i].amount
    BY <1>1, <2>1, <2>2, <2>5 DEF Recorded
  <2> QED
    BY <1>1, <2>4, <2>6, WriteStep DEF Recorded
<1> QED
  BY <1>3, <1>4

\* A new invoice is not paid.
LEMMA InvRaise ==
  ASSUME IInv, TypeOK', NEW w \in Workers, NEW i \in Invoices, RaiseInvoice(w, i)
  PROVE  IInv'
<1>1. /\ UNCHANGED <<mix, payment, collected, credit>> /\ job' = [job EXCEPT ![w] = Idle]
      /\ invoice[i].status = "absent"
      /\ \/ invoice' = invoice
         \/ invoice' = [invoice EXCEPT ![i] =
                           [status |-> "pending", on |-> job[w].on, amount |-> job[w].amt]]
  BY DEF RaiseInvoice, Finish, tables, gateway
<1>2. invoice \in [Invoices -> InvoiceRows]
  BY DEF IInv, TypeOK
<1>3. \A n \in Invoices : \/ invoice'[n] = invoice[n]
                          \/ n = i /\ invoice'[n].status = "pending"
  BY <1>1, <1>2
<1>4. \A n \in Invoices : invoice[n].status # "absent" =>
        invoice'[n].status # "absent" /\ invoice'[n].amount = invoice[n].amount
  BY <1>1, <1>3
<1>5. \A n \in Invoices : invoice'[n].status = "paid" => invoice[n].status = "paid"
  BY <1>3
<1> QED
  BY <1>1, <1>4, <1>5, WriteStep DEF Recorded

\* The balance quote moves on to the gateway, or is refused.
LEMMA InvQuote ==
  ASSUME IInv, TypeOK', NEW w \in Workers, Quote(w)
  PROVE  IInv'
<1>1. UNCHANGED <<tables, gateway>> /\ At(w, "quote")
  BY DEF Quote
<1>2. CASE Finish(w)
  BY <1>1, <1>2, FinishStep
<1>3. ASSUME NEW value \in Figures,
             job' = [job EXCEPT ![w] = [@ EXCEPT !.step = "gateway", !.amt = value]]
      PROVE  IInv'
  <2> DEFINE j == [job[w] EXCEPT !.step = "gateway", !.amt = value]
  <2>1. job[w] \in Jobs /\ RequestOK(job[w])
    BY DEF IInv, TypeOK, LinksOK
  <2>2. j.step = "gateway" /\ j.op = job[w].op
    BY <2>1 DEF Jobs
  <2>3. UNCHANGED <<mix, invoice, payment, collected, credit>> /\ job' = [job EXCEPT ![w] = j]
    BY <1>1, <1>3 DEF tables, gateway
  <2> HIDE DEF j
  <2>4. job[w].op \in CreateOps
    BY <1>1, <2>1 DEF At, RequestOK
  <2>5. RequestOK(j) /\ ~Books(j)
    BY <2>2, <2>4 DEF RequestOK, Books, SettleOps, CreateOps
  <2> QED
    BY <2>3, <2>5, QuietStep
<1> QED
  BY <1>2, <1>3 DEF Quote

\* Every step of a request under way.
LEMMA InvProgress ==
  ASSUME IInv, NEW w \in Workers, Progress(w) \/ Abort(w)
  PROVE  IInv'
<1>0. TypeOK'
  BY TypeProgress DEF IInv
<1>1. CASE Lookup(w)
  <2>1. /\ UNCHANGED <<tables, gateway>> /\ At(w, "lookup")
        /\ \/ Finish(w) \/ Go(w, "hold") \/ Go(w, "flush") \/ Go(w, "cancel")
           \/ /\ Go(w, "mark") /\ Recorded(job[w].key)
              /\ payment[job[w].key].amount >= invoice[job[w].inv].amount
    BY <1>1 DEF Lookup, Recorded
  <2>2. job[w].op \in SettleOps /\ ~At(w, "cancel")
    BY <2>1 DEF IInv, LinksOK, RequestOK, At
  <2>3. CASE Finish(w)
    BY <1>0, <2>1, <2>3, FinishStep
  <2>4. CASE Go(w, "hold") \/ Go(w, "flush") \/ Go(w, "cancel")
    BY <1>0, <2>1, <2>2, <2>4, GoStep DEF Steps
  <2>5. CASE /\ Go(w, "mark") /\ Recorded(job[w].key)
             /\ payment[job[w].key].amount >= invoice[job[w].inv].amount
    BY <1>0, <2>1, <2>2, <2>5, GoStep DEF Steps, Settling
  <2> QED
    BY <2>1, <2>3, <2>4, <2>5
<1>2. CASE SumPayments(w) \/ SumPlan(w)
  <2>1. /\ UNCHANGED <<tables, gateway>>
        /\ job[w].step \in {"sum", "plan"}
        /\ \E step \in {"plan", "row"} : Go(w, step)
    BY <1>2 DEF SumPayments, SumPlan, At
  <2>2. PICK step \in {"plan", "row"} : Go(w, step)
    BY <2>1
  <2>3. step \in Steps /\ Flushed(w) /\ ~At(w, "cancel")
    BY <2>1 DEF Steps, Flushed, At
  <2> QED
    BY <1>0, <2>1, <2>2, <2>3, GoStep
<1>3. CASE ReadLedger(w)
  <2>1. UNCHANGED <<tables, gateway>> /\ At(w, "row")
    BY <1>3 DEF ReadLedger
  <2>2. CASE job[w].op = "create" /\ Go(w, "quote")
    BY <1>0, <2>1, <2>2, GoStep DEF Steps, At, CreateOps
  <2>3. CASE Go(w, "commit")
    BY <1>0, <2>1, <2>3, GoStep DEF Steps, At, Flushed
  <2> QED
    BY <1>3, <2>2, <2>3 DEF ReadLedger
<1>4. CASE Abort(w)
  <2>1. Finish(w) /\ UNCHANGED <<tables, gateway>>
    BY <1>4 DEF Abort
  <2> QED
    BY <1>0, <2>1, FinishStep
<1>5. CASE MarkInvoicePaid(w) \/ CancelInvoice(w)
  BY <1>0, <1>5, InvMark
<1>6. CASE Flush(w) \/ Commit(w) \/ Quote(w)
  BY <1>0, <1>6, InvFlush, InvCommit, InvQuote
<1>7. ASSUME NEW i \in Invoices, RaiseInvoice(w, i) PROVE IInv'
  BY <1>0, <1>7, InvRaise
<1>8. CASE LockInvoice(w) \/ LockRest(w) \/ BreakCircle(w)
  <2>1. /\ UNCHANGED <<tables, gateway>>
        /\ \/ Finish(w)
           \/ At(w, "hold") /\ Go(w, "flush")
           \/ At(w, "rest") /\ Go(w, "sum")
    BY <1>8 DEF LockInvoice, LockRest, BreakCircle
  <2>2. CASE Finish(w)
    BY <1>0, <2>1, <2>2, FinishStep
  <2>3. CASE At(w, "hold") /\ Go(w, "flush")
    BY <1>0, <2>1, <2>3, GoStep DEF Steps, At
  <2>4. CASE At(w, "rest") /\ Go(w, "sum")
    BY <1>0, <2>1, <2>4, GoStep DEF Steps, At, Flushed
  <2> QED
    BY <2>1, <2>2, <2>3, <2>4
<1> QED
  BY <1>1, <1>2, <1>3, <1>4, <1>5, <1>6, <1>7, <1>8 DEF Progress

\* Money only ever comes in, and a statement line is posted once.
LEMMA InvWorld ==
  ASSUME IInv, World
  PROVE  IInv'
<1>0. TypeOK'
  BY TypeWorld DEF IInv
<1>1. ASSUME UNCHANGED <<mix, invoice, payment, job>>,
             \A i \in Invoices : collected'[i] >= collected[i],
             \A c \in Credits : credit[c].names # {} => credit'[c] = credit[c]
      PROVE  IInv'
  <2>0. /\ \A w \in Workers : job[w].amt \in Nat
        /\ \A k \in Keys : payment[k].amount \in Nat
    BY DEF IInv, TypeOK, Jobs, PaymentRows
  <2>a. ASSUME NEW i \in Invoices, NEW k, NEW amount \in Nat, Borne(k, i, amount)
        PROVE  BorneNow(k, i, amount)
    BY <1>0, <1>1, <2>a, BorneStands DEF IInv
  <2>1. ASSUME NEW w \in Workers, job[w].inv \in Invoices, Backed(job[w])
        PROVE  Backed(job[w])'
    <3>1. BorneNow(job[w].key, job[w].inv, job[w].amt)
      BY <2>0, <2>1, <2>a DEF Backed
    <3> QED
      BY <1>1, <3>1 DEF Backed, Borne, BorneNow, Golomt, LineKey, PaymentIds
  <2>2. LinksOK'
    BY <1>1, <2>1 DEF IInv, LinksOK, RequestOK, Recorded
  <2>3. LocksOK'
    BY <1>1 DEF IInv, LocksOK, Recorded
  <2>4. RecordedIsCollected'
    <3> SUFFICES ASSUME NEW k \in Keys, Recorded(k)
                 PROVE  BorneNow(k, payment[k].inv, payment[k].amount)
      BY <1>1 DEF RecordedIsCollected, Recorded, Borne, BorneNow, Golomt, LineKey, PaymentIds
    <3>1. payment[k].inv \in Invoices /\ Borne(k, payment[k].inv, payment[k].amount)
      BY DEF IInv, LinksOK, RecordedIsCollected
    <3> QED
      BY <2>0, <2>a, <3>1
  <2>5. PaidInvoiceCovered'
    <3>1. \A k \in Keys, i \in Invoices :
            Names(k, i) => k = i \/ (k \in Credits /\ i \in credit'[k].names)
      BY <1>1 DEF Names
    <3> QED
      BY <1>1, <3>1 DEF IInv, PaidInvoiceCovered, Recorded, Names
  <2> QED
    BY <1>0, <2>2, <2>3, <2>4, <2>5 DEF IInv
<1>2. ASSUME NEW i \in Invoices, NEW amount \in Amounts, BuyerPays(i, amount) PROVE IInv'
  <2>1. amount \in Nat /\ collected \in [Invoices -> Nat] /\ credit \in [Credits -> CreditRows]
    BY DEF Amounts, IInv, TypeOK
  <2>2. \A c \in Credits : credit[c].names # {} => credit'[c] = credit[c]
    BY <1>2, <2>1 DEF BuyerPays
  <2>3. UNCHANGED <<mix, invoice, payment, job>>
    BY <1>2 DEF BuyerPays, tables
  <2>4. \A n \in Invoices : collected'[n] >= collected[n]
    BY <1>2, <2>1 DEF BuyerPays
  <2> QED
    BY <1>1, <2>2, <2>3, <2>4
<1>3. ASSUME NEW c \in Credits, NEW named \in SUBSET Invoices, NEW amount \in Amounts,
             BankPosts(c, named, amount)
      PROVE  IInv'
  <2>1. credit \in [Credits -> CreditRows] /\ collected \in [Invoices -> Nat]
    BY DEF IInv, TypeOK
  <2>2. UNCHANGED <<mix, invoice, payment, job, collected>>
    BY <1>3 DEF BankPosts, tables
  <2>3. \A d \in Credits : credit[d].names # {} => credit'[d] = credit[d]
    BY <1>3, <2>1 DEF BankPosts
  <2> QED
    BY <1>1, <2>1, <2>2, <2>3
<1> QED
  BY <1>2, <1>3 DEF World

-----------------------------------------------------------------------------
(* The theorems.                                                           *)

\* IInv holds initially and every step keeps it.
THEOREM Invariance == Spec => []IInv
<1>1. Init => IInv
  BY InvInit
<1>2. IInv /\ [Next]_vars => IInv'
  <2> SUFFICES ASSUME IInv, [Next]_vars PROVE IInv'
    OBVIOUS
  <2>1. CASE UNCHANGED vars
    BY <2>1 DEF vars, IInv, TypeOK, LinksOK, LocksOK, RequestOK, Backed, Books,
                RecordedIsCollected, PaidInvoiceCovered, Recorded, Borne, Golomt, LineKey,
                PaymentIds, Names
  <2>2. CASE Next
    BY <2>2, InvWorld, InvArrival, InvProgress DEF Next
  <2> QED
    BY <2>1, <2>2
<1> QED
  BY <1>1, <1>2, PTL DEF Spec

\* Every reachable state of the tables, the gateways and the requests is typed.
THEOREM TypeCorrect == Spec => []TypeOK
<1>1. IInv => TypeOK
  BY DEF IInv
<1> QED
  BY <1>1, Invariance, PTL

\* No payment row ever books money its gateway did not report for that invoice,
\* for any number of invoices, threads and statement lines (settlement.py:26-59).
THEOREM RecordedIsCollectedAlways == Spec => []RecordedIsCollected
<1>1. IInv => RecordedIsCollected
  BY DEF IInv
<1> QED
  BY <1>1, Invariance, PTL

\* However callbacks, refunds, plan edits and gateway switches overlap, an invoice
\* that reads paid has one payment that covers it (settlement.py:31, 38, 76-83).
THEOREM PaidInvoiceCoveredAlways == Spec => []PaidInvoiceCovered
<1>1. IInv => PaidInvoiceCovered
  BY DEF IInv
<1> QED
  BY <1>1, Invariance, PTL
-----------------------------------------------------------------------------
(* What a request knows, and what the tables promise beyond IInv.          *)

Laid(n) == installment[n].status # "absent"
Closed(n) == installment[n].status \in {"paid", "waived"}
Grows(j) == j.op \in {"plan", "add"}
InFlight(j) == j.step \in {"rest", "sum", "plan", "row", "commit"}

\* A request as it arrives: what it has read is what the tables say.
FreshSettle(j) ==
  /\ j.op = "settle" /\ j.step = "lookup" /\ j.inv \in Invoices
  /\ j.on = invoice[j.inv].on /\ j.saw = invoice[j.inv].status
FreshSwitch(j) ==
  /\ j.op = "switch" /\ j.step \in {"lookup", "cancel"} /\ j.inv \in Invoices
  /\ j.on = Public /\ invoice[j.inv].on = Public
  /\ j.saw = "pending" /\ invoice[j.inv].status = "pending"
FreshEdit(j) ==
  /\ j.step = "flush"
  /\ \/ j.op = "plan" /\ j.on = 1 /\ \A n \in Installments : ~Laid(n)
     \/ /\ j.op = "add" /\ j.on \in Installments /\ ~Laid(j.on)
        /\ \A m \in 1..(j.on - 1) : Laid(m)
     \/ j.op \in {"update", "waive", "delete"} /\ j.on \in Installments /\ Editable(j.on)
FreshRefund(j) ==
  /\ j.op = "refund" /\ j.step = "flush" /\ j.key \in Keys
  /\ j.saw = payment[j.key].status /\ j.saw \in {"paid", "partially_refunded"}
  /\ j.was = payment[j.key].refunded /\ j.amt >= j.was
  /\ j.amt > 0 /\ j.amt <= payment[j.key].amount
  /\ j.on = invoice[payment[j.key].inv].on
FreshInvoice(j) ==
  \/ j.op = "create" /\ j.step = "gateway" /\ j.on \in Installments /\ Laid(j.on)
  \/ j.op = "create" /\ j.step = "sum" /\ j.on = Balance
  \/ j.op = "checkout" /\ j.step = "gateway" /\ j.on = Public
Fresh(j) ==
  \/ FreshSettle(j) \/ FreshSwitch(j) \/ FreshEdit(j) \/ FreshRefund(j) \/ FreshInvoice(j)
  \/ j.op = "view" /\ j.step = "sum" /\ j.on = Balance

\* A request that settles: where its invoice stood, and what it marks.
SettleTold(j) ==
  /\ j.step = "cancel" => j.op = "switch"
  /\ j.op = "switch" => invoice[j.inv].on = Public
  /\ j.op = "settle" /\ j.saw = "paid" /\ invoice[j.inv].on # Public =>
       invoice[j.inv].status = "paid"
  /\ Books(j) => /\ (j.on = Public) <=> (invoice[j.inv].on = Public)
                 /\ j.on \in Installments => Laid(j.on)
  /\ Books(j) /\ j.amt >= invoice[j.inv].amount =>
       IF j.on \in Installments THEN invoice[j.inv].on \in {j.on, Balance}
       ELSE invoice[j.inv].on \in Installments => Closed(invoice[j.inv].on)

\* One that edits the plan, or bills an installment: what of the plan there is.
PlanTold(j) ==
  /\ j.op = "plan" => j.on = 1
  /\ j.op = "add" => j.on \in Installments /\ \A m \in 1..(j.on - 1) : Laid(m)
  /\ j.op \in {"update", "waive", "delete"} => j.on \in Installments /\ Laid(j.on)
  /\ j.op = "create" => j.on = Balance \/ (j.on \in Installments /\ Laid(j.on))
  /\ j.op = "view" => j.on = Balance
  /\ j.op = "checkout" => j.on = Public
  /\ Grows(j) /\ InFlight(j) => ~Laid(j.on)

\* One that refunds: no more than was paid, and a status that still stands.
RefundTold(j) ==
  j.op = "refund" =>
    /\ j.saw \in {"paid", "partially_refunded"}
    /\ j.amt > 0 /\ j.amt <= payment[j.key].amount
    /\ j.saw = "paid" => j.was = 0
    /\ j.saw # "paid" => payment[j.key].status # "paid"
    /\ (j.on = Public) <=> (invoice[payment[j.key].inv].on = Public)

Told(j) == SettleTold(j) /\ PlanTold(j) /\ RefundTold(j)

\* Two requests never lay the same installment, plans are laid in order, and what
\* an invoice bills exists.
PlanOK ==
  /\ \A w \in Workers, v \in Workers :
       w # v /\ Grows(job[w]) /\ InFlight(job[w]) /\ Grows(job[v]) /\ InFlight(job[v])
         => job[w].on # job[v].on
  /\ \A n \in Installments : Laid(n) => \A m \in 1..(n - 1) : Laid(m)
  /\ \A i \in Invoices : invoice[i].on \in Installments =>
       installment[invoice[i].on].status \notin {"absent", "deleted"}

\* Nothing has gone back of a payment that reads paid.
PaymentsOK ==
  \A k \in Keys : payment[k].status \in {"absent", "paid"} => payment[k].refunded = 0

Knows == \A w \in Workers : Told(job[w])
Promise == Knows /\ PlanOK /\ PaymentsOK /\ FullPaymentSettles

\* Idle knows nothing.
LEMMA IdleTold == Told(Idle) /\ ~Books(Idle) /\ ~InFlight(Idle)
BY DEF Told, SettleTold, PlanTold, RefundTold, Idle, Books, SettleOps, InFlight, Grows

\* A request arrives with what it has just read.
LEMMA ArrivalRequest ==
  ASSUME IInv, PaymentsOK, NEW w \in Workers, Arrival(w)
  PROVE  \E j : Start(w, j) /\ Fresh(j)
<1>0. \A amount \in Amounts : amount \in Nat /\ amount > 0
  BY DEF Amounts
<1>1. ASSUME NEW i \in Invoices, Ask(w, i) \/ SwitchGateway(w, i)
      PROVE  \E j : Start(w, j) /\ Fresh(j)
  <2>2. CASE Ask(w, i)
    <3>1. PICK report \in Reports(i) :
            Start(w, [Idle EXCEPT !.op = "settle", !.step = "lookup", !.inv = i,
                                  !.key = report.key, !.amt = report.amount,
                                  !.on = invoice[i].on, !.saw = invoice[i].status])
      BY <2>2 DEF Ask
    <3> DEFINE j == [Idle EXCEPT !.op = "settle", !.step = "lookup", !.inv = i,
                                  !.key = report.key, !.amt = report.amount,
                                  !.on = invoice[i].on, !.saw = invoice[i].status]
    <3>2. FreshSettle(j)
      BY DEF FreshSettle, Idle
    <3> QED
      BY <3>1, <3>2 DEF Fresh
  <2>3. CASE SwitchGateway(w, i)
    <3> DEFINE request == [Idle EXCEPT !.op = "switch", !.inv = i, !.on = Public,
                                       !.saw = "pending"]
    <3>0. invoice[i].status = "pending" /\ invoice[i].on = Public
      BY <2>3 DEF SwitchGateway
    <3>1. CASE Start(w, [request EXCEPT !.step = "cancel"])
      <4>1. FreshSwitch([request EXCEPT !.step = "cancel"])
        BY <3>0 DEF FreshSwitch, Idle
      <4> QED
        BY <3>1, <4>1 DEF Fresh
    <3>2. ASSUME NEW report \in Reports(i),
                 Start(w, [request EXCEPT !.step = "lookup", !.key = report.key,
                                          !.amt = report.amount])
          PROVE  \E j : Start(w, j) /\ Fresh(j)
      <4>1. FreshSwitch([request EXCEPT !.step = "lookup", !.key = report.key,
                                        !.amt = report.amount])
        BY <3>0 DEF FreshSwitch, Idle
      <4> QED
        BY <3>2, <4>1 DEF Fresh
    <3> QED
      BY <2>3, <3>1, <3>2 DEF SwitchGateway
  <2> QED
    BY <1>1, <2>2, <2>3
<1>2. ASSUME BeginPlan(w) PROVE \E j : Start(w, j) /\ Fresh(j)
  <2>1. FreshEdit([Idle EXCEPT !.op = "plan", !.step = "flush", !.on = 1])
    BY <1>2 DEF BeginPlan, FreshEdit, Idle, Laid
  <2> QED
    BY <1>2, <2>1 DEF BeginPlan, Fresh
<1>3. ASSUME NEW n \in Installments, NEW amount \in Amounts, BeginAdd(w, n, amount)
      PROVE  \E j : Start(w, j) /\ Fresh(j)
  <2>1. FreshEdit([Idle EXCEPT !.op = "add", !.step = "flush", !.on = n, !.amt = amount])
    BY <1>3 DEF BeginAdd, FreshEdit, Idle, Laid
  <2> QED
    BY <1>3, <2>1 DEF BeginAdd, Fresh
<1>4. ASSUME NEW op \in {"update", "waive", "delete"}, NEW n \in Installments, NEW amount,
             BeginEdit(w, op, n, amount)
      PROVE  \E j : Start(w, j) /\ Fresh(j)
  <2>1. FreshEdit([Idle EXCEPT !.op = op, !.step = "flush", !.on = n, !.amt = amount,
                               !.was = installment[n].amount])
    BY <1>4 DEF BeginEdit, FreshEdit, Idle
  <2> QED
    BY <1>4, <2>1 DEF BeginEdit, Fresh
<1>5. ASSUME NEW k \in Keys, NEW total \in Amounts, BeginRefund(w, k, total)
      PROVE  \E j : Start(w, j) /\ Fresh(j)
  <2>1. FreshRefund([Idle EXCEPT !.op = "refund", !.step = "flush", !.key = k, !.amt = total,
                                 !.on = invoice[payment[k].inv].on,
                                 !.was = payment[k].refunded, !.saw = payment[k].status])
    BY <1>0, <1>5 DEF BeginRefund, FreshRefund, Idle
  <2> QED
    BY <1>5, <2>1 DEF BeginRefund, Fresh
<1>6. ASSUME BeginView(w) PROVE \E j : Start(w, j) /\ Fresh(j)
  <2>1. /\ [Idle EXCEPT !.op = "view", !.step = "sum"].op = "view"
        /\ [Idle EXCEPT !.op = "view", !.step = "sum"].step = "sum"
        /\ [Idle EXCEPT !.op = "view", !.step = "sum"].on = Balance
    BY DEF Idle
  <2>2. Fresh([Idle EXCEPT !.op = "view", !.step = "sum"])
    BY <2>1 DEF Fresh
  <2> QED
    BY <1>6, <2>2 DEF BeginView
<1>7. ASSUME NEW n \in Installments, BeginInstallmentInvoice(w, n)
      PROVE  \E j : Start(w, j) /\ Fresh(j)
  <2>1. FreshInvoice([Idle EXCEPT !.op = "create", !.step = "gateway", !.on = n,
                                  !.amt = installment[n].amount])
    BY <1>7 DEF BeginInstallmentInvoice, FreshInvoice, Idle, Laid
  <2> QED
    BY <1>7, <2>1 DEF BeginInstallmentInvoice, Fresh
<1>8. ASSUME NEW amount, BeginBalanceInvoice(w, amount) PROVE \E j : Start(w, j) /\ Fresh(j)
  <2>1. FreshInvoice([Idle EXCEPT !.op = "create", !.step = "sum", !.amt = amount])
    BY DEF FreshInvoice, Idle
  <2> QED
    BY <1>8, <2>1 DEF BeginBalanceInvoice, Fresh
<1>9. ASSUME NEW amount, BeginPublicInvoice(w, amount) PROVE \E j : Start(w, j) /\ Fresh(j)
  <2>1. FreshInvoice([Idle EXCEPT !.op = "checkout", !.step = "gateway", !.on = Public,
                                  !.amt = amount])
    BY DEF FreshInvoice, Idle
  <2> QED
    BY <1>9, <2>1 DEF BeginPublicInvoice, Fresh
<1> QED
  BY <1>1, <1>2, <1>3, <1>4, <1>5, <1>6, <1>7, <1>8, <1>9 DEF Arrival

\* What it has read makes it know all it needs to.
LEMMA FreshTold ==
  ASSUME IInv, PaymentsOK, NEW j, Fresh(j)
  PROVE  Told(j) /\ ~Books(j) /\ (Grows(j) => ~InFlight(j))
<1>0. 1 \in Installments
  BY BoundsAssumption DEF Installments
<1>1. CASE FreshSettle(j)
  BY <1>1 DEF FreshSettle, Told, SettleTold, PlanTold, RefundTold, Books, SettleOps, Grows, InFlight
<1>2. CASE FreshSwitch(j)
  BY <1>2 DEF FreshSwitch, Told, SettleTold, PlanTold, RefundTold, Books, SettleOps, Grows, InFlight
<1>3. CASE FreshEdit(j)
  BY <1>3 DEF FreshEdit, Told, SettleTold, PlanTold, RefundTold, Books, SettleOps, Grows, InFlight,
              Editable, Laid
<1>4. CASE FreshRefund(j)
  BY <1>4 DEF FreshRefund, Told, SettleTold, PlanTold, RefundTold, Books, SettleOps, Grows, InFlight,
              PaymentsOK
<1>5. CASE FreshInvoice(j)
  BY <1>5 DEF FreshInvoice, Told, SettleTold, PlanTold, RefundTold, Books, SettleOps, Grows, InFlight
<1>6. CASE j.op = "view" /\ j.step = "sum" /\ j.on = Balance
  BY <1>6 DEF Told, SettleTold, PlanTold, RefundTold, Books, SettleOps, Grows, InFlight
<1> QED
  BY <1>1, <1>2, <1>3, <1>4, <1>5, <1>6 DEF Fresh

-----------------------------------------------------------------------------
(* Steps that touch no table.                                              *)

\* What request w can become without writing a table.
Moved(w, j) ==
  \/ j = Idle
  \/ \E s \in Steps :
       /\ j = [job[w] EXCEPT !.step = s]
       /\ \/ At(w, "lookup") /\ s \in {"hold", "flush", "mark"}
          \/ At(w, "lookup") /\ s = "cancel" /\ job[w].op = "switch"
          \/ At(w, "hold") /\ s = "flush"
          \/ Flushed(w) /\ s \in {"sum", "plan", "row", "commit"}
          \/ Flushed(w) /\ s = "quote" /\ job[w].op = "create"
  \/ At(w, "flush") /\ ~Refused(w) /\ WaitsFor(w) = {} /\ j = Locked(w)
  \/ /\ At(w, "quote") /\ job[w].op \in CreateOps
     /\ \E value \in Figures : j = [job[w] EXCEPT !.step = "gateway", !.amt = value]

\* That is all a request does until it writes.
LEMMA Moves ==
  ASSUME IInv, NEW w \in Workers,
         \/ Lookup(w) \/ LockInvoice(w) \/ Flush(w) \/ LockRest(w) \/ BreakCircle(w)
         \/ SumPayments(w) \/ SumPlan(w) \/ ReadLedger(w) \/ Quote(w) \/ Abort(w)
  PROVE  /\ UNCHANGED <<tables, gateway>>
         /\ \E j : job' = [job EXCEPT ![w] = j] /\ Moved(w, j)
<1>0. Finish(w) => \E j : job' = [job EXCEPT ![w] = j] /\ Moved(w, j)
  BY DEF Finish, Moved
<1>1. CASE Lookup(w)
  <2>0. At(w, "lookup") /\ UNCHANGED <<tables, gateway>>
    BY <1>1 DEF Lookup
  <2>1. job[w].op \in SettleOps
    BY <2>0 DEF IInv, LinksOK, RequestOK, At
  <2>2. \/ Finish(w) \/ Go(w, "hold") \/ Go(w, "flush") \/ Go(w, "mark")
        \/ Go(w, "cancel") /\ job[w].op = "switch"
    BY <1>1 DEF Lookup
  <2>3. ASSUME NEW s \in {"hold", "flush", "mark", "cancel"}, Go(w, s),
               s = "cancel" => job[w].op = "switch"
        PROVE  \E j : job' = [job EXCEPT ![w] = j] /\ Moved(w, j)
    <3>1. Moved(w, [job[w] EXCEPT !.step = s])
      BY <2>0, <2>3 DEF Moved, Steps
    <3> QED
      BY <2>3, <3>1 DEF Go
  <2> QED
    BY <1>0, <2>0, <2>2, <2>3
<1>2. CASE Flush(w)
  <2>1. CASE Refused(w)
    BY <1>0, <1>2, <2>1 DEF Flush
  <2>2. CASE ~Refused(w)
    BY <1>2, <2>2 DEF Flush, Moved
  <2> QED
    BY <2>1, <2>2
<1>3. CASE SumPayments(w) \/ SumPlan(w) \/ ReadLedger(w)
  <2>1. /\ UNCHANGED <<tables, gateway>> /\ Flushed(w)
        /\ \E s \in {"plan", "row", "commit", "quote"} :
             Go(w, s) /\ (s = "quote" => job[w].op = "create")
    BY <1>3 DEF SumPayments, SumPlan, ReadLedger, Flushed, At
  <2>2. PICK s \in {"plan", "row", "commit", "quote"} :
          Go(w, s) /\ (s = "quote" => job[w].op = "create")
    BY <2>1
  <2>3. Moved(w, [job[w] EXCEPT !.step = s])
    BY <2>1, <2>2 DEF Moved, Steps
  <2> QED
    BY <2>1, <2>2, <2>3 DEF Go
<1>4. CASE Quote(w)
  <2>1. UNCHANGED <<tables, gateway>> /\ At(w, "quote")
    BY <1>4 DEF Quote
  <2>2. job[w].op \in CreateOps
    BY <2>1 DEF IInv, LinksOK, RequestOK, At
  <2>3. ASSUME NEW value \in Figures,
               job' = [job EXCEPT ![w] = [@ EXCEPT !.step = "gateway", !.amt = value]]
        PROVE  \E j : job' = [job EXCEPT ![w] = j] /\ Moved(w, j)
    <3>1. Moved(w, [job[w] EXCEPT !.step = "gateway", !.amt = value])
      BY <2>1, <2>2 DEF Moved
    <3> QED
      BY <2>3, <3>1
  <2> QED
    BY <1>0, <1>4, <2>1, <2>3 DEF Quote
<1>5. CASE Abort(w) \/ BreakCircle(w)
  BY <1>0, <1>5 DEF Abort, BreakCircle
<1>6. CASE LockInvoice(w)
  <2>1. Moved(w, [job[w] EXCEPT !.step = "flush"])
    BY <1>6 DEF LockInvoice, Moved, Steps
  <2> QED
    BY <1>6, <2>1 DEF LockInvoice, Go
<1>7. CASE LockRest(w)
  <2>1. Moved(w, [job[w] EXCEPT !.step = "sum"])
    BY <1>7 DEF LockRest, Moved, Steps, Flushed, At
  <2> QED
    BY <1>0, <1>7, <2>1 DEF LockRest, Go
<1> QED
  BY <1>1, <1>2, <1>3, <1>4, <1>5, <1>6, <1>7

\* And it goes on knowing what it needs.
LEMMA MovedTold ==
  ASSUME IInv, Promise, NEW w \in Workers, NEW j, Moved(w, j)
  PROVE  /\ Told(j)
         /\ Grows(j) /\ InFlight(j) => \A v \in Workers \ {w} :
              Grows(job[v]) /\ InFlight(job[v]) => job[v].on # j.on
<1>0. Told(job[w]) /\ job[w] \in Jobs /\ RequestOK(job[w])
  BY DEF Promise, Knows, IInv, TypeOK, LinksOK
<1>1. CASE j = Idle
  BY <1>1, IdleTold
<1>2. ASSUME NEW s \in Steps, j = [job[w] EXCEPT !.step = s],
             \/ At(w, "lookup") /\ s \in {"hold", "flush", "mark"}
             \/ At(w, "lookup") /\ s = "cancel" /\ job[w].op = "switch"
             \/ At(w, "hold") /\ s = "flush"
             \/ Flushed(w) /\ s \in {"sum", "plan", "row", "commit"}
             \/ Flushed(w) /\ s = "quote" /\ job[w].op = "create"
      PROVE  /\ Told(j)
             /\ Grows(j) /\ InFlight(j) => \A v \in Workers \ {w} :
                  Grows(job[v]) /\ InFlight(job[v]) => job[v].on # j.on
  <2>1. /\ j.op = job[w].op /\ j.inv = job[w].inv /\ j.key = job[w].key /\ j.on = job[w].on
        /\ j.amt = job[w].amt /\ j.saw = job[w].saw /\ j.was = job[w].was /\ j.step = s
    BY <1>0, <1>2 DEF Jobs
  <2>2. /\ Books(j) => Books(job[w])
        /\ Grows(j) /\ InFlight(j) => Grows(job[w]) /\ InFlight(job[w])
        /\ j.step = "cancel" => j.op = "switch"
        /\ j.step # "cancel" => job[w].step # "cancel"
    BY <1>2, <2>1 DEF Books, InFlight, Grows, Flushed, At
  <2>3. SettleTold(j)
    BY <1>0, <2>1, <2>2 DEF Told, SettleTold
  <2>4. PlanTold(j)
    BY <1>0, <2>1, <2>2 DEF Told, PlanTold
  <2>5. RefundTold(j)
    BY <1>0, <2>1 DEF Told, RefundTold
  <2> QED
    BY <2>1, <2>2, <2>3, <2>4, <2>5 DEF Told, Promise, PlanOK
<1>3. CASE At(w, "flush") /\ ~Refused(w) /\ WaitsFor(w) = {} /\ j = Locked(w)
  <2>1. /\ j.op = job[w].op /\ j.inv = job[w].inv /\ j.key = job[w].key
        /\ j.on = IF Settling(w) THEN Marks(w) ELSE job[w].on
        /\ j.amt = job[w].amt /\ j.saw = job[w].saw /\ j.was = job[w].was
        /\ j.step \in {"rest", "sum", "commit"}
    <3>1. Settling(w) => Marks(w) \in Installments \cup {Balance, Public}
      BY <1>0 DEF Marks, Settling, RequestOK, IInv, TypeOK, InvoiceRows
    <3> QED
      BY <1>0, <1>3, <3>1, LockedJob
  <2>2. job[w].step = "flush"
    BY <1>3 DEF At
  <2>3. SettleTold(j)
    <3>1. ASSUME Settling(w)
          PROVE  /\ (j.on = Public) <=> (invoice[j.inv].on = Public)
                 /\ j.on \in Installments => Laid(j.on)
                 /\ IF j.on \in Installments THEN invoice[j.inv].on \in {j.on, Balance}
                    ELSE invoice[j.inv].on \in Installments => Closed(invoice[j.inv].on)
      <4>1. j.inv \in Invoices /\ j.on = Marks(w)
        BY <1>0, <2>1, <3>1 DEF RequestOK, Settling
      <4>2. invoice[j.inv].on \in Installments =>
              installment[invoice[j.inv].on].status \notin {"absent", "deleted"}
        BY <4>1 DEF Promise, PlanOK
      <4> DEFINE n == invoice[job[w].inv].on
      <4>3. Balance \notin Installments /\ Public \notin Installments /\ Balance # Public
        BY BoundsAssumption DEF Installments, Balance, Public
      <4>4. invoice[j.inv].on = n
        BY <2>1
      <4>5. CASE n \in Installments /\ installment[n].status \in {"absent", "deleted", "paid"}
        BY <4>1, <4>2, <4>3, <4>4, <4>5 DEF Marks, Closed
      <4>6. CASE ~(n \in Installments /\ installment[n].status \in {"absent", "deleted", "paid"})
        BY <4>1, <4>2, <4>3, <4>4, <4>6 DEF Marks, Laid
      <4> QED
        BY <4>5, <4>6
    <3> QED
      BY <1>0, <2>1, <2>2, <3>1 DEF Told, SettleTold, Settling, Books
  <2>4. PlanTold(j)
    <3>1. Grows(j) => ~Laid(j.on) /\ ~Settling(w)
      BY <1>3, <2>1 DEF Grows, Refused, Laid, Settling, SettleOps
    <3>2. ~Settling(w) => j.on = job[w].on
      BY <2>1
    <3>3. Settling(w) => j.op \in SettleOps
      BY <2>1 DEF Settling
    <3> QED
      BY <1>0, <2>1, <3>1, <3>2, <3>3 DEF Told, PlanTold, SettleOps, Grows
  <2>5. RefundTold(j)
    BY <1>0, <2>1 DEF Told, RefundTold, Settling, SettleOps
  <2>6. ASSUME Grows(j), NEW v \in Workers \ {w}, Grows(job[v]), InFlight(job[v])
        PROVE  job[v].on # j.on
    <3>0. 1 \in Installments
      BY BoundsAssumption DEF Installments
    <3>1. job[w].on \in Installments /\ job[v].on \in Installments /\ j.on = job[w].on
      <4>1. Told(job[v])
        BY DEF Promise, Knows
      <4> QED
        BY <1>0, <2>1, <2>6, <3>0, <4>1 DEF Told, PlanTold, Grows, Settling, SettleOps
    <3>2. WritesInstallment(w) /\ WritesInstallment(v) /\ Flushed(v)
      BY <2>1, <2>6, <3>1 DEF WritesInstallment, Grows, EditOps, InFlight, Flushed
    <3> QED
      BY <1>3, <2>1, <2>6, <3>1, <3>2 DEF WaitsFor, HoldsInstallment, Settling, SettleOps, Grows
  <2> QED
    BY <2>3, <2>4, <2>5, <2>6 DEF Told
<1>4. ASSUME At(w, "quote"), job[w].op \in CreateOps, NEW value \in Figures,
             j = [job[w] EXCEPT !.step = "gateway", !.amt = value]
      PROVE  /\ Told(j)
             /\ Grows(j) /\ InFlight(j) => \A v \in Workers \ {w} :
                  Grows(job[v]) /\ InFlight(job[v]) => job[v].on # j.on
  <2>1. j.op = job[w].op /\ j.on = job[w].on /\ j.step = "gateway"
    BY <1>0, <1>4 DEF Jobs
  <2>2. j.op \notin SettleOps /\ j.op # "refund" /\ ~Books(j) /\ ~InFlight(j)
    BY <1>4, <2>1 DEF CreateOps, SettleOps, Books, InFlight
  <2>3. SettleTold(j) /\ RefundTold(j)
    BY <2>1, <2>2 DEF SettleTold, RefundTold, SettleOps
  <2>4. PlanTold(j)
    BY <1>0, <2>1, <2>2 DEF Told, PlanTold
  <2> QED
    BY <2>2, <2>3, <2>4 DEF Told
<1> QED
  BY <1>1, <1>2, <1>3, <1>4 DEF Moved

\* A step that touches no table keeps the promise, whatever request w becomes.
LEMMA QuietPromise ==
  ASSUME IInv, Promise, NEW w \in Workers, NEW j, Told(j),
         UNCHANGED <<tables, gateway>>, job' = [job EXCEPT ![w] = j],
         Grows(j) /\ InFlight(j) => \A v \in Workers \ {w} :
           Grows(job[v]) /\ InFlight(job[v]) => job[v].on # j.on
  PROVE  Promise'
<1>0. UNCHANGED <<invoice, payment, installment, collected, credit>>
  BY DEF tables, gateway
<1>1. \A v \in Workers : job'[v] = IF v = w THEN j ELSE job[v]
  BY DEF IInv, TypeOK
<1>2. \A v \in Workers : Told(job'[v])
  BY <1>1 DEF Promise, Knows
<1>3. Knows'
  BY <1>0, <1>2 DEF Knows, Told, SettleTold, PlanTold, RefundTold, Laid, Closed
<1>4. PlanOK'
  BY <1>0, <1>1 DEF Promise, PlanOK, Laid
<1>5. PaymentsOK' /\ FullPaymentSettles'
  BY <1>0 DEF Promise, PaymentsOK, FullPaymentSettles, Recorded, Full
<1> QED
  BY <1>3, <1>4, <1>5 DEF Promise

-----------------------------------------------------------------------------
(* Steps that write.                                                       *)

\* The default plan is laid from its first installment on.
LEMMA DefaultPlanOrder ==
  \A n \in Installments : DefaultPlan[n].status # "absent" =>
    \A m \in 1..(n - 1) : m \in Installments /\ DefaultPlan[m].status # "absent"
BY BoundsAssumption DEF DefaultPlan, Installments

\* What a commit makes of the plan: what is laid stays, what is closed stays so
\* or no invoice points at it any more, and only a request that lays installments
\* lays one.
LEMMA CommitPlan ==
  ASSUME IInv, Promise, NEW w \in Workers, At(w, "commit")
  PROVE  /\ \A n \in Installments : Laid(n) => InstallmentsSeen(w)[n].status # "absent"
         /\ \A n \in Installments : Closed(n) =>
              \/ InstallmentsSeen(w)[n].status \in {"paid", "waived"}
              \/ job[w].op = "delete" /\ n = job[w].on
         /\ \A n \in Installments : ~Laid(n) /\ InstallmentsSeen(w)[n].status # "absent" =>
              Grows(job[w]) /\ (n = job[w].on \/ job[w].op = "plan")
         /\ \A n \in Installments :
              Laid(n) /\ installment[n].status # "deleted" =>
                \/ InstallmentsSeen(w)[n].status # "deleted"
                \/ job[w].op = "delete" /\ n = job[w].on
         /\ \A n \in Installments : InstallmentsSeen(w)[n].status # "absent" =>
              \A m \in 1..(n - 1) : InstallmentsSeen(w)[m].status # "absent"
<1>0. /\ Told(job[w]) /\ job[w] \in Jobs /\ job[w].step = "commit"
      /\ installment \in [Installments -> InstallmentRows]
      /\ InstallmentsSeen(w) \in [Installments -> InstallmentRows]
  BY SeenType DEF Promise, Knows, IInv, TypeOK, At
<1>a. \A n \in Installments : \A m \in 1..(n - 1) : m \in Installments
  BY BoundsAssumption DEF Installments
<1>1. CASE ~WritesInstallment(w)
  <2>1. InstallmentsSeen(w) = installment
    BY <1>1 DEF InstallmentsSeen
  <2> QED
    BY <2>1 DEF Laid, Closed, Promise, PlanOK
<1>2. CASE job[w].op = "plan"
  <2>1. \A n \in Installments : ~Laid(n)
    <3>1. job[w].on = 1 /\ ~Laid(1)
      BY <1>0, <1>2 DEF Told, PlanTold, Grows, InFlight
    <3>2. \A n \in Installments : n # 1 => 1 \in 1..(n - 1)
      BY BoundsAssumption DEF Installments
    <3> QED
      BY <3>1, <3>2 DEF Promise, PlanOK
  <2>2. WritesInstallment(w) => InstallmentsSeen(w) = DefaultPlan
    BY <1>2 DEF InstallmentsSeen
  <2> QED
    BY <1>1, <1>2, <2>1, <2>2, DefaultPlanOrder DEF Closed, Laid, Grows
<1>3. CASE WritesInstallment(w) /\ job[w].op # "plan"
  <2> DEFINE n == job[w].on
             row == InstallmentAfter(installment[n], w)
  <2>1. n \in Installments
    BY <1>3 DEF WritesInstallment
  <2>2. \A m \in Installments :
          InstallmentsSeen(w)[m] = IF m = n THEN row ELSE installment[m]
    BY <1>0, <1>3, <2>1 DEF InstallmentsSeen
  <2>3. installment[n] \in InstallmentRows
    BY <1>0, <2>1
  <2>4. Settling(w) \/ job[w].op \in {"waive", "delete", "update", "add"}
    BY <1>3 DEF WritesInstallment, EditOps
  <2>5. /\ row.status # "absent"
        /\ Closed(n) => row.status \in {"paid", "waived"} \/ job[w].op \in {"delete", "add"}
        /\ row.status = "deleted" => installment[n].status = "deleted" \/ job[w].op = "delete"
    <3>1. CASE Settling(w)
      BY <2>3, <3>1 DEF InstallmentAfter, InstallmentRows, Settling, SettleOps
    <3>2. CASE ~Settling(w) /\ job[w].op = "waive"
      BY <2>3, <3>2 DEF InstallmentAfter, InstallmentRows
    <3>3. CASE ~Settling(w) /\ job[w].op = "delete"
      BY <2>3, <3>3 DEF InstallmentAfter, InstallmentRows
    <3>4. CASE ~Settling(w) /\ job[w].op = "update"
      <4>1. Laid(n)
        BY <1>0, <3>4 DEF Told, PlanTold
      <4>2. row.status = installment[n].status
        BY <2>3, <3>4 DEF InstallmentAfter, InstallmentRows
      <4> QED
        BY <4>1, <4>2 DEF Laid, Closed
    <3>5. CASE ~Settling(w) /\ job[w].op = "add"
      BY <2>3, <3>5 DEF InstallmentAfter, InstallmentRows
    <3> QED
      BY <2>4, <3>1, <3>2, <3>3, <3>4, <3>5
  <2>6. /\ job[w].op = "add" => ~Laid(n) /\ Grows(job[w]) /\ \A m \in 1..(n - 1) : Laid(m)
        /\ job[w].op # "add" => Laid(n)
    BY <1>0, <2>1, <2>4 DEF Told, PlanTold, SettleTold, Grows, InFlight, Books, Settling, SettleOps
  <2> HIDE DEF n, row
  <2>7. \A m \in Installments : Laid(m) => InstallmentsSeen(w)[m].status # "absent"
    BY <2>2, <2>5 DEF Laid
  <2>8. \A m \in Installments : Closed(m) =>
          \/ InstallmentsSeen(w)[m].status \in {"paid", "waived"}
          \/ job[w].op = "delete" /\ m = job[w].on
    BY <2>2, <2>5, <2>6 DEF Closed, Laid, n
  <2>9. \A m \in Installments : ~Laid(m) /\ InstallmentsSeen(w)[m].status # "absent" =>
          Grows(job[w]) /\ m = job[w].on
    BY <2>2, <2>6 DEF Laid, n
  <2>10. \A m \in Installments : Laid(m) /\ installment[m].status # "deleted" =>
           \/ InstallmentsSeen(w)[m].status # "deleted"
           \/ job[w].op = "delete" /\ m = job[w].on
    BY <2>2, <2>5 DEF n
  <2>11. \A m \in Installments : InstallmentsSeen(w)[m].status # "absent" =>
           \A l \in 1..(m - 1) : InstallmentsSeen(w)[l].status # "absent"
    <3> SUFFICES ASSUME NEW m \in Installments, InstallmentsSeen(w)[m].status # "absent",
                        NEW l \in 1..(m - 1)
                 PROVE  InstallmentsSeen(w)[l].status # "absent"
      OBVIOUS
    <3>1. l \in Installments
      BY <1>a
    <3>2. Laid(l)
      <4>1. CASE Laid(m)
        BY <4>1 DEF Promise, PlanOK
      <4>2. CASE ~Laid(m)
        BY <2>2, <2>6, <4>2 DEF Laid
      <4> QED
        BY <4>1, <4>2
    <3> QED
      BY <2>7, <3>1, <3>2
  <2> QED
    BY <2>7, <2>8, <2>9, <2>10, <2>11
<1> QED
  BY <1>1, <1>2, <1>3

\* What it makes of the invoices: none is retired or changes sides, none stops
\* being paid, and only a deleted installment is no longer billed.
LEMMA CommitInvoices ==
  ASSUME IInv, Promise, NEW w \in Workers, At(w, "commit")
  PROVE  \A i \in Invoices :
           /\ invoice[i].status = "paid" => InvoicesSeen(w)[i].status = "paid"
           /\ InvoicesSeen(w)[i].status = "absent" => invoice[i].status = "absent"
           /\ (InvoicesSeen(w)[i].on = Public) <=> (invoice[i].on = Public)
           /\ InvoicesSeen(w)[i].on \in {invoice[i].on, Balance}
           /\ job[w].op = "delete" => InvoicesSeen(w)[i].on # job[w].on
           /\ WritesInvoice(w) /\ i = job[w].inv => InvoicesSeen(w)[i].status = "paid"
           /\ WritesInvoice(w) \/ job[w].op # "delete" => InvoicesSeen(w)[i].on = invoice[i].on
<1> SUFFICES ASSUME NEW i \in Invoices
             PROVE  /\ invoice[i].status = "paid" => InvoicesSeen(w)[i].status = "paid"
                    /\ InvoicesSeen(w)[i].status = "absent" => invoice[i].status = "absent"
                    /\ (InvoicesSeen(w)[i].on = Public) <=> (invoice[i].on = Public)
                    /\ InvoicesSeen(w)[i].on \in {invoice[i].on, Balance}
                    /\ job[w].op = "delete" => InvoicesSeen(w)[i].on # job[w].on
                    /\ WritesInvoice(w) /\ i = job[w].inv => InvoicesSeen(w)[i].status = "paid"
                    /\ WritesInvoice(w) \/ job[w].op # "delete" =>
                         InvoicesSeen(w)[i].on = invoice[i].on
  OBVIOUS
<1>1. Balance \notin Installments /\ Public \notin Installments /\ Balance # Public
  BY BoundsAssumption DEF Installments, Balance, Public
<1>2. job[w].op = "delete" => job[w].on \in Installments /\ ~WritesInvoice(w)
  BY DEF Promise, Knows, Told, PlanTold, WritesInvoice, Settling, SettleOps
<1>3. invoice[i] \in InvoiceRows /\ invoice \in [Invoices -> InvoiceRows]
  BY DEF IInv, TypeOK
<1>4. CASE WritesInvoice(w)
  <2>1. InvoicesSeen(w)[i] = IF i = job[w].inv THEN [invoice[i] EXCEPT !.status = "paid"]
                             ELSE invoice[i]
    BY <1>3, <1>4 DEF InvoicesSeen
  <2> QED
    BY <1>2, <1>3, <1>4, <2>1 DEF InvoiceRows
<1>5. CASE ~WritesInvoice(w) /\ job[w].op = "delete"
  <2>1. InvoicesSeen(w)[i] = IF invoice[i].on = job[w].on
                             THEN [invoice[i] EXCEPT !.on = Balance] ELSE invoice[i]
    BY <1>5 DEF InvoicesSeen
  <2> QED
    BY <1>1, <1>2, <1>3, <1>5, <2>1 DEF InvoiceRows
<1>6. CASE ~WritesInvoice(w) /\ job[w].op # "delete"
  BY <1>6 DEF InvoicesSeen
<1> QED
  BY <1>4, <1>5, <1>6

\* And of the payments: a refund keeps within its payment, and a status that says
\* money went back is never taken back.
LEMMA CommitPayments ==
  ASSUME IInv, Promise, NEW w \in Workers, At(w, "commit")
  PROVE  \A k \in Keys :
           /\ Recorded(k) /\ payment[k].status # "paid" =>
                PaymentsSeen(w)[k].status \notin {"absent", "paid"}
           /\ PaymentsSeen(w)[k].status \in {"absent", "paid"} => PaymentsSeen(w)[k].refunded = 0
           /\ PaymentsSeen(w)[k].status # "absent" =>
                /\ PaymentsSeen(w)[k].refunded <= PaymentsSeen(w)[k].amount
                /\ PaymentsSeen(w)[k].refunded = PaymentsSeen(w)[k].amount
                     /\ PaymentsSeen(w)[k].refunded > 0 =>
                     PaymentsSeen(w)[k].status = "refunded"
<1> SUFFICES ASSUME NEW k \in Keys
             PROVE  /\ Recorded(k) /\ payment[k].status # "paid" =>
                         PaymentsSeen(w)[k].status \notin {"absent", "paid"}
                    /\ PaymentsSeen(w)[k].status \in {"absent", "paid"} =>
                         PaymentsSeen(w)[k].refunded = 0
                    /\ PaymentsSeen(w)[k].status # "absent" =>
                         /\ PaymentsSeen(w)[k].refunded <= PaymentsSeen(w)[k].amount
                         /\ PaymentsSeen(w)[k].refunded = PaymentsSeen(w)[k].amount
                              /\ PaymentsSeen(w)[k].refunded > 0 =>
                              PaymentsSeen(w)[k].status = "refunded"
  OBVIOUS
<1>0. /\ Told(job[w]) /\ RequestOK(job[w]) /\ job[w] \in Jobs /\ job[w].step = "commit"
      /\ payment \in [Keys -> PaymentRows] /\ payment[k] \in PaymentRows
  BY DEF Promise, Knows, IInv, TypeOK, LinksOK, At
<1>1. /\ payment[k].status \in {"absent", "paid"} => payment[k].refunded = 0
      /\ Recorded(k) => /\ payment[k].refunded <= payment[k].amount
                        /\ payment[k].refunded = payment[k].amount /\ payment[k].refunded > 0 =>
                             payment[k].status = "refunded"
  BY DEF Promise, PaymentsOK, FullPaymentSettles
<1>2. CASE PaymentsSeen(w)[k] = payment[k]
  BY <1>1, <1>2 DEF Recorded
<1>3. CASE Settling(w) /\ k = job[w].key
  <2>1. PaymentsSeen(w)[k] = [status |-> "paid", inv |-> job[w].inv, amount |-> job[w].amt,
                              refunded |-> 0]
    BY <1>0, <1>3 DEF PaymentsSeen
  <2>2. ~Recorded(k)
    BY <1>0, <1>3 DEF IInv, LocksOK, Books, Settling
  <2>3. job[w].amt \in Nat
    BY <1>0 DEF Jobs
  <2> QED
    BY <2>1, <2>2, <2>3
<1>4. CASE job[w].op = "refund" /\ k = job[w].key
  <2> DEFINE j == job[w]
             row == payment[k]
  <2>1. PaymentsSeen(w)[k] = AfterRefund(row, j)
    BY <1>0, <1>4 DEF PaymentsSeen, Settling, SettleOps
  <2>2. /\ j.saw \in {"paid", "partially_refunded"} /\ j.amt \in Nat /\ j.was \in Nat
        /\ j.amt > 0 /\ j.amt <= row.amount
        /\ j.saw = "paid" => j.was = 0
        /\ j.saw # "paid" => row.status # "paid"
        /\ Recorded(k)
    BY <1>0, <1>4 DEF Told, RefundTold, RequestOK, Jobs
  <2>3. /\ AfterRefund(row, j).amount = row.amount
        /\ AfterRefund(row, j).refunded = IF j.amt = j.was THEN row.refunded ELSE j.amt
        /\ AfterRefund(row, j).status =
             IF j.amt >= row.amount THEN "refunded"
             ELSE IF j.saw = "partially_refunded" THEN row.status ELSE "partially_refunded"
    BY <1>0, <2>2 DEF AfterRefund, PaymentRows
  <2>4. row.status # "absent" /\ row.amount \in Nat /\ row.refunded \in Nat
    BY <1>0, <2>2 DEF Recorded, PaymentRows
  <2> HIDE DEF j, row
  <2>5. AfterRefund(row, j).status \notin {"absent", "paid"}
    BY <2>2, <2>3, <2>4
  <2>6. AfterRefund(row, j).refunded <= row.amount
    BY <1>1, <2>2, <2>3, <2>4 DEF row
  <2>7. AfterRefund(row, j).refunded = row.amount => AfterRefund(row, j).status = "refunded"
    <3>1. CASE j.amt >= row.amount
      BY <2>3, <3>1
    <3>2. CASE ~(j.amt >= row.amount)
      <4>1. SUFFICES ASSUME AfterRefund(row, j).refunded = row.amount
                     PROVE  AfterRefund(row, j).status = "refunded"
        OBVIOUS
      <4>2. j.amt = j.was /\ row.refunded = row.amount
        BY <2>2, <2>3, <2>4, <3>2, <4>1
      <4>3. j.saw = "partially_refunded"
        BY <2>2, <4>2
      <4>4. row.refunded > 0
        BY <2>2, <2>4, <4>2
      <4>5. row.status = "refunded"
        BY <1>1, <2>2, <4>2, <4>4 DEF row
      <4> QED
        BY <2>3, <3>2, <4>3, <4>5
    <3> QED
      BY <3>1, <3>2
  <2> QED
    BY <2>1, <2>3, <2>5, <2>6, <2>7
<1>5. CASE k # job[w].key \/ (~Settling(w) /\ job[w].op # "refund")
  BY <1>0, <1>2, <1>5 DEF PaymentsSeen
<1> QED
  BY <1>3, <1>4, <1>5

\* A full settlement closes the installment it holds.
LEMMA CommitCloses ==
  ASSUME IInv, NEW w \in Workers, Settling(w), WritesInstallment(w)
  PROVE  InstallmentsSeen(w)[job[w].on].status = "paid"
<1>1. job[w].on \in Installments /\ installment \in [Installments -> InstallmentRows]
  BY DEF WritesInstallment, IInv, TypeOK
<1>2. InstallmentsSeen(w)[job[w].on] = InstallmentAfter(installment[job[w].on], w)
  BY <1>1 DEF InstallmentsSeen, Settling, SettleOps
<1>3. installment[job[w].on] \in InstallmentRows
  BY <1>1
<1> QED
  BY <1>2, <1>3 DEF InstallmentAfter, InstallmentRows, Settling, SettleOps

\* A request that stands by goes on knowing what it knew, if invoices keep their
\* amounts and sides, what is laid or closed stays so, and payments stand.
LEMMA ToldStands ==
  ASSUME IInv, Promise, NEW v \in Workers, job'[v] = job[v],
         \A i \in Invoices : invoice[i].status # "absent" =>
           /\ invoice'[i].amount = invoice[i].amount
           /\ (invoice'[i].on = Public) <=> (invoice[i].on = Public)
           /\ invoice'[i].on \in {invoice[i].on, Balance}
           /\ invoice[i].status = "paid" /\ invoice[i].on # Public => invoice'[i].status = "paid",
         \A n \in Installments : Laid(n) => installment'[n].status # "absent",
         \A n \in Installments : Closed(n) =>
           \/ installment'[n].status \in {"paid", "waived"}
           \/ \A i \in Invoices : invoice[i].status # "absent" => invoice'[i].on # n,
         \A k \in Keys : Recorded(k) =>
           /\ payment'[k].inv = payment[k].inv /\ payment'[k].amount = payment[k].amount
           /\ payment[k].status # "paid" => payment'[k].status # "paid",
         Grows(job[v]) /\ InFlight(job[v]) => installment'[job[v].on].status = "absent"
  PROVE  Told(job[v])'
<1>0. Told(job[v]) /\ RequestOK(job[v]) /\ job[v] \in Jobs
  BY DEF Promise, Knows, IInv, LinksOK, TypeOK
<1>a. \A n \in Installments : \A m \in 1..(n - 1) : m \in Installments
  BY BoundsAssumption DEF Installments
<1>b. Balance \notin Installments
  BY BoundsAssumption DEF Installments, Balance
<1>1. SettleTold(job[v])'
  <2>1. CASE job[v].op \notin SettleOps
    BY <1>0, <2>1 DEF Told, SettleTold, Books, SettleOps
  <2>2. CASE job[v].op \in SettleOps
    <3> DEFINE i == job[v].inv
    <3>1. i \in Invoices /\ invoice[i].status # "absent"
      BY <1>0, <2>2 DEF RequestOK
    <3>2. ASSUME invoice'[i].on \in Installments, invoice[i].on \in Installments => Closed(invoice[i].on)
          PROVE  installment'[invoice'[i].on].status \in {"paid", "waived"}
      BY <1>b, <3>1, <3>2
    <3>3. Books(job[v]) /\ job[v].amt >= invoice'[i].amount =>
            IF job[v].on \in Installments THEN invoice'[i].on \in {job[v].on, Balance}
            ELSE invoice'[i].on \in Installments =>
                   installment'[invoice'[i].on].status \in {"paid", "waived"}
      BY <1>0, <3>1, <3>2 DEF Told, SettleTold
    <3> QED
      BY <1>0, <3>1, <3>3 DEF Told, SettleTold, Laid, Closed, Books
  <2> QED
    BY <2>1, <2>2
<1>2. PlanTold(job[v])'
  BY <1>0, <1>a DEF Told, PlanTold, Laid, Grows, InFlight
<1>3. RefundTold(job[v])'
  <2>1. CASE job[v].op # "refund"
    BY <2>1 DEF RefundTold
  <2>2. CASE job[v].op = "refund"
    <3>1. job[v].key \in Keys /\ Recorded(job[v].key)
      BY <1>0, <2>2 DEF RequestOK
    <3>2. payment[job[v].key].inv \in Invoices /\ invoice[payment[job[v].key].inv].status # "absent"
      BY <3>1 DEF IInv, LinksOK, Promise, PaymentsOK
    <3> QED
      BY <1>0, <2>2, <3>1, <3>2 DEF Told, RefundTold
  <2> QED
    BY <2>1, <2>2
<1> QED
  BY <1>1, <1>2, <1>3 DEF Told

\* A commit keeps the promise.
LEMMA CommitPromise ==
  ASSUME IInv, IInv', Promise, NEW w \in Workers, At(w, "commit"),
         payment' = PaymentsSeen(w), invoice' = InvoicesSeen(w),
         installment' = InstallmentsSeen(w), UNCHANGED <<mix, collected, credit>>,
         NEW j, job' = [job EXCEPT ![w] = j],
         \/ j = Idle
         \/ job[w].op = "switch" /\ j = [job[w] EXCEPT !.step = "cancel"]
  PROVE  Promise'
<1>0. /\ Told(job[w]) /\ RequestOK(job[w]) /\ job[w] \in Jobs /\ job[w].step = "commit"
      /\ \A v \in Workers : job'[v] = IF v = w THEN j ELSE job[v]
  BY DEF Promise, Knows, IInv, LinksOK, TypeOK, At
<1>1. \A i \in Invoices :
        /\ invoice[i].status = "paid" => invoice'[i].status = "paid"
        /\ invoice'[i].status = "absent" => invoice[i].status = "absent"
        /\ (invoice'[i].on = Public) <=> (invoice[i].on = Public)
        /\ invoice'[i].on \in {invoice[i].on, Balance}
        /\ job[w].op = "delete" => invoice'[i].on # job[w].on
        /\ WritesInvoice(w) /\ i = job[w].inv => invoice'[i].status = "paid"
        /\ WritesInvoice(w) \/ job[w].op # "delete" => invoice'[i].on = invoice[i].on
  BY CommitInvoices
<1>2. \A i \in Invoices : invoice[i].status # "absent" =>
        invoice'[i].status # "absent" /\ invoice'[i].amount = invoice[i].amount
  BY CommitWrites
<1>3. /\ \A n \in Installments : Laid(n) => installment'[n].status # "absent"
      /\ \A n \in Installments : Closed(n) =>
           \/ installment'[n].status \in {"paid", "waived"}
           \/ job[w].op = "delete" /\ n = job[w].on
      /\ \A n \in Installments : ~Laid(n) /\ installment'[n].status # "absent" =>
           Grows(job[w]) /\ (n = job[w].on \/ job[w].op = "plan")
      /\ \A n \in Installments :
           Laid(n) /\ installment[n].status # "deleted" =>
             \/ installment'[n].status # "deleted"
             \/ job[w].op = "delete" /\ n = job[w].on
      /\ \A n \in Installments : installment'[n].status # "absent" =>
           \A m \in 1..(n - 1) : installment'[m].status # "absent"
  BY CommitPlan
<1>4. \A k \in Keys :
        /\ Recorded(k) /\ payment[k].status # "paid" => payment'[k].status \notin {"absent", "paid"}
        /\ payment'[k].status \in {"absent", "paid"} => payment'[k].refunded = 0
        /\ payment'[k].status # "absent" =>
             /\ payment'[k].refunded <= payment'[k].amount
             /\ payment'[k].refunded = payment'[k].amount /\ payment'[k].refunded > 0 =>
                  payment'[k].status = "refunded"
  BY CommitPayments
<1>5. /\ \A k \in Keys : Recorded(k) =>
           /\ payment'[k].status # "absent"
           /\ payment'[k].inv = payment[k].inv /\ payment'[k].amount = payment[k].amount
      /\ \A k \in Keys : ~Recorded(k) /\ payment'[k].status # "absent" =>
           /\ Books(job[w]) /\ k = job[w].key
           /\ payment'[k].inv = job[w].inv /\ payment'[k].amount = job[w].amt
  BY CommitWrites
<1>6. \A n \in Installments : Closed(n) =>
        \/ installment'[n].status \in {"paid", "waived"}
        \/ \A i \in Invoices : invoice'[i].on # n
  BY <1>1, <1>3
<1>7. ASSUME NEW v \in Workers \ {w}, Grows(job[v]), InFlight(job[v])
      PROVE  installment'[job[v].on].status = "absent"
  <2>0. 1 \in Installments
    BY BoundsAssumption DEF Installments
  <2>1. /\ job[v].on \in Installments /\ ~Laid(job[v].on)
        /\ job[v].op = "plan" => job[v].on = 1
        /\ job[v].op = "add" => \A m \in 1..(job[v].on - 1) : Laid(m)
    BY <1>7, <2>0 DEF Promise, Knows, Told, PlanTold, Grows
  <2>2. ASSUME Grows(job[w]) PROVE job[v].on # job[w].on
    BY <1>0, <1>7, <2>2 DEF Promise, PlanOK, InFlight
  <2>3. ASSUME job[w].op = "plan" PROVE installment'[job[v].on].status = "absent"
    <3>1. job[w].on = 1 /\ ~Laid(1)
      BY <1>0, <2>3 DEF Told, PlanTold, Grows, InFlight
    <3>2. job[v].on # 1
      BY <2>2, <2>3, <3>1 DEF Grows
    <3>3. job[v].op = "add" /\ 1 \in 1..(job[v].on - 1)
      BY <1>7, <2>1, <3>2, BoundsAssumption DEF Grows, Installments
    <3> QED
      BY <2>1, <3>1, <3>3
  <2> QED
    BY <1>3, <2>1, <2>2, <2>3
<1>8. ASSUME NEW v \in Workers \ {w} PROVE Told(job[v])'
  <2>1. Grows(job[v]) /\ InFlight(job[v]) => installment'[job[v].on].status = "absent"
    BY <1>7
  <2>2. job'[v] = job[v]
    BY <1>0
  <2>3. \A i \in Invoices : invoice[i].status # "absent" =>
           /\ invoice'[i].amount = invoice[i].amount
           /\ (invoice'[i].on = Public) <=> (invoice[i].on = Public)
           /\ invoice'[i].on \in {invoice[i].on, Balance}
           /\ invoice[i].status = "paid" /\ invoice[i].on # Public => invoice'[i].status = "paid"
    BY <1>1, <1>2
  <2>4. \A k \in Keys : Recorded(k) =>
           /\ payment'[k].inv = payment[k].inv /\ payment'[k].amount = payment[k].amount
           /\ payment[k].status # "paid" => payment'[k].status # "paid"
    BY <1>4, <1>5
  <2>5. \A n \in Installments : Laid(n) => installment'[n].status # "absent"
    BY <1>3
  <2>6. \A n \in Installments : Closed(n) =>
           \/ installment'[n].status \in {"paid", "waived"}
           \/ \A i \in Invoices : invoice[i].status # "absent" => invoice'[i].on # n
    BY <1>6
  <2> QED
    BY <2>1, <2>2, <2>3, <2>4, <2>5, <2>6, ToldStands
<1>9. Told(job[w])' /\ ~InFlight(job[w])'
  <2>1. job'[w] = j
    BY <1>0
  <2>2. CASE j = Idle
    BY <2>1, <2>2 DEF Told, SettleTold, PlanTold, RefundTold, Idle, Books, SettleOps, InFlight, Grows
  <2>3. CASE job[w].op = "switch" /\ j = [job[w] EXCEPT !.step = "cancel"]
    <3>1. /\ j.op = "switch" /\ j.step = "cancel" /\ j.inv = job[w].inv
      BY <1>0, <2>3 DEF Jobs
    <3>2. j.inv \in Invoices /\ invoice[j.inv].on = Public
      BY <1>0, <2>3, <3>1 DEF RequestOK, SettleOps, Told, SettleTold
    <3>3. invoice'[j.inv].on = Public
      BY <1>1, <3>2
    <3> QED
      BY <2>1, <3>1, <3>3
         DEF Told, SettleTold, PlanTold, RefundTold, Books, SettleOps, InFlight, Grows
  <2> QED
    BY <2>2, <2>3
<1>10. Knows'
  BY <1>8, <1>9 DEF Knows
<1>11. PlanOK'
  <2>1. \A v \in Workers, u \in Workers :
          v # u /\ Grows(job'[v]) /\ InFlight(job'[v]) /\ Grows(job'[u]) /\ InFlight(job'[u])
            => job'[v].on # job'[u].on
    BY <1>0, <1>9 DEF Promise, PlanOK, InFlight
  <2>2. \A i \in Invoices : invoice'[i].on \in Installments =>
          installment'[invoice'[i].on].status \notin {"absent", "deleted"}
    <3> SUFFICES ASSUME NEW i \in Invoices, invoice'[i].on \in Installments
                 PROVE  installment'[invoice'[i].on].status \notin {"absent", "deleted"}
      OBVIOUS
    <3>1. Balance \notin Installments
      BY BoundsAssumption DEF Installments, Balance
    <3>2. invoice'[i].on = invoice[i].on
      BY <1>1, <3>1
    <3>3. installment[invoice[i].on].status \notin {"absent", "deleted"}
      BY <3>2 DEF Promise, PlanOK
    <3> QED
      BY <1>1, <1>3, <3>2, <3>3 DEF Laid
  <2> QED
    BY <1>3, <2>1, <2>2 DEF PlanOK, Laid, Grows, InFlight
<1>12. PaymentsOK'
  BY <1>4 DEF PaymentsOK
<1>13. FullPaymentSettles'
  <2> SUFFICES ASSUME NEW k \in Keys, payment'[k].status # "absent",
                      payment'[k].amount >= invoice'[payment'[k].inv].amount,
                      invoice'[payment'[k].inv].on # Public
               PROVE  /\ invoice'[payment'[k].inv].status = "paid"
                      /\ invoice'[payment'[k].inv].on \in Installments =>
                           installment'[invoice'[payment'[k].inv].on].status \in {"paid", "waived"}
    BY <1>4 DEF FullPaymentSettles, Recorded, Full
  <2>0. Balance \notin Installments
    BY BoundsAssumption DEF Installments, Balance
  <2>1. CASE Recorded(k)
    <3> DEFINE i == payment[k].inv
    <3>1. i \in Invoices /\ payment'[k].inv = i /\ invoice[i].status # "absent"
      BY <1>5, <2>1 DEF IInv, LinksOK, Promise, PaymentsOK
    <3>2. Full(k) /\ invoice[i].on # Public
      BY <1>1, <1>2, <1>5, <2>1, <3>1 DEF Full
    <3>3. /\ invoice[i].status = "paid"
          /\ invoice[i].on \in Installments => Closed(invoice[i].on)
      BY <2>1, <3>2 DEF Promise, FullPaymentSettles, Closed
    <3>4. invoice'[i].on \in Installments => invoice'[i].on = invoice[i].on
      BY <1>1, <2>0, <3>1
    <3> QED
      BY <1>1, <1>6, <3>1, <3>3, <3>4
  <2>2. CASE ~Recorded(k)
    <3> DEFINE i == job[w].inv
    <3>1. /\ Books(job[w]) /\ payment'[k].inv = i /\ payment'[k].amount = job[w].amt
          /\ i \in Invoices /\ invoice[i].status # "absent" /\ Settling(w)
      BY <1>0, <1>5, <2>2 DEF RequestOK, Books, Settling
    <3>2. /\ job[w].amt >= invoice[i].amount /\ ~Short(w) /\ invoice[i].on # Public
          /\ job[w].op # "delete"
      <4>1. invoice[i].amount \in Nat /\ job[w].amt \in Nat
        BY <1>0, <3>1 DEF IInv, TypeOK, Jobs, InvoiceRows
      <4> QED
        BY <1>1, <1>2, <3>1, <4>1 DEF Short, Settling, SettleOps
    <3>3. invoice'[i].status = "paid"
      <4>1. CASE job[w].saw = "paid"
        BY <1>0, <1>1, <3>1, <3>2, <4>1 DEF Told, SettleTold, Settling, SettleOps
      <4>2. CASE job[w].saw # "paid"
        BY <1>1, <3>1, <3>2, <4>2 DEF WritesInvoice
      <4> QED
        BY <4>1, <4>2
    <3>4. invoice'[i].on = invoice[i].on
      BY <1>1, <3>1, <3>2
    <3>5. ASSUME invoice[i].on \in Installments
          PROVE  installment'[invoice[i].on].status \in {"paid", "waived"}
      <4>1. CASE job[w].on \in Installments
        <5>1. invoice[i].on = job[w].on
          BY <1>0, <2>0, <3>1, <3>2, <3>5, <4>1 DEF Told, SettleTold
        <5>2. WritesInstallment(w)
          BY <3>1, <3>2, <4>1 DEF WritesInstallment
        <5> QED
          BY <3>1, <5>1, <5>2, CommitCloses
      <4>2. CASE job[w].on \notin Installments
        <5>1. Closed(invoice[i].on)
          BY <1>0, <3>1, <3>2, <3>5, <4>2 DEF Told, SettleTold
        <5> QED
          BY <1>3, <3>2, <3>5, <5>1
      <4> QED
        BY <4>1, <4>2
    <3> QED
      BY <3>1, <3>3, <3>4, <3>5
  <2> QED
    BY <2>1, <2>2
<1> QED
  BY <1>10, <1>11, <1>12, <1>13 DEF Promise

\* A request that ends and writes invoices alone keeps the promise, if what is
\* invoiced stands and a new invoice bills what there is.
LEMMA InvoicePromise ==
  ASSUME IInv, Promise, NEW w \in Workers, job' = [job EXCEPT ![w] = Idle],
         UNCHANGED <<payment, installment, collected, credit>>,
         \A i \in Invoices : invoice[i].status # "absent" =>
           /\ invoice'[i].status # "absent" /\ invoice'[i].amount = invoice[i].amount
           /\ invoice'[i].on = invoice[i].on
           /\ invoice[i].status = "paid" /\ invoice[i].on # Public => invoice'[i].status = "paid",
         \A i \in Invoices : invoice'[i].on \in Installments =>
           \/ invoice'[i].on = invoice[i].on
           \/ installment[invoice'[i].on].status \notin {"absent", "deleted"}
  PROVE  Promise'
<1>0. \A v \in Workers : job'[v] = IF v = w THEN Idle ELSE job[v]
  BY DEF IInv, TypeOK
<1>1. ASSUME NEW v \in Workers \ {w} PROVE Told(job[v])'
  <2>1. job'[v] = job[v]
    BY <1>0
  <2>2. Grows(job[v]) /\ InFlight(job[v]) => installment'[job[v].on].status = "absent"
    BY DEF Promise, Knows, Told, PlanTold, Laid
  <2>3. \A i \in Invoices : invoice[i].status # "absent" =>
           /\ invoice'[i].amount = invoice[i].amount
           /\ (invoice'[i].on = Public) <=> (invoice[i].on = Public)
           /\ invoice'[i].on \in {invoice[i].on, Balance}
           /\ invoice[i].status = "paid" /\ invoice[i].on # Public => invoice'[i].status = "paid"
    OBVIOUS
  <2>4. \A n \in Installments : Laid(n) => installment'[n].status # "absent"
    BY DEF Laid
  <2>5. \A n \in Installments : Closed(n) =>
           \/ installment'[n].status \in {"paid", "waived"}
           \/ \A i \in Invoices : invoice[i].status # "absent" => invoice'[i].on # n
    BY DEF Closed
  <2>6. \A k \in Keys : Recorded(k) =>
           /\ payment'[k].inv = payment[k].inv /\ payment'[k].amount = payment[k].amount
           /\ payment[k].status # "paid" => payment'[k].status # "paid"
    OBVIOUS
  <2> QED
    BY <2>1, <2>2, <2>3, <2>4, <2>5, <2>6, ToldStands
<1>2. Told(job[w])' /\ ~InFlight(job[w])'
  BY <1>0 DEF Told, SettleTold, PlanTold, RefundTold, Idle, Books, SettleOps, InFlight, Grows
<1>3. Knows'
  BY <1>1, <1>2 DEF Knows
<1>4. PlanOK'
  <2>1. \A v \in Workers, u \in Workers :
          v # u /\ Grows(job'[v]) /\ InFlight(job'[v]) /\ Grows(job'[u]) /\ InFlight(job'[u])
            => job'[v].on # job'[u].on
    BY <1>0, <1>2 DEF Promise, PlanOK, InFlight
  <2>2. \A i \in Invoices : invoice'[i].on \in Installments =>
          installment'[invoice'[i].on].status \notin {"absent", "deleted"}
    BY DEF Promise, PlanOK
  <2>3. \A n \in Installments : installment'[n].status # "absent" =>
          \A m \in 1..(n - 1) : installment'[m].status # "absent"
    BY DEF Promise, PlanOK, Laid
  <2> QED
    BY <2>1, <2>2, <2>3 DEF PlanOK, Laid, Grows, InFlight
<1>5. \A k \in Keys : Recorded(k) =>
        payment[k].inv \in Invoices /\ invoice[payment[k].inv].status # "absent"
  BY DEF IInv, LinksOK, Promise, PaymentsOK
<1>6. PaymentsOK'
  BY <1>5 DEF Promise, PaymentsOK, Recorded
<1>7. FullPaymentSettles'
  <2> SUFFICES ASSUME NEW k \in Keys, Recorded(k)
               PROVE  /\ /\ payment[k].amount >= invoice'[payment[k].inv].amount
                         /\ invoice'[payment[k].inv].on # Public
                         => /\ invoice'[payment[k].inv].status = "paid"
                            /\ invoice'[payment[k].inv].on \in Installments =>
                                 installment[invoice'[payment[k].inv].on].status
                                   \in {"paid", "waived"}
                      /\ payment[k].refunded <= payment[k].amount
                      /\ payment[k].refunded = payment[k].amount /\ payment[k].refunded > 0 =>
                           payment[k].status = "refunded"
    BY DEF FullPaymentSettles, Recorded, Full
  <2> QED
    BY <1>5 DEF Promise, FullPaymentSettles, Full
<1> QED
  BY <1>3, <1>4, <1>6, <1>7 DEF Promise

\* A settlement found already booked marks its invoice; a switch retires only an
\* invoice of a public checkout.
LEMMA MarkPromise ==
  ASSUME IInv, Promise, NEW w \in Workers, MarkInvoicePaid(w) \/ CancelInvoice(w)
  PROVE  Promise'
<1>0. /\ invoice \in [Invoices -> InvoiceRows] /\ RequestOK(job[w]) /\ Told(job[w])
  BY DEF IInv, TypeOK, LinksOK, Promise, Knows
<1>1. /\ UNCHANGED <<payment, installment, collected, credit>>
      /\ job' = [job EXCEPT ![w] = Idle]
  BY DEF MarkInvoicePaid, CancelInvoice, Finish, gateway
<1>2. \A i \in Invoices :
        \/ invoice'[i] = invoice[i]
        \/ invoice'[i] = [invoice[i] EXCEPT !.status = "paid"]
        \/ /\ invoice'[i] = [invoice[i] EXCEPT !.status = "cancelled"]
           /\ invoice[i].on = Public
  <2>1. CASE MarkInvoicePaid(w)
    BY <1>0, <2>1 DEF MarkInvoicePaid
  <2>2. CASE CancelInvoice(w)
    <3>1. invoice[job[w].inv].on = Public
      BY <1>0, <2>2 DEF CancelInvoice, At, Told, SettleTold
    <3>2. \A i \in Invoices :
            invoice'[i] = IF i = job[w].inv THEN [invoice[i] EXCEPT !.status = "cancelled"]
                          ELSE invoice[i]
      BY <1>0, <2>2 DEF CancelInvoice
    <3> QED
      BY <3>1, <3>2
  <2> QED
    BY <2>1, <2>2
<1>3. \A i \in Invoices : invoice'[i].on = invoice[i].on
  <2>1. \A i \in Invoices, status \in {"paid", "cancelled"} :
          [invoice[i] EXCEPT !.status = status].on = invoice[i].on
    BY <1>0 DEF InvoiceRows
  <2> QED
    BY <1>2, <2>1
<1>4. \A i \in Invoices : invoice[i].status # "absent" =>
        /\ invoice'[i].status # "absent" /\ invoice'[i].amount = invoice[i].amount
        /\ invoice'[i].on = invoice[i].on
        /\ invoice[i].status = "paid" /\ invoice[i].on # Public => invoice'[i].status = "paid"
  <2> SUFFICES ASSUME NEW i \in Invoices, invoice[i].status # "absent"
               PROVE  /\ invoice'[i].status # "absent" /\ invoice'[i].amount = invoice[i].amount
                      /\ invoice[i].status = "paid" /\ invoice[i].on # Public =>
                           invoice'[i].status = "paid"
    BY <1>3
  <2>1. invoice[i] \in InvoiceRows
    BY <1>0
  <2> QED
    BY <1>2, <2>1 DEF InvoiceRows
<1> QED
  BY <1>1, <1>3, <1>4, InvoicePromise

\* A new invoice bills the balance, a checkout, or an installment there is.
LEMMA RaisePromise ==
  ASSUME IInv, Promise, NEW w \in Workers, NEW i \in Invoices, RaiseInvoice(w, i)
  PROVE  Promise'
<1>0. /\ invoice \in [Invoices -> InvoiceRows] /\ RequestOK(job[w]) /\ Told(job[w])
  BY DEF IInv, TypeOK, LinksOK, Promise, Knows
<1>1. /\ UNCHANGED <<payment, installment, collected, credit>>
      /\ job' = [job EXCEPT ![w] = Idle]
      /\ invoice[i].status = "absent" /\ At(w, "gateway")
      /\ \/ invoice' = invoice
         \/ /\ invoice' = [invoice EXCEPT ![i] =
                             [status |-> "pending", on |-> job[w].on, amount |-> job[w].amt]]
            /\ ~(job[w].on \in Installments /\ installment[job[w].on].status = "deleted")
  BY DEF RaiseInvoice, Finish, tables, gateway
<1>2. \A n \in Invoices : n # i => invoice'[n] = invoice[n]
  BY <1>0, <1>1
<1>3. \/ invoice'[i] = invoice[i]
      \/ /\ invoice'[i].on = job[w].on
         /\ ~(job[w].on \in Installments /\ installment[job[w].on].status = "deleted")
  BY <1>0, <1>1
<1>4. job[w].on \in Installments => Laid(job[w].on)
  <2>1. job[w].op \in CreateOps
    BY <1>0, <1>1 DEF RequestOK, At
  <2>2. Balance \notin Installments /\ Public \notin Installments
    BY BoundsAssumption DEF Installments, Balance, Public
  <2> QED
    BY <1>0, <2>1, <2>2 DEF Told, PlanTold, CreateOps
<1>5. \A n \in Invoices : invoice'[n].on \in Installments =>
        \/ invoice'[n].on = invoice[n].on
        \/ installment[invoice'[n].on].status \notin {"absent", "deleted"}
  BY <1>2, <1>3, <1>4 DEF Laid
<1>6. \A n \in Invoices : invoice[n].status # "absent" => invoice'[n] = invoice[n]
  BY <1>1, <1>2
<1> QED
  BY <1>1, <1>5, <1>6, InvoicePromise

\* Money that comes in is not on the books yet.
LEMMA WorldPromise ==
  ASSUME IInv, Promise, World
  PROVE  Promise'
<1>1. UNCHANGED <<invoice, payment, installment, job>>
  BY DEF World, BuyerPays, BankPosts, tables
<1>2. Knows' /\ PlanOK' /\ FullPaymentSettles'
  BY <1>1 DEF Promise, Knows, Told, SettleTold, PlanTold, RefundTold, Laid, Closed, PlanOK,
              FullPaymentSettles, Recorded, Full
<1>3. PaymentsOK'
  BY <1>1 DEF Promise, PaymentsOK
<1> QED
  BY <1>2, <1>3 DEF Promise

\* A request arrives knowing what it read.
LEMMA ArrivalPromise ==
  ASSUME IInv, Promise, NEW w \in Workers, Arrival(w)
  PROVE  Promise'
<1>1. PICK j : Start(w, j) /\ Fresh(j)
  BY ArrivalRequest DEF Promise
<1>2. Told(j) /\ (Grows(j) => ~InFlight(j))
  BY <1>1, FreshTold DEF Promise
<1>3. UNCHANGED <<tables, gateway>> /\ job' = [job EXCEPT ![w] = j]
  BY <1>1 DEF Start
<1> QED
  BY <1>2, <1>3, QuietPromise

\* Every step of a request under way keeps the promise.
LEMMA ProgressPromise ==
  ASSUME IInv, IInv', Promise, NEW w \in Workers, Progress(w) \/ Abort(w)
  PROVE  Promise'
<1>1. CASE \/ Lookup(w) \/ LockInvoice(w) \/ Flush(w) \/ LockRest(w) \/ BreakCircle(w)
           \/ SumPayments(w) \/ SumPlan(w) \/ ReadLedger(w) \/ Quote(w) \/ Abort(w)
  <2>1. UNCHANGED <<tables, gateway>> /\ \E j : job' = [job EXCEPT ![w] = j] /\ Moved(w, j)
    BY <1>1, Moves
  <2>2. PICK j : job' = [job EXCEPT ![w] = j] /\ Moved(w, j)
    BY <2>1
  <2>3. /\ Told(j)
        /\ Grows(j) /\ InFlight(j) => \A v \in Workers \ {w} :
             Grows(job[v]) /\ InFlight(job[v]) => job[v].on # j.on
    BY <2>2, MovedTold
  <2> QED
    BY <2>1, <2>2, <2>3, QuietPromise
<1>2. CASE MarkInvoicePaid(w) \/ CancelInvoice(w)
  BY <1>2, MarkPromise
<1>3. ASSUME NEW i \in Invoices, RaiseInvoice(w, i) PROVE Promise'
  BY <1>3, RaisePromise
<1>4. CASE Commit(w)
  <2>1. CASE LedgerClash(w)
    <3>1. UNCHANGED <<tables, gateway>> /\ job' = [job EXCEPT ![w] = Idle]
      BY <1>4, <2>1 DEF Commit, Finish
    <3> QED
      BY <3>1, IdleTold, QuietPromise
  <2>2. CASE ~LedgerClash(w)
    <3>1. /\ payment' = PaymentsSeen(w) /\ invoice' = InvoicesSeen(w)
          /\ installment' = InstallmentsSeen(w) /\ UNCHANGED <<mix, collected, credit>>
          /\ At(w, "commit")
          /\ IF StillToCancel(w) THEN Go(w, "cancel") ELSE Finish(w)
      BY <1>4, <2>2 DEF Commit, gateway
    <3>2. CASE StillToCancel(w)
      <4>1. job' = [job EXCEPT ![w] = [job[w] EXCEPT !.step = "cancel"]]
        BY <3>1, <3>2 DEF Go
      <4>2. job[w].op = "switch"
        BY <3>2 DEF StillToCancel
      <4> QED
        BY <3>1, <4>1, <4>2, CommitPromise
    <3>3. CASE ~StillToCancel(w)
      <4>1. job' = [job EXCEPT ![w] = Idle]
        BY <3>1, <3>3 DEF Finish
      <4> QED
        BY <3>1, <4>1, CommitPromise
    <3> QED
      BY <3>2, <3>3
  <2> QED
    BY <2>1, <2>2
<1> QED
  BY <1>1, <1>2, <1>3, <1>4 DEF Progress

\* The tables start out promising nothing.
LEMMA PromiseInit == Init => Promise
<1> SUFFICES ASSUME Init PROVE Promise
  OBVIOUS
<1>1. \A w \in Workers : job[w] = Idle
  BY DEF Init
<1>2. Knows
  BY <1>1, IdleTold DEF Knows
<1>3. /\ \A i \in Invoices : invoice[i].on = Balance
      /\ \A k \in Keys : payment[k].status = "absent" /\ payment[k].refunded = 0
  BY DEF Init
<1>4. \A n \in Installments : Laid(n) => \A m \in 1..(n - 1) : Laid(m)
  <2>1. CASE installment = DefaultPlan
    BY <2>1, DefaultPlanOrder DEF Laid
  <2>2. CASE installment = [n \in Installments |-> [status |-> "absent", amount |-> 0]]
    BY <2>2 DEF Laid
  <2> QED
    BY <2>1, <2>2 DEF Init
<1>5. Balance \notin Installments
  BY BoundsAssumption DEF Installments, Balance
<1> QED
  BY <1>1, <1>2, <1>3, <1>4, <1>5, IdleTold
     DEF Promise, PlanOK, PaymentsOK, FullPaymentSettles, Recorded

\* The promise holds initially and every step keeps it.
THEOREM PromiseKept == Spec => []Promise
<1>1. Init => Promise
  BY PromiseInit
<1>2. IInv /\ IInv' /\ Promise /\ [Next]_vars => Promise'
  <2> SUFFICES ASSUME IInv, IInv', Promise, [Next]_vars PROVE Promise'
    OBVIOUS
  <2>1. CASE UNCHANGED vars
    BY <2>1 DEF vars, Promise, Knows, Told, SettleTold, PlanTold, RefundTold, Laid, Closed, PlanOK,
                PaymentsOK, FullPaymentSettles, Recorded, Full, Grows, InFlight, Books
  <2>2. CASE Next
    BY <2>2, WorldPromise, ArrivalPromise, ProgressPromise DEF Next
  <2> QED
    BY <2>1, <2>2
<1> QED
  BY <1>1, <1>2, Invariance, PTL DEF Spec

\* Money booked in full leaves nothing half done, and no more of it goes back than
\* was paid, however requests overlap (settlement.py:60-67, refund_money.py:68-71).
THEOREM FullPaymentSettlesAlways == Spec => []FullPaymentSettles
<1>1. Promise => FullPaymentSettles
  BY DEF Promise
<1> QED
  BY <1>1, PromiseKept, PTL

-----------------------------------------------------------------------------
(* One request at a time, what was read still holds when it is written.    *)

StillTrue(j) ==
  /\ j.op = "switch" => invoice[j.inv].status = "pending"
  /\ j.op \in {"update", "waive", "delete"} => Editable(j.on)
  /\ j.op = "refund" => j.was = payment[j.key].refunded /\ j.amt >= j.was

Singly ==
  /\ \A w \in Workers : At(w, "idle") => job[w] = Idle
  /\ Alone => \A w \in Workers :
       /\ StillTrue(job[w])
       /\ \A v \in Workers \ {w} : ~At(w, "idle") => At(v, "idle")

\* Idle has read nothing.
LEMMA IdleStillTrue == StillTrue(Idle) /\ Idle.step = "idle"
BY DEF StillTrue, Idle

\* A step that touches no table leaves a lone request alone, and what it read true.
LEMMA QuietSingly ==
  ASSUME IInv, Singly, NEW w \in Workers, NEW j, UNCHANGED <<tables, gateway>>,
         job' = [job EXCEPT ![w] = j],
         j = Idle \/ (j.step # "idle" /\ (Alone => StillTrue(j))),
         Alone /\ j # Idle => \A v \in Workers \ {w} : At(v, "idle")
  PROVE  Singly'
<1>0. UNCHANGED <<invoice, payment, installment, mix>> /\ Alone' = Alone
  BY DEF tables, gateway, Alone
<1>1. \A v \in Workers : job'[v] = IF v = w THEN j ELSE job[v]
  BY DEF IInv, TypeOK
<1>2. \A v \in Workers : job'[v].step = "idle" => job'[v] = Idle
  BY <1>1 DEF Singly, At
<1>3. ASSUME Alone PROVE \A v \in Workers : StillTrue(job'[v])
  BY <1>1, <1>3, IdleStillTrue DEF Singly
<1>4. ASSUME Alone, NEW v \in Workers, NEW u \in Workers \ {v}, job'[v].step # "idle"
      PROVE  job'[u].step = "idle"
  BY <1>1, <1>4, IdleStillTrue DEF Singly, At
<1> QED
  BY <1>0, <1>2, <1>3, <1>4 DEF Singly, At, StillTrue, Editable

\* So does one that writes, when it ends or has an invoice left to retire.
LEMMA WriteSingly ==
  ASSUME IInv, Singly, NEW w \in Workers, NEW j, UNCHANGED mix, ~At(w, "idle"),
         job' = [job EXCEPT ![w] = j],
         \/ j = Idle
         \/ /\ job[w].op = "switch" /\ j = [job[w] EXCEPT !.step = "cancel"]
            /\ invoice'[j.inv].status = "pending"
  PROVE  Singly'
<1>0. Alone' = Alone /\ job[w] \in Jobs
  BY DEF Alone, IInv, TypeOK
<1>1. \A v \in Workers : job'[v] = IF v = w THEN j ELSE job[v]
  BY DEF IInv, TypeOK
<1>2. j = Idle \/ (j.op = "switch" /\ j.step = "cancel" /\ invoice'[j.inv].status = "pending")
  BY <1>0 DEF Jobs
<1>3. \A v \in Workers : job'[v].step = "idle" => job'[v] = Idle
  BY <1>1, <1>2 DEF Singly, At
<1>4. ASSUME Alone, NEW v \in Workers PROVE StillTrue(job[v])'
  <2>1. CASE v = w /\ j # Idle
    BY <1>1, <1>2, <2>1 DEF StillTrue
  <2>2. CASE v # w \/ j = Idle
    <3>1. job'[v] = Idle
      BY <1>1, <1>4, <2>2 DEF Singly, At
    <3> QED
      BY <3>1 DEF StillTrue, Idle
  <2> QED
    BY <2>1, <2>2
<1>5. ASSUME Alone, NEW v \in Workers, NEW u \in Workers \ {v}, job'[v].step # "idle"
      PROVE  job'[u].step = "idle"
  BY <1>1, <1>5, IdleStillTrue DEF Singly, At
<1> QED
  BY <1>0, <1>3, <1>4, <1>5 DEF Singly, At

\* A request that arrives has just read what it holds to be true.
LEMMA ArrivalSingly ==
  ASSUME IInv, Promise, Singly, NEW w \in Workers, Arrival(w)
  PROVE  Singly'
<1>1. PICK j : Start(w, j) /\ Fresh(j)
  BY ArrivalRequest DEF Promise
<1>2. j.step # "idle" /\ StillTrue(j)
  BY <1>1 DEF Fresh, FreshSettle, FreshSwitch, FreshEdit, FreshRefund, FreshInvoice, StillTrue
<1>3. /\ UNCHANGED <<tables, gateway>> /\ job' = [job EXCEPT ![w] = j]
      /\ Alone => \A v \in Workers : At(v, "idle")
  BY <1>1 DEF Start
<1> QED
  BY <1>2, <1>3, QuietSingly

\* A request under way stays alone.
LEMMA ProgressSingly ==
  ASSUME IInv, Promise, Singly, NEW w \in Workers, Progress(w) \/ Abort(w)
  PROVE  Singly'
<1>0. job[w] \in Jobs /\ Told(job[w])
  BY DEF IInv, TypeOK, Promise, Knows
<1>1. CASE \/ Lookup(w) \/ LockInvoice(w) \/ Flush(w) \/ LockRest(w) \/ BreakCircle(w)
           \/ SumPayments(w) \/ SumPlan(w) \/ ReadLedger(w) \/ Quote(w) \/ Abort(w)
  <2>1. UNCHANGED <<tables, gateway>> /\ \E j : job' = [job EXCEPT ![w] = j] /\ Moved(w, j)
    BY <1>1, Moves
  <2>2. PICK j : job' = [job EXCEPT ![w] = j] /\ Moved(w, j)
    BY <2>1
  <2>3. ~At(w, "idle")
    <3>1. BreakCircle(w) => WaitsFor(w) # {}
      BY DEF BreakCircle, Circle
    <3>2. WaitsFor(w) # {} => ~At(w, "idle")
      BY DEF WaitsFor, At
    <3> QED
      BY <1>1, <3>1, <3>2 DEF Lookup, LockInvoice, Flush, LockRest, SumPayments, SumPlan,
                              ReadLedger, Quote, Abort, At
  <2>4. CASE j = Idle
    BY <2>1, <2>2, <2>4, QuietSingly
  <2>5. CASE j # Idle
    <3>1. \/ \E s \in Steps \ {"idle"} :
               j = [job[w] EXCEPT !.step = s]
          \/ j = Locked(w)
          \/ /\ job[w].op \in CreateOps
             /\ \E value \in Figures : j = [job[w] EXCEPT !.step = "gateway", !.amt = value]
      BY <2>2, <2>5 DEF Moved, Steps
    <3>2. /\ j.op = job[w].op /\ j.inv = job[w].inv /\ j.key = job[w].key /\ j.was = job[w].was
          /\ j.step # "idle"
          /\ j.op \notin CreateOps => j.amt = job[w].amt
          /\ j.op \notin SettleOps \cup CreateOps => j.on = job[w].on
      <4>1. CASE \E s \in Steps \ {"idle"} :
                   j = [job[w] EXCEPT !.step = s]
        BY <1>0, <4>1 DEF Jobs
      <4>2. CASE j = Locked(w)
        BY <1>0, <4>2, LockedJob, LockedOn DEF Settling
      <4>3. ASSUME job[w].op \in CreateOps, NEW value \in Figures,
                   j = [job[w] EXCEPT !.step = "gateway", !.amt = value]
            PROVE  /\ j.op = job[w].op /\ j.inv = job[w].inv /\ j.key = job[w].key
                   /\ j.was = job[w].was /\ j.step # "idle"
                   /\ j.op \notin CreateOps => j.amt = job[w].amt
                   /\ j.op \notin SettleOps \cup CreateOps => j.on = job[w].on
        BY <1>0, <4>3 DEF Jobs
      <4> QED
        BY <3>1, <4>1, <4>2, <4>3
    <3>3. Alone => StillTrue(j)
      BY <3>2 DEF Singly, StillTrue, SettleOps, CreateOps
    <3>4. Alone => \A v \in Workers \ {w} : At(v, "idle")
      BY <2>3 DEF Singly
    <3> QED
      BY <2>1, <2>2, <3>2, <3>3, <3>4, QuietSingly
  <2> QED
    BY <2>4, <2>5
<1>2. CASE MarkInvoicePaid(w) \/ CancelInvoice(w)
  BY <1>2, WriteSingly DEF MarkInvoicePaid, CancelInvoice, Finish, gateway, At
<1>3. ASSUME NEW i \in Invoices, RaiseInvoice(w, i) PROVE Singly'
  BY <1>3, WriteSingly DEF RaiseInvoice, Finish, gateway, At
<1>4. CASE Commit(w)
  <2>0. UNCHANGED mix /\ ~At(w, "idle")
    BY <1>4 DEF Commit, gateway, At
  <2>1. CASE LedgerClash(w) \/ ~StillToCancel(w)
    BY <1>4, <2>0, <2>1, WriteSingly DEF Commit, Finish
  <2>2. CASE ~LedgerClash(w) /\ StillToCancel(w)
    <3>1. /\ job' = [job EXCEPT ![w] = [job[w] EXCEPT !.step = "cancel"]]
          /\ invoice' = InvoicesSeen(w)
      BY <1>4, <2>2 DEF Commit, Go
    <3>2. job[w].op = "switch" /\ invoice'[job[w].inv].status = "pending"
      BY <2>2, <3>1 DEF StillToCancel
    <3>3. [job[w] EXCEPT !.step = "cancel"].inv = job[w].inv
      BY <1>0 DEF Jobs
    <3> QED
      BY <2>0, <3>1, <3>2, <3>3, WriteSingly
  <2> QED
    BY <2>1, <2>2
<1> QED
  BY <1>1, <1>2, <1>3, <1>4 DEF Progress

\* A lone request stays alone.
THEOREM SinglyKept == Spec => []Singly
<1>1. Init => Singly
  BY IdleStillTrue DEF Init, Singly, At
<1>2. IInv /\ Promise /\ Singly /\ [Next]_vars => Singly'
  <2> SUFFICES ASSUME IInv, Promise, Singly, [Next]_vars PROVE Singly'
    OBVIOUS
  <2>1. CASE UNCHANGED vars
    BY <2>1 DEF vars, Singly, At, Alone, StillTrue, Editable
  <2>2. CASE World
    BY <2>2 DEF World, BuyerPays, BankPosts, tables, Singly, At, Alone, StillTrue, Editable
  <2>3. CASE \E w \in Workers : Arrival(w) \/ Progress(w) \/ Abort(w)
    BY <2>3, ArrivalSingly, ProgressSingly
  <2> QED
    BY <2>1, <2>2, <2>3 DEF Next
<1> QED
  BY <1>1, <1>2, Invariance, PromiseKept, PTL DEF Spec

\* A lone commit changes no installment that is paid.
LEMMA CommitLeavesPaid ==
  ASSUME IInv, Promise, Singly, Alone, NEW w \in Workers, At(w, "commit"),
         NEW n \in Installments, installment[n].status = "paid"
  PROVE  InstallmentsSeen(w)[n].status = "paid"
<1>0. /\ Told(job[w]) /\ StillTrue(job[w]) /\ job[w] \in Jobs /\ job[w].step = "commit"
      /\ installment \in [Installments -> InstallmentRows] /\ installment[n] \in InstallmentRows
  BY DEF Promise, Knows, Singly, IInv, TypeOK, At
<1>1. CASE ~WritesInstallment(w)
  BY <1>1 DEF InstallmentsSeen
<1>2. CASE job[w].op = "plan"
  <2>1. job[w].on = 1 /\ ~Laid(1)
    BY <1>0, <1>2 DEF Told, PlanTold, Grows, InFlight
  <2>2. n # 1 => 1 \in 1..(n - 1)
    BY BoundsAssumption DEF Installments
  <2> QED
    BY <2>1, <2>2 DEF Promise, PlanOK, Laid
<1>3. CASE WritesInstallment(w) /\ job[w].op # "plan"
  <2>1. InstallmentsSeen(w)[n] = IF n = job[w].on THEN InstallmentAfter(installment[n], w)
                                 ELSE installment[n]
    BY <1>0, <1>3 DEF InstallmentsSeen
  <2>2. CASE Settling(w)
    BY <1>0, <2>1, <2>2 DEF InstallmentAfter, InstallmentRows, Settling, SettleOps
  <2>3. CASE job[w].op \in {"update", "waive", "delete"}
    BY <1>0, <2>1, <2>3 DEF StillTrue, Editable
  <2>4. CASE job[w].op = "add"
    BY <1>0, <2>1, <2>4 DEF Told, PlanTold, Grows, InFlight, Laid
  <2> QED
    BY <1>3, <2>2, <2>3, <2>4 DEF WritesInstallment, EditOps
<1> QED
  BY <1>1, <1>2, <1>3

\* Nor does it take money back that was handed back.
LEMMA CommitLeavesRefunded ==
  ASSUME IInv, Promise, Singly, Alone, NEW w \in Workers, At(w, "commit"), NEW k \in Keys
  PROVE  PaymentsSeen(w)[k].refunded >= payment[k].refunded
<1>0. /\ Told(job[w]) /\ StillTrue(job[w]) /\ RequestOK(job[w]) /\ job[w] \in Jobs
      /\ job[w].step = "commit"
      /\ payment \in [Keys -> PaymentRows] /\ payment[k] \in PaymentRows
      /\ payment[k].refunded \in Nat
  BY DEF Promise, Knows, Singly, IInv, TypeOK, LinksOK, At, PaymentRows
<1>1. CASE PaymentsSeen(w)[k] = payment[k]
  BY <1>0, <1>1
<1>2. CASE Settling(w) /\ k = job[w].key
  <2>1. PaymentsSeen(w)[k].refunded = 0
    BY <1>0, <1>2 DEF PaymentsSeen
  <2>2. payment[k].refunded = 0
    BY <1>0, <1>2 DEF IInv, LocksOK, Books, Settling, Promise, PaymentsOK, Recorded
  <2> QED
    BY <2>1, <2>2
<1>3. CASE job[w].op = "refund" /\ k = job[w].key
  <2>1. PaymentsSeen(w)[k] = AfterRefund(payment[k], job[w])
    BY <1>0, <1>3 DEF PaymentsSeen, Settling, SettleOps
  <2>2. /\ job[w].was = payment[k].refunded /\ job[w].amt >= job[w].was /\ job[w].amt \in Nat
    BY <1>0, <1>3 DEF StillTrue, Jobs
  <2>3. AfterRefund(payment[k], job[w]).refunded =
          IF job[w].amt = job[w].was THEN payment[k].refunded ELSE job[w].amt
    BY <1>0 DEF AfterRefund, PaymentRows
  <2> QED
    BY <1>0, <2>1, <2>2, <2>3
<1>4. CASE k # job[w].key \/ (~Settling(w) /\ job[w].op # "refund")
  BY <1>0, <1>1, <1>4 DEF PaymentsSeen
<1> QED
  BY <1>2, <1>3, <1>4

PaidStep ==
  /\ \A k \in Keys : Recorded(k) =>
       /\ payment'[k].inv = payment[k].inv /\ payment'[k].amount = payment[k].amount
       /\ payment[k].status # "paid" => payment'[k].status \notin {"absent", "paid"}
  /\ Alone =>
       /\ \A i \in Invoices : invoice[i].status = "paid" => invoice'[i].status = "paid"
       /\ \A n \in Installments :
            installment[n].status = "paid" => installment'[n].status = "paid"
       /\ \A k \in Keys : payment'[k].refunded >= payment[k].refunded

\* What a step may never do to money on the books.
LEMMA EveryStepPaid ==
  ASSUME IInv, Promise, Singly, Next
  PROVE  PaidStep
<1>0. /\ invoice \in [Invoices -> InvoiceRows]
      /\ \A k \in Keys : payment[k].refunded \in Nat
  BY DEF IInv, TypeOK, PaymentRows
<1>1. ASSUME UNCHANGED <<invoice, payment, installment>> PROVE PaidStep
  BY <1>0, <1>1 DEF PaidStep, Recorded
<1>2. CASE World
  BY <1>1, <1>2 DEF World, BuyerPays, BankPosts, tables
<1>3. ASSUME NEW w \in Workers, Arrival(w) PROVE PaidStep
  <2>1. \E j : Start(w, j)
    BY <1>3, ArrivalRequest DEF Promise
  <2> QED
    BY <1>1, <2>1 DEF Start, tables
<1>4. ASSUME NEW w \in Workers,
             \/ Lookup(w) \/ LockInvoice(w) \/ Flush(w) \/ LockRest(w) \/ BreakCircle(w)
             \/ SumPayments(w) \/ SumPlan(w) \/ ReadLedger(w) \/ Quote(w) \/ Abort(w)
      PROVE  PaidStep
  BY <1>1, <1>4, Moves DEF tables
<1>5. ASSUME NEW w \in Workers, NEW i \in Invoices, RaiseInvoice(w, i) PROVE PaidStep
  <2>1. UNCHANGED <<payment, installment>>
    BY <1>5 DEF RaiseInvoice, tables
  <2>2. \A n \in Invoices : invoice[n].status = "paid" => invoice'[n] = invoice[n]
    BY <1>0, <1>5 DEF RaiseInvoice, tables
  <2> QED
    BY <1>0, <2>1, <2>2 DEF PaidStep, Recorded
<1>6. ASSUME NEW w \in Workers, MarkInvoicePaid(w) \/ CancelInvoice(w) PROVE PaidStep
  <2>1. UNCHANGED <<payment, installment>>
    BY <1>6 DEF MarkInvoicePaid, CancelInvoice
  <2>2. \A n \in Invoices :
          \/ invoice'[n] = invoice[n]
          \/ invoice'[n] = [invoice[n] EXCEPT !.status = "paid"]
          \/ n = job[w].inv /\ CancelInvoice(w)
    BY <1>0, <1>6 DEF MarkInvoicePaid, CancelInvoice
  <2>3. \A n \in Invoices : [invoice[n] EXCEPT !.status = "paid"].status = "paid"
    BY <1>0 DEF InvoiceRows
  <2>4. Alone /\ CancelInvoice(w) => invoice[job[w].inv].status = "pending"
    BY DEF CancelInvoice, At, Promise, Knows, Told, SettleTold, Singly, StillTrue
  <2>5. Alone => \A n \in Invoices : invoice[n].status = "paid" => invoice'[n].status = "paid"
    BY <2>2, <2>3, <2>4
  <2> QED
    BY <1>0, <2>1, <2>5 DEF PaidStep, Recorded
<1>7. ASSUME NEW w \in Workers, Commit(w) PROVE PaidStep
  <2>1. CASE LedgerClash(w)
    BY <1>1, <1>7, <2>1 DEF Commit, tables
  <2>2. CASE ~LedgerClash(w)
    <3>1. /\ payment' = PaymentsSeen(w) /\ invoice' = InvoicesSeen(w)
          /\ installment' = InstallmentsSeen(w) /\ At(w, "commit")
      BY <1>7, <2>2 DEF Commit
    <3>2. \A k \in Keys : Recorded(k) =>
            /\ payment'[k].inv = payment[k].inv /\ payment'[k].amount = payment[k].amount
            /\ payment[k].status # "paid" => payment'[k].status \notin {"absent", "paid"}
      BY <3>1, CommitWrites, CommitPayments
    <3>3. \A i \in Invoices : invoice[i].status = "paid" => invoice'[i].status = "paid"
      BY <3>1, CommitInvoices
    <3>4. Alone => \A n \in Installments :
            installment[n].status = "paid" => installment'[n].status = "paid"
      BY <3>1, CommitLeavesPaid
    <3>5. Alone => \A k \in Keys : payment'[k].refunded >= payment[k].refunded
      BY <3>1, CommitLeavesRefunded
    <3> QED
      BY <3>2, <3>3, <3>4, <3>5 DEF PaidStep
  <2> QED
    BY <2>1, <2>2
<1> QED
  BY <1>2, <1>3, <1>4, <1>5, <1>6, <1>7 DEF Next, Progress

\* Money on the books stays there: no payment is rewritten, and one request at a
\* time what is paid stays paid and what is handed back stays handed back
\* (models/payment.py:19-21, checkout.py:118-119, plans.py:120-123,
\* refund_money.py:40).
THEOREM PaidStaysPaidAlways == Spec => PaidStaysPaid
<1>1. IInv /\ Promise /\ Singly /\ [Next]_vars => [PaidStep]_vars
  BY EveryStepPaid
<1> QED
  BY <1>1, Invariance, PromiseKept, SinglyKept, PTL DEF Spec, PaidStaysPaid, PaidStep

-----------------------------------------------------------------------------
(* What a recompute reads and writes are figures.                          *)

LedgerRows == [exists: BOOLEAN, paid: Int, due: Int, balance: Int]
Readings == [paid: Int, due: Int, row: LedgerRows]
Figured == ledger \in LedgerRows /\ books \in [Workers -> Readings]

\* The tables are finite.
LEMMA FiniteTables == IsFiniteSet(Keys) /\ IsFiniteSet(Installments)
<1>1. IsFiniteSet(Keys)
  BY NamesAssumption, FS_Union DEF Keys
<1>2. IsFiniteSet(Installments)
  BY BoundsAssumption, FS_Interval DEF Installments
<1> QED
  BY <1>1, <1>2

\* The sum of a list of figures is one.
LEMMA NetPaidInt ==
  ASSUME NEW pay \in [Keys -> PaymentRows], NEW inv
  PROVE  NetPaid(pay, inv) \in Int
<1> DEFINE f == [k \in Held(pay, inv) |-> pay[k].amount - pay[k].refunded]
<1>1. Held(pay, inv) \subseteq Keys /\ IsFiniteSet(Held(pay, inv))
  BY FiniteTables, FS_Subset DEF Held
<1>2. \A k \in Held(pay, inv) : f[k] \in Int
  BY <1>1 DEF PaymentRows
<1>3. DOMAIN f = Held(pay, inv)
  OBVIOUS
<1> HIDE DEF f
<1>4. SumFunctionOnSet(f, Held(pay, inv)) \in Int
  BY <1>1, <1>2, SumType
<1>5. NetPaid(pay, inv) = SumFunctionOnSet(f, DOMAIN f)
  BY DEF NetPaid, SumFunction, f
<1> QED
  BY <1>3, <1>4, <1>5

\* What a plan comes to is a figure.
LEMMA TotalDueInt ==
  ASSUME NEW inst \in [Installments -> InstallmentRows]
  PROVE  TotalDue(inst) \in Int
<1> DEFINE plan == {n \in Installments : inst[n].status \notin {"absent", "deleted"}}
           owed == {m \in plan : inst[m].status # "waived"}
           f == [n \in owed |-> inst[n].amount]
<1>1. owed \subseteq Installments /\ IsFiniteSet(owed)
  BY FiniteTables, FS_Subset
<1>2. \A n \in owed : f[n] \in Int
  BY <1>1 DEF InstallmentRows
<1>3. DOMAIN f = owed
  OBVIOUS
<1>5. TotalDue(inst) = IF plan = {} THEN Price ELSE SumFunctionOnSet(f, DOMAIN f)
  BY DEF TotalDue, SumFunction
<1> HIDE DEF f, owed, plan
<1>4. SumFunctionOnSet(f, owed) \in Int
  BY <1>1, <1>2, SumType
<1> QED
  BY <1>3, <1>4, <1>5, BoundsAssumption

\* A recompute writes the columns it found out of date.
LEMMA LedgerColumns ==
  ASSUME Figured, NEW w \in Workers
  PROVE  LET new == Totals(books[w].paid, books[w].due)
             old == books[w].row
         IN LedgerAfter(w) =
              [exists |-> IF TRUE # old.exists THEN TRUE ELSE ledger.exists,
               paid |-> IF new.paid # old.paid THEN new.paid ELSE ledger.paid,
               due |-> IF new.due # old.due THEN new.due ELSE ledger.due,
               balance |-> IF new.balance # old.balance THEN new.balance ELSE ledger.balance]
<1> DEFINE new == Totals(books[w].paid, books[w].due)
           old == books[w].row
<1>1. DOMAIN new = {"exists", "paid", "due", "balance"} /\ new.exists = TRUE
  BY DEF Totals
<1>2. LedgerAfter(w) = [f \in {"exists", "paid", "due", "balance"} |->
                          IF new[f] # old[f] THEN new[f] ELSE ledger[f]]
  BY <1>1 DEF LedgerAfter
<1> HIDE DEF new, old
<1>3. LedgerAfter(w) = [exists |-> IF TRUE # old.exists THEN TRUE ELSE ledger.exists,
               paid |-> IF new.paid # old.paid THEN new.paid ELSE ledger.paid,
               due |-> IF new.due # old.due THEN new.due ELSE ledger.due,
               balance |-> IF new.balance # old.balance THEN new.balance ELSE ledger.balance]
  BY <1>1, <1>2
<1> QED
  BY <1>3 DEF new, old

\* recompute_ledger writes a ledger row.
LEMMA LedgerAfterType ==
  ASSUME Figured, NEW w \in Workers
  PROVE  LedgerAfter(w) \in LedgerRows
<1> DEFINE new == Totals(books[w].paid, books[w].due)
           old == books[w].row
<1>1. books[w] \in Readings /\ ledger \in LedgerRows
  BY DEF Figured
<1>2. new \in LedgerRows /\ old \in LedgerRows
  BY <1>1 DEF Totals, LedgerRows, Readings
<1>3. LedgerAfter(w) = [exists |-> IF TRUE # old.exists THEN TRUE ELSE ledger.exists,
               paid |-> IF new.paid # old.paid THEN new.paid ELSE ledger.paid,
               due |-> IF new.due # old.due THEN new.due ELSE ledger.due,
               balance |-> IF new.balance # old.balance THEN new.balance ELSE ledger.balance]
  BY LedgerColumns
<1> HIDE DEF new, old
<1>4. \A r \in LedgerRows : r.exists \in BOOLEAN /\ r.paid \in Int /\ r.due \in Int /\ r.balance \in Int
  BY DEF LedgerRows
<1>5. \A e \in BOOLEAN, p \in Int, d \in Int, b \in Int :
        [exists |-> e, paid |-> p, due |-> d, balance |-> b] \in LedgerRows
  BY DEF LedgerRows
<1>6. (IF TRUE # old.exists THEN TRUE ELSE ledger.exists) \in BOOLEAN
  BY <1>1, <1>2, <1>4
<1>7. /\ (IF new.paid # old.paid THEN new.paid ELSE ledger.paid) \in Int
      /\ (IF new.due # old.due THEN new.due ELSE ledger.due) \in Int
      /\ (IF new.balance # old.balance THEN new.balance ELSE ledger.balance) \in Int
  BY <1>1, <1>2, <1>4
<1>8. \E e \in BOOLEAN, p \in Int, d \in Int, b \in Int :
        LedgerAfter(w) = [exists |-> e, paid |-> p, due |-> d, balance |-> b]
  BY Zenon, <1>3, <1>6, <1>7
<1> QED
  BY <1>5, <1>8

\* Nothing read is a reading too.
LEMMA NothingReadType == NothingRead \in Readings /\ NoRow \in LedgerRows
BY DEF NothingRead, Readings, NoRow, LedgerRows

\* In every behaviour the ledger, and what each recompute has read, are figures.
THEOREM FiguredKept == Spec => []Figured
<1>1. Init => Figured
  <2>1. Totals(0, Price) \in LedgerRows
    BY BoundsAssumption DEF Totals, LedgerRows
  <2> QED
    BY <2>1, NothingReadType DEF Init, Figured
<1>2. IInv /\ Figured /\ [Next]_vars => Figured'
  <2> SUFFICES ASSUME IInv, Figured, [Next]_vars PROVE Figured'
    OBVIOUS
  <2>0. /\ \A w \in Workers : /\ PaymentsSeen(w) \in [Keys -> PaymentRows]
                              /\ InstallmentsSeen(w) \in [Installments -> InstallmentRows]
        /\ ledger \in LedgerRows /\ books \in [Workers -> Readings]
    BY SeenType DEF IInv, Figured
  <2>1. ASSUME UNCHANGED <<ledger, books>> PROVE Figured'
    BY <2>1 DEF Figured
  <2>2. ASSUME NEW w \in Workers, UNCHANGED ledger \/ ledger' = LedgerAfter(w),
               books' = books \/ books' = [books EXCEPT ![w] = NothingRead]
        PROVE  Figured'
    BY <2>0, <2>2, LedgerAfterType, NothingReadType DEF Figured
  <2>3. CASE World \/ UNCHANGED vars
    BY <2>1, <2>3 DEF World, BuyerPays, BankPosts, tables, vars
  <2>4. ASSUME NEW w \in Workers, Arrival(w) PROVE Figured'
    <3>1. UNCHANGED <<tables, books>>
      BY <2>4 DEF Arrival, Ask, SwitchGateway, BeginPlan, BeginAdd, BeginEdit, BeginRefund, BeginView,
                  BeginInstallmentInvoice, BeginBalanceInvoice, BeginPublicInvoice, Start
    <3> QED
      BY <2>1, <3>1 DEF tables
  <2>5. ASSUME NEW w \in Workers, SumPayments(w) PROVE Figured'
    <3>1. UNCHANGED ledger
          /\ books' = [books EXCEPT ![w].paid = NetPaid(PaymentsSeen(w), InvoicesSeen(w))]
      BY <2>5 DEF SumPayments, tables
    <3>2. NetPaid(PaymentsSeen(w), InvoicesSeen(w)) \in Int
      BY <2>0, NetPaidInt
    <3> QED
      BY <2>0, <3>1, <3>2 DEF Figured, Readings
  <2>6. ASSUME NEW w \in Workers, SumPlan(w) PROVE Figured'
    <3>1. UNCHANGED ledger
          /\ books' = [books EXCEPT ![w].due = TotalDue(InstallmentsSeen(w))]
      BY <2>6 DEF SumPlan, tables
    <3>2. TotalDue(InstallmentsSeen(w)) \in Int
      BY <2>0, TotalDueInt
    <3> QED
      BY <2>0, <3>1, <3>2 DEF Figured, Readings
  <2>7. ASSUME NEW w \in Workers, ReadLedger(w) PROVE Figured'
    <3>1. UNCHANGED ledger /\ books' = [books EXCEPT ![w].row = ledger]
      BY <2>7 DEF ReadLedger, tables
    <3> QED
      BY <2>0, <3>1 DEF Figured, Readings
  <2>8. ASSUME NEW w \in Workers,
               \/ Lookup(w) \/ LockInvoice(w) \/ Flush(w) \/ LockRest(w)
               \/ MarkInvoicePaid(w) \/ CancelInvoice(w)
        PROVE  Figured'
    BY <2>1, <2>8 DEF Lookup, LockInvoice, Flush, LockRest, MarkInvoicePaid, CancelInvoice, tables
  <2>9. ASSUME NEW w \in Workers, Commit(w) \/ Quote(w) \/ Abort(w) \/ BreakCircle(w)
        PROVE  Figured'
    BY <2>1, <2>2, <2>9 DEF Commit, Quote, Abort, BreakCircle, tables
  <2>10. ASSUME NEW w \in Workers, NEW i \in Invoices, RaiseInvoice(w, i) PROVE Figured'
    BY <2>2, <2>10 DEF RaiseInvoice, tables
  <2> QED
    BY <2>3, <2>4, <2>5, <2>6, <2>7, <2>8, <2>9, <2>10 DEF Next, Progress
<1> QED
  BY <1>1, <1>2, Invariance, PTL DEF Spec

-----------------------------------------------------------------------------
(* A request knows whether an enrollment is behind what it settles.        *)

Placed(w) == Settling(w) => (job[w].on = Public <=> invoice[job[w].inv].on = Public)
AllPlaced == \A w \in Workers : Placed(w)

\* A raised invoice bills a public checkout for good, or never does.
LEMMA PublicStands ==
  ASSUME IInv, Promise, Next
  PROVE  \A i \in Invoices : invoice[i].status # "absent" =>
           (invoice'[i].on = Public <=> invoice[i].on = Public)
<1>0. invoice \in [Invoices -> InvoiceRows] /\ Public \notin Installments /\ Balance # Public
  BY BoundsAssumption DEF IInv, TypeOK, Installments, Public, Balance
<1>1. CASE UNCHANGED invoice
  BY <1>1
<1>2. ASSUME NEW w \in Workers, MarkInvoicePaid(w) \/ CancelInvoice(w)
      PROVE  \A i \in Invoices : invoice'[i].on = invoice[i].on
  <2>1. \A i \in Invoices : \/ invoice'[i] = invoice[i]
                            \/ invoice'[i] = [invoice[i] EXCEPT !.status = "paid"]
                            \/ invoice'[i] = [invoice[i] EXCEPT !.status = "cancelled"]
    BY <1>0, <1>2 DEF MarkInvoicePaid, CancelInvoice
  <2>2. \A i \in Invoices, status \in {"paid", "cancelled"} :
          [invoice[i] EXCEPT !.status = status].on = invoice[i].on
    BY <1>0 DEF InvoiceRows
  <2> QED
    BY <2>1, <2>2
<1>3. ASSUME NEW w \in Workers, NEW n \in Invoices, RaiseInvoice(w, n)
      PROVE  \A i \in Invoices : invoice[i].status # "absent" => invoice'[i] = invoice[i]
  BY <1>0, <1>3 DEF RaiseInvoice, tables
<1>4. ASSUME NEW w \in Workers, At(w, "commit"), invoice' = InvoicesSeen(w)
      PROVE  \A i \in Invoices : invoice'[i].on = Public <=> invoice[i].on = Public
  <2>1. CASE WritesInvoice(w)
    <3>1. invoice' = [invoice EXCEPT ![job[w].inv].status = "paid"]
      BY <1>4, <2>1 DEF InvoicesSeen
    <3>2. \A i \in Invoices :
            invoice'[i] = IF i = job[w].inv THEN [invoice[i] EXCEPT !.status = "paid"]
                          ELSE invoice[i]
      BY <1>0, <3>1
    <3>3. \A i \in Invoices : [invoice[i] EXCEPT !.status = "paid"].on = invoice[i].on
      BY <1>0 DEF InvoiceRows
    <3> QED
      BY <3>2, <3>3
  <2>2. CASE ~WritesInvoice(w) /\ job[w].op = "delete"
    <3>1. job[w].on \in Installments
      BY <2>2 DEF Promise, Knows, Told, PlanTold
    <3>2. invoice' = [i \in Invoices |-> IF invoice[i].on = job[w].on
                           THEN [invoice[i] EXCEPT !.on = Balance] ELSE invoice[i]]
      BY <1>4, <2>2 DEF InvoicesSeen
    <3>3. \A i \in Invoices : [invoice[i] EXCEPT !.on = Balance].on = Balance
      BY <1>0 DEF InvoiceRows
    <3> QED
      BY <1>0, <3>1, <3>2, <3>3
  <2>3. CASE ~WritesInvoice(w) /\ job[w].op # "delete"
    BY <1>4, <2>3 DEF InvoicesSeen
  <2> QED
    BY <2>1, <2>2, <2>3
<1>5. ASSUME NEW w \in Workers, Commit(w)
      PROVE  \A i \in Invoices : invoice'[i].on = Public <=> invoice[i].on = Public
  BY <1>4, <1>5 DEF Commit, tables
<1>6. ASSUME NEW w \in Workers, Arrival(w) PROVE UNCHANGED invoice
  BY <1>6, ArrivalRequest DEF Promise, Start, tables
<1>7. ASSUME NEW w \in Workers,
             \/ Lookup(w) \/ LockInvoice(w) \/ Flush(w) \/ LockRest(w) \/ BreakCircle(w)
             \/ SumPayments(w) \/ SumPlan(w) \/ ReadLedger(w) \/ Quote(w) \/ Abort(w)
      PROVE  UNCHANGED invoice
  BY <1>7, Moves DEF tables
<1>8. World => UNCHANGED invoice
  BY DEF World, BuyerPays, BankPosts, tables
<1> QED
  BY <1>1, <1>2, <1>3, <1>5, <1>6, <1>7, <1>8 DEF Next, Progress

\* What a step makes of one request.
LEMMA NextJob ==
  ASSUME IInv, Promise, NEW w \in Workers, Arrival(w) \/ Progress(w) \/ Abort(w)
  PROVE  \E j : /\ job' = [job EXCEPT ![w] = j]
                /\ \/ j = Idle
                   \/ Start(w, j) /\ Fresh(j) /\ Arrival(w)
                   \/ Moved(w, j) /\ UNCHANGED tables
                   \/ /\ j = [job[w] EXCEPT !.step = "cancel"]
                      /\ Commit(w) /\ job[w].op = "switch"
<1>1. CASE Arrival(w)
  BY <1>1, ArrivalRequest DEF Promise, Start
<1>2. CASE \/ Lookup(w) \/ LockInvoice(w) \/ Flush(w) \/ LockRest(w) \/ BreakCircle(w)
           \/ SumPayments(w) \/ SumPlan(w) \/ ReadLedger(w) \/ Quote(w) \/ Abort(w)
  BY <1>2, Moves
<1>3. CASE MarkInvoicePaid(w) \/ CancelInvoice(w) \/ \E i \in Invoices : RaiseInvoice(w, i)
  BY <1>3 DEF MarkInvoicePaid, CancelInvoice, RaiseInvoice, Finish
<1>4. CASE Commit(w)
  BY <1>4 DEF Commit, Finish, Go, StillToCancel
<1> QED
  BY <1>1, <1>2, <1>3, <1>4 DEF Progress

\* In every behaviour a settlement that was told of an enrollment settles an
\* invoice of that enrollment, and one of the public funnel a public invoice.
THEOREM PlacedKept == Spec => []AllPlaced
<1>1. Init => AllPlaced
  BY DEF Init, AllPlaced, Placed, Settling, SettleOps, Idle
<1>2. IInv /\ Promise /\ AllPlaced /\ [Next]_vars => AllPlaced'
  <2> SUFFICES ASSUME IInv, Promise, AllPlaced, [Next]_vars PROVE AllPlaced'
    OBVIOUS
  <2>1. CASE UNCHANGED vars
    BY <2>1 DEF vars, AllPlaced, Placed, Settling
  <2>2. CASE Next
    <3>1. ASSUME NEW w \in Workers, job'[w] = job[w] PROVE Placed(w)'
      <4>1. Settling(w) => job[w].inv \in Invoices /\ invoice[job[w].inv].status # "absent"
        BY DEF IInv, LinksOK, RequestOK, Settling
      <4> QED
        BY <2>2, <3>1, <4>1, PublicStands DEF AllPlaced, Placed, Settling
    <3>2. CASE World
      BY <3>1, <3>2 DEF World, BuyerPays, BankPosts, AllPlaced
    <3>3. ASSUME NEW w \in Workers, Arrival(w) \/ Progress(w) \/ Abort(w) PROVE AllPlaced'
      <4>0. /\ job[w] \in Jobs /\ Placed(w)
            /\ Settling(w) => job[w].inv \in Invoices /\ invoice[job[w].inv].status # "absent"
        BY DEF IInv, TypeOK, LinksOK, RequestOK, Settling, AllPlaced
      <4>1. PICK j : /\ job' = [job EXCEPT ![w] = j]
                /\ \/ j = Idle
                   \/ Start(w, j) /\ Fresh(j) /\ Arrival(w)
                   \/ Moved(w, j) /\ UNCHANGED tables
                   \/ /\ j = [job[w] EXCEPT !.step = "cancel"]
                      /\ Commit(w) /\ job[w].op = "switch"
        BY <3>3, NextJob
      <4>2. job'[w] = j /\ \A v \in Workers \ {w} : job'[v] = job[v]
        BY <4>1 DEF IInv, TypeOK
      <4> SUFFICES Placed(w)'
        BY <3>1, <4>2 DEF AllPlaced
      <4>3. CASE j = Idle
        BY <4>2, <4>3 DEF Placed, Settling, SettleOps, Idle
      <4>4. CASE Start(w, j) /\ Fresh(j)
        <5>1. j.op \in SettleOps => (j.on = Public <=> invoice[j.inv].on = Public)
          BY <4>4 DEF Fresh, FreshSettle, FreshSwitch, FreshEdit, FreshRefund, FreshInvoice, SettleOps
        <5> QED
          BY <4>2, <4>4, <5>1 DEF Placed, Settling, Start, tables
      <4>5. CASE j.op = job[w].op /\ j.on = job[w].on /\ j.inv = job[w].inv
        BY <2>2, <4>0, <4>2, <4>5, PublicStands DEF Placed, Settling
      <4>6. CASE j = [job[w] EXCEPT !.step = "cancel"]
        BY <4>0, <4>5, <4>6 DEF Jobs
      <4>7. CASE Moved(w, j) /\ UNCHANGED tables
        <5>1. CASE \E s \in Steps : j = [job[w] EXCEPT !.step = s]
          BY <4>0, <4>5, <5>1 DEF Jobs
        <5>2. CASE j = Locked(w)
          <6>1. j.op = job[w].op /\ j.inv = job[w].inv
                /\ j.on = IF Settling(w) THEN Marks(w) ELSE job[w].on
            BY <4>0, <5>2, LockedJob, LockedOn
          <6>2. Settling(w) => (Marks(w) = Public <=> invoice[job[w].inv].on = Public)
            BY BoundsAssumption DEF Marks, Installments, Balance, Public
          <6> QED
            BY <4>2, <4>7, <6>1, <6>2 DEF Placed, Settling, tables
        <5>3. ASSUME NEW value \in Figures,
                     j = [job[w] EXCEPT !.step = "gateway", !.amt = value]
              PROVE  Placed(w)'
          BY <4>0, <4>5, <5>3 DEF Jobs
        <5> QED
          BY <4>3, <4>7, <5>1, <5>2, <5>3 DEF Moved
      <4> QED
        BY <4>1, <4>3, <4>4, <4>6, <4>7
    <3> QED
      BY <2>2, <3>2, <3>3 DEF Next
  <2> QED
    BY <2>1, <2>2
<1> QED
  BY <1>1, <1>2, Invariance, PromiseKept, PTL DEF Spec

-----------------------------------------------------------------------------
(* One request at a time, what a recompute has read is what the tables say. *)

\* The reads of its recompute that request w has behind it.
Reckons(w) ==
  \/ job[w].step \in {"plan", "row", "commit"} /\ job[w].on # Public
  \/ job[w].op = "create" /\ job[w].on = Balance /\ job[w].step \in {"quote", "gateway"}
Reckoned(w) ==
  /\ Reckons(w) => books[w].paid = NetPaid(PaymentsSeen(w), InvoicesSeen(w))
  /\ Reckons(w) /\ ~At(w, "plan") => books[w].due = TotalDue(InstallmentsSeen(w))
  /\ Reckons(w) /\ ~At(w, "plan") /\ ~At(w, "row") => books[w].row = ledger

Current == ledger.exists => ledger = Totals(NetPaid(payment, invoice), TotalDue(installment))
Follows == Alone => Current /\ \A w \in Workers : Reckoned(w)

\* The same payments held for the same amounts come to the same.
LEMMA NetPaidSame ==
  ASSUME NEW pay, NEW inv, NEW pay2, NEW inv2, Held(pay2, inv2) = Held(pay, inv),
         \A k \in Held(pay, inv) :
           pay2[k].amount = pay[k].amount /\ pay2[k].refunded = pay[k].refunded
  PROVE  NetPaid(pay2, inv2) = NetPaid(pay, inv)
<1>1. [k \in Held(pay2, inv2) |-> pay2[k].amount - pay2[k].refunded]
        = [k \in Held(pay, inv) |-> pay[k].amount - pay[k].refunded]
  OBVIOUS
<1> QED
  BY <1>1 DEF NetPaid

\* Invoices only change what they bill for when one is raised or an installment goes.
LEMMA InvoicesSame ==
  ASSUME NEW pay, NEW inv, NEW inv2,
         \A k \in Keys : pay[k].status # "absent" =>
           (inv2[pay[k].inv].on = Public <=> inv[pay[k].inv].on = Public)
  PROVE  NetPaid(pay, inv2) = NetPaid(pay, inv)
<1>1. Held(pay, inv2) = Held(pay, inv)
  BY DEF Held
<1> QED
  BY <1>1, NetPaidSame

\* A request that lasts sees the same of its own writes.
LEMMA SeenStands ==
  ASSUME NEW w \in Workers, UNCHANGED tables,
         job'[w].op = job[w].op, job'[w].inv = job[w].inv, job'[w].key = job[w].key,
         job'[w].on = job[w].on, job'[w].amt = job[w].amt, job'[w].was = job[w].was,
         job'[w].saw = job[w].saw
  PROVE  /\ PaymentsSeen(w)' = PaymentsSeen(w)
         /\ InvoicesSeen(w)' = InvoicesSeen(w)
         /\ InstallmentsSeen(w)' = InstallmentsSeen(w)
<1>0. UNCHANGED <<invoice, payment, installment>>
  BY DEF tables
<1>1. PaymentsSeen(w)' = PaymentsSeen(w)
  BY <1>0 DEF PaymentsSeen, Settling, AfterRefund
<1>2. InvoicesSeen(w)' = InvoicesSeen(w)
  BY <1>0 DEF InvoicesSeen, WritesInvoice, Settling, Short
<1>3. WritesInstallment(w)' = WritesInstallment(w)
  BY <1>0 DEF WritesInstallment, Settling, Short
<1>4. InstallmentAfter(installment[job[w].on], w)' = InstallmentAfter(installment[job[w].on], w)
  BY <1>0 DEF InstallmentAfter, Settling
<1>5. InstallmentsSeen(w)' = InstallmentsSeen(w)
  BY <1>0, <1>3, <1>4 DEF InstallmentsSeen
<1> QED
  BY <1>1, <1>2, <1>5

\* One that only reads sees the tables.
LEMMA SeenByReader ==
  ASSUME NEW w \in Workers, job[w].op \in {"view"} \cup CreateOps
  PROVE  PaymentsSeen(w) = payment /\ InvoicesSeen(w) = invoice /\ InstallmentsSeen(w) = installment
BY DEF PaymentsSeen, InvoicesSeen, InstallmentsSeen, WritesInvoice, WritesInstallment, Settling,
       SettleOps, EditOps, CreateOps

\* A step of request w leaves every other request idle.
LEMMA OthersIdle ==
  ASSUME IInv, Singly, Alone, NEW w \in Workers, ~At(w, "idle"), NEW j,
         job' = [job EXCEPT ![w] = j], NEW v \in Workers \ {w}
  PROVE  Reckoned(v)'
<1>1. job'[v] = Idle
  BY DEF Singly, At, IInv, TypeOK
<1> QED
  BY <1>1 DEF Reckoned, Reckons, Idle

\* So is w itself once it ends.
LEMMA EndsIdle ==
  ASSUME IInv, NEW w \in Workers, job' = [job EXCEPT ![w] = Idle]
  PROVE  Reckoned(w)'
<1>1. job'[w] = Idle
  BY DEF IInv, TypeOK
<1> QED
  BY <1>1 DEF Reckoned, Reckons, Idle

\* A recompute that read the ledger as it is writes what it read.
LEMMA LedgerAfterCurrent ==
  ASSUME Figured, NEW w \in Workers, books[w].row = ledger
  PROVE  LedgerAfter(w) = Totals(books[w].paid, books[w].due)
<1> DEFINE new == Totals(books[w].paid, books[w].due)
<1>1. LedgerAfter(w) =
              [exists |-> IF TRUE # ledger.exists THEN TRUE ELSE ledger.exists,
               paid |-> IF new.paid # ledger.paid THEN new.paid ELSE ledger.paid,
               due |-> IF new.due # ledger.due THEN new.due ELSE ledger.due,
               balance |-> IF new.balance # ledger.balance THEN new.balance ELSE ledger.balance]
  BY LedgerColumns
<1>2. (IF TRUE # ledger.exists THEN TRUE ELSE ledger.exists) = TRUE
  BY DEF Figured, LedgerRows
<1>3. new = [exists |-> TRUE, paid |-> new.paid, due |-> new.due, balance |-> new.balance]
  BY DEF Totals
<1> HIDE DEF new
<1>4. LedgerAfter(w) = new
  BY <1>1, <1>2, <1>3
<1> QED
  BY <1>4 DEF new

-----------------------------------------------------------------------------
(* And what it writes is what they add up to.                              *)

\* A commit that touches no enrollment leaves its sums alone.
LEMMA PublicCommit ==
  ASSUME IInv, Promise, AllPlaced, NEW w \in Workers, At(w, "commit"), job[w].on = Public
  PROVE  /\ NetPaid(PaymentsSeen(w), InvoicesSeen(w)) = NetPaid(payment, invoice)
         /\ InstallmentsSeen(w) = installment
<1>0. /\ Told(job[w]) /\ RequestOK(job[w]) /\ Placed(w) /\ job[w] \in Jobs
      /\ job[w].step = "commit" /\ invoice \in [Invoices -> InvoiceRows]
      /\ payment \in [Keys -> PaymentRows]
  BY DEF Promise, Knows, AllPlaced, IInv, TypeOK, LinksOK, At
<1>1. Public \notin Installments
  BY BoundsAssumption DEF Installments, Public
<1>2. InstallmentsSeen(w) = installment
  BY <1>0, <1>1 DEF InstallmentsSeen, WritesInstallment
<1>3. job[w].op # "delete"
  BY <1>0, <1>1 DEF Told, PlanTold
<1>4. /\ InvoicesSeen(w) \in [Invoices -> InvoiceRows]
      /\ \A i \in Invoices : InvoicesSeen(w)[i].on = invoice[i].on
  <2>1. CASE WritesInvoice(w)
    <3>1. InvoicesSeen(w) = [invoice EXCEPT ![job[w].inv].status = "paid"]
      BY <2>1 DEF InvoicesSeen
    <3>2. \A i \in Invoices :
            InvoicesSeen(w)[i] = IF i = job[w].inv THEN [invoice[i] EXCEPT !.status = "paid"]
                                 ELSE invoice[i]
      BY <1>0, <3>1
    <3>3. \A i \in Invoices : [invoice[i] EXCEPT !.status = "paid"] \in InvoiceRows
                             /\ [invoice[i] EXCEPT !.status = "paid"].on = invoice[i].on
      BY <1>0 DEF InvoiceRows
    <3> QED
      BY <1>0, <3>1, <3>2, <3>3
  <2>2. CASE ~WritesInvoice(w)
    BY <1>0, <1>3, <2>2 DEF InvoicesSeen
  <2> QED
    BY <2>1, <2>2
<1>5. \A k \in Keys : payment[k].status # "absent" => payment[k].inv \in Invoices
  BY DEF IInv, LinksOK, Recorded
<1>6. NetPaid(payment, InvoicesSeen(w)) = NetPaid(payment, invoice)
  BY <1>4, <1>5, InvoicesSame
<1>7. CASE Settling(w)
  <2>1. invoice[job[w].inv].on = Public /\ job[w].inv \in Invoices /\ job[w].key \in Keys
    BY <1>0, <1>7 DEF Placed, RequestOK, Settling
  <2>2. payment[job[w].key].status = "absent"
    BY <1>0, <1>7 DEF IInv, LocksOK, Books, Settling, Recorded
  <2>3. PaymentsSeen(w) = [payment EXCEPT ![job[w].key] =
          [status |-> "paid", inv |-> job[w].inv, amount |-> job[w].amt, refunded |-> 0]]
    BY <1>7 DEF PaymentsSeen
  <2>4. \A k \in Keys : PaymentsSeen(w)[k] =
          IF k = job[w].key
          THEN [status |-> "paid", inv |-> job[w].inv, amount |-> job[w].amt, refunded |-> 0]
          ELSE payment[k]
    BY <1>0, <2>3
  <2>5. Held(PaymentsSeen(w), InvoicesSeen(w)) = Held(payment, InvoicesSeen(w))
    BY <1>4, <2>1, <2>2, <2>4 DEF Held
  <2>6. \A k \in Held(payment, InvoicesSeen(w)) : PaymentsSeen(w)[k] = payment[k]
    BY <2>2, <2>4 DEF Held
  <2>7. NetPaid(PaymentsSeen(w), InvoicesSeen(w)) = NetPaid(payment, InvoicesSeen(w))
    BY <2>5, <2>6, NetPaidSame
  <2> QED
    BY <1>2, <1>6, <2>7
<1>8. CASE job[w].op = "refund"
  <2>1. job[w].key \in Keys /\ invoice[payment[job[w].key].inv].on = Public
        /\ payment[job[w].key].inv \in Invoices
    BY <1>0, <1>5, <1>8 DEF RequestOK, Told, RefundTold, Recorded
  <2>2. PaymentsSeen(w) = [payment EXCEPT ![job[w].key] = AfterRefund(@, job[w])]
    BY <1>8 DEF PaymentsSeen, Settling, SettleOps
  <2>3. \A k \in Keys : PaymentsSeen(w)[k] =
          IF k = job[w].key THEN AfterRefund(payment[k], job[w]) ELSE payment[k]
    BY <1>0, <2>2
  <2>4. AfterRefund(payment[job[w].key], job[w]).inv = payment[job[w].key].inv
    BY <1>0, <2>1, AfterRefundType
  <2>5. Held(PaymentsSeen(w), InvoicesSeen(w)) = Held(payment, InvoicesSeen(w))
    BY <1>4, <2>1, <2>3, <2>4 DEF Held
  <2>6. \A k \in Held(payment, InvoicesSeen(w)) : PaymentsSeen(w)[k] = payment[k]
    BY <1>4, <2>1, <2>3 DEF Held
  <2>7. NetPaid(PaymentsSeen(w), InvoicesSeen(w)) = NetPaid(payment, InvoicesSeen(w))
    BY <2>5, <2>6, NetPaidSame
  <2> QED
    BY <1>2, <1>6, <2>7
<1>9. CASE ~Settling(w) /\ job[w].op # "refund"
  BY <1>2, <1>6, <1>9 DEF PaymentsSeen
<1> QED
  BY <1>7, <1>8, <1>9

\* So a commit leaves the ledger what the rows add up to.
LEMMA CommitCurrent ==
  ASSUME IInv, Promise, AllPlaced, Figured, Follows, Alone, NEW w \in Workers, At(w, "commit"),
         payment' = PaymentsSeen(w), invoice' = InvoicesSeen(w),
         installment' = InstallmentsSeen(w),
         ledger' = IF NeedsLedger(w) THEN LedgerAfter(w) ELSE ledger
  PROVE  Current'
<1>1. CASE job[w].on = Public
  <2>1. /\ NetPaid(payment', invoice') = NetPaid(payment, invoice)
        /\ installment' = installment /\ ledger' = ledger
    BY <1>1, PublicCommit DEF NeedsLedger
  <2> QED
    BY <2>1 DEF Follows, Current
<1>2. CASE job[w].on # Public
  <2>1. Reckons(w) /\ ~At(w, "plan") /\ ~At(w, "row")
    BY <1>2 DEF Reckons, At
  <2>2. /\ books[w].row = ledger
        /\ books[w].paid = NetPaid(PaymentsSeen(w), InvoicesSeen(w))
        /\ books[w].due = TotalDue(InstallmentsSeen(w))
    BY <2>1 DEF Follows, Reckoned
  <2>3. ledger' = Totals(books[w].paid, books[w].due)
    BY <1>2, <2>2, LedgerAfterCurrent DEF NeedsLedger
  <2> QED
    BY <2>2, <2>3 DEF Current
<1> QED
  BY <1>1, <1>2

\* So does the row a new balance invoice is inserted with.
LEMMA RaiseCurrent ==
  ASSUME IInv, Promise, Figured, Follows, Alone, NEW w \in Workers, NEW i \in Invoices,
         RaiseInvoice(w, i)
  PROVE  Current'
<1>0. /\ invoice \in [Invoices -> InvoiceRows] /\ RequestOK(job[w]) /\ Told(job[w])
      /\ job[w].op \in CreateOps /\ At(w, "gateway") /\ invoice[i].status = "absent"
  BY DEF IInv, TypeOK, LinksOK, Promise, Knows, RaiseInvoice, RequestOK, At
<1>1. CASE UNCHANGED tables
  BY <1>1 DEF tables, Follows, Current
<1>2. CASE ~UNCHANGED tables
  <2>1. /\ invoice' = [invoice EXCEPT ![i] =
                         [status |-> "pending", on |-> job[w].on, amount |-> job[w].amt]]
        /\ ledger' = IF job[w].on = Balance THEN LedgerAfter(w) ELSE ledger
        /\ UNCHANGED <<payment, installment>>
    BY <1>2 DEF RaiseInvoice
  <2>2. \A k \in Keys : payment[k].status # "absent" =>
          payment[k].inv \in Invoices /\ payment[k].inv # i
    BY <1>0 DEF IInv, LinksOK, Recorded, Promise, PaymentsOK
  <2>3. NetPaid(payment, invoice') = NetPaid(payment, invoice)
    BY <1>0, <2>1, <2>2, InvoicesSame
  <2>4. CASE job[w].on = Balance
    <3>1. job[w].op = "create"
      BY <1>0, <2>4 DEF Told, PlanTold, CreateOps, Balance, Public
    <3>2. Reckons(w) /\ ~At(w, "plan") /\ ~At(w, "row")
      BY <1>0, <2>4, <3>1 DEF Reckons, At
    <3>3. /\ books[w].row = ledger
          /\ books[w].paid = NetPaid(PaymentsSeen(w), InvoicesSeen(w))
          /\ books[w].due = TotalDue(InstallmentsSeen(w))
      BY <3>2 DEF Follows, Reckoned
    <3>4. ledger' = Totals(NetPaid(payment, invoice), TotalDue(installment))
      BY <1>0, <2>1, <2>4, <3>3, SeenByReader, LedgerAfterCurrent
    <3> QED
      BY <2>1, <2>3, <3>4 DEF Current
  <2>5. CASE job[w].on # Balance
    BY <2>1, <2>3, <2>5 DEF Follows, Current
  <2> QED
    BY <2>4, <2>5
<1> QED
  BY <1>1, <1>2

-----------------------------------------------------------------------------
(* The ledger follows.                                                     *)

\* A request that arrives has reckoned nothing yet.
LEMMA ArrivalFollows ==
  ASSUME IInv, Promise, Singly, Follows, Alone, NEW w \in Workers, Arrival(w)
  PROVE  Current' /\ \A v \in Workers : Reckoned(v)'
<1>1. PICK j : Start(w, j) /\ Fresh(j)
  BY ArrivalRequest DEF Promise
<1>2. /\ UNCHANGED <<tables, books>> /\ job' = [job EXCEPT ![w] = j]
      /\ \A v \in Workers : job[v].step = "idle"
  BY <1>1 DEF Start, At
<1>3. Current'
  BY <1>2 DEF tables, Follows, Current
<1>4. ASSUME NEW v \in Workers \ {w} PROVE Reckoned(v)'
  <2>1. job'[v] = Idle
    BY <1>2 DEF Singly, At, IInv, TypeOK
  <2> QED
    BY <2>1 DEF Reckoned, Reckons, Idle
<1>5. Reckoned(w)'
  <2>1. job'[w] = j /\ invoice' = invoice
    BY <1>2 DEF tables, IInv, TypeOK
  <2>2. /\ j.step \notin {"plan", "row", "commit", "quote"}
        /\ j.step = "gateway" => j.on # Balance
    BY <1>1, BoundsAssumption
       DEF Fresh, FreshSettle, FreshSwitch, FreshEdit, FreshRefund, FreshInvoice, SettleOps,
           Installments, Balance, Public
  <2> QED
    BY <2>1, <2>2 DEF Reckoned, Reckons
<1> QED
  BY <1>3, <1>4, <1>5

\* A request that takes its next step has read what it then says it has.
LEMMA GoFollows ==
  ASSUME IInv, NEW w \in Workers, NEW s, Go(w, s), UNCHANGED tables
  PROVE  /\ PaymentsSeen(w)' = PaymentsSeen(w)
         /\ InvoicesSeen(w)' = InvoicesSeen(w)
         /\ InstallmentsSeen(w)' = InstallmentsSeen(w)
         /\ job'[w].step = s /\ job'[w].on = job[w].on /\ job'[w].op = job[w].op
         /\ ledger' = ledger
<1>0. job[w] \in Jobs /\ job'[w] = [job[w] EXCEPT !.step = s]
  BY DEF IInv, TypeOK, Go
<1>1. /\ job'[w].op = job[w].op /\ job'[w].inv = job[w].inv /\ job'[w].key = job[w].key
      /\ job'[w].on = job[w].on /\ job'[w].amt = job[w].amt /\ job'[w].was = job[w].was
      /\ job'[w].saw = job[w].saw /\ job'[w].step = s
  BY <1>0 DEF Jobs
<1> QED
  BY <1>1, SeenStands DEF tables

\* The three reads.
LEMMA ReadFollows ==
  ASSUME IInv, Figured, Follows, Alone, NEW w \in Workers,
         SumPayments(w) \/ SumPlan(w) \/ ReadLedger(w)
  PROVE  Reckoned(w)'
<1>0. UNCHANGED tables /\ books \in [Workers -> Readings] /\ Reckoned(w)
  BY DEF SumPayments, SumPlan, ReadLedger, Figured, Follows
<1>1. CASE SumPayments(w)
  <2>1. /\ Go(w, "plan")
        /\ books' = [books EXCEPT ![w].paid = NetPaid(PaymentsSeen(w), InvoicesSeen(w))]
    BY <1>1 DEF SumPayments
  <2>2. books'[w].paid = NetPaid(PaymentsSeen(w), InvoicesSeen(w))
    BY <1>0, <2>1 DEF Readings
  <2> QED
    BY <1>0, <2>1, <2>2, GoFollows DEF Reckoned, At
<1>2. CASE SumPlan(w)
  <2>1. /\ At(w, "plan") /\ Go(w, "row")
        /\ books' = [books EXCEPT ![w].due = TotalDue(InstallmentsSeen(w))]
    BY <1>2 DEF SumPlan
  <2>2. books'[w].due = TotalDue(InstallmentsSeen(w)) /\ books'[w].paid = books[w].paid
    BY <1>0, <2>1 DEF Readings
  <2>3. job'[w].on # Public => books[w].paid = NetPaid(PaymentsSeen(w), InvoicesSeen(w))
    BY <1>0, <2>1, GoFollows DEF Reckoned, Reckons, At
  <2>4. Reckons(w)' => job'[w].on # Public
    BY <1>0, <2>1, GoFollows DEF Reckons, Balance, Public
  <2> QED
    BY <1>0, <2>1, <2>2, <2>3, <2>4, GoFollows DEF Reckoned, At
<1>3. CASE ReadLedger(w)
  <2>1. /\ At(w, "row") /\ Go(w, IF job[w].op = "create" THEN "quote" ELSE "commit")
        /\ books' = [books EXCEPT ![w].row = ledger]
    BY <1>3 DEF ReadLedger
  <2>2. /\ books'[w].row = ledger /\ books'[w].due = books[w].due
        /\ books'[w].paid = books[w].paid
    BY <1>0, <2>1 DEF Readings
  <2>3. job'[w].on # Public => /\ books[w].paid = NetPaid(PaymentsSeen(w), InvoicesSeen(w))
                               /\ books[w].due = TotalDue(InstallmentsSeen(w))
    BY <1>0, <2>1, GoFollows DEF Reckoned, Reckons, At
  <2>4. Reckons(w)' => job'[w].on # Public
    BY <1>0, <2>1, GoFollows DEF Reckons, Balance, Public
  <2> QED
    BY <1>0, <2>1, <2>2, <2>3, <2>4, GoFollows DEF Reckoned
<1> QED
  BY <1>1, <1>2, <1>3

\* The quote is made from what was read.
LEMMA QuoteFollows ==
  ASSUME IInv, Promise, Follows, Alone, NEW w \in Workers, Quote(w)
  PROVE  Reckoned(w)'
<1>0. job[w] \in Jobs /\ job[w].op \in CreateOps /\ UNCHANGED tables /\ At(w, "quote")
      /\ Reckoned(w)
  BY DEF IInv, TypeOK, LinksOK, RequestOK, Quote, At, Follows
<1>1. CASE Finish(w)
  BY <1>1, EndsIdle DEF Finish
<1>2. CASE ~Finish(w)
  <2>1. PICK value \in Figures :
          /\ job' = [job EXCEPT ![w] = [job[w] EXCEPT !.step = "gateway", !.amt = value]]
          /\ UNCHANGED books
    BY <1>2 DEF Quote
  <2>2. job'[w] = [job[w] EXCEPT !.step = "gateway", !.amt = value]
    BY <2>1 DEF IInv, TypeOK
  <2>3. job'[w].op = job[w].op /\ job'[w].on = job[w].on /\ job'[w].step = "gateway"
    BY <1>0, <2>2 DEF Jobs
  <2>4. /\ (PaymentsSeen(w) = payment /\ InvoicesSeen(w) = invoice
             /\ InstallmentsSeen(w) = installment)'
        /\ PaymentsSeen(w) = payment /\ InvoicesSeen(w) = invoice
        /\ InstallmentsSeen(w) = installment
    <3>1. PaymentsSeen(w) = payment /\ InvoicesSeen(w) = invoice
          /\ InstallmentsSeen(w) = installment
      BY <1>0, SeenByReader
    <3>2. (PaymentsSeen(w) = payment /\ InvoicesSeen(w) = invoice
             /\ InstallmentsSeen(w) = installment)'
      BY <1>0, <2>3 DEF PaymentsSeen, InvoicesSeen, InstallmentsSeen, WritesInvoice,
         WritesInstallment, Settling, SettleOps, EditOps, CreateOps
    <3> QED
      BY <3>1, <3>2
  <2>5. UNCHANGED <<payment, invoice, installment, ledger>>
    BY <1>0 DEF tables
  <2>6. Reckons(w)' => Reckons(w)
    BY <1>0, <2>3 DEF Reckons, At
  <2>7. Reckoned(w)'
    BY <1>0, <2>1, <2>3, <2>4, <2>5, <2>6 DEF Reckoned, At
  <2> QED
    BY <2>7
<1> QED
  BY <1>1, <1>2

\* A flush writes rows of its own and goes on to the sums, or to its commit where no
\* enrollment is behind them.
LEMMA FlushReckons ==
  ASSUME IInv, AllPlaced, NEW w \in Workers, Flush(w)
  PROVE  ~Reckons(w)'
<1>0. job[w] \in Jobs /\ Placed(w) /\ At(w, "flush")
  BY DEF IInv, TypeOK, Flush, AllPlaced
<1>1. CASE Finish(w)
  <2>1. job'[w] = Idle
    BY <1>1 DEF Finish, IInv, TypeOK
  <2> QED
    BY <2>1 DEF Reckons, Idle
<1>2. CASE ~Finish(w)
  <2>1. job'[w] = Locked(w)
    BY <1>2 DEF Flush, IInv, TypeOK
  <2>2. /\ job'[w].step \in {"rest", IF job[w].on # Public THEN "sum" ELSE "commit"}
        /\ job'[w].on = IF Settling(w) THEN Marks(w) ELSE job[w].on
        /\ job'[w].op = job[w].op
    BY <1>0, <2>1, LockedJob, LockedOn DEF NeedsLedger
  <2>3. Settling(w) => (Marks(w) = Public <=> invoice[job[w].inv].on = Public)
    BY BoundsAssumption DEF Marks, Installments, Balance, Public
  <2> QED
    BY <1>0, <2>2, <2>3 DEF Reckons, Placed
<1> QED
  BY <1>1, <1>2

-----------------------------------------------------------------------------
(* It starts out so, and every step keeps it so.                           *)

\* As many equal parts come to their product.
LEMMA SumConstant ==
  ASSUME NEW f, NEW S, IsFiniteSet(S), NEW q \in Int, \A x \in S : f[x] = q
  PROVE  SumFunctionOnSet(f, S) = q * Cardinality(S)
<1> DEFINE Sum(s) == SumFunctionOnSet(f, s)
           B == {T \in SUBSET S : Sum(T) # q * Cardinality(T)}
<1> SUFFICES ASSUME B # {} PROVE FALSE
  OBVIOUS
<1>1. PICK T \in B : \A U \in B : U \subseteq T => U = T
  <2>1. B \subseteq SUBSET S
    OBVIOUS
  <2> HIDE DEF B
  <2> QED
    BY <2>1, SmallestPart
<1>2. T \in SUBSET S /\ IsFiniteSet(T) /\ Sum(T) # q * Cardinality(T)
  BY <1>1, FS_Subset
<1>3. T # {}
  BY <1>2, SumEmpty, FS_EmptySet
<1>4. PICK x \in T : TRUE
  BY <1>3
<1>5. Sum(T) = q + Sum(T \ {x})
  BY <1>2, <1>4, SumRemove
<1>6. /\ IsFiniteSet(T \ {x}) /\ Cardinality(T \ {x}) = Cardinality(T) - 1
      /\ Cardinality(T) \in Nat
  BY <1>2, <1>4, FS_RemoveElement, FS_CardinalityType
<1>7. Sum(T \ {x}) = q * (Cardinality(T) - 1)
  <2>1. T \ {x} \in SUBSET S /\ T \ {x} \subseteq T /\ T \ {x} # T
    BY <1>2, <1>4
  <2>2. T \ {x} \notin B
    BY <1>1, <2>1
  <2> QED
    BY <1>6, <2>1, <2>2
<1>8. \A n \in Nat : q + q * (n - 1) = q * n
  OBVIOUS
<1> QED
  BY <1>2, <1>5, <1>6, <1>7, <1>8

\* The plan that is laid out comes to the price.
LEMMA DefaultPlanDue == TotalDue(DefaultPlan) = Price
<1> DEFINE plan == {n \in Installments : DefaultPlan[n].status \notin {"absent", "deleted"}}
           owed == {m \in plan : DefaultPlan[m].status # "waived"}
           f == [n \in owed |-> DefaultPlan[n].amount]
           q == Price \div InstallmentCount
<1>0. /\ Price \in Nat /\ InstallmentCount \in Nat /\ InstallmentCount > 0
      /\ 1..InstallmentCount \subseteq Installments /\ q \in Int
  BY BoundsAssumption DEF Installments
<1>1. TotalDue(DefaultPlan) = IF plan = {} THEN Price ELSE SumFunctionOnSet(f, owed)
  BY DEF TotalDue, SumFunction
<1>2. CASE Price = 0
  BY <1>0, <1>1, <1>2 DEF DefaultPlan
<1>3. CASE Price > 0
  <2>0. \A n \in Installments :
          /\ n \in 1..InstallmentCount => DefaultPlan[n] =
               [status |-> "pending", amount |-> Split(Price, InstallmentCount)[n]]
          /\ n \notin 1..InstallmentCount => DefaultPlan[n] = [status |-> "absent", amount |-> 0]
    BY <1>3 DEF DefaultPlan
  <2>1. \A n \in Installments :
          /\ n \in 1..InstallmentCount =>
               DefaultPlan[n].status = "pending"
               /\ DefaultPlan[n].amount = Split(Price, InstallmentCount)[n]
          /\ n \notin 1..InstallmentCount => DefaultPlan[n].status = "absent"
    <3> SUFFICES ASSUME NEW n \in Installments
                 PROVE  /\ n \in 1..InstallmentCount =>
                             /\ DefaultPlan[n].status = "pending"
                             /\ DefaultPlan[n].amount = Split(Price, InstallmentCount)[n]
                        /\ n \notin 1..InstallmentCount => DefaultPlan[n].status = "absent"
      BY Zenon
    <3>1. CASE n \in 1..InstallmentCount
      <4>1. DefaultPlan[n] = [status |-> "pending", amount |-> Split(Price, InstallmentCount)[n]]
        BY <2>0, <3>1
      <4> QED
        BY <3>1, <4>1
    <3>2. CASE n \notin 1..InstallmentCount
      <4>1. DefaultPlan[n] = [status |-> "absent", amount |-> 0]
        BY <2>0, <3>2
      <4> QED
        BY <3>2, <4>1
    <3> QED
      BY <3>1, <3>2
  <2>2. plan = 1..InstallmentCount /\ owed = 1..InstallmentCount
    <3>1. \A n \in Installments : DefaultPlan[n].status =
            IF n \in 1..InstallmentCount THEN "pending" ELSE "absent"
      BY <2>1
    <3>2. plan = 1..InstallmentCount
      BY <1>0, <3>1
    <3> QED
      BY <1>0, <3>1, <3>2
  <2>3. \A n \in 1..InstallmentCount :
          f[n] = IF n = 1 THEN Price - q * (InstallmentCount - 1) ELSE q
    <3>1. \A n \in 1..InstallmentCount :
            DefaultPlan[n].amount = Split(Price, InstallmentCount)[n]
      BY <1>0, <2>1
    <3>2. \A n \in 1..InstallmentCount : f[n] = DefaultPlan[n].amount
      BY <2>2
    <3>3. \A n \in 1..InstallmentCount : Split(Price, InstallmentCount)[n] =
            IF n = 1 THEN Price - q * (InstallmentCount - 1) ELSE q
      BY DEF Split
    <3> QED
      BY <3>1, <3>2, <3>3
  <2>4. plan # {}
    BY <1>0, <2>2
  <2> HIDE DEF f, q, owed, plan
  <2>5. /\ IsFiniteSet(1..InstallmentCount)
        /\ 1 \in 1..InstallmentCount
        /\ (1..InstallmentCount) \ {1} = 2..InstallmentCount
    <3>1. IsFiniteSet(1..InstallmentCount)
      BY <1>0, FS_Interval
    <3>2. 1 \in 1..InstallmentCount /\ (1..InstallmentCount) \ {1} = 2..InstallmentCount
      BY <1>0
    <3> QED
      BY <3>1, <3>2
  <2>6. q * (InstallmentCount - 1) \in Int
    BY <1>0
  <2>7. \A n \in 1..InstallmentCount : f[n] \in Int
    BY <1>0, <2>3, <2>6
  <2>8. SumFunctionOnSet(f, 1..InstallmentCount) = f[1] + SumFunctionOnSet(f, 2..InstallmentCount)
    <3>1. SumFunctionOnSet(f, 1..InstallmentCount)
            = f[1] + SumFunctionOnSet(f, (1..InstallmentCount) \ {1})
      <4> DEFINE S == 1..InstallmentCount
      <4>1. IsFiniteSet(S) /\ 1 \in S /\ \A n \in S : f[n] \in Int
        BY <2>5, <2>7
      <4> HIDE DEF S
      <4>2. SumFunctionOnSet(f, S) = f[1] + SumFunctionOnSet(f, S \ {1})
        BY <4>1, SumRemove
      <4> QED
        BY <4>2 DEF S
    <3> QED
      BY <2>5, <3>1
  <2>9. IsFiniteSet(2..InstallmentCount) /\ Cardinality(2..InstallmentCount) = InstallmentCount - 1
    BY <1>0, FS_Interval
  <2>10. SumFunctionOnSet(f, 2..InstallmentCount) = q * (InstallmentCount - 1)
    <3>1. \A n \in 2..InstallmentCount : f[n] = q
      BY <1>0, <2>3
    <3>2. SumFunctionOnSet(f, 2..InstallmentCount) = q * Cardinality(2..InstallmentCount)
      BY <1>0, <2>9, <3>1, SumConstant
    <3> QED
      BY <2>9, <3>2
  <2>11. f[1] = Price - q * (InstallmentCount - 1)
    BY <2>3, <2>5
  <2> QED
    BY <1>0, <1>1, <2>2, <2>4, <2>6, <2>8, <2>10, <2>11
<1> QED
  BY <1>0, <1>2, <1>3

\* At the start the ledger is what the tables add up to.
LEMMA FollowsInit == Init => Follows
<1> SUFFICES ASSUME Init PROVE Follows
  OBVIOUS
<1>1. \A w \in Workers : Reckoned(w)
  BY DEF Init, Idle, Reckoned, Reckons
<1>2. NetPaid(payment, invoice) = 0
  <2>1. Held(payment, invoice) = {}
    BY DEF Init, Held
  <2>2. NetPaid(payment, invoice) =
          SumFunctionOnSet([k \in {} |-> payment[k].amount - payment[k].refunded], {})
    BY <2>1 DEF NetPaid, SumFunction
  <2> QED
    BY <2>2, SumEmpty
<1>3. Current
  BY <1>2, DefaultPlanDue DEF Init, Current, NoRow
<1> QED
  BY <1>1, <1>3 DEF Follows

\* One request at a time, each step of it leaves the ledger current, and what
\* it has read is what it would read now.
LEMMA ProgressFollows ==
  ASSUME IInv, Promise, Singly, AllPlaced, Figured, Follows, Alone, NEW w \in Workers,
         Progress(w) \/ Abort(w)
  PROVE  Current' /\ \A v \in Workers : Reckoned(v)'
<1>0. job \in [Workers -> Jobs] /\ invoice \in [Invoices -> InvoiceRows]
  BY DEF IInv, TypeOK
<1>1. ASSUME NEW j, job' = [job EXCEPT ![w] = j], ~At(w, "idle"), Current',
             Reckoned(w)'
      PROVE  Current' /\ \A v \in Workers : Reckoned(v)'
  BY <1>1, OthersIdle
<1>2. UNCHANGED tables => Current'
  BY DEF tables, Follows, Current
<1>3. CASE SumPayments(w) \/ SumPlan(w) \/ ReadLedger(w)
  <2>1. UNCHANGED tables /\ ~At(w, "idle") /\ \E j : job' = [job EXCEPT ![w] = j]
    BY <1>3 DEF SumPayments, SumPlan, ReadLedger, At, Go
  <2>2. Reckoned(w)'
    BY <1>3, ReadFollows
  <2> QED
    BY <1>1, <1>2, <2>1, <2>2
<1>4. CASE Quote(w) \/ Flush(w)
  <2>1. UNCHANGED tables /\ ~At(w, "idle") /\ \E j : job' = [job EXCEPT ![w] = j]
    BY <1>4 DEF Quote, Flush, At, Finish
  <2>2. Reckoned(w)'
    BY <1>4, QuoteFollows, FlushReckons DEF Reckoned
  <2> QED
    BY <1>1, <1>2, <2>1, <2>2
<1>5. CASE Lookup(w) \/ LockInvoice(w) \/ LockRest(w)
  <2>0. UNCHANGED tables /\ ~At(w, "idle")
    BY <1>5 DEF Lookup, LockInvoice, LockRest, At
  <2>1. Finish(w) \/ \E s \in {"hold", "flush", "mark", "cancel", "sum"} : Go(w, s)
    BY <1>5 DEF Lookup, LockInvoice, LockRest
  <2>2. CASE Finish(w)
    BY <1>1, <1>2, <2>0, <2>2, EndsIdle DEF Finish
  <2>3. ASSUME NEW s \in {"hold", "flush", "mark", "cancel", "sum"}, Go(w, s)
        PROVE  Current' /\ \A v \in Workers : Reckoned(v)'
    <3>1. job'[w].step = s
      BY <2>0, <2>3, GoFollows
    <3>2. Reckoned(w)'
      BY <3>1 DEF Reckoned, Reckons
    <3> QED
      BY <1>1, <1>2, <2>0, <2>3, <3>2 DEF Go
  <2> QED
    BY <2>1, <2>2, <2>3
<1>6. CASE Abort(w) \/ BreakCircle(w)
  <2>1. ~At(w, "idle")
    <3>1. BreakCircle(w) => WaitsFor(w) # {}
      BY DEF BreakCircle, Circle
    <3>2. WaitsFor(w) # {} => ~At(w, "idle")
      BY DEF WaitsFor, At
    <3> QED
      BY <1>6, <3>1, <3>2 DEF Abort
  <2> QED
    BY <1>1, <1>2, <1>6, <2>1, EndsIdle DEF Abort, BreakCircle, Finish
<1>7. CASE MarkInvoicePaid(w) \/ CancelInvoice(w)
  <2>1. /\ job' = [job EXCEPT ![w] = Idle] /\ ~At(w, "idle")
        /\ UNCHANGED <<payment, installment, ledger>>
    BY <1>7 DEF MarkInvoicePaid, CancelInvoice, Finish, At
  <2>2. \A i \in Invoices : invoice'[i].on = invoice[i].on
    <3>1. \A i \in Invoices : \/ invoice'[i] = invoice[i]
                              \/ invoice'[i] = [invoice[i] EXCEPT !.status = "paid"]
                              \/ invoice'[i] = [invoice[i] EXCEPT !.status = "cancelled"]
      BY <1>0, <1>7 DEF MarkInvoicePaid, CancelInvoice
    <3> QED
      BY <1>0, <3>1 DEF InvoiceRows
  <2>3. \A k \in Keys : payment[k].status # "absent" => payment[k].inv \in Invoices
    BY DEF IInv, LinksOK, Recorded
  <2>4. NetPaid(payment, invoice') = NetPaid(payment, invoice)
    BY <2>2, <2>3, InvoicesSame
  <2>5. Current'
    BY <2>1, <2>4 DEF Follows, Current
  <2> QED
    BY <1>1, <2>1, <2>5, EndsIdle
<1>8. ASSUME NEW i \in Invoices, RaiseInvoice(w, i)
      PROVE  Current' /\ \A v \in Workers : Reckoned(v)'
  <2>1. job' = [job EXCEPT ![w] = Idle] /\ ~At(w, "idle")
    BY <1>8 DEF RaiseInvoice, Finish, At
  <2> QED
    BY <1>1, <1>8, <2>1, EndsIdle, RaiseCurrent
<1>9. CASE Commit(w)
  <2>0. At(w, "commit") /\ ~At(w, "idle")
    BY <1>9 DEF Commit, At
  <2>1. CASE LedgerClash(w)
    BY <1>1, <1>2, <1>9, <2>0, <2>1, EndsIdle DEF Commit, Finish
  <2>2. CASE ~LedgerClash(w)
    <3>1. /\ payment' = PaymentsSeen(w) /\ invoice' = InvoicesSeen(w)
          /\ installment' = InstallmentsSeen(w)
          /\ ledger' = IF NeedsLedger(w) THEN LedgerAfter(w) ELSE ledger
          /\ IF StillToCancel(w) THEN Go(w, "cancel") ELSE Finish(w)
      BY <1>9, <2>2 DEF Commit
    <3>2. Current'
      BY <2>0, <3>1, CommitCurrent
    <3>3. CASE ~StillToCancel(w)
      BY <1>1, <2>0, <3>1, <3>2, <3>3, EndsIdle DEF Finish
    <3>4. CASE StillToCancel(w)
      <4>1. Go(w, "cancel")
        BY <3>1, <3>4
      <4>2. job'[w].step = "cancel"
        BY <1>0, <4>1 DEF Go, Jobs
      <4>3. Reckoned(w)'
        BY <4>2 DEF Reckoned, Reckons
      <4> QED
        BY <1>1, <2>0, <3>2, <4>1, <4>3 DEF Go
    <3> QED
      BY <3>3, <3>4
  <2> QED
    BY <2>1, <2>2
<1> QED
  BY <1>3, <1>4, <1>5, <1>6, <1>7, <1>8, <1>9 DEF Progress

\* In every behaviour with one request at a time the ledger is what payments and
\* plan add up to: recompute_ledger is missed by no operation that moves money or
\* changes the plan.
THEOREM FollowsKept == Spec => []Follows
<1>1. Init => Follows
  BY FollowsInit
<1>2. IInv /\ Promise /\ Singly /\ AllPlaced /\ Figured /\ Follows /\ [Next]_vars => Follows'
  <2> SUFFICES ASSUME IInv, Promise, Singly, AllPlaced, Figured, Follows, [Next]_vars
               PROVE  Follows'
    OBVIOUS
  <2>1. CASE World \/ UNCHANGED vars
    <3>1. UNCHANGED <<mix, invoice, payment, installment, ledger, job, books>>
      BY <2>1 DEF World, BuyerPays, BankPosts, tables, vars
    <3>2. Alone' = Alone /\ Current' = Current
      BY <3>1 DEF Alone, Current
    <3>3. \A w \in Workers : Reckoned(w)' = Reckoned(w)
      BY <3>1 DEF Reckoned, Reckons, Settling, At, PaymentsSeen, InvoicesSeen,
                  InstallmentsSeen, WritesInvoice, WritesInstallment, Short, AfterRefund,
                  InstallmentAfter
    <3> QED
      BY <3>2, <3>3 DEF Follows
  <2>2. ASSUME NEW w \in Workers, Arrival(w) \/ Progress(w) \/ Abort(w) PROVE Follows'
    <3>1. Alone' = Alone
      <4>1. CASE Arrival(w)
        BY <4>1, ArrivalRequest DEF Promise, Start, gateway, Alone
      <4>2. CASE Progress(w) \/ Abort(w)
        BY <4>2 DEF Progress, Abort, Lookup, MarkInvoicePaid, CancelInvoice, LockInvoice, Flush,
                    LockRest, BreakCircle, SumPayments, SumPlan, ReadLedger, Commit, Quote, RaiseInvoice, gateway, Alone
      <4> QED
        BY <2>2, <4>1, <4>2
    <3> QED
      BY <2>2, <3>1, ArrivalFollows, ProgressFollows DEF Follows
  <2> QED
    BY <2>1, <2>2 DEF Next
<1> QED
  BY <1>1, <1>2, Invariance, PromiseKept, SinglyKept, PlacedKept, FiguredKept, PTL DEF Spec

\* One request at a time, though any of them may die, the ledger between them is what
\* the source rows add up to (ledger.py:29-36), for every plan, price and number of
\* invoices.
THEOREM LedgerFollowsAlways == Spec => []LedgerFollows
<1>1. Follows => LedgerFollows
  BY DEF Follows, LedgerFollows, LedgerCurrent, Current
<1> QED
  BY <1>1, FollowsKept, PTL

-----------------------------------------------------------------------------
(* The ledger credits no money that is not on the books.                   *)

Solvent ==
  /\ ledger.paid <= Booked(payment, invoice)
  /\ \A w \in Workers :
       Reckons(w) => books[w].paid <= Booked(PaymentsSeen(w), InvoicesSeen(w))

\* A sum of zeros.
LEMMA SumZero ==
  ASSUME NEW f, NEW S, IsFiniteSet(S), \A x \in S : f[x] = 0
  PROVE  SumFunctionOnSet(f, S) = 0
<1>1. SumFunctionOnSet(f, S) = 0 * Cardinality(S) /\ Cardinality(S) \in Nat
  BY SumConstant, FS_CardinalityType
<1> QED
  BY <1>1

\* Wherever f counts anything, g counts at least as much.
LEMMA SumCovers ==
  ASSUME NEW f, NEW S, NEW g, NEW T, IsFiniteSet(S), IsFiniteSet(T),
         \A x \in S : f[x] \in Int, \A x \in T : g[x] \in Nat,
         \A x \in S : f[x] > 0 => x \in T /\ f[x] <= g[x]
  PROVE  SumFunctionOnSet(f, S) <= SumFunctionOnSet(g, T)
<1> DEFINE P == {x \in S : f[x] > 0}
           Z == [x \in S \ P |-> 0]
<1>1. P \subseteq T /\ P \subseteq S /\ S = P \cup (S \ P) /\ P \cap (S \ P) = {}
      /\ IsFiniteSet(P) /\ IsFiniteSet(S \ P)
  BY FS_Subset
<1>2. \A x \in S \ P : f[x] \in Int /\ Z[x] \in Int /\ f[x] <= Z[x] /\ Z[x] = 0
  OBVIOUS
<1>3. \A x \in P : f[x] \in Int /\ g[x] \in Int /\ f[x] <= g[x]
  BY <1>1
<1>4. \A x \in T : g[x] \in Int /\ g[x] >= 0
  OBVIOUS
<1> HIDE DEF P, Z
<1>5. SumFunctionOnSet(f, P \cup (S \ P)) = SumFunctionOnSet(f, P) + SumFunctionOnSet(f, S \ P)
  <2> DEFINE N == S \ P
  <2>1. IsFiniteSet(N) /\ P \cap N = {} /\ \A x \in P \cup N : f[x] \in Int
    BY <1>1
  <2> HIDE DEF N
  <2>2. SumFunctionOnSet(f, P \cup N) = SumFunctionOnSet(f, P) + SumFunctionOnSet(f, N)
    BY <1>1, <2>1, SumUnion
  <2> QED
    BY <2>2 DEF N
<1>6. SumFunctionOnSet(f, S \ P) <= SumFunctionOnSet(Z, S \ P)
      /\ SumFunctionOnSet(Z, S \ P) = 0
  <2> DEFINE N == S \ P
  <2>1. IsFiniteSet(N) /\ \A x \in N : f[x] \in Int /\ Z[x] \in Int /\ f[x] <= Z[x] /\ Z[x] = 0
    BY <1>1, <1>2
  <2> HIDE DEF N
  <2>2. SumFunctionOnSet(f, N) <= SumFunctionOnSet(Z, N) /\ SumFunctionOnSet(Z, N) = 0
    BY <2>1, SumMonotone, SumZero
  <2> QED
    BY <2>2 DEF N
<1>7. SumFunctionOnSet(f, P) <= SumFunctionOnSet(g, P)
  BY <1>1, <1>3, SumMonotone
<1>8. SumFunctionOnSet(g, P) <= SumFunctionOnSet(g, T)
  BY <1>1, <1>4, SumOfMore
<1>9. /\ SumFunctionOnSet(f, P) \in Int /\ SumFunctionOnSet(f, S \ P) \in Int
      /\ SumFunctionOnSet(g, P) \in Int /\ SumFunctionOnSet(g, T) \in Int
  <2>1. SumFunctionOnSet(f, P) \in Int /\ SumFunctionOnSet(g, P) \in Int
    BY <1>1, <1>3, SumType
  <2>2. SumFunctionOnSet(g, T) \in Int
    BY <1>4, SumType
  <2> DEFINE N == S \ P
  <2>3. IsFiniteSet(N) /\ \A x \in N : f[x] \in Int
    BY <1>1, <1>2
  <2> HIDE DEF N
  <2>4. SumFunctionOnSet(f, N) \in Int
    BY <2>3, SumType
  <2> QED
    BY <2>1, <2>2, <2>4 DEF N
<1>10. SumFunctionOnSet(f, S) = SumFunctionOnSet(f, P) + SumFunctionOnSet(f, S \ P)
  BY <1>1, <1>5
<1> QED
  BY <1>6, <1>7, <1>8, <1>9, <1>10

\* What is booked for one row is booked for another that keeps it: more rows, or more
\* in them, come to no less.
LEMMA BookedGrows ==
  \A pay \in [Keys -> PaymentRows], pay2 \in [Keys -> PaymentRows] : \A inv, inv2 :
    (\A k \in Keys : pay[k].status # "absent" /\ inv[pay[k].inv].on # Public =>
       /\ pay2[k].status # "absent" /\ inv2[pay2[k].inv].on # Public
       /\ pay[k].amount <= pay2[k].amount)
    => Booked(pay, inv) <= Booked(pay2, inv2)
<1> SUFFICES ASSUME NEW pay \in [Keys -> PaymentRows], NEW pay2 \in [Keys -> PaymentRows],
                    NEW inv, NEW inv2,
                    \A k \in Keys : pay[k].status # "absent" /\ inv[pay[k].inv].on # Public =>
                      /\ pay2[k].status # "absent" /\ inv2[pay2[k].inv].on # Public
                      /\ pay[k].amount <= pay2[k].amount
             PROVE  Booked(pay, inv) <= Booked(pay2, inv2)
  OBVIOUS
<1> DEFINE S == {k \in Keys : pay[k].status # "absent" /\ inv[pay[k].inv].on # Public}
           T == {k \in Keys : pay2[k].status # "absent" /\ inv2[pay2[k].inv].on # Public}
           f == [k \in S |-> pay[k].amount]
           g == [k \in T |-> pay2[k].amount]
<1>1. S \subseteq Keys /\ T \subseteq Keys /\ IsFiniteSet(S) /\ IsFiniteSet(T)
  BY FiniteTables, FS_Subset
<1>2. \A k \in S : f[k] \in Int /\ (f[k] > 0 => k \in T /\ f[k] <= g[k])
  BY DEF PaymentRows
<1>3. \A k \in T : g[k] \in Nat
  BY DEF PaymentRows
<1>4. /\ Booked(pay, inv) = SumFunctionOnSet(f, S)
      /\ Booked(pay2, inv2) = SumFunctionOnSet(g, T)
  BY DEF Booked, SumFunction
<1> HIDE DEF S, T, f, g
<1> QED
  BY <1>1, <1>2, <1>3, <1>4, SumCovers

\* What is booked is a figure, and never less than what of it is still held.
LEMMA BookedType ==
  ASSUME NEW pay \in [Keys -> PaymentRows], NEW inv
  PROVE  /\ Booked(pay, inv) \in Int /\ Booked(pay, inv) >= 0
         /\ NetPaid(pay, inv) <= Booked(pay, inv)
<1> DEFINE S == {k \in Keys : pay[k].status # "absent" /\ inv[pay[k].inv].on # Public}
           H == Held(pay, inv)
           f == [k \in H |-> pay[k].amount - pay[k].refunded]
           g == [k \in S |-> pay[k].amount]
<1>1. /\ H \subseteq S /\ IsFiniteSet(S) /\ IsFiniteSet(H) /\ {} \subseteq S
      /\ \A k \in H : k \in Keys
  BY FiniteTables, FS_Subset DEF Held
<1>2. \A k \in S : g[k] \in Nat /\ g[k] \in Int /\ g[k] >= 0
  BY DEF PaymentRows
<1>3. \A k \in H : f[k] \in Int /\ (f[k] > 0 => k \in S /\ f[k] <= g[k])
  BY <1>1 DEF PaymentRows
<1>4. /\ Booked(pay, inv) = SumFunctionOnSet(g, S)
      /\ NetPaid(pay, inv) = SumFunctionOnSet(f, H)
  BY DEF Booked, NetPaid, SumFunction
<1> HIDE DEF S, H, f, g
<1>5. SumFunctionOnSet(g, {}) <= SumFunctionOnSet(g, S)
  BY <1>1, <1>2, SumOfMore
<1>6. SumFunctionOnSet(g, S) \in Int
  BY <1>1, <1>2, SumType
<1>7. SumFunctionOnSet(f, H) <= SumFunctionOnSet(g, S)
  BY <1>1, <1>2, <1>3, SumCovers
<1> QED
  BY <1>4, <1>5, <1>6, <1>7, SumEmpty

\* A request sees an enrollment behind an invoice exactly where there is one.
LEMMA SeenPublic ==
  ASSUME IInv, Promise, NEW w \in Workers
  PROVE  \A i \in Invoices : InvoicesSeen(w)[i].on # Public <=> invoice[i].on # Public
<1>0. invoice \in [Invoices -> InvoiceRows] /\ Told(job[w])
  BY DEF IInv, TypeOK, Promise, Knows
<1>1. CASE WritesInvoice(w)
  <2>1. \A i \in Invoices : InvoicesSeen(w)[i] =
          IF i = job[w].inv THEN [invoice[i] EXCEPT !.status = "paid"] ELSE invoice[i]
    BY <1>0, <1>1 DEF InvoicesSeen
  <2>2. \A i \in Invoices : [invoice[i] EXCEPT !.status = "paid"].on = invoice[i].on
    BY <1>0 DEF InvoiceRows
  <2> QED
    BY <2>1, <2>2
<1>2. CASE ~WritesInvoice(w) /\ job[w].op = "delete"
  <2>1. job[w].on # Public /\ Balance # Public
    BY <1>0, <1>2, BoundsAssumption DEF Told, PlanTold, Installments, Public, Balance
  <2>2. \A i \in Invoices : InvoicesSeen(w)[i] =
          IF invoice[i].on = job[w].on THEN [invoice[i] EXCEPT !.on = Balance] ELSE invoice[i]
    BY <1>2 DEF InvoicesSeen
  <2>3. \A i \in Invoices : [invoice[i] EXCEPT !.on = Balance].on = Balance
    BY <1>0 DEF InvoiceRows
  <2> QED
    BY <2>1, <2>2, <2>3
<1>3. CASE ~WritesInvoice(w) /\ job[w].op # "delete"
  BY <1>3 DEF InvoicesSeen
<1> QED
  BY <1>1, <1>2, <1>3

\* What request w sees on the books: the payments there, and the one it settles.
LEMMA SeenRows ==
  ASSUME IInv, NEW w \in Workers, Settling(w) => ~At(w, "cancel") /\ ~Recorded(job[w].key)
  PROVE  \A k \in Keys :
           IF Settling(w) /\ k = job[w].key
           THEN /\ PaymentsSeen(w)[k].status # "absent"
                /\ PaymentsSeen(w)[k].inv = job[w].inv
                /\ PaymentsSeen(w)[k].amount = job[w].amt
           ELSE /\ PaymentsSeen(w)[k].status # "absent" <=> Recorded(k)
                /\ PaymentsSeen(w)[k].inv = payment[k].inv
                /\ PaymentsSeen(w)[k].amount = payment[k].amount
<1>0. /\ payment \in [Keys -> PaymentRows] /\ job[w] \in Jobs /\ RequestOK(job[w])
  BY DEF IInv, TypeOK, LinksOK
<1>1. CASE Settling(w)
  <2>1. job[w].key \in Keys
    BY <1>0, <1>1 DEF RequestOK, Settling, At
  <2>2. \A k \in Keys : PaymentsSeen(w)[k] =
          IF k = job[w].key
          THEN [status |-> "paid", inv |-> job[w].inv, amount |-> job[w].amt, refunded |-> 0]
          ELSE payment[k]
    BY <1>0, <1>1, <2>1 DEF PaymentsSeen
  <2> QED
    BY <1>1, <2>2 DEF Recorded
<1>2. CASE ~Settling(w) /\ job[w].op = "refund"
  <2>1. job[w].key \in Keys /\ Recorded(job[w].key) /\ job[w].saw # "absent"
    BY <1>0, <1>2 DEF RequestOK
  <2>2. \A k \in Keys : PaymentsSeen(w)[k] =
          IF k = job[w].key THEN AfterRefund(payment[k], job[w]) ELSE payment[k]
    BY <1>0, <1>2, <2>1 DEF PaymentsSeen
  <2>3. /\ AfterRefund(payment[job[w].key], job[w]).inv = payment[job[w].key].inv
        /\ AfterRefund(payment[job[w].key], job[w]).amount = payment[job[w].key].amount
        /\ AfterRefund(payment[job[w].key], job[w]).status # "absent"
    BY <1>0, <2>1, AfterRefundType DEF Recorded
  <2> QED
    BY <1>2, <2>1, <2>2, <2>3 DEF Recorded
<1>3. CASE ~Settling(w) /\ job[w].op # "refund"
  BY <1>3 DEF PaymentsSeen, Recorded
<1> QED
  BY <1>1, <1>2, <1>3

\* A reckoning settlement's payment is not on the books yet.
LEMMA ReckonsOpen ==
  ASSUME IInv, NEW w \in Workers, Reckons(w)
  PROVE  Settling(w) => ~At(w, "cancel") /\ ~Recorded(job[w].key)
<1>1. Settling(w) => Books(job[w])
  BY DEF Reckons, Settling, Books, SettleOps
<1> QED
  BY <1>1 DEF IInv, LocksOK, Books, At

\* And so it is after a step.
LEMMA SeenNext ==
  (IInv /\ Promise => \A w \in Workers :
     /\ PaymentsSeen(w) \in [Keys -> PaymentRows]
     /\ \A i \in Invoices : InvoicesSeen(w)[i].on # Public <=> invoice[i].on # Public
     /\ Reckons(w) => \A k \in Keys :
          IF Settling(w) /\ k = job[w].key
          THEN /\ PaymentsSeen(w)[k].status # "absent"
               /\ PaymentsSeen(w)[k].inv = job[w].inv /\ PaymentsSeen(w)[k].amount = job[w].amt
          ELSE /\ PaymentsSeen(w)[k].status # "absent" <=> Recorded(k)
               /\ PaymentsSeen(w)[k].inv = payment[k].inv
               /\ PaymentsSeen(w)[k].amount = payment[k].amount)'
<1>1. IInv /\ Promise => \A w \in Workers :
        /\ PaymentsSeen(w) \in [Keys -> PaymentRows]
        /\ \A i \in Invoices : InvoicesSeen(w)[i].on # Public <=> invoice[i].on # Public
        /\ Reckons(w) => \A k \in Keys :
             IF Settling(w) /\ k = job[w].key
             THEN /\ PaymentsSeen(w)[k].status # "absent"
                  /\ PaymentsSeen(w)[k].inv = job[w].inv /\ PaymentsSeen(w)[k].amount = job[w].amt
             ELSE /\ PaymentsSeen(w)[k].status # "absent" <=> Recorded(k)
                  /\ PaymentsSeen(w)[k].inv = payment[k].inv
                  /\ PaymentsSeen(w)[k].amount = payment[k].amount
  <2> SUFFICES ASSUME IInv, Promise, NEW w \in Workers
               PROVE  /\ PaymentsSeen(w) \in [Keys -> PaymentRows]
                      /\ \A i \in Invoices : InvoicesSeen(w)[i].on # Public <=> invoice[i].on # Public
                      /\ Reckons(w) => \A k \in Keys :
                           IF Settling(w) /\ k = job[w].key
                           THEN /\ PaymentsSeen(w)[k].status # "absent"
                                /\ PaymentsSeen(w)[k].inv = job[w].inv /\ PaymentsSeen(w)[k].amount = job[w].amt
                           ELSE /\ PaymentsSeen(w)[k].status # "absent" <=> Recorded(k)
                                /\ PaymentsSeen(w)[k].inv = payment[k].inv
                                /\ PaymentsSeen(w)[k].amount = payment[k].amount
    OBVIOUS
  <2>1. PaymentsSeen(w) \in [Keys -> PaymentRows]
    BY SeenType DEF IInv
  <2>2. \A i \in Invoices : InvoicesSeen(w)[i].on # Public <=> invoice[i].on # Public
    BY SeenPublic
  <2>3. ASSUME Reckons(w)
        PROVE  \A k \in Keys :
                 IF Settling(w) /\ k = job[w].key
                 THEN /\ PaymentsSeen(w)[k].status # "absent"
                      /\ PaymentsSeen(w)[k].inv = job[w].inv /\ PaymentsSeen(w)[k].amount = job[w].amt
                 ELSE /\ PaymentsSeen(w)[k].status # "absent" <=> Recorded(k)
                      /\ PaymentsSeen(w)[k].inv = payment[k].inv
                      /\ PaymentsSeen(w)[k].amount = payment[k].amount
    BY <2>3, ReckonsOpen, SeenRows
  <2> QED
    BY <2>1, <2>2, <2>3
<1> QED
  BY <1>1, PTL

\* What a request still reckoning sees booked only grows, whoever writes meanwhile.
LEMMA SeenGrows ==
  ASSUME IInv, IInv', Promise, Promise', NEW w \in Workers, Reckons(w), Reckons(w)',
         \A k \in Keys : Recorded(k) =>
           /\ payment'[k].status # "absent"
           /\ payment'[k].inv = payment[k].inv /\ payment'[k].amount = payment[k].amount,
         \A i \in Invoices : invoice[i].status # "absent" =>
           (invoice'[i].on = Public <=> invoice[i].on = Public),
         job'[w].op = job[w].op,
         Settling(w) => /\ job'[w].inv = job[w].inv /\ job'[w].key = job[w].key
                        /\ job'[w].amt = job[w].amt
  PROVE  Booked(PaymentsSeen(w), InvoicesSeen(w)) <= Booked(PaymentsSeen(w), InvoicesSeen(w))'
<1>1. /\ PaymentsSeen(w) \in [Keys -> PaymentRows]
      /\ (PaymentsSeen(w) \in [Keys -> PaymentRows])'
  BY SeenType, SeenNext DEF IInv
<1>2. \A i \in Invoices : InvoicesSeen(w)[i].on # Public <=> invoice[i].on # Public
  BY SeenPublic
<1>3. (\A i \in Invoices : InvoicesSeen(w)[i].on # Public <=> invoice[i].on # Public)'
  BY SeenNext
<1>4. \A k \in Keys :
        IF Settling(w) /\ k = job[w].key
        THEN /\ PaymentsSeen(w)[k].status # "absent"
             /\ PaymentsSeen(w)[k].inv = job[w].inv /\ PaymentsSeen(w)[k].amount = job[w].amt
        ELSE /\ PaymentsSeen(w)[k].status # "absent" <=> Recorded(k)
             /\ PaymentsSeen(w)[k].inv = payment[k].inv
             /\ PaymentsSeen(w)[k].amount = payment[k].amount
  BY ReckonsOpen, SeenRows
<1>5. (\A k \in Keys :
        IF Settling(w) /\ k = job[w].key
        THEN /\ PaymentsSeen(w)[k].status # "absent"
             /\ PaymentsSeen(w)[k].inv = job[w].inv /\ PaymentsSeen(w)[k].amount = job[w].amt
        ELSE /\ PaymentsSeen(w)[k].status # "absent" <=> Recorded(k)
             /\ PaymentsSeen(w)[k].inv = payment[k].inv
             /\ PaymentsSeen(w)[k].amount = payment[k].amount)'
  BY SeenNext
<1>6. /\ Settling(w)' <=> Settling(w)
      /\ Settling(w) => job[w].inv \in Invoices /\ invoice[job[w].inv].status # "absent"
      /\ job[w].amt \in Nat
      /\ \A k \in Keys : Recorded(k) =>
           /\ payment[k].inv \in Invoices /\ invoice[payment[k].inv].status # "absent"
           /\ payment[k].amount \in Nat
      /\ \A k \in Keys : Recorded(k) => Recorded(k)'
  BY DEF IInv, TypeOK, LinksOK, RequestOK, Settling, Recorded, Jobs, PaymentRows
<1>7. \A k \in Keys :
        PaymentsSeen(w)[k].status # "absent" /\ InvoicesSeen(w)[PaymentsSeen(w)[k].inv].on # Public =>
          /\ PaymentsSeen(w)'[k].status # "absent"
          /\ InvoicesSeen(w)'[PaymentsSeen(w)'[k].inv].on # Public
          /\ PaymentsSeen(w)[k].amount <= PaymentsSeen(w)'[k].amount
  <2> SUFFICES ASSUME NEW k \in Keys, PaymentsSeen(w)[k].status # "absent",
                      InvoicesSeen(w)[PaymentsSeen(w)[k].inv].on # Public
               PROVE  /\ PaymentsSeen(w)'[k].status # "absent"
                      /\ InvoicesSeen(w)'[PaymentsSeen(w)'[k].inv].on # Public
                      /\ PaymentsSeen(w)[k].amount <= PaymentsSeen(w)'[k].amount
    OBVIOUS
  <2>1. CASE Settling(w) /\ k = job[w].key
    <3>1. /\ PaymentsSeen(w)'[k].status # "absent" /\ PaymentsSeen(w)'[k].inv = job[w].inv
          /\ PaymentsSeen(w)'[k].amount = job[w].amt
      BY <1>5, <1>6, <2>1
    <3>2. PaymentsSeen(w)[k].inv = job[w].inv /\ PaymentsSeen(w)[k].amount = job[w].amt
      BY <1>4, <2>1
    <3> QED
      BY <1>2, <1>3, <1>6, <2>1, <3>1, <3>2
  <2>2. CASE ~(Settling(w) /\ k = job[w].key)
    <3>1. /\ Recorded(k) /\ PaymentsSeen(w)[k].inv = payment[k].inv
          /\ PaymentsSeen(w)[k].amount = payment[k].amount
      BY <1>4, <2>2
    <3>2. ~(Settling(w) /\ k = job[w].key)' /\ Recorded(k)'
      BY <1>6, <2>2, <3>1
    <3>3. /\ PaymentsSeen(w)'[k].status # "absent" /\ PaymentsSeen(w)'[k].inv = payment'[k].inv
          /\ PaymentsSeen(w)'[k].amount = payment'[k].amount
      BY <1>5, <3>2
    <3>4. payment'[k].inv = payment[k].inv /\ payment'[k].amount = payment[k].amount
      BY <3>1
    <3> QED
      BY <1>2, <1>3, <1>6, <3>1, <3>3, <3>4
  <2> QED
    BY <2>1, <2>2
<1> QED
  BY <1>1, <1>7, BookedGrows

\* No step takes a payment off the books.
LEMMA BooksStand ==
  ASSUME IInv, Promise, Next
  PROVE  \A k \in Keys : Recorded(k) =>
           /\ payment'[k].status # "absent"
           /\ payment'[k].inv = payment[k].inv /\ payment'[k].amount = payment[k].amount
<1>1. CASE UNCHANGED payment
  BY <1>1 DEF Recorded
<1>2. ASSUME NEW w \in Workers, Commit(w)
      PROVE  UNCHANGED payment \/ (At(w, "commit") /\ payment' = PaymentsSeen(w))
  BY <1>2 DEF Commit, tables
<1>3. ASSUME NEW w \in Workers, At(w, "commit"), payment' = PaymentsSeen(w)
      PROVE  \A k \in Keys : Recorded(k) =>
               /\ payment'[k].status # "absent"
               /\ payment'[k].inv = payment[k].inv /\ payment'[k].amount = payment[k].amount
  BY <1>3, CommitWrites
<1>4. ASSUME NEW w \in Workers, Arrival(w) PROVE UNCHANGED payment
  BY <1>4, ArrivalRequest DEF Promise, Start, tables
<1>5. ASSUME NEW w \in Workers,
             \/ Lookup(w) \/ LockInvoice(w) \/ Flush(w) \/ LockRest(w) \/ BreakCircle(w)
             \/ SumPayments(w) \/ SumPlan(w) \/ ReadLedger(w) \/ Quote(w) \/ Abort(w)
      PROVE  UNCHANGED payment
  BY <1>5, Moves DEF tables
<1>6. ASSUME NEW w \in Workers, \/ MarkInvoicePaid(w) \/ CancelInvoice(w)
                                \/ \E i \in Invoices : RaiseInvoice(w, i)
      PROVE  UNCHANGED payment
  BY <1>6 DEF MarkInvoicePaid, CancelInvoice, RaiseInvoice, tables
<1>7. World => UNCHANGED payment
  BY DEF World, BuyerPays, BankPosts, tables
<1> QED
  BY <1>1, <1>2, <1>3, <1>4, <1>5, <1>6, <1>7 DEF Next, Progress

\* A request's own step: if it goes on reckoning it reckoned before, with the same sum,
\* unless it has just made it.
LEMMA StillReckons ==
  ASSUME IInv, Promise, Figured, AllPlaced, NEW w \in Workers,
         Arrival(w) \/ Progress(w) \/ Abort(w), ~SumPayments(w), Reckons(w)'
  PROVE  /\ Reckons(w) /\ books'[w].paid = books[w].paid /\ job'[w].op = job[w].op
         /\ Settling(w) => /\ job'[w].inv = job[w].inv /\ job'[w].key = job[w].key
                           /\ job'[w].amt = job[w].amt
<1>0. job[w] \in Jobs /\ job \in [Workers -> Jobs] /\ books \in [Workers -> Readings]
  BY DEF IInv, TypeOK, Figured
<1>1. job'[w] # Idle /\ ~(job' = [job EXCEPT ![w] = Idle])
  BY <1>0 DEF Reckons, Idle
<1>2. ASSUME NEW s, Go(w, s)
      PROVE  /\ job'[w].step = s /\ job'[w].op = job[w].op /\ job'[w].on = job[w].on
             /\ job'[w].inv = job[w].inv /\ job'[w].key = job[w].key /\ job'[w].amt = job[w].amt
  BY <1>0, <1>2 DEF Go, Jobs
<1>3. \A s : Go(w, s) => s \in {"plan", "row", "commit", "quote", "gateway"}
  BY <1>2 DEF Reckons
<1>4. ~Arrival(w)
  <2> SUFFICES ASSUME Arrival(w) PROVE FALSE
    OBVIOUS
  <2>1. PICK j : Start(w, j) /\ Fresh(j)
    BY ArrivalRequest DEF Promise
  <2>2. job'[w] = j
    BY <1>0, <2>1 DEF Start
  <2>3. /\ j.step \notin {"plan", "row", "commit", "quote"}
        /\ j.step = "gateway" => j.on # Balance
    BY <2>1, BoundsAssumption
       DEF Fresh, FreshSettle, FreshSwitch, FreshEdit, FreshRefund, FreshInvoice, SettleOps,
           Installments, Balance, Public
  <2> QED
    BY <2>2, <2>3 DEF Reckons
<1>5. ~Flush(w)
  BY FlushReckons
<1>6. ~(\/ Lookup(w) \/ LockInvoice(w) \/ LockRest(w) \/ BreakCircle(w) \/ Abort(w)
        \/ MarkInvoicePaid(w) \/ CancelInvoice(w) \/ Commit(w)
        \/ \E i \in Invoices : RaiseInvoice(w, i))
  BY <1>1, <1>3 DEF Lookup, LockInvoice, LockRest, BreakCircle, Abort, MarkInvoicePaid,
                    CancelInvoice, Commit, RaiseInvoice, Finish
<1>7. CASE SumPlan(w) \/ ReadLedger(w)
  <2>1. /\ job[w].step \in {"plan", "row"}
        /\ \/ Go(w, "row") /\ job[w].step = "plan"
           \/ Go(w, "quote") /\ job[w].op = "create"
           \/ Go(w, "commit")
    BY <1>7 DEF SumPlan, ReadLedger, At
  <2>2. books'[w].paid = books[w].paid
    BY <1>0, <1>7 DEF SumPlan, ReadLedger, Readings
  <2>3. Reckons(w)
    BY <1>2, <2>1 DEF Reckons, Balance, Public
  <2> QED
    BY <1>2, <2>1, <2>2, <2>3
<1>8. CASE Quote(w)
  <2>1. PICK value \in Figures :
          /\ At(w, "quote") /\ UNCHANGED books
          /\ job' = [job EXCEPT ![w] = [job[w] EXCEPT !.step = "gateway", !.amt = value]]
    BY <1>1, <1>8 DEF Quote, Finish
  <2>2. job'[w].op = job[w].op /\ job'[w].on = job[w].on /\ job'[w].step = "gateway"
    BY <1>0, <2>1 DEF Jobs
  <2>3. Reckons(w) /\ ~Settling(w)
    BY <2>1, <2>2 DEF Reckons, Settling, SettleOps, At
  <2> QED
    BY <2>1, <2>2, <2>3
<1> QED
  BY <1>4, <1>5, <1>6, <1>7, <1>8 DEF Progress

\* In every behaviour, with any overlap, neither the ledger nor a sum a recompute
\* holds exceeds what is booked for the enrollment.
THEOREM SolventKept == Spec => []Solvent
<1>1. Init => Solvent
  <2> SUFFICES ASSUME Init PROVE Solvent
    OBVIOUS
  <2>1. payment \in [Keys -> PaymentRows]
    BY InvInit DEF IInv, TypeOK
  <2>2. 0 <= Booked(payment, invoice)
    BY <2>1, BookedType
  <2>3. ledger.paid = 0 /\ \A w \in Workers : ~Reckons(w)
    BY DEF Init, Totals, NoRow, Idle, Reckons
  <2> QED
    BY <2>2, <2>3 DEF Solvent
<1>2. ASSUME IInv, IInv', Promise, Promise', Figured, Figured', AllPlaced, Solvent, Next
      PROVE  Solvent'
  <2>0. /\ payment \in [Keys -> PaymentRows] /\ payment' \in [Keys -> PaymentRows]
        /\ invoice \in [Invoices -> InvoiceRows] /\ invoice' \in [Invoices -> InvoiceRows]
        /\ job \in [Workers -> Jobs] /\ books \in [Workers -> Readings]
        /\ ledger.paid \in Int /\ ledger'.paid \in Int
        /\ \A w \in Workers : books[w].paid \in Int /\ books'[w].paid \in Int
    BY <1>2 DEF IInv, TypeOK, Figured, Readings, LedgerRows
  <2>1. \A k \in Keys : Recorded(k) =>
          /\ payment'[k].status # "absent"
          /\ payment'[k].inv = payment[k].inv /\ payment'[k].amount = payment[k].amount
    BY <1>2, BooksStand
  <2>2. \A i \in Invoices : invoice[i].status # "absent" =>
          (invoice'[i].on = Public <=> invoice[i].on = Public)
    BY <1>2, PublicStands
  <2>3. \A k \in Keys : Recorded(k) =>
          /\ payment[k].inv \in Invoices /\ invoice[payment[k].inv].status # "absent"
          /\ payment[k].amount \in Nat
    BY <1>2, <2>0 DEF IInv, LinksOK, PaymentRows
  <2>4. Booked(payment, invoice) <= Booked(payment', invoice')
    <3>1. \A k \in Keys : payment[k].status # "absent" /\ invoice[payment[k].inv].on # Public =>
            /\ payment'[k].status # "absent" /\ invoice'[payment'[k].inv].on # Public
            /\ payment[k].amount <= payment'[k].amount
      BY <2>1, <2>2, <2>3 DEF Recorded
    <3> QED
      BY <2>0, <3>1, BookedGrows
  <2>5. /\ Booked(payment, invoice) \in Int /\ Booked(payment', invoice') \in Int
        /\ \A w \in Workers : /\ Booked(PaymentsSeen(w), InvoicesSeen(w)) \in Int
                              /\ (Booked(PaymentsSeen(w), InvoicesSeen(w)) \in Int)'
    <3>1. \A pay \in [Keys -> PaymentRows] : \A inv : Booked(pay, inv) \in Int
      BY BookedType
    <3>2. /\ \A w \in Workers : PaymentsSeen(w) \in [Keys -> PaymentRows]
          /\ (\A w \in Workers : PaymentsSeen(w) \in [Keys -> PaymentRows])'
      BY <1>2, SeenType, SeenNext DEF IInv
    <3> QED
      BY <1>2, <2>0, <3>1, <3>2 DEF IInv
  <2>6. ASSUME NEW w \in Workers, Reckons(w), Reckons(w)', books'[w].paid = books[w].paid,
               job'[w].op = job[w].op,
               Settling(w) => /\ job'[w].inv = job[w].inv /\ job'[w].key = job[w].key
                              /\ job'[w].amt = job[w].amt
        PROVE  books'[w].paid <= Booked(PaymentsSeen(w), InvoicesSeen(w))'
    <3>1. books[w].paid <= Booked(PaymentsSeen(w), InvoicesSeen(w))
      BY <1>2, <2>6 DEF Solvent
    <3>2. Booked(PaymentsSeen(w), InvoicesSeen(w)) <= Booked(PaymentsSeen(w), InvoicesSeen(w))'
      BY <1>2, <2>1, <2>2, <2>6, SeenGrows
    <3> QED
      BY <2>0, <2>5, <2>6, <3>1, <3>2
  <2>7. ASSUME NEW w \in Workers, job'[w] = job[w], books'[w] = books[w], Reckons(w)'
        PROVE  books'[w].paid <= Booked(PaymentsSeen(w), InvoicesSeen(w))'
    <3>1. Reckons(w)
      BY <2>7 DEF Reckons
    <3> QED
      BY <2>6, <2>7, <3>1
  <2>8. CASE World
    <3>1. UNCHANGED <<ledger, job, books>>
      BY <2>8 DEF World, BuyerPays, BankPosts, tables
    <3>2. ledger'.paid <= Booked(payment', invoice')
      BY <1>2, <2>0, <2>4, <2>5, <3>1 DEF Solvent
    <3> QED
      BY <2>7, <3>1, <3>2 DEF Solvent
  <2>9. ASSUME NEW w \in Workers, Arrival(w) \/ Progress(w) \/ Abort(w) PROVE Solvent'
    <3>1. \A v \in Workers \ {w} : job'[v] = job[v] /\ books'[v] = books[v]
      <4>1. \E j : job' = [job EXCEPT ![w] = j]
        BY <1>2, <2>9, NextJob
      <4>2. UNCHANGED books \/ \E r : books' = [books EXCEPT ![w] = r]
        <5>1. CASE Arrival(w)
          BY <1>2, <5>1, ArrivalRequest DEF Promise, Start
        <5>2. CASE SumPayments(w) \/ SumPlan(w) \/ ReadLedger(w)
          BY <5>2 DEF SumPayments, SumPlan, ReadLedger
        <5>3. CASE Progress(w) \/ Abort(w)
          BY <5>2, <5>3 DEF Progress, Abort, Lookup, MarkInvoicePaid, CancelInvoice, LockInvoice,
                            Flush, LockRest, BreakCircle, Commit, Quote, RaiseInvoice
        <5> QED
          BY <2>9, <5>1, <5>3
      <4> QED
        BY <2>0, <4>1, <4>2
    <3>2. Reckons(w)' => books'[w].paid <= Booked(PaymentsSeen(w), InvoicesSeen(w))'
      <4>1. CASE SumPayments(w)
        <5>1. /\ Go(w, "plan") /\ UNCHANGED tables
              /\ books' = [books EXCEPT ![w].paid = NetPaid(PaymentsSeen(w), InvoicesSeen(w))]
          BY <4>1 DEF SumPayments
        <5>2. PaymentsSeen(w)' = PaymentsSeen(w) /\ InvoicesSeen(w)' = InvoicesSeen(w)
          BY <1>2, <5>1, GoFollows
        <5>3. books'[w].paid = NetPaid(PaymentsSeen(w), InvoicesSeen(w))
          BY <2>0, <5>1 DEF Readings
        <5>4. NetPaid(PaymentsSeen(w), InvoicesSeen(w)) <= Booked(PaymentsSeen(w), InvoicesSeen(w))
          BY <1>2, SeenType, BookedType DEF IInv
        <5> QED
          BY <5>2, <5>3, <5>4
      <4>2. CASE ~SumPayments(w)
        BY <1>2, <2>6, <2>9, <4>2, StillReckons
      <4> QED
        BY <4>1, <4>2
    <3>3. ledger'.paid <= Booked(payment', invoice')
      <4>1. CASE ledger' = ledger
        BY <1>2, <2>0, <2>4, <2>5, <4>1 DEF Solvent
      <4>2. LedgerAfter(w).paid \in {ledger.paid, books[w].paid}
        <5> DEFINE new == Totals(books[w].paid, books[w].due)
                   old == books[w].row
        <5>1. LedgerAfter(w) =
                [exists |-> IF TRUE # old.exists THEN TRUE ELSE ledger.exists,
                 paid |-> IF new.paid # old.paid THEN new.paid ELSE ledger.paid,
                 due |-> IF new.due # old.due THEN new.due ELSE ledger.due,
                 balance |-> IF new.balance # old.balance THEN new.balance ELSE ledger.balance]
          BY <1>2, LedgerColumns
        <5>2. new.paid = books[w].paid
          BY DEF Totals
        <5> HIDE DEF new, old
        <5>3. LedgerAfter(w).paid \in {ledger.paid, new.paid}
          BY <5>1
        <5> QED
          BY <5>2, <5>3
      <4>3. ASSUME ledger' = LedgerAfter(w),
                   books[w].paid <= Booked(payment', invoice')
            PROVE  ledger'.paid <= Booked(payment', invoice')
        BY <1>2, <2>0, <2>4, <2>5, <4>2, <4>3 DEF Solvent
      <4>4. CASE ~UNCHANGED ledger /\ Commit(w)
        <5>1. /\ ledger' = LedgerAfter(w) /\ job[w].on # Public /\ job[w].step = "commit"
              /\ payment' = PaymentsSeen(w) /\ invoice' = InvoicesSeen(w)
          BY <4>4 DEF Commit, NeedsLedger, tables, At
        <5>2. Reckons(w)
          BY <5>1 DEF Reckons
        <5> QED
          BY <1>2, <4>3, <5>1, <5>2 DEF Solvent
      <4>5. ASSUME ~UNCHANGED ledger, NEW i \in Invoices, RaiseInvoice(w, i)
            PROVE  ledger'.paid <= Booked(payment', invoice')
        <5>1. /\ ledger' = LedgerAfter(w) /\ job[w].on = Balance /\ job[w].step = "gateway"
          BY <4>5 DEF RaiseInvoice, tables, At
        <5>2. job[w].op = "create"
          BY <1>2, <5>1 DEF IInv, LinksOK, RequestOK, Promise, Knows, Told, PlanTold, CreateOps,
                            Balance, Public
        <5>3. Reckons(w) /\ PaymentsSeen(w) = payment /\ InvoicesSeen(w) = invoice
          BY <5>1, <5>2, SeenByReader DEF Reckons, CreateOps
        <5>4. books[w].paid <= Booked(payment, invoice)
          BY <1>2, <5>3 DEF Solvent
        <5> QED
          BY <2>0, <2>4, <2>5, <4>3, <5>1, <5>4
      <4>6. CASE ~Commit(w) /\ ~\E i \in Invoices : RaiseInvoice(w, i)
        <5>1. CASE Arrival(w)
          BY <1>2, <4>1, <5>1, ArrivalRequest DEF Promise, Start, tables
        <5>2. CASE MarkInvoicePaid(w) \/ CancelInvoice(w)
          BY <4>1, <5>2 DEF MarkInvoicePaid, CancelInvoice
        <5>3. CASE \/ Lookup(w) \/ LockInvoice(w) \/ Flush(w) \/ LockRest(w) \/ BreakCircle(w)
                   \/ SumPayments(w) \/ SumPlan(w) \/ ReadLedger(w) \/ Quote(w) \/ Abort(w)
          BY <1>2, <4>1, <5>3, Moves DEF tables
        <5> QED
          BY <2>9, <4>6, <5>1, <5>2, <5>3 DEF Progress
      <4> QED
        BY <4>1, <4>4, <4>5, <4>6
    <3> QED
      BY <2>7, <3>1, <3>2, <3>3 DEF Solvent
  <2> QED
    BY <1>2, <2>8, <2>9 DEF Next
<1>3. ASSUME Solvent, UNCHANGED vars PROVE Solvent'
  BY <1>3 DEF vars, Solvent, Reckons, PaymentsSeen, InvoicesSeen, Settling, WritesInvoice, Short,
              AfterRefund
<1>4. IInv /\ IInv' /\ Promise /\ Promise' /\ Figured /\ Figured' /\ AllPlaced /\ Solvent
        /\ [Next]_vars => Solvent'
  BY <1>2, <1>3
<1> QED
  BY <1>1, <1>4, Invariance, PromiseKept, FiguredKept, PlacedKept, PTL DEF Spec

-----------------------------------------------------------------------------
(* Without plan edits there is one due total, and the balance agrees.      *)

NoEdits == mix \cap EditOps = {}
PricedRow(r) == r = NoRow \/ \E p \in Int : r = Totals(p, Price)
Written ==
  /\ ledger.exists \/ ledger = NoRow
  /\ \A w \in Workers : books[w].row.exists \/ books[w].row = NoRow
  /\ \A w \in Workers : books[w].row.exists => ledger.exists
Priced ==
  /\ \A w \in Workers : job[w].op \notin EditOps
  /\ TotalDue(installment) = Price
  /\ \A n \in Installments : installment[n].status \notin {"waived", "deleted"}
  /\ PricedRow(ledger) /\ \A w \in Workers : PricedRow(books[w].row)
  /\ \A w \in Workers : Reckons(w) /\ ~At(w, "plan") => books[w].due = Price
Balanced == Written /\ (NoEdits => Priced)

\* Plans of the same installments for the same amounts come to the same.
LEMMA TotalDueSame ==
  ASSUME NEW inst, NEW inst2,
         \A n \in Installments :
           /\ inst2[n].amount = inst[n].amount
           /\ inst2[n].status \in {"absent", "deleted"} <=> inst[n].status \in {"absent", "deleted"}
           /\ inst2[n].status = "waived" <=> inst[n].status = "waived"
  PROVE  TotalDue(inst2) = TotalDue(inst)
<1> DEFINE plan(p) == {n \in Installments : p[n].status \notin {"absent", "deleted"}}
           owed(p) == {m \in plan(p) : p[m].status # "waived"}
<1>1. plan(inst2) = plan(inst)
  OBVIOUS
<1>2. owed(inst2) = owed(inst)
  BY <1>1
<1>3. [n \in owed(inst2) |-> inst2[n].amount] = [n \in owed(inst) |-> inst[n].amount]
  BY <1>2
<1>4. \A p : TotalDue(p) = IF plan(p) = {} THEN Price
                           ELSE SumFunction([n \in owed(p) |-> p[n].amount])
  BY DEF TotalDue
<1> HIDE DEF plan, owed
<1> QED
  BY <1>1, <1>3, <1>4

\* What a settlement does to the plan adds and takes nothing.
LEMMA PlanStands ==
  ASSUME IInv, Promise, Priced, NEW w \in Workers, Flushed(w)
  PROVE  /\ TotalDue(InstallmentsSeen(w)) = Price
         /\ \A n \in Installments : InstallmentsSeen(w)[n].status \notin {"waived", "deleted"}
<1>0. /\ installment \in [Installments -> InstallmentRows] /\ Told(job[w])
      /\ job[w].op \notin EditOps
  BY DEF IInv, TypeOK, Promise, Knows, Priced
<1>1. CASE ~WritesInstallment(w)
  BY <1>1 DEF InstallmentsSeen, Priced
<1>2. CASE WritesInstallment(w)
  <2>1. Settling(w) /\ job[w].on \in Installments
    BY <1>0, <1>2 DEF WritesInstallment
  <2>2. installment[job[w].on].status # "absent"
    BY <1>0, <2>1 DEF Flushed, Books, Settling, Told, SettleTold, Laid
  <2>3. InstallmentsSeen(w) = [installment EXCEPT ![job[w].on] = InstallmentAfter(@, w)]
    BY <1>2, <2>1 DEF InstallmentsSeen, Settling, SettleOps
  <2>4. InstallmentAfter(installment[job[w].on], w)
          = [installment[job[w].on] EXCEPT !.status = "paid"]
    BY <2>1 DEF InstallmentAfter, Settling, SettleOps
  <2>5. \A n \in Installments : InstallmentsSeen(w)[n] =
          IF n = job[w].on THEN [installment[n] EXCEPT !.status = "paid"] ELSE installment[n]
    BY <1>0, <2>3, <2>4
  <2>6. \A n \in Installments : /\ [installment[n] EXCEPT !.status = "paid"].status = "paid"
                                /\ [installment[n] EXCEPT !.status = "paid"].amount
                                     = installment[n].amount
    BY <1>0 DEF InstallmentRows
  <2>7. \A n \in Installments :
          /\ InstallmentsSeen(w)[n].amount = installment[n].amount
          /\ n = job[w].on => InstallmentsSeen(w)[n].status = "paid"
          /\ n # job[w].on => InstallmentsSeen(w)[n].status = installment[n].status
    BY <2>5, <2>6
  <2>8. \A n \in Installments : installment[n].status \notin {"waived", "deleted"}
    BY DEF Priced
  <2>9. TotalDue(InstallmentsSeen(w)) = TotalDue(installment)
    BY <2>2, <2>7, <2>8, TotalDueSame
  <2> QED
    BY <2>7, <2>8, <2>9 DEF Priced
<1> QED
  BY <1>1, <1>2

\* A recompute leaves a ledger there.
LEMMA LedgerAfterExists ==
  ASSUME Figured, Written, NEW w \in Workers
  PROVE  LedgerAfter(w).exists
<1> DEFINE new == Totals(books[w].paid, books[w].due)
           old == books[w].row
<1>1. LedgerAfter(w) =
        [exists |-> IF TRUE # old.exists THEN TRUE ELSE ledger.exists,
         paid |-> IF new.paid # old.paid THEN new.paid ELSE ledger.paid,
         due |-> IF new.due # old.due THEN new.due ELSE ledger.due,
         balance |-> IF new.balance # old.balance THEN new.balance ELSE ledger.balance]
  BY LedgerColumns
<1>2. (IF TRUE # old.exists THEN TRUE ELSE ledger.exists) = TRUE
  BY DEF Written, Figured, LedgerRows, Readings
<1> HIDE DEF new, old
<1>3. \E p, d, b : LedgerAfter(w) = [exists |-> TRUE, paid |-> p, due |-> d, balance |-> b]
  BY <1>1, <1>2, Zenon
<1> QED
  BY <1>3

\* Whatever was stale, the columns of two such ledgers go together.
LEMMA LedgerAfterPriced ==
  ASSUME Figured, Written, NEW w \in Workers, books[w].row.exists \/ ~ledger.exists,
         PricedRow(ledger), PricedRow(books[w].row), books[w].due = Price
  PROVE  PricedRow(LedgerAfter(w))
<1> DEFINE new == Totals(books[w].paid, books[w].due)
           old == books[w].row
<1>1. LedgerAfter(w) =
        [exists |-> IF TRUE # old.exists THEN TRUE ELSE ledger.exists,
         paid |-> IF new.paid # old.paid THEN new.paid ELSE ledger.paid,
         due |-> IF new.due # old.due THEN new.due ELSE ledger.due,
         balance |-> IF new.balance # old.balance THEN new.balance ELSE ledger.balance]
  BY LedgerColumns
<1>2. (IF TRUE # old.exists THEN TRUE ELSE ledger.exists) = TRUE
  BY DEF Written, Figured, LedgerRows, Readings
<1>3. /\ books[w].paid \in Int /\ Price \in Int
      /\ new.paid = books[w].paid /\ new.due = Price /\ new.balance = Price - books[w].paid
  BY BoundsAssumption DEF Figured, Readings, Totals
<1>4. \A p \in Int : /\ Totals(p, Price).exists = TRUE /\ Totals(p, Price).paid = p
                     /\ Totals(p, Price).due = Price /\ Totals(p, Price).balance = Price - p
  BY DEF Totals
<1>5. /\ NoRow.exists = FALSE /\ NoRow.paid = 0 /\ NoRow.due = 0 /\ NoRow.balance = 0
  BY DEF NoRow
<1> HIDE DEF new
<1>6. CASE old = NoRow
  <2>1. ledger = NoRow
    BY <1>4, <1>5, <1>6 DEF PricedRow
  <2>2. /\ (IF new.paid # old.paid THEN new.paid ELSE ledger.paid) = books[w].paid
        /\ (IF new.due # old.due THEN new.due ELSE ledger.due) = Price
        /\ (IF new.balance # old.balance THEN new.balance ELSE ledger.balance)
             = Price - books[w].paid
    BY <1>3, <1>5, <1>6, <2>1
  <2>3. LedgerAfter(w) = Totals(books[w].paid, Price)
    BY <1>1, <1>2, <2>2 DEF Totals
  <2> QED
    BY <1>3, <2>3 DEF PricedRow
<1>7. ASSUME NEW q \in Int, old = Totals(q, Price) PROVE PricedRow(LedgerAfter(w))
  <2>1. PICK r \in Int : ledger = Totals(r, Price)
    BY <1>4, <1>5, <1>7 DEF PricedRow, Written
  <2>2. /\ old.paid = q /\ old.due = Price /\ old.balance = Price - q
        /\ ledger.paid = r /\ ledger.due = Price /\ ledger.balance = Price - r
    BY <1>4, <1>7, <2>1
  <2> DEFINE s == IF books[w].paid # q THEN books[w].paid ELSE r
  <2>3. /\ (IF new.paid # old.paid THEN new.paid ELSE ledger.paid) = s
        /\ (IF new.due # old.due THEN new.due ELSE ledger.due) = Price
        /\ (IF new.balance # old.balance THEN new.balance ELSE ledger.balance) = Price - s
        /\ s \in Int
    BY <1>3, <2>2
  <2> HIDE DEF s
  <2>4. LedgerAfter(w) = Totals(s, Price)
    BY <1>1, <1>2, <2>3 DEF Totals
  <2> QED
    BY <2>3, <2>4 DEF PricedRow
<1> QED
  BY <1>6, <1>7 DEF PricedRow

\* At the start the ledger row balances.
LEMMA BalancedInit == Init => Balanced
<1> SUFFICES ASSUME Init PROVE Balanced
  OBVIOUS
<1>1. Written
  <2>1. Totals(0, Price).exists = TRUE /\ NoRow.exists = FALSE
    BY DEF Totals, NoRow
  <2>2. \A w \in Workers : books[w].row = NoRow
    BY DEF Init, NothingRead
  <2>3. ledger = NoRow \/ ledger = Totals(0, Price)
    BY DEF Init
  <2> QED
    BY <2>1, <2>2, <2>3 DEF Written
<1>2. TotalDue([n \in Installments |-> [status |-> "absent", amount |-> 0]]) = Price
  BY DEF TotalDue
<1>3. \A n \in Installments : installment[n].status \notin {"waived", "deleted"}
  BY DEF Init, DefaultPlan
<1>4. PricedRow(ledger) /\ \A w \in Workers : PricedRow(books[w].row)
  <2>1. 0 \in Int /\ (ledger = NoRow \/ ledger = Totals(0, Price))
    BY DEF Init
  <2> QED
    BY <2>1 DEF Init, PricedRow, NothingRead
<1>5. \A w \in Workers : job[w].op \notin EditOps /\ ~Reckons(w)
  BY DEF Init, Idle, EditOps, Reckons
<1> QED
  BY <1>1, <1>2, <1>3, <1>4, <1>5, DefaultPlanDue DEF Balanced, Priced, Init

\* What a step leaves of a reading, a ledger and a request.
LEMMA BalancedStep ==
  ASSUME IInv, Figured, Balanced, NEW w \in Workers, UNCHANGED mix,
         \A v \in Workers \ {w} : job'[v] = job[v] /\ books'[v] = books[v],
         /\ ledger'.exists \/ ledger' = NoRow
         /\ ledger.exists => ledger'.exists
         /\ books'[w].row.exists \/ books'[w].row = NoRow
         /\ books'[w].row.exists => ledger'.exists,
         NoEdits =>
           /\ job'[w].op \notin EditOps
           /\ TotalDue(installment') = Price
           /\ \A n \in Installments : installment'[n].status \notin {"waived", "deleted"}
           /\ PricedRow(ledger') /\ PricedRow(books'[w].row)
           /\ Reckons(w)' /\ job'[w].step # "plan" => books'[w].due = Price
  PROVE  Balanced'
<1>1. Written'
  BY DEF Balanced, Written
<1>2. NoEdits' = NoEdits
  BY DEF NoEdits
<1>3. ASSUME NoEdits PROVE Priced'
  <2>1. \A v \in Workers \ {w} : Reckons(v)' = Reckons(v)
    BY DEF Reckons
  <2>2. Priced
    BY <1>3 DEF Balanced
  <2>3. \A v \in Workers : job'[v].op \notin EditOps
    BY <1>3, <2>2 DEF Priced
  <2>4. \A v \in Workers : PricedRow(books'[v].row)
    BY <1>3, <2>2 DEF Priced
  <2>5. \A v \in Workers : Reckons(v)' /\ job'[v].step # "plan" => books'[v].due = Price
    BY <1>3, <2>1, <2>2 DEF Priced, At
  <2>6. PricedRow(ledger)'
    BY <1>3 DEF PricedRow
  <2>7. \A v \in Workers : PricedRow(books[v].row)'
    BY <2>4 DEF PricedRow
  <2> QED
    BY <1>3, <2>3, <2>5, <2>6, <2>7 DEF Priced, At
<1> QED
  BY <1>1, <1>2, <1>3 DEF Balanced

\* A step that touches neither tables nor readings.
LEMMA BalancedQuiet ==
  ASSUME IInv, Figured, Balanced, NEW w \in Workers, UNCHANGED <<mix, installment>>,
         NEW j, job' = [job EXCEPT ![w] = j], NoEdits => j.op \notin EditOps,
         Reckons(w)' /\ j.step # "plan" => Reckons(w) /\ ~At(w, "plan"),
         \/ UNCHANGED <<ledger, books>>
         \/ /\ books' = [books EXCEPT ![w] = NothingRead]
            /\ UNCHANGED ledger
            /\ ~Reckons(w)'
  PROVE  Balanced'
<1>0. /\ job'[w] = j /\ \A v \in Workers \ {w} : job'[v] = job[v]
      /\ books \in [Workers -> Readings]
  BY DEF IInv, TypeOK, Figured
<1>1. NothingRead.row = NoRow /\ NoRow.exists = FALSE /\ PricedRow(NoRow)
  BY DEF NothingRead, NoRow, PricedRow
<1>2. CASE UNCHANGED <<ledger, books>>
  <2>1. NoEdits => /\ TotalDue(installment') = Price /\ PricedRow(ledger')
                   /\ PricedRow(books'[w].row)
                   /\ \A n \in Installments : installment'[n].status \notin {"waived", "deleted"}
                   /\ Reckons(w)' /\ job'[w].step # "plan" => books'[w].due = Price
    BY <1>0, <1>2 DEF Balanced, Priced
  <2>2. /\ ledger'.exists \/ ledger' = NoRow
        /\ ledger.exists => ledger'.exists
        /\ books'[w].row.exists \/ books'[w].row = NoRow
        /\ books'[w].row.exists => ledger'.exists
    BY <1>2 DEF Balanced, Written
  <2> QED
    BY <1>0, <1>2, <2>1, <2>2, BalancedStep
<1>3. CASE /\ books' = [books EXCEPT ![w] = NothingRead]
           /\ UNCHANGED ledger /\ ~Reckons(w)'
  <2>1. books'[w] = NothingRead /\ \A v \in Workers \ {w} : books'[v] = books[v]
    BY <1>0, <1>3
  <2>2. NoEdits => /\ TotalDue(installment') = Price /\ PricedRow(ledger')
                   /\ PricedRow(books'[w].row)
                   /\ \A n \in Installments : installment'[n].status \notin {"waived", "deleted"}
    BY <1>1, <1>3, <2>1 DEF Balanced, Priced
  <2>3. /\ ledger'.exists \/ ledger' = NoRow
        /\ ledger.exists => ledger'.exists
        /\ books'[w].row.exists \/ books'[w].row = NoRow
        /\ books'[w].row.exists => ledger'.exists
    BY <1>1, <1>3, <2>1 DEF Balanced, Written
  <2> QED
    BY <1>0, <1>3, <2>1, <2>2, <2>3, BalancedStep
<1> QED
  BY <1>2, <1>3

\* A step that writes a ledger from a recompute that ends.
LEMMA BalancedWrite ==
  ASSUME IInv, Figured, Balanced, NEW w \in Workers, UNCHANGED mix,
         NEW j, job' = [job EXCEPT ![w] = j], j = Idle \/ (j.op = "switch" /\ j.step = "cancel"),
         ledger' = ledger \/ (ledger' = LedgerAfter(w) /\ Reckons(w) /\ ~At(w, "plan")
                              /\ ~(~books[w].row.exists /\ ledger.exists)),
         books' = [books EXCEPT ![w] = NothingRead],
         NoEdits => /\ TotalDue(installment') = Price
                    /\ \A n \in Installments : installment'[n].status \notin {"waived", "deleted"}
  PROVE  Balanced'
<1>0. /\ job'[w] = j /\ \A v \in Workers \ {w} : job'[v] = job[v]
      /\ books'[w] = NothingRead /\ \A v \in Workers \ {w} : books'[v] = books[v]
  BY DEF IInv, TypeOK, Figured
<1>1. NothingRead.row = NoRow /\ NoRow.exists = FALSE /\ PricedRow(NoRow)
  BY DEF NothingRead, NoRow, PricedRow
<1>2. ~Reckons(w)' /\ job'[w].op \notin EditOps
  BY <1>0 DEF Reckons, Idle, EditOps
<1>3. /\ ledger'.exists \/ ledger' = NoRow
      /\ ledger.exists => ledger'.exists
  BY LedgerAfterExists DEF Balanced, Written
<1>4. NoEdits => PricedRow(ledger')
  <2> SUFFICES ASSUME NoEdits PROVE PricedRow(ledger')
    OBVIOUS
  <2>1. Priced /\ Written
    BY DEF Balanced
  <2>2. CASE ledger' = ledger
    BY <2>1, <2>2 DEF Priced
  <2>3. CASE /\ ledger' = LedgerAfter(w) /\ Reckons(w) /\ ~At(w, "plan")
             /\ ~(~books[w].row.exists /\ ledger.exists)
    <3>1. /\ PricedRow(ledger) /\ PricedRow(books[w].row) /\ books[w].due = Price
          /\ books[w].row.exists \/ ~ledger.exists
      BY <2>1, <2>3 DEF Priced
    <3> QED
      BY <2>1, <2>3, <3>1, LedgerAfterPriced
  <2> QED
    BY <2>2, <2>3
<1> QED
  BY <1>0, <1>1, <1>2, <1>3, <1>4, BalancedStep

\* A request that arrives has read nothing of the ledger yet.
LEMMA ArrivalBalanced ==
  ASSUME IInv, Promise, Figured, Balanced, NEW w \in Workers, Arrival(w)
  PROVE  Balanced'
<1>1. PICK j : Start(w, j) /\ Fresh(j)
  BY ArrivalRequest DEF Promise
<1>2. /\ UNCHANGED <<mix, installment, ledger, books>> /\ job' = [job EXCEPT ![w] = j]
      /\ NoEdits => j.op \notin EditOps
  BY <1>1 DEF Start, tables, gateway, NoEdits
<1>3. ~Reckons(w)'
  <2>1. /\ j.step \notin {"plan", "row", "commit", "quote"}
        /\ j.step = "gateway" => j.on # Balance
    BY <1>1, BoundsAssumption
       DEF Fresh, FreshSettle, FreshSwitch, FreshEdit, FreshRefund, FreshInvoice,
           Installments, Balance, Public
  <2>2. job'[w] = j
    BY <1>2 DEF IInv, TypeOK
  <2> QED
    BY <2>1, <2>2 DEF Reckons
<1> QED
  BY <1>2, <1>3, BalancedQuiet

\* The three reads.
LEMMA ReadBalanced ==
  ASSUME IInv, Promise, Figured, Balanced, NEW w \in Workers,
         SumPayments(w) \/ SumPlan(w) \/ ReadLedger(w)
  PROVE  Balanced'
<1>0. /\ UNCHANGED <<tables, mix, installment, ledger>> /\ books \in [Workers -> Readings]
      /\ Written /\ (NoEdits => Priced)
  BY DEF SumPayments, SumPlan, ReadLedger, Figured, tables, gateway, Balanced
<1>1. PICK s : Go(w, s) /\ s \in {"plan", "row", "commit", "quote"}
  BY DEF SumPayments, SumPlan, ReadLedger
<1>2. /\ job'[w].step = s /\ job'[w].on = job[w].on /\ job'[w].op = job[w].op
      /\ \A v \in Workers \ {w} : job'[v] = job[v]
  BY <1>0, <1>1, GoFollows DEF Go, IInv, TypeOK
<1>3. NoEdits => /\ job'[w].op \notin EditOps /\ TotalDue(installment') = Price
                 /\ \A n \in Installments : installment'[n].status \notin {"waived", "deleted"}
                 /\ PricedRow(ledger') /\ PricedRow(books[w].row)
  BY <1>0, <1>2 DEF Priced
<1>4. /\ ledger'.exists \/ ledger' = NoRow
      /\ ledger.exists => ledger'.exists
      /\ books[w].row.exists \/ books[w].row = NoRow
      /\ books[w].row.exists => ledger'.exists
  BY <1>0 DEF Written
<1>5. CASE SumPayments(w)
  <2>1. Go(w, "plan")
        /\ books' = [books EXCEPT ![w].paid = NetPaid(PaymentsSeen(w), InvoicesSeen(w))]
    BY <1>5 DEF SumPayments
  <2>2. job'[w].step = "plan"
    BY <1>0, <2>1, GoFollows
  <2>3. books'[w].row = books[w].row /\ \A v \in Workers \ {w} : books'[v] = books[v]
    BY <1>0, <2>1 DEF Readings
  <2> QED
    BY <1>0, <1>2, <1>3, <1>4, <2>2, <2>3, BalancedStep
<1>6. CASE SumPlan(w)
  <2>1. At(w, "plan") /\ books' = [books EXCEPT ![w].due = TotalDue(InstallmentsSeen(w))]
    BY <1>6 DEF SumPlan
  <2>2. /\ books'[w].row = books[w].row /\ \A v \in Workers \ {w} : books'[v] = books[v]
        /\ books'[w].due = TotalDue(InstallmentsSeen(w))
    BY <1>0, <2>1 DEF Readings
  <2>3. NoEdits => books'[w].due = Price
    BY <1>0, <2>1, <2>2, PlanStands DEF Flushed, At
  <2> QED
    BY <1>0, <1>2, <1>3, <1>4, <2>2, <2>3, BalancedStep
<1>7. CASE ReadLedger(w)
  <2>1. At(w, "row") /\ books' = [books EXCEPT ![w].row = ledger]
    BY <1>7 DEF ReadLedger
  <2>2. /\ books'[w].row = ledger /\ \A v \in Workers \ {w} : books'[v] = books[v]
        /\ books'[w].due = books[w].due
    BY <1>0, <2>1 DEF Readings
  <2>3. Reckons(w)' => Reckons(w) /\ ~At(w, "plan")
    BY <1>2, <2>1 DEF Reckons, At, Balance, Public
  <2>4. NoEdits => (Reckons(w)' => books'[w].due = Price)
    BY <1>0, <2>2, <2>3 DEF Priced
  <2>5. /\ books'[w].row.exists \/ books'[w].row = NoRow
        /\ books'[w].row.exists => ledger'.exists
    BY <1>0, <2>2 DEF Written
  <2>6. NoEdits => PricedRow(books'[w].row)
    BY <1>0, <2>2 DEF Priced
  <2> QED
    BY <1>0, <1>2, <1>3, <1>4, <2>2, <2>4, <2>5, <2>6, BalancedStep
<1> QED
  BY <1>5, <1>6, <1>7

\* Each step of a request leaves a balanced ledger row.
LEMMA ProgressBalanced ==
  ASSUME IInv, Promise, AllPlaced, Figured, Balanced, NEW w \in Workers, Progress(w) \/ Abort(w)
  PROVE  Balanced'
<1>0. /\ job \in [Workers -> Jobs] /\ job[w] \in Jobs /\ books \in [Workers -> Readings]
      /\ NoEdits => job[w].op \notin EditOps
  BY DEF IInv, TypeOK, Figured, Balanced, Priced
<1>1. Idle.op \notin EditOps
  BY DEF Idle, EditOps
<1>2. Finish(w) => ~Reckons(w)'
  BY <1>0 DEF Finish, Reckons, Idle
<1>3. CASE SumPayments(w) \/ SumPlan(w) \/ ReadLedger(w)
  BY <1>3, ReadBalanced
<1>4. CASE Abort(w)
  BY <1>1, <1>2, <1>4, BalancedQuiet DEF Abort, Finish, tables, gateway
<1>5. CASE MarkInvoicePaid(w) \/ CancelInvoice(w)
  BY <1>1, <1>2, <1>5, BalancedQuiet DEF MarkInvoicePaid, CancelInvoice, Finish, gateway
<1>6. CASE Lookup(w) \/ LockInvoice(w) \/ BreakCircle(w)
  <2>0. UNCHANGED <<tables, mix, installment, ledger, books>>
    BY <1>6 DEF Lookup, LockInvoice, BreakCircle, tables, gateway
  <2>1. Finish(w) \/ \E s \in {"flush", "hold", "mark", "cancel"} : Go(w, s)
    BY <1>6 DEF Lookup, LockInvoice, BreakCircle
  <2>2. CASE Finish(w)
    BY <1>1, <1>2, <2>0, <2>2, BalancedQuiet DEF Finish
  <2>3. ASSUME NEW s \in {"flush", "hold", "mark", "cancel"}, Go(w, s) PROVE Balanced'
    <3>1. job' = [job EXCEPT ![w] = [job[w] EXCEPT !.step = s]]
      BY <2>3 DEF Go
    <3>2. [job[w] EXCEPT !.step = s].op = job[w].op /\ job'[w].step = s
      BY <1>0, <2>0, <2>3, GoFollows DEF Jobs
    <3>3. ~Reckons(w)'
      BY <3>2 DEF Reckons
    <3> QED
      BY <1>0, <2>0, <3>1, <3>2, <3>3, BalancedQuiet
  <2> QED
    BY <2>1, <2>2, <2>3
<1>11. CASE LockRest(w)
  <2>0. UNCHANGED <<tables, mix, installment, ledger, books>>
    BY <1>11 DEF LockRest, tables, gateway
  <2>1. Finish(w) \/ Go(w, "sum")
    BY <1>11 DEF LockRest
  <2>2. CASE Finish(w)
    BY <1>1, <1>2, <2>0, <2>2, BalancedQuiet DEF Finish
  <2>3. CASE Go(w, "sum")
    <3>1. job' = [job EXCEPT ![w] = [job[w] EXCEPT !.step = "sum"]]
      BY <2>3 DEF Go
    <3>2. [job[w] EXCEPT !.step = "sum"].op = job[w].op /\ job'[w].step = "sum"
      BY <1>0, <2>0, <2>3, GoFollows DEF Jobs
    <3>3. ~Reckons(w)'
      BY <3>2 DEF Reckons
    <3> QED
      BY <1>0, <2>0, <3>1, <3>2, <3>3, BalancedQuiet
  <2> QED
    BY <2>1, <2>2, <2>3
<1>7. CASE Flush(w)
  <2>0. UNCHANGED <<mix, installment, ledger, books>> /\ ~Reckons(w)'
    BY <1>7, FlushReckons DEF Flush, tables, gateway
  <2>1. CASE Finish(w)
    BY <1>1, <2>0, <2>1, BalancedQuiet DEF Finish
  <2>2. CASE ~Finish(w)
    <3>1. job' = [job EXCEPT ![w] = Locked(w)]
      BY <1>7, <2>2 DEF Flush
    <3>2. Locked(w).op = job[w].op
      BY <1>0 DEF Locked, Jobs
    <3> QED
      BY <1>0, <2>0, <3>1, <3>2, BalancedQuiet
  <2> QED
    BY <2>1, <2>2
<1>8. CASE Quote(w)
  <2>0. UNCHANGED <<mix, installment, ledger>> /\ At(w, "quote")
    BY <1>8 DEF Quote, tables, gateway
  <2>1. CASE Finish(w) /\ books' = [books EXCEPT ![w] = NothingRead]
    BY <1>1, <1>2, <2>0, <2>1, BalancedQuiet DEF Finish
  <2>2. CASE ~(Finish(w) /\ books' = [books EXCEPT ![w] = NothingRead])
    <3>1. PICK value \in Figures :
            /\ job' = [job EXCEPT ![w] = [job[w] EXCEPT !.step = "gateway", !.amt = value]]
            /\ UNCHANGED books
      BY <1>8, <2>2 DEF Quote
    <3>2. /\ [job[w] EXCEPT !.step = "gateway", !.amt = value].op = job[w].op
          /\ [job[w] EXCEPT !.step = "gateway", !.amt = value].on = job[w].on
          /\ [job[w] EXCEPT !.step = "gateway", !.amt = value].step = "gateway"
      BY <1>0 DEF Jobs
    <3>3. job'[w] = [job[w] EXCEPT !.step = "gateway", !.amt = value]
      BY <1>0, <3>1
    <3>4. Reckons(w)' => Reckons(w) /\ ~At(w, "plan")
      BY <2>0, <3>2, <3>3 DEF Reckons, At
    <3> QED
      BY <1>0, <2>0, <3>1, <3>2, <3>4, BalancedQuiet
  <2> QED
    BY <2>1, <2>2
<1>9. CASE Commit(w)
  <2>0. /\ At(w, "commit") /\ UNCHANGED mix /\ books' = [books EXCEPT ![w] = NothingRead]
    BY <1>9 DEF Commit, gateway
  <2>1. CASE LedgerClash(w)
    BY <1>1, <1>2, <1>9, <2>0, <2>1, BalancedQuiet DEF Commit, Finish, tables
  <2>2. CASE ~LedgerClash(w)
    <3>1. /\ installment' = InstallmentsSeen(w)
          /\ ledger' = IF NeedsLedger(w) THEN LedgerAfter(w) ELSE ledger
          /\ IF StillToCancel(w) THEN Go(w, "cancel") ELSE Finish(w)
      BY <1>9, <2>2 DEF Commit
    <3>2. PICK j : /\ job' = [job EXCEPT ![w] = j]
                   /\ j = Idle \/ (j.op = "switch" /\ j.step = "cancel")
      <4>1. CASE StillToCancel(w)
        <5>1. /\ [job[w] EXCEPT !.step = "cancel"].op = "switch"
              /\ [job[w] EXCEPT !.step = "cancel"].step = "cancel"
          BY <1>0, <4>1 DEF StillToCancel, Jobs
        <5> QED
          BY <3>1, <4>1, <5>1 DEF Go
      <4>2. CASE ~StillToCancel(w)
        BY <3>1, <4>2 DEF Finish
      <4> QED
        BY <4>1, <4>2
    <3>3. \/ ledger' = ledger
          \/ /\ ledger' = LedgerAfter(w) /\ Reckons(w) /\ ~At(w, "plan")
             /\ ~(~books[w].row.exists /\ ledger.exists)
      BY <2>0, <2>2, <3>1 DEF NeedsLedger, LedgerClash, Reckons, At
    <3>4. NoEdits => /\ TotalDue(installment') = Price
                     /\ \A n \in Installments : installment'[n].status \notin {"waived", "deleted"}
      BY <2>0, <3>1, PlanStands DEF Flushed, At, Balanced
    <3> QED
      BY <2>0, <3>2, <3>3, <3>4, BalancedWrite
  <2> QED
    BY <2>1, <2>2
<1>10. ASSUME NEW i \in Invoices, RaiseInvoice(w, i) PROVE Balanced'
  <2>0. /\ At(w, "gateway") /\ UNCHANGED <<mix, installment>>
        /\ books' = [books EXCEPT ![w] = NothingRead]
        /\ job' = [job EXCEPT ![w] = Idle]
    BY <1>10 DEF RaiseInvoice, gateway, Finish, tables
  <2>1. CASE ledger' = ledger
    BY <1>1, <1>2, <2>0, <2>1, BalancedQuiet DEF Finish
  <2>2. CASE ledger' # ledger
    <3>1. job[w].on = Balance /\ ~LedgerClash(w) /\ ledger' = LedgerAfter(w)
      BY <1>10, <2>2 DEF RaiseInvoice, tables
    <3>2. job[w].op = "create"
      BY <2>0, <3>1 DEF IInv, LinksOK, RequestOK, At, CreateOps, Promise, Knows, Told, PlanTold,
                        Balance, Public
    <3>3. /\ Reckons(w) /\ ~At(w, "plan") /\ ~(~books[w].row.exists /\ ledger.exists)
      BY <2>0, <3>1, <3>2 DEF Reckons, At, LedgerClash, NeedsLedger, Balance, Public
    <3>4. NoEdits => /\ TotalDue(installment') = Price
                     /\ \A n \in Installments : installment'[n].status \notin {"waived", "deleted"}
      BY <2>0 DEF Balanced, Priced
    <3> QED
      BY <2>0, <3>1, <3>3, <3>4, BalancedWrite
  <2> QED
    BY <2>1, <2>2
<1> QED
  BY <1>3, <1>4, <1>5, <1>6, <1>7, <1>8, <1>9, <1>10, <1>11 DEF Progress

\* In every behaviour the ledger row balances; where no plan is edited, with the
\* price of the course due.
THEOREM BalancedKept == Spec => []Balanced
<1>1. Init => Balanced
  BY BalancedInit
<1>2. IInv /\ Promise /\ AllPlaced /\ Figured /\ Balanced /\ [Next]_vars => Balanced'
  <2> SUFFICES ASSUME IInv, Promise, AllPlaced, Figured, Balanced, [Next]_vars PROVE Balanced'
    OBVIOUS
  <2>1. CASE World \/ UNCHANGED vars
    <3>1. UNCHANGED <<mix, installment, ledger, job, books>>
      BY <2>1 DEF World, BuyerPays, BankPosts, tables, vars
    <3> QED
      BY <3>1 DEF Balanced, Written, NoEdits, Priced, PricedRow, Reckons, At
  <2> QED
    BY <2>1, ArrivalBalanced, ProgressBalanced DEF Next
<1> QED
  BY <1>1, <1>2, Invariance, PromiseKept, PlacedKept, FiguredKept, PTL DEF Spec

\* However stale the figures a recompute writes column by column, the ledger credits no
\* more than what is on the books, and its balance is what is due minus what is paid unless
\* a plan was edited while another request ran (ledger.py:41-66, models/ledger.py:93-98).
THEOREM LedgerHonestAlways == Spec => []LedgerHonest
<1>1. Follows /\ Solvent /\ Balanced => LedgerHonest
  <2> SUFFICES ASSUME Follows, Solvent, Balanced PROVE LedgerHonest
    OBVIOUS
  <2>1. \A p, d : Totals(p, d).balance = Totals(p, d).due - Totals(p, d).paid
    BY DEF Totals
  <2>2. NoRow.balance = NoRow.due - NoRow.paid
    BY DEF NoRow
  <2>3. Alone => ledger.balance = ledger.due - ledger.paid
    BY <2>1, <2>2 DEF Follows, Current, Balanced, Written
  <2>4. NoEdits => ledger.balance = ledger.due - ledger.paid
    BY <2>1, <2>2 DEF Balanced, Priced, PricedRow
  <2> QED
    BY <2>3, <2>4 DEF LedgerHonest, Solvent, NoEdits
<1> QED
  BY <1>1, FollowsKept, SolventKept, BalancedKept, PTL

=============================================================================
