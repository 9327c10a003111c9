---------------------------- MODULE ReceiptsProofs ----------------------------
(***************************************************************************)
(* What holds of Receipts for any payment, any number of request threads   *)
(* and any number of receipts.                                             *)
(***************************************************************************)
EXTENDS Receipts, FiniteSetTheorems, TLAPS

-----------------------------------------------------------------------------
(* The inductive invariant.  A receipt the tax authority has handed out is *)
(* in one place: with the request that carries it to the table, or in one  *)
(* row of the table.                                                       *)

\* Request j has a receipt in hand that the table does not have.
Carrying(j) == j.step \in {"store", "unmint", "restamp"} /\ j.ddtd # None
Holding(j) == Carrying(j) \/ j.step = "void"

\* A row with this receipt can be overwritten by a replay ...
Replaced(d) == d = None \/ filed[d].by = "reissue"

\* ... or marked returned, and no receipt that issuing left goes out of sight.
Gone(d) == Replaced(d) \/ filed[d].status = "void"

RowOK(r) ==
  /\ receipt[r].status = "absent" => receipt[r].ddtd = None /\ ~receipt[r].temp
  /\ receipt[r].status = "temp" => receipt[r].temp
  /\ receipt[r].status = "issued" => receipt[r].ddtd # None
  /\ receipt[r].temp => receipt[r].ddtd = None
  /\ receipt[r].ddtd # None => filed[receipt[r].ddtd].status # "none"

RowsOK ==
  /\ \A r \in Rows : RowOK(r)
  /\ \A r, q \in Rows : r # q /\ receipt[r].ddtd # None => receipt[r].ddtd # receipt[q].ddtd

JobOK(j) ==
  /\ j.step \in {"unmint", "restamp", "void"} => j.ddtd # None
  /\ j.step = "replace" => j.ddtd = None
  /\ j.step \in {"pay", "replace"} => j.op = "refund"
  /\ Carrying(j) => filed[j.ddtd].status = "valid" /\ \A r \in Rows : receipt[r].ddtd # j.ddtd
  /\ j.step = "restamp" => j.op = "reissue" /\ filed[j.ddtd].by = "reissue"
  /\ j.op = "reissue" /\ j.step \in {"mint", "restamp"} =>
       j.row \in Rows /\ receipt[j.row].status # "absent" /\ Replaced(receipt[j.row].ddtd)
  /\ j.step \in {"void", "mark"} => j.row \in Rows /\ receipt[j.row].status # "absent"
  /\ j.step = "void" =>
       /\ filed[j.ddtd].status # "none"
       /\ \A r \in Rows \ {j.row} : receipt[r].ddtd # j.ddtd
       /\ receipt[j.row].ddtd = j.ddtd \/ Replaced(receipt[j.row].ddtd)
  /\ j.step = "mark" => Gone(receipt[j.row].ddtd)

JobsOK ==
  /\ \A w \in Workers : JobOK(job[w])
  /\ \A v, w \in Workers :
       v # w /\ Carrying(job[v]) /\ Holding(job[w]) => job[v].ddtd # job[w].ddtd

\* Who knows of a valid receipt.
Known ==
  \A d \in Filed \ stranded :
    filed[d].status = "valid" /\ filed[d].by = "issue" =>
      \/ \E r \in Rows : receipt[r].ddtd = d /\ receipt[r].status = "issued"
      \/ \E w \in Workers : job[w].step \in {"store", "unmint"} /\ job[w].ddtd = d

\* Who is about to mark a receipt that is void.
Marked ==
  \A r \in Live :
    receipt[r].ddtd \notin stranded \cup {None} /\ filed[receipt[r].ddtd].status = "void" =>
      \E w \in Workers : At(w, "mark") /\ job[w].row = r /\ job[w].ddtd = receipt[r].ddtd

\* What the unique index keeps up.
OneLive == \A r, q \in Live : r = q

IInv == TypeOK /\ RowsOK /\ JobsOK /\ Known /\ Marked /\ OneLive

-----------------------------------------------------------------------------

LEMMA JobType ==
  ASSUME TypeOK, NEW w \in Workers
  PROVE  /\ Idle \in Jobs
         /\ job[w] \in Jobs
         /\ \A step \in Steps : [job[w] EXCEPT !.step = step] \in Jobs
<1>1. Idle \in Jobs
  BY ReceiptsAssumption DEF Idle, Jobs, Steps, AllOps, PaymentRows, Unrefunded
<1>2. job[w] \in Jobs
  BY DEF TypeOK
<1> QED
  BY <1>1, <1>2 DEF Jobs

LEMMA IdleOK == JobOK(Idle)
  BY DEF JobOK, Idle, Carrying

\* A step of thread w that leaves the table and the tax authority alone.
LEMMA JobMoves ==
  ASSUME IInv, NEW w \in Workers, NEW j \in Jobs, Become(w, j), JobOK(j),
         UNCHANGED <<mix, receipt, filed>>,
         temp' \in BOOLEAN, payment' \in PaymentRows,
         stranded' \subseteq Filed, stranded \subseteq stranded',
         Carrying(j) => Carrying(job[w]) /\ j.ddtd = job[w].ddtd,
         j.step = "void" => receipt[j.row].ddtd = j.ddtd,
         job[w].step \in {"store", "unmint"} =>
           \/ j.step \in {"store", "unmint"} /\ j.ddtd = job[w].ddtd
           \/ job[w].ddtd \in stranded' \cup {None},
         job[w].step = "mark" => job[w].ddtd \in stranded' \cup {None}
  PROVE  IInv'
<1>1. job \in [Workers -> Jobs] /\ job' = [job EXCEPT ![w] = j]
  BY DEF IInv, TypeOK, Become
<1>2. \A v \in Workers : job'[v] = IF v = w THEN j ELSE job[v]
  BY <1>1
<1>3. TypeOK'
  BY <1>1 DEF IInv, TypeOK
<1>4. RowsOK'
  BY DEF IInv, RowsOK, RowOK
<1>5. JobsOK'
  <2>1. \A v \in Workers : JobOK(job[v])'
    BY <1>2, SMTT(60) DEF IInv, JobsOK, JobOK, Carrying, Replaced, Gone
  <2>2. ASSUME NEW v \in Workers, NEW u \in Workers, v # u,
               Carrying(job'[v]), Holding(job'[u])
        PROVE  job'[v].ddtd # job'[u].ddtd
    <3>1. Carrying(job[v]) /\ job'[v].ddtd = job[v].ddtd
      BY <1>2, <2>2
    <3>2. CASE u # w
      BY <1>2, <2>2, <3>1, <3>2 DEF IInv, JobsOK
    <3>3. CASE u = w /\ Carrying(j)
      BY <1>2, <2>2, <3>1, <3>3 DEF IInv, JobsOK, Holding
    <3>4. CASE u = w /\ j.step = "void"
      BY <1>2, <2>2, <3>1, <3>4 DEF IInv, JobsOK, JobOK
    <3> QED
      BY <1>2, <2>2, <3>2, <3>3, <3>4 DEF Holding
  <2> QED
    BY <2>1, <2>2 DEF JobsOK, Carrying, Holding
<1>6. Known'
  <2>1. SUFFICES ASSUME NEW d \in Filed \ stranded', filed[d].status = "valid", filed[d].by = "issue"
                 PROVE  \/ \E r \in Rows : receipt[r].ddtd = d /\ receipt[r].status = "issued"
                        \/ \E v \in Workers : job'[v].step \in {"store", "unmint"} /\ job'[v].ddtd = d
    BY DEF Known
  <2>2. CASE \E r \in Rows : receipt[r].ddtd = d /\ receipt[r].status = "issued"
    BY <2>2
  <2>3. CASE \E v \in Workers : job[v].step \in {"store", "unmint"} /\ job[v].ddtd = d
    BY <1>2, <2>1, <2>3, ReceiptsAssumption DEF Filed
  <2> QED
    BY <2>1, <2>2, <2>3 DEF IInv, Known
<1>7. Marked'
  BY <1>2 DEF IInv, Marked, Live, At
<1>8. OneLive'
  BY DEF IInv, OneLive, Live
<1> QED
  BY <1>3, <1>4, <1>5, <1>6, <1>7, <1>8 DEF IInv

-----------------------------------------------------------------------------
(* One lemma for each way a step can write.                                *)

\* A receipt the tax authority hands out is in nobody's hands before.
LEMMA MintKeeps ==
  ASSUME IInv, NEW w \in Workers, Mint(w)
  PROVE  IInv'
<1>1. PICK d \in Filed :
        /\ filed[d].status = "none"
        /\ filed' = [filed EXCEPT ![d] =
             [status |-> "valid", by |-> IF job[w].op = "reissue" THEN "reissue" ELSE "issue"]]
        /\ Become(w, [job[w] EXCEPT !.ddtd = d,
                        !.step = IF job[w].op = "reissue" THEN "restamp" ELSE "store"])
  BY DEF Mint, LowestOf
<1> DEFINE j == [job[w] EXCEPT !.ddtd = d,
                   !.step = IF job[w].op = "reissue" THEN "restamp" ELSE "store"]
<1>2. /\ At(w, "mint") /\ UNCHANGED <<mix, temp, receipt, payment, stranded>>
      /\ d # None
  BY ReceiptsAssumption DEF Mint, Filed
<1>3. job[w] \in Jobs /\ j \in Jobs
  <2>1. job[w] \in Jobs
    BY DEF IInv, TypeOK
  <2>2. CASE job[w].op = "reissue"
    BY <2>1, <2>2 DEF Jobs, Steps
  <2>3. CASE job[w].op # "reissue"
    BY <2>1, <2>3 DEF Jobs, Steps
  <2> QED
    BY <2>1, <2>2, <2>3
<1>4. /\ j.ddtd = d /\ j.step = (IF job[w].op = "reissue" THEN "restamp" ELSE "store")
      /\ j.op = job[w].op /\ j.row = job[w].row
  BY <1>3 DEF Jobs
<1>5. \A v \in Workers : job'[v] = IF v = w THEN j ELSE job[v]
  BY <1>1 DEF Become, IInv, TypeOK
<1>6. \A e \in Filed : e # d => filed'[e] = filed[e]
  BY <1>1 DEF IInv, TypeOK
<1>7. /\ filed'[d].status = "valid"
      /\ filed'[d].by = IF job[w].op = "reissue" THEN "reissue" ELSE "issue"
  BY <1>1 DEF IInv, TypeOK
<1>8. \A r \in Rows : receipt[r].ddtd \in Filed \cup {None} /\ receipt[r].ddtd # d
  BY <1>1, <1>2 DEF IInv, TypeOK, ReceiptRows, RowsOK, RowOK
<1>9. \A v \in Workers : job[v] \in Jobs /\ (v # w /\ Holding(job[v]) => job[v].ddtd \in Filed \ {d})
  BY <1>1 DEF IInv, TypeOK, Jobs, JobsOK, JobOK, Holding, Carrying
<1>10. TypeOK'
  <2>1. filed' \in [Filed -> FiledRows]
    BY <1>1 DEF IInv, TypeOK, FiledRows
  <2>2. job' \in [Workers -> Jobs]
    BY <1>1, <1>3 DEF IInv, TypeOK, Become
  <2> QED
    BY <1>2, <2>1, <2>2 DEF IInv, TypeOK
<1>11. RowsOK'
  BY <1>2, <1>6, <1>8 DEF IInv, RowsOK, RowOK
<1>12. JobsOK'
  <2>1. ASSUME NEW v \in Workers, v # w PROVE JobOK(job[v])'
    <3>1. JobOK(job[v])
      BY DEF IInv, JobsOK
    <3>2. job'[v] = job[v]
      BY <1>5, <2>1
    <3>3. \/ job[v].step \in {"void", "mark"}
          \/ job[v].op = "reissue" /\ job[v].step \in {"mint", "restamp"}
          => job[v].row \in Rows
      BY <3>1 DEF JobOK
    <3> QED
      BY <1>2, <1>6, <1>8, <1>9, <2>1, <3>1, <3>2, <3>3, SMTT(60) DEF JobOK, Carrying, Holding, Replaced, Gone
  <2>2. JobOK(job[w])'
    <3>1. JobOK(job[w]) /\ job'[w] = j /\ job[w].step = "mint"
      BY <1>2, <1>5 DEF IInv, JobsOK, At
    <3>2. CASE job[w].op = "reissue"
      <4>1. /\ job[w].row \in Rows /\ receipt[job[w].row].status # "absent"
            /\ Replaced(receipt[job[w].row].ddtd)
        BY <3>1, <3>2 DEF JobOK
      <4>2. Replaced(receipt[job[w].row].ddtd)'
        BY <1>2, <1>4, <1>6, <1>8, <3>1, <4>1 DEF Replaced
      <4> HIDE DEF j
      <4> QED
        BY <1>2, <1>4, <1>7, <1>8, <3>1, <3>2, <4>1, <4>2 DEF JobOK, Carrying
    <3>3. CASE job[w].op # "reissue"
      <4> HIDE DEF j
      <4> QED
        BY <1>2, <1>4, <1>7, <1>8, <3>1, <3>3 DEF JobOK, Carrying
    <3> QED
      BY <3>2, <3>3
  <2>3. ASSUME NEW v \in Workers, NEW u \in Workers, v # u,
               Carrying(job'[v]), Holding(job'[u])
        PROVE  job'[v].ddtd # job'[u].ddtd
    <3> HIDE DEF j
    <3>1. CASE v = w
      BY <1>4, <1>5, <1>9, <2>3, <3>1
    <3>2. CASE u = w
      BY <1>4, <1>5, <1>9, <2>3, <3>2 DEF Holding
    <3>3. CASE v # w /\ u # w
      BY <1>5, <2>3, <3>3 DEF IInv, JobsOK
    <3> QED
      BY <3>1, <3>2, <3>3
  <2> QED
    BY <1>5, <2>1, <2>2, <2>3 DEF JobsOK, Carrying, Holding
<1>13. Known'
  <2>1. SUFFICES ASSUME NEW e \in Filed \ stranded, filed'[e].status = "valid", filed'[e].by = "issue"
                 PROVE  \/ \E r \in Rows : receipt[r].ddtd = e /\ receipt[r].status = "issued"
                        \/ \E v \in Workers : job'[v].step \in {"store", "unmint"} /\ job'[v].ddtd = e
    BY <1>2 DEF Known
  <2>2. CASE e = d
    BY <1>4, <1>5, <1>7, <2>1, <2>2
  <2>3. CASE e # d
    BY <1>2, <1>5, <1>6, <2>1, <2>3 DEF IInv, Known, At
  <2> QED
    BY <2>2, <2>3
<1>14. Marked'
  BY <1>2, <1>5, <1>6, <1>8 DEF IInv, Marked, Live, At
<1>15. OneLive'
  BY <1>2 DEF IInv, OneLive, Live
<1> QED
  BY <1>10, <1>11, <1>12, <1>13, <1>14, <1>15 DEF IInv

\* What the index has let in is the only live row, and its receipt is in one place.
LEMMA InsertKeeps ==
  ASSUME IInv, NEW w \in Workers, At(w, "store"), ~IndexRefuses(None), NEW n \in Rows \ Existing,
         receipt' = [receipt EXCEPT ![n] = NewRow(job[w])],
         AfterStore(w), UNCHANGED <<mix, temp, filed, payment, stranded>>
  PROVE  IInv'
<1> DEFINE j == IF job[w].op = "refund" THEN [job[w] EXCEPT !.step = "end"] ELSE Idle
           d == job[w].ddtd
<1>1. job[w] \in Jobs /\ j \in Jobs /\ job' = [job EXCEPT ![w] = j] /\ j.step \in {"idle", "end"}
  <2>1. job[w] \in Jobs /\ Idle \in Jobs /\ Idle.step = "idle"
    BY JobType DEF IInv, Idle
  <2>2. CASE job[w].op = "refund"
    BY <2>1, <2>2 DEF AfterStore, Go, Become, Jobs, Steps
  <2>3. CASE job[w].op # "refund"
    BY <2>1, <2>3 DEF AfterStore, Finish, Become
  <2> QED
    BY <2>1, <2>2, <2>3
<1>2. \A v \in Workers : job'[v] = IF v = w THEN j ELSE job[v]
  BY <1>1 DEF IInv, TypeOK
<1> HIDE DEF j
<1>3. receipt \in [Rows -> ReceiptRows] /\ d \in Filed \cup {None} /\ None \notin Rows /\ None \notin Filed
  BY <1>1, ReceiptsAssumption DEF IInv, TypeOK, Jobs, Rows, Filed
<1>4. /\ \A r \in Rows : r # n => receipt'[r] = receipt[r]
      /\ receipt'[n].ddtd = d /\ receipt'[n].temp = (d = None)
      /\ receipt'[n].status = IF d = None THEN "temp" ELSE "issued"
  BY <1>3 DEF NewRow
<1>5. receipt[n].status = "absent" /\ receipt[n].ddtd = None
  BY DEF IInv, RowsOK, RowOK, Existing
<1>6. d # None => filed[d].status = "valid" /\ \A r \in Rows : receipt[r].ddtd # d
  BY DEF IInv, JobsOK, JobOK, Carrying, At
<1>7. Live = {}
  BY <1>3 DEF IndexRefuses, Live
<1>8. TypeOK'
  <2>1. NewRow(job[w]) \in ReceiptRows
    BY <1>1 DEF NewRow, ReceiptRows, Jobs, Statuses
  <2> QED
    BY <1>1, <1>3, <2>1 DEF IInv, TypeOK
<1>9. RowsOK'
  <2>1. RowOK(n)'
    BY <1>3, <1>4, <1>6 DEF RowOK
  <2>2. \A r \in Rows : r # n => RowOK(r)'
    BY <1>4 DEF IInv, RowsOK, RowOK
  <2>3. ASSUME NEW r \in Rows, NEW q \in Rows, r # q, receipt'[r].ddtd # None
        PROVE  receipt'[r].ddtd # receipt'[q].ddtd
    BY <1>4, <1>6, <2>3 DEF IInv, RowsOK
  <2> QED
    BY <2>1, <2>2, <2>3 DEF RowsOK
<1>10. JobsOK'
  <2>1. ASSUME NEW v \in Workers, v # w PROVE JobOK(job[v])'
    <3>1. JobOK(job[v]) /\ job'[v] = job[v]
      BY <1>2, <2>1 DEF IInv, JobsOK
    <3>2. d # None /\ Holding(job[v]) => job[v].ddtd # d
      BY <2>1 DEF IInv, JobsOK, Carrying, At
    <3>3. \A r \in Rows : receipt[r].status # "absent" =>
            receipt'[r] = receipt[r]
      BY <1>4, <1>5
    <3>4. Holding(job[v]) => receipt'[n].ddtd # job[v].ddtd
      BY <1>4, <3>1, <3>2 DEF Holding, Carrying, JobOK
    <3> QED
      BY <1>4, <3>1, <3>3, <3>4, SMTT(60) DEF JobOK, Carrying, Holding, Replaced, Gone
  <2>2. JobOK(job[w])'
    BY <1>1, <1>2 DEF JobOK, Carrying
  <2> QED
    BY <1>1, <1>2, <2>1, <2>2 DEF IInv, JobsOK, Carrying, Holding
<1>11. Known'
  <2>1. SUFFICES ASSUME NEW e \in Filed \ stranded, filed[e].status = "valid", filed[e].by = "issue"
                 PROVE  \/ \E r \in Rows : receipt'[r].ddtd = e /\ receipt'[r].status = "issued"
                        \/ \E v \in Workers : job'[v].step \in {"store", "unmint"} /\ job'[v].ddtd = e
    BY DEF Known
  <2>2. CASE e = d
    BY <1>3, <1>4, <2>2
  <2>3. CASE e # d
    BY <1>2, <1>4, <1>5, <2>1, <2>3 DEF IInv, Known
  <2> QED
    BY <2>2, <2>3
<1>12. Marked'
  BY <1>4, <1>6, <1>7 DEF Marked, Live
<1>13. OneLive'
  BY <1>4, <1>7 DEF OneLive, Live
<1> QED
  BY <1>8, <1>9, <1>10, <1>11, <1>12, <1>13 DEF IInv

\* A void leaves only its own receipt void, which no other request has in hand.
LEMMA VoidingKeeps ==
  ASSUME IInv, NEW w \in Workers, NEW j \in Jobs, Become(w, j),
         job[w].ddtd \in Filed, Holding(job[w]),
         filed' = [filed EXCEPT ![job[w].ddtd].status = "void"],
         \/ At(w, "unmint") /\ j = Idle
         \/ At(w, "void") /\ j = [job[w] EXCEPT !.step = "mark"],
         UNCHANGED <<mix, temp, receipt, payment, stranded>>
  PROVE  IInv'
<1> DEFINE d == job[w].ddtd
<1>1. \A v \in Workers : job'[v] = IF v = w THEN j ELSE job[v]
  BY DEF IInv, TypeOK, Become
<1>2. /\ job[w] \in Jobs /\ None \notin Filed /\ d # None
      /\ j.step \in {"idle", "mark"}
      /\ j.step = "mark" => At(w, "void") /\ j.row = job[w].row /\ j.ddtd = d
  BY ReceiptsAssumption DEF IInv, TypeOK, Jobs, Filed, Idle
<1>3. /\ filed'[d].status = "void" /\ filed'[d].by = filed[d].by
      /\ \A e \in Filed : e # d => filed'[e] = filed[e]
  BY DEF IInv, TypeOK, FiledRows
<1>4. \A r \in Rows : receipt[r].ddtd \in Filed \cup {None}
  BY DEF IInv, TypeOK, ReceiptRows
<1>5. \A v \in Workers : /\ job[v] \in Jobs
                         /\ v # w /\ Carrying(job[v]) => job[v].ddtd \in Filed \ {d}
  BY DEF IInv, TypeOK, Jobs, JobsOK, Carrying
<1>6. TypeOK'
  <2>1. filed' \in [Filed -> FiledRows]
    BY DEF IInv, TypeOK, FiledRows
  <2> QED
    BY <2>1 DEF IInv, TypeOK, Become
<1>7. RowsOK'
  BY <1>3, <1>4 DEF IInv, RowsOK, RowOK
<1>8. JobsOK'
  <2>1. ASSUME NEW v \in Workers, v # w PROVE JobOK(job[v])'
    <3>1. JobOK(job[v]) /\ job'[v] = job[v]
      BY <1>1, <2>1 DEF IInv, JobsOK
    <3>2. \A e \in Filed : filed'[e].by = filed[e].by
      BY <1>3
    <3>3. job[v].step \in {"void", "restamp"} => job[v].ddtd \in Filed
      BY <1>5, <3>1 DEF JobOK, Jobs
    <3> QED
      BY <1>3, <1>4, <1>5, <2>1, <3>1, <3>2, <3>3, SMTT(60) DEF JobOK, Carrying, Replaced, Gone
  <2>2. JobOK(job[w])'
    <3>1. CASE j.step = "idle"
      BY <1>1, <3>1 DEF JobOK, Carrying
    <3>2. CASE j.step = "mark"
      <4>1. /\ j.row \in Rows /\ receipt[j.row].status # "absent"
            /\ receipt[j.row].ddtd = d \/ Replaced(receipt[j.row].ddtd)
        BY <1>2, <3>2 DEF IInv, JobsOK, JobOK, At
      <4>2. Gone(receipt[j.row].ddtd)'
        BY <1>3, <1>4, <4>1 DEF Gone, Replaced
      <4> QED
        BY <1>1, <3>2, <4>1, <4>2 DEF JobOK, Carrying
    <3> QED
      BY <1>2, <3>1, <3>2
  <2> QED
    BY <1>1, <1>2, <2>1, <2>2 DEF IInv, JobsOK, Carrying, Holding
<1>9. Known'
  <2>1. SUFFICES ASSUME NEW e \in Filed \ stranded, filed'[e].status = "valid", filed'[e].by = "issue"
                 PROVE  \/ \E r \in Rows : receipt[r].ddtd = e /\ receipt[r].status = "issued"
                        \/ \E v \in Workers : job'[v].step \in {"store", "unmint"} /\ job'[v].ddtd = e
    BY DEF Known
  <2>2. e # d
    BY <1>3, <2>1
  <2> QED
    BY <1>1, <1>3, <2>1, <2>2 DEF IInv, Known
<1>10. Marked'
  <2>1. SUFFICES ASSUME NEW r \in Live, receipt[r].ddtd \notin stranded \cup {None},
                        filed'[receipt[r].ddtd].status = "void"
                 PROVE  \E v \in Workers : /\ job'[v].step = "mark" /\ job'[v].row = r
                                           /\ job'[v].ddtd = receipt[r].ddtd
    BY DEF Marked, Live, At
  <2>2. r \in Rows
    BY DEF Live
  <2>3. CASE receipt[r].ddtd = d
    <3>1. At(w, "void") /\ job[w].row = r
      BY <1>2, <2>2, <2>3 DEF IInv, JobsOK, JobOK, Carrying, Holding, At
    <3> QED
      BY <1>1, <1>2, <2>3, <3>1 DEF At, Idle, Jobs
  <2>4. CASE receipt[r].ddtd # d
    <3>1. filed[receipt[r].ddtd].status = "void"
      BY <1>3, <1>4, <2>1, <2>2, <2>4
    <3>2. PICK v \in Workers : At(v, "mark") /\ job[v].row = r /\ job[v].ddtd = receipt[r].ddtd
      BY <2>1, <3>1 DEF IInv, Marked
    <3>3. v # w
      BY <2>4, <3>2
    <3> QED
      BY <1>1, <3>2, <3>3 DEF At
  <2> QED
    BY <2>3, <2>4
<1>11. OneLive'
  BY DEF IInv, OneLive, Live
<1> QED
  BY <1>6, <1>7, <1>8, <1>9, <1>10, <1>11 DEF IInv

\* A row that is marked returned takes nothing valid out of sight.
LEMMA MarkKeeps ==
  ASSUME IInv, NEW w \in Workers, Mark(w)
  PROVE  IInv'
<1> DEFINE j == IF job[w].op = "refund" THEN [job[w] EXCEPT !.step = "pay", !.seen = payment]
                ELSE Idle
           n == job[w].row
<1>1. /\ At(w, "mark") /\ receipt' = [receipt EXCEPT ![n].status = "returned"]
      /\ UNCHANGED <<mix, temp, filed, payment, stranded>>
  BY DEF Mark
<1>2. /\ j \in Jobs /\ j.step \in {"idle", "pay"} /\ job' = [job EXCEPT ![w] = j]
      /\ j.step = "pay" => j.op = "refund"
  <2>1. job[w] \in Jobs /\ Idle \in Jobs /\ Idle.step = "idle" /\ payment \in PaymentRows
    BY JobType DEF IInv, TypeOK, Idle
  <2>2. CASE job[w].op = "refund"
    BY <2>1, <2>2 DEF Mark, Become, Jobs, Steps
  <2>3. CASE job[w].op # "refund"
    BY <2>1, <2>3 DEF Mark, Finish, Become
  <2> QED
    BY <2>2, <2>3
<1> HIDE DEF j
<1>3. \A v \in Workers : job'[v] = IF v = w THEN j ELSE job[v]
  BY <1>2 DEF IInv, TypeOK
<1>4. n \in Rows /\ receipt[n].status # "absent" /\ Gone(receipt[n].ddtd)
  BY <1>1 DEF IInv, JobsOK, JobOK, At
<1>5. /\ \A r \in Rows : r # n => receipt'[r] = receipt[r]
      /\ \A r \in Rows : receipt'[r].ddtd = receipt[r].ddtd /\ receipt'[r].temp = receipt[r].temp
      /\ receipt'[n].status = "returned"
  BY <1>1, <1>4 DEF IInv, TypeOK, ReceiptRows
<1>6. Live' = Live \ {n}
  BY <1>4, <1>5 DEF Live
<1>7. TypeOK'
  BY <1>1, <1>2 DEF IInv, TypeOK, ReceiptRows, Statuses
<1>8. RowsOK'
  BY <1>1, <1>4, <1>5, SMTT(60) DEF IInv, RowsOK, RowOK
<1>9. JobsOK'
  <2>1. ASSUME NEW v \in Workers, v # w PROVE JobOK(job[v])'
    <3> DEFINE h == job[v]
    <3>1. JobOK(h) /\ h' = h /\ filed' = filed
      BY <1>1, <1>3, <2>1 DEF IInv, JobsOK
    <3>2. \A r \in Rows : /\ receipt'[r].ddtd = receipt[r].ddtd
                          /\ receipt[r].status # "absent" => receipt'[r].status # "absent"
      BY <1>5
    <3>3. \A d : (Replaced(d) => Replaced(d)') /\ (Gone(d) => Gone(d)')
      BY <3>1 DEF Replaced, Gone
    <3> HIDE DEF h
    <3>4. JobOK(h)'
      BY <3>1, <3>2, <3>3 DEF JobOK, Carrying
    <3> QED
      BY <3>4 DEF h
  <2>2. JobOK(job[w])'
    BY <1>2, <1>3 DEF JobOK, Carrying
  <2> QED
    BY <1>2, <1>3, <2>1, <2>2 DEF IInv, JobsOK, Carrying, Holding
<1>10. Known'
  <2>1. SUFFICES ASSUME NEW e \in Filed \ stranded, filed[e].status = "valid", filed[e].by = "issue"
                 PROVE  \/ \E r \in Rows : receipt'[r].ddtd = e /\ receipt'[r].status = "issued"
                        \/ \E v \in Workers : job'[v].step \in {"store", "unmint"} /\ job'[v].ddtd = e
    BY <1>1 DEF Known
  <2>2. receipt[n].ddtd # e
    BY <1>4, <2>1, ReceiptsAssumption DEF Gone, Replaced, Filed
  <2> QED
    BY <1>1, <1>3, <1>5, <2>1, <2>2 DEF IInv, Known, At
<1>11. Marked'
  BY <1>1, <1>3, <1>5, <1>6 DEF IInv, Marked, Live, At
<1>12. OneLive'
  BY <1>6 DEF IInv, OneLive
<1> QED
  BY <1>7, <1>8, <1>9, <1>10, <1>11, <1>12 DEF IInv

\* A replay overwrites only a receipt that issuing did not leave.
LEMMA RestampKeeps ==
  ASSUME IInv, NEW w \in Workers, Restamp(w),
         ~(receipt[job[w].row].status = "returned" /\ IndexRefuses(job[w].row))
  PROVE  IInv'
<1> DEFINE n == job[w].row
           d == job[w].ddtd
<1>1. /\ At(w, "restamp")
      /\ receipt' = [receipt EXCEPT ![n].status = "issued", ![n].temp = FALSE, ![n].ddtd = d]
      /\ job' = [job EXCEPT ![w] = Idle]
      /\ UNCHANGED <<mix, temp, filed, payment, stranded>>
  BY DEF Restamp, Finish, Become
<1>2. \A v \in Workers : job'[v] = IF v = w THEN Idle ELSE job[v]
  BY <1>1 DEF IInv, TypeOK
<1>3. /\ n \in Rows /\ receipt[n].status # "absent" /\ Replaced(receipt[n].ddtd)
      /\ d # None /\ filed[d].status = "valid" /\ filed[d].by = "reissue"
      /\ \A r \in Rows : receipt[r].ddtd # d
  BY <1>1 DEF IInv, JobsOK, JobOK, Carrying, At
<1>4. d \in Filed /\ None \notin Filed /\ Idle \in Jobs /\ Idle.step = "idle"
  BY <1>3, JobType, ReceiptsAssumption DEF IInv, TypeOK, Jobs, Filed, Idle
<1>5. /\ \A r \in Rows : r # n => receipt'[r] = receipt[r]
      /\ receipt'[n].status = "issued" /\ receipt'[n].temp = FALSE /\ receipt'[n].ddtd = d
  BY <1>1, <1>3 DEF IInv, TypeOK, ReceiptRows
<1>6. Live \subseteq {n}
  <2>1. receipt[n].status \in Statuses
    BY <1>3 DEF IInv, TypeOK, ReceiptRows
  <2>2. CASE receipt[n].status = "returned"
    BY <2>2 DEF IndexRefuses
  <2>3. CASE receipt[n].status # "returned"
    BY <1>3, <2>1, <2>3 DEF IInv, OneLive, Live, Statuses
  <2> QED
    BY <2>2, <2>3
<1>7. TypeOK'
  BY <1>1, <1>3, <1>4 DEF IInv, TypeOK, ReceiptRows, Statuses
<1>8. RowsOK'
  <2>1. \A r \in Rows : RowOK(r)'
    BY <1>1, <1>3, <1>5, ZenonT(60) DEF IInv, RowsOK, RowOK
  <2>2. ASSUME NEW r \in Rows, NEW q \in Rows, r # q, receipt'[r].ddtd # None
        PROVE  receipt'[r].ddtd # receipt'[q].ddtd
    BY <1>3, <1>5, <2>2 DEF IInv, RowsOK
  <2> QED
    BY <2>1, <2>2 DEF RowsOK
<1>9. JobsOK'
  <2>1. ASSUME NEW v \in Workers, v # w PROVE JobOK(job[v])'
    <3>1. JobOK(job[v]) /\ job'[v] = job[v]
      BY <1>2, <2>1 DEF IInv, JobsOK
    <3>2. Holding(job[v]) => job[v].ddtd # d
      BY <1>1, <1>3, <2>1 DEF IInv, JobsOK, Carrying, At
    <3>3. Replaced(receipt'[n].ddtd)
      BY <1>3, <1>5 DEF Replaced
    <3> QED
      BY <1>1, <1>5, <3>1, <3>2, <3>3, ZenonT(60) DEF JobOK, Carrying, Holding, Replaced, Gone
  <2>2. JobOK(job[w])'
    BY <1>2, <1>4 DEF JobOK, Carrying
  <2> QED
    BY <1>2, <1>4, <2>1, <2>2 DEF IInv, JobsOK, Carrying, Holding
<1>10. Known'
  <2>1. SUFFICES ASSUME NEW e \in Filed \ stranded, filed[e].status = "valid", filed[e].by = "issue"
                 PROVE  \/ \E r \in Rows : receipt'[r].ddtd = e /\ receipt'[r].status = "issued"
                        \/ \E v \in Workers : job'[v].step \in {"store", "unmint"} /\ job'[v].ddtd = e
    BY <1>1 DEF Known
  <2>2. receipt[n].ddtd # e
    BY <1>3, <1>4, <2>1 DEF Replaced
  <2>3. CASE \E r \in Rows : receipt[r].ddtd = e /\ receipt[r].status = "issued"
    BY <1>5, <2>2, <2>3
  <2>4. CASE \E v \in Workers : job[v].step \in {"store", "unmint"} /\ job[v].ddtd = e
    BY <1>1, <1>2, <2>4 DEF At
  <2> QED
    BY <2>1, <2>3, <2>4 DEF IInv, Known
<1>11. Marked'
  <2>1. \A r \in Live' : r = n
    BY <1>5, <1>6 DEF Live
  <2>2. filed'[receipt'[n].ddtd].status # "void"
    BY <1>1, <1>3, <1>5
  <2> QED
    BY <2>1, <2>2 DEF Marked
<1>12. OneLive'
  BY <1>5, <1>6 DEF OneLive, Live
<1> QED
  BY <1>7, <1>8, <1>9, <1>10, <1>11, <1>12 DEF IInv

-----------------------------------------------------------------------------
(* Steps that only move a request on.                                      *)

\* What a request that is to void live row r has loaded.
LEMMA VoidStepOK ==
  ASSUME IInv, NEW r \in Live
  PROVE  /\ r \in Rows /\ receipt[r].status # "absent"
         /\ VoidStep(r) \in {"mark", "void"}
         /\ VoidStep(r) = "mark" => Gone(receipt[r].ddtd)
         /\ VoidStep(r) = "void" =>
              /\ receipt[r].ddtd # None /\ filed[receipt[r].ddtd].status # "none"
              /\ \A q \in Rows \ {r} : receipt[q].ddtd # receipt[r].ddtd
  BY DEF IInv, RowsOK, RowOK, Live, VoidStep, Gone, Replaced

LEMMA ArrivalKeeps ==
  ASSUME IInv, NEW w \in Workers, Arrival(w)
  PROVE  IInv'
<1>1. Idle \in Jobs /\ None \notin Rows /\ None \notin Filed
  BY JobType, ReceiptsAssumption DEF IInv, Rows, Filed
<1>2. temp \in BOOLEAN /\ payment \in PaymentRows /\ stranded \subseteq Filed
  BY DEF IInv, TypeOK
<1>3. CASE BeginIssue(w)
  <2> DEFINE j == [[Idle EXCEPT !.step = IssueStep, !.kept = Amount] EXCEPT !.op = "issue"]
  <2>1. At(w, "idle") /\ Become(w, j) /\ UNCHANGED <<mix, temp, receipt, filed, payment, stranded>>
    BY <1>3 DEF BeginIssue, Start
  <2>2. /\ j \in Jobs /\ j.step \in {"store", "mint"} /\ j.ddtd = None /\ j.op = "issue"
    <3>1. Amount \in 0..Amount /\ IssueStep \in {"store", "mint"}
      BY ReceiptsAssumption DEF IssueStep
    <3>2. IssueStep \in Steps /\ "issue" \in AllOps
      BY <3>1 DEF Steps, AllOps
    <3> HIDE DEF IssueStep
    <3> QED
      BY <1>1, <3>1, <3>2 DEF Idle, Jobs
  <2> HIDE DEF j
  <2>3. JobOK(j) /\ ~Carrying(j)
    BY <2>2 DEF JobOK, Carrying
  <2> QED
    BY <1>2, <2>1, <2>2, <2>3, JobMoves DEF At
<1>4. ASSUME NEW r \in Rows, BeginReissue(w, r) PROVE IInv'
  <2> DEFINE j == [[Idle EXCEPT !.step = "mint", !.row = r, !.kept = receipt[r].total]
                     EXCEPT !.op = "reissue"]
  <2>1. At(w, "idle") /\ Become(w, j) /\ UNCHANGED <<mix, temp, receipt, filed, payment, stranded>>
    BY <1>4 DEF BeginReissue, Start
  <2>2. receipt[r].status # "absent" /\ receipt[r].temp /\ receipt[r].total \in 0..Amount
    BY <1>4 DEF BeginReissue, IInv, TypeOK, ReceiptRows
  <2>3. j \in Jobs /\ j.step = "mint" /\ j.row = r /\ j.ddtd = None
    BY <1>1, <2>2 DEF Idle, Jobs, Steps, AllOps
  <2> HIDE DEF j
  <2>4. Replaced(receipt[r].ddtd)
    BY <2>2 DEF IInv, RowsOK, RowOK, Replaced
  <2>5. JobOK(j) /\ ~Carrying(j)
    BY <2>2, <2>3, <2>4 DEF JobOK, Carrying
  <2> QED
    BY <1>2, <2>1, <2>3, <2>5, JobMoves DEF At
<1>5. ASSUME NEW r \in Rows, BeginReturn(w, r) PROVE IInv'
  <2> DEFINE j == [[Idle EXCEPT !.step = VoidStep(r), !.row = r, !.ddtd = receipt[r].ddtd]
                     EXCEPT !.op = "return"]
  <2>1. At(w, "idle") /\ Become(w, j) /\ UNCHANGED <<mix, temp, receipt, filed, payment, stranded>>
    BY <1>5 DEF BeginReturn, Start
  <2>2. receipt[r].ddtd \in Filed \cup {None} /\ receipt[r].temp \in BOOLEAN
    BY DEF IInv, TypeOK, ReceiptRows
  <2>3. /\ j \in Jobs /\ j.step = VoidStep(r) /\ j.row = r /\ j.ddtd = receipt[r].ddtd
        /\ j.op = "return"
    BY <1>1, <2>2 DEF Idle, Jobs, Steps, AllOps, VoidStep
  <2> HIDE DEF j
  <2>4. JobOK(j) /\ ~Carrying(j)
    BY <1>5, <2>2, <2>3, VoidStepOK DEF BeginReturn, JobOK, Carrying
  <2> QED
    BY <1>2, <2>1, <2>3, <2>4, JobMoves DEF At
<1>6. ASSUME NEW r \in Rows \cup {None}, NEW total \in 1..(Amount + 1), NEW keep \in BOOLEAN,
             BeginRefund(w, r, total, keep)
      PROVE  IInv'
  <2> DEFINE kept == Kept(total)
             standing == r = None \/ keep \/ receipt[r].status = "returned" \/ Corrected(r, kept)
             back == IF payment.status = "refunded" THEN payment.refunded ELSE total
             j == [[Idle EXCEPT !.step = IF standing THEN "pay" ELSE VoidStep(r), !.row = r,
                                !.ddtd = IF standing THEN None ELSE receipt[r].ddtd,
                                !.total = back, !.kept = kept, !.keep = keep, !.seen = payment]
                     EXCEPT !.op = "refund"]
  <2>1. At(w, "idle") /\ Become(w, j) /\ UNCHANGED <<mix, temp, receipt, filed, payment, stranded>>
    BY <1>6 DEF BeginRefund, Start
  <2>2. back \in 0..Amount /\ kept \in 0..Amount
    BY <1>2, <1>6, ReceiptsAssumption DEF BeginRefund, Allowed, Kept, PaymentRows
  <2>3. r \in Rows => receipt[r].ddtd \in Filed \cup {None} /\ receipt[r].temp \in BOOLEAN
                     /\ receipt[r].status \in Statuses
    BY DEF IInv, TypeOK, ReceiptRows
  <2> HIDE DEF kept, back
  <2>4. CASE standing
    <3>1. j \in Jobs /\ j.step = "pay" /\ j.ddtd = None /\ j.op = "refund"
      BY <1>1, <1>2, <2>2, <2>4 DEF Idle, Jobs, Steps, AllOps
    <3> HIDE DEF j
    <3>2. JobOK(j) /\ ~Carrying(j)
      BY <3>1 DEF JobOK, Carrying
    <3> QED
      BY <1>2, <2>1, <3>1, <3>2, JobMoves DEF At
  <2>5. CASE ~standing
    <3>1. r \in Rows /\ receipt[r].status # "returned"
      BY <2>5
    <3>2. receipt[r].status # "absent"
      BY <1>1, <1>6, <3>1 DEF BeginRefund, Named, Standing, Existing, Live
    <3>3. r \in Live
      BY <2>3, <3>1, <3>2 DEF Live, Statuses
    <3>4. /\ j \in Jobs /\ j.step = VoidStep(r) /\ j.row = r /\ j.ddtd = receipt[r].ddtd
          /\ j.op = "refund"
      BY <1>1, <1>2, <2>2, <2>3, <2>5, <3>1 DEF Idle, Jobs, Steps, AllOps, VoidStep
    <3> HIDE DEF j, standing
    <3>5. JobOK(j) /\ ~Carrying(j)
      BY <3>1, <3>3, <3>4, VoidStepOK DEF JobOK, Carrying
    <3> QED
      BY <1>2, <2>1, <3>4, <3>5, JobMoves DEF At
  <2> QED
    BY <2>4, <2>5
<1> QED
  BY <1>3, <1>4, <1>5, <1>6, ReceiptsAssumption DEF Arrival

LEMMA ProgressKeeps ==
  ASSUME IInv, NEW w \in Workers, Progress(w)
  PROVE  IInv'
<1>1. /\ Idle \in Jobs /\ Idle.step = "idle" /\ JobOK(Idle) /\ ~Carrying(Idle)
      /\ job[w] \in Jobs /\ \A step \in Steps : [job[w] EXCEPT !.step = step] \in Jobs
  BY JobType, IdleOK DEF IInv, Idle, Carrying
<1>2. temp \in BOOLEAN /\ payment \in PaymentRows /\ stranded \subseteq Filed
  BY DEF IInv, TypeOK
<1>3. JobOK(job[w])
  BY DEF IInv, JobsOK
<1>4. CASE Mint(w)
  BY <1>4, MintKeeps
<1>5. CASE Store(w) /\ ~IndexRefuses(None)
  BY <1>5, InsertKeeps DEF Store, LowestOf
<1>6. CASE Store(w) /\ IndexRefuses(None) /\ job[w].ddtd = None
  <2>1. At(w, "store") /\ Become(w, Idle) /\ UNCHANGED <<mix, temp, receipt, filed, payment, stranded>>
    BY <1>6 DEF Store, Finish
  <2> QED
    BY <1>1, <1>2, <1>6, <2>1, JobMoves DEF At
<1>7. CASE Store(w) /\ IndexRefuses(None) /\ job[w].ddtd # None
  <2> DEFINE j == [job[w] EXCEPT !.step = "unmint"]
  <2>1. At(w, "store") /\ Become(w, j) /\ UNCHANGED <<mix, temp, receipt, filed, payment, stranded>>
    BY <1>7 DEF Store, Go
  <2>2. j \in Jobs /\ j.step = "unmint" /\ j.ddtd = job[w].ddtd /\ j.op = job[w].op
    BY <1>1 DEF Jobs, Steps
  <2> HIDE DEF j
  <2>3. JobOK(j) /\ Carrying(job[w])
    BY <1>3, <1>7, <2>1, <2>2 DEF JobOK, Carrying, At
  <2> QED
    BY <1>2, <2>1, <2>2, <2>3, JobMoves DEF At
<1>8. CASE Unmint(w)
  <2>1. job[w].ddtd \in Filed /\ Holding(job[w])
    BY <1>1, <1>3, <1>8 DEF Unmint, At, JobOK, Jobs, Holding, Carrying
  <2> QED
    BY <1>1, <1>8, <2>1, VoidingKeeps DEF Unmint, Finish
<1>9. CASE Restamp(w) /\ receipt[job[w].row].status = "returned" /\ IndexRefuses(job[w].row)
  <2>1. At(w, "restamp") /\ Become(w, Idle) /\ UNCHANGED <<mix, temp, receipt, filed, payment, stranded>>
    BY <1>9 DEF Restamp, Finish
  <2> QED
    BY <1>1, <1>2, <2>1, JobMoves DEF At
<1>10. CASE Restamp(w) /\ ~(receipt[job[w].row].status = "returned" /\ IndexRefuses(job[w].row))
  BY <1>10, RestampKeeps
<1>11. CASE Void(w) /\ filed[job[w].ddtd].status = "valid"
  <2> DEFINE j == [job[w] EXCEPT !.step = "mark"]
  <2>1. At(w, "void") /\ Become(w, j) /\ UNCHANGED <<mix, temp, receipt, payment, stranded>>
        /\ filed' = [filed EXCEPT ![job[w].ddtd].status = "void"]
    BY <1>11 DEF Void, Go
  <2>2. j \in Jobs /\ job[w].ddtd \in Filed /\ Holding(job[w])
    BY <1>1, <1>3, <2>1 DEF At, JobOK, Jobs, Holding, Steps
  <2> QED
    BY <2>1, <2>2, VoidingKeeps
<1>12. CASE Void(w) /\ filed[job[w].ddtd].status # "valid"
  <2>1. At(w, "void") /\ Become(w, Idle) /\ UNCHANGED <<mix, temp, receipt, filed, payment, stranded>>
    BY <1>12 DEF Void, Finish
  <2> QED
    BY <1>1, <1>2, <2>1, JobMoves DEF At
<1>13. CASE Mark(w)
  BY <1>13, MarkKeeps
<1>14. CASE Pay(w)
  <2>1. At(w, "pay") /\ UNCHANGED <<mix, temp, receipt, filed, stranded>>
    BY <1>14 DEF Pay
  <2>2. payment' \in PaymentRows
    <3>1. /\ job[w].total \in 0..Amount /\ payment.status \in {"paid", "partially_refunded", "refunded"}
          /\ payment.refunded \in 0..Amount
      BY <1>1, <1>2 DEF Jobs, PaymentRows
    <3>2. Refunded(job[w]) \in PaymentRows
      BY <3>1 DEF Refunded, PaymentRows
    <3> QED
      BY <1>2, <1>14, <3>2 DEF Pay
  <2> DEFINE paid == [job[w] EXCEPT !.ddtd = None, !.total = 0, !.seen = Unrefunded]
  <2>3. \/ Become(w, Idle)
        \/ Become(w, [paid EXCEPT !.step = "replace"])
        \/ Become(w, [paid EXCEPT !.step = "end"])
    BY <1>14 DEF Pay, Finish
  <2>4. ASSUME NEW step \in {"replace", "end"}
        PROVE  /\ [paid EXCEPT !.step = step] \in Jobs
               /\ [paid EXCEPT !.step = step].step = step
               /\ [paid EXCEPT !.step = step].ddtd = None
               /\ [paid EXCEPT !.step = step].op = "refund"
    <3>1. Unrefunded \in PaymentRows /\ 0 \in 0..Amount /\ step \in Steps
      BY <2>4, ReceiptsAssumption DEF Steps, Unrefunded, PaymentRows
    <3>2. job[w].op = "refund"
      BY <1>3, <2>1 DEF JobOK, At
    <3> HIDE DEF Unrefunded
    <3> QED
      BY <1>1, <3>1, <3>2 DEF Jobs
  <2>5. ASSUME NEW j \in Jobs, j.step \in {"idle", "replace", "end"}, j.ddtd = None,
               j.step # "idle" => j.op = "refund"
        PROVE  JobOK(j) /\ ~Carrying(j)
    BY <2>5 DEF JobOK, Carrying
  <2>6. ASSUME NEW j \in Jobs, j.step \in {"idle", "replace", "end"}, j.ddtd = None,
               j.step # "idle" => j.op = "refund", Become(w, j)
        PROVE  IInv'
    BY <1>2, <2>1, <2>2, <2>5, <2>6, JobMoves DEF At
  <2>7. Idle.ddtd = None
    BY DEF Idle
  <2> HIDE DEF paid
  <2> QED
    BY <1>1, <2>3, <2>4, <2>6, <2>7
<1>15. CASE Replace(w)
  <2>1. At(w, "replace") /\ UNCHANGED <<mix, temp, receipt, filed, payment, stranded>>
    BY <1>15 DEF Replace
  <2>2. PICK step \in {"end", "store", "mint"} : Become(w, [job[w] EXCEPT !.step = step])
    BY <1>15 DEF Replace, Go, IssueStep
  <2> DEFINE j == [job[w] EXCEPT !.step = step]
  <2>3. j \in Jobs /\ j.step = step /\ j.ddtd = job[w].ddtd /\ j.op = job[w].op /\ j.row = job[w].row
    BY <1>1 DEF Jobs, Steps
  <2> HIDE DEF j
  <2>4. job[w].ddtd = None
    BY <1>3, <2>1 DEF JobOK, At
  <2>5. job[w].op = "refund"
    BY <1>3, <2>1 DEF JobOK, At
  <2>6. JobOK(j) /\ ~Carrying(j)
    BY <2>3, <2>4, <2>5 DEF JobOK, Carrying
  <2> QED
    BY <1>2, <2>1, <2>2, <2>3, <2>6, JobMoves DEF At, j
<1>16. CASE Answer(w)
  <2>1. At(w, "end") /\ Become(w, Idle) /\ UNCHANGED <<mix, temp, receipt, filed, payment, stranded>>
    BY <1>16 DEF Answer, Finish
  <2> QED
    BY <1>1, <1>2, <2>1, JobMoves DEF At
<1> QED
  BY <1>4, <1>5, <1>6, <1>7, <1>8, <1>9, <1>10, <1>11, <1>12, <1>13, <1>14, <1>15, <1>16 DEF Progress

\* A request that breaks off leaves what it had in hand to the history variable.
LEMMA BreakKeeps ==
  ASSUME IInv, NEW w \in Workers, Fail(w) \/ Crash(w)
  PROVE  IInv'
<1>1. /\ Idle \in Jobs /\ Idle.step = "idle" /\ JobOK(Idle) /\ ~Carrying(Idle)
      /\ job[w] \in Jobs /\ \A step \in Steps : [job[w] EXCEPT !.step = step] \in Jobs
  BY JobType, IdleOK DEF IInv, Idle, Carrying
<1>2. /\ temp \in BOOLEAN /\ payment \in PaymentRows /\ stranded \subseteq Filed
      /\ UNCHANGED <<mix, temp, receipt, filed, payment>>
  BY DEF IInv, TypeOK, Fail, Crash
<1>3. JobOK(job[w]) /\ job[w].ddtd \in Filed \cup {None}
  BY <1>1 DEF IInv, JobsOK, Jobs
<1>4. CASE /\ Become(w, Idle) /\ stranded' = stranded \cup LeftBehind(w)
  <2>1. /\ stranded' \subseteq Filed /\ stranded \subseteq stranded'
        /\ job[w].step \in {"store", "unmint", "mark"} => job[w].ddtd \in stranded' \cup {None}
    BY <1>2, <1>3, <1>4 DEF LeftBehind
  <2> QED
    BY <1>1, <1>2, <1>4, <2>1, JobMoves
<1>5. CASE /\ At(w, "store") /\ job[w].ddtd # None
           /\ Become(w, [job[w] EXCEPT !.step = "unmint"]) /\ UNCHANGED stranded
  <2> DEFINE j == [job[w] EXCEPT !.step = "unmint"]
  <2>1. j \in Jobs /\ j.step = "unmint" /\ j.ddtd = job[w].ddtd /\ j.op = job[w].op
    BY <1>1 DEF Jobs, Steps
  <2> HIDE DEF j
  <2>2. JobOK(j) /\ Carrying(job[w])
    BY <1>3, <1>5, <2>1 DEF JobOK, Carrying, At
  <2> QED
    BY <1>2, <1>5, <2>1, <2>2, JobMoves DEF At, j
<1> QED
  BY <1>4, <1>5 DEF Fail, Crash, Finish, Go

LEMMA GoLiveKeeps ==
  ASSUME IInv, GoLive \/ UNCHANGED vars
  PROVE  IInv'
<1>1. temp' \in BOOLEAN /\ UNCHANGED <<mix, receipt, filed, payment, job, stranded>>
  BY DEF IInv, TypeOK, GoLive, vars
<1>2. TypeOK' /\ RowsOK'
  BY <1>1 DEF IInv, TypeOK, RowsOK, RowOK
<1>3. JobsOK'
  BY <1>1, SMTT(60) DEF IInv, JobsOK, JobOK, Carrying, Holding, Replaced, Gone
<1>4. Known' /\ Marked' /\ OneLive'
  BY <1>1 DEF IInv, Known, Marked, OneLive, Live, At
<1> QED
  BY <1>2, <1>3, <1>4 DEF IInv

-----------------------------------------------------------------------------

\* The invariant holds from the first state on.
THEOREM ReceiptInvariance == Spec => []IInv
<1>1. Init => IInv
  <2> SUFFICES ASSUME Init PROVE IInv
    OBVIOUS
  <2>1. Idle \in Jobs /\ JobOK(Idle) /\ ~Carrying(Idle) /\ Idle.step = "idle"
    <3>1. 0 \in 0..Amount
      BY ReceiptsAssumption
    <3> QED
      BY <3>1, IdleOK DEF Idle, Jobs, Steps, AllOps, PaymentRows, Unrefunded, Carrying
  <2>2. TypeOK
    BY <2>1, ReceiptsAssumption DEF Init, TypeOK, ReceiptRows, Statuses, FiledRows, PaymentRows, Unrefunded
  <2>3. RowsOK
    BY DEF Init, RowsOK, RowOK
  <2>4. JobsOK
    BY <2>1 DEF Init, JobsOK
  <2>5. Known /\ Marked /\ OneLive
    BY DEF Init, Known, Marked, OneLive, Live
  <2> QED
    BY <2>2, <2>3, <2>4, <2>5 DEF IInv
<1>2. IInv /\ [Next]_vars => IInv'
  BY ArrivalKeeps, ProgressKeeps, BreakKeeps, GoLiveKeeps DEF Next
<1> QED
  BY <1>1, <1>2, PTL DEF Spec

\* Type correctness.
THEOREM ReceiptTypeCorrect == Spec => []TypeOK
<1>1. IInv => TypeOK
  BY DEF IInv
<1> QED
  BY <1>1, ReceiptInvariance, PTL

\* A valid receipt that issuing left with the tax authority is live in the table
\* (issuance.py:75-79).
THEOREM ValidReceiptIsKnownAlways == Spec => []ValidReceiptIsKnown
<1>1. IInv => ValidReceiptIsKnown
  BY DEF IInv, Known, ValidReceiptIsKnown, Carried
<1> QED
  BY <1>1, ReceiptInvariance, PTL

\* Nothing but a request that broke off between the two leaves a receipt void at the
\* tax authority and live in the table (refunds.py:14-19).
THEOREM RefundCanBeRetriedAlways == Spec => []RefundCanBeRetried
<1>1. IInv => RefundCanBeRetried
  BY DEF IInv, Marked, RefundCanBeRetried
<1> QED
  BY <1>1, ReceiptInvariance, PTL

\* The tax authority holds at most one valid receipt that issuing left with it: every
\* one of them is live in the table, and the index lets only one row live.
THEOREM OneValidReceiptAlways == Spec => []OneValidReceipt
<1>1. IInv => OneValidReceipt
  <2> SUFFICES ASSUME IInv PROVE OneValidReceipt
    OBVIOUS
  <2> DEFINE S == {d \in Filed : filed[d].status = "valid" /\ filed[d].by = "issue"}
                  \ (Carried \cup stranded)
  <2>1. \A d \in S : \E r \in Live : receipt[r].ddtd = d
    BY DEF IInv, Known, Carried, Live
  <2>2. \A d, e \in S : d = e
    BY <2>1 DEF IInv, OneLive
  <2>3. CASE S = {}
    BY <2>3, FS_EmptySet DEF OneValidReceipt
  <2>4. CASE S # {}
    <3>1. PICK d \in S : TRUE
      BY <2>4
    <3>2. S = {d}
      BY <2>2, <3>1
    <3>3. Cardinality({d}) = 1
      BY FS_Singleton
    <3>4. Cardinality(S) <= 1
      <4> HIDE DEF S
      <4> QED
        BY <3>2, <3>3
    <3> QED
      BY <3>4 DEF OneValidReceipt
  <2> QED
    BY <2>3, <2>4
<1> QED
  BY <1>1, ReceiptInvariance, PTL
-----------------------------------------------------------------------------
(* One request at a time: a refund keeps what it found until it answers.   *)

OneBusy == Alone => \A v, w \in Workers : v = w \/ At(v, "idle") \/ At(w, "idle")

\* What a refund keeps is what its total leaves of the payment, and once the money
\* has gone back the receipt in the making is for that.
Figured(j) ==
  /\ j.op = "refund" /\ j.step \in {"void", "mark", "pay"} =>
       /\ j.total <= Amount
       /\ payment.status # "refunded" => j.kept = Amount - j.total
  /\ j.op = "refund" /\ j.step = "pay" => j.seen = payment
  /\ j.op = "refund" /\ j.step \in {"replace", "mint", "store"} => j.kept = Amount - payment.refunded
  /\ j.step = "end" /\ j.row # None /\ ~j.keep /\ payment.status = "partially_refunded" =>
       \E r \in Live : receipt[r].total = Amount - payment.refunded

Lone == OneBusy /\ (Alone => \A w \in Workers : Figured(job[w]))

\* A refund about to take a receipt back takes the only one; one about to pay has,
\* unless it was told not to or named one that was returned before.
TakesBack(j) ==
  /\ j.op = "refund" /\ j.step \in {"void", "mark"} => Live \subseteq {j.row}
  /\ j.op = "refund" /\ j.step = "pay" =>
       \/ j.keep \/ payment.status = "refunded" \/ j.row \notin Live
       \/ \A r \in Live : receipt[r].total = j.kept

AllTakeBack == Alone => \A w \in Workers : TakesBack(job[w])

\* Who makes a step has the system to itself.
LEMMA Turn ==
  ASSUME IInv, OneBusy, NEW w \in Workers, Arrival(w) \/ Progress(w) \/ Fail(w) \/ Crash(w)
  PROVE  /\ UNCHANGED mix
         /\ \E j : job' = [job EXCEPT ![w] = j]
         /\ \A v \in Workers \ {w} : job'[v] = job[v]
         /\ Alone => \A v \in Workers \ {w} : At(v, "idle")
         /\ OneBusy'
<1>1. UNCHANGED mix /\ \E j : job' = [job EXCEPT ![w] = j]
  <2>1. CASE Arrival(w)
    <3>1. ASSUME NEW op, NEW request, Start(w, op, request) PROVE \E j : job' = [job EXCEPT ![w] = j]
      BY <3>1 DEF Start, Become
    <3>2. CASE BeginIssue(w)
      BY <3>1, <3>2, Zenon DEF BeginIssue
    <3>3. ASSUME NEW r \in Rows, BeginReissue(w, r) \/ BeginReturn(w, r)
          PROVE  UNCHANGED mix /\ \E j : job' = [job EXCEPT ![w] = j]
      BY <3>1, <3>3, Zenon DEF BeginReissue, BeginReturn
    <3>4. ASSUME NEW r, NEW total, NEW keep, BeginRefund(w, r, total, keep)
          PROVE  UNCHANGED mix /\ \E j : job' = [job EXCEPT ![w] = j]
      BY <3>1, <3>4, Zenon DEF BeginRefund
    <3> QED
      BY <2>1, <3>2, <3>3, <3>4, Zenon DEF Arrival
  <2>2. CASE Mint(w) \/ Store(w) \/ Unmint(w) \/ Restamp(w)
    BY <2>2 DEF Mint, Store, AfterStore, Unmint, Restamp, Finish, Go, Become
  <2>3. CASE Void(w) \/ Mark(w) \/ Pay(w) \/ Replace(w) \/ Answer(w)
    BY <2>3 DEF Void, Mark, Pay, Replace, Answer, AfterStore, Finish, Go, Become
  <2>4. CASE Fail(w) \/ Crash(w)
    BY <2>4 DEF Fail, Crash, AfterStore, Finish, Go, Become
  <2> QED
    BY <2>1, <2>2, <2>3, <2>4 DEF Progress
<1>2. \A v \in Workers \ {w} : job'[v] = job[v]
  BY <1>1 DEF IInv, TypeOK
<1>3. Alone => \A v \in Workers \ {w} : At(v, "idle")
  <2>1. CASE At(w, "idle")
    <3>1. Arrival(w)
      BY <2>1 DEF Progress, Mint, Store, Unmint, Restamp, Void, Mark, Pay, Replace, Answer, Fail, Crash, At
    <3> QED
      BY <3>1 DEF Arrival, BeginIssue, BeginReissue, BeginReturn, BeginRefund, Start
  <2>2. CASE ~At(w, "idle")
    BY <2>2 DEF OneBusy
  <2> QED
    BY <2>1, <2>2
<1>4. OneBusy'
  BY <1>1, <1>2, <1>3 DEF OneBusy, Alone, At
<1> QED
  BY <1>1, <1>2, <1>3, <1>4

\* A step only has to keep what it says of its own request.
LEMMA OwnFigures ==
  ASSUME IInv, Lone, NEW w \in Workers, Arrival(w) \/ Progress(w) \/ Fail(w) \/ Crash(w),
         Alone => Figured(job[w])'
  PROVE  Lone'
<1>1. OneBusy /\ (Alone' <=> Alone)
  BY Turn DEF Lone, Alone
<1>2. ASSUME Alone, NEW v \in Workers, v # w PROVE Figured(job[v])'
  BY <1>1, <1>2, Turn DEF Figured, At
<1> QED
  BY <1>1, <1>2, Turn DEF Lone

LEMMA OwnReceipts ==
  ASSUME IInv, Lone, AllTakeBack, NEW w \in Workers, Arrival(w) \/ Progress(w) \/ Fail(w) \/ Crash(w),
         Alone => TakesBack(job[w])'
  PROVE  AllTakeBack'
<1>1. OneBusy /\ (Alone' <=> Alone)
  BY Turn DEF Lone, Alone
<1>2. ASSUME Alone, NEW v \in Workers, v # w PROVE TakesBack(job[v])'
  BY <1>1, <1>2, Turn DEF TakesBack, At
<1> QED
  BY <1>1, <1>2 DEF AllTakeBack

\* The request a step leaves behind.
LEMMA Moved ==
  ASSUME IInv, NEW w \in Workers
  PROVE  /\ \A j : Become(w, j) => job'[w] = j
         /\ \A step : Go(w, step) =>
              /\ job'[w].step = step /\ job'[w].op = job[w].op /\ job'[w].row = job[w].row
              /\ job'[w].kept = job[w].kept /\ job'[w].total = job[w].total
              /\ job'[w].keep = job[w].keep /\ job'[w].seen = job[w].seen /\ job'[w].ddtd = job[w].ddtd
         /\ Finish(w) => job'[w] = Idle
<1>1. job \in [Workers -> Jobs] /\ job[w] \in Jobs
  BY DEF IInv, TypeOK
<1>2. \A j : Become(w, j) => job'[w] = j
  BY <1>1 DEF Become
<1>3. ASSUME NEW step, Go(w, step)
      PROVE  /\ job'[w].step = step /\ job'[w].op = job[w].op /\ job'[w].row = job[w].row
             /\ job'[w].kept = job[w].kept /\ job'[w].total = job[w].total
             /\ job'[w].keep = job[w].keep /\ job'[w].seen = job[w].seen /\ job'[w].ddtd = job[w].ddtd
  BY <1>1, <1>3 DEF Go, Become, Jobs
<1> QED
  BY <1>2, <1>3 DEF Finish

\* A request that has ended, and one that is no refund, claims nothing.
LEMMA NothingClaimed ==
  ASSUME IInv, NEW w \in Workers,
         \/ job'[w] = Idle
         \/ job'[w].step \in {"idle", "unmint"}
         \/ job'[w].op # "refund" /\ job'[w].step # "end"
  PROVE  Figured(job[w])' /\ TakesBack(job[w])'
BY DEF Figured, TakesBack, Idle

LEMMA RefundArrives ==
  ASSUME IInv, NEW w \in Workers, NEW r \in Rows \cup {None}, NEW total \in 1..(Amount + 1),
         NEW keep \in BOOLEAN, BeginRefund(w, r, total, keep)
  PROVE  /\ Figured(job[w])'
         /\ Alone => TakesBack(job[w])'
<1> DEFINE kept == Kept(total)
           standing == r = None \/ keep \/ receipt[r].status = "returned" \/ Corrected(r, kept)
           asked == IF payment.status = "refunded" THEN payment.refunded ELSE total
<1>1. /\ job'[w].op = "refund" /\ job'[w].step = (IF standing THEN "pay" ELSE VoidStep(r))
      /\ job'[w].row = r /\ job'[w].total = asked /\ job'[w].kept = kept
      /\ job'[w].keep = keep /\ job'[w].seen = payment
  <2>1. PICK d : Become(w, [[Idle EXCEPT !.step = IF standing THEN "pay" ELSE VoidStep(r), !.row = r,
                    !.ddtd = d, !.total = asked, !.kept = kept, !.keep = keep, !.seen = payment]
                    EXCEPT !.op = "refund"])
    BY DEF BeginRefund, Start
  <2> HIDE DEF kept, standing, asked
  <2>2. job'[w] = [[Idle EXCEPT !.step = IF standing THEN "pay" ELSE VoidStep(r), !.row = r,
                    !.ddtd = d, !.total = asked, !.kept = kept, !.keep = keep, !.seen = payment]
                    EXCEPT !.op = "refund"]
    BY <2>1, Moved
  <2> QED
    BY <2>2 DEF Idle
<1>2. UNCHANGED <<mix, receipt, payment>> /\ Named(r) /\ Allowed(total) /\ payment \in PaymentRows
  BY DEF BeginRefund, IInv, TypeOK
<1>3. job'[w].step \in {"pay", "void", "mark"}
  BY <1>1 DEF VoidStep
<1>4. Figured(job[w])'
  <2>1. asked <= Amount /\ (payment.status # "refunded" => kept = Amount - asked)
    BY <1>2, ReceiptsAssumption DEF Allowed, PaymentRows, Kept
  <2> HIDE DEF kept, asked
  <2> QED
    BY <1>1, <1>2, <1>3, <2>1 DEF Figured
<1>5. ASSUME Alone PROVE TakesBack(job[w])'
  <2>1. r \in Existing \cup {None}
    BY <1>2 DEF Named, Standing, Existing, Live
  <2>2. r \in Live => Live \subseteq {r}
    BY DEF IInv, OneLive
  <2>3. Live' = Live
    BY <1>2 DEF Live
  <2>4. standing => keep \/ r \notin Live \/ \A q \in Live : receipt[q].total = kept
    BY <2>2, ReceiptsAssumption DEF Live, Corrected, Rows
  <2>7. ~standing => r \in Live
    BY <2>1 DEF Live, Existing, IInv, TypeOK, ReceiptRows, Statuses
  <2> HIDE DEF kept, asked, standing
  <2>5. job'[w].step \in {"void", "mark"} => Live' \subseteq {job'[w].row}
    BY <1>1, <2>2, <2>3, <2>7
  <2>6. job'[w].step = "pay" => standing
    BY <1>1 DEF VoidStep
  <2> QED
    BY <1>1, <1>2, <2>3, <2>4, <2>5, <2>6 DEF TakesBack
<1> QED
  BY <1>4, <1>5

\* The money step, when nothing has come between it and what the request loaded.
LEMMA PayFigures ==
  ASSUME IInv, NEW w \in Workers, Pay(w), Figured(job[w])
  PROVE  /\ Figured(job[w])' /\ TakesBack(job[w])'
         /\ payment' # payment =>
              payment.status # "refunded" /\ job[w].kept = Amount - payment'.refunded
<1> DEFINE paid == [job[w] EXCEPT !.ddtd = None, !.total = 0, !.seen = Unrefunded]
           next(step) == [paid EXCEPT !.step = step]
<1>1. job[w] \in Jobs /\ payment \in PaymentRows /\ job[w].op = "refund" /\ job[w].step = "pay"
  BY DEF IInv, TypeOK, Pay, At, JobsOK, JobOK
<1>2. /\ job[w].total <= Amount /\ job[w].seen = payment
      /\ payment.status # "refunded" => job[w].kept = Amount - job[w].total
  BY <1>1 DEF Figured
<1>3. UNCHANGED receipt /\ Live' = Live
  BY DEF Pay, Live
<1>4. CASE Finish(w) /\ UNCHANGED payment
  BY <1>4, Moved, NothingClaimed
<1>5. CASE ~(Finish(w) /\ UNCHANGED payment)
  <2>1. payment' = IF payment.status = "refunded" THEN payment ELSE Refunded(job[w])
    BY <1>2, <1>5 DEF Pay
  <2>2. payment.status # "refunded" =>
          /\ payment'.refunded = job[w].total
          /\ payment'.status = IF job[w].total >= Amount THEN "refunded" ELSE "partially_refunded"
    BY <1>2, <2>1 DEF Refunded
  <2>3. job[w].row # None /\ ~job[w].keep /\ job[w].kept > 0 /\ payment'.status = "partially_refunded"
          => Become(w, next("replace"))
    BY <1>2, <1>5 DEF Pay
  <2>4. ~(job[w].row # None /\ ~job[w].keep /\ job[w].kept > 0 /\ payment'.status = "partially_refunded")
          => Become(w, next("end"))
    BY <1>2, <1>5 DEF Pay
  <2>5. \A step : /\ next(step).step = step /\ next(step).op = "refund" /\ next(step).row = job[w].row
                  /\ next(step).keep = job[w].keep /\ next(step).kept = job[w].kept
    BY <1>1 DEF Jobs
  <2>6. payment'.status = "partially_refunded" => job[w].kept = Amount - payment'.refunded /\ job[w].kept > 0
    BY <1>1, <1>2, <2>1, <2>2, ReceiptsAssumption DEF Jobs
  <2>7. payment' # payment => payment.status # "refunded" /\ job[w].kept = Amount - payment'.refunded
    BY <1>2, <2>1, <2>2
  <2> HIDE DEF paid, next
  <2>8. CASE job[w].row # None /\ ~job[w].keep /\ payment'.status = "partially_refunded"
    <3>1. /\ job'[w].step = "replace" /\ job'[w].kept = Amount - payment'.refunded
      BY <2>3, <2>5, <2>6, <2>8, Moved
    <3> QED
      BY <2>7, <3>1 DEF Figured, TakesBack
  <2>9. CASE ~(job[w].row # None /\ ~job[w].keep /\ payment'.status = "partially_refunded")
    <3>1. job'[w].step = "end" /\ job'[w].row = job[w].row /\ job'[w].keep = job[w].keep
      BY <2>4, <2>5, <2>9, Moved
    <3> QED
      BY <2>7, <2>9, <3>1 DEF Figured, TakesBack
  <2> QED
    BY <2>8, <2>9
<1> QED
  BY <1>4, <1>5

\* The receipt that goes with what is kept.
LEMMA StoreFigures ==
  ASSUME IInv, NEW w \in Workers, Store(w), Figured(job[w])
  PROVE  Figured(job[w])' /\ TakesBack(job[w])'
<1>1. job[w] \in Jobs /\ receipt \in [Rows -> ReceiptRows] /\ job[w].step = "store" /\ UNCHANGED payment
  BY DEF IInv, TypeOK, Store, At
<1>2. CASE Finish(w) \/ Go(w, "unmint")
  BY <1>2, Moved, NothingClaimed
<1>3. CASE ~IndexRefuses(None)
  <2>1. PICK n \in Rows : receipt' = [receipt EXCEPT ![n] = NewRow(job[w])]
    BY <1>3 DEF Store
  <2>2. AfterStore(w)
    BY <1>3 DEF Store
  <2>3. CASE job[w].op = "refund"
    <3>1. receipt'[n].total = job[w].kept /\ receipt'[n].status \in {"temp", "issued"}
      BY <1>1, <2>1 DEF NewRow
    <3>2. n \in Live'
      BY <3>1 DEF Live
    <3>3. job'[w].step = "end" /\ job[w].kept = Amount - payment.refunded
      BY <1>1, <2>2, <2>3, Moved DEF AfterStore, Figured
    <3> QED
      BY <1>1, <3>1, <3>2, <3>3 DEF Figured, TakesBack
  <2>4. CASE job[w].op # "refund"
    BY <2>2, <2>4, Moved, NothingClaimed DEF AfterStore
  <2> QED
    BY <2>3, <2>4
<1> QED
  BY <1>2, <1>3 DEF Store

\* The receipt taken back.
LEMMA MarkFigures ==
  ASSUME IInv, NEW w \in Workers, Mark(w), Figured(job[w])
  PROVE  Figured(job[w])' /\ (TakesBack(job[w]) => TakesBack(job[w])')
<1>1. /\ job[w] \in Jobs /\ receipt \in [Rows -> ReceiptRows] /\ job[w].step = "mark" /\ UNCHANGED payment
      /\ receipt' = [receipt EXCEPT ![job[w].row].status = "returned"]
  BY DEF IInv, TypeOK, Mark, At
<1>2. CASE job[w].op = "refund"
  <2>1. Become(w, [job[w] EXCEPT !.step = "pay", !.seen = payment])
    BY <1>2 DEF Mark
  <2>2. /\ job'[w].step = "pay" /\ job'[w].seen = payment /\ job'[w].op = "refund"
        /\ job'[w].total = job[w].total /\ job'[w].kept = job[w].kept
    <3> DEFINE j == [job[w] EXCEPT !.step = "pay", !.seen = payment]
    <3>1. /\ j.step = "pay" /\ j.seen = payment /\ j.op = "refund"
          /\ j.total = job[w].total /\ j.kept = job[w].kept
      BY <1>1, <1>2 DEF Jobs
    <3> HIDE DEF j
    <3> QED
      BY <2>1, <3>1, Moved DEF j
  <2>3. Figured(job[w])'
    BY <1>1, <1>2, <2>2 DEF Figured
  <2>4. ASSUME TakesBack(job[w]) PROVE Live' = {}
    <3>1. Live \subseteq {job[w].row}
      BY <1>1, <1>2, <2>4 DEF TakesBack
    <3>2. \A r \in Rows : receipt'[r].status =
            IF r = job[w].row THEN "returned" ELSE receipt[r].status
      BY <1>1 DEF ReceiptRows
    <3> QED
      BY <3>1, <3>2 DEF Live
  <2> QED
    BY <2>2, <2>3, <2>4 DEF TakesBack
<1>3. CASE job[w].op # "refund"
  BY <1>3, Moved, NothingClaimed DEF Mark
<1> QED
  BY <1>2, <1>3

\* Each other step of a request.
LEMMA ProgressFigures ==
  ASSUME IInv, NEW w \in Workers, Progress(w) \/ Fail(w) \/ Crash(w), Figured(job[w])
  PROVE  Figured(job[w])' /\ (TakesBack(job[w]) => TakesBack(job[w])')
<1>0. job[w] \in Jobs
  BY DEF IInv, TypeOK
<1>1. CASE Unmint(w) \/ Restamp(w) \/ Answer(w) \/ Crash(w) \/ Fail(w)
  <2>1. Finish(w) \/ Go(w, "unmint")
    BY <1>1 DEF Unmint, Restamp, Answer, Crash, Fail
  <2> QED
    BY <2>1, Moved, NothingClaimed
<1>2. CASE Mint(w)
  <2>1. PICK d : Become(w, [job[w] EXCEPT !.ddtd = d,
                              !.step = IF job[w].op = "reissue" THEN "restamp" ELSE "store"])
    BY <1>2 DEF Mint
  <2>2. /\ job'[w].op = job[w].op /\ job'[w].kept = job[w].kept
        /\ job'[w].step = (IF job[w].op = "reissue" THEN "restamp" ELSE "store")
    <3> DEFINE j == [job[w] EXCEPT !.ddtd = d, !.step = IF job[w].op = "reissue" THEN "restamp" ELSE "store"]
    <3>1. /\ j.op = job[w].op /\ j.kept = job[w].kept
          /\ j.step = (IF job[w].op = "reissue" THEN "restamp" ELSE "store")
      BY <1>0 DEF Jobs
    <3> HIDE DEF j
    <3> QED
      BY <2>1, <3>1, Moved DEF j
  <2>3. UNCHANGED payment /\ job[w].step = "mint"
    BY <1>2 DEF Mint, At
  <2> QED
    BY <2>2, <2>3 DEF Figured, TakesBack
<1>3. CASE Void(w)
  <2>1. job[w].step = "void" /\ UNCHANGED <<receipt, payment>> /\ Live' = Live
    BY <1>3 DEF Void, At, Live
  <2>2. CASE Finish(w)
    BY <2>2, Moved, NothingClaimed
  <2>3. CASE Go(w, "mark")
    <3>1. /\ job'[w].step = "mark" /\ job'[w].op = job[w].op /\ job'[w].row = job[w].row
          /\ job'[w].kept = job[w].kept /\ job'[w].total = job[w].total
      BY <2>3, Moved
    <3> QED
      BY <2>1, <3>1 DEF Figured, TakesBack
  <2> QED
    BY <1>3, <2>2, <2>3 DEF Void
<1>4. CASE Replace(w)
  <2>1. /\ job[w].step = "replace" /\ UNCHANGED <<receipt, payment>> /\ Live' = Live
        /\ job[w].op = "refund"
    BY <1>4 DEF Replace, At, Live, IInv, JobsOK, JobOK
  <2>2. job[w].kept = Amount - payment.refunded
    BY <2>1 DEF Figured
  <2>3. CASE Go(w, "end") /\ \E r \in Live : receipt[r].total = job[w].kept
    BY <2>1, <2>2, <2>3, Moved DEF Figured, TakesBack
  <2>4. CASE Go(w, IssueStep)
    <3>1. job'[w].step \in {"store", "mint"} /\ job'[w].op = "refund" /\ job'[w].kept = job[w].kept
      BY <2>1, <2>4, Moved DEF IssueStep
    <3> QED
      BY <2>1, <2>2, <3>1 DEF Figured, TakesBack
  <2> QED
    BY <1>4, <2>3, <2>4 DEF Replace
<1> QED
  BY <1>1, <1>2, <1>3, <1>4, StoreFigures, MarkFigures, PayFigures DEF Progress

LEMMA ArrivalFigures ==
  ASSUME IInv, NEW w \in Workers, Arrival(w)
  PROVE  Figured(job[w])' /\ (Alone => TakesBack(job[w])')
<1>1. CASE BeginIssue(w) \/ \E r \in Rows : BeginReissue(w, r) \/ BeginReturn(w, r)
  <2>1. ASSUME BeginIssue(w) PROVE job'[w].op = "issue" /\ job'[w].step \in {"mint", "store"}
    <3>1. job'[w] = [[Idle EXCEPT !.step = IssueStep, !.kept = Amount] EXCEPT !.op = "issue"]
      BY <2>1, Moved DEF BeginIssue, Start
    <3> QED
      BY <3>1 DEF Idle, IssueStep
  <2>2. ASSUME NEW r \in Rows, BeginReissue(w, r) PROVE job'[w].op = "reissue" /\ job'[w].step = "mint"
    <3>1. job'[w] = [[Idle EXCEPT !.step = "mint", !.row = r, !.kept = receipt[r].total] EXCEPT !.op = "reissue"]
      BY <2>2, Moved DEF BeginReissue, Start
    <3> QED
      BY <3>1 DEF Idle
  <2>3. ASSUME NEW r \in Rows, BeginReturn(w, r)
        PROVE  job'[w].op = "return" /\ job'[w].step \in {"void", "mark"}
    <3>1. job'[w] = [[Idle EXCEPT !.step = VoidStep(r), !.row = r, !.ddtd = receipt[r].ddtd] EXCEPT !.op = "return"]
      BY <2>3, Moved DEF BeginReturn, Start
    <3> QED
      BY <3>1 DEF Idle, VoidStep
  <2> QED
    BY <1>1, <2>1, <2>2, <2>3, NothingClaimed
<1>2. ASSUME NEW r \in Rows \cup {None}, NEW total \in 1..(Amount + 1), NEW keep \in BOOLEAN,
             BeginRefund(w, r, total, keep)
      PROVE  Figured(job[w])' /\ (Alone => TakesBack(job[w])')
  BY <1>2, RefundArrives
<1>3. (IF Alone THEN 1..(Amount + 1) ELSE Totals) \subseteq 1..(Amount + 1)
  BY ReceiptsAssumption
<1> QED
  BY <1>1, <1>2, <1>3 DEF Arrival

\* A refund works out what is kept from the payment as it still is.
THEOREM LoneKept == Spec => []Lone
<1>1. Init => Lone
  BY DEF Init, Lone, OneBusy, Figured, At, Idle
<1>2. IInv /\ Lone /\ [Next]_vars => Lone'
  <2> SUFFICES ASSUME IInv, Lone, [Next]_vars PROVE Lone'
    OBVIOUS
  <2>1. CASE GoLive \/ UNCHANGED vars
    <3>1. UNCHANGED <<mix, receipt, payment, job>>
      BY <2>1 DEF GoLive, vars
    <3> QED
      BY <3>1 DEF Lone, OneBusy, Alone, Figured, Live, At
  <2>2. ASSUME NEW w \in Workers, Arrival(w) PROVE Lone'
    BY <2>2, ArrivalFigures, OwnFigures
  <2>3. ASSUME NEW w \in Workers, Progress(w) \/ Fail(w) \/ Crash(w) PROVE Lone'
    <3>1. Alone => Figured(job[w])'
      BY <2>3, ProgressFigures DEF Lone
    <3> QED
      BY <2>3, <3>1, OwnFigures
  <2> QED
    BY <2>1, <2>2, <2>3 DEF Next
<1> QED
  BY <1>1, <1>2, ReceiptInvariance, PTL DEF Spec

\* One request at a time, though any may fail or die, a partial refund that answers
\* has left a live receipt for just what the buyer keeps (refunds.py:24-29).
THEOREM KeptIsReceiptedAlways == Spec => []KeptIsReceipted
<1>1. Lone => KeptIsReceipted
  BY DEF Lone, Figured, KeptIsReceipted, At
<1> QED
  BY <1>1, LoneKept, PTL

LEMMA TakeBackNext ==
  ASSUME IInv, Lone, AllTakeBack, [Next]_vars
  PROVE  AllTakeBack'
<1>1. CASE GoLive \/ UNCHANGED vars
  <2>1. UNCHANGED <<mix, receipt, payment, job>>
    BY <1>1 DEF GoLive, vars
  <2> QED
    BY <2>1 DEF AllTakeBack, Alone, TakesBack, Live
<1>2. ASSUME NEW w \in Workers, Arrival(w) PROVE AllTakeBack'
  BY <1>2, ArrivalFigures, OwnReceipts
<1>3. ASSUME NEW w \in Workers, Progress(w) \/ Fail(w) \/ Crash(w) PROVE AllTakeBack'
  <2>1. Alone => TakesBack(job[w])'
    BY <1>3, ProgressFigures DEF Lone, AllTakeBack
  <2> QED
    BY <1>3, <2>1, OwnReceipts
<1> QED
  BY <1>1, <1>2, <1>3 DEF Next

\* Only the money step writes the payment.
LEMMA OnlyPayPays ==
  ASSUME [Next]_vars, payment' # payment
  PROVE  \E w \in Workers : Pay(w)
<1>1. PICK w \in Workers : Arrival(w) \/ Progress(w) \/ Fail(w) \/ Crash(w)
  BY DEF Next, GoLive, vars
<1>2. ~Arrival(w)
  BY DEF Arrival, BeginIssue, BeginReissue, BeginReturn, BeginRefund
<1>3. ~(Mint(w) \/ Store(w) \/ Unmint(w) \/ Restamp(w) \/ Void(w) \/ Mark(w) \/ Replace(w) \/ Answer(w))
  BY DEF Mint, Store, Unmint, Restamp, Void, Mark, Replace, Answer
<1>4. ~Fail(w) /\ ~Crash(w)
  BY DEF Fail, Crash
<1> QED
  BY <1>1, <1>2, <1>3, <1>4 DEF Progress

LEMMA PaySafely ==
  ASSUME IInv, Lone, AllTakeBack, [Next]_vars, Alone, payment' # payment
  PROVE  \/ \A r \in Live : receipt[r].total <= Amount - payment'.refunded
         \/ \E w \in Workers :
              At(w, "pay") /\ ~At(w, "pay")' /\ (job[w].keep \/ job[w].row \notin Live)
<1>1. PICK w \in Workers : Pay(w)
  BY OnlyPayPays
<1>2. Figured(job[w]) /\ TakesBack(job[w])
  BY DEF Lone, AllTakeBack
<1>3. payment.status # "refunded" /\ job[w].kept = Amount - payment'.refunded
  BY <1>1, <1>2, PayFigures
<1>4. job[w] \in Jobs /\ job[w].op = "refund" /\ job[w].step = "pay"
  BY <1>1 DEF IInv, TypeOK, Pay, At, JobsOK, JobOK
<1>5. CASE job[w].keep \/ job[w].row \notin Live
  <2>1. job'[w].step # "pay"
    <3> DEFINE next(step) == [[job[w] EXCEPT !.ddtd = None, !.total = 0, !.seen = Unrefunded] EXCEPT !.step = step]
    <3>1. Finish(w) \/ Become(w, next("replace")) \/ Become(w, next("end"))
      BY <1>1 DEF Pay
    <3>2. next("replace").step = "replace" /\ next("end").step = "end" /\ Idle.step = "idle"
      BY <1>4 DEF Jobs, Idle
    <3> HIDE DEF next
    <3> QED
      BY <3>1, <3>2, Moved
  <2> QED
    BY <1>4, <1>5, <2>1 DEF At
<1>6. CASE ~job[w].keep /\ job[w].row \in Live
  <2>1. \A r \in Live : receipt[r].total = job[w].kept
    BY <1>2, <1>3, <1>4, <1>6 DEF TakesBack
  <2>2. job[w].kept \in Int
    BY <1>4, ReceiptsAssumption DEF Jobs
  <2> QED
    BY <1>3, <2>1, <2>2
<1> QED
  BY <1>5, <1>6

\* One request at a time, no money goes back while a live receipt stands for more than
\* the buyer keeps, unless the request asked for it or named a receipt returned before
\* (refunds.py:5-7, 111-114; refund_refs.py:62-68): the void comes first.
THEOREM RefundTakesReceiptBackAlways == Spec => RefundTakesReceiptBack
<1>1. Init => AllTakeBack
  BY DEF Init, AllTakeBack, TakesBack, Idle
<1>2. IInv /\ Lone /\ AllTakeBack /\ [Next]_vars => AllTakeBack'
  BY TakeBackNext
<1>3. Spec => []AllTakeBack
  BY <1>1, <1>2, ReceiptInvariance, LoneKept, PTL DEF Spec
<1>4. IInv /\ Lone /\ AllTakeBack /\ [Next]_vars =>
        [Alone /\ payment' # payment =>
           \/ \A r \in Live : receipt[r].total <= Amount - payment'.refunded
           \/ \E w \in Workers :
                At(w, "pay") /\ ~At(w, "pay")' /\ (job[w].keep \/ job[w].row \notin Live)]_vars
  BY PaySafely
<1> QED
  BY <1>3, <1>4, ReceiptInvariance, LoneKept, PTL DEF Spec, RefundTakesReceiptBack
===============================================================================
