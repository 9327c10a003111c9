---------------------------- MODULE HandoverProofs ----------------------------
(***************************************************************************)
(* Theorems about Handover: its type invariant, that no teacher covers two *)
(* sessions at once, that a decision stands, and that laying a schedule    *)
(* out again leaves a handed-over session alone.                           *)
(***************************************************************************)
EXTENDS Handover, TLAPS

-----------------------------------------------------------------------------
(* The inductive invariant, one part per reason why the code is safe.      *)

Active(r) == request[r].status \notin {"absent", "deleted"}
Holding(w) == job[w].step \in {"clash", "book"}

\* A live session has a place in the timetable, a request a live session.
RowsRefer ==
  /\ \A s \in Live : session[s].cohort \in Teachers /\ session[s].slot \in Slots
  /\ \A r \in Requests : Active(r) => request[r].session \in Live

\* The row an accept holds is still the one it read; its slot unless moved.
HeldIsOpen ==
  \A w \in Workers : Holding(w) =>
    /\ job[w].request \in With("pending")
    /\ request[job[w].request].session = job[w].session
    /\ request[job[w].request].recipient = job[w].teacher
    /\ job[w].session \in moved \/ session[job[w].session].slot = job[w].slot

\* The two row locks exclude.
HeldByOne ==
  \A v, w \in Workers : v # w /\ Holding(v) /\ Holding(w) =>
    /\ job[v].request # job[w].request
    /\ At(v, "book") /\ At(w, "book") => job[v].teacher # job[w].teacher

\* uq_schedule_change_accepted
AcceptedOnce ==
  \A q, r \in With("accepted") : q # r => request[q].session # request[r].session

\* Whoever is about to book found the teacher free, and nothing has changed that.
BookIsClear ==
  \A w \in Workers, q \in With("accepted") :
    /\ At(w, "book") /\ request[q].recipient = job[w].teacher
    /\ {request[q].session, job[w].session} \cap moved = {}
    /\ request[q].session # job[w].session
    => ~Overlaps(session[request[q].session].slot, session[job[w].session].slot)

\* What an expiry is about to write over had started when it was read.
DueOf(w) ==
  \A r \in job[w].expire :
    /\ request[r].status # "absent"
    /\ Active(r) => request[r].session \in moved \/ HasStarted(session[request[r].session].slot)
ExpiryIsDue == \A w \in Workers : At(w, "expire") => DueOf(w)

\* A plan is for a cohort's timetable.
PlanHasCohort ==
  \A w \in Workers : At(w, "layout") => job[w].layout.cohort \in Teachers

\* While requests come one at a time, what a request has read stays what it was: the
\* requests it finds due are pending, the sessions of its plan not handed over.
PlanIsFresh ==
  ~overlapped =>
    /\ \A v, w \in Workers : v = w \/ At(v, "idle") \/ At(w, "idle")
    /\ \A w \in Workers : At(w, "expire") => job[w].expire \subseteq With("pending")
    /\ \A w \in Workers : At(w, "layout") =>
         \A s \in job[w].layout.move \cup job[w].layout.remove : Of(s) = {}

HandoverInv ==
  /\ TypeOK /\ RowsRefer /\ HeldIsOpen /\ HeldByOne /\ AcceptedOnce
  /\ BookIsClear /\ ExpiryIsDue /\ PlanHasCohort /\ PlanIsFresh /\ CoveredOnce

-----------------------------------------------------------------------------
(* Lemmas about the operators.                                             *)

\* A start time of a day is a slot, and a slot lies on a day.
LEMMA SlotOfType ==
  ASSUME NEW d \in Days, NEW start \in 0..PerDay - 1
  PROVE  SlotOf(d, start) \in Slots
<1> DEFINE N == NumDays  P == PerDay
<1>1. N \in Nat /\ P \in Nat /\ d \in Nat /\ d + 1 <= N /\ start \in Nat /\ start + 1 <= P
  BY HandoverAssumption DEF Days
<1>2. (d + 1) * P <= N * P /\ (d + 1) * P = d * P + P /\ N * P \in Nat /\ d * P \in Nat
  BY <1>1
<1>3. d * P + start + 1 \in 1..N * P
  BY <1>1, <1>2
<1>4. QED
  BY <1>3 DEF SlotOf, Slots

LEMMA DayType ==
  ASSUME NEW slot \in Slots
  PROVE  Day(slot) \in Days
<1> DEFINE N == NumDays  P == PerDay  k == slot - 1  q == k \div P
<1>1. N \in Nat /\ P \in Nat /\ P > 0 /\ k \in Nat /\ k < N * P
  BY HandoverAssumption DEF Slots
<1>2. q \in Int /\ q * P <= k /\ k < q * P + P
  BY <1>1
<1>3. q >= 0
  <2>1. SUFFICES ASSUME q + 1 <= 0 PROVE FALSE
    BY <1>2
  <2>2. (q + 1) * P <= 0
    BY <1>1, <1>2, <2>1
  <2>3. QED
    BY <1>1, <1>2, <2>2
<1>4. q < N
  <2>1. SUFFICES ASSUME N <= q PROVE FALSE
    BY <1>1, <1>2
  <2>2. N * P <= q * P
    BY <1>1, <1>2, <2>1
  <2>3. QED
    BY <1>1, <1>2, <2>2
<1>5. QED
  BY <1>1, <1>2, <1>3, <1>4 DEF Day, Days

LEMMA OverlapsSymmetric ==
  ASSUME NEW a, NEW b, Overlaps(a, b)
  PROVE  Overlaps(b, a)
BY DEF Overlaps

\* An idle thread, and one that has begun something, has a well-formed job.
LEMMA IdleType == Idle \in Jobs /\ Idle.step = "idle"
<1>1. 0 \in 0..PerDay - 1
  BY HandoverAssumption
<1>2. NoLayout \in Layouts
  BY <1>1 DEF Layouts, NoLayout
<1>3. QED
  BY <1>2 DEF Idle, Jobs, Steps

\* A row is in its table when it is one of its rows.
LEMMA RowTypes ==
  /\ \A status \in Statuses : NoRequest(status) \in RequestRows
  /\ NoSession("absent") \in SessionRows /\ NoSession("deleted") \in SessionRows
  /\ \A t \in Teachers, slot \in Slots : NewSession(t, slot) \in SessionRows
  /\ \A row \in SessionRows, slot \in Slots : [row EXCEPT !.slot = slot] \in SessionRows
  /\ \A row \in RequestRows, status \in Statuses : [row EXCEPT !.status = status] \in RequestRows
BY DEF NoRequest, NoSession, NewSession, RequestRows, SessionRows, Statuses

\* Changing one thread's job, or one request's status, keeps the tables' shape.
LEMMA BecomeType ==
  ASSUME NEW w, NEW j \in Jobs, job \in [Workers -> Jobs], overlapped \in BOOLEAN, Become(w, j)
  PROVE  job' \in [Workers -> Jobs] /\ overlapped' \in BOOLEAN
BY DEF Become, Interleaved

LEMMA AtOnceType ==
  ASSUME NEW op, job \in [Workers -> Jobs], overlapped \in BOOLEAN, AtOnce(op)
  PROVE  job' \in [Workers -> Jobs] /\ overlapped' \in BOOLEAN
BY DEF AtOnce, Interleaved

LEMMA ResolveType ==
  ASSUME NEW r, NEW status \in Statuses, request \in [Requests -> RequestRows], Resolve(r, status)
  PROVE  request' \in [Requests -> RequestRows]
BY RowTypes DEF Resolve

LEMMA CascadeType ==
  ASSUME NEW S, request \in [Requests -> RequestRows], CascadeFrom(S)
  PROVE  request' \in [Requests -> RequestRows]
<1>1. NoRequest("deleted") \in RequestRows
  BY RowTypes DEF Statuses
<1>2. QED
  BY <1>1 DEF CascadeFrom

-----------------------------------------------------------------------------
(* The type invariant.                                                     *)

LEMMA CreateTypes ==
  ASSUME TypeOK, NEW w \in Workers, NEW s \in Sessions, NEW t \in Teachers, BeginCreate(w, s, t)
  PROVE  TypeOK'
<1> DEFINE j == [Idle EXCEPT !.step = "send", !.session = s, !.sender = session[s].cohort, !.teacher = t]
<1>1. session[s].cohort \in Teachers \cup {None}
  BY DEF TypeOK, SessionRows
<1>2. j \in Jobs
  BY <1>1, IdleType DEF Jobs, Steps
<1>3. Become(w, j) /\ UNCHANGED <<now, session, request, moved>>
  BY DEF BeginCreate, Start
<1>4. QED
  BY <1>2, <1>3, BecomeType DEF TypeOK

LEMMA SendTypes ==
  ASSUME TypeOK, NEW w \in Workers, Send(w)
  PROVE  TypeOK'
<1>1. Become(w, Idle) /\ UNCHANGED <<now, session, moved>>
  BY DEF Send, Finish
<1>2. request' \in [Requests -> RequestRows]
  <2> DEFINE row == [status |-> "pending", session |-> job[w].session,
                     sender |-> job[w].sender, recipient |-> job[w].teacher]
  <2>1. row \in RequestRows
    BY DEF TypeOK, Jobs, RequestRows, Statuses
  <2>2. request' = request \/ \E r \in Requests : request' = [request EXCEPT ![r] = row]
    BY DEF Send
  <2>3. QED
    BY <2>1, <2>2 DEF TypeOK
<1>3. QED
  BY <1>1, <1>2, IdleType, BecomeType DEF TypeOK

LEMMA AcceptTypes ==
  ASSUME TypeOK, RowsRefer, NEW w \in Workers, NEW r \in Requests, BeginAccept(w, r)
  PROVE  TypeOK'
<1> DEFINE s == request[r].session
           j == [Idle EXCEPT !.step = "clash", !.request = r, !.session = s,
                             !.teacher = request[r].recipient, !.slot = session[s].slot]
<1>1. Become(w, j) /\ UNCHANGED <<now, session, request, moved>> /\ Active(r)
  BY DEF BeginAccept, Start, Open, With, Active
<1>2. s \in Live /\ s \in Sessions /\ session[s].slot \in Slots
  BY <1>1 DEF RowsRefer, Live
<1>3. request[r].recipient \in Teachers \cup {None}
  BY DEF TypeOK, RequestRows
<1>4. j \in Jobs
  BY <1>2, <1>3, IdleType DEF Jobs, Steps
<1>5. QED
  BY <1>1, <1>4, BecomeType DEF TypeOK

LEMMA ClashTypes ==
  ASSUME TypeOK, NEW w \in Workers, Clash(w)
  PROVE  TypeOK'
<1>1. [job[w] EXCEPT !.step = "book"] \in Jobs
  BY DEF TypeOK, Jobs, Steps
<1>2. PICK j \in Jobs : Become(w, j)
  BY <1>1, IdleType DEF Clash, Finish
<1>3. QED
  BY <1>2, BecomeType DEF TypeOK, Clash

LEMMA BookTypes ==
  ASSUME TypeOK, HeldIsOpen, NEW w \in Workers, Book(w)
  PROVE  TypeOK'
<1>1. Become(w, Idle) /\ UNCHANGED <<now, session, moved>>
  BY DEF Book, Finish
<1>2. request' \in [Requests -> RequestRows]
  <2>1. request' = request \/ Resolve(job[w].request, "accepted")
    BY DEF Book
  <2>2. QED
    BY <2>1, ResolveType DEF TypeOK, Statuses
<1>3. QED
  BY <1>1, <1>2, IdleType, BecomeType DEF TypeOK

LEMMA DecideTypes ==
  ASSUME TypeOK, NEW r \in Requests, OpenTooLate(r) \/ Reject(r) \/ Cancel(r)
  PROVE  TypeOK'
<1>1. PICK op : AtOnce(op)
  BY DEF OpenTooLate, Reject, Cancel
<1>2. PICK status \in Statuses : Resolve(r, status) /\ UNCHANGED <<now, session, moved>>
  BY DEF OpenTooLate, Reject, Cancel, Statuses
<1>3. QED
  BY <1>1, <1>2, AtOnceType, ResolveType DEF TypeOK

LEMMA BeginExpireTypes ==
  ASSUME TypeOK, NEW w \in Workers, NEW t \in Teachers, BeginExpire(w, t)
  PROVE  TypeOK'
<1>1. PICK rs \in SUBSET Requests : Become(w, [Idle EXCEPT !.step = "expire", !.expire = rs])
  BY DEF BeginExpire, Start, With
<1>2. [Idle EXCEPT !.step = "expire", !.expire = rs] \in Jobs
  BY IdleType DEF Jobs, Steps
<1>3. QED
  BY <1>1, <1>2, BecomeType DEF TypeOK, BeginExpire

LEMMA ExpireTypes ==
  ASSUME TypeOK, NEW w \in Workers, Expire(w)
  PROVE  TypeOK'
<1>1. Become(w, Idle) /\ UNCHANGED <<now, session, moved>>
  BY DEF Expire, Finish
<1>2. request' \in [Requests -> RequestRows]
  <2>1. \A r \in Requests : [request[r] EXCEPT !.status = "expired"] \in RequestRows
    BY RowTypes DEF TypeOK, Statuses
  <2>2. QED
    BY <2>1 DEF Expire, TypeOK
<1>3. QED
  BY <1>1, <1>2, IdleType, BecomeType DEF TypeOK

LEMMA SessionTypes ==
  ASSUME TypeOK, SessionStep
  PROVE  TypeOK'
<1>1. CASE \E t \in Teachers, slot \in Slots : AddSession(t, slot)
  <2>1. PICK t \in Teachers, slot \in Slots : AddSession(t, slot)
    BY <1>1
  <2>2. session' \in [Sessions -> SessionRows]
    BY <2>1, RowTypes DEF AddSession, TypeOK
  <2>3. QED
    BY <2>1, <2>2, AtOnceType DEF AddSession, TypeOK
<1>2. CASE \E s \in Sessions : DeleteSession(s)
  <2>1. PICK s \in Sessions : DeleteSession(s)
    BY <1>2
  <2>2. session' \in [Sessions -> SessionRows]
    BY <2>1, RowTypes DEF DeleteSession, TypeOK
  <2>3. request' \in [Requests -> RequestRows]
    BY <2>1, CascadeType DEF DeleteSession, TypeOK
  <2>4. QED
    BY <2>1, <2>2, <2>3, AtOnceType DEF DeleteSession, TypeOK
<1>3. CASE \E s \in Sessions, slot \in Slots : EditSession(s, slot)
  <2>1. PICK s \in Sessions, slot \in Slots : EditSession(s, slot)
    BY <1>3
  <2>2. session' \in [Sessions -> SessionRows]
    BY <2>1, RowTypes DEF EditSession, TypeOK
  <2>3. QED
    BY <2>1, <2>2, AtOnceType DEF EditSession, TypeOK
<1>4. QED
  BY <1>1, <1>2, <1>3 DEF SessionStep

LayoutJob(p) == [Idle EXCEPT !.step = "layout", !.layout = p]

\* What a plan for a cohort's timetable holds.
LEMMA GeneratePlan ==
  ASSUME TypeOK, NEW w \in Workers, NEW t \in Teachers, NEW days \in SUBSET Days,
         NEW start \in 0..PerDay - 1, NEW marked \in SUBSET Sessions, NEW re \in BOOLEAN,
         BeginGenerate(w, t, days, start, marked, re)
  PROVE  \E p \in Layouts :
           /\ Become(w, LayoutJob(p))
           /\ p.cohort = t
           /\ \A s \in p.move \cup p.remove : s \in Live /\ Of(s) = {}
<1> DEFINE empty == {d \in days : OnDay(t, d) = {}}
           wrong == {d \in days \ empty : ~\E s \in OnDay(t, d) : session[s].slot = SlotOf(d, start)}
           movable(d) == {s \in OnDay(t, d) : ~Protected(s, marked)}
           tomove == {d \in wrong : re /\ movable(d) # {}}
           away == IF re THEN UNION {movable(d) : d \in Days \ days} ELSE {}
           plan(move) == [cohort |-> t, start |-> start, create |-> {SlotOf(d, start) : d \in empty},
                          move |-> move, remove |-> away]
<1>1. PICK move \in SUBSET UNION {movable(d) : d \in tomove} :
        Become(w, LayoutJob(plan(move)))
  BY DEF BeginGenerate, Start, LayoutJob
<1>2. \A d : \A s \in movable(d) : s \in Live /\ s \in Sessions /\ Of(s) = {}
  BY DEF OnDay, Protected, Live
<1>3. \A s \in move \cup away : s \in Live /\ s \in Sessions /\ Of(s) = {}
  BY <1>2
<1>4. {SlotOf(d, start) : d \in empty} \subseteq Slots
  BY SlotOfType
<1>5. plan(move) \in Layouts
  BY <1>3, <1>4 DEF Layouts
<1>6. QED
  BY <1>1, <1>3, <1>5

LEMMA GenerateTypes ==
  ASSUME TypeOK, NEW w \in Workers, NEW t \in Teachers, NEW days \in SUBSET Days,
         NEW start \in 0..PerDay - 1, NEW marked \in SUBSET Sessions, NEW re \in BOOLEAN,
         BeginGenerate(w, t, days, start, marked, re)
  PROVE  TypeOK'
<1>1. PICK p \in Layouts :
           /\ Become(w, LayoutJob(p))
           /\ p.cohort = t
           /\ \A s \in p.move \cup p.remove : s \in Live /\ Of(s) = {}
  BY GeneratePlan
<1>2. LayoutJob(p) \in Jobs
  BY IdleType DEF Jobs, Steps, LayoutJob
<1>3. UNCHANGED <<now, session, request, moved>>
  BY DEF BeginGenerate
<1>4. QED
  BY <1>1, <1>2, <1>3, BecomeType DEF TypeOK

\* Laying out gives every row it writes a slot of the timetable.
LEMMA LaidOutType ==
  ASSUME TypeOK, RowsRefer, NEW p \in Layouts, ~LayoutRefused(p),
         NEW ids \in [p.create -> Unused]
  PROVE  /\ LaidOut(p, ids) \in [Sessions -> SessionRows]
         /\ \A s \in p.move : LaidOut(p, ids)[s].status = "live" /\ LaidOut(p, ids)[s].cohort = session[s].cohort
              /\ LaidOut(p, ids)[s].slot \in Slots
<1>1. p.start \in 0..PerDay - 1 /\ p.create \subseteq Slots /\ p.cohort \in Teachers \cup {None}
  BY DEF Layouts
<1>2. \A s \in p.move : s \in Live /\ s \in Sessions /\ session[s].slot \in Slots
  BY DEF LayoutRefused, RowsRefer, Live
<1>3. \A s \in p.move : SlotOf(Day(session[s].slot), p.start) \in Slots
  BY <1>1, <1>2, DayType, SlotOfType
<1>4. \A s \in p.move : [session[s] EXCEPT !.slot = SlotOf(Day(session[s].slot), p.start)] \in SessionRows
  BY <1>2, <1>3, RowTypes DEF TypeOK
<1>5. \A slot \in p.create : NewSession(p.cohort, slot) \in SessionRows
  BY <1>1 DEF NewSession, SessionRows
<1>6. NoSession("deleted") \in SessionRows
  BY RowTypes
<1>7. LaidOut(p, ids) \in [Sessions -> SessionRows]
  BY <1>4, <1>5, <1>6 DEF LaidOut, TypeOK
<1>8. \A s \in p.move : LaidOut(p, ids)[s] = [session[s] EXCEPT !.slot = SlotOf(Day(session[s].slot), p.start)]
  BY <1>2 DEF LaidOut
<1>9. QED
  BY <1>2, <1>3, <1>7, <1>8 DEF Live, TypeOK, SessionRows

LEMMA LayoutTypes ==
  ASSUME TypeOK, RowsRefer, NEW w \in Workers, Layout(w)
  PROVE  TypeOK'
<1> DEFINE p == job[w].layout
<1>1. Become(w, Idle) /\ UNCHANGED now
  BY DEF Layout, Finish
<1>2. p \in Layouts
  BY DEF TypeOK, Jobs
<1>3. CASE LayoutRefused(p)
  BY <1>1, <1>3, IdleType, BecomeType DEF Layout, TypeOK
<1>4. CASE ~LayoutRefused(p)
  <2>1. PICK ids \in [p.create -> Unused] : session' = LaidOut(p, ids)
    BY <1>4 DEF Layout
  <2>2. CascadeFrom(p.remove) /\ moved' = moved \cup p.move
    BY <1>4 DEF Layout
  <2>3. p.move \subseteq Sessions
    BY <1>2 DEF Layouts
  <2>4. session' \in [Sessions -> SessionRows]
    BY <1>2, <1>4, <2>1, LaidOutType
  <2>5. request' \in [Requests -> RequestRows]
    BY <2>2, CascadeType DEF TypeOK
  <2>6. QED
    BY <1>1, <2>2, <2>3, <2>4, <2>5, IdleType, BecomeType DEF TypeOK
<1>5. QED
  BY <1>3, <1>4

LEMMA TickTypes ==
  ASSUME TypeOK, Tick
  PROVE  TypeOK'
<1>1. NumDays * PerDay \in Nat
  BY HandoverAssumption
<1>2. QED
  BY <1>1 DEF TypeOK, Tick

-----------------------------------------------------------------------------
(* Most steps keep what the invariant rests on.                            *)

\* Rows keep what they refer to, and nothing becomes accepted.
KeepsRows ==
  /\ moved \subseteq moved' /\ now <= now'
  /\ \A s \in Live : s \in Live' => s \in moved' \/ session'[s] = session[s]
  /\ \A r \in Requests :
       /\ request[r].status # "absent" => request'[r].status # "absent"
       /\ request'[r].status = "accepted" => request[r].status = "accepted"
       /\ Active(r)' =>
            \/ request[r].status = "absent" /\ request'[r].status = "pending"
            \/ /\ Active(r)
               /\ request'[r].session = request[r].session /\ request'[r].recipient = request[r].recipient

\* No thread takes a request or an expiry up, and those that hold one keep it open.
KeepsJobs ==
  \A w \in Workers :
    /\ Holding(w)' => job'[w] = job[w] /\ request'[job[w].request].status = "pending"
    /\ At(w, "expire")' => DueOf(w)' \/ (At(w, "expire") /\ job'[w] = job[w])
    /\ At(w, "layout")' => job'[w].layout.cohort \in Teachers

LEMMA RowsStay ==
  ASSUME TypeOK, TypeOK', RowsRefer, RowsRefer', KeepsRows
  PROVE  /\ \A r \in Requests : Active(r) /\ Active(r)' => LET s == request[r].session IN
              /\ request'[r].session = s /\ request'[r].recipient = request[r].recipient
              /\ s \in Live /\ s \in Live' /\ s \in Sessions
              /\ s \in moved' \/ session'[s] = session[s]
         /\ \A r \in With("accepted")' : r \in With("accepted") /\ Active(r) /\ Active(r)'
<1>1. \A r \in Requests : Active(r) /\ Active(r)' => 
        request'[r].session = request[r].session /\ request'[r].recipient = request[r].recipient
  BY DEF KeepsRows, Active
<1>2. \A r \in Requests : Active(r) => request[r].session \in Live /\ request[r].session \in Sessions
  BY DEF RowsRefer, Live
<1>3. \A r \in Requests : Active(r)' => request'[r].session \in Live'
  BY DEF RowsRefer
<1>4. \A r \in With("accepted")' : r \in With("accepted") /\ Active(r) /\ Active(r)'
  BY DEF KeepsRows, With, Active
<1>5. QED
  BY <1>1, <1>2, <1>3, <1>4 DEF KeepsRows

LEMMA HeldStays ==
  ASSUME TypeOK, TypeOK', RowsRefer, RowsRefer', KeepsRows, KeepsJobs, HeldIsOpen, HeldByOne
  PROVE  HeldIsOpen' /\ HeldByOne'
<1>1. \A w \in Workers : Holding(w)' =>
        /\ Holding(w) /\ job'[w] = job[w] /\ job[w].request \in Requests
        /\ Active(job[w].request) /\ Active(job[w].request)'
  BY DEF KeepsJobs, Holding, HeldIsOpen, With, Active
<1>2. HeldIsOpen'
  <2>1. SUFFICES ASSUME NEW w \in Workers, Holding(w)'
                 PROVE  /\ job'[w].request \in With("pending")'
                        /\ request'[job'[w].request].session = job'[w].session
                        /\ request'[job'[w].request].recipient = job'[w].teacher
                        /\ job'[w].session \in moved' \/ session'[job'[w].session].slot = job'[w].slot
    BY DEF HeldIsOpen
  <2> DEFINE r == job[w].request
  <2>2. /\ Holding(w) /\ job'[w] = job[w] /\ r \in Requests
        /\ Active(r) /\ Active(r)' /\ request'[r].status = "pending"
    BY <1>1, <2>1 DEF KeepsJobs
  <2>3. /\ request[r].session = job[w].session /\ request[r].recipient = job[w].teacher
        /\ job[w].session \in moved \/ session[job[w].session].slot = job[w].slot
    BY <2>2 DEF HeldIsOpen
  <2>4. /\ request'[r].session = request[r].session /\ request'[r].recipient = request[r].recipient
        /\ request[r].session \in moved' \/ session'[request[r].session] = session[request[r].session]
    BY <2>2, RowsStay
  <2>5. QED
    BY <2>2, <2>3, <2>4 DEF With, KeepsRows
<1>3. HeldByOne'
  BY <1>1 DEF HeldByOne, At
<1>4. QED
  BY <1>2, <1>3

LEMMA AcceptedStay ==
  ASSUME TypeOK, TypeOK', RowsRefer, RowsRefer', KeepsRows, AcceptedOnce, CoveredOnce
  PROVE  AcceptedOnce' /\ CoveredOnce'
<1>1. AcceptedOnce'
  BY RowsStay DEF AcceptedOnce, With
<1>2. CoveredOnce'
  <2>1. SUFFICES ASSUME NEW q \in With("accepted")', NEW r \in With("accepted")', q # r,
                        request'[q].recipient = request'[r].recipient,
                        {request'[q].session, request'[r].session} \cap moved' = {}
                 PROVE  ~Overlaps(session'[request'[q].session].slot, session'[request'[r].session].slot)
    BY DEF CoveredOnce, Overlaps, Day
  <2>2. q \in With("accepted") /\ r \in With("accepted")
    BY RowsStay
  <2>3. \A x \in {q, r} : /\ request'[x].session = request[x].session /\ request'[x].recipient = request[x].recipient
                         /\ session'[request[x].session] = session[request[x].session]
    BY <2>1, <2>2, RowsStay DEF With
  <2>4. {request[q].session, request[r].session} \cap moved = {}
    BY <2>1, <2>3 DEF KeepsRows
  <2>5. ~Overlaps(session[request[q].session].slot, session[request[r].session].slot)
    BY <2>1, <2>2, <2>3, <2>4 DEF CoveredOnce
  <2>6. QED
    BY <2>3, <2>5
<1>3. QED
  BY <1>1, <1>2

LEMMA BookStaysClear ==
  ASSUME TypeOK, TypeOK', RowsRefer, RowsRefer', KeepsRows, KeepsJobs, HeldIsOpen, BookIsClear
  PROVE  BookIsClear'
<1>1. SUFFICES ASSUME NEW w \in Workers, NEW q \in With("accepted")', At(w, "book")',
                      request'[q].recipient = job'[w].teacher,
                      {request'[q].session, job'[w].session} \cap moved' = {},
                      request'[q].session # job'[w].session
               PROVE  ~Overlaps(session'[request'[q].session].slot, session'[job'[w].session].slot)
  BY DEF BookIsClear, Overlaps, Day
<1> DEFINE r == job[w].request
<1>2. /\ At(w, "book") /\ Holding(w) /\ job'[w] = job[w] /\ r \in Requests /\ Active(r) /\ Active(r)'
      /\ request[r].session = job[w].session
  BY <1>1 DEF KeepsJobs, Holding, HeldIsOpen, With, Active, At
<1>3. /\ q \in With("accepted") /\ request'[q].session = request[q].session
      /\ request'[q].recipient = request[q].recipient
      /\ session'[request[q].session] = session[request[q].session]
  BY <1>1, RowsStay DEF With
<1>4. session'[job[w].session] = session[job[w].session]
  BY <1>1, <1>2, RowsStay
<1>5. {request[q].session, job[w].session} \cap moved = {}
  BY <1>1, <1>2, <1>3 DEF KeepsRows
<1>6. ~Overlaps(session[request[q].session].slot, session[job[w].session].slot)
  BY <1>1, <1>2, <1>3, <1>5 DEF BookIsClear
<1>7. QED
  BY <1>2, <1>3, <1>4, <1>6

LEMMA ExpiryStaysDue ==
  ASSUME TypeOK, TypeOK', RowsRefer, RowsRefer', KeepsRows, KeepsJobs, ExpiryIsDue
  PROVE  ExpiryIsDue'
<1>1. SUFFICES ASSUME NEW w \in Workers, At(w, "expire")', job'[w] = job[w], At(w, "expire"),
                      NEW r \in job'[w].expire
               PROVE  /\ request'[r].status # "absent"
                      /\ Active(r)' => request'[r].session \in moved' \/ HasStarted(session[request[r].session].slot)'
  BY DEF ExpiryIsDue, DueOf, HasStarted, KeepsJobs
<1>2. r \in job[w].expire /\ r \in Requests
  BY <1>1 DEF TypeOK, Jobs
<1>3. request[r].status # "absent" /\ request'[r].status # "absent"
  BY <1>1, <1>2 DEF ExpiryIsDue, DueOf, KeepsRows
<1>4. CASE Active(r)'
  <2>1. Active(r) /\ request'[r].session = request[r].session /\ request[r].session \in Live
        /\ (request[r].session \in moved' \/ session'[request[r].session] = session[request[r].session])
    BY <1>2, <1>3, <1>4, RowsStay DEF KeepsRows
  <2>2. request[r].session \in moved \/ now >= session[request[r].session].slot
    BY <1>1, <1>2, <2>1 DEF ExpiryIsDue, DueOf, HasStarted
  <2>3. session[request[r].session].slot \in Int /\ now \in Int /\ now' \in Int
    BY <2>1 DEF RowsRefer, Slots, TypeOK
  <2>4. QED
    BY <1>3, <2>1, <2>2, <2>3 DEF KeepsRows, HasStarted
<1>5. QED
  BY <1>3, <1>4

LEMMA KeepsStep ==
  ASSUME HandoverInv, TypeOK', RowsRefer', PlanIsFresh', KeepsRows, KeepsJobs
  PROVE  HandoverInv'
BY HeldStays, AcceptedStay, BookStaysClear, ExpiryStaysDue DEF HandoverInv, PlanHasCohort, KeepsJobs

-----------------------------------------------------------------------------
(* Plans made while requests come one at a time.                           *)

LEMMA BecomeAlone ==
  ASSUME NEW w \in Workers, NEW j, job \in [Workers -> Jobs], Become(w, j), j.step \notin {"layout", "expire"}
  PROVE  PlanIsFresh'
BY DEF Become, Interleaved, PlanIsFresh, At

LEMMA AtOnceAlone ==
  ASSUME NEW op, AtOnce(op)
  PROVE  ~overlapped' => \A w \in Workers : At(w, "idle") /\ At(w, "idle")'
BY HandoverAssumption DEF AtOnce, Interleaved, At

LEMMA AtOnceFresh ==
  ASSUME NEW op, AtOnce(op)
  PROVE  PlanIsFresh'
BY AtOnceAlone DEF PlanIsFresh, At

-----------------------------------------------------------------------------
(* Each action preserves the invariant.                                    *)

\* What a step that only begins or ends a thread's work leaves as it is.
LEMMA JobsOfOthers ==
  ASSUME TypeOK, NEW w \in Workers, NEW j, Become(w, j), HeldIsOpen, PlanHasCohort,
         j.step \notin {"clash", "book"}, j.step = "expire" => DueOf(w)', j.step = "layout" => j.layout.cohort \in Teachers,
         \A v \in Workers \ {w} : Holding(v) => request'[job[v].request].status = "pending"
  PROVE  KeepsJobs
<1>1. job'[w] = j /\ \A v \in Workers \ {w} : job'[v] = job[v]
  BY DEF Become, TypeOK
<1>2. ASSUME NEW v \in Workers
      PROVE  Holding(v)' => job'[v] = job[v] /\ request'[job[v].request].status = "pending"
  BY <1>1 DEF Holding
<1>3. ASSUME NEW v \in Workers, At(v, "expire")'
      PROVE  DueOf(v)' \/ (At(v, "expire") /\ job'[v] = job[v])
  <2>1. CASE v = w
    BY <1>1, <1>3, <2>1 DEF At, DueOf
  <2>2. CASE v # w
    BY <1>1, <1>3, <2>2 DEF At
  <2>3. QED
    BY <2>1, <2>2
<1>4. ASSUME NEW v \in Workers
      PROVE  At(v, "layout")' => job'[v].layout.cohort \in Teachers
  BY <1>1 DEF At, PlanHasCohort
<1>5. QED
  BY <1>2, <1>3, <1>4 DEF KeepsJobs

LEMMA JobsAtOnce ==
  ASSUME TypeOK, NEW op, AtOnce(op), HeldIsOpen, PlanHasCohort,
         \A v \in Workers : Holding(v) => request'[job[v].request].status = "pending"
  PROVE  KeepsJobs
BY DEF AtOnce, KeepsJobs, Holding, At, TypeOK, PlanHasCohort

LEMMA HeldPending ==
  ASSUME HeldIsOpen, NEW w \in Workers, Holding(w)
  PROVE  job[w].request \in Requests /\ request[job[w].request].status = "pending"
BY DEF HeldIsOpen, With

LEMMA CreateKeeps ==
  ASSUME HandoverInv, NEW w \in Workers, NEW s \in Sessions, NEW t \in Teachers, BeginCreate(w, s, t)
  PROVE  HandoverInv'
<1> DEFINE j == [Idle EXCEPT !.step = "send", !.session = s, !.sender = session[s].cohort, !.teacher = t]
<1>1. Become(w, j) /\ UNCHANGED <<now, session, request, moved>>
  BY DEF BeginCreate, Start
<1>2. TypeOK'
  BY CreateTypes DEF HandoverInv
<1>3. RowsRefer'
  BY <1>1 DEF HandoverInv, RowsRefer, Live, Active
<1>4. j.step = "send"
  BY DEF Idle
<1>5. PlanIsFresh'
  BY <1>1, <1>4, BecomeAlone DEF HandoverInv, TypeOK
<1>6. KeepsRows
  BY <1>1, <1>2 DEF KeepsRows, Active, TypeOK
<1>7. KeepsJobs
  BY <1>1, <1>4, HeldPending, JobsOfOthers DEF HandoverInv
<1>8. QED
  BY <1>2, <1>3, <1>5, <1>6, <1>7, KeepsStep

LEMMA SendKeeps ==
  ASSUME HandoverInv, NEW w \in Workers, Send(w)
  PROVE  HandoverInv'
<1> DEFINE row == [status |-> "pending", session |-> job[w].session,
                   sender |-> job[w].sender, recipient |-> job[w].teacher]
<1>1. Become(w, Idle) /\ UNCHANGED <<now, session, moved>>
  BY DEF Send, Finish
<1>2. TypeOK /\ TypeOK' /\ HeldIsOpen /\ PlanHasCohort /\ RowsRefer
  BY SendTypes DEF HandoverInv
<1>3. \/ request' = request
      \/ /\ job[w].session \in Live
         /\ \E r \in Requests : request[r].status = "absent" /\ request' = [request EXCEPT ![r] = row]
  BY DEF Send, InsertRefused, LowestOf, With
<1>4. RowsRefer'
  BY <1>1, <1>2, <1>3 DEF RowsRefer, Live, Active, TypeOK
<1>5. PlanIsFresh'
  BY <1>1, <1>2, IdleType, BecomeAlone DEF TypeOK
<1>6. KeepsRows
  BY <1>1, <1>2, <1>3 DEF KeepsRows, Active, TypeOK
<1>7. \A v \in Workers : Holding(v) => request'[job[v].request].status = "pending"
  BY <1>2, <1>3, HeldPending DEF TypeOK
<1>8. KeepsJobs
  BY <1>1, <1>2, <1>7, IdleType, JobsOfOthers
<1>9. QED
  BY <1>2, <1>4, <1>5, <1>6, <1>8, KeepsStep

LEMMA DecideKeeps ==
  ASSUME HandoverInv, NEW r \in Requests, OpenTooLate(r) \/ Reject(r) \/ Cancel(r)
  PROVE  HandoverInv'
<1>1. PICK op : AtOnce(op)
  BY DEF OpenTooLate, Reject, Cancel
<1>2. PICK status \in {"expired", "rejected", "cancelled"} :
        /\ Resolve(r, status) /\ RequestFree(r) /\ r \in With("pending")
        /\ UNCHANGED <<now, session, moved>>
  BY DEF OpenTooLate, Reject, Cancel, Open
<1>3. TypeOK /\ TypeOK' /\ HeldIsOpen /\ PlanHasCohort /\ RowsRefer
  BY DecideTypes DEF HandoverInv
<1>4. request[r].status = "pending" /\ request' = [request EXCEPT ![r].status = status]
  BY <1>2 DEF With, Resolve
<1>5. RowsRefer'
  BY <1>2, <1>3, <1>4 DEF RowsRefer, Live, Active, TypeOK
<1>6. PlanIsFresh'
  BY <1>1, AtOnceFresh
<1>7. KeepsRows
  BY <1>2, <1>3, <1>4 DEF KeepsRows, Active, TypeOK
<1>8. \A v \in Workers : Holding(v) => request'[job[v].request].status = "pending"
  BY <1>2, <1>3, <1>4, HeldPending DEF TypeOK, RequestFree, Holding
<1>9. KeepsJobs
  BY <1>1, <1>3, <1>8, JobsAtOnce
<1>10. QED
  BY <1>3, <1>5, <1>6, <1>7, <1>9, KeepsStep

LEMMA ExpireKeeps ==
  ASSUME HandoverInv, NEW w \in Workers, Expire(w)
  PROVE  HandoverInv'
<1> DEFINE rs == job[w].expire
<1>1. Become(w, Idle) /\ UNCHANGED <<now, session, moved>> /\ At(w, "expire") /\ \A r \in rs : RequestFree(r)
  BY DEF Expire, Finish
<1>2. TypeOK /\ TypeOK' /\ HeldIsOpen /\ PlanHasCohort /\ RowsRefer
  BY ExpireTypes DEF HandoverInv
<1>3. rs \subseteq Requests /\ \A r \in rs : request[r].status # "absent"
  BY <1>1 DEF HandoverInv, ExpiryIsDue, DueOf, TypeOK, Jobs
<1>4. \/ request' = request
      \/ /\ \A r \in rs : request[r].status \notin {"absent", "deleted"}
         /\ request' = [r \in Requests |-> IF r \in rs THEN [request[r] EXCEPT !.status = "expired"]
                                           ELSE request[r]]
  BY <1>3 DEF Expire, With
<1>5. \A r \in Requests :
        \/ request'[r] = request[r]
        \/ /\ r \in rs /\ Active(r) /\ request'[r].status = "expired"
           /\ request'[r].session = request[r].session /\ request'[r].recipient = request[r].recipient
  BY <1>2, <1>4 DEF Active, TypeOK, RequestRows
<1>6. RowsRefer'
  BY <1>1, <1>2, <1>5 DEF RowsRefer, Live, Active
<1>7. PlanIsFresh'
  BY <1>1, <1>2, IdleType, BecomeAlone DEF TypeOK
<1>8. KeepsRows
  BY <1>1, <1>2, <1>5 DEF KeepsRows, Active, TypeOK
<1>9. \A v \in Workers : Holding(v) => request'[job[v].request].status = "pending"
  BY <1>1, <1>2, <1>5, HeldPending DEF RequestFree, Holding
<1>10. KeepsJobs
  BY <1>1, <1>2, <1>9, IdleType, JobsOfOthers
<1>11. QED
  BY <1>2, <1>6, <1>7, <1>8, <1>10, KeepsStep

\* A cascade takes a session's requests, none of them held.
LEMMA CascadeRows ==
  ASSUME TypeOK, HeldIsOpen, NEW S, CascadeFrom(S)
  PROVE  /\ \A r \in Requests :
              \/ request'[r] = request[r] /\ ~(Active(r) /\ request[r].session \in S)
              \/ Active(r) /\ request[r].session \in S /\ request'[r].status = "deleted"
         /\ \A w \in Workers : Holding(w) => request'[job[w].request].status = "pending"
<1>1. \A r \in Requests :
        (\E s \in S : r \in Of(s)) <=> Active(r) /\ request[r].session \in S
  BY DEF Of, Active
<1>2. NoRequest("deleted").status = "deleted"
  BY DEF NoRequest
<1>3. \A r \in Requests : Active(r) /\ request[r].session \in S => RequestFree(r)
  BY <1>1 DEF CascadeFrom
<1>4. \A r \in Requests :
        \/ request'[r] = request[r] /\ ~(Active(r) /\ request[r].session \in S)
        \/ Active(r) /\ request[r].session \in S /\ request'[r].status = "deleted"
  BY <1>1, <1>2 DEF CascadeFrom
<1>5. ASSUME NEW w \in Workers, Holding(w)
      PROVE  request'[job[w].request].status = "pending"
  BY <1>3, <1>4, <1>5, HeldPending DEF RequestFree, Holding
<1>6. QED
  BY <1>4, <1>5

LEMMA AddKeeps ==
  ASSUME HandoverInv, NEW t \in Teachers, NEW slot \in Slots, AddSession(t, slot)
  PROVE  HandoverInv'
<1>1. AtOnce("add") /\ UNCHANGED <<now, request, moved>>
  BY DEF AddSession
<1>2. TypeOK /\ TypeOK' /\ HeldIsOpen /\ PlanHasCohort /\ RowsRefer
  BY SessionTypes DEF HandoverInv, SessionStep
<1>3. PICK n \in Sessions : session[n].status = "absent" /\ session' = [session EXCEPT ![n] = NewSession(t, slot)]
  BY DEF AddSession, LowestOf, Unused
<1>4. Live' = Live \cup {n} /\ n \notin Live
  BY <1>2, <1>3 DEF Live, NewSession, TypeOK
<1>5. RowsRefer'
  BY <1>1, <1>2, <1>3, <1>4 DEF RowsRefer, NewSession, Active, TypeOK
<1>6. KeepsRows
  BY <1>1, <1>2, <1>3, <1>4 DEF KeepsRows, Active, TypeOK
<1>7. KeepsJobs
  BY <1>1, <1>2, HeldPending, JobsAtOnce
<1>8. QED
  BY <1>1, <1>2, <1>5, <1>6, <1>7, AtOnceFresh, KeepsStep

LEMMA EditKeeps ==
  ASSUME HandoverInv, NEW s \in Sessions, NEW slot \in Slots, EditSession(s, slot)
  PROVE  HandoverInv'
<1>1. AtOnce("edit") /\ UNCHANGED <<now, request>> /\ moved' = moved \cup {s}
  BY DEF EditSession
<1>2. TypeOK /\ TypeOK' /\ HeldIsOpen /\ PlanHasCohort /\ RowsRefer
  BY SessionTypes DEF HandoverInv, SessionStep
<1>3. s \in Live /\ session' = [session EXCEPT ![s].slot = slot]
  BY DEF EditSession
<1>4. Live' = Live
  BY <1>2, <1>3 DEF Live, TypeOK, SessionRows
<1>5. RowsRefer'
  BY <1>1, <1>2, <1>3, <1>4 DEF RowsRefer, Active, TypeOK, SessionRows
<1>6. KeepsRows
  BY <1>1, <1>2, <1>3, <1>4 DEF KeepsRows, Active, TypeOK
<1>7. KeepsJobs
  BY <1>1, <1>2, HeldPending, JobsAtOnce
<1>8. QED
  BY <1>1, <1>2, <1>5, <1>6, <1>7, AtOnceFresh, KeepsStep

LEMMA DeleteKeeps ==
  ASSUME HandoverInv, NEW s \in Sessions, DeleteSession(s)
  PROVE  HandoverInv'
<1>1. AtOnce("delete") /\ UNCHANGED <<now, moved>> /\ CascadeFrom({s})
  BY DEF DeleteSession
<1>2. TypeOK /\ TypeOK' /\ HeldIsOpen /\ PlanHasCohort /\ RowsRefer
  BY SessionTypes DEF HandoverInv, SessionStep
<1>3. session' = [session EXCEPT ![s] = NoSession("deleted")] /\ NoSession("deleted").status = "deleted"
  BY DEF DeleteSession, NoSession
<1>4. Live' = Live \ {s}
  BY <1>2, <1>3 DEF Live, TypeOK
<1>5. /\ \A r \in Requests : Active(r)' =>
           Active(r) /\ request'[r] = request[r] /\ request[r].session # s
      /\ \A r \in Requests : request'[r] = request[r] \/ request'[r].status = "deleted"
      /\ \A w \in Workers : Holding(w) => request'[job[w].request].status = "pending"
  BY <1>1, <1>2, CascadeRows DEF Active
<1>6. RowsRefer'
  BY <1>2, <1>3, <1>4, <1>5 DEF RowsRefer, TypeOK
<1>7. KeepsRows
  BY <1>1, <1>2, <1>3, <1>4, <1>5 DEF KeepsRows, TypeOK
<1>8. KeepsJobs
  BY <1>1, <1>2, <1>5, JobsAtOnce
<1>9. QED
  BY <1>1, <1>2, <1>6, <1>7, <1>8, AtOnceFresh, KeepsStep

\* What a plan does to a session's row.
LEMMA LaidOutRows ==
  ASSUME TypeOK, NEW p \in Layouts, NEW ids \in [p.create -> Unused], session' = LaidOut(p, ids),
         NEW s \in Sessions, s \notin p.move
  PROVE  \/ s \in p.remove /\ session'[s].status = "deleted"
         \/ /\ s \notin p.remove /\ session[s].status = "absent"
            /\ \E slot \in p.create : session'[s] = NewSession(p.cohort, slot)
         \/ s \notin p.remove /\ session'[s] = session[s]
<1>1. CASE s \in p.remove
  BY <1>1 DEF LaidOut, NoSession
<1>2. CASE s \notin p.remove /\ \E slot \in p.create : ids[slot] = s
  <2> DEFINE slot == CHOOSE slot \in p.create : ids[slot] = s
  <2>1. slot \in p.create /\ ids[slot] = s
    BY <1>2
  <2>2. session[s].status = "absent"
    BY <2>1 DEF Unused
  <2>3. session'[s] = NewSession(p.cohort, slot)
    BY <1>2 DEF LaidOut
  <2>4. QED
    BY <1>2, <2>1, <2>2, <2>3
<1>3. CASE s \notin p.remove /\ ~\E slot \in p.create : ids[slot] = s
  BY <1>3 DEF LaidOut
<1>4. QED
  BY <1>1, <1>2, <1>3

LEMMA LayoutKeeps ==
  ASSUME HandoverInv, NEW w \in Workers, Layout(w)
  PROVE  HandoverInv'
<1> DEFINE p == job[w].layout
<1>1. Become(w, Idle) /\ UNCHANGED now
  BY DEF Layout, Finish
<1>2. TypeOK /\ TypeOK' /\ HeldIsOpen /\ PlanHasCohort /\ RowsRefer /\ p \in Layouts
  BY LayoutTypes DEF HandoverInv, TypeOK, Jobs
<1>3. PlanIsFresh'
  BY <1>1, <1>2, IdleType, BecomeAlone DEF TypeOK
<1>4. CASE LayoutRefused(p)
  <2>1. UNCHANGED <<session, request, moved>>
    BY <1>4 DEF Layout
  <2>2. RowsRefer'
    BY <1>2, <2>1 DEF RowsRefer, Live, Active
  <2>3. KeepsRows
    BY <1>1, <1>2, <2>1 DEF KeepsRows, Active, TypeOK
  <2>4. KeepsJobs
    BY <1>1, <1>2, <2>1, HeldPending, IdleType, JobsOfOthers
  <2>5. QED
    BY <1>2, <1>3, <2>2, <2>3, <2>4, KeepsStep
<1>5. CASE ~LayoutRefused(p)
  <2>1. PICK ids \in [p.create -> Unused] : session' = LaidOut(p, ids)
    BY <1>5 DEF Layout
  <2>2. CascadeFrom(p.remove) /\ moved' = moved \cup p.move
    BY <1>5 DEF Layout
  <2>3. \A s \in p.move : s \in Live /\ s \in Live' /\ session'[s].cohort = session[s].cohort /\ session'[s].slot \in Slots
    BY <1>2, <1>5, <2>1, LaidOutType DEF LayoutRefused, Live
  <2>4. \A s \in Sessions \ p.move : s \in Live' =>
          /\ s \notin p.remove
          /\ \/ session'[s] = session[s] /\ s \in Live
             \/ s \notin Live /\ session'[s].cohort \in Teachers /\ session'[s].slot \in Slots
    <3>1. SUFFICES ASSUME NEW s \in Sessions, s \notin p.move, s \in Live'
                   PROVE  /\ s \notin p.remove
                          /\ \/ session'[s] = session[s] /\ s \in Live
                             \/ s \notin Live /\ session'[s].cohort \in Teachers /\ session'[s].slot \in Slots
      OBVIOUS
    <3>2. session'[s].status = "live" /\ p.cohort \in Teachers /\ p.create \subseteq Slots
      BY <1>2, <3>1 DEF Live, PlanHasCohort, Layouts, Layout
    <3>3. \/ s \in p.remove /\ session'[s].status = "deleted"
          \/ /\ s \notin p.remove /\ session[s].status = "absent"
             /\ \E slot \in p.create : session'[s] = NewSession(p.cohort, slot)
          \/ s \notin p.remove /\ session'[s] = session[s]
      BY <1>2, <2>1, <3>1, LaidOutRows
    <3>4. CASE session'[s] = session[s] /\ s \notin p.remove
      BY <3>2, <3>4 DEF Live
    <3>5. CASE \E slot \in p.create : session'[s] = NewSession(p.cohort, slot)
      <4>1. PICK slot \in p.create : session'[s] = NewSession(p.cohort, slot)
        BY <3>5
      <4>2. session'[s].cohort \in Teachers /\ session'[s].slot \in Slots
        BY <3>2, <4>1 DEF NewSession
      <4>3. QED
        BY <3>2, <3>3, <4>2 DEF Live
    <3>6. QED
      BY <3>2, <3>3, <3>4, <3>5
  <2>5. \A s \in Live : s \in Live' \/ s \in p.remove
    BY <1>2, <2>1, <2>3, LaidOutRows DEF Live
  <2>6. /\ \A r \in Requests : Active(r)' =>
             Active(r) /\ request'[r] = request[r] /\ request[r].session \notin p.remove
        /\ \A r \in Requests : request'[r] = request[r] \/ request'[r].status = "deleted"
        /\ \A v \in Workers : Holding(v) => request'[job[v].request].status = "pending"
    BY <1>2, <2>2, CascadeRows DEF Active
  <2>7. RowsRefer'
    <3>1. \A s \in Live' : session'[s].cohort \in Teachers /\ session'[s].slot \in Slots
      BY <1>2, <2>3, <2>4 DEF RowsRefer, Live
    <3>2. \A r \in Requests : Active(r)' => request'[r].session \in Live'
      BY <1>2, <2>5, <2>6 DEF RowsRefer
    <3>3. QED
      BY <3>1, <3>2 DEF RowsRefer
  <2>8. \A s \in Live : s \in Live' => s \in moved' \/ session'[s] = session[s]
    BY <2>2, <2>4 DEF Live
  <2>9. KeepsRows
    BY <1>1, <1>2, <2>2, <2>6, <2>8 DEF KeepsRows, TypeOK
  <2>10. KeepsJobs
    BY <1>1, <1>2, <2>6, IdleType, JobsOfOthers
  <2>11. QED
    BY <1>2, <1>3, <2>7, <2>9, <2>10, KeepsStep
<1>6. QED
  BY <1>4, <1>5

LEMMA TickKeeps ==
  ASSUME HandoverInv, Tick
  PROVE  HandoverInv'
<1>1. UNCHANGED <<session, request, job, moved, overlapped>> /\ now' = now + 1
  BY DEF Tick
<1>2. TypeOK /\ TypeOK' /\ HeldIsOpen /\ PlanHasCohort /\ RowsRefer
  BY TickTypes DEF HandoverInv
<1>3. RowsRefer'
  BY <1>1, <1>2 DEF RowsRefer, Live, Active
<1>4. PlanIsFresh'
  BY <1>1 DEF HandoverInv, PlanIsFresh, At, Of, With
<1>5. KeepsRows
  BY <1>1, <1>2 DEF KeepsRows, Active, TypeOK
<1>6. KeepsJobs
  BY <1>1, <1>2, HeldPending DEF KeepsJobs, Holding, PlanHasCohort, At
<1>7. QED
  BY <1>2, <1>3, <1>4, <1>5, <1>6, KeepsStep

LEMMA BeginExpireKeeps ==
  ASSUME HandoverInv, NEW w \in Workers, NEW t \in Teachers, BeginExpire(w, t)
  PROVE  HandoverInv'
<1> DEFINE started == {r \in With("pending") :
             t \in {request[r].sender, request[r].recipient} /\ HasStarted(session[request[r].session].slot)}
           j == [Idle EXCEPT !.step = "expire", !.expire = started]
<1>1. Become(w, j) /\ UNCHANGED <<now, session, request, moved>>
  BY DEF BeginExpire, Start
<1>2. TypeOK /\ TypeOK' /\ HeldIsOpen /\ PlanHasCohort /\ RowsRefer
  BY BeginExpireTypes DEF HandoverInv
<1>3. j.step = "expire" /\ j.expire = started
  BY DEF Idle
<1>4. PlanIsFresh'
  <2>1. /\ job'[w] = j /\ \A v \in Workers \ {w} : job'[v] = job[v]
        /\ started \subseteq With("pending") /\ With("pending")' = With("pending")
    BY <1>1, <1>2 DEF Become, TypeOK, With
  <2>2. ~overlapped' => \A v \in Workers \ {w} : At(v, "idle")'
    BY <1>1, <2>1 DEF Become, Interleaved, At
  <2>3. QED
    BY <1>3, <2>1, <2>2 DEF PlanIsFresh, At
<1>5. RowsRefer'
  BY <1>1, <1>2 DEF RowsRefer, Live, Active
<1>6. KeepsRows
  BY <1>1, <1>2 DEF KeepsRows, Active, TypeOK
<1>7. DueOf(w)'
  BY <1>1, <1>2, <1>3 DEF Become, DueOf, With, TypeOK, HasStarted
<1>8. KeepsJobs
  BY <1>1, <1>2, <1>3, <1>7, HeldPending, JobsOfOthers
<1>9. QED
  BY <1>2, <1>4, <1>5, <1>6, <1>8, KeepsStep

LEMMA GenerateKeeps ==
  ASSUME HandoverInv, NEW w \in Workers, NEW t \in Teachers, NEW days \in SUBSET Days,
         NEW start \in 0..PerDay - 1, NEW marked \in SUBSET Sessions, NEW re \in BOOLEAN,
         BeginGenerate(w, t, days, start, marked, re)
  PROVE  HandoverInv'
<1> TypeOK
  BY DEF HandoverInv
<1>1. TypeOK' /\ HeldIsOpen /\ PlanHasCohort /\ RowsRefer
  BY GenerateTypes DEF HandoverInv
<1>2. PICK p \in Layouts :
        /\ Become(w, LayoutJob(p)) /\ p.cohort = t
        /\ \A s \in p.move \cup p.remove : s \in Live /\ Of(s) = {}
  BY GeneratePlan
<1>3. UNCHANGED <<now, session, request, moved>>
  BY DEF BeginGenerate
<1>4. LayoutJob(p).step = "layout" /\ LayoutJob(p).layout = p
  BY DEF LayoutJob, Idle
<1>5. \A v \in Workers : IF v = w THEN job'[v] = LayoutJob(p) ELSE job'[v] = job[v]
  BY <1>1, <1>2 DEF Become, TypeOK
<1>6. RowsRefer'
  BY <1>1, <1>3 DEF RowsRefer, Live, Active
<1>7. PlanIsFresh'
  <2>1. SUFFICES ASSUME ~overlapped' PROVE PlanIsFresh'
    BY DEF PlanIsFresh
  <2>2. \A v \in Workers \ {w} : At(v, "idle") /\ At(v, "idle")'
    BY <1>2, <1>5, <2>1 DEF Become, Interleaved, At
  <2>3. \A s \in p.move \cup p.remove : (Of(s) = {})'
    BY <1>2, <1>3 DEF Of
  <2>4. QED
    BY <1>4, <1>5, <2>2, <2>3 DEF PlanIsFresh, At
<1>8. KeepsRows
  BY <1>1, <1>3 DEF KeepsRows, Active, TypeOK
<1>9. \A v \in Workers : Holding(v) => request'[job[v].request].status = "pending"
  BY <1>1, <1>3, HeldPending
<1>10. KeepsJobs
  BY <1>1, <1>2, <1>4, <1>9, JobsOfOthers
<1>11. QED
  BY <1>1, <1>6, <1>7, <1>8, <1>10, KeepsStep

LEMMA AcceptKeeps ==
  ASSUME HandoverInv, NEW w \in Workers, NEW r \in Requests, BeginAccept(w, r)
  PROVE  HandoverInv'
<1> DEFINE s == request[r].session
           j == [Idle EXCEPT !.step = "clash", !.request = r, !.session = s,
                             !.teacher = request[r].recipient, !.slot = session[s].slot]
<1>1. Become(w, j) /\ UNCHANGED <<now, session, request, moved>>
  BY DEF BeginAccept, Start
<1>2. r \in With("pending") /\ RequestFree(r)
  BY DEF BeginAccept, Open
<1>3. TypeOK /\ TypeOK'
  BY AcceptTypes DEF HandoverInv
<1>4. /\ j.step = "clash" /\ j.request = r /\ j.session = s
      /\ j.teacher = request[r].recipient /\ j.slot = session[s].slot
  BY DEF Idle
<1>5. PlanIsFresh'
  BY <1>1, <1>3, <1>4, BecomeAlone DEF TypeOK
<1>6. job'[w] = j /\ \A v \in Workers \ {w} : job'[v] = job[v]
  BY <1>1, <1>3 DEF Become, TypeOK
<1>7. RowsRefer' /\ AcceptedOnce' /\ CoveredOnce'
  BY <1>1 DEF HandoverInv, RowsRefer, AcceptedOnce, CoveredOnce, Live, Active, With, Overlaps, Day
<1>8. HeldIsOpen'
  <2>1. ASSUME NEW v \in Workers, Holding(v)'
        PROVE  /\ job'[v].request \in With("pending")
               /\ request[job'[v].request].session = job'[v].session
               /\ request[job'[v].request].recipient = job'[v].teacher
               /\ job'[v].session \in moved \/ session[job'[v].session].slot = job'[v].slot
    <3>1. CASE v = w
      BY <1>2, <1>4, <1>6, <3>1
    <3>2. CASE v # w
      BY <1>6, <2>1, <3>2 DEF HandoverInv, HeldIsOpen, Holding
    <3>3. QED
      BY <3>1, <3>2
  <2>2. QED
    BY <1>1, <2>1 DEF HeldIsOpen, With
<1>9. HeldByOne'
  <2>1. ASSUME NEW u \in Workers, NEW v \in Workers, u # v, Holding(u)', Holding(v)'
        PROVE  /\ job'[u].request # job'[v].request
               /\ At(u, "book")' /\ At(v, "book")' => job'[u].teacher # job'[v].teacher
    <3>1. \A x \in Workers \ {w} : Holding(x)' => Holding(x) /\ job[x].request # r
      BY <1>2, <1>6 DEF Holding, RequestFree
    <3>2. job'[w].request = r /\ ~At(w, "book")'
      BY <1>4, <1>6 DEF At
    <3>3. CASE u = w \/ v = w
      BY <1>6, <2>1, <3>1, <3>2, <3>3
    <3>4. CASE u # w /\ v # w
      BY <1>6, <2>1, <3>1, <3>4 DEF HandoverInv, HeldByOne, At
    <3>5. QED
      BY <3>3, <3>4
  <2>2. QED
    BY <2>1 DEF HeldByOne
<1>10. BookIsClear'
  <2>1. ASSUME NEW v \in Workers, At(v, "book")'
        PROVE  v # w /\ At(v, "book") /\ job'[v] = job[v]
    BY <1>4, <1>6, <2>1 DEF At
  <2>2. QED
    BY <1>1, <2>1 DEF HandoverInv, BookIsClear, With, Overlaps, Day
<1>11. ExpiryIsDue' /\ PlanHasCohort'
  BY <1>1, <1>4, <1>6 DEF HandoverInv, ExpiryIsDue, DueOf, PlanHasCohort, At, Active, HasStarted
<1>12. QED
  BY <1>3, <1>5, <1>7, <1>8, <1>9, <1>10, <1>11 DEF HandoverInv

\* The other sessions of a teacher found free do not overlap the handed-over one.
LEMMA NoClash ==
  ASSUME HandoverInv, NEW w \in Workers, At(w, "clash"),
         ~Clashes(job[w].teacher, job[w].session, job[w].slot),
         NEW q \in With("accepted"), request[q].recipient = job[w].teacher,
         request[q].session # job[w].session, job[w].session \notin moved
  PROVE  ~Overlaps(session[request[q].session].slot, session[job[w].session].slot)
<1>1. request[q].session \in Live
  BY DEF HandoverInv, RowsRefer, Active, With
<1>2. session[job[w].session].slot = job[w].slot
  BY DEF HandoverInv, HeldIsOpen, Holding, At
<1>3. ~Overlaps(session[request[q].session].slot, job[w].slot)
  BY <1>1 DEF Clashes
<1>4. QED
  BY <1>2, <1>3

LEMMA ClashKeeps ==
  ASSUME HandoverInv, NEW w \in Workers, Clash(w)
  PROVE  HandoverInv'
<1>1. TypeOK /\ TypeOK' /\ HeldIsOpen /\ PlanHasCohort /\ RowsRefer
  BY ClashTypes DEF HandoverInv
<1>2. UNCHANGED <<now, session, request, moved>> /\ At(w, "clash") /\ TeacherFree(job[w].teacher)
  BY DEF Clash
<1>3. RowsRefer' /\ AcceptedOnce' /\ CoveredOnce'
  BY <1>2 DEF HandoverInv, RowsRefer, AcceptedOnce, CoveredOnce, Live, Active, With, Overlaps, Day
<1>4. CASE Clashes(job[w].teacher, job[w].session, job[w].slot)
  <2>1. Become(w, Idle)
    BY <1>4 DEF Clash, Finish
  <2>2. PlanIsFresh'
    BY <1>1, <2>1, IdleType, BecomeAlone DEF TypeOK
  <2>3. KeepsRows
    BY <1>1, <1>2 DEF KeepsRows, Active, TypeOK
  <2>4. KeepsJobs
    BY <1>1, <1>2, <2>1, HeldPending, IdleType, JobsOfOthers
  <2>5. QED
    BY <1>1, <1>3, <2>2, <2>3, <2>4, KeepsStep
<1>5. CASE ~Clashes(job[w].teacher, job[w].session, job[w].slot)
  <2> DEFINE j == [job[w] EXCEPT !.step = "book"]
  <2>1. Become(w, j)
    BY <1>5 DEF Clash
  <2>2. /\ j.step = "book" /\ j.request = job[w].request /\ j.session = job[w].session
        /\ j.teacher = job[w].teacher /\ j.slot = job[w].slot
    BY <1>1 DEF TypeOK, Jobs
  <2>3. PlanIsFresh'
    BY <1>1, <2>1, <2>2, BecomeAlone DEF TypeOK
  <2>4. job'[w] = j /\ \A v \in Workers \ {w} : job'[v] = job[v]
    BY <1>1, <2>1 DEF Become, TypeOK
  <2>5. HeldIsOpen'
    <3>1. ASSUME NEW v \in Workers, Holding(v)'
          PROVE  /\ Holding(v) /\ job'[v].request = job[v].request /\ job'[v].session = job[v].session
                 /\ job'[v].teacher = job[v].teacher /\ job'[v].slot = job[v].slot
      <4>1. CASE v = w
        BY <1>2, <2>2, <2>4, <4>1 DEF Holding, At
      <4>2. CASE v # w
        BY <2>4, <3>1, <4>2 DEF Holding
      <4>3. QED
        BY <4>1, <4>2
    <3>2. QED
      BY <1>1, <1>2, <3>1 DEF HeldIsOpen, With
  <2>6. HeldByOne'
    <3>1. \A x \in Workers : Holding(x)' =>
             Holding(x) /\ job'[x].request = job[x].request /\ job'[x].teacher = job[x].teacher
      BY <1>2, <2>2, <2>4 DEF Holding, At
    <3>2. \A x \in Workers \ {w} : At(x, "book")' => At(x, "book") /\ job[x].teacher # job[w].teacher
      BY <1>2, <2>4 DEF At, TeacherFree
    <3>3. ASSUME NEW u \in Workers, NEW v \in Workers, u # v, Holding(u)', Holding(v)'
          PROVE  /\ job'[u].request # job'[v].request
                 /\ At(u, "book")' /\ At(v, "book")' => job'[u].teacher # job'[v].teacher
      <4>1. job[u].request # job[v].request
        BY <3>1, <3>3 DEF HandoverInv, HeldByOne
      <4>2. ASSUME At(u, "book")', At(v, "book")'
            PROVE  job[u].teacher # job[v].teacher
        BY <3>1, <3>2, <3>3, <4>2 DEF HandoverInv, HeldByOne
      <4>3. QED
        BY <3>1, <3>3, <4>1, <4>2
    <3>4. QED
      BY <3>3 DEF HeldByOne
  <2>7. BookIsClear'
    <3>1. ASSUME NEW v \in Workers, NEW q \in With("accepted"), At(v, "book")',
                 request[q].recipient = job'[v].teacher,
                 {request[q].session, job'[v].session} \cap moved = {}, request[q].session # job'[v].session
          PROVE  ~Overlaps(session[request[q].session].slot, session[job'[v].session].slot)
      <4>1. CASE v = w
        <5>1. job'[v].session = job[w].session /\ job'[v].teacher = job[w].teacher
          BY <2>2, <2>4, <4>1
        <5>2. QED
          BY <1>2, <1>5, <3>1, <5>1, NoClash
      <4>2. CASE v # w
        BY <2>4, <3>1, <4>2 DEF HandoverInv, BookIsClear, At
      <4>3. QED
        BY <4>1, <4>2
    <3>2. QED
      BY <1>2, <3>1 DEF BookIsClear, With, Overlaps, Day
  <2>8. ExpiryIsDue' /\ PlanHasCohort'
    <3>1. ASSUME NEW v \in Workers, At(v, "expire")' \/ At(v, "layout")'
          PROVE  v # w /\ job'[v] = job[v]
      BY <2>2, <2>4, <3>1 DEF At
    <3>2. PlanHasCohort'
      BY <3>1 DEF HandoverInv, PlanHasCohort, At
    <3>3. ExpiryIsDue'
      BY <1>2, <3>1 DEF HandoverInv, ExpiryIsDue, DueOf, At, Active, HasStarted
    <3>4. QED
      BY <3>2, <3>3
  <2>9. QED
    BY <1>1, <1>3, <2>3, <2>5, <2>6, <2>7, <2>8 DEF HandoverInv
<1>6. QED
  BY <1>4, <1>5

LEMMA BookKeeps ==
  ASSUME HandoverInv, NEW w \in Workers, Book(w)
  PROVE  HandoverInv'
<1> DEFINE r == job[w].request  s == job[w].session
<1>1. TypeOK /\ TypeOK' /\ HeldIsOpen /\ PlanHasCohort /\ RowsRefer
  BY BookTypes DEF HandoverInv
<1>2. Become(w, Idle) /\ UNCHANGED <<now, session, moved>> /\ At(w, "book") /\ Holding(w)
  BY DEF Book, Finish, At, Holding
<1>3. /\ r \in Requests /\ request[r].status = "pending" /\ request[r].session = s
      /\ request[r].recipient = job[w].teacher
  BY <1>1, <1>2 DEF HeldIsOpen, With
<1>4. PlanIsFresh'
  BY <1>1, <1>2, IdleType, BecomeAlone DEF TypeOK
<1>5. job'[w] = Idle /\ \A v \in Workers \ {w} : job'[v] = job[v]
  BY <1>1, <1>2 DEF Become, TypeOK
<1>6. CASE UNCHANGED request
  <2>1. RowsRefer'
    BY <1>1, <1>2, <1>6 DEF RowsRefer, Live, Active
  <2>2. KeepsRows
    BY <1>1, <1>2, <1>6 DEF KeepsRows, Active, TypeOK
  <2>3. KeepsJobs
    BY <1>1, <1>2, <1>6, HeldPending, IdleType, JobsOfOthers
  <2>4. QED
    BY <1>1, <1>4, <2>1, <2>2, <2>3, KeepsStep
<1>7. CASE Of(s) \cap With("accepted") = {} /\ Resolve(r, "accepted")
  <2>1. /\ request'[r].status = "accepted" /\ request'[r].session = s
        /\ request'[r].recipient = job[w].teacher
        /\ \A q \in Requests \ {r} : request'[q] = request[q]
    BY <1>1, <1>3, <1>7 DEF Resolve, TypeOK, RequestRows
  <2>2. With("accepted")' = With("accepted") \cup {r}
    BY <1>3, <2>1 DEF With
  <2>3. \A q \in With("accepted") : q \in Requests \ {r} /\ request[q].session # s
    BY <1>3, <1>7 DEF With, Of
  <2>4. \A q \in Requests : Active(q)' => Active(q) /\ request'[q].session = request[q].session
                                        /\ request'[q].recipient = request[q].recipient
    BY <1>3, <2>1 DEF Active
  <2>5. RowsRefer'
    BY <1>1, <1>2, <2>4 DEF RowsRefer, Live
  <2>6. AcceptedOnce'
    BY <2>1, <2>2, <2>3 DEF HandoverInv, AcceptedOnce
  <2>7. CoveredOnce'
    <3>1. ASSUME NEW q \in With("accepted"), request[q].recipient = job[w].teacher,
                 {request[q].session, s} \cap moved = {}
          PROVE  ~Overlaps(session[request[q].session].slot, session[s].slot)
      BY <1>2, <2>3, <3>1 DEF HandoverInv, BookIsClear
    <3>2. ASSUME NEW q \in With("accepted")', NEW o \in With("accepted")', q # o,
                 request'[q].recipient = request'[o].recipient,
                 {request'[q].session, request'[o].session} \cap moved = {}
          PROVE  ~Overlaps(session[request'[q].session].slot, session[request'[o].session].slot)
      <4>1. CASE q = r
        BY <2>1, <2>2, <2>3, <3>1, <3>2, <4>1, OverlapsSymmetric
      <4>2. CASE o = r
        BY <2>1, <2>2, <2>3, <3>1, <3>2, <4>2
      <4>3. CASE q # r /\ o # r
        BY <2>1, <2>2, <2>3, <3>2, <4>3 DEF HandoverInv, CoveredOnce
      <4>4. QED
        BY <4>1, <4>2, <4>3
    <3>3. QED
      BY <1>2, <3>2 DEF CoveredOnce, Overlaps, Day
  <2>8. \A v \in Workers : Holding(v)' =>
          /\ v # w /\ Holding(v) /\ job'[v] = job[v] /\ job[v].request # r
          /\ At(v, "book")' => At(v, "book") /\ job[v].teacher # job[w].teacher
    BY <1>2, <1>5, IdleType DEF HandoverInv, HeldByOne, Holding, At
  <2>9. HeldIsOpen'
    <3>1. ASSUME NEW v \in Workers, Holding(v)'
          PROVE  /\ job'[v].request \in With("pending")'
                 /\ request'[job'[v].request].session = job'[v].session
                 /\ request'[job'[v].request].recipient = job'[v].teacher
                 /\ job'[v].session \in moved \/ session[job'[v].session].slot = job'[v].slot
      <4>1. Holding(v) /\ job'[v] = job[v] /\ job[v].request # r
        BY <2>8, <3>1
      <4>2. job[v].request \in Requests /\ request'[job[v].request] = request[job[v].request]
        BY <2>1, <4>1, HeldPending, <1>1
      <4>3. QED
        BY <1>1, <4>1, <4>2 DEF HeldIsOpen, With
    <3>2. QED
      BY <1>2, <3>1 DEF HeldIsOpen
  <2>10. HeldByOne'
    BY <2>8 DEF HandoverInv, HeldByOne
  <2>11. BookIsClear'
    <3>1. ASSUME NEW v \in Workers, NEW q \in With("accepted")', At(v, "book")',
                 request'[q].recipient = job'[v].teacher,
                 {request'[q].session, job'[v].session} \cap moved = {}, request'[q].session # job'[v].session
          PROVE  ~Overlaps(session[request'[q].session].slot, session[job'[v].session].slot)
      <4>1. job'[v] = job[v] /\ At(v, "book") /\ job[v].teacher # job[w].teacher
        BY <2>8, <3>1 DEF Holding, At
      <4>2. q \in With("accepted") /\ request'[q] = request[q]
        BY <2>1, <2>2, <2>3, <3>1, <4>1
      <4>3. QED
        BY <3>1, <4>1, <4>2 DEF HandoverInv, BookIsClear
    <3>2. QED
      BY <1>2, <3>1 DEF BookIsClear, Overlaps, Day
  <2>12. ExpiryIsDue'
    <3>1. ASSUME NEW v \in Workers, At(v, "expire")', NEW q \in job'[v].expire
          PROVE  /\ request'[q].status # "absent"
                 /\ Active(q)' => request'[q].session \in moved \/ HasStarted(session[request'[q].session].slot)
      <4>1. v # w /\ At(v, "expire") /\ q \in job[v].expire /\ q \in Requests
        BY <1>1, <1>5, <3>1, IdleType DEF At, TypeOK, Jobs
      <4>2. /\ request[q].status # "absent"
            /\ Active(q) => request[q].session \in moved \/ HasStarted(session[request[q].session].slot)
        BY <4>1 DEF HandoverInv, ExpiryIsDue, DueOf
      <4>3. QED
        BY <2>1, <2>4, <4>1, <4>2
    <3>2. QED
      BY <1>2, <3>1 DEF ExpiryIsDue, DueOf, HasStarted
  <2>13. PlanHasCohort'
    BY <1>1, <1>5, IdleType DEF PlanHasCohort, At
  <2>14. QED
    BY <1>1, <1>4, <2>5, <2>6, <2>7, <2>9, <2>10, <2>11, <2>12, <2>13 DEF HandoverInv
<1>8. QED
  BY <1>6, <1>7 DEF Book

-----------------------------------------------------------------------------
(* The theorems.                                                           *)

LEMMA HandoverInit == Init => HandoverInv
<1> SUFFICES ASSUME Init PROVE HandoverInv
  OBVIOUS
<1>1. now \in 0..NumDays * PerDay
  BY HandoverAssumption DEF Init
<1>2. /\ \A w \in Workers : job[w].step = "idle"
      /\ \A r \in Requests : request[r].status = "absent"
      /\ \A s \in Sessions : session[s].status = "absent"
  BY IdleType DEF Init, NoRequest, NoSession
<1>3. TypeOK
  BY <1>1, IdleType, RowTypes DEF Init, TypeOK, Statuses
<1>4. RowsRefer /\ HeldIsOpen /\ HeldByOne /\ AcceptedOnce /\ PlanIsFresh /\ CoveredOnce
  BY <1>2 DEF RowsRefer, HeldIsOpen, HeldByOne, AcceptedOnce, PlanIsFresh, CoveredOnce,
              Live, Active, Holding, With, At
<1>5. BookIsClear /\ ExpiryIsDue /\ PlanHasCohort
  BY <1>2 DEF BookIsClear, ExpiryIsDue, PlanHasCohort, With, At
<1>6. QED
  BY <1>3, <1>4, <1>5 DEF HandoverInv

LEMMA HandoverStep == HandoverInv /\ [Next]_vars => HandoverInv'
<1> SUFFICES ASSUME HandoverInv, [Next]_vars PROVE HandoverInv'
  OBVIOUS
<1>1. CASE Tick
  BY <1>1, TickKeeps
<1>2. CASE DecisionStep
  BY <1>2, DecideKeeps, AcceptKeeps DEF DecisionStep
<1>3. CASE SessionStep
  BY <1>3, AddKeeps, EditKeeps, DeleteKeeps DEF SessionStep
<1>4. ASSUME NEW w \in Workers, WorkerStep(w)
      PROVE  HandoverInv'
  <2>1. CASE \E s \in Sessions, t \in Teachers : BeginCreate(w, s, t)
    BY <2>1, CreateKeeps
  <2>2. CASE \E t \in Teachers : BeginExpire(w, t)
    BY <2>2, BeginExpireKeeps
  <2>3. CASE \E t \in Teachers, days \in SUBSET Days, start \in 0..PerDay - 1, re \in BOOLEAN :
               \E marked \in IF re THEN SUBSET Live ELSE {{}} : BeginGenerate(w, t, days, start, marked, re)
    <3>1. PICK t \in Teachers, days \in SUBSET Days, start \in 0..PerDay - 1, re \in BOOLEAN :
                 \E marked \in IF re THEN SUBSET Live ELSE {{}} : BeginGenerate(w, t, days, start, marked, re)
      BY <2>3
    <3>2. PICK marked \in SUBSET Sessions : BeginGenerate(w, t, days, start, marked, re)
      BY <3>1 DEF Live
    <3>3. QED
      BY <3>2, GenerateKeeps
  <2>4. CASE Send(w) \/ Clash(w) \/ Book(w) \/ Expire(w) \/ Layout(w)
    BY <2>4, SendKeeps, ClashKeeps, BookKeeps, ExpireKeeps, LayoutKeeps
  <2>5. QED
    BY <1>4, <2>1, <2>2, <2>3, <2>4 DEF WorkerStep
<1>5. CASE UNCHANGED vars
  BY <1>5 DEF vars, HandoverInv, TypeOK, RowsRefer, HeldIsOpen, HeldByOne, AcceptedOnce, BookIsClear,
     ExpiryIsDue, DueOf, PlanHasCohort, PlanIsFresh, CoveredOnce, Live, Active, Holding, With, At, Of,
     HasStarted, Overlaps, Day
<1>6. QED
  BY <1>1, <1>2, <1>3, <1>4, <1>5 DEF Next

\* Every reachable state satisfies the inductive invariant: in particular the
\* two row locks of accept exclude, and a held request is still the one it read.
THEOREM HandoverInvariance == Spec => []HandoverInv
BY HandoverInit, HandoverStep, PTL DEF Spec

\* The tables and the requests in progress keep their shape.
THEOREM HandoverTypeCorrect == Spec => []TypeOK
<1>1. HandoverInv => TypeOK
  BY DEF HandoverInv
<1>2. QED
  BY <1>1, HandoverInvariance, PTL

\* accept: no teacher ever covers two sessions that overlap, however the threads
\* interleave, unless one of the sessions was moved afterwards.
THEOREM CoveredOnceAlways == Spec => []CoveredOnce
<1>1. HandoverInv => CoveredOnce
  BY DEF HandoverInv
<1>2. QED
  BY <1>1, HandoverInvariance, PTL

\* Beginning something changes no row.
LEMMA BeginsOnly ==
  ASSUME NEW w \in Workers,
         \/ \E s \in Sessions, t \in Teachers : BeginCreate(w, s, t)
         \/ \E t \in Teachers : BeginExpire(w, t)
         \/ \E t \in Teachers, days \in SUBSET Days, start \in 0..PerDay - 1, re \in BOOLEAN :
              \E marked \in IF re THEN SUBSET Live ELSE {{}} : BeginGenerate(w, t, days, start, marked, re)
  PROVE  UNCHANGED <<now, session, request, moved>>
<1>1. ASSUME NEW s, NEW t, BeginCreate(w, s, t)
      PROVE  UNCHANGED <<now, session, request, moved>>
  BY <1>1 DEF BeginCreate
<1>2. ASSUME NEW t, BeginExpire(w, t)
      PROVE  UNCHANGED <<now, session, request, moved>>
  BY <1>2 DEF BeginExpire
<1>3. ASSUME NEW t, NEW days, NEW start, NEW marked, NEW re, BeginGenerate(w, t, days, start, marked, re)
      PROVE  UNCHANGED <<now, session, request, moved>>
  BY <1>3 DEF BeginGenerate
<1>4. QED
  BY <1>1, <1>2, <1>3, Zenon

\* What one step does to a request that has been decided.
LEMMA DecidedStep ==
  ASSUME HandoverInv, [Next]_vars, NEW r \in Requests,
         request[r].status \in {"accepted", "rejected", "cancelled", "expired"}
  PROVE  \/ request'[r].status \in {request[r].status, "deleted"}
         \/ /\ overlapped' /\ request'[r].status = "expired"
            /\ HasStarted(session[request[r].session].slot) \/ request[r].session \in moved
<1>1. TypeOK /\ HeldIsOpen /\ Active(r)
  BY DEF HandoverInv, Active
<1>2. CASE Tick \/ UNCHANGED vars
  BY <1>2 DEF Tick, vars
<1>3. CASE DecisionStep
  BY <1>1, <1>3 DEF DecisionStep, OpenTooLate, Reject, Cancel, Open, BeginAccept, Resolve, With, TypeOK
<1>4. CASE SessionStep
  <2>1. UNCHANGED request \/ \E S : CascadeFrom(S)
    BY <1>4 DEF SessionStep, AddSession, EditSession, DeleteSession
  <2>2. QED
    BY <1>1, <2>1, CascadeRows
<1>5. ASSUME NEW w \in Workers, WorkerStep(w)
      PROVE  \/ request'[r].status \in {request[r].status, "deleted"}
             \/ /\ overlapped' /\ request'[r].status = "expired"
                /\ HasStarted(session[request[r].session].slot) \/ request[r].session \in moved
  <2>1. CASE Send(w)
    BY <1>1, <2>1 DEF Send, LowestOf, With, TypeOK
  <2>2. CASE Book(w)
    <3>1. job[w].request # r
      BY <1>1, <2>2, HeldPending DEF Book, Holding, At
    <3>2. request'[r] = request[r]
      BY <1>1, <2>2, <3>1 DEF Book, Resolve, TypeOK
    <3>3. QED
      BY <3>2
  <2>3. CASE Expire(w)
    <3>1. request'[r] = request[r] \/ (r \in job[w].expire /\ request'[r].status = "expired")
      BY <1>1, <2>3 DEF Expire, TypeOK, RequestRows
    <3>2. r \in job[w].expire => HasStarted(session[request[r].session].slot) \/ request[r].session \in moved
      BY <1>1, <2>3 DEF Expire, HandoverInv, ExpiryIsDue, DueOf
    <3>3. r \in job[w].expire => overlapped'
      BY <2>3 DEF Expire, Finish, Become, Interleaved, HandoverInv, PlanIsFresh, With
    <3>4. QED
      BY <3>1, <3>2, <3>3
  <2>4. CASE Layout(w)
    <3>1. UNCHANGED request \/ \E S : CascadeFrom(S)
      BY <2>4 DEF Layout
    <3>2. QED
      BY <1>1, <3>1, CascadeRows
  <2>5. CASE \/ \E s \in Sessions, t \in Teachers : BeginCreate(w, s, t)
             \/ \E t \in Teachers : BeginExpire(w, t)
             \/ \E t \in Teachers, days \in SUBSET Days, start \in 0..PerDay - 1, re \in BOOLEAN :
                  \E marked \in IF re THEN SUBSET Live ELSE {{}} : BeginGenerate(w, t, days, start, marked, re)
             \/ Clash(w)
    <3>1. UNCHANGED request
      BY <2>5, BeginsOnly DEF Clash
    <3>2. QED
      BY <3>1
  <2>6. QED
    BY <1>5, <2>1, <2>2, <2>3, <2>4, <2>5 DEF WorkerStep
<1>6. QED
  BY <1>2, <1>3, <1>4, <1>5 DEF Next

\* A decided request is never reopened nor decided again: one request at a time its
\* status is terminal, and under overlap only an expiry writes over it.
THEOREM DecisionStandsAlways == Spec => DecisionStands
<1>1. HandoverInv /\ [Next]_vars =>
        [\A r \in Requests :
           request[r].status \in {"accepted", "rejected", "cancelled", "expired"}
             => \/ request'[r].status \in {request[r].status, "deleted"}
                \/ /\ overlapped' /\ request'[r].status = "expired"
                   /\ HasStarted(session[request[r].session].slot) \/ request[r].session \in moved]_vars
  BY DecidedStep
<1>2. QED
  BY <1>1, HandoverInvariance, PTL DEF Spec, DecisionStands

\* While a plan waits and nothing else was done meanwhile, a session with a
\* request is not among those it moves or removes, nor one it creates.
LEMMA PinnedStep ==
  ASSUME HandoverInv, [Next]_vars, NEW w \in Workers, NEW s \in Sessions,
         ~overlapped', At(w, "layout"), Of(s) # {}
  PROVE  session'[s] = session[s]
<1>1. TypeOK /\ s \in Live
  <2>1. PICK r \in Requests : request[r].session = s /\ Active(r)
    BY DEF Of, Active
  <2>2. QED
    BY <2>1 DEF HandoverInv, RowsRefer
<1>2. ~At(w, "idle")
  BY DEF At
<1>3. \A op : ~AtOnce(op)
  BY <1>2, AtOnceAlone
<1>4. \A v \in Workers \ {w} : \A j : ~Become(v, j)
  BY <1>2 DEF Become, Interleaved
<1>5. CASE Layout(w)
  <2> DEFINE p == job[w].layout
  <2>1. p \in Layouts
    BY <1>1 DEF TypeOK, Jobs
  <2>2. ~overlapped
    BY <1>5 DEF Layout, Finish, Become, Interleaved
  <2>3. s \notin p.move \cup p.remove
    BY <2>2 DEF HandoverInv, PlanIsFresh
  <2>4. CASE UNCHANGED session
    BY <2>4
  <2>5. CASE \E ids \in [p.create -> Unused] : session' = LaidOut(p, ids)
    BY <1>1, <2>1, <2>3, <2>5, LaidOutRows DEF Live
  <2>6. QED
    BY <1>5, <2>4, <2>5 DEF Layout
<1>6. CASE UNCHANGED session
  BY <1>6
<1>7. Layout(w) \/ UNCHANGED session
  <2>1. CASE Tick \/ UNCHANGED vars
    BY <2>1 DEF Tick, vars
  <2>2. CASE DecisionStep
    BY <2>2 DEF DecisionStep, OpenTooLate, Reject, Cancel, BeginAccept
  <2>3. CASE SessionStep
    BY <1>3, <2>3 DEF SessionStep, AddSession, EditSession, DeleteSession
  <2>4. ASSUME NEW v \in Workers, WorkerStep(v)
        PROVE  Layout(w) \/ UNCHANGED session
    <3>1. CASE Layout(v)
      BY <1>4, <3>1 DEF Layout, Finish
    <3>2. CASE ~Layout(v)
      BY <2>4, <3>2, BeginsOnly DEF WorkerStep, Send, Clash, Book, Expire
    <3>3. QED
      BY <3>1, <3>2
  <2>5. QED
    BY <2>1, <2>2, <2>3, <2>4 DEF Next
<1>8. QED
  BY <1>5, <1>6, <1>7

\* generate_sessions: laying a timetable out again leaves every session with a
\* handover request as it is, while requests are served one at a time.
THEOREM HandoverPinsSessionAlways == Spec => HandoverPinsSession
<1>1. HandoverInv /\ [Next]_vars =>
        [\A w \in Workers, s \in Sessions :
           ~overlapped' /\ At(w, "layout") /\ Of(s) # {} => session'[s] = session[s]]_vars
  BY PinnedStep
<1>2. QED
  BY <1>1, HandoverInvariance, PTL DEF Spec, HandoverPinsSession
=============================================================================
