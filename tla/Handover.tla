------------------------------- MODULE Handover -------------------------------
(***************************************************************************)
(* Class sessions and their handover between teachers:                     *)
(* src/app/services/schedule_changes (send, accept, reject, cancel,        *)
(* expire) and src/app/services/attendance/{sessions,generate}.py (create, *)
(* edit, delete, lay out).  A request that reads and then writes under no  *)
(* lock is two steps here; one whose reads are all repeated by a lock or a *)
(* constraint is one.                                                      *)
(***************************************************************************)
EXTENDS Integers, FiniteSets

CONSTANTS
  Workers,     \* request threads
  Operations,  \* the requests served in a run
  Teachers,    \* each teaches one cohort, named by its teacher
  MaxSessions, \* rows of class_sessions that can be inserted
  MaxRequests, \* rows of schedule_change_requests that can be inserted
  NumDays,     \* days a session can be on
  PerDay,      \* start times of a day
  Length,      \* start times a session lasts
  None         \* no row, no teacher

AllOps == {"create", "accept", "reject", "cancel", "list", "add", "edit", "delete", "generate", "regenerate"}

ASSUME HandoverAssumption ==
  /\ MaxSessions \in Nat /\ MaxRequests \in Nat
  /\ NumDays \in Nat \ {0} /\ PerDay \in Nat \ {0} /\ Length \in Nat \ {0}
  /\ Operations \subseteq AllOps
  /\ None \notin Teachers \cup Workers \cup 1..MaxSessions \cup 1..MaxRequests

Sessions == 1..MaxSessions
Requests == 1..MaxRequests
Days == 0..NumDays - 1
Slots == 1..NumDays * PerDay  \* a day and a start time; the clock runs over them
LowestOf(i, S) == i \in S /\ \A j \in S : i <= j

VARIABLES
  now,      \* clock: the sessions of slots up to now have started
  session,  \* table class_sessions
  request,  \* table schedule_change_requests
  job,      \* what each thread is doing
  moved,     \* history: sessions whose slot was ever changed
  overlapped \* history: something was done while a request was half way

vars == <<now, session, request, job, moved, overlapped>>

SessionRows == [status: {"absent", "live", "deleted"}, cohort: Teachers \cup {None},
                slot: Slots \cup {0}]
Statuses == {"absent", "pending", "accepted", "rejected", "cancelled", "expired", "deleted"}
RequestRows == [status: Statuses, session: Sessions \cup {None},
                sender: Teachers \cup {None}, recipient: Teachers \cup {None}]
Steps == {"idle", "send", "clash", "book", "expire", "layout"}
Layouts == [cohort: Teachers \cup {None}, start: 0..PerDay - 1, create: SUBSET Slots,
            move: SUBSET Sessions, remove: SUBSET Sessions]
Jobs == [step: Steps, request: Requests \cup {None}, session: Sessions \cup {None},
         sender: Teachers \cup {None}, teacher: Teachers \cup {None}, slot: Slots \cup {0},
         expire: SUBSET Requests, layout: Layouts]
NoSession(status) == [status |-> status, cohort |-> None, slot |-> 0]
NoRequest(status) == [status |-> status, session |-> None, sender |-> None, recipient |-> None]
NoLayout == [cohort |-> None, start |-> 0, create |-> {}, move |-> {}, remove |-> {}]
Idle == [step |-> "idle", request |-> None, session |-> None, sender |-> None,
         teacher |-> None, slot |-> 0, expire |-> {}, layout |-> NoLayout]

-----------------------------------------------------------------------------
(* Reads.                                                                  *)

At(w, step) == job[w].step = step
Interleaved(w) == overlapped' = (overlapped \/ \E v \in Workers \ {w} : ~At(v, "idle"))
Become(w, j) == job' = [job EXCEPT ![w] = j] /\ Interleaved(w)
Finish(w) == Become(w, Idle)
Start(w, op, j) == At(w, "idle") /\ op \in Operations /\ Become(w, j)
AtOnce(op) == op \in Operations /\ UNCHANGED job /\ Interleaved(None)

Day(slot) == (slot - 1) \div PerDay

SlotOf(day, start) == day * PerDay + start + 1
Overlaps(a, b) == Day(a) = Day(b) /\ a < b + Length /\ b < a + Length
HasStarted(slot) == now >= slot

Live == {s \in Sessions : session[s].status = "live"}
OwnSession(s, t) == s \in Live /\ session[s].cohort = t
With(status) == {r \in Requests : request[r].status = status}
Of(s) == {r \in Requests : request[r].session = s /\ request[r].status \notin {"absent", "deleted"}}

\* Other sessions teacher t teaches or covers at that time.
Clashes(t, s, slot) ==
  \E o \in Live \ {s} :
    /\ \/ session[o].cohort = t
       \/ \E r \in With("accepted") : request[r].recipient = t /\ request[r].session = o
    /\ Overlaps(session[o].slot, slot)

\* SELECT FOR UPDATE holds a request from _open to the commit of accept ...
RequestFree(r) == \A w \in Workers : ~(job[w].step \in {"clash", "book"} /\ job[w].request = r)

\* Fault: nobody locks the teacher.
TeacherFree_NoLock(t) == TRUE

\* ... and the teacher from the clash check to the commit.
TeacherFree(t) == \A w \in Workers : ~(At(w, "book") /\ job[w].teacher = t)

-----------------------------------------------------------------------------
(* Sending.                                                                *)

\* create up to the insert.
BeginCreate(w, s, to) ==
  LET me == session[s].cohort IN
  /\ s \in Live /\ to # me
  /\ ~HasStarted(session[s].slot)
  /\ Of(s) \cap (With("pending") \cup With("accepted")) = {}
  /\ ~Clashes(to, s, session[s].slot)
  /\ Start(w, "create", [Idle EXCEPT !.step = "send", !.session = s, !.sender = me, !.teacher = to])
  /\ UNCHANGED <<now, session, request, moved>>

\* uq_schedule_change_pending, and the foreign key to the session.
InsertRefused(s) == s \notin Live \/ Of(s) \cap With("pending") # {}

\* The insert waits for a locked teacher; the notification commits it.
Send(w) ==
  LET j == job[w] IN
  /\ At(w, "send")
  /\ TeacherFree(j.sender) /\ TeacherFree(j.teacher)
  /\ IF InsertRefused(j.session) THEN UNCHANGED request
     ELSE \E r \in Requests :
            /\ LowestOf(r, With("absent"))  \* bound: MaxRequests
            /\ request' = [request EXCEPT ![r] = [status |-> "pending", session |-> j.session,
                                          sender |-> j.sender, recipient |-> j.teacher]]
  /\ Finish(w)
  /\ UNCHANGED <<now, session, moved>>

-----------------------------------------------------------------------------
(* Deciding.                                                               *)

\* _resolve
Resolve(r, status) == request' = [request EXCEPT ![r].status = status]

\* _open: the row is locked, still pending, and its session has not started ...
Open(r) ==
  /\ r \in With("pending") /\ RequestFree(r)
  /\ ~HasStarted(session[request[r].session].slot)

\* ... and if it has, the request is marked expired instead.
OpenTooLate(r) ==
  /\ \E op \in {"accept", "reject", "cancel"} : AtOnce(op)
  /\ r \in With("pending") /\ RequestFree(r)
  /\ HasStarted(session[request[r].session].slot)
  /\ Resolve(r, "expired")
  /\ UNCHANGED <<now, session, moved>>

\* Fault: a status read before the lock is trusted.
BeginAccept_AnyStatus(w, r) ==
  /\ request[r].status \notin {"absent", "deleted"} /\ RequestFree(r)
  /\ Start(w, "accept", [Idle EXCEPT !.step = "clash", !.request = r, !.session = request[r].session,
        !.teacher = request[r].recipient, !.slot = session[request[r].session].slot])
  /\ UNCHANGED <<now, session, request, moved>>

\* accept up to the lock on the teacher.
BeginAccept(w, r) ==
  /\ Open(r)
  /\ Start(w, "accept", [Idle EXCEPT !.step = "clash", !.request = r, !.session = request[r].session,
        !.teacher = request[r].recipient, !.slot = session[request[r].session].slot])
  /\ UNCHANGED <<now, session, request, moved>>

\* The teacher is locked; the slot is the one read with the request.
Clash(w) ==
  LET j == job[w] IN
  /\ At(w, "clash")
  /\ TeacherFree(j.teacher)
  /\ IF Clashes(j.teacher, j.session, j.slot) THEN Finish(w)
     ELSE Become(w, [j EXCEPT !.step = "book"])
  /\ UNCHANGED <<now, session, request, moved>>

\* uq_schedule_change_accepted, then the commit.
Book(w) ==
  LET j == job[w] IN
  /\ At(w, "book")
  /\ IF Of(j.session) \cap With("accepted") # {} THEN UNCHANGED request
     ELSE Resolve(j.request, "accepted")
  /\ Finish(w)
  /\ UNCHANGED <<now, session, moved>>

Reject(r) ==
  /\ AtOnce("reject")
  /\ Open(r) /\ Resolve(r, "rejected")
  /\ UNCHANGED <<now, session, moved>>

Cancel(r) ==
  /\ AtOnce("cancel")
  /\ Open(r) /\ Resolve(r, "cancelled")
  /\ UNCHANGED <<now, session, moved>>

\* expire_started, from list_requests and get: the rows are read under no lock ...
BeginExpire(w, t) ==
  LET started == {r \in With("pending") :
        t \in {request[r].sender, request[r].recipient} /\ HasStarted(session[request[r].session].slot)}
  IN /\ started # {}
     /\ Start(w, "list", [Idle EXCEPT !.step = "expire", !.expire = started])
     /\ UNCHANGED <<now, session, request, moved>>

\* ... and written whatever has become of them, unless one is gone.
Expire(w) ==
  LET rs == job[w].expire IN
  /\ At(w, "expire")
  /\ \A r \in rs : RequestFree(r)
  /\ request' = IF rs \cap With("deleted") # {} THEN request
                ELSE [r \in Requests |-> IF r \in rs THEN [request[r] EXCEPT !.status = "expired"]
                                         ELSE request[r]]
  /\ Finish(w)
  /\ UNCHANGED <<now, session, moved>>

-----------------------------------------------------------------------------
(* Sessions.                                                               *)

\* _slot_taken, and uq_class_session_slot behind it.
SlotTaken(t, slot, s) == \E o \in Live \ {s} : session[o].cohort = t /\ session[o].slot = slot

NewSession(t, slot) == [status |-> "live", cohort |-> t, slot |-> slot]
Unused == {s \in Sessions : session[s].status = "absent"}  \* bound: MaxSessions

AddSession(t, slot) ==
  /\ AtOnce("add")
  /\ ~SlotTaken(t, slot, None)
  /\ \E s \in Sessions : LowestOf(s, Unused) /\ session' = [session EXCEPT ![s] = NewSession(t, slot)]
  /\ UNCHANGED <<now, request, moved>>

\* update_session does not ask whether the session was handed over.
EditSession(s, slot) ==
  /\ AtOnce("edit")
  /\ s \in Live /\ slot # session[s].slot
  /\ ~SlotTaken(session[s].cohort, slot, s)
  /\ session' = [session EXCEPT ![s].slot = slot]
  /\ moved' = moved \cup {s}
  /\ UNCHANGED <<now, request>>

\* Sessions go with their requests (ON DELETE CASCADE).
CascadeFrom(S) ==
  /\ \A s \in S : \A r \in Of(s) : RequestFree(r)
  /\ request' = [r \in Requests |-> IF \E s \in S : r \in Of(s)
                                    THEN NoRequest("deleted") ELSE request[r]]

DeleteSession(s) ==
  /\ AtOnce("delete")
  /\ s \in Live
  /\ session' = [session EXCEPT ![s] = NoSession("deleted")]
  /\ CascadeFrom({s})
  /\ UNCHANGED <<now, moved>>

\* Fault: only past and marked sessions are history.
Protected_NotHanded(s, marked) == Day(session[s].slot) <= Day(now) \/ s \in marked

\* _protected_ids; which sessions have attendance is Classwork's, any may.
Protected(s, marked) == Day(session[s].slot) <= Day(now) \/ s \in marked \/ Of(s) # {}

OnDay(t, day) == {s \in Live : session[s].cohort = t /\ Day(session[s].slot) = day}

\* generate_sessions up to its flush, for a cohort that meets on the days at start.
BeginGenerate(w, t, days, start, marked, regenerate) ==
  LET empty == {d \in days : OnDay(t, d) = {}}
      wrong == {d \in days \ empty : ~\E s \in OnDay(t, d) : session[s].slot = SlotOf(d, start)}
      movable(d) == {s \in OnDay(t, d) : ~Protected(s, marked)}
      tomove == {d \in wrong : regenerate /\ movable(d) # {}}
      away == IF regenerate THEN UNION {movable(d) : d \in Days \ days} ELSE {}
  IN
  /\ At(w, "idle")
  /\ \E move \in SUBSET UNION {movable(d) : d \in tomove} :
       /\ \A d \in tomove : Cardinality(move \cap movable(d)) = 1
       /\ Cardinality(empty) <= Cardinality(Unused)
       /\ empty \cup move \cup away # {}
       /\ Start(w, IF regenerate THEN "regenerate" ELSE "generate",
            [Idle EXCEPT !.step = "layout", !.layout =
               [cohort |-> t, start |-> start, create |-> {SlotOf(d, start) : d \in empty},
                move |-> move, remove |-> away]])
       /\ UNCHANGED <<now, session, request, moved>>

\* A move of a deleted row, or a slot taken since, fails the whole flush.
LayoutRefused(p) ==
  \/ ~(p.move \subseteq Live)
  \/ \E slot \in p.create : SlotTaken(p.cohort, slot, None)
  \/ \E s \in p.move : SlotTaken(p.cohort, SlotOf(Day(session[s].slot), p.start), s)

LaidOut(p, ids) ==
  [s \in Sessions |->
     IF s \in p.move THEN [session[s] EXCEPT !.slot = SlotOf(Day(session[s].slot), p.start)]
     ELSE IF s \in p.remove THEN NoSession("deleted")
     ELSE IF \E slot \in p.create : ids[slot] = s
     THEN NewSession(p.cohort, CHOOSE slot \in p.create : ids[slot] = s)
     ELSE session[s]]

Layout(w) ==
  LET p == job[w].layout IN
  /\ At(w, "layout")
  /\ IF LayoutRefused(p) THEN UNCHANGED <<session, request, moved>>
     ELSE /\ \E ids \in [p.create -> Unused] :
               /\ \A a, b \in p.create : a < b => ids[a] < ids[b]
               /\ session' = LaidOut(p, ids)
          /\ CascadeFrom(p.remove)
          /\ moved' = moved \cup p.move
  /\ Finish(w)
  /\ UNCHANGED now

Tick == now < NumDays * PerDay /\ now' = now + 1 /\ UNCHANGED <<session, request, job, moved, overlapped>>

-----------------------------------------------------------------------------

Init ==
  /\ now = 0
  /\ session = [s \in Sessions |-> NoSession("absent")]
  /\ request = [r \in Requests |-> NoRequest("absent")]
  /\ job = [w \in Workers |-> Idle]
  /\ moved = {}
  /\ overlapped = FALSE

DecisionStep ==
  \E r \in Requests : OpenTooLate(r) \/ Reject(r) \/ Cancel(r) \/ \E w \in Workers : BeginAccept(w, r)

SessionStep ==
  \/ \E t \in Teachers, slot \in Slots : AddSession(t, slot)
  \/ \E s \in Sessions : DeleteSession(s) \/ \E slot \in Slots : EditSession(s, slot)

WorkerStep(w) ==
  \/ \E s \in Sessions, t \in Teachers : BeginCreate(w, s, t)
  \/ \E t \in Teachers : BeginExpire(w, t)
  \/ \E t \in Teachers, days \in SUBSET Days, start \in 0..PerDay - 1, re \in BOOLEAN :
       \E marked \in IF re THEN SUBSET Live ELSE {{}} : BeginGenerate(w, t, days, start, marked, re)
  \/ Send(w) \/ Clash(w) \/ Book(w) \/ Expire(w) \/ Layout(w)

Next == Tick \/ DecisionStep \/ SessionStep \/ \E w \in Workers : WorkerStep(w)

Spec == Init /\ [][Next]_vars

-----------------------------------------------------------------------------

\* Every table and every request in progress keeps its shape.
TypeOK ==
  /\ now \in 0..NumDays * PerDay
  /\ session \in [Sessions -> SessionRows]
  /\ request \in [Requests -> RequestRows]
  /\ job \in [Workers -> Jobs]
  /\ moved \subseteq Sessions
  /\ overlapped \in BOOLEAN

\* A teacher who accepts from two devices never covers two sessions at one time,
\* unless one of them was moved afterwards by whoever runs the cohort.
CoveredOnce ==
  \A q, r \in With("accepted") :
    LET a == request[q].session  b == request[r].session IN
    q # r /\ request[q].recipient = request[r].recipient /\ {a, b} \cap moved = {}
      => ~Overlaps(session[a].slot, session[b].slot)

\* A resolved request is never reopened nor decided again.  One request at a time its
\* status is terminal, as docs/schedule_change_api_v1.md:27 and
\* models/schedule_change.py:12 say.  Under overlap the code does not keep to that: a
\* listing that read the request as pending writes expired over the decision taken
\* meanwhile (requests.py:91-102).  What holds then is that nothing else writes over
\* it, and that only for a session that has started, or was moved.
DecisionStands ==
  [][\A r \in Requests :
       request[r].status \in {"accepted", "rejected", "cancelled", "expired"}
         => \/ request'[r].status \in {request[r].status, "deleted"}
            \/ /\ overlapped' /\ request'[r].status = "expired"
               /\ HasStarted(session[request[r].session].slot) \/ request[r].session \in moved]_vars

\* Laying a schedule out again leaves a session with a handover request where it
\* is: while requests come one at a time, only its own edit or deletion moves it.
HandoverPinsSession ==
  [][\A w \in Workers, s \in Sessions :
       ~overlapped' /\ At(w, "layout") /\ Of(s) # {} => session'[s] = session[s]]_vars

=============================================================================
