------------------------------- MODULE Catalogue -------------------------------
(***************************************************************************)
(* The public catalogue of src/app/services/enrolment: what the marketing   *)
(* site is told of courses, runs, seats and prices, and what a booking made *)
(* with those answers costs.  The site still posts ids of the system before *)
(* this one: a row of cohort_legacy_schedules says which run, and what share *)
(* of its price, such an id stands for.  The tables at the moment of a      *)
(* request are the constants; 0 is an empty column.  Money is in cents, and *)
(* a share in hundredths of a percent.  Requests that race for a seat are   *)
(* SeatBooking's concern.                                                  *)
(***************************************************************************)
EXTENDS School, Integers

CONSTANTS
  course, cohort,    \* the rows of courses and of cohorts
  term,              \* table cohort_legacy_schedules, by legacy_schedule_id
  Seats,             \* rows of seat_bookings
  promotion,         \* table promotions, by code
  Today, Now         \* the day and the time

Statuses == {"draft", "open", "closed"}
Kinds == {"full", "deposit", "promo", "promo_deposit"}
CourseRows == [legacy: Nat, status: Statuses, mnt: BOOLEAN, price: Nat, discount: 0..100]
CohortRows == [course: Courses, legacy: Nat, legacyCourse: Nat, status: Statuses,
               start: Nat, capacity: Nat]
TermRows == [cohort: Cohorts, kind: Kinds, percent: Nat]
SeatRows == [cohort: Cohorts, seat: Nat, status: {"held", "paid", "released", "cancelled"},
             expires: Nat]
PromotionRows == [active: BOOLEAN, starts: Nat, expires: Nat, left: Nat \cup {None},
                  course: Courses \cup {0}, kind: {"percent", "amount"}, value: Nat]

\* The constants are tables of this shape; ids count from 1, and the legacy id of a
\* run is unique.
Tables ==
  /\ \A j, k \in Cohorts : cohort[k].legacy # 0 /\ cohort[j].legacy = cohort[k].legacy => j = k
  /\ Courses \subseteq Nat \ {0} /\ Cohorts \subseteq Nat \ {0}
  /\ course \in [Courses -> CourseRows] /\ cohort \in [Cohorts -> CohortRows]
  /\ DOMAIN term \subseteq Nat \ {0} /\ term \in [DOMAIN term -> TermRows]
  /\ Seats \subseteq SeatRows
  /\ promotion \in [DOMAIN promotion -> PromotionRows] /\ None \notin DOMAIN promotion

-----------------------------------------------------------------------------
(* Ids.                                                                    *)

PublicCourse(c) == IF course[c].legacy # 0 THEN course[c].legacy ELSE c
PublicSchedule(k) == IF cohort[k].legacy # 0 THEN cohort[k].legacy ELSE k

\* courses_for_public_id: also those only their runs point at.
LegacyCourses(id) ==
  {c \in Courses : \/ course[c].legacy = id
                   \/ \E k \in Cohorts : cohort[k].course = c /\ cohort[k].legacyCourse = id}
CoursesFor(id) ==
  IF id # 0 /\ LegacyCourses(id) # {} THEN LegacyCourses(id) ELSE {id} \cap Courses

\* course_for_public_id
CourseFor(id) == {c \in CoursesFor(id) : \A d \in CoursesFor(id) : c <= d}

\* cohort_for_public_id, in the table t of terms; legacy_schedule_id is unique.
CohortFor(t, id) ==
  LET runs == {k \in Cohorts : cohort[k].legacy = id /\ id # 0} IN
  IF id \in DOMAIN t THEN {t[id].cohort} ELSE IF runs # {} THEN runs ELSE {id} \cap Cohorts

-----------------------------------------------------------------------------
(* Prices.                                                                 *)

Least(a, b) == IF a <= b THEN a ELSE b

\* Decimal.quantize of n/d: to the nearest, and to the even one of two.
Round(n, d) ==
  LET q == n \div d
      r == n % d
  IN IF 2 * r < d \/ (2 * r = d /\ q % 2 = 0) THEN q ELSE q + 1

Whole == 10000  \* 100 %

\* charge_fraction: an empty percent is the whole, and nothing bills more.
Fraction(t, id) ==
  IF id \notin DOMAIN t \/ t[id].percent = 0 THEN Whole ELSE Least(t[id].percent, Whole)

\* cohort_price, of a run whose course is priced in MNT.
InMnt(k) == course[cohort[k].course].mnt
Discounted(c) == Round(course[c].price * (100 - course[c].discount), 100)
CohortPrice(k) == Discounted(cohort[k].course)

\* Promotion.is_valid_now, for course c or for none.
ValidNow(p, c) ==
  /\ p.active
  /\ p.starts # 0 => p.starts <= Now
  /\ p.expires # 0 => p.expires >= Now
  /\ p.left # 0                      \* max_uses - used_count
  /\ p.course \in {0, c}

\* _discount_for
DiscountFor(p, amount) ==
  IF p.kind = "percent" THEN Round(amount * p.value, Whole) ELSE Least(amount, p.value)

-----------------------------------------------------------------------------
(* Seats.                                                                  *)

Places(k) == 1..cohort[k].capacity
PaidSeats(k) == {b.seat : b \in {s \in Seats : s.cohort = k /\ s.status = "paid"}}
HeldSeats(k) ==
  {b.seat : b \in {s \in Seats : s.cohort = k /\ s.status = "held"
                                 /\ (s.expires = 0 \/ s.expires > Now)}}
FreeSeats(k) == Places(k) \ (PaidSeats(k) \cup HeldSeats(k))

-----------------------------------------------------------------------------
(* What the site is told.                                                  *)

\* next_bookable_cohort: upcoming runs first, and among those the soonest.
OnSale(c) == {k \in Cohorts : cohort[k].course = c /\ cohort[k].status = "open"}
Upcoming(c) == {k \in OnSale(c) : cohort[k].start # 0 /\ cohort[k].start >= Today}
Pool(c) == IF Upcoming(c) # {} THEN Upcoming(c) ELSE OnSale(c)
NextRun(c) ==
  {k \in Pool(c) : \A j \in Pool(c) :
     \/ cohort[j].start = 0
     \/ cohort[k].start # 0 /\ cohort[k].start <= cohort[j].start}

\* _variant_ids: the ids this run answers to, by payment terms.
Variant(k, kind) == {id \in DOMAIN term : term[id].cohort = k /\ term[id].kind = kind}
Deposits(k) ==
  IF Variant(k, "deposit") # {} THEN Variant(k, "deposit") ELSE Variant(k, "promo_deposit")
AdvancePercent(k) ==
  IF Deposits(k) = {} THEN {0} ELSE {term[id].percent \div 100 : id \in Deposits(k)}

\* _programme: the card of course c that books run k, or none (0).
Card(c, k) ==
  [classroom_course_id |-> PublicCourse(c),
   final_fee           |-> 100 * Round(course[c].price * (100 - course[c].discount), 10000),
   schedule_id         |-> IF k = 0 THEN 0 ELSE PublicSchedule(k),
   enrolled            |-> IF k = 0 THEN {} ELSE PaidSeats(k) \cup HeldSeats(k),
   advance             |-> IF k = 0 THEN {0} ELSE AdvancePercent(k)]
Programmes ==
  UNION {{Card(c, k) : k \in IF OnSale(c) = {} THEN {0} ELSE NextRun(c)}
         : c \in {d \in Courses : course[d].status = "open"}}

\* list_classroom_courses, get_classroom_course
ProgrammePage(c) == [id |-> PublicCourse(c), price |-> Discounted(c)]
ProgrammePages == {ProgrammePage(c) : c \in {d \in Courses : course[d].status = "open"}}
PageFor(id) == {ProgrammePage(c) : c \in {d \in CourseFor(id) : course[d].status = "open"}}

\* create_request: the course of the lead, of an id that stands for one.
LeadCourse(id) == CourseFor(id)

\* list_schedules
Schedules(id) ==
  {[schedule        |-> PublicSchedule(k),
    course          |-> PublicCourse(cohort[k].course),
    available_seats |-> FreeSeats(k),
    price           |-> IF InMnt(k) THEN CohortPrice(k) ELSE None]
   : k \in {j \in Cohorts : cohort[j].course \in CoursesFor(id)}}

-----------------------------------------------------------------------------
(* What the site asks for.                                                 *)

\* apply_coupon: valid for any course the id stands for.
CouponAccepted(code, id) ==
  /\ code \in DOMAIN promotion
  /\ \E c \in IF CoursesFor(id) = {} THEN {None} ELSE CoursesFor(id) : ValidNow(promotion[code], c)

\* book_seat: the runs that can be booked by the course id of the path and a
\* schedule id.  A course id nothing answers to is let pass.
Bookable(id, schedule) ==
  {k \in CohortFor(term, schedule) :
     /\ CoursesFor(id) # {} => cohort[k].course \in CoursesFor(id)
     /\ cohort[k].status = "open" /\ FreeSeats(k) # {} /\ InMnt(k)}

\* _build_booking: the promotion first, then the share of what is left.
Off(k, code) ==
  IF code \in DOMAIN promotion /\ ValidNow(promotion[code], cohort[k].course)
  THEN DiscountFor(promotion[code], CohortPrice(k)) ELSE 0
AfterPromotion(k, code) ==
  IF Off(k, code) > CohortPrice(k) THEN 0 ELSE CohortPrice(k) - Off(k, code)
Charge(k, schedule, code) == Round(AfterPromotion(k, code) * Fraction(term, schedule), Whole)

\* The wanted seat, or else the first free one.
Seat(k, wanted) ==
  {s \in FreeSeats(k) : IF wanted \in FreeSeats(k) THEN s = wanted
                                                   ELSE \A o \in FreeSeats(k) : s <= o}
Booked(id, schedule, wanted, code) ==
  UNION {{[cohort |-> k, seat |-> s, amount |-> Charge(k, schedule, code)] : s \in Seat(k, wanted)}
         : k \in Bookable(id, schedule)}

-----------------------------------------------------------------------------
(* Seeding, src/app/seeds.py, from the entries of the site before.         *)

\* The entries of one programme are a group, one for each of its runs.
\* An entry: its prices, its discount, and the ids it published (0: none).
\* An entry may state the price in MNT: that one is after its discount.
Entries ==
  [mntPrice: Nat, fee: Nat, discount: 0..100, course: Nat, start: Nat, places: Nat,
   full: Nat, deposit: Nat, promo: Nat, promo_deposit: Nat, advance: 0..100]

\* A row keeps its status, or begins as a draft, unless the seed publishes.
StatusAfter(publish, status) == IF publish THEN "open" ELSE status

\* _upsert_course, _price: the first entry of the group speaks for all.
SeededCourse(group, publish, status) ==
  LET head == group[1] IN
  [legacy |-> head.course, status |-> StatusAfter(publish, status), mnt |-> TRUE,
   price |-> IF head.mntPrice # 0 THEN head.mntPrice ELSE head.fee,
   discount |-> IF head.mntPrice # 0 THEN 0 ELSE head.discount]

\* _upsert_cohort
SeededCohort(e, c, publish, status) ==
  [course |-> c, legacy |-> e.full, legacyCourse |-> e.course,
   status |-> StatusAfter(publish, status), start |-> e.start, capacity |-> e.places]

\* _map_legacy_schedules: the fields in the order they are written.
DefaultDepositPercent == 30
DepositShare(e) == 100 * IF e.advance = 0 THEN DefaultDepositPercent ELSE e.advance
TermOf(e, k, id) ==
  CASE id = e.promo_deposit -> [cohort |-> k, kind |-> "promo_deposit", percent |-> DepositShare(e)]
    [] id # e.promo_deposit /\ id = e.promo -> [cohort |-> k, kind |-> "promo", percent |-> Whole]
    [] id \notin {e.promo_deposit, e.promo} /\ id = e.deposit ->
         [cohort |-> k, kind |-> "deposit", percent |-> DepositShare(e)]
    [] OTHER -> [cohort |-> k, kind |-> "full", percent |-> Whole]
Published(e) == {e.full, e.deposit, e.promo, e.promo_deposit} \ {0}
SeededTerms(e, k) ==
  [id \in DOMAIN term \cup Published(e) |-> IF id \in Published(e) THEN TermOf(e, k, id) ELSE term[id]]

-----------------------------------------------------------------------------
(* What should hold of every catalogue.                                    *)

\* The id a run, or a course, is published under stands for another one too: an id
\* of our own may be a number the old system used, which nothing prevents.
ScheduleTaken(k) ==
  LET id == PublicSchedule(k) IN
  IF id \in DOMAIN term THEN term[id].cohort # k ELSE \E j \in Cohorts \ {k} : cohort[j].legacy = id
CourseTaken(c) == course[c].legacy = 0 /\ LegacyCourses(c) # {} /\ c \notin LegacyCourses(c)

\* "One rule, applied on the way out and on the way in": a card that is posted back
\* books a seat of the very run it showed and of no other, if that one has a seat to
\* sell.  It fails exactly where a number of the card stands for something else too.
CardBooksItsRun(c, k) ==
  k \in NextRun(c) =>
    LET found == Bookable(Card(c, k).classroom_course_id, Card(c, k).schedule_id) IN
    /\ k \in found <=> FreeSeats(k) # {} /\ InMnt(k) /\ ~ScheduleTaken(k) /\ ~CourseTaken(c)
    /\ k \in found => found = {k}

\* A seat listed as available in a run on sale is booked under any course id that
\* lists it, at the listed price where the run's id bills the whole, unless the run's
\* id stands for another run, and then this one is not booked.
ListedIsBookable(id, k, seat) ==
  /\ cohort[k].course \in CoursesFor(id) /\ cohort[k].status = "open"
  /\ InMnt(k) /\ seat \in FreeSeats(k)
  => LET schedule == PublicSchedule(k) IN
     IF ScheduleTaken(k) THEN \A b \in Booked(id, schedule, seat, None) : b.cohort # k
     ELSE /\ Booked(id, schedule, seat, None)
               = {[cohort |-> k, seat |-> seat, amount |-> Charge(k, schedule, None)]}
          /\ Fraction(term, schedule) = Whole => Charge(k, schedule, None) = CohortPrice(k)

\* A buyer who takes a published deposit id is billed that share of the price,
\* for the run that published it.
DepositAsPublished(k, id) ==
  id \in Deposits(k) /\ term[id].percent % 100 = 0 /\ term[id].percent \in 1..Whole
  => /\ CohortFor(term, id) = {k}
     /\ \E percent \in AdvancePercent(k) : Charge(k, id, None) = Round(CohortPrice(k) * percent, 100)

\* No id and no code makes a seat cost less than nothing or more than its price.
ChargeIsBounded(k, schedule, code) == Charge(k, schedule, code) \in 0..CohortPrice(k)

\* booking.py:170-175: a code the coupon form accepts for a course id is taken off any
\* run that is booked under the id, unless the code is for another of the courses the
\* id stands for; and it never makes a seat dearer, whatever part of it is charged.
CouponIsHonoured(code, id, k, schedule) ==
  CouponAccepted(code, id) /\ k \in Bookable(id, schedule) =>
    /\ promotion[code].course \in {0, cohort[k].course} =>
         Off(k, code) = DiscountFor(promotion[code], CohortPrice(k))
    /\ Charge(k, schedule, code) <= Charge(k, schedule, None)

\* Once an entry with four different ids is seeded, each id it published is the
\* seeded run, and bills all of the price or the deposit it states.
SeedIsPublished(e, k) ==
  (\A f, g \in {"full", "deposit", "promo", "promo_deposit"} : f # g /\ e[f] # 0 => e[f] # e[g])
  => \A f \in {"full", "deposit", "promo", "promo_deposit"} : e[f] # 0 =>
       /\ CohortFor(SeededTerms(e, k), e[f]) = {k}
       /\ Fraction(SeededTerms(e, k), e[f])
            = IF f \in {"deposit", "promo_deposit"} THEN DepositShare(e) ELSE Whole

\* A group sells at the price in MNT its first entry states, discounted once, and so
\* does each entry that states the same.
SeedSellsAtPrice(group, publish, status) ==
  LET row == SeededCourse(group, publish, status) IN
  \A n \in DOMAIN group :
    group[n].mntPrice # 0 /\ group[n].mntPrice = group[1].mntPrice =>
      Round(row.price * (100 - row.discount), 100) = group[n].mntPrice
=============================================================================
