-------------------------------- MODULE Access --------------------------------
(***************************************************************************)
(* Who is served what: the guards of src/app/auth, the endpoints of         *)
(* src/app/routes behind them, and what services/access.py and its callers  *)
(* ask of the cohort, lesson or document an endpoint is called on.  A       *)
(* request is an endpoint and the object it names; the tables it is judged  *)
(* by are the constants, as they stand at that moment.                      *)
(***************************************************************************)
EXTENDS School, Integers

CONSTANTS
  Students, Teachers,   \* profiles
  Modules, Lessons,
  Public,               \* courses that are published
  CourseOf,             \* the course of a cohort, and of a module
  TeacherOf,            \* the teacher of a cohort, or None
  ModuleOf,             \* the module of a lesson
  EnrolledIn,           \* the cohorts a student has an active enrollment in
  Rank,                 \* a student's enrollments by start date, then id
  Ahead,                \* cohort and module, or lesson, whose first class is ahead
  InOrder,              \* student and lesson: none before it is left undone
  Materials, Quizzes, Assignments,
  Attempts,             \* quiz attempts that are not finished
  CohortOf,             \* the cohort of a session, assignment or submission
  OwnerOf               \* the student a document belongs to

ActorTypes == {"student", "teacher", "staff"}
CallerRows == [type: ActorTypes, role: STRING, actor: Students \cup Teachers \cup {None},
                active: BOOLEAN, pending: BOOLEAN]

\* users.ACTORS: the role of a student or a teacher is the type of the account.
RoleFits(a) == a.type \in {"student", "teacher"} => a.role = a.type

MaterialRows == [lesson: Lessons, cohort: Cohorts \cup {None}]
QuizRows == [course: Courses, module: Modules \cup {None}, lesson: Lessons \cup {None}, active: BOOLEAN]
AssignmentRows == [cohort: Cohorts, lesson: Lessons \cup {None}, active: BOOLEAN]
AttemptRows == [student: Students, quiz: Quizzes]

-----------------------------------------------------------------------------
(* Guards.                                                                 *)

\* The account behind a token that is good, read again with every request.
Caller(a) == IF a # None /\ a.active THEN a ELSE None

PermissionsOf(role) ==
  CASE role = "super_admin"       -> {"*"}
    [] role = "finance"           -> {"payment:read", "payment:refund", "installment:manage",
                                      "ledger:read", "ebarimt:manage", "report:finance"}
    [] role = "sales_enrollment"  -> {"enrollment:create", "enrollment:read", "cohort:manage",
                                      "student:assign", "student:manage", "teacher:manage",
                                      "schedule:manage", "swap:approve"}
    [] role = "content_marketing" -> {"content:edit", "course:edit", "post:manage", "banner:manage"}
    [] OTHER                      -> {}

HasPermission(role, permission) == {"*", permission} \cap PermissionsOf(role) # {}

\* login_required outside /auth, where a password somebody else has set will do.
KnownCaller(u) == u # None
LoggedIn(u) == u # None /\ ~u.pending
Actor(u, type) == LoggedIn(u) /\ u.type = type
Permitted(u, permission) == LoggedIn(u) /\ HasPermission(u.role, permission)

\* _shared.can, can_any
Can(u, permissions) == u # None /\ \E p \in permissions : HasPermission(u.role, p)

\* teacher_or_manager, of the assignments and of the attendance endpoints
ReviewGuard(u) == LoggedIn(u) /\ (u.type = "teacher" \/ HasPermission(u.role, "cohort:manage"))
ClassGuard(u) == u # None /\ (u.type = "teacher" \/ HasPermission(u.role, "cohort:manage"))

-----------------------------------------------------------------------------
(* Endpoints, by what their guard asks.                                    *)

If(guard, endpoints) == IF guard THEN endpoints ELSE {}

OpenRoutes == {"health.index", "health.health"}
AuthRoutes(u) ==
  {"auth.login", "auth.refresh", "auth.logout"} \cup If(KnownCaller(u), {"auth.logout_all", "auth.me", "auth.change_password"})

PublicRoutes ==
  {"public.list_programmes", "public.create_classroom_request", "public.apply_coupon",
   "public.list_classroom_courses", "public.get_classroom_course", "public.list_schedules",
   "public.book_seat", "public.qpay_invoice", "public.invoice_status", "public.receipt_status",
   "public.set_receipt_customer", "public.find_taxpayer", "public.storepay_invoice",
   "public.storepay_status"}

BrowseRoutes == {"student.list_courses", "student.get_course", "student.list_cohorts", "student.get_cohort"}
EnrollRoutes(u) == If(Actor(u, "student"), {"student.enroll_self", "student.cancel_self", "student.my_cohorts"})

MoneyRoutes(u) ==
  If(Actor(u, "student"), {"account.my_ledger", "account.my_invoices", "account.my_receipts", "account.my_receipt"})
ProfileRoutes(u) == If(LoggedIn(u), {"account.update_my_profile"})
ForgottenRoutes == {"account.forgot_password", "account.reset_password"}

UserRoutes(u) ==
  If(Permitted(u, "student:manage"),
     {"admin.students_list", "admin.students_create", "admin.students_get", "admin.students_update",
      "admin.students_delete", "admin.students_reset_password"})
  \cup
  If(Permitted(u, "teacher:manage"),
     {"admin.teachers_list", "admin.teachers_create", "admin.teachers_get", "admin.teachers_update",
      "admin.teachers_delete", "admin.teachers_reset_password"})

ClassroomRoutes(u) ==
  If(Permitted(u, "classroom:manage"),
     {"admin.list_classrooms", "admin.get_classroom", "admin.create_classroom", "admin.update_classroom",
      "admin.delete_classroom"})

CohortRoutes(u) ==
  If(Permitted(u, "cohort:manage"),
     {"admin.list_cohorts", "admin.get_cohort", "admin.create_cohort", "admin.update_cohort",
      "admin.delete_cohort", "admin.list_cohort_students", "admin.remove_cohort_student"})
  \cup If(Permitted(u, "enrollment:create"), {"admin.enroll_by_staff"})

CourseRoutes(u) ==
  If(Permitted(u, "course:edit"),
     {"admin.create_course", "admin.update_course", "admin.delete_course", "admin.upload_template",
      "admin.download_template", "admin.delete_template"})

ScheduleRoutes(u) ==
  If(Permitted(u, "schedule:manage"), {"admin.all_teacher_schedules", "admin.all_classroom_schedules"})
  \cup If(Can(u, {"cohort:manage", "classroom:manage"}), {"admin.classroom_schedule"})

AuthoringRoutes(u) ==
  If(Permitted(u, "course:edit"),
     {"learning_admin.list_modules", "learning_admin.create_module", "learning_admin.update_module",
      "learning_admin.delete_module", "learning_admin.list_lessons", "learning_admin.create_lesson",
      "learning_admin.get_lesson", "learning_admin.update_lesson", "learning_admin.delete_lesson",
      "learning_admin.list_materials", "learning_admin.create_material",
      "learning_admin.update_material", "learning_admin.delete_material"})

QuizStaffRoutes(u) ==
  If(Permitted(u, "course:edit"),
     {"quizzes_staff.list_quizzes", "quizzes_staff.create_quiz", "quizzes_staff.get_quiz",
      "quizzes_staff.update_quiz", "quizzes_staff.delete_quiz", "quizzes_staff.replace_questions",
      "quizzes_staff.list_attempts"})

CallbackRoutes == {"payments.gateway_callback"}
SelfPayRoutes(u) ==
  If(Actor(u, "student"), {"payments.create_my_invoice", "payments.get_my_invoice", "payments.poll_my_invoice"})

InvoiceRoutes(u) ==
  If(Permitted(u, "payment:read"),
     {"payments.staff_create_invoice", "payments.list_invoices", "payments.get_invoice",
      "payments.check_invoice", "payments.list_payments", "payments.reconcile_golomt"})
RefundRoutes(u) ==
  If(Permitted(u, "payment:refund"),
     {"payments.lookup_refund", "payments.create_refund", "payments.refund_payment"})
LedgerRoutes(u) == If(Permitted(u, "ledger:read"), {"payments.get_ledger", "payments.recompute_ledger"})

InstallmentRoutes(u) ==
  If(Permitted(u, "ledger:read"), {"installments.get_plan"})
  \cup
  If(Permitted(u, "installment:manage"),
     {"installments.add_installment", "installments.create_default_plan",
      "installments.update_installment", "installments.delete_installment",
      "installments.waive_installment"})

EbarimtRoutes(u) ==
  If(Permitted(u, "ebarimt:manage"),
     {"ebarimt.list_receipts", "ebarimt.ebarimt_summary", "ebarimt.get_receipt", "ebarimt.issue_receipt",
      "ebarimt.email_receipt", "ebarimt.ebarimt_send_data", "ebarimt.receipt_qr",
      "ebarimt.reissue_receipt", "ebarimt.reissue_all_receipts", "ebarimt.return_receipt"})

LearningRoutes(u) ==
  If(Actor(u, "student"),
     {"learning.learning_path", "learning.module_lessons", "learning.lesson_detail",
      "learning.complete_lesson", "learning.put_note", "learning.download_material"})
QuizRoutes(u) ==
  If(Actor(u, "student"),
     {"quizzes.start_attempt", "quizzes.answer_question", "quizzes.finish_attempt", "quizzes.get_attempt"})
HomeworkRoutes(u) ==
  If(Actor(u, "student"),
     {"assignments.get_assignment", "assignments.submit", "assignments.upload_file", "assignments.download_file"})

ReviewRoutes(u) ==
  If(ReviewGuard(u),
     {"assignments_staff.list_assignments", "assignments_staff.create_assignment",
      "assignments_staff.get_assignment", "assignments_staff.update_assignment",
      "assignments_staff.delete_assignment", "assignments_staff.list_submissions",
      "assignments_staff.get_submission", "assignments_staff.review_submission",
      "assignments_staff.submission_file"})

SessionRoutes(u) ==
  If(ClassGuard(u),
     {"attendance.list_sessions", "attendance.create_session", "attendance.generate_sessions",
      "attendance.cohort_students", "attendance.update_session", "attendance.delete_session"})
  \cup If(Permitted(u, "cohort:manage"), {"attendance.admin_generate_sessions"})
AttendanceRoutes(u) ==
  If(ClassGuard(u), {"attendance.issue_qr", "attendance.session_attendance", "attendance.mark_attendance"})
  \cup If(Actor(u, "student"), {"attendance.check_in", "attendance.my_attendance"})

CertificateRoutes(u) ==
  If(Actor(u, "student"),
     {"certificates.my_course_certificate", "certificates.my_certificates", "certificates.download_my_certificate"})
IssuingRoutes(u) ==
  If(Permitted(u, "cohort:manage"),
     {"certificates.list_certificates", "certificates.issue_certificate",
      "certificates.generate_certificate_file", "certificates.issue_cohort_certificates",
      "certificates.upload_certificate_file", "certificates.archive_certificate"})
VerifyRoutes == {"certificates.verify_certificate"}

ContractRoutes(u) ==
  If(Actor(u, "student"),
     {"contracts.my_contracts", "contracts.my_contract", "contracts.preview_my_contract",
      "contracts.sign_my_contract", "contracts.download_my_contract"})
ContractStaffRoutes(u) ==
  If(Permitted(u, "cohort:manage"),
     {"contracts.list_contracts", "contracts.get_contract", "contracts.download_contract",
      "contracts.reset_contract"})

NotificationRoutes(u) ==
  If(LoggedIn(u),
     {"notifications.register_push_token", "notifications.remove_push_token",
      "notifications.list_notifications", "notifications.read_notification",
      "notifications.read_all_notifications"})
  \cup If(Permitted(u, "cohort:manage"), {"notifications.send_notification"})

HandoverRoutes(u) ==
  If(Actor(u, "teacher"),
     {"schedule_changes.my_sessions", "schedule_changes.eligible_teachers",
      "schedule_changes.create_request", "schedule_changes.list_requests",
      "schedule_changes.get_request", "schedule_changes.accept_request",
      "schedule_changes.reject_request", "schedule_changes.cancel_request"})

\* A teacher's own schedule is named by the teacher's id.
TimetableRoutes(u) == If(KnownCaller(u), {"teacher.teacher_schedule"})

\* register_blueprints
Anonymous == OpenRoutes \cup PublicRoutes \cup BrowseRoutes \cup ForgottenRoutes \cup CallbackRoutes \cup VerifyRoutes
StudentRoutes(u) ==
  EnrollRoutes(u) \cup MoneyRoutes(u) \cup SelfPayRoutes(u) \cup LearningRoutes(u) \cup QuizRoutes(u)
  \cup HomeworkRoutes(u) \cup CertificateRoutes(u) \cup ContractRoutes(u)
ClassRoutes(u) == ReviewRoutes(u) \cup SessionRoutes(u) \cup AttendanceRoutes(u)
FinanceRoutes(u) ==
  InvoiceRoutes(u) \cup RefundRoutes(u) \cup LedgerRoutes(u) \cup InstallmentRoutes(u) \cup EbarimtRoutes(u)
OfficeRoutes(u) ==
  UserRoutes(u) \cup ClassroomRoutes(u) \cup CohortRoutes(u) \cup CourseRoutes(u) \cup ScheduleRoutes(u)
  \cup AuthoringRoutes(u) \cup QuizStaffRoutes(u) \cup IssuingRoutes(u) \cup ContractStaffRoutes(u)
Routes(u) ==
  Anonymous \cup AuthRoutes(u) \cup ProfileRoutes(u) \cup NotificationRoutes(u) \cup StudentRoutes(u)
  \cup ClassRoutes(u) \cup HandoverRoutes(u) \cup TimetableRoutes(u) \cup FinanceRoutes(u) \cup OfficeRoutes(u)

-----------------------------------------------------------------------------
(* What the endpoint is called on.                                         *)

\* cohort_for_teacher
MayTeach(u, c) ==
  HasPermission(u.role, "cohort:manage") \/ (u.type = "teacher" /\ TeacherOf[c] = u.actor)

\* enrollment_for_course: of several cohorts of a course, the newest.
CohortsFor(s, course) ==
  LET mine == {c \in EnrolledIn[s] : CourseOf[c] = course}
  IN {c \in mine : \A d \in mine : Rank[s][d] <= Rank[s][c]}

\* ensure_module_open
IsOpen(c, m, l) ==
  /\ m = None \/ <<c, m>> \notin Ahead
  /\ l = None \/ <<c, l>> \notin Ahead

CourseOfLesson(l) == CourseOf[ModuleOf[l]]

\* course_by_slug, then enrollment_for_course
FollowsCourse(s, course) == course \in Public /\ CohortsFor(s, course) # {}

\* _open_lesson
OpensLesson(s, l) ==
  \E c \in CohortsFor(s, CourseOfLesson(l)) : IsOpen(c, ModuleOf[l], l) /\ <<s, l>> \in InOrder

\* materials.download
GetsMaterial(s, x) ==
  \E c \in CohortsFor(s, CourseOfLesson(x.lesson)) :
    x.cohort \in {None, c} /\ IsOpen(c, ModuleOf[x.lesson], x.lesson)

\* _quiz_topic_id
ModuleOfQuiz(q) == IF q.module # None THEN q.module ELSE IF q.lesson # None THEN ModuleOf[q.lesson] ELSE None

\* start_attempt ...
StartsQuiz(s, q) ==
  q.active /\ \E c \in CohortsFor(s, q.course) : IsOpen(c, ModuleOfQuiz(q), q.lesson)

\* ... and answer_question
AnswersQuiz(s, t) ==
  t.student = s /\ \E c \in CohortsFor(s, t.quiz.course) : IsOpen(c, ModuleOfQuiz(t.quiz), t.quiz.lesson)

\* visible_assignment
SeesAssignment(s, x) ==
  /\ x.active /\ x.cohort \in EnrolledIn[s]
  /\ IsOpen(x.cohort, IF x.lesson # None THEN ModuleOf[x.lesson] ELSE None, x.lesson)

\* A lesson's own endpoints, and the others that hand out what is in a module.
LessonWork == {"learning.lesson_detail", "learning.complete_lesson", "learning.put_note"}
AssignmentWork == {"assignments.get_assignment", "assignments.submit"}
CourseWork == {"learning.learning_path", "attendance.my_attendance", "certificates.my_course_certificate"}

\* Endpoints that name a cohort, and those that name something of one.
OnCohort ==
  {"assignments_staff.list_assignments", "assignments_staff.create_assignment", "attendance.list_sessions",
   "attendance.create_session", "attendance.generate_sessions", "attendance.cohort_students"}
OfCohort ==
  {"assignments_staff.get_assignment", "assignments_staff.update_assignment",
   "assignments_staff.delete_assignment", "assignments_staff.list_submissions",
   "assignments_staff.get_submission", "assignments_staff.review_submission",
   "assignments_staff.submission_file", "attendance.update_session", "attendance.delete_session",
   "attendance.issue_qr", "attendance.session_attendance", "attendance.mark_attendance"}

\* Endpoints that name a document of one student: an invoice, receipt, file,
\* certificate, contract or quiz attempt.
OfStudent ==
  {"account.my_receipt", "payments.create_my_invoice", "payments.get_my_invoice",
   "payments.poll_my_invoice", "assignments.download_file", "certificates.download_my_certificate",
   "contracts.my_contract", "contracts.preview_my_contract", "contracts.sign_my_contract",
   "contracts.download_my_contract", "quizzes.finish_attempt", "quizzes.get_attempt"}

\* Is caller u served endpoint op on what it names?
Serves(u, op, on) ==
  /\ op \in Routes(u)
  /\ op \in OnCohort => on \in Cohorts /\ MayTeach(u, on)
  /\ op \in OfCohort => on \in DOMAIN CohortOf /\ MayTeach(u, CohortOf[on])
  /\ op \in OfStudent => on \in DOMAIN OwnerOf /\ OwnerOf[on] = u.actor
  /\ op \in CourseWork => on \in Courses /\ FollowsCourse(u.actor, on)
  /\ op = "learning.module_lessons" => on \in Modules /\ CohortsFor(u.actor, CourseOf[on]) # {}
  /\ op \in LessonWork => on \in Lessons /\ OpensLesson(u.actor, on)
  /\ op = "learning.download_material" => on \in Materials /\ GetsMaterial(u.actor, on)
  /\ op = "quizzes.start_attempt" => on \in Quizzes /\ StartsQuiz(u.actor, on)
  /\ op = "quizzes.answer_question" => on \in Attempts /\ AnswersQuiz(u.actor, on)
  /\ op \in AssignmentWork => on \in Assignments /\ SeesAssignment(u.actor, on)
  /\ op = "teacher.teacher_schedule" =>
       (u.type = "teacher" /\ on = u.actor) \/ Can(u, {"cohort:manage", "schedule:manage"})

-----------------------------------------------------------------------------
(* What this adds up to.                                                   *)

\* What is in a module, by the endpoint that hands it out.
ContentOf(op, on) ==
  CASE op \in LessonWork                       -> <<ModuleOf[on], on>>
    [] op = "learning.download_material"       -> <<ModuleOf[on.lesson], on.lesson>>
    [] op = "quizzes.start_attempt"            -> <<ModuleOfQuiz(on), on.lesson>>
    [] op = "quizzes.answer_question"          -> <<ModuleOfQuiz(on.quiz), on.quiz.lesson>>
    [] op \in AssignmentWork                   -> <<IF on.lesson # None THEN ModuleOf[on.lesson] ELSE None, on.lesson>>

\* A course's modules and their lessons by title, and a file that is taken in.
Outlines == {"learning.learning_path", "learning.module_lessons", "assignments.upload_file"}

\* attempts.py:113-114: finishing and reading an attempt stay open, its questions
\* included, and so does a file handed in.
BegunWork == {"quizzes.finish_attempt", "quizzes.get_attempt", "assignments.download_file"}

\* access.py:58-65: whatever an endpoint of lessons, quizzes or homework hands out of
\* a module, the module's class has begun, and the lesson's own, in a cohort the
\* student is enrolled in; or else it is an outline, or the student's own earlier work.
NothingAhead(u, op, on) ==
  op \in LearningRoutes(u) \cup QuizRoutes(u) \cup HomeworkRoutes(u) /\ Serves(u, op, on) =>
    \/ op \in Outlines
    \/ op \in BegunWork /\ OwnerOf[on] = u.actor
    \/ \E c \in EnrolledIn[u.actor] : IsOpen(c, ContentOf(op, on)[1], ContentOf(op, on)[2])

\* access.py:7-8: a teacher acts only on cohorts they are assigned to.
KeepsToOwnCohorts(u, op, on) ==
  u # None /\ ~HasPermission(u.role, "cohort:manage") /\ Serves(u, op, on) =>
    /\ op \in OnCohort => TeacherOf[on] = u.actor
    /\ op \in OfCohort => TeacherOf[CohortOf[on]] = u.actor

\* decorators.py:15-19: until a password set by somebody else is changed, the
\* account gets no further than /auth, but for the endpoints that look at the
\* caller themselves.
ChangesPasswordFirst(u) ==
  u # None /\ u.pending =>
    Routes(u) \subseteq Anonymous \cup AuthRoutes(u) \cup TimetableRoutes(u) \cup SessionRoutes(u)
                        \cup AttendanceRoutes(u) \cup {"admin.classroom_schedule"}

\* permissions.py:8-10: students and teachers have nothing of the back office.
OfficeIsForStaff(u) ==
  u # None /\ u.type \in {"student", "teacher"} => FinanceRoutes(u) \cup OfficeRoutes(u) = {}
=============================================================================
