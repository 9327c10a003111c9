\* Classes, quizzes and certificates of a course of two lessons.
SPECIFICATION Spec
CONSTANTS
  Workers = {w1, w2}
  Mixes <- ClassworkMixes
  s1 = s1
  s2 = s2
  Students = {s1, s2}
  NumLessons = 2
  MaxDay = 1
  Points <- Weights
  NumQuizzes = 2
  NumAttempts = 2
  None = None
SYMMETRY ClassworkSymmetry
INVARIANTS CompletedInOrder AttendanceCounts GradedByItsAnswers QuizLimits CertificatesSound
PROPERTIES RecordsStand CertificateEarned
CHECK_DEADLOCK FALSE
