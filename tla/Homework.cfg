\* Two students hand in homework; the files of a course come and go.
SPECIFICATION Spec
CONSTANTS
  Workers = {w1, w2}
  Mixes <- HomeworkMixes
  Assignments = {a1}
  Students = {s1, s2}
  NumFiles = 2
  NumMaterials = 3
  NumSubmissions = 3
  Extensions = {pdf, docx}
  None = None
SYMMETRY HomeworkSymmetry
INVARIANTS VersionsInOrder FilesAreThere
PROPERTIES HomeworkKept
CHECK_DEADLOCK FALSE
