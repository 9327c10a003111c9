\* Two accounts and four tokens, codes of which two may be sent in an hour.
SPECIFICATION Spec
CONSTANTS
  Workers = {w1, w2}
  Mixes <- AccountsMixes
  AccountIds = {a1, a2}
  Given = {a1}
  Emails = {e1, e2}
  NumTokens = 4
  NumCodes = 3
  MaxEra = 2
  MaxAttempts = 2
  MaxCodes = 2
  Nobody = Nobody
SYMMETRY AccountsSymmetry
INVARIANTS SessionsSound CodesSound
CHECK_DEADLOCK FALSE
