------------------------------ MODULE SchoolProofs ------------------------------
(***************************************************************************)
(* Accounts, for any numbers of accounts, devices, threads and codes: no   *)
(* two accounts share an email, no session outlives its account, no code   *)
(* its wrong guesses; and where requests do not overlap, no session        *)
(* outlives its password and no account is sent more codes than allowed.   *)
(* Access, Catalogue and Gateways, whatever the tables hold: what the      *)
(* guards and the lookups of a request come to, for every caller; a card   *)
(* books the run it showed unless its number stands for another one, a     *)
(* listed seat costs what was listed, a deposit id bills its share, and a  *)
(* seeded entry is sold on the terms it published; webhook, poll and       *)
(* reconcile hand settle one and the same payment, and a transfer to the   *)
(* account a buyer is shown is found; and a cached token is good whenever  *)
(* it is sent, for any number of threads and any lengths of time that fit  *)
(* into the margin.                                                        *)
(***************************************************************************)
EXTENDS Accounts, Access, Catalogue, Gateways, TokenCache, FiniteSetTheorems, WellFoundedInduction, TLAPS

-----------------------------------------------------------------------------
(* Accounts: the inductive invariant.                                      *)

\* A token that is not gone belongs to an account there is, and the login it
\* goes back to was a token too.
TokensOK ==
  /\ \A t \in Tokens : token[t].status # "absent" =>
       /\ token[t].a \in AccountIds /\ token[t].login \in Tokens
       /\ token[token[t].login].status # "absent"
       /\ token[t].status # "gone" => Exists(token[t].a)
  /\ \A t \in Tokens : token[t].status = "absent" => token[t].a = Nobody
  /\ \A w \in Workers : At(w, "rotate") => job[w].t \in Tokens /\ token[job[w].t].status # "absent"

\* A guess that is being compared has its code for itself, and every guess that
\* was compared has been counted.
CodesOK ==
  /\ \A c \in Codes :
       /\ code[c].status # "absent" => code[c].a \in AccountIds
       /\ code[c].status \in {"open", "used"} => Exists(code[c].a)
       /\ code[c].guesses = code[c].attempts /\ code[c].attempts <= MaxAttempts
  /\ \A w \in Workers : At(w, "guess") =>
       LET j == job[w] IN
       /\ j.c \in Codes
       /\ code[j.c].status = "open" /\ code[j.c].a = j.a
       /\ code[j.c].attempts = j.n /\ j.n < MaxAttempts
       /\ \A v \in Workers \ {w} : job[v].c # j.c

\* Whoever works on an account works on one of the accounts.
JobsOK ==
  \A w \in Workers :
    job[w].step \in {"insert", "rename", "login", "change", "send", "guess"} => job[w].a \in AccountIds

\* One request at a time, what it has read still holds ...
OneBusy == \A v, w \in Workers : ~At(v, "idle") /\ ~At(w, "idle") => v = w
StillTrue ==
  \A w \in Workers :
    /\ job[w].step \in {"login", "change"} => Active(job[w].a)
    /\ At(w, "login") => job[w].n = account[job[w].a].era
    /\ At(w, "rotate") => Revocable(job[w].t)
    /\ At(w, "send") => Cardinality(Recent(job[w].a)) < MaxCodes

\* ... and no session is left behind and no code too many.
NoneLeft ==
  \A t \in Tokens : Revocable(t) =>
    /\ Active(token[t].a) /\ token[t].era = account[token[t].a].era
    /\ \A u \in Tokens \ {t} : Revocable(u) => token[u].login # token[t].login
FewCodes ==
  \A a \in AccountIds :
    /\ \A c, d \in OpenCodes(a) : c = d
    /\ Cardinality(Recent(a)) <= MaxCodes

AloneOK == Alone => OneBusy /\ StillTrue /\ NoneLeft /\ FewCodes

IInv == TypeOK /\ OneAccountPerEmail /\ TokensOK /\ CodesOK /\ JobsOK /\ AloneOK

-----------------------------------------------------------------------------
(* Types.                                                                  *)

\* The tables start empty and no request is in progress: every variable has its shape.
LEMMA TypeInit == Init => TypeOK
BY AccountsAssumption DEF Init, TypeOK, AccountRows, TokenRows, CodeRows, NoToken, NoCode, Jobs, Steps, Idle

\* A thread takes up a job.
LEMMA JobTyped ==
  ASSUME TypeOK, NEW w, NEW j \in Jobs, Become(w, j)
  PROVE  job' \in [Workers -> Jobs]
BY DEF TypeOK, Become

\* A worker that finishes its request leaves the jobs in shape.
LEMMA IdleTyped ==
  ASSUME TypeOK, NEW w, Finish(w)
  PROVE  job' \in [Workers -> Jobs]
BY JobTyped DEF Finish, Idle, Jobs, Steps

\* Revoking tokens keeps the token table's shape.
LEMMA RevokeTyped ==
  ASSUME TypeOK, NEW a
  PROVE  RevokeAll(a) \in [Tokens -> TokenRows]
BY DEF TypeOK, RevokeAll, TokenRows

\* A new password keeps the account table's shape.
LEMMA PasswordTyped ==
  ASSUME TypeOK, NEW a \in AccountIds
  PROVE  NewPassword(a) \in [AccountIds -> AccountRows]
BY DEF TypeOK, NewPassword, AccountRows

\* A token issued to a login has the shape of a token.
LEMMA SessionTyped ==
  ASSUME NEW u \in Tokens, NEW a \in AccountIds \cup {Nobody}, NEW login \in Tokens \cup {Nobody},
         NEW era \in Nat
  PROVE  Session(u, a, login, era) \in TokenRows
BY DEF Session, TokenRows

\* Every action keeps the tables and the requests in their types.
LEMMA TypeNext == TypeOK /\ TokensOK /\ CodesOK /\ JobsOK /\ [Next]_vars => TypeOK'
<1> SUFFICES ASSUME TypeOK, TokensOK, CodesOK, JobsOK, [Next]_vars PROVE TypeOK'
  OBVIOUS
<1> USE DEF TypeOK
<1>1. CASE UNCHANGED vars
  BY <1>1 DEF vars
<1>2. ASSUME NEW t \in Tokens, Reuse(t) PROVE TypeOK'
  BY <1>2, RevokeTyped DEF Reuse, AtOnce
<1>3. ASSUME NEW t \in Tokens, Logout(t) \/ Expire(t) PROVE TypeOK'
  BY <1>3 DEF Logout, Expire, AtOnce, TokenRows
<1>4. ASSUME NEW c \in Codes, Age(c) PROVE TypeOK'
  <2>1. code' \in [Codes -> CodeRows]
    BY <1>4 DEF Age, Ages, CodeRows
  <2> QED  BY <1>4, <2>1 DEF Age
<1>5. ASSUME NEW a \in AccountIds, LogoutAll(a) PROVE TypeOK'
  BY <1>5, RevokeTyped DEF LogoutAll, AtOnce
<1>6. ASSUME NEW a \in AccountIds, StaffReset(a) PROVE TypeOK'
  BY <1>6, RevokeTyped, PasswordTyped DEF StaffReset, AtOnce
<1>7. ASSUME NEW a \in AccountIds, Deactivate(a) \/ Activate(a) PROVE TypeOK'
  BY <1>7, RevokeTyped DEF Deactivate, Activate, AtOnce, AccountRows
<1>8. ASSUME NEW a \in AccountIds, DeleteUser(a) PROVE TypeOK'
  <2>1. account' \in [AccountIds -> AccountRows]
    BY <1>8 DEF DeleteUser, AccountRows
  <2>2. token' \in [Tokens -> TokenRows]
    BY <1>8 DEF DeleteUser, TokenRows
  <2>3. code' \in [Codes -> CodeRows]
    BY <1>8, SMTT(60) DEF DeleteUser, CodeRows
  <2> QED  BY <1>8, <2>1, <2>2, <2>3 DEF DeleteUser, AtOnce
<1>9. ASSUME NEW w \in Workers, NEW t \in Tokens, BeginRotate(w, t) PROVE TypeOK'
  BY <1>9 DEF BeginRotate, Start, Become, Idle, Jobs, Steps
<1>10. ASSUME NEW w \in Workers, NEW a \in AccountIds, BeginLogin(w, a) PROVE TypeOK'
  BY <1>10 DEF BeginLogin, Start, Become, Idle, Jobs, Steps, AccountRows
<1>11. ASSUME NEW w \in Workers, NEW a \in AccountIds, BeginChange(w, a) \/ BeginRequest(w, a)
       PROVE TypeOK'
  <2>1. /\ [Idle EXCEPT !.step = "change", !.a = a] \in Jobs
        /\ [Idle EXCEPT !.step = "send", !.a = a] \in Jobs
    BY DEF Idle, Jobs, Steps
  <2> QED  BY <1>11, <2>1, JobTyped DEF BeginChange, BeginRequest, Start
<1>12. ASSUME NEW w \in Workers, NEW a \in AccountIds, BeginGuess(w, a) PROVE TypeOK'
  <2>1. PICK c \in Codes : Start(w, "guess", [Idle EXCEPT !.step = "guess", !.a = a, !.c = c,
                                                          !.n = code[c].attempts])
    BY <1>12 DEF BeginGuess, OpenCodes
  <2>2. job' \in [Workers -> Jobs]
    BY <2>1 DEF Start, Become, Idle, Jobs, Steps, CodeRows
  <2> QED  BY <1>12, <2>2 DEF BeginGuess
<1>13. ASSUME NEW w \in Workers, NEW a \in AccountIds, NEW m \in Emails,
              BeginCreate(w, a, m) \/ BeginRename(w, a, m)
       PROVE TypeOK'
  <2>1. /\ [Idle EXCEPT !.step = "insert", !.a = a, !.m = m] \in Jobs
        /\ [Idle EXCEPT !.step = "rename", !.a = a, !.m = m] \in Jobs
    BY DEF Idle, Jobs, Steps
  <2> QED  BY <1>13, <2>1, JobTyped DEF BeginCreate, BeginRename, Start
<1>14. ASSUME NEW w \in Workers, Login(w) PROVE TypeOK'
  <2>1. token' \in [Tokens -> TokenRows]
    BY <1>14, SessionTyped DEF Login, Jobs
  <2> QED  BY <1>14, <2>1, IdleTyped DEF Login
<1>15. ASSUME NEW w \in Workers, Rotate(w) PROVE TypeOK'
  <2>1. token' \in [Tokens -> TokenRows]
    <3> DEFINE t == job[w].t
    <3>1. CASE token[t].status = "gone"
      BY <1>15, <3>1 DEF Rotate
    <3>2. CASE token[t].status # "gone"
      <4>1. PICK u \in Tokens : token' = Succeed(t, u)
        BY <1>15, <3>2 DEF Rotate
      <4>2. t \in Tokens
        BY <1>15 DEF Rotate, TokensOK
      <4>3. Session(u, token[t].a, token[t].login, token[t].era) \in TokenRows
        BY <4>2, SessionTyped DEF TokenRows
      <4>4. Succeed(t, u) \in [Tokens -> TokenRows]
        BY <4>3, ZenonT(60) DEF Succeed, TokenRows
      <4> QED  BY <4>1, <4>4
    <3> QED  BY <3>1, <3>2
  <2> QED  BY <1>15, <2>1, IdleTyped DEF Rotate
<1>16. ASSUME NEW w \in Workers, ChangePassword(w) PROVE TypeOK'
  <2> DEFINE a == job[w].a
  <2>1. CASE Exists(a)
    <3>1. a \in AccountIds
      BY <1>16 DEF ChangePassword, At, JobsOK
    <3>2. account' \in [AccountIds -> AccountRows]
      BY <1>16, <2>1, <3>1, PasswordTyped DEF ChangePassword
    <3>3. account[a].era + 1 \in Nat
      BY <3>1 DEF AccountRows
    <3>4. PICK u \in Tokens : token' = [RevokeAll(a) EXCEPT ![u] = Session(u, a, u, account[a].era + 1)]
      BY <1>16, <2>1 DEF ChangePassword
    <3>5. Session(u, a, u, account[a].era + 1) \in TokenRows
      BY <3>1, <3>3, SessionTyped
    <3>6. token' \in [Tokens -> TokenRows]
      BY <3>4, <3>5, RevokeTyped
    <3> QED  BY <1>16, <3>2, <3>6, IdleTyped DEF ChangePassword
  <2>2. CASE ~Exists(a)
    BY <1>16, <2>2, IdleTyped DEF ChangePassword
  <2> QED  BY <2>1, <2>2
<1>17. ASSUME NEW w \in Workers, SendCode(w) PROVE TypeOK'
  <2>1. code' \in [Codes -> CodeRows]
    <3>1. CASE Exists(job[w].a)
      <4>1. job[w].a \in AccountIds
        BY <1>17 DEF SendCode, At, JobsOK
      <4>2. [NoCode EXCEPT !.status = "open", !.a = job[w].a] \in CodeRows
        BY <4>1 DEF NoCode, CodeRows
      <4>3. \A c \in Codes : [code[c] EXCEPT !.status = "used"] \in CodeRows
        BY DEF CodeRows
      <4> QED  BY <1>17, <3>1, <4>2, <4>3 DEF SendCode
    <3>2. CASE ~Exists(job[w].a)
      BY <1>17, <3>2 DEF SendCode
    <3> QED  BY <3>1, <3>2
  <2> QED  BY <1>17, <2>1, IdleTyped DEF SendCode
<1>18. ASSUME NEW w \in Workers, WrongGuess(w) PROVE TypeOK'
  <2>1. code' \in [Codes -> CodeRows]
    <3> DEFINE c == job[w].c
               row == [code[c] EXCEPT !.attempts = job[w].n + 1, !.guesses = @ + 1]
    <3>1. c \in Codes
      BY <1>18 DEF WrongGuess, CodesOK
    <3>2. row \in CodeRows
      <4>1. job[w].n + 1 \in Nat /\ code[c].guesses + 1 \in Nat /\ code[c] \in CodeRows
        BY <3>1 DEF CodeRows, Jobs
      <4> QED  BY <4>1 DEF CodeRows
    <3>3. code' = [code EXCEPT ![c] = row]
      BY <1>18, <3>1 DEF WrongGuess
    <3> QED  BY <3>2, <3>3
  <2> QED  BY <1>18, <2>1, IdleTyped DEF WrongGuess
<1>19. ASSUME NEW w \in Workers, ResetPassword(w) PROVE TypeOK'
  <2>1. code' \in [Codes -> CodeRows]
    BY <1>19, ZenonT(60) DEF ResetPassword, CodeRows
  <2>2. job[w].a \in AccountIds
    BY <1>19 DEF ResetPassword, At, JobsOK
  <2> QED  BY <1>19, <2>1, <2>2, IdleTyped, RevokeTyped, PasswordTyped DEF ResetPassword
<1>20. ASSUME NEW w \in Workers, CreateUser(w) \/ Rename(w) PROVE TypeOK'
  <2>1. account' \in [AccountIds -> AccountRows]
    <3>1. [status |-> "active", email |-> job[w].m, era |-> 0] \in AccountRows /\ job[w].m \in Emails \cup {Nobody}
      BY DEF AccountRows, Jobs
    <3>2. CASE CreateUser(w)
      BY <3>1, <3>2 DEF CreateUser
    <3>3. CASE Rename(w)
      BY <3>1, <3>3 DEF Rename, AccountRows
    <3> QED  BY <1>20, <3>2, <3>3
  <2> QED  BY <1>20, <2>1, IdleTyped DEF CreateUser, Rename
<1>21. ASSUME NEW w \in Workers, Crash(w) PROVE TypeOK'
  BY <1>21, IdleTyped DEF Crash
<1> QED  BY <1>1, <1>2, <1>3, <1>4, <1>5, <1>6, <1>7, <1>8, <1>9, <1>10, <1>11, <1>12, <1>13, <1>14,
            <1>15, <1>16, <1>17, <1>18, <1>19, <1>20, <1>21 DEF Next

-----------------------------------------------------------------------------
(* Which steps write which table.                                          *)

\* Exists(a)', for an account that was read before the step.
Stays(a) == account'[a].status \in {"active", "inactive"}

\* The steps that write auth_accounts.
LEMMA AccountSteps ==
  ASSUME [Next]_vars
  PROVE  \/ UNCHANGED account
         \/ \E a \in AccountIds : StaffReset(a) \/ Deactivate(a) \/ Activate(a) \/ DeleteUser(a)
         \/ \E w \in Workers : ChangePassword(w) \/ ResetPassword(w) \/ CreateUser(w) \/ Rename(w)
BY DEF Next, vars, Reuse, Logout, Expire, Age, LogoutAll, BeginRotate, BeginLogin, BeginChange,
       BeginRequest, BeginGuess, BeginCreate, BeginRename, Login, Rotate, SendCode, WrongGuess, Crash

\* The steps that write refresh_tokens.
LEMMA TokenSteps ==
  ASSUME [Next]_vars
  PROVE  \/ UNCHANGED token
         \/ \E t \in Tokens : Reuse(t) \/ Logout(t) \/ Expire(t)
         \/ \E a \in AccountIds : LogoutAll(a) \/ StaffReset(a) \/ Deactivate(a) \/ DeleteUser(a)
         \/ \E w \in Workers : Login(w) \/ Rotate(w) \/ ChangePassword(w) \/ ResetPassword(w)
BY DEF Next, vars, Age, Activate, BeginRotate, BeginLogin, BeginChange,
       BeginRequest, BeginGuess, BeginCreate, BeginRename, SendCode, WrongGuess, CreateUser, Rename, Crash

\* The steps that write otp_verifications.
LEMMA CodeSteps ==
  ASSUME [Next]_vars
  PROVE  \/ UNCHANGED code
         \/ \E c \in Codes : Age(c)
         \/ \E a \in AccountIds : DeleteUser(a)
         \/ \E w \in Workers : SendCode(w) \/ WrongGuess(w) \/ ResetPassword(w)
BY DEF Next, vars, Reuse, Logout, Expire, LogoutAll, StaffReset, Deactivate, Activate, BeginRotate,
       BeginLogin, BeginChange, BeginRequest, BeginGuess, BeginCreate, BeginRename, Login, Rotate,
       ChangePassword, CreateUser, Rename, Crash

\* A change of password leaves status and email alone, and so does one of
\* is_active the email.
LEMMA PasswordKeeps ==
  ASSUME TypeOK, NEW b \in AccountIds, account' = NewPassword(b), NEW a \in AccountIds
  PROVE  account'[a].status = account[a].status /\ account'[a].email = account[a].email
<1>1. account[a] \in AccountRows
  BY DEF TypeOK
<1> QED  BY <1>1 DEF TypeOK, NewPassword, AccountRows

\* Switching an account on or off changes neither its email nor its password.
LEMMA StatusKeeps ==
  ASSUME TypeOK, NEW b \in AccountIds, Exists(b), NEW s \in {"active", "inactive"},
         account' = [account EXCEPT ![b].status = s], NEW a \in AccountIds
  PROVE  (Stays(a) <=> Exists(a)) /\ account'[a].email = account[a].email
<1>1. account[a] \in AccountRows
  BY DEF TypeOK
<1> QED  BY <1>1 DEF TypeOK, Exists, AccountRows, Stays

\* A step that changes an account other than by deleting it, giving it an email
\* or creating it keeps which accounts there are, and their emails.
LEMMA OtherSteps ==
  ASSUME TypeOK, JobsOK,
         \/ \E b \in AccountIds : StaffReset(b) \/ Deactivate(b) \/ Activate(b)
         \/ \E w \in Workers : ChangePassword(w) \/ ResetPassword(w),
         NEW a \in AccountIds
  PROVE  (Stays(a) <=> Exists(a)) /\ account'[a].email = account[a].email
<1>1. ASSUME NEW b \in AccountIds, StaffReset(b) PROVE account' = NewPassword(b)
  BY <1>1 DEF StaffReset
<1>2. ASSUME NEW w \in Workers, ChangePassword(w)
      PROVE  job[w].a \in AccountIds /\ (UNCHANGED account \/ account' = NewPassword(job[w].a))
  BY <1>2 DEF ChangePassword, At, JobsOK
<1>3. ASSUME NEW w \in Workers, ResetPassword(w)
      PROVE  job[w].a \in AccountIds /\ account' = NewPassword(job[w].a)
  BY <1>3 DEF ResetPassword, At, JobsOK
<1>4. ASSUME NEW b \in AccountIds, Deactivate(b) \/ Activate(b)
      PROVE  Exists(b) /\ \E s \in {"active", "inactive"} : account' = [account EXCEPT ![b].status = s]
  BY <1>4 DEF Deactivate, Activate, Exists
<1>5. CASE UNCHANGED account
  BY <1>5 DEF Exists, Stays
<1>6. ASSUME NEW b \in AccountIds, account' = NewPassword(b)
      PROVE  (Stays(a) <=> Exists(a)) /\ account'[a].email = account[a].email
  BY <1>6, PasswordKeeps DEF Exists, Stays
<1> QED  BY <1>1, <1>2, <1>3, <1>4, <1>5, <1>6, StatusKeeps

\* Only a deletion takes an account away.
LEMMA AccountsStay ==
  ASSUME TypeOK, JobsOK, [Next]_vars, NEW a \in AccountIds, Exists(a), ~DeleteUser(a)
  PROVE  Stays(a)
<1>1. CASE UNCHANGED account
  BY <1>1 DEF Exists, Stays
<1>2. ASSUME NEW b \in AccountIds, DeleteUser(b) PROVE Stays(a)
  BY <1>2 DEF TypeOK, DeleteUser, Exists, Stays
<1>3. ASSUME NEW w \in Workers, CreateUser(w) PROVE Stays(a)
  BY <1>3 DEF TypeOK, Exists, CreateUser, Stays
<1>4. ASSUME NEW w \in Workers, Rename(w) PROVE Stays(a)
  <2>1. account[a] \in AccountRows
    BY DEF TypeOK
  <2> QED  BY <1>4, <2>1 DEF TypeOK, Exists, Rename, AccountRows, Stays
<1> QED  BY <1>1, <1>2, <1>3, <1>4, AccountSteps, OtherSteps

-----------------------------------------------------------------------------
(* Emails.                                                                 *)

\* The unique key refuses the second of two requests that found an email free.
LEMMA EmailsNext ==
  ASSUME TypeOK, JobsOK, OneAccountPerEmail, [Next]_vars
  PROVE  OneAccountPerEmail'
<1>1. CASE UNCHANGED account
  BY <1>1 DEF OneAccountPerEmail, Exists
<1>2. ASSUME \A a \in AccountIds : (Stays(a) <=> Exists(a)) /\ account'[a].email = account[a].email
      PROVE  OneAccountPerEmail'
  BY <1>2 DEF OneAccountPerEmail, Stays, Exists
<1>3. ASSUME NEW b \in AccountIds, DeleteUser(b) PROVE OneAccountPerEmail'
  BY <1>3 DEF TypeOK, OneAccountPerEmail, Exists, DeleteUser
<1>4. ASSUME NEW w \in Workers, CreateUser(w) PROVE OneAccountPerEmail'
  BY <1>4 DEF TypeOK, OneAccountPerEmail, Exists, CreateUser, EmailTaken, HasEmail
<1>5. ASSUME NEW w \in Workers, Rename(w) PROVE OneAccountPerEmail'
  BY <1>5 DEF TypeOK, OneAccountPerEmail, Exists, Rename, EmailTaken, HasEmail
<1>6. \/ UNCHANGED account
      \/ \A a \in AccountIds : (Stays(a) <=> Exists(a)) /\ account'[a].email = account[a].email
      \/ \E b \in AccountIds : DeleteUser(b)
      \/ \E w \in Workers : CreateUser(w) \/ Rename(w)
  BY AccountSteps, OtherSteps
<1> QED  BY <1>1, <1>2, <1>3, <1>4, <1>5, <1>6

-----------------------------------------------------------------------------
(* Requests.                                                               *)

\* A request works on one of the accounts, from its start to its end.
LEMMA JobsNext ==
  ASSUME TypeOK, JobsOK, [Next]_vars
  PROVE  JobsOK'
<1> DEFINE Kept == \A w \in Workers : job'[w] = job[w] \/ job'[w] = Idle
<1>1. Kept => JobsOK'
  BY DEF JobsOK, Idle
<1>2. ASSUME NEW w \in Workers, Finish(w) PROVE Kept
  BY <1>2 DEF TypeOK, Finish, Become
<1>3. CASE UNCHANGED vars
  BY <1>1, <1>3 DEF vars
<1>4. ASSUME NEW t \in Tokens, Reuse(t) \/ Logout(t) \/ Expire(t) PROVE JobsOK'
  BY <1>1, <1>4 DEF Reuse, Logout, Expire, AtOnce
<1>5. ASSUME NEW c \in Codes, Age(c) PROVE JobsOK'
  BY <1>1, <1>5 DEF Age
<1>6. ASSUME NEW a \in AccountIds,
             LogoutAll(a) \/ StaffReset(a) \/ Deactivate(a) \/ Activate(a) \/ DeleteUser(a)
      PROVE  JobsOK'
  BY <1>1, <1>6 DEF LogoutAll, StaffReset, Deactivate, Activate, DeleteUser, AtOnce
<1>7. ASSUME NEW w \in Workers, NEW j, j.a \in AccountIds \/ j.step = "rotate", Become(w, j)
      PROVE  JobsOK'
  BY <1>7 DEF TypeOK, JobsOK, Become
<1>8. ASSUME NEW w \in Workers, NEW t \in Tokens, BeginRotate(w, t) PROVE JobsOK'
  BY <1>7, <1>8 DEF BeginRotate, Start, Idle
<1>9. ASSUME NEW w \in Workers, NEW a \in AccountIds,
             BeginLogin(w, a) \/ BeginChange(w, a) \/ BeginRequest(w, a)
      PROVE  JobsOK'
  BY <1>7, <1>9 DEF BeginLogin, BeginChange, BeginRequest, Start, Idle
<1>10. ASSUME NEW w \in Workers, NEW a \in AccountIds, BeginGuess(w, a) PROVE JobsOK'
  <2>1. PICK c \in Codes : Become(w, [Idle EXCEPT !.step = "guess", !.a = a, !.c = c, !.n = code[c].attempts])
    BY <1>10 DEF BeginGuess, OpenCodes, Start
  <2> QED  BY <1>7, <2>1 DEF Idle
<1>11. ASSUME NEW w \in Workers, NEW a \in AccountIds, NEW m \in Emails,
              BeginCreate(w, a, m) \/ BeginRename(w, a, m)
       PROVE  JobsOK'
  BY <1>7, <1>11 DEF BeginCreate, BeginRename, Start, Idle
<1>12. ASSUME NEW w \in Workers,
              \/ Login(w) \/ Rotate(w) \/ ChangePassword(w) \/ SendCode(w) \/ WrongGuess(w)
              \/ ResetPassword(w) \/ CreateUser(w) \/ Rename(w) \/ Crash(w)
       PROVE  JobsOK'
  <2>1. Finish(w)
    BY <1>12 DEF Login, Rotate, ChangePassword, SendCode, WrongGuess, ResetPassword, CreateUser, Rename, Crash
  <2> QED  BY <1>1, <1>2, <2>1
<1> QED  BY <1>3, <1>4, <1>5, <1>6, <1>8, <1>9, <1>10, <1>11, <1>12 DEF Next

\* Each kind of request is a step of its own.
LEMMA JobStep ==
  ASSUME TypeOK, NEW w \in Workers, NEW a, NEW m
  PROVE  /\ BeginLogin(w, a) => job'[w].step = "login"
         /\ BeginChange(w, a) => job'[w].step = "change"
         /\ BeginRequest(w, a) => job'[w].step = "send"
         /\ BeginGuess(w, a) => job'[w].step = "guess"
         /\ BeginCreate(w, a, m) => job'[w].step = "insert"
         /\ BeginRename(w, a, m) => job'[w].step = "rename"
<1>1. ASSUME NEW j, Become(w, j) PROVE job'[w] = j
  BY <1>1 DEF TypeOK, Become
<1>2. BeginGuess(w, a) => job'[w].step = "guess"
  <2> SUFFICES ASSUME BeginGuess(w, a) PROVE job'[w].step = "guess"
    OBVIOUS
  <2>1. PICK c \in Codes : Become(w, [Idle EXCEPT !.step = "guess", !.a = a, !.c = c, !.n = code[c].attempts])
    BY DEF BeginGuess, OpenCodes, Start
  <2> QED  BY <1>1, <2>1 DEF Idle
<1> QED  BY <1>1, <1>2 DEF BeginLogin, BeginChange, BeginRequest, BeginCreate, BeginRename, Start, Idle

\* A thread takes up a new job only by beginning a request, and only when it has none.
LEMMA JobBegins ==
  ASSUME TypeOK, [Next]_vars, NEW w \in Workers, job'[w] # job[w], job'[w] # Idle
  PROVE  \/ \E t \in Tokens : BeginRotate(w, t)
         \/ \E a \in AccountIds :
              \/ BeginLogin(w, a) \/ BeginChange(w, a) \/ BeginRequest(w, a) \/ BeginGuess(w, a)
              \/ \E m \in Emails : BeginCreate(w, a, m) \/ BeginRename(w, a, m)
<1>1. ASSUME NEW v \in Workers, NEW j, Become(v, j) PROVE v = w /\ j # Idle
  BY <1>1 DEF TypeOK, Become
<1>2. ASSUME NEW v \in Workers, Finish(v) PROVE FALSE
  BY <1>1, <1>2 DEF Finish
<1>3. job' # job
  OBVIOUS
<1>4. ~UNCHANGED vars
  BY <1>3 DEF vars
<1>5. ~\E t \in Tokens : Reuse(t) \/ Logout(t) \/ Expire(t)
  BY <1>3 DEF Reuse, Logout, Expire, AtOnce
<1>6. ~\E c \in Codes : Age(c)
  BY <1>3 DEF Age
<1>7. ~\E a \in AccountIds :
         LogoutAll(a) \/ StaffReset(a) \/ Deactivate(a) \/ Activate(a) \/ DeleteUser(a)
  BY <1>3 DEF LogoutAll, StaffReset, Deactivate, Activate, DeleteUser, AtOnce
<1>8. ASSUME NEW v \in Workers,
             \/ Login(v) \/ Rotate(v) \/ ChangePassword(v) \/ SendCode(v) \/ WrongGuess(v)
             \/ ResetPassword(v) \/ CreateUser(v) \/ Rename(v) \/ Crash(v)
      PROVE  FALSE
  BY <1>2, <1>8 DEF Login, Rotate, ChangePassword, SendCode, WrongGuess, ResetPassword, CreateUser, Rename, Crash
<1>9. ASSUME NEW v \in Workers, NEW t \in Tokens, BeginRotate(v, t) PROVE v = w
  BY <1>1, <1>9 DEF BeginRotate, Start
<1>10. ASSUME NEW v \in Workers, NEW a \in AccountIds,
              BeginLogin(v, a) \/ BeginChange(v, a) \/ BeginRequest(v, a)
       PROVE  v = w
  BY <1>1, <1>10 DEF BeginLogin, BeginChange, BeginRequest, Start
<1>11. ASSUME NEW v \in Workers, NEW a \in AccountIds, BeginGuess(v, a) PROVE v = w
  BY <1>1, <1>11 DEF BeginGuess, Start
<1>12. ASSUME NEW v \in Workers, NEW a \in AccountIds, NEW m \in Emails,
              BeginCreate(v, a, m) \/ BeginRename(v, a, m)
       PROVE  v = w
  BY <1>1, <1>12 DEF BeginCreate, BeginRename, Start
<1> QED  BY <1>4, <1>5, <1>6, <1>7, <1>8, <1>9, <1>10, <1>11, <1>12 DEF Next

-----------------------------------------------------------------------------
(* Sessions.                                                               *)

\* What a new or a changed row of refresh_tokens must satisfy for TokensOK, where
\* the accounts there are stay.
LEMMA TokensKept ==
  ASSUME TypeOK, TokensOK, token' \in [Tokens -> TokenRows],
         \A a \in AccountIds : Exists(a) => Stays(a),
         \A t \in Tokens :
           \/ token'[t] = token[t]
           \/ /\ token[t].status # "absent" /\ token'[t].status \in {"live", "expired", "revoked"}
              /\ token[t].status # "gone"
              /\ token'[t].a = token[t].a /\ token'[t].login = token[t].login
           \/ /\ token'[t].status = "live"
              /\ token'[t].a \in AccountIds /\ Stays(token'[t].a)
              /\ token'[t].login \in Tokens
              /\ token'[t].login = t \/ token[token'[t].login].status # "absent"
  PROVE  \A t \in Tokens : /\ token[t].status # "absent" => token'[t].status # "absent"
                           /\ token'[t].status = "absent" => token'[t].a = Nobody
                           /\ token'[t].status # "absent" =>
                                /\ token'[t].a \in AccountIds /\ token'[t].login \in Tokens
                                /\ token'[token'[t].login].status # "absent"
                                /\ token'[t].status # "gone" => Stays(token'[t].a)
<1>1. \A t \in Tokens : token[t].status # "absent" => token'[t].status # "absent"
  OBVIOUS
<1> QED  BY <1>1 DEF TokensOK

\* Revoking changes the status of tokens that are not gone, and nothing else.
LEMMA RevokeKeeps ==
  ASSUME TypeOK, NEW a, NEW t \in Tokens
  PROVE  \/ RevokeAll(a)[t] = token[t]
         \/ /\ token[t].a = a /\ Revocable(t)
            /\ RevokeAll(a)[t].status = "revoked" /\ RevokeAll(a)[t].a = token[t].a
            /\ RevokeAll(a)[t].login = token[t].login
<1>1. token[t] \in TokenRows
  BY DEF TypeOK
<1> QED  BY <1>1 DEF RevokeAll, TokenRows

\* The rows of refresh_tokens after a step: as before, with a status of their own
\* account, or of a new session.
LEMMA TokensAfter ==
  ASSUME TypeOK, JobsOK, TokensOK, [Next]_vars, ~\E a \in AccountIds : DeleteUser(a),
         NEW t \in Tokens
  PROVE  \/ token'[t] = token[t]
         \/ /\ token[t].status # "absent" /\ token'[t].status \in {"live", "expired", "revoked"}
            /\ token[t].status # "gone"
            /\ token'[t].a = token[t].a /\ token'[t].login = token[t].login
         \/ /\ token'[t].status = "live"
            /\ token'[t].a \in AccountIds /\ Stays(token'[t].a)
            /\ token'[t].login \in Tokens
            /\ token'[t].login = t \/ token[token'[t].login].status # "absent"
<1> DEFINE Ok == \/ token'[t] = token[t]
                 \/ /\ token[t].status # "absent" /\ token'[t].status \in {"live", "expired", "revoked"}
                    /\ token[t].status # "gone"
                    /\ token'[t].a = token[t].a /\ token'[t].login = token[t].login
                 \/ /\ token'[t].status = "live"
                    /\ token'[t].a \in AccountIds /\ Stays(token'[t].a)
                    /\ token'[t].login \in Tokens
                    /\ token'[t].login = t \/ token[token'[t].login].status # "absent"
<1>0. token[t] \in TokenRows
  BY DEF TypeOK
<1>1. ASSUME NEW a, token' = RevokeAll(a) PROVE Ok
  BY <1>1, RevokeKeeps DEF Revocable
<1>2. ASSUME NEW u \in Tokens, Logout(u) \/ Expire(u) PROVE Ok
  BY <1>0, <1>2 DEF TypeOK, Logout, Expire, Revocable, TokenRows
<1>3. ASSUME NEW w \in Workers, Login(w) PROVE Ok
  <2>1. CASE Exists(job[w].a)
    <3>1. job[w].a \in AccountIds
      BY <1>3 DEF Login, At, JobsOK
    <3>2. Stays(job[w].a)
      BY <2>1, <3>1, AccountsStay
    <3>3. PICK u \in Tokens : token' = [token EXCEPT ![u] = Session(u, job[w].a, u, job[w].n)]
      BY <1>3, <2>1 DEF Login
    <3> QED  BY <3>1, <3>2, <3>3 DEF TypeOK, Session
  <2>2. CASE ~Exists(job[w].a)
    BY <1>3, <2>2 DEF Login
  <2> QED  BY <2>1, <2>2
<1>4. ASSUME NEW w \in Workers, Rotate(w) PROVE Ok
  <2> DEFINE s == job[w].t
  <2>1. s \in Tokens /\ token[s].status # "absent"
    BY <1>4 DEF Rotate, TokensOK
  <2>2. CASE token[s].status = "gone"
    BY <1>4, <2>2 DEF Rotate
  <2>3. CASE token[s].status # "gone"
    <3>1. PICK u \in Tokens : NewToken(u) /\ token' = Succeed(s, u)
      BY <1>4, <2>3 DEF Rotate
    <3>2. u # s
      BY <2>1, <3>1 DEF NewToken, LowestOf
    <3>3. /\ token[s].a \in AccountIds /\ Exists(token[s].a)
          /\ token[s].login \in Tokens /\ token[token[s].login].status # "absent"
      BY <2>1, <2>3 DEF TokensOK
    <3>4. Stays(token[s].a)
      BY <3>3, AccountsStay
    <3>5. token[s] \in TokenRows
      BY <2>1 DEF TypeOK
    <3>6. CASE t = u
      <4>1. token'[t] = Session(u, token[s].a, token[s].login, token[s].era)
        BY <3>1, <3>2, <3>6 DEF TypeOK, Succeed
      <4> QED  BY <3>3, <3>4, <4>1 DEF Session
    <3>7. CASE t = s
      <4>1. token'[t] = [token[s] EXCEPT !.status = "revoked", !.replaced = u]
        BY <3>1, <3>2, <3>7, <2>1 DEF TypeOK, Succeed
      <4> QED  BY <2>1, <2>3, <3>5, <3>7, <4>1 DEF TokenRows
    <3>8. CASE t # u /\ t # s
      BY <3>1, <3>8 DEF TypeOK, Succeed
    <3> QED  BY <3>6, <3>7, <3>8
  <2> QED  BY <2>2, <2>3
<1>5. ASSUME NEW w \in Workers, ChangePassword(w) PROVE Ok
  <2> DEFINE a == job[w].a
  <2>1. CASE Exists(a)
    <3>1. a \in AccountIds
      BY <1>5 DEF ChangePassword, At, JobsOK
    <3>2. Stays(a)
      BY <2>1, <3>1, AccountsStay
    <3>3. PICK u \in Tokens : token' = [RevokeAll(a) EXCEPT ![u] = Session(u, a, u, account[a].era + 1)]
      BY <1>5, <2>1 DEF ChangePassword
    <3>4. CASE t = u
      BY <3>1, <3>2, <3>3, <3>4, RevokeTyped DEF Session
    <3>5. CASE t # u
      BY <3>3, <3>5, RevokeTyped, RevokeKeeps DEF Revocable
    <3> QED  BY <3>4, <3>5
  <2>2. CASE ~Exists(a)
    BY <1>5, <2>2 DEF ChangePassword
  <2> QED  BY <2>1, <2>2
<1>6. CASE \E u \in Tokens : Reuse(u)
  BY <1>1, <1>6 DEF Reuse
<1>7. CASE \E a \in AccountIds : LogoutAll(a) \/ StaffReset(a) \/ Deactivate(a)
  BY <1>1, <1>7 DEF LogoutAll, StaffReset, Deactivate
<1>8. CASE \E w \in Workers : ResetPassword(w)
  BY <1>1, <1>8 DEF ResetPassword
<1> QED  BY <1>2, <1>3, <1>4, <1>5, <1>6, <1>7, <1>8, TokenSteps

\* A rotation starts from a token there is, and holds on to it.
LEMMA RotationsNext ==
  ASSUME TypeOK, TokensOK, [Next]_vars,
         \A t \in Tokens : token[t].status # "absent" => token'[t].status # "absent"
  PROVE  (\A w \in Workers : At(w, "rotate") => job[w].t \in Tokens /\ token[job[w].t].status # "absent")'
<1> SUFFICES ASSUME NEW w \in Workers, At(w, "rotate")'
             PROVE  job'[w].t \in Tokens /\ token'[job'[w].t].status # "absent"
  OBVIOUS
<1>1. CASE job'[w] = job[w]
  BY <1>1 DEF At, TokensOK
<1>2. CASE job'[w] # job[w]
  <2>1. PICK t \in Tokens : BeginRotate(w, t)
    <3>1. job'[w] # Idle /\ job'[w].step = "rotate"
      BY DEF At, Idle
    <3>2. ~\E a \in AccountIds :
             \/ BeginLogin(w, a) \/ BeginChange(w, a) \/ BeginRequest(w, a) \/ BeginGuess(w, a)
             \/ \E m \in Emails : BeginCreate(w, a, m) \/ BeginRename(w, a, m)
      BY <3>1, JobStep DEF TypeOK
    <3> QED  BY <1>2, <3>1, <3>2, JobBegins
  <2>2. job'[w].t = t /\ token[t].status # "absent"
    BY <2>1 DEF TypeOK, BeginRotate, Start, Become, Idle
  <2> QED  BY <2>2
<1> QED  BY <1>1, <1>2

\* Every step keeps TokensOK: tokens belong to accounts that exist.
LEMMA TokensNext ==
  ASSUME TypeOK, TypeOK', JobsOK, TokensOK, [Next]_vars
  PROVE  TokensOK'
<1>1. CASE ~\E a \in AccountIds : DeleteUser(a)
  <2>1. \A a \in AccountIds : Exists(a) => Stays(a)
    BY <1>1, AccountsStay
  <2>2. token' \in [Tokens -> TokenRows]
    BY DEF TypeOK
  <2> QED  BY <1>1, <2>1, <2>2, TokensAfter, TokensKept, RotationsNext DEF TokensOK, Stays, Exists
<1>2. ASSUME NEW a \in AccountIds, DeleteUser(a) PROVE TokensOK'
  <2>1. ASSUME NEW t \in Tokens
        PROVE  /\ token'[t].a = token[t].a /\ token'[t].login = token[t].login
               /\ token'[t].status = IF token[t].a = a THEN "gone" ELSE token[t].status
    <3>1. token[t] \in TokenRows
      BY DEF TypeOK
    <3> QED  BY <1>2, <3>1 DEF DeleteUser, TokenRows
  <2>2. \A b \in AccountIds \ {a} : Exists(b) => Stays(b)
    BY <1>2 DEF TypeOK, DeleteUser, Exists, Stays
  <2>3. UNCHANGED job
    BY <1>2 DEF DeleteUser, AtOnce
  <2>4. \A t \in Tokens : token[t].status # "absent" => token'[t].status # "absent"
    BY <2>1
  <2>5. \A t \in Tokens : token[t].status = "absent" => token[t].a # a
    BY AccountsAssumption DEF TokensOK
  <2>6. ASSUME NEW t \in Tokens, token'[t].status # "absent"
        PROVE  /\ token'[t].a \in AccountIds /\ token'[t].login \in Tokens
               /\ token'[token'[t].login].status # "absent"
               /\ token'[t].status # "gone" => Stays(token'[t].a)
    BY <2>1, <2>2, <2>4, <2>5, <2>6 DEF TokensOK
  <2>7. \A t \in Tokens : token'[t].status = "absent" => token'[t].a = Nobody
    BY <2>1 DEF TokensOK
  <2> QED  BY <2>3, <2>4, <2>6, <2>7 DEF TokensOK, At, Stays, Exists
<1> QED  BY <1>1, <1>2

-----------------------------------------------------------------------------
(* Codes.                                                                  *)

\* The rows of otp_verifications after a step, where the accounts there are stay.
LEMMA CodeRowsNext ==
  ASSUME TypeOK, TypeOK', JobsOK, CodesOK, [Next]_vars, NEW c \in Codes
  PROVE  /\ code'[c].status # "absent" => code'[c].a \in AccountIds
         /\ code'[c].status \in {"open", "used"} => Stays(code'[c].a)
         /\ code'[c].guesses = code'[c].attempts /\ code'[c].attempts <= MaxAttempts
<1> DEFINE Ok == /\ code'[c].status # "absent" => code'[c].a \in AccountIds
                 /\ code'[c].status \in {"open", "used"} => Stays(code'[c].a)
                 /\ code'[c].guesses = code'[c].attempts /\ code'[c].attempts <= MaxAttempts
<1>0. code[c] \in CodeRows /\ code \in [Codes -> CodeRows]
  BY DEF TypeOK
<1>1. ASSUME NEW a \in AccountIds, DeleteUser(a) PROVE Ok
  <2>1. code'[c] = IF code[c].a = a THEN [code[c] EXCEPT !.status = "gone"] ELSE code[c]
    BY <1>1 DEF DeleteUser
  <2>2. \A b \in AccountIds \ {a} : Exists(b) => Stays(b)
    BY <1>1 DEF TypeOK, DeleteUser, Exists, Stays
  <2>3. CASE code[c].a = a
    BY <1>0, <2>1, <2>3 DEF CodesOK, CodeRows
  <2>4. CASE code[c].a # a
    BY <2>1, <2>2, <2>4 DEF CodesOK
  <2> QED  BY <2>3, <2>4
<1>2. CASE ~\E a \in AccountIds : DeleteUser(a)
  <2>1. \A b \in AccountIds : Exists(b) => Stays(b)
    BY <1>2, AccountsStay
  <2>2. ASSUME \/ code'[c] = code[c]
               \/ /\ code'[c].a = code[c].a /\ code'[c].guesses = code[c].guesses
                  /\ code'[c].attempts = code[c].attempts
                  /\ code[c].status \in {"open", "used"} /\ code'[c].status \in {"open", "used"}
        PROVE  Ok
    BY <2>1, <2>2 DEF CodesOK
  <2>3. CASE UNCHANGED code
    BY <2>2, <2>3
  <2>4. ASSUME NEW d \in Codes, Age(d) PROVE Ok
    <3>1. PICK i \in 1..2 : code' = [code EXCEPT ![d].age = Ages[i + 1]]
      BY <2>4 DEF Age
    <3>2. CASE c = d
      <4>1. code'[c] = [code[c] EXCEPT !.age = Ages[i + 1]]
        BY <1>0, <3>1, <3>2
      <4> QED  BY <1>0, <2>2, <2>4, <3>2, <4>1 DEF CodeRows, Age
    <3>3. CASE c # d
      BY <1>0, <2>2, <3>1, <3>3
    <3> QED  BY <3>2, <3>3
  <2>5. ASSUME NEW w \in Workers, SendCode(w) PROVE Ok
    <3> DEFINE a == job[w].a
    <3>1. CASE Exists(a)
      <4>1. a \in AccountIds
        BY <2>5 DEF SendCode, At, JobsOK
      <4>2. Stays(a)
        BY <2>1, <3>1, <4>1
      <4>3. PICK new \in Codes :
              code'[c] = IF c \in OpenCodes(a) THEN [code[c] EXCEPT !.status = "used"]
                         ELSE IF c = new THEN [NoCode EXCEPT !.status = "open", !.a = a]
                         ELSE code[c]
        BY <2>5, <3>1 DEF SendCode
      <4>4. CASE c \in OpenCodes(a)
        BY <1>0, <2>2, <4>3, <4>4 DEF OpenCodes, CodeRows
      <4>5. CASE c \notin OpenCodes(a) /\ c = new
        BY <4>1, <4>2, <4>3, <4>5, AccountsAssumption DEF NoCode
      <4>6. CASE c \notin OpenCodes(a) /\ c # new
        BY <2>2, <4>3, <4>6
      <4> QED  BY <4>4, <4>5, <4>6
    <3>2. CASE ~Exists(a)
      BY <2>2, <2>5, <3>2 DEF SendCode
    <3> QED  BY <3>1, <3>2
  <2>6. ASSUME NEW w \in Workers, WrongGuess(w) PROVE Ok
    <3> DEFINE j == job[w]
    <3>1. j.c \in Codes /\ code[j.c].status = "open" /\ code[j.c].attempts = j.n /\ j.n < MaxAttempts
      BY <2>6 DEF WrongGuess, CodesOK
    <3>2. CASE c = j.c
      <4>1. code'[c] = [code[c] EXCEPT !.attempts = j.n + 1, !.guesses = @ + 1]
        BY <1>0, <2>6, <3>2 DEF WrongGuess
      <4>2. /\ code'[c].attempts = j.n + 1 /\ code'[c].guesses = code[c].guesses + 1
            /\ code'[c].a = code[c].a /\ code'[c].status = code[c].status
        BY <1>0, <4>1 DEF CodeRows
      <4>3. code[c].guesses = j.n /\ j.n \in Nat /\ MaxAttempts \in Nat
        BY <1>0, <3>1, <3>2, AccountsAssumption DEF CodesOK, CodeRows
      <4>4. j.n + 1 <= MaxAttempts
        BY <3>1, <4>3
      <4> HIDE DEF j
      <4> QED  BY <2>1, <3>1, <3>2, <4>2, <4>3, <4>4 DEF CodesOK
    <3>3. CASE c # j.c
      BY <1>0, <2>2, <2>6, <3>1, <3>3 DEF WrongGuess
    <3> QED  BY <3>2, <3>3
  <2>7. ASSUME NEW w \in Workers, ResetPassword(w) PROVE Ok
    <3> DEFINE d == job[w].c
    <3>1. d \in Codes /\ code[d].status = "open"
      BY <2>7 DEF ResetPassword, CodesOK
    <3>2. CASE c = d
      <4>1. code'[c] = [code[c] EXCEPT !.status = "used"]
        BY <1>0, <2>7, <3>2 DEF ResetPassword
      <4> QED  BY <1>0, <2>2, <3>1, <3>2, <4>1 DEF CodeRows
    <3>3. CASE c # d
      BY <1>0, <2>2, <2>7, <3>1, <3>3 DEF ResetPassword
    <3> QED  BY <3>2, <3>3
  <2> QED  BY <1>2, <2>3, <2>4, <2>5, <2>6, <2>7, CodeSteps
<1> QED  BY <1>1, <1>2

\* Only a guess takes hold of a code, and only of one nobody holds.
LEMMA CodeTaken ==
  ASSUME TypeOK, [Next]_vars, NEW v \in Workers, NEW c \in Codes, job[v].c # c, job'[v].c = c
  PROVE  CodeFree(c)
<1>1. c # Nobody
  BY AccountsAssumption DEF Codes
<1>2. job'[v] # job[v] /\ job'[v] # Idle
  BY <1>1 DEF Idle
<1>3. ASSUME NEW j, Become(v, j) PROVE job'[v] = j
  BY <1>3 DEF TypeOK, Become
<1>4. ~\E t \in Tokens : BeginRotate(v, t)
  BY <1>1, <1>3 DEF BeginRotate, Start, Idle
<1>5. ~\E a \in AccountIds : BeginLogin(v, a) \/ BeginChange(v, a) \/ BeginRequest(v, a)
  BY <1>1, <1>3 DEF BeginLogin, BeginChange, BeginRequest, Start, Idle
<1>6. ~\E a \in AccountIds, m \in Emails : BeginCreate(v, a, m) \/ BeginRename(v, a, m)
  BY <1>1, <1>3 DEF BeginCreate, BeginRename, Start, Idle
<1>7. PICK a \in AccountIds : BeginGuess(v, a)
  BY <1>2, <1>4, <1>5, <1>6, JobBegins
<1>8. PICK d \in Codes : CodeFree(d) /\ Become(v, [Idle EXCEPT !.step = "guess", !.a = a, !.c = d,
                                                               !.n = code[d].attempts])
  BY <1>7 DEF BeginGuess, OpenCodes, Start
<1> QED  BY <1>3, <1>8 DEF Idle

\* A code that is being compared is waited for by whoever would change it.
LEMMA HeldCodeStays ==
  ASSUME TypeOK, CodesOK, [Next]_vars, NEW w \in Workers, At(w, "guess"), job'[w] = job[w]
  PROVE  LET c == job[w].c IN
         /\ code'[c].status = code[c].status /\ code'[c].a = code[c].a
         /\ code'[c].attempts = code[c].attempts
<1> DEFINE c == job[w].c
<1>1. c \in Codes /\ code[c].status = "open" /\ \A v \in Workers \ {w} : job[v].c # c
  BY DEF CodesOK
<1>2. ~CodeFree(c)
  BY DEF CodeFree
<1>3. code[c] \in CodeRows /\ code \in [Codes -> CodeRows]
  BY <1>1 DEF TypeOK
<1>4. ASSUME NEW v \in Workers, Finish(v) PROVE v # w
  BY <1>4 DEF TypeOK, Finish, Become, At, Idle
<1> DEFINE Ok == /\ code'[c].status = code[c].status /\ code'[c].a = code[c].a
                 /\ code'[c].attempts = code[c].attempts
<1>5. CASE UNCHANGED code
  BY <1>5
<1>6. ASSUME NEW d \in Codes, Age(d) PROVE Ok
  <2>1. PICK i \in 1..2 : code' = [code EXCEPT ![d].age = Ages[i + 1]]
    BY <1>6 DEF Age
  <2>2. CASE c = d
    <3>1. code'[c] = [code[c] EXCEPT !.age = Ages[i + 1]]
      BY <1>1, <1>3, <2>1, <2>2
    <3> QED  BY <1>3, <3>1 DEF CodeRows
  <2>3. CASE c # d
    BY <1>1, <1>3, <2>1, <2>3
  <2> QED  BY <2>2, <2>3
<1>7. ASSUME NEW a \in AccountIds, DeleteUser(a) PROVE Ok
  <2>1. code[c].a # a
    BY <1>1, <1>2, <1>7 DEF DeleteUser
  <2> QED  BY <1>1, <1>7, <2>1 DEF DeleteUser
<1>8. ASSUME NEW v \in Workers, SendCode(v) PROVE Ok
  <2> DEFINE a == job[v].a
  <2>1. c \notin OpenCodes(a)
    BY <1>2, <1>8 DEF SendCode
  <2>2. CASE Exists(a)
    <3>1. PICK new \in Codes :
            /\ code[new].status = "absent"
            /\ code' = [d \in Codes |->
                 IF d \in OpenCodes(a) THEN [code[d] EXCEPT !.status = "used"]
                 ELSE IF d = new THEN [NoCode EXCEPT !.status = "open", !.a = a]
                 ELSE code[d]]
      BY <1>8, <2>2 DEF SendCode, LowestOf
    <3>2. c # new
      BY <1>1, <3>1
    <3> QED  BY <1>1, <2>1, <3>1, <3>2
  <2>3. CASE ~Exists(a)
    BY <1>8, <2>3 DEF SendCode
  <2> QED  BY <2>2, <2>3
<1>9. ASSUME NEW v \in Workers, WrongGuess(v) \/ ResetPassword(v) PROVE Ok
  <2>1. v # w
    BY <1>4, <1>9 DEF WrongGuess, ResetPassword
  <2>2. job[v].c # c
    BY <1>1, <2>1
  <2> QED  BY <1>1, <1>3, <1>9, <2>2 DEF WrongGuess, ResetPassword
<1> QED  BY <1>5, <1>6, <1>7, <1>8, <1>9, CodeSteps

\* Every step keeps CodesOK: what is known of a code and of who holds it.
LEMMA CodesNext ==
  ASSUME TypeOK, TypeOK', JobsOK, CodesOK, [Next]_vars
  PROVE  CodesOK'
<1>1. ASSUME NEW w \in Workers, At(w, "guess")'
      PROVE  LET j == job'[w] IN
             /\ j.c \in Codes
             /\ code'[j.c].status = "open" /\ code'[j.c].a = j.a
             /\ code'[j.c].attempts = j.n /\ j.n < MaxAttempts
             /\ \A v \in Workers \ {w} : job'[v].c # j.c
  <2>1. CASE job'[w] = job[w]
    <3>1. At(w, "guess")
      BY <1>1, <2>1 DEF At
    <3>2. job[w].c \in Codes /\ ~CodeFree(job[w].c)
      BY <3>1 DEF CodesOK, CodeFree
    <3>3. \A v \in Workers \ {w} : job[v].c # job[w].c
      BY <3>1 DEF CodesOK
    <3>4. \A v \in Workers \ {w} : job'[v].c # job[w].c
      BY <3>2, <3>3, CodeTaken
    <3> QED  BY <2>1, <3>1, <3>2, <3>4, HeldCodeStays DEF CodesOK
  <2>2. CASE job'[w] # job[w]
    <3>1. job'[w].step = "guess" /\ job'[w] # Idle
      BY <1>1 DEF At, Idle
    <3>2. ~\E t \in Tokens : BeginRotate(w, t)
      BY <3>1 DEF TypeOK, BeginRotate, Start, Become, Idle
    <3>3. PICK a \in AccountIds : BeginGuess(w, a)
      BY <2>2, <3>1, <3>2, JobStep, JobBegins
    <3>4. PICK c \in OpenCodes(a) :
            /\ code[c].attempts < MaxAttempts /\ CodeFree(c)
            /\ Become(w, [Idle EXCEPT !.step = "guess", !.a = a, !.c = c, !.n = code[c].attempts])
      BY <3>3 DEF BeginGuess, Start
    <3>5. job'[w] = [Idle EXCEPT !.step = "guess", !.a = a, !.c = c, !.n = code[c].attempts]
          /\ \A v \in Workers \ {w} : job'[v] = job[v]
      BY <3>4 DEF TypeOK, Become
    <3>6. UNCHANGED code
      BY <3>3 DEF BeginGuess
    <3> QED  BY <3>4, <3>5, <3>6 DEF OpenCodes, CodeFree, Idle
  <2> QED  BY <2>1, <2>2
<1>2. \A c \in Codes : /\ code'[c].status # "absent" => code'[c].a \in AccountIds
                       /\ code'[c].status \in {"open", "used"} => Stays(code'[c].a)
                       /\ code'[c].guesses = code'[c].attempts /\ code'[c].attempts <= MaxAttempts
  BY CodeRowsNext
<1> QED  BY <1>1, <1>2 DEF CodesOK, Exists, Stays, At

-----------------------------------------------------------------------------
(* One request at a time.                                                  *)

\* A behaviour keeps the requests it consists of.
LEMMA MixStays ==
  ASSUME [Next]_vars
  PROVE  mix' = mix
BY DEF Next, vars, Reuse, Logout, Expire, Age, LogoutAll, StaffReset, Deactivate, Activate, DeleteUser,
       BeginRotate, BeginLogin, BeginChange, BeginRequest, BeginGuess, BeginCreate, BeginRename,
       Login, Rotate, ChangePassword, SendCode, WrongGuess, ResetPassword, CreateUser, Rename, Crash

\* A request begins when no other is in progress.
LEMMA AloneBegins ==
  ASSUME TypeOK, Alone, [Next]_vars, NEW w \in Workers, job'[w] # job[w], job'[w] # Idle
  PROVE  \A v \in Workers : At(v, "idle") /\ (v # w => job'[v] = job[v])
<1>1. PICK op, j : Start(w, op, j)
  <2>1. ASSUME NEW t \in Tokens, BeginRotate(w, t) PROVE \E op, j : Start(w, op, j)
    BY <2>1 DEF BeginRotate
  <2>2. ASSUME NEW a \in AccountIds, BeginLogin(w, a) \/ BeginChange(w, a) \/ BeginRequest(w, a)
        PROVE \E op, j : Start(w, op, j)
    BY <2>2 DEF BeginLogin, BeginChange, BeginRequest
  <2>3. ASSUME NEW a \in AccountIds, BeginGuess(w, a) PROVE \E op, j : Start(w, op, j)
    BY <2>3 DEF BeginGuess
  <2>4. ASSUME NEW a \in AccountIds, NEW m \in Emails, BeginCreate(w, a, m) \/ BeginRename(w, a, m)
        PROVE \E op, j : Start(w, op, j)
    BY <2>4 DEF BeginCreate, BeginRename
  <2> QED  BY <2>1, <2>2, <2>3, <2>4, JobBegins
<1> QED  BY <1>1 DEF TypeOK, Start, Admitted, Become

\* While a request is in progress only time passes.
LEMMA AloneBusy ==
  ASSUME TypeOK, Alone, OneBusy, [Next]_vars, NEW w \in Workers, ~At(w, "idle"), job'[w] = job[w]
  PROVE  UNCHANGED vars \/ (\E t \in Tokens : Expire(t)) \/ (\E c \in Codes : Age(c))
<1>1. ASSUME NEW op, Admitted(op) PROVE FALSE
  BY <1>1 DEF Admitted
<1>2. ASSUME NEW v, NEW op, NEW j, Start(v, op, j) PROVE FALSE
  BY <1>1, <1>2 DEF Start
<1>3. ASSUME NEW v \in Workers, Finish(v), ~At(v, "idle") PROVE FALSE
  <2>1. v = w
    BY <1>3 DEF OneBusy
  <2> QED  BY <1>3, <2>1 DEF TypeOK, Finish, Become, At, Idle
<1>4. ~\E t \in Tokens : Reuse(t) \/ Logout(t)
  BY <1>1 DEF Reuse, Logout, AtOnce
<1>5. ~\E a \in AccountIds :
         LogoutAll(a) \/ StaffReset(a) \/ Deactivate(a) \/ Activate(a) \/ DeleteUser(a)
  BY <1>1 DEF LogoutAll, StaffReset, Deactivate, Activate, DeleteUser, AtOnce
<1>6. ~\E v \in Workers, t \in Tokens : BeginRotate(v, t)
  BY <1>2 DEF BeginRotate
<1>7. ~\E v \in Workers, a \in AccountIds :
         BeginLogin(v, a) \/ BeginChange(v, a) \/ BeginRequest(v, a) \/ BeginGuess(v, a)
  BY <1>2 DEF BeginLogin, BeginChange, BeginRequest, BeginGuess
<1>8. ~\E v \in Workers, a \in AccountIds, m \in Emails : BeginCreate(v, a, m) \/ BeginRename(v, a, m)
  BY <1>2 DEF BeginCreate, BeginRename
<1>9. ASSUME NEW v \in Workers,
             \/ Login(v) \/ Rotate(v) \/ ChangePassword(v) \/ SendCode(v) \/ WrongGuess(v)
             \/ ResetPassword(v) \/ CreateUser(v) \/ Rename(v) \/ Crash(v)
      PROVE  FALSE
  <2>1. Finish(v) /\ ~At(v, "idle")
    BY <1>9 DEF Login, Rotate, ChangePassword, SendCode, WrongGuess, ResetPassword, CreateUser, Rename, Crash, At
  <2> QED  BY <1>3, <2>1
<1> QED  BY <1>4, <1>5, <1>6, <1>7, <1>8, <1>9 DEF Next

\* One request at a time: a request begins only when every worker is idle.
LEMMA OneBusyNext ==
  ASSUME TypeOK, Alone, OneBusy, [Next]_vars
  PROVE  OneBusy'
<1> SUFFICES ASSUME NEW v \in Workers, NEW w \in Workers, ~At(v, "idle")', ~At(w, "idle")', v # w
             PROVE  FALSE
  BY DEF OneBusy
<1>1. job'[v] # Idle /\ job'[w] # Idle
  BY DEF At, Idle
<1>2. CASE job'[v] = job[v] /\ job'[w] = job[w]
  BY <1>2 DEF OneBusy, At
<1>3. CASE job'[v] # job[v]
  BY <1>1, <1>3, AloneBegins DEF At
<1>4. CASE job'[w] # job[w]
  BY <1>1, <1>4, AloneBegins DEF At
<1> QED  BY <1>2, <1>3, <1>4

\* The codes of an account are a finite set.
LEMMA RecentFinite ==
  ASSUME NEW S, S \subseteq Codes, NEW T, T \subseteq S
  PROVE  /\ IsFiniteSet(S) /\ Cardinality(S) \in Nat
         /\ Cardinality(T) \in Nat /\ Cardinality(T) <= Cardinality(S)
<1>1. IsFiniteSet(Codes)
  BY AccountsAssumption, FS_Interval DEF Codes
<1>2. IsFiniteSet(S)
  BY <1>1, FS_Subset
<1> QED  BY <1>2, FS_Subset, FS_CardinalityType

\* The codes of the last hour, and those that work, after the step.
RecentNext(a) == {c \in Codes : code'[c].a = a /\ code'[c].status # "gone" /\ code'[c].age # "old"}
OpenNext(a) == {c \in Codes : code'[c].a = a /\ code'[c].status = "open" /\ code'[c].age = "fresh"}

\* Time makes codes older, and none newer.
LEMMA AgeShrinks ==
  ASSUME TypeOK, NEW c \in Codes, Age(c), NEW a
  PROVE  RecentNext(a) \subseteq Recent(a) /\ OpenNext(a) \subseteq OpenCodes(a)
<1>1. PICK i \in 1..2 : code[c].age = Ages[i] /\ code' = [code EXCEPT ![c].age = Ages[i + 1]]
  BY DEF Age
<1>2. Ages[i] # "old" /\ Ages[i + 1] # "fresh"
  BY DEF Ages
<1>3. ASSUME NEW d \in Codes
      PROVE  /\ code'[d].a = code[d].a /\ code'[d].status = code[d].status
             /\ code'[d].age # "old" => code[d].age # "old"
             /\ code'[d].age = "fresh" => code[d].age = "fresh"
  <2>1. code[d] \in CodeRows
    BY DEF TypeOK
  <2>2. CASE d = c
    <3>1. code'[d] = [code[d] EXCEPT !.age = Ages[i + 1]]
      BY <1>1, <2>2 DEF TypeOK
    <3> QED  BY <1>1, <1>2, <2>1, <2>2, <3>1 DEF CodeRows
  <2>3. CASE d # c
    BY <1>1, <2>3 DEF TypeOK
  <2> QED  BY <2>2, <2>3
<1> QED  BY <1>3 DEF RecentNext, Recent, OpenNext, OpenCodes

\* What the one request in progress has read still holds when it is used.
LEMMA StillTrueNext ==
  ASSUME TypeOK, Alone, OneBusy, StillTrue, JobsOK, [Next]_vars
  PROVE  StillTrue'
<1> DEFINE Ok(w) == /\ job'[w].step \in {"login", "change"} => account'[job'[w].a].status = "active"
                    /\ job'[w].step = "login" => job'[w].n = account'[job'[w].a].era
                    /\ job'[w].step = "rotate" => token'[job'[w].t].status \in {"live", "expired"}
                    /\ job'[w].step = "send" => Cardinality(RecentNext(job'[w].a)) < MaxCodes
<1>1. ASSUME NEW w \in Workers PROVE Ok(w)
  <2>1. CASE job'[w].step = "idle"
    BY <2>1
  <2>2. CASE job'[w].step # "idle" /\ job'[w] = job[w]
    <3>1. UNCHANGED vars \/ (\E t \in Tokens : Expire(t)) \/ (\E c \in Codes : Age(c))
      BY <2>2, AloneBusy DEF At
    <3>2. CASE UNCHANGED vars
      BY <3>2 DEF vars, StillTrue, At, Active, Revocable, Recent, RecentNext
    <3>3. ASSUME NEW t \in Tokens, Expire(t) PROVE Ok(w)
      <4>1. \A u \in Tokens : Revocable(u) => token'[u].status \in {"live", "expired"}
        BY <3>3 DEF TypeOK, Expire, Revocable
      <4>2. Revocable(job[w].t) /\ job[w].t \notin Tokens => token'[job[w].t].status \in {"live", "expired"}
        BY <3>3 DEF TypeOK, Expire, Revocable
      <4> QED  BY <2>2, <3>3, <4>1, <4>2 DEF Expire, StillTrue, At, Active, Recent, RecentNext
    <3>4. ASSUME NEW c \in Codes, Age(c) PROVE Ok(w)
      <4>1. RecentNext(job[w].a) \subseteq Recent(job[w].a)
        BY <3>4, AgeShrinks
      <4>2. /\ Cardinality(RecentNext(job[w].a)) \in Nat /\ Cardinality(Recent(job[w].a)) \in Nat
            /\ Cardinality(RecentNext(job[w].a)) <= Cardinality(Recent(job[w].a))
        BY <4>1, RecentFinite DEF Recent
      <4>3. job[w].step = "send" => Cardinality(RecentNext(job[w].a)) < MaxCodes
        BY <4>2, AccountsAssumption DEF StillTrue, At
      <4> QED  BY <2>2, <3>4, <4>3 DEF Age, StillTrue, At, Active, Revocable
    <3> QED  BY <3>1, <3>2, <3>3, <3>4
  <2>3. CASE job'[w].step # "idle" /\ job'[w] # job[w]
    <3>1. job'[w] # Idle
      BY <2>3 DEF Idle
    <3>2. ASSUME NEW j, Become(w, j) PROVE job'[w] = j
      BY <3>2 DEF TypeOK, Become
    <3>3. ASSUME NEW t \in Tokens, BeginRotate(w, t) PROVE Ok(w)
      BY <3>2, <3>3 DEF BeginRotate, Start, Idle
    <3>4. ASSUME NEW a \in AccountIds, BeginLogin(w, a) PROVE Ok(w)
      BY <3>2, <3>4 DEF BeginLogin, Start, Idle, Active
    <3>5. ASSUME NEW a \in AccountIds, BeginChange(w, a) PROVE Ok(w)
      BY <3>2, <3>5 DEF BeginChange, SignedIn, Start, Idle, Active
    <3>6. ASSUME NEW a \in AccountIds, BeginRequest(w, a) PROVE Ok(w)
      <4>1. RecentNext(a) = Recent(a)
        BY <3>6 DEF BeginRequest, Recent, RecentNext
      <4> QED  BY <3>2, <3>6, <4>1 DEF BeginRequest, Start, Idle
    <3>7. ASSUME NEW a \in AccountIds, BeginGuess(w, a) PROVE Ok(w)
      BY <3>7, JobStep
    <3>8. ASSUME NEW a \in AccountIds, NEW m \in Emails, BeginCreate(w, a, m) \/ BeginRename(w, a, m)
          PROVE Ok(w)
      BY <3>8, JobStep
    <3> QED  BY <2>3, <3>1, <3>3, <3>4, <3>5, <3>6, <3>7, <3>8, JobBegins
  <2> QED  BY <2>1, <2>2, <2>3
<1> QED  BY <1>1 DEF StillTrue, At, Active, Revocable, Recent, RecentNext

\* Where a step adds no code to those of an account, they stay few.
LEMMA FewCodesKept ==
  ASSUME FewCodes, NEW a \in AccountIds,
         OpenNext(a) \subseteq OpenCodes(a), RecentNext(a) \subseteq Recent(a)
  PROVE  (\A c, d \in OpenNext(a) : c = d) /\ Cardinality(RecentNext(a)) <= MaxCodes
<1>1. /\ Cardinality(RecentNext(a)) \in Nat /\ Cardinality(Recent(a)) \in Nat
      /\ Cardinality(RecentNext(a)) <= Cardinality(Recent(a))
  BY RecentFinite DEF Recent
<1>2. Cardinality(Recent(a)) <= MaxCodes /\ MaxCodes \in Nat
  BY AccountsAssumption DEF FewCodes
<1>3. Cardinality(RecentNext(a)) <= MaxCodes
  BY <1>1, <1>2
<1> QED  BY <1>3 DEF FewCodes

\* A code is sent when there is room for it, and those before it die.
LEMMA FewCodesNext ==
  ASSUME TypeOK, Alone, OneBusy, StillTrue, FewCodes, JobsOK, CodesOK, [Next]_vars
  PROVE  FewCodes'
<1> DEFINE Few(a) == (\A c, d \in OpenNext(a) : c = d) /\ Cardinality(RecentNext(a)) <= MaxCodes
<1>1. ASSUME NEW a \in AccountIds PROVE Few(a)
  <2>1. ASSUME \A d \in Codes : \/ code'[d] = code[d]
                               \/ /\ code'[d].a = code[d].a /\ code'[d].age = code[d].age
                                  /\ code'[d].status = "open" => code[d].status = "open"
                                  /\ code'[d].status # "gone" => code[d].status # "gone"
        PROVE  Few(a)
    <3>1. OpenNext(a) \subseteq OpenCodes(a)
      BY <2>1 DEF OpenNext, OpenCodes
    <3>2. RecentNext(a) \subseteq Recent(a)
      BY <2>1 DEF RecentNext, Recent
    <3> QED  BY <3>1, <3>2, FewCodesKept
  <2>2. CASE UNCHANGED code
    BY <2>1, <2>2
  <2>3. ASSUME NEW c \in Codes, Age(c) PROVE Few(a)
    BY <2>3, AgeShrinks, FewCodesKept
  <2>4. ASSUME NEW b \in AccountIds, DeleteUser(b) PROVE Few(a)
    <3>1. ASSUME NEW d \in Codes
          PROVE  /\ code'[d].a = code[d].a /\ code'[d].age = code[d].age
                 /\ code'[d].status \in {code[d].status, "gone"}
      BY <2>4 DEF TypeOK, DeleteUser, CodeRows
    <3> QED  BY <2>1, <3>1
  <2>5. ASSUME NEW w \in Workers, SendCode(w) PROVE Few(a)
    <3> DEFINE b == job[w].a
    <3>1. b \in AccountIds /\ Cardinality(Recent(b)) < MaxCodes
      BY <2>5 DEF SendCode, At, JobsOK, StillTrue
    <3>2. CASE ~Exists(b)
      BY <2>2, <2>5, <3>2 DEF SendCode
    <3>3. CASE Exists(b)
      <4>1. PICK new \in Codes :
              /\ code[new].status = "absent"
              /\ \A d \in Codes : code'[d] =
                   IF d \in OpenCodes(b) THEN [code[d] EXCEPT !.status = "used"]
                   ELSE IF d = new THEN [NoCode EXCEPT !.status = "open", !.a = b]
                   ELSE code[d]
        BY <2>5, <3>3 DEF SendCode, LowestOf
      <4>2. new \notin OpenCodes(b)
        BY <4>1 DEF OpenCodes
      <4>3. code'[new].a = b /\ code'[new].status = "open" /\ code'[new].age = "fresh"
        BY <4>1, <4>2 DEF NoCode
      <4>4. ASSUME NEW d \in Codes \ {new}
            PROVE  /\ code'[d].a = code[d].a /\ code'[d].age = code[d].age
                   /\ d \in OpenCodes(b) => code[d].status = "open" /\ code'[d].status = "used"
                   /\ d \notin OpenCodes(b) => code'[d].status = code[d].status
        BY <4>1 DEF TypeOK, OpenCodes, CodeRows
      <4> HIDE DEF b
      <4>5. CASE a # b
        <5>1. OpenNext(a) \subseteq OpenCodes(a)
          BY <4>3, <4>4, <4>5 DEF OpenNext, OpenCodes
        <5>2. RecentNext(a) \subseteq Recent(a)
          BY <4>3, <4>4, <4>5 DEF RecentNext, Recent, OpenCodes
        <5> QED  BY <5>1, <5>2, FewCodesKept
      <4>6. CASE a = b
        <5>1. OpenNext(a) \subseteq {new}
          BY <4>4, <4>6 DEF OpenNext, OpenCodes
        <5>2. RecentNext(a) \subseteq Recent(a) \cup {new}
          BY <4>4, <4>6 DEF RecentNext, Recent, OpenCodes
        <5>3. IsFiniteSet(Recent(a)) /\ Cardinality(Recent(a)) \in Nat
          BY RecentFinite DEF Recent
        <5>4. Cardinality(Recent(a) \cup {new}) <= Cardinality(Recent(a)) + 1
          BY <5>3, FS_AddElement
        <5>5. /\ Cardinality(RecentNext(a)) <= Cardinality(Recent(a) \cup {new})
              /\ Cardinality(RecentNext(a)) \in Nat /\ Cardinality(Recent(a) \cup {new}) \in Nat
          BY <5>2, RecentFinite DEF Recent
        <5>6. Cardinality(RecentNext(a)) <= MaxCodes
          BY <3>1, <4>6, <5>3, <5>4, <5>5, AccountsAssumption
        <5> QED  BY <5>1, <5>6
      <4> QED  BY <4>5, <4>6
    <3> QED  BY <3>2, <3>3
  <2>6. ASSUME NEW w \in Workers, WrongGuess(w) \/ ResetPassword(w) PROVE Few(a)
    <3>1. job[w].c \in Codes /\ code[job[w].c].status = "open"
      BY <2>6 DEF WrongGuess, ResetPassword, CodesOK
    <3>2. ASSUME NEW d \in Codes
          PROVE  /\ code'[d].a = code[d].a /\ code'[d].age = code[d].age
                 /\ code'[d].status = code[d].status \/ (code[d].status = "open" /\ code'[d].status = "used")
      <4>1. code[d] \in CodeRows /\ code \in [Codes -> CodeRows]
        BY DEF TypeOK
      <4>2. CASE d # job[w].c
        BY <2>6, <3>1, <4>1, <4>2 DEF WrongGuess, ResetPassword
      <4>3. CASE d = job[w].c /\ WrongGuess(w)
        <5>1. code'[d] = [code[d] EXCEPT !.attempts = job[w].n + 1, !.guesses = @ + 1]
          BY <4>1, <4>3 DEF WrongGuess
        <5> QED  BY <4>1, <5>1 DEF CodeRows
      <4>4. CASE d = job[w].c /\ ResetPassword(w)
        <5>1. code'[d] = [code[d] EXCEPT !.status = "used"]
          BY <4>1, <4>4 DEF ResetPassword
        <5> QED  BY <3>1, <4>1, <4>4, <5>1 DEF CodeRows
      <4> QED  BY <2>6, <4>2, <4>3, <4>4
    <3> QED  BY <2>1, <3>2
  <2> QED  BY <2>2, <2>3, <2>4, <2>5, <2>6, CodeSteps
<1> QED  BY <1>1 DEF FewCodes, OpenNext, OpenCodes, RecentNext, Recent

\* Where the tokens that can still be used were there before, and their accounts
\* are as they were, no session is left behind; token u is new or like the others.
LEMMA NoneLeftKept ==
  ASSUME NoneLeft, NEW u \in Tokens,
         \A t \in Tokens \ {u} : token'[t].status \in {"live", "expired"} =>
           /\ Revocable(t) /\ token'[t].a = token[t].a /\ token'[t].era = token[t].era
           /\ token'[t].login = token[t].login
           /\ account'[token[t].a].status = "active"
           /\ account'[token[t].a].era = account[token[t].a].era,
         token'[u].status \in {"live", "expired"} =>
           /\ account'[token'[u].a].status = "active"
           /\ token'[u].era = account'[token'[u].a].era
           /\ \A t \in Tokens \ {u} : token'[t].status \in {"live", "expired"} =>
                                      token[t].login # token'[u].login
  PROVE  NoneLeft'
BY DEF NoneLeft, Active, Revocable

\* The same where no token is new.
LEMMA NoneLeftSame ==
  ASSUME NoneLeft,
         \A t \in Tokens : token'[t].status \in {"live", "expired"} =>
           /\ Revocable(t) /\ token'[t].a = token[t].a /\ token'[t].era = token[t].era
           /\ token'[t].login = token[t].login
           /\ account'[token[t].a].status = "active"
           /\ account'[token[t].a].era = account[token[t].a].era
  PROVE  NoneLeft'
BY DEF NoneLeft, Active, Revocable

\* After the tokens of an account are revoked, those that can be used are others'.
LEMMA RevokeLeaves ==
  ASSUME TypeOK, NEW a, NEW t \in Tokens, RevokeAll(a)[t].status \in {"live", "expired"}
  PROVE  /\ Revocable(t) /\ RevokeAll(a)[t] = token[t] /\ token[t].a # a
<1>1. token[t] \in TokenRows
  BY DEF TypeOK
<1> QED  BY <1>1 DEF RevokeAll, Revocable, TokenRows

\* Revoking the tokens of an account while only that account is written leaves
\* no session behind.
LEMMA RevokedLeavesNone ==
  ASSUME TypeOK, NoneLeft, TokensOK, NEW a, token' = RevokeAll(a),
         \A b \in AccountIds \ {a} : account'[b] = account[b]
  PROVE  NoneLeft'
<1>1. ASSUME NEW t \in Tokens, token'[t].status \in {"live", "expired"}
      PROVE  /\ Revocable(t) /\ token'[t].a = token[t].a /\ token'[t].era = token[t].era
             /\ token'[t].login = token[t].login
             /\ account'[token[t].a].status = "active"
             /\ account'[token[t].a].era = account[token[t].a].era
  <2>1. Revocable(t) /\ token'[t] = token[t] /\ token[t].a # a
    BY <1>1, RevokeLeaves
  <2>2. token[t].a \in AccountIds /\ Active(token[t].a)
    BY <2>1 DEF NoneLeft, TokensOK, Revocable
  <2> QED  BY <2>1, <2>2 DEF Active
<1> QED  BY <1>1, NoneLeftSame

\* One request at a time: whatever ends a session ends it everywhere.
LEMMA NoneLeftNext ==
  ASSUME TypeOK, Alone, StillTrue, NoneLeft, TokensOK, JobsOK, [Next]_vars
  PROVE  NoneLeft'
<1>0. ASSUME NEW t \in Tokens, Revocable(t)
      PROVE  /\ token[t].a \in AccountIds /\ Active(token[t].a)
             /\ token[t].login \in Tokens /\ token[token[t].login].status # "absent"
  BY <1>0 DEF NoneLeft, TokensOK, Revocable
<1> DEFINE AccountsKept == \A a \in AccountIds : Active(a) =>
                             account'[a].status = "active" /\ account'[a].era = account[a].era
<1>1. ASSUME UNCHANGED token, AccountsKept PROVE NoneLeft'
  BY <1>0, <1>1, NoneLeftSame DEF Revocable
<1>2. ASSUME NEW a, token' = RevokeAll(a), UNCHANGED account PROVE NoneLeft'
  BY <1>2, RevokedLeavesNone
<1>3. ASSUME NEW w \in Workers, CreateUser(w) PROVE NoneLeft'
  <2>1. AccountsKept
    BY <1>3 DEF TypeOK, CreateUser, Active
  <2> QED  BY <1>1, <1>3, <2>1 DEF CreateUser
<1>4. ASSUME NEW w \in Workers, Rename(w) PROVE NoneLeft'
  <2>1. ASSUME NEW a \in AccountIds
        PROVE  account'[a].status = account[a].status /\ account'[a].era = account[a].era
    <3>1. account[a] \in AccountRows
      BY DEF TypeOK
    <3> QED  BY <1>4, <3>1 DEF TypeOK, Rename, AccountRows
  <2> QED  BY <1>1, <1>4, <2>1 DEF Rename, Active
<1>5. ASSUME NEW a \in AccountIds, Activate(a) PROVE NoneLeft'
  <2>1. AccountsKept
    BY <1>5 DEF TypeOK, Activate, Active
  <2> QED  BY <1>1, <1>5, <2>1 DEF Activate
<1>6. ASSUME NEW t \in Tokens, Reuse(t) PROVE NoneLeft'
  BY <1>2, <1>6 DEF Reuse
<1>7. ASSUME NEW u \in Tokens, Logout(u) \/ Expire(u) PROVE NoneLeft'
  <2>1. ASSUME NEW t \in Tokens, token'[t].status \in {"live", "expired"}
        PROVE  /\ Revocable(t) /\ token'[t].a = token[t].a /\ token'[t].era = token[t].era
               /\ token'[t].login = token[t].login
    <3>1. token[t] \in TokenRows /\ token \in [Tokens -> TokenRows]
      BY DEF TypeOK
    <3>2. CASE t = u
      <4>1. token'[t].status \in {"revoked", "expired"} /\ Revocable(t)
            /\ token'[t] = [token[t] EXCEPT !.status = token'[t].status]
        BY <1>7, <3>1, <3>2 DEF Logout, Expire, Revocable, TokenRows
      <4> QED  BY <3>1, <4>1 DEF TokenRows
    <3>3. CASE t # u
      BY <1>7, <2>1, <3>1, <3>3 DEF Logout, Expire, Revocable
    <3> QED  BY <3>2, <3>3
  <2>2. UNCHANGED account
    BY <1>7 DEF Logout, Expire
  <2> QED  BY <1>0, <2>1, <2>2, NoneLeftSame DEF Active
<1>8. ASSUME NEW a \in AccountIds, LogoutAll(a) PROVE NoneLeft'
  BY <1>2, <1>8 DEF LogoutAll
<1>9. ASSUME NEW a \in AccountIds, StaffReset(a) \/ Deactivate(a) PROVE NoneLeft'
  <2>1. token' = RevokeAll(a) /\ \A b \in AccountIds \ {a} : account'[b] = account[b]
    BY <1>9 DEF TypeOK, StaffReset, Deactivate, NewPassword
  <2> QED  BY <2>1, RevokedLeavesNone
<1>10. ASSUME NEW a \in AccountIds, DeleteUser(a) PROVE NoneLeft'
  <2>1. \A b \in AccountIds \ {a} : account'[b] = account[b]
    BY <1>10 DEF TypeOK, DeleteUser
  <2>2. ASSUME NEW t \in Tokens, token'[t].status \in {"live", "expired"}
        PROVE  Revocable(t) /\ token'[t] = token[t] /\ token[t].a # a
    <3>1. token[t] \in TokenRows
      BY DEF TypeOK
    <3> QED  BY <1>10, <2>2, <3>1 DEF DeleteUser, Revocable, TokenRows
  <2> QED  BY <1>0, <2>1, <2>2, NoneLeftSame DEF Active
<1>11. ASSUME NEW w \in Workers, ResetPassword(w) PROVE NoneLeft'
  <2>1. /\ token' = RevokeAll(job[w].a)
        /\ \A b \in AccountIds \ {job[w].a} : account'[b] = account[b]
    BY <1>11 DEF TypeOK, ResetPassword, NewPassword
  <2> QED  BY <2>1, RevokedLeavesNone
<1>12. ASSUME NEW w \in Workers, ChangePassword(w) PROVE NoneLeft'
  <2> DEFINE a == job[w].a
  <2>1. a \in AccountIds /\ Active(a)
    BY <1>12 DEF ChangePassword, At, JobsOK, StillTrue
  <2>2. account' = [account EXCEPT ![a].era = @ + 1]
    BY <1>12, <2>1 DEF ChangePassword, NewPassword, Active, Exists
  <2>3. PICK u \in Tokens : /\ token[u].status = "absent"
                           /\ token' = [RevokeAll(a) EXCEPT ![u] = Session(u, a, u, account[a].era + 1)]
    BY <1>12, <2>1 DEF ChangePassword, NewToken, LowestOf, Active, Exists
  <2>4. account'[a].status = "active" /\ account'[a].era = account[a].era + 1
        /\ \A b \in AccountIds \ {a} : account'[b] = account[b]
    <3>1. account[a] \in AccountRows
      BY <2>1 DEF TypeOK
    <3> QED  BY <2>1, <2>2, <3>1 DEF TypeOK, Active, AccountRows
  <2>5. token'[u] = Session(u, a, u, account[a].era + 1)
        /\ \A t \in Tokens \ {u} : token'[t] = RevokeAll(a)[t]
    BY <2>3, RevokeTyped
  <2> HIDE DEF a
  <2>6. ASSUME NEW t \in Tokens \ {u}, token'[t].status \in {"live", "expired"}
        PROVE  Revocable(t) /\ token'[t] = token[t] /\ token[t].a # a
    BY <2>5, <2>6, RevokeLeaves
  <2>7. token'[u].a = a /\ token'[u].login = u /\ token'[u].era = account[a].era + 1
    BY <2>5 DEF Session
  <2>8. \A t \in Tokens \ {u} : token'[t].status \in {"live", "expired"} => token[t].login # u
    BY <1>0, <2>3, <2>6
  <2> QED  BY <1>0, <2>4, <2>6, <2>7, <2>8, NoneLeftKept DEF Active
<1>13. ASSUME NEW w \in Workers, Login(w) PROVE NoneLeft'
  <2> DEFINE a == job[w].a
  <2>1. a \in AccountIds /\ Active(a) /\ job[w].n = account[a].era
    BY <1>13 DEF Login, At, JobsOK, StillTrue
  <2>2. PICK u \in Tokens : /\ token[u].status = "absent"
                           /\ token' = [token EXCEPT ![u] = Session(u, a, u, job[w].n)]
    BY <1>13, <2>1 DEF Login, NewToken, LowestOf, Active, Exists
  <2>3. token'[u] = Session(u, a, u, job[w].n) /\ \A t \in Tokens \ {u} : token'[t] = token[t]
    BY <2>2 DEF TypeOK
  <2>4. UNCHANGED account
    BY <1>13 DEF Login
  <2> HIDE DEF a
  <2>5. token'[u].a = a /\ token'[u].login = u /\ token'[u].era = account[a].era
    BY <2>1, <2>3 DEF Session
  <2>6. \A t \in Tokens \ {u} : token'[t].status \in {"live", "expired"} =>
          Revocable(t) /\ token'[t] = token[t] /\ token[t].login # u
    BY <1>0, <2>2, <2>3 DEF Revocable
  <2> QED  BY <1>0, <2>1, <2>4, <2>5, <2>6, NoneLeftKept DEF Active
<1>14. ASSUME NEW w \in Workers, Rotate(w) PROVE NoneLeft'
  <2> DEFINE s == job[w].t
  <2>1. s \in Tokens /\ Revocable(s)
    BY <1>14 DEF Rotate, At, TokensOK, StillTrue
  <2>2. PICK u \in Tokens : token[u].status = "absent" /\ token' = Succeed(s, u)
    BY <1>14, <2>1 DEF Rotate, NewToken, LowestOf, Revocable
  <2>3. u # s
    BY <2>1, <2>2 DEF Revocable
  <2>4. UNCHANGED account
    BY <1>14 DEF Rotate
  <2> HIDE DEF s
  <2>5. /\ token'[u] = Session(u, token[s].a, token[s].login, token[s].era)
        /\ token'[s] = [token[s] EXCEPT !.status = "revoked", !.replaced = u]
        /\ \A t \in Tokens \ {u, s} : token'[t] = token[t]
    BY <2>1, <2>2, <2>3 DEF TypeOK, Succeed
  <2>6. token'[s].status = "revoked"
    <3>1. token[s] \in TokenRows
      BY <2>1 DEF TypeOK
    <3> QED  BY <2>5, <3>1 DEF TokenRows
  <2>7. token'[u].a = token[s].a /\ token'[u].login = token[s].login /\ token'[u].era = token[s].era
    BY <2>5 DEF Session
  <2>8. \A t \in Tokens \ {u} : token'[t].status \in {"live", "expired"} =>
          t # s /\ Revocable(t) /\ token'[t] = token[t]
    BY <2>5, <2>6 DEF Revocable
  <2>9. \A t \in Tokens \ {u} : token'[t].status \in {"live", "expired"} => token[t].login # token[s].login
    BY <2>1, <2>8 DEF NoneLeft
  <2>10. Active(token[s].a) /\ token[s].era = account[token[s].a].era
    BY <2>1 DEF NoneLeft
  <2> QED  BY <1>0, <2>4, <2>7, <2>8, <2>9, <2>10, NoneLeftKept DEF Active
<1>15. CASE UNCHANGED <<account, token>>
  BY <1>1, <1>15 DEF Active
<1>16. \/ UNCHANGED <<account, token>>
       \/ \E t \in Tokens : Reuse(t) \/ Logout(t) \/ Expire(t)
       \/ \E a \in AccountIds : LogoutAll(a) \/ StaffReset(a) \/ Deactivate(a) \/ Activate(a) \/ DeleteUser(a)
       \/ \E w \in Workers : \/ Login(w) \/ Rotate(w) \/ ChangePassword(w) \/ ResetPassword(w)
                            \/ CreateUser(w) \/ Rename(w)
  BY AccountSteps, TokenSteps
<1> QED  BY <1>3, <1>4, <1>5, <1>6, <1>7, <1>8, <1>9, <1>10, <1>11, <1>12, <1>13, <1>14, <1>15, <1>16

\* Every step keeps what holds when requests come one at a time.
LEMMA AloneNext ==
  ASSUME IInv, [Next]_vars
  PROVE  AloneOK'
<1> SUFFICES ASSUME Alone PROVE (OneBusy /\ StillTrue /\ NoneLeft /\ FewCodes)'
  BY MixStays DEF AloneOK, Alone
<1>1. OneBusy /\ StillTrue /\ NoneLeft /\ FewCodes
  BY DEF IInv, AloneOK
<1> QED  BY <1>1, OneBusyNext, StillTrueNext, NoneLeftNext, FewCodesNext DEF IInv

-----------------------------------------------------------------------------
(* The theorems.                                                           *)

\* The inductive invariant holds at the start.
LEMMA AccountsInit == Init => IInv
<1> SUFFICES ASSUME Init PROVE IInv
  OBVIOUS
<1>1. TypeOK
  BY TypeInit
<1>2. OneAccountPerEmail
  BY DEF Init, OneAccountPerEmail, Exists
<1>3. \A w \in Workers : job[w] = Idle /\ At(w, "idle")
  BY DEF Init, At, Idle
<1>4. TokensOK
  BY <1>3 DEF Init, TokensOK, NoToken, At, Idle
<1>5. CodesOK
  BY <1>3, AccountsAssumption DEF Init, CodesOK, NoCode, At, Idle
<1>6. JobsOK
  BY <1>3 DEF JobsOK, Idle
<1>7. \A a \in AccountIds : Recent(a) = {} /\ OpenCodes(a) = {}
  BY AccountsAssumption DEF Init, Recent, OpenCodes, NoCode
<1>8. FewCodes
  <2>1. Cardinality({}) = 0
    BY FS_EmptySet
  <2>2. 0 <= MaxCodes
    BY AccountsAssumption
  <2>3. \A a \in AccountIds : Cardinality(Recent(a)) <= MaxCodes
    BY <1>7, <2>1, <2>2
  <2>4. \A a \in AccountIds : \A c, d \in OpenCodes(a) : c = d
    BY <1>7
  <2> QED  BY <2>3, <2>4 DEF FewCodes
<1>9. OneBusy /\ StillTrue /\ NoneLeft
  BY <1>3 DEF Init, OneBusy, StillTrue, NoneLeft, Revocable, NoToken, At, Idle
<1> QED  BY <1>1, <1>2, <1>4, <1>5, <1>6, <1>8, <1>9 DEF IInv, AloneOK

\* The inductive invariant is kept by every step.
LEMMA AccountsNext == IInv /\ [Next]_vars => IInv'
<1> SUFFICES ASSUME IInv, [Next]_vars PROVE IInv'
  OBVIOUS
<1>1. TypeOK'
  BY TypeNext DEF IInv
<1>2. OneAccountPerEmail'
  BY EmailsNext DEF IInv
<1>3. TokensOK'
  BY <1>1, TokensNext DEF IInv
<1>4. CodesOK'
  BY <1>1, CodesNext DEF IInv
<1>5. JobsOK'
  BY JobsNext DEF IInv
<1>6. AloneOK'
  BY AloneNext
<1> QED  BY <1>1, <1>2, <1>3, <1>4, <1>5, <1>6 DEF IInv

\* The inductive invariant holds in every reachable state.
LEMMA AccountsInvariant == Spec => []IInv
BY AccountsInit, AccountsNext, PTL DEF Spec

\* Every table and every request in progress keeps its shape.
THEOREM AccountsTypeCorrect == Spec => []TypeOK
<1>1. IInv => TypeOK
  BY DEF IInv
<1> QED  BY <1>1, AccountsInvariant, PTL

\* However requests overlap, no two accounts share an email.
THEOREM OneAccountPerEmailAlways == Spec => []OneAccountPerEmail
<1>1. IInv => OneAccountPerEmail
  BY DEF IInv
<1> QED  BY <1>1, AccountsInvariant, PTL

\* No live token outlives its account, and one request at a time none outlives
\* the password its login knew, or the token that succeeded it.
THEOREM SessionsSoundAlways == Spec => []SessionsSound
<1>1. IInv => SessionsSound
  <2> SUFFICES ASSUME IInv, NEW t \in Tokens, token[t].status = "live"
               PROVE  LET a == token[t].a IN
                      /\ Exists(a)
                      /\ Alone =>
                           /\ Active(a) /\ token[t].era = account[a].era
                           /\ \A u \in Tokens \ {t} : token[u].status = "live" => token[u].login # token[t].login
    BY DEF SessionsSound
  <2>1. Exists(token[t].a)
    BY DEF IInv, TokensOK
  <2> QED  BY <2>1 DEF IInv, AloneOK, NoneLeft, Revocable
<1> QED  BY <1>1, AccountsInvariant, PTL

\* However guesses overlap, no code is compared with more wrong ones than it may
\* survive; one request at a time, an account has one code that works and is sent
\* no more than allowed.
THEOREM CodesSoundAlways == Spec => []CodesSound
<1>1. IInv => CodesSound
  BY DEF IInv, CodesOK, AloneOK, FewCodes, CodesSound
<1> QED  BY <1>1, AccountsInvariant, PTL

-----------------------------------------------------------------------------
(* Access: the guards and the lookups behind them.                         *)

LEMMA CallerIsAnAccount ==
  ASSUME NEW a \in CallerRows \cup {None}, Caller(a) # None
  PROVE  Caller(a) = a /\ a \in CallerRows
BY DEF Caller

\* A student's cohort for a course is one of the student's own.
LEMMA CohortsForAreMine ==
  ASSUME NEW s, NEW taken, NEW c \in CohortsFor(s, taken)
  PROVE  c \in EnrolledIn[s] /\ CourseOf[c] = taken
BY DEF CohortsFor

LEMMA NoOfficePermission ==
  ASSUME NEW role \in {"student", "teacher"}, NEW permission
  PROVE  ~HasPermission(role, permission)
BY DEF HasPermission, PermissionsOf

-----------------------------------------------------------------------------

\* Lessons, materials, quizzes and homework: each endpoint that hands out what is
\* in a module asks ensure_module_open for a cohort of the caller's, but for those
\* that lead back to what the caller has begun.
THEOREM NothingAheadIsServed ==
  ASSUME NEW u, NEW op, NEW on
  PROVE  NothingAhead(u, op, on)
<1> SUFFICES ASSUME op \in LearningRoutes(u) \cup QuizRoutes(u) \cup HomeworkRoutes(u), Serves(u, op, on),
                    op \notin Outlines, op \notin BegunWork
             PROVE  \E c \in EnrolledIn[u.actor] : IsOpen(c, ContentOf(op, on)[1], ContentOf(op, on)[2])
  BY DEF NothingAhead, Serves, BegunWork, OfStudent
<1>0. \/ op \in LessonWork \/ op \in AssignmentWork
      \/ op \in {"learning.download_material", "quizzes.start_attempt", "quizzes.answer_question"}
  BY DEF LearningRoutes, QuizRoutes, HomeworkRoutes, If, Outlines, BegunWork, LessonWork, AssignmentWork
<1>1. CASE op \in LessonWork
  <2>1. PICK c \in CohortsFor(u.actor, CourseOfLesson(on)) : IsOpen(c, ModuleOf[on], on)
    BY <1>1 DEF Serves, OpensLesson
  <2>2. ContentOf(op, on) = <<ModuleOf[on], on>>
    BY <1>1 DEF ContentOf, LessonWork, AssignmentWork
  <2> QED  BY <2>1, <2>2, CohortsForAreMine
<1>2. CASE op = "learning.download_material"
  <2>1. PICK c \in CohortsFor(u.actor, CourseOfLesson(on.lesson)) : IsOpen(c, ModuleOf[on.lesson], on.lesson)
    BY <1>2 DEF Serves, GetsMaterial
  <2>2. ContentOf(op, on) = <<ModuleOf[on.lesson], on.lesson>>
    BY <1>2 DEF ContentOf, LessonWork, AssignmentWork
  <2> QED  BY <2>1, <2>2, CohortsForAreMine
<1>3. CASE op = "quizzes.start_attempt"
  <2>1. PICK c \in CohortsFor(u.actor, on.course) : IsOpen(c, ModuleOfQuiz(on), on.lesson)
    BY <1>3 DEF Serves, StartsQuiz
  <2>2. ContentOf(op, on) = <<ModuleOfQuiz(on), on.lesson>>
    BY <1>3 DEF ContentOf, LessonWork, AssignmentWork
  <2> QED  BY <2>1, <2>2, CohortsForAreMine
<1>4. CASE op = "quizzes.answer_question"
  <2>1. PICK c \in CohortsFor(u.actor, on.quiz.course) : IsOpen(c, ModuleOfQuiz(on.quiz), on.quiz.lesson)
    BY <1>4 DEF Serves, AnswersQuiz
  <2>2. ContentOf(op, on) = <<ModuleOfQuiz(on.quiz), on.quiz.lesson>>
    BY <1>4 DEF ContentOf, LessonWork, AssignmentWork
  <2> QED  BY <2>1, <2>2, CohortsForAreMine
<1>5. CASE op \in AssignmentWork
  <2> DEFINE m == IF on.lesson # None THEN ModuleOf[on.lesson] ELSE None
  <2>1. on.cohort \in EnrolledIn[u.actor] /\ IsOpen(on.cohort, m, on.lesson)
    BY <1>5 DEF Serves, SeesAssignment
  <2>2. ContentOf(op, on) = <<m, on.lesson>>
    BY <1>5 DEF ContentOf, LessonWork, AssignmentWork
  <2> QED  BY <2>1, <2>2
<1> QED  BY <1>0, <1>1, <1>2, <1>3, <1>4, <1>5

\* Assignments, submissions, sessions and attendance: every endpoint reaches the
\* cohort through cohort_for_teacher.
THEOREM TeachersKeepToTheirCohorts ==
  ASSUME NEW u, NEW op, NEW on
  PROVE  KeepsToOwnCohorts(u, op, on)
BY DEF KeepsToOwnCohorts, Serves, MayTeach

\* An account that someone else has set the password of.
THEOREM PasswordChangeComesFirst ==
  ASSUME NEW a \in CallerRows \cup {None}
  PROVE  ChangesPasswordFirst(Caller(a))
<1> DEFINE u == Caller(a)
<1> SUFFICES ASSUME u # None, u.pending
             PROVE  Routes(u) \subseteq Anonymous \cup AuthRoutes(u) \cup TimetableRoutes(u) \cup SessionRoutes(u)
                                        \cup AttendanceRoutes(u) \cup {"admin.classroom_schedule"}
  BY DEF ChangesPasswordFirst
<1>1. ~LoggedIn(u) /\ (\A type : ~Actor(u, type)) /\ (\A p : ~Permitted(u, p)) /\ ~ReviewGuard(u)
  BY DEF LoggedIn, Actor, Permitted, ReviewGuard
<1>2. StudentRoutes(u) = {}
  BY <1>1 DEF StudentRoutes, EnrollRoutes, MoneyRoutes, SelfPayRoutes, LearningRoutes, QuizRoutes,
              HomeworkRoutes, CertificateRoutes, ContractRoutes, If
<1>3. FinanceRoutes(u) = {}
  BY <1>1 DEF FinanceRoutes, InvoiceRoutes, RefundRoutes, LedgerRoutes, InstallmentRoutes, EbarimtRoutes, If
<1>4. OfficeRoutes(u) \subseteq {"admin.classroom_schedule"}
  BY <1>1 DEF OfficeRoutes, UserRoutes, ClassroomRoutes, CohortRoutes, CourseRoutes, ScheduleRoutes,
              AuthoringRoutes, QuizStaffRoutes, IssuingRoutes, ContractStaffRoutes, If
<1>5. ProfileRoutes(u) = {} /\ NotificationRoutes(u) = {} /\ HandoverRoutes(u) = {} /\ ReviewRoutes(u) = {}
  BY <1>1 DEF ProfileRoutes, NotificationRoutes, HandoverRoutes, ReviewRoutes, If
<1> QED  BY <1>2, <1>3, <1>4, <1>5 DEF Routes, ClassRoutes

\* The back office is reached by permission alone, and the roles of students and
\* teachers have none.
THEOREM OfficeIsStaffOnly ==
  ASSUME NEW a \in CallerRows \cup {None}, a # None => RoleFits(a)
  PROVE  OfficeIsForStaff(Caller(a))
<1> DEFINE u == Caller(a)
<1> SUFFICES ASSUME u # None, u.type \in {"student", "teacher"}
             PROVE  FinanceRoutes(u) \cup OfficeRoutes(u) = {}
  BY DEF OfficeIsForStaff
<1>1. u.role \in {"student", "teacher"}
  BY CallerIsAnAccount DEF RoleFits
<1>2. \A p : ~HasPermission(u.role, p)
  BY <1>1, NoOfficePermission
<1>3. (\A p : ~Permitted(u, p)) /\ (\A ps : ~Can(u, ps))
  BY <1>2 DEF Permitted, Can
<1>4. FinanceRoutes(u) = {}
  BY <1>3 DEF FinanceRoutes, InvoiceRoutes, RefundRoutes, LedgerRoutes, InstallmentRoutes, EbarimtRoutes, If
<1>5. OfficeRoutes(u) = {}
  BY <1>3 DEF OfficeRoutes, UserRoutes, ClassroomRoutes, CohortRoutes, CourseRoutes, ScheduleRoutes,
              AuthoringRoutes, QuizStaffRoutes, IssuingRoutes, ContractStaffRoutes, If
<1> QED  BY <1>4, <1>5

-----------------------------------------------------------------------------
(* Catalogue: rounding.                                                    *)

\* Rounding to the cent stays within one unit above the floor.
LEMMA RoundIsNat ==
  ASSUME NEW n \in Nat, NEW d \in Nat \ {0}
  PROVE  Round(n, d) \in Nat
<1>1. n \div d \in Nat
  OBVIOUS
<1> QED  BY <1>1 DEF Round

\* A whole number of units is not changed.
LEMMA RoundWhole ==
  ASSUME NEW n \in Nat
  PROVE  /\ Round(n * Whole, Whole) = n
         /\ Round(n * 100, 100) = n
BY DEF Round, Whole

\* A sum below n units is rounded to n at most.
LEMMA RoundBelow ==
  ASSUME NEW n \in Nat, NEW m \in Nat, m < n * 10000
  PROVE  Round(m, 10000) \in 0..n
<1> DEFINE q == m \div 10000
<1>1. q \in Nat /\ q < n
  OBVIOUS
<1>2. Round(m, 10000) \in {q, q + 1}
  BY DEF Round
<1> HIDE DEF q
<1> QED  BY <1>1, <1>2

\* A share of at most the whole is at most the sum it is taken of.
LEMMA RoundShare ==
  ASSUME NEW n \in Nat, NEW p \in 0..Whole
  PROVE  Round(n * p, Whole) \in 0..n
<1> DEFINE m == n * p
<1>1. m \in Nat /\ m <= n * 10000
  BY DEF Whole
<1> SUFFICES Round(m, 10000) \in 0..n
  BY DEF Whole
<1>2. n * 10000 \in Nat /\ Round(n * 10000, 10000) = n
  BY RoundWhole DEF Whole
<1> HIDE DEF m
<1>3. CASE m = n * 10000
  BY <1>2, <1>3
<1>4. CASE m < n * 10000
  BY <1>1, <1>4, RoundBelow
<1> QED  BY <1>1, <1>2, <1>3, <1>4

\* What is more does not round to less.
LEMMA RoundMonotone ==
  ASSUME NEW a \in Nat, NEW b \in Nat, a <= b
  PROVE  Round(a, Whole) <= Round(b, Whole)
<1> DEFINE q(n) == n \div 10000
           rest(n) == n % 10000
<1>1. ASSUME NEW n \in Nat
      PROVE  q(n) \in Nat /\ rest(n) \in 0..9999 /\ n = 10000 * q(n) + rest(n)
  BY <1>1
<1> DEFINE qa == q(a)
           qb == q(b)
           ra == rest(a)
           rb == rest(b)
<1>2. /\ qa \in Nat /\ ra \in 0..9999 /\ a = 10000 * qa + ra
      /\ qb \in Nat /\ rb \in 0..9999 /\ b = 10000 * qb + rb
  BY <1>1
<1>3. /\ Round(a, Whole) = IF 2 * ra < 10000 \/ (2 * ra = 10000 /\ qa % 2 = 0) THEN qa ELSE qa + 1
      /\ Round(b, Whole) = IF 2 * rb < 10000 \/ (2 * rb = 10000 /\ qb % 2 = 0) THEN qb ELSE qb + 1
  BY DEF Round, Whole
<1> HIDE DEF qa, qb, ra, rb
<1>4. qa <= qb /\ (qa = qb => ra <= rb)
  BY <1>2
<1> QED  BY <1>2, <1>3, <1>4

\* The share a row of payment terms bills.
LEMMA FractionOf ==
  ASSUME NEW t, NEW id \in DOMAIN t, NEW p \in Nat, t[id].percent = p
  PROVE  Fraction(t, id) = IF p \in 1..Whole THEN p ELSE Whole
<1>1. Fraction(t, id) = IF p = 0 THEN Whole ELSE Least(p, Whole)
  BY DEF Fraction
<1> QED  BY <1>1 DEF Least, Whole

\* Hundredths that make a whole percent.
LEMMA WholePercents ==
  \A n \in 1..Whole : n % 100 = 0 => n = 100 * (n \div 100) /\ n \div 100 \in Nat
BY DEF Whole

\* Hundredths are numbers.
LEMMA WithinWhole == \A n \in 1..Whole : n \in Nat
BY DEF Whole

\* A common factor of 100 does not change the rounding.
LEMMA ScaleDown ==
  ASSUME NEW n \in Nat
  PROVE  (100 * n) \div 10000 = n \div 100 /\ (100 * n) % 10000 = 100 * (n % 100)
<1> DEFINE q == n \div 100
           r == n % 100
<1>1. q \in Nat /\ r \in 0..99 /\ n = 100 * q + r
  OBVIOUS
<1> HIDE DEF q, r
<1>2. 100 * n = 10000 * q + 100 * r /\ 100 * r \in 0..9999
  BY <1>1
<1> DEFINE a == 100 * n
           k == 100 * r
<1> HIDE DEF a, k
<1>3. a \div 10000 = q /\ a % 10000 = k
  <2>1. a = 10000 * q + k /\ k \in 0..9999
    BY <1>2 DEF a, k
  <2> QED  BY <1>1, <2>1
<1> QED  BY <1>3 DEF a, k, q, r

\* Rounding looks at quotient and remainder only.
LEMMA RoundParts ==
  ASSUME NEW n, NEW d, NEW q, NEW r, n \div d = q, n % d = r
  PROVE  Round(n, d) = IF 2 * r < d \/ (2 * r = d /\ q % 2 = 0) THEN q ELSE q + 1
BY DEF Round

\* The same hundredths are rounded the same, counted of 100 or of the whole.
LEMMA RoundHundreds ==
  ASSUME NEW n \in Nat
  PROVE  Round(100 * n, Whole) = Round(n, 100)
<1> DEFINE q == n \div 100
           r == n % 100
<1>1. r \in Nat
  OBVIOUS
<1>2. Round(100 * n, Whole) = IF 2 * (100 * r) < 10000 \/ (2 * (100 * r) = 10000 /\ q % 2 = 0)
                              THEN q ELSE q + 1
  BY ScaleDown, RoundParts DEF Whole
<1>3. Round(n, 100) = IF 2 * r < 100 \/ (2 * r = 100 /\ q % 2 = 0) THEN q ELSE q + 1
  BY RoundParts
<1> HIDE DEF q, r
<1>4. (2 * (100 * r) < 10000 <=> 2 * r < 100) /\ (2 * (100 * r) = 10000 <=> 2 * r = 100)
  BY <1>1
<1> QED  BY <1>2, <1>3, <1>4

\* A share between nothing and the whole is billed as it is.
LEMMA FractionInRange ==
  ASSUME NEW t, NEW id \in DOMAIN t, t[id].percent \in 1..Whole
  PROVE  Fraction(t, id) = t[id].percent
<1>1. t[id].percent \in Nat
  BY WithinWhole, Zenon
<1> QED  BY <1>1, FractionOf, Zenon

\* Whatever is posted, a share of the price is billed.
LEMMA FractionIsShare ==
  ASSUME NEW t, t \in [DOMAIN t -> TermRows], NEW id
  PROVE  Fraction(t, id) \in 0..Whole
<1>1. CASE id \in DOMAIN t
  <2>1. t[id].percent \in Nat
    BY <1>1 DEF TermRows
  <2>2. \A p \in Nat : (IF p \in 1..Whole THEN p ELSE Whole) \in 0..Whole
    BY DEF Whole
  <2> QED  BY <1>1, <2>1, <2>2, FractionOf
<1>2. CASE id \notin DOMAIN t
  BY <1>2 DEF Fraction, Whole
<1> QED  BY <1>1, <1>2

\* A price is a sum of money.
LEMMA PriceIsNat ==
  ASSUME Tables, NEW k \in Cohorts
  PROVE  CohortPrice(k) \in Nat
<1> DEFINE c == course[cohort[k].course]
<1>1. c \in CourseRows
  BY DEF Tables, CohortRows
<1>2. c.price * (100 - c.discount) \in Nat
  <2>1. c.price \in Nat /\ c.discount \in 0..100
    BY <1>1 DEF CourseRows
  <2>2. 100 - c.discount \in Nat
    BY <2>1
  <2> HIDE DEF c
  <2> QED  BY <2>1, <2>2
<1> QED  BY <1>2, RoundIsNat DEF CohortPrice, Discounted

-----------------------------------------------------------------------------
(* Ids.                                                                    *)

\* The schedule id a run publishes is resolved to that run, or is taken.
LEMMA ScheduleFindsRun ==
  ASSUME Tables, NEW k \in Cohorts
  PROVE  /\ ~ScheduleTaken(k) => CohortFor(term, PublicSchedule(k)) = {k}
         /\ ScheduleTaken(k) => k \notin CohortFor(term, PublicSchedule(k))
<1> DEFINE id == PublicSchedule(k)
           runs == {j \in Cohorts : cohort[j].legacy = id /\ id # 0}
<1>1. k \in Nat \ {0} /\ id # 0
  BY DEF Tables, PublicSchedule
<1>2. CASE id \in DOMAIN term
  BY <1>2 DEF CohortFor, ScheduleTaken
<1>3. CASE id \notin DOMAIN term
  <2>1. CohortFor(term, id) = IF runs # {} THEN runs ELSE {id} \cap Cohorts
    BY <1>3 DEF CohortFor
  <2>2. ScheduleTaken(k) <=> \E j \in Cohorts \ {k} : cohort[j].legacy = id
    BY <1>3 DEF ScheduleTaken
  <2>3. CASE cohort[k].legacy # 0
    <3>1. id = cohort[k].legacy /\ runs = {k}
      BY <1>1, <2>3 DEF PublicSchedule, Tables
    <3> QED  BY <2>1, <2>2, <3>1
  <2>4. CASE cohort[k].legacy = 0
    <3>1. id = k /\ k \notin runs
      BY <1>1, <2>4 DEF PublicSchedule
    <3> QED  BY <1>1, <2>1, <2>2, <3>1
  <2> QED  BY <2>3, <2>4
<1> QED  BY <1>2, <1>3

\* The course id a course publishes stands for it, among others, or is taken.
LEMMA CourseFindsItself ==
  ASSUME Tables, NEW c \in Courses
  PROVE  /\ c \in CoursesFor(PublicCourse(c)) <=> ~CourseTaken(c)
         /\ CoursesFor(PublicCourse(c)) # {}
BY DEF Tables, PublicCourse, CoursesFor, LegacyCourses, CourseTaken

\* A card that is posted back books a seat of the run it showed, whatever ids the
\* tables hold, unless one of the two it posts is taken.
THEOREM CardBooksItsRunAlways ==
  ASSUME Tables, NEW c \in Courses, NEW k \in Cohorts
  PROVE  CardBooksItsRun(c, k)
<1> DEFINE found == Bookable(PublicCourse(c), PublicSchedule(k))
<1> SUFFICES ASSUME k \in NextRun(c)
             PROVE  /\ k \in found <=> FreeSeats(k) # {} /\ InMnt(k) /\ ~ScheduleTaken(k) /\ ~CourseTaken(c)
                    /\ k \in found => found = {k}
  BY DEF CardBooksItsRun, Card, Tables
<1>1. cohort[k].course = c /\ cohort[k].status = "open"
  BY DEF NextRun, Pool, Upcoming, OnSale
<1>2. found \subseteq CohortFor(term, PublicSchedule(k))
  BY DEF Bookable
<1>3. k \in found <=> FreeSeats(k) # {} /\ InMnt(k) /\ ~ScheduleTaken(k) /\ ~CourseTaken(c)
  BY <1>1, ScheduleFindsRun, CourseFindsItself DEF Bookable
<1> HIDE DEF found
<1>4. k \in found => found = {k}
  BY <1>2, <1>3, ScheduleFindsRun
<1> QED  BY <1>3, <1>4

-----------------------------------------------------------------------------
(* Charges.                                                                *)

\* Without a code nothing is taken off.
LEMMA NoCodeNothingOff ==
  ASSUME Tables, NEW k \in Cohorts
  PROVE  AfterPromotion(k, None) = CohortPrice(k)
BY PriceIsNat DEF Off, AfterPromotion, Tables

\* A listed seat is booked at the listed price.
THEOREM ListedIsBookableAlways ==
  ASSUME Tables, NEW id, NEW k \in Cohorts, NEW seat
  PROVE  ListedIsBookable(id, k, seat)
<1> DEFINE schedule == PublicSchedule(k)
<1> SUFFICES ASSUME cohort[k].course \in CoursesFor(id), cohort[k].status = "open",
                    InMnt(k), seat \in FreeSeats(k)
             PROVE  IF ScheduleTaken(k) THEN \A b \in Booked(id, schedule, seat, None) : b.cohort # k
                    ELSE /\ Booked(id, schedule, seat, None)
                              = {[cohort |-> k, seat |-> seat, amount |-> Charge(k, schedule, None)]}
                         /\ Fraction(term, schedule) = Whole => Charge(k, schedule, None) = CohortPrice(k)
  BY DEF ListedIsBookable
<1>1. CASE ScheduleTaken(k)
  <2>1. k \notin Bookable(id, schedule)
    BY <1>1, ScheduleFindsRun DEF Bookable
  <2> QED  BY <1>1, <2>1 DEF Booked
<1>2. CASE ~ScheduleTaken(k)
  <2>1. Bookable(id, schedule) = {k}
    BY <1>2, ScheduleFindsRun DEF Bookable
  <2>2. Seat(k, seat) = {seat}
    BY DEF Seat
  <2>3. Fraction(term, schedule) = Whole => Charge(k, schedule, None) = CohortPrice(k)
    BY NoCodeNothingOff, PriceIsNat, RoundWhole DEF Charge
  <2>4. Booked(id, schedule, seat, None) = {[cohort |-> k, seat |-> seat, amount |-> Charge(k, schedule, None)]}
    BY <2>1, <2>2 DEF Booked
  <2> QED  BY <1>2, <2>3, <2>4
<1> QED  BY <1>1, <1>2

\* A published deposit id bills the percentage that is published with it.
THEOREM DepositAsPublishedAlways ==
  ASSUME Tables, NEW k \in Cohorts, NEW id
  PROVE  DepositAsPublished(k, id)
<1> SUFFICES ASSUME id \in Deposits(k), term[id].percent % 100 = 0, term[id].percent \in 1..Whole
             PROVE  /\ CohortFor(term, id) = {k}
                    /\ \E percent \in AdvancePercent(k) :
                         Charge(k, id, None) = Round(CohortPrice(k) * percent, 100)
  BY DEF DepositAsPublished
<1>1. id \in DOMAIN term /\ term[id].cohort = k
  BY DEF Deposits, Variant
<1> DEFINE percent == term[id].percent \div 100
           price == CohortPrice(k)
<1>2. percent \in AdvancePercent(k)
  BY DEF AdvancePercent
<1>3. Fraction(term, id) = 100 * percent /\ percent \in Nat
  <2>1. Fraction(term, id) = term[id].percent
    BY <1>1, FractionInRange
  <2> QED  BY <2>1, WholePercents, Zenon
<1>4. price \in Nat
  BY PriceIsNat
<1> HIDE DEF percent, price
<1>5. Charge(k, id, None) = Round(price * (100 * percent), Whole)
  BY <1>3, NoCodeNothingOff DEF Charge, price
<1>6. Round(price * (100 * percent), Whole) = Round(price * percent, 100)
  <2> DEFINE n == price * percent
  <2>1. n \in Nat /\ price * (100 * percent) = 100 * n
    BY <1>3, <1>4
  <2> HIDE DEF n
  <2> QED  BY <2>1, RoundHundreds, Zenon DEF n
<1> QED  BY <1>1, <1>2, <1>5, <1>6 DEF CohortFor, price

\* A promotion takes off no more than there is.
LEMMA PromotionTakesOff ==
  ASSUME Tables, NEW k \in Cohorts, NEW coupon
  PROVE  AfterPromotion(k, coupon) \in 0..CohortPrice(k)
<1>1. CohortPrice(k) \in Nat
  BY PriceIsNat
<1>2. Off(k, coupon) \in Nat
  <2>1. CASE coupon \in DOMAIN promotion
    <3>1. promotion[coupon].value \in Nat
      BY <2>1 DEF Tables, PromotionRows
    <3>2. CohortPrice(k) * promotion[coupon].value \in Nat
      BY <1>1, <3>1
    <3>3. Round(CohortPrice(k) * promotion[coupon].value, Whole) \in Nat
      BY <3>2, RoundIsNat DEF Whole
    <3> QED  BY <1>1, <3>1, <3>3 DEF Off, DiscountFor, Least
  <2> QED  BY <2>1 DEF Off
<1> QED  BY <1>1, <1>2 DEF AfterPromotion

\* No schedule id and no code bills less than nothing or more than the price.
THEOREM ChargeIsBoundedAlways ==
  ASSUME Tables, NEW k \in Cohorts, NEW schedule, NEW coupon
  PROVE  ChargeIsBounded(k, schedule, coupon)
<1>1. CohortPrice(k) \in Nat
  BY PriceIsNat
<1>2. AfterPromotion(k, coupon) \in 0..CohortPrice(k)
  BY PromotionTakesOff
<1>3. Fraction(term, schedule) \in 0..Whole
  BY FractionIsShare DEF Tables
<1>4. Charge(k, schedule, coupon) \in 0..AfterPromotion(k, coupon)
  <2>1. AfterPromotion(k, coupon) \in Nat
    BY <1>1, <1>2
  <2> QED  BY <1>3, <2>1, RoundShare DEF Charge
<1> QED  BY <1>1, <1>2, <1>4 DEF ChargeIsBounded

\* A code the coupon form accepts is taken off the runs it is meant for, and never
\* makes a seat dearer.
THEOREM CouponIsHonouredAlways ==
  ASSUME Tables, NEW coupon, NEW id, NEW k \in Cohorts, NEW schedule
  PROVE  CouponIsHonoured(coupon, id, k, schedule)
<1> SUFFICES ASSUME CouponAccepted(coupon, id), k \in Bookable(id, schedule)
             PROVE  /\ promotion[coupon].course \in {0, cohort[k].course} =>
                         Off(k, coupon) = DiscountFor(promotion[coupon], CohortPrice(k))
                    /\ Charge(k, schedule, coupon) <= Charge(k, schedule, None)
  BY DEF CouponIsHonoured
<1>1. PICK c : coupon \in DOMAIN promotion /\ ValidNow(promotion[coupon], c)
  BY DEF CouponAccepted
<1>2. promotion[coupon].course \in {0, cohort[k].course} =>
        Off(k, coupon) = DiscountFor(promotion[coupon], CohortPrice(k))
  BY <1>1 DEF Off, ValidNow
<1> DEFINE price == CohortPrice(k)
           less == AfterPromotion(k, coupon)
           share == Fraction(term, schedule)
<1>3. price \in Nat /\ less \in 0..price /\ share \in 0..Whole
  BY PriceIsNat, PromotionTakesOff, FractionIsShare DEF Tables
<1>4. Charge(k, schedule, coupon) = Round(less * share, Whole)
      /\ Charge(k, schedule, None) = Round(price * share, Whole)
  BY NoCodeNothingOff DEF Charge
<1> HIDE DEF price, less, share
<1>5. Round(less * share, Whole) <= Round(price * share, Whole)
  <2> DEFINE a == less * share
             b == price * share
  <2>1. less \in Nat /\ price - less \in Nat /\ share \in Nat
    BY <1>3 DEF Whole
  <2>2. a \in Nat /\ (price - less) * share \in Nat
    BY <2>1
  <2>3. b = a + (price - less) * share
    BY <2>1, <1>3
  <2> DEFINE more == (price - less) * share
  <2> HIDE DEF a, b, more
  <2>4. a \in Nat /\ b \in Nat /\ a <= b
    BY <2>2, <2>3 DEF more
  <2> QED  BY <2>4, RoundMonotone DEF a, b
<1> QED  BY <1>2, <1>4, <1>5

-----------------------------------------------------------------------------
(* Seeding.                                                                *)

\* Each id an entry published resolves to the seeded run on its own terms.
THEOREM SeedIsPublishedAlways ==
  ASSUME NEW e \in Entries, NEW k \in Cohorts
  PROVE  SeedIsPublished(e, k)
<1> DEFINE Fields == {"full", "deposit", "promo", "promo_deposit"}
<1> SUFFICES ASSUME \A f, g \in Fields : f # g /\ e[f] # 0 => e[f] # e[g],
                    NEW f \in Fields, e[f] # 0
             PROVE  /\ CohortFor(SeededTerms(e, k), e[f]) = {k}
                    /\ Fraction(SeededTerms(e, k), e[f])
                         = IF f \in {"deposit", "promo_deposit"} THEN DepositShare(e) ELSE Whole
  BY DEF SeedIsPublished
<1>1. e[f] \in Published(e)
  BY DEF Published
<1>2. e[f] \in DOMAIN SeededTerms(e, k) /\ SeededTerms(e, k)[e[f]] = TermOf(e, k, e[f])
  BY <1>1 DEF SeededTerms
<1>3. TermOf(e, k, e[f]).cohort = k
  BY DEF TermOf
<1>4. DepositShare(e) \in 1..Whole
  <2> DEFINE percent == IF e.advance = 0 THEN DefaultDepositPercent ELSE e.advance
  <2>1. percent \in 1..100
    BY DEF DefaultDepositPercent, Entries
  <2> HIDE DEF percent
  <2>2. 100 * percent \in 1..10000
    BY <2>1
  <2>3. DepositShare(e) = 100 * percent
    BY Zenon DEF DepositShare, percent
  <2> DEFINE share == 100 * percent
  <2> HIDE DEF share
  <2>4. share \in 1..Whole
    BY <2>2 DEF share, Whole
  <2> QED  BY <2>3, <2>4 DEF share
<1>5. TermOf(e, k, e[f]).percent
        = IF f \in {"deposit", "promo_deposit"} THEN DepositShare(e) ELSE Whole
  BY DEF TermOf
<1>6. TermOf(e, k, e[f]).percent \in 1..Whole
  <2>1. Whole \in 1..Whole
    BY DEF Whole
  <2> QED  BY <1>4, <1>5, <2>1
<1>7. Fraction(SeededTerms(e, k), e[f]) = TermOf(e, k, e[f]).percent
  BY <1>2, <1>6, FractionInRange
<1> QED  BY <1>2, <1>3, <1>5, <1>7 DEF CohortFor

\* A price stated in MNT is what the seeded course sells for.
THEOREM SeedSellsAtPriceAlways ==
  ASSUME NEW group \in Seq(Entries), group # <<>>, NEW publish, NEW status
  PROVE  SeedSellsAtPrice(group, publish, status)
<1> DEFINE head == group[1]
<1>1. head \in Entries
  OBVIOUS
<1>2. head.mntPrice \in Nat
  BY <1>1 DEF Entries
<1>3. head.mntPrice # 0 =>
        Round(SeededCourse(group, publish, status).price
                * (100 - SeededCourse(group, publish, status).discount), 100) = head.mntPrice
  BY <1>2, RoundWhole DEF SeededCourse
<1> QED  BY <1>3 DEF SeedSellsAtPrice

-----------------------------------------------------------------------------
(* The gateways.                                                           *)

LEMMA FirstIsLeast ==
  ASSUME NEW S, S \subseteq Nat, S # {}
  PROVE  First(S) \in S /\ \A j \in S : First(S) <= j
<1>1. PICK k \in S : \A j \in S : ~(<<j, k>> \in OpToRel(<, Nat))
  BY NatLessThanWellFounded, WFMin
<1>2. \A j \in S : k <= j
  <2> SUFFICES ASSUME NEW j \in S PROVE k <= j
    OBVIOUS
  <2>1. ~(j < k)
    BY <1>1 DEF OpToRel
  <2> QED  BY <2>1
<1> QED  BY <1>1, <1>2 DEF First

LEMMA EarliestIsOne ==
  ASSUME NEW S, S \subseteq Nat, S # {}
  PROVE  Earliest(S) = {First(S)} /\ First(S) \in S
BY FirstIsLeast DEF Earliest

\* The routing of GOLOMT_CORP_ACCOUNTS, for a list of any length and whichever of
\* its entries are marked as the default.
THEOREM RoutedByCourseAlways ==
  ASSUME Listed \in Seq([number: STRING, courses: SUBSET CourseKeys, default: BOOLEAN]), Listed # <<>>,
         NEW name
  PROVE  RoutedByCourse(name)
<1>1. DOMAIN Listed \subseteq Nat /\ Len(Listed) \in DOMAIN Listed
  OBVIOUS
<1>2. CASE Collecting(name) # {}
  <2>1. Collecting(name) \subseteq Nat
    BY <1>1 DEF Collecting
  <2>2. First(Collecting(name)) \in Collecting(name)
    BY <1>2, <2>1, FirstIsLeast
  <2> QED  BY <1>2, <2>2 DEF RoutedByCourse, AccountFor, Collecting
<1>3. CASE Collecting(name) = {}
  <2>1. \E k \in DOMAIN Listed : IsDefault(k)
    BY <1>1 DEF IsDefault
  <2>2. DefaultAccount \in DOMAIN Listed /\ IsDefault(DefaultAccount)
    <3> DEFINE D == {k \in DOMAIN Listed : IsDefault(k)}
    <3>1. First(D) \in D
      BY <1>1, <2>1, FirstIsLeast
    <3> QED  BY <3>1 DEF DefaultAccount
  <2> QED  BY <1>3, <2>2 DEF RoutedByCourse, AccountFor
<1> QED  BY <1>2, <1>3

\* A search that has a match reports one, of the sum that is owed.
LEMMA MatchReports ==
  ASSUME NEW i, NEW n, NEW from, NEW to, Statement[n] \in Seq(StatementRows), Found(i, n, from, to) # {}
  PROVE  Match(i, n, from, to) # {} /\ \A report \in Match(i, n, from, to) : report.amount = i.amount
<1> DEFINE k == First(Found(i, n, from, to))
<1>1. Found(i, n, from, to) \subseteq Nat
  BY DEF Found
<1>2. Earliest(Found(i, n, from, to)) = {k} /\ k \in Found(i, n, from, to)
  BY <1>1, EarliestIsOne
<1> HIDE DEF k
<1>3. Match(i, n, from, to) = {Transfer(i, Statement[n][k])}
  BY <1>2 DEF Match
<1>4. Statement[n][k].amount = i.amount
  BY <1>2 DEF Found, Matches
<1> QED  BY <1>3, <1>4 DEF Transfer

\* Over all accounts, the search ends in the first that has a match.
LEMMA SearchEnds ==
  ASSUME NEW i, NEW from, NEW to, Listed \in Seq([number: STRING, courses: SUBSET CourseKeys, default: BOOLEAN]),
         NEW n \in Numbers, Found(i, n, from, to) # {}
  PROVE  \E k \in Touched(i, from, to) : MatchOfAll(i, from, to) = Match(i, Listed[k].number, from, to)
<1> DEFINE k == First(Touched(i, from, to))
<1>0. PICK j \in DOMAIN Listed : Listed[j].number = n
  BY DEF Numbers
<1>1. Touched(i, from, to) \subseteq Nat /\ Touched(i, from, to) # {}
  <2>1. DOMAIN Listed \subseteq Nat
    OBVIOUS
  <2>2. j \in Touched(i, from, to)
    BY <1>0 DEF Touched
  <2> QED  BY <2>1, <2>2 DEF Touched
<1>2. Earliest(Touched(i, from, to)) = {k} /\ k \in Touched(i, from, to)
  BY <1>1, EarliestIsOne
<1> HIDE DEF k
<1>3. MatchOfAll(i, from, to) = Match(i, Listed[k].number, from, to)
  BY <1>2 DEF MatchOfAll
<1> QED  BY <1>2, <1>3

\* Money paid as the instructions say is not overlooked, wherever else the reference
\* turns up.
THEOREM TransferIsFoundAlways ==
  ASSUME NEW i, NEW name, NEW k, NEW today, NEW from, NEW to,
         Listed \in Seq([number: STRING, courses: SUBSET CourseKeys, default: BOOLEAN]), Listed # <<>>,
         \A n \in Numbers : Statement[n] \in Seq(StatementRows)
  PROVE  TransferIsFound(i, name, k, today, from, to)
<1> DEFINE n == AccountFor(name)
<1> SUFFICES ASSUME i \in Raised("golomt", i.amount, i.ref, None, name), Ready("golomt"),
                    k \in DOMAIN Statement[n], Matches(i, Statement[n][k])
             PROVE  /\ Statement[n][k].day \in (today - Window)..today =>
                          \E report \in ByPoll(i, today) : report.amount = i.amount
                    /\ Statement[n][k].day \in from..to =>
                          \E report \in ByReconcile(i, from, to) : report.amount = i.amount
  BY DEF TransferIsFound
<1>1. n \in Numbers
  <2>1. \E d \in DOMAIN Listed : AccountFor(name) = Listed[d].number
    BY RoutedByCourseAlways DEF RoutedByCourse
  <2> QED  BY <2>1 DEF Numbers
<1>2. i.provider = "golomt" /\ i.status = "pending" /\ i.account = n
  BY DEF Raised
<1> HIDE DEF n
<1>3. ASSUME Statement[n][k].day \in (today - Window)..today
      PROVE  \E report \in ByPoll(i, today) : report.amount = i.amount
  <2>1. Found(i, n, today - Window, today) # {}
    BY <1>3 DEF Found
  <2>2. ByPoll(i, today) = Match(i, n, today - Window, today)
    BY <1>1, <1>2 DEF ByPoll, Reports, GolomtReports, Provided, Supported
  <2> QED  BY <1>1, <2>1, <2>2, MatchReports
<1>4. ASSUME Statement[n][k].day \in from..to
      PROVE  \E report \in ByReconcile(i, from, to) : report.amount = i.amount
  <2>1. Found(i, n, from, to) # {}
    BY <1>4 DEF Found
  <2>2. PICK d \in Touched(i, from, to) : MatchOfAll(i, from, to) = Match(i, Listed[d].number, from, to)
    BY <1>1, <2>1, SearchEnds
  <2>3. Listed[d].number \in Numbers /\ Found(i, Listed[d].number, from, to) # {}
    BY <2>2 DEF Touched, Numbers
  <2>4. ByReconcile(i, from, to) = Match(i, Listed[d].number, from, to)
    BY <1>2, <2>2 DEF ByReconcile
  <2> QED  BY <2>3, <2>4, MatchReports
<1> QED  BY <1>3, <1>4

\* Webhook, poll and reconcile of one invoice hand settle the same payment, under the
\* same key.
THEOREM OneAnswerAlways ==
  ASSUME NEW i, NEW body, NEW today, None \notin References,
         Listed \in Seq([number: STRING, courses: SUBSET CourseKeys, default: BOOLEAN])
  PROVE  i \in InvoiceRows => OneAnswer(i, body, today)
<1> SUFFICES ASSUME i \in InvoiceRows, i \in Invoices, i.provider \in Supported, i.status = "pending",
                    \A j \in Invoices : j.ref = i.ref => j = i
             PROVE  /\ ByCallback(i.provider, i.ref, body, today) = {<<i, report>> : report \in ByPoll(i, today)}
                    /\ i.provider = "golomt" /\ i.account \in Numbers
                       /\ (\A n \in Numbers \ {i.account} : Found(i, n, today - Window, today) = {})
                       => ByPoll(i, today) = ByReconcile(i, today - Window, today)
  BY DEF OneAnswer
<1>1. ByCallback(i.provider, i.ref, body, today) = {<<i, report>> : report \in ByPoll(i, today)}
  <2>1. i.ref # None
    BY DEF InvoiceRows
  <2>2. {j \in Named(i.provider, i.ref, body) : j.provider = i.provider} = {i}
    BY <2>1 DEF Named
  <2>3. ByPoll(i, today) = Reports(i, today)
    BY DEF ByPoll
  <2> QED  BY <2>2, <2>3 DEF ByCallback
<1>2. ASSUME i.provider = "golomt", i.account \in Numbers,
             \A n \in Numbers \ {i.account} : Found(i, n, today - Window, today) = {}
      PROVE  ByPoll(i, today) = ByReconcile(i, today - Window, today)
  <2> DEFINE there == Match(i, i.account, today - Window, today)
             all == MatchOfAll(i, today - Window, today)
  <2>1. ByPoll(i, today) = IF Ready("golomt") THEN there ELSE {}
    BY <1>2 DEF ByPoll, Reports, GolomtReports, Provided, Supported
  <2>2. ByReconcile(i, today - Window, today) = IF Ready("golomt") THEN all ELSE {}
    BY <1>2 DEF ByReconcile
  <2>3. CASE Found(i, i.account, today - Window, today) # {}
    <3>1. PICK d \in Touched(i, today - Window, today) : all = Match(i, Listed[d].number, today - Window, today)
      BY <1>2, <2>3, SearchEnds
    <3>2. Listed[d].number = i.account
      BY <1>2, <3>1 DEF Touched, Numbers
    <3> QED  BY <2>1, <2>2, <3>1, <3>2
  <2>4. CASE Found(i, i.account, today - Window, today) = {}
    <3>1. there = {}
      BY <2>4 DEF Match, Earliest
    <3>2. Touched(i, today - Window, today) = {}
      BY <1>2, <2>4 DEF Touched, Numbers
    <3>3. all = {}
      <4>1. Earliest(Touched(i, today - Window, today)) = {}
        BY <3>2 DEF Earliest
      <4> QED  BY <4>1 DEF MatchOfAll
    <3> HIDE DEF there, all
    <3> QED  BY <2>1, <2>2, <3>1, <3>3
  <2> QED  BY <2>3, <2>4
<1> QED  BY <1>1, <1>2

-----------------------------------------------------------------------------
(* The token cache.                                                        *)

LEMMA TokenInit == Timely /\ CacheInit => CacheInv
BY DEF Timely, CacheInit, CacheInv, CacheTypeOK, CacheOK, ThreadOK, ThreadRows, ThreadSteps, Resting, Does

\* A thread that moves sets only its own entry.
LEMMA Moved ==
  ASSUME CacheInv, NEW w \in Threads, NEW step \in ThreadSteps, NEW t \in Nat \cup {Empty}, Go(w, step, t)
  PROVE  /\ thread' \in [Threads -> ThreadRows]
         /\ thread'[w] = [step |-> step, token |-> t, at |-> now]
         /\ \A v \in Threads \ {w} : thread'[v] = thread[v]
BY DEF CacheInv, CacheTypeOK, ThreadRows, Go

\* A thread nobody moved stays in order while the clock and the cache stand.
LEMMA Rests ==
  ASSUME NEW w \in Threads, ThreadOK(w), thread'[w] = thread[w], UNCHANGED <<now, cached>>
  PROVE  ThreadOK(w)'
BY DEF ThreadOK, Does

LEMMA LookKeeps == ASSUME CacheInv, NEW w \in Threads, Look(w) PROVE CacheInv'
<1>1. Timely /\ CacheTypeOK /\ CacheOK /\ (\A v \in Threads : ThreadOK(v))
  BY DEF CacheInv
<1>2. now \in Nat /\ expires \in Nat /\ cached \in Nat \cup {Empty} /\ UNCHANGED <<now, cached, expires>>
  BY <1>1 DEF CacheTypeOK, Look
<1>3. Go(w, IF Fresh THEN "look" ELSE "ask", Empty)
  BY DEF Look
<1>4. /\ thread' \in [Threads -> ThreadRows]
      /\ thread'[w] = [step |-> IF Fresh THEN "look" ELSE "ask", token |-> Empty, at |-> now]
      /\ \A v \in Threads \ {w} : thread'[v] = thread[v]
  BY <1>3, Moved DEF ThreadSteps
<1>5. ThreadOK(w)'
  <2>1. CASE Fresh
    <3>1. cached # Empty /\ now < expires - Margin /\ cached \in Nat
      BY <1>2, <2>1 DEF Fresh
    <3>2. Margin < Ttl
      BY <1>1, <1>2, <3>1 DEF CacheOK, Timely
    <3>3. now + Delay < cached + Ttl
      BY <1>1, <1>2, <3>1 DEF CacheOK, Timely
    <3> QED  BY <1>1, <1>2, <1>4, <2>1, <3>1, <3>2, <3>3 DEF ThreadOK, Does, Timely
  <2>2. CASE ~Fresh
    BY <1>2, <1>4, <2>2 DEF ThreadOK, Does
  <2> QED  BY <2>1, <2>2
<1>6. \A v \in Threads : ThreadOK(v)'
  BY <1>1, <1>2, <1>4, <1>5, Rests
<1>7. CacheTypeOK' /\ CacheOK'
  BY <1>1, <1>2, <1>4 DEF CacheTypeOK, CacheOK
<1> QED  BY <1>1, <1>6, <1>7 DEF CacheInv, Timely

LEMMA TakeKeeps == ASSUME CacheInv, NEW w \in Threads, Take(w) PROVE CacheInv'
<1>1. Timely /\ CacheTypeOK /\ CacheOK /\ (\A v \in Threads : ThreadOK(v))
  BY DEF CacheInv
<1>2. now \in Nat /\ expires \in Nat /\ cached \in Nat \cup {Empty} /\ UNCHANGED <<now, cached, expires>>
  BY <1>1 DEF CacheTypeOK, Take
<1>3. /\ thread' \in [Threads -> ThreadRows]
      /\ thread'[w] = [step |-> "send", token |-> cached, at |-> now]
      /\ \A v \in Threads \ {w} : thread'[v] = thread[v]
  BY <1>2, Moved DEF ThreadSteps, Take
<1>4. thread[w].at \in Nat
  BY <1>1 DEF CacheTypeOK, ThreadRows
<1>5. cached # Empty /\ now < cached + Ttl
  <2>1. cached # Empty /\ thread[w].at + Delay < cached + Ttl /\ now <= thread[w].at + Delay
    BY <1>1 DEF Take, ThreadOK
  <2> QED  BY <1>1, <1>2, <1>4, <2>1 DEF Timely
<1>6. ThreadOK(w)'
  BY <1>2, <1>3, <1>5 DEF ThreadOK, Does, Timely
<1>7. \A v \in Threads : ThreadOK(v)'
  BY <1>1, <1>2, <1>3, <1>6, Rests
<1>8. CacheTypeOK' /\ CacheOK'
  BY <1>1, <1>2, <1>3 DEF CacheTypeOK, CacheOK
<1> QED  BY <1>1, <1>7, <1>8 DEF CacheInv, Timely

\* Asked, refused, granted, sent: the cache is left alone.
LEMMA AskKeeps ==
  ASSUME CacheInv, NEW w \in Threads, Grant(w) \/ Refuse(w) \/ Sent(w)
  PROVE  CacheInv'
<1>1. Timely /\ CacheTypeOK /\ CacheOK /\ (\A v \in Threads : ThreadOK(v))
  BY DEF CacheInv
<1>2. now \in Nat /\ UNCHANGED <<now, cached, expires>>
  BY <1>1 DEF CacheTypeOK, Grant, Refuse, Sent
<1>3. Go(w, "granted", now) \/ Go(w, "idle", Empty)
  BY DEF Grant, Refuse, Sent
<1>4. /\ thread' \in [Threads -> ThreadRows]
      /\ \/ thread'[w] = [step |-> "granted", token |-> now, at |-> now]
         \/ thread'[w] = [step |-> "idle", token |-> Empty, at |-> now]
      /\ \A v \in Threads \ {w} : thread'[v] = thread[v]
  <2>1. CASE Go(w, "granted", now)
    BY <1>2, <2>1, Moved DEF ThreadSteps
  <2>2. CASE Go(w, "idle", Empty)
    BY <1>2, <2>2, Moved DEF ThreadSteps
  <2> QED  BY <1>3, <2>1, <2>2
<1>5. ThreadOK(w)'
  BY <1>1, <1>2, <1>4 DEF ThreadOK, Does, Timely
<1>6. \A v \in Threads : ThreadOK(v)'
  BY <1>1, <1>2, <1>4, <1>5, Rests
<1>7. CacheTypeOK' /\ CacheOK'
  BY <1>1, <1>2, <1>4 DEF CacheTypeOK, CacheOK
<1> QED  BY <1>1, <1>6, <1>7 DEF CacheInv, Timely

\* A token written now was granted at most Latency ago, so whoever has compared
\* the time, or is still to write the end of an older token, does no harm.
LEMMA WriteTokenKeeps == ASSUME CacheInv, NEW w \in Threads, WriteToken(w) PROVE CacheInv'
<1>1. Timely /\ CacheTypeOK /\ CacheOK /\ (\A v \in Threads : ThreadOK(v))
  BY DEF CacheInv
<1>2. /\ now \in Nat /\ expires \in Nat
      /\ UNCHANGED <<now, expires>> /\ cached' = thread[w].token
  BY <1>1 DEF CacheTypeOK, WriteToken
<1>3. cached' \in Nat /\ cached' # Empty /\ cached' <= now /\ now <= cached' + Latency
  <2>1. thread[w].token = thread[w].at /\ now <= thread[w].at + Latency /\ thread[w].at <= now
    BY <1>1 DEF WriteToken, ThreadOK
  <2>2. thread[w].at \in Nat
    BY <1>1 DEF CacheTypeOK, ThreadRows
  <2> QED  BY <1>1, <1>2, <2>1, <2>2 DEF Timely
<1>4. /\ thread' \in [Threads -> ThreadRows]
      /\ thread'[w] = [step |-> "written", token |-> cached', at |-> now]
      /\ \A v \in Threads \ {w} : thread'[v] = thread[v]
  BY <1>2, <1>3, Moved DEF ThreadSteps, WriteToken
<1>5. ThreadOK(w)'
  BY <1>1, <1>2, <1>3, <1>4 DEF ThreadOK, Does, Timely
<1>6. ASSUME NEW v \in Threads \ {w} PROVE ThreadOK(v)'
  <2>1. ThreadOK(v) /\ thread'[v] = thread[v] /\ thread[v].at \in Nat
    BY <1>1, <1>4 DEF CacheTypeOK, ThreadRows
  <2>2. Does(v, "written")' => ThreadOK(v)'
    BY <1>1, <1>2, <1>3, <2>1 DEF ThreadOK, Does, Timely
  <2>3. Does(v, "look")' => ThreadOK(v)'
    <3> SUFFICES ASSUME Does(v, "look")' PROVE ThreadOK(v)'
      OBVIOUS
    <3>1. thread[v].at <= now /\ Margin < Ttl /\ now <= thread[v].at + Delay
      BY <2>1 DEF ThreadOK, Does
    <3>2. thread[v].at + Delay < cached' + Ttl
      BY <1>1, <1>2, <1>3, <2>1, <3>1 DEF Timely
    <3> QED  BY <1>2, <1>3, <2>1, <3>1, <3>2 DEF ThreadOK, Does
  <2>4. ~Does(v, "written")' /\ ~Does(v, "look")' => ThreadOK(v)'
    BY <1>2, <2>1 DEF ThreadOK, Does
  <2> QED  BY <2>2, <2>3, <2>4
<1>7. CacheTypeOK' /\ CacheOK'
  BY <1>1, <1>2, <1>3, <1>4 DEF CacheTypeOK, CacheOK, Timely
<1> QED  BY <1>1, <1>5, <1>6, <1>7 DEF CacheInv, Timely

LEMMA WriteExpiryKeeps == ASSUME CacheInv, NEW w \in Threads, WriteExpiry(w) PROVE CacheInv'
<1>1. Timely /\ CacheTypeOK /\ CacheOK /\ (\A v \in Threads : ThreadOK(v))
  BY DEF CacheInv
<1>2. /\ now \in Nat /\ cached \in Nat \cup {Empty} /\ thread[w] \in ThreadRows
      /\ UNCHANGED <<now, cached>> /\ expires' = now + Ttl
  BY <1>1 DEF CacheTypeOK, WriteExpiry
<1>3. /\ thread[w].at \in Nat /\ thread[w].token \in Nat /\ cached \in Nat
      /\ cached # Empty /\ thread[w].token # Empty
      /\ thread[w].at <= cached + Latency /\ thread[w].at <= thread[w].token + Latency
      /\ now <= thread[w].at + Delay
  BY <1>1, <1>2 DEF WriteExpiry, ThreadOK, ThreadRows
<1>4. /\ thread' \in [Threads -> ThreadRows]
      /\ thread'[w] = [step |-> "send", token |-> thread[w].token, at |-> now]
      /\ \A v \in Threads \ {w} : thread'[v] = thread[v]
  BY <1>3, Moved DEF ThreadSteps, WriteExpiry
<1>5. now < thread[w].token + Ttl
  BY <1>1, <1>2, <1>3 DEF Timely
<1>6. ThreadOK(w)'
  BY <1>2, <1>3, <1>4, <1>5 DEF ThreadOK, Does, Timely
<1>7. \A v \in Threads : ThreadOK(v)'
  BY <1>1, <1>2, <1>4, <1>6, Rests
<1>8. CacheOK'
  BY <1>1, <1>2, <1>3 DEF CacheOK, Timely
<1>9. CacheTypeOK'
  BY <1>1, <1>2, <1>4 DEF CacheTypeOK, Timely
<1> QED  BY <1>1, <1>7, <1>8, <1>9 DEF CacheInv, Timely

LEMMA RestartKeeps == ASSUME CacheInv, Restart PROVE CacheInv'
BY DEF CacheInv, Timely, CacheTypeOK, CacheOK, ThreadOK, Restart, ThreadRows, ThreadSteps, Resting, Does

LEMMA TickKeeps == ASSUME CacheInv, Tick PROVE CacheInv'
<1>1. Timely /\ CacheTypeOK /\ CacheOK /\ (\A v \in Threads : ThreadOK(v))
  BY DEF CacheInv
<1>2. now \in Nat /\ now' = now + 1 /\ UNCHANGED <<cached, expires, thread>>
  BY <1>1 DEF CacheTypeOK, Tick
<1>3. ASSUME NEW v \in Threads PROVE ThreadOK(v)'
  <2>1. ThreadOK(v) /\ ~Late(v) /\ thread'[v] = thread[v] /\ thread[v].at \in Nat
    BY <1>1, <1>2 DEF Tick, CacheTypeOK, ThreadRows
  <2> QED  BY <1>1, <1>2, <2>1 DEF ThreadOK, Late, Does, Timely
<1>4. CacheTypeOK' /\ CacheOK'
  BY <1>1, <1>2 DEF CacheTypeOK, CacheOK, Timely
<1> QED  BY <1>1, <1>3, <1>4 DEF CacheInv, Timely

LEMMA TokenNext == CacheInv /\ [CacheNext]_cacheVars => CacheInv'
<1> SUFFICES ASSUME CacheInv, [CacheNext]_cacheVars PROVE CacheInv'
  OBVIOUS
<1>1. CASE UNCHANGED cacheVars
  BY <1>1 DEF cacheVars, CacheInv, Timely, CacheTypeOK, CacheOK, ThreadOK, Does
<1>2. CASE CacheNext
  BY <1>2, LookKeeps, TakeKeeps, AskKeeps, WriteTokenKeeps, WriteExpiryKeeps, RestartKeeps, TickKeeps DEF CacheNext
<1> QED  BY <1>1, <1>2

\* base.py:134: no request goes out with a token the gateway has already ended,
\* whatever threads refill the cache at once, as long as the answer of the gateway
\* and two steps of a thread fit into the margin.
THEOREM SentWhileGoodAlways == Timely /\ CacheSpec => []SentWhileGood
<1>1. CacheInv => SentWhileGood
  BY DEF CacheInv, ThreadOK, SentWhileGood
<1> QED  BY <1>1, TokenInit, TokenNext, PTL DEF CacheSpec
=============================================================================
