------------------------------- MODULE Accounts -------------------------------
(***************************************************************************)
(* Accounts, their sessions and the reset of a forgotten password:          *)
(* src/app/auth, routes/auth.py, services/users.py and                      *)
(* services/account/password_reset.py.  A request reads in one step and     *)
(* commits in a later one; one that writes whatever it has read is a single *)
(* step.  A session is a chain of refresh tokens, each the successor of the *)
(* one presented for it.                                                    *)
(***************************************************************************)
EXTENDS Integers, FiniteSets

CONSTANTS
  Workers,      \* request threads
  Mixes,        \* the sets of requests a behaviour may consist of
  AccountIds, Emails,
  Given,        \* the accounts there are at first
  NumTokens,    \* bound: refresh tokens
  NumCodes,     \* bound: reset codes
  MaxEra,       \* bound: changes of one account's password
  MaxAttempts,  \* wrong guesses that end a code
  MaxCodes,     \* codes an account may be sent in an hour
  Nobody        \* no account, no email, no token

AllOps == {"create", "rename", "activate", "delete", "login", "refresh", "logout", "logout_all",
           "change", "staff_reset", "forgot", "guess", "time", "crash", "alone"}

ASSUME AccountsAssumption ==
  /\ NumTokens \in Nat /\ NumCodes \in Nat /\ MaxEra \in Nat
  /\ MaxAttempts \in Nat \ {0} /\ MaxCodes \in Nat \ {0}
  /\ \A mix \in Mixes : mix \subseteq AllOps
  /\ Given \subseteq AccountIds
  /\ Nobody \notin Int \cup AccountIds \cup Emails

Tokens == 1..NumTokens
Codes == 1..NumCodes
LowestOf(i, S) == i \in S /\ \A j \in S : i <= j

VARIABLES
  mix,      \* the requests of this behaviour
  account,  \* table auth_accounts, with the profile each row points at
  token,    \* table refresh_tokens
  code,     \* table otp_verifications
  job       \* what each thread is doing

vars == <<mix, account, token, code, job>>

\* An era ends with each change of the password, whatever it is changed to.
AccountRows == [status: {"absent", "active", "inactive", "deleted"},
                email: Emails \cup {Nobody}, era: Nat]

\* login and era are history: the first token of the session, and the password
\* its login knew.
TokenRows == [status: {"absent", "live", "expired", "revoked", "gone"},
              a: AccountIds \cup {Nobody}, replaced: Tokens \cup {Nobody},
              login: Tokens \cup {Nobody}, era: Nat]

\* guesses is history: the wrong guesses the code was compared with.
CodeRows == [status: {"absent", "open", "used", "gone"}, a: AccountIds \cup {Nobody},
             age: {"fresh", "expired", "old"}, attempts: Nat, guesses: Nat]

NoToken == [status |-> "absent", a |-> Nobody, replaced |-> Nobody, login |-> Nobody, era |-> 0]
NoCode == [status |-> "absent", a |-> Nobody, age |-> "fresh", attempts |-> 0, guesses |-> 0]

Steps == {"idle", "insert", "rename", "login", "rotate", "change", "send", "guess"}
Jobs == [step: Steps, a: AccountIds \cup {Nobody}, m: Emails \cup {Nobody},
         t: Tokens \cup {Nobody}, c: Codes \cup {Nobody}, n: Nat]
Idle == [step |-> "idle", a |-> Nobody, m |-> Nobody, t |-> Nobody, c |-> Nobody, n |-> 0]

-----------------------------------------------------------------------------

At(w, step) == job[w].step = step
Become(w, j) == job' = [job EXCEPT ![w] = j]
Finish(w) == Become(w, Idle)

\* In an "alone" mix a request begins when the one before it has ended.
Alone == "alone" \in mix
Admitted(op) == op \in mix /\ (Alone => \A v \in Workers : At(v, "idle"))
Start(w, op, j) == At(w, "idle") /\ Admitted(op) /\ Become(w, j)
AtOnce(op) == Admitted(op) /\ UNCHANGED job

Exists(a) == account[a].status \in {"active", "inactive"}
Active(a) == account[a].status = "active"
Revocable(t) == token[t].status \in {"live", "expired"}

\* get_by_email
HasEmail(m) == {a \in AccountIds : Exists(a) /\ account[a].email = m}

-----------------------------------------------------------------------------
(* Refresh tokens.                                                         *)

\* revoke_all_for_account
RevokeAll(a) ==
  [t \in Tokens |-> IF token[t].a = a /\ Revocable(t) THEN [token[t] EXCEPT !.status = "revoked"]
                    ELSE token[t]]

\* Bound: a row is kept for every request that may insert one.
RoomLeft == Cardinality({w \in Workers : job[w].step \in {"login", "rotate", "change"}})
              < Cardinality({t \in Tokens : token[t].status = "absent"})

NewToken(u) == LowestOf(u, {t \in Tokens : token[t].status = "absent"})
Session(u, a, login, era) ==
  [status |-> "live", a |-> a, replaced |-> Nobody, login |-> login, era |-> era]

\* login: the password is right and the account active ...
BeginLogin(w, a) ==
  /\ Active(a)
  /\ RoomLeft
  /\ Start(w, "login", [Idle EXCEPT !.step = "login", !.a = a, !.n = account[a].era])
  /\ UNCHANGED <<mix, account, token, code>>

\* ... and a token is issued, unless the account is gone.
Login(w) ==
  LET j == job[w] IN
  /\ At(w, "login")
  /\ IF Exists(j.a)
     THEN \E u \in Tokens : NewToken(u) /\ token' = [token EXCEPT ![u] = Session(u, j.a, u, j.n)]
     ELSE UNCHANGED token
  /\ Finish(w)
  /\ UNCHANGED <<mix, account, code>>

\* rotate_refresh_token: a live token of an active account ...
BeginRotate(w, t) ==
  /\ token[t].status = "live" /\ Active(token[t].a)
  /\ RoomLeft
  /\ Start(w, "refresh", [Idle EXCEPT !.step = "rotate", !.t = t])
  /\ UNCHANGED <<mix, account, token, code>>

\* Fault: the presented token stays good.
Succeed_KeepOld(t, u) == [token EXCEPT ![u] = Session(u, token[t].a, token[t].login, token[t].era),
                                       ![t].replaced = u]

\* issue_refresh_token: the successor, and the end of the token it replaces.
Succeed(t, u) == [token EXCEPT ![u] = Session(u, token[t].a, token[t].login, token[t].era),
                               ![t].status = "revoked", ![t].replaced = u]

\* ... is exchanged for a new one, whatever became of it meanwhile.
Rotate(w) ==
  LET t == job[w].t IN
  /\ At(w, "rotate")
  /\ IF token[t].status = "gone" THEN UNCHANGED token
     ELSE \E u \in Tokens : NewToken(u) /\ token' = Succeed(t, u)
  /\ Finish(w)
  /\ UNCHANGED <<mix, account, code>>

\* A superseded token presented again ends every session of the account.
Reuse(t) ==
  /\ AtOnce("refresh")
  /\ token[t].status = "revoked" /\ token[t].replaced # Nobody
  /\ token' = RevokeAll(token[t].a)
  /\ UNCHANGED <<mix, account, code>>

\* logout: revoke_refresh_token
Logout(t) ==
  /\ AtOnce("logout")
  /\ Revocable(t)
  /\ token' = [token EXCEPT ![t].status = "revoked"]
  /\ UNCHANGED <<mix, account, code>>

\* The middleware and login_required: an access token was handed out with every
\* refresh token, and the account is read again with each request.
SignedIn(a) == Active(a) /\ \E t \in Tokens : token[t].a = a

\* logout_all
LogoutAll(a) ==
  /\ AtOnce("logout_all")
  /\ SignedIn(a)
  /\ token' = RevokeAll(a)
  /\ UNCHANGED <<mix, account, code>>

\* External: the lifetime of a token ends.
Expire(t) ==
  /\ "time" \in mix
  /\ token[t].status = "live"
  /\ token' = [token EXCEPT ![t].status = "expired"]
  /\ UNCHANGED <<mix, account, code, job>>

-----------------------------------------------------------------------------
(* Passwords.                                                              *)

\* Bound.
MayChangePassword(a) ==
  account[a].era + Cardinality({w \in Workers : job[w].a = a /\ job[w].step \in {"change", "guess"}}) < MaxEra

\* set_password
NewPassword(a) == [account EXCEPT ![a].era = @ + 1]

\* change_password: the current password is right ...
BeginChange(w, a) ==
  /\ SignedIn(a)
  /\ MayChangePassword(a) /\ RoomLeft
  /\ Start(w, "change", [Idle EXCEPT !.step = "change", !.a = a])
  /\ UNCHANGED <<mix, account, token, code>>

\* ... so it is replaced: every session ends, and this device gets a new one.
ChangePassword(w) ==
  LET a == job[w].a IN
  /\ At(w, "change")
  /\ IF Exists(a)
     THEN /\ account' = NewPassword(a)
          /\ \E u \in Tokens :
               /\ NewToken(u)
               /\ token' = [RevokeAll(a) EXCEPT ![u] = Session(u, a, u, account[a].era + 1)]
     ELSE UNCHANGED <<account, token>>
  /\ Finish(w)
  /\ UNCHANGED <<mix, code>>

\* users.reset_password
StaffReset(a) ==
  /\ AtOnce("staff_reset")
  /\ Exists(a) /\ MayChangePassword(a)
  /\ account' = NewPassword(a)
  /\ token' = RevokeAll(a)
  /\ UNCHANGED <<mix, code>>

-----------------------------------------------------------------------------
(* A forgotten password.                                                   *)

\* _open_codes
OpenCodes(a) == {c \in Codes : code[c].a = a /\ code[c].status = "open" /\ code[c].age = "fresh"}

\* Fault: a code is compared without the lock on its row.
CodeFree_NoLock(c) == TRUE

\* with_for_update: a code being compared is waited for.
CodeFree(c) == \A w \in Workers : job[w].c # c

\* The codes of the last hour, used or not.
Recent(a) == {c \in Codes : code[c].a = a /\ code[c].status # "gone" /\ code[c].age # "old"}

\* Bound: a row is kept for every request that may insert one.
CodeRoomLeft == Cardinality({w \in Workers : At(w, "send")})
                  < Cardinality({c \in Codes : code[c].status = "absent"})

\* request_reset up to its writes
BeginRequest(w, a) ==
  /\ Active(a) /\ Cardinality(Recent(a)) < MaxCodes
  /\ CodeRoomLeft
  /\ Start(w, "forgot", [Idle EXCEPT !.step = "send", !.a = a])
  /\ UNCHANGED <<mix, account, token, code>>

\* The earlier codes die and a new one is kept; the mail may yet fail.
SendCode(w) ==
  LET a == job[w].a IN
  /\ At(w, "send")
  /\ \A c \in OpenCodes(a) : CodeFree(c)
  /\ IF Exists(a)
     THEN \E new \in Codes :
            /\ LowestOf(new, {c \in Codes : code[c].status = "absent"})
            /\ code' = [c \in Codes |->
                 IF c \in OpenCodes(a) THEN [code[c] EXCEPT !.status = "used"]
                 ELSE IF c = new THEN [NoCode EXCEPT !.status = "open", !.a = a]
                 ELSE code[c]]
     ELSE UNCHANGED code
  /\ Finish(w)
  /\ UNCHANGED <<mix, account, token>>

\* reset_password locks the newest code that is open ...
BeginGuess(w, a) ==
  /\ Active(a) /\ MayChangePassword(a)
  /\ LET live == {c \in OpenCodes(a) : code[c].attempts < MaxAttempts} IN
     \E c \in live :
       /\ \A d \in live : d <= c
       /\ CodeFree(c)
       /\ Start(w, "guess", [Idle EXCEPT !.step = "guess", !.a = a, !.c = c, !.n = code[c].attempts])
  /\ UNCHANGED <<mix, account, token, code>>

\* ... and counts a wrong guess ...
WrongGuess(w) ==
  LET j == job[w] IN
  /\ At(w, "guess")
  /\ code' = [code EXCEPT ![j.c].attempts = j.n + 1, ![j.c].guesses = @ + 1]
  /\ Finish(w)
  /\ UNCHANGED <<mix, account, token>>

\* ... or takes the new password, and every session ends.
ResetPassword(w) ==
  LET j == job[w] IN
  /\ At(w, "guess")
  /\ code' = [code EXCEPT ![j.c].status = "used"]
  /\ account' = NewPassword(j.a)
  /\ token' = RevokeAll(j.a)
  /\ Finish(w)
  /\ UNCHANGED mix

\* External: a quarter of an hour passes, and then the hour; the oldest first.
Ages == <<"fresh", "expired", "old">>
Age(c) ==
  /\ "time" \in mix
  /\ code[c].status \in {"open", "used"}
  /\ \E i \in 1..2 :
       /\ code[c].age = Ages[i]
       /\ \A d \in 1..(c - 1) : code[d].status = "gone" \/ code[d].age # code[c].age
       /\ code' = [code EXCEPT ![c].age = Ages[i + 1]]
  /\ UNCHANGED <<mix, account, token, job>>

-----------------------------------------------------------------------------
(* Accounts, managed by staff.                                             *)

\* create_user: the email is nobody's yet ...
BeginCreate(w, a, m) ==
  /\ account[a].status = "absent" /\ HasEmail(m) = {}
  /\ Start(w, "create", [Idle EXCEPT !.step = "insert", !.a = a, !.m = m])
  /\ UNCHANGED <<mix, account, token, code>>

\* auth_accounts.email is unique.
EmailTaken(a, m) == HasEmail(m) \ {a} # {}

\* ... and profile and account are inserted by one commit.
CreateUser(w) ==
  LET j == job[w] IN
  /\ At(w, "insert")
  /\ account' = IF EmailTaken(j.a, j.m) \/ account[j.a].status # "absent" THEN account
                ELSE [account EXCEPT ![j.a] = [status |-> "active", email |-> j.m, era |-> 0]]
  /\ Finish(w)
  /\ UNCHANGED <<mix, token, code>>

\* update_user: a new email
BeginRename(w, a, m) ==
  /\ Exists(a) /\ HasEmail(m) \subseteq {a}
  /\ Start(w, "rename", [Idle EXCEPT !.step = "rename", !.a = a, !.m = m])
  /\ UNCHANGED <<mix, account, token, code>>

Rename(w) ==
  LET j == job[w] IN
  /\ At(w, "rename")
  /\ account' = IF EmailTaken(j.a, j.m) \/ ~Exists(j.a) THEN account
                ELSE [account EXCEPT ![j.a].email = j.m]
  /\ Finish(w)
  /\ UNCHANGED <<mix, token, code>>

\* update_user: is_active false ends the sessions ...
Deactivate(a) ==
  /\ AtOnce("activate")
  /\ Exists(a)
  /\ account' = [account EXCEPT ![a].status = "inactive"]
  /\ token' = RevokeAll(a)
  /\ UNCHANGED <<mix, code>>

\* ... and true brings none back.
Activate(a) ==
  /\ AtOnce("activate")
  /\ account[a].status = "inactive"
  /\ account' = [account EXCEPT ![a].status = "active"]
  /\ UNCHANGED <<mix, token, code>>

\* delete_user: tokens and codes go with the account (ON DELETE CASCADE).
DeleteUser(a) ==
  /\ AtOnce("delete")
  /\ Exists(a)
  /\ \A c \in Codes : code[c].a = a => CodeFree(c)
  /\ account' = [account EXCEPT ![a].status = "deleted"]
  /\ token' = [t \in Tokens |-> IF token[t].a = a THEN [token[t] EXCEPT !.status = "gone"] ELSE token[t]]
  /\ code' = [c \in Codes |-> IF code[c].a = a THEN [code[c] EXCEPT !.status = "gone"] ELSE code[c]]
  /\ UNCHANGED mix

\* A worker dies, and with it all it had not committed.
Crash(w) ==
  /\ "crash" \in mix
  /\ ~At(w, "idle")
  /\ Finish(w)
  /\ UNCHANGED <<mix, account, token, code>>

-----------------------------------------------------------------------------

Init ==
  /\ mix \in Mixes
  /\ \E email \in [Given -> Emails] :
       /\ \A a, b \in Given : email[a] = email[b] => a = b
       /\ account = [a \in AccountIds |->
            IF a \in Given THEN [status |-> "active", email |-> email[a], era |-> 0]
            ELSE [status |-> "absent", email |-> Nobody, era |-> 0]]
  /\ token = [t \in Tokens |-> NoToken]
  /\ code = [c \in Codes |-> NoCode]
  /\ job = [w \in Workers |-> Idle]

Next ==
  \/ \E t \in Tokens : Reuse(t) \/ Logout(t) \/ Expire(t)
  \/ \E c \in Codes : Age(c)
  \/ \E a \in AccountIds :
       LogoutAll(a) \/ StaffReset(a) \/ Deactivate(a) \/ Activate(a) \/ DeleteUser(a)
  \/ \E w \in Workers, t \in Tokens : BeginRotate(w, t)
  \/ \E w \in Workers, a \in AccountIds :
       \/ BeginLogin(w, a) \/ BeginChange(w, a) \/ BeginRequest(w, a) \/ BeginGuess(w, a)
       \/ \E m \in Emails : BeginCreate(w, a, m) \/ BeginRename(w, a, m)
  \/ \E w \in Workers :
       \/ Login(w) \/ Rotate(w) \/ ChangePassword(w) \/ SendCode(w) \/ WrongGuess(w)
       \/ ResetPassword(w) \/ CreateUser(w) \/ Rename(w) \/ Crash(w)

Spec == Init /\ [][Next]_vars

-----------------------------------------------------------------------------
(* Properties.                                                             *)

\* Every table and every request in progress keeps its shape.
TypeOK ==
  /\ mix \in Mixes
  /\ account \in [AccountIds -> AccountRows]
  /\ token \in [Tokens -> TokenRows]
  /\ code \in [Codes -> CodeRows]
  /\ job \in [Workers -> Jobs]

\* No two accounts share an email, though two requests may find it free.
OneAccountPerEmail ==
  \A a, b \in AccountIds :
    Exists(a) /\ Exists(b) /\ account[a].email = account[b].email => a = b

\* Whatever overlaps, no session outlives its account.  One request at a time,
\* every session belongs to an active account and to its present password, and a
\* session has one live token: change_password, both resets, deactivation, logout
\* everywhere and rotation leave nothing behind (refresh.py:61-64, 117-124).
SessionsSound ==
  \A t \in Tokens : token[t].status = "live" =>
    LET a == token[t].a IN
    /\ Exists(a)
    /\ Alone =>
         /\ Active(a) /\ token[t].era = account[a].era
         /\ \A u \in Tokens \ {t} : token[u].status = "live" => token[u].login # token[t].login

\* password_reset.py: whatever overlaps, a code is compared with no more wrong
\* guesses than it may survive.  One request at a time, an account has one code
\* that works, and no more than MAX_CODES_PER_HOUR are sent.
CodesSound ==
  /\ \A c \in Codes : code[c].guesses <= MaxAttempts
  /\ Alone => \A a \in AccountIds :
       /\ \A c, d \in OpenCodes(a) : c = d
       /\ Cardinality(Recent(a)) <= MaxCodes
=============================================================================
