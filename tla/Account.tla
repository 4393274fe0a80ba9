------------------------------- MODULE Account --------------------------------
(***************************************************************************)
(* AuthService: login, verification and resending of the one-time code of  *)
(* one user, by any number of calls at a time.  Each call reads the user's *)
(* row once and then writes to it, mostly under a WHERE clause.            *)
(*                                                                         *)
(* Whether the password matches, and whether it has expired, is an input:  *)
(* the code and the failure counters do not depend on which password it is.*)
(***************************************************************************)
EXTENDS Integers

CONSTANTS
    Calls, Codes, None,
    FailureLimit,     \* failed attempts that lock the account
    CodeLife,         \* how long a code is valid
    Cooldown,         \* how long after its issue it may be replaced
    MaxTime,          \* bound: the clock
    MaxCodes          \* bound: codes issued

ASSUME AccountConstants ==
    /\ FailureLimit \in Nat \ {0} /\ MaxTime \in Nat /\ MaxCodes \in Nat
    /\ CodeLife \in Nat \ {0} /\ Cooldown \in 0 .. CodeLife
    /\ None \notin Codes

VARIABLES
    now,      \* the clock
    user,     \* the Users row
    call,     \* call[p]: the locals of a request
    issued,   \* how many codes have been stored
    stored,   \* the codes stored so far, with their expiry
    mailed,   \* those that were sent by mail
    tokens    \* how many access tokens have been given for a code

vars == <<now, user, call, issued, stored, mailed, tokens>>

Time == 0 .. MaxTime + CodeLife

(* A row without a code has no expiry.  loginFailedAttempts is not bounded *)
(* in the code; it counts up to the limit here, all values from there on   *)
(* being alike.                                                            *)
UserRow == [otp : Codes \cup {None}, otpExpiresAt : Time,
            loginFailedAttempts : 0 .. FailureLimit,
            otpFailedAttempts : 0 .. FailureLimit, status : {"PENDING", "ACTIVE"}]

Steps == {"idle", "countLoginFailure", "resetLoginFailures", "issue", "mail",
          "verify", "countOtpFailure", "consume"}

(* Of the row it has read a call uses the code later on, and nothing else. *)
CodeOfRow == [otp : Codes \cup {None}, otpExpiresAt : Time]
CodeRead == [otp |-> user.otp, otpExpiresAt |-> user.otpExpiresAt]
NoCode == [otp |-> None, otpExpiresAt |-> 0]

CallState == [pc : Steps, row : CodeOfRow, otp : Codes \cup {None},
              currentDate : 0 .. MaxTime]

Invited == [otp |-> None, otpExpiresAt |-> 0, loginFailedAttempts |-> 0,
            otpFailedAttempts |-> 0, status |-> "PENDING"]
Idle == [pc |-> "idle", row |-> NoCode, otp |-> None, currentDate |-> 0]

(* Every variable keeps its type.  In particular verifications that overlap*)
(* never count failures beyond the limit.                                  *)
TypeOK ==
    /\ now \in 0 .. MaxTime
    /\ user \in UserRow
    /\ call \in [Calls -> CallState]
    /\ issued \in 0 .. MaxCodes
    /\ stored \subseteq Codes \X Time
    /\ mailed \subseteq Codes \X Time
    /\ tokens \in Nat

Init ==
    /\ now = 0
    /\ user = Invited
    /\ call = [p \in Calls |-> Idle]
    /\ issued = 0 /\ tokens = 0
    /\ stored = {} /\ mailed = {}

-----------------------------------------------------------------------------

At(p, step) == call[p].pc = step
Become(p, state) == call' = [call EXCEPT ![p] = state]
Done(p) == Become(p, Idle)

Locked(row) == row.loginFailedAttempts >= FailureLimit
               \/ row.otpFailedAttempts >= FailureLimit

ResendAvailableAt(row) == row.otpExpiresAt - (CodeLife - Cooldown)

(* A fresh code may replace the one of the row that was read.              *)
MayReplace(row) == row.otp = None \/ now >= ResendAvailableAt(row)

Issuing(row, otp) == [pc |-> "issue", row |-> row, otp |-> otp, currentDate |-> now]

-----------------------------------------------------------------------------
(* login.  A call that only throws changes nothing and is not a step.      *)

LoginWrongPassword(p) ==
    /\ At(p, "idle")
    /\ Become(p, [Idle EXCEPT !.pc = "countLoginFailure"])
    /\ UNCHANGED <<now, user, issued, stored, mailed, tokens>>

LoginRightPassword(p) ==
    /\ At(p, "idle")
    /\ ~Locked(user)
    /\ Become(p, [Idle EXCEPT !.pc = "resetLoginFailures", !.row = CodeRead])
    /\ UNCHANGED <<now, user, issued, stored, mailed, tokens>>

(* By id, whatever the row has become.                                     *)
CountLoginFailure(p) ==
    /\ At(p, "countLoginFailure")
    /\ user' = IF user.loginFailedAttempts < FailureLimit
               THEN [user EXCEPT !.loginFailedAttempts = @ + 1] ELSE user
    /\ Done(p)
    /\ UNCHANGED <<now, issued, stored, mailed, tokens>>

(* By id, whatever the row has become; then the call ends if the password  *)
(* has expired or the code it has read is too young, or it makes a code.   *)
ResetLoginFailures(p) ==
    LET row == call[p].row IN
    /\ At(p, "resetLoginFailures")
    /\ user' = [user EXCEPT !.loginFailedAttempts = 0]
    /\ \/ Done(p)
       \/ MayReplace(row) /\ \E otp \in Codes : Become(p, Issuing(row, otp))
    /\ UNCHANGED <<now, issued, stored, mailed, tokens>>

(* The WHERE clause of login and resendOtp: the code is still the one that *)
(* was read, and the account has not been locked.                          *)
(* Mutants: it only looks at the locks; only at the code.                  *)
NotLocked(row) == ~Locked(user)
SameCode(row) == user.otp = row.otp /\ user.otpExpiresAt = row.otpExpiresAt
StillSame(row) ==
    user.otp = row.otp /\ user.otpExpiresAt = row.otpExpiresAt /\ ~Locked(user)

(* Mutant: the count of the update is ignored.                             *)
MailAnyway(p) == TRUE
MayMail(p) == StillSame(call[p].row)

(* The conditional update of login and of resendOtp.                       *)
Issue(p) ==
    LET otp     == call[p].otp
        expires == call[p].currentDate + CodeLife
    IN
    /\ At(p, "issue")
    /\ IF StillSame(call[p].row)
       THEN /\ issued < MaxCodes
            /\ user' = [user EXCEPT !.otp = otp, !.otpExpiresAt = expires]
            /\ issued' = issued + 1
            /\ stored' = stored \cup {<<otp, expires>>}
       ELSE UNCHANGED <<user, issued, stored>>
    /\ IF MayMail(p) THEN Become(p, [call[p] EXCEPT !.pc = "mail", !.row = NoCode])
                     ELSE Done(p)
    /\ UNCHANGED <<now, mailed, tokens>>

SendMail(p) ==
    /\ At(p, "mail")
    /\ mailed' = mailed \cup {<<call[p].otp, call[p].currentDate + CodeLife>>}
    /\ Done(p)
    /\ UNCHANGED <<now, user, issued, stored, tokens>>

-----------------------------------------------------------------------------
(* resendOtp.                                                              *)

ResendOtp(p) ==
    /\ At(p, "idle")
    /\ ~Locked(user) /\ user.otp # None /\ now >= ResendAvailableAt(user)
    /\ \E otp \in Codes : Become(p, Issuing(CodeRead, otp))
    /\ UNCHANGED <<now, user, issued, stored, mailed, tokens>>

-----------------------------------------------------------------------------
(* verifyOtp.                                                              *)

(* The date is taken before the row is read.                               *)
VerifyOtp(p) ==
    /\ At(p, "idle")
    /\ \E otp \in Codes : Become(p, [Idle EXCEPT !.pc = "verify", !.otp = otp,
                                                 !.currentDate = now])
    /\ UNCHANGED <<now, user, issued, stored, mailed, tokens>>

ReadForVerify(p) ==
    LET valid == /\ ~Locked(user) /\ user.otp # None
                 /\ user.otpExpiresAt > call[p].currentDate
    IN
    /\ At(p, "verify")
    /\ Become(p, IF ~valid THEN Idle
                 ELSE [call[p] EXCEPT !.row = CodeRead,
                         !.pc = IF user.otp = call[p].otp
                                THEN "consume" ELSE "countOtpFailure"])
    /\ UNCHANGED <<now, user, issued, stored, mailed, tokens>>

(* The WHERE clauses of verifyOtp.  Mutant: the code is forgotten.         *)
HoldsAnyCode(p, otp) == ~Locked(user)
Holds(p, otp) ==
    user.otp = otp /\ user.otpExpiresAt > call[p].currentDate /\ ~Locked(user)

CountOtpFailure(p) ==
    /\ At(p, "countOtpFailure")
    /\ user' = IF Holds(p, call[p].row.otp)
               THEN [user EXCEPT !.otpFailedAttempts = @ + 1] ELSE user
    /\ Done(p)
    /\ UNCHANGED <<now, issued, stored, mailed, tokens>>

(* The code is consumed, and only then the token is signed.                *)
Consume(p) ==
    /\ At(p, "consume")
    /\ IF Holds(p, call[p].otp)
       THEN /\ user' = [user EXCEPT !.otp = None, !.otpExpiresAt = 0,
                            !.otpFailedAttempts = 0, !.status = "ACTIVE"]
            /\ tokens' = tokens + 1
       ELSE UNCHANGED <<user, tokens>>
    /\ Done(p)
    /\ UNCHANGED <<now, issued, stored, mailed>>

-----------------------------------------------------------------------------

(* The process dies, or a statement or the mail server throws.             *)
Abort(p) ==
    /\ ~At(p, "idle")
    /\ Done(p)
    /\ UNCHANGED <<now, user, issued, stored, mailed, tokens>>

Tick ==
    /\ now < MaxTime
    /\ now' = now + 1
    /\ UNCHANGED <<user, call, issued, stored, mailed, tokens>>

Next ==
    \/ \E p \in Calls :
          \/ LoginWrongPassword(p) \/ LoginRightPassword(p) \/ CountLoginFailure(p)
          \/ ResetLoginFailures(p) \/ Issue(p) \/ SendMail(p) \/ ResendOtp(p)
          \/ VerifyOtp(p) \/ ReadForVerify(p) \/ CountOtpFailure(p) \/ Consume(p)
          \/ Abort(p)
    \/ Tick

Spec == Init /\ [][Next]_vars

-----------------------------------------------------------------------------

(* Every access token has a code of its own: a code that two calls verify  *)
(* at the same time, or while it is replaced, is consumed once.            *)
OneTokenPerCode ==
    tokens + (IF user.otp = None THEN 0 ELSE 1) <= issued

(* Only codes that were stored are mailed: a login or resend that lost the *)
(* race against another one sends nothing.                                 *)
MailedWasStored == mailed \subseteq stored

(* A code replaces another only after the cooldown of that one, also when  *)
(* logins and resends overlap that have all seen an older code.            *)
CooldownKept ==
    [][issued' # issued /\ user.otp # None =>
         user'.otpExpiresAt >= user.otpExpiresAt + Cooldown]_vars

(* The logins that are about to forget the failures of their user.         *)
Resetting == {p \in Calls : At(p, "resetLoginFailures")}

(* While the account is locked no code is issued and no token given, not   *)
(* even by calls that read the row before; and no call undoes the lock     *)
(* that failed verifications brought about.  The lock that failed logins   *)
(* brought about is undone, but each time at the expense of a login that   *)
(* had read the row before the lock: while it lasts none is added to them. *)
LockedMeansShut ==
    [][Locked(user) =>
         /\ issued' = issued /\ tokens' = tokens
         /\ user.otpFailedAttempts >= FailureLimit =>
               user'.otpFailedAttempts >= FailureLimit
         /\ Resetting' \subseteq Resetting
         /\ user'.loginFailedAttempts < user.loginFailedAttempts =>
               Resetting' # Resetting]_vars
=============================================================================
