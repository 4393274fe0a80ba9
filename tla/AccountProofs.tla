---------------------------- MODULE AccountProofs -----------------------------
(***************************************************************************)
(* Theorems about Account, for any number of calls, any codes, limits and  *)
(* lifetimes.                                                              *)
(***************************************************************************)
EXTENDS Account, TLAPS

(* A call that issues or consumes has a code, and one that issues has seen *)
(* the cooldown of the code it read pass.                                  *)
GoodCall == {c \in CallState :
    /\ c.pc \in {"issue", "mail", "verify", "consume"} => c.otp \in Codes
    /\ c.pc = "issue" /\ c.row.otp # None =>
          c.currentDate >= c.row.otpExpiresAt - (CodeLife - Cooldown)}

TypeInv == TypeOK /\ call \in [Calls -> GoodCall]

(* A code that is about to be mailed has been stored.                      *)
PendingMailStored ==
    \A p \in Calls : At(p, "mail") =>
        <<call[p].otp, call[p].currentDate + CodeLife>> \in stored

AccountInv == TypeInv /\ PendingMailStored /\ MailedWasStored /\ OneTokenPerCode

(* Become puts a good call among good calls.                               *)
LEMMA BecomeGood ==
    ASSUME TypeInv, NEW p \in Calls, NEW c \in GoodCall, Become(p, c)
    PROVE  call' \in [Calls -> GoodCall]
  BY DEF TypeInv, Become

(* A call that is done is a good call.                                     *)
LEMMA DoneGood ==
    ASSUME AccountConstants, TypeInv, NEW p \in Calls, Done(p)
    PROVE  call' \in [Calls -> GoodCall]
<1>1. Idle \in GoodCall
  BY DEF AccountConstants, GoodCall, CallState, Idle, Steps, CodeOfRow, NoCode, Time
<1>2. QED
  BY <1>1, BecomeGood DEF Done

(* The code that is read off the row is typed, and so is the row.          *)
LEMMA CodeReadTyped == TypeOK => CodeRead \in CodeOfRow /\ CodeRead.otp = user.otp
                                 /\ CodeRead.otpExpiresAt = user.otpExpiresAt
  BY DEF TypeOK, CodeRead, CodeOfRow, UserRow

(* A call that is about to issue a code is a good call.                    *)
LEMMA IssuingGood ==
    ASSUME AccountConstants, TypeInv, NEW row \in CodeOfRow, NEW otp \in Codes,
           MayReplace(row)
    PROVE  Issuing(row, otp) \in GoodCall
<1>1. now \in 0 .. MaxTime
  BY DEF TypeInv, TypeOK
<1>2. row.otp # None => now >= row.otpExpiresAt - (CodeLife - Cooldown)
  BY DEF MayReplace, ResendAvailableAt
<1>3. QED
  BY <1>1, <1>2 DEF Issuing, GoodCall, CallState, Steps

(* Init establishes the invariant.                                         *)
LEMMA InitAccount == AccountConstants /\ Init => AccountInv
<1> SUFFICES ASSUME AccountConstants, Init
             PROVE  AccountInv
  OBVIOUS
<1>1. Idle \in GoodCall /\ Invited \in UserRow
  BY DEF AccountConstants, GoodCall, CallState, Idle, Steps, CodeOfRow, NoCode, Time,
         UserRow, Invited
<1>2. call \in [Calls -> GoodCall] /\ call \in [Calls -> CallState]
  BY <1>1 DEF Init, GoodCall
<1>3. TypeInv
  BY <1>1, <1>2 DEF Init, TypeInv, TypeOK, AccountConstants
<1>4. PendingMailStored
  BY DEF Init, PendingMailStored, At, Idle
<1>5. QED
  BY <1>3, <1>4 DEF Init, AccountInv, MailedWasStored, OneTokenPerCode, Invited

(* The row keeps its type under each of the updates.                       *)
LEMMA RowTyped ==
    ASSUME AccountConstants, TypeOK, NEW p \in Calls, call[p] \in GoodCall,
           CountLoginFailure(p) \/ ResetLoginFailures(p) \/ Issue(p)
             \/ CountOtpFailure(p) \/ Consume(p)
    PROVE  user' \in UserRow
<1> USE DEF AccountConstants
<1>1. user \in UserRow
  BY DEF TypeOK
<1>2. CASE CountLoginFailure(p)
  BY <1>1, <1>2 DEF CountLoginFailure, UserRow
<1>3. CASE ResetLoginFailures(p)
  BY <1>1, <1>3 DEF ResetLoginFailures, UserRow
<1>4. CASE Issue(p)
  <2>1. call[p].otp \in Codes /\ call[p].currentDate + CodeLife \in Time
    BY <1>4 DEF Issue, At, GoodCall, CallState, Time
  <2>2. QED
    BY <1>1, <1>4, <2>1 DEF Issue, UserRow
<1>5. CASE CountOtpFailure(p)
  <2>1. Holds(p, call[p].row.otp) => user.otpFailedAttempts + 1 \in 0 .. FailureLimit
    BY <1>1 DEF Holds, Locked, UserRow
  <2>2. QED
    BY <1>1, <1>5, <2>1 DEF CountOtpFailure, UserRow
<1>6. CASE Consume(p)
  <2>1. 0 \in Time /\ 0 \in 0 .. FailureLimit
    BY DEF Time
  <2>2. CASE Holds(p, call[p].otp)
    BY <1>1, <1>6, <2>1, <2>2 DEF Consume, UserRow
  <2>3. CASE ~Holds(p, call[p].otp)
    BY <1>1, <1>6, <2>3 DEF Consume
  <2>4. QED
    BY <2>2, <2>3
<1>7. QED
  BY <1>2, <1>3, <1>4, <1>5, <1>6

(* What a call does keeps every variable typed and every call good.        *)
LEMMA CallTyped ==
    ASSUME AccountConstants, TypeInv, NEW p \in Calls,
           \/ LoginWrongPassword(p) \/ LoginRightPassword(p) \/ CountLoginFailure(p)
           \/ ResetLoginFailures(p) \/ Issue(p) \/ SendMail(p) \/ ResendOtp(p)
           \/ VerifyOtp(p) \/ ReadForVerify(p) \/ CountOtpFailure(p) \/ Consume(p)
           \/ Abort(p)
    PROVE  TypeInv'
<1>1. TypeOK /\ call[p] \in GoodCall /\ call[p] \in CallState
  BY DEF TypeInv, GoodCall
<1>2. CodeRead \in CodeOfRow /\ Idle \in GoodCall /\ NoCode \in CodeOfRow
  BY <1>1, CodeReadTyped DEF AccountConstants, GoodCall, CallState, Idle, Steps,
     CodeOfRow, NoCode, Time
<1>3. call' \in [Calls -> GoodCall]
  <2>1. CASE LoginWrongPassword(p)
    <3>1. [Idle EXCEPT !.pc = "countLoginFailure"] \in GoodCall
      BY <1>2 DEF GoodCall, CallState, Steps
    <3>2. QED
      BY <2>1, <3>1, BecomeGood DEF LoginWrongPassword
  <2>2. CASE LoginRightPassword(p)
    <3>1. [Idle EXCEPT !.pc = "resetLoginFailures", !.row = CodeRead] \in GoodCall
      BY <1>2 DEF GoodCall, CallState, Steps
    <3>2. QED
      BY <2>2, <3>1, BecomeGood DEF LoginRightPassword
  <2>3. CASE ResetLoginFailures(p)
    <3>1. call[p].row \in CodeOfRow
      BY <1>1 DEF CallState
    <3>2. ASSUME NEW otp \in Codes, MayReplace(call[p].row),
                 Become(p, Issuing(call[p].row, otp))
          PROVE  call' \in [Calls -> GoodCall]
      BY <3>1, <3>2, IssuingGood, BecomeGood
    <3>3. QED
      BY <2>3, <3>2, DoneGood DEF ResetLoginFailures
  <2>4. CASE Issue(p)
    <3>1. [call[p] EXCEPT !.pc = "mail", !.row = NoCode] \in GoodCall
      BY <1>1, <1>2, <2>4 DEF Issue, At, GoodCall, CallState, Steps
    <3>2. QED
      BY <2>4, <3>1, BecomeGood, DoneGood DEF Issue
  <2>5. CASE ResendOtp(p)
    <3>1. MayReplace(CodeRead)
      BY <1>1, <2>5, CodeReadTyped DEF ResendOtp, MayReplace, ResendAvailableAt
    <3>2. PICK otp \in Codes : Become(p, Issuing(CodeRead, otp))
      BY <2>5 DEF ResendOtp
    <3>3. QED
      BY <1>2, <3>1, <3>2, IssuingGood, BecomeGood
  <2>6. CASE VerifyOtp(p)
    <3>1. PICK otp \in Codes : Become(p, [Idle EXCEPT !.pc = "verify", !.otp = otp,
                                                      !.currentDate = now])
      BY <2>6 DEF VerifyOtp
    <3>2. [Idle EXCEPT !.pc = "verify", !.otp = otp, !.currentDate = now] \in GoodCall
      BY <1>1, <1>2 DEF GoodCall, CallState, Steps, TypeOK
    <3>3. QED
      BY <3>1, <3>2, BecomeGood
  <2>7. CASE ReadForVerify(p)
    <3>1. \A step \in {"consume", "countOtpFailure"} :
             [call[p] EXCEPT !.row = CodeRead, !.pc = step] \in GoodCall
      BY <1>1, <1>2, <2>7 DEF ReadForVerify, At, GoodCall, CallState, Steps
    <3>2. PICK c \in GoodCall : Become(p, c)
      BY <1>2, <2>7, <3>1 DEF ReadForVerify
    <3>3. QED
      BY <3>2, BecomeGood
  <2>8. CASE CountLoginFailure(p) \/ SendMail(p) \/ CountOtpFailure(p) \/ Consume(p)
             \/ Abort(p)
    BY <2>8, DoneGood DEF CountLoginFailure, SendMail, CountOtpFailure, Consume, Abort
  <2>9. QED
    BY <2>1, <2>2, <2>3, <2>4, <2>5, <2>6, <2>7, <2>8
<1>4. user' \in UserRow
  <2>1. CASE CountLoginFailure(p) \/ ResetLoginFailures(p) \/ Issue(p)
             \/ CountOtpFailure(p) \/ Consume(p)
    BY <1>1, <2>1, RowTyped
  <2>2. CASE LoginWrongPassword(p) \/ LoginRightPassword(p) \/ SendMail(p)
             \/ ResendOtp(p) \/ VerifyOtp(p) \/ ReadForVerify(p) \/ Abort(p)
    BY <1>1, <2>2 DEF TypeOK, LoginWrongPassword, LoginRightPassword, SendMail,
       ResendOtp, VerifyOtp, ReadForVerify, Abort
  <2>3. QED
    BY <2>1, <2>2
<1>5. now' = now
  BY DEF LoginWrongPassword, LoginRightPassword, CountLoginFailure, ResetLoginFailures,
     Issue, SendMail, ResendOtp, VerifyOtp, ReadForVerify, CountOtpFailure, Consume, Abort
<1>6. issued' \in 0 .. MaxCodes /\ stored' \subseteq Codes \X Time
  <2>1. CASE Issue(p)
    <3>1. call[p].otp \in Codes /\ call[p].currentDate + CodeLife \in Time
      BY <1>1, <2>1 DEF AccountConstants, Issue, At, GoodCall, CallState, Time
    <3>2. QED
      BY <1>1, <2>1, <3>1 DEF AccountConstants, Issue, TypeOK
  <2>2. CASE ~Issue(p)
    <3>1. issued' = issued /\ stored' = stored
      BY <2>2 DEF LoginWrongPassword, LoginRightPassword, CountLoginFailure,
         ResetLoginFailures, SendMail, ResendOtp, VerifyOtp, ReadForVerify,
         CountOtpFailure, Consume, Abort
    <3>2. QED
      BY <1>1, <3>1 DEF TypeOK
  <2>3. QED
    BY <2>1, <2>2
<1>7. mailed' \subseteq Codes \X Time
  <2>1. CASE SendMail(p)
    <3>1. call[p].otp \in Codes /\ call[p].currentDate + CodeLife \in Time
      BY <1>1, <2>1 DEF AccountConstants, SendMail, At, GoodCall, CallState, Time
    <3>2. QED
      BY <1>1, <2>1, <3>1 DEF SendMail, TypeOK
  <2>2. CASE ~SendMail(p)
    <3>1. mailed' = mailed
      BY <2>2 DEF LoginWrongPassword, LoginRightPassword, CountLoginFailure,
         ResetLoginFailures, Issue, ResendOtp, VerifyOtp, ReadForVerify,
         CountOtpFailure, Consume, Abort
    <3>2. QED
      BY <1>1, <3>1 DEF TypeOK
  <2>3. QED
    BY <2>1, <2>2
<1>8. tokens' \in {tokens, tokens + 1}
  BY DEF LoginWrongPassword, LoginRightPassword, CountLoginFailure, ResetLoginFailures,
     Issue, SendMail, ResendOtp, VerifyOtp, ReadForVerify, CountOtpFailure, Consume, Abort
<1>9. QED
  BY <1>1, <1>3, <1>4, <1>5, <1>6, <1>7, <1>8 DEF TypeInv, TypeOK, GoodCall

(* A call is only set to mail by the update that stored its code.          *)
LEMMA MailKept ==
    ASSUME AccountConstants, AccountInv, NEW p \in Calls,
           \/ LoginWrongPassword(p) \/ LoginRightPassword(p) \/ CountLoginFailure(p)
           \/ ResetLoginFailures(p) \/ Issue(p) \/ SendMail(p) \/ ResendOtp(p)
           \/ VerifyOtp(p) \/ ReadForVerify(p) \/ CountOtpFailure(p) \/ Consume(p)
           \/ Abort(p)
    PROVE  PendingMailStored' /\ MailedWasStored'
<1> USE DEF AccountInv
<1>1. call \in [Calls -> CallState] /\ stored \subseteq stored'
  BY DEF TypeInv, TypeOK, LoginWrongPassword, LoginRightPassword, CountLoginFailure,
     ResetLoginFailures, Issue, SendMail, ResendOtp, VerifyOtp, ReadForVerify,
     CountOtpFailure, Consume, Abort
<1>2. ASSUME NEW q \in Calls, q # p
      PROVE  call'[q] = call[q]
  BY <1>1, <1>2 DEF LoginWrongPassword, LoginRightPassword, CountLoginFailure,
     ResetLoginFailures, Issue, SendMail, ResendOtp, VerifyOtp, ReadForVerify,
     CountOtpFailure, Consume, Abort, Become, Done
<1>3. call'[p].pc = "mail" =>
        <<call'[p].otp, call'[p].currentDate + CodeLife>> \in stored'
  <2>1. CASE Issue(p)
    <3>1. CASE StillSame(call[p].row)
      <4>1. call'[p] = [call[p] EXCEPT !.pc = "mail", !.row = NoCode]
        BY <1>1, <2>1, <3>1 DEF Issue, MayMail, Become
      <4>2. call'[p].otp = call[p].otp /\ call'[p].currentDate = call[p].currentDate
        BY <1>1, <4>1 DEF CallState
      <4>3. stored' = stored \cup {<<call[p].otp, call[p].currentDate + CodeLife>>}
        BY <2>1, <3>1 DEF Issue
      <4>4. QED
        BY <4>2, <4>3
    <3>2. CASE ~StillSame(call[p].row)
      <4>1. call'[p] = Idle
        BY <1>1, <2>1, <3>2 DEF Issue, MayMail, Become, Done
      <4>2. QED
        BY <4>1 DEF Idle
    <3>3. QED
      BY <3>1, <3>2
  <2>2. CASE ~Issue(p)
    <3>1. call'[p].pc # "mail"
      <4>1. CASE LoginWrongPassword(p) \/ LoginRightPassword(p) \/ VerifyOtp(p)
        BY <1>1, <4>1 DEF LoginWrongPassword, LoginRightPassword, VerifyOtp, Become, Idle
      <4>2. CASE ResetLoginFailures(p) \/ ResendOtp(p)
        BY <1>1, <4>2 DEF ResetLoginFailures, ResendOtp, Become, Done, Idle, Issuing
      <4>3. CASE ReadForVerify(p)
        BY <1>1, <4>3 DEF ReadForVerify, Become, Idle, CallState
      <4>4. CASE CountLoginFailure(p) \/ SendMail(p) \/ CountOtpFailure(p)
                 \/ Consume(p) \/ Abort(p)
        BY <1>1, <4>4 DEF CountLoginFailure, SendMail, CountOtpFailure, Consume, Abort,
           Become, Done, Idle
      <4>5. QED
        BY <2>2, <4>1, <4>2, <4>3, <4>4
    <3>2. QED
      BY <3>1
  <2>3. QED
    BY <2>1, <2>2
<1>4. PendingMailStored'
  BY <1>1, <1>2, <1>3 DEF PendingMailStored, At
<1>5. MailedWasStored'
  <2>1. CASE SendMail(p)
    BY <1>1, <2>1 DEF SendMail, MailedWasStored, PendingMailStored
  <2>2. CASE ~SendMail(p)
    <3>1. mailed' = mailed
      BY <2>2 DEF LoginWrongPassword, LoginRightPassword, CountLoginFailure,
         ResetLoginFailures, Issue, ResendOtp, VerifyOtp, ReadForVerify,
         CountOtpFailure, Consume, Abort
    <3>2. QED
      BY <1>1, <3>1 DEF MailedWasStored
  <2>3. QED
    BY <2>1, <2>2
<1>6. QED
  BY <1>4, <1>5

(* A code is stored before it is consumed, and consuming it removes it.    *)
LEMMA TokensKept ==
    ASSUME AccountConstants, AccountInv, NEW p \in Calls,
           \/ LoginWrongPassword(p) \/ LoginRightPassword(p) \/ CountLoginFailure(p)
           \/ ResetLoginFailures(p) \/ Issue(p) \/ SendMail(p) \/ ResendOtp(p)
           \/ VerifyOtp(p) \/ ReadForVerify(p) \/ CountOtpFailure(p) \/ Consume(p)
           \/ Abort(p)
    PROVE  OneTokenPerCode'
<1> USE DEF AccountInv
<1>1. /\ user \in UserRow /\ issued \in Nat /\ tokens \in Nat
      /\ call[p] \in GoodCall
  BY DEF TypeInv, TypeOK, AccountConstants
<1>2. CASE Issue(p)
  <2>1. tokens' = tokens
    BY <1>2 DEF Issue
  <2>2. CASE StillSame(call[p].row)
    <3>1. issued' = issued + 1
      BY <1>2, <2>2 DEF Issue
    <3>2. QED
      BY <1>1, <2>1, <3>1 DEF OneTokenPerCode
  <2>3. CASE ~StillSame(call[p].row)
    BY <1>2, <2>1, <2>3 DEF Issue, OneTokenPerCode
  <2>4. QED
    BY <2>2, <2>3
<1>3. CASE Consume(p)
  <2>1. CASE Holds(p, call[p].otp)
    <3>1. call[p].otp \in Codes
      BY <1>1, <1>3 DEF Consume, At, GoodCall
    <3>2. user.otp # None
      BY <2>1, <3>1 DEF Holds, AccountConstants
    <3>3. tokens' = tokens + 1 /\ issued' = issued /\ user'.otp = None
      BY <1>1, <1>3, <2>1 DEF Consume, UserRow
    <3>4. QED
      BY <1>1, <3>2, <3>3 DEF OneTokenPerCode
  <2>2. CASE ~Holds(p, call[p].otp)
    BY <1>3, <2>2 DEF Consume, OneTokenPerCode
  <2>3. QED
    BY <2>1, <2>2
<1>4. CASE CountLoginFailure(p) \/ ResetLoginFailures(p) \/ CountOtpFailure(p)
  <2>1. user'.otp = user.otp /\ tokens' = tokens /\ issued' = issued
    BY <1>1, <1>4 DEF CountLoginFailure, ResetLoginFailures, CountOtpFailure, UserRow
  <2>2. QED
    BY <2>1 DEF OneTokenPerCode
<1>5. CASE LoginWrongPassword(p) \/ LoginRightPassword(p) \/ SendMail(p)
           \/ ResendOtp(p) \/ VerifyOtp(p) \/ ReadForVerify(p) \/ Abort(p)
  <2>1. user' = user /\ tokens' = tokens /\ issued' = issued
    BY <1>5 DEF LoginWrongPassword, LoginRightPassword, SendMail, ResendOtp, VerifyOtp,
       ReadForVerify, Abort
  <2>2. QED
    BY <2>1 DEF OneTokenPerCode
<1>6. QED
  BY <1>2, <1>3, <1>4, <1>5

(* AccountInv is inductive.                                                *)
LEMMA NextAccount == AccountConstants /\ AccountInv /\ [Next]_vars => AccountInv'
<1> SUFFICES ASSUME AccountConstants, AccountInv, [Next]_vars
             PROVE  AccountInv'
  OBVIOUS
<1>1. ASSUME NEW p \in Calls,
             \/ LoginWrongPassword(p) \/ LoginRightPassword(p) \/ CountLoginFailure(p)
             \/ ResetLoginFailures(p) \/ Issue(p) \/ SendMail(p) \/ ResendOtp(p)
             \/ VerifyOtp(p) \/ ReadForVerify(p) \/ CountOtpFailure(p) \/ Consume(p)
             \/ Abort(p)
      PROVE  AccountInv'
  <2>1. TypeInv'
    BY <1>1, CallTyped DEF AccountInv
  <2>2. PendingMailStored' /\ MailedWasStored'
    BY <1>1, MailKept
  <2>3. OneTokenPerCode'
    BY <1>1, TokensKept
  <2>4. QED
    BY <2>1, <2>2, <2>3 DEF AccountInv
<1>2. CASE Tick
  BY <1>2 DEF Tick, AccountInv, TypeInv, TypeOK, GoodCall, PendingMailStored, At,
     MailedWasStored, OneTokenPerCode, AccountConstants
<1>3. CASE UNCHANGED vars
  BY <1>3 DEF vars, AccountInv, TypeInv, TypeOK, GoodCall, PendingMailStored, At,
     MailedWasStored, OneTokenPerCode
<1>4. QED
  BY <1>1, <1>2, <1>3 DEF Next

(* The invariant and what it says about the code in force.                 *)
THEOREM AccountCorrect == Spec => []AccountInv
  BY InitAccount, NextAccount, AccountConstants, PTL DEF Spec

(* Every variable keeps its type; in particular no number of overlapping   *)
(* verifications counts failures beyond the limit.                         *)
THEOREM AccountTypes == Spec => []TypeOK
<1>1. AccountInv => TypeOK
  BY DEF AccountInv, TypeInv
<1>2. QED
  BY <1>1, AccountCorrect, PTL

(* Every access token has a code of its own.                               *)
THEOREM TokenNeedsItsCode == Spec => []OneTokenPerCode
<1>1. AccountInv => OneTokenPerCode
  BY DEF AccountInv
<1>2. QED
  BY <1>1, AccountCorrect, PTL

(* Only codes that were stored are mailed.                                 *)
THEOREM MailNeedsAStoredCode == Spec => []MailedWasStored
<1>1. AccountInv => MailedWasStored
  BY DEF AccountInv
<1>2. QED
  BY <1>1, AccountCorrect, PTL

(* A code replaces another only after the cooldown of that one.            *)
THEOREM CooldownIsKept == Spec => CooldownKept
<1>1. ASSUME AccountConstants, AccountInv, [Next]_vars, issued' # issued, user.otp # None
      PROVE  user'.otpExpiresAt >= user.otpExpiresAt + Cooldown
  <2>1. PICK p \in Calls : Issue(p) /\ StillSame(call[p].row)
    BY <1>1 DEF Next, vars, LoginWrongPassword, LoginRightPassword, CountLoginFailure,
       ResetLoginFailures, Issue, SendMail, ResendOtp, VerifyOtp, ReadForVerify,
       CountOtpFailure, Consume, Abort, Tick
  <2>2. user \in UserRow /\ call[p] \in GoodCall
    BY <1>1 DEF AccountInv, TypeInv, TypeOK
  <2>3. call[p].row.otp # None /\ call[p].row.otpExpiresAt = user.otpExpiresAt
    BY <1>1, <2>1 DEF StillSame
  <2>4. call[p].currentDate >= user.otpExpiresAt - (CodeLife - Cooldown)
    BY <2>1, <2>2, <2>3 DEF Issue, At, GoodCall
  <2>5. user'.otpExpiresAt = call[p].currentDate + CodeLife
    BY <2>1, <2>2 DEF Issue, UserRow
  <2>6. user.otpExpiresAt \in Nat /\ call[p].currentDate \in Nat
    BY <2>2 DEF UserRow, GoodCall, CallState, Time, AccountConstants
  <2>7. QED
    BY <1>1, <2>4, <2>5, <2>6 DEF AccountConstants
<1>2. AccountConstants /\ AccountInv /\ [Next]_vars =>
        [issued' # issued /\ user.otp # None =>
           user'.otpExpiresAt >= user.otpExpiresAt + Cooldown]_vars
  BY <1>1
<1>3. QED
  BY <1>2, AccountCorrect, AccountConstants, PTL DEF Spec, CooldownKept

(* A locked account issues no code and gives no token, no step undoes the  *)
(* lock of failed verifications, and each step that undoes the one of      *)
(* failed logins uses up a login that had read the row before.             *)
THEOREM LockIsKept == Spec => LockedMeansShut
<1> DEFINE Shut ==
       /\ issued' = issued /\ tokens' = tokens
       /\ user.otpFailedAttempts >= FailureLimit =>
             user'.otpFailedAttempts >= FailureLimit
       /\ Resetting' \subseteq Resetting
       /\ user'.loginFailedAttempts < user.loginFailedAttempts => Resetting' # Resetting
<1>1. ASSUME AccountConstants, AccountInv, [Next]_vars, Locked(user)
      PROVE  Shut
  <2>1. user \in UserRow /\ call \in [Calls -> CallState]
    BY <1>1 DEF AccountInv, TypeInv, TypeOK
  <2>2. /\ user.loginFailedAttempts \in Int
        /\ user.otpFailedAttempts \in Int
    BY <1>1, <2>1 DEF UserRow, AccountConstants
  <2>3. ASSUME NEW p \in Calls, NEW state, Become(p, state), state.pc # "resetLoginFailures"
        PROVE  Resetting' = Resetting \ {p}
    BY <2>1, <2>3 DEF Become, Resetting, At
  <2>4. ASSUME NEW p \in Calls, Issue(p) \/ Consume(p) \/ CountOtpFailure(p)
        PROVE  Shut
    <3>1. user' = user /\ issued' = issued /\ tokens' = tokens
      BY <1>1, <2>4 DEF Issue, Consume, CountOtpFailure, StillSame, Holds
    <3>2. \E state : Become(p, state) /\ state.pc # "resetLoginFailures"
      <4>1. CASE Issue(p)
        BY <1>1, <4>1 DEF Issue, MayMail, StillSame, Done, Idle
      <4>2. CASE Consume(p) \/ CountOtpFailure(p)
        BY <4>2 DEF Consume, CountOtpFailure, Done, Idle
      <4>3. QED
        BY <2>4, <4>1, <4>2
    <3>3. Resetting' = Resetting \ {p}
      BY <2>3, <3>2
    <3>4. QED
      BY <2>2, <3>1, <3>3
  <2>5. ASSUME NEW p \in Calls, ResetLoginFailures(p)
        PROVE  Shut
    <3>1. issued' = issued /\ tokens' = tokens
          /\ user'.otpFailedAttempts = user.otpFailedAttempts
      BY <2>1, <2>5 DEF ResetLoginFailures, UserRow
    <3>2. \E state : Become(p, state) /\ state.pc # "resetLoginFailures"
      <4>1. CASE Done(p)
        BY <4>1 DEF Done, Idle
      <4>2. CASE \E otp \in Codes : Become(p, Issuing(call[p].row, otp))
        BY <4>2 DEF Issuing
      <4>3. QED
        BY <2>5, <4>1, <4>2 DEF ResetLoginFailures
    <3>3. Resetting' = Resetting \ {p}
      BY <2>3, <3>2
    <3>4. p \in Resetting
      BY <2>5 DEF ResetLoginFailures, Resetting
    <3>5. QED
      BY <3>1, <3>3, <3>4
  <2>6. ASSUME NEW p \in Calls, CountLoginFailure(p)
        PROVE  Shut
    <3>1. /\ issued' = issued /\ tokens' = tokens
          /\ user'.otpFailedAttempts = user.otpFailedAttempts
          /\ ~(user'.loginFailedAttempts < user.loginFailedAttempts)
      BY <2>1, <2>2, <2>6 DEF CountLoginFailure, UserRow
    <3>2. Resetting' = Resetting \ {p}
      <4>1. Become(p, Idle) /\ Idle.pc # "resetLoginFailures"
        BY <2>6 DEF CountLoginFailure, Done, Idle
      <4>2. QED
        BY <2>3, <4>1
    <3>3. QED
      BY <3>1, <3>2
  <2>7. ASSUME NEW p \in Calls,
               \/ LoginWrongPassword(p) \/ VerifyOtp(p) \/ ReadForVerify(p)
               \/ SendMail(p) \/ Abort(p)
        PROVE  Shut
    <3>1. user' = user /\ issued' = issued /\ tokens' = tokens
      BY <2>7 DEF LoginWrongPassword, VerifyOtp, ReadForVerify, SendMail, Abort
    <3>2. \E state : Become(p, state) /\ state.pc # "resetLoginFailures"
      <4>1. CASE LoginWrongPassword(p)
        <5>1. [Idle EXCEPT !.pc = "countLoginFailure"].pc = "countLoginFailure"
          BY DEF Idle
        <5>2. QED
          BY <4>1, <5>1 DEF LoginWrongPassword
      <4>2. CASE VerifyOtp(p)
        <5>1. PICK otp \in Codes : Become(p, [Idle EXCEPT !.pc = "verify", !.otp = otp,
                                                         !.currentDate = now])
          BY <4>2 DEF VerifyOtp
        <5>2. QED
          <6>1. [Idle EXCEPT !.pc = "verify", !.otp = otp, !.currentDate = now].pc = "verify"
            BY DEF Idle
          <6>2. QED
            BY <5>1, <6>1
      <4>3. CASE ReadForVerify(p) \/ SendMail(p) \/ Abort(p)
        BY <1>1, <4>3 DEF ReadForVerify, SendMail, Abort, Done, Idle
      <4>4. QED
        BY <2>7, <4>1, <4>2, <4>3
    <3>3. Resetting' = Resetting \ {p}
      BY <2>3, <3>2
    <3>4. QED
      BY <2>2, <3>1, <3>3
  <2>8. ASSUME NEW p \in Calls, LoginRightPassword(p) \/ ResendOtp(p)
        PROVE  FALSE
    BY <1>1, <2>8 DEF LoginRightPassword, ResendOtp
  <2>9. CASE Tick \/ UNCHANGED vars
    <3>1. user' = user /\ issued' = issued /\ tokens' = tokens /\ call' = call
      BY <2>9 DEF Tick, vars
    <3>2. QED
      BY <2>2, <3>1 DEF Resetting, At
  <2>10. QED
    BY <1>1, <2>4, <2>5, <2>6, <2>7, <2>8, <2>9 DEF Next
<1>2. AccountConstants /\ AccountInv /\ [Next]_vars => [Locked(user) => Shut]_vars
  BY <1>1
<1>3. QED
  BY <1>2, AccountCorrect, AccountConstants, PTL DEF Spec, LockedMeansShut
=============================================================================
