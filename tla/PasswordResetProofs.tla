------------------------- MODULE PasswordResetProofs --------------------------
(***************************************************************************)
(* Theorems about PasswordReset, for any number of calls, any tokens and   *)
(* passwords, and a history of any length.                                 *)
(***************************************************************************)
EXTENDS PasswordReset, FiniteSetTheorems, TLAPS

(* A call beyond "idle" has a token of its own making, or, about to set a  *)
(* password, one that is known.                                            *)
Carrying == {"store", "mail", "return"}
CallTokens ==
    /\ \A p \in Calls :
          /\ call[p].pc \in Carrying => call[p].token \in minted
          /\ At(p, "store") => call[p].token \notin known
          /\ At(p, "set") => call[p].token \in known /\ call[p].newPassword \in Passwords
    /\ \A p, q \in Calls :
          call[p].pc \in Carrying /\ call[q].pc \in Carrying
            /\ call[p].token = call[q].token => p = q

(* What the row holds has been minted, and has not set a password yet;     *)
(* what has is known.                                                      *)
RowToken ==
    /\ user.passwordResetToken \in minted \cup {None}
    /\ \A t \in Tokens : uses[t] > 0 => t \in known /\ user.passwordResetToken # t

TokenInv == TypeOK /\ CallTokens /\ RowToken

-----------------------------------------------------------------------------
(* Types and tokens.                                                       *)

(* The last passwords of a history are a short sequence: its end.          *)
LEMMA LastOnesEnd ==
    ASSUME PasswordResetConstants, NEW S, NEW history \in Seq(S)
    PROVE  LET m == IF Len(history) > Keep THEN Keep ELSE Len(history) IN
           /\ LastOnes(history) \in Seq(S)
           /\ Len(LastOnes(history)) = m
           /\ \A i \in 1 .. m : LastOnes(history)[i] = history[Len(history) - m + i]
<1> DEFINE n == Len(history)
           lo == IF n > Keep THEN n - Keep + 1 ELSE 1
           m  == IF n > Keep THEN Keep ELSE n
<1>1. n \in Nat /\ lo \in 1 .. n + 1 /\ m = n - lo + 1 /\ m \in Nat
  BY DEF PasswordResetConstants
<1> HIDE DEF lo, m
<1>2. /\ SubSeq(history, lo, n) \in Seq(S)
      /\ Len(SubSeq(history, lo, n)) = n - lo + 1
      /\ \A i \in 1 .. n - lo + 1 : SubSeq(history, lo, n)[i] = history[lo + i - 1]
  BY <1>1
<1>3. ASSUME NEW i \in 1 .. m
      PROVE  SubSeq(history, lo, n)[i] = history[n - m + i]
  <2>1. lo + i - 1 = n - m + i
    BY <1>1
  <2>2. QED
    BY <1>1, <1>2, <2>1
<1>4. LastOnes(history) = SubSeq(history, lo, n)
  BY DEF LastOnes, lo
<1>5. QED
  BY <1>1, <1>2, <1>3, <1>4 DEF m

(* The history after a reset.                                              *)
LEMMA NextHistory ==
    ASSUME PasswordResetConstants, NEW h \in Seq(Passwords), NEW w \in Passwords
    PROVE  LET n == LastOnes(Append(h, w))
               m == IF Len(h) + 1 > Keep THEN Keep ELSE Len(h) + 1
           IN  /\ n \in Seq(Passwords)
               /\ Len(n) = m
               /\ n[m] = w
               /\ \A i \in 1 .. m - 1 : n[i] = h[Len(h) + 1 - m + i]
<1> DEFINE a == Append(h, w)
           m == IF Len(h) + 1 > Keep THEN Keep ELSE Len(h) + 1
<1>1. a \in Seq(Passwords) /\ Len(a) = Len(h) + 1 /\ a[Len(h) + 1] = w
      /\ \A i \in 1 .. Len(h) : a[i] = h[i]
  OBVIOUS
<1>2. m \in Nat /\ m >= 1 /\ m <= Len(h) + 1 /\ Len(h) \in Nat
  BY DEF PasswordResetConstants
<1> HIDE DEF a, m
<1>3. /\ LastOnes(a) \in Seq(Passwords)
      /\ Len(LastOnes(a)) = m
      /\ \A i \in 1 .. m : LastOnes(a)[i] = a[Len(a) - m + i]
  <2>1. m = IF Len(a) > Keep THEN Keep ELSE Len(a)
    BY <1>1 DEF m
  <2>2. QED
    BY <1>1, <2>1, LastOnesEnd
<1>4. LastOnes(a)[m] = w
  BY <1>1, <1>2, <1>3
<1>5. ASSUME NEW i \in 1 .. m - 1
      PROVE  LastOnes(a)[i] = h[Len(h) + 1 - m + i]
  <2>1. Len(a) - m + i \in 1 .. Len(h) /\ Len(a) - m + i = Len(h) + 1 - m + i
    BY <1>1, <1>2
  <2>2. LastOnes(a)[i] = a[Len(a) - m + i]
    BY <1>2, <1>3
  <2>3. QED
    BY <1>1, <2>1, <2>2
<1>6. QED
  BY <1>3, <1>4, <1>5 DEF a, m

(* A call that becomes another state of its type keeps the type of all.    *)
LEMMA BecomeTyped ==
    ASSUME TypeOK, NEW p \in Calls, NEW c \in CallState, Become(p, c)
    PROVE  /\ call' \in [Calls -> CallState] /\ call'[p] = c
           /\ \A q \in Calls : q # p => call'[q] = call[q]
  BY DEF TypeOK, Become

LEMMA IdleTyped == Idle \in CallState
  BY DEF Idle, CallState, Steps

LEMMA InitTokens == PasswordResetConstants /\ Init => TokenInv
<1> SUFFICES ASSUME PasswordResetConstants, Init
             PROVE  TokenInv
  OBVIOUS
<1>1. PICK w \in Passwords :
          /\ user = [lastUserPassword |-> <<w>>, passwordResetToken |-> None,
                     linkValid |-> FALSE, passwordExpired |-> FALSE]
          /\ past = << [password |-> w, seen |-> 0] >>
  BY DEF Init
<1>2. user \in UserRow /\ Len(user.lastUserPassword) <= Keep /\ past \in Seq(PastRow)
  BY <1>1 DEF UserRow, PastRow, PasswordResetConstants
<1>3. TypeOK
  BY <1>2, IdleTyped DEF Init, TypeOK
<1>4. CallTokens /\ RowToken
  BY <1>1 DEF Init, CallTokens, RowToken, Carrying, At, Idle
<1>5. QED
  BY <1>3, <1>4 DEF TokenInv

(* The steps that write neither the row nor the histories: minting a token *)
(* and handing it over.                                                    *)
LEMMA MintTokens ==
    ASSUME PasswordResetConstants, TokenInv, NEW p \in Calls, NEW mails \in BOOLEAN,
           Mint(p, mails)
    PROVE  TokenInv'
<1>1. PICK t \in Tokens \ minted :
          /\ minted' = minted \cup {t}
          /\ Become(p, Storing(t, mails))
  BY DEF Mint
<1> DEFINE c == Storing(t, mails)
<1>2. c \in CallState /\ c.pc = "store" /\ c.token = t
  BY DEF Storing, CallState, Steps
<1> HIDE DEF c
<1>3. /\ call' \in [Calls -> CallState] /\ call'[p] = c
      /\ \A q \in Calls : q # p => call'[q] = call[q]
  BY <1>1, <1>2, BecomeTyped DEF TokenInv, c
<1>4. UNCHANGED <<user, known, uses, past>>
  BY DEF Mint
<1>5. TypeOK'
  BY <1>1, <1>3, <1>4 DEF TokenInv, TypeOK
<1>6. CallTokens'
  BY <1>1, <1>2, <1>3, <1>4 DEF TokenInv, TypeOK, CallTokens, Carrying, At
<1>7. RowToken'
  BY <1>1, <1>4 DEF TokenInv, RowToken
<1>8. QED
  BY <1>5, <1>6, <1>7 DEF TokenInv

LEMMA HandOverTokens ==
    ASSUME PasswordResetConstants, TokenInv, NEW p \in Calls, HandOver(p)
    PROVE  TokenInv'
<1>1. /\ call' \in [Calls -> CallState] /\ call'[p] = Idle
      /\ \A q \in Calls : q # p => call'[q] = call[q]
  BY IdleTyped, BecomeTyped DEF HandOver, TokenInv
<1>2. call[p].token \in minted /\ call[p].pc \in Carrying
  BY DEF TokenInv, CallTokens, HandOver, Carrying
<1>3. known' = known \cup {call[p].token} /\ UNCHANGED <<user, minted, uses, past>>
  BY DEF HandOver
<1>4. TypeOK'
  BY <1>1, <1>2, <1>3 DEF TokenInv, TypeOK
<1>5. Idle.pc = "idle"
  BY DEF Idle
<1>6. CallTokens'
  BY <1>1, <1>2, <1>3, <1>5 DEF TokenInv, CallTokens, Carrying, At
<1>7. RowToken'
  BY <1>3 DEF TokenInv, RowToken
<1>8. QED
  BY <1>4, <1>6, <1>7 DEF TokenInv

(* A token that is stored has never been in the row before.                *)
LEMMA StoreTokens ==
    ASSUME PasswordResetConstants, TokenInv, NEW p \in Calls, StoreToken(p)
    PROVE  TokenInv'
<1> DEFINE t == call[p].token
           c == [call[p] EXCEPT !.pc = IF call[p].mails THEN "mail" ELSE "return"]
<1>1. t \in minted /\ t \notin known /\ minted \subseteq Tokens
  BY DEF TokenInv, TypeOK, CallTokens, StoreToken, At, Carrying
<1>2. c \in CallState /\ c.pc \in {"mail", "return"} /\ c.token = t
  BY DEF TokenInv, TypeOK, CallState, Steps
<1>3. /\ call' \in [Calls -> CallState] /\ call'[p] = c
      /\ \A q \in Calls : q # p => call'[q] = call[q]
  BY <1>2, BecomeTyped DEF TokenInv, StoreToken
<1>4. /\ user' \in UserRow /\ user'.passwordResetToken = t
      /\ user'.lastUserPassword = user.lastUserPassword
  BY <1>1 DEF TokenInv, TypeOK, UserRow, StoreToken
<1>5. UNCHANGED <<minted, known, uses, past>> /\ call[p].pc = "store"
  BY DEF StoreToken, At
<1> HIDE DEF t, c
<1>6. TypeOK'
  BY <1>3, <1>4, <1>5 DEF TokenInv, TypeOK
<1>7. CallTokens'
  BY <1>1, <1>2, <1>3, <1>5 DEF TokenInv, CallTokens, Carrying, At, t
<1>8. RowToken'
  BY <1>1, <1>4, <1>5 DEF TokenInv, RowToken
<1>9. QED
  BY <1>6, <1>7, <1>8 DEF TokenInv

LEMMA ResetTokens ==
    ASSUME PasswordResetConstants, TokenInv, NEW p \in Calls, ResetPassword(p)
    PROVE  TokenInv'
<1>1. PICK t \in known, w \in Passwords :
          Accepted(t) /\ IsNew(w) /\ Become(p, Setting(t, w))
  BY DEF ResetPassword
<1>2. Setting(t, w) \in CallState /\ Setting(t, w).pc = "set"
      /\ Setting(t, w).token = t /\ Setting(t, w).newPassword = w
  BY DEF TokenInv, TypeOK, CallState, Steps, UserRow, Setting
<1>3. /\ call' \in [Calls -> CallState] /\ call'[p] = Setting(t, w)
      /\ \A q \in Calls : q # p => call'[q] = call[q]
  BY <1>1, <1>2, BecomeTyped DEF TokenInv
<1>4. UNCHANGED <<user, minted, known, uses, past>>
  BY DEF ResetPassword
<1>5. TypeOK'
  BY <1>3, <1>4 DEF TokenInv, TypeOK
<1>6. CallTokens'
  BY <1>2, <1>3, <1>4 DEF TokenInv, CallTokens, Carrying, At
<1>7. QED
  BY <1>4, <1>5, <1>6 DEF TokenInv, RowToken

LEMMA SetTokens ==
    ASSUME PasswordResetConstants, TokenInv, NEW p \in Calls, SetPassword(p)
    PROVE  TokenInv'
<1> DEFINE w == call[p].newPassword
           t == call[p].token
           h == call[p].lastUserPassword
<1>1. call[p] \in CallState /\ t \in known /\ w \in Passwords /\ t \in Tokens
  BY DEF TokenInv, TypeOK, CallTokens, SetPassword, At
<1>2. /\ call' \in [Calls -> CallState] /\ call'[p] = Idle
      /\ \A q \in Calls : q # p => call'[q] = call[q]
  BY IdleTyped, BecomeTyped DEF TokenInv, SetPassword
<1>3. h \in Seq(Passwords) /\ call[p].seen \in Nat
  BY <1>1 DEF CallState
<1>4. /\ user' = [lastUserPassword |-> LastOnes(Append(h, w)), passwordResetToken |-> None,
                  linkValid |-> FALSE, passwordExpired |-> FALSE]
      /\ uses' = [uses EXCEPT ![t] = @ + 1]
      /\ past' = Append(past, [password |-> w, seen |-> call[p].seen])
      /\ UNCHANGED <<minted, known>>
  BY DEF SetPassword, AfterUse
<1> HIDE DEF w, t, h
<1>5. LastOnes(Append(h, w)) \in Seq(Passwords) /\ Len(LastOnes(Append(h, w))) <= Keep
  BY <1>1, <1>3, NextHistory DEF PasswordResetConstants
<1>6. user' \in UserRow /\ user'.passwordResetToken = None
      /\ user'.lastUserPassword = LastOnes(Append(h, w))
  BY <1>4, <1>5 DEF UserRow
<1>7. past' \in Seq(PastRow)
  BY <1>1, <1>3, <1>4 DEF TokenInv, TypeOK, PastRow
<1>8. uses' \in [Tokens -> Nat]
  BY <1>1, <1>4 DEF TokenInv, TypeOK
<1>9. TypeOK'
  BY <1>2, <1>4, <1>5, <1>6, <1>7, <1>8 DEF TokenInv, TypeOK
<1>10. CallTokens'
  <2>1. Idle.pc = "idle"
    BY DEF Idle
  <2>2. QED
    BY <1>2, <1>4, <2>1 DEF TokenInv, CallTokens, Carrying, At
<1>11. RowToken'
  BY <1>1, <1>4, <1>6 DEF TokenInv, TypeOK, RowToken, PasswordResetConstants
<1>12. QED
  BY <1>9, <1>10, <1>11 DEF TokenInv

LEMMA AbortTokens ==
    ASSUME PasswordResetConstants, TokenInv, NEW p \in Calls, Abort(p)
    PROVE  TokenInv'
<1>1. /\ call' \in [Calls -> CallState] /\ call'[p] = Idle
      /\ \A q \in Calls : q # p => call'[q] = call[q]
  BY IdleTyped, BecomeTyped DEF Abort, TokenInv
<1>2. UNCHANGED <<user, minted, known, uses, past>> /\ Idle.pc = "idle"
  BY DEF Abort, Idle
<1>3. TypeOK'
  BY <1>1, <1>2 DEF TokenInv, TypeOK
<1>4. CallTokens'
  BY <1>1, <1>2 DEF TokenInv, CallTokens, Carrying, At
<1>5. QED
  BY <1>2, <1>3, <1>4 DEF TokenInv, RowToken

LEMMA ClockTokens ==
    ASSUME TokenInv, LinkExpires \/ PasswordExpires \/ UNCHANGED vars
    PROVE  TokenInv'
<1>1. UNCHANGED <<call, minted, known, uses, past>>
  BY DEF LinkExpires, PasswordExpires, vars
<1>2. /\ user' \in UserRow /\ user'.passwordResetToken = user.passwordResetToken
      /\ user'.lastUserPassword = user.lastUserPassword
  BY DEF LinkExpires, PasswordExpires, vars, TokenInv, TypeOK, UserRow
<1>3. QED
  BY <1>1, <1>2 DEF TokenInv, TypeOK, CallTokens, RowToken, At

LEMMA NextTokens == PasswordResetConstants /\ TokenInv /\ [Next]_vars => TokenInv'
<1> SUFFICES ASSUME PasswordResetConstants, TokenInv, [Next]_vars
             PROVE  TokenInv'
  OBVIOUS
<1>1. ASSUME NEW p \in Calls,
             ForgotPassword(p) \/ GeneratePasswordResetToken(p) \/ LoginExpired(p)
      PROVE  TokenInv'
  BY <1>1, MintTokens DEF ForgotPassword, GeneratePasswordResetToken, LoginExpired
<1>2. QED
  BY <1>1, HandOverTokens, StoreTokens, ResetTokens, SetTokens, AbortTokens, ClockTokens
  DEF Next

LEMMA TokensCorrect == Spec => []TokenInv
  BY InitTokens, NextTokens, PasswordResetConstants, PTL DEF Spec

(* Every variable keeps its type, for any number of calls.                 *)
THEOREM PasswordResetTypes == Spec => []TypeOK
<1>1. TokenInv => TypeOK
  BY DEF TokenInv
<1>2. QED
  BY <1>1, TokensCorrect, PTL

(* No step brings a link back that was used or replaced: a stale reset only*)
(* ever clears the row, and what is stored is not known to anyone yet.     *)
THEOREM LinksStayDead == Spec => LinkStaysDead
<1>1. ASSUME TokenInv, [Next]_vars, NEW t \in known, user.passwordResetToken # t
      PROVE  user'.passwordResetToken # t
  <2>1. t # None /\ user \in UserRow
    BY <1>1, PasswordResetConstants DEF TokenInv, TypeOK, PasswordResetConstants
  <2>2. ASSUME NEW p \in Calls, StoreToken(p)
        PROVE  user'.passwordResetToken # t
    BY <1>1, <2>1, <2>2 DEF TokenInv, CallTokens, StoreToken, At, UserRow
  <2>3. ASSUME NEW p \in Calls, SetPassword(p)
        PROVE  user'.passwordResetToken # t
    BY <2>1, <2>3 DEF SetPassword, AfterUse
  <2>4. CASE LinkExpires \/ PasswordExpires
    BY <1>1, <2>1, <2>4 DEF LinkExpires, PasswordExpires, UserRow
  <2>5. QED
    BY <1>1, <2>2, <2>3, <2>4 DEF Next, vars, ForgotPassword, GeneratePasswordResetToken,
       LoginExpired, Mint, HandOver, ResetPassword, Abort
<1>2. TokenInv /\ [Next]_vars =>
        [\A t \in known : user.passwordResetToken # t => user'.passwordResetToken # t]_vars
  BY <1>1
<1>3. QED
  BY <1>2, TokensCorrect, PTL DEF Spec, LinkStaysDead

(* The steps that mint, store or hand over a token, and those that stop,   *)
(* bring no call to the point where it sets a password.                    *)
LEMMA NoNewReset ==
    ASSUME TokenInv, NEW p \in Calls, NEW q \in Calls, call'[q].pc = "set",
           \/ ForgotPassword(p) \/ GeneratePasswordResetToken(p) \/ LoginExpired(p)
           \/ HandOver(p) \/ Abort(p) \/ StoreToken(p)
    PROVE  call'[q] = call[q]
<1>1. CASE ForgotPassword(p) \/ GeneratePasswordResetToken(p) \/ LoginExpired(p)
  BY <1>1 DEF ForgotPassword, GeneratePasswordResetToken, LoginExpired, Mint,
     Become, Storing, TokenInv, TypeOK
<1>2. CASE HandOver(p) \/ Abort(p)
  BY <1>2 DEF HandOver, Abort, Become, Idle, TokenInv, TypeOK
<1>3. CASE StoreToken(p)
  <2>1. call'[p].pc \in {"mail", "return"} /\ (q # p => call'[q] = call[q])
    BY <1>3 DEF StoreToken, Become, TokenInv, TypeOK, CallState
  <2>2. QED
    BY <2>1
<1>4. QED
  BY <1>1, <1>2, <1>3

-----------------------------------------------------------------------------
(* How often a link sets a password.                                       *)

(* The calls that are about to use t; each of them may still do so.        *)
SettingCalls(t) == {p \in Calls : At(p, "set") /\ call[p].token = t}
UsesInv == \A t \in Tokens : uses[t] + Cardinality(SettingCalls(t)) <= Cardinality(Calls)

(* The calls are finitely many, and so are those that are about to use t.  *)
LEMMA SettingFinite ==
    ASSUME PasswordResetConstants, NEW t
    PROVE  /\ IsFiniteSet(SettingCalls(t)) /\ Cardinality(SettingCalls(t)) \in Nat
           /\ Cardinality(SettingCalls(t)) <= Cardinality(Calls)
           /\ Cardinality(Calls) \in Nat
<1>1. SettingCalls(t) \subseteq Calls /\ IsFiniteSet(Calls)
  BY DEF SettingCalls, PasswordResetConstants
<1>2. QED
  BY <1>1, FS_Subset, FS_CardinalityType

(* Fewer calls about to use t are no more calls.                           *)
LEMMA SettingShrinks ==
    ASSUME PasswordResetConstants, TokenInv, TokenInv', UsesInv, NEW t \in Tokens,
           SettingCalls(t)' \subseteq SettingCalls(t), uses'[t] = uses[t]
    PROVE  uses'[t] + Cardinality(SettingCalls(t)') <= Cardinality(Calls)
<1>1. /\ Cardinality(SettingCalls(t)') <= Cardinality(SettingCalls(t))
      /\ Cardinality(SettingCalls(t)') \in Nat
  BY SettingFinite, FS_Subset, FS_CardinalityType
<1>2. uses[t] \in Nat /\ uses[t] + Cardinality(SettingCalls(t)) <= Cardinality(Calls)
  BY DEF TokenInv, TypeOK, UsesInv
<1>3. QED
  BY <1>1, <1>2, SettingFinite

LEMMA ResetUses ==
    ASSUME PasswordResetConstants, TokenInv, TokenInv', UsesInv, NEW p \in Calls,
           ResetPassword(p)
    PROVE  UsesInv'
<1>1. PICK t \in known, w \in Passwords : Accepted(t) /\ Become(p, Setting(t, w))
  BY DEF ResetPassword
<1>2. call'[p] = Setting(t, w) /\ \A q \in Calls : q # p => call'[q] = call[q]
  BY <1>1 DEF TokenInv, TypeOK, Become
<1>3. uses' = uses /\ uses[t] = 0 /\ t \in Tokens
  BY <1>1 DEF ResetPassword, Accepted, TokenInv, TypeOK, RowToken
<1>4. ASSUME NEW u \in Tokens, u # t
      PROVE  uses'[u] + Cardinality(SettingCalls(u)') <= Cardinality(Calls)
  <2>1. SettingCalls(u)' \subseteq SettingCalls(u)
    BY <1>2, <1>4 DEF SettingCalls, At, Setting
  <2>2. QED
    BY <1>3, <2>1, SettingShrinks
<1>5. /\ Cardinality(SettingCalls(t)') <= Cardinality(Calls)
      /\ Cardinality(SettingCalls(t)') \in Nat
  <2>1. SettingCalls(t)' \subseteq Calls /\ IsFiniteSet(Calls)
    BY DEF SettingCalls, PasswordResetConstants
  <2>2. QED
    BY <2>1, FS_Subset, FS_CardinalityType
<1>6. UsesInv' <=> \A u \in Tokens :
                      uses'[u] + Cardinality(SettingCalls(u)') <= Cardinality(Calls)
  BY DEF UsesInv
<1>7. QED
  BY <1>3, <1>4, <1>5, <1>6

LEMMA SetUses ==
    ASSUME PasswordResetConstants, TokenInv, TokenInv', UsesInv, NEW p \in Calls,
           SetPassword(p)
    PROVE  UsesInv'
<1>1. PICK t \in Tokens : t = call[p].token /\ p \in SettingCalls(t)
  BY DEF SettingCalls, SetPassword, TokenInv, TypeOK, CallTokens, At
<1>2. call'[p] = Idle /\ \A q \in Calls : q # p => call'[q] = call[q]
  BY DEF SetPassword, TokenInv, TypeOK, Become
<1>3. uses' = [uses EXCEPT ![t] = @ + 1] /\ uses \in [Tokens -> Nat]
  BY <1>1 DEF SetPassword, TokenInv, TypeOK
<1>4. ASSUME NEW u \in Tokens, u # t
      PROVE  uses'[u] + Cardinality(SettingCalls(u)') <= Cardinality(Calls)
  <2>1. SettingCalls(u)' \subseteq SettingCalls(u)
    BY <1>1, <1>2 DEF SettingCalls, At, Idle
  <2>2. QED
    BY <1>1, <1>3, <1>4, <2>1, SettingShrinks
<1>5. uses'[t] + Cardinality(SettingCalls(t)') <= Cardinality(Calls)
  <2>1. SettingCalls(t)' = SettingCalls(t) \ {p}
    BY <1>1, <1>2 DEF SettingCalls, At, Idle
  <2>2. Cardinality(SettingCalls(t) \ {p}) = Cardinality(SettingCalls(t)) - 1
    <3>1. IsFiniteSet(SettingCalls(t))
      BY SettingFinite
    <3>2. QED
      BY <1>1, <3>1, FS_RemoveElement
  <2>3. uses[t] + Cardinality(SettingCalls(t)) <= Cardinality(Calls)
    BY <1>1 DEF UsesInv
  <2>4. uses'[t] = uses[t] + 1 /\ uses[t] \in Nat
    BY <1>1, <1>3
  <2>5. QED
    BY <2>1, <2>2, <2>3, <2>4, SettingFinite
<1>6. UsesInv' <=> \A u \in Tokens :
                      uses'[u] + Cardinality(SettingCalls(u)') <= Cardinality(Calls)
  BY DEF UsesInv
<1>7. QED
  BY <1>4, <1>5, <1>6

(* Every other step leaves the count alone and starts no reset.            *)
LEMMA OtherUses ==
    ASSUME PasswordResetConstants, TokenInv, TokenInv', UsesInv,
           \/ \E p \in Calls : \/ ForgotPassword(p) \/ GeneratePasswordResetToken(p)
                               \/ LoginExpired(p) \/ StoreToken(p) \/ HandOver(p)
                               \/ Abort(p)
           \/ LinkExpires \/ PasswordExpires \/ UNCHANGED vars
    PROVE  UsesInv'
<1>1. uses' = uses
  BY DEF ForgotPassword, GeneratePasswordResetToken, LoginExpired, Mint, StoreToken,
     HandOver, Abort, LinkExpires, PasswordExpires, vars
<1>2. ASSUME NEW t \in Tokens
      PROVE  SettingCalls(t)' \subseteq SettingCalls(t)
  <2>1. ASSUME NEW q \in Calls, call'[q].pc = "set"
        PROVE  call'[q] = call[q]
    <3>1. CASE LinkExpires \/ PasswordExpires \/ UNCHANGED vars
      BY <3>1 DEF LinkExpires, PasswordExpires, vars
    <3>2. QED
      BY <2>1, <3>1, NoNewReset
  <2>2. QED
    BY <2>1 DEF SettingCalls, At
<1>3. ASSUME NEW t \in Tokens
      PROVE  uses'[t] + Cardinality(SettingCalls(t)') <= Cardinality(Calls)
  BY <1>1, <1>2, SettingShrinks
<1>4. UsesInv' <=> \A t \in Tokens :
                      uses'[t] + Cardinality(SettingCalls(t)') <= Cardinality(Calls)
  BY DEF UsesInv
<1>5. QED
  BY <1>3, <1>4

(* No link sets a password more often than there are calls at work.        *)
THEOREM LinkUsesBounded == Spec => []LinkUses
<1>1. PasswordResetConstants /\ Init => UsesInv
  <2> SUFFICES ASSUME PasswordResetConstants, Init, NEW t \in Tokens
               PROVE  uses[t] + Cardinality(SettingCalls(t)) <= Cardinality(Calls)
    BY DEF UsesInv
  <2>1. uses[t] = 0
    BY DEF Init
  <2>2. QED
    BY <2>1, SettingFinite
<1>2. PasswordResetConstants /\ TokenInv /\ TokenInv' /\ UsesInv /\ [Next]_vars => UsesInv'
  BY ResetUses, SetUses, OtherUses DEF Next
<1>3. PasswordResetConstants /\ TokenInv /\ UsesInv => LinkUses
  <2> SUFFICES ASSUME PasswordResetConstants, TokenInv, UsesInv, NEW t \in Tokens
               PROVE  uses[t] <= Cardinality(Calls)
    BY DEF LinkUses
  <2>1. uses[t] \in Nat /\ uses[t] + Cardinality(SettingCalls(t)) <= Cardinality(Calls)
    BY DEF TokenInv, TypeOK, UsesInv
  <2>2. QED
    BY <2>1, SettingFinite
<1>4. QED
  BY <1>1, <1>2, <1>3, TokensCorrect, PasswordResetConstants, PTL DEF Spec

-----------------------------------------------------------------------------
(* The history.                                                            *)

(* A short list of passwords, none of them twice.                          *)
GoodHistory(h) ==
    /\ Len(h) \in 1 .. Keep
    /\ \A i, j \in DOMAIN h : h[i] = h[j] => i = j

(* h ends with the passwords that were set one after the other, each by a  *)
(* call that knew of the one before it.                                    *)
Window(h) ==
    \A i \in 1 .. Len(past) :
        /\ Len(past) - i < Keep
        /\ \A k \in i + 1 .. Len(past) : InSequence(k)
        => Len(past) - i < Len(h) /\ h[Len(h) - (Len(past) - i)] = past[i].password

(* What a reset has read is a history of the row; it is the row's own if no*)
(* password has been set since.                                            *)
CallHistory(p) ==
    /\ GoodHistory(call[p].lastUserPassword)
    /\ ~InHistory(call[p].newPassword, call[p].lastUserPassword)
    /\ call[p].seen <= Len(past)
    /\ call[p].seen = Len(past) => call[p].lastUserPassword = user.lastUserPassword

HistoryInv ==
    /\ Len(past) > 0
    /\ GoodHistory(user.lastUserPassword)
    /\ user.lastUserPassword[Len(user.lastUserPassword)] = past[Len(past)].password
    /\ Window(user.lastUserPassword)
    /\ \A p \in Calls : At(p, "set") => CallHistory(p)
    /\ DifferentFromLast

LEMMA InitHistory == PasswordResetConstants /\ Init => HistoryInv
<1> SUFFICES ASSUME PasswordResetConstants, Init
             PROVE  HistoryInv
  OBVIOUS
<1>1. PICK w \in Passwords :
          /\ user.lastUserPassword = <<w>>
          /\ past = << [password |-> w, seen |-> 0] >>
  BY DEF Init
<1>2. Keep >= 1 /\ Keep \in Nat
  BY DEF PasswordResetConstants
<1>3. GoodHistory(user.lastUserPassword)
  BY <1>1, <1>2 DEF GoodHistory
<1>4. /\ Len(past) > 0 /\ DifferentFromLast
      /\ user.lastUserPassword[Len(user.lastUserPassword)] = past[Len(past)].password
  BY <1>1 DEF DifferentFromLast
<1>5. Window(user.lastUserPassword)
  BY <1>1 DEF Window
<1>6. \A p \in Calls : ~At(p, "set")
  BY DEF Init, At, Idle
<1>7. QED
  BY <1>3, <1>4, <1>5, <1>6 DEF HistoryInv

(* A step that neither sets a password nor starts to.                      *)
LEMMA OtherHistory ==
    ASSUME TokenInv, HistoryInv, UNCHANGED past,
           user'.lastUserPassword = user.lastUserPassword,
           \A p \in Calls : call'[p].pc = "set" => call'[p] = call[p]
    PROVE  HistoryInv'
<1>1. ASSUME NEW p \in Calls, At(p, "set")'
      PROVE  CallHistory(p)'
  <2>1. call'[p] = call[p] /\ CallHistory(p)
    BY <1>1 DEF At, HistoryInv
  <2>2. QED
    BY <2>1 DEF CallHistory
<1>2. Window(user.lastUserPassword)' /\ DifferentFromLast'
  BY DEF HistoryInv, Window, DifferentFromLast, InSequence
<1>3. QED
  BY <1>1, <1>2 DEF HistoryInv

LEMMA ResetHistory ==
    ASSUME TokenInv, HistoryInv, NEW p \in Calls, ResetPassword(p)
    PROVE  HistoryInv'
<1>1. PICK t \in known, w \in Passwords : IsNew(w) /\ Become(p, Setting(t, w))
  BY DEF ResetPassword
<1>2. call'[p] = Setting(t, w) /\ \A q \in Calls : q # p => call'[q] = call[q]
  BY <1>1 DEF TokenInv, TypeOK, Become
<1>3. UNCHANGED <<user, past>>
  BY DEF ResetPassword
<1>4. CallHistory(p)'
  BY <1>1, <1>2, <1>3 DEF CallHistory, Setting, IsNew, HistoryInv, TokenInv, TypeOK
<1>5. ASSUME NEW q \in Calls, q # p, At(q, "set")'
      PROVE  CallHistory(q)'
  <2>1. call'[q] = call[q] /\ CallHistory(q)
    BY <1>2, <1>5 DEF At, HistoryInv
  <2>2. QED
    BY <1>3, <2>1 DEF CallHistory
<1>6. Window(user.lastUserPassword)' /\ DifferentFromLast'
  BY <1>3 DEF HistoryInv, Window, DifferentFromLast, InSequence
<1>7. QED
  BY <1>3, <1>4, <1>5, <1>6 DEF HistoryInv

(* The step that sets a password: the new history is the end of the one    *)
(* that was read, with the new password after it.                          *)
LEMMA SetHistory ==
    ASSUME PasswordResetConstants, TokenInv, HistoryInv, NEW p \in Calls, SetPassword(p)
    PROVE  HistoryInv'
<1>1. PICK h \in Seq(Passwords), w \in Passwords :
          /\ h = call[p].lastUserPassword /\ w = call[p].newPassword
          /\ call[p].seen \in Nat
  BY DEF TokenInv, TypeOK, CallTokens, CallState, SetPassword, At
<1>2. /\ GoodHistory(h) /\ ~InHistory(w, h)
      /\ call[p].seen <= Len(past)
      /\ call[p].seen = Len(past) => h = user.lastUserPassword
  BY <1>1 DEF HistoryInv, CallHistory, SetPassword
<1>3. PICK n \in Seq(Passwords) : n = LastOnes(Append(h, w))
  BY <1>1, NextHistory
<1>4. PICK m \in Nat : m = IF Len(h) + 1 > Keep THEN Keep ELSE Len(h) + 1
  BY DEF PasswordResetConstants
<1>5. Len(n) = m /\ n[m] = w /\ \A i \in 1 .. m - 1 : n[i] = h[Len(h) + 1 - m + i]
  BY <1>3, <1>4, NextHistory
<1>6. m \in 1 .. Keep /\ m <= Len(h) + 1 /\ Keep \in Nat /\ Len(h) \in Nat
  BY <1>4 DEF PasswordResetConstants
<1>7. PICK L \in Nat : L = Len(past)
  BY DEF TokenInv, TypeOK
<1>8. /\ user'.lastUserPassword = n
      /\ Len(past') = L + 1
      /\ past'[L + 1].password = w /\ past'[L + 1].seen = call[p].seen
      /\ \A i \in 1 .. L : past'[i] = past[i]
  BY <1>1, <1>3, <1>7 DEF SetPassword, TokenInv, TypeOK
<1>9. GoodHistory(n)
  <2>1. ASSUME NEW i \in 1 .. m - 1
        PROVE  n[i] # w
    <3>1. Len(h) + 1 - m + i \in 1 .. Len(h)
      BY <1>6
    <3>2. QED
      BY <1>2, <1>5, <3>1 DEF InHistory
  <2>2. ASSUME NEW i \in 1 .. m - 1, NEW j \in 1 .. m - 1, n[i] = n[j]
        PROVE  i = j
    <3>1. Len(h) + 1 - m + i \in 1 .. Len(h) /\ Len(h) + 1 - m + j \in 1 .. Len(h)
      BY <1>6
    <3>2. h[Len(h) + 1 - m + i] = h[Len(h) + 1 - m + j]
      BY <1>5, <2>2
    <3>3. \A a, b \in 1 .. Len(h) : h[a] = h[b] => a = b
      BY <1>2 DEF GoodHistory
    <3>4. Len(h) + 1 - m + i = Len(h) + 1 - m + j
      BY <3>1, <3>2, <3>3, Zenon
    <3>5. QED
      BY <1>6, <3>4
  <2>3. DOMAIN n = 1 .. m /\ \A i \in 1 .. m : i \in 1 .. m - 1 \/ i = m
    BY <1>5, <1>6
  <2>4. ASSUME NEW i \in DOMAIN n, NEW j \in DOMAIN n, n[i] = n[j]
        PROVE  i = j
    BY <1>5, <2>1, <2>2, <2>3, <2>4
  <2>5. QED
    BY <1>5, <1>6, <2>4 DEF GoodHistory
<1>10. ASSUME \A k \in L + 1 .. L + 1 : InSequence(k)'
       PROVE  h = user.lastUserPassword
  <2>1. InSequence(L + 1)'
    BY <1>10
  <2>2. QED
    BY <1>2, <1>7, <1>8, <2>1 DEF InSequence
<1>11. ASSUME NEW i \in 1 .. L, L - i < Keep,
              \A k \in i + 1 .. L + 1 : InSequence(k)'
       PROVE  /\ L - i < Len(h) /\ h[Len(h) - (L - i)] = past[i].password
              /\ Window(h)
  <2>1. \A k \in i + 1 .. L : InSequence(k)
    BY <1>8, <1>11 DEF InSequence
  <2>2. h = user.lastUserPassword
    BY <1>10, <1>11
  <2>3. Window(h)
    BY <2>2 DEF HistoryInv
  <2>4. QED
    BY <1>7, <1>11, <2>1, <2>3 DEF Window
<1>12. Window(n)'
  <2>1. ASSUME NEW i \in 1 .. L + 1, L + 1 - i < Keep,
               \A k \in i + 1 .. L + 1 : InSequence(k)'
        PROVE  L + 1 - i < Len(n) /\ n[Len(n) - (L + 1 - i)] = past'[i].password
    <3>1. CASE i = L + 1
      <4>1. L + 1 - i = 0 /\ m - (L + 1 - i) = m
        BY <3>1
      <4>2. QED
        BY <1>5, <1>6, <1>8, <3>1, <4>1
    <3>2. CASE i \in 1 .. L
      <4>0. L - i < Keep
        BY <1>6, <2>1, <3>2
      <4>1. L - i < Len(h) /\ h[Len(h) - (L - i)] = past[i].password
        BY <1>11, <2>1, <3>2, <4>0, Zenon
      <4>2. L + 1 - i < m /\ m - (L + 1 - i) \in 1 .. m - 1
        BY <1>4, <1>6, <2>1, <3>2, <4>1
      <4>3. Len(h) + 1 - m + (m - (L + 1 - i)) = Len(h) - (L - i)
        BY <1>6, <3>2
      <4>4. n[m - (L + 1 - i)] = h[Len(h) - (L - i)]
        BY <1>5, <4>2, <4>3
      <4>5. QED
        BY <1>5, <1>8, <3>2, <4>1, <4>2, <4>4
    <3>3. QED
      BY <3>1, <3>2
  <2>2. QED
    BY <1>8, <2>1 DEF Window
<1>13. DifferentFromLast'
  <2>1. DOMAIN past = 1 .. L /\ DOMAIN past' = 1 .. L + 1
    BY <1>7, <1>8 DEF TokenInv, TypeOK, SetPassword
  <2>2. ASSUME NEW i \in 1 .. L + 1, NEW j \in 1 .. L + 1, i < j, j - i <= Keep,
               \A k \in i + 1 .. j : InSequence(k)'
        PROVE  past'[i].password # past'[j].password
    <3>1. CASE j \in 1 .. L
      <4>1. \A k \in i + 1 .. j : InSequence(k)
        BY <1>8, <2>2, <3>1 DEF InSequence
      <4>2. i \in 1 .. L
        BY <2>2, <3>1
      <4>3. QED
        BY <1>8, <2>1, <2>2, <3>1, <4>1, <4>2 DEF HistoryInv, DifferentFromLast
    <3>2. CASE j = L + 1
      <4>1. i \in 1 .. L /\ L - i < Keep
        BY <1>6, <2>2, <3>2
      <4>2. L - i < Len(h) /\ h[Len(h) - (L - i)] = past[i].password
        BY <1>11, <2>2, <3>2, <4>1
      <4>3. Len(h) - (L - i) \in DOMAIN h
        BY <1>6, <4>1, <4>2
      <4>4. QED
        BY <1>2, <1>8, <3>2, <4>1, <4>2, <4>3 DEF InHistory
    <3>3. QED
      BY <3>1, <3>2
  <2>3. QED
    BY <2>1, <2>2 DEF DifferentFromLast
<1>14. ASSUME NEW q \in Calls, At(q, "set")'
       PROVE  CallHistory(q)'
  <2>1. call'[q] = call[q] /\ At(q, "set")
    BY <1>14 DEF SetPassword, Become, Idle, At, TokenInv, TypeOK
  <2>2. CallHistory(q) /\ call[q].seen \in Nat
    BY <2>1 DEF HistoryInv, TokenInv, TypeOK, CallState
  <2>3. call[q].seen <= L + 1 /\ call[q].seen # L + 1
    BY <1>7, <2>2 DEF CallHistory
  <2>4. QED
    BY <1>8, <2>1, <2>2, <2>3 DEF CallHistory
<1>15. QED
  BY <1>5, <1>6, <1>7, <1>8, <1>9, <1>12, <1>13, <1>14 DEF HistoryInv

LEMMA HistoryCorrect == Spec => []HistoryInv
<1>1. PasswordResetConstants /\ TokenInv /\ HistoryInv /\ [Next]_vars => HistoryInv'
  <2> SUFFICES ASSUME PasswordResetConstants, TokenInv, HistoryInv, [Next]_vars
               PROVE  HistoryInv'
    OBVIOUS
  <2>1. ASSUME NEW p \in Calls,
               \/ ForgotPassword(p) \/ GeneratePasswordResetToken(p) \/ LoginExpired(p)
               \/ HandOver(p) \/ Abort(p) \/ StoreToken(p)
        PROVE  HistoryInv'
    <3>1. past' = past /\ user'.lastUserPassword = user.lastUserPassword
      BY <2>1 DEF ForgotPassword, GeneratePasswordResetToken, LoginExpired, Mint,
         HandOver, Abort, StoreToken, TokenInv, TypeOK, UserRow
    <3>2. QED
      BY <2>1, <3>1, NoNewReset, OtherHistory
  <2>2. CASE LinkExpires \/ PasswordExpires \/ UNCHANGED vars
    <3>1. /\ past' = past /\ call' = call
          /\ user'.lastUserPassword = user.lastUserPassword
      BY <2>2 DEF LinkExpires, PasswordExpires, vars, TokenInv, TypeOK, UserRow
    <3>2. QED
      BY <3>1, OtherHistory
  <2>3. QED
    BY <2>1, <2>2, ResetHistory, SetHistory DEF Next
<1>2. QED
  BY <1>1, InitHistory, TokensCorrect, PasswordResetConstants, PTL DEF Spec

(* The history is short, without repetition, and ends with the password in *)
(* force, however many resets overlap.                                     *)
THEOREM HistoryIsSound == Spec => []HistorySound
<1>1. HistoryInv => HistorySound
  BY DEF HistoryInv, HistorySound, GoodHistory
<1>2. QED
  BY <1>1, HistoryCorrect, PTL

(* Resets that know of each other give a password that differs from the    *)
(* ones before it, for a history of any length.                            *)
THEOREM LastPasswordsDiffer == Spec => []DifferentFromLast
<1>1. HistoryInv => DifferentFromLast
  BY DEF HistoryInv
<1>2. QED
  BY <1>1, HistoryCorrect, PTL
=============================================================================
