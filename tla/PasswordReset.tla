---------------------------- MODULE PasswordReset -----------------------------
(***************************************************************************)
(* AuthService: the links that let one user set a new password, and the    *)
(* password history.  Any number of calls is at work at a time; each reads *)
(* the user's row once and later updates it by id.                         *)
(*                                                                         *)
(* These columns of the row are disjoint from those of Account.  A token   *)
(* stands for its hash too, a password for its hash: both are only ever    *)
(* compared.  The two dates of the row are kept as what is asked of them.  *)
(***************************************************************************)
EXTENDS Integers, Sequences, FiniteSets

CONSTANTS
    Calls, Tokens, Passwords, None,
    Keep,         \* how many passwords the history holds
    MaxResets     \* bound: how often the password is set

ASSUME PasswordResetConstants ==
    /\ IsFiniteSet(Calls)
    /\ None \notin Tokens \cup Passwords
    /\ Keep \in Nat \ {0} /\ MaxResets \in Nat

VARIABLES
    user,      \* the columns of the Users row
    call,      \* call[p]: the locals of a request
    minted,    \* the tokens generated so far: 32 random bytes, never twice
    known,     \* those that were mailed or returned to a caller
    uses,      \* history: how often token t has set a password
    past       \* history: the passwords that have been in force, in order

vars == <<user, call, minted, known, uses, past>>

UserRow == [lastUserPassword : Seq(Passwords), passwordResetToken : Tokens \cup {None},
            linkValid : BOOLEAN, passwordExpired : BOOLEAN]

Steps == {"idle", "store", "mail", "return", "set"}

(* "seen", of a call and of a password in force, is a history component:   *)
(* how many passwords had been in force when the call read the row.        *)
CallState == [pc : Steps, mails : BOOLEAN, token : Tokens \cup {None},
              newPassword : Passwords \cup {None}, lastUserPassword : Seq(Passwords),
              seen : Nat]
PastRow == [password : Passwords, seen : Nat]

Idle == [pc |-> "idle", mails |-> FALSE, token |-> None, newPassword |-> None,
         lastUserPassword |-> <<>>, seen |-> 0]
Storing(t, mails) ==
    [pc |-> "store", mails |-> mails, token |-> t, newPassword |-> None,
     lastUserPassword |-> <<>>, seen |-> 0]
Setting(t, w) ==
    [pc |-> "set", mails |-> FALSE, token |-> t, newPassword |-> w,
     lastUserPassword |-> user.lastUserPassword, seen |-> Len(past)]

(* Every variable keeps its type.  In particular the history never grows   *)
(* beyond its limit.                                                       *)
TypeOK ==
    /\ user \in UserRow
    /\ Len(user.lastUserPassword) <= Keep
    /\ call \in [Calls -> CallState]
    /\ minted \subseteq Tokens
    /\ known \subseteq minted
    /\ uses \in [Tokens -> Nat]
    /\ past \in Seq(PastRow)

(* inviteUsers has created the user with a generated password.             *)
Init ==
    /\ \E w \in Passwords :
          /\ user = [lastUserPassword |-> <<w>>, passwordResetToken |-> None,
                     linkValid |-> FALSE, passwordExpired |-> FALSE]
          /\ past = << [password |-> w, seen |-> 0] >>
    /\ call = [p \in Calls |-> Idle]
    /\ minted = {} /\ known = {}
    /\ uses = [t \in Tokens |-> 0]

-----------------------------------------------------------------------------

At(p, step) == call[p].pc = step
Become(p, state) == call' = [call EXCEPT ![p] = state]
InHistory(w, history) == \E i \in DOMAIN history : history[i] = w

-----------------------------------------------------------------------------
(* Issuing a token.  A call that only throws changes nothing and is not a  *)
(* step; an unknown address is answered like a known one.                  *)

Mint(p, mails) ==
    /\ At(p, "idle")
    /\ \E t \in Tokens \ minted :
          /\ minted' = minted \cup {t}
          /\ Become(p, Storing(t, mails))
    /\ UNCHANGED <<user, known, uses, past>>

ForgotPassword(p) == Mint(p, TRUE)

GeneratePasswordResetToken(p) == Mint(p, FALSE)

(* login, with the right password, when that password has expired.         *)
LoginExpired(p) == user.passwordExpired /\ Mint(p, FALSE)

(* createPasswordResetToken: by id, over whatever token is there.          *)
StoreToken(p) ==
    /\ At(p, "store")
    /\ user' = [user EXCEPT !.passwordResetToken = call[p].token, !.linkValid = TRUE]
    /\ Become(p, [call[p] EXCEPT !.pc = IF call[p].mails THEN "mail" ELSE "return"])
    /\ UNCHANGED <<minted, known, uses, past>>

(* The mail, or the answer, with the token arrives.                        *)
HandOver(p) ==
    /\ call[p].pc \in {"mail", "return"}
    /\ known' = known \cup {call[p].token}
    /\ Become(p, Idle)
    /\ UNCHANGED <<user, minted, uses, past>>

-----------------------------------------------------------------------------
(* resetPassword.                                                          *)

(* The row is found by its token.  Mutant: only the expiry is looked at.   *)
AnyKnown(t) == user.linkValid
Accepted(t) == user.passwordResetToken = t /\ user.linkValid

(* Mutant: only the current password is refused.                           *)
OnlyLast(w) == w # user.lastUserPassword[Len(user.lastUserPassword)]
IsNew(w) == ~InHistory(w, user.lastUserPassword)

ResetPassword(p) ==
    /\ At(p, "idle")
    /\ \E t \in known, w \in Passwords :
          /\ Accepted(t) /\ IsNew(w)
          /\ Become(p, Setting(t, w))
    /\ UNCHANGED <<user, minted, known, uses, past>>

(* The last passwords of a history.  Mutant: the first ones.               *)
FirstOnes(history) ==
    SubSeq(history, 1, IF Len(history) > Keep THEN Keep ELSE Len(history))
LastOnes(history) ==
    SubSeq(history, IF Len(history) > Keep THEN Len(history) - Keep + 1 ELSE 1,
           Len(history))

(* Mutant: the link that was used is written back.                         *)
WriteBack(p) == call[p].token
AfterUse(p) == None

(* The hash is ready: the update goes by id, with the history that was     *)
(* read, and does not look at the token again.                             *)
SetPassword(p) ==
    LET w == call[p].newPassword
        t == call[p].token
    IN
    /\ At(p, "set")
    /\ Len(past) <= MaxResets
    /\ user' = [lastUserPassword |-> LastOnes(Append(call[p].lastUserPassword, w)),
                passwordResetToken |-> AfterUse(p), linkValid |-> FALSE,
                passwordExpired |-> FALSE]
    /\ uses' = [uses EXCEPT ![t] = @ + 1]
    /\ past' = Append(past, [password |-> w, seen |-> call[p].seen])
    /\ Become(p, Idle)
    /\ UNCHANGED <<minted, known>>

-----------------------------------------------------------------------------

(* Fifteen minutes go by, or ninety days, each since a date of its own.    *)
LinkExpires ==
    /\ user.linkValid
    /\ user' = [user EXCEPT !.linkValid = FALSE]
    /\ UNCHANGED <<call, minted, known, uses, past>>

PasswordExpires ==
    /\ ~user.passwordExpired
    /\ user' = [user EXCEPT !.passwordExpired = TRUE]
    /\ UNCHANGED <<call, minted, known, uses, past>>

(* The process dies, or a statement or the mail server throws.             *)
Abort(p) ==
    /\ ~At(p, "idle")
    /\ Become(p, Idle)
    /\ UNCHANGED <<user, minted, known, uses, past>>

Next ==
    \/ \E p \in Calls :
          \/ ForgotPassword(p) \/ GeneratePasswordResetToken(p) \/ LoginExpired(p)
          \/ StoreToken(p) \/ HandOver(p) \/ ResetPassword(p) \/ SetPassword(p)
          \/ Abort(p)
    \/ LinkExpires \/ PasswordExpires

Spec == Init /\ [][Next]_vars

-----------------------------------------------------------------------------

(* A link sets a password once, or at most once for every call at work: a  *)
(* second reset succeeds only if it had read the row before the first one  *)
(* was written, and no later call repeats it.                              *)
LinkUses == \A t \in Tokens : uses[t] <= Cardinality(Calls)

(* The history is short, has no password twice, and ends with the one that *)
(* is in force, whichever of several overlapping resets was written last.  *)
HistorySound ==
    LET history == user.lastUserPassword IN
    /\ Len(history) \in 1 .. Keep
    /\ \A i, j \in DOMAIN history : history[i] = history[j] => i = j
    /\ history[Len(history)] = past[Len(past)].password

(* "New password must be different from your last 3 previous passwords":   *)
(* so it is, as long as each of the resets in question had read the row    *)
(* that the one before it has written.                                     *)
InSequence(k) == past[k].seen = k - 1
DifferentFromLast ==
    \A i, j \in DOMAIN past :
        /\ i < j /\ j - i <= Keep
        /\ \A k \in i + 1 .. j : InSequence(k)
        => past[i].password # past[j].password

(* A link that was used, or replaced by a newer one, never works again,    *)
(* whatever a reset that had read it before still writes.                  *)
LinkStaysDead ==
    [][\A t \in known : user.passwordResetToken # t => user'.passwordResetToken # t]_vars
=============================================================================
