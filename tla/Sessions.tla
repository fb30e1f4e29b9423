------------------------------ MODULE Sessions ------------------------------
(***************************************************************************)
(* Accounts, one-time codes, refresh tokens, suspension and roles          *)
(* (src/src/auth, the account actions of src/src/admin, src/src/common/    *)
(* guards).                                                                *)
(*                                                                         *)
(* As in Escrow, a request is a sequence of awaits and requests interleave *)
(* at every await; pc names the database call a request is about to make.  *)
(* A person is a phone number (User.phone is unique and never edited) with *)
(* an e-mail address nobody else uses.  An access token needs no state: on *)
(* every request JwtStrategy and RolesGuard read the account afresh; they  *)
(* are part of the first step of the request.                              *)
(***************************************************************************)
EXTENDS Naturals, FiniteSets

CONSTANTS
    People,        \* phone numbers
    Founders,      \* accounts in the database with isAdmin and role "user"
    Handlers,      \* concurrent requests
    MaxCodes,      \* OtpCode rows (a bound)
    MaxTokens,     \* RefreshToken rows (a bound)
    MaxResets,     \* password changes of an account (a bound)
    MaxSeconds,    \* seconds of the clock (a bound)
    None

Codes  == 1 .. MaxCodes
Tokens == 1 .. MaxTokens
Roles  == {"user", "moderator", "admin"}

ASSUME SessionsAssumption ==
    /\ Founders \subseteq People
    /\ None \notin People
    /\ MaxCodes \in Nat /\ MaxTokens \in Nat
    /\ MaxResets \in Nat /\ MaxSeconds \in Nat

VARIABLES
    (* the database *)
    account,     \* people with a User row
    email,       \* those whose row has an e-mail
    password,    \* version of User.passwordHash, 0 when it is null
    suspended,   \* people whose row is suspended
    role,        \* User.role
    isAdmin,     \* people whose row has isAdmin
    codePhone,   \* OtpCode.phone
    codeState,   \* "absent", "fresh", "consumed" or "expired"
    tokenUser,   \* RefreshToken.userId
    tokenStamp,  \* with the user, all that RefreshToken.tokenHash depends on
    tokenState,  \* "absent", "live" or "revoked"
    tokenBasis,  \* version of the password when the session was opened
    (* the requests *)
    pc,          \* the call a request is about to make
    who,         \* the account it is about
    item,        \* the code or token row it works on, 0 for none
    basis,       \* version of the password it read, or its token's basis
    (* the world *)
    now          \* the second in which the last token was signed

accountVars == <<account, email, password, suspended, role, isAdmin>>
codeVars    == <<codePhone, codeState>>
tokenVars   == <<tokenUser, tokenStamp, tokenState, tokenBasis>>
requestVars == <<pc, who, item, basis>>
vars == <<accountVars, codeVars, tokenVars, requestVars, now>>

PcValues == {"idle", "createCode", "consumeCode", "findUser", "createUser", "register",
             "findResetCode", "consumeResetCode", "setPassword", "revokeOld",
             "rotate", "issue", "suspend", "revokeSuspended"}

Init ==
    /\ account = Founders
    /\ email = {}
    /\ password = [u \in People |-> 0]
    /\ suspended = {}
    /\ role = [u \in People |-> "user"]
    /\ isAdmin = Founders
    /\ codePhone = [i \in Codes |-> None]
    /\ codeState = [i \in Codes |-> "absent"]
    /\ tokenUser = [t \in Tokens |-> None]
    /\ tokenStamp = [t \in Tokens |-> 0]
    /\ tokenState = [t \in Tokens |-> "absent"]
    /\ tokenBasis = [t \in Tokens |-> 0]
    /\ pc = [r \in Handlers |-> "idle"]
    /\ who = [r \in Handlers |-> None]
    /\ item = [r \in Handlers |-> 0]
    /\ basis = [r \in Handlers |-> 0]
    /\ now = 0

-----------------------------------------------------------------------------
(* Control flow of a request.                                              *)

Begin(r, u, i, s) ==
    /\ pc[r] = "idle"
    /\ pc' = [pc EXCEPT ![r] = s]
    /\ who' = [who EXCEPT ![r] = u]
    /\ item' = [item EXCEPT ![r] = i]

Step(r, s, t) ==
    /\ pc[r] = s
    /\ pc' = [pc EXCEPT ![r] = t]
    /\ UNCHANGED <<who, item>>

\* The request is over; what it knew is forgotten.
Forget(r) ==
    /\ pc' = [pc EXCEPT ![r] = "idle"]
    /\ who' = [who EXCEPT ![r] = None]
    /\ item' = [item EXCEPT ![r] = 0]
    /\ basis' = [basis EXCEPT ![r] = 0]

\* RolesGuard's effective role.
EffectiveRole(u) == IF u \in isAdmin THEN "admin" ELSE role[u]

\* The people JwtStrategy and RolesGuard let through to a moderator's route,
\* and to an administrator's.
Moderators == {a \in account \ suspended : EffectiveRole(a) \in {"moderator", "admin"}}
Administrators == {a \in account \ suspended : EffectiveRole(a) = "admin"}

-----------------------------------------------------------------------------
(* One-time codes and first login.                                         *)

\* otpCode.create, by the next free row.
NewCode(u) ==
    \E i \in Codes :
       /\ codeState[i] = "absent"
       /\ \A j \in Codes : j < i => codeState[j] # "absent"
       /\ codeState' = [codeState EXCEPT ![i] = "fresh"]
       /\ codePhone' = [codePhone EXCEPT ![i] = u]

\* POST /auth/otp/request: for any phone number, no account is needed.
RequestOtp(u) ==
    /\ NewCode(u)
    /\ UNCHANGED <<accountVars, tokenVars, requestVars, now>>

\* (mutation) A code is accepted although it is consumed.
VerifyOtpConsumed(r, i) ==
    /\ codeState[i] \in {"fresh", "consumed"}
    /\ Begin(r, codePhone[i], i, "consumeCode")
    /\ UNCHANGED <<basis, accountVars, codeVars, tokenVars, now>>

\* POST /auth/otp/verify: finds the code, not consumed and not expired.
VerifyOtp(r, i) ==
    /\ codeState[i] = "fresh"
    /\ Begin(r, codePhone[i], i, "consumeCode")
    /\ UNCHANGED <<basis, accountVars, codeVars, tokenVars, now>>

\* otpCode.update: the row becomes consumed whatever happened to it since.
ConsumeCode(r) ==
    /\ \/ Step(r, "consumeCode", "findUser")
       \/ Step(r, "consumeResetCode", "setPassword")
    /\ codeState' = [codeState EXCEPT ![item[r]] = "consumed"]
    /\ UNCHANGED <<basis, codePhone, accountVars, tokenVars, now>>

\* (mutation) An unknown phone gets a session and no account.
FindUserNotCreated(r) ==
    /\ Step(r, "findUser", "issue")
    /\ who[r] \notin suspended
    /\ basis' = [basis EXCEPT ![r] = password[who[r]]]
    /\ UNCHANGED <<accountVars, codeVars, tokenVars, now>>

\* user.findUnique, and assertNotSuspended on what it found.
FindUser(r) ==
    LET u == who[r] IN
    /\ \/ /\ Step(r, "findUser", "createUser")
          /\ u \notin account
          /\ UNCHANGED basis
       \/ /\ Step(r, "findUser", "issue")
          /\ u \in account \ suspended
          /\ basis' = [basis EXCEPT ![r] = password[u]]
       \/ /\ pc[r] = "findUser"
          /\ u \in account \cap suspended
          /\ Forget(r)
    /\ UNCHANGED <<accountVars, codeVars, tokenVars, now>>

\* user.create at the first login; phone is unique, so the second of two
\* first logins ends with a constraint error and a code already consumed.
CreateUser(r) ==
    /\ \/ /\ Step(r, "createUser", "issue")
          /\ who[r] \notin account
          /\ account' = account \cup {who[r]}
          /\ UNCHANGED basis
       \/ /\ pc[r] = "createUser"
          /\ who[r] \in account
          /\ Forget(r)
          /\ UNCHANGED account
    /\ UNCHANGED <<email, password, suspended, role, isAdmin, codeVars, tokenVars, now>>

-----------------------------------------------------------------------------
(* Registration, login and profile.                                        *)

\* POST /auth/register: neither the phone nor the e-mail is taken.
Register(r, u) ==
    /\ u \notin account
    /\ Begin(r, u, 0, "register")
    /\ UNCHANGED <<basis, accountVars, codeVars, tokenVars, now>>

\* (mutation) An upsert: the second registration overwrites the first.
CreateRegisteredUpsert(r) ==
    LET u == who[r] IN
    /\ Step(r, "register", "issue")
    /\ account' = account \cup {u}
    /\ email' = email \cup {u}
    /\ password' = [password EXCEPT ![u] = @ + 1]
    /\ basis' = [basis EXCEPT ![r] = password[u] + 1]
    /\ UNCHANGED <<suspended, role, isAdmin, codeVars, tokenVars, now>>

\* user.create with e-mail and password, or the constraint error.
CreateRegistered(r) ==
    LET u == who[r] IN
    /\ \/ /\ Step(r, "register", "issue")
          /\ u \notin account
          /\ account' = account \cup {u}
          /\ email' = email \cup {u}
          /\ password' = [password EXCEPT ![u] = 1]
          /\ basis' = [basis EXCEPT ![r] = 1]
       \/ /\ pc[r] = "register"
          /\ u \in account
          /\ Forget(r)
          /\ UNCHANGED <<account, email, password>>
    /\ UNCHANGED <<suspended, role, isAdmin, codeVars, tokenVars, now>>

\* (mutation) assertNotSuspended forgotten.
LoginSuspended(r, u) ==
    /\ u \in account \cap email
    /\ password[u] # 0
    /\ Begin(r, u, 0, "issue")
    /\ basis' = [basis EXCEPT ![r] = password[u]]
    /\ UNCHANGED <<accountVars, codeVars, tokenVars, now>>

\* POST /auth/login with the right password: one read of the account, whose
\* hash and suspension are both judged on that copy.
Login(r, u) ==
    /\ u \in account \cap email
    /\ password[u] # 0
    /\ u \notin suspended
    /\ Begin(r, u, 0, "issue")
    /\ basis' = [basis EXCEPT ![r] = password[u]]
    /\ UNCHANGED <<accountVars, codeVars, tokenVars, now>>

\* PATCH /users/me gives an account created by OTP its e-mail.
UpdateMe(u) ==
    /\ u \in account \ suspended
    /\ email' = email \cup {u}
    /\ UNCHANGED <<account, password, suspended, role, isAdmin, codeVars, tokenVars,
                   requestVars, now>>

-----------------------------------------------------------------------------
(* Forgotten password.                                                     *)

\* POST /auth/reset-password/request, its read.
RequestPasswordReset(r, u) ==
    /\ u \in account \cap email
    /\ u \notin suspended
    /\ Begin(r, u, 0, "createCode")
    /\ UNCHANGED <<basis, accountVars, codeVars, tokenVars, now>>

CreateResetCode(r) ==
    /\ pc[r] = "createCode"
    /\ NewCode(who[r])
    /\ Forget(r)
    /\ UNCHANGED <<accountVars, tokenVars, now>>

\* POST /auth/reset-password/confirm, its first read.
ConfirmPasswordReset(r, u) ==
    /\ u \in account \cap email
    /\ u \notin suspended
    /\ Begin(r, u, 0, "findResetCode")
    /\ UNCHANGED <<basis, accountVars, codeVars, tokenVars, now>>

\* Its second read: any fresh code of that phone, a login code as well.
FindResetCode(r) ==
    /\ \/ \E i \in Codes :
             /\ pc[r] = "findResetCode"
             /\ codeState[i] = "fresh" /\ codePhone[i] = who[r]
             /\ pc' = [pc EXCEPT ![r] = "consumeResetCode"]
             /\ item' = [item EXCEPT ![r] = i]
             /\ UNCHANGED <<who, basis>>
       \/ pc[r] = "findResetCode" /\ Forget(r)
    /\ UNCHANGED <<accountVars, codeVars, tokenVars, now>>

\* user.update of the hash.
SetPassword(r) ==
    LET u == who[r] IN
    /\ Step(r, "setPassword", "revokeOld")
    /\ password[u] < MaxResets
    /\ password' = [password EXCEPT ![u] = @ + 1]
    /\ basis' = [basis EXCEPT ![r] = password[u] + 1]
    /\ UNCHANGED <<account, email, suspended, role, isAdmin, codeVars, tokenVars, now>>

\* revokeAllForUser, after a new password or a suspension: one updateMany.
RevokeAllForUser(r) ==
    /\ \/ Step(r, "revokeOld", "issue") /\ UNCHANGED basis
       \/ pc[r] = "revokeSuspended" /\ Forget(r)
    /\ tokenState' = [t \in Tokens |->
                        IF tokenUser[t] = who[r] /\ tokenState[t] = "live"
                        THEN "revoked" ELSE tokenState[t]]
    /\ UNCHANGED <<tokenUser, tokenStamp, tokenBasis, accountVars, codeVars, now>>

-----------------------------------------------------------------------------
(* Refresh tokens.                                                         *)

\* issueTokens: the signed token is a function of the user and the second.
\* Any number of seconds may have passed since the last one was signed.
IssueTokens(r) ==
    /\ pc[r] = "issue"
    /\ now' \in now .. MaxSeconds
    /\ \E t \in Tokens :
          /\ tokenState[t] = "absent"
          /\ \A v \in Tokens : v < t => tokenState[v] # "absent"
          /\ tokenState' = [tokenState EXCEPT ![t] = "live"]
          /\ tokenUser' = [tokenUser EXCEPT ![t] = who[r]]
          /\ tokenStamp' = [tokenStamp EXCEPT ![t] = now']
          /\ tokenBasis' = [tokenBasis EXCEPT ![t] = basis[r]]
    /\ Forget(r)
    /\ UNCHANGED <<accountVars, codeVars>>

\* POST /auth/refresh: finds a live row with the token's hash.  The account
\* itself is not read.  A token that expired is one nobody presents any more.
Refresh(r, t) ==
    /\ tokenState[t] = "live"
    /\ Begin(r, tokenUser[t], t, "rotate")
    /\ basis' = [basis EXCEPT ![r] = tokenBasis[t]]
    /\ UNCHANGED <<accountVars, codeVars, tokenVars, now>>

\* Rotation: that row is revoked, a new token is issued.
Rotate(r) ==
    /\ Step(r, "rotate", "issue")
    /\ tokenState' = [tokenState EXCEPT ![item[r]] = "revoked"]
    /\ UNCHANGED <<basis, tokenUser, tokenStamp, tokenBasis, accountVars, codeVars, now>>

-----------------------------------------------------------------------------
(* Moderation of accounts.                                                 *)

\* (mutation) The guard reads the role and not isAdmin.
SuspendUserByRole(r, u) ==
    /\ Moderators # {}
    /\ u \in account
    /\ role[u] = "user"
    /\ Begin(r, u, 0, "suspend")
    /\ UNCHANGED <<basis, accountVars, codeVars, tokenVars, now>>

\* POST /admin/users/:id/suspend: its guards and its read of u.
SuspendUser(r, u) ==
    /\ Moderators # {}
    /\ u \in account
    /\ EffectiveRole(u) = "user"
    /\ Begin(r, u, 0, "suspend")
    /\ UNCHANGED <<basis, accountVars, codeVars, tokenVars, now>>

\* (mutation) The sessions of the account are kept.
SuspendOnly(r) ==
    /\ pc[r] = "suspend"
    /\ Forget(r)
    /\ suspended' = suspended \cup {who[r]}
    /\ UNCHANGED <<account, email, password, role, isAdmin, codeVars, tokenVars, now>>

\* (mutation) A suspension written as a role.
SuspendAsRole(r) ==
    /\ Step(r, "suspend", "revokeSuspended")
    /\ role' = [role EXCEPT ![who[r]] = "suspended"]
    /\ UNCHANGED <<basis, account, email, password, suspended, isAdmin, codeVars, tokenVars, now>>

\* user.update; the tokens are revoked by a second call.
Suspend(r) ==
    /\ Step(r, "suspend", "revokeSuspended")
    /\ suspended' = suspended \cup {who[r]}
    /\ UNCHANGED <<basis, account, email, password, role, isAdmin, codeVars, tokenVars, now>>

\* POST /admin/users/:id/unsuspend.
UnsuspendUser(u) ==
    /\ Moderators # {}
    /\ u \in account
    /\ suspended' = suspended \ {u}
    /\ UNCHANGED <<account, email, password, role, isAdmin, codeVars, tokenVars,
                   requestVars, now>>

\* PATCH /admin/users/:id/role: both fields at once, suspended or not.
SetUserRole(u, x) ==
    /\ Administrators # {}
    /\ u \in account
    /\ role' = [role EXCEPT ![u] = x]
    /\ isAdmin' = IF x = "admin" THEN isAdmin \cup {u} ELSE isAdmin \ {u}
    /\ UNCHANGED <<account, email, password, suspended, codeVars, tokenVars,
                   requestVars, now>>

-----------------------------------------------------------------------------
(* Time and failures.                                                      *)

CodeExpires(i) ==
    /\ codeState[i] = "fresh"
    /\ codeState' = [codeState EXCEPT ![i] = "expired"]
    /\ UNCHANGED <<codePhone, accountVars, tokenVars, requestVars, now>>

\* A call throws or the server stops; a call that took effect and whose
\* answer is lost is that call's step followed by this one.
Throws(r) ==
    /\ pc[r] # "idle"
    /\ Forget(r)
    /\ UNCHANGED <<accountVars, codeVars, tokenVars, now>>

-----------------------------------------------------------------------------

\* A person or a moderator sends a request.
Arrival(r) ==
    \/ \E i \in Codes : VerifyOtp(r, i)
    \/ \E t \in Tokens : Refresh(r, t)
    \/ \E u \in People :
          \/ Register(r, u) \/ Login(r, u)
          \/ RequestPasswordReset(r, u) \/ ConfirmPasswordReset(r, u)
          \/ SuspendUser(r, u)

\* Request r makes its next call.
Advance(r) ==
    \/ ConsumeCode(r) \/ FindUser(r) \/ CreateUser(r) \/ CreateRegistered(r)
    \/ CreateResetCode(r) \/ FindResetCode(r) \/ SetPassword(r)
    \/ RevokeAllForUser(r) \/ IssueTokens(r) \/ Rotate(r) \/ Suspend(r)

\* Requests whose only effect is one write.
Atomic ==
    \E u \in People :
       \/ RequestOtp(u) \/ UpdateMe(u) \/ UnsuspendUser(u)
       \/ \E x \in Roles : SetUserRole(u, x)

World == \E i \in Codes : CodeExpires(i)

Calls == \E r \in Handlers : Arrival(r) \/ Advance(r)

Next ==
    \/ Calls
    \/ Atomic
    \/ World
    \/ \E r \in Handlers : Throws(r)

Spec == Init /\ [][Next]_vars

\* No request is being served.
Quiet == \A r \in Handlers : pc[r] = "idle"

-----------------------------------------------------------------------------
(* Properties.                                                             *)

TypeOK ==
    /\ account \in SUBSET People /\ email \in SUBSET People
    /\ suspended \in SUBSET People /\ isAdmin \in SUBSET People
    /\ password \in [People -> Nat]
    /\ role \in [People -> Roles]
    /\ codePhone \in [Codes -> People \cup {None}]
    /\ codeState \in [Codes -> {"absent", "fresh", "consumed", "expired"}]
    /\ tokenUser \in [Tokens -> People \cup {None}]
    /\ tokenStamp \in [Tokens -> 0 .. MaxSeconds]
    /\ tokenState \in [Tokens -> {"absent", "live", "revoked"}]
    /\ tokenBasis \in [Tokens -> Nat]
    /\ pc \in [Handlers -> PcValues]
    /\ who \in [Handlers -> People \cup {None}]
    /\ item \in [Handlers -> Codes \cup Tokens \cup {0}]
    /\ basis \in [Handlers -> Nat]
    /\ now \in 0 .. MaxSeconds

LiveTokens(u) == {t \in Tokens : tokenUser[t] = u /\ tokenState[t] = "live"}

\* Stages of a request that may still give its account a token without
\* looking at the suspension again.
Issuing == {"createUser", "register", "findResetCode", "consumeResetCode", "setPassword",
            "revokeOld", "rotate", "issue"}

\* Suspended, without a session and without a request that may open one.
CutOff(u) ==
    /\ u \in suspended
    /\ LiveTokens(u) = {}
    /\ \A r \in Handlers : who[r] = u => pc[r] \notin Issuing

(* Once a suspended account has been cut off it stays cut off until it is  *)
(* unsuspended: no login, code, reset or refresh opens a session for it.   *)
CutStaysCut ==
    [][\A u \in People : CutOff(u) /\ u \in suspended' => CutOff(u)']_vars

(* The password of an account that exists changes only by a reset that     *)
(* found one of that phone's codes; two concurrent registrations, or a     *)
(* registration and a first login by OTP, cannot overwrite one another.    *)
PasswordChangesOnlyByReset ==
    [][\A u \in account :
          password'[u] # password[u] =>
             \E r \in Handlers, i \in Codes :
                /\ pc[r] = "setPassword" /\ who[r] = u
                /\ item[r] = i /\ codePhone[i] = u /\ codeState[i] = "consumed"]_vars

(* Every session belongs to an account that exists, at most as recent as   *)
(* its password.                                                           *)
SessionsHaveAccounts ==
    \A t \in Tokens :
       tokenState[t] # "absent" =>
          tokenUser[t] \in account /\ tokenBasis[t] <= password[tokenUser[t]]

(* A suspension closes every session of the account.  True when requests   *)
(* do not overlap and none fails.                                          *)
SuspendedHasNoSession ==
    Quiet => \A u \in suspended : LiveTokens(u) = {}

(* A new password closes every session opened with an older one.  True     *)
(* under the same conditions.                                              *)
ResetClosesOldSessions ==
    Quiet => \A u \in People, t \in Tokens :
                t \in LiveTokens(u) => tokenBasis[t] = password[u]

\* Refresh accepts the signed token whose row is t.
Accepted(t) ==
    \E v \in Tokens :
       tokenUser[v] = tokenUser[t] /\ tokenStamp[v] = tokenStamp[t] /\ tokenState[v] = "live"

(* A refresh token that was revoked and is refused stays refused.          *)
RevokedStaysRevoked ==
    [][\A t \in Tokens : tokenState[t] = "revoked" /\ ~Accepted(t) => ~Accepted(t)']_vars

=============================================================================
