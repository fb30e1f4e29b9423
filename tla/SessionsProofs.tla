---------------------------- MODULE SessionsProofs ----------------------------
(***************************************************************************)
(* Theorems about Sessions and SessionsHistory, for any people, requests   *)
(* and bounds.                                                             *)
(*                                                                         *)
(* First what holds whatever overlaps and fails: a session belongs to an   *)
(* account, a password changes by a reset only, an account that was cut    *)
(* off stays cut off.                                                      *)
(*                                                                         *)
(* Then accounts whose handling was not disturbed: a suspension and a new  *)
(* password close the sessions they are meant to close, a credential       *)
(* serves once and only users are suspended. When requests follow one      *)
(* another without failure, no account is ever disturbed.                  *)
(***************************************************************************)
EXTENDS SessionsHistory, TLAPS

-----------------------------------------------------------------------------
(* The inductive invariant: what each await of a request may rely on when  *)
(* its turn comes.                                                         *)

\* What request r knows, from what it has read, of a database that others write.
Stage(r) ==
    /\ pc[r] # "idle" => who[r] \in People
    /\ pc[r] \in {"idle", "consumeCode", "findUser", "createUser"} => basis[r] = 0
    /\ pc[r] \in {"consumeCode", "consumeResetCode", "setPassword"} =>
          item[r] \in Codes /\ codePhone[item[r]] = who[r] /\ codeState[item[r]] # "absent"
    /\ pc[r] = "setPassword" => codeState[item[r]] = "consumed"
    /\ pc[r] = "rotate" =>
          item[r] \in Tokens /\ tokenUser[item[r]] = who[r] /\ tokenState[item[r]] # "absent"
    /\ pc[r] \in {"createCode", "findResetCode", "consumeResetCode", "setPassword", "revokeOld",
                  "rotate", "issue", "suspend", "revokeSuspended"} => who[r] \in account
    /\ pc[r] \in {"revokeOld", "rotate", "issue"} => basis[r] <= password[who[r]]

Stages == \A r \in Handlers : Stage(r)

CodesHavePhones == \A i \in Codes : codeState[i] # "absent" => codePhone[i] \in People

SuspendedExist == suspended \subseteq account

Sound == TypeOK /\ Stages /\ CodesHavePhones /\ SuspendedExist /\ SessionsHaveAccounts

\* What every step keeps of what a request has read: accounts and rows stay,
\* passwords only get newer, a used code stays used.
Forward ==
    /\ account \subseteq account'
    /\ \A u \in account : password[u] <= password'[u]
    /\ \A i \in Codes : codeState[i] # "absent" =>
          codeState'[i] # "absent" /\ codePhone'[i] = codePhone[i]
    /\ \A i \in Codes : codeState[i] = "consumed" => codeState'[i] = "consumed"
    /\ \A t \in Tokens : tokenState[t] # "absent" =>
          tokenState'[t] # "absent" /\ tokenUser'[t] = tokenUser[t]

SameRequest(r) == pc'[r] = pc[r] /\ who'[r] = who[r] /\ item'[r] = item[r] /\ basis'[r] = basis[r]

RequestTypeOK ==
    /\ pc \in [Handlers -> PcValues]
    /\ who \in [Handlers -> People \cup {None}]
    /\ item \in [Handlers -> Codes \cup Tokens \cup {0}]
    /\ basis \in [Handlers -> Nat]

AccountTypeOK ==
    /\ account \in SUBSET People /\ email \in SUBSET People
    /\ suspended \in SUBSET People /\ isAdmin \in SUBSET People
    /\ password \in [People -> Nat]
    /\ role \in [People -> Roles]

CodeTypeOK ==
    /\ codePhone \in [Codes -> People \cup {None}]
    /\ codeState \in [Codes -> {"absent", "fresh", "consumed", "expired"}]

TokenTypeOK ==
    /\ tokenUser \in [Tokens -> People \cup {None}]
    /\ tokenStamp \in [Tokens -> 0 .. MaxSeconds]
    /\ tokenState \in [Tokens -> {"absent", "live", "revoked"}]
    /\ tokenBasis \in [Tokens -> Nat]
    /\ now \in 0 .. MaxSeconds

\* The types of the accounts, the codes, the tokens and the requests.
LEMMA TypeParts == TypeOK <=> AccountTypeOK /\ CodeTypeOK /\ TokenTypeOK /\ RequestTypeOK
BY DEF TypeOK, AccountTypeOK, CodeTypeOK, TokenTypeOK, RequestTypeOK

-----------------------------------------------------------------------------
(* The requests.                                                           *)

\* A request that arrives is the only one that changes.
LEMMA Begun ==
    ASSUME RequestTypeOK, NEW r \in Handlers, NEW u \in People,
           NEW i \in Codes \cup Tokens \cup {0}, NEW s \in PcValues, Begin(r, u, i, s)
    PROVE  /\ pc[r] = "idle" /\ pc'[r] = s /\ who'[r] = u /\ item'[r] = i
           /\ pc' \in [Handlers -> PcValues]
           /\ who' \in [Handlers -> People \cup {None}]
           /\ item' \in [Handlers -> Codes \cup Tokens \cup {0}]
           /\ \A q \in Handlers : q # r => pc'[q] = pc[q] /\ who'[q] = who[q] /\ item'[q] = item[q]
BY DEF Begin, RequestTypeOK

\* So is one that goes on.
LEMMA Stepped ==
    ASSUME RequestTypeOK, NEW r \in Handlers, NEW s, NEW t \in PcValues, Step(r, s, t)
    PROVE  /\ pc[r] = s /\ pc'[r] = t /\ who' = who /\ item' = item
           /\ pc' \in [Handlers -> PcValues]
           /\ \A q \in Handlers : q # r => pc'[q] = pc[q]
BY DEF Step, RequestTypeOK

\* One that is over may know nothing.
LEMMA Forgotten ==
    ASSUME RequestTypeOK, NEW r \in Handlers, Forget(r)
    PROVE  /\ RequestTypeOK' /\ Stage(r)' /\ pc'[r] = "idle" /\ who'[r] = None
           /\ \A q \in Handlers : q # r => SameRequest(q)
<1>1. RequestTypeOK' /\ pc'[r] = "idle" /\ basis'[r] = 0 /\ who'[r] = None
  BY DEF Forget, RequestTypeOK, PcValues
<1>2. \A q \in Handlers : q # r => SameRequest(q)
  BY DEF Forget, RequestTypeOK, SameRequest
<1> QED
  BY <1>1, <1>2 DEF Stage

\* What a request has read is still true after a step of another one.
LEMMA StageKept ==
    ASSUME Sound, TypeOK', Forward, NEW q \in Handlers, SameRequest(q)
    PROVE  Stage(q)'
<1> USE DEF Sound, Stages, Forward, SameRequest, TypeOK
<1>1. Stage(q)
  OBVIOUS
<1>2. pc[q] # "idle" => who'[q] \in People
  BY <1>1 DEF Stage
<1>3. pc[q] \in {"idle", "consumeCode", "findUser", "createUser"} => basis'[q] = 0
  BY <1>1 DEF Stage
<1>4. pc[q] \in {"consumeCode", "consumeResetCode", "setPassword"} =>
         item'[q] \in Codes /\ codePhone'[item'[q]] = who'[q] /\ codeState'[item'[q]] # "absent"
  BY <1>1 DEF Stage
<1>5. pc[q] = "setPassword" => codeState'[item'[q]] = "consumed"
  BY <1>1 DEF Stage
<1>6. pc[q] = "rotate" =>
         item'[q] \in Tokens /\ tokenUser'[item'[q]] = who'[q] /\ tokenState'[item'[q]] # "absent"
  BY <1>1 DEF Stage
<1>7. pc[q] \in {"createCode", "findResetCode", "consumeResetCode", "setPassword", "revokeOld",
                 "rotate", "issue", "suspend", "revokeSuspended"} => who'[q] \in account'
  BY <1>1 DEF Stage
<1>8. pc[q] \in {"revokeOld", "rotate", "issue"} => basis'[q] <= password'[who'[q]]
  <2>1. ASSUME pc[q] \in {"revokeOld", "rotate", "issue"} PROVE basis'[q] <= password'[who'[q]]
    <3>1. who[q] \in account /\ who[q] \in People /\ basis[q] <= password[who[q]]
      BY <1>1, <2>1 DEF Stage
    <3>2. password[who[q]] <= password'[who[q]]
      BY <3>1
    <3> QED
      BY <3>1, <3>2
  <2> QED
    BY <2>1
<1> QED
  BY <1>2, <1>3, <1>4, <1>5, <1>6, <1>7, <1>8 DEF Stage

LEMMA StagesKept ==
    ASSUME Sound, TypeOK', Forward, NEW r \in Handlers, Stage(r)',
           \A q \in Handlers : q # r => SameRequest(q)
    PROVE  Stages'
BY StageKept DEF Stages

\* A request that only reads.
LEMMA ReadOnly ==
    ASSUME Sound, NEW r \in Handlers, RequestTypeOK', Stage(r)',
           \A q \in Handlers : q # r => SameRequest(q),
           UNCHANGED <<accountVars, codeVars, tokenVars, now>>
    PROVE  Sound' /\ Forward
<1> USE DEF accountVars, codeVars, tokenVars
<1>1. Forward
  BY TypeParts DEF Forward, Sound, AccountTypeOK
<1>2. TypeOK'
  BY DEF Sound, TypeOK, RequestTypeOK
<1>3. CodesHavePhones' /\ SuspendedExist' /\ SessionsHaveAccounts'
  BY DEF Sound, CodesHavePhones, SuspendedExist, SessionsHaveAccounts
<1> QED
  BY <1>1, <1>2, <1>3, StagesKept DEF Sound

\* The facts of an arrival that keeps basis, and of one that reads a new one.
LEMMA ArrivedPlain ==
    ASSUME Sound, NEW r \in Handlers, NEW u \in People,
           NEW i \in Codes \cup Tokens \cup {0}, NEW s \in PcValues, Begin(r, u, i, s),
           basis' = basis
    PROVE  /\ RequestTypeOK' /\ basis'[r] = 0
           /\ pc'[r] = s /\ who'[r] = u /\ item'[r] = i
           /\ \A q \in Handlers : q # r => SameRequest(q)
<1>1. RequestTypeOK
  BY TypeParts DEF Sound
<1>2. basis[r] = 0
  BY <1>1, Begun DEF Sound, Stages, Stage
<1> QED
  BY <1>1, <1>2, Begun DEF RequestTypeOK, SameRequest

LEMMA ArrivedKnowing ==
    ASSUME Sound, NEW r \in Handlers, NEW u \in People,
           NEW i \in Codes \cup Tokens \cup {0}, NEW s \in PcValues, Begin(r, u, i, s),
           NEW n \in Nat, basis' = [basis EXCEPT ![r] = n]
    PROVE  /\ RequestTypeOK' /\ basis'[r] = n
           /\ pc'[r] = s /\ who'[r] = u /\ item'[r] = i
           /\ \A q \in Handlers : q # r => SameRequest(q)
<1>1. RequestTypeOK
  BY TypeParts DEF Sound
<1> QED
  BY <1>1, Begun DEF RequestTypeOK, SameRequest

\* The facts of a step that keeps basis, and of one that reads a new one.
LEMMA WentOn ==
    ASSUME Sound, NEW r \in Handlers, NEW s, NEW t \in PcValues, Step(r, s, t), basis' = basis
    PROVE  /\ RequestTypeOK' /\ pc[r] = s /\ pc'[r] = t
           /\ who'[r] = who[r] /\ item'[r] = item[r] /\ basis'[r] = basis[r]
           /\ \A q \in Handlers : q # r => SameRequest(q)
<1>1. RequestTypeOK
  BY TypeParts DEF Sound
<1> QED
  BY <1>1, Stepped DEF RequestTypeOK, SameRequest

LEMMA WentOnKnowing ==
    ASSUME Sound, NEW r \in Handlers, NEW s, NEW t \in PcValues, Step(r, s, t),
           NEW n \in Nat, basis' = [basis EXCEPT ![r] = n]
    PROVE  /\ RequestTypeOK' /\ pc[r] = s /\ pc'[r] = t
           /\ who'[r] = who[r] /\ item'[r] = item[r] /\ basis'[r] = n
           /\ \A q \in Handlers : q # r => SameRequest(q)
<1>1. RequestTypeOK
  BY TypeParts DEF Sound
<1> QED
  BY <1>1, Stepped DEF RequestTypeOK, SameRequest

\* Arrivals: the account, the code or the token that a request has found.
LEMMA ArrivalKeepsSound ==
    ASSUME Sound, NEW r \in Handlers, Arrival(r)
    PROVE  Sound' /\ Forward
<1> USE DEF Sound
<1>1. ASSUME NEW i \in Codes, VerifyOtp(r, i) PROVE Sound' /\ Forward
  <2>1. codePhone[i] \in People /\ codeState[i] = "fresh" /\ Begin(r, codePhone[i], i, "consumeCode")
        /\ UNCHANGED <<basis, accountVars, codeVars, tokenVars, now>>
    BY <1>1 DEF VerifyOtp, CodesHavePhones
  <2>2. /\ RequestTypeOK' /\ basis'[r] = 0
        /\ pc'[r] = "consumeCode" /\ who'[r] = codePhone[i] /\ item'[r] = i
        /\ \A q \in Handlers : q # r => SameRequest(q)
    BY <2>1, ArrivedPlain DEF PcValues
  <2>3. Stage(r)'
    BY <2>1, <2>2 DEF Stage, codeVars
  <2> QED
    BY <2>1, <2>2, <2>3, ReadOnly
<1>2. ASSUME NEW t \in Tokens, Refresh(r, t) PROVE Sound' /\ Forward
  <2>1. /\ tokenState[t] = "live" /\ tokenUser[t] \in account
        /\ tokenBasis[t] \in Nat /\ tokenBasis[t] <= password[tokenUser[t]]
        /\ account \subseteq People
    BY <1>2 DEF Refresh, SessionsHaveAccounts, TypeOK
  <2>2. /\ Begin(r, tokenUser[t], t, "rotate") /\ basis' = [basis EXCEPT ![r] = tokenBasis[t]]
        /\ UNCHANGED <<accountVars, codeVars, tokenVars, now>>
    BY <1>2 DEF Refresh
  <2>3. /\ RequestTypeOK' /\ basis'[r] = tokenBasis[t]
        /\ pc'[r] = "rotate" /\ who'[r] = tokenUser[t] /\ item'[r] = t
        /\ \A q \in Handlers : q # r => SameRequest(q)
    BY <2>1, <2>2, ArrivedKnowing DEF PcValues
  <2>4. Stage(r)'
    BY <2>1, <2>2, <2>3 DEF Stage, tokenVars, accountVars
  <2> QED
    BY <2>2, <2>3, <2>4, ReadOnly
<1>3. ASSUME NEW u \in People, Register(r, u) PROVE Sound' /\ Forward
  <2>1. Begin(r, u, 0, "register") /\ UNCHANGED <<basis, accountVars, codeVars, tokenVars, now>>
    BY <1>3 DEF Register
  <2>2. /\ RequestTypeOK' /\ basis'[r] = 0
        /\ pc'[r] = "register" /\ who'[r] = u
        /\ \A q \in Handlers : q # r => SameRequest(q)
    BY <2>1, ArrivedPlain DEF PcValues
  <2>3. Stage(r)'
    BY <2>2 DEF Stage
  <2> QED
    BY <2>1, <2>2, <2>3, ReadOnly
<1>4. ASSUME NEW u \in People, Login(r, u) PROVE Sound' /\ Forward
  <2>1. /\ u \in account /\ Begin(r, u, 0, "issue") /\ basis' = [basis EXCEPT ![r] = password[u]]
        /\ UNCHANGED <<accountVars, codeVars, tokenVars, now>>
    BY <1>4 DEF Login
  <2>2. password[u] \in Nat
    BY DEF TypeOK
  <2>3. /\ RequestTypeOK' /\ basis'[r] = password[u]
        /\ pc'[r] = "issue" /\ who'[r] = u
        /\ \A q \in Handlers : q # r => SameRequest(q)
    <3>1. 0 \in Codes \cup Tokens \cup {0} /\ "issue" \in PcValues
      BY DEF PcValues
    <3> QED
      BY <2>1, <2>2, <3>1, ArrivedKnowing
  <2>4. Stage(r)'
    BY <2>1, <2>2, <2>3 DEF Stage, accountVars
  <2> QED
    BY <2>1, <2>3, <2>4, ReadOnly
<1>5. ASSUME NEW u \in People, NEW s \in {"createCode", "findResetCode", "suspend"},
             u \in account, Begin(r, u, 0, s),
             UNCHANGED <<basis, accountVars, codeVars, tokenVars, now>>
      PROVE  Sound' /\ Forward
  <2>1. /\ RequestTypeOK' /\ basis'[r] = 0
        /\ pc'[r] = s /\ who'[r] = u
        /\ \A q \in Handlers : q # r => SameRequest(q)
    BY <1>5, ArrivedPlain DEF PcValues
  <2>2. Stage(r)'
    BY <1>5, <2>1 DEF Stage, accountVars
  <2> QED
    BY <1>5, <2>1, <2>2, ReadOnly
<1>6. ASSUME NEW u \in People, RequestPasswordReset(r, u) PROVE Sound' /\ Forward
  BY <1>5, <1>6 DEF RequestPasswordReset
<1>7. ASSUME NEW u \in People, ConfirmPasswordReset(r, u) PROVE Sound' /\ Forward
  BY <1>5, <1>7 DEF ConfirmPasswordReset
<1>8. ASSUME NEW u \in People, SuspendUser(r, u) PROVE Sound' /\ Forward
  BY <1>5, <1>8 DEF SuspendUser
<1> HIDE DEF Sound
<1> QED
  BY <1>1, <1>2, <1>3, <1>4, <1>6, <1>7, <1>8 DEF Arrival

-----------------------------------------------------------------------------
(* The awaits of a request.                                                *)

LEMMA TokensKept ==
    ASSUME Sound, TypeOK', Forward, UNCHANGED <<tokenUser, tokenBasis>>,
           \A t \in Tokens : tokenState'[t] # "absent" => tokenState[t] # "absent"
    PROVE  SessionsHaveAccounts'
<1>1. ASSUME NEW t \in Tokens, tokenState'[t] # "absent"
      PROVE  tokenUser[t] \in account' /\ tokenBasis[t] <= password'[tokenUser[t]]
  <2>1. tokenUser[t] \in account /\ tokenBasis[t] <= password[tokenUser[t]]
    BY <1>1 DEF Sound, SessionsHaveAccounts
  <2>2. tokenBasis[t] \in Nat /\ password[tokenUser[t]] \in Nat /\ password'[tokenUser[t]] \in Nat
    BY <2>1 DEF Sound, TypeOK
  <2> QED
    BY <2>1, <2>2 DEF Forward
<1> QED
  BY <1>1 DEF SessionsHaveAccounts

LEMMA ConsumeCodeStep ==
    ASSUME Sound, NEW r \in Handlers, ConsumeCode(r) PROVE Sound' /\ Forward
<1>1. /\ RequestTypeOK' /\ who'[r] = who[r] /\ item'[r] = item[r] /\ basis'[r] = basis[r]
      /\ \/ pc[r] = "consumeCode" /\ pc'[r] = "findUser"
         \/ pc[r] = "consumeResetCode" /\ pc'[r] = "setPassword"
      /\ \A q \in Handlers : q # r => SameRequest(q)
  BY WentOn DEF ConsumeCode, PcValues
<1>2. /\ codeState' = [codeState EXCEPT ![item[r]] = "consumed"]
      /\ UNCHANGED <<codePhone, accountVars, tokenVars, now>>
  BY DEF ConsumeCode
<1>3. item[r] \in Codes /\ codePhone[item[r]] = who[r] /\ codeState[item[r]] # "absent"
      /\ Stage(r)
  BY <1>1 DEF Sound, Stages, Stage
<1>4. TypeOK'
  BY <1>1, <1>2 DEF Sound, TypeOK, RequestTypeOK, accountVars, tokenVars
<1>5. Forward
  BY <1>2, <1>3 DEF Forward, Sound, TypeOK, accountVars, tokenVars
<1>6. Stage(r)'
  BY <1>1, <1>2, <1>3 DEF Stage, Sound, TypeOK, accountVars
<1>7. CodesHavePhones' /\ SuspendedExist'
  BY <1>2, <1>3 DEF Sound, CodesHavePhones, SuspendedExist, TypeOK, accountVars
<1>8. SessionsHaveAccounts'
  BY <1>2, <1>4, <1>5, TokensKept DEF tokenVars
<1> QED
  BY <1>1, <1>4, <1>5, <1>6, <1>7, <1>8, StagesKept DEF Sound

LEMMA FindUserStep ==
    ASSUME Sound, NEW r \in Handlers, FindUser(r) PROVE Sound' /\ Forward
<1>1. UNCHANGED <<accountVars, codeVars, tokenVars, now>> /\ account' = account /\ password' = password
  BY DEF FindUser, accountVars
<1>2. CASE Step(r, "findUser", "createUser") /\ UNCHANGED basis
  <2>1. /\ RequestTypeOK' /\ pc[r] = "findUser" /\ pc'[r] = "createUser"
        /\ who'[r] = who[r] /\ basis'[r] = basis[r]
        /\ \A q \in Handlers : q # r => SameRequest(q)
    BY <1>2, WentOn DEF PcValues
  <2>2. Stage(r)'
    BY <2>1 DEF Sound, Stages, Stage
  <2> QED
    BY <1>1, <2>1, <2>2, ReadOnly
<1>3. CASE /\ Step(r, "findUser", "issue") /\ who[r] \in account \ suspended
           /\ basis' = [basis EXCEPT ![r] = password[who[r]]]
  <2>1. password[who[r]] \in Nat /\ "issue" \in PcValues
    BY <1>3 DEF Sound, TypeOK, PcValues
  <2>2. /\ RequestTypeOK' /\ pc'[r] = "issue"
        /\ who'[r] = who[r] /\ basis'[r] = password[who[r]]
        /\ \A q \in Handlers : q # r => SameRequest(q)
    BY <1>3, <2>1, WentOnKnowing
  <2>3. Stage(r)'
    BY <1>1, <1>3, <2>1, <2>2 DEF Sound, TypeOK, Stage
  <2> QED
    BY <1>1, <2>2, <2>3, ReadOnly
<1>4. CASE Forget(r)
  BY <1>1, <1>4, Forgotten, ReadOnly, TypeParts DEF Sound
<1> QED
  BY <1>2, <1>3, <1>4 DEF FindUser

LEMMA FindResetCodeStep ==
    ASSUME Sound, NEW r \in Handlers, FindResetCode(r) PROVE Sound' /\ Forward
<1>1. UNCHANGED <<accountVars, codeVars, tokenVars, now>>
      /\ account' = account /\ codeState' = codeState /\ codePhone' = codePhone
  BY DEF FindResetCode, accountVars, codeVars
<1>2. ASSUME NEW i \in Codes, pc[r] = "findResetCode", codeState[i] = "fresh", codePhone[i] = who[r],
             pc' = [pc EXCEPT ![r] = "consumeResetCode"], item' = [item EXCEPT ![r] = i],
             UNCHANGED <<who, basis>>
      PROVE  Sound' /\ Forward
  <2>1. RequestTypeOK' /\ pc'[r] = "consumeResetCode" /\ item'[r] = i
        /\ \A q \in Handlers : q # r => SameRequest(q)
    BY <1>2 DEF Sound, TypeOK, RequestTypeOK, SameRequest, PcValues
  <2>2. Stage(r)'
    BY <1>1, <1>2, <2>1 DEF Sound, Stages, Stage
  <2> QED
    BY <1>1, <2>1, <2>2, ReadOnly
<1>3. CASE Forget(r)
  BY <1>1, <1>3, Forgotten, ReadOnly, TypeParts DEF Sound
<1> QED
  BY <1>2, <1>3 DEF FindResetCode

LEMMA ThrowsStep ==
    ASSUME Sound, NEW r \in Handlers, Throws(r) PROVE Sound' /\ Forward
BY Forgotten, ReadOnly, TypeParts DEF Throws, Sound

\* A new account: no session and no request knew of it.
LEMMA CreateUserStep ==
    ASSUME Sound, NEW r \in Handlers, CreateUser(r) PROVE Sound' /\ Forward
<1>1. CASE Forget(r) /\ UNCHANGED account
  <2>1. UNCHANGED <<accountVars, codeVars, tokenVars, now>>
    BY <1>1 DEF CreateUser, accountVars
  <2> QED
    BY <1>1, <2>1, Forgotten, ReadOnly, TypeParts DEF Sound
<1>2. CASE Step(r, "createUser", "issue") /\ account' = account \cup {who[r]} /\ UNCHANGED basis
  <2>1. /\ RequestTypeOK' /\ pc[r] = "createUser" /\ pc'[r] = "issue"
        /\ who'[r] = who[r] /\ basis'[r] = basis[r]
        /\ \A q \in Handlers : q # r => SameRequest(q)
    BY <1>2, WentOn DEF PcValues
  <2>2. UNCHANGED <<email, password, suspended, role, isAdmin, codeVars, tokenVars, now>>
    BY DEF CreateUser
  <2>3. who[r] \in People /\ basis[r] = 0 /\ password[who[r]] \in Nat
    BY <2>1 DEF Sound, Stages, Stage, TypeOK
  <2>4. TypeOK'
    BY <1>2, <2>1, <2>2, <2>3 DEF Sound, TypeOK, RequestTypeOK, codeVars, tokenVars
  <2>5. Forward
    BY <1>2, <2>2 DEF Forward, Sound, TypeOK, codeVars, tokenVars
  <2>6. Stage(r)'
    BY <1>2, <2>1, <2>2, <2>3 DEF Stage
  <2>7. CodesHavePhones' /\ SuspendedExist'
    BY <1>2, <2>2 DEF Sound, CodesHavePhones, SuspendedExist, codeVars
  <2>8. SessionsHaveAccounts'
    BY <2>2, <2>4, <2>5, TokensKept DEF tokenVars
  <2> QED
    BY <2>1, <2>4, <2>5, <2>6, <2>7, <2>8, StagesKept DEF Sound
<1> QED
  BY <1>1, <1>2 DEF CreateUser

LEMMA CreateRegisteredStep ==
    ASSUME Sound, NEW r \in Handlers, CreateRegistered(r) PROVE Sound' /\ Forward
<1> DEFINE u == who[r]
<1>1. CASE Forget(r) /\ UNCHANGED <<account, email, password>>
  <2>1. UNCHANGED <<accountVars, codeVars, tokenVars, now>>
    BY <1>1 DEF CreateRegistered, accountVars
  <2> QED
    BY <1>1, <2>1, Forgotten, ReadOnly, TypeParts DEF Sound
<1>2. CASE /\ Step(r, "register", "issue") /\ u \notin account
           /\ account' = account \cup {u} /\ email' = email \cup {u}
           /\ password' = [password EXCEPT ![u] = 1] /\ basis' = [basis EXCEPT ![r] = 1]
  <2>1. 1 \in Nat /\ "issue" \in PcValues
    BY DEF PcValues
  <2>2. /\ RequestTypeOK' /\ pc[r] = "register" /\ pc'[r] = "issue"
        /\ who'[r] = who[r] /\ basis'[r] = 1
        /\ \A q \in Handlers : q # r => SameRequest(q)
    BY <1>2, <2>1, WentOnKnowing
  <2>3. UNCHANGED <<suspended, role, isAdmin, codeVars, tokenVars, now>>
    BY DEF CreateRegistered
  <2>4. u \in People
    BY <2>2 DEF Sound, Stages, Stage
  <2>5. TypeOK'
    BY <1>2, <2>2, <2>3, <2>4 DEF Sound, TypeOK, RequestTypeOK, codeVars, tokenVars
  <2>6. Forward
    BY <1>2, <2>3, <2>4 DEF Forward, Sound, TypeOK, codeVars, tokenVars
  <2>7. Stage(r)'
    BY <1>2, <2>2, <2>4 DEF Stage, Sound, TypeOK
  <2>8. CodesHavePhones' /\ SuspendedExist'
    BY <1>2, <2>3 DEF Sound, CodesHavePhones, SuspendedExist, codeVars
  <2>9. SessionsHaveAccounts'
    BY <2>3, <2>5, <2>6, TokensKept DEF tokenVars
  <2> QED
    BY <2>2, <2>5, <2>6, <2>7, <2>8, <2>9, StagesKept DEF Sound
<1> QED
  BY <1>1, <1>2 DEF CreateRegistered

\* A new code takes a free row.
LEMMA CodeCreated ==
    ASSUME Sound, NEW u \in People, NewCode(u)
    PROVE  /\ CodeTypeOK' /\ CodesHavePhones'
           /\ \A i \in Codes : codeState[i] # "absent" =>
                 codeState'[i] = codeState[i] /\ codePhone'[i] = codePhone[i]
<1>1. PICK i \in Codes : /\ codeState[i] = "absent"
                         /\ codeState' = [codeState EXCEPT ![i] = "fresh"]
                         /\ codePhone' = [codePhone EXCEPT ![i] = u]
  BY DEF NewCode
<1> QED
  BY <1>1 DEF Sound, TypeOK, CodeTypeOK, CodesHavePhones

\* The database is the same but for its codes.
LEMMA CodesOnly ==
    ASSUME Sound, RequestTypeOK', CodeTypeOK', CodesHavePhones',
           \A i \in Codes : codeState[i] # "absent" =>
              codeState'[i] # "absent" /\ codePhone'[i] = codePhone[i],
           \A i \in Codes : codeState[i] = "consumed" => codeState'[i] = "consumed",
           UNCHANGED <<accountVars, tokenVars, now>>
    PROVE  /\ TypeOK' /\ Forward
           /\ CodesHavePhones' /\ SuspendedExist' /\ SessionsHaveAccounts'
<1>1. TypeOK'
  BY DEF Sound, TypeOK, RequestTypeOK, CodeTypeOK, accountVars, tokenVars
<1>2. Forward
  BY DEF Forward, Sound, TypeOK, accountVars, tokenVars
<1>3. SuspendedExist' /\ SessionsHaveAccounts'
  BY DEF Sound, SuspendedExist, SessionsHaveAccounts, accountVars, tokenVars
<1> QED
  BY <1>1, <1>2, <1>3

LEMMA CreateResetCodeStep ==
    ASSUME Sound, NEW r \in Handlers, CreateResetCode(r) PROVE Sound' /\ Forward
<1>1. who[r] \in People /\ NewCode(who[r]) /\ Forget(r) /\ UNCHANGED <<accountVars, tokenVars, now>>
  BY DEF CreateResetCode, Sound, Stages, Stage
<1>2. RequestTypeOK' /\ Stage(r)' /\ \A q \in Handlers : q # r => SameRequest(q)
  BY <1>1, Forgotten, TypeParts DEF Sound
<1>3. /\ TypeOK' /\ Forward
      /\ CodesHavePhones' /\ SuspendedExist' /\ SessionsHaveAccounts'
  <2>1. /\ CodeTypeOK' /\ CodesHavePhones'
        /\ \A i \in Codes : codeState[i] # "absent" =>
              codeState'[i] = codeState[i] /\ codePhone'[i] = codePhone[i]
    BY <1>1, CodeCreated
  <2> QED
    BY <1>1, <1>2, <2>1, CodesOnly
<1> QED
  BY <1>2, <1>3, StagesKept DEF Sound

LEMMA SetPasswordStep ==
    ASSUME Sound, NEW r \in Handlers, SetPassword(r) PROVE Sound' /\ Forward
<1> DEFINE u == who[r]
           n == password[u] + 1
<1>1. /\ Step(r, "setPassword", "revokeOld")
      /\ password' = [password EXCEPT ![u] = n] /\ basis' = [basis EXCEPT ![r] = n]
      /\ UNCHANGED <<account, email, suspended, role, isAdmin, codeVars, tokenVars, now>>
  BY DEF SetPassword
<1>2. u \in People /\ u \in account /\ password[u] \in Nat /\ n \in Nat /\ password[u] <= n
  BY <1>1 DEF Step, Sound, Stages, Stage, TypeOK
<1> HIDE DEF n
<1>3. /\ RequestTypeOK' /\ pc'[r] = "revokeOld"
      /\ who'[r] = u /\ basis'[r] = n
      /\ \A q \in Handlers : q # r => SameRequest(q)
  BY <1>1, <1>2, WentOnKnowing DEF PcValues
<1>4. TypeOK'
  BY <1>1, <1>2, <1>3 DEF Sound, TypeOK, RequestTypeOK, codeVars, tokenVars
<1>5. Forward
  BY <1>1, <1>2 DEF Forward, Sound, TypeOK, codeVars, tokenVars
<1>6. Stage(r)'
  BY <1>1, <1>2, <1>3 DEF Stage, Sound, TypeOK
<1>7. CodesHavePhones' /\ SuspendedExist'
  BY <1>1 DEF Sound, CodesHavePhones, SuspendedExist, codeVars
<1>8. SessionsHaveAccounts'
  BY <1>1, <1>4, <1>5, TokensKept DEF tokenVars
<1> QED
  BY <1>3, <1>4, <1>5, <1>6, <1>7, <1>8, StagesKept DEF Sound

LEMMA RevokeAllForUserStep ==
    ASSUME Sound, NEW r \in Handlers, RevokeAllForUser(r) PROVE Sound' /\ Forward
<1>1. /\ \A t \in Tokens : tokenState'[t] = "absent" <=> tokenState[t] = "absent"
      /\ tokenState' \in [Tokens -> {"absent", "live", "revoked"}]
      /\ UNCHANGED <<tokenUser, tokenStamp, tokenBasis, accountVars, codeVars, now>>
  BY DEF RevokeAllForUser, Sound, TypeOK
<1>2. /\ RequestTypeOK' /\ Stage(r)'
      /\ \A q \in Handlers : q # r => SameRequest(q)
  <2>1. CASE Step(r, "revokeOld", "issue") /\ UNCHANGED basis
    <3>1. /\ RequestTypeOK' /\ pc[r] = "revokeOld" /\ pc'[r] = "issue"
          /\ who'[r] = who[r] /\ basis'[r] = basis[r]
          /\ \A q \in Handlers : q # r => SameRequest(q)
      BY <2>1, WentOn DEF PcValues
    <3>2. Stage(r)'
      BY <1>1, <3>1 DEF Sound, Stages, Stage, accountVars
    <3> QED
      BY <3>1, <3>2
  <2>2. CASE Forget(r)
    BY <2>2, Forgotten, TypeParts DEF Sound
  <2> QED
    BY <2>1, <2>2 DEF RevokeAllForUser
<1>3. TypeOK'
  BY <1>1, <1>2 DEF Sound, TypeOK, RequestTypeOK, accountVars, codeVars
<1>4. Forward
  BY <1>1 DEF Forward, Sound, TypeOK, accountVars, codeVars
<1>5. CodesHavePhones' /\ SuspendedExist'
  BY <1>1 DEF Sound, CodesHavePhones, SuspendedExist, accountVars, codeVars
<1>6. SessionsHaveAccounts'
  BY <1>1, <1>3, <1>4, TokensKept
<1> QED
  BY <1>2, <1>3, <1>4, <1>5, <1>6, StagesKept DEF Sound

LEMMA IssueTokensStep ==
    ASSUME Sound, NEW r \in Handlers, IssueTokens(r) PROVE Sound' /\ Forward
<1>1. pc[r] = "issue" /\ Forget(r) /\ now' \in now .. MaxSeconds /\ UNCHANGED <<accountVars, codeVars>>
  BY DEF IssueTokens
<1>2. PICK t \in Tokens :
         /\ tokenState' = [tokenState EXCEPT ![t] = "live"]
         /\ tokenUser' = [tokenUser EXCEPT ![t] = who[r]]
         /\ tokenStamp' = [tokenStamp EXCEPT ![t] = now']
         /\ tokenBasis' = [tokenBasis EXCEPT ![t] = basis[r]]
         /\ tokenState[t] = "absent"
  BY DEF IssueTokens
<1>3. RequestTypeOK' /\ Stage(r)' /\ \A q \in Handlers : q # r => SameRequest(q)
  BY <1>1, Forgotten, TypeParts DEF Sound
<1>4. who[r] \in account /\ who[r] \in People /\ basis[r] \in Nat /\ basis[r] <= password[who[r]]
  BY <1>1 DEF Sound, Stages, Stage, TypeOK
<1>5. now' \in 0 .. MaxSeconds
  BY <1>1, SessionsAssumption DEF Sound, TypeOK
<1>6. TypeOK'
  BY <1>1, <1>2, <1>3, <1>4, <1>5 DEF Sound, TypeOK, RequestTypeOK, accountVars, codeVars
<1>7. Forward
  BY <1>1, <1>2 DEF Forward, Sound, TypeOK, accountVars, codeVars
<1>8. CodesHavePhones' /\ SuspendedExist'
  BY <1>1 DEF Sound, CodesHavePhones, SuspendedExist, accountVars, codeVars
<1>9. SessionsHaveAccounts'
  BY <1>1, <1>2, <1>4 DEF Sound, SessionsHaveAccounts, TypeOK, accountVars
<1> QED
  BY <1>3, <1>6, <1>7, <1>8, <1>9, StagesKept DEF Sound

LEMMA RotateStep ==
    ASSUME Sound, NEW r \in Handlers, Rotate(r) PROVE Sound' /\ Forward
<1>1. /\ RequestTypeOK' /\ pc[r] = "rotate" /\ pc'[r] = "issue"
      /\ who'[r] = who[r] /\ basis'[r] = basis[r]
      /\ \A q \in Handlers : q # r => SameRequest(q)
  BY WentOn DEF Rotate, PcValues
<1>2. /\ tokenState' = [tokenState EXCEPT ![item[r]] = "revoked"]
      /\ UNCHANGED <<tokenUser, tokenStamp, tokenBasis, accountVars, codeVars, now>>
  BY DEF Rotate
<1>3. item[r] \in Tokens /\ tokenState[item[r]] # "absent" /\ Stage(r)
  BY <1>1 DEF Sound, Stages, Stage
<1>4. TypeOK'
  BY <1>1, <1>2, <1>3 DEF Sound, TypeOK, RequestTypeOK, accountVars, codeVars
<1>5. Forward
  BY <1>2, <1>3 DEF Forward, Sound, TypeOK, accountVars, codeVars
<1>6. Stage(r)'
  BY <1>1, <1>2, <1>3 DEF Stage, accountVars
<1>7. CodesHavePhones' /\ SuspendedExist'
  BY <1>2 DEF Sound, CodesHavePhones, SuspendedExist, accountVars, codeVars
<1>8. \A t \in Tokens : tokenState'[t] # "absent" => tokenState[t] # "absent"
  BY <1>2, <1>3 DEF Sound, TypeOK
<1>9. SessionsHaveAccounts'
  BY <1>2, <1>4, <1>5, <1>8, TokensKept
<1> QED
  BY <1>1, <1>4, <1>5, <1>6, <1>7, <1>9, StagesKept DEF Sound

LEMMA SuspendStep ==
    ASSUME Sound, NEW r \in Handlers, Suspend(r) PROVE Sound' /\ Forward
<1>1. /\ RequestTypeOK' /\ pc[r] = "suspend" /\ pc'[r] = "revokeSuspended"
      /\ who'[r] = who[r] /\ basis'[r] = basis[r]
      /\ \A q \in Handlers : q # r => SameRequest(q)
  BY WentOn DEF Suspend, PcValues
<1>2. /\ suspended' = suspended \cup {who[r]}
      /\ UNCHANGED <<account, email, password, role, isAdmin, codeVars, tokenVars, now>>
  BY DEF Suspend
<1>3. who[r] \in account /\ who[r] \in People
  BY <1>1 DEF Sound, Stages, Stage
<1>4. TypeOK'
  BY <1>1, <1>2, <1>3 DEF Sound, TypeOK, RequestTypeOK, codeVars, tokenVars
<1>5. Forward
  BY <1>2 DEF Forward, Sound, TypeOK, codeVars, tokenVars
<1>6. Stage(r)'
  BY <1>1, <1>2, <1>3 DEF Stage
<1>7. CodesHavePhones' /\ SuspendedExist'
  BY <1>2, <1>3 DEF Sound, CodesHavePhones, SuspendedExist, codeVars
<1>8. SessionsHaveAccounts'
  BY <1>2, <1>4, <1>5, TokensKept DEF tokenVars
<1> QED
  BY <1>1, <1>4, <1>5, <1>6, <1>7, <1>8, StagesKept DEF Sound

\* A step of no request.
LEMMA OutsideStep ==
    ASSUME Sound, TypeOK', Forward, CodesHavePhones', SuspendedExist',
           UNCHANGED requestVars, UNCHANGED tokenVars
    PROVE  Sound'
<1>1. \A q \in Handlers : SameRequest(q)
  BY DEF requestVars, SameRequest
<1>2. Stages'
  BY <1>1, StageKept DEF Stages
<1>3. SessionsHaveAccounts'
  BY TokensKept DEF tokenVars
<1> QED
  BY <1>2, <1>3 DEF Sound

LEMMA AtomicStep ==
    ASSUME Sound, Atomic PROVE Sound' /\ Forward
<1>1. PICK u \in People : RequestOtp(u) \/ UpdateMe(u) \/ UnsuspendUser(u)
                          \/ \E x \in Roles : SetUserRole(u, x)
  BY DEF Atomic
<1>2. UNCHANGED tokenVars /\ UNCHANGED requestVars /\ now' = now
  BY <1>1 DEF RequestOtp, UpdateMe, UnsuspendUser, SetUserRole
<1>3. RequestTypeOK'
  BY <1>2 DEF Sound, TypeOK, RequestTypeOK, requestVars
<1>4. CASE RequestOtp(u)
  <2>1. /\ CodeTypeOK' /\ CodesHavePhones'
        /\ \A i \in Codes : codeState[i] # "absent" =>
              codeState'[i] = codeState[i] /\ codePhone'[i] = codePhone[i]
    BY <1>4, CodeCreated DEF RequestOtp
  <2>2. UNCHANGED <<accountVars, tokenVars, now>>
    BY <1>4 DEF RequestOtp
  <2>3. /\ TypeOK' /\ Forward
        /\ CodesHavePhones' /\ SuspendedExist' /\ SessionsHaveAccounts'
    BY <1>3, <2>1, <2>2, CodesOnly
  <2> QED
    BY <1>2, <2>3, OutsideStep
<1>5. CASE UpdateMe(u) \/ UnsuspendUser(u) \/ \E x \in Roles : SetUserRole(u, x)
  <2>1. /\ UNCHANGED <<account, password, codeVars>>
        /\ email' \in SUBSET People /\ suspended' \in SUBSET People /\ isAdmin' \in SUBSET People
        /\ role' \in [People -> Roles] /\ suspended' \subseteq suspended
    BY <1>5 DEF UpdateMe, UnsuspendUser, SetUserRole, Sound, TypeOK
  <2>2. TypeOK'
    BY <1>2, <1>3, <2>1 DEF Sound, TypeOK, RequestTypeOK, codeVars, tokenVars
  <2>3. Forward
    BY <1>2, <2>1 DEF Forward, Sound, TypeOK, codeVars, tokenVars
  <2>4. CodesHavePhones' /\ SuspendedExist'
    BY <2>1 DEF Sound, CodesHavePhones, SuspendedExist, codeVars
  <2> QED
    BY <1>2, <2>2, <2>3, <2>4, OutsideStep
<1> QED
  BY <1>1, <1>4, <1>5

LEMMA CodeExpiresStep ==
    ASSUME Sound, NEW i \in Codes, CodeExpires(i) PROVE Sound' /\ Forward
<1>1. /\ codeState[i] = "fresh" /\ codeState' = [codeState EXCEPT ![i] = "expired"]
      /\ UNCHANGED <<codePhone, accountVars, tokenVars, requestVars, now>>
  BY DEF CodeExpires
<1>2. RequestTypeOK'
  BY <1>1 DEF Sound, TypeOK, RequestTypeOK, requestVars
<1>3. CodeTypeOK' /\ CodesHavePhones'
  BY <1>1 DEF Sound, TypeOK, CodeTypeOK, CodesHavePhones
<1>4. \A j \in Codes : /\ codeState[j] # "absent" => codeState'[j] # "absent" /\ codePhone'[j] = codePhone[j]
                       /\ codeState[j] = "consumed" => codeState'[j] = "consumed"
  BY <1>1 DEF Sound, TypeOK
<1>5. /\ TypeOK' /\ Forward
      /\ CodesHavePhones' /\ SuspendedExist' /\ SessionsHaveAccounts'
  BY <1>1, <1>2, <1>3, <1>4, CodesOnly
<1> QED
  BY <1>1, <1>5, OutsideStep

-----------------------------------------------------------------------------
LEMMA SoundInitially == Init => Sound
<1> SUFFICES ASSUME Init PROVE Sound
  OBVIOUS
<1>1. TypeOK
  BY SessionsAssumption DEF Init, TypeOK, Roles, PcValues
<1>2. Stages /\ CodesHavePhones /\ SuspendedExist /\ SessionsHaveAccounts
  BY DEF Init, Stages, Stage, CodesHavePhones, SuspendedExist, SessionsHaveAccounts
<1> QED
  BY <1>1, <1>2 DEF Sound

LEMMA AdvanceStep == ASSUME Sound, NEW r \in Handlers, Advance(r) PROVE Sound' /\ Forward
BY ConsumeCodeStep, FindUserStep, CreateUserStep, CreateRegisteredStep, CreateResetCodeStep,
   FindResetCodeStep, SetPasswordStep, RevokeAllForUserStep, IssueTokensStep, RotateStep,
   SuspendStep DEF Advance

LEMMA StepKeepsSound == Sound /\ [Next]_vars => Sound'
<1> SUFFICES ASSUME Sound, [Next]_vars PROVE Sound'
  OBVIOUS
<1>1. CASE Next
  BY <1>1, ArrivalKeepsSound, AdvanceStep, ThrowsStep, AtomicStep, CodeExpiresStep
  DEF Next, Calls, World
<1>2. CASE UNCHANGED vars
  BY <1>2 DEF vars, accountVars, codeVars, tokenVars, requestVars, Sound, TypeOK, Stages, Stage,
              CodesHavePhones, SuspendedExist, SessionsHaveAccounts
<1> QED
  BY <1>1, <1>2

\* In every reachable state the types are right and a request may rely on
\* what it has read, however it interleaves with others.
THEOREM SessionsSound == Spec => []Sound
<1> QED
  BY SoundInitially, StepKeepsSound, PTL DEF Spec

\* The types of Sessions.
THEOREM SessionsTypeCorrect == Spec => []TypeOK
<1>1. Sound => TypeOK
  BY DEF Sound
<1> QED
  BY <1>1, SessionsSound, PTL

\* A session belongs to an account, and is not newer than its password: the
\* awaits between finding an account and issuing its token cannot lose it.
THEOREM SessionsBelong == Spec => []SessionsHaveAccounts
<1>1. Sound => SessionsHaveAccounts
  BY DEF Sound
<1> QED
  BY <1>1, SessionsSound, PTL

-----------------------------------------------------------------------------
(* Passwords.                                                              *)

\* One step changes the password of an existing account only as a reset does.
LEMMA PasswordStep ==
    ASSUME Sound, Next, NEW u \in account, password'[u] # password[u]
    PROVE  \E r \in Handlers, i \in Codes :
              /\ pc[r] = "setPassword" /\ who[r] = u
              /\ item[r] = i /\ codePhone[i] = u /\ codeState[i] = "consumed"
<1>1. u \in People /\ password \in [People -> Nat]
  BY DEF Sound, TypeOK
<1>2. ASSUME NEW r \in Handlers, SetPassword(r)
      PROVE  /\ pc[r] = "setPassword" /\ who[r] = u
             /\ item[r] \in Codes /\ codePhone[item[r]] = u /\ codeState[item[r]] = "consumed"
  <2>1. pc[r] = "setPassword" /\ who[r] = u
    BY <1>1, <1>2 DEF SetPassword, Step
  <2> QED
    BY <2>1 DEF Sound, Stages, Stage
<1>3. ASSUME NEW r \in Handlers, CreateRegistered(r) PROVE FALSE
  BY <1>1, <1>3 DEF CreateRegistered
<1>4. ASSUME NEW r \in Handlers, Arrival(r) PROVE FALSE
  BY <1>4 DEF Arrival, VerifyOtp, Refresh, Register, Login, RequestPasswordReset,
              ConfirmPasswordReset, SuspendUser, accountVars
<1>5. ASSUME NEW r \in Handlers, Advance(r) PROVE SetPassword(r)
  BY <1>3, <1>5 DEF Advance, ConsumeCode, FindUser, CreateUser, CreateResetCode, FindResetCode,
                    RevokeAllForUser, IssueTokens, Rotate, Suspend, accountVars
<1>6. ASSUME NEW r \in Handlers, Throws(r) PROVE FALSE
  BY <1>6 DEF Throws, accountVars
<1>7. ASSUME Atomic \/ World PROVE FALSE
  BY <1>7 DEF Atomic, World, RequestOtp, UpdateMe, UnsuspendUser, SetUserRole, CodeExpires,
              accountVars
<1>8. PICK r \in Handlers : SetPassword(r)
  BY <1>4, <1>5, <1>6, <1>7 DEF Next, Calls
<1> QED
  BY <1>2, <1>8

\* A registration, a first login by code or a second registration never
\* overwrites the password of an account: only a reset that consumed one of
\* its phone's codes does.
THEOREM PasswordsAreReset == Spec => PasswordChangesOnlyByReset
<1>1. Sound /\ [Next]_vars =>
         [\A u \in account :
            password'[u] # password[u] =>
               \E r \in Handlers, i \in Codes :
                  /\ pc[r] = "setPassword" /\ who[r] = u
                  /\ item[r] = i /\ codePhone[i] = u /\ codeState[i] = "consumed"]_vars
  BY PasswordStep
<1> QED
  BY <1>1, SessionsSound, PTL DEF Spec, PasswordChangesOnlyByReset

-----------------------------------------------------------------------------
(* Suspension.                                                             *)

\* No live token of u, no request that may issue one: what CutOff says of them.
NoWayIn(u) ==
    /\ \A t \in Tokens : tokenState[t] = "live" => tokenUser[t] # u
    /\ \A q \in Handlers : who[q] = u => pc[q] \notin Issuing

\* A request that arrives for an account cut off is turned away, or is one
\* that opens no session.
LEMMA ArrivalCutOff ==
    ASSUME Sound, NEW r \in Handlers, Arrival(r), NEW u \in suspended, NoWayIn(u)
    PROVE  NoWayIn(u)'
<1>1. u \in account /\ RequestTypeOK /\ UNCHANGED tokenVars
  BY TypeParts DEF Sound, SuspendedExist, Arrival, VerifyOtp, Refresh, Register, Login,
     RequestPasswordReset, ConfirmPasswordReset, SuspendUser
<1>2. ASSUME NEW v, NEW i, NEW s, Begin(r, v, i, s), s \in Issuing => v # u PROVE NoWayIn(u)'
  BY <1>1, <1>2 DEF Begin, RequestTypeOK, NoWayIn, tokenVars
<1>3. ASSUME NEW i \in Codes, VerifyOtp(r, i) PROVE NoWayIn(u)'
  BY <1>2, <1>3 DEF VerifyOtp, Issuing
<1>4. ASSUME NEW t \in Tokens, Refresh(r, t) PROVE NoWayIn(u)'
  <2>1. tokenUser[t] # u /\ Begin(r, tokenUser[t], t, "rotate")
    BY <1>4 DEF Refresh, NoWayIn
  <2> QED
    BY <1>2, <2>1
<1>5. ASSUME NEW v \in People, Register(r, v) PROVE NoWayIn(u)'
  BY <1>1, <1>2, <1>5 DEF Register
<1>6. ASSUME NEW v \in People, Login(r, v) PROVE NoWayIn(u)'
  BY <1>2, <1>6 DEF Login
<1>7. ASSUME NEW v \in People, ConfirmPasswordReset(r, v) PROVE NoWayIn(u)'
  BY <1>2, <1>7 DEF ConfirmPasswordReset
<1>8. ASSUME NEW v \in People, RequestPasswordReset(r, v) PROVE NoWayIn(u)'
  BY <1>2, <1>8 DEF RequestPasswordReset, Issuing
<1>9. ASSUME NEW v \in People, SuspendUser(r, v) PROVE NoWayIn(u)'
  BY <1>2, <1>9 DEF SuspendUser, Issuing
<1> QED
  BY <1>3, <1>4, <1>5, <1>6, <1>7, <1>8, <1>9 DEF Arrival

\* A request that goes on gives it no session either.
LEMMA AdvanceCutOff ==
    ASSUME Sound, NEW r \in Handlers, Advance(r), NEW u \in suspended, NoWayIn(u)
    PROVE  NoWayIn(u)'
<1>1. u \in account /\ u \in People /\ RequestTypeOK
  BY TypeParts DEF Sound, SuspendedExist, TypeOK
<1>2. ASSUME UNCHANGED tokenUser, \A t \in Tokens : tokenState'[t] = "live" => tokenState[t] = "live",
             \/ Forget(r)
             \/ \E s, t : Step(r, s, t) /\ (t \in Issuing => s \in Issuing \/ who[r] # u)
      PROVE  NoWayIn(u)'
  <2>1. CASE Forget(r)
    BY <1>1, <1>2, <2>1 DEF Forget, RequestTypeOK, NoWayIn, Issuing
  <2>2. ASSUME NEW s, NEW t, Step(r, s, t), t \in Issuing => s \in Issuing \/ who[r] # u
        PROVE  NoWayIn(u)'
    BY <1>1, <1>2, <2>2 DEF Step, RequestTypeOK, NoWayIn
  <2> QED
    BY <1>2, <2>1, <2>2
<1>3. CASE IssueTokens(r)
  <2>1. who[r] # u
    BY <1>3 DEF IssueTokens, NoWayIn, Issuing
  <2>2. PICK t \in Tokens : /\ tokenState' = [tokenState EXCEPT ![t] = "live"]
                            /\ tokenUser' = [tokenUser EXCEPT ![t] = who[r]]
    BY <1>3 DEF IssueTokens
  <2>3. Forget(r)
    BY <1>3 DEF IssueTokens
  <2>4. \A v \in Tokens : tokenState'[v] = "live" => tokenUser'[v] # u
    BY <2>1, <2>2 DEF NoWayIn, Sound, TypeOK
  <2>5. \A q \in Handlers : who'[q] = u => pc'[q] \notin Issuing
    BY <1>1, <2>3 DEF Forget, RequestTypeOK, NoWayIn, Issuing
  <2> QED
    BY <2>4, <2>5 DEF NoWayIn
<1>4. CASE RevokeAllForUser(r)
  BY <1>2, <1>4 DEF RevokeAllForUser, Issuing
<1>5. CASE Rotate(r)
  <2>1. UNCHANGED tokenUser /\ \A t \in Tokens : tokenState'[t] = "live" => tokenState[t] = "live"
    BY <1>5 DEF Rotate, Sound, TypeOK
  <2>2. Step(r, "rotate", "issue")
    BY <1>5 DEF Rotate
  <2> QED
    BY <1>2, <2>1, <2>2 DEF Issuing
<1>6. CASE FindUser(r)
  <2>1. UNCHANGED <<tokenUser, tokenState>>
    BY <1>6 DEF FindUser, tokenVars
  <2>2. Forget(r) \/ (who[r] # u /\ \E t : Step(r, "findUser", t))
    BY <1>1, <1>6 DEF FindUser
  <2> QED
    BY <1>2, <2>1, <2>2
<1>7. CASE FindResetCode(r)
  <2>1. UNCHANGED <<tokenUser, tokenState>>
    BY <1>7 DEF FindResetCode, tokenVars
  <2>2. CASE Forget(r)
    BY <1>2, <2>1, <2>2
  <2>3. CASE pc[r] = "findResetCode" /\ pc' = [pc EXCEPT ![r] = "consumeResetCode"] /\ UNCHANGED who
    BY <1>1, <2>1, <2>3 DEF NoWayIn, Issuing, RequestTypeOK
  <2> QED
    BY <1>7, <2>2, <2>3 DEF FindResetCode
<1>8. CASE ConsumeCode(r)
  BY <1>2, <1>8 DEF ConsumeCode, Issuing, tokenVars
<1>9. CASE CreateUser(r) \/ CreateRegistered(r)
  BY <1>2, <1>9 DEF CreateUser, CreateRegistered, Issuing, tokenVars
<1>10. CASE SetPassword(r)
  BY <1>2, <1>10 DEF SetPassword, Issuing, tokenVars
<1>11. CASE CreateResetCode(r)
  BY <1>2, <1>11 DEF CreateResetCode, tokenVars
<1>12. CASE Suspend(r)
  BY <1>2, <1>12 DEF Suspend, Issuing, tokenVars
<1> QED
  BY <1>3, <1>4, <1>5, <1>6, <1>7, <1>8, <1>9, <1>10, <1>11, <1>12 DEF Advance

LEMMA CutOffStep ==
    ASSUME Sound, Next, NEW u \in People, CutOff(u), u \in suspended'
    PROVE  CutOff(u)'
<1>1. u \in suspended /\ NoWayIn(u)
  BY DEF CutOff, NoWayIn, LiveTokens
<1>2. NoWayIn(u)'
  <2>1. ASSUME NEW r \in Handlers, Throws(r) PROVE NoWayIn(u)'
    BY <1>1, <2>1 DEF Throws, Forget, Sound, TypeOK, NoWayIn, Issuing, tokenVars
  <2>2. ASSUME Atomic \/ World PROVE NoWayIn(u)'
    <3>1. UNCHANGED tokenVars /\ UNCHANGED requestVars
      BY <2>2 DEF Atomic, World, RequestOtp, UpdateMe, UnsuspendUser, SetUserRole, CodeExpires
    <3> QED
      BY <1>1, <3>1 DEF NoWayIn, tokenVars, requestVars
  <2> QED
    BY <1>1, <2>1, <2>2, ArrivalCutOff, AdvanceCutOff DEF Next, Calls
<1> QED
  BY <1>2 DEF CutOff, NoWayIn, LiveTokens

\* Once a suspended account has neither a session nor a request that may open
\* one, no login, code, reset or refresh opens one until it is unsuspended.
THEOREM SuspensionLasts == Spec => CutStaysCut
<1>1. Sound /\ [Next]_vars =>
         [\A u \in People : CutOff(u) /\ u \in suspended' => CutOff(u)']_vars
  BY CutOffStep
<1> QED
  BY <1>1, SessionsSound, PTL DEF Spec, CutStaysCut

-----------------------------------------------------------------------------
(* An account that was not disturbed: what a step must show.               *)

\* A step that is not about account u leaves what its requests rely on.
Untouched(u) ==
    /\ u \in suspended' <=> u \in suspended
    /\ password'[u] = password[u]
    /\ EffectiveRole(u)' = EffectiveRole(u)
    /\ \A i \in Codes : codePhone[i] = u /\ codeState'[i] = "consumed" => codeState[i] = "consumed"
    /\ LiveTokens(u)' = LiveTokens(u)
    /\ \A t \in LiveTokens(u) : tokenBasis'[t] = tokenBasis[t]

\* Nothing of the account is to be closed.
InOrder(u) ==
    \A t \in LiveTokens(u) : u \notin suspended /\ tokenBasis[t] = password[u]

\* A request about an account that stays undisturbed is the only one.
LEMMA Alone ==
    ASSUME CalmInv, Remember, NEW r \in Handlers, \A q \in Handlers : q # r => SameRequest(q),
           NEW u \in People \ disturbed', who[r] = u \/ who'[r] = u
    PROVE  u \in People \ disturbed /\ \A q \in Handlers : q # r => who[q] # u /\ who'[q] # u
<1>1. u \in People \ disturbed /\ ~Overlapped(u)'
  BY DEF Remember, Disturbs
<1>2. ASSUME NEW q \in Handlers, q # r PROVE who[q] # u /\ who'[q] # u
  BY <1>1, <1>2 DEF Overlapped, SameRequest, CalmInv, AccountInv, OneRequest
<1> QED
  BY <1>1, <1>2

\* It knows of its account what it has read, and only its own revocation is
\* still to come.
LEMMA OwnIsInOrder ==
    ASSUME Sound, CalmInv, Remember, NEW r \in Handlers,
           \A q \in Handlers : q # r => SameRequest(q),
           NEW u \in People \ disturbed', who[r] = u \/ who'[r] = u
    PROVE  /\ who[r] = u => Entitled(r)
           /\ pc[r] \notin {"revokeOld", "revokeSuspended"} => InOrder(u)
<1>1. /\ u \in People \ disturbed /\ AccountInv(u)
      /\ \A q \in Handlers : q # r => who[q] # u
  BY Alone DEF CalmInv
<1>2. ASSUME pc[r] \notin {"revokeOld", "revokeSuspended"} PROVE InOrder(u)
  <2>1. ~Closing("revokeOld", u) /\ ~Closing("revokeSuspended", u)
    BY <1>1, <1>2 DEF Closing
  <2> QED
    BY <1>1, <2>1 DEF AccountInv, Justified, InOrder
<1> QED
  BY <1>1, <1>2 DEF AccountInv

\* An account no request of the step is about.
LEMMA OthersKept ==
    ASSUME Sound, CalmInv, NEW r \in Handlers, \A q \in Handlers : q # r => SameRequest(q),
           NEW u \in People \ disturbed, who[r] # u, who'[r] # u, Untouched(u)
    PROVE  AccountInv(u)'
<1>1. AccountInv(u) /\ \A q \in Handlers : who'[q] = u => q # r /\ SameRequest(q) /\ who[q] = u
  BY DEF CalmInv, SameRequest
<1>2. OneRequest(u)'
  BY <1>1 DEF AccountInv, OneRequest
<1>3. ASSUME NEW q \in Handlers, who'[q] = u PROVE Entitled(q)'
  <2>1. SameRequest(q) /\ who[q] = u /\ Entitled(q) /\ Stage(q)
    BY <1>1, <1>3 DEF AccountInv, Sound, Stages
  <2>2. pc[q] \in {"consumeCode", "consumeResetCode"} =>
           item[q] \in Codes /\ codeState'[item[q]] # "consumed"
    BY <2>1 DEF Stage, Untouched, Entitled
  <2>3. pc[q] = "rotate" => item[q] \in LiveTokens(u)'
    BY <2>1 DEF Untouched, Entitled
  <2>4. pc[q] = "suspend" => EffectiveRole(u)' = "user"
    BY <2>1 DEF Untouched, Entitled
  <2>5. /\ pc[q] \in Issuing => u \notin suspended'
        /\ pc[q] \in {"revokeOld", "rotate", "issue"} => basis[q] = password'[u]
    BY <2>1 DEF Untouched, Entitled
  <2>6. pc'[q] = pc[q] /\ who'[q] = u /\ item'[q] = item[q] /\ basis'[q] = basis[q]
    BY <2>1 DEF SameRequest
  <2>7. pc'[q] = "rotate" => item'[q] \in {t \in Tokens : tokenUser'[t] = who'[q] /\ tokenState'[t] = "live"}
    BY <2>3, <2>6 DEF LiveTokens
  <2>8. pc'[q] = "suspend" =>
            (IF who'[q] \in isAdmin' THEN "admin" ELSE role'[who'[q]]) = "user"
    BY <2>4, <2>6 DEF EffectiveRole
  <2> QED
    BY <2>2, <2>5, <2>6, <2>7, <2>8 DEF Entitled, EffectiveRole, LiveTokens
<1>4. Justified(u)'
  <2>1. \A s : Closing(s, u) => Closing(s, u)'
    <3>1. ASSUME NEW s, NEW q \in Handlers, pc[q] = s, who[q] = u PROVE Closing(s, u)'
      <4>1. q # r /\ SameRequest(q)
        BY <3>1
      <4> QED
        BY <3>1, <4>1 DEF Closing, SameRequest
    <3> QED
      BY <3>1 DEF Closing
  <2>2. ASSUME NEW t \in LiveTokens(u)'
        PROVE  /\ u \in suspended' => Closing("revokeSuspended", u)
               /\ tokenBasis'[t] # password'[u] => Closing("revokeOld", u)
    <3>1. t \in LiveTokens(u) /\ tokenBasis'[t] = tokenBasis[t]
      BY <2>2 DEF Untouched
    <3> QED
      BY <1>1, <3>1 DEF Untouched, AccountInv, Justified
  <2> QED
    BY <2>1, <2>2 DEF Justified
<1> QED
  BY <1>2, <1>3, <1>4 DEF AccountInv

\* One request moves: what it must show about the account it is about, and
\* about one it leaves.
LEMMA RequestMoves ==
    ASSUME Sound, CalmInv, Remember, NEW r \in Handlers,
           \A q \in Handlers : q # r => SameRequest(q),
           \A u \in People : u # who[r] /\ u # who'[r] => Untouched(u),
           who'[r] \in People \ disturbed' => Entitled(r)',
           \A u \in People \ disturbed' : who[r] = u \/ who'[r] = u => Justified(u)',
           pc'[r] = "idle" => who'[r] = None,
           NewHaveNoPassword'
    PROVE  CalmInv'
<1>1. IdleKnowNothing'
  BY DEF CalmInv, IdleKnowNothing, SameRequest
<1>2. ASSUME NEW u \in People \ disturbed' PROVE AccountInv(u)'
  <2>1. u \in People \ disturbed /\ ~Overlapped(u)'
    BY DEF Remember, Disturbs
  <2>2. OneRequest(u)'
    BY <2>1 DEF Overlapped, OneRequest
  <2>3. CASE who'[r] = u
    <3>1. \A q \in Handlers : q # r => who'[q] # u
      BY <2>3, Alone
    <3> QED
      BY <2>2, <2>3, <3>1 DEF AccountInv
  <2>4. CASE who'[r] # u /\ who[r] = u
    <3>1. \A q \in Handlers : who'[q] # u
      BY <2>4, Alone
    <3> QED
      BY <2>2, <2>4, <3>1 DEF AccountInv
  <2>5. CASE who'[r] # u /\ who[r] # u
    BY <2>1, <2>5, OthersKept
  <2> QED
    BY <2>3, <2>4, <2>5
<1> QED
  BY <1>1, <1>2 DEF CalmInv

\* A step that leaves every account, code and session leaves them to all.
LEMMA NothingTouched ==
    ASSUME UNCHANGED <<accountVars, tokenVars>>,
           \A i \in Codes : codeState'[i] = "consumed" => codeState[i] = "consumed"
    PROVE  /\ \A u \in People : Untouched(u)
           /\ NewHaveNoPassword <=> NewHaveNoPassword'
BY DEF Untouched, EffectiveRole, LiveTokens, NewHaveNoPassword, accountVars, tokenVars

\* While no revocation is under way, an account stays in order when it gets
\* no session, no suspension and no other password.
LEMMA StaysInOrder ==
    ASSUME Sound, NEW u \in People, InOrder(u), UNCHANGED <<tokenUser, tokenBasis>>,
           \A t \in Tokens : tokenState'[t] = "live" => tokenState[t] = "live",
           u \in suspended' => u \in suspended,
           u \in account => password'[u] = password[u]
    PROVE  Justified(u)'
<1>1. ASSUME NEW t \in Tokens, tokenUser'[t] = u, tokenState'[t] = "live"
      PROVE  u \notin suspended' /\ tokenBasis'[t] = password'[u]
  <2>1. t \in LiveTokens(u) /\ u \in account
    BY <1>1 DEF LiveTokens, Sound, SessionsHaveAccounts
  <2> QED
    BY <2>1 DEF InOrder
<1> QED
  BY <1>1 DEF Justified, LiveTokens

\* A read: the request must show what it has learnt.
LEMMA ReadCalm ==
    ASSUME Sound, CalmInv, Remember, NEW r \in Handlers,
           \A q \in Handlers : q # r => SameRequest(q),
           UNCHANGED <<accountVars, tokenVars>>,
           \A u \in People : u # who[r] => Untouched(u),
           pc[r] \notin {"revokeOld", "revokeSuspended"},
           who'[r] \in People \ disturbed' => Entitled(r)',
           pc'[r] = "idle" => who'[r] = None
    PROVE  CalmInv'
<1>1. ASSUME NEW u \in People \ disturbed', who[r] = u \/ who'[r] = u PROVE Justified(u)'
  <2>1. InOrder(u)
    BY <1>1, OwnIsInOrder
  <2> QED
    BY <2>1, StaysInOrder DEF accountVars, tokenVars
<1>2. NewHaveNoPassword'
  BY DEF CalmInv, NewHaveNoPassword, accountVars
<1> QED
  BY <1>1, <1>2, RequestMoves

-----------------------------------------------------------------------------
LEMMA ArrivalCalm ==
    ASSUME Sound, CalmInv, Remember, NEW r \in Handlers, Arrival(r)
    PROVE  CalmInv'
<1>1. /\ UNCHANGED <<accountVars, codeVars, tokenVars, now>>
      /\ pc[r] = "idle"
  BY DEF Arrival, VerifyOtp, Refresh, Register, Login, RequestPasswordReset, ConfirmPasswordReset,
         SuspendUser, Begin
<1>2. \A u \in People : Untouched(u)
  BY <1>1, NothingTouched DEF codeVars
<1>3. ASSUME Entitled(r)', \A q \in Handlers : q # r => SameRequest(q), pc'[r] # "idle"
      PROVE  CalmInv'
  BY <1>1, <1>2, <1>3, ReadCalm
<1>4. ASSUME NEW u \in People, NEW i \in Codes \cup Tokens \cup {0}, NEW s \in PcValues \ {"idle"},
             Begin(r, u, i, s), basis' = basis,
             s \notin {"revokeOld", "rotate", "issue"},
             s \in Issuing => u \notin suspended,
             s \in {"consumeCode", "consumeResetCode"} => codeState[i] # "consumed",
             s = "suspend" => EffectiveRole(u) = "user"
      PROVE  CalmInv'
  <2>1. /\ pc'[r] = s /\ who'[r] = u /\ item'[r] = i
        /\ \A q \in Handlers : q # r => SameRequest(q)
    BY <1>4, ArrivedPlain
  <2>2. Entitled(r)'
    BY <1>1, <1>4, <2>1 DEF Entitled, EffectiveRole, accountVars, codeVars
  <2> QED
    BY <1>3, <2>1, <2>2
<1>5. ASSUME NEW i \in Codes, VerifyOtp(r, i) PROVE CalmInv'
  <2>1. codePhone[i] \in People /\ codeState[i] = "fresh"
    BY <1>5 DEF VerifyOtp, Sound, CodesHavePhones
  <2> QED
    BY <1>4, <1>5, <2>1 DEF VerifyOtp, PcValues, Issuing
<1>6. ASSUME NEW t \in Tokens, Refresh(r, t) PROVE CalmInv'
  <2>1. PICK u \in People :
           /\ t \in LiveTokens(u) /\ tokenBasis[t] \in Nat
           /\ Begin(r, u, t, "rotate") /\ basis' = [basis EXCEPT ![r] = tokenBasis[t]]
    BY <1>6 DEF Refresh, Sound, SessionsHaveAccounts, TypeOK, LiveTokens
  <2>2. /\ pc'[r] = "rotate" /\ who'[r] = u /\ item'[r] = t /\ basis'[r] = tokenBasis[t]
        /\ \A q \in Handlers : q # r => SameRequest(q)
    <3>1. "rotate" \in PcValues /\ t \in Codes \cup Tokens \cup {0}
      BY DEF PcValues
    <3> QED
      BY <2>1, <3>1, ArrivedKnowing
  <2>3. ASSUME u \notin disturbed' PROVE u \notin suspended /\ tokenBasis[t] = password[u]
    <3>1. InOrder(u)
      BY <1>1, <2>1, <2>2, <2>3, OwnIsInOrder
    <3> QED
      BY <2>1, <3>1 DEF InOrder
  <2>4. who'[r] \in People \ disturbed' => Entitled(r)'
    BY <1>1, <2>1, <2>2, <2>3 DEF Entitled, LiveTokens, accountVars, tokenVars
  <2> QED
    BY <1>1, <1>2, <2>2, <2>4, ReadCalm
<1>7. ASSUME NEW u \in People, Register(r, u) PROVE CalmInv'
  BY <1>4, <1>7 DEF Register, PcValues, Sound, SuspendedExist
<1>8. ASSUME NEW u \in People, Login(r, u) PROVE CalmInv'
  <2>1. password[u] \in Nat /\ "issue" \in PcValues /\ 0 \in Codes \cup Tokens \cup {0}
    BY DEF Sound, TypeOK, PcValues
  <2>2. /\ pc'[r] = "issue" /\ who'[r] = u /\ basis'[r] = password[u]
        /\ \A q \in Handlers : q # r => SameRequest(q)
    BY <1>8, <2>1, ArrivedKnowing DEF Login
  <2>3. Entitled(r)'
    BY <1>1, <1>8, <2>2 DEF Login, Entitled, accountVars
  <2> QED
    BY <1>3, <2>2, <2>3
<1>9. ASSUME NEW u \in People, RequestPasswordReset(r, u) PROVE CalmInv'
  BY <1>4, <1>9 DEF RequestPasswordReset, PcValues, Issuing
<1>10. ASSUME NEW u \in People, ConfirmPasswordReset(r, u) PROVE CalmInv'
  BY <1>4, <1>10 DEF ConfirmPasswordReset, PcValues
<1>11. ASSUME NEW u \in People, SuspendUser(r, u) PROVE CalmInv'
  BY <1>4, <1>11 DEF SuspendUser, PcValues, Issuing
<1> QED
  BY <1>5, <1>6, <1>7, <1>8, <1>9, <1>10, <1>11 DEF Arrival

-----------------------------------------------------------------------------
(* The awaits of a request.                                                *)

\* A request that is over knows nothing, and needs nothing.
LEMMA Over ==
    ASSUME Sound, NEW r \in Handlers, Forget(r)
    PROVE  /\ pc'[r] = "idle" /\ who'[r] = None /\ Entitled(r)'
           /\ \A q \in Handlers : q # r => SameRequest(q)
<1>1. /\ pc'[r] = "idle" /\ who'[r] = None
      /\ \A q \in Handlers : q # r => SameRequest(q)
  BY Forgotten, TypeParts DEF Sound
<1> QED
  BY <1>1 DEF Entitled, Issuing

\* Reads, and writes of codes.
LEMMA LightCalm ==
    ASSUME Sound, CalmInv, Remember, NEW r \in Handlers,
           ConsumeCode(r) \/ FindUser(r) \/ CreateResetCode(r) \/ FindResetCode(r)
    PROVE  CalmInv'
<1>1. /\ pc[r] \in {"consumeCode", "consumeResetCode", "findUser", "createCode", "findResetCode"}
      /\ who[r] \in People
      /\ UNCHANGED <<accountVars, tokenVars, now>>
  BY DEF ConsumeCode, FindUser, CreateResetCode, FindResetCode, Step, Sound, Stages, Stage
<1>2. ASSUME NEW u \in People, u # who[r] PROVE Untouched(u)
  <2>1. CASE ConsumeCode(r)
    <3>1. item[r] \in Codes /\ codePhone[item[r]] = who[r]
      BY <2>1 DEF ConsumeCode, Step, Sound, Stages, Stage
    <3>2. \A i \in Codes : codePhone[i] = u => codeState'[i] = codeState[i]
      BY <1>2, <2>1, <3>1 DEF ConsumeCode, Sound, TypeOK
    <3> QED
      BY <1>1, <3>2 DEF Untouched, EffectiveRole, LiveTokens, accountVars, tokenVars
  <2>2. CASE FindUser(r) \/ CreateResetCode(r) \/ FindResetCode(r)
    <3>1. \A i \in Codes : codeState'[i] = "consumed" => codeState[i] = "consumed"
      BY <2>2 DEF FindUser, CreateResetCode, FindResetCode, NewCode, codeVars, Sound, TypeOK
    <3> QED
      BY <1>1, <3>1, NothingTouched
  <2> QED
    BY <2>1, <2>2
<1>3. ASSUME who'[r] \in People \ disturbed' => Entitled(r)', pc'[r] = "idle" => who'[r] = None,
             \A q \in Handlers : q # r => SameRequest(q)
      PROVE  CalmInv'
  BY <1>1, <1>2, <1>3, ReadCalm
<1>4. CASE Forget(r)
  BY <1>3, <1>4, Over
<1>5. CASE ConsumeCode(r)
  <2>1. /\ \/ pc[r] = "consumeCode" /\ pc'[r] = "findUser"
           \/ pc[r] = "consumeResetCode" /\ pc'[r] = "setPassword"
        /\ who'[r] = who[r]
        /\ \A q \in Handlers : q # r => SameRequest(q)
    BY <1>5, WentOn DEF ConsumeCode, PcValues
  <2>2. who[r] \notin disturbed' => Entitled(r)
    BY <1>1, <2>1, OwnIsInOrder
  <2>3. who'[r] \in People \ disturbed' => Entitled(r)'
    BY <1>1, <2>1, <2>2 DEF Entitled, Issuing, accountVars
  <2> QED
    BY <1>3, <2>1, <2>3
<1>6. CASE FindUser(r) /\ Step(r, "findUser", "createUser") /\ who[r] \notin account /\ UNCHANGED basis
  <2>1. /\ pc'[r] = "createUser" /\ who'[r] = who[r]
        /\ \A q \in Handlers : q # r => SameRequest(q)
    BY <1>6, WentOn DEF PcValues
  <2>2. Entitled(r)'
    BY <1>1, <1>6, <2>1 DEF Entitled, Sound, SuspendedExist, accountVars
  <2> QED
    BY <1>3, <2>1, <2>2
<1>7. CASE FindUser(r) /\ Step(r, "findUser", "issue") /\ who[r] \in account \ suspended
           /\ basis' = [basis EXCEPT ![r] = password[who[r]]]
  <2>1. password[who[r]] \in Nat /\ "issue" \in PcValues
    BY <1>7 DEF Sound, TypeOK, PcValues
  <2>2. /\ pc'[r] = "issue" /\ who'[r] = who[r] /\ basis'[r] = password[who[r]]
        /\ \A q \in Handlers : q # r => SameRequest(q)
    BY <1>7, <2>1, WentOnKnowing
  <2>3. Entitled(r)'
    BY <1>1, <1>7, <2>2 DEF Entitled, accountVars
  <2> QED
    BY <1>3, <2>2, <2>3
<1>8. CASE FindResetCode(r) /\ ~Forget(r)
  <2>1. PICK i \in Codes : /\ pc[r] = "findResetCode" /\ codeState[i] = "fresh"
                           /\ pc' = [pc EXCEPT ![r] = "consumeResetCode"]
                           /\ item' = [item EXCEPT ![r] = i]
                           /\ UNCHANGED <<who, basis, codeVars>>
    BY <1>8 DEF FindResetCode
  <2>2. /\ pc'[r] = "consumeResetCode" /\ item'[r] = i /\ who'[r] = who[r] /\ codeState'[i] = "fresh"
        /\ \A q \in Handlers : q # r => SameRequest(q)
    BY <2>1 DEF Sound, TypeOK, SameRequest, codeVars
  <2>3. who[r] \notin disturbed' => Entitled(r)
    BY <1>1, <2>2, OwnIsInOrder
  <2>4. who'[r] \in People \ disturbed' => Entitled(r)'
    BY <1>1, <2>1, <2>2, <2>3 DEF Entitled, Issuing, accountVars
  <2> QED
    BY <1>3, <2>2, <2>4
<1>9. CASE CreateResetCode(r)
  BY <1>4, <1>9 DEF CreateResetCode
<1> QED
  BY <1>4, <1>5, <1>6, <1>7, <1>8, <1>9 DEF FindUser

\* A new account has no suspension, no session and the password it was
\* registered with.
LEMMA CreateCalm ==
    ASSUME Sound, CalmInv, Remember, NEW r \in Handlers, CreateUser(r) \/ CreateRegistered(r)
    PROVE  CalmInv'
<1>1. PICK u \in People :
         /\ who[r] = u /\ pc[r] \in {"createUser", "register"}
         /\ UNCHANGED <<suspended, role, isAdmin, codeVars, tokenVars>>
         /\ pc[r] = "createUser" => basis[r] = 0
  BY DEF CreateUser, CreateRegistered, Step, Sound, Stages, Stage
<1>2. ASSUME \A q \in Handlers : q # r => SameRequest(q), NewHaveNoPassword',
             \A v \in People : v # u \/ u \in account => password'[v] = password[v],
             who'[r] = u => Entitled(r)' \/ u \in disturbed', pc'[r] = "idle" => who'[r] = None,
             who'[r] \in {u, None}
      PROVE  CalmInv'
  <2>1. \A v \in People : v # who[r] => Untouched(v)
    BY <1>1, <1>2 DEF Untouched, EffectiveRole, LiveTokens, codeVars, tokenVars
  <2>2. ASSUME u \notin disturbed' PROVE Justified(u)'
    <3>1. InOrder(u)
      BY <1>1, <1>2, <2>2, OwnIsInOrder
    <3> QED
      BY <1>1, <1>2, <3>1, StaysInOrder DEF tokenVars
  <2>3. None \notin People
    BY SessionsAssumption
  <2> QED
    BY <1>1, <1>2, <2>1, <2>2, <2>3, RequestMoves
<1>3. CASE Forget(r) /\ UNCHANGED <<account, password>>
  <2>1. NewHaveNoPassword'
    BY <1>3 DEF CalmInv, NewHaveNoPassword
  <2> QED
    BY <1>2, <1>3, <2>1, Over
<1>4. CASE u \notin account /\ Step(r, "createUser", "issue") /\ UNCHANGED <<basis, password>>
           /\ account' = account \cup {u}
  <2>1. /\ pc[r] = "createUser" /\ pc'[r] = "issue" /\ who'[r] = u /\ basis'[r] = basis[r]
        /\ \A q \in Handlers : q # r => SameRequest(q)
    BY <1>1, <1>4, WentOn DEF PcValues
  <2>2. basis'[r] = 0 /\ password'[u] = 0 /\ u \notin suspended'
    BY <1>1, <1>4, <2>1 DEF CalmInv, NewHaveNoPassword, Sound, SuspendedExist
  <2>3. Entitled(r)'
    BY <1>1, <2>1, <2>2 DEF Entitled
  <2>4. NewHaveNoPassword'
    BY <1>4 DEF CalmInv, NewHaveNoPassword
  <2> QED
    BY <1>2, <1>4, <2>1, <2>3, <2>4
<1>5. CASE u \notin account /\ Step(r, "register", "issue") /\ basis' = [basis EXCEPT ![r] = 1]
           /\ account' = account \cup {u} /\ password' = [password EXCEPT ![u] = 1]
  <2>1. /\ pc'[r] = "issue" /\ who'[r] = u /\ basis'[r] = 1
        /\ \A q \in Handlers : q # r => SameRequest(q)
    <3>1. "issue" \in PcValues /\ 1 \in Nat
      BY DEF PcValues
    <3> QED
      BY <1>1, <1>5, <3>1, WentOnKnowing
  <2>2. /\ password'[u] = 1 /\ \A v \in People : v # u => password'[v] = password[v]
        /\ u \notin suspended'
    BY <1>1, <1>5 DEF Sound, TypeOK, SuspendedExist
  <2>3. Entitled(r)'
    BY <1>1, <2>1, <2>2 DEF Entitled
  <2>4. NewHaveNoPassword'
    BY <1>5, <2>2 DEF CalmInv, NewHaveNoPassword, Sound, TypeOK
  <2> QED
    BY <1>2, <1>5, <2>1, <2>2, <2>3, <2>4
<1> QED
  BY <1>1, <1>3, <1>4, <1>5 DEF CreateUser, CreateRegistered

\* After a new password only the request that set it may leave old sessions.
LEMMA SetPasswordCalm ==
    ASSUME Sound, CalmInv, Remember, NEW r \in Handlers, SetPassword(r)
    PROVE  CalmInv'
<1>1. PICK u \in People :
         /\ who[r] = u /\ pc[r] = "setPassword" /\ u \in account
         /\ Step(r, "setPassword", "revokeOld")
         /\ password' = [password EXCEPT ![u] = password[u] + 1]
         /\ basis' = [basis EXCEPT ![r] = password[u] + 1]
         /\ UNCHANGED <<account, suspended, role, isAdmin, codeVars, tokenVars>>
         /\ password \in [People -> Nat] /\ password[u] + 1 \in Nat
  <2>1. who[r] \in People /\ who[r] \in account /\ pc[r] = "setPassword"
    BY DEF SetPassword, Step, Sound, Stages, Stage
  <2>2. password \in [People -> Nat] /\ password[who[r]] + 1 \in Nat
    BY <2>1 DEF Sound, TypeOK
  <2> QED
    BY <2>1, <2>2 DEF SetPassword
<1>2. /\ pc'[r] = "revokeOld" /\ who'[r] = u /\ basis'[r] = password[u] + 1
      /\ \A q \in Handlers : q # r => SameRequest(q)
  <2>1. "revokeOld" \in PcValues
    BY DEF PcValues
  <2> QED
    BY <1>1, <2>1, WentOnKnowing
<1>3. ASSUME u \notin disturbed' PROVE Entitled(r)' /\ Justified(u)'
  <2>1. Entitled(r) /\ InOrder(u)
    BY <1>1, <1>2, <1>3, OwnIsInOrder
  <2>2. u \notin suspended'
    BY <1>1, <2>1 DEF Entitled, Issuing
  <2>3. Entitled(r)'
    BY <1>1, <1>2, <2>2 DEF Entitled
  <2>4. Closing("revokeOld", u)'
    BY <1>2 DEF Closing
  <2> QED
    BY <2>2, <2>3, <2>4 DEF Justified
<1>4. \A v \in People : v # who[r] => Untouched(v)
  BY <1>1 DEF Untouched, EffectiveRole, LiveTokens, codeVars, tokenVars
<1>5. NewHaveNoPassword'
  BY <1>1 DEF CalmInv, NewHaveNoPassword
<1> QED
  BY <1>1, <1>2, <1>3, <1>4, <1>5, RequestMoves

\* revokeAllForUser closes what was left.
LEMMA RevokeCalm ==
    ASSUME Sound, CalmInv, Remember, NEW r \in Handlers, RevokeAllForUser(r)
    PROVE  CalmInv'
<1>1. PICK u \in People :
         /\ who[r] = u /\ pc[r] \in {"revokeOld", "revokeSuspended"}
         /\ UNCHANGED <<tokenUser, tokenBasis, accountVars, codeVars>>
         /\ tokenState' = [t \in Tokens |-> IF tokenUser[t] = u /\ tokenState[t] = "live"
                                            THEN "revoked" ELSE tokenState[t]]
  BY DEF RevokeAllForUser, Step, Sound, Stages, Stage
<1>2. LiveTokens(u)' = {}
  BY <1>1 DEF LiveTokens
<1>3. Justified(u)'
  BY <1>2 DEF Justified
<1>4. \A v \in People : v # who[r] => Untouched(v)
  BY <1>1 DEF Untouched, EffectiveRole, LiveTokens, accountVars, codeVars
<1>5. NewHaveNoPassword'
  BY <1>1 DEF CalmInv, NewHaveNoPassword, accountVars
<1>6. CASE pc[r] = "revokeSuspended" /\ Forget(r)
  <2>1. /\ pc'[r] = "idle" /\ who'[r] = None /\ Entitled(r)'
        /\ \A q \in Handlers : q # r => SameRequest(q)
    BY <1>6, Over
  <2>2. None \notin People
    BY SessionsAssumption
  <2> QED
    BY <1>1, <1>3, <1>4, <1>5, <2>1, <2>2, RequestMoves
<1>7. CASE Step(r, "revokeOld", "issue") /\ UNCHANGED basis
  <2>1. /\ pc[r] = "revokeOld" /\ pc'[r] = "issue" /\ who'[r] = u /\ basis'[r] = basis[r]
        /\ \A q \in Handlers : q # r => SameRequest(q)
    BY <1>1, <1>7, WentOn DEF PcValues
  <2>2. u \notin disturbed' => Entitled(r)
    BY <1>1, <2>1, OwnIsInOrder
  <2>3. u \notin disturbed' => Entitled(r)'
    BY <1>1, <2>1, <2>2 DEF Entitled, Issuing, accountVars
  <2> QED
    BY <1>1, <1>3, <1>4, <1>5, <2>1, <2>3, RequestMoves
<1> QED
  BY <1>1, <1>6, <1>7 DEF RevokeAllForUser

\* The session a request opens is one its account may have.
LEMMA IssueCalm ==
    ASSUME Sound, CalmInv, Remember, NEW r \in Handlers, IssueTokens(r)
    PROVE  CalmInv'
<1>1. PICK u \in People, n \in Tokens :
         /\ who[r] = u /\ pc[r] = "issue" /\ tokenState[n] = "absent"
         /\ tokenState' = [tokenState EXCEPT ![n] = "live"]
         /\ tokenUser' = [tokenUser EXCEPT ![n] = u]
         /\ tokenBasis' = [tokenBasis EXCEPT ![n] = basis[r]]
         /\ Forget(r) /\ UNCHANGED <<accountVars, codeVars>>
  BY DEF IssueTokens, Sound, Stages, Stage
<1>2. /\ pc'[r] = "idle" /\ who'[r] = None /\ Entitled(r)' /\ None \notin People
      /\ \A q \in Handlers : q # r => SameRequest(q)
  BY <1>1, Over, SessionsAssumption
<1>3. /\ tokenState'[n] = "live" /\ tokenUser'[n] = u /\ tokenBasis'[n] = basis[r]
      /\ \A t \in Tokens : t # n => /\ tokenState'[t] = tokenState[t] /\ tokenUser'[t] = tokenUser[t]
                                    /\ tokenBasis'[t] = tokenBasis[t]
  BY <1>1 DEF Sound, TypeOK
<1>4. ASSUME u \notin disturbed' PROVE Justified(u)'
  <2>1. Entitled(r) /\ InOrder(u)
    BY <1>1, <1>2, <1>4, OwnIsInOrder
  <2>2. u \notin suspended /\ basis[r] = password[u]
    BY <1>1, <2>1 DEF Entitled, Issuing
  <2>3. ASSUME NEW t \in LiveTokens(u)' PROVE u \notin suspended' /\ tokenBasis'[t] = password'[u]
    <3>1. CASE t = n
      BY <1>1, <1>3, <2>2, <3>1 DEF accountVars
    <3>2. CASE t # n
      <4>1. t \in LiveTokens(u) /\ tokenBasis'[t] = tokenBasis[t]
        BY <1>3, <2>3, <3>2 DEF LiveTokens
      <4> QED
        BY <1>1, <2>1, <4>1 DEF InOrder, accountVars
    <3> QED
      BY <3>1, <3>2
  <2> QED
    BY <2>3 DEF Justified
<1>5. ASSUME NEW v \in People, v # who[r] PROVE Untouched(v)
  <2>1. LiveTokens(v)' = LiveTokens(v)
    BY <1>1, <1>3, <1>5 DEF LiveTokens
  <2>2. \A t \in LiveTokens(v) : tokenBasis'[t] = tokenBasis[t]
    BY <1>1, <1>3 DEF LiveTokens
  <2> QED
    BY <1>1, <2>1, <2>2 DEF Untouched, EffectiveRole, accountVars, codeVars
<1>6. NewHaveNoPassword'
  BY <1>1 DEF CalmInv, NewHaveNoPassword, accountVars
<1> QED
  BY <1>1, <1>2, <1>4, <1>5, <1>6, RequestMoves

LEMMA RotateCalm ==
    ASSUME Sound, CalmInv, Remember, NEW r \in Handlers, Rotate(r)
    PROVE  CalmInv'
<1>1. PICK u \in People :
         /\ who[r] = u /\ Step(r, "rotate", "issue")
         /\ item[r] \in Tokens /\ tokenUser[item[r]] = u
         /\ tokenState' = [tokenState EXCEPT ![item[r]] = "revoked"]
         /\ UNCHANGED <<basis, tokenUser, tokenBasis, accountVars, codeVars>>
  BY DEF Rotate, Step, Sound, Stages, Stage
<1>2. /\ pc[r] = "rotate" /\ pc'[r] = "issue" /\ who'[r] = u /\ basis'[r] = basis[r]
      /\ \A q \in Handlers : q # r => SameRequest(q)
  BY <1>1, WentOn DEF PcValues
<1>3. \A t \in Tokens : tokenState'[t] = "live" <=> tokenState[t] = "live" /\ t # item[r]
  BY <1>1 DEF Sound, TypeOK
<1>4. ASSUME u \notin disturbed' PROVE Entitled(r)' /\ Justified(u)'
  <2>1. Entitled(r) /\ InOrder(u)
    BY <1>1, <1>2, <1>4, OwnIsInOrder
  <2>2. Entitled(r)'
    BY <1>1, <1>2, <2>1 DEF Entitled, Issuing, accountVars
  <2> QED
    BY <1>1, <1>3, <2>1, <2>2, StaysInOrder DEF accountVars
<1>5. NewHaveNoPassword'
  BY <1>1 DEF CalmInv, NewHaveNoPassword, accountVars
<1>6. \A v \in People : v # u => Untouched(v)
  BY <1>1, <1>3 DEF Untouched, EffectiveRole, LiveTokens, accountVars, codeVars
<1> QED
  BY <1>1, <1>2, <1>4, <1>5, <1>6, RequestMoves

\* Between the suspension and the revocation its request answers for the
\* sessions that are left.
LEMMA SuspendCalm ==
    ASSUME Sound, CalmInv, Remember, NEW r \in Handlers, Suspend(r)
    PROVE  CalmInv'
<1>1. PICK u \in People :
         /\ who[r] = u /\ Step(r, "suspend", "revokeSuspended")
         /\ suspended' = suspended \cup {u}
         /\ UNCHANGED <<basis, account, password, role, isAdmin, codeVars, tokenVars>>
  BY DEF Suspend, Step, Sound, Stages, Stage
<1>2. /\ pc[r] = "suspend" /\ pc'[r] = "revokeSuspended" /\ who'[r] = u
      /\ \A q \in Handlers : q # r => SameRequest(q)
  BY <1>1, WentOn DEF PcValues
<1>3. Entitled(r)'
  BY <1>2 DEF Entitled, Issuing
<1>4. ASSUME u \notin disturbed' PROVE Justified(u)'
  <2>1. InOrder(u)
    BY <1>1, <1>2, <1>4, OwnIsInOrder
  <2>2. \A t \in LiveTokens(u)' : tokenBasis'[t] = password'[u]
    BY <1>1, <2>1 DEF InOrder, LiveTokens, tokenVars
  <2>3. Closing("revokeSuspended", u)'
    BY <1>2 DEF Closing
  <2> QED
    BY <2>2, <2>3 DEF Justified
<1>5. \A v \in People : v # who[r] => Untouched(v)
  BY <1>1 DEF Untouched, EffectiveRole, LiveTokens, codeVars, tokenVars
<1>6. NewHaveNoPassword'
  BY <1>1 DEF CalmInv, NewHaveNoPassword
<1> QED
  BY <1>1, <1>2, <1>3, <1>4, <1>5, <1>6, RequestMoves

-----------------------------------------------------------------------------
(* Failures and single writes.                                             *)

\* A request that dies leaves something to close only if it disturbs.
LEMMA ThrowsCalm ==
    ASSUME Sound, CalmInv, Remember, NEW r \in Handlers, Throws(r)
    PROVE  CalmInv'
<1>1. PICK u \in People :
         /\ who[r] = u /\ Forget(r) /\ UNCHANGED <<accountVars, codeVars, tokenVars>>
  BY DEF Throws, Sound, Stages, Stage
<1>2. /\ pc'[r] = "idle" /\ who'[r] = None /\ Entitled(r)' /\ None \notin People
      /\ \A q \in Handlers : q # r => SameRequest(q)
  BY <1>1, Over, SessionsAssumption
<1>3. \A v \in People : Untouched(v)
  BY <1>1, NothingTouched DEF codeVars
<1>4. ASSUME u \notin disturbed' PROVE Justified(u)'
  <2>1. CASE pc[r] \in {"revokeOld", "revokeSuspended"}
    <3>1. ~DiesRevoking(u)
      BY <1>4 DEF Remember, Disturbs
    <3>2. LiveTokens(u)' = {}
      BY <1>1, <1>2, <2>1, <3>1 DEF DiesRevoking
    <3> QED
      BY <3>2 DEF Justified
  <2>2. CASE pc[r] \notin {"revokeOld", "revokeSuspended"}
    <3>1. InOrder(u)
      BY <1>1, <1>2, <1>4, <2>2, OwnIsInOrder
    <3> QED
      BY <1>1, <3>1, StaysInOrder DEF accountVars, tokenVars
  <2> QED
    BY <2>1, <2>2
<1>5. NewHaveNoPassword'
  BY <1>1 DEF CalmInv, NewHaveNoPassword, accountVars
<1> QED
  BY <1>1, <1>2, <1>3, <1>4, <1>5, RequestMoves

\* A single write: an account, a role or a code, never a session.
LEMMA SingleWriteCalm ==
    ASSUME Sound, CalmInv, Remember, Atomic \/ World
    PROVE  CalmInv'
<1>1. /\ UNCHANGED <<account, password, tokenVars, requestVars>>
      /\ suspended' \subseteq suspended
      /\ \A i \in Codes : codeState'[i] = "consumed" => codeState[i] = "consumed"
  BY DEF Atomic, World, RequestOtp, NewCode, UpdateMe, UnsuspendUser, SetUserRole, CodeExpires,
         accountVars, codeVars, Sound, TypeOK
<1>2. ASSUME NEW u \in People \ disturbed' PROVE AccountInv(u)'
  <2>1. u \in People \ disturbed /\ AccountInv(u) /\ ~Promoted(u)
    BY DEF Remember, Disturbs, CalmInv
  <2>2. ASSUME NEW r \in Handlers, who[r] = u PROVE Entitled(r)'
    <3>1. /\ Entitled(r)
          /\ pc[r] \in {"consumeCode", "consumeResetCode"} => item[r] \in Codes
      BY <2>1, <2>2 DEF AccountInv, Sound, Stages, Stage
    <3>2. pc[r] = "suspend" => EffectiveRole(u)' = "user"
      BY <2>1, <2>2, <3>1 DEF Promoted, Entitled
    <3>3. pc'[r] = "suspend" =>
             (IF who'[r] \in isAdmin' THEN "admin" ELSE role'[who'[r]]) = "user"
      BY <1>1, <2>2, <3>2 DEF EffectiveRole, requestVars
    <3> QED
      BY <1>1, <3>1, <3>3 DEF Entitled, EffectiveRole, LiveTokens, requestVars, tokenVars
  <2>3. \A r \in Handlers : who'[r] = u => Entitled(r)'
    BY <1>1, <2>2 DEF requestVars
  <2>4. OneRequest(u)'
    BY <1>1, <2>1 DEF AccountInv, OneRequest, requestVars
  <2>5. Justified(u)'
    BY <1>1, <2>1 DEF AccountInv, Justified, LiveTokens, Closing, requestVars, tokenVars
  <2> QED
    BY <2>3, <2>4, <2>5 DEF AccountInv
<1>3. NewHaveNoPassword' /\ IdleKnowNothing'
  BY <1>1 DEF CalmInv, NewHaveNoPassword, IdleKnowNothing, requestVars
<1> QED
  BY <1>2, <1>3 DEF CalmInv

-----------------------------------------------------------------------------
LEMMA CalmInitially == HInit => CalmInv
<1> SUFFICES ASSUME HInit PROVE CalmInv
  OBVIOUS
<1>1. /\ \A u \in People : password[u] = 0 /\ LiveTokens(u) = {}
      /\ \A r \in Handlers : pc[r] = "idle" /\ who[r] = None
  BY DEF HInit, Init, LiveTokens
<1>2. ASSUME NEW u \in People PROVE AccountInv(u)
  BY <1>1, SessionsAssumption DEF AccountInv, OneRequest, Justified
<1> QED
  BY <1>1, <1>2 DEF CalmInv, NewHaveNoPassword, IdleKnowNothing

LEMMA CalmStep == Sound /\ CalmInv /\ [HNext]_hvars => Sound' /\ CalmInv'
<1> SUFFICES ASSUME Sound, CalmInv, [HNext]_hvars PROVE Sound' /\ CalmInv'
  OBVIOUS
<1>1. Sound'
  BY StepKeepsSound DEF HNext, hvars
<1>2. ASSUME Next, Remember PROVE CalmInv'
  BY <1>2, ArrivalCalm, LightCalm, CreateCalm, SetPasswordCalm, RevokeCalm, IssueCalm, RotateCalm,
     SuspendCalm, ThrowsCalm, SingleWriteCalm DEF Next, Calls, Advance
<1>3. ASSUME UNCHANGED hvars PROVE CalmInv'
  BY <1>3 DEF hvars, vars, accountVars, codeVars, tokenVars, requestVars, CalmInv, AccountInv,
              OneRequest, Entitled, EffectiveRole, Justified, LiveTokens, Closing,
              NewHaveNoPassword, IdleKnowNothing
<1> QED
  BY <1>1, <1>2, <1>3 DEF HNext

\* Whatever overlaps or fails elsewhere, what the request of an undisturbed
\* account has read is still so when it writes.
THEOREM CalmInvariance == HSpec => [](Sound /\ CalmInv)
<1>1. HInit => Sound
  BY SoundInitially DEF HInit
<1> QED
  BY <1>1, CalmInitially, CalmStep, PTL DEF HSpec

\* An account that was not disturbed has no session that a suspension or a
\* new password should have closed.
THEOREM SessionsClose == HSpec => []SessionsJustified
<1>1. CalmInv => SessionsJustified
  BY DEF CalmInv, AccountInv, SessionsJustified
<1> QED
  BY <1>1, CalmInvariance, PTL

\* The step that rotates a token is Rotate.
LEMMA OnlyRotateRotates ==
    ASSUME Sound, [Next]_vars, NEW r \in Handlers, pc[r] = "rotate", pc'[r] = "issue"
    PROVE  Rotate(r)
<1> USE DEF Sound, TypeOK
<1>1. ASSUME NEW q \in Handlers, Arrival(q) \/ Advance(q) \/ Throws(q), ~Rotate(q)
      PROVE  pc'[r] = pc[r] \/ pc'[r] = "idle" \/ pc[r] # "rotate"
  BY <1>1 DEF Arrival, VerifyOtp, Refresh, Register, Login, RequestPasswordReset,
     ConfirmPasswordReset, SuspendUser, Advance, ConsumeCode, FindUser, CreateUser,
     CreateRegistered, CreateResetCode, FindResetCode, SetPassword, RevokeAllForUser,
     IssueTokens, Suspend, Throws, Begin, Step, Forget
<1>2. ASSUME NEW q \in Handlers, Rotate(q), q # r PROVE pc'[r] = pc[r]
  BY <1>2 DEF Rotate, Step
<1>3. CASE UNCHANGED requestVars
  BY <1>3 DEF requestVars
<1> QED
  BY <1>1, <1>2, <1>3
     DEF Next, Calls, Atomic, World, RequestOtp, UpdateMe, UnsuspendUser, SetUserRole, CodeExpires, vars

\* A code serves one request, and a refresh token one rotation if no other row
\* carries the same signed token, unless two requests overlapped.
THEOREM CredentialIsSpent == HSpec => CredentialServesOnce
<1>1. ASSUME Sound, CalmInv, NEW r \in Handlers, who[r] \notin disturbed
      PROVE  /\ pc[r] \in {"consumeCode", "consumeResetCode"} => codeState[item[r]] # "consumed"
             /\ pc[r] = "rotate" => item[r] \in LiveTokens(who[r])
  <2>1. pc[r] # "idle" => Entitled(r)
    BY <1>1 DEF Sound, Stages, Stage, CalmInv, AccountInv
  <2> QED
    BY <2>1 DEF Entitled
<1>2. ASSUME Sound, CalmInv, [Next]_vars, NEW r \in Handlers, who[r] \notin disturbed,
             pc[r] = "rotate", pc'[r] = "issue", SignedOnce(item[r])
      PROVE  Accepted(item[r]) /\ ~Accepted(item[r])'
  <2>1. PICK t \in Tokens : t = item[r] /\ tokenState[t] = "live"
    BY <1>1, <1>2 DEF LiveTokens
  <2>2. /\ tokenState' = [tokenState EXCEPT ![t] = "revoked"]
        /\ UNCHANGED <<tokenUser, tokenStamp>> /\ item' = item
    BY <1>2, <2>1, OnlyRotateRotates DEF Rotate, Step
  <2>3. Accepted(t)
    BY <2>1 DEF Accepted
  <2>4. ~Accepted(t)'
    BY <1>2, <2>1, <2>2 DEF SignedOnce, Accepted, Sound, TypeOK
  <2>5. item'[r] = t
    BY <2>1, <2>2
  <2> QED
    BY <2>1, <2>3, <2>4, <2>5 DEF Accepted
<1>3. Sound /\ CalmInv /\ [HNext]_hvars =>
         [\A r \in Handlers : who[r] \notin disturbed =>
            /\ pc[r] \in {"consumeCode", "consumeResetCode"} /\ pc'[r] \in {"findUser", "setPassword"}
                  => codeState[item[r]] # "consumed"
            /\ pc[r] = "rotate" /\ pc'[r] = "issue" /\ SignedOnce(item[r])
                  => Accepted(item[r]) /\ ~Accepted(item[r])']_hvars
  BY <1>1, <1>2 DEF HNext, hvars
<1> QED
  BY <1>3, CalmInvariance, PTL DEF HSpec, CredentialServesOnce

\* A moderator or an administrator is suspended only if the promotion came
\* between the guard of the suspension and its write.
THEOREM OnlyUsersAreSuspended == HSpec => OnlyUsersSuspended
<1>1. ASSUME Sound, CalmInv, Next, NEW u \in suspended', u \notin suspended, u \notin disturbed
      PROVE  EffectiveRole(u) = "user"
  <2>1. PICK r \in Handlers : Suspend(r)
    BY <1>1 DEF Next, Calls, Arrival, VerifyOtp, Refresh, Register, Login, RequestPasswordReset,
                ConfirmPasswordReset, SuspendUser, Advance, ConsumeCode, FindUser, CreateUser,
                CreateRegistered, CreateResetCode, FindResetCode, SetPassword, RevokeAllForUser,
                IssueTokens, Rotate, Atomic, RequestOtp, UpdateMe, UnsuspendUser, SetUserRole,
                World, CodeExpires, Throws, accountVars
  <2>2. who[r] = u /\ pc[r] = "suspend" /\ who[r] \in People
    BY <1>1, <2>1 DEF Suspend, Step, Sound, Stages, Stage
  <2> QED
    BY <1>1, <2>2 DEF CalmInv, AccountInv, Entitled
<1>2. ASSUME UNCHANGED hvars PROVE suspended' = suspended
  BY <1>2 DEF hvars, vars, accountVars
<1>3. Sound /\ CalmInv /\ [HNext]_hvars =>
         [\A u \in suspended' \ (suspended \cup disturbed) : EffectiveRole(u) = "user"]_hvars
  BY <1>1, <1>2 DEF HNext
<1> QED
  BY <1>3, CalmInvariance, PTL DEF HSpec, OnlyUsersSuspended

-----------------------------------------------------------------------------
(* Requests that follow one another, without failure.                      *)

OneAtATime == \A r, s \in Handlers : pc[r] # "idle" /\ pc[s] # "idle" => r = s

\* One request moves at a time, and no role changes under it.
LEMMA OthersWait ==
    ASSUME Sound, NEW r \in Handlers, Arrival(r) \/ Advance(r)
    PROVE  /\ \A q \in Handlers : q # r => SameRequest(q)
           /\ UNCHANGED <<role, isAdmin>>
<1>1. UNCHANGED <<role, isAdmin>>
  BY DEF Arrival, VerifyOtp, Refresh, Register, Login, RequestPasswordReset, ConfirmPasswordReset,
         SuspendUser, Advance, ConsumeCode, FindUser, CreateUser, CreateRegistered,
         CreateResetCode, FindResetCode, SetPassword, RevokeAllForUser, IssueTokens, Rotate,
         Suspend, accountVars
<1>2. SUFFICES ASSUME NEW q \in Handlers, q # r PROVE SameRequest(q)
  BY <1>1
<1>3. RequestTypeOK
  BY TypeParts DEF Sound
<1>4. \A u, i, s : Begin(r, u, i, s) => pc'[q] = pc[q] /\ who'[q] = who[q] /\ item'[q] = item[q]
  BY <1>2, <1>3 DEF Begin, RequestTypeOK
<1>5. \A s, t : Step(r, s, t) => pc'[q] = pc[q] /\ who'[q] = who[q] /\ item'[q] = item[q]
  BY <1>2, <1>3 DEF Step, RequestTypeOK
<1>6. Forget(r) => SameRequest(q)
  BY <1>2, <1>3, Forgotten
<1>7. \A n : basis' = [basis EXCEPT ![r] = n] => basis'[q] = basis[q]
  BY <1>2, <1>3 DEF RequestTypeOK
<1>8. CASE Arrival(r)
  BY <1>4, <1>7, <1>8 DEF Arrival, VerifyOtp, Refresh, Register, Login, RequestPasswordReset,
     ConfirmPasswordReset, SuspendUser, SameRequest
<1>9. CASE ConsumeCode(r) \/ FindUser(r) \/ CreateUser(r) \/ CreateRegistered(r)
  BY <1>5, <1>6, <1>7, <1>9 DEF ConsumeCode, FindUser, CreateUser, CreateRegistered, SameRequest
<1>10. CASE FindResetCode(r)
  BY <1>2, <1>3, <1>6, <1>10 DEF FindResetCode, SameRequest, RequestTypeOK
<1>11. CASE CreateResetCode(r) \/ SetPassword(r) \/ RevokeAllForUser(r)
  BY <1>5, <1>6, <1>7, <1>11 DEF CreateResetCode, SetPassword, RevokeAllForUser, SameRequest
<1>12. CASE IssueTokens(r) \/ Rotate(r) \/ Suspend(r)
  BY <1>5, <1>6, <1>7, <1>12 DEF IssueTokens, Rotate, Suspend, SameRequest
<1> QED
  BY <1>8, <1>9, <1>10, <1>11, <1>12 DEF Advance

\* The request that moves is the only one there is, and it revokes what it
\* has to before it is over.
LEMMA CalmWhenAlone ==
    ASSUME Sound, CalmInv, NEW r \in Handlers, \A q \in Handlers : q # r => pc[q] = "idle",
           Arrival(r) \/ Advance(r)
    PROVE  OneAtATime' /\ \A u \in People : ~Disturbs(u)
<1>1. \A q \in Handlers : q # r => SameRequest(q) /\ pc'[q] = "idle" /\ who'[q] = None
  BY OthersWait DEF SameRequest, CalmInv, IdleKnowNothing
<1>2. OneAtATime'
  BY <1>1 DEF OneAtATime
<1>3. ASSUME NEW u \in People PROVE ~Overlapped(u)' /\ ~Promoted(u)
  <2>1. u # None
    BY SessionsAssumption
  <2>2. ~Overlapped(u)'
    BY <1>1, <2>1 DEF Overlapped
  <2> QED
    BY <2>2, OthersWait DEF Promoted, EffectiveRole
<1>4. ASSUME NEW u \in People, DiesRevoking(u) PROVE FALSE
  <2>1. /\ pc[r] \in {"revokeOld", "revokeSuspended"} /\ pc'[r] = "idle" /\ who[r] = u
        /\ LiveTokens(u)' # {}
    BY <1>1, <1>4 DEF DiesRevoking
  <2>2. RevokeAllForUser(r)
    BY <2>1 DEF Arrival, VerifyOtp, Refresh, Register, Login, RequestPasswordReset,
       ConfirmPasswordReset, SuspendUser, Begin, Advance, ConsumeCode, FindUser, CreateUser,
       CreateRegistered, CreateResetCode, FindResetCode, SetPassword, IssueTokens, Rotate,
       Suspend, Step
  <2>3. LiveTokens(u)' = {}
    BY <2>1, <2>2 DEF RevokeAllForUser, LiveTokens
  <2> QED
    BY <2>1, <2>3
<1> QED
  BY <1>2, <1>3, <1>4 DEF Disturbs

LEMMA OneByOneStep ==
    ASSUME Sound, CalmInv, OneAtATime, disturbed = {}, [OneByOne]_hvars
    PROVE  OneAtATime' /\ disturbed' = {}
<1>1. ASSUME NEW r \in Handlers, Advance(r), Remember PROVE OneAtATime' /\ disturbed' = {}
  <2>1. pc[r] # "idle"
    BY <1>1 DEF Advance, ConsumeCode, FindUser, CreateUser, CreateRegistered, CreateResetCode,
                FindResetCode, SetPassword, RevokeAllForUser, IssueTokens, Rotate, Suspend, Step
  <2>2. \A q \in Handlers : q # r => pc[q] = "idle"
    BY <2>1 DEF OneAtATime
  <2> QED
    BY <1>1, <2>2, CalmWhenAlone DEF Remember
<1>2. ASSUME NEW r \in Handlers, Quiet, Arrival(r), Remember PROVE OneAtATime' /\ disturbed' = {}
  BY <1>2, CalmWhenAlone DEF Quiet, Remember
<1>3. ASSUME (Quiet /\ Atomic) \/ World, Remember PROVE OneAtATime' /\ disturbed' = {}
  <2>1. UNCHANGED requestVars /\ (Quiet \/ UNCHANGED <<role, isAdmin>>)
    BY <1>3 DEF Atomic, World, RequestOtp, UpdateMe, UnsuspendUser, SetUserRole, CodeExpires,
                accountVars
  <2>2. ASSUME NEW u \in People PROVE ~Disturbs(u)
    <3>1. \A r \in Handlers : who[r] = u => pc[r] # "idle"
      BY SessionsAssumption DEF CalmInv, IdleKnowNothing
    <3>2. ~Overlapped(u)'
      BY <2>1, <3>1 DEF Overlapped, OneAtATime, requestVars
    <3>3. ~Promoted(u)
      BY <2>1 DEF Promoted, EffectiveRole, Quiet
    <3>4. ~DiesRevoking(u)
      BY <2>1 DEF DiesRevoking, requestVars
    <3> QED
      BY <3>2, <3>3, <3>4 DEF Disturbs
  <2>3. OneAtATime'
    BY <2>1 DEF OneAtATime, requestVars
  <2> QED
    BY <1>3, <2>2, <2>3 DEF Remember
<1>4. ASSUME UNCHANGED hvars PROVE OneAtATime' /\ disturbed' = {}
  BY <1>4 DEF hvars, vars, requestVars, OneAtATime
<1> QED
  BY <1>1, <1>2, <1>3, <1>4 DEF OneByOne

\* When requests follow one another and none fails, no account is disturbed.
THEOREM NothingDisturbed == SerialSpec => [](Sound /\ CalmInv /\ OneAtATime /\ disturbed = {})
<1>1. HInit => Sound /\ CalmInv /\ OneAtATime /\ disturbed = {}
  BY SoundInitially, CalmInitially DEF HInit, Init, OneAtATime
<1>2. [OneByOne]_hvars => [HNext]_hvars
  BY DEF OneByOne, HNext, Next, Calls
<1>3. Sound /\ CalmInv /\ OneAtATime /\ disturbed = {} /\ [OneByOne]_hvars
         => (Sound /\ CalmInv /\ OneAtATime /\ disturbed = {})'
  BY <1>2, CalmStep, OneByOneStep
<1> QED
  BY <1>1, <1>3, PTL DEF SerialSpec

\* Then a session that is left open when nothing is being served is in order.
LEMMA QuietIsInOrder ==
    ASSUME CalmInv, disturbed = {}, Quiet, NEW u \in People, NEW t \in LiveTokens(u)
    PROVE  u \notin suspended /\ tokenBasis[t] = password[u]
BY DEF CalmInv, AccountInv, Justified, Closing, Quiet

\* A suspension that has been served leaves the account no session, whichever
\* way it had been opened.
THEOREM SuspensionCloses == SerialSpec => []SuspendedHasNoSession
<1>1. Sound /\ CalmInv /\ disturbed = {} => SuspendedHasNoSession
  BY QuietIsInOrder DEF SuspendedHasNoSession, Sound, TypeOK
<1> QED
  BY <1>1, NothingDisturbed, PTL

\* A new password leaves no session that was opened with an older one.
THEOREM ResetCloses == SerialSpec => []ResetClosesOldSessions
<1>1. CalmInv /\ disturbed = {} => ResetClosesOldSessions
  BY QuietIsInOrder DEF ResetClosesOldSessions
<1> QED
  BY <1>1, NothingDisturbed, PTL

=============================================================================
