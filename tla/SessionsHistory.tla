---------------------------- MODULE SessionsHistory ----------------------------
(***************************************************************************)
(* Sessions with a history variable: the accounts whose handling was       *)
(* disturbed.  It constrains no step of Sessions.  It separates what the   *)
(* code guarantees for every account from what it guarantees only while    *)
(* the requests about an account follow one another and each is finished.  *)
(***************************************************************************)
EXTENDS Sessions

VARIABLE disturbed

hvars == <<vars, disturbed>>

\* Two requests are about one account.
Overlapped(u) == \E r, s \in Handlers : r # s /\ who[r] = u /\ who[s] = u

\* The role changes between the guard of a suspension and its write.
Promoted(u) ==
    /\ EffectiveRole(u)' # EffectiveRole(u)
    /\ \E r \in Handlers : pc[r] = "suspend" /\ who[r] = u

\* A request ends between its write and the revocation that belongs to it,
\* and leaves a session open.
DiesRevoking(u) ==
    /\ \E r \in Handlers :
          pc[r] \in {"revokeOld", "revokeSuspended"} /\ who[r] = u /\ pc'[r] = "idle"
    /\ LiveTokens(u)' # {}

Disturbs(u) == Overlapped(u)' \/ Promoted(u) \/ DiesRevoking(u)

Remember == disturbed' = disturbed \cup {u \in People : Disturbs(u)}

HInit == Init /\ disturbed = {}

HNext == Next /\ Remember

HSpec == HInit /\ [][HNext]_hvars

\* Requests follow one another and no call fails: the next one, or a single
\* write, comes when nothing is being served.
OneByOne ==
    /\ \/ \E r \in Handlers : Advance(r)
       \/ Quiet /\ \E r \in Handlers : Arrival(r)
       \/ Quiet /\ Atomic
       \/ World
    /\ Remember

SerialSpec == HInit /\ [][OneByOne]_hvars

-----------------------------------------------------------------------------
(* Properties.                                                             *)

\* No other row carries the signed token of row t.
SignedOnce(t) ==
    \A v \in Tokens : tokenUser[v] = tokenUser[t] /\ tokenStamp[v] = tokenStamp[t] => v = t

\* A request about u is about to make the call s.
Closing(s, u) == \E r \in Handlers : pc[r] = s /\ who[r] = u

Justified(u) ==
    \A t \in LiveTokens(u) :
       /\ u \in suspended => Closing("revokeSuspended", u)
       /\ tokenBasis[t] # password[u] => Closing("revokeOld", u)

(* Whatever goes on for other accounts, one that was not disturbed has no  *)
(* session while it is suspended and none older than its password, except  *)
(* while the request that closes them is under way.                        *)
SessionsJustified == \A u \in People \ disturbed : Justified(u)

(* A one-time code serves one request and a refresh token one rotation: of *)
(* an account that was not disturbed, no request consumes a code that is   *)
(* already consumed, and a rotation uses a token that is accepted and      *)
(* leaves it refused.  A token is what the client holds, and two logins in *)
(* one second sign the same: one that another row repeats is excused here. *)
CredentialServesOnce ==
    [][\A r \in Handlers : who[r] \notin disturbed =>
          /\ pc[r] \in {"consumeCode", "consumeResetCode"} /\ pc'[r] \in {"findUser", "setPassword"}
                => codeState[item[r]] # "consumed"
          /\ pc[r] = "rotate" /\ pc'[r] = "issue" /\ SignedOnce(item[r])
                => Accepted(item[r]) /\ ~Accepted(item[r])']_hvars

(* "Impossible de suspendre un compte moderator/admin": one is suspended   *)
(* only if it was promoted after the guard of the request read it.         *)
OnlyUsersSuspended ==
    [][\A u \in suspended' \ (suspended \cup disturbed) : EffectiveRole(u) = "user"]_hvars

-----------------------------------------------------------------------------
(* The inductive invariant of an account that was not disturbed: what its  *)
(* request has read is still so.                                           *)

OneRequest(u) == \A r, s \in Handlers : who[r] = u /\ who[s] = u => r = s

Entitled(r) ==
    /\ pc[r] \in Issuing => who[r] \notin suspended
    /\ pc[r] \in {"revokeOld", "rotate", "issue"} => basis[r] = password[who[r]]
    /\ pc[r] \in {"consumeCode", "consumeResetCode"} => codeState[item[r]] # "consumed"
    /\ pc[r] = "rotate" => item[r] \in LiveTokens(who[r])
    /\ pc[r] = "suspend" => EffectiveRole(who[r]) = "user"

AccountInv(u) ==
    /\ OneRequest(u)
    /\ \A r \in Handlers : who[r] = u => Entitled(r)
    /\ Justified(u)

NewHaveNoPassword == \A u \in People \ account : password[u] = 0

IdleKnowNothing == \A r \in Handlers : pc[r] = "idle" => who[r] = None

CalmInv ==
    /\ NewHaveNoPassword
    /\ IdleKnowNothing
    /\ \A u \in People \ disturbed : AccountInv(u)

=============================================================================
