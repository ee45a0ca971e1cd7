------------------------ MODULE AuthSessions_proofs -------------------------
(***************************************************************************)
(* Theorems about AuthSessions, for any number of requests, tokens, links, *)
(* logins and seconds: type correctness, MfaEarned, EndedStaysEnded.       *)
(*                                                                         *)
(* The inductive invariant says of each request what it may still do: it   *)
(* carries the MFA flag only for a login that was proved, and names a      *)
(* token or link where its next step uses one.                             *)
(*                                                                         *)
(* Then, for one request at a time, which may die at any of its awaits:    *)
(* RotatedOnce, ResetTakes, ForcedOut, InactiveFirmSilent and              *)
(* ReloginButForChallenges.  These rest on a second invariant, Serial, of  *)
(* the tables and of what the request may do to them next.                 *)
(***************************************************************************)
EXTENDS AuthSessions, SequenceTheorems, TLAPS

-----------------------------------------------------------------------------
(* The inductive invariant.                                                *)

\* A token carries the MFA flag only for a proved login.
GoodToken(t) == t \in Token /\ (t.status # "none" /\ t.mfa => t.login \in proved)

\* What a request in progress holds.
GoodRequest(r) ==
  /\ r \in Request
  /\ r.mfa => r.login \in proved
  /\ r.at \in {"loginFirm", "verifyFirm"} => r.login \in 1 .. Len(logins)
  /\ r.at = "rotate" => r.token \in Tokens
  /\ r.at \in {"useLink", "setPassword"} => r.link \in Links

\* The tables and the clock.
GoodState ==
  /\ account \in Account
  /\ firmActive \in BOOLEAN
  /\ refresh \in [Tokens -> Token]
  /\ \A t \in Tokens : GoodToken(refresh[t])
  /\ logins \in Seq(Nat)
  /\ challenges \subseteq 1 .. Len(logins)
  /\ proved \subseteq 1 .. Len(logins)
  /\ links \in [Links -> {"none", "unused", "spent"}]
  /\ passwords \in Seq(Links)
  /\ clock \in Nat
  /\ forced \subseteq Tokens
  /\ crashed \in BOOLEAN

\* The inductive invariant.
IInv == /\ GoodState
        /\ req \in [Requests -> Request]
        /\ \A p \in Requests : GoodRequest(req[p])

\* Logins and proofs are only ever added.
Grows == proved \subseteq proved' /\ 1 .. Len(logins) \subseteq 1 .. Len(logins')

-----------------------------------------------------------------------------
(* How the invariant is kept.                                              *)

\* A request that is over is good.
LEMMA IdleGood == GoodRequest(Idle)
<1>1. Idle \in Request
  BY DEF Idle, Request, NewAccount, Account
<1> QED BY <1>1 DEF GoodRequest, Idle

\* A good request stays good when logins and proofs are added.
LEMMA RequestGrows ==
  ASSUME NEW r, GoodRequest(r), Grows
  PROVE  GoodRequest(r)'
  BY DEF GoodRequest, Grows

\* A step that keeps the state good and moves one request to a good r.
LEMMA StepKeeps ==
  ASSUME IInv, NEW p \in Requests, NEW r, Goes(p, r), GoodRequest(r)', Grows,
         GoodState'
  PROVE  IInv'
<1>1. req' = [req EXCEPT ![p] = r] /\ r \in Request
  BY DEF Goes, GoodRequest
<1>2. req' \in [Requests -> Request]
  BY <1>1 DEF IInv
<1>3. ASSUME NEW q \in Requests PROVE GoodRequest(req[q])'
  <2>1. CASE q = p
    BY <1>1, <2>1 DEF IInv
  <2>2. CASE q # p
    BY <1>1, <2>2, RequestGrows DEF IInv
  <2> QED BY <2>1, <2>2
<1> QED BY <1>2, <1>3 DEF IInv

\* A step that keeps the state good and moves no request.
LEMMA StateKeeps ==
  ASSUME IInv, UNCHANGED req, Grows, GoodState'
  PROVE  IInv'
<1>1. ASSUME NEW q \in Requests PROVE GoodRequest(req[q])'
  BY <1>1, RequestGrows DEF IInv
<1> QED BY <1>1 DEF IInv

\* Killing tokens keeps them good.
LEMMA RevokedGood ==
  ASSUME NEW t, GoodToken(t)
  PROVE  GoodToken(Revoked(t)) /\ Revoked(t) \in Token
         /\ Revoked(t).login = t.login
         /\ (Revoked(t).status = "live" => FALSE)
  BY DEF GoodToken, Revoked, Token

\* A step that only moves one request to a good r.
LEMMA RequestOnly ==
  ASSUME IInv, NEW p \in Requests, NEW r, Goes(p, r), GoodRequest(r),
         UNCHANGED <<account, firmActive, refresh, logins, challenges, proved,
                     links, passwords, clock, forced>>,
         crashed' = crashed \/ crashed' = TRUE
  PROVE  IInv'
<1>1. GoodState' /\ Grows
  BY DEF IInv, GoodState, GoodToken, Grows
<1>2. GoodRequest(r)'
  BY <1>1, RequestGrows
<1> QED BY <1>1, <1>2, StepKeeps

-----------------------------------------------------------------------------
(* The actions, by the table they write.                                   *)

\* The starts that write no table, and the end of a request.
LEMMA StartsGood ==
  ASSUME IInv, NEW p \in Requests,
         \/ AnswerChallenge(p) \/ Refresh(p) \/ Forgot(p) \/ Reset(p) \/ ToggleFirm(p)
         \/ ForceLogout(p) \/ DisableMfa(p) \/ EditUser(p) \/ RefreshFirm(p) \/ Dies(p)
  PROVE  IInv'
<1>0. /\ Idle \in Request /\ GoodState /\ account \in Account
      /\ \A t \in Tokens : refresh[t] \in Token /\ GoodToken(refresh[t])
  BY IdleGood DEF IInv, GoodState, GoodRequest
<1>1. CASE AnswerChallenge(p)
  <2>1. PICK n \in challenges : Goes(p, [Idle EXCEPT !.at = "verifyFirm", !.login = n])
    BY <1>1 DEF AnswerChallenge
  <2>2. n \in Nat /\ n \in 1 .. Len(logins)
    BY <1>0, <2>1, LenProperties DEF GoodState
  <2>3. GoodRequest([Idle EXCEPT !.at = "verifyFirm", !.login = n])
    BY <1>0, <2>2 DEF GoodRequest, Request, Idle
  <2> QED BY <1>1, <2>1, <2>3, RequestOnly DEF AnswerChallenge
<1>2. CASE Refresh(p)
  <2>1. PICK t \in Tokens :
          /\ Redeemable(refresh[t])
          /\ Goes(p, [Idle EXCEPT !.at = "rotate", !.token = t,
                                  !.login = refresh[t].login, !.mfa = refresh[t].mfa])
    BY <1>2 DEF Refresh
  <2>2. PICK old \in Token : old = refresh[t] /\ GoodToken(old) /\ old.status = "live"
    BY <1>0, <2>1 DEF Redeemable
  <2>3. GoodRequest([Idle EXCEPT !.at = "rotate", !.token = t,
                                 !.login = old.login, !.mfa = old.mfa])
    BY <1>0, <2>1, <2>2 DEF GoodRequest, GoodToken, Request, Idle, Token
  <2> QED BY <1>2, <2>1, <2>2, <2>3, RequestOnly DEF Refresh
<1>3. CASE Forgot(p)
  <2>1. GoodRequest([Idle EXCEPT !.at = "retireLinks"])
    BY <1>0 DEF GoodRequest, Request, Idle
  <2> QED BY <1>3, <2>1, RequestOnly DEF Forgot
<1>4. CASE Reset(p)
  <2>1. PICK l \in Links : Goes(p, [Idle EXCEPT !.at = "useLink", !.link = l])
    BY <1>4 DEF Reset
  <2>2. GoodRequest([Idle EXCEPT !.at = "useLink", !.link = l])
    BY <1>0 DEF GoodRequest, Request, Idle
  <2> QED BY <1>4, <2>1, <2>2, RequestOnly DEF Reset
<1>5. CASE ToggleFirm(p)
  <2>1. PICK place \in {"activate", "deactivate"} : Goes(p, [Idle EXCEPT !.at = place])
    BY <1>5 DEF ToggleFirm
  <2>2. GoodRequest([Idle EXCEPT !.at = place])
    BY <1>0 DEF GoodRequest, Request, Idle
  <2> QED BY <1>5, <2>1, <2>2, RequestOnly DEF ToggleFirm
<1>6. CASE ForceLogout(p)
  <2>1. GoodRequest([Idle EXCEPT !.at = "stamp"])
    BY <1>0 DEF GoodRequest, Request, Idle
  <2> QED BY <1>6, <2>1, RequestOnly DEF ForceLogout
<1>7. CASE DisableMfa(p)
  <2>1. GoodRequest([Idle EXCEPT !.at = "clearMfa"])
    BY <1>0 DEF GoodRequest, Request, Idle
  <2> QED BY <1>7, <2>1, RequestOnly DEF DisableMfa
<1>8. CASE EditUser(p)
  <2>1. PICK a \in Account : a = account
    BY <1>0
  <2>2. GoodRequest([Idle EXCEPT !.at = "saveUser", !.copy = a])
    BY <1>0 DEF GoodRequest, Request, Idle
  <2> QED BY <1>8, <2>1, <2>2, RequestOnly DEF EditUser
<1>9. CASE RefreshFirm(p)
  <2>1. PICK o \in Request : o = req[p] /\ GoodRequest(o)
    BY DEF IInv
  <2>2. GoodRequest([o EXCEPT !.at = "issue"])
    BY <2>1 DEF GoodRequest, Request
  <2> QED BY <1>9, <2>1, <2>2, IdleGood, RequestOnly DEF RefreshFirm
<1>10. CASE Dies(p)
  BY <1>10, IdleGood, RequestOnly DEF Dies
<1> QED BY <1>1, <1>2, <1>3, <1>4, <1>5, <1>6, <1>7, <1>8, <1>9, <1>10

\* The logins, the challenges and the proofs.
LEMMA LoginGood ==
  ASSUME IInv, NEW p \in Requests, Login(p) \/ LoginFirm(p) \/ VerifyFirm(p)
  PROVE  IInv'
<1>0. /\ Idle \in Request /\ GoodState
      /\ account \in Account /\ logins \in Seq(Nat) /\ Len(logins) \in Nat
  BY IdleGood, LenProperties DEF IInv, GoodState, GoodRequest
<1>1. PICK o \in Request : o = req[p] /\ GoodRequest(o)
  BY DEF IInv
<1>2. CASE Login(p)
  <2>1. PICK a \in Account, n \in Nat : a = account /\ n = Len(logins) + 1
    BY <1>0
  <2> DEFINE r == [Idle EXCEPT !.at = "loginFirm", !.login = n, !.copy = a]
  <2>2. /\ logins' \in Seq(Nat) /\ Len(logins') = n
    BY <1>0, <1>2, <2>1, AppendProperties DEF Login, Account
  <2>3. Goes(p, r)
    BY <1>2, <2>1 DEF Login, NewLogin
  <2>4. r \in Request /\ r.at = "loginFirm" /\ r.login = n /\ ~r.mfa
    BY <1>0, <2>1 DEF Request, Idle
  <2>5. GoodRequest(r)'
    BY <2>1, <2>2, <2>4 DEF GoodRequest
  <2>6. 1 .. Len(logins) \subseteq 1 .. Len(logins)'
    BY <1>0, <2>1, <2>2
  <2>7. Grows /\ GoodState'
    BY <1>0, <1>2, <2>2, <2>6 DEF Login, Grows, GoodState, GoodToken
  <2> QED BY <2>3, <2>5, <2>7, StepKeeps
<1>3. CASE LoginFirm(p)
  <2>1. o.at = "loginFirm" /\ o.login \in 1 .. Len(logins)
    BY <1>1, <1>3 DEF LoginFirm, At, GoodRequest
  <2>2. GoodRequest([Idle EXCEPT !.at = "issue", !.login = o.login])
    BY <1>0, <1>1, <2>1 DEF GoodRequest, Request, Idle
  <2>3. Grows /\ GoodState'
    BY <1>0, <1>1, <1>3, <2>1 DEF LoginFirm, Grows, GoodState, GoodToken
  <2>4. GoodRequest(Idle)' /\ GoodRequest([Idle EXCEPT !.at = "issue", !.login = o.login])'
    BY <2>2, <2>3, IdleGood, RequestGrows
  <2> QED BY <1>1, <1>3, <2>3, <2>4, StepKeeps DEF LoginFirm
<1>4. CASE VerifyFirm(p)
  <2>1. o.at = "verifyFirm" /\ o.login \in 1 .. Len(logins)
    BY <1>1, <1>4 DEF VerifyFirm, At, GoodRequest
  <2>2. Grows /\ GoodState'
    BY <1>0, <1>1, <1>4, <2>1 DEF VerifyFirm, Grows, GoodState, GoodToken
  <2>3. GoodRequest(Idle)'
    BY <2>2, IdleGood, RequestGrows
  <2>4. CASE ~firmActive
    BY <1>4, <2>2, <2>3, <2>4, StepKeeps DEF VerifyFirm
  <2>5. CASE firmActive
    <3> DEFINE r == [Idle EXCEPT !.at = "issue", !.login = o.login, !.mfa = TRUE]
    <3>1. Goes(p, r) /\ proved' = proved \cup {o.login} /\ UNCHANGED logins
      BY <1>1, <1>4, <2>5 DEF VerifyFirm
    <3>2. GoodRequest(r)'
      BY <1>0, <2>1, <3>1 DEF GoodRequest, Request, Idle
    <3> QED BY <2>2, <3>1, <3>2, StepKeeps
  <2> QED BY <2>4, <2>5
<1> QED BY <1>2, <1>3, <1>4

\* The refresh tokens.
LEMMA TokensGood ==
  ASSUME IInv, NEW p \in Requests, Rotate(p) \/ Issue(p) \/ Logout(p) \/ RevokeAll(p)
  PROVE  IInv'
<1>0. /\ GoodState /\ refresh \in [Tokens -> Token]
      /\ \A t \in Tokens : GoodToken(refresh[t]) /\ GoodToken(Revoked(refresh[t]))
                           /\ Revoked(refresh[t]) \in Token
  BY RevokedGood DEF IInv, GoodState
<1>1. PICK o \in Request : o = req[p] /\ GoodRequest(o)
  BY DEF IInv
<1>2. CASE Rotate(p)
  <2>1. o.at = "rotate" /\ o.token \in Tokens
    BY <1>1, <1>2 DEF Rotate, At, GoodRequest
  <2>2. Grows /\ GoodState'
    BY <1>0, <1>1, <1>2, <2>1 DEF Rotate, Grows, GoodState, GoodToken
  <2>3. GoodRequest([o EXCEPT !.at = "refreshFirm"])
    BY <1>1 DEF GoodRequest, Request
  <2>4. GoodRequest([o EXCEPT !.at = "refreshFirm"])'
    BY <2>2, <2>3, RequestGrows
  <2> QED BY <1>1, <1>2, <2>2, <2>4, StepKeeps DEF Rotate
<1>3. CASE Issue(p)
  <2>1. PICK t \in Tokens : refresh' = [refresh EXCEPT ![t] = Issued(o)]
    BY <1>1, <1>3 DEF Issue
  <2>2. Issued(o) \in Token /\ GoodToken(Issued(o))
    BY <1>0, <1>1 DEF Issued, GoodToken, GoodRequest, Token, Request, GoodState
  <2>3. Grows /\ GoodState'
    BY <1>0, <1>3, <2>1, <2>2 DEF Issue, Grows, GoodState, GoodToken
  <2>4. GoodRequest(Idle)'
    BY <2>3, IdleGood, RequestGrows
  <2> QED BY <1>3, <2>3, <2>4, StepKeeps DEF Issue
<1>4. CASE Logout(p)
  <2>1. Grows /\ GoodState'
    BY <1>0, <1>4 DEF Logout, Grows, GoodState, GoodToken
  <2> QED BY <1>4, <2>1, StateKeeps DEF Logout
<1>5. CASE RevokeAll(p)
  <2>1. Grows /\ GoodState'
    BY <1>0, <1>5 DEF RevokeAll, Grows, GoodState, GoodToken
  <2>2. GoodRequest(Idle)'
    BY <2>1, IdleGood, RequestGrows
  <2> QED BY <1>5, <2>1, <2>2, StepKeeps DEF RevokeAll
<1> QED BY <1>2, <1>3, <1>4, <1>5

\* The reset links and the password.
LEMMA ResetGood ==
  ASSUME IInv, NEW p \in Requests,
         RetireLinks(p) \/ MailLink(p) \/ UseLink(p) \/ SetPassword(p)
  PROVE  IInv'
<1>0. GoodState /\ Idle \in Request
  BY IdleGood DEF IInv, GoodRequest
<1>1. PICK o \in Request : o = req[p] /\ GoodRequest(o)
  BY DEF IInv
<1>2. CASE RetireLinks(p)
  <2>1. Grows /\ GoodState'
    BY <1>0, <1>2 DEF RetireLinks, Retired, Grows, GoodState, GoodToken
  <2>2. GoodRequest([Idle EXCEPT !.at = "mailLink"])'
    BY <1>0 DEF GoodRequest, Request, Idle
  <2> QED BY <1>2, <2>1, <2>2, StepKeeps DEF RetireLinks
<1>3. CASE MailLink(p)
  <2>1. Grows /\ GoodState'
    BY <1>0, <1>3 DEF MailLink, Grows, GoodState, GoodToken
  <2>2. GoodRequest(Idle)'
    BY <2>1, IdleGood, RequestGrows
  <2> QED BY <1>3, <2>1, <2>2, StepKeeps DEF MailLink
<1>4. CASE UseLink(p)
  <2>1. o.at = "useLink" /\ o.link \in Links
    BY <1>1, <1>4 DEF UseLink, At, GoodRequest
  <2>2. Grows /\ GoodState'
    BY <1>0, <1>1, <1>4, <2>1 DEF UseLink, Retired, Grows, GoodState, GoodToken
  <2>3. GoodRequest([o EXCEPT !.at = "setPassword"])
    BY <1>1, <2>1 DEF GoodRequest, Request
  <2>4. GoodRequest([o EXCEPT !.at = "setPassword"])'
    BY <2>2, <2>3, RequestGrows
  <2> QED BY <1>1, <1>4, <2>2, <2>4, StepKeeps DEF UseLink
<1>5. CASE SetPassword(p)
  <2>1. o.at = "setPassword" /\ o.link \in Links
    BY <1>1, <1>5 DEF SetPassword, At, GoodRequest
  <2>2. /\ passwords' \in Seq(Links) /\ account' \in Account
    BY <1>0, <1>1, <1>5, <2>1, AppendProperties, LenProperties
    DEF SetPassword, WithPassword, GoodState, Account
  <2>3. Grows /\ GoodState'
    BY <1>0, <1>5, <2>2 DEF SetPassword, Grows, GoodState, GoodToken
  <2>4. GoodRequest([o EXCEPT !.at = "revokeAll"])
    BY <1>1 DEF GoodRequest, Request
  <2>5. GoodRequest([o EXCEPT !.at = "revokeAll"])'
    BY <2>3, <2>4, RequestGrows
  <2> QED BY <1>1, <1>5, <2>3, <2>5, StepKeeps DEF SetPassword
<1> QED BY <1>2, <1>3, <1>4, <1>5

\* The user's row and the firm.
LEMMA AccountGood ==
  ASSUME IInv, NEW p \in Requests,
         \/ Activate(p) \/ Deactivate(p) \/ Stamp(p) \/ EnableMfa(p)
         \/ ClearMfa(p) \/ ClearSecret(p) \/ SaveUser(p)
  PROVE  IInv'
<1>0. GoodState /\ Idle \in Request
  BY IdleGood DEF IInv, GoodRequest
<1>1. PICK o \in Request : o = req[p] /\ GoodRequest(o)
  BY DEF IInv
<1>2. \A place \in {"stamp", "revokeAll", "clearSecret"} :
        GoodRequest([Idle EXCEPT !.at = place])
  BY <1>0 DEF GoodRequest, Request, Idle
<1>3. /\ Grows /\ UNCHANGED <<proved, logins>>
      /\ refresh' = refresh /\ account' \in Account /\ firmActive' \in BOOLEAN
      /\ forced' \subseteq Tokens
      /\ UNCHANGED <<challenges, links, passwords, clock, crashed>>
  BY <1>0, <1>1 DEF Activate, Deactivate, Stamp, Stamped, EnableMfa, ClearMfa, MfaOff,
                    ClearSecret, SaveUser, Grows, GoodState, Account, Request
<1>4. GoodState'
  BY <1>0, <1>3 DEF GoodState, GoodToken
<1>5. /\ GoodRequest(Idle)'
      /\ \A place \in {"stamp", "revokeAll", "clearSecret"} :
           GoodRequest([Idle EXCEPT !.at = place])'
  BY <1>2, <1>3, IdleGood, RequestGrows
<1>6. CASE Activate(p)
  BY <1>3, <1>4, <1>5, <1>6, StepKeeps DEF Activate
<1>7. CASE Deactivate(p)
  BY <1>3, <1>4, <1>5, <1>7, StepKeeps DEF Deactivate, AfterDeactivation
<1>8. CASE Stamp(p)
  BY <1>3, <1>4, <1>5, <1>8, StepKeeps DEF Stamp
<1>9. CASE EnableMfa(p)
  BY <1>3, <1>4, <1>9, StateKeeps DEF EnableMfa
<1>10. CASE ClearMfa(p)
  BY <1>3, <1>4, <1>5, <1>10, StepKeeps DEF ClearMfa
<1>11. CASE ClearSecret(p)
  BY <1>3, <1>4, <1>5, <1>11, StepKeeps DEF ClearSecret
<1>12. CASE SaveUser(p)
  BY <1>3, <1>4, <1>5, <1>12, StepKeeps DEF SaveUser
<1> QED BY <1>6, <1>7, <1>8, <1>9, <1>10, <1>11, <1>12

\* Time passes.
LEMMA PassesGood ==
  ASSUME IInv, Passes
  PROVE  IInv'
<1>0. /\ GoodState /\ refresh \in [Tokens -> Token]
      /\ \A t \in Tokens : GoodToken(refresh[t]) /\ GoodToken(Revoked(refresh[t]))
                           /\ Revoked(refresh[t]) \in Token
  BY RevokedGood DEF IInv, GoodState
<1>1. CASE ChallengeExpires
  <2>1. Grows /\ GoodState' /\ UNCHANGED req
    BY <1>0, <1>1 DEF ChallengeExpires, Grows, GoodState, GoodToken
  <2> QED BY <2>1, StateKeeps
<1>2. CASE TokenExpires
  <2>1. Grows /\ GoodState' /\ UNCHANGED req
    BY <1>0, <1>2 DEF TokenExpires, Grows, GoodState, GoodToken
  <2> QED BY <2>1, StateKeeps
<1>3. CASE LinkExpires
  <2>1. Grows /\ GoodState' /\ UNCHANGED req
    BY <1>0, <1>3 DEF LinkExpires, Retired, Grows, GoodState, GoodToken
  <2> QED BY <2>1, StateKeeps
<1>4. CASE Tick
  <2>1. Grows /\ GoodState' /\ UNCHANGED req
    BY <1>0, <1>4 DEF Tick, Grows, GoodState, GoodToken
  <2> QED BY <2>1, StateKeeps
<1> QED BY <1>1, <1>2, <1>3, <1>4 DEF Passes

-----------------------------------------------------------------------------
(* The theorems.                                                           *)

\* A user without a session satisfies the inductive invariant.
LEMMA InitGood == Init => IInv
<1> SUFFICES ASSUME Init PROVE IInv
  OBVIOUS
<1>1. Unissued \in Token /\ GoodToken(Unissued)
  BY DEF Unissued, Token, GoodToken
<1>2. logins \in Seq(Nat) /\ passwords \in Seq(Links) /\ Len(logins) \in Nat
  BY DEF Init
<1>3. GoodState
  BY <1>1, <1>2 DEF Init, GoodState, Account, NewAccount
<1>4. \A p \in Requests : GoodRequest(req[p])
  BY IdleGood DEF Init
<1>5. req \in [Requests -> Request]
  BY IdleGood DEF Init, GoodRequest
<1> QED BY <1>3, <1>4, <1>5 DEF IInv

\* Every step, and a stutter, preserves the inductive invariant.
LEMMA NextGood == IInv /\ [Next]_vars => IInv'
<1> SUFFICES ASSUME IInv, [Next]_vars PROVE IInv'
  OBVIOUS
<1>1. CASE UNCHANGED vars
  <2>1. Grows /\ GoodState' /\ UNCHANGED req
    BY <1>1 DEF vars, IInv, Grows, GoodState, GoodToken
  <2> QED BY <2>1, StateKeeps
<1>2. ASSUME NEW p \in Requests, Starts(p) PROVE IInv'
  BY <1>2, StartsGood, LoginGood, TokensGood, AccountGood DEF Starts
<1>3. ASSUME NEW p \in Requests, Continues(p) PROVE IInv'
  BY <1>3, StartsGood, LoginGood, TokensGood, ResetGood, AccountGood DEF Continues
<1>4. ASSUME NEW p \in Requests, Dies(p) PROVE IInv'
  BY <1>4, StartsGood
<1> QED BY <1>1, <1>2, <1>3, <1>4, PassesGood DEF Next

\* The inductive invariant holds in every reachable state.
THEOREM Invariance == Spec => []IInv
  BY InitGood, NextGood, PTL DEF Spec

\* Every variable of the model keeps its type.
THEOREM TypeCorrect == Spec => []TypeOK
<1>1. IInv => TypeOK
  BY DEF IInv, GoodState, TypeOK
<1> QED BY <1>1, Invariance, PTL

\* The MFA flag of a session is earned by a valid code, through any number of
\* rotations, interleavings and failures.
THEOREM MfaCorrect == Spec => []MfaEarned
<1>1. IInv => MfaEarned
  BY DEF IInv, GoodState, GoodToken, MfaEarned
<1> QED BY <1>1, Invariance, PTL

-----------------------------------------------------------------------------
(* A session that has ended stays ended: tokens, requests and challenges   *)
(* take their login from a live token, a request or a challenge.           *)

\* No request takes up an ended session.
LEMMA NoCarrier ==
  ASSUME IInv, [Next]_vars, NEW n \in 1 .. Len(logins), Ended(n)
  PROVE  \A p \in Requests : req'[p].login # n
<1>0. /\ req \in [Requests -> Request] /\ \A p \in Requests : req[p].login # n
      /\ n \notin challenges
      /\ \A t \in Tokens : refresh[t].status = "live" => refresh[t].login # n
      /\ n \in Nat /\ n # 0 /\ n # Len(logins) + 1
  BY LenProperties DEF IInv, Ended, Live, GoodState
<1>1. ASSUME NEW p \in Requests, NEW r, Goes(p, r), r.login # n
      PROVE  \A q \in Requests : req'[q].login # n
  BY <1>0, <1>1 DEF Goes
<1>2. ASSUME NEW p \in Requests, Starts(p)
      PROVE  \A q \in Requests : req'[q].login # n
  <2>1. CASE Login(p)
    BY <1>0, <1>1, <2>1 DEF Login, NewLogin, Idle
  <2>2. CASE AnswerChallenge(p)
    BY <1>0, <1>1, <2>2 DEF AnswerChallenge, Idle
  <2>3. CASE Refresh(p)
    BY <1>0, <1>1, <2>3 DEF Refresh, Redeemable, Idle
  <2>4. CASE Logout(p) \/ EnableMfa(p)
    BY <1>0, <2>4 DEF Logout, EnableMfa
  <2>5. CASE Forgot(p) \/ Reset(p) \/ ToggleFirm(p) \/ ForceLogout(p)
             \/ DisableMfa(p) \/ EditUser(p)
    BY <1>0, <1>1, <2>5 DEF Forgot, Reset, ToggleFirm, ForceLogout, DisableMfa, EditUser, Idle
  <2> QED BY <1>2, <2>1, <2>2, <2>3, <2>4, <2>5 DEF Starts
<1>3. ASSUME NEW p \in Requests, Continues(p) \/ Dies(p)
      PROVE  \A q \in Requests : req'[q].login # n
  <2>0. PICK o \in Request : o = req[p] /\ o.login # n
    BY <1>0
  <2>1. /\ Idle.login # n
        /\ \A place : [Idle EXCEPT !.at = place].login # n /\ [o EXCEPT !.at = place].login # n
        /\ [Idle EXCEPT !.at = "issue", !.login = o.login].login # n
        /\ [Idle EXCEPT !.at = "issue", !.login = o.login, !.mfa = TRUE].login # n
    BY <1>0, <2>0 DEF Idle, Request
  <2>2. CASE LoginFirm(p) \/ VerifyFirm(p)
    BY <1>1, <2>0, <2>1, <2>2 DEF LoginFirm, VerifyFirm
  <2>3. CASE Rotate(p) \/ RefreshFirm(p) \/ UseLink(p) \/ SetPassword(p)
    BY <1>1, <2>0, <2>1, <2>3 DEF Rotate, RefreshFirm, UseLink, SetPassword
  <2>4. CASE Issue(p) \/ RevokeAll(p) \/ MailLink(p) \/ Activate(p) \/ ClearSecret(p)
             \/ SaveUser(p) \/ Dies(p)
    BY <1>1, <2>1, <2>4 DEF Issue, RevokeAll, MailLink, Activate, ClearSecret, SaveUser, Dies
  <2>5. CASE RetireLinks(p) \/ Deactivate(p) \/ Stamp(p) \/ ClearMfa(p)
    BY <1>1, <2>1, <2>5 DEF RetireLinks, Deactivate, Stamp, ClearMfa
  <2> QED BY <1>3, <2>2, <2>3, <2>4, <2>5 DEF Continues
<1>4. CASE Passes \/ UNCHANGED vars
  BY <1>0, <1>4 DEF Passes, ChallengeExpires, TokenExpires, LinkExpires, Tick, vars
<1> QED BY <1>2, <1>3, <1>4 DEF Next

\* No token is issued to an ended session, and no challenge.
LEMMA NoRevival ==
  ASSUME IInv, [Next]_vars, NEW n \in 1 .. Len(logins), Ended(n)
  PROVE  /\ \A t \in Tokens : refresh'[t].status = "live" => refresh'[t].login # n
         /\ n \notin challenges'
<1>0. /\ \A p \in Requests : req[p] \in Request /\ req[p].login # n
      /\ n \notin challenges
      /\ refresh \in [Tokens -> Token]
      /\ \A t \in Tokens : refresh[t].status = "live" => refresh[t].login # n
  BY DEF IInv, Ended, Live, GoodState
<1>1. \A t \in Tokens : Revoked(refresh[t]).status # "live"
  BY <1>0 DEF Revoked, Token
<1>2. ASSUME NEW p \in Requests, Starts(p)
      PROVE  /\ \A t \in Tokens : refresh'[t].status = "live" => refresh'[t].login # n
             /\ n \notin challenges'
  <2>1. CASE Logout(p)
    BY <1>0, <1>1, <2>1 DEF Logout
  <2>2. CASE UNCHANGED <<refresh, challenges>>
    BY <1>0, <2>2
  <2> QED
    BY <1>2, <2>1, <2>2
    DEF Starts, Login, AnswerChallenge, Refresh, Forgot, Reset, ToggleFirm, ForceLogout,
        EnableMfa, DisableMfa, EditUser
<1>3. ASSUME NEW p \in Requests, Continues(p) \/ Dies(p)
      PROVE  /\ \A t \in Tokens : refresh'[t].status = "live" => refresh'[t].login # n
             /\ n \notin challenges'
  <2>1. CASE LoginFirm(p)
    BY <1>0, <2>1 DEF LoginFirm
  <2>2. CASE Rotate(p) \/ RevokeAll(p)
    BY <1>0, <1>1, <2>2 DEF Rotate, RevokeAll
  <2>3. CASE Issue(p)
    <3>1. Issued(req[p]).login # n
      BY <1>0 DEF Issued
    <3> QED BY <1>0, <2>3, <3>1 DEF Issue
  <2>4. CASE UNCHANGED <<refresh, challenges>>
    BY <1>0, <2>4
  <2> QED
    BY <1>3, <2>1, <2>2, <2>3, <2>4
    DEF Continues, VerifyFirm, RefreshFirm, RetireLinks, MailLink, UseLink, SetPassword,
        Activate, Deactivate, Stamp, ClearMfa, ClearSecret, SaveUser, Dies
<1>4. CASE Passes \/ UNCHANGED vars
  BY <1>0, <1>1, <1>4 DEF Passes, ChallengeExpires, TokenExpires, LinkExpires, Tick, vars
<1> QED BY <1>2, <1>3, <1>4 DEF Next

\* A session that has ended never comes back, whatever else is in progress.
THEOREM EndedCorrect == Spec => EndedStaysEnded
<1>1. ASSUME IInv, [Next]_vars
      PROVE  [\A n \in 1 .. Len(logins) : Ended(n) => Ended(n)']_vars
  <2>1. ASSUME NEW n \in 1 .. Len(logins), Ended(n) PROVE Ended(n)'
    BY <1>1, <2>1, NoCarrier, NoRevival DEF Ended, Live
  <2> QED BY <2>1
<1> QED BY <1>1, Invariance, PTL DEF Spec, EndedStaysEnded

-----------------------------------------------------------------------------
(* One request at a time, with or without failures.  Two requests that     *)
(* refresh with one token both succeed, two resets with one link both set  *)
(* the password, and a login may overlap a deactivation; what remains to   *)
(* be shown is that one request at a time, which may die at any await,     *)
(* never meets these, though time passes between its awaits.               *)

\* Token t was issued.
Known(t) == refresh[t].status # "none"

\* A token is dead before its successor is issued, and the request that will
\* issue the successor is the only one that can.
RotatesOnce(r) ==
  /\ \A t, u \in Tokens : refresh[u].parent = t => refresh[t].status = "dead"
  /\ \A u \in Tokens : ~Known(u) => refresh[u].parent = NoToken
  /\ RotatedOnce
  /\ r.at \in {"rotate", "refreshFirm", "issue"} /\ r.token \in Tokens =>
       /\ \A u \in Tokens : refresh[u].parent # r.token
       /\ refresh[r.token].status \in IF r.at = "rotate" THEN {"live", "dead"} ELSE {"dead"}

\* A link is spent before the password is set, and the last link mailed is the
\* only one that may be unused; the stored password is the last one set.
LinksWork(r) ==
  /\ OneLink
  /\ r.at = "mailLink" => \A l \in Links : links[l] # "unused"
  /\ \A i \in 1 .. Len(passwords) : links[passwords[i]] = "spent"
  /\ LinkUsedOnce
  /\ r.at \in {"useLink", "setPassword"} =>
       /\ \A i \in 1 .. Len(passwords) : passwords[i] # r.link
       /\ links[r.link] \in IF r.at = "useLink" THEN {"unused", "spent"} ELSE {"spent"}
  /\ account.password = Len(passwords)
  /\ r.at = "saveUser" => r.copy.password = account.password

\* Tokens are dated by a clock that only advances; the floor is the time of
\* the last stamp, which no save of the row takes back.
Dated(r) ==
  /\ \A t \in Tokens : refresh[t].iat <= clock
  /\ account.floor <= clock
  /\ \A t \in forced : Known(t) /\ refresh[t].iat <= account.floor
  /\ r.at = "saveUser" => r.copy.floor = account.floor

\* Tokens are issued only while the firm is active, and its deactivation runs
\* on to kill them, unless it dies.
Silenced(r) ==
  /\ r.at = "issue" => firmActive
  /\ ~crashed /\ ~firmActive /\ r.at \notin {"stamp", "revokeAll"} =>
       \A t \in Tokens : ~Live(t)

\* Login n was made with the password in force.
Current(n) == logins[n] = account.password

\* Live tokens, and those about to be issued, descend from a login with the
\* password in force, or from the answer to a challenge.
Renewed(r) ==
  /\ \A t \in Tokens : Known(t) => refresh[t].login \in 1 .. Len(logins)
  /\ r.at \in {"rotate", "refreshFirm", "issue"} => r.login \in 1 .. Len(logins)
  /\ r.at = "loginFirm" => Current(r.login)
  /\ ~crashed =>
       /\ r.at \in {"rotate", "refreshFirm", "issue"} => r.mfa \/ Current(r.login)
       /\ r.at # "revokeAll" =>
            \A t \in Tokens : Live(t) => refresh[t].mfa \/ Current(refresh[t].login)

\* The inductive invariant for one request.
Serial(r) == /\ RotatesOnce(r)
             /\ LinksWork(r)
             /\ Dated(r)
             /\ Silenced(r)
             /\ Renewed(r)

\* What these say of, apart from the request.
tables == <<account, firmActive, refresh, logins, links, passwords, clock, forced>>

-----------------------------------------------------------------------------
(* Every step of the one request preserves it.                             *)

\* Each part is kept by a step that leaves its tables alone, and takes the
\* request to a place where the part asks nothing more of it.
LEMMA RotatesFrame ==
  ASSUME NEW o, RotatesOnce(o), NEW n, UNCHANGED refresh,
         n.at \in {"rotate", "refreshFirm", "issue"} => n.token \notin Tokens
  PROVE  RotatesOnce(n)'
  BY DEF RotatesOnce, RotatedOnce, Known

\* ... the part on links,
LEMMA LinksFrame ==
  ASSUME NEW o, LinksWork(o), NEW n, UNCHANGED <<links, passwords>>,
         account'.password = account.password,
         n.at \notin {"mailLink", "useLink", "setPassword", "saveUser"}
  PROVE  LinksWork(n)'
  BY DEF LinksWork, OneLink, LinkUsedOnce

\* ... on dates,
LEMMA DatedFrame ==
  ASSUME NEW o, Dated(o), NEW n, UNCHANGED <<refresh, clock, forced>>,
         account'.floor = account.floor,
         n.at # "saveUser"
  PROVE  Dated(n)'
  BY DEF Dated, Known

\* ... on a firm that is not active,
LEMMA SilencedFrame ==
  ASSUME NEW o, Silenced(o), NEW n, UNCHANGED <<refresh, firmActive>>,
         crashed' \in {crashed, TRUE}, n.at = "issue" => firmActive,
         o.at \in {"stamp", "revokeAll"} => crashed' \/ n.at \in {"stamp", "revokeAll"}
  PROVE  Silenced(n)'
  BY DEF Silenced, Live

\* ... and on logins renewed.
LEMMA RenewedFrame ==
  ASSUME NEW o, Renewed(o), NEW n, UNCHANGED <<refresh, logins>>,
         account'.password = account.password, crashed' \in {crashed, TRUE},
         n.at # "loginFirm",
         n.at \in {"rotate", "refreshFirm", "issue"} =>
           n.login \in 1 .. Len(logins) /\ (~crashed => n.mfa \/ Current(n.login)),
         o.at = "revokeAll" => crashed' \/ n.at = "revokeAll"
  PROVE  Renewed(n)'
<1>1. \A t \in Tokens : Known(t)' => refresh'[t].login \in 1 .. Len(logins')
  BY DEF Renewed, Known
<1>2. ~crashed' => ~crashed
  OBVIOUS
<1>3. ~crashed' /\ n.at # "revokeAll" =>
        \A t \in Tokens : Live(t)' => refresh'[t].mfa \/ Current(refresh[t].login)'
  BY <1>2 DEF Renewed, Live, Current
<1>4. n.at \in {"rotate", "refreshFirm", "issue"} =>
        n.login \in 1 .. Len(logins') /\ (~crashed' => n.mfa \/ Current(n.login)')
  BY <1>2 DEF Current
<1> QED BY <1>1, <1>3, <1>4 DEF Renewed

\* Places of a request from which nothing follows about the tables.
Neutral(r) == r.at \in {"idle", "verifyFirm", "retireLinks", "activate", "clearMfa",
                        "clearSecret"}

\* A request that moves to a neutral place, wherever it dies or ends, leaves
\* nothing behind, provided no session is being forced out.
LEMMA NeutralSerial ==
  ASSUME NEW o, Serial(o), NEW n, Neutral(n), UNCHANGED tables, crashed' \in {crashed, TRUE},
         o.at \in {"stamp", "revokeAll"} => crashed'
  PROVE  Serial(n)'
  BY RotatesFrame, LinksFrame, DatedFrame, SilencedFrame, RenewedFrame
  DEF Serial, Neutral, tables

\* The steps that write none of the tables.
LEMMA RequestSerial ==
  ASSUME IInv, NEW p \in Requests, Serial(req[p]),
         \/ AnswerChallenge(p) \/ Refresh(p) \/ Forgot(p) \/ Reset(p) \/ ToggleFirm(p)
         \/ ForceLogout(p) \/ DisableMfa(p) \/ EditUser(p) \/ RefreshFirm(p)
         \/ LoginFirm(p) \/ VerifyFirm(p) \/ Dies(p)
  PROVE  \E r \in Request : Goes(p, r) /\ Serial(r)'
<1>0. PICK o \in Request : o = req[p] /\ Serial(o) /\ GoodRequest(o)
  BY DEF IInv
<1>1. /\ UNCHANGED tables /\ crashed' \in {crashed, TRUE} /\ GoodState
      /\ Dies(p) \/ UNCHANGED crashed
      /\ Idle \in Request /\ Idle.at = "idle" /\ ~Idle.mfa /\ Idle.token = NoToken
      /\ NoToken \notin Tokens
  BY IdleGood, NoTokenAssumption
  DEF tables, AnswerChallenge, Refresh, Forgot, Reset, ToggleFirm, ForceLogout, DisableMfa,
      EditUser, RefreshFirm, LoginFirm, VerifyFirm, Dies, IInv, GoodRequest, Idle
<1>2. ASSUME NEW n \in Request, Neutral(n), Goes(p, n), o.at \notin {"stamp", "revokeAll"}
      PROVE  \E r \in Request : Goes(p, r) /\ Serial(r)'
  BY <1>0, <1>1, <1>2, NeutralSerial
<1> USE DEF tables, Neutral
<1>3. CASE AnswerChallenge(p)
  <2>0. PICK m \in challenges :
          \E n : n = [Idle EXCEPT !.at = "verifyFirm", !.login = m] /\ Goes(p, n)
    BY <1>3 DEF AnswerChallenge
  <2>1. PICK n : n = [Idle EXCEPT !.at = "verifyFirm", !.login = m] /\ Goes(p, n)
    BY <2>0
  <2>2. m \in Nat
    BY <1>1, <2>1, LenProperties DEF GoodState
  <2>3. n \in Request /\ n.at = "verifyFirm"
    BY <1>1, <2>1, <2>2 DEF Request
  <2> QED BY <1>0, <1>2, <1>3, <2>1, <2>3 DEF AnswerChallenge, At
<1>4. CASE Forgot(p)
  <2>1. PICK n : n = [Idle EXCEPT !.at = "retireLinks"] /\ Goes(p, n)
    BY <1>4 DEF Forgot
  <2>2. n \in Request /\ n.at = "retireLinks"
    BY <1>1, <2>1 DEF Request
  <2> QED BY <1>0, <1>2, <1>4, <2>1, <2>2 DEF Forgot, At
<1>5. CASE DisableMfa(p)
  <2>1. PICK n : n = [Idle EXCEPT !.at = "clearMfa"] /\ Goes(p, n)
    BY <1>5 DEF DisableMfa
  <2>2. n \in Request /\ n.at = "clearMfa"
    BY <1>1, <2>1 DEF Request
  <2> QED BY <1>0, <1>2, <1>5, <2>1, <2>2 DEF DisableMfa, At
<1>6. CASE Dies(p)
  BY <1>0, <1>1, <1>6, NeutralSerial DEF Dies
<1>7. CASE ToggleFirm(p)
  <2>0. PICK place \in {"activate", "deactivate"} :
          \E n : n = [Idle EXCEPT !.at = place] /\ Goes(p, n)
    BY <1>7 DEF ToggleFirm
  <2>1. PICK n : n = [Idle EXCEPT !.at = place] /\ Goes(p, n)
    BY <2>0
  <2>2. n \in Request /\ n.at = place /\ o.at = "idle"
    BY <1>0, <1>1, <1>7, <2>1 DEF Request, ToggleFirm, At
  <2>3. Serial(n)'
    BY <1>0, <1>1, <1>7, <2>2, RotatesFrame, LinksFrame, DatedFrame, SilencedFrame,
       RenewedFrame
    DEF Serial, ToggleFirm
  <2> QED BY <2>1, <2>2, <2>3
<1>8. CASE ForceLogout(p)
  <2>1. PICK n : n = [Idle EXCEPT !.at = "stamp"] /\ Goes(p, n)
    BY <1>8 DEF ForceLogout
  <2>2. n \in Request /\ n.at = "stamp" /\ o.at = "idle"
    BY <1>0, <1>1, <1>8, <2>1 DEF Request, ForceLogout, At
  <2>3. Serial(n)'
    BY <1>0, <1>1, <1>8, <2>2, RotatesFrame, LinksFrame, DatedFrame, SilencedFrame,
       RenewedFrame
    DEF Serial, ForceLogout
  <2> QED BY <2>1, <2>2, <2>3
<1>9. CASE EditUser(p)
  <2>1. PICK n : n = [Idle EXCEPT !.at = "saveUser", !.copy = account] /\ Goes(p, n)
    BY <1>9 DEF EditUser
  <2>2. n \in Request /\ n.at = "saveUser" /\ n.copy = account /\ o.at = "idle"
    BY <1>0, <1>1, <1>9, <2>1 DEF Request, EditUser, At, GoodState
  <2>3. Serial(n)'
    <3>1. LinksWork(n)' /\ Dated(n)'
      BY <1>0, <1>1, <2>2 DEF Serial, LinksWork, OneLink, LinkUsedOnce, Dated, Known
    <3> QED
      BY <1>0, <1>1, <1>9, <2>2, <3>1, RotatesFrame, SilencedFrame, RenewedFrame
      DEF Serial, EditUser
  <2> QED BY <2>1, <2>2, <2>3
<1>10. CASE Reset(p)
  <2>0. PICK l \in Links :
          \E n : n = [Idle EXCEPT !.at = "useLink", !.link = l] /\ Goes(p, n) /\ links[l] = "unused"
    BY <1>10 DEF Reset
  <2>1. PICK n :
          n = [Idle EXCEPT !.at = "useLink", !.link = l] /\ Goes(p, n) /\ links[l] = "unused"
    BY <2>0
  <2>2. n \in Request /\ n.at = "useLink" /\ n.link = l /\ o.at = "idle"
    BY <1>0, <1>1, <1>10, <2>1 DEF Request, Reset, At
  <2>3. Serial(n)'
    <3>1. LinksWork(n)'
      BY <1>0, <1>1, <2>1, <2>2 DEF Serial, LinksWork, OneLink, LinkUsedOnce
    <3> QED
      BY <1>0, <1>1, <1>10, <2>2, <3>1, RotatesFrame, DatedFrame, SilencedFrame, RenewedFrame
      DEF Serial, Reset
  <2> QED BY <2>1, <2>2, <2>3
<1>11. CASE Refresh(p)
  <2>1. PICK t \in Tokens : /\ refresh[t].status = "live"
                            /\ Goes(p, [Idle EXCEPT !.at = "rotate", !.token = t,
                                         !.login = refresh[t].login, !.mfa = refresh[t].mfa])
    BY <1>11 DEF Refresh, Redeemable
  <2>2. PICK old \in Token : old = refresh[t]
    BY <1>1 DEF GoodState
  <2>3. PICK n : n = [Idle EXCEPT !.at = "rotate", !.token = t, !.login = old.login,
                                  !.mfa = old.mfa]
    OBVIOUS
  <2>4. /\ n \in Request /\ n.at = "rotate" /\ n.token = t /\ n.login = old.login
        /\ n.mfa = old.mfa /\ o.at = "idle"
    BY <1>0, <1>1, <1>11, <2>3 DEF Request, Token, Refresh, At
  <2>5. RotatesOnce(n)'
    BY <1>0, <1>1, <2>1, <2>2, <2>4 DEF Serial, RotatesOnce, RotatedOnce, Known
  <2>6. Renewed(n)'
    <3>1. n.login \in 1 .. Len(logins) /\ (~crashed => n.mfa \/ Current(n.login))
      BY <1>0, <2>1, <2>2, <2>4 DEF Serial, Renewed, Live, Known
    <3> QED BY <1>0, <1>1, <1>11, <2>4, <3>1, RenewedFrame DEF Serial, Refresh
  <2>7. Silenced(n)' /\ LinksWork(n)' /\ Dated(n)'
    BY <1>0, <1>1, <1>11, <2>4, LinksFrame, DatedFrame, SilencedFrame DEF Serial, Refresh
  <2> QED BY <2>1, <2>2, <2>3, <2>4, <2>5, <2>6, <2>7 DEF Serial
<1>12. CASE RefreshFirm(p)
  <2>1. o.at = "refreshFirm"
    BY <1>0, <1>12 DEF RefreshFirm, At
  <2>2. CASE firmActive
    <3>1. PICK n : n = [o EXCEPT !.at = "issue"] /\ Goes(p, n)
      BY <1>0, <1>12, <2>2 DEF RefreshFirm
    <3>2. n \in Request /\ n.at = "issue" /\ n.token = o.token /\ n.login = o.login /\ n.mfa = o.mfa
      BY <3>1 DEF Request
    <3>3. Serial(n)'
      <4>1. RotatesOnce(n)'
        BY <1>0, <1>1, <2>1, <3>2 DEF Serial, RotatesOnce, RotatedOnce, Known
      <4>2. Renewed(n)'
        <5>1. n.login \in 1 .. Len(logins) /\ (~crashed => n.mfa \/ Current(n.login))
          BY <1>0, <2>1, <3>2 DEF Serial, Renewed
        <5> QED BY <1>0, <1>1, <1>12, <2>1, <3>2, <5>1, RenewedFrame DEF Serial
      <4> QED
        BY <1>0, <1>1, <2>1, <2>2, <3>2, <4>1, <4>2, LinksFrame, DatedFrame, SilencedFrame
        DEF Serial
    <3> QED BY <3>1, <3>2, <3>3
  <2>3. CASE ~firmActive
    BY <1>1, <1>2, <1>12, <2>1, <2>3 DEF RefreshFirm
  <2> QED BY <2>2, <2>3
<1>13. CASE LoginFirm(p)
  <2>1. o.at = "loginFirm" /\ o.login \in 1 .. Len(logins)
    BY <1>0, <1>13 DEF LoginFirm, At, GoodRequest
  <2>2. CASE Goes(p, Idle)
    BY <1>1, <1>2, <2>1, <2>2
  <2>3. CASE firmActive /\ Goes(p, [Idle EXCEPT !.at = "issue", !.login = o.login])
    <3>1. PICK n : n = [Idle EXCEPT !.at = "issue", !.login = o.login]
      OBVIOUS
    <3>2. n \in Request /\ n.at = "issue" /\ n.token = NoToken /\ n.login = o.login
      BY <1>1, <3>1 DEF Request
    <3>3. Serial(n)'
      <4>1. Renewed(n)'
        <5>1. n.login \in 1 .. Len(logins) /\ (~crashed => n.mfa \/ Current(n.login))
          BY <1>0, <2>1, <3>2 DEF Serial, Renewed
        <5> QED BY <1>0, <1>1, <1>13, <2>1, <3>2, <5>1, RenewedFrame DEF Serial
      <4> QED
        BY <1>0, <1>1, <2>1, <2>3, <3>2, <4>1, RotatesFrame, LinksFrame, DatedFrame,
           SilencedFrame
        DEF Serial
    <3> QED BY <2>3, <3>1, <3>2, <3>3
  <2> QED BY <1>0, <1>13, <2>2, <2>3 DEF LoginFirm
<1>14. CASE VerifyFirm(p)
  <2>1. o.at = "verifyFirm" /\ o.login \in 1 .. Len(logins)
    BY <1>0, <1>14 DEF VerifyFirm, At, GoodRequest
  <2>2. CASE Goes(p, Idle)
    BY <1>1, <1>2, <2>1, <2>2
  <2>3. CASE firmActive /\ Goes(p, [Idle EXCEPT !.at = "issue", !.login = o.login, !.mfa = TRUE])
    <3>1. PICK n : n = [Idle EXCEPT !.at = "issue", !.login = o.login, !.mfa = TRUE]
      OBVIOUS
    <3>2. n \in Request /\ n.at = "issue" /\ n.token = NoToken /\ n.login = o.login /\ n.mfa
      BY <1>1, <3>1 DEF Request
    <3>3. Serial(n)'
      <4>1. Renewed(n)'
        <5>1. n.login \in 1 .. Len(logins) /\ (~crashed => n.mfa \/ Current(n.login))
          BY <1>0, <2>1, <3>2 DEF Serial, Renewed
        <5> QED BY <1>0, <1>1, <1>14, <2>1, <3>2, <5>1, RenewedFrame DEF Serial
      <4> QED
        BY <1>0, <1>1, <2>1, <2>3, <3>2, <4>1, RotatesFrame, LinksFrame, DatedFrame,
           SilencedFrame
        DEF Serial
    <3> QED BY <2>3, <3>1, <3>2, <3>3
  <2> QED BY <1>0, <1>14, <2>2, <2>3 DEF VerifyFirm
<1> QED
  BY <1>3, <1>4, <1>5, <1>6, <1>7, <1>8, <1>9, <1>10, <1>11, <1>12, <1>13, <1>14

\* A dead token stays dead, and keeps everything but its status.
LEMMA RevokedKeeps ==
  ASSUME NEW t \in Token
  PROVE  /\ Revoked(t).login = t.login /\ Revoked(t).parent = t.parent
         /\ Revoked(t).iat = t.iat /\ Revoked(t).mfa = t.mfa
         /\ Revoked(t).status # "live"
         /\ Revoked(t).status = "none" <=> t.status = "none"
         /\ t.status \in {"live", "dead"} => Revoked(t).status = "dead"
  BY DEF Revoked, Token

\* Tokens that are killed, by a logout, the end of a reset or time, take
\* nothing from the request that goes on.
LEMMA KilledSerial ==
  ASSUME IInv, NEW o, Serial(o), refresh' \in [Tokens -> Token],
         \A t \in Tokens : refresh'[t] \in {refresh[t], Revoked(refresh[t])},
         UNCHANGED <<account, firmActive, logins, links, passwords, clock, forced, crashed>>
  PROVE  Serial(o)'
<1>0. \A t \in Tokens : /\ refresh'[t].login = refresh[t].login
                        /\ refresh'[t].parent = refresh[t].parent
                        /\ refresh'[t].iat = refresh[t].iat
                        /\ refresh'[t].mfa = refresh[t].mfa
                        /\ refresh'[t].status = "live" => refresh[t].status = "live"
                        /\ refresh'[t].status = "none" <=> refresh[t].status = "none"
                        /\ refresh[t].status = "dead" => refresh'[t].status = "dead"
                        /\ refresh'[t].status \in {"none", "live", "dead"}
  <2>1. \A t \in Tokens : refresh[t] \in Token /\ refresh'[t] \in Token
    BY DEF IInv, GoodState
  <2>2. \A t \in Tokens : refresh'[t].status \in {"none", "live", "dead"}
    BY <2>1 DEF Token
  <2> QED BY <2>1, <2>2, RevokedKeeps
<1>1. RotatesOnce(o)'
  BY <1>0 DEF Serial, RotatesOnce, RotatedOnce, Known
<1>2. LinksWork(o)'
  BY DEF Serial, LinksWork, OneLink, LinkUsedOnce
<1>3. Dated(o)'
  BY <1>0 DEF Serial, Dated, Known, IInv, GoodState
<1>4. Silenced(o)'
  BY <1>0 DEF Serial, Silenced, Live
<1>5. Renewed(o)'
  <2>1. \A t \in Tokens : Known(t)' => refresh'[t].login \in 1 .. Len(logins')
    BY <1>0 DEF Serial, Renewed, Known
  <2>2. ~crashed /\ o.at # "revokeAll" =>
          \A t \in Tokens : Live(t)' => refresh'[t].mfa \/ Current(refresh[t].login)'
    BY <1>0 DEF Serial, Renewed, Live, Current
  <2>3. /\ o.at \in {"rotate", "refreshFirm", "issue"} =>
             o.login \in 1 .. Len(logins') /\ (~crashed => o.mfa \/ Current(o.login)')
        /\ o.at = "loginFirm" => Current(o.login)'
    BY DEF Serial, Renewed, Current
  <2> QED BY <1>0, <2>1, <2>2, <2>3 DEF Renewed, Current
<1> QED BY <1>1, <1>2, <1>3, <1>4, <1>5 DEF Serial

\* Rotation, the issue of tokens, logout, and the end of a reset or of a forced
\* logout.
LEMMA TokensSerial ==
  ASSUME IInv, NEW p \in Requests, Serial(req[p]),
         Rotate(p) \/ Issue(p) \/ Logout(p) \/ RevokeAll(p)
  PROVE  \E r \in Request : req'[p] = r /\ Serial(r)'
<1>0. PICK o \in Request : o = req[p] /\ Serial(o) /\ GoodRequest(o)
  BY DEF IInv
<1>1. /\ Idle \in Request /\ Idle.at = "idle" /\ req \in [Requests -> Request]
      /\ refresh \in [Tokens -> Token] /\ \A t \in Tokens : Revoked(refresh[t]) \in Token
      /\ GoodState /\ NoToken \notin Tokens
  BY IdleGood, RevokedGood, NoTokenAssumption DEF IInv, GoodRequest, Idle, GoodState
<1>2. \A n : Goes(p, n) => req'[p] = n
  BY <1>1 DEF Goes
<1>3. CASE Logout(p)
  <2>1. /\ refresh' \in [Tokens -> Token]
        /\ \A t \in Tokens : refresh'[t] \in {refresh[t], Revoked(refresh[t])}
        /\ UNCHANGED <<account, firmActive, logins, links, passwords, clock, forced, crashed>>
        /\ req'[p] = o
    BY <1>0, <1>1, <1>3 DEF Logout
  <2> QED BY <1>0, <2>1, KilledSerial
<1>4. CASE Rotate(p)
  <2>1. o.at = "rotate" /\ o.token \in Tokens
    BY <1>0, <1>4 DEF Rotate, At, GoodRequest
  <2>2. /\ refresh' \in [Tokens -> Token]
        /\ \A t \in Tokens : refresh'[t] \in {refresh[t], Revoked(refresh[t])}
        /\ UNCHANGED <<account, firmActive, logins, links, passwords, clock, forced, crashed>>
        /\ refresh'[o.token] = Revoked(refresh[o.token])
    BY <1>0, <1>1, <1>4, <2>1 DEF Rotate
  <2>3. Serial(o)'
    BY <1>0, <2>2, KilledSerial
  <2>4. refresh'[o.token].status = "dead"
    BY <1>0, <1>1, <2>1, <2>2, RevokedKeeps DEF Serial, RotatesOnce
  <2>5. PICK n : n = [o EXCEPT !.at = "refreshFirm"] /\ Goes(p, n)
    BY <1>0, <1>4 DEF Rotate
  <2>6. /\ n \in Request /\ n.at = "refreshFirm" /\ n.token = o.token /\ n.login = o.login
        /\ n.mfa = o.mfa
    BY <2>5 DEF Request
  <2>7. RotatesOnce(n)' /\ LinksWork(n)' /\ Dated(n)' /\ Silenced(n)'
    BY <2>1, <2>3, <2>4, <2>6
    DEF Serial, RotatesOnce, LinksWork, Dated, Silenced
  <2>8. Renewed(n)'
    BY <2>1, <2>3, <2>6 DEF Serial, Renewed
  <2> QED BY <1>2, <2>5, <2>6, <2>7, <2>8 DEF Serial
<1>5. CASE RevokeAll(p)
  <2>1. /\ refresh' \in [Tokens -> Token]
        /\ \A t \in Tokens : refresh'[t] = Revoked(refresh[t])
        /\ UNCHANGED <<account, firmActive, logins, links, passwords, clock, forced, crashed>>
        /\ Goes(p, Idle) /\ o.at = "revokeAll"
    BY <1>0, <1>1, <1>5 DEF RevokeAll, At
  <2>2. Serial(o)'
    BY <1>0, <2>1, KilledSerial
  <2>3. \A t \in Tokens : ~Live(t)'
    BY <1>1, <2>1, RevokedKeeps DEF Live
  <2>4. RotatesOnce(Idle)' /\ LinksWork(Idle)' /\ Dated(Idle)' /\ Silenced(Idle)'
    BY <1>1, <2>1, <2>2, <2>3 DEF Serial, RotatesOnce, LinksWork, Dated, Silenced
  <2>5. Renewed(Idle)'
    BY <1>1, <2>1, <2>2, <2>3 DEF Serial, Renewed
  <2> QED BY <1>1, <1>2, <2>1, <2>4, <2>5 DEF Serial
<1>6. CASE Issue(p)
  <2>1. PICK u \in Tokens : /\ refresh[u].status = "none"
                            /\ refresh' = [refresh EXCEPT ![u] = Issued(o)]
    BY <1>0, <1>6 DEF Issue
  <2>2. /\ o.at = "issue" /\ Goes(p, Idle)
        /\ UNCHANGED <<account, firmActive, logins, links, passwords, clock, forced, crashed>>
    BY <1>0, <1>6 DEF Issue, At
  <2>3. /\ refresh'[u].status = "live" /\ refresh'[u].login = o.login
        /\ refresh'[u].mfa = o.mfa /\ refresh'[u].parent = o.token
        /\ refresh'[u].iat = clock
        /\ \A t \in Tokens \ {u} : refresh'[t] = refresh[t]
    BY <1>1, <2>1 DEF Issued
  <2>4. RotatesOnce(Idle)'
    <3>0. RotatesOnce(o)
      BY <1>0 DEF Serial
    <3>1. \A t, v \in Tokens : refresh'[v].parent = t => refresh'[t].status = "dead"
      <4>1. \A t, v \in Tokens : refresh[v].parent = t => refresh[t].status = "dead" /\ t # u
        BY <2>1, <3>0 DEF RotatesOnce
      <4>2. \A t \in Tokens : o.token = t => refresh[t].status = "dead" /\ t # u
        BY <2>1, <2>2, <3>0 DEF RotatesOnce
      <4> QED BY <2>3, <4>1, <4>2
    <3>2. \A v \in Tokens : refresh'[v].status = "none" => refresh'[v].parent = NoToken
      BY <2>3, <3>0 DEF RotatesOnce, Known
    <3>3. \A t, v \in Tokens : /\ refresh'[t].parent # NoToken
                               /\ refresh'[t].parent = refresh'[v].parent
                               => t = v
      <4>1. o.token # NoToken => \A v \in Tokens : refresh[v].parent # o.token
        BY <2>2, <3>0 DEF RotatesOnce, Request
      <4> QED BY <2>3, <3>0, <4>1 DEF RotatesOnce, RotatedOnce
    <3> QED BY <1>1, <3>1, <3>2, <3>3 DEF RotatesOnce, RotatedOnce, Known
  <2>5. LinksWork(Idle)'
    BY <1>0, <1>1, <2>2, LinksFrame DEF Serial
  <2>6. Dated(Idle)'
    BY <1>0, <1>1, <2>1, <2>2, <2>3 DEF Serial, Dated, Known, GoodState
  <2>7. Silenced(Idle)'
    BY <1>0, <1>1, <2>2 DEF Serial, Silenced
  <2>8. Renewed(Idle)'
    <3>0. Renewed(o)
      BY <1>0 DEF Serial
    <3>1. \A t \in Tokens : Known(t)' => refresh'[t].login \in 1 .. Len(logins')
      BY <2>2, <2>3, <3>0 DEF Renewed, Known
    <3>2. ~crashed => \A t \in Tokens : Live(t)' => refresh'[t].mfa \/ Current(refresh[t].login)'
      <4>1. ASSUME ~crashed, NEW t \in Tokens, Live(t)'
            PROVE  refresh'[t].mfa \/ Current(refresh[t].login)'
        <5>1. CASE t = u
          BY <2>2, <2>3, <3>0, <4>1, <5>1 DEF Renewed, Current
        <5>2. CASE t # u
          BY <2>2, <2>3, <3>0, <4>1, <5>2 DEF Renewed, Live, Current
        <5> QED BY <5>1, <5>2
      <4> QED BY <4>1
    <3> QED BY <1>1, <2>2, <3>1, <3>2 DEF Renewed
  <2> QED BY <1>1, <1>2, <2>2, <2>4, <2>5, <2>6, <2>7, <2>8 DEF Serial
<1> QED BY <1>3, <1>4, <1>5, <1>6

\* The reset links and the password.
LEMMA ResetSerial ==
  ASSUME IInv, NEW p \in Requests, Serial(req[p]),
         RetireLinks(p) \/ MailLink(p) \/ UseLink(p) \/ SetPassword(p)
  PROVE  \E r \in Request : req'[p] = r /\ Serial(r)'
<1>0. PICK o \in Request : o = req[p] /\ Serial(o) /\ GoodRequest(o)
  BY DEF IInv
<1>1. /\ Idle \in Request /\ Idle.at = "idle" /\ req \in [Requests -> Request]
      /\ links \in [Links -> {"none", "unused", "spent"}]
      /\ passwords \in Seq(Links) /\ Len(passwords) \in Nat /\ account \in Account
  BY IdleGood, LenProperties DEF IInv, GoodRequest, Idle, GoodState
<1>2. \A n : Goes(p, n) => req'[p] = n
  BY <1>1 DEF Goes
<1>3. \A i \in 1 .. Len(passwords) : passwords[i] \in Links
  BY <1>1
<1>4. CASE RetireLinks(p)
  <2>1. /\ o.at = "retireLinks" /\ links' = [l \in Links |-> Retired(links[l])]
        /\ UNCHANGED <<account, firmActive, refresh, logins, passwords, clock, forced, crashed>>
    BY <1>0, <1>4 DEF RetireLinks, At
  <2>2. PICK n : n = [Idle EXCEPT !.at = "mailLink"] /\ Goes(p, n)
    BY <1>4 DEF RetireLinks
  <2>3. n \in Request /\ n.at = "mailLink"
    BY <1>1, <2>2 DEF Request
  <2>4. LinksWork(n)'
    BY <1>0, <1>1, <1>3, <2>1, <2>3 DEF Serial, LinksWork, OneLink, LinkUsedOnce, Retired
  <2>5. RotatesOnce(n)' /\ Dated(n)' /\ Silenced(n)' /\ Renewed(n)'
    BY <1>0, <2>1, <2>3, RotatesFrame, DatedFrame, SilencedFrame, RenewedFrame DEF Serial
  <2> QED BY <1>2, <2>2, <2>3, <2>4, <2>5 DEF Serial
<1>5. CASE MailLink(p)
  <2>1. /\ o.at = "mailLink" /\ Goes(p, Idle)
        /\ UNCHANGED <<account, firmActive, refresh, logins, passwords, clock, forced, crashed>>
    BY <1>0, <1>5 DEF MailLink, At
  <2>2. LinksWork(Idle)'
    <3>1. CASE UNCHANGED links
      BY <1>0, <1>1, <2>1, <3>1, LinksFrame DEF Serial
    <3>2. ASSUME NEW l \in Links, links[l] = "none", links' = [links EXCEPT ![l] = "unused"]
          PROVE  LinksWork(Idle)'
      <4>1. \A i \in 1 .. Len(passwords) : passwords[i] # l
        BY <1>0, <3>2 DEF Serial, LinksWork
      <4> QED
        BY <1>0, <1>1, <1>3, <2>1, <3>2, <4>1 DEF Serial, LinksWork, OneLink, LinkUsedOnce
    <3> QED BY <1>5, <3>1, <3>2 DEF MailLink
  <2> QED
    BY <1>0, <1>1, <1>2, <2>1, <2>2, RotatesFrame, DatedFrame, SilencedFrame, RenewedFrame
    DEF Serial
<1>6. CASE UseLink(p)
  <2>1. /\ o.at = "useLink" /\ o.link \in Links
        /\ links' = [links EXCEPT ![o.link] = Retired(@)]
        /\ UNCHANGED <<account, firmActive, refresh, logins, passwords, clock, forced, crashed>>
    BY <1>0, <1>6 DEF UseLink, At, GoodRequest
  <2>2. PICK n : n = [o EXCEPT !.at = "setPassword"] /\ Goes(p, n)
    BY <1>0, <1>6 DEF UseLink
  <2>3. n \in Request /\ n.at = "setPassword" /\ n.link = o.link
    BY <2>2 DEF Request
  <2>4. LinksWork(n)'
    BY <1>0, <1>1, <1>3, <2>1, <2>3 DEF Serial, LinksWork, OneLink, LinkUsedOnce, Retired
  <2> QED
    BY <1>0, <1>2, <2>1, <2>2, <2>3, <2>4, RotatesFrame, DatedFrame, SilencedFrame, RenewedFrame
    DEF Serial
<1>7. CASE SetPassword(p)
  <2>1. /\ o.at = "setPassword" /\ o.link \in Links
        /\ passwords' = Append(passwords, o.link)
        /\ account' = [account EXCEPT !.password = Len(passwords) + 1]
        /\ UNCHANGED <<firmActive, refresh, logins, links, clock, forced, crashed>>
    BY <1>0, <1>7 DEF SetPassword, WithPassword, At, GoodRequest
  <2>2. PICK n : n = [o EXCEPT !.at = "revokeAll"] /\ Goes(p, n)
    BY <1>0, <1>7 DEF SetPassword
  <2>3. n \in Request /\ n.at = "revokeAll"
    BY <2>2 DEF Request
  <2>4. /\ Len(passwords') = Len(passwords) + 1 /\ passwords'[Len(passwords) + 1] = o.link
        /\ \A i \in 1 .. Len(passwords) : passwords'[i] = passwords[i]
        /\ account'.password = Len(passwords) + 1 /\ account'.floor = account.floor
    BY <1>1, <2>1, AppendProperties DEF Account
  <2>5. LinksWork(n)'
    <3>1. \A i \in 1 .. Len(passwords') : i \in 1 .. Len(passwords) \/ i = Len(passwords) + 1
      BY <1>1, <2>4
    <3>2. /\ links[o.link] = "spent" /\ \A i \in 1 .. Len(passwords) : passwords[i] # o.link
          /\ \A i \in 1 .. Len(passwords) : links[passwords[i]] = "spent"
          /\ LinkUsedOnce /\ OneLink
      BY <1>0, <2>1 DEF Serial, LinksWork
    <3>3. \A i \in 1 .. Len(passwords') : links[passwords'[i]] = "spent"
      BY <2>4, <3>1, <3>2
    <3>4. \A i, j \in 1 .. Len(passwords') : passwords'[i] = passwords'[j] => i = j
      BY <2>4, <3>1, <3>2 DEF LinkUsedOnce
    <3> QED BY <2>1, <2>3, <2>4, <3>2, <3>3, <3>4 DEF LinksWork, OneLink, LinkUsedOnce
  <2>6. Renewed(n)'
    BY <1>0, <2>1, <2>3 DEF Serial, Renewed, Known
  <2> QED
    BY <1>0, <1>2, <2>1, <2>2, <2>3, <2>4, <2>5, <2>6, RotatesFrame, DatedFrame, SilencedFrame
    DEF Serial
<1> QED BY <1>4, <1>5, <1>6, <1>7

\* The user's row and the firm.
LEMMA AccountSerial ==
  ASSUME IInv, NEW p \in Requests, Serial(req[p]),
         \/ Login(p) \/ Activate(p) \/ Deactivate(p) \/ Stamp(p) \/ EnableMfa(p)
         \/ ClearMfa(p) \/ ClearSecret(p) \/ SaveUser(p)
  PROVE  \E r \in Request : req'[p] = r /\ Serial(r)'
<1>0. PICK o \in Request : o = req[p] /\ Serial(o) /\ GoodRequest(o)
  BY DEF IInv
<1>1. /\ Idle \in Request /\ Idle.at = "idle" /\ req \in [Requests -> Request]
      /\ account \in Account /\ clock \in Nat /\ logins \in Seq(Nat) /\ Len(logins) \in Nat
      /\ \A t \in Tokens : refresh[t] \in Token
  BY IdleGood, LenProperties DEF IInv, GoodRequest, Idle, GoodState
<1>2. \A n : Goes(p, n) => req'[p] = n
  BY <1>1 DEF Goes
<1>3. \A place \in {"stamp", "revokeAll", "clearSecret"} :
        [Idle EXCEPT !.at = place] \in Request /\ [Idle EXCEPT !.at = place].at = place
  BY <1>1 DEF Request
<1>4. ASSUME NEW n \in Request, req'[p] = n, n.at \in {"idle", "clearSecret"},
             o.at \notin {"stamp", "revokeAll"}, UNCHANGED <<refresh, logins, links, passwords>>,
             UNCHANGED <<firmActive, clock, forced, crashed>>,
             account'.password = account.password, account'.floor = account.floor
      PROVE  \E r \in Request : req'[p] = r /\ Serial(r)'
  BY <1>0, <1>4, RotatesFrame, LinksFrame, DatedFrame, SilencedFrame, RenewedFrame DEF Serial
<1>5. CASE EnableMfa(p)
  <2>1. account'.password = account.password /\ account'.floor = account.floor
    BY <1>1, <1>5 DEF EnableMfa, Account
  <2> QED BY <1>0, <1>4, <1>5, <2>1 DEF EnableMfa, At
<1>6. CASE ClearMfa(p)
  <2>1. account'.password = account.password /\ account'.floor = account.floor
    BY <1>1, <1>6 DEF ClearMfa, MfaOff, Account
  <2> QED BY <1>0, <1>2, <1>3, <1>4, <1>6, <2>1 DEF ClearMfa, At
<1>7. CASE ClearSecret(p)
  <2>1. account'.password = account.password /\ account'.floor = account.floor
    BY <1>1, <1>7 DEF ClearSecret, Account
  <2> QED BY <1>0, <1>1, <1>2, <1>4, <1>7, <2>1 DEF ClearSecret, At
<1>8. CASE SaveUser(p)
  <2>1. account'.password = account.password /\ account'.floor = account.floor
    BY <1>0, <1>8 DEF SaveUser, At, Serial, LinksWork, Dated
  <2> QED BY <1>0, <1>1, <1>2, <1>4, <1>8, <2>1 DEF SaveUser, At
<1>9. CASE Activate(p)
  <2>1. /\ o.at = "activate" /\ firmActive' = TRUE /\ req'[p] = Idle
        /\ UNCHANGED <<account, refresh, logins, links, passwords, clock, forced, crashed>>
    BY <1>0, <1>2, <1>9 DEF Activate, At
  <2>2. Silenced(Idle)'
    BY <1>1, <2>1 DEF Silenced
  <2> QED
    BY <1>0, <1>1, <2>1, <2>2, RotatesFrame, LinksFrame, DatedFrame, RenewedFrame DEF Serial
<1>10. CASE Deactivate(p)
  <2>1. PICK n \in Request : n.at = "stamp" /\ req'[p] = n
    BY <1>2, <1>3, <1>10 DEF Deactivate, AfterDeactivation
  <2>2. /\ o.at = "deactivate"
        /\ UNCHANGED <<account, refresh, logins, links, passwords, clock, forced, crashed>>
    BY <1>0, <1>10 DEF Deactivate, At
  <2>3. Silenced(n)'
    BY <2>1 DEF Silenced
  <2> QED
    BY <1>0, <2>1, <2>2, <2>3, RotatesFrame, LinksFrame, DatedFrame, RenewedFrame DEF Serial
<1>11. CASE Stamp(p)
  <2>1. PICK n \in Request : n.at = "revokeAll" /\ req'[p] = n
    BY <1>2, <1>3, <1>11 DEF Stamp
  <2>2. /\ o.at = "stamp" /\ account'.password = account.password /\ account'.floor = clock
        /\ forced' = {t \in Tokens : refresh[t].status # "none"}
        /\ UNCHANGED <<firmActive, refresh, logins, links, passwords, clock, crashed>>
    BY <1>0, <1>1, <1>11 DEF Stamp, Stamped, At, Account
  <2>3. Dated(n)'
    BY <1>0, <1>1, <2>1, <2>2 DEF Serial, Dated, Known
  <2> QED
    BY <1>0, <2>1, <2>2, <2>3, RotatesFrame, LinksFrame, SilencedFrame, RenewedFrame DEF Serial
<1>12. CASE Login(p)
  <2>0. PICK a \in Account, m \in Nat : a = account /\ m = Len(logins) + 1
    BY <1>1
  <2>1. PICK n : n = [Idle EXCEPT !.at = "loginFirm", !.login = m, !.copy = a] /\ req'[p] = n
    BY <1>2, <1>12, <2>0 DEF Login, NewLogin
  <2>2. n \in Request /\ n.at = "loginFirm" /\ n.login = m
    BY <1>1, <2>0, <2>1 DEF Request
  <2>3. /\ o.at = "idle" /\ logins' = Append(logins, account.password)
        /\ UNCHANGED <<account, firmActive, refresh, links, passwords, clock, forced, crashed>>
    BY <1>0, <1>12 DEF Login, At
  <2>4. /\ Len(logins') = m /\ logins'[m] = account.password
        /\ \A i \in 1 .. Len(logins) : logins'[i] = logins[i] /\ i \in 1 .. m
    BY <1>1, <2>0, <2>3, AppendProperties DEF Account
  <2>5. Renewed(n)'
    <3>1. \A t \in Tokens : Known(t)' => refresh'[t].login \in 1 .. Len(logins)
      BY <1>0, <2>3 DEF Serial, Renewed, Known
    <3>2. ~crashed => \A t \in Tokens : Live(t)' => refresh'[t].mfa \/ Current(refresh[t].login)'
      <4>1. \A t \in Tokens : Live(t)' => Known(t)'
        BY DEF Live, Known
      <4> QED BY <1>0, <2>3, <2>4, <3>1, <4>1 DEF Serial, Renewed, Live, Current
    <3> QED BY <2>2, <2>3, <2>4, <3>1, <3>2 DEF Renewed, Current
  <2> QED
    BY <1>0, <2>1, <2>2, <2>3, <2>5, RotatesFrame, LinksFrame, DatedFrame, SilencedFrame
    DEF Serial
<1> QED BY <1>5, <1>6, <1>7, <1>8, <1>9, <1>10, <1>11, <1>12

\* Time passes while the request waits.
LEMMA PassesSerial ==
  ASSUME IInv, NEW o \in Request, Serial(o), GoodRequest(o), Passes
  PROVE  Serial(o)'
<1>1. CASE ChallengeExpires
  BY <1>1 DEF ChallengeExpires, Serial, RotatesOnce, RotatedOnce, Known, LinksWork, OneLink,
     LinkUsedOnce, Dated, Silenced, Live, Renewed, Current
<1>2. CASE TokenExpires
  <2>1. /\ refresh' \in [Tokens -> Token]
        /\ \A t \in Tokens : refresh'[t] \in {refresh[t], Revoked(refresh[t])}
    BY <1>2, RevokedGood DEF TokenExpires, IInv, GoodState
  <2> QED BY <1>2, <2>1, KilledSerial DEF TokenExpires
<1>3. CASE LinkExpires
  <2>1. PICK l \in Links : links' = [links EXCEPT ![l] = Retired(@)]
    BY <1>3 DEF LinkExpires
  <2>2. \A i \in 1 .. Len(passwords) : passwords[i] \in Links
    BY DEF IInv, GoodState
  <2>3. /\ \A k \in Links : links'[k] = "unused" => links[k] = "unused"
        /\ \A k \in Links : links[k] = "spent" => links'[k] = "spent"
        /\ \A k \in Links : links[k] = "unused" => links'[k] \in {"unused", "spent"}
    BY <2>1 DEF IInv, GoodState, Retired
  <2>4. UNCHANGED <<account, firmActive, refresh, logins, passwords, clock, forced, crashed>>
    BY <1>3 DEF LinkExpires
  <2>5. LinksWork(o)'
    BY <2>2, <2>3, <2>4 DEF Serial, LinksWork, OneLink, LinkUsedOnce, GoodRequest
  <2> QED
    BY <2>4, <2>5 DEF Serial, RotatesOnce, RotatedOnce, Known, Dated, Silenced, Live, Renewed,
                      Current
<1>4. CASE Tick
  <2>1. /\ clock' = clock + 1 /\ clock \in Nat /\ account.floor \in Nat
        /\ \A t \in Tokens : refresh[t].iat \in Nat
        /\ UNCHANGED <<account, firmActive, refresh, logins, links, passwords, forced, crashed>>
    BY <1>4 DEF Tick, IInv, GoodState, Account, Token
  <2>2. Dated(o)'
    BY <2>1 DEF Serial, Dated, Known
  <2> QED
    BY <2>1, <2>2 DEF Serial, RotatesOnce, RotatedOnce, Known, LinksWork, OneLink, LinkUsedOnce,
                      Silenced, Live, Renewed, Current
<1> QED BY <1>1, <1>2, <1>3, <1>4 DEF Passes

-----------------------------------------------------------------------------
(* One request at a time: the theorems.                                    *)

\* A user without a session.
LEMMA InitSerial == Init => Serial(Idle)
<1> SUFFICES ASSUME Init PROVE Serial(Idle)
  OBVIOUS
<1>1. /\ \A t \in Tokens : refresh[t] = Unissued
      /\ account.password = 0 /\ account.floor = 0 /\ Len(passwords) = 0 /\ clock = 1
      /\ forced = {} /\ firmActive /\ \A l \in Links : links[l] = "none"
      /\ Idle.at = "idle" /\ NoToken \notin Tokens
  BY NoTokenAssumption DEF Init, NewAccount, Idle
<1>2. /\ Unissued.status = "none" /\ Unissued.parent = NoToken /\ Unissued.iat = 0
  BY DEF Unissued
<1> QED
  BY <1>1, <1>2 DEF Serial, RotatesOnce, RotatedOnce, Known, LinksWork, OneLink, LinkUsedOnce,
                    Dated, Silenced, Live, Renewed

\* Every step keeps what is known of the only request.
LEMMA NextSerial ==
  ASSUME NEW p, Requests = {p}, IInv, Serial(req[p]), [Next]_vars
  PROVE  Serial(req[p])'
<1>0. PICK o \in Request : o = req[p] /\ GoodRequest(o)
  BY DEF IInv
<1>1. ASSUME NEW q \in Requests, Starts(q) \/ Continues(q) \/ Dies(q)
      PROVE  Serial(req[p])'
  <2>1. q = p /\ \A n : Goes(q, n) => req'[p] = n
    BY DEF IInv, Goes
  <2> QED
    BY <1>1, <2>1, RequestSerial, TokensSerial, ResetSerial, AccountSerial
    DEF Starts, Continues
<1>2. CASE Passes
  <2>1. UNCHANGED req
    BY <1>2 DEF Passes, ChallengeExpires, TokenExpires, LinkExpires, Tick
  <2> QED BY <1>0, <1>2, <2>1, PassesSerial
<1>3. CASE UNCHANGED vars
  BY <1>3 DEF vars, Serial, RotatesOnce, RotatedOnce, Known, LinksWork, OneLink,
     LinkUsedOnce, Dated, Silenced, Live, Renewed, Current
<1> QED BY <1>1, <1>2, <1>3 DEF Next

\* What holds of one request at a time, in every reachable state.
THEOREM SerialInvariance ==
  ASSUME NEW CONSTANT p, Requests = {p} PROVE Spec => []Serial(req[p])
<1>1. Init => Serial(req[p])
  BY InitSerial DEF Init
<1>2. IInv /\ Serial(req[p]) /\ [Next]_vars => Serial(req[p])'
  BY NextSerial
<1> QED BY <1>1, <1>2, Invariance, PTL DEF Spec

\* One request at a time, which may die at any await: a refresh token has at
\* most one successor.
THEOREM RotationCorrect ==
  ASSUME NEW CONSTANT p, Requests = {p} PROVE Spec => []RotatedOnce
<1>1. Serial(req[p]) => RotatedOnce
  BY DEF Serial, RotatesOnce
<1> QED BY <1>1, SerialInvariance, PTL

\* One request at a time, which may die at any await: at most one reset link
\* works, each changes the password at most once, and the stored password is
\* the last one set.
THEOREM ResetCorrect ==
  ASSUME NEW CONSTANT p, Requests = {p} PROVE Spec => []ResetTakes
<1>1. Serial(req[p]) => ResetTakes
  BY DEF Serial, LinksWork, ResetTakes
<1> QED BY <1>1, SerialInvariance, PTL

\* One request at a time, which may die at any await: the access tokens issued
\* before a forced logout are rejected, but for those of the same second.
THEOREM ForcedOutCorrect ==
  ASSUME NEW CONSTANT p, Requests = {p} PROVE Spec => []ForcedOut
<1>1. IInv /\ Serial(req[p]) => ForcedOut
  BY DEF IInv, GoodState, Account, Token, Serial, Dated, ForcedOut, Accepted
<1> QED BY <1>1, Invariance, SerialInvariance, PTL

\* One request at a time: once a deactivation has run to its end, the inactive
\* firm has no live token.
THEOREM SilenceCorrect ==
  ASSUME NEW CONSTANT p, Requests = {p} PROVE Spec => []InactiveFirmSilent
<1>1. Serial(req[p]) => InactiveFirmSilent
  BY DEF Serial, Silenced, InactiveFirmSilent, Quiet, At
<1> QED BY <1>1, SerialInvariance, PTL

\* One request at a time: once a reset has run to its end, a session older than
\* the password in force comes of an MFA challenge.
THEOREM ReloginCorrect ==
  ASSUME NEW CONSTANT p, Requests = {p} PROVE Spec => []ReloginButForChallenges
<1>1. Serial(req[p]) => ReloginButForChallenges
  BY DEF Serial, Renewed, Current, ReloginButForChallenges, Quiet, At
<1> QED BY <1>1, SerialInvariance, PTL
=============================================================================
