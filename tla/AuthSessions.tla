---------------------------- MODULE AuthSessions ----------------------------
(***************************************************************************)
(* The sign-in sessions of one user of one firm: login, the MFA challenge, *)
(* rotation of refresh tokens, password reset, logout, the administrator's *)
(* forced logout and deactivation of the firm, and the edits that save the *)
(* user's row (auth.service.ts, users.service.ts, admin.service.ts,        *)
(* jwt.strategy.ts).                                                       *)
(*                                                                         *)
(* A request runs alone between two awaits, and each action is one such    *)
(* stretch.  Statements that update named columns are one step; a save of  *)
(* a loaded row writes back every column, as loaded.                       *)
(*                                                                         *)
(* Wrong passwords, codes and tokens change nothing, so every request here *)
(* comes with the right ones.  users.is_active is never set to FALSE, so   *)
(* the tests of it are left out.                                           *)
(***************************************************************************)
EXTENDS Naturals, Sequences, FiniteSets

CONSTANTS Requests,  \* request slots: how many run at once
          Tokens,    \* refresh tokens that can be issued
          NoToken,   \* issued by a login, not by a rotation
          Links,     \* password reset links that can be mailed
          NoLink,
          MaxLogins, \* bound on the logins
          MaxTime,   \* bound on the clock, in seconds
          Faults     \* TRUE when a request may die between two steps

ASSUME NoTokenAssumption == NoToken \notin Tokens
ASSUME NoLinkAssumption == NoLink \notin Links
ASSUME BoundsAssumption == MaxLogins \in Nat /\ MaxTime \in Nat
ASSUME FaultsAssumption == Faults \in BOOLEAN

VARIABLES account,    \* the user's row
          firmActive, \* tenants.is_active
          refresh,    \* the refresh tokens, each with the access JWT issued with it
          logins,     \* for each login, the password version it was checked against
          challenges, \* logins whose MFA challenge can still be answered
          proved,     \* logins for which a TOTP code was given
          links,      \* the password reset links
          passwords,  \* the links that changed the password, in order
          req,        \* the requests in progress
          clock,      \* in seconds, as JWTs count
          forced,     \* tokens issued before a forced logout stamped the user
          crashed     \* has a request died half-way?

vars == <<account, firmActive, refresh, logins, challenges, proved, links,
          passwords, req, clock, forced, crashed>>

-----------------------------------------------------------------------------
(* Types.                                                                  *)

\* The password is named by its version: the number of changes before it.
\* The floor is session_invalidated_at, 0 for NULL.
Account == [password : Nat, mfa : BOOLEAN, secret : BOOLEAN, floor : Nat]

\* login: the login the token descends from.  iat: when its JWT was signed.
Token == [status : {"none", "live", "dead"},   \* dead: revoked or expired
          login  : Nat,
          mfa    : BOOLEAN,
          parent : Tokens \cup {NoToken},
          iat    : Nat]

Unissued == [status |-> "none", login |-> 0, mfa |-> FALSE,
             parent |-> NoToken, iat |-> 0]

Request == [at    : {"idle", "loginFirm", "verifyFirm", "refreshFirm", "rotate",
                     "issue", "retireLinks", "mailLink", "useLink",
                     "setPassword", "revokeAll", "activate", "deactivate", "stamp",
                     "clearMfa", "clearSecret", "saveUser"},
            login : Nat,                    \* 0: the request carries no session
            mfa   : BOOLEAN,                \* the flag its tokens will carry
            token : Tokens \cup {NoToken},  \* the token it rotates
            link  : Links \cup {NoLink},
            copy  : Account]                \* the row it loaded

NewAccount == [password |-> 0, mfa |-> FALSE, secret |-> FALSE, floor |-> 0]

Idle == [at |-> "idle", login |-> 0, mfa |-> FALSE, token |-> NoToken,
         link |-> NoLink, copy |-> NewAccount]

Init ==
  /\ \E mfa \in BOOLEAN :
       account = [NewAccount EXCEPT !.mfa = mfa, !.secret = mfa]
  /\ firmActive = TRUE
  /\ refresh = [t \in Tokens |-> Unissued]
  /\ logins = <<>>
  /\ challenges = {}
  /\ proved = {}
  /\ links = [l \in Links |-> "none"]
  /\ passwords = <<>>
  /\ req = [p \in Requests |-> Idle]
  /\ clock = 1
  /\ forced = {}
  /\ crashed = FALSE

-----------------------------------------------------------------------------
(* Requests.                                                               *)

At(p, place) == req[p].at = place

Goes(p, r) == req' = [req EXCEPT ![p] = r]

\* Bound: a request that may issue a token starts only if one is left for it.
Room == Cardinality({p \in Requests : ~At(p, "idle")})
          < Cardinality({t \in Tokens : refresh[t].status = "none"})

\* Must this user answer an MFA challenge?
MfaGate(a) == a.mfa /\ a.secret

-----------------------------------------------------------------------------
(* Login and the MFA challenge.                                            *)

\* Mutant: off by one.
NewLoginAhead == Len(logins) + 2

NewLogin == Len(logins) + 1

\* login: the user is found and the password compared with the hash found.
Login(p) ==
  /\ At(p, "idle") /\ Room
  /\ Len(logins) < MaxLogins
  /\ logins' = Append(logins, account.password)
  /\ Goes(p, [Idle EXCEPT !.at = "loginFirm", !.login = NewLogin,
                          !.copy = account])
  /\ UNCHANGED <<account, firmActive, refresh, challenges, proved, links,
                 passwords, clock, forced, crashed>>

\* The firm must be active; then a user with MFA, as found, gets a challenge
\* and any other user tokens.
LoginFirm(p) ==
  /\ At(p, "loginFirm")
  /\ LET r == req[p]
     IN \/ /\ ~firmActive
           /\ Goes(p, Idle)
           /\ UNCHANGED challenges
        \/ /\ firmActive /\ MfaGate(r.copy)
           /\ challenges' = challenges \cup {r.login}
           /\ Goes(p, Idle)
        \/ /\ firmActive /\ ~MfaGate(r.copy)
           /\ Goes(p, [Idle EXCEPT !.at = "issue", !.login = r.login])
           /\ UNCHANGED challenges
  /\ UNCHANGED <<account, firmActive, refresh, logins, proved, links,
                 passwords, clock, forced, crashed>>

\* verifyMfaChallenge: the challenge is a JWT, and answering it leaves it valid.
AnswerChallenge(p) ==
  /\ At(p, "idle") /\ Room
  /\ MfaGate(account)
  /\ \E n \in challenges :
       Goes(p, [Idle EXCEPT !.at = "verifyFirm", !.login = n])
  /\ UNCHANGED <<account, firmActive, refresh, logins, challenges, proved, links,
                 passwords, clock, forced, crashed>>

\* The firm must be active; then the code is verified.
VerifyFirm(p) ==
  /\ At(p, "verifyFirm")
  /\ LET r == req[p]
     IN \/ /\ ~firmActive
           /\ Goes(p, Idle)
           /\ UNCHANGED proved
        \/ /\ firmActive
           /\ proved' = proved \cup {r.login}
           /\ Goes(p, [Idle EXCEPT !.at = "issue", !.login = r.login, !.mfa = TRUE])
  /\ UNCHANGED <<account, firmActive, refresh, logins, challenges, links,
                 passwords, clock, forced, crashed>>

\* Five minutes pass.
ChallengeExpires ==
  /\ \E n \in challenges : challenges' = challenges \ {n}
  /\ UNCHANGED <<account, firmActive, refresh, logins, proved, links,
                 passwords, req, clock, forced, crashed>>

-----------------------------------------------------------------------------
(* Tokens.                                                                 *)

\* Mutant: the lookup of a refresh token forgets is_revoked.
RedeemableRevoked(t) == t.status # "none"

\* A refresh token is found only while it is neither revoked nor expired.
Redeemable(t) == t.status = "live"

\* refreshTokens, and restoreSession when the JWT has run out.
Refresh(p) ==
  /\ At(p, "idle") /\ Room
  /\ \E t \in Tokens :
       /\ Redeemable(refresh[t])
       /\ Goes(p, [Idle EXCEPT !.at = "rotate", !.token = t,
                               !.login = refresh[t].login, !.mfa = refresh[t].mfa])
  /\ UNCHANGED <<account, firmActive, refresh, logins, challenges, proved, links,
                 passwords, clock, forced, crashed>>

\* Mutant: rotation does not revoke.
KeepLive(t) == t

Revoked(t) == IF t.status = "live" THEN [t EXCEPT !.status = "dead"] ELSE t

\* Update by id, whatever has become of the token since.
Rotate(p) ==
  /\ At(p, "rotate")
  /\ refresh' = [refresh EXCEPT ![req[p].token] = Revoked(@)]
  /\ Goes(p, [req[p] EXCEPT !.at = "refreshFirm"])
  /\ UNCHANGED <<account, firmActive, logins, challenges, proved, links,
                 passwords, clock, forced, crashed>>

RefreshFirm(p) ==
  /\ At(p, "refreshFirm")
  /\ Goes(p, IF firmActive THEN [req[p] EXCEPT !.at = "issue"] ELSE Idle)
  /\ UNCHANGED <<account, firmActive, refresh, logins, challenges, proved, links,
                 passwords, clock, forced, crashed>>

\* Mutant: a rotated session counts as MFA authenticated.
IssuedMfa(r) == [status |-> "live", login |-> r.login, mfa |-> TRUE,
                 parent |-> r.token, iat |-> clock]

Issued(r) == [status |-> "live", login |-> r.login, mfa |-> r.mfa,
              parent |-> r.token, iat |-> clock]

\* issueTokens: an access JWT is signed and a refresh token saved.
Issue(p) ==
  /\ At(p, "issue")
  /\ \E t \in Tokens :
       /\ refresh[t].status = "none"
       /\ refresh' = [refresh EXCEPT ![t] = Issued(req[p])]
  /\ Goes(p, Idle)
  /\ UNCHANGED <<account, firmActive, logins, challenges, proved, links,
                 passwords, clock, forced, crashed>>

\* Seven days pass.
TokenExpires ==
  /\ \E t \in Tokens : refresh' = [refresh EXCEPT ![t] = Revoked(@)]
  /\ UNCHANGED <<account, firmActive, logins, challenges, proved, links,
                 passwords, req, clock, forced, crashed>>

\* logout: the given token, or without one every token of the user.
Logout(p) ==
  /\ At(p, "idle")
  /\ \/ \E t \in Tokens : refresh' = [refresh EXCEPT ![t] = Revoked(@)]
     \/ refresh' = [t \in Tokens |-> Revoked(refresh[t])]
  /\ UNCHANGED <<account, firmActive, logins, challenges, proved, links,
                 passwords, req, clock, forced, crashed>>

\* The last step of a reset, a forced logout and a deactivation.
RevokeAll(p) ==
  /\ At(p, "revokeAll")
  /\ refresh' = [t \in Tokens |-> Revoked(refresh[t])]
  /\ Goes(p, Idle)
  /\ UNCHANGED <<account, firmActive, logins, challenges, proved, links,
                 passwords, clock, forced, crashed>>

-----------------------------------------------------------------------------
(* Password reset.                                                         *)

\* forgotPassword: find the user, retire the links not used yet, mail a link.
Forgot(p) ==
  /\ At(p, "idle")
  /\ \E l \in Links : links[l] = "none"
  /\ Goes(p, [Idle EXCEPT !.at = "retireLinks"])
  /\ UNCHANGED <<account, firmActive, refresh, logins, challenges, proved, links,
                 passwords, clock, forced, crashed>>

\* Mutant: older links stay usable.
KeepLink(status) == status

Retired(status) == IF status = "unused" THEN "spent" ELSE status

RetireLinks(p) ==
  /\ At(p, "retireLinks")
  /\ links' = [l \in Links |-> Retired(links[l])]
  /\ Goes(p, [Idle EXCEPT !.at = "mailLink"])
  /\ UNCHANGED <<account, firmActive, refresh, logins, challenges, proved,
                 passwords, clock, forced, crashed>>

\* Bound: no link is left to mail.
MailLink(p) ==
  /\ At(p, "mailLink")
  /\ \/ \E l \in Links : links[l] = "none" /\ links' = [links EXCEPT ![l] = "unused"]
     \/ (\A l \in Links : links[l] # "none") /\ UNCHANGED links
  /\ Goes(p, Idle)
  /\ UNCHANGED <<account, firmActive, refresh, logins, challenges, proved,
                 passwords, clock, forced, crashed>>

\* resetPassword: find the unused link, mark it used, change the password,
\* revoke every refresh token.
Reset(p) ==
  /\ At(p, "idle")
  /\ \E l \in Links :
       /\ links[l] = "unused"
       /\ Goes(p, [Idle EXCEPT !.at = "useLink", !.link = l])
  /\ UNCHANGED <<account, firmActive, refresh, logins, challenges, proved, links,
                 passwords, clock, forced, crashed>>

UseLink(p) ==
  /\ At(p, "useLink")
  /\ links' = [links EXCEPT ![req[p].link] = Retired(@)]
  /\ Goes(p, [req[p] EXCEPT !.at = "setPassword"])
  /\ UNCHANGED <<account, firmActive, refresh, logins, challenges, proved,
                 passwords, clock, forced, crashed>>

WithPassword(a, version) == [a EXCEPT !.password = version]

SetPassword(p) ==
  /\ At(p, "setPassword")
  /\ passwords' = Append(passwords, req[p].link)
  /\ account' = WithPassword(account, Len(passwords) + 1)
  /\ Goes(p, [req[p] EXCEPT !.at = "revokeAll"])
  /\ UNCHANGED <<firmActive, refresh, logins, challenges, proved, links, clock,
                 forced, crashed>>

\* One hour passes.
LinkExpires ==
  /\ \E l \in Links : links' = [links EXCEPT ![l] = Retired(@)]
  /\ UNCHANGED <<account, firmActive, refresh, logins, challenges, proved,
                 passwords, req, clock, forced, crashed>>

-----------------------------------------------------------------------------
(* The platform administrator.                                             *)

\* setFirmActive: load the firm, save the opposite of its flag, and after a
\* deactivation force the firm's users out.
ToggleFirm(p) ==
  /\ At(p, "idle")
  /\ Goes(p, [Idle EXCEPT !.at = IF firmActive THEN "deactivate" ELSE "activate"])
  /\ UNCHANGED <<account, firmActive, refresh, logins, challenges, proved, links,
                 passwords, clock, forced, crashed>>

Activate(p) ==
  /\ At(p, "activate")
  /\ firmActive' = TRUE
  /\ Goes(p, Idle)
  /\ UNCHANGED <<account, refresh, logins, challenges, proved, links,
                 passwords, clock, forced, crashed>>

\* Mutant: deactivation only clears the flag.
FlagOnly == "idle"

AfterDeactivation == "stamp"

Deactivate(p) ==
  /\ At(p, "deactivate")
  /\ firmActive' = FALSE
  /\ Goes(p, [Idle EXCEPT !.at = AfterDeactivation])
  /\ UNCHANGED <<account, refresh, logins, challenges, proved, links,
                 passwords, clock, forced, crashed>>

\* invalidateUserSessions, invalidateFirmSessions.
ForceLogout(p) ==
  /\ At(p, "idle")
  /\ Goes(p, [Idle EXCEPT !.at = "stamp"])
  /\ UNCHANGED <<account, firmActive, refresh, logins, challenges, proved, links,
                 passwords, clock, forced, crashed>>

\* Mutant: an older stamp is kept.
StampedOnce(a) == IF a.floor = 0 THEN [a EXCEPT !.floor = clock] ELSE a

Stamped(a) == [a EXCEPT !.floor = clock]

\* invalidateSessionsForUserIds: stamp the user, then revoke.
Stamp(p) ==
  /\ At(p, "stamp")
  /\ account' = Stamped(account)
  /\ forced' = {t \in Tokens : refresh[t].status # "none"}
  /\ Goes(p, [Idle EXCEPT !.at = "revokeAll"])
  /\ UNCHANGED <<firmActive, refresh, logins, challenges, proved, links,
                 passwords, clock, crashed>>

\* Is the access JWT issued with token t, if not expired, accepted?
Accepted(t) == /\ t.status # "none"
               /\ firmActive
               /\ t.iat >= account.floor

Tick ==
  /\ clock < MaxTime
  /\ clock' = clock + 1
  /\ UNCHANGED <<account, firmActive, refresh, logins, challenges, proved, links,
                 passwords, req, forced, crashed>>

-----------------------------------------------------------------------------
(* MFA settings and edits of the user's row.                               *)

\* enableMfa: one update.
EnableMfa(p) ==
  /\ At(p, "idle")
  /\ account' = [account EXCEPT !.mfa = TRUE, !.secret = TRUE]
  /\ UNCHANGED <<firmActive, refresh, logins, challenges, proved, links,
                 passwords, req, clock, forced, crashed>>

\* disableMfa: the flag in one update, the secret in another.
DisableMfa(p) ==
  /\ At(p, "idle")
  /\ MfaGate(account)
  /\ Goes(p, [Idle EXCEPT !.at = "clearMfa"])
  /\ UNCHANGED <<account, firmActive, refresh, logins, challenges, proved, links,
                 passwords, clock, forced, crashed>>

MfaOff(a) == [a EXCEPT !.mfa = FALSE]

ClearMfa(p) ==
  /\ At(p, "clearMfa")
  /\ account' = MfaOff(account)
  /\ Goes(p, [Idle EXCEPT !.at = "clearSecret"])
  /\ UNCHANGED <<firmActive, refresh, logins, challenges, proved, links,
                 passwords, clock, forced, crashed>>

ClearSecret(p) ==
  /\ At(p, "clearSecret")
  /\ account' = [account EXCEPT !.secret = FALSE]
  /\ Goes(p, Idle)
  /\ UNCHANGED <<firmActive, refresh, logins, challenges, proved, links,
                 passwords, clock, forced, crashed>>

\* updateName, updatePermissions: load, set columns not modelled here, save.
EditUser(p) ==
  /\ At(p, "idle")
  /\ Goes(p, [Idle EXCEPT !.at = "saveUser", !.copy = account])
  /\ UNCHANGED <<account, firmActive, refresh, logins, challenges, proved, links,
                 passwords, clock, forced, crashed>>

SaveUser(p) ==
  /\ At(p, "saveUser")
  /\ account' = req[p].copy
  /\ Goes(p, Idle)
  /\ UNCHANGED <<firmActive, refresh, logins, challenges, proved, links,
                 passwords, clock, forced, crashed>>

-----------------------------------------------------------------------------
\* The process stops, or the database fails.
Dies(p) ==
  /\ Faults
  /\ ~At(p, "idle")
  /\ Goes(p, Idle)
  /\ crashed' = TRUE
  /\ UNCHANGED <<account, firmActive, refresh, logins, challenges, proved, links,
                 passwords, clock, forced>>

Starts(p) == \/ Login(p)
             \/ AnswerChallenge(p)
             \/ Refresh(p)
             \/ Logout(p)
             \/ Forgot(p)
             \/ Reset(p)
             \/ ToggleFirm(p)
             \/ ForceLogout(p)
             \/ EnableMfa(p)
             \/ DisableMfa(p)
             \/ EditUser(p)

Continues(p) == \/ LoginFirm(p)
                \/ VerifyFirm(p)
                \/ Rotate(p)
                \/ RefreshFirm(p)
                \/ Issue(p)
                \/ RevokeAll(p)
                \/ RetireLinks(p)
                \/ MailLink(p)
                \/ UseLink(p)
                \/ SetPassword(p)
                \/ Activate(p)
                \/ Deactivate(p)
                \/ Stamp(p)
                \/ ClearMfa(p)
                \/ ClearSecret(p)
                \/ SaveUser(p)

Passes == \/ ChallengeExpires
          \/ TokenExpires
          \/ LinkExpires
          \/ Tick

Next == \/ \E p \in Requests : Starts(p) \/ Continues(p) \/ Dies(p)
        \/ Passes

Spec == Init /\ [][Next]_vars

-----------------------------------------------------------------------------
(* Properties.                                                             *)

TypeOK ==
  /\ account \in Account
  /\ firmActive \in BOOLEAN
  /\ refresh \in [Tokens -> Token]
  /\ logins \in Seq(Nat)
  /\ challenges \subseteq 1 .. Len(logins)
  /\ proved \subseteq 1 .. Len(logins)
  /\ links \in [Links -> {"none", "unused", "spent"}]
  /\ passwords \in Seq(Links)
  /\ req \in [Requests -> Request]
  /\ clock \in Nat
  /\ forced \subseteq Tokens
  /\ crashed \in BOOLEAN

Quiet == \A p \in Requests : At(p, "idle")

Live(t) == refresh[t].status = "live"

\* A session that carries the MFA flag, which HMRC is told of, descends from a
\* login that was followed by a valid code, through any number of rotations
\* (verifyMfaChallenge, refreshTokens).
MfaEarned ==
  \A t \in Tokens : refresh[t].status # "none" /\ refresh[t].mfa =>
                      refresh[t].login \in proved

\* Nothing is left of login n: no live token, no request that is about to
\* issue one, no challenge to answer.
Ended(n) == /\ \A t \in Tokens : Live(t) => refresh[t].login # n
            /\ \A p \in Requests : req[p].login # n
            /\ n \notin challenges

\* A session that has ended never comes back, whatever requests of other
\* sessions overlap (refreshTokens, logout).
EndedStaysEnded ==
  [][\A n \in 1 .. Len(logins) : Ended(n) => Ended(n)']_vars

\* "Revoke used token immediately (rotation)": a refresh token has at most one
\* successor (refreshTokens).
RotatedOnce ==
  \A t, u \in Tokens : /\ refresh[t].parent # NoToken
                       /\ refresh[t].parent = refresh[u].parent
                       => t = u

\* "Invalidate any existing unused tokens": at most one link works at a time
\* (forgotPassword).
OneLink == \A l, m \in Links : links[l] = "unused" /\ links[m] = "unused" => l = m

\* "Single-use": a link changes the password at most once (resetPassword).
LinkUsedOnce == \A i, j \in 1 .. Len(passwords) : passwords[i] = passwords[j] => i = j

\* The links do what their owner believes: the last one mailed is the one that
\* works, each works once, and between requests the password in force is the one
\* set last, whatever saves of the whole row came between (forgotPassword,
\* resetPassword, updateName).
ResetTakes ==
  /\ OneLink
  /\ LinkUsedOnce
  /\ Quiet => account.password = Len(passwords)

\* "Deactivation blocks all tenant users from logging in and revokes their
\* refresh tokens": between requests, an inactive firm has no live token, if none
\* of them stopped half-way (setFirmActive).
InactiveFirmSilent == Quiet /\ ~crashed /\ ~firmActive => \A t \in Tokens : ~Live(t)

\* After a forced logout, the access JWTs issued before it are rejected, but
\* for those of the same second (jwt.strategy validate).
ForcedOut ==
  Quiet => \A t \in forced : Accepted(refresh[t]) => refresh[t].iat = account.floor

\* After a reset that ran to its end, a session older than the password in force
\* can only come of an MFA challenge that was open meanwhile (resetPassword,
\* verifyMfaChallenge).
ReloginButForChallenges ==
  Quiet /\ ~crashed => \A t \in Tokens :
    Live(t) /\ logins[refresh[t].login] # account.password => refresh[t].mfa
=============================================================================
