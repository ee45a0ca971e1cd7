---------------------------- MODULE PortalAccess ----------------------------
(***************************************************************************)
(* The portal accounts of one firm's clients: the invitation that mails a  *)
(* setup link, the setup, the login, the cookie that each portal call      *)
(* shows, and the removal of the access (portal.service.ts, and the calls  *)
(* of clients.service.ts and clients.controller.ts that lead there).       *)
(*                                                                         *)
(* A request runs alone between two awaits, and each action is one such    *)
(* stretch.  A save writes back every column of the row as loaded, inserts *)
(* the row again when it is gone, and skips a column set to undefined.     *)
(***************************************************************************)
EXTENDS Naturals, FiniteSets

CONSTANTS Requests,     \* request slots: how many run at once
          Clients,      \* ids of clients, each used for one client
          PortalOnly,   \* those of customers invited to the portal alone
          Addresses,    \* mail addresses
          MaxLinks,     \* bound on the setup links issued
          Faults        \* TRUE when a request may stop at any await

VARIABLES client,   \* the clients' rows
          account,  \* the client_users rows, client_id is unique
          links,    \* number of setup links issued
          mailed,   \* links that reached their client
          used,     \* how often each link set a password
          cookies,  \* portal sessions handed out
          revoked,  \* the last account taken from each client
          address,  \* the mail address of each client, never changes
          req       \* the requests in progress

rows    == <<client, account>>
history == <<used, cookies, revoked>>
vars    == <<rows, links, mailed, history, address, req>>

-----------------------------------------------------------------------------
(* Types.                                                                  *)

Links == 1..MaxLinks

\* An account is known by the link it was created with.
Account == [id     : Links,
            token  : 0..MaxLinks,   \* portal_setup_token, 0 is NULL
            open   : BOOLEAN,       \* the token has not expired
            active : BOOLEAN]       \* a password is set

NoAccount == [id |-> 0]

Place == {"idle", "saveClient", "find", "saveInvite", "mail", "saveSetup",
          "saveLogin", "removeAccount", "removeClient"}

Request == [at    : Place,
            who   : Clients,
            copy  : Account \cup {NoAccount},   \* the row it loaded
            link  : 0..MaxLinks]

IdleAt(c) == [at |-> "idle", who |-> c, copy |-> NoAccount, link |-> 0]

AnyClient == CHOOSE c \in Clients : TRUE

Idle == IdleAt(AnyClient)

Init ==
  /\ client = [c \in Clients |-> "none"]
  /\ account = [c \in Clients |-> NoAccount]
  /\ links = 0
  /\ mailed = {}
  /\ used = [n \in Links |-> 0]
  /\ cookies = {}
  /\ revoked = [c \in Clients |-> 0]
  /\ address \in [Clients -> Addresses]
  /\ req = [p \in Requests |-> Idle]

-----------------------------------------------------------------------------
(* Requests.                                                               *)

At(p, place) == req[p].at = place

Goes(p, r) == req' = [req EXCEPT ![p] = r]

Starts(p, r) == At(p, "idle") /\ Goes(p, r)

Has(c) == account[c] # NoAccount

-----------------------------------------------------------------------------
(* Invitations.                                                            *)

\* A request that will make a new link.  Bound: MaxLinks.
Invites(p, c, place) ==
  /\ links < MaxLinks
  /\ links' = links + 1
  /\ Starts(p, [IdleAt(c) EXCEPT !.at = place, !.link = links + 1])

\* ClientsService.create: the client is saved, and its invitation to the
\* portal runs beside the rest of the request.
CreateClient(p, c) ==
  /\ c \notin PortalOnly
  /\ client[c] = "none"
  /\ client' = [client EXCEPT ![c] = "kept"]
  /\ Invites(p, c, "find")
  /\ UNCHANGED <<account, mailed, history, address>>

\* isPortalEmailInUse
EmailInUse(c) == \E d \in Clients : Has(d) /\ address[d] = address[c]

\* invitePortalClient refuses an address that has an account.
InvitePortalClient(p, c) ==
  /\ c \in PortalOnly
  /\ client[c] = "none"
  /\ ~EmailInUse(c)
  /\ Invites(p, c, "saveClient")
  /\ UNCHANGED <<rows, mailed, history, address>>

SaveClient(p) ==
  /\ At(p, "saveClient")
  /\ client' = [client EXCEPT ![req[p].who] = "kept"]
  /\ Goes(p, [req[p] EXCEPT !.at = "find"])
  /\ UNCHANGED <<account, links, mailed, history, address>>

ResendInvite(p, c) ==
  /\ client[c] = "kept"
  /\ Invites(p, c, "find")
  /\ UNCHANGED <<rows, mailed, history, address>>

\* createAndInvite loads the account, if there is one.
FindAccount(p) ==
  /\ At(p, "find")
  /\ Goes(p, [req[p] EXCEPT !.at = "saveInvite", !.copy = account[req[p].who]])
  /\ UNCHANGED <<rows, links, mailed, history, address>>

\* The row an invitation saves: a new one, or the one it loaded with the token.
Invited(r) ==
  IF r.copy = NoAccount
    THEN [id |-> r.link, token |-> r.link, open |-> TRUE, active |-> FALSE]
    ELSE [r.copy EXCEPT !.token = r.link, !.open = TRUE]

\* The second of two first invitations fails: client_id is unique.
SaveInvite(p) ==
  LET c == req[p].who
      taken == req[p].copy = NoAccount /\ Has(c)
  IN /\ At(p, "saveInvite")
     /\ account' = IF taken THEN account
                            ELSE [account EXCEPT ![c] = Invited(req[p])]
     /\ Goes(p, IF taken THEN Idle ELSE [req[p] EXCEPT !.at = "mail"])
     /\ UNCHANGED <<client, links, mailed, history, address>>

\* The failure of the mail is logged, and nobody is told.
MailInvite(p) ==
  /\ At(p, "mail")
  /\ mailed' \in {mailed \cup {[who |-> req[p].who, link |-> req[p].link]}}
                 \cup (IF Faults THEN {mailed} ELSE {})
  /\ Goes(p, Idle)
  /\ UNCHANGED <<rows, links, history, address>>

-----------------------------------------------------------------------------
(* Setup and login.                                                        *)

\* The client opens a link it was mailed, maybe an old one.
Setup(p, m) ==
  LET c == m.who
  IN /\ Has(c)
     /\ account[c].token = m.link
     /\ account[c].open
     /\ Starts(p, [IdleAt(c) EXCEPT !.at = "saveSetup", !.copy = account[c],
                                    !.link = m.link])
     /\ UNCHANGED <<rows, links, mailed, history, address>>

\* The token is set to undefined, so the row keeps the one it has.
SetUp(r, row) ==
  IF row = NoAccount
    THEN [r.copy EXCEPT !.active = TRUE, !.token = 0]
    ELSE [r.copy EXCEPT !.active = TRUE, !.token = row.token, !.open = row.open]

\* The password is hashed, and the row is saved.  The answer is a session.
SaveSetup(p) ==
  LET c == req[p].who
  IN /\ At(p, "saveSetup")
     /\ account' = [account EXCEPT ![c] = SetUp(req[p], @)]
     /\ used' = [used EXCEPT ![req[p].link] = IF @ = 2 THEN 2 ELSE @ + 1]
     /\ cookies' = cookies \cup {[who |-> c, id |-> req[p].copy.id]}
     /\ Goes(p, Idle)
     /\ UNCHANGED <<client, links, mailed, revoked, address>>

\* An active row is found by the address.  When that is another client's, which
\* an address shared by two makes possible, the password does not fit.
Login(p, c) ==
  /\ Has(c)
  /\ account[c].active
  /\ Starts(p, [IdleAt(c) EXCEPT !.at = "saveLogin", !.copy = account[c]])
  /\ UNCHANGED <<rows, links, mailed, history, address>>

\* The password fits, last_login_at is set and the row saved.
SaveLogin(p) ==
  LET c == req[p].who
  IN /\ At(p, "saveLogin")
     /\ account' = [account EXCEPT ![c] = req[p].copy]
     /\ cookies' = cookies \cup {[who |-> c, id |-> req[p].copy.id]}
     /\ Goes(p, Idle)
     /\ UNCHANGED <<client, links, mailed, used, revoked, address>>

\* PortalJwtStrategy.validate: the session's row must be there and active.
LetIn(s) == Has(s.who) /\ account[s.who].id = s.id /\ account[s.who].active

-----------------------------------------------------------------------------
(* Removal.                                                                *)

\* removePortalCustomer loads the client, revokeAccess its account.
Revoke(p, c) ==
  /\ client[c] = "kept"
  /\ Has(c)
  /\ Starts(p, [IdleAt(c) EXCEPT !.at = "removeAccount", !.copy = account[c]])
  /\ UNCHANGED <<rows, links, mailed, history, address>>

\* Mutant: the account is switched off and not removed.
RowSwitchedOff(row, copy) ==
  IF row.id = copy.id THEN [row EXCEPT !.active = FALSE] ELSE row

\* The row is deleted by its id.
RowRemoved(row, copy) == IF row.id = copy.id THEN NoAccount ELSE row

\* A customer of the portal alone goes with the account.
AfterAccount(c) == IF c \in PortalOnly THEN "removeClient" ELSE "idle"

RemoveAccount(p) ==
  LET c == req[p].who
  IN /\ At(p, "removeAccount")
     /\ account' = [account EXCEPT ![c] = RowRemoved(@, req[p].copy)]
     /\ revoked' = [revoked EXCEPT ![c] = IF @ < req[p].copy.id THEN req[p].copy.id ELSE @]
     /\ Goes(p, [IdleAt(c) EXCEPT !.at = AfterAccount(c)])
     /\ UNCHANGED <<client, links, mailed, used, cookies, address>>

RemoveClient(p) ==
  /\ At(p, "removeClient")
  /\ client' = [client EXCEPT ![req[p].who] = "removed"]
  /\ Goes(p, Idle)
  /\ UNCHANGED <<account, links, mailed, history, address>>

-----------------------------------------------------------------------------
(* What the code does not decide.                                          *)

\* The token's days pass.
LinkExpires(c) ==
  /\ Has(c)
  /\ account[c].open
  /\ account' = [account EXCEPT ![c].open = FALSE]
  /\ UNCHANGED <<client, links, mailed, history, address, req>>

\* The process stops, or the database fails the request.
Stop(p) ==
  /\ Faults
  /\ ~At(p, "idle")
  /\ Goes(p, Idle)
  /\ UNCHANGED <<rows, links, mailed, history, address>>

-----------------------------------------------------------------------------
(* The system.                                                             *)

Begin(p) ==
  \/ \E c \in Clients : \/ CreateClient(p, c)
                        \/ InvitePortalClient(p, c)
                        \/ ResendInvite(p, c)
                        \/ Login(p, c)
                        \/ Revoke(p, c)
  \/ \E m \in mailed : Setup(p, m)

Continue(p) ==
  \/ SaveClient(p)
  \/ FindAccount(p)
  \/ SaveInvite(p)
  \/ MailInvite(p)
  \/ SaveSetup(p)
  \/ SaveLogin(p)
  \/ RemoveAccount(p)
  \/ RemoveClient(p)

Next ==
  \/ \E p \in Requests : Begin(p) \/ Continue(p) \/ Stop(p)
  \/ \E c \in Clients : LinkExpires(c)

Spec == Init /\ [][Next]_vars

-----------------------------------------------------------------------------
(* Properties.                                                             *)

\* Every variable holds a value of its type.
TypeOK ==
  /\ client \in [Clients -> {"none", "kept", "removed"}]
  /\ account \in [Clients -> Account \cup {NoAccount}]
  /\ links \in 0..MaxLinks
  /\ mailed \subseteq [who : Clients, link : Links]
  /\ used \in [Links -> 0..2]
  /\ cookies \subseteq [who : Clients, id : Links]
  /\ revoked \in [Clients -> 0..MaxLinks]
  /\ address \in [Clients -> Addresses]
  /\ req \in [Requests -> Request]

\* Once its access is removed (revokeAccess), no portal session that a client
\* had opened lets it in again, as long as requests run one at a time; a login
\* or an invitation that loaded the account first would insert it again.
RevokedStaysOut ==
  \A s \in cookies : LetIn(s) => s.id > revoked[s.who]
=============================================================================
