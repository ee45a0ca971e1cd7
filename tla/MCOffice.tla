------------------------------- MODULE MCOffice -------------------------------
(***************************************************************************)
(* Eight services of the back end in one instance for TLC: the connection   *)
(* of OAuthConnection, which this module extends, and seven more.  They     *)
(* share no state here, so a behaviour is one of one service: "scene" says  *)
(* of which, and never changes; the others stay as they begin.              *)
(***************************************************************************)
EXTENDS OAuthConnection, Sequences, Integers

CONSTANTS Clients, PortalOnly, Addresses, MaxLinks,
          PageSize, MaxMessages, MaxFiles,
          StaffFirms, StaffEmails, MaxInvites, MaxUsers,
          MaxDeletions,
          Domains, Public, Names, MaxFirms,
          ChasedClients, ChasePage, FirstDay, LastDay,
          None, Ops, Amounts, Huge, Sandbox, MaxRetries, MaxWrites,
          HmrcFails     \* Faults of HmrcCalls

VARIABLE scene

VARIABLES pClient, pAccount, pLinks, pMailed, pUsed, pCookies, pRevoked,
          pAddress, pReq
VARIABLES mChat, mViewed, mDisk, mShown, mListed, mNotices, mReq
VARIABLES sInvite, sIssued, sMailed, sExpired, sStaff, sJoined, sRemoved,
          sReq
VARIABLES dUser, dClient, dNotes, dPortal, dDisk, dFirm, dStatus, dDue,
          dWish, dReq
VARIABLES rTenant, rCreated, rUser, rLock, rCleared, rDeparted, rReq
VARIABLES cDay, cRan, cAuthorised, cLogs, cDefaults, cCustom, cRun,
          cSeeding, cMails, cDelivered
VARIABLES hHeld, hFiled, hAuthorised, hConnected, hScope, hReq, hAns

Portal == INSTANCE PortalAccess WITH
            client <- pClient, account <- pAccount, links <- pLinks, mailed <- pMailed,
            used <- pUsed, cookies <- pCookies, revoked <- pRevoked,
            address <- pAddress, req <- pReq
Chat == INSTANCE PortalChat WITH
            chat <- mChat,
            viewed <- mViewed, disk <- mDisk, shown <- mShown,
            listed <- mListed, notices <- mNotices, req <- mReq
Staff == INSTANCE StaffInvites WITH
            invite <- sInvite,
            issued <- sIssued, mailed <- sMailed, expired <- sExpired,
            staff <- sStaff, joined <- sJoined, removed <- sRemoved,
            req <- sReq, Firms <- StaffFirms, Emails <- StaffEmails
Deletion == INSTANCE AccountDeletion WITH
            user <- dUser,
            client <- dClient, notes <- dNotes, portal <- dPortal,
            disk <- dDisk, firm <- dFirm, status <- dStatus, due <- dDue,
            wish <- dWish, req <- dReq
Registered == INSTANCE Registration WITH
            tenant <- rTenant,
            created <- rCreated, user <- rUser, lock <- rLock,
            cleared <- rCleared, departed <- rDeparted, req <- rReq
Chase == INSTANCE ChaseRun WITH
            day <- cDay, ran <- cRan,
            authorised <- cAuthorised, logs <- cLogs,
            defaults <- cDefaults, custom <- cCustom, run <- cRun,
            seeding <- cSeeding, mails <- cMails, delivered <- cDelivered,
            Clients <- ChasedClients, PageSize <- ChasePage,
            Businesses <- {}
Calls == INSTANCE HmrcCalls WITH
            held <- hHeld,
            filed <- hFiled, authorised <- hAuthorised,
            connected <- hConnected, scope <- hScope, req <- hReq,
            ans <- hAns, Faults <- HmrcFails

portalVars == <<pClient, pAccount, pLinks, pMailed, pUsed, pCookies,
      pRevoked, pAddress, pReq>>
chatVars == <<mChat, mViewed, mDisk, mShown, mListed, mNotices, mReq>>
staffVars == <<sInvite, sIssued, sMailed, sExpired, sStaff, sJoined,
      sRemoved, sReq>>
deletionVars == <<dUser, dClient, dNotes, dPortal, dDisk, dFirm, dStatus,
      dDue, dWish, dReq>>
registrationVars == <<rTenant, rCreated, rUser, rLock, rCleared, rDeparted,
      rReq>>
chaseVars == <<cDay, cRan, cAuthorised, cLogs, cDefaults, cCustom, cRun,
      cSeeding, cMails, cDelivered>>
callsVars == <<hHeld, hFiled, hAuthorised, hConnected, hScope, hReq, hAns>>

officeVars == <<scene, vars, portalVars, chatVars, staffVars, deletionVars,
              registrationVars, chaseVars, callsVars>>

Services == {"connection", "portal", "chat", "staff", "deletion",
             "registration", "chase", "calls"}

OfficeInit ==
  /\ scene \in Services
  /\ Init
  /\ scene = "connection" \/ (kind = "hmrc" /\ ~dated)
  /\ Portal!Init
  /\ Chat!Init
  /\ Staff!Init
  /\ Deletion!Init
  /\ Registered!Init
  /\ Chase!Init
  /\ Calls!Init

\* A step of a service leaves the others as they are.
InConnection(A) ==
  /\ scene = "connection"
  /\ UNCHANGED <<scene, portalVars, chatVars, staffVars, deletionVars,
                 registrationVars, chaseVars, callsVars>>
  /\ A

InPortal(A) ==
  /\ scene = "portal"
  /\ UNCHANGED <<scene, vars, chatVars, staffVars, deletionVars,
                 registrationVars, chaseVars, callsVars>>
  /\ A

InChat(A) ==
  /\ scene = "chat"
  /\ UNCHANGED <<scene, vars, portalVars, staffVars, deletionVars,
                 registrationVars, chaseVars, callsVars>>
  /\ A

InStaff(A) ==
  /\ scene = "staff"
  /\ UNCHANGED <<scene, vars, portalVars, chatVars, deletionVars,
                 registrationVars, chaseVars, callsVars>>
  /\ A

InDeletion(A) ==
  /\ scene = "deletion"
  /\ UNCHANGED <<scene, vars, portalVars, chatVars, staffVars,
                 registrationVars, chaseVars, callsVars>>
  /\ A

InRegistration(A) ==
  /\ scene = "registration"
  /\ UNCHANGED <<scene, vars, portalVars, chatVars, staffVars, deletionVars,
                 chaseVars, callsVars>>
  /\ A

InChase(A) ==
  /\ scene = "chase"
  /\ UNCHANGED <<scene, vars, portalVars, chatVars, staffVars, deletionVars,
                 registrationVars, callsVars>>
  /\ A

InCalls(A) ==
  /\ scene = "calls"
  /\ UNCHANGED <<scene, vars, portalVars, chatVars, staffVars, deletionVars,
                 registrationVars, chaseVars>>
  /\ A

OfficeNext ==
  \/ InConnection(Next)
  \/ InPortal(Portal!Next)
  \/ InChat(Chat!Next)
  \/ InStaff(Staff!Next)
  \/ InDeletion(Deletion!Next)
  \/ InRegistration(Registered!Next)
  \/ InChase(Chase!Next)
  \/ InCalls(Calls!Next)

OfficeSpec == OfficeInit /\ [][OfficeNext]_officeVars

\* The fairness of the services, as their modules state it.
GoesOn ==
  \E p \in Requests :
    \/ InConnection(Continue(p))
    \/ InDeletion(Deletion!Continue(p))
    \/ InChase(Chase!Run)

Scheduled ==
  \E p \in Requests :
    \/ InConnection(Schedule(p))
    \/ InDeletion(Deletion!RunJob(p))

OfficeFairSpec ==
  /\ OfficeSpec
  /\ WF_officeVars(GoesOn)
  /\ SF_officeVars(Scheduled)
  /\ WF_officeVars(InChase(Chase!SeedListed))
  /\ WF_officeVars(InChase(\E m \in cMails : Chase!Deliver(m)))

-----------------------------------------------------------------------------
(* Properties of the services, stated in their modules.                    *)

\* Every variable of every service holds a value of its type.
AllTypesOK ==
  /\ TypeOK
  /\ Portal!TypeOK
  /\ Chat!TypeOK
  /\ Staff!TypeOK
  /\ Deletion!TypeOK
  /\ Registered!TypeOK
  /\ Chase!TypeOK
  /\ Calls!TypeOK

\* A file marked viewed was on a list of the agent's (getFilesForAgent).
ViewedWasListed == Chat!ViewedWasListed

\* A spent invitation never works again (acceptInvite, cancelInvite).
SpentStaysSpent == Staff!SpentStaysSpent

\* A company's domain has one free trial (startTrialForNewTenant).
OneTrialADomain == Registered!OneTrialADomain

\* No portal session outlives the removal of the access (revokeAccess).
RevokedStaysOut == Portal!RevokedStaysOut

\* Who was removed from a firm needs a newer invitation (removeStaff).
RemovedStaysOut == Staff!RemovedStaysOut

\* An account is deleted only while its owner wants that (cancelDeletion).
DeletedAsAsked == Deletion!DeletedAsAsked

\* A deletion that is due is carried out (processPendingDeletions).
DeletionCarriedOut == Deletion!DeletionCarriedOut

\* A domain's lock belongs to a firm somebody can reach (register).
LockHasFirm == Registered!LockHasFirm

\* The scheduler keeps the cooldown (processTenant).
ChaseSpaced == Chase!ChaseSpaced

\* A client gets the mail about a quarter that has ended (runDailyChase).
ChaseArrives == Chase!ChaseArrives

\* Answers on figures, totals and coded-out debts are what HMRC holds, but for a
\* self-employment whose read was lost and a business whose own call failed
\* (fetchHmrcOptionalJson, getIncomeSummary).
AnswersTrue == Calls!AnswersTrue
================================================================================
