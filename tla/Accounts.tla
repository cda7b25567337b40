------------------------------ MODULE Accounts -------------------------------
(***************************************************************************)
(* Users and orgs share one flat space of owner names.  createUser looks   *)
(* for an org of the name, hashes the password, which takes a while, and   *)
(* then inserts; createOrg and addOrgMember run without a pause.           *)
(*                                                                         *)
(* Users and orgs are never deleted; removeOrgMember has no caller.        *)
(***************************************************************************)
EXTENDS Naturals, FiniteSets

CONSTANTS
  OwnerNames,  \* valid names, not reserved
  Admin,       \* the user genesis makes, whose name is reserved
  Signups      \* calls of createUser, each by the admin

ASSUME AccountsAssumption == Admin \notin OwnerNames

VARIABLES
  users,       \* names with a row in users
  orgs,        \* names with a row in orgs
  role,        \* role[o][u]: the row of org_members, or "none"
  signup,      \* signup[s]: where the call is and its name
  crossed      \* names an org took while a signup under that name hashed

accountsVars == <<users, orgs, role, signup, crossed>>

UserNames == OwnerNames \cup {Admin}

AccountsTypeOK ==
  /\ users \subseteq UserNames /\ orgs \subseteq OwnerNames
  /\ role \in [OwnerNames -> [UserNames -> {"none", "member", "owner"}]]
  /\ signup \in [Signups -> [pc : {"idle", "hashing", "made", "refused"},
                             name : OwnerNames \cup {Admin}]]
  /\ crossed \subseteq OwnerNames
  /\ \A o \in OwnerNames, u \in UserNames : role[o][u] # "none" => o \in orgs /\ u \in users

AccountsInit ==
  /\ users = {Admin} /\ orgs = {}
  /\ role = [o \in OwnerNames |-> [u \in UserNames |-> "none"]]
  /\ signup = [s \in Signups |-> [pc |-> "idle", name |-> Admin]]
  /\ crossed = {}

Hashing(n) == \E s \in Signups : signup[s].pc = "hashing" /\ signup[s].name = n

-------------------------------------------------------------------------------
(***************************************************************************)
(* Actions.                                                                *)
(***************************************************************************)

\* What createUser looks at before it hashes.
NameFreeForUser(n) == n \notin orgs

SignupBegins(s, n) ==
  /\ signup[s].pc = "idle"
  /\ signup' = [signup EXCEPT ![s] =
       [pc |-> IF NameFreeForUser(n) THEN "hashing" ELSE "refused", name |-> n]]
  /\ UNCHANGED <<users, orgs, role, crossed>>

\* Variant: an insert or a replacement.
SignupReplaces(s) ==
  /\ signup[s].pc = "hashing"
  /\ users' = users \cup {signup[s].name}
  /\ signup' = [signup EXCEPT ![s].pc = "made"]
  /\ UNCHANGED <<orgs, role, crossed>>

\* The column is UNIQUE: the second insert of a name is refused.
SignupInserts(s) ==
  /\ signup[s].pc = "hashing"
  /\ \/ /\ signup[s].name \notin users
        /\ users' = users \cup {signup[s].name}
        /\ signup' = [signup EXCEPT ![s].pc = "made"]
     \/ /\ signup[s].name \in users
        /\ signup' = [signup EXCEPT ![s].pc = "refused"]
        /\ UNCHANGED users
  /\ UNCHANGED <<orgs, role, crossed>>

\* Variant: only orgs are looked at.
NameFreeOfOrgs(n) == n \notin orgs

\* What createOrg looks at, the UNIQUE of its insert included.
NameFreeForOrg(n) == n \notin users /\ n \notin orgs

\* Variant: the membership without the org's row.
CreateOrgMembershipOnly(u, n) ==
  /\ u \in users /\ NameFreeForOrg(n)
  /\ role' = [role EXCEPT ![n][u] = "owner"]
  /\ UNCHANGED <<users, orgs, signup, crossed>>

\* The row and the creator's membership are one transaction.
CreateOrg(u, n) ==
  /\ u \in users /\ NameFreeForOrg(n)
  /\ orgs' = orgs \cup {n}
  /\ role' = [role EXCEPT ![n][u] = "owner"]
  /\ crossed' = crossed \cup {m \in {n} : Hashing(m)}
  /\ UNCHANGED <<users, signup>>

\* canWriteOwner, through which every write of repos, changes and apps goes.
CanWriteOwner(u, o) == u = Admin \/ u = o \/ role[o][u] # "none"

\* Variant: the invitation's role replaces the old one.
InvitedAnew(old) == "member"

\* The role a re-invited member ends with: an invitation never demotes.
Invited(old) == IF old = "owner" THEN "owner" ELSE "member"

AddOrgMember(u, o, t) ==
  /\ u \in users /\ t \in users /\ o \in orgs
  /\ CanWriteOwner(u, o)
  /\ role' = [role EXCEPT ![o][t] = Invited(@)]
  /\ UNCHANGED <<users, orgs, signup, crossed>>

AccountsNext ==
  \/ \E s \in Signups : SignupInserts(s) \/ \E n \in OwnerNames : SignupBegins(s, n)
  \/ \E u \in users, n \in OwnerNames :
       CreateOrg(u, n) \/ \E t \in users : AddOrgMember(u, n, t)

AccountsSpec == AccountsInit /\ [][AccountsNext]_accountsVars

-------------------------------------------------------------------------------
(***************************************************************************)
(* Properties.                                                             *)
(***************************************************************************)

\* A name belongs to a user or to an org, never to both, for canWriteOwner lets a
\* user write what an org of the same name owns; except where the org was created
\* while the user's password was hashed.
NamesAreFlat == users \cap orgs \subseteq crossed

\* An org has an owner from its first moment on, and no invitation, the owner's own
\* included, leaves it without one.
OrgsKeepAnOwner == \A o \in orgs : \E u \in users : role[o][u] = "owner"

\* Of the calls that make a user of one name, one is answered that it did: the
\* password of the row is that caller's.
OneSignupPerName ==
  \A s, t \in Signups :
    signup[s].pc = "made" /\ signup[t].pc = "made" /\ signup[s].name = signup[t].name => s = t

\* However signups overlap with each other, with new orgs and with invitations: a name
\* is one owner's, was given once, and an org is somebody's.
AccountsSafe == NamesAreFlat /\ OrgsKeepAnOwner /\ OneSignupPerName
===============================================================================
