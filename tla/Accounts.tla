------------------------------ MODULE Accounts ------------------------------
(***************************************************************************)
(* Who may act for which organisation: the access requests an operator     *)
(* answers (apps/api/src/routes/access-requests.ts, knock-limit.ts), the   *)
(* members of an organisation (routes/tenants/members.ts) and signing in,  *)
(* which turns an invitation into a membership (middleware/auth.ts,        *)
(* routes/me.ts).  A request of the API is a sequence of database          *)
(* transactions that nothing holds together: its role is read at the door, *)
(* its guards are computed from a later read, and it writes later still.   *)
(* Requests of several people are under way at once.                       *)
(***************************************************************************)
EXTENDS Integers, FiniteSets, Sequences

CONSTANTS
    People,       \* subjects; an address is the person it belongs to
    Verified,     \* those whose issuer asserts the address
    Operators,    \* subjects with a row in platform_operator
    Handlers,     \* requests the API can have under way at once
    Nobody,       \* the pending: placeholder, and no subject
    KNOCK_MAX,    \* access requests per window
    Given,        \* the roles handed out in an instance
    RequestsOverlap,  \* a request may write between another's read and its write
    MaxRequests, MaxOrgs, MaxRows

ASSUME AccountsAssumption ==
    /\ Verified \subseteq People /\ Operators \subseteq People
    /\ Nobody \notin People
    /\ Given \subseteq {"owner", "admin", "member", "viewer"}
    /\ RequestsOverlap \in BOOLEAN
    /\ {KNOCK_MAX, MaxRequests, MaxOrgs, MaxRows} \subseteq Nat \ {0}

VARIABLES
    knocks,    \* access requests taken in the current window
    requests,  \* the access_request rows
    orgs,      \* the organisations: the request each was created for
    rows,      \* the tenant_member rows, in the order they were inserted
    http       \* what each request under way has read

accountsVars == <<knocks, requests, orgs, rows, http>>

-----------------------------------------------------------------------------
(* Rows and requests under way.                                            *)

Roles == {"owner", "admin", "member", "viewer"}
Managing == {"owner", "admin"}

AccessRequest == [by: People, state: {"open", "granted", "declined"}]

\* user is Nobody while the row is an invitation; "gone" is a deleted row.
Member == [org: Nat, email: People, user: People \cup {Nobody}, role: Roles,
           status: {"invited", "active", "gone"}]

\* at: what a request does next.
Deciding == {"granting", "declining", "inviting", "changing", "counting", "removing"}
Request == [at: {"idle", "claim", "again", "member", "serve"} \cup Deciding,
            who: People \cup {Nobody}, me: BOOLEAN, org: Nat, role: Roles,
            row: Nat, to: Roles, email: People \cup {Nobody}]
NoRequest == [at |-> "idle", who |-> Nobody, me |-> FALSE, org |-> 0, role |-> "viewer", row |-> 0,
         to |-> "viewer", email |-> Nobody]

AccountsTypeOK ==
    /\ knocks \in 0 .. KNOCK_MAX
    /\ requests \in Seq(AccessRequest)
    /\ orgs \in Seq(Nat)
    /\ rows \in Seq(Member)
    /\ http \in [Handlers -> Request]
    /\ \A o \in DOMAIN orgs : orgs[o] \in DOMAIN requests
    /\ \A r \in DOMAIN rows : rows[r].org \in DOMAIN orgs
    /\ \A h \in Handlers :
          /\ http[h].at # "idle" => http[h].who \in People
          /\ http[h].at \in {"serve", "inviting"} => http[h].org \in DOMAIN orgs
          /\ http[h].at = "inviting" => http[h].email \in People
          /\ http[h].at \in {"changing", "counting", "removing"} => http[h].row \in DOMAIN rows
          /\ http[h].at \in {"granting", "declining"} => http[h].row \in DOMAIN requests

AccountsInit ==
    /\ knocks = 0
    /\ requests = << >>
    /\ orgs = << >>
    /\ rows = << >>
    /\ http = [h \in Handlers |-> NoRequest]

Go(h, op) == http' = [http EXCEPT ![h] = op]
At(h, place) == [http[h] EXCEPT !.at = place]
Done(h) == Go(h, NoRequest)

\* authenticateSubject: a valid token names its subject, and nothing is looked up.
AtTheDoor(h) == http[h].at = "idle"

\* requireRole("owner", "admin").
MayManage(h) == http[h].at = "serve" /\ http[h].role \in Managing

\* No other request is between its read and its write.
Alone(h) == RequestsOverlap \/ \A g \in Handlers \ {h} : http[g].at \notin Deciding

-----------------------------------------------------------------------------
(* Asking for access, and answering.                                       *)

\* POST /access-requests: the limiter, then one INSERT.  Asking twice is two rows.
AskForAccess(p) ==
    /\ knocks < KNOCK_MAX /\ Len(requests) < MaxRequests
    /\ knocks' = knocks + 1
    /\ requests' = Append(requests, [by |-> p, state |-> "open"])
    /\ UNCHANGED <<orgs, rows, http>>

\* The window of the limiter is over, or the process it lives in was restarted.
WindowPasses ==
    /\ knocks > 0
    /\ knocks' = 0
    /\ UNCHANGED <<requests, orgs, rows, http>>

isPlatformOperator(p) == p \in Operators

\* grant and decline read the request in the transaction that decides it, without
\* a lock.  To anyone but an operator the row does not exist.
ReadRequest(h, p, q, decision) ==
    /\ AtTheDoor(h) /\ Alone(h)
    /\ isPlatformOperator(p)
    /\ requests[q].state = "open"
    /\ Go(h, [NoRequest EXCEPT !.at = decision, !.who = p, !.row = q])
    /\ UNCHANGED <<knocks, requests, orgs, rows>>

\* The organisation, the invitation of its owner and the decision are one commit.
Grant(h) ==
    LET q == http[h].row IN
    /\ http[h].at = "granting"
    /\ Len(orgs) < MaxOrgs /\ Len(rows) < MaxRows
    /\ orgs' = Append(orgs, q)
    /\ rows' = Append(rows, [org |-> Len(orgs) + 1, email |-> requests[q].by, user |-> Nobody,
                             role |-> "owner", status |-> "invited"])
    /\ requests' = [requests EXCEPT ![q].state = "granted"]
    /\ Done(h)
    /\ UNCHANGED knocks

Decline(h) ==
    /\ http[h].at = "declining"
    /\ requests' = [requests EXCEPT ![http[h].row].state = "declined"]
    /\ Done(h)
    /\ UNCHANGED <<knocks, orgs, rows>>

-----------------------------------------------------------------------------
(* Signing in.                                                             *)

\* lookupMemberships: the organisations p has an active row in.
Memberships(p) == {rows[r].org : r \in {s \in DOMAIN rows : /\ rows[s].user = p
                                                          /\ rows[s].status = "active"}}

\* resolveTenant: the organisation named, or the only one there is.
Resolved(p, named) ==
    IF named # 0 THEN {named} ELSE IF Cardinality(Memberships(p)) = 1 THEN Memberships(p) ELSE {}

\* authenticate, up to the first answer of the database: a request without a tenant
\* goes on to claim an invitation, one with several to choose from is refused.
Authenticate(h, p, named) ==
    /\ http[h].at = "idle"
    /\ \/ /\ named = 0 /\ Memberships(p) = {}
          /\ Go(h, [NoRequest EXCEPT !.at = "claim", !.who = p])
       \/ \E o \in Resolved(p, named) :
             Go(h, [NoRequest EXCEPT !.at = "member", !.who = p, !.org = o])
    /\ UNCHANGED <<knocks, requests, orgs, rows>>

\* GET /me claims under the same condition and then only reads.
WhoAmI(h, p) ==
    /\ AtTheDoor(h) /\ Memberships(p) = {}
    /\ Go(h, [NoRequest EXCEPT !.at = "claim", !.who = p, !.me = TRUE])
    /\ UNCHANGED <<knocks, requests, orgs, rows>>

Invitations(p) == {r \in DOMAIN rows : rows[r].email = p /\ rows[r].status = "invited"}

\* UNIQUE (tenant_id, user_id): no two rows of an organisation may name one subject.
Clash(p) ==
    \E r \in Invitations(p) : \E s \in DOMAIN rows \ {r} :
        /\ rows[s].org = rows[r].org
        /\ s \in Invitations(p) \/ (rows[s].user = p /\ rows[s].status # "gone")

\* claimInvitations: one UPDATE of every invitation to a verified address, in
\* whatever organisation.  A clash fails the statement, and the request with it.
Claim(h) ==
    LET p == http[h].who IN
    /\ http[h].at = "claim"
    /\ \/ /\ p \notin Verified \/ Invitations(p) = {} \/ Clash(p)
          /\ Done(h)
          /\ UNCHANGED rows
       \/ /\ p \in Verified /\ Invitations(p) # {} /\ ~Clash(p)
          /\ rows' = [r \in DOMAIN rows |->
                        IF r \in Invitations(p)
                        THEN [rows[r] EXCEPT !.user = p, !.status = "active"] ELSE rows[r]]
          /\ IF http[h].me THEN Done(h) ELSE Go(h, At(h, "again"))
    /\ UNCHANGED <<knocks, requests, orgs>>

\* The second resolveTenant of authenticate.
ResolveAgain(h) ==
    LET p == http[h].who IN
    /\ http[h].at = "again"
    /\ \/ Resolved(p, 0) = {} /\ Done(h)
       \/ \E o \in Resolved(p, 0) : Go(h, [At(h, "member") EXCEPT !.org = o])
    /\ UNCHANGED <<knocks, requests, orgs, rows>>

\* lookupMembership: the role a request will act with is the row's, now.
CheckMembership(h) ==
    LET mine == {r \in DOMAIN rows : /\ rows[r].org = http[h].org /\ rows[r].user = http[h].who
                                     /\ rows[r].status = "active"} IN
    /\ http[h].at = "member"
    /\ \/ mine = {} /\ Done(h)
       \/ \E r \in mine : Go(h, [At(h, "serve") EXCEPT !.role = rows[r].role])
    /\ UNCHANGED <<knocks, requests, orgs, rows>>

\* Every route that only reads, and every refusal of requireRole.
Answer(h) ==
    /\ http[h].at = "serve"
    /\ Done(h)
    /\ UNCHANGED <<knocks, requests, orgs, rows>>

-----------------------------------------------------------------------------
(* The members of an organisation.                                         *)

Of(o) == {r \in DOMAIN rows : rows[r].org = o /\ rows[r].status # "gone"}

\* ownerCount: every row with the role, an invitation too.
OwnerCount(o) == Cardinality({r \in Of(o) : rows[r].role = "owner"})

\* A variant that lets the last owner be demoted.
demotesNoOwner(targetRole, newRole, ownerCount) ==
    targetRole = "owner" /\ newRole # "owner" /\ ownerCount < 1
demotesLastOwner(targetRole, newRole, ownerCount) ==
    targetRole = "owner" /\ newRole # "owner" /\ ownerCount <= 1
removesLastOwner(targetRole, ownerCount) == targetRole = "owner" /\ ownerCount <= 1
grantsOwnerWithoutPermission(newRole, requesterRole) ==
    newRole = "owner" /\ requesterRole # "owner"

\* A variant that looks for members only, not for open invitations.
LiveMember(o, email) == \E r \in Of(o) : rows[r].email = email /\ rows[r].status = "active"
\* A member or an open invitation stands for the address.
Live(o, email) == \E r \in Of(o) : rows[r].email = email

\* POST members: look for the address, and insert, in one transaction without a lock.
ReadInvitee(h, email, role) ==
    /\ MayManage(h) /\ Alone(h)
    /\ ~Live(http[h].org, email)
    /\ Go(h, [At(h, "inviting") EXCEPT !.email = email, !.to = role])
    /\ UNCHANGED <<knocks, requests, orgs, rows>>

Invite(h) ==
    /\ http[h].at = "inviting" /\ Len(rows) < MaxRows
    /\ rows' = Append(rows, [org |-> http[h].org, email |-> http[h].email, user |-> Nobody,
                             role |-> http[h].to, status |-> "invited"])
    /\ Done(h)
    /\ UNCHANGED <<knocks, requests, orgs>>

\* PATCH members: the target and the number of owners, then the guards.
ReadMember(h, r, role) ==
    /\ MayManage(h) /\ Alone(h)
    /\ r \in Of(http[h].org)
    /\ ~grantsOwnerWithoutPermission(role, http[h].role)
    /\ ~demotesLastOwner(rows[r].role, role, OwnerCount(http[h].org))
    /\ Go(h, [At(h, "changing") EXCEPT !.row = r, !.to = role])
    /\ UNCHANGED <<knocks, requests, orgs, rows>>

ChangeRole(h) ==
    LET r == http[h].row IN
    /\ http[h].at = "changing"
    /\ rows' = IF rows[r].status = "gone" THEN rows ELSE [rows EXCEPT ![r].role = http[h].to]
    /\ Done(h)
    /\ UNCHANGED <<knocks, requests, orgs>>

\* DELETE members: the target; the owners, when it is one; the row.  Three transactions.
ReadTarget(h, r) ==
    /\ MayManage(h) /\ Alone(h)
    /\ r \in Of(http[h].org)
    /\ rows[r].user # http[h].who
    /\ Go(h, [At(h, IF rows[r].role = "owner" THEN "counting" ELSE "removing")
                EXCEPT !.row = r, !.to = rows[r].role])
    /\ UNCHANGED <<knocks, requests, orgs, rows>>

CountOwners(h) ==
    /\ http[h].at = "counting"
    /\ IF removesLastOwner(http[h].to, OwnerCount(http[h].org)) THEN Done(h)
       ELSE Go(h, At(h, "removing"))
    /\ UNCHANGED <<knocks, requests, orgs, rows>>

RemoveMember(h) ==
    /\ http[h].at = "removing"
    /\ rows' = [rows EXCEPT ![http[h].row].status = "gone"]
    /\ Done(h)
    /\ UNCHANGED <<knocks, requests, orgs>>

\* The API process dies, or the database does: the transaction under way is undone.
Drop(h) ==
    /\ http[h].at \notin {"idle", "serve"}
    /\ Done(h)
    /\ UNCHANGED <<knocks, requests, orgs, rows>>

-----------------------------------------------------------------------------
AccountsNext ==
    \/ \E p \in People : AskForAccess(p)
    \/ WindowPasses
    \/ \E h \in Handlers : Grant(h) \/ Decline(h) \/ Claim(h) \/ ResolveAgain(h)
                           \/ CheckMembership(h) \/ Answer(h) \/ Invite(h) \/ ChangeRole(h)
                           \/ CountOwners(h) \/ RemoveMember(h) \/ Drop(h)
    \/ \E h \in Handlers, p \in People :
          \/ \E named \in {0} \cup DOMAIN orgs : Authenticate(h, p, named)
          \/ WhoAmI(h, p)
          \/ \E q \in DOMAIN requests, d \in {"granting", "declining"} : ReadRequest(h, p, q, d)
    \/ \E h \in Handlers, role \in Given :
          \/ \E email \in People : ReadInvitee(h, email, role)
          \/ \E r \in DOMAIN rows : ReadMember(h, r, role)
    \/ \E h \in Handlers, r \in DOMAIN rows : ReadTarget(h, r)

AccountsSpec == AccountsInit /\ [][AccountsNext]_accountsVars

-----------------------------------------------------------------------------
(* Properties.                                                             *)

\* An organisation always has an owner, at least an invited one: no sequence of
\* invitations, changes of role and removals leaves it without (member-guards.ts).
OwnerRemains == \A o \in DOMAIN orgs : \E r \in Of(o) : rows[r].role = "owner"

\* An invitation can be accepted: binding every invitation to an address never
\* meets the uniqueness of a subject within an organisation, which would fail each
\* sign-in of that person, in every organisation that invited them (auth.ts claimInvitations).
ClaimSucceeds == \A p \in People : ~Clash(p)

\* Answering a request creates one organisation at most (access-requests.ts grant).
OneOrganisation == \A o, n \in DOMAIN orgs : orgs[o] = orgs[n] => o = n
=============================================================================
