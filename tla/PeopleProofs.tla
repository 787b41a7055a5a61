---------------------------- MODULE PeopleProofs ----------------------------
(***************************************************************************)
(* What people decide.  For any number of people, requests and             *)
(* organisations, as long as no request writes between another's read and  *)
(* its write: an organisation keeps an owner (OwnerRemains) and an         *)
(* invitation can be accepted (ClaimSucceeds).  For any number of          *)
(* concurrent invocations, as long as their transitions do not overlap:    *)
(* the cutover implements CutoverMachine, traffic is switched under a      *)
(* standing approval and by one execution, and the audit trail shows every *)
(* change.                                                                 *)
(*                                                                         *)
(* Both are about what was checked before it is acted on: the invariants   *)
(* say that it is still so (DecisionsStand, Grounded).                     *)
(***************************************************************************)
EXTENDS Accounts, Cutover, FiniteSetTheorems, TLAPS

-----------------------------------------------------------------------------
(* Accounts: types.                                                        *)

\* A request under way refers to what there is.
Refers(c) ==
    /\ c \in Request
    /\ c.at # "idle" => c.who \in People
    /\ c.at \in {"serve", "inviting"} => c.org \in DOMAIN orgs
    /\ c.at = "inviting" => c.email \in People
    /\ c.at \in {"changing", "counting", "removing"} => c.row \in DOMAIN rows
    /\ c.at \in {"granting", "declining"} => c.row \in DOMAIN requests

\* A handler at rest refers to nothing.
LEMMA NoRequestRefers == Refers(NoRequest) /\ NoRequest.at = "idle"
  BY DEF Refers, NoRequest, Request, Roles

\* What a request refers to exists.
LEMMA TypesRefer == AccountsTypeOK => /\ http \in [Handlers -> Request]
                                      /\ \A h \in Handlers : Refers(http[h])
  BY DEF AccountsTypeOK, Refers

\* A step of one request whose rows are in order, and which takes nothing away.
LEMMA OneGoesOn ==
    ASSUME AccountsTypeOK, NEW h \in Handlers, NEW op, Go(h, op), Refers(http[h])',
           knocks' = knocks, requests' \in Seq(AccessRequest), orgs' \in Seq(Nat), rows' \in Seq(Member),
           DOMAIN requests \subseteq DOMAIN requests', DOMAIN orgs \subseteq DOMAIN orgs',
           DOMAIN rows \subseteq DOMAIN rows',
           \A o \in DOMAIN orgs' : orgs'[o] \in DOMAIN requests',
           \A r \in DOMAIN rows' : rows'[r].org \in DOMAIN orgs'
    PROVE  AccountsTypeOK'
  <1>1. \A g \in Handlers : Refers(http[g])
    BY TypesRefer
  <1>2. http' = [http EXCEPT ![h] = op] /\ http \in [Handlers -> Request] /\ http'[h] \in Request
    BY DEF Go, AccountsTypeOK, Refers
  <1>3. http' \in [Handlers -> Request] /\ \A g \in Handlers \ {h} : http'[g] = http[g]
    BY <1>2
  <1>4. \A g \in Handlers : Refers(http[g])'
    <2> TAKE g \in Handlers
    <2>1. CASE g = h
      BY <1>3, <2>1 DEF Refers
    <2>2. CASE g # h
      BY <1>1, <1>3, <2>2 DEF Refers
    <2> QED BY <2>1, <2>2
  <1>5. knocks' \in 0 .. KNOCK_MAX
    BY DEF AccountsTypeOK
  <1> HIDE DEF Go
  <1> QED BY <1>3, <1>4, <1>5 DEF AccountsTypeOK, Refers

\* A request that only reads.
LEMMA ReaderGoesOn ==
    ASSUME AccountsTypeOK, NEW h \in Handlers, NEW op, Go(h, op), Refers(op),
           UNCHANGED <<knocks, requests, orgs, rows>>
    PROVE  AccountsTypeOK'
  <1>1. Refers(http[h])'
    <2>1. http'[h] = op
      BY DEF Go, AccountsTypeOK
    <2> QED BY <2>1 DEF Refers
  <1> QED BY <1>1, OneGoesOn DEF AccountsTypeOK

\* Where a request may be taken by an EXCEPT.
LEMMA AtRefers ==
    ASSUME AccountsTypeOK, NEW h \in Handlers, http[h].at # "idle", NEW at \in {"claim", "again", "member"}
    PROVE  Refers(At(h, at)) /\ At(h, at).at = at /\ At(h, at).who = http[h].who
  BY TypesRefer DEF Refers, At, Request

\* A row is appended, or one is changed: the sequence keeps its type.
LEMMA RowAdded ==
    ASSUME AccountsTypeOK, NEW m \in Member, rows' = Append(rows, m)
    PROVE  /\ rows' \in Seq(Member) /\ DOMAIN rows \subseteq DOMAIN rows'
           /\ Len(rows) + 1 \in DOMAIN rows' /\ Len(rows) + 1 \notin DOMAIN rows
           /\ rows'[Len(rows) + 1] = m
           /\ \A r \in DOMAIN rows : rows'[r] = rows[r]
           /\ \A r \in DOMAIN rows' : r \in DOMAIN rows \/ r = Len(rows) + 1
  BY DEF AccountsTypeOK

\* One membership row is rewritten in place.
LEMMA RowChanged ==
    ASSUME AccountsTypeOK, NEW r \in DOMAIN rows, NEW m \in Member, rows' = [rows EXCEPT ![r] = m]
    PROVE  /\ rows' \in Seq(Member) /\ DOMAIN rows' = DOMAIN rows
           /\ rows'[r] = m
           /\ \A s \in DOMAIN rows \ {r} : rows'[s] = rows[s]
  BY DEF AccountsTypeOK

\* Granting adds an organisation and the invitation of its owner.
LEMMA GrantEffect ==
    ASSUME AccountsTypeOK, NEW h \in Handlers, Grant(h)
    PROVE  /\ http[h].at = "granting" /\ Go(h, NoRequest) /\ knocks' = knocks
           /\ Len(orgs) + 1 \notin DOMAIN orgs
           /\ DOMAIN orgs' = DOMAIN orgs \cup {Len(orgs) + 1} /\ orgs' \in Seq(Nat)
           /\ \A o \in DOMAIN orgs' : orgs'[o] \in DOMAIN requests'
           /\ requests' \in Seq(AccessRequest) /\ DOMAIN requests' = DOMAIN requests
           /\ \E m \in Member : /\ rows' = Append(rows, m)
                                /\ m.org = Len(orgs) + 1 /\ m.role = "owner" /\ m.status = "invited"
                                /\ m.user = Nobody
  <1> DEFINE q == http[h].row
             m == [org |-> Len(orgs) + 1, email |-> requests[q].by, user |-> Nobody,
                   role |-> "owner", status |-> "invited"]
  <1>1. q \in DOMAIN requests /\ q \in Nat
    BY TypesRefer DEF Grant, Refers, Request
  <1>2. requests \in Seq(AccessRequest) /\ orgs \in Seq(Nat) /\ \A o \in DOMAIN orgs : orgs[o] \in DOMAIN requests
    BY DEF AccountsTypeOK
  <1>3. requests[q] \in AccessRequest /\ requests[q].by \in People
    <2>1. requests[q] \in AccessRequest
      BY <1>1, <1>2
    <2> QED BY <2>1 DEF AccessRequest
  <1>4. m \in Member
    BY <1>2, <1>3 DEF Member, Roles
  <1>5. [requests[q] EXCEPT !.state = "granted"] \in AccessRequest
    BY <1>3 DEF AccessRequest
  <1>6. requests' = [requests EXCEPT ![q] = [requests[q] EXCEPT !.state = "granted"]]
    BY DEF Grant
  <1>7. requests' \in Seq(AccessRequest) /\ DOMAIN requests' = DOMAIN requests
    BY <1>1, <1>2, <1>5, <1>6
  <1>8. orgs' = Append(orgs, q)
    BY DEF Grant
  <1>9. /\ DOMAIN orgs' = DOMAIN orgs \cup {Len(orgs) + 1} /\ orgs' \in Seq(Nat)
        /\ Len(orgs) + 1 \notin DOMAIN orgs
        /\ \A o \in DOMAIN orgs : orgs'[o] = orgs[o]
        /\ orgs'[Len(orgs) + 1] = q
    BY <1>1, <1>2, <1>8
  <1>10. rows' = Append(rows, m) /\ m.org = Len(orgs) + 1 /\ m.role = "owner" /\ m.status = "invited" /\ m.user = Nobody
    BY DEF Grant
  <1> HIDE DEF m
  <1> QED BY <1>1, <1>2, <1>4, <1>7, <1>9, <1>10 DEF Grant, Done

\* Claiming binds the invitations of one person, and touches no other row.
LEMMA ClaimEffect ==
    ASSUME AccountsTypeOK, NEW h \in Handlers, Claim(h)
    PROVE  /\ http[h].at = "claim" /\ http[h].who \in People
           /\ UNCHANGED <<knocks, requests, orgs>>
           /\ Go(h, NoRequest) \/ Go(h, At(h, "again"))
           /\ rows' \in Seq(Member) /\ DOMAIN rows' = DOMAIN rows
           /\ \A r \in DOMAIN rows :
                 \/ rows'[r] = rows[r]
                 \/ /\ rows[r].status = "invited" /\ rows'[r].status = "active"
                    /\ rows'[r].user = http[h].who /\ rows'[r].email = http[h].who
                    /\ rows'[r].email = rows[r].email
                    /\ rows'[r].org = rows[r].org /\ rows'[r].role = rows[r].role
  <1> DEFINE p == http[h].who
             bound(r) == [rows[r] EXCEPT !.user = p, !.status = "active"]
             new == [r \in DOMAIN rows |-> IF r \in Invitations(p) THEN bound(r) ELSE rows[r]]
  <1>1. http[h].at = "claim" /\ p \in People
    BY TypesRefer DEF Claim, Refers
  <1>2. rows \in Seq(Member)
    BY DEF AccountsTypeOK
  <1>3. \A r \in DOMAIN rows : rows[r] \in Member
    BY <1>2
  <1>4. ASSUME NEW r \in DOMAIN rows
        PROVE  /\ bound(r) \in Member /\ bound(r).status = "active" /\ bound(r).user = p
               /\ bound(r).email = rows[r].email /\ bound(r).org = rows[r].org /\ bound(r).role = rows[r].role
    BY <1>1, <1>3 DEF Member
  <1>5. rows' = rows \/ rows' = new
    BY DEF Claim
  <1> HIDE DEF bound
  <1>6. \A r \in DOMAIN rows : new[r] \in Member /\ (new[r] = rows[r] \/ (r \in Invitations(p) /\ new[r] = bound(r)))
    BY <1>3, <1>4
  <1>7. DOMAIN new = 1 .. Len(rows) /\ Len(rows) \in Nat /\ DOMAIN rows = 1 .. Len(rows)
    BY <1>2
  <1>8. new \in Seq(Member)
    BY <1>6, <1>7
  <1>9. rows' \in Seq(Member) /\ DOMAIN rows' = DOMAIN rows
    BY <1>2, <1>5, <1>7, <1>8
  <1> HIDE DEF new
  <1>10. \A r \in DOMAIN rows : r \in Invitations(p) => rows[r].email = p /\ rows[r].status = "invited"
    BY DEF Invitations
  <1>11. \A r \in DOMAIN rows : rows'[r] = rows[r] \/ (r \in Invitations(p) /\ rows'[r] = bound(r))
    BY <1>5, <1>6
  <1>12. UNCHANGED <<knocks, requests, orgs>> /\ (Go(h, NoRequest) \/ Go(h, At(h, "again")))
    BY DEF Claim, Done
  <1> QED BY <1>1, <1>4, <1>9, <1>10, <1>11, <1>12

\* Inviting adds a row.
LEMMA InviteEffect ==
    ASSUME AccountsTypeOK, NEW h \in Handlers, Invite(h)
    PROVE  /\ http[h].at = "inviting" /\ Go(h, NoRequest) /\ UNCHANGED <<knocks, requests, orgs>>
           /\ \E m \in Member : /\ rows' = Append(rows, m)
                                /\ m.org = http[h].org /\ m.email = http[h].email
                                /\ m.status = "invited" /\ m.user = Nobody /\ m.org \in DOMAIN orgs
  <1> DEFINE m == [org |-> http[h].org, email |-> http[h].email, user |-> Nobody,
                   role |-> http[h].to, status |-> "invited"]
  <1>1. http[h].org \in DOMAIN orgs /\ http[h] \in Request /\ http[h].email \in People /\ http[h].at = "inviting"
    BY TypesRefer DEF Invite, Refers
  <1>2. m \in Member
    BY <1>1 DEF Member, Request
  <1>3. rows' = Append(rows, m) /\ Go(h, NoRequest) /\ UNCHANGED <<knocks, requests, orgs>>
    BY DEF Invite, Done
  <1> QED BY <1>1, <1>2, <1>3

\* A change of role, and a removal, touch one row.
LEMMA ChangeEffect ==
    ASSUME AccountsTypeOK, NEW h \in Handlers, ChangeRole(h) \/ RemoveMember(h)
    PROVE  /\ http[h].at \in {"changing", "removing"} /\ Go(h, NoRequest) /\ UNCHANGED <<knocks, requests, orgs>>
           /\ rows' \in Seq(Member) /\ DOMAIN rows' = DOMAIN rows
           /\ http[h].row \in DOMAIN rows
           /\ \A s \in DOMAIN rows : s # http[h].row => rows'[s] = rows[s]
           /\ rows'[http[h].row].org = rows[http[h].row].org /\ rows'[http[h].row].email = rows[http[h].row].email
           /\ rows'[http[h].row].user = rows[http[h].row].user
           /\ ChangeRole(h) => /\ http[h].at = "changing"
                               /\ rows'[http[h].row].status = rows[http[h].row].status
                               /\ rows'[http[h].row].role \in {rows[http[h].row].role, http[h].to}
           /\ RemoveMember(h) => http[h].at = "removing" /\ rows'[http[h].row].status = "gone"
  <1> DEFINE r == http[h].row
  <1>1. http[h].at \in {"changing", "removing"} /\ http[h] \in Request
    BY TypesRefer DEF ChangeRole, RemoveMember
  <1>2. r \in DOMAIN rows
    BY <1>1, TypesRefer DEF Refers
  <1>3. rows[r] \in Member
    BY <1>2 DEF AccountsTypeOK
  <1>4. Go(h, NoRequest) /\ UNCHANGED <<knocks, requests, orgs>>
    BY DEF ChangeRole, RemoveMember, Done
  <1>5. CASE ChangeRole(h)
    <2> DEFINE m == [rows[r] EXCEPT !.role = http[h].to]
    <2>1. /\ m \in Member /\ m.role = http[h].to /\ m.status = rows[r].status /\ m.org = rows[r].org
          /\ m.email = rows[r].email /\ m.user = rows[r].user
      BY <1>1, <1>3 DEF Member, Request
    <2>2. rows' = rows \/ rows' = [rows EXCEPT ![r] = m]
      BY <1>5 DEF ChangeRole
    <2> HIDE DEF m
    <2>3. CASE rows' = rows
      <3>1. rows \in Seq(Member) /\ ~RemoveMember(h) /\ http[h].at = "changing"
        BY <1>5 DEF AccountsTypeOK, ChangeRole, RemoveMember
      <3> QED BY <1>1, <1>2, <1>4, <2>3, <3>1
    <2>4. CASE rows' = [rows EXCEPT ![r] = m]
      <3>1. /\ rows' \in Seq(Member) /\ DOMAIN rows' = DOMAIN rows /\ rows'[r] = m
            /\ \A s \in DOMAIN rows \ {r} : rows'[s] = rows[s]
        BY <1>2, <2>1, <2>4, RowChanged
      <3>2. ~RemoveMember(h) /\ http[h].at = "changing"
        BY <1>5 DEF ChangeRole, RemoveMember
      <3> QED BY <1>1, <1>2, <1>4, <2>1, <3>1, <3>2
    <2> QED BY <2>2, <2>3, <2>4
  <1>6. CASE RemoveMember(h)
    <2> DEFINE m == [rows[r] EXCEPT !.status = "gone"]
    <2>1. /\ m \in Member /\ m.status = "gone" /\ m.org = rows[r].org
          /\ m.email = rows[r].email /\ m.user = rows[r].user
      BY <1>1, <1>3 DEF Member
    <2>2. rows' = [rows EXCEPT ![r] = m]
      BY <1>6 DEF RemoveMember
    <2> HIDE DEF m
    <2>3. /\ rows' \in Seq(Member) /\ DOMAIN rows' = DOMAIN rows /\ rows'[r] = m
          /\ \A s \in DOMAIN rows \ {r} : rows'[s] = rows[s]
      BY <1>2, <2>1, <2>2, RowChanged
    <2>4. ~ChangeRole(h) /\ http[h].at = "removing"
      BY <1>6 DEF ChangeRole, RemoveMember
    <2> QED BY <1>1, <1>2, <1>4, <2>1, <2>3, <2>4
  <1> QED BY <1>5, <1>6

\* The first states are typed.
LEMMA AccountsTypesInitially == AccountsInit => AccountsTypeOK
  <1> SUFFICES ASSUME AccountsInit PROVE AccountsTypeOK
    OBVIOUS
  <1>1. KNOCK_MAX \in Nat
    BY AccountsAssumption
  <1>2. http = [h \in Handlers |-> NoRequest] /\ NoRequest \in Request /\ NoRequest.at = "idle"
    BY NoRequestRefers DEF AccountsInit, Refers
  <1>3. http \in [Handlers -> Request] /\ \A h \in Handlers : http[h].at = "idle"
    BY <1>2
  <1> QED BY <1>1, <1>3 DEF AccountsInit, AccountsTypeOK

\* Every organisation a person is a member of exists.
LEMMA MembershipsExist ==
    ASSUME AccountsTypeOK, NEW p, NEW named \in {0} \cup DOMAIN orgs, NEW o \in Resolved(p, named)
    PROVE  o \in DOMAIN orgs
  BY DEF Resolved, Memberships, AccountsTypeOK

\* Every request, claim and decision of an operator keeps the types.
LEMMA AccountsTypesStep == AccountsTypeOK /\ [AccountsNext]_accountsVars => AccountsTypeOK'
  <1> SUFFICES ASSUME AccountsTypeOK, [AccountsNext]_accountsVars PROVE AccountsTypeOK'
    OBVIOUS
  <1>0. /\ rows \in Seq(Member) /\ orgs \in Seq(Nat) /\ requests \in Seq(AccessRequest)
        /\ \A o \in DOMAIN orgs : orgs[o] \in DOMAIN requests
        /\ \A r \in DOMAIN rows : rows[r].org \in DOMAIN orgs
        /\ \A r \in DOMAIN rows : rows[r] \in Member
        /\ DOMAIN orgs \subseteq Nat /\ DOMAIN rows \subseteq Nat /\ DOMAIN requests \subseteq Nat
    BY DEF AccountsTypeOK
  <1>e. ASSUME NEW h \in Handlers, Done(h), UNCHANGED <<knocks, requests, orgs, rows>> PROVE AccountsTypeOK'
    BY <1>e, NoRequestRefers, ReaderGoesOn DEF Done
  <1>f. ASSUME NEW h \in Handlers, Go(h, NoRequest) PROVE Refers(http[h])'
    <2>1. http'[h] = NoRequest
      BY <1>f DEF Go, AccountsTypeOK
    <2> QED BY <2>1, NoRequestRefers DEF Refers
  <1>1. CASE UNCHANGED accountsVars
    BY <1>1 DEF accountsVars, AccountsTypeOK
  <1>2. ASSUME NEW p \in People, AskForAccess(p) PROVE AccountsTypeOK'
    <2>1. [by |-> p, state |-> "open"] \in AccessRequest
      BY DEF AccessRequest
    <2>2. /\ requests' \in Seq(AccessRequest) /\ DOMAIN requests \subseteq DOMAIN requests'
      BY <1>0, <1>2, <2>1 DEF AskForAccess
    <2>3. knocks' \in 0 .. KNOCK_MAX
      BY <1>2, AccountsAssumption DEF AskForAccess, AccountsTypeOK
    <2> QED BY <1>2, <2>2, <2>3 DEF AskForAccess, AccountsTypeOK
  <1>3. CASE WindowPasses
    BY <1>3, AccountsAssumption DEF WindowPasses, AccountsTypeOK
  <1>4. ASSUME NEW h \in Handlers, Grant(h) PROVE AccountsTypeOK'
    <2>1. PICK m \in Member : rows' = Append(rows, m) /\ m.org = Len(orgs) + 1
      BY <1>4, GrantEffect
    <2>2. /\ Go(h, NoRequest) /\ knocks' = knocks
          /\ DOMAIN orgs' = DOMAIN orgs \cup {Len(orgs) + 1} /\ orgs' \in Seq(Nat)
          /\ \A o \in DOMAIN orgs' : orgs'[o] \in DOMAIN requests'
          /\ requests' \in Seq(AccessRequest) /\ DOMAIN requests' = DOMAIN requests
      BY <1>4, GrantEffect
    <2>3. /\ rows' \in Seq(Member) /\ DOMAIN rows \subseteq DOMAIN rows'
          /\ \A r \in DOMAIN rows' : rows'[r].org \in DOMAIN orgs'
      BY <1>0, <2>1, <2>2, RowAdded
    <2> QED BY <1>f, <2>2, <2>3, OneGoesOn
  <1>5. ASSUME NEW h \in Handlers, Decline(h) PROVE AccountsTypeOK'
    <2> DEFINE q == http[h].row
    <2>1. q \in DOMAIN requests
      BY <1>5, TypesRefer DEF Decline, Refers
    <2>2. requests[q] \in AccessRequest
      BY <1>0, <2>1
    <2>3. [requests[q] EXCEPT !.state = "declined"] \in AccessRequest
      BY <2>2 DEF AccessRequest
    <2>4. requests' = [requests EXCEPT ![q] = [requests[q] EXCEPT !.state = "declined"]]
      BY <1>5 DEF Decline
    <2>5. requests' \in Seq(AccessRequest) /\ DOMAIN requests' = DOMAIN requests
      BY <1>0, <2>1, <2>3, <2>4
    <2>6. Go(h, NoRequest) /\ UNCHANGED <<knocks, orgs, rows>>
      BY <1>5 DEF Decline, Done
    <2> QED BY <1>0, <1>f, <2>5, <2>6, OneGoesOn
  <1>6. ASSUME NEW h \in Handlers, Claim(h) PROVE AccountsTypeOK'
    <2>1. /\ http[h].at = "claim" /\ UNCHANGED <<knocks, requests, orgs>>
          /\ Go(h, NoRequest) \/ Go(h, At(h, "again"))
          /\ rows' \in Seq(Member) /\ DOMAIN rows' = DOMAIN rows
          /\ \A r \in DOMAIN rows : rows'[r].org = rows[r].org
      BY <1>6, ClaimEffect
    <2>2. Refers(At(h, "again"))
      BY <2>1, AtRefers
    <2>3. ASSUME Go(h, At(h, "again")) PROVE Refers(http[h])'
      <3>1. http'[h] = At(h, "again")
        BY <2>3 DEF Go, AccountsTypeOK
      <3> QED BY <2>1, <2>2, <3>1 DEF Refers
    <2> QED BY <1>0, <1>f, <2>1, <2>3, OneGoesOn
  <1>7. ASSUME NEW h \in Handlers, ResolveAgain(h) PROVE AccountsTypeOK'
    <2>1. CASE Done(h)
      BY <1>7, <1>e, <2>1 DEF ResolveAgain
    <2>2. ASSUME NEW o \in Resolved(http[h].who, 0), Go(h, [At(h, "member") EXCEPT !.org = o]) PROVE AccountsTypeOK'
      <3>1. o \in Nat
        BY <1>0, MembershipsExist
      <3>2. Refers(At(h, "member")) /\ At(h, "member").at = "member"
        BY <1>7, AtRefers DEF ResolveAgain
      <3>3. Refers([At(h, "member") EXCEPT !.org = o])
        BY <3>1, <3>2 DEF Refers, Request
      <3> QED BY <1>7, <2>2, <3>3, ReaderGoesOn DEF ResolveAgain
    <2> QED BY <1>7, <2>1, <2>2 DEF ResolveAgain
  <1>8. ASSUME NEW h \in Handlers, CheckMembership(h) PROVE AccountsTypeOK'
    <2>1. CASE Done(h)
      BY <1>8, <1>e, <2>1 DEF CheckMembership
    <2>2. ASSUME NEW r \in DOMAIN rows, rows[r].org = http[h].org, Go(h, [At(h, "serve") EXCEPT !.role = rows[r].role])
          PROVE  AccountsTypeOK'
      <3>1. rows[r].role \in Roles /\ http[h].org \in DOMAIN orgs /\ http[h].at = "member"
        BY <1>0, <1>8, <2>2 DEF Member, CheckMembership
      <3>2. Refers(http[h])
        BY TypesRefer
      <3>3. Refers([At(h, "serve") EXCEPT !.role = rows[r].role])
        BY <3>1, <3>2 DEF Refers, Request, At
      <3> QED BY <1>8, <2>2, <3>3, ReaderGoesOn DEF CheckMembership
    <2> QED BY <1>8, <2>1, <2>2 DEF CheckMembership
  <1>9. ASSUME NEW h \in Handlers, Answer(h) \/ Drop(h) PROVE AccountsTypeOK'
    BY <1>9, <1>e DEF Answer, Drop
  <1>10. ASSUME NEW h \in Handlers, Invite(h) PROVE AccountsTypeOK'
    <2>1. PICK m \in Member : rows' = Append(rows, m) /\ m.org \in DOMAIN orgs
      BY <1>10, InviteEffect
    <2>2. Go(h, NoRequest) /\ UNCHANGED <<knocks, requests, orgs>>
      BY <1>10, InviteEffect
    <2>3. /\ rows' \in Seq(Member) /\ DOMAIN rows \subseteq DOMAIN rows'
          /\ \A r \in DOMAIN rows' : rows'[r].org \in DOMAIN orgs
      BY <1>0, <2>1, RowAdded
    <2> QED BY <1>0, <1>f, <2>2, <2>3, OneGoesOn
  <1>11. ASSUME NEW h \in Handlers, ChangeRole(h) \/ RemoveMember(h) PROVE AccountsTypeOK'
    <2>1. /\ Go(h, NoRequest) /\ UNCHANGED <<knocks, requests, orgs>>
          /\ rows' \in Seq(Member) /\ DOMAIN rows' = DOMAIN rows
          /\ \A r \in DOMAIN rows : rows'[r].org = rows[r].org
      BY <1>11, ChangeEffect
    <2> QED BY <1>0, <1>f, <2>1, OneGoesOn
  <1>12. ASSUME NEW h \in Handlers, CountOwners(h) PROVE AccountsTypeOK'
    <2>1. Refers(http[h]) /\ http[h].at = "counting"
      BY <1>12, TypesRefer DEF CountOwners
    <2>2. Refers(At(h, "removing"))
      BY <2>1 DEF Refers, At, Request, Deciding
    <2> QED BY <1>12, <1>e, <2>2, ReaderGoesOn DEF CountOwners
  <1>13. ASSUME NEW h \in Handlers, NEW p \in People,
                \/ \E named \in {0} \cup DOMAIN orgs : Authenticate(h, p, named)
                \/ WhoAmI(h, p)
                \/ \E q \in DOMAIN requests, d \in {"granting", "declining"} : ReadRequest(h, p, q, d)
         PROVE  AccountsTypeOK'
    <2>1. UNCHANGED <<knocks, requests, orgs, rows>>
      BY <1>13 DEF Authenticate, WhoAmI, ReadRequest
    <2>2. /\ Refers([NoRequest EXCEPT !.at = "claim", !.who = p])
          /\ Refers([NoRequest EXCEPT !.at = "claim", !.who = p, !.me = TRUE])
          /\ \A o \in Nat : Refers([NoRequest EXCEPT !.at = "member", !.who = p, !.org = o])
          /\ \A q \in DOMAIN requests, d \in {"granting", "declining"} :
                Refers([NoRequest EXCEPT !.at = d, !.who = p, !.row = q])
      <3> DEFINE c == [NoRequest EXCEPT !.at = "claim", !.who = p]
                 i == [NoRequest EXCEPT !.at = "claim", !.who = p, !.me = TRUE]
                 o(x) == [NoRequest EXCEPT !.at = "member", !.who = p, !.org = x]
                 q(x, d) == [NoRequest EXCEPT !.at = d, !.who = p, !.row = x]
      <3>1. /\ c \in Request /\ c.at = "claim" /\ c.who = p
            /\ i \in Request /\ i.at = "claim" /\ i.who = p
        BY DEF NoRequest, Request, Roles
      <3>2. \A x \in Nat : o(x) \in Request /\ o(x).at = "member" /\ o(x).who = p
        BY DEF NoRequest, Request, Roles
      <3>3. \A x \in Nat, d \in {"granting", "declining"} :
               q(x, d) \in Request /\ q(x, d).at = d /\ q(x, d).who = p /\ q(x, d).row = x
        BY DEF NoRequest, Request, Roles, Deciding
      <3> HIDE DEF c, i, o, q
      <3>4. Refers(c) /\ Refers(i) /\ \A x \in Nat : Refers(o(x))
        BY <3>1, <3>2 DEF Refers
      <3>5. \A x \in DOMAIN requests, d \in {"granting", "declining"} : Refers(q(x, d))
        BY <1>0, <3>3 DEF Refers
      <3> QED BY <3>4, <3>5 DEF c, i, o, q
    <2>3. ASSUME NEW named \in {0} \cup DOMAIN orgs, Authenticate(h, p, named) PROVE AccountsTypeOK'
      <3>1. \/ Go(h, [NoRequest EXCEPT !.at = "claim", !.who = p])
            \/ \E o \in Resolved(p, named) : Go(h, [NoRequest EXCEPT !.at = "member", !.who = p, !.org = o])
        BY <2>3 DEF Authenticate
      <3>2. \A o \in Resolved(p, named) : o \in Nat
        BY <1>0, MembershipsExist
      <3> QED BY <2>1, <2>2, <3>1, <3>2, ReaderGoesOn
    <2>4. CASE WhoAmI(h, p)
      BY <2>1, <2>2, <2>4, ReaderGoesOn DEF WhoAmI
    <2>5. ASSUME NEW q \in DOMAIN requests, NEW d \in {"granting", "declining"}, ReadRequest(h, p, q, d)
          PROVE  AccountsTypeOK'
      BY <2>1, <2>2, <2>5, ReaderGoesOn DEF ReadRequest
    <2> QED BY <1>13, <2>3, <2>4, <2>5
  <1>14. ASSUME NEW h \in Handlers, MayManage(h), UNCHANGED <<knocks, requests, orgs, rows>>,
                \/ \E email \in People, role \in Roles : Go(h, [At(h, "inviting") EXCEPT !.email = email, !.to = role])
                \/ \E r \in DOMAIN rows, role \in Roles, at \in {"changing", "counting", "removing"} :
                      Go(h, [At(h, at) EXCEPT !.row = r, !.to = role])
         PROVE  AccountsTypeOK'
    <2>1. Refers(http[h]) /\ http[h].at = "serve"
      BY <1>14, TypesRefer DEF MayManage
    <2>2. \A email \in People, role \in Roles : Refers([At(h, "inviting") EXCEPT !.email = email, !.to = role])
      BY <2>1 DEF Refers, At, Request, Deciding
    <2>3. \A r \in DOMAIN rows, role \in Roles, at \in {"changing", "counting", "removing"} :
             Refers([At(h, at) EXCEPT !.row = r, !.to = role])
      <3> TAKE r \in DOMAIN rows, role \in Roles, at \in {"changing", "counting", "removing"}
      <3> DEFINE c == [At(h, at) EXCEPT !.row = r, !.to = role]
      <3>1. c \in Request /\ c.at = at /\ c.who = http[h].who /\ c.row = r
        BY <1>0, <2>1 DEF Refers, At, Request, Deciding
      <3> HIDE DEF c
      <3>2. Refers(c)
        BY <2>1, <3>1 DEF Refers
      <3> QED BY <3>2 DEF c
    <2> QED BY <1>14, <2>2, <2>3, ReaderGoesOn
  <1>15. ASSUME NEW h \in Handlers, NEW role \in Given,
                \/ \E email \in People : ReadInvitee(h, email, role)
                \/ \E r \in DOMAIN rows : ReadMember(h, r, role)
         PROVE  AccountsTypeOK'
    <2>1. role \in Roles
      BY AccountsAssumption DEF Roles
    <2> QED BY <1>14, <1>15, <2>1 DEF ReadInvitee, ReadMember
  <1>16. ASSUME NEW h \in Handlers, NEW r \in DOMAIN rows, ReadTarget(h, r) PROVE AccountsTypeOK'
    <2>1. rows[r].role \in Roles
      BY <1>0 DEF Member
    <2>2. PICK at \in {"changing", "counting", "removing"} : Go(h, [At(h, at) EXCEPT !.row = r, !.to = rows[r].role])
      BY <1>16 DEF ReadTarget
    <2> QED BY <1>14, <1>16, <2>1, <2>2 DEF ReadTarget
  <1> QED BY <1>1, <1>2, <1>3, <1>4, <1>5, <1>6, <1>7, <1>8, <1>9, <1>10, <1>11, <1>12, <1>13, <1>15, <1>16
      DEF AccountsNext

\* For any number of people, requests under way and organisations, and however the
\* requests overlap: what a request under way refers to exists.
THEOREM AccountsTypeCorrect == AccountsSpec => []AccountsTypeOK
  BY AccountsTypesInitially, AccountsTypesStep, PTL DEF AccountsSpec

-----------------------------------------------------------------------------
(* Accounts: owners and invitations.                                       *)

Stands(r) == rows[r].status # "gone"
Owns(r) == Stands(r) /\ rows[r].role = "owner"
AnotherOwner(r) == \E s \in DOMAIN rows : s # r /\ rows[s].org = rows[r].org /\ Owns(s)

OneDecides == \A g, h \in Handlers : http[g].at \in Deciding /\ http[h].at \in Deciding => g = h

\* What the guards of a request have found is still so when it writes.
StillSo(c) ==
    /\ c.at = "inviting" => ~Live(c.org, c.email)
    /\ c.at = "changing" => (Owns(c.row) /\ c.to # "owner" => AnotherOwner(c.row))
    /\ c.at = "counting" => c.to = rows[c.row].role /\ c.org = rows[c.row].org
    /\ c.at = "removing" => (Owns(c.row) => AnotherOwner(c.row))
DecisionsStand == \A h \in Handlers : StillSo(http[h])

\* An address has one row in an organisation; a row names a subject once claimed.
OneRowEach ==
    \A r, s \in DOMAIN rows :
        Stands(r) /\ Stands(s) /\ rows[r].org = rows[s].org /\ rows[r].email = rows[s].email => r = s
ClaimedByOwner ==
    \A r \in DOMAIN rows : /\ rows[r].status = "active" => rows[r].user = rows[r].email
                           /\ rows[r].status = "invited" => rows[r].user = Nobody

AccountsInv ==
    /\ AccountsTypeOK
    /\ OneDecides /\ DecisionsStand
    /\ OneRowEach /\ ClaimedByOwner /\ OwnerRemains

\* An owner that is not the only one: countMembers found two.
LEMMA TwoOwners ==
    ASSUME AccountsTypeOK, NEW r \in DOMAIN rows, Owns(r), ~(OwnerCount(rows[r].org) <= 1)
    PROVE  AnotherOwner(r)
  <1> DEFINE S == {s \in Of(rows[r].org) : rows[s].role = "owner"}
  <1>1. r \in S
    BY DEF Of, Owns, Stands
  <1>2. SUFFICES ASSUME ~AnotherOwner(r) PROVE FALSE
    OBVIOUS
  <1>3. \A s \in S : s = r
    BY <1>2 DEF AnotherOwner, Of, Owns, Stands
  <1> HIDE DEF S
  <1>4. S = {r}
    BY <1>1, <1>3
  <1>5. Cardinality(S) = 1
    BY <1>4, FS_Singleton
  <1> QED BY <1>5 DEF OwnerCount, S

\* Nobody is deciding anything at first.
LEMMA AccountsInvInitially == AccountsInit => AccountsInv
  <1> SUFFICES ASSUME AccountsInit PROVE AccountsInv
    OBVIOUS
  <1>1. \A h \in Handlers : http[h].at = "idle"
    BY NoRequestRefers DEF AccountsInit
  <1>2. DOMAIN rows = {} /\ DOMAIN orgs = {}
    BY DEF AccountsInit
  <1> QED BY <1>1, <1>2, AccountsTypesInitially
      DEF AccountsInv, OneDecides, DecisionsStand, StillSo, OneRowEach, ClaimedByOwner, OwnerRemains, Deciding

\* A request that only reads: what it now relies on is so, and no other decides if
\* it is to.
LEMMA ReaderStands ==
    ASSUME AccountsInv, AccountsTypeOK', NEW h \in Handlers, NEW op, Go(h, op), StillSo(op),
           op.at \in Deciding => http[h].at \in Deciding \/ \A g \in Handlers \ {h} : http[g].at \notin Deciding,
           UNCHANGED <<orgs, rows>>
    PROVE  AccountsInv'
  <1>0. OneDecides /\ DecisionsStand /\ OneRowEach /\ ClaimedByOwner /\ OwnerRemains
    BY DEF AccountsInv
  <1>1. http'[h] = op /\ \A g \in Handlers \ {h} : http'[g] = http[g]
    BY DEF Go, AccountsInv, AccountsTypeOK
  <1>2. OneDecides'
    BY <1>0, <1>1 DEF OneDecides
  <1>3. DecisionsStand'
    <2> SUFFICES ASSUME NEW g \in Handlers PROVE StillSo(http[g])'
      BY DEF DecisionsStand
    <2>1. StillSo(http'[g])
      BY <1>0, <1>1 DEF DecisionsStand
    <2> QED BY <2>1 DEF StillSo, Live, Of, Owns, Stands, AnotherOwner
  <1>4. OneRowEach' /\ ClaimedByOwner' /\ OwnerRemains'
    BY <1>0 DEF OneRowEach, ClaimedByOwner, OwnerRemains, Stands, Of
  <1> QED BY <1>2, <1>3, <1>4 DEF AccountsInv

\* A request that decides is the only one: when it has written, no other relies on
\* what it changed.
LEMMA WriterStands ==
    ASSUME AccountsInv, AccountsTypeOK', NEW h \in Handlers, http[h].at \in Deciding, Go(h, NoRequest),
           OneRowEach', ClaimedByOwner', OwnerRemains'
    PROVE  AccountsInv'
  <1>1. http'[h] = NoRequest /\ \A g \in Handlers \ {h} : http'[g] = http[g] /\ http[g].at \notin Deciding
    BY DEF Go, AccountsInv, AccountsTypeOK, OneDecides
  <1>2. \A g \in Handlers : http'[g].at \notin Deciding
    BY <1>1, NoRequestRefers DEF Deciding
  <1>3. OneDecides' /\ DecisionsStand'
    BY <1>2 DEF OneDecides, DecisionsStand, StillSo, Deciding
  <1> QED BY <1>3 DEF AccountsInv

\* A claim makes members of invitations: who owns and who stands stays as it is.
LEMMA ClaimStands ==
    ASSUME AccountsInv, AccountsTypeOK', NEW h \in Handlers, Claim(h)
    PROVE  AccountsInv'
  <1>0. AccountsTypeOK /\ OneDecides /\ DecisionsStand /\ OneRowEach /\ ClaimedByOwner /\ OwnerRemains
    BY DEF AccountsInv
  <1>1. /\ http[h].at = "claim" /\ http[h].who \in People /\ orgs' = orgs
        /\ Go(h, NoRequest) \/ Go(h, At(h, "again"))
        /\ DOMAIN rows' = DOMAIN rows
    BY <1>0, ClaimEffect
  <1>2. \A r \in DOMAIN rows :
           \/ rows'[r] = rows[r]
           \/ /\ rows[r].status = "invited" /\ rows'[r].status = "active"
              /\ rows'[r].user = http[h].who /\ rows'[r].email = http[h].who
              /\ rows'[r].email = rows[r].email
              /\ rows'[r].org = rows[r].org /\ rows'[r].role = rows[r].role
    BY <1>0, ClaimEffect
  <1>3. \A r \in DOMAIN rows :
           /\ rows'[r].org = rows[r].org /\ rows'[r].role = rows[r].role /\ rows'[r].email = rows[r].email
           /\ rows'[r].status = "gone" <=> rows[r].status = "gone"
    BY <1>2
  <1>4. ClaimedByOwner'
    BY <1>0, <1>1, <1>2 DEF ClaimedByOwner
  <1>5. OneRowEach' /\ OwnerRemains'
    BY <1>0, <1>1, <1>3 DEF OneRowEach, OwnerRemains, Stands, Of
  <1>6. At(h, "again").at = "again"
    BY <1>0, <1>1, AtRefers
  <1>7. /\ http'[h].at \in {"idle", "again"} /\ \A g \in Handlers \ {h} : http'[g] = http[g]
    BY <1>0, <1>1, <1>6, NoRequestRefers DEF Go, AccountsTypeOK
  <1>8. OneDecides'
    BY <1>0, <1>7 DEF OneDecides, Deciding
  <1>9. DecisionsStand'
    <2> SUFFICES ASSUME NEW g \in Handlers PROVE StillSo(http[g])'
      BY DEF DecisionsStand
    <2>1. CASE g = h
      BY <1>7, <2>1 DEF StillSo
    <2>2. CASE g # h
      <3>1. http'[g] = http[g] /\ StillSo(http[g]) /\ Refers(http[g])
        BY <1>0, <1>7, <2>2, TypesRefer DEF DecisionsStand
      <3>2. \A r \in DOMAIN rows : Owns(r)' <=> Owns(r)
        BY <1>3 DEF Owns, Stands
      <3>3. \A r \in DOMAIN rows : AnotherOwner(r) => AnotherOwner(r)'
        BY <1>1, <1>3, <3>2 DEF AnotherOwner
      <3>4. \A o, email : Live(o, email)' => Live(o, email)
        BY <1>1, <1>3 DEF Live, Of
      <3>5. http[g].at = "inviting" => ~Live(http[g].org, http[g].email)'
        BY <3>1, <3>4 DEF StillSo, Live, Of
      <3>6. http[g].at \in {"changing", "counting", "removing"} => http[g].row \in DOMAIN rows
        BY <3>1 DEF Refers
      <3>7. http[g].at = "changing" => (Owns(http[g].row) /\ http[g].to # "owner" => AnotherOwner(http[g].row))'
        BY <3>1, <3>2, <3>3, <3>6 DEF StillSo, Owns, Stands, AnotherOwner
      <3>8. http[g].at = "removing" => (Owns(http[g].row) => AnotherOwner(http[g].row))'
        BY <3>1, <3>2, <3>3, <3>6 DEF StillSo, Owns, Stands, AnotherOwner
      <3>9. http[g].at = "counting" => (http[g].to = rows[http[g].row].role /\ http[g].org = rows[http[g].row].org)'
        BY <1>3, <3>1, <3>6 DEF StillSo
      <3> QED BY <3>1, <3>5, <3>7, <3>8, <3>9 DEF StillSo, Live, Of
    <2> QED BY <2>1, <2>2
  <1> QED BY <1>4, <1>5, <1>8, <1>9 DEF AccountsInv

\* A row is added for an address that had none.
LEMMA AddedStands ==
    ASSUME AccountsInv, NEW m \in Member, rows' = Append(rows, m), m.status = "invited", m.user = Nobody,
           \A r \in DOMAIN rows : Stands(r) /\ rows[r].org = m.org => rows[r].email # m.email
    PROVE  /\ OneRowEach' /\ ClaimedByOwner'
           /\ \A o : (\E r \in Of(o) : rows[r].role = "owner") => (\E r \in Of(o) : rows[r].role = "owner")'
           /\ m.role = "owner" => (\E r \in Of(m.org) : rows[r].role = "owner")'
  <1>0. AccountsTypeOK /\ OneRowEach /\ ClaimedByOwner
    BY DEF AccountsInv
  <1> DEFINE n == Len(rows) + 1
  <1>1. /\ DOMAIN rows \subseteq DOMAIN rows' /\ n \in DOMAIN rows' /\ n \notin DOMAIN rows /\ rows'[n] = m
        /\ \A r \in DOMAIN rows : rows'[r] = rows[r]
        /\ \A r \in DOMAIN rows' : r \in DOMAIN rows \/ r = n
    BY <1>0, RowAdded
  <1> HIDE DEF n
  <1>2. ClaimedByOwner'
    BY <1>0, <1>1 DEF ClaimedByOwner
  <1>3. OneRowEach'
    <2> SUFFICES ASSUME NEW r \in DOMAIN rows', NEW s \in DOMAIN rows', Stands(r)', Stands(s)',
                        rows'[r].org = rows'[s].org, rows'[r].email = rows'[s].email
                 PROVE  r = s
      BY DEF OneRowEach
    <2>1. CASE r \in DOMAIN rows /\ s \in DOMAIN rows
      BY <1>0, <1>1, <2>1 DEF OneRowEach, Stands
    <2>2. CASE r = n /\ s \in DOMAIN rows
      BY <1>1, <2>2 DEF Stands
    <2>3. CASE r \in DOMAIN rows /\ s = n
      BY <1>1, <2>3 DEF Stands
    <2> QED BY <1>1, <2>1, <2>2, <2>3
  <1>4. \A o : (\E r \in Of(o) : rows[r].role = "owner") => (\E r \in Of(o) : rows[r].role = "owner")'
    BY <1>1 DEF Of
  <1>5. m.role = "owner" => (\E r \in Of(m.org) : rows[r].role = "owner")'
    BY <1>1 DEF Of
  <1> QED BY <1>2, <1>3, <1>4, <1>5

\* One request at a time between its guards and its write: the invariant is kept.
LEMMA AccountsInvStep ==
    ASSUME ~RequestsOverlap, AccountsInv, [AccountsNext]_accountsVars
    PROVE  AccountsInv'
  <1>0. AccountsTypeOK /\ OneDecides /\ DecisionsStand /\ OneRowEach /\ ClaimedByOwner /\ OwnerRemains
    BY DEF AccountsInv
  <1>t. AccountsTypeOK'
    BY <1>0, AccountsTypesStep
  <1>a. ASSUME NEW h \in Handlers, Alone(h) PROVE \A g \in Handlers \ {h} : http[g].at \notin Deciding
    BY <1>a DEF Alone
  <1>i. ASSUME NEW h \in Handlers, NEW op, Go(h, op), op.at \notin Deciding, UNCHANGED <<orgs, rows>>
        PROVE  AccountsInv'
    <2>1. StillSo(op)
      BY <1>i DEF StillSo, Deciding
    <2> QED BY <1>t, <1>i, <2>1, ReaderStands
  <1>e. ASSUME NEW h \in Handlers, Done(h), UNCHANGED <<orgs, rows>> PROVE AccountsInv'
    BY <1>i, <1>e, NoRequestRefers DEF Done, Deciding
  <1>1. ASSUME UNCHANGED <<orgs, rows, http>> PROVE AccountsInv'
    <2>1. OneDecides' /\ DecisionsStand'
      BY <1>0, <1>1 DEF OneDecides, DecisionsStand, StillSo, Live, Of, Owns, Stands, AnotherOwner
    <2>2. OneRowEach' /\ ClaimedByOwner' /\ OwnerRemains'
      BY <1>0, <1>1 DEF OneRowEach, ClaimedByOwner, OwnerRemains, Stands, Of
    <2> QED BY <1>t, <2>1, <2>2 DEF AccountsInv
  <1>2. ASSUME NEW h \in Handlers, Grant(h) PROVE AccountsInv'
    <2>1. PICK m \in Member : /\ rows' = Append(rows, m) /\ m.org = Len(orgs) + 1 /\ m.role = "owner"
                              /\ m.status = "invited" /\ m.user = Nobody
      BY <1>0, <1>2, GrantEffect
    <2>2. /\ http[h].at = "granting" /\ Go(h, NoRequest)
          /\ Len(orgs) + 1 \notin DOMAIN orgs /\ DOMAIN orgs' = DOMAIN orgs \cup {Len(orgs) + 1}
      BY <1>0, <1>2, GrantEffect
    <2>3. \A r \in DOMAIN rows : rows[r].org # m.org
      BY <1>0, <2>1, <2>2 DEF AccountsTypeOK
    <2>4. /\ OneRowEach' /\ ClaimedByOwner'
          /\ \A o : (\E r \in Of(o) : rows[r].role = "owner") => (\E r \in Of(o) : rows[r].role = "owner")'
          /\ (\E r \in Of(m.org) : rows[r].role = "owner")'
      BY <2>1, <2>3, AddedStands
    <2>5. OwnerRemains'
      BY <1>0, <2>1, <2>2, <2>4 DEF OwnerRemains
    <2> QED BY <1>t, <2>2, <2>4, <2>5, WriterStands DEF Deciding
  <1>3. ASSUME NEW h \in Handlers, Decline(h) PROVE AccountsInv'
    BY <1>3, <1>e DEF Decline
  <1>4. ASSUME NEW h \in Handlers, Claim(h) PROVE AccountsInv'
    BY <1>4, <1>t, ClaimStands
  <1>5. ASSUME NEW h \in Handlers, ResolveAgain(h) PROVE AccountsInv'
    <2>1. ASSUME NEW o PROVE [At(h, "member") EXCEPT !.org = o].at = "member"
      BY <1>0, TypesRefer DEF At, Refers, Request
    <2> QED BY <1>5, <1>e, <1>i, <2>1 DEF ResolveAgain, Deciding
  <1>6. ASSUME NEW h \in Handlers, CheckMembership(h) PROVE AccountsInv'
    <2>1. ASSUME NEW x PROVE [At(h, "serve") EXCEPT !.role = x].at = "serve"
      BY <1>0, TypesRefer DEF At, Refers, Request
    <2> QED BY <1>6, <1>e, <1>i, <2>1 DEF CheckMembership, Deciding
  <1>7. ASSUME NEW h \in Handlers, Answer(h) \/ Drop(h) PROVE AccountsInv'
    BY <1>7, <1>e DEF Answer, Drop
  <1>8. ASSUME NEW h \in Handlers, Invite(h) PROVE AccountsInv'
    <2>1. PICK m \in Member : /\ rows' = Append(rows, m) /\ m.org = http[h].org /\ m.email = http[h].email
                              /\ m.status = "invited" /\ m.user = Nobody
      BY <1>0, <1>8, InviteEffect
    <2>2. http[h].at = "inviting" /\ Go(h, NoRequest) /\ orgs' = orgs
      BY <1>0, <1>8, InviteEffect
    <2>3. ~Live(http[h].org, http[h].email)
      BY <1>0, <2>2 DEF DecisionsStand, StillSo
    <2>4. \A r \in DOMAIN rows : Stands(r) /\ rows[r].org = m.org => rows[r].email # m.email
      BY <2>1, <2>3 DEF Live, Of, Stands
    <2>5. /\ OneRowEach' /\ ClaimedByOwner'
          /\ \A o : (\E r \in Of(o) : rows[r].role = "owner") => (\E r \in Of(o) : rows[r].role = "owner")'
      BY <2>1, <2>4, AddedStands
    <2>6. OwnerRemains'
      BY <1>0, <2>2, <2>5 DEF OwnerRemains
    <2> QED BY <1>t, <2>2, <2>5, <2>6, WriterStands DEF Deciding
  <1>9. ASSUME NEW h \in Handlers, ChangeRole(h) \/ RemoveMember(h) PROVE AccountsInv'
    <2>0. PICK r \in DOMAIN rows : r = http[h].row
      BY <1>0, <1>9, ChangeEffect
    <2>1. /\ http[h].at \in {"changing", "removing"} /\ Go(h, NoRequest) /\ orgs' = orgs
          /\ DOMAIN rows' = DOMAIN rows
          /\ \A s \in DOMAIN rows : s # r => rows'[s] = rows[s]
          /\ rows'[r].org = rows[r].org /\ rows'[r].email = rows[r].email /\ rows'[r].user = rows[r].user
      BY <1>0, <1>9, <2>0, ChangeEffect
    <2>2. \/ http[h].at = "changing" /\ rows'[r].status = rows[r].status /\ rows'[r].role \in {rows[r].role, http[h].to}
          \/ http[h].at = "removing" /\ rows'[r].status = "gone"
      BY <1>0, <1>9, <2>0, ChangeEffect
    <2>3. StillSo(http[h])
      BY <1>0 DEF DecisionsStand
    <2>4. OneRowEach' /\ ClaimedByOwner'
      BY <1>0, <2>1, <2>2 DEF OneRowEach, ClaimedByOwner, Stands
    <2>5. Owns(r) => Owns(r)' \/ AnotherOwner(r)
      BY <2>0, <2>2, <2>3 DEF StillSo, Owns, Stands
    <2>6. OwnerRemains'
      <3> SUFFICES ASSUME NEW o \in DOMAIN orgs PROVE (\E x \in Of(o) : rows[x].role = "owner")'
        BY <2>1 DEF OwnerRemains
      <3>1. PICK s \in DOMAIN rows : rows[s].org = o /\ Owns(s)
        BY <1>0 DEF OwnerRemains, Of, Owns, Stands
      <3>2. CASE s # r
        BY <2>1, <3>1, <3>2 DEF Of, Owns, Stands
      <3>3. CASE s = r /\ Owns(r)'
        BY <2>1, <3>1, <3>3 DEF Of, Owns, Stands
      <3>4. CASE s = r /\ AnotherOwner(r)
        <4>1. PICK x \in DOMAIN rows : x # r /\ rows[x].org = rows[r].org /\ Owns(x)
          BY <3>4 DEF AnotherOwner
        <4> QED BY <2>1, <3>1, <3>4, <4>1 DEF Of, Owns, Stands
      <3> QED BY <2>5, <3>1, <3>2, <3>3, <3>4
    <2> QED BY <1>t, <2>1, <2>4, <2>6, WriterStands DEF Deciding
  <1>10. ASSUME NEW h \in Handlers, CountOwners(h) PROVE AccountsInv'
    <2> DEFINE op == At(h, "removing")
    <2>1. http[h].at = "counting" /\ UNCHANGED <<orgs, rows>> /\ Refers(http[h]) /\ StillSo(http[h])
      BY <1>0, <1>10, TypesRefer DEF CountOwners, DecisionsStand
    <2>2. CASE Done(h)
      BY <1>e, <2>1, <2>2
    <2>3. CASE ~removesLastOwner(http[h].to, OwnerCount(http[h].org)) /\ Go(h, op)
      <3>1. op.at = "removing" /\ op.row = http[h].row
        BY <2>1 DEF At, Refers, Request
      <3>2. http[h].row \in DOMAIN rows
        BY <2>1 DEF Refers
      <3>3. Owns(http[h].row) => ~(OwnerCount(rows[http[h].row].org) <= 1)
        BY <2>1, <2>3 DEF removesLastOwner, Owns, StillSo
      <3>4. Owns(http[h].row) => AnotherOwner(http[h].row)
        BY <1>0, <3>2, <3>3, TwoOwners
      <3>5. StillSo(op)
        BY <3>1, <3>4 DEF StillSo
      <3> QED BY <1>t, <2>1, <2>3, <3>5, ReaderStands DEF Deciding
    <2> QED BY <1>10, <2>2, <2>3 DEF CountOwners
  <1>11. ASSUME NEW h \in Handlers, NEW p \in People,
                \/ \E named \in {0} \cup DOMAIN orgs : Authenticate(h, p, named)
                \/ WhoAmI(h, p)
                \/ \E q \in DOMAIN requests, d \in {"granting", "declining"} : ReadRequest(h, p, q, d)
         PROVE  AccountsInv'
    <2>1. UNCHANGED <<orgs, rows>>
      BY <1>11 DEF Authenticate, WhoAmI, ReadRequest
    <2>2. ASSUME NEW o, NEW q, NEW d
          PROVE  /\ [NoRequest EXCEPT !.at = "claim", !.who = p].at = "claim"
                 /\ [NoRequest EXCEPT !.at = "claim", !.who = p, !.me = TRUE].at = "claim"
                 /\ [NoRequest EXCEPT !.at = "member", !.who = p, !.org = o].at = "member"
                 /\ [NoRequest EXCEPT !.at = d, !.who = p, !.row = q].at = d
      BY DEF NoRequest
    <2>3. ASSUME NEW q \in DOMAIN requests, NEW d \in {"granting", "declining"}, ReadRequest(h, p, q, d)
          PROVE  AccountsInv'
      <3> DEFINE op == [NoRequest EXCEPT !.at = d, !.who = p, !.row = q]
      <3>1. Go(h, op) /\ Alone(h) /\ op.at = d
        BY <2>2, <2>3 DEF ReadRequest
      <3> HIDE DEF op
      <3>2. StillSo(op)
        BY <3>1 DEF StillSo
      <3> QED BY <1>a, <1>t, <2>1, <3>1, <3>2, ReaderStands
    <2>4. CASE WhoAmI(h, p)
      BY <1>i, <2>1, <2>2, <2>4 DEF WhoAmI, Deciding
    <2>5. ASSUME NEW named \in {0} \cup DOMAIN orgs, Authenticate(h, p, named) PROVE AccountsInv'
      BY <1>i, <2>1, <2>2, <2>5 DEF Authenticate, Deciding
    <2> QED BY <1>11, <2>3, <2>4, <2>5
  <1>12. ASSUME NEW h \in Handlers, NEW role \in Given, NEW email \in People, ReadInvitee(h, email, role)
         PROVE  AccountsInv'
    <2> DEFINE op == [At(h, "inviting") EXCEPT !.email = email, !.to = role]
    <2>1. op.at = "inviting" /\ op.org = http[h].org /\ op.email = email
      BY <1>0, TypesRefer DEF Refers, Request, At
    <2>2. Go(h, op) /\ Alone(h) /\ ~Live(http[h].org, email) /\ UNCHANGED <<orgs, rows>>
      BY <1>12 DEF ReadInvitee
    <2> HIDE DEF op
    <2>3. StillSo(op)
      BY <2>1, <2>2 DEF StillSo
    <2> QED BY <1>a, <1>t, <2>2, <2>3, ReaderStands
  <1>13. ASSUME NEW h \in Handlers, NEW role \in Given, NEW r \in DOMAIN rows, ReadMember(h, r, role)
         PROVE  AccountsInv'
    <2> DEFINE op == [At(h, "changing") EXCEPT !.row = r, !.to = role]
    <2>1. op.at = "changing" /\ op.row = r /\ op.to = role
      BY <1>0, TypesRefer DEF Refers, Request, At
    <2>2. /\ Go(h, op) /\ Alone(h) /\ UNCHANGED <<orgs, rows>> /\ rows[r].org = http[h].org
          /\ ~demotesLastOwner(rows[r].role, role, OwnerCount(http[h].org))
      BY <1>13 DEF ReadMember, Of
    <2> HIDE DEF op
    <2>3. Owns(r) /\ role # "owner" => ~(OwnerCount(rows[r].org) <= 1)
      BY <2>2 DEF demotesLastOwner, Owns
    <2>4. Owns(r) /\ role # "owner" => AnotherOwner(r)
      BY <1>0, <2>3, TwoOwners
    <2>5. StillSo(op)
      BY <2>1, <2>4 DEF StillSo
    <2> QED BY <1>a, <1>t, <2>2, <2>5, ReaderStands
  <1>14. ASSUME NEW h \in Handlers, NEW r \in DOMAIN rows, ReadTarget(h, r) PROVE AccountsInv'
    <2> DEFINE place == IF rows[r].role = "owner" THEN "counting" ELSE "removing"
               op == [At(h, place) EXCEPT !.row = r, !.to = rows[r].role]
    <2>1. op.at = place /\ op.row = r /\ op.to = rows[r].role /\ op.org = http[h].org
      BY <1>0, TypesRefer DEF Refers, Request, At
    <2>2. Go(h, op) /\ Alone(h) /\ UNCHANGED <<orgs, rows>> /\ rows[r].org = http[h].org
      BY <1>14 DEF ReadTarget, Of
    <2> HIDE DEF op
    <2>3. StillSo(op)
      BY <2>1, <2>2 DEF StillSo, Owns
    <2> QED BY <1>a, <1>t, <2>2, <2>3, ReaderStands
  <1> QED BY <1>1, <1>2, <1>3, <1>4, <1>5, <1>6, <1>7, <1>8, <1>9, <1>10, <1>11, <1>12, <1>13, <1>14
      DEF AccountsNext, accountsVars, AskForAccess, WindowPasses

\* As long as no request writes between another's read and its write, no sequence of
\* grants, invitations, changes of role and removals leaves an organisation without
\* an owner, for any number of people and requests.
THEOREM OwnersRemain == ASSUME ~RequestsOverlap PROVE AccountsSpec => []OwnerRemains
  <1>1. AccountsInv /\ [AccountsNext]_accountsVars => AccountsInv'
    BY AccountsInvStep
  <1>2. AccountsInv => OwnerRemains
    BY DEF AccountsInv
  <1> QED BY <1>1, <1>2, AccountsInvInitially, PTL DEF AccountsSpec

\* Under the same condition a person can always accept what they were invited to: an
\* address has one row in an organisation, and a row names only its own address.
THEOREM ClaimsSucceed == ASSUME ~RequestsOverlap PROVE AccountsSpec => []ClaimSucceeds
  <1>1. AccountsInv /\ [AccountsNext]_accountsVars => AccountsInv'
    BY AccountsInvStep
  <1>2. AccountsInv => ClaimSucceeds
    <2> SUFFICES ASSUME AccountsInv, NEW p \in People, Clash(p) PROVE FALSE
      BY DEF ClaimSucceeds
    <2>1. PICK r \in Invitations(p), s \in DOMAIN rows :
             /\ s # r /\ rows[s].org = rows[r].org
             /\ s \in Invitations(p) \/ (rows[s].user = p /\ rows[s].status # "gone")
      BY DEF Clash
    <2>2. r \in DOMAIN rows /\ rows[r].email = p /\ Stands(r)
      BY <2>1 DEF Invitations, Stands
    <2>3. rows[s].email = p /\ Stands(s)
      <3>1. rows[s] \in Member /\ p # Nobody
        BY <2>1, AccountsAssumption DEF AccountsInv, AccountsTypeOK
      <3>2. rows[s].status \in {"invited", "active", "gone"}
        BY <3>1 DEF Member
      <3> QED BY <2>1, <3>1, <3>2 DEF AccountsInv, ClaimedByOwner, Invitations, Stands
    <2> QED BY <2>1, <2>2, <2>3 DEF AccountsInv, OneRowEach
  <1> QED BY <1>1, <1>2, AccountsInvInitially, PTL DEF AccountsSpec

-----------------------------------------------------------------------------
(* The cutover.                                                            *)

\* What a step of an invocation is taken on is still so: nobody has moved the
\* row since it was loaded, and the event of a change to be saved is the newest.
Grounded ==
    \A p \in Procs :
        /\ proc[p].at = "insert" => state = "none"
        /\ proc[p].at \in {"log", "save"} =>
              proc[p].read = state /\ isValidTransition(state, proc[p].goal)
        /\ proc[p].at = "save" => lastEvent = <<state, proc[p].goal>>

Exclusive ==
    \A p, q \in Procs : InTransition(p) /\ InTransition(q) => p = q

\* The states an execution leads to, from which no command leads back.
Late == {"CUTOVER_IN_PROGRESS", "GRACE_PERIOD", "COMPLETED", "ROLLED_BACK", "FAILED"}

NobodyRestarts ==
    \A p \in Procs :
        /\ proc[p].at \in {"reactivate", "validate", "log", "save"} => proc[p].goal # "PREPARING"
        /\ proc[p].at = "dns" => state \in Late

\* The inductive invariant is CutoverTypeOK together with
SafetyInv == Exclusive /\ Grounded /\ NobodyRestarts /\ SwitchIsApproved /\ OneExecution

-----------------------------------------------------------------------------
\* The entries of VALID_TRANSITIONS that the proofs use.
LEMMA Transitions ==
    ASSUME NEW from, NEW to, isValidTransition(from, to)
    PROVE  /\ from \in States /\ to \in States
           /\ to # from
           /\ from # "COMPLETED" /\ from # "ROLLED_BACK"
           /\ from \in Late /\ to # "PREPARING" => to \in Late
           /\ to = "CUTOVER_IN_PROGRESS" => from = "APPROVED"
           /\ to = "GRACE_PERIOD" => from = "CUTOVER_IN_PROGRESS"
           /\ to = "COMPLETED" => from = "GRACE_PERIOD"
  BY DEF isValidTransition, VALID_TRANSITIONS, States, Late

\* The three commands of Steps.
LEMMA StepGoals ==
    ASSUME NEW cmd \in DOMAIN Steps
    PROVE  /\ cmd \in Commands
           /\ Steps[cmd][2] \in States \ {"PREPARING"}
  BY DEF Steps, Commands, States

USE CutoverAssumption

\* An invocation that is idle, or runs its gate or its insert, is well-typed.
LEMMA IdleProc ==
    ASSUME NEW cmd \in Commands, NEW at \in {"gate", "insert"}
    PROVE  Idle \in Proc /\ [Idle EXCEPT !.cmd = cmd, !.at = at] \in Proc
  BY DEF Idle, Proc, Commands, States

\* The types hold initially and every step keeps them.
LEMMA TypeInit == CutoverInit => CutoverTypeOK
<1> SUFFICES ASSUME CutoverInit PROVE CutoverTypeOK
  OBVIOUS
<1>1. granted \in BOOLEAN
  BY Zenon DEF CutoverInit
<1>2. proc \in [Procs -> Proc]
  <2> "verify" \in Commands BY DEF Commands
  <2> QED BY IdleProc DEF CutoverInit
<1>3. state \in States \cup {"none"} /\ mapping \in Lifecycles
  BY DEF CutoverInit, MachineInit
<1>4. lastEvent \in (States \cup {"none"}) \X (States \cup {"none"})
  BY DEF CutoverInit
<1> QED BY <1>1, <1>2, <1>3, <1>4 DEF CutoverTypeOK

\* Every step of a command, a job or the environment keeps the types.
LEMMA TypeStep == CutoverTypeOK /\ [CutoverNext]_vars => CutoverTypeOK'
<1> SUFFICES ASSUME CutoverTypeOK, [CutoverNext]_vars PROVE CutoverTypeOK'
  OBVIOUS
<1> USE DEF CutoverTypeOK, Proc, Idle, States, Commands
<1>1. ASSUME NEW p \in Procs, Begins(p) PROVE CutoverTypeOK'
  <2>1. CASE \E cmd \in {"start", "run-cutover"} : initializeCutover(p, cmd)
    <3>1. PICK cmd \in {"start", "run-cutover"} : initializeCutover(p, cmd)
      BY <2>1
    <3>2. \E r \in Proc : proc' = [proc EXCEPT ![p] = r]
      <4> DEFINE at == IF state # "none" THEN "gate" ELSE "insert"
      <4>0. cmd \in Commands /\ at \in {"gate", "insert"} OBVIOUS
      <4> HIDE DEF at, Idle, Proc, Commands
      <4>1. Idle \in Proc /\ [Idle EXCEPT !.cmd = cmd, !.at = at] \in Proc
        BY <4>0, IdleProc
      <4> USE DEF at
      <4> QED BY <3>1, <4>1 DEF initializeCutover, Initialized
    <3> QED BY <3>1, <3>2 DEF initializeCutover
  <2>2. CASE verifyCutover(p) BY <2>2, IdleProc DEF verifyCutover
  <2>4. CASE rollbackCutover(p) BY <2>4 DEF rollbackCutover
  <2>5. CASE runRollback(p) BY <2>5 DEF runRollback
  <2>3. CASE \E cmd \in {"approve", "execute", "complete"} : OperatorCommand(p, cmd)
    BY <2>3, StepGoals DEF OperatorCommand
  <2> QED BY <1>1, <2>1, <2>2, <2>3, <2>4, <2>5 DEF Begins
<1>2. ASSUME NEW p \in Procs, GoesOn(p) PROVE CutoverTypeOK'
  <2>1. CASE InsertInitial(p) BY <2>1 DEF InsertInitial, Goes
  <2>2. CASE AnnounceInitial(p) BY <2>2 DEF AnnounceInitial, Initialized
  <2>3. CASE transitionState(p) BY <2>3 DEF transitionState, Throws, Seeks, Ends
  <2>4. CASE logCutoverEvent(p) BY <2>4 DEF logCutoverEvent, Goes
  <2>5. CASE saveCutoverState(p)
    <3>1. granted' \in BOOLEAN BY Zenon, <2>5 DEF saveCutoverState
    <3>2. proc' \in [Procs -> Proc] BY <2>5 DEF saveCutoverState, Goes, Ends
    <3> QED BY <2>5, <3>1, <3>2 DEF saveCutoverState
  <2>6. CASE \E passed \in BOOLEAN : Verdict(p, passed)
    <3>1. PICK passed \in BOOLEAN : Verdict(p, passed) BY <2>6
    <3>2. Ends(p) \/ Seeks(p, "FAILED") \/ Seeks(p, "READY_FOR_CUTOVER")
      BY <3>1 DEF Verdict, Throws
    <3>3. proc' \in [Procs -> Proc] BY <3>2 DEF Seeks, Ends
    <3> QED BY <3>1, <3>3 DEF Verdict
  <2>7. CASE \E confirmed \in BOOLEAN : Propagation(p, confirmed)
    <3>1. PICK confirmed \in BOOLEAN : Propagation(p, confirmed) BY <2>7
    <3>2. Seeks(p, "GRACE_PERIOD") \/ Seeks(p, "FAILED") BY <3>1 DEF Propagation
    <3>3. proc' \in [Procs -> Proc] BY <3>2 DEF Seeks
    <3> QED BY <3>1, <3>3 DEF Propagation
  <2>8. CASE Reactivate(p) BY <2>8 DEF Reactivate, Goes, Lifecycles
  <2> QED BY <1>2, <2>1, <2>2, <2>3, <2>4, <2>5, <2>6, <2>7, <2>8 DEF GoesOn
<1>3. ASSUME NEW p \in Procs, Killed(p) PROVE CutoverTypeOK'
  BY <1>3 DEF Killed, Ends
<1>4. ASSUME NEW status \in Lifecycles, LifecycleChange(status) PROVE CutoverTypeOK'
  BY <1>4 DEF LifecycleChange
<1>5. CASE UNCHANGED vars BY <1>5 DEF vars
<1> QED BY <1>1, <1>2, <1>3, <1>4, <1>5 DEF CutoverNext

\* Type correctness, whether or not transitions overlap.
THEOREM CutoverTypeCorrect == CutoverSpec => []CutoverTypeOK
  BY TypeInit, TypeStep, PTL DEF CutoverSpec

-----------------------------------------------------------------------------
(* From here on, transitions do not overlap.                               *)

\* Only the invocation that takes the step changes.
OthersKept(p) == \A q \in Procs \ {p} : proc'[q] = proc[q]

\* A step that writes nothing and leaves its invocation outside of a transition
\* and not waiting for DNS disturbs no part of the invariant.
LEMMA QuietStep ==
    ASSUME SafetyInv, NEW p \in Procs, OthersKept(p),
           UNCHANGED <<state, lastEvent, granted>>,
           proc'[p].at \in {"idle", "gate", "reactivate", "validate"},
           proc'[p].at \in {"reactivate", "validate"} => proc'[p].goal # "PREPARING"
    PROVE  SafetyInv'
<1>1. Exclusive' BY DEF SafetyInv, Exclusive, OthersKept, InTransition
<1>2. Grounded' BY DEF SafetyInv, Grounded, OthersKept
<1>3. NobodyRestarts' BY DEF SafetyInv, NobodyRestarts, OthersKept
<1>4. SwitchIsApproved' BY DEF SafetyInv, SwitchIsApproved
<1>5. OneExecution' BY DEF SafetyInv, OneExecution, OthersKept
<1> QED BY <1>1, <1>2, <1>3, <1>4, <1>5 DEF SafetyInv

\* Nothing runs and nothing has been decided at the start.
LEMMA SafetyInit == CutoverInit => SafetyInv
  BY DEF CutoverInit, MachineInit, SafetyInv, Exclusive, Grounded, NobodyRestarts,
         SwitchIsApproved, OneExecution, InTransition, Idle

\* The command that begins is outside of a transition, or found no cutover.
LEMMA BeginStep ==
    ASSUME ~Overlapping, CutoverTypeOK, SafetyInv, NEW p \in Procs, Begins(p)
    PROVE  SafetyInv'
<1> proc \in [Procs -> Proc] BY DEF CutoverTypeOK
<1>1. CASE \E cmd \in {"start", "run-cutover"} : initializeCutover(p, cmd)
  <2>1. PICK cmd \in {"start", "run-cutover"} : initializeCutover(p, cmd) BY <1>1
  <2>2. OthersKept(p) BY <2>1 DEF initializeCutover, Initialized, OthersKept
  <2>3. CASE state # "none"
    <3>0. proc'[p] = IF cmd = "start" THEN Idle ELSE [Idle EXCEPT !.cmd = cmd, !.at = "gate"]
      BY <2>1, <2>3 DEF initializeCutover, Initialized
    <3>1. proc'[p].at \in {"idle", "gate"} BY <3>0 DEF Idle
    <3> QED BY <2>1, <2>2, <3>1, QuietStep DEF initializeCutover
  <2>4. CASE state = "none"
    <3>1. proc'[p].at = "insert" BY <2>1, <2>4 DEF initializeCutover, Idle
    <3>2. \A q \in Procs \ {p} : ~InTransition(q) BY <2>1 DEF initializeCutover, MayLoad
    <3>3. UNCHANGED <<state, lastEvent, granted>> BY <2>1 DEF initializeCutover
    <3>4. Exclusive' BY <2>2, <3>2 DEF Exclusive, OthersKept, InTransition
    <3>5. Grounded' BY <2>2, <2>4, <3>1, <3>3 DEF SafetyInv, Grounded, OthersKept
    <3>6. NobodyRestarts' BY <2>2, <3>1, <3>3 DEF SafetyInv, NobodyRestarts, OthersKept
    <3>7. SwitchIsApproved' BY <3>3 DEF SafetyInv, SwitchIsApproved
    <3>8. OneExecution' BY <2>2, <3>1 DEF SafetyInv, OneExecution, OthersKept
    <3> QED BY <3>4, <3>5, <3>6, <3>7, <3>8 DEF SafetyInv
  <2> QED BY <2>3, <2>4
<1>2. CASE verifyCutover(p)
  <2>1. OthersKept(p) /\ proc'[p].at = "gate" BY <1>2 DEF verifyCutover, OthersKept, Idle
  <2> QED BY <1>2, <2>1, QuietStep DEF verifyCutover
<1>3. CASE rollbackCutover(p)
  <2>1. OthersKept(p) /\ proc'[p].at = "validate" /\ proc'[p].goal = "ROLLED_BACK"
    BY <1>3 DEF rollbackCutover, OthersKept
  <2> QED BY <1>3, <2>1, QuietStep DEF rollbackCutover
<1>4. CASE runRollback(p)
  <2>1. OthersKept(p) /\ proc'[p].at = "reactivate" /\ proc'[p].goal = "ROLLED_BACK"
    BY <1>4 DEF runRollback, OthersKept
  <2> QED BY <1>4, <2>1, QuietStep DEF runRollback
<1>5. CASE \E cmd \in {"approve", "execute", "complete"} : OperatorCommand(p, cmd)
  <2>1. PICK cmd \in {"approve", "execute", "complete"} : OperatorCommand(p, cmd) BY <1>5
  <2>2. OthersKept(p) /\ proc'[p].at = "validate" /\ proc'[p].goal # "PREPARING"
    BY <2>1, StepGoals DEF OperatorCommand, OthersKept
  <2> QED BY <2>1, <2>2, QuietStep DEF OperatorCommand
<1> QED BY <1>1, <1>2, <1>3, <1>4, <1>5 DEF Begins

\* A transition that has begun is the only one, so the row is still as loaded.
LEMMA GoesOnStep ==
    ASSUME ~Overlapping, CutoverTypeOK, SafetyInv, NEW p \in Procs, GoesOn(p)
    PROVE  SafetyInv'
<1> proc \in [Procs -> Proc] BY DEF CutoverTypeOK
<1>1. CASE InsertInitial(p)
  <2>1. OthersKept(p) /\ proc'[p].at = "announce" /\ state' = "PREPARING"
    BY <1>1 DEF InsertInitial, Goes, OthersKept, Proc
  <2>2. InTransition(p) /\ state = "none"
    BY <1>1 DEF InsertInitial, InTransition, SafetyInv, Grounded
  <2>3. Exclusive' BY <2>1, <2>2 DEF SafetyInv, Exclusive, OthersKept, InTransition
  <2>4. Grounded'
    BY <2>1, <2>2 DEF SafetyInv, Grounded, Exclusive, OthersKept, InTransition
  <2>5. NobodyRestarts' BY <2>1, <2>2 DEF SafetyInv, NobodyRestarts, OthersKept, Late
  <2>6. SwitchIsApproved' BY <2>1 DEF SwitchIsApproved
  <2>7. OneExecution' BY <2>1 DEF SafetyInv, OneExecution, OthersKept
  <2> QED BY <2>3, <2>4, <2>5, <2>6, <2>7 DEF SafetyInv
<1>2. CASE AnnounceInitial(p)
  <2>0. proc'[p] = IF proc[p].cmd = "start" THEN Idle
                   ELSE [Idle EXCEPT !.cmd = proc[p].cmd, !.at = "gate"]
    BY <1>2 DEF AnnounceInitial, Initialized
  <2>1. OthersKept(p) /\ proc'[p].at \in {"idle", "gate"}
    BY <1>2, <2>0 DEF AnnounceInitial, Initialized, OthersKept, Idle
  <2>2. InTransition(p) /\ UNCHANGED <<state, granted>>
    BY <1>2 DEF AnnounceInitial, InTransition
  <2>3. Exclusive' BY <2>1 DEF SafetyInv, Exclusive, OthersKept, InTransition
  <2>4. Grounded'
    BY <2>1, <2>2 DEF SafetyInv, Grounded, Exclusive, OthersKept, InTransition
  <2>5. NobodyRestarts' BY <2>1, <2>2 DEF SafetyInv, NobodyRestarts, OthersKept
  <2>6. SwitchIsApproved' BY <2>2 DEF SafetyInv, SwitchIsApproved
  <2>7. OneExecution' BY <2>1 DEF SafetyInv, OneExecution, OthersKept
  <2> QED BY <2>3, <2>4, <2>5, <2>6, <2>7 DEF SafetyInv
<1>3. CASE transitionState(p)
  <2>0. UNCHANGED <<state, lastEvent, granted>> BY <1>3 DEF transitionState
  <2>1. CASE isValidTransition(state, proc[p].goal)
    <3>1. /\ OthersKept(p)
          /\ proc'[p].at = "log" /\ proc'[p].read = state /\ proc'[p].goal = proc[p].goal
      BY <1>3, <2>1 DEF transitionState, OthersKept, Proc
    <3>2. \A q \in Procs \ {p} : ~InTransition(q) BY <1>3 DEF transitionState, MayLoad
    <3>3. Exclusive' BY <3>1, <3>2 DEF Exclusive, OthersKept, InTransition
    <3>4. Grounded' BY <2>0, <2>1, <3>1 DEF SafetyInv, Grounded, OthersKept
    <3>5. NobodyRestarts'
      BY <1>3, <2>0, <3>1 DEF transitionState, SafetyInv, NobodyRestarts, OthersKept
    <3>6. SwitchIsApproved' BY <2>0 DEF SafetyInv, SwitchIsApproved
    <3>7. OneExecution' BY <3>1 DEF SafetyInv, OneExecution, OthersKept
    <3> QED BY <3>3, <3>4, <3>5, <3>6, <3>7 DEF SafetyInv
  <2>2. CASE ~isValidTransition(state, proc[p].goal)
    <3>1. Seeks(p, "FAILED") \/ Ends(p) BY <1>3, <2>2 DEF transitionState, Throws
    <3>2. /\ OthersKept(p) /\ proc'[p].at \in {"idle", "validate"}
          /\ proc'[p].at = "validate" => proc'[p].goal # "PREPARING"
      BY <3>1 DEF Seeks, Ends, OthersKept, Idle, Proc
    <3> QED BY <2>0, <3>2, QuietStep
  <2> QED BY <2>1, <2>2
<1>4. CASE logCutoverEvent(p)
  <2>1. /\ OthersKept(p) /\ proc'[p].at = "save"
        /\ proc'[p].read = proc[p].read /\ proc'[p].goal = proc[p].goal
    BY <1>4 DEF logCutoverEvent, Goes, OthersKept, Proc
  <2>2. /\ InTransition(p) /\ UNCHANGED <<state, granted>>
        /\ lastEvent' = <<proc[p].read, proc[p].goal>> /\ proc[p].at = "log"
    BY <1>4 DEF logCutoverEvent, InTransition
  <2>3. Exclusive' BY <2>1, <2>2 DEF SafetyInv, Exclusive, OthersKept, InTransition
  <2>4. Grounded'
    BY <2>1, <2>2 DEF SafetyInv, Grounded, Exclusive, OthersKept, InTransition
  <2>5. NobodyRestarts' BY <2>1, <2>2 DEF SafetyInv, NobodyRestarts, OthersKept
  <2>6. SwitchIsApproved' BY <2>2 DEF SafetyInv, SwitchIsApproved
  <2>7. OneExecution' BY <2>1 DEF SafetyInv, OneExecution, OthersKept
  <2> QED BY <2>3, <2>4, <2>5, <2>6, <2>7 DEF SafetyInv
<1>5. CASE saveCutoverState(p)
  <2> DEFINE goal == proc[p].goal
  <2>1. /\ OthersKept(p) /\ state' = goal
        /\ proc'[p].at = IF goal = "CUTOVER_IN_PROGRESS" THEN "dns" ELSE "idle"
    BY <1>5 DEF saveCutoverState, Goes, Ends, OthersKept, Idle, Proc
  <2>2. /\ InTransition(p) /\ isValidTransition(state, goal) /\ goal # "PREPARING"
    BY <1>5 DEF saveCutoverState, InTransition, SafetyInv, Grounded, NobodyRestarts
  <2>3. Exclusive' BY <2>1 DEF SafetyInv, Exclusive, OthersKept, InTransition
  <2>4. Grounded'
    BY <2>1, <2>2 DEF SafetyInv, Grounded, Exclusive, OthersKept, InTransition
  <2>5. state \in Late => goal \in Late BY <2>2, Transitions
  <2>6. NobodyRestarts'
    BY <2>1, <2>5 DEF SafetyInv, NobodyRestarts, OthersKept, Late
  <2>7. SwitchIsApproved'
    BY <1>5, <2>1, <2>2, Transitions DEF saveCutoverState, SafetyInv, SwitchIsApproved
  <2>8. OneExecution'
    <3>1. goal = "CUTOVER_IN_PROGRESS" => \A q \in Procs : proc[q].at # "dns"
      BY <2>2, Transitions DEF SafetyInv, NobodyRestarts, Late
    <3> QED BY <2>1, <3>1 DEF SafetyInv, OneExecution, OthersKept
  <2> QED BY <2>3, <2>4, <2>6, <2>7, <2>8 DEF SafetyInv
<1>6. CASE \E passed \in BOOLEAN : Verdict(p, passed)
  <2>1. PICK passed \in BOOLEAN : Verdict(p, passed) BY <1>6
  <2>2. Ends(p) \/ Seeks(p, "FAILED") \/ Seeks(p, "READY_FOR_CUTOVER")
    BY <2>1 DEF Verdict, Throws
  <2>3. /\ OthersKept(p) /\ proc'[p].at \in {"idle", "validate"}
        /\ proc'[p].at = "validate" => proc'[p].goal # "PREPARING"
    BY <2>2 DEF Seeks, Ends, OthersKept, Idle, Proc
  <2> QED BY <2>1, <2>3, QuietStep DEF Verdict
<1>7. CASE \E confirmed \in BOOLEAN : Propagation(p, confirmed)
  <2>1. PICK confirmed \in BOOLEAN : Propagation(p, confirmed) BY <1>7
  <2>2. Seeks(p, "GRACE_PERIOD") \/ Seeks(p, "FAILED") BY <2>1 DEF Propagation
  <2>3. OthersKept(p) /\ proc'[p].at = "validate" /\ proc'[p].goal # "PREPARING"
    BY <2>2 DEF Seeks, OthersKept, Proc
  <2> QED BY <2>1, <2>3, QuietStep DEF Propagation
<1>8. CASE Reactivate(p)
  <2>1. OthersKept(p) /\ proc'[p].at = "validate" /\ proc'[p].goal # "PREPARING"
    BY <1>8 DEF Reactivate, Goes, OthersKept, Proc, SafetyInv, NobodyRestarts
  <2> QED BY <1>8, <2>1, QuietStep DEF Reactivate
<1> QED BY <1>1, <1>2, <1>3, <1>4, <1>5, <1>6, <1>7, <1>8 DEF GoesOn

\* Every step keeps the invariant.
LEMMA SafetyStep ==
    ASSUME ~Overlapping, CutoverTypeOK, SafetyInv, [CutoverNext]_vars
    PROVE  SafetyInv'
<1> proc \in [Procs -> Proc] BY DEF CutoverTypeOK
<1>1. ASSUME NEW p \in Procs, Killed(p) PROVE SafetyInv'
  <2>1. OthersKept(p) /\ proc'[p].at = "idle" BY <1>1 DEF Killed, Ends, OthersKept, Idle
  <2> QED BY <1>1, <2>1, QuietStep DEF Killed
<1>2. ASSUME UNCHANGED <<state, lastEvent, granted, proc>> PROVE SafetyInv'
  BY <1>2 DEF SafetyInv, Exclusive, Grounded, NobodyRestarts, SwitchIsApproved,
              OneExecution, InTransition
<1> QED BY <1>1, <1>2, BeginStep, GoesOnStep DEF CutoverNext, LifecycleChange, vars

\* The inductive invariant holds throughout when commands and jobs do not overlap.
THEOREM CutoverInvariant ==
    ASSUME ~Overlapping
    PROVE  CutoverSpec => [](CutoverTypeOK /\ SafetyInv)
<1>1. CutoverInit => CutoverTypeOK /\ SafetyInv BY TypeInit, SafetyInit
<1>2. CutoverTypeOK /\ SafetyInv /\ [CutoverNext]_vars => (CutoverTypeOK /\ SafetyInv)'
  BY TypeStep, SafetyStep
<1> QED BY <1>1, <1>2, PTL DEF CutoverSpec

\* Traffic is switched only under an approval given after the latest verdict.
THEOREM CutoverIsApproved ==
    ASSUME ~Overlapping PROVE CutoverSpec => []SwitchIsApproved
<1>1. SafetyInv => SwitchIsApproved BY DEF SafetyInv
<1> QED BY <1>1, CutoverInvariant, PTL

\* Two executions of `execute` never wait for DNS at once.
THEOREM CutoverIsExecutedOnce ==
    ASSUME ~Overlapping PROVE CutoverSpec => []OneExecution
<1>1. SafetyInv => OneExecution BY DEF SafetyInv
<1> QED BY <1>1, CutoverInvariant, PTL

\* What a step may do to the row: create it, or move it along the machine with
\* the event of that very move as the newest of the trail.
LEMMA RowStep ==
    ASSUME CutoverTypeOK, SafetyInv, [CutoverNext]_vars
    PROVE  \/ UNCHANGED state
           \/ state = "none" /\ state' = "PREPARING"
           \/ isValidTransition(state, state') /\ lastEvent = <<state, state'>>
<1>1. ASSUME NEW p \in Procs, Begins(p) PROVE UNCHANGED state
  BY <1>1 DEF Begins, initializeCutover, verifyCutover, rollbackCutover, runRollback,
              OperatorCommand
<1>2. ASSUME NEW p \in Procs, InsertInitial(p) PROVE state = "none" /\ state' = "PREPARING"
  BY <1>2 DEF InsertInitial, SafetyInv, Grounded
<1>3. ASSUME NEW p \in Procs, saveCutoverState(p)
      PROVE  isValidTransition(state, state') /\ lastEvent = <<state, state'>>
  BY <1>3 DEF saveCutoverState, SafetyInv, Grounded
<1>4. ASSUME NEW p \in Procs, GoesOn(p), ~InsertInitial(p), ~saveCutoverState(p)
      PROVE  UNCHANGED state
  BY <1>4 DEF GoesOn, AnnounceInitial, transitionState, logCutoverEvent, Verdict,
              Propagation, Reactivate
<1>5. ASSUME NEW p \in Procs, Killed(p) PROVE UNCHANGED state BY <1>5 DEF Killed
<1> QED BY <1>1, <1>2, <1>3, <1>4, <1>5 DEF CutoverNext, LifecycleChange, vars

\* The commands and jobs implement the state machine.
THEOREM CutoverImplementsMachine ==
    ASSUME ~Overlapping PROVE CutoverSpec => ObeysMachine
<1>1. CutoverInit => MachineInit BY DEF CutoverInit
<1>2. CutoverTypeOK /\ SafetyInv /\ [CutoverNext]_vars => [MachineNext]_state
  BY RowStep DEF MachineNext
<1> QED BY <1>1, <1>2, CutoverInvariant, PTL DEF CutoverSpec, ObeysMachine, MachineSpec

\* Each change of the row is the one its newest event announces.
THEOREM CutoverIsAudited ==
    ASSUME ~Overlapping PROVE CutoverSpec => ChangesAreAudited
<1>1. CutoverTypeOK /\ SafetyInv /\ [CutoverNext]_vars =>
        [(state' # state /\ state # "none") => (lastEvent = <<state, state'>>)]_vars
  BY RowStep
<1> QED BY <1>1, CutoverInvariant, PTL DEF CutoverSpec, ChangesAreAudited

\* COMPLETED and ROLLED_BACK are final.
THEOREM CutoverTerminalStands ==
    ASSUME ~Overlapping PROVE CutoverSpec => TerminalStands
<1>1. CutoverTypeOK /\ SafetyInv /\ [CutoverNext]_vars =>
        [(state \in {"COMPLETED", "ROLLED_BACK"}) => (state' = state)]_vars
  BY RowStep, Transitions
<1> QED BY <1>1, CutoverInvariant, PTL DEF CutoverSpec, TerminalStands

=============================================================================
