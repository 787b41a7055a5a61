-------------------------------- MODULE Setup --------------------------------
(***************************************************************************)
(* How a migration comes to exist in the managed service, and what its     *)
(* passes then open.  An administrator fills in the wizard                 *)
(* (apps/web/src/pages/CreateMapping.tsx), which tests and saves each side *)
(* as a stored connection; the connections page adds, tests, rotates and   *)
(* deletes connections (apps/api/src/routes/connections.ts); creating the  *)
(* mapping makes or reuses one connection per side                         *)
(* (apps/api/src/routes/migrations/index.ts); every pass rebuilds its      *)
(* source and target from those rows                                       *)
(* (packages/orchestration/src/build-deps-from-mapping.ts).                *)
(*                                                                         *)
(* Requests of the wizard and of the page overlap: a probe takes as long   *)
(* as the provider takes, and the form may change under it.  What is typed *)
(* is the set of fields that are filled in, the account named, and whether *)
(* the provider would take the credential.  The rest of the wording, the   *)
(* folder to start from and the target account are left out.               *)
(***************************************************************************)
EXTENDS Integers, FiniteSets

CONSTANTS
    SourceTypes, TargetTypes,   \* the kinds of source and target offered
    Entries,                    \* what may be typed on each type's fields
    Prefixes,                   \* target folder prefixes, "" for none
    MaxConns, MaxMaps,
    MaxEdits, MaxVisits         \* edits of the form; uses of the connections page

Accounts == {"ann", "bob"}
Sides == {"source", "target"}
Domains == {"email", "calendar", "contact", "file"}
GoogleTypes == {"google-drive", "gmail", "google-calendar", "google-contacts"}
O365Types == {"graph", "oauth2"}
AllSourceTypes == GoogleTypes \cup O365Types \cup {"imap", "dropbox", "box"}
AllTargetTypes == {"jmap", "imap", "caldav", "carddav", "webdav"}
Consent == {"clientId", "clientSecret", "refreshToken"}
App == {"tenantId", "clientId", "clientSecret"}

\* What is typed: the fields filled in, the account, the Box user, and whether
\* the provider accepts the credential.
Values == [keys: SUBSET (Consent \cup App \cup {"host", "port", "password", "serviceAccountKey"}),
           user: Accounts \cup {""}, userId: Accounts \cup {""}, works: BOOLEAN]
Blank == [keys |-> {}, user |-> "", userId |-> "", works |-> FALSE]

ASSUME SetupAssumption ==
    /\ SourceTypes \subseteq AllSourceTypes /\ TargetTypes \subseteq AllTargetTypes
    /\ Entries \in [Sides -> [AllSourceTypes \cup AllTargetTypes -> SUBSET Values]]
    /\ {MaxConns, MaxMaps, MaxEdits, MaxVisits} \subseteq Nat

VARIABLES
    conns,      \* the connection table, by id; a deleted row stays as a ghost
    boxes,      \* primaryAddress of each connection's one mailbox, "none" without
    maps,       \* the mappings, by id
    form,       \* the wizard's form, and the connections its tests have saved
    request,    \* the request each page has under way
    deleting,   \* the connection a delete has found unused and is about to delete
    edits, visits

vars == <<conns, boxes, maps, form, request, deleting, edits, visits>>

Ids == 1 .. MaxConns
MapIds == 1 .. MaxMaps
None == [role |-> "none"]
NoMap == [src |-> 0]
NoRequest == [op |-> "none"]

Live(id) == id # 0 /\ conns[id].role # "none" /\ conns[id].live
Fresh == {id \in Ids : conns[id] = None}

-----------------------------------------------------------------------------
(* What each type of connection is made of.                                *)

sourceKindFor(t) ==
    CASE t = "google-drive" -> "google_drive"
      [] t = "google-calendar" -> "google_calendar"
      [] t = "google-contacts" -> "google_contacts"
      [] t \in O365Types -> "o365"
      [] OTHER -> t

\* The type of field list a stored kind is edited with.
wizardTypeForConnectionKind(k) ==
    CASE k = "google_drive" -> "google-drive"
      [] k = "google_calendar" -> "google-calendar"
      [] k = "google_contacts" -> "google-contacts"
      [] k = "o365" -> "graph"
      [] OTHER -> k

KindOf(side, t) == IF side = "source" THEN sourceKindFor(t) ELSE t

\* The fields the connections page insists on.
SOURCE_FIELDS(t) ==
    CASE t = "box" -> {"username", "clientId", "clientSecret", "userId"}
      [] t = "dropbox" -> {"username"} \cup Consent
      [] t \in GoogleTypes -> {"username"}
      [] t \in O365Types -> {"username"} \cup App
      [] t = "imap" -> {"host", "port", "username", "password"}
TARGET_FIELDS == {"host", "port", "username", "password"}
credentialFieldsFor(side, t) == IF side = "source" THEN SOURCE_FIELDS(t) ELSE TARGET_FIELDS

Given(v) == v.keys \cup (IF v.user = "" THEN {} ELSE {"username"})
                   \cup (IF v.userId = "" THEN {} ELSE {"userId"})

SOURCE_TYPE_DOMAINS(t) ==
    CASE t \in {"google-drive", "dropbox", "box"} -> {"file"}
      [] t = "gmail" -> {"email"}
      [] t = "google-calendar" -> {"calendar"}
      [] t = "google-contacts" -> {"contact"}
      [] OTHER -> Domains
TARGET_TYPE_DOMAINS(t) ==
    CASE t = "jmap" -> {"email", "contact", "file"}
      [] t = "imap" -> {"email"}
      [] t = "caldav" -> {"calendar"}
      [] t = "carddav" -> {"contact"}
      [] t = "webdav" -> {"file"}
sourceDomainRefusal(t, ds) == ~(ds \subseteq SOURCE_TYPE_DOMAINS(t))
targetDomainRefusal(t, ds) == ~(ds \subseteq TARGET_TYPE_DOMAINS(t))

\* What is encrypted: the field names kept, whose login it is, whether it works.
sourceCredentialRecord(t, v) ==
    [works |-> v.works,
     who |-> IF t \in O365Types \cup {"imap"} \/ "serviceAccountKey" \in v.keys THEN v.user ELSE "",
     keys |-> CASE t = "imap" -> v.keys \cap {"password"}
                [] t = "box" -> v.keys \cap {"clientId", "clientSecret"}
                [] t \in O365Types -> v.keys \cap App
                [] OTHER -> v.keys \cap (Consent \cup {"serviceAccountKey"})]
targetCredentialRecord(v) ==
    [works |-> v.works, who |-> v.user, keys |-> v.keys \cap {"password"}]
CredentialRecord(side, t, v) ==
    IF side = "source" THEN sourceCredentialRecord(t, v) ELSE targetCredentialRecord(v)

\* What is stored in the clear: the type, the account, the server.
sourceConnectionConfig(t, v) ==
    [type |-> CASE t = "graph" -> "graph-mail" [] t \in {"oauth2", "imap"} -> "imap-oauth2" [] OTHER -> t,
     user |-> IF t \in {"google-drive", "dropbox", "box"} THEN "" ELSE v.user,
     userId |-> IF t = "box" THEN v.userId ELSE "",
     host |-> t = "oauth2" \/ (t = "imap" /\ "host" \in v.keys)]
\* A DAV target has no type; the connections page passes none for the others either.
targetConnectionConfig(t, v) ==
    [type |-> CASE t = "jmap" -> "jmap" [] t = "imap" -> "imap-dav" [] OTHER -> "none",
     user |-> IF t \in {"jmap", "imap"} THEN v.user ELSE "", userId |-> "", host |-> TRUE]

Row(side, kind, config, creds, status, with) ==
    [role |-> side, kind |-> kind, config |-> config, creds |-> creds,
     status |-> status, with |-> with, live |-> TRUE]

-----------------------------------------------------------------------------
(* Opening a connection.                                                   *)

\* A service account's key impersonates the user named, or none at all.
dwdTokenProviderIfConfigured(creds, user) == "serviceAccountKey" \in creds.keys /\ user # ""
GoogleOpens(creds, user) ==
    IF "serviceAccountKey" \in creds.keys THEN dwdTokenProviderIfConfigured(creds, user)
    ELSE Consent \subseteq creds.keys

buildGmailSourceFrom(config, creds) == GoogleOpens(creds, config.user) /\ config.user # ""
buildGoogleDavSourceFrom(config, creds) == GoogleOpens(creds, config.user) /\ config.user # ""
buildGoogleDriveSourceFrom(creds) == GoogleOpens(creds, creds.who)
buildDropboxSourceFrom(creds) == Consent \subseteq creds.keys
buildBoxSourceFrom(config, creds) == {"clientId", "clientSecret"} \subseteq creds.keys /\ config.userId # ""
buildImapSource(creds) == "password" \in creds.keys \/ App \subseteq creds.keys
buildGraphMailSource(creds) == {"clientId", "clientSecret"} \subseteq creds.keys
davEndpointFromCreds(config, creds) == creds.who # "" /\ "password" \in creds.keys /\ config.host

buildSourceConnectorFromCredentials(config, creds) ==
    CASE config.type = "graph-mail" -> buildGraphMailSource(creds)
      [] config.type = "gmail" -> buildGmailSourceFrom(config, creds)
      [] config.type = "imap-oauth2" -> buildImapSource(creds)
      [] OTHER -> FALSE

buildFileSourceFromConnection(kind, config, creds) ==
    CASE kind = "dropbox" -> buildDropboxSourceFrom(creds)
      [] kind = "box" -> buildBoxSourceFrom(config, creds)
      [] kind = "google_drive" -> buildGoogleDriveSourceFrom(creds)
      [] OTHER -> davEndpointFromCreds(config, creds)

buildTargetWriterFromCredentials(config, creds) ==
    config.type \in {"jmap", "imap-dav"} /\ "password" \in creds.keys

\* The probe builds what a pass would build, and asks the provider.
probeSourceConnection(kind, config, creds) ==
    /\ CASE kind = "gmail" -> buildGmailSourceFrom(config, creds)
         [] kind \in {"google_drive", "dropbox", "box"} -> buildFileSourceFromConnection(kind, config, creds)
         [] kind \in {"google_calendar", "google_contacts"} -> buildGoogleDavSourceFrom(config, creds)
         [] kind \in {"imap", "o365"} -> buildSourceConnectorFromCredentials(config, creds)
    /\ creds.works
\* A JMAP target is asked at its baseUrl, which only a config with a type has.
probeTargetConnection(kind, config, creds) ==
    /\ CASE kind = "jmap" -> config.type = "jmap"
         [] kind = "imap" -> TRUE
         [] OTHER -> davEndpointFromCreds(config, creds)
    /\ creds.works
Probe(side, kind, config, creds) ==
    IF side = "source" THEN probeSourceConnection(kind, config, creds)
    ELSE probeTargetConnection(kind, config, creds)

-----------------------------------------------------------------------------
(* What a pass opens.                                                      *)

\* The connection of a mapping's mailbox, else any one of that role.
viaMailbox(id, side) ==
    IF Live(id) THEN {id} ELSE {i \in Ids : Live(i) /\ conns[i].role = side}

\* A variant that reads the connection as it stands.
OverlaidNever(config, over) == config
\* A DAV pass lays the mapping's own values over the connection's.
Overlaid(config, over) ==
    [config EXCEPT !.user = IF over.user # "" THEN over.user ELSE @,
                   !.userId = IF over.userId # "" THEN over.userId ELSE @]

\* A mail pass reads the connection as it stands.
buildDepsFromMapping(s, t) ==
    /\ buildSourceConnectorFromCredentials(conns[s].config, conns[s].creds)
    /\ buildTargetWriterFromCredentials(conns[t].config, conns[t].creds)

buildDomainDepsFromMapping(m, d, s, t) ==
    LET kind == conns[s].kind
        config == Overlaid(conns[s].config, m.over)
    IN /\ IF d = "file" THEN buildFileSourceFromConnection(kind, config, conns[s].creds)
          ELSE IF kind = (IF d = "calendar" THEN "google_calendar" ELSE "google_contacts")
          THEN buildGoogleDavSourceFrom(config, conns[s].creds)
          ELSE davEndpointFromCreds(config, conns[s].creds)
       /\ davEndpointFromCreds(conns[t].config, conns[t].creds)

Opens(m, d) ==
    \A s \in viaMailbox(m.src, "source"), t \in viaMailbox(m.tgt, "target") :
        IF d = "email" THEN buildDepsFromMapping(s, t) ELSE buildDomainDepsFromMapping(m, d, s, t)

\* Whose data a pass reads.
Reads(m, d) ==
    LET c == conns[m.src]
        config == Overlaid(c.config, m.over)
    IN CASE d = "email" -> c.config.user
         [] c.kind \in {"google_calendar", "google_contacts"} -> config.user
         [] c.kind = "box" -> config.userId
         [] OTHER -> c.creds.who

-----------------------------------------------------------------------------
(* The wizard.                                                             *)

Edited == edits < MaxEdits /\ edits' = edits + 1 /\ UNCHANGED visits
Visited == visits < MaxVisits /\ visits' = visits + 1 /\ UNCHANGED edits
Blanked(v) == [Blank EXCEPT !.user = v.user]

\* Another provider clears what was typed for the last one, save the account.
clearedSourceFields(t) ==
    IF form.type.source = t THEN form
    ELSE [form EXCEPT !.typed.source = Blanked(@), !.conn.source = 0]

\* A source that carries one kind of data moves the target to one that takes it.
TargetFor(t, tgt) ==
    CASE t \in {"google-drive", "dropbox", "box"} -> IF tgt \in {"jmap", "webdav"} THEN tgt ELSE "webdav"
      [] t = "gmail" -> IF tgt \in {"jmap", "imap"} THEN tgt ELSE "jmap"
      [] t = "google-calendar" -> "caldav"
      [] t = "google-contacts" -> IF tgt \in {"jmap", "carddav"} THEN tgt ELSE "carddav"
      [] OTHER -> tgt

ChooseSourceType(t) ==
    /\ Edited
    /\ form' = [clearedSourceFields(t) EXCEPT !.type.source = t,
                                              !.type.target = TargetFor(t, form.type.target)]
    /\ UNCHANGED <<conns, boxes, maps, request, deleting>>

\* Choosing a target type clears nothing.
ChooseTargetType(t) ==
    /\ Edited
    /\ form' = [form EXCEPT !.type.target = t]
    /\ UNCHANGED <<conns, boxes, maps, request, deleting>>

\* With a stored connection chosen, only what is the mapping's own is asked.
Type(side, v) ==
    /\ Edited
    /\ form' = [form EXCEPT !.typed[side] =
                    IF form.conn[side] = 0 THEN v ELSE [@ EXCEPT !.userId = v.userId]]
    /\ UNCHANGED <<conns, boxes, maps, request, deleting>>

\* The list offered may be older than a deletion.
ConnectionPicker(side, id) ==
    /\ Edited
    /\ id # 0 => conns[id].role = side /\ conns[id].kind = KindOf(side, form.type[side])
    /\ form' = [form EXCEPT !.conn[side] = id]
    /\ UNCHANGED <<conns, boxes, maps, request, deleting>>

\* The page loaded again: the draft keeps no secret and no unfinished test.
WithoutSecrets(v) == [v EXCEPT !.keys = @ \cap {"host", "port", "tenantId"}]
restoreDraft ==
    /\ Edited
    /\ form' = [form EXCEPT !.typed = [side \in Sides |-> WithoutSecrets(form.typed[side])],
                            !.draft = [side \in Sides |-> 0]]
    /\ request' = [request EXCEPT !.wizard = IF @.op = "none" THEN @ ELSE [@ EXCEPT !.heard = FALSE]]
    /\ UNCHANGED <<conns, boxes, maps, deleting>>

\* The fields the form sends for its type.
Sent(t) ==
    CASE t = "dropbox" -> Consent
      [] t = "box" -> {"clientId", "clientSecret"}
      [] t \in GoogleTypes -> Consent \cup {"serviceAccountKey"}
      [] t \in O365Types -> App
      [] OTHER -> {"host", "port", "password"}
builtSourceConfig ==
    [form.typed.source EXCEPT !.keys = @ \cap Sent(form.type.source),
                              !.userId = IF form.type.source = "box" THEN @ ELSE ""]
\* The fields a test sends: those the connections page would ask for.
credentialValuesFor(side) ==
    IF side = "source" THEN builtSourceConfig ELSE form.typed.target

sideStepMissing(side) ==
    LET t == form.type[side]
        v == form.typed[side]
        need == CASE side = "target" -> TARGET_FIELDS
                  [] t = "dropbox" -> {"username"} \cup Consent
                  [] t = "box" -> {"username", "clientId", "clientSecret", "userId"}
                  [] t \in GoogleTypes -> {"username"} \cup
                        (IF "serviceAccountKey" \in v.keys THEN {} ELSE Consent)
                  [] t \in O365Types -> {"username"} \cup App
                  [] OTHER -> {"username", "host", "port"}
    IN IF form.conn[side] # 0 THEN {} ELSE need \ Given(v)

canProceed(domains) ==
    /\ \A side \in Sides : sideStepMissing(side) = {}
    /\ domains # {}
    /\ ~targetDomainRefusal(form.type.target, domains)
    /\ ~sourceDomainRefusal(form.type.source, domains)

-----------------------------------------------------------------------------
(* Testing, adding and rotating connections.                               *)

Free(who) == request[who].op = "none"
Ask(who, op, side, id, t, v) ==
    request' = [request EXCEPT ![who] =
        [op |-> op, side |-> side, id |-> id, type |-> t, values |-> v, heard |-> TRUE,
         row |-> IF id = 0 THEN None ELSE conns[id]]]

\* The wizard's test: of the chosen connection, else again of the one it saved, else a new one.
saveSide(side) ==
    /\ Free("wizard")
    /\ LET v == credentialValuesFor(side)
           t == form.type[side]
       IN \/ /\ form.conn[side] # 0
             /\ Ask("wizard", "test", side, form.conn[side], t, v)
          \/ /\ form.conn[side] = 0 /\ form.draft[side] # 0
             /\ Ask("wizard", "rotate", side, form.draft[side], t, v)
          \/ /\ form.conn[side] = 0 /\ form.draft[side] = 0
             /\ Ask("wizard", "add", side, 0, t, v)
    /\ UNCHANGED <<conns, boxes, maps, form, deleting, edits, visits>>

\* The connections page.
PageAdd(side, t, v) ==
    /\ Free("page") /\ Visited
    /\ Ask("page", "add", side, 0, t, v)
    /\ UNCHANGED <<conns, boxes, maps, form, deleting>>
PageTest(id) ==
    /\ Free("page") /\ Live(id) /\ Visited
    /\ Ask("page", "test", conns[id].role, id, "", Blank)
    /\ UNCHANGED <<conns, boxes, maps, form, deleting>>
PageRotate(id, v) ==
    /\ Free("page") /\ Live(id) /\ Visited
    /\ Ask("page", "rotate", conns[id].role, id, "", v)
    /\ UNCHANGED <<conns, boxes, maps, form, deleting>>

Answered(who) == request' = [request EXCEPT ![who] = NoRequest]
Heard(who) == who = "wizard" /\ request[who].heard

\* Refused before anything is probed: no such row, or a required field is empty.
Refuse(who) ==
    LET a == request[who]
    IN /\ \/ a.op = "add" /\ ~(credentialFieldsFor(a.side, a.type) \subseteq Given(a.values))
          \/ a.op \in {"test", "rotate"} /\ ~a.row.live
          \/ /\ a.op = "rotate"
             /\ ~(credentialFieldsFor(a.side, wizardTypeForConnectionKind(a.row.kind)) \subseteq Given(a.values))
       /\ Answered(who)
       /\ UNCHANGED <<conns, boxes, maps, form, deleting, edits, visits>>

\* Stored either way, with the outcome; the wizard goes on with one that works.
Add(who) ==
    LET a == request[who]
        kind == KindOf(a.side, a.type)
        config == IF a.side = "source" THEN sourceConnectionConfig(a.type, a.values)
                  ELSE targetConnectionConfig("", a.values)
        creds == CredentialRecord(a.side, a.type, a.values)
        ok == Probe(a.side, kind, config, creds)
    IN /\ a.op = "add" /\ credentialFieldsFor(a.side, a.type) \subseteq Given(a.values)
       /\ \E id \in Fresh :
            /\ \A i \in Fresh : id <= i
            /\ conns' = [conns EXCEPT ![id] =
                    Row(a.side, kind, config, creds, IF ok THEN "connected" ELSE "error", 0)]
            /\ form' = IF ~Heard(who) THEN form
                       ELSE [form EXCEPT !.draft[a.side] = id, !.conn[a.side] = IF ok THEN id ELSE @]
       /\ Answered(who)
       /\ UNCHANGED <<boxes, maps, deleting, edits, visits>>

\* The outcome is about the row as it was read.
Test(who) ==
    LET a == request[who]
        ok == Probe(a.row.role, a.row.kind, a.row.config, a.row.creds)
    IN /\ a.op = "test" /\ a.row.live
       /\ conns' = [conns EXCEPT ![a.id].status = IF ok THEN "connected" ELSE "error"]
       /\ Answered(who)
       /\ UNCHANGED <<boxes, maps, form, deleting, edits, visits>>

\* A variant that replaces the credential whatever the provider said of it.
RotatedAnyway(a, creds) == [conns EXCEPT ![a.id].creds = creds, ![a.id].status = "connected"]
\* The credential replaced, when the provider takes the new one.
Rotated(a, creds) ==
    IF Probe(a.row.role, a.row.kind, a.row.config, creds)
    THEN [conns EXCEPT ![a.id].creds = creds, ![a.id].status = "connected"] ELSE conns

\* Probed first; only the credential changes.
Rotate(who) ==
    LET a == request[who]
        t == wizardTypeForConnectionKind(a.row.kind)
        creds == CredentialRecord(a.side, t, a.values)
    IN /\ a.op = "rotate" /\ a.row.live
       /\ credentialFieldsFor(a.side, t) \subseteq Given(a.values)
       /\ conns' = Rotated(a, creds)
       /\ form' = IF Heard(who) /\ Probe(a.row.role, a.row.kind, a.row.config, creds)
                  THEN [form EXCEPT !.conn[a.side] = a.id] ELSE form
       /\ Answered(who)
       /\ UNCHANGED <<boxes, maps, deleting, edits, visits>>

-----------------------------------------------------------------------------
(* Deleting a connection: the users are looked for, then the row goes.     *)

Users(id) == {m \in MapIds : maps[m].src # 0 /\ id \in {maps[m].src, maps[m].tgt}}

DeleteConnectionChecks(id) ==
    /\ deleting = 0 /\ Live(id) /\ Users(id) = {} /\ Visited
    /\ deleting' = id
    /\ UNCHANGED <<conns, boxes, maps, form, request>>

\* Its mailbox goes with it; so does a mapping that reads it, and one that writes
\* there loses its target.
DeleteConnection ==
    /\ deleting # 0
    /\ conns' = [conns EXCEPT ![deleting].live = FALSE]
    /\ boxes' = [boxes EXCEPT ![deleting] = "none"]
    /\ maps' = [m \in MapIds |-> CASE maps[m].src = deleting -> NoMap
                                   [] maps[m].src # deleting /\ maps[m].src # 0 /\ maps[m].tgt = deleting
                                        -> [maps[m] EXCEPT !.tgt = 0]
                                   [] OTHER -> maps[m]]
    /\ deleting' = 0
    /\ UNCHANGED <<form, request, edits, visits>>

-----------------------------------------------------------------------------
(* Creating the mapping.                                                   *)

\* A reused connection needs only its Box user named.
ReusedSourceNamed(t, v) == t = "box" => v.userId # ""
\* A new one needs the fields of its type.
NewSourceComplete(t, v) ==
    CASE t = "google-drive" -> IF "serviceAccountKey" \in v.keys THEN v.user # "" ELSE Consent \subseteq v.keys
      [] t \in GoogleTypes \ {"google-drive"} -> "serviceAccountKey" \in v.keys \/ Consent \subseteq v.keys
      [] t = "dropbox" -> Consent \subseteq v.keys
      [] t = "box" -> {"clientId", "clientSecret"} \subseteq v.keys /\ v.userId # ""
      [] t = "imap" -> {"host", "port"} \subseteq v.keys
      [] OTHER -> App \subseteq v.keys
\* What data a source carries is asked of a new one only.
CreateMappingSchema(v, domains) ==
    /\ IF form.conn.source # 0 THEN ReusedSourceNamed(form.type.source, v)
       ELSE NewSourceComplete(form.type.source, v) /\ ~sourceDomainRefusal(form.type.source, domains)
    /\ ~targetDomainRefusal(form.type.target, domains)

\* A variant that takes any stored connection of the right role.
reuseAnyConnection(side) ==
    Live(form.conn[side]) /\ conns[form.conn[side]].role = side
\* The stored connection must be there, of that role and of that kind.
reuseConnection(side) ==
    /\ Live(form.conn[side])
    /\ conns[form.conn[side]].role = side
    /\ conns[form.conn[side]].kind = KindOf(side, form.type[side])

\* The mapping's own values, over a reused connection.
sourceConfigOverride(v) ==
    IF form.conn.source = 0 THEN [user |-> "", userId |-> ""]
    ELSE [user |-> IF form.type.source \in {"google-drive", "dropbox", "box"} THEN "" ELSE v.user,
          userId |-> IF form.type.source = "box" THEN v.userId ELSE ""]

NewRow(side, v, m) ==
    LET t == form.type[side]
    IN Row(side, KindOf(side, t),
           IF side = "source" THEN sourceConnectionConfig(t, v) ELSE targetConnectionConfig(t, v),
           CredentialRecord(side, t, v), "untested", m)

\* The connections with the new sides among them.
WithNewRows(new, id, body, m) ==
    [i \in Ids |-> IF \E side \in new : id[side] = i
                   THEN LET side == CHOOSE side \in new : id[side] = i
                        IN NewRow(side, body[side], m)
                   ELSE conns[i]]

\* One mailbox per connection; its address is the last one a body named.
mailboxFor(bs, id, user) ==
    [bs EXCEPT ![id] = IF @ = "none" \/ user # "" THEN user ELSE @]

\* The same two mailboxes into the same place.
DuplicateMapping(s, t, prefix) ==
    \E m \in MapIds : maps[m].src = s /\ maps[m].tgt = t /\ maps[m].prefix = prefix

\* One transaction: a connection per side made or reused, and the mapping stored.
CreateMapping(m, body, domains, prefix) ==
    LET v == body.source
        new == {side \in Sides : form.conn[side] = 0}
    IN /\ maps[m] = NoMap
       /\ CreateMappingSchema(v, domains)
       /\ \A side \in Sides \ new : reuseConnection(side)
       /\ \E id \in [Sides -> Ids] :
            /\ \A side \in Sides : IF side \in new THEN id[side] \in Fresh ELSE id[side] = form.conn[side]
            /\ new = Sides => id.source < id.target
            /\ ~DuplicateMapping(id.source, id.target, prefix)
            /\ conns' = WithNewRows(new, id, body, m)
            /\ boxes' = mailboxFor(mailboxFor(boxes, id.source, v.user), id.target, body.target.user)
            /\ maps' = [maps EXCEPT ![m] =
                    [src |-> id.source, tgt |-> id.target, prefix |-> prefix, domains |-> domains,
                     over |-> sourceConfigOverride(v), said |-> [user |-> v.user, userId |-> v.userId],
                     meant |-> id.target]]

\* The last step of the wizard sends the form; a mapping made clears it.
handleNext(m, domains, prefix) ==
    /\ canProceed(domains)
    /\ CreateMapping(m, [source |-> builtSourceConfig, target |-> form.typed.target], domains, prefix)
    /\ form' = [form EXCEPT !.typed = [side \in Sides |-> Blank], !.conn = [side \in Sides |-> 0],
                            !.draft = [side \in Sides |-> 0]]
    /\ request' = [request EXCEPT !.wizard = IF @.op = "none" THEN @ ELSE [@ EXCEPT !.heard = FALSE]]
    /\ UNCHANGED <<deleting, edits, visits>>

\* Deleting a mapping leaves its mailboxes and its connections.
DeleteMapping(m) ==
    /\ maps[m] # NoMap /\ Visited
    /\ maps' = [maps EXCEPT ![m] = NoMap]
    /\ UNCHANGED <<conns, boxes, form, request, deleting>>

-----------------------------------------------------------------------------

SetupInit ==
    /\ conns = [id \in Ids |-> None]
    /\ boxes = [id \in Ids |-> "none"]
    /\ maps = [m \in MapIds |-> NoMap]
    /\ \E s \in SourceTypes, t \in TargetTypes :
        form = [type |-> [source |-> s, target |-> t], typed |-> [side \in Sides |-> Blank],
                conn |-> [side \in Sides |-> 0], draft |-> [side \in Sides |-> 0]]
    /\ request = [who \in {"wizard", "page"} |-> NoRequest]
    /\ deleting = 0
    /\ edits = 0
    /\ visits = 0

SetupNext ==
    \/ \E t \in SourceTypes : ChooseSourceType(t)
    \/ \E t \in TargetTypes : ChooseTargetType(t)
    \/ \E side \in Sides : \E v \in Entries[side][form.type[side]] : Type(side, v)
    \/ \E side \in Sides, id \in {0} \cup Ids : ConnectionPicker(side, id)
    \/ restoreDraft
    \/ \E side \in Sides : saveSide(side)
    \/ \E side \in Sides : \E t \in IF side = "source" THEN SourceTypes ELSE TargetTypes :
            \E v \in Entries[side][t] : PageAdd(side, t, v)
    \/ \E id \in Ids : PageTest(id)
    \/ \E id \in {i \in Ids : Live(i)} :
            \E v \in Entries[conns[id].role][wizardTypeForConnectionKind(conns[id].kind)] : PageRotate(id, v)
    \/ \E who \in {"wizard", "page"} : Refuse(who) \/ Add(who) \/ Test(who) \/ Rotate(who)
    \/ \E id \in Ids : DeleteConnectionChecks(id)
    \/ DeleteConnection
    \/ \E m \in MapIds, domains \in SUBSET Domains, prefix \in Prefixes : handleNext(m, domains, prefix)
    \/ \E m \in MapIds : DeleteMapping(m)

SetupSpec == SetupInit /\ [][SetupNext]_vars

-----------------------------------------------------------------------------

Mappings == {maps[m] : m \in MapIds} \ {NoMap}

\* A side that was made for the mapping, or that a probe has found to work.
Made(id) == Live(id) /\ (conns[id].with # 0 \/ conns[id].status = "connected")

(* What the wizard lets somebody create, and the server stores, a pass can   *)
(* open: for the sources that name their data (Google, Dropbox, Box) and DAV *)
(* targets, whatever was typed, tested, picked or reloaded on the way, and   *)
(* however the connections were rotated since.                               *)
AcceptedOpens ==
    \A m \in Mappings :
        /\ Made(m.src) /\ conns[m.src].kind \notin {"imap", "o365"}
        /\ Made(m.tgt) /\ (conns[m.tgt].with # 0 \/ conns[m.tgt].kind \in {"caldav", "carddav", "webdav"})
        => \A d \in m.domains : Opens(m, d)

(* A calendar, contact or Box migration reads the account it was created for,*)
(* also over a connection that was made for another account.                 *)
ReadsStated ==
    \A m \in Mappings : \A d \in m.domains :
        /\ conns[m.src].kind \in {"google_calendar", "google_contacts"} /\ m.said.user # ""
                => Reads(m, d) = m.said.user
        /\ conns[m.src].kind = "box" => m.said.userId # "" /\ Reads(m, d) = m.said.userId

(* A rotation never takes a working connection away: whoever rotates, tests  *)
(* or reuses it, a connection a probe would find working goes on working     *)
(* until it is deleted.                                                      *)
Works(c) == c.role # "none" /\ c.live /\ Probe(c.role, c.kind, c.config, c.creds)
WorkingStaysWorking ==
    [][\A id \in Ids : Works(conns[id]) => Works(conns'[id]) \/ ~conns'[id].live]_vars

(* Every mail migration reads the account it was created for.                *)
MailReadsStated ==
    \A m \in Mappings : "email" \in m.domains /\ m.said.user # "" => Reads(m, "email") = m.said.user

(* Every migration writes where it was told to.                              *)
AimedAsStated == \A m \in Mappings : viaMailbox(m.tgt, "target") \subseteq {m.meant}

(* A target that a test found to work can be opened by the pass.             *)
TestedTargetOpens ==
    \A m \in Mappings :
        conns[m.src].with # 0 /\ conns[m.src].kind = "gmail" /\ Made(m.tgt)
        => \A d \in m.domains : Opens(m, d)
=============================================================================
