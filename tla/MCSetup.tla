------------------------------ MODULE MCSetup ------------------------------
(* A few things to type on each kind of connection: complete or not, taken *)
(* by the provider or not, for one account or the other.                   *)
EXTENDS Setup, Discovery

\* The wizard, and then the screen that shows what there is to migrate: a
\* behaviour is about the one or the other, which rests meanwhile.
VARIABLE stage

Entry(keys, user, userId, works) == [keys |-> keys, user |-> user, userId |-> userId, works |-> works]
Google == {Entry(Consent, "ann", "", TRUE), Entry({"serviceAccountKey"}, "bob", "", TRUE),
           Entry({"clientId"}, "ann", "", TRUE)}
Server == {Entry({"host", "port", "password"}, "ann", "", TRUE)}
SourceEntries(t) ==
    CASE t \in GoogleTypes -> Google
      [] t = "box" -> {Entry({"clientId", "clientSecret"}, "ann", u, TRUE) : u \in Accounts \cup {""}}
      [] t = "dropbox" -> {Entry(Consent, "ann", "", TRUE), Entry({"clientId"}, "ann", "", TRUE)}
      [] t \in O365Types -> {Entry(App, "ann", "", TRUE), Entry({"tenantId"}, "ann", "", TRUE)}
      [] t = "imap" -> Server \cup {Entry({"host", "port"}, "bob", "", TRUE)}
      [] OTHER -> {}
MCEntries ==
    [source |-> [t \in AllSourceTypes \cup AllTargetTypes |-> IF t \in SourceTypes THEN SourceEntries(t) ELSE {}],
     target |-> [t \in AllSourceTypes \cup AllTargetTypes |-> IF t \in TargetTypes THEN Server ELSE {}]]

MCKindOrder == <<"email", "file">>
MCSides(on, source, has, target) ==
    [enabled |-> on, source |-> Side(source, has), target |-> Side(target, TRUE)]

MCContent == [f \in Folders |-> IF f = "f1" THEN {"t1"} ELSE {"t2"}]

DiscoveryRests ==
    /\ house = "managed" /\ sides = [k \in Kinds |-> MCSides(TRUE, "webdav", TRUE, "webdav")]
    /\ content = [k \in Kinds |-> [f \in Folders |-> {}]] /\ arrived = [k \in Kinds |-> {}]

\* A thing in each folder; on the appliance, the source of the files opens or
\* not, and their destination can be listed or not.
DiscoveryConfigured ==
    /\ house \in {"managed", "appliance"}
    /\ sides \in {[k \in Kinds |-> IF k = "email" THEN MCSides(TRUE, "imap-oauth2", has, "jmap")
                                    ELSE MCSides(TRUE, "webdav", has, target)] :
                   has \in BOOLEAN, target \in {"jmap", "webdav"}}
    /\ house = "managed" => \A k \in Kinds : sides[k].source.secret /\ sides[k].target.type = "jmap"
    /\ content = [k \in Kinds |-> MCContent]
    /\ arrived = [k \in Kinds |-> IF k = "email" THEN keyed ELSE {}]

MCInit ==
    /\ stage \in {"wizard", "confirm"}
    /\ IF stage = "confirm" THEN DiscoveryConfigured ELSE DiscoveryRests
    /\ SetupInit /\ DiscoveryInit
    /\ stage = "confirm" => form.type = [source |-> "box", target |-> "webdav"]

AtWizard == stage = "wizard" /\ SetupNext /\ UNCHANGED discoveryVars
AtConfirm == stage = "confirm" /\ DiscoveryNext /\ UNCHANGED vars

MCSpec == MCInit /\ [][(AtWizard \/ AtConfirm) /\ UNCHANGED stage]_<<stage, vars, discoveryVars>>

=============================================================================
