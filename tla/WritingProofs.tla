---------------------------- MODULE WritingProofs ----------------------------
(***************************************************************************)
(* What holds of writing, rewriting and removing, for every set of items,  *)
(* every choice of writers and every number of passes, faults and acts of  *)
(* the owner: a removal on record is real (RemovalIsReal), it took its own *)
(* item's copy (RemovesOnlyItsItem), there is no second copy of ours       *)
(* (NoSecondCopy), and what the owner edited is kept (KeepsTheirEdit).     *)
(*                                                                         *)
(* What makes them inductive is what is known of an id and of a version    *)
(* between two requests.  But for IMAP an id is of one key for good, in    *)
(* whatever row, memory or operation it is kept (OneKey); over IMAP only   *)
(* within one UIDVALIDITY (Uids).  What a removal leaves stays out of      *)
(* sight until it is recorded and after (Gone).  A copy of ours is the     *)
(* only one its writer can find (Single).  The version of something the    *)
(* owner made or edited is in no row and in no operation (Versions).       *)
(***************************************************************************)
EXTENDS Writing, FiniteSetTheorems, WellFoundedInduction, TLAPS

USE WritingAssumption

-----------------------------------------------------------------------------
(* Types, and the shape of an operation.                                   *)

\* Where an operation of each kind can be, and what it has by then.
ShapeOf(o, rs) ==
    /\ o.kind = "none" => o = NoOp
    /\ o.kind # "none" => o.key \in Keys
    /\ o.kind = "create" =>
          /\ o.at \in {"lookup", "stamp", "write", "rescan", "readback", "record"}
          /\ rs[o.key].status \in {"none", "failed"}
    /\ o.kind = "rewrite" =>
          /\ o.at \in {"lookup", "check", "write", "readback", "record"} /\ Rewrites
          /\ rs[o.key].status = "copied"
          /\ writer = "carddav" => o.id = rs[o.key].id
    /\ o.kind = "remove" =>
          /\ o.at \in {"check", "act", "verify", "record"}
          /\ rs[o.key].status = "copied" /\ o.id = rs[o.key].id
    /\ o.kind = "rewrite" /\ o.at # "lookup" => o.id # 0
    /\ o.kind = "rewrite" /\ o.at = "lookup" => writer # "carddav"
    /\ o.at \in {"rescan", "readback", "record"} \/ o.adopted = TRUE => o.id # 0
    /\ o.at \in {"stamp", "rescan"} => writer = "imap"
    /\ o.at = "readback" => writer \in {"jmapFile", "jmapContact"}
    /\ o.kind # "create" => o.adopted = FALSE

\* Ids are given out in order.
Numbered ==
    /\ op.id <= nextId
    /\ \A k \in Keys : rows[k].id <= nextId /\ snapshot.keys[k] <= nextId
    /\ \A k \in Keys : rows[k].status = "copied" => rows[k].id # 0
    /\ \A i \in Ids : i > nextId => copies[i].place = "nowhere"

\* Where each writer's copies can be.
Placed ==
    /\ bin = TRUE => writer \in {"jmapMail", "imap"}
    /\ writer \in {"jmapFile", "carddav"} => \A i \in Ids : copies[i].place \in {"nowhere", "folder"}
    /\ writer = "jmapContact" => \A i \in Ids : copies[i].place \in {"nowhere", "folder", "elsewhere"}
    /\ writer = "imap" => \A i \in Ids : copies[i].place # "both"

\* The types, with what goes with them.
WritingTypes == WritingTypeOK /\ ShapeOf(op, rows) /\ Numbered /\ Placed

-----------------------------------------------------------------------------
(* What an id stands for.                                                  *)

\* An id stands for a key in a row, in the operation, in the writer's memory or on
\* the target.
Stands(i, k) ==
    \/ k \in Keys /\ (rows[k].id = i \/ snapshot.keys[k] = i)
    \/ op.key = k /\ op.id = i
    \/ copies[i].place # "nowhere" /\ copies[i].key = k

\* But for IMAP it stands for one key, also when there is nothing under it.
OneKey == writer # "imap" => \A i \in Ids : \A k, l \in Keys \cup {NoKey} : Stands(i, k) /\ Stands(i, l) => k = l

\* Over IMAP it does within one UIDVALIDITY.
Uids ==
    writer = "imap" =>
        /\ snapshot.at # "map"
        /\ op.ver <= epoch /\ \A k \in Keys : rows[k].ver <= epoch
        /\ \A k \in Keys : rows[k].status = "copied" /\ rows[k].ver = epoch /\ copies[rows[k].id].place # "nowhere"
                           => copies[rows[k].id].key = k
        /\ op.kind = "create" /\ op.at = "record" /\ op.adopted = FALSE /\ op.ver = epoch
           /\ copies[op.id].place # "nowhere" => copies[op.id].key = op.key
        /\ op.kind = "create" /\ op.at = "record" => op.ver # 0
        /\ op.kind = "create" /\ op.at = "write" => op.ver # 0
        /\ op.kind = "create" /\ op.at = "rescan" => op.ver # 0
        /\ op.kind = "remove" /\ op.at # "check" /\ MovesMidApply = FALSE => rows[op.key].ver = epoch

\* A removal that is over, or about to be recorded, has left nothing to be seen.
GoneFor(k) ==
    IF writer = "imap" THEN rows[k].ver = epoch => copies[rows[k].id].place # "folder"
    ELSE rows[k].id \notin Shown
\* So it is for every row that says so, and for the removal under way.
Gone ==
    /\ \A k \in Keys : rows[k].status = "tombstoned" => rows[k].id # 0 /\ GoneFor(k)
    /\ op.kind = "remove" /\ op.at = "record" => GoneFor(op.key)

-----------------------------------------------------------------------------
(* One copy of ours.                                                       *)

\* A copy a writer made and can find again.
Ours(i, k) == copies[i].place \in Finds[writer] /\ copies[i].key = k /\ copies[i].ours = TRUE

\* There is one such copy of a key, or none.  Of files and JMAP cards there is one of
\* anybody's, the card at our path is the one in the row, and IMAP appends only what it
\* has not found.
Single ==
    /\ \A k \in Keys : \A i, j \in Ids : Ours(i, k) /\ Ours(j, k) => i = j
    /\ writer \in {"jmapFile", "jmapContact"} =>
          \A k \in Keys : \A i, j \in Ids : i \in Holders(k) /\ j \in Holders(k) => i = j
    /\ writer = "carddav" =>
          /\ \A k \in Keys : rows[k].status = "copied" => \A i \in Ids : Ours(i, k) => i = rows[k].id
          /\ op.kind = "create" /\ op.at = "record" /\ op.adopted = FALSE => \A i \in Ids : Ours(i, op.key) => i = op.id
    /\ writer = "imap" /\ op.kind = "create" /\ (op.at = "write" \/ (op.at = "stamp" /\ op.adopted = FALSE))
          => \A i \in Ids : ~Ours(i, op.key)

-----------------------------------------------------------------------------
(* Versions.                                                               *)

\* A copy the owner made, or has changed since it was ours.
Theirs(i) == copies[i].place # "nowhere" /\ (copies[i].edited = TRUE \/ copies[i].ours = FALSE)

\* No row and no operation has the version of one of those, and a write or a removal
\* that the check has let through is of a copy that is not one.
Versions ==
    Rewrites =>
        /\ op.ver <= clock
        /\ \A k \in Keys : rows[k].ver <= clock
        /\ \A i \in Ids : copies[i].place # "nowhere" => copies[i].ver <= clock /\ copies[i].ver # 0
        /\ \A i \in Ids : Theirs(i) => copies[i].ver # op.ver /\ \A k \in Keys : copies[i].ver # rows[k].ver
        /\ \A i, j \in Ids : Theirs(i) /\ copies[j].place # "nowhere" /\ ~Theirs(j) => copies[i].ver # copies[j].ver
        /\ op.at = "readback" => ~Theirs(op.id)
        /\ (op.at = "act" \/ (op.at = "write" /\ op.kind = "rewrite")) /\ op.blind = FALSE /\ rows[op.key].ver # 0
              => ~Theirs(op.id)

\* The fields of an operation.
LEMMA OpIs ==
    ASSUME NEW o \in Op
    PROVE  /\ o.kind \in {"none", "create", "rewrite", "remove"}
           /\ o.at \in {"idle", "lookup", "stamp", "check", "write", "rescan", "readback", "record", "act", "verify"}
           /\ o.key \in Keys \cup {NoKey} /\ o.id \in 0 .. MaxIds /\ o.ver \in 0 .. MaxClock + 1
           /\ o.adopted \in BOOLEAN /\ o.conflicted \in BOOLEAN /\ o.blind \in BOOLEAN
  BY DEF Op

\* No operation is one.
LEMMA NoOpIs == NoOp \in Op /\ \A rs : ShapeOf(NoOp, rs)
  BY DEF NoOp, Op, ShapeOf

\* An operation that throws leaves a row.
LEMMA ThrowsIs ==
    ASSUME WritingTypes, Throws, op.kind # "none"
    PROVE  /\ op' = NoOp /\ rows' \in [Keys -> Row] /\ op.key \in Keys
           /\ rows' = IF op.kind = "remove" THEN rows ELSE [rows EXCEPT ![op.key] = [rows[op.key] EXCEPT !.status = "failed"]]
           /\ \A k \in Keys : rows'[k].id = rows[k].id /\ rows'[k].ver = rows[k].ver
           /\ \A k \in Keys : rows'[k].status \in {rows[k].status, "failed"}
           /\ \A k \in Keys : k # op.key => rows'[k] = rows[k]
  <1>1. op.key \in Keys /\ rows \in [Keys -> Row]
    BY DEF WritingTypes, WritingTypeOK, ShapeOf
  <1>2. op' = NoOp /\ rows' = IF op.kind = "remove" THEN rows ELSE [rows EXCEPT ![op.key] = [rows[op.key] EXCEPT !.status = "failed"]]
    BY DEF Throws
  <1>3. PICK r : r = rows[op.key]
    OBVIOUS
  <1>4. /\ r \in Row /\ [r EXCEPT !.status = "failed"] \in Row /\ [r EXCEPT !.status = "failed"].id = r.id
        /\ [r EXCEPT !.status = "failed"].ver = r.ver /\ [r EXCEPT !.status = "failed"].status = "failed"
    BY <1>1, <1>3 DEF Row
  <1> QED BY <1>1, <1>2, <1>3, <1>4

\* Nothing but the operation, the rows, the writer's memory and the source changes.
LEMMA OpKeeps ==
    ASSUME WritingTypes, UNCHANGED server, UNCHANGED wrong, changed' \subseteq Keys, pass' \in Pass, snapshot' \in Snapshot,
           used' \in [owner: 0 .. MaxOwner, faults: 0 .. MaxFaults],
           op' \in Op, rows' \in [Keys -> Row], ShapeOf(op', rows'), op'.id <= nextId,
           \A k \in Keys : rows'[k].id <= nextId /\ snapshot'.keys[k] <= nextId,
           \A k \in Keys : rows'[k].status = "copied" => rows'[k].id # 0
    PROVE  WritingTypes'
  <1>1. PICK o, rs : o = op' /\ rs = rows'
    OBVIOUS
  <1>2. ShapeOf(o, rs)'
    BY <1>1 DEF ShapeOf, server, Rewrites
  <1>3. ShapeOf(op, rows)'
    BY <1>1, <1>2
  <1> QED BY <1>3 DEF WritingTypes, WritingTypeOK, server, Numbered, Placed

\* The account changes.
LEMMA AccountKeeps ==
    ASSUME WritingTypes, UNCHANGED <<writer, bin, uidplus, changed, AtHome>>,
           used' \in [owner: 0 .. MaxOwner, faults: 0 .. MaxFaults],
           folder' \in {"absent", "there", "blocked"}, copies' \in [Ids -> Copy],
           nextId' \in 0 .. MaxIds, nextId <= nextId', epoch' \in 1 .. MaxClock + 1, clock' \in 0 .. MaxClock,
           \A i \in Ids : i > nextId' => copies'[i].place = "nowhere", Placed'
    PROVE  WritingTypes'
  <1>1. ShapeOf(op, rows)'
    BY DEF WritingTypes, ShapeOf, AtHome, Rewrites
  <1>2. Numbered'
    <2>1. /\ op.id \in Nat /\ nextId \in Nat /\ \A k \in Keys : rows[k].id \in Nat /\ snapshot.keys[k] \in Nat
      BY DEF WritingTypes, WritingTypeOK, Op, Row, Snapshot
    <2> QED BY <2>1 DEF WritingTypes, Numbered, AtHome
  <1> QED BY <1>1, <1>2 DEF WritingTypes, WritingTypeOK, AtHome

\* What the types say.
LEMMA TypesAre ==
    ASSUME WritingTypes
    PROVE  /\ op \in Op /\ ShapeOf(op, rows) /\ rows \in [Keys -> Row] /\ snapshot \in Snapshot /\ pass \in Pass
           /\ changed \subseteq Keys /\ wrong \subseteq Ids /\ copies \in [Ids -> Copy] /\ nextId \in 0 .. MaxIds
           /\ used \in [owner: 0 .. MaxOwner, faults: 0 .. MaxFaults]
           /\ epoch \in 1 .. MaxClock + 1 /\ clock \in 0 .. MaxClock /\ folder \in {"absent", "there", "blocked"}
           /\ op.id <= nextId /\ \A k \in Keys : rows[k].id <= nextId /\ snapshot.keys[k] <= nextId
           /\ \A k \in Keys : rows[k].status = "copied" => rows[k].id # 0
           /\ \A i \in Ids : i > nextId => copies[i].place = "nowhere"
           /\ \A k \in Keys : rows[k].id \in 0 .. MaxIds /\ rows[k].ver \in 0 .. MaxClock + 1
           /\ writer \in {"jmapMail", "jmapFile", "jmapContact", "imap", "carddav"}
           /\ bin \in BOOLEAN /\ uidplus \in BOOLEAN
  BY DEF WritingTypes, WritingTypeOK, Numbered, Row, Jmap

\* What is spent stays within its bound.
LEMMA SpendIs ==
    ASSUME WritingTypes, Spend("faults", MaxFaults, 1) \/ Spend("owner", MaxOwner, 1)
    PROVE  used' \in [owner: 0 .. MaxOwner, faults: 0 .. MaxFaults]
  <1>1. PICK u \in [owner: 0 .. MaxOwner, faults: 0 .. MaxFaults] : u = used
    BY TypesAre
  <1>2. u.owner \in 0 .. MaxOwner /\ u.faults \in 0 .. MaxFaults
    OBVIOUS
  <1>3. CASE Spend("faults", MaxFaults, 1)
    <2>1. PICK n \in 0 .. MaxFaults : n = u.faults + 1
      BY <1>1, <1>2, <1>3 DEF Spend
    <2>2. used' = [u EXCEPT !.faults = n]
      BY <1>1, <1>3, <2>1 DEF Spend
    <2> QED BY <2>2
  <1>4. CASE Spend("owner", MaxOwner, 1)
    <2>1. PICK n \in 0 .. MaxOwner : n = u.owner + 1
      BY <1>1, <1>2, <1>4 DEF Spend
    <2>2. used' = [u EXCEPT !.owner = n]
      BY <1>1, <1>4, <2>1 DEF Spend
    <2> QED BY <2>2
  <1> QED BY <1>3, <1>4

\* An operation that throws changes nothing else of the ledger or the account.
LEMMA ThrowKeeps ==
    ASSUME WritingTypes, Throws, op.kind # "none", UNCHANGED <<server, changed, pass, snapshot, wrong>>,
           used' \in [owner: 0 .. MaxOwner, faults: 0 .. MaxFaults]
    PROVE  WritingTypes'
  <1>1. /\ op' = NoOp /\ rows' \in [Keys -> Row] /\ \A k \in Keys : rows'[k].id = rows[k].id
        /\ \A k \in Keys : rows'[k].status \in {rows[k].status, "failed"}
    BY ThrowsIs
  <1>2. op' \in Op /\ ShapeOf(op', rows')
    BY <1>1, NoOpIs
  <1>3. op'.id <= nextId
    <2>1. op'.id = 0 /\ nextId \in Nat
      BY <1>1, TypesAre DEF NoOp
    <2> QED BY <2>1
  <1>4. snapshot' \in Snapshot /\ \A k \in Keys : rows'[k].id <= nextId /\ snapshot'.keys[k] <= nextId
    BY <1>1, TypesAre
  <1>5. \A k \in Keys : rows'[k].status = "copied" => rows'[k].id # 0
    BY <1>1, TypesAre
  <1> QED BY <1>1, <1>2, <1>3, <1>4, <1>5, OpKeeps, TypesAre

\* Only the operation goes on.
LEMMA GoesOnKeeps ==
    ASSUME WritingTypes, UNCHANGED <<server, rows, changed, pass, snapshot, wrong>>, op' \in Op, ShapeOf(op', rows), op'.id <= nextId,
           used' \in [owner: 0 .. MaxOwner, faults: 0 .. MaxFaults]
    PROVE  WritingTypes'
  <1>1. ShapeOf(op', rows')
    OBVIOUS
  <1> QED BY <1>1, OpKeeps, TypesAre

\* A set of ids that is not empty has a largest.
LEMMA HasLargest ==
    ASSUME NEW S \in SUBSET Ids, S # {}
    PROVE  \E i \in S : \A j \in S : j <= i
  <1> DEFINE T == {m \in Nat : MaxIds - m \in S}
  <1>1. \A s \in S : MaxIds - s \in T
    BY DEF Ids
  <1>2. T \in SUBSET Nat /\ T # {}
    BY <1>1
  <1> HIDE DEF T
  <1>3. \E x \in T : \A y \in T : ~ (<<y, x>> \in OpToRel(<, Nat))
    BY <1>2, NatLessThanWellFounded, WFMin
  <1>4. PICK x \in T : \A y \in T : ~(y < x)
    BY <1>2, <1>3 DEF OpToRel
  <1>5. x \in Nat /\ MaxIds - x \in S
    BY DEF T
  <1>6. ASSUME NEW v \in S PROVE v <= MaxIds - x
    <2>1. ~(MaxIds - v < x) /\ v \in Nat /\ MaxIds \in Nat
      BY <1>1, <1>4 DEF Ids
    <2> QED BY <1>5, <2>1
  <1> QED BY <1>5, <1>6

\* What the writer remembers of a listing has the key it is remembered for.
LEMMA WithIs ==
    ASSUME NEW keys \in [Keys -> 0 .. MaxIds], NEW S \in SUBSET Ids
    PROVE  /\ With(keys, S) \in [Keys -> 0 .. MaxIds]
           /\ \A k \in Keys : \/ With(keys, S)[k] = keys[k]
                              \/ With(keys, S)[k] \in S /\ copies[With(keys, S)[k]].key = k
  <1>1. ASSUME NEW l \in Keys
        PROVE  /\ With(keys, S)[l] \in 0 .. MaxIds
               /\ \/ With(keys, S)[l] = keys[l]
                  \/ With(keys, S)[l] \in S /\ copies[With(keys, S)[l]].key = l
    <2>1. PICK In : In = {i \in S : copies[i].key = l}
      OBVIOUS
    <2>2. With(keys, S)[l] = IF In = {} THEN keys[l] ELSE CHOOSE i \in In : \A j \in In : j <= i
      BY <2>1 DEF With
    <2>3. In # {} => \E i \in In : \A j \in In : j <= i
      BY <2>1, HasLargest
    <2>4. In # {} => With(keys, S)[l] \in In
      BY <2>2, <2>3
    <2>5. PICK w : w = With(keys, S)[l]
      OBVIOUS
    <2>6. w = keys[l] \/ (w \in S /\ copies[w].key = l)
      BY <2>1, <2>2, <2>4, <2>5
    <2>7. S \subseteq 0 .. MaxIds /\ keys[l] \in 0 .. MaxIds
      BY DEF Ids
    <2> QED BY <2>5, <2>6, <2>7
  <1>2. DOMAIN With(keys, S) = Keys /\ With(keys, S) = [l \in Keys |-> With(keys, S)[l]]
    BY DEF With
  <1> QED BY <1>1, <1>2

\* So does a listing.
LEMMA ListedIs ==
    ASSUME WritingTypes, targetKeys
    PROVE  /\ snapshot' \in Snapshot
           /\ \A k \in Keys : \/ snapshot'.keys[k] \in {0, snapshot.keys[k]}
                              \/ /\ snapshot'.keys[k] \in Ids /\ copies[snapshot'.keys[k]].place # "nowhere"
                                 /\ copies[snapshot'.keys[k]].key = k
  <1>0. snapshot \in Snapshot /\ snapshot.keys \in [Keys -> 0 .. MaxIds] /\ snapshot.position \in Nat
        /\ writer \in {"jmapMail", "jmapFile", "jmapContact", "imap", "carddav"} /\ NoSnapshot \in Snapshot
        /\ NoSnapshot.keys \in [Keys -> 0 .. MaxIds] /\ \A k \in Keys : NoSnapshot.keys[k] = 0
    BY TypesAre DEF Snapshot, NoSnapshot
  <1>1. Undefined \in Snapshot /\ Undefined.keys = NoSnapshot.keys
    BY <1>0 DEF Undefined, Snapshot
  <1>2. PICK V : V = {i \in Ids : Visible(i)}
    OBVIOUS
  <1>3. /\ With(NoSnapshot.keys, V) \in [Keys -> 0 .. MaxIds]
        /\ \A k \in Keys : With(NoSnapshot.keys, V)[k] = 0 \/ (With(NoSnapshot.keys, V)[k] \in V /\ copies[With(NoSnapshot.keys, V)[k]].key = k)
    <2>1. PICK e \in [Keys -> 0 .. MaxIds] : e = NoSnapshot.keys
      BY <1>0
    <2>2. V \in SUBSET Ids
      BY <1>2
    <2>3. /\ With(e, V) \in [Keys -> 0 .. MaxIds]
          /\ \A k \in Keys : With(e, V)[k] = e[k] \/ (With(e, V)[k] \in V /\ copies[With(e, V)[k]].key = k)
      BY <2>2, WithIs
    <2> QED BY <1>0, <2>1, <2>3
  <1>4. \A i \in V : i \in Ids /\ copies[i].place # "nowhere"
    BY <1>0, <1>2 DEF Visible, Finds, findEmail, findMessage, findNode, findCard, findContact
  <1>5. AllVisible \in Snapshot /\ AllVisible.keys = With(NoSnapshot.keys, V)
    BY <1>2, <1>3 DEF AllVisible, Snapshot
  <1>6. PICK G : G = Page
    OBVIOUS
  <1>7. G \subseteq Live /\ Live \subseteq Ids /\ \A i \in G : copies[i].place # "nowhere"
    BY <1>6 DEF Page, Live
  <1>8. /\ With(snapshot.keys, G) \in [Keys -> 0 .. MaxIds]
        /\ \A k \in Keys : With(snapshot.keys, G)[k] = snapshot.keys[k] \/ (With(snapshot.keys, G)[k] \in G /\ copies[With(snapshot.keys, G)[k]].key = k)
    <2>1. PICK e \in [Keys -> 0 .. MaxIds] : e = snapshot.keys
      BY <1>0
    <2>2. G \in SUBSET Ids
      BY <1>7
    <2>3. /\ With(e, G) \in [Keys -> 0 .. MaxIds]
          /\ \A k \in Keys : With(e, G)[k] = e[k] \/ (With(e, G)[k] \in G /\ copies[With(e, G)[k]].key = k)
      BY <2>2, WithIs
    <2> QED BY <2>1, <2>3
  <1>9. PICK w \in [Keys -> 0 .. MaxIds] : w = With(snapshot.keys, G)
    BY <1>8
  <1>10. /\ [at |-> "map", keys |-> w, position |-> 0] \in Snapshot
         /\ [at |-> "listing", keys |-> w, position |-> snapshot.position + LIMIT] \in Snapshot
    BY <1>0 DEF Snapshot
  <1>11. \/ listEmails = Undefined
         \/ listEmails = [at |-> "map", keys |-> w, position |-> 0]
         \/ listEmails = [at |-> "listing", keys |-> w, position |-> snapshot.position + LIMIT]
    BY <1>6, <1>9 DEF listEmails
  <1>12. snapshot' \in {Undefined, AllVisible, listEmails}
    BY DEF targetKeys, readTree, listCards, listContactsIn
  <1>13. snapshot' \in {Undefined, AllVisible} \/ (snapshot' \in Snapshot /\ snapshot'.keys = w)
    BY <1>10, <1>11, <1>12
  <1> QED BY <1>0, <1>1, <1>3, <1>4, <1>5, <1>7, <1>8, <1>9, <1>13

-----------------------------------------------------------------------------
(* Every step keeps the types.                                             *)

\* The steps of a pass.
LEMMA PassTypes ==
    ASSUME WritingTypes, PassNext
    PROVE  WritingTypes'
  <1>0. NoSnapshot \in Snapshot /\ (\A k \in Keys : NoSnapshot.keys[k] <= nextId) /\ NoOp.id <= nextId
    BY TypesAre DEF NoSnapshot, Snapshot, NoOp
  <1>1. CASE StartPass
    <2>1. pass' \in Pass
      BY <1>1, TypesAre DEF StartPass, Pass
    <2> QED BY <1>0, <1>1, <2>1, TypesAre, OpKeeps DEF StartPass
  <1>2. CASE FindFolder
    <2>1. PICK next \in {"items", "make", "idle"} : pass' = [pass EXCEPT !.at = next]
      BY <1>2, TypesAre DEF FindFolder, ensureMailbox, ensureDirectoryPath, ensureAddressBook, addressBookExists
    <2>2. pass' \in Pass
      BY <2>1, TypesAre DEF Pass
    <2> QED BY <1>2, <2>2, TypesAre, OpKeeps DEF FindFolder
  <1>3. CASE MakeFolder
    <2>1. PICK next \in {"items", "idle"} : pass' = [pass EXCEPT !.at = next]
      BY <1>3, TypesAre DEF MakeFolder, createMailbox, createDirectory, createAddressBook
    <2>2. pass' \in Pass
      BY <2>1, TypesAre DEF Pass
    <2>3. ShapeOf(op, rows)'
      BY <1>3 DEF MakeFolder, WritingTypes, ShapeOf, Rewrites
    <2> QED BY <1>3, <2>2, <2>3 DEF MakeFolder, WritingTypes, WritingTypeOK, Numbered, Placed
  <1>4. CASE EndPass
    <2>1. pass' \in Pass
      BY <1>4, TypesAre DEF EndPass, Pass
    <2> QED BY <1>4, <2>1, TypesAre, OpKeeps DEF EndPass
  <1>5. CASE Crash
    <2>1. pass' \in Pass /\ used' \in [owner: 0 .. MaxOwner, faults: 0 .. MaxFaults]
      BY <1>5, TypesAre, SpendIs DEF Crash, Pass
    <2>2. op' \in Op /\ ShapeOf(op', rows') /\ op'.id <= nextId
      BY <1>0, <1>5, NoOpIs DEF Crash
    <2> QED BY <1>0, <1>5, <2>1, <2>2, TypesAre, OpKeeps DEF Crash
  <1>6. CASE RequestFails
    <2>1. op.kind # "none"
      BY <1>6, TypesAre DEF RequestFails, ShapeOf
    <2> QED BY <1>6, <2>1, SpendIs, ThrowKeeps DEF RequestFails
  <1> QED BY <1>1, <1>2, <1>3, <1>4, <1>5, <1>6 DEF PassNext

\* The beginnings of an operation, and the source.
LEMMA ItemTypes ==
    ASSUME WritingTypes, ItemNext
    PROVE  WritingTypes'
  <1>0. nextId \in Nat /\ \A k \in Keys : pass.done \cup {k} \subseteq Keys
    BY TypesAre DEF Pass
  <1>1. ASSUME NEW k \in Keys, BeginCreate(k) PROVE WritingTypes'
    <2>0. /\ op' = [kind |-> "create", at |-> "lookup", key |-> k, id |-> 0, ver |-> 0,
                    adopted |-> FALSE, conflicted |-> FALSE, blind |-> FALSE]
          /\ rows[k].status \in {"none", "failed"}
      BY <1>1 DEF BeginCreate, NoOp
    <2>1. op' \in Op /\ op'.id = 0
      BY <2>0 DEF Op
    <2>3. ShapeOf(op', rows)
      BY <2>0 DEF ShapeOf
    <2>2. pass' \in Pass
      BY <1>1, TypesAre DEF BeginCreate, Pass
    <2>4. op'.id <= nextId
      BY <1>0, <2>1
    <2> QED BY <1>1, <2>1, <2>2, <2>3, <2>4, TypesAre, OpKeeps DEF BeginCreate
  <1>2. ASSUME NEW k \in Keys, BeginRewrite(k) PROVE WritingTypes'
    <2>1. rows[k].id \in 0 .. MaxIds /\ rows[k].id # 0 /\ rows[k].id <= nextId
      BY <1>2, TypesAre DEF BeginRewrite
    <2>2. PICK i \in 0 .. MaxIds : i = rows[k].id
      BY <2>1
    <2>3. PICK at \in {"check", "lookup"}, j \in 0 .. MaxIds : IF writer = "carddav" THEN at = "check" /\ j = i ELSE at = "lookup" /\ j = 0
      BY <2>1, <2>2
    <2>4. /\ op' = [kind |-> "rewrite", at |-> at, key |-> k, id |-> j, ver |-> 0,
                    adopted |-> FALSE, conflicted |-> FALSE, blind |-> FALSE]
          /\ Rewrites /\ rows[k].status = "copied"
      BY <1>2, <2>2, <2>3 DEF BeginRewrite, NoOp
    <2>8. op' \in Op /\ op'.id = j
      BY <2>4 DEF Op
    <2>5. ShapeOf(op', rows)
      BY <2>1, <2>2, <2>3, <2>4 DEF ShapeOf
    <2>6. pass' \in Pass
      BY <1>2, TypesAre DEF BeginRewrite, Pass
    <2>7. op'.id <= nextId
      BY <1>0, <2>1, <2>2, <2>3, <2>8
    <2> QED BY <1>2, <2>8, <2>5, <2>6, <2>7, TypesAre, OpKeeps DEF BeginRewrite
  <1>3. ASSUME NEW k \in Keys, BeginRemove(k) PROVE WritingTypes'
    <2>1. rows[k].id \in 0 .. MaxIds /\ rows[k].id # 0 /\ rows[k].id <= nextId
      BY <1>3, TypesAre DEF BeginRemove
    <2>2. PICK i \in 0 .. MaxIds : i = rows[k].id
      BY <2>1
    <2>3. PICK at \in {"check", "act"} : /\ rows[k].status = "copied"
              /\ op' = [kind |-> "remove", at |-> at, key |-> k, id |-> i, ver |-> 0,
                        adopted |-> FALSE, conflicted |-> FALSE, blind |-> FALSE]
      BY <1>3, <2>2 DEF BeginRemove, NoOp
    <2>4. op' \in Op /\ op'.id = i
      BY <2>3 DEF Op
    <2>5. ShapeOf(op', rows)
      BY <2>1, <2>2, <2>3 DEF ShapeOf
    <2> QED BY <1>3, <2>1, <2>2, <2>4, <2>5, TypesAre, GoesOnKeeps DEF BeginRemove
  <1>4. ASSUME NEW k \in Keys, SourceChanges(k) PROVE WritingTypes'
    BY <1>4, TypesAre, OpKeeps DEF SourceChanges, AtHome
  <1> QED BY <1>1, <1>2, <1>3, <1>4 DEF ItemNext

\* The owner.
LEMMA OwnerTypes ==
    ASSUME WritingTypes, OwnerNext
    PROVE  WritingTypes'
  <1>0. nextId \in Nat /\ clock \in Nat /\ MaxIds \in Nat /\ MaxClock \in Nat /\ copies \in [Ids -> Copy] /\ NoCopy \in Copy
    BY TypesAre DEF NoCopy, Copy, Places
  <1>1. ASSUME NEW k \in Keys \cup {NoKey}, Arrives(k) PROVE WritingTypes'
    <2>1. PICK i \in Ids, v \in 0 .. MaxClock : i = nextId + 1 /\ v = clock + 1
      BY <1>0, <1>1 DEF Arrives, Ids
    <2>2. PICK c : c = [key |-> k, ver |-> v, place |-> "folder", ours |-> FALSE, edited |-> FALSE]
      OBVIOUS
    <2>3. c \in Copy /\ c.place = "folder"
      BY <2>2 DEF Copy, Places
    <2>4. /\ copies' = [copies EXCEPT ![i] = c] /\ nextId' = i /\ clock' = v
          /\ UNCHANGED <<writer, bin, uidplus, folder, epoch, changed, AtHome>>
      BY <1>1, <2>1, <2>2 DEF Arrives
    <2>5. used' \in [owner: 0 .. MaxOwner, faults: 0 .. MaxFaults]
      BY <1>1, SpendIs DEF Arrives, Owner
    <2>6. copies' \in [Ids -> Copy] /\ Placed'
      BY <1>0, <2>3, <2>4 DEF Placed, WritingTypes
    <2>7. \A j \in Ids : j > nextId' => copies'[j].place = "nowhere"
      BY <1>0, <2>1, <2>4, TypesAre DEF Ids
    <2>8. nextId' \in 0 .. MaxIds /\ nextId <= nextId'
      BY <1>0, <2>1, <2>4 DEF Ids
    <2> QED BY <2>4, <2>5, <2>6, <2>7, <2>8, TypesAre, AccountKeeps
  <1>2. ASSUME NEW i \in Ids, Edits(i) \/ Discards(i) \/ Files(i) PROVE WritingTypes'
    <2>1. PICK v \in 0 .. MaxClock : clock < MaxClock => v = clock + 1
      BY <1>0
    <2>2. PICK o \in Copy : o = copies[i]
      BY <1>0
    <2>3. PICK c \in Copy : /\ copies' = [copies EXCEPT ![i] = c]
                            /\ o.place = "nowhere" => c.place = "nowhere"
                            /\ \/ c.place \in {"nowhere", o.place}
                               \/ (c.place = "bin" /\ bin = TRUE)
                               \/ (c.place = "elsewhere" /\ writer \in {"jmapMail", "jmapContact", "imap"})
                               \/ (c.place = "both" /\ writer = "jmapMail")
      <3>1. CASE Edits(i)
        <4>1. copies' = [copies EXCEPT ![i] = [o EXCEPT !.ver = v, !.edited = TRUE]]
          BY <1>0, <2>1, <2>2, <3>1 DEF Edits
        <4>2. [o EXCEPT !.ver = v, !.edited = TRUE] \in Copy /\ [o EXCEPT !.ver = v, !.edited = TRUE].place = o.place
          BY DEF Copy
        <4> QED BY <4>1, <4>2
      <3>2. CASE Discards(i)
        <4>1. /\ [o EXCEPT !.place = "bin"] \in Copy /\ [o EXCEPT !.place = "bin"].place = "bin" /\ NoCopy.place = "nowhere"
              /\ o.place # "nowhere"
          BY <2>2, <3>2 DEF Copy, Places, NoCopy, Discards, Live
        <4>2. \/ copies' = [copies EXCEPT ![i] = NoCopy]
              \/ copies' = [copies EXCEPT ![i] = [o EXCEPT !.place = "bin"]] /\ bin = TRUE
          BY <1>0, <2>2, <3>2, TypesAre DEF Discards
        <4> QED BY <1>0, <4>1, <4>2
      <3>3. CASE Files(i)
        <4>1. PICK p \in {"both", "elsewhere"} : p = IF o.place = "bin" THEN "both" ELSE "elsewhere"
          OBVIOUS
        <4>2. copies' = [copies EXCEPT ![i] = [o EXCEPT !.place = p]]
          BY <1>0, <2>2, <3>3, <4>1 DEF Files
        <4>3. [o EXCEPT !.place = p] \in Copy /\ [o EXCEPT !.place = p].place = p
          BY DEF Copy, Places
        <4>4. /\ writer \in {"jmapMail", "jmapContact", "imap"}
              /\ p = "both" => writer = "jmapMail"
              /\ o.place # "nowhere"
          BY <2>2, <3>3, <4>1 DEF Files
        <4> QED BY <4>2, <4>3, <4>4
      <3> QED BY <1>2, <3>1, <3>2, <3>3
    <2>4. UNCHANGED <<writer, bin, uidplus, folder, epoch, changed, AtHome, nextId>>
      BY <1>2 DEF Edits, Discards, Files
    <2>5. used' \in [owner: 0 .. MaxOwner, faults: 0 .. MaxFaults]
      BY <1>2, SpendIs DEF Edits, Discards, Files, Owner
    <2>6. clock' \in 0 .. MaxClock
      BY <1>0, <1>2, TypesAre DEF Edits, Discards, Files
    <2>7. copies' \in [Ids -> Copy] /\ \A j \in Ids : j > nextId' => copies'[j].place = "nowhere"
      BY <1>0, <2>2, <2>3, <2>4, TypesAre
    <2>8. Placed'
      BY <1>0, <2>2, <2>3, <2>4 DEF Placed, WritingTypes
    <2> QED BY <2>4, <2>5, <2>6, <2>7, <2>8, TypesAre, AccountKeeps
  <1>3. CASE Recreates
    <2>1. PICK p \in [1 .. nextId -> 1 .. nextId] : copies' = [i \in Ids |-> IF i <= nextId THEN copies[p[i]] ELSE copies[i]]
      BY <1>3 DEF Recreates
    <2>2. /\ UNCHANGED <<writer, bin, uidplus, folder, nextId, clock, changed, AtHome>> /\ epoch' = epoch + 1
          /\ epoch <= MaxClock /\ writer = "imap"
      BY <1>3 DEF Recreates
    <2>3. \A i \in Ids : i <= nextId => p[i] \in Ids
      BY <1>0, <2>1, TypesAre DEF Ids
    <2>4. copies' \in [Ids -> Copy] /\ (\A i \in Ids : copies'[i].place # "both") /\ \A i \in Ids : i > nextId' => copies'[i].place = "nowhere"
      BY <1>0, <2>1, <2>2, <2>3, TypesAre DEF WritingTypes, Placed, Ids
    <2>5. used' \in [owner: 0 .. MaxOwner, faults: 0 .. MaxFaults]
      BY <1>3, SpendIs DEF Recreates, Owner
    <2>6. Placed'
      BY <2>2, <2>4 DEF Placed, WritingTypes
    <2>7. epoch' \in 1 .. MaxClock + 1
      BY <1>0, <2>2, TypesAre
    <2> QED BY <2>2, <2>4, <2>5, <2>6, <2>7, TypesAre, AccountKeeps
  <1>4. CASE TogglesFolder
    <2>1. /\ copies' = [i \in Ids |-> IF copies[i].place = "folder" THEN NoCopy ELSE copies[i]]
          /\ UNCHANGED <<writer, bin, uidplus, nextId, epoch, clock, changed, AtHome>> /\ folder' \in {"absent", "there", "blocked"}
      BY <1>4 DEF TogglesFolder
    <2>2. copies' \in [Ids -> Copy] /\ Placed' /\ \A i \in Ids : i > nextId' => copies'[i].place = "nowhere"
      BY <1>0, <2>1, TypesAre DEF WritingTypes, Placed, NoCopy
    <2>3. used' \in [owner: 0 .. MaxOwner, faults: 0 .. MaxFaults]
      BY <1>4, SpendIs DEF TogglesFolder, Owner
    <2> QED BY <2>1, <2>2, <2>3, TypesAre, AccountKeeps
  <1> QED BY <1>1, <1>2, <1>3, <1>4 DEF OwnerNext

-----------------------------------------------------------------------------
(* What each step of an operation does.                                    *)

\* The operation goes on, with these.
Goes(at, i, v, a, c, b) ==
    /\ op' \in Op /\ op'.kind = op.kind /\ op'.key = op.key
    /\ op'.at = at /\ op'.id = i /\ op'.ver = v
    /\ op'.adopted = a /\ op'.conflicted = c /\ op'.blind = b

\* Everything but the operation and the rows stays.
Still == UNCHANGED <<server, changed, pass, snapshot, wrong>> /\ used' \in [owner: 0 .. MaxOwner, faults: 0 .. MaxFaults]

\* Something in the account, or remembered, has the operation's key.
Known(i) == (i \in Holders(op.key) \/ snapshot.keys[op.key] = i)

\* What a writer sees is somewhere.
LEMMA HoldersAre ==
    ASSUME WritingTypes
    PROVE  \A k : \A i \in Holders(k) : i \in Ids /\ copies[i].place # "nowhere" /\ copies[i].place \in Finds[writer]
                                        /\ copies[i].key = k /\ i <= nextId
  <1>1. writer \in {"jmapMail", "jmapFile", "jmapContact", "imap", "carddav"} /\ nextId \in 0 .. MaxIds
        /\ \A i \in Ids : i > nextId => copies[i].place = "nowhere"
    BY TypesAre
  <1>2. \A k : \A i \in Holders(k) : i \in Ids /\ copies[i].place \in Finds[writer] /\ copies[i].key = k
    BY DEF Holders, Visible
  <1>3. "nowhere" \notin Finds[writer]
    BY <1>1 DEF Finds, findEmail, findMessage, findNode, findCard, findContact
  <1>4. \A i \in Ids : i \in Nat
    BY DEF Ids
  <1> QED BY <1>1, <1>2, <1>3, <1>4

\* The question.
LEMMA LookupIs ==
    ASSUME WritingTypes, findByNaturalKey
    PROVE  /\ op.kind \in {"create", "rewrite"} /\ op.at = "lookup" /\ Still
           /\ \/ Throws
              \/ /\ UNCHANGED rows /\ op.kind = "rewrite"
                 /\ \E i \in Ids : Known(i) /\ Goes("check", i, op.ver, op.adopted, op.conflicted, op.blind)
              \/ /\ UNCHANGED rows /\ op.kind = "create" /\ writer = "imap"
                 /\ \E i \in Ids : Known(i) /\ Goes("stamp", i, op.ver, TRUE, op.conflicted, op.blind)
              \/ /\ UNCHANGED rows /\ op.kind = "create" /\ writer # "imap"
                 /\ \E i \in Ids : Known(i) /\ Goes("record", i, op.ver, TRUE, op.conflicted, op.blind)
              \/ /\ UNCHANGED rows /\ op.kind = "create" /\ writer = "imap" /\ (snapshot.at # "map" => Holders(op.key) = {})
                 /\ Goes("stamp", op.id, op.ver, op.adopted, op.conflicted, op.blind)
              \/ /\ UNCHANGED rows /\ op.kind = "create" /\ writer # "imap"
                 /\ Goes("write", op.id, op.ver, op.adopted, op.conflicted, op.blind)
  <1>1. PICK o \in Op : o = op
    BY TypesAre
  <1>2. op.at = "lookup" /\ op.kind \in {"create", "rewrite"} /\ op.key \in Keys
    BY TypesAre, OpIs DEF findByNaturalKey, ShapeOf, NoOp
  <1>3. Still
    BY TypesAre, SpendIs DEF findByNaturalKey, Still
  <1>4. PICK F : F = IF AsksTarget THEN Holders(op.key) ELSE Remembered(op.key)
    OBVIOUS
  <1>5. \A i \in F : i \in Ids /\ Known(i)
    <2>1. snapshot.keys \in [Keys -> 0 .. MaxIds]
      BY TypesAre DEF Snapshot
    <2> QED BY <1>2, <1>4, <2>1, HoldersAre DEF Remembered, Known, Ids
  <1>6. \/ Throws
        \/ (\E i \in F : op' = Answer(i)) /\ UNCHANGED rows
        \/ op.kind # "rewrite" /\ op' = Absent /\ UNCHANGED rows /\ (writer # "carddav" => F = {})
    BY <1>2, <1>4, TypesAre DEF findByNaturalKey, ShapeOf
  <1>7. ASSUME NEW i \in F, op' = Answer(i), UNCHANGED rows
        PROVE  /\ i \in Ids /\ Known(i)
               /\ \/ op.kind = "rewrite" /\ Goes("check", i, op.ver, op.adopted, op.conflicted, op.blind)
                  \/ op.kind = "create" /\ writer = "imap" /\ Goes("stamp", i, op.ver, TRUE, op.conflicted, op.blind)
                  \/ op.kind = "create" /\ writer # "imap" /\ Goes("record", i, op.ver, TRUE, op.conflicted, op.blind)
    <2>1. i \in Ids /\ Known(i) /\ i \in 0 .. MaxIds
      BY <1>5 DEF Ids
    <2>2. CASE op.kind = "rewrite"
      <3>1. op' = [o EXCEPT !.id = i, !.at = "check"]
        BY <1>1, <1>7, <2>2 DEF Answer
      <3> QED BY <1>1, <2>1, <2>2, <3>1 DEF Goes, Op
    <2>3. CASE op.kind = "create" /\ writer = "imap"
      <3>1. op' = [o EXCEPT !.id = i, !.adopted = TRUE, !.at = "stamp"]
        BY <1>1, <1>7, <2>3 DEF Answer
      <3> QED BY <1>1, <2>1, <2>3, <3>1 DEF Goes, Op
    <2>4. CASE op.kind = "create" /\ writer # "imap"
      <3>1. op' = [o EXCEPT !.id = i, !.adopted = TRUE, !.at = "record"]
        BY <1>1, <1>7, <2>4 DEF Answer
      <3> QED BY <1>1, <2>1, <2>4, <3>1 DEF Goes, Op
    <2> QED BY <1>2, <2>1, <2>2, <2>3, <2>4
  <1>8. ASSUME op' = Absent, op.kind = "create"
        PROVE  \/ writer = "imap" /\ Goes("stamp", op.id, op.ver, op.adopted, op.conflicted, op.blind)
               \/ writer # "imap" /\ Goes("write", op.id, op.ver, op.adopted, op.conflicted, op.blind)
    <2>1. PICK at \in {"stamp", "write"} : at = IF writer = "imap" THEN "stamp" ELSE "write"
      OBVIOUS
    <2>2. op' = [o EXCEPT !.at = at]
      BY <1>1, <1>8, <2>1 DEF Absent
    <2>3. Goes(at, op.id, op.ver, op.adopted, op.conflicted, op.blind)
      BY <1>1, <2>2 DEF Goes, Op
    <2> QED BY <2>1, <2>3
  <1>9. F = {} /\ snapshot.at # "map" => Holders(op.key) = {}
    BY <1>4 DEF AsksTarget
  <1>10. CASE Throws
    BY <1>2, <1>3, <1>10
  <1>11. CASE (\E i \in F : op' = Answer(i)) /\ UNCHANGED rows
    BY <1>2, <1>3, <1>7, <1>11
  <1>12. CASE op.kind # "rewrite" /\ op' = Absent /\ UNCHANGED rows /\ (writer # "carddav" => F = {})
    BY <1>2, <1>3, <1>8, <1>9, <1>12
  <1> QED BY <1>6, <1>10, <1>11, <1>12

\* Reading UIDVALIDITY.
LEMMA StampIs ==
    ASSUME WritingTypes, uidValidityOf
    PROVE  /\ op.kind = "create" /\ op.at = "stamp" /\ writer = "imap" /\ Still /\ UNCHANGED rows
           /\ \/ op.adopted = TRUE /\ Goes("record", op.id, epoch, TRUE, op.conflicted, op.blind)
              \/ op.adopted = FALSE /\ Goes("write", op.id, epoch, FALSE, op.conflicted, op.blind)
  <1>1. PICK o \in Op : o = op
    BY TypesAre
  <1>2. op.at = "stamp" /\ op.kind = "create" /\ op.adopted \in BOOLEAN /\ writer = "imap"
    BY TypesAre, OpIs DEF uidValidityOf, ShapeOf, NoOp
  <1>3. PICK at \in {"record", "write"} : at = IF op.adopted THEN "record" ELSE "write"
    OBVIOUS
  <1>4. op' = [o EXCEPT !.ver = epoch, !.at = at]
    BY <1>1, <1>3 DEF uidValidityOf
  <1>5. Goes(at, op.id, epoch, op.adopted, op.conflicted, op.blind)
    <2>1. epoch \in 0 .. MaxClock + 1
      BY TypesAre
    <2> QED BY <1>1, <1>4, <2>1 DEF Goes, Op
  <1>6. (op.adopted = TRUE /\ at = "record") \/ (op.adopted = FALSE /\ at = "write")
    BY <1>2, <1>3
  <1>7. Still /\ UNCHANGED rows
    BY TypesAre DEF uidValidityOf, Still
  <1> QED BY <1>2, <1>5, <1>6, <1>7

\* What a writer learns.
LEMMA LearnIs ==
    ASSUME WritingTypes, NEW k \in Keys, NEW i \in 0 .. MaxIds
    PROVE  /\ Learn(k, i) \in Snapshot /\ Learn(k, i).at = snapshot.at
           /\ \A l \in Keys : Learn(k, i).keys[l] = snapshot.keys[l] \/ (l = k /\ Learn(k, i).keys[l] = i)
  <1>1. PICK s \in Snapshot : s = snapshot
    BY TypesAre
  <1>2. PICK m \in [Keys -> 0 .. MaxIds] : m = [s.keys EXCEPT ![k] = i]
    BY DEF Snapshot
  <1>3. Learn(k, i) = IF s.at = "map" THEN [s EXCEPT !.keys = m] ELSE s
    BY <1>1, <1>2 DEF Learn
  <1>4. s.keys \in [Keys -> 0 .. MaxIds] /\ [s EXCEPT !.keys = m] \in Snapshot /\ [s EXCEPT !.keys = m].keys = m
        /\ [s EXCEPT !.keys = m].at = s.at
    BY DEF Snapshot
  <1>5. \A l \in Keys : m[l] = s.keys[l] \/ (l = k /\ m[l] = i)
    BY <1>2, <1>4
  <1> QED BY <1>1, <1>3, <1>4, <1>5

\* A refusal for being there already.
LEMMA AlreadyIs ==
    ASSUME WritingTypes, AlreadyThere
    PROVE  /\ op.kind = "create" /\ op.at = "write" /\ writer # "imap" /\ UNCHANGED <<server, rows, changed, pass, wrong, used>>
           /\ snapshot' \in Snapshot
           /\ \E i \in Ids :
                 /\ i \in Holders(op.key)
                 /\ writer = "carddav" => \/ copies[i].ours = TRUE
                                          \/ \A j \in Holders(op.key) : copies[j].ours = FALSE
                 /\ \/ writer = "carddav" /\ Goes("record", i, op.ver, FALSE, op.conflicted, op.blind)
                    \/ writer # "carddav" /\ Goes("record", i, op.ver, TRUE, op.conflicted, op.blind)
                 /\ \A l \in Keys : snapshot'.keys[l] \in {0, snapshot.keys[l]} \/ (l = op.key /\ snapshot'.keys[l] = i)
  <1>1. PICK o \in Op : o = op
    BY TypesAre
  <1>2. op.kind = "create" /\ op.at = "write" /\ op.key \in Keys /\ copies \in [Ids -> Copy]
        /\ writer \in {"jmapMail", "jmapFile", "jmapContact", "imap", "carddav"}
    BY TypesAre DEF AlreadyThere, ShapeOf
  <1>3. PICK i \in MayRefuse(op.key) :
          /\ op' = [op EXCEPT !.at = "record", !.id = i, !.adopted = Upsert[writer].exists = "adopted"]
          /\ snapshot' = IF writer = "jmapFile" THEN NoSnapshot ELSE Learn(op.key, i)
    BY DEF AlreadyThere
  <1>4. i \in Holders(op.key) /\ writer # "imap"
    BY <1>2, <1>3 DEF MayRefuse, MustRefuse
  <1>5. i \in Ids /\ i \in 0 .. MaxIds
    BY <1>4, HoldersAre DEF Ids
  <1>6. writer = "carddav" => copies[i].ours = TRUE \/ \A j \in Holders(op.key) : copies[j].ours = FALSE
    <2>1. \A j \in Holders(op.key) : copies[j].ours \in BOOLEAN
      BY <1>2, HoldersAre DEF Copy
    <2> QED BY <1>3, <1>4, <2>1 DEF MayRefuse, MustRefuse
  <1>7. PICK a \in BOOLEAN : a = (writer # "carddav")
    OBVIOUS
  <1>8. op' = [o EXCEPT !.at = "record", !.id = i, !.adopted = a]
    <2>1. (Upsert[writer].exists = "adopted") = a
      BY <1>2, <1>4, <1>7 DEF Upsert, upsertEmail, upsertFile, upsertCard, uploadContact
    <2> QED BY <1>1, <1>3, <2>1
  <1>9. Goes("record", i, op.ver, a, op.conflicted, op.blind)
    BY <1>1, <1>5, <1>8 DEF Goes, Op
  <1>10. (writer = "carddav" /\ Goes("record", i, op.ver, FALSE, op.conflicted, op.blind))
         \/ (writer # "carddav" /\ Goes("record", i, op.ver, TRUE, op.conflicted, op.blind))
    BY <1>7, <1>9
  <1>11. NoSnapshot \in Snapshot /\ \A l \in Keys : NoSnapshot.keys[l] = 0
    BY DEF NoSnapshot, Snapshot
  <1>12. snapshot' \in Snapshot /\ \A l \in Keys : snapshot'.keys[l] \in {0, snapshot.keys[l]} \/ (l = op.key /\ snapshot'.keys[l] = i)
    BY <1>2, <1>3, <1>5, <1>11, LearnIs
  <1>13. UNCHANGED <<server, rows, changed, pass, wrong, used>>
    BY DEF AlreadyThere
  <1> QED BY <1>2, <1>4, <1>5, <1>6, <1>10, <1>12, <1>13

\* The write.
LEMMA CreateIs ==
    ASSUME WritingTypes, CreateCopy
    PROVE  /\ op.kind = "create" /\ op.at = "write" /\ op.key \in Keys /\ MustRefuse(op.key) = {}
           /\ UNCHANGED <<writer, bin, uidplus, folder, epoch, changed, pass, wrong>>
           /\ used' \in [owner: 0 .. MaxOwner, faults: 0 .. MaxFaults]
           /\ snapshot' \in Snapshot /\ (writer = "imap" => snapshot'.at = snapshot.at)
           /\ \E i \in Ids, v \in 0 .. MaxClock :
                 /\ i = nextId + 1 /\ v = clock + 1 /\ nextId' = i /\ clock' = v
                 /\ copies' = [copies EXCEPT ![i] = [key |-> op.key, ver |-> v, place |-> "folder", ours |-> TRUE, edited |-> FALSE]]
                 /\ \A l \in Keys : snapshot'.keys[l] = snapshot.keys[l] \/ (l = op.key /\ snapshot'.keys[l] = i)
                 /\ \/ Throws
                    \/ UNCHANGED rows /\ writer = "imap" /\ Goes("record", i, op.ver, op.adopted, op.conflicted, op.blind)
                    \/ UNCHANGED rows /\ writer = "imap" /\ Goes("rescan", i, op.ver, op.adopted, op.conflicted, op.blind)
                    \/ UNCHANGED rows /\ writer \in {"jmapFile", "jmapContact"} /\ Goes("readback", i, 0, op.adopted, op.conflicted, op.blind)
                    \/ UNCHANGED rows /\ writer \in {"jmapMail", "carddav"} /\ Goes("record", i, 0, op.adopted, op.conflicted, op.blind)
                    \/ UNCHANGED rows /\ writer = "carddav" /\ Goes("record", i, v, op.adopted, op.conflicted, op.blind)
  <1>1. PICK o \in Op : o = op
    BY TypesAre
  <1>2. /\ op.kind = "create" /\ op.at = "write" /\ op.key \in Keys /\ MustRefuse(op.key) = {}
        /\ nextId < MaxIds /\ clock < MaxClock
        /\ nextId \in 0 .. MaxIds /\ clock \in 0 .. MaxClock /\ MaxIds \in Nat /\ MaxClock \in Nat
        /\ writer \in {"jmapMail", "jmapFile", "jmapContact", "imap", "carddav"}
    BY TypesAre DEF CreateCopy, ShapeOf
  <1>3. PICK i \in Ids, v \in 0 .. MaxClock : i = nextId + 1 /\ v = clock + 1
    BY <1>2 DEF Ids
  <1>4. i \in 0 .. MaxIds /\ v \in 0 .. MaxClock + 1 /\ 0 \in 0 .. MaxClock + 1
    BY <1>2 DEF Ids
  <1>5. /\ nextId' = i /\ clock' = v
        /\ copies' = [copies EXCEPT ![i] = [key |-> op.key, ver |-> v, place |-> "folder", ours |-> TRUE, edited |-> FALSE]]
        /\ UNCHANGED <<writer, bin, uidplus, folder, epoch, changed, pass, wrong>>
    BY <1>3 DEF CreateCopy
  <1>6. \/ Throws /\ UNCHANGED snapshot
        \/ UNCHANGED rows /\ snapshot' = Learn(op.key, i) /\ \E e \in Etags : op' = AfterWrite(i, e)
    BY <1>3 DEF CreateCopy
  <1>7. used' \in [owner: 0 .. MaxOwner, faults: 0 .. MaxFaults]
    BY TypesAre, SpendIs DEF CreateCopy
  <1>8. /\ snapshot' \in Snapshot /\ (writer = "imap" => snapshot'.at = snapshot.at)
        /\ \A l \in Keys : snapshot'.keys[l] = snapshot.keys[l] \/ (l = op.key /\ snapshot'.keys[l] = i)
    BY <1>2, <1>4, <1>6, LearnIs, TypesAre
  <1>9. ASSUME NEW e \in Etags, op' = AfterWrite(i, e)
        PROVE  \/ writer = "imap" /\ Goes("record", i, op.ver, op.adopted, op.conflicted, op.blind)
               \/ writer = "imap" /\ Goes("rescan", i, op.ver, op.adopted, op.conflicted, op.blind)
               \/ writer \in {"jmapFile", "jmapContact"} /\ Goes("readback", i, 0, op.adopted, op.conflicted, op.blind)
               \/ writer \in {"jmapMail", "carddav"} /\ Goes("record", i, 0, op.adopted, op.conflicted, op.blind)
               \/ writer = "carddav" /\ Goes("record", i, v, op.adopted, op.conflicted, op.blind)
    <2>1. /\ e \in {0, v} /\ (writer # "carddav" => e = 0)
          /\ Upsert[writer].then \in {"record", "rescan", "readback"}
          /\ writer = "imap" => Upsert[writer].then \in {"record", "rescan"}
          /\ writer \in {"jmapFile", "jmapContact"} => Upsert[writer].then = "readback"
          /\ writer \in {"jmapMail", "carddav"} => Upsert[writer].then = "record"
      BY <1>2, <1>3 DEF Etags, Upsert, upsertEmail, upsertMessage, upsertFile, upsertCard, uploadContact
    <2>2. PICK at \in {"record", "rescan", "readback"} : at = Upsert[writer].then
      BY <2>1
    <2>3. CASE writer = "imap"
      <3>1. op' = [o EXCEPT !.id = i, !.ver = o.ver, !.at = at]
        BY <1>1, <1>9, <2>2, <2>3 DEF AfterWrite
      <3>2. Goes(at, i, op.ver, op.adopted, op.conflicted, op.blind)
        BY <1>1, <1>4, <3>1 DEF Goes, Op
      <3> QED BY <2>1, <2>2, <2>3, <3>2
    <2>4. CASE writer # "imap"
      <3>1. op' = [o EXCEPT !.id = i, !.ver = e, !.at = at]
        BY <1>1, <1>9, <2>2, <2>4 DEF AfterWrite
      <3>2. Goes(at, i, e, op.adopted, op.conflicted, op.blind)
        BY <1>1, <1>4, <2>1, <3>1 DEF Goes, Op
      <3> QED BY <1>2, <2>1, <2>2, <2>4, <3>2 DEF Rewrites
    <2> QED BY <2>3, <2>4
  <1>11. CASE Throws
    BY <1>2, <1>3, <1>5, <1>7, <1>8, <1>11
  <1>12. CASE UNCHANGED rows /\ \E e \in Etags : op' = AfterWrite(i, e)
    <2>1. \/ writer = "imap" /\ Goes("record", i, op.ver, op.adopted, op.conflicted, op.blind)
          \/ writer = "imap" /\ Goes("rescan", i, op.ver, op.adopted, op.conflicted, op.blind)
          \/ writer \in {"jmapFile", "jmapContact"} /\ Goes("readback", i, 0, op.adopted, op.conflicted, op.blind)
          \/ writer \in {"jmapMail", "carddav"} /\ Goes("record", i, 0, op.adopted, op.conflicted, op.blind)
          \/ writer = "carddav" /\ Goes("record", i, v, op.adopted, op.conflicted, op.blind)
      BY <1>9, <1>12
    <2> QED BY <1>2, <1>3, <1>5, <1>7, <1>8, <1>12, <2>1
  <1> QED BY <1>6, <1>11, <1>12

\* The search for what was appended.
LEMMA RescanIs ==
    ASSUME WritingTypes, Rescan
    PROVE  /\ op.kind = "create" /\ op.at = "rescan" /\ writer = "imap" /\ Still
           /\ \/ Throws
              \/ /\ UNCHANGED rows
                 /\ \E i \in Ids : i \in Holders(op.key) /\ Goes("record", i, op.ver, op.adopted, op.conflicted, op.blind)
  <1>1. PICK o \in Op : o = op
    BY TypesAre
  <1>2. op.kind = "create" /\ op.at = "rescan" /\ writer = "imap" /\ Still
    <2>1. op.kind = "create" /\ op.at = "rescan" /\ writer = "imap"
      <3>1. op.at = "rescan" /\ op \in Op /\ ShapeOf(op, rows)
        BY TypesAre DEF Rescan
      <3>2. op # NoOp
        BY <3>1 DEF NoOp
      <3> QED BY <3>1, <3>2, OpIs DEF ShapeOf
    <2>2. Still
      BY TypesAre DEF Rescan, Still
    <2> QED BY <2>1, <2>2
  <1>3. CASE Throws
    BY <1>2, <1>3
  <1>4. ASSUME NEW i \in Holders(op.key), op' = [op EXCEPT !.id = i, !.at = "record"], UNCHANGED rows
        PROVE  i \in Ids /\ Goes("record", i, op.ver, op.adopted, op.conflicted, op.blind)
    <2>1. i \in Ids /\ i \in 0 .. MaxIds
      BY HoldersAre DEF Ids
    <2>2. op' = [o EXCEPT !.id = i, !.at = "record"]
      BY <1>1, <1>4
    <2> QED BY <1>1, <2>1, <2>2 DEF Goes, Op
  <1> QED BY <1>2, <1>3, <1>4 DEF Rescan

\* A version is that of what can be read.
LEMMA PrintIs ==
    ASSUME WritingTypes
    PROVE  \A i : Fingerprint(i) = (IF i \in Shown THEN copies[i].ver ELSE 0) /\ Fingerprint(i) \in 0 .. MaxClock + 1
                  /\ Fingerprint(i) \in 0 .. MaxClock
  <1>1. \A i \in Shown : copies[i].ver \in 0 .. MaxClock
    BY TypesAre DEF Shown, Copy
  <1>2. \A i : Fingerprint(i) = IF i \in Shown THEN copies[i].ver ELSE 0
    BY DEF Fingerprint, storedNodeVersion, storedCardVersion, currentEtag
  <1>3. MaxClock \in Nat
    OBVIOUS
  <1> QED BY <1>1, <1>2, <1>3

\* Reading a copy back.
LEMMA ReadBackIs ==
    ASSUME WritingTypes, ReadBack
    PROVE  /\ op.kind \in {"create", "rewrite"} /\ op.at = "readback" /\ writer \in {"jmapFile", "jmapContact"} /\ Still /\ UNCHANGED rows
           /\ \E v \in 0 .. MaxClock + 1 : /\ v = 0 \/ (op.id \in Shown /\ v = copies[op.id].ver)
                                           /\ Goes("record", op.id, v, op.adopted, op.conflicted, op.blind)
  <1>1. PICK o \in Op : o = op
    BY TypesAre
  <1>2. op.kind \in {"create", "rewrite"} /\ op.at = "readback" /\ writer \in {"jmapFile", "jmapContact"}
    BY TypesAre, OpIs DEF ReadBack, ShapeOf, NoOp
  <1>3. Still /\ UNCHANGED rows
    BY TypesAre, SpendIs DEF ReadBack, Still
  <1>4. PICK v : v \in {0, Fingerprint(op.id)} /\ op' = [o EXCEPT !.ver = v, !.at = "record"]
    BY <1>1 DEF ReadBack
  <1>5. v \in 0 .. MaxClock + 1 /\ (v = 0 \/ (op.id \in Shown /\ v = copies[op.id].ver))
    BY <1>4, PrintIs
  <1>6. Goes("record", op.id, v, op.adopted, op.conflicted, op.blind)
    BY <1>1, <1>4, <1>5 DEF Goes, Op
  <1> QED BY <1>2, <1>3, <1>5, <1>6

\* The check of a version.
LEMMA CheckVersionIs ==
    ASSUME WritingTypes, CheckVersion
    PROVE  /\ op.kind \in {"rewrite", "remove"} /\ op.at = "check" /\ writer # "imap" /\ Still /\ UNCHANGED rows
           /\ \/ op.kind = "remove" /\ op' = NoOp
              \/ op.kind = "rewrite" /\ Goes("record", op.id, op.ver, op.adopted, TRUE, op.blind)
              \/ /\ rows[op.key].ver = 0 \/ op.id \notin Shown \/ copies[op.id].ver \in {0, rows[op.key].ver}
                 /\ \/ op.kind = "remove" /\ Goes("act", op.id, op.ver, op.adopted, op.conflicted, op.blind)
                    \/ op.kind = "rewrite" /\ Goes("write", op.id, op.ver, op.adopted, op.conflicted, op.blind)
              \/ op.kind = "remove" /\ Goes("act", op.id, op.ver, op.adopted, op.conflicted, TRUE)
              \/ op.kind = "rewrite" /\ Goes("write", op.id, op.ver, op.adopted, op.conflicted, TRUE)
  <1>1. PICK o \in Op : o = op
    BY TypesAre
  <1>2. op.kind \in {"rewrite", "remove"} /\ op.at = "check" /\ writer # "imap"
    BY TypesAre, OpIs DEF CheckVersion, ShapeOf, NoOp
  <1>3. Still /\ UNCHANGED rows
    BY TypesAre, SpendIs DEF CheckVersion, Still
  <1>4. PICK verdict : verdict = ownershipOf(rows[op.key].ver, Fingerprint(op.id))
    OBVIOUS
  <1>5. verdict \in {"ours", "changed"}
        /\ (verdict = "ours" => rows[op.key].ver = 0 \/ op.id \notin Shown \/ copies[op.id].ver \in {0, rows[op.key].ver})
    BY <1>4, PrintIs DEF ownershipOf
  <1>6. PICK at \in {"act", "write"} : at = IF op.kind = "remove" THEN "act" ELSE "write"
    OBVIOUS
  <1>7. \/ verdict = "changed" /\ op.kind = "remove" /\ op' = NoOp
        \/ verdict = "changed" /\ op.kind = "rewrite" /\ op' = [o EXCEPT !.at = "record", !.conflicted = TRUE]
        \/ verdict = "ours" /\ op' = [o EXCEPT !.at = at]
        \/ op' = [o EXCEPT !.blind = TRUE, !.at = at]
    <2>1. \/ op' = [op EXCEPT !.blind = TRUE, !.at = IF op.kind = "remove" THEN "act" ELSE "write"]
          \/ op' = CASE verdict = "changed" /\ op.kind = "remove" -> NoOp
                     [] verdict = "changed" /\ op.kind # "remove" ->
                            [op EXCEPT !.at = "record", !.conflicted = TRUE]
                     [] OTHER -> [op EXCEPT !.at = IF op.kind = "remove" THEN "act" ELSE "write"]
      BY <1>4 DEF CheckVersion
    <2>2. CASE op' = [op EXCEPT !.blind = TRUE, !.at = IF op.kind = "remove" THEN "act" ELSE "write"]
      BY <1>1, <1>6, <2>2
    <2>3. CASE verdict = "changed" /\ op.kind = "remove"
      BY <2>1, <2>2, <2>3
    <2>4. CASE verdict = "changed" /\ op.kind = "rewrite"
      BY <1>1, <2>1, <2>2, <2>4
    <2>5. CASE verdict = "ours"
      BY <1>1, <1>2, <1>6, <2>1, <2>2, <2>5
    <2> QED BY <1>2, <1>5, <2>3, <2>4, <2>5
  <1>8. CASE verdict = "changed" /\ op.kind = "remove" /\ op' = NoOp
    BY <1>2, <1>3, <1>8
  <1>9. CASE verdict = "changed" /\ op.kind = "rewrite" /\ op' = [o EXCEPT !.at = "record", !.conflicted = TRUE]
    <2>1. Goes("record", op.id, op.ver, op.adopted, TRUE, op.blind)
      BY <1>1, <1>9 DEF Goes, Op
    <2> QED BY <1>2, <1>3, <1>9, <2>1
  <1>10. CASE verdict = "ours" /\ op' = [o EXCEPT !.at = at]
    <2>1. Goes(at, op.id, op.ver, op.adopted, op.conflicted, op.blind)
      BY <1>1, <1>10 DEF Goes, Op
    <2> QED BY <1>2, <1>3, <1>5, <1>6, <1>10, <2>1
  <1>11. CASE op' = [o EXCEPT !.blind = TRUE, !.at = at]
    <2>1. Goes(at, op.id, op.ver, op.adopted, op.conflicted, TRUE)
      BY <1>1, <1>11 DEF Goes, Op
    <2> QED BY <1>2, <1>3, <1>6, <2>1
  <1> QED BY <1>7, <1>8, <1>9, <1>10, <1>11

\* The check of a UID.
LEMMA CheckUidIs ==
    ASSUME WritingTypes, CheckUid
    PROVE  /\ op.kind = "remove" /\ op.at = "check" /\ writer = "imap" /\ Still /\ UNCHANGED rows
           /\ \/ op' = NoOp
              \/ epoch = rows[op.key].ver /\ Goes("act", op.id, op.ver, op.adopted, op.conflicted, op.blind)
  <1>1. PICK o \in Op : o = op
    BY TypesAre
  <1>2. op.kind = "remove" /\ op.at = "check" /\ writer = "imap" /\ Still /\ UNCHANGED rows
    BY TypesAre, OpIs DEF CheckUid, ShapeOf, NoOp, Still, Rewrites
  <1>3. op' = NoOp \/ (epoch = rows[op.key].ver /\ op' = [o EXCEPT !.at = "act"])
    BY <1>1 DEF CheckUid
  <1>4. op' = [o EXCEPT !.at = "act"] => Goes("act", op.id, op.ver, op.adopted, op.conflicted, op.blind)
    BY <1>1 DEF Goes, Op
  <1> QED BY <1>2, <1>3, <1>4

\* Writing over a copy.
LEMMA RewriteIs ==
    ASSUME WritingTypes, RewriteCopy
    PROVE  /\ op.kind = "rewrite" /\ op.at = "write" /\ Rewrites /\ op.key \in Keys /\ op.id \in Ids /\ op.id <= nextId
           /\ UNCHANGED <<writer, bin, uidplus, folder, nextId, epoch, changed, pass, snapshot, wrong>>
           /\ used' \in [owner: 0 .. MaxOwner, faults: 0 .. MaxFaults]
           /\ \/ Throws /\ UNCHANGED <<copies, clock>>
              \/ \E v \in 0 .. MaxClock :
                   /\ v = clock + 1 /\ clock' = v
                   /\ copies' = [copies EXCEPT ![op.id] = [key |-> op.key, ver |-> v, place |-> "folder", ours |-> TRUE, edited |-> FALSE]]
                   /\ writer # "carddav" => op.id \in Shown
                   /\ \/ Throws
                      \/ UNCHANGED rows /\ writer # "carddav" /\ Goes("readback", op.id, 0, op.adopted, op.conflicted, op.blind)
                      \/ UNCHANGED rows /\ writer = "carddav" /\ Goes("record", op.id, 0, op.adopted, op.conflicted, op.blind)
                      \/ UNCHANGED rows /\ writer = "carddav" /\ Goes("record", op.id, v, op.adopted, op.conflicted, op.blind)
  <1>1. PICK o \in Op : o = op
    BY TypesAre
  <1>2. /\ op.kind = "rewrite" /\ op.at = "write" /\ Rewrites /\ op.key \in Keys /\ op.id # 0 /\ clock < MaxClock
        /\ clock \in 0 .. MaxClock /\ MaxClock \in Nat
        /\ writer \in {"jmapFile", "jmapContact", "carddav"}
    BY TypesAre DEF RewriteCopy, ShapeOf, Rewrites
  <1>3. op.id \in Ids /\ op.id <= nextId /\ op.id \in 0 .. MaxIds
    BY <1>2, TypesAre, OpIs DEF Ids
  <1>4. PICK v \in 0 .. MaxClock : v = clock + 1
    BY <1>2
  <1>5. UNCHANGED <<writer, bin, uidplus, folder, nextId, epoch, changed, pass, snapshot, wrong>>
        /\ used' \in [owner: 0 .. MaxOwner, faults: 0 .. MaxFaults]
    BY TypesAre, SpendIs DEF RewriteCopy
  <1>6. \/ Throws /\ UNCHANGED <<copies, clock>>
        \/ /\ writer # "carddav" => op.id \in Shown
           /\ copies' = [copies EXCEPT ![op.id] = [key |-> op.key, ver |-> v, place |-> "folder", ours |-> TRUE, edited |-> FALSE]]
           /\ clock' = v
           /\ Throws \/ (UNCHANGED rows /\ \E e \in Etags : op' = AfterWrite(op.id, e))
    BY <1>2, <1>4 DEF RewriteCopy, rewriteFile, rewriteCard
  <1>7. ASSUME NEW e \in Etags, op' = AfterWrite(op.id, e)
        PROVE  \/ writer # "carddav" /\ Goes("readback", op.id, 0, op.adopted, op.conflicted, op.blind)
               \/ writer = "carddav" /\ Goes("record", op.id, 0, op.adopted, op.conflicted, op.blind)
               \/ writer = "carddav" /\ Goes("record", op.id, v, op.adopted, op.conflicted, op.blind)
    <2>1. /\ e \in {0, v} /\ (writer # "carddav" => e = 0)
          /\ Upsert[writer].then = IF writer = "carddav" THEN "record" ELSE "readback"
      BY <1>2, <1>4 DEF Etags, Upsert, upsertFile, upsertCard, uploadContact
    <2>2. PICK at \in {"record", "readback"} : at = IF writer = "carddav" THEN "record" ELSE "readback"
      OBVIOUS
    <2>3. op' = [o EXCEPT !.id = o.id, !.ver = e, !.at = at]
      BY <1>1, <1>2, <1>7, <2>1, <2>2 DEF AfterWrite
    <2>4. e \in 0 .. MaxClock + 1
      BY <1>2, <2>1
    <2>5. Goes(at, op.id, e, op.adopted, op.conflicted, op.blind)
      BY <1>1, <2>3, <2>4 DEF Goes, Op
    <2> QED BY <2>1, <2>2, <2>5
  <1>8. CASE Throws /\ UNCHANGED <<copies, clock>>
    BY <1>2, <1>3, <1>5, <1>8
  <1>9. CASE /\ writer # "carddav" => op.id \in Shown
             /\ copies' = [copies EXCEPT ![op.id] = [key |-> op.key, ver |-> v, place |-> "folder", ours |-> TRUE, edited |-> FALSE]]
             /\ clock' = v
             /\ Throws \/ (UNCHANGED rows /\ \E e \in Etags : op' = AfterWrite(op.id, e))
    <2>1. Throws \/ (UNCHANGED rows /\ \/ writer # "carddav" /\ Goes("readback", op.id, 0, op.adopted, op.conflicted, op.blind)
                                       \/ writer = "carddav" /\ Goes("record", op.id, 0, op.adopted, op.conflicted, op.blind)
                                       \/ writer = "carddav" /\ Goes("record", op.id, v, op.adopted, op.conflicted, op.blind))
      BY <1>7, <1>9
    <2> QED BY <1>2, <1>3, <1>4, <1>5, <1>9, <2>1
  <1> QED BY <1>6, <1>8, <1>9

\* The ledger is told of a copy.
LEMMA RecordIs ==
    ASSUME WritingTypes, RecordCopy
    PROVE  /\ op.kind \in {"create", "rewrite"} /\ op.at = "record" /\ op.key \in Keys /\ op.id \in Ids /\ op' = NoOp
           /\ UNCHANGED <<server, pass, snapshot, wrong, used>> /\ changed' \subseteq Keys
           /\ \E r \in Row :
                 /\ rows' = [rows EXCEPT ![op.key] = r]
                 /\ \/ /\ op.conflicted = TRUE /\ r.status = "adopted"
                       /\ r.id = rows[op.key].id /\ r.ver = rows[op.key].ver
                    \/ /\ r.id = op.id /\ r.ver = IF op.ver = 0 THEN rows[op.key].ver ELSE op.ver
                       /\ \/ op.adopted = TRUE /\ r.status = "adopted"
                          \/ op.adopted = FALSE /\ r.status = "copied"
  <1>1. /\ op.kind \in {"create", "rewrite"} /\ op.at = "record" /\ op.key \in Keys /\ op.id # 0 /\ op.id \in 0 .. MaxIds
        /\ op.ver \in 0 .. MaxClock + 1 /\ op.adopted \in BOOLEAN /\ op.conflicted \in BOOLEAN
    BY TypesAre, OpIs DEF RecordCopy, ShapeOf
  <1>2. op.id \in Ids
    BY <1>1 DEF Ids
  <1>3. PICK o \in Row : o = rows[op.key]
    BY <1>1, TypesAre
  <1>4. o.id \in 0 .. MaxIds /\ o.ver \in 0 .. MaxClock + 1
    BY DEF Row
  <1>5. PICK v \in 0 .. MaxClock + 1 : v = IF op.ver = 0 THEN o.ver ELSE op.ver
    BY <1>1, <1>4
  <1>6. PICK st \in {"adopted", "copied"} : st = IF op.adopted THEN "adopted" ELSE "copied"
    OBVIOUS
  <1>7. PICK r : r = IF op.conflicted THEN [o EXCEPT !.status = "adopted"] ELSE [status |-> st, id |-> op.id, ver |-> v]
    OBVIOUS
  <1>8. [o EXCEPT !.status = "adopted"] \in Row /\ [status |-> st, id |-> op.id, ver |-> v] \in Row
    BY <1>1 DEF Row
  <1>9. rows' = [rows EXCEPT ![op.key] = r] /\ r \in Row
    BY <1>3, <1>5, <1>6, <1>7, <1>8, TypesAre DEF RecordCopy
  <1>10. \/ /\ op.conflicted = TRUE /\ r.status = "adopted" /\ r.id = o.id /\ r.ver = o.ver
         \/ /\ r.id = op.id /\ r.ver = v /\ r.status = st
    BY <1>1, <1>7 DEF Row
  <1>11. UNCHANGED <<server, pass, snapshot, wrong, used>> /\ changed' \subseteq Keys /\ op' = NoOp
    BY TypesAre DEF RecordCopy
  <1>12. (op.adopted = TRUE /\ st = "adopted") \/ (op.adopted = FALSE /\ st = "copied")
    BY <1>1, <1>6
  <1> QED BY <1>1, <1>2, <1>3, <1>5, <1>9, <1>10, <1>11, <1>12

\* A removal.
LEMMA RemoveIs ==
    ASSUME WritingTypes, removeItem
    PROVE  /\ op.kind = "remove" /\ op.at = "act" /\ op.key \in Keys /\ op.id \in Ids /\ op.id = rows[op.key].id
           /\ UNCHANGED <<writer, bin, uidplus, folder, nextId, epoch, clock, changed, pass, snapshot>>
           /\ used' \in [owner: 0 .. MaxOwner, faults: 0 .. MaxFaults]
           /\ \/ Throws /\ UNCHANGED <<copies, wrong>>
              \/ /\ UNCHANGED rows /\ wrong' \subseteq Ids
                 /\ \A i \in wrong' : i \in wrong \/ (i = op.id /\ copies[i].place # "nowhere" /\ copies[i].key # op.key)
                 /\ \/ Verifies /\ Goes("verify", op.id, op.ver, op.adopted, op.conflicted, op.blind)
                    \/ ~Verifies /\ Goes("record", op.id, op.ver, op.adopted, op.conflicted, op.blind)
                 /\ \/ Verifies /\ UNCHANGED copies
                    \/ \E c \in Copy :
                          /\ copies' = [copies EXCEPT ![op.id] = c]
                          /\ \/ c.place = "nowhere"
                             \/ /\ c.place = "bin" /\ bin = TRUE /\ writer \in {"jmapMail", "imap"} /\ copies[op.id].place # "nowhere"
                                /\ c.key = copies[op.id].key /\ c.ours = copies[op.id].ours
  <1>1. PICK o \in Op : o = op
    BY TypesAre
  <1>2. op.kind = "remove" /\ op.at = "act" /\ op.key \in Keys /\ op.id = rows[op.key].id /\ rows[op.key].status = "copied"
    BY TypesAre, OpIs DEF removeItem, ShapeOf, NoOp
  <1>3. op.id \in Ids
    BY <1>2, TypesAre DEF Ids
  <1>4. UNCHANGED <<writer, bin, uidplus, folder, nextId, epoch, clock, changed, pass, snapshot>>
        /\ used' \in [owner: 0 .. MaxOwner, faults: 0 .. MaxFaults]
    BY TypesAre, SpendIs DEF removeItem
  <1>5. CASE Removed(op.id) = {}
    BY <1>2, <1>3, <1>4, <1>5 DEF removeItem
  <1>6. CASE Removed(op.id) # {}
    <2>1. /\ UNCHANGED rows /\ wrong' = wrong \cup {i \in {op.id} \cap Live : copies[i].key # op.key}
          /\ op' = [op EXCEPT !.at = IF Verifies THEN "verify" ELSE "record"]
          /\ (Verifies /\ UNCHANGED copies) \/ \E c \in Removed(op.id) : copies' = [copies EXCEPT ![op.id] = c]
      BY <1>6 DEF removeItem
    <2>2. wrong' \subseteq Ids /\ \A i \in wrong' : i \in wrong \/ (i = op.id /\ copies[i].place # "nowhere" /\ copies[i].key # op.key)
      BY <2>1, <1>3, TypesAre DEF Live
    <2>3. PICK at \in {"verify", "record"} : at = IF Verifies THEN "verify" ELSE "record"
      OBVIOUS
    <2>4. op' = [o EXCEPT !.at = at]
      BY <1>1, <2>1, <2>3
    <2>5. Goes(at, op.id, op.ver, op.adopted, op.conflicted, op.blind)
      BY <1>1, <2>4 DEF Goes, Op
    <2>6. (Verifies /\ at = "verify") \/ (~Verifies /\ at = "record")
      BY <2>3
    <2>7. PICK old \in Copy : old = copies[op.id]
      BY <1>3, TypesAre
    <2>8. ASSUME NEW c \in Removed(op.id)
          PROVE  /\ c \in Copy
                 /\ \/ c.place = "nowhere"
                    \/ /\ c.place = "bin" /\ bin = TRUE /\ writer \in {"jmapMail", "imap"} /\ old.place # "nowhere"
                       /\ c.key = old.key /\ c.ours = old.ours
      <3>1. \/ c = NoCopy
            \/ c = [old EXCEPT !.place = "bin"] /\ bin = TRUE /\ writer \in {"jmapMail", "imap"} /\ Reaches(op.id)
        BY <2>7, <2>8, TypesAre DEF Removed, removeEmail, removeMessage, removeNode, removeCard, removeDavResource, trashMailboxId, findBin
      <3>2. NoCopy \in Copy /\ NoCopy.place = "nowhere"
        BY DEF NoCopy, Copy, Places
      <3>3. /\ [old EXCEPT !.place = "bin"] \in Copy /\ [old EXCEPT !.place = "bin"].place = "bin"
            /\ [old EXCEPT !.place = "bin"].key = old.key /\ [old EXCEPT !.place = "bin"].ours = old.ours
        BY DEF Copy, Places
      <3>4. Reaches(op.id) => old.place # "nowhere"
        BY <2>7 DEF Reaches, Live
      <3> QED BY <3>1, <3>2, <3>3, <3>4
    <2>9. \/ Verifies /\ UNCHANGED copies
          \/ \E c \in Copy :
                /\ copies' = [copies EXCEPT ![op.id] = c]
                /\ \/ c.place = "nowhere"
                   \/ /\ c.place = "bin" /\ bin = TRUE /\ writer \in {"jmapMail", "imap"} /\ copies[op.id].place # "nowhere"
                      /\ c.key = copies[op.id].key /\ c.ours = copies[op.id].ours
      BY <2>1, <2>7, <2>8
    <2>10. (Verifies /\ Goes("verify", op.id, op.ver, op.adopted, op.conflicted, op.blind))
           \/ (~Verifies /\ Goes("record", op.id, op.ver, op.adopted, op.conflicted, op.blind))
      BY <2>5, <2>6
    <2> QED BY <1>2, <1>3, <1>4, <2>1, <2>2, <2>9, <2>10
  <1> QED BY <1>5, <1>6

\* The second look.
LEMMA VerifyIs ==
    ASSUME WritingTypes, verifyGone
    PROVE  /\ op.kind = "remove" /\ op.at = "verify" /\ op.key \in Keys /\ op.id = rows[op.key].id /\ Still
           /\ \/ Throws
              \/ /\ UNCHANGED rows /\ Goes("record", op.id, op.ver, op.adopted, op.conflicted, op.blind)
                 /\ IF writer = "imap" THEN copies[op.id].place # "folder" ELSE copies[op.id].place = "bin"
  <1>1. PICK o \in Op : o = op
    BY TypesAre
  <1>2. op.kind = "remove" /\ op.at = "verify" /\ op.key \in Keys /\ op.id = rows[op.key].id
    BY TypesAre, OpIs DEF verifyGone, ShapeOf, NoOp
  <1>3. Still
    BY TypesAre DEF verifyGone, Still
  <1>4. \/ Throws
        \/ /\ op' = [o EXCEPT !.at = "record"] /\ UNCHANGED rows
           /\ IF writer = "imap" THEN copies[op.id].place # "folder" ELSE copies[op.id].place = "bin"
    BY <1>1 DEF verifyGone, Reaches
  <1>5. op' = [o EXCEPT !.at = "record"] => Goes("record", op.id, op.ver, op.adopted, op.conflicted, op.blind)
    BY <1>1 DEF Goes, Op
  <1> QED BY <1>2, <1>3, <1>4, <1>5

\* The ledger is told of a removal.
LEMMA RemovalIs ==
    ASSUME WritingTypes, RecordRemoval
    PROVE  /\ op.kind = "remove" /\ op.at = "record" /\ op.key \in Keys /\ op' = NoOp
           /\ UNCHANGED <<server, changed, pass, snapshot, wrong, used>>
           /\ \E r \in Row : /\ rows' = [rows EXCEPT ![op.key] = r] /\ r.status = "tombstoned"
                             /\ r.id = rows[op.key].id /\ r.ver = rows[op.key].ver
  <1>1. op.kind = "remove" /\ op.at = "record" /\ op.key \in Keys /\ op' = NoOp
        /\ UNCHANGED <<server, changed, pass, snapshot, wrong, used>>
    BY TypesAre DEF RecordRemoval, ShapeOf
  <1>2. PICK o \in Row : o = rows[op.key]
    BY <1>1, TypesAre
  <1>3. rows' = [rows EXCEPT ![op.key] = [o EXCEPT !.status = "tombstoned"]]
    BY <1>1, <1>2, TypesAre DEF RecordRemoval
  <1>4. /\ [o EXCEPT !.status = "tombstoned"] \in Row /\ [o EXCEPT !.status = "tombstoned"].status = "tombstoned"
        /\ [o EXCEPT !.status = "tombstoned"].id = o.id /\ [o EXCEPT !.status = "tombstoned"].ver = o.ver
    BY DEF Row
  <1> QED BY <1>1, <1>2, <1>3, <1>4

\* The operation, the rows and the account change together.
LEMMA AllKeep ==
    ASSUME WritingTypes, UNCHANGED <<writer, bin, uidplus, folder, epoch, changed, pass>>, wrong' \subseteq Ids,
           snapshot' \in Snapshot, used' \in [owner: 0 .. MaxOwner, faults: 0 .. MaxFaults],
           op' \in Op, rows' \in [Keys -> Row], ShapeOf(op', rows'), copies' \in [Ids -> Copy],
           nextId' \in 0 .. MaxIds, clock' \in 0 .. MaxClock, op'.id <= nextId',
           \A k \in Keys : rows'[k].id <= nextId' /\ snapshot'.keys[k] <= nextId',
           \A k \in Keys : rows'[k].status = "copied" => rows'[k].id # 0,
           \A i \in Ids : i > nextId' => copies'[i].place = "nowhere",
           \A i \in Ids : \/ copies'[i].place \in {"nowhere", "folder", copies[i].place}
                          \/ copies'[i].place = "bin" /\ writer \in {"jmapMail", "imap"}
    PROVE  WritingTypes'
  <1>1. PICK o, rs : o = op' /\ rs = rows'
    OBVIOUS
  <1>2. ShapeOf(o, rs)'
    BY <1>1 DEF ShapeOf, Rewrites
  <1>3. ShapeOf(op, rows)'
    BY <1>1, <1>2
  <1>4. Placed'
    BY DEF WritingTypes, Placed
  <1> QED BY <1>3, <1>4 DEF WritingTypes, WritingTypeOK, Numbered

\* The writes.
LEMMA WriteTypes ==
    ASSUME WritingTypes, CreateCopy \/ RewriteCopy
    PROVE  WritingTypes'
  <1>0. nextId \in 0 .. MaxIds /\ clock \in 0 .. MaxClock /\ MaxIds \in Nat /\ MaxClock \in Nat /\ copies \in [Ids -> Copy]
        /\ NoOp.id = 0 /\ snapshot \in Snapshot /\ (\A k \in Keys : rows[k].id \in Nat /\ snapshot.keys[k] \in Nat)
        /\ ShapeOf(op, rows) /\ op \in Op /\ rows \in [Keys -> Row] /\ wrong \subseteq Ids
        /\ op.id \in 0 .. MaxIds /\ op.id <= nextId
    BY TypesAre, OpIs DEF NoOp, Snapshot
  <1>1. CASE CreateCopy
    <2>1. PICK i \in Ids, v \in 0 .. MaxClock :
                 /\ i = nextId + 1 /\ v = clock + 1 /\ nextId' = i /\ clock' = v
                 /\ copies' = [copies EXCEPT ![i] = [key |-> op.key, ver |-> v, place |-> "folder", ours |-> TRUE, edited |-> FALSE]]
                 /\ \A l \in Keys : snapshot'.keys[l] = snapshot.keys[l] \/ (l = op.key /\ snapshot'.keys[l] = i)
                 /\ \/ Throws
                    \/ UNCHANGED rows /\ writer = "imap" /\ Goes("record", i, op.ver, op.adopted, op.conflicted, op.blind)
                    \/ UNCHANGED rows /\ writer = "imap" /\ Goes("rescan", i, op.ver, op.adopted, op.conflicted, op.blind)
                    \/ UNCHANGED rows /\ writer \in {"jmapFile", "jmapContact"} /\ Goes("readback", i, 0, op.adopted, op.conflicted, op.blind)
                    \/ UNCHANGED rows /\ writer \in {"jmapMail", "carddav"} /\ Goes("record", i, 0, op.adopted, op.conflicted, op.blind)
                    \/ UNCHANGED rows /\ writer = "carddav" /\ Goes("record", i, v, op.adopted, op.conflicted, op.blind)
      BY <1>1, CreateIs
    <2>2. /\ op.kind = "create" /\ op.key \in Keys /\ UNCHANGED <<writer, bin, uidplus, folder, epoch, changed, pass, wrong>>
          /\ used' \in [owner: 0 .. MaxOwner, faults: 0 .. MaxFaults] /\ snapshot' \in Snapshot
      BY <1>1, CreateIs
    <2>3. PICK c : c = [key |-> op.key, ver |-> v, place |-> "folder", ours |-> TRUE, edited |-> FALSE]
      OBVIOUS
    <2>4. c \in Copy /\ c.place = "folder"
      BY <2>2, <2>3 DEF Copy, Places
    <2>5. copies' = [copies EXCEPT ![i] = c]
      BY <2>1, <2>3
    <2>6. copies' \in [Ids -> Copy] /\ \A j \in Ids : copies'[j].place \in {"nowhere", "folder", copies[j].place}
      BY <1>0, <2>4, <2>5
    <2>7. \A j \in Ids : j > nextId' => copies'[j].place = "nowhere"
      BY <1>0, <2>1, <2>5, TypesAre DEF Ids
    <2>8. nextId' \in 0 .. MaxIds /\ nextId < nextId' /\ i \in 0 .. MaxIds /\ i # 0
      BY <1>0, <2>1 DEF Ids
    <2>9. /\ op' \in Op /\ rows' \in [Keys -> Row] /\ ShapeOf(op', rows') /\ op'.id <= nextId'
          /\ \A k \in Keys : rows'[k].id = rows[k].id /\ (rows'[k].status = "copied" => rows[k].status = "copied")
      <3>1. CASE Throws
        <4>1. op' = NoOp /\ rows' \in [Keys -> Row] /\ \A k \in Keys : rows'[k].id = rows[k].id /\ (rows'[k].status = "copied" => rows[k].status = "copied")
          BY <3>1, <2>2, ThrowsIs
        <4>2. op' \in Op /\ ShapeOf(op', rows') /\ op'.id = 0
          BY <1>0, <4>1, NoOpIs
        <4>3. op'.id <= nextId'
          BY <1>0, <2>8, <4>2
        <4> QED BY <4>1, <4>2, <4>3
      <3>2. CASE \/ UNCHANGED rows /\ writer = "imap" /\ Goes("record", i, op.ver, op.adopted, op.conflicted, op.blind)
                 \/ UNCHANGED rows /\ writer = "imap" /\ Goes("rescan", i, op.ver, op.adopted, op.conflicted, op.blind)
                 \/ UNCHANGED rows /\ writer \in {"jmapFile", "jmapContact"} /\ Goes("readback", i, 0, op.adopted, op.conflicted, op.blind)
                 \/ UNCHANGED rows /\ writer \in {"jmapMail", "carddav"} /\ Goes("record", i, 0, op.adopted, op.conflicted, op.blind)
                 \/ UNCHANGED rows /\ writer = "carddav" /\ Goes("record", i, v, op.adopted, op.conflicted, op.blind)
        <4>1. /\ UNCHANGED rows /\ op' \in Op /\ op'.id = i /\ op'.kind = "create" /\ op'.key = op.key
              /\ op'.at \in {"record", "rescan", "readback"} /\ (op'.at = "rescan" => writer = "imap") /\ (op'.at = "readback" => writer \in {"jmapFile", "jmapContact"})
          BY <2>2, <3>2 DEF Goes
        <4>2. ShapeOf(op', rows)
          BY <1>0, <2>2, <2>8, <4>1 DEF ShapeOf
        <4>3. op'.id <= nextId'
          BY <1>0, <2>1, <2>8, <4>1
        <4> QED BY <1>0, <4>1, <4>2, <4>3
      <3> QED BY <2>1, <3>1, <3>2
    <2>10. \A k \in Keys : rows'[k].id <= nextId' /\ snapshot'.keys[k] <= nextId'
      <3>1. ASSUME NEW k \in Keys PROVE rows'[k].id <= nextId' /\ snapshot'.keys[k] <= nextId'
        <4>1. rows'[k].id = rows[k].id /\ rows[k].id <= nextId /\ snapshot.keys[k] <= nextId /\ snapshot'.keys[k] \in {snapshot.keys[k], i}
          BY <2>1, <2>9, TypesAre
        <4> QED BY <1>0, <2>1, <2>8, <4>1
      <3> QED BY <3>1
    <2>11. \A k \in Keys : rows'[k].status = "copied" => rows'[k].id # 0
      BY <2>9, TypesAre
    <2> QED BY <1>0, <2>1, <2>2, <2>6, <2>7, <2>8, <2>9, <2>10, <2>11, AllKeep
  <1>2. CASE RewriteCopy
    <2>1. /\ op.kind = "rewrite" /\ op.key \in Keys /\ op.id \in Ids /\ op.id <= nextId
          /\ UNCHANGED <<writer, bin, uidplus, folder, nextId, epoch, changed, pass, snapshot, wrong>>
          /\ used' \in [owner: 0 .. MaxOwner, faults: 0 .. MaxFaults] /\ Rewrites
      BY <1>2, RewriteIs
    <2>2. /\ clock' \in 0 .. MaxClock /\ copies' \in [Ids -> Copy]
          /\ \A j \in Ids : copies'[j].place \in {"nowhere", "folder", copies[j].place}
          /\ \A j \in Ids : j > nextId => copies'[j].place = "nowhere"
      <3>1. CASE UNCHANGED <<copies, clock>>
        BY <1>0, <3>1, TypesAre
      <3>2. ASSUME NEW v \in 0 .. MaxClock, clock' = v,
                   copies' = [copies EXCEPT ![op.id] = [key |-> op.key, ver |-> v, place |-> "folder", ours |-> TRUE, edited |-> FALSE]]
            PROVE  /\ clock' \in 0 .. MaxClock /\ copies' \in [Ids -> Copy]
                   /\ \A j \in Ids : copies'[j].place \in {"nowhere", "folder", copies[j].place}
                   /\ \A j \in Ids : j > nextId => copies'[j].place = "nowhere"
        <4>1. PICK c : c = [key |-> op.key, ver |-> v, place |-> "folder", ours |-> TRUE, edited |-> FALSE]
          OBVIOUS
        <4>2. c \in Copy /\ c.place = "folder"
          BY <2>1, <4>1 DEF Copy, Places
        <4>3. copies' = [copies EXCEPT ![op.id] = c]
          BY <3>2, <4>1
        <4>4. \A j \in Ids : j > nextId => j # op.id
          BY <1>0 DEF Ids
        <4> QED BY <1>0, <2>1, <3>2, <4>2, <4>3, <4>4, TypesAre
      <3> QED BY <1>2, <3>1, <3>2, RewriteIs
    <2>3. /\ op' \in Op /\ rows' \in [Keys -> Row] /\ ShapeOf(op', rows') /\ op'.id <= nextId
          /\ \A k \in Keys : rows'[k].id = rows[k].id /\ (rows'[k].status = "copied" => rows[k].status = "copied")
      <3>1. CASE Throws
        <4>1. op' = NoOp /\ rows' \in [Keys -> Row] /\ \A k \in Keys : rows'[k].id = rows[k].id /\ (rows'[k].status = "copied" => rows[k].status = "copied")
          BY <2>1, <3>1, ThrowsIs
        <4>2. op' \in Op /\ ShapeOf(op', rows') /\ op'.id = 0
          BY <1>0, <4>1, NoOpIs
        <4>3. op'.id <= nextId
          BY <1>0, <4>2
        <4> QED BY <4>1, <4>2, <4>3
      <3>2. CASE ~Throws
        <4>1. /\ UNCHANGED rows /\ op' \in Op /\ op'.id = op.id /\ op'.kind = "rewrite" /\ op'.key = op.key
              /\ op'.at \in {"record", "readback"} /\ op'.adopted = op.adopted
              /\ op'.at = "readback" => writer \in {"jmapFile", "jmapContact"}
          BY <1>2, <2>1, <3>2, RewriteIs, TypesAre DEF Goes, Rewrites
        <4>2. op.id # 0
          BY <2>1 DEF Ids
        <4>3. ShapeOf(op', rows)
          BY <1>0, <2>1, <4>1, <4>2 DEF ShapeOf
        <4> QED BY <1>0, <4>1, <4>3
      <3> QED BY <3>1, <3>2
    <2>4. \A k \in Keys : rows'[k].id <= nextId /\ snapshot'.keys[k] <= nextId
      BY <2>1, <2>3, TypesAre
    <2>5. \A k \in Keys : rows'[k].status = "copied" => rows'[k].id # 0
      BY <2>3, TypesAre
    <2>6. nextId' = nextId
      BY <2>1
    <2> QED BY <1>0, <2>1, <2>2, <2>3, <2>4, <2>5, <2>6, AllKeep
  <1> QED BY <1>1, <1>2

\* The removal.
LEMMA RemoveTypes ==
    ASSUME WritingTypes, removeItem
    PROVE  WritingTypes'
  <1>0. nextId \in 0 .. MaxIds /\ clock \in 0 .. MaxClock /\ copies \in [Ids -> Copy] /\ snapshot \in Snapshot
        /\ ShapeOf(op, rows) /\ op \in Op /\ rows \in [Keys -> Row] /\ wrong \subseteq Ids /\ op.id <= nextId
        /\ \A k \in Keys : rows[k].id <= nextId /\ snapshot.keys[k] <= nextId /\ (rows[k].status = "copied" => rows[k].id # 0)
    BY TypesAre
  <1>1. /\ op.kind = "remove" /\ op.key \in Keys /\ op.id \in Ids
        /\ UNCHANGED <<writer, bin, uidplus, folder, nextId, epoch, clock, changed, pass, snapshot>>
        /\ used' \in [owner: 0 .. MaxOwner, faults: 0 .. MaxFaults]
    BY RemoveIs
  <1>2. CASE Throws /\ UNCHANGED <<copies, wrong>>
    BY <1>1, <1>2, ThrowKeeps DEF server
  <1>3. CASE ~(Throws /\ UNCHANGED <<copies, wrong>>)
    <2>1. /\ UNCHANGED rows /\ wrong' \subseteq Ids /\ op' \in Op /\ op'.id = op.id /\ op'.kind = "remove" /\ op'.key = op.key
          /\ op'.at \in {"verify", "record"} /\ op'.adopted = op.adopted
      BY <1>1, <1>3, RemoveIs DEF Goes
    <2>2. ShapeOf(op', rows')
      BY <1>0, <1>1, <2>1 DEF ShapeOf, Ids
    <2>3. /\ copies' \in [Ids -> Copy]
          /\ \A i \in Ids : i > nextId => copies'[i].place = "nowhere"
          /\ \A i \in Ids : \/ copies'[i].place \in {"nowhere", copies[i].place}
                            \/ copies'[i].place = "bin" /\ writer \in {"jmapMail", "imap"}
      <3>1. CASE UNCHANGED copies
        BY <1>0, <3>1, TypesAre
      <3>2. CASE ~UNCHANGED copies
        <4>1. PICK c \in Copy :
                  /\ copies' = [copies EXCEPT ![op.id] = c]
                  /\ c.place = "nowhere" \/ (c.place = "bin" /\ writer \in {"jmapMail", "imap"} /\ copies[op.id].place # "nowhere")
          BY <1>3, <3>2, RemoveIs
        <4> QED BY <1>0, <1>1, <4>1, TypesAre
      <3> QED BY <3>1, <3>2
    <2>4. nextId' = nextId /\ op'.id <= nextId'
      BY <1>0, <1>1, <2>1
    <2> QED BY <1>0, <1>1, <2>1, <2>2, <2>3, <2>4, AllKeep
  <1> QED BY <1>2, <1>3

\* The other steps of an operation.
LEMMA OpTypes ==
    ASSUME WritingTypes, OpNext
    PROVE  WritingTypes'
  <1>0. /\ nextId \in 0 .. MaxIds /\ snapshot \in Snapshot /\ NoOp.id <= nextId /\ MaxIds \in Nat
        /\ ShapeOf(op, rows) /\ op \in Op /\ rows \in [Keys -> Row] /\ wrong \subseteq Ids /\ op.id <= nextId /\ pass \in Pass
        /\ changed \subseteq Keys /\ used \in [owner: 0 .. MaxOwner, faults: 0 .. MaxFaults]
        /\ \A k \in Keys : rows[k].id <= nextId /\ snapshot.keys[k] <= nextId /\ (rows[k].status = "copied" => rows[k].id # 0)
        /\ snapshot.keys \in [Keys -> 0 .. MaxIds]
    BY TypesAre DEF NoOp, Snapshot
  <1>1. CASE targetKeys
    <2>1. snapshot' \in Snapshot
      BY <1>1, ListedIs
    <2>2. ASSUME NEW k \in Keys PROVE snapshot'.keys[k] <= nextId
      <3>1. \/ snapshot'.keys[k] \in {0, snapshot.keys[k]}
            \/ snapshot'.keys[k] \in Ids /\ copies[snapshot'.keys[k]].place # "nowhere"
        BY <1>1, ListedIs
      <3>2. \A i \in Ids : copies[i].place # "nowhere" => i <= nextId
        BY <1>0, TypesAre DEF Ids
      <3>3. 0 <= nextId
        BY <1>0
      <3> QED BY <1>0, <3>1, <3>2, <3>3
    <2>3. used' \in [owner: 0 .. MaxOwner, faults: 0 .. MaxFaults] /\ UNCHANGED <<server, rows, changed, pass, op, wrong>>
      BY <1>0, <1>1, SpendIs DEF targetKeys
    <2> QED BY <1>0, <2>1, <2>2, <2>3, OpKeeps
  <1>2. ASSUME Still, UNCHANGED rows, NEW i \in Ids, i <= nextId, op' \in Op, op'.id = i, op'.kind = op.kind, op'.key = op.key, ShapeOf(op', rows)
        PROVE  WritingTypes'
    BY <1>2, GoesOnKeeps DEF Still
  <1>3. CASE findByNaturalKey
    <2>1. Still /\ op.kind \in {"create", "rewrite"} /\ op.at = "lookup" /\ op.key \in Keys
      BY <1>0, <1>3, LookupIs DEF ShapeOf
    <2>2. CASE Throws
      BY <2>1, <2>2, ThrowKeeps DEF Still
    <2>3. \A i \in Ids : Known(i) => i <= nextId /\ i # 0
      BY <1>0, <2>1, HoldersAre DEF Known, Ids
    <2>4. ASSUME op.kind = "rewrite", UNCHANGED rows, NEW i \in Ids, Known(i), Goes("check", i, op.ver, op.adopted, op.conflicted, op.blind)
          PROVE  WritingTypes'
      <3>1. op' \in Op /\ op'.kind = "rewrite" /\ op'.key = op.key /\ op'.at = "check" /\ op'.id = i /\ op'.adopted = op.adopted
        BY <2>4 DEF Goes
      <3>2. ShapeOf(op', rows)
        BY <1>0, <2>1, <2>3, <2>4, <3>1 DEF ShapeOf
      <3> QED BY <1>2, <2>1, <2>3, <2>4, <3>1, <3>2
    <2>5. ASSUME op.kind = "create", UNCHANGED rows, NEW i \in Ids, Known(i), NEW at \in {"stamp", "record"}, at = "stamp" => writer = "imap",
                 Goes(at, i, op.ver, TRUE, op.conflicted, op.blind)
          PROVE  WritingTypes'
      <3>1. op' \in Op /\ op'.kind = "create" /\ op'.key = op.key /\ op'.at = at /\ op'.id = i
        BY <2>5 DEF Goes
      <3>2. ShapeOf(op', rows)
        BY <1>0, <2>1, <2>3, <2>5, <3>1 DEF ShapeOf
      <3> QED BY <1>2, <2>1, <2>3, <2>5, <3>1, <3>2
    <2>6. ASSUME op.kind = "create", UNCHANGED rows, NEW at \in {"stamp", "write"}, at = "stamp" => writer = "imap",
                 Goes(at, op.id, op.ver, op.adopted, op.conflicted, op.blind)
          PROVE  WritingTypes'
      <3>1. op' \in Op /\ op'.kind = "create" /\ op'.key = op.key /\ op'.at = at /\ op'.id = op.id /\ op'.adopted = op.adopted
        BY <2>6 DEF Goes
      <3>2. ShapeOf(op', rows)
        BY <1>0, <2>1, <2>6, <3>1 DEF ShapeOf
      <3> QED BY <1>0, <2>1, <2>6, <3>1, <3>2, GoesOnKeeps DEF Still
    <2> QED BY <1>3, <2>2, <2>4, <2>5, <2>6, LookupIs
  <1>4. CASE uidValidityOf
    <2>1. /\ Still /\ UNCHANGED rows /\ op.kind = "create" /\ writer = "imap" /\ op' \in Op /\ op'.kind = "create" /\ op'.key = op.key
          /\ op'.id = op.id /\ op'.adopted = op.adopted
          /\ (op'.at = "record" /\ op.adopted = TRUE) \/ op'.at = "write"
      BY <1>4, StampIs DEF Goes
    <2>2. ShapeOf(op', rows)
      BY <1>0, <2>1 DEF ShapeOf
    <2> QED BY <1>0, <2>1, <2>2, GoesOnKeeps DEF Still
  <1>5. CASE AlreadyThere
    <2>1. PICK i \in Ids : /\ i \in Holders(op.key) /\ op' \in Op /\ op'.kind = "create" /\ op'.key = op.key /\ op'.at = "record" /\ op'.id = i
                           /\ \A l \in Keys : snapshot'.keys[l] \in {0, snapshot.keys[l]} \/ (l = op.key /\ snapshot'.keys[l] = i)
      BY <1>5, AlreadyIs DEF Goes
    <2>2. /\ op.kind = "create" /\ snapshot' \in Snapshot /\ UNCHANGED <<server, rows, changed, pass, wrong, used>>
      BY <1>5, AlreadyIs
    <2>3. i <= nextId /\ i # 0
      BY <2>1, HoldersAre DEF Ids
    <2>4. ShapeOf(op', rows)
      BY <1>0, <2>1, <2>2, <2>3 DEF ShapeOf
    <2>5. \A l \in Keys : snapshot'.keys[l] <= nextId
      BY <1>0, <2>1, <2>3
    <2>6. ShapeOf(op', rows')
      BY <2>2, <2>4
    <2> QED BY <1>0, <2>1, <2>2, <2>3, <2>5, <2>6, OpKeeps
  <1>6. CASE CreateCopy \/ RewriteCopy
    BY <1>6, WriteTypes
  <1>7. CASE NoFolder
    <2>1. op.kind # "none" /\ Throws /\ UNCHANGED <<server, changed, pass, snapshot, wrong, used>>
      BY <1>7 DEF NoFolder
    <2> QED BY <1>0, <2>1, ThrowKeeps
  <1>8. CASE Rescan
    <2>1. Still /\ op.kind = "create" /\ writer = "imap" /\ op.at = "rescan"
      BY <1>8, RescanIs
    <2>2. CASE Throws
      BY <2>1, <2>2, ThrowKeeps DEF Still
    <2>3. ASSUME UNCHANGED rows, NEW i \in Ids, i \in Holders(op.key), Goes("record", i, op.ver, op.adopted, op.conflicted, op.blind)
          PROVE  WritingTypes'
      <3>1. op' \in Op /\ op'.kind = "create" /\ op'.key = op.key /\ op'.at = "record" /\ op'.id = i /\ i # 0 /\ i <= nextId
        BY <2>1, <2>3, HoldersAre DEF Goes, Ids
      <3>2. ShapeOf(op', rows)
        BY <1>0, <2>1, <3>1 DEF ShapeOf
      <3> QED BY <1>2, <2>1, <2>3, <3>1, <3>2
    <2> QED BY <1>8, <2>2, <2>3, RescanIs
  <1>9. CASE ReadBack
    <2>1. /\ Still /\ UNCHANGED rows /\ op.kind \in {"create", "rewrite"} /\ op.at = "readback" /\ op' \in Op /\ op'.kind = op.kind /\ op'.key = op.key
          /\ op'.id = op.id /\ op'.at = "record" /\ op'.adopted = op.adopted
      BY <1>9, ReadBackIs DEF Goes
    <2>2. ShapeOf(op', rows)
      BY <1>0, <2>1 DEF ShapeOf
    <2> QED BY <1>0, <2>1, <2>2, GoesOnKeeps DEF Still
  <1>10. CASE CheckVersion \/ CheckUid
    <2>1. /\ Still /\ UNCHANGED rows /\ op.kind \in {"rewrite", "remove"} /\ op.at = "check"
      BY <1>10, CheckVersionIs, CheckUidIs
    <2>2. CASE op' = NoOp
      <3>1. op' \in Op /\ ShapeOf(op', rows) /\ op'.id <= nextId
        BY <1>0, <2>2, NoOpIs
      <3> QED BY <2>1, <3>1, GoesOnKeeps DEF Still
    <2>3. CASE op' # NoOp
      <3>1. /\ op' \in Op /\ op'.kind = op.kind /\ op'.key = op.key /\ op'.id = op.id /\ op'.adopted = op.adopted
            /\ (op.kind = "remove" /\ op'.at = "act") \/ (op.kind = "rewrite" /\ op'.at \in {"record", "write"})
        BY <1>10, <2>3, CheckVersionIs, CheckUidIs DEF Goes
      <3>2. ShapeOf(op', rows)
        BY <1>0, <2>1, <3>1 DEF ShapeOf
      <3> QED BY <1>0, <2>1, <3>1, <3>2, GoesOnKeeps DEF Still
    <2> QED BY <2>2, <2>3
  <1>11. CASE RecordCopy \/ RecordRemoval
    <2>1. /\ op' = NoOp /\ UNCHANGED <<server, pass, snapshot, wrong, used>> /\ changed' \subseteq Keys /\ op.key \in Keys
      <3>1. CASE RecordCopy
        BY <3>1, RecordIs
      <3>2. CASE RecordRemoval
        BY <1>0, <3>2, RemovalIs
      <3> QED BY <1>11, <3>1, <3>2
    <2>2. PICK r \in Row : rows' = [rows EXCEPT ![op.key] = r] /\ r.id \in {op.id, rows[op.key].id}
                           /\ (r.status = "copied" => r.id # 0)
      <3>1. CASE RecordCopy
        <4>1. op.id # 0
          BY <3>1, RecordIs DEF Ids
        <4> QED BY <3>1, <4>1, RecordIs
      <3>2. CASE RecordRemoval
        BY <3>2, RemovalIs
      <3> QED BY <1>11, <3>1, <3>2
    <2>3. rows' \in [Keys -> Row] /\ \A k \in Keys : rows'[k].id <= nextId /\ (rows'[k].status = "copied" => rows'[k].id # 0)
      BY <1>0, <2>1, <2>2
    <2>4. op' \in Op /\ ShapeOf(op', rows') /\ op'.id <= nextId
      BY <1>0, <2>1, NoOpIs
    <2> QED BY <1>0, <2>1, <2>3, <2>4, OpKeeps
  <1>12. CASE removeItem
    BY <1>12, RemoveTypes
  <1>13. CASE verifyGone
    <2>1. Still /\ op.kind = "remove" /\ op.at = "verify"
      BY <1>13, VerifyIs
    <2>2. CASE Throws
      BY <2>1, <2>2, ThrowKeeps DEF Still
    <2>3. CASE UNCHANGED rows /\ Goes("record", op.id, op.ver, op.adopted, op.conflicted, op.blind)
      <3>1. op' \in Op /\ op'.kind = "remove" /\ op'.key = op.key /\ op'.at = "record" /\ op'.id = op.id /\ op'.adopted = op.adopted
        BY <2>1, <2>3 DEF Goes
      <3>2. ShapeOf(op', rows)
        <4>1. op.id # 0 /\ op.id = rows[op.key].id
          BY <1>0, <2>1 DEF ShapeOf
        <4> QED BY <1>0, <2>1, <3>1, <4>1 DEF ShapeOf
      <3> QED BY <1>0, <2>1, <2>3, <3>1, <3>2, GoesOnKeeps DEF Still
    <2> QED BY <1>13, <2>2, <2>3, VerifyIs
  <1> QED BY <1>1, <1>3, <1>4, <1>5, <1>6, <1>7, <1>8, <1>9, <1>10, <1>11, <1>12, <1>13 DEF OpNext

\* Types hold at first.
LEMMA TypesInit ==
    ASSUME WritingInit
    PROVE  WritingTypes
  <1>1. WritingTypeOK
    <2>1. NoCopy \in Copy /\ NoRow \in Row /\ NoSnapshot \in Snapshot /\ op \in Op
      BY NoOpIs DEF WritingInit, NoCopy, Copy, Places, NoRow, Row, NoSnapshot, Snapshot
    <2>2. pass \in Pass /\ used \in [owner: 0 .. MaxOwner, faults: 0 .. MaxFaults]
      BY DEF WritingInit, Pass
    <2>3. writer \in Writers /\ bin \in BOOLEAN /\ uidplus \in BOOLEAN /\ folder \in {"absent", "there", "blocked"}
      BY DEF WritingInit
    <2>4. copies \in [Ids -> Copy] /\ rows \in [Keys -> Row] /\ snapshot \in Snapshot
      BY <2>1 DEF WritingInit
    <2>5. nextId \in 0 .. MaxIds /\ epoch \in 1 .. MaxClock + 1 /\ clock \in 0 .. MaxClock /\ changed \subseteq Keys /\ wrong \subseteq Ids
      BY DEF WritingInit
    <2> QED BY <2>1, <2>2, <2>3, <2>4, <2>5 DEF WritingTypeOK
  <1>2. ShapeOf(op, rows)
    BY NoOpIs DEF WritingInit
  <1>3. Numbered
    BY DEF WritingInit, Numbered, NoOp, NoRow, NoSnapshot, NoCopy, Ids
  <1>4. Placed
    BY DEF WritingInit, Placed, NoCopy
  <1> QED BY <1>1, <1>2, <1>3, <1>4 DEF WritingTypes

\* And are kept.
LEMMA TypesStep ==
    ASSUME WritingTypes, [WritingNext]_vars
    PROVE  WritingTypes'
  <1>1. CASE UNCHANGED vars
    BY <1>1 DEF vars, WritingTypes, WritingTypeOK, ShapeOf, Rewrites, Numbered, Placed
  <1> QED BY <1>1, PassTypes, OpTypes, ItemTypes, OwnerTypes DEF WritingNext

-----------------------------------------------------------------------------
(* An id stands for one key.                                               *)

\* It stood for the key, or is the next one and is given to q.
StandsOr(i, k, q) == Stands(i, k) \/ (i = nextId + 1 /\ k = q)

\* No new id for two keys.
LEMMA OneKeyKeeps ==
    ASSUME WritingTypes, OneKey, writer' = writer, NEW q,
           \A k \in Keys : rows'[k].id \in Ids => StandsOr(rows'[k].id, k, q),
           \A k \in Keys : snapshot'.keys[k] \in Ids => StandsOr(snapshot'.keys[k], k, q),
           op'.id \in Ids => StandsOr(op'.id, op'.key, q),
           \A i \in Ids : copies'[i].place # "nowhere" => StandsOr(i, copies'[i].key, q)
    PROVE  OneKey'
  <1>1. ASSUME NEW i \in Ids, NEW k \in Keys \cup {NoKey}, Stands(i, k)'
        PROVE  StandsOr(i, k, q)
    BY <1>1 DEF Stands
  <1>2. ASSUME NEW i \in Ids, i = nextId + 1, NEW k \in Keys \cup {NoKey}
        PROVE  ~Stands(i, k)
    <2>1. nextId \in Nat /\ op.id \in 0 .. MaxIds /\ op.id <= nextId /\ copies[i].place = "nowhere"
      BY <1>2, TypesAre, OpIs DEF Ids
    <2>2. \A l \in Keys : rows[l].id <= nextId /\ snapshot.keys[l] <= nextId
      BY TypesAre
    <2>3. \A l \in Keys : rows[l].id \in 0 .. MaxIds /\ snapshot.keys[l] \in 0 .. MaxIds
      BY TypesAre DEF Snapshot
    <2>4. \A l \in Keys : rows[l].id # i /\ snapshot.keys[l] # i
      BY <1>2, <2>1, <2>2, <2>3
    <2>5. op.id # i
      BY <1>2, <2>1
    <2> QED BY <2>1, <2>4, <2>5 DEF Stands
  <1>3. ASSUME NEW i \in Ids, NEW k \in Keys \cup {NoKey}, NEW l \in Keys \cup {NoKey}, Stands(i, k)', Stands(i, l)', writer # "imap"
        PROVE  k = l
    BY <1>1, <1>2, <1>3 DEF StandsOr, OneKey
  <1> QED BY <1>3 DEF OneKey

\* A row, the writer's memory, the operation and a copy stand for their keys.
LEMMA StandsNow ==
    ASSUME WritingTypes
    PROVE  \A q : /\ \A k \in Keys : StandsOr(rows[k].id, k, q) /\ StandsOr(snapshot.keys[k], k, q)
                  /\ StandsOr(op.id, op.key, q)
                  /\ \A i \in Ids : copies[i].place # "nowhere" => StandsOr(i, copies[i].key, q)
                  /\ \A i \in Ids : Known(i) /\ op.key \in Keys => StandsOr(i, op.key, q)
  BY HoldersAre DEF StandsOr, Stands, Known

\* The steps of a pass and the beginnings of an operation.
LEMMA OneKeyPass ==
    ASSUME WritingTypes, OneKey, PassNext \/ ItemNext
    PROVE  OneKey'
  <1>0. NoOp.id = 0 /\ 0 \notin Ids /\ (\A k \in Keys : NoSnapshot.keys[k] = 0) /\ snapshot \in Snapshot
    BY TypesAre DEF NoOp, NoSnapshot, Ids
  <1>1. UNCHANGED <<writer, copies>>
    BY DEF PassNext, ItemNext, StartPass, FindFolder, MakeFolder, EndPass, Crash, RequestFails, BeginCreate, BeginRewrite,
           BeginRemove, SourceChanges, server
  <1>2. \A k \in Keys : rows'[k].id = rows[k].id
    <2>1. CASE RequestFails
      <3>1. op.kind # "none"
        BY <2>1, TypesAre DEF RequestFails, ShapeOf
      <3> QED BY <2>1, <3>1, ThrowsIs DEF RequestFails
    <2> QED BY <2>1 DEF PassNext, ItemNext, StartPass, FindFolder, MakeFolder, EndPass, Crash, BeginCreate, BeginRewrite,
           BeginRemove, SourceChanges, AtHome
  <1>3. \A k \in Keys : snapshot'.keys[k] \in {0, snapshot.keys[k]}
    BY <1>0 DEF PassNext, ItemNext, StartPass, FindFolder, MakeFolder, EndPass, Crash, RequestFails, BeginCreate, BeginRewrite,
           BeginRemove, SourceChanges, AtHome
  <1>4. \/ op' = op \/ op'.id = 0 \/ \E k \in Keys : op'.key = k /\ op'.id = rows[k].id
    <2>1. CASE PassNext
      BY <1>0, <2>1 DEF PassNext, StartPass, FindFolder, MakeFolder, EndPass, Crash, RequestFails, Throws
    <2>2. ASSUME NEW k \in Keys, BeginCreate(k) PROVE op'.id = 0
      BY <2>2 DEF BeginCreate, NoOp
    <2>3. ASSUME NEW k \in Keys, BeginRewrite(k) PROVE op'.id = 0 \/ (op'.key = k /\ op'.id = rows[k].id)
      BY <2>3 DEF BeginRewrite, NoOp
    <2>4. ASSUME NEW k \in Keys, BeginRemove(k) PROVE op'.key = k /\ op'.id = rows[k].id
      BY <2>4 DEF BeginRemove, NoOp
    <2>5. ASSUME NEW k \in Keys, SourceChanges(k) PROVE op' = op
      BY <2>5 DEF SourceChanges, AtHome
    <2> QED BY <2>1, <2>2, <2>3, <2>4, <2>5 DEF ItemNext
  <1>5. op'.id \in Ids => StandsOr(op'.id, op'.key, NoKey)
    BY <1>0, <1>4, StandsNow
  <1>6. \A k \in Keys : rows'[k].id \in Ids => StandsOr(rows'[k].id, k, NoKey)
    BY <1>2, StandsNow
  <1>7. \A k \in Keys : snapshot'.keys[k] \in Ids => StandsOr(snapshot'.keys[k], k, NoKey)
    BY <1>0, <1>3, StandsNow
  <1>8. \A i \in Ids : copies'[i].place # "nowhere" => StandsOr(i, copies'[i].key, NoKey)
    BY <1>1, StandsNow
  <1> QED BY <1>1, <1>5, <1>6, <1>7, <1>8, OneKeyKeeps

\* The owner.
LEMMA OneKeyOwner ==
    ASSUME WritingTypes, OneKey, OwnerNext
    PROVE  OneKey'
  <1>0. copies \in [Ids -> Copy] /\ NoCopy.place = "nowhere"
    BY TypesAre DEF NoCopy
  <1>1. UNCHANGED <<writer, rows, snapshot, op>>
    BY DEF OwnerNext, Arrives, Edits, Discards, Files, Recreates, TogglesFolder, AtHome
  <1>2. ASSUME NEW q, \A i \in Ids : copies'[i].place # "nowhere" => StandsOr(i, copies'[i].key, q) PROVE OneKey'
    <2>1. /\ \A k \in Keys : rows'[k].id \in Ids => StandsOr(rows'[k].id, k, q)
          /\ \A k \in Keys : snapshot'.keys[k] \in Ids => StandsOr(snapshot'.keys[k], k, q)
          /\ op'.id \in Ids => StandsOr(op'.id, op'.key, q)
      BY <1>1, StandsNow
    <2> QED BY <1>1, <1>2, <2>1, OneKeyKeeps
  <1>3. ASSUME NEW k \in Keys \cup {NoKey}, Arrives(k) PROVE OneKey'
    <2>1. \A i \in Ids : copies'[i].place # "nowhere" => StandsOr(i, copies'[i].key, k)
      <3>1. PICK c : c = [key |-> k, ver |-> clock + 1, place |-> "folder", ours |-> FALSE, edited |-> FALSE]
        OBVIOUS
      <3>2. copies' = [copies EXCEPT ![nextId + 1] = c] /\ c.key = k
        BY <1>3, <3>1 DEF Arrives
      <3>3. ASSUME NEW i \in Ids, copies'[i].place # "nowhere" PROVE StandsOr(i, copies'[i].key, k)
        <4>1. CASE i = nextId + 1
          BY <1>0, <3>2, <4>1 DEF StandsOr
        <4>2. CASE i # nextId + 1
          BY <1>0, <3>2, <3>3, <4>2, StandsNow
        <4> QED BY <4>1, <4>2
      <3> QED BY <3>3
    <2> QED BY <1>2, <2>1
  <1>4. CASE (\E i \in Ids : Edits(i) \/ Discards(i) \/ Files(i)) \/ TogglesFolder
    <2>1. \A i \in Ids : copies'[i].place # "nowhere" => copies[i].place # "nowhere" /\ copies'[i].key = copies[i].key
      <3>1. ASSUME NEW i \in Ids, Edits(i)
            PROVE  \A j \in Ids : copies'[j].place # "nowhere" => copies[j].place # "nowhere" /\ copies'[j].key = copies[j].key
        <4>1. PICK o \in Copy : o = copies[i]
          BY <1>0
        <4>2. copies' = [copies EXCEPT ![i] = [o EXCEPT !.ver = clock + 1, !.edited = TRUE]] /\ o.place # "nowhere"
          BY <1>0, <3>1, <4>1 DEF Edits, Shown
        <4>3. [o EXCEPT !.ver = clock + 1, !.edited = TRUE].key = o.key
          BY DEF Copy
        <4> QED BY <1>0, <4>1, <4>2, <4>3
      <3>2. ASSUME NEW i \in Ids, Discards(i)
            PROVE  \A j \in Ids : copies'[j].place # "nowhere" => copies[j].place # "nowhere" /\ copies'[j].key = copies[j].key
        <4>1. PICK o \in Copy : o = copies[i]
          BY <1>0
        <4>2. o.place # "nowhere" /\ \/ copies' = [copies EXCEPT ![i] = [o EXCEPT !.place = "bin"]]
                                     \/ copies' = [copies EXCEPT ![i] = NoCopy]
          BY <1>0, <3>2, <4>1 DEF Discards, Live
        <4>3. [o EXCEPT !.place = "bin"].key = o.key
          BY DEF Copy
        <4> QED BY <1>0, <4>1, <4>2, <4>3
      <3>3. ASSUME NEW i \in Ids, Files(i)
            PROVE  \A j \in Ids : copies'[j].place # "nowhere" => copies[j].place # "nowhere" /\ copies'[j].key = copies[j].key
        <4>1. PICK o \in Copy : o = copies[i]
          BY <1>0
        <4>2. PICK p : o.place # "nowhere" /\ copies' = [copies EXCEPT ![i] = [o EXCEPT !.place = p]]
          BY <1>0, <3>3, <4>1 DEF Files
        <4>3. [o EXCEPT !.place = p].key = o.key
          BY DEF Copy
        <4> QED BY <1>0, <4>1, <4>2, <4>3
      <3>4. ASSUME TogglesFolder
            PROVE  \A j \in Ids : copies'[j].place # "nowhere" => copies[j].place # "nowhere" /\ copies'[j].key = copies[j].key
        BY <1>0, <3>4 DEF TogglesFolder
      <3> QED BY <1>4, <3>1, <3>2, <3>3, <3>4
    <2>2. \A i \in Ids : copies'[i].place # "nowhere" => StandsOr(i, copies'[i].key, NoKey)
      BY <2>1, StandsNow
    <2> QED BY <1>2, <2>2
  <1>5. CASE Recreates
    <2>1. writer = "imap" /\ writer' = writer
      BY <1>5 DEF Recreates
    <2> QED BY <2>1 DEF OneKey
  <1> QED BY <1>3, <1>4, <1>5 DEF OwnerNext

\* The steps of an operation.
LEMMA OneKeyOp ==
    ASSUME WritingTypes, OneKey, OpNext
    PROVE  OneKey'
  <1>0. /\ copies \in [Ids -> Copy] /\ NoOp.id = 0 /\ 0 \notin Ids /\ rows \in [Keys -> Row] /\ snapshot \in Snapshot
        /\ nextId \in Nat /\ op \in Op /\ op.kind # "none"
    <2>1. op.at # "idle"
      BY TypesAre, OpIs DEF OpNext, targetKeys, findByNaturalKey, uidValidityOf, AlreadyThere, CreateCopy, NoFolder, Rescan, ReadBack,
             CheckVersion, CheckUid, RewriteCopy, RecordCopy, removeItem, verifyGone, RecordRemoval
    <2> QED BY <2>1, TypesAre DEF NoOp, Ids, ShapeOf
  <1>1. op.key \in Keys
    BY <1>0, TypesAre DEF ShapeOf
  <1>2. ASSUME UNCHANGED server, \A k \in Keys : rows'[k].id \in Ids => StandsOr(rows'[k].id, k, NoKey),
               \A k \in Keys : snapshot'.keys[k] \in Ids => StandsOr(snapshot'.keys[k], k, NoKey),
               op'.id \in Ids => StandsOr(op'.id, op'.key, NoKey)
        PROVE  OneKey'
    <2>1. \A i \in Ids : copies'[i].place # "nowhere" => StandsOr(i, copies'[i].key, NoKey)
      BY <1>2, StandsNow DEF server
    <2> QED BY <1>2, <2>1, OneKeyKeeps DEF server
  <1>3. ASSUME Still, Throws PROVE OneKey'
    <2>1. op' = NoOp /\ \A k \in Keys : rows'[k].id = rows[k].id
      BY <1>0, <1>3, ThrowsIs
    <2>2. /\ \A k \in Keys : rows'[k].id \in Ids => StandsOr(rows'[k].id, k, NoKey)
          /\ \A k \in Keys : snapshot'.keys[k] \in Ids => StandsOr(snapshot'.keys[k], k, NoKey)
          /\ op'.id \in Ids => StandsOr(op'.id, op'.key, NoKey)
      BY <1>0, <1>3, <2>1, StandsNow DEF Still
    <2> QED BY <1>2, <1>3, <2>2 DEF Still
  <1>4. ASSUME Still, UNCHANGED rows, op'.id = 0 \/ (op'.key = op.key /\ (op'.id = op.id \/ (op'.id \in Ids /\ Known(op'.id)))) PROVE OneKey'
    <2>1. /\ \A k \in Keys : rows'[k].id \in Ids => StandsOr(rows'[k].id, k, NoKey)
          /\ \A k \in Keys : snapshot'.keys[k] \in Ids => StandsOr(snapshot'.keys[k], k, NoKey)
          /\ op'.id \in Ids => StandsOr(op'.id, op'.key, NoKey)
      BY <1>0, <1>1, <1>4, StandsNow DEF Still
    <2> QED BY <1>2, <1>4, <2>1 DEF Still
  <1>5. CASE targetKeys
    <2>1. \A k \in Keys : snapshot'.keys[k] \in Ids => StandsOr(snapshot'.keys[k], k, NoKey)
      BY <1>0, <1>5, ListedIs, StandsNow
    <2>2. UNCHANGED server /\ UNCHANGED rows /\ UNCHANGED op
      BY <1>5 DEF targetKeys
    <2> QED BY <1>2, <2>1, <2>2, StandsNow
  <1>6. CASE findByNaturalKey
    <2>1. Still /\ \/ Throws
                   \/ UNCHANGED rows /\ op'.key = op.key /\ (op'.id = op.id \/ (op'.id \in Ids /\ Known(op'.id)))
      BY <1>6, LookupIs DEF Goes
    <2> QED BY <1>3, <1>4, <2>1
  <1>7. CASE uidValidityOf \/ ReadBack
    <2>1. Still /\ UNCHANGED rows /\ op'.key = op.key /\ op'.id = op.id
      BY <1>7, StampIs, ReadBackIs DEF Goes
    <2> QED BY <1>4, <2>1
  <1>8. CASE Rescan
    <2>1. Still /\ \/ Throws
                   \/ UNCHANGED rows /\ op'.key = op.key /\ op'.id \in Ids /\ Known(op'.id)
      BY <1>8, RescanIs DEF Goes, Known
    <2> QED BY <1>3, <1>4, <2>1
  <1>9. CASE CheckVersion \/ CheckUid
    <2>1. Still /\ UNCHANGED rows /\ (op' = NoOp \/ (op'.key = op.key /\ op'.id = op.id))
      BY <1>9, CheckVersionIs, CheckUidIs DEF Goes
    <2> QED BY <1>0, <1>4, <2>1
  <1>10. CASE NoFolder
    <2>1. Still /\ Throws
      BY <1>10, TypesAre DEF NoFolder, Still
    <2> QED BY <1>3, <2>1
  <1>11. CASE verifyGone
    <2>1. Still /\ \/ Throws
                   \/ UNCHANGED rows /\ op'.key = op.key /\ op'.id = op.id
      BY <1>11, VerifyIs DEF Goes
    <2> QED BY <1>3, <1>4, <2>1
  <1>12. CASE AlreadyThere
    <2>1. PICK i \in Ids : /\ Known(i) /\ op'.key = op.key /\ op'.id = i
                           /\ \A l \in Keys : snapshot'.keys[l] \in {0, snapshot.keys[l]} \/ (l = op.key /\ snapshot'.keys[l] = i)
      BY <1>12, AlreadyIs DEF Goes, Known
    <2>2. UNCHANGED server /\ UNCHANGED rows
      BY <1>12, AlreadyIs
    <2>3. StandsOr(i, op.key, NoKey)
      BY <1>1, <2>1, StandsNow
    <2>4. \A k \in Keys : snapshot'.keys[k] \in Ids => StandsOr(snapshot'.keys[k], k, NoKey)
      BY <1>0, <2>1, <2>3, StandsNow
    <2> QED BY <1>2, <2>1, <2>2, <2>3, <2>4, StandsNow
  <1>13. CASE RecordCopy
    <2>1. op' = NoOp /\ UNCHANGED server /\ UNCHANGED snapshot
      BY <1>13, RecordIs
    <2>2. PICK r \in Row : rows' = [rows EXCEPT ![op.key] = r] /\ r.id \in {op.id, rows[op.key].id}
      BY <1>13, RecordIs
    <2>3. \A k \in Keys : rows'[k].id \in Ids => StandsOr(rows'[k].id, k, NoKey)
      BY <1>0, <1>1, <2>2, StandsNow
    <2> QED BY <1>0, <1>2, <2>1, <2>3, StandsNow
  <1>14. CASE RecordRemoval
    <2>1. op' = NoOp /\ UNCHANGED server /\ UNCHANGED snapshot
      BY <1>14, RemovalIs
    <2>2. PICK r \in Row : rows' = [rows EXCEPT ![op.key] = r] /\ r.id \in {op.id, rows[op.key].id}
      BY <1>14, RemovalIs
    <2>3. \A k \in Keys : rows'[k].id \in Ids => StandsOr(rows'[k].id, k, NoKey)
      BY <1>0, <1>1, <2>2, StandsNow
    <2> QED BY <1>0, <1>2, <2>1, <2>3, StandsNow
  <1>15. CASE CreateCopy
    <2>1. PICK i \in Ids : /\ i = nextId + 1
                           /\ copies' = [copies EXCEPT ![i] = [key |-> op.key, ver |-> clock + 1, place |-> "folder", ours |-> TRUE, edited |-> FALSE]]
                           /\ \A l \in Keys : snapshot'.keys[l] = snapshot.keys[l] \/ (l = op.key /\ snapshot'.keys[l] = i)
                           /\ Throws \/ (UNCHANGED rows /\ op'.key = op.key /\ op'.id = i)
      BY <1>15, CreateIs DEF Goes
    <2>2. StandsOr(i, op.key, op.key)
      BY <2>1 DEF StandsOr
    <2>3. \A k \in Keys : rows'[k].id = rows[k].id
      BY <1>0, <2>1, ThrowsIs
    <2>4. op' = NoOp \/ (op'.key = op.key /\ op'.id = i)
      BY <2>1 DEF Throws
    <2>5. \A j \in Ids : copies'[j].place # "nowhere" => (copies[j].place # "nowhere" /\ copies'[j].key = copies[j].key) \/ (j = i /\ copies'[j].key = op.key)
      BY <1>0, <2>1
    <2>6. \A k \in Keys : rows'[k].id \in Ids => StandsOr(rows'[k].id, k, op.key)
      BY <2>3, StandsNow
    <2>7. \A k \in Keys : snapshot'.keys[k] \in Ids => StandsOr(snapshot'.keys[k], k, op.key)
      BY <2>1, <2>2, StandsNow
    <2>8. op'.id \in Ids => StandsOr(op'.id, op'.key, op.key)
      BY <1>0, <2>2, <2>4
    <2>9. \A j \in Ids : copies'[j].place # "nowhere" => StandsOr(j, copies'[j].key, op.key)
      BY <2>2, <2>5, StandsNow
    <2>10. writer' = writer
      BY <1>15, CreateIs
    <2>11. PICK q : q = op.key
      OBVIOUS
    <2> QED BY <2>6, <2>7, <2>8, <2>9, <2>10, <2>11, OneKeyKeeps
  <1>16. CASE RewriteCopy
    <2>1. op.id \in Ids /\ writer' = writer /\ UNCHANGED snapshot /\ op.key \in Keys
      BY <1>16, RewriteIs
    <2>2. \/ Throws /\ UNCHANGED copies
          \/ /\ copies' = [copies EXCEPT ![op.id] = [key |-> op.key, ver |-> clock + 1, place |-> "folder", ours |-> TRUE, edited |-> FALSE]]
             /\ Throws \/ (UNCHANGED rows /\ op'.key = op.key /\ op'.id = op.id)
      BY <1>16, RewriteIs DEF Goes
    <2>3. \A k \in Keys : rows'[k].id = rows[k].id
      BY <1>0, <2>2, ThrowsIs
    <2>4. op' = NoOp \/ (op'.key = op.key /\ op'.id = op.id)
      BY <2>2 DEF Throws
    <2>5. \A j \in Ids : copies'[j].place # "nowhere" => (copies[j].place # "nowhere" /\ copies'[j].key = copies[j].key) \/ (j = op.id /\ copies'[j].key = op.key)
      BY <1>0, <2>1, <2>2
    <2>6. \A j \in Ids : copies'[j].place # "nowhere" => StandsOr(j, copies'[j].key, NoKey)
      BY <2>5, StandsNow
    <2> QED BY <1>0, <2>1, <2>3, <2>4, <2>6, StandsNow, OneKeyKeeps
  <1>17. CASE removeItem
    <2>1. op.id \in Ids /\ writer' = writer /\ UNCHANGED snapshot /\ op.key \in Keys
      BY <1>17, RemoveIs
    <2>2. Throws \/ (UNCHANGED rows /\ op'.key = op.key /\ op'.id = op.id)
      BY <1>17, RemoveIs DEF Goes
    <2>3. \A k \in Keys : rows'[k].id = rows[k].id
      BY <1>0, <2>2, ThrowsIs
    <2>4. op' = NoOp \/ (op'.key = op.key /\ op'.id = op.id)
      BY <2>2 DEF Throws
    <2>5. \/ UNCHANGED copies
          \/ \E c \in Copy : copies' = [copies EXCEPT ![op.id] = c] /\ (c.place = "nowhere" \/ (copies[op.id].place # "nowhere" /\ c.key = copies[op.id].key))
      BY <1>17, RemoveIs
    <2>6. \A j \in Ids : copies'[j].place # "nowhere" => copies[j].place # "nowhere" /\ copies'[j].key = copies[j].key
      BY <1>0, <2>1, <2>5
    <2>7. \A j \in Ids : copies'[j].place # "nowhere" => StandsOr(j, copies'[j].key, NoKey)
      BY <2>6, StandsNow
    <2> QED BY <1>0, <2>1, <2>3, <2>4, <2>7, StandsNow, OneKeyKeeps
  <1> QED BY <1>5, <1>6, <1>7, <1>8, <1>9, <1>10, <1>11, <1>12, <1>13, <1>14, <1>15, <1>16, <1>17 DEF OpNext

-----------------------------------------------------------------------------
(* What the owner does to a copy.                                          *)

\* It stays, goes, is edited, put in the bin, filed elsewhere, or is new.
Happens(j) ==
    \/ copies'[j] = copies[j]
    \/ copies'[j].place = "nowhere"
    \/ /\ copies[j].place # "nowhere" /\ copies'[j].key = copies[j].key /\ copies'[j].ours = copies[j].ours
       /\ \/ copies'[j].place = copies[j].place /\ Rewrites
          \/ copies'[j].place = "bin" /\ writer \in {"jmapMail", "imap"}
          \/ copies[j].place = "folder" /\ copies'[j].place = "elsewhere" /\ copies'[j].ver = copies[j].ver /\ copies'[j].edited = copies[j].edited
          \/ copies[j].place = "bin" /\ copies'[j].place = "both" /\ op.at = "verify" /\ op.id = j /\ writer = "jmapMail"
    \/ /\ j = nextId + 1 /\ copies'[j].ours = FALSE /\ copies'[j].place = "folder"
       /\ writer \in {"jmapFile", "jmapContact"} => MustRefuse(copies'[j].key) = {}

\* But for a mailbox made anew, that is all the owner does.
LEMMA OwnerIs ==
    ASSUME WritingTypes, OwnerNext, ~Recreates
    PROVE  UNCHANGED <<writer, bin, uidplus, epoch, changed, AtHome>> /\ \A j \in Ids : Happens(j)
  <1>0. copies \in [Ids -> Copy] /\ NoCopy.place = "nowhere"
    BY TypesAre DEF NoCopy
  <1>1. UNCHANGED <<writer, bin, uidplus, epoch, changed, AtHome>>
    BY DEF OwnerNext, Arrives, Edits, Discards, Files, TogglesFolder, AtHome
  <1>2. ASSUME NEW k \in Keys \cup {NoKey}, Arrives(k), NEW j \in Ids PROVE Happens(j)
    <2>1. PICK c : c = [key |-> k, ver |-> clock + 1, place |-> "folder", ours |-> FALSE, edited |-> FALSE]
      OBVIOUS
    <2>2. copies' = [copies EXCEPT ![nextId + 1] = c] /\ c.key = k /\ c.ours = FALSE /\ c.place = "folder"
      BY <1>2, <2>1 DEF Arrives
    <2>3. CASE j = nextId + 1
      <3>1. copies'[j] = c
        BY <1>0, <2>2, <2>3
      <3>2. writer \in {"jmapFile", "jmapContact"} => MustRefuse(k) = {}
        BY <1>2 DEF Arrives
      <3> QED BY <2>2, <2>3, <3>1, <3>2 DEF Happens
    <2>4. CASE j # nextId + 1
      BY <1>0, <2>2, <2>4 DEF Happens
    <2> QED BY <2>3, <2>4
  <1>3. ASSUME NEW i \in Ids, Edits(i), NEW j \in Ids PROVE Happens(j)
    <2>1. PICK o \in Copy : o = copies[i]
      BY <1>0
    <2>2. copies' = [copies EXCEPT ![i] = [o EXCEPT !.ver = clock + 1, !.edited = TRUE]] /\ o.place # "nowhere" /\ Rewrites
      BY <1>0, <1>3, <2>1 DEF Edits, Shown
    <2>3. /\ [o EXCEPT !.ver = clock + 1, !.edited = TRUE].key = o.key /\ [o EXCEPT !.ver = clock + 1, !.edited = TRUE].ours = o.ours
          /\ [o EXCEPT !.ver = clock + 1, !.edited = TRUE].place = o.place
      BY DEF Copy
    <2> QED BY <1>0, <2>1, <2>2, <2>3 DEF Happens
  <1>4. ASSUME NEW i \in Ids, Discards(i), NEW j \in Ids PROVE Happens(j)
    <2>1. PICK o \in Copy : o = copies[i]
      BY <1>0
    <2>2. o.place # "nowhere" /\ \/ copies' = [copies EXCEPT ![i] = [o EXCEPT !.place = "bin"]] /\ writer \in {"jmapMail", "imap"}
                                 \/ copies' = [copies EXCEPT ![i] = NoCopy]
      BY <1>0, <1>4, <2>1 DEF Discards, Live
    <2>3. [o EXCEPT !.place = "bin"].key = o.key /\ [o EXCEPT !.place = "bin"].ours = o.ours /\ [o EXCEPT !.place = "bin"].place = "bin"
      BY DEF Copy
    <2> QED BY <1>0, <2>1, <2>2, <2>3 DEF Happens
  <1>5. ASSUME NEW i \in Ids, Files(i), NEW j \in Ids PROVE Happens(j)
    <2>1. PICK o \in Copy : o = copies[i]
      BY <1>0
    <2>2. PICK p : /\ copies' = [copies EXCEPT ![i] = [o EXCEPT !.place = p]]
                   /\ \/ o.place = "folder" /\ p = "elsewhere"
                      \/ o.place = "bin" /\ p = "both" /\ op.at = "verify" /\ op.id = i /\ writer = "jmapMail"
      BY <1>0, <1>5, <2>1 DEF Files
    <2>3. /\ [o EXCEPT !.place = p].key = o.key /\ [o EXCEPT !.place = p].ours = o.ours /\ [o EXCEPT !.place = p].place = p
          /\ [o EXCEPT !.place = p].ver = o.ver /\ [o EXCEPT !.place = p].edited = o.edited
      BY DEF Copy
    <2> QED BY <1>0, <2>1, <2>2, <2>3 DEF Happens
  <1>6. ASSUME TogglesFolder, NEW j \in Ids PROVE Happens(j)
    BY <1>0, <1>6 DEF TogglesFolder, Happens
  <1> QED BY <1>1, <1>2, <1>3, <1>4, <1>5, <1>6 DEF OwnerNext

-----------------------------------------------------------------------------
(* UIDs.                                                                   *)

\* What the mailbox's numbers say while they stand.
LEMMA UidsKeeps ==
    ASSUME WritingTypes, Uids, UNCHANGED <<writer, epoch, rows, op, snapshot>>,
           writer = "imap" => \A i \in Ids : i <= nextId /\ copies'[i].place # "nowhere" => copies[i].place # "nowhere" /\ copies'[i].key = copies[i].key
    PROVE  Uids'
  <1>1. \A k \in Keys : rows[k].status = "copied" => rows[k].id \in Ids /\ rows[k].id <= nextId
    BY TypesAre DEF Ids
  <1>2. op.kind = "create" /\ op.at = "record" => op.id \in Ids /\ op.id <= nextId
    BY TypesAre, OpIs DEF ShapeOf, Ids
  <1> QED BY <1>1, <1>2 DEF Uids

\* The owner.
LEMMA UidsOwner ==
    ASSUME WritingTypes, Uids, OwnerNext
    PROVE  Uids'
  <1>1. CASE ~Recreates
    <2>1. UNCHANGED <<writer, epoch, rows, op, snapshot>>
      BY <1>1, OwnerIs DEF AtHome
    <2>2. ASSUME NEW i \in Ids, i <= nextId, copies'[i].place # "nowhere"
          PROVE  copies[i].place # "nowhere" /\ copies'[i].key = copies[i].key
      <3>1. Happens(i) /\ nextId \in Nat /\ i \in Nat
        BY <1>1, OwnerIs, TypesAre DEF Ids
      <3>2. i # nextId + 1
        BY <2>2, <3>1
      <3> QED BY <2>2, <3>1, <3>2 DEF Happens
    <2> QED BY <2>1, <2>2, UidsKeeps
  <1>2. CASE Recreates
    <2>1. UNCHANGED <<writer, rows, op, snapshot>> /\ epoch' = epoch + 1 /\ (MovesMidApply \/ op.kind # "remove")
      BY <1>2 DEF Recreates, AtHome
    <2>2. epoch \in Nat /\ op.ver \in Nat /\ \A k \in Keys : rows[k].ver \in Nat
      BY TypesAre, OpIs
    <2>3. ASSUME writer = "imap" PROVE op.ver < epoch' /\ \A k \in Keys : rows[k].ver < epoch'
      BY <2>1, <2>2, <2>3 DEF Uids
    <2>4. ASSUME writer = "imap"
          PROVE  /\ op'.ver <= epoch' /\ op'.ver # epoch'
                 /\ \A k \in Keys : rows'[k].ver <= epoch' /\ rows'[k].ver # epoch'
      BY <2>1, <2>2, <2>3, <2>4
    <2> QED BY <2>1, <2>4 DEF Uids
  <1> QED BY <1>1, <1>2

\* The steps of a pass and the beginnings of an operation.
LEMMA UidsPass ==
    ASSUME WritingTypes, Uids, PassNext \/ ItemNext
    PROVE  Uids'
  <1>0. NoOp.ver = 0 /\ NoOp.kind = "none" /\ NoSnapshot.at = "none" /\ epoch \in Nat /\ 0 <= epoch
    BY TypesAre DEF NoOp, NoSnapshot
  <1>1. UNCHANGED <<writer, copies, epoch>>
    BY DEF PassNext, ItemNext, StartPass, FindFolder, MakeFolder, EndPass, Crash, RequestFails, BeginCreate, BeginRewrite,
           BeginRemove, SourceChanges, server
  <1>2. snapshot' \in {snapshot, NoSnapshot}
    BY DEF PassNext, ItemNext, StartPass, FindFolder, MakeFolder, EndPass, Crash, RequestFails, BeginCreate, BeginRewrite,
           BeginRemove, SourceChanges, AtHome
  <1>3. \A k \in Keys : rows'[k].id = rows[k].id /\ rows'[k].ver = rows[k].ver /\ rows'[k].status \in {rows[k].status, "failed"}
    <2>1. CASE RequestFails
      <3>1. op.kind # "none"
        BY <2>1, TypesAre DEF RequestFails, ShapeOf
      <3> QED BY <2>1, <3>1, ThrowsIs DEF RequestFails
    <2> QED BY <2>1 DEF PassNext, ItemNext, StartPass, FindFolder, MakeFolder, EndPass, Crash, BeginCreate, BeginRewrite,
           BeginRemove, SourceChanges, AtHome
  <1>4. \/ op' = op /\ rows' = rows
        \/ op' = NoOp
        \/ op'.ver = 0 /\ op'.at \in {"lookup", "check"} /\ (op'.kind = "remove" => op'.at = "check")
        \/ writer = "jmapMail"
    <2>1. CASE PassNext
      BY <2>1 DEF PassNext, StartPass, FindFolder, MakeFolder, EndPass, Crash, RequestFails, Throws
    <2>2. ASSUME NEW k \in Keys, BeginCreate(k) PROVE op'.ver = 0 /\ op'.at = "lookup" /\ op'.kind = "create"
      BY <2>2 DEF BeginCreate, NoOp
    <2>3. ASSUME NEW k \in Keys, BeginRewrite(k) PROVE op'.ver = 0 /\ op'.at \in {"lookup", "check"} /\ op'.kind = "rewrite"
      BY <2>3 DEF BeginRewrite, NoOp
    <2>4. ASSUME NEW k \in Keys, BeginRemove(k) PROVE (op'.ver = 0 /\ op'.at = "check") \/ writer = "jmapMail"
      BY <2>4 DEF BeginRemove, NoOp
    <2>5. ASSUME NEW k \in Keys, SourceChanges(k) PROVE op' = op /\ rows' = rows
      BY <2>5 DEF SourceChanges, AtHome
    <2> QED BY <2>1, <2>2, <2>3, <2>4, <2>5 DEF ItemNext
  <1>5. ASSUME writer = "imap"
        PROVE  /\ snapshot'.at # "map" /\ \A k \in Keys : rows'[k].ver <= epoch'
               /\ \A k \in Keys : rows'[k].status = "copied" /\ rows'[k].ver = epoch' /\ copies'[rows'[k].id].place # "nowhere"
                           => copies'[rows'[k].id].key = k
    BY <1>0, <1>1, <1>2, <1>3, <1>5 DEF Uids
  <1>6. CASE op' = op /\ rows' = rows
    BY <1>1, <1>5, <1>6 DEF Uids
  <1>7. CASE op' = NoOp
    BY <1>0, <1>1, <1>5, <1>7 DEF Uids
  <1>8. CASE op'.ver = 0 /\ op'.at \in {"lookup", "check"} /\ (op'.kind = "remove" => op'.at = "check")
    BY <1>0, <1>1, <1>5, <1>8 DEF Uids
  <1>9. CASE writer = "jmapMail"
    BY <1>1, <1>9 DEF Uids
  <1> QED BY <1>4, <1>6, <1>7, <1>8, <1>9

\* The steps of an operation.
LEMMA UidsOp ==
    ASSUME WritingTypes, Uids, OpNext
    PROVE  Uids'
  <1>0. /\ copies \in [Ids -> Copy] /\ NoOp.ver = 0 /\ NoOp.kind = "none" /\ rows \in [Keys -> Row]
        /\ nextId \in Nat /\ op \in Op /\ op.kind # "none" /\ epoch \in Nat /\ epoch # 0
        /\ writer \in {"jmapMail", "jmapFile", "jmapContact", "imap", "carddav"}
    <2>1. op.at # "idle"
      BY TypesAre, OpIs DEF OpNext, targetKeys, findByNaturalKey, uidValidityOf, AlreadyThere, CreateCopy, NoFolder, Rescan, ReadBack,
             CheckVersion, CheckUid, RewriteCopy, RecordCopy, removeItem, verifyGone, RecordRemoval
    <2> QED BY <2>1, TypesAre DEF NoOp, ShapeOf
  <1>1. op.key \in Keys /\ 0 <= epoch
    BY <1>0, TypesAre DEF ShapeOf
  <1>2. UNCHANGED <<writer, epoch>>
    BY DEF OpNext, targetKeys, findByNaturalKey, uidValidityOf, AlreadyThere, CreateCopy, NoFolder, Rescan, ReadBack,
             CheckVersion, CheckUid, RewriteCopy, RecordCopy, removeItem, verifyGone, RecordRemoval, server
  <1>3. SUFFICES ASSUME writer = "imap" PROVE Uids'
    BY <1>2 DEF Uids
  <1>4. ~Rewrites /\ ~Snapshots
    BY <1>3 DEF Rewrites, Snapshots
  <1>5. ASSUME UNCHANGED copies, snapshot' = snapshot, Throws PROVE Uids'
    <2>1. op' = NoOp /\ \A k \in Keys : rows'[k].id = rows[k].id /\ rows'[k].ver = rows[k].ver /\ rows'[k].status \in {rows[k].status, "failed"}
      BY <1>0, <1>5, ThrowsIs
    <2> QED BY <1>0, <1>1, <1>2, <1>3, <1>5, <2>1 DEF Uids
  <1>6. ASSUME UNCHANGED copies, snapshot' = snapshot, rows' = rows, op'.ver <= epoch,
               op'.kind = "create" => op'.at \in {"stamp"} \/ op'.ver # 0,
               op'.kind = "create" /\ op'.at = "record" /\ op'.adopted = FALSE /\ op'.ver = epoch /\ copies[op'.id].place # "nowhere" => copies[op'.id].key = op'.key,
               op'.kind = "remove" /\ op'.at # "check" /\ MovesMidApply = FALSE => rows[op'.key].ver = epoch
        PROVE  Uids'
    BY <1>2, <1>3, <1>6 DEF Uids
  <1>7. CASE findByNaturalKey
    <2>1. /\ UNCHANGED copies /\ snapshot' = snapshot /\ op.kind \in {"create", "rewrite"}
          /\ Throws \/ (rows' = rows /\ op'.ver = op.ver /\ op'.kind = "create" /\ op'.at = "stamp") \/ op.kind = "rewrite"
      BY <1>3, <1>7, LookupIs DEF Goes, Still, server
    <2>2. op.kind # "rewrite"
      BY <1>4, TypesAre DEF ShapeOf
    <2>3. op.ver <= epoch
      BY <1>3 DEF Uids
    <2> QED BY <1>5, <1>6, <2>1, <2>2, <2>3
  <1>8. CASE uidValidityOf
    <2>1. /\ UNCHANGED copies /\ snapshot' = snapshot /\ rows' = rows /\ op'.ver = epoch /\ op'.kind = "create"
          /\ op'.at = "write" \/ op'.adopted = TRUE
      BY <1>8, StampIs DEF Goes, Still, server
    <2>2. epoch <= epoch
      BY <1>0
    <2> QED BY <1>0, <1>6, <2>1, <2>2
  <1>9. CASE Rescan
    <2>1. /\ UNCHANGED copies /\ snapshot' = snapshot /\ op.kind = "create" /\ op.at = "rescan"
          /\ Throws \/ (rows' = rows /\ op'.ver = op.ver /\ op'.kind = "create" /\ op'.key = op.key /\ op'.id \in Holders(op.key))
      BY <1>9, RescanIs DEF Goes, Still, server
    <2>2. op.ver <= epoch /\ op.ver # 0
      BY <1>3, <2>1 DEF Uids
    <2>3. CASE Throws
      BY <1>5, <2>1, <2>3
    <2>4. CASE rows' = rows /\ op'.ver = op.ver /\ op'.kind = "create" /\ op'.key = op.key /\ op'.id \in Holders(op.key)
      <3>1. copies[op'.id].key = op'.key
        BY <2>4, HoldersAre
      <3> QED BY <1>6, <2>1, <2>2, <2>4, <3>1
    <2> QED BY <2>1, <2>3, <2>4
  <1>10. CASE CheckUid
    <2>1. /\ UNCHANGED copies /\ snapshot' = snapshot /\ rows' = rows /\ op.kind = "remove"
          /\ op' = NoOp \/ (op'.ver = op.ver /\ op'.kind = "remove" /\ op'.key = op.key /\ rows[op.key].ver = epoch)
      BY <1>10, CheckUidIs DEF Goes, Still, server
    <2>2. op.ver <= epoch
      BY <1>3 DEF Uids
    <2> QED BY <1>0, <1>1, <1>6, <2>1, <2>2
  <1>11. CASE NoFolder
    <2>1. Throws /\ UNCHANGED copies /\ snapshot' = snapshot
      BY <1>11 DEF NoFolder, server
    <2> QED BY <1>5, <2>1
  <1>12. CASE verifyGone
    <2>1. /\ UNCHANGED copies /\ snapshot' = snapshot /\ op.kind = "remove" /\ op.at = "verify"
          /\ Throws \/ (rows' = rows /\ op'.ver = op.ver /\ op'.kind = "remove" /\ op'.key = op.key)
      BY <1>12, VerifyIs DEF Goes, Still, server
    <2>2. op.ver <= epoch /\ (MovesMidApply = FALSE => rows[op.key].ver = epoch)
      BY <1>3, <2>1 DEF Uids
    <2> QED BY <1>5, <1>6, <2>1, <2>2
  <1>13. CASE RecordCopy
    <2>1. /\ op' = NoOp /\ UNCHANGED copies /\ snapshot' = snapshot /\ op.at = "record" /\ op.kind \in {"create", "rewrite"}
      BY <1>13, RecordIs DEF server
    <2>2. op.kind = "create"
      BY <1>4, <2>1, TypesAre DEF ShapeOf
    <2>3. PICK r \in Row :
                 /\ rows' = [rows EXCEPT ![op.key] = r]
                 /\ r.ver = rows[op.key].ver \/ r.ver = op.ver
                 /\ r.status = "copied" => op.adopted = FALSE /\ r.id = op.id /\ (op.ver # 0 => r.ver = op.ver)
      BY <1>13, RecordIs
    <2>4. op.ver <= epoch /\ op.ver # 0 /\ \A k \in Keys : rows[k].ver <= epoch
      BY <1>3, <2>1, <2>2 DEF Uids
    <2>5. \A k \in Keys : rows'[k].ver <= epoch
      BY <1>0, <1>1, <2>3, <2>4
    <2>6. ASSUME NEW k \in Keys, rows'[k].status = "copied", rows'[k].ver = epoch, copies[rows'[k].id].place # "nowhere"
          PROVE  copies[rows'[k].id].key = k
      <3>1. CASE k = op.key
        <4>1. rows'[k] = r
          BY <1>0, <2>3, <3>1
        <4> QED BY <1>3, <2>1, <2>2, <2>3, <2>4, <2>6, <3>1, <4>1 DEF Uids
      <3>2. CASE k # op.key
        <4>1. rows'[k] = rows[k]
          BY <1>0, <2>3, <3>2
        <4> QED BY <1>3, <2>6, <4>1 DEF Uids
      <3> QED BY <3>1, <3>2
    <2> QED BY <1>0, <1>1, <1>2, <1>3, <2>1, <2>5, <2>6 DEF Uids
  <1>14. CASE RecordRemoval
    <2>1. op' = NoOp /\ UNCHANGED copies /\ snapshot' = snapshot
      BY <1>14, RemovalIs DEF server
    <2>2. PICK r \in Row : rows' = [rows EXCEPT ![op.key] = r] /\ r.status = "tombstoned" /\ r.ver = rows[op.key].ver
      BY <1>14, RemovalIs
    <2>3. \A k \in Keys : rows'[k].ver = rows[k].ver /\ (rows'[k].status = "copied" => rows'[k] = rows[k])
      BY <1>0, <2>2
    <2> QED BY <1>0, <1>1, <1>2, <1>3, <2>1, <2>3 DEF Uids
  <1>15. CASE CreateCopy
    <2>1. PICK i \in Ids : /\ i = nextId + 1
                           /\ copies' = [copies EXCEPT ![i] = [key |-> op.key, ver |-> clock + 1, place |-> "folder", ours |-> TRUE, edited |-> FALSE]]
                           /\ Throws \/ (UNCHANGED rows /\ op'.kind = "create" /\ op'.key = op.key /\ op'.id = i /\ op'.ver = op.ver)
      BY <1>3, <1>4, <1>15, CreateIs DEF Goes
    <2>2. op.ver <= epoch /\ op.ver # 0 /\ snapshot'.at # "map"
      BY <1>3, <1>15, CreateIs DEF Uids
    <2>3. copies'[i].key = op.key
      BY <1>0, <2>1
    <2>4. \A k \in Keys : rows'[k].id = rows[k].id /\ rows'[k].ver = rows[k].ver /\ rows'[k].status \in {rows[k].status, "failed"}
      BY <1>0, <2>1, ThrowsIs
    <2>5. \A k \in Keys : rows[k].status = "copied" => rows[k].id # i
      BY <1>0, <2>1, TypesAre
    <2>6. \A k \in Keys : rows'[k].ver <= epoch' /\ (rows'[k].status = "copied" /\ rows'[k].ver = epoch' /\ copies'[rows'[k].id].place # "nowhere"
                           => copies'[rows'[k].id].key = k)
      BY <1>0, <1>2, <1>3, <2>1, <2>4, <2>5 DEF Uids
    <2>7. CASE Throws
      <3>1. op' = NoOp
        BY <2>7 DEF Throws
      <3> QED BY <1>0, <1>1, <1>2, <2>2, <2>6, <3>1 DEF Uids
    <2>8. CASE UNCHANGED rows /\ op'.kind = "create" /\ op'.key = op.key /\ op'.id = i /\ op'.ver = op.ver
      BY <1>2, <2>2, <2>3, <2>6, <2>8 DEF Uids
    <2> QED BY <2>1, <2>7, <2>8
  <1>16. CASE removeItem
    <2>1. op.id \in Ids /\ snapshot' = snapshot /\ op.key \in Keys /\ op.kind = "remove" /\ op.at = "act"
      BY <1>16, RemoveIs
    <2>2. Throws \/ (UNCHANGED rows /\ op'.kind = "remove" /\ op'.ver = op.ver /\ op'.key = op.key)
      BY <1>16, <2>1, RemoveIs DEF Goes
    <2>3. \A k \in Keys : rows'[k].id = rows[k].id /\ rows'[k].ver = rows[k].ver /\ rows'[k].status = rows[k].status
      <3>1. Throws => rows' = rows
        BY <2>1 DEF Throws
      <3> QED BY <2>2, <3>1
    <2>5. \/ UNCHANGED copies
          \/ \E c \in Copy : copies' = [copies EXCEPT ![op.id] = c] /\ (c.place = "nowhere" \/ (copies[op.id].place # "nowhere" /\ c.key = copies[op.id].key))
      BY <1>16, RemoveIs
    <2>6. \A j \in Ids : copies'[j].place # "nowhere" => copies[j].place # "nowhere" /\ copies'[j].key = copies[j].key
      BY <1>0, <2>1, <2>5
    <2>7. \A k \in Keys : rows[k].status = "copied" => rows[k].id \in Ids
      BY TypesAre DEF Ids
    <2>8. \A k \in Keys : rows'[k].ver <= epoch' /\ (rows'[k].status = "copied" /\ rows'[k].ver = epoch' /\ copies'[rows'[k].id].place # "nowhere"
                           => copies'[rows'[k].id].key = k)
      BY <1>2, <1>3, <2>3, <2>6, <2>7 DEF Uids
    <2>9. CASE Throws
      <3>1. op' = NoOp
        BY <2>9 DEF Throws
      <3> QED BY <1>0, <1>1, <1>2, <1>3, <2>1, <2>8, <3>1 DEF Uids
    <2>10. CASE UNCHANGED rows /\ op'.kind = "remove" /\ op'.ver = op.ver /\ op'.key = op.key
      <3>1. op.ver <= epoch /\ (MovesMidApply = FALSE => rows[op.key].ver = epoch) /\ snapshot.at # "map"
        BY <1>3, <2>1 DEF Uids
      <3> QED BY <1>2, <2>1, <2>8, <2>10, <3>1 DEF Uids
    <2> QED BY <2>2, <2>9, <2>10
  <1>17. ~targetKeys /\ ~AlreadyThere /\ ~ReadBack /\ ~CheckVersion /\ ~RewriteCopy
    BY <1>3, <1>4, AlreadyIs, ReadBackIs, CheckVersionIs, RewriteIs DEF targetKeys
  <1> QED BY <1>7, <1>8, <1>9, <1>10, <1>11, <1>12, <1>13, <1>14, <1>15, <1>16, <1>17 DEF OpNext

-----------------------------------------------------------------------------
(* Removals.                                                               *)

\* Nothing comes back into view.
LEMMA GoneKeeps ==
    ASSUME WritingTypes, Gone, UNCHANGED <<writer, epoch>>,
           \A k \in Keys : rows'[k].status = "tombstoned" => rows[k].status = "tombstoned" /\ rows'[k].id = rows[k].id /\ rows'[k].ver = rows[k].ver,
           \A k \in Keys : rows[k].status = "tombstoned" /\ GoneFor(k) => copies'[rows[k].id].place \in {"nowhere", "bin", copies[rows[k].id].place},
           op'.kind = "remove" /\ op'.at = "record" => GoneFor(op.key)'
    PROVE  Gone'
  <1>1. ASSUME NEW k \in Keys, rows'[k].status = "tombstoned" PROVE rows'[k].id # 0 /\ GoneFor(k)'
    <2>1. rows[k].status = "tombstoned" /\ rows'[k].id = rows[k].id /\ rows'[k].ver = rows[k].ver /\ rows[k].id # 0 /\ GoneFor(k)
      BY <1>1 DEF Gone
    <2>2. copies'[rows[k].id].place \in {"nowhere", "bin", copies[rows[k].id].place}
      BY <1>1, <2>1
    <2> QED BY <2>1, <2>2 DEF GoneFor, Shown
  <1> QED BY <1>1 DEF Gone

\* A copy that was removed is not the one an operation writes or moves.
LEMMA GoneIsNotOp ==
    ASSUME WritingTypes, OneKey, Gone, writer # "imap", op.kind # "none", op.kind # "create"
    PROVE  \A k \in Keys : rows[k].status = "tombstoned" => rows[k].id # op.id
  <1>1. op.key \in Keys /\ rows[op.key].status = "copied"
    BY TypesAre, OpIs DEF ShapeOf
  <1>2. ASSUME NEW k \in Keys, rows[k].status = "tombstoned", rows[k].id = op.id PROVE FALSE
    <2>1. op.id \in Ids
      BY <1>2, TypesAre DEF Gone, Ids
    <2>2. Stands(op.id, k) /\ Stands(op.id, op.key)
      BY <1>2 DEF Stands
    <2>3. k = op.key
      BY <1>1, <2>1, <2>2 DEF OneKey
    <2> QED BY <1>1, <1>2, <2>3
  <1> QED BY <1>2

\* The owner.
LEMMA GoneOwner ==
    ASSUME WritingTypes, OneKey, Uids, Gone, OwnerNext
    PROVE  Gone'
  <1>1. CASE ~Recreates
    <2>1. UNCHANGED <<writer, epoch, rows, op>>
      BY <1>1, OwnerIs DEF AtHome
    <2>2. ASSUME NEW k \in Keys, rows[k].status = "tombstoned" \/ (op.kind = "remove" /\ op.at = "record" /\ k = op.key), GoneFor(k)
          PROVE  copies'[rows[k].id].place \in {"nowhere", "bin", copies[rows[k].id].place}
                  \/ (writer = "imap" /\ rows[k].ver # epoch)
      <3>1. rows[k].id \in Ids /\ rows[k].id <= nextId /\ nextId \in Nat
        BY <2>2, TypesAre DEF Gone, Ids, ShapeOf
      <3>2. Happens(rows[k].id) /\ rows[k].id # nextId + 1
        BY <1>1, <3>1, OwnerIs
      <3>3. writer \in {"jmapMail", "jmapFile", "jmapContact", "imap", "carddav"}
        BY TypesAre
      <3>4. CASE op.at = "verify" /\ op.id = rows[k].id /\ writer = "jmapMail"
        <4>1. op.kind = "remove"
          BY <3>4, TypesAre, OpIs DEF ShapeOf, NoOp
        <4> QED BY <2>2, <3>4, <4>1, GoneIsNotOp
      <3>5. copies[rows[k].id].place = "folder" => writer = "imap" /\ rows[k].ver # epoch
        BY <2>2, <3>1 DEF GoneFor, Shown
      <3> QED BY <3>2, <3>4, <3>5 DEF Happens
    <2>3. ASSUME NEW k \in Keys, rows[k].status = "tombstoned" \/ (op.kind = "remove" /\ op.at = "record" /\ k = op.key), GoneFor(k)
          PROVE  GoneFor(k)'
      BY <2>1, <2>2, <2>3 DEF GoneFor, Shown
    <2>4. op.kind = "remove" => op.key \in Keys
      BY TypesAre DEF ShapeOf
    <2>5. op'.kind = "remove" /\ op'.at = "record" => GoneFor(op.key)'
      <3>1. PICK q : q = op.key
        OBVIOUS
      <3>2. op.kind = "remove" /\ op.at = "record" => GoneFor(q)'
        BY <2>3, <2>4, <3>1 DEF Gone
      <3> QED BY <2>1, <3>1, <3>2 DEF GoneFor
    <2>6. \A k \in Keys : rows'[k].status = "tombstoned" => rows'[k].id # 0 /\ GoneFor(k)'
      BY <2>1, <2>3 DEF Gone
    <2> QED BY <2>1, <2>5, <2>6 DEF Gone
  <1>2. CASE Recreates
    <2>1. UNCHANGED <<writer, rows, op>> /\ epoch' = epoch + 1 /\ writer = "imap"
      BY <1>2 DEF Recreates, AtHome
    <2>2. \A k \in Keys : rows[k].ver # epoch'
      BY <2>1, TypesAre DEF Uids
    <2>3. op.kind = "remove" => op.key \in Keys
      BY TypesAre DEF ShapeOf
    <2> QED BY <2>1, <2>2, <2>3 DEF Gone, GoneFor
  <1> QED BY <1>1, <1>2

\* The steps of a pass and the beginnings of an operation.
LEMMA GonePass ==
    ASSUME WritingTypes, Gone, PassNext \/ ItemNext
    PROVE  Gone'
  <1>0. NoOp.kind = "none"
    BY DEF NoOp
  <1>1. UNCHANGED <<writer, copies, epoch>>
    BY DEF PassNext, ItemNext, StartPass, FindFolder, MakeFolder, EndPass, Crash, RequestFails, BeginCreate, BeginRewrite,
           BeginRemove, SourceChanges, server
  <1>3. \A k \in Keys : rows'[k].id = rows[k].id /\ rows'[k].ver = rows[k].ver /\ rows'[k].status \in {rows[k].status, "failed"}
    <2>1. CASE RequestFails
      <3>1. op.kind # "none"
        BY <2>1, TypesAre DEF RequestFails, ShapeOf
      <3> QED BY <2>1, <3>1, ThrowsIs DEF RequestFails
    <2> QED BY <2>1 DEF PassNext, ItemNext, StartPass, FindFolder, MakeFolder, EndPass, Crash, BeginCreate, BeginRewrite,
           BeginRemove, SourceChanges, AtHome
  <1>4. (op' = op /\ rows' = rows) \/ op' = NoOp \/ op'.at # "record"
    <2>1. CASE PassNext
      BY <2>1 DEF PassNext, StartPass, FindFolder, MakeFolder, EndPass, Crash, RequestFails, Throws
    <2>2. ASSUME NEW k \in Keys, BeginCreate(k) PROVE op'.at = "lookup"
      BY <2>2 DEF BeginCreate, NoOp
    <2>3. ASSUME NEW k \in Keys, BeginRewrite(k) PROVE op'.at \in {"lookup", "check"}
      BY <2>3 DEF BeginRewrite, NoOp
    <2>4. ASSUME NEW k \in Keys, BeginRemove(k) PROVE op'.at \in {"act", "check"}
      BY <2>4 DEF BeginRemove, NoOp
    <2>5. ASSUME NEW k \in Keys, SourceChanges(k) PROVE op' = op /\ rows' = rows
      BY <2>5 DEF SourceChanges, AtHome
    <2> QED BY <2>1, <2>2, <2>3, <2>4, <2>5 DEF ItemNext
  <1>5. op'.kind = "remove" /\ op'.at = "record" => GoneFor(op.key)'
    <2>1. ASSUME op'.kind = "remove", op'.at = "record" PROVE GoneFor(op.key)'
      <3>1. op' = op /\ rows' = rows
        BY <1>0, <1>4, <2>1
      <3> QED BY <1>1, <2>1, <3>1 DEF Gone, GoneFor, Shown
    <2> QED BY <2>1
  <1> QED BY <1>1, <1>3, <1>5, GoneKeeps

\* The steps of an operation.
LEMMA GoneOp ==
    ASSUME WritingTypes, OneKey, Gone, OpNext
    PROVE  Gone'
  <1>0. /\ copies \in [Ids -> Copy] /\ NoOp.kind = "none" /\ rows \in [Keys -> Row]
        /\ nextId \in Nat /\ op \in Op /\ op.kind # "none"
        /\ writer \in {"jmapMail", "jmapFile", "jmapContact", "imap", "carddav"}
    <2>1. op.at # "idle"
      BY TypesAre, OpIs DEF OpNext, targetKeys, findByNaturalKey, uidValidityOf, AlreadyThere, CreateCopy, NoFolder, Rescan, ReadBack,
             CheckVersion, CheckUid, RewriteCopy, RecordCopy, removeItem, verifyGone, RecordRemoval
    <2> QED BY <2>1, TypesAre DEF NoOp, ShapeOf
  <1>1. op.key \in Keys /\ \A k \in Keys : rows[k].status = "tombstoned" => rows[k].id \in Ids /\ rows[k].id <= nextId
    BY <1>0, TypesAre DEF ShapeOf, Gone, Ids
  <1>2. UNCHANGED <<writer, epoch>>
    BY DEF OpNext, targetKeys, findByNaturalKey, uidValidityOf, AlreadyThere, CreateCopy, NoFolder, Rescan, ReadBack,
             CheckVersion, CheckUid, RewriteCopy, RecordCopy, removeItem, verifyGone, RecordRemoval, server
  <1>3. Throws => /\ op' = NoOp
                  /\ \A k \in Keys : rows'[k].status = "tombstoned" => rows[k].status = "tombstoned" /\ rows'[k].id = rows[k].id /\ rows'[k].ver = rows[k].ver
    BY <1>0, ThrowsIs
  <1>4. ASSUME UNCHANGED copies, Throws \/ (rows' = rows /\ (op'.kind # "remove" \/ op'.at # "record")) PROVE Gone'
    <2>1. \A k \in Keys : rows'[k].status = "tombstoned" => rows[k].status = "tombstoned" /\ rows'[k].id = rows[k].id /\ rows'[k].ver = rows[k].ver
      BY <1>3, <1>4
    <2>2. op'.kind # "remove" \/ op'.at # "record"
      BY <1>0, <1>3, <1>4
    <2> QED BY <1>2, <1>4, <2>1, <2>2, GoneKeeps
  <1>5. CASE targetKeys
    <2>1. UNCHANGED copies /\ rows' = rows /\ op' = op /\ op.at = "lookup"
      BY <1>5 DEF targetKeys, server
    <2> QED BY <1>4, <2>1
  <1>6. CASE findByNaturalKey \/ uidValidityOf \/ Rescan \/ ReadBack \/ AlreadyThere
    <2>1. CASE findByNaturalKey
      <3>1. UNCHANGED copies /\ (Throws \/ (rows' = rows /\ op'.kind # "remove"))
        BY <2>1, LookupIs DEF Still, Goes, server
      <3> QED BY <1>4, <3>1
    <2>2. CASE uidValidityOf \/ Rescan
      <3>1. UNCHANGED copies /\ (Throws \/ (rows' = rows /\ op'.kind # "remove"))
        BY <2>2, StampIs, RescanIs DEF Still, Goes, server
      <3> QED BY <1>4, <3>1
    <2>3. CASE ReadBack \/ AlreadyThere
      <3>1. UNCHANGED copies /\ rows' = rows /\ op'.kind # "remove"
        BY <2>3, ReadBackIs, AlreadyIs DEF Still, Goes, server
      <3> QED BY <1>4, <3>1
    <2> QED BY <1>6, <2>1, <2>2, <2>3
  <1>7. CASE CheckVersion \/ CheckUid
    <2>1. UNCHANGED copies /\ rows' = rows /\ (op' = NoOp \/ op'.kind # "remove" \/ op'.at # "record")
      BY <1>7, CheckVersionIs, CheckUidIs DEF Still, Goes, server
    <2> QED BY <1>0, <1>4, <2>1
  <1>8. CASE NoFolder
    <2>1. UNCHANGED copies /\ Throws
      BY <1>8 DEF NoFolder, server
    <2> QED BY <1>4, <2>1
  <1>9. CASE RecordCopy
    <2>1. op' = NoOp /\ UNCHANGED copies
      BY <1>9, RecordIs DEF server
    <2>2. PICK r \in Row : rows' = [rows EXCEPT ![op.key] = r] /\ r.status # "tombstoned"
      BY <1>9, RecordIs
    <2>3. \A k \in Keys : rows'[k].status = "tombstoned" => rows'[k] = rows[k]
      BY <1>0, <2>2
    <2> QED BY <1>0, <1>2, <2>1, <2>3, GoneKeeps
  <1>10. CASE RecordRemoval
    <2>1. op' = NoOp /\ UNCHANGED copies /\ op.kind = "remove" /\ op.at = "record"
      BY <1>10, RemovalIs DEF server
    <2>2. PICK r \in Row : rows' = [rows EXCEPT ![op.key] = r] /\ r.status = "tombstoned" /\ r.id = rows[op.key].id /\ r.ver = rows[op.key].ver
      BY <1>10, RemovalIs
    <2>3. GoneFor(op.key) /\ rows[op.key].id # 0
      BY <1>1, <2>1, TypesAre DEF Gone, ShapeOf
    <2>4. \A k \in Keys : rows'[k].id = rows[k].id /\ rows'[k].ver = rows[k].ver /\ (rows'[k].status = "tombstoned" => k = op.key \/ rows[k].status = "tombstoned")
      BY <1>0, <2>2
    <2>5. \A k \in Keys : GoneFor(k) => GoneFor(k)'
      BY <1>2, <2>1, <2>4 DEF GoneFor, Shown
    <2>6. \A k \in Keys : rows'[k].status = "tombstoned" => rows'[k].id # 0 /\ GoneFor(k)'
      BY <2>3, <2>4, <2>5 DEF Gone
    <2> QED BY <1>0, <2>1, <2>6 DEF Gone
  <1>11. CASE CreateCopy
    <2>1. PICK i \in Ids : /\ i = nextId + 1
                           /\ copies' = [copies EXCEPT ![i] = [key |-> op.key, ver |-> clock + 1, place |-> "folder", ours |-> TRUE, edited |-> FALSE]]
                           /\ Throws \/ (UNCHANGED rows /\ op'.kind = "create")
      BY <1>11, CreateIs DEF Goes
    <2>2. \A k \in Keys : rows[k].status = "tombstoned" => copies'[rows[k].id] = copies[rows[k].id]
      BY <1>0, <1>1, <2>1
    <2>3. \A k \in Keys : rows'[k].status = "tombstoned" => rows[k].status = "tombstoned" /\ rows'[k].id = rows[k].id /\ rows'[k].ver = rows[k].ver
      BY <1>3, <2>1
    <2>4. op'.kind # "remove"
      BY <1>0, <1>3, <2>1
    <2> QED BY <1>2, <2>2, <2>3, <2>4, GoneKeeps
  <1>12. CASE RewriteCopy
    <2>1. /\ op.kind = "rewrite" /\ op.id \in Ids /\ Rewrites
          /\ \/ Throws /\ UNCHANGED copies
             \/ /\ copies' = [copies EXCEPT ![op.id] = [key |-> op.key, ver |-> clock + 1, place |-> "folder", ours |-> TRUE, edited |-> FALSE]]
                /\ Throws \/ (UNCHANGED rows /\ op'.kind = "rewrite")
      BY <1>12, RewriteIs DEF Goes
    <2>2. \A k \in Keys : rows[k].status = "tombstoned" => rows[k].id # op.id
      BY <2>1, GoneIsNotOp DEF Rewrites
    <2>3. \A k \in Keys : rows[k].status = "tombstoned" => copies'[rows[k].id] = copies[rows[k].id]
      BY <1>0, <1>1, <2>1, <2>2
    <2>4. \A k \in Keys : rows'[k].status = "tombstoned" => rows[k].status = "tombstoned" /\ rows'[k].id = rows[k].id /\ rows'[k].ver = rows[k].ver
      BY <1>3, <2>1
    <2>5. op'.kind # "remove"
      BY <1>0, <1>3, <2>1
    <2> QED BY <1>2, <2>3, <2>4, <2>5, GoneKeeps
  <1>13. CASE removeItem
    <2>1. op.id \in Ids /\ op.kind = "remove" /\ op.id = rows[op.key].id
      BY <1>13, RemoveIs
    <2>2. \/ Throws /\ UNCHANGED copies
          \/ /\ UNCHANGED rows
             /\ \/ Verifies /\ UNCHANGED copies
                \/ \E c \in Copy : copies' = [copies EXCEPT ![op.id] = c] /\ c.place \in {"nowhere", "bin"}
             /\ (Verifies /\ op'.at = "verify") \/ (~Verifies /\ op'.key = op.key)
      BY <1>13, <2>1, RemoveIs DEF Goes
    <2>3. \A j \in Ids : copies'[j] = copies[j] \/ copies'[j].place \in {"nowhere", "bin"}
      BY <1>0, <2>1, <2>2
    <2>4. \A k \in Keys : rows'[k].status = "tombstoned" => rows[k].status = "tombstoned" /\ rows'[k].id = rows[k].id /\ rows'[k].ver = rows[k].ver
      BY <1>3, <2>2
    <2>5. ASSUME op'.kind = "remove", op'.at = "record" PROVE GoneFor(op.key)'
      <3>1. op' # NoOp
        BY <1>0, <2>5
      <3>2. /\ UNCHANGED rows /\ ~Verifies /\ op'.key = op.key
            /\ \E c \in Copy : copies' = [copies EXCEPT ![op.id] = c] /\ c.place \in {"nowhere", "bin"}
        BY <1>3, <2>2, <2>5, <3>1
      <3>3. copies'[op.id].place \in {"nowhere", "bin"}
        BY <1>0, <2>1, <3>2
      <3> QED BY <1>2, <2>1, <3>2, <3>3 DEF GoneFor, Shown
    <2>6. \A k \in Keys : rows[k].status = "tombstoned" => copies'[rows[k].id].place \in {"nowhere", "bin", copies[rows[k].id].place}
      BY <1>1, <2>3
    <2> QED BY <1>2, <2>4, <2>5, <2>6, GoneKeeps
  <1>14. CASE verifyGone
    <2>1. UNCHANGED copies /\ op.kind = "remove" /\ op.id = rows[op.key].id
      BY <1>14, VerifyIs DEF Still, server
    <2>2. CASE Throws
      BY <1>4, <2>1, <2>2
    <2>3. CASE ~Throws
      <3>1. /\ rows' = rows /\ op'.key = op.key
            /\ IF writer = "imap" THEN copies[op.id].place # "folder" ELSE copies[op.id].place = "bin"
        BY <1>14, <2>3, VerifyIs DEF Goes
      <3>2. GoneFor(op.key)'
        BY <1>2, <2>1, <3>1 DEF GoneFor, Shown
      <3> QED BY <1>2, <2>1, <3>1, <3>2, GoneKeeps
    <2> QED BY <2>2, <2>3
  <1> QED BY <1>5, <1>6, <1>7, <1>8, <1>9, <1>10, <1>11, <1>12, <1>13, <1>14 DEF OpNext

-----------------------------------------------------------------------------
(* One copy of ours.                                                       *)

\* No second copy comes into view.
LEMMA SingleKeeps ==
    ASSUME WritingTypes, Single, writer' = writer,
           \A k \in Keys : \A i \in Ids : Ours(i, k)' => Ours(i, k),
           writer \in {"jmapFile", "jmapContact"} => \A k \in Keys : \A i \in Ids : i \in Holders(k)' => i \in Holders(k),
           writer = "carddav" => \A k \in Keys : rows'[k].status = "copied" => \A i \in Ids : Ours(i, k) => i = rows'[k].id,
           op'.kind = "create" => op'.key \in Keys,
           writer = "carddav" /\ op'.kind = "create" /\ op'.at = "record" /\ op'.adopted = FALSE => \A i \in Ids : Ours(i, op'.key) => i = op'.id,
           writer = "imap" /\ op'.kind = "create" /\ (op'.at = "write" \/ (op'.at = "stamp" /\ op'.adopted = FALSE)) => \A i \in Ids : ~Ours(i, op'.key)
    PROVE  Single'
  <1>1. \A k \in Keys : \A i, j \in Ids : Ours(i, k)' /\ Ours(j, k)' => i = j
    BY DEF Single
  <1>2. writer \in {"jmapFile", "jmapContact"} => \A k \in Keys : \A i, j \in Ids : i \in Holders(k)' /\ j \in Holders(k)' => i = j
    BY DEF Single
  <1>3. writer = "carddav" => \A k \in Keys : rows'[k].status = "copied" => \A i \in Ids : Ours(i, k)' => i = rows'[k].id
    OBVIOUS
  <1>4. PICK q : q = op'.key
    OBVIOUS
  <1>5. writer = "carddav" /\ op'.kind = "create" /\ op'.at = "record" /\ op'.adopted = FALSE => \A i \in Ids : Ours(i, q)' => i = op'.id
    BY <1>4
  <1>6. writer = "imap" /\ op'.kind = "create" /\ (op'.at = "write" \/ (op'.at = "stamp" /\ op'.adopted = FALSE)) => \A i \in Ids : ~Ours(i, q)'
    BY <1>4
  <1>7. \A i \in Ids : Ours(i, op.key)' <=> Ours(i, q)'
    BY <1>4 DEF Ours
  <1> QED BY <1>1, <1>2, <1>3, <1>5, <1>6, <1>7 DEF Single

\* A copy that was seen, or is new, is seen.
LEMMA OwnerSees ==
    ASSUME WritingTypes, OwnerNext, ~Recreates
    PROVE  \A k \in Keys : \A i \in Ids : /\ Ours(i, k)' => Ours(i, k)
                                          /\ i \in Holders(k)' => \/ i \in Holders(k)
                                                                  \/ i = nextId + 1 /\ (writer \in {"jmapFile", "jmapContact"} => MustRefuse(k) = {})
  <1>0. writer' = writer /\ writer \in {"jmapMail", "jmapFile", "jmapContact", "imap", "carddav"} /\ copies \in [Ids -> Copy]
    BY OwnerIs, TypesAre
  <1>1. /\ "nowhere" \notin Finds[writer] /\ "folder" \in Finds[writer]
        /\ writer = "jmapMail" => Finds[writer] = {"folder", "elsewhere", "both", "bin"}
        /\ writer = "imap" => "bin" \notin Finds[writer]
    BY <1>0 DEF Finds, findEmail, findMessage, findNode, findCard, findContact
  <1>2. ASSUME NEW i \in Ids PROVE
            \/ copies'[i].place \notin Finds[writer]
            \/ copies[i].place \in Finds[writer] /\ copies'[i].key = copies[i].key /\ copies'[i].ours = copies[i].ours
            \/ i = nextId + 1 /\ copies'[i].ours = FALSE /\ (writer \in {"jmapFile", "jmapContact"} => MustRefuse(copies'[i].key) = {})
    <2>1. Happens(i)
      BY OwnerIs
    <2>2. copies[i].place \in {"nowhere", "folder", "elsewhere", "bin", "both"}
      BY <1>0 DEF Copy, Places
    <2> QED BY <1>0, <1>1, <2>1, <2>2 DEF Happens
  <1>3. ASSUME NEW k \in Keys, NEW i \in Ids
        PROVE  /\ Ours(i, k)' => Ours(i, k)
               /\ i \in Holders(k)' => \/ i \in Holders(k)
                                       \/ i = nextId + 1 /\ (writer \in {"jmapFile", "jmapContact"} => MustRefuse(k) = {})
    <2>1. Ours(i, k)' => Ours(i, k)
      BY <1>0, <1>2 DEF Ours
    <2>2. ASSUME i \in Holders(k)' PROVE i \in Holders(k) \/ (i = nextId + 1 /\ (writer \in {"jmapFile", "jmapContact"} => MustRefuse(k) = {}))
      <3>1. copies'[i].place \in Finds[writer] /\ copies'[i].key = k
        BY <1>0, <2>2 DEF Holders, Visible
      <3> QED BY <1>2, <3>1 DEF Holders, Visible
    <2> QED BY <2>1, <2>2
  <1> QED BY <1>3

\* The owner.
LEMMA SingleOwner ==
    ASSUME WritingTypes, Single, OwnerNext, ServerDedups = TRUE \/ writer \notin {"jmapMail", "jmapContact"}
    PROVE  Single'
  <1>0. op.kind = "create" => op.key \in Keys
    BY TypesAre DEF ShapeOf
  <1>1. CASE ~Recreates
    <2>1. UNCHANGED <<writer, rows, op>>
      BY <1>1, OwnerIs DEF AtHome
    <2>2. \A k \in Keys : \A i \in Ids : Ours(i, k)' => Ours(i, k)
      BY <1>1, OwnerSees
    <2>3. CASE writer \in {"jmapFile", "jmapContact"}
      <3>1. \A k \in Keys : MustRefuse(k) = {} => Holders(k) = {}
        BY <2>3 DEF MustRefuse
      <3>2. \A k \in Keys : \A i, j \in Ids : i \in Holders(k)' /\ j \in Holders(k)' => i = j
        <4>1. ASSUME NEW k \in Keys, NEW i \in Ids, NEW j \in Ids, i \in Holders(k)', j \in Holders(k)' PROVE i = j
          <5>1. i \in Holders(k) \/ (i = nextId + 1 /\ Holders(k) = {})
            BY <1>1, <2>3, <3>1, <4>1, OwnerSees
          <5>2. j \in Holders(k) \/ (j = nextId + 1 /\ Holders(k) = {})
            BY <1>1, <2>3, <3>1, <4>1, OwnerSees
          <5> QED BY <2>3, <5>1, <5>2 DEF Single
        <4> QED BY <4>1
      <3>3. \A k \in Keys : \A i, j \in Ids : Ours(i, k)' /\ Ours(j, k)' => i = j
        BY <2>2 DEF Single
      <3>4. writer' = writer /\ writer # "carddav" /\ writer # "imap"
        BY <2>1, <2>3
      <3> QED BY <3>2, <3>3, <3>4 DEF Single
    <2>4. CASE writer \notin {"jmapFile", "jmapContact"}
      BY <1>0, <2>1, <2>2, <2>4, SingleKeeps DEF Single
    <2> QED BY <2>3, <2>4
  <1>2. CASE Recreates
    <2>1. PICK p \in [1 .. nextId -> 1 .. nextId] :
              /\ \A i, j \in 1 .. nextId : i # j => p[i] # p[j]
              /\ copies' = [i \in Ids |-> IF i <= nextId THEN copies[p[i]] ELSE copies[i]]
      BY <1>2 DEF Recreates
    <2>2. UNCHANGED <<writer, rows, op>> /\ writer = "imap" /\ nextId \in 0 .. MaxIds /\ MaxIds \in Nat
      BY <1>2, TypesAre DEF Recreates, AtHome
    <2>3. "nowhere" \notin Finds[writer]
      BY <2>2 DEF Finds, findMessage
    <2>4. ASSUME NEW k, NEW i \in Ids, Ours(i, k)' PROVE i \in 1 .. nextId /\ p[i] \in Ids /\ Ours(p[i], k)
      <3>1. copies'[i].place \in Finds[writer] /\ copies'[i].key = k /\ copies'[i].ours = TRUE
        BY <2>2, <2>4 DEF Ours
      <3>2. i <= nextId
        <4>1. \A j \in Ids : j > nextId => copies[j].place = "nowhere"
          BY TypesAre
        <4>2. CASE i > nextId
          BY <2>1, <2>2, <2>3, <3>1, <4>1, <4>2 DEF Ids
        <4> QED BY <2>2, <4>2 DEF Ids
      <3>3. i \in 1 .. nextId /\ p[i] \in Ids /\ copies'[i] = copies[p[i]]
        BY <2>1, <2>2, <3>2 DEF Ids
      <3> QED BY <3>1, <3>3 DEF Ours
    <2>5. \A k \in Keys : \A i, j \in Ids : Ours(i, k)' /\ Ours(j, k)' => i = j
      <3>1. ASSUME NEW k \in Keys, NEW i \in Ids, NEW j \in Ids, Ours(i, k)', Ours(j, k)' PROVE i = j
        <4>1. i \in 1 .. nextId /\ j \in 1 .. nextId /\ p[i] = p[j]
          BY <2>4, <3>1 DEF Single
        <4> QED BY <2>1, <4>1
      <3> QED BY <3>1
    <2>6. op.kind = "create" /\ (op.at = "write" \/ (op.at = "stamp" /\ op.adopted = FALSE)) => \A i \in Ids : ~Ours(i, op.key)'
      <3>1. PICK q : q = op.key
        OBVIOUS
      <3>2. op.kind = "create" /\ (op.at = "write" \/ (op.at = "stamp" /\ op.adopted = FALSE)) => \A i \in Ids : ~Ours(i, q)
        BY <2>2, <3>1 DEF Single
      <3>3. \A i \in Ids : Ours(i, q)' => \E j \in Ids : Ours(j, q)
        BY <2>4
      <3>4. \A i \in Ids : Ours(i, op.key)' <=> Ours(i, q)'
        BY <2>2, <3>1 DEF Ours
      <3> QED BY <3>2, <3>3, <3>4
    <2> QED BY <2>2, <2>5, <2>6 DEF Single
  <1> QED BY <1>1, <1>2

\* The steps of a pass and the beginnings of an operation.
LEMMA SinglePass ==
    ASSUME WritingTypes, Single, PassNext \/ ItemNext
    PROVE  Single'
  <1>0. NoOp.kind = "none" /\ (op.kind = "create" => op.key \in Keys)
    BY TypesAre DEF NoOp, ShapeOf
  <1>1. UNCHANGED <<writer, copies>>
    BY DEF PassNext, ItemNext, StartPass, FindFolder, MakeFolder, EndPass, Crash, RequestFails, BeginCreate, BeginRewrite,
           BeginRemove, SourceChanges, server
  <1>2. \A k \in Keys : rows'[k].id = rows[k].id /\ rows'[k].status \in {rows[k].status, "failed"}
    <2>1. CASE RequestFails
      <3>1. op.kind # "none"
        BY <2>1, TypesAre DEF RequestFails, ShapeOf
      <3> QED BY <2>1, <3>1, ThrowsIs DEF RequestFails
    <2> QED BY <2>1 DEF PassNext, ItemNext, StartPass, FindFolder, MakeFolder, EndPass, Crash, BeginCreate, BeginRewrite,
           BeginRemove, SourceChanges, AtHome
  <1>3. op' = op \/ op' = NoOp \/ (op'.kind = "create" /\ op'.key \in Keys /\ op'.at = "lookup") \/ op'.kind \in {"rewrite", "remove"}
    <2>1. CASE PassNext
      BY <2>1 DEF PassNext, StartPass, FindFolder, MakeFolder, EndPass, Crash, RequestFails, Throws
    <2>2. ASSUME NEW k \in Keys, BeginCreate(k) PROVE op'.at = "lookup" /\ op'.key \in Keys /\ op'.kind = "create"
      BY <2>2 DEF BeginCreate, NoOp
    <2>3. ASSUME NEW k \in Keys, BeginRewrite(k) PROVE op'.kind = "rewrite"
      BY <2>3 DEF BeginRewrite, NoOp
    <2>4. ASSUME NEW k \in Keys, BeginRemove(k) PROVE op'.kind = "remove"
      BY <2>4 DEF BeginRemove, NoOp
    <2>5. ASSUME NEW k \in Keys, SourceChanges(k) PROVE op' = op
      BY <2>5 DEF SourceChanges, AtHome
    <2> QED BY <2>1, <2>2, <2>3, <2>4, <2>5 DEF ItemNext
  <1>4. \A k \in Keys : \A i \in Ids : (Ours(i, k)' <=> Ours(i, k)) /\ (i \in Holders(k)' <=> i \in Holders(k))
    BY <1>1 DEF Ours, Holders, Visible
  <1>5. writer = "carddav" => \A k \in Keys : rows'[k].status = "copied" => \A i \in Ids : Ours(i, k) => i = rows'[k].id
    BY <1>2 DEF Single
  <1>6. op'.kind = "create" => op'.key \in Keys
    BY <1>0, <1>3
  <1>7. writer = "carddav" /\ op'.kind = "create" /\ op'.at = "record" /\ op'.adopted = FALSE => \A i \in Ids : Ours(i, op'.key) => i = op'.id
    BY <1>0, <1>3 DEF Single
  <1>8. writer = "imap" /\ op'.kind = "create" /\ (op'.at = "write" \/ (op'.at = "stamp" /\ op'.adopted = FALSE)) => \A i \in Ids : ~Ours(i, op'.key)
    BY <1>0, <1>3 DEF Single
  <1> QED BY <1>1, <1>4, <1>5, <1>6, <1>7, <1>8, SingleKeeps

\* The steps of an operation.
LEMMA SingleOp ==
    ASSUME WritingTypes, OneKey, Uids, Single, OpNext, ServerDedups = TRUE \/ writer \notin {"jmapMail", "jmapContact"}
    PROVE  Single'
  <1>0. /\ copies \in [Ids -> Copy] /\ NoOp.kind = "none" /\ rows \in [Keys -> Row]
        /\ nextId \in Nat /\ op \in Op /\ op.kind # "none" /\ op.adopted \in BOOLEAN
        /\ writer \in {"jmapMail", "jmapFile", "jmapContact", "imap", "carddav"}
    <2>1. op.at # "idle"
      BY TypesAre, OpIs DEF OpNext, targetKeys, findByNaturalKey, uidValidityOf, AlreadyThere, CreateCopy, NoFolder, Rescan, ReadBack,
             CheckVersion, CheckUid, RewriteCopy, RecordCopy, removeItem, verifyGone, RecordRemoval
    <2> QED BY <2>1, TypesAre, OpIs DEF NoOp, ShapeOf
  <1>1. op.key \in Keys
    BY <1>0, TypesAre DEF ShapeOf
  <1>2. writer' = writer
    BY DEF OpNext, targetKeys, findByNaturalKey, uidValidityOf, AlreadyThere, CreateCopy, NoFolder, Rescan, ReadBack,
             CheckVersion, CheckUid, RewriteCopy, RecordCopy, removeItem, verifyGone, RecordRemoval, server
  <1>3. Throws => /\ op' = NoOp
                  /\ \A k \in Keys : rows'[k].status = "copied" => rows[k].status = "copied" /\ rows'[k].id = rows[k].id
    BY <1>0, ThrowsIs
  <1>4. UNCHANGED copies => \A k \in Keys : \A i \in Ids : (Ours(i, k)' <=> Ours(i, k)) /\ (i \in Holders(k)' <=> i \in Holders(k))
    BY <1>2 DEF Ours, Holders, Visible
  <1>5. ASSUME UNCHANGED copies,
               Throws \/ /\ rows' = rows /\ (op'.kind = "create" => op'.key = op.key)
                         /\ writer = "carddav" /\ op'.kind = "create" /\ op'.at = "record" /\ op'.adopted = FALSE => \A i \in Ids : Ours(i, op.key) => i = op'.id
                         /\ writer = "imap" /\ op'.kind = "create" /\ (op'.at = "write" \/ (op'.at = "stamp" /\ op'.adopted = FALSE)) => \A i \in Ids : ~Ours(i, op.key)
        PROVE  Single'
    <2>1. writer = "carddav" => \A k \in Keys : rows'[k].status = "copied" => \A i \in Ids : Ours(i, k) => i = rows'[k].id
      BY <1>3, <1>5 DEF Single
    <2>2. op'.kind = "create" => op'.key \in Keys /\ rows' = rows
      BY <1>0, <1>1, <1>3, <1>5
    <2>3. op'.kind = "create" => ~Throws /\ op'.key = op.key
      BY <1>0, <1>3, <1>5
    <2> QED BY <1>2, <1>4, <1>5, <2>1, <2>2, <2>3, SingleKeeps
  <1>6. CASE targetKeys
    <2>1. UNCHANGED copies /\ rows' = rows /\ op' = op /\ op.at = "lookup"
      BY <1>6 DEF targetKeys, server
    <2> QED BY <1>5, <2>1
  <1>7. CASE findByNaturalKey
    <2>1. /\ UNCHANGED copies
          /\ \/ Throws
             \/ rows' = rows /\ op'.kind = "rewrite"
             \/ rows' = rows /\ op'.key = op.key /\ op'.adopted = TRUE /\ op'.at # "write"
             \/ rows' = rows /\ op'.key = op.key /\ writer = "imap" /\ (snapshot.at # "map" => Holders(op.key) = {})
             \/ rows' = rows /\ op'.key = op.key /\ writer # "imap" /\ op'.at = "write"
      BY <1>7, LookupIs DEF Goes, Still, server
    <2>2. writer = "imap" => snapshot.at # "map"
      BY DEF Uids
    <2>3. Holders(op.key) = {} => \A i \in Ids : ~Ours(i, op.key)
      BY DEF Ours, Holders, Visible
    <2> QED BY <1>5, <2>1, <2>2, <2>3
  <1>8. CASE uidValidityOf
    <2>1. /\ UNCHANGED copies /\ rows' = rows /\ op.kind = "create" /\ op.at = "stamp" /\ op'.key = op.key /\ writer = "imap"
          /\ op'.at = "record" \/ (op'.at = "write" /\ op.adopted = FALSE)
      BY <1>8, StampIs DEF Goes, Still, server
    <2>2. op.adopted = FALSE => \A i \in Ids : ~Ours(i, op.key)
      BY <2>1 DEF Single
    <2> QED BY <1>5, <2>1, <2>2
  <1>9. CASE AlreadyThere
    <2>1. PICK i \in Ids : /\ writer = "carddav" => copies[i].ours = TRUE \/ \A j \in Holders(op.key) : copies[j].ours = FALSE
                           /\ i \in Holders(op.key) /\ op'.key = op.key /\ op'.id = i /\ op'.at = "record"
      BY <1>9, AlreadyIs DEF Goes
    <2>2. UNCHANGED copies /\ rows' = rows /\ writer # "imap"
      BY <1>9, AlreadyIs DEF server
    <2>3. ASSUME writer = "carddav", NEW j \in Ids, Ours(j, op.key) PROVE j = i
      <3>1. j \in Holders(op.key) /\ copies[j].ours = TRUE
        BY <2>3 DEF Ours, Holders, Visible
      <3>2. copies[i].ours = TRUE
        BY <2>1, <2>3, <3>1
      <3>3. Ours(i, op.key)
        BY <2>1, <3>2 DEF Ours, Holders, Visible
      <3> QED BY <1>1, <2>3, <3>3 DEF Single
    <2> QED BY <1>5, <2>1, <2>2, <2>3
  <1>10. CASE Rescan
    <2>1. UNCHANGED copies /\ writer = "imap" /\ (Throws \/ (rows' = rows /\ op'.key = op.key /\ op'.at = "record"))
      BY <1>10, RescanIs DEF Goes, Still, server
    <2> QED BY <1>5, <2>1
  <1>11. CASE ReadBack
    <2>1. UNCHANGED copies /\ op.at = "readback" /\ rows' = rows /\ op'.key = op.key /\ op'.at = "record" /\ writer \in {"jmapFile", "jmapContact"}
      BY <1>11, ReadBackIs DEF Goes, Still, server
    <2> QED BY <1>5, <2>1
  <1>12. CASE CheckVersion \/ CheckUid
    <2>1. UNCHANGED copies /\ rows' = rows /\ (op' = NoOp \/ op'.kind # "create")
      BY <1>12, CheckVersionIs, CheckUidIs DEF Goes, Still, server
    <2> QED BY <1>0, <1>5, <2>1
  <1>13. CASE NoFolder
    <2>1. UNCHANGED copies /\ Throws
      BY <1>13 DEF NoFolder, server
    <2> QED BY <1>5, <2>1
  <1>14. CASE verifyGone
    <2>1. UNCHANGED copies /\ (Throws \/ (rows' = rows /\ op'.kind # "create"))
      BY <1>14, VerifyIs DEF Goes, Still, server
    <2> QED BY <1>5, <2>1
  <1>15. CASE RecordCopy
    <2>1. op' = NoOp /\ UNCHANGED copies /\ op.kind \in {"create", "rewrite"} /\ op.at = "record"
      BY <1>15, RecordIs DEF server
    <2>2. PICK r \in Row : /\ rows' = [rows EXCEPT ![op.key] = r]
                           /\ r.status = "copied" => r.id = op.id /\ op.adopted = FALSE
      BY <1>15, RecordIs
    <2>3. ASSUME writer = "carddav", NEW k \in Keys, rows'[k].status = "copied", NEW i \in Ids, Ours(i, k) PROVE i = rows'[k].id
      <3>1. CASE k # op.key
        BY <1>0, <2>2, <2>3, <3>1 DEF Single
      <3>2. CASE k = op.key
        <4>1. rows'[k] = r
          BY <1>0, <2>2, <3>2
        <4>2. CASE op.kind = "create"
          BY <2>1, <2>2, <2>3, <3>2, <4>1, <4>2 DEF Single
        <4>3. CASE op.kind = "rewrite"
          <5>1. op.id = rows[op.key].id /\ rows[op.key].status = "copied"
            BY <2>3, <4>3, TypesAre DEF ShapeOf
          <5> QED BY <1>1, <2>2, <2>3, <3>2, <4>1, <5>1 DEF Single
        <4> QED BY <2>1, <4>2, <4>3
      <3> QED BY <3>1, <3>2
    <2> QED BY <1>0, <1>2, <1>4, <2>1, <2>3, SingleKeeps
  <1>16. CASE RecordRemoval
    <2>1. op' = NoOp /\ UNCHANGED copies
      BY <1>16, RemovalIs DEF server
    <2>2. PICK r \in Row : rows' = [rows EXCEPT ![op.key] = r] /\ r.status = "tombstoned"
      BY <1>16, RemovalIs
    <2>3. \A k \in Keys : rows'[k].status = "copied" => rows'[k] = rows[k]
      BY <1>0, <2>2
    <2>4. writer = "carddav" => \A k \in Keys : rows'[k].status = "copied" => \A i \in Ids : Ours(i, k) => i = rows'[k].id
      BY <2>3 DEF Single
    <2> QED BY <1>0, <1>2, <1>4, <2>1, <2>4, SingleKeeps
  <1>17. CASE removeItem
    <2>1. op.id \in Ids /\ op.kind = "remove"
      BY <1>17, RemoveIs
    <2>2. Throws \/ (rows' = rows /\ op'.kind = "remove")
      BY <1>17, <2>1, RemoveIs DEF Goes
    <2>3. \/ UNCHANGED copies
          \/ \E c \in Copy : /\ copies' = [copies EXCEPT ![op.id] = c]
                             /\ \/ c.place = "nowhere"
                                \/ /\ c.place = "bin" /\ writer \in {"jmapMail", "imap"} /\ copies[op.id].place # "nowhere"
                                   /\ c.key = copies[op.id].key /\ c.ours = copies[op.id].ours
      BY <1>17, RemoveIs
    <2>4. /\ "nowhere" \notin Finds[writer]
          /\ writer = "jmapMail" => Finds[writer] = {"folder", "elsewhere", "both", "bin"}
          /\ writer = "imap" => "bin" \notin Finds[writer]
      BY <1>0 DEF Finds, findEmail, findMessage, findNode, findCard, findContact
    <2>5. \A j \in Ids : copies[j].place \in {"nowhere", "folder", "elsewhere", "bin", "both"}
      BY <1>0 DEF Copy, Places
    <2>6. \A j \in Ids : copies'[j].place \in Finds[writer] => copies[j].place \in Finds[writer] /\ copies'[j].key = copies[j].key /\ copies'[j].ours = copies[j].ours
      BY <1>0, <2>1, <2>3, <2>4, <2>5
    <2>7. \A k \in Keys : \A i \in Ids : (Ours(i, k)' => Ours(i, k)) /\ (i \in Holders(k)' => i \in Holders(k))
      BY <1>2, <2>6 DEF Ours, Holders, Visible
    <2>8. writer = "carddav" => \A k \in Keys : rows'[k].status = "copied" => \A i \in Ids : Ours(i, k) => i = rows'[k].id
      BY <1>3, <2>2 DEF Single
    <2>9. op'.kind # "create"
      BY <1>0, <1>3, <2>2
    <2> QED BY <1>2, <2>7, <2>8, <2>9, SingleKeeps
  <1>18. CASE CreateCopy
    <2>1. PICK i \in Ids : /\ i = nextId + 1
                           /\ copies' = [copies EXCEPT ![i] = [key |-> op.key, ver |-> clock + 1, place |-> "folder", ours |-> TRUE, edited |-> FALSE]]
                           /\ Throws \/ (UNCHANGED rows /\ op'.kind = "create" /\ op'.key = op.key /\ op'.id = i /\ op'.at \in {"record", "rescan", "readback"})
      BY <1>18, CreateIs DEF Goes
    <2>2. MustRefuse(op.key) = {} /\ op.at = "write" /\ op.kind = "create" /\ copies[i].place = "nowhere"
      BY <1>0, <1>18, <2>1, CreateIs, TypesAre
    <2>3. \A j \in Ids : ~Ours(j, op.key)
      <3>1. CASE writer = "imap"
        BY <2>2, <3>1 DEF Single
      <3>2. CASE writer = "carddav"
        BY <2>2, <3>2 DEF MustRefuse, Ours, Holders, Visible
      <3>3. CASE writer \in {"jmapMail", "jmapFile", "jmapContact"}
        <4>1. MustRefuse(op.key) = Holders(op.key)
          BY <3>3 DEF MustRefuse
        <4> QED BY <2>2, <4>1 DEF Ours, Holders, Visible
      <3> QED BY <1>0, <3>1, <3>2, <3>3
    <2>4. /\ \A j \in Ids : j # i => copies'[j] = copies[j]
          /\ copies'[i].key = op.key
      BY <1>0, <2>1
    <2>5. \A k \in Keys : \A j \in Ids : /\ Ours(j, k)' => Ours(j, k) \/ (j = i /\ k = op.key)
                                         /\ j \in Holders(k)' => j \in Holders(k) \/ (j = i /\ k = op.key)
      <3>1. ASSUME NEW k \in Keys, NEW j \in Ids
            PROVE  /\ Ours(j, k)' => Ours(j, k) \/ (j = i /\ k = op.key)
                   /\ j \in Holders(k)' => j \in Holders(k) \/ (j = i /\ k = op.key)
        <4>1. CASE j # i
          BY <1>2, <2>4, <4>1 DEF Ours, Holders, Visible
        <4>2. CASE j = i
          BY <1>2, <2>4, <4>2 DEF Ours, Holders, Visible
        <4> QED BY <4>1, <4>2
      <3> QED BY <3>1
    <2>6. \A k \in Keys : \A a, b \in Ids : Ours(a, k)' /\ Ours(b, k)' => a = b
      BY <2>3, <2>5 DEF Single
    <2>7. writer \in {"jmapFile", "jmapContact"} => \A k \in Keys : \A a, b \in Ids : a \in Holders(k)' /\ b \in Holders(k)' => a = b
      <3>1. writer \in {"jmapFile", "jmapContact"} => MustRefuse(op.key) = Holders(op.key)
        BY DEF MustRefuse
      <3> QED BY <2>2, <2>5, <3>1 DEF Single
    <2>8. rows[op.key].status # "copied"
      BY <2>2, TypesAre DEF ShapeOf
    <2>9. writer = "carddav" => \A k \in Keys : rows'[k].status = "copied" => \A a \in Ids : Ours(a, k)' => a = rows'[k].id
      <3>1. \A k \in Keys : rows'[k].status = "copied" => rows[k].status = "copied" /\ rows'[k].id = rows[k].id
        BY <1>3, <2>1
      <3> QED BY <2>5, <2>8, <3>1 DEF Single
    <2>10. PICK q : q = op.key
      OBVIOUS
    <2>11. \A a \in Ids : Ours(a, q)' => a = i
      BY <1>1, <2>3, <2>5, <2>10
    <2>12. op'.kind = "create" => op'.key = q /\ op'.id = i /\ op'.at \in {"record", "rescan", "readback"}
      BY <1>0, <1>3, <2>1, <2>10
    <2>13. op'.kind = "create" => \A a \in Ids : Ours(a, op.key)' => a = op'.id
      <3>1. op'.kind = "create" => \A a \in Ids : Ours(a, op.key)' <=> Ours(a, q)'
        BY <2>12 DEF Ours
      <3> QED BY <2>11, <2>12, <3>1
    <2> QED BY <1>2, <2>6, <2>7, <2>9, <2>12, <2>13 DEF Single
  <1>19. CASE RewriteCopy
    <2>1. op.kind = "rewrite" /\ op.id \in Ids /\ Rewrites /\ writer \in {"jmapFile", "jmapContact", "carddav"}
          /\ rows[op.key].status = "copied" /\ (writer = "carddav" => op.id = rows[op.key].id)
      BY <1>0, <1>19, RewriteIs, TypesAre DEF Rewrites, ShapeOf
    <2>2. CASE Throws /\ UNCHANGED copies
      BY <1>5, <2>2
    <2>3. CASE ~(Throws /\ UNCHANGED copies)
      <3>1. /\ copies' = [copies EXCEPT ![op.id] = [key |-> op.key, ver |-> clock + 1, place |-> "folder", ours |-> TRUE, edited |-> FALSE]]
            /\ writer # "carddav" => op.id \in Shown
            /\ Throws \/ (UNCHANGED rows /\ op'.kind = "rewrite")
        BY <1>19, <2>1, <2>3, RewriteIs DEF Goes
      <3>2. /\ \A j \in Ids : j # op.id => copies'[j] = copies[j]
            /\ copies'[op.id].key = op.key
        BY <1>0, <2>1, <3>1
      <3>3. \A k \in Keys : \A j \in Ids : /\ Ours(j, k)' => Ours(j, k) \/ (j = op.id /\ k = op.key)
                                           /\ j \in Holders(k)' => j \in Holders(k) \/ (j = op.id /\ k = op.key)
        <4>1. ASSUME NEW k \in Keys, NEW j \in Ids
              PROVE  /\ Ours(j, k)' => Ours(j, k) \/ (j = op.id /\ k = op.key)
                     /\ j \in Holders(k)' => j \in Holders(k) \/ (j = op.id /\ k = op.key)
          <5>1. CASE j # op.id
            BY <1>2, <3>2, <5>1 DEF Ours, Holders, Visible
          <5>2. CASE j = op.id
            BY <1>2, <3>2, <5>2 DEF Ours, Holders, Visible
          <5> QED BY <5>1, <5>2
        <4> QED BY <4>1
      <3>4. CASE writer \in {"jmapFile", "jmapContact"}
        <4>1. op.id \in Shown
          BY <3>1, <3>4
        <4>2. copies[op.id].key = op.key
          <5>1. copies[op.id].key \in Keys \cup {NoKey} /\ copies[op.id].place # "nowhere"
            BY <1>0, <4>1 DEF Shown, Copy
          <5>2. Stands(op.id, op.key) /\ Stands(op.id, copies[op.id].key)
            BY <5>1 DEF Stands
          <5> QED BY <1>1, <2>1, <3>4, <5>1, <5>2 DEF OneKey
        <4>3. op.id \in Holders(op.key)
          <5>1. copies[op.id].place \in {"folder", "elsewhere"} /\ (writer = "jmapFile" => copies[op.id].place = "folder")
            BY <2>1, <3>4, <4>1 DEF WritingTypes, Placed, Shown
          <5>2. copies[op.id].place \in Finds[writer]
            BY <3>4, <5>1 DEF Finds, findNode, findCard
          <5> QED BY <2>1, <4>2, <5>2 DEF Holders, Visible
        <4>4. \A k \in Keys : \A j \in Ids : j \in Holders(k)' => j \in Holders(k)
          BY <3>3, <4>3
        <4>5. \A k \in Keys : \A j \in Ids : Ours(j, k)' => j \in Holders(k)
          <5>1. \A k \in Keys : \A j \in Ids : Ours(j, k) => j \in Holders(k)
            BY DEF Ours, Holders, Visible
          <5> QED BY <3>3, <4>3, <5>1
        <4>6. \A k \in Keys : \A a, b \in Ids : Ours(a, k)' /\ Ours(b, k)' => a = b
          BY <3>4, <4>5 DEF Single
        <4>7. \A k \in Keys : \A a, b \in Ids : a \in Holders(k)' /\ b \in Holders(k)' => a = b
          BY <3>4, <4>4 DEF Single
        <4>8. writer' # "carddav" /\ writer' # "imap"
          BY <1>2, <3>4
        <4> QED BY <4>6, <4>7, <4>8 DEF Single
      <3>5. CASE writer = "carddav"
        <4>1. \A j \in Ids : Ours(j, op.key) => j = op.id
          BY <1>1, <2>1, <3>5 DEF Single
        <4>2. \A k \in Keys : \A a, b \in Ids : Ours(a, k)' /\ Ours(b, k)' => a = b
          BY <3>3, <4>1 DEF Single
        <4>3. \A k \in Keys : rows'[k].status = "copied" => rows[k].status = "copied" /\ rows'[k].id = rows[k].id
          BY <1>3, <3>1
        <4>4. \A k \in Keys : rows'[k].status = "copied" => \A a \in Ids : Ours(a, k)' => a = rows'[k].id
          BY <2>1, <3>3, <3>5, <4>3 DEF Single
        <4>5. op'.kind # "create"
          BY <1>0, <1>3, <3>1
        <4> QED BY <1>2, <3>5, <4>2, <4>4, <4>5 DEF Single
      <3> QED BY <2>1, <3>4, <3>5
    <2> QED BY <2>2, <2>3
  <1> QED BY <1>6, <1>7, <1>8, <1>9, <1>10, <1>11, <1>12, <1>13, <1>14, <1>15, <1>16, <1>17, <1>18, <1>19 DEF OpNext

-----------------------------------------------------------------------------
(* Versions.                                                               *)

\* A version is a number.
LEMMA VersionsAre ==
    ASSUME WritingTypes
    PROVE  /\ clock \in Nat /\ op.ver \in Nat /\ (\A k \in Keys : rows[k].ver \in Nat) /\ \A i \in Ids : copies[i].ver \in Nat
           /\ NoOp.ver = 0 /\ NoOp.at = "idle"
  <1>1. op.ver \in 0 .. MaxClock + 1 /\ (\A k \in Keys : rows[k].ver \in 0 .. MaxClock + 1) /\ clock \in 0 .. MaxClock
    BY TypesAre, OpIs
  <1>2. \A i \in Ids : copies[i].ver \in 0 .. MaxClock
    BY TypesAre DEF Copy
  <1> QED BY <1>1, <1>2 DEF NoOp

\* Copies that stay as they are, or go, and versions that were there.
LEMMA VersionsKeep ==
    ASSUME WritingTypes, Versions, UNCHANGED <<writer, clock>>,
           \A i \in Ids : copies'[i].place # "nowhere" => /\ copies[i].place # "nowhere" /\ copies'[i].ver = copies[i].ver
                                                          /\ copies'[i].edited = copies[i].edited /\ copies'[i].ours = copies[i].ours,
           op'.ver \in {0, op.ver} \/ \E j \in Ids : copies[j].place # "nowhere" /\ ~Theirs(j) /\ op'.ver = copies[j].ver,
           \A k \in Keys : rows'[k].ver \in {rows[k].ver, op.ver},
           op'.at = "readback" => op'.id \in Ids /\ ~Theirs(op'.id),
           Rewrites /\ (op'.at = "act" \/ (op'.at = "write" /\ op'.kind = "rewrite")) /\ op'.blind = FALSE /\ rows'[op'.key].ver # 0
              => op'.id \in Ids /\ ~Theirs(op'.id)
    PROVE  Versions'
  <1>0. SUFFICES ASSUME Rewrites PROVE Versions'
    BY DEF Versions, Rewrites
  <1>1. /\ op.ver <= clock /\ \A k \in Keys : rows[k].ver <= clock
        /\ \A i \in Ids : copies[i].place # "nowhere" => copies[i].ver <= clock /\ copies[i].ver # 0
        /\ \A i \in Ids : Theirs(i) => copies[i].ver # op.ver /\ \A k \in Keys : copies[i].ver # rows[k].ver
        /\ \A i, j \in Ids : Theirs(i) /\ copies[j].place # "nowhere" /\ ~Theirs(j) => copies[i].ver # copies[j].ver
    BY <1>0 DEF Versions
  <1>2. clock \in Nat /\ clock' = clock /\ 0 <= clock
    BY VersionsAre
  <1>3. \A i \in Ids : Theirs(i)' => Theirs(i) /\ copies'[i].ver = copies[i].ver /\ copies[i].place # "nowhere"
    BY DEF Theirs
  <1>4. \A i \in Ids : copies'[i].place # "nowhere" => (Theirs(i)' <=> Theirs(i)) /\ copies'[i].ver = copies[i].ver /\ copies[i].place # "nowhere"
    BY DEF Theirs
  <1>5. op'.ver <= clock'
    BY <1>1, <1>2
  <1>6. \A k \in Keys : rows'[k].ver <= clock'
    BY <1>1, <1>2
  <1>7. \A i \in Ids : copies'[i].place # "nowhere" => copies'[i].ver <= clock' /\ copies'[i].ver # 0
    BY <1>1, <1>2, <1>4
  <1>8. \A i \in Ids : Theirs(i)' => copies'[i].ver # op'.ver /\ \A k \in Keys : copies'[i].ver # rows'[k].ver
    BY <1>1, <1>3
  <1>9. \A i, j \in Ids : Theirs(i)' /\ copies'[j].place # "nowhere" /\ ~Theirs(j)' => copies'[i].ver # copies'[j].ver
    BY <1>1, <1>3, <1>4
  <1>10. \A q \in Ids : Theirs(q)' => Theirs(q)
    BY <1>3
  <1>11. Theirs(op.id)' /\ op'.id \in Ids => Theirs(op'.id)
    <2>1. PICK q : q = op'.id
      OBVIOUS
    <2>2. Theirs(q)' /\ q \in Ids => Theirs(q)
      BY <1>10
    <2>3. Theirs(op.id)' <=> Theirs(q)'
      BY <2>1 DEF Theirs
    <2> QED BY <2>1, <2>2, <2>3
  <1>12. Rewrites'
    BY <1>0 DEF Rewrites
  <1> QED BY <1>0, <1>5, <1>6, <1>7, <1>8, <1>9, <1>11 DEF Versions

\* A copy with a version of its own.
LEMMA VersionsNew ==
    ASSUME WritingTypes, Versions, Rewrites, UNCHANGED writer, NEW n \in Ids, NEW c \in Copy,
           copies' = [copies EXCEPT ![n] = c], c.ver = clock + 1, clock' = clock + 1, c.place # "nowhere",
           op'.ver \in {0, op.ver} \/ (op'.ver = clock + 1 /\ c.edited = FALSE /\ c.ours = TRUE),
           \A k \in Keys : rows'[k].ver = rows[k].ver,
           op'.at = "readback" => ~Theirs(op.id)',
           (op'.at = "act" \/ (op'.at = "write" /\ op'.kind = "rewrite")) /\ op'.blind = FALSE /\ rows'[op'.key].ver # 0
              => ~Theirs(op.id)'
    PROVE  Versions'
  <1>1. /\ op.ver <= clock /\ \A k \in Keys : rows[k].ver <= clock
        /\ \A i \in Ids : copies[i].place # "nowhere" => copies[i].ver <= clock /\ copies[i].ver # 0
        /\ \A i \in Ids : Theirs(i) => copies[i].ver # op.ver /\ \A k \in Keys : copies[i].ver # rows[k].ver
        /\ \A i, j \in Ids : Theirs(i) /\ copies[j].place # "nowhere" /\ ~Theirs(j) => copies[i].ver # copies[j].ver
    BY DEF Versions
  <1>2. /\ clock \in Nat /\ op.ver \in Nat /\ (\A k \in Keys : rows[k].ver \in Nat) /\ \A i \in Ids : copies[i].ver \in Nat
    BY VersionsAre
  <1>3. PICK t \in Nat : t = clock + 1
    BY <1>2
  <1>4. copies'[n] = c /\ \A i \in Ids : i # n => copies'[i] = copies[i]
    BY TypesAre
  <1>5. \A i \in Ids : i # n => (Theirs(i)' <=> Theirs(i))
    BY <1>4 DEF Theirs
  <1>6. Theirs(n)' <=> (c.edited = TRUE \/ c.ours = FALSE)
    BY <1>4 DEF Theirs
  <1>7. \A i \in Ids : Theirs(i) => copies[i].place # "nowhere"
    BY DEF Theirs
  <1>8. op.ver # t /\ op.ver <= t /\ (\A k \in Keys : rows[k].ver # t /\ rows[k].ver <= t) /\ t # 0 /\ 0 <= t /\ t <= t
        /\ \A i \in Ids : copies[i].place # "nowhere" => copies[i].ver # t /\ copies[i].ver <= t
    BY <1>1, <1>2, <1>3
  <1>9. op'.ver <= clock' /\ \A k \in Keys : rows'[k].ver <= clock'
    BY <1>3, <1>8
  <1>10. \A i \in Ids : copies'[i].place # "nowhere" => copies'[i].ver <= clock' /\ copies'[i].ver # 0
    BY <1>1, <1>3, <1>4, <1>8
  <1>11. ASSUME NEW i \in Ids, Theirs(i)' PROVE copies'[i].ver # op'.ver /\ \A k \in Keys : copies'[i].ver # rows'[k].ver
    <2>1. CASE i = n
      BY <1>3, <1>4, <1>6, <1>8, <1>11, <2>1
    <2>2. CASE i # n
      BY <1>1, <1>3, <1>4, <1>5, <1>7, <1>8, <1>11, <2>2
    <2> QED BY <2>1, <2>2
  <1>12. ASSUME NEW i \in Ids, NEW j \in Ids, Theirs(i)', copies'[j].place # "nowhere", ~Theirs(j)' PROVE copies'[i].ver # copies'[j].ver
    <2>1. CASE i = n /\ j # n
      BY <1>3, <1>4, <1>8, <1>12, <2>1
    <2>2. CASE i # n /\ j = n
      BY <1>3, <1>4, <1>5, <1>7, <1>8, <1>12, <2>2
    <2>3. CASE i # n /\ j # n
      BY <1>1, <1>4, <1>5, <1>12, <2>3
    <2> QED BY <1>12, <2>1, <2>2, <2>3
  <1> QED BY <1>9, <1>10, <1>11, <1>12 DEF Versions

\* The owner.
LEMMA VersionsOwner ==
    ASSUME WritingTypes, Versions, OwnerNext, EditsMidWrite = FALSE
    PROVE  Versions'
  <1>0. copies \in [Ids -> Copy] /\ NoCopy.place = "nowhere" /\ clock \in Nat /\ op \in Op
    BY TypesAre DEF NoCopy
  <1>1. UNCHANGED <<writer, rows, op>>
    BY DEF OwnerNext, Arrives, Edits, Discards, Files, Recreates, TogglesFolder, AtHome
  <1>2. SUFFICES ASSUME Rewrites PROVE Versions'
    BY <1>1 DEF Versions, Rewrites
  <1>3. op.at = "readback" \/ op.at = "act" \/ (op.at = "write" /\ op.kind = "rewrite") => op.id \in Ids /\ op.id <= nextId
    <2>1. op.at = "readback" \/ op.at = "act" \/ (op.at = "write" /\ op.kind = "rewrite") => op.id # 0
      <3>1. op \in Op /\ ShapeOf(op, rows) /\ \A k \in Keys : rows[k].status = "copied" => rows[k].id # 0
        BY TypesAre
      <3>2. op.at = "act" => op.kind = "remove"
        BY <3>1, OpIs DEF ShapeOf, NoOp
      <3>3. op.kind = "remove" => op.id # 0
        BY <3>1 DEF ShapeOf
      <3> QED BY <3>1, <3>2, <3>3 DEF ShapeOf
    <2> QED BY <2>1, TypesAre, OpIs DEF Ids
  <1>4. ASSUME clock' = clock, \A i \in Ids : copies'[i].place # "nowhere" => /\ copies[i].place # "nowhere" /\ copies'[i].ver = copies[i].ver
                                                          /\ copies'[i].edited = copies[i].edited /\ copies'[i].ours = copies[i].ours
        PROVE  Versions'
    BY <1>1, <1>2, <1>3, <1>4, VersionsKeep DEF Versions
  <1>5. ASSUME NEW n \in Ids, NEW c \in Copy, copies' = [copies EXCEPT ![n] = c], c.ver = clock + 1, clock' = clock + 1, c.place # "nowhere",
               op.at = "readback" \/ op.at = "act" \/ (op.at = "write" /\ op.kind = "rewrite") => op.id # n
        PROVE  Versions'
    <2>1. op.at = "readback" \/ op.at = "act" \/ (op.at = "write" /\ op.kind = "rewrite") => (Theirs(op.id)' => Theirs(op.id))
      BY <1>0, <1>1, <1>3, <1>5 DEF Theirs
    <2>2. op'.at = "readback" => ~Theirs(op.id)'
      BY <1>1, <1>2, <2>1 DEF Versions
    <2>3. (op'.at = "act" \/ (op'.at = "write" /\ op'.kind = "rewrite")) /\ op'.blind = FALSE /\ rows'[op'.key].ver # 0
              => ~Theirs(op.id)'
      BY <1>1, <1>2, <2>1 DEF Versions
    <2> QED BY <1>1, <1>2, <1>5, <2>2, <2>3, VersionsNew
  <1>6. ASSUME NEW k \in Keys \cup {NoKey}, Arrives(k) PROVE Versions'
    <2>1. PICK n \in Ids, v \in 0 .. MaxClock : n = nextId + 1 /\ v = clock + 1 /\ nextId \in Nat
      BY <1>6, TypesAre DEF Arrives, Ids
    <2>2. PICK c : c = [key |-> k, ver |-> v, place |-> "folder", ours |-> FALSE, edited |-> FALSE]
      OBVIOUS
    <2>3. c \in Copy /\ c.place = "folder" /\ c.ver = clock + 1
      BY <2>1, <2>2 DEF Copy, Places
    <2>4. copies' = [copies EXCEPT ![n] = c] /\ clock' = clock + 1
      BY <1>6, <2>1, <2>2 DEF Arrives
    <2>5. op.at = "readback" \/ op.at = "act" \/ (op.at = "write" /\ op.kind = "rewrite") => op.id # n
      BY <1>3, <2>1 DEF Ids
    <2> QED BY <1>5, <2>3, <2>4, <2>5
  <1>7. ASSUME NEW i \in Ids, Edits(i) PROVE Versions'
    <2>1. PICK v \in 0 .. MaxClock : v = clock + 1
      BY <1>7, TypesAre DEF Edits
    <2>2. PICK o \in Copy : o = copies[i]
      BY <1>0
    <2>3. PICK c : c = [o EXCEPT !.ver = v, !.edited = TRUE]
      OBVIOUS
    <2>4. c \in Copy /\ c.place = o.place /\ c.ver = clock + 1
      BY <2>1, <2>3 DEF Copy
    <2>5. copies' = [copies EXCEPT ![i] = c] /\ clock' = clock + 1 /\ o.place # "nowhere"
      BY <1>0, <1>7, <2>1, <2>2, <2>3 DEF Edits, Shown
    <2>6. op.at = "readback" \/ op.at = "act" \/ (op.at = "write" /\ op.kind = "rewrite") => op.id # i
      BY <1>7 DEF Edits
    <2> QED BY <1>5, <2>4, <2>5, <2>6
  <1>8. ASSUME NEW i \in Ids, Discards(i) PROVE Versions'
    <2>1. copies' = [copies EXCEPT ![i] = NoCopy] /\ clock' = clock
      BY <1>2, <1>8, TypesAre DEF Discards, Rewrites
    <2> QED BY <1>0, <1>4, <2>1
  <1>9. ASSUME NEW i \in Ids, Files(i) PROVE Versions'
    <2>1. PICK o \in Copy : o = copies[i]
      BY <1>0
    <2>2. PICK p : copies' = [copies EXCEPT ![i] = [o EXCEPT !.place = p]] /\ clock' = clock /\ o.place # "nowhere"
      BY <1>0, <1>9, <2>1 DEF Files
    <2>3. /\ [o EXCEPT !.place = p].ver = o.ver /\ [o EXCEPT !.place = p].edited = o.edited /\ [o EXCEPT !.place = p].ours = o.ours
      BY DEF Copy
    <2> QED BY <1>0, <1>4, <2>1, <2>2, <2>3
  <1>10. CASE Recreates
    BY <1>2, <1>10 DEF Recreates, Rewrites
  <1>11. CASE TogglesFolder
    <2>1. copies' = [i \in Ids |-> IF copies[i].place = "folder" THEN NoCopy ELSE copies[i]] /\ clock' = clock
      BY <1>11 DEF TogglesFolder
    <2> QED BY <1>0, <1>4, <2>1
  <1> QED BY <1>6, <1>7, <1>8, <1>9, <1>10, <1>11 DEF OwnerNext

\* The steps of a pass and the beginnings of an operation.
LEMMA VersionsPass ==
    ASSUME WritingTypes, Versions, PassNext \/ ItemNext
    PROVE  Versions'
  <1>0. NoOp.ver = 0 /\ NoOp.at = "idle"
    BY VersionsAre
  <1>1. UNCHANGED <<writer, copies, clock>>
    BY DEF PassNext, ItemNext, StartPass, FindFolder, MakeFolder, EndPass, Crash, RequestFails, BeginCreate, BeginRewrite,
           BeginRemove, SourceChanges, server
  <1>2. \A k \in Keys : rows'[k].ver = rows[k].ver
    <2>1. CASE RequestFails
      <3>1. op.kind # "none"
        BY <2>1, TypesAre DEF RequestFails, ShapeOf
      <3> QED BY <2>1, <3>1, ThrowsIs DEF RequestFails
    <2> QED BY <2>1 DEF PassNext, ItemNext, StartPass, FindFolder, MakeFolder, EndPass, Crash, BeginCreate, BeginRewrite,
           BeginRemove, SourceChanges, AtHome
  <1>3. \/ op' = op /\ rows' = rows
        \/ op' = NoOp
        \/ op'.ver = 0 /\ op'.at \in {"lookup", "check"}
        \/ writer = "jmapMail"
    <2>1. CASE PassNext
      BY <2>1 DEF PassNext, StartPass, FindFolder, MakeFolder, EndPass, Crash, RequestFails, Throws
    <2>2. ASSUME NEW k \in Keys, BeginCreate(k) PROVE op'.ver = 0 /\ op'.at = "lookup"
      BY <2>2 DEF BeginCreate, NoOp
    <2>3. ASSUME NEW k \in Keys, BeginRewrite(k) PROVE op'.ver = 0 /\ op'.at \in {"lookup", "check"}
      BY <2>3 DEF BeginRewrite, NoOp
    <2>4. ASSUME NEW k \in Keys, BeginRemove(k) PROVE (op'.ver = 0 /\ op'.at = "check") \/ writer = "jmapMail"
      BY <2>4 DEF BeginRemove, NoOp
    <2>5. ASSUME NEW k \in Keys, SourceChanges(k) PROVE op' = op /\ rows' = rows
      BY <2>5 DEF SourceChanges, AtHome
    <2> QED BY <2>1, <2>2, <2>3, <2>4, <2>5 DEF ItemNext
  <1>4. CASE writer = "jmapMail"
    BY <1>1, <1>4 DEF Versions, Rewrites
  <1>5. CASE op' = op /\ rows' = rows
    BY <1>1, <1>5 DEF Versions, Rewrites, Theirs
  <1>6. CASE op'.ver = 0 /\ op'.at \in {"lookup", "check", "idle"}
    BY <1>1, <1>2, <1>6, VersionsKeep
  <1> QED BY <1>0, <1>3, <1>4, <1>5, <1>6

\* The steps of an operation.
LEMMA VersionsOp ==
    ASSUME WritingTypes, Versions, OpNext
    PROVE  Versions'
  <1>0. /\ copies \in [Ids -> Copy] /\ rows \in [Keys -> Row] /\ op \in Op /\ op.kind # "none" /\ clock \in Nat
        /\ writer \in {"jmapMail", "jmapFile", "jmapContact", "imap", "carddav"} /\ NoOp.ver = 0 /\ NoOp.at = "idle"
    <2>1. op.at # "idle"
      BY TypesAre, OpIs DEF OpNext, targetKeys, findByNaturalKey, uidValidityOf, AlreadyThere, CreateCopy, NoFolder, Rescan, ReadBack,
             CheckVersion, CheckUid, RewriteCopy, RecordCopy, removeItem, verifyGone, RecordRemoval
    <2> QED BY <2>1, TypesAre DEF NoOp, ShapeOf
  <1>1. op.key \in Keys
    BY <1>0, TypesAre DEF ShapeOf
  <1>2. writer' = writer
    BY DEF OpNext, targetKeys, findByNaturalKey, uidValidityOf, AlreadyThere, CreateCopy, NoFolder, Rescan, ReadBack,
             CheckVersion, CheckUid, RewriteCopy, RecordCopy, removeItem, verifyGone, RecordRemoval, server
  <1>3. SUFFICES ASSUME Rewrites PROVE Versions'
    BY <1>2 DEF Versions, Rewrites
  <1>4. Throws => op' = NoOp /\ \A k \in Keys : rows'[k].ver = rows[k].ver
    BY <1>0, ThrowsIs
  <1>5. ASSUME UNCHANGED <<copies, clock>>, Throws \/ (rows' = rows /\ op'.ver \in {0, op.ver}), op'.at \notin {"readback", "act"}, op'.kind # "rewrite" \/ op'.at # "write"
        PROVE  Versions'
    <2>1. op'.ver \in {0, op.ver} /\ \A k \in Keys : rows'[k].ver = rows[k].ver
      BY <1>0, <1>4, <1>5
    <2> QED BY <1>2, <1>5, <2>1, VersionsKeep
  <1>6. CASE targetKeys
    <2>1. UNCHANGED <<copies, clock>> /\ rows' = rows /\ op' = op /\ op.at = "lookup"
      BY <1>6 DEF targetKeys, server
    <2> QED BY <1>5, <2>1
  <1>7. CASE findByNaturalKey
    <2>1. UNCHANGED <<copies, clock>> /\ (Throws \/ (rows' = rows /\ op'.ver = op.ver /\ op'.at \in {"check", "stamp", "record", "write"} /\ (op'.at = "write" => op'.kind = "create")))
      BY <1>7, LookupIs DEF Goes, Still, server
    <2>2. op' = NoOp \/ (op'.at \in {"check", "stamp", "record", "write"} /\ (op'.at = "write" => op'.kind = "create"))
      BY <1>4, <2>1
    <2> QED BY <1>0, <1>5, <2>1, <2>2
  <1>8. CASE AlreadyThere
    <2>1. UNCHANGED <<copies, clock>> /\ rows' = rows /\ op'.ver = op.ver /\ op'.at = "record"
      BY <1>8, AlreadyIs DEF Goes, server
    <2> QED BY <1>5, <2>1
  <1>9. CASE NoFolder
    <2>1. UNCHANGED <<copies, clock>> /\ Throws
      BY <1>9 DEF NoFolder, server
    <2> QED BY <1>0, <1>4, <1>5, <2>1
  <1>10. CASE verifyGone
    <2>1. UNCHANGED <<copies, clock>> /\ (Throws \/ (rows' = rows /\ op'.ver = op.ver /\ op'.at = "record"))
      BY <1>10, VerifyIs DEF Goes, Still, server
    <2> QED BY <1>0, <1>4, <1>5, <2>1
  <1>11. CASE RecordRemoval
    <2>1. UNCHANGED <<copies, clock>> /\ op' = NoOp
      BY <1>11, RemovalIs DEF server
    <2>2. PICK r \in Row : rows' = [rows EXCEPT ![op.key] = r] /\ r.ver = rows[op.key].ver
      BY <1>11, RemovalIs
    <2>3. \A k \in Keys : rows'[k].ver \in {rows[k].ver, op.ver}
      BY <1>0, <2>2
    <2> QED BY <1>0, <1>2, <2>1, <2>3, VersionsKeep
  <1>12. CASE RecordCopy
    <2>1. UNCHANGED <<copies, clock>> /\ op' = NoOp
      BY <1>12, RecordIs DEF server
    <2>2. PICK r \in Row : rows' = [rows EXCEPT ![op.key] = r] /\ r.ver \in {rows[op.key].ver, op.ver}
      BY <1>12, RecordIs
    <2>3. \A k \in Keys : rows'[k].ver \in {rows[k].ver, op.ver}
      BY <1>0, <2>2
    <2> QED BY <1>0, <1>2, <2>1, <2>3, VersionsKeep
  <1>13. CASE ReadBack
    <2>1. UNCHANGED <<copies, clock>> /\ rows' = rows /\ op.at = "readback" /\ op'.at = "record"
      BY <1>13, ReadBackIs DEF Goes, Still, server
    <2>2. op'.ver = 0 \/ (op.id \in Shown /\ op'.ver = copies[op.id].ver)
      BY <1>13, ReadBackIs DEF Goes
    <2>3. ~Theirs(op.id)
      BY <1>3, <2>1 DEF Versions
    <2>4. op'.ver \in {0, op.ver} \/ \E j \in Ids : copies[j].place # "nowhere" /\ ~Theirs(j) /\ op'.ver = copies[j].ver
      BY <2>2, <2>3 DEF Shown
    <2> QED BY <1>2, <2>1, <2>4, VersionsKeep
  <1>14. CASE CheckVersion
    <2>1. UNCHANGED <<copies, clock>> /\ rows' = rows /\ op.kind \in {"rewrite", "remove"} /\ op.at = "check"
      BY <1>14, CheckVersionIs DEF Still, server
    <2>2. op' = NoOp \/ (op'.ver = op.ver /\ op'.key = op.key /\ op'.id = op.id /\ op'.at \in {"record", "act", "write"})
      BY <1>14, CheckVersionIs DEF Goes
    <2>3. op' # NoOp /\ op'.at # "record" /\ op'.blind = FALSE
            => rows[op.key].ver = 0 \/ op.id \notin Shown \/ copies[op.id].ver \in {0, rows[op.key].ver}
      BY <1>14, CheckVersionIs DEF Goes
    <2>4. op.id \in Ids
      <3>1. op.id # 0 /\ op.id \in 0 .. MaxIds
        BY <2>1, TypesAre, OpIs DEF ShapeOf
      <3> QED BY <3>1 DEF Ids
    <2>5. ASSUME op' # NoOp, op'.at # "record", op'.blind = FALSE, rows[op.key].ver # 0, Theirs(op.id) PROVE FALSE
      <3>1. copies[op.id].place # "nowhere"
        BY <2>5 DEF Theirs
      <3>2. op.id \in Shown
        <4>1. copies[op.id].place \in {"folder", "elsewhere"}
          BY <1>0, <1>3, <2>4, <3>1 DEF WritingTypes, Placed, Rewrites
        <4> QED BY <2>4, <4>1 DEF Shown
      <3>3. copies[op.id].ver # 0 /\ copies[op.id].ver # rows[op.key].ver
        BY <1>1, <1>3, <2>4, <2>5, <3>1 DEF Versions
      <3> QED BY <2>3, <2>5, <3>2, <3>3
    <2>6. (op'.at = "act" \/ (op'.at = "write" /\ op'.kind = "rewrite")) /\ op'.blind = FALSE /\ rows'[op'.key].ver # 0
              => op'.id \in Ids /\ ~Theirs(op'.id)
      BY <1>0, <2>1, <2>2, <2>4, <2>5
    <2>7. op'.ver \in {0, op.ver} /\ op'.at # "readback"
      BY <1>0, <2>2
    <2> QED BY <1>2, <2>1, <2>6, <2>7, VersionsKeep
  <1>15. CASE CreateCopy \/ RewriteCopy
    <2>1. PICK n \in Ids, v \in 0 .. MaxClock :
              \/ Throws /\ UNCHANGED <<copies, clock>>
              \/ /\ v = clock + 1 /\ clock' = v
                 /\ copies' = [copies EXCEPT ![n] = [key |-> op.key, ver |-> v, place |-> "folder", ours |-> TRUE, edited |-> FALSE]]
                 /\ Throws \/ (UNCHANGED rows /\ op'.at \in {"record", "readback"} /\ op'.id = n /\ op'.ver \in {0, v})
      <3>1. CASE CreateCopy
        BY <1>3, <3>1, CreateIs DEF Goes, Rewrites
      <3>2. CASE RewriteCopy
        <4>1. op.id \in Ids
          BY <3>2, RewriteIs
        <4>2. CASE Throws /\ UNCHANGED <<copies, clock>>
          <5>1. 0 \in 0 .. MaxClock
            OBVIOUS
          <5> QED BY <4>1, <4>2, <5>1
        <4>3. CASE ~(Throws /\ UNCHANGED <<copies, clock>>)
          <5>1. PICK v \in 0 .. MaxClock :
                   /\ v = clock + 1 /\ clock' = v
                   /\ copies' = [copies EXCEPT ![op.id] = [key |-> op.key, ver |-> v, place |-> "folder", ours |-> TRUE, edited |-> FALSE]]
                   /\ Throws \/ (UNCHANGED rows /\ op'.at \in {"record", "readback"} /\ op'.id = op.id /\ op'.ver \in {0, v})
            BY <3>2, <4>3, RewriteIs DEF Goes
          <5> QED BY <4>1, <5>1
        <4> QED BY <4>2, <4>3
      <3> QED BY <1>15, <3>1, <3>2
    <2>2. CASE Throws /\ UNCHANGED <<copies, clock>>
      BY <1>0, <1>4, <1>5, <2>2
    <2>3. CASE /\ v = clock + 1 /\ clock' = v
               /\ copies' = [copies EXCEPT ![n] = [key |-> op.key, ver |-> v, place |-> "folder", ours |-> TRUE, edited |-> FALSE]]
               /\ Throws \/ (UNCHANGED rows /\ op'.at \in {"record", "readback"} /\ op'.id = n /\ op'.ver \in {0, v})
      <3>1. PICK c : c = [key |-> op.key, ver |-> v, place |-> "folder", ours |-> TRUE, edited |-> FALSE]
        OBVIOUS
      <3>2. c \in Copy /\ c.place = "folder" /\ c.ver = clock + 1 /\ c.edited = FALSE /\ c.ours = TRUE
        BY <1>1, <2>3, <3>1 DEF Copy, Places
      <3>3. copies' = [copies EXCEPT ![n] = c] /\ copies'[n] = c /\ clock' = clock + 1
        BY <1>0, <2>3, <3>1
      <3>4. \A k \in Keys : rows'[k].ver = rows[k].ver
        BY <1>4, <2>3
      <3>5. op' = NoOp \/ (op'.at \in {"record", "readback"} /\ op'.id = n /\ op'.ver \in {0, clock + 1})
        BY <1>4, <2>3
      <3>6. op'.ver \in {0, op.ver} \/ (op'.ver = clock + 1 /\ c.edited = FALSE /\ c.ours = TRUE)
        BY <1>0, <3>2, <3>5
      <3>7. op'.at = "readback" => ~Theirs(op.id)'
        BY <1>0, <3>2, <3>3, <3>5 DEF Theirs
      <3>8. op'.at # "act" /\ op'.at # "write"
        BY <1>0, <3>5
      <3> QED BY <1>2, <1>3, <3>2, <3>3, <3>4, <3>6, <3>7, <3>8, VersionsNew
    <2> QED BY <2>1, <2>2, <2>3
  <1>16. CASE removeItem
    <2>1. op.id \in Ids /\ op.kind = "remove" /\ UNCHANGED clock
      BY <1>16, RemoveIs
    <2>2. Throws \/ (rows' = rows /\ op'.ver = op.ver /\ op'.at \in {"verify", "record"})
      BY <1>16, RemoveIs DEF Goes
    <2>3. UNCHANGED copies \/ \E c \in Copy : copies' = [copies EXCEPT ![op.id] = c] /\ c.place = "nowhere"
      BY <1>3, <1>16, RemoveIs DEF Rewrites
    <2>4. \A i \in Ids : copies'[i].place # "nowhere" => copies'[i] = copies[i]
      BY <1>0, <2>1, <2>3
    <2>5. op'.ver \in {0, op.ver} /\ op'.at \notin {"readback", "act", "write"} /\ \A k \in Keys : rows'[k].ver = rows[k].ver
      BY <1>0, <1>4, <2>2
    <2> QED BY <1>2, <2>1, <2>4, <2>5, VersionsKeep
  <1>17. ~uidValidityOf /\ ~Rescan /\ ~CheckUid
    BY <1>3, StampIs, RescanIs, CheckUidIs DEF Rewrites
  <1> QED BY <1>6, <1>7, <1>8, <1>9, <1>10, <1>11, <1>12, <1>13, <1>14, <1>15, <1>16, <1>17 DEF OpNext

-----------------------------------------------------------------------------
(* The beginning, a step, and what is always so.                           *)

\* Before the first pass no id has been given out.
LEMMA FirstIs ==
    ASSUME WritingInit
    PROVE  /\ \A k \in Keys : rows[k].id = 0 /\ rows[k].ver = 0 /\ rows[k].status = "none" /\ snapshot.keys[k] = 0
           /\ op.kind = "none" /\ op.at = "idle" /\ op.id = 0 /\ op.ver = 0 /\ snapshot.at = "none" /\ wrong = {}
           /\ \A i \in Ids : copies[i].place = "nowhere"
           /\ epoch = 1 /\ clock = 0
<1>1. \A k \in Keys : rows[k].id = 0 /\ rows[k].ver = 0 /\ rows[k].status = "none"
  BY DEF WritingInit, NoRow
<1>2. snapshot.at = "none" /\ \A k \in Keys : snapshot.keys[k] = 0
  BY DEF WritingInit, NoSnapshot
<1>3. op.kind = "none" /\ op.at = "idle" /\ op.id = 0 /\ op.ver = 0
  BY DEF WritingInit, NoOp
<1>4. \A i \in Ids : copies[i].place = "nowhere"
  BY DEF WritingInit, NoCopy
<1> QED BY <1>1, <1>2, <1>3, <1>4 DEF WritingInit

\* The parts that need no condition hold at first,
LEMMA SafeInit ==
    ASSUME WritingInit
    PROVE  OneKey /\ Uids /\ Gone
<1>1. OneKey
  <2> SUFFICES ASSUME NEW i \in Ids, NEW k \in Keys \cup {NoKey}, Stands(i, k) PROVE FALSE
    BY DEF OneKey
  <2>1. i # 0
    BY DEF Ids
  <2> QED BY <2>1, FirstIs DEF Stands
<1>2. Uids
  BY FirstIs, TypesInit, TypesAre DEF Uids
<1>3. Gone
  BY FirstIs DEF Gone
<1> QED BY <1>1, <1>2, <1>3

\* and every step keeps them.
LEMMA SafeStep ==
    ASSUME WritingTypes, OneKey, Uids, Gone, [WritingNext]_vars
    PROVE  WritingTypes' /\ OneKey' /\ Uids' /\ Gone'
<1>1. CASE UNCHANGED vars
  <2>1. OneKey'
    BY <1>1 DEF vars, OneKey, Stands
  <2>2. Uids'
    BY <1>1 DEF vars, Uids
  <2>3. Gone'
    BY <1>1 DEF vars, Gone, GoneFor, Shown
  <2> QED BY <2>1, <2>2, <2>3, TypesStep
<1>2. CASE PassNext \/ ItemNext
  BY <1>2, TypesStep, OneKeyPass, UidsPass, GonePass
<1>3. CASE OwnerNext
  BY <1>3, TypesStep, OneKeyOwner, UidsOwner, GoneOwner
<1>4. CASE OpNext
  BY <1>4, TypesStep, OneKeyOp, UidsOp, GoneOp
<1> QED BY <1>1, <1>2, <1>3, <1>4 DEF WritingNext

\* A server that takes a second message or card of one key may be written one twice.
LEMMA SingleInit ==
    ASSUME WritingInit
    PROVE  Single
<1>1. \A k \in Keys : \A i \in Ids : ~Ours(i, k) /\ i \notin Holders(k)
  <2> SUFFICES ASSUME NEW i \in Ids, copies[i].place \in Finds[writer] PROVE FALSE
    BY DEF Ours, Holders, Visible
  <2>1. copies[i].place = "nowhere"
    BY FirstIs
  <2>2. writer \in {"jmapMail", "jmapFile", "jmapContact", "imap", "carddav"}
    BY TypesInit, TypesAre
  <2> QED BY <2>1, <2>2 DEF Finds, findEmail, findMessage, findNode, findCard, findContact
<1> QED BY <1>1, FirstIs DEF Single

\* With one that does not, or with none of its writers, a step keeps to one.
LEMMA SingleStep ==
    ASSUME WritingTypes, OneKey, Uids, Single, [WritingNext]_vars,
           ServerDedups = TRUE \/ Writers \cap {"jmapMail", "jmapContact"} = {}
    PROVE  Single'
<1>1. CASE UNCHANGED vars
  BY <1>1 DEF vars, Single, Ours, Holders, Visible
<1>2. ServerDedups = TRUE \/ writer \notin {"jmapMail", "jmapContact"}
  BY DEF WritingTypes, WritingTypeOK
<1>3. CASE PassNext \/ ItemNext
  BY <1>3, SinglePass
<1>4. CASE OwnerNext
  BY <1>2, <1>4, SingleOwner
<1>5. CASE OpNext
  BY <1>2, <1>5, SingleOp
<1> QED BY <1>1, <1>3, <1>4, <1>5 DEF WritingNext

\* No version has been given out before the first pass,
LEMMA VersionsInit ==
    ASSUME WritingInit
    PROVE  Versions
BY FirstIs DEF Versions, Theirs

\* and where nobody edits a copy in mid-write, those of the owner stay apart from ours.
LEMMA VersionsStep ==
    ASSUME WritingTypes, Versions, [WritingNext]_vars, EditsMidWrite = FALSE
    PROVE  Versions'
<1>1. CASE UNCHANGED vars
  BY <1>1 DEF vars, Versions, Theirs, Rewrites
<1>2. CASE PassNext \/ ItemNext
  BY <1>2, VersionsPass
<1>3. CASE OwnerNext
  BY <1>3, VersionsOwner
<1>4. CASE OpNext
  BY <1>4, VersionsOp
<1> QED BY <1>1, <1>2, <1>3, <1>4 DEF WritingNext

\* Together they are inductive.
LEMMA SafeAlways ==
    WritingSpec => [](WritingTypes /\ OneKey /\ Uids /\ Gone)
<1> DEFINE I == WritingTypes /\ OneKey /\ Uids /\ Gone
<1>1. WritingInit => I
  BY TypesInit, SafeInit
<1>2. I /\ [WritingNext]_vars => I'
  BY SafeStep
<1> QED BY <1>1, <1>2, PTL DEF WritingSpec

-----------------------------------------------------------------------------
(* Theorems.                                                               *)

\* Every variable keeps its type.
THEOREM WritingTypeCorrect == WritingSpec => []WritingTypeOK
<1>1. WritingTypes /\ OneKey /\ Uids /\ Gone => WritingTypeOK
  BY DEF WritingTypes
<1> QED BY <1>1, SafeAlways, PTL

\* For every number of items, ids, faults and steps of the owner: a row says an item
\* was removed only when its copy is nowhere to be seen (removeEmail's read-back of
\* mailboxIds, removeMessage's search for the UID).
THEOREM RemovalsAreReal == WritingSpec => []RemovalIsReal
<1>1. WritingTypes /\ OneKey /\ Uids /\ Gone => RemovalIsReal
  BY DEF RemovalIsReal, Gone, GoneFor, Reaches
<1> QED BY <1>1, SafeAlways, PTL

\* Where no mailbox is recreated while a message is being removed, a removal takes the
\* copy of its own item: a UID is used only under the UIDVALIDITY it was recorded with,
\* and every other id is of one key for good.
THEOREM RemovalsTakeTheirOwn ==
    ASSUME MovesMidApply = FALSE \/ "imap" \notin Writers
    PROVE  WritingSpec => []RemovesOnlyItsItem
<1> DEFINE J == WritingTypes /\ OneKey /\ Uids /\ Gone
<1>1. WritingInit => RemovesOnlyItsItem
  BY FirstIs DEF RemovesOnlyItsItem
<1>2. ASSUME J, RemovesOnlyItsItem, [WritingNext]_vars
      PROVE  RemovesOnlyItsItem'
  <2>1. CASE removeItem
    <3>1. CASE UNCHANGED wrong
      BY <1>2, <3>1 DEF RemovesOnlyItsItem
    <3>2. ASSUME NEW i \in wrong' PROVE FALSE
      <4>1. CASE i \in wrong
        BY <1>2, <4>1 DEF RemovesOnlyItsItem
      <4>2. CASE i \notin wrong
        <5>1. /\ i = op.id /\ copies[i].place # "nowhere" /\ copies[i].key # op.key /\ i \in Ids
              /\ op.kind = "remove" /\ op.at = "act" /\ op.key \in Keys /\ op.id = rows[op.key].id
          BY <1>2, <2>1, <3>2, <4>2, RemoveIs
        <5>2. CASE writer = "imap"
          <6>1. MovesMidApply = FALSE
            BY <1>2, <5>2 DEF WritingTypes, WritingTypeOK
          <6>2. rows[op.key].ver = epoch
            BY <1>2, <5>1, <5>2, <6>1 DEF Uids
          <6>3. rows[op.key].status = "copied"
            BY <1>2, <5>1 DEF WritingTypes, ShapeOf
          <6> QED BY <1>2, <5>1, <5>2, <6>2, <6>3 DEF Uids
        <5>3. CASE writer # "imap"
          <6>1. Stands(i, op.key) /\ Stands(i, copies[i].key)
            BY <5>1 DEF Stands
          <6>2. copies[i].key \in Keys \cup {NoKey}
            BY <1>2, <5>1, TypesAre DEF Copy
          <6> QED BY <1>2, <5>1, <5>3, <6>1, <6>2 DEF OneKey
        <5> QED BY <5>2, <5>3
      <4> QED BY <4>1, <4>2
    <3> QED BY <3>2 DEF RemovesOnlyItsItem
  <2>2. CASE UNCHANGED wrong
    BY <1>2, <2>2 DEF RemovesOnlyItsItem
  <2>3. removeItem \/ UNCHANGED wrong
    <3>1. PassNext => UNCHANGED wrong
      BY DEF PassNext, StartPass, FindFolder, MakeFolder, EndPass, Crash, RequestFails
    <3>2. ItemNext => UNCHANGED wrong
      BY DEF ItemNext, BeginCreate, BeginRewrite, BeginRemove, SourceChanges, AtHome
    <3>3. OwnerNext => UNCHANGED wrong
      BY DEF OwnerNext, Arrives, Edits, Discards, Files, Recreates, TogglesFolder, AtHome
    <3>4. OpNext => removeItem \/ UNCHANGED wrong
      BY DEF OpNext, targetKeys, findByNaturalKey, uidValidityOf, AlreadyThere, CreateCopy, NoFolder, Rescan,
             ReadBack, CheckVersion, CheckUid, RewriteCopy, RecordCopy, verifyGone, RecordRemoval
    <3> QED BY <1>2, <3>1, <3>2, <3>3, <3>4 DEF WritingNext, vars
  <2> QED BY <2>1, <2>2, <2>3
<1>3. J /\ RemovesOnlyItsItem /\ [WritingNext]_vars => RemovesOnlyItsItem'
  BY <1>2
<1> QED BY <1>1, <1>3, SafeAlways, PTL DEF WritingSpec

\* Against a server that refuses a second message or card of one key, and for the
\* writers that do not depend on it: an item is never on the target twice by our
\* doing, however answers are lost, listings shift and workers die.
THEOREM OneCopyOfOurs ==
    ASSUME ServerDedups = TRUE \/ Writers \cap {"jmapMail", "jmapContact"} = {}
    PROVE  WritingSpec => []NoSecondCopy
<1> DEFINE J == WritingTypes /\ OneKey /\ Uids /\ Gone
<1>1. WritingInit => Single
  BY SingleInit
<1>2. J /\ Single /\ [WritingNext]_vars => Single'
  BY SingleStep
<1>3. J /\ Single => NoSecondCopy
  <2> SUFFICES ASSUME J, Single, NEW k \in Keys
               PROVE  Cardinality({i \in Holders(k) : copies[i].ours}) <= 1
    BY DEF NoSecondCopy
  <2> DEFINE S == {i \in Holders(k) : copies[i].ours}
  <2>1. \A i \in S : i \in Ids /\ Ours(i, k)
    <3> SUFFICES ASSUME NEW i \in S PROVE i \in Ids /\ Ours(i, k)
      OBVIOUS
    <3>1. i \in Ids /\ Visible(i) /\ copies[i].key = k /\ copies[i].ours
      BY DEF Holders
    <3>2. copies[i].ours \in BOOLEAN
      BY <3>1, TypesAre DEF Copy
    <3> QED BY <3>1, <3>2 DEF Ours, Visible
  <2>2. \A i, j \in S : i = j
    BY <2>1 DEF Single
  <2>3. CASE S = {}
    BY <2>3, FS_EmptySet
  <2>4. CASE S # {}
    <3>1. PICK x \in S : TRUE
      BY <2>4
    <3>2. S = {x}
      BY <2>2, <3>1
    <3> HIDE DEF S
    <3>3. Cardinality(S) = 1
      BY <3>2, FS_Singleton
    <3> QED BY <3>3 DEF S
  <2> QED BY <2>3, <2>4
<1> QED BY <1>1, <1>2, <1>3, SafeAlways, PTL DEF WritingSpec

\* Where the owner does not edit a copy between its check and its write: what the owner
\* has edited or made is rewritten or removed by us only when the ledger has no version
\* for it or the check could not read one (ownershipOf).
THEOREM TheirEditsAreKept ==
    ASSUME EditsMidWrite = FALSE
    PROVE  WritingSpec => KeepsTheirEdit
<1> DEFINE J == WritingTypes /\ OneKey /\ Uids /\ Gone
           Kept == \A i \in Ids : Rewrites /\ (copies[i].edited \/ ~copies[i].ours) /\ i \in Live
                                  /\ copies'[i] # copies[i] /\ op' # op
                                  => rows[op.key].ver = 0 \/ op.blind
<1>1. WritingInit => Versions
  BY VersionsInit
<1>2. J /\ Versions /\ [WritingNext]_vars => Versions'
  BY VersionsStep
<1>3. ASSUME J, Versions, [WritingNext]_vars
      PROVE  [Kept]_vars
  <2> SUFFICES ASSUME NEW i \in Ids, Rewrites, copies[i].edited \/ ~copies[i].ours, i \in Live,
                      copies'[i] # copies[i], op' # op, rows[op.key].ver # 0, ~op.blind
               PROVE  FALSE
    OBVIOUS
  <2>1. Theirs(i)
    <3>1. copies[i] \in Copy
      BY <1>3, TypesAre
    <3>2. copies[i].edited \in BOOLEAN /\ copies[i].ours \in BOOLEAN
      BY <3>1 DEF Copy
    <3> QED BY <3>2 DEF Theirs, Live
  <2>2. op.blind = FALSE
    BY <1>3, TypesAre, OpIs
  <2>3. \A n : (op.at = "act" \/ (op.at = "write" /\ op.kind = "rewrite")) /\ op.id = n => i # n
    BY <1>3, <2>1, <2>2 DEF Versions
  <2>4. CASE CreateCopy
    <3>1. i <= nextId
      BY <1>3, TypesAre DEF Live, Ids
    <3>2. \A j \in Ids : j # nextId + 1 => copies'[j] = copies[j]
      BY <1>3, <2>4, TypesAre DEF CreateCopy
    <3> QED BY <1>3, <3>1, <3>2, TypesAre DEF Ids
  <2>5. CASE RewriteCopy
    <3>1. op.at = "write" /\ op.kind = "rewrite" /\ \A j \in Ids : j # op.id => copies'[j] = copies[j]
      BY <1>3, <2>5, TypesAre, RewriteIs
    <3> QED BY <2>3, <3>1
  <2>6. CASE removeItem
    <3>1. op.at = "act" /\ \A j \in Ids : j # op.id => copies'[j] = copies[j]
      BY <1>3, <2>6, TypesAre, RemoveIs
    <3> QED BY <2>3, <3>1
  <2>7. CASE UNCHANGED copies \/ UNCHANGED op
    BY <2>7
  <2>8. CreateCopy \/ RewriteCopy \/ removeItem \/ UNCHANGED copies \/ UNCHANGED op
    <3>1. PassNext => UNCHANGED copies
      BY DEF PassNext, StartPass, FindFolder, MakeFolder, EndPass, Crash, RequestFails, server
    <3>2. ItemNext => UNCHANGED copies
      BY DEF ItemNext, BeginCreate, BeginRewrite, BeginRemove, SourceChanges, server
    <3>3. OwnerNext => UNCHANGED op
      BY DEF OwnerNext, Arrives, Edits, Discards, Files, Recreates, TogglesFolder, AtHome
    <3>4. OpNext => CreateCopy \/ RewriteCopy \/ removeItem \/ UNCHANGED copies
      BY DEF OpNext, targetKeys, findByNaturalKey, uidValidityOf, AlreadyThere, NoFolder, Rescan,
             ReadBack, CheckVersion, CheckUid, RecordCopy, verifyGone, RecordRemoval, server
    <3> QED BY <1>3, <3>1, <3>2, <3>3, <3>4 DEF WritingNext, vars
  <2> QED BY <2>4, <2>5, <2>6, <2>7, <2>8
<1>4. J /\ Versions /\ [WritingNext]_vars => [Kept]_vars
  BY <1>3
<1> QED BY <1>1, <1>2, <1>4, SafeAlways, PTL DEF WritingSpec, KeepsTheirEdit
==============================================================================
