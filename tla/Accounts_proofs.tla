-------------------------- MODULE Accounts_proofs --------------------------
(***************************************************************************)
(* What holds of accounts and their keys for every number of browsers,     *)
(* links, people, encrypted cells and requests: a deletion leaves no link  *)
(* that could undo it, a restore brings nobody back, retiring a key loses  *)
(* nothing, and a key is served no more than its allowance.                *)
(***************************************************************************)
EXTENDS Accounts, AccountData, KeyRotation, Platform, TLAPS

(***************************************************************************)
(* Sign-in links.  What a link remembers is how many accounts the address  *)
(* had lost when it was stored; signing in never changes that number, and  *)
(* a deletion, which does, leaves no stored link behind.                   *)
(***************************************************************************)
Addressed ==
    /\ made \in Nat
    /\ account # Nobody => account \in Nat
    /\ link \in [Link -> [at : {"none", "stored", "opening"}, gone : Int]]

LinkInv == Addressed /\ OldLinksAreDead

LEMMA GoneIsInt == ASSUME Addressed PROVE Gone \in Int
BY DEF Addressed, Gone

LEMMA LinkInitially == Init => LinkInv
BY DEF Init, LinkInv, Addressed, OldLinksAreDead, NoLink

\* Signing in makes an account or not, and loses none.
LEMMA SignsInLosesNone ==
  ASSUME Addressed, NEW s, NEW m, SignsIn(s, m)
  PROVE  made' \in Nat /\ (account' # Nobody => account' \in Nat) /\ Gone' = Gone
<1>1. CASE account # Nobody
  BY <1>1 DEF SignsIn, Addressed, Gone
<1>2. CASE account = Nobody
  BY <1>2, AccountsAssumption DEF SignsIn, Addressed, Gone
<1>. QED  BY <1>1, <1>2

\* A step of one link, for all the others stay as they are.
LEMMA LinkStepKeeps ==
  ASSUME LinkInv, NEW l \in Link, LinkStep(l)
  PROVE  LinkInv'
<1>0. Gone \in Int  BY GoneIsInt DEF LinkInv
<1>1. CASE AskForLink(l)
  <2>1. Gone' = Gone  BY <1>1 DEF AskForLink, rowVars, Gone
  <2>. QED  BY <1>0, <1>1, <2>1 DEF AskForLink, rowVars, LinkInv, Addressed, OldLinksAreDead
<1>2. CASE LinkLapses(l)
  <2>1. Gone' = Gone  BY <1>2 DEF LinkLapses, rowVars, Gone
  <2>. QED  BY <1>2, <2>1 DEF LinkLapses, rowVars, LinkInv, Addressed, OldLinksAreDead, NoLink
<1>3. CASE OpenLink(l)
  <2>1. Gone' = Gone  BY <1>3 DEF OpenLink, rowVars, Gone
  <2>. QED  BY <1>3, <2>1 DEF OpenLink, rowVars, LinkInv, Addressed, OldLinksAreDead
<1>4. ASSUME NEW s \in Slot, LinkSignsIn(l, s)
      PROVE  LinkInv'
  <2>1. made' \in Nat /\ (account' # Nobody => account' \in Nat) /\ Gone' = Gone
    BY <1>4, SignsInLosesNone DEF LinkSignsIn, LinkInv
  <2>. QED  BY <1>4, <2>1 DEF LinkSignsIn, LinkInv, Addressed, OldLinksAreDead, NoLink
<1>. QED  BY <1>1, <1>2, <1>3, <1>4 DEF LinkStep

\* A step that leaves the address and its links alone.
LEMMA LinksUntouched ==
  ASSUME LinkInv, UNCHANGED <<account, made, link>>
  PROVE  LinkInv'
<1>1. Gone' = Gone  BY DEF Gone
<1>. QED  BY <1>1 DEF LinkInv, Addressed, OldLinksAreDead

LEMMA DeletionKeeps ==
  ASSUME LinkInv, NEW s \in Slot, DeletesAccount(s)
  PROVE  LinkInv'
<1>1. CASE Existing(s)
  <2>1. account' = Nobody /\ made' = made /\ link' = Cleared
    BY <1>1 DEF DeletesAccount
  <2>2. Addressed'
    BY <2>1 DEF LinkInv, Addressed, Cleared, NoLink
  <2>3. \A l \in Link : link'[l].at # "stored"
    BY <2>1 DEF LinkInv, Addressed, Cleared, NoLink
  <2>. QED  BY <2>2, <2>3 DEF LinkInv, OldLinksAreDead
<1>2. CASE ~Existing(s)
  BY <1>2, LinksUntouched DEF DeletesAccount
<1>. QED  BY <1>1, <1>2

LEMMA LinkKept == LinkInv /\ [Next]_vars => LinkInv'
<1>. SUFFICES ASSUME LinkInv, [Next]_vars PROVE LinkInv'
  OBVIOUS
<1>1. ASSUME NEW s \in Slot, NEW m, SignsIn(s, m), UNCHANGED link
      PROVE  LinkInv'
  BY <1>1, SignsInLosesNone DEF LinkInv, Addressed, OldLinksAreDead
<1>2. ASSUME NEW s \in Slot, SessionStep(s)
      PROVE  LinkInv'
  BY <1>1, <1>2, LinksUntouched
  DEF SessionStep, DiscordSignsIn, PasskeySignsIn, SignsOut, Refreshes, Ages, Lapses, rowVars
<1>3. ASSUME NEW s \in Slot, Starts(s)
      PROVE  LinkInv'
  BY <1>3, LinksUntouched
  DEF Starts, StartRegistration, StartRemoval, StartRevoking, StartRevokingOthers,
      StartAdminAct, StartDeletion, Resolves, rowVars
<1>4. ASSUME NEW s \in Slot, Finishes(s)
      PROVE  LinkInv'
  BY <1>4, LinksUntouched, DeletionKeeps
  DEF Finishes, RegistersPasskey, RemovesPasskey, RevokesSession, RevokesOthers,
      AdminActs, rowVars
<1>5. CASE RunRetention \/ SetRole \/ UNCHANGED vars
  BY <1>5, LinksUntouched DEF RunRetention, SetRole, vars, rowVars
<1>. QED  BY <1>2, <1>3, <1>4, <1>5, LinkStepKeeps DEF Next

\* A link stored before a deletion opens no account after it, unless it was
\* being opened when the account went (deleteAccount).
THEOREM OldLinksOpenNothing == Spec => []OldLinksAreDead
BY LinkInitially, LinkKept, PTL DEF LinkInv, Spec
-----------------------------------------------------------------------------
(***************************************************************************)
(* A restore.  Until the first one, whoever was told is out of the rows    *)
(* and in the log, and the last backup either knows it too or is no newer  *)
(* than the log's entry; from then on, whoever was told is out of the rows *)
(* or among the deletions still to be applied.                             *)
(***************************************************************************)
Rows ==
    [people : SUBSET Person, ordered : SUBSET Person,
     report : [Person -> Report], log : [Person -> Nat \cup {Never}]]

\* Who is gone has left no report in their name.
Sound(d) ==
    /\ d \in Rows
    /\ \A p \in Person : p \notin d.people => d.report[p] \in {"none", "anonymous"}

\* A deletion is over within the second it began in (Straddles).
Timely ==
    /\ now \in Nat
    /\ deleting \in [Person -> Nat \cup {Never}]
    /\ \A p \in Person : deleting[p] # Never => deleting[p] = now

Recorded ==
    \A p \in told :
      /\ p \notin db.people /\ db.log[p] # Never
      /\ dump # Never => p \notin dump.db.people \/ db.log[p] >= dump.at

DataInv ==
    /\ Sound(db) /\ Timely
    /\ dump # Never => Sound(dump.db) /\ dump.at \in Nat /\ dump.at <= now
    /\ told \subseteq Person
    /\ repair # Never => repair \subseteq Person
    /\ restores \in Nat
    /\ restores = 0 => repair = Never /\ Recorded
    /\ restores # 0 => \A p \in told : p \notin db.people \/ (repair # Never /\ p \in repair)

LEMMA DataInitially == DataInit => DataInv
<1>. SUFFICES ASSUME DataInit PROVE DataInv
  OBVIOUS
<1>1. Sound(db)  BY DEF DataInit, Sound, Rows, Report
<1>. QED  BY <1>1 DEF DataInit, DataInv, Timely, Recorded

\* A person's own reports, and the deletion of the person, keep the rows sound.
LEMMA RowsStaySound ==
  ASSUME NEW d, Sound(d), NEW p \in Person
  PROVE  /\ Sound(Without(d, p))
         /\ Without(d, p).people = d.people \ {p} /\ Without(d, p).log = d.log
         /\ \A t \in Nat : /\ Sound([Without(d, p) EXCEPT !.log[p] = t])
                           /\ [Without(d, p) EXCEPT !.log[p] = t].people = d.people \ {p}
                           /\ [Without(d, p) EXCEPT !.log[p] = t].log = [d.log EXCEPT ![p] = t]
<1>. DEFINE w == Without(d, p)
<1>1. /\ w.people = d.people \ {p} /\ w.ordered = d.ordered /\ w.log = d.log
      /\ w.report = [d.report EXCEPT ![p] = IF d.report[p] \in {"none", "pending"}
                                            THEN "none" ELSE "anonymous"]
      /\ w \in Rows
  BY DEF Without, Sound, Rows, Report
<1>2. Sound(w)  BY <1>1 DEF Sound, Rows, Report
<1>3. ASSUME NEW t \in Nat
      PROVE  /\ Sound([w EXCEPT !.log[p] = t])
             /\ [w EXCEPT !.log[p] = t].people = d.people \ {p}
             /\ [w EXCEPT !.log[p] = t].log = [d.log EXCEPT ![p] = t]
  BY <1>1, <1>2 DEF Sound, Rows
<1>. QED  BY <1>1, <1>2, <1>3

LEMMA LivingKeeps ==
  ASSUME DataInv, NEW p \in Person, PlacesOrder(p) \/ ReportsPrice(p)
  PROVE  DataInv'
<1>1. Sound(db') /\ db'.people = db.people /\ db'.log = db.log
  <2>1. CASE PlacesOrder(p)
    BY <2>1 DEF PlacesOrder, DataInv, Sound, Rows
  <2>2. CASE ReportsPrice(p)
    BY <2>2 DEF ReportsPrice, DataInv, Sound, Rows, Report
  <2>. QED  BY <2>1, <2>2
<1>. QED  BY <1>1 DEF PlacesOrder, ReportsPrice, DataInv, Timely, Recorded, Sound

LEMMA DeletionStepKeeps ==
  ASSUME DataInv, NEW p \in Person,
         DeletionBegins(p) \/ DeletionCommits(p) \/ DeletionFails(p)
  PROVE  DataInv'
<1>1. CASE DeletionBegins(p)
  <2>1. Timely'  BY <1>1 DEF DeletionBegins, DataInv, Timely
  <2>. QED  BY <1>1, <2>1 DEF DeletionBegins, DataInv, Recorded, Sound
<1>2. CASE DeletionFails(p)
  <2>1. Timely'  BY <1>2 DEF DeletionFails, DataInv, Timely
  <2>. QED  BY <1>2, <2>1 DEF DeletionFails, DataInv, Recorded, Sound
<1>3. CASE DeletionCommits(p)
  <2>1. deleting[p] = now /\ now \in Nat
    BY <1>3 DEF DeletionCommits, DataInv, Timely
  <2>2. /\ Sound(db') /\ db'.people = db.people \ {p}
        /\ db'.log = [db.log EXCEPT ![p] = now]
    BY <1>3, <2>1, RowsStaySound DEF DeletionCommits, DataInv
  <2>3. Timely'  BY <1>3 DEF DeletionCommits, DataInv, Timely
  <2>4. db'.log[p] = now /\ \A q \in Person \ {p} : db'.log[q] = db.log[q]
    BY <2>2 DEF DataInv, Sound, Rows
  <2>5. now # Never  BY <2>1, AccountDataAssumption
  <2>6. restores' = 0 => repair' = Never /\ Recorded'
    BY <1>3, <2>1, <2>2, <2>4, <2>5 DEF DeletionCommits, DataInv, Recorded
  <2>. QED  BY <1>3, <2>2, <2>3, <2>6 DEF DeletionCommits, DataInv
<1>. QED  BY <1>1, <1>2, <1>3

LEMMA RestoreKeeps ==
  ASSUME DataInv, MaxRestores <= 1, Restores
  PROVE  DataInv'
<1>1. restores = 0 /\ restores' = 1
  BY AccountDataAssumption DEF Restores, DataInv
<1>2. Sound(db')  BY DEF Restores, DataInv
<1>3. Timely'
  BY DEF Restores, DataInv, Timely
<1>4. repair' \subseteq Person /\ repair' # Never
  BY AccountDataAssumption DEF Restores, Since
<1>5. \A p \in told : p \notin db'.people \/ p \in repair'
  BY <1>1 DEF Restores, Since, DataInv, Recorded
<1>. QED  BY <1>1, <1>2, <1>3, <1>4, <1>5 DEF Restores, DataInv

LEMMA RepairKeeps ==
  ASSUME DataInv, (\E p \in Person : Reapplies(p)) \/ ServesAgain
  PROVE  DataInv'
<1>1. ASSUME NEW p \in Person, Reapplies(p)
      PROVE  DataInv'
  <2>1. Sound(db') /\ db'.people = db.people \ {p}
    BY <1>1, RowsStaySound DEF Reapplies, DataInv
  <2>2. restores # 0  BY <1>1 DEF Reapplies, DataInv
  <2>3. repair' # Never /\ repair' \subseteq Person
    BY <1>1, AccountDataAssumption DEF Reapplies, DataInv
  <2>4. Timely'  BY <1>1 DEF Reapplies, DataInv, Timely
  <2>. QED  BY <1>1, <2>1, <2>2, <2>3, <2>4 DEF Reapplies, DataInv
<1>2. CASE ServesAgain
  <2>1. repair # Never  BY <1>2, AccountDataAssumption DEF ServesAgain
  <2>. QED  BY <1>2, <2>1 DEF ServesAgain, DataInv, Timely, Recorded, Sound
<1>. QED  BY <1>1, <1>2

LEMMA TimeKeeps ==
  ASSUME DataInv, Straddles = FALSE, TakesDump \/ TimePasses \/ UNCHANGED dataVars
  PROVE  DataInv'
<1>1. CASE TakesDump
  <2>1. dump'.db = db /\ dump'.at = now  BY <1>1 DEF TakesDump
  <2>. QED  BY <1>1, <2>1 DEF TakesDump, DataInv, Timely, Recorded
<1>2. CASE TimePasses
  <2>1. Timely'  BY <1>2 DEF TimePasses, DataInv, Timely
  <2>. QED  BY <1>2, <2>1 DEF TimePasses, DataInv, Timely, Recorded
<1>3. CASE UNCHANGED dataVars
  BY <1>3 DEF dataVars, DataInv, Timely, Recorded
<1>. QED  BY <1>1, <1>2, <1>3

\* Whoever was told that the account is gone stays gone through a restore, for
\* any number of people, deletions and backups: of one restore, when no
\* backup falls inside a deletion (deletions.ts).  Both conditions are needed.
THEOREM ToldStayGone ==
  ASSUME MaxRestores <= 1, Straddles = FALSE
  PROVE  DataSpec => []GoneStaysGone
<1>1. DataInv /\ [DataNext]_dataVars => DataInv'
  BY LivingKeeps, DeletionStepKeeps, RestoreKeeps, RepairKeeps, TimeKeeps DEF DataNext
<1>2. DataInv => GoneStaysGone
  BY DEF DataInv, GoneStaysGone, Serving, Recorded, Sound
<1>. QED  BY DataInitially, <1>1, <1>2, PTL DEF DataSpec
-----------------------------------------------------------------------------
(***************************************************************************)
(* Retiring a key.  The induction follows the runbook: the two key rings   *)
(* are at one of five stages, and while a run of keys:rotate under both    *)
(* keys is in progress every cell still under the old key is one it has    *)
(* yet to read, the one it holds, or one that will make it report the old  *)
(* key as needed.                                                          *)
(***************************************************************************)
Before == Ring({OldKey}, OldKey)
Both   == Ring({OldKey, NewKey}, NewKey)
After  == Ring({NewKey}, NewKey)

Stages ==
    \/ config = Before /\ server = Before
    \/ config = Both   /\ server = Before
    \/ config = Both   /\ server = Both
    \/ config = After  /\ server = Both
    \/ config = After  /\ server = After

\* Nothing is under a key that one of the two rings lacks.
Cells ==
    /\ cell \in [Cell -> {Nothing, OldKey, NewKey}]
    /\ erased \subseteq Cell
    /\ \A c \in erased : cell[c] = Nothing
    /\ server = Before => \A c \in Cell : cell[c] # NewKey
    /\ config = After => \A c \in Cell : cell[c] # OldKey

\* What a report allows is true until it is acted on.
Removal ==
    /\ removable \subseteq {OldKey}
    /\ removable # {} => /\ config = Both /\ server = Both
                         /\ \A c \in Cell : cell[c] # OldKey

\* A run under one key only holds nothing and allows nothing.
JobType == [ring : {Before, Both, After}, left : SUBSET Cell,
            read : {Nothing} \cup [of : Cell, kid : {OldKey}],
            needed : SUBSET {OldKey, NewKey}, dry : BOOLEAN]
JobInv ==
    job # Nothing =>
      /\ job \in JobType
      /\ job.ring.active \in job.needed
      /\ job.ring # Both => job.read = Nothing
      /\ job.ring = Both =>
           /\ config = Both /\ server = Both
           /\ \A c \in Cell : cell[c] = OldKey =>
                \/ c \in job.left
                \/ OldKey \in job.needed
                \/ job.read # Nothing /\ job.read.of = c

KeyInv == Stages /\ Cells /\ Removal /\ JobInv
-----------------------------------------------------------------------------
\* The three rings are told apart by their keys.
LEMMA RingsDiffer ==
    /\ Before.keys = {OldKey} /\ Before.active = OldKey
    /\ Both.keys = {OldKey, NewKey} /\ Both.active = NewKey
    /\ After.keys = {NewKey} /\ After.active = NewKey
    /\ Before # Both /\ Before # After /\ Both # After
<1>1. /\ Before.keys = {OldKey} /\ Before.active = OldKey
      /\ Both.keys = {OldKey, NewKey} /\ Both.active = NewKey
      /\ After.keys = {NewKey} /\ After.active = NewKey
  BY DEF Before, Both, After, Ring
<1>. QED  BY <1>1, KeyAssumption

LEMMA KeyInitially == KeyInit => KeyInv
BY KeyAssumption, RingsDiffer DEF KeyInit, KeyInv, Stages, Cells, Removal, JobInv, Before

\* Values written or erased between the steps of a run.
LEMMA KeyWrites ==
  ASSUME KeyInv, NEW c \in Cell, Encrypts(c) \/ Erases(c)
  PROVE  KeyInv'
<1>1. Stages'  BY DEF KeyInv, Stages, Encrypts, Erases, Before, Both, After
<1>. DEFINE k == cell'[c]
<1>2. /\ cell' = [cell EXCEPT ![c] = k]
      /\ k \in {Nothing, server.active}
      /\ \A d \in Cell : d # c => cell'[d] = cell[d]
  BY DEF KeyInv, Cells, Encrypts, Erases
<1>3. server.active \in {OldKey, NewKey} /\ (server.active = OldKey => server = Before)
  BY RingsDiffer, KeyAssumption DEF KeyInv, Stages
<1>4. server = Before => server.active # NewKey
  BY RingsDiffer, KeyAssumption
<1>5. Cells'
  <2>1. cell' \in [Cell -> {Nothing, OldKey, NewKey}]
    BY <1>2, <1>3 DEF KeyInv, Cells
  <2>2. erased' \subseteq Cell /\ \A d \in erased' : cell'[d] = Nothing
    BY <1>2 DEF KeyInv, Cells, Encrypts, Erases
  <2>3. server' = server /\ config' = config  BY DEF Encrypts, Erases
  <2>4. config = After => server # Before  BY RingsDiffer DEF KeyInv, Stages
  <2>. QED
    BY <2>1, <2>2, <2>3, <2>4, <1>2, <1>3, <1>4, KeyAssumption
    DEF KeyInv, Cells, Before, After
<1>6. Removal'
  <2>1. removable' = removable /\ server' = server /\ config' = config
    BY DEF Encrypts, Erases
  <2>. QED  BY <2>1, <1>2, <1>3, RingsDiffer, KeyAssumption DEF KeyInv, Removal, Both
<1>7. JobInv'
  <2>1. job' = job /\ server' = server /\ config' = config  BY DEF Encrypts, Erases
  <2>2. server = Both => \A d \in Cell : cell'[d] = OldKey => cell[d] = OldKey
    BY <1>2, <1>3, RingsDiffer, KeyAssumption
  <2>. QED  BY <2>1, <2>2 DEF KeyInv, JobInv, JobType, Both, Before, After
<1>. QED  BY <1>1, <1>5, <1>6, <1>7 DEF KeyInv

\* The steps of the operator, who moves the rings one stage on.
LEMMA KeyMoves ==
  ASSUME KeyInv, AddsKey \/ Deploys \/ RemovesKey
  PROVE  KeyInv'
<1>1. CASE AddsKey
  <2>1. config = Before /\ config' = Both /\ server = Before /\ removable = {}
    BY <1>1, RingsDiffer DEF AddsKey, Before, Both, KeyInv, Stages, Removal
  <2>2. job # Nothing => job.ring # Both
    BY <2>1, RingsDiffer DEF KeyInv, JobInv
  <2>. QED
    BY <1>1, <2>1, <2>2, RingsDiffer
    DEF AddsKey, KeyInv, Stages, Cells, Removal, JobInv, JobType, Before, Both, After
<1>2. CASE Deploys
  <2>1. \/ config = Both /\ server = Before
        \/ config = After /\ server = Both
    BY <1>2 DEF Deploys, KeyInv, Stages
  <2>2. removable = {} /\ (job # Nothing => job.ring # Both)
    BY <2>1, RingsDiffer DEF KeyInv, Removal, JobInv
  <2>3. config' = config /\ server' = config /\ cell' = cell /\ erased' = erased
        /\ job' = job /\ removable' = removable
    BY <1>2 DEF Deploys
  <2>. QED
    BY <2>1, <2>2, <2>3, RingsDiffer
    DEF KeyInv, Stages, Cells, Removal, JobInv, JobType, Before, Both, After
<1>3. CASE RemovesKey
  <2>1. config = Both /\ server = Both /\ (\A c \in Cell : cell[c] # OldKey) /\ config' = After
    <3>1. PICK k \in removable : config' = [config EXCEPT !.keys = @ \ {k}]
      BY <1>3 DEF RemovesKey
    <3>2. k = OldKey /\ config = Both /\ server = Both /\ \A c \in Cell : cell[c] # OldKey
      BY <3>1 DEF KeyInv, Removal
    <3>3. {OldKey, NewKey} \ {OldKey} = {NewKey}  BY KeyAssumption
    <3>. QED  BY <3>1, <3>2, <3>3 DEF Both, After, Ring
  <2>2. server' = server /\ cell' = cell /\ erased' = erased /\ job' = Nothing /\ removable' = {}
    BY <1>3 DEF RemovesKey
  <2>. QED
    BY <2>1, <2>2, RingsDiffer
    DEF KeyInv, Stages, Cells, Removal, JobInv, JobType, Before, Both, After
<1>. QED  BY <1>1, <1>2, <1>3

\* A step of a run that leaves the rings and the cells alone.
LEMMA JobReads ==
  ASSUME KeyInv, NEW c \in Cell, ReadsCell(c)
  PROVE  KeyInv'
<1>. DEFINE k == cell[c]
            next == IF k \in {Nothing, job.ring.active} THEN job
                    ELSE IF k \notin job.ring.keys \/ job.dry THEN Needed(k)
                    ELSE [job EXCEPT !.read = [of |-> c, kid |-> k]]
<1>1. /\ job \in JobType /\ job.read = Nothing /\ job # Nothing
      /\ job' = [next EXCEPT !.left = @ \ {c}]
      /\ UNCHANGED <<config, server, cell, erased, removable>>
  BY DEF ReadsCell, KeyInv, JobInv
<1>2. k \in {Nothing, OldKey, NewKey}  BY DEF KeyInv, Cells
<1>3. Stages' /\ Cells' /\ Removal'
  BY <1>1 DEF KeyInv, Stages, Cells, Removal, Before, Both, After
<1>4. CASE k \in {Nothing, job.ring.active}
  <2>1. job' = [job EXCEPT !.left = @ \ {c}]  BY <1>1, <1>4
  <2>2. job' \in JobType  BY <1>1, <2>1 DEF JobType, Before, Both, After
  <2>3. job.ring = Both => k # OldKey  BY <1>4, RingsDiffer, KeyAssumption
  <2>. QED
    BY <1>1, <1>3, <2>1, <2>2, <2>3
    DEF KeyInv, JobInv, JobType, Before, Both, After
<1>5. CASE k \notin {Nothing, job.ring.active} /\ (k \notin job.ring.keys \/ job.dry)
  <2>1. job' = [ring |-> job.ring, left |-> job.left \ {c}, read |-> Nothing,
                needed |-> job.needed \cup {k}, dry |-> job.dry]
    <3>1. next = Needed(k)  BY <1>5
    <3>. QED  BY <1>1, <3>1 DEF Needed, JobType
  <2>2. job' \in JobType
    <3>1. job.needed \cup {k} \in SUBSET {OldKey, NewKey}  BY <1>1, <1>2, <1>5 DEF JobType
    <3>. QED  BY <1>1, <2>1, <3>1 DEF JobType
  <2>3. k \in job'.needed /\ job.needed \subseteq job'.needed  BY <2>1
  <2>. QED
    BY <1>1, <1>3, <2>1, <2>2, <2>3
    DEF KeyInv, JobInv, JobType, Before, Both, After
<1>6. CASE k \notin {Nothing, job.ring.active} /\ k \in job.ring.keys /\ ~job.dry
  <2>1. job' = [ring |-> job.ring, left |-> job.left \ {c}, read |-> [of |-> c, kid |-> k],
                needed |-> job.needed, dry |-> job.dry]
    <3>1. next = [job EXCEPT !.read = [of |-> c, kid |-> k]]  BY <1>6
    <3>. QED  BY <1>1, <3>1 DEF JobType
  <2>2. job.ring = Both /\ k = OldKey
    BY <1>1, <1>2, <1>6, RingsDiffer DEF JobType
  <2>3. job' \in JobType  BY <1>1, <2>1, <2>2 DEF JobType
  <2>4. job'.read # Nothing /\ job'.read.of = c
    BY <1>1, <2>1, <2>2, KeyAssumption DEF JobType
  <2>5. /\ job'.ring = Both /\ job'.left = job.left \ {c} /\ job'.needed = job.needed
        /\ UNCHANGED Both
    BY <2>1, <2>2 DEF Both, Ring
  <2>6. job.ring.active \in job.needed /\ config = Both /\ server = Both
        /\ \A d \in Cell : cell[d] = OldKey => d \in job.left \/ OldKey \in job.needed
    BY <1>1, <2>2 DEF KeyInv, JobInv
  <2>7. JobInv'
    BY <1>1, <2>2, <2>3, <2>4, <2>5, <2>6 DEF JobInv, JobType, Before, After
  <2>. QED  BY <1>3, <2>7 DEF KeyInv
<1>. QED  BY <1>4, <1>5, <1>6

LEMMA JobRewrites ==
  ASSUME KeyInv, RewritesCell
  PROVE  KeyInv'
<1>. DEFINE c == job.read.of
            k == job.read.kid
<1>1. job \in JobType /\ job # Nothing /\ job.read # Nothing
  BY DEF RewritesCell, KeyInv, JobInv
<1>2. job.ring = Both /\ config = Both /\ server = Both /\ c \in Cell /\ k = OldKey
  BY <1>1 DEF KeyInv, JobInv, JobType
<1>3. UNCHANGED <<config, server, erased, removable>>  BY DEF RewritesCell
<1>4. CASE cell[c] = OldKey
  <2>1. cell' = [cell EXCEPT ![c] = NewKey] /\ job' = [job EXCEPT !.read = Nothing]
    BY <1>2, <1>4, RingsDiffer DEF RewritesCell, Unchanged
  <2>2. job' \in JobType  BY <1>1, <2>1 DEF JobType, Before, Both, After
  <2>3. /\ cell' \in [Cell -> {Nothing, OldKey, NewKey}]
        /\ \A d \in Cell : cell'[d] = OldKey => d # c /\ cell[d] = OldKey
        /\ c \notin erased
    BY <1>2, <1>4, <2>1, KeyAssumption DEF KeyInv, Cells
  <2>4. \A d \in Cell : d # c => cell'[d] = cell[d]
    BY <1>2, <2>1 DEF KeyInv, Cells
  <2>5. JobInv'
    BY <1>1, <1>2, <1>3, <2>1, <2>2, <2>3 DEF KeyInv, JobInv, JobType, Before, Both, After
  <2>. QED
    BY <1>2, <1>3, <2>1, <2>3, <2>4, <2>5, RingsDiffer
    DEF KeyInv, Stages, Cells, Removal, Before, Both, After
<1>5. CASE cell[c] # OldKey
  <2>1. cell' = cell /\ job' = [job EXCEPT !.read = Nothing, !.needed = @ \cup {OldKey}]
    BY <1>1, <1>2, <1>5 DEF RewritesCell, Unchanged, JobType
  <2>2. job' \in JobType  BY <1>1, <2>1 DEF JobType, Before, Both, After
  <2>3. OldKey \in job'.needed /\ job.needed \subseteq job'.needed
    BY <1>1, <2>1 DEF JobType
  <2>. QED
    BY <1>1, <1>2, <1>3, <2>1, <2>2, <2>3
    DEF KeyInv, Stages, Cells, Removal, JobInv, JobType, Before, Both, After
<1>. QED  BY <1>4, <1>5

LEMMA JobBeginsOrEnds ==
  ASSUME KeyInv,
         ReportsRotation \/ RotationDies \/ \E dry \in BOOLEAN : StartsRotation(dry)
  PROVE  KeyInv'
<1>1. Stages' /\ Cells'
  BY DEF ReportsRotation, RotationDies, StartsRotation, KeyInv, Stages, Cells, Before, Both, After
<1>2. CASE ReportsRotation
  <2>1. /\ job \in JobType /\ job.read = Nothing /\ job.left = {} /\ job # Nothing
        /\ removable' = job.ring.keys \ job.needed /\ job' = Nothing
        /\ UNCHANGED <<config, server, cell>>
    BY <1>2 DEF ReportsRotation, KeyInv, JobInv
  <2>2. job.ring.active \in job.needed  BY <2>1 DEF KeyInv, JobInv
  <2>3. CASE job.ring = Both
    BY <2>1, <2>2, <2>3, <1>1, RingsDiffer DEF KeyInv, JobInv, Removal, Both
  <2>4. CASE job.ring # Both
    <3>1. removable' = {}  BY <2>1, <2>2, <2>4, RingsDiffer DEF JobType
    <3>. QED  BY <3>1, <2>1, <1>1 DEF KeyInv, JobInv, Removal
  <2>. QED  BY <2>3, <2>4
<1>3. CASE RotationDies
  BY <1>1, <1>3 DEF RotationDies, KeyInv, JobInv, Removal, Both
<1>4. ASSUME NEW dry \in BOOLEAN, StartsRotation(dry)  PROVE KeyInv'
  <2>1. /\ job' = [ring |-> config, left |-> Cell, read |-> Nothing,
                   needed |-> {config.active}, dry |-> dry]
        /\ server = config
        /\ UNCHANGED <<config, server, cell, removable>>
    BY <1>4 DEF StartsRotation
  <2>2. config \in {Before, Both, After} /\ config.active \in {OldKey, NewKey}
    BY RingsDiffer DEF KeyInv, Stages
  <2>3. job' \in JobType  BY <2>1, <2>2 DEF JobType
  <2>. QED
    BY <1>1, <2>1, <2>2, <2>3
    DEF KeyInv, JobInv, JobType, Removal, Before, Both, After
<1>. QED  BY <1>2, <1>3, <1>4

LEMMA KeyStep ==
  ASSUME KeyInv, [KeyNext]_keyVars
  PROVE  KeyInv'
<1>1. CASE UNCHANGED keyVars
  BY <1>1 DEF keyVars, KeyInv, Stages, Cells, Removal, JobInv, JobType, Before, Both, After
<1>. QED
  BY <1>1, KeyWrites, KeyMoves, JobReads, JobRewrites, JobBeginsOrEnds DEF KeyNext

\* Whatever is written, erased or re-encrypted while the key is retired, and
\* wherever the job dies, a stored value is one the running process and the
\* next can read, and an erased one stays erased (rotateValue, rotate-keys.ts).
THEOREM RotationLosesNothing == KeySpec => []NothingIsLost
<1>1. KeyInv => NothingIsLost
  <2>. SUFFICES ASSUME KeyInv, NEW c \in Cell
                PROVE  IF c \in erased THEN cell[c] = Nothing
                       ELSE cell[c] # Nothing => cell[c] \in server.keys \cap config.keys
    BY DEF NothingIsLost
  <2>1. cell[c] \in {Nothing, OldKey, NewKey}  BY DEF KeyInv, Cells
  <2>. QED  BY <2>1, RingsDiffer, KeyAssumption DEF KeyInv, Stages, Cells
<1>. QED  BY <1>1, KeyInitially, KeyStep, PTL DEF KeySpec

-----------------------------------------------------------------------------
(***************************************************************************)
(* The allowance of an API key.  QuotaHolds is not inductive: what keeps   *)
(* it is that the row has counted every call served today that the         *)
(* database did not fail to count, and that the row of yesterday counts    *)
(* nothing.                                                                *)
(***************************************************************************)
\* The counters are numbers; a request that is counting has been given one.
QuotaType ==
    /\ key \in [revoked : BOOLEAN, used : Nat, today : BOOLEAN]
    /\ today \in [served : Nat, uncounted : Nat]
    /\ day.count \in Nat
    /\ call \in [Request -> [at : ReqState, counted : Nat]]

\* What the row knows of the calls served today.
Known == IF key.today THEN key.used ELSE 0

QuotaInv ==
    /\ QuotaType
    /\ key.used =< PerDay + 1
    /\ today.served =< Known + today.uncounted
    /\ QuotaHolds

-----------------------------------------------------------------------------
\* A count goes up by one, or stays where it refuses (quota.ts).
LEMMA CapBounds ==
  ASSUME NEW n \in Nat
  PROVE  /\ Cap(n) \in Nat
         /\ Cap(n) =< PerDay + 1
         /\ n =< PerDay + 1 => Cap(n) = n
<1>1. PerDay \in Nat  BY PlatformAssumption
<1>. QED  BY <1>1 DEF Cap

LEMMA QuotaInit == PlatformInit => QuotaInv
<1>. SUFFICES ASSUME PlatformInit PROVE QuotaInv  OBVIOUS
<1>1. PerDay \in Nat  BY PlatformAssumption
<1>. QED  BY <1>1 DEF PlatformInit, QuotaInv, QuotaType, QuotaHolds, Known, Quiet, NoWindow, ReqState

\* Only these touch the key's row, the counts of today or a request's count.
LEMMA QuotaElsewhere ==
  ASSUME QuotaInv, UNCHANGED <<key, today>>, day'.count \in Nat,
         call' \in [Request -> [at : ReqState, counted : Nat]]
  PROVE  QuotaInv'
BY DEF QuotaInv, QuotaType, QuotaHolds, Known

\* A request that is answered: served only within the allowance, and counted by
\* the row unless the database failed to (consumeApiKeyQuota, decide).
LEMMA QuotaAnswers ==
  ASSUME QuotaInv, NEW r \in Request, Consumes(r) \/ ConsumeFails(r)
  PROVE  QuotaInv'
<1>1. PerDay \in Nat  BY PlatformAssumption
<1>2. call' \in [Request -> [at : ReqState, counted : Nat]]
  BY DEF QuotaInv, QuotaType, Consumes, ConsumeFails, Answers, Quiet, ReqState
<1>3. day'.count \in Nat
  BY DEF QuotaInv, QuotaType, Consumes, ConsumeFails
<1>4. call[r].counted \in Nat  BY DEF QuotaInv, QuotaType
<1>5. CASE Consumes(r)
  <2>1. /\ Consumed \in Nat /\ Consumed =< PerDay + 1
        /\ Consumed =< PerDay => Consumed = Known + 1
        /\ Known =< PerDay => Consumed = Known + 1
        /\ Consumed > PerDay => Known >= PerDay
        /\ Consumed >= 1
    BY <1>1, CapBounds DEF QuotaInv, QuotaType, Consumed, Cap, Known
  <2>2. key' \in [revoked : BOOLEAN, used : Nat, today : BOOLEAN]
    BY <1>5, <2>1 DEF Consumes, QuotaInv, QuotaType
  <2>3. key'.used = Consumed /\ key'.today = TRUE
    BY <1>5 DEF Consumes, QuotaInv, QuotaType
  <2>4. CASE Allows(Consumed, call[r].counted)
    <3>1. Consumed =< PerDay
      BY <1>1, <1>4, <2>1, <2>4 DEF Allows, DayUsed
    <3>2. today' = [served |-> today.served + 1, uncounted |-> today.uncounted]
      BY <1>5, <2>1, <2>4 DEF Consumes, Answers, QuotaInv, QuotaType
    <3>. QED
      BY <1>1, <1>2, <1>3, <2>1, <2>2, <2>3, <3>1, <3>2
      DEF QuotaInv, QuotaType, QuotaHolds, Known
  <2>5. CASE ~ Allows(Consumed, call[r].counted)
    <3>1. today' = today
      BY <1>5, <2>5 DEF Consumes, Answers
    <3>2. Known =< Consumed
      BY <1>1, <2>1 DEF QuotaInv, QuotaType, Known
    <3>. QED
      BY <1>1, <1>2, <1>3, <2>1, <2>2, <2>3, <3>1, <3>2
      DEF QuotaInv, QuotaType, QuotaHolds, Known
  <2>. QED  BY <2>4, <2>5
<1>6. CASE ConsumeFails(r)
  <2>1. key' = key  BY <1>6 DEF ConsumeFails
  <2>2. \/ today' = today
        \/ today' = [served |-> today.served + 1, uncounted |-> today.uncounted + 1]
    BY <1>6 DEF ConsumeFails, Answers
  <2>. QED
    BY <1>1, <1>2, <1>3, <2>1, <2>2 DEF QuotaInv, QuotaType, QuotaHolds, Known
<1>. QED  BY <1>5, <1>6

LEMMA QuotaNext ==
  ASSUME QuotaInv, [PlatformNext]_platformVars
  PROVE  QuotaInv'
<1>1. PerDay \in Nat  BY PlatformAssumption
<1>2. CASE FlipNext
  BY <1>2, QuotaElsewhere
  DEF FlipNext, SetFlag, Refresh, FlagRequestFails, quotaVars, QuotaInv, QuotaType
<1>3. ASSUME NEW r \in Request, RequestStep(r)  PROVE QuotaInv'
  <2>1. CASE Arrives(r) \/ AsksFresh(r) \/ AsksExpired(r) \/ Authenticates(r)
    <3>1. UNCHANGED <<key, day, today>>
      BY <2>1 DEF Arrives, AsksFresh, AsksExpired, Authenticates, quotaVars
    <3>2. \E at \in ReqState : call' = [call EXCEPT ![r].at = at]
      BY <2>1 DEF Arrives, AsksFresh, AsksExpired, Authenticates, Goes, Verdict, ReqState
    <3>3. call' \in [Request -> [at : ReqState, counted : Nat]]
      BY <3>2 DEF QuotaInv, QuotaType
    <3>. QED  BY <3>1, <3>3, QuotaElsewhere DEF QuotaInv, QuotaType
  <2>2. CASE Counts(r)
    <3>1. day'.count \in Nat
      BY <2>2, CapBounds DEF Counts, QuotaInv, QuotaType
    <3>2. call' \in [Request -> [at : ReqState, counted : Nat]]
      BY <2>2, <3>1 DEF Counts, QuotaInv, QuotaType, Quiet, ReqState
    <3>3. UNCHANGED <<key, today>>  BY <2>2 DEF Counts
    <3>. QED  BY <3>1, <3>2, <3>3, QuotaElsewhere
  <2>3. CASE Consumes(r) \/ ConsumeFails(r)
    BY <2>3, QuotaAnswers
  <2>. QED  BY <1>3, <2>1, <2>2, <2>3 DEF RequestStep
<1>4. CASE LoadReads \/ CacheExpires
  BY <1>4, QuotaElsewhere DEF LoadReads, CacheExpires, quotaVars, QuotaInv, QuotaType
<1>5. CASE LoadReturns \/ LoadFails
  <2>1. UNCHANGED <<key, day, today>>
    BY <1>5 DEF LoadReturns, LoadFails, quotaVars
  <2>2. call' \in [Request -> [at : ReqState, counted : Nat]]
    BY <1>5 DEF LoadReturns, LoadFails, Verdict, ReqState, QuotaInv, QuotaType
  <2>. QED  BY <2>1, <2>2, QuotaElsewhere DEF QuotaInv, QuotaType
<1>6. CASE RevokeUserApiKey
  BY <1>6 DEF RevokeUserApiKey, QuotaInv, QuotaType, QuotaHolds, Known
<1>7. CASE CreateUserApiKey
  BY <1>1, <1>7 DEF CreateUserApiKey, NoWindow, QuotaInv, QuotaType, QuotaHolds, Known
<1>8. CASE MinutePasses
  BY <1>8, QuotaElsewhere DEF MinutePasses, QuotaInv, QuotaType
<1>9. CASE DayWindowEnds
  BY <1>9, QuotaElsewhere DEF DayWindowEnds, NoWindow, QuotaInv, QuotaType
<1>10. CASE Midnight
  <2>1. day'.count \in Nat  BY <1>10 DEF Midnight, QuotaInv, QuotaType
  <2>2. key' \in [revoked : BOOLEAN, used : Nat, today : BOOLEAN]
    BY <1>10 DEF Midnight, QuotaInv, QuotaType
  <2>3. key'.used = key.used /\ key'.today = FALSE
    BY <1>10 DEF Midnight, QuotaInv, QuotaType
  <2>4. today'.served = 0 /\ today'.uncounted = 0 /\ today' \in [served : Nat, uncounted : Nat]
    BY <1>10 DEF Midnight
  <2>5. call' = call  BY <1>10 DEF Midnight
  <2>. QED  BY <1>1, <2>1, <2>2, <2>3, <2>4, <2>5 DEF QuotaInv, QuotaType, QuotaHolds, Known
<1>11. CASE Restarts
  <2>1. call' \in [Request -> [at : ReqState, counted : Nat]]
    BY <1>11 DEF Restarts, Quiet, ReqState
  <2>. QED  BY <1>11, <2>1, QuotaElsewhere DEF Restarts, NoWindow
<1>12. CASE WatchNext
  <2>1. UNCHANGED <<key, day, today, call>>
    BY <1>12 DEF WatchNext, SetTrouble, WatcherStep, Looks, Claims, Notifies, WatcherEnds,
                 WatcherDies, IntervalEnds, quotaVars
  <2>. QED  BY <2>1, QuotaElsewhere DEF QuotaInv, QuotaType
<1>13. CASE UNCHANGED platformVars
  BY <1>13, QuotaElsewhere DEF platformVars, QuotaInv, QuotaType
<1>. QED
  BY <1>2, <1>3, <1>4, <1>5, <1>6, <1>7, <1>8, <1>9, <1>10, <1>11, <1>12, <1>13
  DEF PlatformNext, FrontNext

\* A key is served no more than its allowance in a UTC day beyond the calls the
\* database failed to count, whatever the allowance, however many requests are
\* in flight, and however often the process restarts (quota.ts).
THEOREM QuotaIsKept == PlatformSpec => []QuotaHolds
<1>1. QuotaInv => QuotaHolds  BY DEF QuotaInv
<1>. QED  BY <1>1, QuotaInit, QuotaNext, PTL DEF PlatformSpec
=============================================================================
