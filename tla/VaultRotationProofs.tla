------------------------ MODULE VaultRotationProofs ------------------------
(***************************************************************************)
(* Theorems about VaultRotation: which key a vault is under and who holds  *)
(* it, for any users, vaults, rows and plans.                              *)
(***************************************************************************)
EXTENDS VaultRotation, TLAPS

(***************************************************************************)
(* The inductive invariant.                                                *)
(***************************************************************************)

Roles == VaultRoles \cup {"none"}
TeamRoles == {"owner", "admin", "member", "out"}

\* The three shapes of a plan: not created, under way, ended.
ActivePlans ==
    [state : {"active"}, vault : Vaults, by : Users, excluded : Users,
     context : Contexts, expected : Nat, members : [Users -> Roles],
     manifest : [Entities -> Rows], staged : SUBSET Kinds]
EndedPlans == [state : Terminal \cup {"deleted"}, vault : Vaults]
PlanRecords == {NoPlan} \cup ActivePlans \cup EndedPlans

Typed ==
    /\ teamRole \in [Users -> TeamRoles]
    /\ role \in [Vaults -> [Users -> Roles]]
    /\ wrap \in [Vaults -> [Users -> Keys \cup {NoKey}]]
    /\ keyVersion \in [Vaults -> Nat]
    /\ vaultKey \in [Vaults -> Keys]
    /\ row \in [Entities -> Rows]
    /\ plan \in [Plans -> PlanRecords]
    /\ held \in [Users -> SUBSET Keys]
    /\ joining \subseteq Joins

\* The key of a plan that has not been finalized is nowhere.
Unborn(p) == plan[p].state \in {"unused", "active"}
UnbornKeysUnknown ==
    \A p \in Plans : Unborn(p) =>
        /\ \A u \in Users : p \notin held[u]
        /\ \A v \in Vaults : vaultKey[v] # p /\ \A u \in Users : wrap[v][u] # p
        /\ \A j \in joining : j.key # p

\* Keys do not stray from the vault they were made for.
KeysOfTheirVault ==
    /\ \A v \in Vaults :
         /\ vaultKey[v] \in KeysOf(v)
         /\ \A u \in Users : role[v][u] # "none" => wrap[v][u] \in KeysOf(v)
    /\ \A j \in joining : j.key \in KeysOf(j.vault)

\* An open finalization names plans of different vaults.
SnapshotPlans ==
    /\ snap.plans \subseteq Plans
    /\ \A p \in snap.plans : plan[p].state # "unused"
    /\ \A p, q \in snap.plans : plan[p].vault = plan[q].vault => p = q
    /\ ~ SnapshotGap => snap = NoSnap

\* A row that exists has a version, ...
RowsVersioned == \A e \in Entities : Present(e) => row[e].ver >= 1

\* ... and what a manifest recorded of a row is what the row still holds for as
\* long as it has that version.
ManifestOf(p, e) == plan[p].manifest[e]
ManifestsTrue ==
    \A p \in Plans, e \in Entities :
        plan[p].state = "active" /\ ManifestOf(p, e) # Absent =>
            /\ row[e] # Absent
            /\ Present(e) =>
                 /\ row[e].ver >= ManifestOf(p, e).ver
                 /\ row[e].ver = ManifestOf(p, e).ver => row[e].data = ManifestOf(p, e).data

IInv ==
    /\ Typed /\ UnbornKeysUnknown /\ KeysOfTheirVault /\ SnapshotPlans
    /\ RowsVersioned /\ ManifestsTrue
    /\ NewKeyIsSecret

(***************************************************************************)
(* What a transaction may do to a row.                                     *)
(***************************************************************************)

\* A row stays, is inserted, is deleted for good, or gets its next version.
RowStep(x, y) ==
    \/ y = x
    \/ x = Absent /\ y.vault # NoVault /\ y.ver = 1
    \/ y = Gone
    \/ /\ x.vault # NoVault /\ y.vault # NoVault
       /\ y.ver = x.ver + 1 /\ y.data >= x.data

KeepsData == \A e \in Entities : Present(e) /\ Present(e)' => row'[e].data >= row[e].data

\* The two rows that are in no vault: never inserted, and deleted.
LEMMA RowConstants ==
    /\ Absent \in Rows /\ Gone \in Rows /\ Gone # Absent
    /\ Absent.vault = NoVault /\ Gone.vault = NoVault /\ Absent.ver = 0
<1>1. Absent \in Rows
  BY DEF Absent, Rows
<1>2. Absent.vault = NoVault /\ Absent.ver = 0 /\ Absent.data = 0
  BY DEF Absent
<1>3. Gone \in Rows /\ Gone.vault = NoVault /\ Gone.data = 1
  BY <1>1, <1>2 DEF Gone, Rows
<1> QED
  BY <1>1, <1>2, <1>3

\* The shapes of plans, told apart by their state.
LEMMA PlanShapes ==
    ASSUME NEW y \in PlanRecords
    PROVE  /\ y.state \in PlanStates
           /\ y.state = "unused" <=> y = NoPlan
           /\ y.state = "active" => y \in ActivePlans
           /\ y.state # "unused" => y.vault \in Vaults
BY DEF PlanRecords, ActivePlans, EndedPlans, NoPlan, PlanStates, Terminal

\* Plans that stay under way keep a true manifest whatever one transaction does
\* to the rows, and no row gets an older content.
LEMMA RowsAdvance ==
    ASSUME row \in [Entities -> Rows], row' \in [Entities -> Rows],
           plan \in [Plans -> PlanRecords],
           RowsVersioned, ManifestsTrue,
           \A e \in Entities : RowStep(row[e], row'[e]),
           \A p \in Plans : plan'[p].state = "active" => plan'[p] = plan[p]
    PROVE  RowsVersioned' /\ ManifestsTrue' /\ KeepsData
<1>1. RowsVersioned'
  BY RowConstants DEF RowsVersioned, Present, RowStep, Rows
<1>2. KeepsData
  BY RowConstants DEF KeepsData, Present, RowStep, Rows
<1>3. ManifestsTrue'
  <2> SUFFICES ASSUME NEW p \in Plans, NEW e \in Entities,
                      plan'[p].state = "active", plan'[p].manifest[e] # Absent
               PROVE  /\ row'[e] # Absent
                      /\ row'[e].vault # NoVault =>
                           /\ row'[e].ver >= plan'[p].manifest[e].ver
                           /\ row'[e].ver = plan'[p].manifest[e].ver
                                => row'[e].data = plan'[p].manifest[e].data
    BY DEF ManifestsTrue, ManifestOf, Present
  <2> DEFINE m == plan[p].manifest[e]
  <2>1. plan'[p] = plan[p] /\ plan[p].state = "active" /\ m # Absent
    OBVIOUS
  <2>2. /\ row[e] # Absent
        /\ row[e].vault # NoVault =>
             row[e].ver >= m.ver /\ (row[e].ver = m.ver => row[e].data = m.data)
    BY <2>1 DEF ManifestsTrue, ManifestOf, Present
  <2> HIDE DEF m
  <2>3. row[e] \in Rows /\ row'[e] \in Rows /\ RowStep(row[e], row'[e])
    OBVIOUS
  <2> SUFFICES /\ row'[e] # Absent
               /\ row'[e].vault # NoVault =>
                    row'[e].ver >= m.ver /\ (row'[e].ver = m.ver => row'[e].data = m.data)
    BY <2>1 DEF m
  <2>4. CASE row'[e] = row[e]
    BY <2>2, <2>4
  <2>5. CASE row'[e] = Gone
    BY <2>5, RowConstants
  <2>6. CASE /\ row[e].vault # NoVault /\ row'[e].vault # NoVault
             /\ row'[e].ver = row[e].ver + 1
    <3>1. row'[e] # Absent
      BY <2>6, RowConstants
    <3>2. row[e].ver \in Nat
      BY <2>3 DEF Rows
    <3>3. plan[p] \in ActivePlans
      BY <2>1, PlanShapes
    <3>4. m.ver \in Nat
      BY <3>3 DEF m, ActivePlans, Rows
    <3> QED
      BY <2>2, <2>6, <3>1, <3>2, <3>4
  <2> QED
    BY <2>2, <2>3, <2>4, <2>5, <2>6 DEF RowStep
<1> QED
  BY <1>1, <1>2, <1>3

(***************************************************************************)
(* Steps that change rows only, and steps that change one plan only.       *)
(***************************************************************************)

\* A transaction that moves rows only, each by one RowStep, keeps the invariant.
LEMMA RowTransaction ==
    ASSUME IInv, row' \in [Entities -> Rows],
           \A e \in Entities : RowStep(row[e], row'[e]),
           UNCHANGED <<teamRole, role, wrap, keyVersion, vaultKey, plan, held, snap, joining>>
    PROVE  IInv' /\ KeepsData
<1> USE DEF IInv
<1>1. Typed'
  BY DEF Typed
<1>2. UnbornKeysUnknown' /\ KeysOfTheirVault' /\ SnapshotPlans'
  BY DEF UnbornKeysUnknown, KeysOfTheirVault, SnapshotPlans, Unborn, KeysOf
<1>3. RowsVersioned' /\ ManifestsTrue' /\ KeepsData
  BY RowsAdvance DEF Typed
<1>4. NewKeyIsSecret'
  BY DEF NewKeyIsSecret
<1> QED
  BY <1>1, <1>2, <1>3, <1>4

\* The manifest m was taken of the rows as they are or a while ago.
TrueManifest(m) ==
    \A e \in Entities : m[e] # Absent =>
        /\ row[e] # Absent
        /\ Present(e) => row[e].ver >= m[e].ver /\ (row[e].ver = m[e].ver => row[e].data = m[e].data)

\* So does one that creates, stages or ends one plan.
LEMMA PlanTransaction ==
    ASSUME IInv, NEW p \in Plans, NEW y \in PlanRecords,
           plan' = [plan EXCEPT ![p] = y],
           y.state # "unused",
           plan[p].state # "unused" => y.vault = plan[p].vault,
           y.state = "active" => Unborn(p) /\ TrueManifest(y.manifest),
           snap' = snap \/ snap' = NoSnap,
           UNCHANGED <<teamRole, role, wrap, keyVersion, vaultKey, row, held, joining>>
    PROVE  IInv' /\ KeepsData
<1> USE DEF IInv
<1>0. /\ plan \in [Plans -> PlanRecords] /\ plan' \in [Plans -> PlanRecords]
      /\ plan'[p] = y
      /\ \A q \in Plans : q # p => plan'[q] = plan[q]
  BY DEF Typed
<1>1. Typed'
  BY <1>0 DEF Typed
<1>2. UnbornKeysUnknown'
  <2>1. \A q \in Plans : Unborn(q)' => Unborn(q)
    BY <1>0 DEF Unborn
  <2> QED
    BY <2>1 DEF UnbornKeysUnknown
<1>3. KeysOfTheirVault'
  <2>1. \A v \in Vaults : KeysOf(v) \subseteq KeysOf(v)'
    BY <1>0 DEF KeysOf
  <2> QED
    BY <2>1 DEF KeysOfTheirVault, Typed, Joins
<1>4. SnapshotPlans'
  <2>1. CASE snap' = NoSnap
    BY <2>1 DEF SnapshotPlans, NoSnap
  <2>2. CASE snap' = snap
    <3>1. \A q \in snap.plans :
            q \in Plans /\ plan'[q].state # "unused" /\ plan'[q].vault = plan[q].vault
      BY <1>0 DEF SnapshotPlans
    <3> QED
      BY <2>2, <3>1 DEF SnapshotPlans
  <2> QED
    BY <2>1, <2>2
<1>5. RowsVersioned' /\ KeepsData
  <2>1. \A e \in Entities : row[e].data >= row[e].data
    BY DEF Typed, Rows
  <2> QED
    BY <2>1 DEF RowsVersioned, Present, KeepsData
<1>6. ManifestsTrue'
  BY <1>0 DEF ManifestsTrue, ManifestOf, TrueManifest, Present
<1>7. NewKeyIsSecret'
  BY DEF NewKeyIsSecret
<1> QED
  BY <1>1, <1>2, <1>3, <1>4, <1>5, <1>6, <1>7

(***************************************************************************)
(* Items and attachments.                                                  *)
(***************************************************************************)

\* The key a member seals with is a key of the vault that some plan, now
\* finalized, or the vault's creation introduced.
LEMMA Sealing ==
    ASSUME IInv, NEW v \in Vaults, NEW u \in Users, role[v][u] # "none",
           NEW k \in SealingKeys(v, u)
    PROVE  /\ k \in Keys /\ k \in KeysOf(v)
           /\ \A p \in Plans : Unborn(p) => k # p
<1> USE DEF IInv
<1>1. k \in KeysOf(v)
  BY DEF SealingKeys, KeysOfTheirVault
<1>2. k \in Keys
  BY <1>1 DEF KeysOf, Keys
<1>3. \A p \in Plans : Unborn(p) => k # p
  BY DEF SealingKeys, UnbornKeysUnknown
<1> QED
  BY <1>1, <1>2, <1>3

\* RowTransaction for a single row.
LEMMA OneRow ==
    ASSUME IInv, NEW e \in Entities, NEW y \in Rows,
           row' = [row EXCEPT ![e] = y],
           RowStep(row[e], y),
           UNCHANGED <<teamRole, role, wrap, keyVersion, vaultKey, plan, held, snap, joining>>
    PROVE  IInv' /\ KeepsData
<1>1. row \in [Entities -> Rows]
  BY DEF IInv, Typed
<1>2. row' \in [Entities -> Rows]
  BY <1>1
<1>3. \A x \in Entities : RowStep(row[x], row'[x])
  BY <1>1 DEF RowStep
<1> QED
  BY <1>2, <1>3, RowTransaction

\* What the guards of the actions on rows say about the row.
LEMMA PresentRow ==
    ASSUME IInv, NEW e \in Entities, Present(e)
    PROVE  row[e] \in Rows /\ row[e].vault \in Vaults
BY DEF IInv, Typed, Rows, Present

\* Who may write or manage has a row in the vault.
LEMMA WritersAreMembers == \A r : CanWrite(r) \/ CanManage(r) => r # "none"
BY DEF CanWrite, CanManage

\* The creation of an item and of an attachment.
LEMMA RowInserted ==
    ASSUME IInv, NEW e \in Entities, NEW v \in Vaults, NEW u \in Users,
           NEW w \in Users \cup {NoUser},
           row[e] = Absent, role[v][u] # "none", NEW k \in SealingKeys(v, u),
           row' = [row EXCEPT ![e] = NewRow(v, k, w)],
           UNCHANGED <<teamRole, role, wrap, keyVersion, vaultKey, plan, held, snap, joining>>
    PROVE  IInv' /\ KeepsData
<1> DEFINE y == NewRow(v, k, w)
<1>1. k \in Keys
  BY Sealing
<1>2. y \in Rows /\ y.vault = v /\ y.ver = 1 /\ y.key = k
  BY <1>1 DEF NewRow, Rows
<1>3. v # NoVault
  BY NamesDistinct
<1>4. RowStep(row[e], y)
  BY <1>2, <1>3 DEF RowStep
<1> HIDE DEF y
<1>5. row' = [row EXCEPT ![e] = y]
  BY DEF y
<1> QED
  BY <1>1, <1>2, <1>4, <1>5, OneRow

\* A row put in or taken out of the trash.
LEMMA TrashedRow ==
    ASSUME NEW x \in Rows, NEW b \in BOOLEAN, NEW y, y = [x EXCEPT !.trashed = b]
    PROVE  /\ y \in Rows
           /\ y.vault = x.vault /\ y.key = x.key /\ y.ver = x.ver /\ y.data = x.data
<1>1. y \in Rows
  BY DEF Rows
<1>2. y.vault = x.vault /\ y.key = x.key /\ y.ver = x.ver /\ y.data = x.data
  BY DEF Rows
<1> QED
  BY <1>1, <1>2

\* The actions that give an item its next version in its vault.
LEMMA ItemVersion ==
    ASSUME IInv, NEW i \in Items, NEW u \in Users,
           UpdateItem(i, u) \/ FavoriteItem(i, u) \/ TrashItem(i, u) \/ RestoreItem(i, u)
    PROVE  IInv' /\ KeepsData
<1>0. i \in Entities /\ Present(i)
  BY DEF Entities, UpdateItem, FavoriteItem, TrashItem, RestoreItem
<1>1. row[i] \in Rows /\ row[i].vault \in Vaults /\ row \in [Entities -> Rows]
  BY <1>0, PresentRow DEF IInv, Typed
<1>3. PICK y \in Rows : /\ row' = [row EXCEPT ![i] = y]
                        /\ y.vault = row[i].vault /\ y.key = row[i].key
                        /\ y.ver = row[i].ver + 1 /\ y.data >= row[i].data
  <2>1. CASE UpdateItem(i, u)
    <3> DEFINE x == [row[i] EXCEPT !.ver = @ + 1]
               y == [x EXCEPT !.data = @ + 1]
    <3>1. row' = [row EXCEPT ![i] = y]
      BY <1>0, <1>1, <2>1 DEF UpdateItem
    <3>2. /\ x \in Rows /\ x.vault = row[i].vault /\ x.key = row[i].key
          /\ x.ver = row[i].ver + 1 /\ x.data = row[i].data
      BY <1>1 DEF Rows
    <3> HIDE DEF x
    <3>3. /\ y \in Rows /\ y.vault = x.vault /\ y.key = x.key
          /\ y.ver = x.ver /\ y.data >= x.data
      BY <3>2 DEF Rows
    <3> QED
      BY <3>1, <3>2, <3>3 DEF x
  <2>2. CASE FavoriteItem(i, u)
    <3> DEFINE y == [row[i] EXCEPT !.ver = @ + 1]
    <3>1. row' = [row EXCEPT ![i] = y]
      BY <1>0, <1>1, <2>2 DEF FavoriteItem
    <3>2. /\ y \in Rows /\ y.vault = row[i].vault /\ y.key = row[i].key
          /\ y.ver = row[i].ver + 1 /\ y.data >= row[i].data
      BY <1>1 DEF Rows
    <3> QED
      BY <3>1, <3>2
  <2>3. CASE TrashItem(i, u)
    <3> DEFINE x == [row[i] EXCEPT !.ver = @ + 1]
               y == [x EXCEPT !.trashed = TRUE]
    <3>1. row' = [row EXCEPT ![i] = y]
      BY <1>0, <1>1, <2>3 DEF TrashItem
    <3>2. /\ x \in Rows /\ x.vault = row[i].vault /\ x.key = row[i].key
          /\ x.ver = row[i].ver + 1 /\ x.data = row[i].data
      BY <1>1 DEF Rows
    <3> HIDE DEF x
    <3>3. /\ y \in Rows /\ y.vault = x.vault /\ y.key = x.key
          /\ y.ver = x.ver /\ y.data = x.data
      BY <3>2, TrashedRow
    <3>4. x.data >= x.data
      BY <3>2 DEF Rows
    <3> QED
      BY <3>1, <3>2, <3>3, <3>4 DEF x
  <2>4. CASE RestoreItem(i, u)
    <3> DEFINE x == [row[i] EXCEPT !.ver = @ + 1]
               y == [x EXCEPT !.trashed = FALSE]
    <3>1. row' = [row EXCEPT ![i] = y]
      BY <1>0, <1>1, <2>4 DEF RestoreItem
    <3>2. /\ x \in Rows /\ x.vault = row[i].vault /\ x.key = row[i].key
          /\ x.ver = row[i].ver + 1 /\ x.data = row[i].data
      BY <1>1 DEF Rows
    <3> HIDE DEF x
    <3>3. /\ y \in Rows /\ y.vault = x.vault /\ y.key = x.key
          /\ y.ver = x.ver /\ y.data = x.data
      BY <3>2, TrashedRow
    <3>4. x.data >= x.data
      BY <3>2 DEF Rows
    <3> QED
      BY <3>1, <3>2, <3>3, <3>4 DEF x
  <2> QED
    BY <2>1, <2>2, <2>3, <2>4
<1>4. RowStep(row[i], y)
  BY <1>0, <1>1, <1>3, NamesDistinct DEF RowStep
<1>5. UNCHANGED <<teamRole, role, wrap, keyVersion, vaultKey, plan, held, snap, joining>>
  BY DEF UpdateItem, FavoriteItem, TrashItem, RestoreItem
<1> QED
  BY <1>0, <1>3, <1>4, <1>5, OneRow

\* A move seals the item under a key of the target vault.
LEMMA ItemMoved ==
    ASSUME IInv, NEW i \in Items, NEW v \in Vaults, NEW u \in Users, MoveItem(i, v, u)
    PROVE  IInv' /\ KeepsData
<1>0. /\ i \in Entities /\ Present(i) /\ role[v][u] # "none"
      /\ UNCHANGED <<teamRole, role, wrap, keyVersion, vaultKey, plan, held, snap, joining>>
  BY WritersAreMembers DEF Entities, MoveItem
<1>1. row[i] \in Rows /\ row[i].vault \in Vaults /\ row \in [Entities -> Rows]
  BY <1>0, PresentRow DEF IInv, Typed
<1>2. PICK k \in SealingKeys(v, u) :
        row' = [row EXCEPT ![i].vault = v, ![i].ver = @ + 1, ![i].key = k]
  BY DEF MoveItem
<1>3. k \in Keys
  BY <1>0, Sealing
<1> DEFINE x == [row[i] EXCEPT !.vault = v]
           z == [x EXCEPT !.ver = @ + 1]
           y == [z EXCEPT !.key = k]
<1>4. row' = [row EXCEPT ![i] = y]
  BY <1>0, <1>1, <1>2
<1>a. /\ x \in Rows /\ x.vault = v /\ x.ver = row[i].ver /\ x.data = row[i].data
  BY <1>1 DEF Rows
<1> HIDE DEF x
<1>b. z \in Rows /\ z.vault = v /\ z.ver = row[i].ver + 1 /\ z.data = row[i].data
  BY <1>1, <1>a DEF Rows
<1> HIDE DEF z
<1>5. /\ y \in Rows /\ y.vault = v /\ y.key = k
      /\ y.ver = row[i].ver + 1 /\ y.data >= row[i].data
  BY <1>1, <1>3, <1>b DEF Rows
<1> HIDE DEF y
<1>6. RowStep(row[i], y)
  BY <1>0, <1>1, <1>5, NamesDistinct DEF RowStep
<1> QED
  BY <1>0, <1>3, <1>4, <1>5, <1>6, OneRow

\* Permanent deletion, attachments included.
LEMMA ItemDeleted ==
    ASSUME IInv, NEW i \in Items, NEW u \in Users, DeleteItem(i, u)
    PROVE  IInv' /\ KeepsData
<1>1. row \in [Entities -> Rows]
  BY DEF IInv, Typed
<1>2. /\ row' \in [Entities -> Rows]
      /\ \A e \in Entities : row'[e] = Gone \/ row'[e] = row[e]
  BY <1>1, RowConstants DEF DeleteItem
<1>3. \A e \in Entities : RowStep(row[e], row'[e])
  BY <1>2 DEF RowStep
<1>4. UNCHANGED <<teamRole, role, wrap, keyVersion, vaultKey, plan, held, snap, joining>>
  BY DEF DeleteItem
<1> QED
  BY <1>2, <1>3, <1>4, RowTransaction

\* Deletion of an attachment.
LEMMA AttachmentDeleted ==
    ASSUME IInv, NEW a \in Attachments, NEW u \in Users, DeleteAttachment(a, u)
    PROVE  IInv' /\ KeepsData
<1>1. a \in Entities /\ RowStep(row[a], Gone)
  BY DEF Entities, RowStep
<1>2. row' = [row EXCEPT ![a] = Gone]
  BY DEF DeleteAttachment
<1>3. UNCHANGED <<teamRole, role, wrap, keyVersion, vaultKey, plan, held, snap, joining>>
  BY DEF DeleteAttachment
<1> QED
  BY <1>1, <1>2, <1>3, RowConstants, OneRow

\* All of them.
RowActions ==
    \/ \E i \in Items, v \in Vaults, u \in Users : CreateItem(i, v, u) \/ MoveItem(i, v, u)
    \/ \E i \in Items, u \in Users :
         \/ UpdateItem(i, u) \/ FavoriteItem(i, u) \/ DeleteItem(i, u)
         \/ TrashItem(i, u) \/ RestoreItem(i, u)
    \/ \E a \in Attachments, u \in Users : CreateAttachment(a, u) \/ DeleteAttachment(a, u)

\* Every action on items and attachments keeps the invariant.
LEMMA RowActionsPreserve ==
    ASSUME IInv, RowActions
    PROVE  IInv' /\ KeepsData
<1>1. ASSUME NEW i \in Items, NEW v \in Vaults, NEW u \in Users, CreateItem(i, v, u)
      PROVE  IInv' /\ KeepsData
  <2>1. /\ i \in Entities /\ row[i] = Absent /\ role[v][u] # "none"
        /\ UNCHANGED <<teamRole, role, wrap, keyVersion, vaultKey, plan, held, snap, joining>>
    BY <1>1, WritersAreMembers DEF Entities, CreateItem
  <2>2. PICK k \in SealingKeys(v, u) : row' = [row EXCEPT ![i] = NewRow(v, k, NoUser)]
    BY <1>1 DEF CreateItem
  <2> QED
    BY <2>1, <2>2, RowInserted
<1>2. ASSUME NEW a \in Attachments, NEW u \in Users, CreateAttachment(a, u)
      PROVE  IInv' /\ KeepsData
  <2> DEFINE v == row[Parent[a]].vault
  <2>1. /\ a \in Entities /\ Parent[a] \in Entities /\ Present(Parent[a])
        /\ row[a] = Absent /\ role[v][u] # "none"
        /\ UNCHANGED <<teamRole, role, wrap, keyVersion, vaultKey, plan, held, snap, joining>>
    BY <1>2, WritersAreMembers, RotationConstants DEF Entities, CreateAttachment
  <2>2. v \in Vaults
    BY <2>1, PresentRow
  <2>3. PICK k \in SealingKeys(v, u) : row' = [row EXCEPT ![a] = NewRow(v, k, u)]
    BY <1>2 DEF CreateAttachment
  <2> HIDE DEF v
  <2> QED
    BY <2>1, <2>2, <2>3, RowInserted
<1> QED
  BY <1>1, <1>2, ItemVersion, ItemMoved, ItemDeleted, AttachmentDeleted DEF RowActions

(***************************************************************************)
(* Plans.                                                                  *)
(***************************************************************************)

\* create_plan records a true manifest.
LEMMA SnapshotTrue ==
    ASSUME IInv, NEW v \in Vaults, NEW a \in Users, NEW t \in Users, NEW c \in Contexts
    PROVE  LET y == Snapshot(v, a, t, c) IN
           y \in PlanRecords /\ y.state = "active" /\ TrueManifest(y.manifest)
<1> DEFINE y == Snapshot(v, a, t, c)
           ms == [u \in Users |-> IF u = t THEN "none" ELSE role[v][u]]
           mf == [e \in Entities |-> IF row[e].vault = v THEN row[e] ELSE Absent]
<1>1. ms \in [Users -> Roles] /\ mf \in [Entities -> Rows] /\ keyVersion[v] \in Nat
  BY RowConstants DEF IInv, Typed, Roles
<1>2. TrueManifest(mf)
  <2> SUFFICES ASSUME NEW e \in Entities, mf[e] # Absent
               PROVE  /\ row[e] # Absent
                      /\ row[e].ver >= mf[e].ver
                      /\ row[e].data = mf[e].data
    BY DEF TrueManifest
  <2>1. mf[e] = row[e] /\ row[e] \in Rows
    BY DEF IInv, Typed
  <2> QED
    BY <2>1 DEF Rows
<1>3. y.state = "active" /\ y.manifest = mf
  BY DEF Snapshot
<1>4. y = [state |-> "active", vault |-> v, by |-> a, excluded |-> t, context |-> c,
           expected |-> keyVersion[v], members |-> ms, manifest |-> mf, staged |-> {}]
  BY DEF Snapshot
<1> HIDE DEF ms, mf
<1>5. y \in ActivePlans
  BY <1>1, <1>4 DEF ActivePlans
<1> QED
  BY <1>2, <1>3, <1>5 DEF PlanRecords

\* Creating a plan, for a removal or for a departure.
LEMMA PlanCreated ==
    ASSUME IInv, NEW p \in Plans, NEW v \in Vaults, NEW a \in Users, NEW t \in Users,
           NEW c \in Contexts, plan[p] = NoPlan,
           plan' = [plan EXCEPT ![p] = Snapshot(v, a, t, c)],
           UNCHANGED <<teamRole, role, wrap, keyVersion, vaultKey, row, held, snap, joining>>
    PROVE  IInv' /\ KeepsData
<1> DEFINE y == Snapshot(v, a, t, c)
<1>1. y \in PlanRecords /\ y.state = "active" /\ TrueManifest(y.manifest)
  BY SnapshotTrue
<1>2. plan[p].state = "unused" /\ Unborn(p)
  BY DEF NoPlan, Unborn
<1> HIDE DEF y
<1>3. plan' = [plan EXCEPT ![p] = y]
  BY DEF y
<1> QED
  BY <1>1, <1>2, <1>3, PlanTransaction

\* Staging changes neither manifest nor vault.
LEMMA PlanStaged ==
    ASSUME IInv, NEW p \in Plans, NEW kind \in Kinds, Stage(p, kind)
    PROVE  IInv' /\ KeepsData
<1> DEFINE y == [plan[p] EXCEPT !.staged = @ \cup {kind}]
<1>1. /\ plan[p].state = "active"
      /\ UNCHANGED <<teamRole, role, wrap, keyVersion, vaultKey, row, held, snap, joining>>
      /\ plan' = [plan EXCEPT ![p].staged = @ \cup {kind}]
  BY DEF Stage, Active
<1>2. plan[p] \in ActivePlans
  BY <1>1, PlanShapes DEF IInv, Typed
<1>3. /\ y \in ActivePlans
      /\ y.state = "active" /\ y.vault = plan[p].vault /\ y.manifest = plan[p].manifest
  BY <1>2 DEF ActivePlans
<1>4. plan' = [plan EXCEPT ![p] = y]
  BY <1>1 DEF IInv, Typed
<1>5. Unborn(p) /\ TrueManifest(plan[p].manifest)
  BY <1>1 DEF Unborn, IInv, ManifestsTrue, ManifestOf, TrueManifest
<1> HIDE DEF y
<1>6. y \in PlanRecords
  BY <1>3 DEF PlanRecords
<1> QED
  BY <1>1, <1>3, <1>4, <1>5, <1>6, PlanTransaction

\* Also the end of a finalization that found its plan stale.
LEMMA PlanEnded ==
    ASSUME IInv, NEW p \in Plans, NEW s \in Terminal \cup {"deleted"},
           plan[p].state # "unused",
           plan' = [plan EXCEPT ![p] = Ended(p, s)],
           snap' = snap \/ snap' = NoSnap,
           UNCHANGED <<teamRole, role, wrap, keyVersion, vaultKey, row, held, joining>>
    PROVE  IInv' /\ KeepsData
<1> DEFINE y == Ended(p, s)
<1>1. plan[p].vault \in Vaults
  BY PlanShapes DEF IInv, Typed
<1>2. y \in EndedPlans /\ y.state = s /\ y.vault = plan[p].vault
  BY <1>1 DEF Ended, EndedPlans
<1>3. s # "unused" /\ s # "active"
  BY DEF Terminal
<1> HIDE DEF y
<1>4. y \in PlanRecords /\ plan' = [plan EXCEPT ![p] = y]
  BY <1>2 DEF PlanRecords, y
<1> QED
  BY <1>2, <1>3, <1>4, PlanTransaction

(***************************************************************************)
(* Members.                                                                *)
(***************************************************************************)

\* Vaults have no key in common.
LEMMA KeysDisjoint ==
    ASSUME NEW v \in Vaults, NEW w \in Vaults, NEW k, k \in KeysOf(v), k \in KeysOf(w)
    PROVE  v = w
BY NamesDistinct DEF KeysOf

\* A granted role is a role.
LEMMA GrantedRoles == \A r \in GrantableRoles : r \in Roles /\ r # "none"
BY RotationConstants DEF Roles, VaultRoles

\* Rows and plans are as they were.
LEMMA RowsAndPlansKept ==
    ASSUME IInv, UNCHANGED <<row, plan, snap>>
    PROVE  RowsVersioned' /\ ManifestsTrue' /\ SnapshotPlans' /\ KeepsData
<1>1. \A e \in Entities : row[e].data >= row[e].data
  BY DEF IInv, Typed, Rows
<1> QED
  BY <1>1 DEF IInv, RowsVersioned, Present, ManifestsTrue, ManifestOf, SnapshotPlans, KeepsData

\* A request to add a member carries a key of that vault.
LEMMA JoinRequested ==
    ASSUME IInv, NEW v \in Vaults, NEW a \in Users, NEW t \in Users, NEW r \in GrantableRoles,
           RequestJoin(v, a, t, r)
    PROVE  IInv' /\ KeepsData
<1> USE DEF IInv
<1>0. /\ role[v][a] # "none"
      /\ UNCHANGED <<teamRole, role, wrap, keyVersion, vaultKey, row, plan, held, snap>>
  BY WritersAreMembers DEF RequestJoin
<1>k. PICK k \in SealingKeys(v, a) :
        joining' = joining \cup {[vault |-> v, user |-> t, role |-> r, key |-> k]}
  BY DEF RequestJoin
<1>s. k \in Keys /\ k \in KeysOf(v) /\ \A p \in Plans : Unborn(p) => k # p
  BY <1>0, Sealing
<1>1. Typed'
  <2>1. [vault |-> v, user |-> t, role |-> r, key |-> k] \in Joins
    BY <1>s, RotationConstants DEF Joins
  <2> QED
    BY <1>0, <1>k, <2>1 DEF Typed
<1>p. \A j \in joining' : j \in joining \/ (j.vault = v /\ j.key = k)
  BY <1>k
<1>2. UnbornKeysUnknown'
  <2> SUFFICES ASSUME NEW p \in Plans, Unborn(p)'
               PROVE  /\ \A u \in Users : p \notin held'[u]
                      /\ \A w \in Vaults : vaultKey'[w] # p /\ \A u \in Users : wrap'[w][u] # p
                      /\ \A j \in joining' : j.key # p
    BY DEF UnbornKeysUnknown
  <2>1. Unborn(p) /\ k # p
    BY <1>0, <1>s DEF Unborn
  <2> QED
    BY <1>0, <1>p, <2>1 DEF UnbornKeysUnknown
<1>3. KeysOfTheirVault'
  <2>1. \A w : KeysOf(w)' = KeysOf(w)
    BY <1>0 DEF KeysOf
  <2> QED
    BY <2>1, <1>0, <1>s, <1>p DEF KeysOfTheirVault
<1>4. NewKeyIsSecret'
  BY <1>0 DEF NewKeyIsSecret
<1>5. RowsVersioned' /\ ManifestsTrue' /\ SnapshotPlans' /\ KeepsData
  BY <1>0, RowsAndPlansKept
<1> QED
  BY <1>1, <1>2, <1>3, <1>4, <1>5

\* A request that fails leaves nothing.
LEMMA JoinDropped ==
    ASSUME IInv, NEW j \in joining, DropJoin(j)
    PROVE  IInv' /\ KeepsData
<1> USE DEF IInv
<1>0. /\ joining' \subseteq joining
      /\ UNCHANGED <<teamRole, role, wrap, keyVersion, vaultKey, row, plan, held, snap>>
  BY DEF DropJoin
<1>1. Typed'
  BY <1>0 DEF Typed
<1>2. UnbornKeysUnknown' /\ KeysOfTheirVault'
  BY <1>0 DEF UnbornKeysUnknown, Unborn, KeysOfTheirVault, KeysOf
<1>3. NewKeyIsSecret'
  BY <1>0 DEF NewKeyIsSecret
<1>4. RowsVersioned' /\ ManifestsTrue' /\ SnapshotPlans' /\ KeepsData
  BY <1>0, RowsAndPlansKept
<1> QED
  BY <1>1, <1>2, <1>3, <1>4

\* A new member gets a key of that vault, and no key of another one.
LEMMA MemberAdded ==
    ASSUME IInv, NEW j \in joining, AddMember(j)
    PROVE  IInv' /\ KeepsData
<1> USE DEF IInv
<1> DEFINE v == j.vault
           t == j.user
           r == j.role
           k == j.key
<1>0. /\ role' = [role EXCEPT ![v][t] = r]
      /\ wrap' = [wrap EXCEPT ![v][t] = k]
      /\ held' = [held EXCEPT ![t] = @ \cup {k}]
      /\ joining' \subseteq joining
      /\ UNCHANGED <<teamRole, keyVersion, vaultKey, row, plan, snap>>
  BY DEF AddMember
<1>s. /\ v \in Vaults /\ t \in Users /\ r \in VaultRoles /\ k \in Keys
      /\ k \in KeysOf(v)
      /\ \A p \in Plans : Unborn(p) => k # p
  BY DEF Typed, Joins, KeysOfTheirVault, UnbornKeysUnknown, AddMember
<1>g. r \in Roles /\ r # "none"
  BY <1>s DEF Roles, VaultRoles
<1> HIDE DEF v, t, r, k
<1>1. Typed'
  <2>1. role' \in [Vaults -> [Users -> Roles]]
    BY <1>0, <1>g DEF Typed
  <2>2. wrap' \in [Vaults -> [Users -> Keys \cup {NoKey}]]
    BY <1>0, <1>s DEF Typed
  <2>3. held' \in [Users -> SUBSET Keys]
    BY <1>0, <1>s DEF Typed
  <2> QED
    BY <1>0, <2>1, <2>2, <2>3 DEF Typed
<1>p. /\ \A w \in Vaults, u \in Users :
           /\ role'[w][u] = IF w = v /\ u = t THEN r ELSE role[w][u]
           /\ wrap'[w][u] = IF w = v /\ u = t THEN k ELSE wrap[w][u]
      /\ \A u \in Users : held'[u] = IF u = t THEN held[u] \cup {k} ELSE held[u]
  BY <1>0 DEF Typed
<1>2. UnbornKeysUnknown'
  <2> SUFFICES ASSUME NEW p \in Plans, Unborn(p)'
               PROVE  /\ \A u \in Users : p \notin held'[u]
                      /\ \A w \in Vaults : vaultKey'[w] # p /\ \A u \in Users : wrap'[w][u] # p
                      /\ \A i \in joining' : i.key # p
    BY DEF UnbornKeysUnknown
  <2>1. Unborn(p) /\ k # p
    BY <1>0, <1>s DEF Unborn
  <2>2. ASSUME NEW u \in Users
        PROVE  p \notin held'[u]
    <3>1. held'[u] \subseteq held[u] \cup {k}
      BY <1>p
    <3>2. p \notin held[u]
      BY <2>1 DEF UnbornKeysUnknown
    <3> QED
      BY <2>1, <3>1, <3>2
  <2>3. \A w \in Vaults : vaultKey'[w] # p /\ \A u \in Users : wrap'[w][u] # p
    BY <1>0, <1>p, <2>1 DEF UnbornKeysUnknown
  <2>4. \A i \in joining' : i.key # p
    BY <1>0, <2>1 DEF UnbornKeysUnknown
  <2> QED
    BY <2>2, <2>3, <2>4
<1>3. KeysOfTheirVault'
  <2>1. \A w : KeysOf(w)' = KeysOf(w)
    BY <1>0 DEF KeysOf
  <2> QED
    BY <2>1, <1>0, <1>s, <1>p DEF KeysOfTheirVault
<1>4. NewKeyIsSecret'
  <2> SUFFICES ASSUME NEW w \in Vaults, NEW u \in Users, role'[w][u] = "none",
                      vaultKey[w] \in held'[u]
               PROVE  FALSE
    BY <1>0 DEF NewKeyIsSecret
  <2>1. role[w][u] = "none" /\ vaultKey[w] \notin held[u]
    BY <1>p, <1>g DEF NewKeyIsSecret
  <2>2. u = t /\ vaultKey[w] = k
    BY <1>p, <2>1
  <2>3. w = v
    BY <2>2, <1>s, KeysDisjoint DEF KeysOfTheirVault
  <2> QED
    BY <2>2, <2>3, <1>p, <1>g
<1>6. RowsVersioned' /\ ManifestsTrue' /\ SnapshotPlans' /\ KeepsData
  BY <1>0, RowsAndPlansKept
<1> QED
  BY <1>1, <1>2, <1>3, <1>4, <1>6

\* Changing a role neither adds nor removes a member.
LEMMA RoleUpdated ==
    ASSUME IInv, NEW v \in Vaults, NEW a \in Users, NEW t \in Users, NEW r \in GrantableRoles,
           UpdateRole(v, a, t, r)
    PROVE  IInv' /\ KeepsData
<1> USE DEF IInv
<1>0. /\ role[v][t] # "none"
      /\ role' = [role EXCEPT ![v][t] = r]
      /\ UNCHANGED <<teamRole, wrap, keyVersion, vaultKey, row, plan, held, snap, joining>>
  BY DEF UpdateRole
<1>g. r \in Roles /\ r # "none"
  BY GrantedRoles
<1>1. Typed'
  BY <1>0, <1>g DEF Typed
<1>p. \A w \in Vaults, u \in Users : role'[w][u] = "none" <=> role[w][u] = "none"
  BY <1>0, <1>g DEF Typed
<1>2. UnbornKeysUnknown' /\ KeysOfTheirVault'
  BY <1>0, <1>p DEF UnbornKeysUnknown, Unborn, KeysOfTheirVault, KeysOf
<1>3. NewKeyIsSecret'
  BY <1>0, <1>p DEF NewKeyIsSecret
<1>4. RowsVersioned' /\ ManifestsTrue' /\ SnapshotPlans' /\ KeepsData
  BY <1>0, RowsAndPlansKept
<1> QED
  BY <1>1, <1>2, <1>3, <1>4

\* Rewrapping stores a key the user had.
LEMMA KeyRewrapped ==
    ASSUME IInv, NEW v \in Vaults, NEW t \in Users, Rewrap(v, t)
    PROVE  IInv' /\ KeepsData
<1> USE DEF IInv
<1>0. /\ role[v][t] # "none"
      /\ UNCHANGED <<teamRole, role, keyVersion, vaultKey, row, plan, held, snap, joining>>
  BY DEF Rewrap
<1>k. PICK k \in SealingKeys(v, t) : wrap' = [wrap EXCEPT ![v][t] = k]
  BY DEF Rewrap
<1>s. /\ k \in Keys /\ k \in KeysOf(v)
      /\ \A p \in Plans : Unborn(p) => k # p
  BY <1>0, Sealing
<1>1. Typed'
  BY <1>0, <1>k, <1>s DEF Typed
<1>p. \A w \in Vaults, u \in Users :
        wrap'[w][u] = IF w = v /\ u = t THEN k ELSE wrap[w][u]
  BY <1>0, <1>k DEF Typed
<1>2. UnbornKeysUnknown'
  BY <1>0, <1>s, <1>p DEF UnbornKeysUnknown, Unborn
<1>3. KeysOfTheirVault'
  <2>1. \A w : KeysOf(w)' = KeysOf(w)
    BY <1>0 DEF KeysOf
  <2> QED
    BY <2>1, <1>0, <1>s, <1>p DEF KeysOfTheirVault
<1>4. NewKeyIsSecret'
  BY <1>0 DEF NewKeyIsSecret
<1>6. RowsVersioned' /\ ManifestsTrue' /\ SnapshotPlans' /\ KeepsData
  BY <1>0, RowsAndPlansKept
<1> QED
  BY <1>1, <1>2, <1>3, <1>4, <1>6

\* A Member without vaults leaves nothing behind.
LEMMA DepartedWithoutVaults ==
    ASSUME IInv, NEW a \in Users, NEW t \in Users, NEW c \in Contexts,
           DepartWithoutVaults(a, t, c)
    PROVE  IInv' /\ KeepsData
<1> USE DEF IInv
<1>0. /\ VaultsOf(role, t) = {}
      /\ teamRole' = [teamRole EXCEPT ![t] = "out"]
      /\ UNCHANGED <<role, wrap, keyVersion, vaultKey, row, plan, held, snap, joining>>
  BY DEF DepartWithoutVaults
<1>1. Typed'
  BY <1>0 DEF Typed, TeamRoles
<1>2. UnbornKeysUnknown' /\ KeysOfTheirVault'
  BY <1>0 DEF UnbornKeysUnknown, Unborn, KeysOfTheirVault, KeysOf
<1>3. NewKeyIsSecret'
  BY <1>0 DEF NewKeyIsSecret
<1>4. RowsVersioned' /\ ManifestsTrue' /\ SnapshotPlans' /\ KeepsData
  BY <1>0, RowsAndPlansKept
<1> QED
  BY <1>1, <1>2, <1>3, <1>4

(***************************************************************************)
(* Finalization.                                                           *)
(***************************************************************************)

\* Plans one finalization may apply together.
OnePerVault(P) ==
    /\ \A p \in P : plan[p].state = "active"
    /\ \A p, q \in P : plan[p].vault = plan[q].vault => p = q

\* A departure among them takes the Member out of every vault it is in under r.
CoversDepartures(P, r) ==
    \A p \in P, v \in Vaults :
        plan[p].context # "removal" /\ r[v][plan[p].excluded] # "none" =>
            \E q \in P : plan[q].vault = v /\ plan[q].excluded = plan[p].excluded

\* What the policy checks of a finalize request establish.
LEMMA AuthorizedPlans ==
    ASSUME NEW P \in SUBSET Plans, Authorized(P, role)
    PROVE  OnePerVault(P) /\ CoversDepartures(P, role)
<1>1. PICK a \in Users, t \in Users, c \in Contexts :
        /\ \A p \in P : plan[p].by = a /\ plan[p].excluded = t /\ plan[p].context = c
        /\ IF c = "removal"
           THEN \E p \in P : P = {p}
           ELSE /\ \A p, q \in P : plan[p].vault = plan[q].vault => p = q
                /\ {plan[p].vault : p \in P} = VaultsOf(role, t)
  BY DEF Authorized
<1>2. \A p \in P : plan[p].state = "active"
  BY DEF Authorized
<1>3. CASE c = "removal"
  BY <1>1, <1>2, <1>3 DEF OnePerVault, CoversDepartures
<1>4. CASE c # "removal"
  <2>1. OnePerVault(P)
    BY <1>1, <1>2, <1>4 DEF OnePerVault
  <2>2. CoversDepartures(P, role)
    <3> SUFFICES ASSUME NEW p \in P, NEW v \in Vaults, role[v][plan[p].excluded] # "none"
                 PROVE  \E q \in P : plan[q].vault = v /\ plan[q].excluded = plan[p].excluded
      BY DEF CoversDepartures
    <3>1. v \in VaultsOf(role, t)
      BY <1>1 DEF VaultsOf
    <3>2. PICK q \in P : plan[q].vault = v
      BY <1>1, <1>4, <3>1
    <3> QED
      BY <1>1, <3>2
  <2> QED
    BY <2>1, <2>2
<1> QED
  BY <1>3, <1>4

\* Each rotated vault has exactly one of the plans.
LEMMA ChosenPlan ==
    ASSUME IInv, NEW P \in SUBSET Plans, OnePerVault(P)
    PROVE  /\ \A p \in P : /\ plan[p] \in ActivePlans /\ plan[p].vault \in Vaults
                           /\ plan[p].vault \in Rotated(P)
                           /\ PlanFor(P, plan[p].vault) = p
           /\ \A v \in Rotated(P) : /\ PlanFor(P, v) \in P
                                    /\ plan[PlanFor(P, v)].vault = v
<1>1. \A p \in P : plan[p] \in ActivePlans
  BY PlanShapes DEF IInv, Typed, OnePerVault
<1>2. \A v \in Rotated(P) : PlanFor(P, v) \in P /\ plan[PlanFor(P, v)].vault = v
  BY DEF Rotated, PlanFor
<1>3. \A p \in P : plan[p].vault \in Rotated(P)
  BY DEF Rotated
<1>4. \A p \in P : PlanFor(P, plan[p].vault) = p
  BY <1>2, <1>3 DEF OnePerVault
<1> QED
  BY <1>1, <1>2, <1>3, <1>4 DEF ActivePlans

\* Opening the transaction changes no table.
LEMMA SnapshotTaken ==
    ASSUME IInv, NEW P \in SUBSET Plans, BeginFinalize(P)
    PROVE  IInv' /\ KeepsData
<1> USE DEF IInv
<1>0. /\ SnapshotGap /\ snap'.plans = P
      /\ UNCHANGED <<teamRole, role, wrap, keyVersion, vaultKey, row, plan, held, joining>>
  BY DEF BeginFinalize
<1>1. OnePerVault(P)
  BY AuthorizedPlans DEF BeginFinalize
<1>2. SnapshotPlans'
  BY <1>0, <1>1 DEF SnapshotPlans, OnePerVault
<1>3. Typed' /\ UnbornKeysUnknown' /\ KeysOfTheirVault'
  BY <1>0 DEF Typed, UnbornKeysUnknown, Unborn, KeysOfTheirVault, KeysOf
<1>4. NewKeyIsSecret'
  BY <1>0 DEF NewKeyIsSecret
<1>5. RowsVersioned' /\ ManifestsTrue' /\ KeepsData
  <2>1. \A x \in Entities : row[x].data >= row[x].data
    BY DEF Typed, Rows
  <2> QED
    BY <1>0, <2>1 DEF RowsVersioned, Present, ManifestsTrue, ManifestOf, KeepsData
<1> QED
  BY <1>0, <1>2, <1>3, <1>4, <1>5

\* A row under its new key.
Sealed(x, k, d) == [x EXCEPT !.ver = @ + 1, !.key = k, !.data = d]

\* Its fields.
LEMMA SealedRow ==
    ASSUME NEW x \in Rows, NEW k \in Keys, NEW d \in Nat
    PROVE  LET y == Sealed(x, k, d) IN
           /\ y \in Rows
           /\ y.vault = x.vault /\ y.ver = x.ver + 1 /\ y.key = k /\ y.data = d
<1> DEFINE z1 == [x EXCEPT !.ver = @ + 1]
           z2 == [z1 EXCEPT !.key = k]
           z3 == [z2 EXCEPT !.data = d]
<1>1. Sealed(x, k, d) = z3
  BY DEF Sealed
<1>2. z1 \in Rows /\ z1.vault = x.vault /\ z1.ver = x.ver + 1
  BY DEF Rows
<1> HIDE DEF z1
<1>3. z2 \in Rows /\ z2.vault = x.vault /\ z2.ver = x.ver + 1 /\ z2.key = k
  BY <1>2 DEF Rows
<1> HIDE DEF z2
<1>4. /\ z3 \in Rows
      /\ z3.vault = x.vault /\ z3.ver = x.ver + 1 /\ z3.key = k /\ z3.data = d
  BY <1>3 DEF Rows
<1> QED
  BY <1>1, <1>4

\* What a transaction that sees r and e leaves behind: in the vaults it rotates
\* nothing but what was inserted behind its back, and of the vaults of a Member
\* who leaves the team none but those.
NothingLeft(r, e) ==
    \A v \in Vaults : vaultKey'[v] # vaultKey[v] =>
        /\ \A x \in Entities : row'[x].vault = v =>
             row[x].vault = v /\ (row'[x].key = vaultKey'[v] \/ e[x].vault # v)
        /\ \A u \in Users : role'[v][u] # "none" =>
             role[v][u] # "none" /\ (wrap'[v][u] = vaultKey'[v] \/ r[v][u] = "none")
NoneKept(r) ==
    \A u \in Users, v \in Vaults :
        teamRole'[u] = "out" /\ role'[v][u] # "none" =>
            role[v][u] # "none" /\ (teamRole[u] = "out" \/ r[v][u] = "none")

\* The transaction applies what it saw to tables that still agree with it.
LEMMA RotationApplied ==
    ASSUME IInv, NEW P \in SUBSET Plans, NEW r, NEW e, NEW kv, OnePerVault(P),
           \A p \in P : Fresh(p, r, e, kv),
           \A p \in P, u \in Users :
               r[plan[p].vault][u] # "none" => role[plan[p].vault][u] # "none",
           \A x \in Entities : e[x].vault \in Rotated(P) => row[x] = e[x],
           Apply(P, r, e),
           snap' = snap \/ snap' = NoSnap, joining' = joining
    PROVE  /\ IInv' /\ KeepsData /\ NothingLeft(r, e)
           /\ CoversDepartures(P, r) => NoneKept(r)
<1> USE DEF IInv
<1>c. /\ \A p \in P : /\ plan[p] \in ActivePlans /\ plan[p].vault \in Vaults
                      /\ plan[p].vault \in Rotated(P)
                      /\ PlanFor(P, plan[p].vault) = p
      /\ \A v \in Rotated(P) : /\ PlanFor(P, v) \in P
                               /\ plan[PlanFor(P, v)].vault = v
  BY ChosenPlan
<1>p. /\ \A v \in Vaults, u \in Users :
           v \notin Rotated(P) => role'[v][u] = role[v][u] /\ wrap'[v][u] = wrap[v][u]
      /\ \A v \in Vaults : v \notin Rotated(P) => vaultKey'[v] = vaultKey[v]
      /\ \A p \in P : vaultKey'[plan[p].vault] = p
      /\ \A p \in P, u \in Users :
           LET v == plan[p].vault IN
           IF u = plan[p].excluded
           THEN role'[v][u] = "none" /\ wrap'[v][u] = NoKey
           ELSE /\ role'[v][u] = role[v][u]
                /\ wrap'[v][u] = IF Receives(p, u, r) THEN p ELSE wrap[v][u]
  <2>1. /\ role' = [v \in Vaults |-> [u \in Users |->
                      IF v \in Rotated(P) /\ u = plan[PlanFor(P, v)].excluded
                      THEN "none" ELSE role[v][u]]]
        /\ wrap' = [v \in Vaults |-> [u \in Users |->
                      IF v \notin Rotated(P) THEN wrap[v][u]
                      ELSE IF u = plan[PlanFor(P, v)].excluded THEN NoKey
                      ELSE IF Receives(PlanFor(P, v), u, r) THEN PlanFor(P, v) ELSE wrap[v][u]]]
        /\ vaultKey' = [v \in Vaults |-> IF v \in Rotated(P) THEN PlanFor(P, v) ELSE vaultKey[v]]
    BY DEF Apply, ApplyMembers, ApplyVault
  <2> QED
    BY <1>c, <2>1
<1>h. \A u \in Users : held'[u] = held[u] \cup {p \in P : u # plan[p].excluded /\ Receives(p, u, r)}
  BY DEF Apply, ApplyMembers
<1>q. /\ \A q \in Plans \ P : plan'[q] = plan[q]
      /\ \A p \in P : plan'[p] = Ended(p, "completed")
      /\ DOMAIN plan' = Plans
  BY DEF Apply
<1>e. \A p \in P : /\ plan'[p] \in EndedPlans /\ plan'[p].state = "completed"
                   /\ plan'[p].vault = plan[p].vault
  <2> SUFFICES ASSUME NEW p \in P
               PROVE  /\ plan'[p] \in EndedPlans /\ plan'[p].state = "completed"
                      /\ plan'[p].vault = plan[p].vault
    OBVIOUS
  <2>1. plan'[p] = [state |-> "completed", vault |-> plan[p].vault]
    BY <1>q DEF Ended
  <2>2. plan[p].vault \in Vaults
    BY <1>c
  <2> QED
    BY <2>1, <2>2 DEF EndedPlans, Terminal
<1>t. \A u \in Users :
        teamRole'[u] = IF \E p \in P : plan[p].context # "removal" /\ plan[p].excluded = u
                       THEN "out" ELSE teamRole[u]
  BY DEF Apply, ApplyTeam
<1>r. \A x \in Entities :
        \/ /\ row[x] = e[x] /\ row[x].vault \in Rotated(P)
           /\ LET p == PlanFor(P, row[x].vault) IN
              /\ plan[p].manifest[x] # Absent
              /\ row'[x] = Sealed(row[x], p, plan[p].manifest[x].data)
        \/ /\ row'[x] = row[x]
           /\ \/ e[x].vault \notin Rotated(P)
              \/ plan[PlanFor(P, e[x].vault)].manifest[x] = Absent
  BY DEF Apply, ApplyRows, Sealed
<1>f. ASSUME NEW x \in Entities,
             row[x] = e[x], row[x].vault \in Rotated(P),
             plan[PlanFor(P, row[x].vault)].manifest[x] # Absent,
             row'[x] # row[x]
      PROVE  /\ row'[x] \in Rows /\ row'[x].vault = row[x].vault
             /\ row'[x].ver = row[x].ver + 1 /\ row'[x].data = row[x].data
             /\ row'[x].key = PlanFor(P, row[x].vault)
  <2> DEFINE p == PlanFor(P, row[x].vault)
             m == plan[p].manifest[x]
  <2>1. p \in P /\ plan[p].vault = row[x].vault /\ p \in Keys /\ plan[p] \in ActivePlans
    BY <1>c, <1>f DEF Keys
  <2>2. m \in Rows /\ m.data \in Nat /\ row[x] \in Rows
    BY <2>1 DEF ActivePlans, Rows, Typed
  <2>3. m.ver = row[x].ver
    BY <1>f, <2>1 DEF Fresh
  <2>4. row[x].data = m.data
    <3>1. Present(x)
      BY <2>1, NamesDistinct DEF Present, ActivePlans
    <3> QED
      BY <1>f, <2>1, <2>3, <3>1 DEF ManifestsTrue, ManifestOf, OnePerVault
  <2>5. row'[x] = Sealed(row[x], p, m.data)
    BY <1>r, <1>f
  <2> HIDE DEF p, m
  <2>6. /\ row'[x] \in Rows /\ row'[x].vault = row[x].vault
        /\ row'[x].ver = row[x].ver + 1 /\ row'[x].key = p /\ row'[x].data = m.data
    BY <2>1, <2>2, <2>5, SealedRow
  <2> QED
    BY <2>4, <2>6 DEF p
<1>g. \A x \in Entities :
        \/ row'[x] = row[x]
        \/ /\ row'[x] \in Rows /\ row'[x].vault = row[x].vault /\ row[x].vault \in Rotated(P)
           /\ row'[x].ver = row[x].ver + 1 /\ row'[x].data = row[x].data
           /\ row'[x].key = PlanFor(P, row[x].vault)
  BY <1>r, <1>f
<1>v. \A v \in Rotated(P) : v \in Vaults /\ v # NoVault
  BY <1>c, NamesDistinct
<1> HIDE DEF IInv
<1>1. Typed'
  <2>1. /\ teamRole' \in [Users -> TeamRoles]
    BY DEF IInv, Typed, TeamRoles, Apply, ApplyTeam
  <2>2. role' \in [Vaults -> [Users -> Roles]]
    BY DEF IInv, Typed, Roles, Apply, ApplyMembers
  <2>3. wrap' \in [Vaults -> [Users -> Keys \cup {NoKey}]]
    <3>1. wrap' = [v \in Vaults |-> [u \in Users |-> wrap'[v][u]]]
      BY DEF Apply, ApplyMembers
    <3>2. ASSUME NEW v \in Vaults, NEW u \in Users
          PROVE  wrap'[v][u] \in Keys \cup {NoKey}
      <4>1. wrap[v][u] \in Keys \cup {NoKey}
        BY DEF IInv, Typed
      <4>2. CASE v \notin Rotated(P)
        BY <1>p, <4>1, <4>2
      <4>3. CASE v \in Rotated(P)
        <5>1. PICK p \in P : plan[p].vault = v
          BY <1>c, <4>3
        <5>2. wrap'[v][u] \in {NoKey, p, wrap[v][u]}
          BY <1>p, <5>1
        <5> QED
          BY <4>1, <5>2 DEF Keys
      <4> QED
        BY <4>2, <4>3
    <3> QED
      BY <3>1, <3>2
  <2>4. keyVersion' \in [Vaults -> Nat]
    BY DEF IInv, Typed, Apply, ApplyVault
  <2>5. vaultKey' \in [Vaults -> Keys]
    BY <1>c DEF IInv, Typed, Keys, Apply, ApplyVault
  <2>6. row' \in [Entities -> Rows]
    <3>1. row' = [x \in Entities |-> row'[x]]
      BY DEF Apply, ApplyRows
    <3>2. \A x \in Entities : row'[x] \in Rows
      BY <1>g DEF IInv, Typed
    <3> QED
      BY <3>1, <3>2
  <2>7. plan' \in [Plans -> PlanRecords]
    <3>1. plan' = [p \in Plans |-> plan'[p]]
      BY DEF Apply
    <3>2. \A p \in Plans : plan'[p] \in PlanRecords
      BY <1>q, <1>e DEF IInv, Typed, PlanRecords
    <3> QED
      BY <3>1, <3>2
  <2>8. held' \in [Users -> SUBSET Keys]
    <3>1. held' = [u \in Users |-> held'[u]]
      BY DEF Apply, ApplyMembers
    <3>2. \A u \in Users : held'[u] \subseteq Keys
      BY <1>h DEF IInv, Typed, Keys
    <3> QED
      BY <3>1, <3>2
  <2> QED
    BY <2>1, <2>2, <2>3, <2>4, <2>5, <2>6, <2>7, <2>8 DEF Typed, IInv
<1>2. UnbornKeysUnknown'
  <2> SUFFICES ASSUME NEW q \in Plans, Unborn(q)'
               PROVE  /\ \A u \in Users : q \notin held'[u]
                      /\ \A v \in Vaults : vaultKey'[v] # q /\ \A u \in Users : wrap'[v][u] # q
                      /\ \A j \in joining : j.key # q
    BY DEF UnbornKeysUnknown
  <2>1. q \notin P /\ Unborn(q) /\ q # NoKey
    BY <1>q, <1>e, NamesDistinct DEF Unborn, Keys
  <2>2. /\ \A u \in Users : q \notin held[u]
        /\ \A v \in Vaults : vaultKey[v] # q /\ \A u \in Users : wrap[v][u] # q
        /\ \A j \in joining : j.key # q
    BY <2>1 DEF IInv, UnbornKeysUnknown
  <2>3. \A u \in Users : q \notin held'[u]
    BY <1>h, <2>1, <2>2
  <2>4. ASSUME NEW v \in Vaults PROVE vaultKey'[v] # q /\ \A u \in Users : wrap'[v][u] # q
    <3>1. CASE v \notin Rotated(P)
      BY <1>p, <2>2, <3>1
    <3>2. CASE v \in Rotated(P)
      BY <1>c, <1>p, <2>1, <2>2, <3>2
    <3> QED
      BY <3>1, <3>2
  <2> QED
    BY <2>2, <2>3, <2>4
<1>3. KeysOfTheirVault'
  <2>1. \A v \in Vaults : KeysOf(v) \subseteq KeysOf(v)'
    BY <1>q, <1>e DEF KeysOf
  <2>2. \A p \in P, w \in Vaults : plan[p].vault = w => p \in KeysOf(w)'
    BY <1>e DEF KeysOf
  <2>j. \A j \in joining' : j.key \in KeysOf(j.vault)'
    BY <2>1 DEF IInv, Typed, Joins, KeysOfTheirVault
  <2> SUFFICES ASSUME NEW v \in Vaults
               PROVE  /\ vaultKey'[v] \in KeysOf(v)'
                      /\ \A u \in Users : role'[v][u] # "none" => wrap'[v][u] \in KeysOf(v)'
    BY <2>j DEF KeysOfTheirVault
  <2>3. /\ vaultKey[v] \in KeysOf(v)
        /\ \A u \in Users : role[v][u] # "none" => wrap[v][u] \in KeysOf(v)
    BY DEF IInv, KeysOfTheirVault
  <2>4. CASE v \notin Rotated(P)
    BY <1>p, <2>1, <2>3, <2>4
  <2>5. CASE v \in Rotated(P)
    <3>1. PICK p \in P : plan[p].vault = v
      BY <1>c, <2>5
    <3>2. vaultKey'[v] = p /\ p \in KeysOf(v)'
      BY <1>p, <2>2, <3>1
    <3>3. ASSUME NEW u \in Users, role'[v][u] # "none"
          PROVE  wrap'[v][u] \in KeysOf(v)'
      <4>1. role[v][u] # "none" /\ wrap'[v][u] \in {p, wrap[v][u]}
        BY <1>p, <3>1, <3>3
      <4> QED
        BY <2>1, <2>3, <3>2, <4>1
    <3> QED
      BY <3>2, <3>3
  <2> QED
    BY <2>4, <2>5
<1>4. SnapshotPlans'
  <2>1. CASE snap' = NoSnap
    BY <2>1 DEF SnapshotPlans, NoSnap
  <2>2. CASE snap' = snap
    <3>1. \A q \in snap.plans :
            q \in Plans /\ plan'[q].state # "unused" /\ plan'[q].vault = plan[q].vault
      BY <1>q, <1>e DEF IInv, SnapshotPlans
    <3> QED
      BY <2>2, <3>1 DEF IInv, SnapshotPlans
  <2> QED
    BY <2>1, <2>2
<1>5. RowsVersioned' /\ ManifestsTrue' /\ KeepsData
  <2>1. row \in [Entities -> Rows] /\ plan \in [Plans -> PlanRecords]
    BY DEF IInv, Typed
  <2>2. \A x \in Entities : RowStep(row[x], row'[x])
    <3> SUFFICES ASSUME NEW x \in Entities, row'[x] # row[x]
                 PROVE  RowStep(row[x], row'[x])
      BY DEF RowStep
    <3>1. /\ row'[x].vault # NoVault /\ row[x].vault # NoVault
          /\ row'[x].ver = row[x].ver + 1 /\ row'[x].data = row[x].data
      BY <1>g, <1>v
    <3>2. row[x].data >= row[x].data
      BY <2>1 DEF Rows
    <3> QED
      BY <3>1, <3>2 DEF RowStep
  <2>3. \A p \in Plans : plan'[p].state = "active" => plan'[p] = plan[p]
    BY <1>q, <1>e
  <2> QED
    BY <1>1, <2>1, <2>2, <2>3, RowsAdvance DEF IInv, Typed
<1>6. NewKeyIsSecret'
  <2> SUFFICES ASSUME NEW v \in Vaults, NEW u \in Users, role'[v][u] = "none"
               PROVE  vaultKey'[v] \notin held'[u]
    BY DEF NewKeyIsSecret
  <2>1. CASE v \notin Rotated(P)
    <3>1. role[v][u] = "none" /\ vaultKey'[v] = vaultKey[v]
      BY <1>p, <2>1
    <3>2. vaultKey[v] \notin held[u]
      BY <3>1 DEF IInv, NewKeyIsSecret
    <3>3. \A p \in P : vaultKey[v] # p
      BY DEF IInv, UnbornKeysUnknown, Unborn, OnePerVault
    <3> QED
      BY <1>h, <3>1, <3>2, <3>3
  <2>2. CASE v \in Rotated(P)
    <3>1. PICK p \in P : plan[p].vault = v
      BY <1>c, <2>2
    <3>2. vaultKey'[v] = p
      BY <1>p, <3>1
    <3>3. p \notin held[u]
      BY DEF IInv, UnbornKeysUnknown, Unborn, OnePerVault
    <3>4. ~ (u # plan[p].excluded /\ Receives(p, u, r))
      BY <1>p, <3>1 DEF Receives
    <3> QED
      BY <1>h, <3>2, <3>3, <3>4
  <2> QED
    BY <2>1, <2>2
<1>7. NothingLeft(r, e)
  <2> SUFFICES ASSUME NEW p \in P
               PROVE  /\ \A u \in Users : role'[plan[p].vault][u] # "none" =>
                           /\ role[plan[p].vault][u] # "none"
                           /\ wrap'[plan[p].vault][u] = p \/ r[plan[p].vault][u] = "none"
                      /\ \A x \in Entities : row'[x].vault = plan[p].vault =>
                           /\ row[x].vault = plan[p].vault
                           /\ row'[x].key = p \/ e[x].vault # plan[p].vault
    <3>1. ASSUME NEW v \in Vaults, vaultKey'[v] # vaultKey[v]
          PROVE  \E p \in P : plan[p].vault = v /\ vaultKey'[v] = p
      BY <1>c, <1>p, <3>1
    <3> QED
      BY <3>1 DEF NothingLeft
  <2>1. /\ plan[p].vault \in Rotated(P) /\ p = PlanFor(P, plan[p].vault)
        /\ plan[p].vault # NoVault
    BY <1>c, <1>v
  <2>2. /\ \A u \in Users \ {plan[p].excluded} : r[plan[p].vault][u] = plan[p].members[u]
        /\ \A x \in Entities : e[x].vault = plan[p].vault => plan[p].manifest[x].ver = e[x].ver
    BY DEF Fresh
  <2>3. ASSUME NEW u \in Users, role'[plan[p].vault][u] # "none", r[plan[p].vault][u] # "none"
        PROVE  wrap'[plan[p].vault][u] = p
    <3>1. u # plan[p].excluded /\ Receives(p, u, r)
      BY <1>p, <2>2, <2>3 DEF Receives
    <3> QED
      BY <1>p, <3>1
  <2>4. ASSUME NEW x \in Entities, row'[x].vault = plan[p].vault, e[x].vault = plan[p].vault
        PROVE  row'[x].key = p
    <3>1. row[x] = e[x]
      BY <2>1, <2>4
    <3>2. row[x].ver >= 1 /\ row[x].ver \in Nat
      BY <2>1, <2>4, <3>1 DEF IInv, RowsVersioned, Present, Typed, Rows
    <3>3. plan[p].manifest[x] # Absent
      BY <2>2, <2>4, <3>1, <3>2, RowConstants
    <3>4. row'[x] = Sealed(row[x], p, plan[p].manifest[x].data)
      BY <1>r, <2>1, <2>4, <3>1, <3>3
    <3>5. p \in Keys /\ plan[p].manifest[x].data \in Nat /\ row[x] \in Rows
      BY <1>c DEF Keys, ActivePlans, Rows, IInv, Typed
    <3> QED
      BY <3>4, <3>5, SealedRow
  <2>5. \A u \in Users : role'[plan[p].vault][u] # "none" => role[plan[p].vault][u] # "none"
    BY <1>p
  <2>6. \A x \in Entities : row'[x].vault = row[x].vault
    BY <1>g
  <2> QED
    BY <2>3, <2>4, <2>5, <2>6
<1>9. CoversDepartures(P, r) => NoneKept(r)
  <2> SUFFICES ASSUME CoversDepartures(P, r), NEW u \in Users, NEW v \in Vaults,
                      teamRole'[u] = "out", role'[v][u] # "none"
               PROVE  role[v][u] # "none" /\ (teamRole[u] = "out" \/ r[v][u] = "none")
    BY DEF NoneKept
  <2>1. role[v][u] # "none"
    BY <1>c, <1>p
  <2>2. ASSUME teamRole[u] # "out", r[v][u] # "none"
        PROVE  FALSE
    <3>1. PICK p \in P : plan[p].context # "removal" /\ plan[p].excluded = u
      BY <1>t, <2>2
    <3>2. PICK q \in P : plan[q].vault = v /\ plan[q].excluded = u
      BY <2>2, <3>1 DEF CoversDepartures
    <3> QED
      BY <1>p, <3>2
  <2> QED
    BY <2>1, <2>2
<1> QED
  BY <1>1, <1>2, <1>3, <1>4, <1>5, <1>6, <1>7, <1>9 DEF IInv

\* A stale plan ends; nothing else happens.
StaleRecorded(P) ==
    /\ \E p \in P : Active(p) /\ plan' = [plan EXCEPT ![p] = Ended(p, "stale")]
    /\ UNCHANGED <<teamRole, role, wrap, keyVersion, vaultKey, row, held>>

\* Without an update of the tables there is nothing to leave behind.
LEMMA NothingRotated ==
    ASSUME NEW r, NEW e, UNCHANGED <<teamRole, role, vaultKey>>
    PROVE  NothingLeft(r, e) /\ NoneKept(r)
BY DEF NothingLeft, NoneKept

\* The atomic finalization.
LEMMA FinalizePreserves ==
    ASSUME IInv, NEW P \in SUBSET Plans, Finalize(P)
    PROVE  IInv' /\ KeepsData /\ NothingLeft(role, row) /\ NoneKept(role)
<1>0. /\ ~ SnapshotGap /\ OnePerVault(P) /\ CoversDepartures(P, role)
      /\ FinalizeSeeing(P, role, row, keyVersion) /\ snap' = snap /\ joining' = joining
  BY AuthorizedPlans DEF Finalize
<1>1. CASE /\ \A p \in P : Fresh(p, role, row, keyVersion)
           /\ Apply(P, role, row)
  BY <1>0, <1>1, RotationApplied
<1>2. CASE StaleRecorded(P)
  <2>1. PICK p \in P : Active(p) /\ plan' = [plan EXCEPT ![p] = Ended(p, "stale")]
    BY <1>2 DEF StaleRecorded
  <2>2. p \in Plans /\ plan[p].state # "unused" /\ "stale" \in Terminal
    BY <2>1 DEF Active, Terminal
  <2>3. IInv' /\ KeepsData
    BY <1>0, <1>2, <2>1, <2>2, PlanEnded DEF StaleRecorded
  <2> QED
    BY <1>2, <2>3, NothingRotated DEF StaleRecorded
<1> QED
  BY <1>0, <1>1, <1>2 DEF FinalizeSeeing, StaleRecorded

\* A snapshot that names a departure names all vaults the Member had in it.
SnapshotCovers ==
    (\A p \in snap.plans : plan[p].state = "active") => CoversDepartures(snap.plans, snap.role)

\* The transaction whose snapshot is older than its locks.
LEMMA CommitPreserves ==
    ASSUME IInv, CommitFinalize
    PROVE  /\ IInv' /\ KeepsData /\ NothingLeft(snap.role, snap.row)
           /\ SnapshotCovers => NoneKept(snap.role)
<1>0. /\ SnapshotGap /\ snap' = NoSnap /\ joining' = joining /\ snap.plans \in SUBSET Plans
      /\ \A p, q \in snap.plans : plan[p].vault = plan[q].vault => p = q
  BY DEF IInv, SnapshotPlans, CommitFinalize
<1> DEFINE P == snap.plans
<1>1. CASE Serializable
  <2>1. FinalizeSeeing(P, snap.role, snap.row, snap.keyVersion)
    BY <1>1 DEF CommitFinalize
  <2>2. CASE /\ \A p \in P : Fresh(p, snap.role, snap.row, snap.keyVersion)
             /\ Apply(P, snap.role, snap.row)
    <3>1. OnePerVault(P)
      BY <1>0, <1>1 DEF Serializable, OnePerVault
    <3>2. \A p \in P, u \in Users :
            snap.role[plan[p].vault][u] # "none" => role[plan[p].vault][u] # "none"
      BY <1>1 DEF Serializable
    <3>3. \A x \in Entities : snap.row[x].vault \in Rotated(P) => row[x] = snap.row[x]
      BY <1>1 DEF Serializable, Rotated
    <3>c. SnapshotCovers => CoversDepartures(P, snap.role)
      BY <3>1 DEF SnapshotCovers, OnePerVault
    <3> HIDE DEF P
    <3>4. P \in SUBSET Plans
      BY <1>0 DEF P
    <3> QED
      BY <1>0, <2>2, <3>1, <3>2, <3>3, <3>c, <3>4, RotationApplied
  <2>3. CASE StaleRecorded(P)
    <3>1. PICK p \in P : Active(p) /\ plan' = [plan EXCEPT ![p] = Ended(p, "stale")]
      BY <2>3 DEF StaleRecorded
    <3>2. p \in Plans /\ plan[p].state # "unused" /\ "stale" \in Terminal
      BY <1>0, <3>1 DEF Active, Terminal
    <3>3. IInv' /\ KeepsData
      BY <1>0, <2>3, <3>1, <3>2, PlanEnded DEF StaleRecorded
    <3> QED
      BY <2>3, <3>3, NothingRotated DEF StaleRecorded
  <2> QED
    BY <2>1, <2>2, <2>3 DEF FinalizeSeeing, StaleRecorded
<1>2. CASE ~ Serializable
  <2>1. UNCHANGED <<teamRole, role, wrap, keyVersion, vaultKey, row, plan, held, joining>>
    BY <1>2 DEF CommitFinalize
  <2>2. SnapshotPlans'
    BY <1>0 DEF SnapshotPlans, NoSnap
  <2>3. Typed' /\ UnbornKeysUnknown' /\ KeysOfTheirVault'
    BY <2>1 DEF IInv, Typed, UnbornKeysUnknown, Unborn, KeysOfTheirVault, KeysOf
  <2>4. NewKeyIsSecret'
    BY <2>1 DEF IInv, NewKeyIsSecret
  <2>5. RowsVersioned' /\ ManifestsTrue' /\ KeepsData
    <3>1. \A x \in Entities : row[x].data >= row[x].data
      BY DEF IInv, Typed, Rows
    <3> QED
      BY <2>1, <3>1 DEF IInv, RowsVersioned, Present, ManifestsTrue, ManifestOf, KeepsData
  <2>6. IInv'
    BY <1>0, <2>2, <2>3, <2>4, <2>5 DEF IInv
  <2>7. NothingLeft(snap.role, snap.row) /\ NoneKept(snap.role)
    BY <2>1, NothingRotated
  <2> QED
    BY <2>5, <2>6, <2>7
<1> QED
  BY <1>1, <1>2

(***************************************************************************)
(* The theorems.                                                           *)
(***************************************************************************)

\* The invariant holds at the start, ...
LEMMA InitIInv == Init => IInv
<1> SUFFICES ASSUME Init PROVE IInv
  OBVIOUS
<1> USE DEF Init
<1>0. NoPlan.state = "unused" /\ NoPlan \in PlanRecords
  BY DEF NoPlan, PlanRecords
<1>1. Typed
  <2>1. teamRole \in [Users -> TeamRoles]
    BY RotationConstants DEF TeamRoles
  <2>2. role \in [Vaults -> [Users -> Roles]]
    BY DEF Roles, VaultRoles
  <2>3. wrap \in [Vaults -> [Users -> Keys \cup {NoKey}]] /\ vaultKey \in [Vaults -> Keys]
    BY DEF Keys
  <2>4. keyVersion \in [Vaults -> Nat] /\ row \in [Entities -> Rows]
    BY RowConstants
  <2>5. plan \in [Plans -> PlanRecords]
    BY <1>0
  <2>6. held \in [Users -> SUBSET Keys]
    BY DEF Keys
  <2> QED
    BY <2>1, <2>2, <2>3, <2>4, <2>5, <2>6 DEF Typed
<1>2. UnbornKeysUnknown
  BY NamesDistinct DEF UnbornKeysUnknown, Keys
<1>3. KeysOfTheirVault
  BY DEF KeysOfTheirVault, KeysOf
<1>4. SnapshotPlans
  BY DEF SnapshotPlans, NoSnap
<1>5. RowsVersioned
  BY RowConstants DEF RowsVersioned, Present
<1>6. ManifestsTrue
  BY <1>0 DEF ManifestsTrue
<1>7. NewKeyIsSecret
  BY DEF NewKeyIsSecret
<1> QED
  BY <1>1, <1>2, <1>3, <1>4, <1>5, <1>6, <1>7 DEF IInv

\* ... is kept by every step, which also keeps the data, ...
LEMMA StepIInv == IInv /\ [Next]_vars => IInv' /\ KeepsData
<1> SUFFICES ASSUME IInv, [Next]_vars PROVE IInv' /\ KeepsData
  OBVIOUS
<1>1. ASSUME NEW v \in Vaults, NEW a \in Users, NEW t \in Users, NEW r \in GrantableRoles,
             RequestJoin(v, a, t, r) \/ UpdateRole(v, a, t, r)
      PROVE  IInv' /\ KeepsData
  BY <1>1, JoinRequested, RoleUpdated
<1>j. ASSUME NEW j \in joining, AddMember(j) \/ DropJoin(j)
      PROVE  IInv' /\ KeepsData
  BY <1>j, MemberAdded, JoinDropped
<1>2. ASSUME NEW v \in Vaults, NEW u \in Users, Rewrap(v, u)
      PROVE  IInv' /\ KeepsData
  BY <1>2, KeyRewrapped
<1>3. CASE RowActions
  BY <1>3, RowActionsPreserve
<1>4. ASSUME NEW p \in Plans, NEW v \in Vaults, NEW a \in Users, NEW t \in Users,
             CreateRemovalPlan(p, v, a, t)
      PROVE  IInv' /\ KeepsData
  <2>1. "removal" \in Contexts
    BY DEF Contexts
  <2> QED
    BY <1>4, <2>1, PlanCreated DEF CreateRemovalPlan
<1>5. ASSUME NEW p \in Plans, NEW v \in Vaults, NEW a \in Users, NEW t \in Users,
             NEW c \in Contexts, CreateDeparturePlan(p, v, a, t, c)
      PROVE  IInv' /\ KeepsData
  BY <1>5, PlanCreated DEF CreateDeparturePlan
<1>6. ASSUME NEW p \in Plans, NEW kind \in Kinds, Stage(p, kind)
      PROVE  IInv' /\ KeepsData
  BY <1>6, PlanStaged
<1>7. ASSUME NEW p \in Plans, Abandon(p) \/ Expire(p) \/ Cleanup(p)
      PROVE  IInv' /\ KeepsData
  <2>1. /\ plan[p].state # "unused"
        /\ UNCHANGED <<teamRole, role, wrap, keyVersion, vaultKey, row, held, snap, joining>>
        /\ \E s \in Terminal \cup {"deleted"} : plan' = [plan EXCEPT ![p] = Ended(p, s)]
    BY <1>7 DEF Abandon, Expire, Cleanup, Terminal
  <2> QED
    BY <2>1, PlanEnded
<1>8. ASSUME NEW P \in SUBSET Plans, Finalize(P) \/ BeginFinalize(P)
      PROVE  IInv' /\ KeepsData
  BY <1>8, FinalizePreserves, SnapshotTaken
<1>9. CASE CommitFinalize
  BY <1>9, CommitPreserves
<1>10. ASSUME NEW a \in Users, NEW t \in Users, NEW c \in Contexts, DepartWithoutVaults(a, t, c)
       PROVE  IInv' /\ KeepsData
  BY <1>10, DepartedWithoutVaults
<1>11. CASE UNCHANGED vars
  <2>1. row' \in [Entities -> Rows] /\ \A e \in Entities : RowStep(row[e], row'[e])
    BY <1>11 DEF vars, IInv, Typed, RowStep
  <2>3. UNCHANGED <<teamRole, role, wrap, keyVersion, vaultKey, plan, held, snap, joining>>
    BY <1>11 DEF vars
  <2> QED
    BY <2>1, <2>3, RowTransaction
<1> QED
  BY <1>1, <1>j, <1>2, <1>3, <1>4, <1>5, <1>6, <1>7, <1>8, <1>9, <1>10, <1>11 DEF Next, RowActions

\* ... and so holds always.
LEMMA Inductive == Spec => []IInv
BY InitIInv, StepIInv, PTL DEF Spec

\* Tables and plans keep their types: in particular a plan never has a state the
\* database does not know, and one under way keeps its manifest and members.
THEOREM TypeCorrect == Spec => []TypeOK
<1>1. IInv => TypeOK
  <2> SUFFICES ASSUME IInv PROVE TypeOK
    OBVIOUS
  <2>1. ASSUME NEW p \in Plans
        PROVE  /\ plan[p].state \in PlanStates
               /\ plan[p].state # "unused" => plan[p].vault \in Vaults
               /\ plan[p].state = "active" => plan[p] \in ActivePlans
    BY PlanShapes DEF IInv, Typed
  <2>2. ASSUME NEW p \in Plans, plan[p].state = "active"
        PROVE  /\ plan[p].context \in Contexts
               /\ plan[p].by \in Users /\ plan[p].excluded \in Users
               /\ plan[p].members \in [Users -> VaultRoles \cup {"none"}]
               /\ plan[p].manifest \in [Entities -> Rows]
               /\ plan[p].staged \subseteq Kinds
    BY <2>1, <2>2 DEF ActivePlans, Roles
  <2> QED
    BY <2>1, <2>2 DEF IInv, Typed, TypeOK, Roles, TeamRoles
<1> QED
  BY <1>1, Inductive, PTL

\* The key of the latest finalized rotation of a vault was never given to anyone
\* who is not a member: also with late writers, whose rows may be under older
\* keys, and with commits that fall inside the finalizing transaction.
THEOREM NewKeyAlwaysSecret == Spec => []NewKeyIsSecret
<1>1. IInv => NewKeyIsSecret
  BY DEF IInv
<1> QED
  BY <1>1, Inductive, PTL

\* A finalization never puts back an older content of a row, whoever writes while
\* it is prepared or commits; nor does any other step.
THEOREM RotationAlwaysKeepsData == Spec => RotationKeepsData
<1>1. IInv /\ [Next]_vars => [KeepsData]_vars
  BY StepIInv
<1> QED
  BY <1>1, Inductive, PTL DEF Spec, RotationKeepsData, KeepsData

\* Apart from creation a plan stays what it is for as long as it is under way.
LEMMA PlansSteady ==
    ASSUME IInv, [Next]_vars, NEW p \in Plans, plan[p].state # "unused",
           plan'[p].state = "active"
    PROVE  /\ plan[p].state = "active" /\ plan'[p].vault = plan[p].vault
           /\ plan'[p].excluded = plan[p].excluded /\ plan'[p].context = plan[p].context
<1>0. plan \in [Plans -> PlanRecords]
  BY DEF IInv, Typed
<1>1. CASE plan' = plan
  BY <1>1
<1>2. ASSUME NEW q \in Plans, NEW s \in Terminal \cup {"deleted"},
             plan' = [plan EXCEPT ![q] = Ended(q, s)]
      PROVE  plan'[p] = plan[p]
  BY <1>0, <1>2 DEF Ended, Terminal
<1>3. ASSUME NEW q \in Plans, NEW kind \in Kinds, Stage(q, kind)
      PROVE  plan'[p] = plan[p] \/ plan'[p] = [plan[p] EXCEPT !.staged = @ \cup {kind}]
  BY <1>0, <1>3 DEF Stage
<1>4. ASSUME NEW q \in Plans, NEW y, plan[q] = NoPlan, plan' = [plan EXCEPT ![q] = y]
      PROVE  plan'[p] = plan[p]
  BY <1>0, <1>4 DEF NoPlan
<1>5. ASSUME NEW P \in SUBSET Plans, NEW r, NEW e, NEW kv, FinalizeSeeing(P, r, e, kv)
      PROVE  plan'[p] = plan[p]
  <2>1. CASE Apply(P, r, e)
    BY <2>1 DEF Apply, Ended
  <2>2. CASE \E q \in P : plan' = [plan EXCEPT ![q] = Ended(q, "stale")]
    BY <1>2, <2>2 DEF Terminal
  <2> QED
    BY <1>5, <2>1, <2>2 DEF FinalizeSeeing
<1>6. snap.plans \in SUBSET Plans
  BY DEF IInv, SnapshotPlans
<1>s. ASSUME NEW kind \in Kinds, plan'[p] = [plan[p] EXCEPT !.staged = @ \cup {kind}]
      PROVE  /\ plan[p].state = "active" /\ plan'[p].vault = plan[p].vault
             /\ plan'[p].excluded = plan[p].excluded /\ plan'[p].context = plan[p].context
  BY <1>0, <1>s
<1>7. \/ plan' = plan
      \/ \E q \in Plans, s \in Terminal \cup {"deleted"} : plan' = [plan EXCEPT ![q] = Ended(q, s)]
      \/ \E q \in Plans, kind \in Kinds : Stage(q, kind)
      \/ \E q \in Plans : plan[q] = NoPlan /\ \E y : plan' = [plan EXCEPT ![q] = y]
      \/ \E P \in SUBSET Plans : \E r, e, kv : FinalizeSeeing(P, r, e, kv)
  <2>1. CASE UNCHANGED vars
    BY <2>1 DEF vars
  <2>2. ASSUME NEW q \in Plans, Abandon(q) \/ Expire(q) \/ Cleanup(q)
        PROVE  \E s \in Terminal \cup {"deleted"} : plan' = [plan EXCEPT ![q] = Ended(q, s)]
    BY <2>2 DEF Abandon, Expire, Cleanup, Terminal
  <2>3. ASSUME NEW P \in SUBSET Plans, Finalize(P) \/ BeginFinalize(P)
        PROVE  plan' = plan \/ FinalizeSeeing(P, role, row, keyVersion)
    BY <2>3 DEF Finalize, BeginFinalize
  <2>4. CASE CommitFinalize
    BY <1>6, <2>4 DEF CommitFinalize
  <2>5. ASSUME NEW q \in Plans, NEW v \in Vaults, NEW a \in Users, NEW t \in Users,
               \/ CreateRemovalPlan(q, v, a, t)
               \/ \E c \in Contexts \ {"removal"} : CreateDeparturePlan(q, v, a, t, c)
        PROVE  plan[q] = NoPlan /\ \E y : plan' = [plan EXCEPT ![q] = y]
    BY <2>5 DEF CreateRemovalPlan, CreateDeparturePlan
  <2>6. CASE RowActions
    BY <2>6 DEF RowActions, CreateItem, MoveItem, UpdateItem, FavoriteItem, DeleteItem,
                TrashItem, RestoreItem, CreateAttachment, DeleteAttachment
  <2>7. CASE \/ \E v \in Vaults, a, t \in Users, r \in GrantableRoles :
                  RequestJoin(v, a, t, r) \/ UpdateRole(v, a, t, r)
             \/ \E j \in joining : AddMember(j) \/ DropJoin(j)
             \/ \E v \in Vaults, u \in Users : Rewrap(v, u)
             \/ \E a, t \in Users, c \in Contexts \ {"removal"} : DepartWithoutVaults(a, t, c)
    BY <2>7 DEF RequestJoin, UpdateRole, AddMember, DropJoin, Rewrap, DepartWithoutVaults
  <2> QED
    BY <2>1, <2>2, <2>3, <2>4, <2>5, <2>6, <2>7 DEF Next, RowActions
<1> QED
  BY <1>1, <1>2, <1>3, <1>4, <1>5, <1>7, <1>s

\* So a snapshot keeps covering the departures it names.
LEMMA SnapshotStaysCovering ==
    ASSUME IInv, SnapshotCovers, [Next]_vars
    PROVE  SnapshotCovers'
<1>1. CASE snap' = snap
  <2> SUFFICES ASSUME \A p \in snap.plans : plan'[p].state = "active"
               PROVE  CoversDepartures(snap.plans, snap.role)'
    BY <1>1 DEF SnapshotCovers
  <2>1. \A p \in snap.plans :
          /\ plan[p].state = "active" /\ plan'[p].vault = plan[p].vault
          /\ plan'[p].excluded = plan[p].excluded /\ plan'[p].context = plan[p].context
    BY PlansSteady DEF IInv, SnapshotPlans
  <2>2. CoversDepartures(snap.plans, snap.role)
    BY <2>1 DEF SnapshotCovers
  <2> QED
    BY <1>1, <2>1, <2>2 DEF CoversDepartures
<1>2. CASE snap' = NoSnap
  BY <1>2 DEF SnapshotCovers, CoversDepartures, NoSnap
<1>3. ASSUME NEW P \in SUBSET Plans, BeginFinalize(P)
      PROVE  SnapshotCovers'
  <2>1. CoversDepartures(P, role)
    BY <1>3, AuthorizedPlans DEF BeginFinalize
  <2>2. plan' = plan /\ snap'.plans = P /\ snap'.role = role
    BY <1>3 DEF BeginFinalize
  <2> QED
    BY <2>1, <2>2 DEF SnapshotCovers, CoversDepartures
<1>4. snap' = snap \/ snap' = NoSnap \/ \E P \in SUBSET Plans : BeginFinalize(P)
  <2>1. CASE UNCHANGED vars
    BY <2>1 DEF vars
  <2>2. CASE RowActions
    BY <2>2 DEF RowActions, CreateItem, MoveItem, UpdateItem, FavoriteItem, DeleteItem,
                TrashItem, RestoreItem, CreateAttachment, DeleteAttachment
  <2>3. CASE \/ \E v \in Vaults, a, t \in Users, r \in GrantableRoles :
                  RequestJoin(v, a, t, r) \/ UpdateRole(v, a, t, r)
             \/ \E j \in joining : AddMember(j) \/ DropJoin(j)
             \/ \E v \in Vaults, u \in Users : Rewrap(v, u)
             \/ \E a, t \in Users, c \in Contexts \ {"removal"} : DepartWithoutVaults(a, t, c)
    BY <2>3 DEF RequestJoin, UpdateRole, AddMember, DropJoin, Rewrap, DepartWithoutVaults
  <2>4. CASE \/ \E p \in Plans, v \in Vaults, a, t \in Users : CreateRemovalPlan(p, v, a, t)
             \/ \E p \in Plans, v \in Vaults, a, t \in Users, c \in Contexts \ {"removal"} :
                  CreateDeparturePlan(p, v, a, t, c)
             \/ \E p \in Plans, kind \in Kinds : Stage(p, kind)
             \/ \E p \in Plans : Abandon(p) \/ Expire(p) \/ Cleanup(p)
    BY <2>4 DEF CreateRemovalPlan, CreateDeparturePlan, Stage, Abandon, Expire, Cleanup
  <2>5. CASE \/ \E P \in SUBSET Plans \ {{}} : Finalize(P) \/ BeginFinalize(P)
             \/ CommitFinalize
    BY <2>5 DEF Finalize, CommitFinalize
  <2> QED
    BY <2>1, <2>2, <2>3, <2>4, <2>5 DEF Next, RowActions
<1> QED
  BY <1>1, <1>2, <1>3, <1>4

\* The strengthened invariant of the departures.
LEMMA SnapshotsCover == Spec => [](IInv /\ SnapshotCovers)
<1>1. Init => SnapshotCovers
  BY DEF Init, SnapshotCovers, CoversDepartures, NoSnap
<1> QED
  BY <1>1, InitIInv, StepIInv, SnapshotStaysCovering, PTL DEF Spec

\* A Member leaves the team together with every key row the departing transaction
\* sees, or not at all, whatever is added, staged or abandoned meanwhile; the only
\* way a User outside the team comes to hold a row is an add that was checked
\* before the departure or falls inside its snapshot.
THEOREM DeparturesTakeAll == Spec => DepartureTakesAll
<1> DEFINE TakesAll ==
             \A u \in Users, v \in Vaults :
               teamRole'[u] = "out" /\ role'[v][u] # "none" =>
                 \/ teamRole[u] = "out" /\ role[v][u] # "none"
                 \/ \E j \in joining : j.vault = v /\ j.user = u /\ AddMember(j)
                 \/ snap # NoSnap /\ snap.role[v][u] = "none"
<1>1. ASSUME IInv, SnapshotCovers, [Next]_vars
      PROVE  TakesAll
  <2>t. role \in [Vaults -> [Users -> Roles]] /\ teamRole \in [Users -> TeamRoles]
    BY <1>1 DEF IInv, Typed
  <2>0. CASE UNCHANGED <<teamRole, role>>
    BY <2>0
  <2>1. CASE UNCHANGED vars
    BY <2>0, <2>1 DEF vars
  <2>2. CASE RowActions
    BY <2>0, <2>2 DEF RowActions, CreateItem, MoveItem, UpdateItem, FavoriteItem, DeleteItem,
                TrashItem, RestoreItem, CreateAttachment, DeleteAttachment
  <2>3. CASE \/ \E v \in Vaults, a, t \in Users, r \in GrantableRoles : RequestJoin(v, a, t, r)
             \/ \E j \in joining : DropJoin(j)
             \/ \E v \in Vaults, u \in Users : Rewrap(v, u)
    BY <2>0, <2>3 DEF RequestJoin, DropJoin, Rewrap
  <2>4. CASE \/ \E p \in Plans, v \in Vaults, a, t \in Users : CreateRemovalPlan(p, v, a, t)
             \/ \E p \in Plans, v \in Vaults, a, t \in Users, c \in Contexts \ {"removal"} :
                  CreateDeparturePlan(p, v, a, t, c)
             \/ \E p \in Plans, kind \in Kinds : Stage(p, kind)
             \/ \E p \in Plans : Abandon(p) \/ Expire(p) \/ Cleanup(p)
             \/ \E P \in SUBSET Plans : BeginFinalize(P)
    BY <2>0, <2>4 DEF CreateRemovalPlan, CreateDeparturePlan, Stage, Abandon, Expire, Cleanup,
                      BeginFinalize
  <2>5. ASSUME NEW v \in Vaults, NEW a \in Users, NEW t \in Users, NEW r \in GrantableRoles,
               UpdateRole(v, a, t, r)
        PROVE  TakesAll
    <3>1. role' = [role EXCEPT ![v][t] = r] /\ role[v][t] # "none" /\ teamRole' = teamRole
      BY <2>5 DEF UpdateRole
    <3>2. \A w \in Vaults, u \in Users : role'[w][u] # "none" => role[w][u] # "none"
      BY <2>t, <3>1
    <3> QED
      BY <3>1, <3>2
  <2>6. ASSUME NEW j \in joining, AddMember(j)
        PROVE  TakesAll
    <3>1. role' = [role EXCEPT ![j.vault][j.user] = j.role] /\ teamRole' = teamRole
      BY <2>6 DEF AddMember
    <3>2. \A w \in Vaults, u \in Users :
            (w = j.vault /\ u = j.user) \/ role'[w][u] = role[w][u]
      BY <2>t, <3>1
    <3> QED
      BY <2>6, <3>1, <3>2
  <2>7. ASSUME NEW a \in Users, NEW t \in Users, NEW c \in Contexts, DepartWithoutVaults(a, t, c)
        PROVE  TakesAll
    <3>1. /\ teamRole' = [teamRole EXCEPT ![t] = "out"] /\ role' = role
          /\ \A v \in Vaults : role[v][t] = "none"
      BY <2>7 DEF DepartWithoutVaults, VaultsOf
    <3> QED
      BY <2>t, <3>1
  <2>8. ASSUME NEW P \in SUBSET Plans, Finalize(P)
        PROVE  TakesAll
    <3>1. NoneKept(role)
      BY <1>1, <2>8, FinalizePreserves
    <3> QED
      BY <3>1 DEF NoneKept
  <2>9. CASE CommitFinalize
    <3>1. NoneKept(snap.role)
      BY <1>1, <2>9, CommitPreserves
    <3>2. snap # NoSnap
      BY <2>9 DEF CommitFinalize
    <3> QED
      BY <3>1, <3>2 DEF NoneKept
  <2> HIDE DEF TakesAll
  <2> QED
    BY <1>1, <2>1, <2>2, <2>3, <2>4, <2>5, <2>6, <2>7, <2>8, <2>9 DEF Next, RowActions
<1>2. IInv /\ SnapshotCovers /\ [Next]_vars => [TakesAll]_vars
  BY <1>1
<1> QED
  BY <1>2, SnapshotsCover, PTL DEF Spec, DepartureTakesAll

\* A rotation leaves nothing of its vault under an older key: every row and every
\* wrapped key the transaction sees is under the new one when the key changes,
\* also when the vault held rows of late writers, of several older keys, before.
THEOREM RotationsLeaveNothing == Spec => RotationLeavesNothing
<1> DEFINE Leaves ==
             \A v \in Vaults : vaultKey'[v] # vaultKey[v] =>
               /\ \A e \in Entities : row'[e].vault = v =>
                     \/ row'[e].key = vaultKey'[v]
                     \/ snap # NoSnap /\ snap.row[e].vault # v
               /\ \A u \in Users : role'[v][u] # "none" =>
                     \/ wrap'[v][u] = vaultKey'[v]
                     \/ snap # NoSnap /\ snap.role[v][u] = "none"
<1>1. ASSUME IInv, [Next]_vars
      PROVE  Leaves
  <2>0. CASE UNCHANGED vaultKey
    BY <2>0
  <2>1. CASE UNCHANGED vars
    BY <2>0, <2>1 DEF vars
  <2>2. CASE RowActions
    BY <2>0, <2>2 DEF RowActions, CreateItem, MoveItem, UpdateItem, FavoriteItem, DeleteItem,
                TrashItem, RestoreItem, CreateAttachment, DeleteAttachment
  <2>3. CASE \/ \E v \in Vaults, a, t \in Users, r \in GrantableRoles :
                  RequestJoin(v, a, t, r) \/ UpdateRole(v, a, t, r)
             \/ \E j \in joining : AddMember(j) \/ DropJoin(j)
             \/ \E v \in Vaults, u \in Users : Rewrap(v, u)
             \/ \E a, t \in Users, c \in Contexts \ {"removal"} : DepartWithoutVaults(a, t, c)
    BY <2>0, <2>3 DEF RequestJoin, UpdateRole, AddMember, DropJoin, Rewrap, DepartWithoutVaults
  <2>4. CASE \/ \E p \in Plans, v \in Vaults, a, t \in Users : CreateRemovalPlan(p, v, a, t)
             \/ \E p \in Plans, v \in Vaults, a, t \in Users, c \in Contexts \ {"removal"} :
                  CreateDeparturePlan(p, v, a, t, c)
             \/ \E p \in Plans, kind \in Kinds : Stage(p, kind)
             \/ \E p \in Plans : Abandon(p) \/ Expire(p) \/ Cleanup(p)
             \/ \E P \in SUBSET Plans : BeginFinalize(P)
    BY <2>0, <2>4 DEF CreateRemovalPlan, CreateDeparturePlan, Stage, Abandon, Expire, Cleanup,
                      BeginFinalize
  <2>5. ASSUME NEW P \in SUBSET Plans, Finalize(P)
        PROVE  Leaves
    <3>1. NothingLeft(role, row)
      BY <1>1, <2>5, FinalizePreserves
    <3> QED
      BY <3>1 DEF NothingLeft
  <2>6. CASE CommitFinalize
    <3>1. NothingLeft(snap.role, snap.row)
      BY <1>1, <2>6, CommitPreserves
    <3>2. snap # NoSnap
      BY <2>6 DEF CommitFinalize
    <3> QED
      BY <3>1, <3>2 DEF NothingLeft
  <2> HIDE DEF Leaves
  <2> QED
    BY <1>1, <2>1, <2>2, <2>3, <2>4, <2>5, <2>6 DEF Next, RowActions
<1>2. IInv /\ [Next]_vars => [Leaves]_vars
  BY <1>1
<1> QED
  BY <1>2, Inductive, PTL DEF Spec, RotationLeavesNothing
=============================================================================
