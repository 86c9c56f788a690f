--------------------------- MODULE VaultRotation ---------------------------
(***************************************************************************)
(* Vault membership, vault key rotation and Member departure.              *)
(*                                                                         *)
(* The server stores, per vault, one wrapped vault key and one role per    *)
(* member (vault_key), the items and attachments sealed under the vault    *)
(* key, and a key version.  Nobody is removed without a rotation: a plan   *)
(* snapshots the vault, the initiator's client re-encrypts the snapshot    *)
(* page by page under a key it generates, and finalization revalidates the *)
(* snapshot against the tables and applies everything in one transaction.  *)
(* Meanwhile every other member keeps writing.                             *)
(*                                                                         *)
(* A key is named after what introduced it: the vault it was created with, *)
(* or the plan whose client generated it.  The server sees none of them;   *)
(* key fields and the variables vaultKey and held are what an observer of  *)
(* the clients knows.                                                      *)
(***************************************************************************)
EXTENDS Integers, FiniteSets

CONSTANTS
    Users, Vaults,
    Items, Attachments, \* rows of item and of item_attachment
    Parent,             \* the item an attachment belongs to
    Plans,              \* identities of rotation plans
    Policies,           \* which of the policies that use plans are exercised
    Founder,            \* the user who created each vault
    TeamRole0,          \* role of each user in the team at the start
    GrantableRoles,     \* vault roles handed out
    MaxVersion,         \* bound on the version of an item
    MaxJoins,           \* bound on the requests to add a member in flight
    LateWriters,        \* may a client seal with a vault key it opened earlier?
    SnapshotGap         \* may a commit fall between the finalizing
                        \* transaction's snapshot and its locks?

Entities == Items \cup Attachments
Keys == Vaults \cup Plans
NoKey == "no_key"
NoVault == "no_vault"
NoUser == "no_user"
VaultRoles == {"owner", "admin", "member", "read_only"}
Contexts == {"removal", "voluntary", "administrative"}
Kinds == {"member", "item", "attachment"}
Terminal == {"completed", "stale", "abandoned", "expired"}
PlanStates == {"unused", "active", "deleted"} \cup Terminal

ASSUME RotationConstants ==
    /\ Parent \in [Attachments -> Items]
    /\ Policies \subseteq Contexts
    /\ Founder \in [Vaults -> Users]
    /\ TeamRole0 \in [Users -> {"owner", "admin", "member", "out"}]
    /\ \A v \in Vaults : TeamRole0[Founder[v]] # "out"
    /\ GrantableRoles \subseteq VaultRoles \ {"owner"}
    /\ MaxVersion \in Nat /\ MaxJoins \in Nat
    /\ LateWriters \in BOOLEAN /\ SnapshotGap \in BOOLEAN

ASSUME NamesDistinct ==
    /\ Vaults \cap Plans = {} /\ Items \cap Attachments = {}
    /\ NoKey \notin Keys /\ NoVault \notin Vaults /\ NoUser \notin Users

VARIABLES
    teamRole,    \* user.role in this team, "out" for a user of another team
    role,        \* vault_key.role, "none" without a row
    wrap,        \* the key sealed in vault_key.encrypted_vault_key
    keyVersion,  \* vault.key_version
    vaultKey,    \* history: the key of the latest finalized rotation
    row,         \* items and attachments: vault, version, content, key,
                 \* in the trash (items), uploader (attachments)
    plan,        \* vault_key_rotation_plan with its manifest and outputs
    held,        \* history: the vault keys the server ever gave each user
    snap,        \* what the open finalizing transaction sees
    joining      \* requests to add a member between their checks and the insert

vars == <<teamRole, role, wrap, keyVersion, vaultKey, row, plan, held, snap, joining>>
vaultVars == <<keyVersion, vaultKey>>

Rows == [vault : Vaults \cup {NoVault}, ver : Nat, data : Nat, key : Keys \cup {NoKey},
         trashed : BOOLEAN, by : Users \cup {NoUser}]
Absent == [vault |-> NoVault, ver |-> 0, data |-> 0, key |-> NoKey,
           trashed |-> FALSE, by |-> NoUser]
NewRow(v, k, u) == [vault |-> v, ver |-> 1, data |-> 1, key |-> k,
                    trashed |-> FALSE, by |-> u]
\* Identifiers are random UUIDs: one that has been deleted never comes back.
Gone == [Absent EXCEPT !.data = 1]
Joins == [vault : Vaults, user : Users, role : VaultRoles, key : Keys]
NoPlan == [state |-> "unused"]
NoSnap == [plans |-> {}]

-----------------------------------------------------------------------------
(* Authorization                                                           *)

CanManage(r) == r \in {"owner", "admin"}
CanWrite(r) == r \in {"owner", "admin", "member"}

\* member_role_violation: owners are untouchable, admins by the owner only.
MayManage(actor, target) ==
    /\ CanManage(actor)
    /\ target # "owner"
    /\ ~ (actor = "admin" /\ target = "admin")

Present(e) == row[e].vault # NoVault
Members(r, v) == {u \in Users : r[v][u] # "none"}
VaultsOf(r, u) == {v \in Vaults : r[v][u] # "none"}

\* authorize in departure.rs, with the administrative rule that the actor
\* manages every vault of the target.
MayDepart(context, a, t, r) ==
    /\ teamRole[a] # "out" /\ teamRole[t] # "out"
    /\ teamRole[t] # "owner"
    /\ \/ context = "voluntary" /\ a = t
       \/ /\ context = "administrative" /\ a # t
          /\ CanManage(teamRole[a])
          /\ \A v \in VaultsOf(r, t) : CanManage(r[v][a])

\* The keys a client may use to write to v.  decryptVaultKey unwraps the copy in
\* the local storage: the one the server has, or one that was replaced since by a
\* rotation the client has not heard of.
KeysOf(v) == {v} \cup {p \in Plans : plan[p].state # "unused" /\ plan[p].vault = v}
SealingKeys(v, u) == IF LateWriters THEN held[u] \cap KeysOf(v) ELSE {wrap[v][u]}

-----------------------------------------------------------------------------
Init ==
    /\ teamRole = TeamRole0
    /\ role = [v \in Vaults |-> [u \in Users |->
                  IF u = Founder[v] THEN "owner" ELSE "none"]]
    /\ wrap = [v \in Vaults |-> [u \in Users |->
                  IF u = Founder[v] THEN v ELSE NoKey]]
    /\ keyVersion = [v \in Vaults |-> 1]
    /\ vaultKey = [v \in Vaults |-> v]
    /\ row = [e \in Entities |-> Absent]
    /\ plan = [p \in Plans |-> NoPlan]
    /\ held = [u \in Users |-> {v \in Vaults : u = Founder[v]}]
    /\ snap = NoSnap
    /\ joining = {}

-----------------------------------------------------------------------------
(* Members                                                                 *)

\* add_vault_member first reads, one statement after the other, the actor's role,
\* the target's team and whether the target is a member already.  The table has no
\* unique key; two adds of one user into one vault at a time are not modelled.
RequestJoin(v, a, t, r) ==
    /\ Cardinality(joining) < MaxJoins
    /\ \A j \in joining : ~ (j.vault = v /\ j.user = t)
    /\ CanManage(role[v][a])
    /\ teamRole[t] # "out"
    /\ role[v][t] = "none"
    /\ \E k \in SealingKeys(v, a) :
         joining' = joining \cup {[vault |-> v, user |-> t, role |-> r, key |-> k]}
    /\ UNCHANGED <<teamRole, role, wrap, keyVersion, vaultKey, row, plan, held, snap>>

\* Its transaction then inserts the key row and checks nothing again.  (Without
\* late writers no rotation overtakes a request that carries the replaced key.)
AddMember(j) ==
    /\ j \in joining
    /\ LateWriters \/ j.key = vaultKey[j.vault]
    /\ role' = [role EXCEPT ![j.vault][j.user] = j.role]
    /\ wrap' = [wrap EXCEPT ![j.vault][j.user] = j.key]
    /\ held' = [held EXCEPT ![j.user] = @ \cup {j.key}]
    /\ joining' = joining \ {j}
    /\ UNCHANGED <<teamRole, keyVersion, vaultKey, row, plan, snap>>

\* A statement fails, or the handler is dropped, before the insert commits.
DropJoin(j) ==
    /\ j \in joining
    /\ joining' = joining \ {j}
    /\ UNCHANGED <<teamRole, role, wrap, keyVersion, vaultKey, row, plan, held, snap>>

UpdateRole(v, a, t, r) ==
    /\ a # t
    /\ role[v][t] # "none"
    /\ MayManage(role[v][a], role[v][t])
    /\ role' = [role EXCEPT ![v][t] = r]
    /\ UNCHANGED <<teamRole, wrap, keyVersion, vaultKey, row, plan, held, snap, joining>>

\* A changed password, secret key or recovery: the client sends its vault keys
\* wrapped anew, and each replaces the stored one.
Rewrap(v, u) ==
    /\ role[v][u] # "none"
    /\ \E k \in SealingKeys(v, u) : wrap' = [wrap EXCEPT ![v][u] = k]
    /\ UNCHANGED <<teamRole, role, keyVersion, vaultKey, row, plan, held, snap, joining>>

-----------------------------------------------------------------------------
(* Items and attachments                                                   *)

CreateItem(i, v, u) ==
    /\ row[i] = Absent
    /\ CanWrite(role[v][u])
    /\ \E k \in SealingKeys(v, u) :
         row' = [row EXCEPT ![i] = NewRow(v, k, NoUser)]
    /\ UNCHANGED <<teamRole, role, wrap, keyVersion, vaultKey, plan, held, snap, joining>>

\* The client seals under the key that opened the version it names in If-Match,
\* so a row re-encrypted meanwhile refuses the update.  An item in the trash may
\* be updated.
UpdateItem(i, u) ==
    /\ Present(i)
    /\ CanWrite(role[row[i].vault][u])
    /\ row[i].ver < MaxVersion
    /\ row' = [row EXCEPT ![i].ver = @ + 1, ![i].data = @ + 1]
    /\ UNCHANGED <<teamRole, role, wrap, keyVersion, vaultKey, plan, held, snap, joining>>

\* A new version of the same ciphertext; so are TrashItem and RestoreItem.
FavoriteItem(i, u) ==
    /\ Present(i)
    /\ CanWrite(role[row[i].vault][u])
    /\ row[i].ver < MaxVersion
    /\ row' = [row EXCEPT ![i].ver = @ + 1]
    /\ UNCHANGED <<teamRole, role, wrap, keyVersion, vaultKey, plan, held, snap, joining>>

\* delete_vault_item does not ask whether the item is in the trash already.
TrashItem(i, u) ==
    /\ Present(i)
    /\ CanWrite(role[row[i].vault][u])
    /\ row[i].ver < MaxVersion
    /\ row' = [row EXCEPT ![i].ver = @ + 1, ![i].trashed = TRUE]
    /\ UNCHANGED <<teamRole, role, wrap, keyVersion, vaultKey, plan, held, snap, joining>>

RestoreItem(i, u) ==
    /\ Present(i) /\ row[i].trashed
    /\ CanWrite(role[row[i].vault][u])
    /\ row[i].ver < MaxVersion
    /\ row' = [row EXCEPT ![i].ver = @ + 1, ![i].trashed = FALSE]
    /\ UNCHANGED <<teamRole, role, wrap, keyVersion, vaultKey, plan, held, snap, joining>>

\* The row changes vault and ciphertext; its attachments stay where they are.
\* Nothing keeps a client from naming one vault as source and target.
MoveItem(i, v, u) ==
    /\ Present(i) /\ ~ row[i].trashed
    /\ CanWrite(role[row[i].vault][u]) /\ CanWrite(role[v][u])
    /\ row[i].ver < MaxVersion
    /\ \E k \in SealingKeys(v, u) :
         row' = [row EXCEPT ![i].vault = v, ![i].ver = @ + 1, ![i].key = k]
    /\ UNCHANGED <<teamRole, role, wrap, keyVersion, vaultKey, plan, held, snap, joining>>

\* Permanent deletion; the foreign key takes the attachments along.
DeleteItem(i, u) ==
    /\ Present(i) /\ row[i].trashed
    /\ CanWrite(role[row[i].vault][u])
    /\ row' = [e \in Entities |->
                 IF e = i \/ (e \in Attachments /\ Parent[e] = i) THEN Gone ELSE row[e]]
    /\ UNCHANGED <<teamRole, role, wrap, keyVersion, vaultKey, plan, held, snap, joining>>

CreateAttachment(a, u) ==
    LET v == row[Parent[a]].vault IN
    /\ row[a] = Absent /\ Present(Parent[a])
    /\ CanWrite(role[v][u])
    /\ \E k \in SealingKeys(v, u) :
         row' = [row EXCEPT ![a] = NewRow(v, k, u)]
    /\ UNCHANGED <<teamRole, role, wrap, keyVersion, vaultKey, plan, held, snap, joining>>

\* Members delete what they uploaded, managers anything.
DeleteAttachment(a, u) ==
    /\ Present(a)
    /\ \/ CanManage(role[row[a].vault][u])
       \/ role[row[a].vault][u] = "member" /\ row[a].by = u
    /\ row' = [row EXCEPT ![a] = Gone]
    /\ UNCHANGED <<teamRole, role, wrap, keyVersion, vaultKey, plan, held, snap, joining>>

-----------------------------------------------------------------------------
(* Rotation plans                                                          *)

\* create_plan: one REPEATABLE READ snapshot of the vault.
Snapshot(v, a, t, context) ==
    [state    |-> "active", vault |-> v, by |-> a, excluded |-> t,
     context  |-> context, expected |-> keyVersion[v],
     members  |-> [u \in Users |-> IF u = t THEN "none" ELSE role[v][u]],
     manifest |-> [e \in Entities |-> IF row[e].vault = v THEN row[e] ELSE Absent],
     staged   |-> {}]

CreateRemovalPlan(p, v, a, t) ==
    /\ plan[p] = NoPlan /\ "removal" \in Policies
    /\ a # t
    /\ role[v][a] # "none" /\ role[v][t] # "none"
    /\ MayManage(role[v][a], role[v][t])
    /\ plan' = [plan EXCEPT ![p] = Snapshot(v, a, t, "removal")]
    /\ UNCHANGED <<teamRole, role, wrap, keyVersion, vaultKey, row, held, snap, joining>>

\* The departure is authorized and its vaults are listed once; the plans are
\* then created one by one, each in a transaction of its own.
CreateDeparturePlan(p, v, a, t, context) ==
    /\ plan[p] = NoPlan /\ context \in Policies
    /\ \/ MayDepart(context, a, t, role) /\ role[v][t] # "none"
       \/ \E q \in Plans : /\ plan[q].state = "active" /\ plan[q].by = a
                           /\ plan[q].excluded = t /\ plan[q].context = context
    /\ plan' = [plan EXCEPT ![p] = Snapshot(v, a, t, context)]
    /\ UNCHANGED <<teamRole, role, wrap, keyVersion, vaultKey, row, held, snap, joining>>

\* load_active_plan: the plan is alive and its initiator still a member.
Active(p) == plan[p].state = "active" /\ role[plan[p].vault][plan[p].by] # "none"

Covers(p, kind) ==
    CASE kind = "member"     -> {u \in Users : plan[p].members[u] # "none"}
      [] kind = "item"       -> {i \in Items : plan[p].manifest[i] # Absent}
      [] kind = "attachment" -> {a \in Attachments : plan[p].manifest[a] # Absent}

\* The pages of one kind, re-encrypted by the client with the key it has for
\* the vault; a record that key does not open ends the ceremony (Abandon).
Stage(p, kind) ==
    /\ Active(p)
    /\ kind \notin plan[p].staged /\ Covers(p, kind) # {}
    /\ kind # "member" =>
         /\ Covers(p, "member") # {} => "member" \in plan[p].staged
         /\ \A e \in Covers(p, kind) :
              plan[p].manifest[e].key = wrap[plan[p].vault][plan[p].by]
    /\ plan' = [plan EXCEPT ![p].staged = @ \cup {kind}]
    /\ UNCHANGED <<teamRole, role, wrap, keyVersion, vaultKey, row, held, snap, joining>>

\* The manifest and the outputs of a plan that has ended are never read again.
Ended(p, state) == [state |-> state, vault |-> plan[p].vault]

Abandon(p) ==
    /\ plan[p].state = "active"
    /\ plan' = [plan EXCEPT ![p] = Ended(p, "abandoned")]
    /\ UNCHANGED <<teamRole, role, wrap, keyVersion, vaultKey, row, held, snap, joining>>

\* Mutant: a state the database enum does not have.
Expire_UnknownState(p) ==
    /\ plan[p].state = "active"
    /\ plan' = [plan EXCEPT ![p] = Ended(p, "timed_out")]
    /\ UNCHANGED <<teamRole, role, wrap, keyVersion, vaultKey, row, held, snap, joining>>

\* The idle or the absolute lifetime of the plan has passed.
Expire(p) ==
    /\ plan[p].state = "active"
    /\ plan' = [plan EXCEPT ![p] = Ended(p, "expired")]
    /\ UNCHANGED <<teamRole, role, wrap, keyVersion, vaultKey, row, held, snap, joining>>

\* cleanup_rotation_plans: manifest and outputs go with the plan.
Cleanup(p) ==
    /\ plan[p].state \in Terminal
    /\ plan' = [plan EXCEPT ![p] = Ended(p, "deleted")]
    /\ UNCHANGED <<teamRole, role, wrap, keyVersion, vaultKey, row, held, snap, joining>>

-----------------------------------------------------------------------------
(* Finalization                                                            *)

Complete(p) == \A kind \in Kinds : kind \in plan[p].staged \/ Covers(p, kind) = {}

\* Mutant: members may join while the plan is prepared.
Fresh_NoMemberSet(p, r, e, kv) ==
    LET v == plan[p].vault IN
    /\ kv[v] = plan[p].expected
    /\ \A x \in Entities :
         IF e[x].vault = v THEN plan[p].manifest[x].ver = e[x].ver
                           ELSE plan[p].manifest[x] = Absent

\* Mutant: attachments are not compared.
Fresh_NoAttachments(p, r, e, kv) ==
    LET v == plan[p].vault IN
    /\ kv[v] = plan[p].expected
    /\ \A u \in Users \ {plan[p].excluded} : r[v][u] = plan[p].members[u]
    /\ \A x \in Items :
         IF e[x].vault = v THEN plan[p].manifest[x].ver = e[x].ver
                           ELSE plan[p].manifest[x] = Absent

\* Mutant: rows new to the vault are noticed, changed rows are not.
Fresh_NoVersions(p, r, e, kv) ==
    LET v == plan[p].vault IN
    /\ kv[v] = plan[p].expected
    /\ \A u \in Users \ {plan[p].excluded} : r[v][u] = plan[p].members[u]
    /\ \A x \in Entities : e[x].vault = v <=> plan[p].manifest[x] # Absent

\* The three comparisons of finalize_locked_plan, in the state the
\* transaction sees: key version, member set with roles, entity versions.
Fresh(p, r, e, kv) ==
    LET v == plan[p].vault IN
    /\ kv[v] = plan[p].expected
    /\ \A u \in Users \ {plan[p].excluded} : r[v][u] = plan[p].members[u]
    /\ \A x \in Entities :
         IF e[x].vault = v THEN plan[p].manifest[x].ver = e[x].ver
                           ELSE plan[p].manifest[x] = Absent

\* Mutant: exact_plan_set lets a departure leave a vault out.
Authorized_PartialCover(P, r) ==
    /\ \A p \in P : plan[p].state = "active"
    /\ \E a, t \in Users, c \in Contexts :
         /\ \A p \in P : plan[p].by = a /\ plan[p].excluded = t /\ plan[p].context = c
         /\ IF c = "removal"
            THEN \E p \in P : /\ P = {p}
                              /\ r[plan[p].vault][t] # "none"
                              /\ a # t /\ MayManage(r[plan[p].vault][a], r[plan[p].vault][t])
            ELSE /\ MayDepart(c, a, t, r)
                 /\ \A p, q \in P : plan[p].vault = plan[q].vault => p = q
                 /\ {plan[p].vault : p \in P} \subseteq VaultsOf(r, t)

\* The plans one finalize request may name, and the policy checks made before
\* any of them is applied.  A departure names one plan per vault of the target.
Authorized(P, r) ==
    /\ \A p \in P : plan[p].state = "active"
    /\ \E a, t \in Users, c \in Contexts :
         /\ \A p \in P : plan[p].by = a /\ plan[p].excluded = t /\ plan[p].context = c
         /\ IF c = "removal"
            THEN \E p \in P : /\ P = {p}
                              /\ r[plan[p].vault][t] # "none"
                              /\ a # t /\ MayManage(r[plan[p].vault][a], r[plan[p].vault][t])
            ELSE /\ MayDepart(c, a, t, r)
                 /\ \A p, q \in P : plan[p].vault = plan[q].vault => p = q
                 /\ {plan[p].vault : p \in P} = VaultsOf(r, t)

\* What the transaction writes.  The excluded member's row goes, and the staged
\* wraps replace those of the members they were made for.
Rotated(P) == {plan[p].vault : p \in P}
PlanFor(P, v) == CHOOSE p \in P : plan[p].vault = v
Receives(p, u, r) == plan[p].members[u] # "none" /\ r[plan[p].vault][u] # "none"

ApplyMembers(P, r) ==
    /\ role' = [v \in Vaults |-> [u \in Users |->
                  IF v \in Rotated(P) /\ u = plan[PlanFor(P, v)].excluded
                  THEN "none" ELSE role[v][u]]]
    /\ wrap' = [v \in Vaults |-> [u \in Users |->
                  IF v \notin Rotated(P) THEN wrap[v][u]
                  ELSE LET p == PlanFor(P, v) IN
                       IF u = plan[p].excluded THEN NoKey
                       ELSE IF Receives(p, u, r) THEN p ELSE wrap[v][u]]]
    /\ held' = [u \in Users |-> held[u] \cup
                  {p \in P : u # plan[p].excluded /\ Receives(p, u, r)}]

\* Staged ciphertexts and envelopes replace what they were computed from.
ApplyRows(P, e) ==
    row' = [x \in Entities |->
              IF e[x].vault \in Rotated(P) /\ plan[PlanFor(P, e[x].vault)].manifest[x] # Absent
              THEN LET p == PlanFor(P, e[x].vault) IN
                   [row[x] EXCEPT !.ver = @ + 1, !.key = p, !.data = plan[p].manifest[x].data]
              ELSE row[x]]

ApplyVault(P) ==
    /\ keyVersion' = [v \in Vaults |-> IF v \in Rotated(P) THEN keyVersion[v] + 1
                                                           ELSE keyVersion[v]]
    /\ vaultKey' = [v \in Vaults |-> IF v \in Rotated(P) THEN PlanFor(P, v) ELSE vaultKey[v]]

\* A departing Member leaves the team in the same transaction.
ApplyTeam(P) ==
    teamRole' = [u \in Users |->
                   IF \E p \in P : plan[p].context # "removal" /\ plan[p].excluded = u
                   THEN "out" ELSE teamRole[u]]

Apply(P, r, e) ==
    /\ ApplyMembers(P, r) /\ ApplyRows(P, e) /\ ApplyVault(P) /\ ApplyTeam(P)
    /\ plan' = [p \in Plans |-> IF p \in P THEN Ended(p, "completed") ELSE plan[p]]

\* Mutant: a stale plan keeps the removal and rolls back the rotation only.
FinalizeSeeing_NoRollback(P, r, e, kv) ==
    \/ /\ \A p \in P : Active(p) /\ Complete(p) /\ Fresh(p, r, e, kv)
       /\ Apply(P, r, e)
    \/ /\ \E p \in P : /\ Active(p) /\ ~ Fresh(p, r, e, kv)
                       /\ role' = [role EXCEPT ![plan[p].vault][plan[p].excluded] = "none"]
                       /\ plan' = [plan EXCEPT ![p] = Ended(p, "stale")]
       /\ UNCHANGED <<teamRole, wrap, keyVersion, vaultKey, row, held>>

\* The transaction sees r, e, kv.  It applies every plan, or rolls back and
\* records the first stale one it met; an incomplete plan leaves no trace.
FinalizeSeeing(P, r, e, kv) ==
    \/ /\ \A p \in P : Active(p) /\ Complete(p) /\ Fresh(p, r, e, kv)
       /\ Apply(P, r, e)
    \/ /\ \E p \in P : /\ Active(p) /\ ~ Fresh(p, r, e, kv)
                       /\ kv[plan[p].vault] = plan[p].expected => Complete(p)
                       /\ plan' = [plan EXCEPT ![p] = Ended(p, "stale")]
       /\ UNCHANGED <<teamRole, role, wrap, keyVersion, vaultKey, row, held>>

\* Without the gap the transaction is atomic.
Finalize(P) ==
    /\ ~ SnapshotGap
    /\ Authorized(P, role)
    /\ FinalizeSeeing(P, role, row, keyVersion)
    /\ UNCHANGED <<snap, joining>>

\* A Member without a team vault departs with an empty list of plans.
DepartWithoutVaults(a, t, context) ==
    /\ context \in Policies
    /\ MayDepart(context, a, t, role)
    /\ VaultsOf(role, t) = {}
    /\ teamRole' = [teamRole EXCEPT ![t] = "out"]
    /\ UNCHANGED <<role, wrap, keyVersion, vaultKey, row, plan, held, snap, joining>>

\* A SERIALIZABLE transaction sees its first statement's snapshot throughout.
BeginFinalize(P) ==
    /\ SnapshotGap
    /\ snap = NoSnap
    /\ Authorized(P, role)
    /\ snap' = [plans |-> P, role |-> role, row |-> row, keyVersion |-> keyVersion]
    /\ UNCHANGED <<teamRole, role, wrap, keyVersion, vaultKey, row, plan, held, joining>>

\* Rows of the snapshot that another transaction has changed or deleted make
\* the locks and updates fail; rows inserted since are neither seen nor locked.
Serializable ==
    /\ \A p \in snap.plans : plan[p].state = "active"
    /\ \A v \in {plan[p].vault : p \in snap.plans} :
         /\ keyVersion[v] = snap.keyVersion[v]
         /\ \A u \in Users : snap.role[v][u] # "none" => role[v][u] = snap.role[v][u]
         /\ \A x \in Entities : snap.row[x].vault = v => row[x] = snap.row[x]

CommitFinalize ==
    /\ snap # NoSnap
    /\ IF Serializable
       THEN FinalizeSeeing(snap.plans, snap.role, snap.row, snap.keyVersion)
       ELSE UNCHANGED <<teamRole, role, wrap, keyVersion, vaultKey, row, plan, held>>
    /\ snap' = NoSnap
    /\ UNCHANGED joining

-----------------------------------------------------------------------------
Next ==
    \/ \E v \in Vaults, a, t \in Users, r \in GrantableRoles :
         RequestJoin(v, a, t, r) \/ UpdateRole(v, a, t, r)
    \/ \E j \in joining : AddMember(j) \/ DropJoin(j)
    \/ \E v \in Vaults, u \in Users : Rewrap(v, u)
    \/ \E i \in Items, v \in Vaults, u \in Users : CreateItem(i, v, u) \/ MoveItem(i, v, u)
    \/ \E i \in Items, u \in Users :
         \/ UpdateItem(i, u) \/ FavoriteItem(i, u) \/ DeleteItem(i, u)
         \/ TrashItem(i, u) \/ RestoreItem(i, u)
    \/ \E a \in Attachments, u \in Users : CreateAttachment(a, u) \/ DeleteAttachment(a, u)
    \/ \E p \in Plans, v \in Vaults, a, t \in Users : CreateRemovalPlan(p, v, a, t)
    \/ \E p \in Plans, v \in Vaults, a, t \in Users, c \in Contexts \ {"removal"} :
         CreateDeparturePlan(p, v, a, t, c)
    \/ \E p \in Plans, kind \in Kinds : Stage(p, kind)
    \/ \E p \in Plans : Abandon(p) \/ Expire(p) \/ Cleanup(p)
    \/ \E P \in SUBSET Plans \ {{}} : Finalize(P) \/ BeginFinalize(P)
    \/ CommitFinalize
    \/ \E a, t \in Users, c \in Contexts \ {"removal"} : DepartWithoutVaults(a, t, c)

Spec == Init /\ [][Next]_vars

-----------------------------------------------------------------------------
(* Properties                                                              *)

TypeOK ==
    /\ teamRole \in [Users -> {"owner", "admin", "member", "out"}]
    /\ role \in [Vaults -> [Users -> VaultRoles \cup {"none"}]]
    /\ wrap \in [Vaults -> [Users -> Keys \cup {NoKey}]]
    /\ keyVersion \in [Vaults -> Nat]
    /\ vaultKey \in [Vaults -> Keys]
    /\ row \in [Entities -> Rows]
    /\ held \in [Users -> SUBSET Keys]
    /\ joining \subseteq Joins
    /\ \A p \in Plans :
         /\ plan[p].state \in PlanStates
         /\ plan[p].state # "unused" => plan[p].vault \in Vaults
         /\ plan[p].state = "active" =>
              /\ plan[p].context \in Contexts
              /\ plan[p].by \in Users /\ plan[p].excluded \in Users
              /\ plan[p].members \in [Users -> VaultRoles \cup {"none"}]
              /\ plan[p].manifest \in [Entities -> Rows]
              /\ plan[p].staged \subseteq Kinds

\* Every member of a vault can open all of it: the key wrapped for each member
\* and the key each item and attachment is sealed under are one key, whatever
\* was written while plans were prepared, went stale or were finalized.
OneKey ==
    \A v \in Vaults :
        /\ \A u \in Members(role, v) : wrap[v][u] = vaultKey[v]
        /\ \A e \in Entities : row[e].vault = v => row[e].key = vaultKey[v]

\* The key of the latest rotation is known to members only, even when rows under
\* older keys slip in beside it.
NewKeyIsSecret ==
    \A v \in Vaults, u \in Users : role[v][u] = "none" => vaultKey[v] \notin held[u]

\* "someone who lost access cannot read anything written afterwards": nothing a
\* vault holds is sealed under a key ever given to someone who is no member.
RevokedCannotRead ==
    \A e \in Entities, u \in Users :
        Present(e) /\ role[row[e].vault][u] = "none" => row[e].key \notin held[u]

\* A Member leaves the team with every key row the departing transaction sees, or
\* stays with all of them ("Departure includes the required loss-of-access
\* consequences").  A User outside the team comes to hold a row only by an add that
\* was checked before the departure and is inserted after it or in its snapshot.
DepartureTakesAll ==
    [][\A u \in Users, v \in Vaults :
          teamRole'[u] = "out" /\ role'[v][u] # "none" =>
              \/ teamRole[u] = "out" /\ role[v][u] # "none"
              \/ \E j \in joining : j.vault = v /\ j.user = u /\ AddMember(j)
              \/ snap # NoSnap /\ snap.role[v][u] = "none"]_vars

\* A rotation re-encrypts all of its vault: when the key of a vault changes, every
\* row and every wrapped key its transaction sees is under the new one, whoever
\* wrote with which key while the plan was prepared.  Only what was inserted inside
\* the snapshot stays behind.
RotationLeavesNothing ==
    [][\A v \in Vaults : vaultKey'[v] # vaultKey[v] =>
          /\ \A e \in Entities : row'[e].vault = v =>
                \/ row'[e].key = vaultKey'[v]
                \/ snap # NoSnap /\ snap.row[e].vault # v
          /\ \A u \in Users : role'[v][u] # "none" =>
                \/ wrap'[v][u] = vaultKey'[v]
                \/ snap # NoSnap /\ snap.role[v][u] = "none"]_vars

\* Rotation never brings back an older content: staged ciphertexts replace only
\* the versions they were computed from.
RotationKeepsData ==
    [][\A e \in Entities : Present(e) /\ Present(e)' => row'[e].data >= row[e].data]_vars
=============================================================================
