----------------------------- MODULE SyncClient -----------------------------
(***************************************************************************)
(* One user's client following the server's sync feed: the event log and   *)
(* its pages, the push channel, the catch-up loop of the orchestrator, the *)
(* item cache with its staged full refresh, and the local item commands    *)
(* that write to the same cache.  Every await of the client that another   *)
(* part of the program can slip through is a step of its own.              *)
(*                                                                         *)
(* An item is its version: 0 stands for no row (server) or no record       *)
(* (cache).  An event is its position in the log, so the null cursor is 0; *)
(* None is the absence of a stored baseline.                               *)
(***************************************************************************)
EXTENDS Integers, Sequences, FiniteSets, FiniteSetsExt

CONSTANTS
    Items,           \* item identifiers: numbers, the bootstrap pages by identifier
    Vaults,
    VaultOf,         \* the vault of an item
    Shareable,       \* vaults the user may lose and regain
    Editable,        \* items this client edits itself
    EventLimit,      \* events in a page of /sync/changes
    BootstrapLimit,  \* items in a page of /sync/bootstrap
    NullCursor,      \* TRUE: the feed may be empty when the client first reads it
    Home,            \* a vault the user never loses
    Founded,         \* items that exist from the start, their events long expired
    MaxLog, MaxVersion,                        \* bounds on the server's history
    MaxDisturbances        \* bound on faults and on refreshes by hand

ASSUME SyncAssumption ==
    /\ \E n \in Items : Items \subseteq 1 .. n
    /\ VaultOf \in [Items -> Vaults]
    /\ Shareable \subseteq Vaults /\ Home \in Vaults \ Shareable
    /\ Editable \subseteq Items /\ Founded \subseteq Items
    /\ {EventLimit, BootstrapLimit} \subseteq Nat \ {0}
    /\ NullCursor \in BOOLEAN
    /\ {MaxLog, MaxVersion} \subseteq Nat \ {0} /\ MaxDisturbances \in Nat

VARIABLES
    ver, trash, dead, access, log, pruned,  \* server: rows, those in the trash, purged
                                      \* rows, vault keys, events, and how many expired
    conn, ping,                       \* push channel: open, a ping under way
    stored, cache, cvaults, meta, cmd,    \* what the client has on disk
    cu, again, validated,             \* the orchestrator's catch-up
    ref, queue,                       \* the full refresh under way and the one queued
    kept, missed, stranded, spent     \* history and bounds

server == <<ver, trash, dead, access, log, pruned>>
channel == <<conn, ping>>
disk == <<stored, cache, cvaults, meta, cmd>>
catchUp == <<cu, again, validated>>
refresh == <<ref, queue>>
history == <<kept, missed, stranded>>
vars == <<server, channel, disk, catchUp, refresh, history, spent>>

None == -1
Disturb == spent < MaxDisturbances /\ spent' = spent + 1

(***************************************************************************)
(* The server.                                                             *)
(***************************************************************************)

\* The version the user is served for an item, 0 where there is none.
Seen(i) == IF i \in dead \/ VaultOf[i] \notin access THEN 0 ELSE ver[i]

\* What a member of the vaults vs sees: a revocation is addressed to the user, every
\* other event to a vault's members.
VisibleIn(n, vs) ==
    /\ n \in DOMAIN log /\ n > pruned
    /\ log[n].done
    /\ log[n].kind = "revoked" \/ log[n].vault \in vs
Visible(n) == VisibleIn(n, access)

LatestIn(vs) == Max({0} \union {n \in DOMAIN log : VisibleIn(n, vs)})

EventsSince(c, vs) == {n \in DOMAIN log : n > c /\ VisibleIn(n, vs)}

\* The first rows of a query in the order of their numbers.
FirstOf(S, limit) == {n \in S : Cardinality({m \in S : m < n}) < limit}

\* The items of the page of /sync/bootstrap that starts behind item at.
BootstrapRest(at) == {i \in Items : i > at /\ Seen(i) # 0}
BootstrapPage(at) == FirstOf(BootstrapRest(at), BootstrapLimit)

Concerns(e, i) == e.of = i \/ (e.of = 0 /\ e.vault = VaultOf[i])

Open(i) == \E n \in DOMAIN log : ~log[n].done /\ log[n].of = i
Event(kind, i, v, done) == [kind |-> kind, of |-> i, vault |-> v, done |-> done]

\* A number is drawn from the sequence inside the writing transaction.
Draw(e) ==
    /\ Len(log) < MaxLog
    /\ log' = Append(log, e)

\* Every commit publishes one ping to the open streams of those it concerns.
Publish(reader) == ping' = (ping \/ (conn /\ reader))

\* Another member creates, edits, trashes or restores an item, in a transaction ...
OtherWrites(i) ==
    /\ ver[i] < MaxVersion /\ i \notin dead /\ ~Open(i)
    /\ Draw(Event("item", i, VaultOf[i], FALSE))
    /\ UNCHANGED <<ver, trash, dead, access, pruned, channel, disk, catchUp, refresh, history,
                   spent>>

\* The position from which the client will read next.
Position ==
    IF stored > 0 \/ (stored = 0 /\ validated) THEN stored ELSE meta

\* Some cursor of the client has passed event n, which nobody could see so far.
Passed(n) == \E m \in {Position, cu.cursor, ref.cursor} \union cu.events : m > n

\* ... that commits later, not always in the order in which numbers were drawn.
OtherCommits(n) ==
    LET i == log[n].of IN
    /\ ~log[n].done
    /\ log' = [log EXCEPT ![n].done = TRUE]
    /\ ver' = [ver EXCEPT ![i] = @ + 1]
    /\ trash' \in {trash \ {i}} \union (IF ver[i] = 0 THEN {} ELSE {trash \union {i}})
    /\ missed' = IF Passed(n) THEN missed \union {i} ELSE missed
    /\ Publish(log[n].vault \in access)
    /\ UNCHANGED <<dead, access, pruned, conn, disk, catchUp, refresh, kept, stranded, spent>>

\* An item that was not there when the open refresh began goes again before it ends.
CameAndGoes == {i \in Items : ref.pc # "none" /\ Seen(i) # 0 /\ ref.base[i] = 0}

\* A vault comes back while a refresh or the catch-up still holds its loss or itself.
ReturnsEarly(v) ==
    \/ v \in cvaults \union ref.basev
    \/ \E i \in Items : VaultOf[i] = v /\ ref.base[i] # 0
    \/ \E n \in EventsSince(Position, access) \union cu.events :
           log[n].kind = "revoked" /\ log[n].vault = v

ItemsOf(v) == {i \in Items : VaultOf[i] = v}

\* Permanent deletion, of what is in the trash.
OtherPurges(i) ==
    /\ ver[i] # 0 /\ i \in trash \ dead /\ ~Open(i)
    /\ Draw(Event("purged", i, VaultOf[i], TRUE))
    /\ dead' = dead \union {i}
    /\ missed' = missed \union (CameAndGoes \intersect {i})
    /\ Publish(VaultOf[i] \in access)
    /\ UNCHANGED <<ver, trash, access, pruned, conn, disk, catchUp, refresh, kept, stranded, spent>>

Revoke(v) ==
    /\ v \in access
    /\ Draw(Event("revoked", 0, v, TRUE))
    /\ access' = access \ {v}
    /\ missed' = missed \union (CameAndGoes \intersect ItemsOf(v))
    /\ Publish(TRUE)
    /\ UNCHANGED <<ver, trash, dead, pruned, conn, disk, catchUp, refresh, kept, stranded, spent>>

Share(v) ==
    /\ v \notin access
    /\ Draw(Event("shared", 0, v, TRUE))
    /\ access' = access \union {v}
    /\ missed' = IF ReturnsEarly(v) THEN missed \union ItemsOf(v) ELSE missed
    /\ Publish(TRUE)
    /\ UNCHANGED <<ver, trash, dead, pruned, conn, disk, catchUp, refresh, kept, stranded, spent>>

\* The daily job deletes the events that are older than the retention.  Where the
\* whole feed may expire, it does so under a client that is offline for all that time.
Prune(n) ==
    /\ n > pruned
    /\ \A m \in 1 .. n : log[m].done
    /\ IF NullCursor THEN ~conn /\ cu.pc = "idle" /\ ref.pc = "none"
                     ELSE \E m \in DOMAIN log : m > n /\ log[m].done /\ log[m].vault = Home
    /\ pruned' = n
    /\ missed' = IF cu.pc = "events"
                 THEN missed \union {i \in Items : \E m \in EventsSince(cu.cursor, access) :
                                                     m <= n /\ Concerns(log[m], i)}
                 ELSE missed
    /\ UNCHANGED <<ver, trash, dead, access, log, channel, disk, catchUp, refresh, kept, stranded,
                   spent>>

(***************************************************************************)
(* Full refreshes.  At most one runs; one more may be queued behind it.    *)
(* The active generation of the cache goes on changing while pages are     *)
(* staged.                                                                 *)
(***************************************************************************)

Nothing == [i \in Items |-> 0]
NoAnswer == [i \in {} |-> 0]
Pending(i) == cmd[i].st # "none"

NoRefresh ==
    [pc |-> "none", waiters |-> {}, scope |-> {}, cursor |-> 0, at |-> 0, base |-> Nothing,
     basev |-> {}, staged |-> Nothing, stagedv |-> {}, bases |-> {}]

\* A staged generation copies the active one as its baseline; the items with an
\* unsent edit are remembered as the bases of possible conflicts.
Begun(ws, items, vaults) ==
    [pc |-> "ask", waiters |-> ws, scope |-> {}, cursor |-> 0, at |-> 0,
     base |-> items, basev |-> vaults, staged |-> Nothing, stagedv |-> {},
     bases |-> {i \in Items : items[i] # 0 /\ Pending(i)}]

\* A caller who must not join a refresh that may predate it queues behind it.
RefreshAfterInFlight(w) ==
    IF ref.pc = "none"
    THEN ref' = Begun({w}, cache, cvaults) /\ UNCHANGED queue
    ELSE queue' = queue \union {w} /\ UNCHANGED ref

Idle == [pc |-> "idle", scope |-> {}, cursor |-> 0, events |-> {}, more |-> FALSE,
         got |-> NoAnswer, tries |-> 0]

\* A catch-up that throws is logged and forgotten, a request made meanwhile with it.
CatchUpThrows ==
    /\ cu' = Idle
    /\ again' = FALSE
    /\ stranded' = conn

\* The refresh settles: its waiters go on, and the queued refresh begins on what
\* the cache holds now.  The first hydration is tried three times in all.
RefreshSettles(ok, items, vaults) ==
    LET retry == ~ok /\ "catchUp" \in ref.waiters /\ cu.pc = "hydrate" /\ cu.tries < 2
        next == queue \union (IF retry THEN {"catchUp"} ELSE {})
    IN
    /\ ref' = IF next = {} THEN NoRefresh ELSE Begun(next, items, vaults)
    /\ queue' = {}
    /\ IF "catchUp" \notin ref.waiters THEN UNCHANGED <<cu, again, stranded>>
       ELSE IF ok
       THEN /\ cu' = [cu EXCEPT !.pc = IF @ = "hydrate" THEN "baseline" ELSE "apply"]
            /\ UNCHANGED <<again, stranded>>
       ELSE IF retry
       THEN /\ cu' = [cu EXCEPT !.tries = @ + 1]
            /\ UNCHANGED <<again, stranded>>
       ELSE CatchUpThrows

\* A failed refresh discards its staged generation.
RefreshFails ==
    /\ RefreshSettles(FALSE, cache, cvaults)
    /\ UNCHANGED <<server, channel, disk, validated, kept, missed>>

\* The server answers a page of the bootstrap by one statement after the other.  The
\* first page looks up the user's vaults, ...
RefreshAsks ==
    /\ ref.pc = "ask"
    /\ ref' = [ref EXCEPT !.pc = "capture", !.scope = access]
    /\ UNCHANGED <<server, channel, disk, catchUp, queue, history, spent>>

\* ... notes the newest event in them before it reads any item ...
RefreshCaptures ==
    /\ ref.pc = "capture"
    /\ ref' = [ref EXCEPT !.pc = "read", !.cursor = LatestIn(ref.scope), !.scope = {}]
    /\ UNCHANGED <<server, channel, disk, catchUp, queue, history, spent>>

RefreshPage ==
    /\ ref.pc = "read"
    /\ LET page == BootstrapPage(ref.at)
           more == page # BootstrapRest(ref.at)
       IN  ref' = [ref EXCEPT
               !.staged = [i \in Items |-> IF i \in page THEN Seen(i) ELSE @[i]],
               !.stagedv = @ \union {VaultOf[i] : i \in page},
               !.at = IF page = {} THEN @ ELSE Max(page),
               !.pc = IF more THEN "check" ELSE "promote"]
    /\ UNCHANGED <<server, channel, disk, catchUp, queue, history, spent>>

\* ... and every later page insists that this event is still visible.
RefreshChecks ==
    /\ ref.pc = "check" /\ (ref.cursor = 0 \/ Visible(ref.cursor))
    /\ ref' = [ref EXCEPT !.pc = "read"]
    /\ UNCHANGED <<server, channel, disk, catchUp, queue, history, spent>>

RefreshRefused ==
    /\ ref.pc = "check" /\ ref.cursor # 0 /\ ~Visible(ref.cursor)
    /\ RefreshFails
    /\ UNCHANGED spent

\* Mutant: deletions since the baseline are not looked at.
Promoted_Resurrects ==
    LET keeps(i) == /\ cache[i] # 0
                    /\ ref.base[i] # cache[i] \/ (ref.staged[i] # 0 /\ cache[i] > ref.staged[i])
    IN  [i \in Items |-> IF VaultOf[i] \in ref.basev \ cvaults THEN 0
                         ELSE IF keeps(i) THEN cache[i] ELSE ref.staged[i]]

\* The generation that replaces the active one: what was deleted since the baseline
\* stays deleted, what was written since stays written.
Promoted ==
    LET gone == ref.basev \ cvaults
        alive(i) == IF ref.base[i] # 0 /\ cache[i] = 0 THEN 0 ELSE ref.staged[i]
        keeps(i) == /\ cache[i] # 0
                    /\ \/ ref.base[i] # cache[i]
                       \/ alive(i) # 0 /\ cache[i] > alive(i)
    IN  [i \in Items |-> IF VaultOf[i] \in gone THEN 0
                         ELSE IF keeps(i) THEN cache[i] ELSE alive(i)]

PromotedVaults == (ref.stagedv \ (ref.basev \ cvaults)) \union (cvaults \ ref.basev)

RefreshPromotes ==
    /\ ref.pc = "promote"
    /\ cache' = Promoted
    /\ cvaults' = PromotedVaults
    /\ meta' = ref.cursor
    /\ ref' = [ref EXCEPT !.pc = "restore"]
    /\ kept' = {i \in kept : cache'[i] # 0}
    /\ UNCHANGED <<server, channel, stored, cmd, catchUp, queue, missed, stranded, spent>>

\* The bases of conflicts that the new generation lacks are put back.
RefreshRestores ==
    /\ ref.pc = "restore"
    /\ LET back == {i \in ref.bases : cache[i] = 0}
       IN  /\ cache' = [i \in Items |-> IF i \in back THEN ref.base[i] ELSE cache[i]]
           /\ kept' = kept \union back
    /\ RefreshSettles(TRUE, cache', cvaults)
    /\ UNCHANGED <<server, channel, stored, cvaults, meta, cmd, validated, missed, spent>>

\* A mutation hook asks for the authoritative state; it waits for a running hydration.
SideRefresh ==
    /\ Disturb
    /\ cu.pc # "hydrate"
    /\ RefreshAfterInFlight("side")
    /\ UNCHANGED <<server, channel, disk, catchUp, history>>

(***************************************************************************)
(* The push channel and the catch-up loop.                                 *)
(***************************************************************************)

\* Mutant: the metadata of a committed generation is not consulted.
BaselineCursor_StoredOnly == stored

\* A committed generation needs no bootstrap: its own cursor, or the stored one if
\* there is one, is where the client reads on.
BaselineCursor == IF stored > 0 THEN stored ELSE meta

\* Without a committed generation the first hydration starts a refresh, or joins the
\* one that is running.
HydrateFirst ==
    /\ cu' = [Idle EXCEPT !.pc = "hydrate"]
    /\ ref' = IF ref.pc = "none" THEN Begun({"catchUp"}, cache, cvaults)
                                 ELSE [ref EXCEPT !.waiters = @ \union {"catchUp"}]
    /\ UNCHANGED <<stored, validated>>

\* A catch-up under way is asked to go round once more instead of being doubled.
RequestCatchUp ==
    /\ IF cu.pc # "idle"
       THEN again' = TRUE /\ UNCHANGED <<cu, ref, stored, validated, stranded>>
       ELSE /\ again' = FALSE /\ stranded' = FALSE
            /\ CASE stored # None /\ validated ->
                       /\ cu' = [Idle EXCEPT !.pc = "fetch", !.cursor = stored]
                       /\ UNCHANGED <<ref, stored, validated>>
                 [] ~(stored # None /\ validated) /\ meta # None ->
                       /\ stored' = BaselineCursor /\ validated' = TRUE
                       /\ cu' = [Idle EXCEPT !.pc = "fetch", !.cursor = BaselineCursor]
                       /\ UNCHANGED ref
                 [] ~(stored # None /\ validated) /\ meta = None -> HydrateFirst
    /\ UNCHANGED <<server, cache, cvaults, meta, cmd, queue, kept, missed, spent>>

Connect ==
    /\ ~conn
    /\ conn' = TRUE
    /\ RequestCatchUp
    /\ UNCHANGED ping

PingArrives ==
    /\ ping
    /\ ping' = FALSE
    /\ RequestCatchUp
    /\ UNCHANGED conn

\* The stream ends, or no heartbeat came: the pings under way are lost.
StreamEnds ==
    /\ conn /\ Disturb
    /\ conn' = FALSE /\ ping' = FALSE
    /\ UNCHANGED <<server, disk, catchUp, refresh, history>>

CatchUpBaseline ==
    /\ cu.pc = "baseline"
    /\ stored' = meta
    /\ validated' = TRUE
    /\ cu' = [cu EXCEPT !.pc = "fetch", !.cursor = meta]
    /\ UNCHANGED <<server, channel, cache, cvaults, meta, cmd, again, refresh, history, spent>>

\* The answer of /sync/changes, one statement after the other: the user's vaults and
\* whether the cursor is visible in them, ...
CatchUpAsks ==
    /\ cu.pc = "fetch"
    /\ cu' = [cu EXCEPT !.scope = access,
                        !.pc = IF cu.cursor = 0 \/ Visible(cu.cursor) THEN "events" ELSE "latest"]
    /\ UNCHANGED <<server, channel, disk, again, validated, refresh, history, spent>>

\* Events the user may see that the cursor of a page es passes all the same.
Overtaken(es) == {n \in EventsSince(cu.cursor, access) \ es : \E m \in es : n < m}

\* ... then the events that follow in those vaults, ...
CatchUpFetches ==
    /\ cu.pc = "events"
    /\ LET all == EventsSince(cu.cursor, cu.scope)
           es  == FirstOf(all, EventLimit)
       IN  /\ cu' = [cu EXCEPT !.pc = "apply", !.scope = {}, !.events = es, !.more = es # all,
                               !.cursor = IF es = {} THEN @ ELSE Max(es)]
           /\ missed' = missed \union {i \in Items : \E n \in Overtaken(es) : Concerns(log[n], i)}
    /\ UNCHANGED <<server, channel, disk, again, validated, refresh, kept, stranded, spent>>

\* ... or the demand for a full refresh, with the newest event.
CatchUpRefused ==
    /\ cu.pc = "latest"
    /\ LET newest == LatestIn(cu.scope)
       IN  cu' = [cu EXCEPT !.pc = "refresh", !.scope = {}, !.events = {}, !.more = FALSE,
                            !.cursor = IF newest = 0 THEN @ ELSE newest]
    /\ RefreshAfterInFlight("catchUp")
    /\ UNCHANGED <<server, channel, disk, again, validated, history, spent>>

NextEvent == Min(cu.events)  \* a page is applied in order
HeadEvent == log[NextEvent]

\* The event makes the client ask for an item or a vault it has lost meanwhile: an error
\* other than 404, which ends the catch-up.
Refused(e) ==
    /\ e.vault \notin access
    /\ e.kind = "shared" \/ (e.kind = "item" /\ e.of \notin dead)

\* What the event makes the client ask the server for: the item, the vault's items,
\* of which the server lists those that are not in the trash, or nothing; 0 stands
\* for an item to remove.
Listed(v) == {i \in ItemsOf(v) : Seen(i) # 0 /\ i \notin trash}
Reconciled(e) ==
    CASE e.kind = "item"    -> [i \in {e.of} |-> Seen(i)]
      [] e.kind = "purged"  -> [i \in {e.of} |-> 0]
      [] e.kind = "shared"  -> [i \in Listed(e.vault) |-> Seen(i)]
      [] e.kind = "revoked" -> NoAnswer

EventReconciled ==
    /\ cu.pc = "apply" /\ cu.events # {}
    /\ ~Refused(HeadEvent)
    /\ cu' = [cu EXCEPT !.pc = "write", !.got = Reconciled(HeadEvent)]
    /\ missed' = IF HeadEvent.kind = "shared"
                 THEN missed \union (trash \intersect ItemsOf(HeadEvent.vault)) ELSE missed
    /\ UNCHANGED <<server, channel, disk, again, validated, refresh, kept, stranded, spent>>

EventRefused ==
    /\ cu.pc = "apply" /\ cu.events # {}
    /\ Refused(HeadEvent)
    /\ CatchUpThrows
    /\ UNCHANGED <<server, channel, disk, validated, refresh, kept, missed, spent>>

\* Mutant: the last writer wins.
WriteNewer_LastWins(i, v) == v

\* A record is only replaced by one that is not older.
WriteNewer(i, v) == IF cache[i] > v THEN cache[i] ELSE v

\* An item with an unsent edit is not removed.
Removed(i) == IF Pending(i) THEN cache[i] ELSE 0

EventWritten ==
    /\ cu.pc = "write"
    /\ LET lost == IF HeadEvent.kind = "revoked" THEN ItemsOf(HeadEvent.vault) ELSE {}
           gone == {i \in DOMAIN cu.got : cu.got[i] = 0}
       IN  /\ cache' = [i \in Items |->
                  CASE i \in lost -> 0
                    [] i \in gone -> Removed(i)
                    [] i \in DOMAIN cu.got \ gone -> WriteNewer(i, cu.got[i])
                    [] OTHER -> cache[i]]
           /\ cvaults' = IF HeadEvent.kind = "revoked" THEN cvaults \ {HeadEvent.vault} ELSE cvaults
           /\ kept' = (kept \ (lost \union DOMAIN cu.got)) \union {i \in gone : cache'[i] # 0}
    /\ cu' = [cu EXCEPT !.pc = "acknowledge"]
    /\ UNCHANGED <<server, channel, stored, meta, cmd, again, validated, refresh, missed, stranded,
                   spent>>

\* The stored cursor follows every event that was applied.
EventAcknowledged ==
    /\ cu.pc = "acknowledge"
    /\ stored' = NextEvent
    /\ cu' = [cu EXCEPT !.pc = "apply", !.events = @ \ {NextEvent}, !.got = NoAnswer]
    /\ UNCHANGED <<server, channel, cache, cvaults, meta, cmd, again, validated, refresh,
                   history, spent>>

\* Mutant: a request made during the catch-up is forgotten at its end.
PageDone_ForgetsRequest ==
    /\ cu.pc = "apply" /\ cu.events = {}
    /\ IF cu.more
       THEN cu' = [cu EXCEPT !.pc = "fetch"] /\ UNCHANGED stored
       ELSE stored' = cu.cursor /\ cu' = Idle
    /\ again' = (again /\ cu.more)
    /\ UNCHANGED <<server, channel, cache, cvaults, meta, cmd, validated, refresh, history, spent>>

\* The page is done: fetch the next one, go round again if asked to, or stop.
PageDone ==
    /\ cu.pc = "apply" /\ cu.events = {}
    /\ IF cu.more
       THEN cu' = [cu EXCEPT !.pc = "fetch"] /\ UNCHANGED stored
       ELSE /\ stored' = cu.cursor
            /\ cu' = IF again THEN [Idle EXCEPT !.pc = "fetch", !.cursor = cu.cursor] ELSE Idle
    /\ again' = (again /\ cu.more)
    /\ UNCHANGED <<server, channel, cache, cvaults, meta, cmd, validated, refresh, history, spent>>

\* A request of the catch-up fails, or one of the refresh.
RequestFails ==
    /\ Disturb
    /\ \/ /\ \/ cu.pc \in {"fetch", "events", "latest"}
             \/ cu.pc = "apply" /\ cu.events # {} /\ HeadEvent.kind # "purged"
          /\ CatchUpThrows
          /\ UNCHANGED <<server, channel, disk, validated, refresh, kept, missed>>
       \/ /\ ref.pc \in {"ask", "capture", "read", "check", "promote"}
          /\ RefreshFails

\* The client is closed and opened again: the disk is all that remains.
Restart ==
    /\ Disturb
    /\ conn' = FALSE /\ ping' = FALSE
    /\ cu' = Idle /\ again' = FALSE /\ validated' = FALSE
    /\ ref' = NoRefresh /\ queue' = {}
    /\ stranded' = FALSE
    /\ UNCHANGED <<server, disk, kept, missed>>

(***************************************************************************)
(* The client's own item commands (see OutboundQueue for how they travel). *)
(***************************************************************************)

NoCommand == [st |-> "none", v |-> 0]

Edit(i) ==
    /\ i \in Editable /\ cmd[i] = NoCommand
    /\ cache[i] # 0 /\ cache[i] < MaxVersion
    /\ cmd' = [cmd EXCEPT ![i] = [st |-> "queued", v |-> cache[i]]]
    /\ UNCHANGED <<server, channel, stored, cache, cvaults, meta, catchUp, refresh, history, spent>>

\* The server accepts the edit of the version it holds ...
Serve(i) ==
    /\ cmd[i].st = "queued" /\ ~Open(i)
    /\ Seen(i) = cmd[i].v
    /\ Draw(Event("item", i, VaultOf[i], TRUE))
    /\ ver' = [ver EXCEPT ![i] = @ + 1]
    /\ cmd' = [cmd EXCEPT ![i] = [st |-> "served", v |-> ver'[i]]]
    /\ Publish(TRUE)
    /\ UNCHANGED <<trash, dead, access, pruned, conn, stored, cache, cvaults, meta, catchUp,
                   refresh, history, spent>>

\* ... and refuses any other: the edit is kept as a copy of its own.
Refuse(i) ==
    /\ cmd[i].st = "queued" /\ ~Open(i)
    /\ Seen(i) # cmd[i].v
    /\ cmd' = [cmd EXCEPT ![i] = NoCommand]
    /\ UNCHANGED <<server, channel, stored, cache, cvaults, meta, catchUp, refresh, history, spent>>

\* The acknowledgement writes the accepted edit over its base.
Acknowledge(i) ==
    /\ cmd[i].st = "served"
    /\ cmd' = [cmd EXCEPT ![i] = NoCommand]
    /\ cache' = IF cache[i] # 0 /\ cache[i] < cmd[i].v
                THEN [cache EXCEPT ![i] = cmd[i].v] ELSE cache
    /\ missed' = IF ref.pc = "none" \/ (stored > 0 /\ cu.pc # "refresh")
                 THEN missed ELSE missed \union {i}
    /\ UNCHANGED <<server, channel, stored, cvaults, meta, catchUp, refresh, kept, stranded, spent>>

Init ==
    /\ ver = [i \in Items |-> IF i \in Founded THEN 1 ELSE 0]
    /\ trash = {} /\ dead = {} /\ pruned = 0
    /\ access \in {vs \in SUBSET Vaults : Vaults \ Shareable \subseteq vs}
    /\ log = IF NullCursor THEN <<>> ELSE <<Event("shared", 0, Home, TRUE)>>
    /\ conn = FALSE /\ ping = FALSE
    /\ stored = None /\ cache = Nothing /\ cvaults = {} /\ meta = None
    /\ cmd = [i \in Items |-> NoCommand]
    /\ cu = Idle /\ again = FALSE /\ validated = FALSE
    /\ ref = NoRefresh /\ queue = {}
    /\ kept = {} /\ missed = {} /\ stranded = FALSE
    /\ spent = 0

ServerSteps ==
    \/ \E i \in Items : OtherWrites(i) \/ OtherPurges(i) \/ Serve(i) \/ Refuse(i)
    \/ \E n \in DOMAIN log : OtherCommits(n) \/ Prune(n)
    \/ \E v \in Shareable : Revoke(v) \/ Share(v)

CatchUpSteps ==
    \/ CatchUpBaseline \/ CatchUpAsks \/ CatchUpFetches \/ CatchUpRefused
    \/ EventReconciled \/ EventRefused \/ EventWritten \/ EventAcknowledged \/ PageDone

RefreshSteps ==
    \/ RefreshAsks \/ RefreshCaptures \/ RefreshPage \/ RefreshChecks \/ RefreshRefused
    \/ RefreshPromotes \/ RefreshRestores

ClientSteps ==
    \/ Connect \/ PingArrives \/ StreamEnds \/ SideRefresh \/ RequestFails \/ Restart
    \/ \E i \in Items : Edit(i) \/ Acknowledge(i)

Next == ServerSteps \/ CatchUpSteps \/ RefreshSteps \/ ClientSteps

Spec == Init /\ [][Next]_vars

\* The client reconnects and reads its stream, and its promises settle, because every
\* request answers or fails.  Nothing is assumed of the server or of the user.
FairSpec == Spec /\ WF_vars(Connect \/ PingArrives \/ CatchUpSteps \/ RefreshSteps)
-----------------------------------------------------------------------------
Versions == 0 .. MaxVersion
Cursors == 0 .. MaxLog

TypeOK ==
    /\ ver \in [Items -> Versions] /\ trash \union dead \subseteq Items /\ access \subseteq Vaults
    /\ log \in Seq([kind : {"item", "purged", "shared", "revoked"}, of : Items \union {0},
                    vault : Vaults, done : BOOLEAN])
    /\ Len(log) <= MaxLog /\ pruned \in 0 .. Len(log)
    /\ {conn, ping, again, validated, stranded} \subseteq BOOLEAN
    /\ {stored, meta} \subseteq Cursors \union {None}
    /\ cache \in [Items -> Versions] /\ cvaults \subseteq Vaults
    /\ cmd \in [Items -> [st : {"none", "queued", "served"}, v : Versions]]
    /\ cu.pc \in {"idle", "hydrate", "baseline", "fetch", "events", "latest", "refresh",
                  "apply", "write", "acknowledge"}
    /\ cu.scope \union ref.scope \subseteq Vaults
    /\ cu.cursor \in Cursors /\ cu.events \subseteq Cursors /\ cu.more \in BOOLEAN
    /\ cu.tries \in 0 .. 2 /\ DOMAIN cu.got \subseteq Items
    /\ ref.pc \in {"none", "ask", "capture", "read", "check", "promote", "restore"}
    /\ ref.waiters \union queue \subseteq {"catchUp", "side"}
    /\ ref.cursor \in Cursors /\ ref.at \in Items \union {0}
    /\ ref.base \in [Items -> Versions] /\ ref.staged \in [Items -> Versions]
    /\ ref.basev \union ref.stagedv \subseteq Vaults
    /\ ref.bases \union kept \union missed \subseteq Items

\* The client will still learn that its version of item i is not the one served: by an
\* event behind the position it will read from, or because the server will demand a
\* full refresh of that position.
StillLearns(i) ==
    \/ cache[i] = Seen(i)
    \/ Position # 0 /\ ~Visible(Position)
    \/ \E n \in DOMAIN log : n > Position /\ Visible(n) /\ Concerns(log[n], i)

\* No change is skipped for good, except an item whose removal was put off for an unsent
\* edit, and what `missed` has noted: a write that commits after a later one the client
\* has read; a share that commits, or events that expire, between the statements of an
\* answer; a share that is taken back and repeated under a refresh, or an item that comes
\* and goes under one; an acknowledgement that writes under a refresh; and an item that
\* was in the trash of a vault when it was shared.
SkipsAccounted == meta # None => \A i \in Items \ (kept \union missed) : StillLearns(i)

\* The cache implements a copy that only moves forward, whichever of the catch-up,
\* the acknowledgements and the full refreshes writes to it.
Copy == INSTANCE VersionedCopy WITH truth <- ver, copy <- cache
CopySpec == Copy!Spec

Current == \A i \in Items \ (kept \union missed) : cache[i] = Seen(i)

\* Once the server is quiet the client comes to hold what it serves, unless a catch-up
\* failed under an open stream, after which nothing calls for another, or the change
\* was skipped in one of the ways above.
Converges == <>[](Current \/ stranded)

=============================================================================
