-------------------------- MODULE SyncClientProofs --------------------------
(***************************************************************************)
(* Theorems about SyncClient: the types of its state, and that its item    *)
(* cache implements VersionedCopy, for any items, vaults, limits and       *)
(* faults.                                                                 *)
(***************************************************************************)
EXTENDS SyncClient, FiniteSetTheorems, SequenceTheorems, WellFoundedInduction, TLAPS

(***************************************************************************)
(* The inductive invariant.                                                *)
(***************************************************************************)

Events == [kind : {"item", "purged", "shared", "revoked"}, of : Items \union {0},
           vault : Vaults, done : BOOLEAN]
Answers == UNION {[S -> Versions] : S \in SUBSET Items}
Commands == [st : {"none", "queued", "served"}, v : Versions]
CatchUps ==
    [pc : {"idle", "hydrate", "baseline", "fetch", "events", "latest", "refresh", "apply",
           "write", "acknowledge"},
     scope : SUBSET Vaults, cursor : Cursors, events : SUBSET Cursors, more : BOOLEAN, got : Answers, tries : 0 .. 2]
Callers == {"catchUp", "side"}
Refreshes ==
    [pc : {"none", "ask", "capture", "read", "check", "promote", "restore"},
     waiters : SUBSET Callers, scope : SUBSET Vaults, cursor : Cursors, at : Items \union {0},
     base : [Items -> Versions], basev : SUBSET Vaults,
     staged : [Items -> Versions], stagedv : SUBSET Vaults, bases : SUBSET Items]

ServerTyped ==
    /\ ver \in [Items -> Versions] /\ trash \subseteq Items /\ dead \subseteq Items
    /\ access \subseteq Vaults
    /\ log \in Seq(Events) /\ Len(log) <= MaxLog /\ pruned \in 0 .. Len(log)
    /\ \A n \in DOMAIN log : log[n].kind \in {"item", "purged"} => log[n].of \in Items

\* A transaction under way is the only one on its item, which has room for one more
\* version.
OpenAlone ==
    /\ \A n \in DOMAIN log : ~log[n].done => log[n].of \in Items /\ ver[log[n].of] < MaxVersion
    /\ \A m, n \in DOMAIN log : ~log[m].done /\ ~log[n].done /\ log[m].of = log[n].of => m = n

DiskTyped ==
    /\ stored \in Cursors \union {None} /\ meta \in Cursors \union {None}
    /\ cache \in [Items -> Versions] /\ cvaults \subseteq Vaults
    /\ cmd \in [Items -> Commands]
    /\ \A i \in Items : cmd[i].st = "queued" => cmd[i].v \in 1 .. MaxVersion - 1

CatchUpTyped ==
    /\ cu \in CatchUps
    /\ conn \in BOOLEAN /\ ping \in BOOLEAN
    /\ again \in BOOLEAN /\ validated \in BOOLEAN /\ stranded \in BOOLEAN
    /\ kept \subseteq Items /\ missed \subseteq Items
    /\ cu.events \subseteq DOMAIN log
    /\ cu.pc \in {"write", "acknowledge"} => cu.events # {}
    /\ cu.pc = "baseline" => meta # None

RefreshTyped ==
    /\ ref \in Refreshes /\ queue \subseteq Callers
    /\ ref.pc = "restore" => meta # None

\* Whatever the client holds, has fetched, staged or set aside was published.
Published ==
    \A i \in Items :
        /\ cache[i] <= ver[i] /\ ref.base[i] <= ver[i] /\ ref.staged[i] <= ver[i]
        /\ cmd[i].st = "served" => cmd[i].v <= ver[i]
        /\ i \in DOMAIN cu.got => cu.got[i] <= ver[i]

IInv == ServerTyped /\ OpenAlone /\ DiskTyped /\ CatchUpTyped /\ RefreshTyped /\ Published

(***************************************************************************)
(* Extremes of sets of numbers, and the server's answers.                  *)
(***************************************************************************)

\* Every set of naturals that is not empty has a least element, ...
LEMMA LeastNatural ==
    ASSUME NEW T, T \subseteq Nat, T # {}
    PROVE  \E x \in T : \A y \in T : x <= y
<1>1. PICK R : IsWellFoundedOn(R, Nat) /\ \A x, y \in Nat : <<x, y>> \in R <=> x < y
  <2>1. \A x, y \in Nat : <<x, y>> \in OpToRel(<, Nat) <=> x < y
    BY DEF OpToRel
  <2> QED
    BY <2>1, NatLessThanWellFounded
<1>2. IsWellFoundedOn(R, Nat)
  BY <1>1
<1>3. PICK x \in T : \A y \in T : ~ (<<y, x>> \in R)
  BY <1>2, WFMin
<1>4. \A y \in T : ~ (y < x) /\ x \in Nat /\ y \in Nat
  BY <1>1, <1>3
<1> QED
  BY <1>4

\* ... which is its Min, ...
LEMMA MinIsLeast ==
    ASSUME NEW T, T \subseteq Nat, T # {}
    PROVE  Min(T) \in T /\ \A y \in T : Min(T) <= y
BY LeastNatural DEF Min

\* ... and when it is bounded a greatest one, its Max.
LEMMA MaxIsGreatest ==
    ASSUME NEW n \in Nat, NEW T, T \subseteq 0 .. n, T # {}
    PROVE  Max(T) \in T /\ \A y \in T : Max(T) >= y
<1> DEFINE U == {n - x : x \in T}
<1>1. \A x \in T : x \in Nat /\ x <= n
  OBVIOUS
<1>2. \A x \in T : n - x \in Nat
  BY <1>1
<1>3. U \subseteq Nat /\ U # {}
  BY <1>2
<1>4. PICK u \in U : \A y \in U : u <= y
  BY <1>3, LeastNatural
<1>5. PICK x \in T : u = n - x
  OBVIOUS
<1>6. \A y \in T : n - x <= n - y
  BY <1>4, <1>5
<1>7. \E z \in T : \A y \in T : z >= y
  BY <1>1, <1>6
<1> QED
  BY <1>7 DEF Max

\* The log is a sequence of events, numbered from 1.
LEMMA LogShape ==
    ASSUME ServerTyped
    PROVE  /\ Len(log) \in Nat /\ DOMAIN log = 1 .. Len(log)
           /\ \A n \in DOMAIN log : log[n] \in Events /\ n \in Nat \ {0} /\ n <= MaxLog
           /\ DOMAIN log \subseteq Cursors
BY SyncAssumption DEF ServerTyped, Cursors

\* The newest event visible in a set of vaults, 0 without one.
LEMMA LatestIs ==
    ASSUME ServerTyped, NEW vs
    PROVE  LatestIn(vs) \in Cursors
<1> DEFINE T == {0} \union {n \in DOMAIN log : VisibleIn(n, vs)}
<1>1. T \subseteq 0 .. Len(log) /\ T # {} /\ Len(log) \in Nat
  BY LogShape
<1>2. Max(T) \in T
  BY <1>1, MaxIsGreatest
<1>3. LatestIn(vs) = Max(T)
  BY DEF LatestIn
<1> HIDE DEF T
<1>4. LatestIn(vs) \in 0 .. Len(log)
  BY <1>1, <1>2, <1>3
<1> QED
  BY <1>4, SyncAssumption DEF ServerTyped, Cursors

\* What a page of /sync/changes may hold.
LEMMA PageIs ==
    ASSUME ServerTyped, NEW c, NEW vs, NEW es, es = FirstOf(EventsSince(c, vs), EventLimit)
    PROVE  /\ es \subseteq DOMAIN log /\ es \in SUBSET Cursors
           /\ es # {} => Max(es) \in Cursors
<1>1. es \subseteq DOMAIN log
  BY DEF FirstOf, EventsSince
<1>2. es \subseteq 0 .. Len(log) /\ Len(log) \in Nat
  BY <1>1, LogShape
<1>3. es # {} => Max(es) \in es
  BY <1>2, MaxIsGreatest
<1> QED
  BY <1>1, <1>3, LogShape

\* The server serves the newest version of an item, or none.
LEMMA SeenIs ==
    ASSUME ServerTyped, NEW i \in Items
    PROVE  Seen(i) \in Versions /\ Seen(i) <= ver[i] /\ (Seen(i) = 0 \/ Seen(i) = ver[i])
BY SyncAssumption DEF ServerTyped, Seen, Versions

\* An answer names items and gives each a version.
LEMMA AnswerIs ==
    ASSUME NEW x \in Answers
    PROVE  DOMAIN x \subseteq Items /\ \A i \in DOMAIN x : x[i] \in Versions
BY DEF Answers

\* A function from items to versions is an answer.
LEMMA AnswerFrom ==
    ASSUME NEW S \in SUBSET Items, NEW x, x \in [S -> Versions]
    PROVE  x \in Answers
BY DEF Answers

\* What the client asks for an event is published.
LEMMA ReconciledIs ==
    ASSUME ServerTyped, NEW n \in DOMAIN log
    PROVE  /\ Reconciled(log[n]) \in Answers
           /\ \A i \in DOMAIN Reconciled(log[n]) : Reconciled(log[n])[i] <= ver[i]
<1> DEFINE e == log[n]
<1>0. e \in Events /\ (e.kind \in {"item", "purged"} => e.of \in Items)
  BY LogShape DEF ServerTyped
<1>1. ASSUME NEW S \in SUBSET Items, NEW x, x = [i \in S |-> Seen(i)]
      PROVE  x \in Answers /\ \A i \in DOMAIN x : x[i] <= ver[i]
  <2>1. \A i \in S : Seen(i) \in Versions /\ Seen(i) <= ver[i]
    BY SeenIs
  <2>2. x \in [S -> Versions]
    BY <1>1, <2>1
  <2> QED
    BY <1>1, <2>1, <2>2, AnswerFrom
<1>2. ASSUME NEW S \in SUBSET Items, NEW x, x = [i \in S |-> 0]
      PROVE  x \in Answers /\ \A i \in DOMAIN x : x[i] <= ver[i]
  <2>1. \A i \in S : 0 \in Versions /\ 0 <= ver[i]
    BY SyncAssumption DEF ServerTyped, Versions
  <2>2. x \in [S -> Versions]
    BY <1>2, <2>1, SyncAssumption DEF Versions
  <2> QED
    BY <1>2, <2>1, <2>2, AnswerFrom
<1> HIDE DEF e
<1> DEFINE x == Reconciled(e)
<1> SUFFICES x \in Answers /\ \A i \in DOMAIN x : x[i] <= ver[i]
  BY DEF e
<1>3. CASE e.kind = "item"
  <2>1. x = [i \in {e.of} |-> Seen(i)] /\ {e.of} \in SUBSET Items
    BY <1>0, <1>3 DEF Reconciled
  <2> QED
    BY <1>1, <2>1
<1>4. CASE e.kind = "purged"
  <2>1. x = [i \in {e.of} |-> 0] /\ {e.of} \in SUBSET Items
    BY <1>0, <1>4 DEF Reconciled
  <2> QED
    BY <1>2, <2>1
<1>5. CASE e.kind = "shared"
  <2> DEFINE S == Listed(e.vault)
  <2>1. x = [i \in S |-> Seen(i)] /\ S \in SUBSET Items
    BY <1>0, <1>5 DEF Reconciled, Listed, ItemsOf
  <2> HIDE DEF S
  <2> QED
    BY <1>1, <2>1
<1>6. CASE e.kind = "revoked"
  <2>1. x = [i \in {} |-> 0]
    BY <1>0, <1>6 DEF Reconciled, NoAnswer
  <2> QED
    BY <1>2, <2>1
<1> QED
  BY <1>0, <1>3, <1>4, <1>5, <1>6 DEF Events

(***************************************************************************)
(* The server's steps.                                                     *)
(***************************************************************************)

\* What each step does to the copy: nothing, one version more on the server, or some
\* items of the cache dropped or moved forward.
CopyStep ==
    \/ UNCHANGED <<ver, cache>>
    \/ \E i \in Items : ver' = [ver EXCEPT ![i] = @ + 1] /\ UNCHANGED cache
    \/ /\ UNCHANGED ver
       /\ cache' \in [Items -> Versions]
       /\ \A i \in Items : cache'[i] = 0 \/ (cache[i] <= cache'[i] /\ cache'[i] <= ver[i])

\* A drawn number is the next one.
LEMMA Drawn ==
    ASSUME ServerTyped, NEW e \in Events, Draw(e)
    PROVE  /\ log' \in Seq(Events) /\ Len(log') = Len(log) + 1 /\ Len(log') <= MaxLog
           /\ DOMAIN log' = 1 .. Len(log) + 1 /\ DOMAIN log \subseteq DOMAIN log'
           /\ \A n \in DOMAIN log : log'[n] = log[n]
           /\ log'[Len(log) + 1] = e
           /\ \A n \in DOMAIN log' : n \in DOMAIN log \/ n = Len(log) + 1
<1>1. log \in Seq(Events) /\ Len(log) \in Nat /\ DOMAIN log = 1 .. Len(log)
  BY LogShape DEF ServerTyped
<1>2. log' = Append(log, e) /\ Len(log) < MaxLog
  BY DEF Draw
<1>3. /\ log' \in Seq(Events) /\ Len(log') = Len(log) + 1
      /\ \A n \in 1 .. Len(log) : log'[n] = log[n]
      /\ log'[Len(log) + 1] = e
  BY <1>1, <1>2, AppendProperties
<1>4. DOMAIN log' = 1 .. Len(log) + 1
  BY <1>1, <1>3
<1> QED
  BY <1>1, <1>2, <1>3, <1>4, SyncAssumption

\* The client's part of the invariant survives steps of the server.
LEMMA ClientUntouched ==
    ASSUME IInv, UNCHANGED <<stored, cache, cvaults, meta, cmd, catchUp, refresh>>,
           UNCHANGED <<kept, stranded>>, missed' \subseteq Items,
           UNCHANGED conn, ping' \in BOOLEAN,
           ver' \in [Items -> Versions], \A i \in Items : ver[i] <= ver'[i],
           DOMAIN log \subseteq DOMAIN log'
    PROVE  DiskTyped' /\ CatchUpTyped' /\ RefreshTyped' /\ Published'
<1> USE DEF IInv, catchUp, refresh
<1>1. DiskTyped' /\ RefreshTyped'
  BY DEF DiskTyped, RefreshTyped
<1>2. CatchUpTyped'
  BY DEF CatchUpTyped
<1>3. Published'
  <2> SUFFICES ASSUME NEW i \in Items
               PROVE  /\ cache[i] <= ver'[i] /\ ref.base[i] <= ver'[i] /\ ref.staged[i] <= ver'[i]
                      /\ cmd[i].st = "served" => cmd[i].v <= ver'[i]
                      /\ i \in DOMAIN cu.got => cu.got[i] <= ver'[i]
    BY DEF Published
  <2>1. ver[i] \in Nat /\ ver'[i] \in Nat /\ ver[i] <= ver'[i]
    BY SyncAssumption DEF ServerTyped, Versions
  <2>2. cache[i] \in Nat /\ cmd[i].v \in Nat
    BY SyncAssumption DEF DiskTyped, Commands, Versions
  <2>3. ref.base[i] \in Nat /\ ref.staged[i] \in Nat
    BY SyncAssumption DEF RefreshTyped, Refreshes, Versions
  <2>4. i \in DOMAIN cu.got => cu.got[i] \in Nat
    <3>1. cu.got \in Answers
      BY DEF CatchUpTyped, CatchUps
    <3> QED
      BY <3>1, AnswerIs, SyncAssumption DEF Versions
  <2> QED
    BY <2>1, <2>2, <2>3, <2>4 DEF Published
<1> QED
  BY <1>1, <1>2, <1>3

\* Steps that draw a number and write no item: a transaction begins or a purge, a
\* revocation or a share commits.
LEMMA DrawnOnly ==
    ASSUME IInv, NEW e \in Events, Draw(e),
           e.kind \in {"item", "purged"} => e.of \in Items,
           ~e.done => e.of \in Items /\ ver[e.of] < MaxVersion /\ ~Open(e.of),
           dead' \subseteq Items, access' \subseteq Vaults, ping' \in BOOLEAN,
           missed' \subseteq Items,
           UNCHANGED <<ver, trash, pruned, conn, disk, catchUp, refresh, kept, stranded>>
    PROVE  IInv' /\ CopyStep
<1> USE DEF IInv
<1>1. /\ log' \in Seq(Events) /\ Len(log') = Len(log) + 1 /\ Len(log') <= MaxLog
      /\ DOMAIN log' = 1 .. Len(log) + 1 /\ DOMAIN log \subseteq DOMAIN log'
      /\ \A n \in DOMAIN log : log'[n] = log[n]
      /\ log'[Len(log) + 1] = e
      /\ \A n \in DOMAIN log' : n \in DOMAIN log \/ n = Len(log) + 1
  BY Drawn
<1>2. Len(log) \in Nat
  BY LogShape
<1>3. ServerTyped'
  BY <1>1, <1>2 DEF ServerTyped
<1>4. OpenAlone'
  <2>1. \A n \in DOMAIN log' : ~log'[n].done => log'[n].of \in Items /\ ver'[log'[n].of] < MaxVersion
    BY <1>1 DEF OpenAlone
  <2>2. ASSUME NEW m \in DOMAIN log', NEW n \in DOMAIN log',
               ~log'[m].done, ~log'[n].done, log'[m].of = log'[n].of
        PROVE  m = n
    <3>1. CASE m \in DOMAIN log /\ n \in DOMAIN log
      BY <1>1, <2>2, <3>1 DEF OpenAlone
    <3>2. CASE m \in DOMAIN log /\ n = Len(log) + 1
      BY <1>1, <2>2, <3>2 DEF Open
    <3>3. CASE n \in DOMAIN log /\ m = Len(log) + 1
      BY <1>1, <2>2, <3>3 DEF Open
    <3> QED
      BY <1>1, <3>1, <3>2, <3>3
  <2> QED
    BY <2>1, <2>2 DEF OpenAlone
<1>5. DiskTyped' /\ CatchUpTyped' /\ RefreshTyped' /\ Published'
  <2>1. ver' \in [Items -> Versions] /\ \A i \in Items : ver[i] <= ver'[i]
    BY SyncAssumption DEF ServerTyped, Versions
  <2>2. UNCHANGED <<stored, cache, cvaults, meta, cmd, catchUp, refresh, kept, stranded>>
    BY DEF disk
  <2> QED
    BY <1>1, <2>1, <2>2, ClientUntouched
<1> QED
  BY <1>3, <1>4, <1>5 DEF CopyStep, disk

\* Another member begins to write an item.
LEMMA OtherWritesStep ==
    ASSUME IInv, NEW i \in Items, OtherWrites(i)
    PROVE  IInv' /\ CopyStep
<1> DEFINE e == Event("item", i, VaultOf[i], FALSE)
<1>1. e \in Events /\ e.kind = "item" /\ e.of = i /\ e.done = FALSE
  BY SyncAssumption DEF Event, Events
<1>2. Draw(e) /\ ver[i] < MaxVersion /\ ~Open(i)
  BY DEF OtherWrites
<1>3. /\ UNCHANGED <<ver, trash, pruned, conn, disk, catchUp, refresh, kept, stranded>>
      /\ missed' \subseteq Items
      /\ dead' \subseteq Items /\ access' \subseteq Vaults /\ ping' \in BOOLEAN
  BY DEF OtherWrites, channel, history, IInv, ServerTyped, CatchUpTyped
<1> HIDE DEF e
<1> QED
  BY <1>1, <1>2, <1>3, DrawnOnly

\* Another member purges an item.
LEMMA OtherPurgesStep ==
    ASSUME IInv, NEW i \in Items, OtherPurges(i)
    PROVE  IInv' /\ CopyStep
<1> DEFINE e == Event("purged", i, VaultOf[i], TRUE)
<1>1. e \in Events /\ e.kind = "purged" /\ e.of = i /\ e.done = TRUE
  BY SyncAssumption DEF Event, Events
<1>2. Draw(e)
  BY DEF OtherPurges
<1>3. /\ UNCHANGED <<ver, trash, pruned, conn, disk, catchUp, refresh, kept, stranded>>
      /\ missed' \subseteq Items
      /\ dead' \subseteq Items /\ access' \subseteq Vaults
  BY DEF OtherPurges, CameAndGoes, IInv, ServerTyped, CatchUpTyped
<1>4. ping' \in BOOLEAN
  BY DEF OtherPurges, Publish
<1> HIDE DEF e
<1> QED
  BY <1>1, <1>2, <1>3, <1>4, DrawnOnly

\* The user loses a vault or gets it back.
LEMMA AccessStep ==
    ASSUME IInv, NEW v \in Shareable, Revoke(v) \/ Share(v)
    PROVE  IInv' /\ CopyStep
<1>0. v \in Vaults
  BY SyncAssumption
<1>1. PICK k \in {"shared", "revoked"} : Draw(Event(k, 0, v, TRUE))
  BY DEF Revoke, Share
<1> DEFINE e == Event(k, 0, v, TRUE)
<1>2. e \in Events /\ e.kind = k /\ e.done = TRUE
  BY <1>0 DEF Event, Events
<1>3. /\ UNCHANGED <<ver, trash, pruned, conn, disk, catchUp, refresh, kept, stranded>>
      /\ missed' \subseteq Items
      /\ dead' \subseteq Items /\ access' \subseteq Vaults
  BY <1>0 DEF Revoke, Share, CameAndGoes, ItemsOf, IInv, ServerTyped, CatchUpTyped
<1>4. ping' \in BOOLEAN
  BY DEF Revoke, Share, Publish
<1> HIDE DEF e
<1>5. Draw(e)
  BY <1>1 DEF e
<1> QED
  BY <1>2, <1>3, <1>4, <1>5, DrawnOnly

\* Old events expire.
LEMMA PruneStep ==
    ASSUME IInv, NEW n \in DOMAIN log, Prune(n)
    PROVE  IInv' /\ CopyStep
<1> USE DEF IInv
<1>1. /\ UNCHANGED <<ver, trash, dead, access, log, channel, disk, catchUp, refresh, kept, stranded>>
      /\ pruned' = n /\ missed' \subseteq Items
  BY DEF Prune, CatchUpTyped
<1>2. ServerTyped' /\ OpenAlone'
  BY <1>1, LogShape DEF ServerTyped, OpenAlone
<1>3. DiskTyped' /\ CatchUpTyped' /\ RefreshTyped' /\ Published'
  <2>1. ver' \in [Items -> Versions] /\ \A i \in Items : ver[i] <= ver'[i]
    BY <1>1, SyncAssumption DEF ServerTyped, Versions
  <2>2. UNCHANGED <<stored, cache, cvaults, meta, cmd, catchUp, refresh, kept, stranded>>
    BY <1>1 DEF disk
  <2>3. UNCHANGED conn /\ ping' \in BOOLEAN
    BY <1>1 DEF channel, CatchUpTyped
  <2> QED
    BY <1>1, <2>1, <2>2, <2>3, ClientUntouched
<1> QED
  BY <1>1, <1>2, <1>3 DEF CopyStep, disk

\* Another member's write commits: the only step besides Serve that publishes a version.
LEMMA OtherCommitsStep ==
    ASSUME IInv, NEW n \in DOMAIN log, OtherCommits(n)
    PROVE  IInv' /\ CopyStep
<1> USE DEF IInv
<1> DEFINE i == log[n].of
           e == [log[n] EXCEPT !.done = TRUE]
<1>0. /\ UNCHANGED <<dead, access, pruned, conn, disk, catchUp, refresh, kept, stranded>>
      /\ ver' = [ver EXCEPT ![i] = @ + 1] /\ log' = [log EXCEPT ![n].done = TRUE] /\ ~log[n].done
  BY DEF OtherCommits
<1>1. i \in Items /\ ver[i] < MaxVersion /\ log[n] \in Events /\ log \in Seq(Events)
  BY <1>0, LogShape DEF OpenAlone, ServerTyped
<1>2. /\ e \in Events
      /\ e.of = log[n].of /\ e.kind = log[n].kind
  BY <1>1 DEF Events
<1>3. e.done = TRUE
  BY <1>1 DEF Events
<1>4. log' = [log EXCEPT ![n] = e]
  BY <1>0
<1> HIDE DEF e, i
<1>5. /\ log' \in Seq(Events) /\ Len(log') = Len(log)
      /\ DOMAIN log' = DOMAIN log /\ log'[n] = e
      /\ \A m \in DOMAIN log : m # n => log'[m] = log[m]
  BY <1>1, <1>2, <1>4, ExceptSeq
<1>6. ver' \in [Items -> Versions] /\ \A j \in Items : ver[j] <= ver'[j]
  BY <1>0, <1>1, SyncAssumption DEF ServerTyped, Versions
<1>7. ServerTyped'
  <2>1. \A m \in DOMAIN log' : log'[m].kind \in {"item", "purged"} => log'[m].of \in Items
    BY <1>2, <1>5 DEF ServerTyped
  <2>2. trash' \subseteq Items
    BY <1>1 DEF OtherCommits, ServerTyped, i
  <2> QED
    BY <1>0, <1>5, <1>6, <2>1, <2>2 DEF ServerTyped
<1>8. OpenAlone'
  <2>1. ASSUME NEW m \in DOMAIN log, ~log'[m].done
        PROVE  m # n /\ log'[m] = log[m] /\ log[m].of # i /\ ~log[m].done
    <3>1. m # n
      BY <1>3, <1>5, <2>1
    <3>2. log'[m] = log[m] /\ ~log[m].done
      BY <1>5, <2>1, <3>1
    <3> QED
      BY <1>0, <3>1, <3>2 DEF OpenAlone, i
  <2>2. \A m \in DOMAIN log' : ~log'[m].done => log'[m].of \in Items /\ ver'[log'[m].of] < MaxVersion
    <3> SUFFICES ASSUME NEW m \in DOMAIN log, ~log'[m].done
                 PROVE  log'[m].of \in Items /\ ver'[log'[m].of] < MaxVersion
      BY <1>5
    <3>1. log[m].of \in Items /\ ver[log[m].of] < MaxVersion /\ log[m].of # i
      BY <2>1 DEF OpenAlone
    <3> QED
      BY <1>0, <2>1, <3>1 DEF ServerTyped
  <2> QED
    BY <1>5, <2>1, <2>2 DEF OpenAlone
<1>9. DiskTyped' /\ CatchUpTyped' /\ RefreshTyped' /\ Published'
  <2>1. UNCHANGED <<stored, cache, cvaults, meta, cmd, catchUp, refresh, kept, stranded>>
    BY <1>0 DEF disk
  <2>2. UNCHANGED conn /\ ping' \in BOOLEAN
    BY <1>0 DEF OtherCommits, Publish
  <2>3. missed' \subseteq Items
    BY <1>1 DEF OtherCommits, CatchUpTyped, i
  <2> QED
    BY <1>5, <1>6, <2>1, <2>2, <2>3, ClientUntouched
<1> QED
  BY <1>0, <1>1, <1>7, <1>8, <1>9 DEF CopyStep, disk

(***************************************************************************)
(* The client's own commands.                                              *)
(***************************************************************************)

\* The versions of a command and of a cached item are numbers.
LEMMA CommandIs ==
    ASSUME DiskTyped, NEW i \in Items
    PROVE  /\ cmd[i] \in Commands /\ cmd[i].v \in Nat /\ cmd[i].v <= MaxVersion
           /\ cache[i] \in Nat /\ cache[i] <= MaxVersion
BY SyncAssumption DEF DiskTyped, Commands, Versions

\* A step that changes at most the client's command on i and moves its record.
LEMMA CommandStep ==
    ASSUME IInv, NEW i \in Items, NEW x \in Commands,
           cmd' = [cmd EXCEPT ![i] = x],
           x.st = "queued" => x.v \in 1 .. MaxVersion - 1,
           x.st # "served",
           cache' = cache \/ \E w \in Versions : /\ cache' = [cache EXCEPT ![i] = w]
                                                 /\ cache[i] <= w /\ w <= ver[i],
           UNCHANGED <<server, channel, stored, cvaults, meta, catchUp, refresh, kept, stranded>>,
           missed' \subseteq Items
    PROVE  IInv' /\ CopyStep
<1> USE DEF IInv
<1>0. UNCHANGED <<ver, trash, dead, access, log, pruned, conn, ping, stored, cvaults, meta,
                  cu, again, validated, ref, queue, kept, stranded>>
  BY DEF server, channel, catchUp, refresh
<1>1. ServerTyped' /\ OpenAlone' /\ CatchUpTyped' /\ RefreshTyped'
  BY <1>0 DEF ServerTyped, OpenAlone, CatchUpTyped, RefreshTyped
<1>2. /\ cache' \in [Items -> Versions]
      /\ \A j \in Items : cache'[j] <= ver[j] /\ cache[j] <= cache'[j]
  BY SyncAssumption DEF DiskTyped, Published, Versions
<1>3. /\ cmd' \in [Items -> Commands] /\ cmd'[i] = x
      /\ \A j \in Items : j # i => cmd'[j] = cmd[j]
  BY DEF DiskTyped
<1>4. DiskTyped'
  BY <1>0, <1>2, <1>3 DEF DiskTyped
<1>5. Published'
  BY <1>0, <1>2, <1>3 DEF Published
<1>6. CopyStep
  BY <1>0, <1>2 DEF CopyStep
<1> QED
  BY <1>1, <1>4, <1>5, <1>6

\* The absence of a command is one of its values.
LEMMA NoCommandIs == NoCommand \in Commands /\ NoCommand.st = "none"
BY SyncAssumption DEF NoCommand, Commands, Versions

\* The user edits an item.
LEMMA EditStep ==
    ASSUME IInv, NEW i \in Items, Edit(i)
    PROVE  IInv' /\ CopyStep
<1> DEFINE x == [st |-> "queued", v |-> cache[i]]
<1>1. x \in Commands /\ x.st = "queued" /\ x.v \in 1 .. MaxVersion - 1
  BY CommandIs, SyncAssumption DEF IInv, DiskTyped, Edit, Commands, Versions
<1>2. /\ cmd' = [cmd EXCEPT ![i] = x] /\ cache' = cache
      /\ UNCHANGED <<server, channel, stored, cvaults, meta, catchUp, refresh, kept, stranded>>
      /\ missed' \subseteq Items
  BY DEF Edit, history, IInv, CatchUpTyped
<1> HIDE DEF x
<1> QED
  BY <1>1, <1>2, CommandStep

\* The server refuses an edit.
LEMMA RefuseStep ==
    ASSUME IInv, NEW i \in Items, Refuse(i)
    PROVE  IInv' /\ CopyStep
<1>1. /\ cmd' = [cmd EXCEPT ![i] = NoCommand] /\ cache' = cache
      /\ UNCHANGED <<server, channel, stored, cvaults, meta, catchUp, refresh, kept, stranded>>
      /\ missed' \subseteq Items
  BY DEF Refuse, history, IInv, CatchUpTyped
<1> QED
  BY <1>1, NoCommandIs, CommandStep

\* The acknowledgement of an edit moves the record forward.
LEMMA AcknowledgeStep ==
    ASSUME IInv, NEW i \in Items, Acknowledge(i)
    PROVE  IInv' /\ CopyStep
<1>1. /\ cmd' = [cmd EXCEPT ![i] = NoCommand] /\ cmd[i].st = "served"
      /\ UNCHANGED <<server, channel, stored, cvaults, meta, catchUp, refresh, kept, stranded>>
      /\ missed' \subseteq Items
      /\ cache' = IF cache[i] # 0 /\ cache[i] < cmd[i].v
                  THEN [cache EXCEPT ![i] = cmd[i].v] ELSE cache
  BY DEF Acknowledge, IInv, CatchUpTyped
<1>2. cmd[i].v <= ver[i] /\ cmd[i].v \in Versions /\ cache[i] \in Nat /\ cmd[i].v \in Nat
  BY <1>1, CommandIs DEF IInv, Published, DiskTyped, Commands
<1>3. cache' = cache \/ \E w \in Versions : /\ cache' = [cache EXCEPT ![i] = w]
                                            /\ cache[i] <= w /\ w <= ver[i]
  BY <1>1, <1>2
<1> QED
  BY <1>1, <1>3, NoCommandIs, CommandStep

\* The server accepts an edit: it publishes the next version and its event.
LEMMA ServeStep ==
    ASSUME IInv, NEW i \in Items, Serve(i)
    PROVE  IInv' /\ CopyStep
<1> USE DEF IInv
<1> DEFINE e == Event("item", i, VaultOf[i], TRUE)
           x == [st |-> "served", v |-> ver'[i]]
<1>0. /\ UNCHANGED <<trash, dead, access, pruned, conn, stored, cache, cvaults, meta, catchUp,
                     refresh, history>>
      /\ Draw(e) /\ ver' = [ver EXCEPT ![i] = @ + 1]
      /\ cmd' = [cmd EXCEPT ![i] = x]
      /\ cmd[i].st = "queued" /\ ~Open(i) /\ Seen(i) = cmd[i].v
      /\ ping' \in BOOLEAN
  BY DEF Serve, Publish
<1>1. e \in Events /\ e.kind = "item" /\ e.of = i /\ e.done = TRUE
  BY SyncAssumption DEF Event, Events
<1>2. ver[i] < MaxVersion
  BY <1>0, SeenIs, SyncAssumption DEF DiskTyped
<1>3. ver' \in [Items -> Versions] /\ \A j \in Items : ver[j] <= ver'[j]
  BY <1>0, <1>2, SyncAssumption DEF ServerTyped, Versions
<1>x. x \in Commands /\ x.st = "served" /\ x.v = ver'[i]
  BY <1>3 DEF Commands
<1> HIDE DEF e, x
<1>4. /\ log' \in Seq(Events) /\ Len(log') = Len(log) + 1 /\ Len(log') <= MaxLog
      /\ DOMAIN log' = 1 .. Len(log) + 1 /\ DOMAIN log \subseteq DOMAIN log'
      /\ \A n \in DOMAIN log : log'[n] = log[n]
      /\ log'[Len(log) + 1] = e
      /\ \A n \in DOMAIN log' : n \in DOMAIN log \/ n = Len(log) + 1
  BY <1>0, <1>1, Drawn
<1>5. ServerTyped'
  BY <1>0, <1>1, <1>3, <1>4, LogShape DEF ServerTyped
<1>6. OpenAlone'
  <2>1. ASSUME NEW m \in DOMAIN log', ~log'[m].done
        PROVE  m \in DOMAIN log /\ log'[m] = log[m] /\ ~log[m].done /\ log[m].of # i
    <3>1. m \in DOMAIN log
      BY <1>1, <1>4, <2>1
    <3> QED
      BY <1>0, <1>4, <2>1, <3>1 DEF Open
  <2>2. ASSUME NEW m \in DOMAIN log', ~log'[m].done
        PROVE  log'[m].of \in Items /\ ver'[log'[m].of] < MaxVersion
    BY <1>0, <2>1, <2>2 DEF OpenAlone, ServerTyped
  <2> QED
    BY <2>1, <2>2 DEF OpenAlone
<1>7. /\ cmd' \in [Items -> Commands] /\ cmd'[i] = x
      /\ \A j \in Items : j # i => cmd'[j] = cmd[j]
  BY <1>0, <1>x DEF DiskTyped
<1>8. DiskTyped'
  <2>1. \A j \in Items : cmd'[j].st = "queued" => cmd'[j].v \in 1 .. MaxVersion - 1
    BY <1>7, <1>x DEF DiskTyped
  <2> QED
    BY <1>0, <1>7, <2>1 DEF DiskTyped
<1>9. CatchUpTyped' /\ RefreshTyped'
  BY <1>0, <1>4 DEF CatchUpTyped, RefreshTyped, catchUp, refresh, history
<1>10. Published'
  <2> SUFFICES ASSUME NEW j \in Items
               PROVE  /\ cache[j] <= ver'[j] /\ ref.base[j] <= ver'[j] /\ ref.staged[j] <= ver'[j]
                      /\ cmd'[j].st = "served" => cmd'[j].v <= ver'[j]
                      /\ j \in DOMAIN cu.got => cu.got[j] <= ver'[j]
    BY <1>0 DEF Published, catchUp, refresh
  <2>1. ver[j] \in Nat /\ ver'[j] \in Nat /\ ver[j] <= ver'[j]
    BY <1>3, SyncAssumption DEF ServerTyped, Versions
  <2>2. cache[j] \in Nat /\ cmd[j].v \in Nat
    BY CommandIs
  <2>3. ref.base[j] \in Nat /\ ref.staged[j] \in Nat
    BY SyncAssumption DEF RefreshTyped, Refreshes, Versions
  <2>4. j \in DOMAIN cu.got => cu.got[j] \in Nat
    <3>1. cu.got \in Answers
      BY DEF CatchUpTyped, CatchUps
    <3> QED
      BY <3>1, AnswerIs, SyncAssumption DEF Versions
  <2>5. cmd'[j].st = "served" => cmd'[j].v <= ver'[j]
    BY <1>7, <1>x, <2>1, <2>2 DEF Published
  <2> QED
    BY <2>1, <2>2, <2>3, <2>4, <2>5 DEF Published
<1> QED
  BY <1>0, <1>5, <1>6, <1>8, <1>9, <1>10 DEF CopyStep

(***************************************************************************)
(* What the parts of the client's memory have to satisfy, and the steps    *)
(* that only touch these and the disk.                                     *)
(***************************************************************************)

GoodCatchUp(c, m) ==
    /\ c \in CatchUps /\ c.events \subseteq DOMAIN log
    /\ c.pc \in {"write", "acknowledge"} => c.events # {}
    /\ c.pc = "baseline" => m # None
    /\ \A i \in Items : i \in DOMAIN c.got => c.got[i] <= ver[i]

GoodRefresh(r, q, m) ==
    /\ r \in Refreshes /\ q \subseteq Callers
    /\ r.pc = "restore" => m # None
    /\ \A i \in Items : r.base[i] <= ver[i] /\ r.staged[i] <= ver[i]

GoodCache(c) == c \in [Items -> Versions] /\ \A i \in Items : c[i] <= ver[i]

\* The invariant again, in these terms.
LEMMA Parts ==
    ASSUME IInv
    PROVE  /\ GoodCatchUp(cu, meta) /\ GoodRefresh(ref, queue, meta) /\ GoodCache(cache)
           /\ conn \in BOOLEAN /\ ping \in BOOLEAN
           /\ again \in BOOLEAN /\ validated \in BOOLEAN /\ stranded \in BOOLEAN
           /\ kept \subseteq Items /\ missed \subseteq Items /\ cvaults \subseteq Vaults
           /\ stored \in Cursors \union {None} /\ meta \in Cursors \union {None}
<1>1. GoodCatchUp(cu, meta)
  BY DEF IInv, CatchUpTyped, Published, GoodCatchUp
<1>2. GoodRefresh(ref, queue, meta)
  BY DEF IInv, RefreshTyped, Published, GoodRefresh
<1>3. GoodCache(cache)
  BY DEF IInv, DiskTyped, Published, GoodCache
<1> QED
  BY <1>1, <1>2, <1>3 DEF IInv, CatchUpTyped, DiskTyped

\* Steps of the client keep the invariant when each part it writes is good and the cache
\* drops items or moves them forward.
LEMMA ClientStep ==
    ASSUME IInv, UNCHANGED <<ver, trash, dead, access, log, pruned, cmd>>,
           GoodCatchUp(cu', meta'), GoodRefresh(ref', queue', meta'), GoodCache(cache'),
           \A i \in Items : cache'[i] = 0 \/ cache[i] <= cache'[i],
           conn' \in BOOLEAN, ping' \in BOOLEAN,
           again' \in BOOLEAN, validated' \in BOOLEAN, stranded' \in BOOLEAN,
           kept' \subseteq Items, missed' \subseteq Items, cvaults' \subseteq Vaults,
           stored' \in Cursors \union {None}, meta' \in Cursors \union {None}
    PROVE  IInv' /\ CopyStep
<1> USE DEF IInv
<1>1. ServerTyped' /\ OpenAlone'
  BY DEF ServerTyped, OpenAlone
<1>2. DiskTyped'
  BY DEF DiskTyped, GoodCache
<1>3. CatchUpTyped'
  BY DEF CatchUpTyped, GoodCatchUp
<1>4. RefreshTyped'
  BY DEF RefreshTyped, GoodRefresh
<1>5. Published'
  BY DEF Published, GoodCatchUp, GoodRefresh, GoodCache
<1>6. CopyStep
  BY DEF CopyStep, GoodCache
<1> QED
  BY <1>1, <1>2, <1>3, <1>4, <1>5, <1>6

\* The same for steps that leave the disk alone but for the stored cursor.
LEMMA MemoryStep ==
    ASSUME IInv, UNCHANGED <<ver, trash, dead, access, log, pruned, cmd, cache, cvaults, meta, kept>>,
           missed' \subseteq Items,
           GoodCatchUp(cu', meta), GoodRefresh(ref', queue', meta),
           conn' \in BOOLEAN, ping' \in BOOLEAN,
           again' \in BOOLEAN, validated' \in BOOLEAN, stranded' \in BOOLEAN,
           stored' \in Cursors \union {None}
    PROVE  IInv' /\ CopyStep
<1>1. \A i \in Items : cache[i] \in Nat
  BY CommandIs DEF IInv
<1>2. \A i \in Items : cache[i] <= cache[i]
  BY <1>1
<1>3. /\ GoodCache(cache) /\ kept \subseteq Items /\ cvaults \subseteq Vaults
      /\ meta \in Cursors \union {None}
  BY Parts
<1> QED
  BY <1>2, <1>3, ClientStep

\* The versions and cursors are numbers, and None is neither.
LEMMA Constants ==
    /\ 0 \in Versions /\ 0 \in Cursors /\ Versions \subseteq Nat /\ Cursors \subseteq Nat
    /\ None \notin Cursors /\ Nothing \in [Items -> Versions]
    /\ NoAnswer \in Answers /\ DOMAIN NoAnswer = {}
<1>1. 0 \in Versions /\ 0 \in Cursors /\ Versions \subseteq Nat /\ Cursors \subseteq Nat
  BY SyncAssumption DEF Versions, Cursors
<1>2. None \notin Cursors
  BY SyncAssumption DEF Cursors, None
<1>3. Nothing \in [Items -> Versions]
  BY <1>1 DEF Nothing
<1>4. NoAnswer \in [{} -> Versions] /\ DOMAIN NoAnswer = {}
  BY DEF NoAnswer
<1> QED
  BY <1>1, <1>2, <1>3, <1>4, AnswerFrom

\* The record of no refresh.
LEMMA NoRefreshIs ==
    /\ NoRefresh \in Refreshes /\ NoRefresh.pc = "none" /\ NoRefresh.waiters = {}
    /\ NoRefresh.base = Nothing /\ NoRefresh.staged = Nothing
BY Constants DEF NoRefresh, Refreshes, Callers

\* The record of a refresh that has just begun.
LEMMA BegunIs ==
    ASSUME NEW ws \in SUBSET Callers, NEW items \in [Items -> Versions], NEW vs \in SUBSET Vaults
    PROVE  /\ Begun(ws, items, vs) \in Refreshes
           /\ Begun(ws, items, vs).pc = "ask" /\ Begun(ws, items, vs).waiters = ws
           /\ Begun(ws, items, vs).base = items /\ Begun(ws, items, vs).staged = Nothing
           /\ Begun(ws, items, vs).basev = vs /\ Begun(ws, items, vs).cursor = 0
<1> DEFINE bs == {i \in Items : items[i] # 0 /\ Pending(i)}
<1>1. Begun(ws, items, vs) =
        [pc |-> "ask", waiters |-> ws, scope |-> {}, cursor |-> 0, at |-> 0, base |-> items,
         basev |-> vs, staged |-> Nothing, stagedv |-> {}, bases |-> bs]
  BY DEF Begun
<1>2. bs \subseteq Items
  OBVIOUS
<1> HIDE DEF bs
<1> QED
  BY <1>1, <1>2, Constants DEF Refreshes

\* A refresh that begins on a good cache is good.
LEMMA BegunGood ==
    ASSUME IInv, NEW ws \in SUBSET Callers, NEW q \in SUBSET Callers, NEW m, NEW items,
           GoodCache(items), NEW vs \in SUBSET Vaults
    PROVE  GoodRefresh(Begun(ws, items, vs), q, m) /\ GoodRefresh(NoRefresh, q, m)
<1>1. \A i \in Items : Nothing[i] <= ver[i]
  BY SyncAssumption DEF Nothing, IInv, ServerTyped, Versions
<1> QED
  BY <1>1, BegunIs, NoRefreshIs DEF GoodRefresh, GoodCache

\* The record of no catch-up, and of one that has just begun.
LEMMA IdleIs ==
    /\ Idle \in CatchUps /\ Idle.pc = "idle" /\ Idle.events = {} /\ Idle.got = NoAnswer
    /\ \A pc \in {"hydrate", "fetch"}, c \in Cursors :
         LET x == [Idle EXCEPT !.pc = pc, !.cursor = c] IN
         x \in CatchUps /\ x.pc = pc /\ x.events = {} /\ x.got = NoAnswer
    /\ LET x == [Idle EXCEPT !.pc = "hydrate"] IN
       x \in CatchUps /\ x.pc = "hydrate" /\ x.events = {} /\ x.got = NoAnswer
<1>1. Idle \in CatchUps /\ Idle.pc = "idle" /\ Idle.events = {} /\ Idle.got = NoAnswer
  BY Constants DEF Idle, CatchUps
<1>2. ASSUME NEW pc \in {"hydrate", "fetch"}, NEW c \in Cursors
      PROVE  LET x == [Idle EXCEPT !.pc = pc, !.cursor = c] IN
             x \in CatchUps /\ x.pc = pc /\ x.events = {} /\ x.got = NoAnswer
  <2> DEFINE y == [Idle EXCEPT !.pc = pc]
             x == [y EXCEPT !.cursor = c]
  <2>1. y \in CatchUps /\ y.pc = pc /\ y.events = {} /\ y.got = NoAnswer
    BY <1>1 DEF CatchUps
  <2> HIDE DEF y
  <2>2. x \in CatchUps /\ x.pc = pc /\ x.events = {} /\ x.got = NoAnswer
    BY <2>1 DEF CatchUps
  <2>3. x = [Idle EXCEPT !.pc = pc, !.cursor = c]
    BY DEF y
  <2> QED
    BY <2>2, <2>3
<1>3. LET x == [Idle EXCEPT !.pc = "hydrate"] IN
      x \in CatchUps /\ x.pc = "hydrate" /\ x.events = {} /\ x.got = NoAnswer
  BY <1>1 DEF CatchUps
<1> QED
  BY <1>1, <1>2, <1>3

\* A catch-up without a page.
LEMMA FreshCatchUp ==
    ASSUME NEW c \in CatchUps, c.pc \in {"idle", "hydrate", "fetch"}, c.events = {},
           c.got = NoAnswer, NEW m
    PROVE  GoodCatchUp(c, m)
BY Constants DEF GoodCatchUp

\* A catch-up that moves on with what it has.
LEMMA CatchUpMoves ==
    ASSUME NEW m, NEW mm, GoodCatchUp(cu, m), NEW x,
           NEW pc \in {"baseline", "fetch", "apply", "acknowledge"},
           x = [cu EXCEPT !.pc = pc],
           pc = "acknowledge" => cu.events # {},
           pc = "baseline" => mm # None
    PROVE  GoodCatchUp(x, mm)
<1>1. /\ x \in CatchUps /\ x.pc = pc /\ x.events = cu.events /\ x.got = cu.got
  BY DEF GoodCatchUp, CatchUps
<1> QED
  BY <1>1 DEF GoodCatchUp

(***************************************************************************)
(* Full refreshes.                                                         *)
(***************************************************************************)

\* Unprimed operators of a new catch-up and refresh, whichever way one settles.
LEMMA SettlesGood ==
    ASSUME IInv, NEW ok \in BOOLEAN, NEW items, NEW vs \in SUBSET Vaults, NEW m,
           GoodCache(items), ok => m # None, meta # None => m # None,
           RefreshSettles(ok, items, vs)
    PROVE  /\ GoodCatchUp(cu', m) /\ GoodRefresh(ref', queue', m)
           /\ again' \in BOOLEAN /\ stranded' \in BOOLEAN
<1> DEFINE retry == ~ok /\ "catchUp" \in ref.waiters /\ cu.pc = "hydrate" /\ cu.tries < 2
           next == queue \union (IF retry THEN {"catchUp"} ELSE {})
<1>0. /\ GoodCatchUp(cu, meta) /\ GoodRefresh(ref, queue, meta)
      /\ again \in BOOLEAN /\ stranded \in BOOLEAN /\ conn \in BOOLEAN
  BY Parts
<1>1. /\ ref' = IF next = {} THEN NoRefresh ELSE Begun(next, items, vs)
      /\ queue' = {}
      /\ IF "catchUp" \notin ref.waiters THEN UNCHANGED <<cu, again, stranded>>
         ELSE IF ok
         THEN /\ cu' = [cu EXCEPT !.pc = IF cu.pc = "hydrate" THEN "baseline" ELSE "apply"]
              /\ UNCHANGED <<again, stranded>>
         ELSE IF retry
         THEN /\ cu' = [cu EXCEPT !.tries = @ + 1]
              /\ UNCHANGED <<again, stranded>>
         ELSE CatchUpThrows
  BY DEF RefreshSettles
<1>2. next \in SUBSET Callers
  BY <1>0 DEF GoodRefresh, Callers
<1>3. GoodRefresh(ref', queue', m)
  BY <1>1, <1>2, BegunGood
<1>4. GoodCatchUp(cu, m)
  BY <1>0 DEF GoodCatchUp
<1>5. CASE "catchUp" \notin ref.waiters
  BY <1>0, <1>1, <1>3, <1>4, <1>5
<1>6. CASE "catchUp" \in ref.waiters /\ ok
  <2> DEFINE pc == IF cu.pc = "hydrate" THEN "baseline" ELSE "apply"
  <2>1. pc \in {"baseline", "fetch", "apply", "acknowledge"} /\ pc # "acknowledge"
    OBVIOUS
  <2>2. cu' = [cu EXCEPT !.pc = pc] /\ UNCHANGED <<again, stranded>>
    BY <1>1, <1>6
  <2> HIDE DEF pc
  <2>3. GoodCatchUp(cu', m)
    BY <1>4, <1>6, <2>1, <2>2, CatchUpMoves
  <2> QED
    BY <1>0, <1>3, <2>2, <2>3
<1>7. CASE "catchUp" \in ref.waiters /\ ~ok /\ retry
  <2>1. cu' = [cu EXCEPT !.tries = @ + 1] /\ UNCHANGED <<again, stranded>>
    BY <1>1, <1>7
  <2>2. /\ cu' \in CatchUps /\ cu'.pc = cu.pc /\ cu'.events = cu.events /\ cu'.got = cu.got
    BY <1>0, <1>7, <2>1 DEF GoodCatchUp, CatchUps
  <2>3. GoodCatchUp(cu', m)
    BY <1>4, <2>2 DEF GoodCatchUp
  <2> QED
    BY <1>0, <1>3, <2>1, <2>3
<1>8. CASE "catchUp" \in ref.waiters /\ ~ok /\ ~retry
  <2>1. cu' = Idle /\ again' = FALSE /\ stranded' = conn
    BY <1>1, <1>8 DEF CatchUpThrows
  <2>2. GoodCatchUp(cu', m)
    BY <2>1, IdleIs, FreshCatchUp
  <2> QED
    BY <1>0, <1>3, <2>1, <2>2
<1> QED
  BY <1>5, <1>6, <1>7, <1>8

\* A refresh fails and its staged generation is discarded.
LEMMA RefreshFailsStep ==
    ASSUME IInv, RefreshFails
    PROVE  IInv' /\ CopyStep
<1>1. /\ UNCHANGED <<ver, trash, dead, access, log, pruned, conn, ping, stored, cache, cvaults, meta, cmd,
                     validated, kept, missed>>
      /\ RefreshSettles(FALSE, cache, cvaults)
  BY DEF RefreshFails, server, channel, disk
<1>2. /\ GoodCache(cache) /\ cvaults \in SUBSET Vaults /\ conn \in BOOLEAN /\ ping \in BOOLEAN
      /\ validated \in BOOLEAN /\ stored \in Cursors \union {None} /\ missed \subseteq Items
  BY Parts
<1>3. /\ GoodCatchUp(cu', meta) /\ GoodRefresh(ref', queue', meta)
      /\ again' \in BOOLEAN /\ stranded' \in BOOLEAN
  BY <1>1, <1>2, SettlesGood
<1> QED
  BY <1>1, <1>2, <1>3, MemoryStep

\* The statements before a page change neither the baseline nor what was staged.
LEMMA AnswersStep ==
    ASSUME IInv, RefreshAsks \/ RefreshCaptures \/ RefreshChecks
    PROVE  IInv' /\ CopyStep
<1>0. /\ GoodCatchUp(cu, meta) /\ GoodRefresh(ref, queue, meta)
      /\ conn \in BOOLEAN /\ ping \in BOOLEAN
      /\ again \in BOOLEAN /\ validated \in BOOLEAN /\ stranded \in BOOLEAN
      /\ stored \in Cursors \union {None} /\ missed \subseteq Items
  BY Parts
<1>1. UNCHANGED <<ver, trash, dead, access, log, pruned, conn, ping, stored, cache, cvaults, meta,
                  cmd, cu, again, validated, queue, kept, missed, stranded>>
  BY DEF RefreshAsks, RefreshCaptures, RefreshChecks, server, channel, disk, catchUp, history
<1>2. /\ ref' \in Refreshes /\ ref'.pc \in {"capture", "read"}
      /\ ref'.base = ref.base /\ ref'.staged = ref.staged
  <2>1. CASE RefreshAsks
    <3>1. ref' = [ref EXCEPT !.pc = "capture", !.scope = access] /\ access \in SUBSET Vaults
      BY <2>1 DEF RefreshAsks, IInv, ServerTyped
    <3> QED
      BY <1>0, <3>1 DEF GoodRefresh, Refreshes
  <2>2. CASE RefreshCaptures
    <3> DEFINE newest == LatestIn(ref.scope)
    <3>1. ref' = [ref EXCEPT !.pc = "read", !.cursor = newest, !.scope = {}] /\ newest \in Cursors
      BY <2>2, LatestIs DEF RefreshCaptures, IInv
    <3> HIDE DEF newest
    <3> QED
      BY <1>0, <3>1 DEF GoodRefresh, Refreshes
  <2>3. CASE RefreshChecks
    <3>1. ref' = [ref EXCEPT !.pc = "read"]
      BY <2>3 DEF RefreshChecks
    <3> QED
      BY <1>0, <3>1 DEF GoodRefresh, Refreshes
  <2> QED
    BY <2>1, <2>2, <2>3
<1>3. GoodRefresh(ref', queue', meta)
  BY <1>0, <1>1, <1>2 DEF GoodRefresh
<1> QED
  BY <1>0, <1>1, <1>3, MemoryStep

\* The greatest item of a page.
LEMMA LastOfPage ==
    ASSUME NEW S \in SUBSET Items, S # {}
    PROVE  Max(S) \in S /\ \A i \in S : i <= Max(S)
<1>1. PICK n \in Items : Items \subseteq 1 .. n
  BY SyncAssumption
<1>2. n \in Nat
  BY <1>1
<1>3. S \subseteq 0 .. n
  BY <1>1, <1>2
<1>4. Max(S) \in S /\ \A i \in S : Max(S) >= i
  BY <1>2, <1>3, MaxIsGreatest
<1> QED
  BY <1>3, <1>4

\* A page of the bootstrap is staged.
LEMMA PageStep ==
    ASSUME IInv, RefreshPage
    PROVE  IInv' /\ CopyStep
<1>0. /\ GoodCatchUp(cu, meta) /\ GoodRefresh(ref, queue, meta)
      /\ conn \in BOOLEAN /\ ping \in BOOLEAN
      /\ again \in BOOLEAN /\ validated \in BOOLEAN /\ stranded \in BOOLEAN
      /\ stored \in Cursors \union {None} /\ missed \subseteq Items
  BY Parts
<1> DEFINE page == BootstrapPage(ref.at)
           more == page # BootstrapRest(ref.at)
           st == [i \in Items |-> IF i \in page THEN Seen(i) ELSE ref.staged[i]]
           sv == ref.stagedv \union {VaultOf[i] : i \in page}
           at == IF page = {} THEN ref.at ELSE Max(page)
           pc == IF more THEN "check" ELSE "promote"
<1>1. /\ UNCHANGED <<ver, trash, dead, access, log, pruned, conn, ping, stored, cache, cvaults, meta, cmd,
                     cu, again, validated, queue, kept, missed, stranded>>
      /\ ref' = [ref EXCEPT !.staged = st, !.stagedv = sv, !.at = at, !.pc = pc]
  BY DEF RefreshPage, server, channel, disk, catchUp, history
<1>2. page \in SUBSET Items
  BY DEF BootstrapPage, BootstrapRest, FirstOf
<1>3. /\ st \in [Items -> Versions] /\ \A i \in Items : st[i] <= ver[i]
  <2>1. \A i \in Items : Seen(i) \in Versions /\ Seen(i) <= ver[i]
    BY SeenIs DEF IInv
  <2> QED
    BY <1>0, <2>1 DEF GoodRefresh, Refreshes
<1>4. sv \in SUBSET Vaults
  BY <1>0, <1>2, SyncAssumption DEF GoodRefresh, Refreshes
<1>5. at \in Items \union {0}
  BY <1>0, <1>2, LastOfPage DEF GoodRefresh, Refreshes
<1>6. pc \in {"check", "promote"}
  OBVIOUS
<1> HIDE DEF page, more, st, sv, at, pc
<1>7. /\ ref' \in Refreshes /\ ref'.pc = pc /\ ref'.base = ref.base /\ ref'.staged = st
  <2> DEFINE r1 == [ref EXCEPT !.staged = st]
             r2 == [r1 EXCEPT !.stagedv = sv]
             r3 == [r2 EXCEPT !.at = at]
             r4 == [r3 EXCEPT !.pc = pc]
  <2>1. ref' = r4
    BY <1>1
  <2>2. r1 \in Refreshes /\ r1.base = ref.base /\ r1.staged = st
    BY <1>0, <1>3 DEF GoodRefresh, Refreshes
  <2> HIDE DEF r1
  <2>3. r2 \in Refreshes /\ r2.base = ref.base /\ r2.staged = st
    BY <1>4, <2>2 DEF Refreshes
  <2> HIDE DEF r2
  <2>4. r3 \in Refreshes /\ r3.base = ref.base /\ r3.staged = st
    BY <1>5, <2>3 DEF Refreshes
  <2> HIDE DEF r3
  <2>5. r4 \in Refreshes /\ r4.base = ref.base /\ r4.staged = st /\ r4.pc = pc
    BY <1>6, <2>4 DEF Refreshes
  <2> QED
    BY <2>1, <2>5
<1>8. GoodRefresh(ref', queue', meta)
  BY <1>0, <1>1, <1>3, <1>6, <1>7 DEF GoodRefresh
<1> QED
  BY <1>0, <1>1, <1>8, MemoryStep

\* A promotion drops items or moves them forward.
LEMMA PromotedGood ==
    ASSUME IInv
    PROVE  /\ GoodCache(Promoted)
           /\ \A i \in Items : Promoted[i] = 0 \/ cache[i] <= Promoted[i]
<1>0. GoodRefresh(ref, queue, meta) /\ GoodCache(cache)
  BY Parts
<1> DEFINE P(i) == IF VaultOf[i] \in ref.basev \ cvaults THEN 0
                   ELSE LET a == IF ref.base[i] # 0 /\ cache[i] = 0 THEN 0 ELSE ref.staged[i] IN
                        IF cache[i] # 0 /\ (ref.base[i] # cache[i] \/ (a # 0 /\ cache[i] > a))
                        THEN cache[i] ELSE a
<1>1. Promoted = [i \in Items |-> P(i)]
  BY DEF Promoted
<1>2. ASSUME NEW i \in Items
      PROVE  P(i) \in Versions /\ P(i) <= ver[i] /\ (P(i) = 0 \/ cache[i] <= P(i))
  <2>1. /\ cache[i] \in Versions /\ ref.staged[i] \in Versions /\ ver[i] \in Nat
        /\ cache[i] <= ver[i] /\ ref.staged[i] <= ver[i] /\ 0 \in Versions /\ Versions \subseteq Nat
    BY <1>0, Constants, SyncAssumption
    DEF GoodRefresh, GoodCache, Refreshes, IInv, ServerTyped
  <2>2. CASE VaultOf[i] \in ref.basev \ cvaults
    BY <2>1, <2>2
  <2>3. CASE VaultOf[i] \notin ref.basev \ cvaults
    <3> DEFINE a == IF ref.base[i] # 0 /\ cache[i] = 0 THEN 0 ELSE ref.staged[i]
    <3>1. P(i) = IF cache[i] # 0 /\ (ref.base[i] # cache[i] \/ (a # 0 /\ cache[i] > a))
                 THEN cache[i] ELSE a
      BY <2>3
    <3>2. a \in Versions /\ a <= ver[i]
      BY <2>1
    <3> HIDE DEF a, P
    <3>3. cache[i] \in Nat /\ a \in Nat
      BY <2>1, <3>2
    <3> QED
      BY <2>1, <3>1, <3>2, <3>3
  <2> QED
    BY <2>2, <2>3
<1> HIDE DEF P
<1> QED
  BY <1>1, <1>2 DEF GoodCache

\* The staged generation replaces the active one.
LEMMA PromotesStep ==
    ASSUME IInv, RefreshPromotes
    PROVE  IInv' /\ CopyStep
<1>0. /\ GoodCatchUp(cu, meta) /\ GoodRefresh(ref, queue, meta)
      /\ conn \in BOOLEAN /\ ping \in BOOLEAN
      /\ again \in BOOLEAN /\ validated \in BOOLEAN /\ stranded \in BOOLEAN
      /\ stored \in Cursors \union {None} /\ kept \subseteq Items /\ missed \subseteq Items
      /\ cvaults \subseteq Vaults
  BY Parts
<1>1. /\ UNCHANGED <<ver, trash, dead, access, log, pruned, conn, ping, stored, cmd,
                     cu, again, validated, queue, missed, stranded>>
      /\ cache' = Promoted /\ cvaults' = PromotedVaults /\ meta' = ref.cursor
      /\ ref' = [ref EXCEPT !.pc = "restore"]
      /\ kept' \subseteq kept
  BY DEF RefreshPromotes, server, channel, catchUp
<1>2. meta' \in Cursors /\ meta' # None
  BY <1>0, <1>1, Constants DEF GoodRefresh, Refreshes
<1>3. cvaults' \subseteq Vaults
  BY <1>0, <1>1 DEF PromotedVaults, GoodRefresh, Refreshes
<1>4. /\ ref' \in Refreshes /\ ref'.base = ref.base /\ ref'.staged = ref.staged
  BY <1>0, <1>1 DEF GoodRefresh, Refreshes
<1>5. GoodRefresh(ref', queue', meta')
  BY <1>0, <1>1, <1>2, <1>4 DEF GoodRefresh
<1>6. GoodCatchUp(cu', meta')
  BY <1>0, <1>1, <1>2 DEF GoodCatchUp
<1>7. GoodCache(cache') /\ \A i \in Items : cache'[i] = 0 \/ cache[i] <= cache'[i]
  BY <1>1, PromotedGood
<1> QED
  BY <1>0, <1>1, <1>2, <1>3, <1>5, <1>6, <1>7, ClientStep

\* The bases of conflicts are put back.
LEMMA RestoresStep ==
    ASSUME IInv, RefreshRestores
    PROVE  IInv' /\ CopyStep
<1>0. /\ GoodCatchUp(cu, meta) /\ GoodRefresh(ref, queue, meta) /\ GoodCache(cache)
      /\ conn \in BOOLEAN /\ ping \in BOOLEAN /\ validated \in BOOLEAN
      /\ stored \in Cursors \union {None} /\ kept \subseteq Items /\ missed \subseteq Items
      /\ cvaults \subseteq Vaults
      /\ meta \in Cursors \union {None}
  BY Parts
<1> DEFINE back == {i \in ref.bases : cache[i] = 0}
<1>1. /\ UNCHANGED <<ver, trash, dead, access, log, pruned, conn, ping, stored, cvaults, meta, cmd, validated,
                     missed>>
      /\ ref.pc = "restore"
      /\ cache' = [i \in Items |-> IF i \in back THEN ref.base[i] ELSE cache[i]]
      /\ kept' = kept \union back
      /\ RefreshSettles(TRUE, cache', cvaults)
  BY DEF RefreshRestores, server, channel
<1>2. meta # None
  BY <1>0, <1>1 DEF GoodRefresh
<1>3. GoodCache(cache')
  BY <1>0, <1>1 DEF GoodCache, GoodRefresh, Refreshes
<1>4. \A i \in Items : cache[i] <= cache'[i]
  <2>1. \A i \in Items : cache[i] \in Nat /\ ref.base[i] \in Nat
    BY <1>0, Constants DEF GoodCache, GoodRefresh, Refreshes
  <2> QED
    BY <1>1, <2>1
<1>5. kept' \subseteq Items
  BY <1>0, <1>1 DEF GoodRefresh, Refreshes
<1>6. /\ GoodCatchUp(cu', meta) /\ GoodRefresh(ref', queue', meta)
      /\ again' \in BOOLEAN /\ stranded' \in BOOLEAN
  BY <1>0, <1>1, <1>2, <1>3, SettlesGood
<1> QED
  BY <1>0, <1>1, <1>3, <1>4, <1>5, <1>6, ClientStep

\* The server refuses a later page.
LEMMA RefreshRefusedStep ==
    ASSUME IInv, RefreshRefused
    PROVE  IInv' /\ CopyStep
BY RefreshFailsStep DEF RefreshRefused

\* A refresh begins, or is queued behind the one under way.
LEMMA AfterInFlight ==
    ASSUME IInv, NEW w \in Callers, RefreshAfterInFlight(w)
    PROVE  GoodRefresh(ref', queue', meta)
<1>0. GoodRefresh(ref, queue, meta) /\ GoodCache(cache) /\ cvaults \in SUBSET Vaults
  BY Parts
<1>1. CASE ref.pc = "none"
  <2>1. ref' = Begun({w}, cache, cvaults) /\ queue' = queue
    BY <1>1 DEF RefreshAfterInFlight
  <2>2. {w} \in SUBSET Callers /\ queue \in SUBSET Callers
    BY <1>0 DEF GoodRefresh
  <2> QED
    BY <1>0, <2>1, <2>2, BegunGood
<1>2. CASE ref.pc # "none"
  <2>1. ref' = ref /\ queue' = queue \union {w}
    BY <1>2 DEF RefreshAfterInFlight
  <2> QED
    BY <1>0, <2>1 DEF GoodRefresh
<1> QED
  BY <1>1, <1>2

\* A mutation hook asks for a refresh.
LEMMA SideRefreshStep ==
    ASSUME IInv, SideRefresh
    PROVE  IInv' /\ CopyStep
<1>1. /\ UNCHANGED <<ver, trash, dead, access, log, pruned, conn, ping, stored, cache, cvaults, meta, cmd,
                     cu, again, validated, kept, missed, stranded>>
      /\ RefreshAfterInFlight("side")
  BY DEF SideRefresh, server, channel, disk, catchUp, history
<1>2. GoodRefresh(ref', queue', meta)
  BY <1>1, AfterInFlight DEF Callers
<1> QED
  BY <1>1, <1>2, Parts, MemoryStep

(***************************************************************************)
(* The catch-up.                                                           *)
(***************************************************************************)

\* A catch-up that begins: with the stored position, with the position of a committed
\* generation, or with a first hydration.
LEMMA RequestGood ==
    ASSUME IInv, RequestCatchUp
    PROVE  /\ UNCHANGED <<ver, trash, dead, access, log, pruned, cmd, cache, cvaults, meta, kept, missed>>
           /\ GoodCatchUp(cu', meta) /\ GoodRefresh(ref', queue', meta)
           /\ again' \in BOOLEAN /\ validated' \in BOOLEAN /\ stranded' \in BOOLEAN
           /\ stored' \in Cursors \union {None}
<1>0. /\ GoodCatchUp(cu, meta) /\ GoodRefresh(ref, queue, meta) /\ GoodCache(cache)
      /\ again \in BOOLEAN /\ validated \in BOOLEAN /\ stranded \in BOOLEAN
      /\ cvaults \in SUBSET Vaults
      /\ stored \in Cursors \union {None} /\ meta \in Cursors \union {None}
  BY Parts
<1>1. UNCHANGED <<ver, trash, dead, access, log, pruned, cmd, cache, cvaults, meta, kept, missed,
               queue>>
  BY DEF RequestCatchUp, server
<1>2. ASSUME NEW c \in Cursors, cu' = [Idle EXCEPT !.pc = "fetch", !.cursor = c]
      PROVE  GoodCatchUp(cu', meta)
  <2>1. /\ cu' \in CatchUps /\ cu'.pc = "fetch" /\ cu'.events = {} /\ cu'.got = NoAnswer
    BY <1>2, IdleIs
  <2> QED
    BY <2>1, FreshCatchUp
<1>3. CASE cu.pc # "idle"
  <2>1. again' = TRUE /\ UNCHANGED <<cu, ref, stored, validated, stranded>>
    BY <1>3 DEF RequestCatchUp
  <2> QED
    BY <1>0, <1>1, <2>1
<1>4. CASE cu.pc = "idle" /\ stored # None /\ validated
  <2>1. /\ again' = FALSE /\ stranded' = FALSE
        /\ cu' = [Idle EXCEPT !.pc = "fetch", !.cursor = stored]
        /\ UNCHANGED <<ref, stored, validated>>
    BY <1>4 DEF RequestCatchUp
  <2>2. GoodCatchUp(cu', meta)
    BY <1>0, <1>2, <1>4, <2>1
  <2> QED
    BY <1>0, <1>1, <2>1, <2>2
<1>5. CASE cu.pc = "idle" /\ ~(stored # None /\ validated) /\ meta # None
  <2>1. /\ again' = FALSE /\ stranded' = FALSE
        /\ stored' = BaselineCursor /\ validated' = TRUE
        /\ cu' = [Idle EXCEPT !.pc = "fetch", !.cursor = BaselineCursor]
        /\ UNCHANGED ref
    BY <1>5 DEF RequestCatchUp
  <2>2. BaselineCursor \in Cursors
    BY <1>0, <1>5, Constants DEF BaselineCursor, None
  <2>3. GoodCatchUp(cu', meta)
    BY <1>2, <2>1, <2>2
  <2> QED
    BY <1>0, <1>1, <2>1, <2>2, <2>3
<1>6. CASE cu.pc = "idle" /\ ~(stored # None /\ validated) /\ meta = None
  <2>1. /\ again' = FALSE /\ stranded' = FALSE
        /\ cu' = [Idle EXCEPT !.pc = "hydrate"]
        /\ ref' = IF ref.pc = "none" THEN Begun({"catchUp"}, cache, cvaults)
                                     ELSE [ref EXCEPT !.waiters = @ \union {"catchUp"}]
        /\ UNCHANGED <<stored, validated>>
    BY <1>6 DEF RequestCatchUp, HydrateFirst
  <2>2. GoodCatchUp(cu', meta)
    BY <2>1, IdleIs, FreshCatchUp
  <2>3. CASE ref.pc = "none"
    <3>1. ref' = Begun({"catchUp"}, cache, cvaults) /\ queue' = queue
      BY <1>1, <2>1, <2>3
    <3>2. {"catchUp"} \in SUBSET Callers /\ queue \in SUBSET Callers
      BY <1>0 DEF GoodRefresh, Callers
    <3>3. GoodRefresh(ref', queue', meta)
      BY <1>0, <3>1, <3>2, BegunGood
    <3> QED
      BY <1>0, <1>1, <2>1, <2>2, <3>3
  <2>4. CASE ref.pc # "none"
    <3>1. ref' = [ref EXCEPT !.waiters = @ \union {"catchUp"}]
      BY <2>1, <2>4
    <3>2. /\ ref' \in Refreshes /\ ref'.pc = ref.pc /\ ref'.base = ref.base
          /\ ref'.staged = ref.staged
      BY <1>0, <3>1 DEF GoodRefresh, Refreshes, Callers
    <3>3. GoodRefresh(ref', queue', meta)
      BY <1>0, <1>1, <3>2 DEF GoodRefresh
    <3> QED
      BY <1>0, <1>1, <2>1, <2>2, <3>3
  <2> QED
    BY <2>3, <2>4
<1> QED
  BY <1>0, <1>3, <1>4, <1>5, <1>6

\* A stream opens or a ping arrives.
LEMMA RequestStep ==
    ASSUME IInv, Connect \/ PingArrives
    PROVE  IInv' /\ CopyStep
<1>1. RequestCatchUp /\ conn' \in BOOLEAN /\ ping' \in BOOLEAN
  BY Parts DEF Connect, PingArrives
<1> QED
  BY <1>1, RequestGood, Parts, MemoryStep

\* The stream ends.
LEMMA StreamEndsStep ==
    ASSUME IInv, StreamEnds
    PROVE  IInv' /\ CopyStep
<1>1. /\ UNCHANGED <<ver, trash, dead, access, log, pruned, stored, cache, cvaults, meta, cmd,
                     cu, again, validated, ref, queue, kept, missed, stranded>>
      /\ conn' = FALSE /\ ping' = FALSE
  BY DEF StreamEnds, server, disk, catchUp, refresh, history
<1> QED
  BY <1>1, Parts, MemoryStep

\* The catch-up takes the position of a hydrated generation.
LEMMA BaselineStep ==
    ASSUME IInv, CatchUpBaseline
    PROVE  IInv' /\ CopyStep
<1>0. GoodCatchUp(cu, meta) /\ meta \in Cursors \union {None}
  BY Parts
<1>1. /\ UNCHANGED <<ver, trash, dead, access, log, pruned, conn, ping, cache, cvaults, meta, cmd,
                     again, ref, queue, kept, missed, stranded>>
      /\ cu.pc = "baseline" /\ stored' = meta /\ validated' = TRUE
      /\ cu' = [cu EXCEPT !.pc = "fetch", !.cursor = meta]
  BY DEF CatchUpBaseline, server, channel, refresh, history
<1>2. meta \in Cursors
  BY <1>0, <1>1 DEF GoodCatchUp
<1> DEFINE x == [cu EXCEPT !.pc = "fetch"]
<1>3. GoodCatchUp(x, meta)
  BY <1>0, CatchUpMoves
<1>4. cu' = [x EXCEPT !.cursor = meta]
  BY <1>1
<1>5. x.pc = "fetch"
  BY <1>0 DEF GoodCatchUp, CatchUps
<1> HIDE DEF x
<1>6. cu' \in CatchUps /\ cu'.pc = "fetch" /\ cu'.events = x.events /\ cu'.got = x.got
  BY <1>2, <1>3, <1>4, <1>5 DEF GoodCatchUp, CatchUps
<1>7. GoodCatchUp(cu', meta)
  BY <1>3, <1>6 DEF GoodCatchUp
<1> QED
  BY <1>1, <1>2, <1>7, Parts, MemoryStep

\* The server looks up the user's vaults and the cursor.
LEMMA AsksStep ==
    ASSUME IInv, CatchUpAsks
    PROVE  IInv' /\ CopyStep
<1>0. GoodCatchUp(cu, meta)
  BY Parts
<1> DEFINE pc == IF cu.cursor = 0 \/ Visible(cu.cursor) THEN "events" ELSE "latest"
<1>1. /\ UNCHANGED <<ver, trash, dead, access, log, pruned, conn, ping, stored, cache, cvaults, meta,
                     cmd, again, validated, ref, queue, kept, missed, stranded>>
      /\ cu' = [cu EXCEPT !.scope = access, !.pc = pc]
  BY DEF CatchUpAsks, server, channel, disk, refresh, history
<1>2. access \in SUBSET Vaults /\ pc \in {"events", "latest"}
  BY DEF IInv, ServerTyped
<1> HIDE DEF pc
<1>3. /\ cu' \in CatchUps /\ cu'.pc = pc /\ cu'.events = cu.events /\ cu'.got = cu.got
  BY <1>0, <1>1, <1>2 DEF GoodCatchUp, CatchUps
<1>4. GoodCatchUp(cu', meta)
  BY <1>0, <1>2, <1>3 DEF GoodCatchUp
<1> QED
  BY <1>1, <1>4, Parts, MemoryStep

\* A catch-up that takes an answer.
LEMMA AnsweredGood ==
    ASSUME IInv, NEW m, GoodCatchUp(cu, m), NEW pc \in {"refresh", "apply"}, NEW c \in Cursors,
           NEW es \in SUBSET Cursors, es \subseteq DOMAIN log, NEW more \in BOOLEAN, NEW x,
           x = [cu EXCEPT !.pc = pc, !.scope = {}, !.events = es, !.more = more, !.cursor = c]
    PROVE  GoodCatchUp(x, m)
<1> DEFINE c1 == [cu EXCEPT !.pc = pc]
           c2 == [c1 EXCEPT !.scope = {}]
           c3 == [c2 EXCEPT !.events = es]
           c4 == [c3 EXCEPT !.more = more]
           c5 == [c4 EXCEPT !.cursor = c]
<1>1. x = c5
  OBVIOUS
<1>2. c1 \in CatchUps /\ c1.pc = pc /\ c1.got = cu.got
  BY DEF GoodCatchUp, CatchUps
<1> HIDE DEF c1
<1>3. c2 \in CatchUps /\ c2.pc = pc /\ c2.got = cu.got
  BY <1>2 DEF CatchUps
<1> HIDE DEF c2
<1>4. c3 \in CatchUps /\ c3.pc = pc /\ c3.got = cu.got /\ c3.events = es
  BY <1>3 DEF CatchUps
<1> HIDE DEF c3
<1>5. c4 \in CatchUps /\ c4.pc = pc /\ c4.got = cu.got /\ c4.events = es
  BY <1>4 DEF CatchUps
<1> HIDE DEF c4
<1>6. c5 \in CatchUps /\ c5.pc = pc /\ c5.got = cu.got /\ c5.events = es
  BY <1>5 DEF CatchUps
<1> QED
  BY <1>1, <1>6 DEF GoodCatchUp

\* The server answers with a page of events.
LEMMA FetchStep ==
    ASSUME IInv, CatchUpFetches
    PROVE  IInv' /\ CopyStep
<1>0. GoodCatchUp(cu, meta) /\ missed \subseteq Items
  BY Parts
<1> DEFINE all == EventsSince(cu.cursor, cu.scope)
           es == FirstOf(all, EventLimit)
           more == es # all
           next == IF es = {} THEN cu.cursor ELSE Max(es)
<1>1. /\ UNCHANGED <<ver, trash, dead, access, log, pruned, conn, ping, stored, cache, cvaults, meta,
                     cmd, again, validated, ref, queue, kept, stranded>>
      /\ cu' = [cu EXCEPT !.pc = "apply", !.scope = {}, !.events = es, !.more = more,
                          !.cursor = next]
      /\ missed' \subseteq missed \union Items
  BY DEF CatchUpFetches, server, channel, disk, refresh
<1>2. cu.cursor \in Cursors
  BY <1>0 DEF GoodCatchUp, CatchUps
<1>3. /\ es \subseteq DOMAIN log /\ es \in SUBSET Cursors /\ more \in BOOLEAN
      /\ next \in Cursors
  BY <1>2, PageIs DEF IInv
<1> HIDE DEF all, es, more, next
<1>4. GoodCatchUp(cu', meta)
  BY <1>0, <1>1, <1>3, AnsweredGood
<1>5. missed' \subseteq Items
  BY <1>0, <1>1
<1> QED
  BY <1>1, <1>4, <1>5, Parts, MemoryStep

\* The server demands a full refresh.
LEMMA DemandStep ==
    ASSUME IInv, CatchUpRefused
    PROVE  IInv' /\ CopyStep
<1>0. GoodCatchUp(cu, meta)
  BY Parts
<1> DEFINE newest == LatestIn(cu.scope)
           next == IF newest = 0 THEN cu.cursor ELSE newest
<1>1. /\ UNCHANGED <<ver, trash, dead, access, log, pruned, conn, ping, stored, cache, cvaults, meta,
                     cmd, again, validated, kept, missed, stranded>>
      /\ cu' = [cu EXCEPT !.pc = "refresh", !.scope = {}, !.events = {}, !.more = FALSE,
                          !.cursor = next]
      /\ RefreshAfterInFlight("catchUp")
  BY DEF CatchUpRefused, server, channel, disk, history
<1>2. next \in Cursors
  BY <1>0, LatestIs DEF IInv, GoodCatchUp, CatchUps
<1> HIDE DEF newest, next
<1>3. GoodCatchUp(cu', meta)
  BY <1>0, <1>1, <1>2, AnsweredGood
<1>4. GoodRefresh(ref', queue', meta)
  BY <1>1, AfterInFlight DEF Callers
<1> QED
  BY <1>1, <1>3, <1>4, Parts, MemoryStep

\* The event a page has to apply next.
LEMMA HeadIs ==
    ASSUME IInv, cu.events # {}
    PROVE  /\ NextEvent \in cu.events /\ NextEvent \in DOMAIN log /\ NextEvent \in Cursors
           /\ HeadEvent \in Events
<1>1. cu.events \subseteq DOMAIN log
  BY DEF IInv, CatchUpTyped
<1>2. cu.events \subseteq Nat
  BY <1>1, LogShape DEF IInv
<1>3. NextEvent \in cu.events
  BY <1>2, MinIsLeast DEF NextEvent
<1> QED
  BY <1>1, <1>3, LogShape DEF IInv, HeadEvent

\* The catch-up asks for what an event is about.
LEMMA ReconciledStep ==
    ASSUME IInv, EventReconciled
    PROVE  IInv' /\ CopyStep
<1>0. GoodCatchUp(cu, meta)
  BY Parts
<1> DEFINE g == Reconciled(HeadEvent)
<1>1. /\ UNCHANGED <<ver, trash, dead, access, log, pruned, conn, ping, stored, cache, cvaults, meta, cmd,
                     again, validated, ref, queue, kept, stranded>>
      /\ missed' \subseteq missed \union Items
      /\ cu.events # {}
      /\ cu' = [cu EXCEPT !.pc = "write", !.got = g]
  BY DEF EventReconciled, ItemsOf, server, channel, disk, refresh
<1>2. NextEvent \in DOMAIN log
  BY <1>1, HeadIs
<1>3. g \in Answers /\ \A i \in DOMAIN g : g[i] <= ver[i]
  BY <1>2, ReconciledIs DEF IInv, HeadEvent
<1> HIDE DEF g
<1>4. cu' \in CatchUps /\ cu'.pc = "write" /\ cu'.events = cu.events /\ cu'.got = g
  <2> DEFINE c1 == [cu EXCEPT !.pc = "write"]
  <2>1. cu' = [c1 EXCEPT !.got = g]
    BY <1>1
  <2>2. c1 \in CatchUps /\ c1.pc = "write" /\ c1.events = cu.events
    BY <1>0 DEF GoodCatchUp, CatchUps
  <2> HIDE DEF c1
  <2> QED
    BY <1>3, <2>1, <2>2 DEF CatchUps
<1>5. GoodCatchUp(cu', meta)
  BY <1>0, <1>1, <1>3, <1>4 DEF GoodCatchUp
<1> QED
  BY <1>1, <1>5, Parts, MemoryStep

\* A catch-up that is given up.
LEMMA ThrowsStep ==
    ASSUME IInv, CatchUpThrows, UNCHANGED <<server, channel, disk, validated, refresh, kept, missed>>
    PROVE  IInv' /\ CopyStep
<1>1. /\ UNCHANGED <<ver, trash, dead, access, log, pruned, conn, ping, stored, cache, cvaults, meta, cmd,
                     validated, ref, queue, kept, missed>>
      /\ cu' = Idle /\ again' = FALSE /\ stranded' = conn
  BY DEF CatchUpThrows, server, channel, disk, refresh
<1>2. GoodCatchUp(cu', meta)
  BY <1>1, IdleIs, FreshCatchUp
<1> QED
  BY <1>1, <1>2, Parts, MemoryStep

\* Asking for an item or a vault that was lost ends the catch-up.
LEMMA RefusedStep ==
    ASSUME IInv, EventRefused
    PROVE  IInv' /\ CopyStep
BY ThrowsStep DEF EventRefused

\* A request fails.
LEMMA RequestFailsStep ==
    ASSUME IInv, RequestFails
    PROVE  IInv' /\ CopyStep
BY ThrowsStep, RefreshFailsStep DEF RequestFails

\* The answer to an event is written: removed, moved forward or left alone.
LEMMA WrittenStep ==
    ASSUME IInv, EventWritten
    PROVE  IInv' /\ CopyStep
<1>0. /\ GoodCatchUp(cu, meta) /\ GoodCache(cache) /\ kept \subseteq Items /\ cvaults \subseteq Vaults
      /\ meta \in Cursors \union {None}
  BY Parts
<1> DEFINE lost == IF HeadEvent.kind = "revoked" THEN ItemsOf(HeadEvent.vault) ELSE {}
           gone == {i \in DOMAIN cu.got : cu.got[i] = 0}
           W(i) == CASE i \in lost -> 0
                     [] i \in gone -> Removed(i)
                     [] i \in DOMAIN cu.got \ gone -> WriteNewer(i, cu.got[i])
                     [] OTHER -> cache[i]
<1>1. /\ UNCHANGED <<ver, trash, dead, access, log, pruned, conn, ping, stored, meta, cmd,
                     again, validated, ref, queue, missed, stranded>>
      /\ cu.pc = "write"
      /\ cu' = [cu EXCEPT !.pc = "acknowledge"]
      /\ cache' = [i \in Items |-> W(i)]
      /\ cvaults' \subseteq cvaults
      /\ kept' \subseteq kept \union DOMAIN cu.got
  BY DEF EventWritten, server, channel, refresh
<1>2. cu.got \in Answers
  BY <1>0 DEF GoodCatchUp, CatchUps
<1>3. DOMAIN cu.got \subseteq Items /\ \A i \in DOMAIN cu.got : cu.got[i] \in Versions
  BY <1>2, AnswerIs
<1>4. ASSUME NEW i \in Items
      PROVE  W(i) \in Versions /\ W(i) <= ver[i] /\ (W(i) = 0 \/ cache[i] <= W(i))
  <2> DEFINE Forward(x) == x \in Versions /\ x <= ver[i] /\ (x = 0 \/ cache[i] <= x)
  <2>1. /\ cache[i] \in Versions /\ cache[i] <= ver[i] /\ ver[i] \in Versions
    BY <1>0 DEF GoodCache, IInv, ServerTyped
  <2>2. cache[i] \in Nat /\ ver[i] \in Nat /\ 0 \in Versions
    BY <2>1, Constants
  <2>3. Forward(0) /\ Forward(cache[i])
    BY <2>1, <2>2
  <2>4. Forward(Removed(i))
    BY <2>3 DEF Removed
  <2>5. i \in DOMAIN cu.got => Forward(WriteNewer(i, cu.got[i]))
    <3> SUFFICES ASSUME i \in DOMAIN cu.got PROVE Forward(WriteNewer(i, cu.got[i]))
      OBVIOUS
    <3>1. cu.got[i] \in Versions /\ cu.got[i] <= ver[i]
      BY <1>0, <1>3 DEF GoodCatchUp
    <3>2. cu.got[i] \in Nat
      BY <3>1, Constants
    <3> QED
      BY <2>1, <2>2, <3>1, <3>2 DEF WriteNewer
  <2> HIDE DEF Forward
  <2>6. Forward(W(i))
    <3>1. CASE i \in lost
      BY <2>3, <2>4, <2>5, <3>1
    <3>2. CASE i \notin lost /\ i \in gone
      BY <2>4, <3>2
    <3>3. CASE i \notin lost /\ i \in DOMAIN cu.got \ gone
      BY <2>5, <3>3
    <3>4. CASE i \notin lost /\ i \notin DOMAIN cu.got
      BY <2>3, <3>4
    <3> QED
      BY <3>1, <3>2, <3>3, <3>4
  <2> QED
    BY <2>6 DEF Forward
<1> HIDE DEF W
<1>5. GoodCache(cache') /\ \A i \in Items : cache'[i] = 0 \/ cache[i] <= cache'[i]
  BY <1>1, <1>4 DEF GoodCache
<1>6. GoodCatchUp(cu', meta')
  <2>1. cu.events # {}
    BY <1>0, <1>1 DEF GoodCatchUp
  <2> QED
    BY <1>0, <1>1, <2>1, CatchUpMoves
<1>7. GoodRefresh(ref', queue', meta')
  BY <1>1, Parts
<1>8. kept' \subseteq Items /\ cvaults' \subseteq Vaults
  BY <1>0, <1>1, <1>3
<1> QED
  BY <1>0, <1>1, <1>5, <1>6, <1>7, <1>8, Parts, ClientStep

\* The stored cursor follows an applied event.
LEMMA AcknowledgedStep ==
    ASSUME IInv, EventAcknowledged
    PROVE  IInv' /\ CopyStep
<1>0. GoodCatchUp(cu, meta)
  BY Parts
<1> DEFINE es == cu.events \ {NextEvent}
<1>1. /\ UNCHANGED <<ver, trash, dead, access, log, pruned, conn, ping, cache, cvaults, meta, cmd,
                     again, validated, ref, queue, kept, missed, stranded>>
      /\ cu.pc = "acknowledge"
      /\ stored' = NextEvent
      /\ cu' = [cu EXCEPT !.pc = "apply", !.events = es, !.got = NoAnswer]
  BY DEF EventAcknowledged, server, channel, refresh, history
<1>2. NextEvent \in Cursors
  BY <1>0, <1>1, HeadIs DEF GoodCatchUp
<1>3. es \subseteq DOMAIN log /\ es \in SUBSET Cursors
  BY <1>0 DEF GoodCatchUp, CatchUps
<1> HIDE DEF es
<1>4. cu' \in CatchUps /\ cu'.pc = "apply" /\ cu'.events = es /\ cu'.got = NoAnswer
  <2> DEFINE c1 == [cu EXCEPT !.pc = "apply"]
             c2 == [c1 EXCEPT !.events = es]
  <2>1. cu' = [c2 EXCEPT !.got = NoAnswer]
    BY <1>1
  <2>2. c1 \in CatchUps /\ c1.pc = "apply"
    BY <1>0 DEF GoodCatchUp, CatchUps
  <2> HIDE DEF c1
  <2>3. c2 \in CatchUps /\ c2.pc = "apply" /\ c2.events = es
    BY <1>3, <2>2 DEF CatchUps
  <2> HIDE DEF c2
  <2> QED
    BY <2>1, <2>3, Constants DEF CatchUps
<1>5. GoodCatchUp(cu', meta)
  BY <1>3, <1>4, Constants DEF GoodCatchUp
<1> QED
  BY <1>1, <1>2, <1>5, Parts, MemoryStep

\* A page is done.
LEMMA PageDoneStep ==
    ASSUME IInv, PageDone
    PROVE  IInv' /\ CopyStep
<1>0. /\ GoodCatchUp(cu, meta) /\ again \in BOOLEAN
      /\ stored \in Cursors \union {None}
  BY Parts
<1>1. /\ UNCHANGED <<ver, trash, dead, access, log, pruned, conn, ping, cache, cvaults, meta, cmd,
                     validated, ref, queue, kept, missed, stranded>>
      /\ IF cu.more
         THEN cu' = [cu EXCEPT !.pc = "fetch"] /\ UNCHANGED stored
         ELSE /\ stored' = cu.cursor
              /\ cu' = IF again THEN [Idle EXCEPT !.pc = "fetch", !.cursor = cu.cursor] ELSE Idle
      /\ again' = (again /\ cu.more)
  BY DEF PageDone, server, channel, refresh, history
<1>2. cu.cursor \in Cursors /\ cu.more \in BOOLEAN
  BY <1>0 DEF GoodCatchUp, CatchUps
<1>3. again' \in BOOLEAN /\ stored' \in Cursors \union {None}
  BY <1>0, <1>1, <1>2
<1>4. GoodCatchUp(cu', meta)
  <2>1. CASE cu.more
    <3>1. cu' = [cu EXCEPT !.pc = "fetch"]
      BY <1>1, <2>1
    <3> QED
      BY <1>0, <3>1, CatchUpMoves
  <2>2. CASE ~cu.more /\ again
    <3>1. cu' = [Idle EXCEPT !.pc = "fetch", !.cursor = cu.cursor]
      BY <1>1, <2>2
    <3>2. cu' \in CatchUps /\ cu'.pc = "fetch" /\ cu'.events = {} /\ cu'.got = NoAnswer
      BY <1>2, <3>1, IdleIs
    <3> QED
      BY <3>2, FreshCatchUp
  <2>3. CASE ~cu.more /\ ~again
    <3>1. cu' = Idle
      BY <1>1, <2>3
    <3> QED
      BY <3>1, IdleIs, FreshCatchUp
  <2> QED
    BY <2>1, <2>2, <2>3
<1> QED
  BY <1>1, <1>3, <1>4, Parts, MemoryStep

\* The client restarts with what is on disk.
LEMMA RestartStep ==
    ASSUME IInv, Restart
    PROVE  IInv' /\ CopyStep
<1>1. /\ UNCHANGED <<ver, trash, dead, access, log, pruned, stored, cache, cvaults, meta, cmd, kept, missed>>
      /\ conn' = FALSE /\ ping' = FALSE /\ cu' = Idle /\ again' = FALSE /\ validated' = FALSE
      /\ ref' = NoRefresh /\ queue' = {} /\ stranded' = FALSE
  BY DEF Restart, server, disk
<1>2. GoodCatchUp(cu', meta)
  BY <1>1, IdleIs, FreshCatchUp
<1>3. GoodRefresh(ref', queue', meta)
  <2>1. GoodCache(cache) /\ {} \in SUBSET Callers /\ {} \in SUBSET Vaults
    BY Parts
  <2>2. GoodRefresh(NoRefresh, {}, meta)
    BY <2>1, BegunGood
  <2> QED
    BY <1>1, <2>2
<1> QED
  BY <1>1, <1>2, <1>3, Parts, MemoryStep

(***************************************************************************)
(* The theorems.                                                           *)
(***************************************************************************)

\* A sequence of one element.
LEMMA Singleton ==
    ASSUME NEW S, NEW x \in S
    PROVE  <<x>> \in Seq(S) /\ Len(<<x>>) = 1 /\ DOMAIN <<x>> = 1 .. 1 /\ <<x>>[1] = x
OBVIOUS

\* The invariant holds at the start.
LEMMA InitIInv ==
    ASSUME Init
    PROVE  IInv
<1> USE DEF Init
<1>1. ServerTyped /\ OpenAlone
  <2>1. /\ ver \in [Items -> Versions] /\ trash \subseteq Items /\ dead \subseteq Items
        /\ access \subseteq Vaults
    BY SyncAssumption DEF Versions
  <2> DEFINE e == Event("shared", 0, Home, TRUE)
  <2>2. e \in Events /\ e.kind = "shared" /\ e.done = TRUE
    BY SyncAssumption DEF Event, Events
  <2>3. log = IF NullCursor THEN <<>> ELSE <<e>>
    OBVIOUS
  <2> HIDE DEF e
  <2>4. /\ log \in Seq(Events) /\ Len(log) <= MaxLog /\ 0 \in 0 .. Len(log)
        /\ \A n \in DOMAIN log : log[n] = e
    <3>1. CASE NullCursor
      BY <2>3, <3>1, SyncAssumption
    <3>2. CASE ~NullCursor
      <4>1. log = <<e>>
        BY <2>3, <3>2
      <4>2. log \in Seq(Events) /\ Len(log) = 1 /\ DOMAIN log = 1 .. 1 /\ log[1] = e
        BY <2>2, <4>1, Singleton
      <4>3. \A n \in 1 .. 1 : n = 1
        OBVIOUS
      <4>4. 1 <= MaxLog /\ 0 \in 0 .. 1
        BY SyncAssumption
      <4> QED
        BY <4>2, <4>3, <4>4
    <3> QED
      BY <3>1, <3>2
  <2> QED
    BY <2>1, <2>2, <2>4 DEF ServerTyped, OpenAlone
<1>2. DiskTyped
  BY Constants, NoCommandIs DEF DiskTyped
<1>3. CatchUpTyped /\ RefreshTyped
  BY IdleIs, NoRefreshIs DEF CatchUpTyped, RefreshTyped
<1>4. Published
  <2> SUFFICES ASSUME NEW i \in Items
               PROVE  /\ cache[i] <= ver[i] /\ ref.base[i] <= ver[i] /\ ref.staged[i] <= ver[i]
                      /\ cmd[i].st = "served" => cmd[i].v <= ver[i]
                      /\ i \in DOMAIN cu.got => cu.got[i] <= ver[i]
    BY DEF Published
  <2>1. ver[i] \in Nat
    OBVIOUS
  <2>2. cache[i] = 0 /\ ref.base[i] = 0 /\ ref.staged[i] = 0
    BY NoRefreshIs DEF Nothing
  <2>3. cmd[i].st = "none" /\ DOMAIN cu.got = {}
    BY NoCommandIs, IdleIs, Constants
  <2> QED
    BY <2>1, <2>2, <2>3
<1> QED
  BY <1>1, <1>2, <1>3, <1>4 DEF IInv

\* Every step keeps the invariant, and is a step of the copy or leaves it alone.
LEMMA StepIInv ==
    ASSUME IInv, Next
    PROVE  IInv' /\ CopyStep
<1>1. CASE ServerSteps
  BY <1>1, OtherWritesStep, OtherPurgesStep, ServeStep, RefuseStep, OtherCommitsStep, PruneStep,
     AccessStep DEF ServerSteps
<1>2. CASE CatchUpSteps
  BY <1>2, BaselineStep, AsksStep, FetchStep, DemandStep, ReconciledStep, RefusedStep, WrittenStep, AcknowledgedStep,
     PageDoneStep DEF CatchUpSteps
<1>3. CASE RefreshSteps
  BY <1>3, AnswersStep, PageStep, RefreshRefusedStep, PromotesStep, RestoresStep DEF RefreshSteps
<1>4. CASE ClientSteps
  BY <1>4, RequestStep, StreamEndsStep, SideRefreshStep, RequestFailsStep, RestartStep, EditStep,
     AcknowledgeStep DEF ClientSteps
<1> QED
  BY <1>1, <1>2, <1>3, <1>4 DEF Next

\* So does a step that changes nothing.
LEMMA StutterIInv ==
    ASSUME IInv, UNCHANGED vars
    PROVE  IInv' /\ CopyStep
<1>1. UNCHANGED <<ver, trash, dead, access, log, pruned, conn, ping, stored, cache, cvaults, meta, cmd,
                  cu, again, validated, ref, queue, kept, missed, stranded>>
  BY DEF vars, server, channel, disk, catchUp, refresh, history
<1> QED
  BY <1>1, Parts, MemoryStep

\* The inductive invariant holds always.
THEOREM Inductive == Spec => []IInv
<1>1. Init => IInv
  BY InitIInv
<1>2. IInv /\ [Next]_vars => IInv'
  BY StepIInv, StutterIInv
<1> QED
  BY <1>1, <1>2, PTL DEF Spec

\* The state of server and client stays within its types, in whatever order
\* transactions commit, and whether the feed is empty at first or not.
THEOREM TypeCorrect == Spec => []TypeOK
<1>1. IInv => TypeOK
  <2> SUFFICES ASSUME IInv PROVE TypeOK
    OBVIOUS
  <2>1. log \in Seq([kind : {"item", "purged", "shared", "revoked"}, of : Items \union {0},
                     vault : Vaults, done : BOOLEAN])
    BY DEF IInv, ServerTyped, Events
  <2>2. /\ ver \in [Items -> Versions] /\ trash \union dead \subseteq Items
        /\ access \subseteq Vaults /\ Len(log) <= MaxLog /\ pruned \in 0 .. Len(log)
    BY DEF IInv, ServerTyped
  <2>3. /\ {conn, ping, again, validated, stranded} \subseteq BOOLEAN
        /\ {stored, meta} \subseteq Cursors \union {None}
        /\ kept \union missed \subseteq Items
    BY Parts
  <2>4. /\ cache \in [Items -> Versions] /\ cvaults \subseteq Vaults
        /\ cmd \in [Items -> [st : {"none", "queued", "served"}, v : Versions]]
    BY DEF IInv, DiskTyped, Commands
  <2>5. /\ cu.pc \in {"idle", "hydrate", "baseline", "fetch", "events", "latest", "refresh",
                      "apply", "write", "acknowledge"}
        /\ cu.scope \subseteq Vaults
        /\ cu.cursor \in Cursors /\ cu.events \subseteq Cursors /\ cu.more \in BOOLEAN
        /\ cu.tries \in 0 .. 2 /\ cu.got \in Answers
    BY DEF IInv, CatchUpTyped, CatchUps
  <2>6. DOMAIN cu.got \subseteq Items
    BY <2>5, AnswerIs
  <2>7. /\ ref.pc \in {"none", "ask", "capture", "read", "check", "promote", "restore"}
        /\ ref.scope \subseteq Vaults
        /\ ref.waiters \union queue \subseteq {"catchUp", "side"}
        /\ ref.cursor \in Cursors /\ ref.at \in Items \union {0}
        /\ ref.base \in [Items -> Versions] /\ ref.staged \in [Items -> Versions]
        /\ ref.basev \union ref.stagedv \subseteq Vaults
        /\ ref.bases \subseteq Items
    BY DEF IInv, RefreshTyped, Refreshes, Callers
  <2> QED
    BY <2>1, <2>2, <2>3, <2>4, <2>5, <2>6, <2>7 DEF TypeOK
<1> QED
  BY <1>1, Inductive, PTL

\* The cache implements a copy that only moves forward: however catch-ups, full
\* refreshes, acknowledgements, failures and restarts interleave, an item of the cache is
\* absent or a version that was published, and a step drops it or brings a later one.
THEOREM CacheImplementsCopy == Spec => CopySpec
<1>1. Init => Copy!Init
  <2> SUFFICES ASSUME Init PROVE Copy!Init
    OBVIOUS
  <2> QED
    BY DEF Init, Nothing, Copy!Init
<1>2. IInv /\ [Next]_vars => [Copy!Next]_(Copy!vars)
  <2> SUFFICES ASSUME IInv, [Next]_vars PROVE [Copy!Next]_(Copy!vars)
    OBVIOUS
  <2>1. CopyStep
    BY StepIInv, StutterIInv
  <2>2. CASE UNCHANGED <<ver, cache>>
    BY <2>2 DEF Copy!vars
  <2>3. CASE \E i \in Items : ver' = [ver EXCEPT ![i] = @ + 1] /\ UNCHANGED cache
    BY <2>3 DEF Copy!Next, Copy!Publish
  <2>4. CASE /\ UNCHANGED ver
             /\ cache' \in [Items -> Versions]
             /\ \A i \in Items : cache'[i] = 0 \/ (cache[i] <= cache'[i] /\ cache'[i] <= ver[i])
    <3>1. ASSUME NEW i \in Items
          PROVE  /\ cache'[i] \in 0 .. ver[i]
                 /\ cache'[i] = 0 \/ cache'[i] \in cache[i] .. ver[i]
      <4>1. cache[i] \in Nat /\ cache'[i] \in Nat /\ ver[i] \in Nat
        BY <2>4, Constants DEF IInv, DiskTyped, ServerTyped
      <4> QED
        BY <2>4, <4>1
    <3>2. cache' \in [Items -> UNION {0 .. ver[i] : i \in Items}]
      BY <2>4, <3>1
    <3>3. Copy!Learn
      BY <2>4, <3>1, <3>2 DEF Copy!Learn
    <3> QED
      BY <3>3 DEF Copy!Next
  <2> QED
    BY <2>1, <2>2, <2>3, <2>4 DEF CopyStep
<1> QED
  BY <1>1, <1>2, Inductive, PTL DEF Spec, CopySpec, Copy!Spec
=============================================================================
