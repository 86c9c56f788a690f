------------------------ MODULE OutboundQueueProofs ------------------------
(***************************************************************************)
(* Theorems about OutboundQueue, for any commands, engines, retry limit    *)
(* and number of restarts, and however the calls of an engine overlap.     *)
(***************************************************************************)
EXTENDS OutboundQueue, FiniteSetTheorems, SequenceTheorems, WellFoundedInduction, TLAPS

(***************************************************************************)
(* The inductive invariant of types and acknowledgements.                  *)
(***************************************************************************)

Slots == Entries \cup {None}
Queues == [Cmds -> Slots]
Jobs == [kind : {"write", "ack"}, for : {"enqueue", "drain", "restore"}, cmd : Cmds \cup {0}]
Runs == [running : BOOLEAN, same : SUBSET Cmds, queue : Queues]
Drains == [pc : {"idle", "client", "sent", "splice", "saving"}, cmd : Cmds \cup {0}, at : Nat,
           attached : BOOLEAN, live : BOOLEAN]

Typed ==
    /\ doc \in Queues /\ mem \in [Engines -> Queues] /\ known \in [Engines -> Queues]
    /\ jobs \in [Engines -> Seq(Jobs)]
    /\ merged \in [Engines -> Runs]
    /\ enq \in [Cmds -> EnqSteps] /\ home \in [Cmds -> Engines]
    /\ attached \in [Cmds -> BOOLEAN]
    /\ drain \in [Engines -> Drains]
    /\ acked \subseteq Cmds /\ served \subseteq Cmds /\ lost \subseteq Cmds
    /\ restarts \in 0 .. MaxRestarts

\* A job runs at the head of the chain, an acknowledgement is of a command that was
\* served, and a call awaits the job that names it.
ChainGood(e) ==
    /\ merged[e].running => jobs[e] # <<>>
    /\ \A n \in DOMAIN jobs[e] :
         /\ jobs[e][n].kind = "ack" =>
              jobs[e][n].cmd \in served /\ jobs[e][n].for = "drain"
         /\ jobs[e][n].for = "enqueue" =>
              jobs[e][n].cmd \in Cmds /\ home[jobs[e][n].cmd] = e
    /\ drain[e].pc # "idle" => drain[e].cmd \in Cmds
    /\ drain[e].pc = "splice" => drain[e].cmd \in served
ChainsGood == \A e \in Engines : ChainGood(e)

\* Engine e has heard nothing of command c.
Unheard(e, c) ==
    /\ mem[e][c] = None /\ known[e][c] = None /\ merged[e].queue[c] = None
    /\ drain[e].cmd # c
    /\ \A n \in DOMAIN jobs[e] : jobs[e][n].cmd # c

\* A command that is not in the queue yet is nowhere.
NewUnheard ==
    \A c \in Cmds : enq[c] = "new" =>
        doc[c] = None /\ c \notin acked /\ \A e \in Engines : Unheard(e, c)

\* A command that was added to a memory and not written yet is in that memory only.
Added(e, c) == mem[e][c] # None /\ known[e][c] = None /\ ~merged[e].running
AddedUnheard ==
    \A e \in Engines, c \in Cmds :
        Added(e, c) =>
            /\ home[c] = e /\ doc[c] = None /\ c \notin acked
            /\ \A f \in Engines \ {e} : Unheard(f, c)

IInv == Typed /\ ChainsGood /\ NewUnheard /\ AddedUnheard /\ NeverResurrected

(***************************************************************************)
(* What leaves a queue, and why.                                           *)
(***************************************************************************)

\* Every way out of a queue is accounted for: the server has executed the command, or a
\* memory lost it by mistake.  What an engine knows of, and what it is about to adopt, is
\* in the document or accounted for.
Gone(c) == c \in served \cup lost
Kept(c) == doc[c] # None \/ Gone(c)
SlotKept(e, c) ==
    /\ known[e][c] # None => Kept(c)
    /\ known[e][c] # None /\ mem[e][c] = None => Gone(c)
    /\ merged[e].running =>
         /\ merged[e].queue[c] # None => Kept(c)
         /\ c \in merged[e].same => merged[e].queue[c] # None

\* A call that awaits its first write has its command in memory, or it is accounted for;
\* once that write has updated the document the command is accounted for.
CallKept(c) ==
    /\ enq[c] \notin {"new", "persist", "crashed"} => Kept(c)
    /\ enq[c] = "persist" =>
         /\ mem[home[c]][c] # None \/ Kept(c)
         /\ merged[home[c]].running /\ jobs[home[c]][1].for = "enqueue"
              /\ jobs[home[c]][1].cmd = c => Kept(c)
AInv == (\A e \in Engines, c \in Cmds : SlotKept(e, c)) /\ \A c \in Cmds : CallKept(c)

(***************************************************************************)
(* Entries, positions and the two updates of the document.                 *)
(***************************************************************************)

\* An entry is told from its absence by its status.
LEMMA SlotIs ==
    /\ None \in Slots /\ None.st = "none" /\ None.n = 0 /\ ~IsActive(None) /\ ~IsReady(None)
    /\ Empty \in Queues
    /\ \A x \in Slots :
         /\ x # None <=> x \in Entries
         /\ x # None <=> x.st # "none"
         /\ x # None <=> x.st \in Statuses
         /\ IsReady(x) => IsActive(x)
         /\ IsActive(x) => x # None
         /\ IsActive(x) => x.st \notin {"failed", "conflicted"}
<1>1. None.st = "none" /\ None.n = 0 /\ None \in Slots
  BY DEF None, Slots
<1>2. ~IsActive(None) /\ ~IsReady(None)
  BY <1>1 DEF IsActive, IsReady, ActiveStatus, ReadyStatus
<1>3. \A x \in Entries : x.st \in Statuses /\ x.st # "none" /\ x # None
  BY <1>1 DEF Entries, Statuses
<1>4. Empty \in Queues
  BY <1>1 DEF Empty, Queues
<1>5. \A x \in Slots : x \in Entries \/ x = None
  BY DEF Slots
<1>6. "none" \notin Statuses
  BY DEF Statuses
<1> QED
  BY <1>1, <1>2, <1>3, <1>4, <1>5, <1>6 DEF IsActive, IsReady, ActiveStatus, ReadyStatus

\* Marking an entry changes its status alone.
LEMMA MarkIs ==
    ASSUME NEW x \in Entries, NEW s \in Statuses
    PROVE  /\ [x EXCEPT !.st = s] \in Entries
           /\ [x EXCEPT !.st = s].st = s /\ [x EXCEPT !.st = s].n = x.n
BY DEF Entries

\* A retry is counted up to the limit.
LEMMA RetriedIs ==
    ASSUME NEW x \in Entries
    PROVE  /\ Retried(x) \in Entries /\ Retried(x).st \in {"retrying", "failed"}
           /\ Retried(x) # None
<1>1. x.n \in 0 .. MaxRetry /\ MaxRetry \in Nat
  BY QueueAssumption DEF Entries
<1>2. x.n + 1 < MaxRetry => x.n + 1 \in 0 .. MaxRetry
  BY <1>1
<1>3. MaxRetry \in 0 .. MaxRetry
  BY <1>1
<1>4. Retried(x) \in Entries /\ Retried(x).st \in {"retrying", "failed"}
  BY <1>2, <1>3 DEF Retried, Entries, Statuses
<1> QED
  BY <1>4, SlotIs DEF Slots

\* Every set of naturals that is not empty has a least element.
LEMMA LeastNatural ==
    ASSUME NEW T, T \subseteq Nat, T # {}
    PROVE  \E x \in T : \A y \in T : x <= y
<1>1. PICK R : IsWellFoundedOn(R, Nat) /\ \A x, y \in Nat : <<x, y>> \in R <=> x < y
  <2>1. \A x, y \in Nat : <<x, y>> \in OpToRel(<, Nat) <=> x < y
    BY DEF OpToRel
  <2> QED
    BY <2>1, NatLessThanWellFounded
<1>2. IsWellFoundedOn(R, Nat)
  BY <1>1
<1>3. PICK x \in T : \A y \in T : ~ (<<y, x>> \in R)
  BY <1>2, WFMin
<1>4. \A y \in T : ~ (y < x) /\ x \in Nat /\ y \in Nat
  BY <1>1, <1>3
<1> QED
  BY <1>4

\* Two commands of a queue have different positions in it.
LEMMA PositionIs ==
    ASSUME NEW e, NEW c \in Cmds
    PROVE  /\ Position(e, c) \in Nat
           /\ \A b \in In(mem[e]) : b # c /\ mem[e][c] # None => Position(e, b) # Position(e, c)
<1> DEFINE Below(d) == {b \in In(mem[e]) : b < d}
<1>1. \A d : Below(d) \subseteq Cmds
  BY DEF In
<1>2. \A d : IsFiniteSet(Below(d))
  BY <1>1, FS_Subset, QueueAssumption
<1>3. \A d : Cardinality(Below(d)) \in Nat
  BY <1>2, FS_CardinalityType
<1>4. ASSUME NEW a \in In(mem[e]), NEW b \in In(mem[e]), a < b
      PROVE  Cardinality(Below(a)) < Cardinality(Below(b))
  <2>0. a \in Nat /\ b \in Nat /\ In(mem[e]) \subseteq Nat
    BY QueueAssumption DEF In
  <2>1. a \in Below(b) /\ a \notin Below(a)
    BY <1>4, <2>0
  <2>2. Below(a) \subseteq Below(b)
    BY <1>4, <2>0
  <2>3. Below(a) # Below(b)
    BY <2>1
  <2> HIDE DEF Below
  <2> QED
    <3>1. /\ Cardinality(Below(a)) <= Cardinality(Below(b))
          /\ Cardinality(Below(a)) # Cardinality(Below(b))
      BY <1>2, <2>2, <2>3, FS_Subset
    <3> QED
      BY <1>3, <3>1
<1>5. ASSUME NEW b \in In(mem[e]), b # c, mem[e][c] # None
      PROVE  Cardinality(Below(b)) # Cardinality(Below(c))
  <2>1. c \in In(mem[e]) /\ b \in Nat /\ c \in Nat
    BY <1>5, QueueAssumption DEF In
  <2>2. b < c \/ c < b
    BY <1>5, <2>1
  <2> HIDE DEF Below
  <2> QED
    BY <1>3, <1>4, <2>1, <2>2
<1> QED
  BY <1>3, <1>5 DEF Position

\* What a write makes of each command.
LEMMA MergedIs ==
    ASSUME Typed, NEW e \in Engines
    PROVE  /\ MergedQueue(e) \in Queues
           /\ \A c \in Cmds :
                /\ mem[e][c] = None /\ known[e][c] # None => MergedQueue(e)[c] = None
                /\ mem[e][c] = None /\ known[e][c] = None => MergedQueue(e)[c] = doc[c]
                /\ mem[e][c] # None /\ known[e][c] = None => MergedQueue(e)[c] = mem[e][c]
                /\ mem[e][c] # None /\ known[e][c] # None /\ doc[c] = known[e][c] =>
                     MergedQueue(e)[c] = mem[e][c]
                /\ mem[e][c] # None /\ known[e][c] # None /\ doc[c] # known[e][c] =>
                     MergedQueue(e)[c] = doc[c]
<1> DEFINE M(c) ==
        CASE mem[e][c] = None /\ known[e][c] # None   -> None
          [] mem[e][c] = None /\ known[e][c] = None   -> doc[c]
          [] mem[e][c] # None /\ known[e][c] = None   -> mem[e][c]
          [] mem[e][c] # None /\ known[e][c] # None   ->
               IF doc[c] = known[e][c] THEN mem[e][c] ELSE doc[c]
<1>1. MergedQueue(e) = [c \in Cmds |-> M(c)]
  BY DEF MergedQueue
<1>2. ASSUME NEW c \in Cmds
      PROVE  /\ mem[e][c] = None /\ known[e][c] # None => M(c) = None
             /\ mem[e][c] = None /\ known[e][c] = None => M(c) = doc[c]
             /\ mem[e][c] # None /\ known[e][c] = None => M(c) = mem[e][c]
             /\ mem[e][c] # None /\ known[e][c] # None /\ doc[c] = known[e][c] => M(c) = mem[e][c]
             /\ mem[e][c] # None /\ known[e][c] # None /\ doc[c] # known[e][c] => M(c) = doc[c]
  <2>1. CASE mem[e][c] = None /\ known[e][c] # None
    BY <2>1
  <2>2. CASE mem[e][c] = None /\ known[e][c] = None
    BY <2>2
  <2>3. CASE mem[e][c] # None /\ known[e][c] = None
    BY <2>3
  <2>4. CASE mem[e][c] # None /\ known[e][c] # None
    BY <2>4
  <2> QED
    BY <2>1, <2>2, <2>3, <2>4
<1> HIDE DEF M
<1>3. \A c \in Cmds : doc[c] \in Slots /\ mem[e][c] \in Slots /\ None \in Slots
  BY SlotIs DEF Typed, Queues
<1>4. \A c \in Cmds : M(c) \in Slots
  BY <1>2, <1>3
<1> QED
  BY <1>1, <1>2, <1>4 DEF Queues

\* What an acknowledgement makes of the document.
LEMMA AcknowledgedIs ==
    ASSUME Typed, NEW c \in Cmds, NEW q \in AcknowledgedQueues(c)
    PROVE  /\ q \in Queues /\ q[c] = None
           /\ \A b \in Cmds : b # c /\ q[b] # doc[b] =>
                /\ IsActive(doc[b]) /\ q[b] # None
                /\ q[b].st \in {"pending", "conflicted"}
<1> DEFINE rest == [doc EXCEPT ![c] = None]
           followers == {b \in In(rest) : Entity[b] = Entity[c] /\ IsActive(rest[b])}
           first == CHOOSE b \in followers : \A d \in followers : b <= d
<1>1. q = rest \/ (followers # {} /\ q = [rest EXCEPT ![first] = Rebased(first, rest[first])])
  BY DEF AcknowledgedQueues
<1>2. rest \in Queues /\ rest[c] = None /\ \A b \in Cmds : b # c => rest[b] = doc[b]
  BY SlotIs DEF Typed, Queues
<1>3. CASE q = rest
  BY <1>2, <1>3
<1>4. CASE followers # {} /\ q = [rest EXCEPT ![first] = Rebased(first, rest[first])]
  <2>1. followers \subseteq Nat
    BY QueueAssumption DEF In
  <2>2. first \in followers
    BY <1>4, <2>1, LeastNatural
  <2>3. first \in Cmds /\ rest[first] # None /\ IsActive(rest[first])
    BY <2>2 DEF In
  <2> HIDE DEF rest, followers, first
  <2>4. rest[first] \in Entries
    BY <1>2, <2>3, SlotIs DEF Queues
  <2>5. /\ Rebased(first, rest[first]) \in Entries
        /\ Rebased(first, rest[first]).st \in {"pending", "conflicted"}
    BY <2>4, MarkIs DEF Rebased, Statuses
  <2>6. Rebased(first, rest[first]) \in Slots /\ Rebased(first, rest[first]) # None
    BY <2>5, SlotIs DEF Slots
  <2>7. first # c
    BY <1>2, <2>3
  <2>8. q \in Queues /\ q[first] = Rebased(first, rest[first])
        /\ \A b \in Cmds : b # first => q[b] = rest[b]
    BY <1>2, <1>4, <2>3, <2>6 DEF Queues
  <2> QED
    BY <1>2, <2>3, <2>5, <2>6, <2>7, <2>8
<1> QED
  BY <1>1, <1>3, <1>4

\* What a finished job leaves in memory.
LEMMA AdoptedIs ==
    ASSUME Typed, NEW e \in Engines
    PROVE  /\ Adopted(e) \in Queues
           /\ \A c \in Cmds : Adopted(e)[c] =
                IF c \in merged[e].same /\ mem[e][c] # None THEN mem[e][c] ELSE merged[e].queue[c]
BY DEF Adopted, Typed, Queues, Runs

(***************************************************************************)
(* What each action does, with the types it keeps.                         *)
(***************************************************************************)

\* The other engines' own state is left alone.
Elsewhere(e) ==
    \A f \in Engines : f # e =>
        /\ mem'[f] = mem[f] /\ known'[f] = known[f] /\ jobs'[f] = jobs[f]
        /\ merged'[f] = merged[f] /\ drain'[f] = drain[f]

\* The parts of the state of an engine have their types.
LEMMA TypesOf ==
    ASSUME Typed, NEW e \in Engines
    PROVE  /\ mem[e] \in Queues /\ known[e] \in Queues /\ jobs[e] \in Seq(Jobs)
           /\ merged[e] \in Runs /\ drain[e] \in Drains
           /\ \A c \in Cmds : mem[e][c] \in Slots /\ known[e][c] \in Slots /\ doc[c] \in Slots
           /\ merged[e].same \subseteq Cmds /\ merged[e].queue \in Queues
           /\ \A c \in Cmds : merged[e].queue[c] \in Slots
           /\ drain[e].cmd \in Cmds \cup {0} /\ drain[e].at \in Nat
           /\ Len(jobs[e]) \in Nat /\ DOMAIN jobs[e] = 1 .. Len(jobs[e])
           /\ jobs[e] # <<>> <=> Len(jobs[e]) > 0
           /\ \A n \in DOMAIN jobs[e] : jobs[e][n] \in Jobs
<1>1. /\ mem[e] \in Queues /\ known[e] \in Queues /\ jobs[e] \in Seq(Jobs)
      /\ merged[e] \in Runs /\ drain[e] \in Drains /\ doc \in Queues
  BY DEF Typed
<1>2. /\ merged[e].same \subseteq Cmds /\ merged[e].queue \in Queues
  BY <1>1 DEF Runs
<1>3. \A c \in Cmds : /\ mem[e][c] \in Slots /\ known[e][c] \in Slots /\ doc[c] \in Slots
                      /\ merged[e].queue[c] \in Slots
  BY <1>1, <1>2 DEF Queues
<1>4. drain[e].cmd \in Cmds \cup {0} /\ drain[e].at \in Nat
  BY <1>1 DEF Drains
<1>5. /\ Len(jobs[e]) \in Nat /\ DOMAIN jobs[e] = 1 .. Len(jobs[e])
      /\ jobs[e] # <<>> <=> Len(jobs[e]) > 0
      /\ \A n \in DOMAIN jobs[e] : jobs[e][n] \in Jobs
  BY <1>1, EmptySeq
<1> QED
  BY <1>1, <1>2, <1>3, <1>4, <1>5

\* The idle records have their types.
LEMMA IdleIs ==
    /\ Idle \in Drains /\ Idle.pc = "idle" /\ Idle.cmd = 0
    /\ NotRunning \in Runs /\ NotRunning.running = FALSE
    /\ NotRunning.queue = Empty /\ NotRunning.same = {}
    /\ \A c \in Cmds : c # 0 /\ Empty[c] = None
<1>1. Idle \in Drains /\ Idle.pc = "idle" /\ Idle.cmd = 0
  BY DEF Idle, Drains
<1>2. /\ NotRunning \in Runs /\ NotRunning.running = FALSE
      /\ NotRunning.queue = Empty /\ NotRunning.same = {}
  BY SlotIs DEF NotRunning, Runs
<1>3. \A c \in Cmds : c # 0 /\ Empty[c] = None
  BY QueueAssumption DEF Empty
<1> QED
  BY <1>1, <1>2, <1>3

\* A job is chained behind the others.
LEMMA Chained ==
    ASSUME Typed, NEW e \in Engines, NEW j \in Jobs, Chain(e, j)
    PROVE  /\ jobs' \in [Engines -> Seq(Jobs)]
           /\ \A f \in Engines : f # e => jobs'[f] = jobs[f]
           /\ jobs'[e] # <<>> /\ Len(jobs'[e]) = Len(jobs[e]) + 1
           /\ DOMAIN jobs'[e] = 1 .. Len(jobs[e]) + 1
           /\ \A n \in DOMAIN jobs[e] : jobs'[e][n] = jobs[e][n]
           /\ jobs'[e][Len(jobs[e]) + 1] = j
           /\ \A n \in DOMAIN jobs'[e] : n \in DOMAIN jobs[e] \/ n = Len(jobs[e]) + 1
<1>1. /\ jobs[e] \in Seq(Jobs) /\ Len(jobs[e]) \in Nat /\ DOMAIN jobs[e] = 1 .. Len(jobs[e])
  BY TypesOf
<1>2. jobs' = [jobs EXCEPT ![e] = Append(jobs[e], j)] /\ jobs \in [Engines -> Seq(Jobs)]
  BY DEF Chain, Typed
<1> DEFINE s == Append(jobs[e], j)
<1>3. /\ s \in Seq(Jobs) /\ Len(s) = Len(jobs[e]) + 1
      /\ \A n \in 1 .. Len(jobs[e]) : s[n] = jobs[e][n]
      /\ s[Len(jobs[e]) + 1] = j
  BY <1>1, AppendProperties
<1> HIDE DEF s
<1>4. DOMAIN s = 1 .. Len(jobs[e]) + 1 /\ s # <<>>
  BY <1>1, <1>3, EmptySeq
<1>5. /\ jobs'[e] = s /\ jobs' \in [Engines -> Seq(Jobs)]
      /\ \A f \in Engines : f # e => jobs'[f] = jobs[f]
  BY <1>2, <1>3 DEF s
<1> QED
  BY <1>1, <1>3, <1>4, <1>5

\* The jobs of the model are jobs.
LEMMA JobIs ==
    /\ \A c \in Cmds : LET j == Job("write", "enqueue", c) IN
         j \in Jobs /\ j.kind = "write" /\ j.for = "enqueue" /\ j.cmd = c
    /\ LET j == Job("write", "drain", 0) IN
         j \in Jobs /\ j.kind = "write" /\ j.for = "drain" /\ j.cmd = 0
    /\ LET j == Job("write", "restore", 0) IN
         j \in Jobs /\ j.kind = "write" /\ j.for = "restore" /\ j.cmd = 0
    /\ \A c \in Cmds : LET j == Job("ack", "drain", c) IN
         j \in Jobs /\ j.kind = "ack" /\ j.for = "drain" /\ j.cmd = c
BY DEF Job, Jobs

\* The first job updates the document.
LEMMA JobUpdateIs ==
    ASSUME Typed, ChainsGood, NEW e \in Engines, JobUpdate(e)
    PROVE  /\ Typed' /\ Elsewhere(e)
           /\ UNCHANGED <<mem, known, jobs, enq, home, attached, drain, served, lost, restarts>>
           /\ jobs[e] # <<>> /\ ~merged[e].running /\ 1 \in DOMAIN jobs[e]
           /\ merged'[e].running /\ merged'[e].queue = doc'
           /\ \/ /\ jobs[e][1].kind = "write"
                 /\ doc' = MergedQueue(e) /\ acked' = acked /\ merged'[e].same = Surviving(e)
              \/ /\ jobs[e][1].kind = "ack" /\ jobs[e][1].cmd \in Cmds
                 /\ jobs[e][1].cmd \in served
                 /\ doc' \in AcknowledgedQueues(jobs[e][1].cmd)
                 /\ acked' = acked \cup {jobs[e][1].cmd} /\ merged'[e].same = {}
<1> DEFINE job == jobs[e][1]
           same == IF job.kind = "write" THEN Surviving(e) ELSE {}
           g == [running |-> TRUE, queue |-> doc', same |-> same]
<1>1. jobs[e] # <<>> /\ ~merged[e].running /\ Head(jobs[e]) = job
  BY TypesOf DEF JobUpdate
<1>2. 1 \in DOMAIN jobs[e] /\ job \in Jobs /\ job.kind \in {"write", "ack"}
  <2>1. 1 \in DOMAIN jobs[e]
    BY <1>1, TypesOf
  <2>2. job \in Jobs
    BY <2>1, TypesOf
  <2> QED
    BY <2>1, <2>2 DEF Jobs
<1>3. /\ UNCHANGED <<mem, known, jobs, enq, home, attached, drain, served, lost, restarts>>
      /\ doc' \in IF job.kind = "write" THEN {MergedQueue(e)} ELSE AcknowledgedQueues(job.cmd)
      /\ merged' = [merged EXCEPT ![e] = g]
      /\ acked' = IF job.kind = "ack" THEN acked \cup {job.cmd} ELSE acked
  BY <1>1 DEF JobUpdate
<1>4. job.kind = "ack" => job.cmd \in Cmds /\ job.cmd \in served
  BY <1>2 DEF ChainsGood, ChainGood, Typed
<1>5. doc' \in Queues
  <2>1. CASE job.kind = "write"
    BY <1>3, <2>1, MergedIs
  <2>2. CASE job.kind = "ack"
    BY <1>3, <1>4, <2>2, AcknowledgedIs
  <2> QED
    BY <1>2, <2>1, <2>2
<1>6. same \in SUBSET Cmds
  BY DEF Surviving, In
<1> HIDE DEF same, job
<1>7. g \in Runs /\ g.running = TRUE /\ g.queue = doc' /\ g.same = same
  BY <1>5, <1>6 DEF Runs
<1> HIDE DEF g
<1>8. /\ merged' \in [Engines -> Runs] /\ merged'[e] = g
      /\ \A f \in Engines : f # e => merged'[f] = merged[f]
  BY <1>3, <1>7 DEF Typed
<1>9. acked' \subseteq Cmds
  BY <1>3, <1>4 DEF Typed
<1>10. Typed'
  BY <1>3, <1>5, <1>8, <1>9 DEF Typed
<1>11. Elsewhere(e)
  BY <1>3, <1>8 DEF Elsewhere
<1>12. CASE job.kind = "write"
  <2>1. doc' = MergedQueue(e) /\ acked' = acked /\ merged'[e].same = Surviving(e)
    BY <1>3, <1>7, <1>8, <1>12 DEF same
  <2> QED
    BY <1>1, <1>2, <1>3, <1>7, <1>8, <1>10, <1>11, <1>12, <2>1 DEF job
<1>13. CASE job.kind = "ack"
  <2>1. /\ doc' \in AcknowledgedQueues(job.cmd) /\ acked' = acked \cup {job.cmd}
        /\ merged'[e].same = {}
    BY <1>3, <1>7, <1>8, <1>13 DEF same
  <2> QED
    BY <1>1, <1>2, <1>3, <1>4, <1>7, <1>8, <1>10, <1>11, <1>13, <2>1 DEF job
<1> QED
  BY <1>2, <1>12, <1>13

\* A finished job is adopted, and its caller moves on.
LEMMA JobFinishIs ==
    ASSUME Typed, ChainsGood, NEW e \in Engines, JobFinish(e)
    PROVE  /\ Typed' /\ Elsewhere(e)
           /\ UNCHANGED <<doc, home, acked, served, restarts>>
           /\ merged[e].running /\ jobs[e] # <<>> /\ 1 \in DOMAIN jobs[e]
           /\ mem'[e] = Adopted(e) /\ known'[e] = Adopted(e)
           /\ ~merged'[e].running /\ merged'[e].queue = Empty
           /\ Len(jobs'[e]) = Len(jobs[e]) - 1
           /\ \A n \in DOMAIN jobs'[e] : n + 1 \in DOMAIN jobs[e] /\ jobs'[e][n] = jobs[e][n + 1]
           /\ \A c \in Cmds : home[c] # e => attached'[c] = attached[c]
           /\ jobs[e][1].for = "drain" => drain'[e] = Idle
           /\ jobs[e][1].for # "drain" => drain'[e].pc = drain[e].pc /\ drain'[e].cmd = drain[e].cmd
           /\ jobs[e][1].for # "enqueue" => enq' = enq
           /\ jobs[e][1].for = "enqueue" =>
                enq' = [enq EXCEPT ![jobs[e][1].cmd] = AfterWrite(enq[jobs[e][1].cmd])]
           /\ \A c \in Cmds : enq'[c] = "new" => enq[c] = "new"
           /\ lost \subseteq lost'
           /\ \A c \in Cmds : mem[e][c] # None /\ known[e][c] = None /\ Adopted(e)[c] = None =>
                c \in lost'
<1> DEFINE job == Head(jobs[e])
           d == drain[e]
           a == d.attached /\ d.cmd \in merged[e].same
           l == d.live /\ Adopted(e) # Empty
           r == [d EXCEPT !.attached = a, !.live = l]
           x == IF job.for = "drain" THEN Idle ELSE r
<1>1. merged[e].running /\ jobs[e] # <<>> /\ jobs[e] \in Seq(Jobs)
  BY TypesOf DEF JobFinish, ChainsGood, ChainGood
<1>2. 1 \in DOMAIN jobs[e] /\ job \in Jobs /\ jobs[e][1] = job
  BY <1>1, TypesOf
<1>3. /\ UNCHANGED <<doc, home, acked, served, restarts>>
      /\ mem' = [mem EXCEPT ![e] = Adopted(e)]
      /\ known' = [known EXCEPT ![e] = Adopted(e)]
      /\ attached' = [c \in Cmds |-> attached[c] /\ (home[c] = e => c \in merged[e].same)]
      /\ enq' = IF job.for = "enqueue" THEN [enq EXCEPT ![job.cmd] = AfterWrite(@)] ELSE enq
      /\ jobs' = [jobs EXCEPT ![e] = Tail(jobs[e])]
      /\ merged' = [merged EXCEPT ![e] = NotRunning]
  BY <1>2 DEF JobFinish
<1>d. drain' = [drain EXCEPT ![e] = x]
  BY DEF JobFinish
<1>4. /\ mem' \in [Engines -> Queues] /\ mem'[e] = Adopted(e)
      /\ \A f \in Engines : f # e => mem'[f] = mem[f]
  BY <1>3, AdoptedIs DEF Typed
<1>5. /\ known' \in [Engines -> Queues] /\ known'[e] = Adopted(e)
      /\ \A f \in Engines : f # e => known'[f] = known[f]
  BY <1>3, AdoptedIs DEF Typed
<1>6. /\ attached' \in [Cmds -> BOOLEAN]
      /\ \A c \in Cmds : home[c] # e => attached'[c] = attached[c]
  BY <1>3 DEF Typed
<1>7. /\ merged' \in [Engines -> Runs] /\ merged'[e] = NotRunning
      /\ \A f \in Engines : f # e => merged'[f] = merged[f]
  BY <1>3, IdleIs DEF Typed
<1>8. /\ Tail(jobs[e]) \in Seq(Jobs) /\ Len(Tail(jobs[e])) = Len(jobs[e]) - 1
      /\ \A n \in 1 .. Len(Tail(jobs[e])) :
           n + 1 \in DOMAIN jobs[e] /\ Tail(jobs[e])[n] = jobs[e][n + 1]
  <2>1. /\ Tail(jobs[e]) \in Seq(Jobs) /\ Len(Tail(jobs[e])) = Len(jobs[e]) - 1
        /\ \A n \in 1 .. Len(Tail(jobs[e])) : Tail(jobs[e])[n] = jobs[e][n + 1]
    BY <1>1, HeadTailProperties
  <2>2. \A n \in 1 .. Len(Tail(jobs[e])) : n + 1 \in DOMAIN jobs[e]
    BY <2>1, TypesOf
  <2> QED
    BY <2>1, <2>2
<1>9. /\ jobs' \in [Engines -> Seq(Jobs)] /\ jobs'[e] = Tail(jobs[e])
      /\ \A f \in Engines : f # e => jobs'[f] = jobs[f]
  BY <1>3, <1>8 DEF Typed
<1>10. DOMAIN jobs'[e] = 1 .. Len(Tail(jobs[e]))
  BY <1>8, <1>9
<1>11. /\ job.for = "enqueue" => job.cmd \in Cmds /\ home[job.cmd] = e
  BY <1>2 DEF ChainsGood, ChainGood
<1>12. \A s \in EnqSteps : AfterWrite(s) \in EnqSteps /\ (AfterWrite(s) = "new" => s = "new")
  BY DEF AfterWrite, EnqSteps
<1>13. enq' \in [Cmds -> EnqSteps] /\ \A c \in Cmds : enq'[c] = "new" => enq[c] = "new"
  BY <1>3, <1>11, <1>12 DEF Typed
<1>14. a \in BOOLEAN /\ l \in BOOLEAN /\ d \in Drains
  <2>1. d \in Drains
    BY TypesOf
  <2>2. d.attached \in BOOLEAN /\ d.live \in BOOLEAN
    BY <2>1 DEF Drains
  <2> QED
    BY <2>1, <2>2
<1> HIDE DEF a, l, d, job
<1>15. r \in Drains /\ r.pc = d.pc /\ r.cmd = d.cmd
  <2> DEFINE r1 == [d EXCEPT !.attached = a]
  <2>1. r1 \in Drains /\ r1.pc = d.pc /\ r1.cmd = d.cmd
    BY <1>14 DEF Drains
  <2>2. r = [r1 EXCEPT !.live = l]
    OBVIOUS
  <2> HIDE DEF r1, r
  <2> QED
    BY <1>14, <2>1, <2>2 DEF Drains
<1> HIDE DEF r
<1>17. x \in Drains
  BY <1>15, IdleIs
<1>18. /\ drain' \in [Engines -> Drains] /\ drain'[e] = x
       /\ \A f \in Engines : f # e => drain'[f] = drain[f]
  BY <1>d, <1>17 DEF Typed
<1>24. /\ lost \subseteq lost' /\ lost' \subseteq Cmds
       /\ \A c \in Cmds : mem[e][c] # None /\ known[e][c] = None /\ Adopted(e)[c] = None =>
            c \in lost'
  <2>1. lost' = lost \cup {c \in In(mem[e]) : known[e][c] = None /\ Adopted(e)[c] = None}
    BY DEF JobFinish
  <2> QED
    BY <2>1 DEF In, Typed
<1>19. Typed'
  BY <1>3, <1>4, <1>5, <1>6, <1>7, <1>9, <1>13, <1>18, <1>24 DEF Typed
<1>20. Elsewhere(e)
  BY <1>4, <1>5, <1>7, <1>9, <1>18 DEF Elsewhere
<1>21. /\ job.for = "drain" => drain'[e] = Idle
       /\ job.for # "drain" => drain'[e].pc = d.pc /\ drain'[e].cmd = d.cmd
  BY <1>15, <1>18
<1>22. /\ job.for # "enqueue" => enq' = enq
       /\ job.for = "enqueue" => enq' = [enq EXCEPT ![job.cmd] = AfterWrite(enq[job.cmd])]
  BY <1>3
<1>23. ~merged'[e].running /\ merged'[e].queue = Empty
  BY <1>7, IdleIs
<1> HIDE DEF x
<1> QED
  BY <1>1, <1>2, <1>3, <1>4, <1>5, <1>6, <1>8, <1>9, <1>10, <1>13, <1>19, <1>20, <1>21, <1>22,
     <1>23, <1>24
  DEF d

\* A command is added to the memory of its engine.
LEMMA EnqueueIs ==
    ASSUME Typed, NEW c \in Cmds, NEW e \in Engines, e = home[c], Enqueue(c)
    PROVE  /\ Typed' /\ Elsewhere(e)
           /\ UNCHANGED <<doc, known, merged, home, attached, drain, acked, served, lost, restarts>>
           /\ enq[c] = "new" /\ mem[e][c] = None /\ MayStart(e)
           /\ mem'[e][c] \in Entries /\ mem'[e][c].st = "applying" /\ mem'[e][c].n = 0
           /\ \A b \in Cmds : b # c => mem'[e][b] = mem[e][b]
           /\ enq'[c] = "persist" /\ \A b \in Cmds : b # c => enq'[b] = enq[b]
           /\ Chain(e, Job("write", "enqueue", c))
<1> DEFINE x == [st |-> "applying", n |-> 0]
<1>1. /\ UNCHANGED <<doc, known, merged, home, attached, drain, acked, served, lost, restarts>>
      /\ enq[c] = "new" /\ mem[e][c] = None /\ MayStart(e)
      /\ mem' = [mem EXCEPT ![e][c] = x]
      /\ enq' = [enq EXCEPT ![c] = "persist"]
      /\ Chain(e, Job("write", "enqueue", c))
  BY DEF Enqueue
<1>2. x \in Entries /\ x.st = "applying" /\ x.n = 0
  BY QueueAssumption DEF Entries, Statuses
<1> HIDE DEF x
<1>3. /\ mem' \in [Engines -> Queues] /\ mem'[e][c] = x
      /\ \A b \in Cmds : b # c => mem'[e][b] = mem[e][b]
      /\ \A f \in Engines : f # e => mem'[f] = mem[f]
  BY <1>1, <1>2 DEF Typed, Queues, Slots
<1>4. /\ enq' \in [Cmds -> EnqSteps] /\ enq'[c] = "persist"
      /\ \A b \in Cmds : b # c => enq'[b] = enq[b]
  BY <1>1 DEF Typed, EnqSteps
<1>5. /\ jobs' \in [Engines -> Seq(Jobs)] /\ \A f \in Engines : f # e => jobs'[f] = jobs[f]
  BY <1>1, Chained, JobIs
<1>6. Typed'
  BY <1>1, <1>3, <1>4, <1>5 DEF Typed
<1>7. Elsewhere(e)
  BY <1>1, <1>3, <1>5 DEF Elsewhere
<1> QED
  BY <1>1, <1>2, <1>3, <1>4, <1>6, <1>7

\* The command is looked up again after its first write.
LEMMA EnqueueCheckIs ==
    ASSUME Typed, NEW c \in Cmds, NEW e \in Engines, e = home[c], EnqueueCheck(c)
    PROVE  /\ Typed' /\ Elsewhere(e)
           /\ UNCHANGED <<doc, mem, known, jobs, merged, home, drain, acked, served, lost,
                          restarts>>
           /\ enq[c] = "check"
           /\ enq'[c] = IF IsActive(mem[e][c]) THEN "apply" ELSE "returned"
           /\ attached'[c] = IsActive(mem[e][c])
           /\ \A b \in Cmds : b # c => enq'[b] = enq[b] /\ attached'[b] = attached[b]
<1>1. /\ UNCHANGED <<doc, mem, known, jobs, merged, home, drain, acked, served, lost, restarts>>
      /\ enq[c] = "check"
      /\ enq' = [enq EXCEPT ![c] = IF IsActive(mem[e][c]) THEN "apply" ELSE "returned"]
      /\ attached' = [attached EXCEPT ![c] = IsActive(mem[e][c])]
  BY DEF EnqueueCheck
<1>2. /\ enq' \in [Cmds -> EnqSteps]
      /\ enq'[c] = IF IsActive(mem[e][c]) THEN "apply" ELSE "returned"
      /\ \A b \in Cmds : b # c => enq'[b] = enq[b]
  BY <1>1 DEF Typed, EnqSteps
<1>3. IsActive(mem[e][c]) \in BOOLEAN
  BY DEF IsActive
<1>4. /\ attached' \in [Cmds -> BOOLEAN] /\ attached'[c] = IsActive(mem[e][c])
      /\ \A b \in Cmds : b # c => attached'[b] = attached[b]
  BY <1>1, <1>3 DEF Typed
<1>5. Typed'
  BY <1>1, <1>2, <1>4 DEF Typed
<1>6. Elsewhere(e)
  BY <1>1 DEF Elsewhere
<1> QED
  BY <1>1, <1>2, <1>4, <1>5, <1>6

\* The optimistic projection is applied or throws.
LEMMA EnqueueApplyIs ==
    ASSUME Typed, NEW c \in Cmds, NEW e \in Engines, e = home[c], EnqueueApply(c)
    PROVE  /\ Typed' /\ Elsewhere(e)
           /\ UNCHANGED <<doc, known, merged, home, drain, acked, served, lost, restarts>>
           /\ enq[c] = "apply" /\ enq'[c] \in {"save", "saveThrow"}
           /\ \A b \in Cmds : b # c => /\ enq'[b] = enq[b] /\ attached'[b] = attached[b]
                                       /\ mem'[e][b] = mem[e][b]
           /\ \/ mem'[e][c] = mem[e][c] /\ (mem[e][c] = None \/ ~attached[c])
              \/ mem[e][c] # None /\ mem'[e][c] # None /\ mem'[e][c].st \in {"pending", "failed"}
           /\ Chain(e, Job("write", "enqueue", c))
<1>1. PICK ok \in BOOLEAN :
         /\ mem' = [mem EXCEPT ![e][c] =
               IF attached[c] /\ @ # None
               THEN [@ EXCEPT !.st = IF ok THEN "pending" ELSE "failed"] ELSE @]
         /\ enq' = [enq EXCEPT ![c] = IF ok THEN "save" ELSE "saveThrow"]
  BY DEF EnqueueApply
<1> DEFINE s == IF ok THEN "pending" ELSE "failed"
           x == IF attached[c] /\ mem[e][c] # None THEN [mem[e][c] EXCEPT !.st = s] ELSE mem[e][c]
<1>2. /\ UNCHANGED <<doc, known, merged, home, drain, acked, served, lost, restarts>>
      /\ enq[c] = "apply" /\ attached' = [attached EXCEPT ![c] = FALSE]
      /\ Chain(e, Job("write", "enqueue", c))
      /\ mem' = [mem EXCEPT ![e][c] = x]
  BY <1>1 DEF EnqueueApply
<1>3. s \in {"pending", "failed"} /\ s \in Statuses
  BY DEF Statuses
<1> HIDE DEF s
<1>4. /\ x \in Slots
      /\ \/ x = mem[e][c] /\ (mem[e][c] = None \/ ~attached[c])
         \/ mem[e][c] # None /\ x # None /\ x.st = s
  <2>1. mem[e][c] \in Slots
    BY TypesOf
  <2>2. CASE attached[c] /\ mem[e][c] # None
    <3>1. mem[e][c] \in Entries
      BY <2>1, <2>2, SlotIs
    <3>2. x \in Entries /\ x.st = s
      BY <1>3, <2>2, <3>1, MarkIs
    <3> QED
      BY <2>2, <3>2, SlotIs DEF Slots
  <2>3. CASE ~(attached[c] /\ mem[e][c] # None)
    BY <2>1, <2>3
  <2> QED
    BY <2>2, <2>3
<1> HIDE DEF x
<1>5. /\ mem' \in [Engines -> Queues] /\ mem'[e][c] = x
      /\ \A b \in Cmds : b # c => mem'[e][b] = mem[e][b]
      /\ \A f \in Engines : f # e => mem'[f] = mem[f]
  BY <1>2, <1>4 DEF Typed, Queues
<1>6. /\ enq' \in [Cmds -> EnqSteps] /\ enq'[c] \in {"save", "saveThrow"}
      /\ \A b \in Cmds : b # c => enq'[b] = enq[b]
  BY <1>1 DEF Typed, EnqSteps
<1>7. /\ attached' \in [Cmds -> BOOLEAN] /\ \A b \in Cmds : b # c => attached'[b] = attached[b]
  BY <1>2 DEF Typed
<1>8. /\ jobs' \in [Engines -> Seq(Jobs)] /\ \A f \in Engines : f # e => jobs'[f] = jobs[f]
  BY <1>2, Chained, JobIs
<1>9. Typed'
  BY <1>2, <1>5, <1>6, <1>7, <1>8 DEF Typed
<1>10. Elsewhere(e)
  BY <1>2, <1>5, <1>8 DEF Elsewhere
<1> QED
  BY <1>2, <1>3, <1>4, <1>5, <1>6, <1>7, <1>9, <1>10

\* A drain that only moves on: it finds a command, sends it, or has nothing to do.
LEMMA DrainMovesIs ==
    ASSUME Typed, NEW e \in Engines, DrainBegin(e) \/ DrainSend(e)
    PROVE  /\ Typed' /\ Elsewhere(e)
           /\ UNCHANGED <<doc, mem, known, jobs, merged, enq, home, attached, acked, served, lost,
                          restarts>>
           /\ DrainBegin(e) => MayStart(e)
           /\ DrainSend(e) => drain[e].pc = "client"
           /\ \/ drain'[e].pc = "idle" /\ drain'[e].cmd = 0 /\ DrainSend(e) /\ drain'[e] = Idle
              \/ /\ drain'[e].pc \in {"client", "sent"} /\ drain'[e].cmd \in Cmds
                 /\ drain'[e].attached /\ drain'[e].live
                 /\ IsReady(mem[e][drain'[e].cmd])
                 /\ drain'[e].at = Position(e, drain'[e].cmd)
<1>1. UNCHANGED <<doc, mem, known, jobs, merged, enq, home, attached, acked, served, lost,
                  restarts>>
  BY DEF DrainBegin, DrainSend
<1>2. /\ DrainBegin(e) => MayStart(e)
      /\ DrainSend(e) => drain[e].pc = "client"
  BY DEF DrainBegin, DrainSend
<1>3. ASSUME NEW x \in Drains, drain' = [drain EXCEPT ![e] = x]
      PROVE  Typed' /\ Elsewhere(e) /\ drain'[e] = x
  <2>1. /\ drain' \in [Engines -> Drains] /\ drain'[e] = x
        /\ \A f \in Engines : f # e => drain'[f] = drain[f]
    BY <1>3 DEF Typed
  <2> QED
    BY <1>1, <2>1 DEF Typed, Elsewhere
<1>4. CASE DrainSend(e) /\ drain' = [drain EXCEPT ![e] = Idle]
  BY <1>1, <1>2, <1>3, <1>4, IdleIs
<1>5. ASSUME NEW c \in Cmds, NEW pc \in {"client", "sent"}, IsReady(mem[e][c]),
             drain' = [drain EXCEPT ![e] = [pc |-> pc, cmd |-> c, at |-> Position(e, c),
                                            attached |-> TRUE, live |-> TRUE]]
      PROVE  /\ Typed' /\ Elsewhere(e)
             /\ drain'[e].pc \in {"client", "sent"} /\ drain'[e].cmd \in Cmds
             /\ drain'[e].attached /\ drain'[e].live
             /\ IsReady(mem[e][drain'[e].cmd])
             /\ drain'[e].at = Position(e, drain'[e].cmd)
  <2> DEFINE p == Position(e, c)
             x == [pc |-> pc, cmd |-> c, at |-> p, attached |-> TRUE, live |-> TRUE]
  <2>1. p \in Nat
    BY PositionIs
  <2> HIDE DEF p
  <2>2. /\ x \in Drains /\ x.pc = pc /\ x.cmd = c /\ x.at = p /\ x.attached = TRUE /\ x.live = TRUE
    BY <2>1 DEF Drains
  <2>3. drain' = [drain EXCEPT ![e] = x]
    BY <1>5 DEF p
  <2> HIDE DEF x
  <2>4. Typed' /\ Elsewhere(e) /\ drain'[e] = x
    BY <1>3, <2>2, <2>3
  <2> QED
    BY <1>5, <2>2, <2>4 DEF p
<1>6. CASE DrainBegin(e)
  <2>1. PICK c \in Cmds :
          /\ FirstRunnable(e, c)
          /\ drain' = [drain EXCEPT ![e] = [pc |-> "client", cmd |-> c, at |-> Position(e, c),
                                            attached |-> TRUE, live |-> TRUE]]
    BY <1>6 DEF DrainBegin
  <2>2. IsReady(mem[e][c])
    BY <2>1 DEF FirstRunnable, Runnable
  <2> QED
    BY <1>1, <1>2, <1>5, <2>1, <2>2
<1>7. CASE DrainSend(e) /\ \E c \in Cmds :
          /\ FirstRunnable(e, c)
          /\ drain' = [drain EXCEPT ![e] = [pc |-> "sent", cmd |-> c, at |-> Position(e, c),
                                            attached |-> TRUE, live |-> TRUE]]
  <2>1. PICK c \in Cmds :
          /\ FirstRunnable(e, c)
          /\ drain' = [drain EXCEPT ![e] = [pc |-> "sent", cmd |-> c, at |-> Position(e, c),
                                            attached |-> TRUE, live |-> TRUE]]
    BY <1>7
  <2>2. IsReady(mem[e][c])
    BY <2>1 DEF FirstRunnable, Runnable
  <2> QED
    BY <1>1, <1>2, <1>5, <2>1, <2>2
<1>8. DrainSend(e) => \/ drain' = [drain EXCEPT ![e] = Idle]
                      \/ \E c \in Cmds :
                           /\ FirstRunnable(e, c)
                           /\ drain' = [drain EXCEPT ![e] =
                                  [pc |-> "sent", cmd |-> c, at |-> Position(e, c),
                                   attached |-> TRUE, live |-> TRUE]]
  BY DEF DrainSend
<1> QED
  BY <1>4, <1>6, <1>7, <1>8

\* A step of a drain to a later point, with its command.
LEMMA DrainAt ==
    ASSUME Typed, NEW e \in Engines, NEW pc \in {"splice", "saving"},
           drain' = [drain EXCEPT ![e].pc = pc]
    PROVE  /\ drain' \in [Engines -> Drains]
           /\ drain'[e].pc = pc /\ drain'[e].cmd = drain[e].cmd /\ drain'[e].at = drain[e].at
           /\ drain'[e].attached = drain[e].attached /\ drain'[e].live = drain[e].live
           /\ \A f \in Engines : f # e => drain'[f] = drain[f]
<1> DEFINE x == [drain[e] EXCEPT !.pc = pc]
<1>1. drain' = [drain EXCEPT ![e] = x] /\ drain \in [Engines -> Drains] /\ drain[e] \in Drains
  BY DEF Typed
<1>2. /\ x \in Drains /\ x.pc = pc /\ x.cmd = drain[e].cmd /\ x.at = drain[e].at
      /\ x.attached = drain[e].attached /\ x.live = drain[e].live
  BY <1>1 DEF Drains
<1> HIDE DEF x
<1> QED
  BY <1>1, <1>2

\* The server has executed the command.
LEMMA DrainSuccessIs ==
    ASSUME Typed, NEW e \in Engines, DrainSuccess(e), drain[e].cmd \in Cmds
    PROVE  /\ Typed' /\ Elsewhere(e)
           /\ UNCHANGED <<doc, mem, known, jobs, merged, enq, home, attached, acked, lost,
                          restarts>>
           /\ served' = served \cup {drain[e].cmd}
           /\ drain[e].pc = "sent" /\ drain'[e].pc = "splice" /\ drain'[e].cmd = drain[e].cmd
           /\ drain'[e].at = drain[e].at
           /\ drain'[e].attached = drain[e].attached /\ drain'[e].live = drain[e].live
<1>1. /\ UNCHANGED <<doc, mem, known, jobs, merged, enq, home, attached, acked, lost, restarts>>
      /\ served' = served \cup {drain[e].cmd}
      /\ drain[e].pc = "sent"
      /\ drain' = [drain EXCEPT ![e].pc = "splice"]
  BY DEF DrainSuccess
<1>2. /\ drain' \in [Engines -> Drains]
      /\ drain'[e].pc = "splice" /\ drain'[e].cmd = drain[e].cmd /\ drain'[e].at = drain[e].at
      /\ drain'[e].attached = drain[e].attached /\ drain'[e].live = drain[e].live
      /\ \A f \in Engines : f # e => drain'[f] = drain[f]
  BY <1>1, DrainAt
<1>3. Typed'
  BY <1>1, <1>2 DEF Typed
<1>4. Elsewhere(e)
  BY <1>1, <1>2 DEF Elsewhere
<1> QED
  BY <1>1, <1>2, <1>3, <1>4

\* Without a client what is at the position is marked, or the drain ends.
LEMMA DrainNoClientIs ==
    ASSUME Typed, NEW e \in Engines, DrainNoClient(e)
    PROVE  /\ Typed' /\ Elsewhere(e)
           /\ UNCHANGED <<doc, known, merged, enq, home, attached, acked, served, lost, restarts>>
           /\ drain[e].pc = "client"
           /\ \A c \in Cmds : mem'[e][c] = None <=> mem[e][c] = None
           /\ \A c \in Cmds : \/ mem'[e][c] = mem[e][c]
                              \/ IsAt(e, c) /\ mem'[e][c].st \in {"retrying", "failed"}
           /\ \/ /\ Chain(e, Job("write", "drain", 0))
                 /\ drain'[e].pc = "saving" /\ drain'[e].cmd = drain[e].cmd
              \/ /\ mem' = mem /\ jobs' = jobs /\ drain'[e].pc = "idle" /\ drain'[e].cmd = 0
<1> DEFINE here == drain[e].live /\ \E c \in Cmds : IsAt(e, c)
           q == [c \in Cmds |-> IF IsAt(e, c) THEN Retried(mem[e][c]) ELSE mem[e][c]]
<1>1. /\ UNCHANGED <<doc, known, merged, enq, home, attached, acked, served, lost, restarts>>
      /\ drain[e].pc = "client"
      /\ here => /\ mem' = [mem EXCEPT ![e] = q]
                 /\ Chain(e, Job("write", "drain", 0))
                 /\ drain' = [drain EXCEPT ![e].pc = "saving"]
      /\ ~here => drain' = [drain EXCEPT ![e] = Idle] /\ UNCHANGED <<mem, jobs>>
  BY DEF DrainNoClient
<1> HIDE DEF here
<1>2. CASE ~here
  <2>0. drain' = [drain EXCEPT ![e] = Idle] /\ UNCHANGED <<mem, jobs>>
    BY <1>1, <1>2
  <2>1. /\ drain' \in [Engines -> Drains] /\ drain'[e] = Idle
        /\ \A f \in Engines : f # e => drain'[f] = drain[f]
    BY <2>0, IdleIs DEF Typed
  <2>2. UNCHANGED <<mem, jobs>>
    BY <2>0
  <2>3. Typed'
    BY <1>1, <2>1, <2>2 DEF Typed
  <2>4. Elsewhere(e)
    BY <1>1, <2>1, <2>2 DEF Elsewhere
  <2> QED
    BY <1>1, <2>1, <2>2, <2>3, <2>4, IdleIs
<1>3. CASE here
  <2>1. ASSUME NEW c \in Cmds
        PROVE  /\ q[c] \in Slots /\ (q[c] = None <=> mem[e][c] = None)
               /\ \/ q[c] = mem[e][c]
                  \/ IsAt(e, c) /\ q[c].st \in {"retrying", "failed"}
    <3>1. CASE IsAt(e, c)
      <4>1. mem[e][c] \in Entries /\ mem[e][c] # None
        BY <3>1, TypesOf, SlotIs DEF IsAt
      <4>2. q[c] = Retried(mem[e][c])
        BY <3>1
      <4> QED
        BY <3>1, <4>1, <4>2, RetriedIs DEF Slots
    <3>2. CASE ~IsAt(e, c)
      <4>1. q[c] = mem[e][c]
        BY <3>2
      <4> QED
        BY <4>1, TypesOf
    <3> QED
      BY <3>1, <3>2
  <2>2. q \in Queues
    BY <2>1 DEF Queues
  <2> HIDE DEF q
  <2>3. /\ mem' \in [Engines -> Queues] /\ mem'[e] = q
        /\ \A f \in Engines : f # e => mem'[f] = mem[f]
    BY <1>1, <1>3, <2>2 DEF Typed
  <2>4. /\ jobs' \in [Engines -> Seq(Jobs)] /\ \A f \in Engines : f # e => jobs'[f] = jobs[f]
    BY <1>1, <1>3, Chained, JobIs
  <2>5. /\ drain' \in [Engines -> Drains]
        /\ drain'[e].pc = "saving" /\ drain'[e].cmd = drain[e].cmd
        /\ \A f \in Engines : f # e => drain'[f] = drain[f]
    BY <1>1, <1>3, DrainAt
  <2>6. Typed'
    BY <1>1, <2>3, <2>4, <2>5 DEF Typed
  <2>7. Elsewhere(e)
    BY <1>1, <2>3, <2>4, <2>5 DEF Elsewhere
  <2>8. Chain(e, Job("write", "drain", 0))
    BY <1>1, <1>3
  <2>9. /\ \A c \in Cmds : mem'[e][c] = None <=> mem[e][c] = None
        /\ \A c \in Cmds : \/ mem'[e][c] = mem[e][c]
                           \/ IsAt(e, c) /\ mem'[e][c].st \in {"retrying", "failed"}
    BY <2>1, <2>3
  <2> QED
    BY <1>1, <2>5, <2>6, <2>7, <2>8, <2>9
<1> QED
  BY <1>2, <1>3

\* The element at the position leaves the queue and the acknowledgement is chained.
LEMMA DrainSpliceIs ==
    ASSUME Typed, NEW e \in Engines, DrainSplice(e), drain[e].cmd \in Cmds
    PROVE  /\ Typed' /\ Elsewhere(e)
           /\ UNCHANGED <<doc, known, merged, enq, home, attached, acked, served, restarts>>
           /\ drain[e].pc = "splice" /\ drain'[e].pc = "saving" /\ drain'[e].cmd = drain[e].cmd
           /\ \A c \in Cmds : \/ mem'[e][c] = mem[e][c]
                              \/ IsAt(e, c) /\ mem'[e][c] = None
           /\ Chain(e, Job("ack", "drain", drain[e].cmd))
           /\ lost \subseteq lost'
           /\ \A c \in Cmds : mem'[e][c] # mem[e][c] => c = drain[e].cmd \/ c \in lost'
<1> DEFINE q == [c \in Cmds |-> IF drain[e].live /\ IsAt(e, c) THEN None ELSE mem[e][c]]
<1>1. /\ UNCHANGED <<doc, known, merged, enq, home, attached, acked, served, restarts>>
      /\ drain[e].pc = "splice"
      /\ mem' = [mem EXCEPT ![e] = q]
      /\ Chain(e, Job("ack", "drain", drain[e].cmd))
      /\ drain' = [drain EXCEPT ![e].pc = "saving"]
      /\ lost' = lost \cup {c \in Cmds \ {drain[e].cmd} : drain[e].live /\ IsAt(e, c)}
  BY DEF DrainSplice
<1>2. /\ \A c \in Cmds : q[c] = mem[e][c] \/ (IsAt(e, c) /\ q[c] = None)
      /\ \A c \in Cmds : q[c] # mem[e][c] => c = drain[e].cmd \/ c \in lost'
      /\ lost \subseteq lost' /\ lost' \subseteq Cmds
  <2>1. lost \subseteq Cmds
    BY DEF Typed
  <2> QED
    BY <1>1, <2>1
<1>3. \A c \in Cmds : mem[e][c] \in Slots /\ None \in Slots
  BY TypesOf, SlotIs
<1>4. q \in Queues
  BY <1>3 DEF Queues
<1> HIDE DEF q
<1>5. /\ mem' \in [Engines -> Queues] /\ mem'[e] = q
      /\ \A f \in Engines : f # e => mem'[f] = mem[f]
  BY <1>1, <1>4 DEF Typed
<1>6. /\ jobs' \in [Engines -> Seq(Jobs)] /\ \A f \in Engines : f # e => jobs'[f] = jobs[f]
  BY <1>1, Chained, JobIs
<1>7. /\ drain' \in [Engines -> Drains]
      /\ drain'[e].pc = "saving" /\ drain'[e].cmd = drain[e].cmd
      /\ \A f \in Engines : f # e => drain'[f] = drain[f]
  BY <1>1, DrainAt
<1>8. Typed'
  BY <1>1, <1>2, <1>5, <1>6, <1>7 DEF Typed
<1>9. Elsewhere(e)
  BY <1>1, <1>5, <1>6, <1>7 DEF Elsewhere
<1> QED
  BY <1>1, <1>2, <1>5, <1>7, <1>8, <1>9

\* A command that was not executed, or not known to be, is marked.
LEMMA DrainFailureIs ==
    ASSUME Typed, NEW e \in Engines, DrainFailure(e), drain[e].cmd \in Cmds
    PROVE  /\ Typed' /\ Elsewhere(e)
           /\ UNCHANGED <<doc, known, merged, enq, home, attached, acked, lost, restarts>>
           /\ served \subseteq served'
           /\ drain[e].pc = "sent" /\ drain'[e].pc = "saving" /\ drain'[e].cmd = drain[e].cmd
           /\ \A c \in Cmds : c # drain[e].cmd => mem'[e][c] = mem[e][c]
           /\ LET c == drain[e].cmd IN
              \/ mem'[e][c] = mem[e][c]
              \/ /\ mem[e][c] # None /\ mem'[e][c] # None
                 /\ mem'[e][c].st \in {"retrying", "failed", "conflicted"}
           /\ Chain(e, Job("write", "drain", 0))
<1> DEFINE c == drain[e].cmd
           Mark(x) == mem' = [mem EXCEPT ![e][c] = IF drain[e].attached /\ @ # None THEN x ELSE @]
<1>1. /\ UNCHANGED <<doc, known, merged, enq, home, attached, acked, lost, restarts>>
      /\ drain[e].pc = "sent"
      /\ Chain(e, Job("write", "drain", 0))
      /\ drain' = [drain EXCEPT ![e].pc = "saving"]
      /\ served' \in {served, served \cup {c}}
      /\ \/ Mark(Retried(mem[e][c]))
         \/ Mark([mem[e][c] EXCEPT !.st = "failed"])
         \/ Mark([mem[e][c] EXCEPT !.st = "conflicted"])
  BY DEF DrainFailure
<1> HIDE DEF c
<1>0. c \in Cmds /\ mem[e][c] \in Slots
  BY TypesOf DEF c
<1>2. ASSUME NEW x, Mark(x),
             mem[e][c] # None => x \in Entries /\ x.st \in {"retrying", "failed", "conflicted"}
      PROVE  /\ mem' \in [Engines -> Queues] /\ \A f \in Engines : f # e => mem'[f] = mem[f]
             /\ \A b \in Cmds : b # c => mem'[e][b] = mem[e][b]
             /\ \/ mem'[e][c] = mem[e][c]
                \/ /\ mem[e][c] # None /\ mem'[e][c] # None
                   /\ mem'[e][c].st \in {"retrying", "failed", "conflicted"}
  <2> DEFINE y == IF drain[e].attached /\ mem[e][c] # None THEN x ELSE mem[e][c]
  <2>1. mem' = [mem EXCEPT ![e][c] = y]
    BY <1>2
  <2>2. /\ y \in Slots
        /\ \/ y = mem[e][c]
           \/ mem[e][c] # None /\ y # None /\ y.st \in {"retrying", "failed", "conflicted"}
    BY <1>0, <1>2, SlotIs DEF Slots
  <2> HIDE DEF y, Mark
  <2>3. /\ mem' \in [Engines -> Queues] /\ mem'[e][c] = y
        /\ \A b \in Cmds : b # c => mem'[e][b] = mem[e][b]
        /\ \A f \in Engines : f # e => mem'[f] = mem[f]
    BY <1>0, <2>1, <2>2 DEF Typed, Queues
  <2> QED
    BY <2>2, <2>3
<1> HIDE DEF Mark
<1>3. mem[e][c] # None => mem[e][c] \in Entries
  BY <1>0, SlotIs
<1>4. /\ mem' \in [Engines -> Queues] /\ \A f \in Engines : f # e => mem'[f] = mem[f]
      /\ \A b \in Cmds : b # c => mem'[e][b] = mem[e][b]
      /\ \/ mem'[e][c] = mem[e][c]
         \/ /\ mem[e][c] # None /\ mem'[e][c] # None
            /\ mem'[e][c].st \in {"retrying", "failed", "conflicted"}
  <2>1. mem[e][c] # None =>
           Retried(mem[e][c]) \in Entries /\ Retried(mem[e][c]).st \in {"retrying", "failed"}
    BY <1>3, RetriedIs
  <2>2. mem[e][c] # None =>
          /\ [mem[e][c] EXCEPT !.st = "failed"] \in Entries
          /\ [mem[e][c] EXCEPT !.st = "failed"].st = "failed"
    BY <1>3, MarkIs DEF Statuses
  <2>3. mem[e][c] # None =>
          /\ [mem[e][c] EXCEPT !.st = "conflicted"] \in Entries
          /\ [mem[e][c] EXCEPT !.st = "conflicted"].st = "conflicted"
    BY <1>3, MarkIs DEF Statuses
  <2>4. CASE Mark(Retried(mem[e][c]))
    BY <1>2, <2>1, <2>4
  <2>5. CASE Mark([mem[e][c] EXCEPT !.st = "failed"])
    BY <1>2, <2>2, <2>5
  <2>6. CASE Mark([mem[e][c] EXCEPT !.st = "conflicted"])
    BY <1>2, <2>3, <2>6
  <2> QED
    BY <1>1, <2>4, <2>5, <2>6
<1>5. /\ jobs' \in [Engines -> Seq(Jobs)] /\ \A f \in Engines : f # e => jobs'[f] = jobs[f]
  BY <1>1, Chained, JobIs
<1>6. /\ drain' \in [Engines -> Drains]
      /\ drain'[e].pc = "saving" /\ drain'[e].cmd = drain[e].cmd
      /\ \A f \in Engines : f # e => drain'[f] = drain[f]
  BY <1>1, DrainAt
<1>7. served \subseteq served' /\ served' \subseteq Cmds
  BY <1>0, <1>1 DEF Typed
<1>8. Typed'
  BY <1>1, <1>4, <1>5, <1>6, <1>7 DEF Typed
<1>9. Elsewhere(e)
  BY <1>1, <1>4, <1>5, <1>6 DEF Elsewhere
<1> QED
  BY <1>1, <1>4, <1>6, <1>7, <1>8, <1>9 DEF c

\* What a restart makes of an entry.
LEMMA RestoredIs ==
    ASSUME NEW c \in Cmds, NEW x \in Slots, NEW y \in RestoredAs(c, x)
    PROVE  /\ y \in Slots /\ (y = None <=> x = None)
           /\ ~IsActive(x) => y = x
           /\ y.st # "applying"
<1>1. CASE ~IsActive(x)
  <2>1. y = x
    BY <1>1 DEF RestoredAs
  <2>2. x.st # "applying"
    BY <1>1 DEF IsActive, ActiveStatus
  <2> QED
    BY <2>1, <2>2
<1>2. CASE IsActive(x)
  <2>1. x \in Entries /\ x # None
    BY <1>2, SlotIs
  <2>2. \/ y = x /\ x.st # "applying"
        \/ y = [x EXCEPT !.st = "pending"]
        \/ y = [x EXCEPT !.st = "failed"]
        \/ y = [x EXCEPT !.st = "conflicted"]
    BY <1>2 DEF RestoredAs
  <2>3. \A s \in {"pending", "failed", "conflicted"} :
           [x EXCEPT !.st = s] \in Entries /\ [x EXCEPT !.st = s].st = s
    BY <2>1, MarkIs DEF Statuses
  <2>4. y \in Entries /\ y.st # "applying"
    BY <2>1, <2>2, <2>3
  <2> QED
    BY <1>2, <2>1, <2>4, SlotIs DEF Slots
<1> QED
  BY <1>1, <1>2

\* An engine restarts with the document.
LEMMA RestartIs ==
    ASSUME Typed, NEW e \in Engines, Restart(e)
    PROVE  /\ Typed' /\ Elsewhere(e)
           /\ UNCHANGED <<doc, home, acked, served, lost>>
           /\ known'[e] = doc
           /\ \A c \in Cmds : mem'[e][c] \in RestoredAs(c, doc[c])
           /\ \/ jobs'[e] = <<>> /\ mem'[e] = doc
              \/ jobs'[e] = <<Job("write", "restore", 0)>>
           /\ ~merged'[e].running /\ merged'[e].queue = Empty
           /\ drain'[e].pc = "idle" /\ drain'[e].cmd = 0
           /\ \A c \in Cmds : home[c] # e => enq'[c] = enq[c] /\ attached'[c] = attached[c]
           /\ \A c \in Cmds : home[c] = e =>
                enq'[c] = IF enq[c] \in {"new", "returned", "threw"} THEN enq[c] ELSE "crashed"
<1>1. PICK q \in Queues :
         /\ \A c \in Cmds : q[c] \in RestoredAs(c, doc[c])
         /\ mem' = [mem EXCEPT ![e] = q]
         /\ jobs' = [jobs EXCEPT ![e] = IF q = doc THEN <<>> ELSE <<Job("write", "restore", 0)>>]
  BY DEF Restart, Queues, Slots
<1>2. /\ UNCHANGED <<doc, home, acked, served, lost>>
      /\ restarts < MaxRestarts /\ restarts' = restarts + 1
      /\ known' = [known EXCEPT ![e] = doc]
      /\ merged' = [merged EXCEPT ![e] = NotRunning]
      /\ drain' = [drain EXCEPT ![e] = Idle]
  BY DEF Restart
<1>3. /\ enq' = [c \in Cmds |-> IF home[c] = e /\ enq[c] \notin {"new", "returned", "threw"}
                              THEN "crashed" ELSE enq[c]]
      /\ attached' = [c \in Cmds |-> attached[c] /\ home[c] # e]
  BY DEF Restart
<1>4. /\ mem' \in [Engines -> Queues] /\ mem'[e] = q
      /\ \A f \in Engines : f # e => mem'[f] = mem[f]
  BY <1>1 DEF Typed
<1>5. /\ known' \in [Engines -> Queues] /\ known'[e] = doc
      /\ \A f \in Engines : f # e => known'[f] = known[f]
  BY <1>2 DEF Typed
<1>6. /\ merged' \in [Engines -> Runs] /\ merged'[e] = NotRunning
      /\ \A f \in Engines : f # e => merged'[f] = merged[f]
  BY <1>2, IdleIs DEF Typed
<1>7. /\ drain' \in [Engines -> Drains] /\ drain'[e] = Idle
      /\ \A f \in Engines : f # e => drain'[f] = drain[f]
  BY <1>2, IdleIs DEF Typed
<1>8. /\ jobs' \in [Engines -> Seq(Jobs)]
      /\ jobs'[e] = IF q = doc THEN <<>> ELSE <<Job("write", "restore", 0)>>
      /\ \A f \in Engines : f # e => jobs'[f] = jobs[f]
  <2> DEFINE j == Job("write", "restore", 0)
             s == IF q = doc THEN <<>> ELSE <<j>>
  <2>1. j \in Jobs
    BY JobIs
  <2> HIDE DEF j
  <2>2. s \in Seq(Jobs)
    BY <2>1
  <2>3. jobs' = [jobs EXCEPT ![e] = s]
    BY <1>1 DEF j
  <2> HIDE DEF s
  <2>4. /\ jobs' \in [Engines -> Seq(Jobs)] /\ jobs'[e] = s
        /\ \A f \in Engines : f # e => jobs'[f] = jobs[f]
    BY <2>2, <2>3 DEF Typed
  <2> QED
    BY <2>4 DEF s, j
<1>9. /\ enq' \in [Cmds -> EnqSteps]
      /\ \A c \in Cmds : home[c] # e => enq'[c] = enq[c]
      /\ \A c \in Cmds : home[c] = e =>
           enq'[c] = IF enq[c] \in {"new", "returned", "threw"} THEN enq[c] ELSE "crashed"
  BY <1>3 DEF Typed, EnqSteps
<1>10. attached' \in [Cmds -> BOOLEAN] /\ \A c \in Cmds : home[c] # e => attached'[c] = attached[c]
  BY <1>3 DEF Typed
<1>11. restarts' \in 0 .. MaxRestarts
  BY <1>2, QueueAssumption DEF Typed
<1>12. Typed'
  BY <1>2, <1>4, <1>5, <1>6, <1>7, <1>8, <1>9, <1>10, <1>11 DEF Typed
<1>13. Elsewhere(e)
  BY <1>4, <1>5, <1>6, <1>7, <1>8 DEF Elsewhere
<1>14. /\ ~merged'[e].running /\ merged'[e].queue = Empty
       /\ drain'[e].pc = "idle" /\ drain'[e].cmd = 0
  BY <1>6, <1>7, IdleIs
<1>15. \/ jobs'[e] = <<>> /\ mem'[e] = doc
       \/ jobs'[e] = <<Job("write", "restore", 0)>>
  BY <1>4, <1>8
<1> QED
  BY <1>1, <1>2, <1>4, <1>5, <1>9, <1>10, <1>12, <1>13, <1>14, <1>15

(***************************************************************************)
(* The invariant that needs no assumption.                                 *)
(***************************************************************************)

\* What a step of one engine has to satisfy: a command unheard of stays so unless it is
\* the one that is enqueued, and what is added to its memory was unheard of.
LEMMA EngineStep ==
    ASSUME IInv, NEW e \in Engines, Typed', Elsewhere(e), home' = home,
           served \subseteq served', ChainGood(e)',
           \A c \in Cmds : enq'[c] = "new" => enq[c] = "new",
           \A c \in Cmds : /\ enq'[c] = "new" \/ home[c] # e
                           /\ Unheard(e, c) /\ doc[c] = None /\ c \notin acked
                           => Unheard(e, c)' /\ doc'[c] = None /\ c \notin acked',
           \A c \in Cmds : Added(e, c)' =>
                /\ doc'[c] = None /\ c \notin acked'
                /\ Added(e, c) \/ (enq[c] = "new" /\ home[c] = e),
           NeverResurrected'
    PROVE  IInv'
<1>1. ChainsGood'
  <2> SUFFICES ASSUME NEW f \in Engines, f # e PROVE ChainGood(f)'
    BY DEF ChainsGood
  <2>1. ChainGood(f)
    BY DEF IInv, ChainsGood
  <2> QED
    BY <2>1 DEF ChainGood, Elsewhere
<1>2. ASSUME NEW f \in Engines, f # e, NEW c \in Cmds, Unheard(f, c)
      PROVE  Unheard(f, c)'
  BY <1>2 DEF Unheard, Elsewhere
<1>3. ASSUME NEW c \in Cmds, enq'[c] = "new"
      PROVE  doc'[c] = None /\ c \notin acked' /\ \A f \in Engines : Unheard(f, c)'
  <2>1. doc[c] = None /\ c \notin acked /\ \A f \in Engines : Unheard(f, c)
    BY <1>3 DEF IInv, NewUnheard
  <2>2. Unheard(e, c)' /\ doc'[c] = None /\ c \notin acked'
    BY <1>3, <2>1
  <2> QED
    BY <1>2, <2>1, <2>2
<1>4. NewUnheard'
  BY <1>3 DEF NewUnheard
<1>5. ASSUME NEW c \in Cmds, Added(e, c)'
      PROVE  /\ home'[c] = e /\ doc'[c] = None /\ c \notin acked'
             /\ \A f \in Engines \ {e} : Unheard(f, c)'
  <2>1. Added(e, c) \/ (enq[c] = "new" /\ home[c] = e)
    BY <1>5
  <2>2. home[c] = e /\ \A f \in Engines \ {e} : Unheard(f, c)
    BY <2>1 DEF IInv, NewUnheard, AddedUnheard
  <2> QED
    BY <1>2, <1>5, <2>2
<1>6. ASSUME NEW f \in Engines, f # e, NEW c \in Cmds, Added(f, c)'
      PROVE  /\ home'[c] = f /\ doc'[c] = None /\ c \notin acked'
             /\ \A g \in Engines \ {f} : Unheard(g, c)'
  <2>1. Added(f, c)
    BY <1>6 DEF Added, Elsewhere
  <2>2. /\ home[c] = f /\ doc[c] = None /\ c \notin acked
        /\ \A g \in Engines \ {f} : Unheard(g, c)
    BY <2>1 DEF IInv, AddedUnheard
  <2>3. Unheard(e, c)' /\ doc'[c] = None /\ c \notin acked'
    BY <1>6, <2>2
  <2> QED
    BY <1>2, <1>6, <2>2, <2>3
<1>7. AddedUnheard'
  BY <1>5, <1>6 DEF AddedUnheard
<1> QED
  BY <1>1, <1>4, <1>7 DEF IInv

\* The document is updated: an engine writes what it has added, and an acknowledged
\* command is not written back, because an engine that still has it knows of it.
LEMMA JobUpdateInv ==
    ASSUME IInv, NEW e \in Engines, JobUpdate(e)
    PROVE  IInv'
<1>0. Typed /\ ChainsGood /\ NeverResurrected /\ ChainGood(e)
  BY DEF IInv, ChainsGood
<1>1. /\ Typed' /\ Elsewhere(e)
      /\ UNCHANGED <<mem, known, jobs, enq, home, attached, drain, served, lost, restarts>>
      /\ jobs[e] # <<>> /\ ~merged[e].running /\ 1 \in DOMAIN jobs[e]
      /\ merged'[e].running /\ merged'[e].queue = doc'
      /\ \/ /\ jobs[e][1].kind = "write"
            /\ doc' = MergedQueue(e) /\ acked' = acked /\ merged'[e].same = Surviving(e)
         \/ /\ jobs[e][1].kind = "ack" /\ jobs[e][1].cmd \in Cmds
            /\ jobs[e][1].cmd \in served
            /\ doc' \in AcknowledgedQueues(jobs[e][1].cmd)
            /\ acked' = acked \cup {jobs[e][1].cmd} /\ merged'[e].same = {}
  BY <1>0, JobUpdateIs
<1>2. ChainGood(e)'
  BY <1>0, <1>1 DEF ChainGood
<1>3. ASSUME NEW c \in Cmds, doc[c] = None, mem[e][c] = None \/ c \in acked
      PROVE  doc'[c] = None
  <2>1. CASE jobs[e][1].kind = "write"
    <3>1. doc' = MergedQueue(e)
      BY <1>1, <2>1
    <3>2. CASE mem[e][c] = None
      BY <1>0, <1>3, <3>1, <3>2, MergedIs
    <3>3. CASE mem[e][c] # None /\ c \in acked
      <4>1. known[e][c] # None
        BY <1>1, <3>3 DEF IInv, AddedUnheard, Added
      <4> QED
        BY <1>0, <1>3, <3>1, <3>3, <4>1, MergedIs
    <3> QED
      BY <1>3, <3>2, <3>3
  <2>2. CASE jobs[e][1].kind = "ack"
    <3>1. doc' \in AcknowledgedQueues(jobs[e][1].cmd) /\ jobs[e][1].cmd \in Cmds
      BY <1>1, <2>2
    <3>2. c = jobs[e][1].cmd \/ doc'[c] = doc[c] \/ IsActive(doc[c])
      BY <1>0, <3>1, AcknowledgedIs
    <3>3. ~IsActive(doc[c])
      BY <1>3, SlotIs
    <3>4. doc'[jobs[e][1].cmd] = None
      BY <1>0, <3>1, AcknowledgedIs
    <3> QED
      BY <1>3, <3>2, <3>3, <3>4
  <2> QED
    BY <1>1, <2>1, <2>2
<1>4. ASSUME NEW c \in Cmds, Unheard(e, c), doc[c] = None, c \notin acked
      PROVE  Unheard(e, c)' /\ doc'[c] = None /\ c \notin acked'
  <2>1. doc'[c] = None
    BY <1>3, <1>4 DEF Unheard
  <2>2. jobs[e][1].cmd # c
    BY <1>1, <1>4 DEF Unheard
  <2>3. c \notin acked'
    BY <1>1, <1>4, <2>2
  <2> QED
    BY <1>1, <1>4, <2>1, <2>3 DEF Unheard
<1>5. \A c \in Cmds : ~Added(e, c)'
  BY <1>1 DEF Added
<1>6. NeverResurrected'
  <2> SUFFICES ASSUME NEW c \in acked' PROVE doc'[c] = None
    BY DEF NeverResurrected
  <2>1. CASE c \in acked
    <3>1. doc[c] = None /\ c \in Cmds
      BY <1>0, <2>1 DEF NeverResurrected, Typed
    <3> QED
      BY <1>3, <2>1, <3>1
  <2>2. CASE c \notin acked
    <3>1. c = jobs[e][1].cmd /\ doc' \in AcknowledgedQueues(c) /\ c \in Cmds
      BY <1>1, <2>2
    <3> QED
      BY <1>0, <3>1, AcknowledgedIs
  <2> QED
    BY <2>1, <2>2
<1> QED
  BY <1>1, <1>2, <1>4, <1>5, <1>6, EngineStep

\* Steps that leave the document alone.
LEMMA LocalInv ==
    ASSUME IInv, NEW e \in Engines, Typed', Elsewhere(e), UNCHANGED <<doc, home, acked>>,
           served \subseteq served', ChainGood(e)',
           \A c \in Cmds : enq'[c] = "new" => enq[c] = "new",
           \A c \in Cmds : /\ enq'[c] = "new" \/ home[c] # e
                           /\ Unheard(e, c) /\ doc[c] = None
                           => Unheard(e, c)',
           \A c \in Cmds : Added(e, c)' => Added(e, c) \/ (enq[c] = "new" /\ home[c] = e)
    PROVE  IInv'
<1>1. NeverResurrected'
  BY DEF IInv, NeverResurrected
<1>2. ASSUME NEW c \in Cmds, Added(e, c)'
      PROVE  doc'[c] = None /\ c \notin acked'
  BY <1>2 DEF IInv, AddedUnheard, NewUnheard
<1> QED
  BY <1>1, <1>2, EngineStep

\* A finished job: memory and what is known agree.
LEMMA JobFinishInv ==
    ASSUME IInv, NEW e \in Engines, JobFinish(e)
    PROVE  IInv'
<1>0. Typed /\ ChainsGood /\ ChainGood(e)
  BY DEF IInv, ChainsGood
<1>1. /\ Typed' /\ Elsewhere(e)
      /\ UNCHANGED <<doc, home, acked, served, restarts>>
      /\ merged[e].running /\ jobs[e] # <<>> /\ 1 \in DOMAIN jobs[e]
      /\ mem'[e] = Adopted(e) /\ known'[e] = Adopted(e)
      /\ ~merged'[e].running /\ merged'[e].queue = Empty
      /\ \A n \in DOMAIN jobs'[e] : n + 1 \in DOMAIN jobs[e] /\ jobs'[e][n] = jobs[e][n + 1]
      /\ jobs[e][1].for = "drain" => drain'[e] = Idle
      /\ jobs[e][1].for # "drain" => drain'[e].pc = drain[e].pc /\ drain'[e].cmd = drain[e].cmd
      /\ \A c \in Cmds : enq'[c] = "new" => enq[c] = "new"
  BY <1>0, JobFinishIs
<1>2. \/ drain'[e].pc = "idle" /\ drain'[e].cmd = 0
      \/ drain'[e].pc = drain[e].pc /\ drain'[e].cmd = drain[e].cmd
  BY <1>1, IdleIs
<1>3. ChainGood(e)'
  BY <1>0, <1>1, <1>2 DEF ChainGood
<1>4. ASSUME NEW c \in Cmds, Unheard(e, c)
      PROVE  Unheard(e, c)'
  <2>1. Adopted(e)[c] = None
    BY <1>0, <1>4, AdoptedIs DEF Unheard
  <2>2. drain'[e].cmd # c
    BY <1>2, <1>4, IdleIs DEF Unheard
  <2>3. \A n \in DOMAIN jobs'[e] : jobs'[e][n].cmd # c
    BY <1>1, <1>4 DEF Unheard
  <2>4. merged'[e].queue[c] = None
    BY <1>1, IdleIs
  <2> QED
    BY <1>1, <2>1, <2>2, <2>3, <2>4 DEF Unheard
<1>5. \A c \in Cmds : ~Added(e, c)'
  BY <1>1 DEF Added
<1> QED
  BY <1>1, <1>3, <1>4, <1>5, LocalInv

\* A command is enqueued.
LEMMA EnqueueInv ==
    ASSUME IInv, NEW c \in Cmds, Enqueue(c)
    PROVE  IInv'
<1>0. Typed /\ home[c] \in Engines
  BY DEF IInv, Typed
<1>e. PICK e \in Engines : e = home[c]
  BY <1>0
<1>1. ChainGood(e)
  BY DEF IInv, ChainsGood
<1>2. /\ Typed' /\ Elsewhere(e)
      /\ UNCHANGED <<doc, known, merged, home, attached, drain, acked, served, lost, restarts>>
      /\ enq[c] = "new"
      /\ \A b \in Cmds : b # c => mem'[e][b] = mem[e][b]
      /\ enq'[c] = "persist" /\ \A b \in Cmds : b # c => enq'[b] = enq[b]
      /\ Chain(e, Job("write", "enqueue", c))
  BY <1>0, <1>e, EnqueueIs
<1> DEFINE j == Job("write", "enqueue", c)
<1>3. j \in Jobs /\ j.kind = "write" /\ j.for = "enqueue" /\ j.cmd = c
  BY JobIs
<1>4. Chain(e, j)
  BY <1>2
<1> HIDE DEF j
<1>5. /\ jobs'[e] # <<>>
      /\ \A n \in DOMAIN jobs'[e] :
           jobs'[e][n] = j \/ (n \in DOMAIN jobs[e] /\ jobs'[e][n] = jobs[e][n])
  BY <1>0, <1>3, <1>4, Chained
<1>6. ChainGood(e)'
  BY <1>1, <1>2, <1>3, <1>5, <1>e DEF ChainGood
<1>7. ASSUME NEW b \in Cmds, b # c, Unheard(e, b)
      PROVE  Unheard(e, b)'
  BY <1>2, <1>3, <1>5, <1>7 DEF Unheard
<1>8. ASSUME NEW b \in Cmds, Added(e, b)'
      PROVE  Added(e, b) \/ (enq[b] = "new" /\ home[b] = e)
  BY <1>2, <1>8, <1>e DEF Added
<1>9. \A b \in Cmds : enq'[b] = "new" => enq[b] = "new"
  BY <1>2
<1>10. \A b \in Cmds : (enq'[b] = "new" \/ home[b] # e) => b # c
  BY <1>2, <1>e
<1> QED
  BY <1>2, <1>6, <1>7, <1>8, <1>9, <1>10, LocalInv

\* The other steps of an engine add nothing to its memory, and what they chain is a
\* write of nothing in particular, of a command the engine has, or the acknowledgement
\* of the command it has sent.
LEMMA QuietInv ==
    ASSUME IInv, NEW e \in Engines, Typed', Elsewhere(e),
           UNCHANGED <<doc, known, merged, home, acked>>,
           served \subseteq served',
           \A c \in Cmds : enq'[c] = "new" => enq[c] = "new",
           \A c \in Cmds : mem[e][c] = None => mem'[e][c] = None,
           drain'[e].pc # "idle" => drain'[e].cmd \in Cmds,
           drain'[e].pc = "splice" => drain'[e].cmd \in served',
           drain'[e].cmd \in {0, drain[e].cmd}
             \/ (drain'[e].cmd \in Cmds /\ mem[e][drain'[e].cmd] # None),
           jobs'[e] = jobs[e] \/ \E j \in Jobs :
             /\ Chain(e, j)
             /\ j.kind = "ack" => j.cmd \in served /\ j.for = "drain"
             /\ j.for = "enqueue" => j.cmd \in Cmds /\ home[j.cmd] = e
             /\ \/ j.cmd \in {0, drain[e].cmd}
                \/ j.for = "enqueue" /\ enq[j.cmd] # "new"
    PROVE  IInv'
<1>0. Typed /\ ChainGood(e)
  BY DEF IInv, ChainsGood
<1>1. ASSUME NEW n \in DOMAIN jobs'[e]
      PROVE  LET k == jobs'[e][n] IN
             \/ n \in DOMAIN jobs[e] /\ k = jobs[e][n]
             \/ /\ k.kind = "ack" => k.cmd \in served /\ k.for = "drain"
                /\ k.for = "enqueue" => k.cmd \in Cmds /\ home[k.cmd] = e
                /\ \/ k.cmd \in {0, drain[e].cmd}
                   \/ k.for = "enqueue" /\ enq[k.cmd] # "new"
  <2>1. CASE jobs'[e] = jobs[e]
    BY <2>1
  <2>2. CASE jobs'[e] # jobs[e]
    <3>1. PICK j \in Jobs :
             /\ Chain(e, j)
             /\ j.kind = "ack" => j.cmd \in served /\ j.for = "drain"
             /\ j.for = "enqueue" => j.cmd \in Cmds /\ home[j.cmd] = e
             /\ \/ j.cmd \in {0, drain[e].cmd}
                \/ j.for = "enqueue" /\ enq[j.cmd] # "new"
      BY <2>2
    <3>2. \/ n \in DOMAIN jobs[e] /\ jobs'[e][n] = jobs[e][n]
          \/ jobs'[e][n] = j
      BY <1>0, <3>1, Chained
    <3> QED
      BY <3>1, <3>2
  <2> QED
    BY <2>1, <2>2
<1>2. jobs[e] # <<>> => jobs'[e] # <<>>
  BY <1>0, Chained
<1>3. ChainGood(e)'
  <2>1. merged'[e].running => jobs'[e] # <<>>
    BY <1>0, <1>2 DEF ChainGood
  <2>2. ASSUME NEW n \in DOMAIN jobs'[e]
        PROVE  /\ jobs'[e][n].kind = "ack" =>
                    jobs'[e][n].cmd \in served' /\ jobs'[e][n].for = "drain"
               /\ jobs'[e][n].for = "enqueue" =>
                    jobs'[e][n].cmd \in Cmds /\ home'[jobs'[e][n].cmd] = e
    BY <1>0, <1>1, <2>2 DEF ChainGood
  <2> QED
    BY <2>1, <2>2 DEF ChainGood
<1>4. ASSUME NEW c \in Cmds, Unheard(e, c), enq'[c] = "new" \/ home[c] # e
      PROVE  Unheard(e, c)'
  <2>0. c # 0
    BY IdleIs
  <2>1. /\ mem'[e][c] = None /\ known'[e][c] = None /\ merged'[e].queue[c] = None
    BY <1>4 DEF Unheard
  <2>2. drain'[e].cmd # c
    BY <1>4, <2>0 DEF Unheard
  <2>3. ASSUME NEW n \in DOMAIN jobs'[e]
        PROVE  jobs'[e][n].cmd # c
    <3>1. \A m \in DOMAIN jobs[e] : jobs[e][m].cmd # c
      BY <1>4 DEF Unheard
    <3>2. c # drain[e].cmd
      BY <1>4 DEF Unheard
    <3> QED
      BY <1>1, <1>4, <2>0, <2>3, <3>1, <3>2
  <2> QED
    BY <2>1, <2>2, <2>3 DEF Unheard
<1>5. ASSUME NEW c \in Cmds, Added(e, c)'
      PROVE  Added(e, c)
  BY <1>5 DEF Added
<1> QED
  BY <1>3, <1>4, <1>5, LocalInv

\* The rest of enqueue().
LEMMA EnqueueRestInv ==
    ASSUME IInv, NEW c \in Cmds, EnqueueCheck(c) \/ EnqueueApply(c)
    PROVE  IInv'
<1>0. Typed /\ home[c] \in Engines
  BY DEF IInv, Typed
<1>e. PICK e \in Engines : e = home[c]
  BY <1>0
<1>1. ChainGood(e)
  BY DEF IInv, ChainsGood
<1>2. CASE EnqueueCheck(c)
  <2>1. /\ Typed' /\ Elsewhere(e)
        /\ UNCHANGED <<doc, mem, known, jobs, merged, home, drain, acked, served, lost, restarts>>
        /\ enq'[c] = IF IsActive(mem[e][c]) THEN "apply" ELSE "returned"
        /\ \A b \in Cmds : b # c => enq'[b] = enq[b]
    BY <1>0, <1>2, <1>e, EnqueueCheckIs
  <2>2. \A b \in Cmds : enq'[b] = "new" => enq[b] = "new"
    BY <2>1
  <2> QED
    BY <1>1, <2>1, <2>2, QuietInv DEF ChainGood
<1>3. CASE EnqueueApply(c)
  <2>1. /\ Typed' /\ Elsewhere(e)
        /\ UNCHANGED <<doc, known, merged, home, drain, acked, served, lost, restarts>>
        /\ enq[c] = "apply" /\ enq'[c] \in {"save", "saveThrow"}
        /\ \A b \in Cmds : b # c => enq'[b] = enq[b] /\ mem'[e][b] = mem[e][b]
        /\ mem[e][c] = None => mem'[e][c] = None
        /\ Chain(e, Job("write", "enqueue", c))
    BY <1>0, <1>3, <1>e, EnqueueApplyIs
  <2>2. \A b \in Cmds : enq'[b] = "new" => enq[b] = "new"
    BY <2>1
  <2>3. \A b \in Cmds : mem[e][b] = None => mem'[e][b] = None
    BY <2>1
  <2>4. \E j \in Jobs : /\ Chain(e, j) /\ j.kind = "write" /\ j.for = "enqueue" /\ j.cmd = c
    BY <2>1, JobIs
  <2>5. \E j \in Jobs :
             /\ Chain(e, j)
             /\ j.kind = "ack" => j.cmd \in served /\ j.for = "drain"
             /\ j.for = "enqueue" => j.cmd \in Cmds /\ home[j.cmd] = e
             /\ \/ j.cmd \in {0, drain[e].cmd}
                \/ j.for = "enqueue" /\ enq[j.cmd] # "new"
    BY <1>e, <2>1, <2>4
  <2> QED
    BY <1>1, <2>1, <2>2, <2>3, <2>5, QuietInv DEF ChainGood
<1> QED
  BY <1>2, <1>3

\* The steps of drain().
LEMMA DrainInv ==
    ASSUME IInv, NEW e \in Engines,
           \/ DrainBegin(e) \/ DrainNoClient(e) \/ DrainSend(e)
           \/ DrainSuccess(e) \/ DrainSplice(e) \/ DrainFailure(e)
    PROVE  IInv'
<1>0. Typed /\ ChainGood(e)
  BY DEF IInv, ChainsGood
<1>1. drain[e].pc # "idle" => drain[e].cmd \in Cmds
  BY <1>0 DEF ChainGood
<1>2. CASE DrainBegin(e) \/ DrainSend(e)
  <2>1. /\ Typed' /\ Elsewhere(e)
        /\ UNCHANGED <<doc, mem, known, jobs, merged, enq, home, attached, acked, served, lost,
                       restarts>>
        /\ \/ drain'[e].pc = "idle" /\ drain'[e].cmd = 0
           \/ /\ drain'[e].pc \in {"client", "sent"} /\ drain'[e].cmd \in Cmds
              /\ IsReady(mem[e][drain'[e].cmd])
    BY <1>0, <1>2, DrainMovesIs
  <2>2. drain'[e].pc # "idle" => mem[e][drain'[e].cmd] # None
    BY <2>1, SlotIs
  <2> QED
    BY <2>1, <2>2, QuietInv
<1>3. CASE DrainNoClient(e)
  <2>1. /\ Typed' /\ Elsewhere(e)
        /\ UNCHANGED <<doc, known, merged, enq, home, attached, acked, served, lost, restarts>>
        /\ drain[e].pc = "client"
        /\ \A c \in Cmds : mem[e][c] = None => mem'[e][c] = None
        /\ \/ /\ Chain(e, Job("write", "drain", 0))
              /\ drain'[e].pc = "saving" /\ drain'[e].cmd = drain[e].cmd
           \/ /\ jobs' = jobs /\ drain'[e].pc = "idle" /\ drain'[e].cmd = 0
    BY <1>0, <1>3, DrainNoClientIs
  <2>2. jobs'[e] = jobs[e] \/ \E j \in Jobs :
             /\ Chain(e, j)
             /\ j.kind = "ack" => j.cmd \in served /\ j.for = "drain"
             /\ j.for = "enqueue" => j.cmd \in Cmds /\ home[j.cmd] = e
             /\ \/ j.cmd \in {0, drain[e].cmd}
                \/ j.for = "enqueue" /\ enq[j.cmd] # "new"
    BY <2>1, JobIs
  <2> QED
    BY <1>1, <2>1, <2>2, QuietInv
<1>4. CASE DrainSuccess(e)
  <2>0. drain[e].cmd \in Cmds
    BY <1>1, <1>4 DEF DrainSuccess
  <2>1. /\ Typed' /\ Elsewhere(e)
        /\ UNCHANGED <<doc, mem, known, jobs, merged, enq, home, attached, acked, lost,
                       restarts>>
        /\ served' = served \cup {drain[e].cmd}
        /\ drain'[e].pc = "splice" /\ drain'[e].cmd = drain[e].cmd
    BY <1>0, <1>4, <2>0, DrainSuccessIs
  <2> QED
    BY <2>0, <2>1, QuietInv
<1>5. CASE DrainSplice(e)
  <2>0. drain[e].cmd \in Cmds /\ drain[e].cmd \in served
    BY <1>0, <1>1, <1>5 DEF DrainSplice, ChainGood
  <2>1. /\ Typed' /\ Elsewhere(e)
        /\ UNCHANGED <<doc, known, merged, enq, home, attached, acked, served, restarts>>
        /\ drain'[e].pc = "saving" /\ drain'[e].cmd = drain[e].cmd
        /\ \A c \in Cmds : mem[e][c] = None => mem'[e][c] = None
        /\ Chain(e, Job("ack", "drain", drain[e].cmd))
    BY <1>0, <1>5, <2>0, DrainSpliceIs
  <2>2. \E j \in Jobs :
             /\ Chain(e, j)
             /\ j.kind = "ack" => j.cmd \in served /\ j.for = "drain"
             /\ j.for = "enqueue" => j.cmd \in Cmds /\ home[j.cmd] = e
             /\ \/ j.cmd \in {0, drain[e].cmd}
                \/ j.for = "enqueue" /\ enq[j.cmd] # "new"
    BY <2>0, <2>1, JobIs
  <2> QED
    BY <2>0, <2>1, <2>2, QuietInv
<1>6. CASE DrainFailure(e)
  <2>0. drain[e].cmd \in Cmds
    BY <1>1, <1>6 DEF DrainFailure
  <2>1. /\ Typed' /\ Elsewhere(e)
        /\ UNCHANGED <<doc, known, merged, enq, home, attached, acked, lost, restarts>>
        /\ served \subseteq served'
        /\ drain'[e].pc = "saving" /\ drain'[e].cmd = drain[e].cmd
        /\ \A c \in Cmds : c # drain[e].cmd => mem'[e][c] = mem[e][c]
        /\ \/ mem'[e][drain[e].cmd] = mem[e][drain[e].cmd]
           \/ mem[e][drain[e].cmd] # None
        /\ Chain(e, Job("write", "drain", 0))
    BY <1>0, <1>6, <2>0, DrainFailureIs
  <2>2. \E j \in Jobs :
             /\ Chain(e, j)
             /\ j.kind = "ack" => j.cmd \in served /\ j.for = "drain"
             /\ j.for = "enqueue" => j.cmd \in Cmds /\ home[j.cmd] = e
             /\ \/ j.cmd \in {0, drain[e].cmd}
                \/ j.for = "enqueue" /\ enq[j.cmd] # "new"
    BY <2>1, JobIs
  <2>3. \A c \in Cmds : mem[e][c] = None => mem'[e][c] = None
    BY <2>1
  <2> QED
    BY <2>0, <2>1, <2>2, <2>3, QuietInv
<1> QED
  BY <1>2, <1>3, <1>4, <1>5, <1>6

\* A restart takes memory and what is known from the document.
LEMMA RestartInv ==
    ASSUME IInv, NEW e \in Engines, Restart(e)
    PROVE  IInv'
<1>0. Typed /\ ChainGood(e)
  BY DEF IInv, ChainsGood
<1>1. /\ Typed' /\ Elsewhere(e)
      /\ UNCHANGED <<doc, home, acked, served, lost>>
      /\ known'[e] = doc
      /\ \A c \in Cmds : mem'[e][c] \in RestoredAs(c, doc[c])
      /\ jobs'[e] = <<>> \/ jobs'[e] = <<Job("write", "restore", 0)>>
      /\ ~merged'[e].running /\ merged'[e].queue = Empty
      /\ drain'[e].pc = "idle" /\ drain'[e].cmd = 0
      /\ \A c \in Cmds : home[c] # e => enq'[c] = enq[c]
      /\ \A c \in Cmds : home[c] = e =>
           enq'[c] = IF enq[c] \in {"new", "returned", "threw"} THEN enq[c] ELSE "crashed"
  BY <1>0, RestartIs
<1>2. \A n \in DOMAIN jobs'[e] : jobs'[e][n] = Job("write", "restore", 0)
  <2> DEFINE j == Job("write", "restore", 0)
  <2>1. jobs'[e] = <<>> \/ jobs'[e] = <<j>>
    BY <1>1
  <2> HIDE DEF j
  <2>2. \A n \in DOMAIN jobs'[e] : jobs'[e][n] = j
    BY <2>1
  <2> QED
    BY <2>2 DEF j
<1>3. \A n \in DOMAIN jobs'[e] :
         jobs'[e][n].kind = "write" /\ jobs'[e][n].for = "restore" /\ jobs'[e][n].cmd = 0
  BY <1>2, JobIs
<1>4. ChainGood(e)'
  BY <1>1, <1>3 DEF ChainGood
<1>5. \A c \in Cmds : doc[c] \in Slots
  BY <1>0, TypesOf
<1>6. \A c \in Cmds : mem'[e][c] = None <=> doc[c] = None
  BY <1>1, <1>5, RestoredIs
<1>7. ASSUME NEW c \in Cmds, doc[c] = None
      PROVE  Unheard(e, c)'
  <2>1. c # 0 /\ Empty[c] = None
    BY IdleIs
  <2> QED
    BY <1>1, <1>3, <1>6, <1>7, <2>1 DEF Unheard
<1>8. \A c \in Cmds : ~Added(e, c)'
  BY <1>1, <1>6 DEF Added
<1>9. \A c \in Cmds : enq'[c] = "new" => enq[c] = "new"
  BY <1>1
<1> QED
  BY <1>1, <1>4, <1>7, <1>8, <1>9, LocalInv

\* The invariant holds at the start ...
LEMMA InitInv ==
    ASSUME Init
    PROVE  IInv
<1> USE DEF Init
<1>1. Typed
  <2>1. /\ doc \in Queues /\ mem \in [Engines -> Queues] /\ known \in [Engines -> Queues]
    BY SlotIs
  <2>2. jobs \in [Engines -> Seq(Jobs)] /\ enq \in [Cmds -> EnqSteps]
    BY DEF EnqSteps
  <2>3. merged \in [Engines -> Runs] /\ drain \in [Engines -> Drains]
    BY IdleIs
  <2>4. restarts \in 0 .. MaxRestarts
    BY QueueAssumption
  <2> QED
    BY <2>1, <2>2, <2>3, <2>4 DEF Typed
<1>2. ASSUME NEW e \in Engines
      PROVE  ChainGood(e) /\ \A c \in Cmds : Unheard(e, c) /\ ~Added(e, c)
  <2>1. /\ merged[e] = NotRunning /\ drain[e] = Idle /\ mem[e] = Empty /\ known[e] = Empty
        /\ DOMAIN jobs[e] = {}
    OBVIOUS
  <2> QED
    BY <2>1, IdleIs DEF ChainGood, Unheard, Added
<1>3. NewUnheard
  BY <1>2, IdleIs DEF NewUnheard
<1>4. AddedUnheard
  BY <1>2 DEF AddedUnheard
<1>5. NeverResurrected
  BY DEF NeverResurrected
<1> QED
  BY <1>1, <1>2, <1>3, <1>4, <1>5 DEF IInv, ChainsGood

\* ... and every step keeps it.
LEMMA StepInv ==
    ASSUME IInv, Next
    PROVE  IInv'
BY JobUpdateInv, JobFinishInv, DrainInv, RestartInv, EnqueueInv, EnqueueRestInv DEF Next

\* A step that changes nothing does too.
LEMMA StutterInv ==
    ASSUME IInv, UNCHANGED vars
    PROVE  IInv'
BY DEF vars, IInv, Typed, ChainsGood, ChainGood, NewUnheard, AddedUnheard, Unheard, Added,
       NeverResurrected

\* The invariant holds always.
THEOREM Inductive == Spec => []IInv
<1>1. Init => IInv
  BY InitInv
<1>2. IInv /\ [Next]_vars => IInv'
  BY StepInv, StutterInv
<1> QED
  BY <1>1, <1>2, PTL DEF Spec

\* The queue document, the memories, the chains of writes and the calls stay within
\* their types; a retry count never passes MAX_RETRY_COUNT.
THEOREM TypeCorrect == Spec => []TypeOK
<1>1. IInv => TypeOK
  <2> SUFFICES ASSUME IInv PROVE TypeOK
    OBVIOUS
  <2>0. Typed
    BY DEF IInv
  <2>1. \A e \in Engines : \A n \in DOMAIN jobs[e] :
           jobs[e][n] \in [kind : {"write", "ack"}, for : {"enqueue", "drain", "restore"},
                           cmd : Cmds \cup {0}]
    BY <2>0, TypesOf DEF Jobs
  <2> QED
    BY <2>0, <2>1 DEF Typed, TypeOK, Queues, Slots, Runs, Drains
<1> QED
  BY <1>1, Inductive, PTL

\* A command whose acknowledgement is in the document never comes back into it, however
\* the calls of the engines overlap and whenever engines restart.
THEOREM AcknowledgedStayGone == Spec => []NeverResurrected
<1>1. IInv => NeverResurrected
  BY DEF IInv
<1> QED
  BY <1>1, Inductive, PTL

(***************************************************************************)
(* What leaves a queue is accounted for.                                   *)
(***************************************************************************)

\* Accounts are never closed, and other engines' accounts stand if a step of e has the
\* document account for what it drops.
LEMMA KeptStep ==
    ASSUME IInv, AInv, NEW e \in Engines, Elsewhere(e), home' = home,
           served \subseteq served', lost \subseteq lost',
           \A c \in Cmds : Kept(c) => Kept(c)',
           \A c \in Cmds : SlotKept(e, c)',
           \A c \in Cmds : home[c] = e => CallKept(c)',
           \A c \in Cmds : home[c] # e => enq'[c] = enq[c]
    PROVE  AInv'
<1>1. ASSUME NEW f \in Engines, f # e, NEW c \in Cmds
      PROVE  SlotKept(f, c)'
  <2>1. SlotKept(f, c)
    BY DEF AInv
  <2>2. /\ mem'[f] = mem[f] /\ known'[f] = known[f] /\ merged'[f] = merged[f]
    BY <1>1 DEF Elsewhere
  <2>3. Gone(c) => Gone(c)'
    BY DEF Gone
  <2> QED
    BY <2>1, <2>2, <2>3 DEF SlotKept
<1>2. ASSUME NEW c \in Cmds, home[c] # e
      PROVE  CallKept(c)'
  <2>1. CallKept(c) /\ home[c] \in Engines
    BY DEF AInv, IInv, Typed
  <2>2. /\ mem'[home[c]] = mem[home[c]] /\ jobs'[home[c]] = jobs[home[c]]
        /\ merged'[home[c]] = merged[home[c]] /\ home'[c] = home[c] /\ enq'[c] = enq[c]
    BY <1>2, <2>1 DEF Elsewhere
  <2> QED
    BY <2>1, <2>2 DEF CallKept
<1> QED
  BY <1>1, <1>2 DEF AInv

\* The document loses a command to its acknowledgement, or to an engine that knew of it
\* and has accounted for dropping it.
LEMMA DocumentKept ==
    ASSUME IInv, AInv, NEW e \in Engines, JobUpdate(e), NEW c \in Cmds
    PROVE  doc[c] # None => doc'[c] # None \/ Gone(c)
<1>0. Typed /\ ChainsGood
  BY DEF IInv
<1>1. \/ doc' = MergedQueue(e)
      \/ /\ jobs[e][1].cmd \in Cmds /\ jobs[e][1].cmd \in served
         /\ doc' \in AcknowledgedQueues(jobs[e][1].cmd)
  BY <1>0, JobUpdateIs
<1>2. CASE doc' = MergedQueue(e)
  <2>1. known[e][c] # None /\ mem[e][c] = None => Gone(c)
    BY DEF AInv, SlotKept
  <2> QED
    BY <1>0, <1>2, <2>1, MergedIs
<1>3. CASE /\ jobs[e][1].cmd \in Cmds /\ jobs[e][1].cmd \in served
           /\ doc' \in AcknowledgedQueues(jobs[e][1].cmd)
  <2>1. c = jobs[e][1].cmd \/ doc'[c] = doc[c] \/ doc'[c] # None
    BY <1>0, <1>3, AcknowledgedIs
  <2> QED
    BY <1>3, <2>1 DEF Gone
<1> QED
  BY <1>1, <1>2, <1>3

\* The document is updated.
LEMMA JobUpdateKept ==
    ASSUME IInv, AInv, NEW e \in Engines, JobUpdate(e)
    PROVE  AInv'
<1>0. Typed /\ ChainsGood
  BY DEF IInv
<1>1. /\ Elsewhere(e)
      /\ UNCHANGED <<mem, known, jobs, enq, home, served, lost>>
      /\ merged'[e].running /\ merged'[e].queue = doc'
      /\ \/ /\ jobs[e][1].kind = "write"
            /\ doc' = MergedQueue(e) /\ merged'[e].same = Surviving(e)
         \/ /\ jobs[e][1].kind = "ack" /\ jobs[e][1].cmd \in Cmds
            /\ jobs[e][1].cmd \in served /\ merged'[e].same = {}
  BY <1>0, JobUpdateIs
<1>2. ASSUME NEW c \in Cmds, Kept(c)
      PROVE  Kept(c)'
  <2>1. doc[c] # None => doc'[c] # None \/ Gone(c)
    BY DocumentKept
  <2> QED
    BY <1>1, <1>2, <2>1 DEF Kept, Gone
<1>3. ASSUME NEW c \in Cmds
      PROVE  SlotKept(e, c)'
  <2>1. SlotKept(e, c)
    BY DEF AInv
  <2>2. c \in merged'[e].same => doc'[c] # None
    <3>1. CASE merged'[e].same = Surviving(e) /\ doc' = MergedQueue(e)
      <4> SUFFICES ASSUME c \in Surviving(e) PROVE doc'[c] # None
        BY <3>1
      <4>1. mem[e][c] # None /\ (known[e][c] = None \/ known[e][c] = doc[c])
        BY DEF Surviving, In
      <4> QED
        BY <1>0, <3>1, <4>1, MergedIs
    <3> QED
      BY <1>1, <3>1
  <2>3. Gone(c)' <=> Gone(c)
    BY <1>1 DEF Gone
  <2> QED
    BY <1>1, <1>2, <2>1, <2>2, <2>3 DEF SlotKept, Kept
<1>4. ASSUME NEW c \in Cmds, home[c] = e
      PROVE  CallKept(c)'
  <2>1. CallKept(c) /\ SlotKept(e, c)
    BY DEF AInv
  <2>2. /\ enq'[c] = enq[c] /\ mem'[e] = mem[e] /\ jobs'[e] = jobs[e] /\ home'[c] = e
    BY <1>1, <1>4
  <2>3. ASSUME enq[c] = "persist", jobs[e][1].for = "enqueue", jobs[e][1].cmd = c
        PROVE  Kept(c)'
    <3>1. CASE jobs[e][1].kind = "ack"
      <4>1. c \in served'
        BY <1>1, <2>3, <3>1
      <4> QED
        BY <4>1 DEF Kept, Gone
    <3>2. CASE jobs[e][1].kind = "write"
      <4>1. mem[e][c] # None \/ Kept(c)
        BY <1>4, <2>1, <2>3 DEF CallKept
      <4>2. CASE mem[e][c] # None /\ known[e][c] = None
        <5>1. doc'[c] = mem[e][c]
          BY <1>0, <1>1, <3>2, <4>2, MergedIs
        <5> QED
          BY <4>2, <5>1 DEF Kept
      <4>3. CASE known[e][c] # None
        BY <1>2, <2>1, <4>3 DEF SlotKept
      <4> QED
        BY <1>2, <4>1, <4>2, <4>3
    <3> QED
      BY <1>1, <3>1, <3>2
  <2> QED
    BY <1>2, <1>4, <2>1, <2>2, <2>3 DEF CallKept
<1> QED
  BY <1>1, <1>2, <1>3, <1>4, KeptStep

\* A job finishes: what the adoption removes was known, or is lost.
LEMMA JobFinishKept ==
    ASSUME IInv, AInv, NEW e \in Engines, JobFinish(e)
    PROVE  AInv'
<1>0. Typed /\ ChainsGood /\ ChainGood(e)
  BY DEF IInv, ChainsGood
<1>1. /\ Elsewhere(e)
      /\ UNCHANGED <<doc, home, served>> /\ lost \subseteq lost'
      /\ merged[e].running /\ 1 \in DOMAIN jobs[e]
      /\ mem'[e] = Adopted(e) /\ known'[e] = Adopted(e)
      /\ ~merged'[e].running
      /\ jobs[e][1].for # "enqueue" => enq' = enq
      /\ jobs[e][1].for = "enqueue" =>
           enq' = [enq EXCEPT ![jobs[e][1].cmd] = AfterWrite(enq[jobs[e][1].cmd])]
      /\ \A c \in Cmds : mem[e][c] # None /\ known[e][c] = None /\ Adopted(e)[c] = None =>
           c \in lost'
  BY <1>0, JobFinishIs
<1>2. \A c \in Cmds : Kept(c) => Kept(c)'
  BY <1>1 DEF Kept, Gone
<1>3. ASSUME NEW c \in Cmds
      PROVE  SlotKept(e, c)'
  <2>1. SlotKept(e, c)
    BY DEF AInv
  <2>2. Adopted(e)[c] # None => merged[e].queue[c] # None
    BY <1>0, <1>1, <2>1, AdoptedIs DEF SlotKept
  <2>3. Adopted(e)[c] # None => Kept(c)'
    BY <1>1, <1>2, <2>1, <2>2 DEF SlotKept
  <2> QED
    BY <1>1, <2>3 DEF SlotKept
<1>4. ASSUME NEW c \in Cmds
      PROVE  \/ enq'[c] = enq[c]
             \/ /\ enq'[c] = AfterWrite(enq[c]) /\ home[c] = e
                /\ jobs[e][1].for = "enqueue" /\ jobs[e][1].cmd = c
  <2>1. jobs[e][1].for = "enqueue" => jobs[e][1].cmd \in Cmds /\ home[jobs[e][1].cmd] = e
    BY <1>0, <1>1 DEF ChainGood
  <2>2. enq \in [Cmds -> EnqSteps]
    BY <1>0 DEF Typed
  <2> QED
    BY <1>1, <2>1, <2>2
<1>5. ASSUME NEW c \in Cmds, home[c] = e
      PROVE  CallKept(c)'
  <2>1. CallKept(c) /\ SlotKept(e, c)
    BY DEF AInv
  <2>2. CASE enq'[c] = enq[c]
    <3>1. enq[c] = "persist" => mem'[e][c] # None \/ Kept(c)'
      <4> SUFFICES ASSUME enq[c] = "persist", Adopted(e)[c] = None, ~Kept(c) PROVE Kept(c)'
        BY <1>1, <1>2
      <4>1. mem[e][c] # None
        BY <1>5, <2>1 DEF CallKept
      <4>2. known[e][c] = None
        BY <2>1 DEF SlotKept
      <4>3. c \in lost'
        BY <1>1, <4>1, <4>2
      <4> QED
        BY <4>3 DEF Kept, Gone
    <3> QED
      BY <1>1, <1>2, <1>5, <2>1, <2>2, <3>1 DEF CallKept
  <2>3. CASE enq'[c] # enq[c]
    <3>1. enq'[c] = AfterWrite(enq[c]) /\ jobs[e][1].for = "enqueue" /\ jobs[e][1].cmd = c
      BY <1>4, <2>3
    <3>2. enq[c] \in {"persist", "save", "saveThrow"} /\ enq'[c] \notin {"persist"}
      BY <2>3, <3>1 DEF AfterWrite
    <3>3. Kept(c)
      BY <1>1, <1>5, <2>1, <3>1, <3>2 DEF CallKept
    <3> QED
      BY <1>2, <3>2, <3>3 DEF CallKept
  <2> QED
    BY <2>2, <2>3
<1>6. \A c \in Cmds : home[c] # e => enq'[c] = enq[c]
  BY <1>4
<1> QED
  BY <1>1, <1>2, <1>3, <1>5, <1>6, KeptStep

\* The other steps leave the document and the chain's head alone; a command they drop
\* from memory is accounted for, and no call comes past its first write.
LEMMA QuietKept ==
    ASSUME IInv, AInv, NEW e \in Engines, Elsewhere(e),
           UNCHANGED <<doc, known, merged, home>>,
           served \subseteq served', lost \subseteq lost',
           \A c \in Cmds : mem'[e][c] = None => mem[e][c] = None \/ Gone(c)',
           jobs[e] # <<>> => jobs'[e][1] = jobs[e][1],
           \A c \in Cmds : home[c] # e => enq'[c] = enq[c],
           \A c \in Cmds :
             \/ enq'[c] = enq[c]
             \/ enq[c] \notin {"new", "persist", "crashed"} /\ enq'[c] # "persist"
             \/ /\ enq[c] = "new" /\ enq'[c] = "persist" /\ mem'[e][c] # None
    PROVE  AInv'
<1>0. Typed /\ ChainGood(e)
  BY DEF IInv, ChainsGood
<1>1. \A c \in Cmds : (Kept(c) => Kept(c)') /\ (Gone(c) => Gone(c)') /\ (Gone(c) => Kept(c))
  BY DEF Kept, Gone
<1>2. ASSUME NEW c \in Cmds
      PROVE  SlotKept(e, c)'
  <2>1. SlotKept(e, c)
    BY DEF AInv
  <2> QED
    BY <1>1, <2>1 DEF SlotKept
<1>3. ASSUME NEW c \in Cmds, home[c] = e
      PROVE  CallKept(c)'
  <2>1. CallKept(c) /\ SlotKept(e, c)
    BY DEF AInv
  <2>2. /\ home'[c] = e /\ merged'[e] = merged[e]
        /\ merged[e].running => jobs'[e][1] = jobs[e][1]
    BY <1>0, <1>3 DEF ChainGood
  <2>3. CASE enq'[c] = enq[c]
    <3>1. enq[c] = "persist" => mem'[e][c] # None \/ Kept(c)'
      <4> SUFFICES ASSUME enq[c] = "persist", mem'[e][c] = None PROVE Kept(c)'
        OBVIOUS
      <4>1. mem[e][c] # None \/ Kept(c)
        BY <1>3, <2>1 DEF CallKept
      <4>2. mem[e][c] = None \/ Gone(c)'
        OBVIOUS
      <4>3. Gone(c)' => Kept(c)'
        BY DEF Kept
      <4> QED
        BY <1>1, <4>1, <4>2, <4>3
    <3> QED
      BY <1>1, <1>3, <2>1, <2>2, <2>3, <3>1 DEF CallKept
  <2>4. CASE enq[c] \notin {"new", "persist", "crashed"} /\ enq'[c] # "persist"
    BY <1>1, <2>1, <2>4 DEF CallKept
  <2>5. CASE enq[c] = "new" /\ enq'[c] = "persist" /\ mem'[e][c] # None
    <3>1. Unheard(e, c)
      BY <2>5 DEF IInv, NewUnheard
    <3>2. merged[e].running => 1 \in DOMAIN jobs[e]
      BY <1>0, TypesOf DEF ChainGood
    <3>3. merged[e].running => jobs[e][1].cmd # c
      BY <3>1, <3>2 DEF Unheard
    <3> QED
      BY <2>2, <2>5, <3>3 DEF CallKept
  <2> QED
    BY <2>3, <2>4, <2>5
<1> QED
  BY <1>1, <1>2, <1>3, KeptStep

\* What is chained comes behind the head.
LEMMA ChainedHead ==
    ASSUME Typed, NEW e \in Engines, NEW j \in Jobs, Chain(e, j), jobs[e] # <<>>
    PROVE  jobs'[e][1] = jobs[e][1]
<1>1. 1 \in DOMAIN jobs[e]
  BY TypesOf
<1> QED
  BY <1>1, Chained

\* enqueue() adds its command and moves on when its writes are done.
LEMMA EnqueueKept ==
    ASSUME IInv, AInv, NEW c \in Cmds, Enqueue(c) \/ EnqueueCheck(c) \/ EnqueueApply(c)
    PROVE  AInv'
<1>0. Typed /\ home[c] \in Engines
  BY DEF IInv, Typed
<1>e. PICK e \in Engines : e = home[c]
  BY <1>0
<1>j. Job("write", "enqueue", c) \in Jobs
  BY JobIs
<1>1. CASE Enqueue(c)
  <2>1. /\ Elsewhere(e)
        /\ UNCHANGED <<doc, known, merged, home, served, lost>>
        /\ enq[c] = "new" /\ enq'[c] = "persist" /\ mem'[e][c] \in Entries
        /\ \A b \in Cmds : b # c => mem'[e][b] = mem[e][b] /\ enq'[b] = enq[b]
        /\ Chain(e, Job("write", "enqueue", c))
    BY <1>0, <1>1, <1>e, EnqueueIs
  <2>2. mem'[e][c] # None
    BY <2>1, SlotIs DEF Slots
  <2>3. jobs[e] # <<>> => jobs'[e][1] = jobs[e][1]
    BY <1>0, <1>j, <2>1, ChainedHead
  <2>4. \A b \in Cmds : mem'[e][b] = None => mem[e][b] = None \/ Gone(b)'
    BY <2>1, <2>2
  <2>5. \A b \in Cmds : \/ enq'[b] = enq[b]
                        \/ enq[b] = "new" /\ enq'[b] = "persist" /\ mem'[e][b] # None
    BY <2>1, <2>2
  <2>6. \A b \in Cmds : home[b] # e => enq'[b] = enq[b]
    BY <1>e, <2>1
  <2> QED
    BY <2>1, <2>3, <2>4, <2>5, <2>6, QuietKept
<1>2. CASE EnqueueCheck(c)
  <2>1. /\ Elsewhere(e)
        /\ UNCHANGED <<doc, mem, known, jobs, merged, home, served, lost>>
        /\ enq[c] = "check" /\ enq'[c] \in {"apply", "returned"}
        /\ \A b \in Cmds : b # c => enq'[b] = enq[b]
    BY <1>0, <1>2, <1>e, EnqueueCheckIs
  <2>2. \A b \in Cmds : \/ enq'[b] = enq[b]
                        \/ enq[b] \notin {"new", "persist", "crashed"} /\ enq'[b] # "persist"
    BY <2>1
  <2>3. \A b \in Cmds : home[b] # e => enq'[b] = enq[b]
    BY <1>e, <2>1
  <2> QED
    BY <2>1, <2>2, <2>3, QuietKept
<1>3. CASE EnqueueApply(c)
  <2>1. /\ Elsewhere(e)
        /\ UNCHANGED <<doc, known, merged, home, served, lost>>
        /\ enq[c] = "apply" /\ enq'[c] \in {"save", "saveThrow"}
        /\ \A b \in Cmds : b # c => mem'[e][b] = mem[e][b] /\ enq'[b] = enq[b]
        /\ mem'[e][c] = None => mem[e][c] = None
        /\ Chain(e, Job("write", "enqueue", c))
    BY <1>0, <1>3, <1>e, EnqueueApplyIs
  <2>2. jobs[e] # <<>> => jobs'[e][1] = jobs[e][1]
    BY <1>0, <1>j, <2>1, ChainedHead
  <2>3. \A b \in Cmds : mem'[e][b] = None => mem[e][b] = None \/ Gone(b)'
    BY <2>1
  <2>4. \A b \in Cmds : \/ enq'[b] = enq[b]
                        \/ enq[b] \notin {"new", "persist", "crashed"} /\ enq'[b] # "persist"
    BY <2>1
  <2>5. \A b \in Cmds : home[b] # e => enq'[b] = enq[b]
    BY <1>e, <2>1
  <2> QED
    BY <2>1, <2>2, <2>3, <2>4, <2>5, QuietKept
<1> QED
  BY <1>1, <1>2, <1>3

\* A drain drops what it has served, or by mistake what has come to its position.
LEMMA DrainKept ==
    ASSUME IInv, AInv, NEW e \in Engines,
           \/ DrainBegin(e) \/ DrainNoClient(e) \/ DrainSend(e)
           \/ DrainSuccess(e) \/ DrainSplice(e) \/ DrainFailure(e)
    PROVE  AInv'
<1>0. Typed
  BY DEF IInv
<1>1. ChainGood(e)
  BY DEF IInv, ChainsGood
<1>j. /\ Job("write", "drain", 0) \in Jobs
      /\ \A c \in Cmds : Job("ack", "drain", c) \in Jobs
  BY JobIs
<1>2. CASE DrainBegin(e) \/ DrainSend(e)
  <2>1. Elsewhere(e) /\ UNCHANGED <<doc, mem, known, jobs, merged, enq, home, served, lost>>
    BY <1>0, <1>2, DrainMovesIs
  <2> QED
    BY <2>1, QuietKept
<1>3. CASE DrainNoClient(e)
  <2>1. /\ Elsewhere(e) /\ UNCHANGED <<doc, known, merged, enq, home, served, lost>>
        /\ \A c \in Cmds : mem'[e][c] = None => mem[e][c] = None
        /\ Chain(e, Job("write", "drain", 0)) \/ jobs' = jobs
    BY <1>0, <1>3, DrainNoClientIs
  <2>2. jobs[e] # <<>> => jobs'[e][1] = jobs[e][1]
    BY <1>0, <1>j, <2>1, ChainedHead
  <2> QED
    BY <2>1, <2>2, QuietKept
<1>4. CASE DrainSuccess(e)
  <2>1. drain[e].cmd \in Cmds
    BY <1>1, <1>4 DEF DrainSuccess, ChainGood
  <2>2. /\ Elsewhere(e) /\ UNCHANGED <<doc, mem, known, jobs, merged, enq, home, lost>>
        /\ served \subseteq served'
    BY <1>0, <1>4, <2>1, DrainSuccessIs
  <2> QED
    BY <2>2, QuietKept
<1>5. CASE DrainSplice(e)
  <2>1. drain[e].cmd \in Cmds /\ drain[e].cmd \in served
    BY <1>1, <1>5 DEF DrainSplice, ChainGood
  <2>2. /\ Elsewhere(e) /\ UNCHANGED <<doc, known, merged, enq, home, served>>
        /\ lost \subseteq lost'
        /\ \A c \in Cmds : mem'[e][c] # mem[e][c] => c = drain[e].cmd \/ c \in lost'
        /\ Chain(e, Job("ack", "drain", drain[e].cmd))
    BY <1>0, <1>5, <2>1, DrainSpliceIs
  <2>3. jobs[e] # <<>> => jobs'[e][1] = jobs[e][1]
    BY <1>0, <1>j, <2>1, <2>2, ChainedHead
  <2>4. \A c \in Cmds : mem'[e][c] = None => mem[e][c] = None \/ Gone(c)'
    BY <2>1, <2>2 DEF Gone
  <2> QED
    BY <2>2, <2>3, <2>4, QuietKept
<1>6. CASE DrainFailure(e)
  <2>1. drain[e].cmd \in Cmds
    BY <1>1, <1>6 DEF DrainFailure, ChainGood
  <2>2. /\ Elsewhere(e) /\ UNCHANGED <<doc, known, merged, enq, home, lost>>
        /\ served \subseteq served'
        /\ \A c \in Cmds : c # drain[e].cmd => mem'[e][c] = mem[e][c]
        /\ \/ mem'[e][drain[e].cmd] = mem[e][drain[e].cmd]
           \/ mem'[e][drain[e].cmd] # None
        /\ Chain(e, Job("write", "drain", 0))
    BY <1>0, <1>6, <2>1, DrainFailureIs
  <2>3. jobs[e] # <<>> => jobs'[e][1] = jobs[e][1]
    BY <1>0, <1>j, <2>2, ChainedHead
  <2>4. \A c \in Cmds : mem'[e][c] = None => mem[e][c] = None \/ Gone(c)'
    BY <2>2
  <2> QED
    BY <2>2, <2>3, <2>4, QuietKept
<1> QED
  BY <1>2, <1>3, <1>4, <1>5, <1>6

\* A restart knows what the document holds, and its calls are forgotten.
LEMMA RestartKept ==
    ASSUME IInv, AInv, NEW e \in Engines, Restart(e)
    PROVE  AInv'
<1>0. Typed
  BY DEF IInv
<1>1. /\ Elsewhere(e)
      /\ UNCHANGED <<doc, home, served, lost>>
      /\ known'[e] = doc
      /\ \A c \in Cmds : mem'[e][c] \in RestoredAs(c, doc[c])
      /\ ~merged'[e].running
      /\ \A c \in Cmds : home[c] # e => enq'[c] = enq[c]
      /\ \A c \in Cmds : home[c] = e =>
           enq'[c] = IF enq[c] \in {"new", "returned", "threw"} THEN enq[c] ELSE "crashed"
  BY <1>0, RestartIs
<1>2. \A c \in Cmds : (Kept(c) => Kept(c)') /\ (doc[c] # None => Kept(c)')
  BY <1>1 DEF Kept, Gone
<1>3. \A c \in Cmds : mem'[e][c] = None <=> doc[c] = None
  BY <1>0, <1>1, TypesOf, RestoredIs
<1>4. ASSUME NEW c \in Cmds
      PROVE  SlotKept(e, c)'
  BY <1>1, <1>2, <1>3 DEF SlotKept
<1>5. ASSUME NEW c \in Cmds, home[c] = e
      PROVE  CallKept(c)'
  <2>1. CallKept(c)
    BY DEF AInv
  <2> QED
    BY <1>1, <1>2, <1>5, <2>1 DEF CallKept
<1> QED
  BY <1>1, <1>2, <1>4, <1>5, KeptStep

\* Nothing is known of any command at the start, and every step keeps the accounts.
LEMMA InitKept ==
    ASSUME Init
    PROVE  AInv
<1> USE DEF Init
<1>1. ASSUME NEW e \in Engines, NEW c \in Cmds
      PROVE  SlotKept(e, c)
  <2>1. known[e][c] = None /\ ~merged[e].running
    BY IdleIs
  <2> QED
    BY <2>1 DEF SlotKept
<1>2. ASSUME NEW c \in Cmds
      PROVE  CallKept(c)
  <2>1. enq[c] = "new"
    OBVIOUS
  <2> QED
    BY <2>1 DEF CallKept
<1> QED
  BY <1>1, <1>2 DEF AInv

\* A step of the engines keeps the accounts.
LEMMA StepKept ==
    ASSUME IInv, AInv, Next
    PROVE  AInv'
BY JobUpdateKept, JobFinishKept, DrainKept, RestartKept, EnqueueKept DEF Next

\* So does a step that changes nothing.
LEMMA StutterKept ==
    ASSUME AInv, UNCHANGED vars
    PROVE  AInv'
BY DEF vars, AInv, SlotKept, CallKept, Kept, Gone

\* The accounts hold always.
THEOREM AccountsKept == Spec => []AInv
<1>1. Init => AInv
  BY InitKept
<1>2. IInv /\ AInv /\ [Next]_vars => AInv'
  BY StepKept, StutterKept
<1> QED
  BY <1>1, <1>2, Inductive, PTL DEF Spec

\* However the calls of the engines overlap and whenever engines restart: a command whose
\* enqueue() has returned is in the document, or the server has executed it, or a memory
\* lost it to the adoption of an earlier write or to a drain's remembered position.
THEOREM LossesAlwaysAccounted == Spec => []LossesAccounted
<1>1. AInv => LossesAccounted
  BY DEF AInv, CallKept, Kept, Gone, LossesAccounted
<1> QED
  BY <1>1, AccountsKept, PTL

\* Only an update of the document changes it.
LEMMA OthersLeaveDocument ==
    ASSUME IInv, Next, \A e \in Engines : ~JobUpdate(e)
    PROVE  doc' = doc
BY DEF Next, JobFinish, DrainBegin, DrainNoClient, DrainSend, DrainSuccess, DrainSplice,
       DrainFailure, Restart, Enqueue, EnqueueCheck, EnqueueApply

\* However the calls overlap, the document loses a command only if the server has executed
\* it or a memory lost it in one of those two ways: no merge drops another engine's command.
THEOREM LeavesAlwaysAccounted == Spec => LeavesAccounted
<1>1. ASSUME IInv, AInv, Next, NEW c \in Cmds, doc[c] # None, doc'[c] = None
      PROVE  c \in served' \cup lost
  <2>1. PICK e \in Engines : JobUpdate(e)
    BY <1>1, OthersLeaveDocument
  <2>2. Gone(c)
    BY <1>1, <2>1, DocumentKept
  <2>3. served' = served
    BY <2>1 DEF JobUpdate
  <2> QED
    BY <2>2, <2>3 DEF Gone
<1>2. IInv /\ AInv /\ [Next]_vars =>
        [\A c \in Cmds : doc[c] # None /\ doc'[c] = None => c \in served' \cup lost]_vars
  BY <1>1
<1> QED
  BY <1>2, Inductive, AccountsKept, PTL DEF Spec, LeavesAccounted
=============================================================================
