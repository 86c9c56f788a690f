--------------------------- MODULE OutboundQueue ---------------------------
(***************************************************************************)
(* The durable outbound queue of item commands (ItemSyncEngine).           *)
(*                                                                         *)
(* Several engines (browser tabs, the extension's popup and background     *)
(* worker) share one queue document.  Each keeps the queue in memory,      *)
(* mutates it synchronously, and chains writes that merge memory into the  *)
(* document under a lock and then adopt the merged document back into      *)
(* memory.  enqueue() and drain() suspend at every await, so they          *)
(* interleave with each other and with the writes of their own engine.     *)
(*                                                                         *)
(* A command is its identity (its timestamp), its status and its retry     *)
(* count; the payload never changes here.  The objects are JavaScript      *)
(* references: a suspended enqueue() or drain() holds one, and it is       *)
(* attached as long as it is the object in the engine's queue.             *)
(***************************************************************************)
EXTENDS Integers, Sequences, FiniteSets

CONSTANTS
    Cmds,           \* commands, numbered by timestamp
    Engines,
    Entity,         \* the item each command is about
    Sealed,         \* commands that carry ciphertext bound to a revision
    MaxRetry,       \* MAX_RETRY_COUNT
    SerialCallers,  \* an engine's calls wait for one another
    MaxRestarts     \* bound on restarts of engines

ASSUME QueueAssumption ==
    /\ Cmds \subseteq Nat \ {0} /\ IsFiniteSet(Cmds) /\ Sealed \subseteq Cmds
    /\ MaxRetry \in Nat \ {0}
    /\ SerialCallers \in BOOLEAN /\ MaxRestarts \in Nat

Statuses == {"applying", "pending", "retrying", "conflicted", "failed"}
ActiveStatus == {"applying", "pending", "retrying"}
ReadyStatus == {"pending", "retrying"}

Entries == [st : Statuses, n : 0 .. MaxRetry]
None == [st |-> "none", n |-> 0]
Empty == [c \in Cmds |-> None]
In(q) == {c \in Cmds : q[c] # None}
IsActive(x) == x.st \in ActiveStatus
IsReady(x) == x.st \in ReadyStatus

VARIABLES
    doc,      \* the stored document: the entry of each command in it
    mem,      \* queuesByAccountId of each engine
    known,    \* persistedCommandSignatures: what the engine last adopted
    jobs,     \* persistenceTail: writes and acknowledgements to come, in order
    merged,   \* what the running job will adopt, NotRunning between jobs
    enq,      \* progress of enqueue() for each command
    home,     \* the engine that enqueues the command
    attached, \* is the object enqueue() holds the one in the queue?
    drain,    \* progress of drain() in each engine
    acked,    \* history: commands whose acknowledgement reached the document
    served,   \* history: commands the server has executed
    lost,     \* history: commands that left a memory by mistake (see JobFinish, DrainSplice)
    restarts

vars == <<doc, mem, known, jobs, merged, enq, home, attached, drain, acked,
          served, lost, restarts>>

NotRunning == [running |-> FALSE, queue |-> Empty, same |-> {}]
Idle == [pc |-> "idle", cmd |-> 0, at |-> 0, attached |-> FALSE, live |-> FALSE]
EnqSteps == {"new", "persist", "check", "apply", "save", "saveThrow", "returned",
             "threw", "crashed"}
Job(kind, for, cmd) == [kind |-> kind, for |-> for, cmd |-> cmd]

TypeOK ==
    /\ doc \in [Cmds -> Entries \cup {None}]
    /\ mem \in [Engines -> [Cmds -> Entries \cup {None}]]
    /\ known \in [Engines -> [Cmds -> Entries \cup {None}]]
    /\ \A e \in Engines : \A n \in DOMAIN jobs[e] :
         jobs[e][n] \in [kind : {"write", "ack"}, for : {"enqueue", "drain", "restore"},
                         cmd : Cmds \cup {0}]
    /\ merged \in [Engines -> [running : BOOLEAN, same : SUBSET Cmds,
                               queue : [Cmds -> Entries \cup {None}]]]
    /\ enq \in [Cmds -> EnqSteps] /\ home \in [Cmds -> Engines]
    /\ attached \in [Cmds -> BOOLEAN]
    /\ drain \in [Engines -> [pc : {"idle", "client", "sent", "splice", "saving"},
                              cmd : Cmds \cup {0}, at : Nat,
                              attached : BOOLEAN, live : BOOLEAN]]
    /\ acked \subseteq Cmds /\ served \subseteq Cmds /\ lost \subseteq Cmds
    /\ restarts \in 0 .. MaxRestarts

Init ==
    /\ doc = Empty
    /\ mem = [e \in Engines |-> Empty]
    /\ known = [e \in Engines |-> Empty]
    /\ jobs = [e \in Engines |-> <<>>]
    /\ merged = [e \in Engines |-> NotRunning]
    /\ enq = [c \in Cmds |-> "new"]
    /\ home \in [Cmds -> Engines]
    /\ attached = [c \in Cmds |-> FALSE]
    /\ drain = [e \in Engines |-> Idle]
    /\ acked = {} /\ served = {} /\ lost = {}
    /\ restarts = 0

\* Nothing makes a call of an engine wait for the others; SerialCallers assumes it.
MayStart(e) ==
    SerialCallers =>
        /\ jobs[e] = <<>> /\ drain[e] = Idle
        /\ \A c \in Cmds : home[c] = e => enq[c] \in {"new", "returned", "threw", "crashed"}

\* schedulePersistence and persistAcknowledgement: behind every earlier write.
Chain(e, job) == jobs' = [jobs EXCEPT ![e] = Append(@, job)]

-----------------------------------------------------------------------------
(* The chain of writes                                                     *)

\* Mutant: the document is overwritten with this engine's queue.
MergedQueue_Overwrites(e) == mem[e]

\* Mutant: a command acknowledged elsewhere is written again.
MergedQueue_Resurrects(e) ==
    [c \in Cmds |->
        IF mem[e][c] = None THEN IF known[e][c] # None THEN None ELSE doc[c]
        ELSE IF known[e][c] # None /\ doc[c] \notin {None, known[e][c]} THEN doc[c] ELSE mem[e][c]]

\* Mutant: what another engine changed since the last adoption is not looked at.
MergedQueue_NoSignatures(e) ==
    [c \in Cmds |->
        IF mem[e][c] = None THEN IF known[e][c] # None THEN None ELSE doc[c]
        ELSE IF known[e][c] # None /\ doc[c] = None THEN None ELSE mem[e][c]]

\* writeQueue's merge.  A command this engine knew and no longer wants goes; one
\* it knew and the document has lost was acknowledged elsewhere; one the document
\* changed since it was adopted keeps the document's version.
MergedQueue(e) ==
    [c \in Cmds |->
        CASE mem[e][c] = None /\ known[e][c] # None   -> None
          [] mem[e][c] = None /\ known[e][c] = None   -> doc[c]
          [] mem[e][c] # None /\ known[e][c] = None   -> mem[e][c]
          [] mem[e][c] # None /\ known[e][c] # None   ->
               IF doc[c] = known[e][c] THEN mem[e][c] ELSE doc[c]]

\* The commands whose object survives that merge.
Surviving(e) == {c \in In(mem[e]) : known[e][c] \in {None, doc[c]}}

\* rebaseChainedCommand, on a revision other than the command's base.
Rebased(c, x) == IF c \in Sealed THEN [x EXCEPT !.st = "conflicted"]
                                 ELSE [x EXCEPT !.st = "pending"]

\* persistAcknowledgement: the command leaves, and the next active one of its item
\* is pointed at the revision the server landed on unless it has it already.
AcknowledgedQueues(c) ==
    LET rest == [doc EXCEPT ![c] = None]
        followers == {b \in In(rest) : Entity[b] = Entity[c] /\ IsActive(rest[b])}
        first == CHOOSE b \in followers : \A d \in followers : b <= d
    IN {rest} \cup IF followers = {} THEN {}
                   ELSE {[rest EXCEPT ![first] = Rebased(first, @)]}

\* The storage update of the first job in the chain: atomic across engines.
JobUpdate(e) ==
    /\ jobs[e] # <<>> /\ ~ merged[e].running
    /\ LET job == Head(jobs[e]) IN
         /\ doc' \in IF job.kind = "write" THEN {MergedQueue(e)} ELSE AcknowledgedQueues(job.cmd)
         /\ merged' = [merged EXCEPT ![e] =
                [running |-> TRUE, queue |-> doc',
                 same |-> IF job.kind = "write" THEN Surviving(e) ELSE {}]]
         /\ acked' = IF job.kind = "ack" THEN acked \cup {job.cmd} ELSE acked
    /\ UNCHANGED <<mem, known, jobs, enq, home, attached, drain, served, lost, restarts>>

\* adoptReconciledQueue and rememberPersistedCommands: the queue becomes the
\* merged one.  A surviving object is adopted with what it says by now; a command
\* enqueued since the merge is gone.
Adopted(e) ==
    [c \in Cmds |-> IF c \in merged[e].same /\ mem[e][c] # None
                    THEN mem[e][c] ELSE merged[e].queue[c]]

\* The call that awaits the job moves on.
AfterWrite(step) ==
    CASE step = "persist"   -> "check"
      [] step = "save"      -> "returned"
      [] step = "saveThrow" -> "threw"
      [] OTHER              -> step

JobFinish(e) ==
    /\ merged[e].running
    /\ mem' = [mem EXCEPT ![e] = Adopted(e)]
    /\ known' = [known EXCEPT ![e] = Adopted(e)]
    /\ attached' = [c \in Cmds |-> attached[c] /\ (home[c] = e => c \in merged[e].same)]
    /\ LET job == Head(jobs[e]) IN
         /\ enq' = IF job.for = "enqueue" THEN [enq EXCEPT ![job.cmd] = AfterWrite(@)] ELSE enq
         /\ drain' = [drain EXCEPT ![e] =
                IF job.for = "drain" THEN Idle
                ELSE [drain[e] EXCEPT
                          !.attached = drain[e].attached /\ drain[e].cmd \in merged[e].same,
                          !.live = drain[e].live /\ Adopted(e) # Empty]]
    /\ jobs' = [jobs EXCEPT ![e] = Tail(@)]
    /\ merged' = [merged EXCEPT ![e] = NotRunning]
    /\ lost' = lost \cup {c \in In(mem[e]) : known[e][c] = None /\ Adopted(e)[c] = None}
    /\ UNCHANGED <<doc, home, acked, served, restarts>>

-----------------------------------------------------------------------------
(* enqueue()                                                               *)

Enqueue(c) ==
    LET e == home[c] IN
    /\ enq[c] = "new" /\ mem[e][c] = None
    /\ MayStart(e)
    /\ mem' = [mem EXCEPT ![e][c] = [st |-> "applying", n |-> 0]]
    /\ Chain(e, Job("write", "enqueue", c))
    /\ enq' = [enq EXCEPT ![c] = "persist"]
    /\ UNCHANGED <<doc, known, merged, home, attached, drain, acked, served, lost, restarts>>

\* After the first write the command is looked up again; one that is gone, or
\* settled by another engine, ends the call.
EnqueueCheck(c) ==
    LET e == home[c] IN
    /\ enq[c] = "check"
    /\ enq' = [enq EXCEPT ![c] = IF IsActive(mem[e][c]) THEN "apply" ELSE "returned"]
    /\ attached' = [attached EXCEPT ![c] = IsActive(mem[e][c])]
    /\ UNCHANGED <<doc, mem, known, jobs, merged, home, drain, acked, served, lost, restarts>>

\* The optimistic projection is applied, or throws: the object held is marked.
EnqueueApply(c) ==
    LET e == home[c] IN
    /\ enq[c] = "apply"
    /\ \E ok \in BOOLEAN :
         /\ mem' = [mem EXCEPT ![e][c] =
               IF attached[c] /\ @ # None
               THEN [@ EXCEPT !.st = IF ok THEN "pending" ELSE "failed"] ELSE @]
         /\ enq' = [enq EXCEPT ![c] = IF ok THEN "save" ELSE "saveThrow"]
    /\ Chain(e, Job("write", "enqueue", c))
    /\ attached' = [attached EXCEPT ![c] = FALSE]
    /\ UNCHANGED <<doc, known, merged, home, drain, acked, served, lost, restarts>>

-----------------------------------------------------------------------------
(* drain()                                                                 *)

\* The oldest command of its item that is ready, with no active one before it.
Runnable(e, c) ==
    /\ IsReady(mem[e][c])
    /\ \A b \in Cmds : b < c /\ Entity[b] = Entity[c] => ~ IsActive(mem[e][b])

FirstRunnable(e, c) == Runnable(e, c) /\ \A b \in Cmds : Runnable(e, b) => c <= b
Position(e, c) == Cardinality({b \in In(mem[e]) : b < c})
IsAt(e, c) == mem[e][c] # None /\ Position(e, c) = drain[e].at

\* Mutant: the retry limit is not looked at.
Retried_NoLimit(x) == [st |-> "retrying", n |-> x.n + 1]

\* markRetrying and scheduleRetry: one more try, until there have been enough.
Retried(x) == IF x.n + 1 < MaxRetry THEN [st |-> "retrying", n |-> x.n + 1]
                                    ELSE [st |-> "failed", n |-> MaxRetry]

DrainBegin(e) ==
    /\ drain[e] = Idle
    /\ MayStart(e)
    /\ \E c \in Cmds :
         /\ FirstRunnable(e, c)
         /\ drain' = [drain EXCEPT ![e] =
               [pc |-> "client", cmd |-> c, at |-> Position(e, c),
                attached |-> TRUE, live |-> TRUE]]
    /\ UNCHANGED <<doc, mem, known, jobs, merged, enq, home, attached, acked, served, lost,
                   restarts>>

\* No client (signed out, locked): what is now at the position is marked.
DrainNoClient(e) ==
    /\ drain[e].pc = "client"
    /\ IF drain[e].live /\ \E c \in Cmds : IsAt(e, c)
       THEN /\ mem' = [mem EXCEPT ![e] =
                         [c \in Cmds |-> IF IsAt(e, c) THEN Retried(mem[e][c]) ELSE mem[e][c]]]
            /\ Chain(e, Job("write", "drain", 0))
            /\ drain' = [drain EXCEPT ![e].pc = "saving"]
       ELSE /\ drain' = [drain EXCEPT ![e] = Idle]
            /\ UNCHANGED <<mem, jobs>>
    /\ UNCHANGED <<doc, known, merged, enq, home, attached, acked, served, lost, restarts>>

\* With a client, the first runnable command is looked up again and sent.
DrainSend(e) ==
    /\ drain[e].pc = "client"
    /\ \/ /\ drain[e].live
          /\ \E c \in Cmds :
               /\ FirstRunnable(e, c)
               /\ drain' = [drain EXCEPT ![e] =
                     [pc |-> "sent", cmd |-> c, at |-> Position(e, c),
                      attached |-> TRUE, live |-> TRUE]]
       \/ /\ ~ (drain[e].live /\ \E c \in Cmds : Runnable(e, c))
          /\ drain' = [drain EXCEPT ![e] = Idle]
    /\ UNCHANGED <<doc, mem, known, jobs, merged, enq, home, attached, acked, served, lost,
                   restarts>>

\* Success: the server has executed the command, now or earlier under the same
\* idempotency key.
DrainSuccess(e) ==
    /\ drain[e].pc = "sent"
    /\ served' = served \cup {drain[e].cmd}
    /\ drain' = [drain EXCEPT ![e].pc = "splice"]
    /\ UNCHANGED <<doc, mem, known, jobs, merged, enq, home, attached, acked, lost, restarts>>

\* After reconciler.acknowledge(): the queue loses the element at the position
\* remembered, whichever it is by now, and the acknowledgement is chained.
DrainSplice(e) ==
    /\ drain[e].pc = "splice"
    /\ mem' = [mem EXCEPT ![e] = [c \in Cmds |->
                 IF drain[e].live /\ IsAt(e, c) THEN None ELSE mem[e][c]]]
    /\ lost' = lost \cup {c \in Cmds \ {drain[e].cmd} : drain[e].live /\ IsAt(e, c)}
    /\ Chain(e, Job("ack", "drain", drain[e].cmd))
    /\ drain' = [drain EXCEPT ![e].pc = "saving"]
    /\ UNCHANGED <<doc, known, merged, enq, home, attached, acked, served, restarts>>

\* The object held is marked: after network trouble (the server may have executed
\* the command) or a metadata conflict it is tried again, a sealed command that
\* conflicts is set aside for a copy, a rejected one fails.
DrainFailure(e) ==
    LET c == drain[e].cmd
        Mark(x) == mem' = [mem EXCEPT ![e][c] = IF drain[e].attached /\ @ # None THEN x ELSE @]
    IN /\ drain[e].pc = "sent"
       /\ \/ Mark(Retried(mem[e][c])) /\ served' \in {served, served \cup {c}}
          \/ Mark([mem[e][c] EXCEPT !.st = "failed"]) /\ UNCHANGED served
          \/ c \in Sealed /\ Mark([mem[e][c] EXCEPT !.st = "conflicted"]) /\ UNCHANGED served
       /\ Chain(e, Job("write", "drain", 0))
       /\ drain' = [drain EXCEPT ![e].pc = "saving"]
       /\ UNCHANGED <<doc, known, merged, enq, home, attached, acked, lost, restarts>>

-----------------------------------------------------------------------------
\* Mutant: a command found half applied is applied again and left as it was.
RestoredAs_StaysApplying(c, x) ==
    IF ~ IsActive(x) THEN {x}
    ELSE {x, [x EXCEPT !.st = "failed"]}
         \cup IF c \in Sealed THEN {[x EXCEPT !.st = "conflicted"]} ELSE {}

\* The process ends and a new one restores the document: each active command is
\* applied again, which finishes, fails or (for a sealed one) finds a conflict.
RestoredAs(c, x) ==
    IF ~ IsActive(x) THEN {x}
    ELSE {IF x.st = "applying" THEN [x EXCEPT !.st = "pending"] ELSE x,
          [x EXCEPT !.st = "failed"]}
         \cup IF c \in Sealed THEN {[x EXCEPT !.st = "conflicted"]} ELSE {}

Restart(e) ==
    /\ restarts < MaxRestarts
    /\ restarts' = restarts + 1
    /\ \E q \in [Cmds -> Entries \cup {None}] :
         /\ \A c \in Cmds : q[c] \in RestoredAs(c, doc[c])
         /\ mem' = [mem EXCEPT ![e] = q]
         /\ jobs' = [jobs EXCEPT ![e] = IF q = doc THEN <<>> ELSE <<Job("write", "restore", 0)>>]
    /\ known' = [known EXCEPT ![e] = doc]
    /\ merged' = [merged EXCEPT ![e] = NotRunning]
    /\ enq' = [c \in Cmds |-> IF home[c] = e /\ enq[c] \notin {"new", "returned", "threw"}
                              THEN "crashed" ELSE enq[c]]
    /\ attached' = [c \in Cmds |-> attached[c] /\ home[c] # e]
    /\ drain' = [drain EXCEPT ![e] = Idle]
    /\ UNCHANGED <<doc, home, acked, served, lost>>

-----------------------------------------------------------------------------
Next ==
    \/ \E e \in Engines :
         \/ JobUpdate(e) \/ JobFinish(e)
         \/ DrainBegin(e) \/ DrainNoClient(e) \/ DrainSend(e)
         \/ DrainSuccess(e) \/ DrainSplice(e) \/ DrainFailure(e)
         \/ Restart(e)
    \/ \E c \in Cmds : Enqueue(c) \/ EnqueueCheck(c) \/ EnqueueApply(c)

Spec == Init /\ [][Next]_vars

-----------------------------------------------------------------------------
(* Properties                                                              *)

\* "enqueue resolves only after the command is durably persisted": when enqueue()
\* has returned, the document holds the command, or the server has executed it
\* and some engine has acknowledged it.
EnqueueIsDurable ==
    \A c \in Cmds : enq[c] = "returned" => doc[c] # None \/ c \in acked

\* However calls overlap, a returned enqueue() misses its command in the document only
\* if the server has executed it or one of two mistakes took it out of a memory: the
\* adoption of a write that began before the command was added, or a drain that removed
\* it at the position of another.
LossesAccounted ==
    \A c \in Cmds : enq[c] = "returned" => doc[c] # None \/ c \in served \cup lost

\* A command whose acknowledgement is in the document never comes back into it,
\* from the memory of any engine.
NeverResurrected == \A c \in acked : doc[c] = None

\* Nothing leaves the document before the server has executed it.
OnlyServedLeave ==
    [][\A c \in Cmds : doc[c] # None /\ doc'[c] = None => c \in served']_vars

\* Nor does anything else leave the document, however calls overlap.
LeavesAccounted ==
    [][\A c \in Cmds : doc[c] # None /\ doc'[c] = None => c \in served' \cup lost]_vars

\* No command stays in "applying", which blocks its item until a restart: one the
\* document shows so belongs to a call of enqueue() under way, or to one that a crash
\* has cut off, which the new process will write anew or set aside.
NotStuckApplying ==
    \A c \in Cmds : doc[c] # None /\ doc[c].st = "applying" =>
        \/ enq[c] \in {"persist", "check", "apply", "save", "saveThrow"}
        \/ enq[c] = "crashed" /\ jobs[home[c]] # <<>>

\* A settled command stays settled in the document, unless an engine that had sent
\* it before turns out to have had it executed: what one engine has marked failed
\* or conflicted is never made active again by another engine's older copy.
SettledStays ==
    [][\A c \in Cmds : doc[c].st \in {"failed", "conflicted"} => ~ IsActive(doc'[c])]_vars
=============================================================================
