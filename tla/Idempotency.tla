---------------------------- MODULE Idempotency ----------------------------
(***************************************************************************)
(* The server's idempotency records: claim, execute, complete.             *)
(*                                                                         *)
(* A keyed mutation claims a row of idempotency_record, runs the domain    *)
(* service in a transaction of its own, and then stores the response in    *)
(* the row.  claim() is five separate autocommitted SQL statements and     *)
(* the service and complete() are two more, so requests carrying the same  *)
(* key interleave between any two of them, and a crash of the server or a  *)
(* client that hangs up drops the handler between any two of them.         *)
(*                                                                         *)
(* Time is one flag per row: "the deadline of this row has passed".  It is *)
(* claim_expires_at of a pending row and expires_at of a completed one.    *)
(***************************************************************************)
EXTENDS Integers, FiniteSets

CONSTANTS
    Keys,           \* (principal, method, route, idempotency key) tuples
    Fingerprints,   \* hashes of a request body and its If-Match header
    Requests,       \* concurrent handler invocations
    Batch,          \* rows one maintenance statement touches at most
    TimeoutBelowClaim, \* REQUEST_TIMEOUT_SECONDS is below the 5 minute claim
    OperatorRecovers   \* an operator follows docs/idempotency-recovery.md

ASSUME BatchAssumption == Batch \in Nat \ {0}
ASSUME DeploymentAssumption ==
    TimeoutBelowClaim \in BOOLEAN /\ OperatorRecovers \in BOOLEAN

VARIABLES
    rowState,   \* state of the row of each key, "absent" when there is none
    rowFp,      \* request_fingerprint of the row
    rowResp,    \* response stored in a completed row
    deadline,   \* has the row's deadline passed?
    pc,         \* the statement each request runs next
    key, fp,    \* the request being handled
    result,     \* what the domain service answered to this request
    reply,      \* the last HTTP answer of this request slot
    commits     \* history: domain commits under this key and this record

rowVars == <<rowState, rowFp, rowResp, deadline>>
reqVars == <<key, fp>>
vars == <<rowState, rowFp, rowResp, deadline, pc, key, fp, result, reply, commits>>

RowStates == {"absent", "pending", "completed", "indeterminate"}

\* What a domain service answers: success, an error raised before its commit, or
\* the error of the commit itself, whose effect may be there all the same.  The
\* last two are server errors that no reader of the row can tell apart.
Results == {"ok", "fail", "unacked"}
Steps == {"idle", "delete", "stale", "insert", "reclaim", "read",
          "operate", "complete"}
Replies == Results \cup {"none", "mismatch", "in_progress", "indeterminate", "error"}

TypeOK ==
    /\ rowState \in [Keys -> RowStates]
    /\ rowFp \in [Keys -> Fingerprints]
    /\ rowResp \in [Keys -> Results]
    /\ deadline \in [Keys -> BOOLEAN]
    /\ pc \in [Requests -> Steps]
    /\ key \in [Requests -> Keys]
    /\ fp \in [Requests -> Fingerprints]
    /\ result \in [Requests -> Results]
    /\ reply \in [Requests -> Replies]
    /\ commits \in [Keys -> Nat]

Init ==
    /\ rowState = [k \in Keys |-> "absent"]
    /\ rowFp \in [Keys -> Fingerprints]
    /\ rowResp = [k \in Keys |-> "fail"]
    /\ deadline = [k \in Keys |-> FALSE]
    /\ pc = [r \in Requests |-> "idle"]
    /\ key \in [Requests -> Keys]
    /\ fp \in [Requests -> Fingerprints]
    /\ result = [r \in Requests |-> "fail"]
    /\ reply = [r \in Requests |-> "none"]
    /\ commits = [k \in Keys |-> 0]

-----------------------------------------------------------------------------
(* Helpers                                                                 *)

\* A handler that has won its claim and not yet recorded the response.
Live(r) == pc[r] \in {"operate", "complete"}

Answer(r, a) ==
    /\ pc' = [pc EXCEPT ![r] = "idle"]
    /\ reply' = [reply EXCEPT ![r] = a]

Goto(r, step) ==
    /\ pc' = [pc EXCEPT ![r] = step]
    /\ UNCHANGED reply

\* The rows a maintenance statement takes: everything due, up to its LIMIT.
\* (SKIP LOCKED leaves a row to the statement that holds it: the same outcome
\* as running before or after that statement.)
Batches(due) ==
    {S \in SUBSET due : Cardinality(S) <= Batch /\ (S = due \/ Cardinality(S) = Batch)}

ExpiredRows == {k \in Keys : rowState[k] = "completed" /\ deadline[k]}
StaleRows == {k \in Keys : rowState[k] = "pending" /\ deadline[k]}

-----------------------------------------------------------------------------
(* A request: execute() in http/idempotency.rs                             *)

Arrive(r, k, f) ==
    /\ pc[r] = "idle"
    /\ key' = [key EXCEPT ![r] = k]
    /\ fp' = [fp EXCEPT ![r] = f]
    /\ pc' = [pc EXCEPT ![r] = "delete"]
    /\ reply' = [reply EXCEPT ![r] = "none"]
    /\ UNCHANGED <<rowState, rowFp, rowResp, deadline, result, commits>>

\* Mutant: the cleanup removes timed-out claims as if they were expired.
DeleteExpired_Indeterminate(r) ==
    /\ pc[r] = "delete"
    /\ Goto(r, "stale")
    /\ \E S \in Batches(ExpiredRows \cup {k \in Keys : rowState[k] = "indeterminate"}) :
         /\ rowState' = [k \in Keys |-> IF k \in S THEN "absent" ELSE rowState[k]]
         /\ commits' = [k \in Keys |-> IF k \in S THEN 0 ELSE commits[k]]
    /\ UNCHANGED <<rowFp, rowResp, deadline, key, fp, result>>

\* maintain_records, first statement: completed rows past their retention go.
DeleteExpired(r) ==
    /\ pc[r] = "delete"
    /\ Goto(r, "stale")
    /\ \E S \in Batches(ExpiredRows) :
         /\ rowState' = [k \in Keys |-> IF k \in S THEN "absent" ELSE rowState[k]]
         /\ commits' = [k \in Keys |-> IF k \in S THEN 0 ELSE commits[k]]
    /\ UNCHANGED <<rowFp, rowResp, deadline, key, fp, result>>

\* Mutant: an overdue claim is dropped, so the next request runs it again.
MarkStale_Deletes(r) ==
    /\ pc[r] = "stale"
    /\ Goto(r, "insert")
    /\ \E S \in Batches(StaleRows) :
         rowState' = [k \in Keys |-> IF k \in S THEN "absent" ELSE rowState[k]]
    /\ UNCHANGED <<rowFp, rowResp, deadline, key, fp, result, commits>>

\* Mutant: the second maintenance statement is forgotten.
MarkStale_Never(r) ==
    /\ pc[r] = "stale"
    /\ Goto(r, "insert")
    /\ UNCHANGED <<rowState, rowFp, rowResp, deadline, key, fp, result, commits>>

\* Mutant: the timed-out claim gets a state the claim lookup does not know.
MarkStale_UnknownState(r) ==
    /\ pc[r] = "stale"
    /\ Goto(r, "insert")
    /\ \E S \in Batches(StaleRows) :
         rowState' = [k \in Keys |-> IF k \in S THEN "expired" ELSE rowState[k]]
    /\ UNCHANGED <<rowFp, rowResp, deadline, key, fp, result, commits>>

\* maintain_records, second statement: overdue claims become indeterminate.
MarkStale(r) ==
    /\ pc[r] = "stale"
    /\ Goto(r, "insert")
    /\ \E S \in Batches(StaleRows) :
         rowState' = [k \in Keys |-> IF k \in S THEN "indeterminate" ELSE rowState[k]]
    /\ UNCHANGED <<rowFp, rowResp, deadline, key, fp, result, commits>>

\* Mutant: ON CONFLICT DO UPDATE instead of DO NOTHING.
InsertClaim_Overwrites(r) ==
    /\ pc[r] = "insert"
    /\ rowState' = [rowState EXCEPT ![key[r]] = "pending"]
    /\ rowFp' = [rowFp EXCEPT ![key[r]] = fp[r]]
    /\ deadline' = [deadline EXCEPT ![key[r]] = FALSE]
    /\ Goto(r, "operate")
    /\ UNCHANGED <<rowResp, key, fp, result, commits>>

\* INSERT ... ON CONFLICT DO NOTHING
InsertClaim(r) ==
    /\ pc[r] = "insert"
    /\ IF rowState[key[r]] = "absent"
       THEN /\ rowState' = [rowState EXCEPT ![key[r]] = "pending"]
            /\ rowFp' = [rowFp EXCEPT ![key[r]] = fp[r]]
            /\ deadline' = [deadline EXCEPT ![key[r]] = FALSE]
            /\ Goto(r, "operate")
       ELSE /\ Goto(r, "reclaim")
            /\ UNCHANGED <<rowState, rowFp, deadline>>
    /\ UNCHANGED <<rowResp, key, fp, result, commits>>

\* Mutant: the state = 'completed' condition is dropped from the UPDATE.
Reclaim_AnyOverdue(r) ==
    /\ pc[r] = "reclaim"
    /\ IF key[r] \in ExpiredRows \cup StaleRows
       THEN /\ rowState' = [rowState EXCEPT ![key[r]] = "pending"]
            /\ rowFp' = [rowFp EXCEPT ![key[r]] = fp[r]]
            /\ deadline' = [deadline EXCEPT ![key[r]] = FALSE]
            /\ Goto(r, "operate")
       ELSE /\ Goto(r, "read")
            /\ UNCHANGED <<rowState, rowFp, deadline>>
    /\ UNCHANGED <<rowResp, key, fp, result, commits>>

\* UPDATE ... WHERE state = 'completed' AND expires_at <= NOW()
Reclaim(r) ==
    /\ pc[r] = "reclaim"
    /\ IF key[r] \in ExpiredRows
       THEN /\ rowState' = [rowState EXCEPT ![key[r]] = "pending"]
            /\ rowFp' = [rowFp EXCEPT ![key[r]] = fp[r]]
            /\ deadline' = [deadline EXCEPT ![key[r]] = FALSE]
            /\ commits' = [commits EXCEPT ![key[r]] = 0]
            /\ Goto(r, "operate")
       ELSE /\ Goto(r, "read")
            /\ UNCHANGED <<rowState, rowFp, deadline, commits>>
    /\ UNCHANGED <<rowResp, key, fp, result>>

\* Mutant: the stored response is replayed whatever request asks for it.
ReadRow_NoFingerprint(r) ==
    /\ pc[r] = "read"
    /\ LET k == key[r] IN
         Answer(r, CASE rowState[k] = "absent"        -> "error"
                     [] rowState[k] = "pending"       -> "in_progress"
                     [] rowState[k] = "indeterminate" -> "indeterminate"
                     [] rowState[k] = "completed"     -> rowResp[k])
    /\ UNCHANGED <<rowState, rowFp, rowResp, deadline, key, fp, result, commits>>

\* SELECT ... fetch_one: a row deleted meanwhile is a database error.
ReadRow(r) ==
    /\ pc[r] = "read"
    /\ LET k == key[r] IN
         Answer(r, CASE rowState[k] = "absent"        -> "error"
                     [] rowState[k] # "absent" /\ rowFp[k] # fp[r] -> "mismatch"
                     [] rowState[k] = "pending"       /\ rowFp[k] = fp[r] -> "in_progress"
                     [] rowState[k] = "indeterminate" /\ rowFp[k] = fp[r] -> "indeterminate"
                     [] rowState[k] = "completed"     /\ rowFp[k] = fp[r] -> rowResp[k])
    /\ UNCHANGED <<rowState, rowFp, rowResp, deadline, key, fp, result, commits>>

\* The domain service: its transaction commits and it says so, it fails before
\* the commit, or commit() returns an error and the commit stands or not.
Operate(r) ==
    /\ pc[r] = "operate"
    /\ \E res \in Results, effect \in 0..1 :
         /\ res = "ok" => effect = 1
         /\ res = "fail" => effect = 0
         /\ result' = [result EXCEPT ![r] = res]
         /\ commits' = [commits EXCEPT ![key[r]] = @ + effect]
    /\ Goto(r, "complete")
    /\ UNCHANGED <<rowState, rowFp, rowResp, deadline, key, fp>>

\* complete(): whatever the service answered is stored, an error included.
\* A claim that is no longer this fingerprint's live claim is lost.
Complete(r) ==
    /\ pc[r] = "complete"
    /\ LET k == key[r] IN
       IF rowState[k] = "pending" /\ ~deadline[k] /\ rowFp[k] = fp[r]
       THEN /\ rowState' = [rowState EXCEPT ![k] = "completed"]
            /\ rowResp' = [rowResp EXCEPT ![k] = result[r]]
            /\ Answer(r, result[r])
       ELSE /\ Answer(r, "error")
            /\ UNCHANGED <<rowState, rowResp>>
    /\ UNCHANGED <<rowFp, deadline, key, fp, result, commits>>

\* A statement fails, the response cannot be buffered or exceeds its budget,
\* the client hangs up, or the server dies: nothing after this point runs.
Abandon(r) ==
    /\ pc[r] # "idle"
    /\ Answer(r, "error")
    /\ UNCHANGED <<rowState, rowFp, rowResp, deadline, key, fp, result, commits>>

-----------------------------------------------------------------------------
(* The clock and the operator                                              *)

\* With a request timeout below the claim's five minutes (the default is 30
\* seconds) the executor has been dropped before its claim can run out.
Expire(k) ==
    /\ rowState[k] \in {"pending", "completed"}
    /\ ~deadline[k]
    /\ TimeoutBelowClaim => \A r \in Requests : Live(r) => key[r] # k
    /\ deadline' = [deadline EXCEPT ![k] = TRUE]
    /\ UNCHANGED <<rowState, rowFp, rowResp, pc, key, fp, result, reply, commits>>

\* docs/idempotency-recovery.md: delete an indeterminate row whose mutation is
\* seen not to have committed.
OperatorRelease(k) ==
    /\ OperatorRecovers
    /\ rowState[k] = "indeterminate"
    /\ commits[k] = 0
    /\ rowState' = [rowState EXCEPT ![k] = "absent"]
    /\ UNCHANGED <<rowFp, rowResp, deadline, pc, key, fp, result, reply, commits>>

-----------------------------------------------------------------------------
Step(r) ==
    \/ DeleteExpired(r)
    \/ MarkStale(r)
    \/ InsertClaim(r)
    \/ Reclaim(r)
    \/ ReadRow(r)
    \/ Operate(r)
    \/ Complete(r)

Next ==
    \/ \E r \in Requests, k \in Keys, f \in Fingerprints : Arrive(r, k, f)
    \/ \E r \in Requests : Step(r)
    \/ \E r \in Requests : Abandon(r)
    \/ \E k \in Keys : Expire(k)
    \/ \E k \in Keys : OperatorRelease(k)

Spec == Init /\ [][Next]_vars

(***************************************************************************)
(* Fairness.  A handler that is not cut off keeps running, time passes,    *)
(* and the outbound queue retries, so requests keep arriving and are not   *)
(* all cut off within the two maintenance statements.                      *)
(***************************************************************************)
Fairness ==
    /\ \A r \in Requests : /\ WF_vars(Step(r))
                            /\ SF_vars(DeleteExpired(r))
                            /\ SF_vars(MarkStale(r))
    /\ \A k \in Keys : WF_vars(Expire(k))
    /\ WF_vars(\E r \in Requests, k \in Keys, f \in Fingerprints : Arrive(r, k, f))

FairSpec == Spec /\ Fairness

-----------------------------------------------------------------------------
(* Properties                                                              *)

\* While a record is kept, the mutation it stands for has committed at most
\* once: concurrent and repeated requests with its key, claims that time out
\* and handlers that die in the middle never run the domain service to a
\* second commit (claim, complete and maintain_records together).
AtMostOnce == \A k \in Keys : commits[k] <= 1

\* A completed record never lies about a success: the response it will replay is
\* a success only if the mutation committed, and an error raised before the commit
\* only if it did not, whoever else claimed, timed out or died under its key.  The
\* one stored outcome that proves nothing is the error of commit() itself.
RecordTruthful ==
    \A k \in Keys : rowState[k] = "completed" =>
        /\ rowResp[k] = "ok" => commits[k] = 1
        /\ rowResp[k] = "fail" => commits[k] = 0

\* A handler that runs the mutation owns its claim: it is the only one alive for
\* its key, and the row still carries its fingerprint, pending or timed out.
ClaimOwned ==
    \A r \in Requests : Live(r) =>
        /\ rowState[key[r]] \in {"pending", "indeterminate"}
        /\ rowFp[key[r]] = fp[r]
        /\ \A s \in Requests : Live(s) /\ key[s] = key[r] => s = r

\* A request hears an outcome, by execution or by replay, only of a mutation run
\* under its own key and fingerprint and only as the record keeps it for the next
\* one; it hears of a success only if that mutation has committed, and of an error
\* raised before the commit only if it has not.
AnswersTruthful ==
    [][\A r \in Requests :
          (pc[r] # "idle" /\ pc'[r] = "idle" /\ reply'[r] \in Results) =>
              /\ rowFp[key[r]] = fp[r]
              /\ rowState'[key[r]] = "completed" /\ rowResp'[key[r]] = reply'[r]
              /\ reply'[r] = "ok" => commits[key[r]] = 1
              /\ reply'[r] = "fail" => commits[key[r]] = 0]_vars

\* "It never executes the mutation again automatically": once a claim has timed
\* out, no step but the operator's takes its row out of the indeterminate state,
\* and no request begins to execute under its key.
IndeterminateIsFinal ==
    [][\A k \in Keys : rowState[k] = "indeterminate" =>
          /\ rowState'[k] = "indeterminate" \/ OperatorRelease(k)
          /\ \A r \in Requests : pc[r] \in {"insert", "reclaim"} /\ key[r] = k => ~ (Live(r))']_vars

\* A claim never stays pending: it is completed, or the retries of the client
\* make its time-out visible.  (Indeterminate is an answer, pending is not.)
ClaimResolves ==
    \A k \in Keys : rowState[k] = "pending" ~> rowState[k] # "pending"

=============================================================================
