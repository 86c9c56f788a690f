------------------------- MODULE IdempotencyProofs -------------------------
(***************************************************************************)
(* Proofs about Idempotency, for any number of keys, requests and batches. *)
(*                                                                         *)
(* The inductive invariant says who may own a row: a live executor's row   *)
(* is pending or timed out and is its alone, and the history of commits    *)
(* follows the executor's program counter.                                 *)
(***************************************************************************)
EXTENDS Idempotency, TLAPS

\* Either handlers are dropped before their claim can run out, or nobody deletes
\* the records of claims that did.  AtMostOnce needs one of the two.
SafeDeployment == TimeoutBelowClaim \/ ~OperatorRecovers

\* A live executor under a short request timeout still holds an unexpired claim.
ClaimInTime ==
    TimeoutBelowClaim =>
        \A r \in Requests : Live(r) =>
            rowState[key[r]] = "pending" /\ ~deadline[key[r]]

\* The commits counted for a record follow the row and its executor.
CommitsFollow ==
    /\ \A k \in Keys : rowState[k] = "absent" => commits[k] = 0
    /\ \A r \in Requests : pc[r] = "operate" => commits[key[r]] = 0
    /\ \A r \in Requests : pc[r] = "complete" =>
          /\ commits[key[r]] \in 0..1
          /\ result[r] = "ok" => commits[key[r]] = 1
          /\ result[r] = "fail" => commits[key[r]] = 0

IInv ==
    /\ TypeOK
    /\ ClaimOwned
    /\ ClaimInTime
    /\ AtMostOnce
    /\ CommitsFollow
    /\ RecordTruthful

-----------------------------------------------------------------------------
\* Init establishes the invariant: no row, no handler, no commit.
LEMMA InitInv == Init => IInv
BY DEF Init, IInv, TypeOK, ClaimOwned, ClaimInTime, AtMostOnce, CommitsFollow,
       RecordTruthful, Live, RowStates, Results, Steps, Replies

\* A maintenance batch consists of rows that are due.
LEMMA BatchesAreDue ==
    ASSUME NEW due, NEW S \in Batches(due)
    PROVE  S \subseteq due
BY DEF Batches

\* Every step of every action preserves the invariant in a safe deployment.
LEMMA StepInv ==
    ASSUME SafeDeployment, IInv, [Next]_vars
    PROVE  IInv'
<1> USE DEF RowStates, Results, Steps, Replies
<1>1. ASSUME NEW r \in Requests, NEW k \in Keys, NEW f \in Fingerprints,
             Arrive(r, k, f)
      PROVE  IInv'
  BY <1>1 DEF Arrive, IInv, TypeOK, ClaimOwned, ClaimInTime, AtMostOnce,
              CommitsFollow, RecordTruthful, Live
<1>2. ASSUME NEW r \in Requests, DeleteExpired(r)
      PROVE  IInv'
  <2>1. PICK S \in Batches(ExpiredRows) :
          /\ rowState' = [k \in Keys |-> IF k \in S THEN "absent" ELSE rowState[k]]
          /\ commits' = [k \in Keys |-> IF k \in S THEN 0 ELSE commits[k]]
    BY <1>2 DEF DeleteExpired
  <2>2. \A k \in S : rowState[k] = "completed"
    BY <2>1, BatchesAreDue DEF ExpiredRows
  <2>3. \A s \in Requests : Live(s)' <=> Live(s)
    BY <1>2 DEF DeleteExpired, Goto, Live, IInv, TypeOK
  <2>4. \A s \in Requests : Live(s) => key[s] \notin S
    BY <2>2 DEF IInv, ClaimOwned
  <2> QED
    BY <1>2, <2>1, <2>2, <2>3, <2>4
    DEF DeleteExpired, Goto, IInv, TypeOK, ClaimOwned, ClaimInTime, AtMostOnce,
        CommitsFollow, RecordTruthful, Live
<1>3. ASSUME NEW r \in Requests, MarkStale(r)
      PROVE  IInv'
  <2>1. PICK S \in Batches(StaleRows) :
          rowState' = [k \in Keys |-> IF k \in S THEN "indeterminate" ELSE rowState[k]]
    BY <1>3 DEF MarkStale
  <2>2. \A k \in S : rowState[k] = "pending" /\ deadline[k]
    BY <2>1, BatchesAreDue DEF StaleRows
  <2>3. \A s \in Requests : Live(s)' <=> Live(s)
    BY <1>3 DEF MarkStale, Goto, Live, IInv, TypeOK
  <2> QED
    BY <1>3, <2>1, <2>2, <2>3
    DEF MarkStale, Goto, IInv, TypeOK, ClaimOwned, ClaimInTime, AtMostOnce,
        CommitsFollow, RecordTruthful, Live
<1>4. ASSUME NEW r \in Requests, InsertClaim(r)
      PROVE  IInv'
  <2>1. CASE rowState[key[r]] = "absent"
    <3>1. /\ pc' = [pc EXCEPT ![r] = "operate"]
          /\ rowState' = [rowState EXCEPT ![key[r]] = "pending"]
          /\ rowFp' = [rowFp EXCEPT ![key[r]] = fp[r]]
          /\ deadline' = [deadline EXCEPT ![key[r]] = FALSE]
          /\ commits' = [commits EXCEPT ![key[r]] = 0]
          /\ UNCHANGED <<rowResp, key, fp, result, reply>>
      BY <1>4, <2>1 DEF InsertClaim, Goto, IInv, TypeOK, CommitsFollow
    <3>2. \A s \in Requests : Live(s) => key[s] # key[r]
      BY <2>1 DEF IInv, ClaimOwned
    <3>3. TypeOK' /\ AtMostOnce' /\ RecordTruthful'
      BY <3>1 DEF IInv, TypeOK, AtMostOnce, RecordTruthful
    <3>4. ClaimOwned' /\ ClaimInTime'
      BY <3>1, <3>2 DEF IInv, TypeOK, ClaimOwned, ClaimInTime, Live
    <3>5. CommitsFollow'
      BY <3>1, <3>2 DEF IInv, TypeOK, CommitsFollow, Live
    <3> QED
      BY <3>3, <3>4, <3>5 DEF IInv
  <2>2. CASE ~(rowState[key[r]] = "absent")
    BY <1>4, <2>2 DEF InsertClaim, Goto, IInv, TypeOK, ClaimOwned, ClaimInTime,
                       AtMostOnce, CommitsFollow, RecordTruthful, Live
  <2> QED
    BY <2>1, <2>2
<1>5. ASSUME NEW r \in Requests, Reclaim(r)
      PROVE  IInv'
  <2>1. CASE key[r] \in ExpiredRows
    <3>1. /\ pc' = [pc EXCEPT ![r] = "operate"]
          /\ rowState' = [rowState EXCEPT ![key[r]] = "pending"]
          /\ rowFp' = [rowFp EXCEPT ![key[r]] = fp[r]]
          /\ deadline' = [deadline EXCEPT ![key[r]] = FALSE]
          /\ commits' = [commits EXCEPT ![key[r]] = 0]
          /\ UNCHANGED <<rowResp, key, fp, result, reply>>
      BY <1>5, <2>1 DEF Reclaim, Goto, IInv, TypeOK, CommitsFollow
    <3>2. \A s \in Requests : Live(s) => key[s] # key[r]
      BY <2>1 DEF IInv, ClaimOwned, ExpiredRows
    <3>3. TypeOK' /\ AtMostOnce' /\ RecordTruthful'
      BY <3>1 DEF IInv, TypeOK, AtMostOnce, RecordTruthful
    <3>4. ClaimOwned' /\ ClaimInTime'
      BY <3>1, <3>2 DEF IInv, TypeOK, ClaimOwned, ClaimInTime, Live
    <3>5. CommitsFollow'
      BY <3>1, <3>2 DEF IInv, TypeOK, CommitsFollow, Live
    <3> QED
      BY <3>3, <3>4, <3>5 DEF IInv
  <2>2. CASE ~(key[r] \in ExpiredRows)
    BY <1>5, <2>2 DEF Reclaim, Goto, IInv, TypeOK, ClaimOwned, ClaimInTime,
                       AtMostOnce, CommitsFollow, RecordTruthful, Live
  <2> QED
    BY <2>1, <2>2
<1>6. ASSUME NEW r \in Requests, ReadRow(r)
      PROVE  IInv'
  <2>1. PICK a \in Replies : Answer(r, a)
    BY <1>6 DEF ReadRow, Answer, IInv, TypeOK
  <2> QED
    BY <1>6, <2>1 DEF ReadRow, Answer, IInv, TypeOK, ClaimOwned, ClaimInTime,
                      AtMostOnce, CommitsFollow, RecordTruthful, Live
<1>7. ASSUME NEW r \in Requests, Operate(r)
      PROVE  IInv'
  BY <1>7 DEF Operate, Goto, IInv, TypeOK, ClaimOwned, ClaimInTime, AtMostOnce,
              CommitsFollow, RecordTruthful, Live
<1>8. ASSUME NEW r \in Requests, Complete(r)
      PROVE  IInv'
  BY <1>8 DEF Complete, Answer, IInv, TypeOK, ClaimOwned, ClaimInTime, AtMostOnce,
              CommitsFollow, RecordTruthful, Live
<1>9. ASSUME NEW r \in Requests, Abandon(r)
      PROVE  IInv'
  BY <1>9 DEF Abandon, Answer, IInv, TypeOK, ClaimOwned, ClaimInTime, AtMostOnce,
              CommitsFollow, RecordTruthful, Live
<1>10. ASSUME NEW k \in Keys, Expire(k)
       PROVE  IInv'
  BY <1>10 DEF Expire, IInv, TypeOK, ClaimOwned, ClaimInTime, AtMostOnce,
               CommitsFollow, RecordTruthful, Live
<1>11. ASSUME NEW k \in Keys, OperatorRelease(k)
       PROVE  IInv'
  BY <1>11 DEF OperatorRelease, SafeDeployment, IInv, TypeOK, ClaimOwned,
               ClaimInTime, AtMostOnce, CommitsFollow, RecordTruthful, Live
<1>12. CASE UNCHANGED vars
  BY <1>12 DEF vars, IInv, TypeOK, ClaimOwned, ClaimInTime, AtMostOnce,
               CommitsFollow, RecordTruthful, Live
<1> QED
  BY <1>1, <1>2, <1>3, <1>4, <1>5, <1>6, <1>7, <1>8, <1>9, <1>10, <1>11, <1>12
  DEF Next, Step

-----------------------------------------------------------------------------
\* Every behaviour of a safe deployment satisfies the inductive invariant.
LEMMA Invariant ==
    ASSUME SafeDeployment PROVE Spec => []IInv
<1>1. Init => IInv
  BY InitInv
<1>2. IInv /\ [Next]_vars => IInv'
  BY StepInv
<1> QED
  BY <1>1, <1>2, PTL DEF Spec

\* Type correctness: rows, handlers and answers keep their types.
THEOREM TypeCorrect ==
    ASSUME SafeDeployment PROVE Spec => []TypeOK
<1>1. IInv => TypeOK
  BY DEF IInv
<1> QED
  BY <1>1, Invariant, PTL

\* However many requests carry a key, whatever dies between two statements, the
\* mutation behind a record commits at most once while the record is kept.
THEOREM AtMostOnceAlways ==
    ASSUME SafeDeployment PROVE Spec => []AtMostOnce
<1>1. IInv => AtMostOnce
  BY DEF IInv
<1> QED
  BY <1>1, Invariant, PTL

\* A stored success has committed and a stored failure that is older than its
\* commit has not; only the error of commit() itself leaves the outcome open.
THEOREM RecordTruthfulAlways ==
    ASSUME SafeDeployment PROVE Spec => []RecordTruthful
<1>1. IInv => RecordTruthful
  BY DEF IInv
<1> QED
  BY <1>1, Invariant, PTL

\* A handler that runs the mutation is alone in doing so and owns the row.
THEOREM ClaimOwnedAlways ==
    ASSUME SafeDeployment PROVE Spec => []ClaimOwned
<1>1. IInv => ClaimOwned
  BY DEF IInv
<1> QED
  BY <1>1, Invariant, PTL

-----------------------------------------------------------------------------
\* The answer of one request in one step, as AnswersTruthful states it.
AnswerStep(r) ==
    (pc[r] # "idle" /\ pc'[r] = "idle" /\ reply'[r] \in Results) =>
        /\ rowFp[key[r]] = fp[r]
        /\ rowState'[key[r]] = "completed" /\ rowResp'[key[r]] = reply'[r]
        /\ reply'[r] = "ok" => commits[key[r]] = 1
        /\ reply'[r] = "fail" => commits[key[r]] = 0

\* Only a replay and a recorded completion answer with an outcome, and both have
\* at hand what the service knew.
LEMMA AnswerStepHolds ==
    ASSUME IInv, [Next]_vars, NEW r \in Requests
    PROVE  AnswerStep(r)
<1> USE DEF RowStates, Results, Steps, Replies
<1> SUFFICES ASSUME pc[r] # "idle", pc'[r] = "idle", reply'[r] \in Results
             PROVE  /\ rowFp[key[r]] = fp[r]
                    /\ rowState'[key[r]] = "completed" /\ rowResp'[key[r]] = reply'[r]
                    /\ reply'[r] = "ok" => commits[key[r]] = 1
                    /\ reply'[r] = "fail" => commits[key[r]] = 0
  BY DEF AnswerStep
<1>1. ReadRow(r) \/ Complete(r) \/ Abandon(r)
  BY DEF Next, Step, vars, Arrive, DeleteExpired, MarkStale, InsertClaim, Reclaim,
         ReadRow, Operate, Complete, Abandon, Expire, OperatorRelease, Goto, Answer,
         IInv, TypeOK
<1>2. CASE ReadRow(r)
  BY <1>2 DEF ReadRow, Answer, IInv, TypeOK, RecordTruthful
<1>3. CASE Complete(r)
  BY <1>3 DEF Complete, Answer, IInv, TypeOK, CommitsFollow
<1>4. CASE Abandon(r)
  BY <1>4 DEF Abandon, Answer, IInv, TypeOK
<1> QED
  BY <1>1, <1>2, <1>3, <1>4

\* A request hears "succeeded" only of a mutation that committed under its own
\* fingerprint, and every outcome it hears is the one kept for the next replay.
THEOREM AnswersTruthfulAlways ==
    ASSUME SafeDeployment PROVE Spec => AnswersTruthful
<1>1. IInv /\ [Next]_vars => [\A r \in Requests :
          (pc[r] # "idle" /\ pc'[r] = "idle" /\ reply'[r] \in Results) =>
              /\ rowFp[key[r]] = fp[r]
              /\ rowState'[key[r]] = "completed" /\ rowResp'[key[r]] = reply'[r]
              /\ reply'[r] = "ok" => commits[key[r]] = 1
              /\ reply'[r] = "fail" => commits[key[r]] = 0]_vars
  BY AnswerStepHolds DEF AnswerStep
<1> QED
  BY <1>1, Invariant, PTL DEF Spec, AnswersTruthful

\* A timed-out claim leaves the indeterminate state only by the operator's hand,
\* and nobody starts to execute under it meanwhile.
LEMMA IndeterminateStep ==
    ASSUME IInv, [Next]_vars, NEW k \in Keys, rowState[k] = "indeterminate"
    PROVE  /\ rowState'[k] = "indeterminate" \/ OperatorRelease(k)
           /\ \A r \in Requests :
                 pc[r] \in {"insert", "reclaim"} /\ key[r] = k => ~ (Live(r))'
<1> USE DEF RowStates, Results, Steps, Replies
<1>1. CASE \E r \in Requests : DeleteExpired(r) \/ MarkStale(r)
  <2>1. PICK r \in Requests : DeleteExpired(r) \/ MarkStale(r)
    BY <1>1
  <2>2. rowState'[k] = "indeterminate"
    BY <2>1, BatchesAreDue DEF DeleteExpired, MarkStale, ExpiredRows, StaleRows
  <2> QED
    BY <2>1, <2>2 DEF DeleteExpired, MarkStale, Goto, Live, IInv, TypeOK
<1>2. CASE \E r \in Requests : InsertClaim(r) \/ Reclaim(r)
  BY <1>2 DEF InsertClaim, Reclaim, ExpiredRows, Goto, Live, IInv, TypeOK
<1>3. CASE \E r \in Requests :
             ReadRow(r) \/ Operate(r) \/ Complete(r) \/ Abandon(r)
  BY <1>3 DEF ReadRow, Operate, Complete, Abandon, Goto, Answer, Live, IInv, TypeOK
<1>4. CASE \E r \in Requests, l \in Keys, f \in Fingerprints : Arrive(r, l, f)
  BY <1>4 DEF Arrive, Live, IInv, TypeOK
<1>5. CASE \E l \in Keys : Expire(l) \/ OperatorRelease(l)
  BY <1>5 DEF Expire, OperatorRelease, Live, IInv, TypeOK
<1>6. CASE UNCHANGED vars
  BY <1>6 DEF vars, Live
<1> QED
  BY <1>1, <1>2, <1>3, <1>4, <1>5, <1>6 DEF Next, Step

\* The server never runs a timed-out mutation again by itself.
THEOREM IndeterminateIsFinalAlways ==
    ASSUME SafeDeployment PROVE Spec => IndeterminateIsFinal
<1>1. IInv /\ [Next]_vars => [\A k \in Keys : rowState[k] = "indeterminate" =>
          /\ rowState'[k] = "indeterminate" \/ OperatorRelease(k)
          /\ \A r \in Requests :
                pc[r] \in {"insert", "reclaim"} /\ key[r] = k => ~ (Live(r))']_vars
  BY IndeterminateStep
<1> QED
  BY <1>1, Invariant, PTL DEF Spec, IndeterminateIsFinal

=============================================================================
