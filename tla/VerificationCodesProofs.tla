---------------------- MODULE VerificationCodesProofs ----------------------
(***************************************************************************)
(* Theorems about VerificationCodes, for any number of requests, codes,    *)
(* attempts and accesses.                                                  *)
(***************************************************************************)
EXTENDS VerificationCodes, FiniteSetTheorems, TLAPS

Inserting == {r \in Requests : req[r].pc = "insert"}

\* What a request works on, by the statement it runs next.
RequestOK(q) ==
    /\ mode = "anyone" => q.pc \in {"idle", "access", "answer"}
    /\ mode # "anyone" /\ q.pc \in {"count", "clear", "access", "consume",
                                    "answer", "undo"} => q.at \in Codes
    /\ q.pc = "count" => q.seen < MaxAttempts
RequestsOK == \A r \in Requests : RequestOK(req[r])

\* A code with no attempt left is used.
Unspent == \A c \in Codes : ~used[c] => attempts[c] < MaxAttempts

\* Requests that are about to insert passed the check while there was room.
CodesLimited == issued + Cardinality(Inserting) <= MaxCodes + Cardinality(Requests) - 1

\* A code is consumed once and then used; being revived lets it be so again.
Consumptions == \A c \in Codes :
    consumed[c] <= revived[c] + (IF used[c] THEN 1 ELSE 0)

\* A code that has been reset with has no attempts left and is used.
Resets == \A c \in Codes :
    resets[c] <= revived[c] + (IF used[c] /\ attempts[c] = MaxAttempts THEN 1 ELSE 0)

\* Every access counted has an owner.
Accounts == WithLink => link.count = granted + lost + Cardinality(Counted)

\* The parts of the type invariant, by who writes them.
CodesOK ==
    /\ attempts \in [Codes -> 0..MaxAttempts]
    /\ used \in [Codes -> BOOLEAN] /\ expired \in [Codes -> BOOLEAN]
    /\ tokens \subseteq Codes
RequestType == [pc: Steps, at: Codes \cup {0}, had: BOOLEAN, seen: 0..MaxAttempts]
RequestsTyped == req \in [Requests -> RequestType]
LinkOK ==
    /\ mode \in Modes
    /\ fails \in 0..LockAfter /\ locked \in BOOLEAN
    /\ ~locked => fails < LockAfter
    /\ link \in [status: {"active", "revoked", "exhausted"},
                 count: 0..MaxAccess, expired: BOOLEAN]
HistoryOK ==
    /\ consumed \in [Codes -> Nat] /\ revived \in [Codes -> Nat]
    /\ resets \in [Codes -> Nat]
    /\ granted \in Nat /\ lost \in Nat

IInv == /\ TypeOK /\ LinkOK /\ RequestsOK /\ Unspent /\ CodesLimited
        /\ Consumptions /\ Resets /\ Accounts

\* A step of one request.
RequestStep(r) ==
    \/ RequestCode(r) \/ InsertCode(r) \/ Undo(r)
    \/ Arrives(r) \/ CheckLock(r) \/ HasActiveCode(r)
    \/ SelectMatching(r) \/ SelectLatest(r) \/ RecordFailedAttempt(r)
    \/ RecordFailure(r) \/ InvalidatePendingCodes(r) \/ ClearFailures(r)
    \/ ConsumeShareLinkAccess(r) \/ Consume(r) \/ Answer(r) \/ CutOff(r)

\* Rows are codes, and so is the next one.
LEMMA CodeRange ==
    ASSUME TypeOK
    PROVE  Rows \subseteq Codes /\ issued + 1 \in Codes /\ issued \in Nat
<1>1. Cardinality(Requests) \in Nat
  BY FS_CardinalityType, BoundsAssumption
<1>2. QED
  BY <1>1, BoundsAssumption DEF TypeOK, Codes, Rows

\* A request that moves to a good place leaves every request in one.
LEMMA RequestMoves ==
    ASSUME TypeOK, RequestsOK, NEW r \in Requests,
           NEW x \in RequestType, RequestOK(x),
           req' = [req EXCEPT ![r] = x], mode' = mode
    PROVE  RequestsTyped' /\ RequestsOK'
<1>1. req \in [Requests -> RequestType]
  BY DEF TypeOK, RequestType
<1>2. RequestsTyped'
  BY <1>1 DEF RequestsTyped, RequestType, Codes
<1>3. ASSUME NEW q \in Requests PROVE RequestOK(req[q])'
  <2>1. req'[q] = x \/ req'[q] = req[q]
    BY <1>1
  <2>2. QED
    BY <2>1 DEF RequestsOK, RequestOK, Codes
<1>4. QED
  BY <1>2, <1>3 DEF RequestsOK

\* A slot that handles nothing is a good place.
LEMMA IdleOK == Idle \in RequestType /\ RequestOK(Idle)
BY BoundsAssumption DEF Idle, RequestType, RequestOK, Steps

-----------------------------------------------------------------------------
(* Counting requests                                                       *)

\* There are finitely many requests.
LEMMA RequestCount == Cardinality(Requests) \in Nat
BY FS_CardinalityType, BoundsAssumption

\* Two sets of requests that differ at most in r.
LEMMA DifferInOne ==
    ASSUME NEW A \in SUBSET Requests, NEW B \in SUBSET Requests, NEW r \in Requests,
           \A q \in Requests \ {r} : q \in A <=> q \in B
    PROVE  /\ Cardinality(A) \in Nat /\ Cardinality(B) \in Nat
           /\ Cardinality(A) <= Cardinality(Requests)
           /\ Cardinality(B) <= Cardinality(Requests)
           /\ Cardinality(B) = Cardinality(A) + (IF r \in B THEN 1 ELSE 0)
                                              - (IF r \in A THEN 1 ELSE 0)
<1>1. IsFiniteSet(A) /\ IsFiniteSet(B)
  BY FS_Subset, BoundsAssumption
<1>2. /\ Cardinality(A) \in Nat /\ Cardinality(A) <= Cardinality(Requests)
      /\ Cardinality(B) \in Nat /\ Cardinality(B) <= Cardinality(Requests)
  BY <1>1, FS_Subset, FS_CardinalityType, BoundsAssumption
<1>3. CASE r \in A <=> r \in B
  <2>1. A = B
    BY <1>3
  <2>2. QED
    BY <1>2, <1>3, <2>1
<1>4. CASE r \in A /\ r \notin B
  <2>1. B = A \ {r}
    BY <1>4
  <2>2. Cardinality(B) = Cardinality(A) - 1
    BY <1>1, <1>4, <2>1, FS_RemoveElement
  <2>3. QED
    BY <1>2, <1>4, <2>2
<1>5. CASE r \notin A /\ r \in B
  <2>1. A = B \ {r}
    BY <1>5
  <2>2. Cardinality(A) = Cardinality(B) - 1
    BY <1>1, <1>5, <2>1, FS_RemoveElement
  <2>3. QED
    BY <1>2, <1>5, <2>2
<1>6. QED
  BY <1>3, <1>4, <1>5

\* A request that moves leaves the others where they are, so the two sets of
\* requests that are counted gain it, lose it or stay.
Moved(r) ==
    /\ Cardinality(Inserting) \in Nat /\ Cardinality(Inserting)' \in Nat
    /\ Cardinality(Inserting)' <= Cardinality(Requests)
    /\ Cardinality(Inserting)' = Cardinality(Inserting)
          + (IF req'[r].pc = "insert" THEN 1 ELSE 0)
          - (IF req[r].pc = "insert" THEN 1 ELSE 0)
    /\ Cardinality(Counted) \in Nat
    /\ Cardinality(Counted)' = Cardinality(Counted)
          + (IF req'[r].pc \in {"consume", "answer"} THEN 1 ELSE 0)
          - (IF req[r].pc \in {"consume", "answer"} THEN 1 ELSE 0)

\* Each step of a request changes that request only.
LEMMA OneMoves ==
    ASSUME TypeOK, NEW r \in Requests, RequestStep(r)
    PROVE  Moved(r)
<1>1. ASSUME NEW x, req' = [req EXCEPT ![r] = x]
      PROVE  \A q \in Requests \ {r} : req'[q] = req[q]
  BY <1>1 DEF TypeOK
<1>2. \E x : req' = [req EXCEPT ![r] = x]
  <2>1. CASE RequestCode(r)
    BY <2>1 DEF RequestCode, Goes
  <2>2. CASE InsertCode(r)
    BY <2>2 DEF InsertCode, Goes
  <2>3. CASE Undo(r)
    BY <2>3 DEF Undo, Goes
  <2>4. CASE Arrives(r)
    BY <2>4 DEF Arrives, Goes
  <2>5. CASE CheckLock(r)
    BY <2>5 DEF CheckLock, Goes
  <2>6. CASE HasActiveCode(r)
    BY <2>6 DEF HasActiveCode, Goes
  <2>7. CASE SelectMatching(r)
    BY <2>7 DEF SelectMatching, Goes
  <2>8. CASE SelectLatest(r)
    BY <2>8 DEF SelectLatest, Goes
  <2>9. CASE RecordFailedAttempt(r)
    BY <2>9 DEF RecordFailedAttempt, Goes
  <2>10. CASE RecordFailure(r)
    BY <2>10 DEF RecordFailure, Goes
  <2>11. CASE InvalidatePendingCodes(r)
    BY <2>11 DEF InvalidatePendingCodes, Goes
  <2>12. CASE ClearFailures(r)
    BY <2>12 DEF ClearFailures, Goes
  <2>13. CASE ConsumeShareLinkAccess(r)
    BY <2>13 DEF ConsumeShareLinkAccess, Goes
  <2>14. CASE Consume(r)
    BY <2>14 DEF Consume, Goes
  <2>15. CASE Answer(r)
    BY <2>15 DEF Answer, Goes
  <2>16. CASE CutOff(r)
    BY <2>16 DEF CutOff, Goes
  <2>17. QED
    BY <2>1, <2>2, <2>3, <2>4, <2>5, <2>6, <2>7, <2>8, <2>9, <2>10, <2>11,
       <2>12, <2>13, <2>14, <2>15, <2>16 DEF RequestStep
<1>3. \A q \in Requests \ {r} : req'[q] = req[q]
  BY <1>1, <1>2
<1>4. /\ Inserting \in SUBSET Requests /\ Inserting' \in SUBSET Requests
      /\ Counted \in SUBSET Requests /\ Counted' \in SUBSET Requests
      /\ \A q \in Requests \ {r} : q \in Inserting <=> q \in Inserting'
      /\ \A q \in Requests \ {r} : q \in Counted <=> q \in Counted'
      /\ r \in Inserting <=> req[r].pc = "insert"
      /\ r \in Inserting' <=> req'[r].pc = "insert"
      /\ r \in Counted <=> req[r].pc \in {"consume", "answer"}
      /\ r \in Counted' <=> req'[r].pc \in {"consume", "answer"}
  BY <1>3 DEF Inserting, Counted
<1>5. QED
  BY <1>4, DifferInOne DEF Moved

-----------------------------------------------------------------------------
(* Steps                                                                   *)

\* A code is inserted only by a request that found room for it.
LEMMA LimitStep ==
    ASSUME IInv, [Next]_vars
    PROVE  issued' \in Nat /\ CodesLimited'
<1>1. ASSUME NEW r \in Requests, RequestCode(r)
      PROVE  issued' \in Nat /\ CodesLimited'
  <2>1. Moved(r)
    BY <1>1, OneMoves DEF IInv, RequestStep
  <2>2. QED
    BY <1>1, <2>1, RequestCount, BoundsAssumption DEF RequestCode, Goes, Idle,
        BelowLimit, Rows, Moved, TypeOK, IInv, CodesLimited, codeVars
<1>2. ASSUME NEW r \in Requests, InsertCode(r)
      PROVE  issued' \in Nat /\ CodesLimited'
  <2>1. Moved(r)
    BY <1>2, OneMoves DEF IInv, RequestStep
  <2>2. QED
    BY <1>2, <2>1, RequestCount, BoundsAssumption DEF InsertCode, Goes, Idle,
        Moved, TypeOK, IInv, CodesLimited, codeVars
<1>3. ASSUME NEW r \in Requests, Undo(r)
      PROVE  issued' \in Nat /\ CodesLimited'
  <2>1. Moved(r)
    BY <1>3, OneMoves DEF IInv, RequestStep
  <2>2. QED
    BY <1>3, <2>1, RequestCount, BoundsAssumption DEF Undo, Goes, Idle, Usable,
        Moved, TypeOK, IInv, CodesLimited, codeVars
<1>4. ASSUME NEW r \in Requests, Arrives(r)
      PROVE  issued' \in Nat /\ CodesLimited'
  <2>1. Moved(r)
    BY <1>4, OneMoves DEF IInv, RequestStep
  <2>2. QED
    BY <1>4, <2>1, RequestCount, BoundsAssumption DEF Arrives, Goes, Idle,
        WithLink, Rows, Moved, TypeOK, IInv, CodesLimited, codeVars
<1>5. ASSUME NEW r \in Requests, CheckLock(r)
      PROVE  issued' \in Nat /\ CodesLimited'
  <2>1. Moved(r)
    BY <1>5, OneMoves DEF IInv, RequestStep
  <2>2. QED
    BY <1>5, <2>1, RequestCount, BoundsAssumption DEF CheckLock, Goes, Idle,
        Moved, TypeOK, IInv, CodesLimited, codeVars
<1>6. ASSUME NEW r \in Requests, HasActiveCode(r)
      PROVE  issued' \in Nat /\ CodesLimited'
  <2>1. Moved(r)
    BY <1>6, OneMoves DEF IInv, RequestStep
  <2>2. QED
    BY <1>6, <2>1, RequestCount, BoundsAssumption DEF HasActiveCode, Moved,
        TypeOK, IInv, CodesLimited, codeVars
<1>7. ASSUME NEW r \in Requests, SelectMatching(r)
      PROVE  issued' \in Nat /\ CodesLimited'
  <2>1. Moved(r)
    BY <1>7, OneMoves DEF IInv, RequestStep
  <2>2. QED
    BY <1>7, <2>1, RequestCount, BoundsAssumption DEF SelectMatching, Active,
        Rows, Moved, TypeOK, IInv, CodesLimited, codeVars
<1>8. ASSUME NEW r \in Requests, SelectLatest(r)
      PROVE  issued' \in Nat /\ CodesLimited'
  <2>1. Moved(r)
    BY <1>8, OneMoves DEF IInv, RequestStep
  <2>2. req'[r].pc \in {"fail", "count"} /\ req[r].pc = "latest"
    <3>1. ASSUME Goes(r, "fail") PROVE req'[r].pc = "fail"
      BY <3>1 DEF Goes, IInv, TypeOK
    <3>2. ASSUME NEW c, req' = [req EXCEPT ![r].pc = "count", ![r].at = c,
                                            ![r].seen = attempts[c]]
          PROVE  req'[r].pc = "count"
      BY <3>2 DEF IInv, TypeOK
    <3>3. QED
      BY <1>8, <3>1, <3>2 DEF SelectLatest
  <2>3. UNCHANGED <<mode, codeVars, link, linkHist>>
    BY <1>8 DEF SelectLatest
  <2>4. QED
    BY <1>8, <2>1, <2>2, <2>3, RequestCount, BoundsAssumption DEF Moved,
        codeVars, TypeOK, IInv, CodesLimited
<1>9. ASSUME NEW r \in Requests, RecordFailedAttempt(r)
      PROVE  issued' \in Nat /\ CodesLimited'
  <2>1. Moved(r)
    BY <1>9, OneMoves DEF IInv, RequestStep
  <2>2. QED
    BY <1>9, <2>1, RequestCount, BoundsAssumption DEF RecordFailedAttempt,
        Moved, TypeOK, IInv, CodesLimited, codeVars
<1>10. ASSUME NEW r \in Requests, RecordFailure(r)
      PROVE  issued' \in Nat /\ CodesLimited'
  <2>1. Moved(r)
    BY <1>10, OneMoves DEF IInv, RequestStep
  <2>2. QED
    BY <1>10, <2>1, RequestCount, BoundsAssumption DEF RecordFailure, Goes,
        Idle, Moved, TypeOK, IInv, CodesLimited, codeVars
<1>11. ASSUME NEW r \in Requests, InvalidatePendingCodes(r)
      PROVE  issued' \in Nat /\ CodesLimited'
  <2>1. Moved(r)
    BY <1>11, OneMoves DEF IInv, RequestStep
  <2>2. QED
    BY <1>11, <2>1, RequestCount, BoundsAssumption DEF InvalidatePendingCodes,
        Goes, Idle, Rows, Moved, TypeOK, IInv, CodesLimited, codeVars
<1>12. ASSUME NEW r \in Requests, ClearFailures(r)
      PROVE  issued' \in Nat /\ CodesLimited'
  <2>1. Moved(r)
    BY <1>12, OneMoves DEF IInv, RequestStep
  <2>2. QED
    BY <1>12, <2>1, RequestCount, BoundsAssumption DEF ClearFailures, Goes,
        Idle, Moved, TypeOK, IInv, CodesLimited, codeVars
<1>13. ASSUME NEW r \in Requests, ConsumeShareLinkAccess(r)
      PROVE  issued' \in Nat /\ CodesLimited'
  <2>1. Moved(r)
    BY <1>13, OneMoves DEF IInv, RequestStep
  <2>2. QED
    BY <1>13, <2>1, RequestCount, BoundsAssumption DEF ConsumeShareLinkAccess,
        Goes, Idle, Consumable, Moved, TypeOK, IInv, CodesLimited, codeVars
<1>14. ASSUME NEW r \in Requests, Consume(r)
      PROVE  issued' \in Nat /\ CodesLimited'
  <2>1. Moved(r)
    BY <1>14, OneMoves DEF IInv, RequestStep
  <2>2. QED
    BY <1>14, <2>1, RequestCount, BoundsAssumption DEF Consume, Goes, Idle,
        Usable, Moved, TypeOK, IInv, CodesLimited, codeVars
<1>15. ASSUME NEW r \in Requests, Answer(r)
      PROVE  issued' \in Nat /\ CodesLimited'
  <2>1. Moved(r)
    BY <1>15, OneMoves DEF IInv, RequestStep
  <2>2. QED
    BY <1>15, <2>1, RequestCount, BoundsAssumption DEF Answer, Goes, Idle,
        Moved, TypeOK, IInv, CodesLimited, codeVars
<1>16. ASSUME NEW r \in Requests, CutOff(r)
      PROVE  issued' \in Nat /\ CodesLimited'
  <2>1. Moved(r)
    BY <1>16, OneMoves DEF IInv, RequestStep
  <2>2. QED
    BY <1>16, <2>1, RequestCount, BoundsAssumption DEF CutOff, Goes, Idle,
        Moved, TypeOK, IInv, CodesLimited, codeVars
<1>17. ASSUME NEW c \in Codes, ResetPassword(c)
      PROVE  issued' \in Nat /\ CodesLimited'
    BY <1>17 DEF ResetPassword, SpentAttempts, TypeOK, IInv, CodesLimited,
        Inserting, codeVars
<1>18. ASSUME NEW c \in Codes, CodeExpires(c)
      PROVE  issued' \in Nat /\ CodesLimited'
    BY <1>18 DEF CodeExpires, TypeOK, IInv, CodesLimited, Inserting,
        codeVars
<1>19. CASE RevokeShareLink
    BY <1>19 DEF RevokeShareLink, TypeOK, IInv, CodesLimited, Inserting,
        codeVars
<1>20. CASE LinkExpires
    BY <1>20 DEF LinkExpires, TypeOK, IInv, CodesLimited, Inserting,
        codeVars
<1>21. CASE LockExpires
    BY <1>21 DEF LockExpires, TypeOK, IInv, CodesLimited, Inserting,
        codeVars
<1>22. CASE UNCHANGED vars
    BY <1>22 DEF vars, TypeOK, IInv, CodesLimited, Inserting, codeVars
<1>23. QED
    BY <1>1, <1>2, <1>3, <1>4, <1>5, <1>6, <1>7, <1>8, <1>9, <1>10, <1>11,
        <1>12, <1>13, <1>14, <1>15, <1>16, <1>17, <1>18, <1>19, <1>20, <1>21,
        <1>22 DEF Next

\* The columns of the codes.
LEMMA CodesStep ==
    ASSUME IInv, [Next]_vars
    PROVE  CodesOK' /\ Unspent'
<1>1. ASSUME NEW r \in Requests, RequestCode(r)
      PROVE  CodesOK' /\ Unspent'
    BY <1>1, CodeRange, BoundsAssumption DEF RequestCode, Goes, Idle,
        BelowLimit, Rows, IInv, TypeOK, RequestsOK, RequestOK, Unspent, CodesOK,
        codeVars
<1>2. ASSUME NEW r \in Requests, InsertCode(r)
      PROVE  CodesOK' /\ Unspent'
    BY <1>2, CodeRange, BoundsAssumption DEF InsertCode, Goes, Idle, IInv,
        TypeOK, RequestsOK, RequestOK, Unspent, CodesOK, codeVars
<1>3. ASSUME NEW r \in Requests, Undo(r)
      PROVE  CodesOK' /\ Unspent'
  <2> DEFINE c == req[r].at
  <2>1. c \in Codes
    BY <1>3 DEF Undo, IInv, TypeOK, RequestsOK, RequestOK
  <2>2. used' \in [Codes -> BOOLEAN] /\ tokens' = tokens /\ expired' = expired
    BY <1>3, <2>1 DEF Undo, IInv, TypeOK
  <2>3. \A d \in Codes : attempts[d] \in 0..MaxAttempts /\ (~used[d] => attempts[d] < MaxAttempts)
    BY DEF IInv, TypeOK, Unspent
  <2>4. CASE mode = "signup" /\ Usable(c)
    <3>1. attempts' = [attempts EXCEPT ![c] = attempts[c] + 1] /\ used'[c] = TRUE
      BY <1>3, <2>1, <2>4 DEF Undo, IInv, TypeOK
    <3>2. \A d \in Codes : d # c => used'[d] = used[d]
      BY <1>3, <2>1 DEF Undo, IInv, TypeOK
    <3>3. attempts[c] < MaxAttempts
      BY <2>4 DEF Usable
    <3>4. attempts' \in [Codes -> 0..MaxAttempts]
      BY <2>1, <2>3, <3>1, <3>3, BoundsAssumption DEF IInv, TypeOK
    <3>5. Unspent'
      BY <2>1, <2>3, <3>1, <3>2, BoundsAssumption DEF IInv, TypeOK, Unspent, Codes
    <3>6. QED
      BY <2>2, <3>4, <3>5 DEF CodesOK, IInv, TypeOK, Codes
  <2>5. CASE ~(mode = "signup" /\ Usable(c))
    <3>1. attempts' = attempts
      BY <1>3, <2>5 DEF Undo
    <3>2. \A d \in Codes : ~used'[d] => ~used[d]
      BY <1>3, <2>1 DEF Undo, IInv, TypeOK
    <3>3. QED
      BY <2>2, <2>3, <3>1, <3>2 DEF CodesOK, IInv, TypeOK, Unspent, Codes
  <2>6. QED
    BY <2>4, <2>5
<1>4. ASSUME NEW r \in Requests, Arrives(r)
      PROVE  CodesOK' /\ Unspent'
    BY <1>4, CodeRange, BoundsAssumption DEF Arrives, Goes, Idle, WithLink,
        Rows, IInv, TypeOK, RequestsOK, RequestOK, Unspent, CodesOK, codeVars
<1>5. ASSUME NEW r \in Requests, CheckLock(r)
      PROVE  CodesOK' /\ Unspent'
    BY <1>5, CodeRange, BoundsAssumption DEF CheckLock, Goes, Idle, IInv,
        TypeOK, RequestsOK, RequestOK, Unspent, CodesOK, codeVars
<1>6. ASSUME NEW r \in Requests, HasActiveCode(r)
      PROVE  CodesOK' /\ Unspent'
    BY <1>6, CodeRange, BoundsAssumption DEF HasActiveCode, IInv, TypeOK,
        RequestsOK, RequestOK, Unspent, CodesOK, codeVars
<1>7. ASSUME NEW r \in Requests, SelectMatching(r)
      PROVE  CodesOK' /\ Unspent'
    BY <1>7, CodeRange, BoundsAssumption DEF SelectMatching, Active, Rows,
        IInv, TypeOK, RequestsOK, RequestOK, Unspent, CodesOK, codeVars
<1>8. ASSUME NEW r \in Requests, SelectLatest(r)
      PROVE  CodesOK' /\ Unspent'
    BY <1>8, CodeRange, BoundsAssumption DEF SelectLatest, Goes, Idle,
        Latest, Active, Rows, IInv, TypeOK, RequestsOK, RequestOK, Unspent,
        CodesOK, codeVars
<1>9. ASSUME NEW r \in Requests, RecordFailedAttempt(r)
      PROVE  CodesOK' /\ Unspent'
  <2> DEFINE c == req[r].at
  <2>1. c \in Codes /\ req[r].seen \in 0..MaxAttempts /\ req[r].seen < MaxAttempts
    BY <1>9 DEF RecordFailedAttempt, IInv, TypeOK, RequestsOK, RequestOK
  <2> DEFINE b == req[r].seen + 1 >= MaxAttempts
  <2>2. b \in BOOLEAN /\ used' = [used EXCEPT ![c] = b]
    BY <1>9 DEF RecordFailedAttempt
  <2>0. b <=> req[r].seen + 1 >= MaxAttempts
    OBVIOUS
  <2> HIDE DEF b
  <2>3. attempts' = [attempts EXCEPT ![c] = req[r].seen + 1]
        /\ tokens' = tokens /\ expired' = expired
    BY <1>9 DEF RecordFailedAttempt
  <2>4. CodesOK'
    BY <2>1, <2>2, <2>3, <2>0, BoundsAssumption DEF CodesOK, IInv, TypeOK, Codes
  <2>5. ASSUME NEW d \in Codes PROVE ~used'[d] => attempts'[d] < MaxAttempts
    BY <2>1, <2>2, <2>3, <2>0, BoundsAssumption DEF IInv, TypeOK, Unspent
  <2>6. QED
    BY <2>4, <2>5 DEF Unspent, Codes
<1>10. ASSUME NEW r \in Requests, RecordFailure(r)
      PROVE  CodesOK' /\ Unspent'
    BY <1>10, CodeRange, BoundsAssumption DEF RecordFailure, Goes, Idle,
        IInv, TypeOK, RequestsOK, RequestOK, Unspent, CodesOK, codeVars
<1>11. ASSUME NEW r \in Requests, InvalidatePendingCodes(r)
      PROVE  CodesOK' /\ Unspent'
    BY <1>11, CodeRange, BoundsAssumption DEF InvalidatePendingCodes, Goes,
        Idle, Rows, IInv, TypeOK, RequestsOK, RequestOK, Unspent, CodesOK,
        codeVars
<1>12. ASSUME NEW r \in Requests, ClearFailures(r)
      PROVE  CodesOK' /\ Unspent'
    BY <1>12, CodeRange, BoundsAssumption DEF ClearFailures, Goes, Idle,
        IInv, TypeOK, RequestsOK, RequestOK, Unspent, CodesOK, codeVars
<1>13. ASSUME NEW r \in Requests, ConsumeShareLinkAccess(r)
      PROVE  CodesOK' /\ Unspent'
    BY <1>13, CodeRange, BoundsAssumption DEF ConsumeShareLinkAccess, Goes,
        Idle, Consumable, IInv, TypeOK, RequestsOK, RequestOK, Unspent, CodesOK,
        codeVars
<1>14. ASSUME NEW r \in Requests, Consume(r)
      PROVE  CodesOK' /\ Unspent'
  <2> DEFINE c == req[r].at
  <2>1. CASE ~Usable(c)
    <3>1. used' = used /\ attempts' = attempts /\ expired' = expired /\ tokens' = tokens
      BY <1>14, <2>1 DEF Consume
    <3>2. QED
      BY <3>1 DEF CodesOK, IInv, TypeOK, Unspent, Codes
  <2>2. CASE Usable(c)
    <3>1. /\ used' = [used EXCEPT ![c] = TRUE] /\ expired' = expired /\ tokens' = tokens
          /\ attempts' = IF mode = "signup"
                         THEN [attempts EXCEPT ![c] = attempts[c] + 1] ELSE attempts
      BY <1>14, <2>2 DEF Consume
    <3>2. ASSUME mode = "signup" PROVE attempts[c] < MaxAttempts
      BY <2>2, <3>2 DEF Usable
    <3>3. CodesOK'
      <4>1. used' \in [Codes -> BOOLEAN]
        BY <3>1 DEF IInv, TypeOK
      <4>2. attempts' \in [Codes -> 0..MaxAttempts]
        <5>1. CASE mode = "signup"
          <6>1. attempts[c] < MaxAttempts
            BY <3>2, <5>1
          <6>2. c \in Codes
            BY <1>14, <5>1 DEF Consume, IInv, RequestsOK, RequestOK
          <6>3. attempts[c] \in 0..MaxAttempts /\ attempts[c] + 1 \in 0..MaxAttempts
            BY <6>1, <6>2, BoundsAssumption DEF IInv, TypeOK
          <6>4. QED
            BY <3>1, <5>1, <6>2, <6>3 DEF IInv, TypeOK
        <5>2. CASE mode # "signup"
          BY <3>1, <5>2 DEF IInv, TypeOK
        <5>3. QED
          BY <5>1, <5>2
      <4>3. QED
        BY <3>1, <4>1, <4>2 DEF CodesOK, IInv, TypeOK, Codes
    <3>4. ASSUME NEW d \in Codes PROVE ~used'[d] => attempts'[d] < MaxAttempts
      BY <3>1, BoundsAssumption DEF IInv, TypeOK, Unspent
    <3>5. QED
      BY <3>3, <3>4 DEF Unspent, Codes
  <2>3. QED
    BY <2>1, <2>2
<1>15. ASSUME NEW r \in Requests, Answer(r)
      PROVE  CodesOK' /\ Unspent'
    BY <1>15, CodeRange, BoundsAssumption DEF Answer, Goes, Idle, IInv,
        TypeOK, RequestsOK, RequestOK, Unspent, CodesOK, codeVars
<1>16. ASSUME NEW r \in Requests, CutOff(r)
      PROVE  CodesOK' /\ Unspent'
    BY <1>16, CodeRange, BoundsAssumption DEF CutOff, Goes, Idle, IInv,
        TypeOK, RequestsOK, RequestOK, Unspent, CodesOK, codeVars
<1>17. ASSUME NEW c \in Codes, ResetPassword(c)
      PROVE  CodesOK' /\ Unspent'
    BY <1>17, CodeRange, BoundsAssumption DEF ResetPassword, SpentAttempts,
        IInv, TypeOK, RequestsOK, RequestOK, Unspent, CodesOK, codeVars
<1>18. ASSUME NEW c \in Codes, CodeExpires(c)
      PROVE  CodesOK' /\ Unspent'
    BY <1>18, CodeRange, BoundsAssumption DEF CodeExpires, IInv, TypeOK,
        RequestsOK, RequestOK, Unspent, CodesOK, codeVars
<1>19. CASE RevokeShareLink
    BY <1>19, CodeRange, BoundsAssumption DEF RevokeShareLink, IInv, TypeOK,
        RequestsOK, RequestOK, Unspent, CodesOK, codeVars
<1>20. CASE LinkExpires
    BY <1>20, CodeRange, BoundsAssumption DEF LinkExpires, IInv, TypeOK,
        RequestsOK, RequestOK, Unspent, CodesOK, codeVars
<1>21. CASE LockExpires
    BY <1>21, CodeRange, BoundsAssumption DEF LockExpires, IInv, TypeOK,
        RequestsOK, RequestOK, Unspent, CodesOK, codeVars
<1>22. CASE UNCHANGED vars
    BY <1>22, CodeRange, BoundsAssumption DEF vars, IInv, TypeOK,
        RequestsOK, RequestOK, Unspent, CodesOK, codeVars
<1>23. QED
    BY <1>1, <1>2, <1>3, <1>4, <1>5, <1>6, <1>7, <1>8, <1>9, <1>10, <1>11,
        <1>12, <1>13, <1>14, <1>15, <1>16, <1>17, <1>18, <1>19, <1>20, <1>21,
        <1>22 DEF Next

\* The requests.
LEMMA RequestsStep ==
    ASSUME IInv, [Next]_vars
    PROVE  RequestsTyped' /\ RequestsOK'
<1>1. ASSUME NEW r \in Requests, RequestCode(r)
      PROVE  RequestsTyped' /\ RequestsOK'
    BY <1>1, CodeRange, BoundsAssumption DEF RequestCode, Goes, Idle,
        BelowLimit, Rows, IInv, TypeOK, RequestsOK, RequestOK, RequestsTyped,
        RequestType, Steps, codeVars
<1>2. ASSUME NEW r \in Requests, InsertCode(r)
      PROVE  RequestsTyped' /\ RequestsOK'
  <2>1. CASE Goes(r, "idle")
    BY <1>2, <2>1, IdleOK, RequestMoves DEF InsertCode, Goes, IInv
  <2>2. CASE req' = [req EXCEPT ![r].pc = "undo", ![r].at = issued + 1]
    <3> DEFINE x == [req[r] EXCEPT !.pc = "undo", !.at = issued + 1]
    <3>1. req' = [req EXCEPT ![r] = x] /\ mode' = mode
      BY <1>2, <2>2 DEF InsertCode, IInv, TypeOK
    <3>2. mode # "anyone" /\ issued + 1 \in Codes
      BY <1>2, CodeRange DEF InsertCode, IInv, RequestsOK, RequestOK
    <3>3. x \in RequestType /\ x.pc = "undo" /\ x.at = issued + 1
      BY <3>2 DEF IInv, TypeOK, RequestType, Steps
    <3>4. RequestOK(x)
      BY <3>2, <3>3 DEF RequestOK
    <3>5. QED
      BY <3>1, <3>3, <3>4, RequestMoves DEF IInv
  <2>3. QED
    BY <1>2, <2>1, <2>2 DEF InsertCode
<1>3. ASSUME NEW r \in Requests, Undo(r)
      PROVE  RequestsTyped' /\ RequestsOK'
    BY <1>3, CodeRange, BoundsAssumption DEF Undo, Goes, Idle, Usable, IInv,
        TypeOK, RequestsOK, RequestOK, RequestsTyped, RequestType, Steps,
        codeVars
<1>4. ASSUME NEW r \in Requests, Arrives(r)
      PROVE  RequestsTyped' /\ RequestsOK'
    BY <1>4, CodeRange, BoundsAssumption DEF Arrives, Goes, Idle, WithLink,
        Rows, IInv, TypeOK, RequestsOK, RequestOK, RequestsTyped, RequestType,
        Steps, codeVars
<1>5. ASSUME NEW r \in Requests, CheckLock(r)
      PROVE  RequestsTyped' /\ RequestsOK'
    BY <1>5, CodeRange, BoundsAssumption DEF CheckLock, Goes, Idle, IInv,
        TypeOK, RequestsOK, RequestOK, RequestsTyped, RequestType, Steps,
        codeVars
<1>6. ASSUME NEW r \in Requests, HasActiveCode(r)
      PROVE  RequestsTyped' /\ RequestsOK'
  <2> DEFINE b == \E c \in Rows : Active(c)
  <2>1. b \in BOOLEAN
    OBVIOUS
  <2>2. req' = [req EXCEPT ![r] = [req[r] EXCEPT !.pc = "match", !.had = b]] /\ mode' = mode
    BY <1>6 DEF HasActiveCode
  <2> HIDE DEF b
  <2> DEFINE x == [req[r] EXCEPT !.pc = "match", !.had = b]
  <2>3. x \in RequestType /\ RequestOK(x)
    <3>1. mode # "anyone"
      BY <1>6 DEF HasActiveCode, IInv, RequestsOK, RequestOK
    <3>2. x \in RequestType /\ x.pc = "match"
      BY <2>1 DEF IInv, TypeOK, RequestType, Steps
    <3>3. QED
      BY <3>1, <3>2 DEF RequestOK
  <2>4. QED
    BY <2>2, <2>3, RequestMoves DEF IInv
<1>7. ASSUME NEW r \in Requests, SelectMatching(r)
      PROVE  RequestsTyped' /\ RequestsOK'
  <2> DEFINE c == req[r].at
             x == [req[r] EXCEPT !.pc = "clear", !.had = FALSE]
             y == [req[r] EXCEPT !.pc = "fail", !.at = 0]
             z == [req[r] EXCEPT !.pc = "latest", !.at = 0]
  <2>1. mode' = mode /\ mode # "anyone"
    BY <1>7 DEF SelectMatching, IInv, RequestsOK, RequestOK
  <2>2. /\ x \in RequestType /\ y \in RequestType /\ z \in RequestType
        /\ x.pc = "clear" /\ x.at = c /\ y.pc = "fail" /\ z.pc = "latest"
    BY DEF IInv, TypeOK, RequestType, Steps
  <2>3. CASE Active(c) /\ attempts[c] < MaxAttempts
    <3>1. req' = [req EXCEPT ![r] = x]
      BY <1>7, <2>3 DEF SelectMatching
    <3>2. c \in Codes
      BY <2>3, CodeRange DEF Active, IInv
    <3>3. QED
      BY <2>1, <2>2, <3>1, <3>2, RequestMoves DEF IInv, RequestOK
  <2>4. CASE Active(c) /\ ~(attempts[c] < MaxAttempts)
    <3>1. req' = [req EXCEPT ![r] = y]
      BY <1>7, <2>4 DEF SelectMatching
    <3>2. QED
      BY <2>1, <2>2, <3>1, RequestMoves DEF IInv, RequestOK
  <2>5. CASE ~Active(c)
    <3>1. req' = [req EXCEPT ![r] = z]
      BY <1>7, <2>5 DEF SelectMatching
    <3>2. QED
      BY <2>1, <2>2, <3>1, RequestMoves DEF IInv, RequestOK
  <2>6. QED
    BY <2>3, <2>4, <2>5
<1>8. ASSUME NEW r \in Requests, SelectLatest(r)
      PROVE  RequestsTyped' /\ RequestsOK'
  <2>1. mode' = mode /\ mode # "anyone"
    BY <1>8 DEF SelectLatest, IInv, RequestsOK, RequestOK
  <2>2. CASE Goes(r, "fail")
    <3> DEFINE x == [req[r] EXCEPT !.pc = "fail"]
    <3>1. req' = [req EXCEPT ![r] = x]
      BY <2>2 DEF Goes
    <3>2. x \in RequestType /\ x.pc = "fail"
      BY DEF IInv, TypeOK, RequestType, Steps
    <3>3. QED
      BY <2>1, <3>1, <3>2, RequestMoves DEF IInv, RequestOK
  <2>3. ASSUME NEW c \in Rows, Latest(c),
               req' = [req EXCEPT ![r].pc = "count", ![r].at = c, ![r].seen = attempts[c]]
        PROVE  RequestsTyped' /\ RequestsOK'
    <3> DEFINE x == [req[r] EXCEPT !.pc = "count", !.at = c, !.seen = attempts[c]]
    <3>1. req' = [req EXCEPT ![r] = x]
      BY <2>3 DEF IInv, TypeOK
    <3>2. c \in Codes /\ ~used[c]
      BY <2>3, CodeRange DEF Latest, Active, IInv
    <3>3. attempts[c] \in 0..MaxAttempts /\ attempts[c] < MaxAttempts
      BY <3>2 DEF IInv, TypeOK, Unspent
    <3>4. x \in RequestType /\ x.pc = "count" /\ x.at = c /\ x.seen = attempts[c]
      BY <3>2, <3>3 DEF IInv, TypeOK, RequestType, Steps
    <3>5. QED
      BY <2>1, <3>1, <3>2, <3>3, <3>4, RequestMoves DEF IInv, RequestOK
  <2>4. QED
    BY <1>8, <2>2, <2>3 DEF SelectLatest
<1>9. ASSUME NEW r \in Requests, RecordFailedAttempt(r)
      PROVE  RequestsTyped' /\ RequestsOK'
  <2> DEFINE x == [req[r] EXCEPT !.pc = "fail", !.at = 0, !.seen = 0]
  <2>1. mode' = mode /\ mode # "anyone"
    BY <1>9 DEF RecordFailedAttempt, IInv, RequestsOK, RequestOK
  <2>2. req' = [req EXCEPT ![r] = x]
    BY <1>9 DEF RecordFailedAttempt, IInv, TypeOK
  <2>0. 0 \in 0..MaxAttempts
    BY BoundsAssumption
  <2>3. x \in RequestType /\ x.pc = "fail"
    BY <2>0 DEF IInv, TypeOK, RequestType, Steps
  <2>4. QED
    BY <2>1, <2>2, <2>3, RequestMoves DEF IInv, RequestOK
<1>10. ASSUME NEW r \in Requests, RecordFailure(r)
      PROVE  RequestsTyped' /\ RequestsOK'
    BY <1>10, CodeRange, BoundsAssumption DEF RecordFailure, Goes, Idle,
        IInv, TypeOK, RequestsOK, RequestOK, RequestsTyped, RequestType, Steps,
        codeVars
<1>11. ASSUME NEW r \in Requests, InvalidatePendingCodes(r)
      PROVE  RequestsTyped' /\ RequestsOK'
    BY <1>11, CodeRange, BoundsAssumption DEF InvalidatePendingCodes, Goes,
        Idle, Rows, IInv, TypeOK, RequestsOK, RequestOK, RequestsTyped,
        RequestType, Steps, codeVars
<1>12. ASSUME NEW r \in Requests, ClearFailures(r)
      PROVE  RequestsTyped' /\ RequestsOK'
    BY <1>12, CodeRange, BoundsAssumption DEF ClearFailures, Goes, Idle,
        IInv, TypeOK, RequestsOK, RequestOK, RequestsTyped, RequestType, Steps,
        codeVars
<1>13. ASSUME NEW r \in Requests, ConsumeShareLinkAccess(r)
      PROVE  RequestsTyped' /\ RequestsOK'
  <2>1. CASE Goes(r, "idle")
    BY <1>13, <2>1, IdleOK, RequestMoves DEF ConsumeShareLinkAccess, Goes, IInv
  <2>2. CASE Goes(r, IF mode = "anyone" THEN "answer" ELSE "consume")
    <3> DEFINE s == IF mode = "anyone" THEN "answer" ELSE "consume"
               x == [req[r] EXCEPT !.pc = s]
    <3>1. req' = [req EXCEPT ![r] = x] /\ mode' = mode
      BY <1>13, <2>2 DEF ConsumeShareLinkAccess, Goes
    <3>2. x \in RequestType /\ x.pc = s /\ x.at = req[r].at
      BY DEF IInv, TypeOK, RequestType, Steps
    <3>3. RequestOK(x)
      BY <1>13, <3>2 DEF ConsumeShareLinkAccess, IInv, RequestsOK, RequestOK
    <3>4. QED
      BY <3>1, <3>2, <3>3, RequestMoves DEF IInv
  <2>3. QED
    BY <1>13, <2>1, <2>2 DEF ConsumeShareLinkAccess
<1>14. ASSUME NEW r \in Requests, Consume(r)
      PROVE  RequestsTyped' /\ RequestsOK'
  <2>1. CASE Goes(r, "idle")
    BY <1>14, <2>1, IdleOK, RequestMoves DEF Consume, Goes, IInv
  <2>2. CASE Goes(r, "answer")
    <3> DEFINE x == [req[r] EXCEPT !.pc = "answer"]
    <3>1. req' = [req EXCEPT ![r] = x] /\ mode' = mode
      BY <1>14, <2>2 DEF Consume, Goes
    <3>2. x \in RequestType /\ x.pc = "answer" /\ x.at = req[r].at
      BY DEF IInv, TypeOK, RequestType, Steps
    <3>3. RequestOK(x)
      BY <1>14, <3>2 DEF Consume, IInv, RequestsOK, RequestOK
    <3>4. QED
      BY <3>1, <3>2, <3>3, RequestMoves DEF IInv
  <2>3. QED
    BY <1>14, <2>1, <2>2 DEF Consume
<1>15. ASSUME NEW r \in Requests, Answer(r)
      PROVE  RequestsTyped' /\ RequestsOK'
    BY <1>15, CodeRange, BoundsAssumption DEF Answer, Goes, Idle, IInv,
        TypeOK, RequestsOK, RequestOK, RequestsTyped, RequestType, Steps,
        codeVars
<1>16. ASSUME NEW r \in Requests, CutOff(r)
      PROVE  RequestsTyped' /\ RequestsOK'
    BY <1>16, CodeRange, BoundsAssumption DEF CutOff, Goes, Idle, IInv,
        TypeOK, RequestsOK, RequestOK, RequestsTyped, RequestType, Steps,
        codeVars
<1>17. ASSUME NEW c \in Codes, ResetPassword(c)
      PROVE  RequestsTyped' /\ RequestsOK'
    BY <1>17, CodeRange, BoundsAssumption DEF ResetPassword, SpentAttempts,
        IInv, TypeOK, RequestsOK, RequestOK, RequestsTyped, RequestType, Steps,
        codeVars
<1>18. ASSUME NEW c \in Codes, CodeExpires(c)
      PROVE  RequestsTyped' /\ RequestsOK'
    BY <1>18, CodeRange, BoundsAssumption DEF CodeExpires, IInv, TypeOK,
        RequestsOK, RequestOK, RequestsTyped, RequestType, Steps, codeVars
<1>19. CASE RevokeShareLink
    BY <1>19, CodeRange, BoundsAssumption DEF RevokeShareLink, IInv, TypeOK,
        RequestsOK, RequestOK, RequestsTyped, RequestType, Steps, codeVars
<1>20. CASE LinkExpires
    BY <1>20, CodeRange, BoundsAssumption DEF LinkExpires, IInv, TypeOK,
        RequestsOK, RequestOK, RequestsTyped, RequestType, Steps, codeVars
<1>21. CASE LockExpires
    BY <1>21, CodeRange, BoundsAssumption DEF LockExpires, IInv, TypeOK,
        RequestsOK, RequestOK, RequestsTyped, RequestType, Steps, codeVars
<1>22. CASE UNCHANGED vars
    BY <1>22, CodeRange, BoundsAssumption DEF vars, IInv, TypeOK,
        RequestsOK, RequestOK, RequestsTyped, RequestType, Steps, codeVars
<1>23. QED
    BY <1>1, <1>2, <1>3, <1>4, <1>5, <1>6, <1>7, <1>8, <1>9, <1>10, <1>11,
        <1>12, <1>13, <1>14, <1>15, <1>16, <1>17, <1>18, <1>19, <1>20, <1>21,
        <1>22 DEF Next

\* The lock and the link.
LEMMA LinkStep ==
    ASSUME IInv, [Next]_vars
    PROVE  LinkOK'
<1>1. ASSUME NEW r \in Requests, RequestCode(r)
      PROVE  LinkOK'
    BY <1>1, BoundsAssumption DEF RequestCode, Goes, Idle, BelowLimit, Rows,
        IInv, TypeOK, LinkOK, lockVars
<1>2. ASSUME NEW r \in Requests, InsertCode(r)
      PROVE  LinkOK'
    BY <1>2, BoundsAssumption DEF InsertCode, Goes, Idle, IInv, TypeOK,
        LinkOK, lockVars
<1>3. ASSUME NEW r \in Requests, Undo(r)
      PROVE  LinkOK'
    BY <1>3, BoundsAssumption DEF Undo, Goes, Idle, Usable, IInv, TypeOK,
        LinkOK, lockVars
<1>4. ASSUME NEW r \in Requests, Arrives(r)
      PROVE  LinkOK'
    BY <1>4, BoundsAssumption DEF Arrives, Goes, Idle, WithLink, Rows, IInv,
        TypeOK, LinkOK, lockVars
<1>5. ASSUME NEW r \in Requests, CheckLock(r)
      PROVE  LinkOK'
    BY <1>5, BoundsAssumption DEF CheckLock, Goes, Idle, IInv, TypeOK,
        LinkOK, lockVars
<1>6. ASSUME NEW r \in Requests, HasActiveCode(r)
      PROVE  LinkOK'
    BY <1>6, BoundsAssumption DEF HasActiveCode, IInv, TypeOK, LinkOK,
        lockVars
<1>7. ASSUME NEW r \in Requests, SelectMatching(r)
      PROVE  LinkOK'
    BY <1>7, BoundsAssumption DEF SelectMatching, Active, Rows, IInv,
        TypeOK, LinkOK, lockVars
<1>8. ASSUME NEW r \in Requests, SelectLatest(r)
      PROVE  LinkOK'
    BY <1>8, BoundsAssumption DEF SelectLatest, Goes, Idle, Latest, Active,
        Rows, IInv, TypeOK, LinkOK, lockVars
<1>9. ASSUME NEW r \in Requests, RecordFailedAttempt(r)
      PROVE  LinkOK'
    BY <1>9, BoundsAssumption DEF RecordFailedAttempt, IInv, TypeOK, LinkOK,
        lockVars
<1>10. ASSUME NEW r \in Requests, RecordFailure(r)
      PROVE  LinkOK'
  <2>1. mode' = mode /\ link' = link
    BY <1>10 DEF RecordFailure
  <2>2. fails \in 0..LockAfter /\ locked \in BOOLEAN /\ (~locked => fails < LockAfter)
    BY DEF IInv, LinkOK
  <2>3. fails' \in 0..LockAfter /\ locked' \in BOOLEAN /\ (~locked' => fails' < LockAfter)
    <3>1. CASE req[r].had /\ ~locked
      <4>1. fails' = fails + 1 /\ (locked' <=> fails + 1 >= LockAfter) /\ locked' \in BOOLEAN
        BY <1>10, <3>1 DEF RecordFailure
      <4>2. QED
        BY <2>2, <3>1, <4>1, BoundsAssumption
    <3>2. CASE ~(req[r].had /\ ~locked)
      <4>1. fails' = fails /\ (locked' <=> locked) /\ locked' \in BOOLEAN
        BY <1>10, <3>2 DEF RecordFailure
      <4>2. QED
        BY <2>2, <4>1
    <3>3. QED
      BY <3>1, <3>2
  <2>4. QED
    BY <2>1, <2>3 DEF IInv, LinkOK
<1>11. ASSUME NEW r \in Requests, InvalidatePendingCodes(r)
      PROVE  LinkOK'
    BY <1>11, BoundsAssumption DEF InvalidatePendingCodes, Goes, Idle, Rows,
        IInv, TypeOK, LinkOK, lockVars
<1>12. ASSUME NEW r \in Requests, ClearFailures(r)
      PROVE  LinkOK'
  <2>1. mode' = mode /\ link' = link /\ fails' = 0 /\ locked' = FALSE
    BY <1>12 DEF ClearFailures
  <2>2. 0 \in 0..LockAfter /\ 0 < LockAfter
    BY BoundsAssumption
  <2>3. QED
    BY <2>1, <2>2 DEF IInv, LinkOK
<1>13. ASSUME NEW r \in Requests, ConsumeShareLinkAccess(r)
      PROVE  LinkOK'
  <2>1. mode' = mode /\ fails' = fails /\ locked' = locked
    BY <1>13 DEF ConsumeShareLinkAccess, lockVars
  <2>2. link' \in [status: {"active", "revoked", "exhausted"},
                  count: 0..MaxAccess, expired: BOOLEAN]
    <3>1. CASE link' = link
      BY <3>1 DEF IInv, LinkOK
    <3>2. CASE /\ Consumable
               /\ link' = [link EXCEPT !.count = link.count + 1,
                                  !.status = IF link.count + 1 >= MaxAccess
                                             THEN "exhausted" ELSE link.status]
      <4>1. link.count + 1 \in 0..MaxAccess
        BY <3>2, BoundsAssumption DEF IInv, LinkOK, Consumable
      <4>2. QED
        BY <3>2, <4>1 DEF IInv, LinkOK
    <3>3. QED
      BY <1>13, <3>1, <3>2 DEF ConsumeShareLinkAccess
  <2>3. QED
    BY <2>1, <2>2 DEF IInv, LinkOK
<1>14. ASSUME NEW r \in Requests, Consume(r)
      PROVE  LinkOK'
    BY <1>14, BoundsAssumption DEF Consume, Goes, Idle, Usable, IInv,
        TypeOK, LinkOK, lockVars
<1>15. ASSUME NEW r \in Requests, Answer(r)
      PROVE  LinkOK'
    BY <1>15, BoundsAssumption DEF Answer, Goes, Idle, IInv, TypeOK, LinkOK,
        lockVars
<1>16. ASSUME NEW r \in Requests, CutOff(r)
      PROVE  LinkOK'
    BY <1>16, BoundsAssumption DEF CutOff, Goes, Idle, IInv, TypeOK, LinkOK,
        lockVars
<1>17. ASSUME NEW c \in Codes, ResetPassword(c)
      PROVE  LinkOK'
    BY <1>17, BoundsAssumption DEF ResetPassword, SpentAttempts, IInv,
        TypeOK, LinkOK, lockVars
<1>18. ASSUME NEW c \in Codes, CodeExpires(c)
      PROVE  LinkOK'
    BY <1>18, BoundsAssumption DEF CodeExpires, IInv, TypeOK, LinkOK,
        lockVars
<1>19. CASE RevokeShareLink
    BY <1>19, BoundsAssumption DEF RevokeShareLink, IInv, TypeOK, LinkOK,
        lockVars
<1>20. CASE LinkExpires
    BY <1>20, BoundsAssumption DEF LinkExpires, IInv, TypeOK, LinkOK,
        lockVars
<1>21. CASE LockExpires
  <2>1. mode' = mode /\ link' = link /\ fails' = 0 /\ locked' = FALSE
    BY <1>21 DEF LockExpires
  <2>2. 0 \in 0..LockAfter /\ 0 < LockAfter
    BY BoundsAssumption
  <2>3. QED
    BY <2>1, <2>2 DEF IInv, LinkOK
<1>22. CASE UNCHANGED vars
    BY <1>22, BoundsAssumption DEF vars, IInv, TypeOK, LinkOK, lockVars
<1>23. QED
    BY <1>1, <1>2, <1>3, <1>4, <1>5, <1>6, <1>7, <1>8, <1>9, <1>10, <1>11,
        <1>12, <1>13, <1>14, <1>15, <1>16, <1>17, <1>18, <1>19, <1>20, <1>21,
        <1>22 DEF Next

\* The history.
LEMMA HistoryTyped ==
    ASSUME IInv, [Next]_vars
    PROVE  HistoryOK'
<1>1. ASSUME NEW r \in Requests, RequestCode(r)
      PROVE  HistoryOK'
    BY <1>1, BoundsAssumption DEF RequestCode, Goes, Idle, BelowLimit, Rows,
        IInv, TypeOK, RequestsOK, RequestOK, HistoryOK, codeHist, linkHist
<1>2. ASSUME NEW r \in Requests, InsertCode(r)
      PROVE  HistoryOK'
    BY <1>2, BoundsAssumption DEF InsertCode, Goes, Idle, IInv, TypeOK,
        RequestsOK, RequestOK, HistoryOK, codeHist, linkHist
<1>3. ASSUME NEW r \in Requests, Undo(r)
      PROVE  HistoryOK'
    BY <1>3, BoundsAssumption DEF Undo, Goes, Idle, Usable, IInv, TypeOK,
        RequestsOK, RequestOK, HistoryOK, codeHist, linkHist
<1>4. ASSUME NEW r \in Requests, Arrives(r)
      PROVE  HistoryOK'
    BY <1>4, BoundsAssumption DEF Arrives, Goes, Idle, WithLink, Rows, IInv,
        TypeOK, RequestsOK, RequestOK, HistoryOK, codeHist, linkHist
<1>5. ASSUME NEW r \in Requests, CheckLock(r)
      PROVE  HistoryOK'
    BY <1>5, BoundsAssumption DEF CheckLock, Goes, Idle, IInv, TypeOK,
        RequestsOK, RequestOK, HistoryOK, codeHist, linkHist
<1>6. ASSUME NEW r \in Requests, HasActiveCode(r)
      PROVE  HistoryOK'
    BY <1>6, BoundsAssumption DEF HasActiveCode, IInv, TypeOK, RequestsOK,
        RequestOK, HistoryOK, codeHist, linkHist
<1>7. ASSUME NEW r \in Requests, SelectMatching(r)
      PROVE  HistoryOK'
    BY <1>7, BoundsAssumption DEF SelectMatching, Active, Rows, IInv,
        TypeOK, RequestsOK, RequestOK, HistoryOK, codeHist, linkHist
<1>8. ASSUME NEW r \in Requests, SelectLatest(r)
      PROVE  HistoryOK'
    BY <1>8, BoundsAssumption DEF SelectLatest, Goes, Idle, Latest, Active,
        Rows, IInv, TypeOK, RequestsOK, RequestOK, HistoryOK, codeHist, linkHist
<1>9. ASSUME NEW r \in Requests, RecordFailedAttempt(r)
      PROVE  HistoryOK'
    BY <1>9, BoundsAssumption DEF RecordFailedAttempt, IInv, TypeOK,
        RequestsOK, RequestOK, HistoryOK, codeHist, linkHist
<1>10. ASSUME NEW r \in Requests, RecordFailure(r)
      PROVE  HistoryOK'
    BY <1>10, BoundsAssumption DEF RecordFailure, Goes, Idle, IInv, TypeOK,
        RequestsOK, RequestOK, HistoryOK, codeHist, linkHist
<1>11. ASSUME NEW r \in Requests, InvalidatePendingCodes(r)
      PROVE  HistoryOK'
    BY <1>11, BoundsAssumption DEF InvalidatePendingCodes, Goes, Idle, Rows,
        IInv, TypeOK, RequestsOK, RequestOK, HistoryOK, codeHist, linkHist
<1>12. ASSUME NEW r \in Requests, ClearFailures(r)
      PROVE  HistoryOK'
    BY <1>12, BoundsAssumption DEF ClearFailures, Goes, Idle, IInv, TypeOK,
        RequestsOK, RequestOK, HistoryOK, codeHist, linkHist
<1>13. ASSUME NEW r \in Requests, ConsumeShareLinkAccess(r)
      PROVE  HistoryOK'
    BY <1>13, BoundsAssumption DEF ConsumeShareLinkAccess, Goes, Idle,
        Consumable, IInv, TypeOK, RequestsOK, RequestOK, HistoryOK, codeHist,
        linkHist
<1>14. ASSUME NEW r \in Requests, Consume(r)
      PROVE  HistoryOK'
    BY <1>14, BoundsAssumption DEF Consume, Goes, Idle, Usable, IInv,
        TypeOK, RequestsOK, RequestOK, HistoryOK, codeHist, linkHist
<1>15. ASSUME NEW r \in Requests, Answer(r)
      PROVE  HistoryOK'
    BY <1>15, BoundsAssumption DEF Answer, Goes, Idle, IInv, TypeOK,
        RequestsOK, RequestOK, HistoryOK, codeHist, linkHist
<1>16. ASSUME NEW r \in Requests, CutOff(r)
      PROVE  HistoryOK'
    BY <1>16, BoundsAssumption DEF CutOff, Goes, Idle, IInv, TypeOK,
        RequestsOK, RequestOK, HistoryOK, codeHist, linkHist
<1>17. ASSUME NEW c \in Codes, ResetPassword(c)
      PROVE  HistoryOK'
    BY <1>17, BoundsAssumption DEF ResetPassword, SpentAttempts, IInv,
        TypeOK, RequestsOK, RequestOK, HistoryOK, codeHist, linkHist
<1>18. ASSUME NEW c \in Codes, CodeExpires(c)
      PROVE  HistoryOK'
    BY <1>18, BoundsAssumption DEF CodeExpires, IInv, TypeOK, RequestsOK,
        RequestOK, HistoryOK, codeHist, linkHist
<1>19. CASE RevokeShareLink
    BY <1>19, BoundsAssumption DEF RevokeShareLink, IInv, TypeOK,
        RequestsOK, RequestOK, HistoryOK, codeHist, linkHist
<1>20. CASE LinkExpires
    BY <1>20, BoundsAssumption DEF LinkExpires, IInv, TypeOK, RequestsOK,
        RequestOK, HistoryOK, codeHist, linkHist
<1>21. CASE LockExpires
    BY <1>21, BoundsAssumption DEF LockExpires, IInv, TypeOK, RequestsOK,
        RequestOK, HistoryOK, codeHist, linkHist
<1>22. CASE UNCHANGED vars
    BY <1>22, BoundsAssumption DEF vars, IInv, TypeOK, RequestsOK,
        RequestOK, HistoryOK, codeHist, linkHist
<1>23. QED
    BY <1>1, <1>2, <1>3, <1>4, <1>5, <1>6, <1>7, <1>8, <1>9, <1>10, <1>11,
        <1>12, <1>13, <1>14, <1>15, <1>16, <1>17, <1>18, <1>19, <1>20, <1>21,
        <1>22 DEF Next

\* What was consumed and reset is what became used and spent.
LEMMA HistoryStep ==
    ASSUME IInv, [Next]_vars
    PROVE  Consumptions' /\ Resets'
<1>1. ASSUME NEW r \in Requests, RequestCode(r)
      PROVE  Consumptions' /\ Resets'
    BY <1>1, BoundsAssumption DEF RequestCode, Goes, Idle, BelowLimit, Rows,
        IInv, TypeOK, RequestsOK, RequestOK, Unspent, Consumptions, Resets,
        codeVars, codeHist
<1>2. ASSUME NEW r \in Requests, InsertCode(r)
      PROVE  Consumptions' /\ Resets'
    BY <1>2, BoundsAssumption DEF InsertCode, Goes, Idle, IInv, TypeOK,
        RequestsOK, RequestOK, Unspent, Consumptions, Resets, codeVars, codeHist
<1>3. ASSUME NEW r \in Requests, Undo(r)
      PROVE  Consumptions' /\ Resets'
    BY <1>3, BoundsAssumption DEF Undo, Goes, Idle, Usable, IInv, TypeOK,
        RequestsOK, RequestOK, Unspent, Consumptions, Resets, codeVars, codeHist
<1>4. ASSUME NEW r \in Requests, Arrives(r)
      PROVE  Consumptions' /\ Resets'
    BY <1>4, BoundsAssumption DEF Arrives, Goes, Idle, WithLink, Rows, IInv,
        TypeOK, RequestsOK, RequestOK, Unspent, Consumptions, Resets, codeVars,
        codeHist
<1>5. ASSUME NEW r \in Requests, CheckLock(r)
      PROVE  Consumptions' /\ Resets'
    BY <1>5, BoundsAssumption DEF CheckLock, Goes, Idle, IInv, TypeOK,
        RequestsOK, RequestOK, Unspent, Consumptions, Resets, codeVars, codeHist
<1>6. ASSUME NEW r \in Requests, HasActiveCode(r)
      PROVE  Consumptions' /\ Resets'
    BY <1>6, BoundsAssumption DEF HasActiveCode, IInv, TypeOK, RequestsOK,
        RequestOK, Unspent, Consumptions, Resets, codeVars, codeHist
<1>7. ASSUME NEW r \in Requests, SelectMatching(r)
      PROVE  Consumptions' /\ Resets'
    BY <1>7, BoundsAssumption DEF SelectMatching, Active, Rows, IInv,
        TypeOK, RequestsOK, RequestOK, Unspent, Consumptions, Resets, codeVars,
        codeHist
<1>8. ASSUME NEW r \in Requests, SelectLatest(r)
      PROVE  Consumptions' /\ Resets'
    BY <1>8, BoundsAssumption DEF SelectLatest, Goes, Idle, Latest, Active,
        Rows, IInv, TypeOK, RequestsOK, RequestOK, Unspent, Consumptions,
        Resets, codeVars, codeHist
<1>9. ASSUME NEW r \in Requests, RecordFailedAttempt(r)
      PROVE  Consumptions' /\ Resets'
    BY <1>9, BoundsAssumption DEF RecordFailedAttempt, IInv, TypeOK,
        RequestsOK, RequestOK, Unspent, Consumptions, Resets, codeVars, codeHist
<1>10. ASSUME NEW r \in Requests, RecordFailure(r)
      PROVE  Consumptions' /\ Resets'
    BY <1>10, BoundsAssumption DEF RecordFailure, Goes, Idle, IInv, TypeOK,
        RequestsOK, RequestOK, Unspent, Consumptions, Resets, codeVars, codeHist
<1>11. ASSUME NEW r \in Requests, InvalidatePendingCodes(r)
      PROVE  Consumptions' /\ Resets'
    BY <1>11, BoundsAssumption DEF InvalidatePendingCodes, Goes, Idle, Rows,
        IInv, TypeOK, RequestsOK, RequestOK, Unspent, Consumptions, Resets,
        codeVars, codeHist
<1>12. ASSUME NEW r \in Requests, ClearFailures(r)
      PROVE  Consumptions' /\ Resets'
    BY <1>12, BoundsAssumption DEF ClearFailures, Goes, Idle, IInv, TypeOK,
        RequestsOK, RequestOK, Unspent, Consumptions, Resets, codeVars, codeHist
<1>13. ASSUME NEW r \in Requests, ConsumeShareLinkAccess(r)
      PROVE  Consumptions' /\ Resets'
    BY <1>13, BoundsAssumption DEF ConsumeShareLinkAccess, Goes, Idle,
        Consumable, IInv, TypeOK, RequestsOK, RequestOK, Unspent, Consumptions,
        Resets, codeVars, codeHist
<1>14. ASSUME NEW r \in Requests, Consume(r)
      PROVE  Consumptions' /\ Resets'
    BY <1>14, BoundsAssumption DEF Consume, Goes, Idle, Usable, IInv,
        TypeOK, RequestsOK, RequestOK, Unspent, Consumptions, Resets, codeVars,
        codeHist
<1>15. ASSUME NEW r \in Requests, Answer(r)
      PROVE  Consumptions' /\ Resets'
    BY <1>15, BoundsAssumption DEF Answer, Goes, Idle, IInv, TypeOK,
        RequestsOK, RequestOK, Unspent, Consumptions, Resets, codeVars, codeHist
<1>16. ASSUME NEW r \in Requests, CutOff(r)
      PROVE  Consumptions' /\ Resets'
    BY <1>16, BoundsAssumption DEF CutOff, Goes, Idle, IInv, TypeOK,
        RequestsOK, RequestOK, Unspent, Consumptions, Resets, codeVars, codeHist
<1>17. ASSUME NEW c \in Codes, ResetPassword(c)
      PROVE  Consumptions' /\ Resets'
    BY <1>17, BoundsAssumption DEF ResetPassword, SpentAttempts, IInv,
        TypeOK, RequestsOK, RequestOK, Unspent, Consumptions, Resets, codeVars,
        codeHist
<1>18. ASSUME NEW c \in Codes, CodeExpires(c)
      PROVE  Consumptions' /\ Resets'
    BY <1>18, BoundsAssumption DEF CodeExpires, IInv, TypeOK, RequestsOK,
        RequestOK, Unspent, Consumptions, Resets, codeVars, codeHist
<1>19. CASE RevokeShareLink
    BY <1>19, BoundsAssumption DEF RevokeShareLink, IInv, TypeOK,
        RequestsOK, RequestOK, Unspent, Consumptions, Resets, codeVars, codeHist
<1>20. CASE LinkExpires
    BY <1>20, BoundsAssumption DEF LinkExpires, IInv, TypeOK, RequestsOK,
        RequestOK, Unspent, Consumptions, Resets, codeVars, codeHist
<1>21. CASE LockExpires
    BY <1>21, BoundsAssumption DEF LockExpires, IInv, TypeOK, RequestsOK,
        RequestOK, Unspent, Consumptions, Resets, codeVars, codeHist
<1>22. CASE UNCHANGED vars
    BY <1>22, BoundsAssumption DEF vars, IInv, TypeOK, RequestsOK,
        RequestOK, Unspent, Consumptions, Resets, codeVars, codeHist
<1>23. QED
    BY <1>1, <1>2, <1>3, <1>4, <1>5, <1>6, <1>7, <1>8, <1>9, <1>10, <1>11,
        <1>12, <1>13, <1>14, <1>15, <1>16, <1>17, <1>18, <1>19, <1>20, <1>21,
        <1>22 DEF Next

\* A counted access changes hands.
LEMMA AccountStep ==
    ASSUME IInv, [Next]_vars
    PROVE  Accounts'
<1>1. ASSUME NEW r \in Requests, RequestCode(r)
      PROVE  Accounts'
  <2>1. Moved(r)
    BY <1>1, OneMoves DEF IInv, RequestStep
  <2>2. QED
    BY <1>1, <2>1, BoundsAssumption DEF RequestCode, Goes, Idle, BelowLimit,
        Rows, Moved, IInv, TypeOK, RequestsOK, RequestOK, Accounts, WithLink,
        linkHist
<1>2. ASSUME NEW r \in Requests, InsertCode(r)
      PROVE  Accounts'
  <2>1. Moved(r)
    BY <1>2, OneMoves DEF IInv, RequestStep
  <2>2. QED
    BY <1>2, <2>1, BoundsAssumption DEF InsertCode, Goes, Idle, Moved, IInv,
        TypeOK, RequestsOK, RequestOK, Accounts, WithLink, linkHist
<1>3. ASSUME NEW r \in Requests, Undo(r)
      PROVE  Accounts'
  <2>1. Moved(r)
    BY <1>3, OneMoves DEF IInv, RequestStep
  <2>2. QED
    BY <1>3, <2>1, BoundsAssumption DEF Undo, Goes, Idle, Usable, Moved, IInv,
        TypeOK, RequestsOK, RequestOK, Accounts, WithLink, linkHist
<1>4. ASSUME NEW r \in Requests, Arrives(r)
      PROVE  Accounts'
  <2>1. Moved(r)
    BY <1>4, OneMoves DEF IInv, RequestStep
  <2>2. QED
    BY <1>4, <2>1, BoundsAssumption DEF Arrives, Goes, Idle, WithLink, Rows,
        Moved, IInv, TypeOK, RequestsOK, RequestOK, Accounts, WithLink, linkHist
<1>5. ASSUME NEW r \in Requests, CheckLock(r)
      PROVE  Accounts'
  <2>1. Moved(r)
    BY <1>5, OneMoves DEF IInv, RequestStep
  <2>2. QED
    BY <1>5, <2>1, BoundsAssumption DEF CheckLock, Goes, Idle, Moved, IInv,
        TypeOK, RequestsOK, RequestOK, Accounts, WithLink, linkHist
<1>6. ASSUME NEW r \in Requests, HasActiveCode(r)
      PROVE  Accounts'
  <2>1. Moved(r)
    BY <1>6, OneMoves DEF IInv, RequestStep
  <2>2. QED
    BY <1>6, <2>1, BoundsAssumption DEF HasActiveCode, Moved, IInv, TypeOK,
        RequestsOK, RequestOK, Accounts, WithLink, linkHist
<1>7. ASSUME NEW r \in Requests, SelectMatching(r)
      PROVE  Accounts'
  <2>1. Moved(r)
    BY <1>7, OneMoves DEF IInv, RequestStep
  <2>2. QED
    BY <1>7, <2>1, BoundsAssumption DEF SelectMatching, Active, Rows, Moved,
        IInv, TypeOK, RequestsOK, RequestOK, Accounts, WithLink, linkHist
<1>8. ASSUME NEW r \in Requests, SelectLatest(r)
      PROVE  Accounts'
  <2>1. Moved(r)
    BY <1>8, OneMoves DEF IInv, RequestStep
  <2>2. req'[r].pc \in {"fail", "count"} /\ req[r].pc = "latest"
    <3>1. ASSUME Goes(r, "fail") PROVE req'[r].pc = "fail"
      BY <3>1 DEF Goes, IInv, TypeOK
    <3>2. ASSUME NEW c, req' = [req EXCEPT ![r].pc = "count", ![r].at = c,
                                            ![r].seen = attempts[c]]
          PROVE  req'[r].pc = "count"
      BY <3>2 DEF IInv, TypeOK
    <3>3. QED
      BY <1>8, <3>1, <3>2 DEF SelectLatest
  <2>3. UNCHANGED <<mode, codeVars, link, linkHist>>
    BY <1>8 DEF SelectLatest
  <2>4. QED
    BY <1>8, <2>1, <2>2, <2>3, BoundsAssumption DEF Moved, codeVars, IInv,
        TypeOK, RequestsOK, RequestOK, Accounts, WithLink, linkHist
<1>9. ASSUME NEW r \in Requests, RecordFailedAttempt(r)
      PROVE  Accounts'
  <2>1. Moved(r)
    BY <1>9, OneMoves DEF IInv, RequestStep
  <2>2. QED
    BY <1>9, <2>1, BoundsAssumption DEF RecordFailedAttempt, Moved, IInv,
        TypeOK, RequestsOK, RequestOK, Accounts, WithLink, linkHist
<1>10. ASSUME NEW r \in Requests, RecordFailure(r)
      PROVE  Accounts'
  <2>1. Moved(r)
    BY <1>10, OneMoves DEF IInv, RequestStep
  <2>2. QED
    BY <1>10, <2>1, BoundsAssumption DEF RecordFailure, Goes, Idle, Moved, IInv,
        TypeOK, RequestsOK, RequestOK, Accounts, WithLink, linkHist
<1>11. ASSUME NEW r \in Requests, InvalidatePendingCodes(r)
      PROVE  Accounts'
  <2>1. Moved(r)
    BY <1>11, OneMoves DEF IInv, RequestStep
  <2>2. QED
    BY <1>11, <2>1, BoundsAssumption DEF InvalidatePendingCodes, Goes, Idle,
        Rows, Moved, IInv, TypeOK, RequestsOK, RequestOK, Accounts, WithLink,
        linkHist
<1>12. ASSUME NEW r \in Requests, ClearFailures(r)
      PROVE  Accounts'
  <2>1. Moved(r)
    BY <1>12, OneMoves DEF IInv, RequestStep
  <2>2. QED
    BY <1>12, <2>1, BoundsAssumption DEF ClearFailures, Goes, Idle, Moved, IInv,
        TypeOK, RequestsOK, RequestOK, Accounts, WithLink, linkHist
<1>13. ASSUME NEW r \in Requests, ConsumeShareLinkAccess(r)
      PROVE  Accounts'
  <2>1. Moved(r)
    BY <1>13, OneMoves DEF IInv, RequestStep
  <2>2. req[r].pc = "access" /\ granted' = granted /\ lost' = lost /\ mode' = mode
        /\ granted \in Nat /\ lost \in Nat /\ link.count \in Nat
    BY <1>13 DEF ConsumeShareLinkAccess, linkHist, IInv, TypeOK
  <2>3. CASE link' = link /\ Goes(r, "idle")
    <3>1. req'[r].pc = "idle"
      BY <2>3 DEF Goes, Idle, IInv, TypeOK
    <3>2. QED
      BY <2>1, <2>2, <2>3, <3>1 DEF Moved, IInv, Accounts, WithLink
  <2>4. CASE Consumable /\ ~(link' = link /\ Goes(r, "idle"))
    <3>1. link'.count = link.count + 1
      BY <1>13, <2>4 DEF ConsumeShareLinkAccess, IInv, TypeOK
    <3>2. req'[r].pc \in {"answer", "consume"}
      BY <1>13, <2>4 DEF ConsumeShareLinkAccess, Goes, IInv, TypeOK
    <3>3. QED
      BY <2>1, <2>2, <3>1, <3>2 DEF Moved, IInv, Accounts, WithLink
  <2>5. QED
    BY <1>13, <2>3, <2>4 DEF ConsumeShareLinkAccess
<1>14. ASSUME NEW r \in Requests, Consume(r)
      PROVE  Accounts'
  <2>1. Moved(r)
    BY <1>14, OneMoves DEF IInv, RequestStep
  <2>2. QED
    BY <1>14, <2>1, BoundsAssumption DEF Consume, Goes, Idle, Usable, Moved,
        IInv, TypeOK, RequestsOK, RequestOK, Accounts, WithLink, linkHist
<1>15. ASSUME NEW r \in Requests, Answer(r)
      PROVE  Accounts'
  <2>1. Moved(r)
    BY <1>15, OneMoves DEF IInv, RequestStep
  <2>2. QED
    BY <1>15, <2>1, BoundsAssumption DEF Answer, Goes, Idle, Moved, IInv,
        TypeOK, RequestsOK, RequestOK, Accounts, WithLink, linkHist
<1>16. ASSUME NEW r \in Requests, CutOff(r)
      PROVE  Accounts'
  <2>1. Moved(r)
    BY <1>16, OneMoves DEF IInv, RequestStep
  <2>2. QED
    BY <1>16, <2>1, BoundsAssumption DEF CutOff, Goes, Idle, Moved, IInv,
        TypeOK, RequestsOK, RequestOK, Accounts, WithLink, linkHist
<1>17. ASSUME NEW c \in Codes, ResetPassword(c)
      PROVE  Accounts'
    BY <1>17 DEF ResetPassword, SpentAttempts, IInv, Accounts, WithLink,
        Counted, linkHist
<1>18. ASSUME NEW c \in Codes, CodeExpires(c)
      PROVE  Accounts'
    BY <1>18 DEF CodeExpires, IInv, Accounts, WithLink, Counted, linkHist
<1>19. CASE RevokeShareLink
    BY <1>19 DEF RevokeShareLink, IInv, Accounts, WithLink, Counted,
        linkHist
<1>20. CASE LinkExpires
    BY <1>20 DEF LinkExpires, IInv, Accounts, WithLink, Counted, linkHist
<1>21. CASE LockExpires
    BY <1>21 DEF LockExpires, IInv, Accounts, WithLink, Counted, linkHist
<1>22. CASE UNCHANGED vars
    BY <1>22 DEF vars, IInv, Accounts, WithLink, Counted, linkHist
<1>23. QED
    BY <1>1, <1>2, <1>3, <1>4, <1>5, <1>6, <1>7, <1>8, <1>9, <1>10, <1>11,
        <1>12, <1>13, <1>14, <1>15, <1>16, <1>17, <1>18, <1>19, <1>20, <1>21,
        <1>22 DEF Next

-----------------------------------------------------------------------------
(* Theorems                                                                *)

\* The strengthened invariant holds initially and is kept by every step.
THEOREM Invariance == Spec => []IInv
<1>1. Init => IInv
  <2> SUFFICES ASSUME Init PROVE IInv
    OBVIOUS
  <2>1. Inserting = {} /\ Counted = {}
    BY DEF Init, Idle, Inserting, Counted
  <2>2. Cardinality(Inserting) = 0 /\ Cardinality(Counted) = 0
    BY <2>1, FS_EmptySet
  <2>3. TypeOK /\ LinkOK
    <3>1. /\ 0 \in 0..(MaxCodes + Cardinality(Requests) - 1)
          /\ 0 \in 0..MaxAttempts /\ 0 \in 0..LockAfter /\ 0 < LockAfter
          /\ 0 \in 0..MaxAccess
      BY RequestCount, BoundsAssumption
    <3>2. CodesOK /\ LinkOK /\ HistoryOK
      BY <3>1 DEF Init, CodesOK, LinkOK, HistoryOK
    <3>3. RequestsTyped
      BY IdleOK DEF Init, RequestsTyped
    <3>4. QED
      BY <3>1, <3>2, <3>3
         DEF Init, TypeOK, CodesOK, RequestsTyped, RequestType, LinkOK, HistoryOK
  <2>4. RequestsOK /\ Unspent
    BY BoundsAssumption DEF Init, Idle, RequestsOK, RequestOK, Unspent
  <2>5. CodesLimited
    BY <2>2, RequestCount, BoundsAssumption DEF Init, CodesLimited
  <2>6. Consumptions /\ Resets /\ Accounts
    BY <2>2, BoundsAssumption DEF Init, Consumptions, Resets, Accounts
  <2>7. QED
    BY <2>3, <2>4, <2>5, <2>6 DEF IInv
<1>2. IInv /\ [Next]_vars => IInv'
  <2> SUFFICES ASSUME IInv, [Next]_vars PROVE IInv'
    OBVIOUS
  <2>1. issued' \in Nat /\ CodesLimited'
    BY LimitStep
  <2>2. issued' <= MaxCodes + Cardinality(Requests) - 1
    <3>1. Cardinality(Inserting') \in Nat
      <4>1. Inserting' \in SUBSET Requests
        BY DEF Inserting
      <4>2. QED
        BY <4>1, FS_Subset, FS_CardinalityType, BoundsAssumption
    <3>2. QED
      BY <2>1, <3>1, RequestCount, BoundsAssumption DEF CodesLimited
  <2>3. TypeOK' /\ LinkOK' /\ RequestsOK' /\ Unspent'
    <3>1. issued' \in 0..(MaxCodes + Cardinality(Requests) - 1)
      BY <2>1, <2>2, RequestCount, BoundsAssumption
    <3>2. QED
      BY <3>1, CodesStep, RequestsStep, LinkStep, HistoryTyped
         DEF TypeOK, CodesOK, RequestsTyped, RequestType, LinkOK, HistoryOK
  <2>4. Consumptions' /\ Resets'
    BY HistoryStep
  <2>5. Accounts'
    BY AccountStep
  <2>6. QED
    BY <2>1, <2>3, <2>4, <2>5 DEF IInv
<1>3. QED
  BY <1>1, <1>2, PTL DEF Spec

\* Every variable keeps its type, and with it the limits hold that the handlers
\* enforce by comparing before they write: the number of codes of an address
\* (a request can insert one over the limit for each concurrent other), the
\* attempts of a code, the failures of an address, the accesses of a link.
THEOREM TypeCorrect == Spec => []TypeOK
<1>1. IInv => TypeOK
  BY DEF IInv
<1>2. QED
  BY <1>1, Invariance, PTL

\* However many requests open the link at once, each counted access is one
\* payload, one failed request or one still on its way.
THEOREM AccessAlwaysAccounted == Spec => []AccessAccounted
<1>1. IInv => AccessAccounted
  <2> SUFFICES ASSUME IInv, WithLink
               PROVE  /\ link.count = granted + lost + Cardinality(Counted)
                      /\ granted <= MaxAccess
    BY DEF AccessAccounted
  <2>1. Cardinality(Counted) \in Nat
    <3>1. Counted \in SUBSET Requests
      BY DEF Counted
    <3>2. QED
      BY <3>1, FS_Subset, FS_CardinalityType, BoundsAssumption
  <2>2. link.count = granted + lost + Cardinality(Counted)
    BY DEF IInv, Accounts
  <2>3. link.count \in 0..MaxAccess /\ granted \in Nat /\ lost \in Nat
    BY DEF IInv, TypeOK
  <2>4. QED
    BY <2>1, <2>2, <2>3, BoundsAssumption
<1>2. QED
  BY <1>1, Invariance, PTL

\* A code is consumed once, and once more for each time a failed attempt wrote
\* its used_at back to NULL.
THEOREM AlwaysConsumedOnce == Spec => []ConsumedOnce
<1>1. IInv => ConsumedOnce
  BY DEF IInv, TypeOK, Consumptions, ConsumedOnce
<1>2. QED
  BY <1>1, Invariance, PTL

\* The same for the resets a recovery code is good for.
THEOREM AlwaysResetOnce == Spec => []ResetOnce
<1>1. IInv => ResetOnce
  BY DEF IInv, TypeOK, Resets, ResetOnce
<1>2. QED
  BY <1>1, Invariance, PTL

\* A revoked link stays revoked and counts no access.
THEOREM RevocationStops == Spec => RevokedStops
<1>1. ASSUME TypeOK, [Next]_vars, link.status = "revoked"
      PROVE  link'.status = "revoked" /\ link'.count = link.count
  <2>1. CASE link' = link
    BY <1>1, <2>1
  <2>2. ASSUME NEW r \in Requests, ConsumeShareLinkAccess(r) PROVE link' = link
    BY <1>1, <2>2 DEF ConsumeShareLinkAccess, Consumable
  <2>3. CASE RevokeShareLink \/ LinkExpires
    BY <1>1, <2>3 DEF RevokeShareLink, LinkExpires, TypeOK
  <2>4. QED
    BY <1>1, <2>1, <2>2, <2>3
       DEF Next, vars, RequestCode, InsertCode, Undo, Arrives, CheckLock, HasActiveCode,
           SelectMatching, SelectLatest, RecordFailedAttempt, RecordFailure,
           InvalidatePendingCodes, ClearFailures, Consume, Answer, CutOff,
           ResetPassword, CodeExpires, LockExpires
<1>2. TypeOK /\ [Next]_vars
      => [link.status = "revoked" => link'.status = "revoked" /\ link'.count = link.count]_vars
  BY <1>1
<1>3. QED
  BY <1>2, TypeCorrect, PTL DEF Spec, RevokedStops

=============================================================================
