------------------------- MODULE VerificationCodes -------------------------
(***************************************************************************)
(* E-mailed verification codes and the share link they open.               *)
(*                                                                         *)
(* One address and one use of its codes (mode): signing up, recovering an  *)
(* account, opening an e-mail restricted share link; the fourth mode is    *)
(* the link that anyone may open, which takes no code.  Handlers run one   *)
(* autocommitted statement at a time, so requests interleave between any   *)
(* two, and a request may be cut off between any two.                      *)
(*                                                                         *)
(* A failed attempt is a SELECT and an UPDATE of both attempts and used_at *)
(* by id, from the row as it was read: it can undo what others wrote in    *)
(* between.  revived counts how often that gave a used code back.          *)
(***************************************************************************)
EXTENDS Naturals, FiniteSets

CONSTANTS
    Requests,    \* handler invocations in flight
    Modes,       \* subset of "signup", "recovery", "email", "anyone"
    MaxCodes,    \* MAX_VERIFICATION_CODES_PER_EMAIL; a bound in other modes
    MaxAttempts, \* max_attempts of a code
    LockAfter,   \* failures that lock the address
    MaxAccess    \* max_access_count of the link, 1 for one-time use

ASSUME BoundsAssumption ==
    /\ MaxCodes \in Nat \ {0} /\ MaxAttempts \in Nat \ {0}
    /\ LockAfter \in Nat \ {0} /\ MaxAccess \in Nat \ {0}
    /\ IsFiniteSet(Requests)
    /\ Modes \subseteq {"signup", "recovery", "email", "anyone"}

VARIABLES
    mode,       \* what the codes are for
    issued,     \* codes 1..issued are rows, in the order of created_at
    attempts, used, expired,    \* their columns
    fails, locked,              \* the rate limiter's entry for the address
    link,       \* status, access_count and expiry of the share link
    req,        \* per request: the statement it runs next (pc), the code it
                \* was sent and then the row it works on (at), had_active_code
                \* (had) and the attempts of the row as it was read (seen)
    tokens,     \* codes for which a recovery token was handed out
    consumed, revived, resets,  \* history, per code
    granted, lost               \* history: counted accesses by their end

codeVars == <<issued, attempts, used, expired>>
lockVars == <<fails, locked>>
codeHist == <<consumed, revived, resets>>
linkHist == <<granted, lost>>
vars == <<mode, codeVars, lockVars, link, req, tokens, codeHist, linkHist>>

\* Requests that counted the codes before one another's insert exceed the limit.
Codes == 1..(MaxCodes + Cardinality(Requests))
Steps == {"idle", "lock", "active", "match", "latest", "count", "fail",
          "invalidate", "clear", "access", "consume", "answer", "insert", "undo"}
WithLink == mode \in {"email", "anyone"}

\* A slot that handles nothing.
Idle == [pc |-> "idle", at |-> 0, had |-> FALSE, seen |-> 0]

TypeOK ==
    /\ mode \in Modes
    /\ issued \in 0..(MaxCodes + Cardinality(Requests) - 1)
    /\ attempts \in [Codes -> 0..MaxAttempts]
    /\ used \in [Codes -> BOOLEAN] /\ expired \in [Codes -> BOOLEAN]
    /\ fails \in 0..LockAfter /\ locked \in BOOLEAN
    /\ link \in [status: {"active", "revoked", "exhausted"},
                 count: 0..MaxAccess, expired: BOOLEAN]
    /\ req \in [Requests -> [pc: Steps, at: Codes \cup {0},
                            had: BOOLEAN, seen: 0..MaxAttempts]]
    /\ tokens \subseteq Codes
    /\ consumed \in [Codes -> Nat] /\ revived \in [Codes -> Nat]
    /\ resets \in [Codes -> Nat]
    /\ granted \in Nat /\ lost \in Nat

Init ==
    /\ mode \in Modes
    /\ issued = 0
    /\ attempts = [c \in Codes |-> 0]
    /\ used = [c \in Codes |-> FALSE] /\ expired = [c \in Codes |-> FALSE]
    /\ fails = 0 /\ locked = FALSE
    /\ link = [status |-> "active", count |-> 0, expired |-> FALSE]
    /\ req = [r \in Requests |-> Idle]
    /\ tokens = {}
    /\ consumed = [c \in Codes |-> 0] /\ revived = [c \in Codes |-> 0]
    /\ resets = [c \in Codes |-> 0]
    /\ granted = 0 /\ lost = 0

-----------------------------------------------------------------------------
(* Helpers                                                                 *)

Rows == 1..issued

\* expires_at > now AND used_at IS NULL
Active(c) == c \in Rows /\ ~expired[c] /\ ~used[c]

\* ORDER BY created_at DESC LIMIT 1
Latest(c) == Active(c) /\ \A d \in Rows : Active(d) => d <= c

\* get_public_share_state answers valid.
LinkOpen == link.status # "revoked" /\ ~link.expired /\ link.count < MaxAccess

Goes(r, step) ==
    req' = [req EXCEPT ![r] = IF step = "idle" THEN Idle ELSE [@ EXCEPT !.pc = step]]

-----------------------------------------------------------------------------
(* Issuing a code                                                          *)

\* Mutant: one code more than the limit.
BelowLimit_OffByOne == issued <= MaxCodes

\* total_codes < MAX_VERIFICATION_CODES_PER_EMAIL; for the other two purposes
\* a bound of the model.
BelowLimit == issued < MaxCodes

\* request_email_verification checks the link and counts the codes of the
\* address; the other two purposes invalidate the codes issued before.
RequestCode(r) ==
    /\ req[r].pc = "idle" /\ mode # "anyone"
    /\ BelowLimit
    /\ mode = "email" => LinkOpen
    /\ used' = IF mode = "email" THEN used
               ELSE [c \in Codes |-> used[c] \/ c \in Rows]
    /\ Goes(r, "insert")
    /\ UNCHANGED <<mode, tokens, issued, attempts, expired, lockVars, link,
                   codeHist, linkHist>>

\* INSERT, then deliver_code, which answers at once: delivered or not.
InsertCode(r) ==
    /\ req[r].pc = "insert"
    /\ issued' = issued + 1
    /\ \/ Goes(r, "idle")
       \/ req' = [req EXCEPT ![r].pc = "undo", ![r].at = issued + 1]
    /\ UNCHANGED <<mode, tokens, attempts, used, expired, lockVars, link,
                   codeHist, linkHist>>

-----------------------------------------------------------------------------
(* Checking a code: verify_with_lockout                                    *)

\* A request arrives with a code; for a link, the link is loaded first.
Arrives(r) ==
    /\ req[r].pc = "idle"
    /\ WithLink => LinkOpen
    /\ \/ mode = "anyone" /\ Goes(r, "access")
       \/ /\ mode # "anyone"
          /\ \E c \in Rows \cup {0} :
                req' = [req EXCEPT ![r].pc = "lock", ![r].at = c]
    /\ UNCHANGED <<mode, tokens, codeVars, lockVars, link, codeHist, linkHist>>

\* limiter.is_locked
CheckLock(r) ==
    /\ req[r].pc = "lock"
    /\ Goes(r, IF locked THEN "idle" ELSE "active")
    /\ UNCHANGED <<mode, tokens, codeVars, lockVars, link, codeHist, linkHist>>

HasActiveCode(r) ==
    /\ req[r].pc = "active"
    /\ req' = [req EXCEPT ![r].pc = "match",
                          ![r].had = \E c \in Rows : Active(c)]
    /\ UNCHANGED <<mode, tokens, codeVars, lockVars, link, codeHist, linkHist>>

\* The first SELECT of verify_*: the row with this code.  (What a request has
\* no further use for is forgotten, here and below.)
SelectMatching(r) ==
    LET c == req[r].at
        valid == Active(c) /\ attempts[c] < MaxAttempts
    IN  /\ req[r].pc = "match"
        /\ req' = [req EXCEPT ![r] =
                     IF valid THEN [@ EXCEPT !.pc = "clear", !.had = FALSE]
                     ELSE [@ EXCEPT !.pc = IF Active(c) THEN "fail" ELSE "latest",
                                    !.at = 0]]
        /\ UNCHANGED <<mode, tokens, codeVars, lockVars, link, codeHist, linkHist>>

\* The second SELECT: the row whose attempts a wrong code is counted on.
SelectLatest(r) ==
    /\ req[r].pc = "latest"
    /\ \/ /\ ~\E c \in Rows : Active(c)
          /\ Goes(r, "fail")
       \/ \E c \in Rows :
             /\ Latest(c)
             /\ req' = [req EXCEPT ![r].pc = "count", ![r].at = c,
                                   ![r].seen = attempts[c]]
    /\ UNCHANGED <<mode, tokens, codeVars, lockVars, link, codeHist, linkHist>>

\* record_failed_*_attempt writes attempts and used_at from the row as read.
RecordFailedAttempt(r) ==
    LET c == req[r].at
        last == req[r].seen + 1 >= MaxAttempts
    IN  /\ req[r].pc = "count"
        /\ attempts' = [attempts EXCEPT ![c] = req[r].seen + 1]
        /\ used' = [used EXCEPT ![c] = last]
        /\ revived' = [revived EXCEPT ![c] = IF used[c] /\ ~last THEN @ + 1 ELSE @]
        /\ req' = [req EXCEPT ![r].pc = "fail", ![r].at = 0, ![r].seen = 0]
        /\ UNCHANGED <<mode, tokens, issued, expired, lockVars, link,
                       consumed, resets, linkHist>>

\* The code was wrong: limiter.record_failure, if a code had been active.
RecordFailure(r) ==
    /\ req[r].pc = "fail"
    /\ LET counts == req[r].had /\ ~locked
           locks  == counts /\ fails + 1 >= LockAfter
       IN  /\ fails' = IF counts THEN fails + 1 ELSE fails
           /\ locked' = (locked \/ locks)
           /\ Goes(r, IF req[r].had /\ (locked \/ locks) THEN "invalidate" ELSE "idle")
    /\ UNCHANGED <<mode, tokens, codeVars, link, codeHist, linkHist>>

InvalidatePendingCodes(r) ==
    /\ req[r].pc = "invalidate"
    /\ used' = [c \in Codes |-> used[c] \/ c \in Rows]
    /\ Goes(r, "idle")
    /\ UNCHANGED <<mode, tokens, issued, attempts, expired, lockVars, link,
                   codeHist, linkHist>>

\* The code was right: limiter.clear.
ClearFailures(r) ==
    /\ req[r].pc = "clear"
    /\ fails' = 0 /\ locked' = FALSE
    /\ Goes(r, IF mode = "email" THEN "access" ELSE "consume")
    /\ UNCHANGED <<mode, tokens, codeVars, link, codeHist, linkHist>>

-----------------------------------------------------------------------------
(* Using it                                                                *)

\* Mutant: nothing is compared, as the link was open when it was loaded.
Consumable_AsLoaded == TRUE
\* Mutant: the count is compared, the status is not.
Consumable_Revoked == link.count < MaxAccess

\* The WHERE clause of consume_share_link_access.  An e-mail restricted link is
\* compared with the time taken when it was loaded, at which it was open.
Consumable ==
    /\ link.status = "active"
    /\ mode = "anyone" => ~link.expired
    /\ link.count < MaxAccess

ConsumeShareLinkAccess(r) ==
    /\ req[r].pc = "access"
    /\ \/ /\ ~Consumable
          /\ link' = link
          /\ Goes(r, "idle")
       \/ /\ Consumable
          /\ link' = [link EXCEPT !.count = @ + 1,
                                  !.status = IF link.count + 1 >= MaxAccess
                                             THEN "exhausted" ELSE @]
          /\ Goes(r, IF mode = "anyone" THEN "answer" ELSE "consume")
    /\ UNCHANGED <<mode, tokens, codeVars, lockVars, codeHist, linkHist>>

\* Mutant: the code is marked without comparing used_at.
Usable_Again(c) == ~expired[c]

\* The WHERE clause of consume.
Usable(c) == ~expired[c] /\ ~used[c] /\ (mode = "signup" => attempts[c] < MaxAttempts)

\* UPDATE ... SET used_at of consume, by a request that verified the code.
Consume(r) ==
    LET c == req[r].at
    IN  /\ req[r].pc = "consume"
        /\ \/ /\ Usable(c)
              /\ used' = [used EXCEPT ![c] = TRUE]
              /\ attempts' = IF mode = "signup"
                             THEN [attempts EXCEPT ![c] = @ + 1] ELSE attempts
              /\ consumed' = [consumed EXCEPT ![c] = @ + 1]
              /\ lost' = lost
              /\ Goes(r, "answer")
           \/ /\ ~Usable(c)
              /\ lost' = IF WithLink THEN lost + 1 ELSE lost
              /\ Goes(r, "idle")
              /\ UNCHANGED <<used, attempts, consumed>>
        /\ UNCHANGED <<mode, tokens, issued, expired, lockVars, link,
                       revived, resets, granted>>

\* An undelivered code is consumed by the request that issued it.
Undo(r) ==
    LET c == req[r].at
    IN  /\ req[r].pc = "undo"
        /\ used' = [used EXCEPT ![c] = @ \/ Usable(c)]
        /\ attempts' = IF mode = "signup" /\ Usable(c)
                       THEN [attempts EXCEPT ![c] = @ + 1] ELSE attempts
        /\ Goes(r, "idle")
        /\ UNCHANGED <<mode, tokens, issued, expired, lockVars, link,
                       codeHist, linkHist>>

\* The payload of the link, or a token for the code, is handed out.
Answer(r) ==
    /\ req[r].pc = "answer"
    /\ granted' = IF WithLink THEN granted + 1 ELSE granted
    /\ tokens' = IF mode = "recovery" THEN tokens \cup {req[r].at} ELSE tokens
    /\ Goes(r, "idle")
    /\ UNCHANGED <<mode, codeVars, lockVars, link, codeHist, lost>>

\* Mutant: the session is not spent by the reset.
SpentAttempts_Kept(c) == attempts[c]

\* SET attempts = max_attempts of consume_recovery_session
SpentAttempts(c) == MaxAttempts

\* reset_user_password_with_recovery with the token for a code: one
\* transaction that locks the row.
ResetPassword(c) ==
    /\ mode = "recovery" /\ c \in tokens
    /\ ~expired[c] /\ used[c] /\ attempts[c] < MaxAttempts
    /\ attempts' = [attempts EXCEPT ![c] = SpentAttempts(c)]
    /\ resets' = [resets EXCEPT ![c] = @ + 1]
    /\ UNCHANGED <<mode, tokens, issued, used, expired, lockVars, link, req,
                   consumed, revived, linkHist>>

-----------------------------------------------------------------------------
(* The environment                                                         *)

\* revoke_share_link
RevokeShareLink ==
    /\ WithLink
    /\ link' = [link EXCEPT !.status = "revoked"]
    /\ UNCHANGED <<mode, tokens, codeVars, lockVars, req, codeHist, linkHist>>

LinkExpires ==
    /\ WithLink
    /\ link' = [link EXCEPT !.expired = TRUE]
    /\ UNCHANGED <<mode, tokens, codeVars, lockVars, req, codeHist, linkHist>>

CodeExpires(c) ==
    /\ c \in Rows
    /\ expired' = [expired EXCEPT ![c] = TRUE]
    /\ UNCHANGED <<mode, tokens, issued, attempts, used, lockVars, link, req,
                   codeHist, linkHist>>

\* locked_until passes; the next failure counts from zero.
LockExpires ==
    /\ locked
    /\ locked' = FALSE /\ fails' = 0
    /\ UNCHANGED <<mode, tokens, codeVars, link, req, codeHist, linkHist>>

\* A statement fails, the request times out or the server dies.
CutOff(r) ==
    /\ req[r].pc # "idle"
    /\ lost' = IF WithLink /\ req[r].pc \in {"consume", "answer"} THEN lost + 1 ELSE lost
    /\ Goes(r, "idle")
    /\ UNCHANGED <<mode, tokens, codeVars, lockVars, link, codeHist, granted>>

Next ==
    \/ \E r \in Requests :
          \/ RequestCode(r) \/ InsertCode(r) \/ Undo(r)
          \/ Arrives(r) \/ CheckLock(r) \/ HasActiveCode(r)
          \/ SelectMatching(r) \/ SelectLatest(r) \/ RecordFailedAttempt(r)
          \/ RecordFailure(r) \/ InvalidatePendingCodes(r) \/ ClearFailures(r)
          \/ ConsumeShareLinkAccess(r) \/ Consume(r) \/ Answer(r) \/ CutOff(r)
    \/ \E c \in Codes : ResetPassword(c) \/ CodeExpires(c)
    \/ RevokeShareLink \/ LinkExpires \/ LockExpires

Spec == Init /\ [][Next]_vars

-----------------------------------------------------------------------------
(* Properties                                                              *)

Counted == {r \in Requests : req[r].pc \in {"consume", "answer"}}

\* Every access the link counts is one payload handed out, one request that
\* failed after counting, or one still on its way; so concurrent requests
\* never get more payloads than max_access_count allows, a one-time link is
\* opened at most once, and an access is lost only by a request that fails.
AccessAccounted ==
    WithLink => /\ link.count = granted + lost + Cardinality(Counted)
                /\ granted <= MaxAccess

\* A link that was revoked stays so and counts no further access, whatever the
\* requests that loaded it before go on to do.
RevokedStops ==
    [][link.status = "revoked" => link'.status = "revoked" /\ link'.count = link.count]_vars

\* Of any number of requests that verified the same code one consumes it; a
\* second use needs a failed attempt that wrote used_at back to NULL.
ConsumedOnce == \A c \in Codes : consumed[c] <= 1 + revived[c]

\* The same for the password resets a recovery code is good for: a code is
\* spent with the first, unless a failed attempt read earlier revives it.
ResetOnce == \A c \in Codes : resets[c] <= 1 + revived[c]

=============================================================================
