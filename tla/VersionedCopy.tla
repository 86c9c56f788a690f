--------------------------- MODULE VersionedCopy ---------------------------
(***************************************************************************)
(* What the item cache of one client promises about the server's items,    *)
(* however pages, acknowledgements and full refreshes interleave: the copy *)
(* of an item is absent or one of the versions the server has published,   *)
(* and it is only ever dropped or moved forward.                           *)
(***************************************************************************)
EXTENDS Naturals

CONSTANT Items

VARIABLES
    truth,  \* the newest version the server has published, 0 before the first
    copy    \* the version the client holds, 0 when it holds none

vars == <<truth, copy>>

Init ==
    /\ truth \in [Items -> Nat]
    /\ copy = [i \in Items |-> 0]

\* The server publishes the next version of one item.
Publish(i) ==
    /\ truth' = [truth EXCEPT ![i] = @ + 1]
    /\ UNCHANGED copy

\* The client learns of some items and forgets some others, in one write.
Learn ==
    /\ copy' \in [Items -> UNION {0 .. truth[i] : i \in Items}]
    /\ \A i \in Items : copy'[i] = 0 \/ copy'[i] \in copy[i] .. truth[i]
    /\ UNCHANGED truth

Next == (\E i \in Items : Publish(i)) \/ Learn

Spec == Init /\ [][Next]_vars

=============================================================================
