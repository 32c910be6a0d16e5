----------------------------- MODULE MCTransfers -----------------------------
(* Small instances of Transfers: two users. *)
EXTENDS Transfers

CONSTANTS u1, u2, t1, t2, c1, c2
TwoUsers == {u1, u2}
TwoTransfers == {t1, t2}
TwoClaims == {c1, c2}
AllDeleters == {"user", "owner", "admin"}

\* Transfers and claims are alike: the first of each is created first.
InTurn ==
    /\ rows[t2].status # "none" => rows[t1].status # "none"
    /\ handler[c2].at # "unused" => handler[c1].at # "unused"
OrderedSpec == Init /\ [][Next /\ InTurn']_vars /\ Fairness
==============================================================================
