------------------------------ MODULE MCRecharge ------------------------------
(* Small instances of Recharge. *)
EXTENDS Recharge

CONSTANTS o1, o2

\* The second order, of the full amount, is never paid: it is left to time, and the staff
\* may complete it while no other request is in progress.  It is created only beside a
\* first order of the full amount whose payment, if any, has succeeded.
OtherRests ==
    /\ actual[o2] = Amount /\ invoice[o2] = "open"
    /\ \A h \in Handlers : handler[h].order = o2 =>
         /\ handler[h].kind = "complete" /\ handler[h].amount = Amount
         /\ \A g \in Handlers \ {h} : handler[g].at = "idle"
    /\ status[o2] # "none" => actual[o1] = Amount /\ sent[o1] \subseteq {"paid"}
\* Only acts of the environment are left out, none that Fairness asks for.
OneSidedSpec ==
    /\ Init /\ [][Next /\ OtherRests']_vars
    /\ \A h \in Handlers : WF_vars(HandlerStep(h))
    /\ SF_vars(Repeat(o1))
===============================================================================
