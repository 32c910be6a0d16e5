------------------------------ MODULE Transfers ------------------------------
(***************************************************************************)
(* The transfers of one instance between users: offer, accept or push,     *)
(* reject, cancel, and the clean-up of claims whose lease is over          *)
(* (routes/transfers.ts, db/transfers.ts, db/transfer-safety.ts), together *)
(* with what else writes the instance's row or removes it from Incus while *)
(* a transfer is under way: its deletion (routes/instance-destroy.ts,      *)
(* routes/instances.ts, routes/admin-billing.ts), the recovery of a        *)
(* deletion (services/schedulers.ts) and the status synchroniser           *)
(* (services/status-scheduler.ts).                                         *)
(*                                                                         *)
(* To accept a transfer is a saga: its row is claimed, the instance is     *)
(* renamed in Incus, the row of the instance is given to the receiver, and *)
(* if that fails the instance is renamed back and the claim given up.  The *)
(* claim has a fresh token and a fresh Incus name, both drawn at random:   *)
(* here the claim itself is both.  The other columns the commit compares   *)
(* (oldIncusId, newIncusId, instanceVersion) were written with the token.  *)
(* Left out are the tasks that refuse a claim, whether the instance runs,  *)
(* the column phase, and the snapshots, ports and policies that the        *)
(* handler removes after the commit.  Every user can pay the fee.          *)
(***************************************************************************)
EXTENDS Naturals, FiniteSets

CONSTANTS
    Users,
    Seller,      \* the first owner
    Transfers,   \* rows of instance_transfers
    Claims,      \* claim tokens
    Original,    \* the instance's first Incus name
    NoClaim, NoTransfer,
    Deleters,    \* who asks for deletions
    MaxActs      \* bound: deletions, failures and other acts of the environment

ASSUME TransferAssumption ==
    /\ Seller \in Users /\ IsFiniteSet(Transfers)
    /\ Original \notin Claims /\ NoClaim \notin Claims /\ NoTransfer \notin Transfers
    /\ Deleters \subseteq {"user", "owner", "admin"}
    /\ MaxActs \in Nat

VARIABLES
    rows,      \* instance_transfers
    owner,     \* instances.userId
    incusId,   \* instances.incusId
    status,    \* instances.status
    current,   \* who read the row of the instance at its present version
    removal,   \* the columns deletion...: what is known of the removal in Incus
    names,     \* the names under which Incus has the instance: at most one
    fees,      \* fees each user has paid and not got back
    offers,    \* requests of users for a transfer that have passed the first look
    handler,   \* place of each accept or push, its transfer and the name it read
    deletion,  \* place of a deletion, who asked for it and the name it read
    sync,      \* place of syncInstanceStatus
    cut,       \* auxiliary: handlers that died or failed after they had renamed
    acts       \* auxiliary: acts of the environment so far

instance == <<owner, incusId, status, current, removal>>
places == <<offers, handler, deletion, sync>>
vars == <<rows, instance, names, fees, places, cut, acts>>

Names == Claims \cup {Original}
Rows ==
    [status : {"none", "pending", "processing", "accepted", "rejected", "cancelled"},
     from : Users, to : Users, token : Claims \cup {NoClaim},
     lease : {"none", "live", "over"}, refunded : BOOLEAN]
Handlers ==
    [at : {"unused", "claimed", "renaming", "renamed", "failed", "rollback", "done"},
     of : Transfers \cup {NoTransfer}, old : Names]
Deletions ==
    [at : {"idle", "read", "claimed", "removed", "confirmed", "settled", "failing"},
     by : Deleters \cup {"recovery"}, who : Users, name : Names]
NoDeletion == [at |-> "idle", by |-> "recovery", who |-> Seller, name |-> Original]

TypeOK ==
    /\ rows \in [Transfers -> Rows]
    /\ owner \in Users /\ incusId \in Names /\ status \in {"live", "deleted"}
    /\ current \subseteq Claims \cup {"sync"}
    /\ removal \in {"none", "pending", "confirmed", "settled"}
    /\ names \subseteq Names /\ \A m, n \in names : m = n
    /\ fees \in [Users -> Nat]
    /\ offers \subseteq Transfers \X Users
    /\ handler \in [Claims -> Handlers]
    /\ deletion \in Deletions
    /\ sync \in {"idle", "missing"}
    /\ cut \subseteq Claims /\ acts \in 0..MaxActs

Init ==
    /\ rows = [t \in Transfers |->
                 [status |-> "none", from |-> Seller, to |-> Seller, token |-> NoClaim,
                  lease |-> "none", refunded |-> FALSE]]
    /\ owner = Seller /\ incusId = Original /\ status = "live" /\ removal = "none"
    /\ current = {} /\ names = {Original} /\ fees = [u \in Users |-> 0]
    /\ offers = {}
    /\ handler = [c \in Claims |-> [at |-> "unused", of |-> NoTransfer, old |-> Original]]
    /\ deletion = NoDeletion /\ sync = "idle"
    /\ cut = {} /\ acts = 0

------------------------------------------------------------------------------

\* An act of the environment.
Use == acts < MaxActs /\ acts' = acts + 1

\* hasPendingTransfer: it locks the instance for most of its owner's requests.
Open(t) == rows[t].status \in {"pending", "processing"}
Locked == \E t \in Transfers : Open(t)

\* The transfer is still the claim's: status 'processing' and its token.
Held(c, t) == rows[t].status = "processing" /\ rows[t].token = c

\* The version is incremented: nobody's is current any more.
Bump == current' = {}

Become(t, row) == rows' = [rows EXCEPT ![t] = row]

------------------------------------------------------------------------------
(* Offers and their answers. *)

\* The request looks at the instance and its transfers ...
OfferChecks(t, u) ==
    /\ rows[t].status = "none" /\ \A v \in Users : <<t, v>> \notin offers
    /\ owner = u /\ status = "live" /\ ~Locked
    /\ offers' = offers \cup {<<t, u>>}
    /\ UNCHANGED <<rows, instance, names, fees, handler, deletion, sync, cut, acts>>

\* Mutant: the first look is trusted.
CreateUnchecked(t, u, v) ==
    /\ <<t, u>> \in offers /\ rows[t].status = "none" /\ u # v
    /\ owner = u
    /\ Become(t, [status |-> "pending", from |-> u, to |-> v, token |-> NoClaim,
                  lease |-> "none", refunded |-> FALSE])
    /\ fees' = [fees EXCEPT ![u] = @ + 1]
    /\ offers' = offers \ {<<t, u>>}
    /\ UNCHANGED <<instance, names, handler, deletion, sync, cut, acts>>

\* ... and createTransferWithFee, a transaction under the instance's lock, at its
\* owner and its transfers again.
CreateTransferWithFee(t, u, v) ==
    /\ <<t, u>> \in offers /\ rows[t].status = "none" /\ u # v
    /\ owner = u /\ ~Locked
    /\ Become(t, [status |-> "pending", from |-> u, to |-> v, token |-> NoClaim,
                  lease |-> "none", refunded |-> FALSE])
    /\ fees' = [fees EXCEPT ![u] = @ + 1]
    /\ offers' = offers \ {<<t, u>>}
    /\ UNCHANGED <<instance, names, handler, deletion, sync, cut, acts>>

CreateRefused(t, u) ==
    /\ <<t, u>> \in offers /\ (owner # u \/ Locked)
    /\ offers' = offers \ {<<t, u>>}
    /\ UNCHANGED <<rows, instance, names, fees, handler, deletion, sync, cut, acts>>

\* settleTransferWithRefund: the receiver rejects, or the sender cancels.
SettleTransferWithRefund(t, outcome) ==
    /\ rows[t].status = "pending"
    /\ Become(t, [rows[t] EXCEPT !.status = outcome, !.refunded = TRUE])
    /\ fees' = [fees EXCEPT ![rows[t].from] = @ - 1]
    /\ UNCHANGED <<instance, names, places, cut, acts>>

------------------------------------------------------------------------------
(* Accept and push. *)

At(c, place) == handler' = [handler EXCEPT ![c].at = place]
HandlerOnly == UNCHANGED <<fees, offers, deletion, sync>>

\* Mutant: the claim has no lease.
ClaimWithoutLease(c, t) ==
    /\ handler[c].at = "unused" /\ rows[t].status = "pending" /\ status # "deleted"
    /\ Become(t, [rows[t] EXCEPT !.status = "processing", !.token = c])
    /\ current' = current \cup {c}
    /\ handler' = [handler EXCEPT ![c] = [at |-> "claimed", of |-> t, old |-> incusId]]
    /\ UNCHANGED <<owner, incusId, status, removal, names, cut, acts>> /\ HandlerOnly

\* claimTransferTransaction, under the instance's lock.
ClaimTransfer(c, t) ==
    /\ handler[c].at = "unused" /\ rows[t].status = "pending" /\ status # "deleted"
    /\ Become(t, [rows[t] EXCEPT !.status = "processing", !.token = c, !.lease = "live"])
    /\ current' = current \cup {c}
    /\ handler' = [handler EXCEPT ![c] = [at |-> "claimed", of |-> t, old |-> incusId]]
    /\ UNCHANGED <<owner, incusId, status, removal, names, cut, acts>> /\ HandlerOnly

\* The instance was running when the request read it, or its host is out of reach.
Refuse(c) ==
    /\ handler[c].at = "claimed" /\ At(c, "rollback")
    /\ UNCHANGED <<rows, instance, names, cut, acts>> /\ HandlerOnly

\* markTransferPhase: a claim that was taken away ends here.
MarkRenaming(c) ==
    /\ handler[c].at = "claimed"
    /\ At(c, IF Held(c, handler[c].of) THEN "renaming" ELSE "rollback")
    /\ UNCHANGED <<rows, instance, names, cut, acts>> /\ HandlerOnly

\* renameIncusInstance; Incus refuses a name it does not know.
Rename(c) ==
    /\ handler[c].at = "renaming"
    /\ IF handler[c].old \in names
       THEN names' = {c} /\ At(c, "renamed")
       ELSE UNCHANGED names /\ At(c, "rollback")
    /\ UNCHANGED <<rows, instance, cut, acts>> /\ HandlerOnly

\* Incus refuses for another reason, or has renamed although the call failed.
RenameFails(c) ==
    /\ Use /\ handler[c].at = "renaming" /\ At(c, "rollback")
    /\ \/ UNCHANGED <<names, cut>>
       \/ handler[c].old \in names /\ names' = {c} /\ cut' = cut \cup {c}
    /\ UNCHANGED <<rows, instance>> /\ HandlerOnly

\* The row of the instance and that of the transfer change in one transaction.
Commit(c) ==
    LET t == handler[c].of IN
    /\ owner' = rows[t].to /\ incusId' = c /\ Bump
    /\ Become(t, [rows[t] EXCEPT !.status = "accepted", !.lease = "none"])

\* Mutant: the claim is not compared.
CommitsUnheld(c) ==
    /\ owner = rows[handler[c].of].from /\ incusId = handler[c].old /\ c \in current

\* What executeTransferTransaction compares.
Commits(c) ==
    LET t == handler[c].of IN
    /\ Held(c, t)
    /\ owner = rows[t].from /\ incusId = handler[c].old /\ c \in current

\* executeTransferTransaction.  What else the handler removes afterwards is left out.
ExecuteTransfer(c) ==
    /\ handler[c].at = "renamed"
    /\ IF Commits(c)
       THEN Commit(c) /\ At(c, "done")
       ELSE UNCHANGED <<rows, owner, incusId, current>> /\ At(c, "failed")
    /\ UNCHANGED <<status, removal, names, cut, acts>> /\ HandlerOnly

\* The lock is busy or the database fails; or it has committed and the answer is lost.
ExecuteFails(c) ==
    /\ Use /\ handler[c].at = "renamed" /\ At(c, "failed")
    /\ \/ UNCHANGED <<rows, owner, incusId, current, cut>>
       \/ Commits(c) /\ Commit(c) /\ cut' = cut \cup {c}
    /\ UNCHANGED <<status, removal, names>> /\ HandlerOnly

\* Mutant: the claim is given up, but the name stays.
KeepsName(c) ==
    /\ handler[c].at = "failed" /\ At(c, "rollback")
    /\ UNCHANGED <<rows, instance, names, cut, acts>> /\ HandlerOnly

\* The instance is renamed back, if Incus still knows it by the new name.
RenameBack(c) ==
    /\ handler[c].at = "failed" /\ At(c, "rollback")
    /\ names' = (IF c \in names THEN {handler[c].old} ELSE names)
    /\ UNCHANGED <<rows, instance, cut, acts>> /\ HandlerOnly

\* An error is logged as critical, and nothing more.
RenameBackFails(c) ==
    /\ Use /\ handler[c].at = "failed" /\ At(c, "rollback")
    /\ cut' = cut \cup {c}
    /\ UNCHANGED <<rows, instance, names>> /\ HandlerOnly

Unclaimed(row) == [row EXCEPT !.status = "pending", !.token = NoClaim, !.lease = "none"]

\* Mutant: the claim is not compared.
RollbackUnfenced(c) ==
    /\ handler[c].at = "rollback" /\ At(c, "done")
    /\ Become(handler[c].of, Unclaimed(rows[handler[c].of]))
    /\ UNCHANGED <<instance, names, cut, acts>> /\ HandlerOnly

\* rollbackProcessingTransfer; an error of it is logged.
Rollback(c) ==
    /\ handler[c].at = "rollback" /\ At(c, "done")
    /\ \/ /\ IF Held(c, handler[c].of)
             THEN Become(handler[c].of, Unclaimed(rows[handler[c].of])) ELSE UNCHANGED rows
          /\ UNCHANGED acts
       \/ Use /\ UNCHANGED rows
    /\ UNCHANGED <<instance, names, cut>> /\ HandlerOnly

\* Thirty minutes after the claim.
LeaseEnds(t) ==
    /\ rows[t].status = "processing" /\ rows[t].lease = "live"
    /\ Become(t, [rows[t] EXCEPT !.lease = "over"])
    /\ UNCHANGED <<instance, names, fees, places, cut, acts>>

\* cleanupTimeoutTransfers, every five minutes.
CleanupTimeoutTransfers ==
    /\ \E t \in Transfers : rows[t].status = "processing" /\ rows[t].lease = "over"
    /\ rows' = [t \in Transfers |->
                  IF rows[t].status = "processing" /\ rows[t].lease = "over"
                  THEN Unclaimed(rows[t]) ELSE rows[t]]
    /\ UNCHANGED <<instance, names, fees, places, cut, acts>>

------------------------------------------------------------------------------
(* Deletions. *)

DeletionAt(place) == deletion' = [deletion EXCEPT !.at = place]
DeletionOnly == UNCHANGED <<fees, offers, handler, sync, cut>>

\* The claims of host owners keep the version; they alone respect an open transfer.
Bumps == deletion.by \in {"user", "admin"}

\* A request reads the instance, with the name it will ask Incus to delete.
DeletionReads(k) ==
    /\ Use /\ deletion.at = "idle" /\ status = "live"
    /\ k = "owner" => ~Locked
    /\ deletion' = [at |-> "read", by |-> k, who |-> owner, name |-> incusId]
    /\ UNCHANGED <<rows, instance, names>> /\ DeletionOnly

\* claimInstanceForUserDestroy, claimInstanceForDelete, claimInstanceForAdminDelete.
DeletionClaims ==
    /\ deletion.at = "read"
    /\ IF status = "live" /\ (deletion.by = "user" => owner = deletion.who)
       THEN /\ status' = "deleted" /\ removal' = "pending" /\ DeletionAt("claimed")
            /\ IF Bumps THEN Bump ELSE UNCHANGED current
       ELSE UNCHANGED <<status, removal, current>> /\ deletion' = NoDeletion
    /\ UNCHANGED <<rows, owner, incusId, names, acts>> /\ DeletionOnly

\* ensureInstanceDeleted: an instance that Incus does not know is gone.
DeletionRemoves ==
    /\ deletion.at = "claimed" /\ DeletionAt("removed")
    /\ names' = names \ {deletion.name}
    /\ UNCHANGED <<rows, instance, acts>> /\ DeletionOnly

\* ... which is recorded by the row's id.
DeletionMarks ==
    /\ deletion.at = "removed" /\ DeletionAt("confirmed")
    /\ removal' = (IF removal = "settled" THEN removal ELSE "confirmed")
    /\ UNCHANGED <<rows, owner, incusId, status, current, names, acts>> /\ DeletionOnly

\* The refund ...
DeletionSettles ==
    /\ deletion.at = "confirmed" /\ removal' = "settled"
    /\ IF deletion.by = "recovery" THEN deletion' = NoDeletion ELSE DeletionAt("settled")
    /\ UNCHANGED <<rows, owner, incusId, status, current, names, acts>> /\ DeletionOnly

\* ... and what is left of the instance: a request, not the recovery, cancels a pending
\* transfer, whose fee is kept.
DeletionCleans ==
    /\ deletion.at = "settled" /\ deletion' = NoDeletion
    /\ rows' = [t \in Transfers |->
                  IF rows[t].status = "pending"
                  THEN [rows[t] EXCEPT !.status = "cancelled"] ELSE rows[t]]
    /\ UNCHANGED <<instance, names, acts>> /\ DeletionOnly

\* Incus fails, perhaps after it has removed the instance: a request gives its claim back.
DeletionFails ==
    /\ Use /\ deletion.at = "claimed"
    /\ names' \in {names, names \ {deletion.name}}
    /\ IF deletion.by = "recovery" THEN deletion' = NoDeletion ELSE DeletionAt("failing")
    /\ UNCHANGED <<rows, instance>> /\ DeletionOnly

DeletionRestores ==
    /\ deletion.at = "failing" /\ deletion' = NoDeletion
    /\ IF status = "deleted" /\ (deletion.by = "user" => owner = deletion.who)
       THEN /\ status' = "live" /\ removal' = "none"
            /\ IF Bumps THEN Bump ELSE UNCHANGED current
       ELSE UNCHANGED <<status, removal, current>>
    /\ UNCHANGED <<rows, owner, incusId, names, acts>> /\ DeletionOnly

\* runDeletionBillingRecovery takes up what a request has left.
RecoveryLists ==
    /\ deletion.at = "idle" /\ status = "deleted" /\ removal \in {"pending", "confirmed"}
    /\ deletion' = [at |-> "claimed", by |-> "recovery", who |-> owner, name |-> incusId]
    /\ UNCHANGED <<rows, instance, names, acts>> /\ DeletionOnly

------------------------------------------------------------------------------
(* The synchroniser, and the rest of the world. *)

\* syncInstanceStatus asks Incus for an instance by the name it has read.
SyncMisses ==
    /\ sync = "idle" /\ status = "live" /\ incusId \notin names
    /\ sync' = "missing" /\ current' = current \cup {"sync"}
    /\ UNCHANGED <<rows, owner, incusId, status, removal, names, fees, offers, handler,
                   deletion, cut, acts>>

\* It is marked deleted, where the version is still the one read.
SyncMarksDeleted ==
    /\ sync = "missing" /\ sync' = "idle"
    /\ IF status = "live" /\ "sync" \in current
       THEN status' = "deleted" /\ Bump ELSE UNCHANGED <<status, current>>
    /\ UNCHANGED <<rows, owner, incusId, removal, names, fees, offers, handler, deletion,
                   cut, acts>>

\* Another of the many writers that increment the version.
OtherWriter ==
    /\ Use /\ current # {} /\ Bump
    /\ UNCHANGED <<rows, owner, incusId, status, removal, names, fees, places, cut>>

\* The server dies between two statements and is started again.
Crash ==
    /\ Use
    /\ offers' = {}
    /\ handler' = [c \in Claims |->
                     IF handler[c].at = "unused" THEN handler[c]
                     ELSE [handler[c] EXCEPT !.at = "done"]]
    /\ cut' = cut \cup {c \in Claims : handler[c].at \in {"renamed", "failed"}}
    /\ deletion' = NoDeletion /\ sync' = "idle"
    /\ UNCHANGED <<rows, instance, names, fees>>

------------------------------------------------------------------------------

OfferStep ==
    \/ \E t \in Transfers, u \in Users : OfferChecks(t, u) \/ CreateRefused(t, u)
    \/ \E t \in Transfers, u, v \in Users : CreateTransferWithFee(t, u, v)
    \/ \E t \in Transfers, outcome \in {"rejected", "cancelled"} :
           SettleTransferWithRefund(t, outcome)

HandlerStep(c) ==
    \/ \E t \in Transfers : ClaimTransfer(c, t)
    \/ Refuse(c) \/ MarkRenaming(c) \/ Rename(c) \/ RenameFails(c)
    \/ ExecuteTransfer(c) \/ ExecuteFails(c)
    \/ RenameBack(c) \/ RenameBackFails(c) \/ Rollback(c)

DeletionStep ==
    \/ \E k \in Deleters : DeletionReads(k)
    \/ DeletionClaims \/ DeletionRemoves \/ DeletionMarks \/ DeletionSettles
    \/ DeletionCleans \/ DeletionFails \/ DeletionRestores \/ RecoveryLists

Next ==
    \/ OfferStep
    \/ \E c \in Claims : HandlerStep(c)
    \/ \E t \in Transfers : LeaseEnds(t)
    \/ CleanupTimeoutTransfers
    \/ DeletionStep
    \/ SyncMisses \/ SyncMarksDeleted \/ OtherWriter \/ Crash

Spec == Init /\ [][Next]_vars

\* Time passes, and the five-minute timer fires.
Fairness ==
    /\ \A t \in Transfers : WF_vars(LeaseEnds(t))
    /\ WF_vars(CleanupTimeoutTransfers)

FairSpec == Spec /\ Fairness

------------------------------------------------------------------------------
(* Properties. *)

\* A name the row leads to, or that of a handler that was cut off.
Known(n) == n = incusId \/ \E c \in cut : n \in {c, handler[c].old}

\* However late the handlers of expired claims come, the instance has in Incus the
\* name of its row, or the new name of a handler that will commit it or undo it; only
\* a failure or crash after a rename leaves another (transfers.ts, accept and push).
NameKnown ==
    \A n \in names :
        Known(n) \/ \E c \in Claims : handler[c].at \in {"renamed", "failed"} /\ n = c

\* The state of a transfer as the users see it.
DeedState(t) ==
    CASE Open(t) -> "open"
      [] rows[t].status = "accepted" -> "given"
      [] rows[t].refunded -> "returned"
      [] rows[t].status = "cancelled" /\ ~rows[t].refunded -> "dropped"
      [] OTHER -> "none"

Deeds == INSTANCE TransferDeeds
    WITH state <- [t \in Transfers |-> DeedState(t)],
         from <- [t \in Transfers |-> rows[t].from],
         to <- [t \in Transfers |-> rows[t].to]

\* Whatever claims, leases and deletions do: one transfer is open at a time, it is
\* accepted once and at once gives the instance to its receiver, and the fee comes
\* back once, and never for an accepted transfer.
DeedsSpec == Deeds!Spec

\* However handlers, deletions and crashes interleave, each user has paid the fee of the
\* transfers that were accepted, are open or ended with the instance, and of no other
\* (createTransferWithFee, settleTransferWithRefund); and who had the instance or
\* accepted it, and whose transfers of it were accepted no more often, is its owner
\* (executeTransferTransaction).
DeedsBalanced == Deeds!Balanced

\* A claimed transfer is accepted or becomes open to an answer again, also when the
\* server dies under its handler (claimExpiresAt, cleanupTimeoutTransfers).
ClaimEnds ==
    \A t \in Transfers :
        rows[t].status = "processing" ~> rows[t].status # "processing"
==============================================================================
