--------------------------- MODULE TransfersProofs ---------------------------
(* The names of an instance under transfer can be traced, and the transfers do  *)
(* what TransferDeeds promises, for any numbers of users, transfers and claims. *)
EXTENDS Transfers, TLAPS

\* One transfer is open at a time.
OneOpen == \A s, t \in Transfers : Open(s) /\ Open(t) => s = t

\* A fee that is given back was paid, and for a transfer that failed.
FeesOK ==
    \A t \in Transfers :
        /\ rows[t].refunded => rows[t].status \in {"rejected", "cancelled"}
        /\ rows[t].status = "rejected" => rows[t].refunded
        /\ Open(t) => fees[rows[t].from] >= 1

\* A handler at work has a transfer; one that was cut off does not go on as if nothing
\* had happened.
HandlersOK ==
    \A c \in Claims :
        /\ handler[c].at # "unused" => handler[c].of \in Transfers
        /\ c \in cut => handler[c].at \in {"failed", "rollback", "done"}

BaseInv == TypeOK /\ OneOpen /\ FeesOK /\ HandlersOK

\* No transfer, fee or handler yet.
LEMMA BaseInit == Init => BaseInv
BY TransferAssumption
   DEF Init, BaseInv, TypeOK, OneOpen, Open, FeesOK, HandlersOK, Rows, Names, Handlers,
       Deletions, NoDeletion

\* The environment keeps to its bound.
LEMMA UseBounded == acts \in 0..MaxActs /\ (Use \/ UNCHANGED acts) => acts' \in 0..MaxActs
BY TransferAssumption DEF Use

\* Offers and their answers keep the base.
LEMMA OfferBase == BaseInv /\ OfferStep => BaseInv'
<1> SUFFICES ASSUME BaseInv, OfferStep PROVE BaseInv'
  OBVIOUS
<1> USE TransferAssumption DEF BaseInv, Names
<1>1. CASE \E t \in Transfers, u \in Users : OfferChecks(t, u) \/ CreateRefused(t, u)
  BY <1>1 DEF TypeOK, OneOpen, Open, FeesOK, HandlersOK, OfferChecks, CreateRefused, instance
<1>2. ASSUME NEW t \in Transfers, NEW u \in Users, NEW v \in Users,
             CreateTransferWithFee(t, u, v)
      PROVE  BaseInv'
  <2> DEFINE row == [status |-> "pending", from |-> u, to |-> v, token |-> NoClaim,
                     lease |-> "none", refunded |-> FALSE]
  <2>1. row \in Rows
    BY DEF Rows
  <2>2. /\ rows' = [rows EXCEPT ![t] = row] /\ rows \in [Transfers -> Rows]
        /\ fees' = [fees EXCEPT ![u] = @ + 1] /\ fees \in [Users -> Nat]
        /\ \A s \in Transfers : ~Open(s)
        /\ UNCHANGED <<handler, cut>>
    BY <1>2 DEF CreateTransferWithFee, Become, TypeOK, Locked
  <2> HIDE DEF row
  <2>3. TypeOK'
    BY <1>2, <2>1, <2>2 DEF CreateTransferWithFee, TypeOK, instance
  <2>4. \A s \in Transfers : s # t => rows'[s] = rows[s]
    BY <2>2
  <2>5. rows'[t] = row
    BY <2>2
  <2>6. OneOpen'
    BY <2>2, <2>4 DEF OneOpen, Open
  <2>7. FeesOK'
    <3> SUFFICES ASSUME NEW s \in Transfers
                 PROVE  /\ rows'[s].refunded => rows'[s].status \in {"rejected", "cancelled"}
                        /\ rows'[s].status = "rejected" => rows'[s].refunded
                        /\ Open(s)' => fees'[rows'[s].from] >= 1
      BY DEF FeesOK
    <3>1. CASE s = t
      BY <2>2, <2>5, <3>1 DEF row
    <3>2. CASE s # t
      BY <2>2, <2>4, <3>2 DEF FeesOK, Open
    <3> QED
      BY <3>1, <3>2
  <2> QED
    BY <2>2, <2>3, <2>6, <2>7 DEF HandlersOK
<1>3. ASSUME NEW t \in Transfers, NEW outcome \in {"rejected", "cancelled"},
             SettleTransferWithRefund(t, outcome)
      PROVE  BaseInv'
  <2> DEFINE row == [rows[t] EXCEPT !.status = outcome, !.refunded = TRUE]
             u == rows[t].from
  <2>1. /\ rows' = [rows EXCEPT ![t] = row] /\ rows \in [Transfers -> Rows]
        /\ fees' = [fees EXCEPT ![u] = @ - 1] /\ fees \in [Users -> Nat]
        /\ UNCHANGED <<handler, cut>> /\ rows[t] \in Rows /\ u \in Users
    BY <1>3 DEF SettleTransferWithRefund, Become, TypeOK, places, Rows
  <2>2. row \in Rows /\ row.status = outcome /\ row.refunded = TRUE
    BY <2>1 DEF Rows
  <2>3. Open(t) /\ fees[u] >= 1 /\ \A s \in Transfers : s # t => ~Open(s)
    BY <1>3 DEF SettleTransferWithRefund, Open, OneOpen, FeesOK
  <2> HIDE DEF row
  <2>4. fees' \in [Users -> Nat]
    BY <2>1, <2>3
  <2>5. TypeOK'
    BY <1>3, <2>1, <2>2, <2>4 DEF SettleTransferWithRefund, TypeOK, instance, places
  <2>6. \A s \in Transfers : s # t => rows'[s] = rows[s] /\ ~Open(s)'
    BY <2>1, <2>3 DEF Open
  <2>7. rows'[t] = row /\ ~Open(t)'
    BY <2>1, <2>2 DEF Open
  <2>8. OneOpen'
    BY <2>6, <2>7 DEF OneOpen
  <2>9. FeesOK'
    BY <2>2, <2>6, <2>7 DEF FeesOK
  <2> QED
    BY <2>1, <2>5, <2>8, <2>9 DEF HandlersOK
<1> QED
  BY <1>1, <1>2, <1>3 DEF OfferStep

\* A row that is claimed or freed stays as open, paid and unrefunded as it was.
LEMMA RowsKept ==
    ASSUME BaseInv, NEW S \in SUBSET Transfers,
           rows' \in [Transfers -> Rows], UNCHANGED fees,
           \A t \in Transfers \ S : rows'[t] = rows[t],
           \A t \in S : /\ rows'[t].from = rows[t].from
                        /\ rows'[t].refunded = rows[t].refunded
                        /\ Open(t)
                        /\ rows'[t].status \in {"pending", "processing", "accepted", "cancelled"}
    PROVE  OneOpen' /\ FeesOK'
<1>1. \A t \in Transfers : Open(t)' => Open(t)
  BY DEF Open
<1>2. OneOpen'
  BY <1>1 DEF BaseInv, OneOpen
<1>3. ASSUME NEW t \in Transfers
      PROVE  /\ rows'[t].refunded => rows'[t].status \in {"rejected", "cancelled"}
             /\ rows'[t].status = "rejected" => rows'[t].refunded
             /\ Open(t)' => fees'[rows'[t].from] >= 1
  <2>1. CASE t \in S
    <3>1. ~rows[t].refunded
      BY <2>1 DEF BaseInv, FeesOK, Open
    <3> QED
      BY <2>1, <3>1 DEF BaseInv, FeesOK
  <2>2. CASE t \notin S
    BY <2>2 DEF BaseInv, FeesOK, Open
  <2> QED
    BY <2>1, <2>2
<1> QED
  BY <1>2, <1>3 DEF FeesOK

\* A handler keeps the base: what it writes to the row of its transfer, it writes while
\* the transfer is open.
LEMMA HandlerBase == BaseInv /\ (\E c \in Claims : HandlerStep(c)) => BaseInv'
<1> SUFFICES ASSUME BaseInv, NEW c \in Claims, HandlerStep(c) PROVE BaseInv'
  OBVIOUS
<1> USE TransferAssumption DEF Names, HandlerOnly, At, instance
<1> DEFINE h == handler[c]
<1>0. /\ rows \in [Transfers -> Rows] /\ handler \in [Claims -> Handlers]
      /\ h \in Handlers /\ h.old \in Names /\ acts \in 0..MaxActs
      /\ TypeOK /\ OneOpen /\ FeesOK /\ HandlersOK
  BY DEF BaseInv, TypeOK, Handlers
\* Steps that leave the rows of the transfers alone.
<1>1. CASE rows' = rows /\ (Refuse(c) \/ MarkRenaming(c) \/ Rename(c) \/ RenameFails(c)
                            \/ RenameBack(c) \/ RenameBackFails(c))
  <2>1. h.at # "unused"
    BY <1>1 DEF Refuse, MarkRenaming, Rename, RenameFails, RenameBack, RenameBackFails
  <2>2. PICK place \in {"renaming", "renamed", "rollback"} : handler' = [handler EXCEPT ![c].at = place]
    BY <1>1 DEF Refuse, MarkRenaming, Rename, RenameFails, RenameBack, RenameBackFails
  <2>3. handler' \in [Claims -> Handlers]
    BY <1>0, <2>2 DEF Handlers
  <2>4. names' \subseteq Names /\ \A m, n \in names' : m = n
    BY <1>0, <1>1 DEF TypeOK, Refuse, MarkRenaming, Rename, RenameFails, RenameBack,
       RenameBackFails
  <2>5. cut' \in {cut, cut \cup {c}} /\ acts' \in 0..MaxActs
    BY <1>0, <1>1, UseBounded DEF Refuse, MarkRenaming, Rename, RenameFails, RenameBack,
       RenameBackFails
  <2>6. UNCHANGED <<rows, instance, fees, offers, deletion, sync>>
    BY <1>1 DEF Refuse, MarkRenaming, Rename, RenameFails, RenameBack, RenameBackFails
  <2>7. TypeOK'
    BY <1>0, <2>3, <2>4, <2>5, <2>6 DEF TypeOK
  <2>8. OneOpen' /\ FeesOK'
    BY <1>0, <2>6 DEF OneOpen, FeesOK, Open
  <2>9. cut' = cut \/ handler'[c].at = "rollback"
    BY <1>0, <1>1 DEF Refuse, MarkRenaming, Rename, RenameFails, RenameBack, RenameBackFails,
       Handlers
  <2>10. h.at \in {"failed", "rollback", "done"} => handler'[c].at = "rollback"
    BY <1>0, <1>1 DEF Refuse, MarkRenaming, Rename, RenameFails, RenameBack, RenameBackFails,
       Handlers
  <2>11. handler'[c].of = h.of /\ \A d \in Claims : d # c => handler'[d] = handler[d]
    BY <1>0, <2>2 DEF Handlers
  <2>12. HandlersOK'
    BY <1>0, <2>1, <2>5, <2>9, <2>10, <2>11 DEF HandlersOK
  <2> QED
    BY <2>7, <2>8, <2>12 DEF BaseInv
<1>2. ASSUME NEW t \in Transfers, ClaimTransfer(c, t) PROVE BaseInv'
  <2> DEFINE row == [rows[t] EXCEPT !.status = "processing", !.token = c, !.lease = "live"]
  <2>1. /\ rows' = [rows EXCEPT ![t] = row] /\ rows[t].status = "pending"
        /\ handler' = [handler EXCEPT ![c] = [at |-> "claimed", of |-> t, old |-> incusId]]
        /\ current' = current \cup {c} /\ h.at = "unused"
        /\ UNCHANGED <<owner, incusId, status, removal, names, cut, acts, fees, offers,
                       deletion, sync>>
    BY <1>2 DEF ClaimTransfer, Become
  <2>2. /\ row \in Rows /\ row.from = rows[t].from /\ row.refunded = rows[t].refunded
        /\ row.status = "processing"
    BY <1>0 DEF Rows
  <2> HIDE DEF row
  <2>3. rows' \in [Transfers -> Rows] /\ handler' \in [Claims -> Handlers]
    BY <1>0, <2>1, <2>2 DEF TypeOK, Handlers
  <2>4. TypeOK'
    BY <1>0, <2>1, <2>3 DEF TypeOK
  <2>5. OneOpen' /\ FeesOK'
    BY <1>0, <2>1, <2>2, <2>3, RowsKept, {t} \in SUBSET Transfers DEF Open
  <2>6. HandlersOK'
    BY <1>0, <2>1 DEF HandlersOK
  <2> QED
    BY <2>4, <2>5, <2>6 DEF BaseInv
<1>3. CASE ExecuteTransfer(c) \/ ExecuteFails(c)
  <2> DEFINE t == h.of
             row == [rows[t] EXCEPT !.status = "accepted", !.lease = "none"]
  <2>1. /\ h.at = "renamed" /\ t \in Transfers /\ c \notin cut /\ rows[t] \in Rows
    BY <1>0, <1>3 DEF ExecuteTransfer, ExecuteFails, HandlersOK
  <2>2. /\ row \in Rows /\ row.from = rows[t].from /\ row.refunded = rows[t].refunded
        /\ row.status = "accepted" /\ rows[t].to \in Users
    BY <2>1 DEF Rows
  <2>3. \/ /\ Held(c, t) /\ rows' = [rows EXCEPT ![t] = row]
           /\ owner' = rows[t].to /\ incusId' = c /\ current' = {}
        \/ UNCHANGED <<rows, owner, incusId, current>>
    BY <1>3 DEF ExecuteTransfer, ExecuteFails, Commit, Commits, Become, Bump
  <2>4. /\ UNCHANGED <<status, removal, names, fees, offers, deletion, sync>>
        /\ cut' \in {cut, cut \cup {c}} /\ acts' \in 0..MaxActs
    BY <1>0, <1>3, UseBounded DEF ExecuteTransfer, ExecuteFails
  <2>5. PICK place \in {"failed", "done"} : handler' = [handler EXCEPT ![c].at = place]
    BY <1>3 DEF ExecuteTransfer, ExecuteFails
  <2> HIDE DEF row
  <2>6. rows' \in [Transfers -> Rows]
    BY <1>0, <2>1, <2>2, <2>3
  <2>7. handler' \in [Claims -> Handlers]
    BY <1>0, <2>5 DEF Handlers
  <2>8. TypeOK'
    BY <1>0, <2>2, <2>3, <2>4, <2>6, <2>7 DEF TypeOK
  <2>9. OneOpen' /\ FeesOK'
    <3>1. CASE rows' = rows
      BY <1>0, <2>4, <3>1 DEF OneOpen, FeesOK, Open
    <3>2. CASE Held(c, t) /\ rows' = [rows EXCEPT ![t] = row]
      <4>1. \A s \in {t} : /\ rows'[s].from = rows[s].from
                           /\ rows'[s].refunded = rows[s].refunded
                           /\ Open(s)
                           /\ rows'[s].status \in {"pending", "accepted"}
        BY <1>0, <2>1, <2>2, <3>2 DEF Open, Held
      <4>2. \A s \in Transfers \ {t} : rows'[s] = rows[s]
        BY <1>0, <3>2
      <4>3. {t} \in SUBSET Transfers /\ UNCHANGED fees
        BY <2>1, <2>4
      <4> QED
        BY <2>6, <4>1, <4>2, <4>3, RowsKept
    <3> QED
      BY <2>3, <3>1, <3>2
  <2>10. HandlersOK'
    BY <1>0, <2>1, <2>4, <2>5 DEF HandlersOK, Handlers
  <2> QED
    BY <2>8, <2>9, <2>10 DEF BaseInv
<1>4. CASE Rollback(c)
  <2> DEFINE t == h.of
             row == Unclaimed(rows[t])
  <2>1. /\ h.at = "rollback" /\ t \in Transfers /\ rows[t] \in Rows
    BY <1>0, <1>4 DEF Rollback, HandlersOK
  <2>2. /\ row \in Rows /\ row.from = rows[t].from /\ row.refunded = rows[t].refunded
        /\ row.status = "pending"
    BY <2>1 DEF Rows, Unclaimed
  <2>3. (Held(c, t) /\ rows' = [rows EXCEPT ![t] = row]) \/ UNCHANGED rows
    BY <1>4 DEF Rollback, Become
  <2>4. /\ UNCHANGED <<owner, incusId, current, status, removal, names, fees, offers,
                       deletion, sync, cut>>
        /\ acts' \in 0..MaxActs /\ handler' = [handler EXCEPT ![c].at = "done"]
    BY <1>0, <1>4, UseBounded DEF Rollback
  <2> HIDE DEF row
  <2>6. rows' \in [Transfers -> Rows]
    BY <1>0, <2>1, <2>2, <2>3
  <2>7. handler' \in [Claims -> Handlers]
    BY <1>0, <2>4 DEF Handlers
  <2>8. TypeOK'
    BY <1>0, <2>4, <2>6, <2>7 DEF TypeOK
  <2>9. OneOpen' /\ FeesOK'
    <3>1. CASE rows' = rows
      BY <1>0, <2>4, <3>1 DEF OneOpen, FeesOK, Open
    <3>2. CASE Held(c, t) /\ rows' = [rows EXCEPT ![t] = row]
      <4>1. \A s \in {t} : /\ rows'[s].from = rows[s].from
                           /\ rows'[s].refunded = rows[s].refunded
                           /\ Open(s)
                           /\ rows'[s].status \in {"pending", "accepted"}
        BY <1>0, <2>1, <2>2, <3>2 DEF Open, Held
      <4>2. \A s \in Transfers \ {t} : rows'[s] = rows[s]
        BY <1>0, <3>2
      <4>3. {t} \in SUBSET Transfers /\ UNCHANGED fees
        BY <2>1, <2>4
      <4> QED
        BY <2>6, <4>1, <4>2, <4>3, RowsKept
    <3> QED
      BY <2>3, <3>1, <3>2
  <2>10. HandlersOK'
    BY <1>0, <2>1, <2>4 DEF HandlersOK, Handlers
  <2> QED
    BY <2>8, <2>9, <2>10 DEF BaseInv
<1> QED
  <2>1. Refuse(c) \/ MarkRenaming(c) \/ Rename(c) \/ RenameFails(c) \/ RenameBack(c)
        \/ RenameBackFails(c) => rows' = rows
    BY DEF Refuse, MarkRenaming, Rename, RenameFails, RenameBack, RenameBackFails
  <2> QED
    BY <1>1, <1>2, <1>3, <1>4, <2>1 DEF HandlerStep

\* So do the leases and their clean-up.
LEMMA LeaseBase ==
    BaseInv /\ ((\E t \in Transfers : LeaseEnds(t)) \/ CleanupTimeoutTransfers) => BaseInv'
<1> SUFFICES ASSUME BaseInv,
                    (\E t \in Transfers : LeaseEnds(t)) \/ CleanupTimeoutTransfers
             PROVE  BaseInv'
  OBVIOUS
<1>0. /\ TypeOK /\ HandlersOK /\ rows \in [Transfers -> Rows]
      /\ UNCHANGED <<instance, names, fees, places, cut, acts>>
  BY DEF BaseInv, TypeOK, LeaseEnds, CleanupTimeoutTransfers
<1>1. PICK S \in SUBSET Transfers :
        /\ \A t \in S :
             /\ rows'[t] \in {Unclaimed(rows[t]), [rows[t] EXCEPT !.lease = "over"]}
             /\ rows[t].status = "processing"
        /\ \A t \in Transfers \ S : rows'[t] = rows[t]
        /\ DOMAIN rows' = Transfers /\ rows' = [t \in Transfers |-> rows'[t]]
  <2>1. ASSUME NEW t \in Transfers, LeaseEnds(t)
        PROVE  \E S \in SUBSET Transfers :
                  /\ \A s \in S :
                       /\ rows'[s] \in {Unclaimed(rows[s]), [rows[s] EXCEPT !.lease = "over"]}
                       /\ rows[s].status = "processing"
                  /\ \A s \in Transfers \ S : rows'[s] = rows[s]
                  /\ DOMAIN rows' = Transfers /\ rows' = [s \in Transfers |-> rows'[s]]
    <3> WITNESS {t} \in SUBSET Transfers
    <3> QED
      BY <1>0, <2>1 DEF LeaseEnds, Become
  <2>2. ASSUME CleanupTimeoutTransfers
        PROVE  \E S \in SUBSET Transfers :
                  /\ \A s \in S :
                       /\ rows'[s] \in {Unclaimed(rows[s]), [rows[s] EXCEPT !.lease = "over"]}
                       /\ rows[s].status = "processing"
                  /\ \A s \in Transfers \ S : rows'[s] = rows[s]
                  /\ DOMAIN rows' = Transfers /\ rows' = [s \in Transfers |-> rows'[s]]
    <3> DEFINE S == {t \in Transfers : rows[t].status = "processing" /\ rows[t].lease = "over"}
    <3> WITNESS S \in SUBSET Transfers
    <3> QED
      BY <2>2 DEF CleanupTimeoutTransfers
  <2> QED
    BY <2>1, <2>2
<1>2. \A t \in S : /\ rows'[t] \in Rows /\ rows'[t].from = rows[t].from
                   /\ rows'[t].refunded = rows[t].refunded /\ Open(t)
                   /\ rows'[t].status \in {"pending", "processing"}
  <2> TAKE t \in S
  <2>1. rows[t] \in Rows /\ rows[t].status = "processing"
    BY <1>0, <1>1
  <2>2. CASE rows'[t] = Unclaimed(rows[t])
    BY <2>1, <2>2, TransferAssumption DEF Rows, Unclaimed, Open
  <2>3. CASE rows'[t] = [rows[t] EXCEPT !.lease = "over"]
    BY <2>1, <2>3 DEF Rows, Open
  <2> QED
    BY <1>1, <2>2, <2>3
<1>3. rows' \in [Transfers -> Rows]
  BY <1>0, <1>1, <1>2
<1>4. TypeOK'
  BY <1>0, <1>3 DEF TypeOK, instance, places
<1>5. OneOpen' /\ FeesOK'
  BY <1>0, <1>1, <1>2, <1>3, RowsKept
<1>6. HandlersOK'
  BY <1>0 DEF HandlersOK, places
<1> QED
  BY <1>4, <1>5, <1>6 DEF BaseInv

\* A deletion cancels pending transfers only.
LEMMA DeletionBase == BaseInv /\ DeletionStep => BaseInv'
<1> SUFFICES ASSUME BaseInv, DeletionStep PROVE BaseInv'
  OBVIOUS
<1> USE TransferAssumption DEF instance, DeletionOnly, DeletionAt
<1>0. /\ TypeOK /\ OneOpen /\ FeesOK /\ HandlersOK /\ rows \in [Transfers -> Rows]
      /\ deletion \in Deletions /\ owner \in Users /\ incusId \in Names
      /\ acts \in 0..MaxActs
  BY DEF BaseInv, TypeOK
<1>1. UNCHANGED <<owner, incusId, fees, offers, handler, sync, cut>>
  BY DEF DeletionStep, DeletionReads, DeletionClaims, DeletionRemoves, DeletionMarks,
     DeletionSettles, DeletionCleans, DeletionFails, DeletionRestores, RecoveryLists
<1>2. deletion' \in Deletions
  BY <1>0 DEF DeletionStep, DeletionReads, DeletionClaims, DeletionRemoves, DeletionMarks,
     DeletionSettles, DeletionCleans, DeletionFails, DeletionRestores, RecoveryLists, Deletions, NoDeletion,
     Names
<1>3. /\ status' \in {"live", "deleted"} /\ current' \in {current, {}}
      /\ removal' \in {"none", "pending", "confirmed", "settled"}
      /\ names' \subseteq names /\ acts' \in 0..MaxActs
  BY <1>0, UseBounded
     DEF TypeOK, DeletionStep, DeletionReads, DeletionClaims, DeletionRemoves, DeletionMarks,
     DeletionSettles, DeletionCleans, DeletionFails, DeletionRestores, RecoveryLists, Bump
<1>4. rows' \in [Transfers -> Rows] /\ OneOpen' /\ FeesOK'
  <2>1. CASE DeletionCleans
    <3> DEFINE S == {t \in Transfers : rows[t].status = "pending"}
    <3>1. /\ \A t \in S : rows'[t] = [rows[t] EXCEPT !.status = "cancelled"]
          /\ \A t \in Transfers \ S : rows'[t] = rows[t]
          /\ rows' = [t \in Transfers |-> rows'[t]]
      BY <2>1 DEF DeletionCleans
    <3>2. \A t \in S : /\ rows'[t] \in Rows /\ rows'[t].from = rows[t].from
                       /\ rows'[t].refunded = rows[t].refunded /\ Open(t)
                       /\ rows'[t].status = "cancelled"
      BY <1>0, <3>1 DEF Rows, Open
    <3>3. rows' \in [Transfers -> Rows]
      BY <1>0, <3>1, <3>2
    <3>4. S \in SUBSET Transfers
      OBVIOUS
    <3> HIDE DEF S
    <3> QED
      BY <1>1, <3>1, <3>2, <3>3, <3>4, RowsKept
  <2>2. CASE ~DeletionCleans
    <3>1. rows' = rows
      BY <2>2 DEF DeletionStep, DeletionReads, DeletionClaims, DeletionRemoves, DeletionMarks, DeletionSettles,
         DeletionFails, DeletionRestores, RecoveryLists
    <3> QED
      BY <1>0, <1>1, <3>1 DEF OneOpen, FeesOK, Open
  <2> QED
    BY <2>1, <2>2
<1>5. TypeOK'
  BY <1>0, <1>1, <1>2, <1>3, <1>4 DEF TypeOK
<1>6. HandlersOK'
  BY <1>0, <1>1 DEF HandlersOK
<1> QED
  BY <1>4, <1>5, <1>6 DEF BaseInv

\* The synchroniser, the other writers and a crash leave the transfers alone.
LEMMA WorldBase ==
    BaseInv /\ (SyncMisses \/ SyncMarksDeleted \/ OtherWriter \/ Crash \/ UNCHANGED vars)
        => BaseInv'
<1> SUFFICES ASSUME BaseInv,
                    SyncMisses \/ SyncMarksDeleted \/ OtherWriter \/ Crash \/ UNCHANGED vars
             PROVE  BaseInv'
  OBVIOUS
<1> USE TransferAssumption DEF instance, places
<1>0. TypeOK /\ OneOpen /\ FeesOK /\ HandlersOK /\ acts \in 0..MaxActs
  BY DEF BaseInv, TypeOK
<1>1. UNCHANGED <<rows, fees>> /\ acts' \in 0..MaxActs
  BY <1>0, UseBounded DEF SyncMisses, SyncMarksDeleted, OtherWriter, Crash, vars
<1>2. handler' \in [Claims -> Handlers] /\ HandlersOK'
  <2>1. CASE Crash
    BY <1>0, <2>1 DEF Crash, TypeOK, Handlers, HandlersOK
  <2>2. CASE UNCHANGED <<handler, cut>>
    BY <1>0, <2>2 DEF TypeOK, HandlersOK
  <2> QED
    BY <2>1, <2>2 DEF SyncMisses, SyncMarksDeleted, OtherWriter, vars
<1>3. TypeOK'
  <2>1. CASE Crash
    BY <1>0, <1>1, <1>2, <2>1 DEF Crash, TypeOK, NoDeletion, Deletions, Names
  <2>2. CASE ~Crash
    BY <1>0, <1>1, <1>2, <2>2
       DEF SyncMisses, SyncMarksDeleted, OtherWriter, vars, TypeOK, Bump
  <2> QED
    BY <2>1, <2>2
<1>4. OneOpen' /\ FeesOK'
  BY <1>0, <1>1 DEF OneOpen, FeesOK, Open
<1> QED
  BY <1>2, <1>3, <1>4 DEF BaseInv

\* Every step keeps the base.
LEMMA BaseStep == BaseInv /\ [Next]_vars => BaseInv'
BY OfferBase, HandlerBase, LeaseBase, DeletionBase, WorldBase DEF Next

\* The columns, the claims and the places keep to their values for any numbers of
\* users, transfers and claims; no user gets back more fees than were paid.
THEOREM TypeCorrect == Spec => []TypeOK
<1>1. BaseInv => TypeOK
  BY DEF BaseInv
<1> QED
  BY <1>1, BaseInit, BaseStep, PTL DEF Spec

------------------------------------------------------------------------------
(* The names.  *)

\* The name of the row, and any that a handler has read, is not that of a handler still
\* at work.
NamesRead ==
    \A n \in Claims :
        (n = incusId \/ \E c \in Claims : handler[c].old = n)
            => handler[n].at = "done" \/ n \in cut

\* While a handler that was not cut off has its name in Incus, that is the only one,
\* and the one it replaced is known.
NamesGiven ==
    \A c \in Claims :
        handler[c].at \in {"renamed", "failed"} /\ c \notin cut
            => names \subseteq {c} /\ (names = {} \/ Known(handler[c].old))

NamesInv == BaseInv /\ NamesRead /\ NamesGiven /\ NameKnown

\* At first the instance has the name of its row.
LEMMA NamesInit == Init => NamesInv
BY BaseInit, TransferAssumption DEF Init, NamesInv, NamesRead, NamesGiven, NameKnown, Known

\* A step that gives the instance no new name, neither in its row nor in Incus.
NoNewName ==
    /\ names' \subseteq names /\ incusId' = incusId /\ cut \subseteq cut'
    /\ \A c \in Claims :
         /\ \/ handler'[c].old = handler[c].old
            \/ handler[c].at = "unused" /\ handler'[c].old = incusId
         /\ handler[c].at = "done" => handler'[c].at = "done"
         /\ handler'[c].at \in {"renamed", "failed"} => handler[c].at \in {"renamed", "failed"}
         /\ handler[c].at \in {"renamed", "failed"}
               => \/ handler'[c].at \in {"renamed", "failed"}
                  \/ c \in cut' \/ c \notin names'

\* Such steps keep the names traced.
LEMMA NamesKept == NamesInv /\ BaseInv' /\ NoNewName => NamesInv'
<1> SUFFICES ASSUME NamesInv, BaseInv', NoNewName PROVE NamesInv'
  OBVIOUS
<1> USE DEF NoNewName
<1>1. \A c \in cut : c \in Claims /\ handler'[c].old = handler[c].old
  BY DEF NamesInv, BaseInv, HandlersOK, TypeOK
<1>2. \A n : Known(n) => Known(n)'
  BY <1>1 DEF Known
<1>3. NamesRead'
  BY DEF NamesInv, NamesRead
<1>4. NamesGiven'
  <2>1. ASSUME NEW c \in Claims, handler'[c].at \in {"renamed", "failed"}, c \notin cut'
        PROVE  names' \subseteq {c} /\ (names' = {} \/ Known(handler[c].old)')
    <3>1. handler'[c].old = handler[c].old
      BY <2>1
    <3>2. names \subseteq {c} /\ (names = {} \/ Known(handler[c].old))
      BY <2>1 DEF NamesInv, NamesGiven
    <3> QED
      BY <1>2, <3>1, <3>2 DEF Known
  <2> QED
    BY <2>1 DEF NamesGiven
<1>5. NameKnown'
  BY <1>2 DEF NamesInv, NameKnown, Known
<1> QED
  BY <1>3, <1>4, <1>5 DEF NamesInv

\* Every step that is not a handler's.
LEMMA OtherNames ==
    NamesInv /\ BaseInv' /\ [Next]_vars /\ ~(\E c \in Claims : HandlerStep(c)) => NamesInv'
<1> SUFFICES ASSUME NamesInv, BaseInv', [Next]_vars, ~(\E c \in Claims : HandlerStep(c))
             PROVE  NamesInv'
  OBVIOUS
<1> USE DEF instance, places
<1>1. CASE Crash
  <2>1. handler \in [Claims -> Handlers]
    BY DEF NamesInv, BaseInv, TypeOK
  <2>2. \A c \in Claims :
          /\ handler'[c].old = handler[c].old
          /\ handler'[c].at = (IF handler[c].at = "unused" THEN "unused" ELSE "done")
    BY <1>1, <2>1 DEF Crash, Handlers
  <2>3. NoNewName
    BY <1>1, <2>2 DEF Crash, NoNewName
  <2> QED
    BY <2>3, NamesKept
<1>2. CASE ~Crash
  <2>1. UNCHANGED <<handler, cut, incusId>> /\ names' \subseteq names
    BY <1>2 DEF Next, vars, OfferStep, OfferChecks, CreateRefused, CreateTransferWithFee,
       SettleTransferWithRefund, LeaseEnds, CleanupTimeoutTransfers, DeletionStep,
       DeletionOnly, DeletionReads, DeletionClaims, DeletionRemoves, DeletionMarks,
       DeletionSettles, DeletionCleans, DeletionFails, DeletionRestores, RecoveryLists, SyncMisses,
       SyncMarksDeleted, OtherWriter
  <2> QED
    BY <2>1, NamesKept DEF NoNewName
<1> QED
  BY <1>1, <1>2

\* A handler that gives the instance its name finds the one it has read, and so no other
\* handler at work has given it one since; the one that commits has given it its own.
LEMMA HandlerNames ==
    ASSUME NamesInv, BaseInv', NEW c \in Claims, HandlerStep(c)
    PROVE  NamesInv'
<1> USE DEF HandlerOnly, At, instance
<1> DEFINE old == handler[c].old
           Working(d) == handler[d].at \in {"renamed", "failed"} /\ d \notin cut
<1>0. /\ handler \in [Claims -> Handlers] /\ names \subseteq Names
      /\ \A m, n \in names : m = n
      /\ TypeOK /\ HandlersOK /\ NamesRead /\ NamesGiven /\ NameKnown
  BY DEF NamesInv, BaseInv, TypeOK
<1>00. \A d \in Claims : old = d => ~Working(d)
  BY <1>0 DEF NamesRead
<1>1. ASSUME handler[c].at \in {"renaming", "renamed", "failed"},
             NEW place, handler' = [handler EXCEPT ![c].at = place]
      PROVE  /\ handler'[c].old = old /\ handler'[c].at = place
             /\ \A d \in Claims : handler'[d].old = handler[d].old
             /\ \A d \in Claims : d # c => handler'[d] = handler[d]
  BY <1>0, <1>1 DEF Handlers
\* The instance gets the handler's name.
<1>2. CASE (Rename(c) \/ RenameFails(c)) /\ old \in names /\ names' = {c}
  <2>1. PICK place \in {"renamed", "rollback"} :
          /\ handler' = [handler EXCEPT ![c].at = place]
          /\ \/ place = "renamed" /\ cut' = cut
             \/ place = "rollback" /\ cut' = cut \cup {c}
    <3>1. names # {c}
      BY <1>0, <1>2 DEF Rename, RenameFails, NamesRead, HandlersOK
    <3> QED
      BY <1>2, <3>1 DEF Rename, RenameFails
  <2>2. handler[c].at = "renaming" /\ c \notin cut /\ incusId' = incusId
    BY <1>0, <1>2 DEF Rename, RenameFails, HandlersOK
  <2>3. Known(old)
    BY <1>0, <1>00, <1>2 DEF NameKnown, Known
  <2>4. \A d \in Claims : ~Working(d)
    BY <1>0, <1>00, <1>2 DEF NamesGiven
  <2>5. NamesRead'
    BY <1>0, <1>1, <2>1, <2>2 DEF NamesRead
  <2>6. NameKnown'
    BY <1>1, <1>2, <2>1, <2>2 DEF NameKnown, Known
  <2>7. NamesGiven'
    BY <1>0, <1>1, <1>2, <2>1, <2>2, <2>3, <2>4 DEF NamesGiven, Known, TypeOK
  <2> QED
    BY <2>5, <2>6, <2>7 DEF NamesInv
\* The row gets the handler's name.
<1>3. CASE (ExecuteTransfer(c) \/ ExecuteFails(c)) /\ incusId' = c
  <2>1. /\ handler[c].at = "renamed" /\ c \notin cut /\ names' = names
        /\ \/ handler' = [handler EXCEPT ![c].at = "done"] /\ cut' = cut
           \/ handler' = [handler EXCEPT ![c].at = "failed"] /\ cut' = cut \cup {c}
           \/ /\ handler' = [handler EXCEPT ![c].at = "failed"]
              /\ incusId' = incusId /\ cut' = cut
    BY <1>0, <1>3 DEF ExecuteTransfer, ExecuteFails, HandlersOK
  <2>2. names \subseteq {c} /\ incusId # c
    BY <1>0, <2>1 DEF NamesGiven, NamesRead
  <2>3. NamesRead'
    BY <1>0, <1>1, <1>3, <2>1, <2>2 DEF NamesRead
  <2>4. NameKnown'
    BY <1>3, <2>1, <2>2 DEF NameKnown, Known
  <2>5. NamesGiven'
    BY <1>0, <1>1, <1>3, <2>1, <2>2 DEF NamesGiven
  <2> QED
    BY <2>3, <2>4, <2>5 DEF NamesInv
\* The instance gets the name back that the handler has read.
<1>4. CASE RenameBack(c) /\ c \in names
  <2>1. /\ handler[c].at = "failed" /\ names' = {old} /\ cut' = cut
        /\ handler' = [handler EXCEPT ![c].at = "rollback"] /\ incusId' = incusId
    BY <1>4 DEF RenameBack
  <2>2. Known(old)
    BY <1>0, <1>4, <2>1 DEF NamesGiven, Known
  <2>3. \A d \in Claims : d # c => ~Working(d)
    BY <1>0, <1>4 DEF NamesGiven
  <2>4. NamesRead'
    BY <1>0, <1>1, <2>1 DEF NamesRead
  <2>5. NameKnown'
    BY <1>0, <1>1, <2>1, <2>2 DEF NameKnown, Known, TypeOK
  <2>6. NamesGiven'
    <3>1. /\ handler'[c].at = "rollback"
          /\ \A d \in Claims : d # c => handler'[d] = handler[d]
      BY <1>1, <2>1
    <3>2. \A d \in Claims : ~(handler'[d].at \in {"renamed", "failed"} /\ d \notin cut')
      BY <2>1, <2>3, <3>1
    <3> QED
      BY <3>2 DEF NamesGiven
  <2> QED
    BY <2>4, <2>5, <2>6 DEF NamesInv
\* The other steps give it none.
<1>5. CASE \E t \in Transfers : ClaimTransfer(c, t)
  <2>1. NoNewName
    BY <1>0, <1>5 DEF ClaimTransfer, NoNewName, Handlers
  <2> QED
    BY <2>1, NamesKept
<1>6. CASE Refuse(c) \/ MarkRenaming(c) \/ Rollback(c) \/ RenameBackFails(c)
  <2>1. NoNewName
    BY <1>0, <1>6 DEF Refuse, MarkRenaming, Rollback, RenameBackFails, NoNewName, Handlers
  <2> QED
    BY <2>1, NamesKept
<1>7. CASE (Rename(c) \/ RenameFails(c)) /\ ~(old \in names /\ names' = {c})
  <2>1. NoNewName
    BY <1>0, <1>7 DEF Rename, RenameFails, NoNewName, Handlers
  <2> QED
    BY <2>1, NamesKept
<1>8. CASE (ExecuteTransfer(c) \/ ExecuteFails(c)) /\ incusId' # c
  <2>1. NoNewName
    BY <1>0, <1>8 DEF ExecuteTransfer, ExecuteFails, Commit, NoNewName, Handlers
  <2> QED
    BY <2>1, NamesKept
<1>9. CASE RenameBack(c) /\ c \notin names
  <2>1. NoNewName
    BY <1>0, <1>9 DEF RenameBack, NoNewName, Handlers
  <2> QED
    BY <2>1, NamesKept
<1> QED
  BY <1>2, <1>3, <1>4, <1>5, <1>6, <1>7, <1>8, <1>9 DEF HandlerStep

\* Whatever handlers of expired claims, deletions and crashes do, a name the instance
\* has in Incus is that of its row, or of a handler at work or cut off.
THEOREM NamesTraced == Spec => []NameKnown
<1>1. NamesInv /\ [Next]_vars => NamesInv'
  BY BaseStep, OtherNames, HandlerNames DEF NamesInv
<1>2. NamesInv => NameKnown
  BY DEF NamesInv
<1> QED
  BY <1>1, <1>2, NamesInit, PTL DEF Spec

------------------------------------------------------------------------------
(* The transfers do what TransferDeeds promises. *)

\* What the users see of the transfers.
Seen == [t \in Transfers |-> DeedState(t)]
Parties == <<[t \in Transfers |-> rows[t].from], [t \in Transfers |-> rows[t].to]>>

\* Each state of a row as the users see it.
LEMMA DeedStates ==
    ASSUME BaseInv, NEW t \in Transfers
    PROVE  /\ Open(t) <=> DeedState(t) = "open"
           /\ rows[t].status = "accepted" <=> DeedState(t) = "given"
           /\ rows[t].status = "none" => DeedState(t) = "none"
           /\ rows[t].status \in {"rejected", "cancelled"} /\ rows[t].refunded
                 => DeedState(t) = "returned"
           /\ rows[t].status = "cancelled" /\ ~rows[t].refunded => DeedState(t) = "dropped"
BY DEF BaseInv, FeesOK, Open, DeedState

\* A step that keeps owner and fees, and keeps every row open or as it was.
LEMMA DeedsKept ==
    ASSUME BaseInv, BaseInv', UNCHANGED <<owner, fees>>,
           \A t \in Transfers :
              \/ rows'[t] = rows[t]
              \/ Open(t) /\ Open(t)' /\ rows'[t].from = rows[t].from /\ rows'[t].to = rows[t].to
    PROVE  UNCHANGED Deeds!deeds
<1>1. ASSUME NEW t \in Transfers PROVE DeedState(t)' = DeedState(t)
  <2>1. CASE rows'[t] = rows[t]
    BY <2>1 DEF DeedState, Open
  <2>2. CASE Open(t) /\ Open(t)'
    <3>1. DeedState(t) = "open"
      BY <2>2, DeedStates
    <3>2. DeedState(t)' = "open"
      BY <2>2 DEF BaseInv, FeesOK, Open, DeedState
    <3> QED
      BY <3>1, <3>2
  <2> QED
    BY <2>1, <2>2
<1>2. \A t \in Transfers : rows'[t].from = rows[t].from /\ rows'[t].to = rows[t].to
  OBVIOUS
<1> QED
  BY <1>1, <1>2 DEF Deeds!deeds

\* A step that changes one row, and moves its transfer from one state to another.
LEMMA DeedMoves ==
    ASSUME NEW t \in Transfers, NEW row, rows \in [Transfers -> Rows],
           rows' = [rows EXCEPT ![t] = row], row.from = rows[t].from, row.to = rows[t].to
    PROVE  /\ Seen' = [Seen EXCEPT ![t] = DeedState(t)']
           /\ UNCHANGED Parties
<1>1. \A s \in Transfers : s # t => rows'[s] = rows[s]
  OBVIOUS
<1>2. \A s \in Transfers : s # t => DeedState(s)' = DeedState(s)
  BY <1>1 DEF DeedState, Open
<1>3. rows'[t] = row
  OBVIOUS
<1>4. Seen' = [Seen EXCEPT ![t] = DeedState(t)']
  BY <1>2 DEF Seen
<1>5. UNCHANGED Parties
  BY <1>1, <1>3 DEF Parties
<1> QED
  BY <1>4, <1>5

\* A claim that is given up leaves the transfer pending, between the same users.
LEMMA UnclaimedOpen ==
    ASSUME NEW row \in Rows
    PROVE  LET free == Unclaimed(row) IN
           free.status = "pending" /\ free.from = row.from /\ free.to = row.to
BY DEF Rows, Unclaimed

\* A handler's commit gives the instance; nothing else that it does is seen.
LEMMA HandlerDeeds ==
    ASSUME BaseInv, BaseInv', NEW c \in Claims, HandlerStep(c)
    PROVE  [Deeds!Next]_(Deeds!deeds)
<1> USE DEF HandlerOnly, At, instance
<1>0. rows \in [Transfers -> Rows] /\ handler \in [Claims -> Handlers] /\ HandlersOK
  BY DEF BaseInv, TypeOK
<1>1. CASE (ExecuteTransfer(c) \/ ExecuteFails(c)) /\ Commits(c) /\ Commit(c)
  <2>1. PICK t \in Transfers : t = handler[c].of /\ rows[t] \in Rows
    BY <1>0, <1>1 DEF ExecuteTransfer, ExecuteFails, HandlersOK
  <2> DEFINE row == [rows[t] EXCEPT !.status = "accepted", !.lease = "none"]
  <2>2. /\ Held(c, t) /\ rows' = [rows EXCEPT ![t] = row]
        /\ owner = rows[t].from /\ owner' = rows[t].to /\ UNCHANGED fees
    BY <1>1, <2>1 DEF ExecuteTransfer, ExecuteFails, Commit, Commits, Become
  <2>3. /\ row.from = rows[t].from /\ row.to = rows[t].to /\ row.status = "accepted"
        /\ row.refunded = rows[t].refunded
    BY <2>1 DEF Rows
  <2>4. DeedState(t) = "open" /\ ~rows[t].refunded
    BY <2>1, <2>2, DeedStates DEF Held, Open, BaseInv, FeesOK
  <2>5. rows'[t] = row
    BY <1>0, <2>1, <2>2
  <2> HIDE DEF row
  <2>6. DeedState(t)' = "given"
    BY <2>3, <2>4, <2>5 DEF DeedState, Open
  <2>7. Seen' = [Seen EXCEPT ![t] = "given"] /\ UNCHANGED Parties
    BY <1>0, <2>1, <2>2, <2>3, <2>6, DeedMoves
  <2>8. Deeds!Give(t)
    BY <2>1, <2>2, <2>4, <2>7 DEF Deeds!Give, Deeds!Move, Seen, Parties
  <2> QED
    BY <2>1, <2>8 DEF Deeds!Next
<1>2. CASE (ExecuteTransfer(c) \/ ExecuteFails(c)) /\ ~(Commits(c) /\ Commit(c))
  <2>1. UNCHANGED <<rows, owner, fees>>
    BY <1>2 DEF ExecuteTransfer, ExecuteFails
  <2> QED
    BY <2>1, DeedsKept
<1>3. CASE \/ Refuse(c) \/ MarkRenaming(c) \/ Rename(c) \/ RenameFails(c)
           \/ RenameBack(c) \/ RenameBackFails(c)
  <2>1. UNCHANGED <<rows, owner, fees>>
    BY <1>3 DEF Refuse, MarkRenaming, Rename, RenameFails, RenameBack, RenameBackFails
  <2> QED
    BY <2>1, DeedsKept
<1>4. ASSUME NEW t \in Transfers, ClaimTransfer(c, t) PROVE [Deeds!Next]_(Deeds!deeds)
  <2>1. \A s \in Transfers :
          \/ rows'[s] = rows[s]
          \/ Open(s) /\ Open(s)' /\ rows'[s].from = rows[s].from /\ rows'[s].to = rows[s].to
    BY <1>0, <1>4 DEF ClaimTransfer, Become, Rows, Open
  <2> QED
    BY <1>4, <2>1, DeedsKept DEF ClaimTransfer
<1>5. CASE Rollback(c)
  <2>1. PICK t \in Transfers : t = handler[c].of /\ rows[t] \in Rows
    BY <1>0, <1>5 DEF Rollback, HandlersOK
  <2>2. \A s \in Transfers :
          \/ rows'[s] = rows[s]
          \/ Open(s) /\ Open(s)' /\ rows'[s].from = rows[s].from /\ rows'[s].to = rows[s].to
    <3>1. CASE rows' = rows
      BY <3>1
    <3>2. CASE Held(c, t) /\ rows' = [rows EXCEPT ![t] = Unclaimed(rows[t])]
      BY <1>0, <2>1, <3>2, UnclaimedOpen DEF Held, Open
    <3> QED
      BY <1>5, <2>1, <3>1, <3>2 DEF Rollback, Become
  <2> QED
    BY <1>5, <2>2, DeedsKept DEF Rollback
<1> QED
  BY <1>1, <1>2, <1>3, <1>4, <1>5 DEF HandlerStep

\* An offer, its answer, and the deletion of the instance.
LEMMA UserDeeds ==
    ASSUME BaseInv, BaseInv', OfferStep \/ DeletionStep
    PROVE  [Deeds!Next]_(Deeds!deeds)
<1> USE DEF instance, places, DeletionOnly
<1>0. /\ rows \in [Transfers -> Rows] /\ fees \in [Users -> Nat]
      /\ \A t \in Transfers : rows[t] \in Rows
  BY DEF BaseInv, TypeOK
<1>1. ASSUME NEW t \in Transfers, NEW u \in Users, NEW v \in Users,
             CreateTransferWithFee(t, u, v)
      PROVE  Deeds!Next
  <2>1. /\ owner = u /\ u # v /\ rows[t].status = "none" /\ owner' = owner
        /\ fees' = [fees EXCEPT ![u] = @ + 1]
        /\ \A s \in Transfers : ~Open(s) /\ DeedState(s) # "open"
    BY <1>1, DeedStates DEF CreateTransferWithFee, Locked
  <2>2. /\ rows'[t].status = "pending" /\ rows'[t].from = u /\ rows'[t].to = v
        /\ ~rows'[t].refunded
        /\ \A s \in Transfers : s # t => rows'[s] = rows[s]
    BY <1>0, <1>1 DEF CreateTransferWithFee, Become
  <2>3. /\ DeedState(t) = "none" /\ DeedState(t)' = "open"
        /\ \A s \in Transfers : s # t => DeedState(s)' = DeedState(s)
    BY <2>1, <2>2, DeedStates DEF DeedState, Open
  <2>4. Deeds!Offer(t, u, v)
    BY <2>1, <2>2, <2>3 DEF Deeds!Offer, Deeds!Move
  <2> QED
    BY <2>4 DEF Deeds!Next
<1>2. ASSUME NEW t \in Transfers, NEW outcome \in {"rejected", "cancelled"},
             SettleTransferWithRefund(t, outcome)
      PROVE  Deeds!Next
  <2> DEFINE row == [rows[t] EXCEPT !.status = outcome, !.refunded = TRUE]
  <2>1. /\ rows' = [rows EXCEPT ![t] = row] /\ rows[t].status = "pending"
        /\ fees' = [fees EXCEPT ![rows[t].from] = @ - 1] /\ owner' = owner
    BY <1>2 DEF SettleTransferWithRefund, Become
  <2>2. /\ row.from = rows[t].from /\ row.to = rows[t].to /\ row.refunded = TRUE
        /\ row.status \in {"rejected", "cancelled"}
    BY <1>0 DEF Rows
  <2>3. rows'[t] = row
    BY <1>0, <2>1
  <2> HIDE DEF row
  <2>4. DeedState(t)' = "returned"
    BY <2>2, <2>3 DEF DeedState, Open
  <2>5. DeedState(t) = "open"
    BY <2>1, DeedStates DEF Open
  <2>6. Seen' = [Seen EXCEPT ![t] = "returned"] /\ UNCHANGED Parties
    BY <1>0, <2>1, <2>2, <2>4, DeedMoves
  <2>7. Deeds!Return(t)
    BY <2>1, <2>5, <2>6 DEF Deeds!Return, Deeds!Move, Seen, Parties
  <2> QED
    BY <2>7 DEF Deeds!Next
<1>3. CASE DeletionCleans /\ rows' # rows
  <2>1. PICK t \in Transfers : rows[t].status = "pending"
    BY <1>0, <1>3 DEF DeletionCleans
  <2> DEFINE row == [rows[t] EXCEPT !.status = "cancelled"]
  <2>2. \A s \in Transfers : s # t => rows[s].status # "pending"
    BY <2>1 DEF BaseInv, OneOpen, Open
  <2>3. rows' = [rows EXCEPT ![t] = row] /\ UNCHANGED <<owner, fees>>
    BY <1>0, <1>3, <2>1, <2>2 DEF DeletionCleans
  <2>4. /\ row.from = rows[t].from /\ row.to = rows[t].to /\ row.status = "cancelled"
        /\ row.refunded = rows[t].refunded /\ ~rows[t].refunded
    BY <1>0, <2>1 DEF Rows, BaseInv, FeesOK
  <2>5. rows'[t] = row
    BY <1>0, <2>3
  <2> HIDE DEF row
  <2>6. DeedState(t) = "open" /\ DeedState(t)' = "dropped"
    BY <2>1, <2>4, <2>5, DeedStates DEF DeedState, Open
  <2>7. Seen' = [Seen EXCEPT ![t] = "dropped"] /\ UNCHANGED Parties
    BY <1>0, <2>3, <2>4, <2>6, DeedMoves
  <2>8. Deeds!Drop(t)
    BY <2>3, <2>6, <2>7 DEF Deeds!Drop, Deeds!Move, Seen, Parties
  <2> QED
    BY <2>8 DEF Deeds!Next
<1>4. CASE UNCHANGED <<rows, owner, fees>>
  BY <1>4, DeedsKept
<1>5. DeletionStep /\ ~(DeletionCleans /\ rows' # rows) => UNCHANGED <<rows, owner, fees>>
  BY DEF DeletionStep, DeletionReads, DeletionClaims, DeletionRemoves, DeletionMarks,
     DeletionSettles, DeletionCleans, DeletionFails, DeletionRestores, RecoveryLists
<1>6. (\E t \in Transfers, u \in Users : OfferChecks(t, u) \/ CreateRefused(t, u))
        => UNCHANGED <<rows, owner, fees>>
  BY DEF OfferChecks, CreateRefused
<1> QED
  BY <1>1, <1>2, <1>3, <1>4, <1>5, <1>6 DEF OfferStep

\* Every step is a deed, or changes nothing that a user sees.
LEMMA DeedsStep == BaseInv /\ BaseInv' /\ [Next]_vars => [Deeds!Next]_(Deeds!deeds)
<1> SUFFICES ASSUME BaseInv, BaseInv', [Next]_vars PROVE [Deeds!Next]_(Deeds!deeds)
  OBVIOUS
<1> USE DEF instance, places
<1>0. rows \in [Transfers -> Rows]
  BY DEF BaseInv, TypeOK
<1>1. CASE SyncMisses \/ SyncMarksDeleted \/ OtherWriter \/ Crash \/ UNCHANGED vars
  <2>1. UNCHANGED <<rows, owner, fees>>
    BY <1>1 DEF SyncMisses, SyncMarksDeleted, OtherWriter, Crash, vars
  <2> QED
    BY <2>1, DeedsKept
<1>2. CASE (\E t \in Transfers : LeaseEnds(t)) \/ CleanupTimeoutTransfers
  <2>1. \A s \in Transfers :
          \/ rows'[s] = rows[s]
          \/ Open(s) /\ Open(s)' /\ rows'[s].from = rows[s].from /\ rows'[s].to = rows[s].to
    <3>1. CASE CleanupTimeoutTransfers
      BY <1>0, <3>1, UnclaimedOpen DEF CleanupTimeoutTransfers, Open
    <3>2. ASSUME NEW t \in Transfers, LeaseEnds(t), NEW s \in Transfers
          PROVE  \/ rows'[s] = rows[s]
                 \/ /\ Open(s) /\ Open(s)'
                    /\ rows'[s].from = rows[s].from /\ rows'[s].to = rows[s].to
      BY <1>0, <3>2 DEF LeaseEnds, Become, Rows, Open
    <3> QED
      BY <1>2, <3>1, <3>2
  <2> QED
    BY <1>2, <2>1, DeedsKept DEF LeaseEnds, CleanupTimeoutTransfers
<1> QED
  BY <1>1, <1>2, HandlerDeeds, UserDeeds DEF Next

\* However accept, push, reject, cancel, clean-up, deletions and crashes interleave, one
\* transfer is open at a time, it gives the instance to its receiver once and at once,
\* and its fee comes back once, and never when it was accepted.
THEOREM TransfersImplementDeeds == Spec => DeedsSpec
<1>1. Init => Deeds!Init
  BY DEF Init, DeedState, Open, Deeds!Init
<1> QED
  BY <1>1, BaseInit, BaseStep, DeedsStep, PTL DEF Spec, DeedsSpec, Deeds!Spec

\* What TransferDeeds keeps, the transfers keep.
Kept == INSTANCE TransferDeedsProofs
    WITH state <- [t \in Transfers |-> DeedState(t)],
         from <- [t \in Transfers |-> rows[t].from],
         to <- [t \in Transfers |-> rows[t].to]

\* However accept, push, reject, cancel, clean-up, deletions and crashes interleave, no
\* user pays a fee twice, or for an offer that came back, and the owner of the instance
\* is the one whom the accepted transfers lead to.
THEOREM FeesAndOwnerBalance == Spec => []DeedsBalanced
<1>1. Kept!IsFiniteSet(Transfers) /\ Seller \in Users
  BY TransferAssumption DEF IsFiniteSet, Kept!IsFiniteSet
<1>2. Kept!Spec => []Kept!Balanced
  BY <1>1, Kept!DeedsBalanced
<1>3. Kept!Init <=> Deeds!Init
  BY DEF Kept!Init, Deeds!Init
<1>4. [Kept!Next]_(Kept!deeds) <=> [Deeds!Next]_(Deeds!deeds)
  BY DEF Kept!Next, Kept!Offer, Kept!Give, Kept!Return, Kept!Drop, Kept!Move, Kept!deeds,
     Deeds!Next, Deeds!Offer, Deeds!Give, Deeds!Return, Deeds!Drop, Deeds!Move, Deeds!deeds
<1>5. Kept!Balanced <=> DeedsBalanced
  <2>1. \A S : Kept!Cardinality(S) = Deeds!Cardinality(S)
    BY DEF Kept!Cardinality, Deeds!Cardinality
  <2> QED
    BY <2>1 DEF DeedsBalanced, Kept!Balanced, Deeds!Balanced, Kept!Has, Deeds!Has, Kept!Paid,
       Deeds!Paid, Kept!Parted, Deeds!Parted, Kept!Received, Deeds!Received
<1> QED
  BY <1>2, <1>3, <1>4, <1>5, TransfersImplementDeeds, PTL
     DEF DeedsSpec, Deeds!Spec, Kept!Spec

\* A transfer that was accepted, rejected or cancelled stays so for good, and at most one
\* more deed follows its offer: a late handler, a second answer, a clean-up or a restored
\* deletion opens none again.
OutcomeFinal ==
    [][\A t \in Transfers :
         DeedState(t) \notin {"none", "open"} => DeedState(t)' = DeedState(t)]_(Deeds!deeds)

\* It follows from the refinement: no deed of TransferDeeds leaves an outcome (the
\* compare-and-set of executeTransferTransaction, settleTransferWithRefund).
THEOREM OutcomesFinal == Spec => OutcomeFinal
<1>1. [Deeds!Next]_(Deeds!deeds) =>
        [\A t \in Transfers :
           DeedState(t) \notin {"none", "open"} => DeedState(t)' = DeedState(t)]_(Deeds!deeds)
  <2> SUFFICES ASSUME [Deeds!Next]_(Deeds!deeds), NEW t \in Transfers,
                      DeedState(t) \notin {"none", "open"}
               PROVE  DeedState(t)' = DeedState(t)
    OBVIOUS
  <2>1. ASSUME NEW s \in Transfers, NEW old \in {"none", "open"}, NEW new, Deeds!Move(s, old, new)
        PROVE  DeedState(t)' = DeedState(t)
    <3>1. Seen[s] = old /\ Seen' = [Seen EXCEPT ![s] = new]
      BY <2>1 DEF Deeds!Move, Seen
    <3>2. s # t /\ Seen'[t] = Seen[t]
      BY <3>1 DEF Seen
    <3> QED
      BY <3>2 DEF Seen
  <2>2. CASE UNCHANGED Deeds!deeds
    <3>1. Seen' = Seen
      BY <2>2 DEF Deeds!deeds, Seen
    <3>2. Seen'[t] = Seen[t]
      BY <3>1
    <3> QED
      BY <3>2 DEF Seen
  <2> QED
    BY <2>1, <2>2 DEF Deeds!Next, Deeds!Offer, Deeds!Give, Deeds!Return, Deeds!Drop
<1> QED
  BY <1>1, TransfersImplementDeeds, PTL DEF DeedsSpec, Deeds!Spec, OutcomeFinal

------------------------------------------------------------------------------
(* Every claim has an end: what ClaimEnds rests on in each state. *)

\* A transfer in process has a lease that runs or is over, and the token of the one
\* handler that drew it for this transfer.
ClaimsLeased ==
    \A t \in Transfers : rows[t].status = "processing" =>
        /\ rows[t].lease \in {"live", "over"} /\ rows[t].token \in Claims
        /\ handler[rows[t].token].at # "unused" /\ handler[rows[t].token].of = t

\* Rows that become pending or end, and handlers that keep their transfer, keep it.
LEMMA LeasesKept ==
    ASSUME ClaimsLeased,
           \A t \in Transfers :
              \/ rows'[t].status # "processing"
              \/ /\ rows[t].status = "processing" /\ rows'[t].token = rows[t].token
                 /\ rows'[t].lease \in {rows[t].lease, "over"},
           \A c \in Claims : handler[c].at # "unused" =>
              handler'[c].at # "unused" /\ handler'[c].of = handler[c].of
    PROVE  ClaimsLeased'
BY DEF ClaimsLeased

\* What the writes of a claimed row leave in it.
LEMMA RowWrites ==
    ASSUME NEW row \in Rows
    PROVE  /\ Unclaimed(row).status = "pending"
           /\ [row EXCEPT !.status = "accepted", !.lease = "none"].status = "accepted"
           /\ LET over == [row EXCEPT !.lease = "over"] IN
                over.status = row.status /\ over.token = row.token /\ over.lease = "over"
BY DEF Rows, Unclaimed

LEMMA LeasedStep == BaseInv /\ ClaimsLeased /\ [Next]_vars => ClaimsLeased'
<1> SUFFICES ASSUME BaseInv, ClaimsLeased, [Next]_vars PROVE ClaimsLeased'
  OBVIOUS
<1>0. /\ rows \in [Transfers -> Rows] /\ handler \in [Claims -> Handlers]
      /\ NoClaim \notin Claims /\ HandlersOK
  BY TransferAssumption DEF BaseInv, TypeOK
<1>1. ASSUME NEW c \in Claims, NEW t \in Transfers, ClaimTransfer(c, t) PROVE ClaimsLeased'
  <2>1. /\ rows'[t].status = "processing" /\ rows'[t].token = c /\ rows'[t].lease = "live"
        /\ handler'[c].at = "claimed" /\ handler'[c].of = t /\ handler[c].at = "unused"
        /\ \A s \in Transfers : s # t => rows'[s] = rows[s]
        /\ \A d \in Claims : d # c => handler'[d] = handler[d]
    BY <1>0, <1>1 DEF ClaimTransfer, Become, Rows, Handlers
  <2> QED
    BY <2>1 DEF ClaimsLeased
<1>2. ASSUME NEW c \in Claims, HandlerStep(c), ~\E t \in Transfers : ClaimTransfer(c, t)
      PROVE  ClaimsLeased'
  <2>1. PICK place : handler' = [handler EXCEPT ![c].at = place] /\ place # "unused"
    BY <1>2 DEF HandlerStep, Refuse, MarkRenaming, Rename, RenameFails, ExecuteTransfer,
       ExecuteFails, RenameBack, RenameBackFails, Rollback, At
  <2>2. \A d \in Claims : handler[d].at # "unused" =>
          handler'[d].at # "unused" /\ handler'[d].of = handler[d].of
    BY <1>0, <2>1 DEF Handlers
  <2>3. \/ UNCHANGED rows
        \/ rows' = [rows EXCEPT ![handler[c].of] =
                      [rows[handler[c].of] EXCEPT !.status = "accepted", !.lease = "none"]]
        \/ rows' = [rows EXCEPT ![handler[c].of] = Unclaimed(rows[handler[c].of])]
    BY <1>2 DEF HandlerStep, Refuse, MarkRenaming, Rename, RenameFails, ExecuteTransfer,
       ExecuteFails, Commit, Become, RenameBack, RenameBackFails, Rollback
  <2>4. \A t \in Transfers : rows'[t] = rows[t] \/ rows'[t].status \in {"accepted", "pending"}
    <3>1. ASSUME NEW row, rows' = [rows EXCEPT ![handler[c].of] = row], NEW t \in Transfers
          PROVE  rows'[t] = rows[t] \/ (t = handler[c].of /\ rows'[t] = row)
      BY <1>0, <3>1
    <3> DEFINE gives(row) == [row EXCEPT !.status = "accepted", !.lease = "none"]
    <3>2. \A row \in Rows : gives(row).status = "accepted" /\ Unclaimed(row).status = "pending"
      BY RowWrites
    <3> HIDE DEF gives
    <3>3. CASE rows' = [rows EXCEPT ![handler[c].of] = gives(rows[handler[c].of])]
      BY <1>0, <3>1, <3>2, <3>3
    <3>4. CASE rows' = [rows EXCEPT ![handler[c].of] = Unclaimed(rows[handler[c].of])]
      BY <1>0, <3>1, <3>2, <3>4
    <3> QED
      BY <2>3, <3>3, <3>4 DEF gives
  <2> QED
    BY <2>2, <2>4, LeasesKept
<1>3. ASSUME UNCHANGED handler,
             \A t \in Transfers : \/ rows'[t] = rows[t]
                                  \/ rows'[t].status # "processing"
                                  \/ /\ rows'[t].status = rows[t].status
                                     /\ rows'[t].token = rows[t].token
                                     /\ rows'[t].lease = "over"
      PROVE  ClaimsLeased'
  <2>1. \A t \in Transfers :
          \/ rows'[t].status # "processing"
          \/ /\ rows[t].status = "processing" /\ rows'[t].token = rows[t].token
             /\ rows'[t].lease \in {rows[t].lease, "over"}
    BY <1>3
  <2> QED
    BY <1>3, <2>1, LeasesKept
<1>4. CASE OfferStep
  <2>1. UNCHANGED handler
    BY <1>4 DEF OfferStep, OfferChecks, CreateRefused, CreateTransferWithFee,
       SettleTransferWithRefund, places
  <2>2. \A t \in Transfers : rows'[t] = rows[t] \/ rows'[t].status # "processing"
    <3>1. CASE UNCHANGED rows
      BY <3>1
    <3>2. ASSUME NEW s \in Transfers, NEW u \in Users, NEW v \in Users,
                 CreateTransferWithFee(s, u, v)
          PROVE  \A t \in Transfers : rows'[t] = rows[t] \/ rows'[t].status = "pending"
      BY <1>0, <3>2 DEF CreateTransferWithFee, Become
    <3>3. ASSUME NEW s \in Transfers, NEW outcome \in {"rejected", "cancelled"},
                 SettleTransferWithRefund(s, outcome)
          PROVE  \A t \in Transfers : rows'[t] = rows[t] \/ rows'[t].status = outcome
      BY <1>0, <3>3 DEF SettleTransferWithRefund, Become, Rows
    <3> QED
      BY <1>4, <3>1, <3>2, <3>3 DEF OfferStep, OfferChecks, CreateRefused
  <2> QED
    BY <1>3, <2>1, <2>2
<1>5. CASE (\E t \in Transfers : LeaseEnds(t)) \/ CleanupTimeoutTransfers
  <2>1. UNCHANGED handler
    BY <1>5 DEF LeaseEnds, CleanupTimeoutTransfers, places
  <2>2. CASE CleanupTimeoutTransfers
    <3>1. \A t \in Transfers : rows'[t] = rows[t] \/ rows'[t].status = "pending"
      BY <1>0, <2>2, UnclaimedOpen DEF CleanupTimeoutTransfers
    <3> QED
      BY <1>3, <2>1, <3>1
  <2>3. CASE \E t \in Transfers : LeaseEnds(t)
    <3>1. \A t \in Transfers : rows'[t] = rows[t] \/ rows'[t] = [rows[t] EXCEPT !.lease = "over"]
      BY <1>0, <2>3 DEF LeaseEnds, Become
    <3>2. \A t \in Transfers : \/ rows'[t] = rows[t]
                               \/ /\ rows'[t].status = rows[t].status
                                  /\ rows'[t].token = rows[t].token
                                  /\ rows'[t].lease = "over"
      <4> TAKE t \in Transfers
      <4>1. rows[t] \in Rows
        BY <1>0
      <4> QED
        BY <3>1, <4>1, RowWrites
    <3> QED
      BY <1>3, <2>1, <3>2
  <2> QED
    BY <1>5, <2>2, <2>3
<1>6. CASE DeletionStep
  <2>1. UNCHANGED handler
    BY <1>6 DEF DeletionStep, DeletionReads, DeletionClaims, DeletionRemoves, DeletionMarks,
       DeletionSettles, DeletionCleans, DeletionFails, DeletionRestores, RecoveryLists,
       DeletionOnly
  <2>2. \A t \in Transfers : rows'[t] = rows[t] \/ rows'[t].status = "cancelled"
    BY <1>0, <1>6 DEF DeletionStep, DeletionReads, DeletionClaims, DeletionRemoves,
       DeletionMarks, DeletionSettles, DeletionCleans, DeletionFails, DeletionRestores,
       RecoveryLists, Rows
  <2> QED
    BY <1>3, <2>1, <2>2
<1>7. CASE SyncMisses \/ SyncMarksDeleted \/ OtherWriter \/ UNCHANGED vars
  BY <1>3, <1>7 DEF SyncMisses, SyncMarksDeleted, OtherWriter, vars, places
<1>8. CASE Crash
  <2>1. UNCHANGED rows /\ \A c \in Claims : handler[c].at # "unused" =>
          handler'[c].at # "unused" /\ handler'[c].of = handler[c].of
    BY <1>0, <1>8 DEF Crash, Handlers
  <2> QED
    BY <2>1, LeasesKept DEF ClaimsLeased
<1> QED
  BY <1>1, <1>2, <1>4, <1>5, <1>6, <1>7, <1>8 DEF Next

\* However handlers die, fail or come late, a claimed transfer belongs to the one handler
\* that drew its token, and has a lease that ends it without that handler
\* (claimTransferTransaction, cleanupTimeoutTransfers).
THEOREM ClaimsEndable == Spec => []ClaimsLeased
<1>1. Init => ClaimsLeased
  BY DEF Init, ClaimsLeased
<1> QED
  BY <1>1, BaseInit, BaseStep, LeasedStep, PTL DEF Spec
==============================================================================
