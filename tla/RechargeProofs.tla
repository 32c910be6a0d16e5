---------------------------- MODULE RechargeProofs ----------------------------
(***************************************************************************)
(* Proofs about Recharge for any orders, requests, face value and faults.  *)
(* OrdersInv adds to the properties what a request in progress knows: that *)
(* the payment it acts on was made, and that the order it has settled, or  *)
(* saw settled, stays so.                                                  *)
(***************************************************************************)
EXTENDS Recharge, FiniteSetTheorems, TLAPS

\* What a request that is in progress may rely on.
RequestOK(r) ==
    r.at # "idle" =>
      /\ r.order \in Orders
      /\ r.kind = "callback" \/ r.at \in {"read", "marking"} => r.notice \in Notices
      /\ r.notice = "paid" => "paid" \in sent[r.order]
      /\ r.at \in {"asked", "completing"} \/ r.notice = "paid" => r.amount \in 1..Amount
      /\ r.at = "completing" /\ r.kind # "complete" => r.notice = "paid"
      /\ r.at = "ending" => r.notice # "paid"
      /\ r.at \in {"ending", "marking"} => r.notice # "short"
      /\ r.seen = "completed" => status[r.order] = "completed"
      /\ r.at = "marking" /\ r.notice = "paid" => status[r.order] = "completed"
HandlersOK == \A h \in Handlers : RequestOK(handler[h])

\* Payments are reported; a mark of a payment stands for a credited order, and a payment
\* that falls short leaves none.
Reported == \A o \in Orders : invoice[o] = "paid" => "paid" \in sent[o]
MarksJustified ==
    \A o \in Orders :
        "short" \notin marks[o] /\ ("paid" \in marks[o] => status[o] = "completed")

OrdersInv ==
    /\ TypeOK /\ CreditMatchesOrder /\ CreditJustified
    /\ Reported /\ MarksJustified /\ HandlersOK

\* Notices and completed orders last.
Persists ==
    \A o \in Orders :
        /\ sent[o] \subseteq sent'[o]
        /\ status[o] = "completed" => status'[o] = "completed"

------------------------------------------------------------------------------
(* Requests that are not touched, begin or end. *)

\* The other requests keep what they rely on.
LEMMA HandlersKept ==
    ASSUME HandlersOK, Persists, NEW h \in Handlers,
           \A g \in Handlers \ {h} : handler'[g] = handler[g], RequestOK(handler[h])'
    PROVE  HandlersOK'
<1> SUFFICES ASSUME NEW g \in Handlers \ {h} PROVE RequestOK(handler[g])'
  BY DEF HandlersOK
<1>1. RequestOK(handler[g]) /\ handler'[g] = handler[g]
  BY DEF HandlersOK
<1> QED
  BY <1>1 DEF RequestOK, Persists

\* So do all of them when none is touched.
LEMMA HandlersStay == HandlersOK /\ Persists /\ UNCHANGED handler => HandlersOK'
<1> SUFFICES ASSUME HandlersOK, Persists, UNCHANGED handler, NEW g \in Handlers
             PROVE  RequestOK(handler[g])'
  BY DEF HandlersOK
<1>1. RequestOK(handler[g])
  BY DEF HandlersOK
<1> QED
  BY <1>1 DEF RequestOK, Persists

\* The moves of a request keep its type.
LEMMA Moves ==
    ASSUME TypeOK, NEW h \in Handlers
    PROVE  /\ handler[h] \in Requests
           /\ End(h) =>
                /\ handler' \in [Handlers -> Requests] /\ handler'[h] = Idle
                /\ \A g \in Handlers \ {h} : handler'[g] = handler[g]
           /\ \A place \in Places : Goto(h, place) =>
                /\ handler' \in [Handlers -> Requests]
                /\ handler'[h] = [handler[h] EXCEPT !.at = place]
                /\ \A g \in Handlers \ {h} : handler'[g] = handler[g]
<1>1. handler \in [Handlers -> Requests] /\ handler[h] \in Requests
  BY DEF TypeOK
<1>2. Idle \in Requests
  BY RechargeAssumption DEF Idle, Requests, Places, Kinds, Notices, Statuses
<1>3. \A place \in Places : [handler[h] EXCEPT !.at = place] \in Requests
  BY <1>1 DEF Requests
<1>4. ASSUME End(h)
      PROVE  /\ handler' \in [Handlers -> Requests] /\ handler'[h] = Idle
             /\ \A g \in Handlers \ {h} : handler'[g] = handler[g]
  BY <1>1, <1>2, <1>4 DEF End
<1>5. ASSUME NEW place \in Places, Goto(h, place)
      PROVE  /\ handler' \in [Handlers -> Requests]
             /\ handler'[h] = [handler[h] EXCEPT !.at = place]
             /\ \A g \in Handlers \ {h} : handler'[g] = handler[g]
  BY <1>1, <1>3, <1>5 DEF Goto
<1> QED
  BY <1>1, <1>4, <1>5

\* A request that ends leaves the others as they are.
LEMMA Ends ==
    ASSUME TypeOK, HandlersOK, Persists, NEW h \in Handlers, End(h)
    PROVE  HandlersOK'
<1>1. handler'[h] = Idle /\ \A g \in Handlers \ {h} : handler'[g] = handler[g]
  BY Moves
<1>2. RequestOK(handler[h])'
  BY <1>1 DEF RequestOK, Idle
<1> QED
  BY <1>1, <1>2, HandlersKept

\* A request that goes on relies on what its new place asks for.
LEMMA GoesOn ==
    ASSUME TypeOK, HandlersOK, Persists, NEW h \in Handlers, handler[h].at # "idle",
           NEW place \in Places, Goto(h, place),
           place = "marking" => handler[h].notice \in Notices,
           place = "completing" => handler[h].notice = "paid",
           place = "ending" => handler[h].notice # "paid",
           place \in {"ending", "marking"} => handler[h].notice # "short",
           place \notin {"asked", "read"},
           place = "marking" /\ handler[h].notice = "paid" =>
               status'[OrderOf(h)] = "completed"
    PROVE  HandlersOK'
<1>1. /\ handler[h] \in Requests /\ handler'[h] = [handler[h] EXCEPT !.at = place]
      /\ \A g \in Handlers \ {h} : handler'[g] = handler[g]
  BY Moves
<1>2. RequestOK(handler[h])
  BY DEF HandlersOK
<1>3. /\ handler'[h].at = place /\ handler'[h].kind = handler[h].kind
      /\ handler'[h].order = handler[h].order /\ handler'[h].notice = handler[h].notice
      /\ handler'[h].seen = handler[h].seen /\ handler'[h].amount = handler[h].amount
  BY <1>1 DEF Requests
<1>4. RequestOK(handler[h])'
  BY <1>2, <1>3 DEF RequestOK, Persists, OrderOf
<1> QED
  BY <1>1, <1>4, HandlersKept

\* A request reads the order it is about.
LEMMA Begins ==
    ASSUME TypeOK, HandlersOK, NEW h \in Handlers, NEW o \in Orders,
           NEW kind \in Kinds, NEW place \in {"read", "asked", "completing", "ending"},
           NEW notice \in Notices \cup {"none"}, NEW amount \in 0..Amount,
           Read(h, o, kind, place, notice, amount),
           notice \in Notices <=> kind = "callback", (kind = "callback") = (place = "read"),
           notice = "paid" => "paid" \in sent[o],
           place \in {"asked", "completing"} \/ notice = "paid" => amount > 0,
           place = "completing" => kind = "complete"
    PROVE  TypeOK' /\ HandlersOK'
<1> DEFINE r == [at |-> place, kind |-> kind, order |-> o, notice |-> notice,
                 seen |-> status[o], amount |-> amount]
<1>1. r \in Requests /\ handler \in [Handlers -> Requests]
  BY DEF TypeOK, Requests, Places
<1>2. handler' = [handler EXCEPT ![h] = r]
  BY DEF Read
<1>3. UNCHANGED <<orders, marks, provider, acked, faults>>
  BY DEF Read
<1>4. TypeOK'
  BY <1>1, <1>2, <1>3 DEF TypeOK, orders, provider
<1>5. Persists
  BY <1>3 DEF Persists, orders, provider
<1>6. handler'[h] = r /\ \A g \in Handlers \ {h} : handler'[g] = handler[g]
  BY <1>1, <1>2
<1>7. RequestOK(handler[h])'
  BY <1>3, <1>6, RechargeAssumption DEF RequestOK, orders, provider, Notices
<1> QED
  BY <1>4, <1>5, <1>6, <1>7, HandlersKept

------------------------------------------------------------------------------
(* The steps. *)

\* What holds of the orders holds while they, the marks and the payments rest.
LEMMA OrdersRest ==
    ASSUME OrdersInv, UNCHANGED <<orders, provider>>,
           \A o \in Orders : marks'[o] \subseteq marks[o]
    PROVE  CreditMatchesOrder' /\ CreditJustified' /\ Reported' /\ MarksJustified' /\ Persists
BY DEF OrdersInv, orders, provider, CreditMatchesOrder, CreditJustified, Reported,
   MarksJustified, Persists

\* A request about an order begins.
LEMMA RequestStep ==
    ASSUME OrdersInv, NEW h \in Handlers, NEW o \in Orders, Request(h, o)
    PROVE  OrdersInv'
<1> USE DEF Kinds, Notices
<1>1. actual[o] \in 1..Amount /\ 0 \in 0..Amount /\ Amounts = 1..Amount
  BY RechargeAssumption DEF OrdersInv, TypeOK, Amounts
<1>2. TypeOK' /\ HandlersOK'
  <2>1. ASSUME NEW n \in Notices, Callback(h, o, n) PROVE TypeOK' /\ HandlersOK'
    <3>1. CASE n = "paid"
      BY <1>1, <2>1, <3>1, Begins DEF Callback, OrdersInv
    <3>2. CASE n # "paid"
      BY <1>1, <2>1, <3>2, Begins DEF Callback, OrdersInv
    <3> QED
      BY <3>1, <3>2
  <2>2. CASE Query(h, o)
    BY <1>1, <2>2, Begins DEF Query, OrdersInv
  <2>3. CASE ManualComplete(h, o)
    <3>1. PICK amount \in Amounts \cup {actual[o]} :
            Read(h, o, "complete", "completing", "none", amount)
      BY <2>3 DEF ManualComplete
    <3> QED
      BY <1>1, <3>1, Begins DEF OrdersInv
  <2>4. CASE ManualFail(h, o)
    BY <1>1, <2>4, Begins DEF ManualFail, OrdersInv
  <2>5. CASE Cancel(h, o)
    BY <1>1, <2>5, Begins DEF Cancel, OrdersInv
  <2> QED
    BY <2>1, <2>2, <2>3, <2>4, <2>5 DEF Request
<1>3. UNCHANGED <<orders, marks, provider>>
  BY DEF Request, Callback, Query, ManualComplete, ManualFail, Cancel, Read
<1> QED
  BY <1>2, <1>3, OrdersRest DEF OrdersInv

\* A request looks at the provider, at the marks, or leaves one.
LEMMA ReadingStep ==
    ASSUME OrdersInv, NEW h \in Handlers,
           ProviderAnswers(h) \/ FindDuplicate(h) \/ Proceed(h) \/ Mark(h) \/ HandlerFails(h)
    PROVE  OrdersInv'
<1>o. /\ TypeOK /\ HandlersOK /\ RequestOK(handler[h])
      /\ UNCHANGED <<orders, provider>> /\ handler[h] \in Requests
  BY DEF OrdersInv, HandlersOK, TypeOK, ProviderAnswers, FindDuplicate, Proceed, Mark, HandlerFails
<1>h. handler[h].at # "idle" /\ OrderOf(h) \in Orders
  BY <1>o DEF ProviderAnswers, FindDuplicate, Proceed, Mark, HandlerFails, RequestOK, OrderOf
<1>1. ASSUME Persists, faults' \in Nat, acked' \in [Orders -> SUBSET Notices],
             marks' \in [Orders -> SUBSET Notices], HandlersOK',
             handler' \in [Handlers -> Requests],
             \A o \in Orders :
                 /\ "short" \notin marks'[o]
                 /\ "paid" \in marks'[o] => "paid" \in marks[o] \/ status[o] = "completed"
      PROVE  OrdersInv'
  <2>1. TypeOK'
    <3>1. \A g \in Handlers : handler'[g].at # "idle" => handler'[g].order \in Orders
      BY <1>1 DEF HandlersOK, RequestOK
    <3> QED
      BY <1>o, <1>1, <3>1 DEF TypeOK, orders, provider
  <2>2. CreditMatchesOrder' /\ CreditJustified' /\ Reported' /\ MarksJustified'
    BY <1>o, <1>1 DEF OrdersInv, orders, provider, CreditMatchesOrder, CreditJustified,
       Reported, MarksJustified
  <2> QED
    BY <1>1, <2>1, <2>2 DEF OrdersInv
<1>p. Persists
  BY <1>o DEF Persists, orders, provider
<1>t. /\ faults \in Nat /\ faults + 1 \in Nat
      /\ acked \in [Orders -> SUBSET Notices] /\ marks \in [Orders -> SUBSET Notices]
  BY <1>o DEF TypeOK
<1>s. \A o \in Orders : "short" \notin marks[o]
  BY DEF OrdersInv, MarksJustified
<1>e. End(h) => HandlersOK' /\ handler' \in [Handlers -> Requests]
  BY <1>o, <1>p, Ends, Moves
<1>2. CASE ProviderAnswers(h)
  <2> DEFINE n == invoice[OrderOf(h)]
  <2>1. UNCHANGED <<faults, acked, marks>> /\ handler[h].at = "asked"
    BY <1>2 DEF ProviderAnswers
  <2>2. n \in Notices \cup {"open"} /\ (n = "paid" => "paid" \in sent[OrderOf(h)])
    BY <1>h DEF OrdersInv, TypeOK, Reported
  <2>3. CASE n = "paid" \/ n \in {"cancelled", "failed"}
    <3> DEFINE r == [handler[h] EXCEPT !.at = IF n = "paid" THEN "read" ELSE "ending",
                                       !.notice = n]
    <3>1. handler' = [handler EXCEPT ![h] = r]
      BY <1>2, <1>o, <2>3 DEF ProviderAnswers, TypeOK
    <3>2. r \in Requests /\ handler \in [Handlers -> Requests]
      BY <1>o, <2>2, <2>3 DEF TypeOK, Requests, Places, Notices
    <3>3. /\ handler' \in [Handlers -> Requests] /\ handler'[h] = r
          /\ \A g \in Handlers \ {h} : handler'[g] = handler[g]
      BY <3>1, <3>2
    <3>4. /\ r.at = IF n = "paid" THEN "read" ELSE "ending"
          /\ r.notice = n /\ r.order = handler[h].order /\ r.kind = handler[h].kind
          /\ r.seen = handler[h].seen /\ r.amount = handler[h].amount
      BY <1>o DEF Requests
    <3>5. RequestOK(handler[h])'
      BY <1>o, <1>p, <2>1, <2>2, <2>3, <3>3, <3>4 DEF RequestOK, Persists, OrderOf, Notices
    <3>6. HandlersOK'
      BY <1>o, <1>p, <3>3, <3>5, HandlersKept
    <3> QED
      BY <1>1, <1>p, <1>s, <1>t, <2>1, <3>3, <3>6
  <2>4. CASE ~(n = "paid" \/ n \in {"cancelled", "failed"})
    <3>1. End(h)
      BY <1>2, <2>4 DEF ProviderAnswers
    <3> QED
      BY <1>1, <1>e, <1>p, <1>s, <1>t, <2>1, <3>1
  <2> QED
    BY <2>3, <2>4
<1>a. handler[h].notice \in Notices /\ Answer(h) => acked' \in [Orders -> SUBSET Notices]
  BY <1>h, <1>t DEF Answer
<1>3. CASE FindDuplicate(h)
  <2>1. handler[h].notice \in Notices /\ End(h) /\ UNCHANGED <<faults, marks>>
    BY <1>3, <1>o DEF FindDuplicate, RequestOK
  <2>2. acked' \in [Orders -> SUBSET Notices]
    BY <1>3, <1>a, <1>t, <2>1 DEF FindDuplicate
  <2> QED
    BY <1>1, <1>e, <1>p, <1>s, <1>t, <2>1, <2>2
<1>4. CASE Proceed(h)
  <2>1. /\ faults' \in Nat /\ UNCHANGED <<acked, marks>>
        /\ handler[h].notice \in Notices /\ handler[h].at = "read"
    BY <1>4, <1>o, <1>t DEF Proceed, FindsNoMark, Use, RequestOK
  <2>2. HandlersOK' /\ handler' \in [Handlers -> Requests]
    <3>1. CASE handler[h].notice = "paid" /\ handler[h].seen \in Creditable
      <4>1. Goto(h, "completing")
        BY <1>4, <3>1 DEF Proceed, Creditable, Open
      <4> QED
        BY <1>h, <1>o, <1>p, <3>1, <4>1, GoesOn, Moves DEF Places
    <3>2. CASE handler[h].notice \in {"cancelled", "failed"} /\ handler[h].seen \in Open
      <4>1. Goto(h, "ending")
        BY <1>4, <3>2 DEF Proceed
      <4> QED
        BY <1>h, <1>o, <1>p, <3>2, <4>1, GoesOn, Moves DEF Places
    <3>3. CASE handler[h].notice = "paid" /\ handler[h].seen = "completed"
      <4>1. Goto(h, "marking")
        BY <1>4, <3>3 DEF Proceed, Creditable, Open
      <4>2. status'[OrderOf(h)] = "completed"
        BY <1>h, <1>o, <3>3 DEF RequestOK, OrderOf, orders
      <4> QED
        BY <1>h, <1>o, <1>p, <2>1, <3>3, <4>1, <4>2, GoesOn, Moves DEF Places
    <3>4. CASE handler[h].notice \in {"cancelled", "failed"} /\ handler[h].seen \notin Open
      <4>1. Goto(h, "marking")
        BY <1>4, <3>4 DEF Proceed
      <4> QED
        BY <1>h, <1>o, <1>p, <2>1, <3>4, <4>1, GoesOn, Moves DEF Places
    <3>5. CASE ~ \/ handler[h].notice = "paid" /\ handler[h].seen \in Creditable \cup {"completed"}
                 \/ handler[h].notice \in {"cancelled", "failed"}
      <4>1. End(h)
        BY <1>4, <3>5 DEF Proceed
      <4> QED
        BY <1>e, <4>1
    <3> QED
      BY <3>1, <3>2, <3>3, <3>4, <3>5
  <2> QED
    BY <1>1, <1>p, <1>s, <1>t, <2>1, <2>2
<1>5. CASE Mark(h)
  <2> DEFINE marked == [marks EXCEPT ![OrderOf(h)] = @ \cup {handler[h].notice}]
  <2>1. handler[h].notice \in Notices /\ End(h) /\ marks' \in {marks, marked}
    BY <1>5, <1>o DEF Mark, RequestOK
  <2>2. faults' \in Nat
    BY <1>5, <1>t DEF Mark, Use
  <2>3. acked' \in [Orders -> SUBSET Notices]
    BY <1>5, <1>a, <1>t, <2>1 DEF Mark
  <2>4. marked \in [Orders -> SUBSET Notices]
    BY <1>t, <2>1
  <2>5. \A o \in Orders :
          /\ "short" \notin marked[o]
          /\ "paid" \in marked[o] => "paid" \in marks[o] \/ status[o] = "completed"
    BY <1>5, <1>h, <1>o, <1>s, <1>t DEF Mark, RequestOK, OrderOf
  <2> QED
    BY <1>1, <1>e, <1>p, <1>s, <1>t, <2>1, <2>2, <2>3, <2>4, <2>5
<1>6. CASE HandlerFails(h)
  <2>1. faults' \in Nat /\ UNCHANGED <<acked, marks>>
    BY <1>6, <1>t DEF HandlerFails, Use
  <2>2. CASE End(h)
    BY <1>1, <1>e, <1>p, <1>s, <1>t, <2>1, <2>2
  <2>3. CASE /\ handler[h].at = "completing" /\ handler[h].kind \in {"callback", "query"}
             /\ status[OrderOf(h)] = "completed" /\ Goto(h, "marking")
    <3>1. handler[h].notice = "paid" /\ status'[OrderOf(h)] = "completed"
      BY <1>o, <2>3 DEF RequestOK, orders
    <3>2. HandlersOK' /\ handler' \in [Handlers -> Requests]
      BY <1>h, <1>o, <1>p, <2>3, <3>1, GoesOn, Moves DEF Places, Notices
    <3> QED
      BY <1>1, <1>p, <1>s, <1>t, <2>1, <3>2
  <2> QED
    BY <1>6, <2>2, <2>3 DEF HandlerFails
<1> QED
  BY <1>2, <1>3, <1>4, <1>5, <1>6

\* completeRecharge
LEMMA CompleteStep ==
    ASSUME OrdersInv, NEW h \in Handlers, CompleteRecharge(h)
    PROVE  OrdersInv'
<1> DEFINE o == OrderOf(h)  amount == handler[h].amount
<1>o. /\ TypeOK /\ HandlersOK /\ RequestOK(handler[h]) /\ handler[h].at = "completing"
      /\ UNCHANGED <<marks, provider, acked, faults>> /\ handler[h] \in Requests
  BY DEF OrdersInv, HandlersOK, TypeOK, CompleteRecharge
<1>h. /\ o \in Orders /\ amount \in 1..Amount /\ amount \in Nat
      /\ handler[h].kind # "complete" => handler[h].notice = "paid" /\ "paid" \in sent[o]
  BY <1>o, RechargeAssumption DEF RequestOK, OrderOf
<1>s. ASSUME Persists, Succeed(h), status'[o] = "completed"
      PROVE  HandlersOK' /\ handler' \in [Handlers -> Requests]
  <2>1. CASE Goto(h, "marking") /\ handler[h].kind # "complete"
    BY <1>o, <1>h, <1>s, <2>1, GoesOn, Moves DEF Places, Notices
  <2>2. CASE End(h)
    BY <1>o, <1>s, <2>2, Ends, Moves
  <2> QED
    BY <1>s, <2>1, <2>2 DEF Succeed
<1>t. ASSUME HandlersOK', handler' \in [Handlers -> Requests], UNCHANGED orders
      PROVE  OrdersInv'
  <2>1. \A g \in Handlers : handler'[g].at # "idle" => handler'[g].order \in Orders
    BY <1>t DEF HandlersOK, RequestOK
  <2>2. TypeOK'
    BY <1>o, <1>t, <2>1 DEF TypeOK, orders, provider
  <2> QED
    BY <1>o, <1>t, <2>2, OrdersRest DEF OrdersInv
<1>1. CASE /\ status[o] \in Creditable
           /\ status' = [status EXCEPT ![o] = "completed"]
           /\ actual' = [actual EXCEPT ![o] = amount]
           /\ wallet' = wallet + amount
           /\ credited' = [credited EXCEPT ![o] = @ + amount]
           /\ manual' = IF handler[h].kind = "complete" THEN manual \cup {o} ELSE manual
           /\ Succeed(h)
  <2>1. /\ status \in [Orders -> Statuses] /\ status' \in [Orders -> Statuses]
        /\ actual \in [Orders -> 1..Amount] /\ actual' \in [Orders -> 1..Amount]
        /\ wallet' \in Nat /\ manual' \subseteq Orders
        /\ credited \in [Orders -> Nat] /\ credited' \in [Orders -> Nat]
    BY <1>o, <1>h, <1>1 DEF TypeOK, Statuses
  <2>2. Persists
    BY <1>o, <1>h, <1>1, <2>1 DEF Persists, provider
  <2>3. HandlersOK' /\ handler' \in [Handlers -> Requests]
    BY <1>h, <1>s, <1>1, <2>1, <2>2
  <2>4. TypeOK'
    <3>1. \A g \in Handlers : handler'[g].at # "idle" => handler'[g].order \in Orders
      BY <2>3 DEF HandlersOK, RequestOK
    <3> QED
      BY <1>o, <2>1, <2>3, <3>1 DEF TypeOK, provider
  <2>5. credited[o] = 0
    BY <1>h, <1>1 DEF OrdersInv, CreditMatchesOrder, Creditable, Open
  <2>6. CreditMatchesOrder'
    <3> SUFFICES ASSUME NEW p \in Orders
                 PROVE  credited'[p] = IF status'[p] = "completed" THEN actual'[p] ELSE 0
      BY DEF CreditMatchesOrder
    <3>1. CASE p = o
      BY <1>h, <1>1, <2>1, <2>5, <3>1
    <3>2. CASE p # o
      BY <1>1, <2>1, <3>2 DEF OrdersInv, CreditMatchesOrder
    <3> QED
      BY <3>1, <3>2
  <2>7. CreditJustified'
    BY <1>o, <1>h, <1>1, <2>1 DEF OrdersInv, CreditJustified, provider
  <2>8. Reported' /\ MarksJustified'
    BY <1>o, <1>1, <2>1, <2>2 DEF OrdersInv, Reported, MarksJustified, Persists, provider
  <2> QED
    BY <2>3, <2>4, <2>6, <2>7, <2>8 DEF OrdersInv
<1>2. CASE status[o] = "completed" /\ UNCHANGED orders /\ Succeed(h)
  <2>1. Persists /\ status'[o] = "completed"
    BY <1>o, <1>2 DEF Persists, orders, provider
  <2> QED
    BY <1>s, <1>t, <1>2, <2>1
<1>3. CASE UNCHANGED orders /\ End(h)
  <2>1. Persists
    BY <1>o, <1>3 DEF Persists, orders, provider
  <2> QED
    BY <1>o, <1>t, <1>3, <2>1, Ends, Moves
<1> QED
  BY <1>1, <1>2, <1>3 DEF CompleteRecharge

\* An order that is not completed may change its status without being credited.
LEMMA NotCompleted ==
    ASSUME OrdersInv, HandlersOK', handler' \in [Handlers -> Requests],
           status' \in [Orders -> Statuses], actual' \in [Orders -> 1..Amount],
           \A o \in Orders : (status'[o] = "completed") = (status[o] = "completed"),
           \A o \in Orders : status[o] = "completed" => actual'[o] = actual[o],
           UNCHANGED <<wallet, credited, manual, marks, provider, acked, faults>>
    PROVE  OrdersInv'
<1>1. \A g \in Handlers : handler'[g].at # "idle" => handler'[g].order \in Orders
  BY DEF HandlersOK, RequestOK
<1>2. TypeOK'
  BY <1>1 DEF OrdersInv, TypeOK, provider
<1>3. CreditMatchesOrder' /\ CreditJustified' /\ Reported' /\ MarksJustified'
  BY DEF OrdersInv, CreditMatchesOrder, CreditJustified, Reported, MarksJustified, provider
<1> QED
  BY <1>2, <1>3 DEF OrdersInv

\* cancelRecharge and failRecharge
LEMMA CancelOrFailStep ==
    ASSUME OrdersInv, NEW h \in Handlers, CancelOrFail(h)
    PROVE  OrdersInv'
<1> DEFINE o == OrderOf(h)
<1>o. /\ TypeOK /\ HandlersOK /\ RequestOK(handler[h]) /\ handler[h].at = "ending"
      /\ UNCHANGED <<actual, wallet, credited, manual, marks, provider, acked, faults>>
      /\ o \in Orders
  BY DEF OrdersInv, HandlersOK, TypeOK, CancelOrFail, RequestOK, OrderOf
<1>1. Target(h) \in {"cancelled", "failed"}
  BY DEF Target
<1>2. /\ status' \in [Orders -> Statuses] /\ status \in [Orders -> Statuses]
      /\ \A p \in Orders : (status'[p] = "completed") = (status[p] = "completed")
  BY <1>o, <1>1 DEF CancelOrFail, TypeOK, Statuses, Open
<1>3. Persists
  BY <1>o, <1>2 DEF Persists, provider
<1>4. HandlersOK' /\ handler' \in [Handlers -> Requests]
  <2>1. CASE Goto(h, "marking") /\ handler[h].kind = "callback"
    <3>1. handler[h].notice \in Notices \ {"paid", "short"}
      BY <1>o, <2>1 DEF RequestOK
    <3> QED
      BY <1>o, <1>3, <2>1, <3>1, GoesOn, Moves DEF Places, Notices
  <2>2. CASE End(h)
    BY <1>o, <1>3, <2>2, Ends, Moves
  <2> QED
    BY <1>o, <2>1, <2>2 DEF CancelOrFail, Succeed
<1> QED
  BY <1>o, <1>2, <1>4, NotCompleted DEF OrdersInv, TypeOK

\* What no request does: an order is created, or time or the server ends orders,
\* marks or requests, or a payment comes to an end.
LEMMA OutsideStep ==
    ASSUME OrdersInv,
           \/ \E o \in Orders : CreateOrder(o) \/ CleanCallbacks(o) \/ Pay(o)
           \/ CleanOrders \/ Crash
    PROVE  OrdersInv'
<1>o. TypeOK /\ HandlersOK /\ handler \in [Handlers -> Requests]
  BY DEF OrdersInv, TypeOK
<1>1. ASSUME NEW o \in Orders, CreateOrder(o) PROVE OrdersInv'
  <2>1. PICK amount \in Amounts : actual' = [actual EXCEPT ![o] = amount]
    BY <1>1 DEF CreateOrder
  <2>2. /\ status' \in [Orders -> Statuses] /\ actual' \in [Orders -> 1..Amount]
        /\ \A p \in Orders : (status'[p] = "completed") = (status[p] = "completed")
        /\ \A p \in Orders : status[p] = "completed" => actual'[p] = actual[p]
    BY <1>o, <1>1, <2>1 DEF CreateOrder, TypeOK, Statuses, Amounts
  <2>3. UNCHANGED <<wallet, credited, manual, marks, provider, acked, handler, faults>>
    BY <1>1 DEF CreateOrder
  <2>4. HandlersOK'
    BY <1>o, <2>2, <2>3, HandlersStay DEF Persists, provider
  <2> QED
    BY <1>o, <2>2, <2>3, <2>4, NotCompleted
<1>2. ASSUME NEW o \in Orders, CleanCallbacks(o) PROVE OrdersInv'
  <2>1. UNCHANGED <<orders, provider, acked, handler, faults>>
    BY <1>2 DEF CleanCallbacks
  <2>2. marks' \in [Orders -> SUBSET Notices] /\ \A p \in Orders : marks'[p] \subseteq marks[p]
    BY <1>o, <1>2 DEF CleanCallbacks, TypeOK
  <2>3. HandlersOK'
    BY <1>o, <2>1, HandlersStay DEF Persists, orders, provider
  <2>4. TypeOK'
    BY <1>o, <2>1, <2>2 DEF TypeOK, orders, provider
  <2> QED
    BY <2>1, <2>2, <2>3, <2>4, OrdersRest DEF OrdersInv
<1>3. ASSUME NEW o \in Orders, Pay(o) PROVE OrdersInv'
  <2>1. UNCHANGED <<orders, marks, acked, handler, faults>>
    BY <1>3 DEF Pay
  <2>2. PICK n \in Outcomes(o) : /\ invoice' = [invoice EXCEPT ![o] = n]
                                 /\ sent' = [sent EXCEPT ![o] = @ \cup {n}]
    BY <1>3 DEF Pay
  <2>3. n \in Notices
    BY <2>2 DEF Outcomes, Notices
  <2>4. /\ invoice' \in [Orders -> Notices \cup {"open"}]
        /\ sent' \in [Orders -> SUBSET Notices] /\ \A p \in Orders : sent[p] \subseteq sent'[p]
    BY <1>o, <2>2, <2>3 DEF TypeOK
  <2>5. Persists
    BY <2>1, <2>4 DEF Persists, orders
  <2>6. Reported'
    BY <1>o, <2>2 DEF OrdersInv, Reported, TypeOK
  <2>7. HandlersOK'
    BY <1>o, <2>1, <2>5, HandlersStay
  <2>8. TypeOK'
    BY <1>o, <2>1, <2>4 DEF TypeOK, orders
  <2>9. CreditMatchesOrder' /\ CreditJustified' /\ MarksJustified'
    BY <2>1, <2>4 DEF OrdersInv, orders, CreditMatchesOrder, CreditJustified, MarksJustified
  <2> QED
    BY <2>6, <2>7, <2>8, <2>9 DEF OrdersInv
<1>4. CASE CleanOrders
  <2>1. PICK expired \in SUBSET {o \in Orders : status[o] = "pending"} :
          status' = [o \in Orders |-> IF o \in expired THEN "cancelled" ELSE status[o]]
    BY <1>4 DEF CleanOrders
  <2>2. /\ status' \in [Orders -> Statuses]
        /\ \A p \in Orders : (status'[p] = "completed") = (status[p] = "completed")
    BY <1>o, <2>1 DEF TypeOK, Statuses
  <2>3. UNCHANGED <<actual, wallet, credited, manual, marks, provider, acked, handler, faults>>
    BY <1>4 DEF CleanOrders
  <2>4. HandlersOK'
    BY <1>o, <2>2, <2>3, HandlersStay DEF Persists, provider
  <2> QED
    BY <1>o, <2>2, <2>3, <2>4, NotCompleted DEF TypeOK
<1>5. CASE Crash
  <2>1. /\ handler' = [h \in Handlers |-> Idle] /\ faults' \in Nat
        /\ UNCHANGED <<orders, marks, provider, acked>>
    BY <1>o, <1>5 DEF Crash, Use, TypeOK
  <2>2. handler' \in [Handlers -> Requests] /\ \A h \in Handlers : handler'[h].at = "idle"
    BY <2>1, RechargeAssumption DEF Idle, Requests, Places, Kinds, Notices, Statuses
  <2>3. HandlersOK'
    BY <2>2 DEF HandlersOK, RequestOK
  <2>4. TypeOK'
    BY <1>o, <2>1, <2>2 DEF TypeOK, orders, provider
  <2> QED
    BY <2>1, <2>3, <2>4, OrdersRest DEF OrdersInv
<1> QED
  BY <1>1, <1>2, <1>3, <1>4, <1>5

------------------------------------------------------------------------------
(* The theorems. *)

LEMMA OrdersInit == Init => OrdersInv
<1> SUFFICES ASSUME Init PROVE OrdersInv
  OBVIOUS
<1>1. TypeOK
  BY RechargeAssumption DEF Init, TypeOK, Statuses, Notices, Requests, Places, Kinds, Idle
<1>2. CreditMatchesOrder /\ CreditJustified /\ Reported /\ MarksJustified /\ HandlersOK
  BY DEF Init, CreditMatchesOrder, CreditJustified, Reported, MarksJustified, HandlersOK,
     RequestOK, Idle
<1> QED
  BY <1>1, <1>2 DEF OrdersInv

LEMMA OrdersStep == OrdersInv /\ [Next]_vars => OrdersInv'
<1> SUFFICES ASSUME OrdersInv, [Next]_vars PROVE OrdersInv'
  OBVIOUS
<1>1. CASE UNCHANGED vars
  <2>1. UNCHANGED <<orders, marks, provider, acked, handler, faults>>
    BY <1>1 DEF vars
  <2>2. TypeOK'
    BY <2>1 DEF OrdersInv, TypeOK, orders, provider
  <2>3. HandlersOK'
    BY <2>1, HandlersStay DEF OrdersInv, Persists, orders, provider
  <2> QED
    BY <2>1, <2>2, <2>3, OrdersRest DEF OrdersInv
<1>2. ASSUME NEW h \in Handlers, NEW o \in Orders, Request(h, o) PROVE OrdersInv'
  BY <1>2, RequestStep
<1>3. ASSUME NEW h \in Handlers, HandlerStep(h) \/ HandlerFails(h) PROVE OrdersInv'
  BY <1>3, ReadingStep, CompleteStep, CancelOrFailStep DEF HandlerStep
<1>4. CASE \/ \E o \in Orders : CreateOrder(o) \/ CleanCallbacks(o) \/ Pay(o)
           \/ CleanOrders \/ Crash
  BY <1>4, OutsideStep
<1> QED
  BY <1>1, <1>2, <1>3, <1>4 DEF Next

\* The invariant holds of every execution: what callbacks, queries, staff, customers and
\* jobs do to an order, in whatever order and whenever the server dies.
THEOREM OrdersCorrect == Spec => []OrdersInv
<1>1. Init => OrdersInv
  BY OrdersInit
<1>2. OrdersInv /\ [Next]_vars => OrdersInv'
  BY OrdersStep
<1> QED
  BY <1>1, <1>2, PTL DEF Spec

\* Every variable keeps its type; no order records more than its face value
\* (validateRechargeActualAmount).
THEOREM TypeCorrect == Spec => []TypeOK
<1>1. OrdersInv => TypeOK
  BY DEF OrdersInv
<1> QED
  BY <1>1, OrdersCorrect, PTL

\* completeRecharge credits an order once, with the amount the order then shows, for any
\* number of concurrent completions.
THEOREM CreditedOnce == Spec => []CreditMatchesOrder
<1>1. OrdersInv => CreditMatchesOrder
  BY DEF OrdersInv
<1> QED
  BY <1>1, OrdersCorrect, PTL

\* No order is completed that was neither paid in full nor completed by the staff.
THEOREM CreditsJustified == Spec => []CreditJustified
<1>1. OrdersInv => CreditJustified
  BY DEF OrdersInv
<1> QED
  BY <1>1, OrdersCorrect, PTL

\* What a handler may put among the answered notices: only FindDuplicate and Mark do.
LEMMA AckStep ==
    ASSUME OrdersInv, [Next]_vars, NEW o \in Orders, "paid" \in acked'[o] \ acked[o]
    PROVE  status'[o] = "completed" \/ marks[o] \cap {"cancelled", "failed"} # {}
<1>1. acked' # acked
  OBVIOUS
<1>2. PICK h \in Handlers : FindDuplicate(h) \/ Mark(h)
  BY <1>1 DEF Next, vars, Request, Callback, Query, ManualComplete, ManualFail, Cancel, Read,
     HandlerStep, ProviderAnswers, Proceed, CompleteRecharge, CancelOrFail, HandlerFails,
     CreateOrder, CleanCallbacks, Pay, CleanOrders, Crash
<1>3. /\ Answer(h) /\ o = OrderOf(h) /\ handler[h].notice = "paid" /\ UNCHANGED status
      /\ handler[h].at # "idle" /\ RequestOK(handler[h])
  BY <1>1, <1>2 DEF FindDuplicate, Mark, Answer, OrdersInv, TypeOK, HandlersOK, orders
<1>4. CASE FindDuplicate(h)
  <2>1. marks[o] # {} /\ marks[o] \subseteq Notices
    BY <1>3, <1>4 DEF FindDuplicate, OrdersInv, TypeOK
  <2>2. "short" \notin marks[o] /\ ("paid" \in marks[o] => status[o] = "completed")
    BY DEF OrdersInv, MarksJustified
  <2> QED
    BY <1>3, <2>1, <2>2 DEF Notices
<1>5. CASE Mark(h)
  BY <1>3, <1>5 DEF Mark, RequestOK, OrderOf
<1> QED
  BY <1>2, <1>4, <1>5

\* A notice of a payment is answered with success only when the order is credited, or an
\* earlier cancel or failure of the payment has left its mark (handlePaymentCallback).
THEOREM PaymentsAcknowledged == Spec => AckedPaymentCredited
<1>1. OrdersInv /\ [Next]_vars =>
        [\A o \in Orders : "paid" \in acked'[o] \ acked[o] =>
           status'[o] = "completed" \/ marks[o] \cap {"cancelled", "failed"} # {}]_vars
  BY AckStep
<1> QED
  BY <1>1, OrdersCorrect, PTL DEF Spec, AckedPaymentCredited

------------------------------------------------------------------------------
(* The model implements RechargeOrders. *)

OrdersNext == Abstract!Close \/ \E o \in Orders : Abstract!Credit(o) \/ Abstract!Reject(o)

\* What the status s of each order stands for.
StandsFor(s) == [o \in Orders |->
    CASE s[o] \in {"none", "pending", "paid"} -> "open"
      [] s[o] = "completed" -> "credited"
      [] s[o] = "failed" -> "rejected"
      [] s[o] = "cancelled" -> "closed"]

LEMMA SettledAs ==
    ASSUME NEW s \in [Orders -> Statuses]
    PROVE  /\ StandsFor(s) \in [Orders -> {"open", "credited", "rejected", "closed"}]
           /\ \A o \in Orders :
                /\ StandsFor(s)[o] = "open" <=> s[o] \in {"none", "pending", "paid"}
                /\ StandsFor(s)[o] = "credited" <=> s[o] = "completed"
                /\ StandsFor(s)[o] = "rejected" <=> s[o] = "failed"
                /\ StandsFor(s)[o] = "closed" <=> s[o] = "cancelled"
<1>1. \A o \in Orders :
        /\ s[o] \in {"none", "pending", "paid"} => StandsFor(s)[o] = "open"
        /\ s[o] = "completed" => StandsFor(s)[o] = "credited"
        /\ s[o] = "failed" => StandsFor(s)[o] = "rejected"
        /\ s[o] = "cancelled" => StandsFor(s)[o] = "closed"
  BY DEF StandsFor, Statuses
<1>2. \A o \in Orders : s[o] \in Statuses
  OBVIOUS
<1>3. \A o \in Orders : StandsFor(s)[o] \in {"open", "credited", "rejected", "closed"}
  BY <1>1, <1>2 DEF Statuses
<1>4. StandsFor(s) \in [Orders -> {"open", "credited", "rejected", "closed"}]
  BY <1>3 DEF StandsFor
<1> QED
  BY <1>1, <1>2, <1>4 DEF Statuses

\* Every step is a step of RechargeOrders, or leaves the orders and the wallet alone.
LEMMA SettledStep ==
    OrdersInv /\ OrdersInv' /\ [Next]_vars => [OrdersNext]_<<Settled, wallet>>
<1> SUFFICES ASSUME OrdersInv, OrdersInv', [Next]_vars PROVE [OrdersNext]_<<Settled, wallet>>
  OBVIOUS
<1>t. /\ status \in [Orders -> Statuses] /\ status' \in [Orders -> Statuses]
      /\ wallet \in Nat /\ actual \in [Orders -> 1..Amount]
  BY DEF OrdersInv, TypeOK
<1>s. Settled = StandsFor(status) /\ Settled' = StandsFor(status')
  BY DEF Settled, StandsFor
<1>d. /\ Settled \in [Orders -> {"open", "credited", "rejected", "closed"}]
      /\ Settled' \in [Orders -> {"open", "credited", "rejected", "closed"}]
  BY <1>s, <1>t, SettledAs
<1>e. ASSUME NEW e \in [Orders -> {"open", "credited", "rejected", "closed"}],
             \A o \in Orders : Settled'[o] = e[o]
      PROVE  Settled' = e
  BY <1>d, <1>e
<1>p. ASSUME NEW p \in Orders
      PROVE  /\ Settled[p] \in {"open", "credited", "rejected", "closed"}
             /\ Settled[p] = "open" <=> status[p] \in {"none", "pending", "paid"}
             /\ Settled[p] = "credited" <=> status[p] = "completed"
             /\ Settled[p] = "rejected" <=> status[p] = "failed"
             /\ Settled[p] = "closed" <=> status[p] = "cancelled"
             /\ Settled'[p] \in {"open", "credited", "rejected", "closed"}
             /\ Settled'[p] = "open" <=> status'[p] \in {"none", "pending", "paid"}
             /\ Settled'[p] = "credited" <=> status'[p] = "completed"
             /\ Settled'[p] = "rejected" <=> status'[p] = "failed"
             /\ Settled'[p] = "closed" <=> status'[p] = "cancelled"
  BY <1>d, <1>s, <1>t, SettledAs
<1>1. CASE UNCHANGED <<status, wallet>>
  BY <1>s, <1>1
<1>2. ASSUME NEW o \in Orders, CreateOrder(o) PROVE [OrdersNext]_<<Settled, wallet>>
  <2>1. status[o] = "none" /\ status' = [status EXCEPT ![o] = "pending"] /\ UNCHANGED wallet
    BY <1>2 DEF CreateOrder
  <2>2. \A p \in Orders : Settled'[p] = Settled[p]
    BY <1>p, <1>t, <2>1
  <2> QED
    BY <1>d, <1>e, <2>1, <2>2
<1>3. ASSUME NEW h \in Handlers, CompleteRecharge(h) PROVE [OrdersNext]_<<Settled, wallet>>
  <2> DEFINE o == OrderOf(h)  amount == handler[h].amount
  <2>1. CASE /\ status[o] \in Creditable /\ status' = [status EXCEPT ![o] = "completed"]
             /\ wallet' = wallet + amount
    <3>1. o \in Orders /\ amount \in 1..Amount
      BY <1>3 DEF CompleteRecharge, OrdersInv, HandlersOK, RequestOK, OrderOf
    <3>2. Settled[o] \in {"open", "closed"}
      BY <1>p, <2>1, <3>1 DEF Creditable, Open
    <3>3. \A p \in Orders : Settled'[p] = [Settled EXCEPT ![o] = "credited"][p]
      BY <1>d, <1>p, <1>t, <2>1, <3>1
    <3>4. Settled' = [Settled EXCEPT ![o] = "credited"]
      BY <1>d, <1>e, <3>3
    <3>5. Abstract!Credit(o)
      BY <2>1, <3>1, <3>2, <3>4 DEF Abstract!Credit
    <3> QED
      BY <3>1, <3>5 DEF OrdersNext
  <2>2. CASE UNCHANGED orders
    BY <1>1, <2>2 DEF orders
  <2> QED
    BY <1>3, <2>1, <2>2 DEF CompleteRecharge
<1>4. ASSUME NEW h \in Handlers, CancelOrFail(h) PROVE [OrdersNext]_<<Settled, wallet>>
  <2> DEFINE o == OrderOf(h)
  <2>1. CASE status[o] \in Open /\ status' = [status EXCEPT ![o] = Target(h)]
    <3>1. o \in Orders /\ UNCHANGED wallet
      BY <1>4 DEF CancelOrFail, OrdersInv, HandlersOK, RequestOK, OrderOf
    <3>2. Settled[o] = "open"
      BY <1>p, <2>1, <3>1 DEF Open
    <3>3. CASE Target(h) = "failed"
      <4>1. \A p \in Orders : Settled'[p] = [Settled EXCEPT ![o] = "rejected"][p]
        BY <1>d, <1>p, <1>t, <2>1, <3>1, <3>3
      <4>2. Settled' = [Settled EXCEPT ![o] = "rejected"]
        BY <1>d, <1>e, <4>1
      <4> QED
        BY <3>1, <3>2, <4>2 DEF OrdersNext, Abstract!Reject
    <3>4. CASE Target(h) = "cancelled"
      <4> DEFINE e == [p \in Orders |-> IF p \in {o} THEN "closed" ELSE Settled[p]]
      <4>1. \A p \in Orders : Settled'[p] = e[p]
        BY <1>p, <1>t, <2>1, <3>1, <3>4
      <4>2. Settled' = e
        BY <1>d, <1>e, <4>1
      <4>3. {o} \in SUBSET {p \in Orders : Settled[p] = "open"}
        BY <3>1, <3>2
      <4> QED
        BY <3>1, <4>2, <4>3 DEF OrdersNext, Abstract!Close
    <3> QED
      BY <3>3, <3>4 DEF Target
  <2>2. CASE UNCHANGED status
    BY <1>1, <1>4, <2>2 DEF CancelOrFail
  <2> QED
    BY <1>4, <2>1, <2>2 DEF CancelOrFail
<1>5. CASE CleanOrders
  <2>1. PICK expired \in SUBSET {o \in Orders : status[o] = "pending"} :
          status' = [o \in Orders |-> IF o \in expired THEN "cancelled" ELSE status[o]]
    BY <1>5 DEF CleanOrders
  <2> DEFINE e == [p \in Orders |-> IF p \in expired THEN "closed" ELSE Settled[p]]
  <2>2. \A p \in Orders : Settled'[p] = e[p]
    BY <1>p, <1>t, <2>1
  <2>3. Settled' = e
    BY <1>d, <1>e, <2>2
  <2>4. expired \in SUBSET {p \in Orders : Settled[p] = "open"}
    BY <1>p
  <2> QED
    BY <1>5, <2>3, <2>4 DEF CleanOrders, OrdersNext, Abstract!Close
<1>6. CASE \/ UNCHANGED vars \/ Crash
           \/ \E h \in Handlers, o \in Orders : Request(h, o)
           \/ \E o \in Orders : CleanCallbacks(o) \/ Pay(o)
           \/ \E h \in Handlers : \/ ProviderAnswers(h) \/ FindDuplicate(h) \/ Proceed(h)
                                  \/ Mark(h) \/ HandlerFails(h)
  <2>1. CASE \/ UNCHANGED vars \/ Crash
             \/ \E o \in Orders : CleanCallbacks(o) \/ Pay(o)
    BY <1>1, <2>1 DEF vars, orders, Crash, CleanCallbacks, Pay
  <2>2. ASSUME NEW h \in Handlers, NEW o \in Orders, Request(h, o)
        PROVE  UNCHANGED <<status, wallet>>
    BY <2>2 DEF orders, Request, Callback, Query, ManualComplete, ManualFail, Cancel, Read
  <2>3. ASSUME NEW h \in Handlers,
               \/ ProviderAnswers(h) \/ FindDuplicate(h) \/ Proceed(h)
               \/ Mark(h) \/ HandlerFails(h)
        PROVE  UNCHANGED <<status, wallet>>
    BY <2>3 DEF orders, ProviderAnswers, FindDuplicate, Proceed, Mark, HandlerFails
  <2> QED
    BY <1>1, <1>6, <2>1, <2>2, <2>3
<1> QED
  BY <1>2, <1>3, <1>4, <1>5, <1>6 DEF Next, HandlerStep

\* The model implements RechargeOrders: an order credits the wallet at most once and with
\* no more than its face value, a closed one may still be credited, a rejected one never.
THEOREM OrdersImplemented == Spec => OrdersSpec
<1>1. Init => Abstract!Opened
  <2> SUFFICES ASSUME Init PROVE Abstract!Opened
    OBVIOUS
  <2>1. \A o \in Orders : Settled[o] = "open"
    BY DEF Init, Settled
  <2> QED
    BY <2>1 DEF Init, Settled, Abstract!Opened
<1> QED
  BY <1>1, SettledStep, OrdersCorrect, PTL
  DEF Spec, OrdersSpec, Abstract!OrdersSpec, OrdersNext

------------------------------------------------------------------------------
(* What the recharges have added to the wallet. *)

Completed == {o \in Orders : status[o] = "completed"}

\* Every completed order has added something to the wallet, and no more than its face
\* value; nothing else has.
WalletWithinOrders ==
    Cardinality(Completed) <= wallet /\ wallet <= Amount * Cardinality(Completed)

LEMMA CompletedFinite == IsFiniteSet(Completed) /\ Cardinality(Completed) \in Nat
<1>1. Completed \in SUBSET Orders /\ IsFiniteSet(Orders)
  BY RechargeAssumption DEF Completed
<1>2. IsFiniteSet(Completed)
  BY <1>1, FS_Subset
<1> QED
  BY <1>2, FS_CardinalityType

\* An order is completed once, and the wallet grows with it.
LEMMA WalletStep ==
    ASSUME OrdersInv, OrdersInv', WalletWithinOrders, [Next]_vars
    PROVE  WalletWithinOrders'
<1>t. wallet \in Nat /\ Amount \in Nat /\ Cardinality(Completed) \in Nat
  BY RechargeAssumption, CompletedFinite DEF OrdersInv, TypeOK
<1>s. /\ Settled \in [Orders -> {"open", "credited", "rejected", "closed"}]
      /\ Completed = {o \in Orders : Settled[o] = "credited"}
      /\ Completed' = {o \in Orders : Settled'[o] = "credited"}
  <2>1. status \in [Orders -> Statuses] /\ status' \in [Orders -> Statuses]
    BY DEF OrdersInv, TypeOK
  <2>2. Settled = StandsFor(status) /\ Settled' = StandsFor(status')
    BY DEF Settled, StandsFor
  <2>3. \A o \in Orders : /\ Settled[o] = "credited" <=> status[o] = "completed"
                         /\ Settled'[o] = "credited" <=> status'[o] = "completed"
    BY <2>1, <2>2, SettledAs
  <2> QED
    BY <2>1, <2>2, <2>3, SettledAs DEF Completed
<1>1. CASE Completed' = Completed /\ wallet' = wallet
  BY <1>1 DEF WalletWithinOrders
<1>2. ASSUME NEW o \in Orders, Abstract!Credit(o) PROVE WalletWithinOrders'
  <2>1. /\ Settled[o] # "credited" /\ Settled' = [Settled EXCEPT ![o] = "credited"]
        /\ \E amount \in 1..Amount : wallet' = wallet + amount
    BY <1>2 DEF Abstract!Credit
  <2>2. Completed' = Completed \cup {o} /\ o \notin Completed
    BY <1>s, <2>1
  <2>3. Cardinality(Completed') = Cardinality(Completed) + 1
    BY <2>2, CompletedFinite, FS_AddElement
  <2>4. Amount * (Cardinality(Completed) + 1) = Amount * Cardinality(Completed) + Amount
    BY <1>t
  <2>5. Amount * Cardinality(Completed) \in Nat
    BY <1>t
  <2> QED
    BY <1>t, <2>1, <2>3, <2>4, <2>5 DEF WalletWithinOrders
<1>3. ASSUME NEW o \in Orders, Abstract!Reject(o) PROVE WalletWithinOrders'
  <2>1. /\ Settled[o] = "open" /\ Settled' = [Settled EXCEPT ![o] = "rejected"]
        /\ wallet' = wallet
    BY <1>3 DEF Abstract!Reject
  <2>2. \A p \in Orders : Settled'[p] = "credited" <=> Settled[p] = "credited"
    BY <1>s, <2>1
  <2> QED
    BY <1>1, <1>s, <2>1, <2>2
<1>4. CASE Abstract!Close
  <2>1. PICK closed \in SUBSET {o \in Orders : Settled[o] = "open"} :
          /\ Settled' = [o \in Orders |-> IF o \in closed THEN "closed" ELSE Settled[o]]
          /\ wallet' = wallet
    BY <1>4 DEF Abstract!Close
  <2>2. \A p \in Orders : Settled'[p] = "credited" <=> Settled[p] = "credited"
    BY <2>1
  <2> QED
    BY <1>1, <1>s, <2>1, <2>2
<1>5. CASE UNCHANGED <<Settled, wallet>>
  BY <1>1, <1>s, <1>5
<1> QED
  BY <1>2, <1>3, <1>4, <1>5, SettledStep DEF OrdersNext

\* However callbacks, queries, the staff and the jobs race over any number of orders, the
\* wallet holds what the completed orders brought: something of each, of none more than
\* its face value, of none twice.
THEOREM WalletJustified == Spec => []WalletWithinOrders
<1>1. Init => WalletWithinOrders
  <2> SUFFICES ASSUME Init PROVE WalletWithinOrders
    OBVIOUS
  <2>1. Completed = {} /\ wallet = 0
    BY DEF Init, Completed
  <2> QED
    BY <2>1, FS_EmptySet, RechargeAssumption DEF WalletWithinOrders
<1> QED
  BY <1>1, WalletStep, OrdersCorrect, PTL DEF Spec

\* A completed order stays completed, a failed one failed, and the wallet never shrinks:
\* no late cancel, expiry, failure or second callback takes a credit back.
OutcomeFinal ==
    [][/\ \A o \in Orders : Settled[o] \in {"credited", "rejected"} => Settled'[o] = Settled[o]
       /\ wallet <= wallet']_<<Settled, wallet>>

\* It follows from the refinement: no step of RechargeOrders leaves these two (the guards
\* of completeRecharge and of the cancels and failures).
THEOREM OutcomesFinal == Spec => OutcomeFinal
<1>1. ASSUME TypeOK, [OrdersNext]_<<Settled, wallet>>
      PROVE  [/\ \A o \in Orders :
                   Settled[o] \in {"credited", "rejected"} => Settled'[o] = Settled[o]
              /\ wallet <= wallet']_<<Settled, wallet>>
  <2>t. wallet \in Nat /\ Settled \in [Orders -> {"open", "credited", "rejected", "closed"}]
    <3>1. status \in [Orders -> Statuses] /\ wallet \in Nat
      BY <1>1 DEF TypeOK
    <3> QED
      BY <3>1, SettledAs DEF Settled, StandsFor
  <2>1. ASSUME NEW o \in Orders, Abstract!Credit(o)
        PROVE  /\ \A p \in Orders :
                    Settled[p] \in {"credited", "rejected"} => Settled'[p] = Settled[p]
               /\ wallet <= wallet'
    <3>1. /\ Settled[o] \in {"open", "closed"} /\ Settled' = [Settled EXCEPT ![o] = "credited"]
          /\ \E amount \in 1..Amount : wallet' = wallet + amount
      BY <2>1 DEF Abstract!Credit
    <3>2. Amount \in Nat
      BY RechargeAssumption
    <3> QED
      BY <2>t, <3>1, <3>2
  <2>2. ASSUME NEW o \in Orders, Abstract!Reject(o)
        PROVE  /\ \A p \in Orders :
                    Settled[p] \in {"credited", "rejected"} => Settled'[p] = Settled[p]
               /\ wallet <= wallet'
    <3>1. /\ Settled[o] = "open" /\ Settled' = [Settled EXCEPT ![o] = "rejected"]
          /\ wallet' = wallet
      BY <2>2 DEF Abstract!Reject
    <3> QED
      BY <2>t, <3>1
  <2>3. CASE Abstract!Close
    <3>1. PICK closed \in SUBSET {o \in Orders : Settled[o] = "open"} :
            /\ Settled' = [o \in Orders |-> IF o \in closed THEN "closed" ELSE Settled[o]]
            /\ wallet' = wallet
      BY <2>3 DEF Abstract!Close
    <3> QED
      BY <2>t, <3>1
  <2>4. CASE UNCHANGED <<Settled, wallet>>
    BY <2>4
  <2> QED
    BY <1>1, <2>1, <2>2, <2>3, <2>4 DEF OrdersNext
<1>2. OrdersInv => TypeOK
  BY DEF OrdersInv
<1> QED
  BY <1>1, <1>2, OrdersCorrect, OrdersImplemented, PTL
     DEF OrdersSpec, Abstract!OrdersSpec, OrdersNext, OutcomeFinal
==============================================================================
