------------------------------ MODULE Payments ------------------------------
(***************************************************************************)
(* Buying credits through Creem: provider settings and their cache, the    *)
(* checkout that records a pending payment before it calls the provider,   *)
(* the webhooks that complete it, and refunds and disputes that take       *)
(* credits back.                                                           *)
(*                                                                         *)
(* A webhook is handled in steps: signature under the cached settings;     *)
(* reconciliation with settings read again, and for an adjustment the      *)
(* provider's transaction as it is then; then one action per database      *)
(* transaction.  It may fail after any step (an error, a crash), and the   *)
(* provider delivers an event again until it is answered 200, and may      *)
(* deliver it again after that.                                            *)
(*                                                                         *)
(* The provider is external: per payment code a checkout of the mode whose *)
(* key asked for it, what was charged, refunded and disputed.  Keys and    *)
(* webhook secrets are named by the mode they belong to.                   *)
(***************************************************************************)
EXTENDS Credits

CONSTANTS
    Codes,      \* payment codes (bound on payments)
    Workers,    \* webhook requests served at once
    Modes,      \* "test" and "prod"
    Products,   \* the provider's products
    Prices,     \* prices a product may have
    ListPrice,  \* the price each product has at first
    Tax,        \* charged on top of the price
    Refunds,    \* ids of refund objects
    RefundUnit, \* minor units one refund gives back
    EncKeys,    \* values of SETTINGS_ENC_KEY over restarts
    Inputs,     \* settings an administrator saves: enabled, mode, key, secret, packages
    MaxSaves,   \* bound on settings saves
    MaxFaults,  \* bound on restarts, failed loads and webhook steps, and price edits
    None        \* SQL NULL / Go nil / an empty field

ASSUME PaymentAssumption ==
    /\ IsFiniteSet(Codes)
    /\ Prices \subseteq Nat \ {0} /\ Tax \in Nat /\ RefundUnit \in Nat \ {0}
    /\ ListPrice \in [Products -> Prices]
    /\ \A in \in Inputs : \A p \in in.packages : p.product \in Products
    /\ MaxSaves \in Nat /\ MaxFaults \in Nat
    /\ None \notin Modes /\ None \notin Codes /\ None \notin Nat /\ None \notin Refunds

\* tb_payments: what CreatePendingPayment inserts and later statements update.
PayRow == [account : Accounts, product : Products, amount : Prices, credits : 1 .. MaxCredits,
           status : {"pending", "paid", "failed"}, order : {None} \cup Codes]

ASSUME NoPaymentAssumption == None \notin PayRow

VARIABLES
    settings,   \* tb_payment_settings row of creem, or None
    cache,      \* creemSettingsCache: snapshot and whether it is younger than the TTL
    saving,     \* settings saves committed whose handler has not yet invalidated the cache
    encKey,     \* SETTINGS_ENC_KEY of the running process
    pay,        \* tb_payments rows by code
    checkout,   \* what StartCreemCheckout remembers while it talks to the provider
    price,      \* external: live price of each product
    order,      \* external: checkout, charge, refunds and dispute per payment code
    acked,      \* external: events answered 200
    hook,       \* webhook requests: step, event, what they have read
    fact,       \* tb_payment_adjustments rows
    count       \* saves and faults so far (bounds)

setVars == <<settings, cache, saving, encKey>>
provVars == <<price, order, acked>>
payVars == <<setVars, pay, checkout, provVars, hook, fact, count, balance, ledger>>

-----------------------------------------------------------------------------
(* Settings.                                                               *)

\* ValidateCreemSettings: unique codes, unique products, positive credits the ledger can hold.
ValidateCreemSettings(in) ==
    /\ in.mode \in Modes
    /\ in.packages # {}
    /\ \A p \in in.packages : p.credits \in 1 .. MaxCredits
    /\ \A p, q \in in.packages : p.code = q.code \/ p.product = q.product => p = q

\* An empty key or secret keeps the stored one.
Kept(new, old) == IF new # None THEN new ELSE old

\* SaveCreemSettings: the transaction.  Kept secrets must open under the current key.
SaveCreemSettings(in) ==
    LET key    == Kept(in.key, IF settings = None THEN None ELSE settings.key)
        secret == Kept(in.secret, IF settings = None THEN None ELSE settings.secret)
        keySeal == IF in.key # None THEN encKey ELSE settings.keySeal
        secretSeal == IF in.secret # None THEN encKey ELSE settings.secretSeal
    IN  /\ count.saves < MaxSaves
        /\ ValidateCreemSettings(in)
        /\ key # None /\ secret # None
        /\ keySeal = encKey /\ secretSeal = encKey
        /\ settings' = [enabled |-> in.enabled, mode |-> in.mode, key |-> key, secret |-> secret,
                        keySeal |-> keySeal, secretSeal |-> secretSeal, packages |-> in.packages]
        /\ count' = [count EXCEPT !.saves = @ + 1]
        /\ saving' = saving + 1
        /\ UNCHANGED <<cache, encKey, pay, checkout, provVars, hook, fact, balance, ledger>>

\* Mutant: the handler leaves the snapshot in place.
KeepCreemSettings ==
    /\ saving > 0
    /\ saving' = saving - 1
    /\ UNCHANGED <<cache, settings, encKey, pay, checkout, provVars, hook, fact, count, balance, ledger>>

\* The PUT handler invalidates the cache once the save has committed.
InvalidateCreemSettings ==
    /\ saving > 0
    /\ saving' = saving - 1
    /\ cache' = [cache EXCEPT !.fresh = FALSE]
    /\ UNCHANGED <<settings, encKey, pay, checkout, provVars, hook, fact, count, balance, ledger>>

CacheExpires ==
    /\ cache.fresh
    /\ cache' = [cache EXCEPT !.fresh = FALSE]
    /\ UNCHANGED <<settings, saving, encKey, pay, checkout, provVars, hook, fact, count, balance, ledger>>

\* LoadCreemSettings: nothing when unconfigured or sealed under another key.
LoadCreemSettings ==
    IF settings # None /\ settings.keySeal = encKey /\ settings.secretSeal = encKey
    THEN settings ELSE None

Fault == count.faults < MaxFaults /\ count' = [count EXCEPT !.faults = @ + 1]

\* The values creemSettings can return now.
Served ==
    IF cache.fresh THEN {cache.val}
    ELSE {LoadCreemSettings} \cup (IF count.faults < MaxFaults THEN {cache.val} ELSE {})

\* creemSettings: the snapshot while it is fresh, else a load; a load that fails
\* leaves the last snapshot.  st is what the caller gets.
CreemSettings(st) ==
    \/ cache.fresh /\ st = cache.val /\ UNCHANGED <<cache, count>>
    \/ ~cache.fresh /\ st = LoadCreemSettings /\ cache' = [val |-> st, fresh |-> TRUE]
       /\ UNCHANGED count
    \/ ~cache.fresh /\ st = cache.val /\ Fault /\ UNCHANGED cache

\* creemRuntime, creemCheckoutRuntime: webhooks of existing payments are handled while
\* new checkouts are switched off.
Runtime(st) == st # None
CheckoutRuntime(st) == Runtime(st) /\ st.enabled

\* GetProduct and validateCreemProduct: the provider answers the mode's own key.
ProductIsSold(st) == st.key = st.mode

\* A request that gets no further than the settings (refused, or a read of the catalog).
ReadCreemSettings ==
    /\ \E st \in Served : CreemSettings(st)
    /\ UNCHANGED <<settings, saving, encKey, pay, checkout, provVars, hook, fact, balance, ledger>>

\* A crash and restart: requests in flight and the snapshot are lost.
Restart(k) ==
    /\ Fault
    /\ encKey' = k
    /\ cache' = [val |-> None, fresh |-> FALSE]
    /\ saving' = 0
    /\ checkout' = [c \in Codes |-> [step |-> "idle"]]
    /\ hook' = [w \in Workers |-> [step |-> "idle"]]
    /\ UNCHANGED <<settings, pay, provVars, fact, balance, ledger>>

-----------------------------------------------------------------------------
(* Checkout.                                                               *)

\* Mutant: a row is inserted in a status nothing expects.
NewPaymentCreated(a, p) ==
    [account |-> a, product |-> p.product, amount |-> price[p.product], credits |-> p.credits,
     status |-> "created", order |-> None]

\* CreatePendingPayment: the snapshot the webhooks are reconciled with.
NewPayment(a, p) ==
    [account |-> a, product |-> p.product, amount |-> price[p.product], credits |-> p.credits,
     status |-> "pending", order |-> None]

\* StartCreemCheckout up to the pending row, at the live price.  A product the
\* provider does not sell is refused and nothing is recorded.
StartCreemCheckout(c, a) ==
    \E st \in Served :
        /\ pay[c] = None
        /\ CreemSettings(st)
        /\ CheckoutRuntime(st) /\ ProductIsSold(st)
        /\ \E p \in st.packages :
            /\ pay' = [pay EXCEPT ![c] = NewPayment(a, p)]
            /\ checkout' = [checkout EXCEPT ![c] =
                              [step |-> "post", mode |-> st.mode, product |-> p.product]]
        /\ UNCHANGED <<settings, saving, encKey, provVars, hook, fact, balance, ledger>>

\* Mutant: an answer that is lost or odd is taken for a rejection.
CreateCheckoutInDoubt(c) ==
    /\ checkout[c].step = "post"
    /\ checkout' = [checkout EXCEPT ![c].step = "rejected"]
    /\ order' = [order EXCEPT ![c] =
                   [state |-> "open", mode |-> checkout[c].mode, product |-> checkout[c].product,
                    amount |-> price[checkout[c].product], refunds |-> {}, disputed |-> FALSE]]
    /\ UNCHANGED <<setVars, pay, price, acked, hook, fact, count, balance, ledger>>

\* CreateCheckout: the provider opens a checkout at the price it has now; the
\* answer arrives, is lost or does not match (the payment stays pending).
CreateCheckout(c) ==
    /\ checkout[c].step = "post"
    /\ checkout' = [checkout EXCEPT ![c] = [step |-> "idle"]]
    /\ order' = [order EXCEPT ![c] =
                   [state |-> "open", mode |-> checkout[c].mode, product |-> checkout[c].product,
                    amount |-> price[checkout[c].product], refunds |-> {}, disputed |-> FALSE]]
    /\ UNCHANGED <<setVars, pay, price, acked, hook, fact, count, balance, ledger>>

\* The call never reached the provider: the row stays pending.
CheckoutUnreachable(c) ==
    /\ checkout[c].step = "post"
    /\ checkout' = [checkout EXCEPT ![c] = [step |-> "idle"]]
    /\ UNCHANGED <<setVars, pay, provVars, hook, fact, count, balance, ledger>>

\* 400, 401, 403 or 404: the provider opened nothing.
CheckoutRejected(c) ==
    /\ checkout[c].step = "post"
    /\ checkout' = [checkout EXCEPT ![c].step = "rejected"]
    /\ UNCHANGED <<setVars, pay, provVars, hook, fact, count, balance, ledger>>

\* SetPaymentStatus: only a pending payment ends without being paid.
SetPaymentStatus(c, status) ==
    pay' = IF pay[c].status = "pending" THEN [pay EXCEPT ![c].status = status] ELSE pay

FailPayment(c) ==
    /\ checkout[c].step = "rejected"
    /\ checkout' = [checkout EXCEPT ![c] = [step |-> "idle"]]
    /\ SetPaymentStatus(c, "failed")
    /\ UNCHANGED <<setVars, provVars, hook, fact, count, balance, ledger>>

-----------------------------------------------------------------------------
(* The provider (external).                                                *)

\* A price edited between the pending row and the provider's checkout; edited at
\* another time it is only the price of the next checkout.
ChangePrice(p) ==
    /\ Fault
    /\ \E c \in Codes : checkout[c].step = "post" /\ checkout[c].product = p
    /\ \E v \in Prices \ {price[p]} : price' = [price EXCEPT ![p] = v]
    /\ UNCHANGED <<setVars, pay, checkout, order, acked, hook, fact, balance, ledger>>

Capture(c) ==
    /\ order[c].state = "open"
    /\ order' = [order EXCEPT ![c].state = "captured"]
    /\ UNCHANGED <<setVars, pay, checkout, price, acked, hook, fact, count, balance, ledger>>

AmountPaid(c) == order[c].amount + Tax
RefundedAmount(c) == RefundUnit * Cardinality(order[c].refunds)

Refund(c, r) ==
    /\ order[c].state = "captured"
    /\ \A d \in Codes : order[d].state # "none" => r \notin order[d].refunds
    /\ RefundedAmount(c) + RefundUnit <= AmountPaid(c)
    /\ order' = [order EXCEPT ![c].refunds = @ \cup {r}]
    /\ UNCHANGED <<setVars, pay, checkout, price, acked, hook, fact, count, balance, ledger>>

Dispute(c) ==
    /\ order[c].state = "captured" /\ ~order[c].disputed
    /\ order' = [order EXCEPT ![c].disputed = TRUE]
    /\ UNCHANGED <<setVars, pay, checkout, price, acked, hook, fact, count, balance, ledger>>

Charged == {c \in Codes : order[c].state = "captured"}

\* Events the provider has to tell of; it may tell of each more than once.
Events ==
    {[kind |-> "completed", code |-> c, object |-> None] : c \in Charged}
    \cup (UNION {{[kind |-> "refund", code |-> c, object |-> r] : r \in order[c].refunds} : c \in Charged})
    \cup {[kind |-> "dispute", code |-> c, object |-> None] : c \in {d \in Charged : order[d].disputed}}

-----------------------------------------------------------------------------
(* Webhooks.                                                               *)

\* VerifyCreemWebhookSignature: the cached secret is the sender's.
Signed(st, ev) == st.secret = order[ev.code].mode

\* handleCreemWebhook up to the signature.
ReceiveWebhook(w, ev) ==
    \E st \in Served :
        /\ hook[w].step = "idle"
        /\ CreemSettings(st)
        /\ st # None /\ Signed(st, ev)
        /\ hook' = [hook EXCEPT ![w] = [step |-> "signed", ev |-> ev]]
        /\ UNCHANGED <<settings, saving, encKey, pay, checkout, provVars, fact, balance, ledger>>

Dropped(w) == hook' = [hook EXCEPT ![w] = [step |-> "idle"]]

\* The webhook is answered 200.
Answer(w) ==
    /\ acked' = acked \cup {hook[w].ev}
    /\ hook' = [hook EXCEPT ![w] = [step |-> "idle"]]

\* The facts of a completed checkout against the payment's own snapshot.
Reconciles(c, st) ==
    /\ Runtime(st) /\ pay[c] # None
    /\ order[c].product = pay[c].product
    /\ order[c].amount = pay[c].amount
    /\ order[c].mode = st.mode

\* ReconcileCreemCompletion up to the binding, with settings read again.
ReconcileCreemCompletion(w) ==
    \E st \in Served :
        /\ hook[w].step = "signed" /\ hook[w].ev.kind = "completed"
        /\ CreemSettings(st)
        /\ IF Reconciles(hook[w].ev.code, st)
           THEN hook' = [hook EXCEPT ![w].step = "bind"] ELSE Dropped(w)
        /\ UNCHANGED <<settings, saving, encKey, pay, checkout, provVars, fact, balance, ledger>>

\* Mutant: an order that is bound already is a conflict, also when it is the same.
BindableOnce(c) == pay[c].order = None

\* ProviderOrderBelongsToAnotherPayment, BindProviderOrderByCode: an order backs one
\* payment and a payment has one order.  The provider's order of checkout c is named c.
Bindable(c) ==
    /\ \A d \in Codes \ {c} : pay[d] # None => pay[d].order # c
    /\ pay[c].order \in {None, c}

BindProviderOrder(w) ==
    LET c == hook[w].ev.code
    IN  /\ hook[w].step = "bind"
        /\ IF Bindable(c)
           THEN /\ pay' = [pay EXCEPT ![c].order = c]
                /\ hook' = [hook EXCEPT ![w].step = "complete"]
           ELSE Dropped(w) /\ UNCHANGED pay
        /\ UNCHANGED <<setVars, checkout, provVars, fact, count, balance, ledger>>

\* Mutant: the mark is written after the commit, and lost.
MarkPaymentUnpaid(c) == UNCHANGED pay

MarkPaymentPaid(c) == pay' = [pay EXCEPT ![c].status = "paid"]

\* CompletePayment: paid already is success without a grant; only pending is paid.
CompletePayment(w) ==
    LET c == hook[w].ev.code
    IN  /\ hook[w].step = "complete"
        /\ \/ /\ pay[c].status = "paid"
              /\ Answer(w)
              /\ UNCHANGED <<pay, balance, ledger>>
           \/ /\ pay[c].status = "pending"
              /\ Record(pay[c].account, "grant_payment", c, pay[c].credits)
              /\ MarkPaymentPaid(c)
              /\ Answer(w)
           \/ /\ pay[c].status = "pending" => ~CanRecord(pay[c].account, pay[c].credits)
              /\ pay[c].status # "paid"
              /\ Dropped(w)
              /\ UNCHANGED <<pay, acked, balance, ledger>>
        /\ UNCHANGED <<setVars, checkout, price, order, fact, count>>

\* GetTransaction with the cached key: refunded_amount is absent or 0 while nothing
\* was refunded.
GetTransaction(c) ==
    {[paid |-> AmountPaid(c), refunded |-> v] :
        v \in IF order[c].refunds = {} THEN {None, 0} ELSE {RefundedAmount(c)}}

\* buildRefundFact: what was refunded in all is named and covers this refund.
RefundFact(txn) == /\ txn.refunded # None
                   /\ txn.refunded \in RefundUnit .. txn.paid

\* buildDisputeFact: what was refunded may be absent.
DisputeFact(txn) == txn.refunded # None => txn.refunded \in 0 .. txn.paid

FactReconciles(ev, txn) ==
    /\ txn.paid > 0
    /\ IF ev.kind = "refund" THEN RefundFact(txn) ELSE DisputeFact(txn)

\* HandleCreemAdjustmentEvent up to the transaction that records the fact.
AuthoritativePaymentTransaction(w) ==
    LET ev == hook[w].ev
        Reads(st) == Runtime(st) /\ st.key = st.mode /\ st.mode = order[ev.code].mode
    IN  /\ hook[w].step = "signed" /\ ev.kind \in {"refund", "dispute"}
        /\ \E st \in Served :
            /\ CreemSettings(st)
            /\ \/ /\ Reads(st)
                  /\ \E txn \in {t \in GetTransaction(ev.code) : FactReconciles(ev, t)} :
                       hook' = [hook EXCEPT ![w] = [step |-> "record", ev |-> ev, txn |-> txn]]
               \/ ~Reads(st) /\ Dropped(w)
        /\ UNCHANGED <<settings, saving, encKey, pay, checkout, provVars, fact, balance, ledger>>

\* findPaymentByProviderOrderID: the payment bound to the order, if it is paid.
PaymentOf(c) == {d \in Codes : pay[d] # None /\ pay[d].order = c /\ pay[d].status = "paid"}

\* reconcileAuthoritativeTransaction: the order's own amount is the payment's.
AuthoritativeAgrees(d, c) == pay[d].order = c /\ order[c].amount = pay[d].amount

\* Mutant: the latest reading wins, also when it is older.
InsertLatestAdjustment(rows, row) ==
    {f \in rows : f.kind # row.kind \/ f.object # row.object} \cup {row}

\* InsertPaymentAdjustment: one row per object, which a later reading updates
\* unless it would lower the refunded amount.
InsertPaymentAdjustment(rows, row) ==
    LET old == {f \in rows : f.kind = row.kind /\ f.object = row.object /\ f.code = row.code}
        newer == row.refunded # None
                 /\ \A f \in old : f.refunded = None \/ row.refunded >= f.refunded
    IN  IF old = {} THEN rows \cup {row}
        ELSE IF newer THEN (rows \ old) \cup {row} ELSE rows

\* Mutant: rounded up.
reversalTargetUp(credits, refunded, paid) == (credits * refunded + paid - 1) \div paid

\* reversalTarget: the share of the credits that the refunded amount is of the paid one.
reversalTarget(credits, refunded, paid) ==
    IF refunded = paid THEN credits ELSE (credits * refunded) \div paid

\* resolveAdjustmentFacts and the target derived from the rows.
MaxRefunded(rows) == Max({0} \cup {f.refunded : f \in {g \in rows : g.refunded # None}})
HasDispute(rows) == \E f \in rows : f.kind = "dispute"
Target(p, rows, paid) ==
    IF HasDispute(rows) THEN p.credits ELSE reversalTarget(p.credits, MaxRefunded(rows), paid)

FactsOf(c) == {f \in fact : f.code = c}
Reversed(c) == -SumAmountByTypeRef(pay[c].account, "reverse_payment", c)

\* RecordPaymentAdjustment: the fact, and the credits still to be taken back.
RecordPaymentAdjustment(w) ==
    /\ hook[w].step = "record"
    /\ \E c \in PaymentOf(hook[w].ev.code) :
        LET txn  == hook[w].txn
            row  == [code |-> c, kind |-> hook[w].ev.kind, object |-> hook[w].ev.object,
                     paid |-> txn.paid, refunded |-> txn.refunded]
            rows == InsertPaymentAdjustment(FactsOf(c), row)
            delta == Target(pay[c], rows, txn.paid) - Reversed(c)
        IN  /\ AuthoritativeAgrees(c, hook[w].ev.code)
            /\ \A f \in rows : f.paid = txn.paid
            /\ MaxRefunded(rows) \in 0 .. txn.paid
            /\ Reversed(c) \in 0 .. pay[c].credits
            /\ fact' = (fact \ FactsOf(c)) \cup rows
            /\ IF delta > 0
               THEN RecordAuthoritativeReversal(pay[c].account, "reverse_payment", c, -delta)
               ELSE UNCHANGED <<balance, ledger>>
            /\ Answer(w)
            /\ UNCHANGED <<setVars, pay, checkout, price, order, count>>

\* The event came before the payment was paid, or its order is not ours: 400.
RefuseAdjustment(w) ==
    /\ hook[w].step = "record" /\ PaymentOf(hook[w].ev.code) = {}
    /\ Dropped(w)
    /\ UNCHANGED <<setVars, pay, checkout, provVars, fact, count, balance, ledger>>

\* A database or network error at any step: nothing is written, no 200.
WebhookFails(w) ==
    /\ hook[w].step # "idle"
    /\ Fault
    /\ Dropped(w)
    /\ UNCHANGED <<setVars, pay, checkout, provVars, fact, balance, ledger>>

-----------------------------------------------------------------------------
PayInit ==
    /\ CreditsInit
    /\ settings = None
    /\ cache = [val |-> None, fresh |-> FALSE]
    /\ saving = 0
    /\ encKey \in EncKeys
    /\ pay = [c \in Codes |-> None]
    /\ checkout = [c \in Codes |-> [step |-> "idle"]]
    /\ price = ListPrice
    /\ order = [c \in Codes |-> [state |-> "none"]]
    /\ acked = {}
    /\ hook = [w \in Workers |-> [step |-> "idle"]]
    /\ fact = {}
    /\ count = [saves |-> 0, faults |-> 0]

WebhookStep(w) ==
    \/ ReconcileCreemCompletion(w)
    \/ BindProviderOrder(w)
    \/ CompletePayment(w)
    \/ AuthoritativePaymentTransaction(w)
    \/ RecordPaymentAdjustment(w)
    \/ RefuseAdjustment(w)

PayNext ==
    \/ \E in \in Inputs : SaveCreemSettings(in)
    \/ InvalidateCreemSettings
    \/ CacheExpires
    \/ ReadCreemSettings
    \/ \E k \in EncKeys : Restart(k)
    \/ \E c \in Codes, a \in Accounts : StartCreemCheckout(c, a)
    \/ \E c \in Codes :
        \/ CreateCheckout(c) \/ CheckoutUnreachable(c) \/ CheckoutRejected(c)
        \/ FailPayment(c)
        \/ Capture(c) \/ Dispute(c)
        \/ \E r \in Refunds : Refund(c, r)
    \/ \E p \in Products : ChangePrice(p)
    \/ \E w \in Workers :
        \/ \E ev \in Events : ReceiveWebhook(w, ev)
        \/ WebhookStep(w)
        \/ WebhookFails(w)

PaySpec == PayInit /\ [][PayNext]_payVars

-----------------------------------------------------------------------------
(* Properties.                                                             *)

PayTypeOK ==
    /\ \A c \in Codes : pay[c] # None =>
        /\ pay[c].status \in {"pending", "paid", "failed"}
        /\ pay[c].order \in {None} \cup Codes
        /\ pay[c].credits \in 1 .. MaxCredits
    /\ \A c \in Codes : order[c].state \in {"none", "open", "captured"}
    /\ \A w \in Workers : hook[w].step \in {"idle", "signed", "bind", "complete", "record"}
    /\ \A a \in Accounts : balance[a] \in -MaxCredits - 1 .. MaxCredits

\* However often, however concurrently and after whatever crash checkout.completed
\* is handled, the payment's credits are granted once, at the amount of the package
\* when the payment was made, and only for a charge of the recorded price.
GrantedOnce ==
    \A c \in Codes : pay[c] # None =>
        /\ SumAmountByTypeRef(pay[c].account, "grant_payment", c)
             = IF pay[c].status = "paid" THEN pay[c].credits ELSE 0
        /\ pay[c].status = "paid" =>
             order[c].state = "captured" /\ order[c].amount = pay[c].amount

\* A payment that was failed is one the provider never opened a checkout for: no
\* charge is ever taken for credits that cannot be granted any more.
FailedIsNeverCharged ==
    \A c \in Codes : pay[c] # None /\ pay[c].status = "failed" => order[c].state = "none"

\* The credits taken back are exactly what the recorded facts demand, whatever order
\* the events were handled in and however old the transaction each one read.
ReversedToTarget ==
    \A c \in Codes : pay[c] # None =>
        Reversed(c) = IF FactsOf(c) = {} THEN 0 ELSE Target(pay[c], FactsOf(c), AmountPaid(c))

\* No more is taken back than the provider has refunded, short of a dispute, and
\* never more than was granted.
NeverOverReversed ==
    \A c \in Codes : pay[c] # None =>
        /\ Reversed(c) <= SumAmountByTypeRef(pay[c].account, "grant_payment", c)
        /\ Reversed(c) > 0 /\ ~order[c].disputed =>
             Reversed(c) * AmountPaid(c) <= pay[c].credits * RefundedAmount(c)

\* Once a save has been answered, a fresh snapshot is the saved row: the process
\* serves no older settings (an expired snapshot may be, while the database fails).
FreshIsSaved == cache.fresh /\ saving = 0 => cache.val = LoadCreemSettings

\* Settings under which the provider's events about c can be handled.
Usable(c) ==
    \A st \in Served : st # None /\ st.secret = order[c].mode /\ st.mode = order[c].mode
                       /\ st.key = st.mode

\* What the provider may ever have to tell.
AllEvents ==
    [kind : {"completed", "dispute"}, code : Codes, object : {None}]
    \cup [kind : {"refund"}, code : Codes, object : Refunds]

\* The delivery of an event the provider still waits for an answer to.
Redeliver(w, ev) == ev \in Events \ acked /\ ReceiveWebhook(w, ev)

\* The provider delivers an event again until it is answered; a request that no fault
\* interrupts ends.
PayFairSpec ==
    /\ PaySpec
    /\ \A w \in Workers : WF_payVars(WebhookStep(w))
    /\ \A ev \in AllEvents : SF_payVars(\E w \in Workers : Redeliver(w, ev))

\* A charge at the recorded price is credited in the end, and every refund or
\* dispute of it recorded, if from some time on settings fit the order's mode.
ChargeIsCredited ==
    \A c \in Codes :
        LET sound == /\ order[c].state = "captured" /\ order[c].amount = pay[c].amount
                     /\ Usable(c)
                     /\ pay[c].status = "pending" => checkAdd(pay[c].account, pay[c].credits)
            settled == /\ pay[c] # None /\ pay[c].status = "paid"
                       /\ \A ev \in Events : ev.code = c => ev \in acked
        IN  <>[]sound => <>[]settled

\* A charge is credited once and only to a payment that awaits it, and the balance is the sum of the ledger, which
\* the code writes by separate statements.
CreditedOnce == PayTypeOK /\ BalanceIsLedger /\ GrantedOnce /\ FailedIsNeverCharged

\* What is taken back is what the provider's facts demand in total, rounded in the account's favour, in whatever
\* order and however often the facts are told.
ReversedAsRefunded == ReversedToTarget /\ NeverOverReversed
=============================================================================
