---------------------------- MODULE Redemptions ----------------------------
(***************************************************************************)
(* Spending credits on rewards: products, redemptions and their review.    *)
(*                                                                         *)
(* Redeem looks up the request key, the balance and the product, and then  *)
(* runs redeemTx, which holds a pooled connection from TxBegin on, locks   *)
(* the product, and asks the pool for a second connection to probe the     *)
(* redemption's code before it inserts, charges and commits.  Every        *)
(* request ends after the router's 25 seconds at the latest.  A transition *)
(* of the review locks the redemption row and is one action.               *)
(***************************************************************************)
EXTENDS Credits

CONSTANTS
    Requests,      \* redeem requests served at once
    Keys,          \* request keys the owners use
    Rewards,       \* product codes (bound on products)
    RewardPrices,  \* prices an administrator sets
    Redeemed,      \* redemption codes (bound on redemptions)
    PoolSize,      \* pg.Pool MaxConns
    NoRow          \* no such row

ASSUME RedemptionAssumption ==
    /\ RewardPrices \subseteq Nat \ {0}
    /\ PoolSize \in Nat \ {0}
    /\ NoRow \notin Rewards /\ NoRow \notin Redeemed

\* tb_rewards_products and tb_redemptions.
ProductRow == [status : {"active", "inactive"}, price : RewardPrices]
RedemptionRow ==
    [account : Accounts, key : Keys, product : Rewards, cost : RewardPrices,
     status : {"pending_review", "approved", "fulfilled", "rejected", "cancelled"}]

ASSUME NoRowAssumption == NoRow \notin ProductRow /\ NoRow \notin RedemptionRow

VARIABLES
    product,     \* tb_rewards_products: status and price by code
    redemption,  \* tb_redemptions by code: account, key, product, cost, status
    redeem,      \* redeem requests: step and what they have read
    answered     \* redemptions owners were answered with, by account, key and product

rewVars == <<product, redemption, redeem, answered>>

Rows == {r \in Redeemed : redemption[r] # NoRow}
Idle == [step |-> "idle"]

\* Connections held by requests inside redeemTx.
Held == Cardinality({q \in Requests : redeem[q].step \in {"begun", "locked", "refused"}})
FreeConnection == Held < PoolSize

\* Mutant: the product is read without a lock.
ProductUnlocked(p) == TRUE

\* FOR UPDATE on the product, taken by the request in its transaction.
ProductFree(p) == \A q \in Requests : redeem[q].step = "locked" => redeem[q].product # p

-----------------------------------------------------------------------------
(* Products (administration).                                              *)

CreateProduct(p) ==
    /\ product[p] = NoRow
    /\ \E v \in RewardPrices : product' = [product EXCEPT ![p] = [status |-> "active", price |-> v]]
    /\ UNCHANGED <<redemption, redeem, answered, balance, ledger>>

UpdateProduct(p) ==
    /\ product[p] # NoRow /\ ProductFree(p)
    /\ \E v \in RewardPrices : product' = [product EXCEPT ![p].price = v]
    /\ UNCHANGED <<redemption, redeem, answered, balance, ledger>>

SetProductStatus(p, status) ==
    /\ product[p] # NoRow /\ ProductFree(p)
    /\ product' = [product EXCEPT ![p].status = status]
    /\ UNCHANGED <<redemption, redeem, answered, balance, ledger>>

-----------------------------------------------------------------------------
(* Redeeming.                                                              *)

\* Mutant: keys are unique per redemption code only.
ByNoKey(a, k) == {}

\* FindRedemptionByRequestKey, and the unique index behind it.
ByKey(a, k) == {r \in Rows : redemption[r].account = a /\ redemption[r].key = k}

Answered(a, k, p, r) == answered' = answered \cup {[account |-> a, key |-> k, product |-> p, code |-> r]}

\* resolveReplay: the earlier redemption, if it was for the same product.
ResolveReplay(a, k, p) ==
    \E r \in ByKey(a, k) :
        IF product[p] # NoRow /\ redemption[r].product = p
        THEN Answered(a, k, p, r) ELSE UNCHANGED answered

\* Redeem up to its transaction: the key is unused, the product looks affordable.
Redeem(q, a, k, p) ==
    /\ redeem[q].step = "idle"
    /\ FreeConnection
    /\ ByKey(a, k) = {}
    /\ product[p] # NoRow /\ product[p].status = "active"
    /\ balance[a] >= product[p].price
    /\ redeem' = [redeem EXCEPT ![q] = [step |-> "begin", account |-> a, key |-> k, product |-> p]]
    /\ UNCHANGED <<product, redemption, answered, balance, ledger>>

RedeemReplay(q, a, k, p) ==
    /\ redeem[q].step = "idle"
    /\ FreeConnection
    /\ ResolveReplay(a, k, p)
    /\ UNCHANGED <<product, redemption, redeem, balance, ledger>>

\* TxBegin: the request's first connection.
RedeemBegin(q) ==
    /\ redeem[q].step = "begin"
    /\ FreeConnection
    /\ redeem' = [redeem EXCEPT ![q].step = "begun"]
    /\ UNCHANGED <<product, redemption, answered, balance, ledger>>

\* LockActiveRewardsProductByCode: waits for the row, finds it only while active.
RedeemLock(q) ==
    LET p == redeem[q].product
    IN  /\ redeem[q].step = "begun"
        /\ ProductFree(p)
        /\ redeem' = [redeem EXCEPT ![q] =
              [step |-> IF product[p].status = "active" THEN "locked" ELSE "refused",
               account |-> @.account, key |-> @.key, product |-> p, cost |-> product[p].price]]
        /\ UNCHANGED <<product, redemption, answered, balance, ledger>>

\* The product went inactive: a second connection tells 409 from 404.
RedeemRefused(q) ==
    /\ redeem[q].step = "refused"
    /\ FreeConnection
    /\ redeem' = [redeem EXCEPT ![q] = Idle]
    /\ UNCHANGED <<product, redemption, answered, balance, ledger>>

\* The rest of redeemTx, once a second connection has probed the code r: the row,
\* the charge, the commit.
RedeemCommit(q, r) ==
    LET x == redeem[q]
    IN  /\ x.step = "locked"
        /\ FreeConnection
        /\ redemption[r] = NoRow
        /\ ByKey(x.account, x.key) = {}
        /\ Record(x.account, "spend_redemption", r, -x.cost)
        /\ redemption' = [redemption EXCEPT ![r] =
              [account |-> x.account, key |-> x.key, product |-> x.product, cost |-> x.cost,
               status |-> "pending_review"]]
        /\ redeem' = [redeem EXCEPT ![q] = Idle]
        /\ Answered(x.account, x.key, x.product, r)
        /\ UNCHANGED product

\* UNIQUE (bot_id, request_key): roll back, answer with the winner's redemption.
RedeemConflict(q) ==
    LET x == redeem[q]
    IN  /\ x.step = "locked"
        /\ FreeConnection
        /\ redeem' = [redeem EXCEPT ![q] = Idle]
        /\ ResolveReplay(x.account, x.key, x.product)
        /\ UNCHANGED <<product, redemption, balance, ledger>>

\* 402 or 500: everything rolls back.  Also the end of the request's time budget,
\* in whatever step.
RedeemFails(q) ==
    /\ redeem[q].step # "idle"
    /\ redeem' = [redeem EXCEPT ![q] = Idle]
    /\ UNCHANGED <<product, redemption, answered, balance, ledger>>

-----------------------------------------------------------------------------
(* Review (administration).                                                *)

\* lockTransitionTx: approve and fulfil.
LockTransition(r, from, target) ==
    /\ redemption[r].status = from
    /\ redemption' = [redemption EXCEPT ![r].status = target]
    /\ UNCHANGED <<product, redeem, answered, balance, ledger>>

ApproveRedemption(r) == r \in Rows /\ LockTransition(r, "pending_review", "approved")
FulfillRedemption(r) == r \in Rows /\ LockTransition(r, "approved", "fulfilled")

\* Mutant: any earlier status may be refunded.
RefundAnyTransition(r, from, target) ==
    /\ redemption[r].status # target
    /\ Record(redemption[r].account, "refund_redemption", r, redemption[r].cost)
    /\ redemption' = [redemption EXCEPT ![r].status = target]
    /\ UNCHANGED <<product, redeem, answered>>

\* refundTransitionTx: reject and cancel give the cost back.
RefundTransition(r, from, target) ==
    /\ redemption[r].status \in from
    /\ Record(redemption[r].account, "refund_redemption", r, redemption[r].cost)
    /\ redemption' = [redemption EXCEPT ![r].status = target]
    /\ UNCHANGED <<product, redeem, answered>>

RejectRedemption(r) == r \in Rows /\ RefundTransition(r, {"pending_review"}, "rejected")
CancelRedemption(r) == r \in Rows /\ RefundTransition(r, {"pending_review", "approved"}, "cancelled")

-----------------------------------------------------------------------------
RewInit ==
    /\ product = [p \in Rewards |-> NoRow]
    /\ redemption = [r \in Redeemed |-> NoRow]
    /\ redeem = [q \in Requests |-> Idle]
    /\ answered = {}

RedeemStep(q) ==
    \/ RedeemBegin(q) \/ RedeemLock(q) \/ RedeemRefused(q)
    \/ \E r \in Redeemed : RedeemCommit(q, r)
    \/ RedeemConflict(q)

RewNext ==
    \/ \E p \in Rewards :
        \/ CreateProduct(p) \/ UpdateProduct(p)
        \/ \E s \in {"active", "inactive"} : SetProductStatus(p, s)
    \/ \E q \in Requests :
        \/ \E a \in Accounts, k \in Keys, p \in Rewards : Redeem(q, a, k, p) \/ RedeemReplay(q, a, k, p)
        \/ RedeemStep(q)
        \/ RedeemFails(q)
    \/ \E r \in Redeemed :
        ApproveRedemption(r) \/ FulfillRedemption(r) \/ RejectRedemption(r) \/ CancelRedemption(r)

-----------------------------------------------------------------------------
(* Properties.                                                             *)

\* A request key buys one thing: every answer an owner ever got for the key names
\* the same redemption and product, whatever raced, timed out or was retried.
OneAnswerPerKey ==
    \A x, y \in answered :
        x.account = y.account /\ x.key = y.key => x.code = y.code /\ x.product = y.product

\* A redemption is charged once at its recorded cost, and given back once, exactly
\* when it ends rejected or cancelled.
ChargedAndRefundedOnce ==
    \A r \in Redeemed : \A a \in Accounts :
        LET mine == redemption[r] # NoRow /\ redemption[r].account = a
        IN  /\ SumAmountByTypeRef(a, "spend_redemption", r) = IF mine THEN -redemption[r].cost ELSE 0
            /\ SumAmountByTypeRef(a, "refund_redemption", r) =
                 IF mine /\ redemption[r].status \in {"rejected", "cancelled"}
                 THEN redemption[r].cost ELSE 0

\* A redemption comes into being for a product that is active at that moment, at the
\* price it has at that moment.
RedeemedAtCurrentPrice ==
    [][\A r \in Redeemed : redemption[r] = NoRow /\ redemption'[r] # NoRow =>
          LET p == product[redemption'[r].product]
          IN  p.status = "active" /\ p.price = redemption'[r].cost]_<<product, redemption>>
=============================================================================
