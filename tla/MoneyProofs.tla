---------------------------- MODULE MoneyProofs -----------------------------
(***************************************************************************)
(* Payments and redemptions over one ledger, for every number of payments, *)
(* webhooks at once, refunds, redeem requests and faults.                  *)
(***************************************************************************)
EXTENDS Money, SumProofs, WellFoundedInduction

-----------------------------------------------------------------------------
(* The ledger.                                                             *)

\* Balances and rows are numbers of credits, of each account finitely many rows.
LedgerTypeOK ==
    /\ balance \in [Accounts -> Int]
    /\ ledger = [k \in DOMAIN ledger |-> ledger[k]]
    /\ \A k \in DOMAIN ledger : ledger[k] \in Int
    /\ \A a \in Accounts : IsFiniteSet(KeysOf(a))

\* Every balance is one the ledger can hold.
InRange == \A a \in Accounts : balance[a] \in -MaxCredits - 1 .. MaxCredits

\* The accounts start with their genesis rows.
LEMMA LedgerStart ==
  ASSUME CreditsInit
  PROVE  LedgerTypeOK /\ InRange /\ BalanceIsLedger
  <1> USE DEF CreditsInit
  <1>1. MaxCredits \in Nat /\ Opening \in 0 .. MaxCredits
    BY CreditsAssumption
  <1>2. \A k \in DOMAIN ledger : ledger[k] = Opening
    OBVIOUS
  <1>3. ASSUME NEW a \in Accounts PROVE KeysOf(a) = {<<a, "grant_signup", a>>}
    BY DEF KeysOf
  <1>4. ASSUME NEW a \in Accounts PROVE IsFiniteSet(KeysOf(a))
    BY <1>3, FS_Singleton
  <1>5. LedgerTypeOK
    BY <1>1, <1>2, <1>4 DEF LedgerTypeOK
  <1>6. ASSUME NEW a \in Accounts
        PROVE  balance[a] = Total(Added, KeysOf(a)) - Total(Taken, KeysOf(a))
    <2> DEFINE k == <<a, "grant_signup", a>>
    <2>1. k \in DOMAIN ledger /\ KeysOf(a) = {k} /\ IsFiniteSet({k})
      BY <1>3, FS_Singleton
    <2>2. Added[k] = Opening /\ Taken[k] = 0
      BY <1>1, <1>2, <2>1 DEF Added, Taken
    <2>3. CreditsIn(Added, {k}) = {k} \X (1..Opening) /\ CreditsIn(Taken, {k}) = {k} \X (1..0)
      BY <2>2 DEF CreditsIn
    <2>4. Opening \in Nat /\ 0 \in Nat
      BY <1>1
    <2>5. Cardinality({k} \X (1..Opening)) = Opening /\ Cardinality({k} \X (1..0)) = 0
      BY <2>4, CreditsOfOne, Zenon
    <2>6. Total(Added, {k}) = Opening /\ Total(Taken, {k}) = 0
      BY <2>3, <2>5, Zenon DEF Total
    <2> QED
      BY <2>1, <2>4, <2>6
  <1>7. Opening \in -MaxCredits - 1 .. MaxCredits
    BY <1>1
  <1>8. InRange
    BY <1>7 DEF InRange
  <1> QED
    BY <1>5, <1>6, <1>8 DEF BalanceIsLedger

\* A row moves the sum it is kept in, and no other.
LEMMA PostMovesSum ==
  ASSUME NEW a, NEW type, NEW ref, NEW amount, Post(a, type, ref, amount),
         NEW b, NEW t, NEW r
  PROVE  SumAmountByTypeRef(b, t, r)' =
           IF b = a /\ t = type /\ r = ref
           THEN SumAmountByTypeRef(a, type, ref) + amount ELSE SumAmountByTypeRef(b, t, r)
  BY DEF Post, SumAmountByTypeRef

\* The sum of the rows of one kind about one object is a number.
LEMMA SumType ==
  ASSUME LedgerTypeOK, NEW b, NEW t, NEW r
  PROVE  SumAmountByTypeRef(b, t, r) \in Int
  BY DEF LedgerTypeOK, SumAmountByTypeRef

\* A row keeps the types.
LEMMA PostKeepsType ==
  ASSUME LedgerTypeOK, NEW a \in Accounts, NEW type, NEW ref, NEW amount \in Int,
         Post(a, type, ref, amount)
  PROVE  /\ LedgerTypeOK'
         /\ balance'[a] = balance[a] + amount
         /\ \A b \in Accounts \ {a} : balance'[b] = balance[b]
  <1> DEFINE k == <<a, type, ref>>
  <1>1. /\ balance' = [balance EXCEPT ![a] = @ + amount]
        /\ ledger' = [i \in DOMAIN ledger \cup {k} |->
                        IF i = k THEN SumAmountByTypeRef(a, type, ref) + amount ELSE ledger[i]]
    BY DEF Post
  <1>2. balance \in [Accounts -> Int] /\ balance[a] \in Int
    BY DEF LedgerTypeOK
  <1>3. balance' \in [Accounts -> Int]
    BY <1>1, <1>2
  <1>4. DOMAIN ledger' = DOMAIN ledger \cup {k}
    BY <1>1
  <1>5. SumAmountByTypeRef(a, type, ref) + amount \in Int
    BY SumType
  <1>6. \A i \in DOMAIN ledger' : ledger'[i] \in Int
    BY <1>1, <1>4, <1>5 DEF LedgerTypeOK
  <1>7. ASSUME NEW b \in Accounts PROVE IsFiniteSet(KeysOf(b)')
    <2>1. KeysOf(b)' = KeysOf(b) \cup (IF b = a THEN {k} ELSE {})
      BY <1>4 DEF KeysOf
    <2>2. IsFiniteSet(KeysOf(b)) /\ IsFiniteSet(KeysOf(b) \cup {k})
      BY FS_AddElement DEF LedgerTypeOK
    <2> QED
      BY <2>1, <2>2
  <1>8. ledger' = [i \in DOMAIN ledger' |-> ledger'[i]]
    BY <1>1, <1>4
  <1> QED
    BY <1>1, <1>2, <1>3, <1>6, <1>7, <1>8 DEF LedgerTypeOK

\* What the rows add and what they take are natural numbers.
LEMMA SignsType ==
  ASSUME LedgerTypeOK, NEW b \in Accounts
  PROVE  /\ Added \in [DOMAIN ledger -> Nat]
         /\ Taken \in [DOMAIN ledger -> Nat]
         /\ KeysOf(b) \subseteq DOMAIN ledger
  BY DEF LedgerTypeOK, Added, Taken, KeysOf

\* A row keeps the balances the sums of the rows.
LEMMA PostKeepsBalance ==
  ASSUME LedgerTypeOK, BalanceIsLedger, NEW a \in Accounts, NEW type, NEW ref, NEW amount \in Int,
         Post(a, type, ref, amount)
  PROVE  BalanceIsLedger'
  <1> DEFINE k == <<a, type, ref>>
             P == KeysOf(a)
             Q == KeysOf(a) \cup {k}
             f == [i \in Q |-> IF i \in P THEN Added[i] ELSE 0]
             h == [i \in Q |-> IF i \in P THEN Taken[i] ELSE 0]
             g == [i \in Q |-> IF ledger'[i] > 0 THEN ledger'[i] ELSE 0]
             j == [i \in Q |-> IF ledger'[i] < 0 THEN -ledger'[i] ELSE 0]
  <1>1. LedgerTypeOK' /\ balance'[a] = balance[a] + amount
        /\ \A b \in Accounts \ {a} : balance'[b] = balance[b]
    BY PostKeepsType
  <1>2. /\ DOMAIN ledger' = DOMAIN ledger \cup {k}
        /\ ledger'[k] = SumAmountByTypeRef(a, type, ref) + amount
        /\ \A i \in DOMAIN ledger \ {k} : ledger'[i] = ledger[i]
    BY DEF Post
  <1>3. ASSUME NEW b \in Accounts \ {a}
        PROVE  /\ Total(Added', KeysOf(b)') = Total(Added, KeysOf(b))
               /\ Total(Taken', KeysOf(b)') = Total(Taken, KeysOf(b))
    <2>1. KeysOf(b)' = KeysOf(b) /\ k \notin KeysOf(b)
      BY <1>2 DEF KeysOf
    <2>2. \A i \in KeysOf(b) : Added'[i] = Added[i] /\ Taken'[i] = Taken[i]
      BY <1>2, <2>1 DEF Added, Taken, KeysOf
    <2> QED
      BY <2>1, <2>2, TotalSame
  <1>4. P \subseteq DOMAIN ledger /\ IsFiniteSet(P) /\ IsFiniteSet(Q)
    BY FS_AddElement DEF LedgerTypeOK, KeysOf
  <1>5. KeysOf(a)' = Q /\ Q \subseteq DOMAIN ledger'
    BY <1>2 DEF KeysOf
  <1>6. /\ \A i \in Q : ledger'[i] \in Int
        /\ \A i \in P : ledger[i] \in Int
    BY <1>1, <1>4, <1>5 DEF LedgerTypeOK
  <1>7. /\ \A i \in P : Added[i] = (IF ledger[i] > 0 THEN ledger[i] ELSE 0)
        /\ \A i \in P : Taken[i] = (IF ledger[i] < 0 THEN -ledger[i] ELSE 0)
    BY <1>4 DEF Added, Taken
  <1>8. f \in [Q -> Nat] /\ h \in [Q -> Nat] /\ g \in [Q -> Nat] /\ j \in [Q -> Nat]
    BY <1>6, <1>7
  <1>9. /\ \A i \in Q \ {k} : f[i] = g[i]
        /\ \A i \in Q \ {k} : h[i] = j[i]
    BY <1>2, <1>4, <1>7
  <1>10. g[k] - j[k] = f[k] - h[k] + amount
    <2>1. g[k] - j[k] = ledger'[k]
      BY <1>6
    <2>2. f[k] - h[k] = SumAmountByTypeRef(a, type, ref)
      <3>1. CASE k \in DOMAIN ledger
        <4>1. k \in P /\ SumAmountByTypeRef(a, type, ref) = ledger[k] /\ ledger[k] \in Int
          BY <3>1, <1>6 DEF KeysOf, SumAmountByTypeRef
        <4> QED
          BY <4>1, <1>7
      <3>2. CASE k \notin DOMAIN ledger
        BY <3>2, <1>4 DEF SumAmountByTypeRef
      <3> QED
        BY <3>1, <3>2
    <2> QED
      BY <1>2, <2>1, <2>2, SumType
  <1>11. /\ \A i \in Q : Added'[i] = g[i]
         /\ \A i \in Q : Taken'[i] = j[i]
    BY <1>5 DEF Added, Taken
  <1>12. /\ Total(Added', Q) = Total(g, Q)
         /\ Total(Taken', Q) = Total(j, Q)
    BY <1>11, TotalSame
  <1>13. /\ \A i \in P : Added[i] = f[i]
         /\ \A i \in P : Taken[i] = h[i]
    OBVIOUS
  <1>14. /\ Total(Added, P) = Total(f, P)
         /\ Total(Taken, P) = Total(h, P)
    BY <1>13, TotalSame
  <1>15. Total(f, P) = Total(f, Q) /\ Total(h, P) = Total(h, Q)
    <2>1. CASE k \in P
      <3>1. P = Q
        BY <2>1
      <3> QED
        BY <3>1
    <2>2. CASE k \notin P
      <3>1. P = Q \ {k} /\ k \in Q /\ f[k] = 0 /\ h[k] = 0
        BY <2>2
      <3> HIDE DEF P, Q, f, h, k
      <3>2. /\ Total(f, Q) = Total(f, Q \ {k}) + f[k] /\ Total(f, Q \ {k}) \in Nat
            /\ Total(h, Q) = Total(h, Q \ {k}) + h[k] /\ Total(h, Q \ {k}) \in Nat
        BY <1>4, <1>8, <3>1, TotalSplit
      <3> QED
        BY <3>1, <3>2
    <2> QED
      BY <2>1, <2>2
  <1>16. k \in Q
    OBVIOUS
  <1> HIDE DEF P, Q, f, g, h, j, k
  <1>17. /\ Total(g, Q) = Total(f, Q) - f[k] + g[k]
         /\ Total(j, Q) = Total(h, Q) - h[k] + j[k]
    BY <1>4, <1>8, <1>9, <1>16, TotalUpdate
  <1>18. /\ Total(f, Q) \in Nat /\ Total(h, Q) \in Nat
         /\ f[k] \in Nat /\ g[k] \in Nat /\ h[k] \in Nat /\ j[k] \in Nat
    BY <1>4, <1>8, <1>16, TotalType
  <1>19. balance[a] = Total(f, Q) - Total(h, Q)
    <2>1. balance[a] = Total(Added, P) - Total(Taken, P)
      BY DEF BalanceIsLedger, P
    <2> QED
      BY <2>1, <1>14, <1>15
  <1>20. balance'[a] = Total(Added', Q) - Total(Taken', Q)
    BY <1>1, <1>10, <1>12, <1>17, <1>18, <1>19
  <1> QED
    BY <1>1, <1>3, <1>5, <1>20 DEF BalanceIsLedger

-----------------------------------------------------------------------------
(* Shares and largest numbers.                                             *)

\* A product grows with its factor.
LEMMA ProductGrows ==
  ASSUME NEW k \in Nat, NEW m \in Nat, NEW n \in Nat, m <= n
  PROVE  k * m \in Nat /\ k * m <= k * n
  <1>1. n - m \in Nat
    OBVIOUS
  <1>2. k * n = k * m + k * (n - m)
    BY <1>1
  <1>3. k * (n - m) \in Nat /\ k * m \in Nat
    BY <1>1
  <1> QED
    BY <1>2, <1>3

\* A share rounded down.
LEMMA DivLaw ==
  ASSUME NEW n \in Nat, NEW p \in Nat \ {0}
  PROVE  n \div p \in Nat /\ (n \div p) * p <= n /\ n < (n \div p) * p + p
  <1>1. n \div p \in Int
    OBVIOUS
  <1>2. (n \div p) * p <= n
    OBVIOUS
  <1>3. n < (n \div p) * p + p
    OBVIOUS
  <1>4. n \div p >= 0
    OBVIOUS
  <1> QED
    BY <1>1, <1>2, <1>3, <1>4

\* A share of more is no less.
LEMMA DivGrows ==
  ASSUME NEW m \in Nat, NEW n \in Nat, m <= n, NEW p \in Nat \ {0}
  PROVE  m \div p <= n \div p
  <1> DEFINE x == m \div p
             y == n \div p
  <1>1. x \in Nat /\ y \in Nat /\ x * p <= m /\ n < y * p + p
    BY DivLaw
  <1> HIDE DEF x, y
  <1>2. SUFFICES ASSUME y + 1 <= x PROVE FALSE
    BY <1>1 DEF x, y
  <1>3. p * (y + 1) <= p * x
    BY <1>1, <1>2, ProductGrows
  <1>4. p * (y + 1) = y * p + p /\ p * x = x * p
    BY <1>1
  <1>5. x * p \in Nat /\ y * p \in Nat
    BY <1>1
  <1> QED
    BY <1>1, <1>3, <1>4, <1>5

\* A share is no more than the whole.
LEMMA DivWithin ==
  ASSUME NEW k \in Nat, NEW r \in Nat, NEW p \in Nat \ {0}, r <= p
  PROVE  (k * r) \div p \in 0 .. k
  <1> DEFINE x == (k * r) \div p
  <1>1. k * r \in Nat /\ k * r <= k * p
    BY ProductGrows
  <1>2. x \in Nat /\ x * p <= k * r
    BY <1>1, DivLaw
  <1> HIDE DEF x
  <1>3. SUFFICES ASSUME k + 1 <= x PROVE FALSE
    BY <1>2 DEF x
  <1>4. p * (k + 1) <= p * x
    BY <1>2, <1>3, ProductGrows
  <1>5. p * (k + 1) = k * p + p /\ p * x = x * p /\ k * p \in Nat /\ x * p \in Nat
    BY <1>2
  <1> QED
    BY <1>1, <1>2, <1>4, <1>5

\* A bounded set of numbers has a largest one.
LEMMA MaxLaw ==
  ASSUME NEW n \in Nat, NEW S \in SUBSET (0 .. n), S # {}
  PROVE  Max(S) \in S /\ \A x \in S : x <= Max(S)
  <1> DEFINE U == {u \in Nat : \A x \in S : x <= u}
             R == OpToRel(<, Nat)
  <1>1. n \in U
    OBVIOUS
  <1>2. IsWellFoundedOn(R, Nat) /\ U \subseteq Nat /\ U # {}
    BY <1>1, NatLessThanWellFounded
  <1>3. PICK u \in U : \A y \in U : ~ <<y, u>> \in R
    BY <1>2, WFMin
  <1>9. u \in Nat /\ \A x \in S : x <= u
    OBVIOUS
  <1>4. ASSUME NEW y \in U PROVE u <= y
    <2>1. <<y, u>> \notin R
      BY <1>3
    <2>2. ~ (y < u)
      BY <2>1, <1>3 DEF OpToRel
    <2>3. y \in Nat
      OBVIOUS
    <2> QED
      BY <2>2, <2>3, <1>9
  <1>5. u \in S
    <2>1. SUFFICES ASSUME u \notin S PROVE FALSE
      OBVIOUS
    <2>2. PICK x \in S : TRUE
      OBVIOUS
    <2>3. ASSUME NEW y \in S PROVE y \in Nat /\ y <= u - 1
      <3>1. y \in Nat /\ y <= u /\ y # u
        BY <1>9, <2>1
      <3> QED
        BY <1>9, <3>1
    <2>4. u - 1 \in Nat
      BY <1>9, <2>2, <2>3
    <2>5. u - 1 \in U
      BY <2>3, <2>4
    <2> QED
      BY <1>9, <1>4, <2>5
  <1>6. \A y \in S : u >= y /\ y \in Nat
    OBVIOUS
  <1>7. \E x \in S : \A y \in S : x >= y
    BY <1>5, <1>6
  <1>8. Max(S) \in S /\ \A y \in S : Max(S) >= y
    BY <1>7 DEF Max
  <1> QED
    BY <1>8

-----------------------------------------------------------------------------
(* The rows of payments.                                                   *)

SettingsOK(s) ==
    s = None \/ (s.mode \in Modes /\ \A p \in s.packages : p.product \in Products /\ p.credits \in 1 .. MaxCredits)

CheckoutRow == [step : {"idle"}] \cup [step : {"post", "rejected"}, mode : Modes, product : Products]

OrderRow ==
    [state : {"none"}]
    \cup [state : {"open", "captured"}, mode : Modes, product : Products, amount : Prices,
          refunds : SUBSET Refunds, disputed : BOOLEAN]

TxnRow == [paid : Nat, refunded : Nat \cup {None}]

HookRow ==
    [step : {"idle"}]
    \cup [step : {"signed", "bind", "complete"}, ev : AllEvents]
    \cup [step : {"record"}, ev : AllEvents, txn : TxnRow]

FactRow == [code : Codes, kind : {"refund", "dispute"}, object : Refunds \cup {None},
            paid : Nat, refunded : Nat \cup {None}]

SettingsTypeOK ==
    /\ SettingsOK(settings)
    /\ DOMAIN cache = {"val", "fresh"} /\ cache.fresh \in BOOLEAN /\ SettingsOK(cache.val)
    /\ saving \in Nat
    /\ count \in [saves : Nat, faults : Nat]

PayRowsOK ==
    /\ pay \in [Codes -> PayRow \cup {None}]
    /\ checkout \in [Codes -> CheckoutRow]
    /\ order \in [Codes -> OrderRow]
    /\ price \in [Products -> Prices]

HookRowsOK == hook \in [Workers -> HookRow] /\ fact \subseteq FactRow

\* The settings a caller is served are settings.
LEMMA ServedSettings ==
  ASSUME SettingsTypeOK, NEW st, st \in Served, CreemSettings(st)
  PROVE  /\ SettingsOK(st)
         /\ DOMAIN cache' = {"val", "fresh"} /\ cache'.fresh \in BOOLEAN /\ SettingsOK(cache.val)'
         /\ count' \in [saves : Nat, faults : Nat]
  <1> USE DEF SettingsTypeOK
  <1>1. SettingsOK(LoadCreemSettings)
    BY DEF LoadCreemSettings, SettingsOK
  <1>2. CASE cache.fresh /\ st = cache.val /\ UNCHANGED <<cache, count>>
    BY <1>2 DEF SettingsOK
  <1>3. CASE /\ ~cache.fresh /\ st = LoadCreemSettings /\ cache' = [val |-> st, fresh |-> TRUE]
             /\ UNCHANGED count
    <2>1. SettingsOK(st)
      BY <1>1, <1>3
    <2> QED
      BY <1>3, <2>1 DEF SettingsOK
  <1>4. CASE ~cache.fresh /\ st = cache.val /\ Fault /\ UNCHANGED cache
    <2>1. count' \in [saves : Nat, faults : Nat]
      BY <1>4 DEF Fault
    <2> QED
      BY <1>4, <2>1 DEF SettingsOK
  <1> QED
    BY <1>2, <1>3, <1>4 DEF CreemSettings

\* Which of the records a webhook is in follows from its step.
LEMMA HookCases ==
  ASSUME NEW h \in HookRow
  PROVE  /\ h.step \in {"idle", "signed", "bind", "complete", "record"}
         /\ h.step # "idle" => h.ev \in AllEvents
         /\ h.step \in {"signed", "bind", "complete"} => h \in [step : {"signed", "bind", "complete"}, ev : AllEvents]
         /\ h.step = "record" => h.txn \in TxnRow
  BY DEF HookRow

\* A made order has what a checkout, a charge and refunds need.
LEMMA OrderCases ==
  ASSUME NEW o \in OrderRow
  PROVE  /\ o.state \in {"none", "open", "captured"}
         /\ o.state # "none" =>
              o \in [state : {"open", "captured"}, mode : Modes, product : Products, amount : Prices,
                     refunds : SUBSET Refunds, disputed : BOOLEAN]
  BY DEF OrderRow

\* A checkout in flight remembers its mode and product.
LEMMA CheckoutCases ==
  ASSUME NEW k \in CheckoutRow
  PROVE  /\ k.step \in {"idle", "post", "rejected"}
         /\ k.step # "idle" => k \in [step : {"post", "rejected"}, mode : Modes, product : Products]
  BY DEF CheckoutRow

\* An event the provider tells of is one of an order that was charged.
LEMMA EventCases ==
  ASSUME PayRowsOK, NEW ev \in Events
  PROVE  /\ ev \in AllEvents
         /\ order[ev.code].state = "captured"
         /\ ev.kind = "refund" => ev.object \in order[ev.code].refunds
         /\ ev.kind = "dispute" => order[ev.code].disputed
  <1> DEFINE A == {[kind |-> "completed", code |-> c, object |-> None] : c \in Charged}
             B == UNION {{[kind |-> "refund", code |-> c, object |-> r] : r \in order[c].refunds} :
                           c \in Charged}
             D == {[kind |-> "dispute", code |-> c, object |-> None] :
                     c \in {d \in Charged : order[d].disputed}}
  <1>1. ev \in A \cup B \cup D
    BY Zenon DEF Events
  <1>1a. ev \in A \/ ev \in B \/ ev \in D
    <2> HIDE DEF A, B, D
    <2> QED
      BY <1>1
  <1>2. CASE ev \in A
    BY <1>2 DEF AllEvents, Charged
  <1>3. CASE ev \in B
    <2>1. PICK c \in Charged : ev \in {[kind |-> "refund", code |-> c, object |-> r] : r \in order[c].refunds}
      BY <1>3
    <2>2. order[c].refunds \subseteq Refunds
      BY <2>1, OrderCases DEF PayRowsOK, Charged
    <2>3. PICK r \in order[c].refunds : ev = [kind |-> "refund", code |-> c, object |-> r]
      BY <2>1
    <2>4. ev \in AllEvents
      BY <2>2, <2>3 DEF AllEvents, Charged
    <2> QED
      BY <2>1, <2>3, <2>4 DEF Charged
  <1>4. CASE ev \in D
    BY <1>4 DEF AllEvents, Charged
  <1> QED
    BY <1>1a, <1>2, <1>3, <1>4

-----------------------------------------------------------------------------
(* What the rows of one payment code say of each other.                    *)

CodeInv(c) ==
    /\ checkout[c].step # "idle" =>
         pay[c] # None /\ pay[c].status = "pending" /\ order[c].state = "none"
    /\ order[c].state # "none" =>
         /\ pay[c] # None /\ pay[c].status # "failed"
         /\ IsFiniteSet(order[c].refunds) /\ RefundedAmount(c) <= AmountPaid(c)
    /\ pay[c] # None => pay[c].order \in {None, c}
    /\ pay[c] # None /\ pay[c].status = "paid" =>
         pay[c].order = c /\ order[c].state = "captured" /\ order[c].amount = pay[c].amount

CodesInv == \A c \in Codes : CodeInv(c)

\* What a webhook has read is still true when it writes.
HookInv(w) ==
    LET h == hook[w] c == h.ev.code
    IN  h.step # "idle" =>
        /\ order[c].state = "captured"
        /\ h.ev.kind = "refund" => h.ev.object \in order[c].refunds
        /\ h.ev.kind = "dispute" => order[c].disputed
        /\ h.step \in {"bind", "complete"} => pay[c] # None /\ order[c].amount = pay[c].amount
        /\ h.step = "complete" => pay[c].order = c
        /\ h.step = "record" =>
             /\ h.ev.kind \in {"refund", "dispute"}
             /\ h.txn.paid = AmountPaid(c) /\ h.txn.paid > 0
             /\ h.txn.refunded # None => h.txn.refunded \in 0 .. RefundedAmount(c)

HooksInv == \A w \in Workers : HookInv(w)

\* A recorded fact is one the provider has told of a paid payment.
FactInv(f) ==
    /\ pay[f.code] # None /\ pay[f.code].status = "paid"
    /\ f.refunded # None => f.refunded \in 0 .. RefundedAmount(f.code)
    /\ f.kind = "dispute" => order[f.code].disputed

FactsInv == \A f \in fact : FactInv(f)

\* A step leaves the rows of a code alone, or ends its checkout.
Untouched(d) ==
    /\ pay'[d] = pay[d] /\ order'[d] = order[d]
    /\ checkout'[d] = checkout[d] \/ checkout'[d].step = "idle"

\* What no step takes back: the snapshot a payment was made with, its order, that it is
\* paid; and of the charge the amount, the refunds and the dispute.
Advances(d) ==
    /\ pay[d] # None =>
         /\ pay'[d] # None
         /\ pay'[d].account = pay[d].account /\ pay'[d].credits = pay[d].credits
         /\ pay'[d].amount = pay[d].amount
         /\ pay[d].order # None => pay'[d].order = pay[d].order
         /\ pay[d].status = "paid" => pay'[d].status = "paid"
    /\ order[d].state = "captured" =>
         /\ order'[d].state = "captured" /\ order'[d].amount = order[d].amount
         /\ order[d].refunds \subseteq order'[d].refunds /\ RefundedAmount(d) <= RefundedAmount(d)'
         /\ order[d].disputed => order'[d].disputed

\* The money of a made order.
LEMMA OrderMoney ==
  ASSUME PayRowsOK, NEW c \in Codes, CodeInv(c), order[c].state # "none"
  PROVE  /\ order[c].amount \in Nat \ {0} /\ AmountPaid(c) \in Nat \ {0}
         /\ RefundedAmount(c) \in Nat
  <1>1. order[c].amount \in Prices
    BY OrderCases DEF PayRowsOK
  <1>2. order[c].amount \in Nat \ {0} /\ Tax \in Nat /\ RefundUnit \in Nat \ {0}
    BY <1>1, PaymentAssumption
  <1>3. Cardinality(order[c].refunds) \in Nat
    BY FS_CardinalityType DEF CodeInv
  <1>4. RefundUnit * Cardinality(order[c].refunds) \in Nat
    BY <1>2, <1>3
  <1> QED
    BY <1>2, <1>4 DEF AmountPaid, RefundedAmount

\* What was refunded is a number, also after a step.
LEMMA RefundsCounted ==
  ASSUME NEW c \in Codes, CodeInv(c)', order'[c].state = "captured"
  PROVE  RefundedAmount(c)' \in Nat
  <1>1. IsFiniteSet(order'[c].refunds)
    BY DEF CodeInv
  <1>2. Cardinality(order'[c].refunds) \in Nat
    BY <1>1, FS_CardinalityType
  <1> QED
    BY <1>2, PaymentAssumption DEF RefundedAmount

\* Rows that nothing touches stay in order.
LEMMA UntouchedKeeps ==
  ASSUME PayRowsOK, NEW d \in Codes, CodeInv(d), Untouched(d)
  PROVE  CodeInv(d)' /\ Advances(d)
  <1>1. RefundedAmount(d)' = RefundedAmount(d) /\ AmountPaid(d)' = AmountPaid(d)
    BY DEF Untouched, RefundedAmount, AmountPaid
  <1>2. order[d].state = "captured" => RefundedAmount(d) \in Nat
    BY OrderMoney
  <1>3. CodeInv(d)'
    BY <1>1 DEF CodeInv, Untouched
  <1>4. Advances(d)
    BY <1>1, <1>2 DEF Advances, Untouched
  <1> QED
    BY <1>3, <1>4

\* A pending row is recorded before the provider knows of it.
LEMMA StartKeeps ==
  ASSUME SettingsTypeOK, PayRowsOK, CodesInv, NEW c \in Codes, NEW a \in Accounts,
         StartCreemCheckout(c, a)
  PROVE  PayRowsOK' /\ CodeInv(c)' /\ Advances(c) /\ \A d \in Codes \ {c} : Untouched(d)
  <1>1. PICK st \in Served :
          /\ pay[c] = None
          /\ CreemSettings(st)
          /\ CheckoutRuntime(st) /\ ProductIsSold(st)
          /\ \E p \in st.packages :
              /\ pay' = [pay EXCEPT ![c] = NewPayment(a, p)]
              /\ checkout' = [checkout EXCEPT ![c] =
                                [step |-> "post", mode |-> st.mode, product |-> p.product]]
          /\ UNCHANGED <<settings, saving, encKey, provVars, hook, fact, balance, ledger>>
    BY DEF StartCreemCheckout
  <1>2. PICK p \in st.packages :
          /\ pay' = [pay EXCEPT ![c] = NewPayment(a, p)]
          /\ checkout' = [checkout EXCEPT ![c] =
                            [step |-> "post", mode |-> st.mode, product |-> p.product]]
    BY <1>1
  <1>3. order' = order /\ price' = price
    BY <1>1 DEF provVars
  <1>4. SettingsOK(st) /\ st # None
    BY <1>1, ServedSettings DEF CheckoutRuntime, Runtime
  <1>5. st.mode \in Modes /\ p.product \in Products /\ p.credits \in 1 .. MaxCredits
    BY <1>4 DEF SettingsOK
  <1>6. NewPayment(a, p) \in PayRow /\ NewPayment(a, p) # None
    <2>1. price[p.product] \in Prices
      BY <1>5 DEF PayRowsOK
    <2>2. NewPayment(a, p) \in PayRow
      BY <1>5, <2>1 DEF NewPayment, PayRow
    <2> QED
      BY <2>2, NoPaymentAssumption
  <1>7. NewPayment(a, p).status = "pending" /\ NewPayment(a, p).order = None
    BY DEF NewPayment
  <1>8. /\ pay'[c] = NewPayment(a, p)
        /\ \A d \in Codes \ {c} : pay'[d] = pay[d] /\ checkout'[d] = checkout[d]
    BY <1>2 DEF PayRowsOK
  <1>9. order[c].state = "none" /\ pay[c] = None
    BY <1>1 DEF CodesInv, CodeInv
  <1>10. [step |-> "post", mode |-> st.mode, product |-> p.product] \in CheckoutRow
    BY <1>5 DEF CheckoutRow
  <1>11. PayRowsOK'
    <2>1. pay' \in [Codes -> PayRow \cup {None}]
      BY <1>2, <1>6 DEF PayRowsOK
    <2>2. checkout' \in [Codes -> CheckoutRow]
      BY <1>2, <1>10 DEF PayRowsOK
    <2> QED
      BY <1>3, <2>1, <2>2 DEF PayRowsOK
  <1>12. CodeInv(c)'
    BY <1>3, <1>6, <1>7, <1>8, <1>9 DEF CodeInv
  <1> QED
    BY <1>3, <1>8, <1>9, <1>11, <1>12 DEF Untouched, Advances

\* The provider's order is the checkout's, and only of a payment that awaits it.
LEMMA CreateKeeps ==
  ASSUME PayRowsOK, CodesInv, NEW c \in Codes, CreateCheckout(c)
  PROVE  PayRowsOK' /\ CodeInv(c)' /\ Advances(c) /\ \A d \in Codes \ {c} : Untouched(d)
  <1> DEFINE o == [state |-> "open", mode |-> checkout[c].mode, product |-> checkout[c].product,
                   amount |-> price[checkout[c].product], refunds |-> {}, disputed |-> FALSE]
  <1>1. /\ checkout[c].step = "post"
        /\ checkout' = [checkout EXCEPT ![c] = [step |-> "idle"]]
        /\ order' = [order EXCEPT ![c] = o]
        /\ pay' = pay /\ price' = price
    BY DEF CreateCheckout
  <1>2. checkout[c] \in [step : {"post", "rejected"}, mode : Modes, product : Products]
    BY <1>1, CheckoutCases DEF PayRowsOK
  <1>3. o \in OrderRow
    <2>1. price[checkout[c].product] \in Prices
      BY <1>2 DEF PayRowsOK
    <2> QED
      BY <1>2, <2>1 DEF OrderRow
  <1>4. PayRowsOK'
    <2>1. order' \in [Codes -> OrderRow]
      BY <1>1, <1>3 DEF PayRowsOK
    <2>2. [step |-> "idle"] \in CheckoutRow
      BY DEF CheckoutRow
    <2>3. checkout' \in [Codes -> CheckoutRow]
      BY <1>1, <2>2 DEF PayRowsOK
    <2> QED
      BY <1>1, <2>1, <2>3 DEF PayRowsOK
  <1>5. pay[c] # None /\ pay[c].status = "pending" /\ order[c].state = "none"
    BY <1>1 DEF CodesInv, CodeInv
  <1>6. order'[c] = o /\ checkout'[c].step = "idle" /\ pay'[c] = pay[c]
    BY <1>1 DEF PayRowsOK
  <1>7. order'[c].refunds = {} /\ order'[c].amount \in Nat
    <2>1. price[checkout[c].product] \in Prices
      BY <1>2 DEF PayRowsOK
    <2>2. price[checkout[c].product] \in Nat
      BY <2>1, PaymentAssumption
    <2> QED
      BY <1>6, <2>2
  <1>8. IsFiniteSet(order'[c].refunds) /\ RefundedAmount(c)' <= AmountPaid(c)'
    <2>1. IsFiniteSet({}) /\ Cardinality({}) = 0
      BY FS_EmptySet
    <2> QED
      BY <1>7, <2>1, PaymentAssumption DEF RefundedAmount, AmountPaid
  <1>9. CodeInv(c)'
    BY <1>5, <1>6, <1>8 DEF CodeInv, CodesInv
  <1>10. Advances(c)
    BY <1>5, <1>6 DEF Advances
  <1> QED
    BY <1>1, <1>4, <1>9, <1>10 DEF Untouched, PayRowsOK

\* The other ends of a checkout.
LEMMA CheckoutEndKeeps ==
  ASSUME PayRowsOK, CodesInv, NEW c \in Codes,
         CheckoutUnreachable(c) \/ CheckoutRejected(c) \/ FailPayment(c)
  PROVE  PayRowsOK' /\ CodeInv(c)' /\ Advances(c) /\ \A d \in Codes \ {c} : Untouched(d)
  <1>1. order' = order /\ price' = price
    BY DEF CheckoutUnreachable, CheckoutRejected, FailPayment, provVars
  <1>2. checkout[c].step # "idle"
    BY DEF CheckoutUnreachable, CheckoutRejected, FailPayment
  <1>3. pay[c] \in PayRow /\ pay[c] # None /\ pay[c].status = "pending" /\ order[c].state = "none"
    BY <1>2 DEF CodesInv, CodeInv, PayRowsOK
  <1>4. checkout[c] \in [step : {"post", "rejected"}, mode : Modes, product : Products]
    BY <1>2, CheckoutCases DEF PayRowsOK
  <1>5. CASE CheckoutUnreachable(c) \/ CheckoutRejected(c)
    <2>1. pay' = pay
      BY <1>5 DEF CheckoutUnreachable, CheckoutRejected
    <2>2. checkout' \in [Codes -> CheckoutRow]
      BY <1>4, <1>5 DEF CheckoutUnreachable, CheckoutRejected, CheckoutRow, PayRowsOK
    <2>3. \A d \in Codes \ {c} : checkout'[d] = checkout[d]
      BY <1>5 DEF CheckoutUnreachable, CheckoutRejected, PayRowsOK
    <2>4. CodeInv(c)'
      BY <1>1, <1>3, <2>1 DEF CodeInv, CodesInv
    <2> QED
      BY <1>1, <1>3, <2>1, <2>2, <2>3, <2>4 DEF Untouched, Advances, PayRowsOK
  <1>6. CASE FailPayment(c)
    <2>1. /\ checkout' = [checkout EXCEPT ![c] = [step |-> "idle"]]
          /\ pay' = [pay EXCEPT ![c].status = "failed"]
      BY <1>3, <1>6 DEF FailPayment, SetPaymentStatus
    <2>2. [pay[c] EXCEPT !.status = "failed"] \in PayRow
      BY <1>3 DEF PayRow
    <2>3. pay' \in [Codes -> PayRow \cup {None}] /\ pay'[c] = [pay[c] EXCEPT !.status = "failed"]
      BY <2>1, <2>2 DEF PayRowsOK
    <2>4. pay'[c] # None
      BY <2>2, <2>3, NoPaymentAssumption
    <2>5. checkout' \in [Codes -> CheckoutRow] /\ checkout'[c].step = "idle"
      BY <2>1 DEF PayRowsOK, CheckoutRow
    <2>6. \A d \in Codes \ {c} : checkout'[d] = checkout[d] /\ pay'[d] = pay[d]
      BY <2>1 DEF PayRowsOK
    <2>7. /\ pay'[c].status = "failed" /\ pay'[c].account = pay[c].account /\ pay'[c].credits = pay[c].credits
          /\ pay'[c].amount = pay[c].amount /\ pay'[c].order = pay[c].order
      BY <1>3, <2>3 DEF PayRow
    <2>8. CodeInv(c)'
      BY <1>1, <1>3, <2>4, <2>5, <2>7 DEF CodeInv, CodesInv
    <2>9. Advances(c)
      BY <1>3, <2>4, <2>7 DEF Advances
    <2> QED
      BY <1>1, <2>3, <2>5, <2>6, <2>8, <2>9 DEF Untouched, PayRowsOK
  <1> QED
    BY <1>5, <1>6

\* The provider's own steps on an order.
LEMMA ProviderKeeps ==
  ASSUME PayRowsOK, CodesInv, NEW c \in Codes,
         Capture(c) \/ Dispute(c) \/ \E r \in Refunds : Refund(c, r)
  PROVE  PayRowsOK' /\ CodeInv(c)' /\ Advances(c) /\ \A d \in Codes \ {c} : Untouched(d)
  <1>1. pay' = pay /\ price' = price /\ checkout' = checkout
    BY DEF Capture, Dispute, Refund
  <1>2. order[c].state # "none"
    BY DEF Capture, Dispute, Refund
  <1>3. order[c] \in [state : {"open", "captured"}, mode : Modes, product : Products, amount : Prices,
                      refunds : SUBSET Refunds, disputed : BOOLEAN]
    BY <1>2, OrderCases DEF PayRowsOK
  <1>4. CodeInv(c) /\ RefundedAmount(c) \in Nat /\ AmountPaid(c) \in Nat
    BY <1>2, OrderMoney DEF CodesInv
  <1>5. checkout[c].step = "idle" /\ pay[c] # None
    BY <1>2, <1>4 DEF CodeInv
  <1>6. CASE Capture(c)
    <2>1. order' = [order EXCEPT ![c].state = "captured"] /\ order[c].state = "open"
      BY <1>6 DEF Capture
    <2>2. [order[c] EXCEPT !.state = "captured"] \in OrderRow
      BY <1>3 DEF OrderRow
    <2>3. PayRowsOK' /\ order'[c] = [order[c] EXCEPT !.state = "captured"]
      BY <1>1, <2>1, <2>2 DEF PayRowsOK
    <2>4. /\ order'[c].state = "captured" /\ order'[c].refunds = order[c].refunds
          /\ order'[c].amount = order[c].amount
      BY <1>3, <2>3
    <2>5. RefundedAmount(c)' = RefundedAmount(c) /\ AmountPaid(c)' = AmountPaid(c)
      BY <2>4 DEF RefundedAmount, AmountPaid
    <2>6. CodeInv(c)'
      BY <1>1, <1>4, <1>2, <2>4, <2>5 DEF CodeInv
    <2>7. Advances(c)
      BY <1>1, <2>1 DEF Advances
    <2> QED
      BY <1>1, <2>1, <2>3, <2>6, <2>7 DEF Untouched, PayRowsOK
  <1>7. CASE Dispute(c)
    <2>1. order' = [order EXCEPT ![c].disputed = TRUE] /\ order[c].state = "captured"
      BY <1>7 DEF Dispute
    <2>2. [order[c] EXCEPT !.disputed = TRUE] \in OrderRow
      BY <1>3 DEF OrderRow
    <2>3. PayRowsOK' /\ order'[c] = [order[c] EXCEPT !.disputed = TRUE]
      BY <1>1, <2>1, <2>2 DEF PayRowsOK
    <2>4. /\ order'[c].state = "captured" /\ order'[c].refunds = order[c].refunds
          /\ order'[c].amount = order[c].amount /\ order'[c].disputed
      BY <1>3, <2>1, <2>3
    <2>5. RefundedAmount(c)' = RefundedAmount(c) /\ AmountPaid(c)' = AmountPaid(c)
      BY <2>4 DEF RefundedAmount, AmountPaid
    <2>6. CodeInv(c)'
      BY <1>1, <1>4, <1>2, <2>1, <2>4, <2>5 DEF CodeInv
    <2>7. Advances(c)
      BY <1>1, <1>4, <2>4, <2>5 DEF Advances
    <2> QED
      BY <1>1, <2>1, <2>3, <2>6, <2>7 DEF Untouched, PayRowsOK
  <1>8. ASSUME NEW r \in Refunds, Refund(c, r)
        PROVE  PayRowsOK' /\ CodeInv(c)' /\ Advances(c) /\ \A d \in Codes \ {c} : Untouched(d)
    <2>1. /\ order' = [order EXCEPT ![c].refunds = @ \cup {r}] /\ order[c].state = "captured"
          /\ r \notin order[c].refunds
          /\ RefundedAmount(c) + RefundUnit <= AmountPaid(c)
      BY <1>8 DEF Refund
    <2>2. [order[c] EXCEPT !.refunds = @ \cup {r}] \in OrderRow
      BY <1>3 DEF OrderRow
    <2>3. PayRowsOK' /\ order'[c] = [order[c] EXCEPT !.refunds = @ \cup {r}]
      BY <1>1, <2>1, <2>2 DEF PayRowsOK
    <2>4. /\ order'[c].state = "captured" /\ order'[c].refunds = order[c].refunds \cup {r}
          /\ order'[c].amount = order[c].amount /\ order'[c].disputed = order[c].disputed
      BY <1>3, <2>1, <2>3
    <2>5. AmountPaid(c)' = AmountPaid(c)
      BY <2>4 DEF AmountPaid
    <2>6. /\ IsFiniteSet(order[c].refunds \cup {r})
          /\ Cardinality(order[c].refunds \cup {r}) = Cardinality(order[c].refunds) + 1
          /\ Cardinality(order[c].refunds) \in Nat
      BY <1>2, <1>4, <2>1, FS_AddElement, FS_CardinalityType DEF CodeInv
    <2>7. RefundedAmount(c)' = RefundedAmount(c) + RefundUnit
      <3>1. RefundUnit \in Nat
        BY PaymentAssumption
      <3>2. ASSUME NEW n \in Nat PROVE RefundUnit * (n + 1) = RefundUnit * n + RefundUnit
        BY <3>1
      <3>3. RefundedAmount(c)' = RefundUnit * (Cardinality(order[c].refunds) + 1)
        BY <2>4, <2>6 DEF RefundedAmount
      <3> QED
        BY <2>6, <3>2, <3>3 DEF RefundedAmount
    <2>8. CodeInv(c)'
      BY <1>1, <1>4, <1>2, <2>1, <2>4, <2>5, <2>6, <2>7 DEF CodeInv
    <2>9. RefundedAmount(c) <= RefundedAmount(c)'
      BY <1>4, <2>7, PaymentAssumption
    <2>10. Advances(c)
      BY <1>1, <1>4, <2>4, <2>9 DEF Advances
    <2> QED
      BY <1>1, <2>1, <2>3, <2>8, <2>10 DEF Untouched, PayRowsOK
  <1> QED
    BY <1>6, <1>7, <1>8

\* Binding names the order of a payment, once.
LEMMA BindKeeps ==
  ASSUME PayRowsOK, HookRowsOK, CodesInv, HooksInv, NEW w \in Workers, BindProviderOrder(w),
         NEW c, c = hook[w].ev.code
  PROVE  /\ c \in Codes
         /\ PayRowsOK' /\ CodeInv(c)' /\ Advances(c) /\ \A d \in Codes \ {c} : Untouched(d)
         /\ hook'[w].step = "complete" => pay'[c].order = c
  <1>1. /\ hook[w].step = "bind"
        /\ order' = order /\ price' = price /\ checkout' = checkout
        /\ \/ /\ Bindable(c)
              /\ pay' = [pay EXCEPT ![c].order = c]
              /\ hook' = [hook EXCEPT ![w].step = "complete"]
           \/ Dropped(w) /\ pay' = pay
    BY DEF BindProviderOrder, provVars
  <1>2. hook[w].ev \in AllEvents /\ c \in Codes
    BY <1>1, HookCases DEF HookRowsOK, AllEvents
  <1>3. pay[c] # None /\ order[c].amount = pay[c].amount /\ pay[c] \in PayRow
    BY <1>1, <1>2 DEF HooksInv, HookInv, PayRowsOK
  <1>4. CodeInv(c) /\ AmountPaid(c)' = AmountPaid(c) /\ RefundedAmount(c)' = RefundedAmount(c)
    BY <1>1, <1>2 DEF CodesInv, AmountPaid, RefundedAmount
  <1>5. order[c].state = "captured" /\ RefundedAmount(c) \in Nat
    BY <1>1, <1>2, <1>4, OrderMoney DEF HooksInv, HookInv
  <1>6. CASE pay' = [pay EXCEPT ![c].order = c]
    <2>1. [pay[c] EXCEPT !.order = c] \in PayRow
      BY <1>2, <1>3 DEF PayRow
    <2>2. PayRowsOK' /\ pay'[c] = [pay[c] EXCEPT !.order = c]
      BY <1>1, <1>2, <1>6, <2>1 DEF PayRowsOK
    <2>3. pay'[c] # None
      BY <2>1, <2>2, NoPaymentAssumption
    <2>4. /\ pay'[c].status = pay[c].status /\ pay'[c].account = pay[c].account
          /\ pay'[c].credits = pay[c].credits
          /\ pay'[c].amount = pay[c].amount /\ pay'[c].order = c
      BY <1>3, <2>2 DEF PayRow
    <2>5. pay[c].order \in {None, c}
      BY <1>3, <1>4 DEF CodeInv
    <2>6. CodeInv(c)'
      BY <1>1, <1>3, <1>4, <2>3, <2>4 DEF CodeInv
    <2>7. Advances(c)
      BY <1>1, <1>4, <1>5, <2>3, <2>4, <2>5 DEF Advances
    <2> QED
      BY <1>1, <1>2, <1>6, <2>2, <2>4, <2>6, <2>7 DEF Untouched, PayRowsOK
  <1>7. CASE Dropped(w) /\ pay' = pay
    <2>1. CodeInv(c)'
      BY <1>1, <1>4, <1>7 DEF CodeInv
    <2>2. Advances(c)
      BY <1>1, <1>4, <1>5, <1>7 DEF Advances
    <2>3. hook'[w].step = "idle"
      BY <1>7 DEF Dropped, HookRowsOK
    <2> QED
      BY <1>1, <1>2, <1>7, <2>1, <2>2, <2>3 DEF Untouched, PayRowsOK
  <1> QED
    BY <1>1, <1>6, <1>7

\* A payment is marked paid when the provider has charged what it recorded.
LEMMA CompleteKeeps ==
  ASSUME PayRowsOK, HookRowsOK, CodesInv, HooksInv, NEW w \in Workers, CompletePayment(w),
         NEW c, c = hook[w].ev.code
  PROVE  /\ c \in Codes
         /\ PayRowsOK' /\ CodeInv(c)' /\ Advances(c) /\ \A d \in Codes \ {c} : Untouched(d)
         /\ pay[c] \in PayRow /\ pay'[c] # None
         /\ pay' = pay \/ (pay'[c].status = "paid" /\ \A d \in Codes \ {c} : pay'[d] = pay[d])
  <1>1. /\ hook[w].step = "complete"
        /\ order' = order /\ price' = price /\ checkout' = checkout
        /\ pay' = pay \/ pay' = [pay EXCEPT ![c].status = "paid"]
    BY DEF CompletePayment, MarkPaymentPaid
  <1>2. hook[w].ev \in AllEvents /\ c \in Codes
    BY <1>1, HookCases DEF HookRowsOK, AllEvents
  <1>3. /\ pay[c] # None /\ order[c].amount = pay[c].amount /\ pay[c] \in PayRow
        /\ order[c].state = "captured" /\ pay[c].order = c
    BY <1>1, <1>2 DEF HooksInv, HookInv, PayRowsOK
  <1>4. CodeInv(c) /\ AmountPaid(c)' = AmountPaid(c) /\ RefundedAmount(c)' = RefundedAmount(c)
    BY <1>1, <1>2 DEF CodesInv, AmountPaid, RefundedAmount
  <1>5. RefundedAmount(c) \in Nat
    BY <1>2, <1>3, <1>4, OrderMoney
  <1>6. CASE pay' = [pay EXCEPT ![c].status = "paid"]
    <2>1. [pay[c] EXCEPT !.status = "paid"] \in PayRow
      BY <1>2, <1>3 DEF PayRow
    <2>2. PayRowsOK' /\ pay'[c] = [pay[c] EXCEPT !.status = "paid"]
      BY <1>1, <1>2, <1>6, <2>1 DEF PayRowsOK
    <2>3. pay'[c] # None
      BY <2>1, <2>2, NoPaymentAssumption
    <2>4. /\ pay'[c].status = "paid" /\ pay'[c].account = pay[c].account
          /\ pay'[c].credits = pay[c].credits
          /\ pay'[c].amount = pay[c].amount /\ pay'[c].order = c
      BY <1>3, <2>2 DEF PayRow
    <2>5. checkout[c].step = "idle"
      BY <1>3, <1>4 DEF CodeInv
    <2>6. CodeInv(c)'
      BY <1>1, <1>3, <1>4, <2>3, <2>4, <2>5 DEF CodeInv
    <2>7. Advances(c)
      BY <1>1, <1>3, <1>4, <1>5, <2>3, <2>4 DEF Advances
    <2>8. \A d \in Codes \ {c} : pay'[d] = pay[d]
      BY <1>6 DEF PayRowsOK
    <2> QED
      BY <1>1, <1>2, <1>3, <2>2, <2>3, <2>4, <2>6, <2>7, <2>8 DEF Untouched
  <1>7. CASE pay' = pay
    <2>1. CodeInv(c)'
      BY <1>1, <1>4, <1>7 DEF CodeInv
    <2>2. Advances(c)
      BY <1>1, <1>4, <1>5, <1>7 DEF Advances
    <2> QED
      BY <1>1, <1>2, <1>3, <1>7, <2>1, <2>2 DEF Untouched, PayRowsOK
  <1> QED
    BY <1>1, <1>6, <1>7

\* The settings, the snapshot and the bounds keep their types.
LEMMA SettingsStep ==
  ASSUME SettingsTypeOK, [PayNext]_payVars
  PROVE  SettingsTypeOK'
  <1>1. CASE UNCHANGED payVars
    BY <1>1 DEF SettingsTypeOK, SettingsOK, payVars, setVars
  <1>2. ASSUME NEW in \in Inputs, SaveCreemSettings(in)
        PROVE  SettingsTypeOK'
    <2>1. SettingsOK(settings)'
      <3>1. in.mode \in Modes /\ \A p \in in.packages : p.credits \in 1 .. MaxCredits
        BY <1>2 DEF SaveCreemSettings, ValidateCreemSettings
      <3>2. settings'.mode = in.mode /\ settings'.packages = in.packages
        BY <1>2 DEF SaveCreemSettings
      <3>3. \A p \in in.packages : p.product \in Products
        BY PaymentAssumption
      <3> QED
        BY <3>1, <3>2, <3>3 DEF SettingsOK
    <2>2. count' \in [saves : Nat, faults : Nat] /\ saving' \in Nat /\ cache' = cache
      BY <1>2 DEF SaveCreemSettings, SettingsTypeOK
    <2> QED
      BY <2>1, <2>2 DEF SettingsTypeOK, SettingsOK
  <1>3. CASE InvalidateCreemSettings
    BY <1>3 DEF InvalidateCreemSettings, SettingsTypeOK, SettingsOK
  <1>4. CASE CacheExpires
    BY <1>4 DEF CacheExpires, SettingsTypeOK, SettingsOK
  <1>5. CASE ReadCreemSettings
    <2>1. PICK st \in Served : CreemSettings(st)
      BY <1>5 DEF ReadCreemSettings
    <2> QED
      BY <1>5, <2>1, ServedSettings DEF ReadCreemSettings, SettingsTypeOK, SettingsOK
  <1>6. ASSUME NEW k \in EncKeys, Restart(k)
        PROVE  SettingsTypeOK'
    <2>1. count' \in [saves : Nat, faults : Nat]
      BY <1>6 DEF Restart, Fault, SettingsTypeOK
    <2> QED
      BY <1>6, <2>1 DEF Restart, SettingsTypeOK, SettingsOK
  <1>7. ASSUME NEW c \in Codes, NEW a \in Accounts, StartCreemCheckout(c, a)
        PROVE  SettingsTypeOK'
    <2>1. PICK st \in Served : CreemSettings(st) /\ UNCHANGED <<settings, saving>>
      BY <1>7 DEF StartCreemCheckout
    <2> QED
      BY <2>1, ServedSettings DEF SettingsTypeOK, SettingsOK
  <1>8. ASSUME NEW c \in Codes,
               \/ CreateCheckout(c) \/ CheckoutUnreachable(c) \/ CheckoutRejected(c) \/ FailPayment(c)
               \/ Capture(c) \/ Dispute(c) \/ \E r \in Refunds : Refund(c, r)
        PROVE  SettingsTypeOK'
    <2>1. UNCHANGED <<settings, cache, saving, count>>
      BY <1>8 DEF CreateCheckout, CheckoutUnreachable, CheckoutRejected, FailPayment, Capture, Dispute,
                  Refund, setVars
    <2> QED
      BY <2>1 DEF SettingsTypeOK, SettingsOK
  <1>9. ASSUME NEW p \in Products, ChangePrice(p)
        PROVE  SettingsTypeOK'
    <2>1. count' \in [saves : Nat, faults : Nat] /\ UNCHANGED <<settings, cache, saving>>
      BY <1>9 DEF ChangePrice, Fault, SettingsTypeOK, setVars
    <2> QED
      BY <2>1 DEF SettingsTypeOK, SettingsOK
  <1>10. ASSUME NEW w \in Workers,
                \/ \E ev \in Events : ReceiveWebhook(w, ev)
                \/ ReconcileCreemCompletion(w) \/ AuthoritativePaymentTransaction(w)
         PROVE  SettingsTypeOK'
    <2>1. PICK st \in Served : CreemSettings(st) /\ UNCHANGED <<settings, saving>>
      BY <1>10 DEF ReceiveWebhook, ReconcileCreemCompletion, AuthoritativePaymentTransaction
    <2> QED
      BY <2>1, ServedSettings DEF SettingsTypeOK, SettingsOK
  <1>11. ASSUME NEW w \in Workers,
                BindProviderOrder(w) \/ CompletePayment(w) \/ RecordPaymentAdjustment(w) \/ RefuseAdjustment(w)
         PROVE  SettingsTypeOK'
    <2>1. UNCHANGED <<settings, cache, saving, count>>
      BY <1>11 DEF BindProviderOrder, CompletePayment, RecordPaymentAdjustment, RefuseAdjustment, setVars
    <2> QED
      BY <2>1 DEF SettingsTypeOK, SettingsOK
  <1>12. ASSUME NEW w \in Workers, WebhookFails(w)
         PROVE  SettingsTypeOK'
    <2>1. count' \in [saves : Nat, faults : Nat] /\ UNCHANGED <<settings, cache, saving>>
      BY <1>12 DEF WebhookFails, Fault, SettingsTypeOK, setVars
    <2> QED
      BY <2>1 DEF SettingsTypeOK, SettingsOK
  <1> QED
    BY <1>1, <1>2, <1>3, <1>4, <1>5, <1>6, <1>7, <1>8, <1>9, <1>10, <1>11, <1>12 DEF PayNext, WebhookStep

\* Every step keeps the rows of every code in order and moves them forwards only.
LEMMA CodesStep ==
  ASSUME SettingsTypeOK, PayRowsOK, HookRowsOK, CodesInv, HooksInv, [PayNext]_payVars
  PROVE  PayRowsOK' /\ CodesInv' /\ \A d \in Codes : Advances(d)
  <1>1. ASSUME NEW c \in Codes,
               PayRowsOK' /\ CodeInv(c)' /\ Advances(c) /\ \A d \in Codes \ {c} : Untouched(d)
        PROVE  PayRowsOK' /\ CodesInv' /\ \A d \in Codes : Advances(d)
    <2>1. ASSUME NEW d \in Codes PROVE CodeInv(d)' /\ Advances(d)
      BY <1>1, UntouchedKeeps DEF CodesInv
    <2> QED
      BY <1>1, <2>1 DEF CodesInv
  <1>2. ASSUME PayRowsOK', pay' = pay, order' = order,
               checkout' = checkout \/ \A d \in Codes : checkout'[d].step = "idle"
        PROVE  PayRowsOK' /\ CodesInv' /\ \A d \in Codes : Advances(d)
    <2>1. ASSUME NEW d \in Codes PROVE CodeInv(d)' /\ Advances(d)
      <3>1. Untouched(d)
        BY <1>2 DEF Untouched
      <3> QED
        BY <3>1, UntouchedKeeps DEF CodesInv
    <2> QED
      BY <1>2, <2>1 DEF CodesInv
  <1>3. CASE UNCHANGED <<pay, order, checkout, price>>
    BY <1>2, <1>3 DEF PayRowsOK
  <1>4. ASSUME NEW k \in EncKeys, Restart(k)
        PROVE  PayRowsOK' /\ CodesInv' /\ \A d \in Codes : Advances(d)
    <2>1. /\ checkout' = [c \in Codes |-> [step |-> "idle"]]
          /\ UNCHANGED <<pay, order, price>>
      BY <1>4 DEF Restart, provVars
    <2>2. PayRowsOK' /\ \A d \in Codes : checkout'[d].step = "idle"
      BY <2>1 DEF PayRowsOK, CheckoutRow
    <2> QED
      BY <1>2, <2>1, <2>2
  <1>5. ASSUME NEW p \in Products, ChangePrice(p)
        PROVE  PayRowsOK' /\ CodesInv' /\ \A d \in Codes : Advances(d)
    <2>1. UNCHANGED <<pay, order, checkout>> /\ \E v \in Prices : price' = [price EXCEPT ![p] = v]
      BY <1>5 DEF ChangePrice
    <2>2. PayRowsOK'
      BY <2>1 DEF PayRowsOK
    <2> QED
      BY <1>2, <2>1, <2>2
  <1>6. ASSUME NEW c \in Codes, NEW a \in Accounts, StartCreemCheckout(c, a)
        PROVE  PayRowsOK' /\ CodesInv' /\ \A d \in Codes : Advances(d)
    BY <1>1, <1>6, StartKeeps
  <1>7. ASSUME NEW c \in Codes,
               \/ CreateCheckout(c) \/ CheckoutUnreachable(c) \/ CheckoutRejected(c) \/ FailPayment(c)
               \/ Capture(c) \/ Dispute(c) \/ \E r \in Refunds : Refund(c, r)
        PROVE  PayRowsOK' /\ CodesInv' /\ \A d \in Codes : Advances(d)
    <2>1. PayRowsOK' /\ CodeInv(c)' /\ Advances(c) /\ \A d \in Codes \ {c} : Untouched(d)
      BY <1>7, CreateKeeps, CheckoutEndKeeps, ProviderKeeps
    <2> QED
      BY <1>1, <2>1
  <1>8. ASSUME NEW w \in Workers, BindProviderOrder(w)
        PROVE  PayRowsOK' /\ CodesInv' /\ \A d \in Codes : Advances(d)
    BY <1>1, <1>8, BindKeeps
  <1>9. ASSUME NEW w \in Workers, CompletePayment(w)
        PROVE  PayRowsOK' /\ CodesInv' /\ \A d \in Codes : Advances(d)
    BY <1>1, <1>9, CompleteKeeps
  <1>10. \/ \E in \in Inputs : SaveCreemSettings(in)
         \/ InvalidateCreemSettings \/ CacheExpires \/ ReadCreemSettings
         \/ UNCHANGED payVars
         => UNCHANGED <<pay, order, checkout, price>>
    BY DEF SaveCreemSettings, InvalidateCreemSettings, CacheExpires, ReadCreemSettings, payVars, provVars
  <1>11. ASSUME NEW w \in Workers,
                \/ \E ev \in Events : ReceiveWebhook(w, ev)
                \/ ReconcileCreemCompletion(w) \/ AuthoritativePaymentTransaction(w)
                \/ RecordPaymentAdjustment(w) \/ RefuseAdjustment(w) \/ WebhookFails(w)
         PROVE  UNCHANGED <<pay, order, checkout, price>>
    BY <1>11 DEF ReceiveWebhook, ReconcileCreemCompletion, AuthoritativePaymentTransaction,
                 RecordPaymentAdjustment, RefuseAdjustment, WebhookFails, provVars
  <1> QED
    BY <1>3, <1>4, <1>5, <1>6, <1>7, <1>8, <1>9, <1>10, <1>11 DEF PayNext, WebhookStep

-----------------------------------------------------------------------------
(* Webhooks and the facts they record.                                     *)

\* A hook that waits still knows what is true.
LEMMA HookWaits ==
  ASSUME PayRowsOK, HookRowsOK, CodesInv, CodesInv', \A d \in Codes : Advances(d),
         NEW w \in Workers, HookInv(w), hook'[w] = hook[w]
  PROVE  HookInv(w)'
  <1> DEFINE h == hook[w]
             c == h.ev.code
  <1>1. CASE h.step = "idle"
    BY <1>1 DEF HookInv
  <1>2. CASE h.step # "idle"
    <2>1. c \in Codes /\ h \in HookRow
      BY <1>2, HookCases DEF HookRowsOK, AllEvents
    <2>2. order[c].state = "captured" /\ Advances(c) /\ CodeInv(c)
      BY <1>2, <2>1 DEF HookInv, CodesInv
    <2>3. order'[c].state = "captured" /\ order'[c].amount = order[c].amount
          /\ order[c].refunds \subseteq order'[c].refunds /\ (order[c].disputed => order'[c].disputed)
      BY <2>2 DEF Advances
    <2>4. AmountPaid(c)' = AmountPaid(c)
      BY <2>3 DEF AmountPaid
    <2>5. RefundedAmount(c) \in Nat /\ RefundedAmount(c) <= RefundedAmount(c)'
      BY <2>1, <2>2, OrderMoney DEF Advances
    <2>6. pay[c] # None /\ pay'[c] # None /\ pay'[c].amount = pay[c].amount
          /\ (pay[c].order # None => pay'[c].order = pay[c].order)
      BY <2>2 DEF CodeInv, Advances
    <2>7. h.step = "complete" => pay'[c].order = c
      BY <1>2, <2>1, <2>6, PaymentAssumption DEF HookInv
    <2>8. h.step = "record" /\ h.txn.refunded # None => h.txn.refunded \in 0 .. RefundedAmount(c)'
      <3>1. RefundedAmount(c)' \in Nat
        BY <2>1, <2>3, RefundsCounted DEF CodesInv
      <3> QED
        BY <1>2, <2>5, <3>1 DEF HookInv
    <2> QED
      BY <1>2, <2>3, <2>4, <2>6, <2>7, <2>8 DEF HookInv
  <1> QED
    BY <1>1, <1>2

\* What a webhook asks of its payment, when it is the payment's own order.
LEMMA OwnPayment ==
  ASSUME PayRowsOK, HookRowsOK, CodesInv, NEW w \in Workers, hook[w].step # "idle",
         NEW c \in PaymentOf(hook[w].ev.code)
  PROVE  /\ c = hook[w].ev.code /\ c \in Codes
         /\ pay[c] # None /\ pay[c] \in PayRow /\ pay[c].status = "paid"
         /\ order[c].state = "captured" /\ order[c].amount = pay[c].amount
  <1>1. hook[w].ev.code \in Codes
    BY HookCases DEF HookRowsOK, AllEvents
  <1>2. c \in Codes /\ pay[c] # None /\ pay[c].order = hook[w].ev.code /\ pay[c].status = "paid"
    BY DEF PaymentOf
  <1>3. pay[c].order = c
    BY <1>2 DEF CodesInv, CodeInv
  <1> QED
    BY <1>1, <1>2, <1>3 DEF CodesInv, CodeInv, PayRowsOK

\* The transaction the provider is asked for.
LEMMA TransactionRead ==
  ASSUME PayRowsOK, HookRowsOK, CodesInv, NEW w \in Workers, HookInv(w),
         AuthoritativePaymentTransaction(w)
  PROVE  HookInv(w)' /\ hook'[w] \in HookRow /\ \A v \in Workers \ {w} : hook'[v] = hook[v]
  <1> DEFINE ev == hook[w].ev
             c == ev.code
  <1>1. /\ hook[w].step = "signed" /\ ev.kind \in {"refund", "dispute"}
        /\ order' = order /\ pay' = pay
        /\ \/ \E txn \in GetTransaction(c) :
                /\ FactReconciles(ev, txn)
                /\ hook' = [hook EXCEPT ![w] = [step |-> "record", ev |-> ev, txn |-> txn]]
           \/ Dropped(w)
    BY DEF AuthoritativePaymentTransaction, provVars
  <1>2. ev \in AllEvents /\ c \in Codes
    BY <1>1, HookCases DEF HookRowsOK, AllEvents
  <1>3. /\ order[c].state = "captured" /\ (ev.kind = "refund" => ev.object \in order[c].refunds)
        /\ (ev.kind = "dispute" => order[c].disputed)
    BY <1>1 DEF HookInv
  <1>4. AmountPaid(c) \in Nat \ {0} /\ RefundedAmount(c) \in Nat /\ CodeInv(c)
    BY <1>2, <1>3, OrderMoney DEF CodesInv
  <1>5. CASE Dropped(w)
    <2>1. hook'[w] = [step |-> "idle"] /\ \A v \in Workers \ {w} : hook'[v] = hook[v]
      BY <1>5 DEF Dropped, HookRowsOK
    <2> QED
      BY <2>1 DEF HookRow, HookInv
  <1>6. ASSUME NEW txn \in GetTransaction(c), FactReconciles(ev, txn),
               hook' = [hook EXCEPT ![w] = [step |-> "record", ev |-> ev, txn |-> txn]]
        PROVE  HookInv(w)' /\ hook'[w] \in HookRow /\ \A v \in Workers \ {w} : hook'[v] = hook[v]
    <2>1. /\ hook'[w] = [step |-> "record", ev |-> ev, txn |-> txn]
          /\ \A v \in Workers \ {w} : hook'[v] = hook[v]
      BY <1>6 DEF HookRowsOK
    <2>2. \E v \in {None, 0, RefundedAmount(c)} : txn = [paid |-> AmountPaid(c), refunded |-> v]
      BY DEF GetTransaction
    <2>3. /\ txn \in TxnRow /\ txn.paid = AmountPaid(c)
          /\ txn.refunded # None => txn.refunded \in 0 .. RefundedAmount(c)
      BY <1>4, <2>2 DEF TxnRow
    <2>4. hook'[w] \in HookRow
      BY <1>2, <2>1, <2>3 DEF HookRow
    <2>5. hook'[w].step = "record" /\ hook'[w].ev = hook[w].ev /\ hook'[w].txn = txn
      BY <2>1
    <2>6. HookInv(w)'
      BY <1>1, <1>3, <1>4, <2>3, <2>5 DEF HookInv, AmountPaid, RefundedAmount
    <2> QED
      BY <2>1, <2>4, <2>6
  <1> QED
    BY <1>1, <1>5, <1>6

\* Every step keeps what the webhooks know.
LEMMA HooksStep ==
  ASSUME SettingsTypeOK, PayRowsOK, HookRowsOK, CodesInv, HooksInv, [PayNext]_payVars
  PROVE  hook' \in [Workers -> HookRow] /\ HooksInv'
  <1>1. CodesInv' /\ \A d \in Codes : Advances(d)
    BY CodesStep
  <1>2. ASSUME NEW w \in Workers, HookInv(w)', hook'[w] \in HookRow, DOMAIN hook' = Workers,
               hook' = [v \in Workers |-> hook'[v]],
               \A v \in Workers \ {w} : hook'[v] = hook[v]
        PROVE  hook' \in [Workers -> HookRow] /\ HooksInv'
    <2>1. \A v \in Workers : hook'[v] \in HookRow
      BY <1>2 DEF HookRowsOK
    <2>2. hook' \in [Workers -> HookRow]
      BY <1>2, <2>1
    <2>3. \A v \in Workers \ {w} : HookInv(v)'
      BY <1>1, <1>2, HookWaits DEF HooksInv
    <2> QED
      BY <1>2, <2>2, <2>3 DEF HooksInv
  <1>3. ASSUME hook' = hook
        PROVE  hook' \in [Workers -> HookRow] /\ HooksInv'
    BY <1>1, <1>3, HookWaits DEF HooksInv, HookRowsOK
  <1>4. ASSUME NEW w \in Workers, Dropped(w)
        PROVE  hook' \in [Workers -> HookRow] /\ HooksInv'
    <2>1. /\ hook'[w] = [step |-> "idle"] /\ \A v \in Workers \ {w} : hook'[v] = hook[v]
          /\ DOMAIN hook' = Workers /\ hook' = [v \in Workers |-> hook'[v]]
      BY <1>4 DEF Dropped, HookRowsOK
    <2>2. HookInv(w)' /\ hook'[w] \in HookRow
      BY <2>1 DEF HookInv, HookRow
    <2> QED
      BY <1>2, <2>1, <2>2
  <1>5. ASSUME NEW k \in EncKeys, Restart(k)
        PROVE  hook' \in [Workers -> HookRow] /\ HooksInv'
    <2>1. hook' = [w \in Workers |-> [step |-> "idle"]]
      BY <1>5 DEF Restart
    <2>2. [step |-> "idle"] \in HookRow
      BY DEF HookRow
    <2>3. \A w \in Workers : hook'[w].step = "idle"
      BY <2>1
    <2> QED
      BY <2>1, <2>2, <2>3 DEF HooksInv, HookInv
  <1>6. ASSUME NEW w \in Workers, NEW ev \in Events, ReceiveWebhook(w, ev)
        PROVE  hook' \in [Workers -> HookRow] /\ HooksInv'
    <2>1. hook' = [hook EXCEPT ![w] = [step |-> "signed", ev |-> ev]] /\ order' = order
      BY <1>6 DEF ReceiveWebhook, provVars
    <2>2. /\ hook'[w] = [step |-> "signed", ev |-> ev] /\ \A v \in Workers \ {w} : hook'[v] = hook[v]
          /\ DOMAIN hook' = Workers /\ hook' = [v \in Workers |-> hook'[v]]
      BY <2>1 DEF HookRowsOK
    <2>3. /\ ev \in AllEvents /\ order[ev.code].state = "captured"
          /\ ev.kind = "refund" => ev.object \in order[ev.code].refunds
          /\ ev.kind = "dispute" => order[ev.code].disputed
      BY EventCases
    <2>4. HookInv(w)' /\ hook'[w] \in HookRow
      BY <2>1, <2>2, <2>3 DEF HookInv, HookRow
    <2> QED
      BY <1>2, <2>2, <2>4
  <1>7. ASSUME NEW w \in Workers, ReconcileCreemCompletion(w)
        PROVE  hook' \in [Workers -> HookRow] /\ HooksInv'
    <2>1. /\ hook[w].step = "signed" /\ hook[w].ev.kind = "completed"
          /\ pay' = pay /\ order' = order
          /\ \/ \E st \in Served : Reconciles(hook[w].ev.code, st) /\ hook' = [hook EXCEPT ![w].step = "bind"]
             \/ Dropped(w)
      BY <1>7 DEF ReconcileCreemCompletion, provVars
    <2>2. CASE Dropped(w)
      BY <1>4, <2>2
    <2>3. ASSUME NEW st \in Served, Reconciles(hook[w].ev.code, st), hook' = [hook EXCEPT ![w].step = "bind"]
          PROVE  hook' \in [Workers -> HookRow] /\ HooksInv'
      <3>1. /\ hook'[w] = [hook[w] EXCEPT !.step = "bind"] /\ \A v \in Workers \ {w} : hook'[v] = hook[v]
            /\ DOMAIN hook' = Workers /\ hook' = [v \in Workers |-> hook'[v]]
        BY <2>3 DEF HookRowsOK
      <3>2. hook[w] \in [step : {"signed", "bind", "complete"}, ev : AllEvents]
        BY <2>1, HookCases DEF HookRowsOK
      <3>3. hook'[w].step = "bind" /\ hook'[w].ev = hook[w].ev /\ hook'[w] \in HookRow
        BY <3>1, <3>2 DEF HookRow
      <3>4. pay[hook[w].ev.code] # None /\ order[hook[w].ev.code].amount = pay[hook[w].ev.code].amount
        BY <2>3 DEF Reconciles
      <3>5. HookInv(w)'
        BY <2>1, <3>3, <3>4 DEF HookInv, HooksInv
      <3> QED
        BY <1>2, <3>1, <3>3, <3>5
    <2> QED
      BY <2>1, <2>2, <2>3
  <1>8. ASSUME NEW w \in Workers, BindProviderOrder(w)
        PROVE  hook' \in [Workers -> HookRow] /\ HooksInv'
    <2> DEFINE c == hook[w].ev.code
    <2>1. /\ c \in Codes /\ Advances(c) /\ (hook'[w].step = "complete" => pay'[c].order = c)
      BY <1>8, BindKeeps
    <2>2. /\ hook[w].step = "bind" /\ order' = order
          /\ hook' = [hook EXCEPT ![w].step = "complete"] \/ Dropped(w)
      BY <1>8 DEF BindProviderOrder, provVars
    <2>3. CASE Dropped(w)
      BY <1>4, <2>3
    <2>4. CASE hook' = [hook EXCEPT ![w].step = "complete"]
      <3>1. /\ hook'[w] = [hook[w] EXCEPT !.step = "complete"] /\ \A v \in Workers \ {w} : hook'[v] = hook[v]
            /\ DOMAIN hook' = Workers /\ hook' = [v \in Workers |-> hook'[v]]
        BY <2>4 DEF HookRowsOK
      <3>2. hook[w] \in [step : {"signed", "bind", "complete"}, ev : AllEvents]
        BY <2>2, HookCases DEF HookRowsOK
      <3>3. hook'[w].step = "complete" /\ hook'[w].ev = hook[w].ev /\ hook'[w] \in HookRow
        BY <3>1, <3>2 DEF HookRow
      <3>4. pay[c] # None /\ order[c].amount = pay[c].amount
        BY <2>2 DEF HooksInv, HookInv
      <3>5. pay'[c] # None /\ order'[c].amount = pay'[c].amount
        BY <2>1, <2>2, <3>4 DEF Advances
      <3>6. HookInv(w)'
        BY <2>1, <2>2, <3>3, <3>5 DEF HookInv, HooksInv
      <3> QED
        BY <1>2, <3>1, <3>3, <3>6
    <2> QED
      BY <2>2, <2>3, <2>4
  <1>9. ASSUME NEW w \in Workers, AuthoritativePaymentTransaction(w)
        PROVE  hook' \in [Workers -> HookRow] /\ HooksInv'
    <2>1. HookInv(w)' /\ hook'[w] \in HookRow /\ \A v \in Workers \ {w} : hook'[v] = hook[v]
      BY <1>9, TransactionRead DEF HooksInv
    <2>2. DOMAIN hook' = Workers /\ hook' = [v \in Workers |-> hook'[v]]
      BY <1>9 DEF AuthoritativePaymentTransaction, Dropped, HookRowsOK
    <2> QED
      BY <1>2, <2>1, <2>2
  <1>10. ASSUME NEW w \in Workers,
                CompletePayment(w) \/ RecordPaymentAdjustment(w) \/ RefuseAdjustment(w) \/ WebhookFails(w)
         PROVE  Dropped(w)
    BY <1>10 DEF CompletePayment, RecordPaymentAdjustment, RefuseAdjustment, WebhookFails, Answer, Dropped
  <1>11. \/ \E in \in Inputs : SaveCreemSettings(in)
         \/ InvalidateCreemSettings \/ CacheExpires \/ ReadCreemSettings
         \/ \E c \in Codes, a \in Accounts : StartCreemCheckout(c, a)
         \/ UNCHANGED payVars
         => hook' = hook
    BY DEF SaveCreemSettings, InvalidateCreemSettings, CacheExpires, ReadCreemSettings, StartCreemCheckout,
           payVars
  <1>12. ASSUME NEW c \in Codes,
                \/ CreateCheckout(c) \/ CheckoutUnreachable(c) \/ CheckoutRejected(c) \/ FailPayment(c)
                \/ Capture(c) \/ Dispute(c) \/ \E r \in Refunds : Refund(c, r)
         PROVE  hook' = hook
    BY <1>12 DEF CreateCheckout, CheckoutUnreachable, CheckoutRejected, FailPayment, Capture, Dispute, Refund
  <1>13. ASSUME NEW p \in Products, ChangePrice(p)
         PROVE  hook' = hook
    BY <1>13 DEF ChangePrice
  <1> QED
    BY <1>3, <1>4, <1>5, <1>6, <1>7, <1>8, <1>9, <1>10, <1>11, <1>12, <1>13 DEF PayNext, WebhookStep

\* What the rows of facts demand, at most the refunded amounts that are within what was paid.
RefundsWithin(rows, paid) == \A f \in rows : f.refunded # None => f.refunded \in 0 .. paid

\* The largest amount that the rows name.
LEMMA LargestRefund ==
  ASSUME NEW rows, NEW paid \in Nat, RefundsWithin(rows, paid)
  PROVE  /\ MaxRefunded(rows) \in 0 .. paid
         /\ MaxRefunded(rows) = 0 \/ \E f \in rows : f.refunded # None /\ f.refunded = MaxRefunded(rows)
         /\ \A f \in rows : f.refunded # None => f.refunded <= MaxRefunded(rows)
  <1> DEFINE S == {0} \cup {f.refunded : f \in {g \in rows : g.refunded # None}}
  <1>1. S \in SUBSET (0 .. paid) /\ S # {}
    BY DEF RefundsWithin
  <1>2. MaxRefunded(rows) = Max(S)
    BY Zenon DEF MaxRefunded
  <1>3. Max(S) \in S /\ \A x \in S : x <= Max(S)
    <2> HIDE DEF S
    <2> QED
      BY <1>1, MaxLaw
  <1>4. MaxRefunded(rows) \in S /\ \A x \in S : x <= MaxRefunded(rows)
    <2> HIDE DEF S
    <2> QED
      BY <1>2, <1>3
  <1> QED
    BY <1>1, <1>4

\* What is to be taken back is a share of the credits.
LEMMA TargetWithin ==
  ASSUME NEW p \in PayRow, NEW rows, NEW paid \in Nat \ {0}, RefundsWithin(rows, paid)
  PROVE  /\ Target(p, rows, paid) \in 0 .. p.credits
         /\ ~HasDispute(rows) => Target(p, rows, paid) * paid <= p.credits * MaxRefunded(rows)
  <1>1. p.credits \in Nat
    BY CreditsAssumption DEF PayRow
  <1>2. MaxRefunded(rows) \in Nat /\ MaxRefunded(rows) <= paid
    BY LargestRefund
  <1>3. (p.credits * MaxRefunded(rows)) \div paid \in 0 .. p.credits
    BY <1>1, <1>2, DivWithin
  <1>4. p.credits * MaxRefunded(rows) \in Nat
    BY <1>1, <1>2
  <1>5. ((p.credits * MaxRefunded(rows)) \div paid) * paid <= p.credits * MaxRefunded(rows)
    BY <1>4, DivLaw
  <1>6. p.credits * paid <= p.credits * paid
    BY <1>1
  <1> QED
    BY <1>1, <1>3, <1>5, <1>6 DEF Target, reversalTarget

\* Rows that name no less demand no less.
LEMMA TargetGrows ==
  ASSUME NEW p \in PayRow, NEW rows, NEW more, NEW paid \in Nat \ {0},
         RefundsWithin(rows, paid), RefundsWithin(more, paid),
         HasDispute(rows) => HasDispute(more),
         \A f \in rows : f.refunded # None => \E g \in more : g.refunded # None /\ f.refunded <= g.refunded
  PROVE  Target(p, rows, paid) <= Target(p, more, paid)
  <1> DEFINE m == MaxRefunded(rows)
             n == MaxRefunded(more)
             k == p.credits
  <1>1. k \in Nat
    BY CreditsAssumption DEF PayRow
  <1>2. m \in 0 .. paid /\ n \in 0 .. paid
    BY LargestRefund
  <1>3. m <= n
    <2>1. m = 0 \/ \E f \in rows : f.refunded # None /\ f.refunded = m
      BY LargestRefund
    <2>2. CASE m = 0
      BY <1>2, <2>2
    <2>3. ASSUME NEW f \in rows, f.refunded # None, f.refunded = m
          PROVE  m <= n
      <3>1. PICK g \in more : g.refunded # None /\ f.refunded <= g.refunded
        BY <2>3
      <3>2. g.refunded <= n /\ g.refunded \in 0 .. paid
        BY <3>1, LargestRefund DEF RefundsWithin
      <3> HIDE DEF m, n
      <3> QED
        BY <1>2, <2>3, <3>1, <3>2
    <2> QED
      BY <2>1, <2>2, <2>3
  <1>4. CASE HasDispute(more)
    <2>1. Target(p, more, paid) = k
      BY <1>4 DEF Target
    <2>2. Target(p, rows, paid) \in 0 .. k
      BY TargetWithin
    <2> QED
      BY <2>1, <2>2, <1>1
  <1>5. CASE ~HasDispute(more)
    <2>1. /\ Target(p, more, paid) = reversalTarget(k, n, paid)
          /\ Target(p, rows, paid) = reversalTarget(k, m, paid)
      BY <1>5 DEF Target
    <2> HIDE DEF m, n, k
    <2>2. CASE n = paid
      <3>1. reversalTarget(k, n, paid) = k
        BY <2>2 DEF reversalTarget
      <3>2. Target(p, rows, paid) \in 0 .. k
        BY TargetWithin DEF k
      <3> QED
        BY <1>1, <2>1, <3>1, <3>2
    <2>3. CASE n # paid
      <3>1. m # paid
        BY <1>2, <1>3, <2>3
      <3>2. k * m \in Nat /\ k * n \in Nat /\ k * m <= k * n
        BY <1>1, <1>2, <1>3, ProductGrows
      <3>3. (k * m) \div paid <= (k * n) \div paid
        BY <3>2, DivGrows
      <3> QED
        BY <2>1, <2>3, <3>1, <3>3 DEF reversalTarget
    <2> QED
      BY <2>2, <2>3
  <1> QED
    BY <1>4, <1>5

\* A fact is added to the rows, or updates the row of its object; it never lowers what they name.
LEMMA InsertLaw ==
  ASSUME NEW rows, NEW row, NEW more, more = InsertPaymentAdjustment(rows, row),
         NEW n \in Nat, RefundsWithin(rows, n), RefundsWithin({row}, n)
  PROVE  /\ more \subseteq rows \cup {row} /\ more # {}
         /\ HasDispute(rows) => HasDispute(more)
         /\ \A f \in rows : f.refunded # None => \E g \in more : g.refunded # None /\ f.refunded <= g.refunded
  <1> DEFINE old == {f \in rows : f.kind = row.kind /\ f.object = row.object /\ f.code = row.code}
             newer == row.refunded # None
                        /\ \A f \in old : f.refunded = None \/ row.refunded >= f.refunded
  <1>1. more = IF old = {} THEN rows \cup {row} ELSE IF newer THEN (rows \ old) \cup {row} ELSE rows
    BY Zenon DEF InsertPaymentAdjustment
  <1>2. \A f \in rows : f.refunded # None => f.refunded \in 0 .. n
    BY DEF RefundsWithin
  <1>3. row.refunded # None => row.refunded \in 0 .. n
    BY DEF RefundsWithin
  <1>4. \A f \in old : f \in rows /\ f.kind = row.kind
    OBVIOUS
  <1>5. \A f \in rows : f.refunded # None => f.refunded <= f.refunded
    BY <1>2
  <1>6. CASE old = {}
    BY <1>1, <1>5, <1>6 DEF HasDispute
  <1>7. CASE old # {} /\ ~newer
    <2>1. more = rows
      BY <1>1, <1>7
    <2>2. rows # {}
      BY <1>4, <1>7
    <2> QED
      BY <1>5, <2>1, <2>2 DEF HasDispute
  <1>8. CASE old # {} /\ newer
    <2>1. more = (rows \ old) \cup {row}
      BY <1>1, <1>8
    <2>2. HasDispute(rows) => HasDispute(more)
      <3> HIDE DEF old
      <3> QED
        BY <1>4, <2>1 DEF HasDispute
    <2>3. ASSUME NEW f \in rows, f.refunded # None
          PROVE  \E g \in more : g.refunded # None /\ f.refunded <= g.refunded
      <3>1. CASE f \in old
        <4>1. row.refunded # None /\ row.refunded >= f.refunded
          BY <1>8, <2>3, <3>1
        <4>2. f.refunded <= row.refunded
          BY <1>2, <1>3, <2>3, <4>1
        <4> QED
          BY <2>1, <4>1, <4>2
      <3>2. CASE f \notin old
        BY <1>5, <2>1, <2>3, <3>2
      <3> QED
        BY <3>1, <3>2
    <2> HIDE DEF old, newer
    <2> QED
      BY <2>1, <2>2, <2>3
  <1> QED
    BY <1>6, <1>7, <1>8

\* The facts of a payment name no more than was paid.
LEMMA FactsWithin ==
  ASSUME PayRowsOK, HookRowsOK, CodesInv, FactsInv, NEW c \in Codes, order[c].state = "captured"
  PROVE  RefundsWithin(FactsOf(c), RefundedAmount(c)) /\ RefundsWithin(FactsOf(c), AmountPaid(c))
  <1>1. /\ RefundedAmount(c) \in Nat /\ AmountPaid(c) \in Nat \ {0}
        /\ RefundedAmount(c) <= AmountPaid(c)
    BY OrderMoney DEF CodesInv, CodeInv
  <1>2. ASSUME NEW f \in FactsOf(c), f.refunded # None
        PROVE  f.refunded \in 0 .. RefundedAmount(c) /\ f.refunded \in 0 .. AmountPaid(c)
    <2>1. f.refunded \in 0 .. RefundedAmount(c)
      BY <1>2 DEF FactsInv, FactInv, FactsOf
    <2> QED
      BY <1>1, <2>1
  <1> QED
    BY <1>2 DEF RefundsWithin

\* Recording a fact: the rows of the payment move forwards, and the credits still to be taken back are the difference.
LEMMA AdjustmentRecorded ==
  ASSUME PayRowsOK, HookRowsOK, CodesInv, HooksInv, FactsInv, NEW w \in Workers, RecordPaymentAdjustment(w)
  PROVE  \E c \in Codes :
           /\ pay[c] # None /\ pay[c] \in PayRow /\ pay[c].status = "paid" /\ order[c].state = "captured"
           /\ fact' \subseteq FactRow
           /\ FactsOf(c)' # {} /\ RefundsWithin(FactsOf(c)', RefundedAmount(c))
           /\ \A f \in FactsOf(c)' : f.kind = "dispute" => order[c].disputed
           /\ \A d \in Codes \ {c} : FactsOf(d)' = FactsOf(d)
           /\ \A f \in fact' : f \in fact \/ f \in FactsOf(c)'
           /\ Target(pay[c], FactsOf(c), AmountPaid(c)) <= Target(pay[c], FactsOf(c)', AmountPaid(c))
           /\ LET delta == Target(pay[c], FactsOf(c)', AmountPaid(c)) - Reversed(c)
              IN  IF delta > 0
                  THEN RecordAuthoritativeReversal(pay[c].account, "reverse_payment", c, -delta)
                  ELSE UNCHANGED <<balance, ledger>>
  <1>1. hook[w].step = "record"
    BY DEF RecordPaymentAdjustment
  <1>2. PICK c \in PaymentOf(hook[w].ev.code) :
          LET txn  == hook[w].txn
              row  == [code |-> c, kind |-> hook[w].ev.kind, object |-> hook[w].ev.object,
                       paid |-> txn.paid, refunded |-> txn.refunded]
              rows == InsertPaymentAdjustment(FactsOf(c), row)
              delta == Target(pay[c], rows, txn.paid) - Reversed(c)
          IN  /\ fact' = (fact \ FactsOf(c)) \cup rows
              /\ IF delta > 0
                 THEN RecordAuthoritativeReversal(pay[c].account, "reverse_payment", c, -delta)
                 ELSE UNCHANGED <<balance, ledger>>
    BY DEF RecordPaymentAdjustment
  <1>3. /\ c = hook[w].ev.code /\ c \in Codes
        /\ pay[c] # None /\ pay[c] \in PayRow /\ pay[c].status = "paid"
        /\ order[c].state = "captured"
    BY <1>1, OwnPayment
  <1>4. PICK txn \in TxnRow : txn = hook[w].txn
    BY <1>1, HookCases DEF HookRowsOK
  <1>5. PICK ev \in AllEvents : ev = hook[w].ev
    BY <1>1, HookCases DEF HookRowsOK
  <1>6. /\ ev.kind \in {"refund", "dispute"} /\ (ev.kind = "dispute" => order[c].disputed)
        /\ txn.paid = AmountPaid(c)
        /\ txn.refunded # None => txn.refunded \in 0 .. RefundedAmount(c)
    BY <1>1, <1>3, <1>4, <1>5 DEF HooksInv, HookInv
  <1>7. /\ RefundedAmount(c) \in Nat /\ AmountPaid(c) \in Nat \ {0}
        /\ RefundedAmount(c) <= AmountPaid(c)
    BY <1>3, OrderMoney DEF CodesInv, CodeInv
  <1> DEFINE row == [code |-> c, kind |-> ev.kind, object |-> ev.object,
                     paid |-> txn.paid, refunded |-> txn.refunded]
  <1>8. PICK rows : rows = InsertPaymentAdjustment(FactsOf(c), row)
    OBVIOUS
  <1>9. /\ fact' = (fact \ FactsOf(c)) \cup rows
        /\ LET delta == Target(pay[c], rows, AmountPaid(c)) - Reversed(c)
           IN  IF delta > 0
               THEN RecordAuthoritativeReversal(pay[c].account, "reverse_payment", c, -delta)
               ELSE UNCHANGED <<balance, ledger>>
    BY <1>2, <1>4, <1>5, <1>6, <1>8
  <1>10. row \in FactRow /\ row.code = c /\ row.kind = ev.kind /\ row.refunded = txn.refunded
    BY <1>3, <1>6 DEF FactRow, AllEvents, TxnRow
  <1> HIDE DEF row
  <1>11. RefundsWithin({row}, RefundedAmount(c)) /\ RefundsWithin(FactsOf(c), RefundedAmount(c))
         /\ RefundsWithin(FactsOf(c), AmountPaid(c))
    BY <1>3, <1>6, <1>10, FactsWithin DEF RefundsWithin
  <1>12. /\ rows \subseteq FactsOf(c) \cup {row} /\ rows # {}
         /\ HasDispute(FactsOf(c)) => HasDispute(rows)
         /\ \A f \in FactsOf(c) : f.refunded # None => \E g \in rows : g.refunded # None /\ f.refunded <= g.refunded
    BY <1>7, <1>8, <1>11, InsertLaw
  <1>13. \A f \in rows : f.code = c /\ f \in FactRow
    BY <1>10, <1>12 DEF FactsOf, HookRowsOK
  <1>14. FactsOf(c)' = rows
    <2>1. FactsOf(c)' = {f \in fact' : f.code = c}
      BY DEF FactsOf
    <2>2. \A f : f \in fact' /\ f.code = c <=> f \in rows
      BY <1>9, <1>13 DEF FactsOf
    <2> QED
      BY <2>1, <2>2
  <1>15. ASSUME NEW d \in Codes \ {c} PROVE FactsOf(d)' = FactsOf(d)
    <2>1. FactsOf(d)' = {f \in fact' : f.code = d}
      BY DEF FactsOf
    <2>2. \A f : f \in fact' /\ f.code = d <=> f \in fact /\ f.code = d
      BY <1>9, <1>13 DEF FactsOf
    <2> QED
      BY <2>1, <2>2 DEF FactsOf
  <1>16. /\ RefundsWithin(rows, RefundedAmount(c)) /\ RefundsWithin(rows, AmountPaid(c))
    <2>1. ASSUME NEW f \in rows, f.refunded # None
          PROVE  f.refunded \in 0 .. RefundedAmount(c) /\ f.refunded \in 0 .. AmountPaid(c)
      <3>1. f.refunded \in 0 .. RefundedAmount(c)
        BY <1>11, <1>12, <2>1 DEF RefundsWithin
      <3> QED
        BY <1>7, <3>1
    <2> QED
      BY <2>1 DEF RefundsWithin
  <1>17. \A f \in rows : f.kind = "dispute" => order[c].disputed
    BY <1>6, <1>10, <1>12 DEF FactsInv, FactInv, FactsOf
  <1>18. Target(pay[c], FactsOf(c), AmountPaid(c)) <= Target(pay[c], rows, AmountPaid(c))
    BY <1>3, <1>7, <1>11, <1>12, <1>16, TargetGrows
  <1>19. fact' \subseteq FactRow /\ \A f \in fact' : f \in fact \/ f \in rows
    BY <1>9, <1>13 DEF HookRowsOK
  <1> QED
    BY <1>3, <1>9, <1>12, <1>14, <1>15, <1>16, <1>17, <1>18, <1>19

\* Which steps record a fact.
LEMMA FactsStay ==
  ASSUME [PayNext]_payVars, ~ \E w \in Workers : RecordPaymentAdjustment(w)
  PROVE  fact' = fact
  <1>1. \/ \E in \in Inputs : SaveCreemSettings(in)
        \/ InvalidateCreemSettings \/ CacheExpires \/ ReadCreemSettings
        \/ \E k \in EncKeys : Restart(k)
        \/ \E c \in Codes, a \in Accounts : StartCreemCheckout(c, a)
        \/ \E p \in Products : ChangePrice(p)
        \/ UNCHANGED payVars
        => fact' = fact
    BY DEF SaveCreemSettings, InvalidateCreemSettings, CacheExpires, ReadCreemSettings, Restart,
           StartCreemCheckout, ChangePrice, payVars
  <1>2. ASSUME NEW c \in Codes,
               \/ CreateCheckout(c) \/ CheckoutUnreachable(c) \/ CheckoutRejected(c) \/ FailPayment(c)
               \/ Capture(c) \/ Dispute(c) \/ \E r \in Refunds : Refund(c, r)
        PROVE  fact' = fact
    BY <1>2 DEF CreateCheckout, CheckoutUnreachable, CheckoutRejected, FailPayment, Capture, Dispute, Refund
  <1>3. ASSUME NEW w \in Workers,
               \/ \E ev \in Events : ReceiveWebhook(w, ev)
               \/ ReconcileCreemCompletion(w) \/ AuthoritativePaymentTransaction(w)
               \/ BindProviderOrder(w) \/ CompletePayment(w)
               \/ RefuseAdjustment(w) \/ WebhookFails(w)
        PROVE  fact' = fact
    BY <1>3 DEF ReceiveWebhook, ReconcileCreemCompletion, AuthoritativePaymentTransaction, BindProviderOrder,
                CompletePayment, RefuseAdjustment, WebhookFails
  <1> QED
    BY <1>1, <1>2, <1>3 DEF PayNext, WebhookStep

\* Every step keeps the facts true.
LEMMA FactsStep ==
  ASSUME SettingsTypeOK, PayRowsOK, HookRowsOK, CodesInv, HooksInv, FactsInv, [PayNext]_payVars
  PROVE  HookRowsOK' /\ FactsInv'
  <1>1. hook' \in [Workers -> HookRow] /\ CodesInv' /\ \A d \in Codes : Advances(d)
    BY HooksStep, CodesStep
  <1>2. ASSUME NEW f \in fact PROVE FactInv(f)'
    <2>1. f.code \in Codes
      BY DEF HookRowsOK, FactRow
    <2>2. pay[f.code] # None /\ pay[f.code].status = "paid" /\ Advances(f.code)
      BY <1>1, <2>1 DEF FactsInv, FactInv
    <2>3. order[f.code].state = "captured" /\ CodeInv(f.code) /\ CodeInv(f.code)'
      BY <1>1, <2>1, <2>2 DEF CodesInv, CodeInv
    <2>4. /\ pay'[f.code] # None /\ pay'[f.code].status = "paid"
          /\ RefundedAmount(f.code) <= RefundedAmount(f.code)'
          /\ order'[f.code].state = "captured"
          /\ order[f.code].disputed => order'[f.code].disputed
      BY <2>2, <2>3 DEF Advances
    <2>5. RefundedAmount(f.code) \in Nat /\ RefundedAmount(f.code)' \in Nat
      BY <2>1, <2>3, <2>4, OrderMoney, RefundsCounted
    <2>6. f.refunded # None => f.refunded \in 0 .. RefundedAmount(f.code)'
      BY <2>4, <2>5 DEF FactsInv, FactInv
    <2> QED
      BY <2>4, <2>6 DEF FactsInv, FactInv
  <1>3. CASE ~ \E w \in Workers : RecordPaymentAdjustment(w)
    <2>1. fact' = fact
      BY <1>3, FactsStay
    <2> QED
      BY <1>1, <1>2, <2>1 DEF HookRowsOK, FactsInv
  <1>4. ASSUME NEW w \in Workers, RecordPaymentAdjustment(w)
        PROVE  HookRowsOK' /\ FactsInv'
    <2>1. PICK c \in Codes :
            /\ pay[c] # None /\ pay[c].status = "paid"
            /\ fact' \subseteq FactRow
            /\ RefundsWithin(FactsOf(c)', RefundedAmount(c))
            /\ \A f \in FactsOf(c)' : f.kind = "dispute" => order[c].disputed
            /\ \A f \in fact' : f \in fact \/ f \in FactsOf(c)'
      BY <1>4, AdjustmentRecorded
    <2>2. pay' = pay /\ order' = order
      BY <1>4 DEF RecordPaymentAdjustment
    <2>3. RefundedAmount(c)' = RefundedAmount(c)
      BY <2>2 DEF RefundedAmount
    <2>4. ASSUME NEW f \in FactsOf(c)' PROVE FactInv(f)'
      <3>1. f.code = c
        BY DEF FactsOf
      <3> QED
        BY <2>1, <2>2, <2>3, <3>1 DEF FactInv, RefundsWithin
    <2> QED
      BY <1>1, <1>2, <2>1, <2>4 DEF HookRowsOK, FactsInv
  <1> QED
    BY <1>3, <1>4

-----------------------------------------------------------------------------
(* The books.                                                              *)

PayInv ==
    SettingsTypeOK /\ PayRowsOK /\ HookRowsOK /\ CodesInv /\ HooksInv /\ FactsInv

LedgerInv == LedgerTypeOK /\ InRange /\ BalanceIsLedger

\* What was granted for code c to account a, and what was taken back.
Granted(a, c) ==
    IF pay[c] # None /\ pay[c].account = a /\ pay[c].status = "paid" THEN pay[c].credits ELSE 0
TakenBack(a, c) ==
    IF pay[c] # None /\ pay[c].account = a /\ FactsOf(c) # {}
    THEN Target(pay[c], FactsOf(c), AmountPaid(c)) ELSE 0

GrantInv ==
    \A c \in Codes : \A a \in Accounts : SumAmountByTypeRef(a, "grant_payment", c) = Granted(a, c)
ReverseInv ==
    \A c \in Codes : \A a \in Accounts : SumAmountByTypeRef(a, "reverse_payment", c) = -TakenBack(a, c)

LEMMA PayInvStarts ==
  ASSUME PayInit
  PROVE  PayInv
  <1> USE DEF PayInit
  <1>1. SettingsTypeOK
    BY DEF SettingsTypeOK, SettingsOK
  <1>2. PayRowsOK
    <2>1. checkout \in [Codes -> CheckoutRow]
      BY DEF CheckoutRow
    <2>2. order \in [Codes -> OrderRow]
      BY DEF OrderRow
    <2>3. pay \in [Codes -> PayRow \cup {None}] /\ price \in [Products -> Prices]
      BY PaymentAssumption
    <2> QED
      BY <2>1, <2>2, <2>3 DEF PayRowsOK
  <1>3. HookRowsOK
    BY DEF HookRowsOK, HookRow
  <1>4. CodesInv
    BY DEF CodesInv, CodeInv
  <1>5. HooksInv
    BY DEF HooksInv, HookInv
  <1>6. FactsInv
    BY DEF FactsInv
  <1> QED
    BY <1>1, <1>2, <1>3, <1>4, <1>5, <1>6 DEF PayInv

LEMMA PayInvStep ==
  ASSUME PayInv, [PayNext]_payVars
  PROVE  PayInv' /\ \A d \in Codes : Advances(d)
  BY SettingsStep, CodesStep, HooksStep, FactsStep DEF PayInv

\* A row within the checks keeps the books.
LEMMA RecordKeepsLedger ==
  ASSUME LedgerInv, NEW a \in Accounts, NEW type, NEW ref, NEW amount \in Int, checkAdd(a, amount),
         Post(a, type, ref, amount)
  PROVE  LedgerInv'
  <1>1. LedgerTypeOK' /\ balance'[a] = balance[a] + amount /\ \A b \in Accounts \ {a} : balance'[b] = balance[b]
    BY PostKeepsType DEF LedgerInv
  <1>2. BalanceIsLedger'
    BY PostKeepsBalance DEF LedgerInv
  <1>3. InRange'
    BY <1>1 DEF InRange, checkAdd, LedgerInv
  <1> QED
    BY <1>1, <1>2, <1>3 DEF LedgerInv

LEMMA UntouchedLedger ==
  ASSUME LedgerInv, UNCHANGED <<balance, ledger>>
  PROVE  LedgerInv'
  <1>1. Added' = Added /\ Taken' = Taken /\ \A a \in Accounts : KeysOf(a)' = KeysOf(a)
    BY DEF Added, Taken, KeysOf
  <1> QED
    BY <1>1 DEF LedgerInv, LedgerTypeOK, InRange, BalanceIsLedger

\* What a step of payments posts, if anything.
LEMMA PayPosts ==
  ASSUME PayInv, [PayNext]_payVars
  PROVE  \/ /\ UNCHANGED <<balance, ledger>>
            /\ \A d \in Codes : pay'[d] # None /\ pay'[d].status = "paid" => pay[d] # None /\ pay[d].status = "paid"
            /\ \A w \in Workers : ~ RecordPaymentAdjustment(w)
         \/ \E w \in Workers : RecordPaymentAdjustment(w)
         \/ \E c \in Codes :
              /\ pay[c] # None /\ pay[c] \in PayRow /\ pay[c].status = "pending"
              /\ Record(pay[c].account, "grant_payment", c, pay[c].credits)
              /\ pay'[c] # None /\ pay'[c].status = "paid" /\ \A d \in Codes \ {c} : pay'[d] = pay[d]
              /\ \A w \in Workers : ~ RecordPaymentAdjustment(w)
  <1> SUFFICES ASSUME \A w \in Workers : ~ RecordPaymentAdjustment(w)
               PROVE  \/ /\ UNCHANGED <<balance, ledger>>
                         /\ \A d \in Codes : pay'[d] # None /\ pay'[d].status = "paid"
                                               => pay[d] # None /\ pay[d].status = "paid"
                      \/ \E c \in Codes :
                           /\ pay[c] # None /\ pay[c] \in PayRow /\ pay[c].status = "pending"
                           /\ Record(pay[c].account, "grant_payment", c, pay[c].credits)
                           /\ pay'[c] # None /\ pay'[c].status = "paid" /\ \A d \in Codes \ {c} : pay'[d] = pay[d]
    OBVIOUS
  <1>1. \/ \E in \in Inputs : SaveCreemSettings(in)
        \/ InvalidateCreemSettings \/ CacheExpires \/ ReadCreemSettings
        \/ \E k \in EncKeys : Restart(k)
        \/ \E p \in Products : ChangePrice(p)
        \/ UNCHANGED payVars
        => UNCHANGED <<balance, ledger, pay>>
    BY DEF SaveCreemSettings, InvalidateCreemSettings, CacheExpires, ReadCreemSettings, Restart,
           ChangePrice, payVars
  <1>2. ASSUME NEW c \in Codes,
               \/ CreateCheckout(c) \/ CheckoutUnreachable(c) \/ CheckoutRejected(c)
               \/ Capture(c) \/ Dispute(c) \/ \E r \in Refunds : Refund(c, r)
        PROVE  UNCHANGED <<balance, ledger, pay>>
    BY <1>2 DEF CreateCheckout, CheckoutUnreachable, CheckoutRejected, Capture, Dispute, Refund
  <1>3. ASSUME NEW c \in Codes, FailPayment(c)
        PROVE  /\ UNCHANGED <<balance, ledger>>
               /\ \A d \in Codes : pay'[d] # None /\ pay'[d].status = "paid" => pay[d] # None /\ pay[d].status = "paid"
    <2>1. checkout[c].step # "idle"
      BY <1>3 DEF FailPayment
    <2>2. pay[c] \in PayRow /\ pay[c].status = "pending" /\ pay[c] # None
      BY <2>1 DEF PayInv, CodesInv, CodeInv, PayRowsOK
    <2>3. pay' = [pay EXCEPT ![c].status = "failed"] /\ UNCHANGED <<balance, ledger>>
      BY <1>3, <2>2 DEF FailPayment, SetPaymentStatus
    <2>4. pay'[c] = [pay[c] EXCEPT !.status = "failed"] /\ \A d \in Codes \ {c} : pay'[d] = pay[d]
      BY <2>3 DEF PayInv, PayRowsOK
    <2>5. pay'[c].status = "failed"
      BY <2>2, <2>4 DEF PayRow
    <2> QED
      BY <2>3, <2>4, <2>5
  <1>4. ASSUME NEW c \in Codes, NEW a \in Accounts, StartCreemCheckout(c, a)
        PROVE  /\ UNCHANGED <<balance, ledger>>
               /\ \A d \in Codes : pay'[d] # None /\ pay'[d].status = "paid" => pay[d] # None /\ pay[d].status = "paid"
    <2>1. UNCHANGED <<balance, ledger>> /\ \E st : \E p \in st.packages : pay' = [pay EXCEPT ![c] = NewPayment(a, p)]
      BY <1>4 DEF StartCreemCheckout
    <2>2. PICK p : pay' = [pay EXCEPT ![c] = NewPayment(a, p)]
      BY <2>1
    <2>3. NewPayment(a, p).status = "pending"
      BY DEF NewPayment
    <2>4. pay'[c].status = "pending" /\ \A d \in Codes \ {c} : pay'[d] = pay[d]
      BY <2>2, <2>3 DEF PayInv, PayRowsOK
    <2> QED
      BY <2>1, <2>4
  <1>5. ASSUME NEW w \in Workers, BindProviderOrder(w)
        PROVE  /\ UNCHANGED <<balance, ledger>>
               /\ \A d \in Codes : pay'[d] # None /\ pay'[d].status = "paid" => pay[d] # None /\ pay[d].status = "paid"
    <2>1. PICK c : c = hook[w].ev.code
      OBVIOUS
    <2>2. UNCHANGED <<balance, ledger>> /\ (pay' = pay \/ pay' = [pay EXCEPT ![c].order = c]) /\ hook[w].step = "bind"
      BY <1>5, <2>1 DEF BindProviderOrder
    <2>3. c \in Codes /\ pay[c] # None
      BY <2>1, <2>2, HookCases DEF PayInv, HookRowsOK, AllEvents, HooksInv, HookInv
    <2>4. pay[c] \in PayRow
      BY <2>3 DEF PayInv, PayRowsOK
    <2>5. pay'[c].status = pay[c].status /\ \A d \in Codes \ {c} : pay'[d] = pay[d]
      BY <2>2, <2>3, <2>4 DEF PayInv, PayRowsOK, PayRow
    <2> QED
      BY <2>2, <2>3, <2>5
  <1>6. ASSUME NEW w \in Workers, CompletePayment(w)
        PROVE  \/ UNCHANGED <<balance, ledger, pay>>
               \/ \E c \in Codes :
                    /\ pay[c] # None /\ pay[c] \in PayRow /\ pay[c].status = "pending"
                    /\ Record(pay[c].account, "grant_payment", c, pay[c].credits)
                    /\ pay'[c] # None /\ pay'[c].status = "paid" /\ \A d \in Codes \ {c} : pay'[d] = pay[d]
    <2>1. PICK c : c = hook[w].ev.code
      OBVIOUS
    <2>2. \/ UNCHANGED <<balance, ledger, pay>>
          \/ /\ pay[c].status = "pending"
             /\ Record(pay[c].account, "grant_payment", c, pay[c].credits)
             /\ pay' = [pay EXCEPT ![c].status = "paid"]
      BY <1>6, <2>1 DEF CompletePayment, MarkPaymentPaid
    <2>3. hook[w].step = "complete"
      BY <1>6 DEF CompletePayment
    <2>4. /\ c \in Codes /\ pay[c] \in PayRow /\ pay'[c] # None /\ pay[c] # None
      BY <1>6, <2>1, <2>3, CompleteKeeps DEF PayInv, HooksInv, HookInv
    <2>5. CASE /\ pay[c].status = "pending"
               /\ Record(pay[c].account, "grant_payment", c, pay[c].credits)
               /\ pay' = [pay EXCEPT ![c].status = "paid"]
      <3>1. pay'[c].status = "paid" /\ \A d \in Codes \ {c} : pay'[d] = pay[d]
        BY <2>4, <2>5 DEF PayInv, PayRowsOK, PayRow
      <3> QED
        BY <2>4, <2>5, <3>1
    <2> QED
      BY <2>2, <2>5
  <1>7. ASSUME NEW w \in Workers,
               \/ \E ev \in Events : ReceiveWebhook(w, ev)
               \/ ReconcileCreemCompletion(w) \/ AuthoritativePaymentTransaction(w)
               \/ RefuseAdjustment(w) \/ WebhookFails(w)
        PROVE  UNCHANGED <<balance, ledger, pay>>
    BY <1>7 DEF ReceiveWebhook, ReconcileCreemCompletion, AuthoritativePaymentTransaction, RefuseAdjustment,
                WebhookFails
  <1>8. UNCHANGED <<balance, ledger, pay>> =>
          /\ UNCHANGED <<balance, ledger>>
          /\ \A d \in Codes : pay'[d] # None /\ pay'[d].status = "paid" => pay[d] # None /\ pay[d].status = "paid"
    OBVIOUS
  <1> QED
    BY <1>1, <1>2, <1>3, <1>4, <1>5, <1>6, <1>7, <1>8 DEF PayNext, WebhookStep

\* A payment that stays paid, or stays unpaid, stays granted as it was.
LEMMA GrantedKept ==
  ASSUME NEW d \in Codes, Advances(d),
         pay'[d] # None /\ pay'[d].status = "paid" => pay[d] # None /\ pay[d].status = "paid",
         NEW a \in Accounts
  PROVE  Granted(a, d)' = Granted(a, d)
  BY DEF Granted, Advances

\* While its facts stay, so does what they demand.
LEMMA TakenBackKept ==
  ASSUME PayInv, NEW d \in Codes, Advances(d), FactsOf(d)' = FactsOf(d), NEW a \in Accounts
  PROVE  TakenBack(a, d)' = TakenBack(a, d)
  <1>1. CASE FactsOf(d) = {}
    BY <1>1 DEF TakenBack
  <1>2. CASE FactsOf(d) # {}
    <2>1. PICK f \in fact : f.code = d
      BY <1>2 DEF FactsOf
    <2>2. pay[d] # None /\ pay[d].status = "paid"
      BY <2>1 DEF PayInv, FactsInv, FactInv
    <2>3. order[d].state = "captured"
      BY <2>2 DEF PayInv, CodesInv, CodeInv
    <2>4. AmountPaid(d)' = AmountPaid(d)
      BY <2>3 DEF Advances, AmountPaid
    <2>5. pay'[d] # None /\ pay'[d].account = pay[d].account /\ pay'[d].credits = pay[d].credits
      BY <2>2 DEF Advances
    <2> QED
      BY <2>2, <2>4, <2>5 DEF TakenBack, Target
  <1> QED
    BY <1>1, <1>2

LEMMA BooksStart ==
  ASSUME PayInit
  PROVE  LedgerInv /\ GrantInv /\ ReverseInv
  <1>1. LedgerInv
    BY LedgerStart DEF PayInit, LedgerInv
  <1>2. ASSUME NEW a, NEW c
        PROVE  SumAmountByTypeRef(a, "grant_payment", c) = 0 /\ SumAmountByTypeRef(a, "reverse_payment", c) = 0
    BY DEF PayInit, CreditsInit, SumAmountByTypeRef
  <1>3. \A a \in Accounts, c \in Codes : Granted(a, c) = 0 /\ TakenBack(a, c) = 0
    BY DEF PayInit, Granted, TakenBack
  <1> QED
    BY <1>1, <1>2, <1>3 DEF GrantInv, ReverseInv

\* A grant is booked once, for the payment it is for.
LEMMA GrantBooked ==
  ASSUME PayInv, LedgerInv, GrantInv, ReverseInv, \A d \in Codes : Advances(d), fact' = fact,
         NEW c \in Codes,
         pay[c] # None, pay[c] \in PayRow, pay[c].status = "pending",
         Record(pay[c].account, "grant_payment", c, pay[c].credits),
         pay'[c] # None, pay'[c].status = "paid", \A d \in Codes \ {c} : pay'[d] = pay[d]
  PROVE  LedgerInv' /\ GrantInv' /\ ReverseInv'
  <1>1. PICK b \in Accounts : b = pay[c].account
    BY DEF PayRow
  <1>2. PICK n \in Nat : n = pay[c].credits
    BY CreditsAssumption DEF PayRow
  <1>3. Post(b, "grant_payment", c, n) /\ checkAdd(b, n)
    BY <1>1, <1>2 DEF Record, CanRecord
  <1>4. LedgerInv'
    BY <1>3, RecordKeepsLedger
  <1>5. /\ pay'[c].account = b /\ pay'[c].credits = n
    BY <1>1, <1>2 DEF Advances
  <1>6. ASSUME NEW d \in Codes, NEW a \in Accounts
        PROVE  SumAmountByTypeRef(a, "grant_payment", d)' = Granted(a, d)'
    <2>1. SumAmountByTypeRef(a, "grant_payment", d)' =
            IF a = b /\ d = c THEN SumAmountByTypeRef(b, "grant_payment", c) + n
            ELSE SumAmountByTypeRef(a, "grant_payment", d)
      BY <1>3, PostMovesSum
    <2>2. SumAmountByTypeRef(a, "grant_payment", d) = Granted(a, d)
          /\ SumAmountByTypeRef(b, "grant_payment", c) = Granted(b, c)
      BY DEF GrantInv
    <2>3. Granted(b, c) = 0 /\ Granted(a, c) = 0
      BY DEF Granted
    <2>4. Granted(a, c)' = IF a = b THEN n ELSE 0
      BY <1>5 DEF Granted
    <2>5. d # c => Granted(a, d)' = Granted(a, d)
      BY DEF Granted
    <2> QED
      BY <2>1, <2>2, <2>3, <2>4, <2>5
  <1>7. ASSUME NEW d \in Codes, NEW a \in Accounts
        PROVE  SumAmountByTypeRef(a, "reverse_payment", d)' = -TakenBack(a, d)'
    <2>1. SumAmountByTypeRef(a, "reverse_payment", d)' = SumAmountByTypeRef(a, "reverse_payment", d)
      BY <1>3, PostMovesSum
    <2>2. FactsOf(d)' = FactsOf(d)
      BY DEF FactsOf
    <2>3. TakenBack(a, d)' = TakenBack(a, d)
      BY <2>2, TakenBackKept
    <2> QED
      BY <2>1, <2>3 DEF ReverseInv
  <1> QED
    BY <1>4, <1>6, <1>7 DEF GrantInv, ReverseInv

\* A reversal makes up what the facts demand.
LEMMA ReversalBooked ==
  ASSUME PayInv, LedgerInv, GrantInv, ReverseInv, \A d \in Codes : Advances(d),
         NEW w \in Workers, RecordPaymentAdjustment(w)
  PROVE  LedgerInv' /\ GrantInv' /\ ReverseInv'
  <1>1. pay' = pay /\ order' = order
    BY DEF RecordPaymentAdjustment
  <1>2. PICK c \in Codes :
           /\ pay[c] # None /\ pay[c] \in PayRow /\ order[c].state = "captured"
           /\ FactsOf(c)' # {} /\ RefundsWithin(FactsOf(c)', RefundedAmount(c))
           /\ \A d \in Codes \ {c} : FactsOf(d)' = FactsOf(d)
           /\ Target(pay[c], FactsOf(c), AmountPaid(c)) <= Target(pay[c], FactsOf(c)', AmountPaid(c))
           /\ LET delta == Target(pay[c], FactsOf(c)', AmountPaid(c)) - Reversed(c)
              IN  IF delta > 0
                  THEN RecordAuthoritativeReversal(pay[c].account, "reverse_payment", c, -delta)
                  ELSE UNCHANGED <<balance, ledger>>
    BY AdjustmentRecorded DEF PayInv
  <1>3. PICK b \in Accounts : b = pay[c].account
    BY <1>2 DEF PayRow
  <1>4. /\ AmountPaid(c) \in Nat \ {0} /\ RefundedAmount(c) \in Nat /\ RefundedAmount(c) <= AmountPaid(c)
    BY <1>2, OrderMoney DEF PayInv, CodesInv, CodeInv
  <1>5. RefundsWithin(FactsOf(c), AmountPaid(c)) /\ RefundsWithin(FactsOf(c)', AmountPaid(c))
    <2>1. ASSUME NEW f \in FactsOf(c)', f.refunded # None PROVE f.refunded \in 0 .. AmountPaid(c)
      <3>1. f.refunded \in 0 .. RefundedAmount(c)
        BY <1>2, <2>1 DEF RefundsWithin
      <3> QED
        BY <1>4, <3>1
    <2> QED
      BY <1>2, <2>1, FactsWithin DEF RefundsWithin, PayInv
  <1>6. PICK t : t = Target(pay[c], FactsOf(c)', AmountPaid(c))
    OBVIOUS
  <1>7. PICK u : u = TakenBack(b, c)
    OBVIOUS
  <1>8. t \in Nat /\ u \in Nat /\ u <= t
    <2>1. t \in 0 .. pay[c].credits /\ Target(pay[c], FactsOf(c), AmountPaid(c)) \in 0 .. pay[c].credits
      BY <1>2, <1>4, <1>5, <1>6, TargetWithin
    <2>2. pay[c].credits \in Nat
      BY <1>2, CreditsAssumption DEF PayRow
    <2> QED
      BY <1>2, <1>6, <1>7, <2>1, <2>2 DEF TakenBack
  <1>9. SumAmountByTypeRef(b, "reverse_payment", c) = -u /\ Reversed(c) = u
    BY <1>3, <1>7, <1>8 DEF ReverseInv, Reversed
  <1>10. IF t - u > 0
         THEN checkAdd(b, u - t) /\ Post(b, "reverse_payment", c, u - t)
         ELSE UNCHANGED <<balance, ledger>>
    <2>1. -(t - u) = u - t
      BY <1>8
    <2> QED
      BY <1>2, <1>3, <1>6, <1>9, <2>1 DEF RecordAuthoritativeReversal, CanReverse
  <1>11. LedgerInv'
    <2>1. u - t \in Int
      BY <1>8
    <2> QED
      BY <1>10, <2>1, RecordKeepsLedger, UntouchedLedger
  <1>12. ASSUME NEW d \in Codes, NEW a \in Accounts
         PROVE  SumAmountByTypeRef(a, "grant_payment", d)' = Granted(a, d)'
    <2>1. SumAmountByTypeRef(a, "grant_payment", d)' = SumAmountByTypeRef(a, "grant_payment", d)
      <3>1. CASE UNCHANGED <<balance, ledger>>
        BY <3>1 DEF SumAmountByTypeRef
      <3>2. CASE Post(b, "reverse_payment", c, u - t)
        BY <3>2, PostMovesSum
      <3> QED
        BY <1>10, <3>1, <3>2
    <2>2. Granted(a, d)' = Granted(a, d)
      BY <1>1 DEF Granted
    <2> QED
      BY <2>1, <2>2 DEF GrantInv
  <1>13. SumAmountByTypeRef(b, "reverse_payment", c)' = -t
    <2>1. CASE t - u > 0
      <3>1. Post(b, "reverse_payment", c, u - t)
        BY <1>10, <2>1
      <3>2. SumAmountByTypeRef(b, "reverse_payment", c)' = SumAmountByTypeRef(b, "reverse_payment", c) + (u - t)
        BY <3>1, PostMovesSum
      <3> QED
        BY <1>8, <1>9, <3>2
    <2>2. CASE ~(t - u > 0)
      <3>1. u = t
        BY <1>8, <2>2
      <3>2. SumAmountByTypeRef(b, "reverse_payment", c)' = SumAmountByTypeRef(b, "reverse_payment", c)
        BY <1>10, <2>2 DEF SumAmountByTypeRef
      <3> QED
        BY <1>9, <3>1, <3>2
    <2> QED
      BY <2>1, <2>2
  <1>14. ASSUME NEW d \in Codes, NEW a \in Accounts, d # c \/ a # b
         PROVE  SumAmountByTypeRef(a, "reverse_payment", d)' = SumAmountByTypeRef(a, "reverse_payment", d)
    <2>1. CASE UNCHANGED <<balance, ledger>>
      BY <2>1 DEF SumAmountByTypeRef
    <2>2. CASE Post(b, "reverse_payment", c, u - t)
      BY <1>14, <2>2, PostMovesSum
    <2> QED
      BY <1>10, <2>1, <2>2
  <1>15. AmountPaid(c)' = AmountPaid(c)
    BY <1>1 DEF AmountPaid
  <1>16. TakenBack(b, c)' = t
    BY <1>1, <1>2, <1>3, <1>6, <1>15 DEF TakenBack
  <1>17. ASSUME NEW d \in Codes, NEW a \in Accounts
         PROVE  SumAmountByTypeRef(a, "reverse_payment", d)' = -TakenBack(a, d)'
    <2>1. CASE d # c
      <3>1. TakenBack(a, d)' = TakenBack(a, d)
        BY <1>2, <2>1, TakenBackKept
      <3> QED
        BY <1>14, <2>1, <3>1 DEF ReverseInv
    <2>2. CASE d = c /\ a # b
      <3>1. TakenBack(a, c) = 0 /\ TakenBack(a, c)' = 0
        BY <1>1, <1>3, <2>2 DEF TakenBack
      <3> QED
        BY <1>14, <2>2, <3>1 DEF ReverseInv
    <2>3. CASE d = c /\ a = b
      BY <1>13, <1>16, <2>3
    <2> QED
      BY <2>1, <2>2, <2>3
  <1> QED
    BY <1>11, <1>12, <1>17 DEF GrantInv, ReverseInv

\* Every step of payments keeps the books.
LEMMA BooksStep ==
  ASSUME PayInv, LedgerInv, GrantInv, ReverseInv, [PayNext]_payVars
  PROVE  LedgerInv' /\ GrantInv' /\ ReverseInv'
  <1>1. \A d \in Codes : Advances(d)
    BY PayInvStep
  <1>2. ASSUME NEW w \in Workers, RecordPaymentAdjustment(w)
        PROVE  LedgerInv' /\ GrantInv' /\ ReverseInv'
    BY <1>1, <1>2, ReversalBooked
  <1>3. ASSUME NEW c \in Codes, \A w \in Workers : ~ RecordPaymentAdjustment(w),
               pay[c] # None, pay[c] \in PayRow, pay[c].status = "pending",
               Record(pay[c].account, "grant_payment", c, pay[c].credits),
               pay'[c] # None, pay'[c].status = "paid", \A d \in Codes \ {c} : pay'[d] = pay[d]
        PROVE  LedgerInv' /\ GrantInv' /\ ReverseInv'
    <2>1. fact' = fact
      BY <1>3, FactsStay
    <2> QED
      BY <1>1, <1>3, <2>1, GrantBooked
  <1>4. ASSUME UNCHANGED <<balance, ledger>>, \A w \in Workers : ~ RecordPaymentAdjustment(w),
               \A d \in Codes : pay'[d] # None /\ pay'[d].status = "paid" => pay[d] # None /\ pay[d].status = "paid"
        PROVE  LedgerInv' /\ GrantInv' /\ ReverseInv'
    <2>1. fact' = fact
      BY <1>4, FactsStay
    <2>2. ASSUME NEW d \in Codes, NEW a \in Accounts
          PROVE  Granted(a, d)' = Granted(a, d) /\ TakenBack(a, d)' = TakenBack(a, d)
      <3>1. FactsOf(d)' = FactsOf(d)
        BY <2>1 DEF FactsOf
      <3> QED
        BY <1>1, <1>4, <3>1, GrantedKept, TakenBackKept
    <2>3. ASSUME NEW a, NEW t, NEW c PROVE SumAmountByTypeRef(a, t, c)' = SumAmountByTypeRef(a, t, c)
      BY <1>4 DEF SumAmountByTypeRef
    <2>4. LedgerInv'
      BY <1>4, UntouchedLedger
    <2> QED
      BY <2>2, <2>3, <2>4 DEF GrantInv, ReverseInv
  <1> QED
    BY <1>2, <1>3, <1>4, PayPosts

\* What the invariants say of grants.
LEMMA CreditedFollows ==
  ASSUME PayInv, LedgerInv, GrantInv
  PROVE  CreditedOnce
  <1>1. PayTypeOK
    <2>1. \A c \in Codes : pay[c] # None =>
            /\ pay[c].status \in {"pending", "paid", "failed"}
            /\ pay[c].order \in {None} \cup Codes
            /\ pay[c].credits \in 1 .. MaxCredits
      BY DEF PayInv, PayRowsOK, PayRow
    <2>2. \A c \in Codes : order[c].state \in {"none", "open", "captured"}
      BY OrderCases DEF PayInv, PayRowsOK
    <2>3. \A w \in Workers : hook[w].step \in {"idle", "signed", "bind", "complete", "record"}
      BY HookCases DEF PayInv, HookRowsOK
    <2> QED
      BY <2>1, <2>2, <2>3 DEF PayTypeOK, LedgerInv, InRange
  <1>2. GrantedOnce
    <2>1. ASSUME NEW c \in Codes, pay[c] # None
          PROVE  /\ SumAmountByTypeRef(pay[c].account, "grant_payment", c)
                      = IF pay[c].status = "paid" THEN pay[c].credits ELSE 0
                 /\ pay[c].status = "paid" => order[c].state = "captured" /\ order[c].amount = pay[c].amount
      <3>1. pay[c].account \in Accounts
        BY <2>1 DEF PayInv, PayRowsOK, PayRow
      <3>2. SumAmountByTypeRef(pay[c].account, "grant_payment", c) = Granted(pay[c].account, c)
        BY <3>1 DEF GrantInv
      <3> QED
        BY <2>1, <3>2 DEF Granted, PayInv, CodesInv, CodeInv
    <2> QED
      BY <2>1 DEF GrantedOnce
  <1>3. FailedIsNeverCharged
    BY OrderCases DEF FailedIsNeverCharged, PayInv, PayRowsOK, CodesInv, CodeInv
  <1> QED
    BY <1>1, <1>2, <1>3 DEF CreditedOnce, LedgerInv

\* What the invariants say of reversals.
LEMMA ReversedFollows ==
  ASSUME PayInv, LedgerInv, GrantInv, ReverseInv
  PROVE  ReversedAsRefunded
  <1>1. ASSUME NEW c \in Codes, pay[c] # None
        PROVE  /\ Reversed(c) = IF FactsOf(c) = {} THEN 0 ELSE Target(pay[c], FactsOf(c), AmountPaid(c))
               /\ Reversed(c) <= SumAmountByTypeRef(pay[c].account, "grant_payment", c)
               /\ Reversed(c) > 0 /\ ~order[c].disputed =>
                    Reversed(c) * AmountPaid(c) <= pay[c].credits * RefundedAmount(c)
    <2>1. pay[c] \in PayRow /\ pay[c].account \in Accounts /\ pay[c].credits \in Nat
      BY <1>1, CreditsAssumption DEF PayInv, PayRowsOK, PayRow
    <2>2. /\ SumAmountByTypeRef(pay[c].account, "grant_payment", c) = Granted(pay[c].account, c)
          /\ SumAmountByTypeRef(pay[c].account, "reverse_payment", c) = -TakenBack(pay[c].account, c)
      BY <2>1 DEF GrantInv, ReverseInv
    <2>3. CASE FactsOf(c) = {}
      <3>1. TakenBack(pay[c].account, c) = 0
        BY <2>3 DEF TakenBack
      <3>2. Reversed(c) = 0
        BY <2>2, <3>1 DEF Reversed
      <3>3. Granted(pay[c].account, c) \in Nat
        BY <2>1 DEF Granted
      <3> QED
        BY <2>2, <2>3, <3>2, <3>3
    <2>4. CASE FactsOf(c) # {}
      <3>1. PICK f \in fact : f.code = c
        BY <2>4 DEF FactsOf
      <3>2. pay[c].status = "paid" /\ order[c].state = "captured"
        BY <3>1 DEF PayInv, FactsInv, FactInv, CodesInv, CodeInv
      <3>3. AmountPaid(c) \in Nat \ {0} /\ RefundedAmount(c) \in Nat
        BY <3>2, OrderMoney DEF PayInv, CodesInv
      <3>4. RefundsWithin(FactsOf(c), AmountPaid(c)) /\ RefundsWithin(FactsOf(c), RefundedAmount(c))
        BY <3>2, FactsWithin DEF PayInv
      <3>5. PICK t : t = Target(pay[c], FactsOf(c), AmountPaid(c))
        OBVIOUS
      <3>6. PICK m : m = MaxRefunded(FactsOf(c))
        OBVIOUS
      <3>7. /\ t \in 0 .. pay[c].credits
            /\ ~HasDispute(FactsOf(c)) => t * AmountPaid(c) <= pay[c].credits * m
        BY <2>1, <3>3, <3>4, <3>5, <3>6, TargetWithin
      <3>8. m \in Nat /\ m <= RefundedAmount(c)
        BY <3>3, <3>4, <3>6, LargestRefund
      <3>9. pay[c].credits * m \in Nat /\ pay[c].credits * m <= pay[c].credits * RefundedAmount(c)
        BY <2>1, <3>3, <3>8, ProductGrows
      <3>10. t \in Nat /\ t <= pay[c].credits
        BY <2>1, <3>7
      <3>11. TakenBack(pay[c].account, c) = t /\ Granted(pay[c].account, c) = pay[c].credits
        BY <1>1, <2>4, <3>2, <3>5 DEF TakenBack, Granted
      <3>12. Reversed(c) = t
        BY <2>2, <3>10, <3>11 DEF Reversed
      <3>13. ~order[c].disputed => ~HasDispute(FactsOf(c))
        BY DEF HasDispute, FactsOf, PayInv, FactsInv, FactInv
      <3>14. ~order[c].disputed => t * AmountPaid(c) <= pay[c].credits * RefundedAmount(c)
        <4>1. t * AmountPaid(c) \in Nat /\ pay[c].credits * RefundedAmount(c) \in Nat
          BY <2>1, <3>3, <3>10
        <4> QED
          BY <3>7, <3>9, <3>13, <4>1
      <3> QED
        BY <2>2, <2>4, <3>5, <3>10, <3>11, <3>12, <3>14
    <2> QED
      BY <2>3, <2>4
  <1> QED
    BY <1>1 DEF ReversedAsRefunded, ReversedToTarget, NeverOverReversed

\* The invariants hold.
LEMMA PayInvariant == PaySpec => [](PayInv /\ LedgerInv /\ GrantInv /\ ReverseInv)
  <1>1. PayInit => PayInv /\ LedgerInv /\ GrantInv /\ ReverseInv
    BY PayInvStarts, BooksStart
  <1>2. PayInv /\ LedgerInv /\ GrantInv /\ ReverseInv /\ [PayNext]_payVars
          => PayInv' /\ LedgerInv' /\ GrantInv' /\ ReverseInv'
    BY PayInvStep, BooksStep
  <1> QED
    BY <1>1, <1>2, PTL DEF PaySpec

\* However often, however concurrently and after whatever crash checkout.completed is handled, a payment's
\* credits are granted once, to the account and at the amount it was made with, for a charge of the recorded price;
\* a payment that failed is never charged; and every balance is the sum of the ledger's rows.
THEOREM PaymentsCreditedOnce == PaySpec => []CreditedOnce
  <1>1. PayInv /\ LedgerInv /\ GrantInv => CreditedOnce
    BY CreditedFollows
  <1> QED
    BY <1>1, PayInvariant, PTL

\* The credits taken back are what the recorded facts demand, in whatever order and however often the provider
\* tells of refunds and disputes; no more than was granted, and short of a dispute no more than was refunded.
THEOREM ReversalsFollowRefunds == PaySpec => []ReversedAsRefunded
  <1>1. PayInv /\ LedgerInv /\ GrantInv /\ ReverseInv => ReversedAsRefunded
    BY ReversedFollows
  <1> QED
    BY <1>1, PayInvariant, PTL

-----------------------------------------------------------------------------
(* The cached settings.                                                    *)

\* What the settings served stay.
LEMMA ServedIsSaved ==
  ASSUME SettingsTypeOK, FreshIsSaved, NEW st \in Served, CreemSettings(st), UNCHANGED <<settings, saving, encKey>>
  PROVE  FreshIsSaved'
  <1>1. LoadCreemSettings' = LoadCreemSettings
    BY DEF LoadCreemSettings
  <1> QED
    BY <1>1 DEF CreemSettings, FreshIsSaved

\* Every step keeps a fresh snapshot the saved row, or knows of a save that has yet to invalidate it.
LEMMA FreshStep ==
  ASSUME SettingsTypeOK, FreshIsSaved, [PayNext]_payVars
  PROVE  FreshIsSaved'
  <1>1. UNCHANGED <<settings, cache, saving, encKey>> => FreshIsSaved'
    BY DEF FreshIsSaved, LoadCreemSettings
  <1>2. ASSUME NEW in \in Inputs, SaveCreemSettings(in)
        PROVE  FreshIsSaved'
    <2>1. saving' = saving + 1 /\ saving \in Nat
      BY <1>2 DEF SaveCreemSettings, SettingsTypeOK
    <2>2. saving' # 0
      BY <2>1
    <2> QED
      BY <2>2 DEF FreshIsSaved
  <1>3. ASSUME InvalidateCreemSettings \/ CacheExpires
        PROVE  FreshIsSaved'
    <2>1. cache'.fresh = FALSE
      BY <1>3 DEF InvalidateCreemSettings, CacheExpires, SettingsTypeOK
    <2> QED
      BY <2>1 DEF FreshIsSaved
  <1>4. CASE ReadCreemSettings
    BY <1>4, ServedIsSaved DEF ReadCreemSettings
  <1>5. ASSUME NEW k \in EncKeys, Restart(k)
        PROVE  FreshIsSaved'
    BY <1>5 DEF Restart, FreshIsSaved
  <1>6. ASSUME NEW c \in Codes, NEW a \in Accounts, StartCreemCheckout(c, a)
        PROVE  FreshIsSaved'
    BY <1>6, ServedIsSaved DEF StartCreemCheckout
  <1>7. ASSUME NEW c \in Codes,
               \/ CreateCheckout(c) \/ CheckoutUnreachable(c) \/ CheckoutRejected(c) \/ FailPayment(c)
               \/ Capture(c) \/ Dispute(c) \/ \E r \in Refunds : Refund(c, r)
        PROVE  UNCHANGED <<settings, cache, saving, encKey>>
    BY <1>7 DEF CreateCheckout, CheckoutUnreachable, CheckoutRejected, FailPayment, Capture, Dispute, Refund,
                setVars
  <1>8. ASSUME NEW p \in Products, ChangePrice(p)
        PROVE  UNCHANGED <<settings, cache, saving, encKey>>
    BY <1>8 DEF ChangePrice, setVars
  <1>9. ASSUME NEW w \in Workers,
               \/ \E ev \in Events : ReceiveWebhook(w, ev)
               \/ ReconcileCreemCompletion(w) \/ AuthoritativePaymentTransaction(w)
        PROVE  FreshIsSaved'
    BY <1>9, ServedIsSaved DEF ReceiveWebhook, ReconcileCreemCompletion, AuthoritativePaymentTransaction
  <1>10. ASSUME NEW w \in Workers,
                \/ BindProviderOrder(w) \/ CompletePayment(w) \/ RecordPaymentAdjustment(w)
                \/ RefuseAdjustment(w) \/ WebhookFails(w)
         PROVE  UNCHANGED <<settings, cache, saving, encKey>>
    BY <1>10 DEF BindProviderOrder, CompletePayment, RecordPaymentAdjustment, RefuseAdjustment, WebhookFails,
                 setVars
  <1>11. UNCHANGED payVars => UNCHANGED <<settings, cache, saving, encKey>>
    BY DEF payVars, setVars
  <1> QED
    BY <1>1, <1>2, <1>3, <1>4, <1>5, <1>6, <1>7, <1>8, <1>9, <1>10, <1>11 DEF PayNext, WebhookStep

\* Once the administrator's save has been answered, a process whose snapshot is fresh serves the saved settings,
\* however reads, saves, expiries and restarts interleave with the invalidation.
THEOREM SettingsServedAreSaved == PaySpec => []FreshIsSaved
  <1>1. PayInit => FreshIsSaved
    BY DEF PayInit, FreshIsSaved
  <1>2. PayInv /\ FreshIsSaved /\ [PayNext]_payVars => FreshIsSaved'
    BY FreshStep DEF PayInv
  <1> QED
    BY <1>1, <1>2, PayInvariant, PTL DEF PaySpec

-----------------------------------------------------------------------------
(* Redemptions.                                                            *)

RedeemRow ==
    [step : {"idle"}]
    \cup [step : {"begin", "begun"}, account : Accounts, key : Keys, product : Rewards]
    \cup [step : {"locked", "refused"}, account : Accounts, key : Keys, product : Rewards, cost : RewardPrices]

RedeemTypeOK ==
    /\ product \in [Rewards -> ProductRow \cup {NoRow}]
    /\ redemption \in [Redeemed -> RedemptionRow \cup {NoRow}]
    /\ redeem \in [Requests -> RedeemRow]

\* A request knows a product, and while it has locked it, its price.
RequestInv(q) ==
    LET x == redeem[q]
    IN  /\ x.step # "idle" => product[x.product] # NoRow
        /\ x.step = "locked" => product[x.product].status = "active" /\ product[x.product].price = x.cost

\* UNIQUE (bot_id, request_key).
KeysUnique ==
    \A r, s \in Rows :
        redemption[r].account = redemption[s].account /\ redemption[r].key = redemption[s].key => r = s

\* An answer names a redemption of its account, key and product.
AnswerInv(x) ==
    /\ x.code \in Redeemed /\ redemption[x.code] # NoRow
    /\ redemption[x.code].account = x.account /\ redemption[x.code].key = x.key
    /\ redemption[x.code].product = x.product

\* What no step takes back.
RowStays(r) ==
    redemption[r] # NoRow =>
      /\ redemption'[r] # NoRow
      /\ redemption'[r].account = redemption[r].account /\ redemption'[r].key = redemption[r].key
      /\ redemption'[r].product = redemption[r].product /\ redemption'[r].cost = redemption[r].cost

RedeemInv ==
    /\ RedeemTypeOK
    /\ \A q \in Requests : RequestInv(q)
    /\ KeysUnique
    /\ \A x \in answered : AnswerInv(x)

\* Which of the records a request is in follows from its step.
LEMMA RequestCases ==
  ASSUME NEW x \in RedeemRow
  PROVE  /\ x.step \in {"idle", "begin", "begun", "locked", "refused"}
         /\ x.step # "idle" => x.account \in Accounts /\ x.key \in Keys /\ x.product \in Rewards
         /\ x.step \in {"begin", "begun"} =>
              x \in [step : {"begin", "begun"}, account : Accounts, key : Keys, product : Rewards]
         /\ x.step \in {"locked", "refused"} => x.cost \in RewardPrices
  BY DEF RedeemRow

\* A request that ends, or never was.
LEMMA RequestEnds ==
  ASSUME RedeemTypeOK, NEW q \in Requests, redeem' = [redeem EXCEPT ![q] = Idle]
  PROVE  /\ redeem' \in [Requests -> RedeemRow] /\ redeem'[q].step = "idle"
         /\ \A p \in Requests \ {q} : redeem'[p] = redeem[p]
  <1>1. Idle \in RedeemRow /\ Idle.step = "idle"
    BY DEF Idle, RedeemRow
  <1> QED
    BY <1>1 DEF RedeemTypeOK

\* Rows that stay keep keys unique and answers right.
LEMMA RowsStay ==
  ASSUME RedeemInv, \A r \in Redeemed : RowStays(r),
         \A r \in Redeemed : redemption[r] = NoRow => redemption'[r] = NoRow
  PROVE  KeysUnique' /\ \A x \in answered : AnswerInv(x)'
  <1>1. KeysUnique'
    BY DEF KeysUnique, Rows, RowStays, RedeemInv
  <1>2. ASSUME NEW x \in answered PROVE AnswerInv(x)'
    <2>1. AnswerInv(x)
      BY DEF RedeemInv
    <2> QED
      BY <2>1 DEF AnswerInv, RowStays
  <1> QED
    BY <1>1, <1>2

\* A replay is answered with the redemption of its key.
LEMMA ReplayAnswers ==
  ASSUME NEW a, NEW k, NEW p, ResolveReplay(a, k, p), RedeemInv
  PROVE  \A x \in answered' : AnswerInv(x)
  <1>1. PICK r \in ByKey(a, k) :
          IF product[p] # NoRow /\ redemption[r].product = p
          THEN Answered(a, k, p, r) ELSE UNCHANGED answered
    BY DEF ResolveReplay
  <1>2. r \in Redeemed /\ redemption[r] # NoRow /\ redemption[r].account = a /\ redemption[r].key = k
    BY DEF ByKey, Rows
  <1>3. CASE redemption[r].product = p /\ Answered(a, k, p, r)
    <2>1. answered' = answered \cup {[account |-> a, key |-> k, product |-> p, code |-> r]}
      BY <1>3 DEF Answered
    <2>2. AnswerInv([account |-> a, key |-> k, product |-> p, code |-> r])
      BY <1>2, <1>3 DEF AnswerInv
    <2> QED
      BY <2>1, <2>2 DEF RedeemInv
  <1>4. CASE UNCHANGED answered
    BY <1>4 DEF RedeemInv
  <1> QED
    BY <1>1, <1>3, <1>4

\* The administration of products: no request holds the row that changes.
LEMMA ProductKeeps ==
  ASSUME RedeemInv, NEW p \in Rewards,
         CreateProduct(p) \/ UpdateProduct(p) \/ \E s \in {"active", "inactive"} : SetProductStatus(p, s)
  PROVE  RedeemInv' /\ UNCHANGED <<redemption, balance, ledger>>
  <1>1. UNCHANGED <<redemption, redeem, answered, balance, ledger>>
    BY DEF CreateProduct, UpdateProduct, SetProductStatus
  <1>2. \E n \in ProductRow : product' = [product EXCEPT ![p] = n]
    <2>1. CASE CreateProduct(p)
      BY <2>1 DEF CreateProduct, ProductRow
    <2>2. CASE UpdateProduct(p)
      <3>1. PICK v \in RewardPrices : product' = [product EXCEPT ![p].price = v]
        BY <2>2 DEF UpdateProduct
      <3>2. product[p] \in ProductRow
        BY <2>2 DEF UpdateProduct, RedeemInv, RedeemTypeOK
      <3>3. [product[p] EXCEPT !.price = v] \in ProductRow
        BY <3>2 DEF ProductRow
      <3>4. product' = [product EXCEPT ![p] = [product[p] EXCEPT !.price = v]]
        BY <3>1 DEF RedeemInv, RedeemTypeOK
      <3> QED
        BY <3>3, <3>4
    <2>3. ASSUME NEW s \in {"active", "inactive"}, SetProductStatus(p, s)
          PROVE  \E n \in ProductRow : product' = [product EXCEPT ![p] = n]
      <3>1. product' = [product EXCEPT ![p].status = s]
        BY <2>3 DEF SetProductStatus
      <3>2. product[p] \in ProductRow
        BY <2>3 DEF SetProductStatus, RedeemInv, RedeemTypeOK
      <3>3. [product[p] EXCEPT !.status = s] \in ProductRow
        BY <3>2 DEF ProductRow
      <3>4. product' = [product EXCEPT ![p] = [product[p] EXCEPT !.status = s]]
        BY <3>1 DEF RedeemInv, RedeemTypeOK
      <3> QED
        BY <3>3, <3>4
    <2> QED
      BY <2>1, <2>2, <2>3
  <1>3. PICK n \in ProductRow : product' = [product EXCEPT ![p] = n]
    BY <1>2
  <1>4. /\ product' \in [Rewards -> ProductRow \cup {NoRow}]
        /\ product'[p] # NoRow /\ \A o \in Rewards \ {p} : product'[o] = product[o]
    BY <1>3, NoRowAssumption DEF RedeemInv, RedeemTypeOK
  <1>5. product[p] # NoRow => ProductFree(p)
    BY DEF CreateProduct, UpdateProduct, SetProductStatus
  <1>6. ASSUME NEW q \in Requests PROVE RequestInv(q)'
    <2>1. RequestInv(q) /\ redeem[q] \in RedeemRow
      BY DEF RedeemInv, RedeemTypeOK
    <2>2. redeem[q].step # "idle" => redeem[q].product \in Rewards
      BY <2>1, RequestCases
    <2>3. redeem[q].step = "locked" => redeem[q].product # p
      BY <1>5, <2>1 DEF ProductFree, RequestInv
    <2> QED
      BY <1>1, <1>4, <2>1, <2>2, <2>3 DEF RequestInv
  <1>7. KeysUnique' /\ \A x \in answered' : AnswerInv(x)'
    BY <1>1, RowsStay DEF RowStays, RedeemInv, KeysUnique, Rows, AnswerInv
  <1> QED
    BY <1>1, <1>4, <1>6, <1>7 DEF RedeemInv, RedeemTypeOK

\* The steps of a request that write nothing but their request and its answer.
LEMMA RequestKeeps ==
  ASSUME RedeemInv, NEW q \in Requests,
         \/ \E a \in Accounts, k \in Keys, p \in Rewards : Redeem(q, a, k, p) \/ RedeemReplay(q, a, k, p)
         \/ RedeemBegin(q) \/ RedeemLock(q) \/ RedeemRefused(q) \/ RedeemConflict(q) \/ RedeemFails(q)
  PROVE  RedeemInv' /\ UNCHANGED <<redemption, balance, ledger>>
  <1>1. UNCHANGED <<product, redemption, balance, ledger>>
    BY DEF Redeem, RedeemReplay, RedeemBegin, RedeemLock, RedeemRefused, RedeemConflict, RedeemFails
  <1>2. \A x \in answered' : AnswerInv(x)
    <2>1. \/ UNCHANGED answered
          \/ \E a, k, p : ResolveReplay(a, k, p)
      BY DEF Redeem, RedeemReplay, RedeemBegin, RedeemLock, RedeemRefused, RedeemConflict, RedeemFails
    <2> QED
      BY <2>1, ReplayAnswers DEF RedeemInv
  <1>3. KeysUnique' /\ \A x \in answered' : AnswerInv(x)'
    BY <1>1, <1>2 DEF RedeemInv, KeysUnique, Rows, AnswerInv
  <1>4. ASSUME redeem' \in [Requests -> RedeemRow], RequestInv(q)', \A p \in Requests \ {q} : redeem'[p] = redeem[p]
        PROVE  RedeemInv'
    <2>1. \A p \in Requests \ {q} : RequestInv(p)'
      BY <1>1, <1>4 DEF RedeemInv, RequestInv
    <2> QED
      BY <1>1, <1>3, <1>4, <2>1 DEF RedeemInv, RedeemTypeOK
  <1>5. ASSUME NEW a \in Accounts, NEW k \in Keys, NEW p \in Rewards, Redeem(q, a, k, p)
        PROVE  RedeemInv'
    <2> DEFINE x == [step |-> "begin", account |-> a, key |-> k, product |-> p]
    <2>1. redeem' = [redeem EXCEPT ![q] = x] /\ product[p] # NoRow
      BY <1>5 DEF Redeem
    <2>2. x \in RedeemRow /\ x.step = "begin" /\ x.product = p
      BY DEF RedeemRow
    <2> HIDE DEF x
    <2>3. /\ redeem' \in [Requests -> RedeemRow] /\ redeem'[q] = x
          /\ \A o \in Requests \ {q} : redeem'[o] = redeem[o]
      BY <2>1, <2>2 DEF RedeemInv, RedeemTypeOK
    <2>4. RequestInv(q)'
      BY <1>1, <2>1, <2>2, <2>3 DEF RequestInv
    <2> QED
      BY <1>4, <2>3, <2>4
  <1>6. ASSUME NEW a \in Accounts, NEW k \in Keys, NEW p \in Rewards, RedeemReplay(q, a, k, p)
        PROVE  RedeemInv'
    <2>1. redeem' = redeem
      BY <1>6 DEF RedeemReplay
    <2>2. redeem' \in [Requests -> RedeemRow] /\ RequestInv(q)'
      BY <1>1, <2>1 DEF RequestInv, RedeemInv, RedeemTypeOK
    <2> QED
      BY <1>4, <2>1, <2>2
  <1>7. CASE RedeemBegin(q)
    <2>1. redeem' = [redeem EXCEPT ![q].step = "begun"] /\ redeem[q].step = "begin"
      BY <1>7 DEF RedeemBegin
    <2>2. redeem[q] \in [step : {"begin", "begun"}, account : Accounts, key : Keys, product : Rewards]
      BY <2>1, RequestCases DEF RedeemInv, RedeemTypeOK
    <2>3. /\ [redeem[q] EXCEPT !.step = "begun"] \in RedeemRow
          /\ [redeem[q] EXCEPT !.step = "begun"].product = redeem[q].product
          /\ [redeem[q] EXCEPT !.step = "begun"].step = "begun"
      BY <2>2 DEF RedeemRow
    <2>4. /\ redeem' \in [Requests -> RedeemRow] /\ redeem'[q] = [redeem[q] EXCEPT !.step = "begun"]
          /\ \A o \in Requests \ {q} : redeem'[o] = redeem[o]
      BY <2>1, <2>3 DEF RedeemInv, RedeemTypeOK
    <2>5. RequestInv(q)'
      BY <1>1, <2>1, <2>3, <2>4 DEF RequestInv, RedeemInv
    <2> QED
      BY <1>1, <1>4, <2>4, <2>5
  <1>8. CASE RedeemLock(q)
    <2> DEFINE p == redeem[q].product
               x == [step |-> IF product[p].status = "active" THEN "locked" ELSE "refused",
                     account |-> redeem[q].account, key |-> redeem[q].key, product |-> p, cost |-> product[p].price]
    <2>1. redeem' = [redeem EXCEPT ![q] = x] /\ redeem[q].step = "begun"
      BY <1>8 DEF RedeemLock, RedeemInv, RedeemTypeOK
    <2>2. redeem[q].account \in Accounts /\ redeem[q].key \in Keys /\ p \in Rewards
      BY <2>1, RequestCases DEF RedeemInv, RedeemTypeOK
    <2>3. product[p] # NoRow /\ product[p] \in ProductRow
      BY <2>1, <2>2 DEF RedeemInv, RequestInv, RedeemTypeOK
    <2>4. x \in RedeemRow /\ x.product = p /\ x.cost = product[p].price /\ x.step # "idle"
          /\ (x.step = "locked" => product[p].status = "active")
      BY <2>2, <2>3 DEF RedeemRow, ProductRow
    <2>5. PICK y \in RedeemRow : y = x
      BY <2>4
    <2>6. PICK o : o = p
      OBVIOUS
    <2>7. redeem' = [redeem EXCEPT ![q] = y] /\ product[o] # NoRow
          /\ y.product = o /\ y.cost = product[o].price /\ (y.step = "locked" => product[o].status = "active")
      BY <2>1, <2>3, <2>4, <2>5, <2>6
    <2> HIDE DEF x, p
    <2>8. /\ redeem' \in [Requests -> RedeemRow] /\ redeem'[q] = y
          /\ \A i \in Requests \ {q} : redeem'[i] = redeem[i]
      BY <2>7 DEF RedeemInv, RedeemTypeOK
    <2>9. RequestInv(q)'
      BY <1>1, <2>7, <2>8 DEF RequestInv
    <2> QED
      BY <1>1, <1>4, <2>8, <2>9
  <1>9. CASE RedeemRefused(q) \/ RedeemConflict(q) \/ RedeemFails(q)
    <2>1. redeem' = [redeem EXCEPT ![q] = Idle]
      BY <1>9 DEF RedeemRefused, RedeemConflict, RedeemFails
    <2>2. /\ redeem' \in [Requests -> RedeemRow] /\ redeem'[q].step = "idle"
          /\ \A o \in Requests \ {q} : redeem'[o] = redeem[o]
      BY <2>1, RequestEnds DEF RedeemInv
    <2>3. RequestInv(q)'
      BY <2>2 DEF RequestInv
    <2> QED
      BY <1>1, <1>4, <2>2, <2>3
  <1> QED
    BY <1>1, <1>5, <1>6, <1>7, <1>8, <1>9

\* A commit: the row, the charge and the answer in one transaction.
LEMMA CommitKeeps ==
  ASSUME RedeemInv, LedgerInv, ChargedAndRefundedOnce, NEW q \in Requests, NEW r \in Redeemed, RedeemCommit(q, r)
  PROVE  /\ RedeemInv' /\ ChargedAndRefundedOnce'
         /\ \E a \in Accounts, n \in RewardPrices : Record(a, "spend_redemption", r, -n)
  <1> DEFINE x == redeem[q]
             n == [account |-> x.account, key |-> x.key, product |-> x.product, cost |-> x.cost,
                   status |-> "pending_review"]
  <1>1. /\ x.step = "locked" /\ redemption[r] = NoRow /\ ByKey(x.account, x.key) = {}
        /\ Record(x.account, "spend_redemption", r, -x.cost)
        /\ redemption' = [redemption EXCEPT ![r] = n]
        /\ redeem' = [redeem EXCEPT ![q] = Idle]
        /\ answered' = answered \cup {[account |-> x.account, key |-> x.key, product |-> x.product, code |-> r]}
        /\ product' = product
    BY DEF RedeemCommit, Answered
  <1>2. x.account \in Accounts /\ x.key \in Keys /\ x.product \in Rewards /\ x.cost \in RewardPrices
    BY <1>1, RequestCases DEF RedeemInv, RedeemTypeOK
  <1>3. n \in RedemptionRow /\ n # NoRow
    <2>1. n \in RedemptionRow
      BY <1>2 DEF RedemptionRow
    <2> QED
      BY <2>1, NoRowAssumption
  <1>4. n.account = x.account /\ n.key = x.key /\ n.product = x.product /\ n.cost = x.cost
        /\ n.status = "pending_review"
    OBVIOUS
  <1>5. PICK a \in Accounts : a = x.account
    BY <1>2
  <1>6. PICK k \in Keys : k = x.key
    BY <1>2
  <1>7. PICK p \in Rewards : p = x.product
    BY <1>2
  <1>8. PICK v \in RewardPrices : v = x.cost
    BY <1>2
  <1>9. PICK m \in RedemptionRow : m = n /\ m # NoRow
    BY <1>3
  <1>10. /\ m.account = a /\ m.key = k /\ m.product = p /\ m.cost = v /\ m.status = "pending_review"
    BY <1>4, <1>5, <1>6, <1>7, <1>8, <1>9
  <1>11. /\ redemption[r] = NoRow /\ ByKey(a, k) = {} /\ Record(a, "spend_redemption", r, -v)
         /\ redemption' = [redemption EXCEPT ![r] = m] /\ redeem' = [redeem EXCEPT ![q] = Idle]
         /\ answered' = answered \cup {[account |-> a, key |-> k, product |-> p, code |-> r]}
         /\ product' = product
    BY <1>1, <1>5, <1>6, <1>7, <1>8, <1>9
  <1> HIDE DEF x, n
  <1>12. /\ redemption' \in [Redeemed -> RedemptionRow \cup {NoRow}]
         /\ redemption'[r] = m /\ \A s \in Redeemed \ {r} : redemption'[s] = redemption[s]
    BY <1>11 DEF RedeemInv, RedeemTypeOK
  <1>13. /\ redeem' \in [Requests -> RedeemRow] /\ redeem'[q].step = "idle"
         /\ \A o \in Requests \ {q} : redeem'[o] = redeem[o]
    BY <1>11, RequestEnds DEF RedeemInv
  <1>14. \A o \in Requests : RequestInv(o)'
    BY <1>11, <1>13 DEF RequestInv, RedeemInv
  <1>15. KeysUnique'
    <2>1. ASSUME NEW s \in Redeemed \ {r}, redemption[s] # NoRow
          PROVE  ~(redemption[s].account = a /\ redemption[s].key = k)
      BY <1>11, <2>1 DEF ByKey, Rows
    <2> QED
      BY <1>10, <1>12, <2>1 DEF KeysUnique, Rows, RedeemInv
  <1>16. \A y \in answered' : AnswerInv(y)'
    <2>1. ASSUME NEW y \in answered PROVE AnswerInv(y)'
      <3>1. AnswerInv(y)
        BY DEF RedeemInv
      <3>2. y.code # r
        BY <1>11, <3>1 DEF AnswerInv
      <3> QED
        BY <1>12, <3>1, <3>2 DEF AnswerInv
    <2>2. PICK y : y = [account |-> a, key |-> k, product |-> p, code |-> r]
      OBVIOUS
    <2>3. y.account = a /\ y.key = k /\ y.product = p /\ y.code = r
      BY <2>2
    <2>4. AnswerInv(y)'
      BY <1>9, <1>10, <1>12, <2>3 DEF AnswerInv
    <2> QED
      BY <1>11, <2>1, <2>2, <2>4
  <1>17. RedeemInv'
    BY <1>11, <1>12, <1>13, <1>14, <1>15, <1>16 DEF RedeemInv, RedeemTypeOK
  <1>18. Post(a, "spend_redemption", r, -v) /\ v \in Nat
    BY <1>11, RedemptionAssumption DEF Record
  <1>19. ASSUME NEW s \in Redeemed, NEW b \in Accounts
         PROVE  LET mine == redemption'[s] # NoRow /\ redemption'[s].account = b
                IN  /\ SumAmountByTypeRef(b, "spend_redemption", s)' = IF mine THEN -redemption'[s].cost ELSE 0
                    /\ SumAmountByTypeRef(b, "refund_redemption", s)' =
                         IF mine /\ redemption'[s].status \in {"rejected", "cancelled"}
                         THEN redemption'[s].cost ELSE 0
    <2>1. /\ SumAmountByTypeRef(b, "spend_redemption", s)' =
               IF b = a /\ s = r THEN SumAmountByTypeRef(a, "spend_redemption", r) + (-v)
               ELSE SumAmountByTypeRef(b, "spend_redemption", s)
          /\ SumAmountByTypeRef(b, "refund_redemption", s)' = SumAmountByTypeRef(b, "refund_redemption", s)
      BY <1>18, PostMovesSum
    <2>2. CASE s = r
      <3>1. /\ SumAmountByTypeRef(a, "spend_redemption", r) = 0 /\ SumAmountByTypeRef(b, "spend_redemption", r) = 0
            /\ SumAmountByTypeRef(b, "refund_redemption", r) = 0
        BY <1>11 DEF ChargedAndRefundedOnce
      <3>2. 0 + (-v) = -v
        BY <1>18
      <3> QED
        BY <1>9, <1>10, <1>12, <2>1, <2>2, <3>1, <3>2
    <2>3. CASE s # r
      BY <1>12, <2>1, <2>3 DEF ChargedAndRefundedOnce
    <2> QED
      BY <2>2, <2>3
  <1>20. ChargedAndRefundedOnce'
    BY <1>19 DEF ChargedAndRefundedOnce
  <1> QED
    BY <1>11, <1>17, <1>20

\* A redemption whose status alone changes.
LEMMA StatusKeeps ==
  ASSUME RedeemInv, NEW r \in Rows, UNCHANGED <<product, redeem, answered>>,
         NEW target \in {"approved", "fulfilled", "rejected", "cancelled"},
         redemption' = [redemption EXCEPT ![r].status = target]
  PROVE  /\ RedeemInv'
         /\ redemption'[r] # NoRow /\ redemption'[r].status = target
         /\ redemption'[r].account = redemption[r].account /\ redemption'[r].cost = redemption[r].cost
         /\ \A s \in Redeemed \ {r} : redemption'[s] = redemption[s]
  <1>1. r \in Redeemed /\ redemption[r] # NoRow /\ redemption[r] \in RedemptionRow
    BY DEF Rows, RedeemInv, RedeemTypeOK
  <1>2. [redemption[r] EXCEPT !.status = target] \in RedemptionRow
    BY <1>1 DEF RedemptionRow
  <1>3. PICK m \in RedemptionRow : m = [redemption[r] EXCEPT !.status = target]
    BY <1>2
  <1>4. /\ m.status = target /\ m.account = redemption[r].account /\ m.key = redemption[r].key
        /\ m.product = redemption[r].product /\ m.cost = redemption[r].cost /\ m # NoRow
    BY <1>1, <1>3, NoRowAssumption DEF RedemptionRow
  <1>5. redemption' = [redemption EXCEPT ![r] = m]
    BY <1>3 DEF RedeemInv, RedeemTypeOK
  <1>6. /\ redemption' \in [Redeemed -> RedemptionRow \cup {NoRow}]
        /\ redemption'[r] = m /\ \A s \in Redeemed \ {r} : redemption'[s] = redemption[s]
    BY <1>1, <1>5 DEF RedeemInv, RedeemTypeOK
  <1>7. /\ \A s \in Redeemed : RowStays(s)
        /\ \A s \in Redeemed : redemption[s] = NoRow => redemption'[s] = NoRow
    BY <1>1, <1>4, <1>6 DEF RowStays
  <1>8. KeysUnique' /\ \A x \in answered : AnswerInv(x)'
    BY <1>7, RowsStay
  <1>9. \A q \in Requests : RequestInv(q)'
    BY DEF RequestInv, RedeemInv
  <1> QED
    BY <1>4, <1>6, <1>8, <1>9 DEF RedeemInv, RedeemTypeOK

\* Approval and fulfilment move no credits.
LEMMA ReviewKeeps ==
  ASSUME RedeemInv, ChargedAndRefundedOnce, NEW r \in Redeemed, ApproveRedemption(r) \/ FulfillRedemption(r)
  PROVE  RedeemInv' /\ ChargedAndRefundedOnce' /\ UNCHANGED <<balance, ledger>>
  <1>1. PICK target \in {"approved", "fulfilled"} :
          /\ r \in Rows /\ redemption[r].status \in {"pending_review", "approved"}
          /\ redemption' = [redemption EXCEPT ![r].status = target]
          /\ UNCHANGED <<product, redeem, answered, balance, ledger>>
    BY DEF ApproveRedemption, FulfillRedemption, LockTransition
  <1>2. /\ RedeemInv'
        /\ redemption'[r] # NoRow /\ redemption'[r].status = target
        /\ redemption'[r].account = redemption[r].account /\ redemption'[r].cost = redemption[r].cost
        /\ \A s \in Redeemed \ {r} : redemption'[s] = redemption[s]
    BY <1>1, StatusKeeps
  <1>3. \A a, t, s : SumAmountByTypeRef(a, t, s)' = SumAmountByTypeRef(a, t, s)
    BY <1>1 DEF SumAmountByTypeRef
  <1>4. redemption[r] # NoRow
    BY <1>1 DEF Rows
  <1> QED
    BY <1>1, <1>2, <1>3, <1>4 DEF ChargedAndRefundedOnce

\* A refusal gives the cost back once.
LEMMA RefundKeeps ==
  ASSUME RedeemInv, LedgerInv, ChargedAndRefundedOnce, NEW r \in Redeemed, RejectRedemption(r) \/ CancelRedemption(r)
  PROVE  /\ RedeemInv' /\ ChargedAndRefundedOnce'
         /\ \E a \in Accounts, n \in RewardPrices : Record(a, "refund_redemption", r, n)
  <1>1. PICK target \in {"rejected", "cancelled"} :
          /\ r \in Rows /\ redemption[r].status \in {"pending_review", "approved"}
          /\ Record(redemption[r].account, "refund_redemption", r, redemption[r].cost)
          /\ redemption' = [redemption EXCEPT ![r].status = target]
          /\ UNCHANGED <<product, redeem, answered>>
    BY DEF RejectRedemption, CancelRedemption, RefundTransition
  <1>2. /\ RedeemInv'
        /\ redemption'[r] # NoRow /\ redemption'[r].status = target
        /\ redemption'[r].account = redemption[r].account /\ redemption'[r].cost = redemption[r].cost
        /\ \A s \in Redeemed \ {r} : redemption'[s] = redemption[s]
    BY <1>1, StatusKeeps
  <1>3. redemption[r] # NoRow /\ redemption[r] \in RedemptionRow
    BY <1>1 DEF Rows, RedeemInv, RedeemTypeOK
  <1>4. PICK a \in Accounts : a = redemption[r].account
    BY <1>3 DEF RedemptionRow
  <1>5. PICK v \in RewardPrices : v = redemption[r].cost
    BY <1>3 DEF RedemptionRow
  <1>6. Record(a, "refund_redemption", r, v) /\ Post(a, "refund_redemption", r, v) /\ v \in Nat
    BY <1>1, <1>4, <1>5, RedemptionAssumption DEF Record
  <1>7. ASSUME NEW s \in Redeemed, NEW b \in Accounts
        PROVE  LET mine == redemption'[s] # NoRow /\ redemption'[s].account = b
               IN  /\ SumAmountByTypeRef(b, "spend_redemption", s)' = IF mine THEN -redemption'[s].cost ELSE 0
                   /\ SumAmountByTypeRef(b, "refund_redemption", s)' =
                        IF mine /\ redemption'[s].status \in {"rejected", "cancelled"}
                        THEN redemption'[s].cost ELSE 0
    <2>1. /\ SumAmountByTypeRef(b, "refund_redemption", s)' =
               IF b = a /\ s = r THEN SumAmountByTypeRef(a, "refund_redemption", r) + v
               ELSE SumAmountByTypeRef(b, "refund_redemption", s)
          /\ SumAmountByTypeRef(b, "spend_redemption", s)' = SumAmountByTypeRef(b, "spend_redemption", s)
      BY <1>6, PostMovesSum
    <2>2. CASE s = r
      <3>1. /\ SumAmountByTypeRef(a, "refund_redemption", r) = 0 /\ SumAmountByTypeRef(b, "refund_redemption", r) = 0
            /\ SumAmountByTypeRef(b, "spend_redemption", r) = IF b = a THEN -v ELSE 0
        BY <1>1, <1>3, <1>4, <1>5 DEF ChargedAndRefundedOnce
      <3>2. 0 + v = v
        BY <1>6
      <3> QED
        BY <1>2, <1>4, <1>5, <2>1, <2>2, <3>1, <3>2
    <2>3. CASE s # r
      BY <1>2, <2>1, <2>3 DEF ChargedAndRefundedOnce
    <2> QED
      BY <2>2, <2>3
  <1>8. ChargedAndRefundedOnce'
    BY <1>7 DEF ChargedAndRefundedOnce
  <1> QED
    BY <1>2, <1>6, <1>8

\* What a step of redemptions keeps, and what it posts.
LEMMA RewStep ==
  ASSUME RedeemInv, LedgerInv, ChargedAndRefundedOnce, RewNext
  PROVE  /\ RedeemInv' /\ ChargedAndRefundedOnce'
         /\ \/ UNCHANGED <<balance, ledger>>
            \/ \E a \in Accounts, t \in {"spend_redemption", "refund_redemption"}, r \in Redeemed, n \in Int :
                 Record(a, t, r, n)
  <1>1. ASSUME RedeemInv', UNCHANGED <<redemption, balance, ledger>>
        PROVE  ChargedAndRefundedOnce'
    BY <1>1 DEF ChargedAndRefundedOnce, SumAmountByTypeRef
  <1>2. ASSUME NEW p \in Rewards,
               CreateProduct(p) \/ UpdateProduct(p) \/ \E s \in {"active", "inactive"} : SetProductStatus(p, s)
        PROVE  RedeemInv' /\ ChargedAndRefundedOnce' /\ UNCHANGED <<balance, ledger>>
    BY <1>1, <1>2, ProductKeeps
  <1>3. ASSUME NEW q \in Requests,
               \/ \E a \in Accounts, k \in Keys, p \in Rewards : Redeem(q, a, k, p) \/ RedeemReplay(q, a, k, p)
               \/ RedeemBegin(q) \/ RedeemLock(q) \/ RedeemRefused(q) \/ RedeemConflict(q) \/ RedeemFails(q)
        PROVE  RedeemInv' /\ ChargedAndRefundedOnce' /\ UNCHANGED <<balance, ledger>>
    BY <1>1, <1>3, RequestKeeps
  <1>4. \A n \in RewardPrices : n \in Int /\ -n \in Int
    BY RedemptionAssumption
  <1>5. ASSUME NEW q \in Requests, NEW r \in Redeemed, RedeemCommit(q, r)
        PROVE  /\ RedeemInv' /\ ChargedAndRefundedOnce'
               /\ \E a \in Accounts, n \in Int : Record(a, "spend_redemption", r, n)
    BY <1>4, <1>5, CommitKeeps
  <1>6. ASSUME NEW r \in Redeemed, ApproveRedemption(r) \/ FulfillRedemption(r)
        PROVE  RedeemInv' /\ ChargedAndRefundedOnce' /\ UNCHANGED <<balance, ledger>>
    BY <1>6, ReviewKeeps
  <1>7. ASSUME NEW r \in Redeemed, RejectRedemption(r) \/ CancelRedemption(r)
        PROVE  /\ RedeemInv' /\ ChargedAndRefundedOnce'
               /\ \E a \in Accounts, n \in Int : Record(a, "refund_redemption", r, n)
    BY <1>4, <1>7, RefundKeeps
  <1>9. CASE \E p \in Rewards :
               CreateProduct(p) \/ UpdateProduct(p) \/ \E s \in {"active", "inactive"} : SetProductStatus(p, s)
    BY <1>2, <1>9
  <1>10. CASE \E q \in Requests :
               \/ \E a \in Accounts, k \in Keys, p \in Rewards : Redeem(q, a, k, p) \/ RedeemReplay(q, a, k, p)
               \/ RedeemStep(q)
               \/ RedeemFails(q)
    BY <1>3, <1>5, <1>10 DEF RedeemStep
  <1>11. CASE \E r \in Redeemed :
               ApproveRedemption(r) \/ FulfillRedemption(r) \/ RejectRedemption(r) \/ CancelRedemption(r)
    BY <1>6, <1>7, <1>11
  <1> QED
    BY <1>9, <1>10, <1>11 DEF RewNext

-----------------------------------------------------------------------------
(* Payments and redemptions together.                                      *)

\* Rows of other kinds are none of the payments' business.
LEMMA PaySumsStay ==
  ASSUME PayInv, [PayNext]_payVars, NEW a, NEW t, t \notin {"grant_payment", "reverse_payment"}, NEW r
  PROVE  SumAmountByTypeRef(a, t, r)' = SumAmountByTypeRef(a, t, r)
  <1>1. UNCHANGED <<balance, ledger>> => SumAmountByTypeRef(a, t, r)' = SumAmountByTypeRef(a, t, r)
    BY DEF SumAmountByTypeRef
  <1>2. ASSUME NEW b, NEW u \in {"grant_payment", "reverse_payment"}, NEW c, NEW n, Post(b, u, c, n)
        PROVE  SumAmountByTypeRef(a, t, r)' = SumAmountByTypeRef(a, t, r)
    BY <1>2, PostMovesSum
  <1>3. ASSUME NEW w \in Workers, RecordPaymentAdjustment(w)
        PROVE  UNCHANGED <<balance, ledger>> \/ \E b, c, n : Post(b, "reverse_payment", c, n)
    BY <1>3, AdjustmentRecorded DEF PayInv, RecordAuthoritativeReversal
  <1>4. ASSUME NEW c \in Codes, Record(pay[c].account, "grant_payment", c, pay[c].credits)
        PROVE  \E b, n : Post(b, "grant_payment", c, n)
    BY <1>4 DEF Record
  <1> QED
    BY <1>1, <1>2, <1>3, <1>4, PayPosts

\* A step of payments leaves redemptions as they are.
LEMMA PayKeepsRedemptions ==
  ASSUME PayInv, RedeemInv, ChargedAndRefundedOnce, [PayNext]_payVars, UNCHANGED rewVars
  PROVE  RedeemInv' /\ ChargedAndRefundedOnce'
  <1>1. UNCHANGED <<product, redemption, redeem, answered>>
    BY DEF rewVars
  <1>2. RedeemInv'
    BY <1>1 DEF RedeemInv, RedeemTypeOK, RequestInv, KeysUnique, Rows, AnswerInv
  <1>3. \A a, r : /\ SumAmountByTypeRef(a, "spend_redemption", r)' = SumAmountByTypeRef(a, "spend_redemption", r)
                  /\ SumAmountByTypeRef(a, "refund_redemption", r)' = SumAmountByTypeRef(a, "refund_redemption", r)
    BY PaySumsStay
  <1>4. ChargedAndRefundedOnce'
    BY <1>1, <1>3 DEF ChargedAndRefundedOnce
  <1> QED
    BY <1>2, <1>4

\* A step of redemptions leaves payments as they are.
LEMMA RedemptionsKeepPay ==
  ASSUME PayInv, FreshIsSaved, UNCHANGED payOnly
  PROVE  /\ PayInv' /\ FreshIsSaved'
         /\ \A d \in Codes, a \in Accounts : Granted(a, d)' = Granted(a, d) /\ TakenBack(a, d)' = TakenBack(a, d)
  <1>1. UNCHANGED <<settings, cache, saving, encKey, pay, checkout, price, order, hook, fact, count>>
    BY DEF payOnly, setVars, provVars
  <1>2. SettingsTypeOK' /\ PayRowsOK' /\ HookRowsOK'
    BY <1>1 DEF PayInv, SettingsTypeOK, SettingsOK, PayRowsOK, HookRowsOK
  <1>3. \A c \in Codes : RefundedAmount(c)' = RefundedAmount(c) /\ AmountPaid(c)' = AmountPaid(c)
    BY <1>1 DEF RefundedAmount, AmountPaid
  <1>4. CodesInv'
    BY <1>1, <1>3 DEF PayInv, CodesInv, CodeInv
  <1>5. HooksInv'
    BY <1>1 DEF PayInv, HooksInv, HookInv, RefundedAmount, AmountPaid
  <1>6. FactsInv'
    BY <1>1 DEF PayInv, FactsInv, FactInv, RefundedAmount
  <1>7. FreshIsSaved'
    BY <1>1 DEF FreshIsSaved, LoadCreemSettings
  <1>8. \A d \in Codes : FactsOf(d)' = FactsOf(d)
    BY <1>1 DEF FactsOf
  <1>9. \A d \in Codes, a \in Accounts : Granted(a, d)' = Granted(a, d) /\ TakenBack(a, d)' = TakenBack(a, d)
    BY <1>1, <1>3, <1>8 DEF Granted, TakenBack
  <1> QED
    BY <1>2, <1>4, <1>5, <1>6, <1>7, <1>9 DEF PayInv

MoneyInv ==
    /\ PayInv /\ LedgerInv /\ GrantInv /\ ReverseInv /\ FreshIsSaved
    /\ RedeemInv /\ ChargedAndRefundedOnce

LEMMA MoneyInvStarts ==
  ASSUME MoneyInit
  PROVE  MoneyInv
  <1>1. PayInit /\ RewInit
    BY DEF MoneyInit
  <1>2. FreshIsSaved
    BY <1>1 DEF PayInit, FreshIsSaved
  <1>3. redeem \in [Requests -> RedeemRow] /\ \A q \in Requests : redeem[q].step = "idle"
    BY <1>1 DEF RewInit, Idle, RedeemRow
  <1>4. RedeemInv
    BY <1>1, <1>3 DEF RewInit, RedeemInv, RedeemTypeOK, RequestInv, KeysUnique, Rows
  <1>5. ASSUME NEW a, NEW r
        PROVE  SumAmountByTypeRef(a, "spend_redemption", r) = 0 /\ SumAmountByTypeRef(a, "refund_redemption", r) = 0
    BY <1>1 DEF PayInit, CreditsInit, SumAmountByTypeRef
  <1>6. ChargedAndRefundedOnce
    BY <1>1, <1>5 DEF RewInit, ChargedAndRefundedOnce
  <1> QED
    BY <1>1, <1>2, <1>4, <1>6, PayInvStarts, BooksStart DEF MoneyInv

LEMMA MoneyInvStep ==
  ASSUME MoneyInv, [MoneyNext]_moneyVars
  PROVE  MoneyInv'
  <1>1. ASSUME [PayNext]_payVars, UNCHANGED rewVars
        PROVE  MoneyInv'
    <2>1. PayInv' /\ LedgerInv' /\ GrantInv' /\ ReverseInv' /\ FreshIsSaved'
      BY <1>1, PayInvStep, BooksStep, FreshStep DEF MoneyInv, PayInv
    <2>2. RedeemInv' /\ ChargedAndRefundedOnce'
      BY <1>1, PayKeepsRedemptions DEF MoneyInv
    <2> QED
      BY <2>1, <2>2 DEF MoneyInv
  <1>2. ASSUME RewNext, UNCHANGED payOnly
        PROVE  MoneyInv'
    <2>1. RedeemInv' /\ ChargedAndRefundedOnce'
      BY <1>2, RewStep DEF MoneyInv
    <2>2. \/ UNCHANGED <<balance, ledger>>
          \/ \E a \in Accounts, t \in {"spend_redemption", "refund_redemption"}, r \in Redeemed, n \in Int :
               Record(a, t, r, n)
      BY <1>2, RewStep DEF MoneyInv
    <2>3. /\ PayInv' /\ FreshIsSaved'
          /\ \A d \in Codes, a \in Accounts : Granted(a, d)' = Granted(a, d) /\ TakenBack(a, d)' = TakenBack(a, d)
      BY <1>2, RedemptionsKeepPay DEF MoneyInv
    <2>4. /\ LedgerInv'
          /\ \A d, a : /\ SumAmountByTypeRef(a, "grant_payment", d)' = SumAmountByTypeRef(a, "grant_payment", d)
                       /\ SumAmountByTypeRef(a, "reverse_payment", d)' = SumAmountByTypeRef(a, "reverse_payment", d)
      <3>1. CASE UNCHANGED <<balance, ledger>>
        BY <3>1, UntouchedLedger DEF MoneyInv, SumAmountByTypeRef
      <3>2. ASSUME NEW a \in Accounts, NEW t \in {"spend_redemption", "refund_redemption"}, NEW r \in Redeemed,
                   NEW n \in Int, Record(a, t, r, n)
            PROVE  /\ LedgerInv'
                   /\ \A d, b : /\ SumAmountByTypeRef(b, "grant_payment", d)' = SumAmountByTypeRef(b, "grant_payment", d)
                                /\ SumAmountByTypeRef(b, "reverse_payment", d)'
                                     = SumAmountByTypeRef(b, "reverse_payment", d)
        <4>1. Post(a, t, r, n) /\ checkAdd(a, n)
          BY <3>2 DEF Record, CanRecord
        <4>2. LedgerInv'
          BY <4>1, RecordKeepsLedger DEF MoneyInv
        <4> QED
          BY <4>1, <4>2, PostMovesSum
      <3> QED
        BY <2>2, <3>1, <3>2
    <2>5. GrantInv' /\ ReverseInv'
      BY <2>3, <2>4 DEF MoneyInv, GrantInv, ReverseInv
    <2> QED
      BY <2>1, <2>3, <2>4, <2>5 DEF MoneyInv
  <1>3. CASE UNCHANGED moneyVars
    <2>1. UNCHANGED payVars /\ UNCHANGED rewVars
      BY <1>3 DEF moneyVars
    <2> QED
      BY <1>1, <2>1
  <1> QED
    BY <1>1, <1>2, <1>3 DEF MoneyNext

LEMMA MoneyInvariant == MoneySpec => []MoneyInv
  BY MoneyInvStarts, MoneyInvStep, PTL DEF MoneySpec

\* A row that a balance has to cover creates no debt.
LEMMA CoveredNoDebt ==
  ASSUME LedgerInv, NEW b \in Accounts, NEW t, NEW r, NEW n \in Int, Record(b, t, r, n), NEW a \in Accounts
  PROVE  ~(balance'[a] < balance[a] /\ balance'[a] < 0)
  <1>1. /\ balance'[b] = balance[b] + n /\ \A d \in Accounts \ {b} : balance'[d] = balance[d]
        /\ balance[a] \in Int /\ balance[b] \in Int
    BY PostKeepsType DEF LedgerInv, Record, LedgerTypeOK
  <1>2. n < 0 => balance[b] + n >= 0
    BY DEF Record, CanRecord
  <1>3. CASE a = b
    BY <1>1, <1>2, <1>3
  <1>4. CASE a # b
    BY <1>1, <1>4
  <1> QED
    BY <1>3, <1>4

\* What an adjustment takes back is a number.
LEMMA DeltaIsInt ==
  ASSUME PayInv, LedgerInv, NEW c \in Codes, pay[c] # None, pay[c] \in PayRow, order[c].state = "captured",
         NEW rows, RefundsWithin(rows, RefundedAmount(c))
  PROVE  Target(pay[c], rows, AmountPaid(c)) - Reversed(c) \in Int
  <1>1. /\ AmountPaid(c) \in Nat \ {0} /\ RefundedAmount(c) \in Nat /\ RefundedAmount(c) <= AmountPaid(c)
    BY OrderMoney DEF PayInv, CodesInv, CodeInv
  <1>2. RefundsWithin(rows, AmountPaid(c))
    BY <1>1 DEF RefundsWithin
  <1>3. Target(pay[c], rows, AmountPaid(c)) \in 0 .. pay[c].credits /\ pay[c].credits \in Nat
    BY <1>1, <1>2, TargetWithin, CreditsAssumption DEF PayRow
  <1>4. Reversed(c) \in Int
    BY SumType DEF Reversed, LedgerInv
  <1> QED
    BY <1>3, <1>4

\* Only a reversal creates or deepens a debt.
LEMMA DebtStep ==
  ASSUME MoneyInv, [MoneyNext]_moneyVars, NEW a \in Accounts, balance'[a] < balance[a], balance'[a] < 0
  PROVE  \E c \in Codes : SumAmountByTypeRef(a, "reverse_payment", c)' < SumAmountByTypeRef(a, "reverse_payment", c)
  <1>1. balance[a] \in Int /\ LedgerInv /\ PayInv
    BY DEF MoneyInv, LedgerInv, LedgerTypeOK
  <1>2. ~ UNCHANGED <<balance, ledger>>
    BY <1>1
  <1>3. CASE [PayNext]_payVars
    <2>1. ASSUME NEW c \in Codes, pay[c] \in PayRow, Record(pay[c].account, "grant_payment", c, pay[c].credits)
          PROVE  FALSE
      <3>1. pay[c].account \in Accounts /\ pay[c].credits \in Int
        BY <2>1, CreditsAssumption DEF PayRow
      <3> QED
        BY <1>1, <2>1, <3>1, CoveredNoDebt
    <2>2. PICK w \in Workers : RecordPaymentAdjustment(w)
      BY <1>1, <1>2, <1>3, <2>1, PayPosts
    <2>3. PICK c \in Codes :
             /\ pay[c] # None /\ pay[c] \in PayRow /\ order[c].state = "captured"
             /\ RefundsWithin(FactsOf(c)', RefundedAmount(c))
             /\ LET delta == Target(pay[c], FactsOf(c)', AmountPaid(c)) - Reversed(c)
                IN  IF delta > 0
                    THEN RecordAuthoritativeReversal(pay[c].account, "reverse_payment", c, -delta)
                    ELSE UNCHANGED <<balance, ledger>>
      BY <1>1, <2>2, AdjustmentRecorded DEF PayInv
    <2>11. Target(pay[c], FactsOf(c)', AmountPaid(c)) - Reversed(c) \in Int
      BY <1>1, <2>3, DeltaIsInt
    <2>4. PICK n \in Int : n = -(Target(pay[c], FactsOf(c)', AmountPaid(c)) - Reversed(c))
      BY <2>11
    <2>5. RecordAuthoritativeReversal(pay[c].account, "reverse_payment", c, n)
      BY <1>2, <2>3, <2>4
    <2>6. n < 0 /\ Post(pay[c].account, "reverse_payment", c, n)
      BY <2>5 DEF RecordAuthoritativeReversal, CanReverse
    <2>7. pay[c].account \in Accounts
      BY <2>3 DEF PayRow
    <2>8. a = pay[c].account
      <3>1. a # pay[c].account => balance'[a] = balance[a]
        BY <1>1, <2>6, <2>7 DEF Post, LedgerInv, LedgerTypeOK
      <3> QED
        BY <1>1, <3>1
    <2>9. balance'[a] = balance[a] + n
      BY <1>1, <2>6, <2>7, <2>8 DEF Post, LedgerInv, LedgerTypeOK
    <2>10. SumAmountByTypeRef(a, "reverse_payment", c)' = SumAmountByTypeRef(a, "reverse_payment", c) + n
      BY <2>6, <2>8, PostMovesSum
    <2>12. SumAmountByTypeRef(a, "reverse_payment", c) \in Int
      BY <1>1, SumType DEF LedgerInv
    <2> QED
      BY <2>6, <2>10, <2>12
  <1>4. CASE RewNext
    <2>1. PICK b \in Accounts, t \in {"spend_redemption", "refund_redemption"}, r \in Redeemed, n \in Int :
            Record(b, t, r, n)
      BY <1>2, <1>4, RewStep DEF MoneyInv
    <2> QED
      BY <1>1, <2>1, CoveredNoDebt
  <1>5. \/ [PayNext]_payVars
        \/ RewNext
    <2>1. UNCHANGED moneyVars => UNCHANGED payVars
      BY DEF moneyVars
    <2> QED
      BY <2>1 DEF MoneyNext
  <1> QED
    BY <1>3, <1>4, <1>5

\* A redemption comes into being locked to the price of its product.
LEMMA PriceStep ==
  ASSUME RedeemInv, [MoneyNext]_moneyVars, NEW r \in Redeemed, redemption[r] = NoRow, redemption'[r] # NoRow
  PROVE  /\ product[redemption'[r].product].status = "active"
         /\ product[redemption'[r].product].price = redemption'[r].cost
  <1>1. redemption' # redemption
    OBVIOUS
  <1>2. ASSUME NEW p \in Rewards,
               CreateProduct(p) \/ UpdateProduct(p) \/ \E s \in {"active", "inactive"} : SetProductStatus(p, s)
        PROVE  FALSE
    BY <1>1, <1>2 DEF CreateProduct, UpdateProduct, SetProductStatus
  <1>3. ASSUME NEW q \in Requests,
               \/ \E a \in Accounts, k \in Keys, p \in Rewards : Redeem(q, a, k, p) \/ RedeemReplay(q, a, k, p)
               \/ RedeemBegin(q) \/ RedeemLock(q) \/ RedeemRefused(q) \/ RedeemConflict(q) \/ RedeemFails(q)
        PROVE  FALSE
    BY <1>1, <1>3, RequestKeeps
  <1>4. ASSUME NEW s \in Redeemed,
               ApproveRedemption(s) \/ FulfillRedemption(s) \/ RejectRedemption(s) \/ CancelRedemption(s)
        PROVE  FALSE
    <2>1. s \in Rows /\ \E st : redemption' = [redemption EXCEPT ![s].status = st]
      BY <1>4 DEF ApproveRedemption, FulfillRedemption, RejectRedemption, CancelRedemption, LockTransition,
                  RefundTransition
    <2>2. redemption' \in [Redeemed -> {redemption'[s]} \cup {redemption[d] : d \in Redeemed}]
          /\ \A d \in Redeemed \ {s} : redemption'[d] = redemption[d]
      BY <2>1 DEF RedeemInv, RedeemTypeOK
    <2> QED
      BY <2>1, <2>2 DEF Rows
  <1>5. ASSUME NEW q \in Requests, NEW s \in Redeemed, RedeemCommit(q, s)
        PROVE  /\ product[redemption'[r].product].status = "active"
               /\ product[redemption'[r].product].price = redemption'[r].cost
    <2>1. redeem[q].step = "locked"
      BY <1>5 DEF RedeemCommit
    <2>2. product[redeem[q].product].status = "active" /\ product[redeem[q].product].price = redeem[q].cost
      BY <2>1 DEF RedeemInv, RequestInv
    <2>5. PICK n : n = [account |-> redeem[q].account, key |-> redeem[q].key, product |-> redeem[q].product,
                        cost |-> redeem[q].cost, status |-> "pending_review"]
      OBVIOUS
    <2>3. /\ redemption' = [redemption EXCEPT ![s] = n]
          /\ n.product = redeem[q].product /\ n.cost = redeem[q].cost
      BY <1>5, <2>5 DEF RedeemCommit
    <2>4. r = s /\ redemption'[r] = n
      BY <2>3 DEF RedeemInv, RedeemTypeOK
    <2> QED
      BY <2>2, <2>3, <2>4
  <1>6. RewNext
    <2>1. UNCHANGED moneyVars => redemption' = redemption
      BY DEF moneyVars, rewVars
    <2>2. UNCHANGED rewVars => redemption' = redemption
      BY DEF rewVars
    <2> QED
      BY <1>1, <2>1, <2>2 DEF MoneyNext
  <1> QED
    BY <1>2, <1>3, <1>4, <1>5, <1>6 DEF RewNext, RedeemStep

\* Two answers for a key name the same redemption.
LEMMA AnswersAgree ==
  ASSUME RedeemInv
  PROVE  OneAnswerPerKey
  <1> SUFFICES ASSUME NEW x \in answered, NEW y \in answered, x.account = y.account, x.key = y.key
               PROVE  x.code = y.code /\ x.product = y.product
    BY DEF OneAnswerPerKey
  <1>1. AnswerInv(x) /\ AnswerInv(y)
    BY DEF RedeemInv
  <1>2. x.code \in Rows /\ y.code \in Rows
    BY <1>1 DEF AnswerInv, Rows
  <1>3. x.code = y.code
    BY <1>1, <1>2 DEF AnswerInv, RedeemInv, KeysUnique
  <1> QED
    BY <1>1, <1>3 DEF AnswerInv

-----------------------------------------------------------------------------
(* The refinement of CreditPromise.                                        *)

\* A row is written on one page of the books, and moves one purse by as much.
LEMMA PostIsBooked ==
  ASSUME LedgerTypeOK, NEW a \in Accounts, NEW type, NEW ref, NEW n \in Int, Post(a, type, ref, n)
  PROVE  /\ balance' = [balance EXCEPT ![a] = @ + n]
         /\ \A ids : ref \in ids =>
              /\ Booked(type, ids)' =
                   [Booked(type, ids) EXCEPT ![a][ref] = SumAmountByTypeRef(a, type, ref) + n]
              /\ Debited(type, ids)' =
                   [Debited(type, ids) EXCEPT ![a][ref] = -(SumAmountByTypeRef(a, type, ref) + n)]
         /\ \A t, ids : t # type =>
              Booked(t, ids)' = Booked(t, ids) /\ Debited(t, ids)' = Debited(t, ids)
  <1>1. \A b, t, i : SumAmountByTypeRef(b, t, i)' =
          IF b = a /\ t = type /\ i = ref THEN SumAmountByTypeRef(a, type, ref) + n ELSE SumAmountByTypeRef(b, t, i)
    BY PostMovesSum
  <1>2. balance' = [balance EXCEPT ![a] = @ + n]
    BY DEF Post
  <1>3. ASSUME NEW ids, ref \in ids
        PROVE  /\ Booked(type, ids)' =
                    [Booked(type, ids) EXCEPT ![a][ref] = SumAmountByTypeRef(a, type, ref) + n]
               /\ Debited(type, ids)' =
                    [Debited(type, ids) EXCEPT ![a][ref] = -(SumAmountByTypeRef(a, type, ref) + n)]
    BY <1>1, <1>3 DEF Booked, Debited
  <1>4. ASSUME NEW t, NEW ids, t # type
        PROVE  Booked(t, ids)' = Booked(t, ids) /\ Debited(t, ids)' = Debited(t, ids)
    BY <1>1, <1>4 DEF Booked, Debited
  <1> QED
    BY <1>2, <1>3, <1>4

\* Where nothing is posted, nothing is promised.
LEMMA NothingBooked ==
  ASSUME UNCHANGED <<balance, ledger>>
  PROVE  UNCHANGED Promise!promiseVars
  <1>1. \A b, t, i : SumAmountByTypeRef(b, t, i)' = SumAmountByTypeRef(b, t, i)
    BY DEF SumAmountByTypeRef
  <1> QED
    BY <1>1 DEF Promise!promiseVars, Booked, Debited

\* A completed payment fills the purse of its account.
LEMMA GrantFills ==
  ASSUME LedgerInv, GrantInv, NEW c \in Codes, pay[c] # None, pay[c] \in PayRow, pay[c].status = "pending",
         Record(pay[c].account, "grant_payment", c, pay[c].credits)
  PROVE  Promise!Next
  <1>1. PICK a \in Accounts : a = pay[c].account
    BY DEF PayRow
  <1>2. PICK n \in 1 .. MaxCredits : n = pay[c].credits
    BY DEF PayRow
  <1>3. n \in Int /\ Post(a, "grant_payment", c, n)
    BY <1>1, <1>2, CreditsAssumption DEF Record
  <1>4. \A b \in Accounts : SumAmountByTypeRef(b, "grant_payment", c) = 0
    BY DEF GrantInv, Granted
  <1>5. SumAmountByTypeRef(a, "grant_payment", c) + n = n
    BY <1>3, <1>4
  <1>6. Promise!Fill(a, c)
    <2>1. \A b \in Accounts : Booked("grant_payment", Codes)[b][c] = 0
      BY <1>4 DEF Booked
    <2>2. /\ Promise!Moves(a, n)
          /\ Booked("grant_payment", Codes)' = [Booked("grant_payment", Codes) EXCEPT ![a][c] = n]
          /\ Debited("reverse_payment", Codes)' = Debited("reverse_payment", Codes)
          /\ Debited("spend_redemption", Redeemed)' = Debited("spend_redemption", Redeemed)
          /\ Booked("refund_redemption", Redeemed)' = Booked("refund_redemption", Redeemed)
      BY <1>3, <1>5, PostIsBooked DEF LedgerInv, Promise!Moves
    <2> QED
      BY <2>1, <2>2 DEF Promise!Fill
  <1> QED
    BY <1>6 DEF Promise!Next

\* What an adjustment takes back is part of what was granted and not yet taken back.
LEMMA ReversalWithin ==
  ASSUME PayInv, LedgerInv, GrantInv, NEW w \in Workers, RecordPaymentAdjustment(w)
  PROVE  \/ UNCHANGED <<balance, ledger>>
         \/ \E c \in Codes, a \in Accounts :
              \E n \in 1 .. SumAmountByTypeRef(a, "grant_payment", c) + SumAmountByTypeRef(a, "reverse_payment", c) :
                Post(a, "reverse_payment", c, -n)
  <1>1. PICK c \in Codes :
           /\ pay[c] # None /\ pay[c] \in PayRow /\ pay[c].status = "paid" /\ order[c].state = "captured"
           /\ RefundsWithin(FactsOf(c)', RefundedAmount(c))
           /\ LET delta == Target(pay[c], FactsOf(c)', AmountPaid(c)) - Reversed(c)
              IN  IF delta > 0
                  THEN RecordAuthoritativeReversal(pay[c].account, "reverse_payment", c, -delta)
                  ELSE UNCHANGED <<balance, ledger>>
    BY AdjustmentRecorded DEF PayInv
  <1>2. PICK a \in Accounts : a = pay[c].account
    BY <1>1 DEF PayRow
  <1>3. PICK t : t = Target(pay[c], FactsOf(c)', AmountPaid(c))
    OBVIOUS
  <1>4. PICK g : g = pay[c].credits
    OBVIOUS
  <1>5. PICK s : s = SumAmountByTypeRef(a, "reverse_payment", c)
    OBVIOUS
  <1>6. g \in Nat /\ t \in 0 .. g
    <2>1. /\ AmountPaid(c) \in Nat \ {0} /\ RefundedAmount(c) \in Nat /\ RefundedAmount(c) <= AmountPaid(c)
      BY <1>1, OrderMoney DEF PayInv, CodesInv, CodeInv
    <2>2. RefundsWithin(FactsOf(c)', AmountPaid(c))
      BY <1>1, <2>1 DEF RefundsWithin
    <2> QED
      BY <1>1, <1>3, <1>4, <2>1, <2>2, TargetWithin, CreditsAssumption DEF PayRow
  <1>7. s \in Int /\ Reversed(c) = -s
    BY <1>2, <1>5, SumType DEF LedgerInv, Reversed
  <1>8. SumAmountByTypeRef(a, "grant_payment", c) = g
    BY <1>1, <1>2, <1>4 DEF GrantInv, Granted
  <1>9. PICK n \in Int : n = t + s
    BY <1>6, <1>7
  <1>10. t - Reversed(c) = n
    BY <1>6, <1>7, <1>9
  <1>11. IF n > 0 THEN Post(a, "reverse_payment", c, -n) ELSE UNCHANGED <<balance, ledger>>
    BY <1>1, <1>2, <1>3, <1>10 DEF RecordAuthoritativeReversal
  <1>12. CASE n > 0
    <2>1. n \in 1 .. g + s
      BY <1>6, <1>7, <1>9, <1>12
    <2> QED
      BY <1>5, <1>8, <1>11, <1>12, <2>1
  <1> QED
    BY <1>11, <1>12

\* An adjustment reverses what it was decided to take back.
LEMMA AdjustmentReverses ==
  ASSUME PayInv, LedgerInv, GrantInv, NEW w \in Workers, RecordPaymentAdjustment(w)
  PROVE  [Promise!Next]_(Promise!promiseVars)
  <1>1. CASE UNCHANGED <<balance, ledger>>
    BY <1>1, NothingBooked
  <1>2. ASSUME NEW c \in Codes, NEW a \in Accounts,
               NEW n \in 1 .. SumAmountByTypeRef(a, "grant_payment", c) + SumAmountByTypeRef(a, "reverse_payment", c),
               Post(a, "reverse_payment", c, -n)
        PROVE  Promise!Next
    <2>1. PICK g \in Int, s \in Int :
             g = SumAmountByTypeRef(a, "grant_payment", c) /\ s = SumAmountByTypeRef(a, "reverse_payment", c)
      BY SumType DEF LedgerInv
    <2>2. n \in Int /\ -n \in Int /\ g - (-s) = g + s /\ -(s + -n) = -s + n
      BY <2>1
    <2>3. n \in 1 .. g - (-s)
      BY <2>1, <2>2
    <2>4. /\ Booked("grant_payment", Codes)[a][c] = g
          /\ Debited("reverse_payment", Codes)[a][c] = -s
      BY <2>1 DEF Booked, Debited
    <2>5. /\ Promise!Moves(a, -n)
          /\ Debited("reverse_payment", Codes)' = [Debited("reverse_payment", Codes) EXCEPT ![a][c] = -(s + -n)]
          /\ Booked("grant_payment", Codes)' = Booked("grant_payment", Codes)
          /\ Debited("spend_redemption", Redeemed)' = Debited("spend_redemption", Redeemed)
          /\ Booked("refund_redemption", Redeemed)' = Booked("refund_redemption", Redeemed)
      BY <1>2, <2>1, <2>2, PostIsBooked DEF LedgerInv, Promise!Moves
    <2>6. Debited("reverse_payment", Codes)' = [Debited("reverse_payment", Codes) EXCEPT ![a][c] = @ + n]
      BY <2>2, <2>4, <2>5
    <2>7. Promise!Reverse(a, c)
      BY <2>3, <2>4, <2>5, <2>6 DEF Promise!Reverse
    <2> QED
      BY <2>7 DEF Promise!Next
  <1> QED
    BY <1>1, <1>2, ReversalWithin

\* A redemption spends its cost from a balance that covers it.
LEMMA CommitSpends ==
  ASSUME RedeemInv, LedgerInv, ChargedAndRefundedOnce, NEW q \in Requests, NEW r \in Redeemed, RedeemCommit(q, r)
  PROVE  Promise!Next
  <1>1. redemption[r] = NoRow
    BY DEF RedeemCommit
  <1>2. PICK a \in Accounts, v \in RewardPrices : Record(a, "spend_redemption", r, -v)
    BY CommitKeeps
  <1>3. v \in Nat \ {0} /\ -v \in Int /\ balance[a] \in Int
    BY RedemptionAssumption DEF LedgerInv, LedgerTypeOK
  <1>4. v \in 1 .. balance[a]
    BY <1>2, <1>3 DEF Record, CanRecord
  <1>5. \A b \in Accounts : SumAmountByTypeRef(b, "spend_redemption", r) = 0
    BY <1>1 DEF ChargedAndRefundedOnce
  <1>6. -(SumAmountByTypeRef(a, "spend_redemption", r) + -v) = v
    BY <1>3, <1>5
  <1>7. \A b \in Accounts : Debited("spend_redemption", Redeemed)[b][r] = 0
    BY <1>5 DEF Debited
  <1>8. /\ Promise!Moves(a, -v)
        /\ Debited("spend_redemption", Redeemed)' = [Debited("spend_redemption", Redeemed) EXCEPT ![a][r] = v]
        /\ Booked("grant_payment", Codes)' = Booked("grant_payment", Codes)
        /\ Debited("reverse_payment", Codes)' = Debited("reverse_payment", Codes)
        /\ Booked("refund_redemption", Redeemed)' = Booked("refund_redemption", Redeemed)
    BY <1>2, <1>3, <1>6, PostIsBooked DEF LedgerInv, Promise!Moves, Record
  <1>9. Promise!Spend(a, r)
    BY <1>4, <1>7, <1>8 DEF Promise!Spend
  <1> QED
    BY <1>9 DEF Promise!Next

\* A rejection or cancellation restores what was spent.
LEMMA RefusalRestores ==
  ASSUME RedeemInv, LedgerInv, ChargedAndRefundedOnce, NEW r \in Redeemed, RejectRedemption(r) \/ CancelRedemption(r)
  PROVE  Promise!Next
  <1>1. /\ r \in Rows /\ redemption[r].status \in {"pending_review", "approved"}
        /\ Record(redemption[r].account, "refund_redemption", r, redemption[r].cost)
    BY DEF RejectRedemption, CancelRedemption, RefundTransition
  <1>2. redemption[r] # NoRow /\ redemption[r] \in RedemptionRow
    BY <1>1 DEF Rows, RedeemInv, RedeemTypeOK
  <1>3. PICK a \in Accounts : a = redemption[r].account
    BY <1>2 DEF RedemptionRow
  <1>4. PICK v \in Nat \ {0} : v = redemption[r].cost
    BY <1>2, RedemptionAssumption DEF RedemptionRow
  <1>5. /\ SumAmountByTypeRef(a, "spend_redemption", r) = -v
        /\ SumAmountByTypeRef(a, "refund_redemption", r) = 0
    BY <1>1, <1>2, <1>3, <1>4 DEF ChargedAndRefundedOnce
  <1>6. -(-v) = v /\ 0 + v = v /\ v > 0 /\ v \in Int
    OBVIOUS
  <1>7. /\ Debited("spend_redemption", Redeemed)[a][r] = v
        /\ Booked("refund_redemption", Redeemed)[a][r] = 0
    BY <1>5, <1>6 DEF Debited, Booked
  <1>8. /\ Promise!Moves(a, v)
        /\ Booked("refund_redemption", Redeemed)' = [Booked("refund_redemption", Redeemed) EXCEPT ![a][r] = v]
        /\ Booked("grant_payment", Codes)' = Booked("grant_payment", Codes)
        /\ Debited("reverse_payment", Codes)' = Debited("reverse_payment", Codes)
        /\ Debited("spend_redemption", Redeemed)' = Debited("spend_redemption", Redeemed)
    BY <1>1, <1>3, <1>4, <1>5, <1>6, PostIsBooked DEF LedgerInv, Promise!Moves, Record
  <1>9. Promise!Restore(a, r)
    BY <1>6, <1>7, <1>8 DEF Promise!Restore
  <1> QED
    BY <1>9 DEF Promise!Next

\* Every step of payments and redemptions is one of the promised ones, or moves nothing.
LEMMA PromiseStep ==
  ASSUME MoneyInv, [MoneyNext]_moneyVars
  PROVE  [Promise!Next]_(Promise!promiseVars)
  <1> USE DEF MoneyInv
  <1>1. CASE [PayNext]_payVars
    BY <1>1, PayPosts, NothingBooked, GrantFills, AdjustmentReverses
  <1>2. CASE RewNext
    <2>1. ASSUME NEW q \in Requests, NEW r \in Redeemed, RedeemCommit(q, r)
          PROVE  Promise!Next
      BY <2>1, CommitSpends
    <2>2. ASSUME NEW r \in Redeemed, RejectRedemption(r) \/ CancelRedemption(r)
          PROVE  Promise!Next
      BY <2>2, RefusalRestores
    <2>3. \/ UNCHANGED <<balance, ledger>>
          \/ \E q \in Requests, r \in Redeemed : RedeemCommit(q, r)
          \/ \E r \in Redeemed : RejectRedemption(r) \/ CancelRedemption(r)
      BY <1>2 DEF RewNext, CreateProduct, UpdateProduct, SetProductStatus, Redeem, RedeemReplay, RedeemStep,
                  RedeemBegin, RedeemLock, RedeemRefused, RedeemConflict, RedeemFails, ApproveRedemption,
                  FulfillRedemption, LockTransition
    <2> QED
      BY <2>1, <2>2, <2>3, NothingBooked
  <1>3. [PayNext]_payVars \/ RewNext
    BY DEF MoneyNext, moneyVars
  <1> QED
    BY <1>1, <1>2, <1>3

\* With empty books nothing was promised yet.
LEMMA PromiseStarts ==
  ASSUME MoneyInit
  PROVE  Promise!Init
  <1>1. CreditsInit
    BY DEF MoneyInit, PayInit
  <1>2. \A a, i : \A t \in {"grant_payment", "reverse_payment", "spend_redemption", "refund_redemption"} :
          SumAmountByTypeRef(a, t, i) = 0
    BY <1>1 DEF CreditsInit, SumAmountByTypeRef
  <1>3. /\ Booked("grant_payment", Codes) = Promise!Blank(Codes)
        /\ Booked("refund_redemption", Redeemed) = Promise!Blank(Redeemed)
    BY <1>2 DEF Booked, Promise!Blank
  <1>4. /\ Debited("reverse_payment", Codes) = Promise!Blank(Codes)
        /\ Debited("spend_redemption", Redeemed) = Promise!Blank(Redeemed)
    BY <1>2 DEF Debited, Promise!Blank
  <1> QED
    BY <1>1, <1>3, <1>4 DEF Promise!Init, CreditsInit

\* Payments, webhooks, redemptions and their review implement CreditPromise: for any number of them, at once, repeated
\* and interrupted, each transaction moves the credits of one account as one of its steps allows.
THEOREM MoneyKeepsPromise == MoneySpec => PromiseKept
  <1>1. MoneyInv /\ [MoneyNext]_moneyVars => [Promise!Next]_(Promise!promiseVars)
    BY PromiseStep
  <1> QED
    BY <1>1, PromiseStarts, MoneyInvariant, PTL DEF MoneySpec, PromiseKept, Promise!Spec

\* What was taken back is a number of credits.
ReversedTyped == Debited("reverse_payment", Codes) \in [Accounts -> [Codes -> Nat]]

LEMMA ReversedType ==
  ASSUME PayInv, LedgerInv, ReverseInv
  PROVE  ReversedTyped
  <1> SUFFICES ASSUME NEW a \in Accounts, NEW c \in Codes
               PROVE  -SumAmountByTypeRef(a, "reverse_payment", c) \in Nat
    BY DEF ReversedTyped, Debited
  <1>1. TakenBack(a, c) \in Nat
    <2>1. CASE pay[c] # None /\ FactsOf(c) # {}
      <3>1. PICK f \in fact : f.code = c
        BY <2>1 DEF FactsOf
      <3>2. order[c].state = "captured"
        BY <3>1 DEF PayInv, FactsInv, FactInv, CodesInv, CodeInv
      <3>3. pay[c] \in PayRow /\ pay[c].credits \in Nat
        BY <2>1, CreditsAssumption DEF PayInv, PayRowsOK, PayRow
      <3>4. AmountPaid(c) \in Nat \ {0} /\ RefundsWithin(FactsOf(c), AmountPaid(c))
        BY <3>2, OrderMoney, FactsWithin DEF PayInv, CodesInv
      <3>5. Target(pay[c], FactsOf(c), AmountPaid(c)) \in 0 .. pay[c].credits
        BY <3>3, <3>4, TargetWithin
      <3> QED
        BY <3>3, <3>5 DEF TakenBack
    <2>2. CASE ~(pay[c] # None /\ FactsOf(c) # {})
      BY <2>2 DEF TakenBack
    <2> QED
      BY <2>1, <2>2
  <1>2. SumAmountByTypeRef(a, "reverse_payment", c) = -TakenBack(a, c)
    BY DEF ReverseInv
  <1> QED
    BY <1>1, <1>2

\* A promised step leaves nobody with a larger debt than what was taken back.
LEMMA DebtStays ==
  ASSUME MoneyInv, ReversedTyped, ReversedTyped', DebtWithinReversals, [Promise!Next]_(Promise!promiseVars)
  PROVE  DebtWithinReversals'
  <1> DEFINE back == Debited("reverse_payment", Codes)
  <1> SUFFICES ASSUME NEW a \in Accounts PROVE balance'[a] + Total(back'[a], Codes) >= 0
    BY DEF DebtWithinReversals
  <1>1. /\ balance \in [Accounts -> Int]
        /\ back \in [Accounts -> [Codes -> Nat]] /\ back' \in [Accounts -> [Codes -> Nat]]
    BY DEF ReversedTyped, MoneyInv, LedgerInv, LedgerTypeOK
  <1>2. IsFiniteSet(Codes)
    BY PaymentAssumption
  <1>3. balance[a] \in Int /\ back[a] \in [Codes -> Nat] /\ back'[a] \in [Codes -> Nat]
    BY <1>1
  <1>4. Total(back[a], Codes) \in Nat /\ Total(back'[a], Codes) \in Nat
    BY <1>2, <1>3, TotalType
  <1>5. balance[a] + Total(back[a], Codes) >= 0
    BY DEF DebtWithinReversals
  <1> HIDE DEF back
  <1>6. ASSUME back'[a] = back[a], balance'[a] \in Int, balance'[a] >= balance[a]
        PROVE  balance'[a] + Total(back'[a], Codes) >= 0
    BY <1>3, <1>4, <1>5, <1>6
  <1>7. ASSUME NEW o \in Accounts, NEW n \in Int, Promise!Moves(o, n), n >= 0, back' = back
        PROVE  balance'[a] + Total(back'[a], Codes) >= 0
    <2>1. balance'[a] = IF a = o THEN balance[a] + n ELSE balance[a]
      BY <1>1, <1>7 DEF Promise!Moves
    <2> QED
      BY <1>3, <1>6, <1>7, <2>1
  <1>8. CASE UNCHANGED Promise!promiseVars
    <2>1. balance' = balance /\ back' = back
      BY <1>8 DEF Promise!promiseVars, back
    <2> QED
      BY <1>3, <1>6, <2>1
  <1>9. ASSUME NEW o \in Accounts, NEW c \in Codes, Promise!Fill(o, c)
        PROVE  balance'[a] + Total(back'[a], Codes) >= 0
    <2>1. PICK n \in 1 .. MaxCredits : Promise!Moves(o, n)
      BY <1>9 DEF Promise!Fill
    <2>2. back' = back
      BY <1>9 DEF Promise!Fill, back
    <2>3. n \in Int /\ n >= 0
      BY CreditsAssumption
    <2> QED
      BY <1>7, <2>1, <2>2, <2>3
  <1>10. ASSUME NEW o \in Accounts, NEW c \in Codes, Promise!Reverse(o, c)
         PROVE  balance'[a] + Total(back'[a], Codes) >= 0
    <2>1. PICK n \in 1 .. Booked("grant_payment", Codes)[o][c] - back[o][c] :
            Promise!Moves(o, -n) /\ back' = [back EXCEPT ![o][c] = @ + n]
      BY <1>10 DEF Promise!Reverse, back
    <2>2. n \in Int
      OBVIOUS
    <2>3. CASE a # o
      <3>1. balance'[a] = balance[a] /\ back'[a] = back[a]
        BY <1>1, <2>1, <2>3 DEF Promise!Moves
      <3> QED
        BY <1>3, <1>6, <3>1
    <2>4. CASE a = o
      <3>1. balance'[a] = balance[a] - n
        BY <1>1, <2>1, <2>2, <2>4 DEF Promise!Moves
      <3>2. back'[a] = [back[a] EXCEPT ![c] = @ + n]
        BY <1>1, <2>1, <2>4
      <3>3. /\ \A d \in Codes \ {c} : back[a][d] = back'[a][d]
            /\ back'[a][c] = back[a][c] + n /\ back[a][c] \in Nat
        BY <1>3, <3>2
      <3>4. Total(back'[a], Codes) = Total(back[a], Codes) - back[a][c] + back'[a][c]
        BY <1>2, <1>3, <3>3, TotalUpdate
      <3> QED
        BY <1>3, <1>4, <1>5, <2>2, <3>1, <3>3, <3>4
    <2> QED
      BY <2>3, <2>4
  <1>11. ASSUME NEW o \in Accounts, NEW r \in Redeemed, Promise!Spend(o, r)
         PROVE  balance'[a] + Total(back'[a], Codes) >= 0
    <2>1. PICK n \in 1 .. balance[o] : Promise!Moves(o, -n)
      BY <1>11 DEF Promise!Spend
    <2>2. back' = back
      BY <1>11 DEF Promise!Spend, back
    <2>3. n \in Int /\ n <= balance[o] /\ balance[o] \in Int
      BY <1>1
    <2>4. balance'[a] = IF a = o THEN balance[a] - n ELSE balance[a]
      BY <1>1, <2>1, <2>3 DEF Promise!Moves
    <2> QED
      BY <1>3, <1>4, <1>5, <2>2, <2>3, <2>4
  <1>12. ASSUME NEW o \in Accounts, NEW r \in Redeemed, Promise!Restore(o, r)
         PROVE  balance'[a] + Total(back'[a], Codes) >= 0
    <2>1. PICK n : n = Debited("spend_redemption", Redeemed)[o][r]
      OBVIOUS
    <2>2. n \in Int
      BY <2>1, SumType DEF Debited, MoneyInv, LedgerInv
    <2>3. n > 0 /\ Promise!Moves(o, n) /\ back' = back
      BY <1>12, <2>1 DEF Promise!Restore, back
    <2> QED
      BY <1>7, <2>2, <2>3
  <1> QED
    BY <1>8, <1>9, <1>10, <1>11, <1>12 DEF Promise!Next

\* Nobody owes anything when the books are empty.
LEMMA NoDebtAtFirst ==
  ASSUME MoneyInit
  PROVE  DebtWithinReversals
  <1>1. CreditsInit
    BY DEF MoneyInit, PayInit
  <1>2. ASSUME NEW a \in Accounts
        PROVE  balance[a] + Total(Debited("reverse_payment", Codes)[a], Codes) >= 0
    <2>1. \A c \in Codes : Debited("reverse_payment", Codes)[a][c] = 0
      <3>1. \A c \in Codes : SumAmountByTypeRef(a, "reverse_payment", c) = 0
        BY <1>1 DEF CreditsInit, SumAmountByTypeRef
      <3> QED
        BY <3>1 DEF Debited
    <2>2. Total(Debited("reverse_payment", Codes)[a], Codes) = 0
      BY <2>1, TotalZero
    <2>3. balance[a] = Opening /\ Opening \in 0 .. MaxCredits /\ MaxCredits \in Nat
      BY <1>1, CreditsAssumption DEF CreditsInit
    <2> QED
      BY <2>2, <2>3
  <1> QED
    BY <1>2 DEF DebtWithinReversals

LEMMA DebtHolds == MoneySpec => []DebtWithinReversals
  <1>1. MoneyInv => ReversedTyped
    BY ReversedType DEF MoneyInv
  <1>2. MoneyInv /\ ReversedTyped /\ ReversedTyped' /\ DebtWithinReversals /\ [MoneyNext]_moneyVars
          => DebtWithinReversals'
    BY PromiseStep, DebtStays
  <1> QED
    BY <1>1, <1>2, NoDebtAtFirst, MoneyInvariant, PTL DEF MoneySpec

\* A request key buys one thing, at the price of the moment, charged once from a balance that covers it and given
\* back once if it is turned down, however requests race, time out and are retried; only the provider's reversals
\* take an account below zero, and by no more than they have taken back.
THEOREM RedemptionsPaidOnce == MoneySpec => RedeemedOnce
  <1>1. MoneyInv => OneAnswerPerKey /\ ChargedAndRefundedOnce
    BY AnswersAgree DEF MoneyInv
  <1>2. MoneyInv /\ [MoneyNext]_moneyVars =>
          [\A r \in Redeemed : redemption[r] = NoRow /\ redemption'[r] # NoRow =>
             LET p == product[redemption'[r].product]
             IN  p.status = "active" /\ p.price = redemption'[r].cost]_<<product, redemption>>
    BY PriceStep DEF MoneyInv
  <1>3. MoneyInv /\ [MoneyNext]_moneyVars =>
          [\A a \in Accounts :
             balance'[a] < balance[a] /\ balance'[a] < 0 =>
               \E c \in Codes : SumAmountByTypeRef(a, "reverse_payment", c)'
                                < SumAmountByTypeRef(a, "reverse_payment", c)]_moneyVars
    BY DebtStep
  <1>4. MoneySpec => [](OneAnswerPerKey /\ ChargedAndRefundedOnce /\ DebtWithinReversals)
    BY <1>1, MoneyInvariant, DebtHolds, PTL
  <1>5. MoneySpec => RedeemedAtCurrentPrice
    BY <1>2, MoneyInvariant, PTL DEF MoneySpec, RedeemedAtCurrentPrice
  <1>6. MoneySpec => DebtOnlyByReversal
    BY <1>3, MoneyInvariant, PTL DEF MoneySpec, DebtOnlyByReversal
  <1> QED
    BY <1>4, <1>5, <1>6 DEF RedeemedOnce
=============================================================================
