----------------------- MODULE MoonlightSystemProofs -----------------------
(***************************************************************************)
(* Theorems about the contracts together, for any number of channels that  *)
(* share an asset and an auth contract, any accounts, keys and operations, *)
(* and any integer width.                                                  *)
(***************************************************************************)
EXTENDS MoonlightSystem, OperatorTheorems

(* Each channel's supply is the value of its own UTXOs, and it holds the   *)
(* asset for it.                                                           *)
Books ==
  \A c \in Channels : chan[c].supply = Total(chan[c].utxo, Utxos) /\ bal[c] >= chan[c].supply

SystemInv == TypeOK /\ Books
-----------------------------------------------------------------------------
(* The ledger of one channel, and a whole call on it.                      *)
ChannelLedger == [utxo : [Utxos -> -1 .. MaxAmount], supply : 0 .. MaxAmount,
                  bal : [Addresses -> 0 .. MaxAmount]]

LEMMA AmountBounds == MaxAmount \in Nat /\ \A n \in I128 : n \in Int /\ n <= MaxAmount
BY MaxAmountAssumption DEF I128

LEMMA OperationFacts ==
  ASSUME NEW o \in ChannelOperation
  PROVE  /\ o.create \in Seq(CreateItem)
         /\ o.spend \in Seq(SpendItem)
         /\ o.deposit \in Seq(ExternalItem) /\ o.withdraw \in Seq(ExternalItem)
         /\ DOMAIN o.create = 1 .. Len(o.create) /\ DOMAIN o.spend = 1 .. Len(o.spend)
         /\ DOMAIN o.deposit = 1 .. Len(o.deposit) /\ DOMAIN o.withdraw = 1 .. Len(o.withdraw)
         /\ \A k \in DOMAIN o.create :
              o.create[k].utxo \in Utxos /\ o.create[k].amount \in Int /\ o.create[k].amount <= MaxAmount
         /\ \A k \in DOMAIN o.spend : o.spend[k].utxo \in Utxos
         /\ \A k \in DOMAIN o.deposit : o.deposit[k] \in ExternalItem
         /\ \A k \in DOMAIN o.withdraw : o.withdraw[k] \in ExternalItem
<1>1. /\ o.create \in Seq(CreateItem)
      /\ o.spend \in Seq(SpendItem)
      /\ o.deposit \in Seq(ExternalItem) /\ o.withdraw \in Seq(ExternalItem)
  BY DEF ChannelOperation
<1>2. /\ DOMAIN o.create = 1 .. Len(o.create) /\ DOMAIN o.spend = 1 .. Len(o.spend)
      /\ DOMAIN o.deposit = 1 .. Len(o.deposit) /\ DOMAIN o.withdraw = 1 .. Len(o.withdraw)
  BY <1>1
<1>3. \A k \in DOMAIN o.create : o.create[k] \in CreateItem  BY <1>1
<1>4. \A k \in DOMAIN o.spend : o.spend[k] \in SpendItem  BY <1>1
<1>5. \A k \in DOMAIN o.deposit : o.deposit[k] \in ExternalItem  BY <1>1
<1>6. \A k \in DOMAIN o.withdraw : o.withdraw[k] \in ExternalItem  BY <1>1
<1>7. \A k \in DOMAIN o.create :
        o.create[k].utxo \in Utxos /\ o.create[k].amount \in Int /\ o.create[k].amount <= MaxAmount
  BY <1>3, AmountBounds DEF CreateItem
<1>8. \A k \in DOMAIN o.spend : o.spend[k].utxo \in Utxos  BY <1>4 DEF SpendItem
<1> QED  BY <1>1, <1>2, <1>5, <1>6, <1>7, <1>8

LEMMA ItemFacts ==
  ASSUME NEW x \in ExternalItem
  PROVE  x.addr \in Addresses /\ x.amount \in Int /\ x.amount <= MaxAmount
BY AmountBounds DEF ExternalItem

(* The UTXOs after a call: each moves forward, a listed one to its amount. *)
LEMMA UtxosAfterFacts ==
  ASSUME NEW l \in ChannelLedger, NEW o \in ChannelOperation,
         WellFormed(o), Balanced(l, o)
  PROVE  /\ SpentBy(o) \subseteq Utxos /\ CreatedBy(o) \subseteq Utxos
         /\ \A u \in SpentBy(o) : l.utxo[u] > 0 /\ UtxosAfter(l, o)[u] = 0
         /\ \A k \in DOMAIN o.create :
              /\ l.utxo[o.create[k].utxo] = -1
              /\ o.create[k].amount > 0
              /\ UtxosAfter(l, o)[o.create[k].utxo] = o.create[k].amount
         /\ CreatedBy(o) = {o.create[k].utxo : k \in DOMAIN o.create}
         /\ \A u \in Utxos \ (SpentBy(o) \cup CreatedBy(o)) : UtxosAfter(l, o)[u] = l.utxo[u]
         /\ UtxosAfter(l, o) \in [Utxos -> -1 .. MaxAmount]
<1>1. l.utxo \in [Utxos -> -1 .. MaxAmount] /\ DOMAIN l.utxo = Utxos  BY DEF ChannelLedger
<1>2. /\ SpentBy(o) = {o.spend[k].utxo : k \in DOMAIN o.spend}
      /\ CreatedBy(o) = {o.create[k].utxo : k \in DOMAIN o.create}
  BY DEF SpentBy, CreatedBy, UtxosOf, ToSet
<1>3. SpentBy(o) \subseteq Utxos /\ CreatedBy(o) \subseteq Utxos  BY <1>2, OperationFacts
<1>4. ToSet(o.create) = {o.create[k] : k \in DOMAIN o.create}  BY DEF ToSet
<1>5. \A u \in SpentBy(o) : l.utxo[u] > 0  BY DEF Balanced
<1>6. \A u \in SpentBy(o) : UtxosAfter(l, o)[u] = 0  BY <1>1, <1>3 DEF UtxosAfter
<1>7. \A k \in DOMAIN o.create : l.utxo[o.create[k].utxo] = -1 /\ o.create[k].amount > 0
  BY <1>4 DEF Balanced
<1>8. ASSUME NEW k \in DOMAIN o.create
      PROVE  UtxosAfter(l, o)[o.create[k].utxo] = o.create[k].amount
  <2> DEFINE u == o.create[k].utxo
             c == CHOOSE c \in ToSet(o.create) : c.utxo = u
  <2>1. u \in Utxos /\ u \in CreatedBy(o) /\ u \notin SpentBy(o)
    BY <1>2, <1>3, <1>5, <1>7
  <2>2. \E x \in ToSet(o.create) : x.utxo = u  BY <1>4 DEF SpendItem
  <2>3. c \in ToSet(o.create) /\ c.utxo = u  BY <2>2
  <2>4. UtxosAfter(l, o)[u] = c.amount  BY <1>1, <2>1 DEF UtxosAfter
  <2> HIDE DEF c
  <2>5. PICK j \in DOMAIN o.create : c = o.create[j]  BY <1>4, <2>3
  <2>6. j = k  BY <2>3, <2>5 DEF WellFormed, NoUtxoTwice, NoDuplicates, UtxosOf
  <2> QED  BY <2>4, <2>5, <2>6
<1>9. \A u \in Utxos \ (SpentBy(o) \cup CreatedBy(o)) : UtxosAfter(l, o)[u] = l.utxo[u]
  BY <1>1 DEF UtxosAfter
<1>10. ASSUME NEW u \in Utxos  PROVE UtxosAfter(l, o)[u] \in -1 .. MaxAmount
  <2>1. CASE u \in SpentBy(o)  BY <1>6, <2>1, AmountBounds
  <2>2. CASE u \in CreatedBy(o)
    <3>1. PICK k \in DOMAIN o.create : u = o.create[k].utxo  BY <1>2, <2>2
    <3>2. o.create[k].amount \in Int /\ o.create[k].amount <= MaxAmount  BY OperationFacts
    <3> QED  BY <1>7, <1>8, <3>1, <3>2, AmountBounds
  <2>3. CASE u \notin SpentBy(o) \cup CreatedBy(o)  BY <1>1, <1>9, <2>3
  <2> QED  BY <2>1, <2>2, <2>3
<1>11. UtxosAfter(l, o) \in [Utxos -> -1 .. MaxAmount]
  <2>1. DOMAIN UtxosAfter(l, o) = Utxos
        /\ UtxosAfter(l, o) = [u \in Utxos |-> UtxosAfter(l, o)[u]]
    BY <1>1 DEF UtxosAfter
  <2> QED  BY <1>10, <2>1
<1> QED  BY <1>2, <1>3, <1>5, <1>6, <1>7, <1>8, <1>9, <1>11

(* The value of the UTXOs follows what is spent and created.               *)
LEMMA UtxosAfterTotal ==
  ASSUME NEW l \in ChannelLedger, NEW o \in ChannelOperation,
         WellFormed(o), Balanced(l, o)
  PROVE  /\ Total(l.utxo, SpentBy(o)) \in Nat
         /\ Total(UtxosAfter(l, o), Utxos) + Total(l.utxo, SpentBy(o)) =
              Total(l.utxo, Utxos) + SumFrom(o.create, 1)
<1> DEFINE S == SpentBy(o)
           C == CreatedBy(o)
           R == Utxos \ (S \cup C)
           f == l.utxo
           g == UtxosAfter(l, o)
<1>1. /\ \A u \in S : f[u] > 0 /\ g[u] = 0
      /\ \A u \in C : f[u] = -1
      /\ \A u \in R : g[u] = f[u]
      /\ S \subseteq Utxos /\ C \subseteq Utxos
  BY UtxosAfterFacts
<1>2. S \cap C = {} /\ (S \cup C) \cap R = {} /\ (S \cup C) \cup R = Utxos  BY <1>1
<1>3. Total(g, C) = SumFrom(o.create, 1)
  <2> DEFINE N == 1 .. Len(o.create)
             a == Amounts(o.create)
             b == [k \in N |-> o.create[k].utxo]
  <2>1. DOMAIN o.create = N /\ 1 \in Int /\ Len(o.create) \in Int  BY OperationFacts
  <2>2. IsFiniteSet(N)  BY <2>1, FS_Interval, Zenon
  <2>3. C = {b[k] : k \in N}
    <3>1. C = {o.create[k].utxo : k \in DOMAIN o.create}  BY UtxosAfterFacts
    <3> HIDE DEF C
    <3> QED  BY <2>1, <3>1
  <2>4. \A j, k \in N : b[j] = b[k] => j = k
    BY <2>1 DEF WellFormed, NoUtxoTwice, NoDuplicates, UtxosOf
  <2>5. \A k \in N : g[b[k]] = a[k]
    <3> HIDE DEF g
    <3>1. \A k \in N : g[o.create[k].utxo] = o.create[k].amount  BY <2>1, UtxosAfterFacts DEF g
    <3> QED  BY <2>1, <3>1 DEF Amounts
  <2>6. SumFrom(o.create, 1) = Total(a, N)  BY DEF SumFrom
  <2>7. b \in [N -> C]  BY <2>3
  <2> HIDE DEF N, a, b, C, g
  <2>8. b \in Bijection(N, C)
    BY <2>3, <2>4, <2>7 DEF Bijection, Injection, Surjection, IsInjective
  <2>9. Total(a, N) = Total(g, C)  BY <2>2, <2>5, <2>8, TotalRenamed
  <2> QED  BY <2>6, <2>9
<1> HIDE DEF S, C, R, f, g
<1>4. IsFiniteSet(S) /\ IsFiniteSet(C) /\ IsFiniteSet(R) /\ IsFiniteSet(S \cup C)
  <2>1. IsFiniteSet(Utxos)  BY SystemAssumption
  <2> QED  BY <1>1, <1>2, <2>1, FS_Subset
<1>5. ASSUME NEW h
      PROVE  Total(h, Utxos) = (Total(h, S) + Total(h, C)) + Total(h, R)
  <2>1. Total(h, S \cup C) = Total(h, S) + Total(h, C)  BY <1>2, <1>4, TotalUnion
  <2>2. Total(h, (S \cup C) \cup R) = Total(h, S \cup C) + Total(h, R)
    BY <1>2, <1>4, TotalUnion
  <2> QED  BY <1>2, <2>1, <2>2, Zenon
<1>6. Total(g, S) = 0  BY <1>1, TotalNone
<1>7. Total(f, C) = 0  BY <1>1, TotalNone
<1>8. Total(g, R) = Total(f, R)  BY <1>1, TotalAgree
<1>9. Total(f, S) \in Nat /\ Total(g, C) \in Nat /\ Total(f, R) \in Nat  BY <1>4, TotalType
<1>10. Total(f, Utxos) = (Total(f, S) + Total(f, C)) + Total(f, R)  BY <1>5
<1>11. Total(g, Utxos) = (Total(g, S) + Total(g, C)) + Total(g, R)  BY <1>5
<1>12. Total(g, Utxos) + Total(f, S) = Total(f, Utxos) + Total(g, C)
  BY <1>6, <1>7, <1>8, <1>9, <1>10, <1>11
<1> QED  BY <1>3, <1>9, <1>12, Zenon DEF S, f, g

(* The balances after a call: nobody but a depositor loses, a depositor no *)
(* more than its deposit, and the channel keeps up with its supply.        *)
LEMMA PaidFacts ==
  ASSUME NEW l \in ChannelLedger, NEW o \in ChannelOperation, NEW self \in Addresses,
         WellFormed(o), Payable(self, l, o)
  PROVE  /\ \A a \in Addresses : Paid(self, l, o, a) \in 0 .. MaxAmount
         /\ \A a \in Addresses \ {self} :
              (\A k \in DOMAIN o.deposit : o.deposit[k].addr # a) => Paid(self, l, o, a) >= l.bal[a]
         /\ \A k \in DOMAIN o.deposit :
              /\ o.deposit[k].addr # self
              /\ l.bal[o.deposit[k].addr] - Paid(self, l, o, o.deposit[k].addr)
                   <= o.deposit[k].amount
         /\ Paid(self, l, o, self) + TotalWithdraw(o) >= l.bal[self] + TotalDeposit(o)
         /\ TotalDeposit(o) \in Nat /\ TotalWithdraw(o) \in Nat
<1> DEFINE In(a) == AmountFor(o.deposit, a)
           Out(a) == AmountFor(o.withdraw, a)
<1>1. l.bal \in [Addresses -> 0 .. MaxAmount]  BY DEF ChannelLedger
<1>2. \A a \in Addresses : l.bal[a] \in Nat /\ l.bal[a] <= MaxAmount  BY <1>1, AmountBounds
<1>3. TotalDeposit(o) \in Nat /\ TotalWithdraw(o) \in Nat
  <2>1. o.deposit \in Seq(ExternalItem) /\ o.withdraw \in Seq(ExternalItem) /\ 1 \in Nat
    BY OperationFacts
  <2> QED  BY <2>1, SumFromType DEF TotalDeposit, TotalWithdraw
<1>4. \A a : In(a) \in Nat /\ Out(a) \in Nat /\ Out(a) <= TotalWithdraw(o)
  <2>1. o.deposit \in Seq(ExternalItem) /\ o.withdraw \in Seq(ExternalItem)  BY OperationFacts
  <2> QED  BY <2>1, AmountForType DEF TotalWithdraw
<1>5. ASSUME NEW k \in DOMAIN o.deposit
      PROVE  /\ o.deposit[k].addr # self /\ o.deposit[k].addr \in Addresses
             /\ In(o.deposit[k].addr) = o.deposit[k].amount
             /\ l.bal[o.deposit[k].addr] >= o.deposit[k].amount
             /\ o.deposit[k].amount \in Nat
  <2>1. o.deposit[k] \in ExternalItem  BY OperationFacts
  <2>2. o.deposit[k].amount > 0 /\ NoDuplicates(AddressesOf(o.deposit))
    BY DEF WellFormed, PreProcessed, ExternalAmountsOk, VerifyExternalOperations
  <2>3. o.deposit[k].addr # self /\ l.bal[o.deposit[k].addr] >= o.deposit[k].amount
    BY DEF Payable, ToSet
  <2>4. /\ o.deposit[k].addr \in Addresses
        /\ o.deposit[k].amount \in Int /\ o.deposit[k].amount <= MaxAmount
    BY <2>1, ItemFacts
  <2>5. In(o.deposit[k].addr) = o.deposit[k].amount  BY <2>2, <2>4, AmountForOne
  <2> QED  BY <2>2, <2>3, <2>4, <2>5
<1>6. ASSUME NEW a, \A k \in DOMAIN o.deposit : o.deposit[k].addr # a  PROVE In(a) = 0
  BY <1>6, AmountForNone
<1>7. ASSUME NEW a, \A k \in DOMAIN o.withdraw : o.withdraw[k].addr # a  PROVE Out(a) = 0
  BY <1>7, AmountForNone
<1>8. /\ l.bal[self] + TotalDeposit(o) >= TotalWithdraw(o)
      /\ l.bal[self] + TotalDeposit(o) <= MaxAmount
  BY <1>2, <1>3, AmountBounds DEF Payable
<1>9. \A a \in Addresses \ {self} : Paid(self, l, o, a) = (l.bal[a] - In(a)) + Out(a)
  BY DEF Paid
<1>10. Paid(self, l, o, self) = l.bal[self] + (TotalDeposit(o) - (TotalWithdraw(o) - Out(self)))
  BY DEF Paid
<1>11. ASSUME NEW k \in DOMAIN o.withdraw, o.withdraw[k].addr # self
       PROVE  Paid(self, l, o, o.withdraw[k].addr) <= MaxAmount
  BY <1>11 DEF Payable, ToSet
<1> HIDE DEF In, Out
<1>12. ASSUME NEW a \in Addresses \ {self}  PROVE Paid(self, l, o, a) \in 0 .. MaxAmount
  <2>1. l.bal[a] >= In(a)
    <3>1. CASE \E k \in DOMAIN o.deposit : o.deposit[k].addr = a  BY <1>5, <3>1
    <3>2. CASE \A k \in DOMAIN o.deposit : o.deposit[k].addr # a
      <4>1. In(a) = 0  BY <1>6, <3>2
      <4> QED  BY <1>2, <4>1
    <3> QED  BY <3>1, <3>2
  <2>2. Paid(self, l, o, a) <= MaxAmount
    <3>1. CASE \E k \in DOMAIN o.withdraw : o.withdraw[k].addr = a  BY <1>11, <3>1
    <3>2. CASE \A k \in DOMAIN o.withdraw : o.withdraw[k].addr # a
      <4>1. Out(a) = 0  BY <1>7, <3>2
      <4> QED  BY <1>2, <1>4, <1>9, <4>1, AmountBounds
    <3> QED  BY <3>1, <3>2
  <2>3. Paid(self, l, o, a) = (l.bal[a] - In(a)) + Out(a)  BY <1>9
  <2> QED  BY <1>2, <1>4, <2>1, <2>2, <2>3, AmountBounds
<1>13. Paid(self, l, o, self) \in 0 .. MaxAmount
  BY <1>2, <1>3, <1>4, <1>8, <1>10, AmountBounds
<1>14. Paid(self, l, o, self) + TotalWithdraw(o) >= l.bal[self] + TotalDeposit(o)
  BY <1>2, <1>3, <1>4, <1>10
<1>15. ASSUME NEW a \in Addresses \ {self}, \A k \in DOMAIN o.deposit : o.deposit[k].addr # a
       PROVE  Paid(self, l, o, a) >= l.bal[a]
  <2>1. In(a) = 0  BY <1>6, <1>15
  <2>2. Paid(self, l, o, a) = (l.bal[a] - In(a)) + Out(a)  BY <1>9
  <2> QED  BY <1>2, <1>4, <2>1, <2>2
<1>16. ASSUME NEW k \in DOMAIN o.deposit
       PROVE  l.bal[o.deposit[k].addr] - Paid(self, l, o, o.deposit[k].addr) <= o.deposit[k].amount
  <2> DEFINE a == o.deposit[k].addr
  <2>1. a \in Addresses \ {self} /\ In(a) = o.deposit[k].amount /\ o.deposit[k].amount \in Nat
    BY <1>5
  <2>2. Paid(self, l, o, a) = (l.bal[a] - In(a)) + Out(a)  BY <1>9, <2>1
  <2>3. l.bal[a] \in Nat /\ Out(a) \in Nat  BY <1>2, <1>4, <2>1
  <2> HIDE DEF a
  <2>4. l.bal[a] - Paid(self, l, o, a) <= o.deposit[k].amount  BY <2>1, <2>2, <2>3
  <2> QED  BY <2>4 DEF a
<1> QED  BY <1>3, <1>5, <1>12, <1>13, <1>14, <1>15, <1>16

(* A whole call keeps the books of its channel.                            *)
LEMMA SettlementFacts ==
  ASSUME NEW l \in ChannelLedger, NEW o \in ChannelOperation, NEW self \in Addresses,
         l.supply = Total(l.utxo, Utxos), l.bal[self] >= l.supply,
         Accepts(self, l, o)
  PROVE  LET s == Settlement(self, l, o)
         IN  /\ s \in ChannelLedger
             /\ s.supply = Total(s.utxo, Utxos) /\ s.bal[self] >= s.supply
             /\ s.bal[self] - l.bal[self] >= s.supply - l.supply
<1> DEFINE s == Settlement(self, l, o)
<1>1. WellFormed(o) /\ Balanced(l, o) /\ Payable(self, l, o)  BY DEF Accepts
<1>2. /\ s = [utxo |-> UtxosAfter(l, o),
              supply |-> l.supply + (TotalDeposit(o) - TotalWithdraw(o)),
              bal |-> [a \in Addresses |-> Paid(self, l, o, a)]]
  BY DEF Settlement, ChannelLedger
<1>3. /\ s.utxo = UtxosAfter(l, o)
      /\ s.supply = l.supply + (TotalDeposit(o) - TotalWithdraw(o))
      /\ s.bal = [a \in Addresses |-> Paid(self, l, o, a)]
      /\ s.bal[self] = Paid(self, l, o, self)
      /\ s = [utxo |-> s.utxo, supply |-> s.supply, bal |-> s.bal]
  BY <1>2
<1> HIDE DEF s
<1>4. TotalDeposit(o) \in Nat /\ TotalWithdraw(o) \in Nat  BY <1>1, PaidFacts
<1>5. TotalDeposit(o) + Total(l.utxo, SpentBy(o)) = SumFrom(o.create, 1) + TotalWithdraw(o)
  BY <1>1 DEF Balanced
<1>6. /\ Total(l.utxo, SpentBy(o)) \in Nat
      /\ Total(s.utxo, Utxos) + Total(l.utxo, SpentBy(o)) =
           Total(l.utxo, Utxos) + SumFrom(o.create, 1)
  BY <1>1, <1>3, UtxosAfterTotal
<1>7. Total(s.utxo, Utxos) \in Nat /\ Total(l.utxo, Utxos) \in Nat /\ SumFrom(o.create, 1) \in Nat
  <2>1. o.create \in Seq(CreateItem) /\ 1 \in Nat  BY OperationFacts
  <2>2. SumFrom(o.create, 1) \in Nat  BY <2>1, SumFromType
  <2> QED  BY <2>2, TotalType, SystemAssumption
<1>8. s.supply = Total(s.utxo, Utxos) /\ s.supply \in Nat
  BY <1>3, <1>4, <1>5, <1>6, <1>7
<1>9. /\ \A a \in Addresses : Paid(self, l, o, a) \in 0 .. MaxAmount
      /\ Paid(self, l, o, self) + TotalWithdraw(o) >= l.bal[self] + TotalDeposit(o)
  BY <1>1, PaidFacts
<1>10. s.bal[self] \in Nat /\ s.bal[self] <= MaxAmount  BY <1>3, <1>9, AmountBounds
<1>11. l.bal[self] \in Nat /\ l.supply \in Nat  BY <1>7, AmountBounds DEF ChannelLedger
<1>12. s.bal[self] >= s.supply /\ s.bal[self] - l.bal[self] >= s.supply - l.supply
  BY <1>3, <1>4, <1>9, <1>10, <1>11
<1>13. s.supply \in 0 .. MaxAmount  BY <1>8, <1>10, <1>12, AmountBounds
<1>14. s.bal \in [Addresses -> 0 .. MaxAmount]  BY <1>3, <1>9
<1>15. s.utxo \in [Utxos -> -1 .. MaxAmount]  BY <1>1, <1>3, UtxosAfterFacts
<1>16. s \in ChannelLedger  BY <1>3, <1>13, <1>14, <1>15 DEF ChannelLedger
<1> QED  BY <1>8, <1>12, <1>16 DEF s
-----------------------------------------------------------------------------
(* The steps of the system.                                                *)
LEMMA LedgerOfFacts ==
  ASSUME SystemInv, NEW c \in Channels
  PROVE  /\ LedgerOf(c) \in ChannelLedger /\ c \in Addresses
         /\ LedgerOf(c).utxo = chan[c].utxo /\ LedgerOf(c).supply = chan[c].supply
         /\ LedgerOf(c).bal = bal
         /\ LedgerOf(c).supply = Total(LedgerOf(c).utxo, Utxos)
         /\ LedgerOf(c).bal[c] >= LedgerOf(c).supply
<1>1. /\ LedgerOf(c).utxo = chan[c].utxo /\ LedgerOf(c).supply = chan[c].supply
      /\ LedgerOf(c).bal = bal
  BY DEF LedgerOf
<1>2. /\ chan[c].utxo \in [Utxos -> -1 .. MaxAmount] /\ chan[c].supply \in 0 .. MaxAmount
      /\ bal \in [Addresses -> 0 .. MaxAmount]
  BY DEF SystemInv, TypeOK
<1>3. LedgerOf(c) \in ChannelLedger  BY <1>2 DEF LedgerOf, ChannelLedger
<1> QED  BY <1>1, <1>3 DEF SystemInv, Books, Addresses

LEMMA TransactFacts ==
  ASSUME SystemInv, NEW c \in Channels, NEW o \in Ops, NEW sigs, Transact(c, o, sigs)
  PROVE  /\ o \in ChannelOperation /\ Accepts(c, LedgerOf(c), o)
         /\ \A d \in ToSet(o.deposit) : Grant(c, d) \in grants \ grants'
         /\ grants' \subseteq grants
         /\ chan'[c].utxo = UtxosAfter(LedgerOf(c), o)
         /\ chan'[c].utxo \in [Utxos -> -1 .. MaxAmount] /\ chan'[c].supply \in 0 .. MaxAmount
         /\ chan'[c].supply = Total(chan'[c].utxo, Utxos) /\ bal'[c] >= chan'[c].supply
         /\ bal'[c] - bal[c] >= chan'[c].supply - chan[c].supply
         /\ \A e \in Channels \ {c} : chan'[e] = chan[e] /\ bal'[e] >= bal[e]
         /\ chan' = [chan EXCEPT ![c] = [utxo |-> chan'[c].utxo, supply |-> chan'[c].supply]]
         /\ bal' \in [Addresses -> 0 .. MaxAmount]
         /\ \A a \in Addresses : bal'[a] = Paid(c, LedgerOf(c), o, a)
<1> DEFINE l == LedgerOf(c)
           s == Settlement(c, l, o)
<1>1. /\ l \in ChannelLedger /\ c \in Addresses
      /\ l.utxo = chan[c].utxo /\ l.supply = chan[c].supply /\ l.bal = bal
      /\ l.supply = Total(l.utxo, Utxos) /\ l.bal[c] >= l.supply
  BY LedgerOfFacts
<1>2. o \in ChannelOperation  BY OpsAssumption
<1>3. /\ Accepts(c, l, o)
      /\ chan' = [chan EXCEPT ![c] = [utxo |-> s.utxo, supply |-> s.supply]]
      /\ bal' = s.bal
  BY DEF Transact
<1>4. /\ \A d \in ToSet(o.deposit) : Grant(c, d) \in grants \ grants'
      /\ grants' \subseteq grants
  BY DEF Transact
<1>5. s.utxo = UtxosAfter(l, o) /\ \A a \in Addresses : s.bal[a] = Paid(c, l, o, a)
  <2>1. DOMAIN l.bal = Addresses  BY <1>1 DEF ChannelLedger
  <2> HIDE DEF l
  <2> QED  BY <2>1 DEF Settlement
<1> HIDE DEF l, s
<1>6. /\ s \in ChannelLedger
      /\ s.supply = Total(s.utxo, Utxos) /\ s.bal[c] >= s.supply
      /\ s.bal[c] - l.bal[c] >= s.supply - l.supply
  BY <1>1, <1>2, <1>3, SettlementFacts DEF s
<1>7. c \in DOMAIN chan /\ DOMAIN chan = Channels  BY DEF SystemInv, TypeOK
<1>8. chan'[c].utxo = s.utxo /\ chan'[c].supply = s.supply  BY <1>3, <1>7
<1>9. ASSUME NEW e \in Channels \ {c}  PROVE chan'[e] = chan[e] /\ bal'[e] >= bal[e]
  <2>1. chan'[e] = chan[e]  BY <1>3, <1>7
  <2>2. e \in Addresses \ {c}  BY DEF Addresses
  <2>3. ASSUME NEW k \in DOMAIN o.deposit  PROVE o.deposit[k].addr # e
    <3>1. Grant(c, o.deposit[k]) \in grants  BY <1>4 DEF ToSet
    <3>2. Grant(c, o.deposit[k]).from = o.deposit[k].addr  BY DEF Grant
    <3>3. o.deposit[k].addr \in Accounts  BY <3>1, <3>2 DEF SystemInv, TypeOK
    <3> QED  BY <3>3, SystemAssumption
  <2>4. WellFormed(o) /\ Payable(c, l, o)  BY <1>3 DEF Accepts
  <2>5. Paid(c, l, o, e) >= l.bal[e]  BY <1>1, <1>2, <2>2, <2>3, <2>4, PaidFacts
  <2> QED  BY <1>1, <1>3, <1>5, <2>1, <2>2, <2>5
<1>10. /\ s.utxo \in [Utxos -> -1 .. MaxAmount] /\ s.supply \in 0 .. MaxAmount
       /\ s.bal \in [Addresses -> 0 .. MaxAmount]
  BY <1>6 DEF ChannelLedger
<1>11. /\ chan'[c].utxo = UtxosAfter(LedgerOf(c), o)
       /\ \A a \in Addresses : bal'[a] = Paid(c, LedgerOf(c), o, a)
       /\ Accepts(c, LedgerOf(c), o)
  BY <1>3, <1>5, <1>8 DEF l
<1>12. /\ chan'[c].supply = Total(chan'[c].utxo, Utxos) /\ bal'[c] >= chan'[c].supply
       /\ bal'[c] - bal[c] >= chan'[c].supply - chan[c].supply
  BY <1>1, <1>3, <1>6, <1>8
<1>13. /\ chan' = [chan EXCEPT ![c] = [utxo |-> chan'[c].utxo, supply |-> chan'[c].supply]]
       /\ bal' \in [Addresses -> 0 .. MaxAmount]
       /\ chan'[c].utxo \in [Utxos -> -1 .. MaxAmount] /\ chan'[c].supply \in 0 .. MaxAmount
  BY <1>3, <1>8, <1>10
<1> QED  BY <1>2, <1>4, <1>9, <1>11, <1>12, <1>13

(* A transfer between others, and a gift, takes from no channel.           *)
LEMMA AssetTransferFacts ==
  ASSUME SystemInv, NEW from \in Accounts, NEW to \in Addresses, AssetTransfer(from, to, 1)
  PROVE  /\ bal' \in [Addresses -> 0 .. MaxAmount]
         /\ \A c \in Channels : bal'[c] >= bal[c]
         /\ UNCHANGED <<chan, grants, authVars>>
<1>1. /\ bal \in [Addresses -> 0 .. MaxAmount] /\ from \in Addresses
      /\ bal[from] >= 1 /\ bal[to] + 1 <= MaxAmount /\ from # to
      /\ bal' = [bal EXCEPT ![from] = @ - 1, ![to] = @ + 1]
  BY DEF SystemInv, TypeOK, AssetTransfer, Addresses
<1>2. \A a \in Addresses : bal[a] \in Nat /\ bal[a] <= MaxAmount  BY <1>1, AmountBounds
<1>3. \A a \in Addresses :
        bal'[a] = IF a = to THEN bal[a] + 1 ELSE IF a = from THEN bal[a] - 1 ELSE bal[a]
  BY <1>1
<1>4. \A a \in Addresses : bal'[a] \in 0 .. MaxAmount  BY <1>1, <1>2, <1>3, AmountBounds
<1>5. bal' \in [Addresses -> 0 .. MaxAmount]
  <2>1. bal' = [a \in Addresses |-> bal'[a]]  BY <1>1
  <2> QED  BY <1>4, <2>1
<1>6. \A c \in Channels : c \in Addresses /\ c # from  BY SystemAssumption DEF Addresses
<1>7. \A c \in Channels : bal'[c] >= bal[c]  BY <1>2, <1>3, <1>6
<1> QED  BY <1>5, <1>7 DEF AssetTransfer

(* The auth contract's own types.                                          *)
LEMMA AuthSteps ==
  ASSUME TypeOK,
         \/ \E c \in Channels, o \in Ops : \E sigs : Auth!CheckAuth(sigs, Contexts(c, o.spend))
         \/ AuthContract
         \/ \E sig \in made : Lose(sig)
         \/ UNCHANGED authVars
  PROVE  Auth!TypeOK'
<1> USE AuthTtlAssumption
<1>0. Auth!TypeOK  BY DEF TypeOK
<1>1. ASSUME NEW c \in Channels, NEW o \in Ops, NEW sigs, Auth!CheckAuth(sigs, Contexts(c, o.spend))
      PROVE  Auth!TypeOK'
  <2>1. inst \in Nat /\ seq \in Nat  BY <1>0 DEF Auth!TypeOK, Auth!Untils
  <2>2. inst' = Auth!ExtendTtl(inst, seq, InstThreshold, InstBump)
    BY <1>1 DEF Auth!CheckAuth, Auth!BumpInstanceTtl
  <2>3. inst' \in Nat  BY <2>1, <2>2 DEF Auth!ExtendTtl
  <2> QED  BY <1>0, <1>1, <2>3 DEF Auth!CheckAuth, Auth!TypeOK
<1>2. ASSUME NEW p \in Providers, Auth!AddProvider(Admin, p) \/ Auth!RemoveProvider(Admin, p)
      PROVE  Auth!TypeOK'
  BY <1>0, <1>2 DEF Auth!TypeOK, Auth!AddProvider, Auth!RemoveProvider, Auth!RegisterProvider,
     Auth!DeregisterProvider
<1>3. ASSUME NEW sig, Auth!Sign(sig)  PROVE Auth!TypeOK'
  BY <1>0, <1>3 DEF Auth!TypeOK, Auth!Sign
<1>4. CASE Auth!CloseLedger
  BY <1>0, <1>4 DEF Auth!TypeOK, Auth!CloseLedger, Auth!Untils
<1>5. CASE AuthContract  BY <1>2, <1>3, <1>4, <1>5 DEF AuthContract
<1>6. ASSUME NEW sig \in made, Lose(sig)  PROVE Auth!TypeOK'
  BY <1>0, <1>6 DEF Lose, Auth!TypeOK
<1>7. CASE UNCHANGED authVars  BY <1>0, <1>7 DEF authVars, Auth!TypeOK
<1> QED  BY <1>1, <1>5, <1>6, <1>7

LEMMA SystemInit == Init => SystemInv
<1> SUFFICES ASSUME Init  PROVE SystemInv
  OBVIOUS
<1>1. /\ chan = [c \in Channels |-> [utxo |-> [u \in Utxos |-> -1], supply |-> 0]]
      /\ bal = InitialBal /\ grants = {} /\ Auth!Init
  BY DEF Init
<1>2. Auth!TypeOK
  <2>1. Auth!FreshTtl(0, MinTtl) \in Nat  BY AuthTtlAssumption DEF Auth!FreshTtl
  <2>2. Auth!ExtendTtl(Auth!FreshTtl(0, MinTtl), 0, InstThreshold, InstBump) \in Nat
    BY <2>1, AuthTtlAssumption DEF Auth!ExtendTtl
  <2> QED  BY <1>1, <2>2, AuthTtlAssumption DEF Auth!Init, Auth!TypeOK, Auth!NoPending, Auth!Untils
<1>3. TypeOK  BY <1>1, <1>2, SystemAssumption, AmountBounds DEF TypeOK
<1>4. Books
  <2>1. Total([u \in Utxos |-> -1], Utxos) = 0  BY TotalNone
  <2> QED  BY <1>1, <2>1, SystemAssumption DEF Books
<1> QED  BY <1>3, <1>4 DEF SystemInv

LEMMA SystemStep == SystemInv /\ [Next]_vars => SystemInv'
<1> SUFFICES ASSUME SystemInv, [Next]_vars  PROVE SystemInv'
  OBVIOUS
<1>0. TypeOK /\ Books  BY DEF SystemInv
<1>1. ASSUME NEW c \in Channels, NEW o \in Ops, NEW sigs, Transact(c, o, sigs)  PROVE SystemInv'
  <2>1. Auth!CheckAuth(sigs, Contexts(c, o.spend))  BY <1>1 DEF Transact
  <2>2. Auth!TypeOK'  BY <1>0, <2>1, AuthSteps
  <2>3. /\ chan'[c].utxo \in [Utxos -> -1 .. MaxAmount] /\ chan'[c].supply \in 0 .. MaxAmount
        /\ chan' = [chan EXCEPT ![c] = [utxo |-> chan'[c].utxo, supply |-> chan'[c].supply]]
        /\ bal' \in [Addresses -> 0 .. MaxAmount] /\ grants' \subseteq grants
    BY <1>1, TransactFacts
  <2>4. chan' \in [Channels -> [utxo : [Utxos -> -1 .. MaxAmount], supply : 0 .. MaxAmount]]
    BY <1>0, <2>3 DEF TypeOK
  <2>5. TypeOK'  BY <1>0, <2>2, <2>3, <2>4 DEF TypeOK
  <2>6. ASSUME NEW e \in Channels
        PROVE  chan'[e].supply = Total(chan'[e].utxo, Utxos) /\ bal'[e] >= chan'[e].supply
    <3>1. CASE e = c  BY <1>1, <3>1, TransactFacts
    <3>2. CASE e # c
      <4>1. chan'[e] = chan[e] /\ bal'[e] >= bal[e]  BY <1>1, <3>2, TransactFacts
      <4>2. chan[e].supply = Total(chan[e].utxo, Utxos) /\ bal[e] >= chan[e].supply
        BY <1>0 DEF Books
      <4>3. bal[e] \in Int /\ bal'[e] \in Int /\ chan[e].supply \in Int
        BY <1>0, <2>3, AmountBounds DEF TypeOK, Addresses
      <4> QED  BY <4>1, <4>2, <4>3
    <3> QED  BY <3>1, <3>2
  <2> QED  BY <2>5, <2>6 DEF SystemInv, Books
<1>2. ASSUME NEW from \in Accounts, NEW to \in Addresses, AssetTransfer(from, to, 1)
      PROVE  SystemInv'
  <2>1. /\ bal' \in [Addresses -> 0 .. MaxAmount]
        /\ \A c \in Channels : bal'[c] >= bal[c]
        /\ UNCHANGED <<chan, grants, authVars>>
    BY <1>2, AssetTransferFacts
  <2>2. TypeOK'  BY <1>0, <2>1, AuthSteps DEF TypeOK
  <2>3. \A c \in Channels : bal[c] \in Int /\ bal'[c] \in Int /\ chan[c].supply \in Int
    BY <1>0, <2>1, AmountBounds DEF TypeOK, Addresses
  <2>4. Books'  BY <1>0, <2>1, <2>3 DEF Books
  <2> QED  BY <2>2, <2>4 DEF SystemInv
<1>3. ASSUME NEW c \in Channels, NEW o \in Ops, NEW d \in ToSet(o.deposit), Authorize(c, d)
      PROVE  SystemInv'
  <2>1. Auth!TypeOK'  BY <1>0, <1>3, AuthSteps DEF Authorize
  <2>2. Grant(c, d).from \in Accounts /\ Grant(c, d).channel \in Channels
    BY <1>3 DEF Authorize, Grant
  <2> QED  BY <1>0, <1>3, <2>1, <2>2 DEF Authorize, SystemInv, TypeOK, Books
<1>4. CASE (\E sig \in made : Lose(sig)) \/ AuthContract \/ UNCHANGED vars
  <2>1. UNCHANGED <<chan, bal, grants>>  BY <1>4 DEF Lose, AuthContract, vars
  <2>2. Auth!TypeOK'  BY <1>0, <1>4, AuthSteps DEF vars
  <2> QED  BY <1>0, <2>1, <2>2 DEF SystemInv, TypeOK, Books
<1> QED  BY <1>1, <1>2, <1>3, <1>4 DEF Next

LEMMA SystemInvariant == Spec => []SystemInv
BY SystemInit, SystemStep, PTL DEF Spec

(* The types of the whole system.  That a supply is an amount rests on the *)
(* channel holding the asset for it.                                       *)
THEOREM SystemTypeCorrect == Spec => []TypeOK
<1>1. SystemInv => TypeOK  BY DEF SystemInv
<1> QED  BY <1>1, SystemInvariant, PTL
-----------------------------------------------------------------------------
(* UTXOs move forward in the channel that settles.                         *)
LEMMA SettleForward ==
  ASSUME NEW l \in ChannelLedger, NEW o \in ChannelOperation,
         WellFormed(o), Balanced(l, o), NEW u \in Utxos
  PROVE  \/ UtxosAfter(l, o)[u] = l.utxo[u]
         \/ l.utxo[u] = -1 /\ UtxosAfter(l, o)[u] > 0
         \/ l.utxo[u] > 0 /\ UtxosAfter(l, o)[u] = 0
<1>1. CASE u \in SpentBy(o)  BY <1>1, UtxosAfterFacts
<1>2. CASE u \in CreatedBy(o)
  <2>1. PICK k \in DOMAIN o.create : u = o.create[k].utxo  BY <1>2, UtxosAfterFacts
  <2> QED  BY <2>1, UtxosAfterFacts
<1>3. CASE u \notin SpentBy(o) \cup CreatedBy(o)  BY <1>3, UtxosAfterFacts
<1> QED  BY <1>1, <1>2, <1>3

LEMMA SystemPromiseStep ==
  ASSUME SystemInv, [Next]_vars, NEW e \in Channels
  PROVE  Promise(e)!Next \/ UNCHANGED Promise(e)!vars
<1> USE DEF Promise!Next, Promise!vars
<1>0. \A c \in Channels : bal[c] \in Int /\ chan[c].supply \in Int
  BY AmountBounds DEF SystemInv, TypeOK, Addresses
<1>1. ASSUME NEW c \in Channels, NEW o \in Ops, NEW sigs, Transact(c, o, sigs)
      PROVE  Promise(e)!Next
  <2>1. bal' \in [Addresses -> 0 .. MaxAmount] /\ e \in Addresses
    BY <1>1, TransactFacts DEF Addresses
  <2>2. bal'[e] \in 0 .. MaxAmount /\ bal'[e] \in Int /\ bal'[e] <= MaxAmount
    BY <2>1, AmountBounds
  <2>3. CASE e = c
    <3> DEFINE l == LedgerOf(c)
    <3>1. /\ o \in ChannelOperation /\ WellFormed(o) /\ Balanced(l, o)
          /\ chan'[c].utxo = UtxosAfter(l, o)
          /\ chan'[c].utxo \in [Utxos -> -1 .. MaxAmount]
          /\ chan'[c].supply = Total(chan'[c].utxo, Utxos)
          /\ bal'[c] - bal[c] >= chan'[c].supply - chan[c].supply
      BY <1>1, TransactFacts DEF Accepts
    <3>2. l \in ChannelLedger /\ l.utxo = chan[c].utxo  BY LedgerOfFacts
    <3> HIDE DEF l
    <3>3. \A u \in Utxos : Promise(c)!Forward(chan[c].utxo[u], chan'[c].utxo[u])
      BY <3>1, <3>2, SettleForward DEF Promise!Forward
    <3>4. Promise(c)!Total(chan'[c].utxo, Utxos) = Total(chan'[c].utxo, Utxos)
      BY Zenon DEF Promise!Total, Promise!Units, Promise!Cardinality, Total, Units, Cardinality
    <3>5. Promise(c)!Settle  BY <2>2, <2>3, <3>1, <3>3, <3>4 DEF Promise!Settle
    <3> QED  BY <2>3, <3>5
  <2>4. CASE e # c
    <3>1. chan'[e] = chan[e] /\ bal'[e] >= bal[e]  BY <1>1, <2>4, TransactFacts
    <3>2. Promise(e)!Gift  BY <1>0, <2>2, <3>1, AmountBounds DEF Promise!Gift
    <3> QED  BY <3>2
  <2> QED  BY <2>3, <2>4
<1>2. ASSUME NEW from \in Accounts, NEW to \in Addresses, AssetTransfer(from, to, 1)
      PROVE  Promise(e)!Next
  <2>1. /\ bal' \in [Addresses -> 0 .. MaxAmount] /\ bal'[e] >= bal[e] /\ chan' = chan
        /\ e \in Addresses
    BY <1>2, AssetTransferFacts DEF Addresses
  <2>2. bal'[e] \in Int /\ bal'[e] <= MaxAmount  BY <2>1, AmountBounds
  <2>3. Promise(e)!Gift  BY <1>0, <2>1, <2>2, AmountBounds DEF Promise!Gift
  <2> QED  BY <2>3
<1>3. CASE UNCHANGED <<chan, bal>>  BY <1>3
<1> QED
  BY <1>1, <1>2, <1>3 DEF Next, Authorize, Lose, AuthContract, vars

(* Every channel keeps the promise of ChannelPromise, whatever the others  *)
(* do with the asset, the auth contract and the keys they share: it is     *)
(* solvent, its supply is the value of its own UTXOs, and each of them is  *)
(* created once and spent once.                                            *)
THEOREM SystemKeepsPromises == Spec => EveryChannelKeepsPromise
<1>1. Init => \A c \in Channels : Promise(c)!Init
  <2> SUFFICES ASSUME Init, NEW c \in Channels  PROVE Promise(c)!Init
    OBVIOUS
  <2>1. InitialBal[c] = 0  BY SystemAssumption
  <2> QED  BY <2>1 DEF Init, Promise!Init
<1>2. SystemInv /\ [Next]_vars =>
        [\A c \in Channels : Promise(c)!Next \/ UNCHANGED Promise(c)!vars]_vars
  BY SystemPromiseStep
<1> QED  BY <1>1, <1>2, SystemInvariant, PTL DEF Spec, EveryChannelKeepsPromise
-----------------------------------------------------------------------------
(* The creates that a signer attached are made by an executed bundle.      *)
LEMMA CreatesRealised ==
  ASSUME SystemInv, NEW c \in Channels, NEW o \in Ops, NEW sigs, Transact(c, o, sigs),
         NEW x \in ToSet(o.spend) \cup ToSet(o.deposit)
  PROVE  Realised(c, Creates(x.conds))
<1> SUFFICES ASSUME NEW d \in Creates(x.conds)
             PROVE  chan[c].utxo[d.target] = -1 /\ chan'[c].utxo[d.target] = d.amount
  BY DEF Realised
<1>1. d \in ToSet(x.conds) /\ d.kind = "Create"  BY DEF Creates
<1>2. d \in AuthorizedEffects(o)  BY <1>1 DEF AuthorizedEffects, IsExecutionBound
<1>3. /\ o \in ChannelOperation /\ WellFormed(o) /\ Balanced(LedgerOf(c), o)
      /\ chan'[c].utxo = UtxosAfter(LedgerOf(c), o)
  BY TransactFacts DEF Accepts
<1>4. d \in ExecutedEffects(o)
  BY <1>2, <1>3 DEF WellFormed, PreProcessed, AssertSignedEffectsAreExecuted
<1>5. PICK y \in ToSet(o.create) : d = Create(y.utxo, y.amount)
  BY <1>1, <1>4 DEF ExecutedEffects, ExtWithdraw
<1>6. d.target = y.utxo /\ d.amount = y.amount  BY <1>5 DEF Create
<1>7. PICK k \in DOMAIN o.create : y = o.create[k]  BY DEF ToSet
<1>8. LedgerOf(c) \in ChannelLedger /\ LedgerOf(c).utxo = chan[c].utxo  BY LedgerOfFacts
<1>9. /\ LedgerOf(c).utxo[o.create[k].utxo] = -1
      /\ UtxosAfter(LedgerOf(c), o)[o.create[k].utxo] = o.create[k].amount
  BY <1>3, <1>8, UtxosAfterFacts
<1> QED  BY <1>3, <1>6, <1>7, <1>8, <1>9

(* The withdrawals that a signer attached are paid by an executed bundle.  *)
LEMMA WithdrawsPaid ==
  ASSUME SystemInv, NEW c \in Channels, NEW o \in Ops, NEW sigs, Transact(c, o, sigs),
         NEW x \in ToSet(o.spend), NEW d \in Withdraws(x.conds)
  PROVE  PaidOut(c, d)
<1>1. d \in ToSet(x.conds) /\ d.kind = "ExtWithdraw"  BY DEF Withdraws
<1>2. d \in AuthorizedEffects(o)  BY <1>1 DEF AuthorizedEffects, IsExecutionBound
<1>3. /\ o \in ChannelOperation /\ WellFormed(o)
      /\ \A b \in Addresses : bal'[b] = Paid(c, LedgerOf(c), o, b)
  BY TransactFacts DEF Accepts
<1>4. d \in ExecutedEffects(o)
  BY <1>2, <1>3 DEF WellFormed, PreProcessed, AssertSignedEffectsAreExecuted
<1>5. PICK y \in ToSet(o.withdraw) : d = ExtWithdraw(y.addr, y.amount)
  BY <1>1, <1>4 DEF ExecutedEffects, Create
<1>6. d.target = y.addr /\ d.amount = y.amount  BY <1>5 DEF ExtWithdraw
<1>7. PICK k \in DOMAIN o.withdraw : y = o.withdraw[k]  BY DEF ToSet
<1> DEFINE t == d.target
           a == d.amount
           In == AmountFor(o.deposit, t)
           used == {g \in grants \ grants' : g.from = t}
<1>8. t \in Addresses /\ a \in Int /\ AmountFor(o.withdraw, t) = a
  <2>1. o.withdraw[k] \in ExternalItem  BY <1>3, OperationFacts
  <2>2. o.withdraw[k].amount > 0 /\ NoDuplicates(AddressesOf(o.withdraw))
    BY <1>3 DEF WellFormed, PreProcessed, ExternalAmountsOk, VerifyExternalOperations
  <2>3. /\ o.withdraw[k].addr \in Addresses
        /\ o.withdraw[k].amount \in Int /\ o.withdraw[k].amount <= MaxAmount
    BY <2>1, ItemFacts
  <2>4. AmountFor(o.withdraw, o.withdraw[k].addr) = o.withdraw[k].amount
    BY <2>2, <2>3, AmountForOne
  <2> QED  BY <1>6, <1>7, <2>3, <2>4
<1>9. LedgerOf(c).bal = bal  BY LedgerOfFacts
<1>10. bal[t] \in Int
  <2>1. bal \in [Addresses -> 0 .. MaxAmount]  BY DEF SystemInv, TypeOK
  <2> QED  BY <1>8, <2>1
<1> HIDE DEF t, a, In
<1>11. t # c => bal'[t] = (bal[t] - In) + a
  BY <1>3, <1>8, <1>9 DEF Paid, In
<1>12. grants' = grants \ {Grant(c, e) : e \in ToSet(o.deposit)}
       /\ \A e \in ToSet(o.deposit) : Grant(c, e) \in grants
  BY DEF Transact
<1>13. ASSUME NEW j \in DOMAIN o.deposit, o.deposit[j].addr = t
       PROVE  In = o.deposit[j].amount /\ Grant(c, o.deposit[j]) \in used
  <2>1. o.deposit[j] \in ExternalItem  BY <1>3, OperationFacts
  <2>2. o.deposit[j].amount > 0 /\ NoDuplicates(AddressesOf(o.deposit))
    BY <1>3 DEF WellFormed, PreProcessed, ExternalAmountsOk, VerifyExternalOperations
  <2>3. o.deposit[j].amount \in Int /\ o.deposit[j].amount <= MaxAmount
    BY <2>1, ItemFacts
  <2>4. AmountFor(o.deposit, o.deposit[j].addr) = o.deposit[j].amount
    BY <2>2, <2>3, AmountForOne
  <2>5. o.deposit[j] \in ToSet(o.deposit)  BY DEF ToSet
  <2>6. Grant(c, o.deposit[j]) \in grants \ grants'  BY <1>12, <2>5
  <2>7. Grant(c, o.deposit[j]).from = t  BY <1>13 DEF Grant
  <2> QED  BY <1>13, <2>4, <2>6, <2>7 DEF In
<1>14. ASSUME used = {}  PROVE In = 0
  BY <1>13, <1>14, AmountForNone DEF In
<1>15. ASSUME NEW g \in used  PROVE In = g.amount
  <2>1. PICK e \in ToSet(o.deposit) : g = Grant(c, e)  BY <1>12
  <2>2. g.from = e.addr /\ g.amount = e.amount  BY <2>1 DEF Grant
  <2>3. PICK j \in DOMAIN o.deposit : e = o.deposit[j]  BY DEF ToSet
  <2> QED  BY <1>13, <2>2, <2>3
<1> HIDE DEF used
<1>16. t # c => IF used = {} THEN bal'[t] = bal[t] + a
                ELSE \A g \in used : bal'[t] = bal[t] - g.amount + a
  <2>1. CASE used = {}
    <3>1. In = 0  BY <1>14, <2>1
    <3> QED  BY <1>8, <1>10, <1>11, <2>1, <3>1 DEF a
  <2>2. CASE used # {}  BY <1>11, <1>15, <2>2
  <2> QED  BY <2>1, <2>2
<1> QED  BY <1>16 DEF PaidOut, t, a, used

(* A channel takes from an account at most what the account authorized for *)
(* it, uses that authorization up, and makes every UTXO the account asked  *)
(* for in return.                                                          *)
THEOREM SystemServesDepositors == Spec => DepositorsGetTheirOutputs
<1> DEFINE Served ==
      \A c \in Channels, a \in Accounts :
        chan'[c] # chan[c] /\ bal'[a] < bal[a] =>
          \E g \in grants \ grants' :
            /\ g.from = a /\ g.channel = c
            /\ bal[a] - bal'[a] <= g.amount
            /\ Realised(c, Creates(g.conds))
<1>1. ASSUME SystemInv, Next  PROVE Served
  <2> SUFFICES ASSUME NEW c \in Channels, NEW a \in Accounts, chan'[c] # chan[c], bal'[a] < bal[a]
               PROVE  \E g \in grants \ grants' :
                        /\ g.from = a /\ g.channel = c
                        /\ bal[a] - bal'[a] <= g.amount
                        /\ Realised(c, Creates(g.conds))
    OBVIOUS
  <2>0. PICK e \in Channels, o \in Ops : \E sigs \in Attachable(o) : Transact(e, o, sigs)
    BY <1>1 DEF Next, AssetTransfer, Authorize, Lose, AuthContract
  <2>1. PICK sigs \in Attachable(o) : Transact(e, o, sigs)  BY <2>0
  <2>2. e = c  BY <1>1, <2>1, TransactFacts
  <2>3. /\ o \in ChannelOperation /\ WellFormed(o) /\ Payable(c, LedgerOf(c), o)
        /\ \A d \in ToSet(o.deposit) : Grant(c, d) \in grants \ grants'
        /\ \A x \in Addresses : bal'[x] = Paid(c, LedgerOf(c), o, x)
    BY <1>1, <2>1, <2>2, TransactFacts DEF Accepts
  <2>4. LedgerOf(c) \in ChannelLedger /\ LedgerOf(c).bal = bal /\ c \in Addresses
    BY <1>1, LedgerOfFacts
  <2>5. a \in Addresses \ {c}  BY SystemAssumption DEF Addresses
  <2>6. PICK k \in DOMAIN o.deposit : o.deposit[k].addr = a
    <3>1. ASSUME \A k \in DOMAIN o.deposit : o.deposit[k].addr # a  PROVE FALSE
      <4>1. Paid(c, LedgerOf(c), o, a) >= LedgerOf(c).bal[a]
        BY <2>3, <2>4, <2>5, <3>1, PaidFacts
      <4>2. bal'[a] >= bal[a]  BY <2>3, <2>4, <2>5, <4>1
      <4>3. bal[a] \in Int /\ bal'[a] \in Int
        <5>1. bal \in [Addresses -> 0 .. MaxAmount] /\ bal' \in [Addresses -> 0 .. MaxAmount]
          BY <1>1, <2>1, TransactFacts DEF SystemInv, TypeOK
        <5> QED  BY <2>5, <5>1, AmountBounds
      <4> QED  BY <4>2, <4>3
    <3> QED  BY <3>1
  <2> DEFINE d == o.deposit[k]
  <2>7. d \in ToSet(o.deposit)  BY DEF ToSet
  <2>8. bal[a] - bal'[a] <= d.amount
    <3>1. LedgerOf(c).bal[d.addr] - Paid(c, LedgerOf(c), o, d.addr) <= d.amount
      BY <2>3, <2>4, PaidFacts
    <3> QED  BY <2>3, <2>4, <2>5, <2>6, <3>1
  <2>9. Realised(c, Creates(d.conds))  BY <1>1, <2>1, <2>2, <2>7, CreatesRealised
  <2>10. /\ Grant(c, d).from = a /\ Grant(c, d).channel = c
         /\ Grant(c, d).amount = d.amount /\ Grant(c, d).conds = d.conds
    BY <2>6 DEF Grant
  <2>11. Grant(c, d) \in grants \ grants'  BY <2>3, <2>7
  <2> HIDE DEF d
  <2> QED  BY <2>8, <2>9, <2>10, <2>11
<1>2. SystemInv /\ [Next]_vars => [Served]_vars  BY <1>1
<1> HIDE DEF Served
<1> QED  BY <1>2, SystemInvariant, PTL DEF Spec, DepositorsGetTheirOutputs, Served
-----------------------------------------------------------------------------
(* The signatures of UTXO keys that exist are of what their owners meant.  *)
Signed ==
  \A sig \in made :
    sig.variant = "P256" => \E n \in Intents : sig = Auth!OwnerSignature(n.utxo, n.w)

LEMMA SystemSigned == Spec => []Signed
<1>1. Init => Signed  BY DEF Init, Auth!Init, Signed
<1>2. Signed /\ [Next]_vars => Signed'
  <2> SUFFICES ASSUME Signed, [Next]_vars  PROVE Signed'
    OBVIOUS
  <2>1. ASSUME made' \subseteq made  PROVE Signed'  BY <2>1 DEF Signed
  <2>2. ASSUME NEW c \in Channels, NEW o \in Ops, NEW sigs, Transact(c, o, sigs)  PROVE Signed'
    BY <2>1, <2>2 DEF Transact, Auth!CheckAuth
  <2>3. ASSUME NEW n \in Intents, Auth!Sign(Auth!OwnerSignature(n.utxo, n.w))  PROVE Signed'
    BY <2>3 DEF Signed, Auth!Sign
  <2>4. ASSUME NEW p \in Providers, NEW cs, Auth!Sign(Auth!ProviderSignature(p, cs))  PROVE Signed'
    BY <2>4 DEF Signed, Auth!Sign, Auth!ProviderSignature
  <2>5. CASE AuthContract
    <3>1. CASE \/ \E p \in Providers : Auth!AddProvider(Admin, p) \/ Auth!RemoveProvider(Admin, p)
               \/ Auth!CloseLedger
      BY <2>1, <3>1 DEF Auth!AddProvider, Auth!RemoveProvider, Auth!CloseLedger
    <3> QED  BY <2>3, <2>4, <2>5, <3>1 DEF AuthContract
  <2>6. ASSUME NEW sig \in made, Lose(sig)  PROVE Signed'  BY <2>1, <2>6 DEF Lose
  <2>7. CASE UNCHANGED authVars  BY <2>1, <2>7 DEF authVars
  <2> QED  BY <2>2, <2>5, <2>6, <2>7 DEF Next, Authorize, AssetTransfer, vars
<1> QED  BY <1>1, <1>2, PTL DEF Spec

(* The auth contract encodes conditions as everybody does.                 *)
LEMMA SamePayload ==
  ASSUME NEW conds, NEW until, NEW contract
  PROVE  Auth!HashPayload(conds, until, contract) = HashPayload(conds, until, contract)
<1>1. ASSUME NEW kind  PROVE Auth!Group(conds, kind) = Group(conds, kind)
  <2>1. ASSUME NEW parts  PROVE Auth!FlattenSeq(parts) = FlattenSeq(parts)
    BY Zenon DEF Auth!FlattenSeq, FlattenSeq
  <2>2. ASSUME NEW c  PROVE Auth!Tokens(c) = Tokens(c)
    BY Zenon DEF Auth!Tokens, Tokens
  <2>3. [k \in DOMAIN conds |-> IF conds[k].kind = kind THEN Auth!Tokens(conds[k]) ELSE <<>>]
      = [k \in DOMAIN conds |-> IF conds[k].kind = kind THEN Tokens(conds[k]) ELSE <<>>]
    BY <2>2
  <2> QED  BY <2>1, <2>3, Zenon DEF Auth!Group, Group
<1>2. /\ Auth!Group(conds, "Create") = Group(conds, "Create")
      /\ Auth!Group(conds, "ExtDeposit") = Group(conds, "ExtDeposit")
      /\ Auth!Group(conds, "ExtWithdraw") = Group(conds, "ExtWithdraw")
      /\ Auth!Group(conds, "ExtIntegration") = Group(conds, "ExtIntegration")
  BY <1>1
<1>3. Auth!Buffers(conds) = Buffers(conds)  BY <1>2, Zenon DEF Auth!Buffers, Buffers
<1>4. /\ Auth!CreatesAt(conds) = CreatesAt(conds) /\ Auth!OthersAt(conds) = OthersAt(conds)
      /\ Auth!KeysAt(conds) = KeysAt(conds)
  BY Zenon DEF Auth!CreatesAt, CreatesAt, Auth!OthersAt, OthersAt, Auth!KeysAt, KeysAt
<1>5. ASSUME NEW S  PROVE Auth!Cardinality(S) = Cardinality(S)
  BY Zenon DEF Auth!Cardinality, Cardinality
<1>6. Auth!Size(conds) = Size(conds)  BY <1>4, <1>5, Zenon DEF Auth!Size, Size
<1>7. Auth!Fixed(conds) = Fixed(conds)  BY <1>4, <1>5, Zenon DEF Auth!Fixed, Fixed
<1> QED  BY <1>3, <1>6, <1>7, Zenon DEF Auth!HashPayload, HashPayload

(* The terms that the owner signed are among those that the bundle lists.  *)
TermsListed(signed, conds) ==
  /\ Creates(signed) \subseteq Creates(conds)
  /\ \A d \in ToSet(signed) : \E e \in ToSet(conds) :
       e.target = d.target /\ e.amount = d.amount

(* What the owner of u signed and the bundle realises: the right-hand side *)
(* of OwnersGetTheirOutputs.                                               *)
Served(sig, c, u) ==
  /\ SignedInTime(sig, c, u)
  /\ Fixed(sig.intent.conds) /\ Fixed(Listed(u)) =>
       /\ Realised(c, Creates(sig.intent.conds))
       /\ \A d \in Withdraws(sig.intent.conds) :
            \/ PaidOut(c, d)
            \/ \E e \in ToSet(Listed(u)) :
                 e.kind # d.kind /\ e.target = d.target /\ e.amount = d.amount

(* The signature a bundle brings for a UTXO it spends: the one the auth    *)
(* contract looks up, for conditions that the bundle lists with the UTXO.  *)
Brings(sig, u, until, conds, c) ==
  /\ sig.variant = "P256" /\ sig.pk = u /\ until >= seq
  /\ SameBytes(sig.msg, HashPayload(conds, until, c))

LEMMA SpendIsSigned ==
  ASSUME NEW c \in Channels, NEW o \in Ops, NEW sigs \in Attachable(o), Transact(c, o, sigs),
         NEW u \in SpentBy(o)
  PROVE  \E sig \in made, x \in ToSet(o.spend) :
           Listed(u) = x.conds /\ \E until : Brings(sig, u, until, x.conds, c)
<1> DEFINE reqs == CalculateAuthRequirements(o.spend)
           ctx == [kind |-> "contract", contract |-> c,
                   arg |-> IF o.spend = <<>> THEN "none" ELSE "reqs", reqs |-> reqs]
           s == P256(u)
<1>1. o.spend \in Seq(SpendItem)  BY OpsAssumption DEF ChannelOperation
<1>2. PICK k \in DOMAIN o.spend : o.spend[k].utxo = u  BY <1>1 DEF SpentBy, UtxosOf, ToSet
<1>3. o.spend # <<>>  BY <1>1, <1>2
<1>4. o.spend[k] \in ToSet(o.spend)  BY <1>1, <1>2 DEF ToSet
<1>5. s \in {P256(x.utxo) : x \in ToSet(o.spend)}  BY <1>2, <1>4
<1>6. PICK x \in ToSet(o.spend) : reqs[s] = x.conds
  <2>1. \E x \in ToSet(o.spend) : P256(x.utxo) = s  BY <1>2, <1>4
  <2>2. (CHOOSE x \in ToSet(o.spend) : P256(x.utxo) = s) \in ToSet(o.spend)  BY <2>1, Zenon
  <2> QED  BY <1>5, <2>2 DEF CalculateAuthRequirements
<1>7. s \in DOMAIN reqs  BY <1>5 DEF CalculateAuthRequirements
<1> HIDE DEF reqs
<1>8. Auth!ContextMet(sigs, ctx, seq)
  <2>1. Auth!HandleUtxoAuth(sigs, <<ctx>>, seq)
    BY DEF Transact, Auth!CheckAuth, Contexts, reqs
  <2> HIDE DEF ctx
  <2> QED  BY <2>1 DEF Auth!HandleUtxoAuth
<1>9. Auth!RequirementMet(sigs, c, s, reqs[s], seq)
  BY <1>3, <1>7, <1>8 DEF Auth!ContextMet
<1>10. s.kind = "P256" /\ s.pk = u  BY DEF P256
<1>11. /\ s \in DOMAIN sigs /\ sigs[s].until >= seq
       /\ Auth!VerifySignature(s, sigs[s].sig, Auth!HashPayload(reqs[s], sigs[s].until, c))
  BY <1>9, <1>10 DEF Auth!RequirementMet
<1>12. sigs[s].sig \in made  BY <1>11 DEF Attachable
<1>13. /\ sigs[s].sig.variant = "P256" /\ sigs[s].sig.pk = u
       /\ Auth!SameBytes(sigs[s].sig.msg, HashPayload(x.conds, sigs[s].until, c))
  BY <1>6, <1>10, <1>11, SamePayload DEF Auth!VerifySignature
<1>14. SameBytes(sigs[s].sig.msg, HashPayload(x.conds, sigs[s].until, c))
  BY <1>13, Zenon DEF Auth!SameBytes, SameBytes
<1>15. Listed(u) = x.conds
  <2>1. last' = Contexts(c, o.spend)  BY DEF Transact, Auth!CheckAuth
  <2>2. Contexts(c, o.spend)[1].reqs = reqs  BY DEF Contexts, reqs
  <2> QED  BY <1>6, <2>1, <2>2 DEF Listed
<1> QED  BY <1>11, <1>12, <1>13, <1>14, <1>15 DEF Brings

(* An amount is an integer.                                                *)
LEMMA IntegerConds ==
  ASSUME NEW conds \in Conds
  PROVE  conds \in Seq(Condition(Utxos, Addresses, Int))
<1>1. Condition(Utxos, Addresses, I128) \subseteq Condition(Utxos, Addresses, Int)
  BY AmountBounds DEF Condition
<1> QED  BY <1>1 DEF Conds

(* The bundle lists what the owner signed for this channel and ledger,     *)
(* although the payload the signature is over says neither how many        *)
(* conditions there are nor of which kinds.                                *)
LEMMA SignedTermsListed ==
  ASSUME NEW conds \in Conds, NEW until, NEW contract,
         NEW signed \in Conds, NEW expiry, NEW signedFor,
         Fixed(conds), Fixed(signed),
         SameBytes(HashPayload(signed, expiry, signedFor), HashPayload(conds, until, contract))
  PROVE  TermsListed(signed, conds)
<1> DEFINE C == Condition(Utxos, Addresses, Int)
<1>1. conds \in Seq(C) /\ signed \in Seq(C)  BY IntegerConds
<1>2. Utxos \cap Addresses = {} /\ (Utxos \cup Addresses) \cap Int = {}  BY IntentsAssumption
<1>3. SameTerms(conds, until, contract, signed, expiry, signedFor)
  BY <1>1, <1>2, PayloadBinds, Zenon
<1>4. \A d \in ToSet(signed) : \E e \in ToSet(conds) : e.target = d.target /\ e.amount = d.amount
  BY <1>3 DEF SameTerms
<1>5. ASSUME NEW d \in Creates(signed)  PROVE d \in Creates(conds)
  <2>1. PICK e \in ToSet(conds) : e.target = d.target /\ e.amount = d.amount
    BY <1>4 DEF Creates
  <2>2. d \in C /\ e \in C  BY <1>1 DEF ToSet, Creates
  <2>3. e = d  BY <1>2, <2>1, <2>2, CreateDetermined DEF Creates
  <2> QED  BY <2>1, <2>3 DEF Creates
<1> QED  BY <1>4, <1>5 DEF TermsListed

LEMMA OwnerServed ==
  ASSUME SystemInv, Signed, NEW c \in Channels, NEW o \in Ops, NEW sigs \in Attachable(o),
         Transact(c, o, sigs), NEW u \in SpentBy(o)
  PROVE  \E sig \in made : Served(sig, c, u)
<1>1. PICK sig \in made, x \in ToSet(o.spend) :
        Listed(u) = x.conds /\ \E until : Brings(sig, u, until, x.conds, c)
  BY SpendIsSigned
<1>2. PICK until : Brings(sig, u, until, x.conds, c)  BY <1>1
<1>3. PICK n \in Intents : sig = Auth!OwnerSignature(n.utxo, n.w)
  BY <1>2 DEF Signed, Brings
<1>4. sig.intent = n.w /\ sig.msg = HashPayload(n.w.conds, n.w.until, n.w.contract)
  BY <1>3, SamePayload DEF Auth!OwnerSignature
<1> DEFINE signed == n.w.conds
           expiry == n.w.until
           signedFor == n.w.contract
           conds == x.conds
<1>5. signed \in Conds  BY IntentsAssumption
<1>6. conds \in Conds
  <2>1. o.spend \in Seq(SpendItem)  BY OpsAssumption DEF ChannelOperation
  <2>2. x \in SpendItem  BY <2>1 DEF ToSet
  <2> QED  BY <2>2 DEF SpendItem
<1>7. SameBytes(HashPayload(signed, expiry, signedFor), HashPayload(conds, until, c))
  BY <1>2, <1>4, Zenon DEF Brings
<1>8. /\ sig.intent.conds = signed /\ sig.intent.until = expiry
      /\ sig.intent.contract = signedFor /\ Listed(u) = conds
  BY <1>1, <1>4
<1>9. Realised(c, Creates(conds))  BY CreatesRealised
<1>10. \A e \in Withdraws(conds) : PaidOut(c, e)  BY WithdrawsPaid
<1> HIDE DEF signed, expiry, signedFor, conds
<1>11. SignedInTime(sig, c, u)
  <2>1. signedFor = c /\ expiry = until  BY <1>7 DEF SameBytes, HashPayload
  <2> QED  BY <1>2, <1>8, <2>1 DEF Brings, SignedInTime
<1>12. ASSUME Fixed(signed), Fixed(conds)
       PROVE  /\ Realised(c, Creates(signed))
              /\ \A d \in Withdraws(signed) :
                   \/ PaidOut(c, d)
                   \/ \E e \in ToSet(conds) :
                        e.kind # d.kind /\ e.target = d.target /\ e.amount = d.amount
  <2>1. TermsListed(signed, conds)  BY <1>5, <1>6, <1>7, <1>12, SignedTermsListed, Zenon
  <2>2. Realised(c, Creates(signed))  BY <1>9, <2>1 DEF Realised, TermsListed
  <2>3. ASSUME NEW d \in Withdraws(signed)
        PROVE  \/ PaidOut(c, d)
               \/ \E e \in ToSet(conds) :
                    e.kind # d.kind /\ e.target = d.target /\ e.amount = d.amount
    <3>1. d \in ToSet(signed) /\ d.kind = "ExtWithdraw"  BY DEF Withdraws
    <3>2. PICK e \in ToSet(conds) : e.target = d.target /\ e.amount = d.amount
      BY <2>1, <3>1 DEF TermsListed
    <3>3. CASE e.kind # d.kind  BY <3>2, <3>3
    <3>4. CASE e.kind = d.kind
      <4>1. PaidOut(c, e)  BY <1>10, <3>1, <3>4 DEF Withdraws
      <4> QED  BY <3>2, <4>1 DEF PaidOut
    <3> QED  BY <3>3, <3>4
  <2> QED  BY <2>2, <2>3
<1> QED  BY <1>8, <1>11, <1>12 DEF Served

(* Nobody's UTXO leaves a channel without a signature of its owner for     *)
(* that channel, still valid; where size fixes shape, its creates all      *)
(* happen in the same step, and its withdrawals are paid or listed under   *)
(* another kind.                                                           *)
(* The proof goes from what transact asks of the auth contract over what   *)
(* the auth contract verifies to what the signed payload binds the owner   *)
(* to, and back to the checks of transact that realise it.                 *)
THEOREM SystemServesOwners == Spec => OwnersGetTheirOutputs
<1> DEFINE Goal ==
      \A c \in Channels, u \in Utxos :
        LeavesChannel(c, u) => \E sig \in made : Served(sig, c, u)
<1>1. SystemInv /\ Signed /\ [Next]_vars => [Goal]_vars
  <2> SUFFICES ASSUME SystemInv, Signed, Next, NEW c \in Channels, NEW u \in Utxos,
                      LeavesChannel(c, u)
               PROVE  \E sig \in made : Served(sig, c, u)
    OBVIOUS
  <2>0. chan[c].utxo[u] > 0 /\ chan'[c].utxo[u] # chan[c].utxo[u]  BY DEF LeavesChannel
  <2>1. chan' # chan  BY <2>0
  <2>2. PICK e \in Channels, o \in Ops : \E sigs \in Attachable(o) : Transact(e, o, sigs)
    BY <2>1 DEF Next, Authorize, AssetTransfer, Lose, AuthContract
  <2>3. PICK sigs \in Attachable(o) : Transact(e, o, sigs)  BY <2>2
  <2>4. e = c  BY <2>0, <2>3, TransactFacts
  <2>5. LedgerOf(c) \in ChannelLedger /\ LedgerOf(c).utxo = chan[c].utxo  BY LedgerOfFacts
  <2>6. /\ o \in ChannelOperation /\ Accepts(c, LedgerOf(c), o)
        /\ chan'[c].utxo = UtxosAfter(LedgerOf(c), o)
    BY <2>3, <2>4, TransactFacts
  <2>7. u \in SpentBy(o)
    <3>1. WellFormed(o) /\ Balanced(LedgerOf(c), o)  BY <2>6 DEF Accepts
    <3> QED  BY <2>0, <2>5, <2>6, <3>1, UtxosAfterFacts
  <2> QED  BY <2>3, <2>4, <2>7, OwnerServed
<1>2. [Goal]_vars =>
        [\A c \in Channels, u \in Utxos : LeavesChannel(c, u) =>
           \E sig \in made :
             /\ SignedInTime(sig, c, u)
             /\ Fixed(sig.intent.conds) /\ Fixed(Listed(u)) =>
                  /\ Realised(c, Creates(sig.intent.conds))
                  /\ \A d \in Withdraws(sig.intent.conds) :
                       \/ PaidOut(c, d)
                       \/ \E e \in ToSet(Listed(u)) :
                            e.kind # d.kind /\ e.target = d.target /\ e.amount = d.amount]_vars
  BY Zenon DEF Served
<1> QED  BY <1>1, <1>2, SystemInvariant, SystemSigned, PTL DEF Spec, OwnersGetTheirOutputs
=============================================================================
