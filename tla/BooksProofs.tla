----------------------------- MODULE BooksProofs -----------------------------
(***************************************************************************)
(* Proofs about Money, Payments and Books: what settling a payment makes   *)
(* of the accounts, of the settlements table and of their totals, for any  *)
(* parties, transactions, amounts and opening accounts.                    *)
(***************************************************************************)
EXTENDS Books, Sums

-----------------------------------------------------------------------------
(***************************************************************************)
(* Facts about money.                                                      *)
(***************************************************************************)

\* A non-negative value in memory is stored as a natural number of cents.
LEMMA StoredType == ASSUME NEW x \in Nat PROVE Stored(x) \in Nat
  BY DEF Stored

\* A whole number of cents is stored as it is.
LEMMA StoredLoaded == ASSUME NEW c \in Nat PROVE Stored(Loaded(c)) = c
  BY DEF Stored, Loaded

LEMMA MoneyTypes ==
  ASSUME NEW a \in Nat
  PROVE  /\ Loaded(a) \in Nat
         /\ ProcessingFee(a) \in Nat
         /\ MerchantCredit(a) \in Nat
         /\ ProcessingFee(a) + MerchantCredit(a) = Loaded(a)
         /\ ProcessingFee(a) <= Loaded(a)
  BY DEF Loaded, ProcessingFee, MerchantCredit

\* Taking whole cents from whole cents leaves whole cents.
LEMMA LoadedDifference ==
  ASSUME NEW b \in Nat, NEW a \in Nat, b >= a
  PROVE  /\ b - a \in Nat
         /\ Loaded(b) - Loaded(a) = Loaded(b - a)
         /\ Loaded(b) - Loaded(a) \in Nat
  BY DEF Loaded

LEMMA LoadedOrder ==
  ASSUME NEW b \in Nat, NEW a \in Nat
  PROVE  Loaded(b) >= Loaded(a) <=> b >= a
  BY DEF Loaded

(***************************************************************************)
(* For every amount, the stored fee and net amount exceed the gross amount *)
(* by one cent if the fee ends in half a cent, and add up to it if not     *)
(* (settlement.py 138, 139, 169 to 171).                                   *)
(***************************************************************************)
THEOREM FeeRounding == \A amount \in Nat : RoundingSlack(amount)
  BY DEF RoundingSlack, Stored, ProcessingFee, MerchantCredit, Loaded, HalfCentFee

-----------------------------------------------------------------------------
(***************************************************************************)
(* The accounts after a payment.                                           *)
(***************************************************************************)

\* What settling t makes of the row of party p.
Changed(row, t, p) ==
    CASE p = Payer[t] /\ p = Payee[t] ->
           [balance |-> Stored(Loaded(row.balance) - ProcessingFee(Amount[t])),
            version |-> Opened(row).version + 2]
      [] p = Payer[t] /\ p # Payee[t] ->
           [balance |-> row.balance - Amount[t],
            version |-> Opened(row).version + 1]
      [] p # Payer[t] /\ p = Payee[t] ->
           [balance |-> Stored(Loaded(row.balance) + MerchantCredit(Amount[t])),
            version |-> Opened(row).version + 1]
      [] OTHER -> row

\* Transferred, party by party: the new row depends on the old row alone.
LEMMA TransferredAt ==
  ASSUME NEW accounts \in [Parties -> Account], NEW t \in Txns, NEW p \in Parties
  PROVE  Transferred(accounts, t)[p] = Changed(accounts[p], t, p)
  <1>1. Payer[t] \in Parties /\ Payee[t] \in Parties
    BY PartiesAssumption
  <1>2. CASE p = Payer[t] /\ p = Payee[t]
    BY <1>1, <1>2 DEF Transferred, Changed
  <1>3. CASE p = Payer[t] /\ p # Payee[t]
    BY <1>1, <1>3 DEF Transferred, Changed
  <1>4. CASE p # Payer[t] /\ p = Payee[t]
    BY <1>1, <1>4 DEF Transferred, Changed
  <1>5. CASE p # Payer[t] /\ p # Payee[t]
    BY <1>1, <1>5 DEF Transferred, Changed
  <1>. QED
    BY <1>2, <1>3, <1>4, <1>5

LEMMA TransferredDomain ==
  ASSUME NEW accounts \in [Parties -> Account], NEW t \in Txns
  PROVE  Transferred(accounts, t) = [p \in Parties |-> Transferred(accounts, t)[p]]
  <1>1. CASE Payer[t] = Payee[t]
    BY <1>1 DEF Transferred
  <1>2. CASE Payer[t] # Payee[t]
    BY <1>2 DEF Transferred
  <1>. QED
    BY <1>1, <1>2

\* A payment that the payer can afford leaves natural numbers of cents.
LEMMA TransferredType ==
  ASSUME NEW accounts \in [Parties -> Account], NEW t \in Txns,
         accounts[Payer[t]].balance >= Amount[t]
  PROVE  Transferred(accounts, t) \in [Parties -> Account]
  <1>. DEFINE from == Payer[t]
              to   == Payee[t]
              amt  == Amount[t]
  <1>1. /\ from \in Parties /\ to \in Parties /\ amt \in Nat
        /\ accounts[from] \in Account /\ accounts[to] \in Account
    BY PartiesAssumption, AmountAssumption
  <1>2. /\ accounts[from].balance \in Nat /\ accounts[to].balance \in Nat
        /\ accounts[from].balance >= amt
        /\ Opened(accounts[from]).version \in Nat /\ Opened(accounts[to]).version \in Nat
    BY <1>1 DEF Account, Opened
  <1>3. /\ accounts[from].balance - amt \in Nat
        /\ Stored(Loaded(accounts[to].balance) + MerchantCredit(amt)) \in Nat
        /\ Stored(Loaded(accounts[from].balance) - ProcessingFee(amt)) \in Nat
    BY <1>1, <1>2 DEF Stored, Loaded, MerchantCredit, ProcessingFee
  <1>. DEFINE own  == [balance |-> Stored(Loaded(accounts[from].balance) - ProcessingFee(amt)),
                       version |-> Opened(accounts[from]).version + 2]
              paid == [balance |-> accounts[from].balance - amt,
                       version |-> Opened(accounts[from]).version + 1]
              got  == [balance |-> Stored(Loaded(accounts[to].balance) + MerchantCredit(amt)),
                       version |-> Opened(accounts[to]).version + 1]
  <1>4. own \in Account /\ paid \in Account /\ got \in Account
    BY <1>2, <1>3 DEF Account
  <1>. HIDE DEF own, paid, got
  <1>5. CASE from = to
    <2>1. Transferred(accounts, t) = [accounts EXCEPT ![from] = own]
      BY <1>1, <1>5 DEF Transferred, own
    <2>. QED
      BY <1>1, <1>4, <2>1
  <1>6. CASE from # to
    <2>1. Transferred(accounts, t) = [accounts EXCEPT ![from] = paid, ![to] = got]
      BY <1>1, <1>6 DEF Transferred, paid, got
    <2>. QED
      BY <1>1, <1>4, <2>1
  <1>. QED
    BY <1>5, <1>6

-----------------------------------------------------------------------------
(***************************************************************************)
(* The settlements table after a payment.                                  *)
(***************************************************************************)

LEMMA RowTypes ==
  ASSUME NEW t \in Txns
  PROVE  SettlementRow(t) \in Rows /\ SettlementRow(t).txn = t
  BY DEF SettlementRow, Rows

LEMMA AppendedRow ==
  ASSUME NEW table \in Seq(Rows), NEW u \in Txns, NEW t
  PROVE  IsSettled(Append(table, SettlementRow(u)), t) <=> IsSettled(table, t) \/ t = u
  <1>. DEFINE longer == Append(table, SettlementRow(u))
  <1>1. /\ Len(table) \in Nat
        /\ DOMAIN longer = 1 .. Len(table) + 1
        /\ DOMAIN table = 1 .. Len(table)
        /\ \A i \in 1 .. Len(table) : longer[i] = table[i]
        /\ longer[Len(table) + 1] = SettlementRow(u)
    OBVIOUS
  <1>2. longer[Len(table) + 1].txn = u
    BY <1>1, RowTypes
  <1>3. \A i \in DOMAIN longer : i \in DOMAIN table \/ i = Len(table) + 1
    BY <1>1
  <1>4. Len(table) + 1 \in DOMAIN longer /\ DOMAIN table \subseteq DOMAIN longer
    BY <1>1
  <1>5. ASSUME NEW i \in DOMAIN longer, longer[i].txn = t
        PROVE  IsSettled(table, t) \/ t = u
    BY <1>1, <1>2, <1>3, <1>5 DEF IsSettled, RowsOf
  <1>6. ASSUME IsSettled(table, t) \/ t = u
        PROVE  \E i \in DOMAIN longer : longer[i].txn = t
    BY <1>1, <1>2, <1>4, <1>6 DEF IsSettled, RowsOf
  <1>. QED
    BY <1>5, <1>6 DEF IsSettled, RowsOf


\* A longer table: its rows are those of the shorter one and the new one.
LEMMA Longer ==
  ASSUME NEW table \in Seq(Rows), NEW t \in Txns
  PROVE  /\ Append(table, SettlementRow(t)) \in Seq(Rows)
         /\ Len(table) \in Nat
         /\ Len(Append(table, SettlementRow(t))) = Len(table) + 1
         /\ DOMAIN table = 1 .. Len(table)
         /\ DOMAIN Append(table, SettlementRow(t)) = 1 .. Len(table) + 1
         /\ \A i \in 1 .. Len(table) : Append(table, SettlementRow(t))[i] = table[i]
         /\ Append(table, SettlementRow(t))[Len(table) + 1] = SettlementRow(t)
  BY RowTypes

-----------------------------------------------------------------------------
(***************************************************************************)
(* Replaying a settlements table: the recursion that defines Replay has a  *)
(* solution, and replaying a longer table begins as the shorter one does.  *)
(***************************************************************************)

ReplayStep(f, table, n) == IF n = 0 THEN Opening ELSE Transferred(f[n - 1], table[n].txn)

IsReplay(f, table) == f = [n \in 0 .. Len(table) |-> ReplayStep(f, table, n)]

LEMMA ReplayExists ==
  ASSUME NEW table, Len(table) \in Nat
  PROVE  \E f : IsReplay(f, table)
  <1>. DEFINE Right(f, n) ==
                /\ f = [i \in 0 .. Len(table) |-> f[i]]
                /\ \A i \in 0 .. Len(table) : i <= n => f[i] = ReplayStep(f, table, i)
              Done == {n \in Nat : \E f : Right(f, n)}
  <1>1. 0 \in Done
    <2>. DEFINE f == [i \in 0 .. Len(table) |-> Opening]
    <2>1. Right(f, 0)
      BY DEF ReplayStep
    <2>. HIDE DEF f, Right
    <2>. QED
      BY <2>1
  <1>2. ASSUME NEW n \in Nat, n \in Done
        PROVE  n + 1 \in Done
    <2>1. PICK f : Right(f, n)
      BY <1>2
    <2>. DEFINE g == [i \in 0 .. Len(table) |-> ReplayStep(f, table, i)]
    <2>2. \A i \in 0 .. Len(table) : i <= n => g[i] = f[i]
      BY <2>1
    <2>3. ASSUME NEW i \in 0 .. Len(table), i <= n + 1
          PROVE  g[i] = ReplayStep(g, table, i)
      <3>1. g[i] = ReplayStep(f, table, i)
        OBVIOUS
      <3>2. i # 0 => g[i - 1] = f[i - 1]
        BY <2>2, <2>3
      <3>. HIDE DEF g
      <3>. QED
        BY <3>1, <3>2 DEF ReplayStep
    <2>4. Right(g, n + 1)
      BY <2>3
    <2>5. n + 1 \in Nat
      OBVIOUS
    <2>. HIDE DEF g, Right
    <2>. QED
      BY <2>4, <2>5
  <1>3. Len(table) \in Done
    <2>. HIDE DEF Done
    <2>. QED
      BY <1>1, <1>2, SetInduction
  <1>4. PICK f : Right(f, Len(table))
    BY <1>3
  <1>. QED
    BY <1>4 DEF IsReplay

LEMMA ReplayIs ==
  ASSUME NEW table, Len(table) \in Nat
  PROVE  /\ \A n \in 0 .. Len(table) : Replay(table)[n] = ReplayStep(Replay(table), table, n)
         /\ Replay(table)[0] = Opening
  <1>1. Replay(table) = CHOOSE f : IsReplay(f, table)
    BY DEF Replay, IsReplay, ReplayStep
  <1>2. IsReplay(Replay(table), table)
    BY <1>1, ReplayExists
  <1>3. \A n \in 0 .. Len(table) : Replay(table)[n] = ReplayStep(Replay(table), table, n)
    <2>. DEFINE f == Replay(table)
    <2>1. f = [n \in 0 .. Len(table) |-> ReplayStep(f, table, n)]
      BY <1>2 DEF IsReplay
    <2>. HIDE DEF f
    <2>2. \A n \in 0 .. Len(table) : f[n] = ReplayStep(f, table, n)
      BY <2>1
    <2>. QED
      BY <2>2 DEF f
  <1>. QED
    BY <1>3 DEF ReplayStep

(***************************************************************************)
(* The books after one more settlement are the books before it, with that  *)
(* settlement's effect: what is replayed does not depend on what follows.  *)
(***************************************************************************)
THEOREM ReplayLonger ==
  ASSUME NEW table \in Seq(Rows), NEW t \in Txns
  PROVE  Replay(Append(table, SettlementRow(t)))[Len(table) + 1]
             = Transferred(Replay(table)[Len(table)], t)
  <1>. DEFINE longer == Append(table, SettlementRow(t))
              Done   == {n \in Nat : n <= Len(table) => Replay(longer)[n] = Replay(table)[n]}
  <1>1. /\ longer \in Seq(Rows)
        /\ Len(table) \in Nat
        /\ Len(longer) = Len(table) + 1
        /\ \A i \in 1 .. Len(table) : longer[i] = table[i]
        /\ longer[Len(table) + 1] = SettlementRow(t)
    BY Longer
  <1>. HIDE DEF longer
  <1>2. /\ \A n \in 0 .. Len(table) : Replay(table)[n] = ReplayStep(Replay(table), table, n)
        /\ \A n \in 0 .. Len(longer) : Replay(longer)[n] = ReplayStep(Replay(longer), longer, n)
        /\ Replay(table)[0] = Replay(longer)[0]
    BY <1>1, ReplayIs
  <1>3. 0 \in Done
    BY <1>2
  <1>4. ASSUME NEW n \in Nat, n \in Done
        PROVE  n + 1 \in Done
    <2>1. SUFFICES ASSUME n + 1 <= Len(table)
                   PROVE  Replay(longer)[n + 1] = Replay(table)[n + 1]
      OBVIOUS
    <2>2. /\ n + 1 \in 0 .. Len(table) /\ n + 1 \in 0 .. Len(longer)
          /\ n + 1 \in 1 .. Len(table)
          /\ n + 1 # 0 /\ (n + 1) - 1 = n
      BY <1>1, <2>1
    <2>3. Replay(longer)[n] = Replay(table)[n] /\ longer[n + 1] = table[n + 1]
      BY <1>1, <1>4, <2>1, <2>2
    <2>4. /\ Replay(table)[n + 1] = ReplayStep(Replay(table), table, n + 1)
          /\ Replay(longer)[n + 1] = ReplayStep(Replay(longer), longer, n + 1)
      BY <1>2, <2>2
    <2>. QED
      BY <2>2, <2>3, <2>4 DEF ReplayStep
  <1>5. Replay(longer)[Len(table)] = Replay(table)[Len(table)]
    <2>1. Nat \subseteq Done
      <3>. HIDE DEF Done
      <3>. QED
        BY <1>3, <1>4, SetInduction
    <2>2. Len(table) \in Done /\ Len(table) <= Len(table)
      BY <1>1, <2>1
    <2>. QED
      BY <2>2
  <1>6. Replay(longer)[Len(table) + 1] = ReplayStep(Replay(longer), longer, Len(table) + 1)
    BY <1>1, <1>2
  <1>7. Replay(longer)[Len(table) + 1]
            = Transferred(Replay(longer)[Len(table)], longer[Len(table) + 1].txn)
    <2>1. Len(table) + 1 # 0 /\ (Len(table) + 1) - 1 = Len(table)
      BY <1>1
    <2>. QED
      BY <1>6, <2>1 DEF ReplayStep
  <1>8. Replay(longer)[Len(table) + 1] = Transferred(Replay(table)[Len(table)], t)
    BY <1>1, <1>5, <1>7, RowTypes
  <1>. QED
    BY <1>8 DEF longer

-----------------------------------------------------------------------------
(***************************************************************************)
(* The totals.                                                             *)
(***************************************************************************)

\* The payee is credited with what is stored as the net amount, whether the
\* payee is the payer or somebody else: adding whole cents and rounding
\* commute.
LEMMA CreditIsNet ==
  ASSUME NEW b \in Nat, NEW a \in Nat
  PROVE  /\ Stored(Loaded(b) + MerchantCredit(a)) = b + Stored(MerchantCredit(a))
         /\ Stored(Loaded(b) - ProcessingFee(a)) = b - a + Stored(MerchantCredit(a))
         /\ Stored(MerchantCredit(a)) \in Nat
         /\ Stored(MerchantCredit(a)) <= a
  BY DEF Stored, Loaded, MerchantCredit, ProcessingFee

(***************************************************************************)
(* A payment takes from the total of the accounts what its settlement row  *)
(* says was kept back, gross minus net, and nothing else (settlement.py    *)
(* 127 to 144, 169 to 171).                                                *)
(***************************************************************************)
THEOREM TransferTotal ==
  ASSUME IsFiniteSet(Parties), NEW accounts \in [Parties -> Account], NEW t \in Txns,
         accounts[Payer[t]].balance >= Amount[t]
  PROVE  /\ Total(accounts) \in Int
         /\ Total(Transferred(accounts, t))
                = Total(accounts) - (SettlementRow(t).gross - SettlementRow(t).net)
  <1>. DEFINE from  == Payer[t]
              to    == Payee[t]
              a     == Amount[t]
              net   == Stored(MerchantCredit(a))
              after == Transferred(accounts, t)
              f     == [p \in Parties |-> accounts[p].balance]
              g     == [p \in Parties |-> after[p].balance]
  <1>1. /\ from \in Parties /\ to \in Parties /\ a \in Nat
        /\ \A p \in Parties : f[p] \in Nat
        /\ net \in Nat
    BY PartiesAssumption, AmountAssumption, CreditIsNet DEF Account
  <1>2. \A p \in Parties : g[p] = Changed(accounts[p], t, p).balance
    BY TransferredAt
  <1>3. \A p \in Parties \ {from, to} : g[p] = f[p]
    BY <1>2 DEF Changed
  <1>4. from = to => g[from] = f[from] - a + net
    BY <1>1, <1>2, CreditIsNet DEF Changed
  <1>5. from # to => g[from] = f[from] - a /\ g[to] = f[to] + net
    BY <1>1, <1>2, CreditIsNet DEF Changed
  <1>6. SettlementRow(t).gross = a /\ SettlementRow(t).net = net
    BY DEF SettlementRow
  <1>7. Total(accounts) = SumFunctionOnSet(f, Parties) /\ Total(after) = SumFunctionOnSet(g, Parties)
    BY DEF Total
  <1>8. \A p \in Parties : f[p] \in Int /\ g[p] \in Int
    BY <1>1, <1>3, <1>4, <1>5
  <1>. HIDE DEF from, to, a, net, after, f, g
  <1>. DEFINE rest  == Parties \ {from}
              rest2 == rest \ {to}
  <1>9. /\ IsFiniteSet(rest) /\ IsFiniteSet(rest2)
        /\ SumFunctionOnSet(f, Parties) = f[from] + SumFunctionOnSet(f, rest)
        /\ SumFunctionOnSet(g, Parties) = g[from] + SumFunctionOnSet(g, rest)
        /\ SumFunctionOnSet(f, rest) \in Int
    BY <1>1, <1>8, SumWithout, SumType, FS_RemoveElement
  <1>10. CASE from = to
    <2>1. SumFunctionOnSet(f, rest) = SumFunctionOnSet(g, rest)
      BY <1>3, <1>9, <1>10, SumOfEqual
    <2>. QED
      BY <1>1, <1>4, <1>6, <1>7, <1>8, <1>9, <1>10, <2>1 DEF after, net, a
  <1>11. CASE from # to
    <2>1. to \in rest
      BY <1>1, <1>11
    <2>2. \A p \in rest : f[p] \in Int /\ g[p] \in Int
      BY <1>8
    <2>3. /\ SumFunctionOnSet(f, rest) = f[to] + SumFunctionOnSet(f, rest2)
          /\ SumFunctionOnSet(g, rest) = g[to] + SumFunctionOnSet(g, rest2)
          /\ SumFunctionOnSet(f, rest2) \in Int
      <3>. HIDE DEF rest
      <3>. QED
        BY <1>9, <2>1, <2>2, SumWithout, SumType
    <2>4. SumFunctionOnSet(f, rest2) = SumFunctionOnSet(g, rest2)
      BY <1>3, <1>9, SumOfEqual
    <2>. QED
      BY <1>1, <1>5, <1>6, <1>7, <1>8, <1>9, <1>11, <2>3, <2>4 DEF after
  <1>. QED
    BY <1>10, <1>11

\* What a longer table keeps back.
LEMMA KeptLonger ==
  ASSUME NEW table \in Seq(Rows), NEW t \in Txns
  PROVE  /\ Kept(table) \in Int
         /\ Kept(Append(table, SettlementRow(t)))
                = Kept(table) + (SettlementRow(t).gross - SettlementRow(t).net)
  <1>. DEFINE longer == Append(table, SettlementRow(t))
              n      == Len(table) + 1
              f      == [i \in DOMAIN table |-> table[i].gross - table[i].net]
              g      == [i \in DOMAIN longer |-> longer[i].gross - longer[i].net]
  <1>1. ASSUME NEW r \in Rows
        PROVE  r.gross - r.net \in Int
    <2>1. PICK u \in Txns : r = SettlementRow(u)
      BY DEF Rows
    <2>2. r.gross = Amount[u] /\ r.net = Stored(MerchantCredit(Amount[u]))
      BY <2>1 DEF SettlementRow
    <2>3. Amount[u] \in Nat /\ Stored(MerchantCredit(Amount[u])) \in Nat
      BY AmountAssumption, CreditIsNet
    <2>. QED
      BY <2>2, <2>3
  <1>2. /\ DOMAIN table = 1 .. Len(table)
        /\ DOMAIN longer = 1 .. n
        /\ Len(table) \in Nat
        /\ \A i \in DOMAIN table : table[i] \in Rows /\ longer[i] = table[i]
        /\ longer[n] = SettlementRow(t)
    BY Longer
  <1>3. /\ \A i \in DOMAIN table : f[i] \in Int /\ g[i] = f[i]
        /\ g[n] = SettlementRow(t).gross - SettlementRow(t).net
        /\ g[n] \in Int
    BY <1>1, <1>2, RowTypes
  <1>4. /\ n \in DOMAIN longer
        /\ DOMAIN longer \ {n} = DOMAIN table
        /\ IsFiniteSet(DOMAIN table) /\ IsFiniteSet(DOMAIN longer)
    <2>1. n \in Int /\ Len(table) \in Int /\ n \in 1 .. n /\ (1 .. n) \ {n} = 1 .. Len(table)
      BY <1>2
    <2>2. IsFiniteSet(1 .. n) /\ IsFiniteSet(1 .. Len(table))
      BY <2>1, FS_Interval
    <2>. HIDE DEF longer, n
    <2>. QED
      BY <1>2, <2>1, <2>2
  <1>5. /\ Kept(table) = SumFunctionOnSet(f, DOMAIN table)
        /\ Kept(longer) = SumFunctionOnSet(g, DOMAIN longer)
    BY DEF Kept
  <1>. HIDE DEF f, g, n, longer
  <1>6. \A i \in DOMAIN longer : g[i] \in Int
    BY <1>3, <1>4
  <1>7. SumFunctionOnSet(g, DOMAIN longer) = g[n] + SumFunctionOnSet(g, DOMAIN table)
    BY <1>4, <1>6, SumWithout
  <1>8. /\ SumFunctionOnSet(g, DOMAIN table) = SumFunctionOnSet(f, DOMAIN table)
        /\ SumFunctionOnSet(f, DOMAIN table) \in Int
    BY <1>3, <1>4, SumOfEqual, SumType
  <1>. QED
    BY <1>3, <1>5, <1>7, <1>8 DEF longer

LEMMA KeptNone == Kept(<<>>) = 0
  <1>1. DOMAIN <<>> = {}
    OBVIOUS
  <1>. QED
    BY <1>1, SumOfNone DEF Kept

-----------------------------------------------------------------------------
(***************************************************************************)
(* What is owed.                                                           *)
(***************************************************************************)

\* Settling a payment takes it off what its payer owes.
LEMMA OwedLess ==
  ASSUME IsFiniteSet(Txns), NEW table \in Seq(Rows), NEW t \in Txns, ~IsSettled(table, t),
         NEW p \in Parties
  PROVE  /\ Owed(table, p) \in Nat
         /\ Owed(Append(table, SettlementRow(t)), p)
                = Owed(table, p) - (IF p = Payer[t] THEN Amount[t] ELSE 0)
  <1>. DEFINE due == {u \in Txns : Payer[u] = p /\ ~IsSettled(table, u)}
  <1>1. {u \in Txns : Payer[u] = p /\ ~IsSettled(Append(table, SettlementRow(t)), u)}
            = due \ {t}
    BY AppendedRow
  <1>2. IsFiniteSet(due) /\ \A u \in due : Amount[u] \in Nat
    BY FS_Subset, AmountAssumption
  <1>3. /\ Owed(table, p) = SumFunctionOnSet(Amount, due)
        /\ Owed(Append(table, SettlementRow(t)), p) = SumFunctionOnSet(Amount, due \ {t})
    BY <1>1 DEF Owed
  <1>4. t \in due <=> p = Payer[t]
    OBVIOUS
  <1>. HIDE DEF due
  <1>5. SumFunctionOnSet(Amount, due) \in Nat
    BY <1>2, SumNat
  <1>6. CASE t \in due
    <2>1. SumFunctionOnSet(Amount, due)
              = Amount[t] + SumFunctionOnSet(Amount, due \ {t})
      BY <1>2, <1>6, SumWithout
    <2>2. SumFunctionOnSet(Amount, due \ {t}) \in Nat
      BY <1>2, SumNat, FS_Subset
    <2>3. Amount[t] \in Nat
      BY AmountAssumption
    <2>. QED
      BY <1>3, <1>4, <1>5, <1>6, <2>1, <2>2, <2>3
  <1>7. CASE t \notin due
    <2>1. due \ {t} = due
      BY <1>7
    <2>2. Owed(Append(table, SettlementRow(t)), p) = Owed(table, p)
      BY <1>3, <2>1, Zenon
    <2>. QED
      BY <1>3, <1>4, <1>5, <1>7, <2>2
  <1>. QED
    BY <1>6, <1>7

\* Nobody but the payer loses by a payment, and the payer no more than the amount.
LEMMA TransferCosts ==
  ASSUME NEW accounts \in [Parties -> Account], NEW t \in Txns, NEW p \in Parties
  PROVE  Transferred(accounts, t)[p].balance
             >= accounts[p].balance - (IF p = Payer[t] THEN Amount[t] ELSE 0)
  <1>1. accounts[p].balance \in Nat /\ Amount[t] \in Nat
    BY AmountAssumption DEF Account
  <1>2. Transferred(accounts, t)[p] = Changed(accounts[p], t, p)
    BY TransferredAt
  <1>. QED
    BY <1>1, <1>2, CreditIsNet DEF Changed

\* One who can pay all that it owes can pay each part of it.
LEMMA OwedParts ==
  ASSUME IsFiniteSet(Txns), NEW table, NEW t \in Txns, ~IsSettled(table, t)
  PROVE  Owed(table, Payer[t]) \in Nat /\ Amount[t] <= Owed(table, Payer[t])
  <1>. DEFINE due == {u \in Txns : Payer[u] = Payer[t] /\ ~IsSettled(table, u)}
  <1>1. /\ t \in due
        /\ IsFiniteSet(due) /\ IsFiniteSet(due \ {t})
        /\ \A u \in due : Amount[u] \in Nat
        /\ Owed(table, Payer[t]) = SumFunctionOnSet(Amount, due)
    BY FS_Subset, AmountAssumption DEF Owed
  <1>. HIDE DEF due
  <1>2. SumFunctionOnSet(Amount, due)
            = Amount[t] + SumFunctionOnSet(Amount, due \ {t})
    BY <1>1, SumWithout
  <1>3. SumFunctionOnSet(Amount, due \ {t}) \in Nat
    BY <1>1, SumNat
  <1>. QED
    BY <1>1, <1>2, <1>3
=============================================================================
