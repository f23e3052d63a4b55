---------------------------- MODULE LedgerProofs ----------------------------
(***************************************************************************)
(* Proofs about module Ledger, for any parties, transactions, amounts and  *)
(* opening accounts.  The proofs about the modules that take its steps     *)
(* instantiate this one.                                                   *)
(***************************************************************************)
EXTENDS Ledger, BooksProofs

TablesOK ==
    /\ account \in [Parties -> Account]
    /\ status \in [Txns -> Status]
    /\ settlements \in Seq(Rows)

NoneSettledTwice ==
    \A i, j \in DOMAIN settlements : settlements[i].txn = settlements[j].txn => i = j

LEMMA InitTables == Init => TablesOK
  BY OpeningAssumption DEF Init, TablesOK, Status

\* Each step of the ledger leaves tables of the right type.
LEMMA StepTables ==
  ASSUME TablesOK, [Next]_vars
  PROVE  TablesOK'
  <1>1. CASE UNCHANGED vars
    BY <1>1 DEF TablesOK, vars
  <1>2. ASSUME NEW t \in Txns, Submit(t) PROVE TablesOK'
    BY <1>2 DEF Submit, TablesOK, Status
  <1>3. ASSUME NEW t \in Txns, Decline(t) PROVE TablesOK'
    BY <1>3 DEF Decline, TablesOK, Status
  <1>4. ASSUME NEW t \in Txns, Settle(t) PROVE TablesOK'
    <2>1. account' \in [Parties -> Account]
      BY <1>4, TransferredType DEF Settle, TablesOK
    <2>2. SettlementRow(t) \in Rows
      BY DEF Rows
    <2>3. settlements' \in Seq(Rows)
      BY <1>4, <2>2 DEF Settle, TablesOK
    <2>4. status' \in [Txns -> Status]
      BY <1>4 DEF Settle, TablesOK, Status
    <2>. QED
      BY <2>1, <2>3, <2>4 DEF TablesOK
  <1>. QED
    BY <1>1, <1>2, <1>3, <1>4 DEF Next

\* A settlement is of a transaction that had none.
LEMMA StepNoneTwice ==
  ASSUME TablesOK, NoneSettledTwice, [Next]_vars
  PROVE  NoneSettledTwice'
  <1>1. CASE UNCHANGED settlements
    BY <1>1 DEF NoneSettledTwice
  <1>2. ASSUME NEW t \in Txns, Settle(t) PROVE NoneSettledTwice'
    <2>1. /\ settlements \in Seq(Rows)
          /\ settlements' = Append(settlements, SettlementRow(t))
          /\ \A i \in DOMAIN settlements : settlements[i].txn # t
      BY <1>2 DEF TablesOK, Settle, IsSettled, RowsOf
    <2>2. SettlementRow(t).txn = t
      BY DEF SettlementRow
    <2>3. /\ DOMAIN settlements' = 1 .. Len(settlements) + 1
          /\ DOMAIN settlements = 1 .. Len(settlements)
          /\ Len(settlements) \in Nat
          /\ \A i \in 1 .. Len(settlements) : settlements'[i] = settlements[i]
          /\ settlements'[Len(settlements) + 1] = SettlementRow(t)
      BY <2>1
    <2>. QED
      BY <2>1, <2>2, <2>3 DEF NoneSettledTwice
  <1>. QED
    BY <1>1, <1>2 DEF Next, Submit, Decline, vars

\* Every settlement is replayed, and nothing else has changed the accounts.
LEMMA StepBooks ==
  ASSUME TablesOK, BooksBalance, [Next]_vars
  PROVE  BooksBalance'
  <1>1. CASE UNCHANGED <<account, settlements>>
    BY <1>1 DEF BooksBalance
  <1>2. ASSUME NEW t \in Txns, Settle(t) PROVE BooksBalance'
    <2>1. /\ settlements' = Append(settlements, SettlementRow(t))
          /\ account' = Transferred(account, t)
      BY <1>2 DEF Settle
    <2>2. settlements \in Seq(Rows)
      BY DEF TablesOK
    <2>3. Replay(settlements')[Len(settlements) + 1]
              = Transferred(Replay(settlements)[Len(settlements)], t)
      BY <2>1, <2>2, ReplayLonger
    <2>4. Len(settlements') = Len(settlements) + 1
      BY <2>1, <2>2, Longer
    <2>. QED
      BY <2>1, <2>3, <2>4 DEF BooksBalance
  <1>. QED
    BY <1>1, <1>2 DEF Next, Submit, Decline, vars

\* What a settlement takes out of the accounts it keeps back.
LEMMA StepMoney ==
  ASSUME IsFiniteSet(Parties), TablesOK, MoneyAccountedFor, [Next]_vars
  PROVE  MoneyAccountedFor'
  <1>1. CASE UNCHANGED <<account, settlements>>
    BY <1>1 DEF MoneyAccountedFor
  <1>2. ASSUME NEW t \in Txns, Settle(t) PROVE MoneyAccountedFor'
    <2>. DEFINE kept == SettlementRow(t).gross - SettlementRow(t).net
    <2>1. /\ settlements' = Append(settlements, SettlementRow(t))
          /\ account' = Transferred(account, t)
          /\ account[Payer[t]].balance >= Amount[t]
          /\ account \in [Parties -> Account]
          /\ settlements \in Seq(Rows)
      BY <1>2 DEF Settle, TablesOK
    <2>2. Total(account) \in Int /\ Total(account') = Total(account) - kept
      BY <2>1, TransferTotal
    <2>3. Kept(settlements) \in Int /\ Kept(settlements') = Kept(settlements) + kept
      BY <2>1, KeptLonger
    <2>4. kept \in Int
      <3>1. Amount[t] \in Nat /\ Stored(MerchantCredit(Amount[t])) \in Nat
        BY AmountAssumption, CreditIsNet
      <3>. QED
        BY <3>1 DEF SettlementRow
    <2>5. /\ MoneyAccountedFor' <=> Total(account') + Kept(settlements') = Total(Opening)
          /\ MoneyAccountedFor <=> Total(account) + Kept(settlements) = Total(Opening)
      BY DEF MoneyAccountedFor
    <2>. HIDE DEF kept
    <2>. QED
      BY <2>2, <2>3, <2>4, <2>5
  <1>. QED
    BY <1>1, <1>2 DEF Next, Submit, Decline, vars

LEMMA StepDues ==
  ASSUME IsFiniteSet(Txns), TablesOK, DuesStayCovered, [Next]_vars
  PROVE  DuesStayCovered'
  <1>1. CASE UNCHANGED <<account, settlements>>
    BY <1>1 DEF DuesStayCovered
  <1>2. ASSUME NEW t \in Txns, Settle(t), NEW p \in Parties, Covered(p)
        PROVE  account'[p].balance >= Owed(settlements', p)
    <2>. DEFINE paid == IF p = Payer[t] THEN Amount[t] ELSE 0
    <2>1. /\ account \in [Parties -> Account]
          /\ account' \in [Parties -> Account]
          /\ settlements \in Seq(Rows)
      BY <1>2, TransferredType DEF Settle, TablesOK
    <2>2. Owed(settlements, p) \in Nat /\ Owed(settlements', p) = Owed(settlements, p) - paid
      BY <1>2, <2>1, OwedLess DEF Settle
    <2>3. account'[p].balance >= account[p].balance - paid
      BY <1>2, <2>1, TransferCosts DEF Settle
    <2>4. account[p].balance \in Nat /\ account'[p].balance \in Nat /\ paid \in Nat
      BY <2>1, AmountAssumption DEF Account
    <2>5. account[p].balance >= Owed(settlements, p)
      BY <1>2 DEF DuesStayCovered
    <2>. HIDE DEF paid
    <2>. QED
      BY <2>2, <2>3, <2>4, <2>5
  <1>. QED
    BY <1>1, <1>2 DEF Next, Submit, Decline, vars, DuesStayCovered

LEMMA StepVerdicts ==
  ASSUME TablesOK, VerdictsAndSettlements, [Next]_vars
  PROVE  VerdictsAndSettlements'
  <1>1. CASE UNCHANGED vars
    BY <1>1 DEF VerdictsAndSettlements, vars
  <1>2. ASSUME NEW t \in Txns, Submit(t) PROVE VerdictsAndSettlements'
    BY <1>2 DEF Submit, TablesOK, VerdictsAndSettlements
  <1>3. ASSUME NEW t \in Txns, Decline(t) PROVE VerdictsAndSettlements'
    BY <1>3 DEF Decline, TablesOK, VerdictsAndSettlements
  <1>4. ASSUME NEW t \in Txns, Settle(t) PROVE VerdictsAndSettlements'
    <2>1. \A u : IsSettled(settlements', u) <=> IsSettled(settlements, u) \/ u = t
      BY <1>4, AppendedRow DEF Settle, TablesOK
    <2>2. /\ status' = [status EXCEPT ![t] = "APPROVED"]
          /\ status \in [Txns -> Status]
      BY <1>4 DEF Settle, TablesOK
    <2>. QED
      BY <2>1, <2>2 DEF VerdictsAndSettlements
  <1>. QED
    BY <1>1, <1>2, <1>3, <1>4 DEF Next

LEMMA NothingSettled == ~\E t : IsSettled(<<>>, t)
  BY DEF IsSettled, RowsOf

(***************************************************************************)
(* What the ledger promises of the tables: no balance is negative, no      *)
(* transaction is settled twice, the accounts are what the settlements     *)
(* make them, and a settled transaction has a verdict.                     *)
(***************************************************************************)
LedgerInv == TablesOK /\ NoneSettledTwice /\ BooksBalance /\ VerdictsAndSettlements

\* The ledger keeps its tables in order, whatever is submitted and decided.
THEOREM LedgerIsSafe == Spec => []LedgerInv
  <1>1. Init => LedgerInv
    <2>. SUFFICES ASSUME Init PROVE LedgerInv
      OBVIOUS
    <2>1. TablesOK /\ NoneSettledTwice
      BY InitTables DEF Init, NoneSettledTwice
    <2>2. BooksBalance
      <3>1. Len(<<>>) = 0
        OBVIOUS
      <3>. QED
        BY <3>1, ReplayIs DEF Init, BooksBalance
    <2>3. VerdictsAndSettlements
      BY NothingSettled DEF Init, VerdictsAndSettlements
    <2>. QED
      BY <2>1, <2>2, <2>3 DEF LedgerInv
  <1>2. LedgerInv /\ [Next]_vars => LedgerInv'
    BY StepTables, StepNoneTwice, StepBooks, StepVerdicts DEF LedgerInv
  <1>. QED
    BY <1>1, <1>2, PTL DEF Spec

(***************************************************************************)
(* Nor does it make or lose a cent, however many parties there are.        *)
(***************************************************************************)
THEOREM LedgerKeepsMoney ==
  ASSUME IsFiniteSet(Parties)
  PROVE  Spec => []MoneyAccountedFor
  <1>1. Init => MoneyAccountedFor
    <2>1. Total(Opening) \in Int
      <3>1. \A p \in Parties : Opening[p].balance \in Int
        BY OpeningAssumption DEF Account
      <3>. QED
        BY <3>1, SumType DEF Total
    <2>. QED
      BY <2>1, KeptNone DEF Init, MoneyAccountedFor
  <1>2. LedgerInv /\ MoneyAccountedFor /\ [Next]_vars => MoneyAccountedFor'
    BY StepMoney DEF LedgerInv
  <1>. QED
    BY <1>1, <1>2, LedgerIsSafe, PTL DEF Spec

(***************************************************************************)
(* Nor does it charge a party more than its transactions come to.          *)
(***************************************************************************)
THEOREM LedgerCoversDues ==
  ASSUME IsFiniteSet(Txns)
  PROVE  Spec => []DuesStayCovered
  <1>1. Init => DuesStayCovered
    BY DEF Init, DuesStayCovered, Covered
  <1>2. LedgerInv /\ DuesStayCovered /\ [Next]_vars => DuesStayCovered'
    BY StepDues DEF LedgerInv
  <1>. QED
    BY <1>1, <1>2, LedgerIsSafe, PTL DEF Spec

(***************************************************************************)
(* An account that has a row keeps it: a party that had one at first is    *)
(* never a newcomer (settlement.py 253, 298).                              *)
(***************************************************************************)
RowsStay == \A p \in Parties : HasRow(Opening[p]) => HasRow(account[p])

LEMMA LedgerKeepsRows == Spec => []RowsStay
  <1>1. Init => RowsStay
    BY DEF Init, RowsStay
  <1>2. LedgerInv /\ RowsStay /\ [Next]_vars => RowsStay'
    <2>. SUFFICES ASSUME LedgerInv, RowsStay, [Next]_vars PROVE RowsStay'
      OBVIOUS
    <2>1. CASE UNCHANGED account
      BY <2>1 DEF RowsStay
    <2>2. ASSUME NEW t \in Txns, Settle(t) PROVE RowsStay'
      <3>1. /\ account' = Transferred(account, t)
            /\ account \in [Parties -> Account]
        BY <2>2 DEF Settle, LedgerInv, TablesOK
      <3>2. \A p \in Parties : account[p].version \in Nat
        BY <3>1 DEF Account
      <3>. QED
        BY <3>1, <3>2 DEF RowsStay, Transferred, Opened, HasRow
    <2>. QED
      BY <2>1, <2>2 DEF Next, Submit, Decline, vars
  <1>. QED
    BY <1>1, <1>2, LedgerIsSafe, PTL DEF Spec

\* Where everybody is covered, nobody is ever short of money.
NobodyIsShort ==
    \A t \in Txns : IsSettled(settlements, t) \/ account[Payer[t]].balance >= Amount[t]

LEMMA CoveredIsEnough ==
  ASSUME IsFiniteSet(Txns), \A p \in Parties : Covered(p), TablesOK, DuesStayCovered
  PROVE  NobodyIsShort
  <1>. SUFFICES ASSUME NEW t \in Txns, ~IsSettled(settlements, t)
                PROVE  account[Payer[t]].balance >= Amount[t]
    BY DEF NobodyIsShort
  <1>1. Payer[t] \in Parties /\ Amount[t] \in Nat
    BY PartiesAssumption, AmountAssumption
  <1>2. account[Payer[t]].balance \in Nat
    BY <1>1 DEF TablesOK, Account
  <1>3. account[Payer[t]].balance >= Owed(settlements, Payer[t])
    BY <1>1 DEF DuesStayCovered
  <1>. QED
    BY <1>1, <1>2, <1>3, OwedParts
=============================================================================
